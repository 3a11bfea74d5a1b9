--------------------------- MODULE EvaluationDomain ---------------------------
(* The evaluation domain of 2^K points and its extension by cosets, with every    *)
(* arm a transform can take: one kernel over the whole vector, or, when a memory  *)
(* query says the vector does not fit, the split-radix transform that folds the   *)
(* vector on the host and sends the device one residue class at a time.           *)
(* A kernel's butterfly levels are abstracted to the sums they compute.           *)
EXTENDS Integers, FiniteSets, SequencesExt

CONSTANTS
    Prime,                \* of the scalar field
    K, ExtendedK,         \* logarithms of the two domains' sizes
    Omega, ExtendedOmega, \* their generators
    Zeta,                 \* g_coset, a cube root of one
    QuotientPolyDegree,   \* pieces of the quotient
    DenseDegree           \* DENSE_POWER_DEGREE of the twiddles' table

Scalars  == 0..(Prime - 1)
TwoTo(k) == LET power[i \in 0..k] == IF i = 0 THEN 1 ELSE 2 * power[i - 1] IN power[k]

n           == TwoTo(K)
ExtendedLen == TwoTo(ExtendedK)
NumParts    == TwoTo(ExtendedK - K)

Whole(s)    == SubSeq(s, 1, Len(s))
Plus(a, b)  == (a + b) % Prime
Minus(a, b) == (a + Prime - b) % Prime
Times(a, b) == (a * b) % Prime
Power(a, k)  ==
    LET power[i \in 0..k] ==
            IF i = 0 THEN 1
            ELSE IF i % 2 = 1 THEN Times(power[i - 1], a)
            ELSE LET half == power[i \div 2] IN Times(half, half)
    IN  power[k]
Powers(c, length) == Whole([i \in 1..length |-> Power(c, i - 1)])
Inverted(a)  == Power(a, Prime - 2)
Eval(poly, x) ==
    LET tail[i \in 1..(Len(poly) + 1)] ==
            IF i > Len(poly) THEN 0 ELSE Plus(poly[i], Times(tail[i + 1], x))
    IN  tail[1]

ASSUME FieldAssumption ==
    /\ Prime \in Nat /\ Prime > 2
    /\ \A a \in Scalars \ {0} : Times(a, Inverted(a)) = 1

\* The domain's generator is the extended one to the number of parts.
ASSUME DomainAssumption ==
    /\ K \in Nat \ {0} /\ ExtendedK \in Nat /\ K <= ExtendedK
    /\ QuotientPolyDegree \in 1..NumParts
    /\ {Omega, ExtendedOmega, Zeta} \subseteq Scalars \ {0}
    /\ Power(ExtendedOmega, NumParts) = Omega
    /\ Power(ExtendedOmega, ExtendedLen) = 1
    /\ \A i \in 1..(ExtendedLen - 1) : Power(ExtendedOmega, i) # 1
    /\ Power(Zeta, 3) = 1 /\ Zeta # 1
    \* generate_omega_lut_gpu shifts by the difference, whatever its sign.
    /\ DenseDegree \in 0..K

OmegaInv    == Inverted(Omega)
IfftDivisor == Inverted(n % Prime)

(* ------------------------------- the kernels ------------------------------ *)

\* FFT: out[i] sums in[j] omega^(i j).
Sums(a, omega) ==
    LET points == Powers(omega, Len(a))
    IN  Whole([i \in 1..Len(a) |-> Eval(a, points[i])])

ScaledBy(a, c)    == Whole([i \in 1..Len(a) |-> Times(a[i], c)])
TwistedBy(a, c)   == LET powers == Powers(c, Len(a))
                     IN  Whole([i \in 1..Len(a) |-> Times(a[i], powers[i])])
PaddedTo(a, length) == a \o [i \in 1..(length - Len(a)) |-> 0]

\* distribute_powers_zeta, with the powers of the way into the coset or out of it.
DistributePowersZeta(a, powers) ==
    Whole([i \in 1..Len(a) |->
        LET r == (i - 1) % (Len(powers) + 1) IN IF r = 0 THEN a[i] ELSE Times(a[i], powers[r])])

IntoCoset == <<Zeta, Times(Zeta, Zeta)>>
OutOfCoset == <<Times(Zeta, Zeta), Zeta>>

\* What run_fft and run_fft_many do of each kind; the divisor's slot holds the
\* coset's generator for a part.
Kernel(kind, a, omega, divisor) ==
    CASE kind = "FFT"           -> Sums(a, omega)
      [] kind = "iFFT"          -> ScaledBy(Sums(a, omega), divisor)
      [] kind = "CosetFFT_Part" -> Sums(TwistedBy(a, divisor), omega)
      [] kind = "CosetFFT"      ->
            Sums(DistributePowersZeta(PaddedTo(a, ExtendedLen), IntoCoset), omega)

FftGpu(kind, a, omega, divisor) == Kernel(kind, a, omega, divisor)

\* A batch whose outputs stay on the device, from vectors on the host or on it.
IfftToDevice(vectors) ==
    [c \in DOMAIN vectors |-> Kernel("iFFT", vectors[c], OmegaInv, IfftDivisor)]
CosetFftToDevice(vectors, shift) ==
    [c \in DOMAIN vectors |-> Kernel("CosetFFT_Part", vectors[c], Omega, shift)]

CosetFftGpu(a) == Kernel("CosetFFT", a, ExtendedOmega, 1)

\* fft_normal_device over the extended domain.
ExtendedIfft(a) ==
    Kernel("iFFT", a, Inverted(ExtendedOmega), Inverted(ExtendedLen % Prime))

(* ------------------------------- split radix ------------------------------ *)

Fits == [fits |-> TRUE, split |-> 0]

\* What the two memory queries may answer: that the vector fits, or the logarithm of
\* a split, from the domain's size even when the extended vector is transformed.
\* The queries are the CUDA library's; its shims of today always answer that it fits.
Answers == {Fits} \cup [fits : {FALSE}, split : -1..(K - 1)]

\* get_fft_split_radix_gpu refuses both "no split fits" and "no split needed".
Refused(answer) == ~answer.fits /\ answer.split < 1

\* generate_omega_lut_gpu: the low powers, then the powers of 2^DenseDegree.
OmegaLut(omega, log) ==
    Powers(omega, TwoTo(DenseDegree))
        \o Powers(Power(omega, TwoTo(DenseDegree)), TwoTo(log - DenseDegree))

\* Mutant: the table's high half is read from its start.
LowTwiddle(lut, index) == Times(lut[1 + (index % TwoTo(DenseDegree))],
                                lut[1 + (index \div TwoTo(DenseDegree))])

Twiddle(lut, index) == Times(lut[1 + (index % TwoTo(DenseDegree))],
                             lut[1 + TwoTo(DenseDegree) + (index \div TwoTo(DenseDegree))])

\* The j-th residue class: its inputs folded, twisted by the class.
Prologue(a, omega, j, log, logSplit) ==
    LET lut  == OmegaLut(omega, log)
        logN == log - logSplit
        term(i, s) == Times(a[1 + ((i + s * TwoTo(logN)) % TwoTo(log))],
                            Twiddle(lut, (i * j + s * j * TwoTo(logN)) % TwoTo(log)))
        sum(i) == LET upto[s \in 0..(TwoTo(logSplit) - 1)] ==
                          IF s = 0 THEN term(i, 0) ELSE Plus(upto[s - 1], term(i, s))
                  IN  upto[TwoTo(logSplit) - 1]
    IN  Whole([i1 \in 1..TwoTo(logN) |-> sum(i1 - 1)])

\* Outputs interleaved again, and scaled for an inverse transform.
Epilogue(kind, tmp, divisor, logSplit) ==
    LET chunk == Len(tmp) \div TwoTo(logSplit)
        at(i) == tmp[1 + chunk * (i % TwoTo(logSplit)) + (i \div TwoTo(logSplit))]
    IN  Whole([i1 \in 1..Len(tmp) |->
            IF kind = "iFFT" THEN Times(at(i1 - 1), divisor) ELSE at(i1 - 1)])

SplitRadix(kind, given, omega, divisor, logSplit) ==
    LET log  == IF kind = "CosetFFT" THEN ExtendedK ELSE K
        a    == IF kind = "CosetFFT_Part" THEN TwistedBy(given, divisor) ELSE given
        new  == Power(omega, TwoTo(logSplit))
        tmp  == FlattenSeq([j1 \in 1..TwoTo(logSplit) |->
                    Kernel("FFT", Prologue(a, omega, j1 - 1, log, logSplit), new, 1)])
    IN  Epilogue(kind, tmp, divisor, logSplit)

\* fft_gpu, fft_many, ifft_many and the first half of ifft_cosetfftpart_gpu.
Transform(kind, a, omega, divisor, answer) ==
    IF answer.fits THEN FftGpu(kind, a, omega, divisor)
    ELSE SplitRadix(kind, a, omega, divisor, answer.split)

(* ------------------------------ the conversions --------------------------- *)

LagrangeToCoeff(a, answer) == Transform("iFFT", a, OmegaInv, IfftDivisor, answer)

CoeffToExtendedPart(a, factor, answer) ==
    Transform("CosetFFT_Part", a, Omega, Times(Zeta, factor), answer)

\* ifft_cosetfftpart_gpu: one query decides both halves.
LagrangeToExtendPart(a, factor, first, second) ==
    CoeffToExtendedPart(LagrangeToCoeff(a, first), factor, second)

\* coset_fft_single_gpu: the copy is padded and moved into the coset on the host.
CoeffToExtended(a, answer) ==
    IF answer.fits THEN CosetFftGpu(a)
    ELSE SplitRadix("CosetFFT",
            DistributePowersZeta(PaddedTo(a, ExtendedLen), IntoCoset),
            ExtendedOmega, 1, answer.split)

\* The parts interleaved: the extended vector's i-th value is its part's i / NumParts.
ExtendedFromLagrangeVec(parts) ==
    Whole([i \in 1..(Len(parts) * n) |->
        parts[1 + ((i - 1) % Len(parts))][1 + ((i - 1) \div Len(parts))]])

\* The inverses of zeta^n w^(n i) - 1: t_evaluations repeats with the parts.
TEvaluations ==
    LET shift == Power(Zeta, n) step == Power(ExtendedOmega, n)
    IN  Whole([i \in 1..NumParts |->
            Inverted(Minus(Times(shift, Power(step, i - 1)), 1))])

DivideByVanishingPoly(a) ==
    LET t == TEvaluations
    IN  Whole([i \in 1..Len(a) |-> Times(a[i], t[1 + ((i - 1) % Len(t))])])

\* Mutant: leaving the coset by the powers that enter it.
StayingInCoset(a) ==
    SubSeq(DistributePowersZeta(ExtendedIfft(a), IntoCoset), 1, n * QuotientPolyDegree)

ExtendedToCoeff(a) ==
    SubSeq(DistributePowersZeta(ExtendedIfft(a), OutOfCoset), 1, n * QuotientPolyDegree)
===============================================================================
