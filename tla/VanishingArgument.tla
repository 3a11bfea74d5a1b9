-------------------------- MODULE VanishingArgument ---------------------------
(* One gate's way through the evaluation domain and the vanishing argument: the   *)
(* columns to coefficients, to each coset of the extended domain, the gate's      *)
(* values gathered, divided by X^n - 1, brought back to coefficients, cut into    *)
(* pieces, committed and folded at the challenge, and the verifier's check.       *)
(* Every vector is on the host or on the device and every call takes the arm of   *)
(* its residency. A commitment is the polynomial it commits to.                   *)
EXTENDS EvaluationDomain

CONSTANTS
    Columns,            \* the columns' vectors a run may start from
    Gate(_),            \* of a row's values of the columns
    GatePoly(_),        \* the coefficients of the gate along some columns
    Builds,             \* whether the build has the feature vram-fallback
    Points              \* challenges x the run may draw

ASSUME PointsOutside ==
    /\ Builds \subseteq BOOLEAN
    \* A challenge in the domain makes the verifier's inversion of x^n - 1 panic.
    /\ \A x \in Points : x \in Scalars /\ Power(x, n) # 1

\* The domain was sized for the gate's degree, which is one more than the quotient's.
ASSUME GateAssumption ==
    \A cs \in Columns :
        /\ cs \in Seq([1..n -> Scalars]) /\ cs # <<>>
        /\ GatePoly(cs) \in [1..((QuotientPolyDegree + 1) * n) -> Scalars]
        /\ \A x \in Scalars :
              Gate([c \in DOMAIN cs |-> Eval(LagrangeToCoeff(cs[c], Fits), x)])
                  = Eval(GatePoly(cs), x)

VARIABLES
    fallback, columns, resident, \* the build, the vectors and where they are
    stage,
    polys,      \* [at, values]: the columns' coefficients
    factor,     \* of the next part: a power of the extended generator
    cosets,     \* the columns' values on the last part, or on all of them
    parts,      \* the gate's values of the parts so far, each [at, values]
    h,          \* [at, values]: over the extended domain
    pieces,     \* of the quotient, each committed to
    random,     \* the random polynomial: constant, zero knowledge being off
    point, hPoly, \* the challenge, and the pieces folded at it
    accepted

input == <<fallback, columns, resident>>
forms == <<polys, factor, cosets, parts>>
proof == <<random, pieces, point, hPoly, accepted>>
vars  == <<input, stage, forms, h, proof>>

Held(at, values) == [at |-> at, values |-> values]
Rows(vectors) == Whole([r \in 1..Len(vectors[1]) |->
                    Gate([c \in 1..Len(vectors) |-> vectors[c][r]])])

Init ==
    /\ fallback \in Builds /\ columns \in Columns
    /\ resident \in {"host", "device"}
    /\ stage = "columns"
    /\ polys = Held("host", <<>>) /\ factor = 1 /\ cosets = <<>> /\ parts = <<>>
    /\ h = Held("host", <<>>)
    /\ random = <<>> /\ pieces = Held("host", <<>>) /\ point = 0
    /\ hPoly = <<>> /\ accepted = FALSE

Fail == stage' = "error" /\ UNCHANGED <<input, forms, h, proof>>

\* One query for the batch, and when it does not fit a split for each column.
Queries == UNION {[DOMAIN columns -> {Fits}], [DOMAIN columns -> Answers \ {Fits}]}

(* ------------------------------- to coefficients -------------------------- *)

\* vanishing.commit draws nothing: the polynomial is the constant one.
CommitRandom == random' = PaddedTo(<<1>>, n)

Interpolated(at, values) ==
    /\ polys' = Held(at, values)
    /\ stage' = "extend"
    /\ CommitRandom
    /\ UNCHANGED <<input, factor, cosets, parts, h, pieces, point, hPoly, accepted>>

InterpolateOnHost ==
    /\ stage = "columns" /\ resident = "host"
    /\ \E answers \in Queries :
           IF \E c \in DOMAIN columns : Refused(answers[c]) THEN Fail
           ELSE Interpolated("host", [c \in DOMAIN columns |->
                    LagrangeToCoeff(columns[c], answers[c])])

\* lagrange_to_coeff_device and lagrange_to_coeff_many_device.
InterpolateToDevice ==
    /\ stage = "columns" /\ resident = "host"
    /\ Interpolated("device", IfftToDevice(columns))

\* lagrange_to_coeff_device_input and lagrange_to_coeff_many_device_inputs: neither
\* asks for memory first nor falls back.
InterpolateOnDevice ==
    /\ stage = "columns" /\ resident = "device"
    /\ Interpolated("device", IfftToDevice(columns))

(* ------------------------------ onto the cosets --------------------------- *)

Extended(at, values) ==
    /\ cosets' = values
    /\ parts' = Append(parts, Held(at, Rows(values)))
    /\ factor' = Times(factor, ExtendedOmega)
    /\ stage' = IF Len(parts) + 1 = NumParts THEN "gather" ELSE "extend"
    /\ UNCHANGED <<input, polys, h, proof>>

ExtendToDevice ==
    /\ stage = "extend" /\ polys.at = "host"
    /\ Extended("device", CosetFftToDevice(polys.values, Times(Zeta, factor)))

ExtendOnDevice ==
    /\ stage = "extend" /\ polys.at = "device"
    /\ Extended("device", CosetFftToDevice(polys.values, Times(Zeta, factor)))

ExtendOnHost ==
    /\ stage = "extend" /\ polys.at = "host"
    /\ \E answers \in Queries :
           IF \E c \in DOMAIN columns : Refused(answers[c]) THEN Fail
           ELSE Extended("host", [c \in DOMAIN columns |->
                    CoeffToExtendedPart(polys.values[c], factor, answers[c])])

\* From the vectors, without their coefficients: the two halves query apart.
ExtendVectors ==
    /\ stage = "extend" /\ resident = "host"
    /\ \E first, second \in Answers :
           /\ first.fits <=> second.fits
           /\ IF Refused(first) \/ Refused(second) THEN Fail
              ELSE Extended("host", [c \in DOMAIN columns |->
                       LagrangeToExtendPart(columns[c], factor, first, second)])

\* coeff_to_extended_many: the whole extended domain at once.
ExtendWhole ==
    /\ stage = "extend" /\ parts = <<>> /\ polys.at = "host"
    /\ \E answers \in Queries :
           IF \E c \in DOMAIN columns : Refused(answers[c]) THEN Fail
           ELSE /\ cosets' = [c \in DOMAIN columns |->
                                  CoeffToExtended(polys.values[c], answers[c])]
                /\ h' = Held("host", Rows(cosets'))
                /\ stage' = "divide"
                /\ UNCHANGED <<input, polys, factor, parts, proof>>

(* ------------------------------ the quotient ------------------------------ *)

Gathered(at) ==
    /\ h' = Held(at, ExtendedFromLagrangeVec([p \in DOMAIN parts |-> parts[p].values]))
    /\ stage' = "divide"
    /\ UNCHANGED <<input, forms, proof>>

PartsAt == {parts[p].at : p \in DOMAIN parts}

\* extended_from_lagrange_vec_device: parts off the device are an error, unless the
\* build materialises those that are on it.
GatherMaybeDevice ==
    /\ stage = "gather"
    /\ IF PartsAt = {"device"} THEN Gathered("device")
       ELSE IF fallback THEN Gathered("host")
       ELSE Fail

\* extended_from_lagrange_vec, of the host's evaluator.
GatherHost ==
    /\ stage = "gather" /\ PartsAt = {"host"}
    /\ Gathered("host")

\* Committed::construct: divided, back to coefficients, cut and written.
Construct ==
    /\ stage = "divide"
    /\ LET quotient == ExtendedToCoeff(DivideByVanishingPoly(h.values))
       IN  pieces' = Held(h.at, [i \in 1..QuotientPolyDegree |->
                                    SubSeq(quotient, (i - 1) * n + 1, i * n)])
    /\ stage' = "constructed"
    /\ UNCHANGED <<input, forms, h, random, point, hPoly, accepted>>

Combined(f(_, _), a, b) == Whole([i \in 1..n |-> f(a[i], b[i])])
AddVectors(a, b) == Combined(Plus, a, b)

\* The device's fold: the accumulator gains (xn - 1) of itself, then the piece.
FoldedOnDevice(vectors, xn) ==
    LET from[i \in 1..(Len(vectors) + 1)] ==
            IF i > Len(vectors) THEN PaddedTo(<<>>, n)
            ELSE LET acc == from[i + 1]
                 IN  AddVectors(AddVectors(acc, ScaledBy(acc, Minus(xn, 1))), vectors[i])
    IN  from[1]

FoldedOnHost(vectors, xn) ==
    LET from[i \in 1..(Len(vectors) + 1)] ==
            IF i > Len(vectors) THEN PaddedTo(<<>>, n)
            ELSE AddVectors(ScaledBy(from[i + 1], xn), vectors[i])
    IN  from[1]

Folded(xn) == IF pieces.at = "device" THEN FoldedOnDevice(pieces.values, xn)
              ELSE FoldedOnHost(pieces.values, xn)

\* Constructed::evaluate.
Evaluate ==
    /\ stage = "constructed"
    /\ \E x \in Points : point' = x /\ hPoly' = Folded(Power(x, n))
    /\ stage' = "evaluated"
    /\ UNCHANGED <<input, forms, h, random, pieces, accepted>>

(* ------------------------------- the verifier ----------------------------- *)

ColumnEvals(x) == [c \in DOMAIN columns |-> Eval(polys.values[c], x)]

\* PartiallyEvaluated::verify: the pieces' commitments folded, and the value the
\* gate's openings make the quotient have.
ExpectedHEval(x) == Times(Gate(ColumnEvals(x)), Inverted(Minus(Power(x, n), 1)))
HCommitment(x)   == FoldedOnHost(pieces.values, Power(x, n))
Accepts(x)       == Eval(HCommitment(x), x) = ExpectedHEval(x)

Verify ==
    /\ stage = "evaluated"
    \* The prover opens hPoly, the verifier its commitment; the random opening is one.
    /\ accepted' = /\ Accepts(point)
                   /\ Eval(hPoly, point) = ExpectedHEval(point)
                   /\ Eval(random, point) = 1
    /\ stage' = "done"
    /\ UNCHANGED <<input, forms, h, random, pieces, point, hPoly>>

Next ==
    \/ InterpolateOnHost \/ InterpolateToDevice \/ InterpolateOnDevice
    \/ ExtendToDevice \/ ExtendOnDevice \/ ExtendOnHost \/ ExtendVectors \/ ExtendWhole
    \/ GatherMaybeDevice \/ GatherHost \/ Construct \/ Evaluate \/ Verify

Spec == Init /\ [][Next]_vars

(* -------------------------------- properties ------------------------------ *)

ExtendedPoint(i) == Times(Zeta, Power(ExtendedOmega, i))

\* Whatever arms were taken, every form is of one polynomial per column: the
\* coefficients have the vector's values on the domain, each part its values on
\* that coset, and the extended vector the gate's values at the generator's powers
\* in order (ntt.rs and domain.rs, split radix and kernels, host and device).
FormsAgree ==
    /\ stage = "extend" /\ parts = <<>> => \A c \in DOMAIN columns, r \in 1..n :
           Eval(polys.values[c], Power(Omega, r - 1)) = columns[c][r]
    /\ stage \in {"extend", "gather"} /\ parts # <<>> => \A r \in 1..n :
           parts[Len(parts)].values[r] =
               Gate(ColumnEvals(ExtendedPoint((r - 1) * NumParts + Len(parts) - 1)))
    /\ stage = "divide" => \A i \in 1..ExtendedLen :
           h.values[i] = Gate(ColumnEvals(ExtendedPoint(i - 1)))

\* The quotient's check: a gate that holds on every row is accepted at every
\* challenge, one that does not at fewer than the degree allows, and what the prover
\* opens is what the verifier's commitment holds, wherever the parts were and
\* whichever arm divided, cut and folded them (vanishing/prover.rs, verifier.rs).
AcceptsExactlyVanishing ==
    /\ stage = "constructed" =>
           LET outside == {x \in Scalars : Power(x, n) # 1}
           IN  IF \A r \in 1..n : Rows(columns)[r] = 0 THEN \A x \in outside : Accepts(x)
               ELSE Cardinality({x \in outside : Accepts(x)}) < (QuotientPolyDegree + 1) * n
    /\ stage = "done" => (accepted <=> Accepts(point))
===============================================================================
