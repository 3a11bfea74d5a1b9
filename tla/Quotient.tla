------------------------------- MODULE Quotient -------------------------------
(* The prover's walk over a circuit's expressions: the lookups' compressed       *)
(* columns of phase 2, and the numerator of the quotient, one coset of the       *)
(* extended domain after another. The device arms read the columns through a     *)
(* ColumnPool and work in batches of as many rows as free memory allows; each    *)
(* falls back as the code does. The host arm of evaluate_h is the reference the  *)
(* crate keeps in src/cpu. One circuit is proved: witness.rs asserts it.         *)
(*                                                                             *)
(* A polynomial is its sequence of coefficients, a vector its values on a coset. *)
(* What a batch shorter than a rotation computes may be wrong: short keeps track *)
(* of it, for the properties. It is no state of the code.                        *)
EXTENDS GraphEvaluator

CONSTANTS
    N, Omega,                \* the domain: its size and generator
    NumParts, ExtendedOmega, \* the extended domain
    Zeta, Delta,             \* the coset's generator, the permutation's coset
    Blinding, ChunkLen,      \* blinding factors, columns of a permutation set
    Circuits,                \* [gates, lookups, columns, polys]
    Scalars,                 \* [theta, beta, gamma, y, challenges]
    Batches,                 \* rows free memory may allow to a launch
    Rooms                    \* columns free memory may have room for

ASSUME QuotientAssumption ==
    /\ N \in Nat \ {0} /\ NumParts \in Nat \ {0} /\ ChunkLen \in Nat \ {0}
    /\ Rooms \subseteq Nat
    \* The rows are halved until a launch fits, down to none.
    /\ Batches \subseteq {N \div 2^i : i \in 0..N}

VARIABLES
    arm,         \* of evaluate_h: "device" or "host"
    circuit, stage,
    evaluator,   \* the compiled gates and lookups
    pool,        \* [initialized, columns]: <<fixed, instance, advice>>
    compressed,  \* of each lookup so far: [by, inputs, tables], two columns
    part, factor,\* the coset: its number and its power of the extended generator
    lookup,      \* the lookup whose constraints come next
    values,      \* this part's numerator
    short,       \* whether a batch shorter than a rotation went into the parts
    parts, h     \* the parts done, and the vector of all of them

static == <<arm, circuit>>
phase2 == <<pool, compressed>>
coset  == <<part, factor, lookup, values, short, parts, h>>
vars   == <<static, stage, evaluator, phase2, coset>>

(* --------------------------------- vectors -------------------------------- *)

Power(a, k) == FoldLeft(LAMBDA t, i : Times(t, a), 1, [i \in 1..k |-> i])
Eval(poly, x) == Horner(0, x, Reverse(poly))
Values(poly, shift) ==
    Whole([r \in 1..N |-> Eval(poly, Times(shift, Power(Omega, r - 1)))])

\* coeff_to_extended_part: the values on the coset of this factor.
Coset(poly, by) == Values(poly, Times(Zeta, by))

\* iFFT: sums over the inverse generator, over the size.
Divisor == Power(N, Prime - 2)
Coefficients(vector) ==
    Whole([k \in 1..N |-> Times(Divisor, Eval(vector, Power(Omega, (N - 1) * (k - 1))))])

\* lagrange_to_extend_part, and the fused iFFT and coset FFT of the lookup's vectors.
CosetOfLagrange(vector, by) == Coset(Coefficients(vector), by)

Selector(rows) == Coefficients([r \in 1..N |-> IF r - 1 \in rows THEN 1 ELSE 0])
LastRow == N - Blinding - 1
L0      == Selector({0})
LLast   == Selector({LastRow})
LActive == Selector(0..(LastRow - 1))

Env(vectors(_), runtime) ==
    LET all(polys) == Whole([c \in DOMAIN polys |-> vectors(polys[c])])
    IN  [fixed |-> all(circuit.polys.fixed), instance |-> all(circuit.polys.instance),
         advice |-> all(circuit.polys.advice),
         challenges |-> Scalars.challenges, runtime |-> runtime]

LagrangeEnv   == Env(LAMBDA p : Values(p, 1), <<>>)
CosetEnv(by)  == Env(LAMBDA p : Coset(p, by), <<>>)
Columns(env)  == <<env.fixed, env.instance, env.advice>>
Runtime       == <<Scalars.beta, Scalars.gamma, Scalars.theta, Scalars.y>>
Zeros         == [r \in 1..N |-> 0]

(* -------------------------------- the pool -------------------------------- *)

NoPool == [initialized |-> FALSE, columns |-> << <<>>, <<>>, <<>> >>]

\* Mutant: the pool counts as initialised whatever was uploaded
TakenPool(mirror, hosted, env, room, uploads) ==
    LET borrowed == mirror # <<>> /\ (hosted = <<>> \/ Len(mirror) = Len(hosted))
        fixed    == IF borrowed THEN mirror ELSE SubSeq(hosted, 1, uploads)
    IN  [initialized |-> TRUE, columns |-> <<fixed, env.instance, env.advice>>]

\* try_init_device: fixed columns borrowed from the mirror or uploaded one by one,
\* the others borrowed; an upload that fails leaves those before it behind.
TryInitDevice(mirror, hosted, env, room, uploads) ==
    LET borrowed == mirror # <<>> /\ (hosted = <<>> \/ Len(mirror) = Len(hosted))
        fixed    == IF borrowed THEN mirror ELSE SubSeq(hosted, 1, uploads)
        needed   == IF borrowed THEN 0 ELSE Len(hosted)
    IN  IF needed >= room THEN NoPool
        ELSE IF ~borrowed /\ uploads < Len(hosted)
        THEN [initialized |-> FALSE, columns |-> <<fixed, <<>>, <<>>>>]
        ELSE [initialized |-> TRUE, columns |-> <<fixed, env.instance, env.advice>>]

(* ---------------------------- phase 2: compress --------------------------- *)

CompressHost(expressions) ==
    [r \in 1..N |-> Horner(0, Scalars.theta,
        [k \in DOMAIN expressions |-> ExprValue(expressions[k], LagrangeEnv, r - 1)])]

\* A compressed column: its vector, and whether its batches were short.
OnHost(expressions) == [vector |-> CompressHost(expressions), short |-> FALSE]

CompressDevice(expressions, batch) ==
    LET prog == EncodeForDevice(ForCompress(expressions), Scalars.theta)
    IN  [vector |-> Launches(prog, pool.columns, Scalars.challenges, Zeros, N, batch),
         short  |-> Short(prog, batch)]

NewEvaluator ==
    /\ stage = "keygen"
    /\ evaluator' = [gates   |-> CustomGates(circuit.gates),
                     lookups |-> [k \in DOMAIN circuit.lookups |->
                                    LookupGraph(circuit.lookups[k])]]
    /\ stage' = "pool"
    /\ UNCHANGED <<static, phase2, coset>>

\* A pool that does not come up is not an error: the lookups get none.
PreparePool ==
    /\ stage = "pool"
    /\ LET hosted == LagrangeEnv.fixed
       IN  IF circuit.lookups = <<>> THEN UNCHANGED pool
           ELSE \E mirror \in {<<>>, hosted}, room \in Rooms, uploads \in 0..Len(hosted) :
                    pool' = TryInitDevice(mirror, hosted, LagrangeEnv, room, uploads)
    /\ stage' = IF circuit.lookups = <<>> THEN "part" ELSE "compress"
    /\ UNCHANGED <<static, evaluator, compressed, coset>>

Compressed(by, inputs, tables) ==
    /\ compressed' = Append(compressed, [by |-> by, inputs |-> inputs, tables |-> tables])
    /\ stage' = IF Len(compressed') = Len(circuit.lookups) THEN "part" ELSE "compress"

Pending == circuit.lookups[Len(compressed) + 1]

\* Both lists on the device and permuted there; a batch of no rows is a launch of no
\* blocks, an error like any other.
Fused ==
    /\ stage = "compress" /\ pool.initialized
    /\ \/ \E bi, bt \in Batches \ {0} :
            Compressed("fused", CompressDevice(Pending.inputs, bi),
                                CompressDevice(Pending.tables, bt))
       \/ stage' = "unfused" /\ UNCHANGED compressed
    /\ UNCHANGED <<static, evaluator, pool, coset>>

\* Without a pool, or past the fused arm: each list on the device into a host
\* vector, or on the host. chunks_mut panics on a batch of no rows.
Unfused ==
    /\ stage = IF pool.initialized THEN "unfused" ELSE "compress"
    /\ LET devices(list) == {CompressDevice(list, b) : b \in Batches \ {0}}
           arms(list)    == {OnHost(list)}
                            \cup IF pool.initialized THEN devices(list) ELSE {}
       IN  \E i \in arms(Pending.inputs), t \in arms(Pending.tables) :
               Compressed("host", i, t)
    /\ UNCHANGED <<static, evaluator, pool, coset>>

CompressPanics ==
    /\ stage = "unfused" /\ pool.initialized /\ 0 \in Batches
    /\ stage' = "panicked"
    /\ UNCHANGED <<static, evaluator, phase2, coset>>

(* ------------------------------- evaluate_h ------------------------------- *)

\* The selectors on this coset, which the device's state borrows for all the terms.
Selectors == [l0 |-> Coset(L0, factor), last |-> Coset(LLast, factor),
              active |-> Coset(LActive, factor)]

\* The permutation argument's constraints at a row, in the kernel's and the host's
\* order; z, s and columns are vectors on this coset.
PermutationTerms(z, s, columns, row) ==
    LET of(v, r)  == At(v, row + r)
        l0(t)     == Times(t, of(Selectors.l0, 0))
        sets      == DOMAIN z
        chunk(j)  == {c \in DOMAIN columns : (c - 1) \div ChunkLen = j - 1}
        start     == Times(Times(Scalars.beta, Zeta), Times(factor, Power(Omega, row)))
        mul(C, f(_)) == FoldSet(LAMBDA c, t : Times(t, f(c)), 1, C)
        left(c)   == Plus(Plus(of(columns[c], 0), Times(Scalars.beta, of(s[c], 0))),
                          Scalars.gamma)
        right(c)  == Plus(Plus(of(columns[c], 0), Times(start, Power(Delta, c - 1))),
                          Scalars.gamma)
        last      == of(z[Len(z)], 0)
    IN  <<l0(Less(1, of(z[1], 0))),
          Times(Less(Times(last, last), last), of(Selectors.last, 0))>>
        \o [j \in 1..(Len(z) - 1) |-> l0(Less(of(z[j + 1], 0), of(z[j], -(Blinding + 1))))]
        \o [j \in sets |-> Times(Less(Times(of(z[j], 1), mul(chunk(j), left)),
                                      Times(of(z[j], 0), mul(chunk(j), right))),
                                 of(Selectors.active, 0))]

\* The lookup argument's, from its table_values (inputs + beta)(tables + gamma).
LookupTerms(z, a, s, table, row) ==
    LET of(v, r) == At(v, row + r)
        l(kind)  == of(Selectors[kind], 0)
        zz       == of(z, 0)
        gap      == Less(of(a, 0), of(s, 0))
    IN  <<Times(Less(1, zz), l("l0")),
          Times(Less(Times(zz, zz), zz), l("last")),
          Times(Less(Times(of(z, 1), Times(Plus(of(a, 0), Scalars.beta),
                                           Plus(of(s, 0), Scalars.gamma))),
                     Times(zz, of(table, 0))), l("active")),
          Times(gap, l("l0")),
          Times(Times(gap, Less(of(a, 0), of(a, -1))), l("active"))>>

AddTerms(terms(_)) == values' = [r \in 1..N |-> Horner(values[r], Scalars.y, terms(r - 1))]

\* quotient_device, of this part's columns; the pool borrows them all.
GatesOnDevice ==
    \E room \in Rooms, batch \in Batches :
        LET env  == CosetEnv(factor)
            prog == EncodeForDevice(evaluator.gates, Scalars.y)
        IN  /\ pool' = TryInitDevice(env.fixed, <<>>, env, room, 0)
            /\ IF pool'.initialized /\ batch # 0
               THEN /\ values' = Launches(prog, Columns(env), Scalars.challenges, Zeros, N,
                                          batch)
                    /\ short' = (short \/ Short(prog, batch))
                    /\ stage' = "permutation"
               ELSE stage' = "failed" /\ UNCHANGED <<values, short>>

GatesOnHost ==
    /\ values' = LET env == CosetEnv(factor) IN
                 [r \in 1..N |-> GraphValue(evaluator.gates,
                                            [env EXCEPT !.runtime = Append(Runtime, 0)], r - 1)]
    /\ stage' = "permutation" /\ UNCHANGED <<pool, short>>

BeginPart ==
    /\ stage = "part" /\ part < NumParts
    /\ IF arm = "device" THEN GatesOnDevice ELSE GatesOnHost
    /\ lookup' = 1
    /\ UNCHANGED <<static, evaluator, compressed, part, factor, parts, h>>

\* The kernel over pointer tables, which may not reach the device.
PermutationOnDevice(z, s, columns) ==
    \/ /\ AddTerms(LAMBDA row : PermutationTerms(z, s, columns, row))
       /\ stage' = "lookups"
    \/ stage' = "failed" /\ UNCHANGED values

PermutationOnHost(z, s, columns) ==
    /\ AddTerms(LAMBDA row : PermutationTerms(z, s, columns, row))
    /\ stage' = "lookups"

AddPermutations ==
    /\ stage = "permutation"
    /\ LET env == CosetEnv(factor)
           z   == Whole([j \in DOMAIN circuit.polys.z |-> Coset(circuit.polys.z[j], factor)])
           s   == Whole([c \in DOMAIN circuit.columns |-> Coset(circuit.polys.sigma[c], factor)])
           columns == [c \in DOMAIN circuit.columns |->
                          env[circuit.columns[c][1]][circuit.columns[c][2] + 1]]
       IN  IF z = <<>> THEN stage' = "lookups" /\ UNCHANGED values
           ELSE IF arm = "device" THEN PermutationOnDevice(z, s, columns)
           ELSE PermutationOnHost(z, s, columns)
    /\ UNCHANGED <<static, evaluator, phase2, part, factor, lookup, short, parts, h>>

\* The lookup graph's value at every row, from packed rules or by the interpreter.
TableOnDevice(g, batch) ==
    Launches(EncodeWithRuntimeConstants(g, Runtime), Columns(CosetEnv(factor)),
             Scalars.challenges, Zeros, N, batch)

TableOnHost(g) ==
    LET env == [CosetEnv(factor) EXCEPT !.runtime = Append(Runtime, 0)]
    IN  [r \in 1..N |-> GraphValue(g, env, r - 1)]

\* The permuted columns transformed from their values, the product from its
\* coefficients, and the terms added.
ConstrainLookup(of, table) ==
    LET z == Coset(of.z, factor)
        a == CosetOfLagrange(of.a, factor)
        s == CosetOfLagrange(of.s, factor)
    IN  /\ AddTerms(LAMBDA row : LookupTerms(z, a, s, table, row))
        /\ lookup' = lookup + 1 /\ UNCHANGED stage

LookupOnDevice(of, g) ==
    \/ \E batch \in Batches \ {0} :
          /\ ConstrainLookup(of, TableOnDevice(g, batch))
          /\ short' = (short \/ Short(EncodeWithRuntimeConstants(g, Runtime), batch))
    \/ 0 \in Batches /\ stage' = "failed" /\ UNCHANGED <<values, lookup, short>>

AddLookup ==
    /\ stage = "lookups" /\ lookup <= Len(circuit.lookups)
    /\ LET of == circuit.polys.lookups[lookup]
           g  == evaluator.lookups[lookup]
       IN  IF arm = "device" THEN LookupOnDevice(of, g)
           ELSE ConstrainLookup(of, TableOnHost(g)) /\ UNCHANGED short
    /\ UNCHANGED <<static, evaluator, phase2, part, factor, parts, h>>

EndPart ==
    /\ stage = "lookups" /\ lookup > Len(circuit.lookups)
    /\ parts' = Append(parts, values)
    /\ part' = part + 1
    /\ factor' = Times(factor, ExtendedOmega)
    /\ stage' = "part"
    /\ UNCHANGED <<static, evaluator, phase2, lookup, values, short, h>>

\* extended_from_lagrange_vec: the parts interleaved.
Assemble ==
    /\ stage = "part" /\ part = NumParts
    /\ h' = [i \in 1..(N * NumParts) |->
                parts[((i - 1) % NumParts) + 1][((i - 1) \div NumParts) + 1]]
    /\ stage' = "done"
    /\ UNCHANGED <<static, evaluator, phase2, part, factor, lookup, values, short, parts>>

Init ==
    /\ arm \in {"device", "host"} /\ circuit \in Circuits
    /\ stage = "keygen" /\ evaluator = [gates |-> EmptyGraph, lookups |-> <<>>]
    /\ pool = NoPool /\ compressed = <<>>
    /\ part = 0 /\ factor = 1 /\ lookup = 1 /\ values = Zeros /\ short = FALSE
    /\ parts = <<>> /\ h = <<>>

Next ==
    \/ NewEvaluator \/ PreparePool \/ Fused \/ Unfused \/ CompressPanics
    \/ BeginPart \/ AddPermutations \/ AddLookup \/ EndPart \/ Assemble

Spec == Init /\ [][Next]_vars

(* ------------------------------ the verifier ------------------------------ *)

\* What the verifier folds at a point x of the i-th coset's row r, from evaluations
\* at x and its rotations: the gates, the permutation and the lookups' expressions.
PermutationExpressions(x) ==
    LET at(poly, r) == Eval(poly, Times(x, Power(Omega, r % N)))
        z(j)        == circuit.polys.z[j]
        sets        == Len(circuit.polys.z)
        eval(c)     == at(circuit.polys[circuit.columns[c][1]][circuit.columns[c][2] + 1], 0)
        side(f(_), j) ==
            FoldLeft(LAMBDA t, c : Times(t, Plus(Plus(eval(c), f(c)), Scalars.gamma)), 1,
                     [i \in 1..Min({ChunkLen, Len(circuit.columns) - (j - 1) * ChunkLen}) |->
                         (j - 1) * ChunkLen + i])
        left(c)     == Times(Scalars.beta, at(circuit.polys.sigma[c], 0))
        right(c)    == Times(Times(Scalars.beta, x), Power(Delta, c - 1))
        active      == Less(1, Plus(at(LLast, 0), at(Selector((LastRow + 1)..(N - 1)), 0)))
    IN  <<Times(at(L0, 0), Less(1, at(z(1), 0))),
          Times(Less(Times(at(z(sets), 0), at(z(sets), 0)), at(z(sets), 0)), at(LLast, 0))>>
        \o [j \in 1..(sets - 1) |->
               Times(Less(at(z(j + 1), 0), at(z(j), -(Blinding + 1))), at(L0, 0))]
        \o [j \in 1..sets |-> Times(Less(Times(at(z(j), 1), side(left, j)),
                                         Times(at(z(j), 0), side(right, j))), active)]

LookupExpressions(k, env, row, x) ==
    LET at(p, r) == Eval(p, Times(x, Power(Omega, r % N)))
        of     == circuit.polys.lookups[k]
        z      == at(of.z, 0)
        poly   == Coefficients(of.a)
        a      == at(poly, 0)
        before == at(poly, -1)
        s      == at(Coefficients(of.s), 0)
        fold(list) == Horner(0, Scalars.theta,
                             [e \in DOMAIN list |-> ExprValue(list[e], env, row)])
        active == Less(1, Plus(at(LLast, 0), at(Selector((LastRow + 1)..(N - 1)), 0)))
        left   == Times(at(of.z, 1), Times(Plus(a, Scalars.beta), Plus(s, Scalars.gamma)))
        right  == Times(z, Times(Plus(fold(circuit.lookups[k].inputs), Scalars.beta),
                                 Plus(fold(circuit.lookups[k].tables), Scalars.gamma)))
    IN  <<Times(at(L0, 0), Less(1, z)),
          Times(at(LLast, 0), Less(Times(z, z), z)),
          Times(Less(left, right), active),
          Times(at(L0, 0), Less(a, s)),
          Times(Times(Less(a, s), Less(a, before)), active)>>

VerifierFold(i, row) ==
    LET by  == Power(ExtendedOmega, i)
        x   == Times(Zeta, Times(by, Power(Omega, row)))
        env == CosetEnv(by)
        all == FlattenSeq(circuit.gates)
    IN  Horner(0, Scalars.y,
            [e \in DOMAIN all |-> ExprValue(all[e], env, row)]
            \o (IF circuit.polys.z = <<>> THEN <<>> ELSE PermutationExpressions(x))
            \o FlattenSeq([k \in DOMAIN circuit.lookups |-> LookupExpressions(k, env, row, x)]))

(* ------------------------------- properties ------------------------------- *)

\* The numerator the prover divides is, at every point of the extended domain, the
\* fold by y that the verifier computes from evaluations there, gate by gate, then
\* the permutation, then the lookups: whatever the compiler simplified or shared, on
\* the device as on the host, unless a batch was shorter than a rotation it read at
\* (evaluate_h_inner). Of that case, which free memory alone decides, nothing is said.
QuotientIsVerifierFold ==
    stage = "done" /\ ~short =>
        \A i \in 0..(NumParts - 1), row \in 0..(N - 1) :
            h[row * NumParts + i + 1] = VerifierFold(i, row)

\* A lookup's compressed columns are the theta-fold of its expressions at every row,
\* from the fused launch, the unfused one or the host, in batches at least as long as
\* the rotations they read at (commit_permuted).
CompressedIsHostFold ==
    \A k \in DOMAIN compressed, list \in {"inputs", "tables"} :
        ~compressed[k][list].short =>
            compressed[k][list].vector = CompressHost(circuit.lookups[k][list])

\* A pool that may be used holds every column of the circuit: one whose upload
\* stopped half way is left alone (try_init_device).
PoolWholeOrUnused ==
    pool.initialized =>
        \A p \in 1..3 : Len(pool.columns[p]) = Len(Columns(LagrangeEnv)[p])
===============================================================================
