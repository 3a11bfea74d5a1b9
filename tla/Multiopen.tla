------------------------------ MODULE Multiopen ------------------------------
(* The two KZG multiopens. The prover groups its queries by the points they    *)
(* ask for, folds each group with powers of its challenges, divides, and        *)
(* commits; the verifier groups the same queries and folds the commitments and  *)
(* the claimed evaluations with the same powers into one pairing check, of one  *)
(* proof or of a batch.                                                        *)
(*                                                                             *)
(* The field is any field, and the group is the field: a commitment is the      *)
(* polynomial's value at the secret, and the pairing checks                     *)
(* secret * left = right. Rotation sets are hash sets: prover and verifier each *)
(* iterate them in an order of their own.                                      *)
EXTENDS Integers, FiniteSets, Sequences, SequencesExt, Listing

CONSTANTS
    Field, Zero, One,  \* the scalars, their operations, and the inverses of these
    Plus(_, _), Times(_, _), Negative(_), Invert(_),
    N, Omega,          \* the domain's size and generator
    Secret,            \* of the SRS
    Coeffs,            \* Coeffs[com]: the coefficients behind a commitment
    Statements,        \* what may be proved: [queries, x, error], queries being [com, at]
    Ys, Vs, Us, Rs,    \* the values the challenges may take
    MaxProofs          \* proofs in a batch

ASSUME FieldAssumption ==
    /\ Zero \in Field /\ One \in Field /\ Zero # One
    /\ \A a, b \in Field : /\ Plus(a, b) \in Field /\ Times(a, b) \in Field
                           /\ Plus(a, b) = Plus(b, a) /\ Times(a, b) = Times(b, a)
    /\ \A a, b, c \in Field : /\ Plus(Plus(a, b), c) = Plus(a, Plus(b, c))
                              /\ Times(Times(a, b), c) = Times(a, Times(b, c))
                              /\ Times(a, Plus(b, c)) = Plus(Times(a, b), Times(a, c))
    /\ \A a \in Field : /\ Plus(a, Zero) = a /\ Times(a, One) = a
                        /\ Negative(a) \in Field /\ Plus(a, Negative(a)) = Zero
                        /\ a # Zero => Invert(a) \in Field /\ Times(a, Invert(a)) = One

Requests == [com : DOMAIN Coeffs, at : Int]

\* Polynomials have as many coefficients as the domain has points; something is asked.
ASSUME StatementAssumption ==
    /\ N \in Nat \ {0} /\ Ys \cup Vs \cup Us \cup Rs \cup {Secret, Omega} \subseteq Field
    /\ \A com \in DOMAIN Coeffs : Coeffs[com] \in [1..N -> Field]
    /\ \A s \in Statements :
          /\ s.queries \in Seq(Requests) /\ s.queries # <<>> /\ s.x \in Field
          /\ s.error \in [DOMAIN s.queries -> Field]
    /\ MaxProofs \in Nat

VARIABLES
    scheme,      \* "shplonk" or "gwc"
    device,      \* whether the queried polynomials live on the device
    statement,   \* what is being proved
    stage,       \* of the proof, then of the batch
    ch,          \* the challenges drawn: y, v, u
    sets,        \* the prover's rotation sets
    h,           \* its folded quotient
    proof,       \* the commitments it wrote
    acc,         \* the verifier's two MSMs: left and right
    owed,        \* the errors the accumulator should stand for
    proofs,      \* accumulated
    verdict

prover == <<scheme, device, statement, ch, sets, h, proof>>
verifier == <<acc, owed, proofs, verdict>>
vars == <<prover, stage, verifier>>

NoStatement  == [queries |-> <<>>, x |-> Zero, error |-> <<>>]
NoChallenges == [y |-> Zero, v |-> Zero, u |-> Zero]

(* ------------------------------- arithmetic ------------------------------- *)

Less(a, b)  == Plus(a, Negative(b))
Pow(a, k)   == LET power[i \in 0..k] == IF i = 0 THEN One ELSE Times(a, power[i - 1])
               IN  power[k]

\* A vector, rather than the function it is given by.
Whole(s) == SubSeq(s, 1, Len(s))

\* The sum of s[i] a^(i - 1): a fold with powers(a), and a polynomial's value at a.
Horner(a, s) ==
    LET v == Whole(s)
        from[k \in 1..(Len(v) + 1)] ==
            IF k > Len(v) THEN Zero ELSE Plus(v[k], Times(a, from[k + 1]))
    IN  from
Powers(a, s) == Horner(a, s)[1]
Total(s)     == Powers(One, s)

\* The fold of polynomials: poly_multiply_add_device_at_lut_offset for each.
FoldPolys(a, polys) ==
    LET given == Whole(polys)
    IN  Whole([k \in 1..N |-> Powers(a, [i \in DOMAIN given |-> given[i][k]])])

Commit(poly) == Powers(Secret, poly)

Product(points, z) ==
    LET product[i \in 0..Len(points)] ==
            IF i = 0 THEN One ELSE Times(product[i - 1], Less(z, points[i]))
    IN  product[Len(points)]
Vanishing(points, z) == Product(SetToSeq(points), z)

TimesLinear(poly, root) ==
    Whole([k \in 1..(Len(poly) + 1) |->
              Less(IF k > 1 THEN poly[k - 1] ELSE Zero,
                   IF k <= Len(poly) THEN Times(root, poly[k]) ELSE Zero)])

\* The product of X - p over the points but the k-th.
Basis(points, k) ==
    LET upto[i \in 0..Len(points)] ==
            IF i = 0 THEN <<One>> ELSE IF i = k THEN upto[i - 1]
            ELSE TimesLinear(upto[i - 1], points[i])
    IN  upto[Len(points)]

Interpolate(points, evals) ==
    LET basis == Whole([k \in 1..Len(points) |-> Basis(points, k)])
        unit  == Whole([k \in 1..Len(points) |->
                           Times(evals[k], Invert(Powers(points[k], basis[k])))])
    IN  Whole([c \in 1..Len(points) |->
            Total([k \in 1..Len(points) |-> Times(unit[k], basis[k][c])])])

\* The quotient by X - root, the remainder dropped: synthetic division.
Kate(poly, root) == Whole([k \in 1..(Len(poly) - 1) |-> Horner(root, poly)[k + 1]])

\* Every point divided out in turn.
Divided(poly, points) ==
    LET after[i \in 0..Len(points)] ==
            IF i = 0 THEN poly ELSE Kate(after[i - 1], points[i])
    IN  after[Len(points)]

Padded(poly) == Whole([k \in 1..N |-> IF k <= Len(poly) THEN poly[k] ELSE Zero])

(* -------------------------------- grouping -------------------------------- *)

Queries     == statement.queries
Point(at)   == Times(statement.x, Pow(Omega, at % N))
SuperPoints == {Point(q.at) : q \in ToSet(Queries)}

\* The elements of s at the places in P, in order.
Kept(s, P) == LET places == Places(P, Len(s)) IN Whole([k \in DOMAIN places |-> s[places[k]]])

\* Every element once, where it comes first.
Uniques(s) ==
    LET v == Whole(s)
    IN  Kept(v, {i \in DOMAIN v : \A j \in 1..(i - 1) : v[j] # v[i]})

Commitments == Uniques([q \in DOMAIN Queries |-> Queries[q].com])
Rotations(com) == {Point(q.at) : q \in {p \in ToSet(Queries) : p.com = com}}
RotationPoints ==
    LET coms == Commitments IN Uniques([k \in DOMAIN coms |-> Rotations(coms[k])])
Sharing(points) ==
    LET coms == Commitments
    IN  Kept(coms, {k \in DOMAIN coms : Rotations(coms[k]) = points})

\* get_eval: the first query of this commitment at this point.
FirstQuery(com, point) ==
    CHOOSE q \in DOMAIN Queries :
        /\ Queries[q].com = com /\ Point(Queries[q].at) = point
        /\ \A p \in 1..(q - 1) : ~ (Queries[p].com = com /\ Point(Queries[p].at) = point)
EvalOf(evals, com, point) == evals[FirstQuery(com, point)]

\* Mutant: the evaluations follow another iteration of the set than the points
UnalignedSet(evals, order) ==
    LET coms  == Sharing(ToSet(order))
        other == SetToSeq(ToSet(order))
        of(com) == Whole([k \in DOMAIN order |-> EvalOf(evals, com, other[k])])
    IN  [points |-> order,
         commitments |-> Whole([j \in DOMAIN coms |-> [com |-> coms[j], evals |-> of(coms[j])]])]

\* One rotation set, its points in the order its hash set has.
RotationSet(evals, order) ==
    LET coms == Sharing(ToSet(order))
        of(com) == Whole([k \in DOMAIN order |-> EvalOf(evals, com, order[k])])
    IN  [points |-> order,
         commitments |-> Whole([j \in DOMAIN coms |-> [com |-> coms[j], evals |-> of(coms[j])]])]

Orders ==
    LET points == RotationPoints
        of == Whole([i \in DOMAIN points |-> SetToSeqs(points[i])])
    IN  {o \in [DOMAIN of -> UNION ToSet(of)] : \A i \in DOMAIN of : o[i] \in of[i]}

\* construct_intermediate_sets of SHPLONK, for one order of every set.
RotationSets(evals, orders) == Whole([i \in DOMAIN orders |-> RotationSet(evals, orders[i])])

TrueEvals ==
    Whole([q \in DOMAIN Queries |-> Powers(Point(Queries[q].at), Coeffs[Queries[q].com])])
Claims ==
    LET evals == TrueEvals
    IN  Whole([q \in DOMAIN Queries |-> Plus(evals[q], statement.error[q])])

(* ----------------------------- SHPLONK's prover ---------------------------- *)

\* p(X), and r(X) of low degree, folded with y.
Combined(set) ==
    FoldPolys(ch.y, [j \in DOMAIN set.commitments |-> Coeffs[set.commitments[j].com]])
LowDegree(set) ==
    FoldPolys(ch.y, [j \in DOMAIN set.commitments |->
                         Padded(Interpolate(set.points, set.commitments[j].evals))])

\* quotient_contribution
Quotient(set) ==
    LET p == Combined(set)
        r == LowDegree(set)
        numerator == Whole([k \in 1..N |-> Less(p[k], r[k])])
    IN  Padded(Divided(numerator, set.points))

Diffs(points) == SuperPoints \ points

\* linearisation_contribution
Linearised(set, u) ==
    LET p == Combined(set)
        r == Powers(u, LowDegree(set))
        z == Vanishing(Diffs(ToSet(set.points)), u)
    IN  Whole([k \in 1..N |-> Times(z, IF k = 1 THEN Less(p[1], r) ELSE p[k])])

Begin ==
    /\ stage = "idle" /\ proofs < MaxProofs
    /\ statement' \in Statements
    /\ stage' = "queried"
    /\ UNCHANGED <<scheme, device, ch, sets, h, proof, verifier>>

\* y and v; the rotation sets. h is computed from the state this step leaves.
Group ==
    /\ stage = "queried" /\ scheme = "shplonk"
    /\ \E orders \in Orders : sets' = RotationSets(TrueEvals, orders)
    /\ \E y \in Ys, v \in Vs : ch' = [y |-> y, v |-> v, u |-> Zero]
    /\ stage' = "grouped"
    /\ UNCHANGED <<scheme, device, statement, h, proof, verifier>>

CommitQuotient ==
    /\ stage = "grouped"
    /\ h' = FoldPolys(ch.v, [i \in DOMAIN sets |-> Quotient(sets[i])])
    /\ proof' = <<Commit(h')>>
    /\ stage' = "folded"
    /\ UNCHANGED <<scheme, device, statement, ch, sets, verifier>>

\* u; the linearisation, divided by X - u. z_diffs[0].invert().unwrap() panics on 0.
Linearise ==
    /\ stage = "folded"
    /\ \E u \in Us :
         LET z0 == Vanishing(Diffs(RotationPoints[1]), u)
             l  == FoldPolys(ch.v, [i \in DOMAIN sets |-> Linearised(sets[i], u)])
             z  == Vanishing(SuperPoints, u)
             lx == Whole([k \in 1..N |-> Less(l[k], Times(z, h[k]))])
             q  == Kate(lx, u)
         IN  /\ ch' = [ch EXCEPT !.u = u]
             /\ IF z0 = Zero
                THEN stage' = "panicked" /\ UNCHANGED proof
                ELSE /\ proof' = Append(proof, Times(Commit(q), Invert(z0)))
                     /\ stage' = "proved"
    /\ UNCHANGED <<scheme, device, statement, sets, h, verifier>>

(* ---------------------------------- GWC ----------------------------------- *)

\* Mutant: every query is its own batch
PointsOfQueries == [q \in DOMAIN Queries |-> Point(Queries[q].at)]

PointsInOrder == Uniques([q \in DOMAIN Queries |-> Point(Queries[q].at)])
At(point) == Places({q \in DOMAIN Queries : Point(Queries[q].at) = point}, Len(Queries))

\* The values of the queries at a point, folded with v.
Folded(v, values, qs) == Powers(v, [j \in DOMAIN qs |-> values[qs[j]]])

\* The prover's accumulated evaluation weighs the last query least; the division
\* drops the remainder, so any constant would do.
Witness(v, point) ==
    LET qs       == At(point)
        folded   == FoldPolys(v, [k \in DOMAIN qs |-> Coeffs[Queries[qs[k]].com]])
        acc_eval == Folded(v, TrueEvals, Reverse(qs))
    IN  Kate([k \in 1..N |-> IF k = 1 THEN Less(folded[1], acc_eval) ELSE folded[k]], point)

\* A witness for every point; the prover panics on a polynomial of the device. The
\* verifier draws u when it has read them all.
GwcProve ==
    /\ stage = "queried" /\ scheme = "gwc"
    /\ \E v \in Vs, u \in Us : ch' = [y |-> Zero, v |-> v, u |-> u]
    /\ IF device
       THEN stage' = "panicked" /\ UNCHANGED proof
       ELSE /\ proof' = [k \in DOMAIN PointsInOrder |-> Commit(Witness(ch'.v, PointsInOrder[k]))]
            /\ stage' = "proved"
    /\ UNCHANGED <<scheme, device, statement, sets, h, verifier>>

(* ------------------------------ the verifiers ------------------------------ *)

\* Mutant: an earlier proof's errors are not scaled
KeepAcc(r) == acc

\* AccumulatorStrategy::process scales what it has before it adds a proof.
Scaled(r) == [left |-> Times(r, acc.left), right |-> Times(r, acc.right)]

\* What the verifiers add to the two MSMs.
Shplonk(own) ==
    LET z(i) == Vanishing(Diffs(ToSet(own[i].points)), ch.u)
        z0   == Vanishing(ToSet(own[1].points), ch.u)
        norm(i) == IF i = 1 THEN One ELSE Times(z(i), Invert(z(1)))
        coms(i) == own[i].commitments
        held(i) == Powers(ch.y, [j \in DOMAIN coms(i) |-> Commit(Coeffs[coms(i)[j].com])])
        r(i)    == Powers(ch.y, [j \in DOMAIN coms(i) |->
                                     Powers(ch.u, Interpolate(own[i].points, coms(i)[j].evals))])
        outer   == Powers(ch.v, [i \in DOMAIN own |-> Times(norm(i), Less(held(i), r(i)))])
    IN  [left |-> proof[2],
         right |-> Plus(Less(outer, Times(z0, proof[1])), Times(ch.u, proof[2]))]

Gwc ==
    LET order == PointsInOrder
        held  == [q \in DOMAIN Queries |-> Commit(Coeffs[Queries[q].com])]
        over(values) == Powers(ch.u, [k \in DOMAIN order |-> Folded(ch.v, values, At(order[k]))])
    IN  [left |-> Powers(ch.u, proof),
         right |-> Less(Plus(Powers(ch.u, [k \in DOMAIN order |-> Times(order[k], proof[k])]),
                             over(held)),
                        over(Claims))]

Accumulate(r, msm) ==
    acc' = [left |-> Plus(Scaled(r).left, msm.left), right |-> Plus(Scaled(r).right, msm.right)]

\* The value at z of the polynomial through a commitment's evaluations at points.
Through(points, evals, com, z) ==
    LET order == SetToSeq(points)
        term(p) == Times(EvalOf(evals, com, p),
                         Times(Vanishing(points \ {p}, z), Invert(Vanishing(points \ {p}, p))))
    IN  Total([k \in DOMAIN order |-> term(order[k])])

\* What the check should add up to: the errors of the claims, with the weights of each
\* set in v and commitment in y, or of each point in u and query in v.
Errors ==
    LET points    == RotationPoints
        order     == PointsInOrder
        group(S)  == LET coms == Sharing(S)
                     IN  Powers(ch.y, [j \in DOMAIN coms |-> Through(S, statement.error, coms[j], ch.u)])
        scaled(S) == Times(Vanishing(Diffs(S), ch.u), group(S))
    IN  IF scheme = "gwc"
        THEN Powers(ch.u, [k \in DOMAIN order |-> Folded(ch.v, statement.error, At(order[k]))])
        ELSE Times(Invert(Vanishing(Diffs(points[1]), ch.u)),
                   Powers(ch.v, [i \in DOMAIN points |-> scaled(points[i])]))

Verify ==
    /\ stage = "proved"
    /\ \E r \in Rs :
         /\ \/ scheme = "gwc" /\ Accumulate(r, Gwc)
            \/ /\ scheme = "shplonk"
               /\ \E orders \in Orders : Accumulate(r, Shplonk(RotationSets(Claims, orders)))
         /\ owed' = Plus(Times(r, owed), Errors)
    /\ proofs' = proofs + 1 /\ stage' = "idle"
    /\ statement' = NoStatement /\ ch' = NoChallenges
    /\ sets' = <<>> /\ h' = <<>> /\ proof' = <<>>
    /\ UNCHANGED <<scheme, device, verdict>>

\* The pairing check of DualMSM.
Finalize ==
    /\ stage = "idle" /\ proofs > 0
    /\ verdict' = (Times(Secret, acc.left) = acc.right)
    /\ stage' = "final"
    /\ UNCHANGED <<prover, acc, owed, proofs>>

Init ==
    /\ scheme \in {"shplonk", "gwc"} /\ device \in BOOLEAN
    /\ statement = NoStatement /\ stage = "idle" /\ ch = NoChallenges
    /\ sets = <<>> /\ h = <<>> /\ proof = <<>>
    /\ acc = [left |-> Zero, right |-> Zero] /\ owed = Zero /\ proofs = 0 /\ verdict = FALSE

Next == Begin \/ Group \/ CommitQuotient \/ Linearise \/ GwcProve \/ Verify \/ Finalize

Spec == Init /\ [][Next]_vars

(* ------------------------------- properties -------------------------------- *)

\* A proof has two points in SHPLONK, and one for every point asked for in GWC.
TypeOK ==
    /\ stage \in {"idle", "queried", "grouped", "folded", "proved", "panicked", "final"}
    /\ ch \in [y : Field, v : Field, u : Field]
    /\ acc \in [left : Field, right : Field] /\ owed \in Field
    /\ proofs \in 0..MaxProofs /\ verdict \in BOOLEAN
    /\ h \in [1..Len(h) -> Field] /\ Len(h) \in {0, N}
    /\ proof \in [1..Len(proof) -> Field]
    /\ stage = "proved" =>
           Len(proof) = IF scheme = "shplonk" THEN 2 ELSE Cardinality(SuperPoints)

\* The folded quotient is the one polynomial the linearisation takes it for, whatever
\* the order of the hash sets: no division had a remainder, every group was divided by
\* its own points and interpolated through them. At u this is the prover's assertion
\* that l(u) = 0, which release builds leave out.
QuotientIsExact ==
    stage = "folded" =>
        LET points == RotationPoints
            super  == SuperPoints
            evals  == TrueEvals
            low  == Whole([i \in DOMAIN sets |-> LowDegree(sets[i])])
            coms == Whole([i \in DOMAIN sets |-> Sharing(points[i])])
            through(i, t) == Powers(ch.y, [j \in DOMAIN coms[i] |->
                                 Through(points[i], evals, coms[i][j], t)])
            held(i, t) == Powers(ch.y, [j \in DOMAIN coms[i] |-> Powers(t, Coeffs[coms[i][j]])])
        IN  \A t \in Field :
              /\ \A i \in DOMAIN sets : Powers(t, low[i]) = through(i, t)
              /\ Times(Powers(t, h), Vanishing(super, t)) =
                     Powers(ch.v, [i \in DOMAIN sets |->
                         Times(Vanishing(super \ points[i], t),
                               Less(held(i, t), through(i, t)))])

\* The two MSMs differ by the errors of the claims, each weighted as the scheme's
\* challenges ask and each earlier proof scaled, and by nothing else: prover and
\* verifier weigh every commitment alike though they iterate their sets differently,
\* and the batch is accepted exactly when the weighted errors vanish.
CheckIsErrors ==
    /\ Less(Times(Secret, acc.left), acc.right) = owed
    /\ stage = "final" => (verdict <=> owed = Zero)
==============================================================================
