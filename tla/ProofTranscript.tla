--------------------------- MODULE ProofTranscript ---------------------------
(* What create_proof writes and verify_proof reads: both sides absorb values   *)
(* into their transcript, squeeze challenges from it, and hand the multiopen a *)
(* list of openings.  Nothing in the proof says what a value is: the verifier  *)
(* reads slot after slot and must name them as the prover wrote them.          *)
(*                                                                             *)
(* Group and field elements are abstract: a polynomial and its commitment are  *)
(* one record, an evaluation names its polynomial and its rotation, and a      *)
(* challenge is the marker its squeeze leaves behind, so that two transcripts  *)
(* give the same challenges exactly when what precedes the marker is the same. *)
EXTENDS Integers, Sequences, SequencesExt, FiniteSetsExt

CONSTANT Shapes   \* the circuits: what both sides know from the proving key

VARIABLES
    shape,     \* the circuit that is proved
    at,        \* at[side]: the phase it comes to next
    absorbed,  \* absorbed[side]: values and challenges of its transcript
    proof,     \* the values the prover has written
    slots,     \* the verifier's name of every value it has read
    opened,    \* the prover's openings, in order: [com, at]
    claims     \* the verifier's: [com, at, eval], com and eval still slots

vars == <<shape, at, absorbed, proof, slots, opened, claims>>

Com(of, i)       == [is |-> "com", of |-> of, i |-> i, at |-> 0]
Eval(com, r)     == [is |-> "eval", of |-> com.of, i |-> com.i, at |-> r]
Value(col, row)  == [is |-> "value", of |-> "instance", i |-> col, at |-> row]
Challenge(of, i) == [is |-> "challenge", of |-> of, i |-> i, at |-> 0]
Slot(of, i)      == [of |-> of, i |-> i]

\* f(1), ..., f(n) as a sequence
Each(n, f(_)) == [i \in 1..n |-> f(i)]
EachFlat(n, f(_)) == FlattenSeq(Each(n, f))

(* ------------------------------- the circuit ------------------------------ *)

Max0(S) == IF S = {} THEN 0 ELSE Max(S)

NumAdvice == Len(shape.advicePhase)
Phases    == 0..Max0({shape.advicePhase[c] : c \in 1..NumAdvice})

AdviceQueries(col) == Cardinality({q \in DOMAIN shape.adviceQueries :
                                       shape.adviceQueries[q].col = col})

BlindingFactors == Max({3} \cup {AdviceQueries(c) : c \in 1..NumAdvice}) + 2

ChunkLen == shape.degree - 2
Sets     == (shape.permutationColumns + ChunkLen - 1) \div ChunkLen
Pieces   == shape.degree - 1

NextRow == 1
PrevRow  == -1
LastRow  == -(BlindingFactors + 1)

ChallengesOf(phases) ==
    EachFlat(Len(shape.challengePhase), LAMBDA i :
        IF shape.challengePhase[i] \in phases THEN <<Challenge("phase", i)>> ELSE <<>>)

InstanceInputs ==
    LET n == Len(shape.instances)
    IN  IF shape.queryInstance
        THEN Each(n, LAMBDA c : Com("instance", c))
        ELSE EachFlat(n, LAMBDA c : Each(shape.instances[c], LAMBDA r : Value(c, r)))

VkDigest  == <<Com("vk", 0)>>
Statement == VkDigest \o InstanceInputs

(* ------------------------------- the prover ------------------------------- *)

\* A phase of the prover: values both sides know, values it writes, challenges.
Emit(common, written, squeezed, next) ==
    /\ absorbed' = [absorbed EXCEPT !["prover"] = @ \o common \o written \o squeezed]
    /\ proof' = proof \o written
    /\ at' = [at EXCEPT !["prover"] = next]

AdviceComs   == Each(NumAdvice, LAMBDA c : Com("advice", c))
PermutedComs == EachFlat(shape.lookups, LAMBDA l :
                             <<Com("permutedInput", l), Com("permutedTable", l)>>)
ProductComs  == Each(Sets, LAMBDA s : Com("permutationProduct", s))
                \o Each(shape.lookups, LAMBDA l : Com("lookupProduct", l))
                \o <<Com("random", 0)>>
QuotientComs == Each(Pieces, LAMBDA p : Com("h", p))

\* synthesize_advice_columns refuses several phases, and its synthesis must leave
\* every challenge squeezed: the circuit may call next_phase, which absorbs the
\* instances and the advice and squeezes, or not, which fails the assertion.
Synthesize ==
    /\ at["prover"] = "synthesize"
    /\ \/ /\ shape.entry = "circuit"
          /\ Phases # {0} \/ shape.challengePhase # <<>>
          /\ at' = [at EXCEPT !["prover"] = "panicked"]
          /\ UNCHANGED <<absorbed, proof>>
       \/ /\ shape.entry = "circuit"
          /\ Phases = {0}
          /\ shape.challengePhase # <<>>
          /\ Emit(InstanceInputs, AdviceComs, ChallengesOf({0}), "advice")
       \/ /\ shape.entry = "circuit" => Phases = {0} /\ shape.challengePhase = <<>>
          /\ at' = [at EXCEPT !["prover"] = "advice"]
          /\ UNCHANGED <<absorbed, proof>>
    /\ UNCHANGED <<shape, slots, opened, claims>>

\* Mutant: theta is squeezed before the advice commitments are written.
CommitAdviceLate ==
    /\ at["prover"] = "advice"
    /\ Emit(Statement \o ChallengesOf({0}) \o <<Challenge("theta", 0)>>, AdviceComs, <<>>,
            "permuted")
    /\ UNCHANGED <<shape, slots, opened, claims>>

\* convert_raw_advice: every advice column, whatever its phase, then the
\* challenges of phase 0; theta.
CommitAdvice ==
    /\ at["prover"] = "advice"
    /\ Emit(Statement, AdviceComs, ChallengesOf({0}) \o <<Challenge("theta", 0)>>, "permuted")
    /\ UNCHANGED <<shape, slots, opened, claims>>

CommitPermuted ==
    /\ at["prover"] = "permuted"
    /\ Emit(<<>>, PermutedComs, <<Challenge("beta", 0), Challenge("gamma", 0)>>, "products")
    /\ UNCHANGED <<shape, slots, opened, claims>>

CommitProducts ==
    /\ at["prover"] = "products"
    /\ Emit(<<>>, ProductComs, <<Challenge("y", 0)>>, "quotient")
    /\ UNCHANGED <<shape, slots, opened, claims>>

\* Mutant: h is not truncated to the quotient's degree before it is chunked.
CommitQuotientUntruncated ==
    /\ at["prover"] = "quotient"
    /\ Emit(<<>>, Each(CHOOSE m \in {2, 4, 8} : m >= Pieces /\ m < 2 * Pieces,
                       LAMBDA p : Com("h", p)),
            <<Challenge("x", 0)>>, "evaluate")
    /\ UNCHANGED <<shape, slots, opened, claims>>

CommitQuotient ==
    /\ at["prover"] = "quotient"
    /\ Emit(<<>>, QuotientComs, <<Challenge("x", 0)>>, "evaluate")
    /\ UNCHANGED <<shape, slots, opened, claims>>

\* The evaluations, or openings, that a list of queries of columns asks for.
Queried(of, queries) ==
    Each(Len(queries), LAMBDA q : [com |-> Com(of, queries[q].col), at |-> queries[q].at])

Opening(of, i, r) == [com |-> Com(of, i), at |-> r]

InstanceOpenings ==
    IF shape.queryInstance THEN Queried("instance", shape.instanceQueries) ELSE <<>>

Evaluations ==
    InstanceOpenings
    \o Queried("advice", shape.adviceQueries)
    \o Queried("fixed", shape.fixedQueries)
    \o <<Opening("random", 0, 0)>>
    \o Each(shape.permutationColumns, LAMBDA c : Opening("sigma", c, 0))
    \o EachFlat(Sets, LAMBDA s :
           LET z(r) == Opening("permutationProduct", s, r)
           IN  <<z(0), z(NextRow)>> \o (IF s < Sets THEN <<z(LastRow)>> ELSE <<>>))
    \o EachFlat(shape.lookups, LAMBDA l :
           << Opening("lookupProduct", l, 0), Opening("lookupProduct", l, NextRow),
              Opening("permutedInput", l, 0), Opening("permutedInput", l, PrevRow),
              Opening("permutedTable", l, 0) >>)

Evals == [k \in DOMAIN Evaluations |-> Eval(Evaluations[k].com, Evaluations[k].at)]

Evaluate ==
    /\ at["prover"] = "evaluate"
    /\ Emit(<<>>, Evals, <<>>, "open")
    /\ UNCHANGED <<shape, slots, opened, claims>>

\* Mutant: the sets are opened at x_last in ascending order.
LastOpeningsAscending ==
    Each(IF Sets = 0 THEN 0 ELSE Sets - 1, LAMBDA s : Opening("permutationProduct", s, LastRow))

\* sets.iter().rev().skip(1)
LastOpenings ==
    Each(IF Sets = 0 THEN 0 ELSE Sets - 1,
         LAMBDA k : Opening("permutationProduct", Sets - k, LastRow))

Openings ==
    InstanceOpenings
    \o Queried("advice", shape.adviceQueries)
    \o EachFlat(Sets, LAMBDA s : << Opening("permutationProduct", s, 0),
                                    Opening("permutationProduct", s, NextRow) >>)
    \o LastOpenings
    \o EachFlat(shape.lookups, LAMBDA l :
           << Opening("lookupProduct", l, 0), Opening("permutedInput", l, 0),
              Opening("permutedTable", l, 0), Opening("permutedInput", l, PrevRow),
              Opening("lookupProduct", l, NextRow) >>)
    \o Queried("fixed", shape.fixedQueries)
    \o Each(shape.permutationColumns, LAMBDA c : Opening("sigma", c, 0))
    \o <<Opening("h", 0, 0), Opening("random", 0, 0)>>

\* ProverSHPLONK: y, v; the commitment of h(X); u; that of the final quotient.
Open ==
    /\ at["prover"] = "open"
    /\ opened' = Openings
    /\ absorbed' = [absorbed EXCEPT !["prover"] = @ \o
                       << Challenge("shplonk_y", 0), Challenge("v", 0), Com("shplonk_h", 0),
                          Challenge("u", 0), Com("shplonk_final", 0) >>]
    /\ proof' = proof \o <<Com("shplonk_h", 0), Com("shplonk_final", 0)>>
    /\ at' = [at EXCEPT !["prover"] = "done", !["verifier"] = "instances"]
    /\ UNCHANGED <<shape, slots, claims>>

(* ------------------------------ the verifier ------------------------------ *)

\* A phase of the verifier: the next values of the proof fill the named slots; a
\* proof that is too short is rejected.
Take(common, names, squeezed, next) ==
    LET from == Len(slots)
        upto == from + Len(names)
    IN  IF upto > Len(proof)
        THEN /\ at' = [at EXCEPT !["verifier"] = "rejected"]
             /\ UNCHANGED <<absorbed, slots>>
        ELSE /\ absorbed' = [absorbed EXCEPT !["verifier"] =
                                 @ \o common \o SubSeq(proof, from + 1, upto) \o squeezed]
             /\ slots' = slots \o names
             /\ at' = [at EXCEPT !["verifier"] = next]

\* vk.hash_into, then the instances.
AbsorbInstances ==
    /\ at["verifier"] = "instances"
    /\ Take(Statement, <<>>, <<>>, "advice")
    /\ UNCHANGED <<shape, proof, opened, claims>>

ColumnsOf(phase) ==
    EachFlat(NumAdvice, LAMBDA c :
        IF shape.advicePhase[c] = phase THEN <<Slot("advice", c)>> ELSE <<>>)

\* The advice columns of each phase in turn, with that phase's challenges.
ReadAdvice ==
    /\ at["verifier"] = "advice"
    /\ LET phase == Cardinality({c \in Phases : \E k \in DOMAIN slots :
                                    shape.advicePhase[slots[k].i] = c})
           final == phase + 1 = Cardinality(Phases)
       IN  Take(<<>>, ColumnsOf(phase),
                ChallengesOf({phase}) \o (IF final THEN <<Challenge("theta", 0)>> ELSE <<>>),
                IF final THEN "permuted" ELSE "advice")
    /\ UNCHANGED <<shape, proof, opened, claims>>

PermutedSlots == EachFlat(shape.lookups, LAMBDA l :
                              <<Slot("permutedInput", l), Slot("permutedTable", l)>>)
ProductSlots  == Each(Sets, LAMBDA s : Slot("permutationProduct", s))
                 \o Each(shape.lookups, LAMBDA l : Slot("lookupProduct", l))
                 \o <<Slot("random", 0)>>
QuotientSlots == Each(Pieces, LAMBDA p : Slot("h", p))

ReadPermuted ==
    /\ at["verifier"] = "permuted"
    /\ Take(<<>>, PermutedSlots, <<Challenge("beta", 0), Challenge("gamma", 0)>>, "products")
    /\ UNCHANGED <<shape, proof, opened, claims>>

ReadProducts ==
    /\ at["verifier"] = "products"
    /\ Take(<<>>, ProductSlots, <<Challenge("y", 0)>>, "quotient")
    /\ UNCHANGED <<shape, proof, opened, claims>>

ReadQuotient ==
    /\ at["verifier"] = "quotient"
    /\ Take(<<>>, QuotientSlots, <<Challenge("x", 0)>>, "evaluate")
    /\ UNCHANGED <<shape, proof, opened, claims>>

\* Mutant: the evaluation at x_next is read into the slot of the one at x.
PermutationSlotsTwice ==
    EachFlat(Sets, LAMBDA s :
        <<Slot("permutation_eval", s), Slot("permutation_eval", s)>> \o
        (IF s < Sets THEN <<Slot("permutation_last_eval", s)>> ELSE <<>>))

PermutationSlots ==
    EachFlat(Sets, LAMBDA s :
        <<Slot("permutation_eval", s), Slot("permutation_next_eval", s)>> \o
        (IF s < Sets THEN <<Slot("permutation_last_eval", s)>> ELSE <<>>))

\* Mutant: the evaluations of the permuted input are read in the order of the openings.
LookupSlotsReordered ==
    EachFlat(shape.lookups, LAMBDA l :
        << Slot("product_eval", l), Slot("permuted_input_eval", l),
           Slot("permuted_table_eval", l), Slot("permuted_input_inv_eval", l),
           Slot("product_next_eval", l) >>)

LookupSlots ==
    EachFlat(shape.lookups, LAMBDA l :
        << Slot("product_eval", l), Slot("product_next_eval", l),
           Slot("permuted_input_eval", l), Slot("permuted_input_inv_eval", l),
           Slot("permuted_table_eval", l) >>)

EvalSlots(of, queries) == Each(Len(queries), LAMBDA q : Slot(of, q))

EvaluationSlots ==
    (IF shape.queryInstance THEN EvalSlots("instance_evals", shape.instanceQueries) ELSE <<>>)
    \o EvalSlots("advice_evals", shape.adviceQueries)
    \o EvalSlots("fixed_evals", shape.fixedQueries)
    \o <<Slot("random_eval", 0)>>
    \o Each(shape.permutationColumns, LAMBDA c : Slot("permutation_evals", c))
    \o PermutationSlots
    \o LookupSlots

ReadEvaluations ==
    /\ at["verifier"] = "evaluate"
    /\ Take(<<>>, EvaluationSlots, <<>>, "open")
    /\ UNCHANGED <<shape, proof, opened, claims>>

Claim(of, i, r, evalOf, j) ==
    [com |-> Slot(of, i), at |-> r, eval |-> Slot(evalOf, j)]

\* The commitment and the evaluation of a query are paired by the query's index.
QueryClaims(of, queries, evals) ==
    Each(Len(queries), LAMBDA q : Claim(of, queries[q].col, queries[q].at, evals, q))

Claims ==
    (IF shape.queryInstance
     THEN QueryClaims("instance", shape.instanceQueries, "instance_evals") ELSE <<>>)
    \o QueryClaims("advice", shape.adviceQueries, "advice_evals")
    \o EachFlat(Sets, LAMBDA s :
           << Claim("permutationProduct", s, 0, "permutation_eval", s),
              Claim("permutationProduct", s, NextRow, "permutation_next_eval", s) >>)
    \o Each(IF Sets = 0 THEN 0 ELSE Sets - 1, LAMBDA k :
           Claim("permutationProduct", Sets - k, LastRow, "permutation_last_eval", Sets - k))
    \o EachFlat(shape.lookups, LAMBDA l :
           << Claim("lookupProduct", l, 0, "product_eval", l),
              Claim("permutedInput", l, 0, "permuted_input_eval", l),
              Claim("permutedTable", l, 0, "permuted_table_eval", l),
              Claim("permutedInput", l, PrevRow, "permuted_input_inv_eval", l),
              Claim("lookupProduct", l, NextRow, "product_next_eval", l) >>)
    \o QueryClaims("fixed", shape.fixedQueries, "fixed_evals")
    \o Each(shape.permutationColumns, LAMBDA c : Claim("sigma", c, 0, "permutation_evals", c))
    \o <<Claim("h", 0, 0, "expected_h_eval", 0), Claim("random", 0, 0, "random_eval", 0)>>

\* What a slot holds: a value of the proof, or what the verifier already has: the
\* vk's commitments, its own instance commitments, the MSM of the h pieces and
\* the value the constraints give h(x).
Held(slot) ==
    IF slot.of \in {"fixed", "sigma", "instance"} THEN Com(slot.of, slot.i)
    ELSE IF slot = Slot("h", 0)
         THEN IF \A p \in 1..Pieces : Com("h", p) = proof[CHOOSE k \in DOMAIN slots :
                                                              slots[k] = Slot("h", p)]
              THEN Com("h", 0) ELSE Com("other", 0)
    ELSE IF slot.of = "expected_h_eval" THEN Eval(Com("h", 0), 0)
    ELSE proof[CHOOSE k \in DOMAIN slots : slots[k] = slot]

\* The multiopen accepts when both sides list the same openings in the same order
\* under the same challenges, and every evaluation is that of its commitment.
Convinced ==
    /\ absorbed'["verifier"] = absorbed["prover"]
    /\ [k \in DOMAIN Claims |-> [com |-> Held(Claims[k].com), at |-> Claims[k].at]] = opened
    /\ \A k \in DOMAIN Claims : Held(Claims[k].eval) = Eval(Held(Claims[k].com), Claims[k].at)

\* VerifierSHPLONK::verify_proof and the strategy's pairing check.
VerifyOpenings ==
    /\ at["verifier"] = "open"
    /\ claims' = Claims
    /\ IF Len(slots) + 2 > Len(proof)
       THEN at' = [at EXCEPT !["verifier"] = "rejected"] /\ UNCHANGED <<absorbed, slots>>
       ELSE /\ slots' = slots \o <<Slot("h1", 0), Slot("h2", 0)>>
            /\ absorbed' = [absorbed EXCEPT !["verifier"] = @ \o
                   << Challenge("shplonk_y", 0), Challenge("v", 0), proof[Len(slots) + 1],
                      Challenge("u", 0), proof[Len(slots) + 2] >>]
            /\ at' = [at EXCEPT !["verifier"] = IF Convinced THEN "accepted" ELSE "rejected"]
    /\ UNCHANGED <<shape, proof, opened>>

(* ----------------------------- the specification -------------------------- *)

Init ==
    /\ shape \in Shapes
    /\ at = [prover |-> "synthesize", verifier |-> "waiting"]
    /\ absorbed = [prover |-> <<>>, verifier |-> <<>>]
    /\ proof = <<>>
    /\ slots = <<>>
    /\ opened = <<>>
    /\ claims = <<>>

Done ==
    /\ at["prover"] = "panicked" \/ at["verifier"] \in {"accepted", "rejected"}
    /\ UNCHANGED vars

ProverStep ==
    \/ Synthesize \/ CommitAdvice \/ CommitPermuted \/ CommitProducts
    \/ CommitQuotient \/ Evaluate \/ Open

VerifierStep ==
    \/ AbsorbInstances \/ ReadAdvice \/ ReadPermuted \/ ReadProducts
    \/ ReadQuotient \/ ReadEvaluations \/ VerifyOpenings

Next == ProverStep \/ VerifierStep \/ Done

\* Both sides are sequential programs that run to their end.
Spec == Init /\ [][Next]_vars /\ WF_vars(ProverStep) /\ WF_vars(VerifierStep)

(* ------------------------------- properties ------------------------------- *)

\* The transcript, the proof and the slots are what their names say, and no slot
\* is filled twice.
TypeOK ==
    /\ \A k \in DOMAIN proof : proof[k].is \in {"com", "eval"}
    /\ Len(slots) <= Len(proof)
    /\ \A j, k \in DOMAIN slots : slots[j] = slots[k] => j = k
    /\ Len(claims) \in {0, Len(opened)}
    /\ at["verifier"] # "waiting" => at["prover"] = "done"

\* What the verifier has absorbed is always a beginning of what the prover has: a
\* phase more, less or out of place on one side changes every later challenge
\* (plonk/prover.rs against plonk/verifier.rs).
TranscriptsAgree == IsPrefix(absorbed["verifier"], absorbed["prover"])

\* Every opening the verifier checks is the prover's at the same place of the
\* list, and the evaluation it is checked against is the one that was written for
\* that polynomial at that rotation (the queries of both sides and the order in
\* which the evaluations are read).
OpeningsAgree ==
    claims # <<>> /\ Len(slots) = Len(proof) =>
        /\ Len(claims) = Len(opened)
        /\ \A k \in DOMAIN claims :
              /\ Held(claims[k].com) = opened[k].com
              /\ claims[k].at = opened[k].at
              /\ Held(claims[k].eval) = Eval(opened[k].com, opened[k].at)

Position(v) == IF \E k \in DOMAIN absorbed["prover"] : absorbed["prover"][k] = v
               THEN CHOOSE k \in DOMAIN absorbed["prover"] : absorbed["prover"][k] = v
               ELSE Len(absorbed["prover"]) + 1

Binds(challenge, before) == \A v \in before : Position(v) < Position(Challenge(challenge, 0))

\* Every challenge is drawn after all it must bind (Fiat-Shamir): theta after the
\* statement and the advice, beta and gamma after the permuted columns, y after
\* the products, x after the quotient, the multiopen's y and v after the evaluations,
\* and its u after the quotient it commits to.
ChallengesBind ==
    at["prover"] = "done" =>
        /\ Binds("theta", Range(VkDigest \o InstanceInputs)
                          \cup {Com("advice", c) : c \in 1..NumAdvice})
        /\ \A drawn \in {"beta", "gamma"} :
               Binds(drawn, {Com(of, l) : of \in {"permutedInput", "permutedTable"},
                                          l \in 1..shape.lookups})
        /\ Binds("y", {Com("permutationProduct", s) : s \in 1..Sets}
                      \cup {Com("lookupProduct", l) : l \in 1..shape.lookups})
        /\ Binds("x", {Com("h", p) : p \in 1..Pieces} \cup
                      {o.com : o \in {p \in Range(opened) :
                                         p.com.of \notin {"fixed", "sigma", "h"}}})
        /\ \A drawn \in {"shplonk_y", "v"} :
               Binds(drawn, {Eval(o.com, o.at) :
                                 o \in {p \in Range(opened) : p.com.of # "h"}})
        /\ Binds("u", {Com("shplonk_h", 0)})

\* A proof that is produced is accepted, with nothing of it left unread; only a
\* circuit of several phases is refused, before anything is written.
ProofsAreAccepted ==
    <>\/ at["verifier"] = "accepted" /\ Len(slots) = Len(proof)
      \/ at["prover"] = "panicked" /\ Phases # {0} /\ proof = <<>>

\* The doc of synthesize_advice_columns (witness.rs) restricts it to circuits of
\* one phase and leaves the squeezing of the phase-0 challenges to
\* convert_raw_advice: its synthesis neither fails nor squeezes them itself.
ConvertSqueezesPhase0 ==
    Phases = {0} => /\ at["prover"] # "panicked"
                    /\ at["prover"] = "advice" => absorbed["prover"] = <<>>
Queries(columns) == Seq([col : columns, at : Int])

\* A circuit as key generation leaves it: queries name its columns, and the degree is
\* at least the permutation argument's 3 (plonk/circuit.rs, degree).
WellFormed(s) ==
    /\ s.queryInstance \in BOOLEAN /\ s.instances \in Seq(Nat)
    /\ s.advicePhase \in Seq(Nat) /\ s.challengePhase \in Seq(Nat)
    /\ s.instanceQueries \in Queries(1..Len(s.instances))
    /\ s.adviceQueries \in Queries(1..Len(s.advicePhase))
    /\ s.fixedQueries \in Queries(Nat)
    /\ s.lookups \in Nat /\ s.permutationColumns \in Nat
    /\ s.degree \in Nat /\ s.degree >= 3

\* The circuits both sides are made for: create_proof synthesizes those without
\* challenges and refuses several phases, and convert_raw_advice commits the advice it
\* is given at once and squeezes the challenges of phase 0.
Supported(s) ==
    /\ WellFormed(s)
    /\ \/ s.entry = "circuit" /\ s.challengePhase = <<>>
       \/ s.entry = "advice" /\ \A c \in DOMAIN s.advicePhase : s.advicePhase[c] = 0

==============================================================================
