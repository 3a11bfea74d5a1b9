------------------------- MODULE ProofTranscriptProofs -------------------------
(* The proof system's two sides for every circuit they are made for: whatever   *)
(* the number of columns, queries, lookups and sets of the permutation argument, *)
(* the verifier's transcript is always a beginning of the prover's, every slot    *)
(* holds what it means, the openings agree and no proof is rejected.              *)
(*                                                                              *)
(* First the parts the transcripts are put together from: the values of each      *)
(* phase, the slots they are read into and what a slot means, and the openings.   *)
(* The invariant then says what both transcripts, the proof and the slots are in  *)
(* every phase.                                                                   *)
EXTENDS ProofTranscript, DataInduction, FiniteSetTheorems

(* ---------------------------------- parts ----------------------------------- *)

Labels == {"vk", "instance", "advice", "fixed", "sigma", "permutedInput", "permutedTable",
           "permutationProduct", "lookupProduct", "random", "h", "shplonk_h", "shplonk_final"}

Draws == {"phase", "theta", "beta", "gamma", "y", "x", "shplonk_y", "v", "u"}

Rotations == Int \cup {LastRow}

Coms   == {Com(of, i) : of \in Labels, i \in Nat}
EvalsOf(com) == {Eval(com, r) : r \in Rotations}
Values == {Value(i, r) : i \in Nat, r \in Nat}
Challenges == {Challenge(of, i) : of \in Draws, i \in Nat}

Items == Coms \cup (UNION {EvalsOf(com) : com \in Coms}) \cup Values \cup Challenges

LEMMA Numbers ==
    ASSUME Supported(shape)
    PROVE  /\ NumAdvice \in Nat /\ Sets \in Nat /\ Pieces \in Nat /\ Pieces # 0
           /\ shape.lookups \in Nat /\ shape.permutationColumns \in Nat
           /\ NextRow \in Int /\ PrevRow \in Int
<1>1. shape.degree \in Nat /\ shape.degree >= 3 /\ shape.permutationColumns \in Nat
  BY DEF Supported, WellFormed
<1>2. ChunkLen \in Nat \ {0}
  BY <1>1 DEF ChunkLen
<1>3. Sets \in Nat
  <2> DEFINE n == shape.permutationColumns + ChunkLen - 1
  <2>1. n \in Nat
    BY <1>1, <1>2
  <2> HIDE DEF n
  <2>2. n \div ChunkLen \in Nat
    BY <1>2, <2>1
  <2> QED  BY <2>2 DEF Sets, n
<1> QED  BY <1>1, <1>3 DEF Supported, WellFormed, NumAdvice, Pieces, NextRow, PrevRow

\* What a function on an interval is as a sequence.
LEMMA IntervalFunction ==
    ASSUME NEW V, NEW n \in Nat, NEW f \in [1..n -> V]
    PROVE  f \in Seq(V) /\ Len(f) = n /\ Range(f) = {f[i] : i \in 1..n}
  BY DEF Range

\* Parts of equal make, one after the other.
LEMMA FlatParts ==
    ASSUME NEW V, NEW n \in Nat, NEW f \in [1..n -> Seq(V)]
    PROVE  /\ FlattenSeq(f) \in Seq(V)
           /\ Range(FlattenSeq(f)) = UNION {Range(f[i]) : i \in 1..n}
<1>1. f \in Seq(Seq(V)) /\ Len(f) = n
  OBVIOUS
<1> QED  BY <1>1, FlattenType, FlattenRange

LEMMA StatementPart ==
    ASSUME Supported(shape)
    PROVE  /\ Statement \in Seq(Items)
           /\ Range(Statement) \subseteq {Com("vk", 0)} \cup {Com("instance", c) : c \in Nat}
                                         \cup Values
           /\ shape.queryInstance =>
                  \A c \in 1..Len(shape.instances) : Com("instance", c) \in Range(Statement)
<1> DEFINE n == Len(shape.instances)
           coms == [c \in 1..n |-> Com("instance", c)]
           rows(c) == [r \in 1..shape.instances[c] |-> Value(c, r)]
           columns == [c \in 1..n |-> rows(c)]
           V == {Com("instance", c) : c \in Nat} \cup Values
<1>1. n \in Nat /\ \A c \in 1..n : shape.instances[c] \in Nat
  BY DEF Supported, WellFormed
<1>2. VkDigest \in Seq(Items) /\ Range(VkDigest) = {Com("vk", 0)}
  <2>1. Com("vk", 0) \in Items
    BY DEF Items, Coms, Labels
  <2> QED  BY <2>1, SingleRange DEF VkDigest
<1>3. /\ coms \in [1..n -> V] /\ coms \in Seq(V)
      /\ Range(coms) = {Com("instance", c) : c \in 1..n}
  <2>1. coms \in [1..n -> V]
    BY <1>1
  <2> HIDE DEF n, V
  <2>4. DOMAIN coms = 1..n
    OBVIOUS
  <2>2. coms \in Seq(V) /\ Range(coms) = {coms[c] : c \in 1..n}
    BY ONLY <1>1, <2>1, IntervalFunction
  <2>3. \A c \in 1..n : coms[c] = Com("instance", c)
    OBVIOUS
  <2> HIDE DEF coms
  <2> QED  BY <2>1, <2>2, <2>3
<1>4. FlattenSeq(columns) \in Seq(V)
  <2>1. \A c \in 1..n : rows(c) \in [1..shape.instances[c] -> V]
    BY <1>1 DEF Values
  <2>2. \A c \in 1..n : rows(c) \in Seq(V)
    BY <1>1, <2>1, IntervalFunction, ZenonT(30)
  <2>3. columns \in [1..n -> Seq(V)]
    BY <2>2
  <2> HIDE DEF columns, V
  <2> QED  BY <1>1, <2>3, FlatParts
<1>5. InstanceInputs = IF shape.queryInstance THEN coms ELSE FlattenSeq(columns)
  BY DEF InstanceInputs, EachFlat, Each
<1>6. V \subseteq Items
  BY DEF Items, Coms, Labels
<1> HIDE DEF V, coms, columns
<1>7. InstanceInputs \in Seq(V)
  BY <1>3, <1>4, <1>5
<1>8. InstanceInputs \in Seq(Items) /\ Range(InstanceInputs) \subseteq V
  BY <1>6, <1>7 DEF Range
<1>9. Statement \in Seq(Items) /\ Range(Statement) = {Com("vk", 0)} \cup Range(InstanceInputs)
  BY <1>2, <1>8, ConcatRange DEF Statement
<1> QED  BY <1>3, <1>5, <1>8, <1>9 DEF V

LEMMA AdvicePart ==
    ASSUME Supported(shape)
    PROVE  /\ AdviceComs \in Seq(Items)
           /\ Range(AdviceComs) = {Com("advice", c) : c \in 1..NumAdvice}
<1>1. AdviceComs = [c \in 1..NumAdvice |-> Com("advice", c)]
  BY DEF AdviceComs, Each
<1>2. \A c \in 1..NumAdvice : Com("advice", c) \in Items
  BY Numbers DEF Items, Coms, Labels
<1>3. AdviceComs \in [1..NumAdvice -> Items]
  BY <1>1, <1>2
<1>4. /\ AdviceComs \in Seq(Items)
      /\ Range(AdviceComs) = {AdviceComs[c] : c \in 1..NumAdvice}
  <2>1. NumAdvice \in Nat
    BY Numbers
  <2> QED  BY ONLY <1>3, <2>1, IntervalFunction
<1>5. \A c \in 1..NumAdvice : AdviceComs[c] = Com("advice", c)
  BY <1>1
<1> QED  BY <1>4, <1>5

LEMMA PermutedPart ==
    ASSUME Supported(shape)
    PROVE  /\ PermutedComs \in Seq(Items)
           /\ Range(PermutedComs) = {Com(of, l) : of \in {"permutedInput", "permutedTable"},
                                                  l \in 1..shape.lookups}
<1> DEFINE n == shape.lookups
           f == [l \in 1..n |-> <<Com("permutedInput", l), Com("permutedTable", l)>>]
<1>1. PermutedComs = FlattenSeq(f)
  BY DEF PermutedComs, EachFlat, Each
<1>2. \A l \in 1..n : Com("permutedInput", l) \in Items /\ Com("permutedTable", l) \in Items
  BY Numbers DEF Items, Coms, Labels
<1>3. \A l \in 1..n : f[l] \in Seq(Items)
  BY <1>2
<1>4. \A l \in 1..n : Range(f[l]) = {Com("permutedInput", l), Com("permutedTable", l)}
  BY PairRange
<1>5. f \in [1..n -> Seq(Items)]
  BY <1>3
<1> HIDE DEF f
<1>6. /\ FlattenSeq(f) \in Seq(Items)
      /\ Range(FlattenSeq(f)) = UNION {Range(f[l]) : l \in 1..n}
  <2>1. n \in Nat
    BY Numbers
  <2> HIDE DEF n
  <2> QED  BY ONLY <1>5, <2>1, FlatParts
<1>7. UNION {Range(f[l]) : l \in 1..n} =
          {Com(of, l) : of \in {"permutedInput", "permutedTable"}, l \in 1..n}
  BY <1>4
<1> QED  BY ONLY <1>1, <1>6, <1>7

(* ----------------------------- slots and openings ----------------------------- *)

\* The slots that hold a commitment of their own name.
NamedSlots == {"instance", "advice", "fixed", "sigma", "permutedInput", "permutedTable",
               "permutationProduct", "lookupProduct", "random", "h"}

EvalLabels == {"instance_evals", "advice_evals", "fixed_evals", "random_eval",
               "permutation_evals", "permutation_eval", "permutation_next_eval",
               "permutation_last_eval", "product_eval", "product_next_eval",
               "permuted_input_eval", "permuted_input_inv_eval", "permuted_table_eval",
               "expected_h_eval"}

SlotLabels == NamedSlots \cup {"h1", "h2"} \cup EvalLabels

SlotsOf(L) == {Slot(of, i) : of \in L, i \in Nat}
SlotSet    == SlotsOf(SlotLabels)

OpeningSet == {Opening(of, i, r) : of \in Labels, i \in Nat, r \in Rotations}

\* The opening whose evaluation a slot is for.
OpeningOf(s) ==
    CASE s.of = "instance_evals" ->
             Opening("instance", shape.instanceQueries[s.i].col, shape.instanceQueries[s.i].at)
      [] s.of = "advice_evals" ->
             Opening("advice", shape.adviceQueries[s.i].col, shape.adviceQueries[s.i].at)
      [] s.of = "fixed_evals" ->
             Opening("fixed", shape.fixedQueries[s.i].col, shape.fixedQueries[s.i].at)
      [] s.of = "random_eval" -> Opening("random", 0, 0)
      [] s.of = "permutation_evals" -> Opening("sigma", s.i, 0)
      [] s.of = "permutation_eval" -> Opening("permutationProduct", s.i, 0)
      [] s.of = "permutation_next_eval" -> Opening("permutationProduct", s.i, NextRow)
      [] s.of = "permutation_last_eval" -> Opening("permutationProduct", s.i, LastRow)
      [] s.of = "product_eval" -> Opening("lookupProduct", s.i, 0)
      [] s.of = "product_next_eval" -> Opening("lookupProduct", s.i, NextRow)
      [] s.of = "permuted_input_eval" -> Opening("permutedInput", s.i, 0)
      [] s.of = "permuted_input_inv_eval" -> Opening("permutedInput", s.i, PrevRow)
      [] s.of = "permuted_table_eval" -> Opening("permutedTable", s.i, 0)
      [] s.of = "expected_h_eval" -> Opening("h", 0, 0)

\* The value that a slot must hold.
Meaning(s) ==
    CASE s.of \in NamedSlots -> Com(s.of, s.i)
      [] s.of = "h1" -> Com("shplonk_h", 0)
      [] s.of = "h2" -> Com("shplonk_final", 0)
      [] s.of \in EvalLabels -> Eval(OpeningOf(s).com, OpeningOf(s).at)

\* A commitment fills the slot that means it; an evaluation that of its opening.
ReadAs  == {p \in SlotSet \X Items : p[2] = Meaning(p[1])}
AskedAs == {p \in SlotSet \X OpeningSet : p[2] = OpeningOf(p[1]) /\ p[1].of \in EvalLabels}

LEMMA OpeningsOfSlots ==
    /\ \A q : /\ OpeningOf(Slot("instance_evals", q)) =
                  Opening("instance", shape.instanceQueries[q].col, shape.instanceQueries[q].at)
              /\ OpeningOf(Slot("advice_evals", q)) =
                  Opening("advice", shape.adviceQueries[q].col, shape.adviceQueries[q].at)
              /\ OpeningOf(Slot("fixed_evals", q)) =
                  Opening("fixed", shape.fixedQueries[q].col, shape.fixedQueries[q].at)
    /\ \A i : /\ OpeningOf(Slot("random_eval", i)) = Opening("random", 0, 0)
              /\ OpeningOf(Slot("permutation_evals", i)) = Opening("sigma", i, 0)
              /\ OpeningOf(Slot("permutation_eval", i)) = Opening("permutationProduct", i, 0)
              /\ OpeningOf(Slot("permutation_next_eval", i)) =
                     Opening("permutationProduct", i, NextRow)
              /\ OpeningOf(Slot("permutation_last_eval", i)) =
                     Opening("permutationProduct", i, LastRow)
    /\ \A i : /\ OpeningOf(Slot("product_eval", i)) = Opening("lookupProduct", i, 0)
              /\ OpeningOf(Slot("product_next_eval", i)) = Opening("lookupProduct", i, NextRow)
              /\ OpeningOf(Slot("permuted_input_eval", i)) = Opening("permutedInput", i, 0)
              /\ OpeningOf(Slot("permuted_input_inv_eval", i)) =
                     Opening("permutedInput", i, PrevRow)
              /\ OpeningOf(Slot("permuted_table_eval", i)) = Opening("permutedTable", i, 0)
              /\ OpeningOf(Slot("expected_h_eval", i)) = Opening("h", 0, 0)
<1>1. \A of, i : Slot(of, i).of = of /\ Slot(of, i).i = i
  BY DEF Slot
<1>2. \A q : /\ OpeningOf(Slot("instance_evals", q)) =
                 Opening("instance", shape.instanceQueries[q].col, shape.instanceQueries[q].at)
             /\ OpeningOf(Slot("advice_evals", q)) =
                 Opening("advice", shape.adviceQueries[q].col, shape.adviceQueries[q].at)
             /\ OpeningOf(Slot("fixed_evals", q)) =
                 Opening("fixed", shape.fixedQueries[q].col, shape.fixedQueries[q].at)
  BY <1>1 DEF OpeningOf
<1>3. \A i : /\ OpeningOf(Slot("random_eval", i)) = Opening("random", 0, 0)
             /\ OpeningOf(Slot("permutation_evals", i)) = Opening("sigma", i, 0)
             /\ OpeningOf(Slot("permutation_eval", i)) = Opening("permutationProduct", i, 0)
             /\ OpeningOf(Slot("permutation_next_eval", i)) =
                    Opening("permutationProduct", i, NextRow)
             /\ OpeningOf(Slot("permutation_last_eval", i)) =
                    Opening("permutationProduct", i, LastRow)
  BY <1>1 DEF OpeningOf
<1>4. \A i : /\ OpeningOf(Slot("product_eval", i)) = Opening("lookupProduct", i, 0)
             /\ OpeningOf(Slot("product_next_eval", i)) = Opening("lookupProduct", i, NextRow)
             /\ OpeningOf(Slot("permuted_input_eval", i)) = Opening("permutedInput", i, 0)
             /\ OpeningOf(Slot("permuted_input_inv_eval", i)) =
                    Opening("permutedInput", i, PrevRow)
             /\ OpeningOf(Slot("permuted_table_eval", i)) = Opening("permutedTable", i, 0)
             /\ OpeningOf(Slot("expected_h_eval", i)) = Opening("h", 0, 0)
  BY <1>1 DEF OpeningOf
<1> QED  BY <1>2, <1>3, <1>4

LEMMA Meanings ==
    /\ \A of \in NamedSlots : \A i : Meaning(Slot(of, i)) = Com(of, i)
    /\ \A i : /\ Meaning(Slot("h1", i)) = Com("shplonk_h", 0)
              /\ Meaning(Slot("h2", i)) = Com("shplonk_final", 0)
    /\ \A of \in EvalLabels : \A i :
           LET o == OpeningOf(Slot(of, i)) IN Meaning(Slot(of, i)) = Eval(o.com, o.at)
<1>1. \A of, i : Slot(of, i).of = of /\ Slot(of, i).i = i
  BY DEF Slot
<1>2. /\ "h1" \notin NamedSlots /\ "h2" \notin NamedSlots
      /\ \A of \in EvalLabels : of \notin NamedSlots /\ of # "h1" /\ of # "h2"
  BY DEF NamedSlots, EvalLabels
<1>3. \A of \in NamedSlots : \A i : Meaning(Slot(of, i)) = Com(of, i)
  BY <1>1, <1>2 DEF Meaning
<1>4. \A i : /\ Meaning(Slot("h1", i)) = Com("shplonk_h", 0)
             /\ Meaning(Slot("h2", i)) = Com("shplonk_final", 0)
  BY <1>1, <1>2 DEF Meaning
<1>5. ASSUME NEW of \in EvalLabels, NEW i
      PROVE  Meaning(Slot(of, i)) = Eval(OpeningOf(Slot(of, i)).com, OpeningOf(Slot(of, i)).at)
  BY <1>1, <1>2 DEF Meaning
<1> QED  BY <1>3, <1>4, <1>5

\* The slots of the labels L, none twice, for the values or openings w.
Reads(s, w, R, V, L) ==
    /\ s \in Seq(SlotSet) /\ w \in Seq(V) /\ Matches(s, w, R)
    /\ Distinct(s) /\ Range(s) \subseteq SlotsOf(L)

LEMMA ConcatReads ==
    ASSUME NEW R, NEW V, NEW L, NEW M, NEW s, NEW w, NEW t, NEW u,
           Reads(s, w, R, V, L), Reads(t, u, R, V, M), L \cap M = {}
    PROVE  Reads(s \o t, w \o u, R, V, L \cup M)
<1>1. /\ s \in Seq(SlotSet) /\ w \in Seq(V) /\ Matches(s, w, R) /\ Distinct(s)
      /\ t \in Seq(SlotSet) /\ u \in Seq(V) /\ Matches(t, u, R) /\ Distinct(t)
      /\ Range(s) \subseteq SlotsOf(L) /\ Range(t) \subseteq SlotsOf(M)
  BY DEF Reads
<1>2. s \o t \in Seq(SlotSet) /\ w \o u \in Seq(V)
  BY <1>1
<1>3. Matches(s \o t, w \o u, R)
  BY <1>1, ConcatMatches
<1>4. Range(s) \cap Range(t) = {}
  <2>1. \A of, i : Slot(of, i).of = of
    BY DEF Slot
  <2>2. ASSUME NEW x \in SlotsOf(L), NEW y \in SlotsOf(M) PROVE x # y
    <3>1. x.of \in L /\ y.of \in M
      BY <2>1 DEF SlotsOf
    <3> QED  BY <3>1
  <2> QED  BY <1>1, <2>2
<1>5. Distinct(s \o t)
  BY <1>1, <1>4, ConcatDistinct
<1>6. Range(s \o t) \subseteq SlotsOf(L \cup M)
  <2>1. Range(s \o t) = Range(s) \cup Range(t)
    BY <1>1, ConcatRange
  <2>2. SlotsOf(L) \subseteq SlotsOf(L \cup M) /\ SlotsOf(M) \subseteq SlotsOf(L \cup M)
    BY DEF SlotsOf
  <2> QED  BY <1>1, <2>1, <2>2
<1> QED  BY <1>2, <1>3, <1>5, <1>6 DEF Reads

\* One slot for every index, and what it is for.
EachRead(s, w, R, V, of, n) ==
    /\ s = [i \in 1..n |-> Slot(of, i)] /\ w \in [1..n -> V]
    /\ \A i \in 1..n : <<Slot(of, i), w[i]>> \in R

LEMMA EachReads ==
    ASSUME NEW R, NEW V, NEW of \in SlotLabels, NEW n \in Nat, NEW s, NEW w,
           EachRead(s, w, R, V, of, n)
    PROVE  Reads(s, w, R, V, {of}) /\ Range(s) = {Slot(of, i) : i \in 1..n}
<1>1. s \in [1..n -> SlotSet]
  BY DEF SlotSet, SlotsOf, EachRead
<1>2. s \in Seq(SlotSet) /\ Len(s) = n /\ Range(s) = {s[i] : i \in 1..n}
  BY ONLY <1>1, n \in Nat, IntervalFunction
<1>3. w \in Seq(V) /\ Len(w) = n
  BY DEF EachRead
<1>4. \A i \in 1..n : s[i] = Slot(of, i) /\ <<Slot(of, i), w[i]>> \in R
  BY DEF EachRead
<1>5. Matches(s, w, R)
  BY <1>2, <1>3, <1>4 DEF Matches
<1>6. \A i, j : Slot(of, i) = Slot(of, j) => i = j
  BY DEF Slot
<1>7. Distinct(s)
  BY <1>2, <1>4, <1>6 DEF Distinct
<1>8. Range(s) = {Slot(of, i) : i \in 1..n}
  BY <1>2, <1>4
<1>9. Range(s) \subseteq SlotsOf({of})
  BY <1>8 DEF SlotsOf
<1> QED  BY <1>2, <1>3, <1>5, <1>7, <1>8, <1>9 DEF Reads

\* Slots of one index after those of the other.
PartsRead(s, w, R, V, L, n) ==
    /\ s = [i \in 1..n |-> s[i]] /\ w = [i \in 1..n |-> w[i]]
    /\ \A i \in 1..n : Reads(s[i], w[i], R, V, L) /\ \A x \in Range(s[i]) : x.i = i

LEMMA FlatReads ==
    ASSUME NEW R, NEW V, NEW L, NEW n \in Nat, NEW s, NEW w, PartsRead(s, w, R, V, L, n)
    PROVE  /\ Reads(FlattenSeq(s), FlattenSeq(w), R, V, L)
           /\ Range(FlattenSeq(s)) = UNION {Range(s[i]) : i \in 1..n}
<1>1. \A i \in 1..n : /\ s[i] \in Seq(SlotSet) /\ w[i] \in Seq(V) /\ Matches(s[i], w[i], R)
                      /\ Distinct(s[i]) /\ Range(s[i]) \subseteq SlotsOf(L)
                      /\ \A x \in Range(s[i]) : x.i = i
  BY DEF Reads, PartsRead
<1>2. s \in [1..n -> Seq(SlotSet)] /\ w \in [1..n -> Seq(V)]
  BY <1>1 DEF PartsRead
<1>3. s \in Seq(Seq(SlotSet)) /\ Len(s) = n
  BY ONLY <1>2, IntervalFunction
<1>4. w \in Seq(Seq(V)) /\ Len(w) = n
  BY ONLY <1>2, IntervalFunction
<1>5. FlattenSeq(s) \in Seq(SlotSet) /\ FlattenSeq(w) \in Seq(V)
  BY <1>3, <1>4, FlattenType
<1>6. Matches(FlattenSeq(s), FlattenSeq(w), R)
  BY <1>1, <1>3, <1>4, FlattenMatches
<1>7. ASSUME NEW i \in 1..n, NEW j \in 1..n, i # j PROVE Range(s[i]) \cap Range(s[j]) = {}
  <2>1. ASSUME NEW x \in Range(s[i]), NEW y \in Range(s[j]) PROVE x # y
    <3>1. x.i = i /\ y.i = j
      BY <1>1
    <3> QED  BY <1>7, <3>1
  <2> QED  BY <2>1
<1>8. Distinct(FlattenSeq(s))
  BY <1>1, <1>3, <1>7, FlattenDistinct
<1>9. Range(FlattenSeq(s)) = UNION {Range(s[i]) : i \in 1..n}
  BY <1>3, FlattenRange
<1>10. UNION {Range(s[i]) : i \in 1..n} \subseteq SlotsOf(L)
  BY <1>1
<1> QED  BY <1>5, <1>6, <1>8, <1>9, <1>10 DEF Reads

(* ------------------------------ commitments and slots ------------------------- *)

\* A commitment fills the slot of its name.
LEMMA NamedRead ==
    /\ \A of \in NamedSlots, i \in Nat : /\ Com(of, i) \in Items
                                         /\ <<Slot(of, i), Com(of, i)>> \in ReadAs
    /\ <<Slot("h1", 0), Com("shplonk_h", 0)>> \in ReadAs
    /\ <<Slot("h2", 0), Com("shplonk_final", 0)>> \in ReadAs
    /\ Com("shplonk_h", 0) \in Items /\ Com("shplonk_final", 0) \in Items
<1>1. \A of \in NamedSlots, i \in Nat : Com(of, i) \in Items
  BY DEF NamedSlots, Items, Coms, Labels
<1>2. Com("shplonk_h", 0) \in Items /\ Com("shplonk_final", 0) \in Items
  BY DEF Items, Coms, Labels
<1>3. /\ \A of \in NamedSlots, i \in Nat : Slot(of, i) \in SlotSet
      /\ Slot("h1", 0) \in SlotSet /\ Slot("h2", 0) \in SlotSet
  BY DEF SlotSet, SlotsOf, SlotLabels
<1>4. \A of \in NamedSlots, i \in Nat : <<Slot(of, i), Com(of, i)>> \in ReadAs
  <2> TAKE of \in NamedSlots, i \in Nat
  <2>1. Meaning(Slot(of, i)) = Com(of, i)
    BY Meanings
  <2> QED  BY <1>1, <1>3, <2>1 DEF ReadAs, Items
<1>5. /\ <<Slot("h1", 0), Com("shplonk_h", 0)>> \in ReadAs
      /\ <<Slot("h2", 0), Com("shplonk_final", 0)>> \in ReadAs
  <2>1. /\ Meaning(Slot("h1", 0)) = Com("shplonk_h", 0)
        /\ Meaning(Slot("h2", 0)) = Com("shplonk_final", 0)
    BY Meanings
  <2> QED  BY <1>2, <1>3, <2>1 DEF ReadAs
<1> QED  BY <1>1, <1>2, <1>4, <1>5

\* The commitments of a name, and the slots they fill.
Named(s, w, of, n) == s = [i \in 1..n |-> Slot(of, i)] /\ w = [i \in 1..n |-> Com(of, i)]

LEMMA NamedReads ==
    ASSUME NEW of \in NamedSlots, NEW n \in Nat, NEW s, NEW w, Named(s, w, of, n)
    PROVE  /\ Reads(s, w, ReadAs, Items, {of})
           /\ Range(s) = {Slot(of, i) : i \in 1..n}
           /\ w \in Seq(Items) /\ Range(w) = {Com(of, i) : i \in 1..n}
<1>1. \A i \in 1..n : w[i] = Com(of, i) /\ i \in Nat
  BY DEF Named
<1>2. \A i \in 1..n : w[i] \in Items /\ <<Slot(of, i), w[i]>> \in ReadAs
  BY <1>1, NamedRead
<1>3. w \in [1..n -> Items]
  BY <1>2 DEF Named
<1>4. of \in SlotLabels
  BY DEF SlotLabels
<1>5. EachRead(s, w, ReadAs, Items, of, n)
  BY <1>2, <1>3 DEF EachRead, Named
<1>6. Reads(s, w, ReadAs, Items, {of}) /\ Range(s) = {Slot(of, i) : i \in 1..n}
  BY ONLY <1>4, <1>5, n \in Nat, EachReads
<1>7. w \in Seq(Items) /\ Range(w) = {w[i] : i \in 1..n}
  BY ONLY <1>3, n \in Nat, IntervalFunction
<1>8. Range(w) = {Com(of, i) : i \in 1..n}
  BY <1>1, <1>7
<1> QED  BY <1>6, <1>7, <1>8

AdviceSlots == Each(NumAdvice, LAMBDA c : Slot("advice", c))

LEMMA AdviceReads ==
    ASSUME Supported(shape)
    PROVE  /\ Reads(AdviceSlots, AdviceComs, ReadAs, Items, {"advice"})
           /\ Range(AdviceSlots) = {Slot("advice", c) : c \in 1..NumAdvice}
<1>1. Named(AdviceSlots, AdviceComs, "advice", NumAdvice)
  BY DEF Named, AdviceSlots, AdviceComs, Each
<1>2. "advice" \in NamedSlots /\ NumAdvice \in Nat
  BY Numbers DEF NamedSlots
<1> QED  BY ONLY <1>1, <1>2, NamedReads

\* The slots of the phase of all columns are those of all columns.
LEMMA AdviceColumnsOfPhase ==
    ASSUME Supported(shape), NEW phase, \A c \in 1..NumAdvice : shape.advicePhase[c] = phase
    PROVE  ColumnsOf(phase) = AdviceSlots
<1> DEFINE columns == [c \in 1..NumAdvice |->
                          IF shape.advicePhase[c] = phase THEN <<Slot("advice", c)>> ELSE <<>>]
<1>1. NumAdvice \in Nat
  BY Numbers
<1>2. AdviceSlots = [c \in 1..NumAdvice |-> Slot("advice", c)]
  BY DEF AdviceSlots, Each
<1>3. AdviceSlots \in Seq(SlotSet) /\ Len(AdviceSlots) = NumAdvice
  BY <1>1, <1>2, AdviceReads DEF Reads
<1>4. \A c \in 1..NumAdvice : AdviceSlots[c] = Slot("advice", c) /\ AdviceSlots[c] \in SlotSet
  <2>1. \A c \in 1..NumAdvice : AdviceSlots[c] \in SlotSet
    BY <1>1, <1>3
  <2> QED  BY <1>2, <2>1
<1>5. \A c \in 1..NumAdvice : columns[c] = <<AdviceSlots[c]>>
  BY <1>4
<1>6. columns \in [1..NumAdvice -> Seq(SlotSet)]
  <2>1. \A c \in 1..NumAdvice : <<AdviceSlots[c]>> \in Seq(SlotSet)
    BY <1>4
  <2>2. columns = [c \in 1..NumAdvice |-> columns[c]]
    OBVIOUS
  <2> HIDE DEF columns
  <2> QED  BY <1>5, <2>1, <2>2
<1>7. ColumnsOf(phase) = FlattenSeq(columns)
  BY DEF ColumnsOf, EachFlat, Each
<1> HIDE DEF columns
<1>8. columns \in Seq(Seq(SlotSet)) /\ Len(columns) = NumAdvice
  BY ONLY <1>1, <1>6, IntervalFunction
<1>9. FlattenSeq(columns) = AdviceSlots
  BY <1>3, <1>5, <1>8, FlattenSingletons
<1> QED  BY <1>7, <1>9

LEMMA PermutedReads ==
    ASSUME Supported(shape)
    PROVE  /\ Reads(PermutedSlots, PermutedComs, ReadAs, Items,
                    {"permutedInput", "permutedTable"})
           /\ Range(PermutedSlots) = {Slot(of, l) : of \in {"permutedInput", "permutedTable"},
                                                    l \in 1..shape.lookups}
<1> DEFINE n == shape.lookups
           L == {"permutedInput", "permutedTable"}
           f == [l \in 1..n |-> <<Slot("permutedInput", l), Slot("permutedTable", l)>>]
           g == [l \in 1..n |-> <<Com("permutedInput", l), Com("permutedTable", l)>>]
<1>1. PermutedSlots = FlattenSeq(f) /\ PermutedComs = FlattenSeq(g)
  BY DEF PermutedSlots, PermutedComs, EachFlat, Each
<1>2. n \in Nat
  BY Numbers
<1>3. ASSUME NEW l \in 1..n
      PROVE  /\ Reads(f[l], g[l], ReadAs, Items, L)
             /\ Range(f[l]) = {Slot("permutedInput", l), Slot("permutedTable", l)}
  <2>1. f[l] = <<Slot("permutedInput", l), Slot("permutedTable", l)>>
    OBVIOUS
  <2>2. g[l] = <<Com("permutedInput", l), Com("permutedTable", l)>>
    OBVIOUS
  <2> HIDE DEF f, g
  <2>3. l \in Nat /\ "permutedInput" \in NamedSlots /\ "permutedTable" \in NamedSlots
    BY <1>2 DEF NamedSlots
  <2>4. /\ <<Slot("permutedInput", l), Com("permutedInput", l)>> \in ReadAs
        /\ <<Slot("permutedTable", l), Com("permutedTable", l)>> \in ReadAs
        /\ Com("permutedInput", l) \in Items /\ Com("permutedTable", l) \in Items
    BY <2>3, NamedRead
  <2>5. /\ Slot("permutedInput", l) \in SlotSet /\ Slot("permutedTable", l) \in SlotSet
        /\ Slot("permutedInput", l) \in SlotsOf(L) /\ Slot("permutedTable", l) \in SlotsOf(L)
    BY <2>3 DEF SlotSet, SlotsOf, SlotLabels
  <2>6. Slot("permutedInput", l) # Slot("permutedTable", l)
    BY DEF Slot
  <2>7. f[l] \in Seq(SlotSet) /\ g[l] \in Seq(Items)
    BY <2>1, <2>2, <2>4, <2>5
  <2>8. Matches(f[l], g[l], ReadAs) /\ Distinct(f[l])
    BY <2>1, <2>2, <2>4, <2>6, PairMatches, PairDistinct
  <2>9. Range(f[l]) = {Slot("permutedInput", l), Slot("permutedTable", l)}
    BY <2>1, PairRange
  <2> QED  BY <2>5, <2>7, <2>8, <2>9 DEF Reads
<1>4. f = [l \in 1..n |-> f[l]] /\ g = [l \in 1..n |-> g[l]]
  OBVIOUS
<1> HIDE DEF f, g, n, L
<1>5. \A l \in 1..n : \A x \in Range(f[l]) : x.i = l
  <2>1. \A of, l : Slot(of, l).i = l
    BY DEF Slot
  <2> QED  BY <1>3, <2>1
<1>6. /\ Reads(FlattenSeq(f), FlattenSeq(g), ReadAs, Items, L)
      /\ Range(FlattenSeq(f)) = UNION {Range(f[l]) : l \in 1..n}
  <2>1. PartsRead(f, g, ReadAs, Items, L, n)
    BY <1>3, <1>4, <1>5 DEF PartsRead
  <2> QED  BY ONLY <1>2, <2>1, FlatReads
<1>7. UNION {Range(f[l]) : l \in 1..n} = {Slot(of, l) : of \in L, l \in 1..n}
  BY <1>3 DEF L
<1> QED  BY ONLY <1>1, <1>6, <1>7 DEF n, L

LEMMA SingleReads ==
    ASSUME NEW R, NEW V, NEW of \in SlotLabels, NEW i \in Nat, NEW v \in V,
           <<Slot(of, i), v>> \in R
    PROVE  Reads(<<Slot(of, i)>>, <<v>>, R, V, {of})
<1>1. Slot(of, i) \in SlotSet /\ Slot(of, i) \in SlotsOf({of})
  BY DEF SlotSet, SlotsOf
<1>2. <<Slot(of, i)>> \in Seq(SlotSet) /\ <<v>> \in Seq(V)
  BY <1>1
<1>3. Matches(<<Slot(of, i)>>, <<v>>, R) /\ Distinct(<<Slot(of, i)>>)
  BY SingleMatches, SingleDistinct
<1>4. Range(<<Slot(of, i)>>) = {Slot(of, i)}
  BY SingleRange
<1> QED  BY <1>1, <1>2, <1>3, <1>4 DEF Reads

LEMMA ProductReads ==
    ASSUME Supported(shape)
    PROVE  /\ Reads(ProductSlots, ProductComs, ReadAs, Items,
                    {"permutationProduct", "lookupProduct", "random"})
           /\ ProductComs \in Seq(Items)
           /\ Range(ProductComs) = {Com("permutationProduct", s) : s \in 1..Sets}
                                   \cup {Com("lookupProduct", l) : l \in 1..shape.lookups}
                                   \cup {Com("random", 0)}
           /\ Range(ProductSlots) = {Slot("permutationProduct", s) : s \in 1..Sets}
                                   \cup {Slot("lookupProduct", l) : l \in 1..shape.lookups}
                                   \cup {Slot("random", 0)}
<1> DEFINE n == shape.lookups
           zs == [s \in 1..Sets |-> Slot("permutationProduct", s)]
           zc == [s \in 1..Sets |-> Com("permutationProduct", s)]
           ls == [l \in 1..n |-> Slot("lookupProduct", l)]
           lc == [l \in 1..n |-> Com("lookupProduct", l)]
           rs == <<Slot("random", 0)>>
           rc == <<Com("random", 0)>>
<1>1. ProductSlots = (zs \o ls) \o rs /\ ProductComs = (zc \o lc) \o rc
  BY DEF ProductSlots, ProductComs, Each
<1>2. /\ Sets \in Nat /\ n \in Nat
      /\ "permutationProduct" \in NamedSlots /\ "lookupProduct" \in NamedSlots
      /\ "random" \in NamedSlots /\ "random" \in SlotLabels
  BY Numbers DEF NamedSlots, SlotLabels
<1>3. /\ Reads(zs, zc, ReadAs, Items, {"permutationProduct"})
      /\ Range(zs) = {Slot("permutationProduct", s) : s \in 1..Sets}
      /\ zc \in Seq(Items) /\ Range(zc) = {Com("permutationProduct", s) : s \in 1..Sets}
  <2>1. Named(zs, zc, "permutationProduct", Sets)
    BY DEF Named
  <2> HIDE DEF zs, zc
  <2> QED  BY ONLY <1>2, <2>1, NamedReads, ZenonT(30)
<1>4. /\ Reads(ls, lc, ReadAs, Items, {"lookupProduct"})
      /\ Range(ls) = {Slot("lookupProduct", l) : l \in 1..n}
      /\ lc \in Seq(Items) /\ Range(lc) = {Com("lookupProduct", l) : l \in 1..n}
  <2>1. Named(ls, lc, "lookupProduct", n)
    BY DEF Named
  <2>2. n \in Nat /\ "lookupProduct" \in NamedSlots
    BY <1>2
  <2> HIDE DEF n, ls, lc
  <2> QED  BY ONLY <2>1, <2>2, NamedReads
<1>5. /\ Reads(rs, rc, ReadAs, Items, {"random"}) /\ Range(rs) = {Slot("random", 0)}
      /\ rc \in Seq(Items) /\ Range(rc) = {Com("random", 0)}
  <2>1. Com("random", 0) \in Items /\ <<Slot("random", 0), Com("random", 0)>> \in ReadAs
    BY <1>2, NamedRead
  <2>2. Reads(rs, rc, ReadAs, Items, {"random"})
    BY <1>2, <2>1, SingleReads
  <2>3. Range(rs) = {Slot("random", 0)} /\ Range(rc) = {Com("random", 0)}
    BY SingleRange
  <2>4. rc \in Seq(Items)
    BY <2>1
  <2> QED  BY <2>2, <2>3, <2>4
<1> HIDE DEF zs, zc, ls, lc, rs, rc
<1> HIDE DEF n
<1> DEFINE ps == zs \o ls
           pc == zc \o lc
<1>6. /\ Reads(ps, pc, ReadAs, Items, {"permutationProduct", "lookupProduct"})
      /\ Range(ps) = Range(zs) \cup Range(ls)
      /\ pc \in Seq(Items) /\ Range(pc) = Range(zc) \cup Range(lc)
  <2>1. {"permutationProduct"} \cap {"lookupProduct"} = {}
    OBVIOUS
  <2>2. Reads(ps, pc, ReadAs, Items, {"permutationProduct"} \cup {"lookupProduct"})
    BY ONLY <1>3, <1>4, <2>1, ConcatReads
  <2>3. {"permutationProduct"} \cup {"lookupProduct"} = {"permutationProduct", "lookupProduct"}
    OBVIOUS
  <2>4. Range(ps) = Range(zs) \cup Range(ls)
    BY <1>3, <1>4, ConcatRange DEF Reads
  <2>5. pc \in Seq(Items) /\ Range(pc) = Range(zc) \cup Range(lc)
    BY ONLY <1>3, <1>4, ConcatRange
  <2> QED  BY <2>2, <2>3, <2>4, <2>5
<1> HIDE DEF ps, pc
<1>7. /\ Reads(ps \o rs, pc \o rc, ReadAs, Items,
               {"permutationProduct", "lookupProduct", "random"})
      /\ Range(ps \o rs) = Range(ps) \cup Range(rs)
      /\ pc \o rc \in Seq(Items) /\ Range(pc \o rc) = Range(pc) \cup Range(rc)
  <2>1. {"permutationProduct", "lookupProduct"} \cap {"random"} = {}
    OBVIOUS
  <2>2. Reads(ps \o rs, pc \o rc, ReadAs, Items,
              {"permutationProduct", "lookupProduct"} \cup {"random"})
    BY ONLY <1>5, <1>6, <2>1, ConcatReads
  <2>3. {"permutationProduct", "lookupProduct"} \cup {"random"} =
            {"permutationProduct", "lookupProduct", "random"}
    OBVIOUS
  <2>4. Range(ps \o rs) = Range(ps) \cup Range(rs)
    BY <1>5, <1>6, ConcatRange DEF Reads
  <2>5. pc \o rc \in Seq(Items) /\ Range(pc \o rc) = Range(pc) \cup Range(rc)
    BY ONLY <1>5, <1>6, ConcatRange
  <2> QED  BY <2>2, <2>3, <2>4, <2>5
<1>8. ProductSlots = ps \o rs /\ ProductComs = pc \o rc
  BY <1>1 DEF ps, pc
<1>9. /\ Range(ProductComs) = {Com("permutationProduct", s) : s \in 1..Sets}
                               \cup {Com("lookupProduct", l) : l \in 1..n} \cup {Com("random", 0)}
      /\ Range(ProductSlots) = {Slot("permutationProduct", s) : s \in 1..Sets}
                               \cup {Slot("lookupProduct", l) : l \in 1..n}
                               \cup {Slot("random", 0)}
  BY ONLY <1>3, <1>4, <1>5, <1>6, <1>7, <1>8
<1> QED  BY ONLY <1>7, <1>8, <1>9 DEF n

LEMMA QuotientReads ==
    ASSUME Supported(shape)
    PROVE  /\ Reads(QuotientSlots, QuotientComs, ReadAs, Items, {"h"})
           /\ QuotientComs \in Seq(Items)
           /\ Range(QuotientComs) = {Com("h", p) : p \in 1..Pieces}
           /\ Range(QuotientSlots) = {Slot("h", p) : p \in 1..Pieces}
<1>1. Named(QuotientSlots, QuotientComs, "h", Pieces)
  BY DEF Named, QuotientSlots, QuotientComs, Each
<1>2. "h" \in NamedSlots /\ Pieces \in Nat
  BY Numbers DEF NamedSlots
<1> QED  BY ONLY <1>1, <1>2, NamedReads

(* ---------------------------- evaluations and slots --------------------------- *)

\* An evaluation fills the slot of its opening.
LEMMA EvaluationAsked ==
    ASSUME NEW of \in EvalLabels, NEW i \in Nat, OpeningOf(Slot(of, i)) \in OpeningSet
    PROVE  <<Slot(of, i), OpeningOf(Slot(of, i))>> \in AskedAs
<1>1. Slot(of, i) \in SlotSet
  BY DEF SlotSet, SlotsOf, SlotLabels
<1>2. Slot(of, i).of = of
  BY DEF Slot
<1> QED  BY <1>1, <1>2 DEF AskedAs

LEMMA OpeningIs ==
    \A of \in Labels, i \in Nat, r \in Rotations :
        /\ Opening(of, i, r) \in OpeningSet
        /\ Opening(of, i, r).com = Com(of, i) /\ Opening(of, i, r).at = r
  BY DEF OpeningSet, Opening

LEMMA RotationsAre == {0, NextRow, PrevRow, LastRow} \subseteq Rotations
  BY DEF Rotations, NextRow, PrevRow

\* The evaluations a list of queries asks for and the slots they are read into.
LEMMA QueryReads ==
    ASSUME NEW of \in Labels, NEW evals \in EvalLabels, NEW columns \in SUBSET Nat,
           NEW queries \in Queries(columns),
           \A q \in 1..Len(queries) :
               OpeningOf(Slot(evals, q)) = Opening(of, queries[q].col, queries[q].at)
    PROVE  /\ Reads(EvalSlots(evals, queries), Queried(of, queries), AskedAs, OpeningSet, {evals})
           /\ Queried(of, queries) \in Seq(OpeningSet)
           /\ Len(Queried(of, queries)) = Len(queries)
           /\ Range(Queried(of, queries)) = {Opening(of, queries[q].col, queries[q].at) :
                                                 q \in 1..Len(queries)}
           /\ Range(EvalSlots(evals, queries)) = {Slot(evals, q) : q \in 1..Len(queries)}
<1> DEFINE n == Len(queries)
           s == EvalSlots(evals, queries)
           w == Queried(of, queries)
<1>1. n \in Nat /\ \A q \in 1..n : queries[q].col \in Nat /\ queries[q].at \in Rotations
  <2> DEFINE Asked == [col : columns, at : Int]
  <2>1. queries \in Seq(Asked)
    BY DEF Queries
  <2> HIDE DEF Asked
  <2>2. n \in Nat /\ \A q \in 1..n : queries[q] \in Asked
    BY <2>1
  <2>3. \A q \in 1..n : queries[q].col \in columns /\ queries[q].at \in Int
    BY <2>2 DEF Asked
  <2> QED  BY <2>2, <2>3 DEF Rotations
<1>2. s = [q \in 1..n |-> Slot(evals, q)] /\ w = [q \in 1..n |-> w[q]]
  BY DEF EvalSlots, Queried, Each
<1>3. \A q \in 1..n : w[q] = Opening(of, queries[q].col, queries[q].at)
  BY DEF Queried, Each, Opening
<1>4. evals \in SlotLabels
  BY DEF SlotLabels
<1> HIDE DEF n, s, w
<1>5. \A q \in 1..n : /\ w[q] \in OpeningSet /\ w[q] = OpeningOf(Slot(evals, q))
                      /\ q \in Nat
  <2> TAKE q \in 1..n
  <2>1. q \in Nat
    BY <1>1
  <2>2. w[q] = OpeningOf(Slot(evals, q))
    BY <1>3 DEF n
  <2>3. w[q] \in OpeningSet
    BY <1>1, <1>3, OpeningIs
  <2> QED  BY <2>1, <2>2, <2>3
<1>6. \A q \in 1..n : <<Slot(evals, q), w[q]>> \in AskedAs
  BY <1>5, EvaluationAsked
<1>7. w \in [1..n -> OpeningSet]
  BY <1>2, <1>5
<1>8. EachRead(s, w, AskedAs, OpeningSet, evals, n)
  BY <1>2, <1>6, <1>7 DEF EachRead
<1>9. Reads(s, w, AskedAs, OpeningSet, {evals}) /\ Range(s) = {Slot(evals, q) : q \in 1..n}
  BY ONLY <1>1, <1>4, <1>8, EachReads
<1>10. w \in Seq(OpeningSet) /\ Len(w) = n /\ Range(w) = {w[q] : q \in 1..n}
  BY ONLY <1>1, <1>7, IntervalFunction
<1>11. Range(w) = {Opening(of, queries[q].col, queries[q].at) : q \in 1..n}
  BY <1>3, <1>10
<1> QED  BY <1>9, <1>10, <1>11 DEF n, s, w

\* A list of no queries.
LEMMA EmptyReads ==
    ASSUME NEW R, NEW V, NEW L
    PROVE  Reads(<<>>, <<>>, R, V, L)
  BY DEF Reads, Matches, Distinct, Range

InstanceSlots ==
    IF shape.queryInstance THEN EvalSlots("instance_evals", shape.instanceQueries) ELSE <<>>

LEMMA InstanceReads ==
    ASSUME Supported(shape)
    PROVE  /\ Reads(InstanceSlots, InstanceOpenings, AskedAs, OpeningSet, {"instance_evals"})
           /\ InstanceOpenings \in Seq(OpeningSet)
           /\ ~shape.queryInstance => InstanceOpenings = <<>>
           /\ shape.queryInstance => 
                  /\ InstanceOpenings = Queried("instance", shape.instanceQueries)
                  /\ Range(InstanceSlots) = {Slot("instance_evals", q) :
                                                 q \in 1..Len(shape.instanceQueries)}
                  /\ Range(InstanceOpenings) = {Opening("instance", shape.instanceQueries[q].col,
                                                        shape.instanceQueries[q].at) :
                                                    q \in 1..Len(shape.instanceQueries)}
<1> DEFINE queries == shape.instanceQueries
           columns == 1..Len(shape.instances)
<1>1. queries \in Queries(columns) /\ columns \in SUBSET Nat
  BY DEF Supported, WellFormed
<1>2. \A q \in 1..Len(queries) : OpeningOf(Slot("instance_evals", q)) =
                                     Opening("instance", queries[q].col, queries[q].at)
  BY OpeningsOfSlots
<1>3. "instance" \in Labels /\ "instance_evals" \in EvalLabels
  BY DEF Labels, EvalLabels
<1> HIDE DEF queries, columns
<1>4. CASE shape.queryInstance
  <2>1. /\ InstanceSlots = EvalSlots("instance_evals", queries)
        /\ InstanceOpenings = Queried("instance", queries)
    BY <1>4 DEF InstanceSlots, InstanceOpenings, queries
  <2> DEFINE s == EvalSlots("instance_evals", queries)
             w == Queried("instance", queries)
  <2>2. /\ Reads(s, w, AskedAs, OpeningSet, {"instance_evals"}) /\ w \in Seq(OpeningSet)
        /\ Range(s) = {Slot("instance_evals", q) : q \in 1..Len(queries)}
        /\ Range(w) = {Opening("instance", queries[q].col, queries[q].at) :
                            q \in 1..Len(queries)}
    BY ONLY <1>1, <1>2, <1>3, QueryReads, ZenonT(30)
  <2> QED  BY <1>4, <2>1, <2>2 DEF queries
<1>5. CASE ~shape.queryInstance
  <2>1. InstanceSlots = <<>> /\ InstanceOpenings = <<>>
    BY <1>5 DEF InstanceSlots, InstanceOpenings
  <2> QED  BY <1>5, <2>1, EmptyReads
<1> QED  BY <1>4, <1>5

LEMMA AdviceEvalReads ==
    ASSUME Supported(shape)
    PROVE  LET queries == shape.adviceQueries
               s == EvalSlots("advice_evals", queries)
               w == Queried("advice", queries)
           IN  /\ Reads(s, w, AskedAs, OpeningSet, {"advice_evals"})
               /\ w \in Seq(OpeningSet)
               /\ Range(s) = {Slot("advice_evals", q) : q \in 1..Len(queries)}
               /\ Range(w) = {Opening("advice", queries[q].col, queries[q].at) :
                                  q \in 1..Len(queries)}
<1> DEFINE queries == shape.adviceQueries
           columns == 1..Len(shape.advicePhase)
<1>1. queries \in Queries(columns) /\ columns \in SUBSET Nat
  BY DEF Supported, WellFormed
<1>2. \A q \in 1..Len(queries) : OpeningOf(Slot("advice_evals", q)) =
                                     Opening("advice", queries[q].col, queries[q].at)
  BY OpeningsOfSlots
<1>3. "advice" \in Labels /\ "advice_evals" \in EvalLabels
  BY DEF Labels, EvalLabels
<1> HIDE DEF queries, columns
<1>4. /\ Reads(EvalSlots("advice_evals", queries), Queried("advice", queries), AskedAs,
               OpeningSet, {"advice_evals"})
      /\ Queried("advice", queries) \in Seq(OpeningSet)
      /\ Range(EvalSlots("advice_evals", queries)) = {Slot("advice_evals", q) :
                                                          q \in 1..Len(queries)}
      /\ Range(Queried("advice", queries)) = {Opening("advice", queries[q].col, queries[q].at) :
                                                  q \in 1..Len(queries)}
  BY ONLY <1>1, <1>2, <1>3, QueryReads, ZenonT(30)
<1> QED  BY <1>4 DEF queries

LEMMA FixedEvalReads ==
    ASSUME Supported(shape)
    PROVE  LET queries == shape.fixedQueries
               s == EvalSlots("fixed_evals", queries)
               w == Queried("fixed", queries)
           IN  /\ Reads(s, w, AskedAs, OpeningSet, {"fixed_evals"})
               /\ w \in Seq(OpeningSet)
               /\ Range(s) = {Slot("fixed_evals", q) : q \in 1..Len(queries)}
               /\ Range(w) = {Opening("fixed", queries[q].col, queries[q].at) :
                                  q \in 1..Len(queries)}
<1> DEFINE queries == shape.fixedQueries
<1>1. queries \in Queries(Nat) /\ Nat \in SUBSET Nat
  BY DEF Supported, WellFormed
<1>2. \A q \in 1..Len(queries) : OpeningOf(Slot("fixed_evals", q)) =
                                     Opening("fixed", queries[q].col, queries[q].at)
  BY OpeningsOfSlots
<1>3. "fixed" \in Labels /\ "fixed_evals" \in EvalLabels
  BY DEF Labels, EvalLabels
<1> HIDE DEF queries
<1>4. /\ Reads(EvalSlots("fixed_evals", queries), Queried("fixed", queries), AskedAs,
               OpeningSet, {"fixed_evals"})
      /\ Queried("fixed", queries) \in Seq(OpeningSet)
      /\ Range(EvalSlots("fixed_evals", queries)) = {Slot("fixed_evals", q) :
                                                          q \in 1..Len(queries)}
      /\ Range(Queried("fixed", queries)) = {Opening("fixed", queries[q].col, queries[q].at) :
                                                  q \in 1..Len(queries)}
  BY ONLY <1>1, <1>2, <1>3, QueryReads, ZenonT(30)
<1> QED  BY <1>4 DEF queries

RandomOpening == <<Opening("random", 0, 0)>>
RandomSlot    == <<Slot("random_eval", 0)>>

LEMMA RandomReads ==
    /\ Reads(RandomSlot, RandomOpening, AskedAs, OpeningSet, {"random_eval"})
    /\ RandomOpening \in Seq(OpeningSet) /\ Range(RandomOpening) = {Opening("random", 0, 0)}
    /\ Range(RandomSlot) = {Slot("random_eval", 0)}
<1>1. /\ "random_eval" \in EvalLabels /\ "random_eval" \in SlotLabels /\ "random" \in Labels
      /\ 0 \in Nat /\ 0 \in Rotations
  BY RotationsAre DEF EvalLabels, SlotLabels, Labels
<1>2. Opening("random", 0, 0) \in OpeningSet
  BY <1>1, OpeningIs
<1>3. OpeningOf(Slot("random_eval", 0)) = Opening("random", 0, 0)
  BY OpeningsOfSlots
<1>4. <<Slot("random_eval", 0), Opening("random", 0, 0)>> \in AskedAs
  BY <1>1, <1>2, <1>3, EvaluationAsked
<1>5. Reads(RandomSlot, RandomOpening, AskedAs, OpeningSet, {"random_eval"})
  BY <1>1, <1>2, <1>4, SingleReads DEF RandomSlot, RandomOpening
<1>6. Range(RandomSlot) = {Slot("random_eval", 0)} /\ Range(RandomOpening) = {Opening("random", 0, 0)}
  BY SingleRange DEF RandomSlot, RandomOpening
<1>7. RandomOpening \in Seq(OpeningSet)
  BY <1>2 DEF RandomOpening
<1> QED  BY <1>5, <1>6, <1>7

SigmaOpenings == Each(shape.permutationColumns, LAMBDA c : Opening("sigma", c, 0))
SigmaSlots    == Each(shape.permutationColumns, LAMBDA c : Slot("permutation_evals", c))

LEMMA SigmaReads ==
    ASSUME Supported(shape)
    PROVE  /\ Reads(SigmaSlots, SigmaOpenings, AskedAs, OpeningSet, {"permutation_evals"})
           /\ SigmaOpenings \in Seq(OpeningSet)
           /\ Len(SigmaOpenings) = shape.permutationColumns
           /\ Range(SigmaOpenings) = {Opening("sigma", c, 0) : c \in 1..shape.permutationColumns}
           /\ Range(SigmaSlots) = {Slot("permutation_evals", c) : c \in 1..shape.permutationColumns}
<1> DEFINE n == shape.permutationColumns
<1>1. n \in Nat
  BY Numbers
<1>2. /\ SigmaSlots = [c \in 1..n |-> Slot("permutation_evals", c)]
      /\ SigmaOpenings = [c \in 1..n |-> Opening("sigma", c, 0)]
  BY DEF SigmaSlots, SigmaOpenings, Each
<1>3. /\ "permutation_evals" \in EvalLabels /\ "permutation_evals" \in SlotLabels
      /\ "sigma" \in Labels /\ 0 \in Rotations
  BY RotationsAre DEF EvalLabels, SlotLabels, Labels
<1> HIDE DEF n
<1>4. \A c \in 1..n : /\ c \in Nat /\ SigmaOpenings[c] = Opening("sigma", c, 0)
                      /\ OpeningOf(Slot("permutation_evals", c)) = SigmaOpenings[c]
  <2>1. \A c \in 1..n : c \in Nat /\ SigmaOpenings[c] = Opening("sigma", c, 0)
    BY <1>1, <1>2
  <2> QED  BY <2>1, OpeningsOfSlots
<1>5. \A c \in 1..n : SigmaOpenings[c] \in OpeningSet
  BY <1>3, <1>4, OpeningIs
<1>6. \A c \in 1..n : <<Slot("permutation_evals", c), SigmaOpenings[c]>> \in AskedAs
  BY <1>3, <1>4, <1>5, EvaluationAsked
<1>7. SigmaOpenings \in [1..n -> OpeningSet]
  BY <1>2, <1>5
<1>8. EachRead(SigmaSlots, SigmaOpenings, AskedAs, OpeningSet, "permutation_evals", n)
  BY <1>2, <1>6, <1>7 DEF EachRead
<1>9. /\ Reads(SigmaSlots, SigmaOpenings, AskedAs, OpeningSet, {"permutation_evals"})
      /\ Range(SigmaSlots) = {Slot("permutation_evals", c) : c \in 1..n}
  BY ONLY <1>1, <1>3, <1>8, EachReads
<1>10. /\ SigmaOpenings \in Seq(OpeningSet) /\ Len(SigmaOpenings) = n
       /\ Range(SigmaOpenings) = {SigmaOpenings[c] : c \in 1..n}
  BY ONLY <1>1, <1>7, IntervalFunction
<1>11. Range(SigmaOpenings) = {Opening("sigma", c, 0) : c \in 1..n}
  BY <1>4, <1>10
<1> QED  BY ONLY <1>9, <1>10, <1>11 DEF n

\* The evaluations of a set of the permutation argument: at x, at the next row and,
\* but for the last set, at the last row.
SetOpenings(s) ==
    <<Opening("permutationProduct", s, 0), Opening("permutationProduct", s, NextRow)>>
    \o (IF s < Sets THEN <<Opening("permutationProduct", s, LastRow)>> ELSE <<>>)
SetSlots(s) ==
    <<Slot("permutation_eval", s), Slot("permutation_next_eval", s)>>
    \o (IF s < Sets THEN <<Slot("permutation_last_eval", s)>> ELSE <<>>)

PermutationOpenings == EachFlat(Sets, LAMBDA s : SetOpenings(s))

SetLabels == {"permutation_eval", "permutation_next_eval", "permutation_last_eval"}

LEMMA SetReads ==
    ASSUME NEW s \in Nat
    PROVE  /\ Reads(SetSlots(s), SetOpenings(s), AskedAs, OpeningSet, SetLabels)
           /\ Range(SetOpenings(s)) =
                  {Opening("permutationProduct", s, 0), Opening("permutationProduct", s, NextRow)}
                  \cup (IF s < Sets THEN {Opening("permutationProduct", s, LastRow)} ELSE {})
           /\ Range(SetSlots(s)) =
                  {Slot("permutation_eval", s), Slot("permutation_next_eval", s)}
                  \cup (IF s < Sets THEN {Slot("permutation_last_eval", s)} ELSE {})
<1> DEFINE o1 == Opening("permutationProduct", s, 0)
           o2 == Opening("permutationProduct", s, NextRow)
           o3 == Opening("permutationProduct", s, LastRow)
           s1 == Slot("permutation_eval", s)
           s2 == Slot("permutation_next_eval", s)
           s3 == Slot("permutation_last_eval", s)
           ol == IF s < Sets THEN <<o3>> ELSE <<>>
           sl == IF s < Sets THEN <<s3>> ELSE <<>>
<1>1. SetOpenings(s) = <<o1, o2>> \o ol /\ SetSlots(s) = <<s1, s2>> \o sl
  BY DEF SetOpenings, SetSlots
<1>2. o1 \in OpeningSet /\ o2 \in OpeningSet /\ o3 \in OpeningSet
  <2>1. "permutationProduct" \in Labels
    BY DEF Labels
  <2> QED  BY <2>1, RotationsAre, OpeningIs
<1>3. /\ "permutation_eval" \in EvalLabels /\ "permutation_next_eval" \in EvalLabels
      /\ "permutation_last_eval" \in EvalLabels
      /\ "permutation_last_eval" \in SlotLabels
  BY DEF EvalLabels, SlotLabels
<1>4. OpeningOf(s1) = o1 /\ OpeningOf(s2) = o2 /\ OpeningOf(s3) = o3
  BY OpeningsOfSlots
<1>5. <<s1, o1>> \in AskedAs /\ <<s2, o2>> \in AskedAs /\ <<s3, o3>> \in AskedAs
  BY <1>2, <1>3, <1>4, EvaluationAsked
<1>6. /\ s1 \in SlotSet /\ s2 \in SlotSet /\ s3 \in SlotSet /\ s1 # s2
      /\ s1 \in SlotsOf({"permutation_eval", "permutation_next_eval"})
      /\ s2 \in SlotsOf({"permutation_eval", "permutation_next_eval"})
  <2>1. s1 # s2
    BY DEF Slot
  <2> QED  BY <1>3, <2>1 DEF SlotSet, SlotsOf, SlotLabels
<1>7. Reads(<<s3>>, <<o3>>, AskedAs, OpeningSet, {"permutation_last_eval"})
  BY <1>2, <1>3, <1>5, SingleReads
<1> HIDE DEF o1, o2, o3, s1, s2, s3
<1>8. Reads(<<s1, s2>>, <<o1, o2>>, AskedAs, OpeningSet,
            {"permutation_eval", "permutation_next_eval"})
  <2>1. <<s1, s2>> \in Seq(SlotSet) /\ <<o1, o2>> \in Seq(OpeningSet)
    BY <1>2, <1>6
  <2>2. Matches(<<s1, s2>>, <<o1, o2>>, AskedAs) /\ Distinct(<<s1, s2>>)
    BY <1>5, <1>6, PairMatches, PairDistinct
  <2>3. Range(<<s1, s2>>) = {s1, s2}
    BY PairRange
  <2> QED  BY <1>6, <2>1, <2>2, <2>3 DEF Reads
<1>9. /\ Reads(sl, ol, AskedAs, OpeningSet, {"permutation_last_eval"})
      /\ Range(sl) = IF s < Sets THEN {s3} ELSE {}
      /\ Range(ol) = IF s < Sets THEN {o3} ELSE {}
  <2>1. CASE s < Sets
    <3>1. Range(<<s3>>) = {s3} /\ Range(<<o3>>) = {o3}
      BY SingleRange
    <3> QED  BY <1>7, <2>1, <3>1
  <2>2. CASE ~(s < Sets)
    <3>1. Range(<<>>) = {}
      BY DEF Range
    <3> QED  BY <2>2, <3>1, EmptyReads
  <2> QED  BY <2>1, <2>2
<1> HIDE DEF sl, ol
<1>10. Reads(<<s1, s2>> \o sl, <<o1, o2>> \o ol, AskedAs, OpeningSet, SetLabels)
  <2>1. /\ {"permutation_eval", "permutation_next_eval"} \cap {"permutation_last_eval"} = {}
        /\ SetLabels = {"permutation_eval", "permutation_next_eval"}
                       \cup {"permutation_last_eval"}
    BY DEF SetLabels
  <2> QED  BY <1>8, <1>9, <2>1, ConcatReads
<1>11. /\ Range(<<s1, s2>> \o sl) = Range(<<s1, s2>>) \cup Range(sl)
       /\ Range(<<o1, o2>> \o ol) = Range(<<o1, o2>>) \cup Range(ol)
  <2>1. /\ <<s1, s2>> \in Seq(SlotSet) /\ <<o1, o2>> \in Seq(OpeningSet)
        /\ sl \in Seq(SlotSet) /\ ol \in Seq(OpeningSet)
    BY <1>8, <1>9 DEF Reads
  <2> QED  BY <2>1, ConcatRange, ZenonT(30)
<1>12. Range(<<s1, s2>>) = {s1, s2} /\ Range(<<o1, o2>>) = {o1, o2}
  BY PairRange
<1> QED  BY <1>1, <1>9, <1>10, <1>11, <1>12 DEF o1, o2, o3, s1, s2, s3

LEMMA PermutationEvalReads ==
    ASSUME Supported(shape)
    PROVE  /\ Reads(PermutationSlots, PermutationOpenings, AskedAs, OpeningSet, SetLabels)
           /\ Range(PermutationOpenings) = UNION {Range(SetOpenings(s)) : s \in 1..Sets}
           /\ Range(PermutationSlots) = UNION {Range(SetSlots(s)) : s \in 1..Sets}
<1> DEFINE f == [s \in 1..Sets |-> SetSlots(s)]
           g == [s \in 1..Sets |-> SetOpenings(s)]
<1>1. PermutationSlots = FlattenSeq(f)
  BY DEF PermutationSlots, EachFlat, Each, SetSlots
<1>2. PermutationOpenings = FlattenSeq(g)
  BY DEF PermutationOpenings, EachFlat, Each
<1>3. Sets \in Nat
  BY Numbers
<1>4. /\ f = [s \in 1..Sets |-> f[s]] /\ g = [s \in 1..Sets |-> g[s]]
      /\ \A s \in 1..Sets : f[s] = SetSlots(s) /\ g[s] = SetOpenings(s)
  OBVIOUS
<1> HIDE DEF f, g
<1>5. ASSUME NEW s \in 1..Sets
      PROVE  /\ Reads(f[s], g[s], AskedAs, OpeningSet, SetLabels)
             /\ \A x \in Range(f[s]) : x.i = s
             /\ g[s] \in Seq(OpeningSet)
  <2>1. s \in Nat
    BY <1>3
  <2>2. Reads(f[s], g[s], AskedAs, OpeningSet, SetLabels)
    BY <1>4, <2>1, SetReads
  <2>3. \A of, i : Slot(of, i).i = i
    BY DEF Slot
  <2>4. Range(f[s]) = {Slot("permutation_eval", s), Slot("permutation_next_eval", s)}
                      \cup (IF s < Sets THEN {Slot("permutation_last_eval", s)} ELSE {})
    BY <1>4, <2>1, SetReads
  <2>5. \A x \in Range(f[s]) : x.i = s
    BY <2>3, <2>4
  <2> QED  BY <2>2, <2>5 DEF Reads
<1>6. PartsRead(f, g, AskedAs, OpeningSet, SetLabels, Sets)
  BY <1>4, <1>5 DEF PartsRead
<1>7. /\ Reads(FlattenSeq(f), FlattenSeq(g), AskedAs, OpeningSet, SetLabels)
      /\ Range(FlattenSeq(f)) = UNION {Range(f[s]) : s \in 1..Sets}
  BY ONLY <1>3, <1>6, FlatReads
<1>8. Range(FlattenSeq(g)) = UNION {Range(g[s]) : s \in 1..Sets}
  <2>1. g \in [1..Sets -> Seq(OpeningSet)]
    BY <1>4, <1>5
  <2> QED  BY ONLY <1>3, <2>1, FlatParts
<1>9. /\ UNION {Range(f[s]) : s \in 1..Sets} = UNION {Range(SetSlots(s)) : s \in 1..Sets}
      /\ UNION {Range(g[s]) : s \in 1..Sets} = UNION {Range(SetOpenings(s)) : s \in 1..Sets}
  BY <1>4
<1> QED  BY <1>1, <1>2, <1>7, <1>8, <1>9

\* The evaluations of a lookup, in the order they are written and read.
LookupOpeningsOf(l) ==
    << Opening("lookupProduct", l, 0), Opening("lookupProduct", l, NextRow),
       Opening("permutedInput", l, 0), Opening("permutedInput", l, PrevRow),
       Opening("permutedTable", l, 0) >>
LookupSlotsOf(l) ==
    << Slot("product_eval", l), Slot("product_next_eval", l), Slot("permuted_input_eval", l),
       Slot("permuted_input_inv_eval", l), Slot("permuted_table_eval", l) >>

LookupOpenings == EachFlat(shape.lookups, LAMBDA l : LookupOpeningsOf(l))

LookupLabels == {"product_eval", "product_next_eval", "permuted_input_eval",
                 "permuted_input_inv_eval", "permuted_table_eval"}

LEMMA LookupReads ==
    ASSUME NEW l \in Nat
    PROVE  /\ Reads(LookupSlotsOf(l), LookupOpeningsOf(l), AskedAs, OpeningSet, LookupLabels)
           /\ Range(LookupOpeningsOf(l)) =
                  { Opening("lookupProduct", l, 0), Opening("lookupProduct", l, NextRow),
                    Opening("permutedInput", l, 0), Opening("permutedInput", l, PrevRow),
                    Opening("permutedTable", l, 0) }
           /\ Range(LookupSlotsOf(l)) =
                  { Slot("product_eval", l), Slot("product_next_eval", l),
                    Slot("permuted_input_eval", l), Slot("permuted_input_inv_eval", l),
                    Slot("permuted_table_eval", l) }
<1> DEFINE o1 == Opening("lookupProduct", l, 0)
           o2 == Opening("lookupProduct", l, NextRow)
           o3 == Opening("permutedInput", l, 0)
           o4 == Opening("permutedInput", l, PrevRow)
           o5 == Opening("permutedTable", l, 0)
           s1 == Slot("product_eval", l)
           s2 == Slot("product_next_eval", l)
           s3 == Slot("permuted_input_eval", l)
           s4 == Slot("permuted_input_inv_eval", l)
           s5 == Slot("permuted_table_eval", l)
<1>1. /\ LookupOpeningsOf(l) = <<o1, o2, o3, o4, o5>>
      /\ LookupSlotsOf(l) = <<s1, s2, s3, s4, s5>>
  BY DEF LookupOpeningsOf, LookupSlotsOf
<1>2. /\ o1 \in OpeningSet /\ o2 \in OpeningSet /\ o3 \in OpeningSet /\ o4 \in OpeningSet
      /\ o5 \in OpeningSet
  <2>1. "lookupProduct" \in Labels /\ "permutedInput" \in Labels /\ "permutedTable" \in Labels
    BY DEF Labels
  <2> QED  BY <2>1, RotationsAre, OpeningIs
<1>3. OpeningOf(s1) = o1 /\ OpeningOf(s2) = o2 /\ OpeningOf(s3) = o3 /\ OpeningOf(s4) = o4
      /\ OpeningOf(s5) = o5
  BY OpeningsOfSlots
<1>4. LookupLabels \subseteq EvalLabels /\ LookupLabels \subseteq SlotLabels
  BY DEF LookupLabels, EvalLabels, SlotLabels
<1>5. /\ "product_eval" \in LookupLabels /\ "product_next_eval" \in LookupLabels
      /\ "permuted_input_eval" \in LookupLabels /\ "permuted_input_inv_eval" \in LookupLabels
      /\ "permuted_table_eval" \in LookupLabels
  BY DEF LookupLabels
<1>6. /\ <<s1, o1>> \in AskedAs /\ <<s2, o2>> \in AskedAs /\ <<s3, o3>> \in AskedAs
      /\ <<s4, o4>> \in AskedAs /\ <<s5, o5>> \in AskedAs
  BY <1>2, <1>3, <1>4, <1>5, EvaluationAsked
<1>7. /\ s1 \in SlotsOf(LookupLabels) /\ s2 \in SlotsOf(LookupLabels)
      /\ s3 \in SlotsOf(LookupLabels) /\ s4 \in SlotsOf(LookupLabels)
      /\ s5 \in SlotsOf(LookupLabels)
  BY <1>5 DEF SlotsOf
<1>8. SlotsOf(LookupLabels) \subseteq SlotSet
  BY <1>4 DEF SlotSet, SlotsOf
<1>9. s1 \notin {s2, s3, s4, s5} /\ s2 \notin {s3, s4, s5} /\ s3 \notin {s4, s5} /\ s4 # s5
  <2>1. \A of, i : Slot(of, i).of = of
    BY DEF Slot
  <2>2. /\ s1.of = "product_eval" /\ s2.of = "product_next_eval"
        /\ s3.of = "permuted_input_eval" /\ s4.of = "permuted_input_inv_eval"
        /\ s5.of = "permuted_table_eval"
    BY <2>1
  <2> HIDE DEF s1, s2, s3, s4, s5
  <2> QED  BY <2>2
<1> HIDE DEF o1, o2, o3, o4, o5, s1, s2, s3, s4, s5
<1>10. <<s1, s2, s3, s4, s5>> \in Seq(SlotSet) /\ <<o1, o2, o3, o4, o5>> \in Seq(OpeningSet)
  BY <1>2, <1>7, <1>8
<1>11. Matches(<<s1, s2, s3, s4, s5>>, <<o1, o2, o3, o4, o5>>, AskedAs)
  BY <1>6, FiveMatches
<1>12. Distinct(<<s1, s2, s3, s4, s5>>)
  BY <1>9, FiveDistinct
<1>13. /\ Range(<<s1, s2, s3, s4, s5>>) = {s1, s2, s3, s4, s5}
       /\ Range(<<o1, o2, o3, o4, o5>>) = {o1, o2, o3, o4, o5}
  BY FiveRange
<1>14. {s1, s2, s3, s4, s5} \subseteq SlotsOf(LookupLabels)
  BY <1>7
<1>15. Reads(<<s1, s2, s3, s4, s5>>, <<o1, o2, o3, o4, o5>>, AskedAs, OpeningSet, LookupLabels)
  BY <1>10, <1>11, <1>12, <1>13, <1>14 DEF Reads
<1> QED  BY <1>1, <1>13, <1>15 DEF o1, o2, o3, o4, o5, s1, s2, s3, s4, s5

LEMMA LookupEvalReads ==
    ASSUME Supported(shape)
    PROVE  /\ Reads(LookupSlots, LookupOpenings, AskedAs, OpeningSet, LookupLabels)
           /\ Range(LookupOpenings) = UNION {Range(LookupOpeningsOf(l)) : l \in 1..shape.lookups}
           /\ Range(LookupSlots) = UNION {Range(LookupSlotsOf(l)) : l \in 1..shape.lookups}
<1> DEFINE n == shape.lookups
           f == [l \in 1..n |-> LookupSlotsOf(l)]
           g == [l \in 1..n |-> LookupOpeningsOf(l)]
<1>1. LookupSlots = FlattenSeq(f)
  BY DEF LookupSlots, EachFlat, Each, LookupSlotsOf
<1>2. LookupOpenings = FlattenSeq(g)
  BY DEF LookupOpenings, EachFlat, Each
<1>3. n \in Nat
  BY Numbers
<1> HIDE DEF n
<1>4. /\ f = [l \in 1..n |-> f[l]] /\ g = [l \in 1..n |-> g[l]]
      /\ \A l \in 1..n : f[l] = LookupSlotsOf(l) /\ g[l] = LookupOpeningsOf(l)
  OBVIOUS
<1> HIDE DEF f, g
<1>5. ASSUME NEW l \in 1..n
      PROVE  /\ Reads(f[l], g[l], AskedAs, OpeningSet, LookupLabels)
             /\ \A x \in Range(f[l]) : x.i = l
             /\ g[l] \in Seq(OpeningSet)
  <2>1. l \in Nat
    BY <1>3
  <2>2. Reads(f[l], g[l], AskedAs, OpeningSet, LookupLabels)
    BY <1>4, <2>1, LookupReads
  <2>3. \A of, i : Slot(of, i).i = i
    BY DEF Slot
  <2>4. Range(f[l]) = { Slot("product_eval", l), Slot("product_next_eval", l),
                        Slot("permuted_input_eval", l), Slot("permuted_input_inv_eval", l),
                        Slot("permuted_table_eval", l) }
    BY <1>4, <2>1, LookupReads
  <2>5. \A x \in Range(f[l]) : x.i = l
    BY <2>3, <2>4
  <2> QED  BY <2>2, <2>5 DEF Reads
<1>6. PartsRead(f, g, AskedAs, OpeningSet, LookupLabels, n)
  BY <1>4, <1>5 DEF PartsRead
<1>7. /\ Reads(FlattenSeq(f), FlattenSeq(g), AskedAs, OpeningSet, LookupLabels)
      /\ Range(FlattenSeq(f)) = UNION {Range(f[l]) : l \in 1..n}
  BY ONLY <1>3, <1>6, FlatReads
<1>8. Range(FlattenSeq(g)) = UNION {Range(g[l]) : l \in 1..n}
  <2>1. g \in [1..n -> Seq(OpeningSet)]
    BY <1>4, <1>5
  <2> QED  BY ONLY <1>3, <2>1, FlatParts
<1>9. /\ UNION {Range(f[l]) : l \in 1..n} = UNION {Range(LookupSlotsOf(l)) : l \in 1..n}
      /\ UNION {Range(g[l]) : l \in 1..n} = UNION {Range(LookupOpeningsOf(l)) : l \in 1..n}
  BY <1>4
<1> QED  BY ONLY <1>1, <1>2, <1>7, <1>8, <1>9 DEF n

Covers(u, s, t) == Range(u) = Range(s) \cup Range(t)

AskedParts(s, o, L, t, u, M) ==
    /\ Reads(s, o, AskedAs, OpeningSet, L) /\ Reads(t, u, AskedAs, OpeningSet, M)
    /\ L \cap M = {}

LEMMA ConcatAsked ==
    ASSUME NEW s, NEW o, NEW L, NEW t, NEW u, NEW M, AskedParts(s, o, L, t, u, M)
    PROVE  /\ Reads(s \o t, o \o u, AskedAs, OpeningSet, L \cup M)
           /\ Covers(s \o t, s, t) /\ Covers(o \o u, o, u)
<1>1. /\ Reads(s, o, AskedAs, OpeningSet, L) /\ Reads(t, u, AskedAs, OpeningSet, M)
      /\ L \cap M = {}
  BY DEF AskedParts
<1>2. Reads(s \o t, o \o u, AskedAs, OpeningSet, L \cup M)
  BY <1>1, ConcatReads
<1>3. /\ s \in Seq(SlotSet) /\ o \in Seq(OpeningSet)
      /\ t \in Seq(SlotSet) /\ u \in Seq(OpeningSet)
  BY <1>1 DEF Reads
<1>4. Range(s \o t) = Range(s) \cup Range(t) /\ Range(o \o u) = Range(o) \cup Range(u)
  BY <1>3, ConcatRange
<1> QED  BY <1>2, <1>4 DEF Covers

LEMMA EvaluationReads ==
    ASSUME Supported(shape)
    PROVE  /\ Reads(EvaluationSlots, Evaluations, AskedAs, OpeningSet, EvalLabels)
           /\ Evaluations \in Seq(OpeningSet)
           /\ Range(Evaluations) =
                  UNION {Range(InstanceOpenings), Range(Queried("advice", shape.adviceQueries)),
                         Range(Queried("fixed", shape.fixedQueries)), Range(RandomOpening),
                         Range(SigmaOpenings), Range(PermutationOpenings), Range(LookupOpenings)}
           /\ Range(EvaluationSlots) =
                  UNION {Range(InstanceSlots), Range(EvalSlots("advice_evals", shape.adviceQueries)),
                         Range(EvalSlots("fixed_evals", shape.fixedQueries)), Range(RandomSlot),
                         Range(SigmaSlots), Range(PermutationSlots), Range(LookupSlots)}
<1> DEFINE as == EvalSlots("advice_evals", shape.adviceQueries)
           ao == Queried("advice", shape.adviceQueries)
           fs == EvalSlots("fixed_evals", shape.fixedQueries)
           fo == Queried("fixed", shape.fixedQueries)
           e2s == InstanceSlots \o as
           e2o == InstanceOpenings \o ao
           e3s == e2s \o fs
           e3o == e2o \o fo
           e4s == e3s \o RandomSlot
           e4o == e3o \o RandomOpening
           e5s == e4s \o SigmaSlots
           e5o == e4o \o SigmaOpenings
           e6s == e5s \o PermutationSlots
           e6o == e5o \o PermutationOpenings
           e7s == e6s \o LookupSlots
           e7o == e6o \o LookupOpenings
           L1 == {"instance_evals"}
           M2 == {"advice_evals"}
           M3 == {"fixed_evals"}
           M4 == {"random_eval"}
           M5 == {"permutation_evals"}
           L2 == L1 \cup M2
           L3 == L2 \cup M3
           L4 == L3 \cup M4
           L5 == L4 \cup M5
           L6 == L5 \cup SetLabels
           L7 == L6 \cup LookupLabels
           Read(s, o, L) == Reads(s, o, AskedAs, OpeningSet, L)
<1>1. EvaluationSlots = e7s
  BY DEF EvaluationSlots, InstanceSlots, RandomSlot, SigmaSlots
<1>2. Evaluations = e7o
  BY DEF Evaluations, RandomOpening, SigmaOpenings, PermutationOpenings, SetOpenings,
         LookupOpenings, LookupOpeningsOf
<1>3. /\ L1 \cap M2 = {} /\ L2 \cap M3 = {} /\ L3 \cap M4 = {} /\ L4 \cap M5 = {}
      /\ L5 \cap SetLabels = {} /\ L6 \cap LookupLabels = {}
  BY DEF SetLabels, LookupLabels
<1>4. L7 \subseteq EvalLabels
  BY DEF SetLabels, LookupLabels, EvalLabels
<1>5. /\ Read(InstanceSlots, InstanceOpenings, L1)
      /\ Read(as, ao, M2) /\ Read(fs, fo, M3) /\ Read(RandomSlot, RandomOpening, M4)
      /\ Read(SigmaSlots, SigmaOpenings, M5)
      /\ Read(PermutationSlots, PermutationOpenings, SetLabels)
      /\ Read(LookupSlots, LookupOpenings, LookupLabels)
  BY InstanceReads, AdviceEvalReads, FixedEvalReads, RandomReads, SigmaReads,
     PermutationEvalReads, LookupEvalReads
<1> HIDE DEF as, ao, fs, fo, L1, M2, M3, M4, M5
<1>6. /\ Read(e2s, e2o, L2)
      /\ Covers(e2s, InstanceSlots, as) /\ Covers(e2o, InstanceOpenings, ao)
  <2>1. AskedParts(InstanceSlots, InstanceOpenings, L1, as, ao, M2)
    BY <1>3, <1>5 DEF AskedParts
  <2> QED  BY ONLY <2>1, ConcatAsked
<1> HIDE DEF e2s, e2o, L2
<1>7. /\ Read(e3s, e3o, L3)
      /\ Covers(e3s, e2s, fs) /\ Covers(e3o, e2o, fo)
  <2>1. AskedParts(e2s, e2o, L2, fs, fo, M3)
    BY <1>3, <1>5, <1>6 DEF AskedParts
  <2> QED  BY ONLY <2>1, ConcatAsked
<1> HIDE DEF e3s, e3o, L3
<1>8. /\ Read(e4s, e4o, L4)
      /\ Covers(e4s, e3s, RandomSlot) /\ Covers(e4o, e3o, RandomOpening)
  <2>1. AskedParts(e3s, e3o, L3, RandomSlot, RandomOpening, M4)
    BY <1>3, <1>5, <1>7 DEF AskedParts
  <2> QED  BY ONLY <2>1, ConcatAsked
<1> HIDE DEF e4s, e4o, L4
<1>9. /\ Read(e5s, e5o, L5)
      /\ Covers(e5s, e4s, SigmaSlots) /\ Covers(e5o, e4o, SigmaOpenings)
  <2>1. AskedParts(e4s, e4o, L4, SigmaSlots, SigmaOpenings, M5)
    BY <1>3, <1>5, <1>8 DEF AskedParts
  <2> QED  BY ONLY <2>1, ConcatAsked
<1> HIDE DEF e5s, e5o, L5
<1>10. /\ Read(e6s, e6o, L6)
      /\ Covers(e6s, e5s, PermutationSlots) /\ Covers(e6o, e5o, PermutationOpenings)
  <2>1. AskedParts(e5s, e5o, L5, PermutationSlots, PermutationOpenings, SetLabels)
    BY <1>3, <1>5, <1>9 DEF AskedParts
  <2> QED  BY ONLY <2>1, ConcatAsked
<1> HIDE DEF e6s, e6o, L6
<1>11. /\ Read(e7s, e7o, L7)
      /\ Covers(e7s, e6s, LookupSlots) /\ Covers(e7o, e6o, LookupOpenings)
  <2>1. AskedParts(e6s, e6o, L6, LookupSlots, LookupOpenings, LookupLabels)
    BY <1>3, <1>5, <1>10 DEF AskedParts
  <2> QED  BY ONLY <2>1, ConcatAsked
<1> HIDE DEF e7s, e7o, L7
<1>12. Reads(e7s, e7o, AskedAs, OpeningSet, EvalLabels) /\ e7o \in Seq(OpeningSet)
  <2>1. SlotsOf(L7) \subseteq SlotsOf(EvalLabels)
    BY <1>4 DEF SlotsOf
  <2> QED  BY <1>11, <2>1 DEF Reads
<1>13. Range(e7o) = UNION {Range(InstanceOpenings), Range(ao), Range(fo), Range(RandomOpening),
                           Range(SigmaOpenings), Range(PermutationOpenings), Range(LookupOpenings)}
  BY ONLY <1>6, <1>7, <1>8, <1>9, <1>10, <1>11 DEF Covers
<1>14. Range(e7s) = UNION {Range(InstanceSlots), Range(as), Range(fs), Range(RandomSlot),
                           Range(SigmaSlots), Range(PermutationSlots), Range(LookupSlots)}
  BY ONLY <1>6, <1>7, <1>8, <1>9, <1>10, <1>11 DEF Covers
<1> QED  BY <1>1, <1>2, <1>12, <1>13, <1>14 DEF as, ao, fs, fo

LEMMA EvaluationsWritten ==
    ASSUME Supported(shape)
    PROVE  /\ Reads(EvaluationSlots, Evals, ReadAs, Items, EvalLabels)
           /\ Evals \in Seq(Items)
           /\ Range(Evals) = {Eval(o.com, o.at) : o \in Range(Evaluations)}
<1> DEFINE n == Len(Evaluations)
<1>1. /\ Reads(EvaluationSlots, Evaluations, AskedAs, OpeningSet, EvalLabels)
      /\ Evaluations \in Seq(OpeningSet)
  BY EvaluationReads
<1>2. /\ EvaluationSlots \in Seq(SlotSet) /\ Matches(EvaluationSlots, Evaluations, AskedAs)
      /\ Distinct(EvaluationSlots) /\ Range(EvaluationSlots) \subseteq SlotsOf(EvalLabels)
  BY <1>1 DEF Reads
<1>3. n \in Nat /\ DOMAIN Evaluations = 1..n /\ \A k \in 1..n : Evaluations[k] \in OpeningSet
  BY <1>1
<1>4. Evals = [k \in 1..n |-> Eval(Evaluations[k].com, Evaluations[k].at)]
  BY <1>3 DEF Evals
<1>5. \A o \in OpeningSet : Eval(o.com, o.at) \in Items
  <2>1. ASSUME NEW of \in Labels, NEW i \in Nat, NEW r \in Rotations
        PROVE  Eval(Opening(of, i, r).com, Opening(of, i, r).at) \in Items
    <3>1. Opening(of, i, r).com = Com(of, i) /\ Opening(of, i, r).at = r
      BY OpeningIs
    <3>2. Eval(Com(of, i), r) \in EvalsOf(Com(of, i)) /\ Com(of, i) \in Coms
      BY DEF EvalsOf, Coms
    <3> QED  BY <3>1, <3>2 DEF Items
  <2> QED  BY <2>1 DEF OpeningSet
<1>6. /\ \A k \in 1..n : Evals[k] = Eval(Evaluations[k].com, Evaluations[k].at)
      /\ Evals \in [1..n -> Items]
  BY <1>3, <1>4, <1>5
<1> HIDE DEF n
<1>7. Evals \in Seq(Items) /\ Len(Evals) = n /\ Range(Evals) = {Evals[k] : k \in 1..n}
  BY ONLY <1>3, <1>6, IntervalFunction
<1>8. Range(Evals) = {Eval(o.com, o.at) : o \in Range(Evaluations)}
  <2>1. Range(Evaluations) = {Evaluations[k] : k \in 1..n}
    BY <1>3 DEF Range
  <2> QED  BY <1>6, <1>7, <2>1
<1>9. Matches(EvaluationSlots, Evals, ReadAs)
  <2>1. Len(EvaluationSlots) = n /\ \A k \in 1..n : <<EvaluationSlots[k], Evaluations[k]>> \in AskedAs
    BY <1>2 DEF Matches, n
  <2>2. ASSUME NEW k \in 1..n PROVE <<EvaluationSlots[k], Evals[k]>> \in ReadAs
    <3> DEFINE s == EvaluationSlots[k]
               o == Evaluations[k]
    <3>1. s \in SlotSet /\ o = OpeningOf(s) /\ s.of \in EvalLabels
      BY <2>1 DEF AskedAs
    <3>2. PICK of \in SlotLabels, i \in Nat : s = Slot(of, i)
      BY <3>1 DEF SlotSet, SlotsOf
    <3>3. of \in EvalLabels
      BY <3>1, <3>2 DEF Slot
    <3>4. Meaning(s) = Eval(o.com, o.at)
      BY <3>1, <3>2, <3>3, Meanings
    <3>5. Evals[k] = Meaning(s) /\ Evals[k] \in Items
      BY <1>6, <3>4
    <3> QED  BY <3>1, <3>5 DEF ReadAs
  <2> QED  BY <1>7, <2>1, <2>2 DEF Matches
<1> QED  BY <1>2, <1>7, <1>8, <1>9 DEF Reads

(* --------------------------- the two transcripts ------------------------------ *)

Theta == ChallengesOf({0}) \o <<Challenge("theta", 0)>>
BetaGamma == <<Challenge("beta", 0), Challenge("gamma", 0)>>

\* What follows the evaluations: two commitments among three challenges.
Multiopening == << Challenge("shplonk_y", 0), Challenge("v", 0), Com("shplonk_h", 0),
                   Challenge("u", 0), Com("shplonk_final", 0) >>
FinalComs  == <<Com("shplonk_h", 0), Com("shplonk_final", 0)>>
FinalSlots == <<Slot("h1", 0), Slot("h2", 0)>>

\* The transcript after the advice, the permuted columns, the products, the quotient,
\* the evaluations and the multiopen; what is written until then, and its slots.
T1 == (Statement \o AdviceComs) \o Theta
T2 == (T1 \o PermutedComs) \o BetaGamma
T3 == (T2 \o ProductComs) \o <<Challenge("y", 0)>>
T4 == (T3 \o QuotientComs) \o <<Challenge("x", 0)>>
T5 == T4 \o Evals
T6 == T5 \o Multiopening

W2 == AdviceComs \o PermutedComs
W3 == W2 \o ProductComs
W4 == W3 \o QuotientComs
W5 == W4 \o Evals
W6 == W5 \o FinalComs

S2 == AdviceSlots \o PermutedSlots
S3 == S2 \o ProductSlots
S4 == S3 \o QuotientSlots
S5 == S4 \o EvaluationSlots
S6 == S5 \o FinalSlots

LEMMA ChallengesPart ==
    ASSUME Supported(shape)
    PROVE  /\ ChallengesOf({0}) \in Seq(Items)
           /\ Range(ChallengesOf({0})) \subseteq {Challenge("phase", i) : i \in Nat}
<1> DEFINE n == Len(shape.challengePhase)
           V == {Challenge("phase", i) : i \in Nat}
           f == [i \in 1..n |-> IF shape.challengePhase[i] \in {0} THEN <<Challenge("phase", i)>>
                                ELSE <<>>]
<1>1. n \in Nat
  BY DEF Supported, WellFormed
<1>2. ChallengesOf({0}) = FlattenSeq(f)
  BY DEF ChallengesOf, EachFlat, Each
<1>3. V \subseteq Items
  BY DEF Items, Challenges, Draws
<1>4. f \in [1..n -> Seq(V)]
  <2>1. \A i \in 1..n : Challenge("phase", i) \in V
    BY <1>1
  <2> HIDE DEF V
  <2>2. \A i \in 1..n : <<Challenge("phase", i)>> \in Seq(V) /\ <<>> \in Seq(V)
    BY <2>1
  <2> QED  BY <2>2
<1> HIDE DEF f, V, n
<1>5. FlattenSeq(f) \in Seq(V)
  BY ONLY <1>1, <1>4, FlatParts
<1>6. Range(FlattenSeq(f)) \subseteq V
  BY <1>5 DEF Range
<1>7. FlattenSeq(f) \in Seq(Items)
  BY <1>3, <1>5
<1> QED  BY <1>2, <1>6, <1>7 DEF V

LEMMA DrawnPart ==
    /\ \A of \in Draws : Challenge(of, 0) \in Items
    /\ BetaGamma \in Seq(Items) /\ Multiopening \in Seq(Items)
    /\ \A of \in Draws : <<Challenge(of, 0)>> \in Seq(Items)
<1>1. \A of \in Draws : Challenge(of, 0) \in Items
  BY DEF Items, Challenges
<1>2. Com("shplonk_h", 0) \in Items /\ Com("shplonk_final", 0) \in Items
  BY NamedRead
<1>3. /\ Challenge("beta", 0) \in Items /\ Challenge("gamma", 0) \in Items
      /\ Challenge("shplonk_y", 0) \in Items /\ Challenge("v", 0) \in Items
      /\ Challenge("u", 0) \in Items
  BY <1>1 DEF Draws
<1> QED  BY <1>1, <1>2, <1>3 DEF BetaGamma, Multiopening

LEMMA Transcripts ==
    ASSUME Supported(shape)
    PROVE  /\ Theta \in Seq(Items)
           /\ T1 \in Seq(Items) /\ T2 \in Seq(Items) /\ T3 \in Seq(Items)
           /\ T4 \in Seq(Items) /\ T5 \in Seq(Items) /\ T6 \in Seq(Items)
<1>1. Theta \in Seq(Items)
  <2>1. <<Challenge("theta", 0)>> \in Seq(Items)
    BY DrawnPart DEF Draws
  <2> QED  BY <2>1, ChallengesPart DEF Theta
<1>2. T1 \in Seq(Items)
  BY <1>1, StatementPart, AdvicePart DEF T1
<1>3. T2 \in Seq(Items)
  BY <1>2, PermutedPart, DrawnPart DEF T2
<1>4. T3 \in Seq(Items)
  <2>1. <<Challenge("y", 0)>> \in Seq(Items)
    BY DrawnPart DEF Draws
  <2> QED  BY <1>3, <2>1, ProductReads DEF T3
<1>5. T4 \in Seq(Items)
  <2>1. <<Challenge("x", 0)>> \in Seq(Items)
    BY DrawnPart DEF Draws
  <2> QED  BY <1>4, <2>1, QuotientReads DEF T4
<1>6. T5 \in Seq(Items)
  BY <1>5, EvaluationsWritten DEF T5
<1>7. T6 \in Seq(Items)
  BY <1>6, DrawnPart DEF T6
<1> QED  BY <1>1, <1>2, <1>3, <1>4, <1>5, <1>6, <1>7

\* The first s of the transcript is a beginning of it.
LEMMA Beginnings ==
    ASSUME Supported(shape)
    PROVE  /\ Begins(Statement, T6) /\ Begins(T1, T6) /\ Begins(T2, T6) /\ Begins(T3, T6)
           /\ Begins(T4, T6) /\ Begins(T5, T6) /\ Begins(<<>>, T6)
<1>1. /\ Statement \in Seq(Items) /\ AdviceComs \in Seq(Items) /\ Theta \in Seq(Items)
      /\ T1 \in Seq(Items) /\ T2 \in Seq(Items) /\ T3 \in Seq(Items)
      /\ T4 \in Seq(Items) /\ T5 \in Seq(Items) /\ T6 \in Seq(Items)
      /\ PermutedComs \in Seq(Items) /\ ProductComs \in Seq(Items) /\ QuotientComs \in Seq(Items)
      /\ Evals \in Seq(Items) /\ Multiopening \in Seq(Items) /\ BetaGamma \in Seq(Items)
      /\ <<Challenge("y", 0)>> \in Seq(Items) /\ <<Challenge("x", 0)>> \in Seq(Items)
  BY Transcripts, StatementPart, AdvicePart, PermutedPart, ProductReads, QuotientReads,
     EvaluationsWritten, DrawnPart DEF Draws
<1>2. ASSUME NEW s \in Seq(Items), NEW t \in Seq(Items), NEW u \in Seq(Items)
      PROVE  Begins(s, (s \o t) \o u) /\ Begins(s \o t, (s \o t) \o u)
  <2>1. s \o t \in Seq(Items) /\ (s \o t) \o u \in Seq(Items)
    OBVIOUS
  <2>2. Begins(s, s \o t) /\ Begins(s \o t, (s \o t) \o u)
    BY <2>1, ConcatBegins
  <2> QED  BY <2>1, <2>2, BeginsTransitive
<1>3. Begins(T5, T6) /\ Begins(T4, T5)
  BY <1>1, ConcatBegins DEF T5, T6
<1>4. /\ Begins(Statement, T1) /\ Begins(T1, T2) /\ Begins(T2, T3) /\ Begins(T3, T4)
  BY <1>1, <1>2 DEF T1, T2, T3, T4
<1>5. Begins(T4, T6)
  BY <1>1, <1>3, BeginsTransitive
<1>6. Begins(T3, T6)
  BY <1>1, <1>4, <1>5, BeginsTransitive
<1>7. Begins(T2, T6)
  BY <1>1, <1>4, <1>6, BeginsTransitive
<1>8. Begins(T1, T6)
  BY <1>1, <1>4, <1>7, BeginsTransitive
<1>9. Begins(Statement, T6)
  BY <1>1, <1>4, <1>8, BeginsTransitive
<1>10. Begins(<<>>, T6)
  BY <1>1 DEF Begins
<1> QED  BY <1>3, <1>5, <1>6, <1>7, <1>8, <1>9, <1>10

LEMMA FinalReads ==
    /\ Reads(FinalSlots, FinalComs, ReadAs, Items, {"h1", "h2"})
    /\ Range(FinalSlots) = {Slot("h1", 0), Slot("h2", 0)}
<1> DEFINE s1 == Slot("h1", 0)
           s2 == Slot("h2", 0)
           c1 == Com("shplonk_h", 0)
           c2 == Com("shplonk_final", 0)
<1>1. FinalSlots = <<s1, s2>> /\ FinalComs = <<c1, c2>>
  BY DEF FinalSlots, FinalComs
<1>2. <<s1, c1>> \in ReadAs /\ <<s2, c2>> \in ReadAs /\ c1 \in Items /\ c2 \in Items
  BY NamedRead
<1>3. /\ s1 # s2 /\ s1 \in SlotSet /\ s2 \in SlotSet
      /\ s1 \in SlotsOf({"h1", "h2"}) /\ s2 \in SlotsOf({"h1", "h2"})
  <2>1. s1 # s2
    BY DEF Slot
  <2> QED  BY <2>1 DEF SlotSet, SlotsOf, SlotLabels
<1> HIDE DEF s1, s2, c1, c2
<1>4. <<s1, s2>> \in Seq(SlotSet) /\ <<c1, c2>> \in Seq(Items)
  BY <1>2, <1>3
<1>5. Matches(<<s1, s2>>, <<c1, c2>>, ReadAs) /\ Distinct(<<s1, s2>>)
  BY <1>2, <1>3, PairMatches, PairDistinct
<1>6. Range(<<s1, s2>>) = {s1, s2}
  BY PairRange
<1> QED  BY <1>1, <1>3, <1>4, <1>5, <1>6 DEF Reads, s1, s2

ReadParts(s, w, L, t, u, M) ==
    /\ Reads(s, w, ReadAs, Items, L) /\ Reads(t, u, ReadAs, Items, M)
    /\ L \cap M = {}

LEMMA ConcatRead ==
    ASSUME NEW s, NEW w, NEW L, NEW t, NEW u, NEW M, ReadParts(s, w, L, t, u, M)
    PROVE  /\ Reads(s \o t, w \o u, ReadAs, Items, L \cup M)
           /\ Covers(s \o t, s, t) /\ Begins(w, w \o u)
<1>1. /\ Reads(s, w, ReadAs, Items, L) /\ Reads(t, u, ReadAs, Items, M)
      /\ L \cap M = {}
  BY DEF ReadParts
<1>2. Reads(s \o t, w \o u, ReadAs, Items, L \cup M)
  BY <1>1, ConcatReads
<1>3. /\ s \in Seq(SlotSet) /\ t \in Seq(SlotSet) /\ w \in Seq(Items) /\ u \in Seq(Items)
  BY <1>1 DEF Reads
<1>4. Range(s \o t) = Range(s) \cup Range(t)
  BY <1>3, ConcatRange
<1>5. Begins(w, w \o u)
  BY <1>3, ConcatBegins
<1> QED  BY <1>2, <1>4, <1>5 DEF Covers

ReadsSome(s, w) ==
    /\ s \in Seq(SlotSet) /\ w \in Seq(Items) /\ Matches(s, w, ReadAs) /\ Distinct(s)

\* Every slot is filled once, with the value that it means; what is written until a
\* phase is a beginning of the proof.
LEMMA SlotsRead ==
    ASSUME Supported(shape)
    PROVE  /\ ReadsSome(AdviceSlots, AdviceComs) /\ ReadsSome(S2, W2) /\ ReadsSome(S3, W3)
           /\ ReadsSome(S4, W4) /\ ReadsSome(S5, W5) /\ ReadsSome(S6, W6)
           /\ Begins(AdviceComs, W6) /\ Begins(W2, W6) /\ Begins(W3, W6) /\ Begins(W4, W6)
           /\ Begins(W5, W6) /\ Begins(<<>>, W6)
           /\ Range(S5) = UNION {Range(AdviceSlots), Range(PermutedSlots), Range(ProductSlots),
                                 Range(QuotientSlots), Range(EvaluationSlots)}
           /\ Range(S6) = Range(S5) \cup Range(FinalSlots)
<1> DEFINE L1 == {"advice"}
           M2 == {"permutedInput", "permutedTable"}
           M3 == {"permutationProduct", "lookupProduct", "random"}
           M4 == {"h"}
           M6 == {"h1", "h2"}
           L2 == L1 \cup M2
           L3 == L2 \cup M3
           L4 == L3 \cup M4
           L5 == L4 \cup EvalLabels
           L6 == L5 \cup M6
           Read(s, w, L) == Reads(s, w, ReadAs, Items, L)
<1>1. /\ L1 \cap M2 = {} /\ L2 \cap M3 = {} /\ L3 \cap M4 = {} /\ L4 \cap EvalLabels = {}
      /\ L5 \cap M6 = {}
  BY DEF EvalLabels
<1>2. /\ Read(AdviceSlots, AdviceComs, L1) /\ Read(PermutedSlots, PermutedComs, M2)
      /\ Read(ProductSlots, ProductComs, M3) /\ Read(QuotientSlots, QuotientComs, M4)
      /\ Read(EvaluationSlots, Evals, EvalLabels) /\ Read(FinalSlots, FinalComs, M6)
  BY AdviceReads, PermutedReads, ProductReads, QuotientReads, EvaluationsWritten, FinalReads
<1> HIDE DEF L1, M2, M3, M4, M6
<1>3. Read(S2, W2, L2) /\ Covers(S2, AdviceSlots, PermutedSlots) /\ Begins(AdviceComs, W2)
  <2>1. ReadParts(AdviceSlots, AdviceComs, L1, PermutedSlots, PermutedComs, M2)
    BY <1>1, <1>2 DEF ReadParts
  <2> QED  BY ONLY <2>1, ConcatRead DEF S2, W2
<1> HIDE DEF L2
<1>4. Read(S3, W3, L3) /\ Covers(S3, S2, ProductSlots) /\ Begins(W2, W3)
  <2>1. ReadParts(S2, W2, L2, ProductSlots, ProductComs, M3)
    BY <1>1, <1>2, <1>3 DEF ReadParts
  <2> QED  BY ONLY <2>1, ConcatRead DEF S3, W3
<1> HIDE DEF L3
<1>5. Read(S4, W4, L4) /\ Covers(S4, S3, QuotientSlots) /\ Begins(W3, W4)
  <2>1. ReadParts(S3, W3, L3, QuotientSlots, QuotientComs, M4)
    BY <1>1, <1>2, <1>4 DEF ReadParts
  <2> QED  BY ONLY <2>1, ConcatRead DEF S4, W4
<1> HIDE DEF L4
<1>6. Read(S5, W5, L5) /\ Covers(S5, S4, EvaluationSlots) /\ Begins(W4, W5)
  <2>1. ReadParts(S4, W4, L4, EvaluationSlots, Evals, EvalLabels)
    BY <1>1, <1>2, <1>5 DEF ReadParts
  <2> QED  BY ONLY <2>1, ConcatRead DEF S5, W5
<1> HIDE DEF L5
<1>7. Read(S6, W6, L6) /\ Covers(S6, S5, FinalSlots) /\ Begins(W5, W6)
  <2>1. ReadParts(S5, W5, L5, FinalSlots, FinalComs, M6)
    BY <1>1, <1>2, <1>6 DEF ReadParts
  <2> QED  BY ONLY <2>1, ConcatRead DEF S6, W6
<1> HIDE DEF L6
<1>8. /\ ReadsSome(AdviceSlots, AdviceComs) /\ ReadsSome(S2, W2) /\ ReadsSome(S3, W3)
      /\ ReadsSome(S4, W4) /\ ReadsSome(S5, W5) /\ ReadsSome(S6, W6)
  BY <1>2, <1>3, <1>4, <1>5, <1>6, <1>7 DEF Reads, ReadsSome
<1>9. /\ AdviceComs \in Seq(Items) /\ W2 \in Seq(Items) /\ W3 \in Seq(Items)
      /\ W4 \in Seq(Items) /\ W5 \in Seq(Items) /\ W6 \in Seq(Items)
  BY <1>8 DEF ReadsSome
<1>10. Begins(W4, W6)
  BY <1>6, <1>7, <1>9, BeginsTransitive
<1>11. Begins(W3, W6)
  BY <1>5, <1>9, <1>10, BeginsTransitive
<1>12. Begins(W2, W6)
  BY <1>4, <1>9, <1>11, BeginsTransitive
<1>13. Begins(AdviceComs, W6)
  BY <1>3, <1>9, <1>12, BeginsTransitive
<1>14. Begins(<<>>, W6)
  BY <1>9 DEF Begins
<1>15. /\ Range(S5) = UNION {Range(AdviceSlots), Range(PermutedSlots), Range(ProductSlots),
                             Range(QuotientSlots), Range(EvaluationSlots)}
       /\ Range(S6) = Range(S5) \cup Range(FinalSlots)
  BY ONLY <1>3, <1>4, <1>5, <1>6, <1>7 DEF Covers
<1> QED  BY <1>7, <1>8, <1>10, <1>11, <1>12, <1>13, <1>14, <1>15

(* ------------------------------ claims and openings --------------------------- *)

\* What the verifier can look up once the evaluations are read, and the openings that
\* the prover has the evaluations of.
Known == Range(S5) \cup SlotsOf({"instance", "fixed", "sigma"})
         \cup {Slot("h", 0), Slot("expected_h_eval", 0)}
Made  == Range(Evaluations) \cup {Opening("h", 0, 0)}

ClaimSet == [com : Known, at : Rotations, eval : Known]
AgreeAs  == {p \in ClaimSet \X Made : /\ Meaning(p[1].com) = p[2].com
                                      /\ p[1].at = p[2].at
                                      /\ Meaning(p[1].eval) = Eval(p[2].com, p[2].at)}

LEMMA KnownSlots ==
    ASSUME Supported(shape)
    PROVE  /\ \A of \in {"instance", "fixed", "sigma"}, i \in Nat : Slot(of, i) \in Known
           /\ Slot("h", 0) \in Known /\ Slot("expected_h_eval", 0) \in Known
           /\ \A c \in 1..NumAdvice : Slot("advice", c) \in Known
           /\ \A l \in 1..shape.lookups : /\ Slot("permutedInput", l) \in Known
                                          /\ Slot("permutedTable", l) \in Known
                                          /\ Slot("lookupProduct", l) \in Known
           /\ \A s \in 1..Sets : Slot("permutationProduct", s) \in Known
           /\ Slot("random", 0) \in Known
           /\ Range(EvaluationSlots) \subseteq Known
<1>1. \A of \in {"instance", "fixed", "sigma"}, i \in Nat : Slot(of, i) \in Known
  BY DEF Known, SlotsOf
<1>2. Slot("h", 0) \in Known /\ Slot("expected_h_eval", 0) \in Known
  BY DEF Known
<1>3. Range(S5) \subseteq Known
  BY DEF Known
<1>4. /\ Range(AdviceSlots) \subseteq Known /\ Range(PermutedSlots) \subseteq Known
      /\ Range(ProductSlots) \subseteq Known /\ Range(EvaluationSlots) \subseteq Known
  BY <1>3, SlotsRead
<1>5. \A c \in 1..NumAdvice : Slot("advice", c) \in Known
  BY <1>4, AdviceReads
<1>6. \A l \in 1..shape.lookups : /\ Slot("permutedInput", l) \in Known
                                  /\ Slot("permutedTable", l) \in Known
  BY <1>4, PermutedReads
<1>7. /\ \A l \in 1..shape.lookups : Slot("lookupProduct", l) \in Known
      /\ \A s \in 1..Sets : Slot("permutationProduct", s) \in Known
      /\ Slot("random", 0) \in Known
  BY <1>4, ProductReads
<1> QED  BY <1>1, <1>2, <1>4, <1>5, <1>6, <1>7

\* A claim agrees with the opening its evaluation slot is for.
LEMMA ClaimAgrees ==
    ASSUME NEW of \in NamedSlots, NEW i, NEW r \in Rotations, NEW eval \in EvalLabels, NEW j,
           Slot(of, i) \in Known, Slot(eval, j) \in Known,
           OpeningOf(Slot(eval, j)) = Opening(of, i, r), Opening(of, i, r) \in Made
    PROVE  <<Claim(of, i, r, eval, j), Opening(of, i, r)>> \in AgreeAs
<1> DEFINE c == Claim(of, i, r, eval, j)
           o == Opening(of, i, r)
<1>1. c \in ClaimSet /\ c.com = Slot(of, i) /\ c.at = r /\ c.eval = Slot(eval, j)
  BY DEF Claim, ClaimSet
<1>2. o.com = Com(of, i) /\ o.at = r
  BY DEF Opening
<1>3. Meaning(c.com) = o.com
  BY <1>1, <1>2, Meanings
<1>4. Meaning(c.eval) = Eval(o.com, o.at)
  BY <1>1, Meanings
<1> HIDE DEF c, o
<1>5. o \in Made
  BY DEF o
<1>6. <<c, o>> \in AgreeAs
  BY <1>1, <1>2, <1>3, <1>4, <1>5 DEF AgreeAs
<1> QED  BY <1>6 DEF c, o

Agree(c, o) == c \in Seq(ClaimSet) /\ o \in Seq(Made) /\ Matches(c, o, AgreeAs)

EachAgreeing(c, o, n) ==
    /\ c = [i \in 1..n |-> c[i]] /\ o = [i \in 1..n |-> o[i]]
    /\ \A i \in 1..n : <<c[i], o[i]>> \in AgreeAs

LEMMA EachAgrees ==
    ASSUME NEW n \in Nat, NEW c, NEW o, EachAgreeing(c, o, n)
    PROVE  Agree(c, o)
<1>1. \A i \in 1..n : c[i] \in ClaimSet /\ o[i] \in Made /\ <<c[i], o[i]>> \in AgreeAs
  BY DEF EachAgreeing, AgreeAs
<1>2. c \in [1..n -> ClaimSet] /\ o \in [1..n -> Made]
  BY <1>1 DEF EachAgreeing
<1>3. c \in Seq(ClaimSet) /\ Len(c) = n
  BY ONLY <1>2, n \in Nat, IntervalFunction
<1>4. o \in Seq(Made) /\ Len(o) = n
  BY ONLY <1>2, n \in Nat, IntervalFunction
<1> QED  BY <1>1, <1>3, <1>4 DEF Agree, Matches

PartsAgree(c, o, n) ==
    /\ c = [i \in 1..n |-> c[i]] /\ o = [i \in 1..n |-> o[i]]
    /\ \A i \in 1..n : Agree(c[i], o[i])

LEMMA FlatAgrees ==
    ASSUME NEW n \in Nat, NEW c, NEW o, PartsAgree(c, o, n)
    PROVE  Agree(FlattenSeq(c), FlattenSeq(o))
<1>1. \A i \in 1..n : /\ c[i] \in Seq(ClaimSet) /\ o[i] \in Seq(Made)
                      /\ Matches(c[i], o[i], AgreeAs)
  BY DEF PartsAgree, Agree
<1>2. c \in [1..n -> Seq(ClaimSet)] /\ o \in [1..n -> Seq(Made)]
  BY <1>1 DEF PartsAgree
<1>3. c \in Seq(Seq(ClaimSet)) /\ Len(c) = n
  BY ONLY <1>2, n \in Nat, IntervalFunction
<1>4. o \in Seq(Seq(Made)) /\ Len(o) = n
  BY ONLY <1>2, n \in Nat, IntervalFunction
<1>5. FlattenSeq(c) \in Seq(ClaimSet) /\ FlattenSeq(o) \in Seq(Made)
  BY <1>3, <1>4, FlattenType
<1>6. Matches(FlattenSeq(c), FlattenSeq(o), AgreeAs)
  BY <1>1, <1>3, <1>4, FlattenMatches
<1> QED  BY <1>5, <1>6 DEF Agree

LEMMA ConcatAgrees ==
    ASSUME NEW c, NEW o, NEW d, NEW u, Agree(c, o), Agree(d, u)
    PROVE  Agree(c \o d, o \o u)
<1>1. /\ c \in Seq(ClaimSet) /\ o \in Seq(Made) /\ Matches(c, o, AgreeAs)
      /\ d \in Seq(ClaimSet) /\ u \in Seq(Made) /\ Matches(d, u, AgreeAs)
  BY DEF Agree
<1>2. c \o d \in Seq(ClaimSet) /\ o \o u \in Seq(Made)
  BY <1>1
<1>3. Matches(c \o d, o \o u, AgreeAs)
  BY <1>1, ConcatMatches
<1> QED  BY <1>2, <1>3 DEF Agree

\* Claims and openings of a list of queries.
LEMMA QueriesAgree ==
    ASSUME NEW of \in NamedSlots, NEW evals \in EvalLabels, NEW columns \in SUBSET Nat,
           NEW queries \in Queries(columns), \A i \in columns : Slot(of, i) \in Known,
           {Slot(evals, q) : q \in 1..Len(queries)} \subseteq Known,
           \A q \in 1..Len(queries) :
               OpeningOf(Slot(evals, q)) = Opening(of, queries[q].col, queries[q].at),
           {Opening(of, queries[q].col, queries[q].at) : q \in 1..Len(queries)} \subseteq Made
    PROVE  Agree(QueryClaims(of, queries, evals), Queried(of, queries))
<1> DEFINE n == Len(queries)
           c == QueryClaims(of, queries, evals)
           o == Queried(of, queries)
           Asked == [col : columns, at : Int]
<1>1. queries \in Seq(Asked)
  BY DEF Queries
<1> HIDE DEF Asked
<1>2. n \in Nat /\ \A q \in 1..n : queries[q] \in Asked
  BY <1>1
<1>3. \A q \in 1..n : queries[q].col \in columns /\ queries[q].at \in Rotations
  BY <1>2 DEF Asked, Rotations
<1>4. /\ c = [q \in 1..n |-> Claim(of, queries[q].col, queries[q].at, evals, q)]
      /\ o = [q \in 1..n |-> Opening(of, queries[q].col, queries[q].at)]
  BY DEF QueryClaims, Queried, Each, Opening
<1> HIDE DEF n, c, o
<1>5. /\ \A q \in 1..n : /\ c[q] = Claim(of, queries[q].col, queries[q].at, evals, q)
                         /\ o[q] = Opening(of, queries[q].col, queries[q].at)
      /\ c = [q \in 1..n |-> c[q]] /\ o = [q \in 1..n |-> o[q]]
  BY <1>4
<1>6. ASSUME NEW q \in 1..n PROVE <<c[q], o[q]>> \in AgreeAs
  <2>1. Slot(of, queries[q].col) \in Known
    BY <1>3
  <2>2. /\ Slot(evals, q) \in Known /\ Opening(of, queries[q].col, queries[q].at) \in Made
        /\ OpeningOf(Slot(evals, q)) = Opening(of, queries[q].col, queries[q].at)
    BY DEF n
  <2>3. queries[q].at \in Rotations
    BY <1>3
  <2> QED  BY ONLY <1>5, <2>1, <2>2, <2>3, of \in NamedSlots, evals \in EvalLabels, ClaimAgrees
<1>7. EachAgreeing(c, o, n)
  BY <1>5, <1>6 DEF EachAgreeing
<1> QED  BY <1>2, <1>7, EachAgrees DEF c, o

LEMMA EvaluationsMade ==
    ASSUME Supported(shape)
    PROVE  /\ Range(Evaluations) \subseteq Made /\ Opening("h", 0, 0) \in Made
           /\ Opening("random", 0, 0) \in Made /\ Slot("random_eval", 0) \in Known
           /\ \A s \in 1..Sets :
                  /\ Opening("permutationProduct", s, 0) \in Made
                  /\ Opening("permutationProduct", s, NextRow) \in Made
                  /\ Slot("permutation_eval", s) \in Known
                  /\ Slot("permutation_next_eval", s) \in Known
                  /\ s < Sets => /\ Opening("permutationProduct", s, LastRow) \in Made
                                 /\ Slot("permutation_last_eval", s) \in Known
           /\ \A l \in 1..shape.lookups :
                  /\ Range(LookupOpeningsOf(l)) \subseteq Made
                  /\ Range(LookupSlotsOf(l)) \subseteq Known
           /\ \A c \in 1..shape.permutationColumns :
                  /\ Opening("sigma", c, 0) \in Made /\ Slot("permutation_evals", c) \in Known
<1>1. Range(Evaluations) \subseteq Made /\ Opening("h", 0, 0) \in Made
  BY DEF Made
<1>2. /\ Range(RandomOpening) \subseteq Made /\ Range(SigmaOpenings) \subseteq Made
      /\ Range(PermutationOpenings) \subseteq Made /\ Range(LookupOpenings) \subseteq Made
  <2>1. /\ Range(RandomOpening) \subseteq Range(Evaluations)
        /\ Range(SigmaOpenings) \subseteq Range(Evaluations)
        /\ Range(PermutationOpenings) \subseteq Range(Evaluations)
        /\ Range(LookupOpenings) \subseteq Range(Evaluations)
    BY EvaluationReads
  <2> QED  BY <1>1, <2>1
<1>3. /\ Range(RandomSlot) \subseteq Known /\ Range(SigmaSlots) \subseteq Known
      /\ Range(PermutationSlots) \subseteq Known /\ Range(LookupSlots) \subseteq Known
  <2>1. /\ Range(RandomSlot) \subseteq Range(EvaluationSlots)
        /\ Range(SigmaSlots) \subseteq Range(EvaluationSlots)
        /\ Range(PermutationSlots) \subseteq Range(EvaluationSlots)
        /\ Range(LookupSlots) \subseteq Range(EvaluationSlots)
    BY EvaluationReads
  <2> QED  BY <2>1, KnownSlots
<1>4. Opening("random", 0, 0) \in Made /\ Slot("random_eval", 0) \in Known
  BY <1>2, <1>3, RandomReads
<1>5. ASSUME NEW s \in 1..Sets
      PROVE  /\ Opening("permutationProduct", s, 0) \in Made
             /\ Opening("permutationProduct", s, NextRow) \in Made
             /\ Slot("permutation_eval", s) \in Known
             /\ Slot("permutation_next_eval", s) \in Known
             /\ s < Sets => /\ Opening("permutationProduct", s, LastRow) \in Made
                            /\ Slot("permutation_last_eval", s) \in Known
  <2>1. Range(SetOpenings(s)) \subseteq Made /\ Range(SetSlots(s)) \subseteq Known
    BY <1>2, <1>3, PermutationEvalReads
  <2>2. s \in Nat
    BY Numbers
  <2>3. /\ Range(SetOpenings(s)) =
            {Opening("permutationProduct", s, 0), Opening("permutationProduct", s, NextRow)}
            \cup (IF s < Sets THEN {Opening("permutationProduct", s, LastRow)} ELSE {})
        /\ Range(SetSlots(s)) =
            {Slot("permutation_eval", s), Slot("permutation_next_eval", s)}
            \cup (IF s < Sets THEN {Slot("permutation_last_eval", s)} ELSE {})
    BY <2>2, SetReads
  <2> QED  BY <2>1, <2>3
<1>6. \A l \in 1..shape.lookups : /\ Range(LookupOpeningsOf(l)) \subseteq Made
                                  /\ Range(LookupSlotsOf(l)) \subseteq Known
  BY <1>2, <1>3, LookupEvalReads
<1>7. \A c \in 1..shape.permutationColumns :
          Opening("sigma", c, 0) \in Made /\ Slot("permutation_evals", c) \in Known
  BY <1>2, <1>3, SigmaReads
<1> QED  BY <1>1, <1>4, <1>5, <1>6, <1>7

LEMMA InstancesAgree ==
    ASSUME Supported(shape)
    PROVE  Agree(IF shape.queryInstance
                 THEN QueryClaims("instance", shape.instanceQueries, "instance_evals") ELSE <<>>,
                 InstanceOpenings)
<1> DEFINE queries == shape.instanceQueries
           columns == 1..Len(shape.instances)
<1>1. CASE shape.queryInstance
  <2>1. queries \in Queries(columns) /\ columns \in SUBSET Nat
    BY DEF Supported, WellFormed
  <2>2. \A q \in 1..Len(queries) : OpeningOf(Slot("instance_evals", q)) =
                                       Opening("instance", queries[q].col, queries[q].at)
    BY OpeningsOfSlots
  <2>3. "instance" \in NamedSlots /\ "instance_evals" \in EvalLabels
    BY DEF NamedSlots, EvalLabels
  <2>4. \A i \in columns : Slot("instance", i) \in Known
    BY <2>1, KnownSlots
  <2>5. /\ {Slot("instance_evals", q) : q \in 1..Len(queries)} \subseteq Known
        /\ {Opening("instance", queries[q].col, queries[q].at) : q \in 1..Len(queries)} \subseteq Made
    <3>1. /\ Range(InstanceSlots) \subseteq Range(EvaluationSlots)
          /\ Range(InstanceOpenings) \subseteq Range(Evaluations)
      BY EvaluationReads
    <3>2. Range(InstanceSlots) \subseteq Known /\ Range(InstanceOpenings) \subseteq Made
      BY <3>1, KnownSlots DEF Made
    <3> QED  BY <1>1, <3>2, InstanceReads
  <2>6. InstanceOpenings = Queried("instance", queries)
    BY <1>1, InstanceReads
  <2> HIDE DEF queries, columns
  <2>7. Agree(QueryClaims("instance", queries, "instance_evals"), Queried("instance", queries))
    BY ONLY <2>1, <2>2, <2>3, <2>4, <2>5, QueriesAgree
  <2> QED  BY <1>1, <2>6, <2>7 DEF queries
<1>2. CASE ~shape.queryInstance
  <2>1. InstanceOpenings = <<>>
    BY <1>2, InstanceReads
  <2>2. Agree(<<>>, <<>>)
    BY DEF Agree, Matches
  <2> QED  BY <1>2, <2>1, <2>2
<1> QED  BY <1>1, <1>2

LEMMA AdviceAgrees ==
    ASSUME Supported(shape)
    PROVE  Agree(QueryClaims("advice", shape.adviceQueries, "advice_evals"),
                 Queried("advice", shape.adviceQueries))
<1> DEFINE queries == shape.adviceQueries
           columns == 1..Len(shape.advicePhase)
<1>1. queries \in Queries(columns) /\ columns \in SUBSET Nat
  BY DEF Supported, WellFormed
<1>2. \A q \in 1..Len(queries) : OpeningOf(Slot("advice_evals", q)) =
                                     Opening("advice", queries[q].col, queries[q].at)
  BY OpeningsOfSlots
<1>3. "advice" \in NamedSlots /\ "advice_evals" \in EvalLabels
  BY DEF NamedSlots, EvalLabels
<1>4. \A i \in columns : Slot("advice", i) \in Known
  BY KnownSlots DEF NumAdvice
<1>5. /\ {Slot("advice_evals", q) : q \in 1..Len(queries)} \subseteq Known
      /\ {Opening("advice", queries[q].col, queries[q].at) : q \in 1..Len(queries)} \subseteq Made
  <2> DEFINE s == EvalSlots("advice_evals", queries)
             o == Queried("advice", queries)
  <2>1. Range(s) \subseteq Range(EvaluationSlots) /\ Range(o) \subseteq Range(Evaluations)
    BY EvaluationReads
  <2>2. Range(s) \subseteq Known /\ Range(o) \subseteq Made
    BY <2>1, KnownSlots DEF Made
  <2>3. /\ Range(s) = {Slot("advice_evals", q) : q \in 1..Len(queries)}
        /\ Range(o) = {Opening("advice", queries[q].col, queries[q].at) : q \in 1..Len(queries)}
    BY AdviceEvalReads
  <2> QED  BY ONLY <2>2, <2>3
<1> HIDE DEF queries, columns
<1>6. Agree(QueryClaims("advice", queries, "advice_evals"), Queried("advice", queries))
  BY ONLY <1>1, <1>2, <1>3, <1>4, <1>5, QueriesAgree
<1> QED  BY <1>6 DEF queries

LEMMA FixedAgrees ==
    ASSUME Supported(shape)
    PROVE  Agree(QueryClaims("fixed", shape.fixedQueries, "fixed_evals"),
                 Queried("fixed", shape.fixedQueries))
<1> DEFINE queries == shape.fixedQueries
<1>1. queries \in Queries(Nat) /\ Nat \in SUBSET Nat
  BY DEF Supported, WellFormed
<1>2. \A q \in 1..Len(queries) : OpeningOf(Slot("fixed_evals", q)) =
                                     Opening("fixed", queries[q].col, queries[q].at)
  BY OpeningsOfSlots
<1>3. "fixed" \in NamedSlots /\ "fixed_evals" \in EvalLabels
  BY DEF NamedSlots, EvalLabels
<1>4. \A i \in Nat : Slot("fixed", i) \in Known
  BY KnownSlots
<1>5. /\ {Slot("fixed_evals", q) : q \in 1..Len(queries)} \subseteq Known
      /\ {Opening("fixed", queries[q].col, queries[q].at) : q \in 1..Len(queries)} \subseteq Made
  <2> DEFINE s == EvalSlots("fixed_evals", queries)
             o == Queried("fixed", queries)
  <2>1. Range(s) \subseteq Range(EvaluationSlots) /\ Range(o) \subseteq Range(Evaluations)
    BY EvaluationReads
  <2>2. Range(s) \subseteq Known /\ Range(o) \subseteq Made
    BY <2>1, KnownSlots DEF Made
  <2>3. /\ Range(s) = {Slot("fixed_evals", q) : q \in 1..Len(queries)}
        /\ Range(o) = {Opening("fixed", queries[q].col, queries[q].at) : q \in 1..Len(queries)}
    BY FixedEvalReads
  <2> QED  BY ONLY <2>2, <2>3
<1> HIDE DEF queries
<1>6. Agree(QueryClaims("fixed", queries, "fixed_evals"), Queried("fixed", queries))
  BY ONLY <1>1, <1>2, <1>3, <1>4, <1>5, QueriesAgree
<1> QED  BY <1>6 DEF queries

LEMMA PairAgrees ==
    ASSUME NEW a, NEW b, NEW c, NEW d, <<a, c>> \in AgreeAs, <<b, d>> \in AgreeAs
    PROVE  Agree(<<a, b>>, <<c, d>>)
<1>1. a \in ClaimSet /\ b \in ClaimSet /\ c \in Made /\ d \in Made
  BY DEF AgreeAs
<1>2. <<a, b>> \in Seq(ClaimSet) /\ <<c, d>> \in Seq(Made)
  BY <1>1
<1>3. Matches(<<a, b>>, <<c, d>>, AgreeAs)
  BY PairMatches
<1> QED  BY <1>2, <1>3 DEF Agree

LEMMA FiveAgree ==
    ASSUME NEW a, NEW b, NEW c, NEW d, NEW e, NEW v, NEW w, NEW x, NEW y, NEW z,
           <<a, v>> \in AgreeAs, <<b, w>> \in AgreeAs, <<c, x>> \in AgreeAs,
           <<d, y>> \in AgreeAs, <<e, z>> \in AgreeAs
    PROVE  Agree(<<a, b, c, d, e>>, <<v, w, x, y, z>>)
<1>1. /\ a \in ClaimSet /\ b \in ClaimSet /\ c \in ClaimSet /\ d \in ClaimSet /\ e \in ClaimSet
      /\ v \in Made /\ w \in Made /\ x \in Made /\ y \in Made /\ z \in Made
  BY DEF AgreeAs
<1>2. <<a, b, c, d, e>> \in Seq(ClaimSet) /\ <<v, w, x, y, z>> \in Seq(Made)
  BY <1>1
<1>3. Matches(<<a, b, c, d, e>>, <<v, w, x, y, z>>, AgreeAs)
  BY FiveMatches
<1> QED  BY <1>2, <1>3 DEF Agree

SetClaims == EachFlat(Sets, LAMBDA s :
    << Claim("permutationProduct", s, 0, "permutation_eval", s),
       Claim("permutationProduct", s, NextRow, "permutation_next_eval", s) >>)
SetsOpened == EachFlat(Sets, LAMBDA s :
    <<Opening("permutationProduct", s, 0), Opening("permutationProduct", s, NextRow)>>)

LEMMA SetsAgree ==
    ASSUME Supported(shape)
    PROVE  Agree(SetClaims, SetsOpened)
<1> DEFINE f == [s \in 1..Sets |->
                    << Claim("permutationProduct", s, 0, "permutation_eval", s),
                       Claim("permutationProduct", s, NextRow, "permutation_next_eval", s) >>]
           g == [s \in 1..Sets |-> << Opening("permutationProduct", s, 0),
                                      Opening("permutationProduct", s, NextRow) >>]
<1>1. SetClaims = FlattenSeq(f) /\ SetsOpened = FlattenSeq(g)
  BY DEF SetClaims, SetsOpened, EachFlat, Each
<1>2. /\ f = [s \in 1..Sets |-> f[s]] /\ g = [s \in 1..Sets |-> g[s]]
      /\ \A s \in 1..Sets :
            /\ f[s] = << Claim("permutationProduct", s, 0, "permutation_eval", s),
                         Claim("permutationProduct", s, NextRow, "permutation_next_eval", s) >>
            /\ g[s] = << Opening("permutationProduct", s, 0),
                         Opening("permutationProduct", s, NextRow) >>
  OBVIOUS
<1> HIDE DEF f, g
<1>3. ASSUME NEW s \in 1..Sets PROVE Agree(f[s], g[s])
  <2>1. /\ Opening("permutationProduct", s, 0) \in Made
        /\ Opening("permutationProduct", s, NextRow) \in Made
        /\ Slot("permutation_eval", s) \in Known /\ Slot("permutation_next_eval", s) \in Known
    BY EvaluationsMade
  <2>2. Slot("permutationProduct", s) \in Known
    BY KnownSlots
  <2>3. /\ OpeningOf(Slot("permutation_eval", s)) = Opening("permutationProduct", s, 0)
        /\ OpeningOf(Slot("permutation_next_eval", s)) =
               Opening("permutationProduct", s, NextRow)
    BY OpeningsOfSlots
  <2>4. /\ "permutationProduct" \in NamedSlots /\ "permutation_eval" \in EvalLabels
        /\ "permutation_next_eval" \in EvalLabels /\ 0 \in Rotations /\ NextRow \in Rotations
    BY RotationsAre DEF NamedSlots, EvalLabels
  <2>5. << Claim("permutationProduct", s, 0, "permutation_eval", s),
           Opening("permutationProduct", s, 0) >> \in AgreeAs
    BY <2>1, <2>2, <2>3, <2>4, ClaimAgrees
  <2>6. << Claim("permutationProduct", s, NextRow, "permutation_next_eval", s),
           Opening("permutationProduct", s, NextRow) >> \in AgreeAs
    BY <2>1, <2>2, <2>3, <2>4, ClaimAgrees
  <2> QED  BY <1>2, <2>5, <2>6, PairAgrees
<1>4. PartsAgree(f, g, Sets)
  BY <1>2, <1>3 DEF PartsAgree
<1>5. Sets \in Nat
  BY Numbers
<1>6. Agree(FlattenSeq(f), FlattenSeq(g))
  BY ONLY <1>4, <1>5, FlatAgrees
<1> QED  BY <1>1, <1>6

LastClaims == Each(IF Sets = 0 THEN 0 ELSE Sets - 1, LAMBDA k :
    Claim("permutationProduct", Sets - k, LastRow, "permutation_last_eval", Sets - k))

LEMMA LastsAgree ==
    ASSUME Supported(shape)
    PROVE  Agree(LastClaims, LastOpenings)
<1> DEFINE n == IF Sets = 0 THEN 0 ELSE Sets - 1
<1>1. Sets \in Nat /\ n \in Nat /\ \A k \in 1..n : Sets - k \in 1..Sets /\ Sets - k < Sets
  BY Numbers
<1>2. /\ LastClaims = [k \in 1..n |-> Claim("permutationProduct", Sets - k, LastRow,
                                            "permutation_last_eval", Sets - k)]
      /\ LastOpenings = [k \in 1..n |-> Opening("permutationProduct", Sets - k, LastRow)]
  BY DEF LastClaims, LastOpenings, Each
<1> HIDE DEF n
<1>3. /\ LastClaims = [k \in 1..n |-> LastClaims[k]]
      /\ LastOpenings = [k \in 1..n |-> LastOpenings[k]]
      /\ \A k \in 1..n :
            /\ LastClaims[k] = Claim("permutationProduct", Sets - k, LastRow,
                                     "permutation_last_eval", Sets - k)
            /\ LastOpenings[k] = Opening("permutationProduct", Sets - k, LastRow)
  BY <1>2
<1>4. ASSUME NEW s \in 1..Sets, s < Sets
      PROVE  << Claim("permutationProduct", s, LastRow, "permutation_last_eval", s),
                Opening("permutationProduct", s, LastRow) >> \in AgreeAs
  <2>1. /\ Opening("permutationProduct", s, LastRow) \in Made
        /\ Slot("permutation_last_eval", s) \in Known
    BY <1>4, EvaluationsMade
  <2>2. Slot("permutationProduct", s) \in Known
    BY KnownSlots
  <2>3. OpeningOf(Slot("permutation_last_eval", s)) = Opening("permutationProduct", s, LastRow)
    BY OpeningsOfSlots
  <2>4. /\ "permutationProduct" \in NamedSlots /\ "permutation_last_eval" \in EvalLabels
        /\ LastRow \in Rotations
    BY RotationsAre DEF NamedSlots, EvalLabels
  <2> QED  BY <2>1, <2>2, <2>3, <2>4, ClaimAgrees
<1>5. \A k \in 1..n : <<LastClaims[k], LastOpenings[k]>> \in AgreeAs
  <2> TAKE k \in 1..n
  <2> DEFINE s == Sets - k
  <2>1. s \in 1..Sets /\ s < Sets
    BY <1>1
  <2>2. /\ LastClaims[k] = Claim("permutationProduct", s, LastRow, "permutation_last_eval", s)
        /\ LastOpenings[k] = Opening("permutationProduct", s, LastRow)
    BY <1>3
  <2> HIDE DEF s
  <2> QED  BY <1>4, <2>1, <2>2
<1>6. EachAgreeing(LastClaims, LastOpenings, n)
  BY ONLY <1>3, <1>5 DEF EachAgreeing
<1> QED  BY ONLY <1>1, <1>6, EachAgrees

LookupClaims == EachFlat(shape.lookups, LAMBDA l :
    << Claim("lookupProduct", l, 0, "product_eval", l),
       Claim("permutedInput", l, 0, "permuted_input_eval", l),
       Claim("permutedTable", l, 0, "permuted_table_eval", l),
       Claim("permutedInput", l, PrevRow, "permuted_input_inv_eval", l),
       Claim("lookupProduct", l, NextRow, "product_next_eval", l) >>)
LookupsOpened == EachFlat(shape.lookups, LAMBDA l :
    << Opening("lookupProduct", l, 0), Opening("permutedInput", l, 0),
       Opening("permutedTable", l, 0), Opening("permutedInput", l, PrevRow),
       Opening("lookupProduct", l, NextRow) >>)

LEMMA LookupsAgree ==
    ASSUME Supported(shape)
    PROVE  Agree(LookupClaims, LookupsOpened)
<1> DEFINE n == shape.lookups
           c1(l) == Claim("lookupProduct", l, 0, "product_eval", l)
           c2(l) == Claim("permutedInput", l, 0, "permuted_input_eval", l)
           c3(l) == Claim("permutedTable", l, 0, "permuted_table_eval", l)
           c4(l) == Claim("permutedInput", l, PrevRow, "permuted_input_inv_eval", l)
           c5(l) == Claim("lookupProduct", l, NextRow, "product_next_eval", l)
           o1(l) == Opening("lookupProduct", l, 0)
           o2(l) == Opening("permutedInput", l, 0)
           o3(l) == Opening("permutedTable", l, 0)
           o4(l) == Opening("permutedInput", l, PrevRow)
           o5(l) == Opening("lookupProduct", l, NextRow)
           f == [l \in 1..n |-> <<c1(l), c2(l), c3(l), c4(l), c5(l)>>]
           g == [l \in 1..n |-> <<o1(l), o2(l), o3(l), o4(l), o5(l)>>]
<1>1. LookupClaims = FlattenSeq(f) /\ LookupsOpened = FlattenSeq(g)
  BY DEF LookupClaims, LookupsOpened, EachFlat, Each
<1>2. n \in Nat
  BY Numbers
<1>3. /\ "lookupProduct" \in NamedSlots /\ "permutedInput" \in NamedSlots
      /\ "permutedTable" \in NamedSlots
      /\ "product_eval" \in EvalLabels /\ "product_next_eval" \in EvalLabels
      /\ "permuted_input_eval" \in EvalLabels /\ "permuted_input_inv_eval" \in EvalLabels
      /\ "permuted_table_eval" \in EvalLabels
      /\ 0 \in Rotations /\ NextRow \in Rotations /\ PrevRow \in Rotations
  BY RotationsAre DEF NamedSlots, EvalLabels
<1>4. ASSUME NEW l \in 1..n
      PROVE  /\ <<c1(l), o1(l)>> \in AgreeAs /\ <<c2(l), o2(l)>> \in AgreeAs
             /\ <<c3(l), o3(l)>> \in AgreeAs /\ <<c4(l), o4(l)>> \in AgreeAs
             /\ <<c5(l), o5(l)>> \in AgreeAs
  <2>1. /\ Slot("lookupProduct", l) \in Known /\ Slot("permutedInput", l) \in Known
        /\ Slot("permutedTable", l) \in Known
    BY KnownSlots
  <2>2. /\ o1(l) \in Made /\ o2(l) \in Made /\ o3(l) \in Made /\ o4(l) \in Made /\ o5(l) \in Made
        /\ Slot("product_eval", l) \in Known /\ Slot("product_next_eval", l) \in Known
        /\ Slot("permuted_input_eval", l) \in Known
        /\ Slot("permuted_input_inv_eval", l) \in Known
        /\ Slot("permuted_table_eval", l) \in Known
    <3>1. Range(LookupOpeningsOf(l)) \subseteq Made /\ Range(LookupSlotsOf(l)) \subseteq Known
      BY EvaluationsMade
    <3>2. l \in Nat
      BY <1>2
    <3> QED  BY <3>1, <3>2, LookupReads
  <2>3. /\ OpeningOf(Slot("product_eval", l)) = o1(l)
        /\ OpeningOf(Slot("permuted_input_eval", l)) = o2(l)
        /\ OpeningOf(Slot("permuted_table_eval", l)) = o3(l)
        /\ OpeningOf(Slot("permuted_input_inv_eval", l)) = o4(l)
        /\ OpeningOf(Slot("product_next_eval", l)) = o5(l)
    BY OpeningsOfSlots
  <2>4. <<c1(l), o1(l)>> \in AgreeAs
    BY <1>3, <2>1, <2>2, <2>3, ClaimAgrees
  <2>5. <<c2(l), o2(l)>> \in AgreeAs
    BY <1>3, <2>1, <2>2, <2>3, ClaimAgrees
  <2>6. <<c3(l), o3(l)>> \in AgreeAs
    BY <1>3, <2>1, <2>2, <2>3, ClaimAgrees
  <2>7. <<c4(l), o4(l)>> \in AgreeAs
    BY <1>3, <2>1, <2>2, <2>3, ClaimAgrees
  <2>8. <<c5(l), o5(l)>> \in AgreeAs
    BY <1>3, <2>1, <2>2, <2>3, ClaimAgrees
  <2> QED  BY <2>4, <2>5, <2>6, <2>7, <2>8
<1> HIDE DEF n, c1, c2, c3, c4, c5, o1, o2, o3, o4, o5
<1>5. /\ f = [l \in 1..n |-> f[l]] /\ g = [l \in 1..n |-> g[l]]
      /\ \A l \in 1..n : /\ f[l] = <<c1(l), c2(l), c3(l), c4(l), c5(l)>>
                         /\ g[l] = <<o1(l), o2(l), o3(l), o4(l), o5(l)>>
  OBVIOUS
<1> HIDE DEF f, g
<1>6. ASSUME NEW l \in 1..n PROVE Agree(f[l], g[l])
  BY <1>4, <1>5, FiveAgree, ZenonT(30)
<1>7. PartsAgree(f, g, n)
  BY <1>5, <1>6 DEF PartsAgree
<1>8. Agree(FlattenSeq(f), FlattenSeq(g))
  BY ONLY <1>2, <1>7, FlatAgrees
<1> QED  BY <1>1, <1>8

SigmaClaims == Each(shape.permutationColumns, LAMBDA c :
    Claim("sigma", c, 0, "permutation_evals", c))

LEMMA SigmasAgree ==
    ASSUME Supported(shape)
    PROVE  Agree(SigmaClaims, SigmaOpenings)
<1> DEFINE n == shape.permutationColumns
<1>1. n \in Nat
  BY Numbers
<1>2. /\ SigmaClaims = [c \in 1..n |-> Claim("sigma", c, 0, "permutation_evals", c)]
      /\ SigmaOpenings = [c \in 1..n |-> Opening("sigma", c, 0)]
  BY DEF SigmaClaims, SigmaOpenings, Each
<1>3. ASSUME NEW c \in 1..n
      PROVE  <<Claim("sigma", c, 0, "permutation_evals", c), Opening("sigma", c, 0)>> \in AgreeAs
  <2>1. Opening("sigma", c, 0) \in Made /\ Slot("permutation_evals", c) \in Known
    BY EvaluationsMade
  <2>2. Slot("sigma", c) \in Known
    BY <1>1, KnownSlots
  <2>3. OpeningOf(Slot("permutation_evals", c)) = Opening("sigma", c, 0)
    BY OpeningsOfSlots
  <2>4. "sigma" \in NamedSlots /\ "permutation_evals" \in EvalLabels /\ 0 \in Rotations
    BY RotationsAre DEF NamedSlots, EvalLabels
  <2> QED  BY <2>1, <2>2, <2>3, <2>4, ClaimAgrees
<1> HIDE DEF n
<1>4. /\ SigmaClaims = [c \in 1..n |-> SigmaClaims[c]]
      /\ SigmaOpenings = [c \in 1..n |-> SigmaOpenings[c]]
      /\ \A c \in 1..n : /\ SigmaClaims[c] = Claim("sigma", c, 0, "permutation_evals", c)
                         /\ SigmaOpenings[c] = Opening("sigma", c, 0)
  BY <1>2
<1>5. EachAgreeing(SigmaClaims, SigmaOpenings, n)
  BY <1>3, <1>4 DEF EachAgreeing
<1> QED  BY ONLY <1>1, <1>5, EachAgrees

\* Opening by opening, the verifier claims what the prover opens.
LEMMA ClaimsAgree ==
    ASSUME Supported(shape)
    PROVE  Agree(Claims, Openings)
<1> DEFINE ic == IF shape.queryInstance
                 THEN QueryClaims("instance", shape.instanceQueries, "instance_evals") ELSE <<>>
           io == InstanceOpenings
           ac == QueryClaims("advice", shape.adviceQueries, "advice_evals")
           ao == Queried("advice", shape.adviceQueries)
           fc == QueryClaims("fixed", shape.fixedQueries, "fixed_evals")
           fo == Queried("fixed", shape.fixedQueries)
           hc == <<Claim("h", 0, 0, "expected_h_eval", 0), Claim("random", 0, 0, "random_eval", 0)>>
           ho == <<Opening("h", 0, 0), Opening("random", 0, 0)>>
<1>1. Claims = ((((((ic \o ac) \o SetClaims) \o LastClaims) \o LookupClaims) \o fc)
                    \o SigmaClaims) \o hc
  BY DEF Claims, SetClaims, LastClaims, LookupClaims, SigmaClaims
<1>2. Openings = ((((((io \o ao) \o SetsOpened) \o LastOpenings) \o LookupsOpened) \o fo)
                    \o SigmaOpenings) \o ho
  BY DEF Openings, SetsOpened, LookupsOpened, SigmaOpenings
<1>3. Agree(hc, ho)
  <2>1. /\ Opening("h", 0, 0) \in Made /\ Opening("random", 0, 0) \in Made
        /\ Slot("random_eval", 0) \in Known
    BY EvaluationsMade
  <2>2. /\ Slot("h", 0) \in Known /\ Slot("expected_h_eval", 0) \in Known
        /\ Slot("random", 0) \in Known
    BY KnownSlots
  <2>3. /\ OpeningOf(Slot("expected_h_eval", 0)) = Opening("h", 0, 0)
        /\ OpeningOf(Slot("random_eval", 0)) = Opening("random", 0, 0)
    BY OpeningsOfSlots
  <2>4. /\ "h" \in NamedSlots /\ "random" \in NamedSlots /\ "expected_h_eval" \in EvalLabels
        /\ "random_eval" \in EvalLabels /\ 0 \in Rotations
    BY RotationsAre DEF NamedSlots, EvalLabels
  <2>5. <<Claim("h", 0, 0, "expected_h_eval", 0), Opening("h", 0, 0)>> \in AgreeAs
    BY <2>1, <2>2, <2>3, <2>4, ClaimAgrees
  <2>6. <<Claim("random", 0, 0, "random_eval", 0), Opening("random", 0, 0)>> \in AgreeAs
    BY <2>1, <2>2, <2>3, <2>4, ClaimAgrees
  <2> QED  BY <2>5, <2>6, PairAgrees
<1>4. /\ Agree(ic, io) /\ Agree(ac, ao) /\ Agree(fc, fo)
      /\ Agree(SetClaims, SetsOpened) /\ Agree(LastClaims, LastOpenings)
      /\ Agree(LookupClaims, LookupsOpened) /\ Agree(SigmaClaims, SigmaOpenings)
  BY InstancesAgree, AdviceAgrees, FixedAgrees, SetsAgree, LastsAgree, LookupsAgree, SigmasAgree
<1> HIDE DEF ic, io, ac, ao, fc, fo, hc, ho
<1>5. Agree(ic \o ac, io \o ao)
  BY ONLY <1>4, ConcatAgrees
<1>6. Agree((ic \o ac) \o SetClaims, (io \o ao) \o SetsOpened)
  BY ONLY <1>4, <1>5, ConcatAgrees
<1>7. Agree(((ic \o ac) \o SetClaims) \o LastClaims, ((io \o ao) \o SetsOpened) \o LastOpenings)
  BY ONLY <1>4, <1>6, ConcatAgrees
<1>8. Agree((((ic \o ac) \o SetClaims) \o LastClaims) \o LookupClaims,
            (((io \o ao) \o SetsOpened) \o LastOpenings) \o LookupsOpened)
  BY ONLY <1>4, <1>7, ConcatAgrees
<1>9. Agree(((((ic \o ac) \o SetClaims) \o LastClaims) \o LookupClaims) \o fc,
            ((((io \o ao) \o SetsOpened) \o LastOpenings) \o LookupsOpened) \o fo)
  BY ONLY <1>4, <1>8, ConcatAgrees
<1>10. Agree((((((ic \o ac) \o SetClaims) \o LastClaims) \o LookupClaims) \o fc) \o SigmaClaims,
             (((((io \o ao) \o SetsOpened) \o LastOpenings) \o LookupsOpened) \o fo)
                 \o SigmaOpenings)
  BY ONLY <1>4, <1>9, ConcatAgrees
<1>11. Agree(((((((ic \o ac) \o SetClaims) \o LastClaims) \o LookupClaims) \o fc)
                  \o SigmaClaims) \o hc,
             ((((((io \o ao) \o SetsOpened) \o LastOpenings) \o LookupsOpened) \o fo)
                  \o SigmaOpenings) \o ho)
  BY ONLY <1>3, <1>10, ConcatAgrees
<1> QED  BY <1>1, <1>2, <1>11

\* Every circuit is one that both sides are made for; key generation and the entry
\* points of the prover leave no other.
ShapesSupported == \A s \in Shapes : Supported(s)

(* -------------------------------- the invariant ------------------------------- *)

Before == {"synthesize", "panicked"}

\* In a phase, what the prover has absorbed and written.
ProverAt(phase, transcript, written) ==
    at["prover"] = phase => absorbed["prover"] = transcript /\ proof = written

\* In a phase, what the verifier has absorbed and which slots it has filled.
VerifierAt(phase, transcript, filled) ==
    at["verifier"] = phase => absorbed["verifier"] = transcript /\ slots = filled

SidesInv ==
    /\ shape \in Shapes
    /\ at \in [{"prover", "verifier"} ->
                   Before \cup {"advice", "permuted", "products", "quotient", "evaluate", "open",
                                "done", "waiting", "instances", "accepted"}]
    /\ at["verifier"] \notin Before \cup {"done"}
    /\ at["prover"] \notin {"waiting", "instances", "accepted"}
    /\ DOMAIN absorbed = {"prover", "verifier"}
    /\ absorbed = [side \in {"prover", "verifier"} |-> absorbed[side]]

\* The prover is past its synthesis only with a circuit of one phase; the verifier
\* starts when it has finished.
OrderInv ==
    /\ at["prover"] \notin Before => \A c \in 1..NumAdvice : shape.advicePhase[c] = 0
    /\ at["prover"] # "done" => at["verifier"] = "waiting" /\ opened = <<>>
    /\ at["prover"] = "done" => opened = Openings
    /\ claims = IF at["verifier"] = "accepted" THEN Claims ELSE <<>>

ProverInv ==
    /\ ProverAt("synthesize", <<>>, <<>>) /\ ProverAt("panicked", <<>>, <<>>)
    /\ ProverAt("advice", <<>>, <<>>)     /\ ProverAt("permuted", T1, AdviceComs)
    /\ ProverAt("products", T2, W2)       /\ ProverAt("quotient", T3, W3)
    /\ ProverAt("evaluate", T4, W4)       /\ ProverAt("open", T5, W5)
    /\ ProverAt("done", T6, W6)

VerifierInv ==
    /\ VerifierAt("waiting", <<>>, <<>>)  /\ VerifierAt("instances", <<>>, <<>>)
    /\ VerifierAt("advice", Statement, <<>>)
    /\ VerifierAt("permuted", T1, AdviceSlots)
    /\ VerifierAt("products", T2, S2)     /\ VerifierAt("quotient", T3, S3)
    /\ VerifierAt("evaluate", T4, S4)     /\ VerifierAt("open", T5, S5)
    /\ VerifierAt("accepted", T6, S6)

IInv == SidesInv /\ OrderInv /\ ProverInv /\ VerifierInv


(* ----------------------------------- the circuit ------------------------------ *)

\* The circuit never changes, and nothing that is made of it alone does.
LEMMA CircuitKept ==
    ASSUME UNCHANGED shape
    PROVE  /\ T1' = T1 /\ T2' = T2 /\ T3' = T3 /\ T4' = T4 /\ T5' = T5 /\ T6' = T6
           /\ AdviceComs' = AdviceComs /\ W2' = W2 /\ W3' = W3 /\ W4' = W4 /\ W5' = W5 /\ W6' = W6
           /\ AdviceSlots' = AdviceSlots /\ S2' = S2 /\ S3' = S3 /\ S4' = S4 /\ S5' = S5 /\ S6' = S6
           /\ Statement' = Statement /\ NumAdvice' = NumAdvice
           /\ Openings' = Openings /\ Claims' = Claims
<1>1. /\ Statement' = Statement /\ NumAdvice' = NumAdvice /\ Sets' = Sets /\ Pieces' = Pieces
      /\ LastRow' = LastRow /\ Theta' = Theta
  BY DEF Statement, VkDigest, InstanceInputs, Each, EachFlat, NumAdvice, Sets, ChunkLen, Pieces,
         LastRow, BlindingFactors, AdviceQueries, Theta, ChallengesOf
<1>2. AdviceComs' = AdviceComs /\ PermutedComs' = PermutedComs /\ ProductComs' = ProductComs
      /\ QuotientComs' = QuotientComs
  BY <1>1 DEF AdviceComs, PermutedComs, ProductComs, QuotientComs, Each, EachFlat
<1>3. AdviceSlots' = AdviceSlots /\ PermutedSlots' = PermutedSlots
      /\ ProductSlots' = ProductSlots /\ QuotientSlots' = QuotientSlots
  BY <1>1 DEF AdviceSlots, PermutedSlots, ProductSlots, QuotientSlots, Each, EachFlat
<1>4. Evaluations' = Evaluations /\ Openings' = Openings
  BY <1>1 DEF Evaluations, Openings, InstanceOpenings, Queried, LastOpenings, Each, EachFlat
<1>5. Evals' = Evals
  BY <1>4 DEF Evals
<1>6. EvaluationSlots' = EvaluationSlots
  BY <1>1 DEF EvaluationSlots, EvalSlots, PermutationSlots, LookupSlots, Each, EachFlat
<1>7. Claims' = Claims
  BY <1>1 DEF Claims, QueryClaims, Each, EachFlat
<1>8. /\ T1' = T1 /\ T2' = T2 /\ T3' = T3 /\ T4' = T4 /\ T5' = T5 /\ T6' = T6
  BY <1>1, <1>2, <1>5 DEF T1, T2, T3, T4, T5, T6
<1>9. /\ W2' = W2 /\ W3' = W3 /\ W4' = W4 /\ W5' = W5 /\ W6' = W6
  BY <1>2, <1>5 DEF W2, W3, W4, W5, W6
<1>10. S2' = S2 /\ S3' = S3 /\ S4' = S4 /\ S5' = S5 /\ S6' = S6
  BY <1>3, <1>6 DEF S2, S3, S4, S5, S6
<1> QED  BY <1>1, <1>2, <1>3, <1>4, <1>7, <1>8, <1>9, <1>10

\* The last phase is that of some column.
LEMMA LastPhase ==
    ASSUME Supported(shape), NumAdvice > 0
    PROVE  \E m \in 1..NumAdvice : \A c \in 1..NumAdvice :
               shape.advicePhase[c] <= shape.advicePhase[m]
<1> DEFINE n == NumAdvice
           p(c) == shape.advicePhase[c]
           S == {k \in Nat : \E m \in 1..n : \A c \in 1..n : c <= k => p(c) <= p(m)}
<1>1. n \in Nat /\ n > 0 /\ \A c \in 1..n : p(c) \in Nat
  BY SMTT(30) DEF Supported, WellFormed, NumAdvice
<1> HIDE DEF n, p
<1>2. 0 \in S
  BY <1>1
<1>3. ASSUME NEW i \in 0..(n - 1), i \in S PROVE i + 1 \in S
  <2>1. PICK m \in 1..n : \A c \in 1..n : c <= i => p(c) <= p(m)
    BY <1>3
  <2>2. CASE p(i + 1) <= p(m)
    <3>1. \A c \in 1..n : c <= i + 1 => p(c) <= p(m)
      BY <1>1, <2>1, <2>2
    <3> QED  BY <1>1, <3>1
  <2>3. CASE ~(p(i + 1) <= p(m))
    <3>1. i + 1 \in 1..n
      BY <1>1
    <3>2. \A c \in 1..n : c <= i + 1 => p(c) <= p(i + 1)
      BY <1>1, <2>1, <2>3, <3>1
    <3> QED  BY <1>1, <3>1, <3>2
  <2> QED  BY <2>2, <2>3
<1> HIDE DEF S
<1>4. 0..n \subseteq S
  BY <1>1, <1>2, <1>3, BoundedInduction
<1>5. n \in S
  BY <1>1, <1>4
<1> QED  BY <1>1, <1>5 DEF S, n, p

\* A circuit whose columns are all of phase 0 has that phase alone, and the other way
\* around.
LEMMA OnePhase ==
    ASSUME Supported(shape)
    PROVE  Phases = {0} <=> \A c \in 1..NumAdvice : shape.advicePhase[c] = 0
<1> DEFINE P == {shape.advicePhase[c] : c \in 1..NumAdvice}
<1>1. NumAdvice \in Nat /\ \A c \in 1..NumAdvice : shape.advicePhase[c] \in Nat
  BY SMTT(30) DEF Supported, WellFormed, NumAdvice
<1>2. Phases = 0..Max0(P)
  BY DEF Phases
<1>3. CASE NumAdvice = 0
  <2>1. P = {}
    BY <1>3
  <2>2. Phases = 0..0
    BY <1>2, <2>1 DEF Max0
  <2> QED  BY <1>3, <2>2
<1>4. CASE NumAdvice > 0
  <2>1. PICK m \in 1..NumAdvice : \A c \in 1..NumAdvice :
            shape.advicePhase[c] <= shape.advicePhase[m]
    BY <1>4, LastPhase
  <2>2. P # {} /\ P \subseteq Nat /\ \E x \in P : \A y \in P : x >= y
    BY <1>1, <2>1
  <2> DEFINE x == Max0(P)
  <2>3. x = CHOOSE z \in P : \A y \in P : z >= y
    BY <2>2 DEF Max0, Max
  <2>4. x \in P /\ \A y \in P : x >= y
    BY <2>2, <2>3
  <2>5. Phases = 0..x
    BY <1>2
  <2> HIDE DEF x
  <2>6. x \in Nat
    BY <2>2, <2>4
  <2>7. x = 0 <=> \A y \in P : y = 0
    <3> HIDE DEF P
    <3> QED  BY <2>2, <2>4, <2>6
  <2>8. Phases = {0} <=> x = 0
    <3>1. ASSUME Phases = {0} PROVE x = 0
      BY <2>5, <2>6, <3>1
    <3>2. ASSUME x = 0 PROVE Phases = {0}
      BY <2>5, <3>2
    <3> QED  BY <3>1, <3>2
  <2> QED  BY <2>7, <2>8
<1> QED  BY <1>1, <1>3, <1>4

(* ---------------------------------- the prover -------------------------------- *)

\* In this phase the prover has that transcript and has written that.
Stage(phase, transcript, written) ==
    \/ phase \in Before \cup {"advice"} /\ transcript = <<>> /\ written = <<>>
    \/ phase = "permuted" /\ transcript = T1 /\ written = AdviceComs
    \/ phase = "products" /\ transcript = T2 /\ written = W2
    \/ phase = "quotient" /\ transcript = T3 /\ written = W3
    \/ phase = "evaluate" /\ transcript = T4 /\ written = W4
    \/ phase = "open"     /\ transcript = T5 /\ written = W5

ProverMoves(phase, transcript, written) ==
    /\ at["prover"] # "done"
    /\ Stage(phase, transcript, written)
    /\ phase \notin Before => \A c \in 1..NumAdvice : shape.advicePhase[c] = 0
    /\ at' = [at EXCEPT !["prover"] = phase]
    /\ absorbed' = [absorbed EXCEPT !["prover"] = transcript]
    /\ proof' = written
    /\ UNCHANGED <<shape, slots, opened, claims>>

\* A move of the prover to a stage keeps the invariant.
LEMMA ProverAdvances ==
    ASSUME IInv, NEW phase, NEW transcript, NEW written, ProverMoves(phase, transcript, written)
    PROVE  IInv'
<1> USE DEF ProverMoves
<1>1. /\ at["verifier"] = "waiting" /\ opened = <<>> /\ claims = <<>>
      /\ absorbed["verifier"] = <<>> /\ slots = <<>>
  BY DEF IInv, OrderInv, VerifierInv, VerifierAt
<1>2. /\ at'["prover"] = phase /\ at'["verifier"] = at["verifier"]
      /\ absorbed'["prover"] = transcript /\ absorbed'["verifier"] = <<>>
      /\ DOMAIN absorbed' = {"prover", "verifier"}
      /\ absorbed' = [side \in {"prover", "verifier"} |-> absorbed'[side]]
  BY <1>1 DEF IInv, SidesInv
<1>3. phase \in Before \cup {"advice", "permuted", "products", "quotient", "evaluate", "open"}
  BY DEF Stage
<1>4. SidesInv'
  BY <1>1, <1>2, <1>3 DEF IInv, SidesInv, Before
<1>5. OrderInv'
  BY <1>1, <1>2, <1>3, CircuitKept DEF OrderInv, Before
<1>6. ProverInv'
  BY <1>2, CircuitKept DEF ProverInv, ProverAt, Stage, Before
<1>7. VerifierInv'
  BY <1>1, <1>2 DEF VerifierInv, VerifierAt
<1> QED  BY <1>4, <1>5, <1>6, <1>7 DEF IInv

LEMMA SynthesizeKeeps ==
    ASSUME ShapesSupported, IInv, Synthesize
    PROVE  IInv'
<1>1. /\ Supported(shape) /\ at["prover"] = "synthesize"
      /\ absorbed["prover"] = <<>> /\ proof = <<>>
      /\ absorbed = [side \in {"prover", "verifier"} |-> absorbed[side]]
  BY DEF IInv, SidesInv, ProverInv, ProverAt, Synthesize, ShapesSupported
<1>2. UNCHANGED <<absorbed, proof>> /\ UNCHANGED <<shape, slots, opened, claims>>
  BY <1>1 DEF Synthesize, Supported
<1>3. absorbed' = [absorbed EXCEPT !["prover"] = <<>>]
  BY <1>1, <1>2
<1>4. CASE at' = [at EXCEPT !["prover"] = "panicked"]
  <2>1. ProverMoves("panicked", <<>>, <<>>)
    BY <1>1, <1>2, <1>3, <1>4 DEF ProverMoves, Stage, Before
  <2> QED  BY <2>1, ProverAdvances
<1>5. CASE /\ at' = [at EXCEPT !["prover"] = "advice"]
           /\ shape.entry = "circuit" => Phases = {0} /\ shape.challengePhase = <<>>
  <2>1. \A c \in 1..NumAdvice : shape.advicePhase[c] = 0
    <3>1. CASE shape.entry = "circuit"
      BY <1>1, <1>5, <3>1, OnePhase
    <3>2. CASE shape.entry # "circuit"
      BY <1>1, <3>2 DEF Supported, WellFormed, NumAdvice
    <3> QED  BY <3>1, <3>2
  <2>2. ProverMoves("advice", <<>>, <<>>)
    BY <1>1, <1>2, <1>3, <1>5, <2>1 DEF ProverMoves, Stage, Before
  <2> QED  BY <2>2, ProverAdvances
<1> QED  BY <1>1, <1>4, <1>5 DEF Synthesize, Supported

LEMMA CommitAdviceKeeps ==
    ASSUME ShapesSupported, IInv, CommitAdvice
    PROVE  IInv'
<1>1. /\ Supported(shape) /\ at["prover"] = "advice" /\ UNCHANGED <<shape, slots, opened, claims>>
      /\ absorbed["prover"] = <<>> /\ proof = <<>>
      /\ \A c \in 1..NumAdvice : shape.advicePhase[c] = 0
  BY DEF IInv, SidesInv, OrderInv, ProverInv, ProverAt, CommitAdvice, ShapesSupported, Before
<1>2. Statement \in Seq(Items) /\ AdviceComs \in Seq(Items) /\ <<>> \in Seq(Items)
  BY <1>1, StatementPart, AdvicePart
<1>3. /\ at' = [at EXCEPT !["prover"] = "permuted"] /\ proof' = <<>> \o AdviceComs
      /\ absorbed' = [absorbed EXCEPT !["prover"] =
                          ((<<>> \o Statement) \o AdviceComs) \o Theta]
  BY <1>1 DEF CommitAdvice, Emit, Theta
<1>4. <<>> \o Statement = Statement /\ <<>> \o AdviceComs = AdviceComs
  BY <1>2, EmptyConcat
<1>5. ProverMoves("permuted", T1, AdviceComs)
  BY <1>1, <1>3, <1>4 DEF ProverMoves, Stage, T1
<1> QED  BY <1>5, ProverAdvances

LEMMA CommitPermutedKeeps ==
    ASSUME ShapesSupported, IInv, CommitPermuted
    PROVE  IInv'
<1>1. /\ Supported(shape) /\ at["prover"] = "permuted"
      /\ UNCHANGED <<shape, slots, opened, claims>>
      /\ absorbed["prover"] = T1 /\ proof = AdviceComs
      /\ \A c \in 1..NumAdvice : shape.advicePhase[c] = 0
  BY DEF IInv, SidesInv, OrderInv, ProverInv, ProverAt, CommitPermuted, ShapesSupported, Before
<1>2. T1 \in Seq(Items) /\ PermutedComs \in Seq(Items) /\ <<>> \in Seq(Items)
  BY <1>1, PermutedPart, Transcripts
<1>3. /\ at' = [at EXCEPT !["prover"] = "products"] /\ proof' = AdviceComs \o PermutedComs
      /\ absorbed' = [absorbed EXCEPT !["prover"] =
                          ((T1 \o <<>>) \o PermutedComs) \o BetaGamma]
  BY <1>1 DEF CommitPermuted, Emit, BetaGamma
<1>4. T1 \o <<>> = T1
  BY <1>2, EmptyConcat
<1>5. ProverMoves("products", T2, W2)
  BY <1>1, <1>3, <1>4 DEF ProverMoves, Stage, T2, W2
<1> QED  BY <1>5, ProverAdvances

LEMMA CommitProductsKeeps ==
    ASSUME ShapesSupported, IInv, CommitProducts
    PROVE  IInv'
<1>1. /\ Supported(shape) /\ at["prover"] = "products"
      /\ UNCHANGED <<shape, slots, opened, claims>>
      /\ absorbed["prover"] = T2 /\ proof = W2
      /\ \A c \in 1..NumAdvice : shape.advicePhase[c] = 0
  BY DEF IInv, SidesInv, OrderInv, ProverInv, ProverAt, CommitProducts, ShapesSupported, Before
<1>2. T2 \in Seq(Items) /\ ProductComs \in Seq(Items) /\ <<>> \in Seq(Items)
  BY <1>1, ProductReads, Transcripts
<1>3. /\ at' = [at EXCEPT !["prover"] = "quotient"] /\ proof' = W2 \o ProductComs
      /\ absorbed' = [absorbed EXCEPT !["prover"] =
                          ((T2 \o <<>>) \o ProductComs) \o <<Challenge("y", 0)>>]
  BY <1>1 DEF CommitProducts, Emit
<1>4. T2 \o <<>> = T2
  BY <1>2, EmptyConcat
<1>5. ProverMoves("quotient", T3, W3)
  BY <1>1, <1>3, <1>4 DEF ProverMoves, Stage, T3, W3
<1> QED  BY <1>5, ProverAdvances

LEMMA CommitQuotientKeeps ==
    ASSUME ShapesSupported, IInv, CommitQuotient
    PROVE  IInv'
<1>1. /\ Supported(shape) /\ at["prover"] = "quotient"
      /\ UNCHANGED <<shape, slots, opened, claims>>
      /\ absorbed["prover"] = T3 /\ proof = W3
      /\ \A c \in 1..NumAdvice : shape.advicePhase[c] = 0
  BY DEF IInv, SidesInv, OrderInv, ProverInv, ProverAt, CommitQuotient, ShapesSupported, Before
<1>2. T3 \in Seq(Items) /\ QuotientComs \in Seq(Items) /\ <<>> \in Seq(Items)
  BY <1>1, QuotientReads, Transcripts
<1>3. /\ at' = [at EXCEPT !["prover"] = "evaluate"] /\ proof' = W3 \o QuotientComs
      /\ absorbed' = [absorbed EXCEPT !["prover"] =
                          ((T3 \o <<>>) \o QuotientComs) \o <<Challenge("x", 0)>>]
  BY <1>1 DEF CommitQuotient, Emit
<1>4. T3 \o <<>> = T3
  BY <1>2, EmptyConcat
<1>5. ProverMoves("evaluate", T4, W4)
  BY <1>1, <1>3, <1>4 DEF ProverMoves, Stage, T4, W4
<1> QED  BY <1>5, ProverAdvances

LEMMA EvaluateKeeps ==
    ASSUME ShapesSupported, IInv, Evaluate
    PROVE  IInv'
<1>1. /\ Supported(shape) /\ at["prover"] = "evaluate"
      /\ UNCHANGED <<shape, slots, opened, claims>>
      /\ absorbed["prover"] = T4 /\ proof = W4
      /\ \A c \in 1..NumAdvice : shape.advicePhase[c] = 0
  BY DEF IInv, SidesInv, OrderInv, ProverInv, ProverAt, Evaluate, ShapesSupported, Before
<1>2. /\ T4 \in Seq(Items) /\ Evals \in Seq(Items) /\ <<>> \in Seq(Items) /\ T5 \in Seq(Items)
  BY <1>1, EvaluationsWritten, Transcripts
<1>3. /\ at' = [at EXCEPT !["prover"] = "open"] /\ proof' = W4 \o Evals
      /\ absorbed' = [absorbed EXCEPT !["prover"] = ((T4 \o <<>>) \o Evals) \o <<>>]
  BY <1>1 DEF Evaluate, Emit
<1>4. T4 \o <<>> = T4 /\ T5 \o <<>> = T5
  BY <1>2, EmptyConcat
<1>5. ProverMoves("open", T5, W5)
  BY <1>1, <1>3, <1>4 DEF ProverMoves, Stage, T5, W5
<1> QED  BY <1>5, ProverAdvances

\* The prover is done when it has opened, and the verifier may start.
LEMMA OpenKeeps ==
    ASSUME ShapesSupported, IInv, Open
    PROVE  IInv'
<1>1. /\ at["prover"] = "open" /\ UNCHANGED <<shape, slots, claims>>
      /\ absorbed["prover"] = T5 /\ proof = W5
      /\ \A c \in 1..NumAdvice : shape.advicePhase[c] = 0
      /\ at["verifier"] = "waiting" /\ absorbed["verifier"] = <<>> /\ slots = <<>> /\ claims = <<>>
  BY DEF IInv, OrderInv, ProverInv, ProverAt, VerifierInv, VerifierAt, Open, Before
<1>2. /\ opened' = Openings /\ proof' = W6
      /\ absorbed' = [absorbed EXCEPT !["prover"] = T6]
      /\ at' = [at EXCEPT !["prover"] = "done", !["verifier"] = "instances"]
  BY <1>1 DEF Open, T6, W6, Multiopening, FinalComs
<1>3. /\ at'["prover"] = "done" /\ at'["verifier"] = "instances"
      /\ absorbed'["prover"] = T6 /\ absorbed'["verifier"] = <<>>
      /\ DOMAIN absorbed' = {"prover", "verifier"}
      /\ absorbed' = [side \in {"prover", "verifier"} |-> absorbed'[side]]
  BY <1>1, <1>2 DEF IInv, SidesInv
<1>4. SidesInv'
  BY <1>1, <1>2, <1>3 DEF IInv, SidesInv, Before
<1>5. OrderInv'
  BY <1>1, <1>2, <1>3, CircuitKept DEF OrderInv, Before
<1>6. ProverInv'
  BY <1>1, <1>2, <1>3, CircuitKept DEF ProverInv, ProverAt
<1>7. VerifierInv'
  BY <1>1, <1>3 DEF VerifierInv, VerifierAt
<1> QED  BY <1>4, <1>5, <1>6, <1>7 DEF IInv

(* --------------------------------- the verifier ------------------------------- *)

\* In this phase the verifier has that transcript and has filled those slots.
ReadingStage(phase, transcript, filled) ==
    \/ phase = "advice"   /\ transcript = Statement /\ filled = <<>>
    \/ phase = "permuted" /\ transcript = T1 /\ filled = AdviceSlots
    \/ phase = "products" /\ transcript = T2 /\ filled = S2
    \/ phase = "quotient" /\ transcript = T3 /\ filled = S3
    \/ phase = "evaluate" /\ transcript = T4 /\ filled = S4
    \/ phase = "open"     /\ transcript = T5 /\ filled = S5

VerifierMoves(phase, transcript, filled) ==
    /\ at["prover"] = "done" /\ claims = <<>>
    /\ ReadingStage(phase, transcript, filled)
    /\ at' = [at EXCEPT !["verifier"] = phase]
    /\ absorbed' = [absorbed EXCEPT !["verifier"] = transcript]
    /\ slots' = filled
    /\ UNCHANGED <<shape, proof, opened, claims>>

\* A move of the verifier to a stage keeps the invariant.
LEMMA VerifierAdvances ==
    ASSUME IInv, NEW phase, NEW transcript, NEW filled, VerifierMoves(phase, transcript, filled)
    PROVE  IInv'
<1> USE DEF VerifierMoves
<1>1. /\ absorbed["prover"] = T6 /\ proof = W6 /\ opened = Openings
  BY DEF IInv, OrderInv, ProverInv, ProverAt
<1>2. /\ at'["verifier"] = phase /\ at'["prover"] = "done"
      /\ absorbed'["verifier"] = transcript /\ absorbed'["prover"] = T6
      /\ DOMAIN absorbed' = {"prover", "verifier"}
      /\ absorbed' = [side \in {"prover", "verifier"} |-> absorbed'[side]]
  BY <1>1 DEF IInv, SidesInv
<1>3. phase \in {"advice", "permuted", "products", "quotient", "evaluate", "open"}
  BY DEF ReadingStage
<1>4. SidesInv'
  BY <1>1, <1>2, <1>3 DEF IInv, SidesInv, Before
<1>5. OrderInv'
  BY <1>1, <1>2, <1>3, CircuitKept DEF IInv, OrderInv, Before
<1>6. ProverInv'
  BY <1>1, <1>2, CircuitKept DEF ProverInv, ProverAt
<1>7. VerifierInv'
  BY <1>2, <1>3, CircuitKept DEF VerifierInv, VerifierAt, ReadingStage
<1> QED  BY <1>4, <1>5, <1>6, <1>7 DEF IInv

\* The values that fill the slots names after those of before are next in the proof.
NextInProof(before, written, names, values) ==
    /\ slots = before /\ proof = W6
    /\ before \in Seq(SlotSet) /\ written \in Seq(Items) /\ Len(before) = Len(written)
    /\ names \in Seq(SlotSet) /\ values \in Seq(Items) /\ Len(names) = Len(values)
    /\ W6 \in Seq(Items) /\ Begins(written \o values, W6)

Taking(before, written, names, values, common, squeezed, next) ==
    NextInProof(before, written, names, values) /\ Take(common, names, squeezed, next)

Taken(before, names, values, common, squeezed, next) ==
    /\ at' = [at EXCEPT !["verifier"] = next] /\ slots' = before \o names
    /\ absorbed' = [absorbed EXCEPT !["verifier"] = ((@ \o common) \o values) \o squeezed]

\* A phase of the verifier finds its values in the proof and absorbs them.
LEMMA TakesNext ==
    ASSUME NEW before, NEW written, NEW names, NEW values, NEW common, NEW squeezed, NEW next,
           Taking(before, written, names, values, common, squeezed, next)
    PROVE  Taken(before, names, values, common, squeezed, next)
<1>1. /\ slots = before /\ proof = W6
      /\ before \in Seq(SlotSet) /\ written \in Seq(Items) /\ Len(before) = Len(written)
      /\ names \in Seq(SlotSet) /\ values \in Seq(Items) /\ Len(names) = Len(values)
      /\ W6 \in Seq(Items) /\ Begins(written \o values, W6)
  BY DEF Taking, NextInProof
<1>2. /\ Len(written) + Len(values) <= Len(W6)
      /\ SubSeq(W6, Len(written) + 1, Len(written) + Len(values)) = values
  <2>1. /\ written \in Seq(Items) /\ values \in Seq(Items) /\ W6 \in Seq(Items)
        /\ Begins(written \o values, W6)
    BY <1>1
  <2> QED  BY ONLY <2>1, BeginsReads
<1>3. Len(written) \in Nat /\ Len(values) \in Nat /\ Len(W6) \in Nat
  BY <1>1
<1>4. ~(Len(slots) + Len(names) > Len(proof))
  BY <1>1, <1>2, <1>3
<1>5. SubSeq(proof, Len(slots) + 1, Len(slots) + Len(names)) = values
  BY <1>1, <1>2
<1> QED  BY <1>1, <1>4, <1>5 DEF Taking, Taken, Take

\* What the verifier relies on in every phase: the prover is done with this proof.
LEMMA VerifierStarts ==
    ASSUME ShapesSupported, IInv,
           at["verifier"] \in {"instances", "advice", "permuted", "products", "quotient",
                               "evaluate", "open"}
    PROVE  /\ Supported(shape) /\ at["prover"] = "done" /\ claims = <<>> /\ proof = W6
           /\ opened = Openings /\ absorbed["prover"] = T6
           /\ \A c \in 1..NumAdvice : shape.advicePhase[c] = 0
<1>1. Supported(shape)
  BY DEF IInv, SidesInv, ShapesSupported
<1>2. at["prover"] = "done" /\ claims = <<>>
  BY DEF IInv, OrderInv
<1> QED  BY <1>1, <1>2 DEF IInv, OrderInv, ProverInv, ProverAt, Before

LEMMA AbsorbInstancesKeeps ==
    ASSUME ShapesSupported, IInv, AbsorbInstances
    PROVE  IInv'
<1>1. /\ Supported(shape) /\ at["prover"] = "done" /\ claims = <<>> /\ proof = W6
      /\ absorbed["verifier"] = <<>> /\ slots = <<>>
      /\ UNCHANGED <<shape, proof, opened, claims>>
  BY VerifierStarts DEF IInv, VerifierInv, VerifierAt, AbsorbInstances
<1>2. W6 \in Seq(Items) /\ Statement \in Seq(Items) /\ Begins(<<>>, W6)
  BY <1>1, SlotsRead, StatementPart DEF ReadsSome
<1>3. NextInProof(<<>>, <<>>, <<>>, <<>>)
  BY <1>1, <1>2 DEF NextInProof
<1>4. Take(Statement, <<>>, <<>>, "advice")
  BY DEF AbsorbInstances
<1>5. Taken(<<>>, <<>>, <<>>, Statement, <<>>, "advice")
  BY ONLY <1>3, <1>4, TakesNext DEF Taking
<1>6. <<>> \o Statement = Statement /\ Statement \o <<>> = Statement
  BY <1>2, EmptyConcat
<1>7. VerifierMoves("advice", Statement, <<>>)
  BY <1>1, <1>5, <1>6 DEF VerifierMoves, ReadingStage, Taken
<1> QED  BY <1>7, VerifierAdvances

\* The one phase there is of advice is phase 0, and the last.
LEMMA ReadAdviceKeeps ==
    ASSUME ShapesSupported, IInv, ReadAdvice
    PROVE  IInv'
<1>1. /\ Supported(shape) /\ at["prover"] = "done" /\ claims = <<>> /\ proof = W6
      /\ absorbed["verifier"] = Statement /\ slots = <<>>
      /\ \A c \in 1..NumAdvice : shape.advicePhase[c] = 0
      /\ UNCHANGED <<shape, proof, opened, claims>>
  BY VerifierStarts DEF IInv, VerifierInv, VerifierAt, ReadAdvice
<1>2. /\ ReadsSome(AdviceSlots, AdviceComs) /\ Begins(AdviceComs, W6) /\ W6 \in Seq(Items)
      /\ Statement \in Seq(Items)
  BY <1>1, SlotsRead, StatementPart DEF ReadsSome
<1>3. NextInProof(<<>>, <<>>, AdviceSlots, AdviceComs)
  <2>1. /\ AdviceSlots \in Seq(SlotSet) /\ AdviceComs \in Seq(Items)
        /\ Len(AdviceSlots) = Len(AdviceComs)
    BY <1>2 DEF ReadsSome, Matches
  <2>2. <<>> \o AdviceComs = AdviceComs
    BY <2>1, EmptyConcat
  <2> QED  BY <1>1, <1>2, <2>1, <2>2 DEF NextInProof
<1>4. Phases = {0} /\ Cardinality(Phases) = 1
  BY <1>1, OnePhase, FS_Singleton
<1> DEFINE phase == Cardinality({c \in Phases : \E k \in DOMAIN slots :
                                     shape.advicePhase[slots[k].i] = c})
<1>5. phase = 0
  <2>1. DOMAIN slots = {}
    BY <1>1
  <2>2. {c \in Phases : \E k \in DOMAIN slots : shape.advicePhase[slots[k].i] = c} = {}
    BY <2>1
  <2> QED  BY <2>2, FS_EmptySet
<1>6. ColumnsOf(0) = AdviceSlots
  BY <1>1, AdviceColumnsOfPhase
<1>7. Take(<<>>, AdviceSlots, Theta, "permuted")
  <2>1. Take(<<>>, ColumnsOf(phase),
             ChallengesOf({phase}) \o
                 (IF phase + 1 = Cardinality(Phases) THEN <<Challenge("theta", 0)>> ELSE <<>>),
             IF phase + 1 = Cardinality(Phases) THEN "permuted" ELSE "advice")
    BY DEF ReadAdvice
  <2> HIDE DEF phase
  <2>2. phase + 1 = Cardinality(Phases)
    BY <1>4, <1>5
  <2> QED  BY ONLY <1>5, <1>6, <2>1, <2>2 DEF Theta
<1>8. Taken(<<>>, AdviceSlots, AdviceComs, <<>>, Theta, "permuted")
  BY ONLY <1>3, <1>7, TakesNext DEF Taking
<1>9. Statement \o <<>> = Statement /\ <<>> \o AdviceSlots = AdviceSlots
  BY <1>2, EmptyConcat DEF ReadsSome
<1>10. VerifierMoves("permuted", T1, AdviceSlots)
  BY <1>1, <1>8, <1>9 DEF VerifierMoves, ReadingStage, Taken, T1
<1> QED  BY <1>10, VerifierAdvances

LEMMA ReadPermutedKeeps ==
    ASSUME ShapesSupported, IInv, ReadPermuted
    PROVE  IInv'
<1>1. /\ Supported(shape) /\ at["prover"] = "done" /\ claims = <<>> /\ proof = W6
      /\ absorbed["verifier"] = T1 /\ slots = AdviceSlots
      /\ UNCHANGED <<shape, proof, opened, claims>>
  BY VerifierStarts DEF IInv, VerifierInv, VerifierAt, ReadPermuted
<1>2. /\ ReadsSome(AdviceSlots, AdviceComs) /\ Begins(W2, W6) /\ W6 \in Seq(Items)
      /\ T1 \in Seq(Items) /\ T2 \in Seq(Items)
  BY <1>1, SlotsRead, Transcripts DEF ReadsSome
<1>3. NextInProof(AdviceSlots, AdviceComs, PermutedSlots, PermutedComs)
  <2>1. /\ PermutedSlots \in Seq(SlotSet) /\ PermutedComs \in Seq(Items)
        /\ Len(PermutedSlots) = Len(PermutedComs)
    BY <1>1, PermutedReads DEF Reads, Matches
  <2>2. /\ AdviceSlots \in Seq(SlotSet) /\ AdviceComs \in Seq(Items) /\ Len(AdviceSlots) = Len(AdviceComs)
    BY <1>2 DEF ReadsSome, Matches
  <2> QED  BY <1>1, <1>2, <2>1, <2>2 DEF NextInProof, W2
<1>4. Take(<<>>, PermutedSlots, BetaGamma, "products")
  BY DEF ReadPermuted, BetaGamma
<1>5. Taken(AdviceSlots, PermutedSlots, PermutedComs, <<>>, BetaGamma, "products")
  BY ONLY <1>3, <1>4, TakesNext DEF Taking
<1>6. T1 \o <<>> = T1 /\ T2 \o <<>> = T2
  BY <1>2, EmptyConcat
<1>7. VerifierMoves("products", T2, S2)
  BY <1>1, <1>5, <1>6 DEF VerifierMoves, ReadingStage, Taken, T2, S2
<1> QED  BY <1>7, VerifierAdvances

LEMMA ReadProductsKeeps ==
    ASSUME ShapesSupported, IInv, ReadProducts
    PROVE  IInv'
<1>1. /\ Supported(shape) /\ at["prover"] = "done" /\ claims = <<>> /\ proof = W6
      /\ absorbed["verifier"] = T2 /\ slots = S2
      /\ UNCHANGED <<shape, proof, opened, claims>>
  BY VerifierStarts DEF IInv, VerifierInv, VerifierAt, ReadProducts
<1>2. /\ ReadsSome(S2, W2) /\ Begins(W3, W6) /\ W6 \in Seq(Items)
      /\ T2 \in Seq(Items) /\ T3 \in Seq(Items)
  BY <1>1, SlotsRead, Transcripts DEF ReadsSome
<1>3. NextInProof(S2, W2, ProductSlots, ProductComs)
  <2>1. /\ ProductSlots \in Seq(SlotSet) /\ ProductComs \in Seq(Items)
        /\ Len(ProductSlots) = Len(ProductComs)
    BY <1>1, ProductReads DEF Reads, Matches
  <2>2. /\ S2 \in Seq(SlotSet) /\ W2 \in Seq(Items) /\ Len(S2) = Len(W2)
    BY <1>2 DEF ReadsSome, Matches
  <2> QED  BY <1>1, <1>2, <2>1, <2>2 DEF NextInProof, W3
<1>4. Take(<<>>, ProductSlots, <<Challenge("y", 0)>>, "quotient")
  BY DEF ReadProducts
<1>5. Taken(S2, ProductSlots, ProductComs, <<>>, <<Challenge("y", 0)>>, "quotient")
  BY ONLY <1>3, <1>4, TakesNext DEF Taking
<1>6. T2 \o <<>> = T2 /\ T3 \o <<>> = T3
  BY <1>2, EmptyConcat
<1>7. VerifierMoves("quotient", T3, S3)
  BY <1>1, <1>5, <1>6 DEF VerifierMoves, ReadingStage, Taken, T3, S3
<1> QED  BY <1>7, VerifierAdvances

LEMMA ReadQuotientKeeps ==
    ASSUME ShapesSupported, IInv, ReadQuotient
    PROVE  IInv'
<1>1. /\ Supported(shape) /\ at["prover"] = "done" /\ claims = <<>> /\ proof = W6
      /\ absorbed["verifier"] = T3 /\ slots = S3
      /\ UNCHANGED <<shape, proof, opened, claims>>
  BY VerifierStarts DEF IInv, VerifierInv, VerifierAt, ReadQuotient
<1>2. /\ ReadsSome(S3, W3) /\ Begins(W4, W6) /\ W6 \in Seq(Items)
      /\ T3 \in Seq(Items) /\ T4 \in Seq(Items)
  BY <1>1, SlotsRead, Transcripts DEF ReadsSome
<1>3. NextInProof(S3, W3, QuotientSlots, QuotientComs)
  <2>1. /\ QuotientSlots \in Seq(SlotSet) /\ QuotientComs \in Seq(Items)
        /\ Len(QuotientSlots) = Len(QuotientComs)
    BY <1>1, QuotientReads DEF Reads, Matches
  <2>2. /\ S3 \in Seq(SlotSet) /\ W3 \in Seq(Items) /\ Len(S3) = Len(W3)
    BY <1>2 DEF ReadsSome, Matches
  <2> QED  BY <1>1, <1>2, <2>1, <2>2 DEF NextInProof, W4
<1>4. Take(<<>>, QuotientSlots, <<Challenge("x", 0)>>, "evaluate")
  BY DEF ReadQuotient
<1>5. Taken(S3, QuotientSlots, QuotientComs, <<>>, <<Challenge("x", 0)>>, "evaluate")
  BY ONLY <1>3, <1>4, TakesNext DEF Taking
<1>6. T3 \o <<>> = T3 /\ T4 \o <<>> = T4
  BY <1>2, EmptyConcat
<1>7. VerifierMoves("evaluate", T4, S4)
  BY <1>1, <1>5, <1>6 DEF VerifierMoves, ReadingStage, Taken, T4, S4
<1> QED  BY <1>7, VerifierAdvances

LEMMA ReadEvaluationsKeeps ==
    ASSUME ShapesSupported, IInv, ReadEvaluations
    PROVE  IInv'
<1>1. /\ Supported(shape) /\ at["prover"] = "done" /\ claims = <<>> /\ proof = W6
      /\ absorbed["verifier"] = T4 /\ slots = S4
      /\ UNCHANGED <<shape, proof, opened, claims>>
  BY VerifierStarts DEF IInv, VerifierInv, VerifierAt, ReadEvaluations
<1>2. /\ ReadsSome(S4, W4) /\ Begins(W5, W6) /\ W6 \in Seq(Items)
      /\ T4 \in Seq(Items) /\ T5 \in Seq(Items)
  BY <1>1, SlotsRead, Transcripts DEF ReadsSome
<1>3. NextInProof(S4, W4, EvaluationSlots, Evals)
  <2>1. /\ EvaluationSlots \in Seq(SlotSet) /\ Evals \in Seq(Items)
        /\ Len(EvaluationSlots) = Len(Evals)
    BY <1>1, EvaluationsWritten DEF Reads, Matches
  <2>2. /\ S4 \in Seq(SlotSet) /\ W4 \in Seq(Items) /\ Len(S4) = Len(W4)
    BY <1>2 DEF ReadsSome, Matches
  <2> QED  BY <1>1, <1>2, <2>1, <2>2 DEF NextInProof, W5
<1>4. Take(<<>>, EvaluationSlots, <<>>, "open")
  BY DEF ReadEvaluations
<1>5. Taken(S4, EvaluationSlots, Evals, <<>>, <<>>, "open")
  BY ONLY <1>3, <1>4, TakesNext DEF Taking
<1>6. T4 \o <<>> = T4 /\ T5 \o <<>> = T5
  BY <1>2, EmptyConcat
<1>7. VerifierMoves("open", T5, S5)
  BY <1>1, <1>5, <1>6 DEF VerifierMoves, ReadingStage, Taken, T5, S5
<1> QED  BY <1>7, VerifierAdvances

(* ---------------------------------- the openings ------------------------------ *)

\* Every slot that is filled holds what it means, and the evaluations are all read.
HoldsMeanings ==
    /\ slots \in Seq(SlotSet)
    /\ \A k \in 1..Len(slots) : proof[k] = Meaning(slots[k])
    /\ Range(S5) \subseteq Range(slots)

\* The place that a slot is looked up at.
LEMMA SlotLookup ==
    ASSUME HoldsMeanings, NEW x \in Range(S5)
    PROVE  proof[CHOOSE k \in DOMAIN slots : slots[k] = x] = Meaning(x)
<1>1. DOMAIN slots = 1..Len(slots)
  BY DEF HoldsMeanings
<1>2. \E k \in DOMAIN slots : slots[k] = x
  BY DEF HoldsMeanings, Range
<1> DEFINE k == CHOOSE k \in DOMAIN slots : slots[k] = x
<1>3. k \in DOMAIN slots /\ slots[k] = x
  BY <1>2
<1> HIDE DEF k
<1>4. proof[k] = Meaning(slots[k])
  BY <1>1, <1>3 DEF HoldsMeanings
<1> QED  BY <1>3, <1>4 DEF k

\* Whatever a claim looks up is what its slot means.
LEMMA HeldMeans ==
    ASSUME Supported(shape), HoldsMeanings, NEW x \in Known
    PROVE  Held(x) = Meaning(x)
<1>1. CASE x.of \in {"fixed", "sigma", "instance"}
  <2>1. Held(x) = Com(x.of, x.i)
    BY <1>1 DEF Held
  <2>2. x.of \in NamedSlots
    BY <1>1 DEF NamedSlots
  <2>3. x.of # "h1" /\ x.of # "h2" /\ x.of \notin EvalLabels
    BY <1>1 DEF EvalLabels
  <2>4. Meaning(x) = Com(x.of, x.i)
    BY <2>2, <2>3 DEF Meaning
  <2> QED  BY <2>1, <2>4
<1>2. CASE x = Slot("h", 0)
  <2>1. x.of = "h" /\ x.i = 0
    BY <1>2 DEF Slot
  <2>2. \A p \in 1..Pieces : Slot("h", p) \in Range(S5)
    BY SlotsRead, QuotientReads
  <2>3. \A p \in 1..Pieces : Meaning(Slot("h", p)) = Com("h", p)
    BY Meanings DEF NamedSlots
  <2>4. \A p \in 1..Pieces : Com("h", p) = proof[CHOOSE k \in DOMAIN slots :
                                                     slots[k] = Slot("h", p)]
    BY <2>2, <2>3, SlotLookup
  <2>5. Held(x) = Com("h", 0)
    BY <1>2, <2>1, <2>4 DEF Held
  <2>6. Meaning(x) = Com("h", 0)
    BY <1>2, Meanings DEF NamedSlots
  <2> QED  BY <2>5, <2>6
<1>3. CASE x.of = "expected_h_eval"
  <2>1. x # Slot("h", 0)
    BY <1>3 DEF Slot
  <2>2. Held(x) = Eval(Com("h", 0), 0)
    BY <1>3, <2>1 DEF Held
  <2>3. OpeningOf(x) = Opening("h", 0, 0)
    BY <1>3 DEF OpeningOf
  <2>4. Meaning(x) = Eval(OpeningOf(x).com, OpeningOf(x).at)
    BY <1>3 DEF Meaning, NamedSlots, EvalLabels
  <2>5. Opening("h", 0, 0).com = Com("h", 0) /\ Opening("h", 0, 0).at = 0
    BY DEF Opening
  <2> QED  BY <2>2, <2>3, <2>4, <2>5
<1>4. CASE /\ x.of \notin {"fixed", "sigma", "instance"} /\ x # Slot("h", 0)
           /\ x.of # "expected_h_eval"
  <2>1. x \notin SlotsOf({"instance", "fixed", "sigma"}) /\ x # Slot("expected_h_eval", 0)
    BY <1>4 DEF SlotsOf, Slot
  <2>2. x \in Range(S5)
    BY <1>4, <2>1 DEF Known
  <2>3. Held(x) = proof[CHOOSE k \in DOMAIN slots : slots[k] = x]
    BY <1>4 DEF Held
  <2> QED  BY <2>2, <2>3, SlotLookup
<1> QED  BY <1>1, <1>2, <1>3, <1>4

\* The claims say what the openings say, one for one.
LEMMA ClaimsAreOpenings ==
    ASSUME Supported(shape), HoldsMeanings
    PROVE  /\ Claims \in Seq(ClaimSet) /\ Openings \in Seq(Made) /\ Len(Claims) = Len(Openings)
           /\ \A k \in 1..Len(Claims) :
                  /\ Held(Claims[k].com) = Openings[k].com
                  /\ Claims[k].at = Openings[k].at
                  /\ Held(Claims[k].eval) = Eval(Openings[k].com, Openings[k].at)
<1>1. /\ Claims \in Seq(ClaimSet) /\ Openings \in Seq(Made) /\ Len(Claims) = Len(Openings)
      /\ \A k \in 1..Len(Claims) : <<Claims[k], Openings[k]>> \in AgreeAs
  BY ClaimsAgree DEF Agree, Matches
<1>2. ASSUME NEW k \in 1..Len(Claims)
      PROVE  /\ Held(Claims[k].com) = Openings[k].com
             /\ Claims[k].at = Openings[k].at
             /\ Held(Claims[k].eval) = Eval(Openings[k].com, Openings[k].at)
  <2> DEFINE c == Claims[k]
             o == Openings[k]
  <2>1. <<c, o>> \in AgreeAs
    BY <1>1
  <2> HIDE DEF c, o
  <2>2. /\ c \in ClaimSet /\ Meaning(c.com) = o.com /\ c.at = o.at
        /\ Meaning(c.eval) = Eval(o.com, o.at)
    BY <2>1 DEF AgreeAs
  <2>3. c.com \in Known /\ c.eval \in Known
    BY <2>2 DEF ClaimSet
  <2>4. Held(c.com) = Meaning(c.com) /\ Held(c.eval) = Meaning(c.eval)
    BY <2>3, HeldMeans
  <2> QED  BY <2>2, <2>4 DEF c, o
<1> QED  BY <1>1, <1>2

\* Once the evaluations are read, every slot holds its meaning.
LEMMA SlotsHold ==
    ASSUME Supported(shape), proof = W6, slots = S5 \/ slots = S6
    PROVE  HoldsMeanings
<1>1. /\ ReadsSome(S5, W5) /\ ReadsSome(S6, W6) /\ Begins(W5, W6)
      /\ Range(S5) \subseteq Range(S6)
  BY SlotsRead
<1>2. /\ S5 \in Seq(SlotSet) /\ S6 \in Seq(SlotSet)
      /\ \A k \in 1..Len(S5) : W5[k] = Meaning(S5[k])
      /\ \A k \in 1..Len(S6) : W6[k] = Meaning(S6[k])
      /\ Len(S5) = Len(W5)
  BY <1>1 DEF ReadsSome, Matches, ReadAs
<1>3. \A k \in 1..Len(S5) : W6[k] = Meaning(S5[k])
  BY <1>1, <1>2 DEF Begins
<1> QED  BY <1>1, <1>2, <1>3 DEF HoldsMeanings

\* The verifier finds the two last commitments, and every check succeeds.
LEMMA VerifyOpeningsKeeps ==
    ASSUME ShapesSupported, IInv, VerifyOpenings
    PROVE  IInv'
<1>1. /\ Supported(shape) /\ at["prover"] = "done" /\ at["verifier"] = "open" /\ proof = W6
      /\ absorbed["verifier"] = T5 /\ slots = S5 /\ absorbed["prover"] = T6 /\ opened = Openings
      /\ UNCHANGED <<shape, proof, opened>> /\ claims' = Claims
  BY VerifierStarts DEF IInv, VerifierInv, VerifierAt, VerifyOpenings
<1>2. /\ S5 \in Seq(SlotSet) /\ W5 \in Seq(Items) /\ Len(S5) = Len(W5)
  BY <1>1, SlotsRead DEF ReadsSome, Matches
<1>3. /\ Len(W6) = Len(S5) + 2 /\ Len(S5) \in Nat
      /\ W6[Len(S5) + 1] = Com("shplonk_h", 0) /\ W6[Len(S5) + 2] = Com("shplonk_final", 0)
  <2> DEFINE a == Com("shplonk_h", 0)
             b == Com("shplonk_final", 0)
  <2>1. a \in Items /\ b \in Items /\ W6 = W5 \o <<a, b>>
    BY NamedRead DEF W6, FinalComs
  <2> HIDE DEF a, b
  <2>2. Len(W6) = Len(W5) + 2 /\ W6[Len(W5) + 1] = a /\ W6[Len(W5) + 2] = b
    BY <1>2, <2>1
  <2> QED  BY <1>2, <2>2 DEF a, b
<1>4. ~(Len(slots) + 2 > Len(proof))
  BY <1>1, <1>3
<1>5. /\ slots' = S6
      /\ absorbed' = [absorbed EXCEPT !["verifier"] = T6]
      /\ at' = [at EXCEPT !["verifier"] = IF Convinced THEN "accepted" ELSE "rejected"]
  BY <1>1, <1>3, <1>4 DEF VerifyOpenings, S6, T6, FinalSlots, Multiopening
<1>6. /\ absorbed'["verifier"] = T6 /\ absorbed'["prover"] = T6
      /\ DOMAIN absorbed' = {"prover", "verifier"}
      /\ absorbed' = [side \in {"prover", "verifier"} |-> absorbed'[side]]
  BY <1>1, <1>5 DEF IInv, SidesInv
<1>7. Convinced
  <2>1. HoldsMeanings
    BY <1>1, SlotsHold
  <2>2. /\ Claims \in Seq(ClaimSet) /\ Openings \in Seq(Made) /\ Len(Claims) = Len(Openings)
        /\ \A k \in 1..Len(Claims) :
               /\ Held(Claims[k].com) = Openings[k].com
               /\ Claims[k].at = Openings[k].at
               /\ Held(Claims[k].eval) = Eval(Openings[k].com, Openings[k].at)
    BY <1>1, <2>1, ClaimsAreOpenings
  <2>3. \A o \in Made : o = [com |-> o.com, at |-> o.at]
    <3>1. \A o \in OpeningSet : o = [com |-> o.com, at |-> o.at]
      BY DEF OpeningSet, Opening
    <3>2. Made \subseteq OpeningSet
      <4>1. Opening("h", 0, 0) \in OpeningSet
        BY OpeningIs, RotationsAre DEF Labels
      <4>2. Evaluations \in Seq(OpeningSet)
        BY <1>1, EvaluationReads
      <4>3. Range(Evaluations) \subseteq OpeningSet
        BY <4>2 DEF Range
      <4> QED  BY <4>1, <4>3 DEF Made
    <3> QED  BY <3>1, <3>2
  <2>4. \A k \in 1..Len(Claims) :
            [com |-> Held(Claims[k].com), at |-> Claims[k].at] = Openings[k]
    BY <2>2, <2>3
  <2>5. DOMAIN Claims = 1..Len(Claims) /\ Openings = [k \in 1..Len(Claims) |-> Openings[k]]
    BY <2>2
  <2>6. [k \in DOMAIN Claims |-> [com |-> Held(Claims[k].com), at |-> Claims[k].at]] = Openings
    BY <2>4, <2>5
  <2>7. \A k \in DOMAIN Claims :
            Held(Claims[k].eval) = Eval(Held(Claims[k].com), Claims[k].at)
    BY <2>2, <2>5
  <2> QED  BY <1>1, <1>6, <2>6, <2>7 DEF Convinced
<1>8. at'["verifier"] = "accepted" /\ at'["prover"] = "done"
  BY <1>1, <1>5, <1>7 DEF IInv, SidesInv
<1>9. SidesInv'
  BY <1>1, <1>5, <1>6, <1>7, <1>8 DEF IInv, SidesInv, Before
<1>10. OrderInv'
  BY <1>1, <1>8, CircuitKept DEF IInv, OrderInv, Before
<1>11. ProverInv'
  BY <1>1, <1>6, <1>8, CircuitKept DEF ProverInv, ProverAt
<1>12. VerifierInv'
  BY <1>1, <1>5, <1>6, <1>8, CircuitKept DEF VerifierInv, VerifierAt
<1> QED  BY <1>9, <1>10, <1>11, <1>12 DEF IInv

(* --------------------------------- the theorems ------------------------------- *)

LEMMA StartsWell ==
    ASSUME Init
    PROVE  IInv
<1>1. /\ at["prover"] = "synthesize" /\ at["verifier"] = "waiting"
      /\ absorbed["prover"] = <<>> /\ absorbed["verifier"] = <<>>
      /\ proof = <<>> /\ slots = <<>> /\ opened = <<>> /\ claims = <<>> /\ shape \in Shapes
  BY DEF Init
<1>2. SidesInv
  BY <1>1 DEF Init, SidesInv, Before
<1>3. OrderInv
  BY <1>1 DEF OrderInv, Before
<1>4. ProverInv
  BY <1>1 DEF ProverInv, ProverAt
<1>5. VerifierInv
  BY <1>1 DEF VerifierInv, VerifierAt
<1> QED  BY <1>2, <1>3, <1>4, <1>5 DEF IInv

LEMMA StepsKeep ==
    ASSUME ShapesSupported, IInv, [Next]_vars
    PROVE  IInv'
<1>1. CASE ProverStep
  BY <1>1, SynthesizeKeeps, CommitAdviceKeeps, CommitPermutedKeeps, CommitProductsKeeps,
     CommitQuotientKeeps, EvaluateKeeps, OpenKeeps DEF ProverStep
<1>2. CASE VerifierStep
  BY <1>2, AbsorbInstancesKeeps, ReadAdviceKeeps, ReadPermutedKeeps, ReadProductsKeeps,
     ReadQuotientKeeps, ReadEvaluationsKeeps, VerifyOpeningsKeeps DEF VerifierStep
<1>3. CASE UNCHANGED vars
  <2>1. UNCHANGED <<shape, at, absorbed, proof, slots, opened, claims>>
    BY <1>3 DEF vars
  <2>2. SidesInv' /\ OrderInv'
    BY <2>1, CircuitKept DEF IInv, SidesInv, OrderInv
  <2>3. ProverInv' /\ VerifierInv'
    BY <2>1, CircuitKept DEF IInv, ProverInv, ProverAt, VerifierInv, VerifierAt
  <2> QED  BY <2>2, <2>3 DEF IInv
<1> QED  BY <1>1, <1>2, <1>3 DEF Next, Done

\* For every circuit both sides are made for, whatever its number of columns, queries,
\* lookups and sets, each phase of create_proof and of verify_proof finds the
\* transcript, the proof and the slots as the phases before have put them together.
THEOREM Invariance ==
    ASSUME ShapesSupported
    PROVE  Spec => []IInv
<1>1. Init => IInv
  BY StartsWell
<1>2. IInv /\ [Next]_vars => IInv'
  BY StepsKeep
<1> QED  BY <1>1, <1>2, PTL DEF Spec

\* What the verifier has read is a beginning of what is written, and what it has
\* absorbed one of what the prover absorbs.
LEMMA BothSides ==
    ASSUME ShapesSupported, IInv
    PROVE  /\ Supported(shape)
           /\ \E w \in Seq(Items) : ReadsSome(slots, w) /\ Begins(w, proof)
           /\ absorbed["prover"] \in Seq(Items) /\ absorbed["verifier"] \in Seq(Items)
           /\ Begins(absorbed["verifier"], absorbed["prover"])
           /\ proof \in Seq(Items) /\ Begins(proof, W6) /\ ReadsSome(S6, W6)
<1>1. Supported(shape)
  BY DEF IInv, SidesInv, ShapesSupported
<1>2. /\ ReadsSome(AdviceSlots, AdviceComs) /\ ReadsSome(S2, W2) /\ ReadsSome(S3, W3)
      /\ ReadsSome(S4, W4) /\ ReadsSome(S5, W5) /\ ReadsSome(S6, W6)
      /\ Begins(AdviceComs, W6) /\ Begins(W2, W6) /\ Begins(W3, W6) /\ Begins(W4, W6)
      /\ Begins(W5, W6) /\ Begins(<<>>, W6)
  BY <1>1, SlotsRead
<1>3. /\ AdviceComs \in Seq(Items) /\ W2 \in Seq(Items) /\ W3 \in Seq(Items)
      /\ W4 \in Seq(Items) /\ W5 \in Seq(Items) /\ W6 \in Seq(Items) /\ <<>> \in Seq(Items)
  BY <1>2 DEF ReadsSome
<1>4. /\ Statement \in Seq(Items) /\ T1 \in Seq(Items) /\ T2 \in Seq(Items)
      /\ T3 \in Seq(Items) /\ T4 \in Seq(Items) /\ T5 \in Seq(Items) /\ T6 \in Seq(Items)
  BY <1>1, Transcripts, StatementPart
<1>5. /\ Begins(Statement, T6) /\ Begins(T1, T6) /\ Begins(T2, T6) /\ Begins(T3, T6)
      /\ Begins(T4, T6) /\ Begins(T5, T6) /\ Begins(<<>>, T6)
  BY <1>1, Beginnings
<1>6. Begins(T6, T6) /\ Begins(W6, W6)
  BY <1>3, <1>4 DEF Begins
<1>7. ReadsSome(<<>>, <<>>)
  BY DEF ReadsSome, Matches, Distinct
<1>8. /\ proof \in Seq(Items) /\ Begins(proof, W6) /\ absorbed["prover"] \in Seq(Items)
  BY <1>2, <1>3, <1>4, <1>6 DEF IInv, SidesInv, ProverInv, ProverAt, Before
<1>9. CASE at["prover"] # "done"
  <2>1. absorbed["verifier"] = <<>> /\ slots = <<>>
    BY <1>9 DEF IInv, OrderInv, VerifierInv, VerifierAt
  <2>2. Begins(<<>>, proof) /\ Begins(<<>>, absorbed["prover"])
    BY <1>8 DEF Begins
  <2> QED  BY <1>1, <1>2, <1>3, <1>7, <1>8, <2>1, <2>2
<1>10. CASE at["prover"] = "done"
  <2>1. absorbed["prover"] = T6 /\ proof = W6
    BY <1>10 DEF IInv, ProverInv, ProverAt
  <2>2. absorbed["verifier"] \in Seq(Items) /\ Begins(absorbed["verifier"], T6)
    BY <1>3, <1>4, <1>5, <1>6 DEF IInv, SidesInv, VerifierInv, VerifierAt, Before
  <2>3. \E w \in Seq(Items) : ReadsSome(slots, w) /\ Begins(w, W6)
    BY <1>2, <1>3, <1>6, <1>7 DEF IInv, SidesInv, VerifierInv, VerifierAt, Before
  <2> QED  BY <1>1, <1>2, <1>8, <2>1, <2>2, <2>3
<1> QED  BY <1>9, <1>10

\* Whatever fills a slot is a commitment or an evaluation.
LEMMA WrittenValues ==
    ASSUME NEW s \in SlotSet
    PROVE  Meaning(s).is \in {"com", "eval"}
<1>1. PICK of \in SlotLabels, i \in Nat : s = Slot(of, i)
  BY DEF SlotSet, SlotsOf
<1>2. \A o, j : Com(o, j).is = "com"
  BY DEF Com
<1>3. \A c, r : Eval(c, r).is = "eval"
  BY DEF Eval
<1>4. CASE of \in NamedSlots
  BY <1>1, <1>2, <1>4, Meanings
<1>5. CASE of \in {"h1", "h2"}
  BY <1>1, <1>2, <1>5, Meanings
<1>6. CASE of \in EvalLabels
  BY <1>1, <1>3, <1>6, Meanings
<1> QED  BY <1>1, <1>4, <1>5, <1>6 DEF SlotLabels

\* The proof consists of commitments and evaluations, no slot is filled twice nor
\* beyond the proof, and the claims are as many as the openings.
THEOREM TypeCorrect ==
    ASSUME ShapesSupported
    PROVE  Spec => []TypeOK
<1>1. ASSUME IInv PROVE TypeOK
  <2>1. PICK w \in Seq(Items) : ReadsSome(slots, w) /\ Begins(w, proof)
    BY <1>1, BothSides
  <2>2. /\ Supported(shape) /\ proof \in Seq(Items) /\ Begins(proof, W6) /\ ReadsSome(S6, W6)
    BY <1>1, BothSides
  <2>3. \A k \in DOMAIN proof : proof[k].is \in {"com", "eval"}
    <3> TAKE k \in DOMAIN proof
    <3>1. k \in 1..Len(S6) /\ proof[k] = W6[k]
      BY <2>2 DEF Begins, ReadsSome, Matches
    <3>2. S6[k] \in SlotSet /\ W6[k] = Meaning(S6[k])
      BY <2>2, <3>1 DEF ReadsSome, Matches, ReadAs
    <3> QED  BY <3>1, <3>2, WrittenValues
  <2>4. Len(slots) <= Len(proof)
    BY <2>1 DEF ReadsSome, Matches, Begins
  <2>5. \A j, k \in DOMAIN slots : slots[j] = slots[k] => j = k
    BY <2>1 DEF ReadsSome, Distinct
  <2>6. Len(claims) \in {0, Len(opened)}
    <3>1. CASE at["verifier"] = "accepted"
      <4>1. claims = Claims /\ opened = Openings
        BY <1>1, <3>1 DEF IInv, OrderInv
      <4> QED  BY <2>2, <4>1, ClaimsAgree DEF Agree, Matches
    <3>2. CASE at["verifier"] # "accepted"
      BY <1>1, <3>2 DEF IInv, OrderInv
    <3> QED  BY <3>1, <3>2
  <2>7. at["verifier"] # "waiting" => at["prover"] = "done"
    BY <1>1 DEF IInv, OrderInv
  <2> QED  BY <2>3, <2>4, <2>5, <2>6, <2>7 DEF TypeOK
<1> QED  BY <1>1, Invariance, PTL

\* What verify_proof has absorbed is always a beginning of what create_proof has: the
\* challenges of both sides are the same.
THEOREM ChallengesAgree ==
    ASSUME ShapesSupported
    PROVE  Spec => []TranscriptsAgree
<1>1. ASSUME IInv PROVE TranscriptsAgree
  <2>1. /\ absorbed["prover"] \in Seq(Items) /\ absorbed["verifier"] \in Seq(Items)
        /\ Begins(absorbed["verifier"], absorbed["prover"])
    BY <1>1, BothSides
  <2> QED  BY <2>1, BeginsIsPrefix DEF TranscriptsAgree
<1> QED  BY <1>1, Invariance, PTL

\* Every opening the verifier checks is the prover's, in the same place of the list,
\* and its evaluation the one that was written for it.
THEOREM OpeningsMatch ==
    ASSUME ShapesSupported
    PROVE  Spec => []OpeningsAgree
<1>1. ASSUME IInv PROVE OpeningsAgree
  <2>1. SUFFICES ASSUME claims # <<>> PROVE OpeningsAgree
    BY DEF OpeningsAgree
  <2>2. /\ Supported(shape) /\ claims = Claims /\ opened = Openings /\ slots = S6 /\ proof = W6
    BY <1>1, <2>1, BothSides
       DEF IInv, SidesInv, OrderInv, ProverInv, ProverAt, VerifierInv, VerifierAt
  <2>3. HoldsMeanings
    BY <2>2, SlotsHold
  <2>4. /\ Claims \in Seq(ClaimSet) /\ Len(Claims) = Len(Openings)
        /\ \A k \in 1..Len(Claims) :
               /\ Held(Claims[k].com) = Openings[k].com
               /\ Claims[k].at = Openings[k].at
               /\ Held(Claims[k].eval) = Eval(Openings[k].com, Openings[k].at)
    BY <2>2, <2>3, ClaimsAreOpenings
  <2>5. DOMAIN Claims = 1..Len(Claims)
    BY <2>4
  <2> QED  BY <2>2, <2>4, <2>5 DEF OpeningsAgree
<1> QED  BY <1>1, Invariance, PTL

\* verify_proof never rejects what create_proof has written: the safety half of
\* ProofsAreAccepted.
NeverRejected == at["verifier"] # "rejected"

THEOREM NoneRejected ==
    ASSUME ShapesSupported
    PROVE  Spec => []NeverRejected
<1>1. IInv => NeverRejected
  BY DEF IInv, SidesInv, Before, NeverRejected
<1> QED  BY <1>1, Invariance, PTL

(* ---------------------------- challenges and what they bind ------------------- *)

\* The kinds of what the parts of the transcript consist of.
Tagged(s, is, labels) == \A x \in Range(s) : x.is = is /\ x.of \in labels

LEMMA Tags ==
    /\ \A of, i : Com(of, i).is = "com" /\ Com(of, i).of = of
    /\ \A of, i : Challenge(of, i).is = "challenge" /\ Challenge(of, i).of = of
    /\ \A c, r : Eval(c, r).is = "eval"
    /\ \A i, r : Value(i, r).is = "value"
  BY DEF Com, Challenge, Eval, Value

LEMMA Segments ==
    ASSUME Supported(shape)
    PROVE  /\ \A x \in Range(Statement) : \/ x.is = "com" /\ x.of \in {"vk", "instance"}
                                          \/ x.is = "value"
           /\ Tagged(AdviceComs, "com", {"advice"})
           /\ Tagged(Theta, "challenge", {"phase", "theta"})
           /\ Tagged(PermutedComs, "com", {"permutedInput", "permutedTable"})
           /\ Tagged(BetaGamma, "challenge", {"beta", "gamma"})
           /\ Tagged(ProductComs, "com", {"permutationProduct", "lookupProduct", "random"})
           /\ Tagged(<<Challenge("y", 0)>>, "challenge", {"y"})
           /\ Tagged(QuotientComs, "com", {"h"})
           /\ Tagged(<<Challenge("x", 0)>>, "challenge", {"x"})
           /\ \A x \in Range(Evals) : x.is = "eval"
           /\ \A x \in Range(Multiopening) :
                  \/ x.is = "com" /\ x.of \in {"shplonk_h", "shplonk_final"}
                  \/ x.is = "challenge" /\ x.of \in {"shplonk_y", "v", "u"}
<1>1. \A x \in Range(Statement) : \/ x.is = "com" /\ x.of \in {"vk", "instance"}
                                  \/ x.is = "value"
  BY StatementPart, Tags DEF Values
<1>2. Tagged(AdviceComs, "com", {"advice"})
  BY AdvicePart, Tags DEF Tagged
<1>3. Tagged(Theta, "challenge", {"phase", "theta"})
  <2> DEFINE d == Challenge("theta", 0)
  <2>1. /\ ChallengesOf({0}) \in Seq(Items) /\ <<d>> \in Seq(Items)
        /\ Range(ChallengesOf({0})) \subseteq {Challenge("phase", i) : i \in Nat}
    BY ChallengesPart, DrawnPart DEF Draws
  <2>2. Theta = ChallengesOf({0}) \o <<d>>
    BY DEF Theta
  <2> HIDE DEF d
  <2>3. Range(Theta) = Range(ChallengesOf({0})) \cup {d}
    <3>1. Range(<<d>>) = {d}
      BY SingleRange
    <3>2. Range(ChallengesOf({0}) \o <<d>>) = Range(ChallengesOf({0})) \cup Range(<<d>>)
      BY ONLY <2>1, ConcatRange, ZenonT(30)
    <3> QED  BY <2>2, <3>1, <3>2
  <2> QED  BY <2>1, <2>3, Tags DEF Tagged, d
<1>4. Tagged(PermutedComs, "com", {"permutedInput", "permutedTable"})
  BY PermutedPart, Tags DEF Tagged
<1>5. Tagged(BetaGamma, "challenge", {"beta", "gamma"})
  BY PairRange, Tags DEF Tagged, BetaGamma
<1>6. Tagged(ProductComs, "com", {"permutationProduct", "lookupProduct", "random"})
  BY ProductReads, Tags DEF Tagged
<1>7. Tagged(<<Challenge("y", 0)>>, "challenge", {"y"})
  BY SingleRange, Tags DEF Tagged
<1>8. Tagged(QuotientComs, "com", {"h"})
  BY QuotientReads, Tags DEF Tagged
<1>9. Tagged(<<Challenge("x", 0)>>, "challenge", {"x"})
  BY SingleRange, Tags DEF Tagged
<1>10. \A x \in Range(Evals) : x.is = "eval"
  BY EvaluationsWritten, Tags
<1>11. \A x \in Range(Multiopening) :
           \/ x.is = "com" /\ x.of \in {"shplonk_h", "shplonk_final"}
           \/ x.is = "challenge" /\ x.of \in {"shplonk_y", "v", "u"}
  BY FiveRange, Tags DEF Multiopening
<1> QED  BY <1>1, <1>2, <1>3, <1>4, <1>5, <1>6, <1>7, <1>8, <1>9, <1>10, <1>11

\* v occurs in s at the first n places only.
Within(v, n, s) == \A k \in 1..Len(s) : s[k] = v => k <= n

Extends(v, n, s, t) ==
    /\ s \in Seq(Items) /\ t \in Seq(Items) /\ Within(v, n, s) /\ v \notin Range(t)

LEMMA StaysWithin ==
    ASSUME NEW v, NEW n, NEW s, NEW t, Extends(v, n, s, t)
    PROVE  Within(v, n, s \o t)
<1>1. s \in Seq(Items) /\ t \in Seq(Items)
  BY DEF Extends
<1>2. /\ Len(s) \in Nat /\ Len(t) \in Nat /\ Len(s \o t) = Len(s) + Len(t)
      /\ \A k \in 1..Len(t) : t[k] # v
      /\ \A k \in 1..Len(s) : s[k] = v => k <= n
  <2>1. \A k \in 1..Len(t) : t[k] # v
    BY <1>1 DEF Extends, Range
  <2> QED  BY <1>1, <2>1 DEF Extends, Within
<1>3. ASSUME NEW k \in 1..Len(s \o t), (s \o t)[k] = v PROVE k <= n
  <2>1. CASE k <= Len(s)
    <3>1. (s \o t)[k] = s[k] /\ k \in 1..Len(s)
      BY <1>1, <1>2, <2>1
    <3> QED  BY <1>2, <1>3, <3>1
  <2>2. CASE k > Len(s)
    <3>1. (s \o t)[k] = t[k - Len(s)] /\ k - Len(s) \in 1..Len(t)
      BY <1>1, <1>2, <2>2
    <3> QED  BY <1>2, <1>3, <3>1
  <2> QED  BY <1>2, <2>1, <2>2
<1> QED  BY <1>3 DEF Within

\* What the transcript goes on with once the evaluations, the quotient, the products,
\* the permuted columns and the advice are in it.
After5 == Range(Multiopening)
After4 == After5 \cup Range(Evals) \cup Range(<<Challenge("x", 0)>>)
After3 == After4 \cup Range(QuotientComs) \cup Range(<<Challenge("y", 0)>>)
After2 == After3 \cup Range(ProductComs) \cup Range(BetaGamma)
After1 == After2 \cup Range(PermutedComs) \cup Range(Theta)

\* Each of these is settled by the parts that precede it.
LEMMA StaysInPlace ==
    ASSUME Supported(shape), NEW v, NEW n
    PROVE  /\ Within(v, n, T5) /\ v \notin After5 => Within(v, n, T6)
           /\ Within(v, n, T3 \o QuotientComs) /\ v \notin After4 => Within(v, n, T6)
           /\ Within(v, n, T2 \o ProductComs) /\ v \notin After3 => Within(v, n, T6)
           /\ Within(v, n, T1 \o PermutedComs) /\ v \notin After2 => Within(v, n, T6)
           /\ Within(v, n, Statement \o AdviceComs) /\ v \notin After1 => Within(v, n, T6)
<1>1. /\ Statement \in Seq(Items) /\ AdviceComs \in Seq(Items) /\ Theta \in Seq(Items)
      /\ T1 \in Seq(Items) /\ T2 \in Seq(Items) /\ T3 \in Seq(Items)
      /\ T4 \in Seq(Items) /\ T5 \in Seq(Items)
      /\ PermutedComs \in Seq(Items) /\ ProductComs \in Seq(Items) /\ QuotientComs \in Seq(Items)
      /\ Evals \in Seq(Items) /\ Multiopening \in Seq(Items) /\ BetaGamma \in Seq(Items)
      /\ <<Challenge("y", 0)>> \in Seq(Items) /\ <<Challenge("x", 0)>> \in Seq(Items)
  BY Transcripts, StatementPart, AdvicePart, PermutedPart, ProductReads, QuotientReads,
     EvaluationsWritten, DrawnPart DEF Draws
<1>2. /\ Statement \o AdviceComs \in Seq(Items) /\ T1 \o PermutedComs \in Seq(Items)
      /\ T2 \o ProductComs \in Seq(Items) /\ T3 \o QuotientComs \in Seq(Items)
  BY <1>1
<1>3. Within(v, n, T5) /\ v \notin After5 => Within(v, n, T6)
  BY <1>1, StaysWithin DEF Extends, After5, T6
<1>4. Within(v, n, T3 \o QuotientComs) /\ v \notin After4 => Within(v, n, T6)
  <2> SUFFICES ASSUME Within(v, n, T3 \o QuotientComs), v \notin After4 PROVE Within(v, n, T6)
    OBVIOUS
  <2>1. Within(v, n, T4)
    BY <1>1, <1>2, StaysWithin DEF Extends, After4, T4
  <2>2. Within(v, n, T5)
    BY <1>1, <2>1, StaysWithin DEF Extends, After4, T5
  <2> QED  BY <1>3, <2>2 DEF After4
<1>5. Within(v, n, T2 \o ProductComs) /\ v \notin After3 => Within(v, n, T6)
  <2> SUFFICES ASSUME Within(v, n, T2 \o ProductComs), v \notin After3 PROVE Within(v, n, T6)
    OBVIOUS
  <2>1. Within(v, n, T3)
    BY <1>1, <1>2, StaysWithin DEF Extends, After3, T3
  <2>2. Within(v, n, T3 \o QuotientComs)
    BY <1>1, <2>1, StaysWithin DEF Extends, After3
  <2> QED  BY <1>4, <2>2 DEF After3
<1>6. Within(v, n, T1 \o PermutedComs) /\ v \notin After2 => Within(v, n, T6)
  <2> SUFFICES ASSUME Within(v, n, T1 \o PermutedComs), v \notin After2 PROVE Within(v, n, T6)
    OBVIOUS
  <2>1. Within(v, n, T2)
    BY <1>1, <1>2, StaysWithin DEF Extends, After2, T2
  <2>2. Within(v, n, T2 \o ProductComs)
    BY <1>1, <2>1, StaysWithin DEF Extends, After2
  <2> QED  BY <1>5, <2>2 DEF After2
<1>7. Within(v, n, Statement \o AdviceComs) /\ v \notin After1 => Within(v, n, T6)
  <2> SUFFICES ASSUME Within(v, n, Statement \o AdviceComs), v \notin After1
               PROVE  Within(v, n, T6)
    OBVIOUS
  <2>1. Within(v, n, T1)
    BY <1>1, <1>2, StaysWithin DEF Extends, After1, T1
  <2>2. Within(v, n, T1 \o PermutedComs)
    BY <1>1, <2>1, StaysWithin DEF Extends, After1
  <2> QED  BY <1>6, <2>2 DEF After1
<1> QED  BY <1>3, <1>4, <1>5, <1>6, <1>7

\* A value that occurs in a beginning of the transcript alone precedes a challenge that
\* does not occur in it.
Precedes(v, a, drawn) ==
    /\ a \in Seq(Items) /\ Begins(a, T6) /\ T6 \in Seq(Items) /\ absorbed["prover"] = T6
    /\ v \in Range(a) /\ Within(v, Len(a), T6) /\ drawn \notin Range(a)

LEMMA DrawnAfter ==
    ASSUME NEW v, NEW a, NEW drawn, Precedes(v, a, drawn)
    PROVE  Position(v) < Position(drawn)
<1> DEFINE n == Len(a)
<1>1. /\ a \in Seq(Items) /\ T6 \in Seq(Items) /\ absorbed["prover"] = T6 /\ Begins(a, T6)
      /\ v \in Range(a) /\ Within(v, n, T6) /\ drawn \notin Range(a)
  BY DEF Precedes
<1>2. /\ n \in Nat /\ Len(T6) \in Nat /\ n <= Len(T6) /\ DOMAIN T6 = 1..Len(T6)
      /\ \A k \in 1..n : T6[k] = a[k]
  BY <1>1 DEF Begins
<1>3. PICK j \in 1..n : a[j] = v
  BY <1>1 DEF Range
<1>4. j \in DOMAIN T6 /\ T6[j] = v
  BY <1>2, <1>3
<1>5. Position(v) \in Nat /\ Position(v) <= n
  <2> DEFINE p == CHOOSE k \in DOMAIN T6 : T6[k] = v
  <2>1. Position(v) = p
    BY <1>1, <1>4 DEF Position
  <2>2. p \in DOMAIN T6 /\ T6[p] = v
    BY <1>4
  <2> HIDE DEF p
  <2> QED  BY <1>1, <1>2, <2>1, <2>2 DEF Within
<1>6. \A k \in DOMAIN T6 : T6[k] = drawn => k > n
  <2> TAKE k \in DOMAIN T6
  <2>1. k <= n => a[k] \in Range(a) /\ T6[k] = a[k]
    BY <1>1, <1>2 DEF Range
  <2> QED  BY <1>1, <1>2, <2>1
<1>7. Position(drawn) > n /\ Position(drawn) \in Nat
  <2>1. CASE \E k \in DOMAIN T6 : T6[k] = drawn
    <3> DEFINE p == CHOOSE k \in DOMAIN T6 : T6[k] = drawn
    <3>1. Position(drawn) = p
      BY <1>1, <2>1 DEF Position
    <3>2. p \in DOMAIN T6 /\ T6[p] = drawn
      BY <2>1
    <3> HIDE DEF p
    <3> QED  BY <1>2, <1>6, <3>1, <3>2
  <2>2. CASE ~\E k \in DOMAIN T6 : T6[k] = drawn
    <3>1. Position(drawn) = Len(T6) + 1
      BY <1>1, <2>2 DEF Position
    <3> QED  BY <1>2, <3>1
  <2> QED  BY <2>1, <2>2
<1> QED  BY <1>2, <1>5, <1>7

LEMMA Behind ==
    ASSUME NEW S, NEW R, NEW s \in Seq(S), NEW t \in Seq(R)
    PROVE  /\ Len(s \o t) = Len(s) + Len(t)
           /\ \A k \in 1..Len(s) : (s \o t)[k] = s[k]
           /\ \A i \in 1..Len(t) : (s \o t)[Len(s) + i] = t[i]
  OBVIOUS

\* The multiopen's last challenge is drawn right behind the quotient it binds.
LEMMA LastChallenge ==
    ASSUME absorbed["prover"] = T6, T5 \in Seq(Items), T6 \in Seq(Items),
           Com("shplonk_h", 0) \notin Range(T5), Challenge("u", 0) \notin Range(T5)
    PROVE  Position(Com("shplonk_h", 0)) < Position(Challenge("u", 0))
<1> DEFINE n == Len(T5)
           M == Multiopening
<1>1. /\ n \in Nat /\ M \in Seq({M[1], M[2], M[3], M[4], M[5]}) /\ Len(M) = 5
      /\ M[3] = Com("shplonk_h", 0) /\ M[4] = Challenge("u", 0)
  BY DEF Multiopening
<1>2. /\ \A i \in 1..5 : M[i] = Com("shplonk_h", 0) => i = 3
      /\ \A i \in 1..5 : M[i] = Challenge("u", 0) => i = 4
  <2>1. /\ M[1] = Challenge("shplonk_y", 0) /\ M[2] = Challenge("v", 0)
        /\ M[5] = Com("shplonk_final", 0)
    BY DEF Multiopening
  <2> HIDE DEF M
  <2>2. \A i \in 1..5 : i = 1 \/ i = 2 \/ i = 3 \/ i = 4 \/ i = 5
    OBVIOUS
  <2> QED  BY <1>1, <2>1, <2>2 DEF Com, Challenge
<1> HIDE DEF M
<1>3. /\ T6 = T5 \o M /\ DOMAIN T6 = 1..(n + 5)
      /\ \A k \in 1..n : T6[k] = T5[k]
      /\ \A i \in 1..5 : T6[n + i] = M[i]
  <2> DEFINE W == T5 \o M
  <2>1. T6 = W
    BY DEF T6, M
  <2>2. M \in Seq({M[1], M[2], M[3], M[4], M[5]})
    BY <1>1
  <2>3. /\ Len(W) = Len(T5) + Len(M)
        /\ \A k \in 1..Len(T5) : W[k] = T5[k]
        /\ \A i \in 1..Len(M) : W[Len(T5) + i] = M[i]
    BY <2>2, Behind, SMT
  <2> HIDE DEF W
  <2>4. /\ DOMAIN T6 = 1..Len(T6) /\ Len(T6) = n + 5
        /\ \A k \in 1..n : T6[k] = T5[k]
        /\ \A i \in 1..5 : T6[n + i] = M[i]
    BY <1>1, <2>1, <2>3
  <2> QED  BY <2>1, <2>4 DEF W
<1>4. ASSUME NEW i \in 1..5, NEW v, v = M[i], v \notin Range(T5),
             \A j \in 1..5 : M[j] = v => j = i
      PROVE  Position(v) = n + i
  <2>1. n + i \in DOMAIN T6 /\ T6[n + i] = v
    BY <1>1, <1>3, <1>4
  <2>2. \A k \in DOMAIN T6 : T6[k] = v => k = n + i
    <3> TAKE k \in DOMAIN T6
    <3>1. CASE k \in 1..n
      BY <1>3, <1>4, <3>1 DEF Range
    <3>2. CASE k \notin 1..n
      <4>1. k - n \in 1..5 /\ n + (k - n) = k
        BY <1>1, <1>3, <3>2
      <4>2. T6[k] = M[k - n]
        BY <1>3, <4>1
      <4> QED  BY <1>1, <1>4, <4>1, <4>2
    <3> QED  BY <3>1, <3>2
  <2> QED  BY <2>1, <2>2 DEF Position
<1>5. Position(Com("shplonk_h", 0)) = n + 3
  BY <1>1, <1>2, <1>4
<1>6. Position(Challenge("u", 0)) = n + 4
  BY <1>1, <1>2, <1>4
<1> QED  BY <1>1, <1>5, <1>6

LEMMA QueryColumns ==
    ASSUME NEW C, NEW queries \in Queries(C), NEW q \in 1..Len(queries)
    PROVE  queries[q].col \in C
<1> DEFINE Q == [col : C, at : Int]
<1>1. queries \in Seq(Q)
  BY DEF Queries
<1>2. \A e \in Q : e.col \in C
  OBVIOUS
<1> HIDE DEF Q
<1>3. queries[q] \in Q
  BY <1>1
<1> QED  BY <1>2, <1>3

\* What is opened, but for the key's commitments and h, is in the transcript before y.
LEMMA OpenedComs ==
    ASSUME Supported(shape), NEW o \in Made, o.com.of \notin {"fixed", "sigma", "h"}
    PROVE  o.com \in UNION {Range(Statement), Range(AdviceComs), Range(PermutedComs),
                            Range(ProductComs)}
<1> DEFINE ao == Queried("advice", shape.adviceQueries)
           fo == Queried("fixed", shape.fixedQueries)
<1>1. \A of, i, r : Opening(of, i, r).com = Com(of, i)
  BY DEF Opening
<1>2. o # Opening("h", 0, 0)
  BY <1>1, Tags
<1>3. o \in UNION {Range(InstanceOpenings), Range(ao), Range(fo), Range(RandomOpening),
                   Range(SigmaOpenings), Range(PermutationOpenings), Range(LookupOpenings)}
  BY <1>2, EvaluationReads DEF Made
<1>4. CASE o \in Range(InstanceOpenings)
  <2>1. shape.queryInstance
    <3> SUFFICES ASSUME ~shape.queryInstance PROVE FALSE
      OBVIOUS
    <3>1. InstanceOpenings = <<>>
      BY InstanceReads
    <3> QED  BY <1>4, <3>1 DEF Range
  <2>2. PICK q \in 1..Len(shape.instanceQueries) :
            o = Opening("instance", shape.instanceQueries[q].col, shape.instanceQueries[q].at)
    BY <1>4, <2>1, InstanceReads
  <2>3. shape.instanceQueries[q].col \in 1..Len(shape.instances)
    <3>1. shape.instanceQueries \in Queries(1..Len(shape.instances))
      BY DEF Supported, WellFormed
    <3> QED  BY ONLY <3>1, <2>2, QueryColumns
  <2>4. o.com = Com("instance", shape.instanceQueries[q].col)
    BY <1>1, <2>2
  <2> QED  BY <2>1, <2>3, <2>4, StatementPart
<1>5. CASE o \in Range(ao)
  <2>1. PICK q \in 1..Len(shape.adviceQueries) :
            o = Opening("advice", shape.adviceQueries[q].col, shape.adviceQueries[q].at)
    BY <1>5, AdviceEvalReads
  <2>2. shape.adviceQueries[q].col \in 1..NumAdvice
    <3>1. shape.adviceQueries \in Queries(1..NumAdvice)
      BY DEF Supported, WellFormed, NumAdvice
    <3> QED  BY ONLY <3>1, <2>1, QueryColumns
  <2>3. o.com = Com("advice", shape.adviceQueries[q].col)
    BY <1>1, <2>1
  <2> QED  BY <2>2, <2>3, AdvicePart
<1>6. CASE o \in Range(fo)
  BY <1>1, <1>6, FixedEvalReads, Tags
<1>7. CASE o \in Range(RandomOpening)
  BY <1>1, <1>7, RandomReads, ProductReads
<1>8. CASE o \in Range(SigmaOpenings)
  BY <1>1, <1>8, SigmaReads, Tags
<1>9. CASE o \in Range(PermutationOpenings)
  <2>1. PICK s \in 1..Sets : o \in Range(SetOpenings(s))
    BY <1>9, PermutationEvalReads
  <2>2. s \in Nat
    OBVIOUS
  <2>3. o \in {Opening("permutationProduct", s, 0), Opening("permutationProduct", s, NextRow),
               Opening("permutationProduct", s, LastRow)}
    BY <2>1, <2>2, SetReads
  <2>4. o.com = Com("permutationProduct", s)
    BY <1>1, <2>3
  <2> QED  BY <2>4, ProductReads
<1>10. CASE o \in Range(LookupOpenings)
  <2>1. PICK l \in 1..shape.lookups : o \in Range(LookupOpeningsOf(l))
    BY <1>10, LookupEvalReads
  <2>2. l \in Nat
    OBVIOUS
  <2>3. o \in {Opening("lookupProduct", l, 0), Opening("lookupProduct", l, NextRow),
               Opening("permutedInput", l, 0), Opening("permutedInput", l, PrevRow),
               Opening("permutedTable", l, 0)}
    BY <2>1, <2>2, LookupReads
  <2>4. o.com \in {Com("lookupProduct", l), Com("permutedInput", l), Com("permutedTable", l)}
    BY <1>1, <2>3
  <2> QED  BY <2>4, ProductReads, PermutedPart
<1> QED  BY <1>3, <1>4, <1>5, <1>6, <1>7, <1>8, <1>9, <1>10

\* The beginnings of the transcript that the challenges bind, and what is in them.
LEMMA Bound ==
    ASSUME Supported(shape)
    PROVE  LET A1 == Statement \o AdviceComs
               A2 == T1 \o PermutedComs
               A3 == T2 \o ProductComs
               A4 == T3 \o QuotientComs
           IN  /\ A1 \in Seq(Items) /\ A2 \in Seq(Items) /\ A3 \in Seq(Items)
               /\ A4 \in Seq(Items) /\ T5 \in Seq(Items) /\ T6 \in Seq(Items)
               /\ Begins(A1, T6) /\ Begins(A2, T6) /\ Begins(A3, T6) /\ Begins(A4, T6)
               /\ Begins(T5, T6)
               /\ Range(A1) = Range(Statement) \cup Range(AdviceComs)
               /\ Range(A2) = Range(A1) \cup Range(Theta) \cup Range(PermutedComs)
               /\ Range(A3) = Range(A2) \cup Range(BetaGamma) \cup Range(ProductComs)
               /\ Range(A4) = Range(A3) \cup Range(<<Challenge("y", 0)>>) \cup Range(QuotientComs)
               /\ Range(T5) = Range(A4) \cup Range(<<Challenge("x", 0)>>) \cup Range(Evals)
<1> DEFINE A1 == Statement \o AdviceComs
           A2 == T1 \o PermutedComs
           A3 == T2 \o ProductComs
           A4 == T3 \o QuotientComs
           y == <<Challenge("y", 0)>>
           x == <<Challenge("x", 0)>>
<1>1. /\ Statement \in Seq(Items) /\ AdviceComs \in Seq(Items) /\ Theta \in Seq(Items)
      /\ T1 \in Seq(Items) /\ T2 \in Seq(Items) /\ T3 \in Seq(Items)
      /\ T4 \in Seq(Items) /\ T5 \in Seq(Items) /\ T6 \in Seq(Items)
      /\ PermutedComs \in Seq(Items) /\ ProductComs \in Seq(Items) /\ QuotientComs \in Seq(Items)
      /\ Evals \in Seq(Items) /\ BetaGamma \in Seq(Items)
      /\ y \in Seq(Items) /\ x \in Seq(Items)
  BY Transcripts, StatementPart, AdvicePart, PermutedPart, ProductReads, QuotientReads,
     EvaluationsWritten, DrawnPart DEF Draws
<1>2. A1 \in Seq(Items) /\ A2 \in Seq(Items) /\ A3 \in Seq(Items) /\ A4 \in Seq(Items)
  BY <1>1
<1>3. /\ T1 = A1 \o Theta /\ T2 = A2 \o BetaGamma /\ T3 = A3 \o y /\ T4 = A4 \o x
      /\ T5 = T4 \o Evals
  BY DEF T1, T2, T3, T4, T5
<1>4. /\ A2 = T1 \o PermutedComs /\ A3 = T2 \o ProductComs /\ A4 = T3 \o QuotientComs
      /\ A1 = Statement \o AdviceComs
  OBVIOUS
<1>5. /\ Begins(T1, T6) /\ Begins(T2, T6) /\ Begins(T3, T6) /\ Begins(T4, T6) /\ Begins(T5, T6)
  BY Beginnings
<1> HIDE DEF A1, A2, A3, A4, x, y
<1>6. Begins(A1, T1) /\ Begins(A2, T2) /\ Begins(A3, T3) /\ Begins(A4, T4)
  BY ONLY <1>1, <1>2, <1>3, ConcatBegins
<1>7. Begins(A1, T6) /\ Begins(A2, T6) /\ Begins(A3, T6) /\ Begins(A4, T6)
  BY ONLY <1>1, <1>2, <1>5, <1>6, BeginsTransitive
<1>8. /\ Covers(A1, Statement, AdviceComs) /\ Covers(T1, A1, Theta) /\ Covers(A2, T1, PermutedComs)
      /\ Covers(T2, A2, BetaGamma) /\ Covers(A3, T2, ProductComs) /\ Covers(T3, A3, y)
      /\ Covers(A4, T3, QuotientComs) /\ Covers(T4, A4, x) /\ Covers(T5, T4, Evals)
  <2>1. ASSUME NEW s \in Seq(Items), NEW t \in Seq(Items)
        PROVE  Covers(s \o t, s, t)
    BY ConcatRange DEF Covers
  <2> QED  BY ONLY <1>1, <1>2, <1>3, <1>4, <2>1
<1>9. /\ Range(A1) = Range(Statement) \cup Range(AdviceComs)
      /\ Range(A2) = Range(A1) \cup Range(Theta) \cup Range(PermutedComs)
      /\ Range(A3) = Range(A2) \cup Range(BetaGamma) \cup Range(ProductComs)
      /\ Range(A4) = Range(A3) \cup Range(y) \cup Range(QuotientComs)
      /\ Range(T5) = Range(A4) \cup Range(x) \cup Range(Evals)
  BY ONLY <1>8 DEF Covers
<1> QED  BY <1>1, <1>2, <1>5, <1>7, <1>9 DEF A1, A2, A3, A4, x, y

\* Every challenge is drawn after all that it must bind.
THEOREM ChallengesAreBound ==
    ASSUME ShapesSupported
    PROVE  Spec => []ChallengesBind
<1>1. ASSUME IInv PROVE ChallengesBind
  <2>1. SUFFICES ASSUME at["prover"] = "done" PROVE ChallengesBind
    BY DEF ChallengesBind
  <2>2. Supported(shape) /\ absorbed["prover"] = T6 /\ opened = Openings
    BY <1>1, <2>1, BothSides DEF IInv, OrderInv, ProverInv, ProverAt
  <2> DEFINE A1 == Statement \o AdviceComs
             A2 == T1 \o PermutedComs
             A3 == T2 \o ProductComs
             A4 == T3 \o QuotientComs
             y == <<Challenge("y", 0)>>
             x == <<Challenge("x", 0)>>
  <2>3. /\ A1 \in Seq(Items) /\ A2 \in Seq(Items) /\ A3 \in Seq(Items)
        /\ A4 \in Seq(Items) /\ T5 \in Seq(Items) /\ T6 \in Seq(Items)
        /\ Begins(A1, T6) /\ Begins(A2, T6) /\ Begins(A3, T6) /\ Begins(A4, T6) /\ Begins(T5, T6)
    BY <2>2, Bound
  <2>4. /\ Range(A1) = Range(Statement) \cup Range(AdviceComs)
        /\ Range(A2) = Range(A1) \cup Range(Theta) \cup Range(PermutedComs)
        /\ Range(A3) = Range(A2) \cup Range(BetaGamma) \cup Range(ProductComs)
        /\ Range(A4) = Range(A3) \cup Range(y) \cup Range(QuotientComs)
        /\ Range(T5) = Range(A4) \cup Range(x) \cup Range(Evals)
    BY <2>2, Bound
  <2>5. \A v : /\ Within(v, Len(T5), T5) /\ v \notin After5 => Within(v, Len(T5), T6)
               /\ Within(v, Len(A4), A4) /\ v \notin After4 => Within(v, Len(A4), T6)
               /\ Within(v, Len(A3), A3) /\ v \notin After3 => Within(v, Len(A3), T6)
               /\ Within(v, Len(A2), A2) /\ v \notin After2 => Within(v, Len(A2), T6)
               /\ Within(v, Len(A1), A1) /\ v \notin After1 => Within(v, Len(A1), T6)
    BY <2>2, StaysInPlace
  <2>6. /\ \A v, n, s : n = Len(s) /\ s \in Seq(Items) => Within(v, n, s)
        /\ After4 = After5 \cup Range(Evals) \cup Range(x)
        /\ After3 = After4 \cup Range(QuotientComs) \cup Range(y)
    BY DEF Within, After4, After3
  <2>7. /\ \A v \in Range(Statement) : \/ v.is = "com" /\ v.of \in {"vk", "instance"}
                                       \/ v.is = "value"
        /\ Tagged(AdviceComs, "com", {"advice"})
        /\ Tagged(Theta, "challenge", {"phase", "theta"})
        /\ Tagged(PermutedComs, "com", {"permutedInput", "permutedTable"})
        /\ Tagged(BetaGamma, "challenge", {"beta", "gamma"})
        /\ Tagged(ProductComs, "com", {"permutationProduct", "lookupProduct", "random"})
        /\ Tagged(y, "challenge", {"y"})
        /\ Tagged(QuotientComs, "com", {"h"})
        /\ Tagged(x, "challenge", {"x"})
        /\ \A v \in Range(Evals) : v.is = "eval"
        /\ \A v \in Range(Multiopening) :
               \/ v.is = "com" /\ v.of \in {"shplonk_h", "shplonk_final"}
               \/ v.is = "challenge" /\ v.of \in {"shplonk_y", "v", "u"}
    BY <2>2, Segments
  <2> HIDE DEF A1, A2, A3, A4, x, y
  <2>8. Binds("theta", Range(VkDigest \o InstanceInputs)
                       \cup {Com("advice", c) : c \in 1..NumAdvice})
    <3>1. Range(VkDigest \o InstanceInputs) \cup {Com("advice", c) : c \in 1..NumAdvice} = Range(A1)
      BY <2>2, <2>4, AdvicePart DEF Statement
    <3>2. ASSUME NEW v \in Range(A1) PROVE Position(v) < Position(Challenge("theta", 0))
      <4>1. v \notin After1
        BY <2>4, <2>7 DEF Tagged, After1, After2, After3, After4, After5, x, y
      <4>2. Challenge("theta", 0) \notin Range(A1)
        BY <2>4, <2>7, Tags DEF Tagged
      <4>3. Precedes(v, A1, Challenge("theta", 0))
        BY <2>2, <2>3, <2>5, <2>6, <4>1, <4>2 DEF Precedes
      <4> QED  BY <4>3, DrawnAfter
    <3> QED  BY <3>1, <3>2 DEF Binds
  <2>9. ASSUME NEW drawn \in {"beta", "gamma"}
        PROVE  Binds(drawn, {Com(of, l) : of \in {"permutedInput", "permutedTable"},
                                          l \in 1..shape.lookups})
    <3>1. {Com(of, l) : of \in {"permutedInput", "permutedTable"}, l \in 1..shape.lookups}
              = Range(PermutedComs)
      BY <2>2, PermutedPart
    <3>2. ASSUME NEW v \in Range(PermutedComs)
          PROVE  Position(v) < Position(Challenge(drawn, 0))
      <4>1. v \notin After2
        BY <2>7 DEF Tagged, After2, After3, After4, After5, x, y
      <4>2. Challenge(drawn, 0) \notin Range(A2)
        BY <2>4, <2>7, Tags DEF Tagged
      <4>3. Precedes(v, A2, Challenge(drawn, 0))
        BY <2>2, <2>3, <2>4, <2>5, <2>6, <4>1, <4>2 DEF Precedes
      <4> QED  BY <4>3, DrawnAfter
    <3> QED  BY <3>1, <3>2 DEF Binds
  <2>10. Binds("y", {Com("permutationProduct", s) : s \in 1..Sets}
                    \cup {Com("lookupProduct", l) : l \in 1..shape.lookups})
    <3>1. {Com("permutationProduct", s) : s \in 1..Sets}
              \cup {Com("lookupProduct", l) : l \in 1..shape.lookups} \subseteq Range(ProductComs)
      BY <2>2, ProductReads
    <3>2. ASSUME NEW v \in Range(ProductComs)
          PROVE  Position(v) < Position(Challenge("y", 0))
      <4>1. v \notin After3
        BY <2>7 DEF Tagged, After3, After4, After5, x, y
      <4>2. Challenge("y", 0) \notin Range(A3)
        BY <2>4, <2>7, Tags DEF Tagged
      <4>3. Precedes(v, A3, Challenge("y", 0))
        BY <2>2, <2>3, <2>4, <2>5, <2>6, <4>1, <4>2 DEF Precedes
      <4> QED  BY <4>3, DrawnAfter
    <3> QED  BY <3>1, <3>2 DEF Binds
  <2>11. Openings \in Seq(Made) /\ Range(Openings) \subseteq Made
    <3>1. Openings \in Seq(Made)
      BY <2>2, ClaimsAgree DEF Agree
    <3> QED  BY <3>1 DEF Range
  <2>12. Binds("x", {Com("h", p) : p \in 1..Pieces} \cup
                    {o.com : o \in {p \in Range(opened) :
                                       p.com.of \notin {"fixed", "sigma", "h"}}})
    <3> DEFINE B == UNION {Range(Statement), Range(AdviceComs), Range(PermutedComs),
                           Range(ProductComs), Range(QuotientComs)}
    <3>1. {Com("h", p) : p \in 1..Pieces} \subseteq Range(QuotientComs)
      BY <2>2, QuotientReads
    <3>2. \A o \in Range(opened) : o.com.of \notin {"fixed", "sigma", "h"} => o.com \in B
      BY <2>2, <2>11, OpenedComs
    <3>3. ASSUME NEW v \in B PROVE Position(v) < Position(Challenge("x", 0))
      <4>1. v \in Range(A4)
        BY <2>4
      <4>2. v \notin After4
        BY <2>7 DEF Tagged, After4, After5, x
      <4>3. Challenge("x", 0) \notin Range(A4)
        BY <2>4, <2>7, Tags DEF Tagged
      <4>4. Precedes(v, A4, Challenge("x", 0))
        BY <2>2, <2>3, <2>5, <2>6, <4>1, <4>2, <4>3 DEF Precedes
      <4> QED  BY <4>4, DrawnAfter
    <3>4. Range(QuotientComs) \subseteq B
      OBVIOUS
    <3> HIDE DEF B
    <3> QED  BY <3>1, <3>2, <3>3, <3>4 DEF Binds
  <2>13. ASSUME NEW drawn \in {"shplonk_y", "v"}
         PROVE  Binds(drawn, {Eval(o.com, o.at) :
                                  o \in {p \in Range(opened) : p.com.of # "h"}})
    <3>1. \A o \in Range(opened) : o.com.of # "h" => Eval(o.com, o.at) \in Range(Evals)
      <4>1. Opening("h", 0, 0).com.of = "h"
        BY Tags DEF Opening
      <4>2. \A o \in Range(opened) : o.com.of # "h" => o \in Range(Evaluations)
        BY <2>2, <2>11, <4>1 DEF Made
      <4> QED  BY <2>2, <4>2, EvaluationsWritten
    <3>2. ASSUME NEW v \in Range(Evals) PROVE Position(v) < Position(Challenge(drawn, 0))
      <4>1. v \notin After5
        BY <2>7 DEF After5
      <4>2. Challenge(drawn, 0) \notin Range(T5)
        BY <2>4, <2>7, Tags DEF Tagged
      <4>3. Precedes(v, T5, Challenge(drawn, 0))
        BY <2>2, <2>3, <2>4, <2>5, <2>6, <4>1, <4>2 DEF Precedes
      <4> QED  BY <4>3, DrawnAfter
    <3> QED  BY <3>1, <3>2 DEF Binds
  <2>14. Binds("u", {Com("shplonk_h", 0)})
    <3>1. Com("shplonk_h", 0) \notin Range(T5) /\ Challenge("u", 0) \notin Range(T5)
      BY <2>4, <2>7, Tags DEF Tagged
    <3> QED  BY <2>2, <2>3, <3>1, LastChallenge DEF Binds
  <2> QED  BY <2>8, <2>9, <2>10, <2>12, <2>13, <2>14 DEF ChallengesBind
<1> QED  BY <1>1, Invariance, PTL
===============================================================================
