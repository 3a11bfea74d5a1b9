----------------------- MODULE PermutationProductProofs ------------------------
(* The permutation argument for every number of columns and rows, every length *)
(* of a set and every sequence of copies.                                       *)
(*                                                                             *)
(* The assembly: its cycles are its names. The argument is that of a union-find *)
(* whose sets are also linked in rings: names are constant along mapping, and a *)
(* set that mapping does not leave holds a whole ring or none of it, which the  *)
(* swap of two successors preserves.                                            *)
(*                                                                             *)
(* The copies: names are the classes that the accepted calls generate. The two  *)
(* cells of a call have one name, and a set of cells that no call crosses holds *)
(* all cells of a name or none.                                                 *)
(*                                                                             *)
(* The products: a committed product is, at every row, the ratio of what the    *)
(* cells up to there give with their own labels to what they give with          *)
(* mapping's, however the columns fall into sets; the ratio over all cells is   *)
(* one exactly when values are constant along mapping, which is to say equal on *)
(* the two cells of every call.                                                 *)
EXTENDS PermutationProduct, DataInduction, FiniteSetTheorems

(* ------------------------------- the assembly ------------------------------- *)

\* A name names itself.
NamesAreOwn == \A c \in Cells : aux[aux[c]] = aux[c]

\* mapping does not lead out of a name.
NamesAlong == \A c \in Cells : aux[mapping[c]] = aux[c]

\* What mapping does not leave has all cells of a name or none.
Rings == \A c \in Cells : \A S \in SUBSET Cells :
             (c \in S /\ \A e \in S : mapping[e] \in S) => Named(aux[c]) \subseteq S

IInv == TypeOK /\ MappingIsPermutation /\ NamesAreOwn /\ NamesAlong /\ Rings

LEMMA CallCells ==
    ASSUME NEW call \in Calls, Accepted(call[1], call[2])
    PROVE  call[1] \in Cells /\ call[2] \in Cells
  BY AssemblyAssumption DEF Accepted, Cells, Columns, Rows, Usable

Merged(l, r) == Named(aux[l]) \cup Named(aux[r])

\* Names and cycles are the same under the invariant.
LEMMA CycleIsName ==
    ASSUME IInv, NEW c \in Cells
    PROVE  Cycle(c) = Named(aux[c])
<1>1. Named(aux[c]) \in SUBSET Cells /\ c \in Named(aux[c])
  BY DEF Named
<1>2. \A e \in Named(aux[c]) : mapping[e] \in Named(aux[c])
  BY DEF IInv, TypeOK, NamesAlong, Named
<1>3. Cycle(c) \subseteq Named(aux[c])
  BY <1>1, <1>2 DEF Cycle
<1>4. Named(aux[c]) \subseteq Cycle(c)
  BY DEF IInv, Rings, Cycle, Named
<1> QED  BY <1>3, <1>4

\* What a merge finds and what it leaves, in terms of names.
LEMMA MergeFacts ==
    ASSUME IInv, NEW l \in Cells, NEW r \in Cells, aux[l] # aux[r], Merge(l, r)
    PROVE  /\ {Into(l, r), From(l, r)} = {aux[l], aux[r]}
           /\ Into(l, r) \in Cells /\ From(l, r) \in Cells /\ Into(l, r) # From(l, r)
           /\ aux[Into(l, r)] = Into(l, r) /\ aux[From(l, r)] = From(l, r)
           /\ sizes[From(l, r)] <= sizes[Into(l, r)]
           /\ aux' = [c \in Cells |-> IF aux[c] = From(l, r) THEN Into(l, r) ELSE aux[c]]
           /\ sizes' = [sizes EXCEPT ![Into(l, r)] = @ + sizes[From(l, r)]]
           /\ mapping' = [mapping EXCEPT ![l] = mapping[r], ![r] = mapping[l]]
<1>1. /\ {Into(l, r), From(l, r)} = {aux[l], aux[r]}
      /\ Into(l, r) \in Cells /\ From(l, r) \in Cells /\ Into(l, r) # From(l, r)
      /\ sizes[From(l, r)] <= sizes[Into(l, r)]
  BY DEF IInv, TypeOK, Into, From, Swapped
<1>2. aux[Into(l, r)] = Into(l, r) /\ aux[From(l, r)] = From(l, r)
  BY <1>1 DEF IInv, NamesAreOwn, Into, From
<1>3. Cycle(From(l, r)) = Named(From(l, r))
  BY <1>1, <1>2, CycleIsName
<1>4. aux' = [c \in Cells |-> IF aux[c] = From(l, r) THEN Into(l, r) ELSE aux[c]]
  BY <1>3 DEF Merge, Relabel, Named
<1> QED  BY <1>1, <1>2, <1>4 DEF Merge, AddSizes, SwapSuccessors

\* After a merge both names are one, and the others are what they were.
LEMMA MergedNames ==
    ASSUME IInv, NEW l \in Cells, NEW r \in Cells, aux[l] # aux[r], Merge(l, r)
    PROVE  /\ \A d \in Cells : aux'[d] = IF aux[d] \in {aux[l], aux[r]}
                                       THEN Into(l, r) ELSE aux[d]
           /\ \A d \in Cells : Named(aux[d])' =
                  IF aux[d] \in {aux[l], aux[r]} THEN Merged(l, r) ELSE Named(aux[d])
<1>1. /\ {Into(l, r), From(l, r)} = {aux[l], aux[r]}
      /\ aux' = [c \in Cells |-> IF aux[c] = From(l, r) THEN Into(l, r) ELSE aux[c]]
  BY MergeFacts
<1>2. \A d \in Cells : aux'[d] = IF aux[d] \in {aux[l], aux[r]} THEN Into(l, r) ELSE aux[d]
  BY <1>1
<1>3. ASSUME NEW d \in Cells, aux[d] \in {aux[l], aux[r]}
      PROVE  Named(aux[d])' = Merged(l, r)
  <2>1. \A e \in Cells : aux'[e] = aux'[d] <=> aux[e] \in {aux[l], aux[r]}
    BY <1>1, <1>2, <1>3
  <2> QED  BY <2>1 DEF Named, Merged
<1>4. ASSUME NEW d \in Cells, aux[d] \notin {aux[l], aux[r]}
      PROVE  Named(aux[d])' = Named(aux[d])
  <2>1. \A e \in Cells : aux'[e] = aux'[d] <=> aux[e] = aux[d]
    BY <1>1, <1>2, <1>4
  <2> QED  BY <2>1 DEF Named
<1> QED  BY <1>2, <1>3, <1>4

LEMMA InitIInv == Init => IInv
<1> SUFFICES ASSUME Init PROVE IInv
  OBVIOUS
<1>1. TypeOK
  BY DEF Init, TypeOK
<1>2. MappingIsPermutation /\ NamesAreOwn /\ NamesAlong
  BY DEF Init, MappingIsPermutation, NamesAreOwn, NamesAlong
<1>3. Rings
  BY DEF Init, Rings, Named
<1> QED  BY <1>1, <1>2, <1>3 DEF IInv

\* The swap joins two rings into one: a set that the new mapping does not leave and
\* that meets the merged names has both cells that were swapped, then all of both.
LEMMA MergeRings ==
    ASSUME IInv, NEW l \in Cells, NEW r \in Cells, aux[l] # aux[r], Merge(l, r)
    PROVE  Rings'
<1> DEFINE A == Named(aux[l])
           B == Named(aux[r])
<1>1. mapping' = [mapping EXCEPT ![l] = mapping[r], ![r] = mapping[l]]
  BY MergeFacts
<1>2. l # r /\ l \in A /\ r \in B /\ mapping[l] \in A /\ mapping[r] \in B
  BY DEF IInv, TypeOK, NamesAlong, Named
<1>3. mapping \in [Cells -> Cells] /\ mapping'[l] = mapping[r] /\ mapping'[r] = mapping[l]
  BY <1>1, <1>2 DEF IInv, TypeOK
<1>4. \A e \in Cells : e # l /\ e # r => mapping'[e] = mapping[e]
  BY <1>1, <1>3
<1>5. ASSUME NEW S \in SUBSET Cells, \A e \in S : mapping'[e] \in S,
             NEW c \in S, c \in A \cup B
      PROVE  A \cup B \subseteq S
  <2>1. \A X \in {A, B} : \A e \in X : e \in Cells /\ mapping[e] \in X
    BY DEF IInv, TypeOK, NamesAlong, Named
  <2>2. A \cap B = {}
    BY DEF Named
  <2>3. ASSUME NEW X \in {A, B}, NEW d \in X, d \in S,
               \A e \in S \cap X : mapping[e] \in S
        PROVE  X \subseteq S
    <3>1. d \in S \cap X /\ S \cap X \in SUBSET Cells
      BY <2>1, <2>3
    <3>2. \A e \in S \cap X : mapping[e] \in S \cap X
      BY <2>1, <2>3
    <3>3. Named(aux[d]) \subseteq S \cap X
      BY <3>1, <3>2 DEF IInv, Rings
    <3>4. Named(aux[d]) = X
      BY <2>3 DEF Named
    <3> QED  BY <3>3, <3>4
  <2>4. c \in A => l \in S
    <3> SUFFICES ASSUME c \in A, l \notin S PROVE FALSE
      OBVIOUS
    <3>1. \A e \in S \cap A : mapping[e] \in S
      BY <1>2, <1>4, <1>5, <2>2
    <3> QED  BY <1>2, <1>5, <2>3, <3>1
  <2>5. c \in B => r \in S
    <3> SUFFICES ASSUME c \in B, r \notin S PROVE FALSE
      OBVIOUS
    <3>1. \A e \in S \cap B : mapping[e] \in S
      BY <1>2, <1>4, <1>5, <2>2
    <3> QED  BY <1>2, <1>5, <2>3, <3>1
  <2>6. l \in S => r \in S
    <3> SUFFICES ASSUME l \in S, r \notin S PROVE FALSE
      OBVIOUS
    <3>1. mapping[r] \in S
      BY <1>3, <1>5
    <3>2. \A e \in S \cap B : mapping[e] \in S
      BY <1>2, <1>4, <1>5, <2>2
    <3> QED  BY <1>2, <2>3, <3>1, <3>2
  <2>7. r \in S => l \in S
    <3> SUFFICES ASSUME r \in S, l \notin S PROVE FALSE
      OBVIOUS
    <3>1. mapping[l] \in S
      BY <1>3, <1>5
    <3>2. \A e \in S \cap A : mapping[e] \in S
      BY <1>2, <1>4, <1>5, <2>2
    <3> QED  BY <1>2, <2>3, <3>1, <3>2
  <2>8. l \in S /\ r \in S
    BY <1>5, <2>4, <2>5, <2>6, <2>7
  <2>9. mapping[l] \in S /\ mapping[r] \in S
    BY <1>3, <1>5, <2>8
  <2>10. \A e \in S : mapping[e] \in S
    BY <1>4, <1>5, <2>9
  <2> QED  BY <1>2, <2>3, <2>8, <2>10
<1>6. ASSUME NEW S \in SUBSET Cells, \A e \in S : mapping'[e] \in S,
             NEW c \in S, c \notin A \cup B
      PROVE  Named(aux[c]) \subseteq S
  <2> DEFINE C == Named(aux[c])
  <2>1. c \in C /\ C \in SUBSET Cells /\ l \notin C /\ r \notin C
    BY <1>6 DEF Named
  <2>2. \A e \in S \cap C : mapping[e] \in S \cap C
    BY <1>4, <1>6, <2>1 DEF IInv, TypeOK, NamesAlong, Named
  <2>3. S \cap C \in SUBSET Cells /\ c \in S \cap C
    BY <1>6, <2>1
  <2> HIDE DEF C
  <2>4. Named(aux[c]) \subseteq S \cap C
    BY <2>2, <2>3 DEF IInv, Rings
  <2> QED  BY <2>4
<1>7. ASSUME NEW c \in Cells
      PROVE  Named(aux[c])' = IF c \in A \cup B THEN A \cup B ELSE Named(aux[c])
  <2>1. c \in A \cup B <=> aux[c] \in {aux[l], aux[r]}
    BY DEF Named
  <2> QED  BY <2>1, MergedNames DEF Merged
<1>8. ASSUME NEW c \in Cells, NEW S \in SUBSET Cells, c \in S,
             \A e \in S : mapping'[e] \in S
      PROVE  Named(aux[c])' \subseteq S
  <2>1. CASE c \in A \cup B
    <3>1. A \cup B \subseteq S
      BY <1>5, <1>8, <2>1
    <3> QED  BY <1>7, <2>1, <3>1
  <2>2. CASE c \notin A \cup B
    <3>1. Named(aux[c]) \subseteq S
      BY <1>6, <1>8, <2>2
    <3> QED  BY <1>7, <2>2, <3>1
  <2> QED  BY <2>1, <2>2
<1> HIDE DEF A, B
<1> QED  BY <1>8 DEF Rings

LEMMA MergeIInv ==
    ASSUME IInv, NEW l \in Cells, NEW r \in Cells, aux[l] # aux[r], Merge(l, r),
           UNCHANGED stage
    PROVE  IInv'
<1>1. /\ {Into(l, r), From(l, r)} = {aux[l], aux[r]}
      /\ Into(l, r) \in Cells /\ From(l, r) \in Cells
      /\ aux[Into(l, r)] = Into(l, r)
      /\ aux' = [c \in Cells |-> IF aux[c] = From(l, r) THEN Into(l, r) ELSE aux[c]]
      /\ sizes' = [sizes EXCEPT ![Into(l, r)] = @ + sizes[From(l, r)]]
  BY MergeFacts
<1>2. mapping' = [mapping EXCEPT ![l] = mapping[r], ![r] = mapping[l]]
  BY MergeFacts
<1>3. /\ stage \in {"synthesis", "panicked"}
      /\ mapping \in [Cells -> Cells] /\ aux \in [Cells -> Cells]
      /\ sizes \in [Cells -> Nat \ {0}]
  BY DEF IInv, TypeOK
<1>4. TypeOK'
  <2>1. mapping[l] \in Cells /\ mapping[r] \in Cells
    BY <1>3
  <2>2. mapping' \in [Cells -> Cells]
    BY <1>2, <1>3, <2>1
  <2>3. aux' \in [Cells -> Cells]
    BY <1>1, <1>3
  <2>4. sizes[Into(l, r)] + sizes[From(l, r)] \in Nat \ {0}
    BY <1>1, <1>3
  <2>5. sizes' \in [Cells -> Nat \ {0}]
    BY <1>1, <1>3, <2>4
  <2> QED  BY <1>3, <2>2, <2>3, <2>5 DEF TypeOK
<1>5. MappingIsPermutation'
  <2>1. \A c \in Cells : mapping'[c] = mapping[IF c = l THEN r ELSE IF c = r THEN l ELSE c]
    BY <1>2, <1>3
  <2>2. \A c, d \in Cells : mapping[c] = mapping[d] => c = d
    BY DEF IInv, MappingIsPermutation
  <2>3. \A c, d \in Cells : mapping'[c] = mapping'[d] => c = d
    BY <2>1, <2>2
  <2> QED  BY <2>3 DEF MappingIsPermutation
<1>6. NamesAreOwn'
  <2>1. \A c \in Cells : aux[c] \in Cells /\ aux[aux[c]] = aux[c]
    BY <1>3 DEF IInv, NamesAreOwn
  <2>2. \A c \in Cells : aux'[aux'[c]] = aux'[c]
    BY <1>1, <2>1
  <2> QED  BY <2>2 DEF NamesAreOwn
<1>7. NamesAlong'
  <2>1. ASSUME NEW c \in Cells PROVE aux'[mapping'[c]] = aux'[c]
    <3>1. mapping[c] \in Cells /\ aux[mapping[c]] = aux[c]
      BY <1>3 DEF IInv, NamesAlong
    <3>2. CASE c \notin {l, r}
      <4>1. mapping'[c] = mapping[c]
        BY <1>2, <1>3, <3>2
      <4> QED  BY <1>1, <3>1, <4>1
    <3>3. CASE c \in {l, r}
      <4>1. mapping'[c] \in {mapping[l], mapping[r]}
        BY <1>2, <1>3, <3>3
      <4>2. mapping'[c] \in Cells /\ aux[mapping'[c]] \in {aux[l], aux[r]}
        BY <1>3, <4>1 DEF IInv, NamesAlong
      <4>3. \A d \in Cells : aux[d] \in {aux[l], aux[r]} => aux'[d] = Into(l, r)
        BY MergedNames
      <4> QED  BY <3>3, <4>2, <4>3
    <3> QED  BY <3>2, <3>3
  <2> QED  BY <2>1 DEF NamesAlong
<1>8. Rings'
  BY MergeRings
<1> QED  BY <1>4, <1>5, <1>6, <1>7, <1>8 DEF IInv

\* A step is a merge of two cycles, or leaves mapping, names and sizes alone.
LEMMA StepCases ==
    ASSUME [Next]_vars
    PROVE  \/ UNCHANGED <<mapping, aux, sizes>> /\ (stage' = stage \/ stage' = "panicked")
           \/ \E l, r \in Cells : /\ l[2] \in Usable /\ r[2] \in Usable
                                 /\ aux[l] # aux[r] /\ Merge(l, r) /\ UNCHANGED stage
<1>1. CASE UNCHANGED vars
  BY <1>1 DEF vars
<1>2. CASE Next
  <2>1. PICK call \in Calls : Copy(call[1], call[2]) \/ Refuse(call[1], call[2])
    BY <1>2 DEF Next
  <2>2. CASE Refuse(call[1], call[2])
    BY <2>2 DEF Refuse
  <2>3. CASE Copy(call[1], call[2])
    <3>1. call[1] \in Cells /\ call[2] \in Cells /\ call[1][2] \in Usable /\ call[2][2] \in Usable
      BY <2>3, CallCells DEF Copy, Accepted
    <3> QED  BY <2>3, <3>1 DEF Copy, Linked
  <2> QED  BY <2>1, <2>2, <2>3
<1> QED  BY <1>1, <1>2

LEMMA NextIInv == IInv /\ [Next]_vars => IInv'
<1> SUFFICES ASSUME IInv, [Next]_vars PROVE IInv'
  OBVIOUS
<1>1. CASE UNCHANGED <<mapping, aux, sizes>> /\ (stage' = stage \/ stage' = "panicked")
  BY <1>1 DEF IInv, TypeOK, MappingIsPermutation, NamesAreOwn, NamesAlong, Rings, Named
<1>2. ASSUME NEW l \in Cells, NEW r \in Cells, aux[l] # aux[r], Merge(l, r), UNCHANGED stage
      PROVE  IInv'
  BY <1>2, MergeIInv
<1> QED  BY <1>1, <1>2, StepCases

THEOREM Invariance == Spec => []IInv
  BY InitIInv, NextIInv, PTL DEF Spec

\* The assembly is well typed, whatever is copied.
THEOREM TypeCorrect == Spec => []TypeOK
<1>1. IInv => TypeOK
  BY DEF IInv
<1> QED  BY <1>1, Invariance, PTL

\* mapping is always a permutation: Assembly::copy swaps successors and does no more.
THEOREM MappingPermutes == Spec => []MappingIsPermutation
<1>1. IInv => MappingIsPermutation
  BY DEF IInv
<1> QED  BY <1>1, Invariance, PTL

\* Two cells have one name exactly when the loop of Assembly::copy goes from one to
\* the other, so it relabels all of the cycle and stops.
THEOREM NamesNameCycles == Spec => []NamesAreCycles
<1>1. IInv => NamesAreCycles
  BY CycleIsName DEF NamesAreCycles
<1> QED  BY <1>1, Invariance, PTL

LEMMA CellsAreFinite == IsFiniteSet(Cells)
<1>1. IsFiniteSet(Columns) /\ IsFiniteSet(Rows)
  BY AssemblyAssumption, FS_Interval DEF Columns, Rows
<1> QED  BY <1>1, FS_Product DEF Cells

LEMMA MergeSizes ==
    ASSUME IInv, SizesCountCycles, NEW l \in Cells, NEW r \in Cells,
           aux[l] # aux[r], Merge(l, r)
    PROVE  SizesCountCycles'
<1> DEFINE A == Named(aux[l])
           B == Named(aux[r])
<1>1. IsFiniteSet(A) /\ IsFiniteSet(B)
  BY CellsAreFinite, FS_Subset DEF Named
<1>2. A \cap B = {}
  BY DEF Named
<1>3. Cardinality(A \cup B) = Cardinality(A) + Cardinality(B)
  <2> HIDE DEF A, B
  <2>1. Cardinality(A \cup B) = Cardinality(A) + Cardinality(B) - Cardinality(A \cap B)
    BY <1>1, FS_Union
  <2>2. Cardinality(A \cap B) = 0
    BY <1>2, FS_EmptySet
  <2>3. Cardinality(A) \in Nat /\ Cardinality(B) \in Nat
    BY <1>1, FS_CardinalityType
  <2> QED  BY <2>1, <2>2, <2>3
<1>4. Cardinality(A) = sizes[aux[l]] /\ Cardinality(B) = sizes[aux[r]]
  BY DEF SizesCountCycles
<1>5. /\ {Into(l, r), From(l, r)} = {aux[l], aux[r]}
      /\ sizes' = [sizes EXCEPT ![Into(l, r)] = @ + sizes[From(l, r)]]
      /\ Into(l, r) \in Cells /\ Into(l, r) # From(l, r) /\ From(l, r) \in Cells
  BY MergeFacts
<1>6. sizes'[Into(l, r)] = Cardinality(A \cup B)
  <2>1. sizes'[Into(l, r)] = sizes[Into(l, r)] + sizes[From(l, r)]
    BY <1>5 DEF IInv, TypeOK
  <2>2. sizes[Into(l, r)] \in Nat /\ sizes[From(l, r)] \in Nat
    BY <1>5 DEF IInv, TypeOK
  <2>3. sizes[Into(l, r)] + sizes[From(l, r)] = sizes[aux[l]] + sizes[aux[r]]
    BY <1>5, <2>2
  <2> HIDE DEF A, B
  <2> QED  BY <1>3, <1>4, <2>1, <2>3
<1>7. ASSUME NEW c \in Cells PROVE sizes'[aux'[c]] = Cardinality(Named(aux[c])')
  <2>1. CASE aux[c] \in {aux[l], aux[r]}
    <3>1. aux'[c] = Into(l, r) /\ Named(aux[c])' = A \cup B
      BY <2>1, MergedNames DEF Merged
    <3> QED  BY <1>6, <3>1
  <2>2. CASE aux[c] \notin {aux[l], aux[r]}
    <3>1. aux'[c] = aux[c] /\ Named(aux[c])' = Named(aux[c])
      BY <2>2, MergedNames
    <3>2. aux[c] # Into(l, r) /\ sizes'[aux[c]] = sizes[aux[c]]
      BY <1>5, <2>2 DEF IInv, TypeOK
    <3> QED  BY <3>1, <3>2 DEF SizesCountCycles
  <2> QED  BY <2>1, <2>2
<1> QED  BY <1>7 DEF SizesCountCycles, Named

\* sizes is what Assembly::copy compares: the number of cells it would relabel.
THEOREM SizesAreCounts == Spec => []SizesCountCycles
<1>1. Init => SizesCountCycles
  <2> SUFFICES ASSUME Init, NEW c \in Cells PROVE sizes[aux[c]] = Cardinality(Named(aux[c]))
    BY DEF SizesCountCycles
  <2>1. Named(aux[c]) = {c} /\ sizes[aux[c]] = 1
    BY DEF Init, Named
  <2> QED  BY <2>1, FS_Singleton
<1>2. IInv /\ SizesCountCycles /\ [Next]_vars => SizesCountCycles'
  <2> SUFFICES ASSUME IInv, SizesCountCycles, [Next]_vars PROVE SizesCountCycles'
    OBVIOUS
  <2>1. CASE UNCHANGED <<mapping, aux, sizes>>
    BY <2>1 DEF SizesCountCycles, Named
  <2> QED  BY <2>1, StepCases, MergeSizes
<1> QED  BY <1>1, <1>2, Invariance, PTL DEF Spec

\* A cell is relabelled only into a cycle at least twice the size of its own.
THEOREM RelabelledCyclesDouble == Spec => RelabellingDoubles
<1> DEFINE Doubles == \A c \in Cells : aux'[c] # aux[c] => sizes'[aux'[c]] >= 2 * sizes[aux[c]]
<1>1. IInv /\ [Next]_vars => [Doubles]_vars
  <2> SUFFICES ASSUME IInv, [Next]_vars PROVE Doubles
    OBVIOUS
  <2>1. ASSUME NEW l \in Cells, NEW r \in Cells, aux[l] # aux[r], Merge(l, r),
               NEW c \in Cells, aux'[c] # aux[c]
        PROVE  sizes'[aux'[c]] >= 2 * sizes[aux[c]]
    <3>1. aux[c] = From(l, r) /\ aux'[c] = Into(l, r)
      BY <2>1, MergeFacts
    <3>2. sizes'[Into(l, r)] = sizes[Into(l, r)] + sizes[From(l, r)]
      BY <2>1, MergeFacts DEF IInv, TypeOK
    <3>3. /\ sizes[Into(l, r)] \in Nat /\ sizes[From(l, r)] \in Nat
          /\ sizes[From(l, r)] <= sizes[Into(l, r)]
      BY <2>1, MergeFacts DEF IInv, TypeOK
    <3> QED  BY <3>1, <3>2, <3>3
  <2> QED  BY <2>1, StepCases
<1> QED  BY <1>1, Invariance, PTL DEF Spec, RelabellingDoubles

\* No copy reaches a row that will be blinded: such cells stay fixed points of mapping.
THEOREM BlindingRowsStayFree == Spec => []BlindingRowsAreFree
<1>1. Init => BlindingRowsAreFree
  BY DEF Init, BlindingRowsAreFree
<1>2. IInv /\ BlindingRowsAreFree /\ [Next]_vars => BlindingRowsAreFree'
  <2> SUFFICES ASSUME IInv, BlindingRowsAreFree, [Next]_vars PROVE BlindingRowsAreFree'
    OBVIOUS
  <2>1. CASE UNCHANGED <<mapping, aux, sizes>>
    BY <2>1 DEF BlindingRowsAreFree
  <2>2. ASSUME NEW l \in Cells, NEW r \in Cells, l[2] \in Usable, r[2] \in Usable,
               aux[l] # aux[r], Merge(l, r), NEW c \in Cells, c[2] \notin Usable
        PROVE  mapping'[c] = c
    BY <2>2, MergeFacts DEF IInv, TypeOK, BlindingRowsAreFree
  <2> QED  BY <2>1, <2>2, StepCases DEF BlindingRowsAreFree
<1> QED  BY <1>1, <1>2, Invariance, PTL DEF Spec

(* ------------------------------- the products -------------------------------- *)

All == Columns \X Usable

\* The cells in front of a row of set k, those of the sets before it first.
Through(k, row) == {c \in All : \/ c[1] \div ChunkLen < k
                                \/ c[1] \div ChunkLen = k /\ c[2] < row}

Ratio(cells) == Over(Product(Own(cells)), Product(Sigma(cells)))

ProductsAreRatios ==
    /\ carry = Ratio(Through(Len(products), 0))
    /\ \A k \in 1..Len(products) :
           products[k] = [i \in 1..(UsableRows + 1) |-> Ratio(Through(k - 1, i - 1))]

DeltaIsFirstColumn ==
    delta = IF Len(products) = Sets THEN NumColumns ELSE ChunkLen * Len(products)

Proving ==
    /\ All # {} /\ values \in [All -> Values]
    /\ products \in Seq([1..(UsableRows + 1) -> [Factors -> Int]])
    /\ Len(products) <= Sets
    /\ ProductsAreRatios /\ DeltaIsFirstColumn

\* The cells of a copy that was accepted have one name.
Honoured == \A call \in copied : /\ call[1] \in All /\ call[2] \in All
                                 /\ aux[call[1]] = aux[call[2]]

\* No copy that was accepted leads out of the cells.
Closed(cells) == \A call \in copied : call[1] \in cells <=> call[2] \in cells

\* A name has no more cells than the copies give it.
Least == \A c \in Cells : \A S \in SUBSET Cells :
             c \in S /\ Closed(S) => Named(aux[c]) \subseteq S

History == copied \subseteq Calls /\ Honoured /\ Least

PInv ==
    /\ IInv /\ BlindingRowsAreFree /\ History
    /\ IF values = <<>> THEN carry = One /\ delta = 0 /\ products = <<>> ELSE Proving

(* ---------------------------- products of cells ----------------------------- *)

LEMMA AllIsFinite == All \subseteq Cells /\ IsFiniteSet(All)
<1>1. All \subseteq Cells
  BY AssemblyAssumption DEF All, Cells, Usable, Rows
<1> QED  BY <1>1, CellsAreFinite, FS_Subset

LEMMA ProductType ==
    ASSUME NEW factor, IsFiniteSet(DOMAIN factor)
    PROVE  Product(factor) \in [Factors -> Nat]
<1>1. ASSUME NEW f \in Factors
      PROVE  Cardinality({c \in DOMAIN factor : factor[c] = f}) \in Nat
  <2>1. IsFiniteSet({c \in DOMAIN factor : factor[c] = f})
    BY FS_Subset
  <2> QED  BY <2>1, FS_CardinalityType
<1> QED  BY <1>1 DEF Product

\* Over two sets of cells with nothing in common a product is the product of both.
LEMMA ProductOfUnion ==
    ASSUME NEW a, NEW b, NEW u, IsFiniteSet(DOMAIN a), IsFiniteSet(DOMAIN b),
           DOMAIN u = DOMAIN a \cup DOMAIN b, DOMAIN a \cap DOMAIN b = {},
           \A c \in DOMAIN a : u[c] = a[c], \A c \in DOMAIN b : u[c] = b[c]
    PROVE  Product(u) = Times(Product(a), Product(b))
<1>1. ASSUME NEW f \in Factors
      PROVE  Cardinality({c \in DOMAIN u : u[c] = f}) =
                 Cardinality({c \in DOMAIN a : a[c] = f}) + Cardinality({c \in DOMAIN b : b[c] = f})
  <2> DEFINE A == {c \in DOMAIN a : a[c] = f}
             B == {c \in DOMAIN b : b[c] = f}
  <2>1. {c \in DOMAIN u : u[c] = f} = A \cup B /\ A \cap B = {}
    OBVIOUS
  <2>2. IsFiniteSet(A) /\ IsFiniteSet(B)
    BY FS_Subset
  <2> HIDE DEF A, B
  <2>3. Cardinality(A \cup B) = Cardinality(A) + Cardinality(B) - Cardinality(A \cap B)
    BY <2>2, FS_Union
  <2>4. Cardinality(A \cap B) = 0
    BY <2>1, FS_EmptySet
  <2>5. Cardinality(A) \in Nat /\ Cardinality(B) \in Nat
    BY <2>2, FS_CardinalityType
  <2>6. Cardinality(A \cup B) = Cardinality(A) + Cardinality(B)
    BY <2>3, <2>4, <2>5
  <2> QED  BY <2>1, <2>6 DEF A, B
<1> QED  BY <1>1 DEF Product, Times

LEMMA RatioType ==
    ASSUME NEW C \in SUBSET All
    PROVE  /\ Product(Own(C)) \in [Factors -> Nat]
           /\ Product(Sigma(C)) \in [Factors -> Nat]
           /\ Ratio(C) \in [Factors -> Int]
<1>1. IsFiniteSet(C)
  BY AllIsFinite, FS_Subset
<1>2. DOMAIN Own(C) = C /\ DOMAIN Sigma(C) = C
  BY DEF Own, Sigma
<1>3. Product(Own(C)) \in [Factors -> Nat] /\ Product(Sigma(C)) \in [Factors -> Nat]
  BY <1>1, <1>2, ProductType
<1>4. \A f \in Factors : Product(Own(C))[f] - Product(Sigma(C))[f] \in Int
  BY <1>3
<1> QED  BY <1>3, <1>4 DEF Ratio, Over

LEMMA RatioOfUnion ==
    ASSUME NEW C \in SUBSET All, NEW D \in SUBSET All, C \cap D = {}
    PROVE  /\ Ratio(C \cup D) = Times(Ratio(C), Ratio(D))
           /\ Times(Ratio(C \cup D), Product(Sigma(D))) = Times(Ratio(C), Product(Own(D)))
<1> DEFINE U == C \cup D
<1>1. IsFiniteSet(C) /\ IsFiniteSet(D)
  BY AllIsFinite, FS_Subset
<1>2. DOMAIN Own(C) = C /\ DOMAIN Own(D) = D /\ DOMAIN Own(U) = U
  BY DEF Own
<1>3. DOMAIN Sigma(C) = C /\ DOMAIN Sigma(D) = D /\ DOMAIN Sigma(U) = U
  BY DEF Sigma
<1>4. /\ \A c \in C : Own(U)[c] = Own(C)[c] /\ Sigma(U)[c] = Sigma(C)[c]
      /\ \A c \in D : Own(U)[c] = Own(D)[c] /\ Sigma(U)[c] = Sigma(D)[c]
  BY DEF Own, Sigma
<1>5. Product(Own(U)) = Times(Product(Own(C)), Product(Own(D)))
  <2> HIDE DEF U
  <2>1. U = C \cup D
    BY DEF U
  <2> QED  BY <1>1, <1>2, <1>4, <2>1, ProductOfUnion
<1>6. Product(Sigma(U)) = Times(Product(Sigma(C)), Product(Sigma(D)))
  <2> HIDE DEF U
  <2>1. U = C \cup D
    BY DEF U
  <2> QED  BY <1>1, <1>3, <1>4, <2>1, ProductOfUnion
<1>7. \A E \in {C, D} : /\ Product(Own(E)) \in [Factors -> Nat]
                        /\ Product(Sigma(E)) \in [Factors -> Nat]
  BY RatioType
<1> HIDE DEF U
<1>8. Ratio(U) = Times(Ratio(C), Ratio(D))
  BY <1>5, <1>6, <1>7 DEF Ratio, Over, Times
<1>9. Times(Ratio(U), Product(Sigma(D))) = Times(Ratio(C), Product(Own(D)))
  BY <1>5, <1>6, <1>7 DEF Ratio, Over, Times
<1> QED  BY <1>8, <1>9 DEF U

LEMMA ProductOfNothing ==
    ASSUME NEW factor, DOMAIN factor = {}
    PROVE  Product(factor) = One
<1>1. \A f : {c \in {} : factor[c] = f} = {}
  OBVIOUS
<1> QED  BY <1>1, FS_EmptySet DEF Product, One

LEMMA RatioOfNothing == Ratio({}) = One
<1>1. Product(Own({})) = One /\ Product(Sigma({})) = One
  BY ProductOfNothing DEF Own, Sigma
<1> QED  BY <1>1 DEF Ratio, Over, One

(* ----------------------------- sets of columns ------------------------------ *)

LEMMA Division ==
    ASSUME NEW c \in Nat
    PROVE  /\ c \div ChunkLen \in Nat
           /\ ChunkLen * (c \div ChunkLen) <= c
           /\ c < ChunkLen * (c \div ChunkLen) + ChunkLen
  BY ProductAssumption

LEMMA ChunkLenTimes ==
    ASSUME NEW i \in Int, NEW j \in Int, i < j
    PROVE  ChunkLen * i + ChunkLen <= ChunkLen * j
  BY ProductAssumption

LEMMA SetsBound ==
    /\ Sets \in Nat
    /\ \A c \in Columns : c \div ChunkLen \in 0..(Sets - 1)
    /\ \A k \in 0..(Sets - 1) : ChunkLen * k < NumColumns
    /\ NumColumns <= ChunkLen * Sets
<1> DEFINE n == NumColumns + ChunkLen - 1
<1>1. n \in Nat /\ Sets = n \div ChunkLen
  BY ProductAssumption, AssemblyAssumption DEF Sets
<1>2. Sets \in Nat /\ ChunkLen * Sets <= n /\ n < ChunkLen * Sets + ChunkLen
  BY <1>1, Division
<1>3. NumColumns <= ChunkLen * Sets
  BY <1>2, ProductAssumption, AssemblyAssumption
<1>4. ASSUME NEW c \in Columns PROVE c \div ChunkLen < Sets
  <2>1. c \in Nat /\ c < NumColumns
    BY AssemblyAssumption DEF Columns
  <2>2. c \div ChunkLen \in Nat /\ ChunkLen * (c \div ChunkLen) <= c
    BY <2>1, Division
  <2>3. CASE Sets = c \div ChunkLen
    BY <1>3, <2>1, <2>2, <2>3, ProductAssumption, AssemblyAssumption
  <2>4. CASE Sets < c \div ChunkLen
    <3>1. ChunkLen * Sets + ChunkLen <= ChunkLen * (c \div ChunkLen)
      BY <1>2, <2>2, <2>4, ChunkLenTimes
    <3>2. ChunkLen * Sets \in Nat
      BY <1>2, ProductAssumption
    <3> QED  BY <1>3, <2>1, <2>2, <3>1, <3>2, ProductAssumption, AssemblyAssumption
  <2> QED  BY <1>2, <2>2, <2>3, <2>4
<1>5. ASSUME NEW k \in 0..(Sets - 1) PROVE ChunkLen * k < NumColumns
  <2>1. ChunkLen * k + ChunkLen <= ChunkLen * Sets
    BY <1>2, ChunkLenTimes
  <2>2. ChunkLen * k \in Nat
    BY <1>2, ProductAssumption
  <2> QED  BY <1>2, <2>1, <2>2, ProductAssumption, AssemblyAssumption
<1>6. \A c \in Columns : c \div ChunkLen \in Nat
  BY Division, AssemblyAssumption DEF Columns
<1> QED  BY <1>2, <1>3, <1>4, <1>5, <1>6

\* A set holds the columns from its own multiple of the length to the next or the end.
LEMMA SetIsInterval ==
    ASSUME NEW k \in 0..(Sets - 1)
    PROVE  /\ ChunkLen * k \in Nat /\ ChunkLen * k < NumColumns
           /\ Set(k) = (ChunkLen * k)..((IF k + 1 = Sets THEN NumColumns
                                         ELSE ChunkLen * (k + 1)) - 1)
           /\ k + 1 # Sets => ChunkLen * (k + 1) = ChunkLen * k + ChunkLen
           /\ k + 1 # Sets => ChunkLen * (k + 1) < NumColumns
<1>1. Sets \in Nat /\ ChunkLen * k < NumColumns /\ NumColumns <= ChunkLen * Sets
  BY SetsBound
<1>2. ChunkLen * k \in Nat
  BY <1>1, ProductAssumption
<1>3. ChunkLen * (k + 1) = ChunkLen * k + ChunkLen
  BY <1>1, ProductAssumption
<1>4. k + 1 # Sets => ChunkLen * (k + 1) < NumColumns
  <2>1. k + 1 # Sets => k + 1 \in 0..(Sets - 1)
    BY <1>1
  <2> QED  BY <2>1, SetsBound
<1>5. k + 1 = Sets => NumColumns <= ChunkLen * (k + 1)
  BY <1>1
<1>6. ASSUME NEW c \in Columns
      PROVE  c \div ChunkLen = k <=> ChunkLen * k <= c /\ c < ChunkLen * (k + 1)
  <2> DEFINE q == c \div ChunkLen
  <2>1. c \in Nat /\ q \in Nat /\ ChunkLen * q <= c /\ c < ChunkLen * q + ChunkLen
    BY Division, AssemblyAssumption DEF Columns
  <2> HIDE DEF q
  <2>2. k < q => ChunkLen * k + ChunkLen <= ChunkLen * q
    BY <1>1, <2>1, ChunkLenTimes
  <2>3. q < k => ChunkLen * q + ChunkLen <= ChunkLen * k
    BY <1>1, <2>1, ChunkLenTimes
  <2>4. ChunkLen * q \in Nat
    BY <2>1, ProductAssumption
  <2>5. q = k <=> ChunkLen * k <= c /\ c < ChunkLen * (k + 1)
    BY <1>1, <1>2, <1>3, <2>1, <2>2, <2>3, <2>4, ProductAssumption
  <2> QED  BY <2>5 DEF q
<1>7. ASSUME NEW c
      PROVE  c \in Set(k) <=> /\ c \in Columns /\ ChunkLen * k <= c
                              /\ c < ChunkLen * (k + 1)
  BY <1>6 DEF Set
<1>8. ASSUME NEW c
      PROVE  c \in Set(k) <=> c \in (ChunkLen * k)..((IF k + 1 = Sets THEN NumColumns
                                                   ELSE ChunkLen * (k + 1)) - 1)
  <2>1. CASE k + 1 = Sets
    BY <1>1, <1>2, <1>3, <1>5, <1>7, <2>1, ProductAssumption, AssemblyAssumption DEF Columns
  <2>2. CASE k + 1 # Sets
    BY <1>1, <1>2, <1>3, <1>4, <1>7, <2>2, ProductAssumption, AssemblyAssumption DEF Columns
  <2> QED  BY <2>1, <2>2
<1> QED  BY <1>1, <1>2, <1>3, <1>4, <1>8

LEMMA NextDelta ==
    ASSUME NEW k \in 0..(Sets - 1)
    PROVE  ChunkLen * k + Cardinality(Set(k)) =
               IF k + 1 = Sets THEN NumColumns ELSE ChunkLen * (k + 1)
<1> DEFINE first == ChunkLen * k
           next  == IF k + 1 = Sets THEN NumColumns ELSE ChunkLen * (k + 1)
<1>1. first \in Nat /\ next \in Nat /\ first < next /\ Set(k) = first..(next - 1)
  BY SetIsInterval, ProductAssumption, AssemblyAssumption
<1> HIDE DEF first, next
<1>2. Cardinality(Set(k)) = next - first
  BY <1>1, FS_Interval
<1>3. first + Cardinality(Set(k)) = next
  BY <1>1, <1>2
<1> QED  BY <1>3 DEF first, next

LEMMA LineIsInAll ==
    ASSUME NEW k, NEW row \in Usable
    PROVE  Line(k, row) \in SUBSET All
  BY DEF Line, Set, All

LEMMA ThroughEnds ==
    /\ Through(0, 0) = {} /\ Through(Sets, 0) = All
    /\ \A k \in 0..(Sets - 1) : Through(k + 1, 0) = Through(k, UsableRows)
<1>1. \A c \in All : c[1] \div ChunkLen \in 0..(Sets - 1)
  BY SetsBound DEF All
<1>2. \A c \in All : c[2] \in Nat /\ c[2] < UsableRows
  BY AssemblyAssumption DEF All, Usable
<1>3. Through(0, 0) = {}
  BY <1>1, <1>2 DEF Through
<1>4. Through(Sets, 0) = All
  BY <1>1, SetsBound DEF Through
<1>5. ASSUME NEW k \in 0..(Sets - 1) PROVE Through(k + 1, 0) = Through(k, UsableRows)
  <2>1. \A c \in All : c[1] \div ChunkLen < k + 1 <=> \/ c[1] \div ChunkLen < k
                                                     \/ c[1] \div ChunkLen = k
    BY <1>1, SetsBound
  <2> QED  BY <1>2, <2>1 DEF Through
<1> QED  BY <1>3, <1>4, <1>5

LEMMA ThroughLine ==
    ASSUME NEW k \in Nat, NEW row \in Usable
    PROVE  /\ Through(k, row + 1) = Through(k, row) \cup Line(k, row)
           /\ Through(k, row) \cap Line(k, row) = {}
<1>1. ASSUME NEW c
      PROVE  c \in Line(k, row) <=> c \in All /\ c[1] \div ChunkLen = k /\ c[2] = row
  BY DEF Line, Set, All
<1>2. \A c \in All : c[1] \div ChunkLen \in Nat
  BY SetsBound DEF All
<1>3. row \in Nat /\ \A c \in All : c[2] \in Nat /\ (c[2] < row + 1 <=> c[2] < row \/ c[2] = row)
  BY AssemblyAssumption DEF All, Usable
<1>4. Through(k, row + 1) = Through(k, row) \cup Line(k, row)
  BY <1>1, <1>3 DEF Through
<1>5. Through(k, row) \cap Line(k, row) = {}
  BY <1>1, <1>2, <1>3 DEF Through
<1> QED  BY <1>4, <1>5

(* --------------------------- the committed products -------------------------- *)

\* The kernel's labels are the cells' own when delta is where the set starts.
LEMMA FractionIsRatio ==
    ASSUME NEW k \in Nat, NEW row \in Usable, delta = ChunkLen * k
    PROVE  Fraction(k, row) = Ratio(Line(k, row))
<1>1. ASSUME NEW c \in Line(k, row)
      PROVE  <<delta + c[1] - ChunkLen * k, row>> = c
  <2>1. c[1] \in Int /\ c = <<c[1], row>>
    BY AssemblyAssumption DEF Line, Set, Columns
  <2>2. ChunkLen * k \in Int
    BY ProductAssumption
  <2> QED  BY <2>1, <2>2
<1>2. [c \in Line(k, row) |-> <<values[c], <<delta + c[1] - ChunkLen * k, row>>>>]
          = Own(Line(k, row))
  BY <1>1 DEF Own
<1> QED  BY <1>2 DEF Fraction, Ratio

\* The scan multiplies the ratios of the rows: an induction along the usable rows.
LEMMA ScanIsRatio ==
    ASSUME NEW k \in Nat, delta = ChunkLen * k, carry = Ratio(Through(k, 0))
    PROVE  Z(k) = [i \in 1..(UsableRows + 1) |-> Ratio(Through(k, i - 1))]
<1> DEFINE Step(z) == [i \in 0..UsableRows |->
                          IF i = 0 THEN carry ELSE Times(z[i - 1], Fraction(k, i - 1))]
           scan == CHOOSE z : z = Step(z)
           goal == [i \in 0..UsableRows |-> Ratio(Through(k, i))]
<1>1. ASSUME NEW i \in 1..UsableRows
      PROVE  Times(Ratio(Through(k, i - 1)), Fraction(k, i - 1)) = Ratio(Through(k, i))
  <2>1. i - 1 \in Usable /\ (i - 1) + 1 = i
    BY AssemblyAssumption DEF Usable
  <2>2. Fraction(k, i - 1) = Ratio(Line(k, i - 1))
    BY <2>1, FractionIsRatio
  <2>3. Through(k, i - 1) \in SUBSET All /\ Line(k, i - 1) \in SUBSET All
    BY <2>1, LineIsInAll DEF Through
  <2>4. /\ Through(k, i) = Through(k, i - 1) \cup Line(k, i - 1)
        /\ Through(k, i - 1) \cap Line(k, i - 1) = {}
    BY <2>1, ThroughLine
  <2> QED  BY <2>2, <2>3, <2>4, RatioOfUnion, ZenonT(30)
<1>2. goal = Step(goal)
  <2>1. \A i \in 0..UsableRows : i # 0 => i \in 1..UsableRows /\ i - 1 \in 0..UsableRows
    BY AssemblyAssumption
  <2>2. \A i \in 0..UsableRows : goal[i] = Ratio(Through(k, i))
    OBVIOUS
  <2> HIDE DEF goal
  <2>3. \A i \in 0..UsableRows : goal[i] =
            IF i = 0 THEN carry ELSE Times(goal[i - 1], Fraction(k, i - 1))
    BY <1>1, <2>1, <2>2
  <2> QED  BY <2>2, <2>3 DEF goal
<1>3. scan = Step(scan)
  BY <1>2
<1> HIDE DEF scan
<1>4. 0..UsableRows \subseteq {i \in 0..UsableRows : scan[i] = goal[i]}
  <2> DEFINE S == {i \in 0..UsableRows : scan[i] = goal[i]}
  <2>1. 0 \in S
    BY <1>3, AssemblyAssumption
  <2>2. ASSUME NEW i \in 0..(UsableRows - 1), i \in S PROVE i + 1 \in S
    <3>1. i + 1 \in 1..UsableRows /\ i + 1 \in 0..UsableRows /\ i + 1 # 0 /\ (i + 1) - 1 = i
      BY AssemblyAssumption
    <3>2. scan[i + 1] = Times(scan[i], Fraction(k, i))
      BY <1>3, <3>1
    <3>3. goal[i + 1] = Times(goal[i], Fraction(k, i))
      BY <1>2, <3>1
    <3> QED  BY <2>2, <3>1, <3>2, <3>3
  <2> HIDE DEF S
  <2>3. 0..UsableRows \subseteq S
    BY <2>1, <2>2, BoundedInduction, AssemblyAssumption
  <2> QED  BY <2>3 DEF S
<1>5. \A i \in 1..(UsableRows + 1) : i - 1 \in 0..UsableRows
  BY AssemblyAssumption
<1>6. Z(k) = [i \in 1..(UsableRows + 1) |-> scan[i - 1]]
  BY DEF Z, scan
<1> QED  BY <1>4, <1>5, <1>6

LEMMA InitPInv == ProductInit => PInv
<1> SUFFICES ASSUME ProductInit PROVE PInv
  OBVIOUS
<1>1. IInv
  BY InitIInv DEF ProductInit
<1>2. BlindingRowsAreFree
  BY DEF ProductInit, Init, BlindingRowsAreFree
<1>3. History
  BY DEF ProductInit, Init, History, Honoured, Least, Named
<1> QED  BY <1>1, <1>2, <1>3 DEF ProductInit, PInv

\* The assembly and the blinding rows do not depend on the prover.
LEMMA NextAssembly ==
    ASSUME IInv, BlindingRowsAreFree, [ProductNext]_product
    PROVE  IInv' /\ BlindingRowsAreFree'
<1>1. [Next]_vars
  BY DEF ProductNext, Assemble, Begin, CommitSet, Next, product
<1>2. IInv'
  BY <1>1, NextIInv
<1>3. CASE UNCHANGED <<mapping, aux, sizes>>
  BY <1>2, <1>3 DEF BlindingRowsAreFree
<1>4. ASSUME NEW l \in Cells, NEW r \in Cells, l[2] \in Usable, r[2] \in Usable,
             aux[l] # aux[r], Merge(l, r)
      PROVE  BlindingRowsAreFree'
  BY <1>4, MergeFacts DEF IInv, TypeOK, BlindingRowsAreFree
<1> QED  BY <1>1, <1>2, <1>3, <1>4, StepCases

\* A step of the product accepts a copy, which is then recorded, or leaves the
\* mapping, the names and the history alone.
LEMMA CopyCases ==
    ASSUME [ProductNext]_product
    PROVE  \/ UNCHANGED <<mapping, aux, sizes, copied>>
           \/ \E l, r \in All :
                 /\ <<l, r>> \in Calls /\ copied' = copied \cup {<<l, r>>}
                 /\ IF aux[l] = aux[r] THEN UNCHANGED aux ELSE Merge(l, r)
<1>1. CASE UNCHANGED product \/ Begin \/ CommitSet
  BY <1>1 DEF product, vars, Begin, CommitSet
<1>2. CASE Assemble
  <2>1. PICK call \in Calls : \/ Copy(call[1], call[2]) /\ copied' = copied \cup {call}
                              \/ Refuse(call[1], call[2]) /\ UNCHANGED copied
    BY <1>2 DEF Assemble
  <2>2. CASE Refuse(call[1], call[2]) /\ UNCHANGED copied
    BY <2>2 DEF Refuse
  <2>3. CASE Copy(call[1], call[2]) /\ copied' = copied \cup {call}
    <3>1. call = <<call[1], call[2]>>
      BY AssemblyAssumption
    <3>2. call[1] \in All /\ call[2] \in All
      BY <2>3, AssemblyAssumption DEF Copy, Accepted, All
    <3>3. IF aux[call[1]] = aux[call[2]] THEN UNCHANGED aux ELSE Merge(call[1], call[2])
      BY <2>3 DEF Copy, Linked
    <3> QED  BY <2>3, <3>1, <3>2, <3>3
  <2> QED  BY <2>1, <2>2, <2>3
<1> QED  BY <1>1, <1>2 DEF ProductNext

\* The names of the calls that were recorded before stay joined, and a set that no
\* call crosses, the new one included, has both of the names that are joined.
LEMMA MergeHistory ==
    ASSUME IInv, History, NEW l \in All, NEW r \in All, <<l, r>> \in Calls,
           copied' = copied \cup {<<l, r>>}, aux[l] # aux[r], Merge(l, r)
    PROVE  History'
<1> DEFINE A == Named(aux[l])
           B == Named(aux[r])
<1>1. l \in Cells /\ r \in Cells /\ l \in A /\ r \in B
  BY AllIsFinite DEF Named
<1>2. \A d \in Cells : aux'[d] = IF aux[d] \in {aux[l], aux[r]} THEN Into(l, r) ELSE aux[d]
  BY <1>1, MergedNames
<1>3. \A d \in Cells : Named(aux[d])' =
          IF aux[d] \in {aux[l], aux[r]} THEN A \cup B ELSE Named(aux[d])
  BY <1>1, MergedNames DEF Merged
<1>4. Honoured'
  <2>1. \A call \in copied : /\ call[1] \in All /\ call[2] \in All
                             /\ call[1] \in Cells /\ call[2] \in Cells
                             /\ aux[call[1]] = aux[call[2]]
    BY AllIsFinite DEF History, Honoured
  <2>2. \A call \in copied : aux'[call[1]] = aux'[call[2]]
    BY <1>2, <2>1
  <2>3. aux'[l] = aux'[r]
    BY <1>1, <1>2
  <2> QED  BY <2>1, <2>2, <2>3 DEF Honoured
<1>5. ASSUME NEW c \in Cells, NEW S \in SUBSET Cells, c \in S, Closed(S)'
      PROVE  Named(aux[c])' \subseteq S
  <2>1. Closed(S) /\ (l \in S <=> r \in S)
    BY <1>5 DEF Closed
  <2>2. \A d \in S : Named(aux[d]) \subseteq S
    BY <2>1 DEF History, Least
  <2>3. CASE aux[c] \in {aux[l], aux[r]}
    <3>1. l \in Named(aux[c]) \/ r \in Named(aux[c])
      BY <1>1, <2>3 DEF Named
    <3>2. l \in S /\ r \in S
      BY <1>5, <2>1, <2>2, <3>1
    <3>3. A \cup B \subseteq S
      BY <2>2, <3>2
    <3> QED  BY <1>3, <2>3, <3>3
  <2>4. CASE aux[c] \notin {aux[l], aux[r]}
    BY <1>3, <1>5, <2>2, <2>4
  <2> QED  BY <2>3, <2>4
<1>6. Least'
  BY <1>5 DEF Least
<1>7. copied' \subseteq Calls
  BY DEF History
<1> QED  BY <1>4, <1>6, <1>7 DEF History

LEMMA NextHistory ==
    ASSUME IInv, History, [ProductNext]_product
    PROVE  History'
<1>1. CASE UNCHANGED <<mapping, aux, sizes, copied>>
  BY <1>1 DEF History, Honoured, Least, Closed, Named
<1>2. ASSUME NEW l \in All, NEW r \in All, <<l, r>> \in Calls,
             copied' = copied \cup {<<l, r>>}, aux[l] = aux[r], UNCHANGED aux
      PROVE  History'
  <2>1. Honoured'
    BY <1>2 DEF History, Honoured
  <2>2. \A S : Closed(S)' => Closed(S)
    BY <1>2 DEF Closed
  <2>3. Least'
    BY <1>2, <2>2 DEF History, Least, Named
  <2> QED  BY <1>2, <2>1, <2>3 DEF History
<1>3. ASSUME NEW l \in All, NEW r \in All, <<l, r>> \in Calls,
             copied' = copied \cup {<<l, r>>}, aux[l] # aux[r], Merge(l, r)
      PROVE  History'
  BY <1>3, MergeHistory
<1> QED  BY <1>1, <1>2, <1>3, CopyCases

\* Before the first product nothing is proved and the labels start from delta^0.
LEMMA BeginProving ==
    ASSUME values = <<>>, carry = One, delta = 0, products = <<>>, Begin, values' # <<>>
    PROVE  Proving'
<1>1. /\ values' \in [All -> Values] /\ carry' = One /\ delta' = 0 /\ products' = <<>>
      /\ Len(products') = 0
  BY DEF Begin, All
<1>2. All # {}
  <2> SUFFICES ASSUME All = {} PROVE FALSE
    OBVIOUS
  <2>1. values' = <<>>
    BY <1>1
  <2> QED  BY <2>1
<1>3. Sets \in Nat /\ Sets # 0
  <2>1. PICK c \in Columns : TRUE
    BY <1>2 DEF All
  <2> QED  BY <2>1, SetsBound
<1>4. products' \in Seq([1..(UsableRows + 1) -> [Factors -> Int]])
  BY <1>1
<1>5. Ratio({})' = One
  <2>1. Product(Own({})') = One /\ Product(Sigma({})') = One
    BY ProductOfNothing DEF Own, Sigma
  <2> QED  BY <2>1 DEF Ratio, Over, One
<1>6. carry' = Ratio(Through(Len(products), 0))'
  BY <1>1, <1>5, ThroughEnds
<1>7. ChunkLen * 0 = 0
  BY ProductAssumption
<1>8. DeltaIsFirstColumn'
  BY <1>1, <1>3, <1>7 DEF DeltaIsFirstColumn
<1>9. ProductsAreRatios'
  BY <1>1, <1>6 DEF ProductsAreRatios
<1> QED  BY <1>1, <1>2, <1>3, <1>4, <1>8, <1>9 DEF Proving

LEMMA CommitProving ==
    ASSUME values # <<>>, Proving, CommitSet
    PROVE  Proving'
<1> DEFINE k == Len(products)
           U == UsableRows + 1
           V == [1..U -> [Factors -> Int]]
<1>1. k \in Nat /\ k \in 0..(Sets - 1) /\ k # Sets /\ Sets \in Nat
  BY SetsBound DEF CommitSet, Proving
<1>2. delta = ChunkLen * k /\ carry = Ratio(Through(k, 0))
  BY <1>1 DEF Proving, DeltaIsFirstColumn, ProductsAreRatios
<1>3. Z(k) = [i \in 1..U |-> Ratio(Through(k, i - 1))]
  BY <1>1, <1>2, ScanIsRatio
<1>4. Z(k) \in V
  <2>1. \A i \in 1..U : Through(k, i - 1) \in SUBSET All
    BY DEF Through
  <2>2. \A i \in 1..U : Ratio(Through(k, i - 1)) \in [Factors -> Int]
    BY <2>1, RatioType
  <2> QED  BY <1>3, <2>2
<1>5. products \in Seq(V) /\ products' = Append(products, Z(k))
  BY DEF Proving, CommitSet
<1>6. /\ products' \in Seq(V) /\ Len(products') = k + 1
      /\ products'[k + 1] = Z(k)
      /\ \A i \in 1..k : products'[i] = products[i]
  <2> HIDE DEF V
  <2> QED  BY <1>4, <1>5
<1>7. \A C : Ratio(C)' = Ratio(C)
  BY DEF CommitSet, vars, Ratio, Own, Sigma
<1>8. carry' = Ratio(Through(k + 1, 0))
  <2>1. carry' = Z(k)[U]
    BY DEF CommitSet, CarryOf
  <2>2. U \in 1..U /\ U - 1 = UsableRows
    BY AssemblyAssumption
  <2>3. carry' = Ratio(Through(k, UsableRows))
    BY <1>3, <2>1, <2>2
  <2> QED  BY <1>1, <2>3, ThroughEnds
<1>9. \A i \in 1..(k + 1) : products'[i] = [row \in 1..U |-> Ratio(Through(i - 1, row - 1))]
  <2>1. \A i \in 1..k : products[i] = [row \in 1..U |-> Ratio(Through(i - 1, row - 1))]
    BY DEF Proving, ProductsAreRatios
  <2>2. products'[k + 1] = [row \in 1..U |-> Ratio(Through((k + 1) - 1, row - 1))]
    BY <1>1, <1>3, <1>6
  <2>3. \A i \in 1..(k + 1) : i \in 1..k \/ i = k + 1
    BY <1>1
  <2> QED  BY <1>6, <2>1, <2>2, <2>3
<1>10. ProductsAreRatios'
  <2>1. \A i, row : Ratio(Through(i, row))' = Ratio(Through(i, row))
    BY <1>7 DEF Through
  <2> QED  BY <1>6, <1>8, <1>9, <2>1 DEF ProductsAreRatios
<1>11. DeltaIsFirstColumn'
  <2>1. delta' = ChunkLen * k + Cardinality(Set(k))
    BY <1>2 DEF CommitSet, DeltaAfter
  <2> QED  BY <1>1, <1>6, <2>1, NextDelta DEF DeltaIsFirstColumn
<1>12. All # {} /\ values' \in [All -> Values]
  BY DEF Proving, CommitSet
<1>13. Len(products') <= Sets
  BY <1>1, <1>6
<1> QED  BY <1>6, <1>10, <1>11, <1>12, <1>13 DEF Proving

LEMMA NextPInv == PInv /\ [ProductNext]_product => PInv'
<1> SUFFICES ASSUME PInv, [ProductNext]_product PROVE PInv'
  OBVIOUS
<1>1. IInv' /\ BlindingRowsAreFree' /\ History'
  BY NextAssembly, NextHistory DEF PInv
<1>2. CASE UNCHANGED product
  <2>1. UNCHANGED <<values, carry, delta, products, mapping>>
    BY <1>2 DEF product, vars, proving
  <2>2. \A C : Ratio(C)' = Ratio(C)
    BY <2>1 DEF Ratio, Own, Sigma
  <2>3. Proving => Proving'
    BY <2>1, <2>2 DEF Proving, ProductsAreRatios, DeltaIsFirstColumn, Through
  <2> QED  BY <1>1, <2>1, <2>3 DEF PInv
<1>3. CASE Assemble
  BY <1>1, <1>3 DEF PInv, Assemble, proving
<1>4. CASE Begin
  <2>1. values = <<>> /\ carry = One /\ delta = 0 /\ products = <<>>
    BY <1>4 DEF PInv, Begin
  <2>2. CASE values' = <<>>
    BY <1>1, <1>4, <2>1, <2>2 DEF PInv, Begin
  <2>3. CASE values' # <<>>
    BY <1>1, <1>4, <2>1, <2>3, BeginProving DEF PInv
  <2> QED  BY <2>2, <2>3
<1>5. CASE CommitSet
  <2>1. values # <<>> /\ Proving
    BY <1>5 DEF PInv, CommitSet
  <2>2. Proving'
    BY <1>5, <2>1, CommitProving
  <2> QED  BY <1>1, <1>5, <2>1, <2>2 DEF PInv, CommitSet
<1> QED  BY <1>2, <1>3, <1>4, <1>5 DEF ProductNext

THEOREM ProductInvariance == ProductSpec => []PInv
  BY InitPInv, NextPInv, PTL DEF ProductSpec

\* The names implement CopyClasses: each copy that keygen accepts joins the classes
\* of its own two cells, and nothing else does.
THEOREM Implementation == ProductSpec => ImplementsCopyClasses
<1> DEFINE class == [c \in Cells |-> Named(aux[c])]
<1>1. ProductInit => Classes!Init
  <2> SUFFICES ASSUME ProductInit
               PROVE  copied = {} /\ class = [c \in Cells |-> {c}]
    BY DEF Classes!Init
  <2> QED  BY DEF ProductInit, Init, Named
<1>2. PInv /\ [ProductNext]_product => [Classes!Next]_(Classes!vars)
  <2> SUFFICES ASSUME PInv, [ProductNext]_product
               PROVE  Classes!Next \/ (UNCHANGED copied /\ class' = class)
    BY DEF Classes!vars
  <2>1. CASE UNCHANGED <<mapping, aux, sizes, copied>>
    BY <2>1 DEF Named
  <2>2. ASSUME NEW l \in All, NEW r \in All, copied' = copied \cup {<<l, r>>},
               IF aux[l] = aux[r] THEN UNCHANGED aux ELSE Merge(l, r)
        PROVE  Classes!Copy(l, r)
    <3>1. l \in Cells /\ r \in Cells
      BY AllIsFinite
    <3>2. Classes!Merged(l, r) = Merged(l, r)
      BY <3>1 DEF Classes!Merged, Merged
    <3>3. ASSUME NEW c \in Cells
          PROVE  Named(aux[c])' = IF c \in Merged(l, r) THEN Merged(l, r) ELSE Named(aux[c])
      <4>1. c \in Merged(l, r) <=> aux[c] \in {aux[l], aux[r]}
        BY DEF Merged, Named
      <4>2. CASE aux[l] = aux[r]
        BY <2>2, <4>1, <4>2 DEF Merged, Named
      <4>3. CASE aux[l] # aux[r]
        BY <2>2, <3>1, <4>1, <4>3, MergedNames DEF PInv
      <4> QED  BY <4>2, <4>3
    <3>4. class' = [c \in Cells |-> IF c \in Merged(l, r) THEN Merged(l, r) ELSE class[c]]
      BY <3>3
    <3> QED  BY <2>2, <3>2, <3>4 DEF Classes!Copy, Classes!Link
  <2>3. CASE \E l, r \in All :
                /\ <<l, r>> \in Calls /\ copied' = copied \cup {<<l, r>>}
                /\ IF aux[l] = aux[r] THEN UNCHANGED aux ELSE Merge(l, r)
    BY <2>2, <2>3, AllIsFinite DEF Classes!Next
  <2> QED  BY <2>1, <2>3, CopyCases
<1> QED  BY <1>1, <1>2, ProductInvariance, PTL
         DEF ProductSpec, ImplementsCopyClasses, Classes!Spec

LEMMA PInvTypeOK == PInv => ProductTypeOK
<1> SUFFICES ASSUME PInv PROVE ProductTypeOK
  OBVIOUS
<1>1. TypeOK /\ copied \subseteq Calls
  BY DEF PInv, IInv, History
<1>2. CASE values = <<>>
  BY <1>1, <1>2, SetsBound, AssemblyAssumption DEF PInv, ProductTypeOK, One
<1>3. CASE values # <<>>
  <2>1. Proving
    BY <1>3 DEF PInv
  <2>2. Through(Len(products), 0) \in SUBSET All
    BY DEF Through
  <2>3. carry \in [Factors -> Int]
    BY <2>1, <2>2, RatioType DEF Proving, ProductsAreRatios
  <2>4. delta \in 0..NumColumns
    <3>1. Len(products) \in Nat
      BY <2>1 DEF Proving
    <3>2. CASE Len(products) = Sets
      BY <2>1, <3>2, AssemblyAssumption DEF Proving, DeltaIsFirstColumn
    <3>3. CASE Len(products) # Sets
      <4>1. Len(products) \in 0..(Sets - 1)
        BY <2>1, <3>1, <3>3, SetsBound DEF Proving
      <4> QED  BY <2>1, <3>3, <4>1, SetIsInterval, AssemblyAssumption
               DEF Proving, DeltaIsFirstColumn
    <3> QED  BY <3>2, <3>3
  <2> QED  BY <1>1, <2>1, <2>3, <2>4 DEF Proving, ProductTypeOK, All
<1> QED  BY <1>2, <1>3

\* The prover's state is well typed: there is never a product too many, and the power
\* of delta stays within the columns, for every length of a set.
THEOREM ProductTypeCorrect == ProductSpec => []ProductTypeOK
  BY PInvTypeOK, ProductInvariance, PTL

\* Between two sets the carry is the product over all the cells so far.
THEOREM CarriesRunningProduct == ProductSpec => []CarryIsRunningProduct
<1>1. PInv => CarryIsRunningProduct
  <2> SUFFICES ASSUME PInv, values # <<>> PROVE CarryIsRunningProduct
    BY DEF CarryIsRunningProduct
  <2>1. Proving
    BY DEF PInv
  <2>2. \A c \in All : ~(c[2] < 0)
    BY AssemblyAssumption DEF All, Usable
  <2>3. Through(Len(products), 0) =
            {c \in DOMAIN values : c[1] \div ChunkLen < Len(products)}
    BY <2>1, <2>2 DEF Proving, Through
  <2> QED  BY <2>1, <2>3 DEF CarryIsRunningProduct, Proving, ProductsAreRatios, Ratio
<1> QED  BY <1>1, ProductInvariance, PTL

(* ------------------------------ what is accepted ----------------------------- *)

ValuesAlong == \A c \in All : values[mapping[c]] = values[c]

\* The rows in front of the blinding rows are closed under mapping.
LEMMA MappingInAll ==
    ASSUME IInv, BlindingRowsAreFree, NEW c \in All
    PROVE  mapping[c] \in All
<1>1. c \in Cells /\ mapping[c] \in Cells
  BY AllIsFinite DEF IInv, TypeOK
<1>2. mapping[c] \notin All => mapping[mapping[c]] = mapping[c]
  BY <1>1 DEF BlindingRowsAreFree, All, Cells
<1>3. mapping[mapping[c]] = mapping[c] => mapping[c] = c
  BY <1>1 DEF IInv, MappingIsPermutation
<1> QED  BY <1>2, <1>3

\* Every cell is behind another: a set with the successors of a whole cycle is closed,
\* so it has the cycle.
LEMMA MappingOnto ==
    ASSUME IInv, NEW d \in Cells
    PROVE  \E c \in Cells : mapping[c] = d
<1> DEFINE S == {mapping[c] : c \in Named(aux[d])}
<1>1. \A c \in Named(aux[d]) : /\ c \in Cells /\ mapping[c] \in Cells
                               /\ mapping[c] \in Named(aux[d])
  BY DEF Named, IInv, TypeOK, NamesAlong
<1>2. d \in Named(aux[d]) /\ aux[mapping[d]] = aux[d] /\ mapping[d] \in S
  BY DEF Named, IInv, NamesAlong
<1>3. S \in SUBSET Cells /\ \A e \in S : mapping[e] \in S
  BY <1>1
<1>4. mapping[d] \in Cells
  BY <1>1, <1>2
<1>5. \A c \in Named(aux[d]) : c \in Cells
  BY <1>1
<1> HIDE DEF S
<1>6. Named(aux[mapping[d]]) \subseteq S
  BY <1>2, <1>3, <1>4 DEF IInv, Rings
<1>7. d \in S
  BY <1>2, <1>6
<1> QED  BY <1>5, <1>7 DEF S

LEMMA SameValuesOnNames ==
    ASSUME IInv, BlindingRowsAreFree, values \in [All -> Values]
    PROVE  ValuesAlong <=> \A c, d \in All : aux[c] = aux[d] => values[c] = values[d]
<1>1. ASSUME ValuesAlong, NEW c \in All, NEW d \in All, aux[c] = aux[d]
      PROVE  values[c] = values[d]
  <2> DEFINE S == {e \in All : values[e] = values[c]}
  <2>1. S \in SUBSET Cells /\ c \in S /\ c \in Cells /\ d \in Cells
    BY AllIsFinite
  <2>2. \A e \in S : mapping[e] \in S
    BY <1>1, MappingInAll DEF ValuesAlong
  <2> HIDE DEF S
  <2>3. Named(aux[c]) \subseteq S
    BY <2>1, <2>2 DEF IInv, Rings
  <2>4. d \in Named(aux[c])
    BY <1>1, <2>1 DEF Named
  <2> QED  BY <2>3, <2>4 DEF S
<1>2. ASSUME \A c, d \in All : aux[c] = aux[d] => values[c] = values[d], NEW c \in All
      PROVE  values[mapping[c]] = values[c]
  BY <1>2, MappingInAll, AllIsFinite DEF IInv, NamesAlong
<1> QED  BY <1>1, <1>2 DEF ValuesAlong

\* The cells with the value of one cell are a set that no copy crosses when every copy
\* is of equal cells.
LEMMA SameValuesOnCopies ==
    ASSUME IInv, BlindingRowsAreFree, History, values \in [All -> Values]
    PROVE  ValuesAlong <=> \A call \in copied : values[call[1]] = values[call[2]]
<1>1. ASSUME ValuesAlong, NEW call \in copied
      PROVE  values[call[1]] = values[call[2]]
  <2>1. call[1] \in All /\ call[2] \in All /\ aux[call[1]] = aux[call[2]]
    BY DEF History, Honoured
  <2> QED  BY <1>1, <2>1, SameValuesOnNames
<1>2. ASSUME \A call \in copied : values[call[1]] = values[call[2]],
             NEW c \in All, NEW d \in All, aux[c] = aux[d]
      PROVE  values[c] = values[d]
  <2> DEFINE S == {e \in All : values[e] = values[c]}
  <2>1. S \in SUBSET Cells /\ c \in S /\ c \in Cells /\ d \in Cells
    BY AllIsFinite
  <2>2. Closed(S)
    BY <1>2 DEF History, Honoured, Closed
  <2> HIDE DEF S
  <2>3. Named(aux[c]) \subseteq S
    BY <2>1, <2>2 DEF History, Least
  <2>4. d \in Named(aux[c])
    BY <1>2, <2>1 DEF Named
  <2> QED  BY <2>3, <2>4 DEF S
<1> QED  BY <1>1, <1>2, SameValuesOnNames

\* The ratio over all cells is one exactly when values are constant along mapping.
LEMMA RatioIsOne ==
    ASSUME IInv, BlindingRowsAreFree, values \in [All -> Values]
    PROVE  Ratio(All) = One <=> ValuesAlong
<1> DEFINE L(f) == {c \in All : <<values[c], c>> = f}
           R(f) == {c \in All : <<values[c], mapping[c]>> = f}
<1>1. \A f \in Factors : /\ IsFiniteSet(L(f)) /\ IsFiniteSet(R(f))
                         /\ Cardinality(L(f)) \in Nat /\ Cardinality(R(f)) \in Nat
  <2>1. \A f \in Factors : IsFiniteSet(L(f)) /\ IsFiniteSet(R(f))
    BY AllIsFinite, FS_Subset
  <2> QED  BY <2>1, FS_CardinalityType
<1>2. \A f \in Factors : /\ Product(Own(All))[f] = Cardinality(L(f))
                         /\ Product(Sigma(All))[f] = Cardinality(R(f))
  <2>1. DOMAIN Own(All) = All /\ DOMAIN Sigma(All) = All
    BY DEF Own, Sigma
  <2>2. \A f : /\ {c \in All : Own(All)[c] = f} = L(f)
               /\ {c \in All : Sigma(All)[c] = f} = R(f)
    BY DEF Own, Sigma
  <2> QED  BY <2>1, <2>2 DEF Product
<1>3. Ratio(All) = One <=> \A f \in Factors : Cardinality(L(f)) = Cardinality(R(f))
  <2> HIDE DEF L, R
  <2>1. Ratio(All) = One <=>
            \A f \in Factors : Product(Own(All))[f] - Product(Sigma(All))[f] = 0
    BY DEF Ratio, Over, One
  <2> QED  BY <1>1, <1>2, <2>1
<1>4. ASSUME \A f \in Factors : Cardinality(L(f)) = Cardinality(R(f)), NEW c \in All
      PROVE  values[mapping[c]] = values[c]
  <2> DEFINE f == <<values[c], mapping[c]>>
  <2>1. f \in Factors /\ c \in R(f)
    BY AllIsFinite, MappingInAll DEF Factors
  <2>2. Cardinality(R(f)) # 0
    <3> HIDE DEF f, R
    <3> QED  BY <1>1, <2>1, FS_EmptySet
  <2>3. L(f) # {}
    <3> HIDE DEF f, R, L
    <3> QED  BY <1>4, <2>1, <2>2, FS_EmptySet
  <2> QED  BY <2>3
<1>5. ASSUME ValuesAlong, NEW f \in Factors
      PROVE  Cardinality(L(f)) = Cardinality(R(f))
  <2>1. CASE L(f) = {}
    <3>1. R(f) = {}
      BY <1>5, <2>1, MappingInAll DEF ValuesAlong
    <3> QED  BY <2>1, <3>1
  <2>2. CASE L(f) # {}
    <3>1. PICK d \in All : <<values[d], d>> = f
      BY <2>2
    <3>2. L(f) = {d}
      BY <3>1
    <3>3. PICK c \in Cells : mapping[c] = d
      BY <3>1, AllIsFinite, MappingOnto
    <3>4. c \in All
      BY <3>1, <3>3 DEF BlindingRowsAreFree, All, Cells
    <3>5. R(f) = {c}
      <4>1. values[c] = values[d]
        BY <1>5, <3>3, <3>4 DEF ValuesAlong
      <4>2. \A e \in All : mapping[e] = d => e = c
        BY <3>3, AllIsFinite DEF IInv, MappingIsPermutation
      <4> QED  BY <3>1, <3>3, <3>4, <4>1, <4>2
    <3> QED  BY <3>2, <3>5, FS_Singleton
  <2> QED  BY <2>1, <2>2
<1> HIDE DEF L, R
<1> QED  BY <1>3, <1>4, <1>5 DEF ValuesAlong

\* When every product is committed, all constraints but the last value hold of
\* themselves, and the last value is the ratio over all cells.
LEMMA AcceptsRatio ==
    ASSUME values # <<>>, Proving, Len(products) = Sets
    PROVE  Accepts <=> Ratio(All) = One
<1>1. Sets \in Nat /\ Sets # 0
  <2>1. \E c \in Columns : TRUE
    BY DEF Proving, All
  <2> QED  BY <2>1, SetsBound
<1>2. UsableRows + 1 \in 1..(UsableRows + 1) /\ 1 \in 1..(UsableRows + 1) /\ UsableRows \in Nat
  BY AssemblyAssumption
<1>3. ASSUME NEW k \in 0..(Sets - 1), NEW i \in 1..(UsableRows + 1)
      PROVE  products[k + 1][i] = Ratio(Through(k, i - 1))
  <2>1. k + 1 \in 1..Len(products) /\ (k + 1) - 1 = k
    BY <1>1
  <2> QED  BY <2>1 DEF Proving, ProductsAreRatios
<1>4. ASSUME NEW k \in 0..(Sets - 1)
      PROVE  /\ products[k + 1][1] = Ratio(Through(k, 0))
             /\ products[k + 1][UsableRows + 1] = Ratio(Through(k + 1, 0))
  <2>1. 1 - 1 = 0 /\ (UsableRows + 1) - 1 = UsableRows
    BY <1>2
  <2> QED  BY <1>2, <1>3, <2>1, ThroughEnds
<1>5. products[0 + 1][1] = One
  <2>1. 0 \in 0..(Sets - 1)
    BY <1>1
  <2> QED  BY <1>4, <2>1, ThroughEnds, RatioOfNothing
<1>6. products[(Sets - 1) + 1][UsableRows + 1] = Ratio(All)
  <2>1. Sets - 1 \in 0..(Sets - 1) /\ (Sets - 1) + 1 = Sets
    BY <1>1
  <2> QED  BY <1>4, <2>1, ThroughEnds
<1>7. \A k \in 1..(Sets - 1) : products[k + 1][1] = products[(k - 1) + 1][UsableRows + 1]
  <2>1. \A k \in 1..(Sets - 1) : /\ k \in 0..(Sets - 1) /\ k - 1 \in 0..(Sets - 1)
                                 /\ (k - 1) + 1 = k
    BY <1>1
  <2> QED  BY <1>4, <2>1
<1>8. ASSUME NEW k \in 0..(Sets - 1), NEW row \in Usable
      PROVE  Times(products[k + 1][row + 2], Product(Sigma(Line(k, row))))
                 = Times(products[k + 1][row + 1], Product(Own(Line(k, row))))
  <2>1. /\ row + 1 \in 1..(UsableRows + 1) /\ (row + 1) - 1 = row
        /\ row + 2 \in 1..(UsableRows + 1) /\ (row + 2) - 1 = row + 1 /\ k \in Nat
    BY <1>1, <1>2 DEF Usable
  <2>2. /\ products[k + 1][row + 2] = Ratio(Through(k, row + 1))
        /\ products[k + 1][row + 1] = Ratio(Through(k, row))
    BY <1>3, <2>1
  <2>3. /\ Through(k, row + 1) = Through(k, row) \cup Line(k, row)
        /\ Through(k, row) \cap Line(k, row) = {}
    BY <2>1, ThroughLine
  <2>4. Through(k, row) \in SUBSET All /\ Line(k, row) \in SUBSET All
    BY LineIsInAll DEF Through
  <2> QED  BY <2>2, <2>3, <2>4, RatioOfUnion
<1> QED  BY <1>5, <1>6, <1>7, <1>8 DEF Accepts

\* The verifier accepts the chained products of a witness exactly when the two cells
\* of every copy that keygen accepted are equal, however many columns a set has.
THEOREM AcceptsCopies == ProductSpec => []AcceptsExactlyCopies
<1>1. PInv => AcceptsExactlyCopies
  <2> SUFFICES ASSUME PInv, values # <<>>, Len(products) = Sets
               PROVE  Accepts <=> \A call \in copied : values[call[1]] = values[call[2]]
    BY DEF AcceptsExactlyCopies
  <2>1. Proving /\ IInv /\ BlindingRowsAreFree /\ History
    BY DEF PInv
  <2>2. values \in [All -> Values]
    BY <2>1 DEF Proving
  <2>3. Accepts <=> Ratio(All) = One
    BY <2>1, AcceptsRatio
  <2>4. Ratio(All) = One <=> ValuesAlong
    BY <2>1, <2>2, RatioIsOne
  <2> QED  BY <2>1, <2>2, <2>3, <2>4, SameValuesOnCopies
<1> QED  BY <1>1, ProductInvariance, PTL
================================================================================
