----------------------------- MODULE DataInduction -----------------------------
(* Induction over the naturals with sets in the place of predicates, and what  *)
(* follows for sequences put together from parts: the proofs about scans and   *)
(* transcripts rest on it.                                                     *)
EXTENDS Integers, Sequences, SequencesExt, Listing, NaturalsInduction, WellFoundedInduction, TLAPS

\* A set of naturals that is not empty has a least element.
LEMMA LeastNatural ==
    ASSUME NEW S \in SUBSET Nat, S # {}
    PROVE  \E m \in S : \A k \in S : m <= k
<1> DEFINE Less == {p \in Nat \X Nat : p[1] < p[2]}
<1>1. \A x, y \in Nat : <<x, y>> \in Less <=> x < y
  OBVIOUS
<1>2. IsWellFoundedOn(Less, Nat)
  BY NatLessThanWellFounded DEF OpToRel
<1> HIDE DEF Less
<1>3. PICK m \in S : \A k \in S : ~(<<k, m>> \in Less)
  BY <1>2, WFMin
<1>4. \A k \in S : ~(k < m)
  BY <1>1, <1>3
<1> QED  BY <1>4

\* Induction: a set with 0 that is closed under successor has every natural.
LEMMA SetInduction ==
    ASSUME NEW S, 0 \in S, \A n \in Nat : n \in S => n + 1 \in S
    PROVE  Nat \subseteq S
<1> SUFFICES ASSUME Nat \ S # {} PROVE FALSE
  OBVIOUS
<1>1. PICK m \in Nat \ S : \A k \in Nat \ S : m <= k
  BY LeastNatural
<1>2. m - 1 \in Nat /\ m - 1 \notin Nat \ S
  BY <1>1
<1> QED  BY <1>1, <1>2

\* The same up to a bound.
LEMMA BoundedInduction ==
    ASSUME NEW n \in Nat, NEW S, 0 \in S, \A i \in 0..(n - 1) : i \in S => i + 1 \in S
    PROVE  0..n \subseteq S
<1> DEFINE T == {i \in Nat : i <= n => i \in S}
<1>1. 0 \in T
  OBVIOUS
<1>2. ASSUME NEW i \in Nat, i \in T PROVE i + 1 \in T
  BY <1>2
<1> HIDE DEF T
<1>3. Nat \subseteq T
  BY <1>1, <1>2, SetInduction
<1> QED  BY <1>3 DEF T

\* f runs for n steps from x.
IsRun(f, V, x, step, n) ==
    /\ f \in [0..n -> V] /\ f[0] = x
    /\ \A i \in 0..(n - 1) : f[i + 1] = step[<<i, f[i]>>]

\* A function that is defined by recursion on its argument exists.
LEMMA RunExists ==
    ASSUME NEW V, NEW x \in V, NEW n \in Nat, NEW step \in [Nat \X V -> V]
    PROVE  \E f : IsRun(f, V, x, step, n)
<1> DEFINE S == {m \in Nat : \E f : IsRun(f, V, x, step, m)}
<1>1. 0 \in S
  <2>1. IsRun([j \in 0..0 |-> x], V, x, step, 0)
    BY DEF IsRun
  <2> QED  BY <2>1
<1>2. ASSUME NEW m \in Nat, m \in S PROVE m + 1 \in S
  <2>1. PICK f : IsRun(f, V, x, step, m)
    BY <1>2
  <2>2. /\ f \in [0..m -> V] /\ f[0] = x
        /\ \A i \in 0..(m - 1) : f[i + 1] = step[<<i, f[i]>>]
    BY <2>1 DEF IsRun
  <2>3. m \in 0..m
    OBVIOUS
  <2>4. f[m] \in V
    BY <2>2, <2>3
  <2>5. step[<<m, f[m]>>] \in V
    BY <2>4
  <2>6. PICK g : g = [j \in 0..(m + 1) |-> IF j = m + 1 THEN step[<<m, f[m]>>] ELSE f[j]]
    OBVIOUS
  <2>7. g[m + 1] = step[<<m, f[m]>>] /\ \A j \in 0..m : g[j] = f[j]
    BY <2>6
  <2>8. g \in [0..(m + 1) -> V]
    <3>1. \A j \in 0..(m + 1) : j # m + 1 => j \in 0..m
      OBVIOUS
    <3>2. \A j \in 0..(m + 1) : g[j] \in V
      BY <2>2, <2>5, <2>7, <3>1
    <3> QED  BY <2>6, <3>2
  <2>9. ASSUME NEW i \in 0..m PROVE g[i + 1] = step[<<i, g[i]>>]
    <3>1. CASE i = m
      BY <2>3, <2>7, <3>1
    <3>2. CASE i # m
      <4>1. i \in 0..(m - 1) /\ i \in 0..m /\ i + 1 \in 0..m
        BY <3>2
      <4>2. g[i] = f[i] /\ g[i + 1] = f[i + 1]
        BY <2>7, <4>1
      <4> QED  BY <2>2, <4>1, <4>2
    <3> QED  BY <3>1, <3>2
  <2>10. IsRun(g, V, x, step, m + 1)
    <3>1. g[0] = x /\ (m + 1) - 1 = m
      BY <2>2, <2>7
    <3> QED  BY <2>8, <2>9, <3>1 DEF IsRun
  <2> QED  BY <2>10
<1> HIDE DEF S
<1>3. Nat \subseteq S
  BY <1>1, <1>2, SetInduction
<1> QED  BY <1>3 DEF S

(* --------------------------------- sequences --------------------------------- *)

\* Two sequences of one length whose elements at every place are in relation.
Matches(s, t, R) == Len(s) = Len(t) /\ \A k \in 1..Len(s) : <<s[k], t[k]>> \in R

\* Concatenations of sequences that correspond do.
LEMMA ConcatMatches ==
    ASSUME NEW V, NEW W, NEW R, NEW s \in Seq(V), NEW u \in Seq(V),
           NEW t \in Seq(W), NEW v \in Seq(W), Matches(s, t, R), Matches(u, v, R)
    PROVE  Matches(s \o u, t \o v, R)
<1>1. Len(s \o u) = Len(s) + Len(u) /\ Len(t \o v) = Len(t) + Len(v)
  OBVIOUS
<1>2. Len(s) = Len(t) /\ Len(u) = Len(v) /\ Len(s) \in Nat /\ Len(u) \in Nat
  BY DEF Matches
<1>3. ASSUME NEW k \in 1..Len(s \o u) PROVE <<(s \o u)[k], (t \o v)[k]>> \in R
  <2>1. CASE k <= Len(s)
    <3>1. k \in 1..Len(s) /\ (s \o u)[k] = s[k] /\ (t \o v)[k] = t[k]
      BY <1>1, <1>2, <2>1
    <3> QED  BY <3>1 DEF Matches
  <2>2. CASE k > Len(s)
    <3>1. /\ k - Len(s) \in 1..Len(u)
          /\ (s \o u)[k] = u[k - Len(s)] /\ (t \o v)[k] = v[k - Len(s)]
      BY <1>1, <1>2, <2>2
    <3> QED  BY <3>1 DEF Matches
  <2>3. k <= Len(s) \/ k > Len(s)
    BY <1>1, <1>2
  <2> QED  BY <2>1, <2>2, <2>3
<1> QED  BY <1>1, <1>2, <1>3 DEF Matches

\* The elements of a concatenation.
LEMMA ConcatRange ==
    ASSUME NEW V, NEW s \in Seq(V), NEW t \in Seq(V)
    PROVE  Range(s \o t) = Range(s) \cup Range(t)
<1>1. /\ Len(s \o t) = Len(s) + Len(t) /\ Len(s) \in Nat /\ Len(t) \in Nat
      /\ DOMAIN s = 1..Len(s) /\ DOMAIN t = 1..Len(t) /\ DOMAIN (s \o t) = 1..Len(s \o t)
  OBVIOUS
<1>2. ASSUME NEW k \in 1..Len(s \o t) PROVE (s \o t)[k] \in Range(s) \cup Range(t)
  <2>1. CASE k <= Len(s)
    <3>1. k \in 1..Len(s) /\ (s \o t)[k] = s[k]
      BY <1>1, <2>1
    <3> QED  BY <1>1, <3>1 DEF Range
  <2>2. CASE k > Len(s)
    <3>1. k - Len(s) \in 1..Len(t) /\ (s \o t)[k] = t[k - Len(s)]
      BY <1>1, <2>2
    <3> QED  BY <1>1, <3>1 DEF Range
  <2> QED  BY <1>1, <2>1, <2>2
<1>3. ASSUME NEW k \in 1..Len(s) PROVE s[k] \in Range(s \o t)
  <2>1. k \in 1..Len(s \o t) /\ (s \o t)[k] = s[k]
    BY <1>1
  <2> QED  BY <1>1, <2>1 DEF Range
<1>4. ASSUME NEW k \in 1..Len(t) PROVE t[k] \in Range(s \o t)
  <2>1. k + Len(s) \in 1..Len(s \o t) /\ (s \o t)[k + Len(s)] = t[k]
    BY <1>1
  <2> QED  BY <1>1, <2>1 DEF Range
<1>5. Range(s \o t) \subseteq Range(s) \cup Range(t)
  BY <1>1, <1>2 DEF Range
<1>6. Range(s) \subseteq Range(s \o t) /\ Range(t) \subseteq Range(s \o t)
  BY <1>1, <1>3, <1>4 DEF Range
<1> QED  BY <1>5, <1>6

\* No element twice.
Distinct(s) == \A j, k \in 1..Len(s) : s[j] = s[k] => j = k

\* A concatenation of distinct sequences without a common element is distinct.
LEMMA ConcatDistinct ==
    ASSUME NEW V, NEW s \in Seq(V), NEW t \in Seq(V), Distinct(s), Distinct(t),
           Range(s) \cap Range(t) = {}
    PROVE  Distinct(s \o t)
<1>1. Len(s \o t) = Len(s) + Len(t) /\ Len(s) \in Nat /\ Len(t) \in Nat
  OBVIOUS
<1>2. \A j \in 1..Len(s), k \in 1..Len(t) : s[j] # t[k]
  BY DEF Range
<1>3. ASSUME NEW k \in 1..Len(s \o t)
      PROVE  \/ k \in 1..Len(s) /\ (s \o t)[k] = s[k]
             \/ k - Len(s) \in 1..Len(t) /\ (s \o t)[k] = t[k - Len(s)]
  BY <1>1
<1>4. ASSUME NEW j \in 1..Len(s \o t), NEW k \in 1..Len(s \o t), (s \o t)[j] = (s \o t)[k]
      PROVE  j = k
  <2>1. CASE j \in 1..Len(s) /\ (s \o t)[j] = s[j]
    <3>1. CASE k \in 1..Len(s) /\ (s \o t)[k] = s[k]
      BY <1>4, <2>1, <3>1 DEF Distinct
    <3>2. CASE k - Len(s) \in 1..Len(t) /\ (s \o t)[k] = t[k - Len(s)]
      BY <1>2, <1>4, <2>1, <3>2
    <3> QED  BY <1>3, <3>1, <3>2
  <2>2. CASE j - Len(s) \in 1..Len(t) /\ (s \o t)[j] = t[j - Len(s)]
    <3>1. CASE k \in 1..Len(s) /\ (s \o t)[k] = s[k]
      BY <1>2, <1>4, <2>2, <3>1
    <3>2. CASE k - Len(s) \in 1..Len(t) /\ (s \o t)[k] = t[k - Len(s)]
      <4>1. j - Len(s) = k - Len(s)
        BY <1>4, <2>2, <3>2 DEF Distinct
      <4> QED  BY <1>1, <4>1
    <3> QED  BY <1>3, <3>1, <3>2
  <2> QED  BY <1>3, <2>1, <2>2
<1> QED  BY <1>4 DEF Distinct

\* Tuples as sequences.
LEMMA SingleRange ==
    ASSUME NEW x
    PROVE  Range(<<x>>) = {x}
<1>1. <<x>> \in Seq({x}) /\ Len(<<x>>) = 1 /\ <<x>>[1] = x
  OBVIOUS
<1>2. PICK f : f = <<x>>
  OBVIOUS
<1>3. f \in Seq({x}) /\ Len(f) = 1 /\ f[1] = x
  BY <1>1, <1>2
<1>4. Range(f) = {x}
  BY <1>3 DEF Range
<1> QED  BY <1>2, <1>4

\* The elements of a pair,
LEMMA PairRange ==
    ASSUME NEW x, NEW y
    PROVE  Range(<<x, y>>) = {x, y}
<1>1. <<x, y>> \in Seq({x, y}) /\ Len(<<x, y>>) = 2 /\ <<x, y>>[1] = x /\ <<x, y>>[2] = y
  OBVIOUS
<1>2. PICK f : f = <<x, y>>
  OBVIOUS
<1>3. f \in Seq({x, y}) /\ Len(f) = 2 /\ f[1] = x /\ f[2] = y
  BY <1>1, <1>2
<1>4. Range(f) = {x, y}
  BY <1>3 DEF Range
<1> QED  BY <1>2, <1>4

\* and of five.
LEMMA FiveRange ==
    ASSUME NEW a, NEW b, NEW c, NEW d, NEW e
    PROVE  Range(<<a, b, c, d, e>>) = {a, b, c, d, e}
<1> DEFINE V == {a, b, c, d, e}
<1>1. PICK f : f = <<a, b, c, d, e>>
  OBVIOUS
<1>2. f \in Seq(V) /\ Len(f) = 5
  BY <1>1
<1>3. f[1] = a /\ f[2] = b /\ f[3] = c /\ f[4] = d /\ f[5] = e
  BY <1>1
<1>4. DOMAIN f = 1..5 /\ 1..5 = {1, 2, 3, 4, 5}
  BY <1>2
<1>5. Range(f) = V
  BY <1>3, <1>4 DEF Range
<1> QED  BY <1>1, <1>5

\* Pairs correspond element by element.
LEMMA PairMatches ==
    ASSUME NEW R, NEW a, NEW b, NEW c, NEW d, <<a, c>> \in R, <<b, d>> \in R
    PROVE  Matches(<<a, b>>, <<c, d>>, R)
<1>1. 1..2 = {1, 2}
  OBVIOUS
<1> QED  BY <1>1 DEF Matches

(* -------------------------------- flattening --------------------------------- *)

\* The parts of the first i of seqs, one after the other.
IsFlattening(f, seqs, V) ==
    /\ f \in [1..Len(seqs) -> Seq(V)] /\ f[1] = seqs[1]
    /\ \A i \in 1..(Len(seqs) - 1) : f[i + 1] = f[i] \o seqs[i + 1]

\* FlattenSeq as the last value of a recursion on the number of sequences.
LEMMA FlattenSeqUnfold ==
    ASSUME NEW V, NEW seqs \in Seq(Seq(V)), Len(seqs) # 0
    PROVE  \E f : IsFlattening(f, seqs, V) /\ FlattenSeq(seqs) = f[Len(seqs)]
<1> DEFINE n == Len(seqs)
           IsFlat(f) == f = [i \in 1..n |-> IF i = 1 THEN seqs[i] ELSE f[i - 1] \o seqs[i]]
           flat == CHOOSE f : IsFlat(f)
<1>1. n \in Nat /\ n # 0 /\ \A i \in 1..n : seqs[i] \in Seq(V)
  OBVIOUS
<1>2. PICK step : step = [p \in Nat \X Seq(V) |->
                             IF p[1] + 2 <= n THEN p[2] \o seqs[p[1] + 2] ELSE p[2]]
  OBVIOUS
<1>3. \A i \in Nat, s \in Seq(V) : i + 2 <= n => step[<<i, s>>] = s \o seqs[i + 2]
  BY <1>2
<1>4. step \in [Nat \X Seq(V) -> Seq(V)]
  <2>1. \A p \in Nat \X Seq(V) : p[1] + 2 <= n => p[2] \o seqs[p[1] + 2] \in Seq(V)
    <3>1. \A p \in Nat \X Seq(V) : p[1] + 2 <= n => seqs[p[1] + 2] \in Seq(V) /\ p[2] \in Seq(V)
      BY <1>1
    <3> QED  BY <3>1
  <2> QED  BY <1>2, <2>1
<1>5. PICK r : IsRun(r, Seq(V), seqs[1], step, n - 1)
  <2>1. n - 1 \in Nat /\ seqs[1] \in Seq(V)
    BY <1>1
  <2> QED  BY <1>4, <2>1, RunExists
<1>6. /\ \A i \in 0..(n - 1) : r[i] \in Seq(V)
      /\ r[0] = seqs[1]
      /\ \A i \in 0..(n - 2) : r[i + 1] = r[i] \o seqs[i + 2]
  <2>1. /\ r \in [0..(n - 1) -> Seq(V)] /\ r[0] = seqs[1]
        /\ \A i \in 0..((n - 1) - 1) : r[i + 1] = step[<<i, r[i]>>]
    BY <1>5 DEF IsRun
  <2>2. \A i \in 0..(n - 2) : i \in 0..((n - 1) - 1) /\ i \in 0..(n - 1) /\ i \in Nat /\ i + 2 <= n
    BY <1>1
  <2> QED  BY <1>3, <2>1, <2>2
<1>7. PICK f : f = [i \in 1..n |-> r[i - 1]]
  OBVIOUS
<1>8. \A i \in 1..n : i - 1 \in 0..(n - 1)
  BY <1>1
<1>9. f \in [1..n -> Seq(V)] /\ f[1] = seqs[1]
  BY <1>1, <1>6, <1>7, <1>8
<1>10. ASSUME NEW i \in 1..(n - 1) PROVE f[i + 1] = f[i] \o seqs[i + 1]
  <2>1. /\ i \in 1..n /\ i + 1 \in 1..n /\ (i + 1) - 1 = i
        /\ i - 1 \in 0..(n - 2) /\ (i - 1) + 1 = i /\ (i - 1) + 2 = i + 1
    BY <1>1
  <2>2. f[i + 1] = r[i] /\ f[i] = r[i - 1]
    BY <1>7, <2>1
  <2>3. r[(i - 1) + 1] = r[i - 1] \o seqs[(i - 1) + 2]
    BY <1>6, <2>1
  <2> QED  BY <2>1, <2>2, <2>3
<1>11. IsFlat(f)
  <2>1. \A i \in 1..n : i # 1 => i - 1 \in 1..(n - 1) /\ (i - 1) + 1 = i
    BY <1>1
  <2>2. \A i \in 1..n : f[i] = IF i = 1 THEN seqs[i] ELSE f[i - 1] \o seqs[i]
    BY <1>9, <1>10, <2>1
  <2> QED  BY <1>7, <2>2
<1>12. IsFlat(flat)
  BY <1>11
<1>13. FlattenSeq(seqs) = flat[n]
  BY <1>1 DEF FlattenSeq
<1> HIDE DEF flat
<1>14. flat[1] = seqs[1] /\ \A i \in 1..(n - 1) : flat[i + 1] = flat[i] \o seqs[i + 1]
  <2>1. \A i \in 1..(n - 1) : i + 1 \in 1..n /\ i + 1 # 1 /\ (i + 1) - 1 = i
    BY <1>1
  <2>2. 1 \in 1..n
    BY <1>1
  <2> QED  BY <1>12, <2>1, <2>2
<1>15. flat[n] = f[n]
  <2> DEFINE S == {i \in 0..(n - 1) : flat[i + 1] = f[i + 1]}
  <2>1. 0 \in S
    BY <1>1, <1>9, <1>14
  <2>2. ASSUME NEW i \in 0..((n - 1) - 1), i \in S PROVE i + 1 \in S
    <3>1. i + 1 \in 1..(n - 1) /\ i + 1 \in 0..(n - 1)
      BY <1>1
    <3>2. flat[(i + 1) + 1] = flat[i + 1] \o seqs[(i + 1) + 1]
      BY <1>14, <3>1
    <3>3. f[(i + 1) + 1] = f[i + 1] \o seqs[(i + 1) + 1]
      BY <1>10, <3>1
    <3>4. flat[i + 1] = f[i + 1]
      BY <2>2
    <3>5. flat[(i + 1) + 1] = f[(i + 1) + 1]
      BY <3>2, <3>3, <3>4
    <3> QED  BY <3>1, <3>5
  <2> HIDE DEF S
  <2>3. n - 1 \in Nat
    BY <1>1
  <2>4. 0..(n - 1) \subseteq S
    BY <2>1, <2>2, <2>3, BoundedInduction
  <2>5. n - 1 \in S
    BY <1>1, <2>4
  <2>6. flat[(n - 1) + 1] = f[(n - 1) + 1]
    BY <2>5 DEF S
  <2>7. (n - 1) + 1 = n
    BY <1>1
  <2> QED  BY <2>6, <2>7
<1> QED  BY <1>9, <1>10, <1>13, <1>15 DEF IsFlattening

\* Nothing flattened is empty.
LEMMA FlattenNothing ==
    ASSUME NEW V, NEW seqs \in Seq(Seq(V)), Len(seqs) = 0
    PROVE  FlattenSeq(seqs) = <<>>
  BY DEF FlattenSeq

\* The type of a flattened sequence,
LEMMA FlattenType ==
    ASSUME NEW V, NEW seqs \in Seq(Seq(V))
    PROVE  FlattenSeq(seqs) \in Seq(V)
<1>1. CASE Len(seqs) = 0
  <2>1. FlattenSeq(seqs) = <<>>
    BY <1>1, FlattenNothing
  <2> QED  BY <2>1
<1>2. CASE Len(seqs) # 0
  <2>1. PICK f : IsFlattening(f, seqs, V) /\ FlattenSeq(seqs) = f[Len(seqs)]
    BY <1>2, FlattenSeqUnfold
  <2>2. Len(seqs) \in 1..Len(seqs)
    BY <1>2
  <2> QED  BY <2>1, <2>2 DEF IsFlattening
<1> QED  BY <1>1, <1>2

\* A relation between the elements of all parts is one between those of the whole.
LEMMA FlattenMatches ==
    ASSUME NEW V, NEW W, NEW R, NEW s \in Seq(Seq(V)), NEW t \in Seq(Seq(W)),
           Len(s) = Len(t), \A i \in 1..Len(s) : Matches(s[i], t[i], R)
    PROVE  Matches(FlattenSeq(s), FlattenSeq(t), R)
<1>1. CASE Len(s) = 0
  <2>1. FlattenSeq(s) = <<>> /\ FlattenSeq(t) = <<>>
    BY <1>1, FlattenNothing
  <2> QED  BY <2>1 DEF Matches
<1>2. CASE Len(s) # 0
  <2> DEFINE n == Len(s)
  <2>1. PICK f : IsFlattening(f, s, V) /\ FlattenSeq(s) = f[n]
    BY <1>2, FlattenSeqUnfold
  <2>2. PICK g : IsFlattening(g, t, W) /\ FlattenSeq(t) = g[n]
    BY <1>2, FlattenSeqUnfold
  <2>3. n \in Nat /\ n # 0
    BY <1>2
  <2>4. \A i \in 1..n : s[i] \in Seq(V) /\ t[i] \in Seq(W)
    OBVIOUS
  <2> DEFINE S == {i \in 0..(n - 1) : Matches(f[i + 1], g[i + 1], R)}
  <2>5. 0 \in S
    BY <2>1, <2>2, <2>3 DEF IsFlattening
  <2>6. ASSUME NEW i \in 0..((n - 1) - 1), i \in S PROVE i + 1 \in S
    <3>1. /\ i + 1 \in 1..(n - 1) /\ i + 1 \in 0..(n - 1)
          /\ i + 1 \in 1..n /\ (i + 1) + 1 \in 1..n
      BY <2>3
    <3>2. /\ f[(i + 1) + 1] = f[i + 1] \o s[(i + 1) + 1]
          /\ g[(i + 1) + 1] = g[i + 1] \o t[(i + 1) + 1]
          /\ f[i + 1] \in Seq(V) /\ g[i + 1] \in Seq(W)
      BY <2>1, <2>2, <3>1 DEF IsFlattening
    <3>3. Matches(f[i + 1], g[i + 1], R)
      BY <2>6
    <3>4. Matches(f[i + 1] \o s[(i + 1) + 1], g[i + 1] \o t[(i + 1) + 1], R)
      BY <2>4, <3>1, <3>2, <3>3, ConcatMatches
    <3>5. Matches(f[(i + 1) + 1], g[(i + 1) + 1], R)
      BY <3>2, <3>4
    <3> QED  BY <3>1, <3>5
  <2> HIDE DEF S
  <2>7. 0..(n - 1) \subseteq S
    <3>1. n - 1 \in Nat
      BY <2>3
    <3> QED  BY <2>5, <2>6, <3>1, BoundedInduction
  <2>8. Matches(f[(n - 1) + 1], g[(n - 1) + 1], R)
    <3>1. n - 1 \in 0..(n - 1)
      BY ONLY <2>3
    <3>2. n - 1 \in S
      BY ONLY <2>7, <3>1
    <3> QED  BY <3>2 DEF S
  <2>9. (n - 1) + 1 = n
    BY <2>3
  <2> QED  BY <2>1, <2>2, <2>8, <2>9
<1> QED  BY <1>1, <1>2

\* its elements,
LEMMA FlattenRange ==
    ASSUME NEW V, NEW seqs \in Seq(Seq(V))
    PROVE  Range(FlattenSeq(seqs)) = UNION {Range(seqs[i]) : i \in 1..Len(seqs)}
<1>1. CASE Len(seqs) = 0
  <2>1. FlattenSeq(seqs) = <<>>
    BY <1>1, FlattenNothing
  <2> QED  BY <1>1, <2>1 DEF Range
<1>2. CASE Len(seqs) # 0
  <2> DEFINE n == Len(seqs)
             Parts(m) == UNION {Range(seqs[i]) : i \in 1..m}
  <2>1. PICK f : IsFlattening(f, seqs, V) /\ FlattenSeq(seqs) = f[n]
    BY <1>2, FlattenSeqUnfold
  <2>2. n \in Nat /\ n # 0 /\ \A i \in 1..n : seqs[i] \in Seq(V)
    BY <1>2
  <2> DEFINE S == {i \in 0..(n - 1) : Range(f[i + 1]) = Parts(i + 1)}
  <2>3. 0 \in S
    <3>1. Parts(0 + 1) = Range(seqs[1])
      OBVIOUS
    <3>2. f[0 + 1] = seqs[1]
      BY <2>1 DEF IsFlattening
    <3> HIDE DEF Parts
    <3> QED  BY <2>2, <3>1, <3>2
  <2>4. ASSUME NEW i \in 0..((n - 1) - 1), i \in S PROVE i + 1 \in S
    <3>1. /\ i + 1 \in 1..(n - 1) /\ i + 1 \in 0..(n - 1) /\ i \in Nat
          /\ i + 1 \in 1..n /\ (i + 1) + 1 \in 1..n
      BY <2>2
    <3>2. f[(i + 1) + 1] = f[i + 1] \o seqs[(i + 1) + 1] /\ f[i + 1] \in Seq(V)
      BY <2>1, <3>1 DEF IsFlattening
    <3>3. Range(f[i + 1] \o seqs[(i + 1) + 1]) = Range(f[i + 1]) \cup Range(seqs[(i + 1) + 1])
      BY <2>2, <3>1, <3>2, ConcatRange
    <3>4. Parts((i + 1) + 1) = Parts(i + 1) \cup Range(seqs[(i + 1) + 1])
      <4>1. 1..((i + 1) + 1) = 1..(i + 1) \cup {(i + 1) + 1}
        BY <3>1
      <4> QED  BY <4>1
    <3>5. Range(f[i + 1]) = Parts(i + 1)
      BY <2>4
    <3> HIDE DEF Parts
    <3>6. Range(f[(i + 1) + 1]) = Parts((i + 1) + 1)
      BY <3>2, <3>3, <3>4, <3>5
    <3> QED  BY <3>1, <3>6
  <2> HIDE DEF S
  <2>5. 0..(n - 1) \subseteq S
    <3>1. n - 1 \in Nat
      BY <2>2
    <3> QED  BY <2>3, <2>4, <3>1, BoundedInduction
  <2>6. Range(f[(n - 1) + 1]) = Parts((n - 1) + 1)
    <3>1. n - 1 \in S
      BY <2>2, <2>5
    <3> QED  BY <3>1 DEF S
  <2>7. (n - 1) + 1 = n
    BY <2>2
  <2>8. Range(f[n]) = Parts(n)
    BY <2>6, <2>7
  <2> QED  BY <2>1, <2>8
<1> QED  BY <1>1, <1>2

\* and when it has no duplicates.
LEMMA FlattenDistinct ==
    ASSUME NEW V, NEW seqs \in Seq(Seq(V)), \A i \in 1..Len(seqs) : Distinct(seqs[i]),
           \A i, j \in 1..Len(seqs) : i # j => Range(seqs[i]) \cap Range(seqs[j]) = {}
    PROVE  Distinct(FlattenSeq(seqs))
<1>1. CASE Len(seqs) = 0
  <2>1. FlattenSeq(seqs) = <<>>
    BY <1>1, FlattenNothing
  <2> QED  BY <1>1, <2>1 DEF Distinct
<1>2. CASE Len(seqs) # 0
  <2> DEFINE n == Len(seqs)
             Apart(s, m) == \A j \in m..n : Range(s) \cap Range(seqs[j]) = {}
  <2>1. PICK f : IsFlattening(f, seqs, V) /\ FlattenSeq(seqs) = f[n]
    BY <1>2, FlattenSeqUnfold
  <2>2. n \in Nat /\ n # 0 /\ \A i \in 1..n : seqs[i] \in Seq(V)
    BY <1>2
  <2> DEFINE S == {i \in 0..(n - 1) : Distinct(f[i + 1]) /\ Apart(f[i + 1], i + 2)}
  <2>3. 0 \in S
    <3>1. f[0 + 1] = seqs[1] /\ 1 \in 1..n /\ \A j \in (0 + 2)..n : j \in 1..n /\ j # 1
      BY <2>1, <2>2 DEF IsFlattening
    <3>2. Distinct(f[0 + 1]) /\ Apart(f[0 + 1], 0 + 2)
      BY <3>1
    <3> QED  BY <2>2, <3>2
  <2>4. ASSUME NEW i \in 0..((n - 1) - 1), i \in S PROVE i + 1 \in S
    <3> DEFINE k == (i + 1) + 1
    <3>1. /\ i + 1 \in 1..(n - 1) /\ i + 1 \in 0..(n - 1)
          /\ i + 1 \in 1..n /\ k \in 1..n /\ k = i + 2 /\ k \in (i + 2)..n /\ (i + 1) + 2 = i + 3
          /\ \A j \in (i + 3)..n : j \in (i + 2)..n /\ j \in 1..n /\ j # k
      BY <2>2
    <3> HIDE DEF k
    <3>2. f[k] = f[i + 1] \o seqs[k] /\ f[i + 1] \in Seq(V) /\ seqs[k] \in Seq(V)
      BY <2>1, <2>2, <3>1 DEF IsFlattening, k
    <3>3. Distinct(f[i + 1]) /\ Apart(f[i + 1], i + 2)
      BY <2>4
    <3>4. Distinct(f[k])
      BY <3>1, <3>2, <3>3, ConcatDistinct
    <3>5. Range(f[k]) = Range(f[i + 1]) \cup Range(seqs[k])
      BY <3>2, ConcatRange
    <3>6. Apart(f[k], i + 3)
      BY <3>1, <3>3, <3>5
    <3> QED  BY <3>1, <3>4, <3>6 DEF k
  <2> HIDE DEF S
  <2>5. 0..(n - 1) \subseteq S
    <3>1. n - 1 \in Nat
      BY <2>2
    <3> QED  BY <2>3, <2>4, <3>1, BoundedInduction
  <2>6. Distinct(f[(n - 1) + 1])
    <3>1. n - 1 \in S
      BY <2>2, <2>5, SMTT(30)
    <3> QED  BY <3>1 DEF S
  <2>7. (n - 1) + 1 = n
    BY <2>2
  <2> QED  BY <2>1, <2>6, <2>7
<1> QED  BY <1>1, <1>2

\* Sequences with the same elements are equal.
LEMMA SameElements ==
    ASSUME NEW V, NEW s \in Seq(V), NEW t \in Seq(V), Len(s) = Len(t),
           \A k \in 1..Len(s) : s[k] = t[k]
    PROVE  s = t
<1>1. s \in [1..Len(s) -> V] /\ t \in [1..Len(t) -> V]
  OBVIOUS
<1>2. s = [k \in 1..Len(s) |-> s[k]] /\ t = [k \in 1..Len(s) |-> t[k]]
  BY <1>1
<1>3. [k \in 1..Len(s) |-> s[k]] = [k \in 1..Len(s) |-> t[k]]
  OBVIOUS
<1> QED  BY <1>2, <1>3

\* Parts of one element are flattened to the sequence of those elements.
LEMMA FlattenSingletons ==
    ASSUME NEW V, NEW f \in Seq(V), NEW seqs \in Seq(Seq(V)), Len(seqs) = Len(f),
           \A i \in 1..Len(f) : seqs[i] = <<f[i]>>
    PROVE  FlattenSeq(seqs) = f
<1> DEFINE n == Len(f)
<1>1. CASE n = 0
  <2>1. FlattenSeq(seqs) = <<>>
    BY <1>1, FlattenNothing
  <2>2. f = <<>>
    BY <1>1
  <2> QED  BY <2>1, <2>2
<1>2. CASE n # 0
  <2>1. PICK g : IsFlattening(g, seqs, V) /\ FlattenSeq(seqs) = g[n]
    BY <1>2, FlattenSeqUnfold
  <2>2. n \in Nat /\ n # 0 /\ \A i \in 1..n : f[i] \in V
    BY <1>2
  <2> DEFINE Is(s, m) == s \in Seq(V) /\ Len(s) = m /\ \A k \in 1..m : s[k] = f[k]
             S == {i \in 0..(n - 1) : Is(g[i + 1], i + 1)}
  <2>3. 0 \in S
    <3>1. g[0 + 1] = <<f[1]>> /\ f[1] \in V
      BY <2>1, <2>2 DEF IsFlattening
    <3>2. 0 \in 0..(n - 1) /\ 0 + 1 = 1
      BY <2>2
    <3>3. Is(g[0 + 1], 1)
      BY <3>1
    <3> HIDE DEF Is
    <3> QED  BY <3>2, <3>3
  <2>4. ASSUME NEW i \in 0..((n - 1) - 1), i \in S PROVE i + 1 \in S
    <3>1. /\ i + 1 \in 1..(n - 1) /\ i + 1 \in 0..(n - 1) /\ i \in Nat
          /\ i + 1 \in 1..n /\ (i + 1) + 1 \in 1..n
      BY <2>2
    <3>2. /\ g[(i + 1) + 1] = g[i + 1] \o <<f[(i + 1) + 1]>>
          /\ f[(i + 1) + 1] \in V
      BY <2>1, <2>2, <3>1 DEF IsFlattening
    <3>3. Is(g[i + 1], i + 1)
      BY <2>4
    <3>4. Is(g[i + 1] \o <<f[(i + 1) + 1]>>, (i + 1) + 1)
      BY <3>1, <3>2, <3>3
    <3>5. Is(g[(i + 1) + 1], (i + 1) + 1)
      BY <3>2, <3>4
    <3> HIDE DEF Is
    <3> QED  BY <3>1, <3>5
  <2> HIDE DEF S
  <2>5. 0..(n - 1) \subseteq S
    <3>1. n - 1 \in Nat
      BY <2>2
    <3> QED  BY <2>3, <2>4, <3>1, BoundedInduction
  <2>6. Is(g[(n - 1) + 1], (n - 1) + 1)
    <3>1. n - 1 \in 0..(n - 1)
      BY ONLY <2>2
    <3>2. n - 1 \in S
      BY ONLY <2>5, <3>1
    <3> QED  BY <3>2 DEF S
  <2>7. (n - 1) + 1 = n
    BY <2>2
  <2>8. Is(g[n], n)
    BY <2>6, <2>7
  <2>9. g[n] = f
    BY <2>8, SameElements
  <2> QED  BY <2>1, <2>9
<1> QED  BY <1>1, <1>2

(* ----------------------------- short sequences -------------------------------- *)

\* Five elements correspond one by one,
LEMMA FiveMatches ==
    ASSUME NEW R, NEW a, NEW b, NEW c, NEW d, NEW e, NEW v, NEW w, NEW x, NEW y, NEW z,
           <<a, v>> \in R, <<b, w>> \in R, <<c, x>> \in R, <<d, y>> \in R, <<e, z>> \in R
    PROVE  Matches(<<a, b, c, d, e>>, <<v, w, x, y, z>>, R)
<1>1. PICK f : f = <<a, b, c, d, e>>
  OBVIOUS
<1>2. PICK g : g = <<v, w, x, y, z>>
  OBVIOUS
<1>3. Len(f) = 5 /\ f[1] = a /\ f[2] = b /\ f[3] = c /\ f[4] = d /\ f[5] = e
  BY <1>1
<1>4. Len(g) = 5 /\ g[1] = v /\ g[2] = w /\ g[3] = x /\ g[4] = y /\ g[5] = z
  BY <1>2
<1>5. Matches(f, g, R)
  BY <1>3, <1>4 DEF Matches
<1> QED  BY <1>1, <1>2, <1>5

\* and are distinct when no two are equal;
LEMMA FiveDistinct ==
    ASSUME NEW a, NEW b, NEW c, NEW d, NEW e, a \notin {b, c, d, e}, b \notin {c, d, e},
           c \notin {d, e}, d # e
    PROVE  Distinct(<<a, b, c, d, e>>)
<1>1. PICK f : f = <<a, b, c, d, e>>
  OBVIOUS
<1>2. Len(f) = 5 /\ f[1] = a /\ f[2] = b /\ f[3] = c /\ f[4] = d /\ f[5] = e
  BY <1>1
<1>3. \A k \in 1..5 : k = 1 \/ k = 2 \/ k = 3 \/ k = 4 \/ k = 5
  OBVIOUS
<1>4. \A j, k \in 1..5 : f[j] = f[k] => j = k
  BY <1>2, <1>3
<1>5. Distinct(f)
  BY <1>2, <1>4 DEF Distinct
<1> QED  BY <1>1, <1>5

\* so does a single one,
LEMMA SingleMatches ==
    ASSUME NEW R, NEW a, NEW b, <<a, b>> \in R
    PROVE  Matches(<<a>>, <<b>>, R)
  BY DEF Matches

\* which is distinct;
LEMMA SingleDistinct ==
    ASSUME NEW a
    PROVE  Distinct(<<a>>)
  BY DEF Distinct

\* and a pair is when its elements differ.
LEMMA PairDistinct ==
    ASSUME NEW a, NEW b, a # b
    PROVE  Distinct(<<a, b>>)
  BY DEF Distinct

\* Where the elements of two sequences are in their concatenation.
LEMMA ConcatPlaces ==
    ASSUME NEW V, NEW s, NEW t, s \in Seq(V), t \in Seq(V)
    PROVE  /\ Len(s \o t) = Len(s) + Len(t)
           /\ \A i \in 1..Len(s) : (s \o t)[i] = s[i]
           /\ \A i \in 1..Len(t) : (s \o t)[Len(s) + i] = t[i]
  OBVIOUS

\* The empty sequence is neutral.
LEMMA EmptyConcat ==
    ASSUME NEW V, NEW s \in Seq(V)
    PROVE  s \o <<>> = s /\ <<>> \o s = s
  OBVIOUS

(* ------------------------------- beginnings ----------------------------------- *)

\* s is a beginning of t.
Begins(s, t) == Len(s) <= Len(t) /\ \A k \in 1..Len(s) : t[k] = s[k]

\* A concatenation begins with its first part.
LEMMA ConcatBegins ==
    ASSUME NEW V, NEW s \in Seq(V), NEW t \in Seq(V)
    PROVE  Begins(s, s \o t)
<1>1. Len(s) \in Nat /\ Len(t) \in Nat /\ Len(s \o t) = Len(s) + Len(t)
  OBVIOUS
<1> QED  BY <1>1 DEF Begins

\* A beginning of a beginning is one.
LEMMA BeginsTransitive ==
    ASSUME NEW V, NEW s \in Seq(V), NEW t \in Seq(V), NEW u \in Seq(V),
           Begins(s, t), Begins(t, u)
    PROVE  Begins(s, u)
<1>1. Len(s) \in Nat /\ Len(t) \in Nat /\ Len(u) \in Nat
  OBVIOUS
<1> QED  BY <1>1 DEF Begins

\* A beginning is what the library calls a prefix.
LEMMA BeginsIsPrefix ==
    ASSUME NEW V, NEW s \in Seq(V), NEW t \in Seq(V), Begins(s, t)
    PROVE  IsPrefix(s, t)
<1>1. Len(s) \in Nat /\ Len(t) \in Nat
  OBVIOUS
<1>2. SubSeq(s, 1, Len(s)) = SubSeq(t, 1, Len(s))
  BY <1>1 DEF Begins
<1> QED  BY <1>2 DEF IsPrefix, Begins

\* Reading on from a beginning of a sequence.
LEMMA BeginsReads ==
    ASSUME NEW V, NEW s \in Seq(V), NEW t \in Seq(V), NEW u \in Seq(V), Begins(s \o t, u)
    PROVE  /\ Len(s) + Len(t) <= Len(u)
           /\ SubSeq(u, Len(s) + 1, Len(s) + Len(t)) = t
<1>1. /\ Len(s) \in Nat /\ Len(t) \in Nat /\ Len(u) \in Nat
      /\ s \o t \in Seq(V) /\ Len(s \o t) = Len(s) + Len(t)
  OBVIOUS
<1>2. Len(s) + Len(t) <= Len(u)
  BY <1>1 DEF Begins
<1> DEFINE r == SubSeq(u, Len(s) + 1, Len(s) + Len(t))
<1>3. r \in Seq(V) /\ Len(r) = Len(t) /\ \A k \in 1..Len(t) : r[k] = u[Len(s) + k]
  BY <1>1, <1>2
<1>4. \A k \in 1..Len(t) : u[Len(s) + k] = t[k]
  <2>1. \A k \in 1..Len(t) : Len(s) + k \in 1..Len(s \o t) /\ (s \o t)[Len(s) + k] = t[k]
    BY <1>1
  <2> QED  BY <2>1 DEF Begins
<1>5. r = t
  <2> HIDE DEF r
  <2> QED  BY <1>3, <1>4, SameElements
<1> QED  BY <1>2, <1>5

(* ---------------------------------- listings ---------------------------------- *)

\* A sequence of the elements of a set, each once.
Enumerates(s, T) == s \in Seq(T) /\ Range(s) = T /\ Distinct(s)

\* A list of a set is a sequence over any larger one.
LEMMA ListsWithin ==
    ASSUME NEW T, NEW s, Enumerates(s, T), NEW U, T \subseteq U
    PROVE  s \in Seq(U)
<1>1. s \in [1..Len(s) -> T] /\ Len(s) \in Nat
  BY DEF Enumerates
<1>2. s \in [1..Len(s) -> U]
  BY <1>1
<1> QED  BY <1>1, <1>2

\* The loop gathers what is in the set, and nothing twice.
LEMMA PlacesList ==
    ASSUME NEW S, NEW n, n \in Nat
    PROVE  Enumerates(Places(S, n), {i \in 1..n : i \in S})
<1> DEFINE IsUpto(f) == f = [i \in 0..n |-> IF i = 0 THEN <<>>
                               ELSE IF i \in S THEN Append(f[i - 1], i) ELSE f[i - 1]]
           upto == CHOOSE f : IsUpto(f)
           Up(m) == {i \in 1..m : i \in S}
<1>1. PICK step : step = [p \in Nat \X Seq(Nat) |->
                             IF p[1] + 1 \in S THEN Append(p[2], p[1] + 1) ELSE p[2]]
  OBVIOUS
<1>2. \A i \in Nat, s \in Seq(Nat) : step[<<i, s>>] = IF i + 1 \in S THEN Append(s, i + 1) ELSE s
  BY <1>1
<1>3. step \in [Nat \X Seq(Nat) -> Seq(Nat)]
  BY <1>1
<1>4. PICK f : IsRun(f, Seq(Nat), <<>>, step, n)
  <2>1. <<>> \in Seq(Nat)
    OBVIOUS
  <2> QED  BY <1>3, <2>1, RunExists
<1>5. /\ f \in [0..n -> Seq(Nat)] /\ f[0] = <<>>
      /\ \A i \in 0..(n - 1) : f[i + 1] = step[<<i, f[i]>>]
  BY <1>4 DEF IsRun
<1>6. ASSUME NEW i \in 1..n
      PROVE  f[i] = IF i \in S THEN Append(f[i - 1], i) ELSE f[i - 1]
  <2>1. i - 1 \in 0..(n - 1) /\ (i - 1) + 1 = i /\ i - 1 \in Nat /\ i - 1 \in 0..n
    OBVIOUS
  <2>2. f[(i - 1) + 1] = step[<<i - 1, f[i - 1]>>] /\ f[i - 1] \in Seq(Nat)
    BY <1>5, <2>1
  <2> QED  BY <1>2, <2>1, <2>2
<1>7. IsUpto(f)
  <2>1. \A i \in 0..n : i = 0 \/ i \in 1..n
    OBVIOUS
  <2>2. \A i \in 0..n : f[i] = IF i = 0 THEN <<>> ELSE IF i \in S THEN Append(f[i - 1], i) ELSE f[i - 1]
    BY <1>5, <1>6, <2>1
  <2>3. f = [i \in 0..n |-> f[i]]
    BY <1>5
  <2> QED  BY <2>2, <2>3
<1>8. IsUpto(upto)
  BY <1>7
<1>9. Places(S, n) = upto[n]
  BY DEF Places
<1> HIDE DEF upto
<1>10. /\ upto[0] = <<>>
       /\ \A i \in 0..(n - 1) : upto[i + 1] = IF i + 1 \in S THEN Append(upto[i], i + 1) ELSE upto[i]
  <2>1. \A i \in 0..(n - 1) : i + 1 \in 0..n /\ i + 1 # 0 /\ (i + 1) - 1 = i
    OBVIOUS
  <2>2. 0 \in 0..n
    OBVIOUS
  <2> QED  BY <1>8, <2>1, <2>2
<1> DEFINE G == {i \in 0..n : Enumerates(upto[i], Up(i))}
<1>11. 0 \in G
  <2>1. Up(0) = {} /\ 0 \in 0..n
    OBVIOUS
  <2>2. <<>> \in Seq({}) /\ Range(<<>>) = {} /\ Distinct(<<>>)
    BY DEF Range, Distinct
  <2> QED  BY <1>10, <2>1, <2>2 DEF Enumerates
<1>12. ASSUME NEW i \in 0..(n - 1), i \in G PROVE i + 1 \in G
  <2>1. Enumerates(upto[i], Up(i)) /\ i + 1 \in 0..n
    BY <1>12
  <2>2. CASE i + 1 \in S
    <3>1. upto[i + 1] = Append(upto[i], i + 1)
      BY <1>10, <2>2
    <3>2. Up(i + 1) = Up(i) \cup {i + 1} /\ i + 1 \notin Up(i)
      BY <2>2
    <3>3. PICK s : s = upto[i]
      OBVIOUS
    <3>4. s \in Seq(Up(i)) /\ Range(s) = Up(i) /\ Distinct(s)
      BY <2>1, <3>3 DEF Enumerates
    <3>5. s \in Seq(Up(i + 1)) /\ <<i + 1>> \in Seq(Up(i + 1))
      <4>1. Up(i) \subseteq Up(i + 1) /\ i + 1 \in Up(i + 1)
        BY <3>2
      <4> HIDE DEF Up
      <4> QED  BY <3>4, <4>1
    <3>6. Append(s, i + 1) = s \o <<i + 1>> /\ s \o <<i + 1>> \in Seq(Up(i + 1))
      BY <3>5
    <3>7. Range(s \o <<i + 1>>) = Up(i + 1)
      <4>1. s \in Seq(Up(i + 1)) /\ <<i + 1>> \in Seq(Up(i + 1))
        BY <3>5
      <4>2. Range(s \o <<i + 1>>) = Range(s) \cup Range(<<i + 1>>)
        BY <4>1, ConcatRange, ZenonT(30)
      <4>3. Range(<<i + 1>>) = {i + 1}
        BY SingleRange
      <4> QED  BY <3>2, <3>4, <4>2, <4>3
    <3>8. Distinct(s \o <<i + 1>>)
      <4>1. Range(s) \cap Range(<<i + 1>>) = {}
        BY <3>2, <3>4, SingleRange
      <4> QED  BY <3>4, <3>5, <4>1, ConcatDistinct, SingleDistinct
    <3>9. Enumerates(upto[i + 1], Up(i + 1))
      BY <3>1, <3>3, <3>6, <3>7, <3>8 DEF Enumerates
    <3> QED  BY <2>1, <3>9
  <2>3. CASE i + 1 \notin S
    <3>1. upto[i + 1] = upto[i] /\ Up(i + 1) = Up(i)
      BY <1>10, <2>3
    <3> QED  BY <2>1, <3>1
  <2> QED  BY <2>2, <2>3
<1> HIDE DEF G
<1>13. 0..n \subseteq G
  BY <1>11, <1>12, BoundedInduction
<1>14. n \in G
  BY <1>13
<1> QED  BY <1>9, <1>14 DEF G

================================================================================
