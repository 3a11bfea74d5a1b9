------------------------- MODULE LookupArgumentProofs --------------------------
(* Proofs about LookupArgument, for every number of rows, every set of values   *)
(* and every input and table.  Columns are compared by counting the rows of a   *)
(* value; the proofs are about bijections between such rows.                     *)
EXTENDS LookupArgument, DataInduction, FiniteSetTheorems

(* ---------------------------------- counting ---------------------------------- *)

\* A set of places is finite.
LEMMA PlacesAreFinite ==
    ASSUME NEW n \in Nat, NEW S \in SUBSET (1..n)
    PROVE  IsFiniteSet(S) /\ Cardinality(S) \in 0..n
<1>1. IsFiniteSet(1..n) /\ Cardinality(1..n) = n
  BY FS_Interval
<1>2. IsFiniteSet(S) /\ Cardinality(S) <= n
  BY <1>1, FS_Subset
<1> QED  BY <1>2, FS_CardinalityType

\* What is left of a set without a part of it.
LEMMA CountWithout ==
    ASSUME NEW S, IsFiniteSet(S), NEW T \in SUBSET S
    PROVE  /\ IsFiniteSet(T) /\ IsFiniteSet(S \ T)
           /\ Cardinality(S) \in Nat /\ Cardinality(T) \in Nat /\ Cardinality(S \ T) \in Nat
           /\ Cardinality(S) = Cardinality(T) + Cardinality(S \ T)
           /\ T # S => Cardinality(T) < Cardinality(S)
<1>1. IsFiniteSet(T) /\ IsFiniteSet(S \ T)
  BY FS_Subset, FS_Difference
<1>2. Cardinality(S) \in Nat /\ Cardinality(T) \in Nat /\ Cardinality(S \ T) \in Nat
  BY <1>1, FS_CardinalityType
<1>3. Cardinality(S \ T) = Cardinality(S) - Cardinality(S \cap T) /\ S \cap T = T
  BY FS_Difference
<1>4. Cardinality(T) <= Cardinality(S) /\ (Cardinality(S) = Cardinality(T) => S = T)
  BY FS_Subset
<1>5. T # S => Cardinality(T) < Cardinality(S)
  BY <1>2, <1>4
<1>6. Cardinality(S) = Cardinality(T) + Cardinality(S \ T)
  BY <1>2, <1>3
<1> QED  BY ONLY <1>1, <1>2, <1>5, <1>6

\* f takes S into T one to one.
OneToOne(f, S, T) ==
    /\ \A x \in S : f[x] \in T
    /\ \A x, y \in S : f[x] = f[y] => x = y

\* A one-to-one map is onto exactly when both sides have as many elements.
LEMMA OneToOneCounts ==
    ASSUME NEW S, NEW T, IsFiniteSet(T), NEW f, OneToOne(f, S, T)
    PROVE  /\ IsFiniteSet(S) /\ Cardinality(S) \in Nat /\ Cardinality(T) \in Nat
           /\ Cardinality(S) <= Cardinality(T)
           /\ (\A y \in T : \E x \in S : f[x] = y) <=> Cardinality(S) = Cardinality(T)
<1> DEFINE g == [x \in S |-> f[x]]
<1>1. g \in Injection(S, T)
  BY DEF OneToOne, Injection, IsInjective
<1>2. g \in Surjection(S, T) <=> \A y \in T : \E x \in S : f[x] = y
  BY <1>1 DEF Surjection, Injection
<1> HIDE DEF g
<1>3. /\ IsFiniteSet(S) /\ Cardinality(S) <= Cardinality(T)
      /\ Cardinality(S) = Cardinality(T) <=> g \in Surjection(S, T)
  BY <1>1, FS_Injection
<1>4. Cardinality(S) \in Nat /\ Cardinality(T) \in Nat
  BY <1>3, FS_CardinalityType
<1> QED  BY <1>2, <1>3, <1>4

\* Numbering a set one to one reaches every number.
Numbers(num, S) == IsFiniteSet(S) /\ OneToOne(num, S, 1..Cardinality(S))

\* A numbering of a set by its size uses every number.
LEMMA NumbersReach ==
    ASSUME NEW S, NEW num, Numbers(num, S)
    PROVE  \A k \in 1..Cardinality(S) : \E x \in S : num[x] = k
<1> USE DEF Numbers
<1>1. Cardinality(S) \in Nat
  BY FS_CardinalityType
<1>2. IsFiniteSet(1..Cardinality(S)) /\ Cardinality(1..Cardinality(S)) = Cardinality(S)
  BY <1>1, FS_Interval
<1> DEFINE T == 1..Cardinality(S)
<1>3. (\A y \in T : \E x \in S : num[x] = y) <=> Cardinality(S) = Cardinality(T)
  <2>1. IsFiniteSet(T) /\ OneToOne(num, S, T)
    BY <1>2
  <2> HIDE DEF T
  <2> QED  BY <2>1, OneToOneCounts
<1> QED  BY <1>2, <1>3

\* Ascending lists the numbers of a set, each once and in their order.
Lists(f, S) ==
    /\ f \in [1..Cardinality(S) -> S]
    /\ OneToOne(f, 1..Cardinality(S), S)
    /\ \A x \in S : \E k \in 1..Cardinality(S) : f[k] = x
    /\ \A j, k \in 1..Cardinality(S) : j < k => f[j] < f[k]

\* Ascending lists the elements of a finite set of numbers, each once, in order.
LEMMA AscendingLists ==
    ASSUME NEW S, \A x \in S : x \in Nat, IsFiniteSet(S)
    PROVE  Cardinality(S) \in Nat /\ Lists(Ascending(S), S)
<1> DEFINE n == Cardinality(S)
           upto(x) == {z \in S : z <= x}
           f == Ascending(S)
<1>0. PICK rank : rank = [x \in S |-> Cardinality(upto(x))]
  OBVIOUS
<1>1. n \in Nat
  BY FS_CardinalityType
<1>2. ASSUME NEW x \in S PROVE IsFiniteSet(upto(x)) /\ rank[x] \in 1..n /\ rank[x] \in Nat
  <2>1. IsFiniteSet(upto(x)) /\ Cardinality(upto(x)) \in Nat /\ Cardinality(upto(x)) <= n
    <3>1. upto(x) \in SUBSET S
      OBVIOUS
    <3>2. IsFiniteSet(upto(x)) /\ Cardinality(upto(x)) <= n
      BY <3>1, FS_Subset
    <3> QED  BY <3>2, FS_CardinalityType
  <2>2. Cardinality(upto(x)) # 0
    <3>1. x \in upto(x)
      OBVIOUS
    <3> QED  BY <2>1, <3>1, FS_EmptySet
  <2> QED  BY <1>0, <1>1, <2>1, <2>2
<1>3. ASSUME NEW x \in S, NEW y \in S, x < y PROVE rank[x] < rank[y]
  <2>1. upto(x) \in SUBSET upto(y) /\ upto(x) # upto(y)
    <3>1. x \in Nat /\ y \in Nat /\ \A z \in S : z \in Nat
      OBVIOUS
    <3>2. y \in upto(y) /\ y \notin upto(x)
      BY <1>3, <3>1
    <3>3. \A z \in S : z <= x => z <= y
      BY <1>3, <3>1
    <3>4. upto(x) \subseteq upto(y)
      BY <3>3
    <3> QED  BY <3>2, <3>4
  <2>2. IsFiniteSet(upto(y))
    BY <1>2
  <2>3. rank[x] = Cardinality(upto(x)) /\ rank[y] = Cardinality(upto(y))
    BY <1>0
  <2> HIDE DEF upto
  <2>4. Cardinality(upto(x)) < Cardinality(upto(y))
    BY <2>1, <2>2, CountWithout
  <2> QED  BY <2>3, <2>4
<1>4. OneToOne(rank, S, 1..n)
  <2>1. ASSUME NEW x \in S, NEW y \in S, rank[x] = rank[y] PROVE x = y
    <3>1. rank[x] \in Nat /\ rank[y] \in Nat
      BY <1>1, <1>2
    <3>2. x < y \/ y < x \/ x = y
      OBVIOUS
    <3> QED  BY <1>3, <2>1, <3>1, <3>2
  <2> QED  BY <1>2, <2>1 DEF OneToOne
<1>5. ASSUME NEW k \in 1..n PROVE f[k] \in S /\ rank[f[k]] = k
  <2>1. \E x \in S : rank[x] = k
    <3>1. Numbers(rank, S)
      BY <1>4 DEF Numbers
    <3>2. \A i \in 1..Cardinality(S) : \E x \in S : rank[x] = i
      BY <3>1, NumbersReach
    <3> QED  BY <3>2
  <2>2. \E x \in S : Cardinality({y \in S : y <= x}) = k
    BY <1>0, <2>1
  <2>3. f[k] = CHOOSE x \in S : Cardinality({y \in S : y <= x}) = k
    BY DEF Ascending
  <2> QED  BY <1>0, <2>2, <2>3
<1>6. f = [k \in 1..n |-> f[k]]
  BY DEF Ascending
<1> HIDE DEF f, n
<1>7. \A x \in S : f[rank[x]] = x
  BY <1>2, <1>4, <1>5 DEF OneToOne
<1>8. ASSUME NEW j \in 1..n, NEW k \in 1..n, j < k PROVE f[j] < f[k]
  <2>1. f[j] \in Nat /\ f[k] \in Nat /\ rank[f[j]] = j /\ rank[f[k]] = k
    BY <1>5
  <2>2. f[j] < f[k] \/ f[k] < f[j] \/ f[j] = f[k]
    BY <2>1
  <2>3. f[k] < f[j] => k < j
    BY <1>3, <1>5, <2>1
  <2> QED  BY <1>1, <1>8, <2>1, <2>2, <2>3
<1>9. Lists(f, S)
  <2>1. f \in [1..n -> S]
    BY <1>5, <1>6
  <2>2. OneToOne(f, 1..n, S)
    BY <1>5 DEF OneToOne
  <2>3. \A x \in S : \E k \in 1..n : f[k] = x
    BY <1>2, <1>7
  <2> QED  BY <1>8, <2>1, <2>2, <2>3 DEF Lists, n
<1> QED  BY <1>1, <1>9 DEF f, n

(* ---------------------------------- columns ----------------------------------- *)

Ordered(s) == \A i, j \in DOMAIN s : i < j => s[i] <= s[j]

SameCounts(s, t) == \A v : Count(s, v) = Count(t, v)

\* The rows of a value are places, and there are none exactly if it is no cell.
LEMMA CountType ==
    ASSUME NEW n \in Nat, NEW col, DOMAIN col = 1..n
    PROVE  \A v : /\ IsFiniteSet({i \in DOMAIN col : col[i] = v})
                  /\ Count(col, v) \in 0..n
                  /\ Count(col, v) # 0 <=> v \in Cells(col)
<1> SUFFICES ASSUME NEW v
             PROVE  /\ IsFiniteSet({i \in DOMAIN col : col[i] = v})
                    /\ Count(col, v) \in 0..n
                    /\ Count(col, v) # 0 <=> v \in Cells(col)
  OBVIOUS
<1> DEFINE S == {i \in DOMAIN col : col[i] = v}
<1>1. IsFiniteSet(S) /\ Cardinality(S) \in 0..n
  <2>1. S \in SUBSET (1..n)
    OBVIOUS
  <2> HIDE DEF S
  <2> QED  BY <2>1, PlacesAreFinite
<1>2. Cardinality(S) = 0 <=> S = {}
  <2> HIDE DEF S
  <2> QED  BY <1>1, FS_EmptySet
<1>3. S # {} <=> v \in Cells(col)
  BY DEF Cells, ToSet
<1>4. Count(col, v) = Cardinality(S)
  BY DEF Count
<1> QED  BY <1>1, <1>2, <1>3, <1>4

\* Sort puts the cells of a column in their order.
LEMMA SortSorts ==
    ASSUME NEW n \in Nat, NEW V, \A v \in V : v \in Nat, NEW col \in [1..n -> V]
    PROVE  Sort(col) \in [1..n -> V] /\ Ordered(Sort(col)) /\ SameCounts(Sort(col), col)
<1> DEFINE less(v) == {j \in 1..n : col[j] < v}
           upto(v) == {j \in 1..n : col[j] <= v}
           same(v) == {j \in 1..n : col[j] = v}
           before(j) == {k \in 1..n : col[k] < col[j] \/ (col[k] = col[j] /\ k <= j)}
<1>1. \A j \in 1..n : col[j] \in V /\ col[j] \in Nat /\ j \in Nat
  OBVIOUS
<1>2. Cells(col) \subseteq V /\ \A v \in Cells(col) : v \in Nat
  BY <1>1 DEF Cells, ToSet
<1>3. ASSUME NEW S \in SUBSET (1..n)
      PROVE  IsFiniteSet(S) /\ Cardinality(S) \in 0..n /\ Cardinality(S) \in Nat
  BY PlacesAreFinite
<1>4. ASSUME NEW S \in SUBSET (1..n), NEW T \in SUBSET S
      PROVE  /\ Cardinality(S) = Cardinality(T) + Cardinality(S \ T)
             /\ Cardinality(T) <= Cardinality(S)
             /\ T # S => Cardinality(T) < Cardinality(S)
  BY <1>3, CountWithout, FS_Subset
<1>5. ASSUME NEW v \in Nat
      PROVE  /\ Cardinality(less(v)) \in 0..n /\ Cardinality(upto(v)) \in 0..n
             /\ Cardinality(upto(v)) = Cardinality(less(v)) + Count(col, v)
  <2>1. less(v) \in SUBSET upto(v) /\ upto(v) \in SUBSET (1..n) /\ less(v) \in SUBSET (1..n)
    BY <1>1
  <2>2. upto(v) \ less(v) = same(v)
    BY <1>1
  <2>3. Count(col, v) = Cardinality(same(v))
    BY DEF Count
  <2> HIDE DEF less, upto, same
  <2> QED  BY <1>3, <1>4, <2>1, <2>2, <2>3
<1>6. ASSUME NEW v \in Nat, NEW w \in Nat, v < w
      PROVE  Cardinality(upto(v)) <= Cardinality(less(w))
  <2>1. upto(v) \in SUBSET less(w) /\ less(w) \in SUBSET (1..n)
    BY <1>1, <1>6
  <2> HIDE DEF less, upto
  <2> QED  BY <1>4, <2>1
<1>7. ASSUME NEW i \in 1..n
      PROVE  \E v \in Cells(col) : Cardinality(less(v)) < i /\ i <= Cardinality(upto(v))
  <2>1. PICK rank : rank = [j \in 1..n |-> Cardinality(before(j))]
    OBVIOUS
  <2>2. ASSUME NEW j \in 1..n
        PROVE  rank[j] \in 1..n /\ rank[j] \in Nat
    <3>1. before(j) \in SUBSET (1..n) /\ before(j) # {}
      BY <1>1
    <3> HIDE DEF before
    <3>2. IsFiniteSet(before(j)) /\ Cardinality(before(j)) \in 0..n
      BY <1>3, <3>1
    <3>3. Cardinality(before(j)) # 0
      BY <3>1, <3>2, FS_EmptySet
    <3> QED  BY <2>1, <3>2, <3>3
  <2>3. ASSUME NEW j \in 1..n, NEW k \in 1..n,
               col[j] < col[k] \/ (col[j] = col[k] /\ j < k)
        PROVE  rank[j] < rank[k]
    <3>1. \A l \in 1..n : l \in before(j) => l \in before(k)
      BY <1>1, <2>3
    <3>2. k \in before(k) /\ k \notin before(j)
      BY <1>1, <2>3
    <3>3. before(j) \in SUBSET before(k) /\ before(j) # before(k) /\ before(k) \in SUBSET (1..n)
      BY <3>1, <3>2
    <3> HIDE DEF before
    <3>4. Cardinality(before(j)) < Cardinality(before(k))
      BY <1>4, <3>3
    <3> QED  BY <2>1, <3>4
  <2>4. OneToOne(rank, 1..n, 1..n)
    <3>1. ASSUME NEW j \in 1..n, NEW k \in 1..n, rank[j] = rank[k] PROVE j = k
      <4>1. \/ j = k
            \/ col[j] < col[k] \/ (col[j] = col[k] /\ j < k)
            \/ col[k] < col[j] \/ (col[k] = col[j] /\ k < j)
        BY <1>1
      <4>2. ~(rank[j] < rank[k]) /\ ~(rank[k] < rank[j])
        BY <2>2, <3>1
      <4> QED  BY <2>3, <4>1, <4>2
    <3> QED  BY <2>2, <3>1 DEF OneToOne
  <2>5. PICK j \in 1..n : rank[j] = i
    <3>1. IsFiniteSet(1..n) /\ Cardinality(1..n) = n
      BY FS_Interval
    <3>2. Numbers(rank, 1..n)
      BY <2>4, <3>1 DEF Numbers
    <3>3. \A k \in 1..Cardinality(1..n) : \E x \in 1..n : rank[x] = k
      BY ONLY <3>2, NumbersReach
    <3> QED  BY <3>1, <3>3
  <2>6. Cardinality(before(j)) = i
    BY <2>1, <2>5
  <2>7. /\ less(col[j]) \in SUBSET before(j) /\ before(j) \in SUBSET upto(col[j])
        /\ j \in before(j) /\ j \notin less(col[j]) /\ upto(col[j]) \in SUBSET (1..n)
    BY <1>1
  <2>8. before(j) \in SUBSET (1..n) /\ less(col[j]) # before(j)
    BY <2>7
  <2>9. col[j] \in Cells(col)
    BY DEF Cells, ToSet
  <2>10. Cardinality(less(col[j])) < i /\ i <= Cardinality(upto(col[j]))
    <3> HIDE DEF less, upto, before
    <3> QED  BY <1>4, <2>6, <2>7, <2>8
  <2> QED  BY <2>9, <2>10
<1> DEFINE s == Sort(col)
<1>8. ASSUME NEW i \in 1..n
      PROVE  /\ s[i] \in Cells(col) /\ s[i] \in V /\ s[i] \in Nat
             /\ Cardinality(less(s[i])) < i /\ i <= Cardinality(upto(s[i]))
  <2>1. s[i] = CHOOSE v \in Cells(col) : /\ Cardinality({j \in DOMAIN col : col[j] < v}) < i
                                         /\ i <= Cardinality({j \in DOMAIN col : col[j] <= v})
    BY DEF Sort
  <2>2. DOMAIN col = 1..n
    OBVIOUS
  <2>3. s[i] = CHOOSE v \in Cells(col) : /\ Cardinality(less(v)) < i
                                         /\ i <= Cardinality(upto(v))
    BY <2>1, <2>2
  <2> HIDE DEF less, upto, s
  <2>4. s[i] \in Cells(col) /\ Cardinality(less(s[i])) < i /\ i <= Cardinality(upto(s[i]))
    BY <1>7, <2>3
  <2> QED  BY <1>2, <2>4
<1>9. s = [i \in 1..n |-> s[i]]
  <2> DEFINE F(i) == CHOOSE v \in Cells(col) :
                        /\ Cardinality({j \in DOMAIN col : col[j] < v}) < i
                        /\ i <= Cardinality({j \in DOMAIN col : col[j] <= v})
  <2>1. s = [i \in 1..n |-> F(i)]
    BY DEF Sort
  <2> HIDE DEF F
  <2> QED  BY <2>1
<1> HIDE DEF s, less, upto, same, before
<1>10. PICK L, U : L = [v \in Nat |-> Cardinality(less(v))] /\ U = [v \in Nat |-> Cardinality(upto(v))]
  OBVIOUS
<1>11. \A v \in Nat : L[v] \in Nat /\ U[v] \in Nat /\ U[v] <= n /\ U[v] = L[v] + Count(col, v)
  <2>1. ASSUME NEW v \in Nat PROVE L[v] \in Nat /\ U[v] \in Nat /\ U[v] <= n /\ U[v] = L[v] + Count(col, v)
    <3>1. /\ Cardinality(less(v)) \in 0..n /\ Cardinality(upto(v)) \in 0..n
          /\ Cardinality(upto(v)) = Cardinality(less(v)) + Count(col, v)
      BY <1>5
    <3>2. L[v] = Cardinality(less(v)) /\ U[v] = Cardinality(upto(v))
      BY <1>10
    <3>3. L[v] \in 0..n /\ U[v] \in 0..n /\ U[v] = L[v] + Count(col, v)
      BY <3>1, <3>2
    <3> QED  BY <3>3
  <2> QED  BY <2>1
<1>12. \A v, w \in Nat : v < w => U[v] <= L[w]
  <2>1. ASSUME NEW v \in Nat, NEW w \in Nat, v < w PROVE U[v] <= L[w]
    <3>1. Cardinality(upto(v)) <= Cardinality(less(w))
      BY <1>6, <2>1
    <3> QED  BY <1>10, <3>1
  <2> QED  BY <2>1
<1>13. \A i \in 1..n : s[i] \in Cells(col) /\ s[i] \in Nat /\ L[s[i]] < i /\ i <= U[s[i]]
  <2>1. ASSUME NEW i \in 1..n PROVE s[i] \in Cells(col) /\ s[i] \in Nat /\ L[s[i]] < i /\ i <= U[s[i]]
    <3>1. /\ s[i] \in Cells(col) /\ s[i] \in Nat
          /\ Cardinality(less(s[i])) < i /\ i <= Cardinality(upto(s[i]))
      BY <1>8
    <3> QED  BY <1>10, <3>1
  <2> QED  BY <2>1
<1>14. ASSUME NEW i \in 1..n, NEW v \in Cells(col), L[v] < i, i <= U[v]
       PROVE  s[i] = v
  <2>1. v \in Nat /\ s[i] \in Nat /\ i \in Nat /\ L[s[i]] < i /\ i <= U[s[i]]
    BY <1>2, <1>13
  <2>2. L[v] \in Nat /\ U[v] \in Nat /\ L[s[i]] \in Nat /\ U[s[i]] \in Nat
    BY <1>11, <2>1
  <2>3. (v < s[i] => U[v] <= L[s[i]]) /\ (s[i] < v => U[s[i]] <= L[v])
    BY <1>12, <2>1
  <2>4. ~(v < s[i]) /\ ~(s[i] < v)
    BY <1>14, <2>1, <2>2, <2>3
  <2> QED  BY <2>1, <2>4
<1>15. ASSUME NEW i \in 1..n, NEW j \in 1..n, i < j PROVE s[i] <= s[j]
  <2>1. s[i] \in Nat /\ s[j] \in Nat /\ L[s[i]] < i /\ j <= U[s[j]]
    BY <1>13
  <2>2. s[j] < s[i] => U[s[j]] <= L[s[i]]
    BY <1>12, <2>1
  <2>3. U[s[j]] \in Nat /\ L[s[i]] \in Nat /\ i \in Nat /\ j \in Nat
    BY <1>11, <2>1
  <2> QED  BY <1>15, <2>1, <2>2, <2>3
<1>16. DOMAIN s = 1..n /\ DOMAIN col = 1..n
  BY <1>9
<1>17. ASSUME NEW v PROVE Count(s, v) = Count(col, v)
  <2>1. CASE v \in Cells(col)
    <3>1. v \in Nat /\ L[v] \in Nat /\ U[v] \in Nat /\ U[v] <= n /\ U[v] = L[v] + Count(col, v)
      BY <1>2, <1>11, <2>1
    <3>2. Count(col, v) \in Nat
      <4>1. Count(col, v) \in 0..n
        BY <1>16, CountType
      <4> QED  BY <4>1
    <3>3. \A i \in 1..n : s[i] = v <=> L[v] < i /\ i <= U[v]
      BY <1>13, <1>14, <2>1
    <3>4. {i \in 1..n : s[i] = v} = (L[v] + 1)..U[v]
      BY <3>1, <3>3
    <3>5. Cardinality((L[v] + 1)..U[v]) = Count(col, v)
      <4>1. L[v] + 1 \in Int /\ U[v] \in Int
        BY <3>1
      <4>2. Cardinality((L[v] + 1)..U[v]) =
                IF L[v] + 1 > U[v] THEN 0 ELSE U[v] - (L[v] + 1) + 1
        BY <4>1, FS_Interval
      <4> QED  BY <3>1, <3>2, <4>2
    <3> QED  BY <1>16, <3>4, <3>5 DEF Count
  <2>2. CASE v \notin Cells(col)
    <3>1. v \notin Cells(s)
      BY <1>13, <1>16, <2>2 DEF Cells, ToSet
    <3>2. Count(s, v) = 0 /\ Count(col, v) = 0
      BY <1>16, <2>2, <3>1, CountType
    <3> QED  BY <3>2
  <2> QED  BY <2>1, <2>2
<1>18. s \in [1..n -> V]
  BY <1>8, <1>9
<1>19. Ordered(s)
  BY <1>15, <1>16 DEF Ordered
<1>20. SameCounts(s, col)
  BY <1>17 DEF SameCounts
<1> QED  BY <1>18, <1>19, <1>20 DEF s

\* A set that is taken one to one onto another is as large.
LEMMA OntoCounts ==
    ASSUME NEW S, NEW T, IsFiniteSet(S), NEW f, OneToOne(f, S, T), \A y \in T : \E x \in S : f[x] = y
    PROVE  IsFiniteSet(T) /\ Cardinality(T) = Cardinality(S)
<1> DEFINE g == [x \in S |-> f[x]]
<1>1. g \in Surjection(S, T) /\ g \in Injection(S, T)
  BY DEF OneToOne, Injection, Surjection, IsInjective
<1> HIDE DEF g
<1> QED  BY <1>1, FS_Surjection

(* --------------------- first occurrences and repeated rows -------------------- *)

Repeats(a) == {i \in DOMAIN a : ~First(a, i)}

\* Like values are adjacent.
Grouped(a) == \A i, j \in DOMAIN a : First(a, i) /\ First(a, j) /\ a[i] = a[j] => i = j

\* In a sorted column the rows of a value follow each other.
LEMMA OrderedIsGrouped ==
    ASSUME NEW n \in Nat, NEW a, DOMAIN a = 1..n, \A i \in 1..n : a[i] \in Nat, Ordered(a)
    PROVE  Grouped(a)
<1>1. ASSUME NEW i \in 1..n, NEW j \in 1..n, i < j, First(a, j), a[i] = a[j]
      PROVE  FALSE
  <2>1. j - 1 \in 1..n /\ j - 1 < j /\ (i = j - 1 \/ i < j - 1) /\ j # 1
    BY <1>1
  <2>2. a[j] # a[j - 1]
    BY <1>1, <2>1 DEF First
  <2>3. a[i] <= a[j - 1] /\ a[j - 1] <= a[j]
    BY <2>1, SMTT(30) DEF Ordered
  <2>4. a[i] \in Nat /\ a[j] \in Nat /\ a[j - 1] \in Nat
    BY <2>1
  <2> QED  BY <1>1, <2>2, <2>3, <2>4
<1>2. ASSUME NEW i \in 1..n, NEW j \in 1..n, First(a, i), First(a, j), a[i] = a[j] PROVE i = j
  <2>1. ~(i < j) /\ ~(j < i)
    BY <1>1, <1>2
  <2> QED  BY <2>1
<1> QED  BY <1>2 DEF Grouped

\* Every value of a column has a first row.
LEMMA FirstOfEach ==
    ASSUME NEW n \in Nat, NEW a, DOMAIN a = 1..n, NEW v \in Cells(a)
    PROVE  \E i \in 1..n : First(a, i) /\ a[i] = v /\ \A k \in 1..n : a[k] = v => i <= k
<1> DEFINE S == {i \in 1..n : a[i] = v}
<1>1. S \in SUBSET Nat /\ S # {}
  BY DEF Cells, ToSet
<1>2. PICK i \in S : \A k \in S : i <= k
  <2> HIDE DEF S
  <2> QED  BY <1>1, LeastNatural
<1>3. i \in 1..n /\ a[i] = v
  BY <1>2
<1>4. First(a, i)
  <2>1. SUFFICES ASSUME i # 1, a[i] = a[i - 1] PROVE FALSE
    BY DEF First
  <2>2. i - 1 \in 1..n /\ ~(i <= i - 1)
    BY <1>3, <2>1
  <2>3. i - 1 \in S
    BY <1>3, <2>1, <2>2
  <2> QED  BY <1>2, <2>2, <2>3
<1>5. \A k \in 1..n : a[k] = v => i <= k
  BY <1>2
<1> QED  BY <1>3, <1>4, <1>5

\* The first occurrences of the values in C
FirstsIn(a, C) == {i \in DOMAIN a : First(a, i) /\ a[i] \in C}

\* There are as many first occurrences as values.
LEMMA FirstsOf ==
    ASSUME NEW n \in Nat, NEW a, DOMAIN a = 1..n, Grouped(a), NEW C
    PROVE  /\ IsFiniteSet(Cells(a) \cap C)
           /\ IsFiniteSet(FirstsIn(a, C))
           /\ Cardinality(Cells(a) \cap C) \in 0..n
           /\ Cardinality(FirstsIn(a, C)) = Cardinality(Cells(a) \cap C)
<1> DEFINE F == FirstsIn(a, C)
<1>1. F \in SUBSET (1..n)
  BY DEF FirstsIn
<1>2. OneToOne(a, F, Cells(a) \cap C)
  BY DEF FirstsIn, OneToOne, Cells, ToSet, Grouped
<1>3. \A v \in Cells(a) \cap C : \E i \in F : a[i] = v
  <2>1. ASSUME NEW v \in Cells(a) \cap C PROVE \E i \in F : a[i] = v
    <3>1. PICK i \in 1..n : First(a, i) /\ a[i] = v
      BY FirstOfEach
    <3> QED  BY <3>1 DEF FirstsIn
  <2> QED  BY <2>1
<1> HIDE DEF F
<1>4. IsFiniteSet(F) /\ Cardinality(F) \in 0..n
  BY <1>1, PlacesAreFinite
<1>5. IsFiniteSet(Cells(a) \cap C) /\ Cardinality(Cells(a) \cap C) = Cardinality(F)
  BY <1>2, <1>3, <1>4, OntoCounts
<1> QED  BY <1>4, <1>5 DEF F

\* A grouped column has one first row per value; all others are repeats.
LEMMA RepeatsOf ==
    ASSUME NEW n \in Nat, NEW a, DOMAIN a = 1..n, Grouped(a)
    PROVE  /\ IsFiniteSet(Cells(a)) /\ IsFiniteSet(Repeats(a))
           /\ Cardinality(Cells(a)) \in 0..n /\ Cardinality(Repeats(a)) \in 0..n
           /\ Cardinality(Cells(a)) + Cardinality(Repeats(a)) = n
<1> DEFINE C == Cells(a)
           F == FirstsIn(a, C)
<1>1. C \cap C = C
  OBVIOUS
<1>2. IsFiniteSet(C) /\ Cardinality(C) \in 0..n /\ Cardinality(F) = Cardinality(C)
  <2>1. /\ IsFiniteSet(Cells(a) \cap C)
        /\ Cardinality(Cells(a) \cap C) \in 0..n
        /\ Cardinality(F) = Cardinality(Cells(a) \cap C)
    BY FirstsOf
  <2> QED  BY <1>1, <2>1
<1>3. Repeats(a) = (1..n) \ F /\ F \in SUBSET (1..n)
  BY DEF FirstsIn, Repeats, Cells, ToSet
<1> HIDE DEF C, F
<1>4. IsFiniteSet(1..n) /\ Cardinality(1..n) = n
  BY FS_Interval
<1>5. /\ IsFiniteSet((1..n) \ F) /\ Cardinality((1..n) \ F) \in Nat
      /\ Cardinality(1..n) = Cardinality(F) + Cardinality((1..n) \ F)
  BY <1>3, <1>4, CountWithout
<1>6. IsFiniteSet(Repeats(a)) /\ Cardinality(Repeats(a)) \in Nat
      /\ n = Cardinality(C) + Cardinality(Repeats(a))
  BY <1>2, <1>3, <1>4, <1>5
<1>7. Cardinality(Repeats(a)) \in 0..n /\ Cardinality(C) + Cardinality(Repeats(a)) = n
  BY <1>2, <1>6
<1> QED  BY <1>2, <1>6, <1>7 DEF C

\* A column that has its value in the first of like rows and in the others, each once,
\* those of a list.
Filled(s, a, L, idx) ==
    /\ DOMAIN s = DOMAIN a
    /\ \A i \in DOMAIN a : s[i] = IF First(a, i) THEN a[i] ELSE L[idx[i]]

\* A column filled from a leftover has one row more of each value it keeps first.
LEMMA FilledCounts ==
    ASSUME NEW n \in Nat, NEW a, DOMAIN a = 1..n, Grouped(a),
           NEW m \in Nat, NEW L, DOMAIN L = 1..m, Cardinality(Repeats(a)) = m,
           NEW idx, OneToOne(idx, Repeats(a), 1..m),
           NEW s, Filled(s, a, L, idx), NEW v
    PROVE  Count(s, v) = (IF v \in Cells(a) THEN 1 ELSE 0) + Count(L, v)
<1> DEFINE A == FirstsIn(a, {v})
           B == {i \in Repeats(a) : L[idx[i]] = v}
           K == {k \in 1..m : L[k] = v}
<1>1. \A k \in 1..m : \E i \in Repeats(a) : idx[i] = k
  <2>1. IsFiniteSet(1..m) /\ Cardinality(1..m) = m
    BY FS_Interval
  <2> DEFINE T == 1..m
             R == Repeats(a)
  <2>2. OneToOne(idx, R, T) /\ IsFiniteSet(T) /\ Cardinality(R) = Cardinality(T)
    BY <2>1
  <2> HIDE DEF T, R, A, B, K
  <2>3. \A k \in T : \E i \in R : idx[i] = k
    BY <2>2, OneToOneCounts
  <2> QED  BY <2>3 DEF T, R
<1>2. IsFiniteSet(B) /\ Cardinality(B) \in Nat
  <2>1. B \in SUBSET (1..n)
    BY DEF Repeats
  <2> HIDE DEF B
  <2>2. IsFiniteSet(B) /\ Cardinality(B) \in 0..n
    BY <2>1, PlacesAreFinite
  <2> QED  BY <2>2
<1>3. Cardinality(K) = Cardinality(B)
  <2>1. OneToOne(idx, B, K)
    BY DEF OneToOne
  <2>2. \A k \in K : \E i \in B : idx[i] = k
    BY <1>1
  <2> HIDE DEF B, K
  <2> QED  BY <1>2, <2>1, <2>2, OntoCounts
<1>4. Cardinality(A) = (IF v \in Cells(a) THEN 1 ELSE 0) /\ IsFiniteSet(A)
  <2>1. Cardinality(A) = Cardinality(Cells(a) \cap {v}) /\ IsFiniteSet(A)
    BY FirstsOf
  <2>2. Cells(a) \cap {v} = IF v \in Cells(a) THEN {v} ELSE {}
    OBVIOUS
  <2>3. Cardinality({v}) = 1 /\ Cardinality({}) = 0
    BY FS_Singleton, FS_EmptySet
  <2> HIDE DEF A
  <2> QED  BY <2>1, <2>2, <2>3
<1>5. {i \in DOMAIN s : s[i] = v} = A \cup B /\ A \cap B = {}
  BY DEF Filled, Repeats, FirstsIn
<1>6. Count(s, v) = Cardinality(A \cup B) /\ Count(L, v) = Cardinality(K)
  BY <1>5 DEF Count
<1> HIDE DEF A, B, K
<1>7. Cardinality(A \cup B) = Cardinality(A) + Cardinality(B) - Cardinality(A \cap B)
  BY <1>2, <1>4, FS_Union
<1>8. Cardinality(A \cap B) = 0
  BY <1>5, FS_EmptySet
<1> QED  BY <1>2, <1>3, <1>4, <1>6, <1>7, <1>8

\* There is a usable row, and the product has one row more.
LEMMA SizesAreNatural == Usable \in Nat /\ Usable > 0 /\ Rows = 1..Usable /\ AccLen = Usable + 1
<1>1. N \in Nat /\ BlindingFactors \in Nat /\ Usable > 0
  BY SizesAssumption
<1> QED  BY <1>1 DEF Usable, Rows, AccLen

\* Values are numbers, compared as the field elements' order compares them.
LEMMA ValuesAreNatural == Values \subseteq Nat /\ (\A v \in Values : v \in Nat) /\ 0 \in Values
  BY ColumnsAssumption

\* Columns with the same counts have the same cells.
LEMMA SameCells ==
    ASSUME NEW n \in Nat, NEW s, NEW t, DOMAIN s = 1..n, DOMAIN t = 1..n, SameCounts(s, t)
    PROVE  Cells(s) = Cells(t)
<1>1. ASSUME NEW v PROVE v \in Cells(s) <=> v \in Cells(t)
  <2>1. Count(s, v) = Count(t, v)
    BY DEF SameCounts
  <2> QED  BY <2>1, CountType
<1>2. \A v : v \in Cells(s) <=> v \in Cells(t)
  BY <1>1
<1> QED  BY <1>2

Columns == [1..Usable -> Values]

\* A sorted column
LEMMA SortedColumn ==
    ASSUME NEW col, col \in Columns
    PROVE  /\ Sort(col) \in Columns /\ DOMAIN Sort(col) = 1..Usable
           /\ Ordered(Sort(col)) /\ Grouped(Sort(col))
           /\ SameCounts(Sort(col), col) /\ Cells(Sort(col)) = Cells(col)
<1>1. Usable \in Nat /\ col \in [1..Usable -> Values] /\ \A v \in Values : v \in Nat
  BY SizesAreNatural, ValuesAreNatural DEF Columns
<1>2. Sort(col) \in [1..Usable -> Values] /\ Ordered(Sort(col)) /\ SameCounts(Sort(col), col)
  BY <1>1, SortSorts
<1>3. DOMAIN Sort(col) = 1..Usable /\ \A i \in 1..Usable : Sort(col)[i] \in Nat
  BY <1>1, <1>2
<1>4. Grouped(Sort(col))
  BY <1>1, <1>2, <1>3, OrderedIsGrouped
<1>5. Cells(Sort(col)) = Cells(col)
  <2>1. DOMAIN col = 1..Usable
    BY <1>1
  <2> QED  BY <1>1, <1>2, <1>3, <2>1, SameCells
<1> QED  BY <1>2, <1>3, <1>4, <1>5 DEF Columns

(* ----------------------------- filling repeated rows --------------------------- *)

\* Fill numbers the repeated rows from the last one, and fills each with that leftover.
LEMMA FillFills ==
    ASSUME NEW a, DOMAIN a = 1..Usable, Grouped(a),
           NEW m \in Nat, NEW L, DOMAIN L = 1..m, Cardinality(Repeats(a)) <= m
    PROVE  \E idx : OneToOne(idx, Repeats(a), 1..m) /\ Filled(Fill(a, L), a, L, idx)
<1> DEFINE from(i) == {j \in i..Usable : ~First(a, j)}
<1>0. Usable \in Nat /\ Rows = 1..Usable
  BY SizesAreNatural
<1>1. PICK idx : idx = [i \in 1..Usable |-> Cardinality(from(i))]
  OBVIOUS
<1>2. IsFiniteSet(Repeats(a)) /\ Cardinality(Repeats(a)) \in Nat
  <2>1. IsFiniteSet(Repeats(a)) /\ Cardinality(Repeats(a)) \in 0..Usable
    BY <1>0, RepeatsOf
  <2> QED  BY <1>0, <2>1
<1>3. ASSUME NEW i \in Repeats(a) PROVE idx[i] \in 1..m /\ idx[i] \in Nat /\ i \in 1..Usable
  <2>1. i \in 1..Usable /\ from(i) \in SUBSET Repeats(a) /\ i \in from(i)
    BY <1>0 DEF Repeats
  <2>2. idx[i] = Cardinality(from(i))
    BY <1>1, <2>1
  <2> HIDE DEF from
  <2>3. IsFiniteSet(from(i)) /\ Cardinality(from(i)) <= Cardinality(Repeats(a))
    BY <1>2, <2>1, FS_Subset
  <2>4. Cardinality(from(i)) \in Nat /\ Cardinality(from(i)) # 0
    BY <2>1, <2>3, FS_CardinalityType, FS_EmptySet
  <2> QED  BY <1>2, <2>1, <2>2, <2>3, <2>4
<1>4. ASSUME NEW i \in Repeats(a), NEW k \in Repeats(a), i < k PROVE idx[k] < idx[i]
  <2>1. /\ i \in 1..Usable /\ k \in 1..Usable /\ from(k) \in SUBSET from(i)
        /\ i \in from(i) /\ i \notin from(k) /\ from(i) \in SUBSET Repeats(a)
    BY <1>0, <1>4 DEF Repeats
  <2>2. idx[i] = Cardinality(from(i)) /\ idx[k] = Cardinality(from(k))
    BY <1>1, <2>1
  <2> HIDE DEF from
  <2>3. IsFiniteSet(from(i)) /\ from(k) # from(i)
    BY <1>2, <2>1, FS_Subset
  <2>4. Cardinality(from(k)) < Cardinality(from(i))
    BY <2>1, <2>3, CountWithout
  <2> QED  BY <2>2, <2>4
<1>5. OneToOne(idx, Repeats(a), 1..m)
  <2>1. ASSUME NEW i \in Repeats(a), NEW k \in Repeats(a), idx[i] = idx[k] PROVE i = k
    <3>1. idx[i] \in Nat /\ idx[k] \in Nat /\ i \in 1..Usable /\ k \in 1..Usable
      BY <1>3
    <3>2. ~(i < k) /\ ~(k < i)
      BY <1>4, <2>1, <3>1
    <3> QED  BY <1>0, <3>1, <3>2
  <2> QED  BY <1>3, <2>1 DEF OneToOne
<1>6. Filled(Fill(a, L), a, L, idx)
  BY <1>0, <1>1 DEF Filled, Fill
<1> QED  BY <1>5, <1>6

(* ------------------------------- leftover values ------------------------------- *)

Given == input \in Columns /\ table \in Columns

\* The values a first occurrence takes from the table
Taken == Cells(table) \cap Cells(input)

One0(v, S) == IF v \in S THEN 1 ELSE 0

\* The leftover values are the table's without one of each that is taken.
IsLeftover(L) ==
    /\ Cardinality(Taken) \in 0..Usable
    /\ L \in [1..(Usable - Cardinality(Taken)) -> Values]
    /\ Ordered(L)
    /\ \A v : Count(L, v) = Count(table, v) - One0(v, Taken)

\* The flagged rows are the table without one row of each input it holds.
LEMMA LeftoverIsLeft ==
    ASSUME Given
    PROVE  IsLeftover(Leftover)
<1> DEFINE C == Cells(input)
           left == {i \in Rows : ~First(Sort(table), i) \/ Sort(table)[i] \notin C}
<1>1. PICK t : t = Sort(table)
  OBVIOUS
<1>2. /\ Usable \in Nat /\ Rows = 1..Usable
      /\ t \in [1..Usable -> Values] /\ DOMAIN t = 1..Usable /\ Ordered(t) /\ Grouped(t)
      /\ SameCounts(t, table) /\ Cells(t) = Cells(table)
  BY <1>1, SizesAreNatural, SortedColumn DEF Given, Columns
<1>3. PICK f : f = Ascending(left)
  OBVIOUS
<1>4. left = (1..Usable) \ FirstsIn(t, C) /\ FirstsIn(t, C) \in SUBSET (1..Usable)
  BY <1>1, <1>2 DEF FirstsIn
<1>5. Leftover = [k \in DOMAIN f |-> t[f[k]]]
  BY <1>1, <1>3 DEF Leftover
<1> HIDE DEF left
<1>6. Cardinality(FirstsIn(t, C)) = Cardinality(Taken) /\ Cardinality(Taken) \in 0..Usable
  <2>1. /\ Cardinality(FirstsIn(t, C)) = Cardinality(Cells(t) \cap C)
        /\ Cardinality(Cells(t) \cap C) \in 0..Usable
    BY <1>2, FirstsOf
  <2> QED  BY <1>2, <2>1 DEF Taken
<1>7. /\ IsFiniteSet(left) /\ left \in SUBSET (1..Usable)
      /\ Cardinality(left) = Usable - Cardinality(Taken)
  <2>1. IsFiniteSet(1..Usable) /\ Cardinality(1..Usable) = Usable
    BY <1>2, FS_Interval
  <2>2. /\ IsFiniteSet((1..Usable) \ FirstsIn(t, C))
        /\ Cardinality((1..Usable) \ FirstsIn(t, C)) \in Nat
        /\ Cardinality(1..Usable) = Cardinality(FirstsIn(t, C))
                                    + Cardinality((1..Usable) \ FirstsIn(t, C))
    BY <1>4, <2>1, CountWithout
  <2> QED  BY <1>2, <1>4, <1>6, <2>1, <2>2
<1> DEFINE m == Usable - Cardinality(Taken)
<1>8. m \in Nat
  BY <1>2, <1>6
<1>9. Lists(f, left)
  <2>1. \A i \in left : i \in Nat
    BY <1>2, <1>7
  <2> QED  BY <1>3, <1>7, <2>1, AscendingLists
<1>10. /\ f \in [1..m -> left] /\ DOMAIN f = 1..m /\ OneToOne(f, 1..m, left)
       /\ \A i \in left : \E k \in 1..m : f[k] = i
       /\ \A j, k \in 1..m : j < k => f[j] < f[k]
  BY <1>7, <1>9 DEF Lists
<1> HIDE DEF m
<1>11. \A k \in 1..m : f[k] \in left /\ f[k] \in 1..Usable /\ Leftover[k] = t[f[k]] /\ t[f[k]] \in Values
  BY <1>2, <1>5, <1>7, <1>10
<1>12. Leftover \in [1..m -> Values] /\ DOMAIN Leftover = 1..m
  BY <1>5, <1>10, <1>11
<1>13. Ordered(Leftover)
  BY <1>2, <1>10, <1>11, <1>12 DEF Ordered
<1>14. ASSUME NEW v PROVE Count(Leftover, v) = Count(table, v) - One0(v, Taken)
  <2> DEFINE here == {k \in 1..m : Leftover[k] = v}
             there == {i \in left : t[i] = v}
             all == {i \in 1..Usable : t[i] = v}
             D == {v} \cap C
  <2>1. Count(Leftover, v) = Cardinality(here) /\ Count(table, v) = Cardinality(all)
    <3>1. Count(t, v) = Count(table, v)
      BY <1>2 DEF SameCounts
    <3> QED  BY <1>2, <1>12, <3>1 DEF Count
  <2>2. OneToOne(f, here, there)
    BY <1>10, <1>11 DEF OneToOne
  <2>3. \A i \in there : \E k \in here : f[k] = i
    BY <1>10, <1>11
  <2>4. here \in SUBSET (1..m) /\ all \in SUBSET (1..Usable)
    OBVIOUS
  <2>5. there = all \ FirstsIn(t, D)
    BY <1>2, <1>4 DEF FirstsIn
  <2>6. FirstsIn(t, D) \in SUBSET all
    BY <1>2 DEF FirstsIn
  <2> HIDE DEF here, there, all
  <2>7. IsFiniteSet(here) /\ IsFiniteSet(all)
    BY <1>2, <1>8, <2>4, PlacesAreFinite
  <2>8. Cardinality(there) = Cardinality(here)
    BY <2>2, <2>3, <2>7, OntoCounts
  <2>9. /\ Cardinality(all) = Cardinality(FirstsIn(t, D)) + Cardinality(all \ FirstsIn(t, D))
        /\ Cardinality(all) \in Nat /\ Cardinality(all \ FirstsIn(t, D)) \in Nat
        /\ Cardinality(FirstsIn(t, D)) \in Nat
    BY <2>6, <2>7, CountWithout
  <2>10. Cardinality(FirstsIn(t, D)) = One0(v, Taken)
    <3>1. Cardinality(FirstsIn(t, D)) = Cardinality(Cells(t) \cap D)
      <4> HIDE DEF D
      <4> QED  BY <1>2, FirstsOf
    <3>2. Cells(t) \cap D = IF v \in Taken THEN {v} ELSE {}
      BY <1>2 DEF Taken
    <3>3. Cardinality({v}) = 1 /\ Cardinality({}) = 0
      BY FS_Singleton, FS_EmptySet
    <3> QED  BY <3>1, <3>2, <3>3 DEF One0
  <2> QED  BY <2>1, <2>5, <2>8, <2>9, <2>10
<1> QED  BY <1>6, <1>12, <1>13, <1>14 DEF IsLeftover, m

(* ------------------------------ one after another ------------------------------ *)

\* c[k] is the sum of the first k lengths.
Sums(c, len, n) ==
    /\ c \in [0..n -> Nat] /\ c[0] = 0
    /\ \A k \in 1..n : c[k] = c[k - 1] + len[k]

\* Lengths have partial sums.
LEMMA SumsExist ==
    ASSUME NEW n \in Nat, NEW len \in [1..n -> Nat]
    PROVE  \E c : Sums(c, len, n)
<1>1. PICK step : step = [p \in Nat \X Nat |-> IF p[1] + 1 <= n THEN p[2] + len[p[1] + 1] ELSE p[2]]
  OBVIOUS
<1>2. step \in [Nat \X Nat -> Nat]
  <2>1. \A p \in Nat \X Nat : p[1] + 1 <= n => len[p[1] + 1] \in Nat
    OBVIOUS
  <2> QED  BY <1>1, <2>1
<1>3. PICK c : IsRun(c, Nat, 0, step, n)
  BY <1>2, RunExists
<1>4. c \in [0..n -> Nat] /\ c[0] = 0
  BY <1>3 DEF IsRun
<1>5. ASSUME NEW k \in 1..n PROVE c[k] = c[k - 1] + len[k]
  <2>1. k - 1 \in 0..(n - 1) /\ k - 1 \in 0..n /\ (k - 1) + 1 = k /\ k - 1 \in Nat /\ k <= n
    OBVIOUS
  <2>2. c[k] = step[<<k - 1, c[k - 1]>>]
    BY <1>3, <2>1 DEF IsRun
  <2>3. c[k - 1] \in Nat
    BY <1>4, <2>1
  <2> QED  BY <1>1, <2>1, <2>2, <2>3
<1> QED  BY <1>4, <1>5 DEF Sums

\* Partial sums do not decrease.
LEMMA SumsGrow ==
    ASSUME NEW n \in Nat, NEW len \in [1..n -> Nat], NEW c, Sums(c, len, n)
    PROVE  \A k \in 0..n : c[k] \in Nat /\ \A j \in 0..k : c[j] <= c[k]
<1> DEFINE S == {k \in 0..n : \A j \in 0..k : c[j] <= c[k]}
<1>1. \A k \in 0..n : c[k] \in Nat
  BY DEF Sums
<1>2. 0 \in S
  BY <1>1
<1>3. ASSUME NEW k \in 0..(n - 1), k \in S PROVE k + 1 \in S
  <2>1. k + 1 \in 1..n /\ k + 1 \in 0..n /\ (k + 1) - 1 = k /\ k \in 0..n /\ len[k + 1] \in Nat
    OBVIOUS
  <2>2. c[k + 1] = c[k] + len[k + 1] /\ c[k] \in Nat /\ c[k + 1] \in Nat
    BY <1>1, <2>1 DEF Sums
  <2>3. ASSUME NEW j \in 0..(k + 1) PROVE c[j] <= c[k + 1]
    <3>1. CASE j = k + 1
      BY <2>2, <3>1
    <3>2. CASE j # k + 1
      <4>1. j \in 0..k /\ j \in 0..n
        BY <3>2
      <4>2. c[j] <= c[k] /\ c[j] \in Nat
        BY <1>1, <1>3, <4>1
      <4> QED  BY <2>1, <2>2, <4>2
    <3> QED  BY <3>1, <3>2
  <2> QED  BY <2>1, <2>3
<1> HIDE DEF S
<1>4. 0..n \subseteq S
  BY <1>2, <1>3, BoundedInduction
<1> QED  BY <1>1, <1>4 DEF S

\* Every place is in one of the parts.
LEMMA SumsCover ==
    ASSUME NEW n \in Nat, NEW len \in [1..n -> Nat], NEW c, Sums(c, len, n), NEW p \in 1..c[n]
    PROVE  \E k \in 1..n : c[k - 1] < p /\ p <= c[k]
<1> DEFINE S == {k \in 0..n : p <= c[k]}
<1>1. c[0] = 0 /\ \A k \in 0..n : c[k] \in Nat
  BY DEF Sums
<1>2. S \in SUBSET Nat /\ n \in S
  BY <1>1
<1>3. PICK k \in S : \A j \in S : k <= j
  <2> HIDE DEF S
  <2> QED  BY <1>2, LeastNatural
<1>4. k \in 0..n /\ p <= c[k] /\ p \in Nat /\ p > 0
  BY <1>1, <1>2, <1>3
<1>5. k # 0
  BY <1>1, <1>4
<1>6. k - 1 \in 0..n /\ k \in 1..n /\ ~(k <= k - 1)
  BY <1>4, <1>5
<1>7. ~(p <= c[k - 1])
  BY <1>3, <1>6
<1> QED  BY <1>1, <1>4, <1>6, <1>7

\* Where the elements of the parts are in the whole
Placed(flat, seqs, c, n, V) ==
    /\ flat \in Seq(V) /\ Len(flat) = c[n]
    /\ \A k \in 1..n : \A r \in 1..Len(seqs[k]) : flat[c[k - 1] + r] = seqs[k][r]

\* The parts are as long as the sums say.
Parts(seqs, c, n, V) ==
    /\ seqs \in Seq(Seq(V)) /\ n = Len(seqs) /\ Sums(c, [k \in 1..n |-> Len(seqs[k])], n)

\* FlattenSeq puts each part behind the sum of the lengths before it.
LEMMA FlattenAt ==
    ASSUME NEW V, NEW seqs, NEW n, NEW c, Parts(seqs, c, n, V)
    PROVE  Placed(FlattenSeq(seqs), seqs, c, n, V)
<1> USE DEF Placed, Parts
<1>0. n \in Nat /\ \A k \in 1..n : seqs[k] \in Seq(V) /\ Len(seqs[k]) \in Nat
  OBVIOUS
<1>1. PICK len : len = [k \in 1..n |-> Len(seqs[k])]
  OBVIOUS
<1>2. len \in [1..n -> Nat] /\ Sums(c, len, n) /\ \A k \in 1..n : len[k] = Len(seqs[k])
  BY <1>0, <1>1
<1>3. \A k \in 0..n : c[k] \in Nat /\ \A j \in 0..k : c[j] <= c[k]
  BY <1>0, <1>2, SumsGrow
<1>4. c[0] = 0 /\ \A k \in 1..n : c[k] = c[k - 1] + Len(seqs[k])
  BY <1>2 DEF Sums
<1>5. CASE n = 0
  <2>1. FlattenSeq(seqs) = <<>>
    BY <1>5, FlattenNothing
  <2> QED  BY <1>4, <1>5, <2>1
<1>6. CASE n # 0
  <2>1. PICK f : IsFlattening(f, seqs, V) /\ FlattenSeq(seqs) = f[n]
    BY <1>6, FlattenSeqUnfold
  <2>2. /\ f \in [1..n -> Seq(V)] /\ f[1] = seqs[1]
        /\ \A i \in 1..(n - 1) : f[i + 1] = f[i] \o seqs[i + 1]
    BY <2>1 DEF IsFlattening
  <2> DEFINE At(i) == /\ Len(f[i]) = c[i]
                      /\ \A k \in 1..i : \A r \in 1..Len(seqs[k]) : f[i][c[k - 1] + r] = seqs[k][r]
             S == {i \in 0..(n - 1) : At(i + 1)}
  <2>3. 0 \in S
    <3>1. 1 \in 1..n /\ Len(seqs[1]) \in Nat /\ 1 - 1 = 0 /\ \A k \in 1..1 : k = 1
      BY <1>0, <1>6
    <3>2. c[1] = Len(seqs[1])
      BY <1>4, <3>1
    <3>3. At(1)
      BY <1>4, <2>2, <3>1, <3>2
    <3> QED  BY <1>0, <1>6, <3>3
  <2>4. ASSUME NEW i \in 0..((n - 1) - 1), i \in S PROVE i + 1 \in S
    <3>1. PICK j : j = i + 1
      OBVIOUS
    <3>2. /\ j \in 1..n /\ j + 1 \in 1..n /\ j \in 1..(n - 1) /\ j \in 0..(n - 1) /\ j \in 0..n
          /\ j + 1 \in 0..n /\ (j + 1) - 1 = j
      BY <1>0, <3>1
    <3>3. f[j] \in Seq(V) /\ seqs[j + 1] \in Seq(V) /\ f[j + 1] = f[j] \o seqs[j + 1]
      BY <1>0, <2>2, <3>2
    <3>10. PICK x, y : x = f[j] /\ y = seqs[j + 1]
      OBVIOUS
    <3>11. x \in Seq(V) /\ y \in Seq(V) /\ f[j + 1] = x \o y
      BY <3>3, <3>10
    <3>12. /\ Len(f[j + 1]) = Len(x) + Len(y)
           /\ \A q \in 1..Len(x) : f[j + 1][q] = x[q]
           /\ \A q \in 1..Len(y) : f[j + 1][Len(x) + q] = y[q]
      BY ONLY <3>11, ConcatPlaces
    <3>4. At(j)
      BY <2>4, <3>1
    <3>5. c[j + 1] = c[j] + Len(seqs[j + 1]) /\ c[j] \in Nat
      BY <1>3, <1>4, <3>2
    <3>6. Len(f[j + 1]) = c[j + 1] /\ Len(f[j]) = c[j]
      <4>1. Len(f[j] \o seqs[j + 1]) = Len(f[j]) + Len(seqs[j + 1])
        BY <3>3, <3>10, <3>11, <3>12
      <4>2. Len(f[j]) = c[j]
        BY <3>4
      <4> QED  BY <3>3, <3>5, <4>1, <4>2
    <3>7. ASSUME NEW k \in 1..(j + 1), NEW r \in 1..Len(seqs[k])
          PROVE  f[j + 1][c[k - 1] + r] = seqs[k][r]
      <4>1. CASE k = j + 1
        <5>1. c[k - 1] = Len(f[j]) /\ r \in 1..Len(seqs[j + 1])
          BY <3>2, <3>6, <4>1
        <5>2. seqs[k] = y /\ c[k - 1] = Len(x) /\ r \in 1..Len(y)
          BY <3>10, <4>1, <5>1
        <5>3. f[j + 1][Len(x) + r] = y[r]
          BY <3>12, <5>2
        <5>4. f[j + 1][c[k - 1] + r] = y[r]
          BY <5>2, <5>3
        <5> QED  BY ONLY <5>2, <5>4
      <4>2. CASE k # j + 1
        <5>1. k \in 1..j /\ k \in 1..n /\ k - 1 \in 0..n /\ k \in 0..j /\ k \in 0..n
          BY <3>2, <4>2
        <5>2. c[k] = c[k - 1] + Len(seqs[k]) /\ c[k] <= c[j] /\ c[k - 1] \in Nat /\ Len(seqs[k]) \in Nat
              /\ c[k] \in Nat
          BY <1>0, <1>3, <1>4, <3>2, <5>1
        <5>3. c[k - 1] + r \in 1..Len(f[j])
          <6>1. PICK p, l : p = c[k - 1] /\ l = Len(seqs[k])
            OBVIOUS
          <6>2. p \in Nat /\ l \in Nat /\ c[j] \in Nat /\ p + l <= c[j] /\ r \in 1..l
            BY <3>5, <5>2, <6>1
          <6>3. p + r \in 1..c[j]
            BY <6>2
          <6> QED  BY <3>6, <6>1, <6>3
        <5>4. f[j + 1][c[k - 1] + r] = f[j][c[k - 1] + r]
          BY <3>10, <3>12, <5>3
        <5> QED  BY <3>4, <5>1, <5>4
      <4> QED  BY <4>1, <4>2
    <3>8. At(j + 1)
      BY <3>6, <3>7
    <3> QED  BY <3>1, <3>2, <3>8
  <2> HIDE DEF S
  <2>5. n - 1 \in Nat /\ n - 1 \in 0..(n - 1) /\ (n - 1) + 1 = n
    BY <1>0, <1>6
  <2>6. 0..(n - 1) \subseteq S
    BY <2>3, <2>4, <2>5, BoundedInduction
  <2>7. At((n - 1) + 1)
    BY <2>5, <2>6 DEF S
  <2>8. At(n)
    BY <2>5, <2>7
  <2> QED  BY <2>1, <2>2, <2>8, <1>0, <1>6
<1> QED  BY <1>5, <1>6

\* Every key as often as its length says, key by key
InRuns(flat, keys, len, c, n, V) ==
    /\ flat \in Seq(V) /\ Len(flat) = c[n]
    /\ \A k \in 1..n : \A p \in 1..c[n] : c[k - 1] < p /\ p <= c[k] => flat[p] = keys[k]

\* Flattened runs of one value each are a column in runs.
LEMMA FlattenRuns ==
    ASSUME NEW V, NEW n \in Nat, NEW keys \in [1..n -> V], NEW len \in [1..n -> Nat],
           NEW c, Sums(c, len, n), NEW seqs, seqs = [k \in 1..n |-> [r \in 1..len[k] |-> keys[k]]]
    PROVE  InRuns(FlattenSeq(seqs), keys, len, c, n, V)
<1>1. \A k \in 1..n : seqs[k] \in Seq(V) /\ Len(seqs[k]) = len[k] /\ \A r \in 1..len[k] : seqs[k][r] = keys[k]
  <2>1. ASSUME NEW k \in 1..n
        PROVE  seqs[k] \in Seq(V) /\ Len(seqs[k]) = len[k] /\ \A r \in 1..len[k] : seqs[k][r] = keys[k]
    <3>1. PICK l, v : l = len[k] /\ v = keys[k]
      OBVIOUS
    <3>2. l \in Nat /\ v \in V
      BY <3>1
    <3>3. seqs[k] = [r \in 1..l |-> v]
      BY <3>1
    <3>4. [r \in 1..l |-> v] \in Seq(V) /\ Len([r \in 1..l |-> v]) = l
      BY <3>2
    <3> QED  BY <3>1, <3>3, <3>4
  <2> QED  BY <2>1
<1>2. seqs \in Seq(Seq(V)) /\ Len(seqs) = n
  BY <1>1
<1>3. Sums(c, [k \in 1..n |-> Len(seqs[k])], n)
  <2>1. [k \in 1..n |-> Len(seqs[k])] = len
    BY <1>1
  <2> QED  BY <2>1
<1>4. /\ FlattenSeq(seqs) \in Seq(V) /\ Len(FlattenSeq(seqs)) = c[n]
      /\ \A k \in 1..n : \A r \in 1..Len(seqs[k]) : FlattenSeq(seqs)[c[k - 1] + r] = seqs[k][r]
  <2>1. Parts(seqs, c, n, V)
    BY <1>2, <1>3 DEF Parts
  <2>2. Placed(FlattenSeq(seqs), seqs, c, n, V)
    BY ONLY <2>1, FlattenAt
  <2> QED  BY <2>2 DEF Placed
<1>5. ASSUME NEW k \in 1..n, NEW p \in 1..c[n], c[k - 1] < p, p <= c[k]
      PROVE  FlattenSeq(seqs)[p] = keys[k]
  <2>1. PICK b, l : b = c[k - 1] /\ l = len[k]
    OBVIOUS
  <2>2. k - 1 \in 0..n /\ k \in 0..n /\ n \in 0..n
    OBVIOUS
  <2>3. b \in Nat /\ l \in Nat /\ c[k] = b + l /\ c[n] \in Nat
    BY <2>1, <2>2 DEF Sums
  <2>4. PICK r : r = p - b
    OBVIOUS
  <2>5. r \in 1..l /\ b + r = p
    <3>1. p \in 1..c[n] /\ b < p /\ p <= b + l
      BY <1>5, <2>1, <2>3
    <3>2. p \in Int
      BY <2>3, <3>1
    <3> QED  BY <2>3, <2>4, <3>1, <3>2
  <2>6. FlattenSeq(seqs)[b + r] = seqs[k][r] /\ seqs[k][r] = keys[k]
    BY <1>1, <1>4, <2>1, <2>5, ZenonT(30)
  <2> QED  BY <2>5, <2>6
<1> QED  BY <1>4, <1>5 DEF InRuns

CountsAre(flat, keys, len, n) ==
    /\ \A k \in 1..n : Count(flat, keys[k]) = len[k]
    /\ \A v : (\A k \in 1..n : keys[k] # v) => Count(flat, v) = 0

\* In a column in runs of distinct values, a value is counted as often as its run is long.
LEMMA RunsCount ==
    ASSUME NEW V, NEW n \in Nat, NEW keys \in [1..n -> V], OneToOne(keys, 1..n, V),
           NEW len \in [1..n -> Nat], NEW c, Sums(c, len, n),
           NEW flat, InRuns(flat, keys, len, c, n, V)
    PROVE  CountsAre(flat, keys, len, n)
<1>0. \A k \in 0..n : c[k] \in Nat /\ \A j \in 0..k : c[j] <= c[k]
  BY SumsGrow
<1>1. DOMAIN flat = 1..c[n] /\ c[n] \in Nat
  <2>1. n \in 0..n
    OBVIOUS
  <2>2. flat \in Seq(V) /\ Len(flat) = c[n]
    BY DEF InRuns
  <2>3. DOMAIN flat = 1..Len(flat)
    BY <2>2
  <2> QED  BY <1>0, <2>1, <2>2, <2>3
<1>2. ASSUME NEW p \in 1..c[n] PROVE \E k \in 1..n : c[k - 1] < p /\ p <= c[k] /\ flat[p] = keys[k]
  <2>1. PICK k \in 1..n : c[k - 1] < p /\ p <= c[k]
    BY SumsCover
  <2> QED  BY <2>1 DEF InRuns
<1>3. ASSUME NEW k \in 1..n PROVE Count(flat, keys[k]) = len[k]
  <2>1. PICK b, l : b = c[k - 1] /\ l = len[k]
    OBVIOUS
  <2>2. k - 1 \in 0..n /\ k \in 0..n /\ n \in 0..n /\ k \in 0..n
    OBVIOUS
  <2>3. b \in Nat /\ l \in Nat /\ c[k] = b + l /\ c[k] <= c[n]
    <3>1. c[k] \in Nat /\ c[k - 1] \in Nat /\ c[k] <= c[n]
      BY <1>0, <2>2
    <3>2. c[k] = c[k - 1] + len[k]
      BY DEF Sums
    <3> QED  BY <2>1, <3>1, <3>2
  <2>4. \A p \in 1..c[n] : b + 1 <= p /\ p <= b + l => flat[p] = keys[k]
    BY <1>0, <2>1, <2>2, <2>3 DEF InRuns
  <2>5. ASSUME NEW p \in 1..c[n], flat[p] = keys[k] PROVE b + 1 <= p /\ p <= b + l
    <3>1. PICK j \in 1..n : c[j - 1] < p /\ p <= c[j] /\ flat[p] = keys[j]
      BY <1>2
    <3>2. j = k
      BY <2>5, <3>1 DEF OneToOne
    <3> QED  BY <2>1, <2>3, <3>1, <3>2
  <2>6. {p \in DOMAIN flat : flat[p] = keys[k]} = (b + 1)..(b + l)
    <3>1. \A p \in (b + 1)..(b + l) : p \in 1..c[n] /\ b + 1 <= p /\ p <= b + l
      BY <1>1, <2>3
    <3> QED  BY <1>1, <2>3, <2>4, <2>5, <3>1
  <2>7. Cardinality((b + 1)..(b + l)) = l
    <3>1. Cardinality((b + 1)..(b + l)) = IF b + 1 > b + l THEN 0 ELSE (b + l) - (b + 1) + 1
      BY <2>3, FS_Interval
    <3> QED  BY <2>3, <3>1
  <2> QED  BY <2>1, <2>6, <2>7 DEF Count
<1>4. ASSUME NEW v, \A k \in 1..n : keys[k] # v PROVE Count(flat, v) = 0
  <2>1. v \notin Cells(flat)
    BY <1>1, <1>2, <1>4 DEF Cells, ToSet
  <2> QED  BY <1>1, <2>1, CountType
<1> QED  BY <1>3, <1>4 DEF CountsAre

(* ------------------------- ordered columns are determined ---------------------- *)

\* Where two columns first differ and one of them has the lesser value, it has more of it.
LEMMA LesserHasMore ==
    ASSUME NEW n \in Nat, NEW m \in Nat, NEW s \in [1..n -> Nat], NEW t \in [1..m -> Nat],
           Ordered(t), NEW i \in 1..n, \A k \in 1..(i - 1) : k <= m /\ s[k] = t[k],
           i <= m => s[i] < t[i]
    PROVE  ~SameCounts(s, t)
<1> DEFINE P == {k \in 1..n : s[k] = s[i]}
           Q == {k \in 1..m : t[k] = s[i]}
<1>1. Q \in SUBSET P
  <2>1. ASSUME NEW k \in 1..m, t[k] = s[i] PROVE k \in 1..n /\ s[k] = s[i]
    <3>1. CASE k < i
      <4>1. k \in 1..(i - 1) /\ k \in 1..n
        BY <3>1
      <4> QED  BY <2>1, <4>1
    <3>2. CASE k >= i
      <4>1. i \in 1..m /\ (i = k \/ i < k)
        BY <3>2
      <4>2. t[i] <= t[k] /\ s[i] < t[i]
        BY <4>1 DEF Ordered
      <4>3. s[i] \in Nat /\ t[i] \in Nat /\ t[k] \in Nat
        BY <4>1
      <4> QED  BY <2>1, <4>2, <4>3
    <3> QED  BY <3>1, <3>2
  <2> QED  BY <2>1
<1>2. i \in P /\ i \notin Q /\ P \in SUBSET (1..n)
  <2>1. i \in 1..m => t[i] # s[i]
    <3>1. ASSUME i \in 1..m PROVE t[i] # s[i]
      <4>1. s[i] \in Nat /\ t[i] \in Nat /\ s[i] < t[i]
        BY <3>1
      <4> QED  BY <4>1
    <3> QED  BY <3>1
  <2> QED  BY <2>1
<1>3. Count(s, s[i]) = Cardinality(P) /\ Count(t, s[i]) = Cardinality(Q)
  BY DEF Count
<1> HIDE DEF P, Q
<1>4. IsFiniteSet(P)
  BY <1>2, PlacesAreFinite
<1>5. Q # P
  BY <1>2
<1>6. Cardinality(Q) < Cardinality(P) /\ Cardinality(P) \in Nat /\ Cardinality(Q) \in Nat
  BY <1>1, <1>4, <1>5, CountWithout
<1>7. Count(s, s[i]) # Count(t, s[i])
  BY <1>3, <1>6
<1> QED  BY <1>7 DEF SameCounts

\* Two sorted columns with the same counts are the same column.
LEMMA OrderedIsDetermined ==
    ASSUME NEW n \in Nat, NEW m \in Nat, NEW s \in [1..n -> Nat], NEW t \in [1..m -> Nat],
           Ordered(s), Ordered(t), SameCounts(s, t)
    PROVE  n = m /\ s = t
<1> DEFINE D == {i \in Nat : i >= 1 /\ (i <= n \/ i <= m) /\ ~(i <= n /\ i <= m /\ s[i] = t[i])}
<1>1. D = {}
  <2>1. SUFFICES ASSUME D # {} PROVE FALSE
    OBVIOUS
  <2>2. PICK i \in D : \A k \in D : i <= k
    <3>1. D \in SUBSET Nat
      OBVIOUS
    <3> HIDE DEF D
    <3> QED  BY <2>1, <3>1, LeastNatural
  <2>3. i \in Nat /\ i >= 1 /\ (i <= n \/ i <= m) /\ ~(i <= n /\ i <= m /\ s[i] = t[i])
    BY <2>2
  <2>4. \A k \in 1..(i - 1) : k <= n /\ k <= m /\ s[k] = t[k]
    <3>1. ASSUME NEW k \in 1..(i - 1) PROVE k <= n /\ k <= m /\ s[k] = t[k]
      <4>1. k \in Nat /\ k >= 1 /\ (k <= n \/ k <= m) /\ ~(i <= k)
        BY <2>3
      <4>2. k \notin D
        BY <2>2, <4>1
      <4> QED  BY <4>1, <4>2
    <3> QED  BY <3>1
  <2> HIDE DEF D
  <2>5. SameCounts(t, s)
    BY DEF SameCounts
  <2>6. ~(i \in 1..n /\ (i <= m => s[i] < t[i]))
    <3>1. \A k \in 1..(i - 1) : k <= m /\ s[k] = t[k]
      BY <2>4
    <3> QED  BY <3>1, LesserHasMore
  <2>7. ~(i \in 1..m /\ (i <= n => t[i] < s[i]))
    <3>1. \A k \in 1..(i - 1) : k <= n /\ t[k] = s[k]
      BY <2>4
    <3> QED  BY <2>5, <3>1, LesserHasMore
  <2>8. CASE i <= n /\ i <= m
    <3>1. s[i] \in Nat /\ t[i] \in Nat /\ s[i] # t[i] /\ i \in 1..n /\ i \in 1..m
      BY <2>3, <2>8
    <3>2. s[i] < t[i] \/ t[i] < s[i]
      BY <3>1
    <3> QED  BY <2>6, <2>7, <3>1, <3>2
  <2>9. CASE i <= n /\ ~(i <= m)
    BY <2>3, <2>6, <2>9
  <2>10. CASE i <= m /\ ~(i <= n)
    BY <2>3, <2>7, <2>10
  <2> QED  BY <2>3, <2>8, <2>9, <2>10
<1>2. \A i \in Nat : i >= 1 /\ (i <= n \/ i <= m) => i <= n /\ i <= m /\ s[i] = t[i]
  BY <1>1
<1>3. n = m
  <2>1. n >= 1 => n <= m
    BY <1>2
  <2>2. m >= 1 => m <= n
    BY <1>2
  <2> QED  BY <2>1, <2>2
<1>4. \A i \in 1..n : s[i] = t[i]
  BY <1>2
<1> QED  BY <1>3, <1>4

\* Runs of ascending keys are ordered.
LEMMA RunsOrdered ==
    ASSUME NEW V, NEW n \in Nat, NEW keys \in [1..n -> V], \A k \in 1..n : keys[k] \in Nat,
           \A j, k \in 1..n : j < k => keys[j] < keys[k],
           NEW len \in [1..n -> Nat], NEW c, Sums(c, len, n),
           NEW flat, InRuns(flat, keys, len, c, n, V)
    PROVE  Ordered(flat)
<1>0. \A k \in 0..n : c[k] \in Nat /\ \A j \in 0..k : c[j] <= c[k]
  BY SumsGrow
<1>1. DOMAIN flat = 1..c[n] /\ c[n] \in Nat
  <2>1. n \in 0..n
    OBVIOUS
  <2>2. flat \in Seq(V) /\ Len(flat) = c[n]
    BY DEF InRuns
  <2>3. DOMAIN flat = 1..Len(flat)
    BY <2>2
  <2> QED  BY <1>0, <2>1, <2>2, <2>3
<1>2. ASSUME NEW p \in 1..c[n] PROVE \E k \in 1..n : c[k - 1] < p /\ p <= c[k] /\ flat[p] = keys[k]
  <2>1. PICK k \in 1..n : c[k - 1] < p /\ p <= c[k]
    BY SumsCover
  <2> QED  BY <2>1 DEF InRuns
<1>3. ASSUME NEW p \in 1..c[n], NEW q \in 1..c[n], p < q PROVE flat[p] <= flat[q]
  <2>1. PICK j \in 1..n : c[j - 1] < p /\ p <= c[j] /\ flat[p] = keys[j]
    BY <1>2
  <2>2. PICK k \in 1..n : c[k - 1] < q /\ q <= c[k] /\ flat[q] = keys[k]
    BY <1>2
  <2>3. ~(k < j)
    <3>1. SUFFICES ASSUME k < j PROVE FALSE
      OBVIOUS
    <3>2. k \in 0..(j - 1) /\ j - 1 \in 0..n /\ k \in 0..n
      BY <3>1
    <3>3. c[k] <= c[j - 1] /\ c[k] \in Nat /\ c[j - 1] \in Nat
      BY <1>0, <3>2
    <3>4. p \in Nat /\ q \in Nat
      BY <1>1
    <3> QED  BY <1>3, <2>1, <2>2, <3>3, <3>4
  <2>4. j = k \/ j < k
    BY <2>3
  <2>5. keys[j] \in Nat /\ keys[k] \in Nat /\ (j < k => keys[j] < keys[k])
    OBVIOUS
  <2> QED  BY <2>1, <2>2, <2>4, <2>5
<1> QED  BY <1>1, <1>3 DEF Ordered

\* The host's map of counts leaves what the kernels' flags leave.
LEMMA LeftoversAgree ==
    ASSUME Given
    PROVE  LeftoverMap = Leftover
<1>0. /\ Usable \in Nat /\ table \in [1..Usable -> Values] /\ DOMAIN table = 1..Usable
      /\ Values \subseteq Nat /\ \A v \in Values : v \in Nat
  BY SizesAreNatural, ValuesAreNatural DEF Given, Columns
<1> DEFINE left(v) == Count(table, v) - (IF v \in Cells(input) THEN 1 ELSE 0)
<1>1. PICK keys : keys = Ascending(Cells(table))
  OBVIOUS
<1>2. PICK n : n = Cardinality(Cells(table))
  OBVIOUS
<1>3. /\ Cells(table) \subseteq Values /\ (\A v \in Cells(table) : v \in Nat /\ v \in Values)
      /\ IsFiniteSet(Cells(table))
  <2>1. Cells(table) \subseteq Values
    BY <1>0 DEF Cells, ToSet
  <2>2. IsFiniteSet(Cells(table))
    <3>1. DOMAIN Sort(table) = 1..Usable /\ Grouped(Sort(table)) /\ Cells(Sort(table)) = Cells(table)
      BY SortedColumn DEF Given
    <3>2. IsFiniteSet(Cells(Sort(table)))
      BY <1>0, <3>1, RepeatsOf
    <3> QED  BY <3>1, <3>2
  <2> QED  BY <1>0, <2>1, <2>2
<1>4. n \in Nat /\ Lists(keys, Cells(table))
  BY <1>1, <1>2, <1>3, AscendingLists
<1>5. /\ keys \in [1..n -> Values] /\ DOMAIN keys = 1..n /\ OneToOne(keys, 1..n, Values)
      /\ (\A k \in 1..n : keys[k] \in Nat /\ keys[k] \in Cells(table))
      /\ (\A v \in Cells(table) : \E k \in 1..n : keys[k] = v)
      /\ \A j, k \in 1..n : j < k => keys[j] < keys[k]
  BY <1>2, <1>3, <1>4 DEF Lists, OneToOne
<1>6. PICK len : len = [k \in 1..n |-> left(keys[k])]
  OBVIOUS
<1>7. len \in [1..n -> Nat] /\ \A k \in 1..n : len[k] = Count(table, keys[k]) - One0(keys[k], Taken)
  <2>1. ASSUME NEW k \in 1..n
        PROVE  len[k] \in Nat /\ len[k] = Count(table, keys[k]) - One0(keys[k], Taken)
    <3>1. keys[k] \in Cells(table)
      BY <1>5
    <3>2. Count(table, keys[k]) \in 0..Usable /\ Count(table, keys[k]) # 0
      BY <1>0, <3>1, CountType
    <3>3. len[k] = Count(table, keys[k]) - One0(keys[k], Taken)
      BY <1>6, <3>1 DEF One0, Taken
    <3>4. One0(keys[k], Taken) \in {0, 1}
      BY DEF One0
    <3> QED  BY <1>0, <3>2, <3>3, <3>4
  <2> QED  BY <1>6, <2>1
<1>8. PICK seqs : seqs = [k \in 1..n |-> [r \in 1..len[k] |-> keys[k]]]
  OBVIOUS
<1>9. LeftoverMap = FlattenSeq(seqs)
  <2>1. LeftoverMap = FlattenSeq([k \in DOMAIN keys |-> [r \in 1..left(keys[k]) |-> keys[k]]])
    BY <1>1 DEF LeftoverMap
  <2>2. [k \in DOMAIN keys |-> [r \in 1..left(keys[k]) |-> keys[k]]] = seqs
    BY <1>5, <1>6, <1>8
  <2> QED  BY <2>1, <2>2
<1> HIDE DEF left
<1>10. PICK c : Sums(c, len, n)
  BY <1>4, <1>7, SumsExist
<1>11. InRuns(LeftoverMap, keys, len, c, n, Values)
  BY <1>4, <1>5, <1>7, <1>8, <1>9, <1>10, FlattenRuns
<1>12. Ordered(LeftoverMap)
  BY <1>4, <1>5, <1>7, <1>10, <1>11, RunsOrdered
<1>13. /\ \A k \in 1..n : Count(LeftoverMap, keys[k]) = len[k]
       /\ \A v : (\A k \in 1..n : keys[k] # v) => Count(LeftoverMap, v) = 0
  <2>1. CountsAre(LeftoverMap, keys, len, n)
    BY <1>4, <1>5, <1>7, <1>10, <1>11, RunsCount
  <2> QED  BY <2>1 DEF CountsAre
<1>14. IsLeftover(Leftover)
  BY LeftoverIsLeft
<1>15. ASSUME NEW v PROVE Count(LeftoverMap, v) = Count(Leftover, v)
  <2>1. Count(Leftover, v) = Count(table, v) - One0(v, Taken)
    BY <1>14 DEF IsLeftover
  <2>2. CASE v \in Cells(table)
    <3>1. PICK k \in 1..n : keys[k] = v
      BY <1>5, <2>2
    <3> QED  BY <1>7, <1>13, <2>1, <3>1
  <2>3. CASE v \notin Cells(table)
    <3>1. Count(table, v) = 0 /\ One0(v, Taken) = 0
      BY <1>0, <2>3, CountType DEF One0, Taken
    <3>2. Count(LeftoverMap, v) = 0
      BY <1>5, <1>13, <2>3
    <3> QED  BY <2>1, <3>1, <3>2
  <2> QED  BY <2>2, <2>3
<1>16. SameCounts(LeftoverMap, Leftover)
  BY <1>15 DEF SameCounts
<1>17. PICK p, q : p = c[n] /\ q = Usable - Cardinality(Taken)
  OBVIOUS
<1>18. p \in Nat /\ LeftoverMap \in [1..p -> Nat]
  <2>1. LeftoverMap \in Seq(Values) /\ Len(LeftoverMap) = p
    BY <1>11, <1>17 DEF InRuns
  <2>2. p \in Nat /\ LeftoverMap \in [1..p -> Values]
    BY <2>1
  <2>3. \A i \in 1..p : LeftoverMap[i] \in Nat
    BY <1>0, <2>2
  <2> QED  BY <2>2, <2>3
<1>19. q \in Nat /\ Leftover \in [1..q -> Nat] /\ Ordered(Leftover)
  <2>1. Cardinality(Taken) \in 0..Usable /\ Leftover \in [1..q -> Values] /\ Ordered(Leftover)
    BY <1>14, <1>17 DEF IsLeftover
  <2>2. \A i \in 1..q : Leftover[i] \in Nat
    BY <1>0, <2>1
  <2> QED  BY <1>0, <1>17, <2>1, <2>2
<1> QED  BY <1>12, <1>16, <1>18, <1>19, OrderedIsDetermined

(* ------------------------------- the permuted pair ----------------------------- *)

\* What PairIsPermuted says of a pair
Right(p) ==
    /\ PermutationOf(p.a, input)
    /\ PermutationOf(p.s, table)
    /\ \A i \in Rows : First(p.a, i) =>
          /\ p.a[i] = p.s[i]
          /\ \A j \in 1..(i - 1) : p.a[j] # p.a[i]

GoodPair(p) ==
    /\ p = [a |-> p.a, s |-> p.s] /\ p.a \in Columns /\ p.s \in Columns
    /\ InTable => Right(p)

\* The rows of one column that repeat a value are as many as the leftover values, if
\* every value is in the table, and never more.
LEMMA RepeatsAreFilled ==
    ASSUME Given, NEW a, a \in Columns, Grouped(a), SameCounts(a, input)
    PROVE  /\ Cells(a) = Cells(input)
           /\ Cardinality(Taken) \in 0..Usable /\ Cardinality(Repeats(a)) \in 0..Usable
           /\ Cardinality(Repeats(a)) <= Usable - Cardinality(Taken)
           /\ InTable => /\ Taken = Cells(input)
                         /\ Cardinality(Repeats(a)) = Usable - Cardinality(Taken)
<1>1. Usable \in Nat /\ DOMAIN a = 1..Usable /\ DOMAIN input = 1..Usable
  BY SizesAreNatural DEF Given, Columns
<1>2. Cells(a) = Cells(input)
  BY <1>1, SameCells
<1>3. /\ IsFiniteSet(Cells(a))
      /\ Cardinality(Cells(a)) \in 0..Usable /\ Cardinality(Repeats(a)) \in 0..Usable
      /\ Cardinality(Cells(a)) + Cardinality(Repeats(a)) = Usable
  BY <1>1, RepeatsOf
<1>4. Taken \in SUBSET Cells(a)
  BY <1>2 DEF Taken
<1>5. Cardinality(Taken) <= Cardinality(Cells(a))
  BY <1>3, <1>4, FS_Subset
<1>6. Cardinality(Taken) \in 0..Usable
  BY LeftoverIsLeft DEF IsLeftover
<1>7. InTable => Taken = Cells(input)
  BY DEF InTable, Taken
<1>8. Cardinality(Repeats(a)) <= Usable - Cardinality(Taken)
  BY <1>1, <1>3, <1>5, <1>6
<1>9. InTable => Cardinality(Repeats(a)) = Usable - Cardinality(Taken)
  BY <1>1, <1>2, <1>3, <1>6, <1>7
<1> QED  BY <1>2, <1>3, <1>6, <1>7, <1>8, <1>9

\* A grouped input and a table filled from a leftover are a right pair.
LEMMA FilledPair ==
    ASSUME Given, NEW a, a \in Columns, Grouped(a), SameCounts(a, input),
           NEW L, IsLeftover(L), NEW idx, OneToOne(idx, Repeats(a), 1..(Usable - Cardinality(Taken))),
           NEW s, s = [i \in Rows |-> s[i]], Filled(s, a, L, idx)
    PROVE  GoodPair([a |-> a, s |-> s])
<1>1. Usable \in Nat /\ Rows = 1..Usable /\ DOMAIN a = 1..Usable /\ \A i \in 1..Usable : a[i] \in Values
  BY SizesAreNatural DEF Columns
<1>2. PICK m : m = Usable - Cardinality(Taken)
  OBVIOUS
<1>3. /\ Cells(a) = Cells(input) /\ m \in Nat
      /\ InTable => Taken = Cells(input) /\ Cardinality(Repeats(a)) = m
  BY <1>1, <1>2, RepeatsAreFilled
<1>4. /\ L \in [1..m -> Values] /\ DOMAIN L = 1..m
      /\ \A v : Count(L, v) = Count(table, v) - One0(v, Taken)
  BY <1>2 DEF IsLeftover
<1>5. OneToOne(idx, Repeats(a), 1..m)
  BY <1>2
<1>6. s \in Columns
  <2>1. ASSUME NEW i \in 1..Usable PROVE s[i] \in Values
    <3>1. CASE First(a, i)
      BY <1>1, <3>1 DEF Filled
    <3>2. CASE ~First(a, i)
      <4>1. i \in Repeats(a) /\ s[i] = L[idx[i]]
        BY <1>1, <3>2 DEF Repeats, Filled
      <4>2. idx[i] \in 1..m
        BY <1>5, <4>1 DEF OneToOne
      <4> QED  BY <1>4, <4>1, <4>2
    <3> QED  BY <3>1, <3>2
  <2> QED  BY <1>1, <2>1 DEF Columns
<1>7. ASSUME InTable PROVE Right([a |-> a, s |-> s])
  <2>1. PermutationOf(a, input)
    BY DEF PermutationOf, SameCounts
  <2>2. PermutationOf(s, table)
    <3>1. ASSUME NEW v PROVE Count(s, v) = Count(table, v)
      <4>1. Count(s, v) = (IF v \in Cells(a) THEN 1 ELSE 0) + Count(L, v)
        BY <1>1, <1>3, <1>4, <1>5, <1>7, FilledCounts
      <4>2. (IF v \in Cells(a) THEN 1 ELSE 0) = One0(v, Taken)
        BY <1>3, <1>7 DEF One0
      <4>3. Count(L, v) = Count(table, v) - One0(v, Taken) /\ One0(v, Taken) \in Nat
        BY <1>4 DEF One0
      <4>4. Count(table, v) \in Nat
        <5>1. DOMAIN table = 1..Usable
          BY DEF Given, Columns
        <5>2. Count(table, v) \in 0..Usable
          BY <1>1, <5>1, CountType
        <5> QED  BY <1>1, <5>2
      <4> QED  BY <4>1, <4>2, <4>3, <4>4
    <3> QED  BY <3>1 DEF PermutationOf
  <2>3. ASSUME NEW i \in Rows, First(a, i)
        PROVE  a[i] = s[i] /\ \A j \in 1..(i - 1) : a[j] # a[i]
    <3>1. a[i] = s[i] /\ i \in 1..Usable
      BY <1>1, <2>3 DEF Filled
    <3>2. a[i] \in Cells(a)
      BY <1>1, <3>1 DEF Cells, ToSet
    <3>3. PICK k \in 1..Usable : First(a, k) /\ a[k] = a[i] /\ \A j \in 1..Usable : a[j] = a[i] => k <= j
      BY <1>1, <3>2, FirstOfEach
    <3>4. k = i
      BY <1>1, <2>3, <3>1, <3>3 DEF Grouped
    <3>5. \A j \in 1..(i - 1) : j \in 1..Usable /\ ~(i <= j)
      BY <1>1, <3>1
    <3> QED  BY <3>1, <3>3, <3>4, <3>5
  <2> QED  BY <2>1, <2>2, <2>3 DEF Right
<1> QED  BY <1>6, <1>7 DEF GoodPair

\* The pair that is sorted and filled with the leftover values
LEMMA SortedPairIsGood ==
    ASSUME Given
    PROVE  /\ SequentialPair = [a |-> Sort(input), s |-> Fill(Sort(input), Leftover)]
           /\ GoodPair(SequentialPair)
<1>1. SequentialPair = [a |-> Sort(input), s |-> Fill(Sort(input), Leftover)]
  BY LeftoversAgree DEF SequentialPair
<1>2. PICK a : a = Sort(input)
  OBVIOUS
<1>3. a \in Columns /\ DOMAIN a = 1..Usable /\ Grouped(a) /\ SameCounts(a, input)
  BY <1>2, SortedColumn DEF Given
<1>4. PICK m : m = Usable - Cardinality(Taken)
  OBVIOUS
<1>5. m \in Nat /\ Cardinality(Repeats(a)) <= m
  BY <1>3, <1>4, SizesAreNatural, RepeatsAreFilled
<1>6. IsLeftover(Leftover)
  BY LeftoverIsLeft
<1>7. DOMAIN Leftover = 1..m
  BY <1>4, <1>6 DEF IsLeftover
<1>8. PICK idx : OneToOne(idx, Repeats(a), 1..m) /\ Filled(Fill(a, Leftover), a, Leftover, idx)
  BY <1>3, <1>5, <1>7, FillFills
<1>9. PICK s : s = Fill(a, Leftover)
  OBVIOUS
<1>10. s = [i \in Rows |-> s[i]]
  <2> DEFINE F(i) == IF First(a, i) THEN a[i]
                     ELSE Leftover[Cardinality({j \in i..Usable : ~First(a, j)})]
  <2>1. s = [i \in Rows |-> F(i)]
    BY <1>9 DEF Fill
  <2> HIDE DEF F
  <2> QED  BY <2>1
<1>11. GoodPair([a |-> a, s |-> s])
  BY <1>3, <1>4, <1>6, <1>8, <1>9, <1>10, FilledPair
<1> QED  BY <1>1, <1>2, <1>9, <1>11

(* ------------------------------ the parallel build ----------------------------- *)

\* Each value's range of rows, from where the ranges before it end
LaidOut(values, c, m) == [k \in 1..m |-> ValueRange(values[k], c[k - 1], c[k])]

RangeSet == [value : Values, start : Nat, end : Nat]

\* c has the ends of the ranges that values, all of them cells, get.
EndsOf(c, values, m) ==
    /\ values \in [1..m -> Values]
    /\ Sums(c, [k \in 1..m |-> Count(input, values[k])], m)

IsLaidOut(R, values, c, k) ==
    /\ R \in Seq(RangeSet) /\ Len(R) = k /\ DOMAIN R = 1..k /\ End(R) = c[k]
    /\ \A j \in 1..k : R[j] = ValueRange(values[j], c[j - 1], c[j])

\* Laid out ranges are ranges.
LEMMA LaidOutType ==
    ASSUME NEW m \in Nat, NEW values, NEW c, EndsOf(c, values, m), NEW k \in 0..m
    PROVE  IsLaidOut(LaidOut(values, c, k), values, c, k)
<1> DEFINE R == LaidOut(values, c, k)
<1>1. c \in [0..m -> Nat] /\ c[0] = 0 /\ \A j \in 1..m : values[j] \in Values
  BY DEF EndsOf, Sums
<1>2. R = [j \in 1..k |-> ValueRange(values[j], c[j - 1], c[j])] /\ k \in Nat
  BY DEF LaidOut
<1>3. ASSUME NEW j \in 1..k PROVE R[j] = ValueRange(values[j], c[j - 1], c[j]) /\ R[j] \in RangeSet
  <2>1. j - 1 \in 0..m /\ j \in 0..m /\ j \in 1..m
    OBVIOUS
  <2>2. c[j - 1] \in Nat /\ c[j] \in Nat /\ values[j] \in Values
    BY <1>1, <2>1
  <2>3. R[j] = ValueRange(values[j], c[j - 1], c[j])
    BY <1>2
  <2> QED  BY <2>2, <2>3 DEF ValueRange, RangeSet
<1> HIDE DEF R
<1>4. R \in Seq(RangeSet) /\ Len(R) = k /\ DOMAIN R = 1..k
  <2>1. DOMAIN R = 1..k
    BY <1>2
  <2>2. R \in [1..k -> RangeSet]
    BY <1>2, <1>3, <2>1
  <2> QED  BY <1>2, <2>1, <2>2
<1>5. End(R) = c[k]
  <2>1. CASE k = 0
    <3>1. R = <<>>
      BY <1>4, <2>1
    <3> QED  BY <1>1, <2>1, <3>1 DEF End
  <2>2. CASE k # 0
    <3>1. R # <<>> /\ k \in 1..k
      BY <1>2, <1>4, <2>2
    <3>2. Last(R) = R[k]
      BY <1>4 DEF Last
    <3>3. R[k] = ValueRange(values[k], c[k - 1], c[k])
      BY <1>3, <3>1
    <3>4. R[k].end = c[k]
      BY <3>3 DEF ValueRange
    <3> QED  BY <3>1, <3>2, <3>4 DEF End
  <2> QED  BY <2>1, <2>2
<1> QED  BY <1>3, <1>4, <1>5 DEF R, IsLaidOut

\* A thread's share is laid out from row 0: an induction along the share.
LEMMA ShareLaysOut ==
    ASSUME NEW m \in Nat, NEW values, values \in Seq(Values), Len(values) = m,
           NEW c, EndsOf(c, values, m)
    PROVE  Share(values) = LaidOut(values, c, m)
<1> DEFINE Step(f) == [k \in 0..Len(values) |->
                          IF k = 0 THEN <<>>
                          ELSE Append(f[k - 1],
                                      ValueRange(values[k], End(f[k - 1]),
                                                 End(f[k - 1]) + Count(input, values[k])))]
           ranges == CHOOSE f : f = Step(f)
           goal == [k \in 0..m |-> LaidOut(values, c, k)]
<1>1. ASSUME NEW k \in 1..m
      PROVE  LaidOut(values, c, k) =
                 Append(LaidOut(values, c, k - 1),
                        ValueRange(values[k], End(LaidOut(values, c, k - 1)),
                                   End(LaidOut(values, c, k - 1)) + Count(input, values[k])))
  <2>1. k - 1 \in 0..m /\ k \in 0..m /\ k \in Nat
    OBVIOUS
  <2>2. PICK Q, R : Q = LaidOut(values, c, k - 1) /\ R = LaidOut(values, c, k)
    OBVIOUS
  <2>10. IsLaidOut(Q, values, c, k - 1) /\ IsLaidOut(R, values, c, k)
    BY <2>1, <2>2, LaidOutType
  <2>3. /\ Q \in Seq(RangeSet) /\ Len(Q) = k - 1 /\ End(Q) = c[k - 1]
        /\ \A j \in 1..(k - 1) : Q[j] = ValueRange(values[j], c[j - 1], c[j])
    BY <2>10 DEF IsLaidOut
  <2>4. /\ R \in Seq(RangeSet) /\ Len(R) = k
        /\ \A j \in 1..k : R[j] = ValueRange(values[j], c[j - 1], c[j])
    BY <2>10 DEF IsLaidOut
  <2>5. c[k] = c[k - 1] + Count(input, values[k])
    BY DEF EndsOf, Sums
  <2>6. PICK x : x = ValueRange(values[k], c[k - 1], c[k])
    OBVIOUS
  <2>7. R[k] = x /\ \A j \in 1..(k - 1) : R[j] = Q[j]
    <3>1. k \in 1..k /\ \A j \in 1..(k - 1) : j \in 1..k
      OBVIOUS
    <3>2. R[k] = x
      BY <2>4, <2>6, <3>1
    <3>3. \A j \in 1..(k - 1) : R[j] = Q[j]
      BY <2>3, <2>4, <3>1
    <3> QED  BY <3>2, <3>3
  <2>8. x \in RangeSet
    BY <2>1, <2>4, <2>7
  <2>9. R = Append(Q, x)
    <3>1. /\ Append(Q, x) \in Seq(RangeSet) /\ Len(Append(Q, x)) = k
          /\ Append(Q, x)[k] = x /\ \A j \in 1..(k - 1) : Append(Q, x)[j] = Q[j]
      BY <2>1, <2>3, <2>8
    <3>2. \A j \in 1..k : R[j] = Append(Q, x)[j]
      BY <2>1, <2>7, <3>1
    <3> QED  BY <2>1, <2>4, <3>1, <3>2
  <2> QED  BY <2>2, <2>3, <2>5, <2>6, <2>9
<1>2. goal = Step(goal)
  <2>1. \A k \in 0..m : k # 0 => k \in 1..m /\ k - 1 \in 0..m
    OBVIOUS
  <2>2. \A k \in 0..m : goal[k] = LaidOut(values, c, k)
    OBVIOUS
  <2>3. LaidOut(values, c, 0) = <<>>
    <3>1. 0 \in 0..m
      OBVIOUS
    <3>2. IsLaidOut(LaidOut(values, c, 0), values, c, 0)
      BY <3>1, LaidOutType
    <3> QED  BY <3>2 DEF IsLaidOut
  <2> HIDE DEF goal
  <2>4. \A k \in 0..m : goal[k] =
            IF k = 0 THEN <<>>
            ELSE Append(goal[k - 1],
                        ValueRange(values[k], End(goal[k - 1]),
                                   End(goal[k - 1]) + Count(input, values[k])))
    BY <1>1, <2>1, <2>2, <2>3
  <2>5. goal = [k \in 0..m |-> goal[k]]
    BY <2>2 DEF goal
  <2> QED  BY <2>4, <2>5
<1>3. ranges = Step(ranges)
  BY <1>2
<1>4. Share(values) = ranges[m]
  BY DEF Share, ranges
<1> HIDE DEF ranges
<1>5. 0..m \subseteq {k \in 0..m : ranges[k] = goal[k]}
  <2> DEFINE S == {k \in 0..m : ranges[k] = goal[k]}
  <2>1. 0 \in S
    <3>1. 0 \in 0..m
      OBVIOUS
    <3>2. ranges[0] = <<>>
      BY <1>3, <3>1
    <3>3. goal[0] = <<>>
      BY <1>2, <3>1
    <3> QED  BY <3>1, <3>2, <3>3
  <2>2. ASSUME NEW k \in 0..(m - 1), k \in S PROVE k + 1 \in S
    <3>1. k + 1 \in 0..m /\ k + 1 # 0 /\ (k + 1) - 1 = k /\ k \in 0..m
      OBVIOUS
    <3>2. ranges[k + 1] = Append(ranges[k],
                        ValueRange(values[k + 1], End(ranges[k]),
                                   End(ranges[k]) + Count(input, values[k + 1])))
      BY <1>3, <3>1
    <3>3. goal[k + 1] = Append(goal[k],
                        ValueRange(values[k + 1], End(goal[k]),
                                   End(goal[k]) + Count(input, values[k + 1])))
      BY <1>2, <3>1
    <3> QED  BY <2>2, <3>1, <3>2, <3>3
  <2> HIDE DEF S
  <2>3. 0..m \subseteq S
    BY <2>1, <2>2, BoundedInduction
  <2> QED  BY <2>3 DEF S
<1>6. ranges[m] = goal[m] /\ goal[m] = LaidOut(values, c, m)
  <2>1. m \in 0..m
    OBVIOUS
  <2> QED  BY <1>5, <2>1
<1> QED  BY <1>4, <1>6

\* A value is counted in the input exactly when it occurs there.
LEMMA InputCounts ==
    ASSUME Given
    PROVE  \A v : Count(input, v) \in Nat /\ (Count(input, v) # 0 <=> v \in Cells(input))
<1>1. Usable \in Nat /\ DOMAIN input = 1..Usable
  BY SizesAreNatural DEF Given, Columns
<1>2. ASSUME NEW v PROVE Count(input, v) \in Nat /\ (Count(input, v) # 0 <=> v \in Cells(input))
  <2>1. Count(input, v) \in 0..Usable /\ (Count(input, v) # 0 <=> v \in Cells(input))
    BY <1>1, CountType
  <2> QED  BY <1>1, <2>1
<1> QED  BY <1>2

\* A share joined to those before it goes on where they end.
LEMMA JoinLaysOut ==
    ASSUME NEW n \in Nat, NEW order, order \in Seq(Values), Len(order) = n,
           NEW c, EndsOf(c, order, n), NEW e \in 0..n, NEW f \in e..n, Given
    PROVE  Join(LaidOut(order, c, e), Share(SubSeq(order, e + 1, f))) = LaidOut(order, c, f)
<1>1. PICK m, sub : m = f - e /\ sub = SubSeq(order, e + 1, f)
  OBVIOUS
<1>2. m \in Nat /\ e \in Nat /\ f \in Nat /\ e + m = f /\ f \in 0..n /\ f <= n
  BY <1>1
<1>3. \A i \in 1..n : order[i] \in Values
  OBVIOUS
<1>4. sub \in Seq(Values) /\ Len(sub) = m /\ \A j \in 1..m : sub[j] = order[e + j]
  <2>1. \A j \in (e + 1)..f : j \in 1..n
    BY <1>2
  <2>2. \A j \in (e + 1)..f : order[j] \in Values
    BY <1>3, <2>1
  <2>3. sub = [j \in 1..m |-> order[e + j]]
    <3>1. sub = [j \in 1..(f - (e + 1) + 1) |-> order[(e + 1) + j - 1]]
      BY <1>1, <1>2
    <3>2. f - (e + 1) + 1 = m /\ \A j \in 1..m : (e + 1) + j - 1 = e + j
      BY <1>1, <1>2
    <3> QED  BY <3>1, <3>2
  <2>4. \A j \in 1..m : e + j \in (e + 1)..f
    BY <1>2
  <2> QED  BY <1>2, <2>2, <2>3, <2>4
<1>5. PICK d : d = [j \in 0..m |-> c[e + j] - c[e]]
  OBVIOUS
<1>6. PICK len : len = [k \in 1..n |-> Count(input, order[k])]
  OBVIOUS
<1>7. order \in [1..n -> Values] /\ Sums(c, len, n)
  BY <1>6 DEF EndsOf
<1>8. len \in [1..n -> Nat]
  <2>1. ASSUME NEW k \in 1..n PROVE len[k] \in Nat
    <3>1. c[k] = c[k - 1] + len[k] /\ len[k] = Count(input, order[k])
      BY <1>6, <1>7 DEF Sums
    <3>2. Count(input, order[k]) \in Nat
      BY InputCounts
    <3> QED  BY <3>1, <3>2
  <2> QED  BY <1>6, <2>1
<1>9. \A k \in 0..n : c[k] \in Nat /\ \A j \in 0..k : c[j] <= c[k]
  BY <1>7, <1>8, SumsGrow
<1>10. EndsOf(d, sub, m)
  <2>1. sub \in [1..m -> Values]
    BY <1>4
  <2>2. ASSUME NEW j \in 0..m PROVE d[j] \in Nat
    <3>1. e + j \in 0..n /\ e \in 0..(e + j)
      BY <1>2
    <3>2. c[e + j] \in Nat /\ c[e] \in Nat /\ c[e] <= c[e + j]
      BY <1>9, <3>1
    <3> QED  BY <1>5, <3>2
  <2>3. d[0] = 0
    <3>1. 0 \in 0..m /\ e + 0 = e /\ c[e] \in Nat
      BY <1>2, <1>9
    <3> QED  BY <1>5, <3>1
  <2>4. ASSUME NEW j \in 1..m PROVE d[j] = d[j - 1] + Count(input, sub[j])
    <3>1. PICK i : i = e + j
      OBVIOUS
    <3>2. i \in 1..n /\ i \in 0..n /\ i - 1 = e + (j - 1) /\ i - 1 \in 0..n /\ j \in 0..m /\ j - 1 \in 0..m
      BY <1>2, <3>1
    <3>3. c[i] = c[i - 1] + len[i] /\ len[i] = Count(input, sub[j])
      BY <1>4, <1>6, <1>7, <3>1, <3>2 DEF Sums
    <3>4. c[i] \in Nat /\ c[i - 1] \in Nat /\ c[e] \in Nat /\ len[i] \in Nat
      BY <1>8, <1>9, <3>2
    <3>5. d[j] = c[i] - c[e] /\ d[j - 1] = c[i - 1] - c[e]
      BY <1>5, <3>1, <3>2
    <3> QED  BY <3>3, <3>4, <3>5
  <2>5. d \in [0..m -> Nat]
    BY <1>5, <2>2
  <2> QED  BY <2>1, <2>3, <2>4, <2>5 DEF EndsOf, Sums
<1>11. PICK R : R = Share(sub)
  OBVIOUS
<1>12. R = LaidOut(sub, d, m)
  BY <1>2, <1>4, <1>10, <1>11, ShareLaysOut
<1>13. PICK left, whole : left = LaidOut(order, c, e) /\ whole = LaidOut(order, c, f)
  OBVIOUS
<1>14. /\ left \in Seq(RangeSet) /\ Len(left) = e /\ End(left) = c[e]
       /\ \A j \in 1..e : left[j] = ValueRange(order[j], c[j - 1], c[j])
  <2>1. IsLaidOut(left, order, c, e)
    BY <1>13, LaidOutType
  <2> QED  BY <2>1 DEF IsLaidOut
<1>15. /\ whole \in Seq(RangeSet) /\ Len(whole) = f
       /\ \A j \in 1..f : whole[j] = ValueRange(order[j], c[j - 1], c[j])
  <2>1. IsLaidOut(whole, order, c, f)
    BY <1>2, <1>13, LaidOutType
  <2> QED  BY <2>1 DEF IsLaidOut
<1>16. DOMAIN R = 1..m /\ \A j \in 1..m : R[j] = ValueRange(sub[j], d[j - 1], d[j])
  <2>1. m \in 0..m
    BY <1>2
  <2>2. IsLaidOut(R, sub, d, m)
    BY <1>2, <1>10, <1>12, <2>1, LaidOutType
  <2> QED  BY <2>2 DEF IsLaidOut
<1>17. PICK right : right = [k \in DOMAIN R |-> ValueRange(R[k].value, R[k].start + End(left),
                                                       R[k].end + End(left))]
  OBVIOUS
<1>18. ASSUME NEW k \in 1..m PROVE right[k] = whole[e + k] /\ right[k] \in RangeSet
  <2>1. e + k \in 1..f /\ e + k \in 0..n /\ (e + k) - 1 = e + (k - 1) /\ e + (k - 1) \in 0..n
        /\ k \in 0..m /\ k - 1 \in 0..m
    BY <1>2
  <2>2. R[k] = ValueRange(order[e + k], c[e + (k - 1)] - c[e], c[e + k] - c[e])
    BY <1>4, <1>5, <1>16, <2>1
  <2>3. c[e + (k - 1)] \in Nat /\ c[e + k] \in Nat /\ c[e] \in Nat
    BY <1>2, <1>9, <2>1
  <2>4. right[k] = ValueRange(R[k].value, R[k].start + c[e], R[k].end + c[e])
    BY <1>14, <1>16, <1>17
  <2>5. PICK x, s, t : x = c[e] /\ s = c[e + (k - 1)] - x /\ t = c[e + k] - x
    OBVIOUS
  <2>9. x \in Int /\ s \in Int /\ t \in Int /\ s + x = c[e + (k - 1)] /\ t + x = c[e + k]
    BY <2>3, <2>5
  <2>10. right[k] = ValueRange(order[e + k], s + x, t + x)
    BY <2>2, <2>4, <2>5 DEF ValueRange
  <2>6. right[k] = ValueRange(order[e + k], c[e + (k - 1)], c[e + k])
    BY <2>9, <2>10
  <2>7. whole[e + k] = ValueRange(order[e + k], c[e + (k - 1)], c[e + k])
    BY <1>15, <2>1
  <2>8. whole[e + k] \in RangeSet
    BY <1>15, <2>1
  <2> QED  BY <2>6, <2>7, <2>8
<1>19. right \in Seq(RangeSet) /\ Len(right) = m
  <2>1. right = [k \in 1..m |-> right[k]]
    BY <1>16, <1>17
  <2>2. right \in [1..m -> RangeSet]
    BY <1>18, <2>1
  <2> QED  BY <1>2, <2>1, <2>2
<1>20. \A j \in 1..e : left[j] = whole[j]
  <2>1. \A j \in 1..e : j \in 1..f
    BY <1>2
  <2> QED  BY <1>14, <1>15, <2>1
<1>21. left \o right = whole
  <2>0. PICK cat : cat = left \o right
    OBVIOUS
  <2>1. /\ Len(cat) = e + m
        /\ \A i \in 1..e : cat[i] = left[i]
        /\ \A i \in 1..m : cat[e + i] = right[i]
    <3>1. left \in Seq(RangeSet) /\ right \in Seq(RangeSet) /\ Len(left) = e /\ Len(right) = m
      BY <1>14, <1>19
    <3>2. PICK V : V = RangeSet
      OBVIOUS
    <3>3. left \in Seq(V) /\ right \in Seq(V) /\ cat = left \o right
      BY ONLY <2>0, <3>1, <3>2
    <3>4. /\ Len(cat) = Len(left) + Len(right)
          /\ \A i \in 1..Len(left) : cat[i] = left[i]
          /\ \A i \in 1..Len(right) : cat[Len(left) + i] = right[i]
      BY ONLY <3>3, ConcatPlaces
    <3> QED  BY ONLY <3>1, <3>4
  <2>2. cat \in Seq(RangeSet)
    BY <1>14, <1>19, <2>0
  <2>3. ASSUME NEW i \in 1..f PROVE cat[i] = whole[i]
    <3>1. CASE i <= e
      <4>1. i \in 1..e
        BY <3>1, <1>2
      <4> QED  BY <1>20, <2>1, <4>1
    <3>2. CASE i > e
      <4>1. i - e \in 1..m /\ e + (i - e) = i
        BY <1>2, <3>2
      <4> QED  BY <1>18, <2>1, <4>1
    <3> QED  BY <1>2, <3>1, <3>2
  <2>4. Len(cat) = f /\ whole \in Seq(RangeSet) /\ Len(whole) = f /\ \A i \in 1..f : cat[i] = whole[i]
    BY <1>2, <1>15, <2>1, <2>3
  <2> QED  BY ONLY <2>0, <2>2, <2>4
<1>22. Join(left, R) = left \o right
  BY ONLY <1>17 DEF Join
<1> QED  BY ONLY <1>1, <1>11, <1>13, <1>21, <1>22

\* Where shares end: the cuts in their order, from 0 to the last value
ShareEnds(ends, h, n) ==
    /\ h \in Nat /\ h >= 1 /\ ends \in [1..h -> 0..n] /\ ends[1] = 0 /\ ends[h] = n
    /\ \A j, k \in 1..h : j < k => ends[j] < ends[k]

\* Wherever the threads' shares are cut, their ends rise from 0 to the number of values.
LEMMA CutsAreShareEnds ==
    ASSUME NEW n \in Nat, NEW cuts, \A x \in cuts : x \in 1..(n - 1)
    PROVE  ShareEnds(Ascending(cuts \cup {0, n}), Cardinality(cuts \cup {0, n}), n)
<1>1. PICK S : S = cuts \cup {0, n}
  OBVIOUS
<1>2. PICK h, ends : h = Cardinality(S) /\ ends = Ascending(S)
  OBVIOUS
<1>3. /\ \A x \in S : x \in 0..n /\ x \in Nat
      /\ 0 \in S /\ n \in S
  <2>1. \A x \in cuts : x \in 0..n /\ x \in Nat
    OBVIOUS
  <2> QED  BY <1>1, <2>1
<1>4. IsFiniteSet(S)
  <2>1. IsFiniteSet(0..n)
    BY FS_Interval
  <2>2. S \in SUBSET (0..n)
    BY <1>3
  <2> QED  BY <2>1, <2>2, FS_Subset
<1>5. h \in Nat /\ Lists(ends, S)
  <2>1. \A x \in S : x \in Nat
    BY <1>3
  <2> QED  BY <1>2, <1>4, <2>1, AscendingLists
<1>6. /\ \A k \in 1..h : ends[k] \in S
      /\ \A x \in S : \E k \in 1..h : ends[k] = x
      /\ \A j, k \in 1..h : j < k => ends[j] < ends[k]
      /\ ends \in [1..h -> S]
  BY <1>2, <1>5 DEF Lists
<1>7. PICK z \in 1..h : ends[z] = 0
  BY <1>3, <1>6
<1>8. PICK l \in 1..h : ends[l] = n
  BY <1>3, <1>6
<1>9. h >= 1 /\ 1 \in 1..h /\ h \in 1..h
  BY <1>5, <1>7
<1>10. ends[1] = 0
  <2>1. ends[1] \in Nat
    BY <1>3, <1>6, <1>9
  <2>2. 1 = z \/ 1 < z
    BY <1>5
  <2>3. 1 < z => ends[1] < ends[z]
    BY <1>6, <1>9
  <2> QED  BY <1>7, <2>1, <2>2, <2>3
<1>11. ends[h] = n
  <2>1. ends[h] \in 0..n
    BY <1>3, <1>6, <1>9
  <2>2. h = l \/ l < h
    BY <1>5
  <2>3. l < h => ends[l] < ends[h]
    BY <1>6, <1>9
  <2> QED  BY <1>8, <2>1, <2>2, <2>3
<1>12. ends \in [1..h -> 0..n]
  BY <1>3, <1>6
<1>13. ShareEnds(ends, h, n)
  BY <1>5, <1>6, <1>9, <1>10, <1>11, <1>12 DEF ShareEnds
<1> QED  BY <1>1, <1>2, <1>13

\* However the threads cut the order, the ranges are laid out from row 0: an induction
\* along the shares.
LEMMA RangesLayOut ==
    ASSUME NEW n \in Nat, NEW order, order \in Seq(Values), Len(order) = n,
           NEW c, EndsOf(c, order, n), Given, NEW cuts, \A x \in cuts : x \in 1..(n - 1)
    PROVE  UniqueRanges(order, cuts) = LaidOut(order, c, n)
<1>1. PICK ends : ends = Ascending(cuts \cup {0, Len(order)})
  OBVIOUS
<1>2. PICK h : h = Cardinality(cuts \cup {0, n})
  OBVIOUS
<1>3. ShareEnds(ends, h, n)
  BY <1>1, <1>2, CutsAreShareEnds
<1>4. /\ h \in Nat /\ h >= 1 /\ ends \in [1..h -> 0..n] /\ ends[1] = 0 /\ ends[h] = n
      /\ \A j, k \in 1..h : j < k => ends[j] < ends[k]
  BY <1>3 DEF ShareEnds
<1>5. Len(ends) = h
  BY <1>4
<1>6. PICK s : s = Len(ends) - 1
  OBVIOUS
<1>7. s \in Nat /\ s + 1 = h
  BY <1>4, <1>5, <1>6
<1> DEFINE Step(f) == [k \in 0..s |->
                          IF k = 0 THEN <<>>
                          ELSE Join(f[k - 1], Share(SubSeq(order, ends[k] + 1, ends[k + 1])))]
           joined == CHOOSE f : f = Step(f)
           goal == [k \in 0..s |-> LaidOut(order, c, ends[k + 1])]
<1>8. ASSUME NEW k \in 1..s
      PROVE  LaidOut(order, c, ends[k + 1]) =
                 Join(LaidOut(order, c, ends[(k - 1) + 1]),
                      Share(SubSeq(order, ends[k] + 1, ends[k + 1])))
  <2>1. k \in 1..h /\ k + 1 \in 1..h /\ k < k + 1 /\ (k - 1) + 1 = k
    BY <1>7
  <2>2. PICK e, f : e = ends[k] /\ f = ends[k + 1]
    OBVIOUS
  <2>3. e \in 0..n /\ f \in 0..n /\ e < f
    BY <1>4, <2>1, <2>2
  <2>4. f \in e..n
    BY <2>3
  <2>5. Join(LaidOut(order, c, e), Share(SubSeq(order, e + 1, f))) = LaidOut(order, c, f)
    BY <2>3, <2>4, JoinLaysOut
  <2> QED  BY <2>1, <2>2, <2>5
<1>9. goal = Step(goal)
  <2>1. \A k \in 0..s : k # 0 => k \in 1..s /\ k - 1 \in 0..s
    BY <1>7
  <2>2. \A k \in 0..s : goal[k] = LaidOut(order, c, ends[k + 1])
    OBVIOUS
  <2>3. LaidOut(order, c, ends[0 + 1]) = <<>>
    <3>1. 0 \in 0..n /\ ends[0 + 1] = 0
      BY <1>4
    <3>2. IsLaidOut(LaidOut(order, c, 0), order, c, 0)
      BY <3>1, LaidOutType
    <3> QED  BY <3>1, <3>2 DEF IsLaidOut
  <2> HIDE DEF goal
  <2>4. \A k \in 0..s : goal[k] =
            IF k = 0 THEN <<>>
            ELSE Join(goal[k - 1], Share(SubSeq(order, ends[k] + 1, ends[k + 1])))
    BY <1>8, <2>1, <2>2, <2>3
  <2>5. goal = [k \in 0..s |-> goal[k]]
    BY <2>2 DEF goal
  <2> QED  BY <2>4, <2>5
<1>10. joined = Step(joined)
  BY <1>9
<1>11. UniqueRanges(order, cuts) = joined[s]
  BY <1>1, <1>6 DEF UniqueRanges, joined
<1> HIDE DEF joined
<1>12. 0..s \subseteq {k \in 0..s : joined[k] = goal[k]}
  <2> DEFINE S == {k \in 0..s : joined[k] = goal[k]}
  <2>1. 0 \in S
    <3>1. 0 \in 0..s
      BY <1>7
    <3>2. joined[0] = <<>>
      BY <1>10, <3>1
    <3>3. goal[0] = <<>>
      BY <1>9, <3>1
    <3> QED  BY <3>1, <3>2, <3>3
  <2>2. ASSUME NEW k \in 0..(s - 1), k \in S PROVE k + 1 \in S
    <3>1. k + 1 \in 0..s /\ k + 1 # 0 /\ (k + 1) - 1 = k /\ k \in 0..s
      BY <1>7
    <3>2. joined[k + 1] = Join(joined[k], Share(SubSeq(order, ends[k + 1] + 1, ends[(k + 1) + 1])))
      BY <1>10, <3>1
    <3>3. goal[k + 1] = Join(goal[k], Share(SubSeq(order, ends[k + 1] + 1, ends[(k + 1) + 1])))
      BY <1>9, <3>1
    <3> QED  BY <2>2, <3>1, <3>2, <3>3
  <2> HIDE DEF S
  <2>3. 0..s \subseteq S
    BY <1>7, <2>1, <2>2, BoundedInduction
  <2> QED  BY <2>3 DEF S
<1>13. joined[s] = goal[s] /\ goal[s] = LaidOut(order, c, n)
  <2>1. s \in 0..s
    BY <1>7
  <2> QED  BY <1>4, <1>7, <1>12, <2>1
<1> QED  BY <1>11, <1>13

\* The distinct inputs, each once, and where their ranges end
DistinctInputs(order, n) ==
    /\ n \in Nat /\ order \in [1..n -> Values] /\ OneToOne(order, 1..n, Values)
    /\ n = Cardinality(Cells(input))
    /\ \A k \in 1..n : order[k] \in Cells(input)
    /\ \A v \in Cells(input) : \E k \in 1..n : order[k] = v

\* Every order of the hash map lists each input value once.
LEMMA OrderIsDistinct ==
    ASSUME Given, NEW order, order \in SetToSeqs(Cells(input))
    PROVE  DistinctInputs(order, Cardinality(Cells(input)))
<1>1. PICK C, n : C = Cells(input) /\ n = Cardinality(C)
  OBVIOUS
<1>2. C \subseteq Values /\ IsFiniteSet(C) /\ n \in Nat
  <2>1. /\ Usable \in Nat /\ DOMAIN Sort(input) = 1..Usable /\ Grouped(Sort(input))
        /\ Cells(Sort(input)) = Cells(input)
    BY SizesAreNatural, SortedColumn DEF Given
  <2>2. IsFiniteSet(Cells(Sort(input)))
    BY <2>1, RepeatsOf
  <2>3. Cells(input) \subseteq Values
    BY DEF Given, Columns, Cells, ToSet
  <2> QED  BY <1>1, <2>1, <2>2, <2>3, FS_CardinalityType
<1>3. order \in [1..n -> C] /\ \A i, j \in 1..n : i # j => order[i] # order[j]
  BY <1>1 DEF SetToSeqs
<1>4. OneToOne(order, 1..n, C)
  BY <1>3 DEF OneToOne
<1>5. \A v \in C : \E k \in 1..n : order[k] = v
  <2>1. IsFiniteSet(1..n) /\ Cardinality(1..n) = n
    BY <1>2, FS_Interval
  <2>2. PICK P : P = 1..n
    OBVIOUS
  <2>3. OneToOne(order, P, C) /\ IsFiniteSet(C) /\ Cardinality(P) = Cardinality(C)
    BY <1>1, <1>2, <1>4, <2>1, <2>2
  <2>4. \A v \in C : \E k \in P : order[k] = v
    BY ONLY <2>3, OneToOneCounts
  <2> QED  BY <2>2, <2>4
<1>6. \A k \in 1..n : order[k] \in C
  BY <1>3
<1>7. order \in [1..n -> Values] /\ OneToOne(order, 1..n, Values)
  BY <1>2, <1>3, <1>4 DEF OneToOne
<1> QED  BY <1>1, <1>2, <1>5, <1>6, <1>7 DEF DistinctInputs

\* Every distinct input in its range
RunColumn(a, order, c, n) ==
    /\ a \in Columns /\ SameCounts(a, input) /\ Grouped(a)
    /\ c \in [0..n -> 0..Usable] /\ c[0] = 0 /\ c[n] = Usable
    /\ \A k \in 1..n : c[k - 1] < c[k]
    /\ \A j, k \in 0..n : j <= k => c[j] <= c[k]
    /\ \A p \in 1..Usable : \E k \in 1..n : c[k - 1] < p /\ p <= c[k]
    /\ \A k \in 1..n : \A p \in 1..Usable : c[k - 1] < p /\ p <= c[k] =>
          /\ a[p] = order[k]
          /\ First(a, p) <=> p = c[k - 1] + 1

\* The filled ranges are the input, grouped, with a first row at each range's start.
LEMMA RangesFillColumn ==
    ASSUME Given, NEW order, NEW n, DistinctInputs(order, n), NEW c, EndsOf(c, order, n),
           NEW seqs, seqs = [k \in 1..n |-> [r \in 1..Count(input, order[k]) |-> order[k]]]
    PROVE  RunColumn(FlattenSeq(seqs), order, c, n)
<1>0. /\ Usable \in Nat /\ input \in [1..Usable -> Values] /\ DOMAIN input = 1..Usable
      /\ \A v \in Values : v \in Nat
  BY SizesAreNatural, ValuesAreNatural DEF Given, Columns
<1>1. /\ n \in Nat /\ order \in [1..n -> Values] /\ OneToOne(order, 1..n, Values)
      /\ \A k \in 1..n : order[k] \in Cells(input)
      /\ \A v \in Cells(input) : \E k \in 1..n : order[k] = v
  BY DEF DistinctInputs
<1>2. PICK len : len = [k \in 1..n |-> Count(input, order[k])]
  OBVIOUS
<1>3. len \in [1..n -> Nat] /\ Sums(c, len, n) /\ \A k \in 1..n : len[k] >= 1
  <2>1. ASSUME NEW k \in 1..n PROVE len[k] \in Nat /\ len[k] >= 1
    <3>1. len[k] = Count(input, order[k]) /\ order[k] \in Cells(input)
      BY <1>1, <1>2
    <3>2. Count(input, order[k]) \in Nat /\ Count(input, order[k]) # 0
      BY <3>1, InputCounts
    <3> QED  BY <3>1, <3>2
  <2>2. Sums(c, len, n)
    BY <1>2 DEF EndsOf
  <2> QED  BY <1>2, <2>1, <2>2
<1>4. PICK a : a = FlattenSeq(seqs)
  OBVIOUS
<1>5. InRuns(a, order, len, c, n, Values)
  <2>1. seqs = [k \in 1..n |-> [r \in 1..len[k] |-> order[k]]]
    BY <1>2
  <2> QED  BY <1>1, <1>3, <1>4, <2>1, FlattenRuns
<1>6. /\ \A k \in 1..n : Count(a, order[k]) = len[k]
      /\ \A v : (\A k \in 1..n : order[k] # v) => Count(a, v) = 0
  <2>1. CountsAre(a, order, len, n)
    BY <1>1, <1>3, <1>5, RunsCount
  <2> QED  BY <2>1 DEF CountsAre
<1>7. SameCounts(a, input)
  <2>1. ASSUME NEW v PROVE Count(a, v) = Count(input, v)
    <3>1. CASE \E k \in 1..n : order[k] = v
      BY <1>2, <1>6, <3>1
    <3>2. CASE ~ \E k \in 1..n : order[k] = v
      <4>1. v \notin Cells(input)
        BY <1>1, <3>2
      <4>2. Count(input, v) = 0
        BY <4>1, InputCounts
      <4> QED  BY <1>6, <3>2, <4>2
    <3> QED  BY <3>1, <3>2
  <2> QED  BY <2>1 DEF SameCounts
<1>8. PICK u : u = c[n]
  OBVIOUS
<1>9. u \in Nat /\ a \in [1..u -> Values]
  <2>1. a \in Seq(Values) /\ Len(a) = u
    BY <1>5, <1>8 DEF InRuns
  <2>2. Len(a) \in Nat /\ a \in [1..Len(a) -> Values]
    BY <2>1
  <2> QED  BY <2>1, <2>2
<1>10. u = Usable
  <2>1. Sort(a) \in [1..u -> Values] /\ Ordered(Sort(a)) /\ SameCounts(Sort(a), a)
    BY <1>0, <1>9, SortSorts
  <2>2. Sort(input) \in [1..Usable -> Values] /\ Ordered(Sort(input)) /\ SameCounts(Sort(input), input)
    BY <1>0, SortSorts
  <2>3. PICK s, t : s = Sort(a) /\ t = Sort(input)
    OBVIOUS
  <2>4. SameCounts(s, t)
    BY <1>7, <2>1, <2>2, <2>3 DEF SameCounts
  <2>5. s \in [1..u -> Nat] /\ t \in [1..Usable -> Nat]
    <3>1. \A i \in 1..u : s[i] \in Nat
      BY <1>0, <2>1, <2>3
    <3>2. \A i \in 1..Usable : t[i] \in Nat
      BY <1>0, <2>2, <2>3
    <3> QED  BY <2>1, <2>2, <2>3, <3>1, <3>2
  <2>6. Ordered(s) /\ Ordered(t)
    BY <2>1, <2>2, <2>3
  <2> QED  BY ONLY <1>0, <1>9, <2>4, <2>5, <2>6, OrderedIsDetermined
<1>11. c[0] = 0 /\ c[n] = Usable /\ \A k \in 1..n : c[k] = c[k - 1] + len[k]
  BY <1>3, <1>8, <1>10 DEF Sums
<1>12. \A k \in 0..n : c[k] \in Nat /\ \A j \in 0..k : c[j] <= c[k]
  BY <1>1, <1>3, SumsGrow
<1>13. ASSUME NEW j \in 0..n, NEW k \in 0..n, j <= k PROVE c[j] <= c[k]
  <2>1. j \in 0..k
    BY <1>13
  <2> QED  BY <1>12, <2>1
<1>14. c \in [0..n -> 0..Usable]
  <2>1. ASSUME NEW k \in 0..n PROVE c[k] \in 0..Usable
    <3>1. n \in 0..n /\ k <= n
      BY <1>1
    <3>2. c[k] <= c[n] /\ c[k] \in Nat
      BY <1>12, <1>13, <3>1
    <3> QED  BY <1>0, <1>11, <3>2
  <2>2. c = [k \in 0..n |-> c[k]]
    BY <1>3 DEF Sums
  <2> QED  BY <2>1, <2>2
<1>15. ASSUME NEW k \in 1..n
       PROVE  c[k - 1] < c[k] /\ c[k - 1] \in Nat /\ c[k] \in 0..Usable /\ c[k] \in Nat
  <2>1. k - 1 \in 0..n /\ k \in 0..n
    BY <1>1
  <2>2. c[k - 1] \in Nat /\ c[k] = c[k - 1] + len[k] /\ len[k] \in Nat /\ len[k] >= 1 /\ c[k] \in Nat
    BY <1>3, <1>11, <1>12, <2>1
  <2>3. c[k] \in 0..Usable
    BY <1>14, <2>1
  <2> QED  BY <2>2, <2>3
<1>16. \A p \in 1..Usable : \E k \in 1..n : c[k - 1] < p /\ p <= c[k]
  BY <1>1, <1>3, <1>11, SumsCover
<1>17. ASSUME NEW k \in 1..n, NEW p \in 1..Usable, c[k - 1] < p, p <= c[k]
       PROVE  a[p] = order[k]
  BY <1>5, <1>11, <1>17 DEF InRuns
<1>18. ASSUME NEW k \in 1..n, NEW p \in 1..Usable, c[k - 1] < p, p <= c[k]
       PROVE  First(a, p) <=> p = c[k - 1] + 1
  <2>0. c[k - 1] \in Nat /\ c[k] \in Nat /\ p \in Nat /\ p >= 1
    BY <1>15
  <2>1. CASE p = c[k - 1] + 1
    <3>1. CASE p = 1
      BY <2>1, <3>1 DEF First
    <3>2. CASE p # 1
      <4>1. p - 1 \in 1..Usable
        BY <1>0, <2>0, <3>2
      <4>2. PICK j \in 1..n : c[j - 1] < p - 1 /\ p - 1 <= c[j]
        BY <1>16, <4>1
      <4>3. a[p - 1] = order[j] /\ a[p] = order[k]
        BY <1>17, <1>18, <4>1, <4>2
      <4>4. j # k
        BY <2>0, <2>1, <4>2
      <4>5. order[j] # order[k]
        BY <1>1, <4>4 DEF OneToOne
      <4> QED  BY <2>1, <4>3, <4>5 DEF First
    <3> QED  BY <3>1, <3>2
  <2>2. CASE p # c[k - 1] + 1
    <3>3. PICK b, e : b = c[k - 1] /\ e = c[k]
      OBVIOUS
    <3>4. b \in Nat /\ e \in Nat /\ b < p /\ p <= e /\ p # b + 1 /\ p \in Nat
      BY <1>18, <2>0, <2>2, <3>3
    <3>5. p - 1 \in 1..Usable /\ b < p - 1 /\ p - 1 <= e /\ p # 1
      BY <1>0, <3>4
    <3>1. p - 1 \in 1..Usable /\ c[k - 1] < p - 1 /\ p - 1 <= c[k] /\ p # 1
      BY <3>3, <3>5
    <3>2. a[p - 1] = order[k] /\ a[p] = order[k]
      BY <1>17, <1>18, <3>1
    <3> QED  BY <2>2, <3>1, <3>2 DEF First
  <2> QED  BY <2>1, <2>2
<1>19. DOMAIN a = 1..Usable /\ a \in Columns
  BY <1>9, <1>10 DEF Columns
<1>20. Grouped(a)
  <2>1. ASSUME NEW p \in 1..Usable, NEW q \in 1..Usable, First(a, p), First(a, q), a[p] = a[q]
        PROVE  p = q
    <3>1. PICK j \in 1..n : c[j - 1] < p /\ p <= c[j]
      BY <1>16
    <3>2. PICK k \in 1..n : c[k - 1] < q /\ q <= c[k]
      BY <1>16
    <3>3. a[p] = order[j] /\ a[q] = order[k] /\ p = c[j - 1] + 1 /\ q = c[k - 1] + 1
      BY <1>17, <1>18, <2>1, <3>1, <3>2
    <3>4. j = k
      BY <1>1, <2>1, <3>3 DEF OneToOne
    <3> QED  BY <3>3, <3>4
  <2> QED  BY <1>19, <2>1 DEF Grouped
<1> QED  BY <1>4, <1>7, <1>11, <1>13, <1>14, <1>15, <1>16, <1>17, <1>18, <1>19, <1>20 DEF RunColumn

\* The leftover values before the slice of the k-th range, counted from 1, fit behind one
\* another: d[k] is where the slice ends.
SliceEnds(d, c, n, m) ==
    /\ m \in Nat /\ d = [k \in 0..n |-> c[k] - k] /\ d \in [0..n -> 0..m]
    /\ \A j, k \in 0..n : j <= k => d[j] <= d[k]

\* Each range's slice of the leftover begins where the one before it ended, within it.
LEMMA SlicesFit ==
    ASSUME Given, NEW order, NEW n, DistinctInputs(order, n), NEW a, NEW c, RunColumn(a, order, c, n)
    PROVE  SliceEnds([k \in 0..n |-> c[k] - k], c, n, Usable - Cardinality(Taken))
<1>1. PICK d, m : d = [k \in 0..n |-> c[k] - k] /\ m = Usable - Cardinality(Taken)
  OBVIOUS
<1>2. Usable \in Nat /\ n \in Nat /\ n = Cardinality(Cells(input))
  BY SizesAreNatural DEF DistinctInputs
<1>3. /\ a \in Columns /\ SameCounts(a, input) /\ Grouped(a) /\ DOMAIN a = 1..Usable
      /\ c \in [0..n -> 0..Usable] /\ c[0] = 0 /\ c[n] = Usable
      /\ \A k \in 1..n : c[k - 1] < c[k]
  BY DEF RunColumn, Columns
<1>4. m \in Nat /\ Usable - n <= m
  <2>1. /\ Cells(a) = Cells(input) /\ Cardinality(Taken) \in 0..Usable
        /\ Cardinality(Repeats(a)) <= m
    BY <1>1, <1>3, RepeatsAreFilled
  <2>2. Cardinality(Repeats(a)) \in 0..Usable /\ Cardinality(Cells(a)) + Cardinality(Repeats(a)) = Usable
    BY <1>2, <1>3, RepeatsOf
  <2>3. m \in Nat
    BY <1>1, <1>2, <2>1
  <2> QED  BY <1>2, <2>1, <2>2, <2>3
<1>5. \A k \in 0..n : c[k] \in Nat /\ d[k] = c[k] - k /\ d[k] \in Int
  BY <1>1, <1>2, <1>3
<1> DEFINE S == {k \in 0..n : \A j \in 0..k : d[j] <= d[k]}
<1>6. 0 \in S
  <2>1. 0 \in 0..n /\ \A j \in 0..0 : j = 0
    BY <1>2
  <2>2. d[0] <= d[0]
    BY <1>5, <2>1
  <2> QED  BY <2>1, <2>2
<1>7. ASSUME NEW k \in 0..(n - 1), k \in S PROVE k + 1 \in S
  <2>1. k + 1 \in 1..n /\ k + 1 \in 0..n /\ (k + 1) - 1 = k /\ k \in 0..n
    BY <1>2
  <2>2. c[k] < c[k + 1] /\ c[k] \in Nat /\ c[k + 1] \in Nat
    BY <1>3, <1>5, <2>1
  <2>3. d[k] = c[k] - k /\ d[k + 1] = c[k + 1] - (k + 1)
    BY <1>5, <2>1
  <2>4. d[k] <= d[k + 1] /\ d[k] \in Int /\ d[k + 1] \in Int
    BY <2>2, <2>3
  <2>5. ASSUME NEW j \in 0..(k + 1) PROVE d[j] <= d[k + 1]
    <3>1. CASE j = k + 1
      BY <2>4, <3>1
    <3>2. CASE j # k + 1
      <4>1. j \in 0..k /\ j \in 0..n
        BY <1>2, <2>1, <3>2
      <4>2. d[j] <= d[k] /\ d[j] \in Int
        BY <1>5, <1>7, <4>1
      <4> QED  BY <2>4, <4>2
    <3> QED  BY <3>1, <3>2
  <2> QED  BY <2>1, <2>5
<1> HIDE DEF S
<1>8. 0..n \subseteq S
  BY <1>2, <1>6, <1>7, BoundedInduction
<1>9. ASSUME NEW j \in 0..n, NEW k \in 0..n, j <= k PROVE d[j] <= d[k]
  <2>1. k \in S /\ j \in 0..k
    BY <1>8, <1>9
  <2> QED  BY <2>1 DEF S
<1>11. \A j, k \in 0..n : j <= k => d[j] <= d[k]
  BY <1>9
<1> HIDE DEF S
<1>10. d \in [0..n -> 0..m]
  <2>1. ASSUME NEW k \in 0..n PROVE d[k] \in 0..m
    <3>1. 0 \in 0..n /\ n \in 0..n /\ 0 <= k /\ k <= n
      BY <1>2
    <3>4. d[0] <= d[k] /\ d[k] <= d[n]
      BY <1>11, <3>1
    <3>2. d[0] <= d[k] /\ d[k] <= d[n] /\ d[k] \in Int
      BY <1>5, <3>4
    <3>3. d[0] = 0 /\ d[n] = Usable - n
      BY <1>1, <1>3, <3>1
    <3> QED  BY <1>2, <1>4, <3>2, <3>3
  <2> QED  BY <1>1, <2>1
<1> QED  BY <1>1, <1>4, <1>10, <1>11 DEF SliceEnds

\* A range's part of S' is its value and then its slice.
LEMMA SliceAt ==
    ASSUME NEW V, NEW m \in Nat, NEW L \in [1..m -> V], NEW v \in V,
           NEW e \in 0..m, NEW f \in e..m, NEW part, part = <<v>> \o SubSeq(L, e + 1, f)
    PROVE  /\ part \in Seq(V) /\ Len(part) = (f - e) + 1
           /\ part[1] = v /\ \A r \in 1..(f - e) : part[r + 1] = L[e + r]
<1>1. PICK sub : sub = SubSeq(L, e + 1, f)
  OBVIOUS
<1>2. L \in Seq(V) /\ Len(L) = m
  OBVIOUS
<1>3. sub \in Seq(V) /\ Len(sub) = f - e /\ \A r \in 1..(f - e) : sub[r] = L[e + r]
  <2>1. \A j \in (e + 1)..f : j \in 1..m /\ L[j] \in V
    OBVIOUS
  <2>2. sub = [r \in 1..(f - e) |-> L[e + r]]
    <3>1. sub = [r \in 1..(f - (e + 1) + 1) |-> L[(e + 1) + r - 1]]
      BY <1>1
    <3>2. f - (e + 1) + 1 = f - e /\ \A r \in 1..(f - e) : (e + 1) + r - 1 = e + r
      OBVIOUS
    <3> QED  BY <3>1, <3>2
  <2>3. \A r \in 1..(f - e) : e + r \in (e + 1)..f
    OBVIOUS
  <2>4. f - e \in Nat
    OBVIOUS
  <2> QED  BY <2>1, <2>2, <2>3, <2>4
<1>4. PICK one : one = <<v>>
  OBVIOUS
<1>5. one \in Seq(V) /\ Len(one) = 1 /\ one[1] = v
  BY <1>4
<1>6. /\ Len(part) = 1 + (f - e) /\ \A i \in 1..1 : part[i] = one[i]
      /\ \A r \in 1..(f - e) : part[1 + r] = sub[r]
  <2>1. part = one \o sub
    BY <1>1, <1>4
  <2>2. one \in Seq(V) /\ sub \in Seq(V)
    BY <1>3, <1>5
  <2>3. /\ Len(part) = Len(one) + Len(sub)
        /\ \A i \in 1..Len(one) : part[i] = one[i]
        /\ \A i \in 1..Len(sub) : part[Len(one) + i] = sub[i]
    BY ONLY <2>1, <2>2, ConcatPlaces
  <2> QED  BY ONLY <1>3, <1>5, <2>3
<1>7. part \in Seq(V)
  BY <1>1, <1>3, <1>4, <1>5
<1>8. \A r \in 1..(f - e) : 1 + r = r + 1 /\ part[r + 1] = L[e + r]
  BY <1>3, <1>6
<1> QED  BY <1>5, <1>6, <1>7, <1>8

\* The slices put every leftover value in a repeated row of its own.
LEMMA SlicesFill ==
    ASSUME Given, NEW order, NEW n, DistinctInputs(order, n), NEW a, NEW c, RunColumn(a, order, c, n),
           NEW parts, parts = [k \in 1..n |-> <<order[k]>> \o
                                 SubSeq(Leftover, (c[k - 1] - (k - 1)) + 1, c[k] - k)]
    PROVE  GoodPair([a |-> a, s |-> FlattenSeq(parts)])
<1>1. PICK d, m : d = [k \in 0..n |-> c[k] - k] /\ m = Usable - Cardinality(Taken)
  OBVIOUS
<1>2. m \in Nat /\ d \in [0..n -> 0..m] /\ \A j, k \in 0..n : j <= k => d[j] <= d[k]
  <2>1. SliceEnds(d, c, n, m)
    BY <1>1, SlicesFit
  <2> QED  BY <2>1 DEF SliceEnds
<1>3. IsLeftover(Leftover)
  BY LeftoverIsLeft
<1>4. Leftover \in [1..m -> Values]
  BY <1>1, <1>3 DEF IsLeftover
<1>5. /\ Usable \in Nat /\ n \in Nat /\ order \in [1..n -> Values]
      /\ DOMAIN a = 1..Usable
  BY SizesAreNatural DEF DistinctInputs, RunColumn, Columns
<1>6. /\ c \in [0..n -> 0..Usable] /\ c[0] = 0 /\ c[n] = Usable
      /\ \A p \in 1..Usable : \E k \in 1..n : c[k - 1] < p /\ p <= c[k]
  BY DEF RunColumn
<1>7. ASSUME NEW k \in 1..n, NEW p \in 1..Usable, c[k - 1] < p, p <= c[k]
      PROVE  a[p] = order[k] /\ (First(a, p) <=> p = c[k - 1] + 1)
  BY <1>7 DEF RunColumn
<1>8. ASSUME NEW k \in 1..n
      PROVE  /\ k \in 0..n /\ k - 1 \in 0..n /\ k \in Nat
             /\ c[k - 1] \in Nat /\ c[k] \in Nat
             /\ d[k - 1] = c[k - 1] - (k - 1) /\ d[k] = c[k] - k
             /\ d[k - 1] \in 0..m /\ d[k] \in d[k - 1]..m
  <2>1. k \in 0..n /\ k - 1 \in 0..n /\ k - 1 <= k /\ k \in Nat
    BY <1>5
  <2>2. c[k - 1] \in 0..Usable /\ c[k] \in 0..Usable
    BY <1>6, <2>1
  <2>3. d[k - 1] \in 0..m /\ d[k] \in 0..m /\ d[k - 1] <= d[k]
    BY <1>2, <2>1
  <2>4. d[k - 1] = c[k - 1] - (k - 1) /\ d[k] = c[k] - k
    BY <1>1, <2>1
  <2> QED  BY <1>2, <1>5, <2>1, <2>2, <2>3, <2>4
<1>9. ASSUME NEW k \in 1..n
      PROVE  /\ parts[k] \in Seq(Values) /\ Len(parts[k]) = c[k] - c[k - 1]
             /\ parts[k][1] = order[k]
             /\ \A r \in 1..(d[k] - d[k - 1]) : parts[k][r + 1] = Leftover[d[k - 1] + r]
  <2>1. PICK L, v, e, f, part : /\ L = Leftover /\ v = order[k] /\ e = d[k - 1] /\ f = d[k]
                                /\ part = parts[k]
    OBVIOUS
  <2>2. L \in [1..m -> Values] /\ v \in Values /\ e \in 0..m /\ f \in e..m /\ m \in Nat
    BY <1>2, <1>4, <1>5, <1>8, <2>1
  <2>3. part = <<v>> \o SubSeq(L, e + 1, f)
    BY <1>8, <2>1
  <2>4. /\ part \in Seq(Values) /\ Len(part) = (f - e) + 1
        /\ part[1] = v /\ \A r \in 1..(f - e) : part[r + 1] = L[e + r]
    BY ONLY <2>2, <2>3, SliceAt
  <2>5. (f - e) + 1 = c[k] - c[k - 1]
    <3>1. PICK x, y : x = c[k - 1] /\ y = c[k]
      OBVIOUS
    <3>2. x \in Nat /\ y \in Nat /\ k \in Nat /\ e = x - (k - 1) /\ f = y - k
      BY <1>8, <2>1, <3>1
    <3>3. (f - e) + 1 = y - x
      BY ONLY <3>2
    <3> QED  BY <3>1, <3>3
  <2> QED  BY <2>1, <2>4, <2>5
<1>10. Parts(parts, c, n, Values)
  <2>1. parts \in Seq(Seq(Values)) /\ n = Len(parts)
    <3> DEFINE F(k) == <<order[k]>> \o SubSeq(Leftover, (c[k - 1] - (k - 1)) + 1, c[k] - k)
    <3>1. parts = [k \in 1..n |-> F(k)]
      OBVIOUS
    <3> HIDE DEF F
    <3>2. parts = [k \in 1..n |-> parts[k]]
      BY <3>1
    <3>3. PICK W : W = Seq(Values)
      OBVIOUS
    <3>4. \A k \in 1..n : parts[k] \in W
      BY <1>9, <3>3
    <3>5. parts \in [1..n -> W]
      BY <3>2, <3>4
    <3>6. parts \in Seq(W) /\ Len(parts) = n
      BY ONLY <1>5, <3>5
    <3> QED  BY <3>3, <3>6
  <2>2. PICK len : len = [k \in 1..n |-> Len(parts[k])]
    OBVIOUS
  <2>3. ASSUME NEW k \in 1..n PROVE c[k] = c[k - 1] + len[k]
    <3>1. len[k] = c[k] - c[k - 1]
      BY <1>9, <2>2
    <3> QED  BY <1>8, <3>1
  <2>4. c \in [0..n -> Nat]
    BY <1>5, <1>6
  <2>5. Sums(c, len, n)
    BY <1>6, <2>3, <2>4 DEF Sums
  <2> QED  BY <2>1, <2>2, <2>5 DEF Parts
<1>11. PICK s : s = FlattenSeq(parts)
  OBVIOUS
<1>12. /\ s \in Seq(Values) /\ Len(s) = Usable
       /\ \A k \in 1..n : \A r \in 1..Len(parts[k]) : s[c[k - 1] + r] = parts[k][r]
  <2>1. Placed(s, parts, c, n, Values)
    BY ONLY <1>10, <1>11, FlattenAt
  <2> QED  BY <1>6, <2>1 DEF Placed
<1>13. ASSUME NEW k \in 1..n, NEW p \in 1..Usable, c[k - 1] < p, p <= c[k]
       PROVE  s[p] = IF p = c[k - 1] + 1 THEN order[k] ELSE Leftover[p - k]
  <2>1. PICK b, e, r : b = c[k - 1] /\ e = c[k] /\ r = p - b
    OBVIOUS
  <2>2. b \in Nat /\ e \in Nat /\ p \in Nat /\ k \in Nat /\ b < p /\ p <= e
    BY <1>5, <1>8, <1>13, <2>1
  <2>3. r \in 1..(e - b) /\ b + r = p
    BY <2>1, <2>2
  <2>4. s[p] = parts[k][r]
    <3>1. r \in 1..Len(parts[k])
      BY <1>9, <2>1, <2>3
    <3>2. s[c[k - 1] + r] = parts[k][r]
      BY <1>12, <3>1
    <3> QED  BY <2>1, <2>3, <3>2
  <2>5. CASE p = b + 1
    <3>1. r = 1
      BY <2>2, <2>3, <2>5
    <3> QED  BY <1>9, <2>1, <2>4, <2>5, <3>1
  <2>6. CASE p # b + 1
    <3>1. PICK q : q = r - 1
      OBVIOUS
    <3>2. q + 1 = r /\ q \in 1..(d[k] - d[k - 1]) /\ d[k - 1] + q = p - k
      <4>1. d[k - 1] = b - (k - 1) /\ d[k] = e - k
        BY <1>8, <2>1
      <4> QED  BY <2>2, <2>3, <2>6, <3>1, <4>1
    <3>3. parts[k][q + 1] = Leftover[d[k - 1] + q]
      BY <1>9, <3>2
    <3> QED  BY <2>1, <2>4, <2>6, <3>2, <3>3
  <2> QED  BY <2>1, <2>5, <2>6
<1>14. PICK run : run = [p \in 1..Usable |-> CHOOSE k \in 1..n : c[k - 1] < p /\ p <= c[k]]
  OBVIOUS
<1>15. ASSUME NEW p \in 1..Usable PROVE run[p] \in 1..n /\ c[run[p] - 1] < p /\ p <= c[run[p]]
  <2>1. \E k \in 1..n : c[k - 1] < p /\ p <= c[k]
    BY <1>6
  <2> QED  BY <1>14, <2>1
<1>16. PICK idx : idx = [p \in 1..Usable |-> p - run[p]]
  OBVIOUS
<1>17. Filled(s, a, Leftover, idx)
  <2>1. ASSUME NEW p \in 1..Usable PROVE s[p] = IF First(a, p) THEN a[p] ELSE Leftover[idx[p]]
    <3>1. PICK k : k = run[p]
      OBVIOUS
    <3>2. k \in 1..n /\ c[k - 1] < p /\ p <= c[k] /\ idx[p] = p - k
      BY <1>15, <1>16, <3>1
    <3>3. a[p] = order[k] /\ (First(a, p) <=> p = c[k - 1] + 1)
      BY <1>7, <3>2
    <3>4. s[p] = IF p = c[k - 1] + 1 THEN order[k] ELSE Leftover[p - k]
      BY <1>13, <3>2
    <3> QED  BY <3>2, <3>3, <3>4
  <2>2. DOMAIN s = 1..Usable
    BY <1>12
  <2> QED  BY <1>5, <2>1, <2>2 DEF Filled
<1>18. ASSUME NEW p \in Repeats(a)
       PROVE  /\ p \in 1..Usable /\ run[p] \in 1..n /\ idx[p] = p - run[p] /\ idx[p] \in Int
              /\ d[run[p] - 1] < idx[p] /\ idx[p] <= d[run[p]]
  <2>1. p \in 1..Usable /\ ~First(a, p)
    BY <1>5 DEF Repeats
  <2>2. PICK k : k = run[p]
    OBVIOUS
  <2>3. k \in 1..n /\ c[k - 1] < p /\ p <= c[k] /\ idx[p] = p - k
    BY <1>15, <1>16, <2>1, <2>2
  <2>4. p # c[k - 1] + 1
    BY <1>7, <2>1, <2>3
  <2>5. PICK b, e : b = c[k - 1] /\ e = c[k]
    OBVIOUS
  <2>6. b \in Nat /\ e \in Nat /\ k \in Nat /\ d[k - 1] = b - (k - 1) /\ d[k] = e - k
    BY <1>8, <2>3, <2>5
  <2>7. p \in Nat /\ b < p /\ p <= e /\ p # b + 1
    BY <1>5, <2>1, <2>3, <2>4, <2>5
  <2>8. p - k \in Int /\ b - (k - 1) < p - k /\ p - k <= e - k
    BY <2>6, <2>7
  <2> QED  BY <2>1, <2>2, <2>3, <2>6, <2>8
<1>19. ASSUME NEW p \in Repeats(a), NEW q \in Repeats(a), run[p] < run[q] PROVE idx[p] < idx[q]
  <2>1. run[p] \in 1..n /\ run[q] \in 1..n /\ run[p] \in 0..n /\ run[q] - 1 \in 0..n /\ run[p] <= run[q] - 1
    BY <1>5, <1>18, <1>19
  <2>2. d[run[p]] <= d[run[q] - 1] /\ d[run[p]] \in 0..m /\ d[run[q] - 1] \in 0..m
    BY <1>2, <2>1
  <2>3. idx[p] \in Int /\ idx[q] \in Int /\ idx[p] <= d[run[p]] /\ d[run[q] - 1] < idx[q]
    BY <1>18
  <2> QED  BY <1>2, <2>2, <2>3
<1>20. OneToOne(idx, Repeats(a), 1..m)
  <2>1. ASSUME NEW p \in Repeats(a) PROVE idx[p] \in 1..m
    <3>1. run[p] \in 1..n /\ d[run[p] - 1] < idx[p] /\ idx[p] <= d[run[p]] /\ idx[p] \in Int
      BY <1>18
    <3>2. d[run[p] - 1] \in 0..m /\ d[run[p]] \in 0..m
      BY <1>2, <1>8, <3>1
    <3> QED  BY <1>2, <3>1, <3>2
  <2>2. ASSUME NEW p \in Repeats(a), NEW q \in Repeats(a), idx[p] = idx[q] PROVE p = q
    <3>1. /\ p \in 1..Usable /\ q \in 1..Usable /\ run[p] \in 1..n /\ run[q] \in 1..n
          /\ idx[p] = p - run[p] /\ idx[q] = q - run[q] /\ idx[p] \in Int /\ idx[q] \in Int
      BY <1>18
    <3>4. ~(idx[p] < idx[q]) /\ ~(idx[q] < idx[p])
      BY <2>2, <3>1
    <3>2. ~(run[p] < run[q]) /\ ~(run[q] < run[p])
      BY <1>19, <3>4
    <3>3. run[p] = run[q]
      BY <1>5, <3>1, <3>2
    <3>5. PICK k : k = run[p]
      OBVIOUS
    <3>7. idx[p] = p - k /\ idx[q] = q - k
      BY <3>1, <3>3, <3>5
    <3>8. p \in Int /\ q \in Int /\ k \in Int
      BY <1>5, <3>1, <3>5
    <3>6. p \in Int /\ q \in Int /\ k \in Int /\ p - k = q - k
      BY <2>2, <3>7, <3>8
    <3> QED  BY ONLY <3>6
  <2> QED  BY <2>1, <2>2 DEF OneToOne
<1>21. s = [i \in Rows |-> s[i]]
  <2>1. s = [i \in 1..Len(s) |-> s[i]]
    BY <1>12
  <2> QED  BY <1>12, <2>1, SizesAreNatural
<1>22. a \in Columns /\ Grouped(a) /\ SameCounts(a, input)
  BY DEF RunColumn
<1> QED  BY <1>1, <1>3, <1>11, <1>17, <1>20, <1>21, <1>22, FilledPair

\* What the parallel build makes of its ranges
SlicesSound(ranges) ==
    \A k \in DOMAIN ranges :
        /\ 0 <= Slice(ranges[k], k - 1).from
        /\ Slice(ranges[k], k - 1).from <= Slice(ranges[k], k - 1).to
        /\ Slice(ranges[k], k - 1).to <= Len(Leftover)

RangesInputs(ranges) ==
    [k \in DOMAIN ranges |->
        [r \in 1..(Slice(ranges[k], k - 1).to - Slice(ranges[k], k - 1).from + 1) |-> ranges[k].value]]

RangesTables(ranges) ==
    [k \in DOMAIN ranges |->
        <<ranges[k].value>> \o SubSeq(Leftover, Slice(ranges[k], k - 1).from + 1,
                                      Slice(ranges[k], k - 1).to)]

\* No slice is out of range, and the pair they make is right.
LEMMA ParallelPair ==
    ASSUME Given, NEW order, order \in SetToSeqs(Cells(input)),
           NEW cuts, \A x \in cuts : x \in 1..(Len(order) - 1)
    PROVE  /\ SlicesSound(UniqueRanges(order, cuts))
           /\ GoodPair([a |-> FlattenSeq(RangesInputs(UniqueRanges(order, cuts))),
                        s |-> FlattenSeq(RangesTables(UniqueRanges(order, cuts)))])
<1>1. PICK n : n = Cardinality(Cells(input))
  OBVIOUS
<1>2. DistinctInputs(order, n)
  BY <1>1, OrderIsDistinct
<1>3. /\ n \in Nat /\ order \in [1..n -> Values] /\ order \in Seq(Values) /\ Len(order) = n
      /\ \A k \in 1..n : order[k] \in Cells(input)
  BY <1>2 DEF DistinctInputs
<1>4. PICK len : len = [k \in 1..n |-> Count(input, order[k])]
  OBVIOUS
<1>5. len \in [1..n -> Nat]
  BY <1>4, InputCounts
<1>6. PICK c : Sums(c, len, n)
  BY <1>3, <1>5, SumsExist
<1>7. EndsOf(c, order, n)
  BY <1>3, <1>4, <1>6 DEF EndsOf
<1>8. PICK R : R = UniqueRanges(order, cuts)
  OBVIOUS
<1>9. R = LaidOut(order, c, n)
  <2>1. \A x \in cuts : x \in 1..(n - 1)
    BY <1>3
  <2> QED  BY <1>3, <1>7, <1>8, <2>1, RangesLayOut
<1>10. DOMAIN R = 1..n /\ \A k \in 1..n : R[k] = ValueRange(order[k], c[k - 1], c[k])
  <2>1. n \in 0..n
    BY <1>3
  <2>2. IsLaidOut(R, order, c, n)
    BY <1>3, <1>7, <1>9, <2>1, LaidOutType
  <2> QED  BY <2>2 DEF IsLaidOut
<1>11. PICK seqs : seqs = [k \in 1..n |-> [r \in 1..Count(input, order[k]) |-> order[k]]]
  OBVIOUS
<1>12. PICK a : a = FlattenSeq(seqs)
  OBVIOUS
<1>13. RunColumn(a, order, c, n)
  BY <1>2, <1>7, <1>11, <1>12, RangesFillColumn
<1>14. PICK d, m : d = [k \in 0..n |-> c[k] - k] /\ m = Usable - Cardinality(Taken)
  OBVIOUS
<1>15. m \in Nat /\ d \in [0..n -> 0..m] /\ \A j, k \in 0..n : j <= k => d[j] <= d[k]
  <2>1. SliceEnds(d, c, n, m)
    BY <1>2, <1>13, <1>14, SlicesFit
  <2> QED  BY <2>1 DEF SliceEnds
<1>16. ASSUME NEW k \in 1..n
       PROVE  /\ R[k].value = order[k]
              /\ Slice(R[k], k - 1).from = c[k - 1] - (k - 1) /\ Slice(R[k], k - 1).to = c[k] - k
              /\ 0 <= c[k - 1] - (k - 1) /\ c[k - 1] - (k - 1) <= c[k] - k /\ c[k] - k <= m
              /\ (c[k] - k) - (c[k - 1] - (k - 1)) + 1 = Count(input, order[k])
  <2>1. k \in Nat /\ k \in 0..n /\ k - 1 \in 0..n /\ k - 1 <= k
    BY <1>3
  <2>2. PICK b, e : b = c[k - 1] /\ e = c[k]
    OBVIOUS
  <2>3. b \in Nat /\ e \in Nat /\ e = b + len[k] /\ len[k] = Count(input, order[k]) /\ len[k] \in Nat
    BY <1>4, <1>5, <1>6, <2>1, <2>2 DEF Sums
  <2>4. R[k] = ValueRange(order[k], b, e)
    BY <1>10, <2>2
  <2>5. R[k].value = order[k] /\ R[k].start = b /\ R[k].end = e
    BY <2>4 DEF ValueRange
  <2>6. Slice(R[k], k - 1).from = b - (k - 1) /\ Slice(R[k], k - 1).to = e - (k - 1) - 1
    BY <2>5 DEF Slice
  <2>7. e - (k - 1) - 1 = e - k
    BY <2>1, <2>3
  <2>8. d[k - 1] \in 0..m /\ d[k] \in 0..m /\ d[k - 1] <= d[k]
    BY <1>15, <2>1
  <2>9. d[k - 1] = b - (k - 1) /\ d[k] = e - k
    BY <1>14, <2>1, <2>2
  <2>10. 0 <= b - (k - 1) /\ b - (k - 1) <= e - k /\ e - k <= m
    BY <1>15, <2>8, <2>9
  <2>11. (e - k) - (b - (k - 1)) + 1 = len[k]
    BY <2>1, <2>3
  <2> QED  BY <2>2, <2>3, <2>5, <2>6, <2>7, <2>10, <2>11
<1>17. Len(Leftover) = m
  <2>1. IsLeftover(Leftover)
    BY LeftoverIsLeft
  <2>2. Leftover \in [1..m -> Values]
    BY <1>14, <2>1 DEF IsLeftover
  <2> QED  BY <1>15, <2>2
<1>18. SlicesSound(R)
  BY <1>10, <1>16, <1>17 DEF SlicesSound
<1>19. RangesInputs(R) = seqs
  <2>1. RangesInputs(R) = [k \in 1..n |->
            [r \in 1..(Slice(R[k], k - 1).to - Slice(R[k], k - 1).from + 1) |-> R[k].value]]
    BY <1>10 DEF RangesInputs
  <2>2. ASSUME NEW k \in 1..n
        PROVE  [r \in 1..(Slice(R[k], k - 1).to - Slice(R[k], k - 1).from + 1) |-> R[k].value]
                   = [r \in 1..Count(input, order[k]) |-> order[k]]
    BY <1>16
  <2> QED  BY <1>11, <2>1, <2>2
<1>20. PICK parts : parts = [k \in 1..n |-> <<order[k]>> \o
                                SubSeq(Leftover, (c[k - 1] - (k - 1)) + 1, c[k] - k)]
  OBVIOUS
<1>21. RangesTables(R) = parts
  <2>1. RangesTables(R) = [k \in 1..n |->
            <<R[k].value>> \o SubSeq(Leftover, Slice(R[k], k - 1).from + 1, Slice(R[k], k - 1).to)]
    BY <1>10 DEF RangesTables
  <2>2. ASSUME NEW k \in 1..n
        PROVE  <<R[k].value>> \o SubSeq(Leftover, Slice(R[k], k - 1).from + 1, Slice(R[k], k - 1).to)
                   = <<order[k]>> \o SubSeq(Leftover, (c[k - 1] - (k - 1)) + 1, c[k] - k)
    BY <1>16
  <2> QED  BY <1>20, <2>1, <2>2
<1>22. GoodPair([a |-> a, s |-> FlattenSeq(parts)])
  BY <1>2, <1>13, <1>20, SlicesFill
<1> QED  BY <1>8, <1>12, <1>18, <1>19, <1>21, <1>22

\* Whatever order and shares the parallel build takes, it returns a right pair.
LEMMA PermutePairs ==
    ASSUME Given, PermutePar
    PROVE  stage' = "permuted" /\ GoodPair(pair')
<1>0. PICK order \in SetToSeqs(Cells(input)) : \E cuts \in SUBSET (1..(Len(order) - 1)) :
         LET ranges   == UniqueRanges(order, cuts)
             slice(k) == Slice(ranges[k], k - 1)
             sound(k) == /\ 0 <= slice(k).from /\ slice(k).from <= slice(k).to
                         /\ slice(k).to <= Len(Leftover)
             inputs(k) == [r \in 1..(slice(k).to - slice(k).from + 1) |-> ranges[k].value]
             tables(k) == <<ranges[k].value>> \o
                              SubSeq(Leftover, slice(k).from + 1, slice(k).to)
         IN  IF \A k \in DOMAIN ranges : sound(k)
             THEN Permuted(FlattenSeq([k \in DOMAIN ranges |-> inputs(k)]),
                           FlattenSeq([k \in DOMAIN ranges |-> tables(k)]))
             ELSE stage' = "panic" /\ UNCHANGED pair
  BY DEF PermutePar
<1>1. PICK cuts \in SUBSET (1..(Len(order) - 1)) :
         LET ranges   == UniqueRanges(order, cuts)
             slice(k) == Slice(ranges[k], k - 1)
             sound(k) == /\ 0 <= slice(k).from /\ slice(k).from <= slice(k).to
                         /\ slice(k).to <= Len(Leftover)
             inputs(k) == [r \in 1..(slice(k).to - slice(k).from + 1) |-> ranges[k].value]
             tables(k) == <<ranges[k].value>> \o
                              SubSeq(Leftover, slice(k).from + 1, slice(k).to)
         IN  IF \A k \in DOMAIN ranges : sound(k)
             THEN Permuted(FlattenSeq([k \in DOMAIN ranges |-> inputs(k)]),
                           FlattenSeq([k \in DOMAIN ranges |-> tables(k)]))
             ELSE stage' = "panic" /\ UNCHANGED pair
  BY <1>0
<1>2. PICK R : R = UniqueRanges(order, cuts)
  OBVIOUS
<1>3. IF SlicesSound(R) THEN Permuted(FlattenSeq(RangesInputs(R)), FlattenSeq(RangesTables(R)))
      ELSE stage' = "panic" /\ UNCHANGED pair
  BY <1>1, <1>2, Zenon DEF SlicesSound, RangesInputs, RangesTables
<1>4. \A x \in cuts : x \in 1..(Len(order) - 1)
  OBVIOUS
<1>5. /\ SlicesSound(R)
      /\ GoodPair([a |-> FlattenSeq(RangesInputs(R)), s |-> FlattenSeq(RangesTables(R))])
  BY <1>2, <1>4, ParallelPair
<1> QED  BY <1>3, <1>5 DEF Permuted

(* ------------------------------ the grand product ------------------------------ *)

Kinds == {"beta", "gamma"}

\* Fractions with the same exponents are equal.
LEMMA FractionsEqual ==
    ASSUME NEW p \in Fractions, NEW q \in Fractions,
           \A f \in Kinds : \A v \in Values : p[f][v] = q[f][v]
    PROVE  p = q
<1>1. \A f \in Kinds : p[f] \in [Values -> Int] /\ q[f] \in [Values -> Int]
  BY DEF Fractions, Kinds
<1>2. \A f \in Kinds : p[f] = q[f]
  BY <1>1
<1>3. p \in [Kinds -> [Values -> Int]] /\ q \in [Kinds -> [Values -> Int]]
  BY DEF Fractions, Kinds
<1> QED  BY <1>2, <1>3

\* A fraction's exponents are integers.
LEMMA FractionValues == \A p \in Fractions : \A f \in Kinds : \A v \in Values : p[f][v] \in Int
  BY DEF Fractions, Kinds

\* Exponents of a product add up.
LEMMA TimesType ==
    ASSUME NEW p \in Fractions, NEW q \in Fractions
    PROVE  /\ Times(p, q) \in Fractions
           /\ \A f \in Kinds : \A v \in Values : Times(p, q)[f][v] = p[f][v] + q[f][v]
<1>1. \A f \in Kinds : \A v \in Values : p[f][v] \in Int /\ q[f][v] \in Int
  BY FractionValues
<1>2. \A f \in Kinds : [v \in Values |-> p[f][v] + q[f][v]] \in [Values -> Int]
  BY <1>1
<1> QED  BY <1>2 DEF Times, Fractions, Kinds

\* One has no factors.
LEMMA OneType ==
    /\ One \in Fractions
    /\ \A f \in Kinds : \A v \in Values : One[f][v] = 0
  BY DEF One, Fractions, Kinds

\* The columns whose cells are multiplied, and those they are divided by
Above(f) == IF f = "beta" THEN input ELSE table
Below(f) == IF f = "beta" THEN pair.a ELSE pair.s

OneIf(b) == IF b THEN 1 ELSE 0

\* A row has one factor of each kind.
LEMMA FactorsType ==
    ASSUME NEW a, NEW s
    PROVE  /\ Factors(a, s) \in Fractions
           /\ \A f \in Kinds : \A v \in Values :
                 Factors(a, s)[f][v] = OneIf(v = IF f = "beta" THEN a ELSE s)
<1>1. \A f \in Kinds :
          [v \in Values |-> IF v = (IF f = "beta" THEN a ELSE s) THEN 1 ELSE 0] \in [Values -> Int]
  OBVIOUS
<1> QED  BY <1>1 DEF Factors, Fractions, Kinds, OneIf

\* Exponents of a quotient are subtracted.
LEMMA OverType ==
    ASSUME NEW p \in Fractions, NEW q \in Fractions
    PROVE  /\ Over(p, q) \in Fractions
           /\ \A f \in Kinds : \A v \in Values : Over(p, q)[f][v] = p[f][v] - q[f][v]
<1>1. PICK r : r = [f \in DOMAIN q |-> [v \in Values |-> -q[f][v]]]
  OBVIOUS
<1>2. DOMAIN q = Kinds /\ \A f \in Kinds : \A v \in Values : q[f][v] \in Int /\ p[f][v] \in Int
  BY FractionValues DEF Fractions, Kinds
<1>3. \A f \in Kinds : [v \in Values |-> -q[f][v]] \in [Values -> Int]
  BY <1>2
<1>4. r \in Fractions /\ \A f \in Kinds : \A v \in Values : r[f][v] = -q[f][v]
  BY <1>1, <1>2, <1>3 DEF Fractions, Kinds
<1>5. /\ Times(p, r) \in Fractions
      /\ \A f \in Kinds : \A v \in Values : Times(p, r)[f][v] = p[f][v] + r[f][v]
  BY <1>4, TimesType
<1>6. Over(p, q) = Times(p, r)
  BY <1>1 DEF Over
<1> QED  BY <1>2, <1>4, <1>5, <1>6

\* How often a value is among the first rows
Behind(col, i, v) == Cardinality({j \in 1..i : col[j] = v})

\* One more row counts one more or none.
LEMMA BehindNext ==
    ASSUME NEW i \in Nat, NEW col, NEW v
    PROVE  /\ Behind(col, i, v) \in Nat /\ Behind(col, 0, v) = 0
           /\ Behind(col, i + 1, v) = Behind(col, i, v) + OneIf(v = col[i + 1])
<1> DEFINE S == {j \in 1..i : col[j] = v}
           T == {j \in 1..(i + 1) : col[j] = v}
<1>1. IsFiniteSet(S) /\ Cardinality(S) \in Nat
  <2>1. S \in SUBSET (1..i)
    OBVIOUS
  <2> HIDE DEF S
  <2>2. IsFiniteSet(S) /\ Cardinality(S) \in 0..i
    BY <2>1, PlacesAreFinite
  <2> QED  BY <2>2
<1>2. Behind(col, 0, v) = 0
  <2>1. {j \in 1..0 : col[j] = v} = {}
    OBVIOUS
  <2> QED  BY <2>1, FS_EmptySet DEF Behind
<1>3. Cardinality(T) = Cardinality(S) + OneIf(v = col[i + 1])
  <2>1. CASE v = col[i + 1]
    <3>1. T = S \cup {i + 1} /\ i + 1 \notin S
      BY <2>1
    <3> HIDE DEF S, T
    <3> QED  BY <1>1, <2>1, <3>1, FS_AddElement DEF OneIf
  <2>2. CASE v # col[i + 1]
    <3>1. T = S
      BY <2>2
    <3> HIDE DEF S, T
    <3> QED  BY <1>1, <2>2, <3>1 DEF OneIf
  <2> QED  BY <2>1, <2>2
<1> QED  BY <1>1, <1>2, <1>3 DEF Behind

\* What the first rows multiply to
Ratio(i) ==
    [f \in Kinds |-> [v \in Values |-> Behind(Above(f), i, v) - Behind(Below(f), i, v)]]

Fraction(i) == Over(Factors(input[i], table[i]), Factors(pair.a[i], pair.s[i]))

\* A ratio of counts is a fraction.
LEMMA RatioType ==
    ASSUME NEW i \in Nat
    PROVE  /\ Ratio(i) \in Fractions
           /\ \A f \in Kinds : \A v \in Values :
                 Ratio(i)[f][v] = Behind(Above(f), i, v) - Behind(Below(f), i, v)
<1>1. \A f \in Kinds : \A v \in Values : Behind(Above(f), i, v) \in Nat /\ Behind(Below(f), i, v) \in Nat
  BY BehindNext
<1>2. \A f \in Kinds :
          [v \in Values |-> Behind(Above(f), i, v) - Behind(Below(f), i, v)] \in [Values -> Int]
  BY <1>1
<1> QED  BY <1>2 DEF Ratio, Fractions, Kinds

\* A row multiplies by its input and table and divides by its pair.
LEMMA FractionType ==
    /\ \A i : Fraction(i) \in Fractions
    /\ \A i : \A f \in Kinds : \A v \in Values :
          Fraction(i)[f][v] = OneIf(v = Above(f)[i]) - OneIf(v = Below(f)[i])
<1> SUFFICES ASSUME NEW i
             PROVE  /\ Fraction(i) \in Fractions
                    /\ \A f \in Kinds : \A v \in Values :
                          Fraction(i)[f][v] = OneIf(v = Above(f)[i]) - OneIf(v = Below(f)[i])
  OBVIOUS
<1>1. PICK p, q : p = Factors(input[i], table[i]) /\ q = Factors(pair.a[i], pair.s[i])
  OBVIOUS
<1>2. /\ p \in Fractions
      /\ \A f \in Kinds : \A v \in Values :
            p[f][v] = OneIf(v = IF f = "beta" THEN input[i] ELSE table[i])
  BY <1>1, FactorsType
<1>3. /\ q \in Fractions
      /\ \A f \in Kinds : \A v \in Values :
            q[f][v] = OneIf(v = IF f = "beta" THEN pair.a[i] ELSE pair.s[i])
  BY <1>1, FactorsType
<1>4. /\ Over(p, q) \in Fractions
      /\ \A f \in Kinds : \A v \in Values : Over(p, q)[f][v] = p[f][v] - q[f][v]
  BY <1>2, <1>3, OverType
<1>5. \A f \in Kinds : Above(f)[i] = (IF f = "beta" THEN input[i] ELSE table[i])
                       /\ Below(f)[i] = (IF f = "beta" THEN pair.a[i] ELSE pair.s[i])
  BY DEF Above, Below
<1> QED  BY <1>1, <1>2, <1>3, <1>4, <1>5 DEF Fraction

\* The ratio of the first rows grows by each row's fraction.
LEMMA RatioNext ==
    ASSUME NEW i \in Nat
    PROVE  Ratio(0) = One /\ Ratio(i + 1) = Times(Ratio(i), Fraction(i + 1))
<1>1. Ratio(0) = One
  <2>1. \A f \in Kinds : \A v \in Values : Ratio(0)[f][v] = One[f][v]
    <3>1. \A f \in Kinds : \A v \in Values : Behind(Above(f), 0, v) = 0 /\ Behind(Below(f), 0, v) = 0
      BY BehindNext
    <3> QED  BY <3>1, RatioType, OneType
  <2> QED  BY <2>1, RatioType, OneType, FractionsEqual
<1>2. Ratio(i + 1) = Times(Ratio(i), Fraction(i + 1))
  <2>1. PICK p, q, r : p = Ratio(i) /\ q = Fraction(i + 1) /\ r = Ratio(i + 1)
    OBVIOUS
  <2>2. /\ p \in Fractions /\ q \in Fractions /\ r \in Fractions
        /\ Times(p, q) \in Fractions
        /\ \A f \in Kinds : \A v \in Values : Times(p, q)[f][v] = p[f][v] + q[f][v]
    BY <2>1, RatioType, FractionType, TimesType
  <2>3. ASSUME NEW f \in Kinds, NEW v \in Values PROVE r[f][v] = p[f][v] + q[f][v]
    <3>1. PICK a, b, c, d : /\ a = Behind(Above(f), i, v) /\ b = Behind(Below(f), i, v)
                            /\ c = OneIf(v = Above(f)[i + 1]) /\ d = OneIf(v = Below(f)[i + 1])
      OBVIOUS
    <3>2. a \in Nat /\ b \in Nat /\ c \in Nat /\ d \in Nat
      BY <3>1, BehindNext DEF OneIf
    <3>3. p[f][v] = a - b /\ q[f][v] = c - d
      BY <2>1, <3>1, RatioType, FractionType
    <3>4. Behind(Above(f), i + 1, v) = a + c /\ Behind(Below(f), i + 1, v) = b + d
      BY <3>1, BehindNext
    <3>5. r[f][v] = (a + c) - (b + d)
      BY <2>1, <3>4, RatioType
    <3> QED  BY <3>2, <3>3, <3>5
  <2>4. r = Times(p, q)
    BY <2>2, <2>3, FractionsEqual
  <2> QED  BY <2>1, <2>4
<1> QED  BY <1>1, <1>2

(* ---------------------------- the inductive invariant -------------------------- *)

NoPair == [a |-> <<>>, s |-> <<>>]

Kinded ==
    /\ {parallel, pool} \subseteq BOOLEAN
    /\ input \in Inputs /\ table \in Tables
    /\ stage \in {"compressed", "permuted", "scanning", "done", "panic", "error"}
    /\ chunk \in 0..Usable /\ offset \in 0..Usable

\* A pair is right from the moment it is made, and nothing touches it after that.
Paired ==
    /\ stage \in {"compressed", "panic"} => pair = NoPair
    /\ stage \notin {"compressed", "panic"} => GoodPair(pair)
    /\ stage = "permuted" /\ pool => pair = SequentialPair
    /\ stage = "panic" => ~InTable

\* The rows that are scanned hold the running product, the others their fraction.
Scanned ==
    stage \in {"scanning", "done"} =>
        /\ chunk > 0
        /\ scan = [i \in Rows |-> IF i <= offset THEN Ratio(i) ELSE Fraction(i)]
        /\ stage = "done" => offset = Usable

LInv == Kinded /\ Paired /\ Scanned

\* The scan's length halved any number of times
LEMMA ChunkSizesType == \A x \in ChunkSizes : x \in 0..Usable
<1> DEFINE Step(f) == [k \in 0..Usable |-> IF k = 0 THEN Usable ELSE f[k - 1] \div 2]
           halved == CHOOSE f : f = Step(f)
<1>0. Usable \in Nat
  BY SizesAreNatural
<1>1. \E f : f = Step(f)
  <2>1. PICK step : step = [p \in Nat \X Nat |-> p[2] \div 2]
    OBVIOUS
  <2>2. step \in [Nat \X Nat -> Nat]
    BY <2>1
  <2>3. PICK f : IsRun(f, Nat, Usable, step, Usable)
    BY <1>0, <2>2, RunExists
  <2>4. f \in [0..Usable -> Nat] /\ f[0] = Usable /\ \A i \in 0..(Usable - 1) : f[i + 1] = step[<<i, f[i]>>]
    BY <2>3 DEF IsRun
  <2>5. ASSUME NEW k \in 0..Usable PROVE f[k] = IF k = 0 THEN Usable ELSE f[k - 1] \div 2
    <3>1. CASE k = 0
      BY <2>4, <3>1
    <3>2. CASE k # 0
      <4>1. k - 1 \in 0..(Usable - 1) /\ k - 1 \in 0..Usable /\ (k - 1) + 1 = k /\ k - 1 \in Nat
        BY <1>0, <3>2
      <4>2. f[k] = step[<<k - 1, f[k - 1]>>] /\ f[k - 1] \in Nat
        BY <2>4, <4>1
      <4> QED  BY <2>1, <3>2, <4>1, <4>2
    <3> QED  BY <3>1, <3>2
  <2>6. f = [k \in 0..Usable |-> f[k]]
    BY <2>4
  <2>7. f = Step(f)
    BY <2>5, <2>6
  <2> QED  BY <2>7
<1>2. halved = Step(halved)
  BY <1>1
<1>3. ChunkSizes = {halved[k] : k \in 0..Usable}
  BY DEF ChunkSizes, halved
<1> HIDE DEF halved
<1> DEFINE S == {k \in 0..Usable : halved[k] \in 0..Usable}
<1>4. 0 \in S
  BY <1>0, <1>2
<1>5. ASSUME NEW k \in 0..(Usable - 1), k \in S PROVE k + 1 \in S
  <2>1. k + 1 \in 0..Usable /\ k + 1 # 0 /\ (k + 1) - 1 = k
    BY <1>0
  <2>2. halved[k + 1] = halved[k] \div 2
    BY <1>2, <2>1
  <2>3. halved[k] \in 0..Usable
    BY <1>5
  <2>4. \A x \in 0..Usable : x \div 2 \in 0..Usable
    BY <1>0
  <2> QED  BY <2>1, <2>2, <2>3, <2>4
<1> HIDE DEF S
<1>6. 0..Usable \subseteq S
  BY <1>0, <1>4, <1>5, BoundedInduction
<1> QED  BY <1>3, <1>6 DEF S

\* Well kinded columns are those the theorems on pairs speak of.
LEMMA KindedGiven == Kinded => Given
  BY ColumnsAssumption, SizesAreNatural DEF Kinded, Given, Columns

\* Compressed columns satisfy the invariant.
LEMMA InitLInv == Init => LInv
<1> SUFFICES ASSUME Init PROVE LInv
  OBVIOUS
<1>1. Kinded
  BY SizesAreNatural DEF Init, Kinded
<1>2. Paired
  BY DEF Init, Paired, NoPair
<1>3. Scanned
  BY DEF Init, Scanned
<1> QED  BY <1>1, <1>2, <1>3 DEF LInv

\* What is said of a pair is said of the columns alone.
LEMMA SameColumns ==
    ASSUME UNCHANGED <<input, table>>
    PROVE  /\ InTable' <=> InTable
           /\ SequentialPair' = SequentialPair
           /\ \A p : GoodPair(p)' <=> GoodPair(p)
  BY DEF InTable, SequentialPair, GoodPair, Right, PermutationOf, LeftoverMap

\* The device's pair keeps the invariant.
LEMMA PermuteDeviceKeeps ==
    ASSUME LInv, PermuteDevice
    PROVE  LInv'
<1>1. /\ stage = "compressed" /\ pool
      /\ pair' = [a |-> Sort(input), s |-> Fill(Sort(input), Leftover)] /\ stage' = "permuted"
      /\ UNCHANGED <<parallel, pool, input, table, chunk, offset, scan>>
  BY DEF PermuteDevice, Permuted
<1>2. Given
  BY KindedGiven DEF LInv
<1>3. pair' = SequentialPair /\ GoodPair(pair')
  BY <1>1, <1>2, SortedPairIsGood
<1>4. Kinded'
  BY <1>1 DEF LInv, Kinded
<1>5. Paired'
  <2>1. SequentialPair' = SequentialPair /\ (GoodPair(pair') <=> GoodPair(pair)')
    BY <1>1, SameColumns
  <2> QED  BY <1>1, <1>3, <2>1 DEF Paired
<1>6. Scanned'
  BY <1>1 DEF Scanned
<1> QED  BY <1>4, <1>5, <1>6 DEF LInv

\* A failed device leaves the columns as they were.
LEMMA DeviceFailsKeeps ==
    ASSUME LInv, DeviceFails
    PROVE  LInv'
<1>1. /\ stage = "compressed" /\ pool' = FALSE
      /\ UNCHANGED <<parallel, input, table, pair, stage, chunk, offset, scan>>
  BY DEF DeviceFails
<1>2. Kinded'
  BY <1>1 DEF LInv, Kinded
<1>3. Paired'
  BY <1>1 DEF LInv, Paired
<1>4. Scanned'
  BY <1>1 DEF Scanned
<1> QED  BY <1>2, <1>3, <1>4 DEF LInv

\* If every input is in the table, the host's maps never run out.
LEMMA HostFindsAll ==
    ASSUME Given, InTable
    PROVE  AllFound /\ AllPopped
<1>1. /\ Usable \in Nat /\ DOMAIN table = 1..Usable /\ Rows = 1..Usable
  BY SizesAreNatural DEF Given, Columns
<1>2. AllFound
  <2>1. ASSUME NEW v \in Cells(input) PROVE Count(table, v) > 0
    <3>1. v \in Cells(table)
      BY DEF InTable
    <3>2. Count(table, v) \in 0..Usable /\ Count(table, v) # 0
      BY <1>1, <3>1, CountType
    <3> QED  BY <1>1, <3>2
  <2> QED  BY <2>1 DEF AllFound
<1>3. PICK a : a = Sort(input)
  OBVIOUS
<1>4. a \in Columns /\ DOMAIN a = 1..Usable /\ Grouped(a) /\ SameCounts(a, input)
  BY <1>3, SortedColumn DEF Given
<1>5. PICK m : m = Usable - Cardinality(Taken)
  OBVIOUS
<1>6. Cardinality(Repeats(a)) = m /\ Cardinality(Taken) \in 0..Usable
  BY <1>4, <1>5, RepeatsAreFilled
<1>7. Len(LeftoverMap) = m
  <2>1. IsLeftover(Leftover) /\ LeftoverMap = Leftover
    BY LeftoverIsLeft, LeftoversAgree
  <2>2. Leftover \in [1..m -> Values] /\ m \in Nat
    BY <1>1, <1>5, <1>6, <2>1 DEF IsLeftover
  <2> QED  BY <2>1, <2>2
<1>8. {i \in Rows : ~First(Sort(input), i)} = Repeats(a)
  BY <1>1, <1>3, <1>4 DEF Repeats
<1> QED  BY <1>2, <1>6, <1>7, <1>8 DEF AllPopped

\* The sequential pair, or its panic, keeps the invariant.
LEMMA PermuteSeqKeeps ==
    ASSUME LInv, PermuteSeq
    PROVE  LInv'
<1>1. /\ stage = "compressed" /\ ~pool
      /\ UNCHANGED <<parallel, pool, input, table, chunk, offset, scan>>
      /\ IF AllFound /\ AllPopped
         THEN pair' = [a |-> SequentialPair.a, s |-> SequentialPair.s] /\ stage' = "permuted"
         ELSE stage' = "panic" /\ pair' = pair
  BY DEF PermuteSeq, Permuted
<1>2. Given
  BY KindedGiven DEF LInv
<1>3. [a |-> SequentialPair.a, s |-> SequentialPair.s] = SequentialPair /\ GoodPair(SequentialPair)
  <2>1. GoodPair(SequentialPair)
    BY <1>2, SortedPairIsGood
  <2> QED  BY <2>1 DEF SequentialPair
<1>4. InTable => AllFound /\ AllPopped
  BY <1>2, HostFindsAll
<1>5. (InTable' <=> InTable) /\ (GoodPair(pair') <=> GoodPair(pair)')
  BY <1>1, SameColumns
<1>6. Kinded'
  BY <1>1 DEF LInv, Kinded
<1>7. Paired'
  <2>1. CASE AllFound /\ AllPopped
    BY <1>1, <1>3, <1>5, <2>1 DEF Paired
  <2>2. CASE ~(AllFound /\ AllPopped)
    <3>1. pair = NoPair
      BY <1>1 DEF LInv, Paired
    <3> QED  BY <1>1, <1>4, <1>5, <2>2, <3>1 DEF Paired, NoPair
  <2> QED  BY <2>1, <2>2
<1>8. Scanned'
  BY <1>1 DEF Scanned
<1> QED  BY <1>6, <1>7, <1>8 DEF LInv

\* The parallel pair keeps the invariant.
LEMMA PermuteParKeeps ==
    ASSUME LInv, PermutePar
    PROVE  LInv'
<1>1. ~pool /\ UNCHANGED <<parallel, pool, input, table, chunk, offset, scan>>
  BY DEF PermutePar
<1>2. stage' = "permuted" /\ GoodPair(pair')
  BY PermutePairs, KindedGiven DEF LInv
<1>3. GoodPair(pair') <=> GoodPair(pair)'
  BY <1>1, SameColumns
<1>4. Kinded'
  BY <1>1, <1>2 DEF LInv, Kinded
<1>5. Paired'
  BY <1>1, <1>2, <1>3 DEF Paired
<1>6. Scanned'
  BY <1>2 DEF Scanned
<1> QED  BY <1>4, <1>5, <1>6 DEF LInv

\* The product's rows depend on the columns and the pair alone.
LEMMA SameRatios ==
    ASSUME UNCHANGED <<input, table, pair>>
    PROVE  \A i : Ratio(i)' = Ratio(i) /\ Fraction(i)' = Fraction(i)
  BY DEF Ratio, Fraction, Above, Below

\* The fractions laid out for the scan keep the invariant.
LEMMA LookupProductKeeps ==
    ASSUME LInv, LookupProduct
    PROVE  LInv'
<1>1. /\ stage = "permuted" /\ chunk' \in ChunkSizes /\ offset' = 0
      /\ stage' = (IF chunk' = 0 THEN "error" ELSE "scanning")
      /\ UNCHANGED <<parallel, pool, input, table, pair>>
  BY DEF LookupProduct
<1>2. scan' = [i \in Rows |-> Fraction(i)]
  BY DEF LookupProduct, Fraction
<1>3. chunk' \in 0..Usable /\ Usable \in Nat
  BY <1>1, ChunkSizesType, SizesAreNatural
<1>4. (InTable' <=> InTable) /\ (GoodPair(pair') <=> GoodPair(pair)')
  BY <1>1, SameColumns
<1>5. Kinded'
  BY <1>1, <1>3 DEF LInv, Kinded
<1>6. Paired'
  BY <1>1, <1>4 DEF LInv, Paired
<1>7. Scanned'
  <2>1. \A i : Ratio(i)' = Ratio(i) /\ Fraction(i)' = Fraction(i)
    BY <1>1, SameRatios
  <2>2. \A i \in Rows : ~(i <= offset')
    BY <1>1, <1>3, SizesAreNatural
  <2>3. scan' = [i \in Rows |-> IF i <= offset' THEN Ratio(i)' ELSE Fraction(i)']
    BY <1>2, <2>1, <2>2
  <2>4. stage' \in {"scanning", "done"} => chunk' > 0 /\ stage' # "done"
    BY <1>1, <1>3
  <2> QED  BY <2>3, <2>4 DEF Scanned
<1> QED  BY <1>5, <1>6, <1>7 DEF LInv

\* run multiplies the elements of row behind o, up to u.
Multiplies(run, o, u, start, row) ==
    run = [i \in o..u |-> IF i = o THEN start ELSE Times(run[i - 1], row[i])]

\* One launch turns the next fractions into running products: an induction along its rows.
LEMMA RunIsRatio ==
    ASSUME NEW o \in Nat, NEW u \in Nat, o <= u, NEW start, start = Ratio(o), NEW row,
           \A i \in (o + 1)..u : row[i] = Fraction(i),
           NEW run, Multiplies(run, o, u, start, row)
    PROVE  \A i \in o..u : run[i] = Ratio(i)
<1> USE DEF Multiplies
<1>1. PICK w : w = u - o
  OBVIOUS
<1>2. w \in Nat /\ o + w = u
  BY <1>1
<1> DEFINE S == {k \in 0..w : run[o + k] = Ratio(o + k)}
<1>3. 0 \in S
  <2>1. o + 0 = o /\ o \in o..u /\ 0 \in 0..w
    BY <1>2
  <2>2. run[o] = start
    BY <2>1
  <2> QED  BY <2>1, <2>2
<1>4. ASSUME NEW k \in 0..(w - 1), k \in S PROVE k + 1 \in S
  <2>1. PICK i : i = o + k
    OBVIOUS
  <2>2. /\ i \in Nat /\ i + 1 \in o..u /\ i + 1 \in (o + 1)..u /\ i + 1 # o /\ (i + 1) - 1 = i
        /\ o + (k + 1) = i + 1 /\ k + 1 \in 0..w
    BY <1>2, <2>1
  <2>3. run[i + 1] = Times(run[i], row[i + 1])
    BY <2>2
  <2>4. run[i] = Ratio(i) /\ row[i + 1] = Fraction(i + 1)
    BY <1>4, <2>1, <2>2
  <2>5. run[i + 1] = Ratio(i + 1)
    BY <2>2, <2>3, <2>4, RatioNext
  <2> QED  BY <2>2, <2>5
<1> HIDE DEF S
<1>5. 0..w \subseteq S
  BY <1>2, <1>3, <1>4, BoundedInduction
<1>6. ASSUME NEW i \in o..u PROVE run[i] = Ratio(i)
  <2>1. i - o \in 0..w /\ o + (i - o) = i
    BY <1>2
  <2>2. i - o \in S
    BY <1>5, <2>1
  <2>3. run[o + (i - o)] = Ratio(o + (i - o))
    BY <2>2 DEF S
  <2> QED  BY <2>1, <2>3
<1> QED  BY <1>6

\* The smaller of two numbers.
LEMMA MinOfTwo ==
    ASSUME NEW x \in Int, NEW y \in Int
    PROVE  Min({x, y}) = IF x <= y THEN x ELSE y
<1>1. \A z \in {x, y} : z = x \/ z = y
  OBVIOUS
<1>2. PICK m : m = IF x <= y THEN x ELSE y
  OBVIOUS
<1>3. m \in {x, y} /\ \A z \in {x, y} : m <= z
  BY <1>2
<1>4. Min({x, y}) = CHOOSE k \in {x, y} : \A z \in {x, y} : k <= z
  BY DEF Min
<1>5. Min({x, y}) \in {x, y} /\ \A z \in {x, y} : Min({x, y}) <= z
  BY <1>3, <1>4
<1> QED  BY <1>2, <1>3, <1>5

\* A chunk of the scan goes on from the row before it, however long it is.
LEMMA ScanChunkKeeps ==
    ASSUME LInv, ScanChunk
    PROVE  LInv'
<1>1. /\ Kinded /\ stage = "scanning" /\ chunk > 0 /\ chunk \in 0..Usable /\ offset \in 0..Usable
      /\ scan = [i \in Rows |-> IF i <= offset THEN Ratio(i) ELSE Fraction(i)]
      /\ Usable \in Nat /\ Rows = 1..Usable /\ AccLen - 1 = Usable
  BY SizesAreNatural DEF LInv, Kinded, Scanned, ScanChunk
<1>2. PICK u : u = Min({offset + chunk, AccLen - 1})
  OBVIOUS
<1>3. u \in 0..Usable /\ u \in Nat /\ offset \in Nat /\ offset <= u
  <2>1. offset + chunk \in Int /\ Usable \in Int
    BY <1>1
  <2>2. u = IF offset + chunk <= Usable THEN offset + chunk ELSE Usable
    BY <1>1, <1>2, <2>1, MinOfTwo
  <2> QED  BY <1>1, <2>2
<1> DEFINE Step(f) == [i \in offset..u |->
                          IF i = offset THEN Prefix ELSE Times(f[i - 1], scan[i])]
           run == CHOOSE f : f = Step(f)
<1>4. /\ scan' = [i \in Rows |-> IF i \in (offset + 1)..u THEN run[i] ELSE scan[i]]
      /\ offset' = u /\ stage' = (IF u = Usable THEN "done" ELSE "scanning")
      /\ UNCHANGED <<parallel, pool, input, table, pair, chunk>>
  BY <1>1, <1>2 DEF ScanChunk, run
<1>5. Prefix = Ratio(offset)
  <2>1. CASE offset = 0
    <3>1. Ratio(0) = One
      BY RatioNext
    <3> QED  BY <2>1, <3>1 DEF Prefix
  <2>2. CASE offset # 0
    <3>1. offset \in Rows /\ offset <= offset
      BY <1>1, <2>2
    <3> QED  BY <1>1, <2>2, <3>1 DEF Prefix
  <2> QED  BY <2>1, <2>2
<1>6. \A i \in (offset + 1)..u : scan[i] = Fraction(i)
  <2>1. ASSUME NEW i \in (offset + 1)..u PROVE i \in Rows /\ ~(i <= offset)
    BY <1>1, <1>3
  <2> QED  BY <1>1, <2>1
<1>7. run = Step(run)
  <2>1. PICK g : g = [i \in offset..u |-> Ratio(i)]
    OBVIOUS
  <2>2. ASSUME NEW i \in offset..u
        PROVE  g[i] = IF i = offset THEN Prefix ELSE Times(g[i - 1], scan[i])
    <3>1. CASE i = offset
      BY <1>5, <2>1, <3>1
    <3>2. CASE i # offset
      <4>1. i - 1 \in offset..u /\ i \in (offset + 1)..u /\ i - 1 \in Nat /\ (i - 1) + 1 = i
        BY <1>3, <3>2
      <4>2. Ratio((i - 1) + 1) = Times(Ratio(i - 1), Fraction((i - 1) + 1))
        BY <4>1, RatioNext
      <4>3. g[i - 1] = Ratio(i - 1) /\ g[i] = Ratio(i) /\ scan[i] = Fraction(i)
        BY <1>6, <2>1, <4>1
      <4> QED  BY <3>2, <4>1, <4>2, <4>3
    <3> QED  BY <3>1, <3>2
  <2>3. g = Step(g)
    BY <2>1, <2>2
  <2> QED  BY <2>3
<1> HIDE DEF run
<1>8. \A i \in offset..u : run[i] = Ratio(i)
  <2>1. PICK row, start : row = scan /\ start = Prefix
    OBVIOUS
  <2>2. Multiplies(run, offset, u, start, row)
    BY <1>7, <2>1 DEF Multiplies
  <2>3. start = Ratio(offset) /\ \A i \in (offset + 1)..u : row[i] = Fraction(i)
    BY <1>5, <1>6, <2>1
  <2>4. offset \in Nat /\ u \in Nat /\ offset <= u
    BY <1>3
  <2> QED  BY ONLY <2>2, <2>3, <2>4, RunIsRatio
<1>9. scan' = [i \in Rows |-> IF i <= u THEN Ratio(i) ELSE Fraction(i)]
  <2>1. ASSUME NEW i \in Rows
        PROVE  (IF i \in (offset + 1)..u THEN run[i] ELSE scan[i])
                   = IF i <= u THEN Ratio(i) ELSE Fraction(i)
    <3>1. CASE i \in (offset + 1)..u
      <4>1. i \in offset..u /\ i <= u
        BY <1>3, <3>1
      <4> QED  BY <1>8, <3>1, <4>1
    <3>2. CASE i \notin (offset + 1)..u
      <4>1. i <= offset <=> i <= u
        BY <1>1, <1>3, <3>2
      <4> QED  BY <1>1, <3>2, <4>1
    <3> QED  BY <3>1, <3>2
  <2> QED  BY <1>4, <2>1
<1>10. Kinded'
  BY <1>1, <1>3, <1>4 DEF Kinded
<1>11. Paired'
  <2>1. (InTable' <=> InTable) /\ (GoodPair(pair') <=> GoodPair(pair)')
    BY <1>4, SameColumns
  <2> QED  BY <1>1, <1>4, <2>1 DEF LInv, Paired
<1>12. Scanned'
  <2>1. \A i : Ratio(i)' = Ratio(i) /\ Fraction(i)' = Fraction(i)
    BY <1>4, SameRatios
  <2>2. scan' = [i \in Rows |-> IF i <= offset' THEN Ratio(i)' ELSE Fraction(i)']
    BY <1>4, <1>9, <2>1
  <2>3. chunk' > 0 /\ (stage' = "done" => offset' = Usable)
    BY <1>1, <1>4
  <2> QED  BY <2>2, <2>3 DEF Scanned
<1> QED  BY <1>10, <1>11, <1>12 DEF LInv

\* Every step keeps the invariant.
LEMMA NextLInv == LInv /\ [Next]_vars => LInv'
<1> SUFFICES ASSUME LInv, [Next]_vars PROVE LInv'
  OBVIOUS
<1>1. CASE PermuteDevice
  BY <1>1, PermuteDeviceKeeps
<1>2. CASE DeviceFails
  BY <1>2, DeviceFailsKeeps
<1>3. CASE PermuteSeq
  BY <1>3, PermuteSeqKeeps
<1>4. CASE PermutePar
  BY <1>4, PermuteParKeeps
<1>5. CASE LookupProduct
  BY <1>5, LookupProductKeeps
<1>6. CASE ScanChunk
  BY <1>6, ScanChunkKeeps
<1>7. CASE UNCHANGED vars
  <2>1. UNCHANGED <<parallel, pool, input, table, pair, stage, chunk, offset, scan>>
    BY <1>7 DEF vars
  <2>2. (InTable' <=> InTable) /\ SequentialPair' = SequentialPair
        /\ (GoodPair(pair') <=> GoodPair(pair)')
    BY <2>1, SameColumns
  <2>3. \A i : Ratio(i)' = Ratio(i) /\ Fraction(i)' = Fraction(i)
    BY <2>1, SameRatios
  <2>4. Kinded'
    BY <2>1 DEF LInv, Kinded
  <2>5. Paired'
    BY <2>1, <2>2 DEF LInv, Paired
  <2>6. Scanned'
    BY <2>1, <2>3 DEF LInv, Scanned
  <2> QED  BY <2>4, <2>5, <2>6 DEF LInv
<1> QED  BY <1>1, <1>2, <1>3, <1>4, <1>5, <1>6, <1>7 DEF Next

\* In every state, the pair is right once it is made, and the scanned rows hold the
\* running product of the fractions: the inductive invariant.
THEOREM LookupInvariance == Spec => []LInv
  BY InitLInv, NextLInv, PTL DEF Spec

\* The invariant holds the types.
LEMMA LInvTypeOK == LInv => TypeOK
<1> SUFFICES ASSUME LInv PROVE TypeOK
  OBVIOUS
<1>1. Kinded /\ Paired /\ Scanned /\ Usable \in Nat /\ Rows = 1..Usable
  BY SizesAreNatural DEF LInv
<1>2. IF stage \in {"compressed", "panic"} THEN pair = [a |-> <<>>, s |-> <<>>]
      ELSE pair.a \in [Rows -> Values] /\ pair.s \in [Rows -> Values]
  BY <1>1 DEF Paired, NoPair, GoodPair, Columns
<1>3. stage \in {"scanning", "done"} => \A i \in Rows : scan[i] \in Fractions
  <2>1. ASSUME NEW i \in Rows PROVE Ratio(i) \in Fractions /\ Fraction(i) \in Fractions
    <3>1. i \in Nat
      BY <1>1
    <3> QED  BY <3>1, RatioType, FractionType
  <2> QED  BY <1>1, <2>1 DEF Scanned
<1> QED  BY <1>1, <1>2, <1>3 DEF TypeOK, Kinded

\* The type invariant of the lookup: a pair is two columns of values, and every
\* scanned row is a fraction.
THEOREM LookupTypeCorrect == Spec => []TypeOK
  BY LookupInvariance, LInvTypeOK, PTL

\* permute_expression_pair's promise, for every domain and every pair of columns: both
\* host builds and the device place each cell of A and S exactly once, like values of A'
\* adjacent and the first of them beside its like in S'.
THEOREM PairsArePermuted == Spec => []PairIsPermuted
<1>1. LInv => PairIsPermuted
  <2> SUFFICES ASSUME LInv, stage = "permuted", InTable
               PROVE  /\ PermutationOf(pair.a, input)
                      /\ PermutationOf(pair.s, table)
                      /\ \A i \in Rows : First(pair.a, i) =>
                            /\ pair.a[i] = pair.s[i]
                            /\ \A j \in 1..(i - 1) : pair.a[j] # pair.a[i]
    BY DEF PairIsPermuted
  <2>1. GoodPair(pair)
    BY DEF LInv, Paired
  <2> QED  BY <2>1 DEF GoodPair, Right
<1> QED  BY <1>1, LookupInvariance, PTL

\* The kernels' flags and the host's maps leave the same leftover values in the same
\* rows, for every pair of columns.
THEOREM DevicePairIsSequential == Spec => []DeviceIsSequential
<1>1. LInv => DeviceIsSequential
  BY DEF LInv, Paired, DeviceIsSequential
<1> QED  BY <1>1, LookupInvariance, PTL

\* No slice of the parallel build is ever out of range, and the sequential build's
\* unwraps and its assertion only fail on an input that is not in the table.
THEOREM OnlyMissingPanics == Spec => []PanicsOnlyOnMissing
<1>1. LInv => PanicsOnlyOnMissing
  BY DEF LInv, Paired, PanicsOnlyOnMissing
<1> QED  BY <1>1, LookupInvariance, PTL

(* ------------------------------- the verifier ---------------------------------- *)

\* The verifier's constraints on the committed product come down to this of the pair.
Passes ==
    /\ PermutationOf(pair.a, input) /\ PermutationOf(pair.s, table)
    /\ pair.a[1] = pair.s[1]
    /\ \A i \in Rows : pair.a[i] = pair.s[i] \/ pair.a[i] = (IF i = 1 THEN 0 ELSE pair.a[i - 1])

\* The product ends in one exactly when the pair permutes the columns.
LEMMA FinalRatio ==
    ASSUME Given, pair.a \in Columns, pair.s \in Columns
    PROVE  Ratio(Usable) = One <=> PermutationOf(pair.a, input) /\ PermutationOf(pair.s, table)
<1>1. Usable \in Nat
  BY SizesAreNatural
<1>2. \A col \in Columns : \A v : Behind(col, Usable, v) = Count(col, v) /\ Behind(col, Usable, v) \in Nat
  <2>1. ASSUME NEW col \in Columns, NEW v
        PROVE  Behind(col, Usable, v) = Count(col, v) /\ Behind(col, Usable, v) \in Nat
    <3>1. DOMAIN col = 1..Usable
      BY DEF Columns
    <3>2. Behind(col, Usable, v) \in Nat
      BY <1>1, BehindNext
    <3> QED  BY <3>1, <3>2 DEF Behind, Count
  <2> QED  BY <2>1
<1>3. \A f \in Kinds : Above(f) \in Columns /\ Below(f) \in Columns
  BY DEF Given, Above, Below
<1>4. \A f \in Kinds : \A v \in Values :
          Ratio(Usable)[f][v] = One[f][v] <=> Count(Above(f), v) = Count(Below(f), v)
  <2>1. ASSUME NEW f \in Kinds, NEW v \in Values
        PROVE  Ratio(Usable)[f][v] = One[f][v] <=> Count(Above(f), v) = Count(Below(f), v)
    <3>1. PICK x, y : x = Behind(Above(f), Usable, v) /\ y = Behind(Below(f), Usable, v)
      OBVIOUS
    <3>2. x \in Nat /\ y \in Nat /\ x = Count(Above(f), v) /\ y = Count(Below(f), v)
      BY <1>2, <1>3, <3>1
    <3>3. Ratio(Usable)[f][v] = x - y /\ One[f][v] = 0
      BY <1>1, <3>1, RatioType, OneType
    <3> QED  BY <3>2, <3>3
  <2> QED  BY <2>1
<1>5. Ratio(Usable) = One <=>
          \A f \in Kinds : \A v \in Values : Count(Above(f), v) = Count(Below(f), v)
  <2>1. Ratio(Usable) \in Fractions /\ One \in Fractions
    BY <1>1, RatioType, OneType
  <2>2. (\A f \in Kinds : \A v \in Values : Ratio(Usable)[f][v] = One[f][v]) => Ratio(Usable) = One
    BY <2>1, FractionsEqual
  <2> QED  BY <1>4, <2>2
<1>6. Above("beta") = input /\ Above("gamma") = table /\ Below("beta") = pair.a /\ Below("gamma") = pair.s
  BY DEF Above, Below
<1>7. (\A f \in Kinds : \A v \in Values : Count(Above(f), v) = Count(Below(f), v)) <=>
          /\ \A v \in Values : Count(Above("beta"), v) = Count(Below("beta"), v)
          /\ \A v \in Values : Count(Above("gamma"), v) = Count(Below("gamma"), v)
  BY DEF Kinds
<1> QED  BY <1>5, <1>6, <1>7 DEF PermutationOf

\* On the scanned product, the verifier's constraints come down to Passes.
LEMMA AcceptsPasses ==
    ASSUME LInv, stage = "done"
    PROVE  Accepts <=> Passes
<1>1. /\ Usable \in Nat /\ Usable > 0 /\ Rows = 1..Usable /\ AccLen = Usable + 1
      /\ Given /\ GoodPair(pair) /\ offset = Usable
      /\ scan = [i \in Rows |-> IF i <= offset THEN Ratio(i) ELSE Fraction(i)]
  BY SizesAreNatural, KindedGiven DEF LInv, Paired, Scanned
<1>2. pair.a \in Columns /\ pair.s \in Columns
  BY <1>1 DEF GoodPair
<1>3. \A i \in 1..AccLen : Z[i] = Ratio(i - 1)
  <2>1. ASSUME NEW i \in 1..AccLen PROVE Z[i] = Ratio(i - 1)
    <3>1. Z[i] = IF i = 1 THEN One ELSE scan[i - 1]
      BY DEF Z
    <3>2. CASE i = 1
      <4>1. Ratio(0) = One /\ i - 1 = 0
        BY <3>2, RatioNext
      <4> QED  BY <3>1, <3>2, <4>1
    <3>3. CASE i # 1
      <4>1. i - 1 \in Rows /\ i - 1 <= offset
        BY <1>1, <3>3
      <4>2. scan[i - 1] = Ratio(i - 1)
        BY <1>1, <4>1
      <4> QED  BY <3>1, <3>3, <4>2
    <3> QED  BY <3>2, <3>3
  <2> QED  BY <2>1
<1>4. Z[1] = One /\ Z[AccLen] = Ratio(Usable)
  <2>1. 1 \in 1..AccLen /\ AccLen \in 1..AccLen /\ AccLen - 1 = Usable
    BY <1>1
  <2> QED  BY <1>3, <2>1 DEF Z
<1>5. ASSUME NEW i \in Rows
      PROVE  Times(Z[i + 1], Factors(pair.a[i], pair.s[i])) = Times(Z[i], Factors(input[i], table[i]))
  <2>1. i \in 1..AccLen /\ i + 1 \in 1..AccLen /\ (i + 1) - 1 = i /\ i - 1 \in Nat /\ (i - 1) + 1 = i
        /\ i \in Nat
    BY <1>1
  <2>2. PICK p, q, x, y, r : /\ p = Ratio(i - 1) /\ q = Ratio(i) /\ r = Fraction(i)
                             /\ x = Factors(input[i], table[i]) /\ y = Factors(pair.a[i], pair.s[i])
    OBVIOUS
  <2>3. Z[i] = p /\ Z[i + 1] = q
    BY <1>3, <2>1, <2>2
  <2>4. q = Times(p, r)
    <3>1. Ratio((i - 1) + 1) = Times(Ratio(i - 1), Fraction((i - 1) + 1))
      BY <2>1, RatioNext
    <3> QED  BY <2>1, <2>2, <3>1
  <2>5. r = Over(x, y)
    BY <2>2 DEF Fraction
  <2>6. p \in Fractions /\ q \in Fractions /\ r \in Fractions /\ x \in Fractions /\ y \in Fractions
    BY <2>1, <2>2, RatioType, FractionType, FactorsType
  <2>7. /\ Times(q, y) \in Fractions /\ Times(p, x) \in Fractions
        /\ \A f \in Kinds : \A v \in Values :
              /\ Times(q, y)[f][v] = q[f][v] + y[f][v] /\ Times(p, x)[f][v] = p[f][v] + x[f][v]
              /\ Times(p, r)[f][v] = p[f][v] + r[f][v] /\ Over(x, y)[f][v] = x[f][v] - y[f][v]
    BY <2>6, TimesType, OverType
  <2>8. ASSUME NEW f \in Kinds, NEW v \in Values PROVE Times(q, y)[f][v] = Times(p, x)[f][v]
    <3>1. PICK a, b, c : a = p[f][v] /\ b = x[f][v] /\ c = y[f][v]
      OBVIOUS
    <3>2. a \in Int /\ b \in Int /\ c \in Int
      BY <2>6, <3>1, FractionValues
    <3>3. q[f][v] = a + (b - c) /\ Times(q, y)[f][v] = q[f][v] + c /\ Times(p, x)[f][v] = a + b
      BY <2>4, <2>5, <2>7, <3>1
    <3> QED  BY <3>2, <3>3
  <2>9. Times(q, y) = Times(p, x)
    BY <2>7, <2>8, FractionsEqual
  <2> QED  BY <2>2, <2>3, <2>9
<1>6. Ratio(Usable) = One <=> PermutationOf(pair.a, input) /\ PermutationOf(pair.s, table)
  BY <1>1, <1>2, FinalRatio
<1> QED  BY <1>4, <1>5, <1>6 DEF Accepts, Passes

\* A right pair passes exactly when every input is in the table.
LEMMA PassesExactlyInTable ==
    ASSUME Given, GoodPair(pair)
    PROVE  Passes <=> InTable
<1>1. /\ Usable \in Nat /\ Usable > 0 /\ Rows = 1..Usable
      /\ pair.a \in Columns /\ pair.s \in Columns
      /\ DOMAIN pair.a = 1..Usable /\ DOMAIN pair.s = 1..Usable
      /\ DOMAIN input = 1..Usable /\ DOMAIN table = 1..Usable
  BY SizesAreNatural DEF GoodPair, Given, Columns
<1>2. ASSUME InTable PROVE Passes
  <2>1. Right(pair)
    BY <1>2 DEF GoodPair
  <2>2. \A i \in Rows : First(pair.a, i) => pair.a[i] = pair.s[i]
    BY <2>1 DEF Right
  <2>3. pair.a[1] = pair.s[1]
    BY <1>1, <2>2 DEF First
  <2>4. ASSUME NEW i \in Rows
        PROVE  pair.a[i] = pair.s[i] \/ pair.a[i] = (IF i = 1 THEN 0 ELSE pair.a[i - 1])
    BY <2>2 DEF First
  <2> QED  BY <2>1, <2>3, <2>4 DEF Passes, Right
<1>3. ASSUME Passes PROVE InTable
  <2>1. ASSUME NEW v \in Cells(input) PROVE v \in Cells(table)
    <3>1. v \in Values
      BY DEF Cells, ToSet, Given, Columns
    <3>2. Count(pair.a, v) = Count(input, v) /\ Count(pair.s, v) = Count(table, v)
      BY <1>3, <3>1 DEF Passes, PermutationOf
    <3>3. v \in Cells(pair.a)
      BY <1>1, <3>2, CountType
    <3>4. PICK i \in 1..Usable : First(pair.a, i) /\ pair.a[i] = v
      BY <1>1, <3>3, FirstOfEach
    <3>5. pair.a[i] = pair.s[i]
      <4>1. CASE i = 1
        BY <1>3, <4>1 DEF Passes
      <4>2. CASE i # 1
        BY <1>1, <1>3, <3>4, <4>2 DEF Passes, First
      <4> QED  BY <4>1, <4>2
    <3>6. v \in Cells(pair.s)
      BY <1>1, <3>4, <3>5 DEF Cells, ToSet
    <3> QED  BY <1>1, <3>2, <3>6, CountType
  <2> QED  BY <2>1 DEF InTable
<1> QED  BY <1>2, <1>3

\* However the pair was made and the scan was cut, the verifier accepts the committed
\* product exactly if every input is in the table: for every domain, set of values,
\* input and table.
THEOREM AcceptsLookups == Spec => []AcceptsExactlyLookups
<1>1. LInv => AcceptsExactlyLookups
  <2> SUFFICES ASSUME LInv, stage = "done" PROVE Accepts <=> InTable
    BY DEF AcceptsExactlyLookups
  <2>1. Given /\ GoodPair(pair)
    BY KindedGiven DEF LInv, Paired
  <2> QED  BY <2>1, AcceptsPasses, PassesExactlyInTable
<1> QED  BY <1>1, LookupInvariance, PTL
================================================================================
