---------------------------- MODULE MultiopenProofs ----------------------------
(* Proofs about Multiopen, for every field, every domain, every set of           *)
(* polynomials and queries and every order of the hash sets: the prover's        *)
(* divisions are exact, and the pairing check adds up to the errors of the       *)
(* claims and to nothing else.                                                   *)
EXTENDS Multiopen, DataInduction, FiniteSetTheorems, TLAPS

(* ---------------------------------- the field ------------------------------- *)

\* The field is closed under its operations.
LEMMA Closed ==
    /\ Zero \in Field /\ One \in Field /\ Zero # One
    /\ \A a, b \in Field : /\ Plus(a, b) \in Field /\ Times(a, b) \in Field
                           /\ Less(a, b) \in Field /\ Negative(a) \in Field
    /\ \A a \in Field : a # Zero => Invert(a) \in Field
<1>1. /\ Zero \in Field /\ One \in Field /\ Zero # One
      /\ \A a, b \in Field : Plus(a, b) \in Field /\ Times(a, b) \in Field
      /\ \A a \in Field : Negative(a) \in Field
      /\ \A a \in Field : a # Zero => Invert(a) \in Field
  BY FieldAssumption
<1>2. \A a, b \in Field : Less(a, b) \in Field
  BY <1>1 DEF Less
<1> QED  BY <1>1, <1>2

\* Its laws, one by one.
LEMMA Laws ==
    /\ \A a, b \in Field : Plus(a, b) = Plus(b, a) /\ Times(a, b) = Times(b, a)
    /\ \A a, b, c \in Field : Plus(Plus(a, b), c) = Plus(a, Plus(b, c))
    /\ \A a, b, c \in Field : Times(Times(a, b), c) = Times(a, Times(b, c))
    /\ \A a, b, c \in Field : Times(a, Plus(b, c)) = Plus(Times(a, b), Times(a, c))
    /\ \A a \in Field : Plus(a, Zero) = a /\ Plus(Zero, a) = a
    /\ \A a \in Field : Times(a, One) = a /\ Times(One, a) = a
    /\ \A a \in Field : Plus(a, Negative(a)) = Zero
<1>1. \A a, b \in Field : Plus(a, b) = Plus(b, a) /\ Times(a, b) = Times(b, a)
  BY FieldAssumption
<1>2. \A a, b, c \in Field : Plus(Plus(a, b), c) = Plus(a, Plus(b, c))
  BY FieldAssumption
<1>3. \A a, b, c \in Field : Times(Times(a, b), c) = Times(a, Times(b, c))
  BY FieldAssumption
<1>4. \A a, b, c \in Field : Times(a, Plus(b, c)) = Plus(Times(a, b), Times(a, c))
  BY FieldAssumption
<1>5. \A a \in Field : Plus(a, Negative(a)) = Zero
  BY FieldAssumption
<1>6. \A a \in Field : Plus(a, Zero) = a /\ Times(a, One) = a
  BY FieldAssumption
<1>7. \A a \in Field : Plus(Zero, a) = a /\ Times(One, a) = a
  BY <1>1, <1>6, Closed
<1> QED  BY ONLY <1>1, <1>2, <1>3, <1>4, <1>5, <1>6, <1>7

\* A summand, or a factor, moved to the front.
LEMMA Swap ==
    ASSUME NEW a \in Field, NEW b \in Field, NEW c \in Field
    PROVE  /\ Plus(a, Plus(b, c)) = Plus(b, Plus(a, c))
           /\ Times(a, Times(b, c)) = Times(b, Times(a, c))
<1>1. Plus(Plus(a, b), c) = Plus(a, Plus(b, c)) /\ Plus(Plus(b, a), c) = Plus(b, Plus(a, c))
  BY Laws
<1>2. Times(Times(a, b), c) = Times(a, Times(b, c)) /\ Times(Times(b, a), c) = Times(b, Times(a, c))
  BY Laws
<1>3. Plus(a, b) = Plus(b, a) /\ Times(a, b) = Times(b, a)
  BY Laws
<1> QED  BY ONLY <1>1, <1>2, <1>3

\* The summands of two sums paired anew.
LEMMA Exchange ==
    ASSUME NEW a \in Field, NEW b \in Field, NEW c \in Field, NEW d \in Field
    PROVE  Plus(Plus(a, b), Plus(c, d)) = Plus(Plus(a, c), Plus(b, d))
<1>1. Plus(b, d) \in Field /\ Plus(c, d) \in Field
  BY Closed
<1>2. Plus(Plus(a, b), Plus(c, d)) = Plus(a, Plus(b, Plus(c, d)))
  BY <1>1, Laws
<1>3. Plus(Plus(a, c), Plus(b, d)) = Plus(a, Plus(c, Plus(b, d)))
  BY <1>1, Laws
<1>4. Plus(b, Plus(c, d)) = Plus(c, Plus(b, d))
  BY Swap
<1> QED  BY ONLY <1>2, <1>3, <1>4

\* Summands cancel.
LEMMA CancelPlus ==
    ASSUME NEW a \in Field, NEW b \in Field, NEW c \in Field, Plus(a, b) = Plus(a, c)
    PROVE  b = c
<1>1. Negative(a) \in Field
  BY Closed
<1>2. Plus(Negative(a), Plus(a, b)) = Plus(Plus(Negative(a), a), b)
  BY <1>1, Laws
<1>3. Plus(Negative(a), Plus(a, c)) = Plus(Plus(Negative(a), a), c)
  BY <1>1, Laws
<1>4. Plus(Negative(a), a) = Zero
  BY <1>1, Laws
<1>5. Plus(Zero, b) = b /\ Plus(Zero, c) = c
  BY Laws
<1> QED  BY ONLY <1>2, <1>3, <1>4, <1>5, Plus(a, b) = Plus(a, c)

\* A difference is what makes up for it.
LEMMA LessIs ==
    ASSUME NEW a \in Field, NEW b \in Field
    PROVE  /\ Less(a, b) \in Field /\ Plus(b, Less(a, b)) = a
           /\ \A c \in Field : Plus(b, c) = a => Less(a, b) = c
<1>1. Less(a, b) \in Field /\ Negative(b) \in Field
  BY Closed
<1>2. Plus(b, Plus(a, Negative(b))) = Plus(a, Plus(b, Negative(b)))
  BY <1>1, Swap
<1>3. Plus(b, Negative(b)) = Zero /\ Plus(a, Zero) = a
  BY Laws
<1>4. Plus(b, Less(a, b)) = a
  BY ONLY <1>2, <1>3 DEF Less
<1>5. ASSUME NEW c \in Field, Plus(b, c) = a PROVE Less(a, b) = c
  BY <1>1, <1>4, <1>5, CancelPlus
<1> QED  BY <1>1, <1>4, <1>5

\* Zero as a factor.
LEMMA TimesZero ==
    ASSUME NEW a \in Field
    PROVE  Times(a, Zero) = Zero /\ Times(Zero, a) = Zero
<1>1. Zero \in Field /\ Times(a, Zero) \in Field
  BY Closed
<1>2. Plus(Zero, Zero) = Zero /\ Plus(Times(a, Zero), Zero) = Times(a, Zero)
  BY <1>1, Laws
<1>3. Times(a, Plus(Zero, Zero)) = Plus(Times(a, Zero), Times(a, Zero))
  BY <1>1, Laws
<1>4. Plus(Times(a, Zero), Times(a, Zero)) = Plus(Times(a, Zero), Zero)
  BY ONLY <1>2, <1>3
<1>5. Times(a, Zero) = Zero
  BY ONLY <1>1, <1>4, CancelPlus
<1>6. Times(Zero, a) = Times(a, Zero)
  BY <1>1, Laws
<1> QED  BY <1>5, <1>6

\* A product distributes over a difference.
LEMMA TimesLess ==
    ASSUME NEW a \in Field, NEW b \in Field, NEW c \in Field
    PROVE  Times(c, Less(a, b)) = Less(Times(c, a), Times(c, b))
<1>1. Less(a, b) \in Field /\ Plus(b, Less(a, b)) = a
  BY LessIs
<1>2. Times(c, Plus(b, Less(a, b))) = Plus(Times(c, b), Times(c, Less(a, b)))
  BY <1>1, Laws
<1>3. /\ Times(c, a) \in Field /\ Times(c, b) \in Field /\ Times(c, Less(a, b)) \in Field
  BY <1>1, Closed
<1>4. Plus(Times(c, b), Times(c, Less(a, b))) = Times(c, a)
  BY ONLY <1>1, <1>2
<1> QED  BY <1>3, <1>4, LessIs

\* Nothing is left of a difference from itself, and only then.
LEMMA LessZero ==
    ASSUME NEW a \in Field, NEW b \in Field
    PROVE  (Less(a, b) = Zero <=> a = b) /\ Less(a, Zero) = a
<1>1. Less(a, b) \in Field /\ Plus(b, Less(a, b)) = a /\ Plus(b, Zero) = b /\ Zero \in Field
  BY LessIs, Laws, Closed
<1>2. Plus(b, Zero) = a => Less(a, b) = Zero
  BY <1>1, LessIs
<1>3. Plus(Zero, a) = a /\ (Plus(Zero, a) = a => Less(a, Zero) = a)
  BY <1>1, LessIs, Laws
<1> QED  BY <1>1, <1>2, <1>3

\* Differences added up.
LEMMA ExchangeLess ==
    ASSUME NEW a \in Field, NEW b \in Field, NEW c \in Field, NEW d \in Field
    PROVE  Plus(Less(a, b), Less(c, d)) = Less(Plus(a, c), Plus(b, d))
<1> DEFINE x == Less(a, b)
           y == Less(c, d)
<1>1. x \in Field /\ Plus(b, x) = a /\ y \in Field /\ Plus(d, y) = c
  BY LessIs
<1> HIDE DEF x, y
<1>2. Plus(Plus(b, d), Plus(x, y)) = Plus(Plus(b, x), Plus(d, y))
  BY <1>1, Exchange
<1>3. Plus(b, d) \in Field /\ Plus(a, c) \in Field /\ Plus(x, y) \in Field
  BY <1>1, Closed
<1>4. Plus(Plus(b, d), Plus(x, y)) = Plus(a, c)
  BY ONLY <1>1, <1>2
<1>5. Less(Plus(a, c), Plus(b, d)) = Plus(x, y)
  BY <1>3, <1>4, LessIs
<1> QED  BY <1>5 DEF x, y

\* A product without a zero is none.
LEMMA NoZeroDivisors ==
    ASSUME NEW a \in Field, NEW b \in Field, Times(a, b) = Zero
    PROVE  a = Zero \/ b = Zero
<1> SUFFICES ASSUME a # Zero PROVE b = Zero
  OBVIOUS
<1>1. Invert(a) \in Field /\ Times(a, Invert(a)) = One
  BY FieldAssumption
<1>2. Times(Invert(a), Times(a, b)) = Times(a, Times(Invert(a), b))
  BY <1>1, Swap
<1>3. Times(Times(a, Invert(a)), b) = Times(a, Times(Invert(a), b)) /\ Times(One, b) = b
  BY <1>1, Laws
<1>4. Times(Invert(a), Zero) = Zero
  BY <1>1, TimesZero
<1> QED  BY ONLY <1>1, <1>2, <1>3, <1>4, Times(a, b) = Zero

\* The inverse cancels.
LEMMA TimesInvert ==
    ASSUME NEW a \in Field, a # Zero, NEW b \in Field
    PROVE  /\ Invert(a) \in Field /\ Times(a, Invert(a)) = One /\ Times(Invert(a), a) = One
           /\ Times(Invert(a), Times(a, b)) = b /\ Times(Times(b, Invert(a)), a) = b
<1>1. Invert(a) \in Field /\ Times(a, Invert(a)) = One
  BY FieldAssumption
<1>2. Times(Invert(a), a) = One
  BY <1>1, Laws
<1>3. Times(Times(Invert(a), a), b) = Times(Invert(a), Times(a, b)) /\ Times(One, b) = b
  BY <1>1, Laws
<1>4. Times(Times(b, Invert(a)), a) = Times(b, Times(Invert(a), a)) /\ Times(b, One) = b
  BY <1>1, Laws
<1> QED  BY ONLY <1>1, <1>2, <1>3, <1>4

(* ------------------------------- polynomials ---------------------------------- *)

\* A function on the first numbers is a sequence.
LEMMA IsSequence ==
    ASSUME NEW V, NEW n \in Nat, NEW s \in [1..n -> V]
    PROVE  s \in Seq(V) /\ Len(s) = n /\ DOMAIN s = 1..n
  OBVIOUS

\* n elements of the field, and n polynomials of l coefficients.
Vector(n) == [1..n -> Field]
Polynomials(n, l) == [1..n -> Vector(l)]

\* A vector is the function it is given by.
LEMMA WholeIs ==
    ASSUME NEW V, NEW n \in Nat, NEW s \in [1..n -> V]
    PROVE  Whole(s) = s
<1>1. s \in Seq(V) /\ Len(s) = n /\ DOMAIN s = 1..n
  BY IsSequence
<1>2. SubSeq(s, 1, Len(s)) = s
  BY <1>1
<1> QED  BY <1>2 DEF Whole

\* What a vector is.
LEMMA VectorIs ==
    ASSUME NEW n \in Nat, NEW s \in Vector(n)
    PROVE  /\ s \in Seq(Field) /\ Len(s) = n /\ DOMAIN s = 1..n /\ Whole(s) = s
           /\ \A k \in 1..n : s[k] \in Field
<1>1. s \in [1..n -> Field]
  BY DEF Vector
<1>2. s \in Seq(Field) /\ Len(s) = n /\ DOMAIN s = 1..n
  BY <1>1, IsSequence
<1>3. Whole(s) = s
  BY ONLY <1>1, n \in Nat, WholeIs
<1> QED  BY <1>1, <1>2, <1>3

\* Induction downwards from the end of a sequence.
LEMMA SuffixInduction ==
    ASSUME NEW n \in Nat, NEW S, n + 1 \in S, \A k \in 1..n : k + 1 \in S => k \in S
    PROVE  1..(n + 1) \subseteq S
<1> DEFINE T == {i \in 0..n : (n + 1) - i \in S}
<1>1. 0 \in T
  OBVIOUS
<1>2. ASSUME NEW i \in 0..(n - 1), i \in T PROVE i + 1 \in T
  <2>1. n - i \in 1..n /\ (n - i) + 1 = (n + 1) - i /\ (n + 1) - (i + 1) = n - i /\ i + 1 \in 0..n
    OBVIOUS
  <2>2. (n + 1) - i \in S
    BY <1>2
  <2> QED  BY <2>1, <2>2
<1> HIDE DEF T
<1>3. 0..n \subseteq T
  BY <1>1, <1>2, BoundedInduction
<1>4. ASSUME NEW k \in 1..(n + 1) PROVE k \in S
  <2>1. (n + 1) - k \in 0..n /\ (n + 1) - ((n + 1) - k) = k
    OBVIOUS
  <2>2. (n + 1) - k \in T
    BY ONLY <1>3, <2>1
  <2>3. (n + 1) - ((n + 1) - k) \in S
    BY <2>2 DEF T
  <2> QED  BY <2>1, <2>3
<1> QED  BY <1>4

\* The values Horner's rule passes through, for the first n elements of s.
IsHorner(f, a, s, n) ==
    /\ f \in Vector(n + 1) /\ f[n + 1] = Zero
    /\ \A k \in 1..n : f[k] = Plus(s[k], Times(a, f[k + 1]))

LEMMA HornerIs ==
    ASSUME NEW n \in Nat, NEW s \in Vector(n), NEW a \in Field
    PROVE  IsHorner(Horner(a, s), a, s, n)
<1> DEFINE IsFrom(f) == f = [k \in 1..(Len(s) + 1) |->
                                IF k > Len(s) THEN Zero ELSE Plus(s[k], Times(a, f[k + 1]))]
           from == CHOOSE f : IsFrom(f)
<1>1. s \in Seq(Field) /\ Len(s) = n /\ Whole(s) = s
  BY VectorIs
<1>2. Horner(a, s) = from
  BY <1>1 DEF Horner
<1>3. PICK step : step = [p \in Nat \X Field |->
                             IF p[1] < n THEN Plus(s[n - p[1]], Times(a, p[2])) ELSE p[2]]
  OBVIOUS
<1>4. \A i \in Nat, x \in Field :
          step[<<i, x>>] = IF i < n THEN Plus(s[n - i], Times(a, x)) ELSE x
  BY <1>3
<1>5. step \in [Nat \X Field -> Field]
  <2>1. \A i \in Nat, x \in Field : step[<<i, x>>] \in Field
    <3>1. \A i \in Nat : i < n => n - i \in 1..n
      OBVIOUS
    <3>2. \A i \in Nat : i < n => s[n - i] \in Field
      BY <3>1 DEF Vector
    <3>3. \A x \in Field : Times(a, x) \in Field
      BY Closed
    <3>4. \A i \in Nat, x \in Field : i < n => Plus(s[n - i], Times(a, x)) \in Field
      BY <3>2, <3>3, Closed
    <3> QED  BY <1>4, <3>4
  <2> QED  BY <1>3, <2>1
<1>6. PICK r : IsRun(r, Field, Zero, step, n)
  BY <1>5, RunExists, Closed
<1>7. /\ r \in [0..n -> Field] /\ r[0] = Zero
      /\ \A i \in 0..(n - 1) : r[i + 1] = step[<<i, r[i]>>]
  BY <1>6 DEF IsRun
<1>8. PICK g : g = [k \in 1..(n + 1) |-> r[(n + 1) - k]]
  OBVIOUS
<1>9. \A k \in 1..(n + 1) : (n + 1) - k \in 0..n
  OBVIOUS
<1>10. g \in Vector(n + 1) /\ g[n + 1] = Zero
  BY <1>7, <1>8, <1>9 DEF Vector
<1>11. ASSUME NEW k \in 1..n PROVE g[k] = Plus(s[k], Times(a, g[k + 1]))
  <2>1. /\ n - k \in 0..(n - 1) /\ (n - k) + 1 = (n + 1) - k /\ (n + 1) - (k + 1) = n - k
        /\ n - k \in Nat /\ n - k < n /\ n - (n - k) = k /\ k + 1 \in 1..(n + 1) /\ k \in 1..(n + 1)
        /\ n - k \in 0..n
    OBVIOUS
  <2>2. r[(n - k) + 1] = step[<<n - k, r[n - k]>>] /\ r[n - k] \in Field
    BY <1>7, <2>1
  <2>3. step[<<n - k, r[n - k]>>] = Plus(s[n - (n - k)], Times(a, r[n - k]))
    BY <1>4, <2>1, <2>2
  <2>4. g[k] = r[(n + 1) - k] /\ g[k + 1] = r[(n + 1) - (k + 1)]
    BY <1>8, <2>1
  <2> QED  BY ONLY <2>1, <2>2, <2>3, <2>4
<1>12. IsFrom(g)
  <2>1. \A k \in 1..(n + 1) : k > n => k = n + 1
    OBVIOUS
  <2>2. \A k \in 1..(n + 1) : ~(k > n) => k \in 1..n
    OBVIOUS
  <2>3. \A k \in 1..(n + 1) : g[k] = IF k > n THEN Zero ELSE Plus(s[k], Times(a, g[k + 1]))
    BY <1>10, <1>11, <2>1, <2>2
  <2> QED  BY <1>1, <1>10, <2>3 DEF Vector
<1>13. IsFrom(from)
  BY <1>12
<1> HIDE DEF from
<1>14. DOMAIN from = 1..(n + 1)
  BY <1>1, <1>13
<1>15. \A k \in 1..(n + 1) : from[k] = IF k > n THEN Zero ELSE Plus(s[k], Times(a, from[k + 1]))
  BY <1>1, <1>13
<1>16. from[n + 1] = Zero /\ \A k \in 1..n : from[k] = Plus(s[k], Times(a, from[k + 1]))
  <2>1. n + 1 \in 1..(n + 1) /\ n + 1 > n /\ \A k \in 1..n : k \in 1..(n + 1) /\ ~(k > n)
    OBVIOUS
  <2> QED  BY <1>15, <2>1
<1> DEFINE S == {k \in 1..(n + 1) : from[k] \in Field}
<1>17. n + 1 \in S
  BY <1>16, Closed
<1>18. ASSUME NEW k \in 1..n, k + 1 \in S PROVE k \in S
  <2>1. from[k + 1] \in Field /\ s[k] \in Field /\ k \in 1..(n + 1)
    BY <1>18 DEF Vector
  <2>2. Times(a, from[k + 1]) \in Field
    BY <2>1, Closed
  <2>3. Plus(s[k], Times(a, from[k + 1])) \in Field
    BY <2>1, <2>2, Closed
  <2>4. from[k] \in Field
    BY <1>16, <2>3
  <2> QED  BY <2>1, <2>4
<1> HIDE DEF S
<1>19. 1..(n + 1) \subseteq S
  BY <1>17, <1>18, SuffixInduction
<1>20. \A k \in 1..(n + 1) : from[k] \in Field
  BY <1>19 DEF S
<1>21. from = [k \in 1..(n + 1) |-> from[k]]
  BY <1>1, <1>13
<1>22. from \in Vector(n + 1)
  BY <1>20, <1>21 DEF Vector
<1> QED  BY <1>2, <1>16, <1>22 DEF IsHorner

\* Whatever passes through the same values is Horner's rule.
LEMMA HornerUnique ==
    ASSUME NEW n \in Nat, NEW a, NEW s, NEW f, NEW g,
           IsHorner(f, a, s, n), IsHorner(g, a, s, n)
    PROVE  \A k \in 1..(n + 1) : f[k] = g[k]
<1> DEFINE S == {k \in 1..(n + 1) : f[k] = g[k]}
<1>1. n + 1 \in S
  BY DEF IsHorner
<1>2. ASSUME NEW k \in 1..n, k + 1 \in S PROVE k \in S
  <2>1. f[k + 1] = g[k + 1] /\ k \in 1..(n + 1)
    BY <1>2
  <2>2. f[k] = Plus(s[k], Times(a, f[k + 1])) /\ g[k] = Plus(s[k], Times(a, g[k + 1]))
    BY DEF IsHorner
  <2> QED  BY <2>1, <2>2
<1> HIDE DEF S
<1>3. 1..(n + 1) \subseteq S
  BY <1>1, <1>2, SuffixInduction
<1> QED  BY <1>3 DEF S

\* The value of a polynomial, from those Horner's rule passes through.
LEMMA PowersIs ==
    ASSUME NEW n \in Nat, NEW s \in Vector(n), NEW a \in Field
    PROVE  /\ Powers(a, s) \in Field /\ Powers(a, s) = Horner(a, s)[1]
           /\ \A f : IsHorner(f, a, s, n) => Powers(a, s) = f[1]
<1>1. IsHorner(Horner(a, s), a, s, n) /\ 1 \in 1..(n + 1)
  BY HornerIs
<1>2. Horner(a, s)[1] \in Field
  BY <1>1 DEF IsHorner, Vector
<1>3. ASSUME NEW f, IsHorner(f, a, s, n) PROVE Horner(a, s)[1] = f[1]
  <2>1. \A k \in 1..(n + 1) : Horner(a, s)[k] = f[k]
    BY <1>1, <1>3, HornerUnique
  <2> QED  BY <1>1, <2>1
<1> QED  BY <1>2, <1>3 DEF Powers

\* One step of Horner's rule is linear.
LEMMA StepLinear ==
    ASSUME NEW a \in Field, NEW c \in Field, NEW s \in Field, NEW t \in Field,
           NEW x \in Field, NEW y \in Field
    PROVE  Plus(Plus(s, Times(c, t)), Times(a, Plus(x, Times(c, y))))
               = Plus(Plus(s, Times(a, x)), Times(c, Plus(t, Times(a, y))))
<1>1. /\ Times(c, t) \in Field /\ Times(c, y) \in Field /\ Times(a, x) \in Field
      /\ Times(a, y) \in Field
  BY Closed
<1>2. Times(c, Times(a, y)) \in Field
  BY <1>1, Closed
<1>3. Times(a, Plus(x, Times(c, y))) = Plus(Times(a, x), Times(a, Times(c, y)))
  BY <1>1, Laws
<1>4. Times(a, Times(c, y)) = Times(c, Times(a, y))
  BY Swap
<1>5. Times(c, Plus(t, Times(a, y))) = Plus(Times(c, t), Times(c, Times(a, y)))
  BY <1>1, Laws
<1>6. Plus(Plus(s, Times(c, t)), Plus(Times(a, x), Times(c, Times(a, y))))
          = Plus(Plus(s, Times(a, x)), Plus(Times(c, t), Times(c, Times(a, y))))
  BY <1>1, <1>2, Exchange
<1> QED  BY ONLY <1>3, <1>4, <1>5, <1>6

\* A sum of sequences, one of them scaled.
Combines(w, s, t, c, n) == \A k \in 1..n : w[k] = Plus(s[k], Times(c, t[k]))

\* The value of a sum of polynomials, one of them scaled.
LEMMA PowersLinear ==
    ASSUME NEW n \in Nat, NEW s \in Vector(n), NEW t \in Vector(n),
           NEW c \in Field, NEW w \in Vector(n), Combines(w, s, t, c, n), NEW a \in Field
    PROVE  Powers(a, w) = Plus(Powers(a, s), Times(c, Powers(a, t)))
<1> DEFINE f == Horner(a, s)
           g == Horner(a, t)
<1>1. IsHorner(f, a, s, n) /\ IsHorner(g, a, t, n)
  BY HornerIs
<1> HIDE DEF f, g
<1>2. /\ f \in Vector(n + 1) /\ f[n + 1] = Zero
      /\ g \in Vector(n + 1) /\ g[n + 1] = Zero
      /\ \A k \in 1..n : f[k] = Plus(s[k], Times(a, f[k + 1]))
      /\ \A k \in 1..n : g[k] = Plus(t[k], Times(a, g[k + 1]))
  BY <1>1 DEF IsHorner
<1>3. PICK e : e = [k \in 1..(n + 1) |-> Plus(f[k], Times(c, g[k]))]
  OBVIOUS
<1>4. \A k \in 1..(n + 1) : e[k] = Plus(f[k], Times(c, g[k]))
  BY <1>3
<1>5. e \in Vector(n + 1)
  <2>1. \A k \in 1..(n + 1) : f[k] \in Field /\ g[k] \in Field
    BY <1>2 DEF Vector
  <2>2. \A k \in 1..(n + 1) : Times(c, g[k]) \in Field
    BY <2>1, Closed
  <2>3. \A k \in 1..(n + 1) : Plus(f[k], Times(c, g[k])) \in Field
    BY <2>1, <2>2, Closed
  <2> QED  BY <1>3, <2>3 DEF Vector
<1>6. e[n + 1] = Zero
  <2>1. e[n + 1] = Plus(Zero, Times(c, Zero))
    BY <1>2, <1>4
  <2>2. Times(c, Zero) = Zero /\ Plus(Zero, Zero) = Zero
    BY TimesZero, Laws, Closed
  <2> QED  BY <2>1, <2>2
<1>7. ASSUME NEW k \in 1..n PROVE e[k] = Plus(w[k], Times(a, e[k + 1]))
  <2>1. k \in 1..(n + 1) /\ k + 1 \in 1..(n + 1)
    OBVIOUS
  <2>2. /\ s[k] \in Field /\ t[k] \in Field /\ f[k + 1] \in Field /\ g[k + 1] \in Field
    BY <1>2, <2>1 DEF Vector
  <2>3. Plus(Plus(s[k], Times(c, t[k])), Times(a, Plus(f[k + 1], Times(c, g[k + 1]))))
          = Plus(Plus(s[k], Times(a, f[k + 1])), Times(c, Plus(t[k], Times(a, g[k + 1]))))
    <3>1. PICK p, q, x, y : p = s[k] /\ q = t[k] /\ x = f[k + 1] /\ y = g[k + 1]
      OBVIOUS
    <3>2. p \in Field /\ q \in Field /\ x \in Field /\ y \in Field
      BY ONLY <2>2, <3>1
    <3>3. Plus(Plus(p, Times(c, q)), Times(a, Plus(x, Times(c, y))))
            = Plus(Plus(p, Times(a, x)), Times(c, Plus(q, Times(a, y))))
      BY ONLY <3>2, a \in Field, c \in Field, StepLinear
    <3> QED  BY ONLY <3>1, <3>3
  <2>4. e[k] = Plus(f[k], Times(c, g[k])) /\ e[k + 1] = Plus(f[k + 1], Times(c, g[k + 1]))
    BY <1>4, <2>1
  <2>5. f[k] = Plus(s[k], Times(a, f[k + 1])) /\ g[k] = Plus(t[k], Times(a, g[k + 1]))
    BY <1>2
  <2>6. w[k] = Plus(s[k], Times(c, t[k]))
    BY DEF Combines
  <2> QED  BY ONLY <2>3, <2>4, <2>5, <2>6
<1>8. IsHorner(e, a, w, n)
  BY <1>5, <1>6, <1>7 DEF IsHorner
<1>9. Powers(a, w) = e[1]
  BY <1>8, PowersIs
<1>10. Powers(a, s) = f[1] /\ Powers(a, t) = g[1]
  BY <1>1, PowersIs
<1>11. e[1] = Plus(f[1], Times(c, g[1]))
  BY <1>4
<1> QED  BY ONLY <1>9, <1>10, <1>11

\* The polynomial without coefficients, or with none but zeros.
LEMMA PowersZero ==
    ASSUME NEW n \in Nat, NEW s \in Vector(n), \A k \in 1..n : s[k] = Zero, NEW a \in Field
    PROVE  Powers(a, s) = Zero
<1>1. PICK f : f = [k \in 1..(n + 1) |-> Zero]
  OBVIOUS
<1>2. f \in Vector(n + 1) /\ f[n + 1] = Zero /\ \A k \in 1..(n + 1) : f[k] = Zero
  BY <1>1, Closed DEF Vector
<1>3. Times(a, Zero) = Zero /\ Plus(Zero, Zero) = Zero
  BY TimesZero, Laws, Closed
<1>4. \A k \in 1..n : k \in 1..(n + 1) /\ k + 1 \in 1..(n + 1)
  OBVIOUS
<1>5. \A k \in 1..n : f[k] = Plus(s[k], Times(a, f[k + 1]))
  BY <1>2, <1>3, <1>4
<1>6. IsHorner(f, a, s, n)
  BY <1>2, <1>5 DEF IsHorner
<1>7. Powers(a, s) = f[1] /\ f[1] = Zero
  BY <1>2, <1>6, PowersIs
<1> QED  BY <1>7

\* The value of a scaled polynomial,
LEMMA PowersScaled ==
    ASSUME NEW n \in Nat, NEW t \in Vector(n), NEW c \in Field, NEW w \in Vector(n),
           \A k \in 1..n : w[k] = Times(c, t[k]), NEW a \in Field
    PROVE  Powers(a, w) = Times(c, Powers(a, t))
<1>1. PICK s : s = [k \in 1..n |-> Zero]
  OBVIOUS
<1>2. s \in Vector(n) /\ \A k \in 1..n : s[k] = Zero
  BY <1>1, Closed DEF Vector
<1>3. \A k \in 1..n : t[k] \in Field
  BY DEF Vector
<1>4. \A k \in 1..n : Times(c, t[k]) \in Field
  BY <1>3, Closed
<1>5. Combines(w, s, t, c, n)
  BY <1>2, <1>4, Laws DEF Combines
<1>6. Powers(a, w) = Plus(Powers(a, s), Times(c, Powers(a, t)))
  BY <1>2, <1>5, PowersLinear
<1>7. Powers(a, s) = Zero
  BY <1>2, PowersZero
<1>8. Times(c, Powers(a, t)) \in Field
  BY PowersIs, Closed
<1>9. Plus(Zero, Times(c, Powers(a, t))) = Times(c, Powers(a, t))
  BY <1>8, Laws
<1> QED  BY ONLY <1>6, <1>7, <1>9

\* of a sum,
LEMMA PowersPlus ==
    ASSUME NEW n \in Nat, NEW s \in Vector(n), NEW t \in Vector(n),
           NEW w \in Vector(n), \A k \in 1..n : w[k] = Plus(s[k], t[k]), NEW a \in Field
    PROVE  Powers(a, w) = Plus(Powers(a, s), Powers(a, t))
<1>1. \A k \in 1..n : t[k] \in Field
  BY DEF Vector
<1>2. \A k \in 1..n : Times(One, t[k]) = t[k]
  BY <1>1, Laws
<1>3. Combines(w, s, t, One, n)
  BY <1>2 DEF Combines
<1>4. Powers(a, w) = Plus(Powers(a, s), Times(One, Powers(a, t)))
  BY <1>3, PowersLinear, Closed
<1>5. Times(One, Powers(a, t)) = Powers(a, t)
  BY PowersIs, Laws
<1> QED  BY <1>4, <1>5

\* and of a difference.
LEMMA PowersLess ==
    ASSUME NEW n \in Nat, NEW s \in Vector(n), NEW t \in Vector(n),
           NEW w \in Vector(n), \A k \in 1..n : w[k] = Less(s[k], t[k]), NEW a \in Field
    PROVE  Powers(a, w) = Less(Powers(a, s), Powers(a, t))
<1>1. \A k \in 1..n : s[k] \in Field /\ t[k] \in Field
  BY DEF Vector
<1>2. \A k \in 1..n : s[k] = Plus(t[k], w[k])
  BY <1>1, LessIs
<1>3. Powers(a, s) = Plus(Powers(a, t), Powers(a, w))
  BY <1>2, PowersPlus
<1>4. Powers(a, s) \in Field /\ Powers(a, t) \in Field /\ Powers(a, w) \in Field
  BY PowersIs
<1> QED  BY <1>3, <1>4, LessIs

\* The sum of a sequence with one element other than zero.
LEMMA TotalSingle ==
    ASSUME NEW n \in Nat, NEW s \in Vector(n), NEW j \in 1..n,
           \A k \in 1..n : k # j => s[k] = Zero
    PROVE  Total(s) = s[j]
<1>1. PICK f : f = [k \in 1..(n + 1) |-> IF k <= j THEN s[j] ELSE Zero]
  OBVIOUS
<1>2. \A k \in 1..(n + 1) : f[k] = IF k <= j THEN s[j] ELSE Zero
  BY <1>1
<1>3. f \in Vector(n + 1) /\ f[n + 1] = Zero
  <2>1. s[j] \in Field /\ Zero \in Field /\ ~(n + 1 <= j) /\ n + 1 \in 1..(n + 1)
    BY Closed DEF Vector
  <2> QED  BY <1>1, <1>2, <2>1 DEF Vector
<1>4. ASSUME NEW k \in 1..n PROVE f[k] = Plus(s[k], Times(One, f[k + 1]))
  <2>1. k \in 1..(n + 1) /\ k + 1 \in 1..(n + 1)
    OBVIOUS
  <2>2. f[k + 1] \in Field
    BY <1>3, <2>1 DEF Vector
  <2>3. Times(One, f[k + 1]) = f[k + 1]
    BY <2>2, Laws
  <2>4. s[k] \in Field
    BY DEF Vector
  <2>5. Plus(s[k], Zero) = s[k] /\ Plus(Zero, f[k + 1]) = f[k + 1]
    BY <2>2, <2>4, Laws
  <2>6. CASE k = j
    <3>1. f[k] = s[k] /\ f[k + 1] = Zero
      BY <1>2, <2>1, <2>6
    <3> QED  BY <2>3, <2>5, <3>1
  <2>7. CASE k # j
    <3>1. s[k] = Zero /\ (k <= j <=> k + 1 <= j)
      BY <2>7
    <3>2. f[k] = f[k + 1]
      BY <1>2, <2>1, <3>1
    <3> QED  BY <2>3, <2>5, <3>1, <3>2
  <2> QED  BY <2>6, <2>7
<1>5. IsHorner(f, One, s, n)
  BY <1>3, <1>4 DEF IsHorner
<1>6. Powers(One, s) = f[1]
  BY <1>5, PowersIs, Closed
<1>7. f[1] = s[j]
  BY <1>2
<1> QED  BY <1>6, <1>7 DEF Total

\* Coefficients of zero at the end leave a polynomial what it is.
LEMMA PowersExtended ==
    ASSUME NEW n \in Nat, NEW s \in Vector(n), NEW m \in Nat, n <= m,
           NEW w \in Vector(m),
           \A k \in 1..m : w[k] = IF k <= n THEN s[k] ELSE Zero, NEW a \in Field
    PROVE  Powers(a, w) = Powers(a, s)
<1> DEFINE g == Horner(a, s)
<1>1. IsHorner(g, a, s, n)
  BY HornerIs
<1> HIDE DEF g
<1>2. /\ g \in Vector(n + 1) /\ g[n + 1] = Zero
      /\ \A k \in 1..n : g[k] = Plus(s[k], Times(a, g[k + 1]))
  BY <1>1 DEF IsHorner
<1>3. PICK f : f = [k \in 1..(m + 1) |-> IF k <= n + 1 THEN g[k] ELSE Zero]
  OBVIOUS
<1>4. \A k \in 1..(m + 1) : f[k] = IF k <= n + 1 THEN g[k] ELSE Zero
  BY <1>3
<1>5. f \in Vector(m + 1)
  <2>1. \A k \in 1..(m + 1) : k <= n + 1 => g[k] \in Field
    BY <1>2 DEF Vector
  <2> QED  BY <1>3, <2>1, Closed DEF Vector
<1>6. f[m + 1] = Zero
  <2>1. m + 1 \in 1..(m + 1) /\ (m + 1 <= n + 1 => m + 1 = n + 1)
    OBVIOUS
  <2> QED  BY <1>2, <1>4, <2>1
<1>7. ASSUME NEW k \in 1..m PROVE f[k] = Plus(w[k], Times(a, f[k + 1]))
  <2>1. k \in 1..(m + 1) /\ k + 1 \in 1..(m + 1)
    OBVIOUS
  <2>2. CASE k <= n
    <3>1. k \in 1..n /\ k <= n + 1 /\ k + 1 <= n + 1
      BY <2>2
    <3>2. f[k] = g[k] /\ f[k + 1] = g[k + 1] /\ w[k] = s[k]
      BY <1>4, <2>1, <2>2, <3>1
    <3> QED  BY <1>2, <3>1, <3>2
  <2>3. CASE ~(k <= n)
    <3>1. k <= n + 1 => k = n + 1
      BY <2>3
    <3>2. f[k] = Zero /\ w[k] = Zero
      BY <1>2, <1>4, <2>1, <2>3, <3>1
    <3>3. f[k + 1] = Zero
      <4>1. ~(k + 1 <= n + 1)
        BY <2>3
      <4> QED  BY <1>4, <2>1, <4>1
    <3>4. Times(a, Zero) = Zero /\ Plus(Zero, Zero) = Zero
      BY TimesZero, Laws, Closed
    <3> QED  BY <3>2, <3>3, <3>4
  <2> QED  BY <2>2, <2>3
<1>8. IsHorner(f, a, w, m)
  BY <1>5, <1>6, <1>7 DEF IsHorner
<1>9. Powers(a, w) = f[1] /\ Powers(a, s) = g[1]
  BY <1>1, <1>8, PowersIs
<1>10. f[1] = g[1]
  BY <1>4
<1> QED  BY ONLY <1>9, <1>10

\* A polynomial with room for N coefficients.
LEMMA PaddedIs ==
    ASSUME NEW n \in Nat, n <= N, NEW s \in Vector(n)
    PROVE  /\ Padded(s) \in Vector(N)
           /\ \A a \in Field : Powers(a, Padded(s)) = Powers(a, s)
<1>1. N \in Nat
  BY StatementAssumption
<1>2. s \in Seq(Field) /\ Len(s) = n
  BY VectorIs
<1>3. PICK w : w = [k \in 1..N |-> IF k <= n THEN s[k] ELSE Zero]
  OBVIOUS
<1>4. \A k \in 1..N : k <= n => k \in 1..n
  OBVIOUS
<1>5. w \in Vector(N) /\ \A k \in 1..N : w[k] = IF k <= n THEN s[k] ELSE Zero
  BY <1>3, <1>4, Closed DEF Vector
<1>6. Padded(s) = w
  <2>1. Whole(w) = w
    BY <1>1, <1>5, VectorIs
  <2> QED  BY <1>2, <1>3, <2>1 DEF Padded
<1>7. ASSUME NEW a \in Field PROVE Powers(a, w) = Powers(a, s)
  BY <1>1, <1>5, PowersExtended
<1> QED  BY <1>5, <1>6, <1>7

\* One step of a synthetic division.
LEMMA StepKate ==
    ASSUME NEW z \in Field, NEW r \in Field, NEW p \in Field, NEW q \in Field, NEW e \in Field
    PROVE  Plus(p, Times(z, Plus(Times(q, Less(z, r)), e)))
               = Plus(Times(Plus(e, Times(z, q)), Less(z, r)), Plus(p, Times(r, e)))
<1>1. PICK d : d = Less(z, r)
  OBVIOUS
<1>2. d \in Field /\ Plus(r, d) = z
  BY <1>1, LessIs
<1> DEFINE x == Times(z, Times(q, d))
           y == Times(r, e)
           w == Times(d, e)
<1>3. /\ Times(q, d) \in Field /\ Times(z, q) \in Field /\ y \in Field /\ w \in Field
  BY <1>2, Closed
<1>4. x \in Field
  BY <1>3, Closed
<1>5. Times(z, Plus(Times(q, d), e)) = Plus(x, Times(z, e))
  BY <1>3, Laws
<1>6. Times(z, e) = Plus(y, w)
  <2>1. Times(e, Plus(r, d)) = Plus(Times(e, r), Times(e, d))
    BY <1>2, Laws
  <2>2. Times(e, z) = Times(z, e) /\ Times(e, r) = y /\ Times(e, d) = w
    BY <1>2, Laws
  <2> QED  BY ONLY <1>2, <2>1, <2>2
<1>7. Times(Plus(e, Times(z, q)), d) = Plus(w, x)
  <2>1. Times(d, Plus(e, Times(z, q))) = Plus(Times(d, e), Times(d, Times(z, q)))
    BY <1>2, <1>3, Laws
  <2>2. Plus(e, Times(z, q)) \in Field
    BY <1>3, Closed
  <2>3. Times(Plus(e, Times(z, q)), d) = Times(d, Plus(e, Times(z, q)))
    BY <1>2, <2>2, Laws
  <2>4. Times(d, Times(z, q)) = Times(z, Times(d, q)) /\ Times(d, q) = Times(q, d)
    BY <1>2, Swap, Laws
  <2> QED  BY ONLY <2>1, <2>3, <2>4
<1> HIDE DEF x, y, w
<1>8. Plus(p, Plus(x, Plus(y, w))) = Plus(Plus(w, x), Plus(p, y))
  <2>1. Plus(w, x) \in Field
    BY <1>3, <1>4, Closed
  <2>2. Plus(x, Plus(y, w)) = Plus(y, Plus(x, w)) /\ Plus(x, w) = Plus(w, x)
    BY <1>3, <1>4, Swap, Laws
  <2>3. Plus(y, Plus(w, x)) = Plus(Plus(w, x), y)
    BY <1>3, <2>1, Laws
  <2>4. Plus(p, Plus(Plus(w, x), y)) = Plus(Plus(w, x), Plus(p, y))
    BY <1>3, <2>1, Swap
  <2> QED  BY ONLY <2>2, <2>3, <2>4
<1> QED  BY ONLY <1>1, <1>5, <1>6, <1>7, <1>8 DEF y

\* The quotient of a synthetic division, and the remainder it leaves: the value at
\* the root.
LEMMA KateIs ==
    ASSUME NEW n \in Nat, n >= 1, NEW p \in Vector(n), NEW r \in Field
    PROVE  /\ Kate(p, r) \in Vector(n - 1)
           /\ n > 1 => Kate(p, r)[n - 1] = p[n]
           /\ \A z \in Field :
                 Powers(z, p) = Plus(Times(Powers(z, Kate(p, r)), Less(z, r)), Powers(r, p))
<1> DEFINE e == Horner(r, p)
<1>1. IsHorner(e, r, p, n)
  BY HornerIs
<1>2. p \in Seq(Field) /\ Len(p) = n /\ n - 1 \in Nat
  BY VectorIs
<1>3. PICK q : q = [k \in 1..(n - 1) |-> e[k + 1]]
  OBVIOUS
<1>4. Kate(p, r) = Whole(q)
  BY <1>2, <1>3 DEF Kate
<1> HIDE DEF e
<1>5. /\ e \in Vector(n + 1) /\ e[n + 1] = Zero
      /\ \A k \in 1..n : e[k] = Plus(p[k], Times(r, e[k + 1]))
  BY <1>1 DEF IsHorner
<1>6. q \in Vector(n - 1) /\ \A k \in 1..(n - 1) : q[k] = e[k + 1]
  <2>1. \A k \in 1..(n - 1) : k + 1 \in 1..(n + 1)
    OBVIOUS
  <2> QED  BY <1>3, <1>5, <2>1 DEF Vector
<1>7. Kate(p, r) = q
  BY <1>2, <1>4, <1>6, VectorIs
<1>8. Times(r, Zero) = Zero /\ \A x \in Field : Plus(x, Zero) = x
  BY TimesZero, Laws
<1>9. e[n] = p[n]
  <2>1. n \in 1..n
    BY <1>2
  <2>2. e[n] = Plus(p[n], Times(r, e[n + 1])) /\ p[n] \in Field
    BY <1>5, <2>1 DEF Vector
  <2> QED  BY <1>5, <1>8, <2>2
<1>10. ASSUME n > 1 PROVE q[n - 1] = p[n]
  <2>1. n - 1 \in 1..(n - 1) /\ (n - 1) + 1 = n
    BY <1>10
  <2>2. q[n - 1] = e[(n - 1) + 1]
    BY <1>6, <2>1
  <2> QED  BY <1>9, <2>1, <2>2
<1>11. ASSUME NEW z \in Field
       PROVE  Powers(z, p) = Plus(Times(Powers(z, q), Less(z, r)), Powers(r, p))
  <2> DEFINE g == Horner(z, q)
             d == Less(z, r)
  <2>1. IsHorner(g, z, q, n - 1)
    BY <1>2, <1>6, HornerIs
  <2>2. d \in Field
    BY LessIs
  <2> HIDE DEF g
  <2>3. /\ g \in Vector(n) /\ g[n] = Zero
        /\ \A k \in 1..(n - 1) : g[k] = Plus(q[k], Times(z, g[k + 1]))
    <3>1. (n - 1) + 1 = n
      OBVIOUS
    <3> QED  BY <2>1, <3>1 DEF IsHorner
  <2>4. PICK f : f = [k \in 1..(n + 1) |-> IF k = n + 1 THEN Zero ELSE Plus(Times(g[k], d), e[k])]
    OBVIOUS
  <2>5. f[n + 1] = Zero /\ \A k \in 1..n : f[k] = Plus(Times(g[k], d), e[k])
    <3>1. n + 1 \in 1..(n + 1) /\ \A k \in 1..n : k \in 1..(n + 1) /\ k # n + 1
      OBVIOUS
    <3> QED  BY <2>4, <3>1
  <2>6. f \in Vector(n + 1)
    <3>1. \A k \in 1..n : g[k] \in Field /\ e[k] \in Field
      BY <1>5, <2>3 DEF Vector
    <3>2. \A k \in 1..n : Times(g[k], d) \in Field
      BY <2>2, <3>1, Closed
    <3>3. \A k \in 1..n : Plus(Times(g[k], d), e[k]) \in Field
      BY <3>1, <3>2, Closed
    <3>4. \A k \in 1..(n + 1) : k = n + 1 \/ k \in 1..n
      OBVIOUS
    <3> HIDE DEF d
    <3> QED  BY <2>4, <3>3, <3>4, Closed DEF Vector
  <2>7. ASSUME NEW k \in 1..n PROVE f[k] = Plus(p[k], Times(z, f[k + 1]))
    <3>1. CASE k = n
      <4>1. f[n] = Plus(Times(Zero, d), p[n]) /\ p[n] \in Field /\ f[n + 1] = Zero
        BY <1>2, <1>9, <2>3, <2>5, <3>1
      <4>2. Times(Zero, d) = Zero /\ Times(z, Zero) = Zero
        BY <2>2, TimesZero
      <4>3. Plus(Zero, p[n]) = p[n] /\ Plus(p[n], Zero) = p[n]
        BY <4>1, Laws
      <4> QED  BY ONLY <3>1, <4>1, <4>2, <4>3
    <3>2. CASE k # n
      <4>1. k \in 1..(n - 1) /\ k + 1 \in 1..n /\ k \in 1..(n + 1) /\ k + 1 \in 1..(n + 1)
        BY <3>2
      <4>2. PICK x, y, u : x = p[k] /\ y = g[k + 1] /\ u = e[k + 1]
        OBVIOUS
      <4>3. x \in Field /\ y \in Field /\ u \in Field
        BY <1>5, <2>3, <4>1, <4>2 DEF Vector
      <4>4. f[k] = Plus(Times(g[k], d), e[k]) /\ f[k + 1] = Plus(Times(y, d), u)
        BY <2>5, <4>1, <4>2
      <4>5. g[k] = Plus(u, Times(z, y))
        BY <1>6, <2>3, <4>1, <4>2
      <4>6. e[k] = Plus(x, Times(r, u))
        BY <1>5, <4>2
      <4>7. Plus(x, Times(z, Plus(Times(y, d), u)))
                = Plus(Times(Plus(u, Times(z, y)), d), Plus(x, Times(r, u)))
        BY <4>3, StepKate
      <4> QED  BY ONLY <4>2, <4>4, <4>5, <4>6, <4>7
    <3> QED  BY <3>1, <3>2
  <2>8. IsHorner(f, z, p, n)
    BY <2>5, <2>6, <2>7 DEF IsHorner
  <2>9. Powers(z, p) = f[1]
    BY <2>8, PowersIs
  <2>10. Powers(z, q) = g[1]
    BY <1>2, <1>6, <2>1, PowersIs
  <2>11. Powers(r, p) = e[1]
    BY <1>1, PowersIs
  <2>12. f[1] = Plus(Times(g[1], d), e[1])
    <3>1. 1 \in 1..n
      OBVIOUS
    <3> QED  BY <2>5, <3>1
  <2> QED  BY ONLY <2>9, <2>10, <2>11, <2>12
<1> QED  BY <1>6, <1>7, <1>10, <1>11

\* One coefficient of a multiplication by z - r.
LEMMA StepTimesLinear ==
    ASSUME NEW z \in Field, NEW r \in Field, NEW x \in Field, NEW p \in Field, NEW e \in Field
    PROVE  Plus(Less(x, Times(r, p)), Times(z, Plus(p, Times(e, Less(z, r)))))
               = Plus(x, Times(Plus(p, Times(z, e)), Less(z, r)))
<1>1. PICK d : d = Less(z, r)
  OBVIOUS
<1>2. d \in Field /\ Plus(r, d) = z
  BY <1>1, LessIs
<1> DEFINE y == Times(r, p)
           m == Less(x, y)
           u == Times(p, d)
           w == Times(z, Times(e, d))
<1>3. y \in Field /\ u \in Field /\ Times(e, d) \in Field /\ Times(z, e) \in Field
  BY <1>2, Closed
<1>4. w \in Field
  BY <1>3, Closed
<1>5. m \in Field /\ Plus(y, m) = x
  BY <1>3, LessIs
<1>6. Times(z, Plus(p, Times(e, d))) = Plus(Times(z, p), w)
  BY <1>3, Laws
<1>7. Times(z, p) = Plus(y, u)
  <2>1. Times(p, Plus(r, d)) = Plus(Times(p, r), Times(p, d))
    BY <1>2, Laws
  <2>2. Times(p, z) = Times(z, p) /\ Times(p, r) = y
    BY Laws
  <2> QED  BY ONLY <1>2, <2>1, <2>2
<1>8. Times(Plus(p, Times(z, e)), d) = Plus(u, w)
  <2>1. Times(d, Plus(p, Times(z, e))) = Plus(Times(d, p), Times(d, Times(z, e)))
    BY <1>2, <1>3, Laws
  <2>2. Plus(p, Times(z, e)) \in Field
    BY <1>3, Closed
  <2>3. Times(Plus(p, Times(z, e)), d) = Times(d, Plus(p, Times(z, e)))
    BY <1>2, <2>2, Laws
  <2>4. Times(d, Times(z, e)) = Times(z, Times(d, e)) /\ Times(d, e) = Times(e, d) /\ Times(d, p) = u
    BY <1>2, Swap, Laws
  <2> QED  BY ONLY <2>1, <2>3, <2>4
<1> HIDE DEF y, m, u, w
<1>9. Plus(m, Plus(Plus(y, u), w)) = Plus(x, Plus(u, w))
  <2>1. Plus(u, w) \in Field
    BY <1>3, <1>4, Closed
  <2>2. Plus(Plus(y, u), w) = Plus(y, Plus(u, w))
    BY <1>3, <1>4, Laws
  <2>3. Plus(m, Plus(y, Plus(u, w))) = Plus(y, Plus(m, Plus(u, w)))
    BY <1>3, <1>5, <2>1, Swap
  <2>4. Plus(Plus(y, m), Plus(u, w)) = Plus(y, Plus(m, Plus(u, w)))
    BY <1>3, <1>5, <2>1, Laws
  <2> QED  BY ONLY <1>5, <2>2, <2>3, <2>4
<1> QED  BY ONLY <1>1, <1>6, <1>7, <1>8, <1>9 DEF m, y

\* The product of a polynomial and X - r, whose leading coefficient stays.
LEMMA TimesLinearIs ==
    ASSUME NEW n \in Nat, NEW p \in Vector(n), NEW r \in Field
    PROVE  /\ TimesLinear(p, r) \in Vector(n + 1)
           /\ n > 0 => TimesLinear(p, r)[n + 1] = p[n]
           /\ \A z \in Field : Powers(z, TimesLinear(p, r)) = Times(Powers(z, p), Less(z, r))
<1>1. p \in Seq(Field) /\ Len(p) = n /\ n + 1 \in Nat
  BY VectorIs
<1> DEFINE Prev(k) == IF k > 1 THEN p[k - 1] ELSE Zero
           Rooted(k) == IF k <= n THEN Times(r, p[k]) ELSE Zero
<1>2. \A k \in 1..(n + 1) : Prev(k) \in Field
  <2>1. \A k \in 1..(n + 1) : k > 1 => k - 1 \in 1..n
    OBVIOUS
  <2> QED  BY <2>1, Closed DEF Vector
<1>3. \A k \in 1..(n + 1) : Rooted(k) \in Field
  <2>1. \A k \in 1..(n + 1) : k <= n => p[k] \in Field
    BY DEF Vector
  <2> QED  BY <2>1, Closed
<1>4. PICK t : t = [k \in 1..(n + 1) |-> Less(Prev(k), Rooted(k))]
  OBVIOUS
<1>5. TimesLinear(p, r) = Whole(t)
  BY <1>1, <1>4 DEF TimesLinear
<1>6. \A k \in 1..n : Rooted(k) = Times(r, p[k]) /\ Prev(k + 1) = p[k]
  OBVIOUS
<1>7. Rooted(n + 1) = Zero
  OBVIOUS
<1>8. Prev(1) = Zero
  OBVIOUS
<1> HIDE DEF Prev, Rooted
<1>9. t \in Vector(n + 1) /\ \A k \in 1..(n + 1) : t[k] = Less(Prev(k), Rooted(k))
  <2>1. \A k \in 1..(n + 1) : Less(Prev(k), Rooted(k)) \in Field
    BY <1>2, <1>3, Closed
  <2> QED  BY <1>4, <2>1 DEF Vector
<1>10. TimesLinear(p, r) = t
  BY <1>1, <1>5, <1>9, VectorIs
<1>11. ASSUME n > 0 PROVE t[n + 1] = p[n]
  <2>1. n \in 1..n /\ n + 1 \in 1..(n + 1)
    BY <1>11
  <2>2. t[n + 1] = Less(p[n], Zero) /\ p[n] \in Field
    BY <1>6, <1>7, <1>9, <2>1 DEF Vector
  <2> QED  BY <2>2, LessZero
<1>12. ASSUME NEW z \in Field PROVE Powers(z, t) = Times(Powers(z, p), Less(z, r))
  <2> DEFINE e == Horner(z, p)
             d == Less(z, r)
  <2>1. IsHorner(e, z, p, n) /\ d \in Field
    BY HornerIs, LessIs
  <2> HIDE DEF e
  <2>2. /\ e \in Vector(n + 1) /\ e[n + 1] = Zero
        /\ \A k \in 1..n : e[k] = Plus(p[k], Times(z, e[k + 1]))
    BY <2>1 DEF IsHorner
  <2>3. PICK f : f = [k \in 1..((n + 1) + 1) |->
                         IF k = n + 2 THEN Zero ELSE Plus(Prev(k), Times(e[k], d))]
    OBVIOUS
  <2>4. f[n + 2] = Zero /\ \A k \in 1..(n + 1) : f[k] = Plus(Prev(k), Times(e[k], d))
    <3>1. n + 2 \in 1..((n + 1) + 1) /\ \A k \in 1..(n + 1) : k \in 1..((n + 1) + 1) /\ k # n + 2
      OBVIOUS
    <3> QED  BY <2>3, <3>1
  <2>5. f \in Vector((n + 1) + 1)
    <3>1. \A k \in 1..(n + 1) : e[k] \in Field
      BY <2>2 DEF Vector
    <3> HIDE DEF d
    <3>2. \A k \in 1..(n + 1) : Times(e[k], d) \in Field
      BY <2>1, <3>1, Closed
    <3>3. \A k \in 1..(n + 1) : Plus(Prev(k), Times(e[k], d)) \in Field
      BY <1>2, <3>2, Closed
    <3>4. \A k \in 1..((n + 1) + 1) : k = n + 2 \/ k \in 1..(n + 1)
      OBVIOUS
    <3> QED  BY <2>3, <3>3, <3>4, Closed DEF Vector
  <2>6. ASSUME NEW k \in 1..(n + 1) PROVE f[k] = Plus(t[k], Times(z, f[k + 1]))
    <3>1. PICK x : x = Prev(k)
      OBVIOUS
    <3>2. x \in Field /\ t[k] = Less(x, Rooted(k)) /\ f[k] = Plus(x, Times(e[k], d))
      BY <1>2, <1>9, <2>4, <3>1
    <3>3. CASE k = n + 1
      <4>1. t[k] = Less(x, Zero) /\ f[k] = Plus(x, Times(Zero, d)) /\ f[k + 1] = Zero
        BY <1>7, <2>2, <2>4, <3>2, <3>3
      <4>2. Times(Zero, d) = Zero /\ Times(z, Zero) = Zero /\ Less(x, Zero) = x /\ Plus(x, Zero) = x
        BY <2>1, <3>2, TimesZero, LessZero, Laws, Closed
      <4> QED  BY ONLY <4>1, <4>2
    <3>4. CASE k # n + 1
      <4>1. k \in 1..n /\ k + 1 \in 1..(n + 1)
        BY <3>4
      <4>2. PICK y, u : y = p[k] /\ u = e[k + 1]
        OBVIOUS
      <4>3. y \in Field /\ u \in Field
        BY <2>2, <4>1, <4>2 DEF Vector
      <4>4. t[k] = Less(x, Times(r, y)) /\ f[k + 1] = Plus(y, Times(u, d))
        BY <1>6, <2>4, <3>2, <4>1, <4>2
      <4>5. e[k] = Plus(y, Times(z, u))
        BY <2>2, <4>1, <4>2
      <4>6. Plus(Less(x, Times(r, y)), Times(z, Plus(y, Times(u, d))))
                = Plus(x, Times(Plus(y, Times(z, u)), d))
        BY <3>2, <4>3, StepTimesLinear
      <4> QED  BY ONLY <3>2, <4>4, <4>5, <4>6
    <3> QED  BY <3>3, <3>4
  <2>7. IsHorner(f, z, t, n + 1)
    <3>1. (n + 1) + 1 = n + 2
      OBVIOUS
    <3> QED  BY <2>4, <2>5, <2>6, <3>1 DEF IsHorner
  <2>8. Powers(z, t) = f[1]
    BY <1>1, <1>9, <2>7, PowersIs
  <2>9. Powers(z, p) = e[1]
    BY <2>1, PowersIs
  <2>10. f[1] = Plus(Zero, Times(e[1], d))
    <3>1. 1 \in 1..(n + 1)
      OBVIOUS
    <3> QED  BY <1>8, <2>4, <3>1
  <2>11. e[1] \in Field
    BY <2>2 DEF Vector
  <2>12. Times(e[1], d) \in Field
    BY <2>1, <2>11, Closed
  <2>13. Plus(Zero, Times(e[1], d)) = Times(e[1], d)
    BY <2>12, Laws
  <2> QED  BY ONLY <2>8, <2>9, <2>10, <2>13
<1> QED  BY <1>9, <1>10, <1>11, <1>12

\* The coefficients of n polynomials at one power.
Column(polys, n, k) == [i \in 1..n |-> polys[i][k]]

\* One fold for every power, and the values of the polynomials.
FoldsColumns(fold, polys, a, n, l) == \A k \in 1..l : fold[k] = Powers(a, Column(polys, n, k))
AreValues(values, polys, z, n)     == \A i \in 1..n : values[i] = Powers(z, polys[i])

\* A fold of polynomials, coefficient by coefficient, has the fold of their values.
LEMMA FoldColumns ==
    ASSUME NEW n \in Nat, NEW l \in Nat, NEW polys \in Polynomials(n, l),
           NEW a \in Field, NEW fold \in Vector(l), FoldsColumns(fold, polys, a, n, l),
           NEW z \in Field, NEW values \in Vector(n), AreValues(values, polys, z, n)
    PROVE  Powers(z, fold) = Powers(a, values)
<1>1. \A i \in 1..n, k \in 1..l : polys[i] \in Vector(l) /\ polys[i][k] \in Field
  BY DEF Polynomials, Vector
<1>2. ASSUME NEW k \in 1..l PROVE Column(polys, n, k) \in Vector(n)
  BY <1>1 DEF Column, Vector
<1>3. PICK c : c = [k \in 1..l |-> Horner(a, Column(polys, n, k))]
  OBVIOUS
<1>4. ASSUME NEW k \in 1..l
      PROVE  /\ IsHorner(c[k], a, Column(polys, n, k), n)
             /\ fold[k] = c[k][1]
  <2>1. Column(polys, n, k) \in Vector(n) /\ c[k] = Horner(a, Column(polys, n, k)) /\ fold[k] = Powers(a, Column(polys, n, k))
    BY <1>2, <1>3 DEF FoldsColumns
  <2>2. IsHorner(c[k], a, Column(polys, n, k), n)
    BY <2>1, HornerIs
  <2>3. Powers(a, Column(polys, n, k)) = c[k][1]
    BY <2>1, <2>2, PowersIs
  <2> QED  BY <2>1, <2>2, <2>3
<1>5. ASSUME NEW k \in 1..l
      PROVE  /\ c[k] \in Vector(n + 1) /\ c[k][n + 1] = Zero
             /\ \A i \in 1..n : c[k][i] = Plus(polys[i][k], Times(a, c[k][i + 1]))
  <2>1. IsHorner(c[k], a, Column(polys, n, k), n)
    BY <1>4
  <2>2. /\ c[k] \in Vector(n + 1) /\ c[k][n + 1] = Zero
        /\ \A i \in 1..n : c[k][i] = Plus(Column(polys, n, k)[i], Times(a, c[k][i + 1]))
    BY <2>1 DEF IsHorner
  <2>3. \A i \in 1..n : Column(polys, n, k)[i] = polys[i][k]
    BY DEF Column
  <2> QED  BY <2>2, <2>3
<1>6. PICK m : m = [i \in 1..(n + 1) |-> [k \in 1..l |-> c[k][i]]]
  OBVIOUS
<1>7. ASSUME NEW i \in 1..(n + 1)
      PROVE  m[i] \in Vector(l) /\ \A k \in 1..l : m[i][k] = c[k][i]
  <2>1. \A k \in 1..l : c[k][i] \in Field
    BY <1>5 DEF Vector
  <2>2. m[i] = [k \in 1..l |-> c[k][i]]
    BY <1>6
  <2> QED  BY <2>1, <2>2 DEF Vector
<1>8. PICK f : f = [i \in 1..(n + 1) |-> Powers(z, m[i])]
  OBVIOUS
<1>9. \A i \in 1..(n + 1) : f[i] = Powers(z, m[i])
  BY <1>8
<1>10. f \in Vector(n + 1)
  <2>1. ASSUME NEW i \in 1..(n + 1) PROVE Powers(z, m[i]) \in Field
    <3>1. m[i] \in Vector(l)
      BY <1>7
    <3> QED  BY <3>1, PowersIs
  <2> QED  BY <1>8, <2>1 DEF Vector
<1>11. f[n + 1] = Zero
  <2>1. n + 1 \in 1..(n + 1)
    OBVIOUS
  <2>2. m[n + 1] \in Vector(l) /\ \A k \in 1..l : m[n + 1][k] = Zero
    BY <1>5, <1>7, <2>1
  <2>3. PICK s : s = m[n + 1]
    OBVIOUS
  <2>4. Powers(z, s) = Zero
    BY <2>2, <2>3, PowersZero
  <2> QED  BY <1>9, <2>1, <2>3, <2>4
<1>12. ASSUME NEW i \in 1..n PROVE f[i] = Plus(values[i], Times(a, f[i + 1]))
  <2>1. i \in 1..(n + 1) /\ i + 1 \in 1..(n + 1)
    OBVIOUS
  <2>2. PICK s, t, w : s = polys[i] /\ t = m[i + 1] /\ w = m[i]
    OBVIOUS
  <2>3. s \in Vector(l) /\ t \in Vector(l) /\ w \in Vector(l)
    <3>1. polys[i] \in Vector(l)
      BY DEF Polynomials
    <3>2. m[i] \in Vector(l)
      BY <1>7, <2>1
    <3>3. m[i + 1] \in Vector(l)
      BY <1>7, <2>1
    <3> QED  BY ONLY <2>2, <3>1, <3>2, <3>3
  <2>4. Combines(w, s, t, a, l)
    <3> SUFFICES ASSUME NEW k \in 1..l PROVE w[k] = Plus(s[k], Times(a, t[k]))
      BY DEF Combines
    <3>1. w[k] = c[k][i] /\ t[k] = c[k][i + 1]
      BY <1>7, <2>1, <2>2
    <3>2. c[k][i] = Plus(polys[i][k], Times(a, c[k][i + 1]))
      BY <1>5
    <3> QED  BY <2>2, <3>1, <3>2
  <2>5. Powers(z, w) = Plus(Powers(z, s), Times(a, Powers(z, t)))
    BY ONLY <2>3, <2>4, l \in Nat, a \in Field, z \in Field, PowersLinear
  <2>6. f[i] = Powers(z, w) /\ f[i + 1] = Powers(z, t) /\ values[i] = Powers(z, s)
    BY <1>9, <2>1, <2>2 DEF AreValues
  <2> QED  BY ONLY <2>5, <2>6
<1>13. IsHorner(f, a, values, n)
  BY <1>10, <1>11, <1>12 DEF IsHorner
<1>14. Powers(a, values) = f[1]
  BY ONLY <1>10, <1>13, n \in Nat, values \in Vector(n), a \in Field, PowersIs
<1>15. m[1] = fold
  <2>1. 1 \in 1..(n + 1)
    OBVIOUS
  <2>2. \A k \in 1..l : m[1][k] = fold[k]
    BY <1>4, <1>7, <2>1
  <2>3. m[1] \in Vector(l)
    BY <1>7, <2>1
  <2> QED  BY <2>2, <2>3 DEF Vector
<1>16. f[1] = Powers(z, fold)
  BY <1>9, <1>15
<1> QED  BY <1>14, <1>16

\* The fold of polynomials with N coefficients each.
LEMMA FoldPolysIs ==
    ASSUME NEW n \in Nat, NEW polys \in Polynomials(n, N), NEW a \in Field
    PROVE  /\ FoldPolys(a, polys) \in Vector(N)
           /\ \A k \in 1..N : FoldPolys(a, polys)[k] = Powers(a, Column(polys, n, k))
           /\ \A z \in Field, values \in Vector(n) :
                 AreValues(values, polys, z, n) => Powers(z, FoldPolys(a, polys)) = Powers(a, values)
<1>1. N \in Nat
  BY StatementAssumption
<1>2. Whole(polys) = polys /\ DOMAIN polys = 1..n
  <2>1. polys \in [1..n -> Vector(N)]
    BY DEF Polynomials
  <2> QED  BY <2>1, WholeIs, IsSequence
<1>3. PICK fold : fold = [k \in 1..N |-> Powers(a, Column(polys, n, k))]
  OBVIOUS
<1>4. FoldPolys(a, polys) = Whole(fold)
  BY <1>2, <1>3 DEF FoldPolys, Column
<1>5. ASSUME NEW k \in 1..N PROVE Powers(a, Column(polys, n, k)) \in Field
  <2>1. PICK s : s = Column(polys, n, k)
    OBVIOUS
  <2>2. s \in Vector(n)
    BY <2>1 DEF Column, Vector, Polynomials
  <2>3. Powers(a, s) \in Field
    BY <2>2, PowersIs
  <2> QED  BY <2>1, <2>3
<1>6. fold \in Vector(N) /\ \A k \in 1..N : fold[k] = Powers(a, Column(polys, n, k))
  BY <1>3, <1>5 DEF Vector
<1>7. FoldPolys(a, polys) = fold
  BY <1>1, <1>4, <1>6, VectorIs
<1>8. ASSUME NEW z \in Field, NEW values \in Vector(n), AreValues(values, polys, z, n)
      PROVE  Powers(z, fold) = Powers(a, values)
  <2>1. FoldsColumns(fold, polys, a, n, N)
    BY <1>6 DEF FoldsColumns
  <2> QED  BY ONLY <1>1, <1>6, <1>8, <2>1, n \in Nat, polys \in Polynomials(n, N), a \in Field,
          FoldColumns
<1> QED  BY <1>6, <1>7, <1>8

(* ------------------------- products and quotients ----------------------------- *)

\* Whatever follows the steps is a run.
LEMMA RunIs ==
    ASSUME NEW V, NEW x \in V, NEW n \in Nat, NEW step \in [Nat \X V -> V],
           NEW f, f = [i \in 0..n |-> f[i]], f[0] = x,
           \A i \in 0..(n - 1) : f[i] \in V => f[i + 1] = step[<<i, f[i]>>]
    PROVE  IsRun(f, V, x, step, n)
<1> DEFINE S == {i \in 0..n : f[i] \in V}
<1>1. 0 \in S
  OBVIOUS
<1>2. ASSUME NEW i \in 0..(n - 1), i \in S PROVE i + 1 \in S
  <2>1. f[i] \in V /\ i \in Nat /\ i + 1 \in 0..n
    BY <1>2
  <2>2. f[i + 1] = step[<<i, f[i]>>]
    BY <2>1
  <2> QED  BY <2>1, <2>2
<1> HIDE DEF S
<1>3. 0..n \subseteq S
  BY <1>1, <1>2, BoundedInduction
<1>4. \A i \in 0..n : f[i] \in V
  BY <1>3 DEF S
<1>5. f \in [0..n -> V]
  BY <1>4
<1>6. \A i \in 0..(n - 1) : f[i + 1] = step[<<i, f[i]>>]
  <2>1. \A i \in 0..(n - 1) : i \in 0..n
    OBVIOUS
  <2> QED  BY <1>4, <2>1
<1> QED  BY <1>5, <1>6 DEF IsRun

\* The products of the differences to the first points.
IsProduct(f, points, z, m) ==
    /\ f \in [0..m -> Field] /\ f[0] = One
    /\ \A i \in 0..(m - 1) : f[i + 1] = Times(f[i], Less(z, points[i + 1]))

LEMMA ProductIs ==
    ASSUME NEW m \in Nat, NEW points \in Vector(m), NEW z \in Field
    PROVE  \E f : IsProduct(f, points, z, m) /\ Product(points, z) = f[m]
<1> DEFINE IsUpto(f) == f = [i \in 0..m |-> IF i = 0 THEN One
                                            ELSE Times(f[i - 1], Less(z, points[i]))]
           upto == CHOOSE f : IsUpto(f)
<1>1. Len(points) = m /\ \A i \in 0..(m - 1) : i + 1 \in 1..m /\ points[i + 1] \in Field
  BY VectorIs
<1>2. Product(points, z) = upto[m]
  BY <1>1 DEF Product
<1>3. PICK step : step = [p \in Nat \X Field |->
                             IF p[1] < m THEN Times(p[2], Less(z, points[p[1] + 1])) ELSE p[2]]
  OBVIOUS
<1>4. /\ \A i \in 0..(m - 1), x \in Field : step[<<i, x>>] = Times(x, Less(z, points[i + 1]))
      /\ \A i \in Nat, x \in Field : ~(i < m) => step[<<i, x>>] = x
  BY <1>3
<1>5. step \in [Nat \X Field -> Field]
  <2>1. \A i \in 0..(m - 1) : Less(z, points[i + 1]) \in Field
    BY <1>1, Closed
  <2>2. \A i \in 0..(m - 1), x \in Field : Times(x, Less(z, points[i + 1])) \in Field
    BY <2>1, Closed
  <2>3. \A i \in Nat, x \in Field : step[<<i, x>>] \in Field
    <3>1. \A i \in Nat : i < m => i \in 0..(m - 1)
      OBVIOUS
    <3> QED  BY <1>4, <2>2, <3>1
  <2> QED  BY <1>3, <2>3
<1>6. PICK r : IsRun(r, Field, One, step, m)
  BY <1>5, RunExists, Closed
<1>7. /\ r \in [0..m -> Field] /\ r[0] = One
      /\ \A i \in 0..(m - 1) : r[i + 1] = step[<<i, r[i]>>]
  BY <1>6 DEF IsRun
<1>8. \A i \in 0..(m - 1) : r[i + 1] = Times(r[i], Less(z, points[i + 1]))
  <2>1. \A i \in 0..(m - 1) : r[i] \in Field
    BY <1>7
  <2> QED  BY <1>4, <1>7, <2>1
<1>9. IsUpto(r)
  <2>1. \A i \in 0..m : i # 0 => i - 1 \in 0..(m - 1) /\ (i - 1) + 1 = i
    OBVIOUS
  <2>2. \A i \in 0..m : r[i] = IF i = 0 THEN One ELSE Times(r[i - 1], Less(z, points[i]))
    BY <1>7, <1>8, <2>1
  <2> QED  BY <1>7, <2>2
<1>10. IsUpto(upto)
  BY <1>9
<1> HIDE DEF upto
<1>11. /\ upto = [i \in 0..m |-> upto[i]] /\ upto[0] = One
       /\ \A i \in 0..(m - 1) : upto[i + 1] = Times(upto[i], Less(z, points[i + 1]))
  <2>1. \A i \in 0..(m - 1) : i + 1 \in 0..m /\ i + 1 # 0 /\ (i + 1) - 1 = i
    OBVIOUS
  <2> QED  BY <1>10, <2>1
<1>12. IsRun(upto, Field, One, step, m)
  <2>1. \A i \in 0..(m - 1) : upto[i] \in Field => upto[i + 1] = step[<<i, upto[i]>>]
    BY <1>4, <1>11
  <2> QED  BY <1>5, <1>11, <2>1, RunIs, Closed
<1>13. IsProduct(upto, points, z, m)
  BY <1>11, <1>12 DEF IsRun, IsProduct
<1> QED  BY <1>2, <1>13

\* No product is zero unless a difference is.
LEMMA ProductNonzero ==
    ASSUME NEW m \in Nat, NEW points \in Vector(m), NEW z \in Field,
           NEW f, IsProduct(f, points, z, m), NEW i \in 0..m,
           \A j \in 1..i : z # points[j]
    PROVE  f[i] # Zero
<1>1. /\ f \in [0..m -> Field] /\ f[0] = One
      /\ \A k \in 0..(m - 1) : f[k + 1] = Times(f[k], Less(z, points[k + 1]))
  BY DEF IsProduct
<1> DEFINE S == {k \in 0..i : f[k] # Zero}
<1>2. 0 \in S
  BY <1>1, Closed
<1>3. ASSUME NEW k \in 0..(i - 1), k \in S PROVE k + 1 \in S
  <2>1. k \in 0..(m - 1) /\ k + 1 \in 1..i /\ k + 1 \in 1..m /\ k + 1 \in 0..i /\ k \in 0..m
    OBVIOUS
  <2>2. points[k + 1] \in Field /\ z # points[k + 1] /\ f[k] \in Field /\ f[k] # Zero
    BY <1>1, <1>3, <2>1, VectorIs
  <2>3. PICK x, y : x = f[k] /\ y = Less(z, points[k + 1])
    OBVIOUS
  <2>4. x \in Field /\ x # Zero
    BY <2>2, <2>3
  <2>5. y \in Field /\ y # Zero
    BY <2>2, <2>3, LessIs, LessZero
  <2>6. Times(x, y) # Zero
    BY <2>4, <2>5, NoZeroDivisors
  <2>7. f[k + 1] = Times(x, y)
    BY <1>1, <2>1, <2>3
  <2> QED  BY <2>1, <2>6, <2>7
<1> HIDE DEF S
<1>4. i \in Nat /\ i \in 0..i
  OBVIOUS
<1>5. 0..i \subseteq S
  BY <1>2, <1>3, <1>4, BoundedInduction
<1>6. i \in S
  BY <1>4, <1>5
<1> QED  BY <1>6 DEF S

\* The product over all points.
LEMMA ProductType ==
    ASSUME NEW m \in Nat, NEW points \in Vector(m), NEW z \in Field
    PROVE  /\ Product(points, z) \in Field
           /\ (\A j \in 1..m : z # points[j]) => Product(points, z) # Zero
<1>1. PICK f : IsProduct(f, points, z, m) /\ Product(points, z) = f[m]
  BY ProductIs
<1>2. f[m] \in Field
  BY <1>1 DEF IsProduct
<1>3. (\A j \in 1..m : z # points[j]) => f[m] # Zero
  BY <1>1, ProductNonzero
<1> QED  BY <1>1, <1>2, <1>3

\* Divisions one after another.
IsDivided(g, p, points, m) ==
    g[0] = p /\ \A i \in 0..(m - 1) : g[i + 1] = Kate(g[i], points[i + 1])

LEMMA DividedUnfold ==
    ASSUME NEW n \in Nat, NEW p \in Vector(n), NEW m \in Nat, m <= n, NEW points \in Vector(m)
    PROVE  \E g : IsDivided(g, p, points, m) /\ Divided(p, points) = g[m]
<1> DEFINE IsUpto(f) == f = [i \in 0..m |-> IF i = 0 THEN p ELSE Kate(f[i - 1], points[i])]
           upto == CHOOSE f : IsUpto(f)
<1>1. Len(points) = m /\ p \in Seq(Field) /\ \A i \in 0..(m - 1) : points[i + 1] \in Field
  BY VectorIs
<1>2. Divided(p, points) = upto[m]
  BY <1>1 DEF Divided
<1> DEFINE Sized == {s \in Seq(Field) : s \in Vector(Len(s))}
<1>3. p \in Sized
  BY <1>1, VectorIs
<1>4. PICK step : step = [q \in Nat \X Sized |->
                             IF q[1] < m /\ Len(q[2]) >= 1 THEN Kate(q[2], points[q[1] + 1]) ELSE q[2]]
  OBVIOUS
<1>5. \A i \in Nat, s \in Sized :
          step[<<i, s>>] = IF i < m /\ Len(s) >= 1 THEN Kate(s, points[i + 1]) ELSE s
  BY <1>4
<1>6. ASSUME NEW i \in 0..(m - 1), NEW s \in Sized, Len(s) >= 1
      PROVE  /\ Kate(s, points[i + 1]) \in Sized /\ Len(Kate(s, points[i + 1])) = Len(s) - 1
  <2>1. Len(s) \in Nat /\ Len(s) - 1 \in Nat /\ s \in Vector(Len(s)) /\ points[i + 1] \in Field
    BY <1>1, <1>6
  <2>2. PICK l, r : l = Len(s) /\ r = points[i + 1]
    OBVIOUS
  <2>3. Kate(s, r) \in Vector(l - 1)
    BY <1>6, <2>1, <2>2, KateIs
  <2>4. Kate(s, r) \in Seq(Field) /\ Len(Kate(s, r)) = l - 1
    BY <2>1, <2>2, <2>3, VectorIs
  <2> QED  BY <2>2, <2>3, <2>4
<1>7. step \in [Nat \X Sized -> Sized]
  <2>1. \A i \in Nat, s \in Sized : step[<<i, s>>] \in Sized
    <3>1. \A i \in Nat : i < m => i \in 0..(m - 1)
      OBVIOUS
    <3> HIDE DEF Sized
    <3> QED  BY <1>5, <1>6, <3>1
  <2> HIDE DEF Sized
  <2> QED  BY <1>4, <2>1
<1> HIDE DEF Sized
<1>8. PICK r : IsRun(r, Sized, p, step, m)
  BY <1>3, <1>7, RunExists
<1>9. /\ r \in [0..m -> Sized] /\ r[0] = p
      /\ \A i \in 0..(m - 1) : r[i + 1] = step[<<i, r[i]>>]
  BY <1>8 DEF IsRun
<1> DEFINE S == {i \in 0..m : Len(r[i]) = n - i}
<1>10. 0 \in S
  BY <1>9, VectorIs
<1>11. ASSUME NEW i \in 0..(m - 1), i \in S
       PROVE  i + 1 \in S /\ r[i + 1] = Kate(r[i], points[i + 1])
  <2>1. i \in 0..m /\ i + 1 \in 0..m /\ i < m /\ i \in Nat
    OBVIOUS
  <2>2. Len(r[i]) = n - i /\ r[i] \in Sized /\ Len(r[i]) >= 1
    BY <1>9, <1>11, <2>1
  <2>3. r[i + 1] = Kate(r[i], points[i + 1])
    BY <1>5, <1>9, <2>1, <2>2
  <2>4. Len(r[i + 1]) = n - (i + 1)
    BY <1>6, <2>2, <2>3
  <2> QED  BY <2>1, <2>3, <2>4
<1> HIDE DEF S
<1>12. 0..m \subseteq S
  BY <1>10, <1>11, BoundedInduction
<1>13. \A i \in 0..(m - 1) : r[i + 1] = Kate(r[i], points[i + 1])
  <2>1. \A i \in 0..(m - 1) : i \in 0..m
    OBVIOUS
  <2> QED  BY <1>11, <1>12, <2>1
<1>14. IsUpto(r)
  <2>1. \A i \in 0..m : i # 0 => i - 1 \in 0..(m - 1) /\ (i - 1) + 1 = i
    OBVIOUS
  <2>2. \A i \in 0..m : r[i] = IF i = 0 THEN p ELSE Kate(r[i - 1], points[i])
    BY <1>9, <1>13, <2>1
  <2> QED  BY <1>9, <2>2
<1>15. IsUpto(upto)
  BY <1>14
<1> HIDE DEF upto
<1>16. upto[0] = p /\ \A i \in 0..(m - 1) : upto[i + 1] = Kate(upto[i], points[i + 1])
  <2>1. \A i \in 0..(m - 1) : i + 1 \in 0..m /\ i + 1 # 0 /\ (i + 1) - 1 = i
    OBVIOUS
  <2> QED  BY <1>15, <2>1
<1> QED  BY <1>2, <1>16 DEF IsDivided

\* The points are roots.
Vanishes(p, points, m) == \A i \in 1..m : Powers(points[i], p) = Zero

\* The roots of a polynomial can be divided out, one after another: what is left has
\* the same leading coefficient and the other roots.
LEMMA DividedIs ==
    ASSUME NEW n \in Nat, NEW p \in Vector(n), NEW m \in Nat, m <= n, NEW points \in Vector(m),
           Distinct(points), Vanishes(p, points, m)
    PROVE  /\ Divided(p, points) \in Vector(n - m)
           /\ n > m => Divided(p, points)[n - m] = p[n]
           /\ \A z \in Field : Powers(z, p) = Times(Powers(z, Divided(p, points)), Product(points, z))
<1>1. PICK g : IsDivided(g, p, points, m) /\ Divided(p, points) = g[m]
  BY DividedUnfold
<1>2. g[0] = p /\ \A i \in 0..(m - 1) : g[i + 1] = Kate(g[i], points[i + 1])
  BY <1>1 DEF IsDivided
<1>3. Len(points) = m /\ \A i \in 1..m : points[i] \in Field
  BY VectorIs
<1> DEFINE Factors(i) == \A z \in Field : \A f : IsProduct(f, points, z, m) =>
                             Powers(z, p) = Times(Powers(z, g[i]), f[i])
           Left(i) == g[i] \in Vector(n - i) /\ (n > i => g[i][n - i] = p[n])
           S == {i \in 0..m : Left(i) /\ Factors(i)}
<1>4. 0 \in S
  <2>1. n - 0 = n /\ Left(0)
    BY <1>2
  <2>2. ASSUME NEW z \in Field, NEW f, IsProduct(f, points, z, m)
        PROVE  Powers(z, p) = Times(Powers(z, g[0]), f[0])
    <3>1. f[0] = One /\ Powers(z, p) \in Field
      BY <2>2, PowersIs DEF IsProduct
    <3>2. Times(Powers(z, p), One) = Powers(z, p)
      BY <3>1, Laws
    <3> QED  BY <1>2, <3>1, <3>2
  <2>3. Factors(0)
    BY <2>2
  <2> HIDE DEF Left, Factors
  <2> QED  BY <2>1, <2>3
<1>5. ASSUME NEW i \in 0..(m - 1), i \in S PROVE i + 1 \in S
  <2> DEFINE r == points[i + 1]
             l == n - i
             q == g[i]
             k == Kate(q, r)
  <2>1. /\ i \in Nat /\ i \in 0..m /\ i + 1 \in 0..m /\ i + 1 \in 1..m /\ l \in Nat /\ l >= 1
        /\ l - 1 = n - (i + 1) /\ n > i
    OBVIOUS
  <2>2. r \in Field /\ g[i + 1] = k
    BY <1>2, <1>3, <2>1
  <2>3. Left(i) /\ Factors(i)
    BY <1>5
  <2>4. q \in Vector(l) /\ q[l] = p[n]
    BY <2>1, <2>3
  <2> HIDE DEF r, l, q, k
  <2>5. /\ k \in Vector(l - 1) /\ (l > 1 => k[l - 1] = q[l])
        /\ \A z \in Field : Powers(z, q) = Plus(Times(Powers(z, k), Less(z, r)), Powers(r, q))
    BY <2>1, <2>2, <2>4, KateIs DEF k
  <2>6. Powers(r, q) = Zero
    <3>1. PICK f : IsProduct(f, points, r, m)
      BY <2>2, ProductIs
    <3>2. f[i] # Zero
      <4>1. \A j \in 1..i : r # points[j]
        <5>1. \A j \in 1..i : j \in 1..Len(points) /\ i + 1 \in 1..Len(points) /\ j # i + 1
          BY <1>3, <2>1
        <5> QED  BY <5>1 DEF Distinct, r
      <4> QED  BY <2>1, <2>2, <3>1, <4>1, ProductNonzero
    <3>3. Powers(r, p) = Times(Powers(r, q), f[i])
      BY <2>2, <2>3, <3>1 DEF q
    <3>4. Powers(r, p) = Zero
      BY <2>1 DEF Vanishes, r
    <3>5. Powers(r, q) \in Field /\ f[i] \in Field
      BY <2>1, <2>2, <2>4, <3>1, PowersIs DEF IsProduct
    <3> QED  BY ONLY <3>2, <3>3, <3>4, <3>5, NoZeroDivisors
  <2>7. ASSUME NEW z \in Field, NEW f, IsProduct(f, points, z, m)
        PROVE  Powers(z, p) = Times(Powers(z, k), f[i + 1])
    <3>1. PICK a, d, e : a = Powers(z, k) /\ d = Less(z, r) /\ e = f[i]
      OBVIOUS
    <3>2. l - 1 \in Nat
      BY <2>1
    <3>3. a \in Field /\ d \in Field /\ e \in Field
      BY <2>1, <2>2, <2>5, <2>7, <3>1, <3>2, PowersIs, LessIs DEF IsProduct
    <3>4. Powers(z, p) = Times(Powers(z, q), e)
      BY <2>3, <2>7, <3>1 DEF q
    <3>5. Powers(z, q) = Plus(Times(a, d), Zero)
      BY <2>5, <2>6, <3>1
    <3>6. Times(a, d) \in Field
      BY <3>3, Closed
    <3>7. Plus(Times(a, d), Zero) = Times(a, d)
      BY <3>6, Laws
    <3>8. Times(Times(a, d), e) = Times(a, Times(d, e)) /\ Times(d, e) = Times(e, d)
      BY <3>3, Laws
    <3>9. f[i + 1] = Times(e, d)
      BY <2>1, <2>7, <3>1 DEF IsProduct, r
    <3> QED  BY ONLY <3>1, <3>4, <3>5, <3>7, <3>8, <3>9
  <2>8. Left(i + 1)
    <3>1. k \in Vector(n - (i + 1)) /\ (n > i + 1 => k[n - (i + 1)] = p[n])
      BY <2>1, <2>4, <2>5
    <3> QED  BY <2>2, <3>1
  <2>9. Factors(i + 1)
    BY <2>2, <2>7
  <2> HIDE DEF Left, Factors
  <2> QED  BY <2>1, <2>8, <2>9
<1> HIDE DEF S
<1>6. 0..m \subseteq S
  BY <1>4, <1>5, BoundedInduction
<1>7. m \in S
  BY <1>6
<1>8. Left(m) /\ Factors(m)
  BY <1>7 DEF S
<1>9. ASSUME NEW z \in Field
      PROVE  Powers(z, p) = Times(Powers(z, g[m]), Product(points, z))
  <2>1. PICK f : IsProduct(f, points, z, m) /\ Product(points, z) = f[m]
    BY ProductIs
  <2> QED  BY <1>8, <2>1
<1> QED  BY <1>1, <1>8, <1>9

\* A polynomial with as many roots as coefficients is zero everywhere.
LEMMA ManyRoots ==
    ASSUME NEW n \in Nat, NEW p \in Vector(n), NEW points \in Vector(n), Distinct(points),
           Vanishes(p, points, n), NEW z \in Field
    PROVE  Powers(z, p) = Zero
<1> DEFINE q == Divided(p, points)
<1>1. q \in Vector(n - n) /\ Powers(z, p) = Times(Powers(z, q), Product(points, z))
  BY DividedIs
<1>2. n - n = 0 /\ 0 \in Nat
  OBVIOUS
<1> HIDE DEF q
<1>3. q \in Vector(0)
  BY <1>1, <1>2
<1>4. Powers(z, q) = Zero
  BY <1>3, PowersZero
<1>5. Product(points, z) \in Field
  BY ProductType
<1>6. Times(Zero, Product(points, z)) = Zero
  BY <1>5, TimesZero
<1> QED  BY ONLY <1>1, <1>4, <1>6

\* A monic polynomial is the product over its roots.
LEMMA MonicIs ==
    ASSUME NEW m \in Nat, NEW p \in Vector(m + 1), p[m + 1] = One, NEW points \in Vector(m),
           Distinct(points), Vanishes(p, points, m), NEW z \in Field
    PROVE  Powers(z, p) = Product(points, z)
<1> DEFINE q == Divided(p, points)
<1>1. m + 1 \in Nat /\ m <= m + 1 /\ m + 1 > m /\ (m + 1) - m = 1 /\ 1 \in Nat
  OBVIOUS
<1>2. /\ q \in Vector((m + 1) - m) /\ q[(m + 1) - m] = p[m + 1]
      /\ Powers(z, p) = Times(Powers(z, q), Product(points, z))
  BY <1>1, DividedIs
<1> HIDE DEF q
<1>3. q \in Vector(1) /\ q[1] = One
  BY <1>1, <1>2
<1>4. Powers(z, q) = One
  <2>1. IsHorner(Horner(z, q), z, q, 1) /\ Powers(z, q) = Horner(z, q)[1]
    BY <1>3, HornerIs, PowersIs
  <2>2. Horner(z, q)[1 + 1] = Zero /\ Horner(z, q)[1] = Plus(q[1], Times(z, Horner(z, q)[1 + 1]))
    BY <2>1 DEF IsHorner
  <2>3. Times(z, Zero) = Zero /\ Plus(One, Zero) = One
    BY TimesZero, Laws, Closed
  <2> QED  BY ONLY <1>3, <2>1, <2>2, <2>3
<1>5. Product(points, z) \in Field
  BY ProductType
<1>6. Times(One, Product(points, z)) = Product(points, z)
  BY <1>5, Laws
<1> QED  BY ONLY <1>2, <1>4, <1>6

(* ------------------------------ interpolation --------------------------------- *)

\* The multiplications by X - p for all points but the k-th.
IsBasis(g, points, k, m) ==
    /\ g[0] = <<One>>
    /\ \A i \in 0..(m - 1) : g[i + 1] = IF i + 1 = k THEN g[i] ELSE TimesLinear(g[i], points[i + 1])

LEMMA BasisUnfold ==
    ASSUME NEW m \in Nat, NEW points \in Vector(m), NEW k
    PROVE  \E g : IsBasis(g, points, k, m) /\ Basis(points, k) = g[m]
<1> DEFINE IsUpto(f) == f = [i \in 0..m |-> IF i = 0 THEN <<One>> ELSE IF i = k THEN f[i - 1]
                                            ELSE TimesLinear(f[i - 1], points[i])]
           upto == CHOOSE f : IsUpto(f)
<1>1. Len(points) = m /\ \A i \in 0..(m - 1) : points[i + 1] \in Field
  BY VectorIs
<1>2. Basis(points, k) = upto[m]
  BY <1>1 DEF Basis
<1> DEFINE Sized == {s \in Seq(Field) : s \in Vector(Len(s))}
<1>3. <<One>> \in Sized
  <2>1. <<One>> \in Seq(Field) /\ Len(<<One>>) = 1 /\ <<One>> \in [1..1 -> Field]
    BY Closed
  <2> QED  BY <2>1 DEF Vector
<1>4. PICK step : step = [q \in Nat \X Sized |->
                             IF q[1] < m /\ q[1] + 1 # k THEN TimesLinear(q[2], points[q[1] + 1]) ELSE q[2]]
  OBVIOUS
<1>5. \A i \in Nat, s \in Sized :
          step[<<i, s>>] = IF i < m /\ i + 1 # k THEN TimesLinear(s, points[i + 1]) ELSE s
  BY <1>4
<1>6. ASSUME NEW i \in 0..(m - 1), NEW s \in Sized
      PROVE  TimesLinear(s, points[i + 1]) \in Sized
  <2>1. Len(s) \in Nat /\ Len(s) + 1 \in Nat /\ s \in Vector(Len(s)) /\ points[i + 1] \in Field
    BY <1>1
  <2>2. PICK l, r : l = Len(s) /\ r = points[i + 1]
    OBVIOUS
  <2>3. TimesLinear(s, r) \in Vector(l + 1)
    BY <2>1, <2>2, TimesLinearIs
  <2>4. TimesLinear(s, r) \in Seq(Field) /\ Len(TimesLinear(s, r)) = l + 1
    BY <2>1, <2>2, <2>3, VectorIs
  <2> QED  BY <2>2, <2>3, <2>4
<1>7. step \in [Nat \X Sized -> Sized]
  <2>1. \A i \in Nat, s \in Sized : step[<<i, s>>] \in Sized
    <3>1. \A i \in Nat : i < m => i \in 0..(m - 1)
      OBVIOUS
    <3> HIDE DEF Sized
    <3> QED  BY <1>5, <1>6, <3>1
  <2> HIDE DEF Sized
  <2> QED  BY <1>4, <2>1
<1> HIDE DEF Sized
<1>8. PICK r : IsRun(r, Sized, <<One>>, step, m)
  BY <1>3, <1>7, RunExists
<1>9. /\ r \in [0..m -> Sized] /\ r[0] = <<One>>
      /\ \A i \in 0..(m - 1) : r[i + 1] = step[<<i, r[i]>>]
  BY <1>8 DEF IsRun
<1>10. \A i \in 0..(m - 1) : r[i + 1] = IF i + 1 = k THEN r[i] ELSE TimesLinear(r[i], points[i + 1])
  <2>1. \A i \in 0..(m - 1) : i \in 0..m /\ i \in Nat /\ i < m
    OBVIOUS
  <2>2. \A i \in 0..(m - 1) : r[i] \in Sized
    BY <1>9, <2>1
  <2> QED  BY <1>5, <1>9, <2>1, <2>2
<1>11. IsUpto(r)
  <2>1. \A i \in 0..m : i # 0 => i - 1 \in 0..(m - 1) /\ (i - 1) + 1 = i
    OBVIOUS
  <2>2. \A i \in 0..m : r[i] = IF i = 0 THEN <<One>> ELSE IF i = k THEN r[i - 1]
                               ELSE TimesLinear(r[i - 1], points[i])
    BY <1>9, <1>10, <2>1
  <2> QED  BY <1>9, <2>2
<1>12. IsUpto(upto)
  BY <1>11
<1> HIDE DEF upto
<1>13. /\ upto[0] = <<One>>
       /\ \A i \in 0..(m - 1) :
             upto[i + 1] = IF i + 1 = k THEN upto[i] ELSE TimesLinear(upto[i], points[i + 1])
  <2>1. \A i \in 0..(m - 1) : i + 1 \in 0..m /\ i + 1 # 0 /\ (i + 1) - 1 = i
    OBVIOUS
  <2> QED  BY <1>12, <2>1
<1> QED  BY <1>2, <1>13 DEF IsBasis

\* How many points a basis polynomial vanishes at.
Without(k, i) == IF k \in 1..i THEN i - 1 ELSE i

\* A basis polynomial is monic, and vanishes at all points but its own.
LEMMA BasisIs ==
    ASSUME NEW m \in Nat, NEW points \in Vector(m), NEW k \in Nat
    PROVE  /\ Basis(points, k) \in Vector(Without(k, m) + 1)
           /\ Basis(points, k)[Without(k, m) + 1] = One
           /\ \A j \in 1..m : j # k => Powers(points[j], Basis(points, k)) = Zero
<1>1. PICK g : IsBasis(g, points, k, m) /\ Basis(points, k) = g[m]
  BY BasisUnfold
<1>2. /\ g[0] = <<One>>
      /\ \A i \in 0..(m - 1) : g[i + 1] = IF i + 1 = k THEN g[i] ELSE TimesLinear(g[i], points[i + 1])
  BY <1>1 DEF IsBasis
<1>3. \A i \in 1..m : points[i] \in Field
  BY VectorIs
<1> DEFINE Monic(i) == g[i] \in Vector(Without(k, i) + 1) /\ g[i][Without(k, i) + 1] = One
           Roots(i) == \A j \in 1..i : j # k => Powers(points[j], g[i]) = Zero
           S == {i \in 0..m : Monic(i) /\ Roots(i)}
<1>4. 0 \in S
  <2>1. Without(k, 0) + 1 = 1
    BY DEF Without
  <2>2. <<One>> \in [1..1 -> Field] /\ <<One>>[1] = One
    BY Closed
  <2>3. Monic(0)
    BY <1>2, <2>1, <2>2 DEF Vector
  <2>4. Roots(0)
    OBVIOUS
  <2> HIDE DEF Monic, Roots
  <2> QED  BY <2>3, <2>4
<1>5. ASSUME NEW i \in 0..(m - 1), i \in S PROVE i + 1 \in S
  <2>1. i \in Nat /\ i + 1 \in 0..m /\ i + 1 \in 1..m /\ Without(k, i) + 1 \in Nat /\ Without(k, i) \in Nat
    BY DEF Without
  <2>2. Monic(i) /\ Roots(i)
    BY <1>5
  <2>3. CASE i + 1 = k
    <3>1. g[i + 1] = g[i] /\ Without(k, i + 1) = i /\ Without(k, i) = i
      BY <1>2, <2>3 DEF Without
    <3>2. Monic(i + 1)
      BY <2>2, <3>1
    <3>3. Roots(i + 1)
      <4>1. \A j \in 1..(i + 1) : j # k => j \in 1..i
        BY <2>3
      <4> QED  BY <2>2, <3>1, <4>1
    <3> HIDE DEF Monic, Roots
    <3> QED  BY <2>1, <3>2, <3>3
  <2>4. CASE i + 1 # k
    <3> DEFINE r == points[i + 1]
               l == Without(k, i) + 1
               q == g[i]
               t == TimesLinear(q, r)
    <3>1. g[i + 1] = t /\ Without(k, i + 1) + 1 = l + 1 /\ r \in Field /\ l \in Nat /\ l > 0
      BY <1>2, <1>3, <2>1, <2>4 DEF Without
    <3>2. q \in Vector(l) /\ q[l] = One
      BY <2>2
    <3> HIDE DEF r, l, q, t
    <3>3. /\ t \in Vector(l + 1) /\ t[l + 1] = q[l]
          /\ \A z \in Field : Powers(z, t) = Times(Powers(z, q), Less(z, r))
      BY <3>1, <3>2, TimesLinearIs DEF t
    <3>4. Monic(i + 1)
      BY <3>1, <3>2, <3>3
    <3>5. ASSUME NEW j \in 1..(i + 1), j # k PROVE Powers(points[j], t) = Zero
      <4>1. j \in 1..m
        BY <2>1
      <4>2. PICK z : z = points[j]
        OBVIOUS
      <4>3. z \in Field
        BY <1>3, <4>1, <4>2
      <4>4. PICK a, d : a = Powers(z, q) /\ d = Less(z, r)
        OBVIOUS
      <4>5. a \in Field /\ d \in Field /\ Powers(z, t) = Times(a, d)
        BY <3>1, <3>2, <3>3, <4>3, <4>4, PowersIs, LessIs
      <4>6. CASE j = i + 1
        <5>1. z = r
          BY <4>2, <4>6 DEF r
        <5>2. d = Zero
          BY <3>1, <4>4, <5>1, LessZero
        <5> QED  BY <4>2, <4>5, <5>2, TimesZero
      <4>7. CASE j # i + 1
        <5>1. j \in 1..i
          BY <4>7
        <5>2. a = Zero
          BY <2>2, <3>5, <4>2, <4>4, <5>1 DEF q
        <5> QED  BY <4>2, <4>5, <5>2, TimesZero
      <4> QED  BY <4>6, <4>7
    <3>6. Roots(i + 1)
      BY <3>1, <3>5
    <3> HIDE DEF Monic, Roots
    <3> QED  BY <2>1, <3>4, <3>6
  <2> QED  BY <2>3, <2>4
<1> HIDE DEF S
<1>6. 0..m \subseteq S
  BY <1>4, <1>5, BoundedInduction
<1>7. m \in S
  BY <1>6
<1>8. Monic(m) /\ Roots(m)
  BY <1>7 DEF S
<1> QED  BY <1>1, <1>8

\* Its value is the product over the other points, in any order.
LEMMA BasisValue ==
    ASSUME NEW m \in Nat, NEW points \in Vector(m), NEW k \in Nat,
           NEW others \in Vector(Without(k, m)), Distinct(others),
           \A i \in 1..Without(k, m) : \E j \in 1..m : j # k /\ others[i] = points[j],
           NEW z \in Field
    PROVE  Powers(z, Basis(points, k)) = Product(others, z)
<1> DEFINE l == Without(k, m)
           b == Basis(points, k)
<1>1. l \in Nat
  BY DEF Without
<1>2. b \in Vector(l + 1) /\ b[l + 1] = One /\ \A j \in 1..m : j # k => Powers(points[j], b) = Zero
  BY BasisIs
<1>3. Vanishes(b, others, l)
  <2> HIDE DEF b
  <2> QED  BY <1>2 DEF Vanishes
<1>4. others \in Vector(l) /\ Distinct(others)
  OBVIOUS
<1> HIDE DEF l, b
<1>5. Powers(z, b) = Product(others, z)
  BY <1>1, <1>2, <1>3, <1>4, MonicIs
<1> QED  BY <1>5 DEF b

\* The order of the points does not matter to their product.
LEMMA ProductOrder ==
    ASSUME NEW m \in Nat, NEW points \in Vector(m), NEW others \in Vector(m),
           Distinct(points), Distinct(others), Range(points) = Range(others), NEW z \in Field
    PROVE  Product(points, z) = Product(others, z)
<1> DEFINE b == Basis(points, 0)
<1>1. Without(0, m) = m /\ 0 \in Nat
  BY DEF Without
<1>2. /\ DOMAIN points = 1..m /\ DOMAIN others = 1..m
  BY VectorIs
<1>3. \A i \in 1..m : \E j \in 1..m : j # 0 /\ points[i] = points[j]
  OBVIOUS
<1>4. \A i \in 1..m : \E j \in 1..m : j # 0 /\ others[i] = points[j]
  BY <1>2 DEF Range
<1>5. Powers(z, b) = Product(points, z)
  BY <1>1, <1>3, BasisValue
<1>6. Powers(z, b) = Product(others, z)
  BY <1>1, <1>4, BasisValue
<1> QED  BY ONLY <1>5, <1>6

\* m points of a set, each once.
IsList(points, m, S) == points \in Vector(m) /\ Distinct(points) /\ Range(points) = S

\* A set that is listed is finite, and has as many points as the list.
LEMMA ListedSize ==
    ASSUME NEW m \in Nat, NEW points, NEW S, IsList(points, m, S)
    PROVE  IsFiniteSet(S) /\ Cardinality(S) = m /\ S \subseteq Field
<1>1. /\ DOMAIN points = 1..m /\ Len(points) = m /\ \A k \in 1..m : points[k] \in Field
      /\ S = {points[k] : k \in 1..m} /\ \A j, k \in 1..m : points[j] = points[k] => j = k
  BY VectorIs DEF IsList, Range, Distinct
<1>2. PICK f : f = [k \in 1..m |-> points[k]]
  OBVIOUS
<1>3. f \in [1..m -> S] /\ IsInjective(f) /\ \A t \in S : \E k \in 1..m : f[k] = t
  BY <1>1, <1>2 DEF IsInjective
<1>4. f \in Bijection(1..m, S)
  BY <1>3 DEF Bijection, Injection, Surjection
<1>5. ExistsBijection(1..m, S)
  BY <1>4 DEF ExistsBijection
<1>6. IsFiniteSet(1..m) /\ Cardinality(1..m) = m
  <2>1. 1 \in Int /\ m \in Int /\ (IF 1 > m THEN 0 ELSE m - 1 + 1) = m
    OBVIOUS
  <2> QED  BY <2>1, FS_Interval
<1>7. IsFiniteSet(S) /\ Cardinality(S) = Cardinality(1..m)
  BY <1>5, <1>6, FS_Bijection
<1> QED  BY <1>1, <1>6, <1>7

\* A finite set of points is listed by the sequence made from it.
LEMMA SetToSeqIs ==
    ASSUME NEW S \in SUBSET Field, IsFiniteSet(S)
    PROVE  Cardinality(S) \in Nat /\ IsList(SetToSeq(S), Cardinality(S), S)
<1> DEFINE m == Cardinality(S)
           s == SetToSeq(S)
<1>1. m \in Nat /\ ExistsBijection(1..m, S)
  BY FS_CardinalityType
<1>2. PICK f : f \in [1..m -> S] /\ IsInjective(f)
  BY <1>1 DEF ExistsBijection, Bijection, Injection
<1>3. s \in [1..m -> S] /\ IsInjective(s)
  BY <1>2 DEF SetToSeq
<1> HIDE DEF s
<1>4. Cardinality(1..m) = m
  <2>1. 1 \in Int /\ m \in Int /\ (IF 1 > m THEN 0 ELSE m - 1 + 1) = m
    BY <1>1
  <2> QED  BY <2>1, FS_Interval
<1>5. s \in Injection(1..m, S)
  BY <1>3 DEF Injection
<1>6. s \in Surjection(1..m, S)
  BY <1>4, <1>5, FS_Injection
<1>7. \A t \in S : \E k \in 1..m : s[k] = t
  BY <1>6 DEF Surjection
<1>8. s \in Vector(m)
  BY <1>3 DEF Vector
<1>9. Len(s) = m /\ DOMAIN s = 1..m
  BY <1>1, <1>8, VectorIs
<1>10. Distinct(s)
  BY <1>3, <1>9 DEF Distinct, IsInjective
<1>11. Range(s) = S
  BY <1>3, <1>7, <1>9 DEF Range
<1> QED  BY <1>1, <1>8, <1>10, <1>11 DEF IsList, s

\* The vanishing polynomial of a set that is listed.
LEMMA VanishingIs ==
    ASSUME NEW m \in Nat, NEW points, NEW S, IsList(points, m, S), NEW z \in Field
    PROVE  Vanishing(S, z) = Product(points, z)
<1>1. IsFiniteSet(S) /\ Cardinality(S) = m /\ S \in SUBSET Field
  BY ListedSize
<1>2. PICK s : s = SetToSeq(S)
  OBVIOUS
<1>3. IsList(s, m, S)
  BY <1>1, <1>2, SetToSeqIs
<1>4. Product(s, z) = Product(points, z)
  BY <1>3, ProductOrder DEF IsList
<1> QED  BY <1>2, <1>4 DEF Vanishing

\* It is zero at points of the set alone.
LEMMA VanishingType ==
    ASSUME NEW S \in SUBSET Field, IsFiniteSet(S), NEW z \in Field
    PROVE  Vanishing(S, z) \in Field /\ (z \notin S => Vanishing(S, z) # Zero)
<1>1. PICK m, s : m = Cardinality(S) /\ s = SetToSeq(S)
  OBVIOUS
<1>2. m \in Nat /\ IsList(s, m, S)
  BY <1>1, SetToSeqIs
<1>3. s \in Vector(m) /\ S = {s[k] : k \in 1..m}
  BY <1>2, VectorIs DEF IsList, Range
<1>4. Product(s, z) \in Field /\ (z \notin S => Product(s, z) # Zero)
  BY <1>2, <1>3, ProductType
<1> QED  BY <1>1, <1>4 DEF Vanishing

\* That of a set is the product of those of two parts of it.
LEMMA VanishingParts ==
    ASSUME NEW S \in SUBSET Field, IsFiniteSet(S), NEW T \in SUBSET S, NEW z \in Field
    PROVE  Vanishing(S, z) = Times(Vanishing(S \ T, z), Vanishing(T, z))
<1> DEFINE U == S \ T
<1>1. /\ IsFiniteSet(T) /\ IsFiniteSet(U) /\ T \in SUBSET Field /\ U \in SUBSET Field
      /\ Cardinality(S) = Cardinality(T) + Cardinality(U)
  <2>1. IsFiniteSet(T) /\ IsFiniteSet(U) /\ Cardinality(U) = Cardinality(S) - Cardinality(S \cap T)
    BY FS_Subset, FS_Difference
  <2>2. S \cap T = T
    OBVIOUS
  <2>3. Cardinality(S) \in Nat /\ Cardinality(T) \in Nat
    BY <2>1, FS_CardinalityType
  <2>4. Cardinality(U) = Cardinality(S) - Cardinality(T)
    BY ONLY <2>1, <2>2
  <2>5. Cardinality(S) = Cardinality(T) + Cardinality(U)
    BY ONLY <2>3, <2>4
  <2>6. T \in SUBSET Field /\ U \in SUBSET Field
    OBVIOUS
  <2> QED  BY ONLY <2>1, <2>5, <2>6
<1>2. PICK s, t, u, m, k, l : /\ s = SetToSeq(S) /\ t = SetToSeq(T) /\ u = SetToSeq(U)
                              /\ m = Cardinality(S) /\ k = Cardinality(T) /\ l = Cardinality(U)
  OBVIOUS
<1>3. m \in Nat /\ k \in Nat /\ l \in Nat /\ m = k + l
  BY <1>1, <1>2, SetToSeqIs
<1>4. IsList(s, m, S) /\ IsList(t, k, T) /\ IsList(u, l, U)
  BY <1>1, <1>2, SetToSeqIs
<1>5. /\ s \in Vector(m) /\ t \in Vector(k) /\ u \in Vector(l)
      /\ Distinct(s) /\ Distinct(t) /\ Distinct(u)
      /\ S = {s[i] : i \in 1..m} /\ T = {t[i] : i \in 1..k} /\ U = {u[i] : i \in 1..l}
  BY <1>3, <1>4, VectorIs DEF IsList, Range
<1>6. PICK b : b = Basis(s, 0)
  OBVIOUS
<1>7. /\ b \in Vector(m + 1) /\ b[m + 1] = One /\ \A i \in 1..m : Powers(s[i], b) = Zero
      /\ m + 1 \in Nat /\ k <= m + 1 /\ (m + 1) - k = l + 1 /\ m + 1 > k /\ l + 1 \in Nat
  <2>1. Without(0, m) = m /\ 0 \in Nat /\ \A i \in 1..m : i # 0
    BY <1>3 DEF Without
  <2> QED  BY <1>3, <1>5, <1>6, <2>1, BasisIs
<1>8. \A x \in S : Powers(x, b) = Zero
  BY <1>5, <1>7
<1>9. PICK d : d = Divided(b, t)
  OBVIOUS
<1>10. Vanishes(b, t, k)
  BY <1>5, <1>8 DEF Vanishes
<1>11. /\ d \in Vector(l + 1) /\ d[l + 1] = One
       /\ \A x \in Field : Powers(x, b) = Times(Powers(x, d), Product(t, x))
  <2>1. /\ d \in Vector((m + 1) - k) /\ (m + 1 > k => d[(m + 1) - k] = b[m + 1])
        /\ \A x \in Field : Powers(x, b) = Times(Powers(x, d), Product(t, x))
    BY <1>3, <1>5, <1>7, <1>9, <1>10, DividedIs
  <2> QED  BY <1>7, <2>1
<1>12. Vanishes(d, u, l)
  <2> SUFFICES ASSUME NEW i \in 1..l PROVE Powers(u[i], d) = Zero
    BY DEF Vanishes
  <2>1. PICK x : x = u[i]
    OBVIOUS
  <2>2. x \in Field /\ x \in S /\ x \notin T
    BY <1>1, <1>5, <2>1
  <2>3. Product(t, x) \in Field /\ Product(t, x) # Zero
    BY <1>3, <1>5, <2>2, ProductType
  <2>4. Powers(x, d) \in Field
    BY <1>7, <1>11, <2>2, PowersIs
  <2>5. Times(Powers(x, d), Product(t, x)) = Zero
    BY <1>8, <1>11, <2>2
  <2>6. Powers(x, d) = Zero
    BY ONLY <2>3, <2>4, <2>5, NoZeroDivisors
  <2> QED  BY <2>1, <2>6
<1>13. Powers(z, d) = Product(u, z)
  BY <1>3, <1>5, <1>11, <1>12, MonicIs
<1>14. Powers(z, b) = Product(s, z)
  <2>1. Without(0, m) = m /\ 0 \in Nat /\ \A i \in 1..m : \E j \in 1..m : j # 0 /\ s[i] = s[j]
    BY <1>3 DEF Without
  <2> QED  BY <1>3, <1>5, <1>6, <2>1, BasisValue
<1> QED  BY <1>2, <1>11, <1>13, <1>14 DEF Vanishing

\* A basis polynomial is the vanishing one of the other points.
LEMMA BasisVanishing ==
    ASSUME NEW m \in Nat, NEW points, NEW S, IsList(points, m, S), NEW k \in 1..m, NEW z \in Field
    PROVE  Powers(z, Basis(points, k)) = Vanishing(S \ {points[k]}, z)
<1> DEFINE T == S \ {points[k]}
<1>1. IsFiniteSet(S) /\ Cardinality(S) = m /\ S \subseteq Field
  BY ListedSize
<1>2. points \in Vector(m) /\ S = {points[i] : i \in 1..m}
  BY VectorIs DEF IsList, Range
<1>3. points[k] \in S
  BY <1>2
<1>4. IsFiniteSet(T) /\ Cardinality(T) = m - 1 /\ T \in SUBSET Field
  BY <1>1, <1>3, FS_RemoveElement
<1>5. PICK s : s = SetToSeq(T)
  OBVIOUS
<1>6. IsList(s, m - 1, T)
  BY <1>4, <1>5, SetToSeqIs
<1>7. Without(k, m) = m - 1 /\ k \in Nat /\ m - 1 \in Nat
  BY DEF Without
<1>8. s \in Vector(Without(k, m)) /\ Distinct(s) /\ T = {s[i] : i \in 1..(m - 1)}
  BY <1>6, <1>7, VectorIs DEF IsList, Range
<1>9. ASSUME NEW i \in 1..(m - 1) PROVE \E j \in 1..m : j # k /\ s[i] = points[j]
  <2>1. s[i] \in T
    BY <1>8
  <2>2. s[i] \in S /\ s[i] # points[k]
    BY <2>1
  <2> QED  BY <1>2, <2>2
<1>10. Powers(z, Basis(points, k)) = Product(s, z)
  BY <1>2, <1>7, <1>8, <1>9, BasisValue
<1> QED  BY <1>5, <1>10 DEF Vanishing

\* The weight at z of the point p of S.
Weight(S, p, z) == Times(Vanishing(S \ {p}, z), Invert(Vanishing(S \ {p}, p)))

\* A point's own weight is one, and it has none at the others.
LEMMA WeightIs ==
    ASSUME NEW m \in Nat, NEW points, NEW S, IsList(points, m, S), NEW k \in 1..m
    PROVE  /\ \A z \in Field : Weight(S, points[k], z) \in Field
           /\ Weight(S, points[k], points[k]) = One
           /\ Vanishing(S \ {points[k]}, points[k]) \in Field \ {Zero}
<1>1. IsFiniteSet(S) /\ S \subseteq Field
  BY ListedSize
<1>2. \A j \in 1..m : points[j] \in Field
  BY VectorIs DEF IsList
<1>3. PICK p, T : p = points[k] /\ T = S \ {p}
  OBVIOUS
<1>4. p \in Field /\ IsFiniteSet(T) /\ T \in SUBSET Field /\ p \notin T
  BY <1>1, <1>2, <1>3, FS_RemoveElement
<1>5. PICK d : d = Vanishing(T, p)
  OBVIOUS
<1>6. d \in Field /\ d # Zero
  BY <1>4, <1>5, VanishingType
<1>7. Invert(d) \in Field /\ Times(d, Invert(d)) = One
  BY <1>6, TimesInvert, Closed
<1>8. ASSUME NEW z \in Field PROVE Times(Vanishing(T, z), Invert(d)) \in Field
  <2>1. Vanishing(T, z) \in Field
    BY <1>4, VanishingType
  <2> QED  BY <1>7, <2>1, Closed
<1> QED  BY <1>3, <1>5, <1>6, <1>7, <1>8 DEF Weight

\* A point's weight is zero at the others.
LEMMA WeightZero ==
    ASSUME NEW m \in Nat, NEW points, NEW S, IsList(points, m, S), NEW k \in 1..m,
           NEW j \in 1..m, j # k
    PROVE  Weight(S, points[k], points[j]) = Zero
<1>1. points[j] \in Field
  BY VectorIs DEF IsList
<1>2. PICK v, d : v = Vanishing(S \ {points[k]}, points[j]) /\ d = Vanishing(S \ {points[k]}, points[k])
  OBVIOUS
<1>3. d \in Field /\ d # Zero
  BY <1>2, WeightIs
<1>4. Powers(points[j], Basis(points, k)) = Zero
  BY BasisIs DEF IsList
<1>5. v = Zero
  BY <1>1, <1>2, <1>4, BasisVanishing
<1>6. Times(v, Invert(d)) = Zero
  BY <1>3, <1>5, TimesInvert, TimesZero
<1> QED  BY <1>2, <1>6 DEF Weight

\* The values at z of the weighted evaluations.
Weighted(S, points, evals, z, m) == [k \in 1..m |-> Times(evals[k], Weight(S, points[k], z))]

\* They are elements of the field.
LEMMA WeightedIs ==
    ASSUME NEW m \in Nat, NEW points, NEW S, IsList(points, m, S), NEW evals \in Vector(m),
           NEW z \in Field
    PROVE  /\ Weighted(S, points, evals, z, m) \in Vector(m)
           /\ \A k \in 1..m : Weighted(S, points, evals, z, m)[k] = Times(evals[k], Weight(S, points[k], z))
<1>1. ASSUME NEW k \in 1..m PROVE Times(evals[k], Weight(S, points[k], z)) \in Field
  <2>1. evals[k] \in Field /\ Weight(S, points[k], z) \in Field
    BY VectorIs, WeightIs
  <2> QED  BY <2>1, Closed
<1> QED  BY <1>1 DEF Weighted, Vector

\* The interpolation has as many coefficients as there are points; its value is the
\* weighted sum of the evaluations.
LEMMA InterpolateIs ==
    ASSUME NEW m \in Nat, NEW points, NEW S, IsList(points, m, S), NEW evals \in Vector(m)
    PROVE  /\ Interpolate(points, evals) \in Vector(m)
           /\ \A z \in Field :
                 Powers(z, Interpolate(points, evals)) = Total(Weighted(S, points, evals, z, m))
<1>1. points \in Vector(m) /\ Len(points) = m /\ \A k \in 1..m : points[k] \in Field
  BY VectorIs DEF IsList
<1>2. PICK basis : basis = [k \in 1..m |-> Basis(points, k)]
  OBVIOUS
<1>3. ASSUME NEW k \in 1..m PROVE basis[k] \in Vector(m) /\ basis[k] = Basis(points, k)
  <2>1. Without(k, m) + 1 = m /\ k \in Nat
    BY DEF Without
  <2>2. Basis(points, k) \in Vector(Without(k, m) + 1)
    BY <1>1, <2>1, BasisIs
  <2> QED  BY <1>2, <2>1, <2>2
<1>4. basis \in [1..m -> Vector(m)] /\ Whole(basis) = basis
  <2>1. basis \in [1..m -> Vector(m)]
    BY <1>2, <1>3
  <2> QED  BY <2>1, WholeIs
<1> DEFINE Own(k) == Vanishing(S \ {points[k]}, points[k])
<1>5. \A k \in 1..m : Powers(points[k], basis[k]) = Own(k) /\ Own(k) \in Field \ {Zero}
  <2> SUFFICES ASSUME NEW k \in 1..m
               PROVE  Powers(points[k], basis[k]) = Own(k) /\ Own(k) \in Field \ {Zero}
    OBVIOUS
  <2>1. points[k] \in Field /\ basis[k] = Basis(points, k)
    BY <1>1, <1>3
  <2>2. Powers(points[k], Basis(points, k)) = Vanishing(S \ {points[k]}, points[k])
    BY <2>1, BasisVanishing
  <2>3. Vanishing(S \ {points[k]}, points[k]) \in Field \ {Zero}
    BY WeightIs
  <2> QED  BY <2>1, <2>2, <2>3
<1>6. PICK unit : unit = [k \in 1..m |-> Times(evals[k], Invert(Powers(points[k], basis[k])))]
  OBVIOUS
<1> HIDE DEF Own
<1>7. ASSUME NEW k \in 1..m
      PROVE  /\ unit[k] \in Field /\ unit[k] = Times(evals[k], Invert(Own(k)))
             /\ evals[k] \in Field /\ Invert(Own(k)) \in Field
  <2>1. unit[k] = Times(evals[k], Invert(Own(k)))
    BY <1>5, <1>6
  <2>2. evals[k] \in Field /\ Invert(Own(k)) \in Field
    BY <1>5, VectorIs, Closed
  <2> QED  BY <2>1, <2>2, Closed
<1>8. unit \in Vector(m) /\ Whole(unit) = unit
  <2>1. unit \in Vector(m)
    BY <1>6, <1>7 DEF Vector
  <2> QED  BY <2>1, VectorIs
<1>9. PICK polys : polys = [k \in 1..m |-> [c \in 1..m |-> Times(unit[k], basis[k][c])]]
  OBVIOUS
<1>10. ASSUME NEW k \in 1..m
       PROVE  /\ polys[k] \in Vector(m)
              /\ \A c \in 1..m : polys[k][c] = Times(unit[k], basis[k][c])
  <2>1. polys[k] = [c \in 1..m |-> Times(unit[k], basis[k][c])]
    BY <1>9
  <2>2. \A c \in 1..m : basis[k][c] \in Field
    BY <1>3, VectorIs
  <2>3. \A c \in 1..m : Times(unit[k], basis[k][c]) \in Field
    BY <1>7, <2>2, Closed
  <2> QED  BY <2>1, <2>3 DEF Vector
<1>11. polys \in Polynomials(m, m)
  BY <1>9, <1>10 DEF Polynomials
<1>12. PICK fold : fold = [c \in 1..m |-> Total([k \in 1..m |-> Times(unit[k], basis[k][c])])]
  OBVIOUS
<1>13. Interpolate(points, evals) = Whole(fold)
  <2>1. Whole([k \in 1..Len(points) |-> Basis(points, k)]) = basis
    BY ONLY <1>1, <1>2, <1>4
  <2>2. Whole([k \in 1..Len(points) |-> Times(evals[k], Invert(Powers(points[k], basis[k])))]) = unit
    BY ONLY <1>1, <1>6, <1>8
  <2>3. Whole([c \in 1..Len(points) |-> Total([k \in 1..Len(points) |-> Times(unit[k], basis[k][c])])])
            = Whole(fold)
    BY ONLY <1>1, <1>12
  <2> QED  BY ONLY <2>1, <2>2, <2>3 DEF Interpolate
<1>14. ASSUME NEW c \in 1..m
       PROVE  /\ fold[c] = Powers(One, Column(polys, m, c))
              /\ Column(polys, m, c) \in Vector(m)
  <2>1. \A k \in 1..m : polys[k][c] = Times(unit[k], basis[k][c]) /\ polys[k][c] \in Field
    BY <1>10, VectorIs
  <2>2. Column(polys, m, c) = [k \in 1..m |-> Times(unit[k], basis[k][c])]
    BY <2>1 DEF Column
  <2>3. fold[c] = Total([k \in 1..m |-> Times(unit[k], basis[k][c])])
    BY <1>12
  <2>4. Column(polys, m, c) \in Vector(m)
    BY <2>1 DEF Column, Vector
  <2> QED  BY <2>2, <2>3, <2>4 DEF Total
<1>15. fold \in Vector(m) /\ FoldsColumns(fold, polys, One, m, m)
  <2>1. \A c \in 1..m : Powers(One, Column(polys, m, c)) \in Field
    BY <1>14, PowersIs, Closed
  <2>2. \A c \in 1..m : fold[c] \in Field
    BY <1>14, <2>1
  <2>3. fold \in Vector(m)
    BY <1>12, <2>2 DEF Vector
  <2> QED  BY <1>14, <2>3 DEF FoldsColumns
<1>16. Interpolate(points, evals) = fold
  BY <1>13, <1>15, VectorIs
<1>17. ASSUME NEW z \in Field
       PROVE  Powers(z, fold) = Total(Weighted(S, points, evals, z, m))
  <2> DEFINE w == Weighted(S, points, evals, z, m)
  <2>1. w \in Vector(m) /\ \A k \in 1..m : w[k] = Times(evals[k], Weight(S, points[k], z))
    BY WeightedIs
  <2> HIDE DEF w
  <2>2. ASSUME NEW k \in 1..m PROVE w[k] = Powers(z, polys[k])
    <3>1. PICK e, i, v, u, p, b : /\ e = evals[k] /\ i = Invert(Own(k)) /\ v = Vanishing(S \ {points[k]}, z)
                                  /\ u = unit[k] /\ p = polys[k] /\ b = basis[k]
      OBVIOUS
    <3>2. e \in Field /\ i \in Field /\ u = Times(e, i) /\ u \in Field
      BY <1>7, <3>1
    <3>3. p \in Vector(m) /\ b \in Vector(m) /\ \A c \in 1..m : p[c] = Times(u, b[c])
      BY <1>3, <1>10, <3>1
    <3>4. Powers(z, p) = Times(u, Powers(z, b))
      BY <3>2, <3>3, PowersScaled
    <3>5. Powers(z, b) = v
      BY <1>3, <3>1, BasisVanishing
    <3>6. v \in Field
      BY <3>3, <3>5, PowersIs
    <3>7. Times(Times(e, i), v) = Times(e, Times(i, v)) /\ Times(i, v) = Times(v, i)
      BY <3>2, <3>6, Laws
    <3>8. w[k] = Times(e, Times(v, i))
      BY <2>1, <3>1 DEF Weight, Own
    <3> QED  BY ONLY <3>1, <3>2, <3>4, <3>5, <3>7, <3>8
  <2>3. AreValues(w, polys, z, m)
    BY <2>2 DEF AreValues
  <2>4. Powers(z, fold) = Powers(One, w)
    <3>1. One \in Field
      BY Closed
    <3> QED  BY ONLY <1>11, <1>15, <2>1, <2>3, <3>1, m \in Nat, z \in Field, FoldColumns
  <2> QED  BY <2>4 DEF Total, w
<1> QED  BY <1>15, <1>16, <1>17

\* The interpolation goes through the evaluations.
LEMMA InterpolateHits ==
    ASSUME NEW m \in Nat, NEW points, NEW S, IsList(points, m, S), NEW evals \in Vector(m),
           NEW j \in 1..m
    PROVE  Powers(points[j], Interpolate(points, evals)) = evals[j]
<1> DEFINE w == Weighted(S, points, evals, points[j], m)
<1>1. points[j] \in Field /\ \A k \in 1..m : evals[k] \in Field
  BY VectorIs DEF IsList
<1>2. w \in Vector(m) /\ \A k \in 1..m : w[k] = Times(evals[k], Weight(S, points[k], points[j]))
  BY <1>1, WeightedIs
<1>3. Powers(points[j], Interpolate(points, evals)) = Total(w)
  BY <1>1, InterpolateIs
<1> HIDE DEF w
<1>4. ASSUME NEW k \in 1..m, k # j PROVE w[k] = Zero
  <2>1. Weight(S, points[k], points[j]) = Zero
    BY <1>4, WeightZero
  <2> QED  BY <1>1, <1>2, <2>1, TimesZero
<1>5. w[j] = evals[j]
  <2>1. Weight(S, points[j], points[j]) = One
    BY WeightIs
  <2> QED  BY <1>1, <1>2, <2>1, Laws
<1>6. Total(w) = w[j]
  BY <1>2, <1>4, TotalSingle
<1> QED  BY <1>3, <1>5, <1>6

\* A polynomial with as many coefficients as there are points is determined by its
\* values at them.
LEMMA SameValues ==
    ASSUME NEW m \in Nat, NEW points, NEW S, IsList(points, m, S),
           NEW p \in Vector(m), NEW q \in Vector(m),
           \A x \in S : Powers(x, p) = Powers(x, q), NEW z \in Field
    PROVE  Powers(z, p) = Powers(z, q)
<1>1. PICK d : d = [k \in 1..m |-> Less(p[k], q[k])]
  OBVIOUS
<1>2. \A k \in 1..m : Less(p[k], q[k]) \in Field
  BY VectorIs, Closed
<1>3. d \in Vector(m) /\ \A k \in 1..m : d[k] = Less(p[k], q[k])
  BY <1>1, <1>2 DEF Vector
<1>4. \A x \in Field : Powers(x, d) = Less(Powers(x, p), Powers(x, q))
  BY <1>3, PowersLess
<1>5. \A x \in Field : Powers(x, p) \in Field /\ Powers(x, q) \in Field
  BY PowersIs
<1>6. points \in Vector(m) /\ Distinct(points) /\ \A i \in 1..m : points[i] \in S /\ points[i] \in Field
  BY VectorIs DEF IsList, Range
<1>7. Vanishes(d, points, m)
  <2>1. \A x \in Field : Powers(x, p) = Powers(x, q) => Powers(x, d) = Zero
    BY <1>4, <1>5, LessZero
  <2> QED  BY <1>6, <2>1 DEF Vanishes
<1>8. Powers(z, d) = Zero
  BY <1>3, <1>6, <1>7, ManyRoots
<1> QED  BY <1>4, <1>5, <1>8, LessZero

(* ------------------------- through the evaluations ------------------------- *)

\* The evaluations of a commitment, in the order of a list of points.
Reads(evals, com, order, m) == [k \in 1..m |-> EvalOf(evals, com, order[k])]

\* Every point of S has an evaluation of the commitment.
Evaluated(evals, com, S) == \A p \in S : EvalOf(evals, com, p) \in Field

\* They are as many elements of the field.
LEMMA ReadsIs ==
    ASSUME NEW m \in Nat, NEW order, NEW S, IsList(order, m, S), NEW evals, NEW com,
           Evaluated(evals, com, S)
    PROVE  /\ Reads(evals, com, order, m) \in Vector(m)
           /\ \A k \in 1..m : /\ order[k] \in S /\ order[k] \in Field
                              /\ Reads(evals, com, order, m)[k] = EvalOf(evals, com, order[k])
           /\ \A p \in S : \E k \in 1..m : p = order[k]
<1>1. Len(order) = m /\ DOMAIN order = 1..m /\ \A k \in 1..m : order[k] \in Field
  BY VectorIs DEF IsList
<1>2. \A k \in 1..m : order[k] \in S
  BY <1>1 DEF IsList, Range
<1>3. \A p \in S : \E k \in 1..m : p = order[k]
  BY <1>1 DEF IsList, Range
<1>4. \A k \in 1..m : EvalOf(evals, com, order[k]) \in Field
  BY <1>2 DEF Evaluated
<1> QED  BY <1>1, <1>2, <1>3, <1>4 DEF Reads, Vector

\* Through is the weighted sum, for the order of SetToSeq;
LEMMA ThroughForm ==
    ASSUME NEW S \in SUBSET Field, IsFiniteSet(S), NEW evals, NEW com,
           Evaluated(evals, com, S), NEW z \in Field, NEW m, m = Cardinality(S),
           NEW own, own = SetToSeq(S)
    PROVE  /\ m \in Nat /\ IsList(own, m, S)
           /\ Through(S, evals, com, z) = Total(Weighted(S, own, Reads(evals, com, own, m), z, m))
<1>1. m \in Nat /\ IsList(own, m, S)
  BY SetToSeqIs
<1>2. DOMAIN own = 1..m
  BY <1>1, VectorIs DEF IsList
<1>3. PICK w : w = [k \in 1..m |-> Times(EvalOf(evals, com, own[k]), Weight(S, own[k], z))]
  OBVIOUS
<1>4. Through(S, evals, com, z) = Total(w)
  BY <1>2, <1>3 DEF Through, Weight
<1>5. \A k \in 1..m : Reads(evals, com, own, m)[k] = EvalOf(evals, com, own[k])
  BY DEF Reads
<1>6. Weighted(S, own, Reads(evals, com, own, m), z, m) = w
  BY <1>3, <1>5 DEF Weighted
<1> QED  BY <1>1, <1>4, <1>6

\* it is the value of the interpolation, whatever the order of the points;
LEMMA ThroughIs ==
    ASSUME NEW m \in Nat, NEW order, NEW S, IsList(order, m, S), NEW evals, NEW com,
           Evaluated(evals, com, S), NEW z \in Field
    PROVE  Powers(z, Interpolate(order, Reads(evals, com, order, m))) = Through(S, evals, com, z)
<1>1. IsFiniteSet(S) /\ Cardinality(S) = m /\ S \in SUBSET Field
  BY ListedSize
<1>2. PICK own : own = SetToSeq(S)
  OBVIOUS
<1>3. IsList(own, m, S)
  BY <1>1, <1>2, SetToSeqIs
<1>4. PICK p, q : /\ p = Interpolate(order, Reads(evals, com, order, m))
                  /\ q = Interpolate(own, Reads(evals, com, own, m))
  OBVIOUS
<1>5. p \in Vector(m) /\ q \in Vector(m)
  <2>1. Reads(evals, com, order, m) \in Vector(m) /\ Reads(evals, com, own, m) \in Vector(m)
    BY <1>3, ReadsIs
  <2> QED  BY <1>3, <1>4, <2>1, InterpolateIs
<1>6. ASSUME NEW x \in S PROVE Powers(x, p) = EvalOf(evals, com, x)
  <2>1. PICK k \in 1..m : x = order[k]
    BY ReadsIs
  <2>2. PICK e : e = Reads(evals, com, order, m)
    OBVIOUS
  <2>3. e \in Vector(m) /\ e[k] = EvalOf(evals, com, order[k])
    BY <2>2, ReadsIs
  <2>4. Powers(order[k], Interpolate(order, e)) = e[k]
    BY <2>3, InterpolateHits
  <2> QED  BY ONLY <1>4, <2>1, <2>2, <2>3, <2>4
<1>7. ASSUME NEW x \in S PROVE Powers(x, q) = EvalOf(evals, com, x)
  <2>1. PICK k \in 1..m : x = own[k]
    BY <1>3, ReadsIs
  <2>2. PICK e : e = Reads(evals, com, own, m)
    OBVIOUS
  <2>3. e \in Vector(m) /\ e[k] = EvalOf(evals, com, own[k])
    BY <1>3, <2>2, ReadsIs
  <2>4. Powers(own[k], Interpolate(own, e)) = e[k]
    BY <1>3, <2>3, InterpolateHits
  <2> QED  BY ONLY <1>4, <2>1, <2>2, <2>3, <2>4
<1>8. Powers(z, p) = Powers(z, q)
  BY <1>5, <1>6, <1>7, SameValues
<1>9. Powers(z, q) = Total(Weighted(S, own, Reads(evals, com, own, m), z, m))
  <2>1. Reads(evals, com, own, m) \in Vector(m)
    BY <1>3, ReadsIs
  <2> QED  BY <1>3, <1>4, <2>1, InterpolateIs
<1>10. Through(S, evals, com, z) = Total(Weighted(S, own, Reads(evals, com, own, m), z, m))
  BY <1>1, <1>2, ThroughForm
<1> QED  BY ONLY <1>4, <1>8, <1>9, <1>10

\* it is an evaluation at its point, and an element of the field everywhere;
LEMMA ThroughValues ==
    ASSUME NEW S \in SUBSET Field, IsFiniteSet(S), NEW evals, NEW com, Evaluated(evals, com, S)
    PROVE  /\ \A z \in Field : Through(S, evals, com, z) \in Field
           /\ \A p \in S : Through(S, evals, com, p) = EvalOf(evals, com, p)
<1>1. PICK m, own : m = Cardinality(S) /\ own = SetToSeq(S)
  OBVIOUS
<1>2. m \in Nat /\ IsList(own, m, S)
  BY <1>1, SetToSeqIs
<1>3. PICK e : e = Reads(evals, com, own, m)
  OBVIOUS
<1>4. e \in Vector(m)
  BY <1>2, <1>3, ReadsIs
<1>5. \A z \in Field : Powers(z, Interpolate(own, e)) = Through(S, evals, com, z)
  BY <1>2, <1>3, ThroughIs
<1>6. \A z \in Field : Powers(z, Interpolate(own, e)) \in Field
  BY <1>2, <1>4, InterpolateIs, PowersIs
<1>7. ASSUME NEW p \in S PROVE Through(S, evals, com, p) = EvalOf(evals, com, p)
  <2>1. PICK k \in 1..m : p = own[k]
    BY <1>2, ReadsIs
  <2>2. e[k] = EvalOf(evals, com, own[k])
    BY <1>2, <1>3, ReadsIs
  <2>3. Powers(own[k], Interpolate(own, e)) = e[k]
    BY <1>2, <1>4, InterpolateHits
  <2>4. Powers(p, Interpolate(own, e)) = Through(S, evals, com, p)
    BY <1>5
  <2> QED  BY ONLY <2>1, <2>2, <2>3, <2>4
<1> QED  BY <1>5, <1>6, <1>7

\* and it is additive in the evaluations.
LEMMA ThroughPlus ==
    ASSUME NEW S \in SUBSET Field, IsFiniteSet(S), NEW com,
           NEW a, NEW b, NEW c, Evaluated(a, com, S), Evaluated(b, com, S),
           \A p \in S : EvalOf(c, com, p) = Plus(EvalOf(a, com, p), EvalOf(b, com, p)),
           NEW z \in Field
    PROVE  Through(S, c, com, z) = Plus(Through(S, a, com, z), Through(S, b, com, z))
<1>1. Evaluated(c, com, S)
  BY Closed DEF Evaluated
<1>2. PICK m, own : m = Cardinality(S) /\ own = SetToSeq(S)
  OBVIOUS
<1>3. m \in Nat /\ IsList(own, m, S)
  BY <1>2, SetToSeqIs
<1>4. PICK ra, rb, rc : /\ ra = Reads(a, com, own, m) /\ rb = Reads(b, com, own, m)
                        /\ rc = Reads(c, com, own, m)
  OBVIOUS
<1>5. /\ ra \in Vector(m) /\ rb \in Vector(m) /\ rc \in Vector(m)
      /\ \A k \in 1..m : own[k] \in S /\ own[k] \in Field
  BY <1>1, <1>3, <1>4, ReadsIs
<1>6. \A k \in 1..m : rc[k] = Plus(ra[k], rb[k])
  BY <1>4, <1>5 DEF Reads
<1>7. PICK wa, wb, wc : /\ wa = Weighted(S, own, ra, z, m) /\ wb = Weighted(S, own, rb, z, m)
                        /\ wc = Weighted(S, own, rc, z, m)
  OBVIOUS
<1>8. wa \in Vector(m) /\ wb \in Vector(m) /\ wc \in Vector(m)
  BY <1>3, <1>5, <1>7, WeightedIs
<1>9. ASSUME NEW k \in 1..m PROVE wc[k] = Plus(wa[k], wb[k])
  <2>1. PICK w : w = Weight(S, own[k], z)
    OBVIOUS
  <2>2. /\ wa[k] = Times(ra[k], w) /\ wb[k] = Times(rb[k], w) /\ wc[k] = Times(rc[k], w)
    BY <1>7, <2>1 DEF Weighted
  <2>3. PICK x, y : x = ra[k] /\ y = rb[k]
    OBVIOUS
  <2>4. x \in Field /\ y \in Field /\ w \in Field
    BY <1>3, <1>5, <2>1, <2>3, VectorIs, WeightIs
  <2>5. Times(Plus(x, y), w) = Plus(Times(x, w), Times(y, w))
    <3>1. Times(Plus(x, y), w) = Times(w, Plus(x, y)) /\ Plus(x, y) \in Field
      BY <2>4, Laws, Closed
    <3>2. Times(w, Plus(x, y)) = Plus(Times(w, x), Times(w, y))
      BY <2>4, Laws
    <3>3. Times(w, x) = Times(x, w) /\ Times(w, y) = Times(y, w)
      BY <2>4, Laws
    <3> QED  BY ONLY <3>1, <3>2, <3>3
  <2>6. rc[k] = Plus(x, y)
    BY <1>6, <2>3
  <2> QED  BY ONLY <2>2, <2>3, <2>5, <2>6
<1>10. Total(wc) = Plus(Total(wa), Total(wb))
  <2>1. One \in Field
    BY Closed
  <2>2. Powers(One, wc) = Plus(Powers(One, wa), Powers(One, wb))
    BY ONLY <1>3, <1>8, <1>9, <2>1, PowersPlus
  <2> QED  BY ONLY <2>2 DEF Total
<1>11. /\ Through(S, a, com, z) = Total(wa) /\ Through(S, b, com, z) = Total(wb)
       /\ Through(S, c, com, z) = Total(wc)
  BY <1>1, <1>2, <1>4, <1>7, ThroughForm
<1> QED  BY <1>10, <1>11

(* -------------------------------- grouping --------------------------------- *)

\* u keeps the elements of s at the places, which list P.
Keeps(u, places, s, P, V) ==
    /\ Enumerates(places, P)
    /\ u \in Seq(V) /\ Len(u) = Len(places)
    /\ \A k \in 1..Len(u) : u[k] = s[places[k]]
    /\ Range(u) = {s[i] : i \in P}

\* What is kept of a vector: the elements at the places.
LEMMA KeptIs ==
    ASSUME NEW V, NEW n \in Nat, NEW s \in [1..n -> V], NEW P \in SUBSET (1..n)
    PROVE  Keeps(Kept(s, P), Places(P, n), s, P, V)
<1>1. PICK places : places = Places(P, n)
  OBVIOUS
<1>2. Enumerates(places, P)
  <2>1. {i \in 1..n : i \in P} = P
    OBVIOUS
  <2> QED  BY <1>1, <2>1, PlacesList
<1>3. places \in Seq(P) /\ Range(places) = P /\ Distinct(places)
  BY <1>2 DEF Enumerates
<1>4. PICK m \in Nat : m = Len(places) /\ DOMAIN places = 1..m /\ \A k \in 1..m : places[k] \in P
  BY <1>3
<1>5. PICK w : w = [k \in 1..m |-> s[places[k]]]
  OBVIOUS
<1>6. w \in [1..m -> V]
  BY <1>4, <1>5
<1>7. Len(s) = n
  BY IsSequence
<1>8. Kept(s, P) = w
  <2>1. Kept(s, P) = Whole(w)
    BY <1>1, <1>4, <1>5, <1>7 DEF Kept
  <2> QED  BY <1>6, <2>1, WholeIs
<1>9. w \in Seq(V) /\ Len(w) = m /\ DOMAIN w = 1..m
  BY <1>6, IsSequence
<1>10. Range(w) = {s[i] : i \in P}
  <2>1. \A i \in P : \E k \in 1..m : places[k] = i
    BY <1>3, <1>4 DEF Range
  <2>2. Range(w) = {w[k] : k \in 1..m}
    BY <1>9 DEF Range
  <2>3. \A k \in 1..m : w[k] = s[places[k]] /\ places[k] \in P
    BY <1>4, <1>5
  <2>4. \A x \in Range(w) : x \in {s[i] : i \in P}
    <3>1. \A k \in 1..m : w[k] \in {s[i] : i \in P}
      BY <2>3
    <3>2. ASSUME NEW x \in Range(w) PROVE \E k \in 1..m : x = w[k]
      BY <2>2
    <3> QED  BY <3>1, <3>2
  <2>5. ASSUME NEW i \in P PROVE s[i] \in Range(w)
    BY <2>1, <2>2, <2>3
  <2> QED  BY <2>4, <2>5
<1>11. \A k \in 1..m : w[k] = s[places[k]]
  BY <1>5
<1> QED  BY <1>1, <1>2, <1>4, <1>8, <1>9, <1>10, <1>11 DEF Keeps

\* Every element is kept once.
LEMMA UniquesAre ==
    ASSUME NEW V, NEW n \in Nat, NEW s \in [1..n -> V]
    PROVE  /\ Enumerates(Uniques(s), {s[i] : i \in 1..n}) /\ Uniques(s) \in Seq(V)
           /\ n > 0 => Len(Uniques(s)) > 0
<1>1. PICK P : P = {i \in 1..n : \A j \in 1..(i - 1) : s[j] # s[i]}
  OBVIOUS
<1>2. Whole(s) = s /\ DOMAIN s = 1..n
  BY WholeIs
<1>3. Uniques(s) = Kept(s, P)
  BY <1>1, <1>2 DEF Uniques
<1>4. PICK u : u = Kept(s, P)
  OBVIOUS
<1>5. P \in SUBSET (1..n)
  BY <1>1
<1>6. PICK places : places = Places(P, n)
  OBVIOUS
<1>7. /\ Enumerates(places, P) /\ u \in Seq(V) /\ Len(u) = Len(places)
      /\ \A k \in 1..Len(u) : u[k] = s[places[k]]
      /\ Range(u) = {s[i] : i \in P}
  <2>1. Keeps(Kept(s, P), Places(P, n), s, P, V)
    BY <1>5, KeptIs
  <2> QED  BY <1>4, <1>6, <2>1 DEF Keeps
<1>8. ASSUME NEW i \in 1..n PROVE \E f \in P : s[f] = s[i]
  <2>1. PICK T : T = {j \in 1..n : s[j] = s[i]}
    OBVIOUS
  <2>2. T \in SUBSET Nat /\ T # {}
    BY <2>1
  <2>3. PICK f \in T : \A k \in T : f <= k
    BY <2>2, LeastNatural
  <2>4. \A j \in 1..(f - 1) : s[j] # s[f]
    BY <2>1, <2>3
  <2> QED  BY <1>1, <2>1, <2>3, <2>4
<1>9. Range(u) = {s[i] : i \in 1..n}
  BY <1>5, <1>7, <1>8
<1>10. ASSUME NEW i \in P, NEW j \in P, s[i] = s[j] PROVE i = j
  BY <1>1, <1>10
<1>11. Distinct(u)
  <2>1. places \in Seq(P) /\ Distinct(places)
    BY <1>7 DEF Enumerates
  <2>2. \A k \in 1..Len(u) : places[k] \in P
    BY <1>7, <2>1
  <2>3. \A j, k \in 1..Len(u) : places[j] = places[k] => j = k
    BY <1>7, <2>1 DEF Distinct
  <2> QED  BY <1>7, <1>10, <2>2, <2>3 DEF Distinct
<1>12. u \in Seq({s[i] : i \in 1..n})
  <2>1. \A k \in 1..Len(u) : u[k] \in Range(u)
    BY <1>7 DEF Range
  <2>2. PICK W : W = {s[i] : i \in 1..n}
    OBVIOUS
  <2>3. \A k \in 1..Len(u) : u[k] \in W
    BY <1>9, <2>1, <2>2
  <2>4. u = [k \in 1..Len(u) |-> u[k]] /\ Len(u) \in Nat
    BY <1>7
  <2>5. u \in [1..Len(u) -> W]
    BY <2>3, <2>4
  <2>6. u \in Seq(W)
    BY <2>4, <2>5, IsSequence
  <2> QED  BY <2>2, <2>6
<1>13. ASSUME n > 0 PROVE Len(u) > 0
  <2>1. s[1] \in Range(u)
    BY <1>9, <1>13
  <2> QED  BY <1>7, <2>1 DEF Range
<1> QED  BY <1>3, <1>4, <1>7, <1>9, <1>11, <1>12, <1>13 DEF Enumerates

\* A power is an element of the field.
LEMMA PowIs ==
    ASSUME NEW a \in Field, NEW k \in Nat
    PROVE  Pow(a, k) \in Field
<1> DEFINE IsPower(f) == f = [i \in 0..k |-> IF i = 0 THEN One ELSE Times(a, f[i - 1])]
           power == CHOOSE f : IsPower(f)
<1>1. Pow(a, k) = power[k]
  BY DEF Pow
<1>2. PICK step : step = [p \in Nat \X Field |-> Times(a, p[2])]
  OBVIOUS
<1>3. \A i \in Nat, x \in Field : step[<<i, x>>] = Times(a, x)
  BY <1>2
<1>4. step \in [Nat \X Field -> Field]
  BY <1>2, <1>3, Closed
<1>5. PICK r : IsRun(r, Field, One, step, k)
  BY <1>4, RunExists, Closed
<1>6. /\ r \in [0..k -> Field] /\ r[0] = One
      /\ \A i \in 0..(k - 1) : r[i + 1] = step[<<i, r[i]>>]
  BY <1>5 DEF IsRun
<1>7. IsPower(r)
  <2>1. \A i \in 0..k : i # 0 => i - 1 \in 0..(k - 1) /\ (i - 1) + 1 = i
    OBVIOUS
  <2>2. \A i \in 0..(k - 1) : r[i + 1] = Times(a, r[i])
    <3>1. \A i \in 0..(k - 1) : r[i] \in Field /\ i \in Nat
      BY <1>6
    <3> QED  BY <1>3, <1>6, <3>1
  <2>3. \A i \in 0..k : r[i] = IF i = 0 THEN One ELSE Times(a, r[i - 1])
    BY <1>6, <2>1, <2>2
  <2> QED  BY <1>6, <2>3
<1>8. IsPower(power)
  BY <1>7
<1> HIDE DEF power
<1>9. /\ power = [i \in 0..k |-> power[i]] /\ power[0] = One
      /\ \A i \in 0..(k - 1) : power[i + 1] = Times(a, power[i])
  <2>1. \A i \in 0..(k - 1) : i + 1 \in 0..k /\ i + 1 # 0 /\ (i + 1) - 1 = i
    OBVIOUS
  <2>2. \A i \in 0..k : power[i] = IF i = 0 THEN One ELSE Times(a, power[i - 1])
    BY <1>8
  <2>3. \A i \in 0..(k - 1) : power[i + 1] = Times(a, power[(i + 1) - 1])
    BY <2>1, <2>2
  <2>4. power[0] = One /\ power = [i \in 0..k |-> power[i]]
    BY <1>8
  <2> QED  BY <2>1, <2>3, <2>4
<1>10. IsRun(power, Field, One, step, k)
  <2>1. \A i \in 0..(k - 1) : i \in Nat
    OBVIOUS
  <2>2. \A i \in 0..(k - 1) : power[i] \in Field => power[i + 1] = step[<<i, power[i]>>]
    BY <1>3, <1>9, <2>1
  <2> QED  BY <1>4, <1>9, <2>2, RunIs, Closed
<1> QED  BY <1>1, <1>10 DEF IsRun

\* The queries: some, of commitments with N coefficients, at points of the field.
LEMMA QueriesAre ==
    ASSUME statement \in Statements
    PROVE  /\ N \in Nat /\ N > 0 /\ Len(Queries) \in Nat /\ Len(Queries) > 0
           /\ DOMAIN Queries = 1..Len(Queries)
           /\ \A q \in 1..Len(Queries) : /\ Queries[q].com \in DOMAIN Coeffs /\ Queries[q].at \in Int
                                         /\ Coeffs[Queries[q].com] \in Vector(N)
           /\ statement.x \in Field /\ statement.error \in Vector(Len(Queries))
           /\ ToSet(Queries) = {Queries[q] : q \in 1..Len(Queries)}
<1>1. /\ N \in Nat /\ N > 0
      /\ \A com \in DOMAIN Coeffs : Coeffs[com] \in [1..N -> Field]
      /\ Queries \in Seq(Requests) /\ Queries # <<>> /\ statement.x \in Field
      /\ statement.error \in [DOMAIN Queries -> Field]
  BY StatementAssumption DEF Queries
<1>2. PICK s, n : s = Queries /\ n = Len(s)
  OBVIOUS
<1>3. s \in Seq(Requests) /\ s # <<>>
  BY <1>1, <1>2
<1>4. n \in Nat /\ n > 0 /\ DOMAIN s = 1..n /\ \A q \in 1..n : s[q] \in Requests
  BY <1>2, <1>3
<1>5. \A q \in 1..n : s[q].com \in DOMAIN Coeffs /\ s[q].at \in Int
  BY <1>4 DEF Requests
<1>6. ToSet(s) = {s[q] : q \in 1..n}
  BY <1>4 DEF ToSet
<1> QED  BY <1>1, <1>2, <1>4, <1>5, <1>6 DEF Vector

\* The points asked for: of the field, and no more than the domain has.
LEMMA SuperPointsAre ==
    ASSUME statement \in Statements
    PROVE  /\ SuperPoints = {Point(Queries[q].at) : q \in 1..Len(Queries)}
           /\ SuperPoints \in SUBSET Field /\ IsFiniteSet(SuperPoints)
           /\ Cardinality(SuperPoints) \in Nat /\ Cardinality(SuperPoints) <= N
           /\ \A q \in 1..Len(Queries) : Point(Queries[q].at) \in SuperPoints
<1>1. SuperPoints = {Point(Queries[q].at) : q \in 1..Len(Queries)}
  BY QueriesAre DEF SuperPoints
<1>2. PICK points : points = [k \in 0..(N - 1) |-> Times(statement.x, Pow(Omega, k))]
  OBVIOUS
<1>3. N \in Nat /\ N > 0 /\ statement.x \in Field /\ Omega \in Field
  BY QueriesAre, StatementAssumption
<1>4. ASSUME NEW k \in 0..(N - 1) PROVE points[k] \in Field
  <2>1. Pow(Omega, k) \in Field
    BY <1>3, PowIs
  <2>2. Times(statement.x, Pow(Omega, k)) \in Field
    BY <1>3, <2>1, Closed
  <2> QED  BY <1>2, <2>2
<1>5. PICK T : T = {points[k] : k \in 0..(N - 1)}
  OBVIOUS
<1>6. T \in SUBSET Field
  BY <1>4, <1>5
<1>7. \A at \in Int : Point(at) \in T
  <2>1. \A at \in Int : at % N \in 0..(N - 1)
    BY <1>3
  <2>2. \A at \in Int : Point(at) = points[at % N]
    BY <1>2, <2>1 DEF Point
  <2> QED  BY <1>5, <2>1, <2>2
<1>8. IsFiniteSet(T) /\ Cardinality(T) <= N
  <2>1. points \in Surjection(0..(N - 1), T)
    BY <1>2, <1>5 DEF Surjection
  <2>2. 0 \in Int /\ N - 1 \in Int /\ (IF 0 > N - 1 THEN 0 ELSE (N - 1) - 0 + 1) = N
    BY <1>3
  <2>3. IsFiniteSet(0..(N - 1)) /\ Cardinality(0..(N - 1)) = N
    BY <2>2, FS_Interval
  <2> QED  BY <2>1, <2>3, FS_Surjection
<1>9. SuperPoints \in SUBSET T
  BY <1>1, <1>7, QueriesAre
<1>10. /\ IsFiniteSet(SuperPoints) /\ Cardinality(SuperPoints) \in Nat
       /\ Cardinality(T) \in Nat /\ Cardinality(SuperPoints) <= Cardinality(T)
  BY <1>8, <1>9, FS_Subset, FS_CardinalityType
<1>11. Cardinality(SuperPoints) <= N
  BY <1>3, <1>8, <1>10
<1> QED  BY <1>1, <1>6, <1>9, <1>10, <1>11

\* The commitments queried, each once.
LEMMA CommitmentsAre ==
    ASSUME statement \in Statements
    PROVE  /\ Commitments \in Seq(DOMAIN Coeffs) /\ Len(Commitments) > 0
           /\ \A k \in 1..Len(Commitments) :
                 \E q \in 1..Len(Queries) : Commitments[k] = Queries[q].com
<1>1. PICK n, s : n = Len(Queries) /\ s = [q \in 1..n |-> Queries[q].com]
  OBVIOUS
<1>2. n \in Nat /\ n > 0 /\ DOMAIN Queries = 1..n
  BY <1>1, QueriesAre
<1>3. s \in [1..n -> DOMAIN Coeffs]
  BY <1>1, QueriesAre
<1>4. PICK u : u = Uniques(s)
  OBVIOUS
<1>5. Commitments = u
  BY <1>1, <1>2, <1>4 DEF Commitments
<1>6. Enumerates(u, {s[i] : i \in 1..n}) /\ u \in Seq(DOMAIN Coeffs) /\ Len(u) > 0
  BY <1>2, <1>3, <1>4, UniquesAre
<1>7. Range(u) = {s[i] : i \in 1..n}
  BY <1>6 DEF Enumerates
<1>8. \A k \in 1..Len(u) : u[k] \in Range(u)
  BY <1>6 DEF Range
<1>9. \A k \in 1..Len(u) : \E q \in 1..n : u[k] = Queries[q].com
  BY <1>1, <1>7, <1>8
<1> QED  BY <1>1, <1>5, <1>6, <1>9

\* The points of a commitment are some of those asked for.
LEMMA RotationsAre ==
    ASSUME statement \in Statements, NEW com
    PROVE  /\ Rotations(com) \in SUBSET SuperPoints
           /\ \A p \in Rotations(com) :
                 \E q \in 1..Len(Queries) : Queries[q].com = com /\ Point(Queries[q].at) = p
<1>1. ToSet(Queries) = {Queries[q] : q \in 1..Len(Queries)}
  BY QueriesAre
<1>2. ASSUME NEW p \in Rotations(com)
      PROVE  \E q \in 1..Len(Queries) : Queries[q].com = com /\ Point(Queries[q].at) = p
  <2>1. PICK r \in ToSet(Queries) : r.com = com /\ p = Point(r.at)
    BY DEF Rotations
  <2> QED  BY <1>1, <2>1
<1> QED  BY <1>2, SuperPointsAre

\* The sets of points that some commitment has.
LEMMA RotationPointsAre ==
    ASSUME statement \in Statements
    PROVE  /\ RotationPoints \in Seq(SUBSET SuperPoints) /\ Len(RotationPoints) > 0
           /\ \A i \in 1..Len(RotationPoints) :
                 /\ RotationPoints[i] \in SUBSET SuperPoints
                 /\ RotationPoints[i] \in SUBSET Field /\ IsFiniteSet(RotationPoints[i])
                 /\ Cardinality(RotationPoints[i]) \in Nat /\ Cardinality(RotationPoints[i]) <= N
<1>1. PICK coms, n, s : coms = Commitments /\ n = Len(coms) /\ s = [k \in 1..n |-> Rotations(coms[k])]
  OBVIOUS
<1>2. n \in Nat /\ n > 0 /\ DOMAIN coms = 1..n
  BY <1>1, CommitmentsAre
<1>3. s \in [1..n -> SUBSET SuperPoints]
  <2>1. \A k \in 1..n : Rotations(coms[k]) \in SUBSET SuperPoints
    BY RotationsAre
  <2> QED  BY <1>1, <2>1
<1>4. RotationPoints = Uniques(s)
  BY <1>1, <1>2 DEF RotationPoints
<1>5. RotationPoints \in Seq(SUBSET SuperPoints) /\ Len(RotationPoints) > 0
  BY <1>2, <1>3, <1>4, UniquesAre
<1>6. ASSUME NEW S \in SUBSET SuperPoints
      PROVE  /\ S \in SUBSET Field /\ IsFiniteSet(S)
             /\ Cardinality(S) \in Nat /\ Cardinality(S) <= N
  <2>1. IsFiniteSet(S) /\ Cardinality(S) \in Nat /\ Cardinality(S) <= Cardinality(SuperPoints)
    BY SuperPointsAre, FS_Subset, FS_CardinalityType
  <2> QED  BY <2>1, SuperPointsAre, QueriesAre
<1>7. \A i \in 1..Len(RotationPoints) : RotationPoints[i] \in SUBSET SuperPoints
  BY <1>5
<1> QED  BY <1>5, <1>6, <1>7

\* The commitments that have a set of points.
LEMMA SharingAre ==
    ASSUME statement \in Statements, NEW S
    PROVE  /\ Sharing(S) \in Seq(DOMAIN Coeffs)
           /\ \A j \in 1..Len(Sharing(S)) : /\ Sharing(S)[j] \in DOMAIN Coeffs
                                            /\ Coeffs[Sharing(S)[j]] \in Vector(N)
                                            /\ Rotations(Sharing(S)[j]) = S
<1>1. PICK coms, n : coms = Commitments /\ n = Len(coms)
  OBVIOUS
<1>2. n \in Nat /\ DOMAIN coms = 1..n /\ coms \in [1..n -> DOMAIN Coeffs]
  <2>1. coms \in Seq(DOMAIN Coeffs)
    BY <1>1, CommitmentsAre
  <2> QED  BY <1>1, <2>1
<1>3. PICK P : P = {k \in 1..n : Rotations(coms[k]) = S}
  OBVIOUS
<1>4. P \in SUBSET (1..n)
  BY <1>3
<1>5. PICK u, places : u = Sharing(S) /\ places = Places(P, n)
  OBVIOUS
<1>6. Keeps(u, places, coms, P, DOMAIN Coeffs)
  <2>1. Keeps(Kept(coms, P), Places(P, n), coms, P, DOMAIN Coeffs)
    BY <1>2, <1>4, KeptIs
  <2>2. Sharing(S) = Kept(coms, P)
    BY <1>1, <1>2, <1>3 DEF Sharing
  <2> QED  BY <1>5, <2>1, <2>2
<1>7. u \in Seq(DOMAIN Coeffs) /\ \A j \in 1..Len(u) : u[j] = coms[places[j]]
  BY <1>6 DEF Keeps
<1>8. \A j \in 1..Len(u) : places[j] \in P
  <2>1. places \in Seq(P) /\ Len(places) = Len(u)
    BY <1>6 DEF Keeps, Enumerates
  <2> QED  BY <2>1
<1>9. \A j \in 1..Len(u) : Rotations(u[j]) = S
  BY <1>3, <1>7, <1>8
<1>10. \A j \in 1..Len(u) : u[j] \in DOMAIN Coeffs
  BY <1>7
<1>11. \A com \in DOMAIN Coeffs : Coeffs[com] \in Vector(N)
  BY StatementAssumption DEF Vector
<1> QED  BY <1>5, <1>7, <1>9, <1>10, <1>11

\* An enumeration of a finite set of the field is a list of it.
LEMMA EnumerationIsList ==
    ASSUME NEW S \in SUBSET Field, IsFiniteSet(S), NEW s \in SetToSeqs(S)
    PROVE  IsList(s, Cardinality(S), S) /\ ToSet(s) = S
<1>1. PICK m : m = Cardinality(S)
  OBVIOUS
<1>2. m \in Nat
  BY <1>1, FS_CardinalityType
<1>3. s \in [1..m -> S] /\ \A i, j \in 1..m : i # j => s[i] # s[j]
  BY <1>1 DEF SetToSeqs
<1>4. Cardinality(1..m) = m /\ IsFiniteSet(1..m)
  <2>1. 1 \in Int /\ m \in Int /\ (IF 1 > m THEN 0 ELSE m - 1 + 1) = m
    BY <1>2
  <2> QED  BY <2>1, FS_Interval
<1>5. s \in Injection(1..m, S)
  BY <1>3 DEF Injection, IsInjective
<1>6. s \in Surjection(1..m, S)
  BY <1>1, <1>4, <1>5, FS_Injection
<1>7. \A t \in S : \E k \in 1..m : s[k] = t
  BY <1>6 DEF Surjection
<1>8. s \in Vector(m)
  BY <1>3 DEF Vector
<1>9. Len(s) = m /\ DOMAIN s = 1..m
  BY <1>2, <1>8, VectorIs
<1>10. Distinct(s)
  BY <1>3, <1>9 DEF Distinct
<1>11. Range(s) = S /\ ToSet(s) = S
  BY <1>3, <1>7, <1>9 DEF Range, ToSet
<1> QED  BY <1>1, <1>8, <1>10, <1>11 DEF IsList

\* A choice of orders lists every set of points.
LEMMA OrdersAre ==
    ASSUME statement \in Statements, NEW orders \in Orders
    PROVE  /\ DOMAIN orders = 1..Len(RotationPoints)
           /\ \A i \in 1..Len(RotationPoints) :
                 /\ IsList(orders[i], Cardinality(RotationPoints[i]), RotationPoints[i])
                 /\ ToSet(orders[i]) = RotationPoints[i]
<1>1. PICK points, n : points = RotationPoints /\ n = Len(points)
  OBVIOUS
<1>2. n \in Nat /\ DOMAIN points = 1..n
  BY <1>1, RotationPointsAre
<1>3. PICK of : of = [i \in 1..n |-> SetToSeqs(points[i])]
  OBVIOUS
<1>4. Whole(of) = of /\ DOMAIN of = 1..n
  <2>1. of \in [1..n -> {SetToSeqs(points[i]) : i \in 1..n}]
    BY <1>3
  <2> QED  BY <1>2, <2>1, WholeIs, IsSequence
<1>5. Orders = {o \in [1..n -> UNION ToSet(of)] : \A i \in 1..n : o[i] \in of[i]}
  <2>1. Orders = {o \in [DOMAIN Whole(of) -> UNION ToSet(Whole(of))] :
                      \A i \in DOMAIN Whole(of) : o[i] \in Whole(of)[i]}
    BY <1>1, <1>2, <1>3 DEF Orders
  <2> QED  BY <1>4, <2>1
<1>6. DOMAIN orders = 1..n /\ \A i \in 1..n : orders[i] \in of[i]
  BY <1>5
<1>7. ASSUME NEW i \in 1..n
      PROVE  IsList(orders[i], Cardinality(points[i]), points[i]) /\ ToSet(orders[i]) = points[i]
  <2>1. points[i] \in SUBSET Field /\ IsFiniteSet(points[i])
    BY <1>1, RotationPointsAre
  <2>2. orders[i] \in SetToSeqs(points[i])
    BY <1>3, <1>6
  <2> QED  BY <2>1, <2>2, EnumerationIsList
<1> QED  BY <1>1, <1>6, <1>7

\* get_eval finds a query of the commitment at the point.
LEMMA FirstQueryIs ==
    ASSUME statement \in Statements, NEW com, NEW p \in Rotations(com)
    PROVE  /\ FirstQuery(com, p) \in 1..Len(Queries)
           /\ Queries[FirstQuery(com, p)].com = com
           /\ Point(Queries[FirstQuery(com, p)].at) = p
<1> DEFINE Asks(q) == Queries[q].com = com /\ Point(Queries[q].at) = p
<1>1. PICK T : T = {q \in 1..Len(Queries) : Asks(q)}
  OBVIOUS
<1>2. T \in SUBSET Nat /\ T # {}
  BY <1>1, RotationsAre
<1>3. PICK f \in T : \A k \in T : f <= k
  BY <1>2, LeastNatural
<1>4. f \in 1..Len(Queries) /\ Asks(f)
  BY <1>1, <1>3
<1>5. \A q \in 1..(f - 1) : ~ Asks(q)
  <2>1. \A q \in 1..(f - 1) : q \in 1..Len(Queries) /\ ~ (f <= q)
    BY <1>4, QueriesAre
  <2> HIDE DEF Asks
  <2> QED  BY <1>1, <1>3, <2>1
<1>6. f \in DOMAIN Queries /\ DOMAIN Queries = 1..Len(Queries)
  BY <1>4, QueriesAre
<1>7. \E q \in DOMAIN Queries : Asks(q) /\ \A r \in 1..(q - 1) : ~ Asks(r)
  BY <1>4, <1>5, <1>6
<1>8. FirstQuery(com, p) = CHOOSE q \in DOMAIN Queries : Asks(q) /\ \A r \in 1..(q - 1) : ~ Asks(r)
  BY DEF FirstQuery
<1> HIDE DEF Asks
<1>9. FirstQuery(com, p) \in DOMAIN Queries /\ Asks(FirstQuery(com, p))
  BY <1>7, <1>8
<1> QED  BY <1>6, <1>9 DEF Asks

\* The true evaluations and the claims of them.
LEMMA TrueEvalsAre ==
    ASSUME statement \in Statements
    PROVE  /\ TrueEvals \in Vector(Len(Queries)) /\ Claims \in Vector(Len(Queries))
           /\ \A q \in 1..Len(Queries) :
                 /\ TrueEvals[q] = Powers(Point(Queries[q].at), Coeffs[Queries[q].com])
                 /\ Claims[q] = Plus(TrueEvals[q], statement.error[q])
<1>1. PICK n : n = Len(Queries)
  OBVIOUS
<1>2. /\ n \in Nat /\ DOMAIN Queries = 1..n /\ statement.error \in Vector(n) /\ N \in Nat
      /\ \A q \in 1..n : Coeffs[Queries[q].com] \in Vector(N)
  BY <1>1, QueriesAre
<1>3. \A q \in 1..n : Point(Queries[q].at) \in Field
  BY <1>1, SuperPointsAre
<1>4. PICK t : t = [q \in 1..n |-> Powers(Point(Queries[q].at), Coeffs[Queries[q].com])]
  OBVIOUS
<1>5. \A q \in 1..n : Powers(Point(Queries[q].at), Coeffs[Queries[q].com]) \in Field
  BY <1>2, <1>3, PowersIs
<1>6. t \in Vector(n)
  BY <1>4, <1>5 DEF Vector
<1>7. TrueEvals = t
  <2>1. TrueEvals = Whole(t)
    BY <1>2, <1>4 DEF TrueEvals
  <2> QED  BY <1>2, <1>6, <2>1, VectorIs
<1>8. PICK c : c = [q \in 1..n |-> Plus(t[q], statement.error[q])]
  OBVIOUS
<1>9. c \in Vector(n)
  <2>1. \A q \in 1..n : t[q] \in Field /\ statement.error[q] \in Field
    BY <1>2, <1>6, VectorIs
  <2>2. \A q \in 1..n : Plus(t[q], statement.error[q]) \in Field
    BY <2>1, Closed
  <2> QED  BY <1>8, <2>2 DEF Vector
<1>10. Claims = c
  <2>1. Claims = Whole(c)
    BY <1>2, <1>7, <1>8 DEF Claims
  <2> QED  BY <1>2, <1>9, <2>1, VectorIs
<1> QED  BY <1>1, <1>4, <1>6, <1>7, <1>8, <1>9, <1>10

\* What get_eval reads for a commitment at one of its points.
LEMMA EvalOfIs ==
    ASSUME statement \in Statements, NEW com
    PROVE  /\ \A evals \in Vector(Len(Queries)) : Evaluated(evals, com, Rotations(com))
           /\ \A p \in Rotations(com) :
                 /\ EvalOf(TrueEvals, com, p) = Powers(p, Coeffs[com])
                 /\ EvalOf(Claims, com, p) = Plus(EvalOf(TrueEvals, com, p),
                                                  EvalOf(statement.error, com, p))
<1>1. ASSUME NEW p \in Rotations(com)
      PROVE  /\ \A evals \in Vector(Len(Queries)) : EvalOf(evals, com, p) \in Field
             /\ EvalOf(TrueEvals, com, p) = Powers(p, Coeffs[com])
             /\ EvalOf(Claims, com, p) = Plus(EvalOf(TrueEvals, com, p),
                                              EvalOf(statement.error, com, p))
  <2>1. PICK q : q = FirstQuery(com, p)
    OBVIOUS
  <2>2. q \in 1..Len(Queries) /\ Queries[q].com = com /\ Point(Queries[q].at) = p
    BY <2>1, FirstQueryIs
  <2>3. \A evals : EvalOf(evals, com, p) = evals[q]
    BY <2>1 DEF EvalOf
  <2>4. \A evals \in Vector(Len(Queries)) : evals[q] \in Field
    BY <2>2, QueriesAre, VectorIs
  <2>5. TrueEvals[q] = Powers(p, Coeffs[com]) /\ Claims[q] = Plus(TrueEvals[q], statement.error[q])
    BY <2>2, TrueEvalsAre
  <2> QED  BY <2>3, <2>4, <2>5
<1> QED  BY <1>1 DEF Evaluated

(* ------------------------------ rotation sets ------------------------------ *)

\* set is the rotation set of the m points S: its commitments are those sharing S, each
\* with its evaluations in the order of the points.
IsRotationSet(set, S, evals, m) ==
    /\ IsList(set.points, m, S) /\ ToSet(set.points) = S
    /\ DOMAIN set.commitments = 1..Len(Sharing(S))
    /\ \A j \in 1..Len(Sharing(S)) :
          /\ set.commitments[j].com = Sharing(S)[j]
          /\ set.commitments[j].evals = Reads(evals, Sharing(S)[j], set.points, m)

\* RotationSet makes it.
LEMMA RotationSetIs ==
    ASSUME statement \in Statements, NEW evals \in Vector(Len(Queries)), NEW m \in Nat,
           NEW S, NEW order, IsList(order, m, S), ToSet(order) = S
    PROVE  IsRotationSet(RotationSet(evals, order), S, evals, m)
<1>1. PICK coms, n : coms = Sharing(S) /\ n = Len(coms)
  OBVIOUS
<1>2. n \in Nat /\ DOMAIN coms = 1..n /\ \A j \in 1..n : Rotations(coms[j]) = S
  BY <1>1, SharingAre
<1>3. DOMAIN order = 1..m
  BY VectorIs DEF IsList
<1>4. ASSUME NEW j \in 1..n
      PROVE  Whole([k \in 1..m |-> EvalOf(evals, coms[j], order[k])]) = Reads(evals, coms[j], order, m)
  <2>1. Evaluated(evals, coms[j], S)
    BY <1>2, EvalOfIs
  <2>2. PICK r : r = Reads(evals, coms[j], order, m)
    OBVIOUS
  <2>3. r \in Vector(m)
    BY <2>1, <2>2, ReadsIs
  <2>4. Whole(r) = r
    BY <2>3, VectorIs
  <2> QED  BY <2>2, <2>4 DEF Reads
<1>5. PICK w : w = [j \in 1..n |-> [com   |-> coms[j],
                                    evals |-> Whole([k \in 1..m |-> EvalOf(evals, coms[j], order[k])])]]
  OBVIOUS
<1>6. PICK set : set = RotationSet(evals, order)
  OBVIOUS
<1>7. set = [points |-> order, commitments |-> Whole(w)]
  BY <1>1, <1>2, <1>3, <1>5, <1>6 DEF RotationSet
<1>8. Whole(w) = w
  <2>1. w \in [1..n -> {w[j] : j \in 1..n}]
    BY <1>5
  <2> QED  BY <1>2, <2>1, WholeIs
<1>9. set.points = order /\ set.commitments = w
  BY <1>7, <1>8
<1>10. DOMAIN w = 1..n
  BY <1>5
<1>11. ASSUME NEW j \in 1..n
       PROVE  w[j].com = coms[j] /\ w[j].evals = Reads(evals, coms[j], order, m)
  <2>1. w[j] = [com   |-> coms[j],
                evals |-> Whole([k \in 1..m |-> EvalOf(evals, coms[j], order[k])])]
    BY <1>5
  <2> QED  BY <1>4, <2>1
<1> QED  BY <1>1, <1>6, <1>9, <1>10, <1>11 DEF IsRotationSet

\* The folds, with y, of what the commitments sharing S are at t, and of the polynomials
\* through their evaluations.
Values(S, t)      == [j \in 1..Len(Sharing(S)) |-> Powers(t, Coeffs[Sharing(S)[j]])]
Lows(S, evals, t) == [j \in 1..Len(Sharing(S)) |-> Through(S, evals, Sharing(S)[j], t)]
Held(S, y, t)       == Powers(y, Values(S, t))
Low(S, evals, y, t) == Powers(y, Lows(S, evals, t))

\* They are elements of the field.
LEMMA GroupIs ==
    ASSUME statement \in Statements, NEW S \in SUBSET Field, IsFiniteSet(S), NEW t \in Field
    PROVE  /\ Len(Sharing(S)) \in Nat /\ Values(S, t) \in Vector(Len(Sharing(S)))
           /\ \A evals \in Vector(Len(Queries)) :
                 /\ \A j \in 1..Len(Sharing(S)) : Evaluated(evals, Sharing(S)[j], S)
                 /\ Lows(S, evals, t) \in Vector(Len(Sharing(S)))
           /\ \A y \in Field : /\ Held(S, y, t) \in Field
                               /\ \A evals \in Vector(Len(Queries)) : Low(S, evals, y, t) \in Field
<1>1. PICK coms, n : coms = Sharing(S) /\ n = Len(coms)
  OBVIOUS
<1>2. /\ n \in Nat /\ N \in Nat
      /\ \A j \in 1..n : Coeffs[coms[j]] \in Vector(N) /\ Rotations(coms[j]) = S
  BY <1>1, SharingAre, QueriesAre
<1>3. Values(S, t) \in Vector(n)
  <2>1. \A j \in 1..n : Powers(t, Coeffs[coms[j]]) \in Field
    BY <1>2, PowersIs
  <2> QED  BY <1>1, <2>1 DEF Values, Vector
<1>4. ASSUME NEW evals \in Vector(Len(Queries))
      PROVE  (\A j \in 1..n : Evaluated(evals, coms[j], S)) /\ Lows(S, evals, t) \in Vector(n)
  <2>1. \A j \in 1..n : Evaluated(evals, coms[j], S)
    BY <1>2, EvalOfIs
  <2>2. \A j \in 1..n : Through(S, evals, coms[j], t) \in Field
    BY <2>1, ThroughValues
  <2> QED  BY <1>1, <2>1, <2>2 DEF Lows, Vector
<1>5. ASSUME NEW y \in Field
      PROVE  /\ Held(S, y, t) \in Field
             /\ \A evals \in Vector(Len(Queries)) : Low(S, evals, y, t) \in Field
  BY <1>2, <1>3, <1>4, PowersIs DEF Held, Low
<1> QED  BY <1>1, <1>2, <1>3, <1>4, <1>5

\* The combined polynomial has the combined value.
LEMMA CombinedIs ==
    ASSUME statement \in Statements, NEW S \in SUBSET Field, IsFiniteSet(S),
           NEW evals \in Vector(Len(Queries)), NEW m \in Nat,
           NEW set, IsRotationSet(set, S, evals, m), ch.y \in Field
    PROVE  /\ Combined(set) \in Vector(N)
           /\ \A t \in Field : Powers(t, Combined(set)) = Held(S, ch.y, t)
<1>1. PICK coms, n : coms = Sharing(S) /\ n = Len(coms)
  OBVIOUS
<1>2. /\ n \in Nat /\ N \in Nat
      /\ \A j \in 1..n : Coeffs[coms[j]] \in Vector(N)
  BY <1>1, SharingAre, QueriesAre
<1>3. PICK polys : polys = [j \in 1..n |-> Coeffs[coms[j]]]
  OBVIOUS
<1>4. polys \in Polynomials(n, N)
  BY <1>2, <1>3 DEF Polynomials
<1>5. Combined(set) = FoldPolys(ch.y, polys)
  <2>1. DOMAIN set.commitments = 1..n /\ \A j \in 1..n : set.commitments[j].com = coms[j]
    BY <1>1 DEF IsRotationSet
  <2>2. [j \in DOMAIN set.commitments |-> Coeffs[set.commitments[j].com]] = polys
    BY <1>3, <2>1
  <2> QED  BY <2>2 DEF Combined
<1>6. ASSUME NEW t \in Field PROVE Powers(t, FoldPolys(ch.y, polys)) = Held(S, ch.y, t)
  <2>1. PICK values : values = Values(S, t)
    OBVIOUS
  <2>2. values \in Vector(n)
    BY <1>1, <2>1, GroupIs
  <2>3. AreValues(values, polys, t, n)
    BY <1>1, <1>3, <2>1 DEF AreValues, Values
  <2>4. Powers(t, FoldPolys(ch.y, polys)) = Powers(ch.y, values)
    BY <1>2, <1>4, <2>2, <2>3, FoldPolysIs
  <2> QED  BY <2>1, <2>4 DEF Held
<1>7. FoldPolys(ch.y, polys) \in Vector(N)
  BY <1>2, <1>4, FoldPolysIs
<1> QED  BY <1>5, <1>6, <1>7

\* The low-degree part has the value of the polynomials through the evaluations.
LEMMA LowDegreeIs ==
    ASSUME statement \in Statements, NEW S \in SUBSET Field, IsFiniteSet(S),
           NEW evals \in Vector(Len(Queries)), NEW m \in Nat, m <= N,
           NEW set, IsRotationSet(set, S, evals, m), ch.y \in Field
    PROVE  /\ LowDegree(set) \in Vector(N)
           /\ \A t \in Field : Powers(t, LowDegree(set)) = Low(S, evals, ch.y, t)
<1>1. PICK coms, n : coms = Sharing(S) /\ n = Len(coms)
  OBVIOUS
<1>2. /\ n \in Nat /\ N \in Nat
      /\ \A j \in 1..n : Evaluated(evals, coms[j], S)
  <2>1. Zero \in Field
    BY Closed
  <2> QED  BY <1>1, <2>1, GroupIs, QueriesAre
<1>3. PICK order : order = set.points
  OBVIOUS
<1>4. /\ IsList(order, m, S) /\ DOMAIN set.commitments = 1..n
      /\ \A j \in 1..n : set.commitments[j].evals = Reads(evals, coms[j], order, m)
  BY <1>1, <1>3 DEF IsRotationSet
<1>5. PICK polys : polys = [j \in 1..n |-> Padded(Interpolate(order, Reads(evals, coms[j], order, m)))]
  OBVIOUS
<1>6. ASSUME NEW j \in 1..n
      PROVE  /\ polys[j] \in Vector(N)
             /\ \A t \in Field : Powers(t, polys[j]) = Through(S, evals, coms[j], t)
  <2>1. PICK r, i : r = Reads(evals, coms[j], order, m) /\ i = Interpolate(order, r)
    OBVIOUS
  <2>2. Evaluated(evals, coms[j], S)
    BY <1>2
  <2>3. r \in Vector(m)
    BY <1>4, <2>1, <2>2, ReadsIs
  <2>4. i \in Vector(m)
    BY <1>4, <2>1, <2>3, InterpolateIs
  <2>5. polys[j] = Padded(i)
    BY <1>5, <2>1
  <2>6. Padded(i) \in Vector(N) /\ \A t \in Field : Powers(t, Padded(i)) = Powers(t, i)
    BY <2>4, PaddedIs
  <2>7. \A t \in Field : Powers(t, i) = Through(S, evals, coms[j], t)
    BY <1>4, <2>1, <2>2, ThroughIs
  <2> QED  BY <2>5, <2>6, <2>7
<1>7. polys \in Polynomials(n, N)
  BY <1>5, <1>6 DEF Polynomials
<1>8. LowDegree(set) = FoldPolys(ch.y, polys)
  <2>1. [j \in DOMAIN set.commitments |-> Padded(Interpolate(set.points, set.commitments[j].evals))]
            = polys
    BY <1>3, <1>4, <1>5
  <2> QED  BY <2>1 DEF LowDegree
<1>9. ASSUME NEW t \in Field PROVE Powers(t, FoldPolys(ch.y, polys)) = Low(S, evals, ch.y, t)
  <2>1. PICK values : values = Lows(S, evals, t)
    OBVIOUS
  <2>2. values \in Vector(n)
    BY <1>1, <2>1, GroupIs
  <2>3. AreValues(values, polys, t, n)
    BY <1>1, <1>6, <2>1 DEF AreValues, Lows
  <2>4. Powers(t, FoldPolys(ch.y, polys)) = Powers(ch.y, values)
    BY <1>2, <1>7, <2>2, <2>3, FoldPolysIs
  <2> QED  BY <2>1, <2>4 DEF Low
<1>10. FoldPolys(ch.y, polys) \in Vector(N)
  BY <1>2, <1>7, FoldPolysIs
<1> QED  BY <1>8, <1>9, <1>10

\* At its own points a group's commitments are what the prover evaluates them to.
LEMMA HeldIsLow ==
    ASSUME statement \in Statements, NEW S \in SUBSET Field, IsFiniteSet(S), NEW p \in S, NEW y
    PROVE  Held(S, y, p) = Low(S, TrueEvals, y, p)
<1>1. PICK coms, n : coms = Sharing(S) /\ n = Len(coms)
  OBVIOUS
<1>2. ASSUME NEW j \in 1..n PROVE Powers(p, Coeffs[coms[j]]) = Through(S, TrueEvals, coms[j], p)
  <2>1. Rotations(coms[j]) = S
    BY <1>1, SharingAre
  <2>2. Evaluated(TrueEvals, coms[j], S)
    BY <2>1, EvalOfIs, TrueEvalsAre
  <2>3. Through(S, TrueEvals, coms[j], p) = EvalOf(TrueEvals, coms[j], p)
    BY <2>2, ThroughValues
  <2> QED  BY <2>1, <2>3, EvalOfIs
<1>3. Values(S, p) = Lows(S, TrueEvals, p)
  BY <1>1, <1>2 DEF Values, Lows
<1> QED  BY <1>3 DEF Held, Low

\* The quotient of a group is exact.
LEMMA QuotientIs ==
    ASSUME statement \in Statements, NEW S \in SUBSET Field, IsFiniteSet(S),
           NEW m \in Nat, m <= N,
           NEW set, IsRotationSet(set, S, TrueEvals, m), ch.y \in Field
    PROVE  /\ Quotient(set) \in Vector(N)
           /\ \A t \in Field : Times(Powers(t, Quotient(set)), Vanishing(S, t))
                                   = Less(Held(S, ch.y, t), Low(S, TrueEvals, ch.y, t))
<1>1. PICK p, r : p = Combined(set) /\ r = LowDegree(set)
  OBVIOUS
<1>2. /\ p \in Vector(N) /\ \A t \in Field : Powers(t, p) = Held(S, ch.y, t)
      /\ r \in Vector(N) /\ \A t \in Field : Powers(t, r) = Low(S, TrueEvals, ch.y, t)
      /\ N \in Nat
  <2>1. TrueEvals \in Vector(Len(Queries)) /\ N \in Nat
    BY TrueEvalsAre, QueriesAre
  <2> QED  BY <1>1, <2>1, CombinedIs, LowDegreeIs
<1>3. PICK d : d = [k \in 1..N |-> Less(p[k], r[k])]
  OBVIOUS
<1>4. d \in Vector(N) /\ Whole(d) = d
  <2>1. \A k \in 1..N : p[k] \in Field /\ r[k] \in Field
    BY <1>2, VectorIs
  <2>2. \A k \in 1..N : Less(p[k], r[k]) \in Field
    BY <2>1, Closed
  <2>3. d \in Vector(N)
    BY <1>3, <2>2 DEF Vector
  <2> QED  BY <1>2, <2>3, VectorIs
<1>5. \A t \in Field : Powers(t, d) = Less(Held(S, ch.y, t), Low(S, TrueEvals, ch.y, t))
  <2>1. \A t \in Field : Powers(t, d) = Less(Powers(t, p), Powers(t, r))
    BY <1>2, <1>3, <1>4, PowersLess
  <2> QED  BY <1>2, <2>1
<1>6. PICK order : order = set.points
  OBVIOUS
<1>7. IsList(order, m, S)
  BY <1>6 DEF IsRotationSet
<1>8. order \in Vector(m) /\ Distinct(order) /\ \A i \in 1..m : order[i] \in S
  BY <1>7, VectorIs DEF IsList, Range
<1>9. Vanishes(d, order, m)
  <2>1. ASSUME NEW x \in S PROVE Powers(x, d) = Zero
    <3>1. PICK a, b : a = Held(S, ch.y, x) /\ b = Low(S, TrueEvals, ch.y, x)
      OBVIOUS
    <3>2. a = b
      BY <3>1, HeldIsLow
    <3>3. a \in Field
      BY <3>1, GroupIs
    <3>4. Powers(x, d) = Less(a, b)
      BY <1>5, <3>1
    <3> QED  BY <3>2, <3>3, <3>4, LessZero
  <2> QED  BY <1>8, <2>1 DEF Vanishes
<1>10. PICK q : q = Divided(d, order)
  OBVIOUS
<1>11. /\ q \in Vector(N - m)
       /\ \A t \in Field : Powers(t, d) = Times(Powers(t, q), Product(order, t))
  BY <1>2, <1>4, <1>8, <1>9, <1>10, DividedIs
<1>12. Padded(q) \in Vector(N) /\ \A t \in Field : Powers(t, Padded(q)) = Powers(t, q)
  <2>1. N - m \in Nat /\ N - m <= N
    BY <1>2
  <2> QED  BY <1>11, <2>1, PaddedIs
<1>13. Quotient(set) = Padded(q)
  BY <1>1, <1>3, <1>4, <1>6, <1>10 DEF Quotient
<1>14. \A t \in Field : Product(order, t) = Vanishing(S, t)
  BY <1>7, VanishingIs
<1>15. ASSUME NEW t \in Field
       PROVE  Times(Powers(t, Padded(q)), Vanishing(S, t))
                  = Less(Held(S, ch.y, t), Low(S, TrueEvals, ch.y, t))
  <2>1. Powers(t, Padded(q)) = Powers(t, q) /\ Vanishing(S, t) = Product(order, t)
    BY <1>12, <1>14
  <2>2. Powers(t, d) = Times(Powers(t, q), Product(order, t))
    BY <1>11
  <2>3. Powers(t, d) = Less(Held(S, ch.y, t), Low(S, TrueEvals, ch.y, t))
    BY <1>5
  <2> QED  BY ONLY <2>1, <2>2, <2>3
<1> QED  BY <1>12, <1>13, <1>15

\* own has the rotation sets, in the order of RotationPoints.
Grouped(own, evals) ==
    /\ DOMAIN own = 1..Len(RotationPoints)
    /\ \A i \in 1..Len(RotationPoints) :
          IsRotationSet(own[i], RotationPoints[i], evals, Cardinality(RotationPoints[i]))

\* So do the sets of construct_intermediate_sets, whatever the orders.
LEMMA RotationSetsAre ==
    ASSUME statement \in Statements, NEW evals \in Vector(Len(Queries)), NEW orders \in Orders
    PROVE  Grouped(RotationSets(evals, orders), evals)
<1>1. PICK points, n : points = RotationPoints /\ n = Len(points)
  OBVIOUS
<1>2. n \in Nat /\ DOMAIN orders = 1..n
  BY <1>1, RotationPointsAre, OrdersAre
<1>3. PICK w : w = [i \in 1..n |-> RotationSet(evals, orders[i])]
  OBVIOUS
<1>4. Whole(w) = w
  <2>1. w \in [1..n -> {w[i] : i \in 1..n}]
    BY <1>3
  <2> QED  BY <1>2, <2>1, WholeIs
<1>5. RotationSets(evals, orders) = w
  BY <1>2, <1>3, <1>4 DEF RotationSets
<1>6. DOMAIN w = 1..n
  BY <1>3
<1>7. ASSUME NEW i \in 1..n
      PROVE  IsRotationSet(w[i], points[i], evals, Cardinality(points[i]))
  <2>1. /\ IsList(orders[i], Cardinality(points[i]), points[i]) /\ ToSet(orders[i]) = points[i]
        /\ Cardinality(points[i]) \in Nat
    BY <1>1, OrdersAre, RotationPointsAre
  <2>2. IsRotationSet(RotationSet(evals, orders[i]), points[i], evals, Cardinality(points[i]))
    BY <2>1, RotationSetIs
  <2> QED  BY <1>3, <2>2
<1> QED  BY <1>1, <1>5, <1>6, <1>7 DEF Grouped

\* What a group contributes: its commitments at s less their evaluations carried to t,
\* times the vanishing polynomial of the other points at t;
Gap(S, evals, s, t) ==
    Times(Vanishing(Diffs(S), t), Less(Held(S, ch.y, s), Low(S, evals, ch.y, t)))
Gaps(evals, s, t) == [i \in 1..Len(RotationPoints) |-> Gap(RotationPoints[i], evals, s, t)]

\* an element of the field.
LEMMA GapsAre ==
    ASSUME statement \in Statements, ch.y \in Field, NEW evals \in Vector(Len(Queries)),
           NEW s \in Field, NEW t \in Field
    PROVE  /\ Gaps(evals, s, t) \in Vector(Len(RotationPoints))
           /\ \A i \in 1..Len(RotationPoints) :
                 /\ Vanishing(Diffs(RotationPoints[i]), t) \in Field
                 /\ Held(RotationPoints[i], ch.y, s) \in Field
                 /\ Low(RotationPoints[i], evals, ch.y, t) \in Field
                 /\ Less(Held(RotationPoints[i], ch.y, s), Low(RotationPoints[i], evals, ch.y, t)) \in Field
<1>1. ASSUME NEW i \in 1..Len(RotationPoints)
      PROVE  LET S == RotationPoints[i]
             IN  /\ Vanishing(Diffs(S), t) \in Field
                 /\ Held(S, ch.y, s) \in Field /\ Low(S, evals, ch.y, t) \in Field
                 /\ Less(Held(S, ch.y, s), Low(S, evals, ch.y, t)) \in Field
                 /\ Gap(S, evals, s, t) \in Field
  <2>1. PICK S : S = RotationPoints[i]
    OBVIOUS
  <2>2. S \in SUBSET Field /\ IsFiniteSet(S)
    BY <2>1, RotationPointsAre
  <2>3. SuperPoints \ S \in SUBSET Field /\ IsFiniteSet(SuperPoints \ S)
    BY SuperPointsAre, FS_Difference
  <2>4. Vanishing(Diffs(S), t) \in Field
    BY <2>3, VanishingType DEF Diffs
  <2>5. Held(S, ch.y, s) \in Field /\ Low(S, evals, ch.y, t) \in Field
    BY <2>2, GroupIs
  <2>6. Less(Held(S, ch.y, s), Low(S, evals, ch.y, t)) \in Field
    BY <2>5, Closed
  <2>7. Gap(S, evals, s, t) \in Field
    BY <2>4, <2>6, Closed DEF Gap
  <2> QED  BY ONLY <2>1, <2>4, <2>5, <2>6, <2>7
<1>2. \A i \in 1..Len(RotationPoints) : Gap(RotationPoints[i], evals, s, t) \in Field
  BY <1>1
<1> QED  BY <1>1, <1>2 DEF Gaps, Vector

\* The folded quotient, times the vanishing polynomial of every point asked for, is the
\* fold of what the groups contribute.
LEMMA FoldedIs ==
    ASSUME statement \in Statements, Grouped(sets, TrueEvals), ch.y \in Field, ch.v \in Field,
           NEW q, q = FoldPolys(ch.v, [i \in DOMAIN sets |-> Quotient(sets[i])])
    PROVE  /\ q \in Vector(N)
           /\ \A t \in Field : Times(Powers(t, q), Vanishing(SuperPoints, t))
                                   = Powers(ch.v, Gaps(TrueEvals, t, t))
<1>1. PICK points, n : points = RotationPoints /\ n = Len(points)
  OBVIOUS
<1>2. /\ n \in Nat /\ DOMAIN sets = 1..n /\ N \in Nat /\ TrueEvals \in Vector(Len(Queries))
      /\ \A i \in 1..n : IsRotationSet(sets[i], points[i], TrueEvals, Cardinality(points[i]))
  BY <1>1, RotationPointsAre, QueriesAre, TrueEvalsAre DEF Grouped
<1>3. ASSUME NEW i \in 1..n
      PROVE  /\ points[i] \in SUBSET SuperPoints
             /\ Quotient(sets[i]) \in Vector(N)
             /\ \A t \in Field :
                   Times(Powers(t, Quotient(sets[i])), Vanishing(points[i], t))
                       = Less(Held(points[i], ch.y, t), Low(points[i], TrueEvals, ch.y, t))
  <2>1. /\ points[i] \in SUBSET SuperPoints /\ points[i] \in SUBSET Field /\ IsFiniteSet(points[i])
        /\ Cardinality(points[i]) \in Nat /\ Cardinality(points[i]) <= N
    BY <1>1, RotationPointsAre
  <2>2. IsRotationSet(sets[i], points[i], TrueEvals, Cardinality(points[i]))
    BY <1>2
  <2> QED  BY <2>1, <2>2, QuotientIs
<1>4. PICK polys : polys = [i \in 1..n |-> Quotient(sets[i])]
  OBVIOUS
<1>5. polys \in Polynomials(n, N) /\ q = FoldPolys(ch.v, polys)
  BY <1>2, <1>3, <1>4 DEF Polynomials
<1>6. q \in Vector(N)
  BY <1>2, <1>5, FoldPolysIs
<1>7. ASSUME NEW t \in Field
      PROVE  Times(Powers(t, q), Vanishing(SuperPoints, t)) = Powers(ch.v, Gaps(TrueEvals, t, t))
  <2>1. PICK values : values = [i \in 1..n |-> Powers(t, polys[i])]
    OBVIOUS
  <2>2. \A i \in 1..n : values[i] \in Field /\ values[i] = Powers(t, polys[i])
    BY <1>2, <1>3, <1>4, <2>1, PowersIs
  <2>3. values \in Vector(n) /\ AreValues(values, polys, t, n)
    BY <2>1, <2>2 DEF Vector, AreValues
  <2>4. Powers(t, q) = Powers(ch.v, values)
    BY <1>2, <1>5, <2>3, FoldPolysIs
  <2>5. PICK z : z = Vanishing(SuperPoints, t)
    OBVIOUS
  <2>6. z \in Field
    BY <2>5, SuperPointsAre, VanishingType
  <2>7. PICK w : w = Gaps(TrueEvals, t, t)
    OBVIOUS
  <2>8. w \in Vector(n)
    BY <1>1, <1>2, <2>7, GapsAre
  <2>9. ASSUME NEW i \in 1..n PROVE w[i] = Times(z, values[i])
    <3>1. PICK S, a, b, e, x : /\ S = points[i] /\ a = Vanishing(SuperPoints \ S, t) /\ b = Vanishing(S, t)
                               /\ e = Less(Held(S, ch.y, t), Low(S, TrueEvals, ch.y, t))
                               /\ x = values[i]
      OBVIOUS
    <3>2. S \in SUBSET SuperPoints
      BY <1>3, <3>1
    <3>3. z = Times(a, b)
      BY <2>5, <3>1, <3>2, SuperPointsAre, VanishingParts
    <3>4. a \in Field /\ b \in Field
      <4>1. /\ SuperPoints \ S \in SUBSET Field /\ IsFiniteSet(SuperPoints \ S)
            /\ S \in SUBSET Field /\ IsFiniteSet(S)
        BY <3>2, SuperPointsAre, FS_Difference, FS_Subset
      <4> QED  BY <3>1, <4>1, VanishingType
    <3>5. Times(x, b) = e /\ x \in Field
      BY <1>3, <1>4, <2>2, <3>1
    <3>6. Times(Times(a, b), x) = Times(a, Times(b, x)) /\ Times(b, x) = Times(x, b)
      BY <3>4, <3>5, Laws
    <3>7. w[i] = Times(a, e)
      BY <1>1, <2>7, <3>1 DEF Gaps, Gap, Diffs
    <3> QED  BY ONLY <3>1, <3>3, <3>5, <3>6, <3>7
  <2>10. Powers(ch.v, w) = Times(z, Powers(ch.v, values))
    BY <1>2, <2>3, <2>6, <2>8, <2>9, PowersScaled
  <2>11. Times(Powers(ch.v, values), z) = Times(z, Powers(ch.v, values))
    BY <1>2, <2>3, <2>6, PowersIs, Laws
  <2> QED  BY ONLY <2>4, <2>5, <2>7, <2>10, <2>11
<1> QED  BY <1>6, <1>7

\* What the prover has when it has folded its quotient is exact.
LEMMA FoldedExact ==
    ASSUME statement \in Statements, Grouped(sets, TrueEvals), ch.y \in Field, ch.v \in Field,
           h = FoldPolys(ch.v, [i \in DOMAIN sets |-> Quotient(sets[i])])
    PROVE  QuotientIsExact
<1>1. PICK n : n = Len(RotationPoints)
  OBVIOUS
<1>2. /\ n \in Nat /\ DOMAIN sets = 1..n /\ TrueEvals \in Vector(Len(Queries))
      /\ \A i \in 1..n : IsRotationSet(sets[i], RotationPoints[i], TrueEvals,
                                       Cardinality(RotationPoints[i]))
  BY <1>1, RotationPointsAre, TrueEvalsAre DEF Grouped
<1> DEFINE low  == Whole([i \in DOMAIN sets |-> LowDegree(sets[i])])
           coms == Whole([i \in DOMAIN sets |-> Sharing(RotationPoints[i])])
           through(i, t) == Powers(ch.y, [j \in DOMAIN coms[i] |->
                                Through(RotationPoints[i], TrueEvals, coms[i][j], t)])
           held(i, t) == Powers(ch.y, [j \in DOMAIN coms[i] |-> Powers(t, Coeffs[coms[i][j]])])
           gap(i, t)  == Times(Vanishing(SuperPoints \ RotationPoints[i], t),
                               Less(held(i, t), through(i, t)))
<1>3. ASSUME NEW i \in 1..n
      PROVE  low[i] = LowDegree(sets[i]) /\ coms[i] = Sharing(RotationPoints[i])
  <2>1. PICK l, c : /\ l = [k \in 1..n |-> LowDegree(sets[k])]
                    /\ c = [k \in 1..n |-> Sharing(RotationPoints[k])]
    OBVIOUS
  <2>2. l \in [1..n -> {l[k] : k \in 1..n}] /\ c \in [1..n -> {c[k] : k \in 1..n}]
    BY <2>1
  <2>3. Whole(l) = l /\ Whole(c) = c
    BY <1>2, <2>2, WholeIs
  <2>4. low = l /\ coms = c
    BY <1>2, <2>1, <2>3
  <2> HIDE DEF low, coms
  <2> QED  BY <2>1, <2>4
<1> HIDE DEF low, coms
<1>4. ASSUME NEW i \in 1..n, NEW t
      PROVE  /\ through(i, t) = Low(RotationPoints[i], TrueEvals, ch.y, t)
             /\ held(i, t) = Held(RotationPoints[i], ch.y, t)
  <2>1. coms[i] = Sharing(RotationPoints[i])
    BY <1>3
  <2>2. DOMAIN coms[i] = 1..Len(Sharing(RotationPoints[i]))
    BY <2>1, SharingAre
  <2> QED  BY <2>1, <2>2 DEF Low, Lows, Held, Values
<1> HIDE DEF through, held
<1>5. ASSUME NEW i \in 1..n, NEW t \in Field PROVE Powers(t, low[i]) = through(i, t)
  <2>1. /\ RotationPoints[i] \in SUBSET Field /\ IsFiniteSet(RotationPoints[i])
        /\ Cardinality(RotationPoints[i]) \in Nat /\ Cardinality(RotationPoints[i]) <= N
    BY <1>1, RotationPointsAre
  <2>2. IsRotationSet(sets[i], RotationPoints[i], TrueEvals, Cardinality(RotationPoints[i]))
    BY <1>2
  <2>3. Powers(t, LowDegree(sets[i])) = Low(RotationPoints[i], TrueEvals, ch.y, t)
    BY <1>2, <2>1, <2>2, LowDegreeIs
  <2> QED  BY <1>3, <1>4, <2>3
<1>6. ASSUME NEW t \in Field
      PROVE  Times(Powers(t, h), Vanishing(SuperPoints, t))
                 = Powers(ch.v, [i \in DOMAIN sets |-> gap(i, t)])
  <2>1. Times(Powers(t, h), Vanishing(SuperPoints, t)) = Powers(ch.v, Gaps(TrueEvals, t, t))
    BY FoldedIs
  <2>2. \A i \in 1..n : Gap(RotationPoints[i], TrueEvals, t, t) = gap(i, t)
    BY <1>4 DEF Gap, Diffs
  <2> HIDE DEF gap
  <2>3. Gaps(TrueEvals, t, t) = [i \in DOMAIN sets |-> gap(i, t)]
    BY <1>1, <1>2, <2>2 DEF Gaps
  <2> QED  BY <2>1, <2>3
<1>7. \A t \in Field :
          /\ \A i \in DOMAIN sets : Powers(t, low[i]) = through(i, t)
          /\ Times(Powers(t, h), Vanishing(SuperPoints, t))
                 = Powers(ch.v, [i \in DOMAIN sets |-> gap(i, t)])
  <2> HIDE DEF gap
  <2> QED  BY <1>2, <1>5, <1>6
<1> QED  BY <1>7 DEF QuotientIsExact, low, coms, through, held

(* ----------------------------- the linearisation --------------------------- *)

\* Where only the first coefficient changes, the value changes as it does everywhere.
LEMMA PowersFirst ==
    ASSUME NEW n \in Nat, n >= 1, NEW p \in Vector(n), NEW r \in Field, NEW w \in Vector(n),
           w[1] = Less(p[1], r), \A k \in 2..n : w[k] = p[k], NEW a \in Field
    PROVE  Powers(a, w) = Less(Powers(a, p), r)
<1>1. PICK f : f = Horner(a, p)
  OBVIOUS
<1>2. f \in Vector(n + 1) /\ f[n + 1] = Zero /\ \A k \in 1..n : f[k] = Plus(p[k], Times(a, f[k + 1]))
  BY <1>1, HornerIs DEF IsHorner
<1>3. PICK g : g = [k \in 1..(n + 1) |-> IF k = 1 THEN Less(f[1], r) ELSE f[k]]
  OBVIOUS
<1>4. \A k \in 1..(n + 1) : f[k] \in Field
  BY <1>2, VectorIs
<1>5. 1 \in 1..(n + 1) /\ 2 \in 1..(n + 1) /\ 1 \in 1..n
  OBVIOUS
<1>6. Less(f[1], r) \in Field
  BY <1>4, <1>5, Closed
<1>7. g \in Vector(n + 1) /\ g[1] = Less(f[1], r) /\ \A k \in 2..(n + 1) : g[k] = f[k]
  BY <1>3, <1>4, <1>5, <1>6 DEF Vector
<1>8. g[1] = Plus(w[1], Times(a, g[2]))
  <2>1. PICK x, y : x = p[1] /\ y = Times(a, f[2])
    OBVIOUS
  <2>2. x \in Field /\ y \in Field
    BY <1>4, <1>5, <2>1, VectorIs, Closed
  <2>3. f[1] = Plus(x, y) /\ g[2] = f[2] /\ w[1] = Less(x, r)
    BY <1>2, <1>5, <1>7, <2>1
  <2>4. Plus(Less(x, r), Less(y, Zero)) = Less(Plus(x, y), Plus(r, Zero))
    BY <2>2, ExchangeLess, Closed
  <2>5. Less(y, Zero) = y /\ Plus(r, Zero) = r
    BY <2>2, LessZero, Laws
  <2> QED  BY ONLY <1>7, <2>1, <2>3, <2>4, <2>5
<1>9. IsHorner(g, a, w, n)
  <2>1. g[n + 1] = Zero
    BY <1>2, <1>7
  <2>2. \A k \in 2..n : g[k] = Plus(w[k], Times(a, g[k + 1]))
    <3>1. \A k \in 2..n : k \in 1..n /\ k \in 2..(n + 1) /\ k + 1 \in 2..(n + 1)
      OBVIOUS
    <3> QED  BY <1>2, <1>7, <3>1
  <2>3. \A k \in 1..n : k = 1 \/ k \in 2..n
    OBVIOUS
  <2>4. \A k \in 1..n : g[k] = Plus(w[k], Times(a, g[k + 1]))
    BY <1>8, <2>2, <2>3
  <2> QED  BY <1>7, <2>1, <2>4 DEF IsHorner
<1>10. Powers(a, w) = g[1] /\ Powers(a, p) = f[1]
  BY <1>1, <1>9, PowersIs
<1> QED  BY <1>7, <1>10

\* A group's part of the linearisation.
LEMMA LinearisedIs ==
    ASSUME statement \in Statements, NEW S \in SUBSET Field, IsFiniteSet(S),
           NEW m \in Nat, m <= N, NEW set, IsRotationSet(set, S, TrueEvals, m),
           ch.y \in Field, NEW u \in Field
    PROVE  /\ Linearised(set, u) \in Vector(N)
           /\ \A t \in Field : Powers(t, Linearised(set, u)) = Gap(S, TrueEvals, t, u)
<1>1. PICK p, r, z : p = Combined(set) /\ r = Powers(u, LowDegree(set)) /\ z = Vanishing(Diffs(S), u)
  OBVIOUS
<1>2. /\ p \in Vector(N) /\ \A t \in Field : Powers(t, p) = Held(S, ch.y, t)
      /\ r = Low(S, TrueEvals, ch.y, u) /\ r \in Field /\ N \in Nat /\ N >= 1
  <2>1. TrueEvals \in Vector(Len(Queries)) /\ N \in Nat /\ N >= 1
    BY TrueEvalsAre, QueriesAre
  <2>2. p \in Vector(N) /\ \A t \in Field : Powers(t, p) = Held(S, ch.y, t)
    BY <1>1, <2>1, CombinedIs
  <2>3. r = Low(S, TrueEvals, ch.y, u)
    BY <1>1, <2>1, LowDegreeIs
  <2>4. Low(S, TrueEvals, ch.y, u) \in Field
    BY <2>1, GroupIs
  <2> QED  BY <2>1, <2>2, <2>3, <2>4
<1>3. z \in Field
  <2>1. SuperPoints \ S \in SUBSET Field /\ IsFiniteSet(SuperPoints \ S)
    BY SuperPointsAre, FS_Difference
  <2> QED  BY <1>1, <2>1, VanishingType DEF Diffs
<1>4. PICK w : w = [k \in 1..N |-> IF k = 1 THEN Less(p[1], r) ELSE p[k]]
  OBVIOUS
<1>5. w \in Vector(N) /\ w[1] = Less(p[1], r) /\ \A k \in 2..N : w[k] = p[k]
  <2>1. \A k \in 1..N : p[k] \in Field
    BY <1>2, VectorIs
  <2>2. 1 \in 1..N
    BY <1>2
  <2>3. Less(p[1], r) \in Field
    BY <1>2, <2>1, <2>2, Closed
  <2> QED  BY <1>4, <2>1, <2>2, <2>3 DEF Vector
<1>6. PICK l : l = [k \in 1..N |-> Times(z, w[k])]
  OBVIOUS
<1>7. l \in Vector(N) /\ Whole(l) = l
  <2>1. \A k \in 1..N : w[k] \in Field
    BY <1>2, <1>5, VectorIs
  <2>2. \A k \in 1..N : Times(z, w[k]) \in Field
    BY <1>3, <2>1, Closed
  <2>3. l \in Vector(N)
    BY <1>6, <2>2 DEF Vector
  <2> QED  BY <1>2, <2>3, VectorIs
<1>8. Linearised(set, u) = l
  <2>1. ToSet(set.points) = S
    BY DEF IsRotationSet
  <2>2. [k \in 1..N |-> Times(z, IF k = 1 THEN Less(p[1], r) ELSE p[k])] = l
    BY <1>4, <1>6
  <2> QED  BY <1>1, <1>7, <2>1, <2>2 DEF Linearised
<1>9. ASSUME NEW t \in Field PROVE Powers(t, l) = Gap(S, TrueEvals, t, u)
  <2>1. Powers(t, l) = Times(z, Powers(t, w))
    BY <1>2, <1>3, <1>5, <1>6, <1>7, PowersScaled
  <2>2. Powers(t, w) = Less(Powers(t, p), r)
    BY <1>2, <1>5, PowersFirst
  <2>3. Powers(t, p) = Held(S, ch.y, t)
    BY <1>2
  <2> QED  BY <1>1, <1>2, <2>1, <2>2, <2>3 DEF Gap
<1> QED  BY <1>7, <1>8, <1>9

\* The linearisation less the quotient, as the prover computes it from its sets.
Linearisation(u) ==
    LET l == FoldPolys(ch.v, [i \in DOMAIN sets |-> Linearised(sets[i], u)])
        z == Vanishing(SuperPoints, u)
    IN  Whole([k \in 1..N |-> Less(l[k], Times(z, h[k]))])

\* The linearisation vanishes at u, so that its division is exact too: what the prover
\* asserts and release builds leave out.
LEMMA LineariseIs ==
    ASSUME statement \in Statements, Grouped(sets, TrueEvals), ch.y \in Field, ch.v \in Field,
           NEW u \in Field, h \in Vector(N),
           Times(Powers(u, h), Vanishing(SuperPoints, u)) = Powers(ch.v, Gaps(TrueEvals, u, u))
    PROVE  /\ Commit(Kate(Linearisation(u), u)) \in Field
           /\ Times(Less(Secret, u), Commit(Kate(Linearisation(u), u)))
                  = Less(Powers(ch.v, Gaps(TrueEvals, Secret, u)),
                         Times(Vanishing(SuperPoints, u), Commit(h)))
<1>0. PICK l, z, lx : /\ l = FoldPolys(ch.v, [i \in DOMAIN sets |-> Linearised(sets[i], u)])
                      /\ z = Vanishing(SuperPoints, u) /\ lx = Linearisation(u)
  OBVIOUS
<1>1. PICK points, n : points = RotationPoints /\ n = Len(points)
  OBVIOUS
<1>2. /\ n \in Nat /\ DOMAIN sets = 1..n /\ N \in Nat /\ N >= 1 /\ TrueEvals \in Vector(Len(Queries))
      /\ \A i \in 1..n : IsRotationSet(sets[i], points[i], TrueEvals, Cardinality(points[i]))
      /\ Secret \in Field
  BY <1>1, RotationPointsAre, QueriesAre, TrueEvalsAre, StatementAssumption DEF Grouped
<1>3. ASSUME NEW i \in 1..n
      PROVE  /\ Linearised(sets[i], u) \in Vector(N)
             /\ \A t \in Field : Powers(t, Linearised(sets[i], u)) = Gap(points[i], TrueEvals, t, u)
  <2>1. /\ points[i] \in SUBSET Field /\ IsFiniteSet(points[i])
        /\ Cardinality(points[i]) \in Nat /\ Cardinality(points[i]) <= N
    BY <1>1, RotationPointsAre
  <2>2. IsRotationSet(sets[i], points[i], TrueEvals, Cardinality(points[i]))
    BY <1>2
  <2> QED  BY <2>1, <2>2, LinearisedIs
<1>4. PICK polys : polys = [i \in 1..n |-> Linearised(sets[i], u)]
  OBVIOUS
<1>5. polys \in Polynomials(n, N) /\ l = FoldPolys(ch.v, polys)
  BY <1>0, <1>2, <1>3, <1>4 DEF Polynomials
<1>6. l \in Vector(N)
  BY <1>2, <1>5, FoldPolysIs
<1>7. ASSUME NEW t \in Field PROVE Powers(t, l) = Powers(ch.v, Gaps(TrueEvals, t, u))
  <2>1. PICK values : values = Gaps(TrueEvals, t, u)
    OBVIOUS
  <2>2. values \in Vector(n)
    BY <1>1, <1>2, <2>1, GapsAre
  <2>3. AreValues(values, polys, t, n)
    BY <1>1, <1>3, <1>4, <2>1 DEF AreValues, Gaps
  <2> QED  BY <1>2, <1>5, <2>1, <2>2, <2>3, FoldPolysIs
<1>8. z \in Field
  BY <1>0, SuperPointsAre, VanishingType
<1>9. PICK zh : zh = [k \in 1..N |-> Times(z, h[k])]
  OBVIOUS
<1>10. zh \in Vector(N) /\ \A t \in Field : Powers(t, zh) = Times(z, Powers(t, h))
  <2>1. \A k \in 1..N : h[k] \in Field
    BY <1>2, VectorIs
  <2>2. \A k \in 1..N : Times(z, h[k]) \in Field
    BY <1>8, <2>1, Closed
  <2>3. zh \in Vector(N) /\ \A k \in 1..N : zh[k] = Times(z, h[k])
    BY <1>9, <2>2 DEF Vector
  <2> QED  BY <1>2, <1>8, <2>3, PowersScaled
<1>11. PICK d : d = [k \in 1..N |-> Less(l[k], Times(z, h[k]))]
  OBVIOUS
<1>12. /\ d \in Vector(N) /\ lx = d
       /\ \A t \in Field : Powers(t, d) = Less(Powers(t, l), Powers(t, zh))
  <2>1. \A k \in 1..N : d[k] = Less(l[k], zh[k])
    BY <1>9, <1>11
  <2>2. \A k \in 1..N : l[k] \in Field /\ zh[k] \in Field
    BY <1>2, <1>6, <1>10, VectorIs
  <2>3. ASSUME NEW k \in 1..N PROVE d[k] \in Field
    <3>1. PICK a, b : a = l[k] /\ b = zh[k]
      OBVIOUS
    <3>2. a \in Field /\ b \in Field
      BY <2>2, <3>1
    <3>3. Less(a, b) \in Field
      BY <3>2, Closed
    <3> QED  BY <2>1, <3>1, <3>3
  <2>4. d \in Vector(N)
    BY <1>11, <2>3 DEF Vector
  <2>5. lx = d
    <3>1. lx = Whole(d)
      BY <1>0, <1>11 DEF Linearisation
    <3> QED  BY <1>2, <2>4, <3>1, VectorIs
  <2> QED  BY <1>2, <1>6, <1>10, <2>1, <2>4, <2>5, PowersLess
<1>13. Powers(u, d) = Zero
  <2>1. PICK a, b : a = Powers(u, l) /\ b = Powers(u, zh)
    OBVIOUS
  <2>2. a = Powers(ch.v, Gaps(TrueEvals, u, u)) /\ b = Times(z, Powers(u, h))
    BY <1>7, <1>10, <2>1
  <2>3. Times(z, Powers(u, h)) = Times(Powers(u, h), z)
    BY <1>2, <1>8, PowersIs, Laws
  <2>4. a = b /\ a \in Field
    BY <1>0, <1>2, <1>6, <2>1, <2>2, <2>3, PowersIs
  <2>5. Powers(u, d) = Less(a, b)
    BY <1>12, <2>1
  <2> QED  BY <2>4, <2>5, LessZero
<1>14. PICK q : q = Kate(d, u)
  OBVIOUS
<1>15. /\ q \in Vector(N - 1)
       /\ Powers(Secret, d) = Plus(Times(Powers(Secret, q), Less(Secret, u)), Powers(u, d))
  BY <1>2, <1>12, <1>14, KateIs
<1>16. PICK c : c = Powers(Secret, q)
  OBVIOUS
<1>17. c \in Field /\ Less(Secret, u) \in Field
  <2>1. N - 1 \in Nat
    BY <1>2
  <2> QED  BY <1>2, <1>15, <1>16, <2>1, PowersIs, Closed
<1>18. Powers(Secret, d) = Times(Less(Secret, u), c)
  <2>1. Plus(Times(c, Less(Secret, u)), Zero) = Times(c, Less(Secret, u))
    BY <1>17, Laws, Closed
  <2>2. Times(c, Less(Secret, u)) = Times(Less(Secret, u), c)
    BY <1>17, Laws
  <2> QED  BY ONLY <1>13, <1>15, <1>16, <2>1, <2>2
<1>19. Powers(Secret, d) = Less(Powers(ch.v, Gaps(TrueEvals, Secret, u)), Times(z, Powers(Secret, h)))
  BY <1>2, <1>7, <1>10, <1>12
<1>20. Commit(Kate(lx, u)) = c /\ Commit(h) = Powers(Secret, h)
  BY <1>12, <1>14, <1>16 DEF Commit
<1> QED  BY ONLY <1>0, <1>17, <1>18, <1>19, <1>20

(* ------------------------------ the verifiers ------------------------------ *)

\* What remains of a claimed evaluation is its error.
LEMMA LowPlus ==
    ASSUME statement \in Statements, NEW S \in SUBSET Field, IsFiniteSet(S),
           NEW y \in Field, NEW t \in Field
    PROVE  Low(S, Claims, y, t)
               = Plus(Low(S, TrueEvals, y, t), Low(S, statement.error, y, t))
<1>1. PICK coms, n : coms = Sharing(S) /\ n = Len(coms)
  OBVIOUS
<1>2. PICK a, b, c : /\ a = Lows(S, TrueEvals, t) /\ b = Lows(S, statement.error, t)
                     /\ c = Lows(S, Claims, t)
  OBVIOUS
<1>3. /\ TrueEvals \in Vector(Len(Queries)) /\ statement.error \in Vector(Len(Queries))
      /\ Claims \in Vector(Len(Queries))
  BY TrueEvalsAre, QueriesAre
<1>4. n \in Nat /\ a \in Vector(n) /\ b \in Vector(n) /\ c \in Vector(n)
  BY <1>1, <1>2, <1>3, GroupIs
<1>5. ASSUME NEW j \in 1..n PROVE c[j] = Plus(a[j], b[j])
  <2>1. Rotations(coms[j]) = S
    BY <1>1, SharingAre
  <2>2. Evaluated(TrueEvals, coms[j], S) /\ Evaluated(statement.error, coms[j], S)
    BY <1>3, <2>1, EvalOfIs
  <2>3. \A p \in S : EvalOf(Claims, coms[j], p) = Plus(EvalOf(TrueEvals, coms[j], p),
                                                      EvalOf(statement.error, coms[j], p))
    BY <2>1, EvalOfIs
  <2>4. Through(S, Claims, coms[j], t) = Plus(Through(S, TrueEvals, coms[j], t),
                                              Through(S, statement.error, coms[j], t))
    BY <2>2, <2>3, ThroughPlus
  <2>5. /\ a[j] = Through(S, TrueEvals, coms[j], t) /\ b[j] = Through(S, statement.error, coms[j], t)
        /\ c[j] = Through(S, Claims, coms[j], t)
    BY <1>1, <1>2 DEF Lows
  <2> QED  BY ONLY <2>4, <2>5
<1>6. Powers(y, c) = Plus(Powers(y, a), Powers(y, b))
  BY <1>4, <1>5, PowersPlus
<1> QED  BY <1>2, <1>6 DEF Low

\* The errors of a group, carried to t, with the weight the linearisation has given it.
Misses(t) == [i \in 1..Len(RotationPoints) |->
                 Times(Vanishing(Diffs(RotationPoints[i]), t),
                       Low(RotationPoints[i], statement.error, ch.y, t))]

\* The contributions that the claims give are the true ones less the errors.
LEMMA GapsLess ==
    ASSUME statement \in Statements, ch.y \in Field, ch.v \in Field,
           NEW s \in Field, NEW t \in Field
    PROVE  /\ Misses(t) \in Vector(Len(RotationPoints))
           /\ Powers(ch.v, Gaps(Claims, s, t))
                  = Less(Powers(ch.v, Gaps(TrueEvals, s, t)), Powers(ch.v, Misses(t)))
<1>1. PICK points, n : points = RotationPoints /\ n = Len(points)
  OBVIOUS
<1>2. /\ n \in Nat /\ TrueEvals \in Vector(Len(Queries)) /\ statement.error \in Vector(Len(Queries))
      /\ Claims \in Vector(Len(Queries))
  BY <1>1, RotationPointsAre, TrueEvalsAre, QueriesAre
<1>3. PICK a, e, c : a = Gaps(TrueEvals, s, t) /\ e = Misses(t) /\ c = Gaps(Claims, s, t)
  OBVIOUS
<1>4. a \in Vector(n) /\ c \in Vector(n)
  BY <1>1, <1>2, <1>3, GapsAre
<1>5. ASSUME NEW i \in 1..n PROVE e[i] \in Field /\ c[i] = Less(a[i], e[i])
  <2>1. PICK z, x, p, q, r : /\ z = Vanishing(Diffs(points[i]), t) /\ x = Held(points[i], ch.y, s)
                             /\ p = Low(points[i], TrueEvals, ch.y, t)
                             /\ q = Low(points[i], statement.error, ch.y, t)
                             /\ r = Low(points[i], Claims, ch.y, t)
    OBVIOUS
  <2>2. z \in Field /\ x \in Field /\ p \in Field /\ q \in Field
    BY <1>1, <1>2, <2>1, GapsAre
  <2>3. r = Plus(p, q)
    <3>1. points[i] \in SUBSET Field /\ IsFiniteSet(points[i])
      BY <1>1, RotationPointsAre
    <3> QED  BY <2>1, <3>1, LowPlus
  <2>4. a[i] = Times(z, Less(x, p)) /\ e[i] = Times(z, q) /\ c[i] = Times(z, Less(x, r))
    BY <1>1, <1>3, <2>1 DEF Gaps, Gap, Misses
  <2>5. Less(x, Plus(p, q)) = Less(Less(x, p), q)
    <3>1. Less(x, p) \in Field /\ Plus(p, Less(x, p)) = x
      BY <2>2, LessIs
    <3>2. Less(Less(x, p), q) \in Field /\ Plus(q, Less(Less(x, p), q)) = Less(x, p)
      BY <2>2, <3>1, LessIs
    <3>3. PICK d : d = Less(Less(x, p), q)
      OBVIOUS
    <3>4. Plus(Plus(p, q), d) = Plus(p, Plus(q, d))
      BY <2>2, <3>2, <3>3, Laws
    <3>5. Plus(Plus(p, q), d) = x
      BY ONLY <3>1, <3>2, <3>3, <3>4
    <3>6. Plus(p, q) \in Field /\ d \in Field
      BY <2>2, <3>2, <3>3, Closed
    <3> QED  BY <2>2, <3>3, <3>5, <3>6, LessIs
  <2>6. Times(z, Less(Less(x, p), q)) = Less(Times(z, Less(x, p)), Times(z, q))
    <3>1. Less(x, p) \in Field
      BY <2>2, LessIs
    <3> QED  BY <2>2, <3>1, TimesLess
  <2>7. Times(z, q) \in Field
    BY <2>2, Closed
  <2> QED  BY ONLY <2>3, <2>4, <2>5, <2>6, <2>7
<1>6. e \in Vector(n)
  BY <1>1, <1>3, <1>5 DEF Misses, Vector
<1>7. Powers(ch.v, c) = Less(Powers(ch.v, a), Powers(ch.v, e))
  BY <1>2, <1>4, <1>5, <1>6, PowersLess
<1> QED  BY <1>1, <1>3, <1>6, <1>7

\* The pairing's arithmetic, with what the prover's second point stands for.
LEMMA ShplonkStep ==
    ASSUME NEW s \in Field, NEW u \in Field, NEW p \in Field,
           NEW a \in Field, NEW b \in Field, NEW e \in Field,
           Times(Less(s, u), p) = Less(a, b)
    PROVE  Less(Times(s, p), Plus(Less(Less(a, e), b), Times(u, p))) = e
<1>1. PICK x, y, d, g : x = Times(s, p) /\ y = Times(u, p) /\ d = Less(Less(a, e), b) /\ g = Less(a, b)
  OBVIOUS
<1>2. x \in Field /\ y \in Field /\ d \in Field /\ g \in Field /\ Less(a, e) \in Field
  BY <1>1, Closed
<1>3. g = Less(x, y)
  <2>1. Less(s, u) \in Field
    BY Closed
  <2>2. Times(Less(s, u), p) = Times(p, Less(s, u)) /\ Times(p, s) = Times(s, p) /\ Times(p, u) = Times(u, p)
    BY <2>1, Laws
  <2>3. Times(p, Less(s, u)) = Less(Times(p, s), Times(p, u))
    BY TimesLess
  <2> QED  BY ONLY <1>1, <2>2, <2>3, Times(Less(s, u), p) = Less(a, b)
<1>4. x = Plus(y, g)
  BY <1>2, <1>3, LessIs
<1>5. Plus(d, e) = g
  <2>1. Plus(Less(Less(a, e), b), Less(e, Zero)) = Less(Plus(Less(a, e), e), Plus(b, Zero))
    BY <1>2, ExchangeLess, Closed
  <2>2. Less(e, Zero) = e /\ Plus(b, Zero) = b
    BY LessZero, Laws
  <2>3. Plus(Less(a, e), e) = Plus(e, Less(a, e)) /\ Plus(e, Less(a, e)) = a
    BY <1>2, Laws, LessIs
  <2> QED  BY ONLY <1>1, <2>1, <2>2, <2>3
<1>6. Plus(Plus(d, y), e) = x
  <2>1. Plus(d, y) = Plus(y, d) /\ Plus(Plus(y, d), e) = Plus(y, Plus(d, e))
    BY <1>2, Laws
  <2> QED  BY ONLY <1>4, <1>5, <2>1
<1>7. Plus(d, y) \in Field
  BY <1>2, Closed
<1>8. Less(x, Plus(d, y)) = e
  BY <1>2, <1>6, <1>7, LessIs
<1> QED  BY ONLY <1>1, <1>8

\* What the prover's second point is, by the secret: the linearisation, scaled.
ProvedShplonk ==
    LET z1 == Vanishing(Diffs(RotationPoints[1]), ch.u)
    IN  /\ proof \in Vector(2) /\ z1 # Zero
        /\ Times(Less(Secret, ch.u), proof[2])
               = Times(Invert(z1), Less(Powers(ch.v, Gaps(TrueEvals, Secret, ch.u)),
                                        Times(Vanishing(SuperPoints, ch.u), proof[1])))

\* A group's commitments folded by the verifier, and its evaluations carried to u:
CommitmentsHeld(set, y) ==
    Powers(y, [j \in DOMAIN set.commitments |-> Commit(Coeffs[set.commitments[j].com])])
EvalsAt(set, y, u) ==
    Powers(y, [j \in DOMAIN set.commitments |->
                   Powers(u, Interpolate(set.points, set.commitments[j].evals))])

\* the values of the group.
LEMMA VerifierGroup ==
    ASSUME statement \in Statements, NEW S \in SUBSET Field, IsFiniteSet(S),
           NEW m \in Nat, NEW set, IsRotationSet(set, S, Claims, m), NEW y \in Field, NEW u \in Field
    PROVE  CommitmentsHeld(set, y) = Held(S, y, Secret) /\ EvalsAt(set, y, u) = Low(S, Claims, y, u)
<1>1. PICK coms, n, order : coms = Sharing(S) /\ n = Len(coms) /\ order = set.points
  OBVIOUS
<1>2. /\ DOMAIN set.commitments = 1..n /\ IsList(order, m, S)
      /\ \A j \in 1..n : /\ set.commitments[j].com = coms[j]
                         /\ set.commitments[j].evals = Reads(Claims, coms[j], order, m)
  BY <1>1 DEF IsRotationSet
<1>3. ASSUME NEW j \in 1..n
      PROVE  Powers(u, Interpolate(order, set.commitments[j].evals)) = Through(S, Claims, coms[j], u)
  <2>1. Evaluated(Claims, coms[j], S)
    BY <1>1, SharingAre, TrueEvalsAre, EvalOfIs
  <2>2. Powers(u, Interpolate(order, Reads(Claims, coms[j], order, m))) = Through(S, Claims, coms[j], u)
    BY <1>2, <2>1, ThroughIs
  <2> QED  BY <1>2, <2>2
<1>4. [j \in DOMAIN set.commitments |-> Commit(Coeffs[set.commitments[j].com])] = Values(S, Secret)
  BY <1>1, <1>2 DEF Values, Commit
<1>5. [j \in DOMAIN set.commitments |-> Powers(u, Interpolate(set.points, set.commitments[j].evals))]
          = Lows(S, Claims, u)
  BY <1>1, <1>2, <1>3 DEF Lows
<1> QED  BY ONLY <1>4, <1>5 DEF Held, Low, CommitmentsHeld, EvalsAt

\* What SHPLONK's verifier adds differs by the weighted errors.
LEMMA ShplonkIs ==
    ASSUME statement \in Statements, ch \in [y : Field, v : Field, u : Field],
           ProvedShplonk, scheme = "shplonk", NEW own, Grouped(own, Claims)
    PROVE  /\ Shplonk(own).left \in Field /\ Shplonk(own).right \in Field /\ Errors \in Field
           /\ Less(Times(Secret, Shplonk(own).left), Shplonk(own).right) = Errors
<1>1. PICK points, n : points = RotationPoints /\ n = Len(points)
  OBVIOUS
<1>2. /\ n \in Nat /\ 1 \in 1..n /\ DOMAIN own = 1..n /\ DOMAIN points = 1..n
      /\ \A i \in 1..n : IsRotationSet(own[i], points[i], Claims, Cardinality(points[i]))
      /\ Claims \in Vector(Len(Queries)) /\ TrueEvals \in Vector(Len(Queries))
      /\ ch.y \in Field /\ ch.v \in Field /\ ch.u \in Field /\ Secret \in Field
  BY <1>1, RotationPointsAre, QueriesAre, TrueEvalsAre, StatementAssumption DEF Grouped
<1>3. \A i \in 1..n : /\ points[i] \in SUBSET SuperPoints
                      /\ points[i] \in SUBSET Field /\ IsFiniteSet(points[i])
                      /\ Cardinality(points[i]) \in Nat
  BY <1>1, RotationPointsAre
<1>4. PICK z1, inv, g, e, c, zh, z0 :
          /\ z1 = Vanishing(Diffs(points[1]), ch.u) /\ inv = Invert(z1)
          /\ g = Powers(ch.v, Gaps(TrueEvals, Secret, ch.u)) /\ e = Powers(ch.v, Misses(ch.u))
          /\ c = Powers(ch.v, Gaps(Claims, Secret, ch.u))
          /\ zh = Vanishing(SuperPoints, ch.u) /\ z0 = Vanishing(points[1], ch.u)
  OBVIOUS
<1>5. PICK p1, p2 : p1 = proof[1] /\ p2 = proof[2]
  OBVIOUS
<1>6. /\ p1 \in Field /\ p2 \in Field /\ z1 # Zero
      /\ Times(Less(Secret, ch.u), p2) = Times(inv, Less(g, Times(zh, p1)))
  BY <1>1, <1>4, <1>5, VectorIs DEF ProvedShplonk
<1>7. /\ z1 \in Field /\ z0 \in Field /\ zh \in Field /\ zh = Times(z1, z0)
  <2>1. SuperPoints \ points[1] \in SUBSET Field /\ IsFiniteSet(SuperPoints \ points[1])
    BY SuperPointsAre, FS_Difference
  <2>2. z1 \in Field /\ z0 \in Field /\ zh \in Field
    BY <1>2, <1>3, <1>4, <2>1, SuperPointsAre, VanishingType DEF Diffs
  <2>3. zh = Times(z1, z0)
    BY <1>2, <1>3, <1>4, SuperPointsAre, VanishingParts DEF Diffs
  <2> QED  BY <2>2, <2>3
<1>8. /\ inv \in Field /\ \A x \in Field : Times(inv, Times(z1, x)) = x
      /\ Times(z1, inv) = One
  BY <1>4, <1>6, <1>7, TimesInvert
<1>9. g \in Field /\ e \in Field /\ c = Less(g, e)
  <2>1. Gaps(TrueEvals, Secret, ch.u) \in Vector(n) /\ Misses(ch.u) \in Vector(n)
    BY <1>1, <1>2, GapsAre, GapsLess
  <2> QED  BY <1>2, <1>4, <2>1, PowersIs, GapsLess
<1> DEFINE z(i) == Vanishing(Diffs(ToSet(own[i].points)), ch.u)
           norm(i) == IF i = 1 THEN One ELSE Times(z(i), Invert(z(1)))
           coms(i) == own[i].commitments
           held(i) == Powers(ch.y, [j \in DOMAIN coms(i) |-> Commit(Coeffs[coms(i)[j].com])])
           r(i) == Powers(ch.y, [j \in DOMAIN coms(i) |->
                                     Powers(ch.u, Interpolate(own[i].points, coms(i)[j].evals))])
           outer == Powers(ch.v, [i \in DOMAIN own |-> Times(norm(i), Less(held(i), r(i)))])
<1>10. ASSUME NEW i \in 1..n
       PROVE  /\ z(i) = Vanishing(Diffs(points[i]), ch.u)
              /\ held(i) = Held(points[i], ch.y, Secret) /\ r(i) = Low(points[i], Claims, ch.y, ch.u)
  <2>1. IsRotationSet(own[i], points[i], Claims, Cardinality(points[i]))
    BY <1>2
  <2>2. z(i) = Vanishing(Diffs(points[i]), ch.u)
    BY <2>1 DEF IsRotationSet
  <2>3. held(i) = Held(points[i], ch.y, Secret) /\ r(i) = Low(points[i], Claims, ch.y, ch.u)
    <3>1. held(i) = CommitmentsHeld(own[i], ch.y) /\ r(i) = EvalsAt(own[i], ch.y, ch.u)
      BY DEF CommitmentsHeld, EvalsAt
    <3> HIDE DEF held, r
    <3>2. /\ CommitmentsHeld(own[i], ch.y) = Held(points[i], ch.y, Secret)
          /\ EvalsAt(own[i], ch.y, ch.u) = Low(points[i], Claims, ch.y, ch.u)
      BY <1>2, <1>3, <2>1, VerifierGroup
    <3> QED  BY <3>1, <3>2
  <2> QED  BY <2>2, <2>3
<1> HIDE DEF z, held, r
<1>11. z(1) = z1
  BY <1>2, <1>4, <1>10
<1>12. PICK w, a : w = [i \in 1..n |-> Times(norm(i), Less(held(i), r(i)))] /\ a = Gaps(Claims, Secret, ch.u)
  OBVIOUS
<1>13. a \in Vector(n)
  BY <1>1, <1>2, <1>12, GapsAre
<1>14. ASSUME NEW i \in 1..n PROVE w[i] = Times(inv, a[i])
  <2>1. PICK k, d : k = z(i) /\ d = Less(held(i), r(i))
    OBVIOUS
  <2>2. k \in Field /\ d \in Field /\ a[i] = Times(k, d)
    <3>1. k = Vanishing(Diffs(points[i]), ch.u) /\ d = Less(Held(points[i], ch.y, Secret), Low(points[i], Claims, ch.y, ch.u))
      BY <1>10, <2>1
    <3>2. a[i] = Times(k, d)
      BY <1>1, <1>12, <3>1 DEF Gaps, Gap
    <3> QED  BY <1>1, <1>2, <3>1, <3>2, GapsAre
  <2>3. Times(inv, Times(k, d)) = Times(Times(inv, k), d)
    BY <1>8, <2>2, Laws
  <2>4. norm(i) = Times(inv, k)
    <3>1. Times(inv, k) = Times(k, inv)
      BY <1>8, <2>2, Laws
    <3>2. CASE i = 1
      BY <1>8, <1>11, <2>1, <3>1, <3>2
    <3>3. CASE i # 1
      BY <1>4, <1>11, <2>1, <3>1, <3>3
    <3> QED  BY <3>2, <3>3
  <2>5. w[i] = Times(norm(i), d)
    BY <1>12, <2>1
  <2> QED  BY ONLY <2>2, <2>3, <2>4, <2>5
<1>15. w \in Vector(n)
  <2>1. \A i \in 1..n : a[i] \in Field
    BY <1>2, <1>13, VectorIs
  <2>2. \A i \in 1..n : Times(inv, a[i]) \in Field
    BY <1>8, <2>1, Closed
  <2> QED  BY <1>12, <1>14, <2>2 DEF Vector
<1>16. outer = Times(inv, c)
  <2>1. [i \in DOMAIN own |-> Times(norm(i), Less(held(i), r(i)))] = w
    BY <1>2, <1>12
  <2>2. Powers(ch.v, w) = Times(inv, Powers(ch.v, a))
    BY <1>2, <1>8, <1>13, <1>14, <1>15, PowersScaled
  <2> QED  BY <1>4, <1>12, <2>1, <2>2
<1> HIDE DEF outer, norm
<1>17. /\ Times(inv, c) = Less(Times(inv, g), Times(inv, e))
       /\ Times(inv, Less(g, Times(zh, p1))) = Less(Times(inv, g), Times(z0, p1))
  <2>1. Times(zh, p1) = Times(z1, Times(z0, p1)) /\ Times(z0, p1) \in Field
    BY <1>6, <1>7, Laws, Closed
  <2>2. Times(inv, Times(zh, p1)) = Times(z0, p1)
    BY <1>8, <2>1
  <2>3. Times(zh, p1) \in Field
    BY <1>6, <1>7, Closed
  <2> QED  BY <1>8, <1>9, <2>2, <2>3, TimesLess
<1>18. PICK ig, ie, b, u : ig = Times(inv, g) /\ ie = Times(inv, e) /\ b = Times(z0, p1) /\ u = ch.u
  OBVIOUS
<1>19. ig \in Field /\ ie \in Field /\ b \in Field /\ u \in Field
  BY <1>2, <1>6, <1>7, <1>8, <1>9, <1>18, Closed
<1>20. Times(Less(Secret, u), p2) = Less(ig, b)
  BY ONLY <1>6, <1>17, <1>18
<1>21. outer = Less(ig, ie)
  BY ONLY <1>16, <1>17, <1>18
<1>22. Shplonk(own) = [left  |-> p2, right |-> Plus(Less(Less(ig, ie), b), Times(u, p2))]
  <2>1. ToSet(own[1].points) = points[1]
    BY <1>2 DEF IsRotationSet
  <2>2. Shplonk(own) = [left  |-> proof[2],
                        right |-> Plus(Less(outer, Times(Vanishing(ToSet(own[1].points), ch.u), proof[1])),
                                       Times(ch.u, proof[2]))]
    BY DEF Shplonk, outer, norm, held, r, z
  <2> QED  BY ONLY <1>4, <1>5, <1>18, <1>21, <2>1, <2>2
<1>23. Errors = ie
  <2>1. \A S : Powers(ch.y, [j \in DOMAIN Sharing(S) |-> Through(S, statement.error, Sharing(S)[j], ch.u)])
                   = Low(S, statement.error, ch.y, ch.u)
    <3>1. \A S : DOMAIN Sharing(S) = 1..Len(Sharing(S))
      BY SharingAre
    <3> QED  BY <3>1 DEF Low, Lows
  <2>2. Misses(ch.u) = [i \in DOMAIN points |-> Times(Vanishing(Diffs(points[i]), ch.u),
                                                     Low(points[i], statement.error, ch.y, ch.u))]
    BY <1>1, <1>2 DEF Misses
  <2>3. Errors = Times(inv, e)
    BY <1>1, <1>4, <2>1, <2>2 DEF Errors
  <2> QED  BY <1>18, <2>3
<1>24. Less(Times(Secret, p2), Plus(Less(Less(ig, ie), b), Times(u, p2))) = ie
  <2>1. Secret \in Field /\ p2 \in Field
    BY <1>2, <1>6
  <2> QED  BY ONLY <1>19, <1>20, <2>1, ShplonkStep
<1>25. Plus(Less(Less(ig, ie), b), Times(u, p2)) \in Field
  <2>1. Less(Less(ig, ie), b) \in Field /\ Times(u, p2) \in Field
    BY <1>6, <1>19, Closed
  <2> QED  BY <2>1, Closed
<1> QED  BY <1>6, <1>19, <1>22, <1>23, <1>24, <1>25

(* ----------------------------------- GWC ----------------------------------- *)

\* Differences with a common part.
LEMMA LessLess ==
    ASSUME NEW a \in Field, NEW b \in Field, NEW c \in Field
    PROVE  Less(Less(a, c), Less(b, c)) = Less(a, b)
<1>1. PICK d : d = Less(a, b)
  OBVIOUS
<1>2. d \in Field /\ Plus(b, d) = a
  BY <1>1, LessIs
<1>3. Plus(Less(b, c), Less(d, Zero)) = Less(Plus(b, d), Plus(c, Zero))
  BY <1>2, ExchangeLess, Closed
<1>4. Less(d, Zero) = d /\ Plus(c, Zero) = c
  BY <1>2, LessZero, Laws
<1>5. Plus(Less(b, c), d) = Less(a, c)
  BY ONLY <1>2, <1>3, <1>4
<1>6. Less(a, c) \in Field /\ Less(b, c) \in Field
  BY Closed
<1> QED  BY <1>1, <1>2, <1>5, <1>6, LessIs

\* The points in the order they are first asked for.
LEMMA PointsInOrderAre ==
    ASSUME statement \in Statements
    PROVE  /\ Len(PointsInOrder) \in Nat /\ DOMAIN PointsInOrder = 1..Len(PointsInOrder)
           /\ Len(PointsInOrder) = Cardinality(SuperPoints)
           /\ \A k \in 1..Len(PointsInOrder) : PointsInOrder[k] \in SuperPoints
<1>1. PICK n, s : n = Len(Queries) /\ s = [q \in 1..n |-> Point(Queries[q].at)]
  OBVIOUS
<1>2. n \in Nat /\ DOMAIN Queries = 1..n
  BY <1>1, QueriesAre
<1>3. s \in [1..n -> SuperPoints] /\ {s[i] : i \in 1..n} = SuperPoints
  BY <1>1, SuperPointsAre
<1>4. PICK u : u = Uniques(s)
  OBVIOUS
<1>5. PointsInOrder = u
  BY <1>1, <1>2, <1>4 DEF PointsInOrder
<1>6. Enumerates(u, SuperPoints)
  BY <1>2, <1>3, <1>4, UniquesAre
<1>7. u \in Seq(SuperPoints) /\ Range(u) = SuperPoints /\ Distinct(u)
  BY <1>6 DEF Enumerates
<1>8. PICK m \in Nat : m = Len(u) /\ DOMAIN u = 1..m /\ u \in [1..m -> SuperPoints]
  BY <1>7
<1>9. IsList(u, m, SuperPoints)
  <2>1. u \in Vector(m)
    BY <1>8, SuperPointsAre DEF Vector
  <2> QED  BY <1>7, <2>1 DEF IsList
<1>10. Cardinality(SuperPoints) = m
  BY <1>9, ListedSize
<1> QED  BY <1>5, <1>8, <1>10

\* The queries at a point.
LEMMA AtIs ==
    ASSUME statement \in Statements, NEW p
    PROVE  /\ At(p) \in Seq(1..Len(Queries))
           /\ Len(At(p)) \in Nat /\ DOMAIN At(p) = 1..Len(At(p))
           /\ \A j \in 1..Len(At(p)) : /\ At(p)[j] \in 1..Len(Queries)
                                       /\ Point(Queries[At(p)[j]].at) = p
<1>1. PICK n : n = Len(Queries)
  OBVIOUS
<1>2. n \in Nat /\ DOMAIN Queries = 1..n
  BY <1>1, QueriesAre
<1>3. PICK P : P = {q \in 1..n : Point(Queries[q].at) = p}
  OBVIOUS
<1>4. {i \in 1..n : i \in P} = P
  BY <1>3
<1>5. PICK s : s = At(p)
  OBVIOUS
<1>6. s = Places(P, n)
  BY <1>1, <1>2, <1>3, <1>5 DEF At
<1>7. Enumerates(s, P)
  BY <1>2, <1>4, <1>6, PlacesList
<1>8. s \in Seq(P)
  BY <1>7 DEF Enumerates
<1>9. \A j \in 1..Len(s) : s[j] \in P
  BY <1>8
<1>10. s \in Seq(1..n)
  BY <1>3, <1>7, ListsWithin
<1> QED  BY <1>1, <1>3, <1>5, <1>9, <1>10

\* The values of some queries, and their fold, are elements of the field.
Picked(values, qs) == [j \in 1..Len(qs) |-> values[qs[j]]]

LEMMA FoldedType ==
    ASSUME NEW n \in Nat, NEW values \in Vector(n), NEW qs \in Seq(1..n), NEW v \in Field
    PROVE  /\ Picked(values, qs) \in Vector(Len(qs)) /\ Len(qs) \in Nat
           /\ Folded(v, values, qs) = Powers(v, Picked(values, qs))
           /\ Folded(v, values, qs) \in Field
<1>1. PICK m \in Nat : m = Len(qs) /\ DOMAIN qs = 1..m /\ \A j \in 1..m : qs[j] \in 1..n
  OBVIOUS
<1>2. \A j \in 1..m : values[qs[j]] \in Field
  BY <1>1, VectorIs
<1>3. Picked(values, qs) \in Vector(m)
  BY <1>1, <1>2 DEF Picked, Vector
<1>4. Folded(v, values, qs) = Powers(v, Picked(values, qs))
  BY <1>1 DEF Folded, Picked
<1>5. Powers(v, Picked(values, qs)) \in Field
  BY <1>3, PowersIs
<1> QED  BY <1>1, <1>3, <1>4, <1>5

\* What the commitments queried hold.
AllHeld == [q \in DOMAIN Queries |-> Commit(Coeffs[Queries[q].com])]

LEMMA AllHeldIs ==
    ASSUME statement \in Statements
    PROVE  /\ AllHeld \in Vector(Len(Queries))
           /\ \A q \in 1..Len(Queries) : AllHeld[q] = Powers(Secret, Coeffs[Queries[q].com])
<1>1. PICK n : n = Len(Queries)
  OBVIOUS
<1>2. /\ DOMAIN Queries = 1..n /\ N \in Nat /\ Secret \in Field
      /\ \A q \in 1..n : Coeffs[Queries[q].com] \in Vector(N)
  BY <1>1, QueriesAre, StatementAssumption
<1>3. \A q \in 1..n : Powers(Secret, Coeffs[Queries[q].com]) \in Field
  BY <1>2, PowersIs
<1> QED  BY <1>1, <1>2, <1>3 DEF AllHeld, Commit, Vector

\* A witness opens, at its point, what the queries there are folded to: the weights of the
\* evaluation taken off do not matter, the division drops what is left of it.
LEMMA WitnessIs ==
    ASSUME statement \in Statements, NEW v \in Field, NEW p \in SuperPoints
    PROVE  /\ Commit(Witness(v, p)) \in Field
           /\ Times(Less(Secret, p), Commit(Witness(v, p)))
                  = Less(Folded(v, AllHeld, At(p)), Folded(v, TrueEvals, At(p)))
<1>1. PICK n, qs, m : n = Len(Queries) /\ qs = At(p) /\ m = Len(qs)
  OBVIOUS
<1>2. /\ n \in Nat /\ N \in Nat /\ N >= 1 /\ Secret \in Field /\ p \in Field
      /\ \A q \in 1..n : Coeffs[Queries[q].com] \in Vector(N)
      /\ TrueEvals \in Vector(n) /\ AllHeld \in Vector(n)
  BY <1>1, QueriesAre, SuperPointsAre, TrueEvalsAre, AllHeldIs, StatementAssumption
<1>3. /\ qs \in Seq(1..n) /\ m \in Nat /\ DOMAIN qs = 1..m
      /\ \A j \in 1..m : qs[j] \in 1..n /\ Point(Queries[qs[j]].at) = p
  BY <1>1, AtIs
<1>4. PICK polys : polys = [k \in 1..m |-> Coeffs[Queries[qs[k]].com]]
  OBVIOUS
<1>5. polys \in Polynomials(m, N)
  BY <1>2, <1>3, <1>4 DEF Polynomials
<1>6. PICK f, e : f = FoldPolys(v, polys) /\ e = Folded(v, TrueEvals, Reverse(qs))
  OBVIOUS
<1>7. f \in Vector(N)
  BY <1>3, <1>5, <1>6, FoldPolysIs
<1>8. e \in Field
  <2>1. Reverse(qs) \in Seq(1..n)
    <3>1. PICK r : r = [i \in 1..m |-> qs[(m - i) + 1]]
      OBVIOUS
    <3>2. \A i \in 1..m : (m - i) + 1 \in 1..m
      BY <1>3
    <3>3. r \in [1..m -> 1..n]
      BY <1>3, <3>1, <3>2
    <3>4. Reverse(qs) = r
      BY <1>1, <3>1 DEF Reverse
    <3> QED  BY <1>3, <3>3, <3>4, IsSequence
  <2> QED  BY <1>2, <1>6, <2>1, FoldedType
<1>9. Powers(Secret, f) = Folded(v, AllHeld, qs)
  <2>1. PICK values : values = Picked(AllHeld, qs)
    OBVIOUS
  <2>2. values \in Vector(m) /\ Folded(v, AllHeld, qs) = Powers(v, values)
    BY <1>1, <1>2, <1>3, <2>1, FoldedType
  <2>3. AreValues(values, polys, Secret, m)
    BY <1>1, <1>3, <1>4, <2>1, AllHeldIs DEF AreValues, Picked
  <2> QED  BY <1>2, <1>3, <1>5, <1>6, <2>2, <2>3, FoldPolysIs
<1>10. Powers(p, f) = Folded(v, TrueEvals, qs)
  <2>1. PICK values : values = Picked(TrueEvals, qs)
    OBVIOUS
  <2>2. values \in Vector(m) /\ Folded(v, TrueEvals, qs) = Powers(v, values)
    BY <1>1, <1>2, <1>3, <2>1, FoldedType
  <2>3. AreValues(values, polys, p, m)
    <3>1. ASSUME NEW j \in 1..m PROVE values[j] = Powers(p, polys[j])
      <4>1. values[j] = TrueEvals[qs[j]] /\ polys[j] = Coeffs[Queries[qs[j]].com]
        BY <1>1, <1>4, <2>1 DEF Picked
      <4>2. qs[j] \in 1..n /\ Point(Queries[qs[j]].at) = p
        BY <1>3
      <4>3. TrueEvals[qs[j]] = Powers(Point(Queries[qs[j]].at), Coeffs[Queries[qs[j]].com])
        BY <1>1, <4>2, TrueEvalsAre
      <4> QED  BY ONLY <4>1, <4>2, <4>3
    <3> QED  BY <3>1 DEF AreValues
  <2> QED  BY <1>2, <1>3, <1>5, <1>6, <2>2, <2>3, FoldPolysIs
<1>11. PICK w : w = [k \in 1..N |-> IF k = 1 THEN Less(f[1], e) ELSE f[k]]
  OBVIOUS
<1>12. w \in Vector(N) /\ \A t \in Field : Powers(t, w) = Less(Powers(t, f), e)
  <2>1. \A k \in 1..N : f[k] \in Field
    BY <1>2, <1>7, VectorIs
  <2>2. 1 \in 1..N
    BY <1>2
  <2>3. Less(f[1], e) \in Field
    BY <1>8, <2>1, <2>2, Closed
  <2>4. w \in Vector(N)
    BY <1>11, <2>1, <2>3 DEF Vector
  <2>5. w[1] = Less(f[1], e) /\ \A k \in 2..N : w[k] = f[k]
    BY <1>11, <2>2
  <2> QED  BY <1>2, <1>7, <1>8, <2>4, <2>5, PowersFirst
<1>13. PICK q, c : q = Kate(w, p) /\ c = Powers(Secret, q)
  OBVIOUS
<1>14. /\ q \in Vector(N - 1)
       /\ Powers(Secret, w) = Plus(Times(c, Less(Secret, p)), Powers(p, w))
  BY <1>2, <1>12, <1>13, KateIs
<1>15. c \in Field /\ Less(Secret, p) \in Field
  <2>1. N - 1 \in Nat
    BY <1>2
  <2> QED  BY <1>2, <1>13, <1>14, <2>1, PowersIs, Closed
<1>16. PICK a, b : a = Powers(Secret, f) /\ b = Powers(p, f)
  OBVIOUS
<1>17. a \in Field /\ b \in Field
  BY <1>2, <1>7, <1>16, PowersIs
<1>18. Less(a, e) = Plus(Times(c, Less(Secret, p)), Less(b, e))
  BY <1>2, <1>12, <1>14, <1>16
<1>19. Times(c, Less(Secret, p)) = Less(a, b)
  <2>1. PICK x, y, z : x = Less(a, e) /\ y = Less(b, e) /\ z = Times(c, Less(Secret, p))
    OBVIOUS
  <2>2. x \in Field /\ y \in Field /\ z \in Field
    BY <1>8, <1>15, <1>17, <2>1, Closed
  <2>3. Plus(y, z) = x
    BY <1>18, <2>1, <2>2, Laws
  <2>4. Less(x, y) = z
    BY <2>2, <2>3, LessIs
  <2>5. Less(Less(a, e), Less(b, e)) = Less(a, b)
    BY <1>8, <1>17, LessLess
  <2> QED  BY ONLY <2>1, <2>4, <2>5
<1>20. Witness(v, p) = q
  <2>1. [k \in DOMAIN qs |-> Coeffs[Queries[qs[k]].com]] = polys
    BY <1>3, <1>4
  <2> QED  BY <1>1, <1>6, <1>11, <1>13, <2>1 DEF Witness
<1>21. Times(Less(Secret, p), c) = Times(c, Less(Secret, p))
  BY <1>15, Laws
<1> QED  BY ONLY <1>1, <1>9, <1>10, <1>13, <1>15, <1>16, <1>19, <1>20, <1>21 DEF Commit

\* What each of the prover's points is, by the secret.
ProvedGwc ==
    /\ proof \in Vector(Len(PointsInOrder))
    /\ \A k \in 1..Len(PointsInOrder) :
          Times(Less(Secret, PointsInOrder[k]), proof[k])
              = Less(Folded(ch.v, AllHeld, At(PointsInOrder[k])),
                     Folded(ch.v, TrueEvals, At(PointsInOrder[k])))

\* The folds of some values of the queries at each of the points.
Folds(values) == [k \in 1..Len(PointsInOrder) |-> Folded(ch.v, values, At(PointsInOrder[k]))]

LEMMA FoldsAre ==
    ASSUME statement \in Statements, ch.v \in Field, NEW values \in Vector(Len(Queries))
    PROVE  Folds(values) \in Vector(Len(PointsInOrder))
<1>1. ASSUME NEW k \in 1..Len(PointsInOrder)
      PROVE  Folded(ch.v, values, At(PointsInOrder[k])) \in Field
  <2>1. At(PointsInOrder[k]) \in Seq(1..Len(Queries)) /\ Len(Queries) \in Nat
    BY AtIs, QueriesAre
  <2> QED  BY <2>1, FoldedType
<1> QED  BY <1>1 DEF Folds, Vector

\* Those of the claims are those of the true evaluations and of the errors.
LEMMA FoldsPlus ==
    ASSUME statement \in Statements, ch.v \in Field, NEW k \in 1..Len(PointsInOrder)
    PROVE  Folds(Claims)[k] = Plus(Folds(TrueEvals)[k], Folds(statement.error)[k])
<1>1. PICK n, qs, m : n = Len(Queries) /\ qs = At(PointsInOrder[k]) /\ m = Len(qs)
  OBVIOUS
<1>2. /\ n \in Nat /\ qs \in Seq(1..n) /\ m \in Nat /\ \A j \in 1..m : qs[j] \in 1..n
      /\ TrueEvals \in Vector(n) /\ statement.error \in Vector(n) /\ Claims \in Vector(n)
      /\ \A q \in 1..n : Claims[q] = Plus(TrueEvals[q], statement.error[q])
  BY <1>1, QueriesAre, AtIs, TrueEvalsAre
<1>3. PICK a, b, c : /\ a = Picked(TrueEvals, qs) /\ b = Picked(statement.error, qs)
                     /\ c = Picked(Claims, qs)
  OBVIOUS
<1>4. /\ a \in Vector(m) /\ b \in Vector(m) /\ c \in Vector(m)
      /\ Folded(ch.v, TrueEvals, qs) = Powers(ch.v, a)
      /\ Folded(ch.v, statement.error, qs) = Powers(ch.v, b)
      /\ Folded(ch.v, Claims, qs) = Powers(ch.v, c)
  BY <1>1, <1>2, <1>3, FoldedType
<1>5. \A j \in 1..m : c[j] = Plus(a[j], b[j])
  BY <1>1, <1>2, <1>3 DEF Picked
<1>6. Powers(ch.v, c) = Plus(Powers(ch.v, a), Powers(ch.v, b))
  BY <1>2, <1>4, <1>5, PowersPlus
<1> QED  BY <1>1, <1>4, <1>6 DEF Folds

\* The pairing's arithmetic, with what the prover's points stand for.
LEMMA GwcStep ==
    ASSUME NEW s \in Field, NEW x \in Field, NEW a \in Field, NEW t \in Field, NEW e \in Field,
           Less(s, x) = Less(a, t)
    PROVE  Less(s, Less(Plus(x, a), Plus(t, e))) = e
<1>1. PICK g, d : g = Less(a, t) /\ d = Less(x, e)
  OBVIOUS
<1>2. g \in Field /\ d \in Field /\ Plus(e, d) = x /\ Plus(x, g) = s
  BY <1>1, LessIs
<1>3. Plus(Less(x, e), Less(a, t)) = Less(Plus(x, a), Plus(e, t))
  BY ExchangeLess
<1>4. Plus(e, t) = Plus(t, e) /\ Plus(Plus(d, g), e) = Plus(e, Plus(d, g))
  BY <1>2, Laws, Closed
<1>5. Plus(e, Plus(d, g)) = Plus(Plus(e, d), g) /\ Plus(d, g) \in Field
  BY <1>2, Laws, Closed
<1>6. Plus(Plus(d, g), e) = s
  BY ONLY <1>2, <1>4, <1>5
<1>7. Less(s, Plus(d, g)) = e
  BY <1>5, <1>6, LessIs
<1> QED  BY ONLY <1>1, <1>3, <1>4, <1>7

\* What GWC's verifier adds differs by the weighted errors.
LEMMA GwcIs ==
    ASSUME statement \in Statements, ch \in [y : Field, v : Field, u : Field],
           ProvedGwc, scheme = "gwc"
    PROVE  /\ Gwc.left \in Field /\ Gwc.right \in Field /\ Errors \in Field
           /\ Less(Times(Secret, Gwc.left), Gwc.right) = Errors
<1>1. PICK order, n, u : order = PointsInOrder /\ n = Len(order) /\ u = ch.u
  OBVIOUS
<1>2. /\ n \in Nat /\ DOMAIN order = 1..n /\ u \in Field /\ ch.v \in Field /\ Secret \in Field
      /\ \A k \in 1..n : order[k] \in Field
  BY <1>1, PointsInOrderAre, SuperPointsAre, StatementAssumption
<1>3. PICK hv, tv, ev, cv : /\ hv = Folds(AllHeld) /\ tv = Folds(TrueEvals)
                            /\ ev = Folds(statement.error) /\ cv = Folds(Claims)
  OBVIOUS
<1>4. hv \in Vector(n) /\ tv \in Vector(n) /\ ev \in Vector(n) /\ cv \in Vector(n)
  BY <1>1, <1>2, <1>3, FoldsAre, AllHeldIs, TrueEvalsAre, QueriesAre
<1>5. PICK p, sp, xp, d : /\ p = proof
                          /\ sp = [k \in 1..n |-> Times(Secret, p[k])]
                          /\ xp = [k \in 1..n |-> Times(order[k], p[k])]
                          /\ d = [k \in 1..n |-> Less(hv[k], tv[k])]
  OBVIOUS
<1>6. p \in Vector(n)
  BY <1>1, <1>5 DEF ProvedGwc
<1>7. ASSUME NEW k \in 1..n
      PROVE  /\ sp[k] \in Field /\ xp[k] \in Field /\ d[k] \in Field
             /\ d[k] = Less(sp[k], xp[k]) /\ d[k] = Less(hv[k], tv[k])
  <2>1. PICK a, b, c : a = p[k] /\ b = order[k] /\ c = Secret
    OBVIOUS
  <2>2. a \in Field /\ b \in Field /\ c \in Field
    BY <1>2, <1>6, <2>1, VectorIs
  <2>3. sp[k] = Times(c, a) /\ xp[k] = Times(b, a) /\ d[k] = Less(hv[k], tv[k])
    BY <1>5, <2>1
  <2>4. Times(Less(c, b), a) = Less(hv[k], tv[k])
    BY <1>1, <1>3, <1>5, <2>1 DEF ProvedGwc, Folds
  <2>5. Times(Less(c, b), a) = Less(Times(c, a), Times(b, a))
    <3>1. Less(c, b) \in Field
      BY <2>2, Closed
    <3>2. Times(Less(c, b), a) = Times(a, Less(c, b)) /\ Times(a, c) = Times(c, a) /\ Times(a, b) = Times(b, a)
      BY <2>2, <3>1, Laws
    <3>3. Times(a, Less(c, b)) = Less(Times(a, c), Times(a, b))
      BY <2>2, TimesLess
    <3> QED  BY ONLY <3>2, <3>3
  <2>6. Times(c, a) \in Field /\ Times(b, a) \in Field
    BY <2>2, Closed
  <2>7. Less(Times(c, a), Times(b, a)) \in Field
    BY <2>6, Closed
  <2> QED  BY ONLY <2>3, <2>4, <2>5, <2>6, <2>7
<1>8. sp \in Vector(n) /\ xp \in Vector(n) /\ d \in Vector(n)
  BY <1>5, <1>7 DEF Vector
<1>9. PICK l, s, x, a, t, e, c : /\ l = Powers(u, p) /\ s = Powers(u, sp) /\ x = Powers(u, xp)
                                 /\ a = Powers(u, hv) /\ t = Powers(u, tv) /\ e = Powers(u, ev)
                                 /\ c = Powers(u, cv)
  OBVIOUS
<1>10. /\ l \in Field /\ s \in Field /\ x \in Field /\ a \in Field /\ t \in Field /\ e \in Field
       /\ c \in Field
  BY <1>2, <1>4, <1>6, <1>8, <1>9, PowersIs
<1>11. s = Times(Secret, l)
  <2>1. \A k \in 1..n : sp[k] = Times(Secret, p[k])
    BY <1>5
  <2>2. Powers(u, sp) = Times(Secret, Powers(u, p))
    BY ONLY <1>2, <1>6, <1>8, <2>1, PowersScaled
  <2> QED  BY ONLY <1>9, <2>2
<1>12. Less(s, x) = Less(a, t)
  <2>1. Powers(u, d) = Less(s, x)
    BY ONLY <1>2, <1>7, <1>8, <1>9, PowersLess
  <2>2. Powers(u, d) = Less(a, t)
    <3>1. \A k \in 1..n : d[k] = Less(hv[k], tv[k])
      BY <1>7
    <3>2. n \in Nat /\ u \in Field /\ d \in Vector(n) /\ hv \in Vector(n) /\ tv \in Vector(n)
      BY <1>2, <1>4, <1>8
    <3>3. Powers(u, d) = Less(Powers(u, hv), Powers(u, tv))
      BY ONLY <3>1, <3>2, PowersLess
    <3> QED  BY ONLY <1>9, <3>3
  <2> QED  BY ONLY <2>1, <2>2
<1>13. c = Plus(t, e)
  <2>1. \A k \in 1..n : cv[k] = Plus(tv[k], ev[k])
    BY <1>1, <1>2, <1>3, FoldsPlus
  <2> QED  BY <1>2, <1>4, <1>9, <2>1, PowersPlus
<1>14. Less(s, Less(Plus(x, a), Plus(t, e))) = e
  BY <1>10, <1>12, GwcStep
<1>15. Gwc = [left |-> l, right |-> Less(Plus(x, a), c)]
  <2>1. \A values : [k \in DOMAIN PointsInOrder |-> Folded(ch.v, values, At(PointsInOrder[k]))]
                        = Folds(values)
    BY <1>1, <1>2 DEF Folds
  <2>2. [k \in DOMAIN PointsInOrder |-> Times(PointsInOrder[k], proof[k])] = xp
    BY <1>1, <1>2, <1>5
  <2>3. Gwc = [left  |-> Powers(ch.u, proof),
               right |-> Less(Plus(Powers(ch.u, [k \in DOMAIN PointsInOrder |->
                                                     Times(PointsInOrder[k], proof[k])]),
                                   Powers(ch.u, Folds(AllHeld))),
                              Powers(ch.u, Folds(Claims)))]
    BY <2>1 DEF Gwc, AllHeld
  <2> QED  BY ONLY <1>1, <1>3, <1>5, <1>9, <2>2, <2>3
<1>16. Errors = e
  <2>1. [k \in DOMAIN PointsInOrder |-> Folded(ch.v, statement.error, At(PointsInOrder[k]))]
            = Folds(statement.error)
    BY <1>1, <1>2 DEF Folds
  <2>2. Errors = Powers(ch.u, Folds(statement.error))
    BY <2>1 DEF Errors
  <2> QED  BY ONLY <1>1, <1>3, <1>9, <2>2
<1>17. Less(Plus(x, a), c) \in Field
  <2>1. Plus(x, a) \in Field
    BY <1>10, Closed
  <2> QED  BY <1>10, <2>1, Closed
<1> QED  BY <1>10, <1>11, <1>13, <1>14, <1>15, <1>16, <1>17

\* Scaling what there is and adding a proof's part does the same to the difference.
LEMMA AccumulateStep ==
    ASSUME NEW s \in Field, NEW r \in Field, NEW a \in Field, NEW b \in Field,
           NEW l \in Field, NEW m \in Field,
           NEW o, Less(Times(s, a), b) = o, NEW e, Less(Times(s, l), m) = e
    PROVE  Less(Times(s, Plus(Times(r, a), l)), Plus(Times(r, b), m)) = Plus(Times(r, o), e)
<1>1. PICK x, y, p, q : x = Times(r, a) /\ y = Times(r, b) /\ p = Times(s, x) /\ q = Times(s, l)
  OBVIOUS
<1>2. x \in Field /\ y \in Field /\ p \in Field /\ q \in Field
  BY <1>1, Closed
<1>3. Times(s, Plus(x, l)) = Plus(p, q)
  BY <1>1, <1>2, Laws
<1>4. Plus(Less(p, y), Less(q, m)) = Less(Plus(p, q), Plus(y, m))
  BY <1>2, ExchangeLess
<1>5. Times(r, Less(Times(s, a), b)) = Less(p, y)
  <2>1. Times(s, a) \in Field
    BY Closed
  <2>2. Times(r, Less(Times(s, a), b)) = Less(Times(r, Times(s, a)), y)
    BY <1>1, <2>1, TimesLess
  <2>3. Times(r, Times(s, a)) = Times(s, Times(r, a))
    BY Swap
  <2> QED  BY ONLY <1>1, <2>2, <2>3
<1>6. o = Less(Times(s, a), b) /\ e = Less(Times(s, l), m)
  OBVIOUS
<1> QED  BY ONLY <1>1, <1>3, <1>4, <1>5, <1>6

(* ------------------------------ the invariant ------------------------------ *)

\* What the prover has at each stage, that the pairing check will rest on: the rotation
\* sets; the folded quotient and its commitment; and points that stand for what the
\* verifier adds. A proof is begun only where the batch has room for it.
Prepared ==
    /\ stage \in {"queried", "grouped", "folded", "proved"} =>
           statement \in Statements /\ proofs < MaxProofs
    /\ stage \in {"grouped", "folded"} => scheme = "shplonk" /\ Grouped(sets, TrueEvals)
    /\ stage = "folded" =>
           /\ h = FoldPolys(ch.v, [i \in DOMAIN sets |-> Quotient(sets[i])])
           /\ proof = <<Commit(h)>>
    /\ stage = "proved" => (IF scheme = "gwc" THEN ProvedGwc ELSE ProvedShplonk)

IInv == TypeOK /\ scheme \in {"shplonk", "gwc"} /\ Prepared /\ CheckIsErrors

\* What depends on what is being proved, and on the first two challenges, stays.
LEMMA Stays ==
    ASSUME statement' = statement
    PROVE  /\ RotationPoints' = RotationPoints /\ SuperPoints' = SuperPoints
           /\ PointsInOrder' = PointsInOrder /\ TrueEvals' = TrueEvals /\ AllHeld' = AllHeld
           /\ \A S : Sharing(S)' = Sharing(S) /\ Diffs(S)' = Diffs(S)
           /\ \A p : At(p)' = At(p)
           /\ \A evals, com, p : EvalOf(evals, com, p)' = EvalOf(evals, com, p)
<1>1. Queries' = Queries /\ \A at : Point(at)' = Point(at)
  BY DEF Queries, Point
<1>2. SuperPoints' = SuperPoints /\ TrueEvals' = TrueEvals /\ PointsInOrder' = PointsInOrder
  BY DEF SuperPoints, TrueEvals, PointsInOrder, Queries, Point
<1>3. RotationPoints' = RotationPoints /\ AllHeld' = AllHeld
  BY DEF RotationPoints, AllHeld, Commitments, Rotations, Queries, Point
<1>4. \A S : Sharing(S)' = Sharing(S) /\ Diffs(S)' = Diffs(S)
  BY DEF Sharing, Diffs, SuperPoints, Commitments, Rotations, Queries, Point
<1>5. \A p : At(p)' = At(p)
  BY DEF At, Queries, Point
<1>6. \A evals, com, p : EvalOf(evals, com, p)' = EvalOf(evals, com, p)
  BY DEF EvalOf, FirstQuery, Queries, Point
<1> QED  BY <1>2, <1>3, <1>4, <1>5, <1>6

LEMMA RotationSetStays ==
    ASSUME statement' = statement, NEW set, NEW S, NEW evals, NEW m, IsRotationSet(set, S, evals, m)
    PROVE  IsRotationSet(set, S, evals, m)'
<1>1. \A j : Reads(evals, Sharing(S)[j], set.points, m)' = Reads(evals, Sharing(S)[j], set.points, m)
  BY DEF Reads, EvalOf, FirstQuery, Sharing, Commitments, Rotations, Queries, Point
<1>2. Sharing(S)' = Sharing(S)
  BY Stays
<1> QED  BY <1>1, <1>2 DEF IsRotationSet

LEMMA GroupedStays ==
    ASSUME statement' = statement, NEW own, NEW evals, Grouped(own, evals)
    PROVE  Grouped(own, evals)'
<1>1. RotationPoints' = RotationPoints
  BY Stays
<1>2. ASSUME NEW i \in 1..Len(RotationPoints)
      PROVE  IsRotationSet(own[i], RotationPoints[i], evals, Cardinality(RotationPoints[i]))'
  <2>1. IsRotationSet(own[i], RotationPoints[i], evals, Cardinality(RotationPoints[i]))
    BY DEF Grouped
  <2>2. PICK set, S, m : set = own[i] /\ S = RotationPoints[i] /\ m = Cardinality(S)
    OBVIOUS
  <2>3. IsRotationSet(set, S, evals, m)'
    BY <2>1, <2>2, RotationSetStays
  <2>4. S = RotationPoints[i]'
    BY <1>1, <2>2
  <2> QED  BY <2>2, <2>3, <2>4
<1> QED  BY <1>1, <1>2 DEF Grouped

LEMMA GapsStay ==
    ASSUME statement' = statement, ch'.y = ch.y, NEW evals, NEW s, NEW t
    PROVE  Gaps(evals, s, t)' = Gaps(evals, s, t)
  BY DEF Gaps, Gap, Held, Values, Low, Lows, Through, EvalOf, FirstQuery, RotationPoints, Sharing,
         Commitments, Rotations, Diffs, SuperPoints, Queries, Point

\* The invariant holds at the start,
LEMMA InitIInv ==
    ASSUME Init
    PROVE  IInv
<1>1. /\ Zero \in Field /\ <<>> \in [1..0 -> Field] /\ Len(<<>>) = 0 /\ MaxProofs \in Nat
      /\ Secret \in Field
  BY Closed, StatementAssumption
<1>2. Less(Times(Secret, Zero), Zero) = Zero
  BY <1>1, TimesZero, LessZero
<1>3. TypeOK
  <2>1. /\ ch \in [y : Field, v : Field, u : Field] /\ acc \in [left : Field, right : Field]
        /\ owed \in Field /\ proofs \in 0..MaxProofs /\ verdict \in BOOLEAN /\ stage = "idle"
    <3>1. ch \in [y : Field, v : Field, u : Field]
      BY <1>1 DEF Init, NoChallenges
    <3>2. acc \in [left : Field, right : Field] /\ owed \in Field
      BY <1>1 DEF Init
    <3>3. proofs \in 0..MaxProofs
      BY <1>1 DEF Init
    <3>4. verdict \in BOOLEAN /\ stage = "idle"
      BY DEF Init
    <3> QED  BY <3>1, <3>2, <3>3, <3>4
  <2>2. h \in [1..Len(h) -> Field] /\ Len(h) = 0 /\ proof \in [1..Len(proof) -> Field]
    BY <1>1 DEF Init
  <2> QED  BY <2>1, <2>2 DEF TypeOK
<1>4. Prepared /\ CheckIsErrors
  BY <1>2 DEF Init, Prepared, CheckIsErrors
<1> QED  BY <1>3, <1>4 DEF IInv, Init

\* and the first steps of a proof keep it:
LEMMA BeginKeeps ==
    ASSUME IInv, Begin
    PROVE  IInv'
<1>1. TypeOK'
  BY DEF IInv, TypeOK, Begin, verifier
<1>2. Prepared' /\ CheckIsErrors'
  BY DEF IInv, Prepared, CheckIsErrors, Begin, verifier
<1> QED  BY <1>1, <1>2 DEF IInv, Begin

\* the grouping, whatever the order of the sets;
LEMMA GroupKeeps ==
    ASSUME IInv, Group
    PROVE  IInv'
<1>1. statement \in Statements /\ statement' = statement
  BY DEF IInv, Prepared, Group
<1>2. PICK orders \in Orders : sets' = RotationSets(TrueEvals, orders)
  BY DEF Group
<1>3. PICK own, evals : own = sets' /\ evals = TrueEvals
  OBVIOUS
<1>4. Grouped(own, evals)
  BY <1>1, <1>2, <1>3, RotationSetsAre, TrueEvalsAre
<1>5. Grouped(own, evals)'
  BY <1>1, <1>4, GroupedStays
<1>6. TrueEvals' = evals
  BY <1>1, <1>3, Stays
<1>7. Grouped(sets, TrueEvals)'
  BY <1>3, <1>5, <1>6
<1>8. ch' \in [y : Field, v : Field, u : Field]
  BY Closed, StatementAssumption DEF Group
<1>9. TypeOK'
  BY <1>8 DEF IInv, TypeOK, Group, verifier
<1>10. Prepared' /\ CheckIsErrors'
  BY <1>7 DEF IInv, Prepared, CheckIsErrors, Group, verifier
<1> QED  BY <1>9, <1>10 DEF IInv, Group

\* the folded quotient and its commitment;
LEMMA CommitQuotientKeeps ==
    ASSUME IInv, CommitQuotient
    PROVE  IInv'
<1>1. /\ statement \in Statements /\ statement' = statement /\ ch' = ch /\ sets' = sets
      /\ scheme = "shplonk" /\ Grouped(sets, TrueEvals) /\ ch.y \in Field /\ ch.v \in Field
  BY DEF IInv, TypeOK, Prepared, CommitQuotient
<1>2. PICK q : q = FoldPolys(ch.v, [i \in DOMAIN sets |-> Quotient(sets[i])])
  OBVIOUS
<1>3. q \in Vector(N) /\ N \in Nat /\ Secret \in Field
  BY <1>1, <1>2, FoldedIs, QueriesAre, StatementAssumption
<1>4. h' = q /\ proof' = <<Commit(q)>>
  BY <1>2 DEF CommitQuotient
<1>5. Commit(q) \in Field
  BY <1>3, PowersIs DEF Commit
<1>6. FoldPolys(ch.v, [i \in DOMAIN sets |-> Quotient(sets[i])])' = q
  <2>1. FoldPolys(ch.v, [i \in DOMAIN sets |-> Quotient(sets[i])])'
            = FoldPolys(ch.v, [i \in DOMAIN sets |-> Quotient(sets[i])])
    BY <1>1 DEF Quotient, Combined, LowDegree
  <2> QED  BY <1>2, <2>1
<1>7. Grouped(sets, TrueEvals)'
  <2>1. PICK own, evals : own = sets /\ evals = TrueEvals
    OBVIOUS
  <2>2. Grouped(own, evals)'
    BY <1>1, <2>1, GroupedStays
  <2>3. own = sets' /\ evals = TrueEvals'
    BY <1>1, <2>1, Stays
  <2> QED  BY <2>2, <2>3
<1>8. TypeOK'
  <2>1. h' \in [1..Len(h') -> Field] /\ Len(h') \in {0, N}
    BY <1>3, <1>4, VectorIs DEF Vector
  <2>2. proof' \in [1..Len(proof') -> Field]
    BY <1>4, <1>5
  <2> QED  BY <2>1, <2>2 DEF IInv, TypeOK, CommitQuotient, verifier
<1>9. Prepared'
  BY <1>1, <1>4, <1>6, <1>7 DEF IInv, Prepared, CommitQuotient, verifier
<1>10. CheckIsErrors'
  BY DEF IInv, CheckIsErrors, CommitQuotient, verifier
<1> QED  BY <1>1, <1>8, <1>9, <1>10 DEF IInv, CommitQuotient

\* What is folded is exact.
LEMMA ExactWhenFolded ==
    ASSUME IInv
    PROVE  QuotientIsExact
<1>1. CASE stage = "folded"
  BY <1>1, FoldedExact DEF IInv, TypeOK, Prepared
<1>2. CASE stage # "folded"
  BY <1>2 DEF QuotientIsExact
<1> QED  BY <1>1, <1>2

\* The linearisation is exact as well, so that what it writes stands for it by the secret;
LEMMA LineariseKeeps ==
    ASSUME IInv, Linearise
    PROVE  IInv'
<1>1. /\ statement \in Statements /\ statement' = statement /\ sets' = sets /\ h' = h
      /\ scheme = "shplonk" /\ scheme' = "shplonk" /\ Grouped(sets, TrueEvals)
      /\ ch \in [y : Field, v : Field, u : Field]
      /\ h = FoldPolys(ch.v, [i \in DOMAIN sets |-> Quotient(sets[i])]) /\ proof = <<Commit(h)>>
      /\ proofs < MaxProofs /\ Secret \in Field /\ Us \subseteq Field
  BY StatementAssumption DEF IInv, TypeOK, Prepared, Linearise
<1> DEFINE z0 == Vanishing(Diffs(RotationPoints[1]), ch'.u)
           l  == FoldPolys(ch.v, [i \in DOMAIN sets |-> Linearised(sets[i], ch'.u)])
           z  == Vanishing(SuperPoints, ch'.u)
           lx == Whole([k \in 1..N |-> Less(l[k], Times(z, h[k]))])
           q  == Kate(lx, ch'.u)
<1>2. /\ ch' = [ch EXCEPT !.u = ch'.u] /\ ch'.u \in Us
      /\ IF z0 = Zero
         THEN stage' = "panicked" /\ UNCHANGED proof
         ELSE /\ proof' = Append(proof, Times(Commit(q), Invert(z0)))
              /\ stage' = "proved"
  <2>1. PICK u \in Us :
            LET z00 == Vanishing(Diffs(RotationPoints[1]), u)
                l0  == FoldPolys(ch.v, [i \in DOMAIN sets |-> Linearised(sets[i], u)])
                zz  == Vanishing(SuperPoints, u)
                lx0 == Whole([k \in 1..N |-> Less(l0[k], Times(zz, h[k]))])
                q0  == Kate(lx0, u)
            IN  /\ ch' = [ch EXCEPT !.u = u]
                /\ IF z00 = Zero
                   THEN stage' = "panicked" /\ UNCHANGED proof
                   ELSE /\ proof' = Append(proof, Times(Commit(q0), Invert(z00)))
                        /\ stage' = "proved"
    BY DEF Linearise
  <2>2. u = ch'.u
    BY <1>1, <2>1
  <2> QED  BY <2>1, <2>2
<1>3. PICK u, b, g, inv, zu, c, d :
          /\ u = ch'.u /\ b = Commit(h) /\ g = Powers(ch.v, Gaps(TrueEvals, Secret, u))
          /\ zu = z /\ c = Commit(q) /\ d = z0 /\ inv = Invert(z0)
  OBVIOUS
<1>4. u \in Field /\ ch'.y = ch.y /\ ch'.v = ch.v /\ ch' \in [y : Field, v : Field, u : Field]
  BY <1>1, <1>2, <1>3
<1>5. /\ h \in Vector(N) /\ N \in Nat
      /\ Times(Powers(u, h), Vanishing(SuperPoints, u)) = Powers(ch.v, Gaps(TrueEvals, u, u))
  BY <1>1, <1>4, FoldedIs, QueriesAre
<1>6. c \in Field /\ Times(Less(Secret, u), c) = Less(g, Times(zu, b))
  <2>1. lx = Linearisation(u) /\ z = Vanishing(SuperPoints, u)
    BY <1>3 DEF Linearisation
  <2> HIDE DEF z, lx
  <2>2. /\ Commit(Kate(Linearisation(u), u)) \in Field
        /\ Times(Less(Secret, u), Commit(Kate(Linearisation(u), u)))
               = Less(Powers(ch.v, Gaps(TrueEvals, Secret, u)),
                      Times(Vanishing(SuperPoints, u), Commit(h)))
    BY <1>1, <1>4, <1>5, LineariseIs
  <2> QED  BY <1>3, <2>1, <2>2
<1>7. b \in Field /\ g \in Field /\ zu \in Field /\ d \in Field
  <2>1. b \in Field
    BY <1>1, <1>3, <1>5, PowersIs DEF Commit
  <2>2. g \in Field
    <3>1. Gaps(TrueEvals, Secret, u) \in Vector(Len(RotationPoints)) /\ Len(RotationPoints) \in Nat
      BY <1>1, <1>4, GapsAre, RotationPointsAre, TrueEvalsAre
    <3> QED  BY <1>1, <1>3, <3>1, PowersIs
  <2>3. zu \in Field /\ d \in Field
    <3>1. /\ SuperPoints \ RotationPoints[1] \in SUBSET Field
          /\ IsFiniteSet(SuperPoints \ RotationPoints[1])
      BY <1>1, SuperPointsAre, FS_Difference
    <3> QED  BY <1>1, <1>3, <1>4, <3>1, SuperPointsAre, VanishingType DEF Diffs
  <2> QED  BY <2>1, <2>2, <2>3
<1> HIDE DEF z0, l, z, lx, q
<1>8. CheckIsErrors'
  BY <1>2 DEF IInv, CheckIsErrors, Linearise, verifier
<1>9. CASE d = Zero
  <2>1. stage' = "panicked" /\ proof' = proof
    BY <1>2, <1>3, <1>9
  <2>2. TypeOK' /\ Prepared'
    BY <1>4, <2>1 DEF IInv, TypeOK, Prepared, Linearise, verifier
  <2> QED  BY <1>1, <1>8, <2>2 DEF IInv
<1>10. CASE d # Zero
  <2>1. PICK p : p = Times(c, inv)
    OBVIOUS
  <2>2. stage' = "proved" /\ proof' = <<b, p>>
    BY <1>1, <1>2, <1>3, <1>10, <2>1
  <2>3. inv \in Field /\ p \in Field
    BY <1>3, <1>6, <1>7, <1>10, <2>1, TimesInvert, Closed
  <2>4. Times(Less(Secret, u), p) = Times(inv, Less(g, Times(zu, b)))
    <3>1. Less(Secret, u) \in Field
      BY <1>1, <1>4, Closed
    <3>2. Times(Times(Less(Secret, u), c), inv) = Times(Less(Secret, u), Times(c, inv))
      BY <1>6, <2>3, <3>1, Laws
    <3>3. Times(Times(Less(Secret, u), c), inv) = Times(inv, Times(Less(Secret, u), c))
      BY <1>6, <2>3, <3>1, Laws, Closed
    <3> QED  BY ONLY <1>6, <2>1, <3>2, <3>3
  <2>5. /\ Vanishing(Diffs(RotationPoints[1]), ch.u)' = d
        /\ Vanishing(SuperPoints, ch.u)' = zu
        /\ Powers(ch.v, Gaps(TrueEvals, Secret, ch.u))' = g
    <3>1. PICK S : S = RotationPoints[1]
      OBVIOUS
    <3>2. S = RotationPoints[1]' /\ Diffs(S)' = Diffs(S) /\ SuperPoints' = SuperPoints
      BY <1>1, <3>1, Stays
    <3>3. Vanishing(Diffs(RotationPoints[1]), ch.u)' = d
      BY <1>3, <3>1, <3>2 DEF z0
    <3>4. Vanishing(SuperPoints, ch.u)' = zu
      BY <1>3, <3>2 DEF z
    <3>5. PICK evals : evals = TrueEvals
      OBVIOUS
    <3>6. evals = TrueEvals' /\ Gaps(evals, Secret, u)' = Gaps(evals, Secret, u)
      BY <1>1, <1>4, <3>5, Stays, GapsStay
    <3>7. Powers(ch.v, Gaps(TrueEvals, Secret, ch.u))' = g
      BY <1>3, <1>4, <3>5, <3>6
    <3> QED  BY <3>3, <3>4, <3>7
  <2>6. proof' \in Vector(2) /\ proof'[1] = b /\ proof'[2] = p
    BY <1>7, <2>2, <2>3 DEF Vector
  <2>7. ProvedShplonk'
    BY <1>3, <1>10, <2>4, <2>5, <2>6 DEF ProvedShplonk, z0
  <2>8. TypeOK'
    <3>1. proof' \in [1..Len(proof') -> Field] /\ Len(proof') = 2
      BY <1>7, <2>2, <2>3
    <3> QED  BY <1>1, <1>4, <2>2, <3>1 DEF IInv, TypeOK, Linearise, verifier
  <2>9. Prepared'
    BY <1>1, <2>2, <2>7 DEF Prepared, Linearise, verifier
  <2> QED  BY <1>1, <1>8, <2>8, <2>9 DEF IInv
<1> QED  BY <1>9, <1>10

\* GWC's witnesses open the folds of the queries at their points;
LEMMA GwcProveKeeps ==
    ASSUME IInv, GwcProve
    PROVE  IInv'
<1>1. /\ statement \in Statements /\ statement' = statement
      /\ scheme = "gwc" /\ scheme' = "gwc" /\ proofs < MaxProofs /\ Secret \in Field
  BY StatementAssumption DEF IInv, Prepared, GwcProve
<1>2. ch' \in [y : Field, v : Field, u : Field]
  BY Closed, StatementAssumption DEF GwcProve
<1>3. CheckIsErrors'
  BY DEF IInv, CheckIsErrors, GwcProve, verifier
<1>4. CASE device
  <2>1. TypeOK' /\ Prepared'
    BY <1>2, <1>4 DEF IInv, TypeOK, Prepared, GwcProve, verifier
  <2> QED  BY <1>1, <1>3, <2>1 DEF IInv
<1>5. CASE ~device
  <2>1. PICK n, order, v : n = Len(order) /\ order = PointsInOrder /\ v = ch'.v
    OBVIOUS
  <2>2. /\ n \in Nat /\ DOMAIN order = 1..n /\ \A k \in 1..n : order[k] \in SuperPoints
        /\ n = Cardinality(SuperPoints) /\ v \in Field
    BY <1>1, <1>2, <2>1, PointsInOrderAre
  <2>3. stage' = "proved" /\ proof' = [k \in 1..n |-> Commit(Witness(v, order[k]))]
    BY <1>5, <2>1, <2>2 DEF GwcProve
  <2>4. ASSUME NEW k \in 1..n
        PROVE  /\ proof'[k] \in Field
               /\ Times(Less(Secret, order[k]), proof'[k])
                      = Less(Folded(v, AllHeld, At(order[k])), Folded(v, TrueEvals, At(order[k])))
    <3>1. proof'[k] = Commit(Witness(v, order[k])) /\ order[k] \in SuperPoints
      BY <2>2, <2>3
    <3> QED  BY <1>1, <2>2, <3>1, WitnessIs
  <2>5. proof' \in Vector(n)
    BY <2>3, <2>4 DEF Vector
  <2>6. /\ PointsInOrder' = order /\ AllHeld' = AllHeld /\ TrueEvals' = TrueEvals
        /\ SuperPoints' = SuperPoints /\ \A p : At(p)' = At(p)
    BY <1>1, <2>1, Stays
  <2>7. ASSUME NEW k \in 1..n
        PROVE  /\ Folded(ch.v, AllHeld, At(PointsInOrder[k]))' = Folded(v, AllHeld, At(order[k]))
               /\ Folded(ch.v, TrueEvals, At(PointsInOrder[k]))' = Folded(v, TrueEvals, At(order[k]))
    <3>1. PICK p : p = order[k]
      OBVIOUS
    <3>2. p = PointsInOrder[k]' /\ At(p)' = At(p)
      BY <2>6, <3>1
    <3> QED  BY <2>1, <2>6, <3>1, <3>2 DEF Folded
  <2>8. ProvedGwc'
    BY <2>1, <2>4, <2>5, <2>6, <2>7 DEF ProvedGwc
  <2>9. TypeOK'
    <3>1. proof' \in [1..Len(proof') -> Field] /\ Len(proof') = n
      BY <2>2, <2>5, VectorIs DEF Vector
    <3>2. Len(proof') = Cardinality(SuperPoints)'
      BY <2>2, <2>6, <3>1
    <3> QED  BY <1>1, <1>2, <2>3, <3>1, <3>2 DEF IInv, TypeOK, GwcProve, verifier
  <2>10. Prepared'
    BY <1>1, <2>3, <2>8 DEF Prepared, GwcProve, verifier
  <2> QED  BY <1>1, <1>3, <2>9, <2>10 DEF IInv
<1> QED  BY <1>4, <1>5

\* The verifier adds the errors of the claims, whatever the order of its own sets;
LEMMA VerifyKeeps ==
    ASSUME IInv, Verify
    PROVE  IInv'
<1>1. /\ statement \in Statements /\ ch \in [y : Field, v : Field, u : Field] /\ Secret \in Field
      /\ scheme \in {"shplonk", "gwc"} /\ scheme' = scheme /\ stage = "proved" /\ stage' = "idle"
      /\ acc.left \in Field /\ acc.right \in Field /\ owed \in Field
      /\ owed = Less(Times(Secret, acc.left), acc.right)
      /\ (IF scheme = "gwc" THEN ProvedGwc ELSE ProvedShplonk)
      /\ proofs < MaxProofs /\ proofs \in Nat /\ proofs' = proofs + 1 /\ MaxProofs \in Nat
  <2>1. stage = "proved" /\ stage' = "idle" /\ scheme' = scheme /\ proofs' = proofs + 1
    BY DEF Verify
  <2>2. /\ ch \in [y : Field, v : Field, u : Field] /\ scheme \in {"shplonk", "gwc"}
        /\ acc.left \in Field /\ acc.right \in Field /\ owed \in Field
        /\ owed = Less(Times(Secret, acc.left), acc.right)
    BY DEF IInv, TypeOK, CheckIsErrors
  <2>3. /\ statement \in Statements /\ proofs < MaxProofs
        /\ (IF scheme = "gwc" THEN ProvedGwc ELSE ProvedShplonk)
    BY <2>1 DEF IInv, Prepared
  <2>4. proofs \in Nat /\ MaxProofs \in Nat /\ Secret \in Field
    <3>1. MaxProofs \in Nat /\ Secret \in Field
      BY StatementAssumption
    <3>2. proofs \in 0..MaxProofs
      BY DEF IInv, TypeOK
    <3> QED  BY <3>1, <3>2
  <2> QED  BY <2>1, <2>2, <2>3, <2>4
<1>2. PICK r \in Rs :
          /\ \/ scheme = "gwc" /\ Accumulate(r, Gwc)
             \/ /\ scheme = "shplonk"
                /\ \E orders \in Orders : Accumulate(r, Shplonk(RotationSets(Claims, orders)))
          /\ owed' = Plus(Times(r, owed), Errors)
  BY DEF Verify
<1>3. r \in Field
  BY StatementAssumption
<1>4. \E msm : /\ Accumulate(r, msm) /\ msm.left \in Field /\ msm.right \in Field
               /\ Errors \in Field /\ Less(Times(Secret, msm.left), msm.right) = Errors
  <2>1. CASE scheme = "gwc"
    <3>1. Accumulate(r, Gwc)
      BY <1>2, <2>1
    <3>2. /\ Gwc.left \in Field /\ Gwc.right \in Field /\ Errors \in Field
          /\ Less(Times(Secret, Gwc.left), Gwc.right) = Errors
      BY <1>1, <2>1, GwcIs
    <3> QED  BY <3>1, <3>2
  <2>2. CASE scheme = "shplonk"
    <3>1. PICK orders \in Orders : Accumulate(r, Shplonk(RotationSets(Claims, orders)))
      BY <1>2, <2>2
    <3>2. PICK own : own = RotationSets(Claims, orders)
      OBVIOUS
    <3>3. Grouped(own, Claims)
      BY <1>1, <3>1, <3>2, RotationSetsAre, TrueEvalsAre
    <3>4. ProvedShplonk
      BY <1>1, <2>2
    <3>5. /\ Shplonk(own).left \in Field /\ Shplonk(own).right \in Field /\ Errors \in Field
          /\ Less(Times(Secret, Shplonk(own).left), Shplonk(own).right) = Errors
      BY <1>1, <2>2, <3>3, <3>4, ShplonkIs
    <3> QED  BY <3>1, <3>2, <3>5
  <2> QED  BY <1>1, <2>1, <2>2
<1>5. PICK msm : /\ Accumulate(r, msm) /\ msm.left \in Field /\ msm.right \in Field
                 /\ Errors \in Field /\ Less(Times(Secret, msm.left), msm.right) = Errors
  BY <1>4
<1>6. acc' = [left  |-> Plus(Times(r, acc.left), msm.left),
              right |-> Plus(Times(r, acc.right), msm.right)]
  BY <1>5 DEF Accumulate, Scaled
<1>7. acc' \in [left : Field, right : Field] /\ owed' \in Field
  <2>1. /\ Times(r, acc.left) \in Field /\ Times(r, acc.right) \in Field
        /\ Times(r, owed) \in Field
    BY <1>1, <1>3, Closed
  <2>2. /\ Plus(Times(r, acc.left), msm.left) \in Field
        /\ Plus(Times(r, acc.right), msm.right) \in Field /\ Plus(Times(r, owed), Errors) \in Field
    BY <1>5, <2>1, Closed
  <2> QED  BY <1>2, <1>6, <2>2
<1>8. Less(Times(Secret, acc'.left), acc'.right) = owed'
  <2>1. PICK a, b, l, m, o, e : /\ a = acc.left /\ b = acc.right /\ l = msm.left /\ m = msm.right
                                /\ o = owed /\ e = Errors
    OBVIOUS
  <2>2. /\ a \in Field /\ b \in Field /\ l \in Field /\ m \in Field /\ Secret \in Field
        /\ Less(Times(Secret, a), b) = o /\ Less(Times(Secret, l), m) = e
    BY <1>1, <1>5, <2>1
  <2>3. Less(Times(Secret, Plus(Times(r, a), l)), Plus(Times(r, b), m)) = Plus(Times(r, o), e)
    BY ONLY <1>3, <2>2, AccumulateStep
  <2>4. /\ acc'.left = Plus(Times(r, a), l) /\ acc'.right = Plus(Times(r, b), m)
        /\ owed' = Plus(Times(r, o), e)
    BY <1>2, <1>6, <2>1
  <2> QED  BY ONLY <2>3, <2>4
<1>9. TypeOK'
  <2>1. /\ h' = <<>> /\ proof' = <<>> /\ ch' = NoChallenges /\ verdict' = verdict
    BY DEF Verify
  <2>2. ch' \in [y : Field, v : Field, u : Field]
    BY <2>1, Closed DEF NoChallenges
  <2>3. /\ h' \in [1..Len(h') -> Field] /\ Len(h') \in {0, N}
        /\ proof' \in [1..Len(proof') -> Field]
    BY <2>1
  <2>4. proofs' \in 0..MaxProofs /\ verdict' \in BOOLEAN
    BY <1>1, <2>1 DEF IInv, TypeOK
  <2> QED  BY <1>1, <1>7, <2>2, <2>3, <2>4 DEF TypeOK
<1>10. Prepared' /\ CheckIsErrors'
  BY <1>1, <1>8 DEF Prepared, CheckIsErrors
<1> QED  BY <1>1, <1>9, <1>10 DEF IInv

\* and the pairing check compares what is owed with zero.
LEMMA FinalizeKeeps ==
    ASSUME IInv, Finalize
    PROVE  IInv'
<1>1. /\ acc.left \in Field /\ acc.right \in Field /\ Secret \in Field
      /\ Less(Times(Secret, acc.left), acc.right) = owed
  BY StatementAssumption DEF IInv, TypeOK, CheckIsErrors
<1>2. Times(Secret, acc.left) \in Field
  BY <1>1, Closed
<1>3. (Times(Secret, acc.left) = acc.right) <=> owed = Zero
  BY <1>1, <1>2, LessZero
<1>4. /\ verdict' = (Times(Secret, acc.left) = acc.right) /\ stage' = "final"
      /\ acc' = acc /\ owed' = owed /\ proofs' = proofs /\ scheme' = scheme /\ ch' = ch
      /\ h' = h /\ proof' = proof
  BY DEF Finalize, prover
<1>5. CheckIsErrors'
  <2>1. verdict' <=> owed' = Zero
    BY <1>3, <1>4
  <2> QED  BY <1>1, <1>4, <2>1 DEF CheckIsErrors
<1>6. verdict' \in BOOLEAN
  BY <1>4
<1>7. TypeOK' /\ Prepared'
  BY <1>4, <1>6 DEF IInv, TypeOK, Prepared
<1> QED  BY <1>4, <1>5, <1>7 DEF IInv

\* A step that changes nothing keeps it too.
LEMMA StutterKeeps ==
    ASSUME IInv, UNCHANGED vars
    PROVE  IInv'
<1>1. /\ statement' = statement /\ stage' = stage /\ ch' = ch /\ sets' = sets /\ h' = h
      /\ proof' = proof /\ acc' = acc /\ owed' = owed /\ proofs' = proofs
      /\ verdict' = verdict /\ scheme' = scheme
  BY DEF vars, prover, verifier
<1>2. /\ SuperPoints' = SuperPoints /\ TrueEvals' = TrueEvals /\ PointsInOrder' = PointsInOrder
      /\ AllHeld' = AllHeld /\ RotationPoints' = RotationPoints /\ \A p : At(p)' = At(p)
      /\ \A S : Diffs(S)' = Diffs(S)
  BY <1>1, Stays
<1>3. TypeOK' /\ CheckIsErrors'
  BY <1>1, <1>2 DEF IInv, TypeOK, CheckIsErrors
<1>4. Grouped(sets, TrueEvals) => Grouped(sets, TrueEvals)'
  <2>1. PICK own, evals : own = sets /\ evals = TrueEvals
    OBVIOUS
  <2>2. Grouped(own, evals) => Grouped(own, evals)'
    BY <1>1, GroupedStays
  <2>3. own = sets' /\ evals = TrueEvals'
    BY <1>1, <1>2, <2>1
  <2> QED  BY <2>1, <2>2, <2>3
<1>5. FoldPolys(ch.v, [i \in DOMAIN sets |-> Quotient(sets[i])])'
          = FoldPolys(ch.v, [i \in DOMAIN sets |-> Quotient(sets[i])])
  BY <1>1 DEF Quotient, Combined, LowDegree
<1>6. ProvedGwc => ProvedGwc'
  <2>1. ASSUME NEW k
        PROVE  /\ Folded(ch.v, AllHeld, At(PointsInOrder[k]))'
                      = Folded(ch.v, AllHeld, At(PointsInOrder[k]))
               /\ Folded(ch.v, TrueEvals, At(PointsInOrder[k]))'
                      = Folded(ch.v, TrueEvals, At(PointsInOrder[k]))
    <3>1. PICK p : p = PointsInOrder[k]
      OBVIOUS
    <3>2. p = PointsInOrder[k]' /\ At(p)' = At(p)
      BY <1>2, <3>1
    <3> QED  BY <1>1, <1>2, <3>1, <3>2 DEF Folded
  <2> QED  BY <1>1, <1>2, <2>1 DEF ProvedGwc
<1>7. ProvedShplonk => ProvedShplonk'
  <2>1. PICK evals, u, S : evals = TrueEvals /\ u = ch.u /\ S = RotationPoints[1]
    OBVIOUS
  <2>2. Gaps(evals, Secret, u)' = Gaps(evals, Secret, u) /\ Diffs(S)' = Diffs(S)
    BY <1>1, <1>2, GapsStay
  <2>3. evals = TrueEvals' /\ u = ch'.u /\ S = RotationPoints[1]'
    BY <1>1, <1>2, <2>1
  <2>4. Gaps(TrueEvals, Secret, ch.u)' = Gaps(TrueEvals, Secret, ch.u)
    BY <2>1, <2>2, <2>3
  <2>5. Vanishing(Diffs(RotationPoints[1]), ch.u)' = Vanishing(Diffs(RotationPoints[1]), ch.u)
    BY <2>1, <2>2, <2>3
  <2> QED  BY <1>1, <1>2, <2>4, <2>5 DEF ProvedShplonk
<1>8. Prepared'
  BY <1>1, <1>4, <1>5, <1>6, <1>7 DEF IInv, Prepared
<1> QED  BY <1>1, <1>3, <1>8 DEF IInv

LEMMA Invariant == Spec => []IInv
<1>1. Init => IInv
  BY InitIInv
<1>2. IInv /\ [Next]_vars => IInv'
  BY BeginKeeps, GroupKeeps, CommitQuotientKeeps, LineariseKeeps, GwcProveKeeps, VerifyKeeps,
     FinalizeKeeps, StutterKeeps DEF Next
<1> QED  BY <1>1, <1>2, PTL DEF Spec

\* In every state the two MSMs, the proofs and the challenges are of the field, and a
\* finished proof has the two points of SHPLONK or one for each point of GWC.
THEOREM TypeCorrect == Spec => []TypeOK
<1>1. IInv => TypeOK
  BY DEF IInv
<1> QED  BY <1>1, Invariant, PTL

\* SHPLONK's folded quotient is exact: for every order of the hash sets, the low degree
\* parts interpolate the evaluations, and the quotient times the vanishing polynomial of
\* all the points is, at every element of the field, the fold the linearisation relies on.
THEOREM DivisionsExact == Spec => []QuotientIsExact
<1>1. IInv => QuotientIsExact
  BY ExactWhenFolded
<1> QED  BY <1>1, Invariant, PTL

\* The accumulated check of either scheme is off by the errors of the claims weighted by
\* the challenges, by nothing else; the batch is accepted exactly when those vanish.
THEOREM AcceptsExactly == Spec => []CheckIsErrors
<1>1. IInv => CheckIsErrors
  BY DEF IInv
<1> QED  BY <1>1, Invariant, PTL

================================================================================
