------------------------------ MODULE KeygenProofs ------------------------------
(* Proofs about Keygen, for every number of rows and every set of circuits; and   *)
(* first about what AssignedCells computes, for every prime: the arithmetic of    *)
(* fractions is that of the elements they stand for, and either batch inversion   *)
(* leaves each element's own inverse in its place, whatever the number of threads. *)
EXTENDS Keygen, DataInduction, FiniteSetTheorems, TLAPS

(* ---------------------------------- the field ------------------------------- *)

\* Division by the field's order.
LEMMA Division ==
    ASSUME NEW a, a \in Int
    PROVE  /\ a % Prime \in Field /\ a \div Prime \in Int
           /\ a = (Prime * (a \div Prime)) + (a % Prime)
<1>1. Prime \in Int /\ Prime > 0
  BY AssignedAssumption
<1>2. a % Prime \in 0..(Prime - 1)
  BY <1>1
<1>3. a \div Prime \in Int
  BY <1>1
<1>4. a = (Prime * (a \div Prime)) + (a % Prime)
  BY <1>1
<1> QED  BY <1>2, <1>3, <1>4 DEF Field

\* The field's elements are numbers.
LEMMA FieldIsInt ==
    /\ Prime \in Nat /\ Prime > 1 /\ 0 \in Field /\ 1 \in Field
    /\ \A x \in Field : x \in Int /\ x \in Nat /\ 0 <= x /\ x < Prime
  BY AssignedAssumption DEF Field

\* A positive multiple of a number is no smaller.
LEMMA MultipleAtLeast ==
    ASSUME NEW P \in Nat, NEW k \in Int, k >= 1
    PROVE  P * k >= P
  OBVIOUS

\* The remainder is the only element at a multiple of the order.
LEMMA RemainderUnique ==
    ASSUME NEW a \in Int, NEW k \in Int, NEW r \in Field, a = (Prime * k) + r
    PROVE  a % Prime = r
<1>1. PICK P \in Nat : P = Prime /\ P > 1
  BY FieldIsInt
<1>2. PICK q, s : q = a \div P /\ s = a % P
  OBVIOUS
<1>3. q \in Int /\ s \in Int /\ 0 <= s /\ s < P /\ a = (P * q) + s
  BY <1>1, <1>2, Division, FieldIsInt
<1>4. r \in Int /\ 0 <= r /\ r < P /\ a = (P * k) + r
  BY <1>1, FieldIsInt
<1>5. P * (q - k) = r - s
  BY <1>3, <1>4
<1>6. ~ (q - k >= 1)
  <2>1. SUFFICES ASSUME q - k >= 1 PROVE FALSE
    OBVIOUS
  <2>2. P * (q - k) >= P
    BY <1>3, <2>1, MultipleAtLeast
  <2> QED  BY <1>3, <1>4, <1>5, <2>2
<1>7. ~ (k - q >= 1)
  <2>1. SUFFICES ASSUME k - q >= 1 PROVE FALSE
    OBVIOUS
  <2>2. P * (k - q) >= P
    BY <1>3, <2>1, MultipleAtLeast
  <2>3. P * (k - q) = s - r
    BY <1>3, <1>4
  <2> QED  BY <1>3, <1>4, <2>2, <2>3
<1>8. q = k
  BY <1>3, <1>6, <1>7
<1> QED  BY <1>1, <1>2, <1>3, <1>4, <1>8

\* Two integers that stand for one element of the field.
Same(a, b) == a % Prime = b % Prime

\* Numbers a multiple of the order apart are the same element.
LEMMA MultipleApart ==
    ASSUME NEW x \in Int, NEW y \in Int, NEW m \in Int, x = (Prime * m) + y
    PROVE  Same(x, y)
<1>1. PICK P \in Nat : P = Prime /\ P > 1
  BY FieldIsInt
<1>2. PICK z, n : z = y % Prime /\ n = y \div Prime
  OBVIOUS
<1>3. z \in Field /\ z \in Int /\ n \in Int /\ y = (P * n) + z
  BY <1>1, <1>2, Division, FieldIsInt
<1>4. x = (P * m) + y
  BY <1>1
<1>5. m + n \in Int /\ x = (P * (m + n)) + z
  BY ONLY <1>3, <1>4, P \in Int, m \in Int, x \in Int, y \in Int
<1>6. PICK k \in Int : k = m + n
  BY <1>5
<1>7. x = (Prime * k) + z
  BY <1>1, <1>5, <1>6
<1>8. x % Prime = z
  BY <1>3, <1>7, RemainderUnique
<1> QED  BY <1>2, <1>8 DEF Same

\* Sums, differences and products respect it.
LEMMA SameArithmetic ==
    ASSUME NEW a, a \in Int, NEW b, b \in Int, NEW c, c \in Int, NEW d, d \in Int,
           Same(a, b), Same(c, d)
    PROVE  Same(a + c, b + d) /\ Same(a - c, b - d) /\ Same(a * c, b * d)
<1>1. PICK P \in Nat : P = Prime /\ P > 1
  BY FieldIsInt
<1>2. PICK r, s, i, j, k, l : /\ r = a % Prime /\ s = c % Prime
         /\ i = a \div Prime /\ j = b \div Prime /\ k = c \div Prime /\ l = d \div Prime
  OBVIOUS
<1>3. /\ r \in Int /\ s \in Int /\ i \in Int /\ j \in Int /\ k \in Int /\ l \in Int
      /\ a = (P * i) + r /\ b = (P * j) + r /\ c = (P * k) + s /\ d = (P * l) + s
  BY <1>1, <1>2, Division, FieldIsInt DEF Same
<1>5. \A x, y \in Int, m \in Int : x = (P * m) + y => Same(x, y)
  BY <1>1, MultipleApart
<1>6. Same(a + c, b + d)
  <2>1. PICK m : m = i + k - j - l
    OBVIOUS
  <2>2. a + c = (P * m) + (b + d) /\ m \in Int /\ a + c \in Int /\ b + d \in Int
    BY ONLY <1>3, <2>1, P \in Nat
  <2> QED  BY ONLY <1>5, <2>2
<1>7. Same(a - c, b - d)
  <2>1. PICK m : m = i - k - j + l
    OBVIOUS
  <2>2. a - c = (P * m) + (b - d) /\ m \in Int /\ a - c \in Int /\ b - d \in Int
    BY ONLY <1>3, <2>1, P \in Nat
  <2> QED  BY ONLY <1>5, <2>2
<1>8. Same(a * c, b * d)
  <2>1. PICK m, n : m = P * i * k + i * s + r * k /\ n = P * j * l + j * s + r * l
    OBVIOUS
  <2>2. a * c = (P * m) + (r * s)
    BY ONLY <1>3, <2>1, P \in Nat
  <2>3. b * d = (P * n) + (r * s)
    BY ONLY <1>3, <2>1, P \in Nat
  <2>4. m \in Int /\ n \in Int /\ r * s \in Int /\ a * c \in Int /\ b * d \in Int
    BY ONLY <1>3, <2>1, P \in Nat
  <2>5. Same(a * c, r * s) /\ Same(b * d, r * s)
    BY ONLY <1>5, <2>2, <2>3, <2>4
  <2> QED  BY <2>5 DEF Same
<1> QED  BY <1>6, <1>7, <1>8

\* An integer and its remainder are the same element, and no two elements are.
LEMMA Remainder ==
    ASSUME NEW a, a \in Int
    PROVE  a % Prime \in Field /\ a % Prime \in Int /\ Same(a % Prime, a)
<1>1. PICK r, k : r = a % Prime /\ k = a \div Prime
  OBVIOUS
<1>2. r \in Field /\ r \in Int /\ k \in Int /\ a = (Prime * k) + r
  BY <1>1, Division, FieldIsInt
<1>3. Same(a, r)
  BY <1>2, MultipleApart
<1> QED  BY <1>1, <1>2, <1>3 DEF Same

\* Elements that are the same modulo the order are equal.
LEMMA SameElement ==
    ASSUME NEW x, x \in Field, NEW y, y \in Field, Same(x, y)
    PROVE  x = y
<1>1. \A z \in Field : z % Prime = z
  <2>1. SUFFICES ASSUME NEW z \in Field PROVE z % Prime = z
    OBVIOUS
  <2>2. z \in Int /\ z = (Prime * 0) + z
    BY FieldIsInt
  <2> QED  BY <2>2, RemainderUnique
<1> QED  BY <1>1 DEF Same

\* An element is its own remainder.
LEMMA ElementMod ==
    ASSUME NEW x, x \in Field
    PROVE  x % Prime = x
<1>1. x \in Int /\ x % Prime \in Field /\ Same(x % Prime, x)
  BY Remainder, FieldIsInt
<1> QED  BY <1>1, SameElement

\* Being the same element is reflexive.
LEMMA SameRefl ==
    ASSUME NEW a
    PROVE  Same(a, a)
  BY DEF Same

\* The same element times a factor, on either side.
LEMMA SameTimes ==
    ASSUME NEW a, a \in Int, NEW b, b \in Int, NEW c, c \in Int, Same(a, b)
    PROVE  Same(a * c, b * c) /\ Same(c * a, c * b)
  BY SameRefl, SameArithmetic

\* A factor may be inverted away.
LEMMA SameUnit ==
    ASSUME NEW x, x \in Int, NEW u, u \in Int, Same(u, 1)
    PROVE  Same(x * u, x)
<1>1. 1 \in Int /\ x * 1 = x
  OBVIOUS
<1>2. Same(x * u, x * 1)
  BY <1>1, SameTimes
<1> QED  BY <1>1, <1>2

\* What FieldInverse returns: the inverse, and zero for zero.
LEMMA InverseIs ==
    ASSUME NEW x, x \in Field
    PROVE  /\ FieldInverse[x] \in Field /\ FieldInverse[x] \in Int
           /\ x # 0 => FieldInverse[x] # 0 /\ Same(x * FieldInverse[x], 1)
           /\ x = 0 => FieldInverse[x] = 0
<1>1. CASE x = 0
  <2>1. FieldInverse[x] = 0
    BY <1>1 DEF FieldInverse
  <2> QED  BY <1>1, <2>1, FieldIsInt
<1>2. CASE x # 0
  <2>1. \E y \in Field : (x * y) % Prime = 1
    BY <1>2, AssignedAssumption
  <2>2. FieldInverse[x] = CHOOSE y \in Field : (x * y) % Prime = 1
    BY <1>2 DEF FieldInverse
  <2>3. PICK y : y = FieldInverse[x]
    OBVIOUS
  <2>4. y \in Field /\ (x * y) % Prime = 1
    BY <2>1, <2>2, <2>3
  <2>5. 1 % Prime = 1 /\ 0 % Prime = 0
    BY ElementMod, FieldIsInt
  <2>6. y # 0
    <3>1. SUFFICES ASSUME y = 0 PROVE FALSE
      OBVIOUS
    <3>2. x * y = 0
      BY <3>1, FieldIsInt
    <3> QED  BY <2>4, <2>5, <3>2
  <2> QED  BY <1>2, <2>3, <2>4, <2>5, <2>6, FieldIsInt DEF Same
<1> QED  BY <1>1, <1>2

\* A nonzero factor cancels.
LEMMA Cancel ==
    ASSUME NEW x, x \in Int, NEW y, y \in Int, NEW d, d \in Field, d # 0, Same(x * d, y * d)
    PROVE  Same(x, y)
<1>1. PICK e : e = FieldInverse[d]
  OBVIOUS
<1>2. e \in Int /\ d \in Int /\ Same(d * e, 1)
  BY <1>1, InverseIs, FieldIsInt
<1>3. x * d \in Int /\ y * d \in Int /\ d * e \in Int
  BY <1>2
<1>4. Same((x * d) * e, (y * d) * e)
  BY <1>2, <1>3, SameRefl, SameArithmetic
<1>5. Same(x * (d * e), x) /\ Same(y * (d * e), y)
  BY <1>2, <1>3, SameUnit
<1>6. (x * d) * e = x * (d * e) /\ (y * d) * e = y * (d * e)
  BY <1>2
<1> QED  BY <1>4, <1>5, <1>6 DEF Same

\* A product that is zero has a factor that is zero.
LEMMA NoZeroDivisors ==
    ASSUME NEW x, x \in Field, NEW y, y \in Field, Same(x * y, 0)
    PROVE  x = 0 \/ y = 0
<1>1. SUFFICES ASSUME y # 0 PROVE x = 0
  OBVIOUS
<1>2. x \in Int /\ y \in Int /\ 0 * y = 0 /\ 0 \in Field
  BY FieldIsInt
<1>3. Same(x, 0)
  BY <1>1, <1>2, Cancel
<1> QED  BY <1>2, <1>3, SameElement

\* The product of two non-zero elements is one.
LEMMA ProductNonzero ==
    ASSUME NEW x, x \in Field, NEW y, y \in Field, x # 0, y # 0
    PROVE  (x * y) % Prime # 0 /\ (x * y) % Prime \in Field
<1>1. x \in Int /\ y \in Int /\ x * y \in Int /\ 0 % Prime = 0
  BY FieldIsInt, ElementMod
<1>2. ASSUME (x * y) % Prime = 0 PROVE FALSE
  <2>1. Same(x * y, 0)
    BY <1>1, <1>2 DEF Same
  <2> QED  BY <2>1, NoZeroDivisors
<1> QED  BY <1>1, <1>2, Remainder

\* Whatever makes one of an element is its inverse.
LEMMA InverseUnique ==
    ASSUME NEW x, x \in Field, NEW y, y \in Field, Same(x * y, 1)
    PROVE  x # 0 /\ y = FieldInverse[x]
<1>1. x \in Int /\ y \in Int /\ 1 % Prime = 1 /\ 0 % Prime = 0 /\ 0 * y = 0
  BY FieldIsInt, ElementMod
<1>2. x # 0
  BY <1>1 DEF Same
<1>3. PICK e : e = FieldInverse[x]
  OBVIOUS
<1>4. e \in Field /\ e \in Int /\ Same(x * e, 1)
  BY <1>2, <1>3, InverseIs
<1>5. y * x = x * y /\ e * x = x * e
  BY <1>1, <1>4
<1>6. Same(y * x, e * x)
  BY <1>4, <1>5 DEF Same
<1>7. Same(y, e)
  BY <1>1, <1>2, <1>4, <1>6, Cancel
<1> QED  BY <1>2, <1>3, <1>4, <1>7, SameElement

(* ---------------------------------- cells ----------------------------------- *)

\* Numerators and denominators are elements.
LEMMA CellParts ==
    ASSUME NEW a, a \in Assigned
    PROVE  /\ Numerator(a) \in Field /\ Denominator(a) \in Field
           /\ Numerator(a) \in Int /\ Denominator(a) \in Int
           /\ ~ IsRational(a) => Denominator(a) = 1
           /\ a = Zero => Numerator(a) = 0 /\ Denominator(a) = 1
<1>1. a = Zero \/ (\E x \in Field : a = Trivial(x)) \/ (\E n, d \in Field : a = Rational(n, d))
  BY DEF Assigned
<1>2. "zero" # "trivial" /\ "zero" # "rational" /\ "trivial" # "rational"
  OBVIOUS
<1>3. CASE a = Zero
  BY <1>2, <1>3, FieldIsInt DEF Zero, IsRational, Numerator, Denominator
<1>4. CASE \E x \in Field : a = Trivial(x)
  <2>1. PICK x \in Field : a = Trivial(x)
    BY <1>4
  <2>2. a # Zero /\ ~ IsRational(a) /\ a[2] = x
    BY <2>1, <1>2 DEF Trivial, IsRational, Zero
  <2> QED  BY <2>2, FieldIsInt DEF Numerator, Denominator
<1>5. CASE \E n, d \in Field : a = Rational(n, d)
  <2>1. PICK n, d \in Field : a = Rational(n, d)
    BY <1>5
  <2>2. a # Zero /\ IsRational(a) /\ a[2] = n /\ a[3] = d
    BY <2>1, <1>2 DEF Rational, IsRational, Zero
  <2> QED  BY <2>1, <2>2, FieldIsInt DEF Numerator, Denominator
<1> QED  BY <1>1, <1>3, <1>4, <1>5

\* A cell stands for the one element whose product with the denominator is the
\* numerator, and for zero when the denominator is zero.
LEMMA StandsFor ==
    ASSUME NEW a, a \in Assigned
    PROVE  /\ Evaluate(a) \in Field /\ Evaluate(a) \in Int
           /\ Denominator(a) = 0 => Evaluate(a) = 0
           /\ Denominator(a) # 0 => Same(Evaluate(a) * Denominator(a), Numerator(a))
<1>1. PICK n, d : n = Numerator(a) /\ d = Denominator(a)
  OBVIOUS
<1>2. n \in Field /\ d \in Field /\ n \in Int /\ d \in Int
  BY <1>1, CellParts
<1>3. PICK e : e = FieldInverse[d]
  OBVIOUS
<1>4. e \in Int /\ (d # 0 => Same(d * e, 1)) /\ (d = 0 => e = 0)
  BY <1>2, <1>3, InverseIs
<1>5. PICK v : v = (n * e) % Prime
  OBVIOUS
<1>6. Evaluate(a) = v
  BY <1>1, <1>3, <1>5 DEF Evaluate
<1>7. n * e \in Int /\ v \in Field /\ v \in Int /\ Same(v, n * e)
  BY <1>2, <1>4, <1>5, Remainder
<1>8. ASSUME d = 0 PROVE v = 0
  <2>1. n * e = 0
    BY <1>2, <1>4, <1>8
  <2> QED  BY <1>5, <2>1, ElementMod, FieldIsInt
<1>9. ASSUME d # 0 PROVE Same(v * d, n)
  <2>1. Same(v * d, (n * e) * d)
    BY <1>2, <1>7, SameRefl, SameArithmetic
  <2>2. d * e \in Int /\ Same(d * e, 1)
    BY <1>2, <1>4, <1>9
  <2>3. Same(n * (d * e), n)
    BY <1>2, <2>2, SameUnit
  <2>4. (n * e) * d = n * (d * e)
    BY <1>2, <1>4
  <2> QED  BY <2>1, <2>3, <2>4 DEF Same
<1> QED  BY <1>1, <1>6, <1>7, <1>8, <1>9

\* The value whose product with the denominator is the numerator is the cell's.
LEMMA StandsForOnly ==
    ASSUME NEW a, a \in Assigned, NEW v, v \in Int, Denominator(a) # 0,
           Same(v * Denominator(a), Numerator(a))
    PROVE  Evaluate(a) = v % Prime
<1>1. PICK n, d, w : n = Numerator(a) /\ d = Denominator(a) /\ w = Evaluate(a)
  OBVIOUS
<1>2. n \in Int /\ d \in Field /\ w \in Field /\ w \in Int /\ d # 0 /\ Same(w * d, n) /\ Same(v * d, n)
  BY <1>1, CellParts, StandsFor
<1>3. Same(w * d, v * d)
  BY <1>2 DEF Same
<1>4. Same(w, v)
  BY <1>2, <1>3, Cancel
<1> QED  BY <1>1, <1>2, <1>4, ElementMod DEF Same

\* The same when the parts come reduced.
LEMMA StandsForReduced ==
    ASSUME NEW a, a \in Assigned, NEW v, v \in Int, NEW n, n \in Int, NEW d, d \in Int,
           Numerator(a) = n % Prime, Denominator(a) = d % Prime, d % Prime # 0, Same(v * d, n)
    PROVE  Evaluate(a) = v % Prime
<1>1. PICK r, e : r = n % Prime /\ e = d % Prime
  OBVIOUS
<1>2. r \in Int /\ e \in Int /\ Same(r, n) /\ Same(e, d)
  BY <1>1, Remainder
<1>3. Same(v * e, v * d)
  BY <1>2, SameTimes
<1>4. Same(v * e, r)
  BY <1>2, <1>3 DEF Same
<1> QED  BY <1>1, <1>4, StandsForOnly

\* It stands for zero exactly when it is one of the forms of zero.
LEMMA StandsForZero ==
    ASSUME NEW a, a \in Assigned
    PROVE  IsZero(a) <=> Evaluate(a) = 0
<1>1. PICK n, d, w : n = Numerator(a) /\ d = Denominator(a) /\ w = Evaluate(a)
  OBVIOUS
<1>2. /\ n \in Int /\ n \in Field /\ d \in Field /\ d \in Int /\ w \in Field /\ w \in Int
      /\ d = 0 => w = 0
      /\ d # 0 => Same(w * d, n)
  BY <1>1, CellParts, StandsFor
<1>3. 0 % Prime = 0 /\ 0 \in Field /\ 0 * d = 0 /\ n % Prime = n
  BY <1>2, ElementMod, FieldIsInt
<1>4. ASSUME d # 0, n = 0 PROVE w = 0
  <2>1. Same(w * d, 0)
    BY <1>2, <1>4
  <2> QED  BY <1>2, <1>4, <2>1, NoZeroDivisors
<1>5. ASSUME d # 0, w = 0 PROVE n = 0
  BY <1>2, <1>3, <1>5 DEF Same
<1> QED  BY <1>1, <1>2, <1>4, <1>5 DEF IsZero

\* An integer's element.
Reduced(n) == n % Prime

\* A fraction built from two cells, or a plain element when neither is one.
LEMMA FractionIs ==
    ASSUME NEW a, NEW b, NEW n, n \in Int, NEW d, d \in Int,
           IsRational(a) \/ IsRational(b) \/ d = 1
    PROVE  /\ Fraction(a, b, n, d) \in Assigned
           /\ Numerator(Fraction(a, b, n, d)) = Reduced(n)
           /\ Denominator(Fraction(a, b, n, d)) = Reduced(d)
<1> USE DEF Reduced
<1>1. PICK x, y : x = n % Prime /\ y = d % Prime
  OBVIOUS
<1>2. x \in Field /\ y \in Field
  BY <1>1, Remainder
<1>3. "zero" # "trivial" /\ "zero" # "rational" /\ "trivial" # "rational"
  OBVIOUS
<1>4. CASE IsRational(a) \/ IsRational(b)
  <2>1. PICK f : f = Rational(x, y)
    OBVIOUS
  <2>2. Fraction(a, b, n, d) = f
    BY <1>1, <1>4, <2>1 DEF Fraction
  <2>3. f # Zero /\ IsRational(f) /\ f[2] = x /\ f[3] = y /\ f \in Assigned
    BY <1>2, <1>3, <2>1 DEF Rational, Zero, IsRational, Assigned
  <2> QED  BY <1>1, <2>2, <2>3 DEF Numerator, Denominator
<1>5. CASE ~ (IsRational(a) \/ IsRational(b))
  <2>1. PICK f : f = Trivial(x)
    OBVIOUS
  <2>2. Fraction(a, b, n, d) = f
    BY <1>1, <1>5, <2>1 DEF Fraction
  <2>3. f # Zero /\ ~ IsRational(f) /\ f[2] = x /\ f \in Assigned
    BY <1>2, <1>3, <2>1 DEF Trivial, Zero, IsRational, Assigned
  <2>4. y = 1
    BY <1>1, <1>5, ElementMod, FieldIsInt
  <2> QED  BY <1>1, <2>2, <2>3, <2>4 DEF Numerator, Denominator
<1> QED  BY <1>4, <1>5

\* The parts of two operands, named.
Operands(a, b, v, w, na, da, nb, db) ==
    /\ na \in Int /\ nb \in Int /\ da \in Field /\ db \in Field /\ da \in Int /\ db \in Int
    /\ v \in Field /\ w \in Field /\ v \in Int /\ w \in Int
    /\ na = Numerator(a) /\ nb = Numerator(b) /\ da = Denominator(a) /\ db = Denominator(b)
    /\ v = Evaluate(a) /\ w = Evaluate(b)
    /\ (da = 0 => v = 0) /\ (db = 0 => w = 0)
    /\ (da # 0 => Same(v * da, na)) /\ (db # 0 => Same(w * db, nb))
    /\ (~ IsRational(a) => da = 1) /\ (~ IsRational(b) => db = 1)
    /\ (a = Zero => v = 0) /\ (b = Zero => w = 0)

\* What the arithmetic's proofs use of their two operands.
LEMMA OperandsExist ==
    ASSUME NEW a, a \in Assigned, NEW b, b \in Assigned
    PROVE  \E v, w, na, da, nb, db : Operands(a, b, v, w, na, da, nb, db)
<1>1. Evaluate(a) = 0 \/ a # Zero
  <2>1. a = Zero => IsZero(a)
    BY CellParts DEF IsZero
  <2> QED  BY <2>1, StandsForZero
<1>2. Evaluate(b) = 0 \/ b # Zero
  <2>1. b = Zero => IsZero(b)
    BY CellParts DEF IsZero
  <2> QED  BY <2>1, StandsForZero
<1>3. Operands(a, b, Evaluate(a), Evaluate(b), Numerator(a), Denominator(a),
               Numerator(b), Denominator(b))
  BY <1>1, <1>2, CellParts, StandsFor DEF Operands
<1> QED  BY <1>3

\* A sum stands for the sum.
LEMMA AddStandsFor ==
    ASSUME NEW a, a \in Assigned, NEW b, b \in Assigned
    PROVE  Add(a, b) \in Assigned /\ Evaluate(Add(a, b)) = (Evaluate(a) + Evaluate(b)) % Prime
<1>1. PICK v, w, na, da, nb, db : Operands(a, b, v, w, na, da, nb, db)
  BY OperandsExist
<1>2. 0 + w = w /\ v + 0 = v /\ w % Prime = w /\ v % Prime = v
  BY <1>1, ElementMod DEF Operands
<1>3. CASE a = Zero \/ (b # Zero /\ da = 0)
  <2>1. Add(a, b) = b
    BY <1>1, <1>3 DEF Add, Operands
  <2>2. v = 0
    BY <1>1, <1>3 DEF Operands
  <2>3. (v + w) % Prime = w
    BY <1>2, <2>2
  <2> QED  BY <1>1, <2>1, <2>3 DEF Operands
<1>4. CASE ~ (a = Zero \/ (b # Zero /\ da = 0)) /\ (b = Zero \/ db = 0)
  <2>1. Add(a, b) = a
    BY <1>1, <1>4 DEF Add, Operands
  <2>2. w = 0
    BY <1>1, <1>4 DEF Operands
  <2>3. (v + w) % Prime = v
    BY <1>2, <2>2
  <2> QED  BY <1>1, <2>1, <2>3 DEF Operands
<1>5. CASE a # Zero /\ b # Zero /\ da # 0 /\ db # 0
  <2>0. v \in Int /\ w \in Int /\ na \in Int /\ nb \in Int /\ da \in Int /\ db \in Int
    BY <1>1 DEF Operands
  <2>1. PICK n, d : n = na * db + da * nb /\ d = da * db
    OBVIOUS
  <2>2. n \in Int /\ d \in Int /\ v + w \in Int
    BY ONLY <2>0, <2>1
  <2>3. Add(a, b) = Fraction(a, b, n, d)
    BY <1>1, <1>5, <2>1 DEF Add, Operands
  <2>4. IsRational(a) \/ IsRational(b) \/ d = 1
    BY <1>1, <2>1 DEF Operands
  <2>5. PICK f : f = Fraction(a, b, n, d)
    OBVIOUS
  <2>6. f \in Assigned /\ Numerator(f) = n % Prime /\ Denominator(f) = d % Prime
    <3>1. n \in Int /\ d \in Int
      BY <2>2
    <3>2. f \in Assigned /\ Numerator(f) = Reduced(n) /\ Denominator(f) = Reduced(d)
      BY <3>1, <2>4, <2>5, FractionIs
    <3> QED  BY <3>2 DEF Reduced
  <2>7. d % Prime # 0
    BY <1>1, <1>5, <2>1, ProductNonzero DEF Operands
  <2>8. Same((v + w) * d, n)
    <3>1. PICK p, q : p = v * da /\ q = w * db
      OBVIOUS
    <3>2. p \in Int /\ q \in Int /\ Same(p, na) /\ Same(q, nb)
      BY <1>1, <1>5, <2>0, <3>1 DEF Operands
    <3>3. Same(p * db, na * db) /\ Same(da * q, da * nb)
      BY <2>0, <3>2, SameTimes
    <3>4. p * db \in Int /\ na * db \in Int /\ da * q \in Int /\ da * nb \in Int
      BY <2>0, <3>2
    <3>5. Same((p * db) + (da * q), (na * db) + (da * nb))
      BY <3>3, <3>4, SameArithmetic
    <3>6. (p * db) + (da * q) = (v + w) * d
      BY ONLY <2>0, <2>1, <3>1
    <3> QED  BY <2>1, <3>5, <3>6
  <2>9. Evaluate(f) = (v + w) % Prime
    BY <2>2, <2>6, <2>7, <2>8, StandsForReduced
  <2> QED  BY <1>1, <2>3, <2>5, <2>6, <2>9 DEF Operands
<1> QED  BY <1>3, <1>4, <1>5

\* A cell with another numerator.
LEMMA NumeratorSet ==
    ASSUME NEW a, a \in Assigned, a # Zero, NEW r, r \in Field
    PROVE  /\ [a EXCEPT ![2] = r] \in Assigned /\ a[2] = Numerator(a)
           /\ Numerator([a EXCEPT ![2] = r]) = r
           /\ Denominator([a EXCEPT ![2] = r]) = Denominator(a)
<1> DEFINE f == [a EXCEPT ![2] = r]
<1>1. (\E x \in Field : a = Trivial(x)) \/ (\E n, d \in Field : a = Rational(n, d))
  BY DEF Assigned
<1>2. "zero" # "trivial" /\ "zero" # "rational" /\ "trivial" # "rational"
  OBVIOUS
<1>3. CASE \E x \in Field : a = Trivial(x)
  <2>1. PICK x \in Field : a = Trivial(x)
    BY <1>3
  <2>2. a[2] = x /\ ~ IsRational(a) /\ Numerator(a) = x /\ Denominator(a) = 1
    BY <1>2, <2>1 DEF Trivial, IsRational, Numerator, Denominator, Zero
  <2>3. f = Trivial(r)
    BY <2>1, <2>2 DEF Trivial
  <2>4. PICK g : g = Trivial(r)
    OBVIOUS
  <2>5. g \in Assigned /\ g # Zero /\ ~ IsRational(g) /\ g[2] = r
    BY <1>2, <2>4 DEF Trivial, Assigned, IsRational, Zero
  <2> QED  BY <2>2, <2>3, <2>4, <2>5 DEF Numerator, Denominator
<1>4. CASE \E n, d \in Field : a = Rational(n, d)
  <2>1. PICK n, d \in Field : a = Rational(n, d)
    BY <1>4
  <2>2. a[2] = n /\ a[3] = d /\ IsRational(a) /\ Numerator(a) = n /\ Denominator(a) = d
    BY <1>2, <2>1 DEF Rational, IsRational, Numerator, Denominator, Zero
  <2>3. f = Rational(r, d)
    BY <2>1, <2>2 DEF Rational
  <2>4. PICK g : g = Rational(r, d)
    OBVIOUS
  <2>5. g \in Assigned /\ g # Zero /\ IsRational(g) /\ g[2] = r /\ g[3] = d
    BY <1>2, <2>4 DEF Rational, Assigned, IsRational, Zero
  <2> QED  BY <2>2, <2>3, <2>4, <2>5 DEF Numerator, Denominator
<1> QED  BY <1>1, <1>3, <1>4

\* A numerator times k stands for the value times k.
LEMMA NumeratorTimes ==
    ASSUME NEW a, a \in Assigned, a # Zero, NEW k, k \in Int, NEW r, r = Reduced(k * Numerator(a)),
           NEW f, f = [a EXCEPT ![2] = r]
    PROVE  f \in Assigned /\ Evaluate(f) = Reduced(k * Evaluate(a))
<1>1. PICK v, w, na, da, nb, db : Operands(a, a, v, w, na, da, nb, db)
  BY OperandsExist
<1>2. v \in Int /\ na \in Int /\ da \in Int /\ da \in Field
  BY <1>1 DEF Operands
<1>3. k * na \in Int /\ k * v \in Int /\ k * 0 = 0 /\ 0 % Prime = 0
  BY <1>2, ElementMod, FieldIsInt
<1>4. r = (k * na) % Prime
  BY <1>1 DEF Operands, Reduced
<1>5. r \in Field
  BY <1>3, <1>4, Remainder
<1>8. f \in Assigned /\ Numerator(f) = r /\ Denominator(f) = da
  BY <1>1, <1>5, NumeratorSet DEF Operands
<1>9. CASE da = 0
  <2>1. Evaluate(f) = 0
    BY <1>8, <1>9, StandsFor
  <2>2. v = 0
    BY <1>1, <1>9 DEF Operands
  <2>3. Reduced(k * v) = 0
    BY <1>3, <2>2 DEF Reduced
  <2> QED  BY <1>1, <1>8, <2>1, <2>3 DEF Operands
<1>10. CASE da # 0
  <2>1. Same(v * da, na)
    BY <1>1, <1>10 DEF Operands
  <2>2. PICK p : p = v * da
    OBVIOUS
  <2>3. p \in Int /\ Same(p, na)
    BY <1>2, <2>1, <2>2
  <2>4. Same(k * p, k * na)
    BY <1>2, <2>3, SameTimes
  <2>5. k * p = (k * v) * da
    BY <1>2, <2>2
  <2>6. Same((k * v) * da, k * na)
    BY <2>4, <2>5
  <2>7. da % Prime = da
    BY <1>2, ElementMod
  <2>8. Evaluate(f) = (k * v) % Prime
    BY <1>2, <1>3, <1>4, <1>8, <1>10, <2>6, <2>7, StandsForReduced
  <2> QED  BY <1>1, <1>8, <2>8 DEF Operands, Reduced
<1> QED  BY <1>9, <1>10

\* Assigned::Zero is a cell and stands for zero.
LEMMA ZeroStandsForZero ==
    Zero \in Assigned /\ Evaluate(Zero) = 0
<1>1. Zero \in Assigned
  BY DEF Assigned
<1>2. IsZero(Zero)
  BY <1>1, CellParts DEF IsZero
<1> QED  BY <1>1, <1>2, StandsForZero

\* A negated cell stands for the negation.
LEMMA NegStandsFor ==
    ASSUME NEW a, a \in Assigned
    PROVE  Neg(a) \in Assigned /\ Same(Evaluate(Neg(a)), 0 - Evaluate(a))
<1>1. CASE a = Zero
  BY <1>1, ZeroStandsForZero, SameRefl DEF Neg
<1>2. CASE a # Zero
  <2>1. PICK n, v : n = Numerator(a) /\ v = Evaluate(a)
    OBVIOUS
  <2>2. n \in Int /\ v \in Int /\ a[2] = n
    BY <1>2, <2>1, CellParts, StandsFor, NumeratorSet, FieldIsInt
  <2>3. PICK r : r = Reduced((0 - 1) * n)
    OBVIOUS
  <2>4. (0 - 1) * n = -n /\ (0 - 1) * v = 0 - v /\ 0 - 1 \in Int /\ 0 - v \in Int
    BY <2>2
  <2>5. Neg(a) = [a EXCEPT ![2] = r]
    BY <1>2, <2>2, <2>3, <2>4 DEF Neg, Reduced
  <2>6. Neg(a) \in Assigned /\ Evaluate(Neg(a)) = Reduced((0 - 1) * v)
    <3>1. PICK k : k = 0 - 1
      OBVIOUS
    <3>2. k \in Int /\ r = Reduced(k * Numerator(a))
      BY <2>1, <2>3, <2>4, <3>1
    <3>3. Neg(a) \in Assigned /\ Evaluate(Neg(a)) = Reduced(k * Evaluate(a))
      BY <1>2, <2>5, <3>2, NumeratorTimes
    <3> QED  BY <2>1, <3>1, <3>3
  <2>7. Same(Reduced((0 - 1) * v), 0 - v)
    BY <2>4, Remainder DEF Reduced
  <2> QED  BY <2>1, <2>6, <2>7
<1> QED  BY <1>1, <1>2

\* A doubled cell stands for the double.
LEMMA DoubleStandsFor ==
    ASSUME NEW a, a \in Assigned
    PROVE  Double(a) \in Assigned /\ Evaluate(Double(a)) = Reduced(2 * Evaluate(a))
<1>1. CASE a = Zero
  <2>1. Reduced(2 * 0) = 0
    BY ElementMod, FieldIsInt DEF Reduced
  <2> QED  BY <1>1, <2>1, ZeroStandsForZero DEF Double
<1>2. CASE a # Zero
  <2>1. PICK n : n = Numerator(a)
    OBVIOUS
  <2>2. n \in Int /\ a[2] = n
    BY <1>2, <2>1, CellParts, NumeratorSet, FieldIsInt
  <2>3. PICK r : r = Reduced(2 * n)
    OBVIOUS
  <2>4. Double(a) = [a EXCEPT ![2] = r]
    BY <1>2, <2>2, <2>3 DEF Double, Reduced
  <2>5. PICK k : k = 2
    OBVIOUS
  <2>6. k \in Int /\ r = Reduced(k * Numerator(a))
    BY <2>1, <2>3, <2>5
  <2>7. Double(a) \in Assigned /\ Evaluate(Double(a)) = Reduced(k * Evaluate(a))
    BY <1>2, <2>4, <2>6, NumeratorTimes
  <2> QED  BY <2>5, <2>7
<1> QED  BY <1>1, <1>2

\* A difference of cells stands for the difference.
LEMMA SubStandsFor ==
    ASSUME NEW a, a \in Assigned, NEW b, b \in Assigned
    PROVE  Sub(a, b) \in Assigned /\ Evaluate(Sub(a, b)) = Reduced(Evaluate(a) - Evaluate(b))
<1>1. PICK v, w, x : v = Evaluate(a) /\ w = Evaluate(b) /\ x = Evaluate(Neg(b))
  OBVIOUS
<1>2. Neg(b) \in Assigned /\ v \in Int /\ w \in Int /\ x \in Int /\ Same(x, 0 - w)
  BY <1>1, NegStandsFor, StandsFor
<1>3. Sub(a, b) \in Assigned /\ Evaluate(Sub(a, b)) = Reduced(v + x)
  BY <1>1, <1>2, AddStandsFor DEF Sub, Reduced
<1>4. 0 - w \in Int /\ v + (0 - w) = v - w
  BY <1>2
<1>5. Same(v + x, v + (0 - w))
  BY <1>2, <1>4, SameRefl, SameArithmetic
<1> QED  BY <1>1, <1>3, <1>4, <1>5 DEF Same, Reduced

\* A product stands for the product.
LEMMA MulStandsFor ==
    ASSUME NEW a, a \in Assigned, NEW b, b \in Assigned
    PROVE  Mul(a, b) \in Assigned /\ Evaluate(Mul(a, b)) = Reduced(Evaluate(a) * Evaluate(b))
<1>1. PICK v, w, na, da, nb, db : Operands(a, b, v, w, na, da, nb, db)
  BY OperandsExist
<1>2. v \in Int /\ w \in Int /\ na \in Int /\ nb \in Int /\ da \in Int /\ db \in Int
  BY <1>1 DEF Operands
<1>3. ASSUME v = 0 \/ w = 0 PROVE Reduced(v * w) = 0
  <2>1. v * w = 0
    BY <1>2, <1>3
  <2> QED  BY <2>1, ElementMod, FieldIsInt DEF Reduced
<1>4. CASE a = Zero \/ b = Zero
  <2>1. Mul(a, b) = Zero /\ (v = 0 \/ w = 0)
    BY <1>1, <1>4 DEF Mul, Operands
  <2> QED  BY <1>1, <1>3, <2>1, ZeroStandsForZero DEF Operands
<1>5. CASE a # Zero /\ b # Zero
  <2>1. PICK n, d : n = na * nb /\ d = da * db
    OBVIOUS
  <2>2. n \in Int /\ d \in Int /\ v * w \in Int
    BY ONLY <1>2, <2>1
  <2>3. Mul(a, b) = Fraction(a, b, n, d)
    BY <1>1, <1>5, <2>1 DEF Mul, Operands
  <2>4. IsRational(a) \/ IsRational(b) \/ d = 1
    BY <1>1, <2>1 DEF Operands
  <2>5. PICK f : f = Fraction(a, b, n, d)
    OBVIOUS
  <2>6. f \in Assigned /\ Numerator(f) = Reduced(n) /\ Denominator(f) = Reduced(d)
    <3>1. n \in Int /\ d \in Int
      BY <2>2
    <3> QED  BY <3>1, <2>4, <2>5, FractionIs
  <2>7. CASE da = 0 \/ db = 0
    <3>1. d = 0
      BY <1>2, <2>1, <2>7
    <3>2. Reduced(d) = 0
      BY <3>1, ElementMod, FieldIsInt DEF Reduced
    <3>3. v = 0 \/ w = 0
      BY <1>1, <2>7 DEF Operands
    <3> QED  BY <1>1, <1>3, <2>3, <2>5, <2>6, <3>2, <3>3, StandsFor DEF Operands
  <2>8. CASE da # 0 /\ db # 0
    <3>1. PICK p, q : p = v * da /\ q = w * db
      OBVIOUS
    <3>2. p \in Int /\ q \in Int
      BY <1>2, <3>1
    <3>3. Same(p, na) /\ Same(q, nb)
      BY <1>1, <2>8, <3>1 DEF Operands
    <3>4. Same(p * q, na * nb)
      BY <1>2, <3>2, <3>3, SameArithmetic
    <3>5. p * q = (v * w) * d
      BY ONLY <1>2, <2>1, <3>1
    <3>6. Same((v * w) * d, n)
      BY <2>1, <3>4, <3>5
    <3>7. d % Prime # 0
      BY <1>1, <2>1, <2>8, ProductNonzero DEF Operands
    <3>8. Evaluate(f) = (v * w) % Prime
      BY <2>2, <2>6, <3>6, <3>7, StandsForReduced DEF Reduced
    <3> QED  BY <1>1, <2>3, <2>5, <2>6, <3>8 DEF Operands, Reduced
  <2> QED  BY <2>7, <2>8
<1> QED  BY <1>4, <1>5

\* A cubed cell stands for the cube.
LEMMA CubeStandsFor ==
    ASSUME NEW a, a \in Assigned
    PROVE  /\ Cube(a) \in Assigned
           /\ Evaluate(Cube(a)) = Reduced(Evaluate(a) * Evaluate(a) * Evaluate(a))
<1>1. PICK v, s : v = Evaluate(a) /\ s = Mul(a, a)
  OBVIOUS
<1>2. v \in Int /\ v * v \in Int /\ s \in Assigned /\ Evaluate(s) = Reduced(v * v)
  BY <1>1, StandsFor, MulStandsFor
<1>3. PICK u : u = Evaluate(s)
  OBVIOUS
<1>4. u \in Int /\ Same(u, v * v)
  BY <1>2, <1>3, Remainder DEF Reduced
<1>5. Cube(a) = Mul(s, a)
  BY <1>1 DEF Cube, Square
<1>6. Cube(a) \in Assigned /\ Evaluate(Cube(a)) = Reduced(u * v)
  BY <1>1, <1>2, <1>3, <1>5, MulStandsFor
<1>7. Same(u * v, (v * v) * v)
  BY <1>2, <1>4, SameTimes
<1> QED  BY <1>1, <1>6, <1>7 DEF Same, Reduced

\* The inverse stands for the inverse, zero for zero's.
LEMMA InvertStandsFor ==
    ASSUME NEW a, a \in Assigned
    PROVE  Invert(a) \in Assigned /\ Evaluate(Invert(a)) = FieldInverse[Evaluate(a)]
<1>1. CASE a = Zero
  BY <1>1, ZeroStandsForZero, InverseIs, FieldIsInt DEF Invert
<1>2. CASE a # Zero
  <2>1. PICK n, d, v : n = Numerator(a) /\ d = Denominator(a) /\ v = Evaluate(a)
    OBVIOUS
  <2>2. n \in Field /\ d \in Field /\ v \in Field /\ n \in Int /\ d \in Int /\ v \in Int
    BY <2>1, CellParts, StandsFor
  <2>3. PICK f : f = Rational(d, n)
    OBVIOUS
  <2>4. Invert(a) = f
    BY <1>2, <2>1, <2>3 DEF Invert
  <2>5. f \in Assigned /\ Numerator(f) = d /\ Denominator(f) = n
    <3>1. "zero" # "rational"
      OBVIOUS
    <3> QED  BY <2>2, <2>3, <3>1 DEF Rational, Assigned, Numerator, Denominator, IsRational, Zero
  <2>6. PICK w : w = Evaluate(f)
    OBVIOUS
  <2>7. CASE n = 0 \/ d = 0
    <3>1. IsZero(a) /\ IsZero(f)
      BY <2>1, <2>5, <2>7 DEF IsZero
    <3>2. v = 0 /\ w = 0
      BY <2>1, <2>5, <2>6, <3>1, StandsForZero
    <3>3. FieldInverse[v] = 0
      BY <2>2, <3>2, InverseIs
    <3> QED  BY <2>1, <2>4, <2>5, <2>6, <3>2, <3>3
  <2>8. CASE n # 0 /\ d # 0
    <3>1. w \in Field /\ w \in Int /\ Same(w * n, d) /\ Same(v * d, n)
      BY <2>1, <2>5, <2>6, <2>8, StandsFor
    <3>2. PICK p : p = w * n
      OBVIOUS
    <3>3. p \in Int /\ p * v \in Int /\ v * d \in Int /\ v * w \in Int
      BY <2>2, <3>1, <3>2
    <3>4. Same(v * p, v * d)
      BY <2>2, <3>1, <3>2, <3>3, SameTimes
    <3>5. Same(v * p, 1 * n)
      BY <2>2, <3>1, <3>4 DEF Same
    <3>6. v * p = (v * w) * n
      BY <2>2, <3>1, <3>2
    <3>7. Same((v * w) * n, 1 * n)
      BY <3>5, <3>6
    <3>8. Same(v * w, 1)
      BY <2>2, <2>8, <3>3, <3>7, Cancel
    <3>9. w = FieldInverse[v]
      BY <2>2, <3>1, <3>8, InverseUnique
    <3> QED  BY <2>1, <2>4, <2>5, <2>6, <3>9
  <2> QED  BY <2>7, <2>8
<1> QED  BY <1>1, <1>2

\* Equality by cross-multiplication is equality of what the cells stand for.
LEMMA EqualStandsFor ==
    ASSUME NEW a, a \in Assigned, NEW b, b \in Assigned
    PROVE  Equal(a, b) <=> Evaluate(a) = Evaluate(b)
<1>1. PICK v, w, na, da, nb, db : Operands(a, b, v, w, na, da, nb, db)
  BY OperandsExist
<1>2. v \in Int /\ w \in Int /\ na \in Int /\ nb \in Int /\ da \in Int /\ db \in Int
  BY <1>1 DEF Operands
<1>3. (IsZero(a) <=> v = 0) /\ (IsZero(b) <=> w = 0)
  BY <1>1, StandsForZero DEF Operands
<1>4. CASE v = 0 \/ w = 0
  <2>1. Equal(a, b) <=> v = 0 /\ w = 0
    BY <1>3, <1>4 DEF Equal
  <2> QED  BY <1>1, <1>4, <2>1 DEF Operands
<1>5. CASE v # 0 /\ w # 0
  <2>1. Equal(a, b) <=> Same(na * db, da * nb)
    BY <1>1, <1>3, <1>5 DEF Equal, Same, Operands
  <2>2. da # 0 /\ db # 0 /\ da \in Field /\ db \in Field
    BY <1>1, <1>5 DEF Operands
  <2>3. PICK p, q : p = v * da /\ q = w * db
    OBVIOUS
  <2>4. p \in Int /\ q \in Int
    BY <1>2, <2>3
  <2>5. Same(p, na) /\ Same(q, nb)
    BY <1>1, <2>2, <2>3 DEF Operands
  <2>6. Same(p * db, na * db) /\ Same(da * q, da * nb)
    BY <1>2, <2>4, <2>5, SameTimes
  <2>7. Equal(a, b) <=> Same(p * db, da * q)
    BY <2>1, <2>6 DEF Same
  <2>8. p * db = (v * da) * db /\ da * q = (w * da) * db
    BY ONLY <1>2, <2>3
  <2>9. v * da \in Int /\ w * da \in Int
    BY <1>2
  <2>10. ASSUME Same(p * db, da * q) PROVE v = w
    <3>1. Same((v * da) * db, (w * da) * db)
      BY <2>8, <2>10
    <3>2. Same(v * da, w * da)
      BY <2>2, <2>9, <3>1, Cancel
    <3>3. Same(v, w)
      BY <1>2, <2>2, <3>2, Cancel
    <3> QED  BY <1>1, <3>3, SameElement DEF Operands
  <2>11. ASSUME v = w PROVE Same(p * db, da * q)
    BY <2>8, <2>11, SameRefl
  <2> QED  BY <1>1, <2>7, <2>10, <2>11 DEF Operands
<1> QED  BY <1>4, <1>5

(* ------------------------------- batch inversion ---------------------------- *)

\* The index of a listed element.
LEMMA IndexOfListed ==
    ASSUME NEW T, NEW s, Enumerates(s, T), NEW x, x \in T
    PROVE  IndexIn(s, x) \in 1..Len(s) /\ s[IndexIn(s, x)] = x
<1>1. s \in Seq(T) /\ DOMAIN s = 1..Len(s) /\ Range(s) = T
  BY DEF Enumerates
<1>2. \E k \in DOMAIN s : s[k] = x
  BY <1>1 DEF Range
<1> QED  BY <1>1, <1>2 DEF IndexIn

\* The prefix products of nonzero elements are nonzero.
LEMMA ProductsAre ==
    ASSUME NEW n, n \in Nat, NEW s, s \in [1..n -> Field \ {0}], Len(s) = n
    PROVE  /\ Products(s)[0] = 1
           /\ \A i \in 0..n : Products(s)[i] \in Field /\ Products(s)[i] # 0
           /\ \A i \in 1..n : Products(s)[i] = (Products(s)[i - 1] * s[i]) % Prime
<1> DEFINE IsProduct(f) == f = [i \in 0..n |-> IF i = 0 THEN 1 ELSE (f[i - 1] * s[i]) % Prime]
           product == CHOOSE f : IsProduct(f)
<1>1. PICK step : step = [p \in Nat \X Field |-> IF p[1] + 1 <= n THEN (p[2] * s[p[1] + 1]) % Prime ELSE p[2]]
  OBVIOUS
<1>2. ASSUME NEW i \in Nat, NEW x \in Field
      PROVE  /\ i + 1 <= n => step[<<i, x>>] = (x * s[i + 1]) % Prime
             /\ step[<<i, x>>] \in Field
  <2>1. <<i, x>> \in Nat \X Field /\ <<i, x>>[1] = i /\ <<i, x>>[2] = x
    OBVIOUS
  <2>2. step[<<i, x>>] = IF i + 1 <= n THEN (x * s[i + 1]) % Prime ELSE x
    BY <1>1, <2>1
  <2>3. CASE i + 1 <= n
    <3>1. PICK y : y = s[i + 1]
      OBVIOUS
    <3>2. i + 1 \in 1..n
      BY <2>3
    <3>3. y \in Int /\ x \in Int
      BY <3>1, <3>2, FieldIsInt
    <3>4. x * y \in Int
      BY <3>3
    <3> QED  BY <2>2, <2>3, <3>1, <3>4, Remainder
  <2>4. CASE ~ (i + 1 <= n)
    BY <2>2, <2>4
  <2> QED  BY <2>3, <2>4
<1>3. step \in [Nat \X Field -> Field]
  <2>1. \A p \in Nat \X Field : p = <<p[1], p[2]>> /\ p[1] \in Nat /\ p[2] \in Field
    OBVIOUS
  <2>2. \A p \in Nat \X Field : step[p] \in Field
    BY <1>2, <2>1
  <2>3. DOMAIN step = Nat \X Field /\ step = [p \in Nat \X Field |-> step[p]]
    BY <1>1
  <2> QED  BY <2>2, <2>3
<1>4. PICK f : IsRun(f, Field, 1, step, n)
  BY <1>3, FieldIsInt, RunExists
<1>5. /\ f \in [0..n -> Field] /\ f[0] = 1
      /\ \A i \in 0..(n - 1) : f[i + 1] = step[<<i, f[i]>>]
  BY <1>4 DEF IsRun
<1>6. ASSUME NEW i \in 1..n PROVE f[i] = (f[i - 1] * s[i]) % Prime
  <2>1. i - 1 \in 0..(n - 1) /\ (i - 1) + 1 = i /\ i - 1 \in Nat /\ i - 1 \in 0..n /\ i <= n
    OBVIOUS
  <2>2. f[(i - 1) + 1] = step[<<i - 1, f[i - 1]>>] /\ f[i - 1] \in Field
    BY <1>5, <2>1
  <2> QED  BY <1>2, <2>1, <2>2
<1>7. IsProduct(f)
  <2>1. \A i \in 0..n : i = 0 \/ i \in 1..n
    OBVIOUS
  <2>2. \A i \in 0..n : f[i] = IF i = 0 THEN 1 ELSE (f[i - 1] * s[i]) % Prime
    BY <1>5, <1>6, <2>1
  <2>3. f = [i \in 0..n |-> f[i]]
    BY <1>5
  <2> QED  BY <2>2, <2>3
<1>8. IsProduct(product)
  BY <1>7
<1>9. Products(s) = product
  BY DEF Products
<1> HIDE DEF product
<1>10. product[0] = 1 /\ \A i \in 1..n : product[i] = (product[i - 1] * s[i]) % Prime
  <2>1. \A i \in 1..n : i \in 0..n /\ i # 0
    OBVIOUS
  <2>2. 0 \in 0..n
    OBVIOUS
  <2> QED  BY <1>8, <2>1, <2>2
<1> DEFINE G == {i \in 0..n : product[i] \in Field /\ product[i] # 0}
<1>11. 0 \in G
  BY <1>10, FieldIsInt
<1>12. ASSUME NEW i \in 0..(n - 1), i \in G PROVE i + 1 \in G
  <2>1. i + 1 \in 1..n /\ i + 1 \in 0..n /\ (i + 1) - 1 = i
    OBVIOUS
  <2>2. product[i + 1] = (product[i] * s[i + 1]) % Prime
    BY <1>10, <2>1
  <2>3. PICK x, y : x = product[i] /\ y = s[i + 1]
    OBVIOUS
  <2>4. x \in Field /\ x # 0 /\ y \in Field /\ y # 0
    BY <1>12, <2>1, <2>3
  <2>5. (x * y) % Prime # 0 /\ (x * y) % Prime \in Field
    BY <2>4, ProductNonzero
  <2> QED  BY <2>1, <2>2, <2>3, <2>5
<1> HIDE DEF G
<1>13. 0..n \subseteq G
  BY <1>11, <1>12, BoundedInduction
<1> QED  BY <1>9, <1>10, <1>13 DEF G

\* One inversion of the last product, unwound, gives each element its own inverse.
LEMMA UnwoundIs ==
    ASSUME NEW n, n \in Nat, NEW s, s \in [1..n -> Field \ {0}], Len(s) = n
    PROVE  Unwound(s) = [i \in 1..n |-> FieldInverse[s[i]]]
<1> DEFINE product == Products(s)
           IsUnwinding(f) == f = [i \in 0..n |-> IF i = n THEN FieldInverse[product[i]]
                                              ELSE (f[i + 1] * s[i + 1]) % Prime]
           suffix == CHOOSE f : IsUnwinding(f)
<1>1. /\ product[0] = 1
      /\ \A i \in 0..n : product[i] \in Field /\ product[i] # 0
      /\ \A i \in 1..n : product[i] = (product[i - 1] * s[i]) % Prime
  BY ProductsAre
<1>2. Unwound(s) = [i \in 1..n |-> (suffix[i] * product[i - 1]) % Prime]
  BY DEF Unwound
<1> HIDE DEF product
\* The inverse of each product is a suffix.
<1>3. PICK g : g = [i \in 0..n |-> FieldInverse[product[i]]]
  OBVIOUS
<1>4. ASSUME NEW i \in 0..(n - 1) PROVE g[i] = (g[i + 1] * s[i + 1]) % Prime
  <2>1. i \in 0..n /\ i + 1 \in 0..n /\ i + 1 \in 1..n /\ (i + 1) - 1 = i
    OBVIOUS
  <2>2. PICK a, b, u, v, r : a = product[i] /\ b = product[i + 1] /\ u = s[i + 1]
                          /\ v = g[i + 1] /\ r = (v * u) % Prime
    OBVIOUS
  <2>3. /\ a \in Field /\ a # 0 /\ b \in Field /\ b # 0 /\ u \in Field /\ u # 0
        /\ v = FieldInverse[b] /\ b = (a * u) % Prime
    BY <1>1, <1>3, <2>1, <2>2
  <2>4. a \in Int /\ b \in Int /\ u \in Int /\ v \in Int /\ v \in Field /\ Same(b * v, 1)
    BY <2>3, InverseIs, FieldIsInt
  <2>5. PICK p, q : p = a * u /\ q = v * u
    OBVIOUS
  <2>6. p \in Int /\ q \in Int
    BY <2>4, <2>5
  <2>7. Same(b, p) /\ Same(r, q) /\ r \in Field /\ r \in Int
    BY <2>2, <2>3, <2>5, <2>6, Remainder
  <2>8. Same(b * v, p * v) /\ Same(a * r, a * q)
    BY <2>4, <2>6, <2>7, SameTimes
  <2>9. p * v = a * q
    BY ONLY <2>4, <2>5
  <2>10. Same(a * r, 1)
    BY <2>4, <2>8, <2>9 DEF Same
  <2>11. r = FieldInverse[a]
    BY <2>3, <2>7, <2>10, InverseUnique
  <2> QED  BY <1>3, <2>1, <2>2, <2>11
<1>5. IsUnwinding(g)
  <2>1. \A i \in 0..n : i # n => i \in 0..(n - 1)
    OBVIOUS
  <2>2. \A i \in 0..n : g[i] = IF i = n THEN FieldInverse[product[i]] ELSE (g[i + 1] * s[i + 1]) % Prime
    BY <1>3, <1>4, <2>1
  <2>3. g = [i \in 0..n |-> g[i]]
    BY <1>3
  <2> QED  BY <2>2, <2>3
<1>6. IsUnwinding(suffix)
  BY <1>5
<1> HIDE DEF suffix
<1>7. /\ suffix[n] = FieldInverse[product[n]]
      /\ \A i \in 0..(n - 1) : suffix[i] = (suffix[i + 1] * s[i + 1]) % Prime
  <2>1. \A i \in 0..(n - 1) : i \in 0..n /\ i # n
    OBVIOUS
  <2>2. n \in 0..n
    OBVIOUS
  <2> QED  BY <1>6, <2>1, <2>2
\* Both recursions run downwards from the last place.
<1> DEFINE G == {j \in 0..n : suffix[n - j] = g[n - j]}
<1>8. 0 \in G
  <2>1. n - 0 = n /\ n \in 0..n /\ 0 \in 0..n
    OBVIOUS
  <2> QED  BY <1>3, <1>7, <2>1
<1>9. ASSUME NEW j \in 0..(n - 1), j \in G PROVE j + 1 \in G
  <2>1. j + 1 \in 0..n /\ n - (j + 1) \in 0..(n - 1) /\ (n - (j + 1)) + 1 = n - j
    OBVIOUS
  <2>2. PICK i : i = n - (j + 1)
    OBVIOUS
  <2>3. i \in 0..(n - 1) /\ i + 1 = n - j
    BY <2>1, <2>2
  <2>4. suffix[i + 1] = g[i + 1]
    BY <1>9, <2>3
  <2>5. suffix[i] = g[i]
    BY <1>4, <1>7, <2>3, <2>4
  <2> QED  BY <2>1, <2>2, <2>5
<1> HIDE DEF G
<1>10. 0..n \subseteq G
  BY <1>8, <1>9, BoundedInduction
<1>11. ASSUME NEW i \in 0..n PROVE suffix[i] = g[i]
  <2>1. n - i \in 0..n /\ n - (n - i) = i
    OBVIOUS
  <2> QED  BY <1>10, <2>1 DEF G
<1>12. ASSUME NEW i \in 1..n PROVE (suffix[i] * product[i - 1]) % Prime = FieldInverse[s[i]]
  <2>1. i \in 0..n /\ i - 1 \in 0..n
    OBVIOUS
  <2>2. PICK a, b, u, v, r : a = product[i - 1] /\ b = product[i] /\ u = s[i]
                          /\ v = suffix[i] /\ r = (v * a) % Prime
    OBVIOUS
  <2>3. /\ a \in Field /\ b \in Field /\ b # 0 /\ u \in Field
        /\ v = FieldInverse[b] /\ b = (a * u) % Prime
    BY <1>1, <1>3, <1>11, <2>1, <2>2
  <2>4. a \in Int /\ b \in Int /\ u \in Int /\ v \in Int /\ Same(b * v, 1)
    BY <2>3, InverseIs, FieldIsInt
  <2>5. PICK p, q : p = a * u /\ q = v * a
    OBVIOUS
  <2>6. p \in Int /\ q \in Int
    BY <2>4, <2>5
  <2>7. Same(b, p) /\ Same(r, q) /\ r \in Field /\ r \in Int
    BY <2>2, <2>3, <2>5, <2>6, Remainder
  <2>8. Same(b * v, p * v) /\ Same(u * r, u * q)
    BY <2>4, <2>6, <2>7, SameTimes
  <2>9. p * v = u * q
    BY ONLY <2>4, <2>5
  <2>10. Same(u * r, 1)
    BY <2>4, <2>8, <2>9 DEF Same
  <2> QED  BY <2>2, <2>3, <2>7, <2>10, InverseUnique
<1> QED  BY <1>2, <1>12

\* A thread of the kernel inverts its group, zeros to zero, and leaves the rest.
LEMMA KernelGroupIs ==
    ASSUME NEW n, n \in Nat, NEW values, values \in [1..n -> Field], Len(values) = n,
           NEW first, first \in Int
    PROVE  KernelGroup(values, first) =
             [i \in 1..n |-> IF i \in first..(first + PerThread - 1)
                             THEN FieldInverse[values[i]] ELSE values[i]]
<1> DEFINE window == first..(first + PerThread - 1)
           nonzero == {i \in window : i \in DOMAIN values /\ values[i] # 0}
           group == Places(nonzero, Len(values))
           gathered == [k \in DOMAIN group |-> values[group[k]]]
<1>1. DOMAIN values = 1..n
  OBVIOUS
<1>2. KernelGroup(values, first) =
        [i \in 1..n |-> IF i \in nonzero THEN Unwound(gathered)[IndexIn(group, i)] ELSE values[i]]
  BY <1>1 DEF KernelGroup
<1>3. nonzero = {i \in 1..n : i \in nonzero} /\ \A i \in nonzero : i \in 1..n /\ values[i] \in Field \ {0}
  BY <1>1
<1>4. Enumerates(group, nonzero)
  BY <1>3, PlacesList
<1> HIDE DEF group
<1>5. PICK m : m = Len(group)
  OBVIOUS
<1>6. m \in Nat /\ DOMAIN group = 1..m /\ \A k \in 1..m : group[k] \in nonzero
  <2>1. group \in Seq(nonzero)
    BY <1>4 DEF Enumerates
  <2> HIDE DEF nonzero
  <2> QED  BY <1>5, <2>1
<1> HIDE DEF nonzero
<1>7. gathered \in [1..m -> Field \ {0}] /\ Len(gathered) = m
  BY <1>3, <1>6
<1>8. Unwound(gathered) = [k \in 1..m |-> FieldInverse[gathered[k]]]
  BY <1>6, <1>7, UnwoundIs, SMTT(30)
<1>9. ASSUME NEW i \in nonzero PROVE Unwound(gathered)[IndexIn(group, i)] = FieldInverse[values[i]]
  <2>1. PICK k : k = IndexIn(group, i)
    OBVIOUS
  <2>2. k \in 1..m /\ group[k] = i
    BY <1>4, <1>5, <2>1, IndexOfListed
  <2>3. gathered[k] = values[i]
    BY <1>6, <2>2
  <2> HIDE DEF gathered
  <2> QED  BY <1>8, <2>1, <2>2, <2>3
<1> HIDE DEF gathered
<1>10. ASSUME NEW i \in 1..n
       PROVE  (IF i \in nonzero THEN Unwound(gathered)[IndexIn(group, i)] ELSE values[i])
                = IF i \in window THEN FieldInverse[values[i]] ELSE values[i]
  <2>1. CASE i \in nonzero
    <3>1. i \in window
      BY <2>1 DEF nonzero
    <3> QED  BY <1>9, <2>1, <3>1
  <2>2. CASE i \notin nonzero /\ i \in window
    <3>1. values[i] = 0
      BY <1>1, <2>2 DEF nonzero
    <3>2. FieldInverse[0] = 0
      BY InverseIs, FieldIsInt
    <3> QED  BY <2>2, <3>1, <3>2
  <2>3. CASE i \notin nonzero /\ i \notin window
    BY <2>3
  <2> QED  BY <2>1, <2>2, <2>3
<1> HIDE DEF window
<1>11. KernelGroup(values, first) =
         [i \in 1..n |-> IF i \in window THEN FieldInverse[values[i]] ELSE values[i]]
  BY <1>2, <1>10
<1> QED  BY <1>11 DEF window

\* Division without a remainder.
LEMMA ExactQuotient ==
    ASSUME NEW n \in Nat, n # 0, NEW l \in Nat, NEW m, m = l * n
    PROVE  m \div n = l
<1>1. PICK q, r : q = m \div n /\ r = m % n
  OBVIOUS
<1>2. m \in Int
  OBVIOUS
<1>3. q \in Int /\ r \in Int /\ 0 <= r /\ r < n /\ m = (n * q) + r
  BY ONLY <1>1, <1>2, n \in Nat, n # 0
<1>4. PICK d : d = l - q
  OBVIOUS
<1>5. d \in Int
  BY ONLY <1>3, <1>4, l \in Nat
<1>6. r = n * d
  BY ONLY <1>3, <1>4, m = l * n, n \in Nat, l \in Nat
<1>7. ~ d >= 1
  <2>1. d >= 1 => n * d >= n
    BY ONLY <1>5, n \in Nat
  <2> QED  BY ONLY <1>3, <1>6, <2>1, n \in Nat
<1>8. ~ d <= -1
  <2>1. d <= -1 => n * d <= 0 - n
    BY ONLY <1>5, n \in Nat
  <2> QED  BY ONLY <1>3, <1>6, <2>1, n \in Nat, n # 0
<1>9. d = 0
  BY ONLY <1>5, <1>7, <1>8
<1> QED  BY ONLY <1>1, <1>3, <1>4, <1>9, l \in Nat

\* Division rounded up.
LEMMA RoundedUp ==
    ASSUME NEW n, n \in Nat, NEW p, p \in Nat \ {0}, NEW q, q = (n + p - 1) \div p
    PROVE  q \in Nat /\ q * p >= n
<1>1. PICK a : a = n + p - 1
  OBVIOUS
<1>2. a \in Nat /\ p \in Int /\ p > 0
  BY <1>1
<1>3. PICK r : r = a % p
  OBVIOUS
<1>4. q = a \div p
  BY <1>1
<1>5. r \in 0..(p - 1) /\ q \in Int /\ a = (p * q) + r
  BY <1>2, <1>3, <1>4
<1>6. q >= 0
  <2>1. SUFFICES ASSUME q <= -1 PROVE FALSE
    BY <1>5
  <2>2. -q \in Int /\ -q >= 1
    BY <1>5, <2>1
  <2>3. p * (-q) >= p
    BY <2>2, MultipleAtLeast
  <2>4. p * (-q) = -(p * q)
    BY <1>2, <1>5
  <2> QED  BY <1>2, <1>5, <2>3, <2>4
<1>7. q * p = p * q
  BY <1>2, <1>5
<1> QED  BY <1>1, <1>2, <1>5, <1>6, <1>7

\* Thread by thread, the whole buffer is inverted, each element once.
LEMMA KernelInvertIs ==
    ASSUME NEW n, n \in Nat, NEW values, values \in [1..n -> Field], Len(values) = n
    PROVE  KernelInvert(values) = [i \in 1..n |-> FieldInverse[values[i]]]
<1> DEFINE groups == (n + PerThread - 1) \div PerThread
           IsAfter(f) == f = [t \in 0..groups |-> IF t = 0 THEN values
                                ELSE KernelGroup(f[t - 1], (t - 1) * PerThread + 1)]
           after == CHOOSE f : IsAfter(f)
<1>1. PICK p : p = PerThread
  OBVIOUS
<1>2. p \in Nat /\ p # 0 /\ p \in Int
  BY <1>1, AssignedAssumption
<1>3. groups \in Nat /\ groups * p >= n
  BY <1>1, <1>2, RoundedUp
<1>4. KernelInvert(values) = after[groups]
  BY DEF KernelInvert
<1> HIDE DEF groups
<1> DEFINE Inverted(t) == [i \in 1..n |-> IF i <= t * p THEN FieldInverse[values[i]] ELSE values[i]]
<1>5. ASSUME NEW t \in 1..groups
      PROVE  KernelGroup(Inverted(t - 1), (t - 1) * PerThread + 1) = Inverted(t)
  <2>1. PICK b : b = (t - 1) * p
    OBVIOUS
  <2>2. b \in Int /\ t * p = b + p
    BY <1>2, <1>3, <2>1
  <2>3. PICK v : v = Inverted(t - 1)
    OBVIOUS
  <2>4. v = [i \in 1..n |-> IF i <= b THEN FieldInverse[values[i]] ELSE values[i]]
    BY <2>1, <2>3
  <2>5. \A i \in 1..n : values[i] \in Field /\ FieldInverse[values[i]] \in Field
    BY InverseIs
  <2>6. v \in [1..n -> Field] /\ Len(v) = n
    BY <2>4, <2>5
  <2>7. KernelGroup(v, b + 1) = [i \in 1..n |-> IF i \in (b + 1)..((b + 1) + PerThread - 1)
                                                THEN FieldInverse[v[i]] ELSE v[i]]
    <3>1. PICK h : h = b + 1
      OBVIOUS
    <3>2. h \in Int
      BY <2>2, <3>1
    <3>3. KernelGroup(v, h) = [i \in 1..n |-> IF i \in h..(h + PerThread - 1)
                                              THEN FieldInverse[v[i]] ELSE v[i]]
      BY <2>6, <3>2, KernelGroupIs
    <3> QED  BY <3>1, <3>3
  <2>8. ASSUME NEW i \in 1..n
        PROVE  (IF i \in (b + 1)..((b + 1) + PerThread - 1) THEN FieldInverse[v[i]] ELSE v[i])
                 = IF i <= b + p THEN FieldInverse[values[i]] ELSE values[i]
    <3>1. (b + 1) + PerThread - 1 = b + p
      BY <1>1, <1>2, <2>2
    <3>2. CASE i <= b
      BY <1>2, <2>2, <2>4, <3>1, <3>2
    <3>3. CASE i > b
      BY <1>2, <2>2, <2>4, <3>1, <3>3
    <3> QED  BY <2>2, <3>2, <3>3
  <2>9. KernelGroup(v, b + 1) = [i \in 1..n |-> IF i <= b + p THEN FieldInverse[values[i]] ELSE values[i]]
    BY <2>7, <2>8
  <2>10. Inverted(t) = [i \in 1..n |-> IF i <= b + p THEN FieldInverse[values[i]] ELSE values[i]]
    BY <2>2
  <2> QED  BY <1>1, <2>1, <2>3, <2>9, <2>10
<1>6. Inverted(0) = values
  <2>1. 0 * p = 0
    BY <1>2
  <2>2. \A i \in 1..n : ~ (i <= 0)
    OBVIOUS
  <2>3. Inverted(0) = [i \in 1..n |-> values[i]]
    BY <2>1, <2>2
  <2> QED  BY <2>3
<1>7. Inverted(groups) = [i \in 1..n |-> FieldInverse[values[i]]]
  <2>1. \A i \in 1..n : i <= groups * p
    BY <1>2, <1>3
  <2> QED  BY <2>1
<1> HIDE DEF Inverted
<1>8. PICK g : g = [t \in 0..groups |-> Inverted(t)]
  OBVIOUS
<1>9. IsAfter(g)
  <2>1. \A t \in 0..groups : t = 0 \/ (t \in 1..groups /\ t - 1 \in 0..groups)
    BY <1>3
  <2>2. \A t \in 0..groups : g[t] = IF t = 0 THEN values
                               ELSE KernelGroup(g[t - 1], (t - 1) * PerThread + 1)
    BY <1>5, <1>6, <1>8, <2>1
  <2>3. g = [t \in 0..groups |-> g[t]]
    BY <1>8
  <2> QED  BY <2>2, <2>3
<1>10. IsAfter(after)
  BY <1>9
<1> HIDE DEF after
<1>11. /\ after[0] = values
       /\ \A t \in 0..(groups - 1) : after[t + 1] = KernelGroup(after[t], t * PerThread + 1)
  <2>1. \A t \in 0..(groups - 1) : t + 1 \in 0..groups /\ t + 1 # 0 /\ (t + 1) - 1 = t
    BY <1>3
  <2>2. 0 \in 0..groups
    BY <1>3
  <2> QED  BY <1>10, <2>1, <2>2
<1> DEFINE G == {t \in 0..groups : after[t] = Inverted(t)}
<1>12. 0 \in G
  BY <1>3, <1>6, <1>11
<1>13. ASSUME NEW t \in 0..(groups - 1), t \in G PROVE t + 1 \in G
  <2>1. t + 1 \in 1..groups /\ t + 1 \in 0..groups /\ (t + 1) - 1 = t
    BY <1>3
  <2>2. KernelGroup(Inverted(t), t * PerThread + 1) = Inverted(t + 1)
    BY <1>5, <2>1
  <2>3. after[t + 1] = Inverted(t + 1)
    BY <1>11, <1>13, <2>2
  <2> QED  BY <2>1, <2>3
<1> HIDE DEF G
<1>14. 0..groups \subseteq G
  BY <1>3, <1>12, <1>13, BoundedInduction
<1>15. after[groups] = Inverted(groups)
  BY <1>3, <1>14 DEF G
<1> QED  BY <1>4, <1>7, <1>15

\* The place of a column's row in a buffer of columns.
BufferPlace(c, r, n) == ((c - 1) * n) + r

\* Columns of n cells, and the buffer of their m cells.
Matrix(columns, n) == n \in Nat \ {0} /\ columns \in Seq([1..n -> Assigned])

LaidOut(flat, columns, n) ==
    /\ flat \in Seq(Assigned) /\ Len(flat) = Len(columns) * n
    /\ \A c \in 1..Len(columns), r \in 1..n : flat[BufferPlace(c, r, n)] = columns[c][r]

\* The cells of the columns one after another.
LEMMA FlatIs ==
    ASSUME NEW n, NEW columns, Matrix(columns, n)
    PROVE  LaidOut(Flat(columns), columns, n)
<1> USE DEF BufferPlace, Matrix, LaidOut
<1>1. PICK l : l = Len(columns)
  OBVIOUS
<1>2. l \in Nat /\ n \in Nat /\ \A c \in 1..l : columns[c] \in [1..n -> Assigned]
  BY <1>1
<1>3. \A c \in 1..l : columns[c] \in Seq(Assigned) /\ Len(columns[c]) = n
  BY <1>2
<1>4. columns \in Seq(Seq(Assigned))
  BY <1>1, <1>3
<1>5. Flat(columns) \in Seq(Assigned)
  BY <1>4, FlattenType DEF Flat
<1>6. CASE l = 0
  <2>1. Flat(columns) = <<>>
    BY <1>1, <1>4, <1>6, FlattenNothing DEF Flat
  <2>2. l * n = 0 /\ 1..l = {}
    BY <1>2, <1>6
  <2> QED  BY <1>1, <1>5, <2>1, <2>2
<1>7. CASE l # 0
  <2>1. PICK f : IsFlattening(f, columns, Assigned) /\ FlattenSeq(columns) = f[l]
    BY <1>1, <1>4, <1>7, FlattenSeqUnfold
  <2>2. /\ f \in [1..l -> Seq(Assigned)] /\ f[1] = columns[1]
        /\ \A i \in 1..(l - 1) : f[i + 1] = f[i] \o columns[i + 1]
    BY <1>1, <2>1 DEF IsFlattening
  <2> DEFINE Good(m) == /\ Len(f[m]) = m * n
                        /\ \A c \in 1..m, r \in 1..n : f[m][((c - 1) * n) + r] = columns[c][r]
             G == {i \in 0..(l - 1) : Good(i + 1)}
  <2>3. 0 \in G
    <3>1. 0 \in 0..(l - 1) /\ 1 \in 1..l /\ 1 * n = n
      BY <1>2, <1>7
    <3>2. \A c \in 1..1, r \in 1..n : c = 1 /\ ((c - 1) * n) + r = r
      <4>1. \A r \in 1..n : (0 * n) + r = r
        BY <1>2
      <4>2. \A c \in 1..1 : c = 1 /\ c - 1 = 0
        OBVIOUS
      <4> QED  BY <4>1, <4>2
    <3>3. Good(1)
      BY <1>3, <2>2, <3>1, <3>2
    <3> QED  BY <3>1, <3>3
  <2>4. ASSUME NEW i \in 0..((l - 1) - 1), i \in G PROVE i + 1 \in G
    <3>1. PICK m : m = i + 1
      OBVIOUS
    <3>2. m \in 1..(l - 1) /\ m \in 1..l /\ m + 1 \in 1..l /\ m \in Nat /\ m \in 0..(l - 1)
      BY <1>2, <3>1
    <3>3. PICK b : b = m * n
      OBVIOUS
    <3>4. b \in Nat /\ (m + 1) * n = b + n /\ ((m + 1) - 1) * n = b
      BY <1>2, <3>2, <3>3
    <3>5. Len(f[m]) = b /\ \A c \in 1..m, r \in 1..n : f[m][((c - 1) * n) + r] = columns[c][r]
      BY <2>4, <3>1, <3>3
    <3>6. PICK s, u, w : s = f[m] /\ u = columns[m + 1] /\ w = f[m + 1]
      OBVIOUS
    <3>7. s \in Seq(Assigned) /\ u \in Seq(Assigned) /\ Len(s) = b /\ Len(u) = n /\ w = s \o u
      BY <1>3, <2>2, <3>2, <3>5, <3>6
    <3>8. Len(w) = b + n
      BY <3>7, ConcatPlaces
    <3>9. ASSUME NEW c \in 1..m, NEW r \in 1..n PROVE w[((c - 1) * n) + r] = columns[c][r]
      <4>1. PICK k : k = ((c - 1) * n) + r
        OBVIOUS
      <4>2. k \in 1..b
        <5>1. PICK d, e : d = (c - 1) * n /\ e = (m - c) * n
          OBVIOUS
        <5>2. d \in Nat /\ e \in Nat
          BY <1>2, <3>2, <5>1
        <5>3. b = (d + e) + n
          BY <1>2, <3>2, <3>3, <5>1
        <5> QED  BY <1>2, <4>1, <5>1, <5>2, <5>3
      <4>3. w[k] = s[k]
        BY <3>7, <4>2
      <4> QED  BY <3>5, <3>6, <4>1, <4>3
    <3>10. ASSUME NEW r \in 1..n PROVE w[b + r] = columns[m + 1][r]
      <4>1. w[b + r] = u[r]
        BY <3>4, <3>7
      <4> QED  BY <3>6, <4>1
    <3>11. ASSUME NEW c \in 1..(m + 1), NEW r \in 1..n PROVE w[((c - 1) * n) + r] = columns[c][r]
      <4>1. c \in 1..m \/ c = m + 1
        BY <3>2
      <4>2. CASE c = m + 1
        BY <3>4, <3>10, <4>2
      <4> QED  BY <3>9, <4>1, <4>2
    <3>12. Good(m + 1)
      BY <3>4, <3>6, <3>8, <3>11
    <3> QED  BY <3>1, <3>2, <3>12
  <2> HIDE DEF G
  <2>5. l - 1 \in Nat
    BY <1>2, <1>7
  <2>6. 0..(l - 1) \subseteq G
    BY <2>3, <2>4, <2>5, BoundedInduction
  <2>7. l - 1 \in G /\ (l - 1) + 1 = l
    BY <1>2, <2>5, <2>6
  <2>8. Good(l)
    BY <2>7 DEF G
  <2> QED  BY <1>1, <1>5, <2>1, <2>8 DEF Flat
<1> QED  BY <1>6, <1>7

\* Each fraction's inverted denominator.
InvertedAt(inverses, cells, places) ==
    /\ Len(inverses) = Len(places)
    /\ \A k \in 1..Len(places) : inverses[k] = FieldInverse[Denominator(cells[places[k]])]

\* The chunks of the host's threads cover the fractions, each once and in order.
LEMMA ChunksInvertedIs ==
    ASSUME NEW m, m \in Nat, NEW cells, cells \in [1..m -> Assigned],
           NEW places, places \in Seq(1..m)
    PROVE  InvertedAt(ChunksInverted(cells, places), cells, places)
<1> DEFINE size == (Len(places) + Threads - 1) \div Threads
           chunk(t) == SubSeq(places, (t - 1) * size + 1,
                              IF t * size < Len(places) THEN t * size ELSE Len(places))
           part(t) == BatchInvert([k \in DOMAIN chunk(t) |-> Denominator(cells[chunk(t)[k]])])
           parts == [t \in 1..Threads |-> part(t)]
           inv == [k \in 1..Len(places) |-> FieldInverse[Denominator(cells[places[k]])]]
           End(t) == IF t * size < Len(places) THEN t * size ELSE Len(places)
<1>1. PICK l, w, z : l = Len(places) /\ w = Threads /\ z = size
  OBVIOUS
<1>2. l \in Nat /\ w \in Nat /\ w # 0 /\ z \in Nat /\ w * z >= l /\ places \in [1..l -> 1..m]
  <2>1. z * w >= l /\ z \in Nat /\ w \in Nat /\ w # 0
    BY <1>1, AssignedAssumption, RoundedUp
  <2> QED  BY <1>1, <2>1
<1>3. ChunksInverted(cells, places) = FlattenSeq(parts)
  BY DEF ChunksInverted
<1> HIDE DEF size
<1>4. ASSUME NEW t \in 1..w
      PROVE  /\ End(t - 1) \in 0..l /\ End(t) \in 0..l /\ End(t - 1) <= End(t)
             /\ chunk(t) \in Seq(1..m) /\ Len(chunk(t)) = End(t) - End(t - 1)
             /\ \A k \in 1..(End(t) - End(t - 1)) : chunk(t)[k] = places[End(t - 1) + k]
  <2>1. PICK a, b, e : a = (t - 1) * z /\ b = t * z /\ e = IF b < l THEN b ELSE l
    OBVIOUS
  <2>2. a \in Nat /\ b \in Nat /\ b = a + z
    BY <1>2, <2>1
  <2>3. e \in 0..l /\ End(t) = e /\ End(t - 1) = (IF a < l THEN a ELSE l)
    BY <1>1, <1>2, <2>1, <2>2
  <2>4. chunk(t) = SubSeq(places, a + 1, e)
    BY <1>1, <2>1
  <2> HIDE DEF chunk, End
  <2>5. CASE a < l
    <3>1. End(t - 1) = a /\ a <= e
      BY <1>2, <2>1, <2>2, <2>3, <2>5
    <3>2. /\ SubSeq(places, a + 1, e) \in Seq(1..m) /\ Len(SubSeq(places, a + 1, e)) = e - a
          /\ \A k \in 1..(e - a) : SubSeq(places, a + 1, e)[k] = places[a + k]
      <4>1. PICK s : s = SubSeq(places, a + 1, e)
        OBVIOUS
      <4>2. s = [k \in 1..(e - a) |-> places[a + k]]
        BY <1>1, <1>2, <2>2, <2>3, <3>1, <4>1
      <4>3. e - a \in Nat /\ \A k \in 1..(e - a) : a + k \in 1..l
        BY <1>2, <2>2, <2>3, <3>1
      <4>4. s \in [1..(e - a) -> 1..m]
        BY <1>2, <4>2, <4>3
      <4>5. s \in Seq(1..m) /\ Len(s) = e - a
        BY <4>3, <4>4
      <4> QED  BY <4>1, <4>2, <4>5
    <3> QED  BY <1>2, <2>2, <2>3, <2>4, <2>5, <3>1, <3>2, SMTT(30)
  <2>6. CASE ~ (a < l)
    <3>1. End(t - 1) = l /\ e = l
      BY <1>2, <2>1, <2>2, <2>3, <2>6
    <3>2. SubSeq(places, a + 1, e) = <<>>
      BY <1>1, <1>2, <2>2, <2>3, <2>6, <3>1
    <3> QED  BY <1>2, <2>2, <2>3, <2>4, <3>1, <3>2
  <2> QED  BY <2>2, <1>2, <2>5, <2>6
<1>5. ASSUME NEW k \in 1..l PROVE inv[k] \in Field /\ places[k] \in 1..m
  <2>1. places[k] \in 1..m /\ k \in 1..Len(places)
    BY <1>1, <1>2
  <2>2. inv[k] = FieldInverse[Denominator(cells[places[k]])]
    BY <2>1
  <2> HIDE DEF inv
  <2> QED  BY <2>1, <2>2, CellParts, InverseIs
<1>6. ASSUME NEW t \in 1..w
      PROVE  /\ part(t) \in Seq(Field) /\ Len(part(t)) = End(t) - End(t - 1)
             /\ \A k \in 1..(End(t) - End(t - 1)) : part(t)[k] = inv[End(t - 1) + k]
  <2>1. PICK a, e, s, p : a = End(t - 1) /\ e = End(t) /\ s = chunk(t) /\ p = part(t)
    OBVIOUS
  <2>2. /\ a \in 0..l /\ e \in 0..l /\ a <= e /\ s \in Seq(1..m) /\ Len(s) = e - a
        /\ \A k \in 1..(e - a) : s[k] = places[a + k]
    BY <1>4, <2>1
  <2>3. p = [k \in DOMAIN s |-> FieldInverse[Denominator(cells[s[k]])]]
    BY <2>1 DEF BatchInvert
  <2> HIDE DEF chunk, part, End
  <2>4. e - a \in Nat /\ DOMAIN s = 1..(e - a) /\ \A k \in 1..(e - a) : a + k \in 1..l
    BY <1>2, <2>2
  <2>5. \A k \in 1..(e - a) : p[k] = inv[a + k]
    BY <1>1, <2>2, <2>3, <2>4
  <2>6. p \in [1..(e - a) -> Field]
    <3>1. p = [k \in 1..(e - a) |-> p[k]]
      BY <2>3, <2>4
    <3>2. \A k \in 1..(e - a) : p[k] \in Field
      BY <1>5, <2>4, <2>5
    <3> QED  BY <3>1, <3>2
  <2>7. p \in Seq(Field) /\ Len(p) = e - a
    BY <2>4, <2>6
  <2> QED  BY <2>1, <2>5, <2>7
<1> HIDE DEF chunk, part
<1>7. parts \in Seq(Seq(Field)) /\ Len(parts) = w /\ \A t \in 1..w : parts[t] = part(t)
  <2>1. parts \in [1..w -> Seq(Field)]
    BY <1>1, <1>6
  <2> QED  BY <1>1, <1>2, <2>1
<1>8. PICK f : IsFlattening(f, parts, Field) /\ FlattenSeq(parts) = f[w]
  BY <1>2, <1>7, FlattenSeqUnfold
<1>9. /\ f \in [1..w -> Seq(Field)] /\ f[1] = part(1)
      /\ \A i \in 1..(w - 1) : f[i + 1] = f[i] \o part(i + 1)
  <2>1. \A i \in 1..(w - 1) : i + 1 \in 1..w
    BY <1>2
  <2>2. 1 \in 1..w
    BY <1>2
  <2> QED  BY <1>7, <1>8, <2>1, <2>2 DEF IsFlattening
<1> HIDE DEF parts, inv
<1> DEFINE Good(t) == Len(f[t]) = End(t) /\ \A k \in 1..End(t) : f[t][k] = inv[k]
           G == {i \in 0..(w - 1) : Good(i + 1)}
<1>10. 0 \in G
  <2>1. End(0) = 0
    <3>1. 0 * size = 0
      BY <1>1, <1>2
    <3> QED  BY <1>1, <1>2, <3>1
  <2>2. 1 \in 1..w /\ 1 - 1 = 0 /\ 0 \in 0..(w - 1) /\ 0 + 1 = 1
    BY <1>2
  <2>3. PICK e : e = End(1)
    OBVIOUS
  <2> HIDE DEF End
  <2>4. /\ e \in 0..l /\ Len(part(1)) = e - 0
        /\ \A k \in 1..(e - 0) : part(1)[k] = inv[0 + k]
    <3>1. PICK t, b : t = 1 /\ b = End(t - 1)
      OBVIOUS
    <3>2. t \in 1..w /\ b = 0 /\ e = End(t)
      BY <2>1, <2>2, <2>3, <3>1
    <3>3. /\ End(t) \in 0..l /\ Len(part(t)) = End(t) - b
          /\ \A k \in 1..(End(t) - b) : part(t)[k] = inv[b + k]
      BY <1>4, <1>6, <3>1, <3>2
    <3> QED  BY <3>1, <3>2, <3>3
  <2>5. Good(1)
    BY <1>2, <1>9, <2>3, <2>4
  <2> QED  BY <2>2, <2>5
<1>11. ASSUME NEW i \in 0..((w - 1) - 1), i \in G PROVE i + 1 \in G
  <2>1. PICK t : t = i + 1
    OBVIOUS
  <2>2. t \in 1..(w - 1) /\ t \in 1..w /\ t + 1 \in 1..w /\ (t + 1) - 1 = t /\ t \in 0..(w - 1)
    BY <1>2, <2>1
  <2>3. PICK a, e, s, u, v : a = End(t) /\ e = End(t + 1) /\ s = f[t] /\ u = part(t + 1) /\ v = f[t + 1]
    OBVIOUS
  <2> HIDE DEF End
  <2>4. Len(s) = a /\ \A k \in 1..a : s[k] = inv[k]
    BY <1>11, <2>1, <2>3
  <2>5. /\ a \in 0..l /\ e \in 0..l /\ a <= e /\ u \in Seq(Field) /\ Len(u) = e - a
        /\ \A k \in 1..(e - a) : u[k] = inv[a + k]
    BY <1>4, <1>6, <2>2, <2>3, SMTT(30)
  <2>6. s \in Seq(Field) /\ v = s \o u
    BY <1>9, <2>2, <2>3
  <2>7. /\ Len(v) = a + (e - a) /\ \A k \in 1..a : v[k] = s[k]
        /\ \A k \in 1..(e - a) : v[a + k] = u[k]
    <3>1. s \in Seq(Field) /\ u \in Seq(Field) /\ v = s \o u
      BY <2>5, <2>6
    <3>2. Len(v) = Len(s) + Len(u)
      BY ONLY <3>1
    <3>3. \A k \in 1..Len(s) : v[k] = s[k]
      BY ONLY <3>1
    <3>4. \A k \in 1..Len(u) : v[Len(s) + k] = u[k]
      BY ONLY <3>1
    <3> QED  BY <2>4, <2>5, <3>2, <3>3, <3>4
  <2>8. Len(v) = e
    BY <1>2, <2>5, <2>7
  <2>9. ASSUME NEW k \in 1..e PROVE v[k] = inv[k]
    <3>1. CASE k <= a
      <4>1. k \in 1..a
        BY <1>2, <2>5, <3>1
      <4> QED  BY <2>4, <2>7, <4>1
    <3>2. CASE ~ (k <= a)
      <4>1. k - a \in 1..(e - a) /\ a + (k - a) = k
        BY <1>2, <2>5, <3>2
      <4> QED  BY <2>5, <2>7, <4>1
    <3> QED  BY <3>1, <3>2
  <2>10. Good(t + 1)
    BY <2>3, <2>8, <2>9
  <2> QED  BY <2>1, <2>2, <2>10
<1> HIDE DEF G
<1>12. w - 1 \in Nat /\ (w - 1) + 1 = w /\ w - 1 \in 0..(w - 1)
  BY <1>2
<1>13. 0..(w - 1) \subseteq G
  BY <1>10, <1>11, <1>12, BoundedInduction
<1>14. Good(w)
  BY <1>12, <1>13 DEF G
<1>15. End(w) = l
  BY <1>1, <1>2
<1> QED  BY <1>1, <1>3, <1>8, <1>14, <1>15 DEF inv, InvertedAt

\* What the two evaluations of a matrix of cells are both meant to be.
Elements(columns, n) == [c \in 1..Len(columns) |-> [r \in 1..n |-> Evaluate(columns[c][r])]]

\* A cell with a trivial denominator stands for its numerator.
LEMMA PlainStandsFor ==
    ASSUME NEW a, a \in Assigned, ~ IsRational(a)
    PROVE  Evaluate(a) = Numerator(a)
<1>1. PICK n : n = Numerator(a)
  OBVIOUS
<1>2. n \in Field /\ n \in Int /\ Denominator(a) = 1 /\ 1 % Prime = 1 /\ n * 1 = n /\ n % Prime = n
  BY <1>1, CellParts, ElementMod, FieldIsInt
<1>3. Evaluate(a) = n % Prime
  BY <1>1, <1>2, SameRefl, StandsForOnly
<1> QED  BY <1>1, <1>2, <1>3

\* Where the place of a row in the buffer of all columns is.
LEMMA RowInBuffer ==
    ASSUME NEW n, n \in Nat \ {0}, NEW l, l \in Nat, NEW c, c \in 1..l, NEW r, r \in 1..n
    PROVE  BufferPlace(c, r, n) \in 1..(l * n)
<1>1. PICK d, e : d = (c - 1) * n /\ e = (l - c) * n
  OBVIOUS
<1>2. d \in Nat /\ e \in Nat
  BY <1>1
<1>3. l * n = (d + e) + n
  BY <1>1
<1>4. BufferPlace(c, r, n) = d + r
  BY <1>1 DEF BufferPlace
<1> QED  BY <1>2, <1>3, <1>4

\* The device's evaluation is cell by cell.
LEMMA DeviceEvaluatedIs ==
    ASSUME NEW n, NEW columns, Matrix(columns, n)
    PROVE  DeviceEvaluated(columns) = Elements(columns, n)
<1>1. CASE columns = <<>>
  <2>1. DeviceEvaluated(columns) = <<>>
    BY <1>1 DEF DeviceEvaluated
  <2>2. Elements(columns, n) = <<>>
    BY <1>1 DEF Elements
  <2> QED  BY <2>1, <2>2
<1>2. CASE columns # <<>>
  <2>1. PICK l, flat, m : l = Len(columns) /\ flat = Flat(columns) /\ m = l * n
    OBVIOUS
  <2>2. /\ n \in Nat /\ n # 0 /\ l \in Nat /\ m \in Nat /\ l # 0 /\ DOMAIN columns = 1..l
        /\ \A c \in 1..l : columns[c] \in [1..n -> Assigned]
    BY <1>2, <2>1 DEF Matrix
  <2>3. /\ flat \in Seq(Assigned) /\ Len(flat) = m
        /\ \A c \in 1..l, r \in 1..n : flat[BufferPlace(c, r, n)] = columns[c][r]
    <3>1. LaidOut(Flat(columns), columns, n)
      BY FlatIs
    <3> QED  BY <2>1, <3>1 DEF LaidOut
  <2>4. PICK dens : dens = DecodedDenominators(columns)
    OBVIOUS
  <2>5. dens = [i \in 1..m |-> Denominator(flat[i])]
    BY <2>1, <2>2, <2>3, <2>4 DEF DecodedDenominators
  <2>6. \A i \in 1..m : flat[i] \in Assigned /\ Denominator(flat[i]) \in Field
    BY <2>3, CellParts
  <2>7. dens \in [1..m -> Field] /\ Len(dens) = m
    BY <2>2, <2>5, <2>6
  <2>8. KernelInvert(dens) = [i \in 1..m |-> FieldInverse[dens[i]]]
    BY <2>2, <2>7, KernelInvertIs
  <2>9. PICK inverses : inverses = KernelInvert(dens)
    OBVIOUS
  <2>10. Len(columns[1]) = n
    BY <2>2
  <2>11. DeviceEvaluated(columns) =
           [c \in 1..l |-> [r \in 1..n |->
              (Numerator(columns[c][r]) * inverses[BufferPlace(c, r, n)]) % Prime]]
    BY <1>2, <2>2, <2>4, <2>9, <2>10 DEF DeviceEvaluated, BufferPlace
  <2>12. ASSUME NEW c \in 1..l, NEW r \in 1..n
         PROVE  (Numerator(columns[c][r]) * inverses[BufferPlace(c, r, n)]) % Prime
                  = Evaluate(columns[c][r])
    <3>1. PICK i : i = BufferPlace(c, r, n)
      OBVIOUS
    <3>2. i \in 1..m
      BY <2>1, <2>2, <3>1, RowInBuffer
    <3>3. inverses[i] = FieldInverse[Denominator(columns[c][r])]
      BY <2>3, <2>5, <2>8, <2>9, <3>1, <3>2
    <3> QED  BY <3>1, <3>3 DEF Evaluate
  <2>13. DeviceEvaluated(columns) = [c \in 1..l |-> [r \in 1..n |-> Evaluate(columns[c][r])]]
    BY <2>11, <2>12
  <2> QED  BY <2>1, <2>13 DEF Elements
<1> QED  BY <1>1, <1>2

\* The host's evaluation is cell by cell.
LEMMA HostEvaluatedIs ==
    ASSUME NEW n, NEW columns, Matrix(columns, n)
    PROVE  HostEvaluated(columns) = Elements(columns, n)
<1>1. CASE columns = <<>>
  <2>1. HostEvaluated(columns) = <<>>
    BY <1>1 DEF HostEvaluated
  <2>2. Elements(columns, n) = <<>>
    BY <1>1 DEF Elements
  <2> QED  BY <2>1, <2>2
<1>2. CASE columns # <<>>
  <2> DEFINE cells == Flat(columns)
             fractions == Places({i \in DOMAIN cells : IsRational(cells[i])}, Len(cells))
             inverted == ChunksInverted(cells, fractions)
             value(i) == IF IsRational(cells[i])
                         THEN (Numerator(cells[i]) * inverted[IndexIn(fractions, i)]) % Prime
                         ELSE Numerator(cells[i])
             values == [i \in DOMAIN cells |-> value(i)]
  <2>1. PICK l, m : l = Len(columns) /\ m = l * n
    OBVIOUS
  <2>2. /\ n \in Nat /\ n # 0 /\ l \in Nat /\ m \in Nat /\ l # 0 /\ DOMAIN columns = 1..l
        /\ \A c \in 1..l : columns[c] \in [1..n -> Assigned]
    BY <1>2, <2>1 DEF Matrix
  <2>3. Len(columns[1]) = n
    BY <2>2
  <2>4. HostEvaluated(columns) = Columns(values, n)
    BY <1>2, <2>3 DEF HostEvaluated
  <2>5. /\ cells \in Seq(Assigned) /\ Len(cells) = m /\ DOMAIN cells = 1..m
        /\ \A c \in 1..l, r \in 1..n : cells[BufferPlace(c, r, n)] = columns[c][r]
    <3>1. LaidOut(Flat(columns), columns, n)
      BY FlatIs
    <3> QED  BY <2>1, <3>1 DEF LaidOut
  <2> HIDE DEF cells
  <2>6. cells \in [1..m -> Assigned]
    BY <2>5
  <2> DEFINE rational == {i \in 1..m : IsRational(cells[i])}
  <2>7. Enumerates(fractions, rational)
    <3>1. rational = {i \in 1..m : i \in rational}
      OBVIOUS
    <3>2. fractions = Places(rational, m)
      BY <2>5
    <3> HIDE DEF rational
    <3> QED  BY <2>2, <3>1, <3>2, PlacesList
  <2>8. ASSUME NEW i \in 1..m PROVE value(i) = Evaluate(cells[i])
    <3>1. CASE IsRational(cells[i])
      <4>1. PICK k : k = IndexIn(fractions, i)
        OBVIOUS
      <4>2. k \in 1..Len(fractions) /\ fractions[k] = i
        <5>1. i \in rational
          BY <3>1
        <5> HIDE DEF fractions, rational
        <5> QED  BY <2>7, <4>1, <5>1, IndexOfListed
      <4>3. fractions \in Seq(1..m)
        <5>1. rational \subseteq 1..m
          OBVIOUS
        <5> HIDE DEF fractions, rational
        <5> QED  BY <2>7, <5>1, ListsWithin
      <4> HIDE DEF fractions
      <4>4. inverted[k] = FieldInverse[Denominator(cells[i])]
        <5>1. InvertedAt(inverted, cells, fractions)
          BY <2>2, <2>6, <4>3, ChunksInvertedIs
        <5> HIDE DEF inverted
        <5> QED  BY <4>2, <5>1 DEF InvertedAt
      <4> HIDE DEF inverted
      <4> QED  BY <3>1, <4>1, <4>4 DEF Evaluate
    <3>2. CASE ~ IsRational(cells[i])
      BY <2>6, <3>2, PlainStandsFor
    <3> QED  BY <3>1, <3>2
  <2>9. values = [i \in 1..m |-> Evaluate(cells[i])]
    BY <2>5, <2>8
  <2> HIDE DEF values
  <2>10. values \in Seq(Field) /\ Len(values) = m
    <3>1. \A i \in 1..m : Evaluate(cells[i]) \in Field
      BY <2>6, StandsFor
    <3>2. values \in [1..m -> Field]
      BY <2>9, <3>1
    <3> QED  BY <2>2, <3>2
  <2>11. m \div n = l
    BY ONLY <2>1, <2>2, ExactQuotient
  <2>12. Columns(values, n) = [c \in 1..l |-> SubSeq(values, (c - 1) * n + 1, c * n)]
    BY <2>10, <2>11 DEF Columns
  <2>13. ASSUME NEW c \in 1..l
         PROVE  SubSeq(values, (c - 1) * n + 1, c * n) = [r \in 1..n |-> Evaluate(columns[c][r])]
    <3>1. PICK b : b = (c - 1) * n
      OBVIOUS
    <3>2. b \in Nat /\ c * n = b + n
      BY <2>2, <3>1
    <3>5. \A r \in 1..n : BufferPlace(c, r, n) = b + r /\ BufferPlace(c, r, n) \in 1..m
      BY <2>1, <2>2, <3>1, RowInBuffer DEF BufferPlace
    <3>3. SubSeq(values, b + 1, b + n) = [r \in 1..n |-> values[b + r]]
      BY <2>2, <2>10, <3>2, <3>5
    <3>4. \A r \in 1..n : values[b + r] = Evaluate(columns[c][r])
      BY <2>5, <2>9, <3>5
    <3> QED  BY <3>1, <3>2, <3>3, <3>4
  <2>14. HostEvaluated(columns) = [c \in 1..l |-> [r \in 1..n |-> Evaluate(columns[c][r])]]
    BY <2>4, <2>12, <2>13
  <2> QED  BY <2>1, <2>14 DEF Elements
<1> QED  BY <1>1, <1>2

(* ---------------------------- systems and queries ----------------------------- *)

Kinds  == {"fixed", "advice", "instance"}
Fields == DOMAIN EmptySystem
Pairs  == Nat \X Int

\* A constraint system is a record with the source's fields.
IsSystem(sys) == sys = [f \in Fields |-> sys[f]] /\ sys.queries \in [Kinds -> Seq(Pairs)]

Listed(sys, kind, column, at, i) ==
    i \in 1..Len(sys.queries[kind]) /\ sys.queries[kind][i] = <<column, at>>

\* The queries of a column
Of(queries, c) == {i \in DOMAIN queries : queries[i][1] = c}

\* No query is listed twice, and the advice columns' are counted.
QueriesSound(sys) ==
    /\ \A kind \in Kinds : IsInjective(sys.queries[kind])
    /\ sys.advice_counts \in [1..Len(sys.advice) -> Nat]
    /\ \A c \in 1..Len(sys.advice) : sys.advice_counts[c] = Cardinality(Of(sys.queries["advice"], c))
    /\ \A c, a, i : Listed(sys, "advice", c, a, i) => c \in 1..Len(sys.advice)

\* Nothing but queries is added, and at the end of the lists.
Grows(sys, grown) ==
    /\ \A f \in Fields \ {"queries", "advice_counts"} : grown[f] = sys[f]
    /\ \A kind \in Kinds : \A column, at, i :
           Listed(sys, kind, column, at, i) => Listed(grown, kind, column, at, i)

\* A query that is listed is found where it is, one that is not is not found.
LEMMA PositionFinds ==
    ASSUME NEW sys, IsSystem(sys), NEW kind \in Kinds, NEW column, NEW at
    PROVE  LET p == Position(sys, kind, column, at)
           IN  /\ p # 0 => Listed(sys, kind, column, at, p)
               /\ p = 0 => \A i : ~ Listed(sys, kind, column, at, i)
<1> DEFINE s == sys.queries[kind]
           I == {i \in 1..Len(s) : s[i] = <<column, at>>}
<1>1. s \in Seq(Pairs) /\ Len(s) \in Nat
  BY DEF IsSystem
<1>2. Position(sys, kind, column, at) = IF I # {} THEN Min(I) ELSE 0
  BY DEF Position, SelectInSeq
<1>3. I # {} => Min(I) \in I
  <2>1. SUFFICES ASSUME I # {} PROVE Min(I) \in I
    OBVIOUS
  <2>2. I \in SUBSET Nat
    BY <1>1
  <2> HIDE DEF I
  <2>3. PICK m \in I : \A k \in I : m <= k
    BY <2>1, <2>2, LeastNatural
  <2> QED  BY <2>3 DEF Min
<1>4. \A i : i \in I <=> Listed(sys, kind, column, at, i)
  BY DEF Listed
<1>5. \A i \in I : i # 0
  BY <1>1
<1> HIDE DEF I
<1> QED  BY <1>2, <1>3, <1>4, <1>5

\* In a sound system it is found where it is listed.
LEMMA PositionOf ==
    ASSUME NEW sys, IsSystem(sys), QueriesSound(sys), NEW kind \in Kinds, NEW column, NEW at,
           NEW i, Listed(sys, kind, column, at, i)
    PROVE  Position(sys, kind, column, at) = i
<1>1. PICK p : p = Position(sys, kind, column, at)
  OBVIOUS
<1>2. Listed(sys, kind, column, at, p)
  BY <1>1, PositionFinds
<1>3. sys.queries[kind] \in Seq(Pairs) /\ IsInjective(sys.queries[kind])
  BY DEF IsSystem, QueriesSound
<1>4. DOMAIN sys.queries[kind] = 1..Len(sys.queries[kind])
  BY <1>3
<1> QED  BY <1>1, <1>2, <1>3, <1>4 DEF Listed, IsInjective

\* A system is its fields.
LEMMA SystemFields ==
    ASSUME NEW sys, IsSystem(sys)
    PROVE  DOMAIN sys = Fields
  BY DEF IsSystem

\* One list has one query more.
Appended(sys, grown, kind, column, at) ==
    grown.queries = [k \in Kinds |-> IF k = kind THEN Append(sys.queries[k], <<column, at>>)
                                     ELSE sys.queries[k]]

\* A query appended to one list.
LEMMA AppendQueryStep ==
    ASSUME NEW sys, IsSystem(sys), NEW kind \in Kinds, NEW column \in Nat, NEW at \in Int,
           NEW grown, grown = AppendQuery(sys, kind, column, at)
    PROVE  /\ IsSystem(grown) /\ Appended(sys, grown, kind, column, at)
           /\ \A f \in Fields \ {"queries"} : grown[f] = sys[f]
<1>1. "queries" \in Fields /\ DOMAIN sys = Fields
  BY SystemFields DEF Fields, EmptySystem
<1>2. grown = [f \in Fields |-> IF f = "queries" THEN [sys.queries EXCEPT ![kind] = Append(sys.queries[kind], <<column, at>>)]
                             ELSE sys[f]]
  BY <1>1 DEF AppendQuery
<1>3. [sys.queries EXCEPT ![kind] = Append(sys.queries[kind], <<column, at>>)]
        = [k \in Kinds |-> IF k = kind THEN Append(sys.queries[k], <<column, at>>) ELSE sys.queries[k]]
  BY DEF IsSystem
<1>4. \A k \in Kinds : sys.queries[k] \in Seq(Pairs)
  BY DEF IsSystem
<1>5. <<column, at>> \in Pairs
  BY DEF Pairs
<1>6. \A k \in Kinds : Append(sys.queries[k], <<column, at>>) \in Seq(Pairs)
  BY <1>4, <1>5
<1>7. grown.queries = [k \in Kinds |-> IF k = kind THEN Append(sys.queries[k], <<column, at>>) ELSE sys.queries[k]]
  BY <1>1, <1>2, <1>3
<1>8. grown.queries \in [Kinds -> Seq(Pairs)]
  BY <1>4, <1>6, <1>7
<1>9. grown = [f \in Fields |-> grown[f]]
  BY <1>2
<1>10. \A f \in Fields \ {"queries"} : grown[f] = sys[f]
  BY <1>2
<1> QED  BY <1>7, <1>8, <1>9, <1>10 DEF IsSystem, Appended

\* A place after the last one
LEMMA AppendPlaces ==
    ASSUME NEW V, NEW s \in Seq(V), NEW x \in V
    PROVE  /\ Append(s, x) \in Seq(V) /\ Len(s) \in Nat /\ Len(Append(s, x)) = Len(s) + 1
           /\ DOMAIN s = 1..Len(s) /\ DOMAIN Append(s, x) = 1..(Len(s) + 1)
           /\ Append(s, x)[Len(s) + 1] = x
           /\ \A i \in 1..Len(s) : Append(s, x)[i] = s[i] /\ i \in 1..(Len(s) + 1)
  OBVIOUS

\* What was listed stays, and the query is the last.
ListedToo(sys, grown, kind, column, at) ==
    /\ Listed(grown, kind, column, at, Len(sys.queries[kind]) + 1)
    /\ \A k \in Kinds : \A c, a, i :
          Listed(grown, k, c, a, i) <=>
              \/ Listed(sys, k, c, a, i)
              \/ k = kind /\ c = column /\ a = at /\ i = Len(sys.queries[kind]) + 1

\* The lists with one more query
LEMMA AppendLists ==
    ASSUME NEW sys, IsSystem(sys), NEW kind \in Kinds, NEW column \in Nat, NEW at \in Int,
           NEW grown, Appended(sys, grown, kind, column, at)
    PROVE  ListedToo(sys, grown, kind, column, at)
<1>1. PICK q, s, t : q = <<column, at>> /\ s = sys.queries[kind] /\ t = Append(s, q)
  OBVIOUS
<1>2. q \in Pairs /\ s \in Seq(Pairs)
  BY <1>1 DEF Pairs, IsSystem
<1>3. /\ Len(s) \in Nat /\ Len(t) = Len(s) + 1 /\ t[Len(s) + 1] = q
      /\ \A i \in 1..Len(s) : t[i] = s[i] /\ i \in 1..(Len(s) + 1)
  BY <1>1, <1>2, AppendPlaces
<1>4. grown.queries[kind] = t /\ \A k \in Kinds : k # kind => grown.queries[k] = sys.queries[k]
  BY <1>1 DEF Appended
<1>5. Listed(grown, kind, column, at, Len(s) + 1)
  BY <1>1, <1>3, <1>4 DEF Listed
<1>6. ASSUME NEW k \in Kinds, NEW c, NEW a, NEW i
      PROVE  Listed(grown, k, c, a, i) <=>
                 \/ Listed(sys, k, c, a, i)
                 \/ k = kind /\ c = column /\ a = at /\ i = Len(s) + 1
  <2>1. CASE k # kind
    BY <1>4, <2>1 DEF Listed
  <2>2. CASE k = kind
    <3>1. Listed(grown, k, c, a, i) <=> i \in 1..(Len(s) + 1) /\ t[i] = <<c, a>>
      BY <1>3, <1>4, <2>2 DEF Listed
    <3>2. Listed(sys, k, c, a, i) <=> i \in 1..Len(s) /\ s[i] = <<c, a>>
      BY <1>1, <2>2 DEF Listed
    <3>3. q = <<c, a>> <=> c = column /\ a = at
      BY <1>1
    <3>4. i \in 1..(Len(s) + 1) <=> i \in 1..Len(s) \/ i = Len(s) + 1
      BY <1>3
    <3>5. Len(s) + 1 \notin 1..Len(s)
      BY <1>3
    <3> QED  BY <1>3, <2>2, <3>1, <3>2, <3>3, <3>4, <3>5
  <2> QED  BY <2>1, <2>2
<1> QED  BY <1>1, <1>5, <1>6 DEF ListedToo

\* Injectivity and counts in terms of Listed
LEMMA InjectiveLists ==
    ASSUME NEW sys, IsSystem(sys), NEW kind \in Kinds
    PROVE  IsInjective(sys.queries[kind]) <=>
             \A c, a, i, j : Listed(sys, kind, c, a, i) /\ Listed(sys, kind, c, a, j) => i = j
<1>1. sys.queries[kind] \in Seq(Pairs)
  BY DEF IsSystem
<1>2. PICK s : s = sys.queries[kind]
  OBVIOUS
<1>3. s \in Seq(Pairs) /\ DOMAIN s = 1..Len(s)
  BY <1>1, <1>2
<1>4. \A i \in 1..Len(s) : \E c, a : s[i] = <<c, a>>
  <2>1. ASSUME NEW i \in 1..Len(s) PROVE s[i] = <<s[i][1], s[i][2]>>
    <3>1. s[i] \in Pairs
      BY <1>3
    <3> QED  BY <3>1 DEF Pairs
  <2> QED  BY <2>1
<1>5. ASSUME IsInjective(s), NEW c, NEW a, NEW i, NEW j,
             Listed(sys, kind, c, a, i), Listed(sys, kind, c, a, j)
      PROVE  i = j
  BY <1>2, <1>3, <1>5 DEF Listed, IsInjective
<1>6. ASSUME \A c, a, i, j : Listed(sys, kind, c, a, i) /\ Listed(sys, kind, c, a, j) => i = j
      PROVE  IsInjective(s)
  <2>1. ASSUME NEW i \in 1..Len(s), NEW j \in 1..Len(s), s[i] = s[j] PROVE i = j
    <3>1. PICK c, a : s[i] = <<c, a>>
      BY <1>4
    <3>2. Listed(sys, kind, c, a, i) /\ Listed(sys, kind, c, a, j)
      BY <1>2, <2>1, <3>1 DEF Listed
    <3> QED  BY <1>6, <3>2
  <2> QED  BY <1>3, <2>1 DEF IsInjective
<1> QED  BY <1>2, <1>5, <1>6

\* A column's queries are those listed for it.
LEMMA OfIsListed ==
    ASSUME NEW sys, IsSystem(sys), NEW c
    PROVE  /\ \A i : i \in Of(sys.queries["advice"], c) <=> \E a : Listed(sys, "advice", c, a, i)
           /\ IsFiniteSet(Of(sys.queries["advice"], c))
<1>1. sys.queries["advice"] \in Seq(Pairs)
  BY DEF IsSystem, Kinds
<1>2. PICK s : s = sys.queries["advice"]
  OBVIOUS
<1>3. s \in Seq(Pairs) /\ DOMAIN s = 1..Len(s) /\ Len(s) \in Nat
  BY <1>1, <1>2
<1>4. ASSUME NEW i \in 1..Len(s) PROVE s[i][1] = c <=> \E a : s[i] = <<c, a>>
  <2>1. s[i] \in Pairs
    BY <1>3, <1>4
  <2>2. s[i] = <<s[i][1], s[i][2]>>
    BY <2>1 DEF Pairs
  <2> QED  BY <2>2
<1>5. \A i : i \in Of(s, c) <=> \E a : Listed(sys, "advice", c, a, i)
  BY <1>2, <1>3, <1>4 DEF Of, Listed
<1>6. IsFiniteSet(1..Len(s)) /\ Of(s, c) \subseteq 1..Len(s)
  BY <1>3, FS_Interval DEF Of
<1>7. IsFiniteSet(Of(s, c))
  BY <1>6, FS_Subset
<1> QED  BY <1>2, <1>5, <1>7

\* A query of a cell is listed afterwards, and the lists stay sound.
CellOf(sys, kind, column, at) ==
    /\ kind \in Kinds /\ column \in Nat /\ at \in Int
    /\ kind = "advice" => column \in 1..Len(sys.advice)

\* A new query of a fixed or instance column
LEMMA OtherQueryStep ==
    ASSUME NEW sys, IsSystem(sys), QueriesSound(sys), NEW kind, NEW column, NEW at,
           CellOf(sys, kind, column, at), kind # "advice", \A i : ~ Listed(sys, kind, column, at, i),
           NEW grown, grown = AppendQuery(sys, kind, column, at)
    PROVE  /\ IsSystem(grown) /\ QueriesSound(grown) /\ Grows(sys, grown)
           /\ \E i : Listed(grown, kind, column, at, i)
           /\ grown.advice_counts = sys.advice_counts
<1>1. kind \in Kinds /\ column \in Nat /\ at \in Int
  BY DEF CellOf
<1>2. /\ IsSystem(grown) /\ Appended(sys, grown, kind, column, at)
      /\ \A f \in Fields \ {"queries"} : grown[f] = sys[f]
  BY <1>1, AppendQueryStep
<1>3. PICK n : n = Len(sys.queries[kind]) + 1
  OBVIOUS
<1>4. /\ Listed(grown, kind, column, at, n)
      /\ \A k \in Kinds : \A c, a, i :
            Listed(grown, k, c, a, i) <=>
                \/ Listed(sys, k, c, a, i)
                \/ k = kind /\ c = column /\ a = at /\ i = n
  BY <1>1, <1>2, <1>3, AppendLists DEF ListedToo
<1>5. Grows(sys, grown)
  BY <1>2, <1>4 DEF Grows
<1>6. ASSUME NEW k \in Kinds PROVE IsInjective(grown.queries[k])
  <2>1. \A c, a, i, j : Listed(sys, k, c, a, i) /\ Listed(sys, k, c, a, j) => i = j
    BY <1>6, InjectiveLists DEF QueriesSound
  <2>2. \A c, a, i, j : Listed(grown, k, c, a, i) /\ Listed(grown, k, c, a, j) => i = j
    BY <1>4, <1>6, <2>1
  <2> QED  BY <1>2, <1>6, <2>2, InjectiveLists
<1>7. grown.advice = sys.advice /\ grown.advice_counts = sys.advice_counts
  BY <1>2 DEF Fields, EmptySystem
<1>8. grown.queries["advice"] = sys.queries["advice"]
  BY <1>2 DEF Kinds, Appended
<1>9. QueriesSound(grown)
  <2>1. \A c, a, i : Listed(grown, "advice", c, a, i) => Listed(sys, "advice", c, a, i)
    BY <1>8 DEF Listed
  <2> QED  BY <1>6, <1>7, <1>8, <2>1 DEF QueriesSound
<1> QED  BY <1>2, <1>4, <1>5, <1>7, <1>9

\* A new query of an advice column, which is counted
LEMMA AdviceQueryStep ==
    ASSUME NEW sys, IsSystem(sys), QueriesSound(sys), NEW column, NEW at,
           CellOf(sys, "advice", column, at), \A i : ~ Listed(sys, "advice", column, at, i),
           NEW grown, grown = QueryAdvice(sys, column, at)
    PROVE  /\ IsSystem(grown) /\ QueriesSound(grown) /\ Grows(sys, grown)
           /\ \E i : Listed(grown, "advice", column, at, i)
<1>1. "advice" \in Kinds /\ column \in Nat /\ at \in Int /\ column \in 1..Len(sys.advice)
  BY DEF CellOf, Kinds
<1>2. PICK mid : mid = AppendQuery(sys, "advice", column, at)
  OBVIOUS
<1>3. /\ IsSystem(mid) /\ Appended(sys, mid, "advice", column, at)
      /\ \A f \in Fields \ {"queries"} : mid[f] = sys[f]
  BY <1>1, <1>2, AppendQueryStep
<1>4. PICK counts : counts = [sys.advice_counts EXCEPT ![column] = sys.advice_counts[column] + 1]
  OBVIOUS
<1>5. /\ {"queries", "advice", "advice_counts"} \subseteq Fields /\ DOMAIN mid = Fields
      /\ mid.advice_counts = sys.advice_counts
  BY <1>3, SystemFields DEF Fields, EmptySystem
<1>6. grown = [f \in Fields |-> IF f = "advice_counts" THEN counts ELSE mid[f]]
  BY <1>2, <1>4, <1>5 DEF QueryAdvice
<1>7. /\ grown.advice_counts = counts /\ \A f \in Fields \ {"advice_counts"} : grown[f] = mid[f]
      /\ grown.queries = mid.queries /\ grown.advice = sys.advice
  <2>1. grown.advice = mid.advice /\ mid.advice = sys.advice
    BY <1>3, <1>5, <1>6
  <2> QED  BY <1>5, <1>6, <2>1
<1>8. IsSystem(grown)
  <2>1. grown = [f \in Fields |-> grown[f]]
    BY <1>6
  <2> QED  BY <1>3, <1>7, <2>1 DEF IsSystem
<1>9. PICK n : n = Len(sys.queries["advice"]) + 1
  OBVIOUS
<1>10. Appended(sys, grown, "advice", column, at)
  BY <1>3, <1>7 DEF Appended
<1>11. /\ Listed(grown, "advice", column, at, n)
       /\ \A k \in Kinds : \A c, a, i :
            Listed(grown, k, c, a, i) <=>
                \/ Listed(sys, k, c, a, i)
                \/ k = "advice" /\ c = column /\ a = at /\ i = n
  BY <1>1, <1>9, <1>10, AppendLists DEF ListedToo
<1>12. Grows(sys, grown)
  BY <1>3, <1>7, <1>11 DEF Grows
<1>13. ASSUME NEW k \in Kinds PROVE IsInjective(grown.queries[k])
  <2>1. \A c, a, i, j : Listed(sys, k, c, a, i) /\ Listed(sys, k, c, a, j) => i = j
    BY <1>13, InjectiveLists DEF QueriesSound
  <2>2. \A c, a, i, j : Listed(grown, k, c, a, i) /\ Listed(grown, k, c, a, j) => i = j
    BY <1>11, <1>13, <2>1
  <2> QED  BY <1>8, <1>13, <2>2, InjectiveLists
<1>14. sys.advice_counts \in [1..Len(sys.advice) -> Nat]
  BY DEF QueriesSound
<1>15. counts \in [1..Len(sys.advice) -> Nat]
  BY <1>1, <1>4, <1>14
<1>16. ASSUME NEW c \in 1..Len(sys.advice)
       PROVE  counts[c] = Cardinality(Of(grown.queries["advice"], c))
  <2>1. PICK before, after : before = Of(sys.queries["advice"], c) /\ after = Of(grown.queries["advice"], c)
    OBVIOUS
  <2>2. /\ \A i : i \in before <=> \E a : Listed(sys, "advice", c, a, i)
        /\ \A i : i \in after <=> \E a : Listed(grown, "advice", c, a, i)
        /\ IsFiniteSet(before)
    BY <1>8, <2>1, OfIsListed
  <2>3. sys.advice_counts[c] = Cardinality(before)
    BY <1>16, <2>1 DEF QueriesSound
  <2>4. CASE c = column
    <3>1. \A i : i \in after <=> i \in before \/ i = n
      BY <1>1, <1>11, <2>2, <2>4
    <3>2. after = before \cup {n}
      BY <3>1
    <3>3. n \notin before
      BY <1>9, <2>2 DEF Listed
    <3>4. Cardinality(after) = Cardinality(before) + 1
      BY <2>2, <3>2, <3>3, FS_AddElement
    <3> QED  BY <1>1, <1>4, <1>14, <2>1, <2>3, <2>4, <3>4
  <2>5. CASE c # column
    <3>1. \A i : i \in after <=> i \in before
      BY <1>1, <1>11, <2>2, <2>5
    <3>2. after = before
      BY <3>1
    <3> QED  BY <1>4, <1>14, <1>16, <2>1, <2>3, <2>5, <3>2
  <2> QED  BY <2>4, <2>5
<1>17. QueriesSound(grown)
  <2>1. \A c, a, i : Listed(grown, "advice", c, a, i) => c \in 1..Len(grown.advice)
    BY <1>1, <1>7, <1>11 DEF QueriesSound
  <2> QED  BY <1>7, <1>13, <1>15, <1>16, <2>1 DEF QueriesSound
<1> QED  BY <1>8, <1>11, <1>12, <1>17

\* A query, new or not
LEMMA QueryStep ==
    ASSUME NEW sys, IsSystem(sys), QueriesSound(sys), NEW kind, NEW column, NEW at,
           CellOf(sys, kind, column, at), NEW grown, grown = Query(sys, kind, column, at)
    PROVE  /\ IsSystem(grown) /\ QueriesSound(grown) /\ Grows(sys, grown)
           /\ \E i : Listed(grown, kind, column, at, i)
           /\ kind # "advice" => grown.advice_counts = sys.advice_counts
<1>1. kind \in Kinds
  BY DEF CellOf
<1>2. PICK p : p = Position(sys, kind, column, at)
  OBVIOUS
<1>3. CASE p # 0
  <2>1. Listed(sys, kind, column, at, p)
    BY <1>1, <1>2, <1>3, PositionFinds
  <2>2. grown = sys
    BY <1>2, <1>3 DEF Query
  <2> QED  BY <2>1, <2>2 DEF Grows
<1>4. CASE p = 0
  <2>1. \A i : ~ Listed(sys, kind, column, at, i)
    BY <1>1, <1>2, <1>4, PositionFinds
  <2>2. CASE kind = "advice"
    <3>1. grown = QueryAdvice(sys, column, at)
      BY <1>2, <1>4, <2>2 DEF Query
    <3> QED  BY <2>1, <2>2, <3>1, AdviceQueryStep
  <2>3. CASE kind # "advice"
    <3>1. grown = AppendQuery(sys, kind, column, at)
      BY <1>2, <1>4, <2>3 DEF Query
    <3> QED  BY <2>1, <2>3, <3>1, OtherQueryStep
  <2> QED  BY <2>2, <2>3
<1> QED  BY <1>3, <1>4

(* --------------------------- querying expressions ------------------------------ *)

QueryRun(run, sys, factors, n) ==
    run = [i \in 0..n |-> IF i = 0 THEN sys ELSE QueryFactor(run[i - 1], factors[i])]

\* The fold over the factors exists.
LEMMA QueryRunExists ==
    ASSUME NEW sys, NEW factors, NEW n \in Nat
    PROVE  \E run : QueryRun(run, sys, factors, n)
<1> DEFINE S == {m \in Nat : \E run : QueryRun(run, sys, factors, m)}
<1>1. 0 \in S
  <2>1. PICK run : run = [i \in 0..0 |-> sys]
    OBVIOUS
  <2>2. QueryRun(run, sys, factors, 0)
    BY <2>1 DEF QueryRun
  <2> QED  BY <2>2
<1>2. ASSUME NEW m \in Nat, m \in S PROVE m + 1 \in S
  <2>1. PICK run : QueryRun(run, sys, factors, m)
    BY <1>2
  <2>2. PICK more : more = [i \in 0..(m + 1) |->
                               IF i = m + 1 THEN QueryFactor(run[m], factors[m + 1]) ELSE run[i]]
    OBVIOUS
  <2>3. ASSUME NEW i \in 0..(m + 1)
        PROVE  more[i] = IF i = 0 THEN sys ELSE QueryFactor(more[i - 1], factors[i])
    <3>1. CASE i = m + 1
      <4>1. m \in 0..(m + 1) /\ m # m + 1 /\ i - 1 = m /\ i # 0
        BY <3>1
      <4>2. more[m] = run[m]
        BY <2>2, <4>1
      <4> QED  BY <2>2, <3>1, <4>1, <4>2
    <3>2. CASE i = 0
      <4>1. 0 \in 0..m /\ 0 # m + 1
        OBVIOUS
      <4> QED  BY <2>1, <2>2, <3>2, <4>1 DEF QueryRun
    <3>3. CASE i # m + 1 /\ i # 0
      <4>1. i \in 0..m /\ i - 1 \in 0..m /\ i - 1 \in 0..(m + 1) /\ i - 1 # m + 1
        BY <3>3
      <4>2. more[i - 1] = run[i - 1] /\ more[i] = run[i]
        BY <2>2, <3>3, <4>1
      <4> QED  BY <2>1, <3>3, <4>1, <4>2 DEF QueryRun
    <3> QED  BY <3>1, <3>2, <3>3
  <2>4. QueryRun(more, sys, factors, m + 1)
    <3>1. more = [i \in 0..(m + 1) |-> more[i]]
      BY <2>2
    <3> QED  BY <2>3, <3>1 DEF QueryRun
  <2> QED  BY <2>4
<1> HIDE DEF S
<1>3. Nat \subseteq S
  BY <1>1, <1>2, SetInduction
<1> QED  BY <1>3 DEF S

\* What may be queried of a system
Cells == [kind : Kinds \cup {"selector"}, column : Nat, at : Int, index : Nat]
Askable(sys, f) == f \in Cells /\ (IsCell(f) => CellOf(sys, f.kind, f.column, f.at))

\* The system with further queries is sound.
Queried(sys, grown) == IsSystem(grown) /\ QueriesSound(grown) /\ Grows(sys, grown)

\* Growing twice is growing.
LEMMA GrowsOn ==
    ASSUME NEW x, NEW y, NEW z, Grows(x, y), Grows(y, z)
    PROVE  Grows(x, z)
  BY DEF Grows

\* After querying the cells of expressions, each is listed.
LEMMA QueryCellsStep ==
    ASSUME NEW sys, IsSystem(sys), QueriesSound(sys), NEW n \in Nat, NEW factors, Len(factors) = n,
           \A j \in 1..n : Askable(sys, factors[j]), NEW grown, grown = QueryCells(sys, factors)
    PROVE  /\ Queried(sys, grown)
           /\ \A j \in 1..n : IsCell(factors[j]) =>
                \E i : Listed(grown, factors[j].kind, factors[j].column, factors[j].at, i)
<1> DEFINE run == CHOOSE f : QueryRun(f, sys, factors, n)
           S == {m \in 0..n :
                   /\ Queried(sys, run[m])
                   /\ \A j \in 1..m : IsCell(factors[j]) =>
                        \E i : Listed(run[m], factors[j].kind, factors[j].column, factors[j].at, i)}
<1>1. QueryRun(run, sys, factors, n)
  BY QueryRunExists
<1>2. grown = run[n]
  BY DEF QueryCells, QueryRun
<1> HIDE DEF run
<1>3. run[0] = sys
  BY <1>1 DEF QueryRun
<1>4. 0 \in S
  BY <1>3 DEF Queried, Grows
<1>5. ASSUME NEW m \in 0..(n - 1), m \in S PROVE m + 1 \in S
  <2>1. PICK before, after, f : before = run[m] /\ after = run[m + 1] /\ f = factors[m + 1]
    OBVIOUS
  <2>2. after = QueryFactor(before, f)
    <3>1. m + 1 \in 0..n /\ m + 1 # 0 /\ (m + 1) - 1 = m
      BY <1>5
    <3> QED  BY <1>1, <2>1, <3>1 DEF QueryRun
  <2>3. /\ Queried(sys, before)
        /\ \A j \in 1..m : IsCell(factors[j]) =>
             \E i : Listed(before, factors[j].kind, factors[j].column, factors[j].at, i)
    BY <1>5, <2>1
  <2>4. Askable(sys, f)
    <3>1. m + 1 \in 1..n
      BY <1>5
    <3> QED  BY <2>1, <3>1
  <2>5. IsCell(f) => CellOf(before, f.kind, f.column, f.at)
    <3>1. before.advice = sys.advice
      BY <2>3 DEF Queried, Grows, Fields, EmptySystem
    <3> QED  BY <2>4, <3>1 DEF Askable, CellOf
  <2>6. /\ Queried(before, after)
        /\ IsCell(f) => \E i : Listed(after, f.kind, f.column, f.at, i)
    <3>1. CASE IsCell(f)
      <4>1. after = Query(before, f.kind, f.column, f.at)
        BY <2>2, <3>1 DEF QueryFactor
      <4>2. CellOf(before, f.kind, f.column, f.at) /\ IsSystem(before) /\ QueriesSound(before)
        BY <2>3, <2>5, <3>1 DEF Queried
      <4> QED  BY <4>1, <4>2, QueryStep DEF Queried
    <3>2. CASE ~ IsCell(f)
      <4>1. after = before
        BY <2>2, <3>2 DEF QueryFactor
      <4> QED  BY <2>3, <3>2, <4>1 DEF Queried, Grows
    <3> QED  BY <3>1, <3>2
  <2>7. Queried(sys, after)
    BY <2>3, <2>6, GrowsOn DEF Queried
  <2>8. ASSUME NEW j \in 1..(m + 1), IsCell(factors[j])
        PROVE  \E i : Listed(after, factors[j].kind, factors[j].column, factors[j].at, i)
    <3>1. CASE j = m + 1
      BY <2>1, <2>6, <2>8, <3>1
    <3>2. CASE j # m + 1
      <4>1. j \in 1..m /\ j \in 1..n
        BY <1>5, <3>2
      <4>2. PICK i : Listed(before, factors[j].kind, factors[j].column, factors[j].at, i)
        BY <2>3, <2>8, <4>1
      <4>3. factors[j].kind \in Kinds
        BY <2>8, <4>1 DEF Askable, CellOf
      <4> QED  BY <2>6, <4>2, <4>3 DEF Queried, Grows
    <3> QED  BY <3>1, <3>2
  <2>9. m + 1 \in 0..n
    BY <1>5
  <2> QED  BY <2>1, <2>7, <2>8, <2>9
<1>6. n \in S
  <2> HIDE DEF S
  <2>1. 0..n \subseteq S
    BY <1>4, <1>5, BoundedInduction
  <2> QED  BY <2>1
<1> QED  BY <1>2, <1>6

(* -------------------------------- polynomials ---------------------------------- *)

Guards    == [kind : {"none", "simple", "column"}, column : Nat, root : Nat, size : Nat, index : Nat]
Polyforms == [guard : Guards, terms : Seq(Seq(Cells))]

\* A factor that stands for something of the system, a listed query or one of its
\* selectors, and a guard before selectors are rewritten.
FactorSound(sys, f) ==
    IF IsCell(f) THEN f.kind \in Kinds /\ Listed(sys, f.kind, f.column, f.at, f.index)
    ELSE f.column \in 1..sys.selectors

GuardSound(sys, g) ==
    /\ g.kind # "column" /\ g.index = None /\ g.root = 0 /\ g.size = 0
    /\ g.kind = "simple" => g.column \in 1..sys.selectors

Indexed(sys, p) ==
    /\ p \in Polyforms /\ GuardSound(sys, p.guard)
    /\ \A t \in 1..Len(p.terms) : \A i \in 1..Len(p.terms[t]) : FactorSound(sys, p.terms[t][i])

\* A polynomial whose cells may be queried
Asks(sys, p) ==
    /\ p \in Polyforms /\ GuardSound(sys, p.guard)
    /\ \A t \in 1..Len(p.terms) : \A i \in 1..Len(p.terms[t]) :
          /\ Askable(sys, p.terms[t][i])
          /\ ~ IsCell(p.terms[t][i]) => p.terms[t][i].column \in 1..sys.selectors

\* All of a polynomial's cells are listed.
AllListed(sys, p) ==
    \A t \in 1..Len(p.terms) : \A i \in 1..Len(p.terms[t]) :
        LET f == p.terms[t][i]
        IN  IsCell(f) => f.kind \in Kinds /\ \E k : Listed(sys, f.kind, f.column, f.at, k)

\* What is indexed stays so when the system grows.
LEMMA IndexedStays ==
    ASSUME NEW sys, NEW grown, Grows(sys, grown), NEW p, Indexed(sys, p)
    PROVE  Indexed(grown, p)
<1>1. grown.selectors = sys.selectors
  BY DEF Grows, Fields, EmptySystem
<1>2. \A k \in Kinds : \A column, at, i :
          Listed(sys, k, column, at, i) => Listed(grown, k, column, at, i)
  BY DEF Grows
<1>3. GuardSound(grown, p.guard)
  BY <1>1, <1>2 DEF Indexed, GuardSound, Kinds
<1>4. \A f : FactorSound(sys, f) => FactorSound(grown, f)
  BY <1>1, <1>2 DEF FactorSound
<1> QED  BY <1>3, <1>4 DEF Indexed

\* A function on the first numbers is a sequence.
LEMMA IsSequence ==
    ASSUME NEW V, NEW n \in Nat, NEW s, s = [i \in 1..n |-> s[i]], \A i \in 1..n : s[i] \in V
    PROVE  s \in Seq(V) /\ Len(s) = n /\ DOMAIN s = 1..n
  OBVIOUS

\* The terms with every factor mapped
MapsTerms(p, op, terms) ==
    /\ terms \in Seq(Seq(Cells)) /\ Len(terms) = Len(p.terms)
    /\ \A t \in 1..Len(p.terms) :
          /\ Len(terms[t]) = Len(p.terms[t])
          /\ \A i \in 1..Len(p.terms[t]) : terms[t][i] = op[p.terms[t][i]] /\ p.terms[t][i] \in Cells

\* Mapping factors keeps the shape of a polynomial.
LEMMA TermsMapped ==
    ASSUME NEW p \in Polyforms, NEW op, op \in [Cells -> Cells], NEW terms,
           terms = [t \in DOMAIN p.terms |-> [i \in DOMAIN p.terms[t] |-> op[p.terms[t][i]]]]
    PROVE  MapsTerms(p, op, terms)
<1>1. p.terms \in Seq(Seq(Cells))
  BY DEF Polyforms
<1>2. PICK n, s : s = p.terms /\ n = Len(s)
  OBVIOUS
<1>3. n \in Nat /\ DOMAIN s = 1..n /\ \A t \in 1..n : s[t] \in Seq(Cells)
  BY <1>1, <1>2
<1>4. ASSUME NEW t \in 1..n
      PROVE  /\ terms[t] \in Seq(Cells) /\ Len(terms[t]) = Len(s[t])
             /\ \A i \in 1..Len(s[t]) : terms[t][i] = op[s[t][i]] /\ s[t][i] \in Cells
  <2>1. PICK m, r, u : r = s[t] /\ m = Len(r) /\ u = terms[t]
    OBVIOUS
  <2>2. m \in Nat /\ DOMAIN r = 1..m /\ \A i \in 1..m : r[i] \in Cells
    BY <1>3, <2>1
  <2>3. u = [i \in 1..m |-> op[r[i]]]
    BY <1>2, <1>3, <2>1, <2>2
  <2>4. \A i \in 1..m : op[r[i]] \in Cells
    BY <2>2
  <2>5. u = [i \in 1..m |-> u[i]] /\ \A i \in 1..m : u[i] = op[r[i]] /\ u[i] \in Cells
    BY <2>3, <2>4
  <2>6. u \in Seq(Cells) /\ Len(u) = m
    BY ONLY <2>2, <2>5, IsSequence
  <2> QED  BY <2>1, <2>2, <2>5, <2>6
<1>5. terms = [t \in 1..n |-> terms[t]]
  BY <1>2, <1>3
<1>6. terms \in Seq(Seq(Cells)) /\ Len(terms) = n
  <2>1. PICK V : V = Seq(Cells)
    OBVIOUS
  <2>2. \A t \in 1..n : terms[t] \in V
    BY <1>4, <2>1
  <2>3. terms \in Seq(V) /\ Len(terms) = n
    BY ONLY <1>3, <1>5, <2>2, IsSequence
  <2> QED  BY <2>1, <2>3
<1>7. \A t \in 1..n : Len(terms[t]) = Len(s[t])
  BY <1>4
<1>8. \A t \in 1..n : \A i \in 1..Len(s[t]) : terms[t][i] = op[s[t][i]] /\ s[t][i] \in Cells
  BY <1>4
<1>9. Len(terms) = Len(p.terms) /\ p.terms = s
  BY <1>2, <1>6
<1> QED  BY ONLY <1>2, <1>6, <1>7, <1>8, <1>9 DEF MapsTerms

\* Indices are assigned to every cell.
LEMMA AssignIndicesStep ==
    ASSUME NEW sys, IsSystem(sys), QueriesSound(sys), NEW p, Asks(sys, p), AllListed(sys, p),
           NEW q, q = AssignIndices(sys, p)
    PROVE  Indexed(sys, q)
<1> DEFINE placed(f) == IF IsCell(f) THEN [f EXCEPT !.index = Position(sys, f.kind, f.column, f.at)] ELSE f
<1>1. p \in Polyforms /\ p.guard.kind # "column" /\ p.guard \in Guards
  BY DEF Asks, Polyforms, GuardSound
<1>2. PICK op : op = [f \in Cells |-> IF placed(f) \in Cells THEN placed(f) ELSE f]
  OBVIOUS
<1>3. op \in [Cells -> Cells]
  BY <1>2
<1>4. ASSUME NEW t \in 1..Len(p.terms), NEW i \in 1..Len(p.terms[t])
      PROVE  placed(p.terms[t][i]) = op[p.terms[t][i]] /\ FactorSound(sys, op[p.terms[t][i]])
  <2>1. PICK f : f = p.terms[t][i]
    OBVIOUS
  <2>2. f \in Cells /\ ~ IsCell(f) => f.column \in 1..sys.selectors
    BY <1>4, <2>1 DEF Asks, Askable
  <2>3. CASE IsCell(f)
    <3>1. f.kind \in Kinds
      BY <1>4, <2>1, <2>3 DEF AllListed
    <3>2. PICK k : Listed(sys, f.kind, f.column, f.at, k)
      BY <1>4, <2>1, <2>3 DEF AllListed
    <3>3. k \in Nat /\ Position(sys, f.kind, f.column, f.at) = k
      <4>1. Position(sys, f.kind, f.column, f.at) = k
        BY <3>1, <3>2, PositionOf
      <4>2. k \in 1..Len(sys.queries[f.kind])
        BY <3>2 DEF Listed
      <4> QED  BY <4>1, <4>2
    <3>4. PICK g : g = [f EXCEPT !.index = k]
      OBVIOUS
    <3>5. f \in Cells
      BY <1>4, <2>1 DEF Asks, Askable
    <3>6. g \in Cells /\ g.kind = f.kind /\ g.column = f.column /\ g.at = f.at /\ g.index = k
      BY <3>3, <3>4, <3>5 DEF Cells
    <3>7. placed(f) = g /\ op[f] = g
      BY <1>2, <2>3, <3>3, <3>4, <3>5, <3>6
    <3>8. FactorSound(sys, g)
      BY <2>3, <3>1, <3>2, <3>6 DEF FactorSound, IsCell
    <3> QED  BY <2>1, <3>7, <3>8
  <2>4. CASE ~ IsCell(f)
    <3>1. f \in Cells /\ f.column \in 1..sys.selectors
      BY <1>4, <2>1, <2>4 DEF Asks, Askable
    <3>2. placed(f) = f /\ op[f] = f
      BY <1>2, <2>4, <3>1
    <3> QED  BY <2>1, <2>4, <3>1, <3>2 DEF FactorSound
  <2> QED  BY <2>3, <2>4
<1>5. PICK terms : terms = [t \in DOMAIN p.terms |-> [i \in DOMAIN p.terms[t] |-> op[p.terms[t][i]]]]
  OBVIOUS
<1>6. MapsTerms(p, op, terms)
  BY <1>1, <1>3, <1>5, TermsMapped
<1>7. q = [guard |-> p.guard, terms |-> terms]
  <2>1. p.terms \in Seq(Seq(Cells))
    BY <1>1 DEF Polyforms
  <2>2. DOMAIN p.terms = 1..Len(p.terms) /\ \A t \in 1..Len(p.terms) : DOMAIN p.terms[t] = 1..Len(p.terms[t])
    BY <2>1
  <2>3. terms = [t \in DOMAIN p.terms |-> [i \in DOMAIN p.terms[t] |-> placed(p.terms[t][i])]]
    <3>1. ASSUME NEW t \in DOMAIN p.terms
          PROVE  [i \in DOMAIN p.terms[t] |-> op[p.terms[t][i]]]
                   = [i \in DOMAIN p.terms[t] |-> placed(p.terms[t][i])]
      <4>1. \A i \in DOMAIN p.terms[t] : op[p.terms[t][i]] = placed(p.terms[t][i])
        BY <1>4, <2>2, <3>1
      <4> HIDE DEF placed
      <4> QED  BY <4>1
    <3> HIDE DEF placed
    <3> QED  BY <1>5, <3>1
  <2>4. q = [guard |-> p.guard, terms |-> [t \in DOMAIN p.terms |-> [i \in DOMAIN p.terms[t] |-> placed(p.terms[t][i])]]]
    BY <1>1 DEF AssignIndices
  <2> QED  BY <2>3, <2>4
<1>8. q \in Polyforms /\ q.guard = p.guard /\ q.terms = terms
  BY <1>1, <1>6, <1>7 DEF Polyforms, MapsTerms
<1>9. GuardSound(sys, q.guard)
  BY <1>1, <1>8 DEF Asks, GuardSound
<1>10. ASSUME NEW t \in 1..Len(q.terms), NEW i \in 1..Len(q.terms[t]) PROVE FactorSound(sys, q.terms[t][i])
  <2>1. t \in 1..Len(p.terms) /\ i \in 1..Len(p.terms[t]) /\ q.terms[t][i] = op[p.terms[t][i]]
    BY <1>6, <1>8, <1>10 DEF MapsTerms
  <2> QED  BY <1>4, <2>1
<1> QED  BY <1>8, <1>9, <1>10 DEF Indexed

(* -------------------------------- whole systems -------------------------------- *)

\* All polynomials of the gates and lookups are indexed.
PolysSound(sys) ==
    /\ sys.gates \in Seq(Seq(Polyforms))
    /\ sys.lookups \in Seq(Seq(Polyforms \X Polyforms))
    /\ \A g \in 1..Len(sys.gates) : \A i \in 1..Len(sys.gates[g]) : Indexed(sys, sys.gates[g][i])
    /\ \A l \in 1..Len(sys.lookups) : \A i \in 1..Len(sys.lookups[l]) :
          Indexed(sys, sys.lookups[l][i][1]) /\ Indexed(sys, sys.lookups[l][i][2])

\* Permuted columns are queried where the permutation opens them.
PermutationSound(sys) ==
    /\ sys.permutation \in Seq(Kinds \X Nat)
    /\ \A k \in 1..Len(sys.permutation) :
          \E i : Listed(sys, sys.permutation[k][1], sys.permutation[k][2], 0, i)

Sized(sys) ==
    /\ sys.fixed \in Nat /\ sys.instance \in Nat /\ sys.selectors \in Nat /\ sys.minimum \in Nat
    /\ sys.advice \in Seq(Nat)

Wired(sys) ==
    /\ IsSystem(sys) /\ QueriesSound(sys) /\ Sized(sys) /\ PolysSound(sys) /\ PermutationSound(sys)

\* A system with one field set
Sets(grown, sys, field, v) == grown = [f \in Fields |-> IF f = field THEN v ELSE sys[f]]

\* What is listed does not depend on other fields than the queries.
LEMMA SetsKeeps ==
    ASSUME NEW sys, IsSystem(sys), NEW field \in Fields \ {"queries"}, NEW v,
           NEW grown, Sets(grown, sys, field, v)
    PROVE  /\ IsSystem(grown) /\ grown[field] = v /\ grown.queries = sys.queries
           /\ \A f \in Fields \ {field} : grown[f] = sys[f]
           /\ \A k, c, a, i : Listed(grown, k, c, a, i) <=> Listed(sys, k, c, a, i)
<1>1. "queries" \in Fields
  BY DEF Fields, EmptySystem
<1>2. grown.queries = sys.queries /\ grown[field] = v /\ \A f \in Fields \ {field} : grown[f] = sys[f]
  BY <1>1 DEF Sets
<1>3. grown = [f \in Fields |-> grown[f]]
  BY DEF Sets
<1>4. IsSystem(grown)
  BY <1>2, <1>3 DEF IsSystem
<1> QED  BY <1>2, <1>4 DEF Listed

\* With as many selectors or more, what was indexed is.
LEMMA IndexedSame ==
    ASSUME NEW sys, NEW grown, NEW p, Indexed(sys, p), sys.selectors \in Nat, grown.selectors \in Nat,
           sys.selectors <= grown.selectors,
           \A k, c, a, i : Listed(grown, k, c, a, i) <=> Listed(sys, k, c, a, i)
    PROVE  Indexed(grown, p)
<1>1. \A c \in 1..sys.selectors : c \in 1..grown.selectors
  OBVIOUS
<1>2. GuardSound(grown, p.guard)
  BY <1>1 DEF Indexed, GuardSound
<1>3. \A f : FactorSound(sys, f) => FactorSound(grown, f)
  BY <1>1 DEF FactorSound
<1> QED  BY <1>2, <1>3 DEF Indexed

\* The same for all polynomials, when neither gates nor lookups change.
LEMMA PolysSame ==
    ASSUME NEW sys, NEW grown, PolysSound(sys), sys.selectors \in Nat, grown.selectors \in Nat,
           sys.selectors <= grown.selectors, grown.gates = sys.gates, grown.lookups = sys.lookups,
           \A k, c, a, i : Listed(grown, k, c, a, i) <=> Listed(sys, k, c, a, i)
    PROVE  PolysSound(grown)
<1>1. \A p : Indexed(sys, p) => Indexed(grown, p)
  BY IndexedSame
<1> QED  BY <1>1 DEF PolysSound

\* A growing system keeps what it has.
LEMMA WiredGrows ==
    ASSUME NEW sys, NEW grown, Wired(sys), Queried(sys, grown)
    PROVE  Wired(grown)
<1>1. /\ IsSystem(grown) /\ QueriesSound(grown) /\ Grows(sys, grown)
      /\ \A f \in Fields \ {"queries", "advice_counts"} : grown[f] = sys[f]
  BY DEF Queried, Grows
<1>2. /\ grown.gates = sys.gates /\ grown.lookups = sys.lookups /\ grown.permutation = sys.permutation
      /\ grown.fixed = sys.fixed /\ grown.instance = sys.instance /\ grown.selectors = sys.selectors
      /\ grown.minimum = sys.minimum /\ grown.advice = sys.advice
  BY <1>1 DEF Fields, EmptySystem
<1>3. PolysSound(grown)
  <2>1. \A p : Indexed(sys, p) => Indexed(grown, p)
    BY <1>1, IndexedStays
  <2> QED  BY <1>2, <2>1 DEF Wired, PolysSound
<1>4. PermutationSound(grown)
  <2>1. ASSUME NEW k \in 1..Len(sys.permutation)
        PROVE  \E i : Listed(grown, sys.permutation[k][1], sys.permutation[k][2], 0, i)
    <3>1. sys.permutation[k] \in Kinds \X Nat
      BY <2>1 DEF Wired, PermutationSound
    <3>2. sys.permutation[k][1] \in Kinds
      BY <3>1
    <3> QED  BY <1>1, <2>1, <3>2 DEF Wired, PermutationSound, Grows
  <2> QED  BY <1>2, <2>1 DEF Wired, PermutationSound
<1>5. Sized(grown)
  BY <1>2 DEF Wired, Sized
<1> QED  BY <1>1, <1>3, <1>4, <1>5 DEF Wired

\* Setting a size
LEMMA WiredSize ==
    ASSUME NEW sys, Wired(sys), NEW field \in {"fixed", "instance", "selectors", "minimum"},
           NEW v \in Nat, field = "selectors" => sys.selectors <= v,
           NEW grown, Sets(grown, sys, field, v)
    PROVE  Wired(grown)
<1>1. field \in Fields \ {"queries"}
  BY DEF Fields, EmptySystem
<1>2. /\ IsSystem(grown) /\ grown[field] = v /\ grown.queries = sys.queries
      /\ \A f \in Fields \ {field} : grown[f] = sys[f]
      /\ \A k, c, a, i : Listed(grown, k, c, a, i) <=> Listed(sys, k, c, a, i)
  BY <1>1, SetsKeeps DEF Wired
<1>3. /\ grown.gates = sys.gates /\ grown.lookups = sys.lookups /\ grown.permutation = sys.permutation
      /\ grown.advice = sys.advice /\ grown.advice_counts = sys.advice_counts
      /\ grown.fixed \in Nat /\ grown.instance \in Nat /\ grown.selectors \in Nat /\ grown.minimum \in Nat
      /\ sys.selectors \in Nat /\ sys.selectors <= grown.selectors
  BY <1>2 DEF Wired, Sized, Fields, EmptySystem
<1>4. PolysSound(grown)
  BY <1>2, <1>3, PolysSame DEF Wired
<1>5. PermutationSound(grown)
  BY <1>2, <1>3 DEF Wired, PermutationSound
<1>6. QueriesSound(grown)
  BY <1>2, <1>3 DEF Wired, QueriesSound
<1> QED  BY <1>2, <1>3, <1>4, <1>5, <1>6 DEF Wired, Sized

\* One more fixed or instance column or selector, or a minimum degree
LEMMA WiredSizes ==
    ASSUME NEW sys, Wired(sys)
    PROVE  /\ Wired(FixedColumn(sys)) /\ Wired(InstanceColumn(sys)) /\ Wired(NewSelector(sys))
           /\ \A d \in Nat : Wired(SetMinimumDegree(sys, d))
<1>1. DOMAIN sys = Fields
  BY SystemFields DEF Wired
<1>2. sys.fixed + 1 \in Nat /\ sys.instance + 1 \in Nat /\ sys.selectors + 1 \in Nat /\ sys.selectors <= sys.selectors + 1
  BY DEF Wired, Sized
<1>3. Sets(FixedColumn(sys), sys, "fixed", sys.fixed + 1)
  BY <1>1 DEF FixedColumn, Sets
<1>4. Sets(InstanceColumn(sys), sys, "instance", sys.instance + 1)
  BY <1>1 DEF InstanceColumn, Sets
<1>5. Sets(NewSelector(sys), sys, "selectors", sys.selectors + 1)
  BY <1>1 DEF NewSelector, Sets
<1>6. \A d : Sets(SetMinimumDegree(sys, d), sys, "minimum", d)
  BY <1>1 DEF SetMinimumDegree, Sets
<1> QED  BY <1>2, <1>3, <1>4, <1>5, <1>6, WiredSize

\* Setting a field that nothing here rests on
LEMMA WiredOther ==
    ASSUME NEW sys, Wired(sys), NEW field \in {"challenges", "constants", "selector_map"}, NEW v,
           NEW grown, Sets(grown, sys, field, v)
    PROVE  Wired(grown) /\ grown.advice = sys.advice /\ grown.selectors = sys.selectors
<1>1. field \in Fields \ {"queries"}
  BY DEF Fields, EmptySystem
<1>2. /\ IsSystem(grown) /\ grown.queries = sys.queries
      /\ \A f \in Fields \ {field} : grown[f] = sys[f]
      /\ \A k, c, a, i : Listed(grown, k, c, a, i) <=> Listed(sys, k, c, a, i)
  BY <1>1, SetsKeeps DEF Wired
<1>3. /\ grown.gates = sys.gates /\ grown.lookups = sys.lookups /\ grown.permutation = sys.permutation
      /\ grown.advice = sys.advice /\ grown.advice_counts = sys.advice_counts
      /\ grown.fixed = sys.fixed /\ grown.instance = sys.instance
      /\ grown.selectors = sys.selectors /\ grown.minimum = sys.minimum
  BY <1>2 DEF Fields, EmptySystem
<1>4. Sized(grown) /\ grown.selectors \in Nat /\ sys.selectors \in Nat /\ sys.selectors <= grown.selectors
  BY <1>3 DEF Wired, Sized
<1>5. PolysSound(grown)
  BY <1>2, <1>3, <1>4, PolysSame DEF Wired
<1>6. PermutationSound(grown)
  BY <1>2, <1>3 DEF Wired, PermutationSound
<1>7. QueriesSound(grown)
  BY <1>2, <1>3 DEF Wired, QueriesSound
<1> QED  BY <1>2, <1>3, <1>4, <1>5, <1>6, <1>7 DEF Wired

\* A new advice column has no query yet.
LEMMA WiredAdvice ==
    ASSUME NEW sys, Wired(sys), NEW phase \in Nat, NEW grown, grown = AdviceColumn(sys, phase)
    PROVE  /\ Wired(grown) /\ Len(grown.advice) = Len(sys.advice) + 1
           /\ grown.selectors = sys.selectors
<1>1. DOMAIN sys = Fields /\ {"queries", "advice", "advice_counts", "selectors"} \subseteq Fields
  BY SystemFields DEF Wired, Fields, EmptySystem
<1>2. PICK counts : counts = Append(sys.advice_counts, 0)
  OBVIOUS
<1>3. grown = [f \in Fields |-> IF f = "advice" THEN Append(sys.advice, phase)
                                ELSE IF f = "advice_counts" THEN counts ELSE sys[f]]
  BY <1>1, <1>2 DEF AdviceColumn
<1>4. /\ grown.advice = Append(sys.advice, phase) /\ grown.advice_counts = counts
      /\ grown.queries = sys.queries
      /\ \A f \in Fields \ {"advice", "advice_counts"} : grown[f] = sys[f]
  BY <1>1, <1>3
<1>5. IsSystem(grown) /\ \A k, c, a, i : Listed(grown, k, c, a, i) <=> Listed(sys, k, c, a, i)
  <2>1. grown = [f \in Fields |-> grown[f]]
    BY <1>3
  <2> QED  BY <1>4, <2>1 DEF Wired, IsSystem, Listed
<1>6. /\ grown.gates = sys.gates /\ grown.lookups = sys.lookups /\ grown.permutation = sys.permutation
      /\ grown.fixed = sys.fixed /\ grown.instance = sys.instance
      /\ grown.selectors = sys.selectors /\ grown.minimum = sys.minimum
  BY <1>4 DEF Fields, EmptySystem
<1>7. PICK n : n = Len(sys.advice)
  OBVIOUS
<1>8. n \in Nat /\ grown.advice \in Seq(Nat) /\ Len(grown.advice) = n + 1
  BY <1>4, <1>7 DEF Wired, Sized
<1>9. Sized(grown) /\ grown.selectors \in Nat /\ sys.selectors \in Nat /\ sys.selectors <= grown.selectors
  BY <1>6, <1>8 DEF Wired, Sized
<1>10. PolysSound(grown)
  BY <1>5, <1>6, <1>9, PolysSame DEF Wired
<1>11. PermutationSound(grown)
  BY <1>5, <1>6 DEF Wired, PermutationSound
<1>12. /\ sys.advice_counts \in [1..n -> Nat]
       /\ \A c \in 1..n : sys.advice_counts[c] = Cardinality(Of(sys.queries["advice"], c))
       /\ \A c, a, i : Listed(sys, "advice", c, a, i) => c \in 1..n
  BY <1>7 DEF Wired, QueriesSound
<1>13. PICK old : old = sys.advice_counts
  OBVIOUS
<1>14. counts \in [1..(n + 1) -> Nat] /\ counts[n + 1] = 0 /\ \A c \in 1..n : counts[c] = old[c]
  <2>1. old \in Seq(Nat) /\ Len(old) = n
    <3>1. old \in [1..n -> Nat]
      BY <1>12, <1>13
    <3> QED  BY <1>8, <3>1
  <2>2. /\ counts \in Seq(Nat) /\ Len(counts) = n + 1
        /\ counts[n + 1] = 0 /\ \A c \in 1..n : counts[c] = old[c]
    BY <1>2, <1>13, <2>1, AppendPlaces
  <2> QED  BY <2>2
<1>15. ASSUME NEW c \in 1..(n + 1) PROVE counts[c] = Cardinality(Of(grown.queries["advice"], c))
  <2>1. CASE c \in 1..n
    BY <1>4, <1>12, <1>13, <1>14, <2>1
  <2>2. CASE c \notin 1..n
    <3>1. c = n + 1
      BY <1>8, <2>2
    <3>2. Of(sys.queries["advice"], c) = {}
      BY <1>12, <2>2, OfIsListed DEF Wired
    <3> QED  BY <1>4, <1>14, <3>1, <3>2, FS_EmptySet
  <2> QED  BY <2>1, <2>2
<1>16. QueriesSound(grown)
  <2>1. \A c, a, i : Listed(grown, "advice", c, a, i) => c \in 1..Len(grown.advice)
    BY <1>5, <1>8, <1>12
  <2>2. \A k \in Kinds : IsInjective(grown.queries[k])
    BY <1>4 DEF Wired, QueriesSound
  <2> QED  BY <1>4, <1>8, <1>14, <1>15, <2>1, <2>2 DEF QueriesSound
<1> QED  BY <1>5, <1>6, <1>7, <1>8, <1>9, <1>10, <1>11, <1>16 DEF Wired

\* A permuted column that is queried
LEMMA WiredPermutation ==
    ASSUME NEW sys, Wired(sys), NEW column \in Kinds \X Nat,
           \E i : Listed(sys, column[1], column[2], 0, i),
           NEW grown, Sets(grown, sys, "permutation", Append(sys.permutation, column))
    PROVE  Wired(grown)
<1>1. "permutation" \in Fields \ {"queries"}
  BY DEF Fields, EmptySystem
<1>2. PICK more : more = Append(sys.permutation, column)
  OBVIOUS
<1>3. /\ IsSystem(grown) /\ grown.permutation = more /\ grown.queries = sys.queries
      /\ \A f \in Fields \ {"permutation"} : grown[f] = sys[f]
      /\ \A k, c, a, i : Listed(grown, k, c, a, i) <=> Listed(sys, k, c, a, i)
  <2>1. IsSystem(sys) /\ Sets(grown, sys, "permutation", more)
    BY <1>2 DEF Wired
  <2>2. /\ IsSystem(grown) /\ grown["permutation"] = more /\ grown.queries = sys.queries
        /\ \A f \in Fields \ {"permutation"} : grown[f] = sys[f]
        /\ \A k, c, a, i : Listed(grown, k, c, a, i) <=> Listed(sys, k, c, a, i)
    BY ONLY <1>1, <2>1, SetsKeeps
  <2> QED  BY <2>2
<1>4. /\ grown.gates = sys.gates /\ grown.lookups = sys.lookups
      /\ grown.advice = sys.advice /\ grown.advice_counts = sys.advice_counts
      /\ grown.fixed = sys.fixed /\ grown.instance = sys.instance
      /\ grown.selectors = sys.selectors /\ grown.minimum = sys.minimum
  BY <1>3 DEF Fields, EmptySystem
<1>5. Sized(grown) /\ grown.selectors \in Nat /\ sys.selectors \in Nat /\ sys.selectors <= grown.selectors
  BY <1>4 DEF Wired, Sized
<1>6. PolysSound(grown)
  BY <1>3, <1>4, <1>5, PolysSame DEF Wired
<1>7. QueriesSound(grown)
  BY <1>3, <1>4 DEF Wired, QueriesSound
<1>8. PICK s : s = sys.permutation
  OBVIOUS
<1>9. s \in Seq(Kinds \X Nat) /\ \A k \in 1..Len(s) : \E i : Listed(sys, s[k][1], s[k][2], 0, i)
  BY <1>8 DEF Wired, PermutationSound
<1>10. /\ more \in Seq(Kinds \X Nat) /\ Len(more) = Len(s) + 1 /\ Len(s) \in Nat
       /\ more[Len(s) + 1] = column /\ \A k \in 1..Len(s) : more[k] = s[k]
  BY <1>2, <1>8, <1>9, AppendPlaces
<1>11. ASSUME NEW k \in 1..Len(more) PROVE \E i : Listed(grown, more[k][1], more[k][2], 0, i)
  <2>1. CASE k \in 1..Len(s)
    BY <1>3, <1>9, <1>10, <2>1
  <2>2. CASE k \notin 1..Len(s)
    <3>1. k = Len(s) + 1
      BY <1>10, <2>2
    <3> QED  BY <1>3, <1>10, <3>1
  <2> QED  BY <2>1, <2>2
<1>12. PermutationSound(grown)
  BY <1>3, <1>10, <1>11 DEF PermutationSound
<1> QED  BY <1>3, <1>5, <1>6, <1>7, <1>12 DEF Wired

\* The system with the same columns and selectors
SameSizes(sys, grown) == grown.advice = sys.advice /\ grown.selectors = sys.selectors

\* With the same polynomials and minimum degree
SamePolys(sys, grown) ==
    grown.gates = sys.gates /\ grown.lookups = sys.lookups /\ grown.minimum = sys.minimum

\* enable_equality queries the column, then permutes it.
LEMMA WiredEquality ==
    ASSUME NEW sys, Wired(sys), NEW column \in Kinds \X Nat,
           column[1] = "advice" => column[2] \in 1..Len(sys.advice),
           NEW grown, grown = EnableEquality(sys, column)
    PROVE  Wired(grown) /\ SameSizes(sys, grown) /\ SamePolys(sys, grown)
<1>1. PICK queried : queried = Query(sys, column[1], column[2], 0)
  OBVIOUS
<1>2. CellOf(sys, column[1], column[2], 0)
  BY DEF CellOf
<1>3. /\ Queried(sys, queried) /\ \E i : Listed(queried, column[1], column[2], 0, i)
  BY <1>1, <1>2, QueryStep DEF Wired, Queried
<1>4. Wired(queried) /\ SameSizes(sys, queried) /\ SamePolys(sys, queried)
  <2>1. Wired(queried)
    BY <1>3, WiredGrows
  <2> QED  BY <1>3, <2>1 DEF Queried, Grows, SameSizes, SamePolys, Fields, EmptySystem
<1>5. CASE Contains(sys.permutation, column)
  BY <1>1, <1>4, <1>5 DEF EnableEquality
<1>6. CASE ~ Contains(sys.permutation, column)
  <2>1. DOMAIN queried = Fields
    BY <1>4, SystemFields DEF Wired
  <2>2. Sets(grown, queried, "permutation", Append(queried.permutation, column))
    BY <1>1, <1>6, <2>1 DEF EnableEquality, Sets
  <2>3. Wired(grown)
    BY <1>3, <1>4, <2>2, WiredPermutation
  <2>4. SameSizes(queried, grown) /\ SamePolys(queried, grown)
    BY <2>2 DEF Sets, SameSizes, SamePolys, Fields, EmptySystem
  <2> QED  BY <1>4, <2>3, <2>4 DEF SameSizes, SamePolys
<1> QED  BY <1>5, <1>6

\* enable_constant permutes a fixed column.
LEMMA WiredConstant ==
    ASSUME NEW sys, Wired(sys), NEW column \in Nat, NEW grown, grown = EnableConstant(sys, column)
    PROVE  Wired(grown) /\ SameSizes(sys, grown) /\ SamePolys(sys, grown)
<1>1. CASE Contains(sys.constants, column)
  BY <1>1 DEF EnableConstant, SameSizes, SamePolys
<1>2. CASE ~ Contains(sys.constants, column)
  <2>1. PICK mid, pair : mid = [sys EXCEPT !.constants = Append(@, column)] /\ pair = <<"fixed", column>>
    OBVIOUS
  <2>2. DOMAIN sys = Fields
    BY SystemFields DEF Wired
  <2>3. Sets(mid, sys, "constants", Append(sys.constants, column))
    BY <2>1, <2>2 DEF Sets
  <2>4. Wired(mid) /\ SameSizes(sys, mid) /\ SamePolys(sys, mid)
    <3>1. Wired(mid) /\ SameSizes(sys, mid)
      BY <2>3, WiredOther DEF SameSizes
    <3> QED  BY <2>3, <3>1 DEF Sets, SamePolys, Fields, EmptySystem
  <2>5. grown = EnableEquality(mid, pair)
    BY <1>2, <2>1 DEF EnableConstant
  <2>6. pair \in Kinds \X Nat /\ pair[1] # "advice"
    BY <2>1 DEF Kinds
  <2>7. Wired(grown) /\ SameSizes(mid, grown) /\ SamePolys(mid, grown)
    BY <2>4, <2>5, <2>6, WiredEquality
  <2> QED  BY <2>4, <2>7 DEF SameSizes, SamePolys
<1> QED  BY <1>1, <1>2

(* ------------------------------ gates and lookups ------------------------------ *)

\* All of a list of factors may be queried.
AllAskable(sys, factors) == factors \in Seq(Cells) /\ \A f \in Range(factors) : Askable(sys, f)

\* The factors of a polynomial in the order of its terms
LEMMA NamedStep ==
    ASSUME NEW sys, NEW p, Asks(sys, p)
    PROVE  /\ AllAskable(sys, Named(p))
           /\ \A t \in 1..Len(p.terms) : \A i \in 1..Len(p.terms[t]) : p.terms[t][i] \in Range(Named(p))
<1>1. PICK s : s = p.terms
  OBVIOUS
<1>2. s \in Seq(Seq(Cells)) /\ \A t \in 1..Len(s) : s[t] \in Seq(Cells) /\ DOMAIN s[t] = 1..Len(s[t])
  BY <1>1 DEF Asks, Polyforms
<1>3. PICK V : V = Cells
  OBVIOUS
<1>4. s \in Seq(Seq(V))
  BY <1>2, <1>3
<1>5. FlattenSeq(s) \in Seq(V) /\ Range(FlattenSeq(s)) = UNION {Range(s[i]) : i \in 1..Len(s)}
  BY ONLY <1>4, FlattenType, FlattenRange
<1>6. Named(p) = FlattenSeq(s)
  BY <1>1 DEF Named
<1>7. \A t \in 1..Len(s) : \A i \in 1..Len(s[t]) : s[t][i] \in Range(s[t])
  BY <1>2 DEF Range
<1>8. \A t \in 1..Len(s) : \A f \in Range(s[t]) : Askable(sys, f)
  BY <1>1, <1>2 DEF Asks, Range
<1> QED  BY <1>1, <1>3, <1>5, <1>6, <1>7, <1>8 DEF AllAskable

\* Enumerates of factors one after the other
LEMMA FlatAsks ==
    ASSUME NEW sys, NEW n \in Nat, NEW lists, lists = [i \in 1..n |-> lists[i]],
           \A i \in 1..n : AllAskable(sys, lists[i])
    PROVE  /\ AllAskable(sys, FlattenSeq(lists))
           /\ \A i \in 1..n : \A f \in Range(lists[i]) : f \in Range(FlattenSeq(lists))
<1>1. PICK V, W : V = Cells /\ W = Seq(Cells)
  OBVIOUS
<1>2. \A i \in 1..n : lists[i] \in W
  BY <1>1 DEF AllAskable
<1>3. lists \in Seq(W) /\ Len(lists) = n
  BY ONLY <1>2, n \in Nat, lists = [i \in 1..n |-> lists[i]], IsSequence
<1>4. lists \in Seq(Seq(V))
  BY <1>1, <1>3
<1>5. FlattenSeq(lists) \in Seq(V) /\ Range(FlattenSeq(lists)) = UNION {Range(lists[i]) : i \in 1..n}
  BY ONLY <1>3, <1>4, FlattenType, FlattenRange
<1> QED  BY <1>1, <1>5 DEF AllAskable

\* Two lists one after the other
LEMMA BothAsk ==
    ASSUME NEW sys, NEW s, NEW t, AllAskable(sys, s), AllAskable(sys, t)
    PROVE  /\ AllAskable(sys, s \o t)
           /\ \A f : f \in Range(s) \/ f \in Range(t) => f \in Range(s \o t)
<1>1. PICK V : V = Cells
  OBVIOUS
<1>2. s \in Seq(V) /\ t \in Seq(V)
  BY <1>1 DEF AllAskable
<1>3. s \o t \in Seq(V) /\ Range(s \o t) = Range(s) \cup Range(t)
  BY ONLY <1>2, ConcatRange
<1> QED  BY <1>1, <1>3 DEF AllAskable

\* A system in which a list of factors has been queried
LEMMA QueriedFactors ==
    ASSUME NEW sys, Wired(sys), NEW factors, AllAskable(sys, factors),
           NEW done, done = QueryCells(sys, factors)
    PROVE  /\ Queried(sys, done) /\ Wired(done) /\ SameSizes(sys, done) /\ SamePolys(sys, done)
           /\ \A f \in Range(factors) : IsCell(f) => \E i : Listed(done, f.kind, f.column, f.at, i)
<1>1. PICK n : n = Len(factors)
  OBVIOUS
<1>2. n \in Nat /\ DOMAIN factors = 1..n
  BY <1>1 DEF AllAskable
<1>3. IsSystem(sys) /\ QueriesSound(sys)
  BY DEF Wired
<1>4. \A j \in 1..n : Askable(sys, factors[j])
  BY <1>2 DEF AllAskable, Range
<1>5. /\ Queried(sys, done)
      /\ \A j \in 1..n : IsCell(factors[j]) =>
           \E i : Listed(done, factors[j].kind, factors[j].column, factors[j].at, i)
  BY ONLY <1>1, <1>2, <1>3, <1>4, done = QueryCells(sys, factors), QueryCellsStep
<1>6. Wired(done)
  BY <1>5, WiredGrows
<1>7. SameSizes(sys, done) /\ SamePolys(sys, done)
  BY <1>5 DEF Queried, Grows, SameSizes, SamePolys, Fields, EmptySystem
<1> QED  BY <1>2, <1>5, <1>6, <1>7 DEF Range

\* A polynomial whose factors are among those queried can be indexed.
LEMMA AskedIndexed ==
    ASSUME NEW sys, Wired(sys), NEW factors, AllAskable(sys, factors),
           NEW done, done = QueryCells(sys, factors), NEW p, Asks(sys, p),
           \A f \in Range(Named(p)) : f \in Range(factors)
    PROVE  Indexed(done, AssignIndices(done, p))
<1>1. /\ IsSystem(done) /\ QueriesSound(done) /\ SameSizes(sys, done)
      /\ \A f \in Range(factors) : IsCell(f) => \E i : Listed(done, f.kind, f.column, f.at, i)
  BY QueriedFactors DEF Wired
<1>2. Asks(done, p)
  BY <1>1 DEF Asks, Askable, CellOf, SameSizes, GuardSound
<1>3. \A t \in 1..Len(p.terms) : \A i \in 1..Len(p.terms[t]) : p.terms[t][i] \in Range(factors)
  BY NamedStep
<1>4. \A t \in 1..Len(p.terms) : \A i \in 1..Len(p.terms[t]) :
          IsCell(p.terms[t][i]) => p.terms[t][i].kind \in Kinds
  BY DEF Asks, Askable, CellOf
<1>5. AllListed(done, p)
  BY <1>1, <1>3, <1>4 DEF AllListed
<1> QED  BY <1>1, <1>2, <1>5, AssignIndicesStep

\* One more gate
LEMMA WiredGates ==
    ASSUME NEW sys, Wired(sys), NEW gate \in Seq(Polyforms), \A i \in 1..Len(gate) : Indexed(sys, gate[i]),
           NEW grown, Sets(grown, sys, "gates", Append(sys.gates, gate))
    PROVE  Wired(grown) /\ SameSizes(sys, grown)
<1>1. PICK old, more, V : old = sys.gates /\ more = Append(sys.gates, gate) /\ V = Seq(Polyforms)
  OBVIOUS
<1>2. "gates" \in Fields \ {"queries"}
  BY DEF Fields, EmptySystem
<1>3. /\ IsSystem(grown) /\ grown["gates"] = more /\ grown.queries = sys.queries
      /\ \A f \in Fields \ {"gates"} : grown[f] = sys[f]
      /\ \A k, c, a, i : Listed(grown, k, c, a, i) <=> Listed(sys, k, c, a, i)
  <2>1. IsSystem(sys) /\ Sets(grown, sys, "gates", more)
    BY <1>1 DEF Wired
  <2> QED  BY ONLY <1>2, <2>1, SetsKeeps
<1>4. /\ grown.gates = more /\ grown.lookups = sys.lookups /\ grown.permutation = sys.permutation
      /\ grown.advice = sys.advice /\ grown.advice_counts = sys.advice_counts
      /\ grown.fixed = sys.fixed /\ grown.instance = sys.instance
      /\ grown.selectors = sys.selectors /\ grown.minimum = sys.minimum
  BY <1>3 DEF Fields, EmptySystem
<1>5. old \in Seq(V) /\ gate \in V
  BY <1>1 DEF Wired, PolysSound
<1>6. /\ more \in Seq(V) /\ Len(more) = Len(old) + 1 /\ Len(old) \in Nat
      /\ more[Len(old) + 1] = gate /\ \A g \in 1..Len(old) : more[g] = old[g]
  BY <1>1, <1>5, AppendPlaces
<1>7. \A p : Indexed(sys, p) => Indexed(grown, p)
  BY <1>3, <1>4, IndexedSame DEF Wired, Sized
<1>8. ASSUME NEW g \in 1..Len(more), NEW i \in 1..Len(more[g]) PROVE Indexed(grown, more[g][i])
  <2>1. CASE g \in 1..Len(old)
    BY <1>1, <1>6, <1>7, <1>8, <2>1 DEF Wired, PolysSound
  <2>2. CASE g \notin 1..Len(old)
    <3>1. g = Len(old) + 1
      BY <1>6, <2>2
    <3> QED  BY <1>6, <1>7, <1>8, <3>1
  <2> QED  BY <2>1, <2>2
<1>9. PolysSound(grown)
  BY <1>1, <1>4, <1>6, <1>7, <1>8 DEF Wired, PolysSound
<1>10. PermutationSound(grown) /\ QueriesSound(grown) /\ Sized(grown)
  BY <1>3, <1>4 DEF Wired, PermutationSound, QueriesSound, Sized
<1> QED  BY <1>3, <1>4, <1>9, <1>10 DEF Wired, SameSizes

\* One more lookup
LEMMA WiredLookups ==
    ASSUME NEW sys, Wired(sys), NEW lookup \in Seq(Polyforms \X Polyforms),
           \A i \in 1..Len(lookup) : Indexed(sys, lookup[i][1]) /\ Indexed(sys, lookup[i][2]),
           NEW grown, Sets(grown, sys, "lookups", Append(sys.lookups, lookup))
    PROVE  Wired(grown) /\ SameSizes(sys, grown)
<1>1. PICK old, more, V : old = sys.lookups /\ more = Append(sys.lookups, lookup) /\ V = Seq(Polyforms \X Polyforms)
  OBVIOUS
<1>2. "lookups" \in Fields \ {"queries"}
  BY DEF Fields, EmptySystem
<1>3. /\ IsSystem(grown) /\ grown["lookups"] = more /\ grown.queries = sys.queries
      /\ \A f \in Fields \ {"lookups"} : grown[f] = sys[f]
      /\ \A k, c, a, i : Listed(grown, k, c, a, i) <=> Listed(sys, k, c, a, i)
  <2>1. IsSystem(sys) /\ Sets(grown, sys, "lookups", more)
    BY <1>1 DEF Wired
  <2> QED  BY ONLY <1>2, <2>1, SetsKeeps
<1>4. /\ grown.lookups = more /\ grown.gates = sys.gates /\ grown.permutation = sys.permutation
      /\ grown.advice = sys.advice /\ grown.advice_counts = sys.advice_counts
      /\ grown.fixed = sys.fixed /\ grown.instance = sys.instance
      /\ grown.selectors = sys.selectors /\ grown.minimum = sys.minimum
  BY <1>3 DEF Fields, EmptySystem
<1>5. old \in Seq(V) /\ lookup \in V
  BY <1>1 DEF Wired, PolysSound
<1>6. /\ more \in Seq(V) /\ Len(more) = Len(old) + 1 /\ Len(old) \in Nat
      /\ more[Len(old) + 1] = lookup /\ \A g \in 1..Len(old) : more[g] = old[g]
  BY <1>1, <1>5, AppendPlaces
<1>7. \A p : Indexed(sys, p) => Indexed(grown, p)
  BY <1>3, <1>4, IndexedSame DEF Wired, Sized
<1>8. ASSUME NEW l \in 1..Len(more), NEW i \in 1..Len(more[l])
      PROVE  Indexed(grown, more[l][i][1]) /\ Indexed(grown, more[l][i][2])
  <2>1. CASE l \in 1..Len(old)
    BY <1>1, <1>6, <1>7, <1>8, <2>1 DEF Wired, PolysSound
  <2>2. CASE l \notin 1..Len(old)
    <3>1. l = Len(old) + 1
      BY <1>6, <2>2
    <3> QED  BY <1>6, <1>7, <1>8, <3>1
  <2> QED  BY <2>1, <2>2
<1>9. PolysSound(grown)
  BY <1>1, <1>4, <1>6, <1>7, <1>8 DEF Wired, PolysSound
<1>10. PermutationSound(grown) /\ QueriesSound(grown) /\ Sized(grown)
  BY <1>3, <1>4 DEF Wired, PermutationSound, QueriesSound, Sized
<1> QED  BY <1>3, <1>4, <1>9, <1>10 DEF Wired, SameSizes

\* A system with one more gate, of polynomials that differ in their indices
GateAdded(sys, grown, n, polys) ==
    /\ grown.lookups = sys.lookups /\ grown.minimum = sys.minimum
    /\ \E done, gate : /\ grown.gates = Append(sys.gates, gate)
                       /\ gate = [i \in 1..n |-> AssignIndices(done, polys[i])]

\* create_gate queries everything the closure names, then indexes it.
LEMMA WiredGate ==
    ASSUME NEW sys, Wired(sys), NEW eager, AllAskable(sys, eager), NEW n \in Nat,
           NEW polys, polys = [i \in 1..n |-> polys[i]], \A i \in 1..n : Asks(sys, polys[i]),
           NEW grown, grown = CreateGate(sys, eager, polys)
    PROVE  Wired(grown) /\ SameSizes(sys, grown) /\ GateAdded(sys, grown, n, polys)
<1>1. PICK lists : lists = [i \in 1..n |-> Named(polys[i])]
  OBVIOUS
<1>2. PICK all, done : all = eager \o FlattenSeq(lists) /\ done = QueryCells(sys, all)
  OBVIOUS
<1>3. lists = [i \in 1..n |-> lists[i]] /\ \A i \in 1..n : AllAskable(sys, lists[i])
  BY <1>1, NamedStep
<1>4. /\ AllAskable(sys, FlattenSeq(lists))
      /\ \A i \in 1..n : \A f \in Range(lists[i]) : f \in Range(FlattenSeq(lists))
  BY ONLY <1>3, n \in Nat, FlatAsks
<1>5. AllAskable(sys, all) /\ \A f : f \in Range(FlattenSeq(lists)) => f \in Range(all)
  BY ONLY <1>2, <1>4, AllAskable(sys, eager), BothAsk
<1>6. /\ Queried(sys, done) /\ Wired(done) /\ SameSizes(sys, done) /\ SamePolys(sys, done)
  BY <1>2, <1>5, QueriedFactors
<1>7. PICK gate : gate = [i \in 1..n |-> AssignIndices(done, polys[i])]
  OBVIOUS
<1>8. ASSUME NEW i \in 1..n PROVE gate[i] \in Polyforms /\ Indexed(done, gate[i])
  <2>1. Indexed(done, AssignIndices(done, polys[i]))
    BY <1>1, <1>2, <1>4, <1>5, AskedIndexed
  <2> QED  BY <1>7, <2>1 DEF Indexed
<1>9. gate \in Seq(Polyforms) /\ Len(gate) = n
  <2>1. gate = [i \in 1..n |-> gate[i]] /\ \A i \in 1..n : gate[i] \in Polyforms
    BY <1>7, <1>8
  <2> QED  BY ONLY <2>1, n \in Nat, IsSequence
<1>10. DOMAIN polys = 1..n /\ DOMAIN done = Fields
  BY <1>6, SystemFields DEF Wired
<1>11. grown = [done EXCEPT !.gates = Append(@, gate)]
  BY <1>1, <1>2, <1>7, <1>10 DEF CreateGate
<1>12. Sets(grown, done, "gates", Append(done.gates, gate))
  BY <1>10, <1>11 DEF Sets
<1>13. Wired(grown) /\ SameSizes(done, grown)
  BY <1>6, <1>8, <1>9, <1>12, WiredGates
<1>14. /\ grown.gates = Append(sys.gates, gate)
       /\ grown.lookups = sys.lookups /\ grown.minimum = sys.minimum
  BY <1>6, <1>12 DEF Sets, SamePolys, Fields, EmptySystem
<1>15. GateAdded(sys, grown, n, polys)
  BY <1>7, <1>14 DEF GateAdded
<1> QED  BY <1>6, <1>13, <1>15 DEF SameSizes

\* The pairs of polynomials of a lookup
AllPairs(sys, n, pairs) ==
    /\ n \in Nat /\ pairs = [i \in 1..n |-> pairs[i]]
    /\ \A i \in 1..n : Asks(sys, pairs[i][1]) /\ Asks(sys, pairs[i][2])

\* A system with one more lookup, of pairs that differ in their indices
LookupAdded(sys, grown, n, pairs) ==
    /\ grown.gates = sys.gates /\ grown.minimum = sys.minimum
    /\ \E done, lookup : /\ grown.lookups = Append(sys.lookups, lookup)
                         /\ lookup = [i \in 1..n |-> <<AssignIndices(done, pairs[i][1]),
                                                      AssignIndices(done, pairs[i][2])>>]

\* A lookup indexes what has been queried for it.
LEMMA WiredAddLookup ==
    ASSUME NEW sys, Wired(sys), NEW n, NEW pairs, AllPairs(sys, n, pairs),
           NEW factors, AllAskable(sys, factors), NEW done, done = QueryCells(sys, factors),
           \A i \in 1..n : \A f : f \in Range(Named(pairs[i][1])) \/ f \in Range(Named(pairs[i][2]))
                                    => f \in Range(factors),
           NEW grown, grown = AddLookup(done, pairs)
    PROVE  Wired(grown) /\ SameSizes(sys, grown) /\ LookupAdded(sys, grown, n, pairs)
<1>1. Queried(sys, done) /\ Wired(done) /\ SameSizes(sys, done) /\ SamePolys(sys, done)
  BY QueriedFactors
<1>2. PICK lookup : lookup = [i \in 1..n |-> <<AssignIndices(done, pairs[i][1]), AssignIndices(done, pairs[i][2])>>]
  OBVIOUS
<1>3. n \in Nat /\ pairs = [i \in 1..n |-> pairs[i]] /\ DOMAIN pairs = 1..n
  BY DEF AllPairs
<1>4. ASSUME NEW i \in 1..n
      PROVE  /\ lookup[i] \in Polyforms \X Polyforms
             /\ Indexed(done, lookup[i][1]) /\ Indexed(done, lookup[i][2])
  <2>1. Asks(sys, pairs[i][1]) /\ Asks(sys, pairs[i][2])
    BY <1>4 DEF AllPairs
  <2>2. Indexed(done, AssignIndices(done, pairs[i][1]))
    BY <1>4, <2>1, AskedIndexed
  <2>3. Indexed(done, AssignIndices(done, pairs[i][2]))
    BY <1>4, <2>1, AskedIndexed
  <2>4. lookup[i] = <<AssignIndices(done, pairs[i][1]), AssignIndices(done, pairs[i][2])>>
    BY <1>2, <1>4
  <2> QED  BY <2>2, <2>3, <2>4 DEF Indexed
<1>5. lookup \in Seq(Polyforms \X Polyforms) /\ Len(lookup) = n
  <2>1. PICK V : V = Polyforms \X Polyforms
    OBVIOUS
  <2>2. lookup = [i \in 1..n |-> lookup[i]] /\ \A i \in 1..n : lookup[i] \in V
    BY <1>2, <1>4, <2>1
  <2>3. lookup \in Seq(V) /\ Len(lookup) = n
    BY ONLY <1>3, <2>2, IsSequence
  <2> QED  BY <2>1, <2>3
<1>6. DOMAIN done = Fields
  BY <1>1, SystemFields DEF Wired
<1>7. grown = [done EXCEPT !.lookups = Append(@, lookup)]
  BY <1>2, <1>3 DEF AddLookup
<1>8. Sets(grown, done, "lookups", Append(done.lookups, lookup))
  BY <1>6, <1>7 DEF Sets
<1>9. Wired(grown) /\ SameSizes(done, grown)
  BY <1>1, <1>4, <1>5, <1>8, WiredLookups
<1>10. /\ grown.lookups = Append(sys.lookups, lookup)
       /\ grown.gates = sys.gates /\ grown.minimum = sys.minimum
  BY <1>1, <1>8 DEF Sets, SamePolys, Fields, EmptySystem
<1>11. LookupAdded(sys, grown, n, pairs)
  BY <1>2, <1>10 DEF LookupAdded
<1> QED  BY <1>1, <1>9, <1>11 DEF SameSizes

\* lookup_any
LEMMA WiredLookupAny ==
    ASSUME NEW sys, Wired(sys), NEW n, NEW pairs, AllPairs(sys, n, pairs),
           NEW grown, grown = LookupAny(sys, pairs)
    PROVE  Wired(grown) /\ SameSizes(sys, grown) /\ LookupAdded(sys, grown, n, pairs)
<1>1. n \in Nat /\ pairs = [i \in 1..n |-> pairs[i]] /\ DOMAIN pairs = 1..n
  BY DEF AllPairs
<1>2. PICK lists : lists = [i \in 1..n |-> Named(pairs[i][1]) \o Named(pairs[i][2])]
  OBVIOUS
<1>3. PICK all, done : all = FlattenSeq(lists) /\ done = QueryCells(sys, all)
  OBVIOUS
<1>4. ASSUME NEW i \in 1..n
      PROVE  /\ AllAskable(sys, lists[i])
             /\ \A f : f \in Range(Named(pairs[i][1])) \/ f \in Range(Named(pairs[i][2])) => f \in Range(lists[i])
  <2>1. Asks(sys, pairs[i][1]) /\ Asks(sys, pairs[i][2])
    BY <1>4 DEF AllPairs
  <2>2. AllAskable(sys, Named(pairs[i][1])) /\ AllAskable(sys, Named(pairs[i][2]))
    BY <2>1, NamedStep
  <2>3. lists[i] = Named(pairs[i][1]) \o Named(pairs[i][2])
    BY <1>2, <1>4
  <2> QED  BY <2>2, <2>3, BothAsk
<1>5. lists = [i \in 1..n |-> lists[i]]
  BY <1>2
<1>6. AllAskable(sys, all) /\ \A i \in 1..n : \A f \in Range(lists[i]) : f \in Range(all)
  <2>1. \A i \in 1..n : AllAskable(sys, lists[i])
    BY <1>4
  <2> QED  BY ONLY <1>1, <1>3, <1>5, <2>1, FlatAsks
<1>7. grown = AddLookup(done, pairs)
  BY <1>1, <1>2, <1>3 DEF LookupAny
<1>8. \A i \in 1..n : \A f : f \in Range(Named(pairs[i][1])) \/ f \in Range(Named(pairs[i][2])) => f \in Range(all)
  BY <1>4, <1>6
<1> QED  BY <1>3, <1>6, <1>7, <1>8, WiredAddLookup

\* A table column as an expression
TablePoly(column) == Poly(NoGuard, << <<Cell("fixed", column, 0)>> >>)

\* A table column is asked for where a lookup reads it.
LEMMA TableAsks ==
    ASSUME NEW sys, NEW column \in Nat
    PROVE  Asks(sys, TablePoly(column))
<1>1. PICK f, p : f = Cell("fixed", column, 0) /\ p = TablePoly(column)
  OBVIOUS
<1>2. f \in Cells /\ f.kind = "fixed" /\ f.column = column /\ f.at = 0
  BY <1>1 DEF Cell, Cells, Kinds, None
<1>3. Askable(sys, f) /\ IsCell(f)
  BY <1>2 DEF Askable, CellOf, IsCell, Kinds
<1>4. p.guard = NoGuard /\ p.terms = << <<f>> >>
  BY <1>1 DEF TablePoly, Poly
<1>5. NoGuard \in Guards /\ GuardSound(sys, NoGuard)
  BY DEF NoGuard, Guards, None, GuardSound
<1>6. <<f>> \in Seq(Cells) /\ << <<f>> >> \in Seq(Seq(Cells))
  BY <1>2
<1>7. p \in Polyforms
  BY <1>1, <1>5, <1>6 DEF TablePoly, Poly, Polyforms
<1>8. \A t \in 1..Len(p.terms) : \A i \in 1..Len(p.terms[t]) : p.terms[t][i] = f
  BY <1>4
<1> QED  BY <1>1, <1>3, <1>4, <1>5, <1>7, <1>8 DEF Asks

\* lookup, against table columns
LEMMA WiredLookup ==
    ASSUME NEW sys, Wired(sys), NEW n \in Nat, NEW pairs, pairs = [i \in 1..n |-> pairs[i]],
           \A i \in 1..n : Asks(sys, pairs[i][1]) /\ pairs[i][2] \in Nat,
           NEW grown, grown = Lookup(sys, pairs)
    PROVE  /\ Wired(grown) /\ SameSizes(sys, grown)
           /\ LookupAdded(sys, grown, n, [i \in 1..n |-> <<pairs[i][1], TablePoly(pairs[i][2])>>])
<1>1. DOMAIN pairs = 1..n
  OBVIOUS
<1>2. PICK lists : lists = [i \in 1..n |-> Named(TablePoly(pairs[i][2])) \o Named(pairs[i][1])]
  OBVIOUS
<1>3. PICK all, done : all = FlattenSeq(lists) /\ done = QueryCells(sys, all)
  OBVIOUS
<1>4. PICK more : more = [i \in 1..n |-> <<pairs[i][1], TablePoly(pairs[i][2])>>]
  OBVIOUS
<1>5. /\ more = [i \in 1..n |-> more[i]]
      /\ \A i \in 1..n : more[i][1] = pairs[i][1] /\ more[i][2] = TablePoly(pairs[i][2])
  BY <1>4
<1>6. \A i \in 1..n : Asks(sys, more[i][1]) /\ Asks(sys, more[i][2])
  BY <1>5, TableAsks
<1>7. AllPairs(sys, n, more)
  BY <1>5, <1>6 DEF AllPairs
<1>8. ASSUME NEW i \in 1..n
      PROVE  /\ AllAskable(sys, lists[i])
             /\ \A f : f \in Range(Named(more[i][1])) \/ f \in Range(Named(more[i][2])) => f \in Range(lists[i])
  <2>1. AllAskable(sys, Named(more[i][1])) /\ AllAskable(sys, Named(more[i][2]))
    BY <1>6, <1>8, NamedStep
  <2>2. lists[i] = Named(more[i][2]) \o Named(more[i][1])
    BY <1>2, <1>5, <1>8
  <2> QED  BY <2>1, <2>2, BothAsk
<1>9. lists = [i \in 1..n |-> lists[i]]
  BY <1>2
<1>10. AllAskable(sys, all) /\ \A i \in 1..n : \A f \in Range(lists[i]) : f \in Range(all)
  <2>1. \A i \in 1..n : AllAskable(sys, lists[i])
    BY <1>8
  <2> QED  BY ONLY n \in Nat, <1>3, <1>9, <2>1, FlatAsks
<1>11. grown = AddLookup(done, more)
  BY <1>1, <1>2, <1>3, <1>4 DEF Lookup, TablePoly
<1>12. \A i \in 1..n : \A f : f \in Range(Named(more[i][1])) \/ f \in Range(Named(more[i][2])) => f \in Range(all)
  BY <1>8, <1>10
<1>13. Wired(grown) /\ SameSizes(sys, grown) /\ LookupAdded(sys, grown, n, more)
  BY <1>3, <1>7, <1>10, <1>11, <1>12, WiredAddLookup
<1> QED  BY <1>4, <1>13

(* ---------------------------- kinds of selectors -------------------------------- *)

\* Simple and complex selectors stay apart in a system's polynomials, and its minimum
\* degree is below the field's order.
SelectorsSound(sys, simple) ==
    /\ sys.minimum < Prime
    /\ \A g \in 1..Len(sys.gates) : \A i \in 1..Len(sys.gates[g]) : SelectorsApart(simple, sys.gates[g][i])
    /\ \A l \in 1..Len(sys.lookups) : \A i \in 1..Len(sys.lookups[l]) :
          SelectorsApart(simple, sys.lookups[l][i][1]) /\ SelectorsApart(simple, sys.lookups[l][i][2])

\* Indices do not tell selectors apart.
LEMMA ApartIndexed ==
    ASSUME NEW sys, NEW simple, NEW p, SelectorsApart(simple, p),
           NEW q, q = AssignIndices(sys, p)
    PROVE  SelectorsApart(simple, q)
<1> DEFINE placed(f) == IF IsCell(f) THEN [f EXCEPT !.index = Position(sys, f.kind, f.column, f.at)] ELSE f
<1>1. /\ q.guard = IF p.guard.kind = "column"
                   THEN [p.guard EXCEPT !.index = Position(sys, "fixed", p.guard.column, 0)] ELSE p.guard
      /\ q.terms = [t \in DOMAIN p.terms |-> [i \in DOMAIN p.terms[t] |-> placed(p.terms[t][i])]]
  BY DEF AssignIndices
<1> HIDE DEF placed
<1>2. q.guard.kind = "simple" => q.guard.column \in simple
  <2>1. CASE p.guard.kind = "column"
    <3>1. q.guard = [p.guard EXCEPT !.index = Position(sys, "fixed", p.guard.column, 0)]
      BY <1>1, <2>1
    <3>2. q.guard.kind = p.guard.kind
      BY <2>1, <3>1
    <3> QED  BY <2>1, <3>2
  <2>2. CASE p.guard.kind # "column"
    BY <1>1, <2>2 DEF SelectorsApart
  <2> QED  BY <2>1, <2>2
<1>3. ASSUME NEW s \in ToSet(q.terms), NEW f \in ToSet(s), ~ IsCell(f) PROVE f.column \notin simple
  <2>1. PICK t \in DOMAIN p.terms : s = q.terms[t]
    BY <1>1 DEF ToSet
  <2>2. s = [i \in DOMAIN p.terms[t] |-> placed(p.terms[t][i])]
    BY <1>1, <2>1
  <2>3. PICK i \in DOMAIN p.terms[t] : f = placed(p.terms[t][i])
    BY <2>2 DEF ToSet
  <2>4. PICK b : b = p.terms[t][i]
    OBVIOUS
  <2>5. b \in ToSet(p.terms[t]) /\ p.terms[t] \in ToSet(p.terms)
    BY <2>4 DEF ToSet
  <2>6. ~ IsCell(b) => b.column \notin simple
    BY <2>5 DEF SelectorsApart
  <2>7. ~ IsCell(b) => f = b
    BY <2>3, <2>4 DEF placed
  <2>8. IsCell(b) => f.kind = b.kind
    <3>1. ASSUME IsCell(b) PROVE f.kind = b.kind
      <4>1. f = [b EXCEPT !.index = Position(sys, b.kind, b.column, b.at)]
        BY <2>3, <2>4, <3>1 DEF placed
      <4> QED  BY <4>1
    <3> QED  BY <3>1
  <2>9. ~ IsCell(b)
    BY <1>3, <2>8 DEF IsCell
  <2> QED  BY <2>6, <2>7, <2>9
<1> QED  BY <1>2, <1>3 DEF SelectorsApart

\* A table column has no selector.
LEMMA TableApart ==
    ASSUME NEW simple, NEW column
    PROVE  SelectorsApart(simple, TablePoly(column))
<1>1. PICK f, p : f = Cell("fixed", column, 0) /\ p = TablePoly(column)
  OBVIOUS
<1>2. p.guard.kind = "none" /\ p.terms = << <<f>> >> /\ f.kind = "fixed"
  BY <1>1 DEF TablePoly, Poly, NoGuard, Cell
<1>3. \A t \in ToSet(p.terms) : t = <<f>>
  BY <1>2 DEF ToSet
<1>4. \A e \in ToSet(<<f>>) : e = f
  BY DEF ToSet
<1> QED  BY <1>1, <1>2, <1>3, <1>4 DEF SelectorsApart, IsCell

\* Calls that add no polynomials
LEMMA SelectorsStay ==
    ASSUME NEW sys, NEW simple, SelectorsSound(sys, simple), NEW grown, SamePolys(sys, grown)
    PROVE  SelectorsSound(grown, simple)
  BY DEF SelectorsSound, SamePolys

\* A gate
LEMMA SelectorsOfGate ==
    ASSUME NEW sys, Wired(sys), NEW simple, SelectorsSound(sys, simple), NEW n \in Nat, NEW polys,
           \A i \in 1..n : SelectorsApart(simple, polys[i]),
           NEW grown, Wired(grown), GateAdded(sys, grown, n, polys)
    PROVE  SelectorsSound(grown, simple)
<1>1. PICK done, gate : /\ grown.gates = Append(sys.gates, gate)
                        /\ gate = [i \in 1..n |-> AssignIndices(done, polys[i])]
  BY DEF GateAdded
<1>2. PICK old, more : old = sys.gates /\ more = grown.gates
  OBVIOUS
<1>3. PICK V : V = Seq(Polyforms) \cup {gate}
  OBVIOUS
<1>4. old \in Seq(Seq(Polyforms)) /\ Seq(Polyforms) \subseteq V
  BY <1>2, <1>3 DEF Wired, PolysSound
<1>5. old \in Seq(V) /\ gate \in V
  <2>1. PICK U : U = Seq(Polyforms)
    OBVIOUS
  <2>2. old \in Seq(U) /\ U \subseteq V
    BY <1>4, <2>1
  <2>3. old \in Seq(V)
    BY ONLY <2>2
  <2> QED  BY <1>3, <2>3
<1>6. /\ Len(more) = Len(old) + 1 /\ Len(old) \in Nat
      /\ more[Len(old) + 1] = gate /\ \A g \in 1..Len(old) : more[g] = old[g]
  BY <1>1, <1>2, <1>5, AppendPlaces
<1>7. Len(gate) = n /\ \A i \in 1..n : SelectorsApart(simple, gate[i])
  BY <1>1, ApartIndexed
<1>8. ASSUME NEW g \in 1..Len(more), NEW i \in 1..Len(more[g]) PROVE SelectorsApart(simple, more[g][i])
  <2>1. CASE g \in 1..Len(old)
    <3>1. more[g] = old[g]
      BY <1>6, <2>1
    <3> QED  BY <1>2, <1>8, <2>1, <3>1 DEF SelectorsSound
  <2>2. CASE g \notin 1..Len(old)
    <3>1. g = Len(old) + 1
      BY <1>6, <2>2
    <3>2. more[g] = gate
      BY <1>6, <3>1
    <3> QED  BY <1>7, <1>8, <3>2
  <2> QED  BY <2>1, <2>2
<1> QED  BY <1>2, <1>8 DEF GateAdded, SelectorsSound

\* A lookup
LEMMA SelectorsOfLookup ==
    ASSUME NEW sys, Wired(sys), NEW simple, SelectorsSound(sys, simple), NEW n \in Nat, NEW pairs,
           \A i \in 1..n : SelectorsApart(simple, pairs[i][1]) /\ SelectorsApart(simple, pairs[i][2]),
           NEW grown, Wired(grown), LookupAdded(sys, grown, n, pairs)
    PROVE  SelectorsSound(grown, simple)
<1>1. PICK done, lookup : /\ grown.lookups = Append(sys.lookups, lookup)
                          /\ lookup = [i \in 1..n |-> <<AssignIndices(done, pairs[i][1]),
                                                       AssignIndices(done, pairs[i][2])>>]
  BY DEF LookupAdded
<1>2. PICK old, more : old = sys.lookups /\ more = grown.lookups
  OBVIOUS
<1>3. PICK U, V : U = Seq(Polyforms \X Polyforms) /\ V = U \cup {lookup}
  OBVIOUS
<1>4. old \in Seq(U) /\ U \subseteq V
  BY <1>2, <1>3 DEF Wired, PolysSound
<1>5. old \in Seq(V) /\ lookup \in V
  <2>1. old \in Seq(V)
    BY ONLY <1>4
  <2> QED  BY <1>3, <2>1
<1>6. /\ Len(more) = Len(old) + 1 /\ Len(old) \in Nat
      /\ more[Len(old) + 1] = lookup /\ \A l \in 1..Len(old) : more[l] = old[l]
  <2>1. more = Append(old, lookup)
    BY <1>1, <1>2
  <2> QED  BY ONLY <1>5, <2>1, AppendPlaces
<1>7. /\ Len(lookup) = n
      /\ \A i \in 1..n : SelectorsApart(simple, lookup[i][1]) /\ SelectorsApart(simple, lookup[i][2])
  BY <1>1, ApartIndexed
<1>8. ASSUME NEW l \in 1..Len(more), NEW i \in 1..Len(more[l])
      PROVE  SelectorsApart(simple, more[l][i][1]) /\ SelectorsApart(simple, more[l][i][2])
  <2>1. CASE l \in 1..Len(old)
    <3>1. more[l] = old[l]
      BY <1>6, <2>1
    <3> QED  BY <1>2, <1>8, <2>1, <3>1 DEF SelectorsSound
  <2>2. CASE l \notin 1..Len(old)
    <3>1. l = Len(old) + 1
      BY <1>6, <2>2
    <3>2. more[l] = lookup
      BY <1>6, <3>1
    <3> QED  BY <1>7, <1>8, <3>2
  <2> QED  BY <2>1, <2>2
<1> QED  BY <1>2, <1>8 DEF LookupAdded, SelectorsSound

(* -------------------------------- configuration -------------------------------- *)

\* The system after the calls before p: it has the columns and selectors they allocated.
ConfigOf(sys, script, p) ==
    /\ Wired(sys)
    /\ Len(sys.advice) = Allocated(script, p, "advice_column")
    /\ sys.selectors = Allocated(script, p, "selector")

\* A call allocates one or none.
LEMMA AllocatedNext ==
    ASSUME NEW script, NEW p \in Nat \ {0}, NEW name
    PROVE  /\ Allocated(script, p, name) \in Nat
           /\ Allocated(script, p + 1, name)
                = Allocated(script, p, name) + (IF script[p].op = name THEN 1 ELSE 0)
<1>1. PICK before, after : before = {i \in 1..(p - 1) : script[i].op = name}
                           /\ after = {i \in 1..p : script[i].op = name}
  OBVIOUS
<1>2. IsFiniteSet(1..(p - 1)) /\ before \subseteq 1..(p - 1)
  BY <1>1, FS_Interval
<1>3. IsFiniteSet(before)
  BY <1>2, FS_Subset
<1>4. Cardinality(before) \in Nat
  BY <1>3, FS_CardinalityType
<1>5. Allocated(script, p, name) = Cardinality(before) /\ Allocated(script, p + 1, name) = Cardinality(after)
  <2>1. (p + 1) - 1 = p
    OBVIOUS
  <2> QED  BY <1>1, <2>1 DEF Allocated
<1>6. CASE script[p].op = name
  <2>1. after = before \cup {p} /\ p \notin before
    BY <1>1, <1>6
  <2>2. Cardinality(after) = Cardinality(before) + 1
    BY <1>3, <2>1, FS_AddElement
  <2> QED  BY <1>4, <1>5, <1>6, <2>2
<1>7. CASE script[p].op # name
  <2>1. after = before
    BY <1>1, <1>7
  <2> QED  BY <1>4, <1>5, <1>7, <2>1
<1> QED  BY <1>6, <1>7

\* A call that allocates an advice column
LEMMA ConfigAdvice ==
    ASSUME NEW script, NEW p \in Nat \ {0}, NEW sys, ConfigOf(sys, script, p), NEW grown, Wired(grown),
           script[p].op = "advice_column", Len(grown.advice) = Len(sys.advice) + 1,
           grown.selectors = sys.selectors
    PROVE  ConfigOf(grown, script, p + 1)
<1>1. script[p].op # "selector"
  OBVIOUS
<1>2. /\ Allocated(script, p + 1, "advice_column") = Allocated(script, p, "advice_column") + 1
      /\ Allocated(script, p + 1, "selector") = Allocated(script, p, "selector")
  BY ONLY <1>1, script[p].op = "advice_column", p \in Nat \ {0}, AllocatedNext
<1> QED  BY <1>2 DEF ConfigOf

\* A call that allocates a selector
LEMMA ConfigSelector ==
    ASSUME NEW script, NEW p \in Nat \ {0}, NEW sys, ConfigOf(sys, script, p), NEW grown, Wired(grown),
           script[p].op = "selector", grown.advice = sys.advice, grown.selectors = sys.selectors + 1
    PROVE  ConfigOf(grown, script, p + 1)
<1>1. script[p].op # "advice_column"
  OBVIOUS
<1>2. /\ Allocated(script, p + 1, "advice_column") = Allocated(script, p, "advice_column")
      /\ Allocated(script, p + 1, "selector") = Allocated(script, p, "selector") + 1
  BY ONLY <1>1, script[p].op = "selector", p \in Nat \ {0}, AllocatedNext
<1> QED  BY <1>2 DEF ConfigOf

\* A call that allocates neither
LEMMA ConfigKeeps ==
    ASSUME NEW script, NEW p \in Nat \ {0}, NEW sys, ConfigOf(sys, script, p), NEW grown, Wired(grown),
           SameSizes(sys, grown), script[p].op \notin {"advice_column", "selector"}
    PROVE  ConfigOf(grown, script, p + 1)
<1>1. script[p].op # "advice_column" /\ script[p].op # "selector"
  OBVIOUS
<1>2. /\ Allocated(script, p + 1, "advice_column") = Allocated(script, p, "advice_column")
      /\ Allocated(script, p + 1, "selector") = Allocated(script, p, "selector")
  BY ONLY <1>1, p \in Nat \ {0}, AllocatedNext
<1> QED  BY <1>2 DEF ConfigOf, SameSizes

\* Cells and polynomials a circuit names may be queried.
LEMMA KnownCellAsks ==
    ASSUME NEW script, NEW p, NEW sys, ConfigOf(sys, script, p),
           NEW f \in CellSet, KnownColumn(script, p, f.kind, f.column)
    PROVE  Askable(sys, f) /\ (~ IsCell(f) => f.column \in 1..sys.selectors)
<1>1. f \in Cells /\ f.column \in Nat /\ f.at \in Int
  BY DEF CellSet, Cells, Kinds, None
<1>2. f.kind \in Kinds \cup {"selector"}
  BY DEF CellSet, Kinds
<1> QED  BY <1>1, <1>2 DEF Askable, CellOf, IsCell, KnownColumn, ConfigOf

\* The expressions a circuit can write ask only for cells its system has.
LEMMA KnownPolyAsks ==
    ASSUME NEW script, NEW p, NEW sys, ConfigOf(sys, script, p),
           NEW q \in PolySet, KnownPoly(script, p, q)
    PROVE  Asks(sys, q)
<1>1. q.guard \in GuardSet /\ q.terms \in Seq(Seq(CellSet)) /\ q = [guard |-> q.guard, terms |-> q.terms]
  BY DEF PolySet
<1>2. PICK s : s = q.terms
  OBVIOUS
<1>3. /\ \A t \in 1..Len(s) : s[t] \in Seq(CellSet) /\ \A i \in 1..Len(s[t]) : s[t][i] \in CellSet
      /\ DOMAIN s = 1..Len(s) /\ Len(s) \in Nat
      /\ \A t \in 1..Len(s) : DOMAIN s[t] = 1..Len(s[t])
  BY <1>1, <1>2
<1>4. \A f \in CellSet : f \in Cells
  BY DEF CellSet, Cells, Kinds, None
<1>5. s \in Seq(Seq(Cells))
  <2>1. PICK V, W : V = CellSet /\ W = Cells
    OBVIOUS
  <2>2. V \subseteq W /\ s \in Seq(Seq(V))
    BY <1>1, <1>2, <1>4, <2>1
  <2>3. Seq(V) \subseteq Seq(W)
    BY ONLY <2>2
  <2>4. Seq(Seq(V)) \subseteq Seq(Seq(W))
    BY ONLY <2>3
  <2> QED  BY <2>1, <2>2, <2>4
<1>6. /\ q.guard \in Guards /\ q.guard.kind # "column" /\ q.guard.index = None
      /\ q.guard.root = 0 /\ q.guard.size = 0
  BY <1>1 DEF GuardSet, Guards, None
<1>7. q.guard.kind = "simple" => q.guard.column \in 1..sys.selectors
  BY DEF KnownPoly, KnownColumn, ConfigOf
<1>8. ASSUME NEW t \in 1..Len(s), NEW i \in 1..Len(s[t])
      PROVE  Askable(sys, s[t][i]) /\ (~ IsCell(s[t][i]) => s[t][i].column \in 1..sys.selectors)
  <2>1. s[t][i] \in CellSet
    BY <1>3, <1>8
  <2>2. KnownColumn(script, p, s[t][i].kind, s[t][i].column)
    BY <1>2, <1>3, <1>8 DEF KnownPoly, ToSet
  <2> QED  BY <2>1, <2>2, KnownCellAsks
<1>9. q \in Polyforms
  BY <1>1, <1>2, <1>5, <1>6 DEF Polyforms
<1> QED  BY <1>2, <1>6, <1>7, <1>8, <1>9 DEF Asks, GuardSound

\* So do the cells a gate's or lookup's closure queries without using them.
LEMMA KnownEagerAsks ==
    ASSUME NEW script, NEW p, NEW sys, ConfigOf(sys, script, p), NEW eager \in Seq(CellSet),
           \A f \in ToSet(eager) : KnownColumn(script, p, f.kind, f.column)
    PROVE  AllAskable(sys, eager)
<1>1. \A f \in CellSet : f \in Cells
  BY DEF CellSet, Cells, Kinds, None
<1>2. PICK V, W : V = CellSet /\ W = Cells
  OBVIOUS
<1>3. V \subseteq W /\ eager \in Seq(V)
  BY <1>1, <1>2
<1>4. eager \in Seq(W)
  <2>1. Seq(V) \subseteq Seq(W)
    BY ONLY <1>3
  <2> QED  BY ONLY <1>3, <2>1
<1>5. \A f \in Range(eager) : f \in V /\ f \in ToSet(eager)
  BY ONLY <1>3 DEF Range, ToSet
<1>6. \A f \in Range(eager) : Askable(sys, f)
  BY <1>2, <1>5, KnownCellAsks
<1> QED  BY <1>2, <1>4, <1>6 DEF AllAskable

\* The circuit's next call is one it can make.
LEMMA CallKnown ==
    ASSUME NEW circ \in Circuits, NEW p \in Nat \ {0}, p <= Len(circ.script)
    PROVE  /\ circ.script[p] \in CallSet /\ KnownCall(circ.script, p)
           /\ \A q \in PolysOf(circ.script[p]) : SelectorsApart(circ.simple, q)
<1>1. /\ circ.script \in Seq(CallSet)
      /\ \A k \in DOMAIN circ.script :
            /\ KnownCall(circ.script, k)
            /\ \A q \in PolysOf(circ.script[k]) : SelectorsApart(circ.simple, q)
  BY KeygenAssumption
<1>2. p \in DOMAIN circ.script
  BY <1>1
<1> QED  BY <1>1, <1>2

\* The configuration and the circuit's place in it
ConfigInv ==
    /\ circuit \in Circuits /\ position \in Nat \ {0}
    /\ ConfigOf(cs, circuit.script, position)
    /\ SelectorsSound(cs, circuit.simple)

\* A call of configure that panics leaves the system, one that returns has its result.
LEMMA Returned ==
    ASSUME ConfigInv, NEW ok \in BOOLEAN, NEW result, Returns(ok, result),
           ok => ConfigOf(result, circuit.script, position + 1) /\ SelectorsSound(result, circuit.simple)
    PROVE  ConfigInv'
<1>1. circuit' = circuit /\ position + 1 \in Nat \ {0}
  BY DEF Returns, ConfigInv
<1>2. CASE ok
  <2>1. cs' = result /\ position' = position + 1
    BY <1>2 DEF Returns
  <2> QED  BY <1>1, <1>2, <2>1 DEF ConfigInv
<1>3. CASE ~ ok
  <2>1. cs' = cs /\ position' = position
    BY <1>3 DEF Returns
  <2> QED  BY <1>1, <2>1 DEF ConfigInv
<1> QED  BY <1>2, <1>3

\* Every call of configure
LEMMA ConfigureStep ==
    ASSUME ConfigInv, Configure
    PROVE  ConfigInv'
<1>1. PICK c, script, simple, p, sys : /\ c = call /\ script = circuit.script /\ simple = circuit.simple
                                       /\ p = position /\ sys = cs
  OBVIOUS
<1>2. /\ ConfigOf(sys, script, p) /\ Wired(sys) /\ p \in Nat \ {0} /\ circuit \in Circuits /\ c = script[p]
      /\ SelectorsSound(sys, simple)
  BY <1>1 DEF ConfigInv, ConfigOf, call
<1>3. \A name : Calls(name) => /\ c \in CallSet /\ KnownCall(script, p) /\ c.op = name
                                /\ \A q \in PolysOf(c) : SelectorsApart(simple, q)
  BY <1>1, <1>2, CallKnown DEF Calls
<1>5. Len(sys.advice) \in Nat /\ sys.selectors \in Nat /\ DOMAIN sys = Fields
  BY <1>2, SystemFields DEF Wired, Sized
<1>6. {"fixed", "instance", "selectors", "minimum", "advice", "challenges", "gates", "lookups"} \subseteq Fields
  BY DEF Fields, EmptySystem
<1>4. ASSUME NEW grown, SamePolys(sys, grown) PROVE SelectorsSound(grown, simple)
  BY <1>2, <1>4, SelectorsStay
<1>7. ASSUME AllocateFixed PROVE ConfigInv'
  <2>1. PICK grown : grown = FixedColumn(sys)
    OBVIOUS
  <2>2. Wired(grown) /\ SameSizes(sys, grown)
    BY <1>2, <1>5, <1>6, <2>1, WiredSizes DEF SameSizes, FixedColumn
  <2>3. c.op = "fixed_column" /\ Returns(TRUE, grown)
    BY <1>1, <1>3, <1>7, <2>1 DEF AllocateFixed
  <2>4. ConfigOf(grown, script, p + 1)
    BY <1>2, <2>2, <2>3, ConfigKeeps
  <2>5. SelectorsSound(grown, simple)
    <3>1. SamePolys(sys, grown)
      BY <1>5, <1>6, <2>1 DEF SamePolys, FixedColumn
    <3> QED  BY <1>4, <3>1
  <2> QED  BY <1>1, <2>3, <2>4, <2>5, Returned
<1>8. ASSUME AllocateInstance PROVE ConfigInv'
  <2>1. PICK grown : grown = InstanceColumn(sys)
    OBVIOUS
  <2>2. Wired(grown) /\ SameSizes(sys, grown)
    BY <1>2, <1>5, <1>6, <2>1, WiredSizes DEF SameSizes, InstanceColumn
  <2>3. c.op = "instance_column" /\ Returns(TRUE, grown)
    BY <1>1, <1>3, <1>8, <2>1 DEF AllocateInstance
  <2>4. ConfigOf(grown, script, p + 1)
    BY <1>2, <2>2, <2>3, ConfigKeeps
  <2>5. SelectorsSound(grown, simple)
    <3>1. SamePolys(sys, grown)
      BY <1>5, <1>6, <2>1 DEF SamePolys, InstanceColumn
    <3> QED  BY <1>4, <3>1
  <2> QED  BY <1>1, <2>3, <2>4, <2>5, Returned
<1>9. ASSUME AllocateSelector PROVE ConfigInv'
  <2>1. PICK grown : grown = NewSelector(sys)
    OBVIOUS
  <2>2. Wired(grown) /\ grown.advice = sys.advice /\ grown.selectors = sys.selectors + 1
    BY <1>2, <1>5, <1>6, <2>1, WiredSizes DEF NewSelector
  <2>3. c.op = "selector" /\ Returns(TRUE, grown)
    BY <1>1, <1>3, <1>9, <2>1 DEF AllocateSelector
  <2>4. ConfigOf(grown, script, p + 1)
    BY <1>2, <2>2, <2>3, ConfigSelector
  <2>5. SelectorsSound(grown, simple)
    <3>1. SamePolys(sys, grown)
      BY <1>5, <1>6, <2>1 DEF SamePolys, NewSelector
    <3> QED  BY <1>4, <3>1
  <2> QED  BY <1>1, <2>3, <2>4, <2>5, Returned
<1>10. ASSUME AllocateAdvice PROVE ConfigInv'
  <2>1. PICK grown, ok : grown = AdviceColumn(sys, c.phase)
                         /\ ok = (c.phase = 0 \/ PhaseExists(sys, c.phase - 1))
    OBVIOUS
  <2>2. c \in CallSet /\ c.op = "advice_column" /\ Returns(ok, grown)
    BY <1>1, <1>3, <1>10, <2>1 DEF AllocateAdvice
  <2>3. c.phase \in Nat
    BY <2>2 DEF CallSet
  <2>4. Wired(grown) /\ Len(grown.advice) = Len(sys.advice) + 1 /\ grown.selectors = sys.selectors
    BY <1>2, <2>1, <2>3, WiredAdvice
  <2>5. ConfigOf(grown, script, p + 1)
    BY <1>2, <2>2, <2>4, ConfigAdvice
  <2>6. ok \in BOOLEAN
    BY <2>1
  <2>7. SelectorsSound(grown, simple)
    <3>1. SamePolys(sys, grown)
      BY <1>5, <1>6, <2>1 DEF SamePolys, AdviceColumn
    <3> QED  BY <1>4, <3>1
  <2> QED  BY <1>1, <2>2, <2>5, <2>6, <2>7, Returned
<1>11. ASSUME AllocateChallenge PROVE ConfigInv'
  <2>1. PICK grown, ok : grown = Challenge(sys, c.phase) /\ ok = PhaseExists(sys, c.phase)
    OBVIOUS
  <2>2. c.op = "challenge_usable_after" /\ Returns(ok, grown)
    BY <1>1, <1>3, <1>11, <2>1 DEF AllocateChallenge
  <2>3. Sets(grown, sys, "challenges", Append(sys.challenges, c.phase))
    BY <1>5, <1>6, <2>1 DEF Challenge, Sets
  <2>4. Wired(grown) /\ SameSizes(sys, grown)
    BY <1>2, <2>3, WiredOther DEF SameSizes
  <2>5. ConfigOf(grown, script, p + 1)
    BY <1>2, <2>2, <2>4, ConfigKeeps
  <2>6. ok \in BOOLEAN
    BY <2>1 DEF PhaseExists
  <2>7. SelectorsSound(grown, simple)
    <3>1. SamePolys(sys, grown)
      BY <1>5, <1>6, <2>1 DEF SamePolys, Challenge
    <3> QED  BY <1>4, <3>1
  <2> QED  BY <1>1, <2>2, <2>5, <2>6, <2>7, Returned
<1>12. ASSUME CallEquality PROVE ConfigInv'
  <2>1. PICK grown, column : grown = EnableEquality(sys, column) /\ column = c.column
    OBVIOUS
  <2>2. c \in CallSet /\ KnownCall(script, p) /\ c.op = "enable_equality" /\ Returns(TRUE, grown)
    BY <1>1, <1>3, <1>12, <2>1 DEF CallEquality
  <2>3. column \in Kinds \X Nat
    BY <2>1, <2>2 DEF CallSet, Kinds
  <2>4. column[1] = "advice" => column[2] \in 1..Len(sys.advice)
    BY <1>2, <2>1, <2>2 DEF KnownCall, KnownColumn, ConfigOf
  <2>5. Wired(grown) /\ SameSizes(sys, grown) /\ SamePolys(sys, grown)
    BY <1>2, <2>1, <2>3, <2>4, WiredEquality
  <2>6. ConfigOf(grown, script, p + 1)
    BY <1>2, <2>2, <2>5, ConfigKeeps
  <2>7. SelectorsSound(grown, simple)
    BY <1>4, <2>5
  <2> QED  BY <1>1, <2>2, <2>6, <2>7, Returned
<1>13. ASSUME CallConstant PROVE ConfigInv'
  <2>1. PICK grown, column : grown = EnableConstant(sys, column) /\ column = c.column
    OBVIOUS
  <2>2. c \in CallSet /\ c.op = "enable_constant" /\ Returns(TRUE, grown)
    BY <1>1, <1>3, <1>13, <2>1 DEF CallConstant
  <2>3. column \in Nat
    BY <2>1, <2>2 DEF CallSet
  <2>4. Wired(grown) /\ SameSizes(sys, grown) /\ SamePolys(sys, grown)
    BY <1>2, <2>1, <2>3, WiredConstant
  <2>5. ConfigOf(grown, script, p + 1)
    BY <1>2, <2>2, <2>4, ConfigKeeps
  <2>6. SelectorsSound(grown, simple)
    BY <1>4, <2>4
  <2> QED  BY <1>1, <2>2, <2>5, <2>6, Returned
<1>14. ASSUME CallMinimumDegree PROVE ConfigInv'
  <2>1. PICK grown, d : grown = SetMinimumDegree(sys, d) /\ d = c.degree
    OBVIOUS
  <2>2. c \in CallSet /\ c.op = "set_minimum_degree" /\ Returns(TRUE, grown)
    BY <1>1, <1>3, <1>14, <2>1 DEF CallMinimumDegree
  <2>3. d \in Nat /\ d < Prime
    BY <2>1, <2>2, FieldIsInt DEF CallSet
  <2>4. Wired(grown) /\ SameSizes(sys, grown)
    BY <1>2, <1>5, <1>6, <2>1, <2>3, WiredSizes DEF SameSizes, SetMinimumDegree
  <2>5. ConfigOf(grown, script, p + 1)
    BY <1>2, <2>2, <2>4, ConfigKeeps
  <2>6. SelectorsSound(grown, simple)
    <3>1. grown.gates = sys.gates /\ grown.lookups = sys.lookups /\ grown.minimum = d
      BY <1>5, <1>6, <2>1 DEF SetMinimumDegree
    <3> QED  BY <1>2, <2>3, <3>1 DEF SelectorsSound
  <2> QED  BY <1>1, <2>2, <2>5, <2>6, Returned
<1>15. ASSUME CallGate PROVE ConfigInv'
  <2>1. PICK grown, eager, polys, ok : /\ grown = CreateGate(sys, eager, polys)
                                       /\ eager = c.eager /\ polys = c.polys /\ ok = (polys # <<>>)
    OBVIOUS
  <2>2. /\ c \in CallSet /\ KnownCall(script, p) /\ c.op = "create_gate" /\ Returns(ok, grown)
        /\ \A q \in PolysOf(c) : SelectorsApart(simple, q)
    BY <1>1, <1>3, <1>15, <2>1 DEF CallGate
  <2>3. eager \in Seq(CellSet) /\ polys \in Seq(PolySet)
    BY <2>1, <2>2 DEF CallSet
  <2>4. /\ \A f \in ToSet(eager) : KnownColumn(script, p, f.kind, f.column)
        /\ \A q \in ToSet(polys) : KnownPoly(script, p, q)
    BY <1>2, <2>1, <2>2 DEF KnownCall
  <2>5. PICK n : n = Len(polys)
    OBVIOUS
  <2>6. /\ n \in Nat /\ polys = [i \in 1..n |-> polys[i]]
        /\ \A i \in 1..n : polys[i] \in PolySet /\ polys[i] \in ToSet(polys)
    BY <2>3, <2>5 DEF ToSet
  <2>7. \A i \in 1..n : Asks(sys, polys[i])
    BY <1>2, <2>4, <2>6, KnownPolyAsks
  <2>8. AllAskable(sys, eager)
    BY <1>2, <2>3, <2>4, KnownEagerAsks
  <2>9. Wired(grown) /\ SameSizes(sys, grown) /\ GateAdded(sys, grown, n, polys)
    BY <1>2, <2>1, <2>6, <2>7, <2>8, WiredGate
  <2>10. ConfigOf(grown, script, p + 1)
    BY <1>2, <2>2, <2>9, ConfigKeeps
  <2>11. ok \in BOOLEAN
    BY <2>1
  <2>12. SelectorsSound(grown, simple)
    <3>1. \A i \in 1..n : SelectorsApart(simple, polys[i])
      BY <2>1, <2>2, <2>6 DEF PolysOf
    <3> QED  BY <1>2, <2>6, <2>9, <3>1, SelectorsOfGate
  <2> QED  BY <1>1, <2>2, <2>10, <2>11, <2>12, Returned
<1>16. ASSUME CallLookup PROVE ConfigInv'
  <2>1. PICK grown, pairs, ok : /\ grown = Lookup(sys, pairs) /\ pairs = c.pairs
                                /\ ok = (\A pair \in ToSet(pairs) : ~ ContainsSimple(pair[1]))
    OBVIOUS
  <2>2. /\ c \in CallSet /\ KnownCall(script, p) /\ c.op = "lookup" /\ Returns(ok, grown)
        /\ \A q \in PolysOf(c) : SelectorsApart(simple, q)
    BY <1>1, <1>3, <1>16, <2>1 DEF CallLookup
  <2>3. pairs \in Seq(PolySet \X Nat)
    BY <2>1, <2>2 DEF CallSet
  <2>4. \A pair \in ToSet(pairs) : KnownPoly(script, p, pair[1])
    BY <1>2, <2>1, <2>2 DEF KnownCall
  <2>5. PICK n : n = Len(pairs)
    OBVIOUS
  <2>6. /\ n \in Nat /\ pairs = [i \in 1..n |-> pairs[i]]
        /\ \A i \in 1..n : pairs[i] \in PolySet \X Nat /\ pairs[i] \in ToSet(pairs)
    BY <2>3, <2>5 DEF ToSet
  <2>7. \A i \in 1..n : Asks(sys, pairs[i][1]) /\ pairs[i][2] \in Nat
    BY <1>2, <2>4, <2>6, KnownPolyAsks
  <2>8. /\ Wired(grown) /\ SameSizes(sys, grown)
        /\ LookupAdded(sys, grown, n, [i \in 1..n |-> <<pairs[i][1], TablePoly(pairs[i][2])>>])
    <3>1. Wired(sys) /\ n \in Nat /\ pairs = [i \in 1..n |-> pairs[i]] /\ grown = Lookup(sys, pairs)
      BY <1>2, <2>1, <2>6 DEF ConfigOf
    <3> QED  BY ONLY <2>7, <3>1, WiredLookup
  <2>9. ConfigOf(grown, script, p + 1)
    BY <1>2, <2>2, <2>8, ConfigKeeps
  <2>10. ok \in BOOLEAN
    BY <2>1
  <2>11. SelectorsSound(grown, simple)
    <3>1. \A i \in 1..n : SelectorsApart(simple, pairs[i][1])
      BY <2>1, <2>2, <2>6 DEF PolysOf
    <3>2. \A column : SelectorsApart(simple, TablePoly(column))
      BY TableApart
    <3>3. PICK more : more = [i \in 1..n |-> <<pairs[i][1], TablePoly(pairs[i][2])>>]
      OBVIOUS
    <3>4. \A i \in 1..n : SelectorsApart(simple, more[i][1]) /\ SelectorsApart(simple, more[i][2])
      BY <3>1, <3>2, <3>3
    <3>5. LookupAdded(sys, grown, n, more)
      BY <2>8, <3>3
    <3> QED  BY <1>2, <2>6, <2>8, <3>4, <3>5, SelectorsOfLookup
  <2> QED  BY <1>1, <2>2, <2>9, <2>10, <2>11, Returned
<1>17. ASSUME CallLookupAny PROVE ConfigInv'
  <2>1. PICK grown, pairs : grown = LookupAny(sys, pairs) /\ pairs = c.pairs
    OBVIOUS
  <2>2. /\ c \in CallSet /\ KnownCall(script, p) /\ c.op = "lookup_any" /\ Returns(TRUE, grown)
        /\ \A q \in PolysOf(c) : SelectorsApart(simple, q)
    BY <1>1, <1>3, <1>17, <2>1 DEF CallLookupAny
  <2>3. pairs \in Seq(PolySet \X PolySet)
    BY <2>1, <2>2 DEF CallSet
  <2>4. \A pair \in ToSet(pairs) : KnownPoly(script, p, pair[1]) /\ KnownPoly(script, p, pair[2])
    BY <1>2, <2>1, <2>2 DEF KnownCall
  <2>5. PICK n : n = Len(pairs)
    OBVIOUS
  <2>6. /\ n \in Nat /\ pairs = [i \in 1..n |-> pairs[i]]
        /\ \A i \in 1..n : pairs[i] \in PolySet \X PolySet /\ pairs[i] \in ToSet(pairs)
    BY <2>3, <2>5 DEF ToSet
  <2>7. \A i \in 1..n : Asks(sys, pairs[i][1]) /\ Asks(sys, pairs[i][2])
    BY <1>2, <2>4, <2>6, KnownPolyAsks
  <2>8. AllPairs(sys, n, pairs)
    BY <2>6, <2>7 DEF AllPairs
  <2>9. Wired(grown) /\ SameSizes(sys, grown) /\ LookupAdded(sys, grown, n, pairs)
    BY <1>2, <2>1, <2>8, WiredLookupAny
  <2>10. ConfigOf(grown, script, p + 1)
    BY <1>2, <2>2, <2>9, ConfigKeeps
  <2>11. SelectorsSound(grown, simple)
    <3>1. PolysOf(c) = UNION {{pair[1], pair[2]} : pair \in ToSet(pairs)}
      BY <2>1, <2>2 DEF PolysOf
    <3>2. ASSUME NEW i \in 1..n
          PROVE  SelectorsApart(simple, pairs[i][1]) /\ SelectorsApart(simple, pairs[i][2])
      <4>1. PICK pair : pair = pairs[i]
        OBVIOUS
      <4>2. pair \in ToSet(pairs)
        BY <2>6, <4>1
      <4>3. pair[1] \in PolysOf(c) /\ pair[2] \in PolysOf(c)
        BY <3>1, <4>2
      <4> QED  BY <2>2, <4>1, <4>3
    <3> QED  BY <1>2, <2>6, <2>9, <3>2, SelectorsOfLookup
  <2> QED  BY <1>1, <2>2, <2>10, <2>11, Returned
<1> QED  BY <1>7, <1>8, <1>9, <1>10, <1>11, <1>12, <1>13, <1>14, <1>15, <1>16, <1>17 DEF Configure

(* ---------------------------- rewriting the selectors --------------------------- *)

\* What allocating columns for selectors leaves as it is
Keeps(sys, grown) ==
    /\ Wired(grown) /\ grown.gates = sys.gates /\ grown.lookups = sys.lookups
    /\ grown.selectors = sys.selectors /\ grown.minimum = sys.minimum
    /\ grown.advice_counts = sys.advice_counts
    /\ \A kind \in Kinds : \A column, at, i :
           Listed(sys, kind, column, at, i) => Listed(grown, kind, column, at, i)

\* A replacement names a query of a fixed column.
ReplacementSound(sys, r) ==
    /\ r[1] \in Nat /\ r[2] \in Nat /\ r[3] \in Nat /\ r[4] \in Nat
    /\ Listed(sys, "fixed", r[1], 0, r[4])

\* Keeping what is listed is transitive.
LEMMA KeepsOn ==
    ASSUME NEW x, NEW y, NEW z, Keeps(x, y), Keeps(y, z)
    PROVE  Keeps(x, z)
  BY DEF Keeps

\* A replacement stays sound while the system grows.
LEMMA ReplacementKeeps ==
    ASSUME NEW sys, NEW grown, Keeps(sys, grown), NEW r, ReplacementSound(sys, r)
    PROVE  ReplacementSound(grown, r)
  BY DEF Keeps, ReplacementSound, Kinds

\* The fresh column is queried.
LEMMA AllocateStep ==
    ASSUME NEW sys, Wired(sys), NEW grown, grown = Allocate(sys)
    PROVE  /\ Keeps(sys, grown) /\ grown.fixed = sys.fixed + 1
           /\ \A root, size \in Nat : ReplacementSound(grown, Replacement(grown, root, size))
<1>1. PICK mid, n : mid = FixedColumn(sys) /\ n = sys.fixed + 1
  OBVIOUS
<1>2. Wired(mid)
  BY <1>1, WiredSizes
<1>3. DOMAIN sys = Fields /\ "fixed" \in Fields \ {"queries"} /\ n \in Nat
  BY <1>1, SystemFields DEF Wired, Sized, Fields, EmptySystem
<1>4. Sets(mid, sys, "fixed", n)
  BY <1>1, <1>3 DEF FixedColumn, Sets
<1>5. mid.fixed = n /\ mid.queries = sys.queries /\ \A f \in Fields \ {"fixed"} : mid[f] = sys[f]
  BY <1>3, <1>4, SetsKeeps DEF Wired
<1>6. grown = Query(mid, "fixed", n, 0)
  BY <1>1, <1>5 DEF Allocate
<1>7. CellOf(mid, "fixed", n, 0)
  BY <1>3 DEF CellOf, Kinds
<1>8. Queried(mid, grown) /\ \E i : Listed(grown, "fixed", n, 0, i)
  BY <1>2, <1>6, <1>7, QueryStep DEF Queried, Wired
<1>9. Wired(grown)
  BY <1>2, <1>8, WiredGrows
<1>10. /\ grown.fixed = n /\ grown.gates = sys.gates /\ grown.lookups = sys.lookups
       /\ grown.selectors = sys.selectors /\ grown.minimum = sys.minimum
  BY <1>5, <1>8 DEF Queried, Grows, Fields, EmptySystem
<1>11. Keeps(sys, grown)
  <2>1. grown = mid \/ grown = AppendQuery(mid, "fixed", n, 0)
    BY <1>6 DEF Query
  <2>2. grown = AppendQuery(mid, "fixed", n, 0) => grown.advice_counts = mid.advice_counts
    <3>1. IsSystem(mid) /\ "fixed" \in Kinds /\ n \in Nat /\ 0 \in Int /\ "advice_counts" \in Fields \ {"queries"}
      BY <1>2, <1>3 DEF Wired, Kinds, Fields, EmptySystem
    <3> QED  BY <3>1, AppendQueryStep
  <2>3. mid.advice_counts = sys.advice_counts
    BY <1>5 DEF Fields, EmptySystem
  <2>4. grown.advice_counts = sys.advice_counts
    BY <2>1, <2>2, <2>3
  <2> QED  BY <1>5, <1>8, <1>9, <1>10, <2>4 DEF Keeps, Queried, Grows, Listed
<1>12. PICK i : Listed(grown, "fixed", n, 0, i)
  BY <1>8
<1>13. i \in Nat /\ Position(grown, "fixed", n, 0) = i
  <2>1. IsSystem(grown) /\ QueriesSound(grown) /\ "fixed" \in Kinds
    BY <1>9 DEF Wired, Kinds
  <2>2. Position(grown, "fixed", n, 0) = i
    BY <1>12, <2>1, PositionOf
  <2>3. Len(grown.queries["fixed"]) \in Nat
    BY <2>1 DEF IsSystem
  <2> QED  BY <1>12, <2>2, <2>3 DEF Listed
<1>14. ASSUME NEW root \in Nat, NEW size \in Nat
       PROVE  ReplacementSound(grown, Replacement(grown, root, size))
  <2>1. PICK r : r = Replacement(grown, root, size)
    OBVIOUS
  <2>2. r = <<n, root, size, i>>
    BY <1>10, <1>13, <2>1 DEF Replacement
  <2> QED  BY <1>3, <1>12, <1>13, <2>1, <2>2 DEF ReplacementSound
<1> QED  BY <1>1, <1>10, <1>11, <1>14

\* The place of a selector in a combination is a number.
Place(c, s) == LET I == {i \in 1..Len(c) : c[i] = s} IN IF I # {} THEN Min(I) ELSE 0

\* The place of a selector in a combination is a number, 0 where it has none.
LEMMA PlaceIsNatural ==
    ASSUME NEW c \in Seq(Nat), NEW s
    PROVE  Place(c, s) \in Nat
<1> DEFINE I == {i \in 1..Len(c) : c[i] = s}
<1>1. Place(c, s) = IF I # {} THEN Min(I) ELSE 0
  BY DEF Place
<1>2. I # {} => Min(I) \in I
  <2>1. SUFFICES ASSUME I # {} PROVE Min(I) \in I
    OBVIOUS
  <2>2. I \in SUBSET Nat
    OBVIOUS
  <2> HIDE DEF I
  <2>3. PICK m \in I : \A k \in I : m <= k
    BY <2>1, <2>2, LeastNatural
  <2> QED  BY <2>3 DEF Min
<1>3. \A i \in I : i \in Nat
  OBVIOUS
<1>4. CASE I = {}
  BY <1>1, <1>4
<1>5. CASE I # {}
  <2>1. Min(I) \in I
    BY <1>2, <1>5
  <2>2. Min(I) \in Nat
    BY <1>3, <2>1
  <2> QED  BY <1>1, <1>5, <2>2
<1> QED  BY <1>4, <1>5

\* Of n selectors, those in one of the combinations C are replaced, by the column of one
\* of these.
Replaces(sys, n, C, acc) ==
    /\ Keeps(sys, acc.cs) /\ DOMAIN acc.replaced = 1..n
    /\ \A s \in 1..n : (\E c \in C : s \in ToSet(c)) =>
          /\ ReplacementSound(acc.cs, acc.replaced[s])
          /\ \E c \in C : s \in ToSet(c) /\ acc.replaced[s][3] = Len(c)

\* Those of one more combination
LEMMA AssignColumnStep ==
    ASSUME NEW sys, NEW n \in Nat, NEW C, NEW acc, Replaces(sys, n, C, acc), NEW c \in Seq(Nat),
           NEW activations, NEW rows, NEW next, next = AssignColumn(acc, c, activations, rows)
    PROVE  Replaces(sys, n, C \cup {c}, next)
<1>1. PICK old, grown, before, after :
        /\ old = acc.cs /\ grown = Allocate(old) /\ before = acc.replaced
        /\ after = [s \in DOMAIN before |->
                      IF s \in ToSet(c) THEN Replacement(grown, SelectInSeq(c, LAMBDA t : t = s), Len(c))
                      ELSE before[s]]
  OBVIOUS
<1>2. next.cs = grown /\ next.replaced = after
  BY <1>1 DEF AssignColumn
<1>3. Keeps(sys, old) /\ DOMAIN before = 1..n
  BY <1>1 DEF Replaces
<1>4. /\ Keeps(old, grown)
      /\ \A root, size \in Nat : ReplacementSound(grown, Replacement(grown, root, size))
  <2>1. Wired(old)
    BY <1>3 DEF Keeps
  <2> QED  BY <1>1, <2>1, AllocateStep
<1>5. Keeps(sys, grown)
  BY <1>3, <1>4, KeepsOn
<1>6. ASSUME NEW s \in 1..n, \E e \in C \cup {c} : s \in ToSet(e)
      PROVE  /\ ReplacementSound(grown, after[s])
             /\ \E e \in C \cup {c} : s \in ToSet(e) /\ after[s][3] = Len(e)
  <2>1. CASE s \in ToSet(c)
    <3>1. PICK root : root = SelectInSeq(c, LAMBDA t : t = s)
      OBVIOUS
    <3>2. root \in Nat /\ Len(c) \in Nat
      <4>1. root = Place(c, s)
        BY <3>1 DEF SelectInSeq, Place
      <4> QED  BY <4>1, PlaceIsNatural
    <3>3. after[s] = Replacement(grown, root, Len(c))
      BY <1>1, <1>3, <2>1, <3>1
    <3>4. after[s][3] = Len(c)
      BY <3>3 DEF Replacement
    <3> QED  BY <1>4, <2>1, <3>2, <3>3, <3>4
  <2>2. CASE s \notin ToSet(c)
    <3>1. after[s] = before[s] /\ \E e \in C : s \in ToSet(e)
      BY <1>1, <1>3, <1>6, <2>2
    <3>2. /\ ReplacementSound(old, before[s])
          /\ \E e \in C : s \in ToSet(e) /\ before[s][3] = Len(e)
      BY <1>1, <3>1 DEF Replaces
    <3>3. ReplacementSound(grown, before[s])
      BY <1>4, <3>2, ReplacementKeeps
    <3> QED  BY <3>1, <3>2, <3>3
  <2> QED  BY <2>1, <2>2
<1>7. DOMAIN after = 1..n
  BY <1>1, <1>3
<1> QED  BY <1>2, <1>5, <1>6, <1>7 DEF Replaces

AssignRun(run, sys, combinations, activations, rows, m) ==
    run = [i \in 0..m |->
             IF i = 0 THEN [cs |-> sys, columns |-> <<>>, replaced |-> [s \in DOMAIN activations |-> <<>>]]
             ELSE AssignColumn(run[i - 1], combinations[i], activations, rows)]

\* The fold over the combinations exists.
LEMMA AssignRunExists ==
    ASSUME NEW sys, NEW combinations, NEW activations, NEW rows, NEW n \in Nat
    PROVE  \E run : AssignRun(run, sys, combinations, activations, rows, n)
<1> DEFINE first == [cs |-> sys, columns |-> <<>>, replaced |-> [s \in DOMAIN activations |-> <<>>]]
           S == {m \in Nat : \E run : AssignRun(run, sys, combinations, activations, rows, m)}
<1> HIDE DEF first
<1>0. \A run, m : AssignRun(run, sys, combinations, activations, rows, m) <=>
          run = [i \in 0..m |-> IF i = 0 THEN first
                                ELSE AssignColumn(run[i - 1], combinations[i], activations, rows)]
  BY DEF AssignRun, first
<1>1. 0 \in S
  <2>1. PICK run : run = [i \in 0..0 |-> first]
    OBVIOUS
  <2>2. run = [i \in 0..0 |-> IF i = 0 THEN first
                              ELSE AssignColumn(run[i - 1], combinations[i], activations, rows)]
    BY <2>1
  <2> QED  BY <1>0, <2>2
<1>2. ASSUME NEW m \in Nat, m \in S PROVE m + 1 \in S
  <2>1. PICK run : run = [i \in 0..m |-> IF i = 0 THEN first
                              ELSE AssignColumn(run[i - 1], combinations[i], activations, rows)]
    BY <1>0, <1>2
  <2>2. PICK more : more = [i \in 0..(m + 1) |->
           IF i = m + 1 THEN AssignColumn(run[m], combinations[m + 1], activations, rows) ELSE run[i]]
    OBVIOUS
  <2>3. ASSUME NEW i \in 0..(m + 1)
        PROVE  more[i] = IF i = 0 THEN first
                         ELSE AssignColumn(more[i - 1], combinations[i], activations, rows)
    <3>1. CASE i = m + 1
      <4>1. m \in 0..(m + 1) /\ m # m + 1 /\ i - 1 = m /\ i # 0
        BY <3>1
      <4>2. more[m] = run[m]
        BY <2>2, <4>1
      <4> QED  BY <2>2, <3>1, <4>1, <4>2
    <3>2. CASE i = 0
      <4>1. 0 \in 0..m /\ 0 # m + 1
        OBVIOUS
      <4> QED  BY <2>1, <2>2, <3>2, <4>1
    <3>3. CASE i # m + 1 /\ i # 0
      <4>1. i \in 0..m /\ i - 1 \in 0..m /\ i - 1 \in 0..(m + 1) /\ i - 1 # m + 1
        BY <3>3
      <4>2. more[i - 1] = run[i - 1] /\ more[i] = run[i]
        BY <2>2, <3>3, <4>1
      <4> QED  BY <2>1, <3>3, <4>1, <4>2
    <3> QED  BY <3>1, <3>2, <3>3
  <2>4. more = [i \in 0..(m + 1) |-> IF i = 0 THEN first
                  ELSE AssignColumn(more[i - 1], combinations[i], activations, rows)]
    <3>1. more = [i \in 0..(m + 1) |-> more[i]]
      BY <2>2
    <3> QED  BY <2>3, <3>1
  <2>5. AssignRun(more, sys, combinations, activations, rows, m + 1)
    BY ONLY <1>0, <2>4
  <2>6. \E f : AssignRun(f, sys, combinations, activations, rows, m + 1)
    BY ONLY <2>5
  <2>7. m + 1 \in Nat
    BY ONLY <1>2
  <2> QED  BY ONLY <2>6, <2>7
<1> HIDE DEF S
<1>3. Nat \subseteq S
  BY <1>1, <1>2, SetInduction
<1> QED  BY <1>3 DEF S

\* The first combinations of a list
Taken(list, m) == {list[j] : j \in 1..m}

\* Every selector of some combination is replaced.
LEMMA AssignColumnsStep ==
    ASSUME NEW sys, Wired(sys), NEW n \in Nat, NEW activations, DOMAIN activations = 1..n, NEW rows,
           NEW m \in Nat, NEW combinations \in Seq(Seq(Nat)), Len(combinations) = m,
           NEW done, done = AssignColumns(sys, combinations, activations, rows)
    PROVE  Replaces(sys, n, Taken(combinations, m), done)
<1> DEFINE run == CHOOSE f : AssignRun(f, sys, combinations, activations, rows, m)
           Up(i) == {combinations[j] : j \in 1..i}
           S == {i \in 0..m : Replaces(sys, n, Up(i), run[i])}
<1>1. AssignRun(run, sys, combinations, activations, rows, m)
  BY AssignRunExists
<1>2. done = run[m]
  BY DEF AssignColumns, AssignRun
<1> HIDE DEF run
<1>3. 0 \in S
  <2>1. PICK acc : acc = run[0]
    OBVIOUS
  <2>2. acc.cs = sys /\ acc.replaced = [s \in DOMAIN activations |-> <<>>]
    <3>1. acc = [cs |-> sys, columns |-> <<>>, replaced |-> [s \in DOMAIN activations |-> <<>>]]
      BY <1>1, <2>1 DEF AssignRun
    <3> QED  BY <3>1
  <2>3. Keeps(sys, acc.cs) /\ DOMAIN acc.replaced = 1..n
    BY <2>2 DEF Keeps
  <2>4. Up(0) = {}
    OBVIOUS
  <2> QED  BY <2>1, <2>3, <2>4 DEF Replaces
<1>4. ASSUME NEW i \in 0..(m - 1), i \in S PROVE i + 1 \in S
  <2>1. PICK acc, next, c : acc = run[i] /\ next = run[i + 1] /\ c = combinations[i + 1]
    OBVIOUS
  <2>2. i + 1 \in 0..m /\ i + 1 # 0 /\ (i + 1) - 1 = i /\ i + 1 \in 1..m
    BY <1>4
  <2>3. next = AssignColumn(acc, c, activations, rows)
    BY <1>1, <2>1, <2>2 DEF AssignRun
  <2>4. c \in Seq(Nat)
    BY <2>1, <2>2
  <2>5. PICK before : before = Up(i)
    OBVIOUS
  <2>6. Replaces(sys, n, before, acc)
    BY <1>4, <2>1, <2>5
  <2>7. Replaces(sys, n, before \cup {c}, next)
    BY ONLY <2>3, <2>4, <2>6, n \in Nat, AssignColumnStep
  <2>8. Up(i + 1) = before \cup {c}
    <3>1. \A j : j \in 1..(i + 1) <=> j \in 1..i \/ j = i + 1
      BY <1>4
    <3> QED  BY <2>1, <2>5, <3>1
  <2> QED  BY <2>1, <2>2, <2>7, <2>8
<1>5. m \in S
  <2> HIDE DEF S
  <2>1. 0..m \subseteq S
    BY <1>3, <1>4, BoundedInduction
  <2> QED  BY <2>1
<1> QED  BY <1>2, <1>5 DEF Taken

GuardFinal(sys, g) ==
    \/ g.kind = "none" /\ g.index = None
    \/ g.kind = "column" /\ Listed(sys, "fixed", g.column, 0, g.index)

\* A polynomial of the key: every factor is a listed query, and so is the column that
\* guards it, if any.
Final(sys, p) ==
    /\ p \in Polyforms /\ GuardFinal(sys, p.guard)
    /\ \A t \in 1..Len(p.terms) : \A i \in 1..Len(p.terms[t]) :
          LET f == p.terms[t][i]
          IN  f.kind \in Kinds /\ Listed(sys, f.kind, f.column, f.at, f.index)

\* What ReplacePoly keeps of a polynomial
ShapeKept(p, q, replaced) ==
    /\ Len(q.terms) = Len(p.terms)
    /\ \A t \in 1..Len(p.terms) : Len(q.terms[t]) = Len(p.terms[t])
    /\ p.guard.kind # "simple" => q.guard = p.guard
    /\ p.guard.kind = "simple" => q.guard.kind = "column" /\ q.guard.size = replaced[p.guard.column][3]

\* Replacing every selector of a polynomial
LEMMA ReplacePolyStep ==
    ASSUME NEW sys, NEW n, n = sys.selectors, NEW replaced, DOMAIN replaced = 1..n,
           \A s \in 1..n : ReplacementSound(sys, replaced[s]),
           NEW p, Indexed(sys, p), NEW q, q = ReplacePoly(p, replaced)
    PROVE  Final(sys, q) /\ ShapeKept(p, q, replaced)
<1> DEFINE placed(f) == ReplaceFactor(f, replaced)
<1>1. p \in Polyforms /\ p.guard.kind # "column" /\ p.guard \in Guards
  BY DEF Indexed, GuardSound, Polyforms
<1>2. PICK op : op = [f \in Cells |-> IF placed(f) \in Cells THEN placed(f) ELSE f]
  OBVIOUS
<1>3. op \in [Cells -> Cells]
  BY <1>2
<1>4. ASSUME NEW t \in 1..Len(p.terms), NEW i \in 1..Len(p.terms[t])
      PROVE  /\ placed(p.terms[t][i]) = op[p.terms[t][i]]
             /\ op[p.terms[t][i]].kind \in Kinds
             /\ Listed(sys, op[p.terms[t][i]].kind, op[p.terms[t][i]].column,
                       op[p.terms[t][i]].at, op[p.terms[t][i]].index)
  <2>1. PICK f, g : f = p.terms[t][i] /\ g = placed(f)
    OBVIOUS
  <2>2. f \in Cells
    <3>1. p.terms \in Seq(Seq(Cells))
      BY <1>1 DEF Polyforms
    <3>2. p.terms[t] \in Seq(Cells)
      BY <1>4, <3>1
    <3> QED  BY <1>4, <2>1, <3>2
  <2>3. FactorSound(sys, f)
    BY <1>4, <2>1 DEF Indexed
  <2>4. CASE IsCell(f)
    <3>1. g = f
      BY <2>1, <2>4 DEF ReplaceFactor
    <3>2. f.kind \in Kinds /\ Listed(sys, f.kind, f.column, f.at, f.index)
      BY <2>3, <2>4 DEF FactorSound
    <3> HIDE DEF placed
    <3> QED  BY <1>2, <2>1, <2>2, <3>1, <3>2
  <2>5. CASE ~ IsCell(f)
    <3>1. PICK r : r = replaced[f.column]
      OBVIOUS
    <3>2. ReplacementSound(sys, r)
      BY <2>3, <2>5, <3>1 DEF FactorSound
    <3>3. g = [kind |-> "fixed", column |-> r[1], at |-> 0, index |-> r[4]]
      BY <2>1, <2>5, <3>1 DEF ReplaceFactor
    <3>4. g \in Cells /\ g.kind \in Kinds /\ Listed(sys, g.kind, g.column, g.at, g.index)
      BY <3>2, <3>3 DEF ReplacementSound, Cells, Kinds
    <3> HIDE DEF placed
    <3> QED  BY <1>2, <2>1, <2>2, <3>4
  <2> QED  BY <2>4, <2>5
<1>5. PICK terms : terms = [t \in DOMAIN p.terms |-> [i \in DOMAIN p.terms[t] |-> op[p.terms[t][i]]]]
  OBVIOUS
<1>6. MapsTerms(p, op, terms)
  BY <1>1, <1>3, <1>5, TermsMapped
<1>7. PICK guard : guard = IF ContainsSimple(p)
               THEN LET r == replaced[p.guard.column]
                    IN [kind |-> "column", column |-> r[1], root |-> r[2], size |-> r[3],
                        index |-> r[4]]
               ELSE p.guard
  OBVIOUS
<1>8. q = [guard |-> guard, terms |-> terms]
  <2>1. p.terms \in Seq(Seq(Cells))
    BY <1>1 DEF Polyforms
  <2>2. DOMAIN p.terms = 1..Len(p.terms) /\ \A t \in 1..Len(p.terms) : DOMAIN p.terms[t] = 1..Len(p.terms[t])
    BY <2>1
  <2>3. terms = [t \in DOMAIN p.terms |-> [i \in DOMAIN p.terms[t] |-> placed(p.terms[t][i])]]
    <3>1. ASSUME NEW t \in DOMAIN p.terms
          PROVE  [i \in DOMAIN p.terms[t] |-> op[p.terms[t][i]]]
                   = [i \in DOMAIN p.terms[t] |-> placed(p.terms[t][i])]
      <4>1. \A i \in DOMAIN p.terms[t] : op[p.terms[t][i]] = placed(p.terms[t][i])
        BY <1>4, <2>2, <3>1
      <4> HIDE DEF placed
      <4> QED  BY <4>1
    <3> HIDE DEF placed
    <3> QED  BY <1>5, <3>1
  <2>4. q = [guard |-> guard, terms |-> [t \in DOMAIN p.terms |-> [i \in DOMAIN p.terms[t] |-> placed(p.terms[t][i])]]]
    BY <1>7 DEF ReplacePoly
  <2> QED  BY <2>3, <2>4
<1>9. q.guard = guard /\ q.terms = terms
  BY <1>8
<1>10. /\ guard \in Guards /\ GuardFinal(sys, guard)
       /\ p.guard.kind # "simple" => guard = p.guard
       /\ p.guard.kind = "simple" => guard.kind = "column" /\ guard.size = replaced[p.guard.column][3]
  <2>1. CASE ContainsSimple(p)
    <3>1. PICK r : r = replaced[p.guard.column]
      OBVIOUS
    <3>2. ReplacementSound(sys, r)
      BY <2>1, <3>1 DEF Indexed, GuardSound, ContainsSimple
    <3>3. guard = [kind |-> "column", column |-> r[1], root |-> r[2], size |-> r[3], index |-> r[4]]
      BY <1>7, <2>1, <3>1
    <3> QED  BY <2>1, <3>1, <3>2, <3>3 DEF ReplacementSound, Guards, ContainsSimple, GuardFinal
  <2>2. CASE ~ ContainsSimple(p)
    <3>1. guard = p.guard
      BY <1>7, <2>2
    <3>2. p.guard.kind = "none" /\ p.guard.index = None
      BY <1>1, <2>2 DEF Indexed, GuardSound, Guards, ContainsSimple
    <3> QED  BY <1>1, <2>2, <3>1, <3>2 DEF ContainsSimple, GuardFinal
  <2> QED  BY <2>1, <2>2
<1>11. q \in Polyforms
  BY <1>6, <1>8, <1>10 DEF Polyforms, MapsTerms
<1>12. /\ Len(terms) = Len(p.terms)
       /\ \A t \in 1..Len(p.terms) :
             /\ Len(terms[t]) = Len(p.terms[t])
             /\ \A i \in 1..Len(p.terms[t]) : terms[t][i] = op[p.terms[t][i]]
  BY <1>6 DEF MapsTerms
<1>13. ASSUME NEW t \in 1..Len(terms), NEW i \in 1..Len(terms[t])
       PROVE  terms[t][i].kind \in Kinds
              /\ Listed(sys, terms[t][i].kind, terms[t][i].column, terms[t][i].at, terms[t][i].index)
  <2>1. t \in 1..Len(p.terms) /\ i \in 1..Len(p.terms[t]) /\ terms[t][i] = op[p.terms[t][i]]
    BY <1>12, <1>13
  <2> HIDE DEF placed
  <2> QED  BY <1>4, <2>1
<1> HIDE DEF placed
<1>14. Final(sys, q)
  BY ONLY <1>9, <1>10, <1>11, <1>13 DEF Final
<1> QED  BY <1>9, <1>10, <1>12, <1>14 DEF ShapeKept

\* Of the shape of a nested sequence
SameShape(more, old) ==
    /\ Len(more) = Len(old)
    /\ \A g \in 1..Len(old) : Len(more[g]) = Len(old[g])

\* Rewriting each entry of a nested sequence keeps its shape.
LEMMA NestShape ==
    ASSUME NEW V, NEW W, NEW old \in Seq(Seq(V)), NEW more, DOMAIN more = DOMAIN old,
           more = [g \in DOMAIN more |-> more[g]],
           \A g \in 1..Len(old) : /\ DOMAIN more[g] = DOMAIN old[g]
                                  /\ more[g] = [i \in DOMAIN more[g] |-> more[g][i]]
                                  /\ \A i \in 1..Len(old[g]) : more[g][i] \in W
    PROVE  more \in Seq(Seq(W)) /\ SameShape(more, old)
<1>1. PICK n : n = Len(old)
  OBVIOUS
<1>2. n \in Nat /\ DOMAIN old = 1..n /\ \A g \in 1..n : old[g] \in Seq(V)
  BY <1>1
<1>3. ASSUME NEW g \in 1..n PROVE more[g] \in Seq(W) /\ Len(more[g]) = Len(old[g])
  <2>1. PICK m, s : m = Len(old[g]) /\ s = more[g]
    OBVIOUS
  <2>2. m \in Nat /\ DOMAIN old[g] = 1..m
    BY <1>2, <1>3, <2>1
  <2>3. s = [i \in 1..m |-> s[i]] /\ \A i \in 1..m : s[i] \in W
    BY <1>1, <1>3, <2>1, <2>2
  <2>4. s \in Seq(W) /\ Len(s) = m
    BY ONLY <2>2, <2>3, IsSequence
  <2> QED  BY <2>1, <2>4
<1>4. PICK U : U = Seq(W)
  OBVIOUS
<1>5. more = [g \in 1..n |-> more[g]] /\ \A g \in 1..n : more[g] \in U
  BY <1>2, <1>3, <1>4
<1>6. more \in Seq(U) /\ Len(more) = n
  BY ONLY <1>2, <1>5, IsSequence
<1> QED  BY <1>1, <1>3, <1>4, <1>6 DEF SameShape

PolysFinal(sys) ==
    /\ sys.gates \in Seq(Seq(Polyforms))
    /\ sys.lookups \in Seq(Seq(Polyforms \X Polyforms))
    /\ \A g \in 1..Len(sys.gates) : \A i \in 1..Len(sys.gates[g]) : Final(sys, sys.gates[g][i])
    /\ \A l \in 1..Len(sys.lookups) : \A i \in 1..Len(sys.lookups[l]) :
          Final(sys, sys.lookups[l][i][1]) /\ Final(sys, sys.lookups[l][i][2])

\* The constraint system of a key
KeyWired(sys) ==
    /\ IsSystem(sys) /\ QueriesSound(sys) /\ PermutationSound(sys) /\ PolysFinal(sys)
    /\ sys.advice \in Seq(Nat)

\* Setting two fields
SetsBoth(grown, sys, gates, lookups) ==
    grown = [f \in Fields |-> IF f = "gates" THEN gates ELSE IF f = "lookups" THEN lookups ELSE sys[f]]

\* Setting the gates and the lookups touches no other field and no query.
LEMMA SetsBothKeeps ==
    ASSUME NEW sys, IsSystem(sys), NEW gates, NEW lookups, NEW grown, SetsBoth(grown, sys, gates, lookups)
    PROVE  /\ IsSystem(grown) /\ grown.gates = gates /\ grown.lookups = lookups
           /\ \A f \in Fields \ {"gates", "lookups"} : grown[f] = sys[f]
           /\ \A k, c, a, i : Listed(grown, k, c, a, i) <=> Listed(sys, k, c, a, i)
<1>1. {"gates", "lookups", "queries"} \subseteq Fields
  BY DEF Fields, EmptySystem
<1>2. \A f \in Fields : grown[f] = IF f = "gates" THEN gates ELSE IF f = "lookups" THEN lookups ELSE sys[f]
  BY DEF SetsBoth
<1>3. /\ grown.gates = gates /\ grown.lookups = lookups /\ grown.queries = sys.queries
      /\ \A f \in Fields \ {"gates", "lookups"} : grown[f] = sys[f]
  BY <1>1, <1>2
<1>4. grown = [f \in Fields |-> grown[f]]
  BY DEF SetsBoth
<1>5. IsSystem(grown)
  BY <1>3, <1>4 DEF IsSystem
<1> QED  BY <1>3, <1>5 DEF Listed

\* Every selector of the system has been replaced.
AllReplaced(sys, replaced) ==
    /\ DOMAIN replaced = 1..sys.selectors
    /\ \A s \in 1..sys.selectors : ReplacementSound(sys, replaced[s])

\* What replace_selectors_with_fixed does to the gates and lookups
ReplacedPolys(sys, grown, replaced) ==
    /\ \A f \in Fields \ {"gates", "lookups"} : grown[f] = sys[f]
    /\ SameShape(grown.gates, sys.gates) /\ SameShape(grown.lookups, sys.lookups)
    /\ \A g \in 1..Len(sys.gates) : \A i \in 1..Len(sys.gates[g]) :
          grown.gates[g][i] = ReplacePoly(sys.gates[g][i], replaced)
    /\ \A l \in 1..Len(sys.lookups) : \A i \in 1..Len(sys.lookups[l]) :
          grown.lookups[l][i] = <<ReplacePoly(sys.lookups[l][i][1], replaced),
                                  ReplacePoly(sys.lookups[l][i][2], replaced)>>

\* Replacing the selectors rewrites each expression in its place, and leaves every cell indexed.
LEMMA ReplaceSelectorsStep ==
    ASSUME NEW sys, Wired(sys), NEW replaced, AllReplaced(sys, replaced),
           NEW grown, grown = ReplaceSelectors(sys, replaced)
    PROVE  KeyWired(grown) /\ ReplacedPolys(sys, grown, replaced)
<1> DEFINE op(p) == ReplacePoly(p, replaced)
<1>1. PICK oldGates, oldLookups : oldGates = sys.gates /\ oldLookups = sys.lookups
  OBVIOUS
<1>2. PICK gates : gates = [g \in DOMAIN oldGates |-> [i \in DOMAIN oldGates[g] |-> op(oldGates[g][i])]]
  OBVIOUS
<1>3. PICK lookups : lookups = [l \in DOMAIN oldLookups |->
          [i \in DOMAIN oldLookups[l] |-> <<op(oldLookups[l][i][1]), op(oldLookups[l][i][2])>>]]
  OBVIOUS
<1>4. SetsBoth(grown, sys, gates, lookups)
  <2>1. DOMAIN sys = Fields /\ "gates" \in Fields /\ "lookups" \in Fields
    BY SystemFields DEF Wired, Fields, EmptySystem
  <2>2. grown = [[sys EXCEPT !.gates = gates] EXCEPT !.lookups =
           [l \in DOMAIN @ |-> [i \in DOMAIN @[l] |-> <<op(@[l][i][1]), op(@[l][i][2])>>]]]
    BY <1>1, <1>2 DEF ReplaceSelectors, MapPolys, MapGates
  <2>3. PICK mid : mid = [sys EXCEPT !.gates = gates]
    OBVIOUS
  <2>4. mid = [f \in Fields |-> IF f = "gates" THEN gates ELSE sys[f]]
    BY <2>1, <2>3
  <2>5. mid.lookups = oldLookups /\ DOMAIN mid = Fields
    BY <1>1, <2>1, <2>4
  <2> HIDE DEF op
  <2>6. grown = [mid EXCEPT !.lookups =
           [l \in DOMAIN @ |-> [i \in DOMAIN @[l] |-> <<op(@[l][i][1]), op(@[l][i][2])>>]]]
    BY <2>2, <2>3
  <2>7. grown = [mid EXCEPT !.lookups = lookups]
    BY <1>3, <2>5, <2>6
  <2> QED  BY <2>1, <2>4, <2>5, <2>7 DEF SetsBoth
<1>5. /\ IsSystem(grown) /\ grown.gates = gates /\ grown.lookups = lookups
      /\ \A f \in Fields \ {"gates", "lookups"} : grown[f] = sys[f]
      /\ \A k, c, a, i : Listed(grown, k, c, a, i) <=> Listed(sys, k, c, a, i)
  BY <1>4, SetsBothKeeps DEF Wired
<1>6. oldGates \in Seq(Seq(Polyforms)) /\ oldLookups \in Seq(Seq(Polyforms \X Polyforms))
  BY <1>1 DEF Wired, PolysSound
<1>7. \A p : Final(sys, p) => Final(grown, p)
  BY <1>5 DEF Final, GuardFinal
<1>8. \A p : Indexed(sys, p) => Final(grown, op(p))
  BY <1>7, ReplacePolyStep DEF AllReplaced
<1>9. \A p : Final(grown, p) => p \in Polyforms
  BY DEF Final
<1> HIDE DEF op
<1>10. ASSUME NEW g \in 1..Len(oldGates)
       PROVE  /\ DOMAIN gates[g] = DOMAIN oldGates[g]
              /\ gates[g] = [i \in DOMAIN gates[g] |-> gates[g][i]]
              /\ \A i \in 1..Len(oldGates[g]) :
                    gates[g][i] = op(oldGates[g][i]) /\ Final(grown, gates[g][i]) /\ gates[g][i] \in Polyforms
  <2>1. g \in DOMAIN oldGates /\ oldGates[g] \in Seq(Polyforms)
    BY <1>6
  <2>2. DOMAIN oldGates[g] = 1..Len(oldGates[g])
    BY <2>1
  <2>3. gates[g] = [i \in DOMAIN oldGates[g] |-> op(oldGates[g][i])]
    BY <1>2, <2>1
  <2>4. \A i \in 1..Len(oldGates[g]) : Indexed(sys, oldGates[g][i])
    BY <1>1 DEF Wired, PolysSound
  <2>5. \A i \in 1..Len(oldGates[g]) : gates[g][i] = op(oldGates[g][i])
    BY <2>2, <2>3
  <2>6. \A i \in 1..Len(oldGates[g]) : Final(grown, gates[g][i]) /\ gates[g][i] \in Polyforms
    BY <1>8, <1>9, <2>4, <2>5
  <2>7. DOMAIN gates[g] = DOMAIN oldGates[g] /\ gates[g] = [i \in DOMAIN gates[g] |-> gates[g][i]]
    BY <2>3
  <2> QED  BY <2>5, <2>6, <2>7
<1>11. ASSUME NEW l \in 1..Len(oldLookups)
       PROVE  /\ DOMAIN lookups[l] = DOMAIN oldLookups[l]
              /\ lookups[l] = [i \in DOMAIN lookups[l] |-> lookups[l][i]]
              /\ \A i \in 1..Len(oldLookups[l]) :
                    /\ lookups[l][i] = <<op(oldLookups[l][i][1]), op(oldLookups[l][i][2])>>
                    /\ Final(grown, lookups[l][i][1]) /\ Final(grown, lookups[l][i][2])
                    /\ lookups[l][i] \in Polyforms \X Polyforms
  <2>1. l \in DOMAIN oldLookups /\ oldLookups[l] \in Seq(Polyforms \X Polyforms)
    BY <1>6
  <2>2. DOMAIN oldLookups[l] = 1..Len(oldLookups[l])
    BY <2>1
  <2>3. lookups[l] = [i \in DOMAIN oldLookups[l] |-> <<op(oldLookups[l][i][1]), op(oldLookups[l][i][2])>>]
    BY <1>3, <2>1
  <2>4. \A i \in 1..Len(oldLookups[l]) : Indexed(sys, oldLookups[l][i][1]) /\ Indexed(sys, oldLookups[l][i][2])
    BY <1>1 DEF Wired, PolysSound
  <2>5. \A i \in 1..Len(oldLookups[l]) : lookups[l][i] = <<op(oldLookups[l][i][1]), op(oldLookups[l][i][2])>>
    BY <2>2, <2>3
  <2>6. \A i \in 1..Len(oldLookups[l]) : Final(grown, lookups[l][i][1]) /\ Final(grown, lookups[l][i][2])
    BY <1>8, <2>4, <2>5
  <2>7. ASSUME NEW i \in 1..Len(oldLookups[l]) PROVE lookups[l][i] \in Polyforms \X Polyforms
    <3>1. PICK x, y : x = op(oldLookups[l][i][1]) /\ y = op(oldLookups[l][i][2])
      OBVIOUS
    <3>2. lookups[l][i] = <<x, y>>
      BY <2>5, <2>7, <3>1
    <3>3. Final(grown, x) /\ Final(grown, y)
      BY <1>8, <2>4, <2>7, <3>1
    <3>4. x \in Polyforms /\ y \in Polyforms
      BY <1>9, <3>3
    <3> QED  BY <3>2, <3>4
  <2>8. DOMAIN lookups[l] = DOMAIN oldLookups[l] /\ lookups[l] = [i \in DOMAIN lookups[l] |-> lookups[l][i]]
    BY <2>3
  <2> QED  BY <2>5, <2>6, <2>7, <2>8
<1>12. gates \in Seq(Seq(Polyforms)) /\ SameShape(gates, oldGates)
  <2>1. DOMAIN gates = DOMAIN oldGates /\ gates = [g \in DOMAIN gates |-> gates[g]]
    BY <1>2
  <2>2. \A g \in 1..Len(oldGates) : /\ DOMAIN gates[g] = DOMAIN oldGates[g]
                                    /\ gates[g] = [i \in DOMAIN gates[g] |-> gates[g][i]]
                                    /\ \A i \in 1..Len(oldGates[g]) : gates[g][i] \in Polyforms
    BY <1>10
  <2> QED  BY ONLY <1>6, <2>1, <2>2, NestShape
<1>13. lookups \in Seq(Seq(Polyforms \X Polyforms)) /\ SameShape(lookups, oldLookups)
  <2>1. DOMAIN lookups = DOMAIN oldLookups /\ lookups = [l \in DOMAIN lookups |-> lookups[l]]
    BY <1>3
  <2>2. PICK V : V = Polyforms \X Polyforms
    OBVIOUS
  <2>3. \A l \in 1..Len(oldLookups) : /\ DOMAIN lookups[l] = DOMAIN oldLookups[l]
                                      /\ lookups[l] = [i \in DOMAIN lookups[l] |-> lookups[l][i]]
                                      /\ \A i \in 1..Len(oldLookups[l]) : lookups[l][i] \in V
    BY <1>11, <2>2
  <2>4. oldLookups \in Seq(Seq(V))
    BY <1>6, <2>2
  <2>5. lookups \in Seq(Seq(V)) /\ SameShape(lookups, oldLookups)
    BY ONLY <2>1, <2>3, <2>4, NestShape
  <2> QED  BY <2>2, <2>5
<1>14. PolysFinal(grown)
  <2>1. ASSUME NEW g \in 1..Len(gates), NEW i \in 1..Len(gates[g]) PROVE Final(grown, gates[g][i])
    BY <1>10, <1>12, <2>1 DEF SameShape
  <2>2. ASSUME NEW l \in 1..Len(lookups), NEW i \in 1..Len(lookups[l])
        PROVE  Final(grown, lookups[l][i][1]) /\ Final(grown, lookups[l][i][2])
    BY <1>11, <1>13, <2>2 DEF SameShape
  <2> QED  BY <1>5, <1>12, <1>13, <2>1, <2>2 DEF PolysFinal
<1>15. /\ grown.permutation = sys.permutation /\ grown.advice = sys.advice
       /\ grown.advice_counts = sys.advice_counts /\ grown.queries = sys.queries
  BY <1>5 DEF Fields, EmptySystem
<1>16. QueriesSound(grown) /\ PermutationSound(grown)
  BY <1>5, <1>15 DEF Wired, QueriesSound, PermutationSound
<1>17. KeyWired(grown)
  <2>1. grown.advice \in Seq(Nat)
    BY <1>15 DEF Wired, Sized
  <2> QED  BY <1>5, <1>14, <1>16, <2>1 DEF KeyWired
<1>18. ReplacedPolys(sys, grown, replaced)
  <2>1. \A f \in Fields \ {"gates", "lookups"} : grown[f] = sys[f]
    BY <1>5
  <2>2. SameShape(grown.gates, sys.gates) /\ SameShape(grown.lookups, sys.lookups)
    BY <1>1, <1>5, <1>12, <1>13
  <2>3. \A g \in 1..Len(sys.gates) : \A i \in 1..Len(sys.gates[g]) :
            grown.gates[g][i] = ReplacePoly(sys.gates[g][i], replaced)
    BY <1>1, <1>5, <1>10 DEF op
  <2>4. \A l \in 1..Len(sys.lookups) : \A i \in 1..Len(sys.lookups[l]) :
            grown.lookups[l][i] = <<ReplacePoly(sys.lookups[l][i][1], replaced),
                                    ReplacePoly(sys.lookups[l][i][2], replaced)>>
    BY <1>1, <1>5, <1>11 DEF op
  <2> QED  BY ONLY <2>1, <2>2, <2>3, <2>4 DEF ReplacedPolys
<1> QED  BY <1>17, <1>18

(* ---------------------------------- maxima ------------------------------------- *)

IsMax(m, S) == m \in S /\ \A x \in S : x <= m

\* A bounded set of numbers has a greatest one.
LEMMA MaxBounded ==
    ASSUME NEW S \in SUBSET Nat, S # {}, NEW b \in Nat, \A x \in S : x <= b
    PROVE  IsMax(Max(S), S)
<1> DEFINE T == {b - x : x \in S}
<1>1. T \in SUBSET Nat /\ T # {}
  <2>1. PICK x : x \in S
    OBVIOUS
  <2>2. b - x \in T
    BY <2>1
  <2>3. \A y \in S : b - y \in Nat
    <3>1. ASSUME NEW y \in S PROVE b - y \in Nat
      <4>1. y \in Nat /\ y <= b
        OBVIOUS
      <4> QED  BY <4>1
    <3> QED  BY <3>1
  <2>4. \A t \in T : t \in Nat
    BY <2>3
  <2> HIDE DEF T
  <2> QED  BY <2>2, <2>4
<1> HIDE DEF T
<1>0. \E m \in T : \A k \in T : m <= k
  BY <1>1, LeastNatural
<1>2. PICK m \in T : \A k \in T : m <= k
  BY <1>0
<1> USE DEF T
<1>3. PICK x \in S : m = b - x
  BY <1>2
<1>4. ASSUME NEW y \in S PROVE y <= x
  <2>1. b - y \in T
    OBVIOUS
  <2>2. b - x <= b - y
    BY <1>2, <1>3, <2>1
  <2> QED  BY <2>2
<1> HIDE DEF T
<1>5. \A y \in S : x >= y
  BY <1>4
<1>6. PICK m0 : m0 = Max(S)
  OBVIOUS
<1>7. m0 \in S /\ \A y \in S : m0 >= y
  BY <1>3, <1>5, <1>6 DEF Max
<1>8. \A y \in S : y <= m0
  BY <1>7
<1> QED  BY <1>6, <1>7, <1>8 DEF IsMax

\* The maximum of two numbers.
LEMMA MaxPair ==
    ASSUME NEW a \in Nat, NEW b \in Nat
    PROVE  IsMax(Max({a, b}), {a, b})
<1>1. PICK S : S = {a, b}
  OBVIOUS
<1>2. S \in SUBSET Nat /\ S # {} /\ a + b \in Nat /\ \A x \in S : x <= a + b
  BY <1>1
<1>3. IsMax(Max(S), S)
  BY ONLY <1>2, MaxBounded
<1> QED  BY <1>1, <1>3

\* The numbers of a list have a bound.
LEMMA ImageBounded ==
    ASSUME NEW n \in Nat, NEW g \in [1..n -> Nat]
    PROVE  \E b \in Nat : \A i \in 1..n : g[i] <= b
<1> DEFINE S == {k \in 0..n : \E b \in Nat : \A i \in 1..k : g[i] <= b}
<1>1. 0 \in S
  OBVIOUS
<1>2. ASSUME NEW k \in 0..(n - 1), k \in S PROVE k + 1 \in S
  <2>1. PICK b \in Nat : \A i \in 1..k : g[i] <= b
    BY <1>2
  <2>2. k + 1 \in 1..n /\ k + 1 \in 0..n
    BY <1>2
  <2>3. PICK x : x = g[k + 1]
    OBVIOUS
  <2>4. x \in Nat /\ b + x \in Nat
    BY <2>2, <2>3
  <2>5. ASSUME NEW i \in 1..(k + 1) PROVE g[i] <= b + x
    <3>1. CASE i = k + 1
      BY <2>1, <2>3, <2>4, <3>1
    <3>2. CASE i # k + 1
      <4>1. i \in 1..k /\ i \in 1..n
        BY <1>2, <3>2
      <4>2. g[i] <= b /\ g[i] \in Nat
        BY <2>1, <4>1
      <4> QED  BY <2>1, <2>4, <4>2
    <3> QED  BY <3>1, <3>2
  <2> QED  BY <2>2, <2>4, <2>5
<1> HIDE DEF S
<1>3. 0..n \subseteq S
  BY <1>1, <1>2, BoundedInduction
<1>4. n \in S
  BY <1>3
<1> QED  BY <1>4 DEF S

\* The greatest of a list of numbers
LEMMA MaxImage ==
    ASSUME NEW n \in Nat \ {0}, NEW g \in [1..n -> Nat], NEW S, S = {g[i] : i \in 1..n}
    PROVE  IsMax(Max(S), S)
<1>1. PICK b \in Nat : \A i \in 1..n : g[i] <= b
  BY ImageBounded
<1>2. S \in SUBSET Nat /\ S # {} /\ \A x \in S : x <= b
  <2>1. 1 \in 1..n
    OBVIOUS
  <2> QED  BY <1>1, <2>1
<1> QED  BY ONLY <1>1, <1>2, MaxBounded

\* The greatest of a list of numbers and one more
LEMMA MaxWith ==
    ASSUME NEW n \in Nat, NEW g \in [1..n -> Nat], NEW a \in Nat, NEW S,
           S = {a} \cup {g[i] : i \in 1..n}
    PROVE  IsMax(Max(S), S)
<1>1. PICK b \in Nat : \A i \in 1..n : g[i] <= b
  BY ImageBounded
<1>2. S \in SUBSET Nat /\ S # {} /\ a + b \in Nat
  OBVIOUS
<1>3. \A x \in S : x <= a + b
  BY <1>1
<1> QED  BY ONLY <1>2, <1>3, MaxBounded

(* -------------------------------- combinations --------------------------------- *)

\* No two of these selectors are enabled on one row.
Exclusive(activations, c) ==
    \A i, k \in 1..Len(c) : c[i] # c[k] => activations[c[i]] \cap activations[c[k]] = {}

\* Selectors of a combination: those of gates leave room for its length in the degree,
\* and a selector of no gate is alone.
Fit(activations, degrees, limit, c) ==
    /\ c \in Seq(Nat) /\ c # <<>>
    /\ \A i \in 1..Len(c) : c[i] \in DOMAIN degrees
         /\ (degrees[c[i]] # 0 => degrees[c[i]] - 1 + Len(c) <= limit)
    /\ Exclusive(activations, c)
    /\ Len(c) = 1 \/ \A i \in 1..Len(c) : degrees[c[i]] # 0

\* A selector alone excludes nothing.
LEMMA AloneExclusive ==
    ASSUME NEW activations, NEW c, Len(c) = 1
    PROVE  Exclusive(activations, c)
<1>1. \A i \in 1..Len(c) : i = 1
  OBVIOUS
<1> QED  BY <1>1 DEF Exclusive

\* One with gates only
Gated(activations, degrees, limit, c) == Fit(activations, degrees, limit, c) /\ \A i \in 1..Len(c) : degrees[c[i]] # 0

\* The degrees of the selectors, none above the limit
DegreesFit(degrees, n, limit) ==
    n \in Nat /\ degrees \in [1..n -> Nat] /\ limit \in Nat /\ \A s \in 1..n : degrees[s] <= limit

\* A selector that joins a combination leaves room in the degree.
LEMMA JoinsFit ==
    ASSUME NEW activations, NEW n, NEW degrees, NEW limit, DegreesFit(degrees, n, limit),
           NEW c, Gated(activations, degrees, limit, c), NEW s \in 1..n, degrees[s] # 0,
           Joins(activations, degrees, limit, c, s)
    PROVE  Gated(activations, degrees, limit, Append(c, s))
<1>1. PICK m : m = Len(c)
  OBVIOUS
<1>2. m \in Nat \ {0} /\ DOMAIN c = 1..m /\ c \in Seq(Nat)
  BY <1>1 DEF Gated, Fit
<1>3. DOMAIN degrees = 1..n /\ \A t \in 1..n : degrees[t] \in Nat
  BY DEF DegreesFit
<1>4. PICK g : g = [i \in 1..m |-> degrees[c[i]] - 1]
  OBVIOUS
<1>5. \A i \in 1..m : c[i] \in 1..n /\ degrees[c[i]] \in Nat \ {0}
  BY <1>1, <1>3 DEF Gated, Fit
<1>6. g \in [1..m -> Nat]
  BY <1>4, <1>5
<1>7. PICK S, d : S = {degrees[t] - 1 : t \in ToSet(c)} /\ d = Max(S)
  OBVIOUS
<1>8. S = {g[i] : i \in 1..m}
  BY <1>2, <1>4, <1>7 DEF ToSet
<1>9. IsMax(d, S)
  BY ONLY <1>2, <1>6, <1>7, <1>8, MaxImage
<1>10. d \in Nat /\ \A i \in 1..m : degrees[c[i]] - 1 <= d
  BY <1>4, <1>6, <1>8, <1>9 DEF IsMax
<1>11. PICK e, x : e = degrees[s] - 1 /\ x = Max({d, e})
  OBVIOUS
<1>12. e \in Nat
  BY <1>3, <1>11
<1>13. IsMax(x, {d, e})
  BY <1>10, <1>11, <1>12, MaxPair
<1>14. x \in Nat /\ d <= x /\ e <= x
  BY <1>10, <1>12, <1>13 DEF IsMax
<1>15. x + m + 1 <= limit
  BY <1>1, <1>7, <1>11 DEF Joins
<1>16. limit \in Nat
  BY DEF DegreesFit
<1>17. PICK more : more = Append(c, s)
  OBVIOUS
<1>18. /\ more \in Seq(Nat) /\ Len(more) = m + 1 /\ more[m + 1] = s
       /\ \A i \in 1..m : more[i] = c[i]
  BY <1>1, <1>2, <1>17, AppendPlaces
<1>19. ASSUME NEW i \in 1..(m + 1)
       PROVE  more[i] \in 1..n /\ degrees[more[i]] # 0 /\ degrees[more[i]] - 1 + (m + 1) <= limit
  <2>1. CASE i \in 1..m
    <3>1. PICK w : w = degrees[c[i]]
      OBVIOUS
    <3>2. w \in Nat \ {0} /\ w - 1 <= d
      BY <1>5, <1>10, <2>1, <3>1
    <3>3. w - 1 + (m + 1) <= limit
      BY ONLY <1>2, <1>10, <1>14, <1>15, <1>16, <3>2
    <3> QED  BY <1>5, <1>18, <2>1, <3>1, <3>2, <3>3
  <2>2. CASE i \notin 1..m
    <3>1. i = m + 1
      BY <1>2, <2>2
    <3> QED  BY <1>2, <1>3, <1>11, <1>12, <1>14, <1>15, <1>16, <1>18, <3>1
  <2> QED  BY <2>1, <2>2
<1>20. more # <<>>
  BY <1>2, <1>18
<1>21. Exclusive(activations, more)
  <2>1. ASSUME NEW i \in 1..m
        PROVE  activations[s] \cap activations[c[i]] = {} /\ activations[c[i]] \cap activations[s] = {}
    <3>1. c[i] \in ToSet(c)
      BY <1>2, <2>1 DEF ToSet
    <3>2. activations[s] \cap activations[c[i]] = {}
      BY <3>1 DEF Joins, Excluded
    <3> QED  BY <3>2
  <2>2. ASSUME NEW i \in 1..m, NEW k \in 1..m, c[i] # c[k]
        PROVE  activations[c[i]] \cap activations[c[k]] = {}
    BY <1>1, <2>2 DEF Gated, Fit, Exclusive
  <2>3. \A i \in 1..(m + 1) : i = m + 1 \/ i \in 1..m
    BY <1>2
  <2>4. ASSUME NEW i \in 1..(m + 1), NEW k \in 1..(m + 1), more[i] # more[k]
        PROVE  activations[more[i]] \cap activations[more[k]] = {}
    <3>1. CASE i = m + 1 /\ k = m + 1
      BY <2>4, <3>1
    <3>2. CASE i = m + 1 /\ k \in 1..m
      BY <1>18, <2>1, <3>2
    <3>3. CASE i \in 1..m /\ k = m + 1
      BY <1>18, <2>1, <3>3
    <3>4. CASE i \in 1..m /\ k \in 1..m
      BY <1>18, <2>2, <2>4, <3>4
    <3> QED  BY <2>3, <3>1, <3>2, <3>3, <3>4
  <2> QED  BY <1>18, <2>4 DEF Exclusive
<1> QED  BY <1>3, <1>17, <1>18, <1>19, <1>20, <1>21 DEF Gated, Fit

\* A combination starts with the selector it is grown from.
LEMMA CombinationStep ==
    ASSUME NEW activations, NEW n, NEW degrees, NEW limit, DegreesFit(degrees, n, limit), NEW done,
           NEW s \in 1..n, degrees[s] # 0,
           NEW c, c = Combination(activations, degrees, limit, done, s)
    PROVE  Gated(activations, degrees, limit, c) /\ s \in ToSet(c)
<1> DEFINE V == {e \in Seq(Nat) : Gated(activations, degrees, limit, e) /\ e[1] = s}
           Grown(f) == f = [t \in s..n |-> IF t = s THEN <<s>>
                              ELSE LET e == f[t - 1]
                                   IN IF t \in Open(degrees, done) /\ Joins(activations, degrees, limit, e, t)
                                      THEN Append(e, t) ELSE e]
           step == [p \in Nat \X V |->
                      IF s + p[1] + 1 \in Open(degrees, done)
                         /\ Joins(activations, degrees, limit, p[2], s + p[1] + 1)
                      THEN Append(p[2], s + p[1] + 1) ELSE p[2]]
<1>1. n \in Nat /\ DOMAIN degrees = 1..n /\ degrees[s] \in Nat \ {0} /\ degrees[s] <= limit /\ limit \in Nat
  BY DEF DegreesFit
<1>2. <<s>> \in V
  <2>1. <<s>> \in Seq(Nat) /\ Len(<<s>>) = 1 /\ <<s>>[1] = s /\ <<s>> # <<>>
    BY <1>1
  <2>2. \A i \in 1..Len(<<s>>) : /\ <<s>>[i] \in DOMAIN degrees /\ degrees[<<s>>[i]] # 0
                                 /\ degrees[<<s>>[i]] - 1 + Len(<<s>>) <= limit
    BY <1>1, <2>1
  <2>3. Exclusive(activations, <<s>>)
    BY <2>1, AloneExclusive
  <2> QED  BY <2>1, <2>2, <2>3 DEF Gated, Fit
<1>3. ASSUME NEW k \in Nat, NEW e \in V, s + k + 1 \in Open(degrees, done),
             Joins(activations, degrees, limit, e, s + k + 1)
      PROVE  Append(e, s + k + 1) \in V
  <2>1. PICK t : t = s + k + 1
    OBVIOUS
  <2>2. t \in 1..n /\ degrees[t] # 0
    BY <1>1, <1>3, <2>1 DEF Open
  <2>3. Gated(activations, degrees, limit, e) /\ Joins(activations, degrees, limit, e, t)
    BY <1>3, <2>1
  <2>4. Gated(activations, degrees, limit, Append(e, t))
    BY ONLY <2>2, <2>3, DegreesFit(degrees, n, limit), JoinsFit
  <2>5. e \in Seq(Nat) /\ e # <<>> /\ e[1] = s
    BY <2>3 DEF Gated, Fit
  <2>6. Append(e, t) \in Seq(Nat) /\ Append(e, t)[1] = s
    <3>1. Len(e) \in Nat \ {0} /\ t \in Nat
      BY <1>1, <2>2, <2>5
    <3>2. 1 \in 1..Len(e)
      BY <3>1
    <3> QED  BY <2>5, <3>1, <3>2, AppendPlaces
  <2> QED  BY <2>1, <2>4, <2>6
<1>4. step \in [Nat \X V -> V]
  <2>1. ASSUME NEW p \in Nat \X V
        PROVE  (IF s + p[1] + 1 \in Open(degrees, done)
                   /\ Joins(activations, degrees, limit, p[2], s + p[1] + 1)
                THEN Append(p[2], s + p[1] + 1) ELSE p[2]) \in V
    <3>1. PICK k, e : k = p[1] /\ e = p[2]
      OBVIOUS
    <3> HIDE DEF V
    <3>2. k \in Nat /\ e \in V
      BY <2>1, <3>1
    <3> QED  BY <1>3, <3>1, <3>2
  <2> HIDE DEF V
  <2> QED  BY <2>1
<1> HIDE DEF step, V
<1>5. PICK m : m = n - s
  OBVIOUS
<1>6. m \in Nat
  BY <1>1, <1>5
<1>7. PICK g : IsRun(g, V, <<s>>, step, m)
  BY <1>2, <1>4, <1>6, RunExists
<1>8. /\ g \in [0..m -> V] /\ g[0] = <<s>>
      /\ \A i \in 0..(m - 1) : g[i + 1] = step[<<i, g[i]>>]
  BY <1>7 DEF IsRun
<1>9. PICK f : f = [t \in s..n |-> g[t - s]]
  OBVIOUS
<1>10. ASSUME NEW t \in s..n
       PROVE  f[t] = IF t = s THEN <<s>>
                     ELSE LET e == f[t - 1]
                          IN IF t \in Open(degrees, done) /\ Joins(activations, degrees, limit, e, t)
                             THEN Append(e, t) ELSE e
  <2>1. CASE t = s
    BY <1>1, <1>8, <1>9, <2>1
  <2>2. CASE t # s
    <3>1. PICK i : i = t - s - 1
      OBVIOUS
    <3>2. i \in 0..(m - 1) /\ i \in Nat /\ i \in 0..m /\ t - s = i + 1 /\ (t - 1) - s = i
          /\ t - 1 \in s..n /\ s + i + 1 = t
      BY <1>1, <1>5, <1>10, <2>2, <3>1
    <3>3. f[t] = g[i + 1] /\ f[t - 1] = g[i]
      BY <1>9, <1>10, <3>2
    <3>4. PICK e : e = g[i]
      OBVIOUS
    <3>5. e \in V /\ <<i, e>> \in Nat \X V
      BY <1>8, <3>2, <3>4
    <3>6. f[t] = step[<<i, e>>]
      BY <1>8, <3>2, <3>3, <3>4
    <3>7. step[<<i, e>>] = IF t \in Open(degrees, done) /\ Joins(activations, degrees, limit, e, t)
                           THEN Append(e, t) ELSE e
      BY <3>2, <3>5 DEF step
    <3> QED  BY <2>2, <3>3, <3>4, <3>6, <3>7
  <2> QED  BY <2>1, <2>2
<1>11. Grown(f)
  <2>1. f = [t \in s..n |-> f[t]]
    BY <1>9
  <2> QED  BY <1>10, <2>1
<1> DEFINE run == CHOOSE h : Grown(h)
<1>12. Grown(run)
  BY <1>11
<1>13. c = run[n]
  <2>1. Len(degrees) = n
    BY <1>1 DEF DegreesFit
  <2> QED  BY <2>1 DEF Combination
<1> HIDE DEF run
<1> DEFINE T == {k \in 0..m : run[s + k] \in V}
<1>14. 0 \in T
  <2>1. s \in s..n /\ s + 0 = s
    BY <1>1
  <2>2. run[s] = <<s>>
    BY <1>12, <2>1
  <2> QED  BY <1>2, <1>6, <2>1, <2>2
<1>15. ASSUME NEW k \in 0..(m - 1), k \in T PROVE k + 1 \in T
  <2>1. PICK t, e : t = s + k + 1 /\ e = run[s + k]
    OBVIOUS
  <2>2. t \in s..n /\ t # s /\ t - 1 = s + k /\ s + (k + 1) = t /\ k + 1 \in 0..m /\ k \in Nat
    BY <1>1, <1>5, <1>15, <2>1
  <2>3. e \in V
    BY <1>15, <2>1
  <2>4. run[t] = IF t \in Open(degrees, done) /\ Joins(activations, degrees, limit, e, t)
                 THEN Append(e, t) ELSE e
    BY <1>12, <2>1, <2>2
  <2>5. run[t] \in V
    BY <1>3, <2>1, <2>2, <2>3, <2>4
  <2> QED  BY <2>2, <2>5
<1>16. m \in T
  <2> HIDE DEF T
  <2>1. 0..m \subseteq T
    BY <1>6, <1>14, <1>15, BoundedInduction
  <2> QED  BY <1>6, <2>1
<1>17. c \in V
  <2>1. s + m = n
    BY <1>1, <1>5
  <2> QED  BY <1>13, <1>16, <2>1
<1>18. Gated(activations, degrees, limit, c) /\ c[1] = s
  BY <1>17 DEF V
<1>19. 1 \in DOMAIN c
  BY <1>18 DEF Gated, Fit
<1> QED  BY <1>18, <1>19 DEF ToSet

\* Enumerates of combinations that fit, and the selectors in one of them
FitList(activations, degrees, limit, list) ==
    list \in Seq(Seq(Nat)) /\ \A j \in 1..Len(list) : Fit(activations, degrees, limit, list[j])

Covers(list, S) == \A s \in S : \E j \in 1..Len(list) : s \in ToSet(list[j])

\* Adding a combination that fits to a list of such covers its selectors as well.
LEMMA FitAppend ==
    ASSUME NEW activations, NEW degrees, NEW limit, NEW list, FitList(activations, degrees, limit, list), NEW c, Fit(activations, degrees, limit, c)
    PROVE  /\ FitList(activations, degrees, limit, Append(list, c))
           /\ \A S : Covers(list, S) => Covers(Append(list, c), S \cup ToSet(c))
<1>1. PICK V : V = Seq(Nat)
  OBVIOUS
<1>2. list \in Seq(V) /\ c \in V
  BY <1>1 DEF FitList, Fit
<1>3. PICK more, m : more = Append(list, c) /\ m = Len(list)
  OBVIOUS
<1>4. /\ more \in Seq(V) /\ m \in Nat /\ Len(more) = m + 1 /\ more[m + 1] = c
      /\ \A i \in 1..m : more[i] = list[i] /\ i \in 1..(m + 1)
  BY ONLY <1>2, <1>3, AppendPlaces
<1>5. ASSUME NEW j \in 1..(m + 1) PROVE Fit(activations, degrees, limit, more[j])
  <2>1. CASE j \in 1..m
    BY <1>3, <1>4, <2>1 DEF FitList
  <2>2. CASE j \notin 1..m
    <3>1. j = m + 1
      BY <1>4, <2>2
    <3> QED  BY <1>4, <3>1
  <2> QED  BY <2>1, <2>2
<1>6. m + 1 \in 1..(m + 1)
  BY <1>4
<1>7. \A S : Covers(list, S) => Covers(more, S \cup ToSet(c))
  BY <1>3, <1>4, <1>6 DEF Covers
<1> QED  BY <1>1, <1>3, <1>4, <1>5, <1>7 DEF FitList

\* The selectors that guard no gate have a combination each.
LEMMA AloneStep ==
    ASSUME NEW activations, NEW n, NEW degrees, NEW limit, DegreesFit(degrees, n, limit)
    PROVE  /\ FitList(activations, degrees, limit, Alone(degrees))
           /\ Covers(Alone(degrees), {s \in 1..n : degrees[s] = 0})
<1> DEFINE V == {list \in Seq(Seq(Nat)) : FitList(activations, degrees, limit, list)}
           Upto(f) == f = [s \in 0..n |-> IF s = 0 THEN <<>>
                             ELSE IF degrees[s] = 0 THEN Append(f[s - 1], <<s>>) ELSE f[s - 1]]
           step == [p \in Nat \X V |->
                      IF p[1] + 1 <= n /\ degrees[p[1] + 1] = 0
                      THEN Append(p[2], <<p[1] + 1>>) ELSE p[2]]
<1>1. n \in Nat /\ DOMAIN degrees = 1..n /\ Len(degrees) = n
  BY DEF DegreesFit
<1>2. <<>> \in V
  <2>1. <<>> \in Seq(Seq(Nat)) /\ Len(<<>>) = 0
    OBVIOUS
  <2> QED  BY <2>1 DEF FitList
<1>3. ASSUME NEW k \in Nat, NEW list \in V, k + 1 <= n, degrees[k + 1] = 0
      PROVE  /\ Append(list, <<k + 1>>) \in V
             /\ \A S : Covers(list, S) => Covers(Append(list, <<k + 1>>), S \cup {k + 1})
  <2>1. PICK c : c = <<k + 1>>
    OBVIOUS
  <2>2. c \in Seq(Nat) /\ c # <<>> /\ Len(c) = 1 /\ c[1] = k + 1 /\ ToSet(c) = {k + 1}
    BY <2>1 DEF ToSet
  <2>3. k + 1 \in DOMAIN degrees
    BY <1>1, <1>3
  <2>4. Fit(activations, degrees, limit, c)
    <3>1. Exclusive(activations, c)
      BY <2>2, AloneExclusive
    <3> QED  BY <1>3, <2>2, <2>3, <3>1 DEF Fit
  <2>5. FitList(activations, degrees, limit, list)
    OBVIOUS
  <2>6. /\ FitList(activations, degrees, limit, Append(list, c))
        /\ \A S : Covers(list, S) => Covers(Append(list, c), S \cup ToSet(c))
    BY ONLY <2>4, <2>5, FitAppend
  <2> QED  BY <2>1, <2>2, <2>6 DEF FitList
<1>4. step \in [Nat \X V -> V]
  <2>1. ASSUME NEW p \in Nat \X V
        PROVE  (IF p[1] + 1 <= n /\ degrees[p[1] + 1] = 0
                THEN Append(p[2], <<p[1] + 1>>) ELSE p[2]) \in V
    <3>1. PICK k, list : k = p[1] /\ list = p[2]
      OBVIOUS
    <3> HIDE DEF V
    <3>2. k \in Nat /\ list \in V
      BY <2>1, <3>1
    <3> QED  BY <1>3, <3>1, <3>2
  <2> HIDE DEF V
  <2> QED  BY <2>1
<1> HIDE DEF step, V
<1>5. PICK f : IsRun(f, V, <<>>, step, n)
  BY <1>1, <1>2, <1>4, RunExists
<1>6. f \in [0..n -> V] /\ f[0] = <<>> /\ \A i \in 0..(n - 1) : f[i + 1] = step[<<i, f[i]>>]
  BY <1>5 DEF IsRun
<1>7. ASSUME NEW s \in 0..n
      PROVE  f[s] = IF s = 0 THEN <<>>
                    ELSE IF degrees[s] = 0 THEN Append(f[s - 1], <<s>>) ELSE f[s - 1]
  <2>1. CASE s = 0
    BY <1>6, <2>1
  <2>2. CASE s # 0
    <3>1. PICK i : i = s - 1
      OBVIOUS
    <3>2. i \in 0..(n - 1) /\ i \in Nat /\ i \in 0..n /\ s = i + 1 /\ i + 1 <= n
      BY <1>1, <1>7, <2>2, <3>1
    <3>3. PICK e : e = f[i]
      OBVIOUS
    <3>4. e \in V /\ <<i, e>> \in Nat \X V
      BY <1>6, <3>2, <3>3
    <3>5. f[s] = step[<<i, e>>]
      BY <1>6, <3>2, <3>3
    <3>6. step[<<i, e>>] = IF degrees[s] = 0 THEN Append(e, <<s>>) ELSE e
      BY <3>2, <3>4 DEF step
    <3> QED  BY <2>2, <3>1, <3>3, <3>5, <3>6
  <2> QED  BY <2>1, <2>2
<1>8. Upto(f)
  <2>1. f = [s \in 0..n |-> f[s]]
    BY <1>6
  <2> QED  BY <1>7, <2>1
<1> DEFINE run == CHOOSE h : Upto(h)
<1>9. Upto(run)
  BY <1>8
<1>10. Alone(degrees) = run[n]
  BY <1>1 DEF Alone
<1> HIDE DEF run
<1> DEFINE T == {k \in 0..n : run[k] \in V /\ Covers(run[k], {s \in 1..k : degrees[s] = 0})}
<1>11. 0 \in T
  <2>1. run[0] = <<>>
    BY <1>1, <1>9
  <2>2. {s \in 1..0 : degrees[s] = 0} = {}
    OBVIOUS
  <2> QED  BY <1>1, <1>2, <2>1, <2>2 DEF Covers
<1>12. ASSUME NEW k \in 0..(n - 1), k \in T PROVE k + 1 \in T
  <2>1. PICK list, next : list = run[k] /\ next = run[k + 1]
    OBVIOUS
  <2>2. k + 1 \in 0..n /\ k + 1 # 0 /\ (k + 1) - 1 = k /\ k \in Nat /\ k + 1 <= n
    BY <1>1, <1>12
  <2>3. next = IF degrees[k + 1] = 0 THEN Append(list, <<k + 1>>) ELSE list
    BY <1>9, <2>1, <2>2
  <2>4. PICK S, U : S = {s \in 1..k : degrees[s] = 0} /\ U = {s \in 1..(k + 1) : degrees[s] = 0}
    OBVIOUS
  <2>5. list \in V /\ Covers(list, S)
    BY <1>12, <2>1, <2>4
  <2>6. next \in V /\ Covers(next, U)
    <3>1. CASE degrees[k + 1] = 0
      <4>1. U = S \cup {k + 1}
        BY <2>2, <2>4, <3>1
      <4> QED  BY <1>3, <2>2, <2>3, <2>5, <3>1, <4>1
    <3>2. CASE degrees[k + 1] # 0
      <4>1. U = S
        BY <2>2, <2>4, <3>2
      <4> QED  BY <2>3, <2>5, <3>2, <4>1
    <3> QED  BY <3>1, <3>2
  <2> QED  BY <2>1, <2>2, <2>4, <2>6
<1>13. n \in T
  <2> HIDE DEF T
  <2>1. 0..n \subseteq T
    BY <1>1, <1>11, <1>12, BoundedInduction
  <2> QED  BY <1>1, <2>1
<1> QED  BY <1>10, <1>13 DEF V

\* Every selector of a gate is in a combination.
LEMMA CombinationsStep ==
    ASSUME NEW activations, NEW n, NEW degrees, NEW limit, DegreesFit(degrees, n, limit),
           NEW list, list = Combinations(activations, degrees, limit)
    PROVE  FitList(activations, degrees, limit, list) /\ Covers(list, {s \in 1..n : degrees[s] # 0})
<1> DEFINE V == {done \in Seq(Seq(Nat)) : FitList(activations, degrees, limit, done)}
           Upto(f) == f = [s \in 0..n |-> IF s = 0 THEN <<>>
                             ELSE LET done == f[s - 1]
                                  IN IF s \in Open(degrees, done)
                                     THEN Append(done, Combination(activations, degrees, limit, done, s))
                                     ELSE done]
           step == [p \in Nat \X V |->
                      IF p[1] + 1 \in Open(degrees, p[2])
                      THEN Append(p[2], Combination(activations, degrees, limit, p[2], p[1] + 1)) ELSE p[2]]
<1>1. n \in Nat /\ DOMAIN degrees = 1..n /\ Len(degrees) = n
  BY DEF DegreesFit
<1>2. <<>> \in V
  <2>1. <<>> \in Seq(Seq(Nat)) /\ Len(<<>>) = 0
    OBVIOUS
  <2> QED  BY <2>1 DEF FitList
<1>3. ASSUME NEW s, NEW done \in V, s \in Open(degrees, done),
             NEW c, c = Combination(activations, degrees, limit, done, s)
      PROVE  /\ Append(done, c) \in V
             /\ \A S : Covers(done, S) => Covers(Append(done, c), S \cup {s})
  <2>1. s \in 1..n /\ degrees[s] # 0
    BY <1>1, <1>3 DEF Open
  <2>2. Gated(activations, degrees, limit, c) /\ s \in ToSet(c)
    BY ONLY <1>3, <2>1, DegreesFit(degrees, n, limit), CombinationStep
  <2>3. Fit(activations, degrees, limit, c)
    BY <2>2 DEF Gated
  <2>4. FitList(activations, degrees, limit, done)
    OBVIOUS
  <2>5. /\ FitList(activations, degrees, limit, Append(done, c))
        /\ \A S : Covers(done, S) => Covers(Append(done, c), S \cup ToSet(c))
    BY ONLY <2>3, <2>4, FitAppend
  <2>6. \A S : Covers(Append(done, c), S \cup ToSet(c)) => Covers(Append(done, c), S \cup {s})
    BY <2>2 DEF Covers
  <2> QED  BY <2>5, <2>6 DEF FitList
<1>4. step \in [Nat \X V -> V]
  <2>1. ASSUME NEW p \in Nat \X V
        PROVE  (IF p[1] + 1 \in Open(degrees, p[2])
                THEN Append(p[2], Combination(activations, degrees, limit, p[2], p[1] + 1)) ELSE p[2]) \in V
    <3>1. PICK k, done : k = p[1] + 1 /\ done = p[2]
      OBVIOUS
    <3> HIDE DEF V
    <3>2. done \in V
      BY <2>1, <3>1
    <3> QED  BY <1>3, <3>1, <3>2
  <2> HIDE DEF V
  <2> QED  BY <2>1
<1> HIDE DEF step, V
<1>5. PICK f : IsRun(f, V, <<>>, step, n)
  BY <1>1, <1>2, <1>4, RunExists
<1>6. f \in [0..n -> V] /\ f[0] = <<>> /\ \A i \in 0..(n - 1) : f[i + 1] = step[<<i, f[i]>>]
  BY <1>5 DEF IsRun
<1>7. ASSUME NEW s \in 0..n
      PROVE  f[s] = IF s = 0 THEN <<>>
                    ELSE LET done == f[s - 1]
                         IN IF s \in Open(degrees, done)
                            THEN Append(done, Combination(activations, degrees, limit, done, s)) ELSE done
  <2>1. CASE s = 0
    BY <1>6, <2>1
  <2>2. CASE s # 0
    <3>1. PICK i : i = s - 1
      OBVIOUS
    <3>2. i \in 0..(n - 1) /\ i \in Nat /\ i \in 0..n /\ s = i + 1
      BY <1>1, <1>7, <2>2, <3>1
    <3>3. PICK e : e = f[i]
      OBVIOUS
    <3>4. e \in V /\ <<i, e>> \in Nat \X V
      BY <1>6, <3>2, <3>3
    <3>5. f[s] = step[<<i, e>>]
      BY <1>6, <3>2, <3>3
    <3>6. step[<<i, e>>] = IF s \in Open(degrees, e)
                           THEN Append(e, Combination(activations, degrees, limit, e, s)) ELSE e
      BY <3>2, <3>4 DEF step
    <3> QED  BY <2>2, <3>1, <3>3, <3>5, <3>6
  <2> QED  BY <2>1, <2>2
<1>8. Upto(f)
  <2>1. f = [s \in 0..n |-> f[s]]
    BY <1>6
  <2> QED  BY <1>7, <2>1
<1> DEFINE run == CHOOSE h : Upto(h)
<1>9. Upto(run)
  BY <1>8
<1>10. list = run[n]
  BY <1>1 DEF Combinations
<1> HIDE DEF run
<1> DEFINE T == {k \in 0..n : run[k] \in V /\ Covers(run[k], {s \in 1..k : degrees[s] # 0})}
<1>11. 0 \in T
  <2>1. run[0] = <<>>
    BY <1>1, <1>9
  <2>2. {s \in 1..0 : degrees[s] # 0} = {}
    OBVIOUS
  <2> QED  BY <1>1, <1>2, <2>1, <2>2 DEF Covers
<1>12. ASSUME NEW k \in 0..(n - 1), k \in T PROVE k + 1 \in T
  <2>1. PICK done, next, s, c : /\ done = run[k] /\ next = run[k + 1] /\ s = k + 1
                                /\ c = Combination(activations, degrees, limit, done, s)
    OBVIOUS
  <2>2. s \in 0..n /\ s # 0 /\ s - 1 = k /\ s \in 1..n
    BY <1>1, <1>12, <2>1
  <2>3. next = IF s \in Open(degrees, done) THEN Append(done, c) ELSE done
    BY <1>9, <2>1, <2>2
  <2>4. PICK S, U : S = {t \in 1..k : degrees[t] # 0} /\ U = {t \in 1..s : degrees[t] # 0}
    OBVIOUS
  <2>5. done \in V /\ Covers(done, S)
    BY <1>12, <2>1, <2>4
  <2>6. U \subseteq S \cup {s} /\ (degrees[s] = 0 => U \subseteq S)
    BY <1>12, <2>1, <2>4
  <2>7. next \in V /\ Covers(next, U)
    <3>1. CASE s \in Open(degrees, done)
      <4>1. next \in V /\ Covers(next, S \cup {s})
        BY <1>3, <2>1, <2>3, <2>5, <3>1
      <4> QED  BY <2>6, <4>1 DEF Covers
    <3>2. CASE s \notin Open(degrees, done)
      <4>1. next = done
        BY <2>3, <3>2
      <4>2. degrees[s] = 0 \/ \E i \in DOMAIN done : s \in ToSet(done[i])
        BY <1>1, <2>2, <3>2 DEF Open
      <4>3. DOMAIN done = 1..Len(done)
        BY <2>5 DEF V
      <4>4. degrees[s] # 0 => Covers(done, S \cup {s})
        BY <2>5, <4>2, <4>3 DEF Covers
      <4> QED  BY <2>5, <2>6, <4>1, <4>4 DEF Covers
    <3> QED  BY <3>1, <3>2
  <2> QED  BY <2>1, <2>2, <2>4, <2>7
<1>13. n \in T
  <2> HIDE DEF T
  <2>1. 0..n \subseteq T
    BY <1>1, <1>11, <1>12, BoundedInduction
  <2> QED  BY <1>1, <2>1
<1> QED  BY <1>10, <1>13 DEF V

(* ---------------------------------- degrees ------------------------------------ *)

Width(p) == Max({0} \cup {Len(t) : t \in ToSet(p.terms)})

\* The widest product of a polynomial, and its degree
LEMMA WidthStep ==
    ASSUME NEW p \in Polyforms
    PROVE  /\ Width(p) \in Nat /\ PolyDegree(p) = GuardDegree(p.guard) + Width(p)
           /\ GuardDegree(p.guard) \in Nat /\ PolyDegree(p) \in Nat
<1>1. PICK s, n : s = p.terms /\ n = Len(s)
  OBVIOUS
<1>2. s \in Seq(Seq(Cells)) /\ p.guard \in Guards
  BY <1>1 DEF Polyforms
<1>3. n \in Nat /\ DOMAIN s = 1..n /\ \A i \in 1..n : Len(s[i]) \in Nat
  BY <1>1, <1>2
<1>4. PICK g, S : g = [i \in 1..n |-> Len(s[i])] /\ S = {0} \cup {g[i] : i \in 1..n}
  OBVIOUS
<1>5. g \in [1..n -> Nat]
  BY <1>3, <1>4
<1>6. IsMax(Max(S), S)
  <2>1. 0 \in Nat
    OBVIOUS
  <2> QED  BY ONLY <1>3, <1>4, <1>5, <2>1, MaxWith
<1>7. S = {0} \cup {Len(t) : t \in ToSet(s)}
  BY <1>3, <1>4 DEF ToSet
<1>8. Width(p) = Max(S)
  BY <1>1, <1>7 DEF Width
<1>9. Width(p) \in Nat
  BY <1>4, <1>5, <1>6, <1>8 DEF IsMax
<1>10. GuardDegree(p.guard) \in Nat
  BY <1>2 DEF Guards, GuardDegree
<1> QED  BY <1>9, <1>10 DEF PolyDegree, Width

\* Products of the same lengths
LEMMA SameWidth ==
    ASSUME NEW p \in Polyforms, NEW q \in Polyforms, SameShape(q.terms, p.terms)
    PROVE  Width(q) = Width(p)
<1>1. PICK s, t, n : s = p.terms /\ t = q.terms /\ n = Len(s)
  OBVIOUS
<1>2. s \in Seq(Seq(Cells)) /\ t \in Seq(Seq(Cells))
  BY <1>1 DEF Polyforms
<1>3. DOMAIN s = 1..n /\ DOMAIN t = 1..n /\ \A i \in 1..n : Len(t[i]) = Len(s[i])
  BY <1>1, <1>2 DEF SameShape
<1>4. {Len(x) : x \in ToSet(s)} = {Len(x) : x \in ToSet(t)}
  BY <1>3 DEF ToSet
<1> QED  BY <1>1, <1>4 DEF Width

\* The polynomials of the gates in one list
LEMMA GatePolysStep ==
    ASSUME NEW sys, sys.gates \in Seq(Seq(Polyforms))
    PROVE  /\ GatePolys(sys) \in Seq(Polyforms)
           /\ \A p : p \in ToSet(GatePolys(sys)) <=>
                 \E g \in 1..Len(sys.gates) : \E i \in 1..Len(sys.gates[g]) : p = sys.gates[g][i]
<1>1. PICK V, seqs : V = Polyforms /\ seqs = sys.gates
  OBVIOUS
<1>2. seqs \in Seq(Seq(V))
  BY <1>1
<1>3. /\ FlattenSeq(seqs) \in Seq(V)
      /\ Range(FlattenSeq(seqs)) = UNION {Range(seqs[i]) : i \in 1..Len(seqs)}
  BY ONLY <1>2, FlattenType, FlattenRange
<1>4. \A g \in 1..Len(seqs) : DOMAIN seqs[g] = 1..Len(seqs[g])
  BY <1>2
<1>5. ToSet(FlattenSeq(seqs)) = Range(FlattenSeq(seqs))
  BY DEF ToSet, Range
<1>6. \A p, g : g \in 1..Len(seqs) => (p \in Range(seqs[g]) <=> \E i \in 1..Len(seqs[g]) : p = seqs[g][i])
  BY <1>4 DEF Range
<1>7. PICK all : all = FlattenSeq(seqs)
  OBVIOUS
<1>8. \A p : p \in ToSet(all) <=> \E g \in 1..Len(seqs) : p \in Range(seqs[g])
  BY <1>3, <1>5, <1>7
<1>9. \A p : p \in ToSet(all) <=> \E g \in 1..Len(seqs) : \E i \in 1..Len(seqs[g]) : p = seqs[g][i]
  BY ONLY <1>6, <1>8
<1>10. GatePolys(sys) = all
  BY <1>1, <1>7 DEF GatePolys
<1> QED  BY <1>1, <1>3, <1>7, <1>9, <1>10

\* The degrees of a list of polynomials are bounded.
LEMMA DegreesBounded ==
    ASSUME NEW polys \in Seq(Polyforms)
    PROVE  \E b \in Nat : \A p \in ToSet(polys) : PolyDegree(p) \in Nat /\ PolyDegree(p) <= b
<1>1. PICK n, g : n = Len(polys) /\ g = [i \in 1..n |-> PolyDegree(polys[i])]
  OBVIOUS
<1>2. n \in Nat /\ DOMAIN polys = 1..n /\ \A i \in 1..n : polys[i] \in Polyforms
  BY <1>1
<1>3. \A i \in 1..n : PolyDegree(polys[i]) \in Nat
  BY <1>2, WidthStep
<1>4. g \in [1..n -> Nat]
  BY <1>1, <1>3
<1>5. PICK b \in Nat : \A i \in 1..n : g[i] <= b
  BY ONLY <1>2, <1>4, ImageBounded
<1>6. ASSUME NEW p \in ToSet(polys) PROVE PolyDegree(p) \in Nat /\ PolyDegree(p) <= b
  <2>1. PICK i \in 1..n : p = polys[i]
    BY <1>2 DEF ToSet
  <2> QED  BY <1>1, <1>3, <1>5, <2>1
<1> QED  BY <1>6

\* The widest input or table expression of a lookup
Widest(lookup, i) == Max({1} \cup {PolyDegree(pair[i]) : pair \in ToSet(lookup)})

\* The degree of a lookup is a number.
LEMMA LookupDegreeStep ==
    ASSUME NEW lookup \in Seq(Polyforms \X Polyforms)
    PROVE  /\ Widest(lookup, 1) \in Nat /\ Widest(lookup, 2) \in Nat
           /\ LookupDegree(lookup) \in Nat
<1>1. PICK n : n = Len(lookup)
  OBVIOUS
<1>2. n \in Nat /\ DOMAIN lookup = 1..n /\ \A k \in 1..n : lookup[k] \in Polyforms \X Polyforms
  BY <1>1
<1>3. ASSUME NEW i \in {1, 2} PROVE Widest(lookup, i) \in Nat
  <2>1. PICK g, S : g = [k \in 1..n |-> PolyDegree(lookup[k][i])] /\ S = {1} \cup {g[k] : k \in 1..n}
    OBVIOUS
  <2>2. \A k \in 1..n : lookup[k][i] \in Polyforms
    BY <1>2, <1>3
  <2>3. \A k \in 1..n : PolyDegree(lookup[k][i]) \in Nat
    BY <2>2, WidthStep
  <2>4. g \in [1..n -> Nat]
    BY <2>1, <2>3
  <2>5. IsMax(Max(S), S)
    <3>1. 1 \in Nat
      OBVIOUS
    <3> QED  BY ONLY <1>2, <2>1, <2>4, <3>1, MaxWith
  <2>6. S = {1} \cup {PolyDegree(pair[i]) : pair \in ToSet(lookup)}
    BY <1>2, <2>1 DEF ToSet
  <2>7. Max(S) \in S /\ \A x \in S : x \in Nat
    <3>1. S = {1} \cup {g[k] : k \in 1..n} /\ \A k \in 1..n : g[k] \in Nat
      BY <2>1, <2>4
    <3>2. \A x \in S : x \in Nat
      BY ONLY <3>1
    <3> QED  BY <2>5, <3>2 DEF IsMax
  <2>8. Widest(lookup, i) = Max(S)
    BY <2>6 DEF Widest
  <2> QED  BY <2>7, <2>8
<1>4. LookupDegree(lookup) = Max({4, 2 + Widest(lookup, 1) + Widest(lookup, 2)})
  BY DEF LookupDegree, Widest
<1>5. PICK a : a = 2 + Widest(lookup, 1) + Widest(lookup, 2)
  OBVIOUS
<1>6. a \in Nat
  BY <1>3, <1>5
<1>7. IsMax(Max({4, a}), {4, a})
  <2>1. 4 \in Nat
    OBVIOUS
  <2> QED  BY ONLY <1>6, <2>1, MaxPair
<1> QED  BY <1>3, <1>4, <1>5, <1>6, <1>7 DEF IsMax

\* What the arguments of a system need
Needs(sys) == {PermutationDegree} \cup {LookupDegree(l) : l \in ToSet(sys.lookups)}
                                  \cup {PolyDegree(p) : p \in ToSet(GatePolys(sys))}

\* The required degree is the largest that the arguments of a system need.
LEMMA RequiredStep ==
    ASSUME NEW sys, sys.gates \in Seq(Seq(Polyforms)), sys.lookups \in Seq(Seq(Polyforms \X Polyforms))
    PROVE  RequiredDegree(sys) \in Nat /\ IsMax(RequiredDegree(sys), Needs(sys))
<1>1. PICK polys, lookups, n, V : /\ polys = GatePolys(sys) /\ lookups = sys.lookups /\ n = Len(lookups)
                                  /\ V = Seq(Polyforms \X Polyforms)
  OBVIOUS
<1>2. polys \in Seq(Polyforms)
  BY <1>1, GatePolysStep
<1>3. PICK b \in Nat : \A p \in ToSet(polys) : PolyDegree(p) \in Nat /\ PolyDegree(p) <= b
  BY <1>2, DegreesBounded
<1>4. lookups \in Seq(V)
  BY <1>1
<1>5. n \in Nat /\ DOMAIN lookups = 1..n /\ \A i \in 1..n : lookups[i] \in V
  BY <1>1, <1>4
<1>6. PICK g : g = [i \in 1..n |-> LookupDegree(lookups[i])]
  OBVIOUS
<1>7. \A i \in 1..n : LookupDegree(lookups[i]) \in Nat
  BY <1>1, <1>5, LookupDegreeStep
<1>8. g \in [1..n -> Nat]
  BY <1>6, <1>7
<1>9. PICK d \in Nat : \A i \in 1..n : g[i] <= d
  BY ONLY <1>5, <1>8, ImageBounded
<1>10. PICK S : S = Needs(sys)
  OBVIOUS
<1>11. ASSUME NEW x \in S PROVE x \in Nat /\ x <= 3 + b + d
  <2>1. CASE x = PermutationDegree
    BY <2>1 DEF PermutationDegree
  <2>2. CASE \E l \in ToSet(lookups) : x = LookupDegree(l)
    <3>1. PICK i \in 1..n : x = LookupDegree(lookups[i])
      BY <1>5, <2>2 DEF ToSet
    <3>2. x = g[i] /\ g[i] \in Nat /\ g[i] <= d
      BY <1>6, <1>8, <1>9, <3>1
    <3> QED  BY <3>2
  <2>3. CASE \E p \in ToSet(polys) : x = PolyDegree(p)
    <3>1. x \in Nat /\ x <= b
      BY <1>3, <2>3
    <3> QED  BY <3>1
  <2> QED  BY <1>1, <1>10, <2>1, <2>2, <2>3 DEF Needs
<1>12. S \in SUBSET Nat /\ S # {} /\ 3 + b + d \in Nat
  BY <1>10, <1>11 DEF Needs
<1>13. IsMax(Max(S), S)
  BY ONLY <1>11, <1>12, MaxBounded
<1>14. RequiredDegree(sys) = Max(S)
  BY <1>10 DEF RequiredDegree, Needs
<1> QED  BY <1>10, <1>12, <1>13, <1>14 DEF IsMax

\* The least of two numbers
LEMMA MinPair ==
    ASSUME NEW a \in Nat, NEW b \in Nat
    PROVE  Min({a, b}) = IF a <= b THEN a ELSE b
<1>1. PICK S, m : S = {a, b} /\ m = IF a <= b THEN a ELSE b
  OBVIOUS
<1>2. m \in S /\ \A x \in S : m <= x
  BY <1>1
<1>3. \A y \in S : (\A x \in S : y <= x) => y = m
  BY <1>1, <1>2
<1>4. PICK k : k = Min(S)
  OBVIOUS
<1>5. k \in S /\ \A x \in S : k <= x
  BY <1>2, <1>4 DEF Min
<1> QED  BY <1>1, <1>3, <1>4, <1>5

\* The greatest of two
LEMMA MaxOfPair ==
    ASSUME NEW a \in Nat, NEW b \in Nat
    PROVE  Max({a, b}) = IF a <= b THEN b ELSE a
<1>1. PICK S, k : S = {a, b} /\ k = Max(S)
  OBVIOUS
<1>2. k \in S /\ a <= k /\ b <= k
  BY <1>1, MaxPair DEF IsMax
<1> QED  BY <1>1, <1>2

\* The degree from what is required
Capped(required, minimum) ==
    LET least == IF minimum = None THEN 1 ELSE minimum
        most  == IF required <= MaxDegreeCap THEN required ELSE MaxDegreeCap
    IN  IF most <= least THEN least ELSE most

\* degree() is the required degree, within the cap and the minimum a circuit sets.
LEMMA DegreeStep ==
    ASSUME NEW sys, RequiredDegree(sys) \in Nat, sys.minimum \in Nat
    PROVE  Degree(sys) = Capped(RequiredDegree(sys), sys.minimum) /\ Degree(sys) \in Nat
<1>1. PICK r, l, m : /\ r = RequiredDegree(sys) /\ l = (IF sys.minimum = None THEN 1 ELSE sys.minimum)
                     /\ m = Min({r, MaxDegreeCap})
  OBVIOUS
<1>2. r \in Nat /\ l \in Nat /\ MaxDegreeCap \in Nat
  BY <1>1, ConstraintSystemAssumption
<1>3. m = IF r <= MaxDegreeCap THEN r ELSE MaxDegreeCap
  BY <1>1, <1>2, MinPair
<1>4. m \in Nat
  BY <1>2, <1>3
<1>5. Degree(sys) = Max({m, l})
  BY <1>1 DEF Degree
<1>6. Max({m, l}) = IF m <= l THEN l ELSE m
  BY ONLY <1>2, <1>4, MaxOfPair
<1> QED  BY <1>1, <1>2, <1>3, <1>4, <1>5, <1>6 DEF Capped

\* The degree of a selector is that of the widest gate it guards.
LEMMA SelectorDegreesStep ==
    ASSUME NEW sys, Wired(sys), NEW n, n = sys.selectors, NEW degrees, degrees = SelectorDegrees(sys)
    PROVE  /\ n \in Nat /\ degrees \in [1..n -> Nat]
           /\ \A p \in ToSet(GatePolys(sys)) : p.guard.kind = "simple" =>
                 /\ p.guard.column \in 1..n /\ degrees[p.guard.column] # 0
                 /\ PolyDegree(p) <= degrees[p.guard.column]
           /\ \A s \in 1..n : degrees[s] # 0 =>
                 \E p \in ToSet(GatePolys(sys)) : p.guard = Simple(s) /\ PolyDegree(p) = degrees[s]
<1>1. n \in Nat /\ sys.gates \in Seq(Seq(Polyforms))
  BY DEF Wired, Sized, PolysSound
<1>2. PICK polys : polys = GatePolys(sys)
  OBVIOUS
<1>3. /\ polys \in Seq(Polyforms)
      /\ \A p : p \in ToSet(polys) <=>
            \E g \in 1..Len(sys.gates) : \E i \in 1..Len(sys.gates[g]) : p = sys.gates[g][i]
  <2>1. /\ GatePolys(sys) \in Seq(Polyforms)
        /\ \A p : p \in ToSet(GatePolys(sys)) <=>
              \E g \in 1..Len(sys.gates) : \E i \in 1..Len(sys.gates[g]) : p = sys.gates[g][i]
    BY ONLY <1>1, GatePolysStep
  <2> QED  BY ONLY <1>2, <2>1
<1>4. PICK b \in Nat : \A p \in ToSet(polys) : PolyDegree(p) \in Nat /\ PolyDegree(p) <= b
  BY <1>3, DegreesBounded
<1>5. ASSUME NEW s
      PROVE  /\ SelectorDegree(sys, s) \in Nat
             /\ \A p \in ToSet(polys) : p.guard = Simple(s) => PolyDegree(p) <= SelectorDegree(sys, s)
             /\ SelectorDegree(sys, s) # 0 =>
                   \E p \in ToSet(polys) : p.guard = Simple(s) /\ PolyDegree(p) = SelectorDegree(sys, s)
  <2>1. PICK S : S = {0} \cup {PolyDegree(p) : p \in {q \in ToSet(polys) : q.guard = Simple(s)}}
    OBVIOUS
  <2>2. \A x \in S : x = 0 \/ \E p \in ToSet(polys) : p.guard = Simple(s) /\ x = PolyDegree(p)
    BY <2>1
  <2>3. \A x \in S : x \in Nat /\ x <= b
    BY <1>4, <2>2
  <2>4. S \in SUBSET Nat /\ S # {}
    BY <2>1, <2>3
  <2>5. IsMax(Max(S), S)
    BY ONLY <1>4, <2>3, <2>4, MaxBounded
  <2>6. SelectorDegree(sys, s) = Max(S)
    BY <1>2, <2>1 DEF SelectorDegree
  <2>7. \A p \in ToSet(polys) : p.guard = Simple(s) => PolyDegree(p) \in S
    BY <2>1
  <2>8. SelectorDegree(sys, s) \in S /\ \A x \in S : x <= SelectorDegree(sys, s)
    BY <2>5, <2>6 DEF IsMax
  <2> QED  BY <2>2, <2>3, <2>7, <2>8
<1>6. degrees = [s \in 1..n |-> SelectorDegree(sys, s)]
  BY DEF SelectorDegrees
<1>7. degrees \in [1..n -> Nat]
  BY <1>5, <1>6
<1>8. ASSUME NEW p \in ToSet(polys), p.guard.kind = "simple"
      PROVE  /\ p.guard.column \in 1..n /\ degrees[p.guard.column] # 0
             /\ PolyDegree(p) <= degrees[p.guard.column]
  <2>1. PICK g \in 1..Len(sys.gates) : \E i \in 1..Len(sys.gates[g]) : p = sys.gates[g][i]
    BY <1>3, <1>8
  <2>2. Indexed(sys, p)
    BY <2>1 DEF Wired, PolysSound
  <2>3. PICK s, u : s = p.guard.column /\ u = p.guard
    OBVIOUS
  <2>4. u \in Guards /\ u.kind = "simple" /\ u.column = s /\ u.root = 0 /\ u.size = 0 /\ u.index = None
        /\ s \in 1..n
    BY <1>8, <2>2, <2>3 DEF Indexed, GuardSound, Polyforms
  <2>5. u = [kind |-> u.kind, column |-> u.column, root |-> u.root, size |-> u.size, index |-> u.index]
    BY <2>4 DEF Guards
  <2>6. u = Simple(s)
    <3>1. Simple(s) = [kind |-> "simple", column |-> s, root |-> 0, size |-> 0, index |-> None]
      <4>1. PICK none : none = NoGuard
        OBVIOUS
      <4>2. none = [kind |-> "none", column |-> 0, root |-> 0, size |-> 0, index |-> None]
        BY <4>1 DEF NoGuard
      <4>3. Simple(s) = [none EXCEPT !.kind = "simple", !.column = s]
        BY <4>1 DEF Simple
      <4> QED  BY <4>2, <4>3
    <3> QED  BY <2>4, <2>5, <3>1
  <2>7. p \in Polyforms
    BY <2>2 DEF Indexed
  <2>8. PolyDegree(p) = 1 + Width(p) /\ Width(p) \in Nat
    BY <1>8, <2>7, WidthStep DEF GuardDegree
  <2>9. PolyDegree(p) <= SelectorDegree(sys, s) /\ SelectorDegree(sys, s) \in Nat
    BY <1>5, <2>3, <2>6
  <2>10. degrees[s] = SelectorDegree(sys, s)
    BY <1>6, <2>4
  <2> QED  BY <2>3, <2>4, <2>8, <2>9, <2>10
<1>9. \A s \in 1..n : degrees[s] # 0 =>
           \E p \in ToSet(polys) : p.guard = Simple(s) /\ PolyDegree(p) = degrees[s]
  BY <1>5, <1>6
<1> QED  BY <1>1, <1>2, <1>7, <1>8, <1>9

(* ---------------------------------- the key ------------------------------------ *)

\* How a polynomial of the key comes from one of the circuit's
PolyKept(p, q) ==
    SameShape(q.terms, p.terms) /\ (p.guard.kind # "simple" => q.guard = p.guard)

\* Its guard's column leaves room in the degree.
GuardFits(limit, p, q) ==
    p.guard.kind = "simple" =>
        /\ q.guard.kind = "column" /\ q.guard.size \in Nat \ {0}
        /\ q.guard.size + Width(p) <= limit

\* The key's system made from the circuit's, with the degree at most limit
KeyFrom(sys, grown, limit) ==
    /\ KeyWired(grown) /\ grown.minimum = sys.minimum
    /\ SameShape(grown.gates, sys.gates) /\ SameShape(grown.lookups, sys.lookups)
    /\ \A g \in 1..Len(sys.gates) : \A i \in 1..Len(sys.gates[g]) :
          /\ PolyKept(sys.gates[g][i], grown.gates[g][i])
          /\ GuardFits(limit, sys.gates[g][i], grown.gates[g][i])
    /\ \A l \in 1..Len(sys.lookups) : \A i \in 1..Len(sys.lookups[l]) :
          /\ PolyKept(sys.lookups[l][i][1], grown.lookups[l][i][1])
          /\ PolyKept(sys.lookups[l][i][2], grown.lookups[l][i][2])

\* So it keeps a polynomial's shape.
LEMMA ReplacedShape ==
    ASSUME NEW sys, NEW replaced, AllReplaced(sys, replaced), NEW p, Indexed(sys, p)
    PROVE  ShapeKept(p, ReplacePoly(p, replaced), replaced)
<1>1. DOMAIN replaced = 1..sys.selectors /\ \A s \in 1..sys.selectors : ReplacementSound(sys, replaced[s])
  BY DEF AllReplaced
<1> QED  BY <1>1, ReplacePolyStep

\* Rewriting by a list of combinations that holds every selector
LEMMA RewriteStep ==
    ASSUME NEW sys, Wired(sys), NEW n, n = sys.selectors, NEW activations, DOMAIN activations = 1..n,
           NEW rows, NEW limit \in Nat, NEW list, FitList(activations, SelectorDegrees(sys), limit, list),
           Covers(list, 1..n), NEW done, done = AssignColumns(sys, list, activations, rows),
           NEW grown, grown = ReplaceSelectors(done.cs, done.replaced)
    PROVE  KeyFrom(sys, grown, limit)
<1>1. PICK degrees, mid, replaced, m : /\ degrees = SelectorDegrees(sys) /\ mid = done.cs
                                       /\ replaced = done.replaced /\ m = Len(list)
  OBVIOUS
<1>2. /\ n \in Nat /\ degrees \in [1..n -> Nat]
      /\ \A p \in ToSet(GatePolys(sys)) : p.guard.kind = "simple" =>
                 /\ p.guard.column \in 1..n /\ degrees[p.guard.column] # 0
                 /\ PolyDegree(p) <= degrees[p.guard.column]
  BY <1>1, SelectorDegreesStep
<1>3. list \in Seq(Seq(Nat)) /\ m \in Nat /\ \A j \in 1..m : Fit(activations, degrees, limit, list[j])
  BY <1>1 DEF FitList
<1>4. Replaces(sys, n, Taken(list, m), done)
  BY ONLY <1>1, <1>2, <1>3, Wired(sys), DOMAIN activations = 1..n,
          done = AssignColumns(sys, list, activations, rows), AssignColumnsStep
<1>5. ASSUME NEW s \in 1..n
      PROVE  /\ ReplacementSound(mid, replaced[s])
             /\ degrees[s] # 0 => /\ replaced[s][3] \in Nat \ {0}
                                  /\ degrees[s] - 1 + replaced[s][3] <= limit
  <2>1. PICK k \in 1..m : s \in ToSet(list[k])
    BY <1>1 DEF Covers
  <2>2. \E c \in Taken(list, m) : s \in ToSet(c)
    BY <2>1 DEF Taken
  <2>3. /\ ReplacementSound(mid, replaced[s])
        /\ \E c \in Taken(list, m) : s \in ToSet(c) /\ replaced[s][3] = Len(c)
    BY <1>1, <1>4, <2>2 DEF Replaces
  <2>4. PICK j \in 1..m : s \in ToSet(list[j]) /\ replaced[s][3] = Len(list[j])
    BY <2>3 DEF Taken
  <2>5. PICK c : c = list[j]
    OBVIOUS
  <2>6. Fit(activations, degrees, limit, c)
    BY <1>3, <2>5
  <2>7. c \in Seq(Nat) /\ Len(c) \in Nat \ {0} /\ DOMAIN c = 1..Len(c)
    BY <2>6 DEF Fit
  <2>8. PICK i \in 1..Len(c) : c[i] = s
    BY <2>4, <2>5, <2>7 DEF ToSet
  <2>9. degrees[s] # 0 => degrees[s] - 1 + Len(c) <= limit
    BY <2>6, <2>8 DEF Fit
  <2> QED  BY <2>3, <2>4, <2>5, <2>7, <2>9
<1>6. /\ Keeps(sys, mid) /\ DOMAIN replaced = 1..n /\ Wired(mid) /\ mid.selectors = n
      /\ mid.gates = sys.gates /\ mid.lookups = sys.lookups /\ mid.minimum = sys.minimum
  BY <1>1, <1>4 DEF Replaces, Keeps
<1>7. AllReplaced(mid, replaced)
  BY <1>5, <1>6 DEF AllReplaced
<1>8. KeyWired(grown) /\ ReplacedPolys(mid, grown, replaced)
  BY <1>1, <1>6, <1>7, ReplaceSelectorsStep
<1>9. ASSUME NEW p, Indexed(mid, p), NEW q, q = ReplacePoly(p, replaced)
      PROVE  /\ PolyKept(p, q)
             /\ p.guard.kind = "simple" => q.guard.kind = "column" /\ q.guard.size = replaced[p.guard.column][3]
  <2>1. ShapeKept(p, q, replaced)
    BY ONLY <1>7, <1>9, ReplacedShape
  <2>2. /\ Len(q.terms) = Len(p.terms)
        /\ \A t \in 1..Len(p.terms) : Len(q.terms[t]) = Len(p.terms[t])
        /\ p.guard.kind # "simple" => q.guard = p.guard
    BY ONLY <2>1 DEF ShapeKept
  <2>3. p.guard.kind = "simple" => q.guard.kind = "column" /\ q.guard.size = replaced[p.guard.column][3]
    BY ONLY <2>1 DEF ShapeKept
  <2>4. PolyKept(p, q)
    BY ONLY <2>2 DEF PolyKept, SameShape
  <2> QED  BY <2>3, <2>4
<1>10. /\ \A g \in 1..Len(sys.gates) : \A i \in 1..Len(sys.gates[g]) : Indexed(mid, sys.gates[g][i])
       /\ \A l \in 1..Len(sys.lookups) : \A i \in 1..Len(sys.lookups[l]) :
             Indexed(mid, sys.lookups[l][i][1]) /\ Indexed(mid, sys.lookups[l][i][2])
  BY <1>6 DEF Wired, PolysSound
<1>11. ASSUME NEW g \in 1..Len(sys.gates), NEW i \in 1..Len(sys.gates[g])
       PROVE  /\ PolyKept(sys.gates[g][i], grown.gates[g][i])
              /\ GuardFits(limit, sys.gates[g][i], grown.gates[g][i])
  <2>1. PICK p, q : p = sys.gates[g][i] /\ q = ReplacePoly(p, replaced)
    OBVIOUS
  <2>2. grown.gates[g][i] = q
    BY <1>6, <1>8, <1>11, <2>1 DEF ReplacedPolys
  <2>3. Indexed(mid, p)
    BY <1>10, <1>11, <2>1
  <2>4. /\ PolyKept(p, q)
        /\ p.guard.kind = "simple" => q.guard.kind = "column" /\ q.guard.size = replaced[p.guard.column][3]
    BY <1>9, <2>1, <2>3
  <2>5. p \in ToSet(GatePolys(sys))
    <3>1. sys.gates \in Seq(Seq(Polyforms))
      BY DEF Wired, PolysSound
    <3> QED  BY <1>11, <2>1, <3>1, GatePolysStep
  <2>6. ASSUME p.guard.kind = "simple"
        PROVE  q.guard.size \in Nat \ {0} /\ q.guard.size + Width(p) <= limit
    <3>1. PICK s, z : s = p.guard.column /\ z = replaced[s][3]
      OBVIOUS
    <3>2. s \in 1..n /\ degrees[s] # 0 /\ PolyDegree(p) <= degrees[s]
      BY <1>2, <2>5, <2>6, <3>1
    <3>3. p \in Polyforms
      BY <2>3 DEF Indexed
    <3>4. PolyDegree(p) = 1 + Width(p) /\ Width(p) \in Nat
      BY <2>6, <3>3, WidthStep DEF GuardDegree
    <3>5. z \in Nat \ {0} /\ degrees[s] - 1 + z <= limit /\ degrees[s] \in Nat
      BY <1>2, <1>5, <3>1, <3>2
    <3>6. z + Width(p) <= limit
      BY <3>2, <3>4, <3>5
    <3> QED  BY <2>4, <2>6, <3>1, <3>5, <3>6
  <2>7. GuardFits(limit, p, q)
    BY <2>4, <2>6 DEF GuardFits
  <2> QED  BY <2>1, <2>2, <2>4, <2>7
<1>12. ASSUME NEW l \in 1..Len(sys.lookups), NEW i \in 1..Len(sys.lookups[l])
       PROVE  /\ PolyKept(sys.lookups[l][i][1], grown.lookups[l][i][1])
              /\ PolyKept(sys.lookups[l][i][2], grown.lookups[l][i][2])
  <2>1. PICK x, y : x = sys.lookups[l][i][1] /\ y = sys.lookups[l][i][2]
    OBVIOUS
  <2>2. grown.lookups[l][i] = <<ReplacePoly(x, replaced), ReplacePoly(y, replaced)>>
    BY <1>6, <1>8, <1>12, <2>1 DEF ReplacedPolys
  <2>3. Indexed(mid, x) /\ Indexed(mid, y)
    BY <1>10, <1>12, <2>1
  <2>4. PolyKept(x, ReplacePoly(x, replaced)) /\ PolyKept(y, ReplacePoly(y, replaced))
    BY <1>9, <2>3
  <2> QED  BY <2>1, <2>2, <2>4
<1>13. /\ SameShape(grown.gates, sys.gates) /\ SameShape(grown.lookups, sys.lookups)
       /\ grown.minimum = sys.minimum
  BY <1>6, <1>8 DEF ReplacedPolys, Fields, EmptySystem
<1> QED  BY <1>8, <1>11, <1>12, <1>13 DEF KeyFrom

\* Two lists of combinations, one after the other
LEMMA FitConcat ==
    ASSUME NEW activations, NEW degrees, NEW limit, NEW a, NEW b, FitList(activations, degrees, limit, a), FitList(activations, degrees, limit, b),
           NEW S, Covers(a, S), NEW T, Covers(b, T), NEW list, list = a \o b
    PROVE  FitList(activations, degrees, limit, list) /\ Covers(list, S \cup T)
<1>1. PICK V : V = Seq(Nat)
  OBVIOUS
<1>2. a \in Seq(V) /\ b \in Seq(V)
  BY <1>1 DEF FitList
<1>3. PICK m, k : m = Len(a) /\ k = Len(b)
  OBVIOUS
<1>4. /\ m \in Nat /\ k \in Nat /\ list \in Seq(V) /\ Len(list) = m + k
      /\ \A j \in 1..m : list[j] = a[j] /\ j \in 1..(m + k)
      /\ \A j \in 1..k : list[m + j] = b[j] /\ m + j \in 1..(m + k)
  BY ONLY <1>2, <1>3, list = a \o b
<1>5. ASSUME NEW j \in 1..(m + k) PROVE Fit(activations, degrees, limit, list[j])
  <2>1. CASE j \in 1..m
    BY <1>3, <1>4, <2>1 DEF FitList
  <2>2. CASE j \notin 1..m
    <3>1. PICK i : i = j - m
      OBVIOUS
    <3>2. i \in 1..k /\ j = m + i
      BY <1>4, <1>5, <2>2, <3>1
    <3> QED  BY <1>3, <1>4, <3>2 DEF FitList
  <2> QED  BY <2>1, <2>2
<1>6. FitList(activations, degrees, limit, list)
  BY <1>1, <1>4, <1>5 DEF FitList
<1>7. ASSUME NEW s \in S \cup T PROVE \E j \in 1..Len(list) : s \in ToSet(list[j])
  <2>1. CASE s \in S
    <3>1. PICK j \in 1..m : s \in ToSet(a[j])
      BY <1>3, <2>1 DEF Covers
    <3> QED  BY <1>4, <3>1
  <2>2. CASE s \in T
    <3>1. PICK j \in 1..k : s \in ToSet(b[j])
      BY <1>3, <2>2 DEF Covers
    <3> QED  BY <1>4, <3>1
  <2> QED  BY <1>7, <2>1, <2>2
<1> QED  BY <1>6, <1>7 DEF Covers

\* A key's system with another of its remaining fields set
LEMMA KeyFromSets ==
    ASSUME NEW sys, NEW grown, NEW limit, KeyFrom(sys, grown, limit),
           NEW field \in {"selectors", "selector_map"}, NEW v,
           NEW more, more = [grown EXCEPT ![field] = v]
    PROVE  KeyFrom(sys, more, limit)
<1>1. /\ IsSystem(grown) /\ DOMAIN grown = Fields /\ field \in Fields /\ field # "queries"
      /\ {"advice", "advice_counts", "permutation", "gates", "lookups", "minimum"} \subseteq Fields \ {field}
  BY SystemFields DEF KeyFrom, KeyWired, Fields, EmptySystem
<1>2. Sets(more, grown, field, v)
  BY <1>1 DEF Sets
<1>3. /\ IsSystem(more) /\ more.queries = grown.queries
      /\ \A f \in Fields \ {field} : more[f] = grown[f]
      /\ \A k, c, a, i : Listed(more, k, c, a, i) <=> Listed(grown, k, c, a, i)
  <2>1. field \in Fields \ {"queries"}
    BY <1>1
  <2>2. IsSystem(more) /\ more.queries = grown.queries
    BY ONLY <1>1, <1>2, <2>1, SetsKeeps
  <2>3. \A f \in Fields \ {field} : more[f] = grown[f]
    BY ONLY <1>1, <1>2, <2>1, SetsKeeps
  <2>4. \A k, c, a, i : Listed(more, k, c, a, i) <=> Listed(grown, k, c, a, i)
    BY ONLY <1>1, <1>2, <2>1, SetsKeeps
  <2> QED  BY <2>2, <2>3, <2>4
<1>4. /\ more.advice = grown.advice /\ more.advice_counts = grown.advice_counts
      /\ more.permutation = grown.permutation /\ more.gates = grown.gates
      /\ more.lookups = grown.lookups /\ more.minimum = grown.minimum
  BY <1>1, <1>3
<1>5. QueriesSound(more)
  BY <1>3, <1>4 DEF KeyFrom, KeyWired, QueriesSound
<1>6. PermutationSound(more)
  <2>1. PermutationSound(grown)
    BY DEF KeyFrom, KeyWired
  <2> QED  BY ONLY <1>3, <1>4, <2>1 DEF PermutationSound
<1>7. PolysFinal(more)
  <2>1. \A p : Final(grown, p) => Final(more, p)
    BY <1>3 DEF Final, GuardFinal
  <2> QED  BY <1>4, <2>1 DEF KeyFrom, KeyWired, PolysFinal
<1>8. KeyWired(more)
  <2>1. more.advice \in Seq(Nat)
    BY <1>4 DEF KeyFrom, KeyWired
  <2> QED  BY <1>3, <1>5, <1>6, <1>7, <2>1 DEF KeyWired
<1> QED  BY <1>4, <1>8 DEF KeyFrom

\* Compression's list of combinations: it fits in the degree and leaves no selector out.
LEMMA CompressList ==
    ASSUME NEW sys, Wired(sys), NEW n, n = sys.selectors, NEW activations,
           NEW limit \in Nat, limit = Degree(sys), ~ CompressPanics(sys),
           NEW degrees, degrees = SelectorDegrees(sys),
           NEW list, list = Alone(degrees) \o Combinations(activations, degrees, limit)
    PROVE  FitList(activations, degrees, limit, list) /\ Covers(list, 1..n) /\ DegreesFit(degrees, n, limit)
<1>1. n \in Nat /\ degrees \in [1..n -> Nat]
  BY SelectorDegreesStep
<1>2. \A s \in 1..n : degrees[s] <= limit
  BY <1>1 DEF CompressPanics
<1>3. DegreesFit(degrees, n, limit)
  BY <1>1, <1>2 DEF DegreesFit
<1>4. PICK first, then : /\ first = Alone(degrees)
                         /\ then = Combinations(activations, degrees, limit)
                         /\ list = first \o then
  OBVIOUS
<1>5. PICK S, T : S = {s \in 1..n : degrees[s] = 0} /\ T = {s \in 1..n : degrees[s] # 0}
  OBVIOUS
<1>6. FitList(activations, degrees, limit, first) /\ Covers(first, S)
  BY <1>3, <1>4, <1>5, AloneStep
<1>7. FitList(activations, degrees, limit, then) /\ Covers(then, T)
  <2>1. FitList(activations, degrees, limit, then) /\ Covers(then, {s \in 1..n : degrees[s] # 0})
    BY ONLY <1>3, <1>4, CombinationsStep
  <2> QED  BY ONLY <1>5, <2>1
<1>8. FitList(activations, degrees, limit, list) /\ Covers(list, S \cup T)
  BY ONLY <1>4, <1>6, <1>7, FitConcat
<1> QED  BY <1>3, <1>5, <1>8

\* Compressing the selectors, when keygen's assertions hold
LEMMA CompressStep ==
    ASSUME NEW sys, Wired(sys), NEW n, n = sys.selectors, NEW activations, DOMAIN activations = 1..n,
           NEW rows, NEW limit \in Nat, limit = Degree(sys), ~ CompressPanics(sys),
           NEW more, more = CompressSelectors(sys, activations, rows).cs
    PROVE  KeyFrom(sys, more, limit)
<1>1. PICK degrees : degrees = SelectorDegrees(sys)
  OBVIOUS
<1>2. PICK list : list = Alone(degrees) \o Combinations(activations, degrees, limit)
  OBVIOUS
<1>3. FitList(activations, SelectorDegrees(sys), limit, list) /\ Covers(list, 1..n)
  BY <1>1, <1>2, CompressList
<1>4. PICK done : done = AssignColumns(sys, list, activations, rows)
  OBVIOUS
<1>5. PICK grown : grown = ReplaceSelectors(done.cs, done.replaced)
  OBVIOUS
<1>6. KeyFrom(sys, grown, limit)
  BY ONLY <1>3, <1>4, <1>5, Wired(sys), n = sys.selectors, DOMAIN activations = 1..n,
          limit \in Nat, RewriteStep
<1>7. more = [grown EXCEPT !.selector_map = [s \in DOMAIN done.replaced |-> done.replaced[s][1]]]
  BY <1>1, <1>2, <1>4, <1>5 DEF CompressSelectors
<1> QED  BY <1>6, <1>7, KeyFromSets

\* Direct conversion's: each selector is a combination.
LEMMA DirectList ==
    ASSUME NEW sys, Wired(sys), NEW n, n = sys.selectors, NEW activations, DOMAIN activations = 1..n,
           NEW limit \in Nat, limit = RequiredDegree(sys),
           NEW degrees, degrees = SelectorDegrees(sys),
           NEW list, list = [s \in DOMAIN activations |-> <<s>>]
    PROVE  FitList(activations, degrees, limit, list) /\ Covers(list, 1..n) /\ Len(list) = n
<1>2. /\ n \in Nat /\ degrees \in [1..n -> Nat]
      /\ \A s \in 1..n : degrees[s] # 0 => \E p \in ToSet(GatePolys(sys)) : PolyDegree(p) = degrees[s]
  BY SelectorDegreesStep
<1>3. IsMax(limit, Needs(sys))
  BY RequiredStep DEF Wired, PolysSound
<1>4. ASSUME NEW s \in 1..n, degrees[s] # 0 PROVE degrees[s] <= limit
  <2>1. PICK p \in ToSet(GatePolys(sys)) : PolyDegree(p) = degrees[s]
    BY <1>2, <1>4
  <2>2. degrees[s] \in Needs(sys)
    BY <2>1 DEF Needs
  <2> QED  BY <1>3, <2>2 DEF IsMax
<1>5. ASSUME NEW s \in 1..n
      PROVE  list[s] \in Seq(Nat) /\ Fit(activations, degrees, limit, list[s]) /\ s \in ToSet(list[s])
  <2>1. PICK c : c = <<s>>
    OBVIOUS
  <2>2. s \in Nat
    BY <1>2
  <2>3. c \in Seq(Nat) /\ Len(c) = 1 /\ c # <<>> /\ c[1] = s /\ DOMAIN c = 1..1
    BY ONLY <2>1, <2>2
  <2>4. degrees[s] # 0 => degrees[s] - 1 + 1 <= limit
    BY <1>2, <1>4
  <2>5. \A i \in 1..Len(c) : c[i] = s
    BY <2>3
  <2>6. Fit(activations, degrees, limit, c)
    <3>1. Exclusive(activations, c)
      BY <2>3, AloneExclusive
    <3> QED  BY <1>2, <2>3, <2>4, <2>5, <3>1 DEF Fit
  <2>7. s \in ToSet(c)
    BY <2>3 DEF ToSet
  <2>8. list[s] = c
    BY <2>1
  <2> QED  BY <2>3, <2>6, <2>7, <2>8
<1>6. list \in Seq(Seq(Nat)) /\ Len(list) = n
  <2>1. PICK V : V = Seq(Nat)
    OBVIOUS
  <2>2. list = [s \in 1..n |-> list[s]] /\ \A s \in 1..n : list[s] \in V
    BY <1>5, <2>1
  <2>3. list \in Seq(V) /\ Len(list) = n
    BY ONLY <1>2, <2>2, IsSequence
  <2> QED  BY <2>1, <2>3
<1>7. FitList(activations, degrees, limit, list) /\ Covers(list, 1..n)
  BY <1>5, <1>6 DEF FitList, Covers
<1> QED  BY <1>6, <1>7

\* A column for each selector
LEMMA DirectStep ==
    ASSUME NEW sys, Wired(sys), NEW n, n = sys.selectors, NEW activations, DOMAIN activations = 1..n,
           NEW rows, NEW limit \in Nat, limit = RequiredDegree(sys),
           NEW more, more = DirectlyConvert(sys, activations, rows).cs
    PROVE  KeyFrom(sys, more, limit)
<1>1. PICK list : list = [s \in DOMAIN activations |-> <<s>>]
  OBVIOUS
<1>2. FitList(activations, SelectorDegrees(sys), limit, list) /\ Covers(list, 1..n)
  BY <1>1, DirectList
<1>3. PICK done : done = AssignColumns(sys, list, activations, rows)
  OBVIOUS
<1>4. PICK grown : grown = ReplaceSelectors(done.cs, done.replaced)
  OBVIOUS
<1>5. KeyFrom(sys, grown, limit)
  BY ONLY <1>2, <1>3, <1>4, Wired(sys), n = sys.selectors, DOMAIN activations = 1..n,
          limit \in Nat, RewriteStep
<1>6. more = [grown EXCEPT !.selectors = 0]
  BY <1>1, <1>3, <1>4 DEF DirectlyConvert
<1> QED  BY <1>5, <1>6, KeyFromSets

(* ------------------------------ the prover's system ---------------------------- *)

CellAgain(sys, b, f) == IsCell(b) /\ [b EXCEPT !.index = Position(sys, b.kind, b.column, b.at)] = f

GuardAgain(sys, b, g) ==
    g = IF b.kind = "column" THEN [b EXCEPT !.index = Position(sys, "fixed", b.column, 0)] ELSE b

\* The conversion forgets the index of a factor, and finds it again.
LEMMA FactorBack ==
    ASSUME NEW sys, IsSystem(sys), QueriesSound(sys), NEW f \in Cells, f.kind \in Kinds,
           Listed(sys, f.kind, f.column, f.at, f.index),
           NEW b, b = [f EXCEPT !.index = None]
    PROVE  CellAgain(sys, b, f)
<1>1. Position(sys, f.kind, f.column, f.at) = f.index
  BY PositionOf
<1>2. f = [kind |-> f.kind, column |-> f.column, at |-> f.at, index |-> f.index]
  BY DEF Cells
<1>3. b = [kind |-> f.kind, column |-> f.column, at |-> f.at, index |-> None]
  BY <1>2
<1>4. b.kind = f.kind /\ b.column = f.column /\ b.at = f.at
  BY <1>3
<1>5. IsCell(b)
  BY <1>4 DEF IsCell, Kinds
<1>6. [b EXCEPT !.index = f.index] = f
  BY <1>2, <1>3
<1> QED  BY <1>1, <1>4, <1>5, <1>6 DEF CellAgain

\* So it does for a guard.
LEMMA GuardBack ==
    ASSUME NEW sys, IsSystem(sys), QueriesSound(sys), NEW g \in Guards, GuardFinal(sys, g),
           NEW b, b = [g EXCEPT !.index = None]
    PROVE  GuardAgain(sys, b, g)
<1>1. g = [kind |-> g.kind, column |-> g.column, root |-> g.root, size |-> g.size, index |-> g.index]
  BY DEF Guards
<1>2. b = [kind |-> g.kind, column |-> g.column, root |-> g.root, size |-> g.size, index |-> None]
  BY <1>1
<1>3. b.kind = g.kind /\ b.column = g.column
  BY <1>2
<1>4. CASE g.kind = "none" /\ g.index = None
  <2>1. b = g
    BY <1>1, <1>2, <1>4
  <2> QED  BY <1>3, <1>4, <2>1 DEF GuardAgain
<1>5. CASE g.kind = "column" /\ Listed(sys, "fixed", g.column, 0, g.index)
  <2>1. Position(sys, "fixed", g.column, 0) = g.index
    BY <1>5, PositionOf DEF Kinds
  <2>2. [b EXCEPT !.index = g.index] = g
    BY <1>1, <1>2
  <2> QED  BY <1>3, <1>5, <2>1, <2>2 DEF GuardAgain
<1> QED  BY <1>4, <1>5 DEF GuardFinal

\* And for a polynomial.
LEMMA PolyBack ==
    ASSUME NEW sys, IsSystem(sys), QueriesSound(sys), NEW p, Final(sys, p)
    PROVE  AssignIndices(sys, Converted(p)) = p
<1> DEFINE blank(f) == [f EXCEPT !.index = None]
           placed(f) == IF IsCell(f) THEN [f EXCEPT !.index = Position(sys, f.kind, f.column, f.at)] ELSE f
<1>1. /\ p \in Polyforms /\ p.guard \in Guards /\ p.terms \in Seq(Seq(Cells))
      /\ p = [guard |-> p.guard, terms |-> p.terms] /\ GuardFinal(sys, p.guard)
  BY DEF Final, Polyforms
<1>2. PICK terms : terms = p.terms
  OBVIOUS
<1>3. /\ terms \in Seq(Seq(Cells)) /\ DOMAIN terms = 1..Len(terms)
      /\ \A t \in 1..Len(terms) : DOMAIN terms[t] = 1..Len(terms[t]) /\ terms[t] \in Seq(Cells)
  BY <1>1, <1>2
<1>4. ASSUME NEW t \in DOMAIN terms, NEW i \in DOMAIN terms[t] PROVE placed(blank(terms[t][i])) = terms[t][i]
  <2>1. PICK f, b : f = terms[t][i] /\ b = blank(f)
    OBVIOUS
  <2>2. f.kind \in Kinds /\ Listed(sys, f.kind, f.column, f.at, f.index)
    BY <1>2, <1>3, <1>4, <2>1 DEF Final
  <2>3. f \in Cells
    BY <1>3, <1>4, <2>1
  <2>4. IsCell(b) /\ [b EXCEPT !.index = Position(sys, b.kind, b.column, b.at)] = f
    <3>1. b = [f EXCEPT !.index = None]
      BY <2>1
    <3>2. CellAgain(sys, b, f)
      BY <2>2, <2>3, <3>1, FactorBack
    <3> QED  BY <3>2 DEF CellAgain
  <2> QED  BY <2>1, <2>4
<1>5. PICK g : g = [p.guard EXCEPT !.index = None]
  OBVIOUS
<1>6. p.guard = IF g.kind = "column" THEN [g EXCEPT !.index = Position(sys, "fixed", g.column, 0)] ELSE g
  <2>1. GuardAgain(sys, g, p.guard)
    BY <1>1, <1>5, GuardBack
  <2> QED  BY <2>1 DEF GuardAgain
<1>7. PICK blanks : blanks = [t \in DOMAIN terms |-> [i \in DOMAIN terms[t] |-> blank(terms[t][i])]]
  OBVIOUS
<1>8. PICK c : c = [guard |-> g, terms |-> blanks]
  OBVIOUS
<1>9. Converted(p) = c
  BY <1>2, <1>5, <1>7, <1>8 DEF Converted
<1>10. c.guard = g /\ c.terms = blanks
  BY <1>8
<1>11. AssignIndices(sys, c) =
         [guard |-> IF g.kind = "column" THEN [g EXCEPT !.index = Position(sys, "fixed", g.column, 0)] ELSE g,
          terms |-> [t \in DOMAIN blanks |-> [i \in DOMAIN blanks[t] |-> placed(blanks[t][i])]]]
  BY <1>10 DEF AssignIndices
<1> HIDE DEF blank, placed
<1>12. PICK again : again = [t \in DOMAIN blanks |-> [i \in DOMAIN blanks[t] |-> placed(blanks[t][i])]]
  OBVIOUS
<1>13. DOMAIN again = DOMAIN terms /\ DOMAIN blanks = DOMAIN terms
  BY <1>7, <1>12
<1>14. ASSUME NEW t \in DOMAIN terms PROVE again[t] = terms[t]
  <2>1. PICK s, u : s = blanks[t] /\ u = terms[t]
    OBVIOUS
  <2>2. s = [i \in DOMAIN u |-> blank(u[i])]
    BY <1>7, <1>14, <2>1
  <2>3. again[t] = [i \in DOMAIN s |-> placed(s[i])]
    BY <1>12, <1>13, <1>14, <2>1
  <2>4. ASSUME NEW i \in DOMAIN u PROVE placed(s[i]) = u[i]
    <3>1. placed(blank(u[i])) = u[i]
      BY <1>4, <1>14, <2>1, <2>4
    <3>2. s[i] = blank(u[i])
      BY <2>2, <2>4
    <3> QED  BY <3>1, <3>2
  <2>5. u = [i \in DOMAIN u |-> u[i]]
    BY <1>3, <1>14, <2>1
  <2>6. DOMAIN s = DOMAIN u
    BY <2>2
  <2>7. again[t] = [i \in DOMAIN u |-> u[i]]
    BY <2>3, <2>4, <2>6
  <2> QED  BY <2>1, <2>5, <2>7
<1>15. terms = [t \in DOMAIN terms |-> terms[t]] /\ again = [t \in DOMAIN again |-> again[t]]
  BY <1>3, <1>12
<1>16. again = terms
  <2>1. [t \in DOMAIN again |-> again[t]] = [t \in DOMAIN terms |-> terms[t]]
    BY ONLY <1>13, <1>14
  <2> QED  BY ONLY <1>15, <2>1
<1> QED  BY <1>1, <1>2, <1>6, <1>9, <1>11, <1>12, <1>16

\* Two nested sequences with the same elements
LEMMA NestSame ==
    ASSUME NEW V, NEW old \in Seq(Seq(V)), NEW again, DOMAIN again = DOMAIN old,
           again = [g \in DOMAIN again |-> again[g]],
           \A g \in DOMAIN old : /\ again[g] = [i \in DOMAIN old[g] |-> again[g][i]]
                                 /\ \A i \in DOMAIN old[g] : again[g][i] = old[g][i]
    PROVE  again = old
<1>1. old = [g \in DOMAIN old |-> old[g]] /\ \A g \in DOMAIN old : old[g] \in Seq(V)
  OBVIOUS
<1>2. ASSUME NEW g \in DOMAIN old PROVE again[g] = old[g]
  <2>1. PICK u, w : u = old[g] /\ w = again[g]
    OBVIOUS
  <2>2. u \in Seq(V)
    BY <1>1, <1>2, <2>1
  <2>3. u = [i \in DOMAIN u |-> u[i]]
    BY ONLY <2>2
  <2>4. w = [i \in DOMAIN u |-> w[i]] /\ \A i \in DOMAIN u : w[i] = u[i]
    BY <1>2, <2>1
  <2>5. w = u
    BY ONLY <2>3, <2>4
  <2> QED  BY <2>1, <2>5
<1>3. [g \in DOMAIN old |-> again[g]] = [g \in DOMAIN old |-> old[g]]
  BY <1>2
<1> QED  BY <1>1, <1>3

\* Mapping the polynomials sets the gates and the lookups.
LEMMA MapSets ==
    ASSUME NEW sys, IsSystem(sys), NEW gates, NEW lookups,
           NEW mid, mid = [sys EXCEPT !.gates = gates], NEW grown, grown = [mid EXCEPT !.lookups = lookups]
    PROVE  SetsBoth(grown, sys, gates, lookups) /\ mid.lookups = sys.lookups /\ mid.gates = gates
<1>1. DOMAIN sys = Fields /\ "gates" \in Fields /\ "lookups" \in Fields
  BY SystemFields DEF Fields, EmptySystem
<1>2. mid = [f \in Fields |-> IF f = "gates" THEN gates ELSE sys[f]]
  BY <1>1
<1>3. mid.lookups = sys.lookups /\ mid.gates = gates /\ DOMAIN mid = Fields
  BY <1>1, <1>2
<1> QED  BY <1>1, <1>2, <1>3 DEF SetsBoth

\* The prover's system is the key's.
LEMMA RebuiltStep ==
    ASSUME NEW sys, KeyWired(sys)
    PROVE  Rebuilt(sys) = sys
<1> DEFINE back(p) == AssignIndices(sys, p)
<1>1. IsSystem(sys) /\ QueriesSound(sys) /\ DOMAIN sys = Fields
  BY SystemFields DEF KeyWired
<1>2. PICK gates, lookups : gates = sys.gates /\ lookups = sys.lookups
  OBVIOUS
<1>3. /\ gates \in Seq(Seq(Polyforms)) /\ lookups \in Seq(Seq(Polyforms \X Polyforms))
      /\ \A g \in DOMAIN gates : \A i \in DOMAIN gates[g] : Final(sys, gates[g][i])
      /\ \A l \in DOMAIN lookups : \A i \in DOMAIN lookups[l] :
            Final(sys, lookups[l][i][1]) /\ Final(sys, lookups[l][i][2])
  <2>1. gates \in Seq(Seq(Polyforms)) /\ lookups \in Seq(Seq(Polyforms \X Polyforms))
    BY <1>2 DEF KeyWired, PolysFinal
  <2>2. ASSUME NEW g \in DOMAIN gates, NEW i \in DOMAIN gates[g] PROVE Final(sys, gates[g][i])
    <3>1. g \in 1..Len(gates) /\ gates[g] \in Seq(Polyforms)
      BY <2>1
    <3>2. i \in 1..Len(gates[g])
      BY <2>2, <3>1
    <3> QED  BY <1>2, <3>1, <3>2 DEF KeyWired, PolysFinal
  <2>3. ASSUME NEW l \in DOMAIN lookups, NEW i \in DOMAIN lookups[l]
        PROVE  Final(sys, lookups[l][i][1]) /\ Final(sys, lookups[l][i][2])
    <3>1. PICK V : V = Seq(Polyforms \X Polyforms)
      OBVIOUS
    <3>2. lookups \in Seq(V)
      BY <2>1, <3>1
    <3>3. l \in 1..Len(lookups) /\ lookups[l] \in V
      BY ONLY <2>3, <3>2
    <3>4. i \in 1..Len(lookups[l])
      BY <2>3, <3>1, <3>3
    <3> QED  BY <1>2, <3>3, <3>4 DEF KeyWired, PolysFinal
  <2> QED  BY <2>1, <2>2, <2>3
<1>4. PICK blankGates : blankGates =
        [g \in DOMAIN gates |-> [i \in DOMAIN gates[g] |-> Converted(gates[g][i])]]
  OBVIOUS
<1>5. PICK blankLookups : blankLookups =
        [l \in DOMAIN lookups |-> [i \in DOMAIN lookups[l] |->
            <<Converted(lookups[l][i][1]), Converted(lookups[l][i][2])>>]]
  OBVIOUS
<1>6. PICK again : again =
        [g \in DOMAIN blankGates |-> [i \in DOMAIN blankGates[g] |-> back(blankGates[g][i])]]
  OBVIOUS
<1>7. PICK pairs : pairs =
        [l \in DOMAIN blankLookups |-> [i \in DOMAIN blankLookups[l] |->
            <<back(blankLookups[l][i][1]), back(blankLookups[l][i][2])>>]]
  OBVIOUS
<1>8. PICK half, blank : half = [sys EXCEPT !.gates = blankGates] /\ blank = [half EXCEPT !.lookups = blankLookups]
  OBVIOUS
<1>9. /\ SetsBoth(blank, sys, blankGates, blankLookups) /\ half.lookups = lookups
  BY <1>1, <1>2, <1>8, MapSets
<1>10. /\ IsSystem(blank) /\ blank.gates = blankGates /\ blank.lookups = blankLookups
       /\ \A f \in Fields \ {"gates", "lookups"} : blank[f] = sys[f]
  BY <1>1, <1>9, SetsBothKeeps
<1>11. PICK more, done : more = [blank EXCEPT !.gates = again] /\ done = [more EXCEPT !.lookups = pairs]
  OBVIOUS
<1>12. SetsBoth(done, blank, again, pairs) /\ more.lookups = blankLookups
  <2>1. IsSystem(blank)
    BY <1>10
  <2>2. SetsBoth(done, blank, again, pairs) /\ more.lookups = blank.lookups
    <3>1. more = [blank EXCEPT !.gates = again]
      BY <1>11
    <3>2. done = [more EXCEPT !.lookups = pairs]
      BY <1>11
    <3> QED  BY ONLY <2>1, <3>1, <3>2, MapSets
  <2> QED  BY <1>10, <2>2
<1>13. /\ IsSystem(done) /\ done.gates = again /\ done.lookups = pairs
       /\ \A f \in Fields \ {"gates", "lookups"} : done[f] = blank[f]
  BY <1>10, <1>12, SetsBothKeeps
<1>14. MapPolys(sys, Converted) = blank
  <2>1. MapGates(sys, Converted) = half
    BY <1>2, <1>4, <1>8 DEF MapGates
  <2> QED  BY <1>5, <1>8, <1>9, <2>1 DEF MapPolys
<1>15. Rebuilt(sys) = MapPolys(blank, back)
  <2>1. Rebuilt(sys) = MapPolys(MapPolys(sys, Converted), LAMBDA p : AssignIndices(sys, p))
    BY DEF Rebuilt
  <2>2. MapPolys(MapPolys(sys, Converted), LAMBDA p : AssignIndices(sys, p)) = MapPolys(blank, LAMBDA p : AssignIndices(sys, p))
    BY ONLY <1>14
  <2> QED  BY <2>1, <2>2
<1> HIDE DEF back
<1>16. MapPolys(blank, back) = done
  <2>1. MapGates(blank, back) = more
    BY <1>6, <1>10, <1>11 DEF MapGates
  <2> QED  BY <1>7, <1>11, <1>12, <2>1 DEF MapPolys
<1>17. \A p : Final(sys, p) => back(Converted(p)) = p
  BY <1>1, PolyBack DEF back
<1>18. again = gates
  <2>1. DOMAIN again = DOMAIN gates /\ again = [g \in DOMAIN again |-> again[g]]
    BY <1>4, <1>6
  <2>2. ASSUME NEW g \in DOMAIN gates
        PROVE  /\ again[g] = [i \in DOMAIN gates[g] |-> again[g][i]]
               /\ \A i \in DOMAIN gates[g] : again[g][i] = gates[g][i]
    <3>1. PICK u, b, w : u = gates[g] /\ b = blankGates[g] /\ w = again[g]
      OBVIOUS
    <3>2. b = [i \in DOMAIN u |-> Converted(u[i])]
      BY <1>4, <2>2, <3>1
    <3>3. w = [i \in DOMAIN b |-> back(b[i])]
      BY <1>4, <1>6, <2>2, <3>1
    <3>4. DOMAIN b = DOMAIN u /\ w = [i \in DOMAIN u |-> w[i]]
      BY <3>2, <3>3
    <3>5. ASSUME NEW i \in DOMAIN u PROVE w[i] = u[i]
      <4>1. b[i] = Converted(u[i]) /\ w[i] = back(b[i])
        BY <3>2, <3>3, <3>4, <3>5
      <4>2. Final(sys, u[i])
        BY <1>3, <2>2, <3>1, <3>5
      <4> QED  BY <1>17, <4>1, <4>2
    <3> QED  BY <3>1, <3>4, <3>5
  <2> QED  BY ONLY <1>3, <2>1, <2>2, NestSame
<1>19. pairs = lookups
  <2>1. DOMAIN pairs = DOMAIN lookups /\ pairs = [l \in DOMAIN pairs |-> pairs[l]]
    BY <1>5, <1>7
  <2>2. ASSUME NEW l \in DOMAIN lookups
        PROVE  /\ pairs[l] = [i \in DOMAIN lookups[l] |-> pairs[l][i]]
               /\ \A i \in DOMAIN lookups[l] : pairs[l][i] = lookups[l][i]
    <3>1. PICK u, b, w : u = lookups[l] /\ b = blankLookups[l] /\ w = pairs[l]
      OBVIOUS
    <3>2. b = [i \in DOMAIN u |-> <<Converted(u[i][1]), Converted(u[i][2])>>]
      BY <1>5, <2>2, <3>1
    <3>3. w = [i \in DOMAIN b |-> <<back(b[i][1]), back(b[i][2])>>]
      BY <1>5, <1>7, <2>2, <3>1
    <3>4. DOMAIN b = DOMAIN u /\ w = [i \in DOMAIN u |-> w[i]]
      BY <3>2, <3>3
    <3>5. ASSUME NEW i \in DOMAIN u PROVE w[i] = u[i]
      <4>1. PICK x, y : x = u[i][1] /\ y = u[i][2]
        OBVIOUS
      <4>2. b[i] = <<Converted(x), Converted(y)>>
        BY <3>2, <3>5, <4>1
      <4>3. w[i] = <<back(b[i][1]), back(b[i][2])>>
        BY <3>3, <3>4, <3>5
      <4>4. Final(sys, x) /\ Final(sys, y)
        BY <1>3, <2>2, <3>1, <3>5, <4>1
      <4>5. w[i] = <<x, y>>
        BY <1>17, <4>2, <4>3, <4>4
      <4>6. u \in Seq(Polyforms \X Polyforms)
        BY <1>3, <2>2, <3>1
      <4>7. u[i] \in Polyforms \X Polyforms
        BY <3>5, <4>6
      <4>8. u[i] = <<x, y>>
        BY <4>1, <4>7
      <4> QED  BY <4>5, <4>8
    <3> QED  BY <3>1, <3>4, <3>5
  <2>3. PICK V : V = Polyforms \X Polyforms
    OBVIOUS
  <2>4. lookups \in Seq(Seq(V))
    BY <1>3, <2>3
  <2> QED  BY ONLY <2>1, <2>2, <2>4, NestSame
<1>20. \A f \in Fields : done[f] = sys[f]
  BY <1>2, <1>10, <1>13, <1>18, <1>19
<1>21. done = [f \in Fields |-> done[f]] /\ sys = [f \in Fields |-> sys[f]]
  BY <1>1, <1>13 DEF IsSystem
<1>22. done = sys
  BY ONLY <1>20, <1>21
<1> QED  BY <1>15, <1>16, <1>22

(* -------------------------------- the invariant -------------------------------- *)

\* The system nothing has been configured in
LEMMA EmptyWired == Wired(EmptySystem)
<1>1. PICK sys : sys = EmptySystem
  OBVIOUS
<1>2. sys = [f \in Fields |-> sys[f]]
  BY <1>1 DEF Fields, EmptySystem
<1>3. /\ sys.queries = [fixed |-> <<>>, advice |-> <<>>, instance |-> <<>>] /\ sys.advice_counts = <<>>
      /\ sys.gates = <<>> /\ sys.lookups = <<>> /\ sys.permutation = <<>> /\ sys.advice = <<>>
      /\ sys.fixed = 0 /\ sys.instance = 0 /\ sys.selectors = 0 /\ sys.minimum = 0
  BY <1>1 DEF EmptySystem, None
<1>4. \A kind \in Kinds : sys.queries[kind] = <<>>
  BY <1>3 DEF Kinds
<1>5. sys.queries \in [Kinds -> Seq(Pairs)]
  <2>1. PICK q, V : q = sys.queries /\ V = Seq(Pairs)
    OBVIOUS
  <2>2. DOMAIN q = Kinds /\ q = [k \in DOMAIN q |-> q[k]]
    BY <1>3, <2>1 DEF Kinds
  <2>3. <<>> \in V
    BY <2>1
  <2>4. \A k \in Kinds : q[k] \in V
    BY <1>4, <2>1, <2>3
  <2> QED  BY <2>1, <2>2, <2>4
<1>6. Len(<<>>) = 0 /\ 1..0 = {} /\ DOMAIN <<>> = {}
  OBVIOUS
<1>7. \A V : <<>> \in Seq(V)
  OBVIOUS
<1>8. QueriesSound(sys)
  <2>1. \A kind \in Kinds : IsInjective(sys.queries[kind])
    BY <1>4, <1>6 DEF IsInjective
  <2>2. sys.advice_counts \in [1..Len(sys.advice) -> Nat]
    BY <1>3, <1>6
  <2>3. \A c, a, i : ~ Listed(sys, "advice", c, a, i)
    BY <1>4, <1>6 DEF Listed, Kinds
  <2>4. \A c \in 1..Len(sys.advice) : FALSE
    BY <1>3, <1>6
  <2> QED  BY <2>1, <2>2, <2>3, <2>4 DEF QueriesSound
<1>9. Sized(sys)
  BY <1>3, <1>7 DEF Sized
<1>10. PolysSound(sys)
  BY <1>3, <1>6, <1>7 DEF PolysSound
<1>11. PermutationSound(sys)
  BY <1>3, <1>6, <1>7 DEF PermutationSound
<1> QED  BY <1>1, <1>2, <1>5, <1>8, <1>9, <1>10, <1>11 DEF Wired, IsSystem

\* Which degree bounds the rewriting
Limit(sys, limit) == limit \in Nat /\ (limit = Degree(sys) \/ limit = RequiredDegree(sys))

\* The key comes from the circuit's system, and the prover's is the key's.
KeyInv ==
    /\ ConfigInv
    /\ stage \in {"synthesis", "assertion"} \/ Done => degree = Degree(cs)
    /\ stage = "synthesis" => DOMAIN enabled = 1..cs.selectors
    /\ stage = "assertion" => CompressPanics(cs)
    /\ Done => (\E limit : Limit(cs, limit) /\ KeyFrom(cs, key.cs, limit)) /\ ~ SimpleInLookup(cs)
    /\ stage = "loaded" => prover = key.cs

\* The invariant holds of a system on which nothing has been called.
LEMMA KeyInit ==
    ASSUME Init
    PROVE  KeyInv
<1>1. circuit \in Circuits /\ position = 1 /\ cs = EmptySystem /\ stage = "configure"
  BY DEF Init
<1>2. Wired(cs)
  BY <1>1, EmptyWired
<1>3. \A name : Allocated(circuit.script, 1, name) = 0
  <2>1. ASSUME NEW name PROVE Allocated(circuit.script, 1, name) = 0
    <3>1. {i \in 1..(1 - 1) : circuit.script[i].op = name} = {}
      OBVIOUS
    <3> QED  BY <3>1, FS_EmptySet DEF Allocated
  <2> QED  BY <2>1
<1>4. cs.selectors = 0 /\ Len(cs.advice) = 0
  BY <1>1 DEF EmptySystem
<1>5. SelectorsSound(cs, circuit.simple)
  BY <1>1, FieldIsInt DEF EmptySystem, SelectorsSound, None
<1>6. ConfigInv
  BY <1>1, <1>2, <1>3, <1>4, <1>5 DEF ConfigInv, ConfigOf
<1> QED  BY <1>1, <1>6 DEF KeyInv, Done

\* What a step of synthesis leaves as it is
LEMMA SynthesizeStep ==
    ASSUME Synthesize
    PROVE  /\ stage = "synthesis" /\ stage' \in {"synthesis", "failed", "panicked"}
           /\ UNCHANGED <<circuit, position, cs, degree>>
           /\ DOMAIN enabled' = DOMAIN enabled
<1>1. ASSUME NEW row, NEW outside \in {"failed", "panicked"}, NEW selectors, NEW cells, NEW values,
             DOMAIN selectors = DOMAIN enabled, Assembles(row, outside, selectors, cells, values)
      PROVE  /\ stage = "synthesis" /\ stage' \in {"synthesis", "failed", "panicked"}
             /\ UNCHANGED <<circuit, position, cs, degree>>
             /\ DOMAIN enabled' = DOMAIN enabled
  BY <1>1 DEF Assembles, config, assembly
<1>2. CASE Compute
  BY <1>2 DEF Compute, config, assembly
<1>3. CASE FillUnknown
  BY <1>3 DEF FillUnknown, config, assembly
<1>4. ASSUME NEW s, NEW row, EnableSelector(s, row)
      PROVE  /\ stage = "synthesis" /\ stage' \in {"synthesis", "failed", "panicked"}
             /\ UNCHANGED <<circuit, position, cs, degree>>
             /\ DOMAIN enabled' = DOMAIN enabled
  <2>1. PICK selectors : selectors = [enabled EXCEPT ![s] = @ \cup {row}]
    OBVIOUS
  <2>2. DOMAIN selectors = DOMAIN enabled
    BY <2>1
  <2>3. Assembles(row, "failed", selectors, fixed, meant)
    BY <1>4, <2>1 DEF EnableSelector
  <2> QED  BY <1>1, <2>2, <2>3
<1>5. ASSUME NEW c, NEW row, AssignFixed(c, row)
      PROVE  /\ stage = "synthesis" /\ stage' \in {"synthesis", "failed", "panicked"}
             /\ UNCHANGED <<circuit, position, cs, degree>>
             /\ DOMAIN enabled' = DOMAIN enabled
  BY <1>1, <1>5 DEF AssignFixed
<1>6. ASSUME NEW c, NEW row, FillFromRow(c, row)
      PROVE  /\ stage = "synthesis" /\ stage' \in {"synthesis", "failed", "panicked"}
             /\ UNCHANGED <<circuit, position, cs, degree>>
             /\ DOMAIN enabled' = DOMAIN enabled
  BY <1>1, <1>6 DEF FillFromRow
<1> QED  BY <1>2, <1>3, <1>4, <1>5, <1>6 DEF Synthesize

\* Every step of configuration, synthesis, key generation and loading keeps it.
LEMMA KeyStep ==
    ASSUME KeyInv, [Next]_vars
    PROVE  KeyInv'
<1>1. CASE Configure
  <2>1. ConfigInv'
    BY <1>1, ConfigureStep DEF KeyInv
  <2>2. stage' \in {"configure", "panicked"}
    <3>1. ASSUME NEW name, NEW ok \in BOOLEAN, NEW result, Calls(name), Returns(ok, result)
          PROVE  stage' \in {"configure", "panicked"}
      BY <3>1 DEF Calls, Returns
    <3>2. CASE AllocateFixed \/ AllocateInstance \/ AllocateSelector \/ CallEquality \/ CallConstant
      BY <3>1, <3>2 DEF AllocateFixed, AllocateInstance, AllocateSelector, CallEquality, CallConstant
    <3>3. CASE AllocateAdvice
      <4>1. PICK ok : ok = (call.phase = 0 \/ PhaseExists(cs, call.phase - 1))
        OBVIOUS
      <4> QED  BY <3>3, <4>1 DEF AllocateAdvice, Calls, Returns
    <3>4. CASE AllocateChallenge
      BY <3>4 DEF AllocateChallenge, Calls, Returns
    <3>5. CASE CallMinimumDegree \/ CallLookupAny
      BY <3>1, <3>5 DEF CallMinimumDegree, CallLookupAny
    <3>6. CASE CallGate
      BY <3>6 DEF CallGate, Calls, Returns
    <3>7. CASE CallLookup
      BY <3>7 DEF CallLookup, Calls, Returns
    <3> QED  BY <1>1, <3>2, <3>3, <3>4, <3>5, <3>6, <3>7 DEF Configure
  <2> QED  BY <2>1, <2>2 DEF KeyInv, Done
<1>2. CASE Begin
  <2>1. UNCHANGED <<circuit, position, cs>> /\ degree' = Degree(cs)
    BY <1>2 DEF Begin, config
  <2>2. ConfigInv'
    BY <2>1 DEF KeyInv, ConfigInv
  <2>3. CASE stage' = "failed"
    BY <2>2, <2>3 DEF KeyInv, Done
  <2>4. CASE stage' # "failed"
    <3>1. stage' = "synthesis" /\ enabled' = [s \in 1..cs.selectors |-> {}]
      BY <1>2, <2>4 DEF Begin
    <3>2. DOMAIN enabled' = 1..cs.selectors
      BY <3>1
    <3> QED  BY <2>1, <2>2, <3>1, <3>2 DEF KeyInv, Done
  <2> QED  BY <2>3, <2>4
<1>3. CASE Synthesize
  <2>1. /\ stage = "synthesis" /\ stage' \in {"synthesis", "failed", "panicked"}
        /\ UNCHANGED <<circuit, position, cs, degree>>
        /\ DOMAIN enabled' = DOMAIN enabled
    BY <1>3, SynthesizeStep
  <2>2. ConfigInv'
    BY <2>1 DEF KeyInv, ConfigInv
  <2> QED  BY <2>1, <2>2 DEF KeyInv, Done
<1>4. ASSUME NEW compress \in BOOLEAN, Finish(compress) PROVE KeyInv'
  <2>1. stage = "synthesis" /\ UNCHANGED <<circuit, position, cs, degree>>
    BY <1>4 DEF Finish, config
  <2>2. ConfigInv' /\ Wired(cs)
    BY <2>1 DEF KeyInv, ConfigInv, ConfigOf
  <2>3. degree = Degree(cs) /\ DOMAIN enabled = 1..cs.selectors
    BY <2>1 DEF KeyInv
  <2>4. CASE IF compress THEN CompressPanics(cs) ELSE SimpleInLookup(cs)
    <3>1. stage' = "assertion"
      BY <1>4, <2>4 DEF Finish
    <3>2. CompressPanics(cs)
      BY <2>4 DEF CompressPanics
    <3> QED  BY <2>1, <2>2, <2>3, <3>1, <3>2 DEF KeyInv, Done
  <2>5. CASE ~ (IF compress THEN CompressPanics(cs) ELSE SimpleInLookup(cs))
    <3>1. PICK converted : converted = IF compress THEN CompressSelectors(cs, enabled, 1..N)
                                       ELSE DirectlyConvert(cs, enabled, 1..N)
      OBVIOUS
    <3>2. stage' = "keyed" /\ key' = Key(compress, converted)
      BY <1>4, <2>5, <3>1 DEF Finish
    <3>3. key'.cs = converted.cs
      BY <3>2 DEF Key
    <3>4. ~ SimpleInLookup(cs)
      BY <2>5 DEF CompressPanics
    <3>5. RequiredDegree(cs) \in Nat /\ cs.minimum \in Nat
      BY <2>2, RequiredStep DEF Wired, PolysSound, Sized
    <3>6. Degree(cs) \in Nat
      BY <3>5, DegreeStep
    <3>7. \E limit : Limit(cs, limit) /\ KeyFrom(cs, converted.cs, limit)
      <4>1. PICK n, acts : n = cs.selectors /\ acts = enabled
        OBVIOUS
      <4>2. DOMAIN acts = 1..n
        BY <2>3, <4>1
      <4>3. CASE compress
        <5>1. PICK limit \in Nat : limit = Degree(cs)
          BY <3>6
        <5>2. converted = CompressSelectors(cs, acts, 1..N) /\ ~ CompressPanics(cs)
          BY <2>5, <3>1, <4>1, <4>3
        <5>3. KeyFrom(cs, converted.cs, limit)
          BY <2>2, <4>1, <4>2, <5>1, <5>2, CompressStep
        <5> QED  BY <5>1, <5>3 DEF Limit
      <4>4. CASE ~ compress
        <5>1. PICK limit \in Nat : limit = RequiredDegree(cs)
          BY <3>5
        <5>2. converted = DirectlyConvert(cs, acts, 1..N)
          BY <3>1, <4>1, <4>4
        <5>3. KeyFrom(cs, converted.cs, limit)
          BY <2>2, <4>1, <4>2, <5>1, <5>2, DirectStep
        <5> QED  BY <5>1, <5>3 DEF Limit
      <4> QED  BY <4>3, <4>4
    <3> QED  BY <2>1, <2>2, <2>3, <3>2, <3>3, <3>4, <3>7 DEF KeyInv, Done
  <2> QED  BY <2>4, <2>5
<1>5. CASE Load
  <2>1. /\ stage = "keyed" /\ stage' = "loaded" /\ prover' = Rebuilt(key.cs)
        /\ UNCHANGED <<circuit, position, cs, degree, enabled, key>>
    BY <1>5 DEF Load, config, assembly
  <2>2. KeyWired(key.cs)
    BY <2>1 DEF KeyInv, Done, KeyFrom
  <2>3. prover' = key.cs
    BY <2>1, <2>2, RebuiltStep
  <2>4. ConfigInv'
    BY <2>1 DEF KeyInv, ConfigInv
  <2> QED  BY <2>1, <2>3, <2>4 DEF KeyInv, Done
<1>6. CASE UNCHANGED vars
  BY <1>6 DEF vars, config, assembly, KeyInv, ConfigInv, Done
<1> QED  BY <1>1, <1>2, <1>3, <1>4, <1>5, <1>6 DEF Next

\* Every key comes from its circuit's system.
THEOREM KeysComeFromCircuits == Spec => []KeyInv
<1> QED  BY KeyInit, KeyStep, PTL DEF Spec

(* ------------------------------- queries of the key ----------------------------- *)

\* The count of an advice column is that of its queries.
LEMMA CountsStep ==
    ASSUME NEW sys, IsSystem(sys), QueriesSound(sys), NEW c \in 1..Len(sys.advice)
    PROVE  sys.advice_counts[c] = Cardinality({q \in ToSet(sys.queries.advice) : q[1] = c})
<1>1. PICK s, S, T : /\ s = sys.queries["advice"] /\ S = Of(s, c)
                     /\ T = {q \in ToSet(s) : q[1] = c}
  OBVIOUS
<1>2. IsFiniteSet(S)
  BY <1>1, OfIsListed
<1>3. sys.advice_counts[c] = Cardinality(S)
  BY <1>1 DEF QueriesSound
<1>4. IsInjective(s)
  BY <1>1 DEF QueriesSound, Kinds
<1>5. PICK f : f = [i \in S |-> s[i]]
  OBVIOUS
<1>6. S \subseteq DOMAIN s /\ \A i \in S : s[i][1] = c
  BY <1>1 DEF Of
<1>7. ASSUME NEW q \in T PROVE \E i \in S : f[i] = q
  <2>1. PICK i \in DOMAIN s : s[i] = q
    BY <1>1, <1>7 DEF ToSet
  <2>2. i \in S
    BY <1>1, <1>7, <2>1 DEF Of
  <2> QED  BY <1>5, <2>1, <2>2
<1>8. \A i \in S : f[i] \in T
  BY <1>1, <1>5, <1>6 DEF ToSet
<1>9. \A i, j \in S : f[i] = f[j] => i = j
  BY <1>4, <1>5, <1>6 DEF IsInjective
<1>10. f \in [S -> T]
  BY <1>5, <1>8
<1>11. f \in Bijection(S, T)
  <2>1. DOMAIN f = S
    BY <1>10
  <2>2. IsInjective(f)
    BY <1>9, <2>1 DEF IsInjective
  <2> QED  BY <1>7, <1>9, <1>10, <2>2 DEF Bijection, Injection, Surjection
<1>12. ExistsBijection(S, T)
  BY <1>11 DEF ExistsBijection
<1>13. Cardinality(T) = Cardinality(S)
  BY <1>2, <1>12, FS_Bijection
<1> QED  BY <1>1, <1>3, <1>13

\* Every polynomial of the key is final.
LEMMA PolysOfKey ==
    ASSUME NEW sys, KeyWired(sys)
    PROVE  \A p \in ToSet(Polys(sys)) : Final(sys, p)
<1>1. PICK F : F = {p \in Polyforms : Final(sys, p)}
  OBVIOUS
<1>2. PICK gates, lookups : gates = sys.gates /\ lookups = sys.lookups
  OBVIOUS
<1>3. gates \in Seq(Seq(Polyforms)) /\ lookups \in Seq(Seq(Polyforms \X Polyforms))
  BY <1>2 DEF KeyWired, PolysFinal
<1>4. \A p : Final(sys, p) => p \in F
  BY <1>1 DEF Final
<1>5. gates \in Seq(Seq(F))
  <2>1. ASSUME NEW g \in 1..Len(gates) PROVE gates[g] \in Seq(F)
    <3>1. PICK u, n : u = gates[g] /\ n = Len(u)
      OBVIOUS
    <3>2. u \in Seq(Polyforms)
      BY <1>3, <2>1, <3>1
    <3>3. u = [i \in 1..n |-> u[i]] /\ n \in Nat
      BY <3>1, <3>2
    <3>4. \A i \in 1..n : Final(sys, u[i])
      BY <1>2, <2>1, <3>1 DEF KeyWired, PolysFinal
    <3>5. \A i \in 1..n : u[i] \in F
      BY <1>4, <3>4
    <3>6. u \in Seq(F)
      BY ONLY <3>3, <3>5, IsSequence
    <3> QED  BY <3>1, <3>6
  <2>2. PICK n, V : n = Len(gates) /\ V = Seq(F)
    OBVIOUS
  <2>3. n \in Nat /\ gates = [g \in 1..n |-> gates[g]] /\ \A g \in 1..n : gates[g] \in V
    BY <1>3, <2>1, <2>2
  <2>4. gates \in Seq(V)
    BY ONLY <2>3, IsSequence
  <2> QED  BY <2>2, <2>4
<1>6. PICK nested : nested = [l \in DOMAIN lookups |-> [i \in DOMAIN lookups[l] |-> lookups[l][i]]]
  OBVIOUS
<1>7. nested \in Seq(Seq(Seq(F)))
  <2>1. ASSUME NEW l \in 1..Len(lookups) PROVE nested[l] \in Seq(Seq(F))
    <3>1. PICK u, n, W : u = lookups[l] /\ n = Len(u) /\ W = Polyforms \X Polyforms
      OBVIOUS
    <3>2. u \in Seq(W) /\ l \in DOMAIN lookups
      BY <1>3, <2>1, <3>1
    <3>3. u = [i \in 1..n |-> u[i]] /\ n \in Nat /\ DOMAIN u = 1..n
      BY <3>1, <3>2
    <3>4. nested[l] = u
      BY <1>6, <3>1, <3>2, <3>3
    <3>5. ASSUME NEW i \in 1..n PROVE u[i] \in Seq(F)
      <4>1. PICK x, y : x = u[i][1] /\ y = u[i][2]
        OBVIOUS
      <4>2. u[i] \in Polyforms \X Polyforms
        BY <3>1, <3>2, <3>3, <3>5
      <4>3. u[i] = <<x, y>>
        BY <4>1, <4>2
      <4>4. Final(sys, x) /\ Final(sys, y)
        BY <1>2, <2>1, <3>1, <3>5, <4>1 DEF KeyWired, PolysFinal
      <4>5. x \in F /\ y \in F
        BY <1>4, <4>4
      <4> QED  BY ONLY <4>3, <4>5
    <3>6. PICK V : V = Seq(F)
      OBVIOUS
    <3>7. \A i \in 1..n : u[i] \in V
      BY <3>5, <3>6
    <3>8. u \in Seq(V)
      BY ONLY <3>3, <3>7, IsSequence
    <3> QED  BY <3>4, <3>6, <3>8
  <2>2. PICK n, V : n = Len(lookups) /\ V = Seq(Seq(F))
    OBVIOUS
  <2>3. n \in Nat /\ DOMAIN lookups = 1..n
    BY <1>3, <2>2
  <2>4. nested = [l \in 1..n |-> nested[l]] /\ \A l \in 1..n : nested[l] \in V
    BY <1>6, <2>1, <2>2, <2>3
  <2>5. nested \in Seq(V)
    BY ONLY <2>3, <2>4, IsSequence
  <2> QED  BY <2>2, <2>5
<1>8. PICK V : V = Seq(F)
  OBVIOUS
<1>9. nested \in Seq(Seq(V))
  BY <1>7, <1>8
<1>10. FlattenSeq(nested) \in Seq(V)
  BY ONLY <1>9, FlattenType
<1>11. PICK pairs : pairs = FlattenSeq(nested)
  OBVIOUS
<1>12. pairs \in Seq(Seq(F))
  BY <1>8, <1>10, <1>11
<1>13. PICK a, b : a = FlattenSeq(gates) /\ b = FlattenSeq(pairs)
  OBVIOUS
<1>14. a \in Seq(F)
  BY ONLY <1>5, <1>13, FlattenType
<1>15. b \in Seq(F)
  BY ONLY <1>12, <1>13, FlattenType
<1>16. Polys(sys) = a \o b
  BY <1>2, <1>6, <1>11, <1>13 DEF Polys, GatePolys
<1>17. PICK all : all = a \o b
  OBVIOUS
<1>18. all \in Seq(F)
  BY ONLY <1>14, <1>15, <1>17
<1>19. \A p \in ToSet(all) : p \in F
  BY <1>18 DEF ToSet
<1> QED  BY <1>1, <1>16, <1>17, <1>19

\* What QueriesIndexed says of a key's system
LEMMA KeyIndexed ==
    ASSUME NEW sys, KeyWired(sys)
    PROVE  /\ \A kind \in DOMAIN sys.queries : IsInjective(sys.queries[kind])
           /\ \A c \in DOMAIN sys.advice :
                sys.advice_counts[c] = Cardinality({q \in ToSet(sys.queries.advice) : q[1] = c})
           /\ \A column \in ToSet(sys.permutation) : Position(sys, column[1], column[2], 0) # 0
           /\ \A p \in ToSet(Polys(sys)) :
                /\ \A f \in Factors(p) : sys.queries[f.kind][f.index] = <<f.column, f.at>>
                /\ p.guard.kind = "none"
                   \/ sys.queries.fixed[p.guard.index] = <<p.guard.column, 0>>
<1>1. IsSystem(sys) /\ QueriesSound(sys) /\ PermutationSound(sys) /\ sys.advice \in Seq(Nat)
  BY DEF KeyWired
<1>2. \A kind \in DOMAIN sys.queries : IsInjective(sys.queries[kind])
  <2>1. DOMAIN sys.queries = Kinds
    BY <1>1 DEF IsSystem
  <2> QED  BY <1>1, <2>1 DEF QueriesSound
<1>3. ASSUME NEW c \in DOMAIN sys.advice
      PROVE  sys.advice_counts[c] = Cardinality({q \in ToSet(sys.queries.advice) : q[1] = c})
  <2>1. c \in 1..Len(sys.advice)
    BY <1>1, <1>3
  <2> QED  BY ONLY <1>1, <2>1, CountsStep
<1>4. ASSUME NEW column \in ToSet(sys.permutation) PROVE Position(sys, column[1], column[2], 0) # 0
  <2>1. sys.permutation \in Seq(Kinds \X Nat)
    BY <1>1 DEF PermutationSound
  <2>2. PICK k \in 1..Len(sys.permutation) : column = sys.permutation[k]
    BY <1>4, <2>1 DEF ToSet
  <2>3. column \in Kinds \X Nat
    BY <2>1, <2>2
  <2>4. column[1] \in Kinds
    BY <2>3
  <2>5. PICK i : Listed(sys, column[1], column[2], 0, i)
    BY <1>1, <2>2 DEF PermutationSound
  <2>6. Position(sys, column[1], column[2], 0) = i
    BY ONLY <1>1, <2>4, <2>5, PositionOf
  <2>7. i # 0
    BY <2>5 DEF Listed
  <2> QED  BY <2>6, <2>7
<1>5. ASSUME NEW p \in ToSet(Polys(sys))
      PROVE  /\ \A f \in Factors(p) : sys.queries[f.kind][f.index] = <<f.column, f.at>>
             /\ p.guard.kind = "none" \/ sys.queries.fixed[p.guard.index] = <<p.guard.column, 0>>
  <2>1. Final(sys, p)
    BY <1>5, PolysOfKey
  <2>2. p.terms \in Seq(Seq(Cells))
    BY <2>1 DEF Final, Polyforms
  <2>3. ASSUME NEW f \in Factors(p) PROVE sys.queries[f.kind][f.index] = <<f.column, f.at>>
    <3>1. PICK u \in ToSet(p.terms) : f \in ToSet(u)
      BY <2>3 DEF Factors
    <3>2. PICK t \in 1..Len(p.terms) : u = p.terms[t]
      BY <2>2, <3>1 DEF ToSet
    <3>3. u \in Seq(Cells)
      BY <2>2, <3>2
    <3>4. PICK i \in 1..Len(u) : f = u[i]
      BY <3>1, <3>3 DEF ToSet
    <3>5. Listed(sys, f.kind, f.column, f.at, f.index)
      BY <2>1, <3>2, <3>4 DEF Final
    <3> QED  BY <3>5 DEF Listed
  <2>4. p.guard.kind = "none" \/ Listed(sys, "fixed", p.guard.column, 0, p.guard.index)
    BY <2>1 DEF Final, GuardFinal
  <2> QED  BY <2>3, <2>4 DEF Listed
<1> QED  BY <1>2, <1>3, <1>4, <1>5

\* Every query of the key has its place, the counts that size the blinding are exact, the
\* permuted columns are queried, and the prover's conversion changes nothing
\* (plonk/circuit.rs, the query lists and their indices).
THEOREM QueriesAreIndexed == Spec => []QueriesIndexed
<1>1. ASSUME KeyInv PROVE QueriesIndexed
  <2>1. SUFFICES ASSUME Done PROVE QueriesIndexed
    BY DEF QueriesIndexed
  <2>2. KeyWired(key.cs)
    BY <1>1, <2>1 DEF KeyInv, KeyFrom
  <2>3. stage = "loaded" => prover = key.cs
    BY <1>1 DEF KeyInv
  <2>4. PICK sys : sys = key.cs
    OBVIOUS
  <2>5. /\ \A kind \in DOMAIN sys.queries : IsInjective(sys.queries[kind])
        /\ \A c \in DOMAIN sys.advice :
             sys.advice_counts[c] = Cardinality({q \in ToSet(sys.queries.advice) : q[1] = c})
        /\ \A column \in ToSet(sys.permutation) : Position(sys, column[1], column[2], 0) # 0
        /\ \A p \in ToSet(Polys(sys)) :
             /\ \A f \in Factors(p) : sys.queries[f.kind][f.index] = <<f.column, f.at>>
             /\ p.guard.kind = "none"
                \/ sys.queries.fixed[p.guard.index] = <<p.guard.column, 0>>
    BY ONLY <2>2, <2>4, KeyIndexed
  <2> QED  BY <2>3, <2>4, <2>5 DEF QueriesIndexed
<1> QED  BY <1>1, KeysComeFromCircuits, PTL

(* ------------------------------- degree of the key ------------------------------ *)

\* A polynomial that was not guarded by a simple selector keeps its degree, another's
\* stays within the limit and does not fall.
LEMMA PolyDegreeKept ==
    ASSUME NEW limit \in Nat, NEW p \in Polyforms, NEW q \in Polyforms, PolyKept(p, q)
    PROVE  /\ PolyDegree(p) \in Nat /\ PolyDegree(q) \in Nat
           /\ p.guard.kind # "simple" => PolyDegree(q) = PolyDegree(p)
           /\ p.guard.kind = "simple" /\ GuardFits(limit, p, q) =>
                 PolyDegree(p) <= PolyDegree(q) /\ PolyDegree(q) <= limit
<1>1. Width(q) = Width(p)
  BY SameWidth DEF PolyKept
<1>2. /\ Width(p) \in Nat /\ PolyDegree(p) = GuardDegree(p.guard) + Width(p)
      /\ GuardDegree(p.guard) \in Nat /\ PolyDegree(p) \in Nat
  BY WidthStep
<1>3. /\ PolyDegree(q) = GuardDegree(q.guard) + Width(q)
      /\ GuardDegree(q.guard) \in Nat /\ PolyDegree(q) \in Nat
  BY WidthStep
<1>4. p.guard.kind # "simple" => PolyDegree(q) = PolyDegree(p)
  BY <1>1, <1>2, <1>3 DEF PolyKept
<1>5. ASSUME p.guard.kind = "simple", GuardFits(limit, p, q)
      PROVE  PolyDegree(p) <= PolyDegree(q) /\ PolyDegree(q) <= limit
  <2>1. q.guard.kind = "column" /\ q.guard.size \in Nat \ {0} /\ q.guard.size + Width(p) <= limit
    BY <1>5 DEF GuardFits
  <2>2. GuardDegree(p.guard) = 1 /\ GuardDegree(q.guard) = q.guard.size
    BY <1>5, <2>1 DEF GuardDegree
  <2> QED  BY <1>1, <1>2, <1>3, <2>1, <2>2
<1> QED  BY <1>2, <1>3, <1>4, <1>5

\* A lookup without simple selectors keeps its degree.
LEMMA LookupDegreeKept ==
    ASSUME NEW old \in Seq(Polyforms \X Polyforms), NEW more \in Seq(Polyforms \X Polyforms),
           Len(more) = Len(old),
           \A i \in 1..Len(old) :
               /\ old[i][1].guard.kind # "simple" /\ old[i][2].guard.kind # "simple"
               /\ PolyKept(old[i][1], more[i][1]) /\ PolyKept(old[i][2], more[i][2])
    PROVE  LookupDegree(more) = LookupDegree(old)
<1>1. PICK n, V : n = Len(old) /\ V = Polyforms \X Polyforms
  OBVIOUS
<1>2. n \in Nat /\ old \in Seq(V) /\ more \in Seq(V)
  BY <1>1
<1>3. /\ DOMAIN old = 1..n /\ DOMAIN more = 1..n
      /\ \A i \in 1..n : old[i] \in V /\ more[i] \in V
  BY <1>1, <1>2
<1>4. ASSUME NEW i \in 1..n
      PROVE  PolyDegree(more[i][1]) = PolyDegree(old[i][1]) /\ PolyDegree(more[i][2]) = PolyDegree(old[i][2])
  <2>1. old[i] \in Polyforms \X Polyforms /\ more[i] \in Polyforms \X Polyforms
    BY <1>1, <1>3
  <2>2. PICK a, b, x, y : a = old[i][1] /\ b = old[i][2] /\ x = more[i][1] /\ y = more[i][2]
    OBVIOUS
  <2>3. a \in Polyforms /\ b \in Polyforms /\ x \in Polyforms /\ y \in Polyforms
    BY <2>1, <2>2
  <2>4. a.guard.kind # "simple" /\ b.guard.kind # "simple" /\ PolyKept(a, x) /\ PolyKept(b, y)
    BY <1>1, <2>2
  <2>5. PolyDegree(x) = PolyDegree(a) /\ PolyDegree(y) = PolyDegree(b)
    BY <2>3, <2>4, PolyDegreeKept
  <2> QED  BY <2>2, <2>5
<1>5. {PolyDegree(pair[1]) : pair \in ToSet(more)} = {PolyDegree(pair[1]) : pair \in ToSet(old)}
  BY <1>3, <1>4 DEF ToSet
<1>6. {PolyDegree(pair[2]) : pair \in ToSet(more)} = {PolyDegree(pair[2]) : pair \in ToSet(old)}
  BY <1>3, <1>4 DEF ToSet
<1>7. Widest(more, 1) = Widest(old, 1) /\ Widest(more, 2) = Widest(old, 2)
  BY <1>5, <1>6 DEF Widest
<1>8. \A l : LookupDegree(l) = Max({4, 2 + Widest(l, 1) + Widest(l, 2)})
  BY DEF LookupDegree, Widest
<1> QED  BY <1>7, <1>8

\* What the system needs after selectors are rewritten
LEMMA RequiredKept ==
    ASSUME NEW sys, Wired(sys), NEW grown, NEW limit \in Nat, KeyFrom(sys, grown, limit),
           ~ SimpleInLookup(sys), NEW r, r = RequiredDegree(sys), NEW s, s = RequiredDegree(grown)
    PROVE  r \in Nat /\ s \in Nat /\ r <= s /\ (s <= r \/ s <= limit)
<1>1. /\ sys.gates \in Seq(Seq(Polyforms)) /\ sys.lookups \in Seq(Seq(Polyforms \X Polyforms))
      /\ grown.gates \in Seq(Seq(Polyforms)) /\ grown.lookups \in Seq(Seq(Polyforms \X Polyforms))
  BY DEF Wired, PolysSound, KeyFrom, KeyWired, PolysFinal
<1>2. r \in Nat /\ IsMax(r, Needs(sys))
  BY <1>1, RequiredStep
<1>3. s \in Nat /\ IsMax(s, Needs(grown))
  BY <1>1, RequiredStep
<1>4. SameShape(grown.gates, sys.gates) /\ SameShape(grown.lookups, sys.lookups)
  BY DEF KeyFrom
<1>5. PICK V : V = Seq(Polyforms \X Polyforms)
  OBVIOUS
<1>6. /\ DOMAIN sys.lookups = 1..Len(sys.lookups) /\ DOMAIN grown.lookups = 1..Len(sys.lookups)
      /\ \A l \in 1..Len(sys.lookups) : sys.lookups[l] \in V /\ grown.lookups[l] \in V
  <2>1. sys.lookups \in Seq(V) /\ grown.lookups \in Seq(V) /\ Len(grown.lookups) = Len(sys.lookups)
    BY <1>1, <1>4, <1>5 DEF SameShape
  <2> QED  BY <2>1
<1>7. ASSUME NEW l \in 1..Len(sys.lookups)
      PROVE  LookupDegree(grown.lookups[l]) = LookupDegree(sys.lookups[l])
  <2>1. PICK old, more : old = sys.lookups[l] /\ more = grown.lookups[l]
    OBVIOUS
  <2>2. /\ old \in Seq(Polyforms \X Polyforms) /\ more \in Seq(Polyforms \X Polyforms)
        /\ Len(more) = Len(old) /\ DOMAIN old = 1..Len(old)
    BY <1>4, <1>5, <1>6, <1>7, <2>1 DEF SameShape
  <2>3. ASSUME NEW i \in 1..Len(old)
        PROVE  /\ old[i][1].guard.kind # "simple" /\ old[i][2].guard.kind # "simple"
               /\ PolyKept(old[i][1], more[i][1]) /\ PolyKept(old[i][2], more[i][2])
    <3>1. old \in ToSet(sys.lookups) /\ old[i] \in ToSet(old)
      BY <1>6, <1>7, <2>1, <2>2, <2>3 DEF ToSet
    <3>2. old[i][1].guard.kind # "simple" /\ old[i][2].guard.kind # "simple"
      BY <3>1 DEF SimpleInLookup, ContainsSimple
    <3>3. PolyKept(old[i][1], more[i][1]) /\ PolyKept(old[i][2], more[i][2])
      BY <1>7, <2>1, <2>3 DEF KeyFrom
    <3> QED  BY <3>2, <3>3
  <2>4. LookupDegree(more) = LookupDegree(old)
    BY ONLY <2>2, <2>3, LookupDegreeKept
  <2> QED  BY <2>1, <2>4
<1>8. ASSUME NEW g \in 1..Len(sys.gates), NEW i \in 1..Len(sys.gates[g]), NEW p, NEW q,
             p = sys.gates[g][i], q = grown.gates[g][i]
      PROVE  /\ PolyDegree(p) \in Nat /\ PolyDegree(q) \in Nat /\ PolyDegree(p) <= PolyDegree(q)
             /\ PolyDegree(q) = PolyDegree(p) \/ PolyDegree(q) <= limit
             /\ PolyDegree(p) \in Needs(sys) /\ PolyDegree(q) \in Needs(grown)
  <2>1. g \in 1..Len(grown.gates) /\ i \in 1..Len(grown.gates[g])
    BY <1>4, <1>8 DEF SameShape
  <2>2. p \in Polyforms
    BY <1>8 DEF Wired, PolysSound, Indexed
  <2>3. q \in Polyforms
    BY <1>8, <2>1 DEF KeyFrom, KeyWired, PolysFinal, Final
  <2>4. PolyKept(p, q) /\ GuardFits(limit, p, q)
    BY <1>8 DEF KeyFrom
  <2>5. /\ PolyDegree(p) \in Nat /\ PolyDegree(q) \in Nat
        /\ p.guard.kind # "simple" => PolyDegree(q) = PolyDegree(p)
        /\ p.guard.kind = "simple" => PolyDegree(p) <= PolyDegree(q) /\ PolyDegree(q) <= limit
    BY <2>2, <2>3, <2>4, PolyDegreeKept
  <2>6. p \in ToSet(GatePolys(sys))
    BY <1>1, <1>8, GatePolysStep
  <2>7. q \in ToSet(GatePolys(grown))
    BY <1>1, <1>8, <2>1, GatePolysStep
  <2>8. PolyDegree(p) \in Needs(sys) /\ PolyDegree(q) \in Needs(grown)
    BY <2>6, <2>7 DEF Needs
  <2> QED  BY <2>5, <2>8
<1>9. ASSUME NEW x \in Needs(sys) PROVE x <= s
  <2>1. CASE x = PermutationDegree
    BY <1>3, <2>1 DEF Needs, IsMax
  <2>2. CASE \E l \in ToSet(sys.lookups) : x = LookupDegree(l)
    <3>1. PICK l \in 1..Len(sys.lookups) : x = LookupDegree(sys.lookups[l])
      BY <1>6, <2>2 DEF ToSet
    <3>2. x = LookupDegree(grown.lookups[l]) /\ grown.lookups[l] \in ToSet(grown.lookups)
      BY <1>6, <1>7, <3>1 DEF ToSet
    <3>3. x \in Needs(grown)
      BY <3>2 DEF Needs
    <3> QED  BY <1>3, <3>3 DEF IsMax
  <2>3. CASE \E p \in ToSet(GatePolys(sys)) : x = PolyDegree(p)
    <3>1. PICK p \in ToSet(GatePolys(sys)) : x = PolyDegree(p)
      BY <2>3
    <3>2. PICK g \in 1..Len(sys.gates) : \E i \in 1..Len(sys.gates[g]) : p = sys.gates[g][i]
      <4>1. \A z : z \in ToSet(GatePolys(sys)) <=>
                \E g \in 1..Len(sys.gates) : \E i \in 1..Len(sys.gates[g]) : z = sys.gates[g][i]
        BY ONLY <1>1, GatePolysStep
      <4> QED  BY ONLY <3>1, <4>1
    <3>3. PICK i \in 1..Len(sys.gates[g]) : p = sys.gates[g][i]
      BY <3>2
    <3>4. PICK q : q = grown.gates[g][i]
      OBVIOUS
    <3>5. /\ PolyDegree(p) \in Nat /\ PolyDegree(q) \in Nat /\ PolyDegree(p) <= PolyDegree(q)
          /\ PolyDegree(q) \in Needs(grown)
      BY <1>8, <3>3, <3>4
    <3>6. PolyDegree(q) <= s
      BY <1>3, <3>5 DEF IsMax
    <3> QED  BY <1>3, <3>1, <3>5, <3>6
  <2> QED  BY <1>9, <2>1, <2>2, <2>3 DEF Needs
<1>10. ASSUME NEW y \in Needs(grown) PROVE y <= r \/ y <= limit
  <2>1. CASE y = PermutationDegree
    BY <1>2, <2>1 DEF Needs, IsMax
  <2>2. CASE \E l \in ToSet(grown.lookups) : y = LookupDegree(l)
    <3>1. PICK l \in 1..Len(sys.lookups) : y = LookupDegree(grown.lookups[l])
      BY <1>6, <2>2 DEF ToSet
    <3>2. y = LookupDegree(sys.lookups[l]) /\ sys.lookups[l] \in ToSet(sys.lookups)
      BY <1>6, <1>7, <3>1 DEF ToSet
    <3>3. y \in Needs(sys)
      BY <3>2 DEF Needs
    <3> QED  BY <1>2, <3>3 DEF IsMax
  <2>3. CASE \E q \in ToSet(GatePolys(grown)) : y = PolyDegree(q)
    <3>1. PICK q \in ToSet(GatePolys(grown)) : y = PolyDegree(q)
      BY <2>3
    <3>2. PICK g \in 1..Len(grown.gates) : \E i \in 1..Len(grown.gates[g]) : q = grown.gates[g][i]
      BY <1>1, <3>1, GatePolysStep
    <3>3. PICK i \in 1..Len(grown.gates[g]) : q = grown.gates[g][i]
      BY <3>2
    <3>4. g \in 1..Len(sys.gates) /\ i \in 1..Len(sys.gates[g])
      BY <1>4, <3>2, <3>3 DEF SameShape
    <3>5. PICK p : p = sys.gates[g][i]
      OBVIOUS
    <3>6. /\ PolyDegree(q) = PolyDegree(p) \/ PolyDegree(q) <= limit
          /\ PolyDegree(p) \in Needs(sys)
      BY <1>8, <3>3, <3>4, <3>5
    <3>7. PolyDegree(p) <= r
      BY <1>2, <3>6 DEF IsMax
    <3> QED  BY <3>1, <3>6, <3>7
  <2> QED  BY <1>10, <2>1, <2>2, <2>3 DEF Needs
<1> QED  BY <1>2, <1>3, <1>9, <1>10 DEF IsMax

\* Capping and raising what is required
LEMMA CappedKept ==
    ASSUME NEW r \in Nat, NEW s \in Nat, NEW least \in Nat, NEW d \in Nat, d = Capped(r, least),
           r <= s, s <= r \/ s <= d
    PROVE  Capped(s, least) = d /\ (r <= d => s <= d)
<1>1. PICK low, a, b : /\ low = (IF least = None THEN 1 ELSE least)
                       /\ a = (IF r <= MaxDegreeCap THEN r ELSE MaxDegreeCap)
                       /\ b = (IF s <= MaxDegreeCap THEN s ELSE MaxDegreeCap)
  OBVIOUS
<1>2. MaxDegreeCap \in Nat /\ low \in Nat /\ a \in Nat /\ b \in Nat
  BY <1>1, ConstraintSystemAssumption
<1>3. d = (IF a <= low THEN low ELSE a) /\ Capped(s, least) = IF b <= low THEN low ELSE b
  BY <1>1 DEF Capped
<1>4. a <= b /\ b <= s
  BY <1>1, <1>2
<1>5. CASE s = r
  BY <1>1, <1>3, <1>5
<1>6. CASE s <= d
  BY <1>2, <1>3, <1>4, <1>6
<1> QED  BY <1>5, <1>6

\* Compressing the selectors raises neither the degree nor the need of a key beyond the
\* domain's (keygen.rs, whose domain is made before the selectors are compressed;
\* compress_selectors.rs, process).
THEOREM DegreeIsKept == Spec => []DegreeKept
<1>1. ASSUME KeyInv PROVE DegreeKept
  <2>1. Wired(cs)
    BY <1>1 DEF KeyInv, ConfigInv, ConfigOf
  <2>2. PICK sys, r, least, d : /\ sys = cs /\ r = RequiredDegree(cs) /\ least = cs.minimum
                                /\ d = Degree(cs)
    OBVIOUS
  <2>3. r \in Nat /\ least \in Nat
    BY <2>1, <2>2, RequiredStep DEF Wired, PolysSound, Sized
  <2>4. d = Capped(r, least) /\ d \in Nat
    BY <2>2, <2>3, DegreeStep
  <2>5. ASSUME Done PROVE Degree(key.cs) = degree /\ (r <= degree => RequiredDegree(key.cs) <= degree)
    <3>1. degree = d /\ ~ SimpleInLookup(cs)
      BY <1>1, <2>2, <2>5 DEF KeyInv
    <3>2. PICK limit : Limit(cs, limit) /\ KeyFrom(cs, key.cs, limit)
      BY <1>1, <2>5 DEF KeyInv
    <3>3. PICK grown, s : grown = key.cs /\ s = RequiredDegree(key.cs)
      OBVIOUS
    <3>4. limit \in Nat /\ (limit = d \/ limit = r)
      BY <2>2, <3>2 DEF Limit
    <3>5. s \in Nat /\ r <= s /\ (s <= r \/ s <= limit)
      BY ONLY <2>1, <2>2, <3>1, <3>2, <3>3, <3>4, RequiredKept
    <3>6. s <= r \/ s <= d
      BY <3>4, <3>5
    <3>7. Capped(s, least) = d /\ (r <= d => s <= d)
      BY ONLY <2>3, <2>4, <3>5, <3>6, CappedKept
    <3>8. grown.minimum = least
      BY <2>2, <3>2, <3>3 DEF KeyFrom
    <3>9. Degree(grown) = Capped(s, least)
      BY <2>3, <3>3, <3>5, <3>8, DegreeStep
    <3> QED  BY <3>1, <3>3, <3>7, <3>9
  <2>6. ASSUME stage = "assertion", r <= degree PROVE SimpleInLookup(cs)
    <3>1. degree = d /\ CompressPanics(cs)
      BY <1>1, <2>2, <2>6 DEF KeyInv
    <3>2. SUFFICES ASSUME NEW s \in 1..cs.selectors, SelectorDegrees(cs)[s] > Degree(cs) PROVE FALSE
      BY <3>1 DEF CompressPanics
    <3>3. PICK n, degrees : n = cs.selectors /\ degrees = SelectorDegrees(cs)
      OBVIOUS
    <3>4. /\ degrees \in [1..n -> Nat]
          /\ \A k \in 1..n : degrees[k] # 0 =>
                \E p \in ToSet(GatePolys(cs)) : PolyDegree(p) = degrees[k]
      BY <2>1, <3>3, SelectorDegreesStep
    <3>5. s \in 1..n /\ degrees[s] > d /\ degrees[s] \in Nat
      BY <2>2, <3>2, <3>3, <3>4
    <3>6. PICK p \in ToSet(GatePolys(cs)) : PolyDegree(p) = degrees[s]
      BY <2>4, <3>4, <3>5
    <3>7. degrees[s] \in Needs(cs)
      BY <3>6 DEF Needs
    <3>8. IsMax(r, Needs(cs))
      BY <2>1, <2>2, RequiredStep DEF Wired, PolysSound
    <3>9. degrees[s] <= r
      BY <3>7, <3>8 DEF IsMax
    <3> QED  BY <2>3, <2>4, <2>6, <3>1, <3>5, <3>9
  <2> QED  BY <2>2, <2>5, <2>6 DEF DegreeKept
<1> QED  BY <1>1, KeysComeFromCircuits, PTL

(* --------------------------- the fixed columns' cells -------------------------- *)

\* A column's cells, and what each stands for
ColumnOf(column, values, n) ==
    column \in [1..n -> Assigned] /\ values = [r \in 1..n |-> Evaluate(column[r])]

\* A list with another entry in the place of one
With(list, c, entry) == [list EXCEPT ![c] = entry]

\* A column rewritten, in the cells and in what they stand for; where there is no such
\* column nothing is.
LEMMA ColumnRewritten ==
    ASSUME NEW n, NEW columns, Matrix(columns, n), NEW c, NEW column, NEW values,
           c \in 1..Len(columns) => ColumnOf(column, values, n),
           NEW next, next = With(columns, c, column),
           NEW elements, elements = With(Elements(columns, n), c, values)
    PROVE  Matrix(next, n) /\ elements = Elements(next, n)
<1>1. PICK A, l : A = [1..n -> Assigned] /\ l = Len(columns)
  OBVIOUS
<1>2. n \in Nat \ {0} /\ columns \in Seq(A)
  BY <1>1 DEF Matrix
<1>3. l \in Nat /\ DOMAIN columns = 1..l /\ columns = [d \in 1..l |-> columns[d]]
  BY <1>1, <1>2
<1>5. /\ next = [d \in 1..l |-> next[d]]
      /\ \A d \in 1..l : next[d] = IF d = c THEN column ELSE columns[d]
  BY <1>3 DEF With
<1>6. ASSUME NEW d \in 1..l PROVE next[d] \in A
  <2>1. columns[d] \in A
    BY <1>1, <1>2
  <2>2. d = c => column \in A
    BY <1>1 DEF ColumnOf
  <2> QED  BY <1>5, <2>1, <2>2
<1>7. next \in Seq(A) /\ Len(next) = l
  BY ONLY <1>3, <1>5, <1>6, IsSequence
<1>8. Matrix(next, n)
  BY <1>1, <1>2, <1>7 DEF Matrix
<1>9. PICK old, new : old = elements /\ new = Elements(next, n)
  OBVIOUS
<1>10. /\ Elements(columns, n) = [d \in 1..l |-> [r \in 1..n |-> Evaluate(columns[d][r])]]
       /\ new = [d \in 1..l |-> [r \in 1..n |-> Evaluate(next[d][r])]]
  BY <1>1, <1>7, <1>9 DEF Elements
<1>11. /\ old = [d \in 1..l |-> old[d]]
       /\ \A d \in 1..l : old[d] = IF d = c THEN values ELSE [r \in 1..n |-> Evaluate(columns[d][r])]
  BY <1>9, <1>10 DEF With
<1>12. ASSUME NEW d \in 1..l PROVE old[d] = new[d]
  BY <1>1, <1>5, <1>10, <1>11 DEF ColumnOf
<1>13. old = new
  BY <1>10, <1>11, <1>12
<1> QED  BY <1>8, <1>9, <1>13

\* What each fixed cell stands for is kept beside it, and the same of the computed cell;
\* the key's first columns are the host's evaluation of them.
CellsInv ==
    /\ circuit \in Circuits
    /\ Matrix(fixed, N) /\ meant = Elements(fixed, N)
    /\ \E a \in Assigned : cell = <<a, Evaluate(a)>>
    /\ Done => \E V, columns : columns \in Seq(V) /\ key.fixed = HostEvaluated(fixed) \o columns

\* A fresh Assembly's cells stand for zero.
LEMMA FreshCells ==
    ASSUME NEW n \in Nat, NEW columns, columns = [c \in 1..n |-> [r \in 1..N |-> Trivial(0)]]
    PROVE  Matrix(columns, N) /\ Elements(columns, N) = [c \in 1..n |-> [r \in 1..N |-> 0]]
<1>1. Trivial(0) \in Assigned /\ Evaluate(Trivial(0)) = 0
  <2>1. Trivial(0) \in Assigned /\ ~ IsRational(Trivial(0)) /\ Trivial(0) # Zero /\ Numerator(Trivial(0)) = 0
    BY FieldIsInt DEF Trivial, Assigned, IsRational, Zero, Numerator
  <2> QED  BY <2>1, PlainStandsFor
<1>2. PICK A : A = [1..N -> Assigned]
  OBVIOUS
<1>3. columns \in Seq(A) /\ Len(columns) = n
  <2>1. columns = [c \in 1..n |-> columns[c]] /\ \A c \in 1..n : columns[c] \in A
    BY <1>1, <1>2
  <2> QED  BY ONLY <2>1, n \in Nat, IsSequence
<1>4. Matrix(columns, N)
  BY <1>2, <1>3, KeygenAssumption DEF Matrix
<1> QED  BY <1>1, <1>3, <1>4 DEF Elements

\* The invariant holds before anything is configured.
LEMMA CellsInit ==
    ASSUME Init
    PROVE  CellsInv
<1>1. circuit \in Circuits /\ stage = "configure" /\ fixed = <<>> /\ meant = <<>> /\ cell = <<Zero, 0>>
  BY DEF Init
<1>2. Matrix(fixed, N)
  BY <1>1, KeygenAssumption DEF Matrix
<1>3. meant = Elements(fixed, N)
  BY <1>1 DEF Elements
<1>4. \E a \in Assigned : cell = <<a, Evaluate(a)>>
  BY <1>1, ZeroStandsForZero
<1> QED  BY <1>1, <1>2, <1>3, <1>4 DEF CellsInv, Done

\* Every combination gets a column of its own, after the fixed ones, and the last
\* combination a selector is in replaces it.
ColumnsAssigned(sys, n, combinations, activations, rows, m, acc) ==
    /\ acc.cs.fixed = sys.fixed + m /\ DOMAIN acc.replaced = 1..n
    /\ acc.columns \in Seq({CombinationColumn(activations, combinations[j], rows) : j \in 1..m})
    /\ Len(acc.columns) = m
    /\ \A j \in 1..m : acc.columns[j] = CombinationColumn(activations, combinations[j], rows)
    /\ \A s \in 1..n : (\E j \in 1..m : s \in ToSet(combinations[j])) =>
          \E j \in 1..m :
             /\ s \in ToSet(combinations[j])
             /\ acc.replaced[s][1] = sys.fixed + j
             /\ acc.replaced[s][2] = SelectInSeq(combinations[j], LAMBDA t : t = s)
             /\ acc.replaced[s][3] = Len(combinations[j])

\* Those of one more combination
LEMMA ColumnAssigned ==
    ASSUME NEW sys, Wired(sys), NEW n, NEW combinations, NEW activations, NEW rows,
           NEW m, m \in Nat, NEW acc, Wired(acc.cs),
           ColumnsAssigned(sys, n, combinations, activations, rows, m, acc),
           NEW next, next = AssignColumn(acc, combinations[m + 1], activations, rows)
    PROVE  ColumnsAssigned(sys, n, combinations, activations, rows, m + 1, next)
<1>1. PICK c, grown, before, after, column :
        /\ c = combinations[m + 1] /\ grown = Allocate(acc.cs) /\ before = acc.replaced
        /\ after = [s \in DOMAIN before |->
                      IF s \in ToSet(c) THEN Replacement(grown, SelectInSeq(c, LAMBDA t : t = s), Len(c))
                      ELSE before[s]]
        /\ column = CombinationColumn(activations, c, rows)
  OBVIOUS
<1>2. next.cs = grown /\ next.replaced = after /\ next.columns = Append(acc.columns, column)
  BY <1>1 DEF AssignColumn
<1>3. grown.fixed = acc.cs.fixed + 1
  BY <1>1, AllocateStep
<1>4. sys.fixed \in Nat /\ acc.cs.fixed = sys.fixed + m
  BY DEF ColumnsAssigned, Wired, Sized
<1>5. grown.fixed = sys.fixed + (m + 1)
  BY <1>3, <1>4
<1>6. DOMAIN after = 1..n
  BY <1>1 DEF ColumnsAssigned
<1>7. PICK V, W : /\ V = {CombinationColumn(activations, combinations[j], rows) : j \in 1..m}
                  /\ W = {CombinationColumn(activations, combinations[j], rows) : j \in 1..(m + 1)}
  OBVIOUS
<1>8. /\ next.columns \in Seq(W) /\ Len(next.columns) = m + 1
      /\ \A j \in 1..(m + 1) : next.columns[j] = CombinationColumn(activations, combinations[j], rows)
  <2>1. PICK s, more : s = acc.columns /\ more = next.columns
    OBVIOUS
  <2>2. s \in Seq(V) /\ Len(s) = m /\ more = Append(s, column)
    BY <1>2, <1>7, <2>1 DEF ColumnsAssigned
  <2>3. V \subseteq W /\ column \in W
    BY <1>1, <1>7
  <2>4. s \in Seq(W)
    BY ONLY <2>2, <2>3
  <2>5. /\ more \in Seq(W) /\ Len(more) = m + 1
        /\ \A j \in 1..(m + 1) : more[j] = IF j = m + 1 THEN column ELSE s[j]
    BY ONLY <2>2, <2>3, <2>4
  <2>6. ASSUME NEW j \in 1..(m + 1)
        PROVE  more[j] = CombinationColumn(activations, combinations[j], rows)
    <3>1. CASE j = m + 1
      BY <1>1, <2>5, <3>1
    <3>2. CASE j # m + 1
      <4>1. j \in 1..m
        BY <3>2
      <4> QED  BY <2>1, <2>5, <3>2, <4>1 DEF ColumnsAssigned
    <3> QED  BY <3>1, <3>2
  <2> QED  BY <2>1, <2>5, <2>6
<1>9. ASSUME NEW s \in 1..n, \E j \in 1..(m + 1) : s \in ToSet(combinations[j])
      PROVE  \E j \in 1..(m + 1) :
               /\ s \in ToSet(combinations[j])
               /\ after[s][1] = sys.fixed + j
               /\ after[s][2] = SelectInSeq(combinations[j], LAMBDA t : t = s)
               /\ after[s][3] = Len(combinations[j])
  <2>1. CASE s \in ToSet(c)
    <3>1. PICK root : root = SelectInSeq(c, LAMBDA t : t = s)
      OBVIOUS
    <3>2. after[s] = Replacement(grown, root, Len(c))
      BY <1>1, <1>6, <2>1, <3>1
    <3>3. /\ after[s][1] = sys.fixed + (m + 1) /\ after[s][2] = root /\ after[s][3] = Len(c)
      BY <1>5, <3>2 DEF Replacement
    <3>4. m + 1 \in 1..(m + 1)
      OBVIOUS
    <3> QED  BY <1>1, <2>1, <3>1, <3>3, <3>4
  <2>2. CASE s \notin ToSet(c)
    <3>1. after[s] = before[s]
      BY <1>1, <1>6, <2>2
    <3>2. PICK i \in 1..(m + 1) : s \in ToSet(combinations[i])
      BY <1>9
    <3>3. i \in 1..m
      BY <1>1, <2>2, <3>2
    <3>4. PICK j \in 1..m :
             /\ s \in ToSet(combinations[j])
             /\ before[s][1] = sys.fixed + j
             /\ before[s][2] = SelectInSeq(combinations[j], LAMBDA t : t = s)
             /\ before[s][3] = Len(combinations[j])
      BY <1>1, <3>2, <3>3 DEF ColumnsAssigned
    <3>5. j \in 1..(m + 1)
      OBVIOUS
    <3> QED  BY <3>1, <3>4, <3>5
  <2> QED  BY <2>1, <2>2
<1> QED  BY <1>2, <1>5, <1>6, <1>7, <1>8, <1>9 DEF ColumnsAssigned

\* And so of all of them.
LEMMA ColumnsAreAssigned ==
    ASSUME NEW sys, Wired(sys), NEW n \in Nat, NEW activations, DOMAIN activations = 1..n, NEW rows,
           NEW m \in Nat, NEW combinations \in Seq(Seq(Nat)), Len(combinations) = m,
           NEW done, done = AssignColumns(sys, combinations, activations, rows)
    PROVE  ColumnsAssigned(sys, n, combinations, activations, rows, m, done)
<1> DEFINE run == CHOOSE f : AssignRun(f, sys, combinations, activations, rows, m)
           Up(i) == {combinations[j] : j \in 1..i}
           Assigns(i) == /\ Replaces(sys, n, Up(i), run[i])
                         /\ ColumnsAssigned(sys, n, combinations, activations, rows, i, run[i])
           S == {i \in 0..m : Assigns(i)}
<1>1. AssignRun(run, sys, combinations, activations, rows, m)
  BY AssignRunExists
<1>2. done = run[m]
  BY DEF AssignColumns, AssignRun
<1> HIDE DEF run
<1>3. 0 \in S
  <2>1. PICK acc : acc = run[0]
    OBVIOUS
  <2>2. acc.cs = sys /\ acc.columns = <<>> /\ acc.replaced = [s \in DOMAIN activations |-> <<>>]
    <3>1. acc = [cs |-> sys, columns |-> <<>>, replaced |-> [s \in DOMAIN activations |-> <<>>]]
      BY <1>1, <2>1 DEF AssignRun
    <3> QED  BY <3>1
  <2>3. Keeps(sys, acc.cs) /\ DOMAIN acc.replaced = 1..n
    BY <2>2 DEF Keeps
  <2>4. Up(0) = {}
    OBVIOUS
  <2>5. Replaces(sys, n, Up(0), acc)
    BY <2>3, <2>4 DEF Replaces
  <2>6. sys.fixed \in Nat /\ sys.fixed + 0 = sys.fixed
    BY DEF Wired, Sized
  <2>7. ColumnsAssigned(sys, n, combinations, activations, rows, 0, acc)
    BY <2>2, <2>3, <2>6 DEF ColumnsAssigned
  <2> QED  BY <2>1, <2>5, <2>7
<1>4. ASSUME NEW i \in 0..(m - 1), i \in S PROVE i + 1 \in S
  <2>1. PICK acc, next, c : acc = run[i] /\ next = run[i + 1] /\ c = combinations[i + 1]
    OBVIOUS
  <2>2. i + 1 \in 0..m /\ i + 1 # 0 /\ (i + 1) - 1 = i /\ i + 1 \in 1..m /\ i \in Nat
    <3>1. i \in 0..(m - 1) /\ m \in Nat
      BY <1>4
    <3> QED  BY ONLY <3>1
  <2>3. next = AssignColumn(acc, c, activations, rows)
    BY <1>1, <2>1, <2>2 DEF AssignRun
  <2>4. c \in Seq(Nat)
    BY <2>1, <2>2
  <2>5. PICK before : before = Up(i)
    OBVIOUS
  <2>6. /\ Replaces(sys, n, before, acc)
        /\ ColumnsAssigned(sys, n, combinations, activations, rows, i, acc)
    BY <1>4, <2>1, <2>5
  <2>7. Replaces(sys, n, before \cup {c}, next)
    BY ONLY <2>3, <2>4, <2>6, n \in Nat, AssignColumnStep
  <2>8. Up(i + 1) = before \cup {c}
    <3>1. \A j : j \in 1..(i + 1) <=> j \in 1..i \/ j = i + 1
      BY <1>4
    <3> QED  BY <2>1, <2>5, <3>1
  <2>9. Wired(acc.cs)
    BY <2>6 DEF Replaces, Keeps
  <2>10. ColumnsAssigned(sys, n, combinations, activations, rows, i + 1, next)
    BY ONLY <2>1, <2>2, <2>3, <2>6, <2>9, Wired(sys), ColumnAssigned
  <2> QED  BY <2>1, <2>2, <2>7, <2>8, <2>10
<1>5. m \in S
  <2> HIDE DEF S
  <2>1. 0..m \subseteq S
    BY <1>3, <1>4, BoundedInduction
  <2> QED  BY <2>1
<1> QED  BY <1>2, <1>5

\* The columns made of the selectors are a sequence.
LEMMA ConvertedColumns ==
    ASSUME Wired(cs), DOMAIN enabled = 1..cs.selectors, NEW compress \in BOOLEAN,
           ~ (IF compress THEN CompressPanics(cs) ELSE SimpleInLookup(cs)),
           NEW columns, columns = (IF compress THEN CompressSelectors(cs, enabled, 1..N)
                                   ELSE DirectlyConvert(cs, enabled, 1..N)).columns
    PROVE  \E V : columns \in Seq(V)
<1>1. PICK n, acts, degrees : n = cs.selectors /\ acts = enabled /\ degrees = SelectorDegrees(cs)
  OBVIOUS
<1>2. n \in Nat /\ DOMAIN acts = 1..n
  BY <1>1 DEF Wired, Sized
<1>3. PICK list : list = IF compress THEN Alone(degrees) \o Combinations(acts, degrees, Degree(cs))
                                     ELSE [s \in DOMAIN acts |-> <<s>>]
  OBVIOUS
<1>4. PICK done : done = AssignColumns(cs, list, acts, 1..N)
  OBVIOUS
<1>5. columns = done.columns
  <2>1. CASE compress
    BY <1>1, <1>3, <1>4, <2>1 DEF CompressSelectors
  <2>2. CASE ~ compress
    BY <1>1, <1>3, <1>4, <2>2 DEF DirectlyConvert
  <2> QED  BY <2>1, <2>2
<1>6. RequiredDegree(cs) \in Nat /\ Degree(cs) \in Nat
  <2>1. RequiredDegree(cs) \in Nat /\ cs.minimum \in Nat
    BY RequiredStep DEF Wired, PolysSound, Sized
  <2> QED  BY <2>1, DegreeStep
<1>7. \E limit : FitList(enabled, degrees, limit, list)
  <2>1. CASE compress
    BY <1>1, <1>3, <1>6, <2>1, CompressList
  <2>2. CASE ~ compress
    <3>1. PICK limit \in Nat : limit = RequiredDegree(cs)
      BY <1>6
    <3> QED  BY <1>1, <1>2, <1>3, <2>2, <3>1, DirectList
  <2> QED  BY <2>1, <2>2
<1>8. list \in Seq(Seq(Nat)) /\ Len(list) \in Nat
  BY <1>7 DEF FitList
<1>9. ColumnsAssigned(cs, n, list, acts, 1..N, Len(list), done)
  BY <1>2, <1>4, <1>8, ColumnsAreAssigned
<1> QED  BY <1>5, <1>9 DEF ColumnsAssigned

\* An operation on the computed cell is one on what it stands for.
LEMMA ComputedStandsFor ==
    ASSUME NEW a \in Assigned, cell = <<a, Evaluate(a)>>, NEW literal \in Assigned,
           NEW op \in {"load", "add", "sub", "mul", "double", "cube", "invert"},
           NEW next, next = Computed(op, literal)
    PROVE  \E b \in Assigned : next = <<b, Evaluate(b)>>
<1>1. PICK x, y : x = Evaluate(a) /\ y = Evaluate(literal)
  OBVIOUS
<1>2. cell[1] = a /\ cell[2] = x
  BY <1>1
<1>3. x \in Int /\ y \in Int
  BY <1>1, StandsFor
<1>4. CASE op = "load"
  BY <1>1, <1>2, <1>4 DEF Computed
<1>5. CASE op = "add"
  <2>1. next = <<Add(a, literal), (x + y) % Prime>>
    BY <1>1, <1>2, <1>5 DEF Computed
  <2> QED  BY <1>1, <2>1, AddStandsFor
<1>6. CASE op = "sub"
  <2>1. next = <<Sub(literal, a), Reduced(y - x)>>
    BY <1>1, <1>2, <1>6 DEF Computed, Reduced
  <2> QED  BY <1>1, <2>1, SubStandsFor
<1>7. CASE op = "mul"
  <2>1. next = <<Mul(a, literal), Reduced(x * y)>>
    BY <1>1, <1>2, <1>7 DEF Computed, Reduced
  <2> QED  BY <1>1, <2>1, MulStandsFor
<1>8. CASE op = "double"
  <2>1. next = <<Double(a), Reduced(2 * x)>>
    BY <1>1, <1>2, <1>8 DEF Computed, Reduced
  <2> QED  BY <1>1, <2>1, DoubleStandsFor
<1>9. CASE op = "cube"
  <2>1. next = <<Cube(a), Reduced(x * x * x)>>
    BY <1>1, <1>2, <1>9 DEF Computed, Reduced
  <2> QED  BY <1>1, <2>1, CubeStandsFor
<1>10. CASE op = "invert"
  <2>1. next = <<Invert(a), FieldInverse[x]>>
    BY <1>1, <1>2, <1>10 DEF Computed
  <2> QED  BY <1>1, <2>1, InvertStandsFor
<1> QED  BY <1>4, <1>5, <1>6, <1>7, <1>8, <1>9, <1>10

\* A call of the Assembly keeps the cells beside what they stand for.
LEMMA CellsAssembled ==
    ASSUME CellsInv, NEW row, NEW outside \in {"failed", "panicked"}, NEW selectors,
           NEW cells, NEW values, Assembles(row, outside, selectors, cells, values),
           Matrix(cells, N), values = Elements(cells, N)
    PROVE  CellsInv'
<1>1. stage' \in {"synthesis", "failed", "panicked"} /\ circuit' = circuit /\ cell' = cell
  BY DEF Assembles, config
<1>2. (fixed' = fixed /\ meant' = meant) \/ (fixed' = cells /\ meant' = values)
  BY DEF Assembles, assembly
<1> QED  BY <1>1, <1>2 DEF CellsInv, Done

\* Every step keeps the cells beside what they stand for.
LEMMA CellsStep ==
    ASSUME KeyInv, CellsInv, [Next]_vars
    PROVE  CellsInv'
<1> DEFINE Idle == UNCHANGED <<circuit, fixed, meant, cell>> /\ stage' \notin {"keyed", "loaded"}
<1>1. ASSUME Idle PROVE CellsInv'
  BY <1>1 DEF CellsInv, Done
<1>2. CASE Configure
  <2>1. ASSUME NEW name, NEW ok \in BOOLEAN, NEW result, Calls(name), Returns(ok, result)
        PROVE  Idle
    BY <2>1 DEF Calls, Returns, assembly
  <2>2. CASE AllocateFixed \/ AllocateInstance \/ AllocateSelector \/ CallEquality \/ CallConstant
    BY <1>1, <2>1, <2>2 DEF AllocateFixed, AllocateInstance, AllocateSelector, CallEquality, CallConstant
  <2>3. CASE AllocateAdvice
    <3>1. PICK ok : ok = (call.phase = 0 \/ PhaseExists(cs, call.phase - 1))
      OBVIOUS
    <3> QED  BY <1>1, <2>3, <3>1 DEF AllocateAdvice, Calls, Returns, assembly
  <2>4. CASE AllocateChallenge
    BY <1>1, <2>4 DEF AllocateChallenge, Calls, Returns, assembly
  <2>5. CASE CallMinimumDegree \/ CallLookupAny
    BY <1>1, <2>1, <2>5 DEF CallMinimumDegree, CallLookupAny
  <2>6. CASE CallGate
    BY <1>1, <2>6 DEF CallGate, Calls, Returns, assembly
  <2>7. CASE CallLookup
    BY <1>1, <2>7 DEF CallLookup, Calls, Returns, assembly
  <2> QED  BY <1>2, <2>2, <2>3, <2>4, <2>5, <2>6, <2>7 DEF Configure
<1>3. CASE Begin
  <2>1. circuit' = circuit /\ cell' = cell
    BY <1>3 DEF Begin, config
  <2>2. CASE stage' = "failed"
    <3>1. fixed' = fixed /\ meant' = meant
      BY <1>3, <2>2 DEF Begin, assembly
    <3> QED  BY <1>1, <2>1, <2>2, <3>1
  <2>3. CASE stage' # "failed"
    <3>1. /\ stage' = "synthesis"
          /\ fixed' = [c \in 1..cs.fixed |-> [r \in 1..N |-> Trivial(0)]]
          /\ meant' = [c \in 1..cs.fixed |-> [r \in 1..N |-> 0]]
      BY <1>3, <2>3 DEF Begin
    <3>2. cs.fixed \in Nat
      BY DEF KeyInv, ConfigInv, ConfigOf, Wired, Sized
    <3>3. Matrix(fixed', N) /\ meant' = Elements(fixed', N)
      BY <3>1, <3>2, FreshCells
    <3> QED  BY <2>1, <3>1, <3>3 DEF CellsInv, Done
  <2> QED  BY <2>2, <2>3
<1>4. PICK a \in Assigned : cell = <<a, Evaluate(a)>>
  BY DEF CellsInv
<1>5. cell[1] = a /\ cell[2] = Evaluate(a)
  BY <1>4
<1>6. Matrix(fixed, N) /\ meant = Elements(fixed, N) /\ circuit.rows \subseteq 1..N
  BY KeygenAssumption DEF CellsInv
<1>7. CASE Compute
  <2>1. /\ UNCHANGED <<circuit, fixed, meant, stage>> /\ stage = "synthesis"
        /\ \E op \in {"load", "add", "sub", "mul", "double", "cube", "invert"} :
             \E literal \in Literals : cell' = Computed(op, literal)
    BY <1>7 DEF Compute, config, assembly
  <2>2. Literals \subseteq Assigned
    BY KeygenAssumption
  <2>3. \E b \in Assigned : cell' = <<b, Evaluate(b)>>
    BY <1>4, <2>1, <2>2, ComputedStandsFor
  <2> QED  BY <1>6, <2>1, <2>3 DEF CellsInv, Done
<1>8. ASSUME NEW s, NEW row, EnableSelector(s, row) PROVE CellsInv'
  BY <1>6, <1>8, CellsAssembled DEF EnableSelector
<1>9. ASSUME NEW c, NEW row \in circuit.rows, AssignFixed(c, row) PROVE CellsInv'
  <2>1. PICK column, values : /\ column = [fixed[c] EXCEPT ![row] = a]
                              /\ values = [meant[c] EXCEPT ![row] = Evaluate(a)]
    OBVIOUS
  <2>2. PICK cells, elements : /\ cells = [fixed EXCEPT ![c] = column]
                               /\ elements = [meant EXCEPT ![c] = values]
    OBVIOUS
  <2>3. Assembles(row, "panicked", enabled, cells, elements)
    BY <1>5, <1>9, <2>1, <2>2 DEF AssignFixed
  <2>4. ASSUME c \in 1..Len(fixed)
        PROVE  ColumnOf(column, values, N)
    <3>1. fixed[c] \in [1..N -> Assigned]
      BY <1>6, <2>4 DEF Matrix
    <3>2. meant[c] = [r \in 1..N |-> Evaluate(fixed[c][r])]
      BY <1>6, <2>4 DEF Elements
    <3>3. column \in [1..N -> Assigned] /\ \A r \in 1..N : column[r] = IF r = row THEN a ELSE fixed[c][r]
      BY <2>1, <3>1
    <3>4. values = [r \in 1..N |-> IF r = row THEN Evaluate(a) ELSE Evaluate(fixed[c][r])]
      BY <2>1, <3>2
    <3> QED  BY <3>3, <3>4 DEF ColumnOf
  <2>5. Matrix(cells, N) /\ elements = Elements(cells, N)
    <3>1. /\ Matrix(fixed, N) /\ cells = With(fixed, c, column)
          /\ elements = With(Elements(fixed, N), c, values)
      BY <1>6, <2>2 DEF With
    <3> QED  BY ONLY <2>4, <3>1, ColumnRewritten, SMTT(30)
  <2> QED  BY <2>3, <2>5, CellsAssembled
<1>10. ASSUME NEW c, NEW from \in circuit.rows, FillFromRow(c, from) PROVE CellsInv'
  <2>1. PICK column, values : /\ column = Filled(fixed[c], from, a)
                              /\ values = Filled(meant[c], from, Evaluate(a))
    OBVIOUS
  <2>2. PICK cells, elements : /\ cells = [fixed EXCEPT ![c] = column]
                               /\ elements = [meant EXCEPT ![c] = values]
    OBVIOUS
  <2>3. Assembles(from, "failed", enabled, cells, elements)
    BY <1>5, <1>10, <2>1, <2>2 DEF FillFromRow
  <2>4. ASSUME c \in 1..Len(fixed)
        PROVE  ColumnOf(column, values, N)
    <3>1. fixed[c] \in [1..N -> Assigned]
      BY <1>6, <2>4 DEF Matrix
    <3>2. meant[c] = [r \in 1..N |-> Evaluate(fixed[c][r])]
      BY <1>6, <2>4 DEF Elements
    <3>3. /\ column \in [1..N -> Assigned]
          /\ \A r \in 1..N : column[r] = IF r \in from..usable THEN a ELSE fixed[c][r]
      BY <2>1, <3>1 DEF Filled
    <3>4. values = [r \in 1..N |-> IF r \in from..usable THEN Evaluate(a) ELSE Evaluate(fixed[c][r])]
      BY <2>1, <3>2 DEF Filled
    <3> QED  BY <3>3, <3>4 DEF ColumnOf
  <2>5. Matrix(cells, N) /\ elements = Elements(cells, N)
    <3>1. /\ Matrix(fixed, N) /\ cells = With(fixed, c, column)
          /\ elements = With(Elements(fixed, N), c, values)
      BY <1>6, <2>2 DEF With
    <3> QED  BY ONLY <2>4, <3>1, ColumnRewritten, SMTT(30)
  <2> QED  BY <2>3, <2>5, CellsAssembled
<1>11. CASE FillUnknown
  <2>1. Idle
    BY <1>11 DEF FillUnknown, config, assembly
  <2> QED  BY <1>1, <2>1
<1>12. CASE Synthesize
  BY <1>7, <1>8, <1>9, <1>10, <1>11, <1>12 DEF Synthesize
<1>13. ASSUME NEW compress \in BOOLEAN, Finish(compress) PROVE CellsInv'
  <2>1. stage = "synthesis" /\ UNCHANGED <<circuit, fixed, meant, cell>>
    BY <1>13 DEF Finish, config, assembly
  <2>2. CASE IF compress THEN CompressPanics(cs) ELSE SimpleInLookup(cs)
    <3>1. stage' = "assertion"
      BY <1>13, <2>2 DEF Finish
    <3> QED  BY <1>1, <2>1, <3>1
  <2>3. CASE ~ (IF compress THEN CompressPanics(cs) ELSE SimpleInLookup(cs))
    <3>1. PICK converted : converted = IF compress THEN CompressSelectors(cs, enabled, 1..N)
                                       ELSE DirectlyConvert(cs, enabled, 1..N)
      OBVIOUS
    <3>2. key' = Key(compress, converted)
      BY <1>13, <2>3, <3>1 DEF Finish
    <3>3. key'.fixed = HostEvaluated(fixed) \o converted.columns
      BY <3>2 DEF Key
    <3>4. PICK V : converted.columns \in Seq(V)
      <4>1. Wired(cs) /\ DOMAIN enabled = 1..cs.selectors
        BY <2>1 DEF KeyInv, ConfigInv, ConfigOf
      <4> QED  BY <2>3, <3>1, <4>1, ConvertedColumns
    <3> QED  BY <1>4, <2>1, <3>3, <3>4 DEF CellsInv, Done
  <2> QED  BY <2>2, <2>3
<1>14. CASE Load
  BY <1>14 DEF Load, config, assembly, CellsInv, Done
<1>15. CASE UNCHANGED vars
  BY <1>15 DEF vars, config, assembly, CellsInv, Done
<1> QED  BY <1>2, <1>3, <1>12, <1>13, <1>14, <1>15 DEF Next

\* Each fixed column of a key is what its cells stand for, by the host's batch inversion
\* and by the device's.
LEMMA CellsEvaluated ==
    ASSUME CellsInv
    PROVE  FixedAreEvaluated
<1>1. SUFFICES ASSUME Done PROVE FixedAreEvaluated
  BY DEF FixedAreEvaluated
<1>2. Matrix(fixed, N) /\ meant = Elements(fixed, N)
  BY DEF CellsInv
<1>3. PICK a \in Assigned : cell = <<a, Evaluate(a)>>
  BY DEF CellsInv
<1>4. HostEvaluated(fixed) = meant /\ DeviceEvaluated(fixed) = meant
  BY <1>2, HostEvaluatedIs, DeviceEvaluatedIs
<1>5. PICK V, columns : columns \in Seq(V) /\ key.fixed = meant \o columns
  BY <1>1, <1>4 DEF CellsInv
<1>6. PICK l, U : l = Len(fixed) /\ U = V \cup {meant[c] : c \in 1..l}
  OBVIOUS
<1>7. l \in Nat /\ DOMAIN meant = 1..l /\ \A c \in 1..l : fixed[c] \in [1..N -> Assigned]
  BY <1>2, <1>6 DEF Matrix, Elements
<1>8. meant \in Seq(U) /\ Len(meant) = l
  <2>1. meant = [c \in 1..l |-> meant[c]] /\ \A c \in 1..l : meant[c] \in U
    BY <1>2, <1>6, <1>7 DEF Elements
  <2> QED  BY ONLY <1>7, <2>1, IsSequence
<1>9. columns \in Seq(U)
  BY <1>5, <1>6
<1>10. \A c \in 1..l : key.fixed[c] = meant[c]
  BY <1>5, <1>8, <1>9, ConcatPlaces
<1>11. ASSUME NEW c \in 1..l, NEW r \in 1..N
       PROVE  Equal(fixed[c][r], cell[1]) <=> (meant[c][r] = cell[2])
  <2>1. fixed[c][r] \in Assigned /\ meant[c][r] = Evaluate(fixed[c][r])
    BY <1>2, <1>6, <1>7 DEF Elements
  <2> QED  BY <1>3, <2>1, EqualStandsFor
<1> QED  BY <1>4, <1>7, <1>10, <1>11 DEF FixedAreEvaluated

\* The fixed columns of every key hold what the circuit's arithmetic on put-off fractions
\* stands for, however the inversions were batched.
THEOREM CellsAreEvaluated == Spec => []FixedAreEvaluated
<1>1. Init => KeyInv /\ CellsInv
  BY KeyInit, CellsInit
<1>2. KeyInv /\ CellsInv /\ [Next]_vars => KeyInv' /\ CellsInv'
  BY KeyStep, CellsStep
<1>3. CellsInv => FixedAreEvaluated
  BY CellsEvaluated
<1> QED  BY <1>1, <1>2, <1>3, PTL DEF Spec

(* --------------------------- what the columns tell ------------------------------ *)

\* The first place of a list with a property
IsFirst(v, I) == IF I = {} THEN v = 0 ELSE v \in I /\ \A i \in I : v <= i

\* The library's search for a place finds the first one.
LEMMA FirstPlace ==
    ASSUME NEW n \in Nat, NEW I, I \subseteq 1..n, NEW v, v = IF I # {} THEN Min(I) ELSE 0
    PROVE  IsFirst(v, I)
<1>1. CASE I = {}
  BY <1>1 DEF IsFirst
<1>2. CASE I # {}
  <2>1. I \in SUBSET Nat
    OBVIOUS
  <2>2. PICK m \in I : \A k \in I : m <= k
    BY <1>2, <2>1, LeastNatural
  <2>3. Min(I) \in I /\ \A k \in I : Min(I) <= k
    BY <2>2 DEF Min
  <2> QED  BY <1>2, <2>3 DEF IsFirst
<1> QED  BY <1>1, <1>2

\* Where a selector stands in a combination, and what the combination's column holds on a row
Enabling(activations, c, r) == {i \in 1..Len(c) : r \in activations[c[i]]}
Standing(c, s) == {i \in 1..Len(c) : c[i] = s}

\* The root of a selector is its place, the value of the column that of the selector
\* enabled on the row: they are the same exactly where the selector is.
LEMMA ColumnTells ==
    ASSUME NEW activations, NEW c, c \in Seq(Nat), Exclusive(activations, c), NEW s, s \in ToSet(c),
           NEW r, NEW root, IsFirst(root, Standing(c, s)),
           NEW v, IsFirst(v, Enabling(activations, c, r))
    PROVE  /\ root \in 1..Len(c) /\ v \in 0..Len(c)
           /\ v = root <=> r \in activations[s]
<1>1. PICK n, I, J : n = Len(c) /\ I = Enabling(activations, c, r) /\ J = Standing(c, s)
  OBVIOUS
<1>2. n \in Nat /\ DOMAIN c = 1..n
  BY <1>1
<1>3. PICK k \in 1..n : c[k] = s
  BY <1>2 DEF ToSet
<1>4. k \in J /\ \A i : i \in J <=> i \in 1..n /\ c[i] = s
  BY <1>1, <1>3 DEF Standing
<1>5. root \in J /\ \A i \in J : root <= i
  BY <1>1, <1>4 DEF IsFirst
<1>6. \A i : i \in I <=> i \in 1..n /\ r \in activations[c[i]]
  BY <1>1 DEF Enabling
<1>7. root \in 1..n /\ c[root] = s
  BY <1>4, <1>5
<1>8. IF I = {} THEN v = 0 ELSE v \in I /\ \A i \in I : v <= i
  BY <1>1 DEF IsFirst
<1>9. v \in 0..n
  BY <1>2, <1>6, <1>8
<1>10. ASSUME v = root PROVE r \in activations[s]
  <2>1. v # 0
    BY <1>7, <1>10
  <2>2. v \in I
    BY <1>8, <2>1
  <2> QED  BY <1>6, <1>7, <1>10, <2>2
<1>11. ASSUME r \in activations[s] PROVE v = root
  <2>1. root \in I
    BY <1>6, <1>7, <1>11
  <2>2. v \in I /\ v <= root
    BY <1>8, <2>1
  <2>3. v \in 1..n /\ r \in activations[c[v]]
    BY <1>6, <2>2
  <2>4. c[v] = c[root]
    <3>1. r \in activations[c[v]] \cap activations[c[root]]
      BY <1>7, <1>11, <2>3
    <3> QED  BY <1>1, <1>7, <2>3, <3>1 DEF Exclusive
  <2>5. v \in J
    BY <1>4, <1>7, <2>3, <2>4
  <2>6. root <= v
    BY <1>5, <2>5
  <2> QED  BY <1>7, <2>2, <2>3, <2>6
<1> QED  BY <1>1, <1>7, <1>9, <1>10, <1>11

(* ----------------------------------- the guards --------------------------------- *)

\* The factors of a guard, multiplied from the column's value q on
GuardRun(f, q, root, size) ==
    f = [i \in 0..size |-> IF i = 0 THEN q ELSE IF i = root THEN f[i - 1]
                           ELSE (f[i - 1] * (i - q)) % Prime]

\* They are.
LEMMA GuardRunExists ==
    ASSUME NEW q \in Int, NEW root, NEW size \in Nat
    PROVE  \E f : GuardRun(f, q, root, size)
<1> DEFINE step == [p \in Nat \X Int |->
                      IF p[1] + 1 = root THEN p[2] ELSE (p[2] * (p[1] + 1 - q)) % Prime]
<1>1. step \in [Nat \X Int -> Int]
  <2>1. ASSUME NEW p \in Nat \X Int
        PROVE  (IF p[1] + 1 = root THEN p[2] ELSE (p[2] * (p[1] + 1 - q)) % Prime) \in Int
    <3>1. PICK k, x, y : k = p[1] /\ x = p[2] /\ y = x * (k + 1 - q)
      OBVIOUS
    <3>2. k \in Nat /\ x \in Int
      BY <2>1, <3>1
    <3>3. k + 1 - q \in Int
      BY <3>2
    <3>4. y \in Int
      BY <3>1, <3>2, <3>3
    <3>5. y % Prime \in Int
      BY <3>4, Remainder
    <3> QED  BY <3>1, <3>2, <3>5
  <2> QED  BY <2>1
<1> HIDE DEF step
<1>2. PICK f : IsRun(f, Int, q, step, size)
  BY <1>1, RunExists
<1>3. f \in [0..size -> Int] /\ f[0] = q /\ \A i \in 0..(size - 1) : f[i + 1] = step[<<i, f[i]>>]
  BY <1>2 DEF IsRun
<1>4. ASSUME NEW i \in 0..size
      PROVE  f[i] = IF i = 0 THEN q ELSE IF i = root THEN f[i - 1] ELSE (f[i - 1] * (i - q)) % Prime
  <2>1. CASE i = 0
    BY <1>3, <2>1
  <2>2. CASE i # 0
    <3>1. PICK k : k = i - 1
      OBVIOUS
    <3>2. k \in Nat /\ k \in 0..(size - 1) /\ k \in 0..size /\ k + 1 = i
      BY <2>2, <3>1
    <3>3. PICK x : x = f[k]
      OBVIOUS
    <3>4. x \in Int
      BY <1>3, <3>2, <3>3
    <3>5. f[i] = step[<<k, x>>]
      BY <1>3, <3>2, <3>3
    <3>6. step[<<k, x>>] = IF i = root THEN x ELSE (x * (i - q)) % Prime
      <4>1. step[<<k, x>>] = IF k + 1 = root THEN x ELSE (x * (k + 1 - q)) % Prime
        BY <3>2, <3>4 DEF step
      <4>2. k + 1 - q = i - q
        BY <3>2
      <4> QED  BY ONLY <3>2, <4>1, <4>2
    <3> QED  BY <2>2, <3>1, <3>3, <3>5, <3>6
  <2> QED  BY <2>1, <2>2
<1>5. GuardRun(f, q, root, size)
  <2>1. f = [i \in 0..size |-> f[i]]
    BY <1>3
  <2> QED  BY <1>4, <2>1 DEF GuardRun
<1> QED  BY <1>5

\* A difference of two places of a combination is no multiple of the characteristic.
LEMMA PlacesApart ==
    ASSUME NEW i \in Nat, NEW k \in Nat, i < Prime, k < Prime, i # k
    PROVE  (i - k) % Prime # 0
<1>1. i \in Field /\ k \in Field /\ i - k \in Int /\ 0 \in Int
  BY FieldIsInt DEF Field
<1>2. ASSUME (i - k) % Prime = 0 PROVE FALSE
  <2>1. Same(i - k, 0)
    <3>1. 0 % Prime = 0
      BY ElementMod, FieldIsInt
    <3> QED  BY <1>2, <3>1 DEF Same
  <2>2. Same(k, k)
    BY SameRefl
  <2>3. Same((i - k) + k, 0 + k)
    BY <1>1, <2>1, <2>2, SameArithmetic
  <2>4. (i - k) + k = i /\ 0 + k = k
    OBVIOUS
  <2>5. Same(i, k)
    BY <2>3, <2>4
  <2> QED  BY <1>1, <2>5, SameElement
<1> QED  BY <1>2

\* A nonzero element times a number that is no multiple of the characteristic is none.
LEMMA FactorNonzero ==
    ASSUME NEW x, x \in Field, x # 0, NEW y, y \in Int, y % Prime # 0
    PROVE  (x * y) % Prime \in Field /\ (x * y) % Prime # 0
<1>1. PICK z : z = y % Prime
  OBVIOUS
<1>2. z \in Field /\ z \in Int /\ z # 0 /\ Same(z, y)
  BY <1>1, Remainder
<1>3. x \in Int /\ Same(x, x)
  BY FieldIsInt, SameRefl
<1>4. Same(x * z, x * y)
  BY <1>2, <1>3, SameArithmetic
<1>5. (x * z) % Prime # 0 /\ (x * z) % Prime \in Field
  BY <1>2, ProductNonzero
<1> QED  BY <1>4, <1>5 DEF Same

\* A guard vanishes unless its column holds the selector's root.
LEMMA GuardTells ==
    ASSUME NEW size \in Nat, size < Prime, NEW root \in 1..size, NEW q \in 0..size,
           NEW f, GuardRun(f, q, root, size)
    PROVE  f[size] # 0 <=> q = root
<1>1. /\ f[0] = q
      /\ \A i \in 1..size : f[i] = IF i = root THEN f[i - 1] ELSE (f[i - 1] * (i - q)) % Prime
  <2>1. \A i \in 0..size : f[i] = IF i = 0 THEN q ELSE IF i = root THEN f[i - 1]
                                  ELSE (f[i - 1] * (i - q)) % Prime
    BY DEF GuardRun
  <2> QED  BY <2>1
<1>2. \A i \in 0..size : f[i] \in Int
  <2> DEFINE S == {i \in 0..size : f[i] \in Int}
  <2>1. 0 \in S
    BY <1>1
  <2>2. ASSUME NEW i \in 0..(size - 1), i \in S PROVE i + 1 \in S
    <3>1. PICK k, x, y : k = i + 1 /\ x = f[i] /\ y = x * (k - q)
      OBVIOUS
    <3>2. k \in 1..size /\ k \in 0..size /\ k - 1 = i /\ x \in Int /\ k - q \in Int
      BY <2>2, <3>1
    <3>3. y \in Int
      BY <3>1, <3>2
    <3>4. y % Prime \in Int
      BY <3>3, Remainder
    <3>5. f[k] = IF k = root THEN x ELSE y % Prime
      BY <1>1, <3>1, <3>2
    <3> QED  BY <3>1, <3>2, <3>4, <3>5
  <2> HIDE DEF S
  <2>3. 0..size \subseteq S
    BY <2>1, <2>2, BoundedInduction
  <2> QED  BY <2>3 DEF S
<1>3. CASE q = root
  <2> DEFINE S == {i \in 0..size : f[i] \in Field /\ f[i] # 0}
  <2>1. 0 \in S
    BY <1>1, <1>3, FieldIsInt DEF Field
  <2>2. ASSUME NEW i \in 0..(size - 1), i \in S PROVE i + 1 \in S
    <3>1. PICK k, x : k = i + 1 /\ x = f[i]
      OBVIOUS
    <3>2. k \in 1..size /\ k - 1 = i /\ x \in Field /\ x # 0
      BY <2>2, <3>1
    <3>3. f[k] = IF k = root THEN x ELSE (x * (k - q)) % Prime
      BY <1>1, <3>1, <3>2
    <3>4. f[k] \in Field /\ f[k] # 0
      <4>1. CASE k = root
        BY <3>2, <3>3, <4>1
      <4>2. CASE k # root
        <5>1. (k - q) % Prime # 0
          BY <1>3, <3>2, <4>2, PlacesApart, FieldIsInt
        <5>2. k - q \in Int
          BY <3>2
        <5> QED  BY <3>2, <3>3, <4>2, <5>1, <5>2, FactorNonzero
      <4> QED  BY <4>1, <4>2
    <3> QED  BY <3>1, <3>2, <3>4
  <2> HIDE DEF S
  <2>3. 0..size \subseteq S
    BY <2>1, <2>2, BoundedInduction
  <2>4. size \in S
    BY <2>3
  <2> QED  BY <1>3, <2>4 DEF S
<1>4. CASE q # root
  <2> DEFINE T == {k \in 0..(size - q) : f[q + k] = 0}
  <2>1. q \in Nat /\ size - q \in Nat
    OBVIOUS
  <2>2. \A x \in Int : x * 0 = 0 /\ 0 * x = 0 /\ 0 % Prime = 0
    BY ElementMod, FieldIsInt
  <2>3. 0 \in T
    <3>1. q + 0 = q
      OBVIOUS
    <3>2. CASE q = 0
      BY <1>1, <2>1, <3>1, <3>2
    <3>3. CASE q # 0
      <4>1. q \in 1..size /\ q - q = 0
        BY <3>3
      <4>2. PICK x : x = f[q - 1]
        OBVIOUS
      <4>3. f[q] = (x * 0) % Prime
        BY <1>1, <1>4, <4>1, <4>2
      <4>4. x \in Int
        <5>1. \A i \in 0..size : f[i] \in Int
          BY <1>2
        <5> QED  BY <4>1, <4>2, <5>1
      <4> QED  BY <2>1, <2>2, <3>1, <4>3, <4>4
    <3> QED  BY <3>2, <3>3
  <2>4. ASSUME NEW k \in 0..((size - q) - 1), k \in T PROVE k + 1 \in T
    <3>1. PICK i : i = q + k + 1
      OBVIOUS
    <3>2. i \in 1..size /\ i - 1 = q + k /\ q + (k + 1) = i /\ k + 1 \in 0..(size - q) /\ i - q \in Int
      BY <2>4, <3>1
    <3>3. f[i - 1] = 0
      BY <2>4, <3>2
    <3>4. f[i] = IF i = root THEN 0 ELSE (0 * (i - q)) % Prime
      BY <1>1, <3>2, <3>3
    <3>5. f[i] = 0
      BY <2>2, <3>2, <3>4
    <3> QED  BY <3>2, <3>5
  <2> HIDE DEF T
  <2>5. 0..(size - q) \subseteq T
    BY <2>1, <2>3, <2>4, BoundedInduction
  <2>6. size - q \in T /\ q + (size - q) = size
    BY <2>1, <2>5
  <2> QED  BY <1>4, <2>6 DEF T
<1> QED  BY <1>3, <1>4

(* ----------------------------- polynomial by polynomial ------------------------- *)

\* What ReplaceSelectors does to the gates and lookups, whichever fields are set after
PolysReplaced(sys, grown, replaced) ==
    /\ SameShape(grown.gates, sys.gates) /\ SameShape(grown.lookups, sys.lookups)
    /\ \A g \in 1..Len(sys.gates) : \A i \in 1..Len(sys.gates[g]) :
          grown.gates[g][i] = ReplacePoly(sys.gates[g][i], replaced)
    /\ \A l \in 1..Len(sys.lookups) : \A i \in 1..Len(sys.lookups[l]) :
          grown.lookups[l][i] = <<ReplacePoly(sys.lookups[l][i][1], replaced),
                                  ReplacePoly(sys.lookups[l][i][2], replaced)>>

\* The lookups as lists of lists of two polynomials
LookupLists(lookups) == [l \in DOMAIN lookups |-> [i \in DOMAIN lookups[l] |-> lookups[l][i]]]

\* They are such.
LEMMA ListsOfLookups ==
    ASSUME NEW P, NEW lookups, lookups \in Seq(Seq(P \X P))
    PROVE  /\ LookupLists(lookups) = lookups
           /\ lookups \in Seq(Seq(Seq(P)))
<1>1. PICK n : n = Len(lookups)
  OBVIOUS
<1>2. n \in Nat /\ DOMAIN lookups = 1..n /\ lookups = [l \in 1..n |-> lookups[l]]
  BY <1>1
<1>3. ASSUME NEW l \in 1..n
      PROVE  /\ lookups[l] = [i \in DOMAIN lookups[l] |-> lookups[l][i]]
             /\ lookups[l] \in Seq(Seq(P))
  <2>1. PICK u, m, W, V : u = lookups[l] /\ m = Len(u) /\ W = P \X P /\ V = Seq(P)
    OBVIOUS
  <2>2. u \in Seq(W)
    BY <1>1, <1>3, <2>1
  <2>3. u = [i \in 1..m |-> u[i]] /\ m \in Nat /\ DOMAIN u = 1..m
    BY <2>1, <2>2
  <2>4. ASSUME NEW i \in 1..m PROVE u[i] \in V
    <3>1. u[i] \in P \X P
      BY <2>1, <2>2, <2>3, <2>4
    <3>2. PICK x \in P, y \in P : u[i] = <<x, y>>
      BY <3>1
    <3>3. <<x, y>> \in Seq(P)
      OBVIOUS
    <3> QED  BY <2>1, <3>2, <3>3
  <2>5. u \in Seq(V)
    BY ONLY <2>3, <2>4, IsSequence
  <2> QED  BY <2>1, <2>3, <2>5
<1>4. LookupLists(lookups) = lookups
  BY <1>2, <1>3 DEF LookupLists
<1>5. PICK U : U = Seq(Seq(P))
  OBVIOUS
<1>6. \A l \in 1..n : lookups[l] \in U
  BY <1>3, <1>5
<1>7. lookups \in Seq(U)
  BY ONLY <1>2, <1>6, IsSequence
<1> QED  BY <1>4, <1>5, <1>7

\* The polynomials of the two systems correspond, one by one.
LEMMA PolysMatch ==
    ASSUME NEW sys, NEW grown, NEW replaced, PolysReplaced(sys, grown, replaced),
           NEW P, sys.gates \in Seq(Seq(P)), grown.gates \in Seq(Seq(P)),
           sys.lookups \in Seq(Seq(P \X P)), grown.lookups \in Seq(Seq(P \X P)),
           NEW R, \A g \in 1..Len(sys.gates) : \A i \in 1..Len(sys.gates[g]) :
                     <<sys.gates[g][i], ReplacePoly(sys.gates[g][i], replaced)>> \in R,
           \A l \in 1..Len(sys.lookups) : \A i \in 1..Len(sys.lookups[l]) :
              /\ <<sys.lookups[l][i][1], ReplacePoly(sys.lookups[l][i][1], replaced)>> \in R
              /\ <<sys.lookups[l][i][2], ReplacePoly(sys.lookups[l][i][2], replaced)>> \in R
    PROVE  Polys(sys) \in Seq(P) /\ Matches(Polys(sys), Polys(grown), R)
<1>1. PICK s, t, u, v : s = sys.gates /\ t = grown.gates /\ u = sys.lookups /\ v = grown.lookups
  OBVIOUS
<1>2. s \in Seq(Seq(P)) /\ t \in Seq(Seq(P)) /\ u \in Seq(Seq(P \X P)) /\ v \in Seq(Seq(P \X P))
  BY <1>1
<1>3. PICK V : V = Seq(P)
  OBVIOUS
<1>4. LookupLists(u) = u /\ LookupLists(v) = v /\ u \in Seq(Seq(V)) /\ v \in Seq(Seq(V))
  <2>1. LookupLists(u) = u /\ u \in Seq(Seq(Seq(P)))
    BY ONLY <1>2, ListsOfLookups
  <2>2. LookupLists(v) = v /\ v \in Seq(Seq(Seq(P)))
    BY ONLY <1>2, ListsOfLookups
  <2> QED  BY ONLY <1>3, <2>1, <2>2
<1>5. Len(s) = Len(t) /\ \A g \in 1..Len(s) : Matches(s[g], t[g], R)
  BY <1>1 DEF PolysReplaced, SameShape, Matches
<1>6. PICK S : S = {p \in V \X V : Matches(p[1], p[2], R)}
  OBVIOUS
<1>7. ASSUME NEW l \in 1..Len(u) PROVE Matches(u[l], v[l], S)
  <2>1. Len(v[l]) = Len(u[l]) /\ Len(u) = Len(v)
    BY <1>1, <1>7 DEF PolysReplaced, SameShape
  <2>2. u[l] \in Seq(V) /\ v[l] \in Seq(V) /\ u[l] \in Seq(P \X P)
    BY <1>2, <1>4, <1>7, <2>1
  <2>3. ASSUME NEW i \in 1..Len(u[l]) PROVE <<u[l][i], v[l][i]>> \in S
    <3>1. PICK x, y : x = u[l][i] /\ y = v[l][i]
      OBVIOUS
    <3>2. x \in V /\ y \in V /\ x \in P \X P
      BY <2>1, <2>2, <2>3, <3>1
    <3>3. y = <<ReplacePoly(x[1], replaced), ReplacePoly(x[2], replaced)>>
      BY <1>1, <1>7, <2>3, <3>1 DEF PolysReplaced
    <3>4. <<x[1], ReplacePoly(x[1], replaced)>> \in R /\ <<x[2], ReplacePoly(x[2], replaced)>> \in R
      BY <1>1, <1>7, <2>3, <3>1
    <3>5. x = <<x[1], x[2]>>
      BY <3>2
    <3>6. Len(x) = 2 /\ Len(y) = 2
      BY ONLY <3>3, <3>5
    <3>7. <<x[1], y[1]>> \in R /\ <<x[2], y[2]>> \in R
      BY <3>3, <3>4
    <3>8. \A k \in 1..2 : k = 1 \/ k = 2
      OBVIOUS
    <3>9. Matches(x, y, R)
      BY <3>6, <3>7, <3>8 DEF Matches
    <3> QED  BY <1>6, <3>1, <3>2, <3>9
  <2> QED  BY <2>1, <2>3 DEF Matches
<1>8. Len(u) = Len(v)
  BY <1>1 DEF PolysReplaced, SameShape
<1>9. PICK a, b, c, d, e, f :
        /\ a = FlattenSeq(s) /\ b = FlattenSeq(t) /\ c = FlattenSeq(u) /\ d = FlattenSeq(v)
        /\ e = FlattenSeq(c) /\ f = FlattenSeq(d)
  OBVIOUS
<1>10. a \in Seq(P) /\ b \in Seq(P) /\ c \in Seq(V) /\ d \in Seq(V)
  <2>1. a \in Seq(P)
    BY ONLY <1>2, <1>9, FlattenType
  <2>2. b \in Seq(P)
    BY ONLY <1>2, <1>9, FlattenType
  <2>3. c \in Seq(V)
    BY ONLY <1>4, <1>9, FlattenType
  <2>4. d \in Seq(V)
    BY ONLY <1>4, <1>9, FlattenType
  <2> QED  BY <2>1, <2>2, <2>3, <2>4
<1>11. Matches(a, b, R)
  BY ONLY <1>2, <1>5, <1>9, FlattenMatches
<1>12. Matches(c, d, S)
  BY ONLY <1>4, <1>7, <1>8, <1>9, FlattenMatches
<1>13. Len(c) = Len(d) /\ \A i \in 1..Len(c) : Matches(c[i], d[i], R)
  <2>1. Len(c) = Len(d) /\ \A i \in 1..Len(c) : <<c[i], d[i]>> \in S
    BY <1>12 DEF Matches
  <2> QED  BY <1>6, <2>1
<1>14. c \in Seq(Seq(P)) /\ d \in Seq(Seq(P))
  BY <1>3, <1>10
<1>15. Matches(e, f, R)
  BY ONLY <1>9, <1>13, <1>14, FlattenMatches
<1>16. e \in Seq(P) /\ f \in Seq(P)
  <2>1. e \in Seq(P)
    BY ONLY <1>9, <1>14, FlattenType
  <2>2. f \in Seq(P)
    BY ONLY <1>9, <1>14, FlattenType
  <2> QED  BY <2>1, <2>2
<1>17. Matches(a \o e, b \o f, R)
  BY ONLY <1>10, <1>11, <1>15, <1>16, ConcatMatches
<1>18. Polys(sys) = a \o e /\ Polys(grown) = b \o f
  BY <1>1, <1>4, <1>9, ZenonT(30) DEF Polys, GatePolys, LookupLists
<1>19. a \o e \in Seq(P)
  BY ONLY <1>10, <1>16
<1> QED  BY <1>17, <1>18, <1>19

\* A guard whose column holds a value of the combination vanishes unless it is its root.
LEMMA GuardValueIs ==
    ASSUME NEW guard, NEW r, NEW size \in Nat, size = guard.size, size < Prime,
           NEW root \in 1..size, root = guard.root,
           NEW q \in 0..size, q = key.fixed[guard.column][r]
    PROVE  GuardValue(guard, r) # 0 <=> q = root
<1> DEFINE run == CHOOSE f : GuardRun(f, key.fixed[guard.column][r], guard.root, guard.size)
<1>1. \E f : GuardRun(f, q, root, size)
  BY GuardRunExists
<1>2. GuardRun(run, key.fixed[guard.column][r], guard.root, guard.size)
  BY <1>1
<1>3. GuardValue(guard, r) = run[guard.size]
  BY DEF GuardValue, GuardRun
<1> HIDE DEF run
<1>4. PICK f : f = run
  OBVIOUS
<1>5. GuardRun(f, q, root, size)
  BY <1>2, <1>4
<1>6. f[size] # 0 <=> q = root
  BY <1>5, GuardTells
<1> QED  BY <1>3, <1>4, <1>6

(* ------------------------------- every selector --------------------------------- *)

\* The replacement of a selector is right on a row: the replacing column holds its root
\* exactly where the selector is on.
Tells(columns, replacement, on, r) ==
    /\ replacement[3] \in Nat /\ replacement[3] < Prime /\ replacement[2] \in 1..replacement[3]
    /\ columns[replacement[1]][r] \in 0..replacement[3]
    /\ columns[replacement[1]][r] = replacement[2] <=> r \in on

\* It is for every selector, and one that guards no gate is alone in its column.
SelectorsTold(sys, columns, replaced, activations, rows) ==
    \A s \in 1..sys.selectors :
        /\ \A r \in rows : Tells(columns, replaced[s], activations[s], r)
        /\ SelectorDegrees(sys)[s] = 0 => replaced[s][3] = 1

\* Combinations that are shorter than the field is large
Short(list) == \A j \in 1..Len(list) : Len(list[j]) < Prime

\* The columns of the combinations are right for every selector.
LEMMA ColumnsTell ==
    ASSUME NEW sys, Wired(sys), NEW n, n = sys.selectors, NEW activations, NEW rows, NEW limit,
           NEW degrees, degrees = SelectorDegrees(sys),
           NEW list, FitList(activations, degrees, limit, list), Covers(list, 1..n),
           NEW m, m = Len(list), Short(list),
           NEW done, ColumnsAssigned(sys, n, list, activations, rows, m, done),
           NEW V, NEW host, host \in Seq(V), Len(host) = sys.fixed,
           NEW columns, columns = host \o done.columns
    PROVE  SelectorsTold(sys, columns, done.replaced, activations, rows)
<1>1. m \in Nat /\ list \in Seq(Seq(Nat)) /\ \A j \in 1..m : Fit(activations, degrees, limit, list[j])
  BY DEF FitList
<1>2. PICK W, k : W = {CombinationColumn(activations, list[j], rows) : j \in 1..m} /\ k = sys.fixed
  OBVIOUS
<1>3. done.columns \in Seq(W) /\ Len(done.columns) = m
  BY <1>2 DEF ColumnsAssigned
<1>4. \A j \in 1..m : columns[k + j] = CombinationColumn(activations, list[j], rows)
  <2>1. PICK U, more : U = V \cup W /\ more = done.columns
    OBVIOUS
  <2>2. host \in Seq(U) /\ more \in Seq(U) /\ Len(host) = k /\ Len(more) = m /\ columns = host \o more
    BY <1>2, <1>3, <2>1
  <2>3. \A j \in 1..m : columns[k + j] = more[j]
    BY ONLY <2>2, ConcatPlaces
  <2> QED  BY <2>1, <2>3 DEF ColumnsAssigned
<1>5. ASSUME NEW s \in 1..n
      PROVE  /\ \A r \in rows : Tells(columns, done.replaced[s], activations[s], r)
             /\ degrees[s] = 0 => done.replaced[s][3] = 1
  <2>1. PICK rep : rep = done.replaced[s]
    OBVIOUS
  <2>2. \E j \in 1..m : s \in ToSet(list[j])
    BY DEF Covers
  <2>3. PICK j \in 1..m :
          /\ s \in ToSet(list[j]) /\ rep[1] = k + j
          /\ rep[2] = SelectInSeq(list[j], LAMBDA t : t = s) /\ rep[3] = Len(list[j])
    BY <1>2, <2>1, <2>2 DEF ColumnsAssigned
  <2>4. PICK c, l : c = list[j] /\ l = Len(c)
    OBVIOUS
  <2>5. Fit(activations, degrees, limit, c) /\ l < Prime
    BY <1>1, <2>4 DEF Short
  <2>6. c \in Seq(Nat) /\ l \in Nat /\ Exclusive(activations, c) /\ DOMAIN c = 1..l
        /\ (l = 1 \/ \A i \in 1..l : degrees[c[i]] # 0)
    BY <2>4, <2>5 DEF Fit
  <2>7. IsFirst(rep[2], Standing(c, s))
    <3>1. PICK I : I = {i \in 1..l : c[i] = s}
      OBVIOUS
    <3>2. rep[2] = IF I # {} THEN Min(I) ELSE 0
      BY <2>3, <2>4, <3>1 DEF SelectInSeq
    <3>3. I \subseteq 1..l
      BY <3>1
    <3>4. IsFirst(rep[2], I)
      BY ONLY <2>6, <3>2, <3>3, FirstPlace
    <3> QED  BY <2>4, <3>1, <3>4 DEF Standing
  <2>8. ASSUME NEW r \in rows PROVE Tells(columns, rep, activations[s], r)
    <3>1. PICK v, I : v = columns[rep[1]][r] /\ I = {i \in 1..l : r \in activations[c[i]]}
      OBVIOUS
    <3>2. v = IF I # {} THEN Min(I) ELSE 0
      <4>1. columns[rep[1]] = CombinationColumn(activations, c, rows)
        BY <1>4, <2>3, <2>4
      <4>2. v = SelectInSeq(c, LAMBDA t : r \in activations[t])
        BY <2>8, <3>1, <4>1 DEF CombinationColumn
      <4> QED  BY <2>4, <3>1, <4>2 DEF SelectInSeq
    <3>3. I \subseteq 1..l
      BY <3>1
    <3>4. IsFirst(v, I)
      BY ONLY <2>6, <3>2, <3>3, FirstPlace
    <3>5. IsFirst(v, Enabling(activations, c, r))
      BY <2>4, <3>1, <3>4 DEF Enabling
    <3>6. PICK root : root = rep[2]
      OBVIOUS
    <3>7. IsFirst(root, Standing(c, s)) /\ s \in ToSet(c)
      BY <2>3, <2>4, <2>7, <3>6
    <3>8. root \in 1..Len(c) /\ v \in 0..Len(c) /\ (v = root <=> r \in activations[s])
      BY ONLY <2>6, <3>5, <3>7, ColumnTells
    <3> QED  BY <2>3, <2>4, <2>5, <2>6, <3>1, <3>6, <3>8 DEF Tells
  <2>9. ASSUME degrees[s] = 0 PROVE rep[3] = 1
    <3>1. PICK i \in 1..l : c[i] = s
      BY <2>3, <2>4, <2>6 DEF ToSet
    <3> QED  BY <2>3, <2>4, <2>6, <2>9, <3>1
  <2> QED  BY <2>1, <2>8, <2>9
<1> QED  BY <1>5 DEF SelectorsTold

\* A list of combinations that selectors may be rewritten by
Combines(sys, activations, limit, list) ==
    /\ DOMAIN activations = 1..sys.selectors
    /\ FitList(activations, SelectorDegrees(sys), limit, list)
    /\ Covers(list, 1..sys.selectors) /\ Short(list)

\* Further columns after a system's fixed ones
Follows(sys, columns, more) ==
    \E V, host : host \in Seq(V) /\ Len(host) = sys.fixed /\ columns = host \o more

\* Rewriting by a list of combinations: how each polynomial is rewritten, and what the
\* new columns hold.
LEMMA RewriteTells ==
    ASSUME NEW sys, Wired(sys), NEW activations, NEW limit, NEW list,
           Combines(sys, activations, limit, list), NEW rows,
           NEW done, done = AssignColumns(sys, list, activations, rows),
           NEW grown, grown = ReplaceSelectors(done.cs, done.replaced),
           NEW columns, Follows(sys, columns, done.columns)
    PROVE  /\ IsSystem(grown) /\ grown.advice_counts = sys.advice_counts
           /\ PolysReplaced(sys, grown, done.replaced)
           /\ SelectorsTold(sys, columns, done.replaced, activations, rows)
<1> PICK n, m, degrees : n = sys.selectors /\ m = Len(list) /\ degrees = SelectorDegrees(sys)
  OBVIOUS
<1>0. /\ DOMAIN activations = 1..n /\ FitList(activations, degrees, limit, list)
      /\ Covers(list, 1..n) /\ Short(list)
  BY DEF Combines
<1>1. n \in Nat /\ m \in Nat /\ list \in Seq(Seq(Nat))
  BY <1>0 DEF Wired, Sized, FitList
<1>2. ColumnsAssigned(sys, n, list, activations, rows, m, done)
  BY ONLY <1>0, <1>1, Wired(sys), m = Len(list),
          done = AssignColumns(sys, list, activations, rows), ColumnsAreAssigned
<1>3. Replaces(sys, n, Taken(list, m), done)
  BY ONLY <1>0, <1>1, Wired(sys), m = Len(list),
          done = AssignColumns(sys, list, activations, rows), AssignColumnsStep
<1>4. PICK mid, replaced : mid = done.cs /\ replaced = done.replaced
  OBVIOUS
<1>5. /\ DOMAIN replaced = 1..n /\ Wired(mid) /\ mid.selectors = n
      /\ mid.gates = sys.gates /\ mid.lookups = sys.lookups
      /\ mid.advice_counts = sys.advice_counts
  BY <1>3, <1>4 DEF Replaces, Keeps
<1>6. ASSUME NEW s \in 1..n PROVE ReplacementSound(mid, replaced[s])
  <2>1. PICK k \in 1..m : s \in ToSet(list[k])
    BY <1>0 DEF Covers
  <2>2. \E c \in Taken(list, m) : s \in ToSet(c)
    BY <2>1 DEF Taken
  <2> QED  BY <1>3, <1>4, <2>2 DEF Replaces
<1>7. AllReplaced(mid, replaced)
  BY <1>5, <1>6 DEF AllReplaced
<1>8. KeyWired(grown) /\ ReplacedPolys(mid, grown, replaced)
  BY <1>4, <1>5, <1>7, ReplaceSelectorsStep
<1>9. PolysReplaced(sys, grown, replaced)
  BY <1>5, <1>8 DEF ReplacedPolys, PolysReplaced
<1>10. grown.advice_counts = sys.advice_counts
  BY <1>5, <1>8 DEF ReplacedPolys, Fields, EmptySystem
<1>11. SelectorsTold(sys, columns, done.replaced, activations, rows)
  <2>1. PICK V, host : host \in Seq(V) /\ Len(host) = sys.fixed /\ columns = host \o done.columns
    BY DEF Follows
  <2> QED  BY ONLY <1>0, <1>2, <2>1, Wired(sys), n = sys.selectors, m = Len(list),
              degrees = SelectorDegrees(sys), ColumnsTell
<1> QED  BY <1>4, <1>8, <1>9, <1>10, <1>11 DEF KeyWired

\* Compression's combinations are shorter than the field is large.
LEMMA ShortCombinations ==
    ASSUME NEW n, NEW degrees, NEW limit, DegreesFit(degrees, n, limit), limit < Prime,
           NEW activations, NEW c, Fit(activations, degrees, limit, c)
    PROVE  Len(c) < Prime
<1>1. c \in Seq(Nat) /\ c # <<>> /\ Prime \in Nat /\ 1 < Prime
  BY FieldIsInt DEF Fit
<1>2. PICK l : l = Len(c)
  OBVIOUS
<1>3. l \in Nat \ {0}
  BY <1>1, <1>2
<1>4. CASE l = 1
  BY <1>1, <1>2, <1>4
<1>5. CASE l # 1
  <2>1. PICK d : d = degrees[c[1]]
    OBVIOUS
  <2>2. c[1] \in DOMAIN degrees /\ d # 0 /\ d - 1 + l <= limit
    <3>1. 1 \in 1..l
      BY <1>3
    <3> QED  BY <1>2, <1>5, <2>1, <3>1 DEF Fit
  <2>3. d \in Nat /\ limit \in Nat
    BY <2>1, <2>2 DEF DegreesFit
  <2> QED  BY <1>1, <1>2, <1>3, <2>2, <2>3
<1> QED  BY <1>4, <1>5

\* The degree compression may fill is below the field's order.
LEMMA DegreeBelow ==
    ASSUME NEW sys, Wired(sys), NEW simple, SelectorsSound(sys, simple)
    PROVE  Degree(sys) \in Nat /\ Degree(sys) < Prime
<1>1. RequiredDegree(sys) \in Nat /\ sys.minimum \in Nat
  BY RequiredStep DEF Wired, PolysSound, Sized
<1>2. PICK r, d, l : r = RequiredDegree(sys) /\ d = Degree(sys) /\ l = sys.minimum
  OBVIOUS
<1>3. d = Capped(r, l) /\ d \in Nat
  BY <1>1, <1>2, DegreeStep
<1>4. r \in Nat /\ l \in Nat /\ l < Prime /\ MaxDegreeCap \in Nat /\ MaxDegreeCap < Prime
      /\ Prime \in Nat /\ Prime > 1
  BY <1>1, <1>2, KeygenAssumption, ConstraintSystemAssumption, FieldIsInt DEF SelectorsSound
<1>5. d < Prime
  BY ONLY <1>3, <1>4 DEF Capped
<1> QED  BY <1>2, <1>3, <1>5

\* The selectors' columns of a key, whichever way they were made
SelectorsConverted(sys, grown, columns, activations) ==
    \E replaced : /\ PolysReplaced(sys, grown, replaced)
                  /\ SelectorsTold(sys, columns, replaced, activations, 1..N)

\* Both ways to rewrite the selectors
LEMMA ConvertedTells ==
    ASSUME NEW sys, Wired(sys), NEW simple, SelectorsSound(sys, simple),
           NEW activations, DOMAIN activations = 1..sys.selectors, NEW compress \in BOOLEAN,
           ~ (IF compress THEN CompressPanics(sys) ELSE SimpleInLookup(sys)),
           NEW converted, converted = IF compress THEN CompressSelectors(sys, activations, 1..N)
                                      ELSE DirectlyConvert(sys, activations, 1..N),
           NEW V, NEW host, host \in Seq(V), Len(host) = sys.fixed,
           NEW columns, columns = host \o converted.columns
    PROVE  /\ converted.cs.advice_counts = sys.advice_counts
           /\ SelectorsConverted(sys, converted.cs, columns, activations)
<1>1. PICK n, degrees, rows : n = sys.selectors /\ degrees = SelectorDegrees(sys) /\ rows = 1..N
  OBVIOUS
<1>2. n \in Nat /\ DOMAIN activations = 1..n
  BY <1>1 DEF Wired, Sized
<1>3. PICK list : list = IF compress THEN Alone(degrees) \o Combinations(activations, degrees, Degree(sys))
                                     ELSE [s \in DOMAIN activations |-> <<s>>]
  OBVIOUS
<1>4. PICK done : done = AssignColumns(sys, list, activations, rows)
  OBVIOUS
<1>5. PICK grown : grown = ReplaceSelectors(done.cs, done.replaced)
  OBVIOUS
<1>6. /\ converted.columns = done.columns
      /\ converted.cs = IF compress THEN [grown EXCEPT !.selector_map =
                                            [s \in DOMAIN done.replaced |-> done.replaced[s][1]]]
                        ELSE [grown EXCEPT !.selectors = 0]
  <2>1. CASE compress
    BY <1>1, <1>3, <1>4, <1>5, <2>1 DEF CompressSelectors
  <2>2. CASE ~ compress
    BY <1>1, <1>3, <1>4, <1>5, <2>2 DEF DirectlyConvert
  <2> QED  BY <2>1, <2>2
<1>7. PICK m : m = Len(list)
  OBVIOUS
<1>8. /\ \E limit : FitList(activations, degrees, limit, list)
      /\ Covers(list, 1..n) /\ Short(list)
  <2>1. CASE compress
    <3>1. PICK limit : limit = Degree(sys)
      OBVIOUS
    <3>2. limit \in Nat /\ limit < Prime
      BY <3>1, DegreeBelow
    <3>3. FitList(activations, degrees, limit, list) /\ Covers(list, 1..n) /\ DegreesFit(degrees, n, limit)
      BY <1>1, <1>3, <2>1, <3>1, <3>2, CompressList
    <3>4. ASSUME NEW j \in 1..m PROVE Len(list[j]) < Prime
      <4>1. PICK c : c = list[j]
        OBVIOUS
      <4>2. Fit(activations, degrees, limit, c)
        BY <1>7, <3>3, <4>1 DEF FitList
      <4> QED  BY <3>2, <3>3, <4>1, <4>2, ShortCombinations
    <3> QED  BY <1>7, <3>3, <3>4 DEF Short
  <2>2. CASE ~ compress
    <3>1. PICK limit \in Nat : limit = RequiredDegree(sys)
      BY RequiredStep DEF Wired, PolysSound
    <3>2. list = [s \in DOMAIN activations |-> <<s>>]
      BY <1>3, <2>2
    <3>3. FitList(activations, degrees, limit, list) /\ Covers(list, 1..n) /\ Len(list) = n
      BY ONLY <1>1, <1>2, <3>1, <3>2, Wired(sys), DirectList
    <3>4. ASSUME NEW j \in 1..m PROVE Len(list[j]) < Prime
      <4>1. list[j] = <<j>> /\ Prime > 1
        BY <1>2, <1>7, <3>2, <3>3, <3>4, FieldIsInt
      <4> QED  BY <4>1
    <3> QED  BY <1>7, <3>3, <3>4 DEF Short
  <2> QED  BY <2>1, <2>2
<1>9. PICK limit : FitList(activations, degrees, limit, list)
  BY <1>8
<1>10. columns = host \o done.columns
  BY <1>6
<1>11. /\ IsSystem(grown) /\ grown.advice_counts = sys.advice_counts
       /\ PolysReplaced(sys, grown, done.replaced)
       /\ SelectorsTold(sys, columns, done.replaced, activations, rows)
  <2>1. Combines(sys, activations, limit, list)
    BY <1>1, <1>2, <1>7, <1>8, <1>9 DEF Combines
  <2>2. Follows(sys, columns, done.columns)
    BY <1>10 DEF Follows
  <2> QED  BY ONLY <1>4, <1>5, <2>1, <2>2, Wired(sys), RewriteTells
<1>12. DOMAIN grown = Fields /\ {"gates", "lookups", "advice_counts"} \subseteq Fields
  BY <1>11, SystemFields DEF Fields, EmptySystem
<1>13. PICK more : more = converted.cs
  OBVIOUS
<1>14. /\ more.gates = grown.gates /\ more.lookups = grown.lookups
       /\ more.advice_counts = grown.advice_counts
  BY <1>6, <1>12, <1>13
<1>15. PolysReplaced(sys, more, done.replaced)
  BY <1>11, <1>14 DEF PolysReplaced
<1> QED  BY <1>1, <1>11, <1>13, <1>14, <1>15 DEF SelectorsConverted

(* ------------------------------ while it is synthesized ------------------------- *)

\* The blinding factors are counted.
LEMMA BlindingStep ==
    ASSUME NEW sys, Wired(sys)
    PROVE  BlindingFactors(sys) \in Nat
<1>1. PICK n, g, S : n = Len(sys.advice) /\ g = sys.advice_counts /\ S = {3} \cup {g[i] : i \in 1..n}
  OBVIOUS
<1>2. n \in Nat /\ g \in [1..n -> Nat]
  BY <1>1 DEF Wired, Sized, QueriesSound
<1>3. IsMax(Max(S), S)
  BY ONLY <1>1, <1>2, MaxWith
<1>4. Max(S) \in Nat
  BY <1>1, <1>2, <1>3 DEF IsMax
<1>5. S = {3} \cup ToSet(sys.advice_counts)
  BY <1>1, <1>2 DEF ToSet
<1> QED  BY <1>4, <1>5 DEF BlindingFactors

\* The rows of a key that are active are those synthesis may name.
LEMMA RowsStep ==
    ASSUME NEW b \in Nat, NEW u, u = N - (b + 1)
    PROVE  ActiveRows(b) = 1..u /\ LastRow(b) = u + 1
<1>1. N \in Nat
  BY KeygenAssumption
<1>2. \A r : r \in ActiveRows(b) <=> r \in 1..N /\ r \notin (N - b + 1)..N /\ r # N - b
  BY DEF ActiveRows, BlindRows, LastRow
<1>3. ASSUME NEW r PROVE r \in ActiveRows(b) <=> r \in 1..u
  BY <1>1, <1>2
<1>4. PICK S, T : S = ActiveRows(b) /\ T = 1..u
  OBVIOUS
<1>5. S = T
  <2>1. \A r : r \in S <=> r \in T
    BY <1>3, <1>4
  <2> QED  BY ONLY <2>1
<1>6. LastRow(b) = N - b /\ N - b = u + 1
  BY <1>1 DEF LastRow
<1> QED  BY <1>4, <1>5, <1>6

\* Selectors are enabled on usable rows only; the key holds these active, and its columns
\* are right for every selector.
MeaningInv ==
    /\ stage = "synthesis" \/ Done =>
          /\ usable = N - (BlindingFactors(cs) + 1)
          /\ enabled \in [1..cs.selectors -> SUBSET (1..usable)]
          /\ DOMAIN fixed = 1..cs.fixed
    /\ Done => /\ key.active = 1..usable /\ key.last = usable + 1
               /\ SelectorsConverted(cs, key.cs, key.fixed, enabled)

\* What configuration leaves as it is
LEMMA MeaningConfigured ==
    ASSUME MeaningInv, Configure
    PROVE  MeaningInv'
<1> DEFINE Idle == stage' \in {"configure", "panicked"}
<1>1. ASSUME NEW name, NEW ok \in BOOLEAN, NEW result, Calls(name), Returns(ok, result)
      PROVE  Idle
  BY <1>1 DEF Calls, Returns
<1>2. ASSUME AllocateFixed \/ AllocateInstance \/ AllocateSelector \/ CallEquality \/ CallConstant PROVE Idle
  BY <1>1, <1>2 DEF AllocateFixed, AllocateInstance, AllocateSelector, CallEquality, CallConstant
<1>3. ASSUME AllocateAdvice PROVE Idle
  BY <1>3 DEF AllocateAdvice, Calls, Returns
<1>4. ASSUME AllocateChallenge PROVE Idle
  BY <1>4 DEF AllocateChallenge, Calls, Returns
<1>5. ASSUME CallMinimumDegree \/ CallLookupAny PROVE Idle
  BY <1>1, <1>5 DEF CallMinimumDegree, CallLookupAny
<1>6. ASSUME CallGate PROVE Idle
  BY <1>6 DEF CallGate, Calls, Returns
<1>7. ASSUME CallLookup PROVE Idle
  BY <1>7 DEF CallLookup, Calls, Returns
<1>8. Idle
  BY <1>2, <1>3, <1>4, <1>5, <1>6, <1>7 DEF Configure
<1> QED  BY <1>8 DEF MeaningInv, Done

\* A call of the Assembly enables selectors on usable rows only.
LEMMA MeaningAssembled ==
    ASSUME MeaningInv, NEW row, NEW outside \in {"failed", "panicked"}, NEW selectors,
           NEW cells, NEW values, Assembles(row, outside, selectors, cells, values),
           row <= usable => selectors \in [1..cs.selectors -> SUBSET (1..usable)],
           DOMAIN cells = DOMAIN fixed
    PROVE  MeaningInv'
<1>1. stage = "synthesis" /\ UNCHANGED <<usable, cs>>
  BY DEF Assembles, config
<1>2. CASE row <= usable
  <2>1. stage' = "synthesis" /\ enabled' = selectors /\ fixed' = cells
    BY <1>1, <1>2 DEF Assembles
  <2> QED  BY <1>1, <1>2, <2>1 DEF MeaningInv, Done
<1>3. CASE ~ (row <= usable)
  <2>1. stage' \in {"failed", "panicked"}
    BY <1>3 DEF Assembles
  <2> QED  BY <2>1 DEF MeaningInv, Done
<1> QED  BY <1>2, <1>3

\* Every step keeps it.
LEMMA MeaningStep ==
    ASSUME KeyInv, CellsInv, MeaningInv, [Next]_vars
    PROVE  MeaningInv'
<1>1. CASE Configure
  BY <1>1, MeaningConfigured
<1>2. Wired(cs) /\ SelectorsSound(cs, circuit.simple)
  BY DEF KeyInv, ConfigInv, ConfigOf
<1>3. CASE Begin
  <2>1. UNCHANGED cs /\ stage' \in {"failed", "synthesis"}
    BY <1>3 DEF Begin, config
  <2>2. CASE stage' = "failed"
    BY <2>2 DEF MeaningInv, Done
  <2>3. CASE stage' = "synthesis"
    <3>1. /\ usable' = N - (BlindingFactors(cs) + 1)
          /\ enabled' = [s \in 1..cs.selectors |-> {}]
          /\ fixed' = [c \in 1..cs.fixed |-> [r \in 1..N |-> Trivial(0)]]
      BY <1>3, <2>3 DEF Begin
    <3>2. enabled' \in [1..cs.selectors -> SUBSET (1..usable')] /\ DOMAIN fixed' = 1..cs.fixed
      BY <3>1
    <3> QED  BY <2>1, <2>3, <3>1, <3>2 DEF MeaningInv, Done
  <2> QED  BY <2>1, <2>2, <2>3
<1>4. CASE Compute
  BY <1>4 DEF Compute, config, assembly, MeaningInv, Done
<1>5. ASSUME stage = "synthesis" PROVE /\ enabled \in [1..cs.selectors -> SUBSET (1..usable)]
                                       /\ circuit.rows \subseteq 1..N
                                       /\ usable \in Int
  <2>1. BlindingFactors(cs) \in Nat /\ N \in Nat
    BY <1>2, BlindingStep, KeygenAssumption
  <2> QED  BY <1>5, <2>1, KeygenAssumption DEF MeaningInv, CellsInv
<1>6. ASSUME NEW s \in DOMAIN enabled, NEW row \in circuit.rows, EnableSelector(s, row)
      PROVE  MeaningInv'
  <2>1. PICK selectors : selectors = [enabled EXCEPT ![s] = @ \cup {row}]
    OBVIOUS
  <2>2. Assembles(row, "failed", selectors, fixed, meant)
    BY <1>6, <2>1 DEF EnableSelector
  <2>3. stage = "synthesis"
    BY <2>2 DEF Assembles
  <2>4. ASSUME row <= usable PROVE selectors \in [1..cs.selectors -> SUBSET (1..usable)]
    <3>1. row \in 1..usable
      BY <1>5, <2>3, <2>4
    <3> QED  BY <1>5, <2>1, <2>3, <3>1
  <2> QED  BY <2>2, <2>4, MeaningAssembled
<1>7. ASSUME NEW c, NEW row, AssignFixed(c, row) PROVE MeaningInv'
  <2>1. PICK cells, values : /\ cells = [fixed EXCEPT ![c][row] = cell[1]]
                             /\ values = [meant EXCEPT ![c][row] = cell[2]]
    OBVIOUS
  <2>2. Assembles(row, "panicked", enabled, cells, values)
    BY <1>7, <2>1 DEF AssignFixed
  <2>3. DOMAIN cells = DOMAIN fixed /\ stage = "synthesis"
    BY <2>1, <2>2 DEF Assembles
  <2> QED  BY <1>5, <2>2, <2>3, MeaningAssembled
<1>8. ASSUME NEW c, NEW from, FillFromRow(c, from) PROVE MeaningInv'
  <2>1. PICK cells, values : /\ cells = [fixed EXCEPT ![c] = Filled(@, from, cell[1])]
                             /\ values = [meant EXCEPT ![c] = Filled(@, from, cell[2])]
    OBVIOUS
  <2>2. Assembles(from, "failed", enabled, cells, values)
    BY <1>8, <2>1 DEF FillFromRow
  <2>3. DOMAIN cells = DOMAIN fixed /\ stage = "synthesis"
    BY <2>1, <2>2 DEF Assembles
  <2> QED  BY <1>5, <2>2, <2>3, MeaningAssembled
<1>9. CASE FillUnknown
  BY <1>9 DEF FillUnknown, MeaningInv, Done
<1>10. CASE Synthesize
  BY <1>4, <1>6, <1>7, <1>8, <1>9, <1>10 DEF Synthesize
<1>11. ASSUME NEW compress \in BOOLEAN, Finish(compress) PROVE MeaningInv'
  <2>1. stage = "synthesis" /\ UNCHANGED <<cs, fixed, enabled, usable>>
    BY <1>11 DEF Finish, config, assembly
  <2>2. CASE IF compress THEN CompressPanics(cs) ELSE SimpleInLookup(cs)
    <3>1. stage' = "assertion"
      BY <1>11, <2>2 DEF Finish
    <3> QED  BY <3>1 DEF MeaningInv, Done
  <2>3. CASE ~ (IF compress THEN CompressPanics(cs) ELSE SimpleInLookup(cs))
    <3>1. PICK converted : converted = IF compress THEN CompressSelectors(cs, enabled, 1..N)
                                       ELSE DirectlyConvert(cs, enabled, 1..N)
      OBVIOUS
    <3>2. stage' = "keyed" /\ key' = Key(compress, converted)
      BY <1>11, <2>3, <3>1 DEF Finish
    <3>3. PICK host, columns : host = HostEvaluated(fixed) /\ columns = host \o converted.columns
      OBVIOUS
    <3>4. PICK b : b = BlindingFactors(converted.cs)
      OBVIOUS
    <3>5. /\ key'.cs = converted.cs /\ key'.fixed = columns
          /\ key'.active = ActiveRows(b) /\ key'.last = LastRow(b)
      BY <3>2, <3>3, <3>4 DEF Key
    <3>6. PICK k : k = cs.fixed
      OBVIOUS
    <3>7. k \in Nat /\ DOMAIN fixed = 1..k /\ Matrix(fixed, N)
      BY <1>2, <2>1, <3>6 DEF MeaningInv, CellsInv, Wired, Sized
    <3>8. Len(fixed) = k
      BY <3>7 DEF Matrix
    <3>9. \E V : host \in Seq(V) /\ Len(host) = k
      <4>1. host = [c \in 1..k |-> [r \in 1..N |-> Evaluate(fixed[c][r])]]
        BY <3>3, <3>7, <3>8, HostEvaluatedIs DEF Elements
      <4>2. PICK V : V = {host[c] : c \in 1..k}
        OBVIOUS
      <4>3. host = [c \in 1..k |-> host[c]] /\ \A c \in 1..k : host[c] \in V
        BY <4>1, <4>2
      <4>4. host \in Seq(V) /\ Len(host) = k
        BY ONLY <3>7, <4>3, IsSequence
      <4> QED  BY <4>4
    <3>10. /\ converted.cs.advice_counts = cs.advice_counts
           /\ SelectorsConverted(cs, converted.cs, columns, enabled)
      <4>1. PICK V : host \in Seq(V) /\ Len(host) = k
        BY <3>9
      <4>2. DOMAIN enabled = 1..cs.selectors
        BY <2>1 DEF MeaningInv
      <4> QED  BY <1>2, <2>3, <3>1, <3>3, <3>6, <4>1, <4>2, ConvertedTells
    <3>11. b = BlindingFactors(cs) /\ b \in Nat
      BY <1>2, <3>4, <3>10, BlindingStep DEF BlindingFactors
    <3>12. usable = N - (b + 1)
      BY <2>1, <3>11 DEF MeaningInv
    <3>13. ActiveRows(b) = 1..usable /\ LastRow(b) = usable + 1
      BY ONLY <3>11, <3>12, RowsStep
    <3> QED  BY <2>1, <3>2, <3>5, <3>10, <3>13 DEF MeaningInv, Done
  <2> QED  BY <2>2, <2>3
<1>12. CASE Load
  BY <1>12 DEF Load, config, assembly, MeaningInv, Done
<1>13. CASE UNCHANGED vars
  BY <1>13 DEF vars, config, assembly, MeaningInv, Done
<1> QED  BY <1>1, <1>3, <1>10, <1>11, <1>12, <1>13 DEF Next

(* ------------------------------------ meaning ----------------------------------- *)

\* It holds at the start.
LEMMA MeaningInit ==
    ASSUME Init
    PROVE  MeaningInv
  BY DEF Init, MeaningInv, Done

\* A complex selector guards no gate.
LEMMA ComplexGuardsNone ==
    ASSUME NEW sys, Wired(sys), NEW simple, SelectorsSound(sys, simple),
           NEW s \in 1..sys.selectors, s \notin simple
    PROVE  SelectorDegrees(sys)[s] = 0
<1>1. SUFFICES ASSUME SelectorDegrees(sys)[s] # 0 PROVE FALSE
  OBVIOUS
<1>2. PICK p \in ToSet(GatePolys(sys)) : p.guard = Simple(s)
  <2>1. PICK n, degrees : n = sys.selectors /\ degrees = SelectorDegrees(sys)
    OBVIOUS
  <2>2. s \in 1..n /\ degrees[s] # 0
    BY <1>1, <2>1
  <2>3. \A t \in 1..n : degrees[t] # 0 =>
           \E p \in ToSet(GatePolys(sys)) : p.guard = Simple(t) /\ PolyDegree(p) = degrees[t]
    BY <2>1, SelectorDegreesStep
  <2> QED  BY <2>2, <2>3
<1>3. sys.gates \in Seq(Seq(Polyforms))
  BY DEF Wired, PolysSound
<1>4. PICK g \in 1..Len(sys.gates) : \E i \in 1..Len(sys.gates[g]) : p = sys.gates[g][i]
  BY <1>2, <1>3, GatePolysStep
<1>5. SelectorsApart(simple, p)
  BY <1>4 DEF SelectorsSound
<1>6. p.guard.kind = "simple" /\ p.guard.column = s
  <2>1. PICK none : none = NoGuard
    OBVIOUS
  <2>2. none = [kind |-> "none", column |-> 0, root |-> 0, size |-> 0, index |-> None]
    BY <2>1 DEF NoGuard
  <2>3. p.guard = [none EXCEPT !.kind = "simple", !.column = s]
    BY <1>2, <2>1 DEF Simple
  <2> QED  BY <2>2, <2>3
<1> QED  BY <1>5, <1>6 DEF SelectorsApart

\* A polynomial of the circuit and the key's in its place
SameMeaning(p, q) ==
    /\ p.guard.kind = "simple" =>
         \A r \in 1..N :
           (GuardValue(q.guard, r) # 0) <=> (r \in enabled[p.guard.column] \cap key.active)
    /\ \A t \in DOMAIN p.terms : \A j \in DOMAIN p.terms[t] :
         ~ IsCell(p.terms[t][j]) =>
         \A r \in 1..N : key.fixed[q.terms[t][j].column][r]
             = IF r \in enabled[p.terms[t][j].column] \cap key.active THEN 1 ELSE 0

\* Rewriting one with the key's replacements
LEMMA MeaningOfPoly ==
    ASSUME KeyInv, MeaningInv, Done, NEW replaced,
           SelectorsTold(cs, key.fixed, replaced, enabled, 1..N),
           NEW p, Indexed(cs, p), SelectorsApart(circuit.simple, p),
           NEW q, q = ReplacePoly(p, replaced)
    PROVE  SameMeaning(p, q)
<1>1. Wired(cs) /\ SelectorsSound(cs, circuit.simple)
  BY DEF KeyInv, ConfigInv, ConfigOf
<1>2. key.active = 1..usable /\ enabled \in [1..cs.selectors -> SUBSET (1..usable)]
  BY DEF MeaningInv
<1>3. ASSUME NEW s \in 1..cs.selectors, NEW r
      PROVE  r \in enabled[s] \cap key.active <=> r \in enabled[s]
  BY <1>2
<1>4. ASSUME p.guard.kind = "simple", NEW r \in 1..N
      PROVE  (GuardValue(q.guard, r) # 0) <=> (r \in enabled[p.guard.column] \cap key.active)
  <2>1. PICK s, rep : s = p.guard.column /\ rep = replaced[s]
    OBVIOUS
  <2>2. s \in 1..cs.selectors
    BY <1>4, <2>1 DEF Indexed, GuardSound
  <2>3. q.guard = [kind |-> "column", column |-> rep[1], root |-> rep[2], size |-> rep[3],
                   index |-> rep[4]]
    BY <1>4, <2>1 DEF ReplacePoly, ContainsSimple
  <2>4. PICK guard, root, size, v : /\ guard = q.guard /\ root = rep[2] /\ size = rep[3]
                                    /\ v = key.fixed[rep[1]][r]
    OBVIOUS
  <2>5. Tells(key.fixed, rep, enabled[s], r)
    BY <1>4, <2>1, <2>2 DEF SelectorsTold
  <2>6. /\ size \in Nat /\ size < Prime /\ root \in 1..size /\ v \in 0..size
        /\ v = root <=> r \in enabled[s]
    BY <2>4, <2>5 DEF Tells
  <2>7. guard.size = size /\ guard.root = root /\ key.fixed[guard.column][r] = v
    BY <2>3, <2>4
  <2>8. GuardValue(guard, r) # 0 <=> v = root
    BY ONLY <2>6, <2>7, GuardValueIs
  <2> QED  BY <1>3, <2>1, <2>2, <2>4, <2>6, <2>8
<1>5. DOMAIN p.terms = 1..Len(p.terms) /\ \A t \in 1..Len(p.terms) : DOMAIN p.terms[t] = 1..Len(p.terms[t])
  BY DEF Indexed, Polyforms
<1>6. ASSUME NEW t \in DOMAIN p.terms, NEW j \in DOMAIN p.terms[t], ~ IsCell(p.terms[t][j]),
             NEW r \in 1..N
      PROVE  key.fixed[q.terms[t][j].column][r]
               = IF r \in enabled[p.terms[t][j].column] \cap key.active THEN 1 ELSE 0
  <2>1. PICK f, s, rep : f = p.terms[t][j] /\ s = f.column /\ rep = replaced[s]
    OBVIOUS
  <2>2. s \in 1..cs.selectors
    BY <1>5, <1>6, <2>1 DEF Indexed, FactorSound
  <2>3. s \notin circuit.simple
    <3>1. p.terms[t] \in ToSet(p.terms) /\ f \in ToSet(p.terms[t])
      BY <1>6, <2>1 DEF ToSet
    <3> QED  BY <1>6, <2>1, <3>1 DEF SelectorsApart
  <2>4. SelectorDegrees(cs)[s] = 0
    BY <1>1, <2>2, <2>3, ComplexGuardsNone
  <2>5. rep[3] = 1 /\ Tells(key.fixed, rep, enabled[s], r)
    BY <1>6, <2>1, <2>2, <2>4 DEF SelectorsTold
  <2>6. PICK v : v = key.fixed[rep[1]][r]
    OBVIOUS
  <2>7. v = IF r \in enabled[s] THEN 1 ELSE 0
    BY <2>5, <2>6 DEF Tells
  <2>8. q.terms[t][j] = ReplaceFactor(f, replaced)
    BY <1>6, <2>1 DEF ReplacePoly
  <2>9. q.terms[t][j].column = rep[1]
    BY <1>6, <2>1, <2>8 DEF ReplaceFactor
  <2> QED  BY <1>3, <2>1, <2>2, <2>6, <2>7, <2>9
<1> QED  BY <1>4, <1>6 DEF SameMeaning

\* All of them
LEMMA MeaningOfKey ==
    ASSUME KeyInv, MeaningInv
    PROVE  SelectorsKeepMeaning
<1>1. SUFFICES ASSUME Done PROVE SelectorsKeepMeaning
  BY DEF SelectorsKeepMeaning
<1>2. Wired(cs) /\ SelectorsSound(cs, circuit.simple) /\ KeyWired(key.cs)
  BY <1>1 DEF KeyInv, ConfigInv, ConfigOf, KeyFrom
<1>3. PICK replaced : /\ PolysReplaced(cs, key.cs, replaced)
                      /\ SelectorsTold(cs, key.fixed, replaced, enabled, 1..N)
  BY <1>1 DEF MeaningInv, SelectorsConverted
<1>4. PICK G : G = {p \in Polyforms : Indexed(cs, p) /\ SelectorsApart(circuit.simple, p)}
  OBVIOUS
<1>5. PICK R : R = {<<p, ReplacePoly(p, replaced)>> : p \in G}
  OBVIOUS
<1>6. \A p : Indexed(cs, p) /\ SelectorsApart(circuit.simple, p) => <<p, ReplacePoly(p, replaced)>> \in R
  BY <1>4, <1>5 DEF Indexed
<1>7. /\ \A g \in 1..Len(cs.gates) : \A i \in 1..Len(cs.gates[g]) :
            <<cs.gates[g][i], ReplacePoly(cs.gates[g][i], replaced)>> \in R
      /\ \A l \in 1..Len(cs.lookups) : \A i \in 1..Len(cs.lookups[l]) :
            /\ <<cs.lookups[l][i][1], ReplacePoly(cs.lookups[l][i][1], replaced)>> \in R
            /\ <<cs.lookups[l][i][2], ReplacePoly(cs.lookups[l][i][2], replaced)>> \in R
  BY <1>2, <1>6 DEF Wired, PolysSound, SelectorsSound
<1>8. /\ cs.gates \in Seq(Seq(Polyforms)) /\ key.cs.gates \in Seq(Seq(Polyforms))
      /\ cs.lookups \in Seq(Seq(Polyforms \X Polyforms))
      /\ key.cs.lookups \in Seq(Seq(Polyforms \X Polyforms))
  BY <1>2 DEF Wired, PolysSound, KeyWired, PolysFinal
<1>9. Polys(cs) \in Seq(Polyforms) /\ Matches(Polys(cs), Polys(key.cs), R)
  <2>1. PICK sys, grown, P : sys = cs /\ grown = key.cs /\ P = Polyforms
    OBVIOUS
  <2>2. Polys(sys) \in Seq(P) /\ Matches(Polys(sys), Polys(grown), R)
    BY <1>3, <1>7, <1>8, <2>1, PolysMatch
  <2> QED  BY <2>1, <2>2
<1>10. ASSUME NEW i \in DOMAIN Polys(cs) PROVE SameMeaning(Polys(cs)[i], Polys(key.cs)[i])
  <2>1. PICK p, q : p = Polys(cs)[i] /\ q = Polys(key.cs)[i]
    OBVIOUS
  <2>2. i \in 1..Len(Polys(cs))
    BY <1>9, <1>10
  <2>3. <<p, q>> \in R
    BY <1>9, <2>1, <2>2 DEF Matches
  <2>4. p \in G /\ q = ReplacePoly(p, replaced)
    BY <1>5, <2>3
  <2>5. Indexed(cs, p) /\ SelectorsApart(circuit.simple, p)
    BY <1>4, <2>4
  <2> QED  BY <1>1, <1>3, <2>1, <2>4, <2>5, MeaningOfPoly
<1>11. key.active = 1..usable /\ key.last = usable + 1
  BY <1>1 DEF MeaningInv
<1> QED  BY <1>10, <1>11 DEF SelectorsKeepMeaning, SameMeaning

\* However the selectors of a circuit became fixed columns, alone or several to a column,
\* each gate of the key is guarded on exactly the rows its selector was enabled on, and
\* these are active rows of the key; a complex selector is one there and zero elsewhere.
THEOREM SelectorsMeanTheSame == Spec => []SelectorsKeepMeaning
<1>1. Init => KeyInv /\ CellsInv /\ MeaningInv
  BY KeyInit, CellsInit, MeaningInit
<1>2. KeyInv /\ CellsInv /\ MeaningInv /\ [Next]_vars => KeyInv' /\ CellsInv' /\ MeaningInv'
  BY KeyStep, CellsStep, MeaningStep
<1>3. KeyInv /\ MeaningInv => SelectorsKeepMeaning
  BY MeaningOfKey
<1> QED  BY <1>1, <1>2, <1>3, PTL DEF Spec

==============================================================================
