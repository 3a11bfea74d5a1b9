------------------------ MODULE VanishingArgumentProofs ------------------------
(* Proofs about EvaluationDomain and VanishingArgument, for every prime field     *)
(* with the roots of unity the domain needs, every size of the domain and of its  *)
(* extension, and every way a transform may be split.                             *)
EXTENDS VanishingArgument, DataInduction, FiniteSetTheorems

(* ---------------------------------- the field ------------------------------- *)

\* The order of the field, and its elements.
LEMMA ScalarsAre ==
    /\ Prime \in Nat /\ Prime > 2 /\ 0 \in Scalars /\ 1 \in Scalars /\ 2 \in Scalars
    /\ \A a : a \in Scalars <=> a \in Int /\ 0 <= a /\ a < Prime
  BY FieldAssumption DEF Scalars

\* A positive multiple of a number is no smaller.
LEMMA MultipleAtLeast ==
    ASSUME NEW p \in Nat, NEW k \in Int, k >= 1
    PROVE  p * k >= p
  OBVIOUS

\* Division with a remainder,
LEMMA Division ==
    ASSUME NEW p \in Nat, p > 0, NEW a \in Int
    PROVE  /\ a % p \in 0..(p - 1) /\ a \div p \in Int
           /\ a = (p * (a \div p)) + (a % p)
  OBVIOUS

\* which is unique.
LEMMA DivisionUnique ==
    ASSUME NEW p \in Nat, p > 0, NEW a \in Int, NEW k \in Int, NEW r \in 0..(p - 1),
           a = (p * k) + r
    PROVE  a % p = r /\ a \div p = k
<1>1. PICK q, s : q = a \div p /\ s = a % p
  OBVIOUS
<1>2. q \in Int /\ s \in Int /\ 0 <= s /\ s < p /\ a = (p * q) + s
  BY <1>1, Division
<1>3. r \in Int /\ 0 <= r /\ r < p
  OBVIOUS
<1>4. p * (q - k) = r - s
  BY <1>2, <1>3
<1>5. ~ (q - k >= 1)
  <2>1. SUFFICES ASSUME q - k >= 1 PROVE FALSE
    OBVIOUS
  <2>2. p * (q - k) >= p
    BY <1>2, <2>1, MultipleAtLeast
  <2> QED  BY <1>2, <1>3, <1>4, <2>2
<1>6. ~ (k - q >= 1)
  <2>1. SUFFICES ASSUME k - q >= 1 PROVE FALSE
    OBVIOUS
  <2>2. p * (k - q) >= p
    BY <1>2, <2>1, MultipleAtLeast
  <2>3. p * (k - q) = s - r
    BY <1>2, <1>3
  <2> QED  BY <1>2, <1>3, <2>2, <2>3
<1>7. q = k
  BY <1>2, <1>5, <1>6
<1> QED  BY <1>1, <1>2, <1>3, <1>7

\* A summand or a factor may be reduced first.
LEMMA ReducedFirst ==
    ASSUME NEW p \in Nat, p > 0, NEW a \in Int, NEW b \in Int
    PROVE  /\ ((a % p) + b) % p = (a + b) % p /\ (b + (a % p)) % p = (a + b) % p
           /\ ((a % p) * b) % p = (a * b) % p /\ (b * (a % p)) % p = (a * b) % p
<1>1. PICK r, k : r = a % p /\ k = a \div p
  OBVIOUS
<1>2. r \in Int /\ k \in Int /\ a = (p * k) + r
  BY <1>1, Division
<1>3. (r + b) % p = (a + b) % p
  <2>1. PICK s, j : s = (r + b) % p /\ j = (r + b) \div p
    OBVIOUS
  <2>2. r + b \in Int
    BY <1>2
  <2>3. s \in 0..(p - 1) /\ j \in Int /\ r + b = (p * j) + s
    BY <2>1, <2>2, Division
  <2>4. k + j \in Int /\ a + b \in Int /\ a + b = (p * (k + j)) + s
    BY <1>2, <2>3
  <2>5. (a + b) % p = s
    BY <2>3, <2>4, DivisionUnique
  <2> QED  BY <2>1, <2>5
<1>4. (r * b) % p = (a * b) % p
  <2>1. PICK s, j : s = (r * b) % p /\ j = (r * b) \div p
    OBVIOUS
  <2>2. r * b \in Int
    BY <1>2
  <2>3. s \in 0..(p - 1) /\ j \in Int /\ r * b = (p * j) + s
    BY <2>1, <2>2, Division
  <2>4. (k * b) + j \in Int /\ a * b \in Int
    BY <1>2, <2>3
  <2>5. a * b = (p * (k * b)) + (r * b)
    BY <1>2
  <2>6. a * b = (p * ((k * b) + j)) + s
    BY ONLY <1>2, <2>3, <2>5, p \in Nat, b \in Int, a \in Int
  <2>7. (a * b) % p = s
    BY <2>3, <2>4, <2>6, DivisionUnique
  <2> QED  BY <2>1, <2>7
<1>5. b + r = r + b /\ b * r = r * b
  BY <1>2
<1> QED  BY ONLY <1>1, <1>3, <1>4, <1>5

\* The field is closed under its operations.
LEMMA Closed ==
    /\ 0 \in Scalars /\ 1 \in Scalars /\ 0 # 1
    /\ \A a, b \in Scalars : Plus(a, b) \in Scalars /\ Times(a, b) \in Scalars /\ Minus(a, b) \in Scalars
<1>1. ASSUME NEW a \in Int PROVE a % Prime \in Scalars
  BY Division, ScalarsAre DEF Scalars
<1>2. ASSUME NEW a \in Scalars, NEW b \in Scalars
      PROVE  Plus(a, b) \in Scalars /\ Times(a, b) \in Scalars /\ Minus(a, b) \in Scalars
  <2>1. PICK x, y, z : x = a + b /\ y = a * b /\ z = a + Prime - b
    OBVIOUS
  <2>2. x \in Int /\ y \in Int /\ z \in Int
    BY <2>1, ScalarsAre
  <2>3. x % Prime \in Scalars /\ y % Prime \in Scalars /\ z % Prime \in Scalars
    BY <1>1, <2>2
  <2> QED  BY ONLY <2>1, <2>3 DEF Plus, Times, Minus
<1> QED  BY <1>2, ScalarsAre

\* Its laws, one by one.
LEMMA Laws ==
    /\ \A a, b \in Scalars : Plus(a, b) = Plus(b, a) /\ Times(a, b) = Times(b, a)
    /\ \A a, b, c \in Scalars : Plus(Plus(a, b), c) = Plus(a, Plus(b, c))
    /\ \A a, b, c \in Scalars : Times(Times(a, b), c) = Times(a, Times(b, c))
    /\ \A a, b, c \in Scalars : Times(a, Plus(b, c)) = Plus(Times(a, b), Times(a, c))
    /\ \A a \in Scalars : Plus(a, 0) = a /\ Plus(0, a) = a
    /\ \A a \in Scalars : Times(a, 1) = a /\ Times(1, a) = a
    /\ \A a, b \in Scalars : Plus(b, Minus(a, b)) = a
<1>1. PICK p : p = Prime /\ p \in Nat /\ p > 2 /\ p > 0
  BY ScalarsAre
<1>2. \A a \in Scalars : a \in Int /\ 0 <= a /\ a < p
  BY <1>1, ScalarsAre
<1>3. \A a \in Scalars : a % p = a
  <2>1. ASSUME NEW a \in Scalars PROVE a % p = a
    <3>1. a \in 0..(p - 1) /\ a = (p * 0) + a /\ a \in Int
      BY <1>1, <1>2
    <3> QED  BY <1>1, <3>1, DivisionUnique
  <2> QED  BY <2>1
<1>4. \A a, b \in Scalars : Plus(a, b) = Plus(b, a) /\ Times(a, b) = Times(b, a)
  <2>1. \A a, b \in Scalars : a + b = b + a /\ a * b = b * a
    BY <1>2
  <2> QED  BY <2>1 DEF Plus, Times
<1>5. ASSUME NEW a \in Scalars, NEW b \in Scalars, NEW c \in Scalars
      PROVE  /\ Plus(Plus(a, b), c) = Plus(a, Plus(b, c))
             /\ Times(Times(a, b), c) = Times(a, Times(b, c))
             /\ Times(a, Plus(b, c)) = Plus(Times(a, b), Times(a, c))
  <2>1. a \in Int /\ b \in Int /\ c \in Int
    BY <1>2
  <2>2. PICK u, v, x, y, z : u = a + b /\ v = b + c /\ x = a * b /\ y = b * c /\ z = a * c
    OBVIOUS
  <2>3. u \in Int /\ v \in Int /\ x \in Int /\ y \in Int /\ z \in Int /\ z % p \in Int
    BY <1>1, <2>1, <2>2, Division
  <2>4. ((u % p) + c) % p = (u + c) % p /\ (a + (v % p)) % p = (v + a) % p
    BY ONLY <1>1, <2>1, <2>3, ReducedFirst
  <2>5. ((x % p) * c) % p = (x * c) % p /\ (a * (y % p)) % p = (y * a) % p
    BY ONLY <1>1, <2>1, <2>3, ReducedFirst
  <2>6. (a * (v % p)) % p = (v * a) % p
    BY ONLY <1>1, <2>1, <2>3, ReducedFirst
  <2>7. ((x % p) + (z % p)) % p = (x + (z % p)) % p /\ (x + (z % p)) % p = (z + x) % p
    BY ONLY <1>1, <2>1, <2>3, ReducedFirst
  <2>8. u + c = v + a /\ v * a = z + x /\ x * c = y * a
    BY ONLY <2>1, <2>2
  <2>9. Plus(Plus(a, b), c) = Plus(a, Plus(b, c))
    BY ONLY <1>1, <2>2, <2>4, <2>8 DEF Plus
  <2>10. Times(Times(a, b), c) = Times(a, Times(b, c))
    BY ONLY <1>1, <2>2, <2>5, <2>8 DEF Times
  <2>11. Times(a, Plus(b, c)) = Plus(Times(a, b), Times(a, c))
    BY ONLY <1>1, <2>2, <2>6, <2>7, <2>8 DEF Plus, Times
  <2> QED  BY <2>9, <2>10, <2>11
<1>6. ASSUME NEW a \in Scalars
      PROVE  /\ Plus(a, 0) = a /\ Plus(0, a) = a /\ Times(a, 1) = a /\ Times(1, a) = a
  <2>1. a + 0 = a /\ 0 + a = a /\ a * 1 = a /\ 1 * a = a /\ a % p = a
    BY <1>2, <1>3
  <2> QED  BY ONLY <1>1, <2>1 DEF Plus, Times
<1>7. ASSUME NEW a \in Scalars, NEW b \in Scalars
      PROVE  Plus(b, Minus(a, b)) = a
  <2>1. a \in Int /\ b \in Int /\ a + p - b \in Int /\ a \in 0..(p - 1)
    BY <1>1, <1>2
  <2>2. (b + ((a + p - b) % p)) % p = ((a + p - b) + b) % p
    BY <1>1, <2>1, ReducedFirst
  <2>3. (a + p - b) + b = (p * 1) + a /\ (p * 1) + a \in Int
    BY <1>1, <2>1
  <2>4. ((p * 1) + a) % p = a
    BY <1>1, <2>1, <2>3, DivisionUnique
  <2> QED  BY ONLY <1>1, <2>2, <2>3, <2>4 DEF Plus, Minus
<1> QED  BY <1>4, <1>5, <1>6, <1>7

\* A summand, or a factor, moved to the front.
LEMMA Swap ==
    ASSUME NEW a \in Scalars, NEW b \in Scalars, NEW c \in Scalars
    PROVE  /\ Plus(a, Plus(b, c)) = Plus(b, Plus(a, c))
           /\ Times(a, Times(b, c)) = Times(b, Times(a, c))
<1>1. Plus(Plus(a, b), c) = Plus(a, Plus(b, c)) /\ Plus(Plus(b, a), c) = Plus(b, Plus(a, c))
  BY Laws
<1>2. Times(Times(a, b), c) = Times(a, Times(b, c)) /\ Times(Times(b, a), c) = Times(b, Times(a, c))
  BY Laws
<1>3. Plus(a, b) = Plus(b, a) /\ Times(a, b) = Times(b, a)
  BY Laws
<1> QED  BY ONLY <1>1, <1>2, <1>3

\* The summands of two sums paired anew.
LEMMA Exchange ==
    ASSUME NEW a \in Scalars, NEW b \in Scalars, NEW c \in Scalars, NEW d \in Scalars
    PROVE  Plus(Plus(a, b), Plus(c, d)) = Plus(Plus(a, c), Plus(b, d))
<1>1. Plus(b, d) \in Scalars /\ Plus(c, d) \in Scalars
  BY Closed
<1>2. Plus(Plus(a, b), Plus(c, d)) = Plus(a, Plus(b, Plus(c, d)))
  BY <1>1, Laws
<1>3. Plus(Plus(a, c), Plus(b, d)) = Plus(a, Plus(c, Plus(b, d)))
  BY <1>1, Laws
<1>4. Plus(b, Plus(c, d)) = Plus(c, Plus(b, d))
  BY Swap
<1> QED  BY ONLY <1>2, <1>3, <1>4

\* Summands cancel.
LEMMA CancelPlus ==
    ASSUME NEW a \in Scalars, NEW b \in Scalars, NEW c \in Scalars, Plus(a, b) = Plus(a, c)
    PROVE  b = c
<1>1. PICK d : d = Minus(0, a)
  OBVIOUS
<1>2. d \in Scalars /\ Plus(a, d) = 0
  BY <1>1, Closed, Laws
<1>3. Plus(d, Plus(a, b)) = Plus(Plus(d, a), b)
  BY <1>2, Laws
<1>4. Plus(d, Plus(a, c)) = Plus(Plus(d, a), c)
  BY <1>2, Laws
<1>5. Plus(d, a) = 0
  BY <1>2, Laws
<1>6. Plus(0, b) = b /\ Plus(0, c) = c
  BY Laws
<1> QED  BY ONLY <1>3, <1>4, <1>5, <1>6, Plus(a, b) = Plus(a, c)

\* A difference is what makes up for it.
LEMMA MinusIs ==
    ASSUME NEW a \in Scalars, NEW b \in Scalars
    PROVE  /\ Minus(a, b) \in Scalars /\ Plus(b, Minus(a, b)) = a
           /\ \A c \in Scalars : Plus(b, c) = a => Minus(a, b) = c
<1>1. Minus(a, b) \in Scalars /\ Plus(b, Minus(a, b)) = a
  BY Closed, Laws
<1>2. ASSUME NEW c \in Scalars, Plus(b, c) = a PROVE Minus(a, b) = c
  BY <1>1, <1>2, CancelPlus
<1> QED  BY <1>1, <1>2

\* 0 as a factor.
LEMMA TimesZero ==
    ASSUME NEW a \in Scalars
    PROVE  Times(a, 0) = 0 /\ Times(0, a) = 0
<1>1. 0 \in Scalars /\ Times(a, 0) \in Scalars
  BY Closed
<1>2. Plus(0, 0) = 0 /\ Plus(Times(a, 0), 0) = Times(a, 0)
  BY <1>1, Laws
<1>3. Times(a, Plus(0, 0)) = Plus(Times(a, 0), Times(a, 0))
  BY <1>1, Laws
<1>4. Plus(Times(a, 0), Times(a, 0)) = Plus(Times(a, 0), 0)
  BY ONLY <1>2, <1>3
<1>5. Times(a, 0) = 0
  BY ONLY <1>1, <1>4, CancelPlus
<1>6. Times(0, a) = Times(a, 0)
  BY <1>1, Laws
<1> QED  BY <1>5, <1>6

\* A product distributes over a difference.
LEMMA TimesMinus ==
    ASSUME NEW a \in Scalars, NEW b \in Scalars, NEW c \in Scalars
    PROVE  Times(c, Minus(a, b)) = Minus(Times(c, a), Times(c, b))
<1>1. Minus(a, b) \in Scalars /\ Plus(b, Minus(a, b)) = a
  BY MinusIs
<1>2. Times(c, Plus(b, Minus(a, b))) = Plus(Times(c, b), Times(c, Minus(a, b)))
  BY <1>1, Laws
<1>3. /\ Times(c, a) \in Scalars /\ Times(c, b) \in Scalars /\ Times(c, Minus(a, b)) \in Scalars
  BY <1>1, Closed
<1>4. Plus(Times(c, b), Times(c, Minus(a, b))) = Times(c, a)
  BY ONLY <1>1, <1>2
<1> QED  BY <1>3, <1>4, MinusIs

\* Nothing is left of a difference from itself, and only then.
LEMMA MinusZero ==
    ASSUME NEW a \in Scalars, NEW b \in Scalars
    PROVE  (Minus(a, b) = 0 <=> a = b) /\ Minus(a, 0) = a
<1>1. Minus(a, b) \in Scalars /\ Plus(b, Minus(a, b)) = a /\ Plus(b, 0) = b /\ 0 \in Scalars
  BY MinusIs, Laws, Closed
<1>2. Plus(b, 0) = a => Minus(a, b) = 0
  BY <1>1, MinusIs
<1>3. Plus(0, a) = a /\ (Plus(0, a) = a => Minus(a, 0) = a)
  BY <1>1, MinusIs, Laws
<1> QED  BY <1>1, <1>2, <1>3

(* -------------------------------- the powers -------------------------------- *)

\* The powers of a up to the m-th, one from the other.
IsPowers(f, a, m) ==
    /\ f \in [0..m -> Scalars] /\ f[0] = 1
    /\ \A i \in 0..(m - 1) : f[i + 1] = Times(f[i], a)

LEMMA PowersExist ==
    ASSUME NEW a \in Scalars, NEW m \in Nat
    PROVE  \E f : IsPowers(f, a, m)
<1>1. PICK step : step = [p \in Nat \X Scalars |-> Times(p[2], a)]
  OBVIOUS
<1>2. \A i \in Nat, x \in Scalars : step[<<i, x>>] = Times(x, a)
  BY <1>1
<1>3. step \in [Nat \X Scalars -> Scalars]
  BY <1>1, Closed
<1>4. PICK f : IsRun(f, Scalars, 1, step, m)
  BY <1>3, RunExists, Closed
<1>5. /\ f \in [0..m -> Scalars] /\ f[0] = 1
      /\ \A i \in 0..(m - 1) : f[i + 1] = step[<<i, f[i]>>]
  BY <1>4 DEF IsRun
<1>6. \A i \in 0..(m - 1) : i \in Nat /\ f[i] \in Scalars
  <2>1. \A i \in 0..(m - 1) : i \in Nat /\ i \in 0..m
    OBVIOUS
  <2> QED  BY <1>5, <2>1
<1>7. \A i \in 0..(m - 1) : f[i + 1] = Times(f[i], a)
  BY <1>2, <1>5, <1>6
<1> QED  BY <1>5, <1>7 DEF IsPowers

\* Their product is the power of the sum.
LEMMA PowersAdd ==
    ASSUME NEW a \in Scalars, NEW m \in Nat, NEW f, IsPowers(f, a, m),
           NEW i \in Nat, NEW j \in Nat, i + j <= m
    PROVE  f[i + j] = Times(f[i], f[j])
<1> DEFINE S == {k \in 0..j : f[i + k] = Times(f[i], f[k])}
<1>1. /\ f[0] = 1 /\ \A k \in 0..m : f[k] \in Scalars
      /\ \A k \in 0..(m - 1) : f[k + 1] = Times(f[k], a)
  BY DEF IsPowers
<1>2. i \in 0..m
  OBVIOUS
<1>3. 0 \in S
  <2>1. i + 0 = i /\ 0 \in 0..j
    OBVIOUS
  <2>2. Times(f[i], 1) = f[i]
    BY <1>1, <1>2, Laws
  <2> QED  BY <1>1, <2>1, <2>2
<1>4. ASSUME NEW k \in 0..(j - 1), k \in S PROVE k + 1 \in S
  <2>1. /\ k \in 0..(m - 1) /\ k \in 0..m /\ i + k \in 0..(m - 1) /\ i + (k + 1) = (i + k) + 1
        /\ k + 1 \in 0..j
    OBVIOUS
  <2>2. f[i + k] = Times(f[i], f[k])
    BY <1>4
  <2>3. f[(i + k) + 1] = Times(f[i + k], a) /\ f[k + 1] = Times(f[k], a)
    BY <1>1, <2>1
  <2>4. f[i] \in Scalars /\ f[k] \in Scalars
    BY <1>1, <1>2, <2>1
  <2>5. Times(Times(f[i], f[k]), a) = Times(f[i], Times(f[k], a))
    BY <2>4, Laws
  <2>6. f[i + (k + 1)] = Times(f[i], f[k + 1])
    BY ONLY <2>1, <2>2, <2>3, <2>5
  <2> QED  BY <2>1, <2>6
<1> HIDE DEF S
<1>5. 0..j \subseteq S
  BY <1>3, <1>4, BoundedInduction
<1>6. j \in S
  BY <1>5
<1> QED  BY <1>6 DEF S

\* What the squarings compute.
LEMMA PowerRun ==
    ASSUME NEW a \in Scalars, NEW k \in Nat, NEW f, IsPowers(f, a, k)
    PROVE  Power(a, k) = f[k]
<1> DEFINE IsSquared(g) == g = [i \in 0..k |-> IF i = 0 THEN 1
                                ELSE IF i % 2 = 1 THEN Times(g[i - 1], a)
                                ELSE LET half == g[i \div 2] IN Times(half, half)]
           power == CHOOSE g : IsSquared(g)
<1>1. /\ f \in [0..k -> Scalars] /\ f[0] = 1 /\ \A i \in 0..k : f[i] \in Scalars
      /\ \A i \in 0..(k - 1) : f[i + 1] = Times(f[i], a)
  BY DEF IsPowers
<1>2. \A i \in 0..k : i # 0 => i - 1 \in 0..(k - 1) /\ (i - 1) + 1 = i /\ i - 1 \in 0..k /\ i - 1 < i
  OBVIOUS
<1>3. ASSUME NEW i \in 0..k, i # 0, i % 2 # 1
      PROVE  i \div 2 \in 0..k /\ i \div 2 < i /\ (i \div 2) + (i \div 2) = i
  <2>1. i \in Nat
    OBVIOUS
  <2>2. i % 2 \in 0..1 /\ i \div 2 \in Int /\ i = (2 * (i \div 2)) + (i % 2)
    BY <2>1, Division
  <2>3. i = 2 * (i \div 2)
    BY <1>3, <2>2
  <2> QED  BY <1>3, <2>1, <2>2, <2>3
<1>4. \A i \in 0..k : f[i] = IF i = 0 THEN 1 ELSE IF i % 2 = 1 THEN Times(f[i - 1], a)
                             ELSE Times(f[i \div 2], f[i \div 2])
  <2>1. SUFFICES ASSUME NEW i \in 0..k, i # 0
                 PROVE  f[i] = IF i % 2 = 1 THEN Times(f[i - 1], a)
                               ELSE Times(f[i \div 2], f[i \div 2])
    BY <1>1
  <2>2. f[i] = Times(f[i - 1], a)
    BY <1>1, <1>2, <2>1
  <2>3. ASSUME i % 2 # 1 PROVE f[i] = Times(f[i \div 2], f[i \div 2])
    <3>1. PICK q : q = i \div 2
      OBVIOUS
    <3>2. q \in 0..k /\ q + q = i
      BY <1>3, <2>1, <2>3, <3>1
    <3>3. q \in Nat /\ q + q <= k
      BY <3>2
    <3>4. f[q + q] = Times(f[q], f[q])
      BY <3>3, PowersAdd
    <3> QED  BY ONLY <3>1, <3>2, <3>4
  <2> QED  BY <2>2, <2>3
<1>5. IsSquared(f)
  BY <1>1, <1>4
<1>6. IsSquared(power)
  BY <1>5
<1>7. Power(a, k) = power[k]
  BY DEF Power
<1> HIDE DEF power
<1>8. \A i \in 0..k : power[i] = IF i = 0 THEN 1 ELSE IF i % 2 = 1 THEN Times(power[i - 1], a)
                                 ELSE Times(power[i \div 2], power[i \div 2])
  BY <1>6
<1> DEFINE S == {i \in 0..k : \A j \in 0..i : power[j] = f[j]}
<1>9. 0 \in S
  <2>1. \A j \in 0..0 : j = 0 /\ 0 \in 0..k
    OBVIOUS
  <2> QED  BY <1>1, <1>8, <2>1
<1>10. ASSUME NEW i \in 0..(k - 1), i \in S PROVE i + 1 \in S
  <2>1. i + 1 \in 0..k /\ i + 1 # 0 /\ i \in Nat
    OBVIOUS
  <2>2. \A j \in 0..i : power[j] = f[j]
    BY <1>10
  <2>3. power[i + 1] = f[i + 1]
    <3>1. PICK e : e = i + 1
      OBVIOUS
    <3>2. e \in 0..k /\ e # 0
      BY <2>1, <3>1
    <3>3. e - 1 \in 0..i
      BY <3>1
    <3>4. e % 2 # 1 => e \div 2 \in 0..i
      <4>1. SUFFICES ASSUME e % 2 # 1 PROVE e \div 2 \in 0..i
        OBVIOUS
      <4>2. e \div 2 \in 0..k /\ e \div 2 < e
        BY <1>3, <3>2, <4>1
      <4> QED  BY <3>1, <4>2
    <3>5. power[e - 1] = f[e - 1] /\ (e % 2 # 1 => power[e \div 2] = f[e \div 2])
      BY <2>2, <3>3, <3>4
    <3>6. power[e] = IF e % 2 = 1 THEN Times(power[e - 1], a) ELSE Times(power[e \div 2], power[e \div 2])
      BY <1>8, <3>2
    <3>7. f[e] = IF e % 2 = 1 THEN Times(f[e - 1], a) ELSE Times(f[e \div 2], f[e \div 2])
      BY <1>4, <3>2
    <3>8. power[e] = f[e]
      BY ONLY <3>5, <3>6, <3>7
    <3> QED  BY <3>1, <3>8
  <2>4. \A j \in 0..(i + 1) : j \in 0..i \/ j = i + 1
    OBVIOUS
  <2> QED  BY <2>1, <2>2, <2>3, <2>4
<1> HIDE DEF S
<1>11. 0..k \subseteq S
  BY <1>9, <1>10, BoundedInduction
<1>12. k \in S /\ k \in 0..k
  BY <1>11
<1> QED  BY <1>7, <1>12 DEF S

\* Any of them is the one computed.
LEMMA PowerUpTo ==
    ASSUME NEW a \in Scalars, NEW m \in Nat, NEW f, IsPowers(f, a, m), NEW k \in 0..m
    PROVE  Power(a, k) = f[k]
<1>1. PICK g : g = [i \in 0..k |-> f[i]]
  OBVIOUS
<1>2. \A i \in 0..k : i \in 0..m /\ g[i] = f[i]
  BY <1>1
<1>3. \A i \in 0..(k - 1) : i \in 0..(m - 1) /\ i \in 0..k /\ i + 1 \in 0..k
  OBVIOUS
<1>4. IsPowers(g, a, k)
  <2>1. g \in [0..k -> Scalars]
    BY <1>1, <1>2 DEF IsPowers
  <2>2. g[0] = 1
    BY <1>2 DEF IsPowers
  <2>3. \A i \in 0..(k - 1) : g[i + 1] = Times(g[i], a)
    BY <1>2, <1>3 DEF IsPowers
  <2> QED  BY <2>1, <2>2, <2>3 DEF IsPowers
<1>5. k \in Nat
  OBVIOUS
<1> QED  BY <1>2, <1>4, <1>5, PowerRun

\* Powers, one from the other.
LEMMA PowerIs ==
    ASSUME NEW a \in Scalars, NEW k \in Nat
    PROVE  /\ Power(a, k) \in Scalars /\ Power(a, 0) = 1 /\ Power(a, 1) = a
           /\ Power(a, k + 1) = Times(Power(a, k), a)
           /\ \A j \in Nat : Power(a, k + j) = Times(Power(a, k), Power(a, j))
<1>1. ASSUME NEW i \in Nat, NEW j \in Nat
      PROVE  /\ Power(a, i) \in Scalars /\ Power(a, 0) = 1
             /\ Power(a, i + 1) = Times(Power(a, i), a)
             /\ Power(a, i + j) = Times(Power(a, i), Power(a, j))
  <2>1. PICK m : m = i + j + 1
    OBVIOUS
  <2>2. m \in Nat /\ i \in 0..m /\ j \in 0..m /\ 0 \in 0..m /\ i + 1 \in 0..m /\ i + j \in 0..m /\ i \in 0..(m - 1) /\ i + j <= m
    BY <2>1
  <2>3. PICK f : IsPowers(f, a, m)
    BY <2>2, PowersExist
  <2>4. \A e \in 0..m : Power(a, e) = f[e]
    BY <2>2, <2>3, PowerUpTo
  <2>5. f[i] \in Scalars /\ f[0] = 1 /\ f[i + 1] = Times(f[i], a)
    BY <2>2, <2>3 DEF IsPowers
  <2>6. f[i + j] = Times(f[i], f[j])
    BY <2>2, <2>3, PowersAdd
  <2> QED  BY <2>2, <2>4, <2>5, <2>6
<1>2. Power(a, 0 + 1) = Times(Power(a, 0), a) /\ Power(a, 0) = 1
  BY <1>1
<1>3. Power(a, 1) = a
  BY <1>2, Laws
<1> QED  BY <1>1, <1>2, <1>3

\* A power of a power,
LEMMA PowerPower ==
    ASSUME NEW a \in Scalars, NEW i \in Nat, NEW j \in Nat
    PROVE  Power(Power(a, i), j) = Power(a, i * j)
<1> DEFINE S == {k \in 0..j : Power(Power(a, i), k) = Power(a, i * k)}
<1>1. PICK b : b = Power(a, i) /\ b \in Scalars
  BY PowerIs
<1>2. 0 \in S
  <2>1. i * 0 = 0 /\ 0 \in 0..j /\ 0 \in Nat
    OBVIOUS
  <2> QED  BY <1>1, <2>1, PowerIs
<1>3. ASSUME NEW k \in 0..(j - 1), k \in S PROVE k + 1 \in S
  <2>1. k \in Nat /\ i * k \in Nat /\ i * (k + 1) = (i * k) + i /\ k + 1 \in 0..j
    OBVIOUS
  <2>2. Power(b, k) = Power(a, i * k)
    BY <1>1, <1>3
  <2>3. Power(b, k + 1) = Times(Power(b, k), b)
    BY <1>1, <2>1, PowerIs
  <2>4. Power(a, (i * k) + i) = Times(Power(a, i * k), Power(a, i))
    BY <2>1, PowerIs
  <2>5. Power(b, k + 1) = Power(a, i * (k + 1))
    BY ONLY <1>1, <2>1, <2>2, <2>3, <2>4
  <2> QED  BY <1>1, <2>1, <2>5
<1> HIDE DEF S
<1>4. 0..j \subseteq S
  BY <1>2, <1>3, BoundedInduction
<1>5. j \in S
  BY <1>4
<1> QED  BY <1>5 DEF S

\* of a product,
LEMMA PowerTimes ==
    ASSUME NEW a \in Scalars, NEW b \in Scalars, NEW j \in Nat
    PROVE  Power(Times(a, b), j) = Times(Power(a, j), Power(b, j))
<1> DEFINE S == {k \in 0..j : Power(Times(a, b), k) = Times(Power(a, k), Power(b, k))}
<1>1. PICK c : c = Times(a, b) /\ c \in Scalars
  BY Closed
<1>2. 0 \in S
  <2>1. Power(c, 0) = 1 /\ Power(a, 0) = 1 /\ Power(b, 0) = 1 /\ 0 \in 0..j
    BY <1>1, PowerIs
  <2> QED  BY <1>1, <2>1, Laws, Closed
<1>3. ASSUME NEW k \in 0..(j - 1), k \in S PROVE k + 1 \in S
  <2>1. k \in Nat /\ k + 1 \in 0..j
    OBVIOUS
  <2>2. PICK x, y : x = Power(a, k) /\ y = Power(b, k)
    OBVIOUS
  <2>3. x \in Scalars /\ y \in Scalars /\ Power(c, k) = Times(x, y)
    BY <1>1, <1>3, <2>1, <2>2, PowerIs
  <2>4. /\ Power(c, k + 1) = Times(Times(x, y), c) /\ Power(a, k + 1) = Times(x, a)
        /\ Power(b, k + 1) = Times(y, b)
    BY <1>1, <2>1, <2>2, <2>3, PowerIs
  <2>5. Times(Times(x, y), Times(a, b)) = Times(Times(x, a), Times(y, b))
    <3>1. Times(y, b) \in Scalars
      BY <2>3, Closed
    <3>2. Times(Times(x, y), Times(a, b)) = Times(x, Times(y, Times(a, b)))
      BY <2>3, Laws, Closed
    <3>3. Times(Times(x, a), Times(y, b)) = Times(x, Times(a, Times(y, b)))
      BY <2>3, <3>1, Laws
    <3>4. Times(y, Times(a, b)) = Times(a, Times(y, b))
      BY <2>3, Swap
    <3> QED  BY ONLY <3>2, <3>3, <3>4
  <2>6. Power(c, k + 1) = Times(Power(a, k + 1), Power(b, k + 1))
    BY ONLY <1>1, <2>4, <2>5
  <2> QED  BY <1>1, <2>1, <2>6
<1> HIDE DEF S
<1>4. 0..j \subseteq S
  BY <1>2, <1>3, BoundedInduction
<1>5. j \in S
  BY <1>4
<1> QED  BY <1>5 DEF S

\* and of one.
LEMMA PowerOne ==
    ASSUME NEW j \in Nat
    PROVE  Power(1, j) = 1
<1> DEFINE S == {k \in 0..j : Power(1, k) = 1}
<1>1. 0 \in S
  BY PowerIs, Closed
<1>2. ASSUME NEW k \in 0..(j - 1), k \in S PROVE k + 1 \in S
  <2>1. k \in Nat /\ k + 1 \in 0..j /\ Power(1, k) = 1
    BY <1>2
  <2>2. Power(1, k + 1) = Times(Power(1, k), 1)
    BY <2>1, PowerIs, Closed
  <2> QED  BY <2>1, <2>2, Laws, Closed
<1> HIDE DEF S
<1>3. 0..j \subseteq S
  BY <1>1, <1>2, BoundedInduction
<1>4. j \in S
  BY <1>3
<1> QED  BY <1>4 DEF S

\* Inverses are in the field.
LEMMA InvertedType ==
    ASSUME NEW a \in Scalars
    PROVE  Inverted(a) \in Scalars /\ (a # 0 => Times(a, Inverted(a)) = 1)
<1>1. Prime - 2 \in Nat
  BY ScalarsAre
<1>2. Inverted(a) \in Scalars
  BY <1>1, PowerIs DEF Inverted
<1> QED  BY <1>2, FieldAssumption

\* A product without a zero is none.
LEMMA NoZeroDivisors ==
    ASSUME NEW a \in Scalars, NEW b \in Scalars, Times(a, b) = 0
    PROVE  a = 0 \/ b = 0
<1> SUFFICES ASSUME a # 0 PROVE b = 0
  OBVIOUS
<1>1. Inverted(a) \in Scalars /\ Times(a, Inverted(a)) = 1
  BY InvertedType
<1>2. Times(Inverted(a), Times(a, b)) = Times(a, Times(Inverted(a), b))
  BY <1>1, Swap
<1>3. Times(Times(a, Inverted(a)), b) = Times(a, Times(Inverted(a), b)) /\ Times(1, b) = b
  BY <1>1, Laws
<1>4. Times(Inverted(a), 0) = 0
  BY <1>1, TimesZero
<1> QED  BY ONLY <1>1, <1>2, <1>3, <1>4, Times(a, b) = 0

\* The inverse cancels.
LEMMA TimesInvert ==
    ASSUME NEW a \in Scalars, a # 0, NEW b \in Scalars
    PROVE  /\ Inverted(a) \in Scalars /\ Times(a, Inverted(a)) = 1 /\ Times(Inverted(a), a) = 1
           /\ Times(Inverted(a), Times(a, b)) = b /\ Times(Times(b, Inverted(a)), a) = b
<1>1. Inverted(a) \in Scalars /\ Times(a, Inverted(a)) = 1
  BY InvertedType
<1>2. Times(Inverted(a), a) = 1
  BY <1>1, Laws
<1>3. Times(Times(Inverted(a), a), b) = Times(Inverted(a), Times(a, b)) /\ Times(1, b) = b
  BY <1>1, Laws
<1>4. Times(Times(b, Inverted(a)), a) = Times(b, Times(Inverted(a), a)) /\ Times(b, 1) = b
  BY <1>1, Laws
<1> QED  BY ONLY <1>1, <1>2, <1>3, <1>4

(* ------------------------------- polynomials ------------------------------- *)

\* A function on the first numbers is a sequence.
LEMMA IsSequence ==
    ASSUME NEW V, NEW len \in Nat, NEW s \in [1..len -> V]
    PROVE  s \in Seq(V) /\ Len(s) = len /\ DOMAIN s = 1..len
  OBVIOUS

\* len elements of the field, and len polynomials of l coefficients.
Vector(len) == [1..len -> Scalars]
Polynomials(len, l) == [1..len -> Vector(l)]

\* A vector is the function it is given by.
LEMMA WholeIs ==
    ASSUME NEW V, NEW len \in Nat, NEW s \in [1..len -> V]
    PROVE  Whole(s) = s
<1>1. s \in Seq(V) /\ Len(s) = len /\ DOMAIN s = 1..len
  BY IsSequence
<1>2. SubSeq(s, 1, Len(s)) = s
  BY <1>1
<1> QED  BY <1>2 DEF Whole

\* What a vector is.
LEMMA VectorIs ==
    ASSUME NEW len \in Nat, NEW s \in Vector(len)
    PROVE  /\ s \in Seq(Scalars) /\ Len(s) = len /\ DOMAIN s = 1..len /\ Whole(s) = s
           /\ \A k \in 1..len : s[k] \in Scalars
<1>1. s \in [1..len -> Scalars]
  BY DEF Vector
<1>2. s \in Seq(Scalars) /\ Len(s) = len /\ DOMAIN s = 1..len
  BY <1>1, IsSequence
<1>3. Whole(s) = s
  BY ONLY <1>1, len \in Nat, WholeIs
<1> QED  BY <1>1, <1>2, <1>3

\* Vectors with the same elements are one.
LEMMA SameVector ==
    ASSUME NEW len, NEW s \in Vector(len), NEW t \in Vector(len), \A k \in 1..len : s[k] = t[k]
    PROVE  s = t
<1>1. s = [k \in 1..len |-> s[k]] /\ t = [k \in 1..len |-> t[k]]
  BY DEF Vector
<1>2. [k \in 1..len |-> s[k]] = [k \in 1..len |-> t[k]]
  OBVIOUS
<1> QED  BY ONLY <1>1, <1>2

\* Induction downwards from the end of a sequence.
LEMMA SuffixInduction ==
    ASSUME NEW len \in Nat, NEW S, len + 1 \in S, \A k \in 1..len : k + 1 \in S => k \in S
    PROVE  1..(len + 1) \subseteq S
<1> DEFINE T == {i \in 0..len : (len + 1) - i \in S}
<1>1. 0 \in T
  OBVIOUS
<1>2. ASSUME NEW i \in 0..(len - 1), i \in T PROVE i + 1 \in T
  <2>1. len - i \in 1..len /\ (len - i) + 1 = (len + 1) - i /\ (len + 1) - (i + 1) = len - i /\ i + 1 \in 0..len
    OBVIOUS
  <2>2. (len + 1) - i \in S
    BY <1>2
  <2> QED  BY <2>1, <2>2
<1> HIDE DEF T
<1>3. 0..len \subseteq T
  BY <1>1, <1>2, BoundedInduction
<1>4. ASSUME NEW k \in 1..(len + 1) PROVE k \in S
  <2>1. (len + 1) - k \in 0..len /\ (len + 1) - ((len + 1) - k) = k
    OBVIOUS
  <2>2. (len + 1) - k \in T
    BY ONLY <1>3, <2>1
  <2>3. (len + 1) - ((len + 1) - k) \in S
    BY <2>2 DEF T
  <2> QED  BY <2>1, <2>3
<1> QED  BY <1>4

\* The values Horner's rule passes through, for the first len elements of s.
IsHorner(f, a, s, len) ==
    /\ f \in Vector(len + 1) /\ f[len + 1] = 0
    /\ \A k \in 1..len : f[k] = Plus(s[k], Times(a, f[k + 1]))

\* The values Horner's rule passes through on the way to a polynomial's value.
HornerOf(a, s) ==
    LET tail[k \in 1..(Len(s) + 1)] ==
            IF k > Len(s) THEN 0 ELSE Plus(s[k], Times(tail[k + 1], a))
    IN  tail

LEMMA HornerIs ==
    ASSUME NEW len \in Nat, NEW s \in Vector(len), NEW a \in Scalars
    PROVE  IsHorner(HornerOf(a, s), a, s, len)
<1> DEFINE IsFrom(f) == f = [k \in 1..(Len(s) + 1) |->
                                IF k > Len(s) THEN 0 ELSE Plus(s[k], Times(f[k + 1], a))]
           from == CHOOSE f : IsFrom(f)
<1>1. s \in Seq(Scalars) /\ Len(s) = len /\ Whole(s) = s
  BY VectorIs
<1>2. HornerOf(a, s) = from
  BY <1>1 DEF HornerOf
<1>3. PICK step : step = [p \in Nat \X Scalars |->
                             IF p[1] < len THEN Plus(s[len - p[1]], Times(a, p[2])) ELSE p[2]]
  OBVIOUS
<1>4. \A i \in Nat, x \in Scalars :
          step[<<i, x>>] = IF i < len THEN Plus(s[len - i], Times(a, x)) ELSE x
  BY <1>3
<1>5. step \in [Nat \X Scalars -> Scalars]
  <2>1. \A i \in Nat, x \in Scalars : step[<<i, x>>] \in Scalars
    <3>1. \A i \in Nat : i < len => len - i \in 1..len
      OBVIOUS
    <3>2. \A i \in Nat : i < len => s[len - i] \in Scalars
      BY <3>1 DEF Vector
    <3>3. \A x \in Scalars : Times(a, x) \in Scalars
      BY Closed
    <3>4. \A i \in Nat, x \in Scalars : i < len => Plus(s[len - i], Times(a, x)) \in Scalars
      BY <3>2, <3>3, Closed
    <3> QED  BY <1>4, <3>4
  <2> QED  BY <1>3, <2>1
<1>6. PICK r : IsRun(r, Scalars, 0, step, len)
  BY <1>5, RunExists, Closed
<1>7. /\ r \in [0..len -> Scalars] /\ r[0] = 0
      /\ \A i \in 0..(len - 1) : r[i + 1] = step[<<i, r[i]>>]
  BY <1>6 DEF IsRun
<1>8. PICK g : g = [k \in 1..(len + 1) |-> r[(len + 1) - k]]
  OBVIOUS
<1>9. \A k \in 1..(len + 1) : (len + 1) - k \in 0..len
  OBVIOUS
<1>10. g \in Vector(len + 1) /\ g[len + 1] = 0
  BY <1>7, <1>8, <1>9 DEF Vector
<1>11. ASSUME NEW k \in 1..len PROVE g[k] = Plus(s[k], Times(a, g[k + 1]))
  <2>1. /\ len - k \in 0..(len - 1) /\ (len - k) + 1 = (len + 1) - k /\ (len + 1) - (k + 1) = len - k
        /\ len - k \in Nat /\ len - k < len /\ len - (len - k) = k /\ k + 1 \in 1..(len + 1) /\ k \in 1..(len + 1)
        /\ len - k \in 0..len
    OBVIOUS
  <2>2. r[(len - k) + 1] = step[<<len - k, r[len - k]>>] /\ r[len - k] \in Scalars
    BY <1>7, <2>1
  <2>3. step[<<len - k, r[len - k]>>] = Plus(s[len - (len - k)], Times(a, r[len - k]))
    BY <1>4, <2>1, <2>2
  <2>4. g[k] = r[(len + 1) - k] /\ g[k + 1] = r[(len + 1) - (k + 1)]
    BY <1>8, <2>1
  <2> QED  BY ONLY <2>1, <2>2, <2>3, <2>4
<1>12. IsFrom(g)
  <2>1. \A k \in 1..(len + 1) : k > len => k = len + 1
    OBVIOUS
  <2>2. \A k \in 1..(len + 1) : ~(k > len) => k \in 1..len
    OBVIOUS
  <2>3. \A k \in 1..len : g[k] = Plus(s[k], Times(g[k + 1], a))
    <3>1. \A k \in 1..len : g[k + 1] \in Scalars
      BY <1>10 DEF Vector
    <3>2. \A k \in 1..len : Times(a, g[k + 1]) = Times(g[k + 1], a)
      BY <3>1, Laws
    <3> QED  BY <1>11, <3>2
  <2>4. \A k \in 1..(len + 1) : g[k] = IF k > len THEN 0 ELSE Plus(s[k], Times(g[k + 1], a))
    BY <1>10, <2>1, <2>2, <2>3
  <2> QED  BY <1>1, <1>10, <2>4 DEF Vector
<1>13. IsFrom(from)
  BY <1>12
<1> HIDE DEF from
<1>14. DOMAIN from = 1..(len + 1)
  BY <1>1, <1>13
<1>15. \A k \in 1..(len + 1) : from[k] = IF k > len THEN 0 ELSE Plus(s[k], Times(from[k + 1], a))
  BY <1>1, <1>13
<1>16. from[len + 1] = 0 /\ \A k \in 1..len : from[k] = Plus(s[k], Times(from[k + 1], a))
  <2>1. len + 1 \in 1..(len + 1) /\ len + 1 > len /\ \A k \in 1..len : k \in 1..(len + 1) /\ ~(k > len)
    OBVIOUS
  <2> QED  BY <1>15, <2>1
<1> DEFINE S == {k \in 1..(len + 1) : from[k] \in Scalars}
<1>17. len + 1 \in S
  BY <1>16, Closed
<1>18. ASSUME NEW k \in 1..len, k + 1 \in S PROVE k \in S
  <2>1. from[k + 1] \in Scalars /\ s[k] \in Scalars /\ k \in 1..(len + 1)
    BY <1>18 DEF Vector
  <2>2. Times(from[k + 1], a) \in Scalars
    BY <2>1, Closed
  <2>3. Plus(s[k], Times(from[k + 1], a)) \in Scalars
    BY <2>1, <2>2, Closed
  <2>4. from[k] \in Scalars
    BY <1>16, <2>3
  <2> QED  BY <2>1, <2>4
<1> HIDE DEF S
<1>19. 1..(len + 1) \subseteq S
  BY <1>17, <1>18, SuffixInduction
<1>20. \A k \in 1..(len + 1) : from[k] \in Scalars
  BY <1>19 DEF S
<1>21. from = [k \in 1..(len + 1) |-> from[k]]
  BY <1>1, <1>13
<1>22. from \in Vector(len + 1)
  BY <1>20, <1>21 DEF Vector
<1>23. \A k \in 1..len : from[k] = Plus(s[k], Times(a, from[k + 1]))
  <2>1. \A k \in 1..len : from[k + 1] \in Scalars
    BY <1>22 DEF Vector
  <2>2. \A k \in 1..len : Times(a, from[k + 1]) = Times(from[k + 1], a)
    BY <2>1, Laws
  <2> QED  BY <1>16, <2>2
<1> QED  BY <1>2, <1>16, <1>22, <1>23 DEF IsHorner

\* Whatever passes through the same values is Horner's rule.
LEMMA HornerUnique ==
    ASSUME NEW len \in Nat, NEW a, NEW s, NEW f, NEW g,
           IsHorner(f, a, s, len), IsHorner(g, a, s, len)
    PROVE  \A k \in 1..(len + 1) : f[k] = g[k]
<1> DEFINE S == {k \in 1..(len + 1) : f[k] = g[k]}
<1>1. len + 1 \in S
  BY DEF IsHorner
<1>2. ASSUME NEW k \in 1..len, k + 1 \in S PROVE k \in S
  <2>1. f[k + 1] = g[k + 1] /\ k \in 1..(len + 1)
    BY <1>2
  <2>2. f[k] = Plus(s[k], Times(a, f[k + 1])) /\ g[k] = Plus(s[k], Times(a, g[k + 1]))
    BY DEF IsHorner
  <2> QED  BY <2>1, <2>2
<1> HIDE DEF S
<1>3. 1..(len + 1) \subseteq S
  BY <1>1, <1>2, SuffixInduction
<1> QED  BY <1>3 DEF S

\* The value of a polynomial, from those Horner's rule passes through.
LEMMA EvalIs ==
    ASSUME NEW len \in Nat, NEW s \in Vector(len), NEW a \in Scalars
    PROVE  /\ Eval(s, a) \in Scalars /\ Eval(s, a) = HornerOf(a, s)[1]
           /\ \A f : IsHorner(f, a, s, len) => Eval(s, a) = f[1]
<1>1. IsHorner(HornerOf(a, s), a, s, len) /\ 1 \in 1..(len + 1)
  BY HornerIs
<1>2. HornerOf(a, s)[1] \in Scalars
  BY <1>1 DEF IsHorner, Vector
<1>3. ASSUME NEW f, IsHorner(f, a, s, len) PROVE HornerOf(a, s)[1] = f[1]
  <2>1. \A k \in 1..(len + 1) : HornerOf(a, s)[k] = f[k]
    BY <1>1, <1>3, HornerUnique
  <2> QED  BY <1>1, <2>1
<1> QED  BY <1>2, <1>3 DEF Eval, HornerOf

\* One step of Horner's rule is linear.
LEMMA StepLinear ==
    ASSUME NEW a \in Scalars, NEW c \in Scalars, NEW s \in Scalars, NEW t \in Scalars,
           NEW x \in Scalars, NEW y \in Scalars
    PROVE  Plus(Plus(s, Times(c, t)), Times(a, Plus(x, Times(c, y))))
               = Plus(Plus(s, Times(a, x)), Times(c, Plus(t, Times(a, y))))
<1>1. /\ Times(c, t) \in Scalars /\ Times(c, y) \in Scalars /\ Times(a, x) \in Scalars
      /\ Times(a, y) \in Scalars
  BY Closed
<1>2. Times(c, Times(a, y)) \in Scalars
  BY <1>1, Closed
<1>3. Times(a, Plus(x, Times(c, y))) = Plus(Times(a, x), Times(a, Times(c, y)))
  BY <1>1, Laws
<1>4. Times(a, Times(c, y)) = Times(c, Times(a, y))
  BY Swap
<1>5. Times(c, Plus(t, Times(a, y))) = Plus(Times(c, t), Times(c, Times(a, y)))
  BY <1>1, Laws
<1>6. Plus(Plus(s, Times(c, t)), Plus(Times(a, x), Times(c, Times(a, y))))
          = Plus(Plus(s, Times(a, x)), Plus(Times(c, t), Times(c, Times(a, y))))
  BY <1>1, <1>2, Exchange
<1> QED  BY ONLY <1>3, <1>4, <1>5, <1>6

\* A sum of sequences, one of them scaled.
Combines(w, s, t, c, len) == \A k \in 1..len : w[k] = Plus(s[k], Times(c, t[k]))

\* The value of a sum of polynomials, one of them scaled.
LEMMA EvalLinear ==
    ASSUME NEW len \in Nat, NEW s \in Vector(len), NEW t \in Vector(len),
           NEW c \in Scalars, NEW w \in Vector(len), Combines(w, s, t, c, len), NEW a \in Scalars
    PROVE  Eval(w, a) = Plus(Eval(s, a), Times(c, Eval(t, a)))
<1> DEFINE f == HornerOf(a, s)
           g == HornerOf(a, t)
<1>1. IsHorner(f, a, s, len) /\ IsHorner(g, a, t, len)
  BY HornerIs
<1> HIDE DEF f, g
<1>2. /\ f \in Vector(len + 1) /\ f[len + 1] = 0
      /\ g \in Vector(len + 1) /\ g[len + 1] = 0
      /\ \A k \in 1..len : f[k] = Plus(s[k], Times(a, f[k + 1]))
      /\ \A k \in 1..len : g[k] = Plus(t[k], Times(a, g[k + 1]))
  BY <1>1 DEF IsHorner
<1>3. PICK e : e = [k \in 1..(len + 1) |-> Plus(f[k], Times(c, g[k]))]
  OBVIOUS
<1>4. \A k \in 1..(len + 1) : e[k] = Plus(f[k], Times(c, g[k]))
  BY <1>3
<1>5. e \in Vector(len + 1)
  <2>1. \A k \in 1..(len + 1) : f[k] \in Scalars /\ g[k] \in Scalars
    BY <1>2 DEF Vector
  <2>2. \A k \in 1..(len + 1) : Times(c, g[k]) \in Scalars
    BY <2>1, Closed
  <2>3. \A k \in 1..(len + 1) : Plus(f[k], Times(c, g[k])) \in Scalars
    BY <2>1, <2>2, Closed
  <2> QED  BY <1>3, <2>3 DEF Vector
<1>6. e[len + 1] = 0
  <2>1. e[len + 1] = Plus(0, Times(c, 0))
    BY <1>2, <1>4
  <2>2. Times(c, 0) = 0 /\ Plus(0, 0) = 0
    BY TimesZero, Laws, Closed
  <2> QED  BY <2>1, <2>2
<1>7. ASSUME NEW k \in 1..len PROVE e[k] = Plus(w[k], Times(a, e[k + 1]))
  <2>1. k \in 1..(len + 1) /\ k + 1 \in 1..(len + 1)
    OBVIOUS
  <2>2. /\ s[k] \in Scalars /\ t[k] \in Scalars /\ f[k + 1] \in Scalars /\ g[k + 1] \in Scalars
    BY <1>2, <2>1 DEF Vector
  <2>3. Plus(Plus(s[k], Times(c, t[k])), Times(a, Plus(f[k + 1], Times(c, g[k + 1]))))
          = Plus(Plus(s[k], Times(a, f[k + 1])), Times(c, Plus(t[k], Times(a, g[k + 1]))))
    <3>1. PICK p, q, x, y : p = s[k] /\ q = t[k] /\ x = f[k + 1] /\ y = g[k + 1]
      OBVIOUS
    <3>2. p \in Scalars /\ q \in Scalars /\ x \in Scalars /\ y \in Scalars
      BY ONLY <2>2, <3>1
    <3>3. Plus(Plus(p, Times(c, q)), Times(a, Plus(x, Times(c, y))))
            = Plus(Plus(p, Times(a, x)), Times(c, Plus(q, Times(a, y))))
      BY ONLY <3>2, a \in Scalars, c \in Scalars, StepLinear
    <3> QED  BY ONLY <3>1, <3>3
  <2>4. e[k] = Plus(f[k], Times(c, g[k])) /\ e[k + 1] = Plus(f[k + 1], Times(c, g[k + 1]))
    BY <1>4, <2>1
  <2>5. f[k] = Plus(s[k], Times(a, f[k + 1])) /\ g[k] = Plus(t[k], Times(a, g[k + 1]))
    BY <1>2
  <2>6. w[k] = Plus(s[k], Times(c, t[k]))
    BY DEF Combines
  <2> QED  BY ONLY <2>3, <2>4, <2>5, <2>6
<1>8. IsHorner(e, a, w, len)
  BY <1>5, <1>6, <1>7 DEF IsHorner
<1>9. Eval(w, a) = e[1]
  BY <1>8, EvalIs
<1>10. Eval(s, a) = f[1] /\ Eval(t, a) = g[1]
  BY <1>1, EvalIs
<1>11. e[1] = Plus(f[1], Times(c, g[1]))
  BY <1>4
<1> QED  BY ONLY <1>9, <1>10, <1>11

\* The polynomial without coefficients, or with none but zeros.
LEMMA EvalZero ==
    ASSUME NEW len \in Nat, NEW s \in Vector(len), \A k \in 1..len : s[k] = 0, NEW a \in Scalars
    PROVE  Eval(s, a) = 0
<1>1. PICK f : f = [k \in 1..(len + 1) |-> 0]
  OBVIOUS
<1>2. f \in Vector(len + 1) /\ f[len + 1] = 0 /\ \A k \in 1..(len + 1) : f[k] = 0
  BY <1>1, Closed DEF Vector
<1>3. Times(a, 0) = 0 /\ Plus(0, 0) = 0
  BY TimesZero, Laws, Closed
<1>4. \A k \in 1..len : k \in 1..(len + 1) /\ k + 1 \in 1..(len + 1)
  OBVIOUS
<1>5. \A k \in 1..len : f[k] = Plus(s[k], Times(a, f[k + 1]))
  BY <1>2, <1>3, <1>4
<1>6. IsHorner(f, a, s, len)
  BY <1>2, <1>5 DEF IsHorner
<1>7. Eval(s, a) = f[1] /\ f[1] = 0
  BY <1>2, <1>6, EvalIs
<1> QED  BY <1>7

\* The value of a scaled polynomial,
LEMMA EvalScaled ==
    ASSUME NEW len \in Nat, NEW t \in Vector(len), NEW c \in Scalars, NEW w \in Vector(len),
           \A k \in 1..len : w[k] = Times(c, t[k]), NEW a \in Scalars
    PROVE  Eval(w, a) = Times(c, Eval(t, a))
<1>1. PICK s : s = [k \in 1..len |-> 0]
  OBVIOUS
<1>2. s \in Vector(len) /\ \A k \in 1..len : s[k] = 0
  BY <1>1, Closed DEF Vector
<1>3. \A k \in 1..len : t[k] \in Scalars
  BY DEF Vector
<1>4. \A k \in 1..len : Times(c, t[k]) \in Scalars
  BY <1>3, Closed
<1>5. Combines(w, s, t, c, len)
  BY <1>2, <1>4, Laws DEF Combines
<1>6. Eval(w, a) = Plus(Eval(s, a), Times(c, Eval(t, a)))
  BY <1>2, <1>5, EvalLinear
<1>7. Eval(s, a) = 0
  BY <1>2, EvalZero
<1>8. Times(c, Eval(t, a)) \in Scalars
  BY EvalIs, Closed
<1>9. Plus(0, Times(c, Eval(t, a))) = Times(c, Eval(t, a))
  BY <1>8, Laws
<1> QED  BY ONLY <1>6, <1>7, <1>9

\* of a sum,
LEMMA EvalPlus ==
    ASSUME NEW len \in Nat, NEW s \in Vector(len), NEW t \in Vector(len),
           NEW w \in Vector(len), \A k \in 1..len : w[k] = Plus(s[k], t[k]), NEW a \in Scalars
    PROVE  Eval(w, a) = Plus(Eval(s, a), Eval(t, a))
<1>1. \A k \in 1..len : t[k] \in Scalars
  BY DEF Vector
<1>2. \A k \in 1..len : Times(1, t[k]) = t[k]
  BY <1>1, Laws
<1>3. Combines(w, s, t, 1, len)
  BY <1>2 DEF Combines
<1>4. Eval(w, a) = Plus(Eval(s, a), Times(1, Eval(t, a)))
  BY <1>3, EvalLinear, Closed
<1>5. Times(1, Eval(t, a)) = Eval(t, a)
  BY EvalIs, Laws
<1> QED  BY <1>4, <1>5

\* and of a difference.
LEMMA EvalMinus ==
    ASSUME NEW len \in Nat, NEW s \in Vector(len), NEW t \in Vector(len),
           NEW w \in Vector(len), \A k \in 1..len : w[k] = Minus(s[k], t[k]), NEW a \in Scalars
    PROVE  Eval(w, a) = Minus(Eval(s, a), Eval(t, a))
<1>1. \A k \in 1..len : s[k] \in Scalars /\ t[k] \in Scalars
  BY DEF Vector
<1>2. \A k \in 1..len : s[k] = Plus(t[k], w[k])
  BY <1>1, MinusIs
<1>3. Eval(s, a) = Plus(Eval(t, a), Eval(w, a))
  BY <1>2, EvalPlus
<1>4. Eval(s, a) \in Scalars /\ Eval(t, a) \in Scalars /\ Eval(w, a) \in Scalars
  BY EvalIs
<1> QED  BY <1>3, <1>4, MinusIs

\* The sum of a sequence with one element other than zero.
LEMMA TotalSingle ==
    ASSUME NEW len \in Nat, NEW s \in Vector(len), NEW j \in 1..len,
           \A k \in 1..len : k # j => s[k] = 0
    PROVE  Eval(s, 1) = s[j]
<1>1. PICK f : f = [k \in 1..(len + 1) |-> IF k <= j THEN s[j] ELSE 0]
  OBVIOUS
<1>2. \A k \in 1..(len + 1) : f[k] = IF k <= j THEN s[j] ELSE 0
  BY <1>1
<1>3. f \in Vector(len + 1) /\ f[len + 1] = 0
  <2>1. s[j] \in Scalars /\ 0 \in Scalars /\ ~(len + 1 <= j) /\ len + 1 \in 1..(len + 1)
    BY Closed DEF Vector
  <2> QED  BY <1>1, <1>2, <2>1 DEF Vector
<1>4. ASSUME NEW k \in 1..len PROVE f[k] = Plus(s[k], Times(1, f[k + 1]))
  <2>1. k \in 1..(len + 1) /\ k + 1 \in 1..(len + 1)
    OBVIOUS
  <2>2. f[k + 1] \in Scalars
    BY <1>3, <2>1 DEF Vector
  <2>3. Times(1, f[k + 1]) = f[k + 1]
    BY <2>2, Laws
  <2>4. s[k] \in Scalars
    BY DEF Vector
  <2>5. Plus(s[k], 0) = s[k] /\ Plus(0, f[k + 1]) = f[k + 1]
    BY <2>2, <2>4, Laws
  <2>6. CASE k = j
    <3>1. f[k] = s[k] /\ f[k + 1] = 0
      BY <1>2, <2>1, <2>6
    <3> QED  BY <2>3, <2>5, <3>1
  <2>7. CASE k # j
    <3>1. s[k] = 0 /\ (k <= j <=> k + 1 <= j)
      BY <2>7
    <3>2. f[k] = f[k + 1]
      BY <1>2, <2>1, <3>1
    <3> QED  BY <2>3, <2>5, <3>1, <3>2
  <2> QED  BY <2>6, <2>7
<1>5. IsHorner(f, 1, s, len)
  BY <1>3, <1>4 DEF IsHorner
<1>6. Eval(s, 1) = f[1]
  BY <1>5, EvalIs, Closed
<1>7. f[1] = s[j]
  BY <1>2
<1> QED  BY <1>6, <1>7

\* Coefficients of zero at the end leave a polynomial what it is.
LEMMA EvalExtended ==
    ASSUME NEW len \in Nat, NEW s \in Vector(len), NEW m \in Nat, len <= m,
           NEW w \in Vector(m),
           \A k \in 1..m : w[k] = IF k <= len THEN s[k] ELSE 0, NEW a \in Scalars
    PROVE  Eval(w, a) = Eval(s, a)
<1> DEFINE g == HornerOf(a, s)
<1>1. IsHorner(g, a, s, len)
  BY HornerIs
<1> HIDE DEF g
<1>2. /\ g \in Vector(len + 1) /\ g[len + 1] = 0
      /\ \A k \in 1..len : g[k] = Plus(s[k], Times(a, g[k + 1]))
  BY <1>1 DEF IsHorner
<1>3. PICK f : f = [k \in 1..(m + 1) |-> IF k <= len + 1 THEN g[k] ELSE 0]
  OBVIOUS
<1>4. \A k \in 1..(m + 1) : f[k] = IF k <= len + 1 THEN g[k] ELSE 0
  BY <1>3
<1>5. f \in Vector(m + 1)
  <2>1. \A k \in 1..(m + 1) : k <= len + 1 => g[k] \in Scalars
    BY <1>2 DEF Vector
  <2> QED  BY <1>3, <2>1, Closed DEF Vector
<1>6. f[m + 1] = 0
  <2>1. m + 1 \in 1..(m + 1) /\ (m + 1 <= len + 1 => m + 1 = len + 1)
    OBVIOUS
  <2> QED  BY <1>2, <1>4, <2>1
<1>7. ASSUME NEW k \in 1..m PROVE f[k] = Plus(w[k], Times(a, f[k + 1]))
  <2>1. k \in 1..(m + 1) /\ k + 1 \in 1..(m + 1)
    OBVIOUS
  <2>2. CASE k <= len
    <3>1. k \in 1..len /\ k <= len + 1 /\ k + 1 <= len + 1
      BY <2>2
    <3>2. f[k] = g[k] /\ f[k + 1] = g[k + 1] /\ w[k] = s[k]
      BY <1>4, <2>1, <2>2, <3>1
    <3> QED  BY <1>2, <3>1, <3>2
  <2>3. CASE ~(k <= len)
    <3>1. k <= len + 1 => k = len + 1
      BY <2>3
    <3>2. f[k] = 0 /\ w[k] = 0
      BY <1>2, <1>4, <2>1, <2>3, <3>1
    <3>3. f[k + 1] = 0
      <4>1. ~(k + 1 <= len + 1)
        BY <2>3
      <4> QED  BY <1>4, <2>1, <4>1
    <3>4. Times(a, 0) = 0 /\ Plus(0, 0) = 0
      BY TimesZero, Laws, Closed
    <3> QED  BY <3>2, <3>3, <3>4
  <2> QED  BY <2>2, <2>3
<1>8. IsHorner(f, a, w, m)
  BY <1>5, <1>6, <1>7 DEF IsHorner
<1>9. Eval(w, a) = f[1] /\ Eval(s, a) = g[1]
  BY <1>1, <1>8, EvalIs
<1>10. f[1] = g[1]
  BY <1>4
<1> QED  BY ONLY <1>9, <1>10

\* The coefficients of len polynomials at one power.
Column(group, len, k) == [i \in 1..len |-> group[i][k]]

\* One fold for every power, and the values of the polynomials.
FoldsColumns(fold, group, a, len, l) == \A k \in 1..l : fold[k] = Eval(Column(group, len, k), a)
AreValues(values, group, z, len)     == \A i \in 1..len : values[i] = Eval(group[i], z)

\* A fold of polynomials, coefficient by coefficient, has the fold of their values.
LEMMA FoldColumns ==
    ASSUME NEW len \in Nat, NEW l \in Nat, NEW group \in Polynomials(len, l),
           NEW a \in Scalars, NEW fold \in Vector(l), FoldsColumns(fold, group, a, len, l),
           NEW z \in Scalars, NEW values \in Vector(len), AreValues(values, group, z, len)
    PROVE  Eval(fold, z) = Eval(values, a)
<1>1. \A i \in 1..len, k \in 1..l : group[i] \in Vector(l) /\ group[i][k] \in Scalars
  BY DEF Polynomials, Vector
<1>2. ASSUME NEW k \in 1..l PROVE Column(group, len, k) \in Vector(len)
  BY <1>1 DEF Column, Vector
<1>3. PICK c : c = [k \in 1..l |-> HornerOf(a, Column(group, len, k))]
  OBVIOUS
<1>4. ASSUME NEW k \in 1..l
      PROVE  /\ IsHorner(c[k], a, Column(group, len, k), len)
             /\ fold[k] = c[k][1]
  <2>1. Column(group, len, k) \in Vector(len) /\ c[k] = HornerOf(a, Column(group, len, k)) /\ fold[k] = Eval(Column(group, len, k), a)
    BY <1>2, <1>3 DEF FoldsColumns
  <2>2. IsHorner(c[k], a, Column(group, len, k), len)
    BY <2>1, HornerIs
  <2>3. Eval(Column(group, len, k), a) = c[k][1]
    BY <2>1, <2>2, EvalIs
  <2> QED  BY <2>1, <2>2, <2>3
<1>5. ASSUME NEW k \in 1..l
      PROVE  /\ c[k] \in Vector(len + 1) /\ c[k][len + 1] = 0
             /\ \A i \in 1..len : c[k][i] = Plus(group[i][k], Times(a, c[k][i + 1]))
  <2>1. IsHorner(c[k], a, Column(group, len, k), len)
    BY <1>4
  <2>2. /\ c[k] \in Vector(len + 1) /\ c[k][len + 1] = 0
        /\ \A i \in 1..len : c[k][i] = Plus(Column(group, len, k)[i], Times(a, c[k][i + 1]))
    BY <2>1 DEF IsHorner
  <2>3. \A i \in 1..len : Column(group, len, k)[i] = group[i][k]
    BY DEF Column
  <2> QED  BY <2>2, <2>3
<1>6. PICK m : m = [i \in 1..(len + 1) |-> [k \in 1..l |-> c[k][i]]]
  OBVIOUS
<1>7. ASSUME NEW i \in 1..(len + 1)
      PROVE  m[i] \in Vector(l) /\ \A k \in 1..l : m[i][k] = c[k][i]
  <2>1. \A k \in 1..l : c[k][i] \in Scalars
    BY <1>5 DEF Vector
  <2>2. m[i] = [k \in 1..l |-> c[k][i]]
    BY <1>6
  <2> QED  BY <2>1, <2>2 DEF Vector
<1>8. PICK f : f = [i \in 1..(len + 1) |-> Eval(m[i], z)]
  OBVIOUS
<1>9. \A i \in 1..(len + 1) : f[i] = Eval(m[i], z)
  BY <1>8
<1>10. f \in Vector(len + 1)
  <2>1. ASSUME NEW i \in 1..(len + 1) PROVE Eval(m[i], z) \in Scalars
    <3>1. m[i] \in Vector(l)
      BY <1>7
    <3> QED  BY <3>1, EvalIs
  <2> QED  BY <1>8, <2>1 DEF Vector
<1>11. f[len + 1] = 0
  <2>1. len + 1 \in 1..(len + 1)
    OBVIOUS
  <2>2. m[len + 1] \in Vector(l) /\ \A k \in 1..l : m[len + 1][k] = 0
    BY <1>5, <1>7, <2>1
  <2>3. PICK s : s = m[len + 1]
    OBVIOUS
  <2>4. Eval(s, z) = 0
    BY <2>2, <2>3, EvalZero
  <2> QED  BY <1>9, <2>1, <2>3, <2>4
<1>12. ASSUME NEW i \in 1..len PROVE f[i] = Plus(values[i], Times(a, f[i + 1]))
  <2>1. i \in 1..(len + 1) /\ i + 1 \in 1..(len + 1)
    OBVIOUS
  <2>2. PICK s, t, w : s = group[i] /\ t = m[i + 1] /\ w = m[i]
    OBVIOUS
  <2>3. s \in Vector(l) /\ t \in Vector(l) /\ w \in Vector(l)
    <3>1. group[i] \in Vector(l)
      BY DEF Polynomials
    <3>2. m[i] \in Vector(l)
      BY <1>7, <2>1
    <3>3. m[i + 1] \in Vector(l)
      BY <1>7, <2>1
    <3> QED  BY ONLY <2>2, <3>1, <3>2, <3>3
  <2>4. Combines(w, s, t, a, l)
    <3> SUFFICES ASSUME NEW k \in 1..l PROVE w[k] = Plus(s[k], Times(a, t[k]))
      BY DEF Combines
    <3>1. w[k] = c[k][i] /\ t[k] = c[k][i + 1]
      BY <1>7, <2>1, <2>2
    <3>2. c[k][i] = Plus(group[i][k], Times(a, c[k][i + 1]))
      BY <1>5
    <3> QED  BY <2>2, <3>1, <3>2
  <2>5. Eval(w, z) = Plus(Eval(s, z), Times(a, Eval(t, z)))
    BY ONLY <2>3, <2>4, l \in Nat, a \in Scalars, z \in Scalars, EvalLinear
  <2>6. f[i] = Eval(w, z) /\ f[i + 1] = Eval(t, z) /\ values[i] = Eval(s, z)
    BY <1>9, <2>1, <2>2 DEF AreValues
  <2> QED  BY ONLY <2>5, <2>6
<1>13. IsHorner(f, a, values, len)
  BY <1>10, <1>11, <1>12 DEF IsHorner
<1>14. Eval(values, a) = f[1]
  BY ONLY <1>10, <1>13, len \in Nat, values \in Vector(len), a \in Scalars, EvalIs
<1>15. m[1] = fold
  <2>1. 1 \in 1..(len + 1)
    OBVIOUS
  <2>2. \A k \in 1..l : m[1][k] = fold[k]
    BY <1>4, <1>7, <2>1
  <2>3. m[1] \in Vector(l)
    BY <1>7, <2>1
  <2> QED  BY <2>2, <2>3 DEF Vector
<1>16. f[1] = Eval(fold, z)
  BY <1>9, <1>15
<1> QED  BY <1>14, <1>16

(* ---------------------------- scaled and twisted ---------------------------- *)

\* A vector scaled,
LEMMA ScaledIs ==
    ASSUME NEW len \in Nat, NEW a \in Vector(len), NEW c \in Scalars
    PROVE  /\ ScaledBy(a, c) \in Vector(len)
           /\ \A i \in 1..len : ScaledBy(a, c)[i] = Times(a[i], c)
           /\ \A x \in Scalars : Eval(ScaledBy(a, c), x) = Times(c, Eval(a, x))
<1>1. Len(a) = len /\ \A i \in 1..len : a[i] \in Scalars
  BY VectorIs
<1>2. PICK w : w = [i \in 1..len |-> Times(a[i], c)]
  OBVIOUS
<1>3. w \in Vector(len)
  BY <1>1, <1>2, Closed DEF Vector
<1>4. ScaledBy(a, c) = w
  <2>1. Whole(w) = w
    BY <1>3, VectorIs
  <2> QED  BY <1>1, <1>2, <2>1 DEF ScaledBy
<1>5. \A i \in 1..len : w[i] = Times(c, a[i])
  BY <1>1, <1>2, Laws
<1>6. ASSUME NEW x \in Scalars PROVE Eval(w, x) = Times(c, Eval(a, x))
  BY <1>3, <1>5, EvalScaled
<1> QED  BY <1>2, <1>3, <1>4, <1>6

\* the powers of a number,
LEMMA PowersIs ==
    ASSUME NEW len \in Nat, NEW c \in Scalars
    PROVE  /\ Powers(c, len) \in Vector(len)
           /\ \A i \in 1..len : Powers(c, len)[i] = Power(c, i - 1)
<1>1. PICK w : w = [i \in 1..len |-> Power(c, i - 1)]
  OBVIOUS
<1>2. \A i \in 1..len : i - 1 \in Nat
  OBVIOUS
<1>3. w \in Vector(len)
  BY <1>1, <1>2, PowerIs DEF Vector
<1>4. Powers(c, len) = w
  <2>1. Whole(w) = w
    BY <1>3, VectorIs
  <2> QED  BY <1>1, <2>1 DEF Powers
<1> QED  BY <1>1, <1>3, <1>4

\* One step of Horner's rule at a multiple of x.
LEMMA StepTwisted ==
    ASSUME NEW p \in Scalars, NEW w \in Scalars, NEW c \in Scalars, NEW x \in Scalars,
           NEW e \in Scalars
    PROVE  Times(w, Plus(p, Times(Times(c, x), e)))
               = Plus(Times(p, w), Times(x, Times(Times(w, c), e)))
<1>1. Times(Times(c, x), e) \in Scalars /\ Times(x, e) \in Scalars /\ Times(w, c) \in Scalars
  BY Closed
<1>2. Times(w, Plus(p, Times(Times(c, x), e))) = Plus(Times(w, p), Times(w, Times(Times(c, x), e)))
  BY <1>1, Laws
<1>3. Times(w, p) = Times(p, w)
  BY Laws
<1>4. Times(Times(c, x), e) = Times(c, Times(x, e))
  BY Laws
<1>5. Times(w, Times(c, Times(x, e))) = Times(Times(w, c), Times(x, e))
  BY <1>1, Laws
<1>6. Times(Times(w, c), Times(x, e)) = Times(x, Times(Times(w, c), e))
  BY <1>1, Swap
<1> QED  BY ONLY <1>2, <1>3, <1>4, <1>5, <1>6

\* and a vector twisted: its polynomial at a multiple of x.
LEMMA TwistedIs ==
    ASSUME NEW len \in Nat, NEW a \in Vector(len), NEW c \in Scalars
    PROVE  /\ TwistedBy(a, c) \in Vector(len)
           /\ \A i \in 1..len : TwistedBy(a, c)[i] = Times(a[i], Power(c, i - 1))
           /\ \A x \in Scalars : Eval(TwistedBy(a, c), x) = Eval(a, Times(c, x))
<1>1. Len(a) = len /\ \A i \in 1..len : a[i] \in Scalars
  BY VectorIs
<1>2. PICK w : w = [i \in 1..len |-> Times(a[i], Power(c, i - 1))]
  OBVIOUS
<1>3. \A i \in 1..(len + 1) : i - 1 \in Nat
  OBVIOUS
<1>4. \A i \in 1..(len + 1) : Power(c, i - 1) \in Scalars
  BY <1>3, PowerIs
<1>5. w \in Vector(len)
  <2>1. \A i \in 1..len : i \in 1..(len + 1)
    OBVIOUS
  <2> QED  BY <1>1, <1>2, <1>4, <2>1, Closed DEF Vector
<1>6. TwistedBy(a, c) = w
  <2>1. Whole(w) = w
    BY <1>5, VectorIs
  <2>2. \A i \in 1..len : Powers(c, len)[i] = Power(c, i - 1)
    BY PowersIs
  <2>3. w = [i \in 1..len |-> Times(a[i], Powers(c, len)[i])]
    BY <1>2, <2>2
  <2> QED  BY <1>1, <2>1, <2>3 DEF TwistedBy
<1>7. ASSUME NEW x \in Scalars PROVE Eval(w, x) = Eval(a, Times(c, x))
  <2>1. PICK y : y = Times(c, x) /\ y \in Scalars
    BY Closed
  <2>2. PICK e : e = HornerOf(y, a)
    OBVIOUS
  <2>3. IsHorner(e, y, a, len)
    BY <2>1, <2>2, HornerIs
  <2>4. /\ \A k \in 1..(len + 1) : e[k] \in Scalars
        /\ e[len + 1] = 0
        /\ \A k \in 1..len : e[k] = Plus(a[k], Times(y, e[k + 1]))
    BY <2>3 DEF IsHorner, Vector
  <2>5. PICK f : f = [k \in 1..(len + 1) |-> Times(Power(c, k - 1), e[k])]
    OBVIOUS
  <2>6. f \in Vector(len + 1)
    BY <1>4, <2>4, <2>5, Closed DEF Vector
  <2>7. f[len + 1] = 0
    <3>1. len + 1 \in 1..(len + 1)
      OBVIOUS
    <3> QED  BY <1>4, <2>4, <2>5, <3>1, TimesZero
  <2>8. ASSUME NEW k \in 1..len PROVE f[k] = Plus(w[k], Times(x, f[k + 1]))
    <3>1. /\ k \in 1..(len + 1) /\ k + 1 \in 1..(len + 1) /\ (k + 1) - 1 = (k - 1) + 1
          /\ k - 1 \in Nat
      OBVIOUS
    <3>2. PICK p, o, d : p = a[k] /\ o = Power(c, k - 1) /\ d = e[k + 1]
      OBVIOUS
    <3>3. p \in Scalars /\ o \in Scalars /\ d \in Scalars
      BY <1>1, <1>4, <2>4, <3>1, <3>2
    <3>4. Times(o, Plus(p, Times(Times(c, x), d))) = Plus(Times(p, o), Times(x, Times(Times(o, c), d)))
      BY <3>3, StepTwisted
    <3>5. Power(c, (k - 1) + 1) = Times(o, c)
      BY <3>1, <3>2, PowerIs
    <3>6. f[k] = Times(o, e[k]) /\ f[k + 1] = Times(Power(c, (k - 1) + 1), d)
      BY <2>5, <3>1, <3>2
    <3>7. e[k] = Plus(p, Times(y, d)) /\ w[k] = Times(p, o)
      BY <1>2, <2>4, <3>2
    <3> QED  BY ONLY <2>1, <3>4, <3>5, <3>6, <3>7
  <2>9. IsHorner(f, x, w, len)
    BY <2>6, <2>7, <2>8 DEF IsHorner
  <2>10. Eval(w, x) = f[1] /\ Eval(a, y) = e[1]
    BY <1>5, <2>1, <2>3, <2>9, EvalIs
  <2>11. f[1] = Times(Power(c, 0), e[1]) /\ e[1] \in Scalars
    <3>1. 1 \in 1..(len + 1) /\ 1 - 1 = 0
      OBVIOUS
    <3> QED  BY <2>4, <2>5, <3>1
  <2>12. Power(c, 0) = 1
    BY PowerIs
  <2> QED  BY <2>1, <2>10, <2>11, <2>12, Laws
<1> QED  BY <1>2, <1>5, <1>6, <1>7

\* The sums a kernel computes are the polynomial's values.
LEMMA SumsIs ==
    ASSUME NEW len \in Nat, NEW a \in Vector(len), NEW omega \in Scalars
    PROVE  /\ Sums(a, omega) \in Vector(len)
           /\ \A i \in 1..len : Sums(a, omega)[i] = Eval(a, Power(omega, i - 1))
<1>1. Len(a) = len
  BY VectorIs
<1>2. PICK w : w = [i \in 1..len |-> Eval(a, Power(omega, i - 1))]
  OBVIOUS
<1>3. \A i \in 1..len : i - 1 \in Nat
  OBVIOUS
<1>4. \A i \in 1..len : Power(omega, i - 1) \in Scalars
  BY <1>3, PowerIs
<1>5. w \in Vector(len)
  BY <1>2, <1>4, EvalIs DEF Vector
<1>6. Sums(a, omega) = w
  <2>1. Whole(w) = w
    BY <1>5, VectorIs
  <2>2. \A i \in 1..len : Powers(omega, len)[i] = Power(omega, i - 1)
    BY PowersIs
  <2>3. w = [i \in 1..len |-> Eval(a, Powers(omega, len)[i])]
    BY <1>2, <2>2
  <2> QED  BY <1>1, <2>1, <2>3 DEF Sums
<1> QED  BY <1>2, <1>5, <1>6

(* ---------------------------------- segments -------------------------------- *)

\* m elements of s after the k-th.
Segment(s, k, m) == [i \in 1..m |-> s[k + i]]

LEMMA SegmentIs ==
    ASSUME NEW len \in Nat, NEW s \in Vector(len), NEW k \in Nat, NEW m \in Nat, k + m <= len
    PROVE  Segment(s, k, m) \in Vector(m) /\ SubSeq(s, k + 1, k + m) = Segment(s, k, m)
<1>1. \A i \in 1..m : k + i \in 1..len
  OBVIOUS
<1>2. Segment(s, k, m) \in Vector(m)
  BY <1>1 DEF Segment, Vector
<1>3. s \in Seq(Scalars) /\ Len(s) = len
  BY VectorIs
<1>4. (k + m) - (k + 1) + 1 = m /\ \A i \in 1..m : (k + 1) + i - 1 = k + i
  OBVIOUS
<1>5. SubSeq(s, k + 1, k + m) = [i \in 1..((k + m) - (k + 1) + 1) |-> s[(k + 1) + i - 1]]
  BY <1>3
<1>6. SubSeq(s, k + 1, k + m) = Segment(s, k, m)
  BY <1>4, <1>5 DEF Segment
<1> QED  BY <1>2, <1>6

\* One step of Horner's rule before a segment's end.
LEMMA StepSegment ==
    ASSUME NEW p \in Scalars, NEW x \in Scalars, NEW g \in Scalars, NEW w \in Scalars,
           NEW e \in Scalars
    PROVE  Plus(p, Times(x, Plus(g, Times(w, e))))
               = Plus(Plus(p, Times(x, g)), Times(Times(w, x), e))
<1>1. Times(w, e) \in Scalars /\ Times(x, g) \in Scalars /\ Times(x, Times(w, e)) \in Scalars
  BY Closed
<1>2. Times(x, Plus(g, Times(w, e))) = Plus(Times(x, g), Times(x, Times(w, e)))
  BY <1>1, Laws
<1>3. Plus(Plus(p, Times(x, g)), Times(x, Times(w, e))) = Plus(p, Plus(Times(x, g), Times(x, Times(w, e))))
  BY <1>1, Laws
<1>4. Times(x, Times(w, e)) = Times(w, Times(x, e)) /\ Times(Times(w, x), e) = Times(w, Times(x, e))
  BY Swap, Laws
<1> QED  BY ONLY <1>2, <1>3, <1>4

\* What Horner's rule gains over a segment.
LEMMA HornerSegment ==
    ASSUME NEW len \in Nat, NEW s \in Vector(len), NEW x \in Scalars, NEW e, IsHorner(e, x, s, len),
           NEW k \in Nat, NEW m \in Nat, k + m <= len
    PROVE  e[k + 1] = Plus(Eval(Segment(s, k, m), x), Times(Power(x, m), e[(k + m) + 1]))
<1>1. PICK t : t = Segment(s, k, m) /\ t \in Vector(m)
  BY SegmentIs
<1>2. PICK g : IsHorner(g, x, t, m) /\ Eval(t, x) = g[1]
  BY <1>1, HornerIs, EvalIs
<1>3. /\ \A i \in 1..(m + 1) : g[i] \in Scalars
      /\ g[m + 1] = 0
      /\ \A i \in 1..m : g[i] = Plus(t[i], Times(x, g[i + 1]))
  BY <1>2 DEF IsHorner, Vector
<1>4. /\ \A i \in 1..(len + 1) : e[i] \in Scalars
      /\ \A i \in 1..len : e[i] = Plus(s[i], Times(x, e[i + 1]))
  BY DEF IsHorner, Vector
<1>5. PICK z : z = e[(k + m) + 1] /\ z \in Scalars
  <2>1. (k + m) + 1 \in 1..(len + 1)
    OBVIOUS
  <2> QED  BY <1>4, <2>1
<1> DEFINE S == {i \in 1..(m + 1) : e[k + i] = Plus(g[i], Times(Power(x, (m + 1) - i), z))}
<1>6. m + 1 \in S
  <2>1. m + 1 \in 1..(m + 1) /\ k + (m + 1) = (k + m) + 1 /\ (m + 1) - (m + 1) = 0 /\ 0 \in Nat
    OBVIOUS
  <2>2. Power(x, 0) = 1 /\ Times(1, z) = z /\ Plus(0, z) = z
    BY <1>5, <2>1, PowerIs, Laws
  <2>3. e[k + (m + 1)] = Plus(g[m + 1], Times(Power(x, (m + 1) - (m + 1)), z))
    BY ONLY <1>3, <1>5, <2>1, <2>2
  <2> QED  BY <2>1, <2>3
<1>7. ASSUME NEW i \in 1..m, i + 1 \in S PROVE i \in S
  <2>1. /\ i \in 1..(m + 1) /\ i + 1 \in 1..(m + 1) /\ k + i \in 1..len /\ (k + i) + 1 = k + (i + 1)
        /\ m - i \in Nat /\ (m + 1) - (i + 1) = m - i /\ (m - i) + 1 = (m + 1) - i
    OBVIOUS
  <2>2. PICK p, q, w : p = s[k + i] /\ q = g[i + 1] /\ w = Power(x, m - i)
    OBVIOUS
  <2>3. p \in Scalars /\ q \in Scalars /\ w \in Scalars
    <3>1. p \in Scalars
      BY <2>1, <2>2 DEF Vector
    <3>2. q \in Scalars
      BY <1>3, <2>1, <2>2
    <3> QED  BY <2>1, <2>2, <3>1, <3>2, PowerIs
  <2>4. e[k + (i + 1)] = Plus(q, Times(Power(x, (m + 1) - (i + 1)), z))
    BY <1>7, <2>2
  <2>5. e[k + i] = Plus(p, Times(x, e[(k + i) + 1]))
    BY <1>4, <2>1, <2>2
  <2>6. g[i] = Plus(p, Times(x, q))
    BY <1>1, <1>3, <2>2 DEF Segment
  <2>7. Power(x, (m - i) + 1) = Times(w, x)
    BY <2>1, <2>2, PowerIs
  <2>8. Plus(p, Times(x, Plus(q, Times(w, z)))) = Plus(Plus(p, Times(x, q)), Times(Times(w, x), z))
    BY <1>5, <2>3, StepSegment
  <2>9. e[k + i] = Plus(g[i], Times(Power(x, (m + 1) - i), z))
    BY ONLY <2>1, <2>2, <2>4, <2>5, <2>6, <2>7, <2>8
  <2> QED  BY <2>1, <2>9
<1> HIDE DEF S
<1>8. 1..(m + 1) \subseteq S
  BY <1>6, <1>7, SuffixInduction
<1>9. 1 \in S
  BY <1>8
<1>10. e[k + 1] = Plus(g[1], Times(Power(x, (m + 1) - 1), z))
  BY <1>9 DEF S
<1>11. (m + 1) - 1 = m
  OBVIOUS
<1> QED  BY ONLY <1>1, <1>2, <1>5, <1>10, <1>11

\* The values of the pieces of m elements each.
ArePieces(values, s, x, m, count) ==
    \A j \in 1..count : values[j] = Eval(Segment(s, (j - 1) * m, m), x)

\* A polynomial cut into pieces: their values folded with a power.
LEMMA EvalPieces ==
    ASSUME NEW count \in Nat, NEW m \in Nat, NEW s \in Vector(count * m), NEW x \in Scalars,
           NEW values \in Vector(count), ArePieces(values, s, x, m, count)
    PROVE  Eval(s, x) = Eval(values, Power(x, m))
<1>1. PICK len : len = count * m /\ len \in Nat
  OBVIOUS
<1>2. PICK e : IsHorner(e, x, s, len) /\ Eval(s, x) = e[1]
  BY <1>1, HornerIs, EvalIs
<1>3. \A i \in 1..(len + 1) : e[i] \in Scalars
  BY <1>2 DEF IsHorner, Vector
<1>4. ASSUME NEW j \in 0..count PROVE j * m \in Nat /\ j * m <= len
  <2>1. (count - j) * m \in Nat
    OBVIOUS
  <2>2. j * m \in Nat /\ (count - j) * m = (count * m) - (j * m)
    OBVIOUS
  <2> QED  BY <1>1, <2>1, <2>2
<1>5. PICK f : f = [j \in 1..(count + 1) |-> e[((j - 1) * m) + 1]]
  OBVIOUS
<1>6. f \in Vector(count + 1)
  <2>1. ASSUME NEW j \in 1..(count + 1) PROVE e[((j - 1) * m) + 1] \in Scalars
    <3>1. PICK k : k = (j - 1) * m
      OBVIOUS
    <3>2. j - 1 \in 0..count
      OBVIOUS
    <3>3. k \in Nat /\ k <= len
      BY <1>4, <3>1, <3>2
    <3>4. k + 1 \in 1..(len + 1)
      BY <1>1, <3>3
    <3> QED  BY <1>3, <3>1, <3>4
  <2> QED  BY <1>5, <2>1 DEF Vector
<1>7. f[count + 1] = 0
  <2>1. count + 1 \in 1..(count + 1) /\ (count + 1) - 1 = count
    OBVIOUS
  <2>2. f[count + 1] = e[len + 1]
    BY ONLY <1>1, <1>5, <2>1
  <2> QED  BY <1>2, <2>2 DEF IsHorner
<1>8. ASSUME NEW j \in 1..count
      PROVE  f[j] = Plus(values[j], Times(Power(x, m), f[j + 1]))
  <2>1. PICK k : k = (j - 1) * m
    OBVIOUS
  <2>2. j - 1 \in 0..count /\ j \in 0..count /\ (j - 1) * m + m = j * m
    OBVIOUS
  <2>3. k \in Nat /\ k + m = j * m /\ k + m <= len
    BY <1>4, <2>1, <2>2
  <2>4. e[k + 1] = Plus(Eval(Segment(s, k, m), x), Times(Power(x, m), e[(k + m) + 1]))
    BY <1>1, <1>2, <2>3, HornerSegment
  <2>5. values[j] = Eval(Segment(s, k, m), x)
    BY <2>1 DEF ArePieces
  <2>6. j \in 1..(count + 1) /\ j + 1 \in 1..(count + 1) /\ (j + 1) - 1 = j
    OBVIOUS
  <2>7. f[j] = e[k + 1] /\ f[j + 1] = e[(j * m) + 1]
    BY ONLY <1>5, <2>1, <2>6
  <2> QED  BY ONLY <2>3, <2>4, <2>5, <2>7
<1>9. PICK y : y = Power(x, m) /\ y \in Scalars
  BY PowerIs
<1>10. IsHorner(f, y, values, count)
  BY <1>6, <1>7, <1>8, <1>9 DEF IsHorner
<1>11. Eval(values, y) = f[1]
  BY <1>9, <1>10, EvalIs
<1>12. f[1] = e[1]
  <2>1. 1 \in 1..(count + 1) /\ ((1 - 1) * m) + 1 = 1
    OBVIOUS
  <2> QED  BY ONLY <1>5, <2>1
<1> QED  BY <1>2, <1>9, <1>11, <1>12

(* ----------------------------------- sums ----------------------------------- *)

\* f adds up the elements of v, from the first on.
Accumulates(f, v, len) ==
    f[0] = v[1] /\ \A i \in 0..(len - 2) : f[i + 1] = Plus(f[i], v[i + 2])

\* The sum from either end.
LEMMA ForwardSum ==
    ASSUME NEW len \in Nat \ {0}, NEW v \in Vector(len), NEW f, Accumulates(f, v, len)
    PROVE  f[len - 1] = Eval(v, 1)
<1>1. PICK e : IsHorner(e, 1, v, len) /\ Eval(v, 1) = e[1]
  BY HornerIs, EvalIs, Closed
<1>2. \A k \in 1..(len + 1) : e[k] \in Scalars
  BY <1>1 DEF IsHorner, Vector
<1>3. \A k \in 1..len : e[k] = Plus(v[k], e[k + 1]) /\ v[k] \in Scalars
  <2>1. SUFFICES ASSUME NEW k \in 1..len PROVE e[k] = Plus(v[k], e[k + 1]) /\ v[k] \in Scalars
    OBVIOUS
  <2>2. e[k] = Plus(v[k], Times(1, e[k + 1]))
    BY <1>1 DEF IsHorner
  <2>3. e[k + 1] \in Scalars
    BY <1>2
  <2> QED  BY <2>2, <2>3, Laws DEF Vector
<1> DEFINE S == {i \in 0..(len - 1) : f[i] \in Scalars /\ Plus(f[i], e[i + 2]) = e[1]}
<1>4. 0 \in S
  <2>1. 1 \in 1..len /\ 0 \in 0..(len - 1) /\ 0 + 2 = 1 + 1
    OBVIOUS
  <2>2. e[1] = Plus(v[1], e[1 + 1]) /\ v[1] \in Scalars
    BY <1>3, <2>1
  <2> QED  BY <2>1, <2>2 DEF Accumulates
<1>5. ASSUME NEW i \in 0..((len - 1) - 1), i \in S PROVE i + 1 \in S
  <2>1. i \in 0..(len - 2) /\ i + 1 \in 0..(len - 1) /\ i + 2 \in 1..len /\ (i + 2) + 1 = (i + 1) + 2
        /\ (i + 1) + 2 \in 1..(len + 1)
    OBVIOUS
  <2>2. f[i + 1] = Plus(f[i], v[i + 2])
    BY <2>1 DEF Accumulates
  <2>3. f[i] \in Scalars /\ Plus(f[i], e[i + 2]) = e[1]
    BY <1>5
  <2>4. e[i + 2] = Plus(v[i + 2], e[(i + 1) + 2]) /\ v[i + 2] \in Scalars /\ e[(i + 1) + 2] \in Scalars
    BY <1>2, <1>3, <2>1
  <2>5. Plus(Plus(f[i], v[i + 2]), e[(i + 1) + 2]) = Plus(f[i], Plus(v[i + 2], e[(i + 1) + 2]))
    BY <2>3, <2>4, Laws
  <2>6. Plus(f[i], v[i + 2]) \in Scalars
    BY <2>3, <2>4, Closed
  <2> QED  BY <2>1, <2>2, <2>3, <2>4, <2>5, <2>6
<1> HIDE DEF S
<1>6. 0..(len - 1) \subseteq S
  <2>1. len - 1 \in Nat
    OBVIOUS
  <2> QED  BY <1>4, <1>5, <2>1, BoundedInduction
<1>7. len - 1 \in S
  BY <1>6
<1>8. f[len - 1] \in Scalars /\ Plus(f[len - 1], e[(len - 1) + 2]) = e[1]
  BY <1>7 DEF S
<1>9. (len - 1) + 2 = len + 1
  OBVIOUS
<1>10. e[len + 1] = 0
  BY <1>1 DEF IsHorner
<1> QED  BY <1>1, <1>8, <1>9, <1>10, Laws

\* len ones.
Ones(len) == [i \in 1..len |-> 1]

\* One more power.
LEMMA StepGeometric ==
    ASSUME NEW y \in Scalars, NEW d \in Scalars, NEW e \in Scalars, Plus(1, d) = y
    PROVE  Plus(1, Times(d, Plus(1, Times(y, e)))) = Times(y, Plus(1, Times(d, e)))
<1>1. Times(y, e) \in Scalars /\ Times(d, e) \in Scalars /\ 1 \in Scalars
  BY Closed
<1>2. Times(d, Plus(1, Times(y, e))) = Plus(Times(d, 1), Times(d, Times(y, e)))
  BY <1>1, Laws
<1>3. Times(d, 1) = d /\ Times(y, 1) = y
  BY Laws
<1>4. Times(d, Times(y, e)) = Times(y, Times(d, e))
  BY Swap
<1>5. Times(y, Times(d, e)) \in Scalars
  BY <1>1, Closed
<1>6. Plus(1, Plus(d, Times(y, Times(d, e)))) = Plus(Plus(1, d), Times(y, Times(d, e)))
  BY <1>1, <1>5, Laws
<1>7. Times(y, Plus(1, Times(d, e))) = Plus(Times(y, 1), Times(y, Times(d, e)))
  BY <1>1, Laws
<1> QED  BY ONLY <1>2, <1>3, <1>4, <1>6, <1>7, Plus(1, d) = y

\* The sum of the powers of a root of unity: nothing, unless the root is one.
LEMMA Geometric ==
    ASSUME NEW len \in Nat, NEW y \in Scalars, Power(y, len) = 1
    PROVE  Eval(Ones(len), y) = IF y = 1 THEN len % Prime ELSE 0
<1>1. PICK v : v = Ones(len) /\ v \in Vector(len) /\ \A k \in 1..len : v[k] = 1
  <2>1. PICK v : v = Ones(len)
    OBVIOUS
  <2>2. v \in Vector(len) /\ \A k \in 1..len : v[k] = 1
    BY <2>1, Closed DEF Ones, Vector
  <2> QED  BY <2>1, <2>2
<1>2. PICK e : IsHorner(e, y, v, len) /\ Eval(v, y) = e[1]
  BY <1>1, HornerIs, EvalIs
<1>3. /\ \A k \in 1..(len + 1) : e[k] \in Scalars
      /\ e[len + 1] = 0
      /\ \A k \in 1..len : e[k] = Plus(1, Times(y, e[k + 1]))
  BY <1>1, <1>2 DEF IsHorner, Vector
<1>4. CASE y # 1
  <2>1. PICK d : d = Minus(y, 1) /\ d \in Scalars /\ Plus(1, d) = y
    BY MinusIs, Closed
  <2> DEFINE S == {k \in 1..(len + 1) : Plus(1, Times(d, e[k])) = Power(y, (len + 1) - k)}
  <2>2. len + 1 \in S
    <3>1. len + 1 \in 1..(len + 1) /\ (len + 1) - (len + 1) = 0
      OBVIOUS
    <3>2. Power(y, 0) = 1
      BY PowerIs
    <3>3. Times(d, 0) = 0 /\ Plus(1, 0) = 1
      BY <2>1, TimesZero, Laws, Closed
    <3> QED  BY <1>3, <3>1, <3>2, <3>3
  <2>3. ASSUME NEW k \in 1..len, k + 1 \in S PROVE k \in S
    <3>1. /\ k \in 1..(len + 1) /\ k + 1 \in 1..(len + 1) /\ (len + 1) - (k + 1) = len - k
          /\ len - k \in Nat /\ (len - k) + 1 = (len + 1) - k
      OBVIOUS
    <3>2. PICK z : z = e[k + 1] /\ z \in Scalars
      BY <1>3, <3>1
    <3>3. Plus(1, Times(d, z)) = Power(y, len - k)
      BY <2>3, <3>1, <3>2
    <3>4. Power(y, (len - k) + 1) = Times(Power(y, len - k), y) /\ Power(y, len - k) \in Scalars
      BY <3>1, PowerIs
    <3>5. Times(Power(y, len - k), y) = Times(y, Power(y, len - k))
      BY <3>4, Laws
    <3>6. Plus(1, Times(d, Plus(1, Times(y, z)))) = Times(y, Plus(1, Times(d, z)))
      BY <2>1, <3>2, StepGeometric
    <3>7. e[k] = Plus(1, Times(y, z))
      BY <1>3, <3>2
    <3>8. Plus(1, Times(d, e[k])) = Power(y, (len + 1) - k)
      BY ONLY <3>1, <3>3, <3>4, <3>5, <3>6, <3>7
    <3> QED  BY <3>1, <3>8
  <2> HIDE DEF S
  <2>4. 1..(len + 1) \subseteq S
    BY <2>2, <2>3, SuffixInduction
  <2>5. 1 \in S
    BY <2>4
  <2>6. Plus(1, Times(d, e[1])) = Power(y, (len + 1) - 1)
    BY <2>5 DEF S
  <2>7. (len + 1) - 1 = len /\ 1 \in 1..(len + 1)
    OBVIOUS
  <2>8. e[1] \in Scalars /\ Times(d, e[1]) \in Scalars /\ Plus(1, 0) = 1
    BY <1>3, <2>1, <2>7, Closed, Laws
  <2>9. Times(d, e[1]) = 0
    <3>1. Plus(1, Times(d, e[1])) = Plus(1, 0)
      BY <2>6, <2>7, <2>8
    <3> QED  BY <2>8, <3>1, CancelPlus, Closed
  <2>10. d # 0
    BY <1>4, <2>1, Laws, Closed
  <2>11. e[1] = 0
    BY <2>1, <2>8, <2>9, <2>10, NoZeroDivisors
  <2> QED  BY <1>1, <1>2, <1>4, <2>11
<1>5. CASE y = 1
  <2>1. PICK p : p = Prime /\ p \in Nat /\ p > 2 /\ p > 0
    BY ScalarsAre
  <2> DEFINE S == {k \in 1..(len + 1) : e[k] = ((len + 1) - k) % p}
  <2>2. len + 1 \in S
    <3>1. len + 1 \in 1..(len + 1) /\ (len + 1) - (len + 1) = 0 /\ 0 \in 0..(p - 1) /\ 0 = (p * 0) + 0
      BY <2>1
    <3>2. 0 % p = 0
      BY <2>1, <3>1, DivisionUnique
    <3> QED  BY <1>3, <3>1, <3>2
  <2>3. ASSUME NEW k \in 1..len, k + 1 \in S PROVE k \in S
    <3>1. /\ k \in 1..(len + 1) /\ k + 1 \in 1..(len + 1) /\ (len + 1) - (k + 1) = len - k
          /\ len - k \in Int /\ 1 + (len - k) = (len + 1) - k
      OBVIOUS
    <3>2. e[k + 1] = (len - k) % p
      BY <2>3, <3>1
    <3>3. e[k] = Plus(1, Times(y, e[k + 1])) /\ e[k + 1] \in Scalars
      BY <1>3, <3>1
    <3>4. Times(1, e[k + 1]) = e[k + 1]
      BY <3>3, Laws
    <3>5. PICK r : r = len - k /\ r \in Int
      BY <3>1
    <3>6. (1 + (r % p)) % p = (r + 1) % p
      <4>1. PICK o : o = 1 /\ o \in Int
        OBVIOUS
      <4>2. (o + (r % p)) % p = (r + o) % p
        BY ONLY <2>1, <3>5, <4>1, ReducedFirst
      <4> QED  BY <4>1, <4>2
    <3>7. r + 1 = (len + 1) - k
      BY <3>5
    <3>8. e[k] = (1 + (r % p)) % p
      BY ONLY <1>5, <2>1, <3>2, <3>3, <3>4, <3>5 DEF Plus
    <3>9. e[k] = ((len + 1) - k) % p
      BY ONLY <3>6, <3>7, <3>8
    <3> QED  BY <3>1, <3>9
  <2> HIDE DEF S
  <2>4. 1..(len + 1) \subseteq S
    BY <2>2, <2>3, SuffixInduction
  <2>5. 1 \in S
    BY <2>4
  <2>6. e[1] = ((len + 1) - 1) % p
    BY <2>5 DEF S
  <2>7. (len + 1) - 1 = len
    OBVIOUS
  <2> QED  BY <1>1, <1>2, <1>5, <2>1, <2>6, <2>7
<1> QED  BY <1>4, <1>5

(* ----------------------------- inverse transforms --------------------------- *)

\* w has order m, v is its inverse and d that of m.
IsRoot(w, v, d, m) ==
    /\ w \in Scalars /\ v \in Scalars /\ d \in Scalars /\ Times(v, w) = 1
    /\ Power(w, m) = 1 /\ \A i \in 1..(m - 1) : Power(w, i) # 1
    /\ Times(d, m % Prime) = 1

\* Powers of a root and of its inverse cancel only at equal exponents.
LEMMA RootProducts ==
    ASSUME NEW m \in Nat \ {0}, NEW w, NEW v, NEW d, IsRoot(w, v, d, m),
           NEW i \in 0..(m - 1), NEW j \in 0..(m - 1)
    PROVE  /\ Power(Times(Power(v, i), Power(w, j)), m) = 1
           /\ Times(Power(v, i), Power(w, j)) = 1 <=> i = j
<1>1. w \in Scalars /\ v \in Scalars /\ Times(v, w) = 1 /\ Power(w, m) = 1
  BY DEF IsRoot
<1>2. \A k \in Nat : Power(v, k) \in Scalars /\ Power(w, k) \in Scalars /\ Times(Power(v, k), Power(w, k)) = 1
  <2>1. SUFFICES ASSUME NEW k \in Nat
                 PROVE  /\ Power(v, k) \in Scalars /\ Power(w, k) \in Scalars
                        /\ Times(Power(v, k), Power(w, k)) = 1
    OBVIOUS
  <2>2. Power(Times(v, w), k) = Times(Power(v, k), Power(w, k))
    BY <1>1, PowerTimes
  <2> QED  BY <1>1, <2>2, PowerIs, PowerOne
<1>3. i \in Nat /\ j \in Nat /\ m \in Nat
  OBVIOUS
<1>4. Power(v, m) = 1
  <2>1. Power(v, m) \in Scalars /\ Times(Power(v, m), 1) = 1
    BY <1>1, <1>2, <1>3
  <2> QED  BY <2>1, Laws
<1>5. \A k \in Nat : Power(Power(v, k), m) = 1 /\ Power(Power(w, k), m) = 1
  <2>1. SUFFICES ASSUME NEW k \in Nat PROVE Power(Power(v, k), m) = 1 /\ Power(Power(w, k), m) = 1
    OBVIOUS
  <2>2. Power(Power(v, k), m) = Power(v, k * m) /\ Power(Power(v, m), k) = Power(v, m * k)
    BY <1>1, <1>3, PowerPower
  <2>3. Power(Power(w, k), m) = Power(w, k * m) /\ Power(Power(w, m), k) = Power(w, m * k)
    BY <1>1, <1>3, PowerPower
  <2>4. k * m = m * k /\ Power(1, k) = 1
    BY <1>3, PowerOne
  <2> QED  BY ONLY <1>1, <1>4, <2>2, <2>3, <2>4
<1>6. Power(Times(Power(v, i), Power(w, j)), m) = 1
  <2>1. Power(Times(Power(v, i), Power(w, j)), m) = Times(Power(Power(v, i), m), Power(Power(w, j), m))
    BY <1>2, <1>3, PowerTimes
  <2> QED  BY <1>3, <1>5, <2>1, Laws, Closed
<1>7. ASSUME i < j PROVE Times(Power(v, i), Power(w, j)) # 1
  <2>1. PICK t : t = j - i
    OBVIOUS
  <2>2. t \in 1..(m - 1) /\ t \in Nat /\ i + t = j
    BY <1>7, <2>1
  <2>3. Power(w, i + t) = Times(Power(w, i), Power(w, t))
    BY <1>1, <1>3, <2>2, PowerIs
  <2>4. Times(Times(Power(v, i), Power(w, i)), Power(w, t)) = Times(Power(v, i), Times(Power(w, i), Power(w, t)))
    BY <1>2, <1>3, <2>2, Laws
  <2>5. Times(1, Power(w, t)) = Power(w, t) /\ Times(Power(v, i), Power(w, i)) = 1
    BY <1>2, <1>3, <2>2, Laws
  <2>6. Power(w, t) # 1
    BY <2>2 DEF IsRoot
  <2> QED  BY ONLY <2>2, <2>3, <2>4, <2>5, <2>6
<1>8. ASSUME j < i PROVE Times(Power(v, i), Power(w, j)) # 1
  <2>1. PICK t : t = i - j
    OBVIOUS
  <2>2. t \in 1..(m - 1) /\ t \in Nat /\ t + j = i
    BY <1>8, <2>1
  <2>3. Power(v, t + j) = Times(Power(v, t), Power(v, j))
    BY <1>1, <1>3, <2>2, PowerIs
  <2>4. Times(Times(Power(v, t), Power(v, j)), Power(w, j)) = Times(Power(v, t), Times(Power(v, j), Power(w, j)))
    BY <1>2, <1>3, <2>2, Laws
  <2>5. Times(Power(v, t), 1) = Power(v, t) /\ Times(Power(v, j), Power(w, j)) = 1
    BY <1>2, <1>3, <2>2, Laws
  <2>6. Power(v, t) # 1
    <3>1. SUFFICES ASSUME Power(v, t) = 1 PROVE FALSE
      OBVIOUS
    <3>2. Times(1, Power(w, t)) = 1 /\ Power(w, t) \in Scalars
      BY <1>2, <2>2, <3>1
    <3>3. Power(w, t) = 1
      BY <3>2, Laws
    <3> QED  BY <2>2, <3>3 DEF IsRoot
  <2> QED  BY ONLY <2>2, <2>3, <2>4, <2>5, <2>6
<1>9. i = j => Times(Power(v, i), Power(w, j)) = 1
  BY <1>2, <1>3
<1>10. i < j \/ j < i \/ i = j
  BY <1>3
<1> QED  BY <1>6, <1>7, <1>8, <1>9, <1>10

\* The polynomials of the powers of v's powers, scaled by a vector's elements.
Scalings(a, v, m) == [j \in 1..m |-> ScaledBy(Powers(Power(v, j - 1), m), a[j])]

LEMMA ScalingsAre ==
    ASSUME NEW m \in Nat, NEW a \in Vector(m), NEW v \in Scalars
    PROVE  /\ Scalings(a, v, m) \in Polynomials(m, m)
           /\ \A j \in 1..m, k \in 1..m :
                 Scalings(a, v, m)[j][k] = Times(a[j], Power(Power(v, k - 1), j - 1))
           /\ \A j \in 1..m, x \in Scalars :
                 Eval(Scalings(a, v, m)[j], x) = Times(a[j], Eval(Ones(m), Times(Power(v, j - 1), x)))
<1>1. ASSUME NEW j \in 1..m
      PROVE  /\ Scalings(a, v, m)[j] \in Vector(m)
             /\ \A k \in 1..m : Scalings(a, v, m)[j][k] = Times(a[j], Power(Power(v, k - 1), j - 1))
             /\ \A x \in Scalars :
                   Eval(Scalings(a, v, m)[j], x) = Times(a[j], Eval(Ones(m), Times(Power(v, j - 1), x)))
  <2>1. PICK c, b, p : c = Power(v, j - 1) /\ b = a[j] /\ p = Powers(c, m)
    OBVIOUS
  <2>2. j - 1 \in Nat
    OBVIOUS
  <2>3. c \in Scalars /\ b \in Scalars
    BY <2>1, <2>2, PowerIs DEF Vector
  <2>4. p \in Vector(m) /\ \A k \in 1..m : p[k] = Power(c, k - 1)
    BY <2>1, <2>3, PowersIs
  <2>5. PICK s : s = ScaledBy(p, b)
    OBVIOUS
  <2>6. Scalings(a, v, m)[j] = s
    BY <2>1, <2>5 DEF Scalings
  <2>7. /\ s \in Vector(m) /\ \A k \in 1..m : s[k] = Times(p[k], b)
        /\ \A x \in Scalars : Eval(s, x) = Times(b, Eval(p, x))
    BY <2>3, <2>4, <2>5, ScaledIs
  <2>8. ASSUME NEW k \in 1..m PROVE s[k] = Times(b, Power(Power(v, k - 1), j - 1))
    <3>1. k - 1 \in Nat /\ (j - 1) * (k - 1) = (k - 1) * (j - 1)
      OBVIOUS
    <3>2. Power(c, k - 1) = Power(v, (j - 1) * (k - 1))
      BY <2>1, <2>2, <3>1, PowerPower
    <3>3. Power(Power(v, k - 1), j - 1) = Power(v, (k - 1) * (j - 1))
      BY <2>2, <3>1, PowerPower
    <3>4. Power(c, k - 1) = Power(Power(v, k - 1), j - 1) /\ Power(c, k - 1) \in Scalars
      BY <2>3, <3>1, <3>2, <3>3, PowerIs
    <3>5. s[k] = Times(Power(c, k - 1), b)
      BY <2>4, <2>7
    <3> QED  BY <2>3, <3>4, <3>5, Laws
  <2>9. ASSUME NEW x \in Scalars PROVE Eval(p, x) = Eval(Ones(m), Times(c, x))
    <3>1. PICK o : o = Ones(m)
      OBVIOUS
    <3>2. o \in Vector(m) /\ \A k \in 1..m : o[k] = 1
      BY <3>1, Closed DEF Ones, Vector
    <3>3. /\ TwistedBy(o, c) \in Vector(m)
          /\ \A k \in 1..m : TwistedBy(o, c)[k] = Times(o[k], Power(c, k - 1))
          /\ Eval(TwistedBy(o, c), x) = Eval(o, Times(c, x))
      BY <2>3, <3>2, TwistedIs
    <3>4. ASSUME NEW k \in 1..m PROVE TwistedBy(o, c)[k] = p[k]
      <4>1. k - 1 \in Nat
        OBVIOUS
      <4>2. Power(c, k - 1) \in Scalars
        BY <2>3, <4>1, PowerIs
      <4> QED  BY <2>4, <3>2, <3>3, <4>2, Laws
    <3>5. TwistedBy(o, c) = p
      BY <2>4, <3>3, <3>4 DEF Vector
    <3> QED  BY <3>1, <3>3, <3>5
  <2> QED  BY <2>1, <2>6, <2>7, <2>8, <2>9
<1>2. Scalings(a, v, m) \in Polynomials(m, m)
  <2>1. Scalings(a, v, m) = [j \in 1..m |-> Scalings(a, v, m)[j]]
    BY DEF Scalings
  <2> QED  BY <1>1, <2>1 DEF Polynomials
<1> QED  BY <1>1, <1>2

\* The inverse transform: a polynomial that takes a vector's values on the domain.
LEMMA InverseIs ==
    ASSUME NEW m \in Nat \ {0}, NEW w, NEW v, NEW d, IsRoot(w, v, d, m), NEW a \in Vector(m)
    PROVE  /\ ScaledBy(Sums(a, v), d) \in Vector(m)
           /\ \A r \in 1..m : Eval(ScaledBy(Sums(a, v), d), Power(w, r - 1)) = a[r]
<1>1. w \in Scalars /\ v \in Scalars /\ d \in Scalars /\ Times(d, m % Prime) = 1 /\ m \in Nat
  BY DEF IsRoot
<1>2. PICK fold : fold = Sums(a, v)
  OBVIOUS
<1>3. fold \in Vector(m) /\ \A i \in 1..m : fold[i] = Eval(a, Power(v, i - 1))
  BY <1>1, <1>2, SumsIs
<1>4. /\ ScaledBy(fold, d) \in Vector(m)
      /\ \A x \in Scalars : Eval(ScaledBy(fold, d), x) = Times(d, Eval(fold, x))
  BY <1>1, <1>3, ScaledIs
<1>5. PICK polys0 : polys0 = Scalings(a, v, m)
  OBVIOUS
<1>6. /\ polys0 \in Polynomials(m, m)
      /\ \A j \in 1..m, k \in 1..m : polys0[j][k] = Times(a[j], Power(Power(v, k - 1), j - 1))
      /\ \A j \in 1..m, x \in Scalars :
            Eval(polys0[j], x) = Times(a[j], Eval(Ones(m), Times(Power(v, j - 1), x)))
  BY <1>1, <1>5, ScalingsAre
<1>7. FoldsColumns(fold, polys0, 1, m, m)
  <2>1. SUFFICES ASSUME NEW k \in 1..m PROVE fold[k] = Eval(Column(polys0, m, k), 1)
    BY DEF FoldsColumns
  <2>2. PICK c : c = Power(v, k - 1)
    OBVIOUS
  <2>3. k - 1 \in Nat
    OBVIOUS
  <2>4. c \in Scalars
    BY <1>1, <2>2, <2>3, PowerIs
  <2>5. /\ TwistedBy(a, c) \in Vector(m)
        /\ \A j \in 1..m : TwistedBy(a, c)[j] = Times(a[j], Power(c, j - 1))
        /\ Eval(TwistedBy(a, c), 1) = Eval(a, Times(c, 1))
    BY <1>1, <2>4, TwistedIs, Closed
  <2>6. \A j \in 1..m : polys0[j][k] = TwistedBy(a, c)[j]
    BY <1>6, <2>2, <2>5
  <2>7. Column(polys0, m, k) = TwistedBy(a, c)
    <3>1. TwistedBy(a, c) = [j \in 1..m |-> TwistedBy(a, c)[j]]
      BY <2>5 DEF Vector
    <3> QED  BY <2>6, <3>1 DEF Column
  <2>8. Times(c, 1) = c
    BY <2>4, Laws
  <2> QED  BY <1>3, <2>2, <2>5, <2>7, <2>8
<1>8. ASSUME NEW r \in 1..m PROVE Eval(ScaledBy(fold, d), Power(w, r - 1)) = a[r]
  <2>1. r - 1 \in 0..(m - 1) /\ r - 1 \in Nat
    OBVIOUS
  <2>2. PICK z : z = Power(w, r - 1) /\ z \in Scalars
    BY <1>1, <2>1, PowerIs
  <2>3. PICK values : values = [j \in 1..m |-> Eval(polys0[j], z)]
    OBVIOUS
  <2>4. PICK b : b = m % Prime /\ b \in Scalars
    BY <1>1, Division, ScalarsAre DEF Scalars
  <2>5. ASSUME NEW j \in 1..m PROVE values[j] = IF j = r THEN Times(a[j], b) ELSE 0
    <3>1. j - 1 \in 0..(m - 1) /\ j - 1 \in Nat /\ (j - 1 = r - 1 <=> j = r)
      OBVIOUS
    <3>2. PICK y : y = Times(Power(v, j - 1), z)
      OBVIOUS
    <3>3. Power(y, m) = 1 /\ (y = 1 <=> j = r)
      BY ONLY <2>1, <2>2, <3>1, <3>2, IsRoot(w, v, d, m), m \in Nat \ {0}, RootProducts
    <3>4. y \in Scalars
      BY <1>1, <2>2, <3>1, <3>2, PowerIs, Closed
    <3>5. Eval(Ones(m), y) = IF y = 1 THEN b ELSE 0
      BY <1>1, <2>4, <3>3, <3>4, Geometric
    <3>6. values[j] = Times(a[j], Eval(Ones(m), y))
      BY <1>6, <2>2, <2>3, <3>2
    <3>7. a[j] \in Scalars
      BY DEF Vector
    <3>8. Times(a[j], 0) = 0
      BY <3>7, TimesZero
    <3> QED  BY ONLY <3>3, <3>5, <3>6, <3>8
  <2>6. values \in Vector(m)
    <3>1. \A j \in 1..m : a[j] \in Scalars
      BY DEF Vector
    <3>2. \A j \in 1..m : values[j] \in Scalars
      BY <2>4, <2>5, <3>1, Closed
    <3> QED  BY <2>3, <3>2 DEF Vector
  <2>7. AreValues(values, polys0, z, m)
    BY <2>3 DEF AreValues
  <2>8. Eval(fold, z) = Eval(values, 1)
    BY ONLY <1>1, <1>3, <1>6, <1>7, <2>2, <2>6, <2>7, FoldColumns, Closed
  <2>9. Eval(values, 1) = values[r]
    BY <1>1, <2>5, <2>6, TotalSingle
  <2>10. values[r] = Times(a[r], b) /\ a[r] \in Scalars
    BY <2>5 DEF Vector
  <2>11. Times(d, Times(a[r], b)) = Times(a[r], Times(d, b))
    BY <1>1, <2>4, <2>10, Swap
  <2>12. Times(a[r], 1) = a[r]
    BY <2>10, Laws
  <2>13. Eval(ScaledBy(fold, d), z) = Times(d, Eval(fold, z))
    BY <1>4, <2>2
  <2> QED  BY ONLY <1>1, <2>2, <2>4, <2>8, <2>9, <2>10, <2>11, <2>12, <2>13
<1> QED  BY <1>2, <1>4, <1>8

(* --------------------------------- the domains ------------------------------ *)

\* f doubles m times from one.
IsDoubling(f, m) ==
    /\ f \in [0..m -> Nat] /\ f[0] = 1
    /\ \A i \in 0..(m - 1) : f[i + 1] = 2 * f[i]

LEMMA DoublingExists ==
    ASSUME NEW m \in Nat
    PROVE  \E f : IsDoubling(f, m)
<1>1. PICK step : step = [p \in Nat \X Nat |-> 2 * p[2]]
  OBVIOUS
<1>2. \A i \in Nat, x \in Nat : step[<<i, x>>] = 2 * x
  BY <1>1
<1>3. step \in [Nat \X Nat -> Nat]
  BY <1>1
<1>4. PICK f : IsRun(f, Nat, 1, step, m)
  BY <1>3, RunExists
<1>5. /\ f \in [0..m -> Nat] /\ f[0] = 1
      /\ \A i \in 0..(m - 1) : f[i + 1] = step[<<i, f[i]>>]
  BY <1>4 DEF IsRun
<1>6. \A i \in 0..(m - 1) : i \in Nat /\ f[i] \in Nat
  BY <1>5
<1>7. \A i \in 0..(m - 1) : f[i + 1] = 2 * f[i]
  BY <1>2, <1>5, <1>6
<1> QED  BY <1>5, <1>7 DEF IsDoubling

\* Any of them is the one computed.
LEMMA TwoToUpTo ==
    ASSUME NEW m \in Nat, NEW f, IsDoubling(f, m), NEW k \in 0..m
    PROVE  TwoTo(k) = f[k]
<1> DEFINE IsDoubled(g) == g = [i \in 0..k |-> IF i = 0 THEN 1 ELSE 2 * g[i - 1]]
           power == CHOOSE g : IsDoubled(g)
<1>1. /\ \A i \in 0..m : f[i] \in Nat
      /\ f[0] = 1 /\ \A i \in 0..(m - 1) : f[i + 1] = 2 * f[i]
  BY DEF IsDoubling
<1>2. k \in Nat /\ \A i \in 0..k : i # 0 => i - 1 \in 0..(m - 1) /\ (i - 1) + 1 = i /\ i - 1 \in 0..k
  OBVIOUS
<1>3. PICK h0 : h0 = [i \in 0..k |-> f[i]]
  OBVIOUS
<1>4. \A i \in 0..k : f[i] = IF i = 0 THEN 1 ELSE 2 * f[i - 1]
  BY <1>1, <1>2
<1>5. IsDoubled(h0)
  <2>1. \A i \in 0..k : h0[i] = IF i = 0 THEN 1 ELSE 2 * h0[i - 1]
    BY <1>2, <1>3, <1>4
  <2> QED  BY <1>3, <2>1
<1>6. IsDoubled(power)
  BY <1>5
<1>7. TwoTo(k) = power[k]
  BY DEF TwoTo
<1> HIDE DEF power
<1>8. \A i \in 0..k : power[i] = IF i = 0 THEN 1 ELSE 2 * power[i - 1]
  BY <1>6
<1> DEFINE S == {i \in 0..k : power[i] = f[i]}
<1>9. 0 \in S
  BY <1>1, <1>2, <1>8
<1>10. ASSUME NEW i \in 0..(k - 1), i \in S PROVE i + 1 \in S
  <2>1. i + 1 \in 0..k /\ i + 1 # 0 /\ (i + 1) - 1 = i
    OBVIOUS
  <2>2. power[i + 1] = 2 * power[i] /\ f[i + 1] = 2 * f[i] /\ power[i] = f[i]
    BY <1>4, <1>8, <1>10, <2>1
  <2> QED  BY <2>1, <2>2
<1> HIDE DEF S
<1>11. 0..k \subseteq S
  BY <1>2, <1>9, <1>10, BoundedInduction
<1>12. k \in S
  BY <1>2, <1>11
<1> QED  BY <1>7, <1>12 DEF S

\* Powers of two, one from the other.
LEMMA TwoToNext ==
    ASSUME NEW k \in Nat
    PROVE  TwoTo(k) \in Nat /\ TwoTo(0) = 1 /\ TwoTo(k + 1) = 2 * TwoTo(k)
<1>1. k + 1 \in Nat /\ k \in 0..(k + 1) /\ 0 \in 0..(k + 1) /\ k + 1 \in 0..(k + 1) /\ k \in 0..((k + 1) - 1)
  OBVIOUS
<1>2. PICK f : IsDoubling(f, k + 1)
  BY <1>1, DoublingExists
<1>3. \A i \in 0..(k + 1) : TwoTo(i) = f[i]
  BY <1>1, <1>2, TwoToUpTo
<1>4. f[k] \in Nat /\ f[0] = 1 /\ f[k + 1] = 2 * f[k]
  BY <1>1, <1>2 DEF IsDoubling
<1> QED  BY <1>1, <1>3, <1>4

\* They are positive, and their exponents add up.
LEMMA TwoToIs ==
    ASSUME NEW i \in Nat, NEW j \in Nat
    PROVE  TwoTo(i) \in Nat \ {0} /\ TwoTo(i + j) = TwoTo(i) * TwoTo(j)
<1> DEFINE S == {k \in 0..i : TwoTo(k) \in Nat \ {0}}
           T == {k \in 0..j : TwoTo(i + k) = TwoTo(i) * TwoTo(k)}
<1>1. 0 \in S
  BY TwoToNext
<1>2. ASSUME NEW k \in 0..(i - 1), k \in S PROVE k + 1 \in S
  <2>1. k \in Nat /\ k + 1 \in 0..i /\ TwoTo(k) \in Nat \ {0}
    BY <1>2
  <2>2. TwoTo(k + 1) = 2 * TwoTo(k)
    BY <2>1, TwoToNext
  <2> QED  BY <2>1, <2>2
<1>3. 0 \in T
  <2>1. TwoTo(0) = 1 /\ i + 0 = i /\ TwoTo(i) \in Nat /\ 0 \in 0..j
    BY TwoToNext
  <2> QED  BY <2>1
<1>4. ASSUME NEW k \in 0..(j - 1), k \in T PROVE k + 1 \in T
  <2>1. k \in Nat /\ k + 1 \in 0..j /\ i + k \in Nat /\ i + (k + 1) = (i + k) + 1
    OBVIOUS
  <2>2. PICK a, b : a = TwoTo(i) /\ b = TwoTo(k)
    OBVIOUS
  <2>3. TwoTo(i + k) = a * b /\ a \in Nat /\ b \in Nat
    BY <1>4, <2>1, <2>2, TwoToNext
  <2>4. TwoTo((i + k) + 1) = 2 * TwoTo(i + k) /\ TwoTo(k + 1) = 2 * b
    BY <2>1, <2>2, TwoToNext
  <2>5. 2 * (a * b) = a * (2 * b)
    BY <2>3
  <2>6. TwoTo(i + (k + 1)) = TwoTo(i) * TwoTo(k + 1)
    BY ONLY <2>1, <2>2, <2>3, <2>4, <2>5
  <2> QED  BY <2>1, <2>6
<1> HIDE DEF S, T
<1>5. 0..i \subseteq S /\ 0..j \subseteq T
  BY <1>1, <1>2, <1>3, <1>4, BoundedInduction
<1>6. i \in S /\ j \in T
  BY <1>5
<1> QED  BY <1>6 DEF S, T

\* A power is zero only of zero.
LEMMA PowerNonzero ==
    ASSUME NEW a \in Scalars, a # 0, NEW k \in Nat
    PROVE  Power(a, k) # 0
<1> DEFINE S == {i \in 0..k : Power(a, i) # 0}
<1>1. 0 \in S
  BY PowerIs, Closed
<1>2. ASSUME NEW i \in 0..(k - 1), i \in S PROVE i + 1 \in S
  <2>1. i \in Nat /\ i + 1 \in 0..k /\ Power(a, i) # 0
    BY <1>2
  <2>2. Power(a, i + 1) = Times(Power(a, i), a) /\ Power(a, i) \in Scalars
    BY <2>1, PowerIs
  <2> QED  BY <2>1, <2>2, NoZeroDivisors
<1> HIDE DEF S
<1>3. 0..k \subseteq S
  BY <1>1, <1>2, BoundedInduction
<1>4. k \in S
  BY <1>3
<1> QED  BY <1>4 DEF S

\* The sizes of the domains are not zero in the field.
LEMMA TwoToNonzero ==
    ASSUME NEW k \in Nat
    PROVE  TwoTo(k) % Prime \in Scalars /\ TwoTo(k) % Prime # 0
<1>1. PICK p : p = Prime /\ p \in Nat /\ p > 2 /\ p > 0
  BY ScalarsAre
<1>2. 2 \in Scalars /\ 2 # 0
  BY ScalarsAre
<1> DEFINE S == {i \in 0..k : TwoTo(i) % p = Power(2, i)}
<1>3. 0 \in S
  <2>1. 1 % p = 1
    <3>1. 1 \in 0..(p - 1) /\ 1 = (p * 0) + 1
      BY <1>1
    <3> QED  BY <1>1, <3>1, DivisionUnique
  <2> QED  BY <1>2, <2>1, TwoToNext, PowerIs
<1>4. ASSUME NEW i \in 0..(k - 1), i \in S PROVE i + 1 \in S
  <2>1. i \in Nat /\ i + 1 \in 0..k /\ TwoTo(i) % p = Power(2, i)
    BY <1>4
  <2>2. PICK t, o, c : t = TwoTo(i) /\ o = 2 /\ c = Power(2, i)
    OBVIOUS
  <2>3. t \in Int /\ o \in Int /\ TwoTo(i + 1) = o * t /\ c \in Scalars
    BY <1>2, <2>1, <2>2, TwoToNext, PowerIs
  <2>4. ((t % p) * o) % p = (t * o) % p
    BY ONLY <1>1, <2>3, ReducedFirst
  <2>5. o * t = t * o
    BY <2>3
  <2>6. Power(2, i + 1) = Times(c, o)
    BY <1>2, <2>1, <2>2, PowerIs
  <2>7. TwoTo(i + 1) % p = Power(2, i + 1)
    BY ONLY <1>1, <2>1, <2>2, <2>3, <2>4, <2>5, <2>6 DEF Times
  <2> QED  BY <2>1, <2>7
<1> HIDE DEF S
<1>5. 0..k \subseteq S
  BY <1>3, <1>4, BoundedInduction
<1>6. k \in S
  BY <1>5
<1>7. TwoTo(k) % p = Power(2, k)
  BY <1>6 DEF S
<1>8. PICK o : o = 2 /\ o \in Scalars /\ o # 0
  BY <1>2
<1>9. Power(o, k) \in Scalars /\ Power(o, k) # 0
  BY <1>8, PowerIs, PowerNonzero
<1> QED  BY ONLY <1>1, <1>7, <1>8, <1>9

\* The sizes of the domains.
LEMMA SizesAre ==
    /\ K \in Nat \ {0} /\ ExtendedK \in Nat /\ ExtendedK - K \in Nat /\ n \in Nat \ {0}
    /\ ExtendedLen \in Nat \ {0} /\ NumParts \in Nat \ {0} /\ ExtendedLen = n * NumParts
    /\ QuotientPolyDegree \in Nat \ {0} /\ QuotientPolyDegree <= NumParts
    /\ DenseDegree \in Nat /\ DenseDegree <= K
<1>1. K \in Nat \ {0} /\ ExtendedK \in Nat /\ K <= ExtendedK /\ QuotientPolyDegree \in 1..NumParts
      /\ DenseDegree \in 0..K
  BY DomainAssumption
<1>2. ExtendedK - K \in Nat /\ K + (ExtendedK - K) = ExtendedK
  BY <1>1
<1>3. TwoTo(K) \in Nat \ {0} /\ TwoTo(ExtendedK - K) \in Nat \ {0} /\ TwoTo(ExtendedK) \in Nat \ {0}
  BY <1>1, <1>2, TwoToIs
<1>4. TwoTo(K + (ExtendedK - K)) = TwoTo(K) * TwoTo(ExtendedK - K)
  BY <1>1, <1>2, TwoToIs
<1>5. NumParts \in Nat
  BY <1>3 DEF NumParts
<1> QED  BY <1>1, <1>2, <1>3, <1>4, <1>5 DEF n, ExtendedLen, NumParts

\* Both generators have their domain's order.
LEMMA RootsAre ==
    /\ IsRoot(Omega, OmegaInv, IfftDivisor, n)
    /\ IsRoot(ExtendedOmega, Inverted(ExtendedOmega), Inverted(ExtendedLen % Prime), ExtendedLen)
    /\ Zeta \in Scalars /\ Zeta # 0 /\ ExtendedOmega # 0 /\ Omega # 0
<1>1. /\ Omega \in Scalars /\ Omega # 0 /\ ExtendedOmega \in Scalars /\ ExtendedOmega # 0
      /\ Zeta \in Scalars /\ Zeta # 0
      /\ Power(ExtendedOmega, NumParts) = Omega /\ Power(ExtendedOmega, ExtendedLen) = 1
      /\ \A i \in 1..(ExtendedLen - 1) : Power(ExtendedOmega, i) # 1
  BY DomainAssumption
<1>2. PICK l, s, e : l = n /\ s = NumParts /\ e = ExtendedLen
  OBVIOUS
<1>3. l \in Nat \ {0} /\ s \in Nat \ {0} /\ e \in Nat \ {0} /\ e = l * s
  BY <1>2, SizesAre
<1>4. ASSUME NEW a \in Scalars, a # 0
      PROVE  Inverted(a) \in Scalars /\ Times(Inverted(a), a) = 1 /\ Times(a, Inverted(a)) = 1
  BY <1>4, InvertedType, Laws
<1>5. l % Prime \in Scalars /\ l % Prime # 0 /\ e % Prime \in Scalars /\ e % Prime # 0
  BY <1>2, SizesAre, TwoToNonzero DEF n, ExtendedLen
<1>6. \A i \in Nat : Power(Omega, i) = Power(ExtendedOmega, s * i)
  BY <1>1, <1>2, <1>3, PowerPower
<1>7. Power(Omega, l) = 1
  <2>1. s * l = e
    BY <1>3
  <2> QED  BY <1>1, <1>2, <1>3, <1>6, <2>1
<1>8. ASSUME NEW i \in 1..(l - 1) PROVE Power(Omega, i) # 1
  <2>1. i \in Nat /\ i >= 1 /\ l - i \in Int /\ l - i >= 1
    BY <1>3
  <2>2. s * i >= s /\ s * (l - i) >= s
    BY <1>3, <2>1, MultipleAtLeast
  <2>3. s * (l - i) = e - (s * i) /\ s * i \in Int
    BY <1>3, <2>1
  <2>4. s * i \in 1..(e - 1)
    BY <1>3, <2>2, <2>3
  <2>5. Power(ExtendedOmega, s * i) # 1
    BY <1>1, <1>2, <2>4
  <2> QED  BY <1>6, <2>1, <2>5
<1>9. IsRoot(Omega, OmegaInv, IfftDivisor, n)
  BY <1>1, <1>2, <1>4, <1>5, <1>7, <1>8 DEF IsRoot, OmegaInv, IfftDivisor
<1>10. IsRoot(ExtendedOmega, Inverted(ExtendedOmega), Inverted(ExtendedLen % Prime), ExtendedLen)
  BY <1>1, <1>2, <1>4, <1>5 DEF IsRoot
<1> QED  BY <1>1, <1>9, <1>10

(* -------------------------------- split radix ------------------------------- *)

\* q and r are quotient and remainder of k by m.
Split(k, m, q, r) == q = k \div m /\ r = k % m

\* Division of a natural number.
LEMMA NatDivision ==
    ASSUME NEW m \in Nat \ {0}, NEW k \in Nat, NEW q, NEW r, Split(k, m, q, r)
    PROVE  r \in 0..(m - 1) /\ r \in Nat /\ q \in Nat /\ m * q \in Nat /\ k = (m * q) + r
<1>1. m \in Nat /\ m > 0 /\ k \in Int
  OBVIOUS
<1>2. r \in 0..(m - 1) /\ q \in Int /\ k = (m * q) + r
  BY <1>1, Division DEF Split
<1>3. ~ (-q >= 1)
  <2>1. SUFFICES ASSUME -q >= 1 PROVE FALSE
    OBVIOUS
  <2>2. -q \in Int /\ m * (-q) = -(m * q) /\ m * q \in Int
    BY <1>1, <1>2
  <2>3. m * (-q) >= m
    BY <1>1, <2>1, <2>2, MultipleAtLeast
  <2> QED  BY <1>1, <1>2, <2>2, <2>3
<1>4. q \in Nat
  BY <1>2, <1>3
<1> QED  BY <1>1, <1>2, <1>4

\* How large a quotient is.
LEMMA QuotientBelow ==
    ASSUME NEW m \in Nat \ {0}, NEW c \in Nat, NEW k \in Nat, k < m * c,
           NEW p, NEW r, Split(k, m, p, r)
    PROVE  p \in 0..(c - 1)
<1>2. r \in 0..(m - 1) /\ p \in Nat /\ k = (m * p) + r
  BY NatDivision
<1>3. ~ (p - c >= 0)
  <2>1. SUFFICES ASSUME p - c >= 0 PROVE FALSE
    OBVIOUS
  <2>2. m * (p - c) >= 0
    BY <1>2, <2>1
  <2>3. m * (p - c) = (m * p) - (m * c) /\ m * p \in Int /\ m * c \in Int
    BY <1>2
  <2> QED  BY <1>2, <2>2, <2>3
<1> QED  BY <1>2, <1>3

\* An element among count times m: which of the m, in which of the count.
LEMMA PlaceWithin ==
    ASSUME NEW m \in Nat, NEW count \in Nat, NEW j \in 1..count, NEW t \in 1..m
    PROVE  ((j - 1) * m) + t \in 1..(count * m) /\ (j - 1) * m \in Nat
           /\ ((j - 1) * m) + m <= count * m
<1>1. (j - 1) * m \in Nat /\ (count - j) * m \in Nat
  OBVIOUS
<1>2. ((count - j) * m) + ((j - 1) * m) + m = count * m
  OBVIOUS
<1> QED  BY <1>1, <1>2

\* Exponents matter only up to a multiple of the order.
LEMMA PowerMod ==
    ASSUME NEW a \in Scalars, NEW m \in Nat \ {0}, Power(a, m) = 1, NEW k \in Nat
    PROVE  Power(a, k % m) = Power(a, k)
<1>1. PICK q, r : Split(k, m, q, r) /\ r = k % m
  BY DEF Split
<1>2. q \in Nat /\ r \in Nat /\ m * q \in Nat /\ k = (m * q) + r /\ m \in Nat
  BY <1>1, NatDivision
<1>3. Power(a, m * q) = Power(Power(a, m), q)
  BY <1>2, PowerPower
<1>4. Power(1, q) = 1
  BY <1>2, PowerOne
<1>5. Power(a, (m * q) + r) = Times(Power(a, m * q), Power(a, r))
  BY <1>2, PowerIs
<1>6. Times(1, Power(a, r)) = Power(a, r)
  BY <1>2, PowerIs, Laws
<1> QED  BY ONLY <1>1, <1>2, <1>3, <1>4, <1>5, <1>6, Power(a, m) = 1

\* The table of the twiddles has every power of the generator.
LEMMA TwiddleIs ==
    ASSUME NEW omega \in Scalars, NEW log \in Nat, DenseDegree <= log, Power(omega, TwoTo(log)) = 1,
           NEW k \in Nat
    PROVE  Twiddle(OmegaLut(omega, log), k % TwoTo(log)) = Power(omega, k)
<1>1. PICK l, d, c : l = TwoTo(log) /\ d = TwoTo(DenseDegree) /\ c = TwoTo(log - DenseDegree)
  OBVIOUS
<1>2. DenseDegree \in Nat /\ log - DenseDegree \in Nat /\ DenseDegree + (log - DenseDegree) = log
  BY SizesAre
<1>3. l \in Nat \ {0} /\ d \in Nat \ {0} /\ c \in Nat \ {0} /\ l = d * c
  <2>1. TwoTo(DenseDegree + (log - DenseDegree)) = TwoTo(DenseDegree) * TwoTo(log - DenseDegree)
    BY <1>2, TwoToIs
  <2> QED  BY <1>1, <1>2, <2>1, TwoToIs
<1>4. PICK i : i = k % l
  OBVIOUS
<1>5. i \in Nat /\ i < d * c
  <2>1. PICK f : Split(k, l, f, i)
    BY <1>4 DEF Split
  <2>2. i \in 0..(l - 1)
    BY <1>3, <2>1, NatDivision
  <2> QED  BY <1>3, <2>2
<1>6. PICK q, r : q = i \div d /\ r = i % d /\ Split(i, d, q, r)
  BY DEF Split
<1>7. r \in 0..(d - 1) /\ r \in Nat /\ q \in Nat /\ i = (d * q) + r /\ q \in 0..(c - 1)
  <2>1. r \in 0..(d - 1) /\ r \in Nat /\ q \in Nat /\ i = (d * q) + r
    BY ONLY <1>3, <1>5, <1>6, NatDivision
  <2>2. q \in 0..(c - 1)
    BY ONLY <1>3, <1>5, <1>6, QuotientBelow
  <2> QED  BY <2>1, <2>2
<1>8. PICK o : o = Power(omega, d) /\ o \in Scalars
  BY <1>3, PowerIs
<1>9. PICK low, high : low = Powers(omega, d) /\ high = Powers(o, c)
  OBVIOUS
<1>10. /\ low \in Vector(d) /\ \A e \in 1..d : low[e] = Power(omega, e - 1)
       /\ high \in Vector(c) /\ \A e \in 1..c : high[e] = Power(o, e - 1)
  BY <1>3, <1>8, <1>9, PowersIs
<1>11. low \in Seq(Scalars) /\ Len(low) = d /\ high \in Seq(Scalars) /\ Len(high) = c
  BY <1>3, <1>10, VectorIs
<1>12. OmegaLut(omega, log) = low \o high
  BY <1>1, <1>8, <1>9 DEF OmegaLut
<1>13. (low \o high)[1 + r] = low[1 + r]
  <2>1. 1 + r \in 1..d
    BY <1>3, <1>7
  <2> QED  BY <1>11, <2>1
<1>14. (low \o high)[1 + d + q] = high[1 + q]
  <2>1. 1 + d + q \in (d + 1)..(d + c) /\ (1 + d + q) - d = 1 + q
    BY <1>3, <1>7
  <2> QED  BY <1>3, <1>11, <2>1
<1>15. low[1 + r] = Power(omega, r)
  <2>1. 1 + r \in 1..d /\ (1 + r) - 1 = r
    BY <1>3, <1>7
  <2> QED  BY <1>10, <2>1
<1>16. high[1 + q] = Power(o, q)
  <2>1. 1 + q \in 1..c /\ (1 + q) - 1 = q
    BY <1>3, <1>7
  <2> QED  BY <1>10, <2>1
<1>17. Power(o, q) = Power(omega, d * q)
  BY <1>3, <1>7, <1>8, PowerPower
<1>18. Power(omega, (d * q) + r) = Times(Power(omega, d * q), Power(omega, r))
  <2>1. d * q \in Nat
    BY <1>3, <1>7
  <2> QED  BY <1>7, <2>1, PowerIs
<1>19. Times(Power(omega, r), Power(omega, d * q)) = Times(Power(omega, d * q), Power(omega, r))
  <2>1. d * q \in Nat
    BY <1>3, <1>7
  <2> QED  BY <1>7, <2>1, PowerIs, Laws
<1>20. Twiddle(low \o high, i) = Times((low \o high)[1 + r], (low \o high)[1 + d + q])
  BY <1>1, <1>6 DEF Twiddle
<1>21. Power(omega, i) = Power(omega, k)
  BY <1>1, <1>3, <1>4, PowerMod
<1> QED  BY ONLY <1>1, <1>4, <1>7, <1>12, <1>13, <1>14, <1>15, <1>16, <1>17, <1>18, <1>19, <1>20,
         <1>21

\* The sum a fold on the host leaves.
LEMMA AccumulatorIs ==
    ASSUME NEW len \in Nat \ {0}, NEW v \in Vector(len)
    PROVE  /\ \E f : f = [s \in 0..(len - 1) |-> IF s = 0 THEN v[1] ELSE Plus(f[s - 1], v[s + 1])]
           /\ \A f : f = [s \in 0..(len - 1) |-> IF s = 0 THEN v[1] ELSE Plus(f[s - 1], v[s + 1])]
                       => f[len - 1] = Eval(v, 1)
<1>1. \A k \in 1..len : v[k] \in Scalars
  BY DEF Vector
<1>2. PICK step : step = [p \in Nat \X Scalars |->
                             IF p[1] + 2 <= len THEN Plus(p[2], v[p[1] + 2]) ELSE p[2]]
  OBVIOUS
<1>3. \A i \in Nat, x \in Scalars : step[<<i, x>>] = IF i + 2 <= len THEN Plus(x, v[i + 2]) ELSE x
  BY <1>2
<1>4. step \in [Nat \X Scalars -> Scalars]
  <2>1. \A i \in Nat : i + 2 <= len => i + 2 \in 1..len
    OBVIOUS
  <2>2. \A i \in Nat, x \in Scalars : i + 2 <= len => Plus(x, v[i + 2]) \in Scalars
    BY <1>1, <2>1, Closed
  <2>3. \A i \in Nat, x \in Scalars : step[<<i, x>>] \in Scalars
    BY <1>3, <2>2
  <2> QED  BY <1>2, <2>3
<1>5. len - 1 \in Nat /\ v[1] \in Scalars
  BY <1>1
<1>6. PICK r : IsRun(r, Scalars, v[1], step, len - 1)
  BY <1>4, <1>5, RunExists
<1>7. /\ r \in [0..(len - 1) -> Scalars] /\ r[0] = v[1]
      /\ \A i \in 0..((len - 1) - 1) : r[i + 1] = step[<<i, r[i]>>]
  BY <1>6 DEF IsRun
<1>8. \A s \in 0..(len - 1) : r[s] = IF s = 0 THEN v[1] ELSE Plus(r[s - 1], v[s + 1])
  <2>1. SUFFICES ASSUME NEW s \in 0..(len - 1), s # 0 PROVE r[s] = Plus(r[s - 1], v[s + 1])
    BY <1>7
  <2>2. PICK i : i = s - 1
    OBVIOUS
  <2>3. i \in 0..((len - 1) - 1) /\ i + 1 = s /\ i \in Nat /\ i + 2 <= len /\ i + 2 = s + 1 /\ i \in 0..(len - 1)
    BY <2>1, <2>2
  <2>4. r[i + 1] = step[<<i, r[i]>>] /\ r[i] \in Scalars
    BY <1>7, <2>3
  <2>5. step[<<i, r[i]>>] = Plus(r[i], v[i + 2])
    BY <1>3, <2>3, <2>4
  <2> QED  BY ONLY <2>2, <2>3, <2>4, <2>5
<1>9. r = [s \in 0..(len - 1) |-> IF s = 0 THEN v[1] ELSE Plus(r[s - 1], v[s + 1])]
  BY <1>7, <1>8
<1>10. ASSUME NEW f, f = [s \in 0..(len - 1) |-> IF s = 0 THEN v[1] ELSE Plus(f[s - 1], v[s + 1])]
       PROVE  f[len - 1] = Eval(v, 1)
  <2>1. \A s \in 0..(len - 1) : f[s] = IF s = 0 THEN v[1] ELSE Plus(f[s - 1], v[s + 1])
    BY <1>10
  <2>2. f[0] = v[1]
    BY <1>5, <2>1
  <2>3. ASSUME NEW i \in 0..(len - 2) PROVE f[i + 1] = Plus(f[i], v[i + 2])
    <3>1. i + 1 \in 0..(len - 1) /\ i + 1 # 0 /\ (i + 1) - 1 = i /\ (i + 1) + 1 = i + 2
      OBVIOUS
    <3> QED  BY <2>1, <3>1
  <2>4. Accumulates(f, v, len)
    BY <2>2, <2>3 DEF Accumulates
  <2> QED  BY <2>4, ForwardSum
<1> QED  BY <1>9, <1>10

\* What one output of a prologue sums: the inputs a residue apart, each twisted.
Terms(a, omega, j, i, m, s) ==
    [t \in 1..s |-> Times(a[((t - 1) * m) + i], Power(omega, ((i - 1) * j) + ((t - 1) * j * m)))]

LEMMA PrologueIs ==
    ASSUME NEW omega \in Scalars, NEW log \in Nat, DenseDegree <= log, Power(omega, TwoTo(log)) = 1,
           NEW e \in Nat, e <= log, NEW a \in Vector(TwoTo(log)), NEW j \in Nat,
           NEW m, m = TwoTo(log - e), NEW s, s = TwoTo(e)
    PROVE  /\ Prologue(a, omega, j, log, e) \in Vector(m)
           /\ \A i \in 1..m : /\ Terms(a, omega, j, i, m, s) \in Vector(s)
                              /\ Prologue(a, omega, j, log, e)[i] = Eval(Terms(a, omega, j, i, m, s), 1)
<1> DEFINE lut  == OmegaLut(omega, log)
           logN == log - e
           term(i, t) == Times(a[1 + ((i + t * TwoTo(logN)) % TwoTo(log))],
                               Twiddle(lut, (i * j + t * j * TwoTo(logN)) % TwoTo(log)))
           IsUpto(i, f) == f = [t \in 0..(TwoTo(e) - 1) |->
                                   IF t = 0 THEN term(i, 0) ELSE Plus(f[t - 1], term(i, t))]
           upto(i) == CHOOSE f : IsUpto(i, f)
<1>1. Prologue(a, omega, j, log, e) = Whole([i1 \in 1..TwoTo(logN) |-> upto(i1 - 1)[TwoTo(e) - 1]])
  BY DEF Prologue
<1>2. PICK l : l = TwoTo(log)
  OBVIOUS
<1>3. l \in Nat \ {0} /\ m \in Nat \ {0} /\ s \in Nat \ {0} /\ l = s * m
  <2>1. log - e \in Nat /\ e + (log - e) = log
    OBVIOUS
  <2>2. TwoTo(e + (log - e)) = TwoTo(e) * TwoTo(log - e)
    BY <2>1, TwoToIs
  <2> QED  BY <1>2, <2>1, <2>2, TwoToIs
<1>4. ASSUME NEW i \in 1..m, NEW t \in 0..(s - 1)
      PROVE  /\ a[(t * m) + i] \in Scalars
             /\ Power(omega, ((i - 1) * j) + (t * j * m)) \in Scalars
             /\ term(i - 1, t) = Times(a[(t * m) + i], Power(omega, ((i - 1) * j) + (t * j * m)))
  <2>1. PICK p : p = (i - 1) + (t * m)
    OBVIOUS
  <2>2. t * m \in Nat /\ ((s - 1) - t) * m \in Nat /\ ((s - 1) - t) * m = (s * m) - m - (t * m)
    BY <1>3
  <2>3. p \in 0..(l - 1) /\ 1 + p = (t * m) + i /\ (t * m) + i \in 1..l
    BY <1>3, <2>1, <2>2
  <2>4. p % l = p
    <3>1. p = (l * 0) + p /\ p \in Int /\ l \in Nat /\ l > 0
      BY <1>3, <2>3
    <3> QED  BY <2>3, <3>1, DivisionUnique
  <2>5. a[(t * m) + i] \in Scalars
    BY <1>2, <2>3 DEF Vector
  <2>6. PICK k : k = ((i - 1) * j) + (t * j * m)
    OBVIOUS
  <2>7. k \in Nat
    <3>1. (i - 1) * j \in Nat /\ t * j \in Nat
      OBVIOUS
    <3>2. (t * j) * m \in Nat
      BY <1>3, <3>1
    <3> QED  BY <2>6, <3>1, <3>2
  <2>8. Twiddle(OmegaLut(omega, log), k % TwoTo(log)) = Power(omega, k)
    BY ONLY <2>7, omega \in Scalars, log \in Nat, DenseDegree <= log, Power(omega, TwoTo(log)) = 1,
            TwiddleIs
  <2>9. Power(omega, k) \in Scalars
    BY <2>7, PowerIs
  <2> QED  BY ONLY <1>2, <2>1, <2>3, <2>4, <2>5, <2>6, <2>8, <2>9, m = TwoTo(log - e)
<1>5. ASSUME NEW i \in 1..m
      PROVE  /\ Terms(a, omega, j, i, m, s) \in Vector(s)
             /\ upto(i - 1)[TwoTo(e) - 1] = Eval(Terms(a, omega, j, i, m, s), 1)
  <2>1. PICK v : v = Terms(a, omega, j, i, m, s)
    OBVIOUS
  <2>2. \A t \in 1..s : t - 1 \in 0..(s - 1)
    BY <1>3
  <2>3. \A t \in 1..s : v[t] = term(i - 1, t - 1) /\ v[t] \in Scalars
    <3>1. SUFFICES ASSUME NEW t \in 1..s PROVE v[t] = term(i - 1, t - 1) /\ v[t] \in Scalars
      OBVIOUS
    <3>2. PICK u, k : u = t - 1 /\ k = ((i - 1) * j) + (u * j * m)
      OBVIOUS
    <3>3. u \in 0..(s - 1)
      BY <2>2, <3>2
    <3>4. a[(u * m) + i] \in Scalars /\ Power(omega, k) \in Scalars
          /\ term(i - 1, u) = Times(a[(u * m) + i], Power(omega, k))
      BY ONLY <1>4, <3>2, <3>3, i \in 1..m
    <3>5. v[t] = Times(a[(u * m) + i], Power(omega, k))
      BY <2>1, <3>2 DEF Terms
    <3> QED  BY ONLY <3>2, <3>4, <3>5, Closed
  <2>4. v \in Vector(s)
    BY <2>1, <2>3 DEF Terms, Vector
  <2> HIDE DEF term
  <2>5. \A t \in 0..(s - 1) : term(i - 1, t) = v[t + 1]
    <3>1. \A t \in 0..(s - 1) : t + 1 \in 1..s /\ (t + 1) - 1 = t
      BY <1>3
    <3> QED  BY <2>3, <3>1
  <2>6. 0 \in 0..(s - 1) /\ 0 + 1 = 1
    BY <1>3
  <2>7. ASSUME NEW f
        PROVE  IsUpto(i - 1, f) <=>
                   f = [t \in 0..(s - 1) |-> IF t = 0 THEN v[1] ELSE Plus(f[t - 1], v[t + 1])]
    <3>1. [t \in 0..(s - 1) |-> IF t = 0 THEN term(i - 1, 0) ELSE Plus(f[t - 1], term(i - 1, t))]
            = [t \in 0..(s - 1) |-> IF t = 0 THEN v[1] ELSE Plus(f[t - 1], v[t + 1])]
      BY <2>5, <2>6
    <3> QED  BY <3>1
  <2> HIDE DEF IsUpto
  <2>8. \E f : IsUpto(i - 1, f)
    <3>1. PICK f : f = [t \in 0..(s - 1) |-> IF t = 0 THEN v[1] ELSE Plus(f[t - 1], v[t + 1])]
      BY <1>3, <2>4, AccumulatorIs
    <3> QED  BY <2>7, <3>1
  <2>9. IsUpto(i - 1, upto(i - 1))
    BY <2>8
  <2> HIDE DEF upto
  <2>10. upto(i - 1)[s - 1] = Eval(v, 1)
    <3>1. PICK g : g = upto(i - 1)
      OBVIOUS
    <3>2. g = [t \in 0..(s - 1) |-> IF t = 0 THEN v[1] ELSE Plus(g[t - 1], v[t + 1])]
      BY <2>7, <2>9, <3>1
    <3>3. g[s - 1] = Eval(v, 1)
      BY <1>3, <2>4, <3>2, AccumulatorIs
    <3> QED  BY <3>1, <3>3
  <2> QED  BY <2>1, <2>4, <2>10
<1> HIDE DEF upto
<1>6. PICK w : w = [i1 \in 1..m |-> upto(i1 - 1)[TwoTo(e) - 1]]
  OBVIOUS
<1>7. \A i \in 1..m : w[i] = Eval(Terms(a, omega, j, i, m, s), 1) /\ w[i] \in Scalars
  <2>1. SUFFICES ASSUME NEW i \in 1..m
                 PROVE  w[i] = Eval(Terms(a, omega, j, i, m, s), 1) /\ w[i] \in Scalars
    OBVIOUS
  <2>2. PICK v : v = Terms(a, omega, j, i, m, s)
    OBVIOUS
  <2>3. v \in Vector(s) /\ w[i] = Eval(v, 1)
    BY <1>5, <1>6, <2>2
  <2> QED  BY <1>3, <2>2, <2>3, EvalIs, Closed
<1>8. w \in Vector(m)
  BY <1>6, <1>7 DEF Vector
<1>9. Prologue(a, omega, j, log, e) = w
  <2>1. Whole(w) = w
    BY <1>3, <1>8, VectorIs
  <2> QED  BY <1>1, <1>6, <2>1
<1> QED  BY <1>5, <1>7, <1>8, <1>9

\* flat has c vectors of m elements, one after the other.
Laid(flat, seqs, c, m) ==
    /\ flat \in Vector(c * m)
    /\ \A j \in 1..c, t \in 1..m : flat[((j - 1) * m) + t] = seqs[j][t]

\* Vectors of one length flattened.
LEMMA FlattenEqual ==
    ASSUME NEW c \in Nat \ {0}, NEW m \in Nat, NEW seqs \in Polynomials(c, m)
    PROVE  Laid(FlattenSeq(seqs), seqs, c, m)
<1>1. \A j \in 1..c : seqs[j] \in Vector(m) /\ seqs[j] \in Seq(Scalars) /\ Len(seqs[j]) = m
  BY VectorIs DEF Polynomials
<1>2. seqs \in Seq(Seq(Scalars)) /\ Len(seqs) = c
  <2>1. seqs \in [1..c -> Seq(Scalars)]
    BY <1>1 DEF Polynomials
  <2> QED  BY <2>1, IsSequence
<1>3. PICK f : IsFlattening(f, seqs, Scalars) /\ FlattenSeq(seqs) = f[c]
  BY <1>2, FlattenSeqUnfold
<1>4. /\ \A i \in 1..c : f[i] \in Seq(Scalars)
      /\ f[1] = seqs[1] /\ \A i \in 1..(c - 1) : f[i + 1] = f[i] \o seqs[i + 1]
  BY <1>2, <1>3 DEF IsFlattening
<1> DEFINE Flat(i) == /\ Len(f[i]) = i * m
                      /\ \A j \in 1..i, t \in 1..m : f[i][((j - 1) * m) + t] = seqs[j][t]
           S == {i \in 0..(c - 1) : Flat(i + 1)}
<1>5. 0 \in S
  <2>1. 1 \in 1..c /\ 0 + 1 = 1 /\ 1 * m = m /\ 0 \in 0..(c - 1)
    OBVIOUS
  <2>2. \A j \in 1..1, t \in 1..m : j = 1 /\ ((j - 1) * m) + t = t
    OBVIOUS
  <2>3. Len(f[1]) = m /\ \A j \in 1..1, t \in 1..m : f[1][((j - 1) * m) + t] = seqs[j][t]
    BY <1>1, <1>4, <2>1, <2>2
  <2> QED  BY <2>1, <2>3
<1>6. ASSUME NEW i \in 0..((c - 1) - 1), i \in S PROVE i + 1 \in S
  <2>1. PICK o : o = i + 1
    OBVIOUS
  <2>2. o \in 1..(c - 1) /\ o \in 1..c /\ o + 1 \in 1..c /\ i + 1 \in 0..(c - 1) /\ o \in Nat
    BY <2>1
  <2>3. Flat(o)
    BY <1>6, <2>1
  <2>4. f[o + 1] = f[o] \o seqs[o + 1] /\ f[o] \in Seq(Scalars) /\ seqs[o + 1] \in Seq(Scalars)
        /\ Len(seqs[o + 1]) = m
    BY <1>1, <1>4, <2>2
  <2>5. o * m \in Nat /\ (o + 1) * m = (o * m) + m
    BY <2>2
  <2>10. PICK x, y, p : x = f[o] /\ y = seqs[o + 1] /\ p = o * m
    OBVIOUS
  <2>11. x \in Seq(Scalars) /\ y \in Seq(Scalars) /\ Len(x) = p /\ Len(y) = m /\ p \in Nat
    BY <2>3, <2>4, <2>5, <2>10
  <2>12. /\ Len(x \o y) = p + m /\ \A t \in 1..m : (x \o y)[p + t] = y[t]
         /\ \A k \in 1..p : (x \o y)[k] = x[k]
    BY ONLY <2>11, m \in Nat
  <2>6. Len(f[o + 1]) = (o + 1) * m
    BY <2>4, <2>5, <2>10, <2>12
  <2>7. ASSUME NEW j \in 1..(o + 1), NEW t \in 1..m
        PROVE  f[o + 1][((j - 1) * m) + t] = seqs[j][t]
    <3>1. CASE j = o + 1
      <4>1. j - 1 = o
        BY <2>2, <3>1
      <4> QED  BY <2>4, <2>10, <2>12, <3>1, <4>1
    <3>2. CASE j # o + 1
      <4>1. j \in 1..o
        BY <2>2, <3>2
      <4>2. ((j - 1) * m) + t \in 1..(o * m)
        BY <2>2, <4>1, PlaceWithin
      <4>3. (f[o] \o seqs[o + 1])[((j - 1) * m) + t] = f[o][((j - 1) * m) + t]
        BY <2>10, <2>12, <4>2
      <4> QED  BY <2>3, <2>4, <4>1, <4>3
    <3> QED  BY <3>1, <3>2
  <2>8. Flat(o + 1)
    BY <2>6, <2>7
  <2> QED  BY <2>1, <2>2, <2>8
<1> HIDE DEF S
<1>7. 0..(c - 1) \subseteq S
  <2>1. c - 1 \in Nat
    OBVIOUS
  <2> QED  BY <1>5, <1>6, <2>1, BoundedInduction
<1>8. c - 1 \in S /\ (c - 1) + 1 = c
  BY <1>7
<1>9. Flat(c)
  BY <1>8 DEF S
<1>10. f[c] \in Vector(c * m)
  <2>1. f[c] \in Seq(Scalars) /\ Len(f[c]) = c * m
    BY <1>4, <1>9
  <2>2. f[c] \in [1..(c * m) -> Scalars]
    BY <2>1
  <2> QED  BY <2>2 DEF Vector
<1> QED  BY <1>3, <1>9, <1>10 DEF Laid

\* The segments of m elements each.
Segments(a, m, count) == [t \in 1..count |-> Segment(a, (t - 1) * m, m)]

LEMMA SegmentsAre ==
    ASSUME NEW count \in Nat, NEW m \in Nat, NEW a \in Vector(count * m)
    PROVE  /\ Segments(a, m, count) \in Polynomials(count, m)
           /\ \A t \in 1..count, i \in 1..m : Segments(a, m, count)[t][i] = a[((t - 1) * m) + i]
<1>1. ASSUME NEW t \in 1..count
      PROVE  /\ Segments(a, m, count)[t] \in Vector(m)
             /\ \A i \in 1..m : Segments(a, m, count)[t][i] = a[((t - 1) * m) + i]
  <2>1. PICK k : k = (t - 1) * m
    OBVIOUS
  <2>2. Segments(a, m, count)[t] = Segment(a, k, m)
    BY <2>1 DEF Segments
  <2>3. ASSUME NEW i \in 1..m PROVE a[k + i] \in Scalars
    <3>1. k + i \in 1..(count * m)
      BY <2>1, PlaceWithin
    <3> QED  BY <3>1 DEF Vector
  <2>4. Segment(a, k, m) \in Vector(m) /\ \A i \in 1..m : Segment(a, k, m)[i] = a[k + i]
    BY <2>3 DEF Segment, Vector
  <2> QED  BY <2>1, <2>2, <2>4
<1>2. Segments(a, m, count) = [t \in 1..count |-> Segments(a, m, count)[t]]
  BY DEF Segments
<1> QED  BY <1>1, <1>2 DEF Polynomials

\* A prologue's polynomial takes the vector's values a residue apart.
LEMMA PrologueValue ==
    ASSUME NEW omega \in Scalars, NEW log \in Nat, DenseDegree <= log, Power(omega, TwoTo(log)) = 1,
           NEW e \in Nat, e <= log, NEW a \in Vector(TwoTo(log)), NEW j \in Nat, NEW t \in Nat,
           NEW m, m = TwoTo(log - e), NEW s, s = TwoTo(e)
    PROVE  Eval(Prologue(a, omega, j, log, e), Power(Power(omega, s), t))
               = Eval(a, Power(omega, j + (s * t)))
<1>1. PICK l : l = TwoTo(log)
  OBVIOUS
<1>2. l \in Nat \ {0} /\ m \in Nat \ {0} /\ s \in Nat \ {0} /\ l = s * m
  <2>1. log - e \in Nat /\ e + (log - e) = log
    OBVIOUS
  <2>2. TwoTo(e + (log - e)) = TwoTo(e) * TwoTo(log - e)
    BY <2>1, TwoToIs
  <2> QED  BY <1>1, <2>1, <2>2, TwoToIs
<1>3. m \in Nat /\ s \in Nat /\ j * m \in Nat /\ s * t \in Nat /\ j + (s * t) \in Nat
  BY <1>2
<1>4. PICK p : p = Prologue(a, omega, j, log, e)
  OBVIOUS
<1>5. /\ p \in Vector(m)
      /\ \A i \in 1..m : /\ Terms(a, omega, j, i, m, s) \in Vector(s)
                         /\ p[i] = Eval(Terms(a, omega, j, i, m, s), 1)
  BY ONLY <1>4, PrologueIs, omega \in Scalars, log \in Nat, DenseDegree <= log,
          Power(omega, TwoTo(log)) = 1, e \in Nat, e <= log, a \in Vector(TwoTo(log)), j \in Nat,
          m = TwoTo(log - e), s = TwoTo(e)
<1>6. PICK y, c, x, z : /\ y = Power(omega, j * m) /\ c = Power(omega, j)
                        /\ x = Power(omega, j + (s * t)) /\ z = Power(Power(omega, s), t)
  OBVIOUS
<1>7. /\ y \in Scalars /\ c \in Scalars /\ x \in Scalars /\ z \in Scalars /\ x = Times(c, z)
  <2>1. Power(Power(omega, s), t) = Power(omega, s * t)
    BY <1>3, PowerPower
  <2>2. Power(omega, j + (s * t)) = Times(Power(omega, j), Power(omega, s * t))
    BY <1>3, PowerIs
  <2> QED  BY <1>3, <1>6, <2>1, <2>2, PowerIs
<1>8. a \in Vector(s * m)
  BY <1>1, <1>2
<1>9. PICK segs : segs = Segments(a, m, s)
  OBVIOUS
<1>10. /\ segs \in Polynomials(s, m)
       /\ \A u \in 1..s, i \in 1..m : segs[u][i] = a[((u - 1) * m) + i]
  BY <1>3, <1>8, <1>9, SegmentsAre
<1>11. \A u \in 1..s, i \in 1..m : segs[u] \in Vector(m) /\ segs[u][i] \in Scalars
  BY <1>10 DEF Polynomials, Vector
<1>12. PICK fold : fold = [i \in 1..m |-> Eval(Column(segs, s, i), y)]
  OBVIOUS
<1>13. ASSUME NEW i \in 1..m
       PROVE  Column(segs, s, i) \in Vector(s) /\ fold[i] = Eval(Column(segs, s, i), y) /\ fold[i] \in Scalars
  <2>1. Column(segs, s, i) \in Vector(s)
    BY <1>11 DEF Column, Vector
  <2> QED  BY <1>3, <1>7, <1>12, <2>1, EvalIs
<1>14. fold \in Vector(m) /\ FoldsColumns(fold, segs, y, s, m)
  BY <1>12, <1>13 DEF Vector, FoldsColumns
<1>15. ASSUME NEW i \in 1..m PROVE p[i] = TwistedBy(fold, c)[i]
  <2>1. PICK col : col = Column(segs, s, i)
    OBVIOUS
  <2>2. col \in Vector(s) /\ fold[i] = Eval(col, y)
    BY <1>13, <2>1
  <2>3. PICK tw : tw = TwistedBy(col, y)
    OBVIOUS
  <2>4. /\ tw \in Vector(s) /\ \A u \in 1..s : tw[u] = Times(col[u], Power(y, u - 1))
        /\ Eval(tw, 1) = Eval(col, Times(y, 1))
    <3>1. /\ tw \in Vector(s) /\ \A u \in 1..s : tw[u] = Times(col[u], Power(y, u - 1))
          /\ \A b \in Scalars : Eval(tw, b) = Eval(col, Times(y, b))
      BY ONLY <1>3, <1>7, <2>2, <2>3, TwistedIs
    <3> QED  BY <3>1, Closed
  <2>5. PICK o : o = Power(c, i - 1) /\ o \in Scalars
    <3>1. i - 1 \in Nat
      OBVIOUS
    <3> QED  BY <1>7, <3>1, PowerIs
  <2>6. PICK terms : terms = Terms(a, omega, j, i, m, s)
    OBVIOUS
  <2>7. terms \in Vector(s) /\ p[i] = Eval(terms, 1)
    BY <1>5, <2>6
  <2>8. ASSUME NEW u \in 1..s PROVE terms[u] = Times(o, tw[u])
    <3>1. PICK v : v = u - 1
      OBVIOUS
    <3>2. v \in Nat /\ i - 1 \in Nat /\ (i - 1) * j \in Nat /\ (v * j) * m \in Nat
      BY <1>3, <3>1
    <3>3. terms[u] = Times(a[(v * m) + i], Power(omega, ((i - 1) * j) + (v * j * m)))
      BY <2>6, <3>1 DEF Terms
    <3>4. col[u] = a[(v * m) + i] /\ col[u] \in Scalars
      BY <1>10, <1>11, <2>1, <3>1 DEF Column
    <3>5. Power(omega, ((i - 1) * j) + (v * j * m))
            = Times(Power(omega, (i - 1) * j), Power(omega, v * j * m))
      <4>1. PICK k1, k2 : k1 = (i - 1) * j /\ k2 = v * j * m
        OBVIOUS
      <4>2. k1 \in Nat /\ k2 \in Nat
        BY <3>2, <4>1
      <4>3. Power(omega, k1 + k2) = Times(Power(omega, k1), Power(omega, k2))
        BY <4>2, PowerIs
      <4> QED  BY <4>1, <4>3
    <3>6. o = Power(omega, (i - 1) * j)
      <4>1. Power(Power(omega, j), i - 1) = Power(omega, j * (i - 1)) /\ j * (i - 1) = (i - 1) * j
        BY <3>2, PowerPower
      <4> QED  BY <1>6, <2>5, <4>1
    <3>7. Power(y, v) = Power(omega, v * j * m) /\ Power(y, v) \in Scalars
      <4>1. Power(Power(omega, j * m), v) = Power(omega, (j * m) * v)
        BY <1>3, <3>2, PowerPower
      <4>2. (j * m) * v = v * j * m
        BY <1>3, <3>2
      <4>3. Power(y, v) \in Scalars
        BY <1>7, <3>2, PowerIs
      <4> QED  BY <1>6, <4>1, <4>2, <4>3
    <3>8. Times(col[u], Times(o, Power(y, v))) = Times(o, Times(col[u], Power(y, v)))
      BY <2>5, <3>4, <3>7, Swap
    <3>9. tw[u] = Times(col[u], Power(y, v))
      BY <2>4, <3>1
    <3> QED  BY ONLY <3>3, <3>4, <3>5, <3>6, <3>7, <3>8, <3>9
  <2>9. Eval(terms, 1) = Times(o, Eval(tw, 1))
    BY ONLY <1>3, <2>4, <2>5, <2>7, <2>8, EvalScaled, Closed
  <2>10. Times(y, 1) = y
    BY <1>7, Laws
  <2>11. p[i] = Times(o, fold[i]) /\ fold[i] \in Scalars
    BY <1>13, <2>2, <2>4, <2>7, <2>9, <2>10
  <2>12. Times(o, fold[i]) = Times(fold[i], o)
    BY <2>5, <2>11, Laws
  <2>13. TwistedBy(fold, c)[i] = Times(fold[i], o)
    BY <1>3, <1>7, <1>14, <2>5, TwistedIs
  <2> QED  BY <2>11, <2>12, <2>13
<1>16. TwistedBy(fold, c) \in Vector(m) /\ Eval(TwistedBy(fold, c), z) = Eval(fold, Times(c, z))
  BY <1>3, <1>7, <1>14, TwistedIs
<1>17. p = TwistedBy(fold, c)
  <2>1. PICK q : q = TwistedBy(fold, c)
    OBVIOUS
  <2>2. p \in Vector(m) /\ q \in Vector(m) /\ \A i \in 1..m : p[i] = q[i]
    BY <1>5, <1>15, <1>16, <2>1
  <2>3. p = q
    BY ONLY <2>2, SameVector
  <2> QED  BY <2>1, <2>3
<1>18. PICK values : values = [u \in 1..s |-> Eval(segs[u], x)]
  OBVIOUS
<1>19. values \in Vector(s) /\ AreValues(values, segs, x, s)
  <2>1. ASSUME NEW u \in 1..s PROVE Eval(segs[u], x) \in Scalars
    <3>1. segs[u] \in Vector(m)
      BY <1>10 DEF Polynomials
    <3> QED  BY <1>3, <1>7, <3>1, EvalIs
  <2> QED  BY <1>18, <2>1 DEF Vector, AreValues
<1>20. Eval(fold, x) = Eval(values, y)
  BY ONLY <1>3, <1>7, <1>10, <1>14, <1>19, FoldColumns
<1>21. ArePieces(values, a, x, m, s)
  <2>1. \A u \in 1..s : segs[u] = Segment(a, (u - 1) * m, m)
    BY <1>9 DEF Segments
  <2> QED  BY <1>18, <2>1 DEF ArePieces
<1>22. Eval(a, x) = Eval(values, Power(x, m))
  BY ONLY <1>3, <1>7, <1>8, <1>19, <1>21, EvalPieces
<1>23. Power(x, m) = y
  <2>1. Power(Power(omega, j + (s * t)), m) = Power(omega, (j + (s * t)) * m)
    BY <1>3, PowerPower
  <2>2. (j + (s * t)) * m = (l * t) + (j * m) /\ l * t \in Nat
    BY <1>2
  <2>3. Power(omega, (l * t) + (j * m)) = Times(Power(omega, l * t), Power(omega, j * m))
    BY <1>3, <2>2, PowerIs
  <2>4. Power(omega, l * t) = Power(Power(omega, l), t) /\ Power(1, t) = 1
    BY <1>2, PowerPower, PowerOne
  <2>5. Times(1, y) = y
    BY <1>7, Laws
  <2> QED  BY ONLY <1>1, <1>6, <2>1, <2>2, <2>3, <2>4, <2>5, Power(omega, TwoTo(log)) = 1
<1> QED  BY ONLY <1>4, <1>6, <1>7, <1>16, <1>17, <1>20, <1>22, <1>23

\* The sums of the residue classes, interleaved again, are the sums of the whole.
LEMMA InterleavedIs ==
    ASSUME NEW omega \in Scalars, NEW log \in Nat, DenseDegree <= log, Power(omega, TwoTo(log)) = 1,
           NEW e \in Nat, e <= log, NEW a \in Vector(TwoTo(log)), NEW d \in Scalars, NEW kind,
           NEW tmp, tmp = FlattenSeq([j1 \in 1..TwoTo(e) |->
                              Kernel("FFT", Prologue(a, omega, j1 - 1, log, e), Power(omega, TwoTo(e)), 1)])
    PROVE  Epilogue(kind, tmp, d, e)
               = IF kind = "iFFT" THEN ScaledBy(Sums(a, omega), d) ELSE Sums(a, omega)
<1>1. PICK l, m, s : l = TwoTo(log) /\ m = TwoTo(log - e) /\ s = TwoTo(e)
  OBVIOUS
<1>2. l \in Nat \ {0} /\ m \in Nat \ {0} /\ s \in Nat \ {0} /\ l = s * m
  <2>1. log - e \in Nat /\ e + (log - e) = log
    OBVIOUS
  <2>2. TwoTo(e + (log - e)) = TwoTo(e) * TwoTo(log - e)
    BY <2>1, TwoToIs
  <2> QED  BY <1>1, <2>1, <2>2, TwoToIs
<1>3. PICK new : new = Power(omega, s) /\ new \in Scalars
  BY <1>2, PowerIs
<1>4. PICK seqs : seqs = [j1 \in 1..s |-> Sums(Prologue(a, omega, j1 - 1, log, e), new)]
  OBVIOUS
<1>5. tmp = FlattenSeq(seqs)
  <2>1. \A j1 \in 1..s : Kernel("FFT", Prologue(a, omega, j1 - 1, log, e), new, 1)
                             = Sums(Prologue(a, omega, j1 - 1, log, e), new)
    BY DEF Kernel
  <2>2. [j1 \in 1..s |-> Kernel("FFT", Prologue(a, omega, j1 - 1, log, e), new, 1)] = seqs
    BY <1>4, <2>1
  <2> QED  BY ONLY <1>1, <1>3, <2>2,
          tmp = FlattenSeq([j1 \in 1..TwoTo(e) |->
                    Kernel("FFT", Prologue(a, omega, j1 - 1, log, e), Power(omega, TwoTo(e)), 1)])
<1>6. ASSUME NEW j1 \in 1..s
      PROVE  /\ seqs[j1] \in Vector(m)
             /\ \A t1 \in 1..m : seqs[j1][t1] = Eval(a, Power(omega, (j1 - 1) + (s * (t1 - 1))))
  <2>1. PICK j : j = j1 - 1
    OBVIOUS
  <2>2. j \in Nat
    BY <1>2, <2>1
  <2>3. PICK p : p = Prologue(a, omega, j, log, e)
    OBVIOUS
  <2>4. p \in Vector(m)
    BY ONLY <1>1, <2>2, <2>3, PrologueIs, omega \in Scalars, log \in Nat, DenseDegree <= log,
            Power(omega, TwoTo(log)) = 1, e \in Nat, e <= log, a \in Vector(TwoTo(log))
  <2>5. seqs[j1] = Sums(p, new)
    BY <1>4, <2>1, <2>3
  <2>6. Sums(p, new) \in Vector(m) /\ \A i \in 1..m : Sums(p, new)[i] = Eval(p, Power(new, i - 1))
    BY ONLY <1>2, <1>3, <2>4, SumsIs
  <2>7. ASSUME NEW t1 \in 1..m
        PROVE  Eval(p, Power(new, t1 - 1)) = Eval(a, Power(omega, j + (s * (t1 - 1))))
    <3>1. PICK t : t = t1 - 1
      OBVIOUS
    <3>2. t \in Nat
      BY <1>2, <3>1
    <3>3. Eval(Prologue(a, omega, j, log, e), Power(Power(omega, s), t))
              = Eval(a, Power(omega, j + (s * t)))
      BY ONLY <1>1, <2>2, <3>2, PrologueValue, omega \in Scalars, log \in Nat, DenseDegree <= log,
              Power(omega, TwoTo(log)) = 1, e \in Nat, e <= log, a \in Vector(TwoTo(log))
    <3> QED  BY ONLY <1>3, <2>3, <3>1, <3>3
  <2> QED  BY ONLY <2>1, <2>5, <2>6, <2>7
<1>7. seqs \in Polynomials(s, m)
  BY <1>4, <1>6 DEF Polynomials
<1>8. /\ tmp \in Vector(l)
      /\ \A j1 \in 1..s, t1 \in 1..m : tmp[((j1 - 1) * m) + t1] = seqs[j1][t1]
  <2>1. PICK flat : flat = FlattenSeq(seqs)
    OBVIOUS
  <2>2. /\ flat \in Vector(s * m)
        /\ \A j1 \in 1..s, t1 \in 1..m : flat[((j1 - 1) * m) + t1] = seqs[j1][t1]
    <3>1. m \in Nat
      BY <1>2
    <3>2. Laid(flat, seqs, s, m)
      BY ONLY <1>2, <1>7, <2>1, <3>1, FlattenEqual
    <3> QED  BY ONLY <3>2 DEF Laid
  <2> QED  BY ONLY <1>2, <1>5, <2>1, <2>2
<1>9. Len(tmp) = l
  BY <1>2, <1>8, VectorIs
<1>10. Len(tmp) \div s = m
  <2>1. l = (s * m) + 0 /\ 0 \in 0..(s - 1) /\ l \in Int /\ m \in Int /\ s \in Nat /\ s > 0
    BY <1>2
  <2>2. l \div s = m
    BY <2>1, DivisionUnique
  <2> QED  BY <1>9, <2>2
<1>11. PICK sums : sums = Sums(a, omega)
  OBVIOUS
<1>12. sums \in Vector(l) /\ \A i \in 1..l : sums[i] = Eval(a, Power(omega, i - 1))
  BY <1>1, <1>2, <1>11, SumsIs
<1>13. ASSUME NEW i1 \in 1..l
       PROVE  tmp[1 + (m * ((i1 - 1) % s)) + ((i1 - 1) \div s)] = sums[i1]
  <2>1. PICK i : i = i1 - 1
    OBVIOUS
  <2>2. i \in Nat /\ i < s * m
    BY <1>2, <2>1
  <2>3. PICK q, r : q = i \div s /\ r = i % s /\ Split(i, s, q, r)
    BY DEF Split
  <2>4. r \in 0..(s - 1) /\ r \in Nat /\ q \in Nat /\ i = (s * q) + r /\ q \in 0..(m - 1)
    <3>1. r \in 0..(s - 1) /\ r \in Nat /\ q \in Nat /\ i = (s * q) + r
      BY <1>2, <2>2, <2>3, NatDivision
    <3>2. q \in 0..(m - 1)
      BY <1>2, <2>2, <2>3, QuotientBelow
    <3> QED  BY <3>1, <3>2
  <2>5. PICK j1, t1 : j1 = r + 1 /\ t1 = q + 1
    OBVIOUS
  <2>6. j1 \in 1..s /\ t1 \in 1..m /\ j1 - 1 = r /\ t1 - 1 = q
    BY <1>2, <2>4, <2>5
  <2>7. 1 + (m * r) + q = ((j1 - 1) * m) + t1
    BY <1>2, <2>4, <2>5, <2>6
  <2>8. tmp[((j1 - 1) * m) + t1] = Eval(a, Power(omega, (j1 - 1) + (s * (t1 - 1))))
    BY <1>6, <1>8, <2>6
  <2>9. (j1 - 1) + (s * (t1 - 1)) = i
    BY <1>2, <2>4, <2>6
  <2>10. sums[i1] = Eval(a, Power(omega, i))
    BY <1>12, <2>1
  <2> QED  BY ONLY <2>1, <2>3, <2>7, <2>8, <2>9, <2>10
<1>14. Epilogue(kind, tmp, d, e)
           = Whole([i1 \in 1..l |-> IF kind = "iFFT"
                 THEN Times(tmp[1 + (m * ((i1 - 1) % s)) + ((i1 - 1) \div s)], d)
                 ELSE tmp[1 + (m * ((i1 - 1) % s)) + ((i1 - 1) \div s)]])
  BY <1>1, <1>9, <1>10 DEF Epilogue
<1>15. [i1 \in 1..l |-> IF kind = "iFFT"
            THEN Times(tmp[1 + (m * ((i1 - 1) % s)) + ((i1 - 1) \div s)], d)
            ELSE tmp[1 + (m * ((i1 - 1) % s)) + ((i1 - 1) \div s)]]
         = [i1 \in 1..l |-> IF kind = "iFFT" THEN Times(sums[i1], d) ELSE sums[i1]]
  BY <1>13
<1>16. Epilogue(kind, tmp, d, e)
           = Whole([i1 \in 1..l |-> IF kind = "iFFT" THEN Times(sums[i1], d) ELSE sums[i1]])
  BY ONLY <1>14, <1>15
<1>17. Len(sums) = l /\ Whole(sums) = sums
  BY <1>2, <1>12, VectorIs
<1>18. CASE kind = "iFFT"
  BY <1>11, <1>16, <1>17, <1>18 DEF ScaledBy
<1>19. CASE kind # "iFFT"
  <2>1. [i1 \in 1..l |-> IF kind = "iFFT" THEN Times(sums[i1], d) ELSE sums[i1]] = sums
    BY <1>12, <1>19 DEF Vector
  <2> QED  BY <1>11, <1>16, <1>17, <1>19, <2>1
<1> QED  BY <1>18, <1>19

\* The split-radix transform is the kernel's, of a domain's vector,
LEMMA SplitRadixIs ==
    ASSUME NEW omega \in Scalars, Power(omega, n) = 1, NEW e \in Nat, e <= K,
           NEW a \in Vector(n), NEW d \in Scalars, NEW kind \in {"iFFT", "CosetFFT_Part"}
    PROVE  SplitRadix(kind, a, omega, d, e) = Kernel(kind, a, omega, d)
<1>1. K \in Nat /\ DenseDegree <= K /\ n = TwoTo(K) /\ n \in Nat
  BY SizesAre DEF n
<1>2. PICK given : given = IF kind = "CosetFFT_Part" THEN TwistedBy(a, d) ELSE a
  OBVIOUS
<1>3. given \in Vector(n)
  BY <1>1, <1>2, TwistedIs
<1>4. PICK tmp : tmp = FlattenSeq([j1 \in 1..TwoTo(e) |->
                     Kernel("FFT", Prologue(given, omega, j1 - 1, K, e), Power(omega, TwoTo(e)), 1)])
  OBVIOUS
<1>5. SplitRadix(kind, a, omega, d, e) = Epilogue(kind, tmp, d, e)
  <2>1. kind # "CosetFFT"
    OBVIOUS
  <2> QED  BY ONLY <1>2, <1>4, <2>1 DEF SplitRadix
<1>6. Epilogue(kind, tmp, d, e) = IF kind = "iFFT" THEN ScaledBy(Sums(given, omega), d) ELSE Sums(given, omega)
  <2>1. PICK log : log = K
    OBVIOUS
  <2>2. /\ log \in Nat /\ DenseDegree <= log /\ Power(omega, TwoTo(log)) = 1 /\ e <= log
        /\ given \in Vector(TwoTo(log))
        /\ tmp = FlattenSeq([j1 \in 1..TwoTo(e) |->
                     Kernel("FFT", Prologue(given, omega, j1 - 1, log, e), Power(omega, TwoTo(e)), 1)])
    BY ONLY <1>1, <1>3, <1>4, <2>1, Power(omega, n) = 1, e <= K
  <2> QED  BY ONLY <2>2, InterleavedIs, omega \in Scalars, e \in Nat, d \in Scalars
<1>7. CASE kind = "iFFT"
  <2>1. given = a /\ Kernel(kind, a, omega, d) = ScaledBy(Sums(a, omega), d)
    BY <1>2, <1>7 DEF Kernel
  <2> QED  BY <1>5, <1>6, <1>7, <2>1
<1>8. CASE kind = "CosetFFT_Part"
  <2>1. given = TwistedBy(a, d) /\ Kernel(kind, a, omega, d) = Sums(TwistedBy(a, d), omega) /\ kind # "iFFT"
    BY <1>2, <1>8 DEF Kernel
  <2> QED  BY <1>5, <1>6, <2>1
<1> QED  BY <1>7, <1>8

\* and of the extended domain's.
LEMMA SplitRadixExtended ==
    ASSUME NEW omega \in Scalars, Power(omega, ExtendedLen) = 1, NEW e \in Nat, e <= K,
           NEW a \in Vector(ExtendedLen)
    PROVE  SplitRadix("CosetFFT", a, omega, 1, e) = Sums(a, omega)
<1>1. PICK log : log = ExtendedK
  OBVIOUS
<1>2. /\ log \in Nat /\ DenseDegree <= log /\ Power(omega, TwoTo(log)) = 1 /\ e <= log
      /\ a \in Vector(TwoTo(log)) /\ 1 \in Scalars
  BY <1>1, SizesAre, Closed DEF ExtendedLen
<1>3. PICK tmp : tmp = FlattenSeq([j1 \in 1..TwoTo(e) |->
                     Kernel("FFT", Prologue(a, omega, j1 - 1, log, e), Power(omega, TwoTo(e)), 1)])
  OBVIOUS
<1>4. SplitRadix("CosetFFT", a, omega, 1, e) = Epilogue("CosetFFT", tmp, 1, e)
  BY ONLY <1>1, <1>3 DEF SplitRadix
<1>5. Epilogue("CosetFFT", tmp, 1, e)
          = IF "CosetFFT" = "iFFT" THEN ScaledBy(Sums(a, omega), 1) ELSE Sums(a, omega)
  BY ONLY <1>2, <1>3, InterleavedIs, omega \in Scalars, e \in Nat
<1> QED  BY <1>4, <1>5

(* -------------------------------- conversions ------------------------------- *)

\* The inverse of a root has its order.
LEMMA RootInverse ==
    ASSUME NEW m \in Nat \ {0}, NEW w, NEW v, NEW d, IsRoot(w, v, d, m)
    PROVE  w \in Scalars /\ v \in Scalars /\ d \in Scalars /\ Power(w, m) = 1 /\ Power(v, m) = 1
<1>1. w \in Scalars /\ v \in Scalars /\ d \in Scalars /\ Times(v, w) = 1 /\ Power(w, m) = 1 /\ m \in Nat
  BY DEF IsRoot
<1>2. Power(Times(v, w), m) = Times(Power(v, m), Power(w, m)) /\ Power(v, m) \in Scalars
  BY <1>1, PowerTimes, PowerIs
<1>3. Power(1, m) = 1 /\ Times(Power(v, m), 1) = Power(v, m)
  BY <1>1, <1>2, PowerOne, Laws
<1> QED  BY <1>1, <1>2, <1>3

\* The coefficients of the polynomial that takes a vector's values on the domain.
Coefficients(a) == ScaledBy(Sums(a, OmegaInv), IfftDivisor)

LEMMA CoefficientsAre ==
    ASSUME NEW a \in Vector(n)
    PROVE  /\ Coefficients(a) \in Vector(n)
           /\ \A r \in 1..n : Eval(Coefficients(a), Power(Omega, r - 1)) = a[r]
  BY SizesAre, RootsAre, InverseIs DEF Coefficients

\* Whatever the memory queries answer, a transform that is not refused is the kernel.
LEMMA TransformIs ==
    ASSUME NEW omega \in Scalars, Power(omega, n) = 1, NEW a \in Vector(n), NEW d \in Scalars,
           NEW kind \in {"iFFT", "CosetFFT_Part"}, NEW answer \in Answers, ~Refused(answer)
    PROVE  Transform(kind, a, omega, d, answer) = Kernel(kind, a, omega, d)
<1>1. CASE answer.fits
  BY <1>1 DEF Transform, FftGpu
<1>2. CASE ~answer.fits
  <2>1. answer.split \in 1..(K - 1)
    <3>1. answer # Fits
      BY <1>2 DEF Fits
    <3>2. answer \in [fits : {FALSE}, split : -1..(K - 1)]
      BY <3>1 DEF Answers
    <3>3. answer.split \in -1..(K - 1)
      BY <3>2
    <3> QED  BY <1>2, <3>3, SizesAre DEF Refused
  <2>2. answer.split \in Nat /\ answer.split <= K
    BY <2>1, SizesAre
  <2>3. PICK e : e = answer.split
    OBVIOUS
  <2>4. SplitRadix(kind, a, omega, d, e) = Kernel(kind, a, omega, d)
    BY <2>2, <2>3, SplitRadixIs
  <2> QED  BY <1>2, <2>3, <2>4 DEF Transform
<1> QED  BY <1>1, <1>2

LEMMA LagrangeToCoeffIs ==
    ASSUME NEW a \in Vector(n)
    PROVE  /\ Kernel("iFFT", a, OmegaInv, IfftDivisor) = Coefficients(a)
           /\ \A answer \in Answers : ~Refused(answer) => LagrangeToCoeff(a, answer) = Coefficients(a)
<1>1. Kernel("iFFT", a, OmegaInv, IfftDivisor) = Coefficients(a)
  BY DEF Kernel, Coefficients
<1>2. OmegaInv \in Scalars /\ Power(OmegaInv, n) = 1 /\ IfftDivisor \in Scalars
  BY SizesAre, RootsAre, RootInverse
<1>3. ASSUME NEW answer \in Answers, ~Refused(answer)
      PROVE  LagrangeToCoeff(a, answer) = Coefficients(a)
  <2>1. Transform("iFFT", a, OmegaInv, IfftDivisor, answer) = Kernel("iFFT", a, OmegaInv, IfftDivisor)
    BY <1>2, <1>3, TransformIs
  <2> QED  BY <1>1, <2>1 DEF LagrangeToCoeff
<1> QED  BY <1>1, <1>3

\* The values on a coset of the domain.
CosetValues(a, shift) == [r \in 1..n |-> Eval(a, Times(shift, Power(Omega, r - 1)))]

LEMMA CosetIs ==
    ASSUME NEW a \in Vector(n), NEW shift \in Scalars
    PROVE  /\ CosetValues(a, shift) \in Vector(n)
           /\ Kernel("CosetFFT_Part", a, Omega, shift) = CosetValues(a, shift)
<1>1. n \in Nat /\ Omega \in Scalars
  BY SizesAre, RootsAre, RootInverse
<1>2. PICK tw : tw = TwistedBy(a, shift)
  OBVIOUS
<1>3. tw \in Vector(n) /\ \A x \in Scalars : Eval(tw, x) = Eval(a, Times(shift, x))
  BY <1>1, <1>2, TwistedIs
<1>4. PICK s : s = Sums(tw, Omega)
  OBVIOUS
<1>5. s \in Vector(n) /\ \A r \in 1..n : s[r] = Eval(tw, Power(Omega, r - 1))
  BY <1>1, <1>3, <1>4, SumsIs
<1>6. \A r \in 1..n : s[r] = Eval(a, Times(shift, Power(Omega, r - 1)))
  <2>1. \A r \in 1..n : r - 1 \in Nat
    BY <1>1
  <2>2. \A r \in 1..n : Power(Omega, r - 1) \in Scalars
    BY <1>1, <2>1, PowerIs
  <2> QED  BY <1>3, <1>5, <2>2
<1>7. s = CosetValues(a, shift)
  <2>1. s = [r \in 1..n |-> s[r]]
    BY <1>5 DEF Vector
  <2> QED  BY <1>6, <2>1 DEF CosetValues
<1>8. Kernel("CosetFFT_Part", a, Omega, shift) = s
  BY <1>2, <1>4 DEF Kernel
<1> QED  BY <1>5, <1>7, <1>8

LEMMA CoeffToExtendedPartIs ==
    ASSUME NEW a \in Vector(n), NEW by \in Scalars, NEW answer \in Answers, ~Refused(answer)
    PROVE  CoeffToExtendedPart(a, by, answer) = CosetValues(a, Times(Zeta, by))
<1>1. Omega \in Scalars /\ Power(Omega, n) = 1 /\ Times(Zeta, by) \in Scalars
  BY SizesAre, RootsAre, RootInverse, Closed
<1>2. PICK shift : shift = Times(Zeta, by)
  OBVIOUS
<1>3. Transform("CosetFFT_Part", a, Omega, shift, answer) = Kernel("CosetFFT_Part", a, Omega, shift)
  BY <1>1, <1>2, TransformIs
<1> QED  BY <1>1, <1>2, <1>3, CosetIs DEF CoeffToExtendedPart

\* A vector with zeros at its end.
LEMMA PaddedIs ==
    ASSUME NEW len \in Nat, NEW l \in Nat, len <= l, NEW a \in Vector(len)
    PROVE  /\ PaddedTo(a, l) \in Vector(l)
           /\ \A k \in 1..l : PaddedTo(a, l)[k] = IF k <= len THEN a[k] ELSE 0
           /\ \A x \in Scalars : Eval(PaddedTo(a, l), x) = Eval(a, x)
<1>1. a \in Seq(Scalars) /\ Len(a) = len
  BY VectorIs
<1>2. PICK z : z = [i \in 1..(l - len) |-> 0]
  OBVIOUS
<1>3. z \in Seq(Scalars) /\ Len(z) = l - len /\ l - len \in Nat
  <2>1. l - len \in Nat /\ z \in [1..(l - len) -> Scalars]
    BY <1>2, Closed
  <2> QED  BY <2>1, IsSequence
<1>4. /\ Len(a \o z) = l /\ a \o z \in Seq(Scalars)
      /\ \A k \in 1..len : (a \o z)[k] = a[k]
      /\ \A k \in 1..(l - len) : (a \o z)[len + k] = z[k]
  <2>1. /\ Len(a \o z) = Len(a) + Len(z)
        /\ \A i \in 1..Len(a) : (a \o z)[i] = a[i]
        /\ \A i \in 1..Len(z) : (a \o z)[Len(a) + i] = z[i]
    <3>1. PICK V : V = Scalars
      OBVIOUS
    <3>2. a \in Seq(V) /\ z \in Seq(V)
      BY <1>1, <1>3, <3>1
    <3> QED  BY <3>2, ConcatPlaces
  <2>2. a \o z \in Seq(Scalars)
    BY <1>1, <1>3
  <2>3. Len(a) + Len(z) = l
    BY <1>1, <1>3
  <2> QED  BY <1>1, <1>3, <2>1, <2>2, <2>3
<1>5. PICK w : w = a \o z
  OBVIOUS
<1>6. w \in Vector(l)
  <2>1. w \in Seq(Scalars) /\ Len(w) = l
    BY <1>4, <1>5
  <2>2. w \in [1..Len(w) -> Scalars]
    BY <2>1
  <2> QED  BY <2>1, <2>2 DEF Vector
<1>7. ASSUME NEW k \in 1..l PROVE w[k] = IF k <= len THEN a[k] ELSE 0
  <2>1. CASE k <= len
    BY <1>4, <1>5, <2>1
  <2>2. CASE ~(k <= len)
    <3>1. k - len \in 1..(l - len) /\ len + (k - len) = k
      BY <2>2
    <3> QED  BY <1>2, <1>4, <1>5, <2>2, <3>1
  <2> QED  BY <2>1, <2>2
<1>8. \A x \in Scalars : Eval(w, x) = Eval(a, x)
  BY <1>6, <1>7, EvalExtended
<1>9. PaddedTo(a, l) = w
  BY <1>1, <1>2, <1>5 DEF PaddedTo
<1> QED  BY <1>6, <1>7, <1>8, <1>9

\* The cube roots of one a vector is multiplied with, one element after the other.
LEMMA DistributedIs ==
    ASSUME NEW len \in Nat, NEW a \in Vector(len), NEW z \in Scalars, Power(z, 3) = 1
    PROVE  DistributePowersZeta(a, <<z, Times(z, z)>>) = TwistedBy(a, z)
<1>1. Len(a) = len /\ \A i \in 1..len : a[i] \in Scalars
  BY VectorIs
<1>2. PICK powers : powers = <<z, Times(z, z)>>
  OBVIOUS
<1>3. Len(powers) = 2 /\ powers[1] = z /\ powers[2] = Times(z, z) /\ Len(powers) + 1 = 3
  BY <1>2
<1>4. Power(z, 0) = 1 /\ Power(z, 1) = z /\ Power(z, 2) = Times(z, z)
  <2>1. Power(z, 1 + 1) = Times(Power(z, 1), z) /\ Power(z, 1) = z /\ Power(z, 0) = 1 /\ 1 + 1 = 2
    BY PowerIs
  <2> QED  BY <2>1
<1>5. ASSUME NEW i \in 1..len
      PROVE  (LET r == (i - 1) % 3 IN IF r = 0 THEN a[i] ELSE Times(a[i], powers[r]))
                 = TwistedBy(a, z)[i]
  <2>1. PICK r : r = (i - 1) % 3
    OBVIOUS
  <2>2. r \in 0..2
    BY <2>1
  <2>3. Power(z, r) = Power(z, i - 1)
    <3>1. PICK k, m : k = i - 1 /\ m = 3
      OBVIOUS
    <3>2. k \in Nat /\ m \in Nat \ {0} /\ Power(z, m) = 1
      BY <3>1
    <3>3. Power(z, k % m) = Power(z, k)
      BY <3>2, PowerMod
    <3> QED  BY <2>1, <3>1, <3>3
  <2>4. TwistedBy(a, z)[i] = Times(a[i], Power(z, r))
    BY <2>3, TwistedIs
  <2>5. r = 0 \/ r = 1 \/ r = 2
    BY <2>2
  <2>6. Times(a[i], 1) = a[i]
    BY <1>1, Laws
  <2>7. (IF r = 0 THEN a[i] ELSE Times(a[i], powers[r])) = TwistedBy(a, z)[i]
    BY <1>3, <1>4, <2>4, <2>5, <2>6
  <2> QED  BY <2>1, <2>7
<1>6. DistributePowersZeta(a, powers)
          = Whole([i \in 1..len |-> LET r == (i - 1) % 3 IN IF r = 0 THEN a[i] ELSE Times(a[i], powers[r])])
  BY <1>1, <1>3 DEF DistributePowersZeta
<1>7. PICK tw : tw = TwistedBy(a, z)
  OBVIOUS
<1>8. tw \in Vector(len)
  BY <1>7, TwistedIs
<1>9. tw = [i \in 1..len |-> LET r == (i - 1) % 3 IN IF r = 0 THEN a[i] ELSE Times(a[i], powers[r])]
  <2>1. tw = [i \in 1..len |-> tw[i]]
    BY <1>8 DEF Vector
  <2> QED  BY <1>5, <1>7, <2>1
<1>10. Whole(tw) = tw
  BY <1>8, VectorIs
<1> QED  BY <1>2, <1>6, <1>7, <1>9, <1>10

\* The values on the extended domain's coset.
ExtendedValues(a) == [i \in 1..ExtendedLen |-> Eval(a, ExtendedPoint(i - 1))]

LEMMA CoeffToExtendedIs ==
    ASSUME NEW a \in Vector(n), NEW answer \in Answers, ~Refused(answer)
    PROVE  CoeffToExtended(a, answer) = ExtendedValues(a) /\ ExtendedValues(a) \in Vector(ExtendedLen)
<1>1. PICK l : l = ExtendedLen
  OBVIOUS
<1>2. n \in Nat /\ l \in Nat /\ l \in Nat \ {0} /\ n <= l
  <2>1. PICK s : s = NumParts
    OBVIOUS
  <2>2. n \in Nat /\ s \in Nat /\ s >= 1 /\ l = n * s /\ l \in Nat \ {0}
    BY <1>1, <2>1, SizesAre
  <2>3. n * s >= n
    BY <2>2, MultipleAtLeast
  <2> QED  BY <2>2, <2>3
<1>3. /\ ExtendedOmega \in Scalars /\ Power(ExtendedOmega, l) = 1
      /\ Zeta \in Scalars /\ Power(Zeta, 3) = 1
  BY <1>1, SizesAre, RootsAre, RootInverse, DomainAssumption
<1>4. PICK pad : pad = PaddedTo(a, l)
  OBVIOUS
<1>5. pad \in Vector(l) /\ \A x \in Scalars : Eval(pad, x) = Eval(a, x)
  BY <1>2, <1>4, PaddedIs
<1>6. PICK tw : tw = TwistedBy(pad, Zeta)
  OBVIOUS
<1>7. tw \in Vector(l) /\ \A x \in Scalars : Eval(tw, x) = Eval(pad, Times(Zeta, x))
  BY <1>2, <1>3, <1>5, <1>6, TwistedIs
<1>8. DistributePowersZeta(pad, IntoCoset) = tw
  BY <1>2, <1>3, <1>5, <1>6, DistributedIs DEF IntoCoset
<1>9. CoeffToExtended(a, answer) = Sums(tw, ExtendedOmega)
  <2>1. CASE answer.fits
    BY <1>1, <1>4, <1>8, <2>1 DEF CoeffToExtended, CosetFftGpu, Kernel
  <2>2. CASE ~answer.fits
    <3>1. answer # Fits
      BY <2>2 DEF Fits
    <3>2. answer \in [fits : {FALSE}, split : -1..(K - 1)]
      BY <3>1 DEF Answers
    <3>3. answer.split \in -1..(K - 1)
      BY <3>2
    <3>4. answer.split \in Nat /\ answer.split <= K
      BY <2>2, <3>3, SizesAre DEF Refused
    <3>5. PICK e : e = answer.split
      OBVIOUS
    <3>6. SplitRadix("CosetFFT", tw, ExtendedOmega, 1, e) = Sums(tw, ExtendedOmega)
      BY <1>1, <1>3, <1>7, <3>4, <3>5, SplitRadixExtended
    <3> QED  BY <1>1, <1>4, <1>8, <2>2, <3>5, <3>6 DEF CoeffToExtended
  <2> QED  BY <2>1, <2>2
<1>10. PICK s : s = Sums(tw, ExtendedOmega)
  OBVIOUS
<1>11. s \in Vector(l) /\ \A i \in 1..l : s[i] = Eval(tw, Power(ExtendedOmega, i - 1))
  BY <1>2, <1>3, <1>7, <1>10, SumsIs
<1>12. \A i \in 1..l : s[i] = Eval(a, ExtendedPoint(i - 1))
  <2>1. SUFFICES ASSUME NEW i \in 1..l PROVE s[i] = Eval(a, ExtendedPoint(i - 1))
    OBVIOUS
  <2>2. i - 1 \in Nat
    BY <1>2
  <2>3. PICK x : x = Power(ExtendedOmega, i - 1) /\ x \in Scalars
    BY <1>3, <2>2, PowerIs
  <2>4. Times(Zeta, x) \in Scalars
    BY <1>3, <2>3, Closed
  <2> QED  BY <1>5, <1>7, <1>11, <2>3, <2>4 DEF ExtendedPoint
<1>13. s = ExtendedValues(a)
  <2>1. s = [i \in 1..l |-> s[i]]
    BY <1>11 DEF Vector
  <2> QED  BY <1>1, <1>12, <2>1 DEF ExtendedValues
<1> QED  BY <1>1, <1>9, <1>10, <1>11, <1>13

(* --------------------------------- the gate ------------------------------- *)

\* The columns' interpolants, and their values at one point.
Interpolants(cs) == [c \in DOMAIN cs |-> Coefficients(cs[c])]
RowAt(cs, x)     == [c \in DOMAIN cs |-> Eval(Coefficients(cs[c]), x)]

LEMMA ColumnsAre ==
    ASSUME NEW cs \in Columns
    PROVE  /\ Len(cs) \in Nat \ {0} /\ DOMAIN cs = 1..Len(cs)
           /\ \A c \in DOMAIN cs : cs[c] \in Vector(n)
<1>1. cs \in Seq([1..n -> Scalars]) /\ cs # <<>>
  BY GateAssumption
<1>2. Len(cs) \in Nat \ {0} /\ DOMAIN cs = 1..Len(cs)
  BY <1>1
<1>3. \A c \in DOMAIN cs : cs[c] \in [1..n -> Scalars]
  BY <1>1
<1> QED  BY <1>2, <1>3 DEF Vector

\* The gate along the columns is its polynomial's value.
LEMMA GateIs ==
    ASSUME NEW cs \in Columns
    PROVE  /\ GatePoly(cs) \in Vector((QuotientPolyDegree + 1) * n)
           /\ \A x \in Scalars : Gate(RowAt(cs, x)) = Eval(GatePoly(cs), x)
<1>1. GatePoly(cs) \in Vector((QuotientPolyDegree + 1) * n)
  BY GateAssumption DEF Vector
<1>2. \A x \in Scalars :
          Gate([c \in DOMAIN cs |-> Eval(LagrangeToCoeff(cs[c], Fits), x)]) = Eval(GatePoly(cs), x)
  BY GateAssumption
<1>3. Fits \in Answers /\ ~Refused(Fits)
  BY DEF Fits, Answers, Refused
<1>4. \A c \in DOMAIN cs : LagrangeToCoeff(cs[c], Fits) = Coefficients(cs[c])
  BY <1>3, ColumnsAre, LagrangeToCoeffIs
<1>5. ASSUME NEW x \in Scalars PROVE Gate(RowAt(cs, x)) = Eval(GatePoly(cs), x)
  <2>1. RowAt(cs, x) = [c \in DOMAIN cs |-> Eval(LagrangeToCoeff(cs[c], Fits), x)]
    BY <1>4 DEF RowAt
  <2> QED  BY <1>2, <2>1
<1> QED  BY <1>1, <1>5

\* The gate row by row, where the rows are the interpolants' values at some points.
LEMMA RowsAre ==
    ASSUME NEW cs \in Columns, NEW m \in Nat, NEW xs \in Vector(m), NEW vectors,
           vectors = [c \in DOMAIN cs |-> [r \in 1..m |-> Eval(Coefficients(cs[c]), xs[r])]]
    PROVE  Rows(vectors) = [r \in 1..m |-> Eval(GatePoly(cs), xs[r])]
<1>1. Len(cs) \in Nat \ {0} /\ DOMAIN cs = 1..Len(cs)
  BY ColumnsAre
<1>2. vectors \in [1..Len(cs) -> {vectors[c] : c \in 1..Len(cs)}]
  BY <1>1
<1>3. Len(vectors) = Len(cs)
  BY <1>1, <1>2, IsSequence
<1>4. Len(vectors[1]) = m
  <2>1. 1 \in DOMAIN cs
    BY <1>1
  <2>2. vectors[1] = [r \in 1..m |-> Eval(Coefficients(cs[1]), xs[r])]
    BY <2>1
  <2>3. vectors[1] \in [1..m -> {vectors[1][r] : r \in 1..m}]
    BY <2>2
  <2> QED  BY <2>3, IsSequence
<1>5. ASSUME NEW r \in 1..m
      PROVE  Gate([c \in 1..Len(vectors) |-> vectors[c][r]]) = Eval(GatePoly(cs), xs[r])
  <2>1. xs[r] \in Scalars
    BY VectorIs
  <2>2. \A c \in DOMAIN cs : vectors[c][r] = Eval(Coefficients(cs[c]), xs[r])
    OBVIOUS
  <2>3. [c \in 1..Len(vectors) |-> vectors[c][r]] = RowAt(cs, xs[r])
    BY <1>1, <1>3, <2>2 DEF RowAt
  <2> QED  BY <2>1, <2>3, GateIs
<1>6. PICK s : s = [r \in 1..m |-> Eval(GatePoly(cs), xs[r])]
  OBVIOUS
<1>7. Whole(s) = s
  <2>1. s \in [1..m -> {s[r] : r \in 1..m}]
    BY <1>6
  <2> QED  BY <2>1, WholeIs
<1>8. [r \in 1..Len(vectors[1]) |-> Gate([c \in 1..Len(vectors) |-> vectors[c][r]])] = s
  BY <1>4, <1>5, <1>6
<1> QED  BY <1>6, <1>7, <1>8 DEF Rows

\* The values of a part, by the places its points have in the extended domain.
PartValues(a, p) == [r \in 1..n |-> Eval(a, ExtendedPoint(((r - 1) * NumParts) + p))]

LEMMA PartPoint ==
    ASSUME NEW p \in Nat, NEW k \in Nat
    PROVE  Times(Times(Zeta, Power(ExtendedOmega, p)), Power(Omega, k))
               = ExtendedPoint((k * NumParts) + p)
<1>1. PICK s : s = NumParts
  OBVIOUS
<1>2. s \in Nat /\ k * s \in Nat /\ s * k = k * s /\ Power(ExtendedOmega, s) = Omega
  <2>1. s \in Nat
    BY <1>1, SizesAre
  <2> QED  BY <1>1, <2>1, DomainAssumption
<1>3. ExtendedOmega \in Scalars /\ Zeta \in Scalars
  BY RootsAre, RootInverse, SizesAre
<1>4. Power(Omega, k) = Power(ExtendedOmega, k * s)
  <2>1. Power(Power(ExtendedOmega, s), k) = Power(ExtendedOmega, s * k)
    BY <1>2, <1>3, PowerPower
  <2> QED  BY <1>2, <2>1
<1>5. PICK u, w : u = Power(ExtendedOmega, p) /\ w = Power(ExtendedOmega, k * s)
  OBVIOUS
<1>6. u \in Scalars /\ w \in Scalars
  BY <1>2, <1>3, <1>5, PowerIs
<1>7. Power(ExtendedOmega, (k * s) + p) = Times(w, u)
  BY <1>2, <1>3, <1>5, PowerIs
<1>8. Times(w, u) = Times(u, w) /\ Times(Times(Zeta, u), w) = Times(Zeta, Times(u, w))
  BY <1>3, <1>6, Laws
<1> QED  BY <1>1, <1>4, <1>5, <1>7, <1>8 DEF ExtendedPoint

LEMMA PartIs ==
    ASSUME NEW a, NEW p \in Nat
    PROVE  CosetValues(a, Times(Zeta, Power(ExtendedOmega, p))) = PartValues(a, p)
<1>1. ASSUME NEW r \in 1..n
      PROVE  Times(Times(Zeta, Power(ExtendedOmega, p)), Power(Omega, r - 1))
                 = ExtendedPoint(((r - 1) * NumParts) + p)
  <2>1. PICK k : k = r - 1 /\ k \in Nat
    BY SizesAre
  <2> QED  BY <2>1, PartPoint
<1> QED  BY <1>1 DEF CosetValues, PartValues

\* The parts interleaved are the values on the extended domain in order.
LEMMA GatheredIs ==
    ASSUME NEW a \in Vector((QuotientPolyDegree + 1) * n), NEW gathered,
           gathered = [p \in 1..NumParts |-> PartValues(a, p - 1)]
    PROVE  ExtendedFromLagrangeVec(gathered) = ExtendedValues(a)
<1>1. PICK s : s = NumParts
  OBVIOUS
<1>2. s \in Nat \ {0} /\ n \in Nat \ {0} /\ ExtendedLen = s * n /\ ExtendedLen \in Nat
  <2>1. s \in Nat \ {0} /\ n \in Nat \ {0} /\ ExtendedLen = n * s /\ ExtendedLen \in Nat
    BY <1>1, SizesAre
  <2>2. n * s = s * n
    BY <2>1
  <2> QED  BY <2>1, <2>2
<1>3. Len(gathered) = s
  <2>1. gathered \in [1..s -> {gathered[p] : p \in 1..s}]
    BY <1>1
  <2> QED  BY <1>2, <2>1, IsSequence
<1>4. ASSUME NEW i \in 1..ExtendedLen
      PROVE  gathered[1 + ((i - 1) % s)][1 + ((i - 1) \div s)] = Eval(a, ExtendedPoint(i - 1))
  <2>1. PICK k, q, r : k = i - 1 /\ q = k \div s /\ r = k % s
    OBVIOUS
  <2>2. Split(k, s, q, r)
    BY <2>1 DEF Split
  <2>3. k \in Nat /\ k < s * n
    BY <1>2, <2>1
  <2>4. r \in 0..(s - 1) /\ r \in Nat /\ q \in Nat /\ s * q \in Nat /\ k = (s * q) + r
    BY <1>2, <2>2, <2>3, NatDivision
  <2>5. q \in 0..(n - 1)
    BY <1>2, <2>2, <2>3, QuotientBelow
  <2>6. 1 + r \in 1..s /\ (1 + r) - 1 = r
    BY <1>2, <2>4
  <2>7. 1 + q \in 1..n /\ (1 + q) - 1 = q
    BY <1>2, <2>5
  <2>8. gathered[1 + r] = PartValues(a, (1 + r) - 1)
    BY <1>1, <2>6
  <2>9. gathered[1 + r][1 + q] = Eval(a, ExtendedPoint((((1 + q) - 1) * NumParts) + r))
    BY <2>6, <2>7, <2>8 DEF PartValues
  <2>10. (q * s) + r = k
    <3>1. q * s = s * q
      BY <1>2, <2>4
    <3> QED  BY <2>4, <3>1
  <2>11. gathered[1 + r][1 + q] = Eval(a, ExtendedPoint(k))
    BY <1>1, <2>7, <2>9, <2>10
  <2> QED  BY <2>1, <2>11
<1>5. PICK v : v = ExtendedValues(a)
  OBVIOUS
<1>6. Whole(v) = v
  <2>1. v \in [1..ExtendedLen -> {v[i] : i \in 1..ExtendedLen}]
    BY <1>5 DEF ExtendedValues
  <2> QED  BY <1>2, <2>1, WholeIs
<1>7. [i \in 1..(s * n) |-> gathered[1 + ((i - 1) % s)][1 + ((i - 1) \div s)]] = v
  BY <1>2, <1>4, <1>5 DEF ExtendedValues
<1> QED  BY <1>3, <1>5, <1>6, <1>7 DEF ExtendedFromLagrangeVec

(* -------------------------- the transforms of a batch --------------------- *)

LEMMA IfftIs ==
    ASSUME NEW cs \in Columns
    PROVE  IfftToDevice(cs) = Interpolants(cs)
<1>1. \A c \in DOMAIN cs : Kernel("iFFT", cs[c], OmegaInv, IfftDivisor) = Coefficients(cs[c])
  BY ColumnsAre, LagrangeToCoeffIs
<1> QED  BY <1>1 DEF IfftToDevice, Interpolants

LEMMA InterpolantsAre ==
    ASSUME NEW cs \in Columns
    PROVE  /\ DOMAIN Interpolants(cs) = DOMAIN cs
           /\ \A c \in DOMAIN cs : /\ Interpolants(cs)[c] = Coefficients(cs[c])
                                   /\ Interpolants(cs)[c] \in Vector(n)
                                   /\ Coefficients(cs[c]) \in Vector(n)
  BY ColumnsAre, CoefficientsAre DEF Interpolants

\* The interpolants on one coset.
OnCoset(cs, shift) == [c \in DOMAIN cs |-> CosetValues(Coefficients(cs[c]), shift)]

LEMMA CosetFftIs ==
    ASSUME NEW cs \in Columns, NEW shift \in Scalars
    PROVE  CosetFftToDevice(Interpolants(cs), shift) = OnCoset(cs, shift)
<1>1. \A c \in DOMAIN cs :
          Kernel("CosetFFT_Part", Interpolants(cs)[c], Omega, shift) = CosetValues(Coefficients(cs[c]), shift)
  BY InterpolantsAre, CosetIs
<1> QED  BY <1>1, InterpolantsAre DEF CosetFftToDevice, OnCoset

LEMMA OnCosetRows ==
    ASSUME NEW cs \in Columns, NEW p \in Nat
    PROVE  Rows(OnCoset(cs, Times(Zeta, Power(ExtendedOmega, p)))) = PartValues(GatePoly(cs), p)
<1>1. PICK shift : shift = Times(Zeta, Power(ExtendedOmega, p))
  OBVIOUS
<1>2. shift \in Scalars /\ n \in Nat /\ Omega \in Scalars
  <2>1. ExtendedOmega \in Scalars /\ Zeta \in Scalars /\ Omega \in Scalars
    BY RootsAre, RootInverse, SizesAre
  <2>2. Power(ExtendedOmega, p) \in Scalars
    BY <2>1, PowerIs
  <2> QED  BY <1>1, <2>1, <2>2, Closed, SizesAre
<1>3. PICK xs : xs = [r \in 1..n |-> Times(shift, Power(Omega, r - 1))]
  OBVIOUS
<1>4. xs \in Vector(n)
  <2>1. \A r \in 1..n : r - 1 \in Nat
    BY <1>2
  <2>2. \A r \in 1..n : Times(shift, Power(Omega, r - 1)) \in Scalars
    BY <1>2, <2>1, PowerIs, Closed
  <2> QED  BY <1>3, <2>2 DEF Vector
<1>5. OnCoset(cs, shift) = [c \in DOMAIN cs |-> [r \in 1..n |-> Eval(Coefficients(cs[c]), xs[r])]]
  BY <1>3 DEF OnCoset, CosetValues
<1>6. Rows(OnCoset(cs, shift)) = [r \in 1..n |-> Eval(GatePoly(cs), xs[r])]
  BY <1>2, <1>4, <1>5, RowsAre
<1>7. [r \in 1..n |-> Eval(GatePoly(cs), xs[r])] = CosetValues(GatePoly(cs), shift)
  BY <1>3 DEF CosetValues
<1> QED  BY <1>1, <1>6, <1>7, PartIs

LEMMA ExtendedRows ==
    ASSUME NEW cs \in Columns
    PROVE  Rows([c \in DOMAIN cs |-> ExtendedValues(Coefficients(cs[c]))]) = ExtendedValues(GatePoly(cs))
<1>1. PICK xs : xs = [i \in 1..ExtendedLen |-> ExtendedPoint(i - 1)]
  OBVIOUS
<1>2. xs \in Vector(ExtendedLen) /\ ExtendedLen \in Nat
  <2>1. ExtendedOmega \in Scalars /\ Zeta \in Scalars /\ ExtendedLen \in Nat
    BY RootsAre, RootInverse, SizesAre
  <2>2. \A i \in 1..ExtendedLen : i - 1 \in Nat
    BY <2>1
  <2>3. \A i \in 1..ExtendedLen : Times(Zeta, Power(ExtendedOmega, i - 1)) \in Scalars
    BY <2>1, <2>2, PowerIs, Closed
  <2> QED  BY <1>1, <2>1, <2>3 DEF Vector, ExtendedPoint
<1>3. PICK vectors : vectors = [c \in DOMAIN cs |-> ExtendedValues(Coefficients(cs[c]))]
  OBVIOUS
<1>4. vectors = [c \in DOMAIN cs |-> [r \in 1..ExtendedLen |-> Eval(Coefficients(cs[c]), xs[r])]]
  BY <1>1, <1>3 DEF ExtendedValues
<1>5. Rows(vectors) = [r \in 1..ExtendedLen |-> Eval(GatePoly(cs), xs[r])]
  BY <1>2, <1>4, RowsAre
<1> QED  BY <1>1, <1>3, <1>5 DEF ExtendedValues

(* ------------------------- the quotient's conversions --------------------- *)

\* Leaving the coset: the square of zeta is its inverse.
LEMMA CubeIs ==
    /\ Times(Zeta, Zeta) \in Scalars /\ Power(Times(Zeta, Zeta), 3) = 1
    /\ Times(Times(Zeta, Zeta), Times(Zeta, Zeta)) = Zeta
    /\ Times(Times(Zeta, Zeta), Zeta) = 1
<1>1. Zeta \in Scalars /\ Power(Zeta, 3) = 1
  BY RootsAre, DomainAssumption
<1>2. PICK y : y = Times(Zeta, Zeta)
  OBVIOUS
<1>3. y \in Scalars
  BY <1>1, <1>2, Closed
<1>4. Times(y, Zeta) = 1
  <2>1. PICK i : i = 1
    OBVIOUS
  <2>2. Power(Zeta, i + 1) = Times(Power(Zeta, i), Zeta) /\ Power(Zeta, i) = Zeta /\ i \in Nat
    BY <1>1, <2>1, PowerIs
  <2>3. PICK j : j = 2
    OBVIOUS
  <2>4. Power(Zeta, j + 1) = Times(Power(Zeta, j), Zeta) /\ i + 1 = j /\ j + 1 = 3
    BY <1>1, <2>1, <2>3, PowerIs
  <2> QED  BY <1>1, <1>2, <2>2, <2>4
<1>5. Times(y, y) = Zeta
  <2>1. Times(y, Times(Zeta, Zeta)) = Times(Times(y, Zeta), Zeta)
    BY <1>1, <1>3, Laws
  <2>2. Times(1, Zeta) = Zeta
    BY <1>1, Laws
  <2> QED  BY <1>2, <1>4, <2>1, <2>2
<1>6. Power(y, 3) = 1
  <2>1. PICK k : k = 3
    OBVIOUS
  <2>2. Power(Times(Zeta, Zeta), k) = Times(Power(Zeta, k), Power(Zeta, k))
    BY <1>1, <2>1, PowerTimes
  <2>3. Times(1, 1) = 1
    BY Closed, Laws
  <2> QED  BY <1>1, <1>2, <2>1, <2>2, <2>3
<1> QED  BY <1>2, <1>3, <1>4, <1>5, <1>6

\* The interpolant of the extended domain's coset, before it is cut.
Uncut(v) == TwistedBy(ScaledBy(Sums(v, Inverted(ExtendedOmega)), Inverted(ExtendedLen % Prime)),
                      Times(Zeta, Zeta))

LEMMA UncutIs ==
    ASSUME NEW v \in Vector(ExtendedLen)
    PROVE  /\ Uncut(v) \in Vector(ExtendedLen)
           /\ DistributePowersZeta(ExtendedIfft(v), OutOfCoset) = Uncut(v)
           /\ \A i \in 1..ExtendedLen : Eval(Uncut(v), ExtendedPoint(i - 1)) = v[i]
<1>1. PICK l : l = ExtendedLen
  OBVIOUS
<1>2. PICK y : y = Times(Zeta, Zeta)
  OBVIOUS
<1>3. /\ y \in Scalars /\ Power(y, 3) = 1 /\ Times(y, y) = Zeta /\ Times(y, Zeta) = 1
  BY <1>2, CubeIs
<1>4. l \in Nat /\ l \in Nat \ {0}
  BY <1>1, SizesAre
<1>5. PICK s : s = ScaledBy(Sums(v, Inverted(ExtendedOmega)), Inverted(ExtendedLen % Prime))
  OBVIOUS
<1>6. s \in Vector(l) /\ \A r \in 1..l : Eval(s, Power(ExtendedOmega, r - 1)) = v[r]
  BY <1>1, <1>4, <1>5, RootsAre, InverseIs
<1>7. ExtendedIfft(v) = s
  BY <1>5 DEF ExtendedIfft, Kernel
<1>8. PICK u : u = TwistedBy(s, y)
  OBVIOUS
<1>9. u \in Vector(l) /\ \A x \in Scalars : Eval(u, x) = Eval(s, Times(y, x))
  BY <1>3, <1>4, <1>6, <1>8, TwistedIs
<1>10. DistributePowersZeta(s, <<y, Times(y, y)>>) = u
  BY <1>3, <1>4, <1>6, <1>8, DistributedIs
<1>11. OutOfCoset = <<y, Times(y, y)>>
  BY <1>2, <1>3 DEF OutOfCoset
<1>12. ASSUME NEW i \in 1..l PROVE Eval(u, ExtendedPoint(i - 1)) = v[i]
  <2>1. i - 1 \in Nat
    BY <1>4
  <2>2. PICK x : x = Power(ExtendedOmega, i - 1)
    OBVIOUS
  <2>3. x \in Scalars /\ Zeta \in Scalars
    BY <2>1, <2>2, PowerIs, RootsAre, RootInverse, SizesAre
  <2>4. Times(Zeta, x) \in Scalars
    BY <2>3, Closed
  <2>5. Times(y, Times(Zeta, x)) = Times(Times(y, Zeta), x) /\ Times(1, x) = x
    BY <1>3, <2>3, Laws
  <2> QED  BY <1>3, <1>6, <1>9, <2>2, <2>4, <2>5 DEF ExtendedPoint
<1> QED  BY <1>1, <1>2, <1>5, <1>7, <1>8, <1>9, <1>10, <1>11, <1>12 DEF Uncut

LEMMA ExtendedToCoeffIs ==
    ASSUME NEW v \in Vector(ExtendedLen)
    PROVE  /\ QuotientPolyDegree * n \in Nat /\ QuotientPolyDegree * n <= ExtendedLen
           /\ ExtendedToCoeff(v) \in Vector(QuotientPolyDegree * n)
           /\ \A k \in 1..(QuotientPolyDegree * n) : ExtendedToCoeff(v)[k] = Uncut(v)[k]
<1>1. PICK l, d, s : l = ExtendedLen /\ d = QuotientPolyDegree /\ s = NumParts
  OBVIOUS
<1>2. l \in Nat /\ d \in Nat /\ s \in Nat /\ n \in Nat /\ d <= s /\ l = n * s
  BY <1>1, SizesAre
<1>3. d * n \in Nat /\ d * n = n * d /\ d * n <= l
  <2>1. d * n \in Nat /\ d * n = n * d
    BY <1>2
  <2>2. s - d \in Nat /\ n * (s - d) \in Nat /\ n * s = (n * d) + (n * (s - d))
    BY <1>2
  <2> QED  BY <1>2, <2>1, <2>2
<1>4. PICK m, u : m = d * n /\ u = Uncut(v)
  OBVIOUS
<1>5. u \in Vector(l) /\ ExtendedToCoeff(v) = SubSeq(u, 1, m)
  BY <1>1, <1>3, <1>4, UncutIs DEF ExtendedToCoeff
<1>6. SubSeq(u, 0 + 1, 0 + m) = Segment(u, 0, m) /\ Segment(u, 0, m) \in Vector(m)
  <2>1. PICK k : k = 0
    OBVIOUS
  <2>2. k \in Nat /\ m \in Nat /\ k + m <= l
    BY <1>2, <1>3, <1>4, <2>1
  <2>3. Segment(u, k, m) \in Vector(m) /\ SubSeq(u, k + 1, k + m) = Segment(u, k, m)
    BY <1>2, <1>5, <2>2, SegmentIs
  <2> QED  BY <2>1, <2>3
<1>7. ExtendedToCoeff(v) = Segment(u, 0, m)
  <2>1. 0 + 1 = 1 /\ 0 + m = m
    BY <1>3, <1>4
  <2> QED  BY <1>5, <1>6, <2>1
<1>8. \A k \in 1..m : Segment(u, 0, m)[k] = u[k]
  BY <1>3, <1>4 DEF Segment
<1> QED  BY <1>1, <1>3, <1>4, <1>6, <1>7, <1>8

\* The vanishing polynomial's values repeat with the parts.
LEMMA VanishingRepeats ==
    ASSUME NEW k \in Nat
    PROVE  Times(Power(Zeta, n), Power(Power(ExtendedOmega, n), k % NumParts)) = Power(ExtendedPoint(k), n)
<1>1. PICK s, w, x : s = NumParts /\ w = Power(ExtendedOmega, n) /\ x = Power(ExtendedOmega, k)
  OBVIOUS
<1>2. /\ ExtendedOmega \in Scalars /\ Zeta \in Scalars /\ n \in Nat /\ s \in Nat /\ s \in Nat \ {0}
      /\ ExtendedLen = n * s
  BY <1>1, RootsAre, RootInverse, SizesAre
<1>3. w \in Scalars /\ x \in Scalars
  BY <1>1, <1>2, PowerIs
<1>4. Power(w, s) = 1
  <2>1. Power(Power(ExtendedOmega, n), s) = Power(ExtendedOmega, n * s)
    BY <1>2, PowerPower
  <2> QED  BY <1>1, <1>2, <2>1, DomainAssumption
<1>5. Power(w, k % s) = Power(w, k)
  BY <1>2, <1>3, <1>4, PowerMod
<1>6. Power(w, k) = Power(x, n)
  <2>1. n * k = k * n
    BY <1>2
  <2>2. Power(Power(ExtendedOmega, n), k) = Power(ExtendedOmega, n * k)
    BY <1>2, PowerPower
  <2>3. Power(Power(ExtendedOmega, k), n) = Power(ExtendedOmega, k * n)
    BY <1>2, PowerPower
  <2> QED  BY <1>1, <2>1, <2>2, <2>3
<1>7. Power(Times(Zeta, x), n) = Times(Power(Zeta, n), Power(x, n))
  BY <1>2, <1>3, PowerTimes
<1> QED  BY <1>1, <1>5, <1>6, <1>7 DEF ExtendedPoint

LEMMA DivideIs ==
    ASSUME NEW v \in Vector(ExtendedLen)
    PROVE  /\ DivideByVanishingPoly(v) \in Vector(ExtendedLen)
           /\ \A i \in 1..ExtendedLen :
                 DivideByVanishingPoly(v)[i]
                     = Times(v[i], Inverted(Minus(Power(ExtendedPoint(i - 1), n), 1)))
<1>1. PICK l, s, t : l = ExtendedLen /\ s = NumParts /\ t = TEvaluations
  OBVIOUS
<1>2. l \in Nat /\ s \in Nat /\ s \in Nat \ {0} /\ n \in Nat /\ ExtendedOmega \in Scalars /\ Zeta \in Scalars
  BY <1>1, RootsAre, RootInverse, SizesAre
<1>3. PICK z, w : z = Power(Zeta, n) /\ w = Power(ExtendedOmega, n)
  OBVIOUS
<1>4. z \in Scalars /\ w \in Scalars
  BY <1>2, <1>3, PowerIs
<1>5. PICK g : g = [i \in 1..s |-> Inverted(Minus(Times(z, Power(w, i - 1)), 1))]
  OBVIOUS
<1>6. g \in Vector(s)
  <2>1. \A i \in 1..s : i - 1 \in Nat
    BY <1>2
  <2>2. \A i \in 1..s : Minus(Times(z, Power(w, i - 1)), 1) \in Scalars
    BY <1>4, <2>1, PowerIs, Closed
  <2>3. \A i \in 1..s : Inverted(Minus(Times(z, Power(w, i - 1)), 1)) \in Scalars
    BY <2>2, InvertedType
  <2> QED  BY <1>5, <2>3 DEF Vector
<1>7. t = g /\ Len(t) = s
  <2>1. Whole(g) = g /\ Len(g) = s
    BY <1>2, <1>6, VectorIs
  <2> QED  BY <1>1, <1>3, <1>5, <2>1 DEF TEvaluations
<1>8. ASSUME NEW i \in 1..l
      PROVE  /\ t[1 + ((i - 1) % s)] \in Scalars
             /\ t[1 + ((i - 1) % s)] = Inverted(Minus(Power(ExtendedPoint(i - 1), n), 1))
  <2>1. PICK k : k = i - 1 /\ k \in Nat
    BY <1>2
  <2>2. PICK r : r = k % s
    OBVIOUS
  <2>3. r \in 0..(s - 1)
    BY <1>2, <2>1, <2>2, Division
  <2>4. 1 + r \in 1..s /\ (1 + r) - 1 = r
    BY <1>2, <2>3
  <2>5. t[1 + r] \in Scalars
    BY <1>6, <1>7, <2>4 DEF Vector
  <2>6. t[1 + r] = Inverted(Minus(Times(z, Power(w, (1 + r) - 1)), 1))
    BY <1>5, <1>7, <2>4
  <2>7. Times(z, Power(w, r)) = Power(ExtendedPoint(k), n)
    BY <1>1, <1>3, <2>1, <2>2, VanishingRepeats
  <2> QED  BY <2>1, <2>2, <2>4, <2>5, <2>6, <2>7
<1>9. Len(v) = l /\ \A i \in 1..l : v[i] \in Scalars
  BY <1>1, <1>2, VectorIs
<1>10. PICK d : d = [i \in 1..l |-> Times(v[i], t[1 + ((i - 1) % s)])]
  OBVIOUS
<1>11. d \in Vector(l)
  <2>1. \A i \in 1..l : Times(v[i], t[1 + ((i - 1) % s)]) \in Scalars
    BY <1>8, <1>9, Closed
  <2> QED  BY <1>10, <2>1 DEF Vector
<1>12. DivideByVanishingPoly(v) = d
  <2>1. Whole(d) = d
    BY <1>2, <1>11, VectorIs
  <2> QED  BY <1>1, <1>7, <1>9, <1>10, <2>1 DEF DivideByVanishingPoly
<1>13. \A i \in 1..l : d[i] = Times(v[i], Inverted(Minus(Power(ExtendedPoint(i - 1), n), 1)))
  BY <1>8, <1>10
<1> QED  BY <1>1, <1>11, <1>12, <1>13

\* The quotient's pieces are its segments.
Pieces(q) == [i \in 1..QuotientPolyDegree |-> SubSeq(q, (i - 1) * n + 1, i * n)]

LEMMA PiecesAre ==
    ASSUME NEW q \in Vector(QuotientPolyDegree * n)
    PROVE  /\ Pieces(q) = Segments(q, n, QuotientPolyDegree)
           /\ Pieces(q) \in Polynomials(QuotientPolyDegree, n)
<1>1. PICK d : d = QuotientPolyDegree
  OBVIOUS
<1>2. d \in Nat /\ n \in Nat /\ d * n \in Nat
  BY <1>1, SizesAre
<1>3. ASSUME NEW i \in 1..d PROVE SubSeq(q, (i - 1) * n + 1, i * n) = Segment(q, (i - 1) * n, n)
  <2>1. PICK k : k = (i - 1) * n
    OBVIOUS
  <2>2. k \in Nat /\ i * n = k + n /\ k + n <= d * n
    <3>1. (i - 1) * n \in Nat /\ i * n = ((i - 1) * n) + n
      BY <1>2
    <3>2. (d - i) * n \in Nat /\ d * n = ((d - i) * n) + (i * n)
      BY <1>2
    <3>3. i * n \in Nat
      BY <1>2
    <3> QED  BY <1>2, <2>1, <3>1, <3>2, <3>3
  <2>3. SubSeq(q, k + 1, k + n) = Segment(q, k, n)
    BY <1>1, <1>2, <2>2, SegmentIs
  <2> QED  BY <2>1, <2>2, <2>3
<1>4. Pieces(q) = Segments(q, n, d)
  BY <1>1, <1>3 DEF Pieces, Segments
<1>5. Segments(q, n, d) \in Polynomials(d, n)
  BY <1>1, <1>2, SegmentsAre
<1> QED  BY <1>1, <1>4, <1>5

(* ---------------------------------- the fold ------------------------------ *)

\* The pieces folded coefficient by coefficient.
FoldOf(vectors, len, x) == [k \in 1..n |-> Eval(Column(vectors, len, k), x)]

\* A fold's step on the host is the device's.
LEMMA FoldStep ==
    ASSUME NEW acc \in Vector(n), NEW v \in Vector(n), NEW x \in Scalars
    PROVE  /\ AddVectors(ScaledBy(acc, x), v) = [k \in 1..n |-> Plus(v[k], Times(x, acc[k]))]
           /\ AddVectors(AddVectors(acc, ScaledBy(acc, Minus(x, 1))), v)
                  = [k \in 1..n |-> Plus(v[k], Times(x, acc[k]))]
<1>1. n \in Nat /\ 1 \in Scalars
  BY SizesAre, Closed
<1>2. ASSUME NEW a \in Vector(n), NEW b \in Vector(n)
      PROVE  AddVectors(a, b) \in Vector(n) /\ \A k \in 1..n : AddVectors(a, b)[k] = Plus(a[k], b[k])
  <2>1. PICK f : f = [k \in 1..n |-> Plus(a[k], b[k])]
    OBVIOUS
  <2>2. \A k \in 1..n : a[k] \in Scalars /\ b[k] \in Scalars
    BY DEF Vector
  <2>3. \A k \in 1..n : Plus(a[k], b[k]) \in Scalars
    BY <2>2, Closed
  <2>4. f \in Vector(n)
    BY <2>1, <2>3 DEF Vector
  <2>5. Whole(f) = f
    BY <1>1, <2>4, VectorIs
  <2>6. AddVectors(a, b) = f
    BY <2>1, <2>5 DEF AddVectors, Combined
  <2> QED  BY <2>1, <2>4, <2>6
<1>3. PICK y : y = Minus(x, 1)
  OBVIOUS
<1>4. y \in Scalars /\ Plus(1, y) = x
  BY <1>1, <1>3, MinusIs
<1>5. PICK s, t : s = ScaledBy(acc, x) /\ t = ScaledBy(acc, y)
  OBVIOUS
<1>6. /\ s \in Vector(n) /\ \A k \in 1..n : s[k] = Times(acc[k], x)
      /\ t \in Vector(n) /\ \A k \in 1..n : t[k] = Times(acc[k], y)
  BY <1>1, <1>4, <1>5, ScaledIs
<1>7. PICK u : u = AddVectors(acc, t)
  OBVIOUS
<1>8. u \in Vector(n) /\ \A k \in 1..n : u[k] = Plus(acc[k], t[k])
  BY <1>2, <1>6, <1>7
<1>9. ASSUME NEW k \in 1..n
      PROVE  /\ Plus(s[k], v[k]) = Plus(v[k], Times(x, acc[k]))
             /\ Plus(u[k], v[k]) = Plus(v[k], Times(x, acc[k]))
  <2>1. PICK a, b : a = acc[k] /\ b = v[k]
    OBVIOUS
  <2>2. a \in Scalars /\ b \in Scalars
    BY <2>1 DEF Vector
  <2>3. Times(a, x) = Times(x, a) /\ Times(x, a) \in Scalars
    BY <2>2, Closed, Laws
  <2>4. Plus(Times(x, a), b) = Plus(b, Times(x, a))
    BY <2>2, <2>3, Laws
  <2>5. Plus(a, Times(a, y)) = Times(a, x)
    <3>1. Times(a, Plus(1, y)) = Plus(Times(a, 1), Times(a, y)) /\ Times(a, 1) = a
      BY <1>1, <1>4, <2>2, Laws
    <3> QED  BY <1>4, <3>1
  <2> QED  BY <1>6, <1>8, <2>1, <2>3, <2>4, <2>5
<1>10. AddVectors(s, v) = [k \in 1..n |-> Plus(v[k], Times(x, acc[k]))]
  <2>1. AddVectors(s, v) \in Vector(n) /\ \A k \in 1..n : AddVectors(s, v)[k] = Plus(s[k], v[k])
    BY <1>2, <1>6
  <2>2. AddVectors(s, v) = [k \in 1..n |-> AddVectors(s, v)[k]]
    BY <2>1 DEF Vector
  <2> QED  BY <1>9, <2>1, <2>2
<1>11. AddVectors(u, v) = [k \in 1..n |-> Plus(v[k], Times(x, acc[k]))]
  <2>1. AddVectors(u, v) \in Vector(n) /\ \A k \in 1..n : AddVectors(u, v)[k] = Plus(u[k], v[k])
    BY <1>2, <1>8
  <2>2. AddVectors(u, v) = [k \in 1..n |-> AddVectors(u, v)[k]]
    BY <2>1 DEF Vector
  <2> QED  BY <1>9, <2>1, <2>2
<1> QED  BY <1>3, <1>5, <1>7, <1>10, <1>11

\* What the fold passes through, from the last vector to the first.
FoldRun(vectors, len, x) ==
    [i \in 1..(len + 1) |-> [k \in 1..n |-> HornerOf(x, Column(vectors, len, k))[i]]]

LEMMA FoldRunIs ==
    ASSUME NEW len \in Nat, NEW vectors \in Polynomials(len, n), NEW x \in Scalars,
           NEW g, g = FoldRun(vectors, len, x)
    PROVE  /\ FoldOf(vectors, len, x) \in Vector(n) /\ g[1] = FoldOf(vectors, len, x)
           /\ DOMAIN g = 1..(len + 1)
           /\ g[len + 1] = PaddedTo(<<>>, n)
           /\ \A i \in 1..len :
                 /\ g[i] = AddVectors(ScaledBy(g[i + 1], x), vectors[i])
                 /\ g[i] = AddVectors(AddVectors(g[i + 1], ScaledBy(g[i + 1], Minus(x, 1))), vectors[i])
<1>1. n \in Nat
  BY SizesAre
<1>2. ASSUME NEW k \in 1..n
      PROVE  /\ Column(vectors, len, k) \in Vector(len)
             /\ \A i \in 1..len : Column(vectors, len, k)[i] = vectors[i][k]
  <2>1. \A i \in 1..len : vectors[i] \in Vector(n)
    BY DEF Polynomials
  <2>2. \A i \in 1..len : vectors[i][k] \in Scalars
    BY <2>1 DEF Vector
  <2> QED  BY <2>2 DEF Column, Vector
<1>3. PICK c : c = [k \in 1..n |-> HornerOf(x, Column(vectors, len, k))]
  OBVIOUS
<1>4. \A i \in 1..(len + 1), k \in 1..n : g[i][k] = c[k][i]
  BY <1>3 DEF FoldRun
<1>5. ASSUME NEW k \in 1..n
      PROVE  /\ c[k] \in Vector(len + 1) /\ c[k][len + 1] = 0
             /\ \A i \in 1..len : c[k][i] = Plus(vectors[i][k], Times(x, c[k][i + 1]))
             /\ c[k][1] = Eval(Column(vectors, len, k), x)
  <2>1. c[k] = HornerOf(x, Column(vectors, len, k))
    BY <1>3
  <2>2. IsHorner(c[k], x, Column(vectors, len, k), len)
    BY <1>2, <2>1, HornerIs
  <2>3. c[k][1] = Eval(Column(vectors, len, k), x)
    BY <1>2, <2>2, EvalIs
  <2> QED  BY <1>2, <2>2, <2>3 DEF IsHorner
<1>6. \A i \in 1..(len + 1) : g[i] \in Vector(n) /\ g[i] = [k \in 1..n |-> c[k][i]]
  <2>1. SUFFICES ASSUME NEW i \in 1..(len + 1)
                 PROVE  g[i] \in Vector(n) /\ g[i] = [k \in 1..n |-> c[k][i]]
    OBVIOUS
  <2>2. \A k \in 1..n : c[k][i] \in Scalars
    BY <1>5 DEF Vector
  <2>3. g[i] = [k \in 1..n |-> c[k][i]]
    BY <1>3 DEF FoldRun
  <2> QED  BY <2>2, <2>3 DEF Vector
<1>7. FoldOf(vectors, len, x) \in Vector(n) /\ g[1] = FoldOf(vectors, len, x)
  <2>1. 1 \in 1..(len + 1)
    OBVIOUS
  <2>2. g[1] = [k \in 1..n |-> c[k][1]] /\ g[1] \in Vector(n)
    BY <1>6, <2>1
  <2>3. g[1] = FoldOf(vectors, len, x)
    BY <1>5, <2>2 DEF FoldOf
  <2> QED  BY <2>2, <2>3
<1>8. g[len + 1] = PaddedTo(<<>>, n)
  <2>1. len + 1 \in 1..(len + 1)
    OBVIOUS
  <2>2. g[len + 1] = [k \in 1..n |-> 0]
    BY <1>5, <1>6, <2>1
  <2>3. PICK z : z = 0
    OBVIOUS
  <2>4. z \in Nat /\ z <= n /\ 1..z = {}
    BY <1>1, <2>3
  <2>5. <<>> \in Vector(z)
    BY <2>4 DEF Vector
  <2>6. PaddedTo(<<>>, n) \in Vector(n) /\ \A k \in 1..n : PaddedTo(<<>>, n)[k] = IF k <= z THEN <<>>[k] ELSE 0
    BY <1>1, <2>4, <2>5, PaddedIs
  <2>7. \A k \in 1..n : PaddedTo(<<>>, n)[k] = 0
    BY <2>3, <2>6
  <2>8. PaddedTo(<<>>, n) = [k \in 1..n |-> PaddedTo(<<>>, n)[k]]
    BY <2>6 DEF Vector
  <2> QED  BY <2>2, <2>7, <2>8
<1>9. ASSUME NEW i \in 1..len
      PROVE  /\ g[i] = AddVectors(ScaledBy(g[i + 1], x), vectors[i])
             /\ g[i] = AddVectors(AddVectors(g[i + 1], ScaledBy(g[i + 1], Minus(x, 1))), vectors[i])
  <2>1. i \in 1..(len + 1) /\ i + 1 \in 1..(len + 1)
    OBVIOUS
  <2>2. PICK acc, v : acc = g[i + 1] /\ v = vectors[i]
    OBVIOUS
  <2>3. acc \in Vector(n) /\ v \in Vector(n)
    BY <1>6, <2>1, <2>2 DEF Polynomials
  <2>4. g[i] = [k \in 1..n |-> Plus(v[k], Times(x, acc[k]))]
    <3>1. \A k \in 1..n : acc[k] = c[k][i + 1]
      BY <1>4, <2>1, <2>2
    <3>2. \A k \in 1..n : c[k][i] = Plus(v[k], Times(x, acc[k]))
      BY <1>5, <2>2, <3>1
    <3> QED  BY <1>6, <2>1, <3>2
  <2> QED  BY <2>2, <2>3, <2>4, FoldStep
<1> QED  BY <1>7, <1>8, <1>9 DEF FoldRun

LEMMA FoldedIs ==
    ASSUME NEW len \in Nat, NEW vectors \in Polynomials(len, n), NEW x \in Scalars
    PROVE  /\ FoldOf(vectors, len, x) \in Vector(n)
           /\ FoldedOnHost(vectors, x) = FoldOf(vectors, len, x)
           /\ FoldedOnDevice(vectors, x) = FoldOf(vectors, len, x)
<1> DEFINE OnHost(f) == f = [i \in 1..(Len(vectors) + 1) |->
                IF i > Len(vectors) THEN PaddedTo(<<>>, n)
                ELSE AddVectors(ScaledBy(f[i + 1], x), vectors[i])]
           OnDevice(f) == f = [i \in 1..(Len(vectors) + 1) |->
                IF i > Len(vectors) THEN PaddedTo(<<>>, n)
                ELSE LET acc == f[i + 1]
                     IN  AddVectors(AddVectors(acc, ScaledBy(acc, Minus(x, 1))), vectors[i])]
           host   == CHOOSE f : OnHost(f)
           device == CHOOSE f : OnDevice(f)
<1>1. PICK g : g = FoldRun(vectors, len, x)
  OBVIOUS
<1>2. /\ FoldOf(vectors, len, x) \in Vector(n) /\ g[1] = FoldOf(vectors, len, x)
      /\ DOMAIN g = 1..(len + 1) /\ g[len + 1] = PaddedTo(<<>>, n)
  BY <1>1, FoldRunIs
<1>3. \A i \in 1..len :
          /\ g[i] = AddVectors(ScaledBy(g[i + 1], x), vectors[i])
          /\ g[i] = AddVectors(AddVectors(g[i + 1], ScaledBy(g[i + 1], Minus(x, 1))), vectors[i])
  BY <1>1, FoldRunIs
<1>4. Len(vectors) = len
  <2>1. vectors \in [1..len -> Vector(n)]
    BY DEF Polynomials
  <2> QED  BY <2>1, IsSequence
<1>5. /\ \A k \in 1..(len + 1) : k > len => k = len + 1
      /\ \A k \in 1..(len + 1) : ~(k > len) => k \in 1..len
      /\ len + 1 \in 1..(len + 1) /\ len + 1 > len
      /\ \A k \in 1..len : k \in 1..(len + 1) /\ ~(k > len)
  OBVIOUS
<1>6. g = [i \in 1..(len + 1) |-> g[i]]
  BY <1>1 DEF FoldRun
<1>7. OnHost(g)
  <2>1. \A i \in 1..(len + 1) : g[i] = IF i > len THEN PaddedTo(<<>>, n)
                                       ELSE AddVectors(ScaledBy(g[i + 1], x), vectors[i])
    BY <1>2, <1>3, <1>5
  <2> QED  BY <1>4, <1>6, <2>1
<1>8. OnDevice(g)
  <2>1. \A i \in 1..(len + 1) : g[i] = IF i > len THEN PaddedTo(<<>>, n)
                ELSE AddVectors(AddVectors(g[i + 1], ScaledBy(g[i + 1], Minus(x, 1))), vectors[i])
    BY <1>2, <1>3, <1>5
  <2> QED  BY <1>4, <1>6, <2>1
<1>9. FoldedOnHost(vectors, x) = host[1] /\ FoldedOnDevice(vectors, x) = device[1]
  BY DEF FoldedOnHost, FoldedOnDevice
<1>10. OnHost(host) /\ OnDevice(device)
  BY <1>7, <1>8
<1> HIDE DEF host, device
<1>11. \A i \in 1..(len + 1) :
          /\ host[i] = IF i > len THEN PaddedTo(<<>>, n)
                       ELSE AddVectors(ScaledBy(host[i + 1], x), vectors[i])
          /\ device[i] = IF i > len THEN PaddedTo(<<>>, n)
                ELSE AddVectors(AddVectors(device[i + 1], ScaledBy(device[i + 1], Minus(x, 1))), vectors[i])
  BY <1>4, <1>10
<1> HIDE DEF OnHost, OnDevice
<1> DEFINE S == {k \in 1..(len + 1) : host[k] = g[k] /\ device[k] = g[k]}
<1>12. len + 1 \in S
  BY <1>2, <1>5, <1>11
<1>13. ASSUME NEW k \in 1..len, k + 1 \in S PROVE k \in S
  <2>1. host[k + 1] = g[k + 1] /\ device[k + 1] = g[k + 1]
    BY <1>13
  <2>2. /\ host[k] = AddVectors(ScaledBy(host[k + 1], x), vectors[k])
        /\ device[k] = AddVectors(AddVectors(device[k + 1], ScaledBy(device[k + 1], Minus(x, 1))), vectors[k])
    BY <1>5, <1>11
  <2>3. host[k] = g[k] /\ device[k] = g[k]
    BY <1>3, <2>1, <2>2
  <2> QED  BY <1>5, <2>3
<1> HIDE DEF S
<1>14. 1..(len + 1) \subseteq S
  BY <1>12, <1>13, SuffixInduction
<1>15. 1 \in S
  <2>1. 1 \in 1..(len + 1)
    OBVIOUS
  <2> QED  BY <1>14, <2>1
<1>16. host[1] = g[1] /\ device[1] = g[1]
  BY <1>15 DEF S
<1> QED  BY <1>2, <1>9, <1>16

(* ------------------------------- the invariant ---------------------------- *)

QuotientOf(cs) == ExtendedToCoeff(DivideByVanishingPoly(ExtendedValues(GatePoly(cs))))

AnyPart == [at : {"host", "device"}, values : Vector(n)]

Drawn == columns \in Columns

InterpolantsHeld ==
    stage \in {"extend", "gather", "divide", "constructed", "evaluated", "done"} =>
        polys.values = Interpolants(columns) /\ random = PaddedTo(<<1>>, n)

PartsHeld ==
    stage \in {"columns", "extend", "gather"} =>
        /\ parts \in Seq(AnyPart)
        /\ \A p \in 1..Len(parts) : parts[p].values = PartValues(GatePoly(columns), p - 1)
        /\ factor = Power(ExtendedOmega, Len(parts))
        /\ stage = "columns" => parts = <<>>
        /\ stage = "extend" => Len(parts) < NumParts
        /\ stage = "gather" => Len(parts) = NumParts

ExtendedHeld == stage = "divide" => h.values = ExtendedValues(GatePoly(columns))

PiecesHeld ==
    stage \in {"constructed", "evaluated", "done"} => pieces.values = Pieces(QuotientOf(columns))

Opened ==
    stage \in {"evaluated", "done"} =>
        point \in Points /\ hPoly = FoldedOnHost(pieces.values, Power(point, n))

Answered == stage = "done" => (accepted <=> Accepts(point))

\* What the forms hold at each stage, all of it of one polynomial per column.
IInv ==
    /\ Drawn /\ InterpolantsHeld /\ PartsHeld /\ ExtendedHeld /\ PiecesHeld /\ Opened /\ Answered

LEMMA ValuesAre ==
    ASSUME NEW cs \in Columns
    PROVE  /\ \A p \in Nat : PartValues(GatePoly(cs), p) \in Vector(n)
           /\ ExtendedValues(GatePoly(cs)) \in Vector(ExtendedLen)
           /\ QuotientOf(cs) \in Vector(QuotientPolyDegree * n)
           /\ Pieces(QuotientOf(cs)) \in Polynomials(QuotientPolyDegree, n)
<1>1. PICK m, a : m = (QuotientPolyDegree + 1) * n /\ a = GatePoly(cs)
  OBVIOUS
<1>2. m \in Nat /\ a \in Vector(m)
  BY <1>1, GateIs, SizesAre
<1>3. ASSUME NEW k \in Nat PROVE ExtendedPoint(k) \in Scalars /\ Eval(a, ExtendedPoint(k)) \in Scalars
  <2>1. ExtendedOmega \in Scalars /\ Zeta \in Scalars
    BY RootsAre, RootInverse, SizesAre
  <2>2. Power(ExtendedOmega, k) \in Scalars
    BY <2>1, PowerIs
  <2>3. ExtendedPoint(k) \in Scalars
    BY <2>1, <2>2, Closed DEF ExtendedPoint
  <2> QED  BY <1>2, <2>3, EvalIs
<1>4. ASSUME NEW p \in Nat PROVE PartValues(a, p) \in Vector(n)
  <2>1. ASSUME NEW r \in 1..n PROVE Eval(a, ExtendedPoint(((r - 1) * NumParts) + p)) \in Scalars
    <3>1. n \in Nat /\ NumParts \in Nat
      BY SizesAre
    <3>2. (r - 1) * NumParts \in Nat
      BY <3>1
    <3>3. PICK k : k = ((r - 1) * NumParts) + p /\ k \in Nat
      BY <3>2
    <3> QED  BY <1>3, <3>3
  <2> QED  BY <2>1 DEF PartValues, Vector
<1>5. ExtendedValues(a) \in Vector(ExtendedLen)
  <2>1. \A i \in 1..ExtendedLen : i - 1 \in Nat
    BY SizesAre
  <2>2. \A i \in 1..ExtendedLen : Eval(a, ExtendedPoint(i - 1)) \in Scalars
    BY <1>3, <2>1
  <2> QED  BY <2>2 DEF ExtendedValues, Vector
<1>6. DivideByVanishingPoly(ExtendedValues(a)) \in Vector(ExtendedLen)
  BY <1>5, DivideIs
<1>7. QuotientOf(cs) \in Vector(QuotientPolyDegree * n)
  BY <1>1, <1>6, ExtendedToCoeffIs DEF QuotientOf
<1> QED  BY <1>1, <1>4, <1>5, <1>7, PiecesAre

LEMMA InitHolds == Init => IInv
<1> SUFFICES ASSUME Init PROVE IInv
  OBVIOUS
<1>1. stage = "columns" /\ columns \in Columns /\ factor = 1 /\ parts = <<>>
  BY DEF Init
<1>2. Power(ExtendedOmega, Len(<<>>)) = 1
  <2>1. PICK z : z = 0
    OBVIOUS
  <2>2. Power(ExtendedOmega, z) = 1 /\ Len(<<>>) = z
    BY <2>1, PowerIs, RootsAre, RootInverse, SizesAre
  <2> QED  BY <2>2
<1>3. PartsHeld
  <2>1. parts \in Seq(AnyPart) /\ 1..Len(parts) = {}
    BY <1>1
  <2> QED  BY <1>1, <1>2, <2>1 DEF PartsHeld
<1> QED  BY <1>1, <1>3 DEF IInv, Drawn, InterpolantsHeld, ExtendedHeld, PiecesHeld, Opened, Answered

LEMMA FailKeeps ==
    ASSUME IInv, Fail
    PROVE  IInv'
<1>1. stage' = "error" /\ columns' = columns
  BY DEF Fail, input
<1>2. columns' \in Columns
  BY <1>1 DEF IInv, Drawn
<1> QED  BY <1>1, <1>2
      DEF IInv, Drawn, InterpolantsHeld, PartsHeld, ExtendedHeld, PiecesHeld, Opened, Answered

LEMMA InterpolatedKeeps ==
    ASSUME IInv, stage = "columns", NEW at, NEW values, values = Interpolants(columns), Interpolated(at, values)
    PROVE  IInv'
<1>1. /\ polys' = Held(at, values) /\ stage' = "extend" /\ random' = PaddedTo(<<1>>, n)
      /\ columns' = columns /\ parts' = parts /\ factor' = factor
  BY DEF Interpolated, CommitRandom, input
<1>2. Drawn'
  BY <1>1 DEF IInv, Drawn
<1>3. InterpolantsHeld'
  <2>1. polys'.values = values
    BY <1>1 DEF Held
  <2>2. Interpolants(columns)' = Interpolants(columns)
    BY <1>1 DEF Interpolants
  <2> QED  BY <1>1, <2>1, <2>2 DEF InterpolantsHeld
<1>4. PartsHeld'
  <2>1. parts = <<>> /\ factor = Power(ExtendedOmega, Len(parts)) /\ parts \in Seq(AnyPart)
    BY DEF IInv, PartsHeld
  <2>2. Len(parts) < NumParts /\ 1..Len(parts) = {}
    BY <2>1, SizesAre
  <2> QED  BY <1>1, <2>1, <2>2 DEF PartsHeld
<1> QED  BY <1>1, <1>2, <1>3, <1>4 DEF IInv, ExtendedHeld, PiecesHeld, Opened, Answered

LEMMA ExtendedKeeps ==
    ASSUME IInv, stage = "extend", NEW at \in {"host", "device"}, NEW values,
           values = OnCoset(columns, Times(Zeta, factor)), Extended(at, values)
    PROVE  IInv'
<1>1. /\ columns' = columns /\ polys' = polys /\ random' = random
      /\ parts' = Append(parts, Held(at, Rows(values)))
      /\ factor' = Times(factor, ExtendedOmega)
      /\ stage' = IF Len(parts) + 1 = NumParts THEN "gather" ELSE "extend"
  BY DEF Extended, input, proof
<1>2. PICK cs, l, s : cs = columns /\ l = Len(parts) /\ s = parts
  OBVIOUS
<1>3. /\ cs \in Columns /\ s \in Seq(AnyPart) /\ l \in Nat /\ l < NumParts /\ factor = Power(ExtendedOmega, l)
      /\ \A p \in 1..l : s[p].values = PartValues(GatePoly(cs), p - 1)
  BY <1>2 DEF IInv, Drawn, PartsHeld
<1>4. Rows(values) = PartValues(GatePoly(cs), l) /\ Rows(values) \in Vector(n)
  <2>1. values = OnCoset(cs, Times(Zeta, Power(ExtendedOmega, l)))
    BY <1>2, <1>3
  <2> QED  BY <1>3, <2>1, OnCosetRows, ValuesAre
<1>5. PICK part : part = Held(at, Rows(values))
  OBVIOUS
<1>6. part \in AnyPart /\ part.values = PartValues(GatePoly(cs), l)
  BY <1>4, <1>5 DEF AnyPart, Held
<1>7. Append(s, part) \in Seq(AnyPart) /\ Len(Append(s, part)) = l + 1
  BY <1>2, <1>3, <1>6
<1>8. \A p \in 1..(l + 1) : Append(s, part)[p].values = PartValues(GatePoly(cs), p - 1)
  <2>1. ASSUME NEW p \in 1..(l + 1) PROVE Append(s, part)[p].values = PartValues(GatePoly(cs), p - 1)
    <3>1. CASE p \in 1..l
      <4>1. Append(s, part)[p] = s[p]
        BY <1>2, <1>3, <3>1
      <4> QED  BY <1>3, <3>1, <4>1
    <3>2. CASE p = l + 1
      <4>1. Append(s, part)[p] = part
        BY <1>2, <1>3, <3>2
      <4>2. p - 1 = l
        BY <1>3, <3>2
      <4> QED  BY <1>6, <4>1, <4>2
    <3>3. p \in 1..l \/ p = l + 1
      BY <1>3
    <3> QED  BY <3>1, <3>2, <3>3
  <2> QED  BY <2>1
<1>9. Power(ExtendedOmega, l + 1) = Times(Power(ExtendedOmega, l), ExtendedOmega)
  BY <1>3, PowerIs, RootsAre, RootInverse, SizesAre
<1>10. parts' = Append(s, part) /\ columns' = cs /\ Len(parts') = l + 1 /\ factor' = Power(ExtendedOmega, Len(parts'))
  BY <1>1, <1>2, <1>3, <1>5, <1>7, <1>9
<1>11. /\ stage' = "extend" => l + 1 < NumParts
       /\ stage' = "gather" => l + 1 = NumParts
       /\ stage' = "extend" \/ stage' = "gather"
  <2>1. NumParts \in Nat
    BY SizesAre
  <2> QED  BY <1>1, <1>2, <1>3, <2>1
<1>12. PartsHeld'
  <2>1. parts' \in Seq(AnyPart)
    BY <1>7, <1>10
  <2>2. \A p \in 1..Len(parts') : parts'[p].values = PartValues(GatePoly(columns'), p - 1)
    BY <1>8, <1>10
  <2> QED  BY <1>10, <1>11, <2>1, <2>2 DEF PartsHeld
<1>13. Drawn' /\ InterpolantsHeld'
  <2>1. Interpolants(columns)' = Interpolants(columns)
    BY <1>1 DEF Interpolants
  <2> QED  BY <1>1, <2>1 DEF IInv, Drawn, InterpolantsHeld
<1> QED  BY <1>11, <1>12, <1>13 DEF IInv, ExtendedHeld, PiecesHeld, Opened, Answered

\* The answers of a batch are each one that was not refused.
LEMMA QueriesAre ==
    ASSUME NEW answers \in Queries
    PROVE  \A c \in DOMAIN columns : answers[c] \in Answers
<1>1. Fits \in Answers
  BY DEF Answers
<1> QED  BY <1>1 DEF Queries

LEMMA InterpolateOnHostKeeps ==
    ASSUME IInv, InterpolateOnHost
    PROVE  IInv'
<1>1. PICK answers \in Queries :
          IF \E c \in DOMAIN columns : Refused(answers[c]) THEN Fail
          ELSE Interpolated("host", [c \in DOMAIN columns |-> LagrangeToCoeff(columns[c], answers[c])])
  BY DEF InterpolateOnHost
<1>2. stage = "columns"
  BY DEF InterpolateOnHost
<1>3. CASE \E c \in DOMAIN columns : Refused(answers[c])
  BY <1>1, <1>3, FailKeeps
<1>4. CASE ~\E c \in DOMAIN columns : Refused(answers[c])
  <2>1. PICK values : values = [c \in DOMAIN columns |-> LagrangeToCoeff(columns[c], answers[c])]
    OBVIOUS
  <2>2. \A c \in DOMAIN columns : LagrangeToCoeff(columns[c], answers[c]) = Coefficients(columns[c])
    <3>1. columns \in Columns
      BY DEF IInv, Drawn
    <3>2. \A c \in DOMAIN columns : columns[c] \in Vector(n)
      BY <3>1, ColumnsAre
    <3> QED  BY <1>4, <3>2, QueriesAre, LagrangeToCoeffIs
  <2>3. values = Interpolants(columns)
    BY <2>1, <2>2 DEF Interpolants
  <2> QED  BY <1>1, <1>2, <1>4, <2>1, <2>3, InterpolatedKeeps
<1> QED  BY <1>3, <1>4

LEMMA InterpolateToDeviceKeeps ==
    ASSUME IInv, InterpolateToDevice \/ InterpolateOnDevice
    PROVE  IInv'
<1>1. stage = "columns" /\ Interpolated("device", IfftToDevice(columns))
  BY DEF InterpolateToDevice, InterpolateOnDevice
<1>2. IfftToDevice(columns) = Interpolants(columns)
  BY IfftIs DEF IInv, Drawn
<1> QED  BY <1>1, <1>2, InterpolatedKeeps

\* The next part's shift, and the coefficients at hand.
LEMMA ShiftIs ==
    ASSUME IInv, stage = "extend"
    PROVE  /\ columns \in Columns /\ polys.values = Interpolants(columns)
           /\ factor \in Scalars /\ Times(Zeta, factor) \in Scalars
<1>1. columns \in Columns /\ polys.values = Interpolants(columns)
  BY DEF IInv, Drawn, InterpolantsHeld
<1>2. factor = Power(ExtendedOmega, Len(parts)) /\ Len(parts) \in Nat
  BY DEF IInv, PartsHeld
<1>3. ExtendedOmega \in Scalars /\ Zeta \in Scalars
  BY RootsAre, RootInverse, SizesAre
<1> QED  BY <1>1, <1>2, <1>3, PowerIs, Closed

LEMMA ExtendToDeviceKeeps ==
    ASSUME IInv, ExtendToDevice \/ ExtendOnDevice
    PROVE  IInv'
<1>1. stage = "extend" /\ Extended("device", CosetFftToDevice(polys.values, Times(Zeta, factor)))
  BY DEF ExtendToDevice, ExtendOnDevice
<1>2. CosetFftToDevice(polys.values, Times(Zeta, factor)) = OnCoset(columns, Times(Zeta, factor))
  BY <1>1, ShiftIs, CosetFftIs
<1> QED  BY <1>1, <1>2, ExtendedKeeps

LEMMA ExtendOnHostKeeps ==
    ASSUME IInv, ExtendOnHost
    PROVE  IInv'
<1>1. PICK answers \in Queries :
          IF \E c \in DOMAIN columns : Refused(answers[c]) THEN Fail
          ELSE Extended("host", [c \in DOMAIN columns |->
                   CoeffToExtendedPart(polys.values[c], factor, answers[c])])
  BY DEF ExtendOnHost
<1>2. stage = "extend"
  BY DEF ExtendOnHost
<1>3. CASE \E c \in DOMAIN columns : Refused(answers[c])
  BY <1>1, <1>3, FailKeeps
<1>4. CASE ~\E c \in DOMAIN columns : Refused(answers[c])
  <2>1. PICK values : values = [c \in DOMAIN columns |->
                                   CoeffToExtendedPart(polys.values[c], factor, answers[c])]
    OBVIOUS
  <2>2. ASSUME NEW c \in DOMAIN columns
        PROVE  CoeffToExtendedPart(polys.values[c], factor, answers[c])
                   = CosetValues(Coefficients(columns[c]), Times(Zeta, factor))
    <3>1. polys.values[c] = Coefficients(columns[c]) /\ Coefficients(columns[c]) \in Vector(n)
      BY <1>2, ShiftIs, InterpolantsAre
    <3>2. answers[c] \in Answers /\ ~Refused(answers[c]) /\ factor \in Scalars
      BY <1>2, <1>4, QueriesAre, ShiftIs
    <3> QED  BY <3>1, <3>2, CoeffToExtendedPartIs
  <2>3. values = OnCoset(columns, Times(Zeta, factor))
    BY <2>1, <2>2 DEF OnCoset
  <2> QED  BY <1>1, <1>2, <1>4, <2>1, <2>3, ExtendedKeeps
<1> QED  BY <1>3, <1>4

LEMMA ExtendVectorsKeeps ==
    ASSUME IInv, ExtendVectors
    PROVE  IInv'
<1>1. PICK first \in Answers, second \in Answers :
          IF Refused(first) \/ Refused(second) THEN Fail
          ELSE Extended("host", [c \in DOMAIN columns |->
                   LagrangeToExtendPart(columns[c], factor, first, second)])
  BY DEF ExtendVectors
<1>2. stage = "extend"
  BY DEF ExtendVectors
<1>3. CASE Refused(first) \/ Refused(second)
  BY <1>1, <1>3, FailKeeps
<1>4. CASE ~(Refused(first) \/ Refused(second))
  <2>1. PICK values : values = [c \in DOMAIN columns |->
                                   LagrangeToExtendPart(columns[c], factor, first, second)]
    OBVIOUS
  <2>2. ASSUME NEW c \in DOMAIN columns
        PROVE  LagrangeToExtendPart(columns[c], factor, first, second)
                   = CosetValues(Coefficients(columns[c]), Times(Zeta, factor))
    <3>1. columns[c] \in Vector(n)
      BY <1>2, ShiftIs, ColumnsAre
    <3>2. LagrangeToCoeff(columns[c], first) = Coefficients(columns[c]) /\ Coefficients(columns[c]) \in Vector(n)
      BY <1>4, <3>1, LagrangeToCoeffIs, CoefficientsAre
    <3>3. CoeffToExtendedPart(Coefficients(columns[c]), factor, second)
              = CosetValues(Coefficients(columns[c]), Times(Zeta, factor))
      BY <1>2, <1>4, <3>2, ShiftIs, CoeffToExtendedPartIs
    <3> QED  BY <3>2, <3>3 DEF LagrangeToExtendPart
  <2>3. values = OnCoset(columns, Times(Zeta, factor))
    BY <2>1, <2>2 DEF OnCoset
  <2> QED  BY <1>1, <1>2, <1>4, <2>1, <2>3, ExtendedKeeps
<1> QED  BY <1>3, <1>4

LEMMA ExtendWholeKeeps ==
    ASSUME IInv, ExtendWhole
    PROVE  IInv'
<1>1. PICK answers \in Queries :
          IF \E c \in DOMAIN columns : Refused(answers[c]) THEN Fail
          ELSE /\ cosets' = [c \in DOMAIN columns |-> CoeffToExtended(polys.values[c], answers[c])]
               /\ h' = Held("host", Rows(cosets'))
               /\ stage' = "divide"
               /\ UNCHANGED <<input, polys, factor, parts, proof>>
  BY DEF ExtendWhole
<1>2. stage = "extend"
  BY DEF ExtendWhole
<1>3. CASE \E c \in DOMAIN columns : Refused(answers[c])
  BY <1>1, <1>3, FailKeeps
<1>4. CASE ~\E c \in DOMAIN columns : Refused(answers[c])
  <2>1. /\ cosets' = [c \in DOMAIN columns |-> CoeffToExtended(polys.values[c], answers[c])]
        /\ h' = Held("host", Rows(cosets')) /\ stage' = "divide"
        /\ columns' = columns /\ polys' = polys /\ random' = random
    BY <1>1, <1>4 DEF input, proof
  <2>2. ASSUME NEW c \in DOMAIN columns
        PROVE  CoeffToExtended(polys.values[c], answers[c]) = ExtendedValues(Coefficients(columns[c]))
    <3>1. polys.values[c] = Coefficients(columns[c]) /\ Coefficients(columns[c]) \in Vector(n)
      BY <1>2, ShiftIs, InterpolantsAre
    <3>2. answers[c] \in Answers /\ ~Refused(answers[c])
      BY <1>4, QueriesAre
    <3> QED  BY <3>1, <3>2, CoeffToExtendedIs
  <2>3. cosets' = [c \in DOMAIN columns |-> ExtendedValues(Coefficients(columns[c]))]
    BY <2>1, <2>2
  <2>4. Rows(cosets') = ExtendedValues(GatePoly(columns))
    BY <1>2, <2>3, ShiftIs, ExtendedRows
  <2>5. h'.values = ExtendedValues(GatePoly(columns'))
    BY <2>1, <2>4 DEF Held
  <2>6. Drawn' /\ InterpolantsHeld'
    <3>1. Interpolants(columns)' = Interpolants(columns)
      BY <2>1 DEF Interpolants
    <3> QED  BY <1>2, <2>1, <3>1 DEF IInv, Drawn, InterpolantsHeld
  <2> QED  BY <2>1, <2>5, <2>6 DEF IInv, PartsHeld, ExtendedHeld, PiecesHeld, Opened, Answered
<1> QED  BY <1>3, <1>4

\* Once every part is there.
LEMMA PartsGathered ==
    ASSUME IInv, stage = "gather"
    PROVE  ExtendedFromLagrangeVec([p \in DOMAIN parts |-> parts[p].values])
               = ExtendedValues(GatePoly(columns))
<1>1. /\ columns \in Columns /\ parts \in Seq(AnyPart) /\ Len(parts) = NumParts
      /\ \A p \in 1..Len(parts) : parts[p].values = PartValues(GatePoly(columns), p - 1)
  BY DEF IInv, Drawn, PartsHeld
<1>2. DOMAIN parts = 1..NumParts
  BY <1>1
<1>3. [p \in DOMAIN parts |-> parts[p].values] = [p \in 1..NumParts |-> PartValues(GatePoly(columns), p - 1)]
  BY <1>1, <1>2
<1> QED  BY <1>1, <1>3, GateIs, GatheredIs

LEMMA GatheredKeeps ==
    ASSUME IInv, stage = "gather", NEW at, Gathered(at)
    PROVE  IInv'
<1>1. /\ h' = Held(at, ExtendedFromLagrangeVec([p \in DOMAIN parts |-> parts[p].values]))
      /\ stage' = "divide" /\ columns' = columns /\ polys' = polys /\ random' = random
  BY DEF Gathered, input, forms, proof
<1>2. h'.values = ExtendedValues(GatePoly(columns'))
  BY <1>1, PartsGathered DEF Held
<1>3. Drawn' /\ InterpolantsHeld'
  <2>1. Interpolants(columns)' = Interpolants(columns)
    BY <1>1 DEF Interpolants
  <2> QED  BY <1>1, <2>1 DEF IInv, Drawn, InterpolantsHeld
<1> QED  BY <1>1, <1>2, <1>3 DEF IInv, PartsHeld, ExtendedHeld, PiecesHeld, Opened, Answered

LEMMA GatherKeeps ==
    ASSUME IInv, GatherMaybeDevice \/ GatherHost
    PROVE  IInv'
<1>1. stage = "gather" /\ (Gathered("device") \/ Gathered("host") \/ Fail)
  BY DEF GatherMaybeDevice, GatherHost
<1> QED  BY <1>1, FailKeeps, GatheredKeeps

LEMMA ConstructKeeps ==
    ASSUME IInv, Construct
    PROVE  IInv'
<1>1. /\ stage = "divide" /\ stage' = "constructed" /\ columns' = columns /\ polys' = polys
      /\ random' = random
      /\ pieces' = Held(h.at, Pieces(ExtendedToCoeff(DivideByVanishingPoly(h.values))))
  BY DEF Construct, input, forms, Pieces
<1>2. h.values = ExtendedValues(GatePoly(columns))
  BY <1>1 DEF IInv, ExtendedHeld
<1>3. pieces'.values = Pieces(QuotientOf(columns'))
  BY <1>1, <1>2 DEF Held, QuotientOf
<1>4. Drawn' /\ InterpolantsHeld'
  <2>1. Interpolants(columns)' = Interpolants(columns)
    BY <1>1 DEF Interpolants
  <2> QED  BY <1>1, <2>1 DEF IInv, Drawn, InterpolantsHeld
<1> QED  BY <1>1, <1>3, <1>4 DEF IInv, PartsHeld, ExtendedHeld, PiecesHeld, Opened, Answered

\* Device and host fold to one polynomial.
LEMMA FoldAgrees ==
    ASSUME IInv, stage \in {"constructed", "evaluated", "done"}, NEW x \in Scalars
    PROVE  Folded(x) = FoldedOnHost(pieces.values, x)
<1>1. pieces.values \in Polynomials(QuotientPolyDegree, n) /\ QuotientPolyDegree \in Nat
  BY ValuesAre, SizesAre DEF IInv, Drawn, PiecesHeld
<1>2. FoldedOnHost(pieces.values, x) = FoldedOnDevice(pieces.values, x)
  BY <1>1, FoldedIs
<1> QED  BY <1>2 DEF Folded

LEMMA EvaluateKeeps ==
    ASSUME IInv, Evaluate
    PROVE  IInv'
<1>1. PICK x \in Points : point' = x /\ hPoly' = Folded(Power(x, n))
  BY DEF Evaluate
<1>2. /\ stage = "constructed" /\ stage' = "evaluated" /\ columns' = columns /\ polys' = polys
      /\ random' = random /\ pieces' = pieces
  BY DEF Evaluate, input, forms
<1>3. Power(x, n) \in Scalars
  BY PointsOutside, PowerIs, SizesAre
<1>4. hPoly' = FoldedOnHost(pieces.values, Power(x, n))
  BY <1>1, <1>2, <1>3, FoldAgrees
<1>5. Opened'
  BY <1>1, <1>2, <1>4 DEF Opened
<1>6. Drawn' /\ InterpolantsHeld' /\ PiecesHeld'
  <2>1. Interpolants(columns)' = Interpolants(columns)
    BY <1>2 DEF Interpolants
  <2> QED  BY <1>2, <2>1 DEF IInv, Drawn, InterpolantsHeld, PiecesHeld
<1> QED  BY <1>2, <1>5, <1>6 DEF IInv, PartsHeld, ExtendedHeld, Answered

\* The random polynomial is the constant one.
LEMMA RandomIsOne ==
    ASSUME NEW x \in Scalars
    PROVE  Eval(PaddedTo(<<1>>, n), x) = 1
<1>1. n \in Nat /\ n >= 1
  BY SizesAre
<1>2. PICK one : one = 1
  OBVIOUS
<1>3. one \in Nat /\ one <= n /\ 1..one = {1}
  BY <1>1, <1>2
<1>4. PICK s : s = <<1>>
  OBVIOUS
<1>5. s \in Vector(one) /\ s[1] = 1
  BY <1>3, <1>4, Closed DEF Vector
<1>6. PaddedTo(s, n) \in Vector(n) /\ Eval(PaddedTo(s, n), x) = Eval(s, x)
  BY <1>1, <1>3, <1>5, PaddedIs
<1>7. Eval(s, x) = 1
  <2>1. PICK f : f = HornerOf(x, s)
    OBVIOUS
  <2>2. IsHorner(f, x, s, one) /\ Eval(s, x) = f[1]
    BY <1>3, <1>5, <2>1, HornerIs, EvalIs
  <2>3. f[one + 1] = 0 /\ f[1] = Plus(s[1], Times(x, f[one + 1]))
    <3>1. f[one + 1] = 0 /\ \A k \in 1..one : f[k] = Plus(s[k], Times(x, f[k + 1]))
      BY <2>2 DEF IsHorner
    <3> QED  BY <1>2, <1>3, <3>1
  <2>4. Times(x, 0) = 0 /\ Plus(1, 0) = 1
    BY TimesZero, Laws, Closed
  <2> QED  BY <1>5, <2>2, <2>3, <2>4
<1> QED  BY <1>4, <1>6, <1>7

LEMMA VerifyKeeps ==
    ASSUME IInv, Verify
    PROVE  IInv'
<1>1. /\ stage = "evaluated" /\ stage' = "done" /\ columns' = columns /\ polys' = polys
      /\ random' = random /\ pieces' = pieces /\ point' = point /\ hPoly' = hPoly
      /\ accepted' = /\ Accepts(point)
                     /\ Eval(hPoly, point) = ExpectedHEval(point)
                     /\ Eval(random, point) = 1
  BY DEF Verify, input, forms
<1>2. point \in Points /\ hPoly = FoldedOnHost(pieces.values, Power(point, n)) /\ random = PaddedTo(<<1>>, n)
  BY <1>1 DEF IInv, Opened, InterpolantsHeld
<1>3. Eval(random, point) = 1
  BY <1>2, PointsOutside, RandomIsOne
<1>4. Accepts(point) <=> Eval(hPoly, point) = ExpectedHEval(point)
  BY <1>2 DEF Accepts, HCommitment
<1>5. accepted' <=> Accepts(point)
  BY <1>1, <1>3, <1>4
<1>6. Accepts(point)' <=> Accepts(point)
  BY <1>1 DEF Accepts, HCommitment, ExpectedHEval, ColumnEvals
<1>7. Answered'
  BY <1>5, <1>6 DEF Answered
<1>8. Opened'
  BY <1>1, <1>2 DEF Opened
<1>9. Drawn' /\ InterpolantsHeld' /\ PiecesHeld'
  <2>1. Interpolants(columns)' = Interpolants(columns)
    BY <1>1 DEF Interpolants
  <2> QED  BY <1>1, <2>1 DEF IInv, Drawn, InterpolantsHeld, PiecesHeld
<1> QED  BY <1>1, <1>7, <1>8, <1>9 DEF IInv, PartsHeld, ExtendedHeld

LEMMA StutterKeeps ==
    ASSUME IInv, UNCHANGED vars
    PROVE  IInv'
<1>1. /\ columns' = columns /\ stage' = stage /\ polys' = polys /\ factor' = factor /\ parts' = parts
      /\ h' = h /\ random' = random /\ pieces' = pieces /\ point' = point /\ hPoly' = hPoly
      /\ accepted' = accepted
  BY DEF vars, input, forms, proof
<1>2. Interpolants(columns)' = Interpolants(columns)
  BY <1>1 DEF Interpolants
<1>3. Accepts(point)' <=> Accepts(point)
  BY <1>1 DEF Accepts, HCommitment, ExpectedHEval, ColumnEvals
<1> QED  BY <1>1, <1>2, <1>3
      DEF IInv, Drawn, InterpolantsHeld, PartsHeld, ExtendedHeld, PiecesHeld, Opened, Answered

LEMMA StepKeeps == IInv /\ [Next]_vars => IInv'
<1> SUFFICES ASSUME IInv, [Next]_vars PROVE IInv'
  OBVIOUS
<1>1. CASE UNCHANGED vars
  BY <1>1, StutterKeeps
<1>2. CASE InterpolateOnHost \/ InterpolateToDevice \/ InterpolateOnDevice
  BY <1>2, InterpolateOnHostKeeps, InterpolateToDeviceKeeps
<1>3. CASE ExtendToDevice \/ ExtendOnDevice \/ ExtendOnHost \/ ExtendVectors \/ ExtendWhole
  BY <1>3, ExtendToDeviceKeeps, ExtendOnHostKeeps, ExtendVectorsKeeps, ExtendWholeKeeps
<1>4. CASE GatherMaybeDevice \/ GatherHost
  BY <1>4, GatherKeeps
<1>5. CASE Construct \/ Evaluate \/ Verify
  BY <1>5, ConstructKeeps, EvaluateKeeps, VerifyKeeps
<1> QED  BY <1>1, <1>2, <1>3, <1>4, <1>5 DEF Next

\* At every stage the forms are of the vectors the run began with: coefficients,
\* parts, the extended vector, the pieces and the opened fold.
THEOREM FormsOfOnePolynomial == Spec => []IInv
  BY InitHolds, StepKeeps, PTL DEF Spec

(* --------------------------------- the forms ------------------------------ *)

\* The gate along the columns' openings is the gate's polynomial.
LEMMA GateEvals ==
    ASSUME IInv, stage \in {"extend", "gather", "divide", "constructed", "evaluated", "done"},
           NEW x \in Scalars
    PROVE  Gate(ColumnEvals(x)) = Eval(GatePoly(columns), x)
<1>1. columns \in Columns /\ polys.values = Interpolants(columns)
  BY DEF IInv, Drawn, InterpolantsHeld
<1>2. ColumnEvals(x) = RowAt(columns, x)
  BY <1>1, InterpolantsAre DEF ColumnEvals, RowAt
<1> QED  BY <1>1, <1>2, GateIs

LEMMA PointType ==
    ASSUME NEW k \in Nat
    PROVE  ExtendedPoint(k) \in Scalars
<1>1. ExtendedOmega \in Scalars /\ Zeta \in Scalars
  BY RootsAre, RootInverse, SizesAre
<1>2. Power(ExtendedOmega, k) \in Scalars
  BY <1>1, PowerIs
<1> QED  BY <1>1, <1>2, Closed DEF ExtendedPoint

LEMMA FormsHold == IInv => FormsAgree
<1> SUFFICES ASSUME IInv PROVE FormsAgree
  OBVIOUS
<1>1. ASSUME stage = "extend", NEW c \in DOMAIN columns, NEW r \in 1..n
      PROVE  Eval(polys.values[c], Power(Omega, r - 1)) = columns[c][r]
  <2>1. columns \in Columns /\ polys.values[c] = Coefficients(columns[c])
    BY <1>1, InterpolantsAre DEF IInv, Drawn, InterpolantsHeld
  <2>2. columns[c] \in Vector(n)
    BY <1>1, <2>1, ColumnsAre
  <2> QED  BY <1>1, <2>1, <2>2, CoefficientsAre
<1>2. ASSUME stage \in {"extend", "gather"}, parts # <<>>, NEW r \in 1..n
      PROVE  parts[Len(parts)].values[r] =
                 Gate(ColumnEvals(ExtendedPoint((r - 1) * NumParts + Len(parts) - 1)))
  <2>1. PICK l, s : l = Len(parts) /\ s = NumParts
    OBVIOUS
  <2>2. /\ parts \in Seq(AnyPart)
        /\ \A p \in 1..l : parts[p].values = PartValues(GatePoly(columns), p - 1)
    BY <1>2, <2>1 DEF IInv, PartsHeld
  <2>3. l \in Nat /\ l >= 1 /\ s \in Nat /\ n \in Nat
    BY <1>2, <2>1, <2>2, SizesAre
  <2>4. parts[l].values[r] = Eval(GatePoly(columns), ExtendedPoint(((r - 1) * s) + (l - 1)))
    <3>1. l \in 1..l /\ r \in 1..n
      BY <1>2, <2>3
    <3>2. parts[l].values = PartValues(GatePoly(columns), l - 1)
      BY <2>2, <3>1
    <3> QED  BY <2>1, <3>1, <3>2 DEF PartValues
  <2>5. (r - 1) * s \in Nat
    BY <1>2, <2>3
  <2>6. PICK k : k = ((r - 1) * s) + (l - 1) /\ k \in Nat
    BY <2>3, <2>5
  <2>7. k = (r - 1) * s + l - 1
    BY <2>3, <2>5, <2>6
  <2>8. Gate(ColumnEvals(ExtendedPoint(k))) = Eval(GatePoly(columns), ExtendedPoint(k))
    BY <1>2, <2>6, PointType, GateEvals
  <2> QED  BY <2>1, <2>4, <2>6, <2>7, <2>8
<1>3. ASSUME stage = "divide", NEW i \in 1..ExtendedLen
      PROVE  h.values[i] = Gate(ColumnEvals(ExtendedPoint(i - 1)))
  <2>1. i - 1 \in Nat
    BY <1>3, SizesAre
  <2>2. Gate(ColumnEvals(ExtendedPoint(i - 1))) = Eval(GatePoly(columns), ExtendedPoint(i - 1))
    BY <1>3, <2>1, PointType, GateEvals
  <2>3. h.values = ExtendedValues(GatePoly(columns))
    BY <1>3 DEF IInv, ExtendedHeld
  <2> QED  BY <1>3, <2>2, <2>3 DEF ExtendedValues
<1> QED  BY <1>1, <1>2, <1>3 DEF FormsAgree

\* Whatever arms were taken, every form of a column is of one polynomial
\* (ntt.rs and domain.rs, split radix and kernels, host and device).
THEOREM EveryFormAgrees == Spec => []FormsAgree
  BY FormsOfOnePolynomial, FormsHold, PTL

(* ----------------------------------- roots -------------------------------- *)

\* One step of a synthetic division.
LEMMA StepKate ==
    ASSUME NEW z \in Scalars, NEW r \in Scalars, NEW p \in Scalars, NEW q \in Scalars, NEW e \in Scalars
    PROVE  Plus(p, Times(z, Plus(Times(q, Minus(z, r)), e)))
               = Plus(Times(Plus(e, Times(z, q)), Minus(z, r)), Plus(p, Times(r, e)))
<1>1. PICK d : d = Minus(z, r)
  OBVIOUS
<1>2. d \in Scalars /\ Plus(r, d) = z
  BY <1>1, MinusIs
<1> DEFINE x == Times(z, Times(q, d))
           y == Times(r, e)
           w == Times(d, e)
<1>3. /\ Times(q, d) \in Scalars /\ Times(z, q) \in Scalars /\ y \in Scalars /\ w \in Scalars
  BY <1>2, Closed
<1>4. x \in Scalars
  BY <1>3, Closed
<1>5. Times(z, Plus(Times(q, d), e)) = Plus(x, Times(z, e))
  BY <1>3, Laws
<1>6. Times(z, e) = Plus(y, w)
  <2>1. Times(e, Plus(r, d)) = Plus(Times(e, r), Times(e, d))
    BY <1>2, Laws
  <2>2. Times(e, z) = Times(z, e) /\ Times(e, r) = y /\ Times(e, d) = w
    BY <1>2, Laws
  <2> QED  BY ONLY <1>2, <2>1, <2>2
<1>7. Times(Plus(e, Times(z, q)), d) = Plus(w, x)
  <2>1. Times(d, Plus(e, Times(z, q))) = Plus(Times(d, e), Times(d, Times(z, q)))
    BY <1>2, <1>3, Laws
  <2>2. Plus(e, Times(z, q)) \in Scalars
    BY <1>3, Closed
  <2>3. Times(Plus(e, Times(z, q)), d) = Times(d, Plus(e, Times(z, q)))
    BY <1>2, <2>2, Laws
  <2>4. Times(d, Times(z, q)) = Times(z, Times(d, q)) /\ Times(d, q) = Times(q, d)
    BY <1>2, Swap, Laws
  <2> QED  BY ONLY <2>1, <2>3, <2>4
<1> HIDE DEF x, y, w
<1>8. Plus(p, Plus(x, Plus(y, w))) = Plus(Plus(w, x), Plus(p, y))
  <2>1. Plus(w, x) \in Scalars
    BY <1>3, <1>4, Closed
  <2>2. Plus(x, Plus(y, w)) = Plus(y, Plus(x, w)) /\ Plus(x, w) = Plus(w, x)
    BY <1>3, <1>4, Swap, Laws
  <2>3. Plus(y, Plus(w, x)) = Plus(Plus(w, x), y)
    BY <1>3, <2>1, Laws
  <2>4. Plus(p, Plus(Plus(w, x), y)) = Plus(Plus(w, x), Plus(p, y))
    BY <1>3, <2>1, Swap
  <2> QED  BY ONLY <2>2, <2>3, <2>4
<1> QED  BY ONLY <1>1, <1>5, <1>6, <1>7, <1>8 DEF y

\* Synthetic division by X - r.
Kate(p, r, len) == [k \in 1..(len - 1) |-> HornerOf(r, p)[k + 1]]

\* The quotient of a synthetic division, and the remainder it leaves: the value at
\* the root.
LEMMA KateIs ==
    ASSUME NEW len \in Nat, len >= 1, NEW p \in Vector(len), NEW r \in Scalars
    PROVE  /\ Kate(p, r, len) \in Vector(len - 1)
           /\ (\A k \in 1..(len - 1) : Kate(p, r, len)[k] = 0) /\ Eval(p, r) = 0 => \A k \in 1..len : p[k] = 0
           /\ \A z \in Scalars :
                 Eval(p, z) = Plus(Times(Eval(Kate(p, r, len), z), Minus(z, r)), Eval(p, r))
<1> DEFINE e == HornerOf(r, p)
<1>1. IsHorner(e, r, p, len)
  BY HornerIs
<1>2. p \in Seq(Scalars) /\ Len(p) = len /\ len - 1 \in Nat
  BY VectorIs
<1>3. PICK q : q = [k \in 1..(len - 1) |-> e[k + 1]]
  OBVIOUS
<1>4. Kate(p, r, len) = q
  BY <1>3 DEF Kate
<1> HIDE DEF e
<1>5. /\ e \in Vector(len + 1) /\ e[len + 1] = 0
      /\ \A k \in 1..len : e[k] = Plus(p[k], Times(r, e[k + 1]))
  BY <1>1 DEF IsHorner
<1>6. q \in Vector(len - 1) /\ \A k \in 1..(len - 1) : q[k] = e[k + 1]
  <2>1. \A k \in 1..(len - 1) : k + 1 \in 1..(len + 1)
    OBVIOUS
  <2> QED  BY <1>3, <1>5, <2>1 DEF Vector
<1>8. Times(r, 0) = 0 /\ \A x \in Scalars : Plus(x, 0) = x
  BY TimesZero, Laws
<1>9. e[len] = p[len]
  <2>1. len \in 1..len
    BY <1>2
  <2>2. e[len] = Plus(p[len], Times(r, e[len + 1])) /\ p[len] \in Scalars
    BY <1>5, <2>1 DEF Vector
  <2> QED  BY <1>5, <1>8, <2>2
<1>10. ASSUME \A k \in 1..(len - 1) : q[k] = 0, Eval(p, r) = 0
       PROVE  \A k \in 1..len : p[k] = 0
  <2>1. e[1] = 0
    <3>1. Eval(p, r) = e[1]
      BY <1>1, EvalIs
    <3> QED  BY <1>10, <3>1
  <2>2. ASSUME NEW k \in 2..len PROVE e[k] = 0
    <3>1. k - 1 \in 1..(len - 1) /\ (k - 1) + 1 = k
      OBVIOUS
    <3>2. q[k - 1] = e[(k - 1) + 1] /\ q[k - 1] = 0
      BY <1>6, <1>10, <3>1
    <3> QED  BY <3>1, <3>2
  <2>3. \A k \in 1..(len + 1) : k = 1 \/ k \in 2..len \/ k = len + 1
    OBVIOUS
  <2>4. \A k \in 1..(len + 1) : e[k] = 0
    BY <1>5, <2>1, <2>2, <2>3
  <2>5. SUFFICES ASSUME NEW k \in 1..len PROVE p[k] = 0
    OBVIOUS
  <2>6. p[k] \in Scalars /\ e[k] = Plus(p[k], Times(r, e[k + 1]))
    BY <1>5 DEF Vector
  <2>7. e[k] = 0 /\ e[k + 1] = 0
    <3>1. k \in 1..(len + 1) /\ k + 1 \in 1..(len + 1)
      OBVIOUS
    <3> QED  BY <2>4, <3>1
  <2>8. Plus(p[k], 0) = p[k]
    BY <1>8, <2>6
  <2> QED  BY ONLY <1>8, <2>6, <2>7, <2>8
<1>11. ASSUME NEW z \in Scalars
       PROVE  Eval(p, z) = Plus(Times(Eval(q, z), Minus(z, r)), Eval(p, r))
  <2> DEFINE g == HornerOf(z, q)
             d == Minus(z, r)
  <2>1. IsHorner(g, z, q, len - 1)
    BY <1>2, <1>6, HornerIs
  <2>2. d \in Scalars
    BY MinusIs
  <2> HIDE DEF g
  <2>3. /\ g \in Vector(len) /\ g[len] = 0
        /\ \A k \in 1..(len - 1) : g[k] = Plus(q[k], Times(z, g[k + 1]))
    <3>1. (len - 1) + 1 = len
      OBVIOUS
    <3> QED  BY <2>1, <3>1 DEF IsHorner
  <2>4. PICK f : f = [k \in 1..(len + 1) |-> IF k = len + 1 THEN 0 ELSE Plus(Times(g[k], d), e[k])]
    OBVIOUS
  <2>5. f[len + 1] = 0 /\ \A k \in 1..len : f[k] = Plus(Times(g[k], d), e[k])
    <3>1. len + 1 \in 1..(len + 1) /\ \A k \in 1..len : k \in 1..(len + 1) /\ k # len + 1
      OBVIOUS
    <3> QED  BY <2>4, <3>1
  <2>6. f \in Vector(len + 1)
    <3>1. \A k \in 1..len : g[k] \in Scalars /\ e[k] \in Scalars
      BY <1>5, <2>3 DEF Vector
    <3>2. \A k \in 1..len : Times(g[k], d) \in Scalars
      BY <2>2, <3>1, Closed
    <3>3. \A k \in 1..len : Plus(Times(g[k], d), e[k]) \in Scalars
      BY <3>1, <3>2, Closed
    <3>4. \A k \in 1..(len + 1) : k = len + 1 \/ k \in 1..len
      OBVIOUS
    <3> HIDE DEF d
    <3> QED  BY <2>4, <3>3, <3>4, Closed DEF Vector
  <2>7. ASSUME NEW k \in 1..len PROVE f[k] = Plus(p[k], Times(z, f[k + 1]))
    <3>1. CASE k = len
      <4>1. f[len] = Plus(Times(0, d), p[len]) /\ p[len] \in Scalars /\ f[len + 1] = 0
        BY <1>2, <1>9, <2>3, <2>5, <3>1
      <4>2. Times(0, d) = 0 /\ Times(z, 0) = 0
        BY <2>2, TimesZero
      <4>3. Plus(0, p[len]) = p[len] /\ Plus(p[len], 0) = p[len]
        BY <4>1, Laws
      <4> QED  BY ONLY <3>1, <4>1, <4>2, <4>3
    <3>2. CASE k # len
      <4>1. k \in 1..(len - 1) /\ k + 1 \in 1..len /\ k \in 1..(len + 1) /\ k + 1 \in 1..(len + 1)
        BY <3>2
      <4>2. PICK x, y, u : x = p[k] /\ y = g[k + 1] /\ u = e[k + 1]
        OBVIOUS
      <4>3. x \in Scalars /\ y \in Scalars /\ u \in Scalars
        BY <1>5, <2>3, <4>1, <4>2 DEF Vector
      <4>4. f[k] = Plus(Times(g[k], d), e[k]) /\ f[k + 1] = Plus(Times(y, d), u)
        BY <2>5, <4>1, <4>2
      <4>5. g[k] = Plus(u, Times(z, y))
        BY <1>6, <2>3, <4>1, <4>2
      <4>6. e[k] = Plus(x, Times(r, u))
        BY <1>5, <4>2
      <4>7. Plus(x, Times(z, Plus(Times(y, d), u)))
                = Plus(Times(Plus(u, Times(z, y)), d), Plus(x, Times(r, u)))
        BY <4>3, StepKate
      <4> QED  BY ONLY <4>2, <4>4, <4>5, <4>6, <4>7
    <3> QED  BY <3>1, <3>2
  <2>8. IsHorner(f, z, p, len)
    BY <2>5, <2>6, <2>7 DEF IsHorner
  <2>9. Eval(p, z) = f[1]
    BY <2>8, EvalIs
  <2>10. Eval(q, z) = g[1]
    BY <1>2, <1>6, <2>1, EvalIs
  <2>11. Eval(p, r) = e[1]
    BY <1>1, EvalIs
  <2>12. f[1] = Plus(Times(g[1], d), e[1])
    <3>1. 1 \in 1..len
      OBVIOUS
    <3> QED  BY <2>5, <3>1
  <2> QED  BY ONLY <2>9, <2>10, <2>11, <2>12
<1> QED  BY <1>4, <1>6, <1>10, <1>11

Differ(points, m)      == \A i, j \in 1..m : points[i] = points[j] => i = j
Vanishes(p, points, m) == \A i \in 1..m : Eval(p, points[i]) = 0

\* As many roots as coefficients: the polynomial is zero.
LEMMA RootsVanish ==
    ASSUME NEW len \in Nat, NEW p \in Vector(len), NEW points \in Vector(len), Differ(points, len),
           Vanishes(p, points, len)
    PROVE  \A k \in 1..len : p[k] = 0
<1> DEFINE Zero(m) == \A s \in Vector(m), xs \in Vector(m) :
                          Differ(xs, m) /\ Vanishes(s, xs, m) => \A k \in 1..m : s[k] = 0
           S == {m \in Nat : Zero(m)}
<1>1. 0 \in S
  OBVIOUS
<1>2. ASSUME NEW m \in Nat, m \in S PROVE m + 1 \in S
  <2>1. SUFFICES ASSUME NEW s \in Vector(m + 1), NEW xs \in Vector(m + 1), Differ(xs, m + 1),
                        Vanishes(s, xs, m + 1)
                 PROVE  \A k \in 1..(m + 1) : s[k] = 0
    OBVIOUS
  <2>2. PICK r, l, q : r = xs[m + 1] /\ l = m + 1 /\ q = Kate(s, r, l)
    OBVIOUS
  <2>3. /\ l \in Nat /\ l >= 1 /\ l - 1 = m /\ m + 1 \in 1..(m + 1)
        /\ \A i \in 1..m : i \in 1..(m + 1) /\ i # m + 1
    BY <2>2
  <2>4. r \in Scalars /\ Eval(s, r) = 0
    BY <2>1, <2>2, <2>3 DEF Vanishes, Vector
  <2>5. /\ q \in Vector(m)
        /\ (\A k \in 1..m : q[k] = 0) => \A k \in 1..(m + 1) : s[k] = 0
        /\ \A z \in Scalars : Eval(s, z) = Plus(Times(Eval(q, z), Minus(z, r)), Eval(s, r))
    <3>1. s \in Vector(l)
      BY <2>2
    <3>2. /\ Kate(s, r, l) \in Vector(l - 1)
          /\ (\A k \in 1..(l - 1) : Kate(s, r, l)[k] = 0) /\ Eval(s, r) = 0 => \A k \in 1..l : s[k] = 0
          /\ \A z \in Scalars :
                Eval(s, z) = Plus(Times(Eval(Kate(s, r, l), z), Minus(z, r)), Eval(s, r))
      BY <2>3, <2>4, <3>1, KateIs
    <3> QED  BY <2>2, <2>3, <2>4, <3>2
  <2>6. PICK ys : ys = [i \in 1..m |-> xs[i]]
    OBVIOUS
  <2>7. ys \in Vector(m) /\ \A i \in 1..m : ys[i] = xs[i] /\ xs[i] \in Scalars
    BY <2>3, <2>6 DEF Vector
  <2>8. Differ(ys, m)
    BY <2>1, <2>3, <2>7 DEF Differ
  <2>9. ASSUME NEW i \in 1..m PROVE Eval(q, ys[i]) = 0
    <3>1. PICK z, a, d : z = xs[i] /\ a = Eval(q, z) /\ d = Minus(z, r)
      OBVIOUS
    <3>2. z \in Scalars /\ z # r /\ Eval(s, z) = 0
      BY <2>1, <2>2, <2>3, <2>7, <3>1 DEF Differ, Vanishes
    <3>3. a \in Scalars /\ d \in Scalars /\ d # 0
      BY <2>4, <2>5, <3>1, <3>2, EvalIs, MinusIs, MinusZero
    <3>4. Times(a, d) \in Scalars
      BY <3>3, Closed
    <3>5. Plus(Times(a, d), 0) = Times(a, d)
      BY <3>4, Laws
    <3>6. Times(a, d) = 0
      BY <2>4, <2>5, <3>1, <3>2, <3>5
    <3>7. a = 0
      BY <3>3, <3>6, NoZeroDivisors
    <3> QED  BY <2>7, <3>1, <3>7
  <2>10. Vanishes(q, ys, m)
    BY <2>9 DEF Vanishes
  <2>11. \A k \in 1..m : q[k] = 0
    BY <1>2, <2>5, <2>7, <2>8, <2>10
  <2> QED  BY <2>5, <2>11
<1> HIDE DEF S
<1>3. \A m \in Nat : m \in S => m + 1 \in S
  BY <1>2
<1>4. len \in S
  BY <1>1, <1>3, SetInduction
<1>5. Zero(len)
  BY <1>4 DEF S
<1> QED  BY <1>5

\* A polynomial that is not zero has fewer roots than coefficients.
LEMMA RootCount ==
    ASSUME NEW len \in Nat, NEW p \in Vector(len), NEW S \in SUBSET Scalars,
           \A x \in S : Eval(p, x) = 0, \E k \in 1..len : p[k] # 0
    PROVE  Cardinality(S) < len
<1>1. IsFiniteSet(S)
  <2>1. IsFiniteSet(0..(Prime - 1))
    BY FS_Interval, ScalarsAre
  <2> QED  BY <2>1, FS_Subset DEF Scalars
<1>2. PICK c : c = Cardinality(S) /\ c \in Nat
  BY <1>1, FS_CardinalityType
<1>3. ExistsBijection(1..c, S)
  BY <1>1, <1>2, FS_CardinalityType
<1>4. PICK f : f \in Bijection(1..c, S)
  BY <1>3 DEF ExistsBijection
<1>5. f \in [1..c -> S] /\ \A i, j \in 1..c : f[i] = f[j] => i = j
  BY <1>4 DEF Bijection, Injection, IsInjective
<1>6. SUFFICES ASSUME len <= c PROVE FALSE
  BY <1>2
<1>7. PICK points : points = [i \in 1..len |-> f[i]]
  OBVIOUS
<1>8. \A i \in 1..len : i \in 1..c /\ points[i] = f[i] /\ f[i] \in S
  BY <1>2, <1>5, <1>6, <1>7
<1>9. points \in Vector(len)
  BY <1>7, <1>8 DEF Vector
<1>10. Differ(points, len)
  BY <1>5, <1>8 DEF Differ
<1>11. Vanishes(p, points, len)
  BY <1>8 DEF Vanishes
<1> QED  BY <1>9, <1>10, <1>11, RootsVanish

\* Polynomials with the same values at as many points as coefficients are equal.
LEMMA SameValues ==
    ASSUME NEW len \in Nat, NEW s \in Vector(len), NEW t \in Vector(len),
           NEW points \in Vector(len), Differ(points, len),
           \A i \in 1..len : Eval(s, points[i]) = Eval(t, points[i])
    PROVE  s = t
<1>1. PICK w : w = [k \in 1..len |-> Minus(s[k], t[k])]
  OBVIOUS
<1>2. \A k \in 1..len : s[k] \in Scalars /\ t[k] \in Scalars
  BY DEF Vector
<1>3. w \in Vector(len) /\ \A k \in 1..len : w[k] = Minus(s[k], t[k])
  <2>1. \A k \in 1..len : Minus(s[k], t[k]) \in Scalars
    BY <1>2, MinusIs
  <2> QED  BY <1>1, <2>1 DEF Vector
<1>4. ASSUME NEW i \in 1..len PROVE Eval(w, points[i]) = 0
  <2>1. PICK z : z = points[i]
    OBVIOUS
  <2>2. z \in Scalars
    BY <2>1 DEF Vector
  <2>3. Eval(w, z) = Minus(Eval(s, z), Eval(t, z))
    BY <1>3, <2>2, EvalMinus
  <2>4. Eval(s, z) \in Scalars /\ Eval(t, z) \in Scalars /\ Eval(s, z) = Eval(t, z)
    BY <2>1, <2>2, EvalIs
  <2> QED  BY <2>1, <2>3, <2>4, MinusZero
<1>5. \A k \in 1..len : w[k] = 0
  <2>1. Vanishes(w, points, len)
    BY <1>4 DEF Vanishes
  <2> QED  BY <1>3, <2>1, RootsVanish
<1>6. \A k \in 1..len : s[k] = t[k]
  BY <1>2, <1>3, <1>5, MinusZero
<1> QED  BY <1>6, SameVector

\* A polynomial's value, from its segments folded.
LEMMA SegmentsFold ==
    ASSUME NEW count \in Nat, NEW a \in Vector(count * n), NEW x \in Scalars
    PROVE  /\ FoldOf(Segments(a, n, count), count, Power(x, n)) \in Vector(n)
           /\ Eval(a, x) = Eval(FoldOf(Segments(a, n, count), count, Power(x, n)), x)
<1>1. n \in Nat
  BY SizesAre
<1>2. PICK y, segs, fold : /\ y = Power(x, n) /\ segs = Segments(a, n, count)
                           /\ fold = FoldOf(segs, count, y)
  OBVIOUS
<1>3. y \in Scalars
  BY <1>1, <1>2, PowerIs
<1>4. segs \in Polynomials(count, n)
  BY <1>1, <1>2, SegmentsAre
<1>5. fold \in Vector(n) /\ FoldsColumns(fold, segs, y, count, n)
  BY <1>2, <1>3, <1>4, FoldedIs DEF FoldsColumns, FoldOf
<1>6. PICK values : values = [j \in 1..count |-> Eval(segs[j], x)]
  OBVIOUS
<1>7. values \in Vector(count)
  <2>1. \A j \in 1..count : segs[j] \in Vector(n)
    BY <1>4 DEF Polynomials
  <2>2. \A j \in 1..count : Eval(segs[j], x) \in Scalars
    BY <1>1, <2>1, EvalIs
  <2> QED  BY <1>6, <2>2 DEF Vector
<1>8. Eval(fold, x) = Eval(values, y)
  <2>1. AreValues(values, segs, x, count)
    BY <1>6 DEF AreValues
  <2> QED  BY <1>1, <1>3, <1>4, <1>5, <1>7, <2>1, FoldColumns
<1>9. Eval(a, x) = Eval(values, y)
  <2>1. ArePieces(values, a, x, n, count)
    BY <1>2, <1>6 DEF ArePieces, Segments
  <2> QED  BY <1>1, <1>2, <1>7, <2>1, EvalPieces
<1> QED  BY <1>2, <1>5, <1>8, <1>9

\* Segments of n elements each, one after the other.
Joined(segs, count) == [j \in 1..(count * n) |-> segs[1 + ((j - 1) \div n)][1 + ((j - 1) % n)]]

LEMMA JoinedIs ==
    ASSUME NEW count \in Nat, NEW segs \in Polynomials(count, n)
    PROVE  Joined(segs, count) \in Vector(count * n) /\ Segments(Joined(segs, count), n, count) = segs
<1>1. n \in Nat \ {0} /\ n \in Nat /\ count * n = n * count
  BY SizesAre
<1>2. PICK w : w = Joined(segs, count)
  OBVIOUS
<1>3. ASSUME NEW j \in 1..(count * n)
      PROVE  segs[1 + ((j - 1) \div n)][1 + ((j - 1) % n)] \in Scalars
  <2>1. PICK k, q, r : k = j - 1 /\ q = k \div n /\ r = k % n
    OBVIOUS
  <2>2. Split(k, n, q, r)
    BY <2>1 DEF Split
  <2>3. k \in Nat /\ k < n * count
    BY <1>1, <2>1
  <2>4. r \in 0..(n - 1) /\ q \in 0..(count - 1)
    BY <1>1, <2>2, <2>3, NatDivision, QuotientBelow
  <2>5. 1 + r \in 1..n /\ 1 + q \in 1..count
    BY <1>1, <2>4
  <2>6. segs[1 + q] \in Vector(n)
    BY <2>5 DEF Polynomials
  <2> QED  BY <2>1, <2>5, <2>6 DEF Vector
<1>4. w \in Vector(count * n)
  BY <1>2, <1>3 DEF Joined, Vector
<1>5. ASSUME NEW t \in 1..count, NEW i \in 1..n PROVE w[((t - 1) * n) + i] = segs[t][i]
  <2>1. PICK j, k : j = ((t - 1) * n) + i /\ k = (t - 1) * n
    OBVIOUS
  <2>2. j \in 1..(count * n) /\ k \in Nat
    BY <1>1, <2>1, PlaceWithin
  <2>3. n * (t - 1) = k
    BY <1>1, <2>1
  <2>4. j - 1 = (n * (t - 1)) + (i - 1) /\ i - 1 \in 0..(n - 1) /\ t - 1 \in Int
    BY <1>1, <2>1, <2>2, <2>3
  <2>5. PICK c, d, e : c = j - 1 /\ d = t - 1 /\ e = i - 1
    OBVIOUS
  <2>6. n > 0 /\ c \in Int /\ d \in Int /\ e \in 0..(n - 1) /\ c = (n * d) + e
    BY <1>1, <2>2, <2>4, <2>5
  <2>7. c % n = e /\ c \div n = d
    BY <1>1, <2>6, DivisionUnique
  <2>8. 1 + d = t /\ 1 + e = i
    BY <1>1, <2>5
  <2>9. w[j] = segs[1 + (c \div n)][1 + (c % n)]
    BY <1>2, <2>2, <2>5 DEF Joined
  <2> QED  BY <2>1, <2>7, <2>8, <2>9
<1>6. /\ Segments(w, n, count) \in Polynomials(count, n)
      /\ \A t \in 1..count, i \in 1..n : Segments(w, n, count)[t][i] = w[((t - 1) * n) + i]
  BY <1>1, <1>4, SegmentsAre
<1>7. PICK v : v = Segments(w, n, count)
  OBVIOUS
<1>8. ASSUME NEW t \in 1..count PROVE v[t] = segs[t]
  <2>1. v[t] \in Vector(n) /\ segs[t] \in Vector(n)
    BY <1>6, <1>7 DEF Polynomials
  <2>2. \A i \in 1..n : v[t][i] = segs[t][i]
    BY <1>5, <1>6, <1>7
  <2> QED  BY <2>1, <2>2, SameVector
<1>9. v = segs
  <2>1. v = [t \in 1..count |-> v[t]] /\ segs = [t \in 1..count |-> segs[t]]
    BY <1>6, <1>7 DEF Polynomials
  <2>2. [t \in 1..count |-> v[t]] = [t \in 1..count |-> segs[t]]
    BY <1>8
  <2> QED  BY ONLY <2>1, <2>2
<1> QED  BY <1>2, <1>4, <1>7, <1>9

\* Division by X^n - 1, with a remainder of n coefficients.
Divides(g, q, r) ==
    \A x \in Scalars : Eval(g, x) = Plus(Times(Eval(q, x), Minus(Power(x, n), 1)), Eval(r, x))

LEMMA VanishingDivides ==
    ASSUME NEW d \in Nat, NEW g \in Vector((d + 1) * n)
    PROVE  \E q \in Vector(d * n), r \in Vector(n) : Divides(g, q, r)
<1>1. n \in Nat /\ 1 \in Scalars
  BY SizesAre, Closed
<1>2. PICK l, segs : l = d + 1 /\ segs = Segments(g, n, l)
  OBVIOUS
<1>3. l \in Nat /\ l >= 1 /\ l - 1 = d /\ segs \in Polynomials(l, n)
  BY <1>1, <1>2, SegmentsAre
<1>4. ASSUME NEW k \in 1..n
      PROVE  Column(segs, l, k) \in Vector(l)
  <2>1. \A i \in 1..l : segs[i] \in Vector(n)
    BY <1>3 DEF Polynomials
  <2>2. \A i \in 1..l : segs[i][k] \in Scalars
    BY <2>1 DEF Vector
  <2> QED  BY <2>2 DEF Column, Vector
<1>5. PICK ks : ks = [k \in 1..n |-> Kate(Column(segs, l, k), 1, l)]
  OBVIOUS
<1>6. ASSUME NEW k \in 1..n
      PROVE  /\ ks[k] \in Vector(d)
             /\ \A z \in Scalars : Eval(Column(segs, l, k), z)
                    = Plus(Times(Eval(ks[k], z), Minus(z, 1)), Eval(Column(segs, l, k), 1))
  <2>1. PICK p : p = Column(segs, l, k) /\ p \in Vector(l)
    BY <1>4
  <2>2. /\ Kate(p, 1, l) \in Vector(l - 1)
        /\ \A z \in Scalars : Eval(p, z) = Plus(Times(Eval(Kate(p, 1, l), z), Minus(z, 1)), Eval(p, 1))
    BY <1>1, <1>3, <2>1, KateIs
  <2> QED  BY <1>3, <1>5, <2>1, <2>2
<1>7. PICK ts : ts = [i \in 1..d |-> [k \in 1..n |-> ks[k][i]]]
  OBVIOUS
<1>8. ts \in Polynomials(d, n)
  <2>1. \A k \in 1..n, i \in 1..d : ks[k][i] \in Scalars
    BY <1>6 DEF Vector
  <2>2. \A i \in 1..d : [k \in 1..n |-> ks[k][i]] \in Vector(n)
    BY <2>1 DEF Vector
  <2> QED  BY <1>7, <2>2 DEF Polynomials
<1>9. ASSUME NEW k \in 1..n PROVE Column(ts, d, k) = ks[k]
  <2>1. ks[k] = [i \in 1..d |-> ks[k][i]]
    BY <1>6 DEF Vector
  <2>2. \A i \in 1..d : ts[i][k] = ks[k][i]
    BY <1>7
  <2> QED  BY <2>1, <2>2 DEF Column
<1>10. PICK q, r : q = Joined(ts, d) /\ r = FoldOf(segs, l, 1)
  OBVIOUS
<1>11. q \in Vector(d * n) /\ Segments(q, n, d) = ts
  BY <1>8, <1>10, JoinedIs
<1>12. r \in Vector(n)
  BY <1>1, <1>3, <1>10, FoldedIs
<1>13. ASSUME NEW x \in Scalars
       PROVE  Eval(g, x) = Plus(Times(Eval(q, x), Minus(Power(x, n), 1)), Eval(r, x))
  <2>1. PICK y, c : y = Power(x, n) /\ c = Minus(y, 1)
    OBVIOUS
  <2>2. y \in Scalars /\ c \in Scalars
    BY <1>1, <2>1, PowerIs, Closed
  <2>3. PICK s, t : s = FoldOf(segs, l, y) /\ t = FoldOf(ts, d, y)
    OBVIOUS
  <2>4. s \in Vector(n) /\ Eval(g, x) = Eval(s, x)
    <3>1. g \in Vector(l * n)
      BY <1>2
    <3> QED  BY <1>2, <1>3, <2>1, <2>3, <3>1, SegmentsFold
  <2>5. t \in Vector(n) /\ Eval(q, x) = Eval(t, x)
    BY <1>11, <2>1, <2>3, SegmentsFold
  <2>6. Combines(s, r, t, c, n)
    <3>1. ASSUME NEW k \in 1..n PROVE s[k] = Plus(r[k], Times(c, t[k]))
      <4>1. /\ s[k] = Eval(Column(segs, l, k), y) /\ r[k] = Eval(Column(segs, l, k), 1)
            /\ t[k] = Eval(ks[k], y)
        BY <1>9, <1>10, <2>3 DEF FoldOf
      <4>2. s[k] = Plus(Times(t[k], c), r[k])
        BY <1>6, <2>1, <2>2, <4>1
      <4>3. r[k] \in Scalars /\ t[k] \in Scalars
        BY <1>12, <2>5 DEF Vector
      <4>4. Times(t[k], c) = Times(c, t[k]) /\ Times(c, t[k]) \in Scalars
        BY <2>2, <4>3, Laws, Closed
      <4>5. Plus(Times(c, t[k]), r[k]) = Plus(r[k], Times(c, t[k]))
        BY <4>3, <4>4, Laws
      <4> QED  BY ONLY <4>2, <4>4, <4>5
    <3> QED  BY <3>1 DEF Combines
  <2>7. Eval(s, x) = Plus(Eval(r, x), Times(c, Eval(t, x)))
    BY <1>1, <1>12, <2>2, <2>4, <2>5, <2>6, EvalLinear
  <2>8. Eval(r, x) \in Scalars /\ Eval(t, x) \in Scalars
    BY <1>1, <1>12, <2>5, EvalIs
  <2>9. Times(c, Eval(t, x)) = Times(Eval(t, x), c) /\ Times(c, Eval(t, x)) \in Scalars
    BY <2>2, <2>8, Laws, Closed
  <2>10. Plus(Eval(r, x), Times(c, Eval(t, x))) = Plus(Times(c, Eval(t, x)), Eval(r, x))
    BY <2>8, <2>9, Laws
  <2> QED  BY ONLY <2>1, <2>4, <2>5, <2>7, <2>9, <2>10
<1> QED  BY <1>11, <1>12, <1>13 DEF Divides

\* Multiplication by X^n - 1, less a polynomial.
LEMMA TimesVanishing ==
    ASSUME NEW d \in Nat, NEW q \in Vector(d * n), NEW g \in Vector((d + 1) * n)
    PROVE  \E w \in Vector((d + 1) * n) :
               \A x \in Scalars : Eval(w, x) = Minus(Times(Eval(q, x), Minus(Power(x, n), 1)), Eval(g, x))
<1>1. PICK m, l : m = d * n /\ l = (d + 1) * n
  OBVIOUS
<1>2. n \in Nat /\ m \in Nat /\ l \in Nat /\ l = n + m /\ n + m <= l /\ m <= l /\ 0 + n <= l
  <2>1. n \in Nat
    BY SizesAre
  <2>2. d * n \in Nat /\ (d + 1) * n = (d * n) + n
    BY <2>1
  <2> QED  BY <1>1, <2>1, <2>2
<1>3. q \in Vector(m) /\ g \in Vector(l)
  BY <1>1
<1>4. PICK s, p : /\ s = [k \in 1..l |-> IF k <= n THEN 0 ELSE q[k - n]]
                  /\ p = [k \in 1..l |-> IF k <= m THEN q[k] ELSE 0]
  OBVIOUS
<1>5. /\ \A k \in 1..l : ~(k <= n) => k - n \in 1..m
      /\ \A k \in 1..l : k <= m => k \in 1..m
      /\ \A k \in 1..m : n + k \in 1..l /\ ~(n + k <= n) /\ (n + k) - n = k
      /\ \A k \in 1..n : 0 + k \in 1..l /\ 0 + k <= n
  BY <1>2
<1>6. s \in Vector(l) /\ p \in Vector(l) /\ \A k \in 1..l : p[k] = IF k <= m THEN q[k] ELSE 0
  <2>1. \A k \in 1..m : q[k] \in Scalars
    BY <1>3 DEF Vector
  <2>2. \A k \in 1..l : s[k] \in Scalars /\ p[k] \in Scalars
    BY <1>4, <1>5, <2>1, Closed
  <2> QED  BY <1>4, <2>2 DEF Vector
<1>7. ASSUME NEW x \in Scalars PROVE Eval(p, x) = Eval(q, x)
  BY <1>2, <1>3, <1>6, EvalExtended
<1>8. ASSUME NEW x \in Scalars PROVE Eval(s, x) = Times(Power(x, n), Eval(q, x))
  <2>1. PICK e : e = HornerOf(x, s)
    OBVIOUS
  <2>2. IsHorner(e, x, s, l) /\ Eval(s, x) = e[1] /\ e[l + 1] = 0
    <3>1. IsHorner(e, x, s, l) /\ Eval(s, x) = e[1]
      BY <1>2, <1>6, <2>1, HornerIs, EvalIs
    <3> QED  BY <3>1 DEF IsHorner
  <2>3. PICK y : y = Power(x, n) /\ y \in Scalars
    BY <1>2, PowerIs
  <2>4. PICK z : z = 0 /\ z \in Nat
    OBVIOUS
  <2>5. e[z + 1] = Plus(Eval(Segment(s, z, n), x), Times(Power(x, n), e[(z + n) + 1]))
    BY <1>2, <1>6, <2>2, <2>4, HornerSegment
  <2>6. e[n + 1] = Plus(Eval(Segment(s, n, m), x), Times(Power(x, m), e[(n + m) + 1]))
    BY <1>2, <1>6, <2>2, HornerSegment
  <2>7. Eval(Segment(s, z, n), x) = 0
    <3>1. Segment(s, z, n) \in Vector(n)
      BY <1>2, <1>6, <2>4, SegmentIs
    <3>2. \A k \in 1..n : Segment(s, z, n)[k] = 0
      BY <1>4, <1>5, <2>4 DEF Segment
    <3> QED  BY <1>2, <3>1, <3>2, EvalZero
  <2>8. Segment(s, n, m) = q
    <3>1. \A k \in 1..m : s[n + k] = q[k]
      BY <1>4, <1>5
    <3>2. q = [k \in 1..m |-> q[k]]
      BY <1>3 DEF Vector
    <3> QED  BY <3>1, <3>2 DEF Segment
  <2>9. PICK a, b : a = Eval(q, x) /\ b = Power(x, m)
    OBVIOUS
  <2>10. a \in Scalars /\ b \in Scalars
    BY <1>2, <1>3, <2>9, EvalIs, PowerIs
  <2>11. Times(b, 0) = 0 /\ Plus(a, 0) = a
    BY <2>10, TimesZero, Laws
  <2>12. e[n + 1] = a
    BY <1>2, <2>2, <2>6, <2>8, <2>9, <2>11
  <2>13. Times(y, a) \in Scalars
    BY <2>3, <2>10, Closed
  <2>14. Plus(0, Times(y, a)) = Times(y, a)
    BY <2>13, Laws
  <2>15. z + 1 = 1 /\ (z + n) + 1 = n + 1
    BY <1>2, <2>4
  <2> QED  BY ONLY <2>2, <2>3, <2>5, <2>7, <2>9, <2>12, <2>14, <2>15
<1>9. PICK t, w : /\ t = [k \in 1..l |-> Minus(s[k], p[k])]
                  /\ w = [k \in 1..l |-> Minus(t[k], g[k])]
  OBVIOUS
<1>10. t \in Vector(l) /\ w \in Vector(l)
  <2>1. \A k \in 1..l : s[k] \in Scalars /\ p[k] \in Scalars /\ g[k] \in Scalars
    BY <1>3, <1>6 DEF Vector
  <2>2. \A k \in 1..l : t[k] \in Scalars
    BY <1>9, <2>1, Closed
  <2>3. \A k \in 1..l : w[k] \in Scalars
    BY <1>9, <2>1, <2>2, Closed
  <2> QED  BY <1>9, <2>2, <2>3 DEF Vector
<1>11. ASSUME NEW x \in Scalars
       PROVE  Eval(w, x) = Minus(Times(Eval(q, x), Minus(Power(x, n), 1)), Eval(g, x))
  <2>1. \A k \in 1..l : t[k] = Minus(s[k], p[k])
    BY <1>9
  <2>2. Eval(t, x) = Minus(Eval(s, x), Eval(p, x))
    BY <1>2, <1>6, <1>10, <2>1, EvalMinus
  <2>3. \A k \in 1..l : w[k] = Minus(t[k], g[k])
    BY <1>9
  <2>4. Eval(w, x) = Minus(Eval(t, x), Eval(g, x))
    BY <1>2, <1>3, <1>10, <2>3, EvalMinus
  <2>5. PICK a, y : a = Eval(q, x) /\ y = Power(x, n)
    OBVIOUS
  <2>6. a \in Scalars /\ y \in Scalars /\ 1 \in Scalars
    BY <1>2, <1>3, <2>5, EvalIs, PowerIs, Closed
  <2>7. Times(a, Minus(y, 1)) = Minus(Times(a, y), Times(a, 1)) /\ Times(a, 1) = a /\ Times(a, y) = Times(y, a)
    BY <2>6, TimesMinus, Laws
  <2>8. Eval(s, x) = Times(y, a) /\ Eval(p, x) = a
    BY <1>7, <1>8, <2>5
  <2> QED  BY ONLY <2>2, <2>4, <2>5, <2>7, <2>8
<1> QED  BY <1>1, <1>10, <1>11

(* --------------------------------- the verdict ---------------------------- *)

\* The coset's points are outside the domain.
LEMMA CubeOutside ==
    ASSUME NEW k \in Nat
    PROVE  Power(Zeta, TwoTo(k)) # 1
<1>1. PICK y : y = Times(Zeta, Zeta)
  OBVIOUS
<1>2. /\ Zeta \in Scalars /\ y \in Scalars /\ Times(y, y) = Zeta /\ Times(y, Zeta) = 1 /\ Zeta # 1
  BY <1>1, CubeIs, RootsAre, DomainAssumption
<1>3. y # 1
  <2>1. Times(1, Zeta) = Zeta
    BY <1>2, Laws
  <2> QED  BY <1>2, <2>1
<1> DEFINE S == {i \in Nat : Power(Zeta, TwoTo(i)) \in {Zeta, y}}
<1>4. 0 \in S
  <2>1. PICK z, o : z = 0 /\ o = 1
    OBVIOUS
  <2>2. TwoTo(z) = 1 /\ z \in Nat
    BY <2>1, TwoToNext
  <2>3. Power(Zeta, o) = Zeta
    BY <1>2, <2>1, PowerIs
  <2> QED  BY <2>1, <2>2, <2>3
<1>5. ASSUME NEW i \in Nat, i \in S PROVE i + 1 \in S
  <2>1. PICK t : t = TwoTo(i)
    OBVIOUS
  <2>2. t \in Nat /\ TwoTo(i + 1) = t + t
    <3>1. t \in Nat /\ TwoTo(i + 1) = 2 * t
      BY <2>1, TwoToNext
    <3> QED  BY <3>1
  <2>3. Power(Zeta, t + t) = Times(Power(Zeta, t), Power(Zeta, t))
    BY <1>2, <2>2, PowerIs
  <2>4. Power(Zeta, t) = Zeta \/ Power(Zeta, t) = y
    BY <1>5, <2>1
  <2>5. Power(Zeta, t + t) \in {Zeta, y}
    BY <1>1, <1>2, <2>3, <2>4
  <2> QED  BY <2>2, <2>5
<1> HIDE DEF S
<1>6. \A i \in Nat : i \in S => i + 1 \in S
  BY <1>5
<1>7. k \in S
  BY <1>4, <1>6, SetInduction
<1>8. Power(Zeta, TwoTo(k)) = Zeta \/ Power(Zeta, TwoTo(k)) = y
  BY <1>7 DEF S
<1> QED  BY <1>2, <1>3, <1>8

LEMMA CosetOutside ==
    ASSUME NEW k \in Nat
    PROVE  Power(ExtendedPoint(k), n) # 1
<1>1. PICK l, s, x, p : /\ l = ExtendedLen /\ s = NumParts /\ x = Power(ExtendedOmega, k)
                        /\ p = ExtendedPoint(k)
  OBVIOUS
<1>2. /\ l \in Nat /\ s \in Nat /\ n \in Nat /\ l = n * s /\ ExtendedK \in Nat
      /\ ExtendedOmega \in Scalars /\ Zeta \in Scalars /\ Power(ExtendedOmega, l) = 1
  BY <1>1, SizesAre, RootsAre, RootInverse, DomainAssumption
<1>3. x \in Scalars /\ p = Times(Zeta, x) /\ p \in Scalars
  BY <1>1, <1>2, PowerIs, Closed DEF ExtendedPoint
<1>4. Power(x, l) = 1
  <2>1. Power(Power(ExtendedOmega, k), l) = Power(ExtendedOmega, k * l)
    BY <1>2, PowerPower
  <2>2. Power(Power(ExtendedOmega, l), k) = Power(ExtendedOmega, l * k)
    BY <1>2, PowerPower
  <2>3. k * l = l * k
    BY <1>2
  <2> QED  BY <1>1, <1>2, <2>1, <2>2, <2>3, PowerOne
<1>5. Power(p, l) = Power(Zeta, l)
  <2>1. Power(Times(Zeta, x), l) = Times(Power(Zeta, l), Power(x, l))
    BY <1>2, <1>3, PowerTimes
  <2>2. Power(Zeta, l) \in Scalars
    BY <1>2, PowerIs
  <2>3. Times(Power(Zeta, l), 1) = Power(Zeta, l)
    BY <2>2, Laws
  <2> QED  BY <1>3, <1>4, <2>1, <2>3
<1>6. Power(Zeta, l) # 1
  BY <1>1, <1>2, CubeOutside DEF ExtendedLen
<1>7. Power(Power(p, n), s) = Power(p, l)
  BY <1>2, <1>3, PowerPower
<1>8. Power(1, s) = 1
  BY <1>2, PowerOne
<1> QED  BY <1>1, <1>5, <1>6, <1>7, <1>8

LEMMA RootPowersDiffer ==
    ASSUME NEW m \in Nat \ {0}, NEW w, NEW v, NEW d, IsRoot(w, v, d, m),
           NEW i \in 0..(m - 1), NEW j \in 0..(m - 1), Power(w, i) = Power(w, j)
    PROVE  i = j
<1>1. Times(Power(v, i), Power(w, i)) = 1
  BY RootProducts
<1>2. Times(Power(v, i), Power(w, j)) = 1 <=> i = j
  BY RootProducts
<1> QED  BY <1>1, <1>2

\* The points of the domain, and of the extended domain's coset.
DomainPoints == [r \in 1..n |-> Power(Omega, r - 1)]
CosetPoints  == [i \in 1..ExtendedLen |-> ExtendedPoint(i - 1)]

LEMMA DomainPointsAre ==
    /\ DomainPoints \in Vector(n) /\ Differ(DomainPoints, n)
    /\ \A r \in 1..n : DomainPoints[r] = Power(Omega, r - 1) /\ Power(DomainPoints[r], n) = 1
<1>1. n \in Nat \ {0} /\ n \in Nat /\ IsRoot(Omega, OmegaInv, IfftDivisor, n)
  BY SizesAre, RootsAre
<1>2. Omega \in Scalars /\ Power(Omega, n) = 1
  BY <1>1, RootInverse
<1>3. \A r \in 1..n : r - 1 \in Nat /\ r - 1 \in 0..(n - 1)
  BY <1>1
<1>4. DomainPoints \in Vector(n)
  <2>1. \A r \in 1..n : Power(Omega, r - 1) \in Scalars
    BY <1>2, <1>3, PowerIs
  <2> QED  BY <2>1 DEF DomainPoints, Vector
<1>5. ASSUME NEW i \in 1..n, NEW j \in 1..n, DomainPoints[i] = DomainPoints[j] PROVE i = j
  <2>1. PICK a, b : a = i - 1 /\ b = j - 1
    OBVIOUS
  <2>2. Power(Omega, a) = Power(Omega, b) /\ a \in 0..(n - 1) /\ b \in 0..(n - 1)
    BY <1>3, <1>5, <2>1 DEF DomainPoints
  <2>3. a = b
    BY <1>1, <2>2, RootPowersDiffer
  <2> QED  BY <1>1, <2>1, <2>3
<1>6. ASSUME NEW r \in 1..n PROVE Power(Power(Omega, r - 1), n) = 1
  <2>1. PICK k : k = r - 1 /\ k \in Nat
    BY <1>3
  <2>2. Power(Power(Omega, k), n) = Power(Omega, k * n)
    BY <1>1, <1>2, <2>1, PowerPower
  <2>3. Power(Power(Omega, n), k) = Power(Omega, n * k)
    BY <1>1, <1>2, <2>1, PowerPower
  <2>4. k * n = n * k
    BY <1>1, <2>1
  <2> QED  BY <1>2, <2>1, <2>2, <2>3, <2>4, PowerOne
<1> QED  BY <1>4, <1>5, <1>6 DEF DomainPoints, Differ

LEMMA CosetPointsAre ==
    /\ CosetPoints \in Vector(ExtendedLen) /\ Differ(CosetPoints, ExtendedLen)
    /\ \A i \in 1..ExtendedLen : /\ CosetPoints[i] = ExtendedPoint(i - 1)
                                 /\ Power(CosetPoints[i], n) # 1
<1>1. PICK l : l = ExtendedLen
  OBVIOUS
<1>2. /\ l \in Nat \ {0} /\ l \in Nat
      /\ IsRoot(ExtendedOmega, Inverted(ExtendedOmega), Inverted(ExtendedLen % Prime), l)
      /\ Zeta \in Scalars /\ Zeta # 0
  BY <1>1, SizesAre, RootsAre
<1>3. ExtendedOmega \in Scalars
  BY <1>2, RootInverse
<1>4. \A i \in 1..l : i - 1 \in Nat /\ i - 1 \in 0..(l - 1)
  BY <1>2
<1>5. CosetPoints \in Vector(l)
  <2>1. \A i \in 1..l : ExtendedPoint(i - 1) \in Scalars
    BY <1>4, PointType
  <2> QED  BY <1>1, <2>1 DEF CosetPoints, Vector
<1>6. ASSUME NEW i \in 1..l, NEW j \in 1..l, CosetPoints[i] = CosetPoints[j] PROVE i = j
  <2>1. PICK a, b : a = i - 1 /\ b = j - 1
    OBVIOUS
  <2>2. a \in 0..(l - 1) /\ b \in 0..(l - 1) /\ a \in Nat /\ b \in Nat
    BY <1>4, <2>1
  <2>3. PICK x, y : x = Power(ExtendedOmega, a) /\ y = Power(ExtendedOmega, b)
    OBVIOUS
  <2>4. x \in Scalars /\ y \in Scalars
    BY <1>3, <2>2, <2>3, PowerIs
  <2>5. Times(Zeta, x) = Times(Zeta, y)
    BY <1>1, <1>6, <2>1, <2>3 DEF CosetPoints, ExtendedPoint
  <2>6. Times(Inverted(Zeta), Times(Zeta, x)) = x
    BY <1>2, <2>4, TimesInvert
  <2>7. Times(Inverted(Zeta), Times(Zeta, y)) = y
    BY <1>2, <2>4, TimesInvert
  <2>8. Power(ExtendedOmega, a) = Power(ExtendedOmega, b)
    BY ONLY <2>3, <2>5, <2>6, <2>7
  <2>9. a = b
    BY <1>2, <2>2, <2>8, RootPowersDiffer
  <2> QED  BY <1>2, <2>1, <2>9
<1>7. \A i \in 1..l : Power(ExtendedPoint(i - 1), n) # 1
  BY <1>4, CosetOutside
<1> QED  BY <1>1, <1>5, <1>6, <1>7 DEF CosetPoints, Differ

\* The gate on the vectors' own rows.
LEMMA RowsOfColumns ==
    ASSUME NEW cs \in Columns
    PROVE  \A r \in 1..n : Rows(cs)[r] = Eval(GatePoly(cs), Power(Omega, r - 1))
<1>1. PICK xs : xs = DomainPoints
  OBVIOUS
<1>2. xs \in Vector(n) /\ n \in Nat /\ \A r \in 1..n : xs[r] = Power(Omega, r - 1)
  BY <1>1, DomainPointsAre, SizesAre
<1>3. ASSUME NEW c \in DOMAIN cs PROVE cs[c] = [r \in 1..n |-> Eval(Coefficients(cs[c]), xs[r])]
  <2>1. cs[c] \in Vector(n)
    BY ColumnsAre
  <2>2. \A r \in 1..n : Eval(Coefficients(cs[c]), xs[r]) = cs[c][r]
    BY <1>2, <2>1, CoefficientsAre
  <2>3. cs[c] = [r \in 1..n |-> cs[c][r]]
    BY <2>1 DEF Vector
  <2> QED  BY <2>2, <2>3
<1>4. PICK vectors : vectors = [c \in DOMAIN cs |-> [r \in 1..n |-> Eval(Coefficients(cs[c]), xs[r])]]
  OBVIOUS
<1>5. cs = vectors
  <2>1. cs = [c \in DOMAIN cs |-> cs[c]]
    BY ColumnsAre, GateAssumption
  <2> QED  BY <1>3, <1>4, <2>1
<1>6. Rows(vectors) = [r \in 1..n |-> Eval(GatePoly(cs), xs[r])]
  BY <1>2, <1>4, RowsAre
<1> QED  BY <1>2, <1>5, <1>6

\* A gate that holds on every row: the quotient is exact.
LEMMA QuotientExact ==
    ASSUME NEW cs \in Columns, \A r \in 1..n : Rows(cs)[r] = 0, NEW x \in Scalars
    PROVE  Times(Eval(QuotientOf(cs), x), Minus(Power(x, n), 1)) = Eval(GatePoly(cs), x)
<1>1. PICK d, g, l : d = QuotientPolyDegree /\ g = GatePoly(cs) /\ l = ExtendedLen
  OBVIOUS
<1>2. d \in Nat /\ n \in Nat /\ l \in Nat /\ 1 \in Scalars /\ g \in Vector((d + 1) * n)
  BY <1>1, SizesAre, GateIs, Closed
<1>3. PICK q \in Vector(d * n), r \in Vector(n) : Divides(g, q, r)
  BY <1>2, VanishingDivides
<1>4. d * n \in Nat /\ (d + 1) * n \in Nat /\ d * n <= l
  <2>1. d * n \in Nat /\ (d + 1) * n \in Nat
    BY <1>2
  <2>2. ExtendedValues(g) \in Vector(l)
    BY <1>1, ValuesAre
  <2> QED  BY <1>1, <2>1, <2>2, ExtendedToCoeffIs
<1>5. ASSUME NEW i \in 1..n PROVE Eval(r, DomainPoints[i]) = 0
  <2>1. PICK z : z = DomainPoints[i]
    OBVIOUS
  <2>2. z \in Scalars /\ Power(z, n) = 1 /\ Eval(g, z) = 0
    <3>1. Eval(g, Power(Omega, i - 1)) = 0
      BY <1>1, RowsOfColumns
    <3> QED  BY <2>1, <3>1, DomainPointsAre DEF Vector
  <2>3. PICK a, b : a = Eval(q, z) /\ b = Eval(r, z)
    OBVIOUS
  <2>4. a \in Scalars /\ b \in Scalars
    BY <1>2, <1>3, <1>4, <2>2, <2>3, EvalIs
  <2>5. Eval(g, z) = Plus(Times(a, Minus(Power(z, n), 1)), b)
    BY <1>3, <2>2, <2>3 DEF Divides
  <2>6. Minus(1, 1) = 0 /\ Times(a, 0) = 0 /\ Plus(0, b) = b
    BY <1>2, <2>4, MinusZero, TimesZero, Laws
  <2> QED  BY ONLY <2>1, <2>2, <2>3, <2>5, <2>6
<1>6. \A k \in 1..n : r[k] = 0
  <2>1. Vanishes(r, DomainPoints, n)
    BY <1>5 DEF Vanishes
  <2> QED  BY <1>2, <1>3, <2>1, DomainPointsAre, RootsVanish
<1>7. ASSUME NEW z \in Scalars PROVE Eval(g, z) = Times(Eval(q, z), Minus(Power(z, n), 1))
  <2>1. Eval(r, z) = 0
    BY <1>2, <1>3, <1>6, EvalZero
  <2>2. PICK a, y : a = Eval(q, z) /\ y = Minus(Power(z, n), 1)
    OBVIOUS
  <2>3. a \in Scalars /\ y \in Scalars
    BY <1>2, <1>3, <1>4, <2>2, EvalIs, PowerIs, Closed
  <2>4. Times(a, y) \in Scalars
    BY <2>3, Closed
  <2>5. Plus(Times(a, y), 0) = Times(a, y)
    BY <2>4, Laws
  <2>6. Eval(g, z) = Plus(Times(a, y), Eval(r, z))
    BY <1>3, <2>2 DEF Divides
  <2> QED  BY ONLY <2>1, <2>2, <2>5, <2>6
<1>8. PICK v, u : v = DivideByVanishingPoly(ExtendedValues(g)) /\ u = Uncut(v)
  OBVIOUS
<1>9. /\ v \in Vector(l)
      /\ \A i \in 1..l : v[i] = Times(ExtendedValues(g)[i], Inverted(Minus(Power(ExtendedPoint(i - 1), n), 1)))
  <2>1. ExtendedValues(g) \in Vector(l)
    BY <1>1, ValuesAre
  <2> QED  BY <1>1, <1>8, <2>1, DivideIs
<1>10. u \in Vector(l) /\ \A i \in 1..l : Eval(u, ExtendedPoint(i - 1)) = v[i]
  BY <1>1, <1>8, <1>9, UncutIs
<1>11. PICK pad : pad = PaddedTo(q, l)
  OBVIOUS
<1>12. /\ pad \in Vector(l) /\ \A k \in 1..l : pad[k] = IF k <= d * n THEN q[k] ELSE 0
       /\ \A z \in Scalars : Eval(pad, z) = Eval(q, z)
  <2>1. PICK m : m = d * n
    OBVIOUS
  <2>2. m \in Nat /\ m <= l /\ q \in Vector(m)
    BY <1>3, <1>4, <2>1
  <2> QED  BY <1>2, <1>11, <2>1, <2>2, PaddedIs
<1>13. ASSUME NEW i \in 1..l PROVE Eval(u, CosetPoints[i]) = Eval(pad, CosetPoints[i])
  <2>1. PICK z : z = ExtendedPoint(i - 1)
    OBVIOUS
  <2>2. CosetPoints[i] = z /\ z \in Scalars /\ Power(z, n) # 1
    BY <1>1, <2>1, CosetPointsAre DEF Vector
  <2>3. PICK a, y : a = Eval(q, z) /\ y = Minus(Power(z, n), 1)
    OBVIOUS
  <2>4. a \in Scalars /\ y \in Scalars /\ y # 0
    <3>1. Power(z, n) \in Scalars
      BY <1>2, <2>2, PowerIs
    <3> QED  BY <1>2, <1>3, <1>4, <2>2, <2>3, <3>1, EvalIs, Closed, MinusZero
  <2>5. Eval(g, z) = Times(a, y)
    BY <1>7, <2>2, <2>3
  <2>6. v[i] = Times(Eval(g, z), Inverted(y))
    <3>1. ExtendedValues(g)[i] = Eval(g, z)
      BY <1>1, <2>1 DEF ExtendedValues
    <3> QED  BY <1>9, <2>1, <2>3, <3>1
  <2>7. Times(Times(a, y), Inverted(y)) = a
    <3>1. Inverted(y) \in Scalars /\ Times(y, Inverted(y)) = 1
      BY <2>4, TimesInvert
    <3>2. Times(Times(a, y), Inverted(y)) = Times(a, Times(y, Inverted(y))) /\ Times(a, 1) = a
      BY <2>4, <3>1, Laws
    <3> QED  BY <3>1, <3>2
  <2>8. Eval(u, z) = a
    BY <1>10, <2>1, <2>5, <2>6, <2>7
  <2>9. Eval(pad, z) = a
    BY <1>12, <2>2, <2>3
  <2> QED  BY <2>2, <2>8, <2>9
<1>14. u = pad
  BY <1>1, <1>2, <1>10, <1>12, <1>13, CosetPointsAre, SameValues
<1>15. QuotientOf(cs) = q
  <2>1. PICK s : s = QuotientOf(cs)
    OBVIOUS
  <2>2. s \in Vector(d * n)
    BY <1>1, <2>1, ValuesAre
  <2>3. \A k \in 1..(d * n) : s[k] = u[k]
    BY <1>1, <1>8, <1>9, <2>1, ExtendedToCoeffIs DEF QuotientOf
  <2>4. \A k \in 1..(d * n) : k \in 1..l /\ k <= d * n
    BY <1>2, <1>4
  <2>5. \A k \in 1..(d * n) : s[k] = q[k]
    BY <1>12, <1>14, <2>3, <2>4
  <2> QED  BY <1>3, <2>1, <2>2, <2>5, SameVector
<1> QED  BY <1>1, <1>7, <1>15

\* A check passes where the committed quotient times x^n - 1 is the gate's value.
LEMMA AcceptsIs ==
    ASSUME IInv, stage = "constructed", NEW x \in Scalars, Power(x, n) # 1
    PROVE  Accepts(x) <=> Times(Eval(QuotientOf(columns), x), Minus(Power(x, n), 1))
                              = Eval(GatePoly(columns), x)
<1>1. PICK cs, d, q : cs = columns /\ d = QuotientPolyDegree /\ q = QuotientOf(cs)
  OBVIOUS
<1>2. cs \in Columns /\ pieces.values = Pieces(q)
  BY <1>1 DEF IInv, Drawn, PiecesHeld
<1>3. q \in Vector(d * n) /\ d \in Nat /\ n \in Nat /\ 1 \in Scalars
  BY <1>1, <1>2, ValuesAre, SizesAre, Closed
<1>4. PICK y : y = Power(x, n)
  OBVIOUS
<1>5. y \in Scalars /\ y # 1
  BY <1>3, <1>4, PowerIs
<1>6. PICK segs : segs = Segments(q, n, d)
  OBVIOUS
<1>7. pieces.values = segs /\ segs \in Polynomials(d, n)
  BY <1>1, <1>2, <1>3, <1>6, PiecesAre
<1>8. FoldedOnHost(segs, y) = FoldOf(segs, d, y)
  BY <1>3, <1>5, <1>7, FoldedIs
<1>9. Eval(q, x) = Eval(FoldOf(segs, d, y), x)
  BY <1>3, <1>4, <1>6, SegmentsFold
<1>10. Eval(HCommitment(x), x) = Eval(q, x)
  BY <1>4, <1>7, <1>8, <1>9 DEF HCommitment
<1>11. PICK a, g, c : a = Eval(q, x) /\ g = Eval(GatePoly(cs), x) /\ c = Minus(y, 1)
  OBVIOUS
<1>12. d * n \in Nat /\ (d + 1) * n \in Nat
  BY <1>3
<1>13. a \in Scalars /\ g \in Scalars /\ c \in Scalars /\ c # 0
  <2>1. PICK m : m = (d + 1) * n
    OBVIOUS
  <2>2. m \in Nat /\ GatePoly(cs) \in Vector(m)
    BY <1>1, <1>2, <1>12, <2>1, GateIs
  <2>3. g \in Scalars
    BY <1>11, <2>2, EvalIs
  <2>4. PICK k : k = d * n
    OBVIOUS
  <2>5. k \in Nat /\ q \in Vector(k)
    BY <1>3, <1>12, <2>4
  <2>6. a \in Scalars
    BY <1>11, <2>5, EvalIs
  <2> QED  BY <1>3, <1>5, <1>11, <2>3, <2>6, Closed, MinusZero
<1>14. ExpectedHEval(x) = Times(g, Inverted(c))
  BY <1>1, <1>4, <1>11, GateEvals DEF ExpectedHEval
<1>15. Accepts(x) <=> a = Times(g, Inverted(c))
  BY <1>10, <1>11, <1>14 DEF Accepts
<1>16. Times(Times(g, Inverted(c)), c) = g
  BY <1>13, TimesInvert
<1>17. Times(Times(a, c), Inverted(c)) = a
  <2>1. Inverted(c) \in Scalars /\ Times(c, Inverted(c)) = 1
    BY <1>13, TimesInvert
  <2>2. Times(Times(a, c), Inverted(c)) = Times(a, Times(c, Inverted(c))) /\ Times(a, 1) = a
    BY <1>13, <2>1, Laws
  <2> QED  BY <2>1, <2>2
<1>18. a = Times(g, Inverted(c)) <=> Times(a, c) = g
  BY ONLY <1>16, <1>17
<1> QED  BY ONLY <1>1, <1>4, <1>11, <1>15, <1>18

\* A gate that fails on a row: few challenges pass.
LEMMA FewPass ==
    ASSUME NEW cs \in Columns, NEW r \in 1..n, Rows(cs)[r] # 0, NEW S \in SUBSET Scalars,
           \A x \in S : Times(Eval(QuotientOf(cs), x), Minus(Power(x, n), 1)) = Eval(GatePoly(cs), x)
    PROVE  Cardinality(S) < (QuotientPolyDegree + 1) * n
<1>1. PICK d, q, g, l : /\ d = QuotientPolyDegree /\ q = QuotientOf(cs) /\ g = GatePoly(cs)
                        /\ l = (d + 1) * n
  OBVIOUS
<1>2. d \in Nat /\ n \in Nat /\ l \in Nat /\ 1 \in Scalars /\ q \in Vector(d * n) /\ g \in Vector(l)
  <2>1. d \in Nat /\ n \in Nat
    BY <1>1, SizesAre
  <2>2. l \in Nat
    BY <1>1, <2>1
  <2> QED  BY <1>1, <2>1, <2>2, ValuesAre, GateIs, Closed
<1>3. PICK w \in Vector(l) :
          \A x \in Scalars : Eval(w, x) = Minus(Times(Eval(q, x), Minus(Power(x, n), 1)), Eval(g, x))
  BY <1>1, <1>2, TimesVanishing
<1>4. ASSUME NEW x \in Scalars PROVE Eval(q, x) \in Scalars /\ Eval(g, x) \in Scalars
  <2>1. PICK k : k = d * n /\ k \in Nat
    BY <1>2
  <2>2. q \in Vector(k)
    BY <1>2, <2>1
  <2> QED  BY <1>2, <2>1, <2>2, EvalIs
<1>5. ASSUME NEW x \in S PROVE Eval(w, x) = 0
  <2>1. Eval(w, x) = Minus(Eval(g, x), Eval(g, x)) /\ Eval(g, x) \in Scalars
    BY <1>1, <1>3, <1>4
  <2> QED  BY <2>1, MinusZero
<1>6. \E k \in 1..l : w[k] # 0
  <2>1. SUFFICES ASSUME \A k \in 1..l : w[k] = 0 PROVE FALSE
    OBVIOUS
  <2>2. PICK z : z = Power(Omega, r - 1)
    OBVIOUS
  <2>3. z \in Scalars /\ Power(z, n) = 1
    BY <2>2, DomainPointsAre DEF Vector
  <2>4. Eval(w, z) = 0
    BY <1>2, <1>3, <2>1, <2>3, EvalZero
  <2>5. PICK a, b : a = Eval(q, z) /\ b = Eval(g, z)
    OBVIOUS
  <2>6. a \in Scalars /\ b \in Scalars
    BY <1>4, <2>3, <2>5
  <2>7. Minus(1, 1) = 0 /\ Times(a, 0) = 0
    BY <1>2, <2>6, MinusZero, TimesZero
  <2>8. Eval(w, z) = Minus(0, b)
    BY <1>3, <2>3, <2>5, <2>7
  <2>9. b = 0
    BY <2>4, <2>6, <2>8, MinusZero, Closed
  <2>10. b # 0
    BY <1>1, <2>2, <2>5, RowsOfColumns
  <2> QED  BY <2>9, <2>10
<1> QED  BY <1>1, <1>2, <1>3, <1>5, <1>6, RootCount

LEMMA VerdictHolds == IInv => AcceptsExactlyVanishing
<1> SUFFICES ASSUME IInv PROVE AcceptsExactlyVanishing
  OBVIOUS
<1>1. stage = "done" => (accepted <=> Accepts(point))
  BY DEF IInv, Answered
<1>2. ASSUME stage = "constructed"
      PROVE  LET outside == {x \in Scalars : Power(x, n) # 1}
             IN  IF \A r \in 1..n : Rows(columns)[r] = 0 THEN \A x \in outside : Accepts(x)
                 ELSE Cardinality({x \in outside : Accepts(x)}) < (QuotientPolyDegree + 1) * n
  <2> DEFINE outside == {x \in Scalars : Power(x, n) # 1}
  <2>1. columns \in Columns
    BY DEF IInv, Drawn
  <2>2. ASSUME \A r \in 1..n : Rows(columns)[r] = 0, NEW x \in outside PROVE Accepts(x)
    <3>1. x \in Scalars /\ Power(x, n) # 1
      BY <2>2
    <3>2. Times(Eval(QuotientOf(columns), x), Minus(Power(x, n), 1)) = Eval(GatePoly(columns), x)
      BY <2>1, <2>2, <3>1, QuotientExact
    <3> QED  BY <1>2, <3>1, <3>2, AcceptsIs
  <2>3. ASSUME ~\A r \in 1..n : Rows(columns)[r] = 0
        PROVE  Cardinality({x \in outside : Accepts(x)}) < (QuotientPolyDegree + 1) * n
    <3>1. PICK S : S = {x \in outside : Accepts(x)}
      OBVIOUS
    <3>2. S \in SUBSET Scalars
      BY <3>1
    <3>3. \A x \in S : Times(Eval(QuotientOf(columns), x), Minus(Power(x, n), 1)) = Eval(GatePoly(columns), x)
      BY <1>2, <3>1, AcceptsIs
    <3>4. PICK r \in 1..n : Rows(columns)[r] # 0
      BY <2>3
    <3> QED  BY <2>1, <3>1, <3>2, <3>3, <3>4, FewPass
  <2> QED  BY <2>2, <2>3
<1> QED  BY <1>1, <1>2 DEF AcceptsExactlyVanishing

\* A gate that holds on every row is accepted at every challenge outside the domain,
\* one that does not at fewer than its degree allows, and the prover's opening
\* decides as the verifier's commitment does (vanishing/prover.rs, verifier.rs).
THEOREM AcceptedIffVanishing == Spec => []AcceptsExactlyVanishing
  BY FormsOfOnePolynomial, VerdictHolds, PTL

================================================================================
