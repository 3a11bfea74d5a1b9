----------------------------- MODULE AssignedCells -----------------------------
(* Cells whose inversion is put off: zero, a field element, or a fraction, where *)
(* x/0 stands for zero. Their arithmetic (plonk/assigned.rs), and the two ways a *)
(* matrix of them is evaluated with one batch of inversions: the host's, over    *)
(* the non-trivial denominators cut in chunks for its threads, and the device's, *)
(* over all of them, each thread of the kernel inverting a group.                *)
(*                                                                               *)
(* The field is the integers modulo a prime.                                     *)
EXTENDS Integers, Sequences, SequencesExt, Listing

CONSTANTS
    Prime,      \* the field's order
    Threads,    \* of the host's pool
    PerThread   \* elements a thread of the inversion kernel takes

Field == 0..(Prime - 1)

ASSUME AssignedAssumption ==
    /\ Prime \in Nat \ {0, 1} /\ Threads \in Nat \ {0} /\ PerThread \in Nat \ {0}
    /\ \A x \in Field \ {0} : \E y \in Field : (x * y) % Prime = 1

\* The inverse of the field library; 0 for 0, as batch inversion leaves it.
FieldInverse[x \in Field] ==
    IF x = 0 THEN 0 ELSE CHOOSE y \in Field : (x * y) % Prime = 1

(* ---------------------------------- cells --------------------------------- *)

Zero           == <<"zero">>
Trivial(x)     == <<"trivial", x>>
Rational(n, d) == <<"rational", n, d>>
Assigned ==
    {Zero} \cup {Trivial(x) : x \in Field} \cup {Rational(n, d) : n, d \in Field}

IsRational(a)  == a[1] = "rational"
Numerator(a)   == IF a = Zero THEN 0 ELSE a[2]
Denominator(a) == IF IsRational(a) THEN a[3] ELSE 1
IsZero(a)      == Numerator(a) = 0 \/ Denominator(a) = 0

Neg(a) == IF a = Zero THEN Zero ELSE [a EXCEPT ![2] = (-@) % Prime]

\* A fraction, unless neither operand was one.
Fraction(a, b, n, d) ==
    IF IsRational(a) \/ IsRational(b) THEN Rational(n % Prime, d % Prime) ELSE Trivial(n % Prime)

\* Mutant: x/0 added by cross-multiplication takes the other summand with it.
AddFractions(a, b) ==
    IF a = Zero THEN b ELSE IF b = Zero THEN a
    ELSE Fraction(a, b, Numerator(a) * Denominator(b) + Denominator(a) * Numerator(b),
                        Denominator(a) * Denominator(b))

\* x/0 is zero: adding it leaves the other summand.
Add(a, b) ==
    IF a = Zero \/ (b # Zero /\ Denominator(a) = 0) THEN b
    ELSE IF b = Zero \/ Denominator(b) = 0 THEN a
    ELSE Fraction(a, b, Numerator(a) * Denominator(b) + Denominator(a) * Numerator(b),
                        Denominator(a) * Denominator(b))

Sub(a, b) == Add(a, Neg(b))

Mul(a, b) ==
    IF Zero \in {a, b} THEN Zero
    ELSE Fraction(a, b, Numerator(a) * Numerator(b), Denominator(a) * Denominator(b))

Double(a) == IF a = Zero THEN Zero ELSE [a EXCEPT ![2] = (2 * @) % Prime]
Square(a) == Mul(a, a)
Cube(a)   == Mul(Square(a), a)

Invert(a) == IF a = Zero THEN Zero ELSE Rational(Denominator(a), Numerator(a))

\* Equality by cross-multiplication; every form of zero is equal to every other.
Equal(a, b) ==
    IF IsZero(a) \/ IsZero(b) THEN IsZero(a) /\ IsZero(b)
    ELSE (Numerator(a) * Denominator(b)) % Prime = (Denominator(a) * Numerator(b)) % Prime

Evaluate(a) == (Numerator(a) * FieldInverse[Denominator(a)]) % Prime

(* ------------------------------ batch inversion --------------------------- *)

\* The prefix products of a sequence, and the element-by-element unwinding of the
\* inverse of the last one: Montgomery's trick, for a sequence without zeros.
Products(s) ==
    LET product[i \in 0..Len(s)] == IF i = 0 THEN 1 ELSE (product[i - 1] * s[i]) % Prime
    IN product

Unwound(s) ==
    LET product == Products(s)
        suffix[i \in 0..Len(s)] ==      \* the inverse of product[i]
            IF i = Len(s) THEN FieldInverse[product[i]] ELSE (suffix[i + 1] * s[i + 1]) % Prime
    IN [i \in 1..Len(s) |-> (suffix[i] * product[i - 1]) % Prime]

\* ff's batch_invert: the zeros of the chunk are skipped, and stay.
BatchInvert(s) == [i \in DOMAIN s |-> FieldInverse[s[i]]]

\* The rows of a matrix of cells, the columns one after another.
Flat(columns) == FlattenSeq(columns)

Columns(values, n) ==
    [c \in 1..(Len(values) \div n) |-> SubSeq(values, (c - 1) * n + 1, c * n)]

IndexIn(s, x) == CHOOSE k \in DOMAIN s : s[k] = x

\* The cells' denominators at the given places, inverted in as many chunks as the
\* pool has threads.
ChunksInverted(cells, places) ==
    LET size == (Len(places) + Threads - 1) \div Threads
        chunk(t) == SubSeq(places, (t - 1) * size + 1,
                           IF t * size < Len(places) THEN t * size ELSE Len(places))
    IN FlattenSeq([t \in 1..Threads |->
           BatchInvert([k \in DOMAIN chunk(t) |-> Denominator(cells[chunk(t)[k]])])])

\* The host: the denominators of the fractions, and of no other cell, are inverted.
HostEvaluated(columns) ==
    LET cells == Flat(columns)
        fractions == Places({i \in DOMAIN cells : IsRational(cells[i])}, Len(cells))
        inverted == ChunksInverted(cells, fractions)
        value(i) == IF IsRational(cells[i])
                    THEN (Numerator(cells[i]) * inverted[IndexIn(fractions, i)]) % Prime
                    ELSE Numerator(cells[i])
    IN IF columns = <<>> THEN <<>>
       ELSE Columns([i \in DOMAIN cells |-> value(i)], Len(columns[1]))

\* A thread of the kernel: it gathers the group's nonzero elements, inverts their
\* product once and scatters backwards, leaving the zeros alone.
KernelGroup(values, first) ==
    LET nonzero == {i \in first..(first + PerThread - 1) : i \in DOMAIN values /\ values[i] # 0}
        group == Places(nonzero, Len(values))
        inverses == Unwound([k \in DOMAIN group |-> values[group[k]]])
    IN [i \in DOMAIN values |->
          IF i \in nonzero THEN inverses[IndexIn(group, i)] ELSE values[i]]

KernelInvert(values) ==
    LET groups == (Len(values) + PerThread - 1) \div PerThread
        after[t \in 0..groups] ==
            IF t = 0 THEN values ELSE KernelGroup(after[t - 1], (t - 1) * PerThread + 1)
    IN after[groups]

\* A trivial cell is decoded to a denominator of one; the columns' denominators lie
\* one after another in one buffer, each at col_idx * n.
DecodedDenominators(columns) ==
    [i \in DOMAIN Flat(columns) |-> Denominator(Flat(columns)[i])]

\* The device: one inversion of the buffer, then a product for each column.
DeviceEvaluated(columns) ==
    LET n == Len(columns[1])
        inverses == KernelInvert(DecodedDenominators(columns))
    IN IF columns = <<>> THEN <<>>
       ELSE [c \in DOMAIN columns |->
               [r \in 1..n |-> (Numerator(columns[c][r]) * inverses[(c - 1) * n + r]) % Prime]]
==============================================================================
