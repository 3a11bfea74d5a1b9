------------------------------ MODULE MCQuotient ------------------------------
(* Eight rows, two cosets, the field of 97. The first circuits have one gate each, *)
(* over every pair of a few operands, so that every simplification of the          *)
(* compiler meets every other; the others are larger: lookups of one and two       *)
(* columns, gates of several rotations and polynomials, two permutation sets of    *)
(* which the last is partial, no fixed columns. Two read three rows back, which    *)
(* batches of two rows do not get right and batches of four and eight must.        *)
EXTENDS Quotient

MCColumn(seed) == [k \in 1..8 |-> (seed * seed * (k + 2) + 31 * k + seed) % 97]

MCPolys(fixed, columns, lookups) ==
    [fixed    |-> [c \in 1..fixed |-> MCColumn(c)],
     advice   |-> [c \in 1..2 |-> MCColumn(c + 10)],
     instance |-> <<MCColumn(21)>>,
     sigma    |-> [c \in 1..columns |-> MCColumn(c + 30)],
     z        |-> [j \in 1..((columns + 1) \div 2) |-> MCColumn(40 + j)],
     lookups  |-> [k \in 1..lookups |-> [a |-> MCColumn(k + 50), s |-> MCColumn(k + 60),
                                         z |-> MCColumn(k + 70)]]]

F(r) == <<"fixed", 0, r>>
A(r) == <<"advice", 0, r>>
B(r) == <<"advice", 1, r>>
I(r) == <<"instance", 0, r>>
K(c) == <<"const", c>>
Neg(e)    == <<"neg", e>>
Sum2(a, b) == <<"sum", a, b>>
Prod(a, b) == <<"prod", a, b>>
Scaled(e, c) == <<"scaled", e, c>>

Operands == {K(0), K(1), K(2), Neg(K(2)), A(0), Neg(B(-1)), Scaled(A(1), 3)}

Pairs == {Sum2(a, b) : a, b \in Operands} \cup {Prod(a, b) : a, b \in Operands}
         \cup {Neg(Sum2(a, K(0))) : a \in Operands} \cup {Scaled(K(5), c) : c \in 0..2}

SmallCircuits ==
    {[gates |-> << <<e>> >>, lookups |-> <<>>, columns |-> <<>>, polys |-> MCPolys(1, 0, 0)]
        : e \in Pairs}

Gates == << <<Prod(F(0), Sum2(Prod(A(0), B(1)), Neg(A(-2)))),
              Sum2(Prod(A(0), A(0)), Neg(Prod(B(1), A(0))))>>,
            <<Sum2(Scaled(Prod(I(1), A(2)), 7), <<"challenge", 0>>)>> >>

Lookups == <<[inputs |-> <<Prod(F(0), A(1)), B(0)>>, tables |-> <<F(0), <<"fixed", 1, -1>> >>],
             [inputs |-> <<Sum2(B(-2), Neg(A(1)))>>, tables |-> <<K(3)>>]>>

LargeCircuits ==
    {[gates |-> Gates, lookups |-> Lookups,
      columns |-> << <<"advice", 0>>, <<"fixed", 1>>, <<"instance", 0>> >>,
      polys |-> MCPolys(2, 3, 2)],
     [gates |-> << <<Prod(A(0), B(-3))>> >>, lookups |-> <<>>,
      columns |-> << <<"advice", 1>>, <<"advice", 0>> >>, polys |-> MCPolys(0, 2, 0)],
     [gates |-> << <<A(0)>> >>,
      lookups |-> <<[inputs |-> <<Sum2(B(-3), A(1))>>, tables |-> <<A(2)>>]>>,
      columns |-> <<>>, polys |-> MCPolys(0, 0, 1)]}

MCCircuits == SmallCircuits \cup LargeCircuits
MCScalars  == [theta |-> 5, beta |-> 11, gamma |-> 23, y |-> 42, challenges |-> <<77>>]
===============================================================================
