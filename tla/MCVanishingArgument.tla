------------------------- MODULE MCVanishingArgument --------------------------
(* Eight rows, four cosets and three pieces in the field of 97: the extended      *)
(* vector is longer than the quotient, so the truncation drops a piece, and a     *)
(* transform splits by two or by four. The gate is a selector by a range check of *)
(* three values, of degree four; two of the six circuits satisfy it.              *)
EXTENDS VanishingArgument

MCGate(row) ==
    Times(row[1], Times(row[2], Times(Minus(row[2], 1), Minus(row[2], 2))))

MCColumns ==
    {<<q, a>> : q \in {<<1, 1, 1, 1, 1, 1, 1, 1>>, <<1, 0, 1, 1, 0, 1, 1, 96>>},
                a \in {<<0, 1, 2, 1, 2, 2, 0, 1>>, <<2, 96, 1, 0, 41, 1, 1, 0>>,
                       <<2, 1, 0, 50, 7, 8, 9, 10>>}}

\* The gate's coefficients: the product of the factors', over the columns' own.
MCProduct(a, b) ==
    Whole([k \in 1..(Len(a) + Len(b) - 1) |->
        FoldLeft(LAMBDA sum, i : IF k - i + 1 \in 1..Len(b)
                                 THEN Plus(sum, Times(a[i], b[k - i + 1])) ELSE sum,
                 0, [i \in 1..Len(a) |-> i])])

MCGatePoly(cs) ==
    LET q == LagrangeToCoeff(cs[1], Fits)
        a == LagrangeToCoeff(cs[2], Fits)
        less(c) == [a EXCEPT ![1] = Minus(@, c)]
    IN  PaddedTo(MCProduct(MCProduct(q, a), MCProduct(less(1), less(2))),
                 (QuotientPolyDegree + 1) * n)
===============================================================================
