----------------------------- MODULE MCMultiopen -----------------------------
(* Four polynomials over the field of 13 elements, on the domain 1, 5, 12, 8: a   *)
(* witness column at two points, one at one point, a product at three.            *)
EXTENDS Multiopen

MCField == 0..12
MCPlus(a, b) == (a + b) % 13
MCTimes(a, b) == (a * b) % 13
MCNegative(a) == (-a) % 13
MCInvert(a) == CHOOSE b \in MCField : MCTimes(a, b) = 1

MCCoeffs == [a |-> <<3, 1, 4, 1>>, b |-> <<5, 9, 2, 6>>, c |-> <<12, 0, 7, 10>>, z |-> <<8, 0, 0, 11>>]

Ask(com, at) == [com |-> com, at |-> at]

Interleaved == <<Ask("a", 0), Ask("b", 0), Ask("a", 1), Ask("c", 1), Ask("c", 0)>>
WithProduct == <<Ask("b", 1), Ask("z", 0), Ask("z", 1), Ask("z", 3), Ask("a", 0)>>

MCStatements ==
    {[queries |-> qs, x |-> 2, error |-> e] :
        qs \in {Interleaved, WithProduct},
        e \in {<<0, 0, 0, 0, 0>>, <<0, 0, 0, 6, 0>>, <<2, 0, 1, 0, 9>>}}
==============================================================================
