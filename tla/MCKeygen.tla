-------------------------------- MODULE MCKeygen --------------------------------
(* Small circuits for Keygen: configurations in every order, selectors of several *)
(* degrees, fixed columns of fractions, and configurations that panic or fail.    *)
EXTENDS Keygen

Op(name)           == [op |-> name]
Advice(c, at)      == Cell("advice", c, at)
Fixed(c)           == Cell("fixed", c, 0)
Gate(eager, polys) == [op |-> "create_gate", eager |-> eager, polys |-> polys]
Sum(terms)         == Poly(NoGuard, terms)
AdviceIn(phase)    == [op |-> "advice_column", phase |-> phase]
Minimum(d)         == [op |-> "set_minimum_degree", degree |-> d]
Enable(kind, c)    == [op |-> "enable_equality", column |-> <<kind, c>>]
Times(n, x)        == [i \in 1..n |-> x]

Circuit(script, simple, rows, columns) ==
    [script |-> script, simple |-> simple, rows |-> rows, fixed |-> columns]

\* A gate of the given degree under a simple selector.
Guarded(s, d) ==
    Gate(<<>>, << Poly(Simple(s), << Times(d - 1, Advice(1, 0)), <<>> >>) >>)

SelectorCircuit(degrees, minimum, rest, rows) ==
    Circuit(<<AdviceIn(0)>> \o Times(Len(degrees), Op("selector"))
              \o [s \in DOMAIN degrees |-> Guarded(s, degrees[s])]
              \o <<Minimum(minimum)>> \o rest, DOMAIN degrees, rows, {})

Input(s) == Sum(<< <<Selector(s), Advice(1, 1)>> >>)

SelectorCircuits ==
    {SelectorCircuit(<<2, 2, 3>>, 5, <<>>, {1, 2, 10, 11}),
     SelectorCircuit(<<3, 2, 4>>, 1, <<>>, {1, 10}),
     \* a complex selector of a lookup, one of no gate, two gates of one selector
     SelectorCircuit(<<2, 3>>, 1,
        <<Op("selector"), Op("selector"), Op("fixed_column"), Guarded(1, 4),
          [op |-> "lookup", pairs |-> << <<Input(3), 1>> >>]>>, {1, 10}),
     \* beyond the cap
     SelectorCircuit(<<6, 2>>, 1, <<>>, {1}),
     SelectorCircuit(<<2>>, 1,
        <<[op |-> "lookup_any",
           pairs |-> << <<Poly(Simple(1), << <<Advice(1, 0)>> >>), Sum(<< <<Advice(1, 0)>> >>)>> >>]>>,
        {1})}

\* Four calls whose order decides the order of the queries.
Orders ==
    {<<Gate(<<Advice(2, 1)>>, <<Sum(<< <<Advice(1, 0), Fixed(1)>>, <<Advice(1, 1)>> >>),
                                Poly(Simple(1), << <<Cell("instance", 1, 0)>> >>)>>),
       [op |-> "lookup", pairs |-> << <<Sum(<< <<Advice(2, -1)>> >>), 2>> >>],
       [op |-> "lookup_any", pairs |-> << <<Sum(<< <<Selector(2), Fixed(2)>> >>),
                                            Sum(<< <<Advice(1, 0)>>, <<Fixed(1)>> >>)>> >>],
       Enable("advice", 2), [op |-> "enable_constant", column |-> 1]>>}

Permuted(s) == {[i \in DOMAIN s |-> s[f[i]]] : f \in Permutations(DOMAIN s)}

OrderCircuits ==
    {Circuit(<<AdviceIn(0), AdviceIn(1), [op |-> "challenge_usable_after", phase |-> 0],
               Op("fixed_column"), Op("fixed_column"), Op("instance_column"),
               Op("selector"), Op("selector"), Enable("instance", 1)>> \o calls
               \o <<Enable("instance", 1), [op |-> "enable_constant", column |-> 1]>>, {1}, {}, {})
       : calls \in UNION {Permuted(s) : s \in Orders}}

FixedCircuits == {Circuit(<<Op("fixed_column")>>, {}, {3, 10, 11}, {1})}

PanickingCircuits ==
    {Circuit(script, {1}, {}, {}) : script \in
        {<<AdviceIn(1)>>, <<[op |-> "challenge_usable_after", phase |-> 0]>>,
         <<Gate(<<>>, <<>>)>>,
         <<AdviceIn(0), Op("selector"), Op("fixed_column"),
           [op |-> "lookup", pairs |-> << <<Poly(Simple(1), << <<Advice(1, 0)>> >>), 1>> >>]>>,
         \* twelve rotations of a column leave no usable row
         <<AdviceIn(0), Gate([i \in 1..12 |-> Advice(1, i)], <<Sum(<< <<Advice(1, 0)>> >>)>>)>>}}

MCCircuits == SelectorCircuits \cup OrderCircuits \cup FixedCircuits \cup PanickingCircuits

MCLiterals == {Zero, Trivial(2), Rational(3, 0), Rational(2, 3)}
==============================================================================
