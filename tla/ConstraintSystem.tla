--------------------------- MODULE ConstraintSystem ---------------------------
(* The constraint system a circuit's configuration builds (plonk/circuit.rs):    *)
(* its columns, queries, gates and lookups, the degree and the row count derived *)
(* from them, and the three ways it is rewritten: selectors compressed into few  *)
(* fixed columns, selectors turned into a column each, and the conversion from   *)
(* the canonical system into the prover's fork.                                  *)
(*                                                                               *)
(* A polynomial is a guard times a sum of products: the guard is the simple      *)
(* selector that multiplies it, if any (a simple selector may stand nowhere      *)
(* else: Expression's + and * panic), or the column that has replaced it; a      *)
(* factor is a queried cell or a complex selector. Indices count from 1.         *)
EXTENDS Integers, Sequences, SequencesExt, FiniteSetsExt

CONSTANT MaxDegreeCap    \* the MAX_DEGREE environment variable, 5 by default

ASSUME ConstraintSystemAssumption == MaxDegreeCap \in Nat \ {0}

None == 0                \* the index of a cell not queried yet

Cell(kind, column, at) == [kind |-> kind, column |-> column, at |-> at, index |-> None]
Selector(s)            == [kind |-> "selector", column |-> s, at |-> 0, index |-> None]
IsCell(f)              == f.kind # "selector"

NoGuard   == [kind |-> "none", column |-> 0, root |-> 0, size |-> 0, index |-> None]
Simple(s) == [NoGuard EXCEPT !.kind = "simple", !.column = s]
Poly(guard, terms) == [guard |-> guard, terms |-> terms]

EmptySystem ==
    [fixed |-> 0, advice |-> <<>>, instance |-> 0,  \* columns; of advice, their phases
     selectors |-> 0, challenges |-> <<>>,          \* of challenges, their phases
     queries |-> [fixed |-> <<>>, advice |-> <<>>, instance |-> <<>>],
     advice_counts |-> <<>>,
     gates |-> <<>>,                                \* each a sequence of polynomials
     lookups |-> <<>>,                              \* each a sequence of <<input, table>>
     permutation |-> <<>>, constants |-> <<>>, selector_map |-> <<>>,
     minimum |-> None]

(* --------------------------------- columns -------------------------------- *)

FixedColumn(cs)    == [cs EXCEPT !.fixed = @ + 1]
InstanceColumn(cs) == [cs EXCEPT !.instance = @ + 1]
NewSelector(cs)    == [cs EXCEPT !.selectors = @ + 1]

PhaseExists(cs, phase) == \E c \in DOMAIN cs.advice : cs.advice[c] = phase

AdviceColumn(cs, phase) ==
    [cs EXCEPT !.advice = Append(@, phase), !.advice_counts = Append(@, 0)]

Challenge(cs, phase) == [cs EXCEPT !.challenges = Append(@, phase)]

(* --------------------------------- queries -------------------------------- *)

Position(cs, kind, column, at) ==
    SelectInSeq(cs.queries[kind], LAMBDA q : q = <<column, at>>)

AppendQuery(cs, kind, column, at) == [cs EXCEPT !.queries[kind] = Append(@, <<column, at>>)]

QueryAdvice(cs, column, at) ==
    [AppendQuery(cs, "advice", column, at) EXCEPT !.advice_counts[column] = @ + 1]

\* An existing query is found again, a new one appended.
Query(cs, kind, column, at) ==
    IF Position(cs, kind, column, at) # 0 THEN cs
    ELSE IF kind = "advice" THEN QueryAdvice(cs, column, at) ELSE AppendQuery(cs, kind, column, at)

QueryFactor(cs, f) == IF IsCell(f) THEN Query(cs, f.kind, f.column, f.at) ELSE cs

\* Querying what stands in expressions, from left to right.
QueryCells(cs, factors) ==
    LET after[i \in 0..Len(factors)] ==
            IF i = 0 THEN cs ELSE QueryFactor(after[i - 1], factors[i])
    IN after[Len(factors)]

Named(p) == FlattenSeq(p.terms)

\* The position of each query: lists only grow, so a query keeps the one it was given.
AssignIndices(cs, p) ==
    [guard |-> IF p.guard.kind = "column"
               THEN [p.guard EXCEPT !.index = Position(cs, "fixed", p.guard.column, 0)] ELSE p.guard,
     terms |-> [t \in DOMAIN p.terms |-> [i \in DOMAIN p.terms[t] |->
                  LET f == p.terms[t][i]
                  IN IF IsCell(f) THEN [f EXCEPT !.index = Position(cs, f.kind, f.column, f.at)]
                     ELSE f]]]

(* ------------------------------ configuration ----------------------------- *)

\* Mutant: the column joins the permutation unqueried.
EqualityUnqueried(cs, column) ==
    IF Contains(cs.permutation, column) THEN cs ELSE [cs EXCEPT !.permutation = Append(@, column)]

EnableEquality(cs, column) ==
    LET queried == Query(cs, column[1], column[2], 0)
    IN IF Contains(cs.permutation, column) THEN queried
       ELSE [queried EXCEPT !.permutation = Append(@, column)]

EnableConstant(cs, column) ==
    IF Contains(cs.constants, column) THEN cs
    ELSE EnableEquality([cs EXCEPT !.constants = Append(@, column)], <<"fixed", column>>)

SetMinimumDegree(cs, degree) == [cs EXCEPT !.minimum = degree]

\* The closure's own queries (VirtualCells) come first, whether or not the constraints
\* use them.
CreateGate(cs, eager, polys) ==
    LET done == QueryCells(cs, eager \o FlattenSeq([i \in DOMAIN polys |-> Named(polys[i])]))
    IN [done EXCEPT !.gates = Append(@, [i \in DOMAIN polys |-> AssignIndices(done, polys[i])])]

ContainsSimple(p) == p.guard.kind = "simple"

AddLookup(cs, pairs) ==
    [cs EXCEPT !.lookups = Append(@, [i \in DOMAIN pairs |->
        <<AssignIndices(cs, pairs[i][1]), AssignIndices(cs, pairs[i][2])>>])]

\* Against table columns: a pair's table is queried first.
Lookup(cs, pairs) ==
    LET table(i) == Poly(NoGuard, << <<Cell("fixed", pairs[i][2], 0)>> >>)
        named(i) == Named(table(i)) \o Named(pairs[i][1])
    IN AddLookup(QueryCells(cs, FlattenSeq([i \in DOMAIN pairs |-> named(i)])),
                 [i \in DOMAIN pairs |-> <<pairs[i][1], table(i)>>])

\* Against expressions: a pair's input is queried first.
LookupAny(cs, pairs) ==
    LET named(i) == Named(pairs[i][1]) \o Named(pairs[i][2])
    IN AddLookup(QueryCells(cs, FlattenSeq([i \in DOMAIN pairs |-> named(i)])), pairs)

(* ------------------------------ derived sizes ----------------------------- *)

GuardDegree(g) == CASE g.kind = "none" -> 0 [] g.kind = "simple" -> 1 [] OTHER -> g.size

PolyDegree(p) == GuardDegree(p.guard) + Max({0} \cup {Len(t) : t \in ToSet(p.terms)})

GatePolys(cs) == FlattenSeq(cs.gates)

LookupDegree(lookup) ==
    LET widest(i) == Max({1} \cup {PolyDegree(pair[i]) : pair \in ToSet(lookup)})
    IN Max({4, 2 + widest(1) + widest(2)})

PermutationDegree == 3

RequiredDegree(cs) ==
    Max({PermutationDegree} \cup {LookupDegree(l) : l \in ToSet(cs.lookups)}
                            \cup {PolyDegree(p) : p \in ToSet(GatePolys(cs))})

\* What the arguments need, capped by the environment, raised to the circuit's minimum.
Degree(cs) ==
    Max({Min({RequiredDegree(cs), MaxDegreeCap}), IF cs.minimum = None THEN 1 ELSE cs.minimum})

BlindingFactors(cs) == Max({3} \cup ToSet(cs.advice_counts)) + 2

MinimumRows(cs) == BlindingFactors(cs) + 3

(* ------------------------- rewriting the selectors ------------------------ *)
(* A replacement of a selector is <<column, root, size, index>>: the polynomial   *)
(* q * Prod_{i in 1..size, i # root} (i - q) of the column q.                     *)

\* A fresh column for selectors, queried where it stands.
Allocate(cs) ==
    LET grown == FixedColumn(cs) IN Query(grown, "fixed", grown.fixed, 0)

Replacement(cs, root, size) ==
    <<cs.fixed, root, size, Position(cs, "fixed", cs.fixed, 0)>>

\* The largest degree of the gates a simple selector guards; zero for the others.
SelectorDegree(cs, s) ==
    Max({0} \cup {PolyDegree(p) : p \in {q \in ToSet(GatePolys(cs)) : q.guard = Simple(s)}})

Excluded(activations, s, t) == activations[s] \cap activations[t] # {}

\* Mutants: only the first selector of the combination is tested for exclusion; the
\* joining selector is not counted.
JoinsFirst(activations, degrees, limit, combination, s) ==
    LET d == Max({degrees[t] - 1 : t \in ToSet(combination)})
    IN /\ ~ Excluded(activations, s, combination[1])
       /\ Max({d, degrees[s] - 1}) + Len(combination) + 1 <= limit

JoinsUncounted(activations, degrees, limit, combination, s) ==
    LET d == Max({degrees[t] - 1 : t \in ToSet(combination)})
    IN /\ \A t \in ToSet(combination) : ~ Excluded(activations, s, t)
       /\ Max({d, degrees[s] - 1}) + Len(combination) <= limit

\* May selector s join the selectors of a combination, whose gates need degree d
\* without their virtual selector?
Joins(activations, degrees, limit, combination, s) ==
    LET d == Max({degrees[t] - 1 : t \in ToSet(combination)})
    IN /\ d + Len(combination) # limit
       /\ \A t \in ToSet(combination) : ~ Excluded(activations, s, t)
       /\ Max({d, degrees[s] - 1}) + Len(combination) + 1 <= limit

\* The selectors of gates that are in no combination so far.
Open(degrees, done) ==
    {s \in DOMAIN degrees : degrees[s] # 0 /\ \A i \in DOMAIN done : s \notin ToSet(done[i])}

\* The combination grown greedily from a selector, later ones joining in order.
Combination(activations, degrees, limit, done, s) ==
    LET grown[t \in s..Len(degrees)] ==
            IF t = s THEN <<s>>
            ELSE LET c == grown[t - 1]
                 IN IF t \in Open(degrees, done) /\ Joins(activations, degrees, limit, c, t)
                    THEN Append(c, t) ELSE c
    IN grown[Len(degrees)]

\* One from each selector that is in none so far.
Combinations(activations, degrees, limit) ==
    LET upto[s \in 0..Len(degrees)] ==
            IF s = 0 THEN <<>>
            ELSE LET done == upto[s - 1]
                 IN IF s \in Open(degrees, done)
                    THEN Append(done, Combination(activations, degrees, limit, done, s)) ELSE done
    IN upto[Len(degrees)]

\* The column of a combination: on each row the root of the selector enabled there.
CombinationColumn(activations, combination, rows) ==
    [r \in rows |-> SelectInSeq(combination, LAMBDA s : r \in activations[s])]

\* Every combination gets a column, and every selector of it a root.
AssignColumn(acc, c, activations, rows) ==
    LET grown == Allocate(acc.cs)
    IN [cs |-> grown,
        columns |-> Append(acc.columns, CombinationColumn(activations, c, rows)),
        replaced |-> [s \in DOMAIN acc.replaced |->
            IF s \in ToSet(c) THEN Replacement(grown, SelectInSeq(c, LAMBDA t : t = s), Len(c))
            ELSE acc.replaced[s]]]

AssignColumns(cs, combinations, activations, rows) ==
    LET after[i \in 0..Len(combinations)] ==
            IF i = 0 THEN [cs |-> cs, columns |-> <<>>, replaced |-> [s \in DOMAIN activations |-> <<>>]]
            ELSE AssignColumn(after[i - 1], combinations[i], activations, rows)
    IN after[Len(combinations)]

ReplaceFactor(f, replaced) ==
    IF IsCell(f) THEN f
    ELSE [kind |-> "fixed", column |-> replaced[f.column][1], at |-> 0,
          index |-> replaced[f.column][4]]

ReplacePoly(p, replaced) ==
    [guard |-> IF ContainsSimple(p)
               THEN LET r == replaced[p.guard.column]
                    IN [kind |-> "column", column |-> r[1], root |-> r[2], size |-> r[3],
                        index |-> r[4]]
               ELSE p.guard,
     terms |-> [t \in DOMAIN p.terms |->
                  [i \in DOMAIN p.terms[t] |-> ReplaceFactor(p.terms[t][i], replaced)]]]

MapGates(cs, op(_)) ==
    [cs EXCEPT !.gates = [g \in DOMAIN @ |-> [i \in DOMAIN @[g] |-> op(@[g][i])]]]

MapPolys(cs, op(_)) ==
    [MapGates(cs, op) EXCEPT !.lookups = [l \in DOMAIN @ |->
        [i \in DOMAIN @[l] |-> <<op(@[l][i][1]), op(@[l][i][2])>>]]]

ReplaceSelectors(cs, replaced) == MapPolys(cs, LAMBDA p : ReplacePoly(p, replaced))

\* A simple selector in a lookup fails the assertion of replace_selectors.
SimpleInLookup(cs) ==
    \E l \in ToSet(cs.lookups) : \E pair \in ToSet(l) :
        ContainsSimple(pair[1]) \/ ContainsSimple(pair[2])

\* compress_selectors: complex and unused selectors keep a column of their own and
\* come first. A gate wider than the degree fails the assertion of process.
SelectorDegrees(cs) == [s \in 1..cs.selectors |-> SelectorDegree(cs, s)]

CompressPanics(cs) ==
    SimpleInLookup(cs) \/ \E s \in 1..cs.selectors : SelectorDegrees(cs)[s] > Degree(cs)

\* The selectors that guard no gate.
Alone(degrees) ==
    LET upto[s \in 0..Len(degrees)] ==
            IF s = 0 THEN <<>>
            ELSE IF degrees[s] = 0 THEN Append(upto[s - 1], <<s>>) ELSE upto[s - 1]
    IN upto[Len(degrees)]

CompressSelectors(cs, activations, rows) ==
    LET degrees == SelectorDegrees(cs)
        done == AssignColumns(cs, Alone(degrees) \o Combinations(activations, degrees, Degree(cs)),
                              activations, rows)
    IN [cs |-> [ReplaceSelectors(done.cs, done.replaced) EXCEPT
                  !.selector_map = [s \in DOMAIN done.replaced |-> done.replaced[s][1]]],
        columns |-> done.columns]

\* directly_convert_selectors_to_fixed: a column each, in order, and no selectors left.
DirectlyConvert(cs, activations, rows) ==
    LET done == AssignColumns(cs, [s \in DOMAIN activations |-> <<s>>], activations, rows)
    IN [cs |-> [ReplaceSelectors(done.cs, done.replaced) EXCEPT !.selectors = 0],
        columns |-> done.columns]

(* ------------------- conversion into the prover's system ------------------ *)

Converted(p) ==
    [guard |-> [p.guard EXCEPT !.index = None],
     terms |-> [t \in DOMAIN p.terms |->
                  [i \in DOMAIN p.terms[t] |-> [p.terms[t][i] EXCEPT !.index = None]]]]

\* The lists of queries are carried over in order; the indices are found in them again.
Rebuilt(cs) == MapPolys(MapPolys(cs, Converted), LAMBDA p : AssignIndices(cs, p))
==============================================================================
