---------------------------- MODULE GraphEvaluator ----------------------------
(* The compiler of gate and lookup expressions and its two back ends. An        *)
(* expression becomes a graph of calculations, simplified and shared while it   *)
(* is built; the host interprets the graph row by row; the device gets it       *)
(* flattened into packed rules, and reads columns through a window of the rows  *)
(* its chunk can touch.                                                        *)
(*                                                                             *)
(* An expression is a tuple headed by its kind: <<"const", c>>,                 *)
(* <<"advice", column, rotation>> (and "fixed", "instance"),                    *)
(* <<"challenge", i>>, <<"neg", e>>, <<"sum", a, b>>, <<"prod", a, b>>,         *)
(* <<"scaled", e, c>>. An environment gives the columns' vectors by kind, the   *)
(* challenges, and the runtime scalars. Indices are the code's, from 0.         *)
EXTENDS Integers, Sequences, SequencesExt, FiniteSetsExt

CONSTANTS
    Prime,     \* the field
    IdxBits,   \* bits of a packed column index; the code has 20
    RotBits    \* bits of a packed rotation's absolute value; the code has 15

ASSUME PackingAssumption == Prime \in Nat \ {0} /\ IdxBits \in Nat /\ RotBits \in Nat

Times(a, b) == (a * b) % Prime
Plus(a, b)  == (a + b) % Prime
Less(a, b)  == (a - b) % Prime

\* s[1] f^(m-1) + ... + s[m], from start.
Horner(start, f, s) == FoldLeft(LAMBDA t, e : Plus(Times(t, f), e), start, s)

\* Row row of a vector, around its end: get_rotation_idx.
At(v, row) == v[(row % Len(v)) + 1]

\* The same sequence, its elements computed at once.
Whole(s) == SubSeq(s, 1, Len(s))

Index(s, e) == SelectInSeq(s, LAMBDA d : d = e) - 1
Put(s, e)   == IF Contains(s, e) THEN s ELSE Append(s, e)

(* ------------------------------- expressions ------------------------------ *)

Kinds == {"fixed", "advice", "instance"}

RECURSIVE ExprValue(_, _, _)
ExprValue(e, env, row) ==
    CASE e[1] = "const"     -> e[2]
      [] e[1] \in Kinds     -> At(env[e[1]][e[2] + 1], row + e[3])
      [] e[1] = "challenge" -> env.challenges[e[2] + 1]
      [] e[1] = "neg"       -> Less(0, ExprValue(e[2], env, row))
      [] e[1] = "sum"       -> Plus(ExprValue(e[2], env, row), ExprValue(e[3], env, row))
      [] e[1] = "prod"      -> Times(ExprValue(e[2], env, row), ExprValue(e[3], env, row))
      [] e[1] = "scaled"    -> Times(ExprValue(e[2], env, row), e[3])

(* --------------------------- sources and the graph ------------------------ *)

\* A source is <<variant, index, rotation index>>, the variants in the enum's order,
\* which its derived comparison follows.
Constant(i)     == <<0, i, 0>>
Intermediate(i) == <<1, i, 0>>
Variant         == [fixed |-> 2, advice |-> 3, instance |-> 4]
Challenge(i)    == <<5, i, 0>>
Beta            == <<6, 0, 0>>
Gamma           == <<7, 0, 0>>
Theta           == <<8, 0, 0>>
Y               == <<9, 0, 0>>
PreviousValue   == <<10, 0, 0>>

UpTo(a, b) ==
    \/ a[1] < b[1]
    \/ a[1] = b[1] /\ a[2] < b[2]
    \/ a[1] = b[1] /\ a[2] = b[2] /\ a[3] <= b[3]

Calc(op, args) == [op |-> op, args |-> args]

\* Calculation::Horner, its arguments being the start, the factor and the parts.
HornerCalc(start, parts, factor) == Calc("horner", <<start, factor>> \o parts)

EmptyGraph == [constants |-> <<0, 1, 2>>, rotations |-> <<>>, calculations |-> <<>>]

AddConstant(g, c) ==
    LET all == Put(g.constants, c)
    IN  [graph |-> [g EXCEPT !.constants = all], at |-> Constant(Index(all, c))]

AddCalculation(g, calc) ==
    LET all == Put(g.calculations, calc)
    IN  [graph |-> [g EXCEPT !.calculations = all], at |-> Intermediate(Index(all, calc))]

AddQuery(g, kind, column, rotation) ==
    LET all == Put(g.rotations, rotation)
    IN  AddCalculation([g EXCEPT !.rotations = all],
                       Calc("store", << <<Variant[kind], column, Index(all, rotation)>> >>))

\* The operands of a commutative calculation are kept in order, so that it is shared.
Commuting(g, op, a, b) == AddCalculation(g, Calc(op, IF UpTo(a, b) THEN <<a, b>> ELSE <<b, a>>))

AddNegated(g, a) ==
    IF a = Constant(0) THEN [graph |-> g, at |-> a] ELSE AddCalculation(g, Calc("neg", <<a>>))

AddSub(g, a, b) ==
    IF a = Constant(0) THEN AddCalculation(g, Calc("neg", <<b>>))
    ELSE IF b = Constant(0) THEN [graph |-> g, at |-> a]
    ELSE AddCalculation(g, Calc("sub", <<a, b>>))

AddSum(g, a, b) ==
    IF a = Constant(0) THEN [graph |-> g, at |-> b]
    ELSE IF b = Constant(0) THEN [graph |-> g, at |-> a]
    ELSE Commuting(g, "add", a, b)

AddProduct(g, a, b) ==
    IF Constant(0) \in {a, b} THEN [graph |-> g, at |-> Constant(0)]
    ELSE IF a = Constant(1) THEN [graph |-> g, at |-> b]
    ELSE IF b = Constant(1) THEN [graph |-> g, at |-> a]
    ELSE IF a = Constant(2) THEN AddCalculation(g, Calc("double", <<b>>))
    ELSE IF b = Constant(2) THEN AddCalculation(g, Calc("double", <<a>>))
    ELSE IF a = b THEN AddCalculation(g, Calc("square", <<a>>))
    ELSE Commuting(g, "mul", a, b)

RECURSIVE AddExpression(_, _)
AddExpression(g, e) ==
    LET left  == AddExpression(g, e[2])
        right == AddExpression(left.graph, e[3])
        minus == AddExpression(left.graph, e[3][2])
        scale == AddConstant(g, e[3])
        arg   == AddExpression(scale.graph, e[2])
    IN  CASE e[1] = "const" -> AddConstant(g, e[2])
          [] e[1] \in Kinds -> AddQuery(g, e[1], e[2], e[3])
          [] e[1] = "challenge" -> AddCalculation(g, Calc("store", <<Challenge(e[2])>>))
          [] e[1] = "neg" /\ e[2][1] = "const" -> AddConstant(g, Less(0, e[2][2]))
          [] e[1] = "neg" /\ e[2][1] # "const" -> AddNegated(left.graph, left.at)
          [] e[1] = "sum" /\ e[3][1] = "neg" -> AddSub(minus.graph, left.at, minus.at)
          [] e[1] = "sum" /\ e[3][1] # "neg" -> AddSum(right.graph, left.at, right.at)
          [] e[1] = "prod" -> AddProduct(right.graph, left.at, right.at)
          [] e[1] = "scaled" /\ e[3] = 0 -> [graph |-> g, at |-> Constant(0)]
          [] e[1] = "scaled" /\ e[3] = 1 -> left
          [] e[1] = "scaled" /\ e[3] \notin {0, 1} ->
                AddCalculation(arg.graph, Calc("mul", <<arg.at, scale.at>>))

\* A list of expressions, folded by a factor from a start.
AddFold(g, expressions, start, factor) ==
    LET step(acc, e) == LET r == AddExpression(acc.graph, e)
                        IN  [graph |-> r.graph, parts |-> Append(acc.parts, r.at)]
        all == FoldLeft(step, [graph |-> g, parts |-> <<>>], expressions)
    IN  AddCalculation(all.graph, HornerCalc(start, all.parts, factor))

ForCompress(expressions) == AddFold(EmptyGraph, expressions, Constant(0), Y).graph

\* Evaluator::new_inner: the gates fold from the previous value by y; a lookup is
\* (inputs folded by theta + beta) * (tables folded by theta + gamma).
CustomGates(gates) == AddFold(EmptyGraph, FlattenSeq(gates), PreviousValue, Y).graph

LookupGraph(lookup) ==
    LET input == AddFold(EmptyGraph, lookup.inputs, Constant(0), Theta)
        table == AddFold(input.graph, lookup.tables, Constant(0), Theta)
        right == AddCalculation(table.graph, Calc("add", <<table.at, Gamma>>))
        lc    == AddCalculation(right.graph, Calc("add", <<input.at, Beta>>))
    IN  AddCalculation(lc.graph, Calc("mul", <<lc.at, right.at>>)).graph

(* --------------------------- the host interpreter ------------------------- *)

\* The runtime scalars are <<beta, gamma, theta, y, previous value>>.
SourceValue(s, g, done, env, row) ==
    CASE s[1] = 0 -> g.constants[s[2] + 1]
      [] s[1] = 1 -> done[s[2] + 1]
      [] s[1] = 2 -> At(env.fixed[s[2] + 1], row + g.rotations[s[3] + 1])
      [] s[1] = 3 -> At(env.advice[s[2] + 1], row + g.rotations[s[3] + 1])
      [] s[1] = 4 -> At(env.instance[s[2] + 1], row + g.rotations[s[3] + 1])
      [] s[1] = 5 -> env.challenges[s[2] + 1]
      [] s[1] > 5 -> env.runtime[s[1] - 5]

CalcValue(op, v) ==
    CASE op = "add"    -> Plus(v[1], v[2])
      [] op = "sub"    -> Less(v[1], v[2])
      [] op = "mul"    -> Times(v[1], v[2])
      [] op = "square" -> Times(v[1], v[1])
      [] op = "double" -> Plus(v[1], v[1])
      [] op = "neg"    -> Less(0, v[1])
      [] op = "store"  -> v[1]
      [] op = "horner" -> Horner(v[1], v[2], SubSeq(v, 3, Len(v)))

GraphValue(g, env, row) ==
    LET step(done, c) ==
            Append(done, CalcValue(c.op, Whole([k \in DOMAIN c.args |->
                                            SourceValue(c.args[k], g, done, env, row)])))
    IN  Last(FoldLeft(step, <<>>, g.calculations))

(* ------------------------ flattening for the device ----------------------- *)

\* Mutant: a reference past an unrolled Horner keeps its old index
NotRemapped(s, g, remap) ==
    IF s[1] \in 6..9 THEN Constant(Len(g.constants) + <<1, 2, 0, 3>>[s[1] - 5]) ELSE s

\* The runtime scalars become constants, appended as theta, beta, gamma, y.
Rewrite(s, g, remap) ==
    CASE s[1] = 1      -> Intermediate(remap[s[2] + 1])
      [] s[1] \in 6..9 -> Constant(Len(g.constants) + <<1, 2, 0, 3>>[s[1] - 5])
      [] s[1] \notin {1, 6, 7, 8, 9} -> s

\* An inner Horner, unrolled: acc * factor, then + part.
Unrolled(calcs, args) ==
    IF Len(args) = 2 THEN Append(calcs, Calc("store", <<args[1]>>))
    ELSE LET acc(cs)    == IF Len(cs) = Len(calcs) THEN args[1] ELSE Intermediate(Len(cs) - 1)
             step(cs, p) == cs \o <<Calc("mul", <<acc(cs), args[2]>>),
                                    Calc("add", <<Intermediate(Len(cs)), p>>)>>
         IN  FoldLeft(step, calcs, SubSeq(args, 3, Len(args)))

Flatten(g) ==
    LET rewritten(c, remap) == [k \in DOMAIN c.args |-> Rewrite(c.args[k], g, remap)]
        step(acc, c) ==
            LET args == rewritten(c, acc.remap)
                new  == IF c.op = "horner" THEN Unrolled(acc.calcs, args)
                        ELSE Append(acc.calcs, Calc(c.op, args))
            IN  [calcs |-> new, remap |-> Append(acc.remap, Len(new) - 1)]
        inner == FoldLeft(step, [calcs |-> <<>>, remap |-> <<>>], Front(g.calculations))
        last  == Last(g.calculations)
        args  == rewritten(last, inner.remap)
    IN  IF last.op = "horner"
        THEN Append(inner.calcs, Calc("horner", args))
        ELSE inner.calcs \o <<Calc(last.op, args),
                HornerCalc(Constant(0), <<Intermediate(Len(inner.calcs))>>, Constant(0))>>

\* A source in a word: its place on the device, index, rotation's value and sign.
Place == <<4, 3, 0, 2, 1, 5>>

Encode(s, rotations) ==
    LET rot == IF s[1] \in 2..4 THEN rotations[s[3] + 1] ELSE 0
        abs == IF rot < 0 THEN -rot ELSE rot
    IN  Place[s[1] + 1] + 16 * s[2] + 16 * 2^IdxBits * abs
            + IF rot < 0 THEN 16 * 2^(IdxBits + RotBits) ELSE 0

Dummy == 6

\* combine codes 0: 0, 1: 1, 2: -1, 3: 2; degree 1 multiplies the operands.
Shape == [add    |-> <<1, 1, 0>>, sub    |-> <<1, 2, 0>>, mul   |-> <<1, 0, 1>>,
          neg    |-> <<2, 0, 0>>, double |-> <<3, 0, 0>>, store |-> <<1, 0, 0>>,
          square |-> <<1, 0, 1>>]

EncodeRule(c, rotations) ==
    LET shape == Shape[c.op]
        b     == CASE c.op = "square" -> Encode(c.args[1], rotations)
                   [] Len(c.args) = 2 -> Encode(c.args[2], rotations)
                   [] c.op \in {"neg", "double", "store"} -> Dummy
        top   == 16 * 2^(IdxBits + RotBits + 1)
    IN  <<Encode(c.args[1], rotations) + top * (shape[1] + 16 * shape[3]), b + top * shape[2]>>

\* encode_for_device, of calculations that end in the fold whose parts are the values.
Program(calcs, constants, rotations, factor) ==
    [rules     |-> [k \in 1..(Len(calcs) - 1) |-> EncodeRule(calcs[k], rotations)],
     parts     |-> LET args == Last(calcs).args
                   IN  [k \in 1..(Len(args) - 2) |-> Encode(args[k + 2], rotations)],
     constants |-> constants,
     factor    |-> factor]

EncodeForDevice(g, factor) == Program(g.calculations, g.constants, g.rotations, factor)

\* runtime: <<beta, gamma, theta, y>>. The fold of the one part needs no factor.
EncodeWithRuntimeConstants(g, runtime) ==
    Program(Flatten(g), g.constants \o <<runtime[3], runtime[1], runtime[2], runtime[4]>>,
            g.rotations, 0)

(* ------------------------------- the kernel ------------------------------- *)

Decode(word) ==
    LET abs == (word \div (16 * 2^IdxBits)) % 2^RotBits
    IN  [place |-> word % 16, idx |-> (word \div 16) % 2^IdxBits,
         rot   |-> IF (word \div (16 * 2^(IdxBits + RotBits))) % 2 = 1 THEN -abs ELSE abs]

\* The rows of a column that a chunk copies: those in one stretch around it, then
\* the end of the column for rotations that wrap below it, then its beginning. Only
\* the least and the greatest rotation of the chunk's two ends are looked at, so of a
\* chunk shorter than a rotation a row it reads may be in none of the three.
Window(rots, start, end, n) ==
    LET least  == IF rots = {} THEN 0 ELSE Min(rots)
        most   == IF rots = {} THEN 0 ELSE Max(rots)
        ends   == {start + least, start + most, end + least, end + most}
        inside == {start, end} \cup {x \in ends : 0 <= x /\ x <= n}
        tail   == Min({n} \cup {n + x : x \in {e \in ends : e < 0}})
        head   == Max({0} \cup {x - n : x \in {e \in ends : e > n}})
        rows(a, b) == [k \in 1..(b - a) |-> a + k - 1]
    IN  [from |-> Min(inside), normal |-> Max(inside) - Min(inside),
         rows |-> rows(Min(inside), Max(inside)) \o rows(tail, n) \o rows(0, head),
         wrapped |-> Max(inside) - Min(inside) + n - tail]

\* Mutant: a row past the end is looked for right after the stretch
NoTail(w, v, row) ==
    LET n  == Len(v)
        at == IF row < 0 THEN w.wrapped + row
              ELSE IF row >= n THEN w.normal + row - n ELSE row - w.from
    IN  IF at + 1 \in DOMAIN w.rows THEN v[w.rows[at + 1] + 1] ELSE 0

\* Where the kernel looks for a row of the column. A row the window lacks is looked
\* for where another is, or in front of or behind the column's part of the scratch:
\* 0 stands for what is there.
ReadWindow(w, v, row) ==
    LET n  == Len(v)
        at == IF row < 0 THEN w.wrapped + row
              ELSE IF row >= n THEN w.wrapped + row - n ELSE row - w.from
    IN  IF at + 1 \in DOMAIN w.rows THEN v[w.rows[at + 1] + 1] ELSE 0

KernelValue(word, prog, done, windows, columns, challenges, row) ==
    LET s == Decode(word)
    IN  CASE s.place < 3 -> ReadWindow(windows[s.place + 1],
                                       columns[s.place + 1][s.idx + 1], row + s.rot)
          [] s.place = 3 -> done[s.idx + 1]
          [] s.place = 4 -> prog.constants[s.idx + 1]
          [] s.place = 5 -> challenges[s.idx + 1]
          [] s.place = 6 -> 0

Combine(a, b, c1, c2, d) ==
    CASE c1 = 1 /\ c2 = 0 /\ d = 1 -> Times(a, b)
      [] c1 = 1 /\ c2 = 0 /\ d = 0 -> a
      [] c1 = 1 /\ c2 = 1 -> Plus(a, b)
      [] c1 = 1 /\ c2 = 2 -> Less(a, b)
      [] c1 = 2 -> Less(0, a)
      [] c1 = 3 -> Plus(a, a)

KernelRow(prog, windows, columns, challenges, prev, row) ==
    LET top == 16 * 2^(IdxBits + RotBits + 1)
        step(done, rule) ==
            LET v(word) == KernelValue(word % top, prog, done, windows, columns, challenges, row)
                c       == rule[1] \div top
            IN  Append(done, Combine(v(rule[1]), v(rule[2]), c % 16, rule[2] \div top, c \div 16))
        done    == FoldLeft(step, <<>>, prog.rules)
        part(k) == KernelValue(prog.parts[k], prog, done, windows, columns, challenges, row)
    IN  Horner(prev, prog.factor, [k \in DOMAIN prog.parts |-> part(k)])

\* The rotations at which the rules read the columns of one place.
RotationsOf(prog, place) ==
    LET top   == 16 * 2^(IdxBits + RotBits + 1)
        words == {Decode(prog.rules[k][j] % top) : k \in DOMAIN prog.rules, j \in 1..2}
    IN  {w.rot : w \in {u \in words : u.place = place}}

\* The batch is shorter than a rotation its rules read at.
Short(prog, batch) ==
    \E p \in 1..3 : \E rot \in RotationsOf(prog, p - 1) : batch < Max({rot, -rot})

\* The launches of one call: columns are <<fixed, instance, advice>>, and the rows
\* go batch by batch, each with the windows its own rows need.
Launches(prog, columns, challenges, prev, n, batch) ==
    LET rots == [p \in 1..3 |-> RotationsOf(prog, p - 1)]
        step(out, start) ==
            LET end     == Min({n, start + batch})
                windows == Whole([p \in 1..3 |-> Window(rots[p], start, end, n)])
            IN  out \o [k \in 1..(end - start) |->
                           KernelRow(prog, windows, columns, challenges,
                                     prev[start + k], start + k - 1)]
    IN  FoldLeft(step, <<>>, [c \in 1..((n + batch - 1) \div batch) |-> (c - 1) * batch])
===============================================================================
