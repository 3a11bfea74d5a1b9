--------------------------------- MODULE Keygen ---------------------------------
(* Key generation (plonk/keygen.rs): a circuit configures the constraint system, *)
(* one call after another; it is synthesized into the Assembly, whose calls come *)
(* in any order the circuit likes; the fixed columns are evaluated, the selectors*)
(* become fixed columns, and the prover rebuilds its own constraint system from  *)
(* the key's. keygen_vk_custom and keygen_pk_impl share these steps. The         *)
(* canonical ConstraintSystem keygen calls is the one this crate's fork copies.  *)
(* Copies are PermutationAssembly's. Rows and columns count from 1.              *)
EXTENDS ConstraintSystem, AssignedCells

CONSTANTS
    N,          \* rows
    Circuits,   \* [script, simple, rows, fixed]: the calls of configure, the selectors it
                \* takes as simple ones, the others being complex, the rows synthesis
                \* names, the fixed columns it assigns
    Literals,   \* cells the circuit computes with
    MaxWork     \* bound: operations on cells in one synthesis

\* What configure may call. Its expressions are not queried yet.
CellSet  == [kind : {"fixed", "advice", "instance", "selector"}, column : Nat, at : Int, index : {None}]
GuardSet == [kind : {"none", "simple"}, column : Nat, root : {0}, size : {0}, index : {None}]
PolySet  == [guard : GuardSet, terms : Seq(Seq(CellSet))]

CallSet ==
    [op : {"fixed_column", "instance_column", "selector"}]
        \cup [op : {"advice_column", "challenge_usable_after"}, phase : Nat]
        \cup [op : {"enable_equality"}, column : {"fixed", "advice", "instance"} \X Nat]
        \cup [op : {"enable_constant"}, column : Nat]
        \cup [op : {"set_minimum_degree"}, degree : 0..(Prime - 1)]
        \cup [op : {"create_gate"}, eager : Seq(CellSet), polys : Seq(PolySet)]
        \cup [op : {"lookup"}, pairs : Seq(PolySet \X Nat)]
        \cup [op : {"lookup_any"}, pairs : Seq(PolySet \X PolySet)]

Allocated(script, p, name) == Cardinality({i \in 1..(p - 1) : script[i].op = name})

KnownColumn(script, p, kind, column) ==
    /\ kind = "advice" => column \in 1..Allocated(script, p, "advice_column")
    /\ kind = "selector" => column \in 1..Allocated(script, p, "selector")

KnownPoly(script, p, q) ==
    /\ q.guard.kind = "simple" => KnownColumn(script, p, "selector", q.guard.column)
    /\ \A t \in ToSet(q.terms) : \A f \in ToSet(t) : KnownColumn(script, p, f.kind, f.column)

\* A circuit names the advice columns and selectors that earlier calls handed it: their
\* types have no public constructor.
KnownCall(script, p) ==
    LET c == script[p]
    IN  /\ c.op = "enable_equality" => KnownColumn(script, p, c.column[1], c.column[2])
        /\ c.op = "create_gate" =>
               /\ \A f \in ToSet(c.eager) : KnownColumn(script, p, f.kind, f.column)
               /\ \A q \in ToSet(c.polys) : KnownPoly(script, p, q)
        /\ c.op = "lookup" => \A pair \in ToSet(c.pairs) : KnownPoly(script, p, pair[1])
        /\ c.op = "lookup_any" =>
               \A pair \in ToSet(c.pairs) : KnownPoly(script, p, pair[1]) /\ KnownPoly(script, p, pair[2])

\* A simple selector multiplies a polynomial, a complex one stands in its terms.
SelectorsApart(simple, q) ==
    /\ q.guard.kind = "simple" => q.guard.column \in simple
    /\ \A t \in ToSet(q.terms) : \A f \in ToSet(t) : ~ IsCell(f) => f.column \notin simple

PolysOf(c) ==
    CASE c.op = "create_gate" -> ToSet(c.polys)
      [] c.op = "lookup"      -> {pair[1] : pair \in ToSet(c.pairs)}
      [] c.op = "lookup_any"  -> UNION {{pair[1], pair[2]} : pair \in ToSet(c.pairs)}
      [] OTHER                -> {}

\* The field has more elements than any degree: a combination's roots stay apart in it.
ASSUME KeygenAssumption ==
    /\ N \in Nat \ {0} /\ MaxWork \in Nat /\ MaxDegreeCap < Prime
    /\ Literals \subseteq Assigned
    /\ \A c \in Circuits :
          /\ c.rows \subseteq 1..N
          /\ c.script \in Seq(CallSet)
          /\ \A p \in DOMAIN c.script :
                /\ KnownCall(c.script, p)
                /\ \A q \in PolysOf(c.script[p]) : SelectorsApart(c.simple, q)

VARIABLES
    circuit, position,   \* the circuit, and its next call of configure
    cs,                  \* the constraint system configured
    stage, degree,       \* how far keygen is; the degree the domain is built for
    usable,              \* the rows before the blinding ones: 1..usable
    enabled, fixed,      \* the Assembly: rows of each selector, cells of each column
    meant,               \* ghost: the field element each fixed cell stands for
    cell, work,          \* <<a computed cell, what it stands for>>, and the operations so far
    key,                 \* the proving key
    prover               \* the prover's constraint system

config   == <<circuit, position, cs>>
assembly == <<enabled, fixed, meant>>
vars     == <<config, stage, degree, usable, assembly, cell, work, key, prover>>

NoKey == [compressed |-> FALSE, cs |-> EmptySystem, fixed |-> <<>>, degree |-> 0,
          active |-> {}, last |-> 0]

Init ==
    /\ circuit \in Circuits /\ position = 1 /\ cs = EmptySystem
    /\ stage = "configure" /\ degree = 0 /\ usable = 0
    /\ enabled = <<>> /\ fixed = <<>> /\ meant = <<>>
    /\ cell = <<Zero, 0>> /\ work = 0
    /\ key = NoKey /\ prover = EmptySystem

(* ------------------------------- configuration ---------------------------- *)

Calls(name) ==
    stage = "configure" /\ position <= Len(circuit.script) /\ circuit.script[position].op = name

call == circuit.script[position]

\* A call of configure: it rewrites the system, or it panics.
Returns(ok, result) ==
    /\ IF ok THEN cs' = result /\ position' = position + 1 /\ UNCHANGED stage
       ELSE stage' = "panicked" /\ UNCHANGED <<cs, position>>
    /\ UNCHANGED <<circuit, degree, usable, assembly, cell, work, key, prover>>

AllocateFixed     == Calls("fixed_column") /\ Returns(TRUE, FixedColumn(cs))
AllocateInstance  == Calls("instance_column") /\ Returns(TRUE, InstanceColumn(cs))
AllocateSelector  == Calls("selector") /\ Returns(TRUE, NewSelector(cs))
AllocateAdvice ==
    /\ Calls("advice_column")
    /\ Returns(call.phase = 0 \/ PhaseExists(cs, call.phase - 1), AdviceColumn(cs, call.phase))
AllocateChallenge ==
    /\ Calls("challenge_usable_after")
    /\ Returns(PhaseExists(cs, call.phase), Challenge(cs, call.phase))
CallEquality      == Calls("enable_equality") /\ Returns(TRUE, EnableEquality(cs, call.column))
CallConstant      == Calls("enable_constant") /\ Returns(TRUE, EnableConstant(cs, call.column))
CallMinimumDegree == Calls("set_minimum_degree") /\ Returns(TRUE, SetMinimumDegree(cs, call.degree))
CallGate ==
    /\ Calls("create_gate")
    /\ Returns(call.polys # <<>>, CreateGate(cs, call.eager, call.polys))
CallLookup ==
    /\ Calls("lookup")
    /\ Returns(\A pair \in ToSet(call.pairs) : ~ ContainsSimple(pair[1]), Lookup(cs, call.pairs))
CallLookupAny     == Calls("lookup_any") /\ Returns(TRUE, LookupAny(cs, call.pairs))

Configure ==
    \/ AllocateFixed \/ AllocateInstance \/ AllocateSelector
    \/ AllocateAdvice \/ AllocateChallenge
    \/ CallEquality \/ CallConstant \/ CallMinimumDegree
    \/ CallGate \/ CallLookup \/ CallLookupAny

\* configure has returned: the domain is sized, and the Assembly made if rows remain.
Begin ==
    /\ stage = "configure" /\ position > Len(circuit.script)
    /\ degree' = Degree(cs)
    /\ IF N < MinimumRows(cs)
       THEN stage' = "failed" /\ UNCHANGED <<usable, assembly>>
       ELSE /\ stage' = "synthesis" /\ usable' = N - (BlindingFactors(cs) + 1)
            /\ enabled' = [s \in 1..cs.selectors |-> {}]
            /\ fixed' = [c \in 1..cs.fixed |-> [r \in 1..N |-> Trivial(0)]]
            /\ meant' = [c \in 1..cs.fixed |-> [r \in 1..N |-> 0]]
    /\ UNCHANGED <<config, cell, work, key, prover>>

(* --------------------------------- synthesis ------------------------------ *)

\* An operation on the computed cell, and on what it stands for.
Computed(op, literal) ==
    LET a == cell[1]  x == cell[2]  y == Evaluate(literal)
    IN CASE op = "load"   -> <<literal, y>>
         [] op = "add"    -> <<Add(a, literal), (x + y) % Prime>>
         [] op = "sub"    -> <<Sub(literal, a), (y - x) % Prime>>
         [] op = "mul"    -> <<Mul(a, literal), (x * y) % Prime>>
         [] op = "double" -> <<Double(a), (2 * x) % Prime>>
         [] op = "cube"   -> <<Cube(a), (x * x * x) % Prime>>
         [] op = "invert" -> <<Invert(a), FieldInverse[x]>>

Compute ==
    /\ stage = "synthesis" /\ circuit.fixed # {} /\ work < MaxWork
    /\ \E op \in {"load", "add", "sub", "mul", "double", "cube", "invert"} :
       \E literal \in Literals : cell' = Computed(op, literal)
    /\ work' = work + 1
    /\ UNCHANGED <<config, stage, degree, usable, assembly, key, prover>>

\* A call of the Assembly, which errs or panics when its row is not usable.
Assembles(row, outside, selectors, cells, values) ==
    /\ stage = "synthesis"
    /\ IF row <= usable
       THEN enabled' = selectors /\ fixed' = cells /\ meant' = values /\ UNCHANGED stage
       ELSE stage' = outside /\ UNCHANGED assembly
    /\ UNCHANGED <<config, degree, usable, cell, work, key, prover>>

EnableSelector(s, row) ==
    Assembles(row, "failed", [enabled EXCEPT ![s] = @ \cup {row}], fixed, meant)

AssignFixed(c, row) ==
    Assembles(row, "panicked", enabled,
              [fixed EXCEPT ![c][row] = cell[1]], [meant EXCEPT ![c][row] = cell[2]])

\* The table's padding: from a row to the last usable one.
Filled(column, from, value) ==
    [r \in 1..N |-> IF r \in from..usable THEN value ELSE column[r]]

FillFromRow(c, from) ==
    Assembles(from, "failed", enabled,
              [fixed EXCEPT ![c] = Filled(@, from, cell[1])],
              [meant EXCEPT ![c] = Filled(@, from, cell[2])])

\* Its value is not known: Error::Synthesis.
FillUnknown ==
    /\ stage = "synthesis" /\ circuit.fixed # {}
    /\ stage' = "failed"
    /\ UNCHANGED <<config, degree, usable, assembly, cell, work, key, prover>>

(* ---------------------------------- the key ------------------------------- *)

\* The rows of l_active_row and of l_last.
BlindRows(blinding)  == (N - blinding + 1)..N
LastRow(blinding)    == N - blinding
ActiveRows(blinding) == 1..N \ (BlindRows(blinding) \cup {LastRow(blinding)})

Key(compress, converted) ==
    [compressed |-> compress, cs |-> converted.cs,
     fixed |-> HostEvaluated(fixed) \o converted.columns, degree |-> degree,
     active |-> ActiveRows(BlindingFactors(converted.cs)),
     last |-> LastRow(BlindingFactors(converted.cs))]

Finish(compress) ==
    /\ stage = "synthesis"
    /\ IF IF compress THEN CompressPanics(cs) ELSE SimpleInLookup(cs)
       THEN stage' = "assertion" /\ UNCHANGED key
       ELSE /\ stage' = "keyed"
            /\ key' = Key(compress, IF compress THEN CompressSelectors(cs, enabled, 1..N)
                                                ELSE DirectlyConvert(cs, enabled, 1..N))
    /\ UNCHANGED <<config, degree, usable, assembly, cell, work, prover>>

\* create_proof's GpuConstraintSystem::from(vk.cs()).
Load ==
    /\ stage = "keyed" /\ stage' = "loaded" /\ prover' = Rebuilt(key.cs)
    /\ UNCHANGED <<config, degree, usable, assembly, cell, work, key>>

Synthesize ==
    \/ Compute
    \/ \E s \in DOMAIN enabled, row \in circuit.rows : EnableSelector(s, row)
    \/ \E c \in circuit.fixed, row \in circuit.rows : AssignFixed(c, row)
    \/ \E c \in circuit.fixed, row \in circuit.rows : FillFromRow(c, row)
    \/ FillUnknown

Next == Configure \/ Begin \/ Synthesize \/ (\E compress \in BOOLEAN : Finish(compress)) \/ Load

Spec == Init /\ [][Next]_vars

(* -------------------------------- properties ------------------------------ *)

Done == stage \in {"keyed", "loaded"}

TypeOK ==
    /\ circuit \in Circuits /\ position \in 1..(Len(circuit.script) + 1)
    /\ stage \in {"configure", "panicked", "failed", "synthesis", "assertion", "keyed", "loaded"}
    /\ DOMAIN cs = DOMAIN EmptySystem
    /\ degree \in Nat /\ usable \in 0..N /\ work \in 0..MaxWork
    /\ enabled \in Seq(SUBSET (1..usable))
    /\ fixed \in Seq([1..N -> Assigned]) /\ meant \in Seq([1..N -> Field])
    /\ cell \in Assigned \X Field
    /\ Done => Len(key.fixed) = key.cs.fixed

\* Every polynomial of a system: the gates', then the lookups' inputs and tables.
Polys(system) ==
    GatePolys(system) \o FlattenSeq(FlattenSeq([l \in DOMAIN system.lookups |->
        [i \in DOMAIN system.lookups[l] |-> system.lookups[l][i]]]))

Factors(p) == UNION {ToSet(t) : t \in ToSet(p.terms)}

\* After the selectors are rewritten, every queried cell of the key, the selectors'
\* new columns included, carries the place of its one query in the lists that the
\* proof's evaluations follow; the advice counts that size the blinding are exact;
\* a permuted column is queried where its argument opens it; and the prover's
\* conversion from the canonical system gives the same system.
QueriesIndexed ==
    Done =>
    /\ \A kind \in DOMAIN key.cs.queries : IsInjective(key.cs.queries[kind])
    /\ \A c \in DOMAIN key.cs.advice :
         key.cs.advice_counts[c] = Cardinality({q \in ToSet(key.cs.queries.advice) : q[1] = c})
    /\ \A column \in ToSet(key.cs.permutation) : Position(key.cs, column[1], column[2], 0) # 0
    /\ \A p \in ToSet(Polys(key.cs)) :
         /\ \A f \in Factors(p) : key.cs.queries[f.kind][f.index] = <<f.column, f.at>>
         /\ p.guard.kind = "none"
            \/ key.cs.queries.fixed[p.guard.index] = <<p.guard.column, 0>>
    /\ stage = "loaded" => prover = key.cs

\* The value of a gate's guard on a row.
GuardValue(guard, row) ==
    LET q == key.fixed[guard.column][row]
        upto[i \in 0..guard.size] ==
            IF i = 0 THEN q ELSE IF i = guard.root THEN upto[i - 1]
            ELSE (upto[i - 1] * (i - q)) % Prime
    IN upto[guard.size]

\* Whichever way the selectors became columns, a gate is guarded by a value that
\* vanishes on exactly the rows its selector was not enabled on, and a complex
\* selector is one or zero; none is enabled on a row the key does not hold active,
\* and the key's last active row is where synthesis was told the rows end.
SelectorsKeepMeaning ==
    Done =>
    /\ key.active = 1..usable /\ key.last = usable + 1
    /\ \A i \in DOMAIN Polys(cs) :
         LET p == Polys(cs)[i]  q == Polys(key.cs)[i]
         IN /\ p.guard.kind = "simple" =>
                 \A r \in 1..N :
                   (GuardValue(q.guard, r) # 0) <=> (r \in enabled[p.guard.column] \cap key.active)
            /\ \A t \in DOMAIN p.terms : \A j \in DOMAIN p.terms[t] :
                 ~ IsCell(p.terms[t][j]) =>
                 \A r \in 1..N : key.fixed[q.terms[t][j].column][r]
                     = IF r \in enabled[p.terms[t][j].column] \cap key.active THEN 1 ELSE 0

\* The domain, sized before synthesis, still fits the system of the key: compressing
\* the selectors raises neither its degree nor that of a gate or lookup beyond the
\* domain's, unless MAX_DEGREE had cut the degree below what they need; and only
\* then, or for a simple selector in lookup_any, do keygen's assertions fail.
DegreeKept ==
    LET fits == RequiredDegree(cs) <= degree
    IN /\ Done => Degree(key.cs) = degree /\ (fits => RequiredDegree(key.cs) <= degree)
       /\ stage = "assertion" => ~ fits \/ SimpleInLookup(cs)

\* A fixed column of the key holds what the circuit's arithmetic on put-off
\* fractions stands for, x/0 being zero; the device's batch inversion agrees with
\* the host's, and cells are equal exactly when they stand for the same element.
FixedAreEvaluated ==
    Done =>
    /\ \A c \in DOMAIN meant : \A r \in 1..N : key.fixed[c][r] = meant[c][r]
    /\ DeviceEvaluated(fixed) = HostEvaluated(fixed)
    /\ \A c \in DOMAIN meant : \A r \in 1..N :
         Equal(fixed[c][r], cell[1]) <=> (meant[c][r] = cell[2])
==============================================================================
