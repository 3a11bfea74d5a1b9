------------------------- MODULE PermutationAssembly -------------------------
(* Key generation collects the copy constraints of a circuit: mapping is the   *)
(* permutation of cells the argument will prove, aux names the cycle of every  *)
(* cell by one of its cells, and sizes counts the cells of a cycle, at its     *)
(* name. A copy between two cycles relabels the smaller and joins them with    *)
(* one swap.                                                                   *)
EXTENDS Integers, FiniteSets

CONSTANTS
    NumColumns,   \* columns of the permutation argument
    N,            \* rows of the domain
    UsableRows,   \* those in front of the blinding rows
    Calls         \* the copies circuits may ask for: <<left, right>>

ASSUME AssemblyAssumption ==
    /\ NumColumns \in Nat /\ N \in Nat /\ UsableRows \in Nat
    /\ UsableRows <= N
    /\ Calls \subseteq (Nat \X Nat) \X (Nat \X Nat)

Columns == 0..(NumColumns - 1)
Rows    == 0..(N - 1)
Usable  == 0..(UsableRows - 1)
Cells   == Columns \X Rows

VARIABLES
    stage,     \* "synthesis", or "panicked"
    mapping,   \* the cell behind each cell in its cycle
    aux,       \* the name of its cycle
    sizes      \* at the name of a cycle: how many cells it has

vars == <<stage, mapping, aux, sizes>>

\* The cells from c on: the least set with c that mapping does not leave.
Cycle(c) == LET closed == {S \in SUBSET Cells : c \in S /\ \A e \in S : mapping[e] \in S}
            IN  {d \in Cells : \A S \in closed : d \in S}

\* Mutant: only the left row is looked at
AcceptedLeft(l, r) == /\ l[2] \in Usable /\ r[2] \in Rows
                      /\ l[1] \in Columns /\ r[1] \in Columns

\* keygen's copy looks at the rows, then Assembly::copy at the columns: keygen panics
\* on either failure. The rows that are left are inside Assembly::copy's own bounds.
Accepted(l, r) == /\ l[2] \in Usable /\ r[2] \in Usable
                  /\ l[1] \in Columns /\ r[1] \in Columns

\* Mutant: only the columns of the two names are compared
LinkedColumns(l, r) == aux[l][1] = aux[r][1]

\* The early return: the cells are in one cycle already.
Linked(l, r) == aux[l] = aux[r]

\* Mutant: the larger cycle is relabelled
SmallerFirst(l, r) == sizes[aux[l]] > sizes[aux[r]]

\* The cycles are swapped when the left is the smaller.
Swapped(l, r) == sizes[aux[l]] < sizes[aux[r]]

Into(l, r) == IF Swapped(l, r) THEN aux[r] ELSE aux[l]
From(l, r) == IF Swapped(l, r) THEN aux[l] ELSE aux[r]

\* Mutant: the loop stops before the cell it started from
RelabelTail(from, into) ==
    LET loop == Cycle(from) \ {from}
    IN  aux' = [c \in Cells |-> IF c \in loop THEN into ELSE aux[c]]

\* The loop starts at the name of the cycle and follows mapping until it is back.
Relabel(from, into) ==
    LET loop == Cycle(from)
    IN  aux' = [c \in Cells |-> IF c \in loop THEN into ELSE aux[c]]

\* Mutant: sizes are left alone
KeepSizes(from, into) == sizes' = sizes

\* Mutant: the name that is given up loses its size
ClearSizes(from, into) == sizes' = [sizes EXCEPT ![into] = @ + sizes[from], ![from] = 0]

AddSizes(from, into) == sizes' = [sizes EXCEPT ![into] = @ + sizes[from]]

\* Mutant: both cells get the successor of the right one
OverwriteSuccessor(l, r) == mapping' = [mapping EXCEPT ![l] = mapping[r]]

SwapSuccessors(l, r) == mapping' = [mapping EXCEPT ![l] = mapping[r], ![r] = mapping[l]]

Merge(l, r) ==
    /\ AddSizes(From(l, r), Into(l, r))
    /\ Relabel(From(l, r), Into(l, r))
    /\ SwapSuccessors(l, r)

Copy(l, r) ==
    /\ stage = "synthesis" /\ Accepted(l, r)
    /\ IF Linked(l, r) THEN UNCHANGED <<mapping, aux, sizes>> ELSE Merge(l, r)
    /\ UNCHANGED stage

Refuse(l, r) ==
    /\ stage = "synthesis" /\ ~Accepted(l, r)
    /\ stage' = "panicked"
    /\ UNCHANGED <<mapping, aux, sizes>>

Init ==
    /\ stage = "synthesis"
    /\ mapping = [c \in Cells |-> c]
    /\ aux = mapping
    /\ sizes = [c \in Cells |-> 1]

Next == \E call \in Calls : Copy(call[1], call[2]) \/ Refuse(call[1], call[2])

Spec == Init /\ [][Next]_vars

(* ------------------------------- properties -------------------------------- *)

TypeOK ==
    /\ stage \in {"synthesis", "panicked"}
    /\ mapping \in [Cells -> Cells]
    /\ aux \in [Cells -> Cells]
    /\ sizes \in [Cells -> Nat \ {0}]

Named(name) == {d \in Cells : aux[d] = name}

\* mapping stays a permutation of the cells: every sigma column entry is distinct.
MappingIsPermutation == \A c, d \in Cells : mapping[c] = mapping[d] => c = d

\* Two cells have the same name exactly when mapping leads from one to the other: the
\* early return of copy neither misses a copy already made nor drops a new one.
NamesAreCycles == \A c \in Cells : Cycle(c) = Named(aux[c])

\* sizes counts, at the name of every cycle, the cells that carry the name.
SizesCountCycles == \A c \in Cells : sizes[aux[c]] = Cardinality(Named(aux[c]))

\* The loop touches a cell only when its cycle at least doubles, so all the copies
\* of a circuit together take n log n relabellings.
RelabellingDoubles ==
    [][\A c \in Cells : aux'[c] # aux[c] => sizes'[aux'[c]] >= 2 * sizes[aux[c]]]_vars

\* Rows that are blinded later are in no copy: each is a cycle of its own.
BlindingRowsAreFree == \A c \in Cells : c[2] \notin Usable => mapping[c] = c
==============================================================================
