--------------------------- MODULE LookupArgument ----------------------------
(* One lookup of the proof: from the compressed input A and table S, the       *)
(* prover's permuted pair (A', S') and its grand product z, and the            *)
(* constraints the verifier puts on them.  The pair is made on the device, or  *)
(* on the host in one of the two ways a build feature chooses; the product is  *)
(* always scanned on the device, in as many chunks as its free memory asks.    *)
(*                                                                             *)
(* Columns are the usable rows only, numbered from 1, and hold small integers  *)
(* for field elements.  beta and gamma are random: a product of (v + beta)'s   *)
(* and (v + gamma)'s over others is known by the exponent of each factor.      *)
EXTENDS Integers, Sequences, SequencesExt, FiniteSetsExt

CONSTANTS
    N, BlindingFactors,   \* rows of the domain, and those kept for blinding
    Values,               \* the values a cell may hold
    Inputs, Tables        \* the compressed columns a proof may come with

Usable == N - (BlindingFactors + 1)
AccLen == N - BlindingFactors
Rows   == 1..Usable

ASSUME SizesAssumption == {N, BlindingFactors} \subseteq Nat /\ Usable > 0
ASSUME ColumnsAssumption == /\ 0 \in Values /\ Values \subseteq Nat
                            /\ Inputs \cup Tables \subseteq [Rows -> Values]

VARIABLES
    parallel,       \* built with the feature permute_par
    pool,           \* the column pool is on the device
    input, table,   \* A and S
    pair,           \* [a |-> A', s |-> S']
    stage,          \* "compressed", "permuted", "scanning", "done", "panic", "error"
    chunk,          \* rows the scan takes at once
    offset,         \* rows scanned
    scan            \* d_lookup_product: fractions, then their running product

vars == <<parallel, pool, input, table, pair, stage, chunk, offset, scan>>

(* --------------------------- columns and fractions ------------------------ *)

Cells(col)    == ToSet(col)
Count(col, v) == Cardinality({i \in DOMAIN col : col[i] = v})

\* A value stands in the rows behind all lesser ones, as often as in the column.
Sort(col) ==
    [i \in DOMAIN col |-> CHOOSE v \in Cells(col) :
                              /\ Cardinality({j \in DOMAIN col : col[j] < v}) < i
                              /\ i <= Cardinality({j \in DOMAIN col : col[j] <= v})]

\* The numbers of a set in their order
Ascending(S) ==
    [k \in 1..Cardinality(S) |-> CHOOSE x \in S : Cardinality({y \in S : y <= x}) = k]

Fractions == [{"beta", "gamma"} -> [Values -> Int]]
One       == [f \in {"beta", "gamma"} |-> [v \in Values |-> 0]]
Times(p, q) == [f \in {"beta", "gamma"} |-> [v \in Values |-> p[f][v] + q[f][v]]]

\* (a + beta)(s + gamma)
Factors(a, s) ==
    [f \in {"beta", "gamma"} |->
        [v \in Values |-> IF v = (IF f = "beta" THEN a ELSE s) THEN 1 ELSE 0]]

Over(p, q) == Times(p, [f \in DOMAIN q |-> [v \in Values |-> -q[f][v]]])

(* ----------------------------- the permuted pair -------------------------- *)

\* The first row of a run of equal values
First(col, i) == i = 1 \/ col[i] # col[i - 1]

\* What every repeated row of A' gets: leftover table values, lowest row last.
Fill(a, leftover) ==
    [i \in Rows |-> IF First(a, i) THEN a[i]
                    ELSE leftover[Cardinality({j \in i..Usable : ~First(a, j)})]]

\* Mutant: the table left as it comes
LeftoverUnsorted ==
    LET rows == Ascending({i \in Rows : \/ table[i] \in Cells(SubSeq(table, 1, i - 1))
                                       \/ table[i] \notin Cells(input)})
    IN  [k \in DOMAIN rows |-> table[rows[k]]]

\* Table rows no first occurrence takes: leftover_flag_kernel, and the parallel build.
Leftover ==
    LET sorted == Sort(table)
        rows   == Ascending({i \in Rows : ~First(sorted, i) \/ sorted[i] \notin Cells(input)})
    IN  [k \in DOMAIN rows |-> sorted[rows[k]]]

\* The counts that leftover_table_map is left with, in the order of its keys.
LeftoverMap ==
    LET left(v) == Count(table, v) - (IF v \in Cells(input) THEN 1 ELSE 0)
        keys    == Ascending(Cells(table))
    IN  FlattenSeq([k \in DOMAIN keys |-> [c \in 1..left(keys[k]) |-> keys[k]]])

SequentialPair == [a |-> Sort(input), s |-> Fill(Sort(input), LeftoverMap)]

\* Mutant: every input takes a table row of its own
AllFoundOnce == \A v \in Cells(input) : Count(input, v) <= Count(table, v)

\* Every first occurrence finds its key in leftover_table_map.
AllFound == \A v \in Cells(input) : Count(table, v) > 0

Permuted(a, s) == pair' = [a |-> a, s |-> s] /\ stage' = "permuted"

\* repeated_input_rows runs out with the leftover values: neither pop().unwrap() nor
\* the assertion behind it fails.
AllPopped == Len(LeftoverMap) = Cardinality({i \in Rows : ~First(Sort(input), i)})

PermuteDevice ==
    /\ stage = "compressed" /\ pool
    /\ Permuted(Sort(input), Fill(Sort(input), Leftover))
    /\ UNCHANGED <<parallel, pool, input, table, chunk, offset, scan>>

\* A CUDA error of the fused path is logged, and the host takes over.
DeviceFails ==
    /\ stage = "compressed" /\ pool
    /\ pool' = FALSE
    /\ UNCHANGED <<parallel, input, table, pair, stage, chunk, offset, scan>>

PermuteSeq ==
    /\ stage = "compressed" /\ ~pool /\ ~parallel
    /\ IF AllFound /\ AllPopped
       THEN Permuted(SequentialPair.a, SequentialPair.s)
       ELSE stage' = "panic" /\ UNCHANGED pair
    /\ UNCHANGED <<parallel, pool, input, table, chunk, offset, scan>>

\* Each thread gives its share of the distinct inputs consecutive ranges of rows
\* from 0, and shares are joined by shifting the right one behind the left.
End(ranges) == IF ranges = <<>> THEN 0 ELSE Last(ranges).end

ValueRange(value, start, end) == [value |-> value, start |-> start, end |-> end]

\* Mutant: a range ends at its last row, not behind it
ShareInclusive(values) ==
    LET ranges[k \in 0..Len(values)] ==
            IF k = 0 THEN <<>>
            ELSE Append(ranges[k - 1],
                        ValueRange(values[k], End(ranges[k - 1]),
                              End(ranges[k - 1]) + Count(input, values[k]) - 1))
    IN  ranges[Len(values)]

Share(values) ==
    LET ranges[k \in 0..Len(values)] ==
            IF k = 0 THEN <<>>
            ELSE Append(ranges[k - 1],
                        ValueRange(values[k], End(ranges[k - 1]),
                              End(ranges[k - 1]) + Count(input, values[k])))
    IN  ranges[Len(values)]

Join(left, right) ==
    left \o [k \in DOMAIN right |-> ValueRange(right[k].value, right[k].start + End(left),
                                                right[k].end + End(left))]

\* order is the hash map's, cut wherever one thread's share ends.
UniqueRanges(order, cuts) ==
    LET ends   == Ascending(cuts \cup {0, Len(order)})
        shares == Len(ends) - 1
        joined[k \in 0..shares] ==
            IF k = 0 THEN <<>>
            ELSE Join(joined[k - 1], Share(SubSeq(order, ends[k] + 1, ends[k + 1])))
    IN  joined[shares]

\* Mutant: every range fills its rows from the first leftover value on
SliceFromFirst(range, i) == [from |-> 0, to |-> range.end - range.start - 1]

\* The i-th range, from 0, keeps one row for its value, as those before it did: the
\* leftover values from..to-1 are for its other rows.
Slice(range, i) == [from |-> range.start - i, to |-> range.end - i - 1]

PermutePar ==
    /\ stage = "compressed" /\ ~pool /\ parallel
    /\ \E order \in SetToSeqs(Cells(input)) : \E cuts \in SUBSET (1..(Len(order) - 1)) :
         LET ranges   == UniqueRanges(order, cuts)
             slice(k) == Slice(ranges[k], k - 1)
             sound(k) == /\ 0 <= slice(k).from /\ slice(k).from <= slice(k).to
                         /\ slice(k).to <= Len(Leftover)
             inputs(k) == [r \in 1..(slice(k).to - slice(k).from + 1) |-> ranges[k].value]
             tables(k) == <<ranges[k].value>> \o
                              SubSeq(Leftover, slice(k).from + 1, slice(k).to)
         IN  IF \A k \in DOMAIN ranges : sound(k)
             THEN Permuted(FlattenSeq([k \in DOMAIN ranges |-> inputs(k)]),
                           FlattenSeq([k \in DOMAIN ranges |-> tables(k)]))
             ELSE stage' = "panic" /\ UNCHANGED pair
    /\ UNCHANGED <<parallel, pool, input, table, chunk, offset, scan>>

(* ---------------------------- the grand product --------------------------- *)

\* The scan's length halved until it fits the free memory, down to nothing.
ChunkSizes ==
    LET halved[k \in 0..Usable] == IF k = 0 THEN Usable ELSE halved[k - 1] \div 2
    IN  {halved[k] : k \in 0..Usable}

\* lookup_product_device, on every row at once.
LookupProduct ==
    /\ stage = "permuted"
    /\ scan' = [i \in Rows |-> Over(Factors(input[i], table[i]),
                                    Factors(pair.a[i], pair.s[i]))]
    /\ chunk' \in ChunkSizes
    /\ offset' = 0
    /\ stage' = IF chunk' = 0 THEN "error" ELSE "scanning"
    /\ UNCHANGED <<parallel, pool, input, table, pair>>

\* Mutant: every chunk starts from the caller's prefix
PrefixOfCaller == One

\* The carry: 1, then the last element of the chunk before.
Prefix == IF offset = 0 THEN One ELSE scan[offset]

\* One launch: the running product of the next rows, times the prefix.
ScanChunk ==
    /\ stage = "scanning"
    /\ LET upto  == Min({offset + chunk, AccLen - 1})
           run[i \in offset..upto] ==
               IF i = offset THEN Prefix ELSE Times(run[i - 1], scan[i])
       IN  /\ scan' = [i \in Rows |-> IF i \in (offset + 1)..upto THEN run[i] ELSE scan[i]]
           /\ offset' = upto
           /\ stage' = IF upto = AccLen - 1 THEN "done" ELSE "scanning"
    /\ UNCHANGED <<parallel, pool, input, table, pair, chunk>>

\* Z(X): row 0 is 1, the others the scan, and the rest are blinding factors.
Z == [i \in 1..AccLen |-> IF i = 1 THEN One ELSE scan[i - 1]]

(* ------------------------------- the verifier ------------------------------ *)

\* Its constraints, row by row: l_0, l_last and the active rows. The row before
\* the first is a blinding row of A', where the prover leaves zero.
Accepts ==
    LET before(i) == IF i = 1 THEN 0 ELSE pair.a[i - 1]
    IN  /\ Z[1] = One
        /\ Z[AccLen] = One
        /\ pair.a[1] = pair.s[1]
        /\ \A i \in Rows :
              /\ Times(Z[i + 1], Factors(pair.a[i], pair.s[i])) =
                     Times(Z[i], Factors(input[i], table[i]))
              /\ pair.a[i] = pair.s[i] \/ pair.a[i] = before(i)

(* -------------------------------------------------------------------------- *)

Init ==
    /\ parallel \in BOOLEAN /\ pool \in BOOLEAN
    /\ input \in Inputs /\ table \in Tables
    /\ pair = [a |-> <<>>, s |-> <<>>]
    /\ stage = "compressed"
    /\ chunk = 0 /\ offset = 0 /\ scan = <<>>

Next == PermuteDevice \/ DeviceFails \/ PermuteSeq \/ PermutePar \/ LookupProduct \/ ScanChunk

Spec == Init /\ [][Next]_vars

(* ------------------------------- properties -------------------------------- *)

TypeOK ==
    /\ {parallel, pool} \subseteq BOOLEAN
    /\ input \in Inputs /\ table \in Tables
    /\ stage \in {"compressed", "permuted", "scanning", "done", "panic", "error"}
    /\ chunk \in 0..Usable /\ offset \in 0..Usable
    /\ IF stage \in {"compressed", "panic"} THEN pair = [a |-> <<>>, s |-> <<>>]
       ELSE pair.a \in [Rows -> Values] /\ pair.s \in [Rows -> Values]
    /\ stage \in {"scanning", "done"} => \A i \in Rows : scan[i] \in Fractions

InTable == Cells(input) \subseteq Cells(table)

PermutationOf(col, other) == \A v \in Values : Count(col, v) = Count(other, v)

\* Whichever way the pair is made, A' and S' are the cells of A and S in another
\* order, like values of A' are adjacent, and the first of them is in S' beside it:
\* the ranges, the joined shares and the leftover slices of the parallel build and
\* the flags of the kernels select and place every cell exactly once.
PairIsPermuted ==
    (stage = "permuted" /\ InTable) =>
        /\ PermutationOf(pair.a, input)
        /\ PermutationOf(pair.s, table)
        /\ \A i \in Rows : First(pair.a, i) =>
              /\ pair.a[i] = pair.s[i]
              /\ \A j \in 1..(i - 1) : pair.a[j] # pair.a[i]

\* The kernels place every value where permute_expression_pair_seq would.
DeviceIsSequential == (stage = "permuted" /\ pool /\ InTable) => pair = SequentialPair

\* A proof of a lookup whose inputs are all in the table never dies in the
\* permutation: no slice is out of range and every input finds its row.
PanicsOnlyOnMissing == stage = "panic" => ~InTable

\* Once the product is committed, the verifier's constraints hold exactly when every
\* input is in the table, whatever the way the pair was made and however the scan
\* was cut into chunks.
AcceptsExactlyLookups == stage = "done" => (Accepts <=> InTable)

\* permute_expression_pair "permutes A and S to produce A' and S'" and returns them
\* "if no errors are encountered": whenever a pair is returned, it is A and S permuted.
ReturnsPermutations ==
    stage = "permuted" => PermutationOf(pair.a, input) /\ PermutationOf(pair.s, table)
==============================================================================
