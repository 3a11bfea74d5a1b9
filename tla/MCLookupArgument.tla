-------------------------- MODULE MCLookupArgument ---------------------------
(* Five usable rows, three values: every input against every table up to the    *)
(* order of its rows, which is kept unsorted.                                    *)
EXTENDS LookupArgument

MCN == 8
MCBlindingFactors == 2
MCValues == 0..2

MCInputs == [1..5 -> MCValues]

\* Ascending columns, turned so that they do not start with their least value.
MCTables == { SubSeq(col, 4, 5) \o SubSeq(col, 1, 3) :
                  col \in {c \in [1..5 -> MCValues] : \A i \in 1..4 : c[i] <= c[i + 1]} }
==============================================================================
