---------------------------- MODULE CopyClasses ------------------------------
(* What the permutation assembly promises: every copy that is asked for and    *)
(* accepted joins the classes of its two cells, and nothing else changes the   *)
(* classes. A copy that is lost, or that links other cells, is no step of it.  *)

CONSTANT Cells

VARIABLES
    copied,   \* the copies accepted so far
    class     \* class[c]: the cells that must equal c

vars == <<copied, class>>

Merged(a, b) == class[a] \cup class[b]

Link(a, b) ==
    class' = [c \in Cells |-> IF c \in Merged(a, b) THEN Merged(a, b) ELSE class[c]]

Copy(a, b) == copied' = copied \cup {<<a, b>>} /\ Link(a, b)

Init == copied = {} /\ class = [c \in Cells |-> {c}]

Next == \E a, b \in Cells : Copy(a, b)

Spec == Init /\ [][Next]_vars
==============================================================================
