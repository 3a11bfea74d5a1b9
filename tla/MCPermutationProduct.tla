------------------------- MODULE MCPermutationProduct ------------------------
(* Three columns in sets of two, the last set smaller; two usable rows and a    *)
(* blinding row. Copies within a set, across the two sets and within a column,  *)
(* one of them already implied by two others, and one that is refused; every    *)
(* witness of two values.                                                       *)
EXTENDS PermutationProduct

MCValues == {0, 1}

MCCalls == { << <<0, 0>>, <<1, 0>> >>, << <<1, 0>>, <<2, 1>> >>, << <<2, 1>>, <<0, 0>> >>,
             << <<0, 1>>, <<2, 0>> >>, << <<2, 0>>, <<2, 1>> >>,
             << <<1, 1>>, <<0, 0>> >>, << <<0, 0>>, <<0, 2>> >> }
==============================================================================
