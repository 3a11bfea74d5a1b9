------------------------ MODULE MCPermutationAssembly ------------------------
(* Two columns of three usable rows and a blinding row. Any two usable cells may *)
(* be copied; a call may also name a blinding row, on either side, a row behind  *)
(* the domain, or a column outside the argument.                                 *)
EXTENDS PermutationAssembly

MCCalls ==
    ((0..1) \X (0..2)) \X ((0..1) \X (0..2))
        \cup { << <<0, 3>>, <<1, 0>> >>, << <<1, 0>>, <<0, 3>> >>,
               << <<0, 0>>, <<1, 4>> >>, << <<2, 0>>, <<0, 0>> >> }
==============================================================================
