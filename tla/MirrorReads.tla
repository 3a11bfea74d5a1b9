----------------------------- MODULE MirrorReads -----------------------------
(* What the device mirrors promise the prover: a proof that succeeds has read, *)
(* at every access, the bytes of the host polynomials, whether the mirror or   *)
(* the host slice served them; and every proof comes to a verdict.             *)
CONSTANT Accesses

VARIABLES read, verdict

vars == <<read, verdict>>

Init == read = {} /\ verdict = "proving"

\* An access reads the host polynomials' bytes.
Read ==
    /\ \E i \in Accesses \ read : read' = read \cup {i}
    /\ UNCHANGED verdict

Succeed == verdict = "proving" /\ read = Accesses /\ verdict' = "ok" /\ UNCHANGED read

Fail == verdict = "proving" /\ verdict' = "failed" /\ UNCHANGED read

Next == Read \/ Succeed \/ Fail

Spec == Init /\ [][Next]_vars /\ WF_vars(Succeed \/ Fail)
==============================================================================
