-------------------------------- MODULE Listing --------------------------------
(* The members of a set of numbers in ascending order, as a loop over a vector that *)
(* passes over the others gathers their indices.                                    *)
EXTENDS Integers, Sequences

\* The places of 1..n in S.
Places(S, n) ==
    LET upto[i \in 0..n] ==
            IF i = 0 THEN <<>> ELSE IF i \in S THEN Append(upto[i - 1], i) ELSE upto[i - 1]
    IN upto[n]
================================================================================
