--------------------------- MODULE MCDeviceMirrors ---------------------------
(* The scripts of warm_pk_device_caches and create_proof_from_advice_with_pk   *)
(* for a circuit with lookups and fixed queries at or above GPU_MSM_THRESHOLD, *)
(* kept to three of the nine mirrors: an SRS cell, one that the prover touches *)
(* early and retries (fixed_values, two polynomials), and one that may be      *)
(* absent late, with a panic at one access and a host fallback at the next.    *)
EXTENDS DeviceMirrors

MCSrsCells == {"g_lagrange"}

\* warm_device_caches of the params, then warm_device_mirrors of the pk.
MCWarmScript == <<"g_lagrange", "fixed_values", "permutation_polys">>

MCCells == {MCWarmScript[i] : i \in DOMAIN MCWarmScript}

Access(c, absent, then) == [cell |-> c, absent |-> absent, then |-> then]

MCMainScript ==
    << \* phase 1: advice commitments
       Access("g_lagrange", "panic", "drain"),
       \* phase 2: ColumnPool::try_init_device, then the permuted commitments
       Access("fixed_values", "host", "drain"),
       \* phase 3: the permutation products
       Access("fixed_values", "error", "drain"),
       \* phase 4a: evaluate_h_device borrows all before it launches
       Access("fixed_values", "panic", "borrow"),
       Access("permutation_polys", "panic", "launch"),
       \* phase 5: the sigma evaluations and the multiopen
       Access("permutation_polys", "host", "drain") >>

\* The prover joins the warm thread before phase 5.
MCJoinAt == 6

MCPolys == [c \in MCCells |-> IF c = "fixed_values" THEN 2 ELSE 1]
==============================================================================
