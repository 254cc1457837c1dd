----------------------------- MODULE MCLineage -----------------------------
(* Instances of LineageSpool for TLC. *)
EXTENDS LineageSpool, TLC

\* The fourth event is larger than the whole spool.
Sizes == [e \in 1..MaxEvents |-> IF e = 4 THEN MaxBytes + 1 ELSE 1]
============================================================================
