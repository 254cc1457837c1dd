------------------------------ MODULE MCWrite ------------------------------
(* Instances of WriteCommit for TLC. *)
EXTENDS WriteCommit, TLC

CONSTANTS s1, s2, s3

TwoRewrites == {[s \in Stmts |-> "rewrite"]}
WriteSymmetry == Permutations(Stmts)
============================================================================
