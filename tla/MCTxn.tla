------------------------------- MODULE MCTxn -------------------------------
(* Instances of Txn for TLC. *)
EXTENDS Txn, TLC

CONSTANTS t1, t2, t3, t4, c1, c2

OneCatalog == [t \in Tables |-> c1]
MixedCatalogs == [t \in Tables |-> IF t \in {t1, t2} THEN c1 ELSE c2]

TxnSymmetry == Permutations(Txns) \cup Permutations(Procs)
============================================================================
