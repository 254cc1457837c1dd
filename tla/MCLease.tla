------------------------------ MODULE MCLease ------------------------------
(* Instances of MaintenanceLease for TLC. *)
EXTENDS MaintenanceLease, TLC

LeaseSymmetry == Permutations(Holders)
============================================================================
