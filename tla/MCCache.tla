------------------------------ MODULE MCCache ------------------------------
(* Instances of MetadataCache for TLC. *)
EXTENDS MetadataCache, TLC

CacheSymmetry == Permutations(Tokens) \cup Permutations(Loads)
============================================================================
