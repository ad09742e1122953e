------------------------------ MODULE MCArena ------------------------------
(* Instances of Arena for TLC.  Allocations and storage are only compared. *)
EXTENDS Arena, TLC

Symmetry == Permutations(Bases) \cup Permutations(Ids)
=============================================================================
