---------------------------- MODULE MCBlockAlloc ----------------------------
(* Instances of BlockAlloc for TLC.                                        *)
EXTENDS BlockAlloc, TLC

MCScratch == <<Ax>>

Symmetry == Permutations(Vregs)
=============================================================================
