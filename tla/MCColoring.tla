----------------------------- MODULE MCColoring -----------------------------
(* All graphs of four nodes to be coloured with three registers, two of    *)
(* which calls clobber. Three families: registers forbidden to some nodes  *)
(* and up to one affinity; calls crossed and up to one affinity; up to     *)
(* three affinities, with three registers or two.                          *)
EXTENDS Coloring, TLC

CONSTANTS c1, c2, e1

MCScratch == <<c1>>

All(r) == [n \in Nodes |-> r]
Affinities(k) == UNION {[1..n -> {p \in Nodes \X Nodes : p[1] # p[2]}] : n \in 0..k}

MCSetups ==
  [forbid : [Nodes -> {{}, {c2}}], crossmask : {All({})}, affs : Affinities(1)]
    \cup [forbid : {All({})}, crossmask : [Nodes -> {{}, {c1, c2}}], affs : Affinities(1)]
    \cup [forbid : {All({}), All({c2})}, crossmask : {All({})}, affs : Affinities(3)]

Symmetry == Permutations(Nodes)
=============================================================================
