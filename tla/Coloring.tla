------------------------------ MODULE Coloring ------------------------------
(***************************************************************************)
(* Colouring one partition's interference graph: coalesce_graph and        *)
(* paint_graph (src/codegen/regalloc/paint.c) inside the scratch loop of   *)
(* paint_block (color.c).                                                  *)
(*                                                                         *)
(* Nodes are merged along affinities when Briggs' test allows it, removed  *)
(* from the graph one by one onto a stack, and given a register as they    *)
(* are popped.  When the painted block needs more scratch registers than   *)
(* were kept aside, one more is taken off the palette and everything but   *)
(* the merging is done again.                                              *)
(*                                                                         *)
(* Heuristics only choose among steps that are all legal, so they are left *)
(* open: which node to remove next among equals (index, cost), which       *)
(* register of the chosen class to take (hints, neighbour preferences),    *)
(* the order of the affinities (weights), and whether a node that could    *)
(* only get a clobbered register is spilled instead (its call weight).     *)
(***************************************************************************)
EXTENDS Integers, Sequences, FiniteSets

CONSTANTS
  Nodes,        \* the nodes of the graph
  Caller,       \* caller_mask
  Callee,       \* callee_mask
  Scratch,      \* caller-saved registers in the order scratch_regs takes them
  Setups,       \* bound: what sweep_instr has noted of the nodes: registers
                \* forbidden to each, those its calls clobber, affinities
  SPILL         \* VR_SPILL

Regs == Caller \cup Callee

ASSUME GraphFinite == IsFiniteSet(Nodes) /\ IsFiniteSet(Regs)

ASSUME ScratchIsCaller == Scratch \in Seq(Caller)

ASSUME SpillIsNoReg == SPILL \notin Regs

ASSUME SetupsTyped ==
  \A p \in Setups :
    /\ p.forbid \in [Nodes -> SUBSET Regs] /\ p.crossmask \in [Nodes -> SUBSET Regs]
    /\ p.affs \in Seq(Nodes \X Nodes)

VARIABLES
  edge,       \* the interference build_graph found; never changes
  ban,        \* the registers it found forbidden to each node; never changes
  row,        \* CRNode.row: the graph after the merges
  forbid,     \* CRNode.forbid
  crossmask,  \* CRNode.crossmask
  affs,       \* the affinities still to be tried
  rep,        \* the node each node was merged into (node_find)
  phase,      \* where paint_block is
  s,          \* scratch registers kept off the palette
  active,     \* the nodes in state CRN_ACTIVE
  deg,        \* CRNode.deg
  stack,      \* Graph.stack
  easy,       \* the nodes that had a free register for certain when removed
  home        \* Reg.home of the nodes in this partition

vars == <<edge, ban, row, forbid, crossmask, affs, rep, phase, s, active, deg, stack,
          easy, home>>

(* set_palette: the registers a node may get.                              *)
Palette == Regs \ {Scratch[k] : k \in 1..s}
Avail(n) == Palette \ forbid[n]

Painted == phase \in {"check", "done"}

(* The contract: the homes count once the block is painted.                *)
PC == INSTANCE ProperColoring WITH
        status <- IF phase = "done" THEN "done"
                  ELSE IF phase = "check" THEN "painted" ELSE "open",
        home <- IF Painted THEN home ELSE [n \in Nodes |-> SPILL]

Graphs == PC!Graphs

Roots == {n \in Nodes : rep[n] = n}

-----------------------------------------------------------------------------
(* A graph as build_graph has swept it, with affinities between distinct   *)
(* nodes, before anything was merged.                                      *)
Init ==
  /\ edge \in Graphs
  /\ row = edge
  /\ \E p \in Setups : ban = p.forbid /\ crossmask = p.crossmask /\ affs = p.affs
  /\ forbid = ban
  /\ rep = [n \in Nodes |-> n]
  /\ phase = "coalesce"
  /\ s = 0
  /\ active = {}
  /\ deg = [n \in Nodes |-> 0]
  /\ stack = <<>>
  /\ easy = {}
  /\ home = [n \in Nodes |-> SPILL]

(* Mutation: hard neighbours may be as many as the registers.              *)
BriggsAtLimit(a, b) ==
  LET k == Cardinality(Palette \ (forbid[a] \cup forbid[b]))
      big == {t \in row[a] \cup row[b] : Cardinality(row[t]) >= k}
  IN k > 0 /\ Cardinality(big) <= k

(* briggs_ok: the merged node would have fewer than k neighbours that are  *)
(* themselves hard to colour.                                              *)
BriggsOk(a, b) ==
  LET k == Cardinality(Palette \ (forbid[a] \cup forbid[b]))
      big == {t \in row[a] \cup row[b] : Cardinality(row[t]) >= k}
  IN k > 0 /\ Cardinality(big) < k

(* Mutation: the neighbours of b still name b.                             *)
HalfMergedRow(a, b) ==
  [n \in Nodes |-> IF n = b THEN {} ELSE IF n = a THEN row[a] \cup row[b] ELSE row[n]]

(* merge_nodes: every neighbour of b becomes a neighbour of a instead.     *)
MergedRow(a, b) ==
  [n \in Nodes |->
     IF n = b THEN {}
     ELSE IF n = a THEN row[a] \cup row[b]
     ELSE IF n \in row[b] THEN (row[n] \ {b}) \cup {a}
     ELSE row[n]]

(* Mutation: the merged node forgets what was forbidden to b.              *)
MergeWithoutMask(a, b) ==
  /\ row' = MergedRow(a, b)
  /\ crossmask' = [crossmask EXCEPT ![a] = @ \cup crossmask[b]]
  /\ rep' = [n \in Nodes |-> IF rep[n] = b THEN a ELSE rep[n]]
  /\ UNCHANGED forbid

Merge(a, b) ==
  /\ row' = MergedRow(a, b)
  /\ forbid' = [forbid EXCEPT ![a] = @ \cup forbid[b]]
  /\ crossmask' = [crossmask EXCEPT ![a] = @ \cup crossmask[b]]
  /\ rep' = [n \in Nodes |-> IF rep[n] = b THEN a ELSE rep[n]]

(* Mutation: neighbours may be merged.                                     *)
MergeableNeighbors(a, b) == a # b /\ BriggsOk(a, b)

Mergeable(a, b) == a # b /\ b \notin row[a] /\ BriggsOk(a, b)

(* One iteration of coalesce_graph, which runs with the full palette.      *)
Coalesce ==
  /\ phase = "coalesce"
  /\ affs # <<>>
  /\ affs' = Tail(affs)
  /\ LET a == rep[affs[1][1]]
         b == rep[affs[1][2]]
     IN IF Mergeable(a, b) THEN Merge(a, b)
                           ELSE UNCHANGED <<row, forbid, crossmask, rep>>
  /\ UNCHANGED <<edge, ban, phase, s, active, deg, stack, easy, home>>

(* Mutation: the degrees are those from before the merges.                 *)
SweptDegree(n) == Cardinality(edge[n])

Degree(n) == Cardinality(row[n])

(* The head of paint_block's loop: set_palette, reset_nodes.  Nothing is   *)
(* painted with an empty palette.                                          *)
ResetNodes ==
  /\ \/ phase = "coalesce" /\ affs = <<>>
     \/ phase = "reset"
  /\ deg' = [n \in Nodes |-> Degree(n)]
  /\ active' = Roots
  /\ easy' = {}
  /\ home' = [n \in Nodes |-> SPILL]
  /\ phase' = IF Palette = {} THEN "check" ELSE "push"
  /\ UNCHANGED <<edge, ban, row, forbid, crossmask, affs, rep, s, stack>>

(* Mutation: as many neighbours as registers is taken for few enough.      *)
EasyAtLimit == {n \in active : deg[n] <= Cardinality(Avail(n))}

Easy == {n \in active : deg[n] < Cardinality(Avail(n))}

(* push_node of what pick_node returns: a node that is sure to find a      *)
(* register if there is one, and a candidate for spilling otherwise.       *)
PushNode ==
  /\ phase = "push"
  /\ \E n \in IF Easy # {} THEN Easy ELSE active :
       /\ active' = active \ {n}
       /\ stack' = Append(stack, n)
       /\ easy' = IF n \in Easy THEN easy \cup {n} ELSE easy
       /\ deg' = [m \in Nodes |-> IF m \in row[n] \cap active' THEN deg[m] - 1 ELSE deg[m]]
  /\ UNCHANGED <<edge, ban, row, forbid, crossmask, affs, rep, phase, s, home>>

(* paint_graph's first loop has stacked every node that was not merged.    *)
AllPushed ==
  /\ phase = "push"
  /\ Len(stack) + Cardinality(Nodes \ Roots) = Cardinality(Nodes)
  /\ phase' = "select"
  /\ UNCHANGED <<edge, ban, row, forbid, crossmask, affs, rep, s, active, deg, stack,
                 easy, home>>

(* pick_color: a register no call clobbers, a caller-saved one if there is *)
(* one; when only clobbered registers are left, one of them or none.       *)
PickColor(n, ok) ==
  LET safe == ok \cap (Callee \cup (Caller \ crossmask[n]))
  IN IF ok = {} THEN {SPILL}
     ELSE IF safe = {} THEN ok \cup {SPILL}
     ELSE IF safe \cap Caller # {} THEN safe \cap Caller
     ELSE safe

(* One iteration of select_colors.                                         *)
SelectColor ==
  /\ phase = "select"
  /\ stack # <<>>
  /\ LET n == stack[Len(stack)]
         used == {home[m] : m \in row[n]}
     IN \E h \in PickColor(n, Avail(n) \ used) : home' = [home EXCEPT ![n] = h]
  /\ stack' = SubSeq(stack, 1, Len(stack) - 1)
  /\ UNCHANGED <<edge, ban, row, forbid, crossmask, affs, rep, phase, s, active, deg, easy>>

CopyMerged ==
  /\ phase = "select"
  /\ stack = <<>>
  /\ home' = [n \in Nodes |-> home[rep[n]]]
  /\ phase' = "check"
  /\ UNCHANGED <<edge, ban, row, forbid, crossmask, affs, rep, s, active, deg, stack, easy>>

(* Mutation: the palette is painted again without the extra register.      *)
CheckForever ==
  /\ phase = "check"
  /\ \E need \in 0..Len(Scratch) :
       IF need <= s THEN phase' = "done" ELSE phase' = "reset"
  /\ UNCHANGED <<edge, ban, row, forbid, crossmask, affs, rep, s, active, deg, stack,
                 easy, home>>

(* The end of paint_block's loop.  block_scratch never asks for more than  *)
(* the maximum; what it asks for depends on the homes and the code.        *)
CheckScratch ==
  /\ phase = "check"
  /\ \E need \in 0..Len(Scratch) :
       IF need <= s THEN phase' = "done" /\ s' = s
                    ELSE phase' = "reset" /\ s' = s + 1
  /\ UNCHANGED <<edge, ban, row, forbid, crossmask, affs, rep, active, deg, stack, easy, home>>

Next ==
  \/ Coalesce
  \/ ResetNodes
  \/ PushNode
  \/ AllPushed
  \/ SelectColor
  \/ CopyMerged
  \/ CheckScratch

Spec == Init /\ [][Next]_vars

-----------------------------------------------------------------------------
TypeOK ==
  /\ edge \in Graphs
  /\ ban \in [Nodes -> SUBSET Regs]
  /\ row \in Graphs
  /\ forbid \in [Nodes -> SUBSET Regs]
  /\ crossmask \in [Nodes -> SUBSET Regs]
  /\ affs \in Seq(Nodes \X Nodes)
  /\ rep \in [Nodes -> Nodes]
  /\ phase \in {"coalesce", "reset", "push", "select", "check", "done"}
  /\ s \in 0..Len(Scratch)
  /\ active \subseteq Nodes
  /\ deg \in [Nodes -> Nat]
  /\ stack \in Seq(Nodes)
  /\ easy \subseteq Nodes
  /\ home \in [Nodes -> Regs \cup {SPILL}]

(* Two vregs that are live together never share a register, whether they   *)
(* were merged with others or not (verifiy.c:153-167): a merge keeps the   *)
(* edges of both nodes, and a node is coloured against all its neighbours. *)
NeighborsApart ==
  Painted => \A n \in Nodes : \A m \in edge[n] : home[n] = SPILL \/ home[n] # home[m]

(* No vreg sits in a register that an instruction it lives across          *)
(* destroys (verifiy.c:183-201), nor in a register kept for scratch, even  *)
(* when it got its register through a merge (paint.c:160-187).             *)
HomesAllowed ==
  Painted => \A n \in Nodes : home[n] \in (Palette \ ban[n]) \cup {SPILL}

(* The degree of a node that is still in the graph is its number of        *)
(* neighbours still in the graph (paint.c:4-20, 160-187).                  *)
DegreesExact ==
  phase = "push" => \A n \in active : deg[n] = Cardinality(row[n] \cap active)

(* What merging, removing and colouring keep true of the graph, through    *)
(* every retry: neighbours apart, forbidden and reserved registers         *)
(* avoided, and degrees that count the neighbours left (paint.c:4-215,     *)
(* color.c:101-111).                                                       *)
ColoringInv == TypeOK /\ NeighborsApart /\ HomesAllowed /\ DegreesExact

(* A node that was removed while it had fewer neighbours than registers    *)
(* gets one unless it crosses a call: the degrees the removal relied on,   *)
(* after any merges, bound what its neighbours can take (paint.c:4-42,     *)
(* 84-97).                                                                 *)
EasyNodesColored ==
  Painted => \A n \in easy : home[n] = SPILL => crossmask[n] # {}

(* Every set of nodes has one with fewer than k neighbours in the set, so  *)
(* that removing such nodes one by one empties the graph without a spill.  *)
Simplifiable(g, k) ==
  \A S \in SUBSET Nodes \ {{}} : \E n \in S : Cardinality(g[n] \cap S) < k

(* Coalescing is conservative: where the sweep found the same registers    *)
(* forbidden to everyone, it never makes a graph that colours without      *)
(* spills one that may need one (paint.c:139-158).                         *)
BriggsConservative ==
  \A F \in SUBSET Regs :
    (\A n \in Nodes : ban[n] = F) /\ Simplifiable(edge, Cardinality(Regs \ F))
      => Simplifiable(row, Cardinality(Regs \ F))

(* Nothing is spilled that could have been kept: not by the order of the   *)
(* removal, and not by what was merged before (paint.c:4-42, 139-158).     *)
NoNeedlessSpill == EasyNodesColored /\ BriggsConservative

(* The colouring keeps the contract of ProperColoring.                     *)
Contract == PC!Spec

(* Every partition is painted in the end: whatever is done next, fewer     *)
(* scratch registers are left to keep, or a later loop of the painting is  *)
(* reached, or the loop has less before it (paint.c:113-119, 130-215,      *)
(* color.c:101-111).                                                       *)
PhasesLeft == CHOOSE k \in 0..5 :
  <<"done", "check", "select", "push", "reset", "coalesce">>[k + 1] = phase
LoopLeft == IF phase = "coalesce" THEN Len(affs)
            ELSE IF phase = "push" THEN Cardinality(active) ELSE Len(stack)

Before(x, y) == \E i \in DOMAIN x : x[i] < y[i] /\ \A j \in 1..i - 1 : x[j] = y[j]
Left == IF phase = "coalesce" THEN <<Len(Scratch) + 1, 5, LoopLeft>>
        ELSE <<Len(Scratch) - s, PhasesLeft, LoopLeft>>

NearerTheEnd == [][Before(Left', Left)]_vars
=============================================================================
