--------------------------- MODULE ColoringProofs ---------------------------
(***************************************************************************)
(* The painting of a partition, for every graph, palette and retry: it     *)
(* keeps its invariants, implements its contract, spills nothing needlessly*)
(* and comes nearer to its end with every step.                            *)
(***************************************************************************)
EXTENDS Coloring, FiniteSetTheorems, TLAPS

USE DEF Regs, Graphs, PC!Graphs, Roots

OnStack == {stack[k] : k \in 1..Len(stack)}

(* What merging keeps between the graph and the one that was swept: an     *)
(* edge is between the roots of its ends, a root is forbidden what its     *)
(* members are, and what is forbidden to all stays just that.              *)
MergesExact ==
  /\ \A n \in Nodes : rep[rep[n]] = rep[n]
  /\ \A n \in Nodes : ban[n] \subseteq forbid[rep[n]]
  /\ \A n \in Nodes : \A m \in edge[n] : rep[m] \in row[rep[n]]
  /\ \A n \in Nodes : \A m \in row[n] : rep[n] = n /\ rep[m] = m

(* Merging keeps a uniform mask uniform, and the graph simplifiable.       *)
MergesSafe ==
  /\ \A F \in SUBSET Regs :
       (\A n \in Nodes : ban[n] = F) => \A n \in Nodes : forbid[n] = F
  /\ BriggsConservative
  /\ phase = "coalesce" => s = 0

(* The stack holds roots, none twice; under an easy node lie the nodes     *)
(* removed before it, and its neighbours elsewhere are too few to take     *)
(* every register it may have.                                             *)
StackSound ==
  /\ OnStack \subseteq Roots
  /\ \A j, k \in 1..Len(stack) : stack[j] = stack[k] => j = k
  /\ \A k \in 1..Len(stack) : stack[k] \in easy =>
       Cardinality(row[stack[k]] \cap (Roots \ {stack[j] : j \in 1..k}))
         < Cardinality(Avail(stack[k]))
  /\ phase \notin {"push", "select"} => stack = <<>>

(* While nodes are removed the graph is split into the active ones and     *)
(* those on the stack.                                                     *)
Removing ==
  phase = "push" =>
    /\ active = Roots \ OnStack
    /\ easy \subseteq OnStack
    /\ \A n \in Nodes : home[n] = SPILL

(* While registers are picked, those given respect masks and neighbours,   *)
(* and the nodes still on the stack have none.                             *)
Picking ==
  phase = "select" =>
    /\ \A n \in Nodes : home[n] \in Avail(n) \cup {SPILL}
    /\ \A n \in Nodes : \A m \in row[n] : home[n] = SPILL \/ home[n] # home[m]
    /\ \A n \in OnStack : home[n] = SPILL
    /\ easy \subseteq Roots
    /\ \A n \in easy \ OnStack : home[n] = SPILL => crossmask[n] # {}

IInv ==
  /\ ColoringInv
  /\ EasyNodesColored
  /\ MergesExact
  /\ MergesSafe
  /\ StackSound
  /\ Removing
  /\ Picking

-----------------------------------------------------------------------------
(* Every set of nodes and every set of registers is finite, and so is the  *)
(* number of its elements.                                                 *)
LEMMA NodesFinite ==
  ASSUME NEW S \in SUBSET Nodes
  PROVE  IsFiniteSet(S) /\ Cardinality(S) \in Nat
BY GraphFinite, FS_Subset, FS_CardinalityType

(* A set of registers has a number of elements.                            *)
LEMMA RegsFinite ==
  ASSUME NEW S \in SUBSET Regs
  PROVE  IsFiniteSet(S) /\ Cardinality(S) \in Nat
BY GraphFinite, FS_Subset, FS_CardinalityType

(* A set of nodes inside another has no more elements.                     *)
LEMMA FewerNodes ==
  ASSUME NEW T \in SUBSET Nodes, NEW S \in SUBSET T
  PROVE  Cardinality(S) <= Cardinality(T)
BY NodesFinite, FS_Subset

(* Merging two nodes that are not neighbours leaves a graph.               *)
LEMMA MergeKeepsGraph ==
  ASSUME row \in Graphs, NEW a \in Nodes, NEW b \in Nodes, a # b, b \notin row[a]
  PROVE  MergedRow(a, b) \in Graphs
<1>1. row \in [Nodes -> SUBSET Nodes]
  OBVIOUS
<1>2. MergedRow(a, b) \in [Nodes -> SUBSET Nodes]
  BY <1>1 DEF MergedRow
<1>3. ASSUME NEW m \in Nodes, NEW n \in Nodes
      PROVE  n \notin MergedRow(a, b)[n]
             /\ (m \in MergedRow(a, b)[n] <=> n \in MergedRow(a, b)[m])
  BY <1>3 DEF MergedRow
<1> QED
  BY <1>2, <1>3

(* Briggs' test: when fewer than k neighbours of a merged node have k      *)
(* neighbours themselves, the merged graph simplifies if the graph did     *)
(* (paint.c:139-158).                                                      *)
LEMMA BriggsKeeps ==
  ASSUME row \in Graphs, NEW a \in Nodes, NEW b \in Nodes, a # b, b \notin row[a],
         NEW k \in Nat, k > 0,
         Cardinality({t \in row[a] \cup row[b] : Cardinality(row[t]) >= k}) < k,
         Simplifiable(row, k)
  PROVE  Simplifiable(MergedRow(a, b), k)
<1> DEFINE merged == MergedRow(a, b)
           big == {t \in row[a] \cup row[b] : Cardinality(row[t]) >= k}
<1>1. row \in [Nodes -> SUBSET Nodes] /\ merged \in [Nodes -> SUBSET Nodes]
  BY MergeKeepsGraph
<1> SUFFICES ASSUME NEW S \in SUBSET Nodes \ {{}}
             PROVE  \E n \in S : Cardinality(merged[n] \cap S) < k
  BY DEF Simplifiable
<1> HIDE DEF merged
<1>2. CASE b \in S
  <2>1. merged[b] \cap S = {}
    BY DEF MergedRow, merged
  <2> QED
    BY <1>2, <2>1, FS_EmptySet
<1>3. CASE b \notin S /\ a \notin S
  <2>1. PICK n \in S : Cardinality(row[n] \cap S) < k
    BY DEF Simplifiable
  <2>2. merged[n] \cap S = row[n] \cap S
    BY <1>3, <2>1 DEF MergedRow, merged
  <2> QED
    BY <2>1, <2>2
<1>4. CASE b \notin S /\ a \in S
  <2> SUFFICES ASSUME \A n \in S : ~(Cardinality(merged[n] \cap S) < k)
               PROVE  FALSE
    OBVIOUS
  <2>1. merged[a] \cap S = (row[a] \cup row[b]) \cap S
    BY <1>4 DEF MergedRow, merged
  <2>2. PICK t \in (row[a] \cup row[b]) \cap S : t \notin big
    <3> SUFFICES ASSUME (row[a] \cup row[b]) \cap S \subseteq big
                 PROVE  FALSE
      OBVIOUS
    <3>1. big \in SUBSET Nodes
      BY <1>1
    <3>2. Cardinality((row[a] \cup row[b]) \cap S) <= Cardinality(big)
      BY <3>1, FewerNodes
    <3>3. Cardinality((row[a] \cup row[b]) \cap S) \in Nat /\ Cardinality(big) \in Nat
      BY <3>1, <1>1, NodesFinite
    <3>4. ~(Cardinality((row[a] \cup row[b]) \cap S) < k)
      BY <1>4, <2>1
    <3>5. Cardinality(big) < k
      OBVIOUS
    <3> QED
      BY <3>2, <3>3, <3>4, <3>5
  <2>3. t \in Nodes /\ Cardinality(row[t]) \in Nat /\ Cardinality(row[t]) < k
    BY <1>1, <2>2, NodesFinite
  <2>4. t # a /\ t # b
    BY <1>4, <2>2
  <2>5. Cardinality(merged[t]) <= Cardinality(row[t])
    <3>1. CASE t \in row[b]
      <4>1. b \in row[t] /\ merged[t] = (row[t] \ {b}) \cup {a}
        BY <2>3, <2>4, <3>1 DEF MergedRow, merged
      <4>2. IsFiniteSet(row[t]) /\ IsFiniteSet(row[t] \ {b})
        BY <1>1, <2>3, NodesFinite
      <4>3. Cardinality(row[t] \ {b}) = Cardinality(row[t]) - 1
        BY <4>1, <4>2, FS_RemoveElement
      <4>4. Cardinality((row[t] \ {b}) \cup {a}) <= Cardinality(row[t] \ {b}) + 1
        <5>1. Cardinality((row[t] \ {b}) \cup {a}) =
                IF a \in row[t] \ {b} THEN Cardinality(row[t] \ {b})
                ELSE Cardinality(row[t] \ {b}) + 1
          BY <4>2, FS_AddElement, Zenon
        <5> QED
          BY <2>3, <4>3, <5>1
      <4> QED
        BY <2>3, <4>1, <4>3, <4>4
    <3>2. CASE t \notin row[b]
      BY <2>3, <2>4, <3>2 DEF MergedRow, merged
    <3> QED
      BY <3>1, <3>2
  <2>6. Cardinality(merged[t] \cap S) <= Cardinality(merged[t])
    BY <1>1, <2>3, FewerNodes
  <2>7. Cardinality(merged[t] \cap S) \in Nat /\ Cardinality(merged[t]) \in Nat
    BY <1>1, <2>3, NodesFinite
  <2>8. ~(Cardinality(merged[t] \cap S) < k)
    BY <2>2
  <2> QED
    BY <2>3, <2>5, <2>6, <2>7, <2>8
<1> QED
  BY <1>2, <1>3, <1>4

-----------------------------------------------------------------------------
(* What the sweep leaves satisfies the invariant.                          *)
LEMMA InitSound == Init => IInv
<1> SUFFICES ASSUME Init PROVE IInv
  OBVIOUS
<1> USE DEF Init
<1>1. PICK p \in Setups : ban = p.forbid /\ crossmask = p.crossmask /\ affs = p.affs
  OBVIOUS
<1>2. Len(Scratch) \in Nat
  BY ScratchIsCaller
<1>3. TypeOK
  BY <1>1, <1>2, SetupsTyped DEF TypeOK
<1>4. ColoringInv /\ EasyNodesColored
  BY <1>3 DEF ColoringInv, NeighborsApart, HomesAllowed, DegreesExact, EasyNodesColored,
              Painted
<1>5. MergesExact
  BY <1>3 DEF MergesExact, TypeOK
<1>6. MergesSafe
  BY DEF MergesSafe, BriggsConservative
<1>7. StackSound /\ Removing /\ Picking
  BY DEF StackSound, Removing, Picking, OnStack
<1> QED
  BY <1>4, <1>5, <1>6, <1>7 DEF IInv

(* Trying an affinity, which merges two nodes or leaves them.              *)
LEMMA CoalesceKeeps ==
  ASSUME IInv, Coalesce
  PROVE  IInv'
<1> DEFINE a == rep[affs[1][1]]
           b == rep[affs[1][2]]
<1> USE DEF Coalesce
<1>1. TypeOK /\ s = 0 /\ stack = <<>>
  BY DEF IInv, ColoringInv, MergesSafe, StackSound
<1>2. a \in Nodes /\ b \in Nodes /\ affs' \in Seq(Nodes \X Nodes)
  <2>1. affs \in Seq(Nodes \X Nodes) /\ affs # <<>> /\ rep \in [Nodes -> Nodes]
    BY <1>1 DEF TypeOK
  <2>2. affs[1] \in Nodes \X Nodes
    BY <2>1
  <2> QED
    BY <2>1, <2>2
<1>3. StackSound' /\ Removing' /\ Picking'
  BY <1>1 DEF StackSound, Removing, Picking, OnStack
<1>6. IF Mergeable(a, b) THEN Merge(a, b) ELSE UNCHANGED <<row, forbid, crossmask, rep>>
  OBVIOUS
<1>7. rep[a] = a /\ rep[b] = b
  BY <1>1, <1>2 DEF IInv, MergesExact, TypeOK
<1> HIDE DEF a, b
<1>4. CASE Mergeable(a, b)
  <2>1. Merge(a, b)
    BY <1>4, <1>6
  <2>2. a # b /\ b \notin row[a] /\ BriggsOk(a, b)
    BY <1>4 DEF Mergeable
  <2>3. row \in Graphs /\ row' = MergedRow(a, b) /\ row' \in Graphs
    BY <1>1, <1>2, <2>1, <2>2, MergeKeepsGraph DEF TypeOK, Merge
  <2>4. TypeOK'
    <3>1. forbid' \in [Nodes -> SUBSET Regs] /\ crossmask' \in [Nodes -> SUBSET Regs]
      BY <1>1, <1>2, <2>1 DEF TypeOK, Merge
    <3>2. rep' \in [Nodes -> Nodes]
      BY <1>1, <1>2, <2>1 DEF TypeOK, Merge
    <3> QED
      BY <1>1, <1>2, <2>3, <3>1, <3>2 DEF TypeOK
  <2>5. (ColoringInv /\ EasyNodesColored)'
    BY <2>4 DEF ColoringInv, NeighborsApart, HomesAllowed, DegreesExact, EasyNodesColored,
                Painted
  <2>6. ASSUME NEW n \in Nodes, NEW m \in row'[n] 
        PROVE  n # b /\ m # b /\ m \in Nodes /\ rep[n] = n /\ rep[m] = m
    <3>1. row'[n] = IF n = b THEN {}
                    ELSE IF n = a THEN row[a] \cup row[b]
                    ELSE IF n \in row[b] THEN (row[n] \ {b}) \cup {a}
                    ELSE row[n]
      BY <2>3 DEF MergedRow
    <3>2. b \notin row[b] /\ (n \notin row[b] => b \notin row[n])
      BY <1>2, <2>3 DEF Graphs
    <3>3. row'[n] \subseteq Nodes
      BY <2>3 DEF Graphs
    <3>4. \A k \in Nodes : \A l \in row[k] : rep[k] = k /\ rep[l] = l
      BY <1>1 DEF IInv, MergesExact
    <3>5. \A k \in Nodes : k \in row[b] => b \in row[k]
      BY <1>2, <2>3 DEF Graphs
    <3> QED
      BY <1>2, <1>7, <2>2, <3>1, <3>2, <3>3, <3>4, <3>5
  <2>7. MergesExact'
    <3> USE <1>1, <1>2, <1>7, <2>1, <2>2 DEF IInv, MergesExact, TypeOK, Merge
    <3>1. \A n \in Nodes : rep'[rep'[n]] = rep'[n]
      OBVIOUS
    <3>2. ASSUME NEW n \in Nodes
          PROVE  ban'[n] \subseteq forbid'[rep'[n]]
      <4>1. forbid' = [forbid EXCEPT ![a] = @ \cup forbid[b]]
        OBVIOUS
      <4>2. rep'[n] \in Nodes /\ ban'[n] \subseteq forbid[rep[n]]
        OBVIOUS
      <4>3. CASE rep[n] = b
        <5>1. rep'[n] = a /\ forbid'[a] = forbid[a] \cup forbid[b]
          BY <4>1, <4>3
        <5> QED
          BY <4>2, <4>3, <5>1
      <4>4. CASE rep[n] # b
        <5>1. rep'[n] = rep[n] /\ forbid[rep[n]] \subseteq forbid'[rep[n]]
          BY <4>1, <4>4
        <5> QED
          BY <4>2, <5>1
      <4> QED
        BY <4>3, <4>4
    <3>3. \A n \in Nodes : \A m \in row'[n] : rep'[n] = n /\ rep'[m] = m
      <4> SUFFICES ASSUME NEW n \in Nodes, NEW m \in row'[n]
                   PROVE  rep'[n] = n /\ rep'[m] = m
        OBVIOUS
      <4>1. n # b /\ m # b /\ m \in Nodes
        BY <2>6
      <4>2. rep[n] = n /\ rep[m] = m
        BY <2>6
      <4> QED
        BY <4>1, <4>2
    <3>4. \A n \in Nodes : \A m \in edge'[n] : rep'[m] \in row'[rep'[n]]
      <4> SUFFICES ASSUME NEW n \in Nodes, NEW m \in edge[n]
                   PROVE  rep'[m] \in row'[rep'[n]]
        OBVIOUS
      <4>1. m \in Nodes /\ rep[m] \in row[rep[n]] /\ rep[n] \in row[rep[m]]
        OBVIOUS
      <4>2. CASE rep[n] = b
        BY <2>3, <4>1, <4>2 DEF MergedRow
      <4>3. CASE rep[m] = b /\ rep[n] # b
        BY <2>3, <4>1, <4>3 DEF MergedRow
      <4>4. CASE rep[m] # b /\ rep[n] # b
        <5>1. rep'[m] = rep[m] /\ rep'[n] = rep[n] /\ rep[n] \in Nodes
          BY <4>1, <4>4
        <5>2. rep[m] \in MergedRow(a, b)[rep[n]]
          BY <4>1, <4>4, <5>1 DEF MergedRow
        <5> QED
          BY <2>3, <5>1, <5>2
      <4> QED
        BY <4>2, <4>3, <4>4
    <3> QED
      BY <3>1, <3>2, <3>3, <3>4
  <2>8. MergesSafe'
    <3>1. ASSUME NEW F \in SUBSET Regs, \A n \in Nodes : ban[n] = F
          PROVE  /\ \A n \in Nodes : forbid'[n] = F
                 /\ Simplifiable(edge, Cardinality(Regs \ F))
                      => Simplifiable(row', Cardinality(Regs \ F))
      <4>1. \A n \in Nodes : forbid[n] = F
        BY <3>1 DEF IInv, MergesSafe
      <4>2. \A n \in Nodes : forbid'[n] = F
        <5>1. forbid' = [forbid EXCEPT ![a] = F]
          BY <1>2, <2>1, <4>1 DEF Merge
        <5> QED
          BY <1>1, <1>2, <4>1, <5>1 DEF TypeOK
      <4>3. Palette \ (forbid[a] \cup forbid[b]) = Regs \ F
        BY <1>1, <1>2, <4>1 DEF Palette
      <4>4. Cardinality(Regs \ F) \in Nat
        BY RegsFinite
      <4>5. /\ Cardinality(Regs \ F) > 0
            /\ Cardinality({t \in row[a] \cup row[b] :
                              Cardinality(row[t]) >= Cardinality(Regs \ F)})
                 < Cardinality(Regs \ F)
        BY <2>2, <4>3 DEF BriggsOk
      <4>6. Simplifiable(edge, Cardinality(Regs \ F)) => Simplifiable(row, Cardinality(Regs \ F))
        BY <3>1 DEF IInv, MergesSafe, BriggsConservative
      <4> QED
        BY <1>2, <2>2, <2>3, <4>2, <4>4, <4>5, <4>6, BriggsKeeps
    <3> QED
      BY <1>1, <3>1 DEF MergesSafe, BriggsConservative, Simplifiable
  <2> QED
    BY <1>3, <2>5, <2>7, <2>8 DEF IInv
<1>5. CASE ~Mergeable(a, b)
  <2>1. UNCHANGED <<row, forbid, crossmask, rep>>
    BY <1>5, <1>6
  <2>2. TypeOK'
    BY <1>1, <1>2, <2>1 DEF TypeOK
  <2>3. (ColoringInv /\ EasyNodesColored)'
    BY <2>2 DEF ColoringInv, NeighborsApart, HomesAllowed, DegreesExact, EasyNodesColored,
                Painted
  <2>4. MergesExact' /\ MergesSafe'
    BY <2>1 DEF IInv, MergesExact, MergesSafe, BriggsConservative, Simplifiable
  <2> QED
    BY <1>3, <2>3, <2>4 DEF IInv
<1> QED
  BY <1>4, <1>5

(* A new round: everything back in the graph, nothing on the stack.        *)
LEMMA ResetKeeps ==
  ASSUME IInv, ResetNodes
  PROVE  IInv'
<1> USE DEF ResetNodes
<1>1. TypeOK /\ stack = <<>> /\ Len(stack) = 0 /\ OnStack = {}
  BY DEF IInv, ColoringInv, StackSound, OnStack
<1>2. \A n \in Nodes : row[n] \subseteq Roots /\ row[n] \in SUBSET Nodes
  BY <1>1 DEF IInv, MergesExact, TypeOK
<1>3. \A n \in Nodes : deg'[n] = Cardinality(row[n]) /\ deg'[n] \in Nat
  BY <1>2, NodesFinite DEF Degree
<1>4. TypeOK'
  BY <1>1, <1>3 DEF TypeOK
<1>5. NeighborsApart' /\ HomesAllowed' /\ EasyNodesColored'
  BY DEF NeighborsApart, HomesAllowed, EasyNodesColored
<1>6. DegreesExact'
  <2> SUFFICES ASSUME NEW n \in Nodes
               PROVE  deg'[n] = Cardinality(row[n] \cap Roots)
    BY <1>4 DEF DegreesExact, TypeOK
  <2>1. row[n] \cap Roots = row[n]
    BY <1>2
  <2> QED
    BY <1>3, <2>1
<1>7. MergesExact' /\ MergesSafe'
  BY DEF IInv, MergesExact, MergesSafe, BriggsConservative, Simplifiable
<1>8. StackSound' /\ Removing' /\ Picking'
  BY <1>1 DEF StackSound, Removing, Picking, OnStack
<1> QED
  BY <1>4, <1>5, <1>6, <1>7, <1>8 DEF IInv, ColoringInv

(* One node leaves the graph for the stack.                                *)
LEMMA PushKeeps ==
  ASSUME IInv, PushNode
  PROVE  IInv'
<1>1. TypeOK /\ phase = "push" /\ DegreesExact /\ stack \in Seq(Nodes)
  BY DEF IInv, ColoringInv, PushNode, TypeOK
<1>2. PICK n \in IF Easy # {} THEN Easy ELSE active :
        /\ active' = active \ {n}
        /\ stack' = Append(stack, n)
        /\ easy' = IF n \in Easy THEN easy \cup {n} ELSE easy
        /\ deg' = [m \in Nodes |-> IF m \in row[n] \cap active' THEN deg[m] - 1 ELSE deg[m]]
  BY DEF PushNode
<1>3. n \in active /\ n \in Nodes
  BY <1>1, <1>2 DEF Easy, TypeOK
<1>4. active = Roots \ OnStack /\ easy \subseteq OnStack
  BY <1>1 DEF IInv, Removing
<1>5. UNCHANGED <<edge, ban, row, forbid, crossmask, affs, rep, phase, s, home>>
  BY DEF PushNode
<1>6. /\ Len(stack) \in Nat /\ stack' \in Seq(Nodes) /\ Len(stack') = Len(stack) + 1
      /\ stack'[Len(stack')] = n
      /\ \A k \in 1..Len(stack) : stack'[k] = stack[k]
  BY <1>1, <1>2, <1>3
<1>7. OnStack' = OnStack \cup {n}
  <2>1. ASSUME NEW k \in 1..Len(stack')
        PROVE  stack'[k] \in OnStack \cup {n}
    BY <1>6 DEF OnStack
  <2>2. OnStack \cup {n} \subseteq OnStack'
    BY <1>6 DEF OnStack
  <2> QED
    BY <2>1, <2>2 DEF OnStack
<1>8. ASSUME NEW m \in active'
      PROVE  deg'[m] = Cardinality(row[m] \cap active') /\ deg'[m] \in Nat
  <2>1. m \in active /\ m \in Nodes /\ m # n
    BY <1>1, <1>2, <1>3, <1>8 DEF TypeOK
  <2>2. deg[m] = Cardinality(row[m] \cap active)
    BY <1>1, <2>1 DEF DegreesExact
  <2>3. row[m] \cap active \in SUBSET Nodes
    BY <1>1, <2>1 DEF TypeOK
  <2>4. row[m] \cap active' = (row[m] \cap active) \ {n}
    BY <1>2
  <2>5. Cardinality(row[m] \cap active') =
          IF n \in row[m] \cap active THEN deg[m] - 1 ELSE deg[m]
    BY <2>2, <2>3, <2>4, NodesFinite, FS_RemoveElement
  <2>6. m \in row[n] <=> n \in row[m]
    BY <1>1, <1>3, <2>1 DEF TypeOK
  <2>7. Cardinality(row[m] \cap active') \in Nat
    BY <2>3, <2>4, NodesFinite
  <2> QED
    BY <1>2, <1>3, <1>8, <2>1, <2>5, <2>6, <2>7
<1>9. TypeOK'
  <2>1. deg' \in [Nodes -> Nat]
    BY <1>1, <1>2, <1>8 DEF TypeOK
  <2> QED
    BY <1>1, <1>2, <1>3, <1>5, <1>6, <2>1 DEF TypeOK
<1>10. (ColoringInv /\ EasyNodesColored)'
  BY <1>1, <1>5, <1>8, <1>9
     DEF ColoringInv, NeighborsApart, HomesAllowed, DegreesExact, EasyNodesColored, Painted
<1>11. MergesExact' /\ MergesSafe'
  BY <1>5 DEF IInv, MergesExact, MergesSafe, BriggsConservative, Simplifiable
<1>12. StackSound'
  <2>1. OnStack' \subseteq Roots'
    BY <1>3, <1>4, <1>5, <1>7 DEF IInv, StackSound
  <2>2. \A j, k \in 1..Len(stack') : stack'[j] = stack'[k] => j = k
    <3>1. \A k \in 1..Len(stack) : stack[k] # n
      BY <1>3, <1>4 DEF OnStack
    <3> QED
      BY <1>6, <3>1 DEF IInv, StackSound
  <2>3. ASSUME NEW k \in 1..Len(stack'), stack'[k] \in easy'
        PROVE  Cardinality(row'[stack'[k]] \cap (Roots' \ {stack'[j] : j \in 1..k}))
                 < Cardinality(Avail(stack[k])')
    <3>1. Avail(stack[k])' = Avail(stack'[k])
      BY <1>5 DEF Avail, Palette
    <3>2. CASE k \in 1..Len(stack)
      <4>1. {stack'[j] : j \in 1..k} = {stack[j] : j \in 1..k}
        BY <1>6, <3>2
      <4>2. stack'[k] = stack[k] /\ stack[k] \in easy
        BY <1>2, <1>3, <1>4, <1>6, <2>3, <3>2 DEF OnStack
      <4> QED
        BY <1>5, <3>1, <3>2, <4>1, <4>2 DEF IInv, StackSound
    <3>3. CASE k = Len(stack')
      <4>1. n \in Easy
        BY <1>2, <1>3, <1>4, <1>6, <2>3, <3>3
      <4>2. {stack'[j] : j \in 1..k} = OnStack \cup {n}
        BY <1>7, <3>3 DEF OnStack
      <4>3. row[n] \cap (Roots \ (OnStack \cup {n})) = row[n] \cap active
        BY <1>1, <1>3, <1>4 DEF TypeOK
      <4>4. Cardinality(row[n] \cap active) < Cardinality(Avail(n))
        BY <1>1, <4>1 DEF DegreesExact, Easy
      <4> QED
        BY <1>5, <1>6, <3>1, <3>3, <4>2, <4>3, <4>4
    <3> QED
      BY <1>6, <3>2, <3>3
  <2> QED
    BY <1>1, <1>5, <2>1, <2>2, <2>3 DEF StackSound
<1>13. Removing' /\ Picking'
  BY <1>1, <1>2, <1>4, <1>5, <1>7 DEF IInv, Removing, Picking
<1> QED
  BY <1>10, <1>11, <1>12, <1>13 DEF IInv

(* The whole graph is on the stack.                                        *)
LEMMA AllPushedKeeps ==
  ASSUME IInv, AllPushed
  PROVE  IInv'
<1> USE DEF AllPushed
<1>1. TypeOK' /\ (ColoringInv /\ EasyNodesColored)'
  BY DEF IInv, ColoringInv, TypeOK, NeighborsApart, HomesAllowed, DegreesExact,
         EasyNodesColored, Painted
<1>2. MergesExact' /\ MergesSafe'
  BY DEF IInv, MergesExact, MergesSafe, BriggsConservative, Simplifiable
<1>3. StackSound'
  BY DEF IInv, StackSound, OnStack, Avail, Palette
<1>4. Removing' /\ Picking'
  BY DEF IInv, StackSound, Removing, Picking, OnStack, Avail, Palette
<1> QED
  BY <1>1, <1>2, <1>3, <1>4 DEF IInv

(* pick_color spills only when nothing is free or a call would destroy     *)
(* whatever is, and takes only what is free (paint.c:44-97).               *)
LEMMA PickedFree ==
  ASSUME NEW n \in Nodes, NEW ok \in SUBSET Regs, NEW h \in PickColor(n, ok)
  PROVE  /\ h \in ok \cup {SPILL}
         /\ h = SPILL => ok = {} \/ crossmask[n] # {}
<1>1. SPILL \notin ok
  BY SpillIsNoReg
<1> QED
  BY <1>1 DEF PickColor

(* Fewer nodes than registers cannot hold all of them.                     *)
LEMMA RegisterLeft ==
  ASSUME NEW S \in SUBSET Nodes, NEW A \in SUBSET Regs,
         Cardinality(S) < Cardinality(A), NEW f \in [Nodes -> Regs \cup {SPILL}]
  PROVE  \E r \in A : \A m \in S : f[m] # r
<1> SUFFICES ASSUME \A r \in A : \E m \in S : f[m] = r
             PROVE  FALSE
  OBVIOUS
<1> DEFINE g == [r \in A |-> CHOOSE m \in S : f[m] = r]
<1>1. \A r \in A : g[r] \in S /\ f[g[r]] = r
  OBVIOUS
<1>2. g \in Injection(A, S)
  <2>1. g \in [A -> S]
    BY <1>1
  <2>2. \A x, y \in A : g[x] = g[y] => x = y
    BY <1>1
  <2> QED
    BY <2>1, <2>2 DEF Injection, IsInjective
<1>3. IsFiniteSet(S) /\ Cardinality(S) \in Nat /\ Cardinality(A) \in Nat
  BY NodesFinite, RegsFinite
<1>4. Cardinality(A) <= Cardinality(S)
  BY <1>2, <1>3, FS_Injection
<1> QED
  BY <1>3, <1>4

(* The node on top of the stack gets its register.                         *)
LEMMA SelectKeeps ==
  ASSUME IInv, SelectColor
  PROVE  IInv'
<1> DEFINE n == stack[Len(stack)]
           used == {home[m] : m \in row[n]}
<1>1. TypeOK /\ phase = "select" /\ stack \in Seq(Nodes) /\ stack # <<>>
  BY DEF IInv, ColoringInv, SelectColor, TypeOK
<1>2. Len(stack) \in Nat /\ Len(stack) > 0 /\ n \in OnStack /\ n \in Nodes /\ n \in Roots
  BY <1>1 DEF IInv, StackSound, OnStack
<1>3. PICK h \in PickColor(n, Avail(n) \ used) : home' = [home EXCEPT ![n] = h]
  BY DEF SelectColor
<1>4. /\ UNCHANGED <<edge, ban, row, forbid, crossmask, affs, rep, phase, s, active, deg, easy>>
      /\ stack' = SubSeq(stack, 1, Len(stack) - 1)
  BY DEF SelectColor
<1>5. /\ stack' \in Seq(Nodes) /\ Len(stack') = Len(stack) - 1
      /\ \A k \in 1..Len(stack') : stack'[k] = stack[k]
  <2> DEFINE top == Len(stack) - 1
  <2>1. top \in 0..Len(stack) /\ stack' = SubSeq(stack, 1, top)
    BY <1>2, <1>4
  <2> HIDE DEF top
  <2>2. stack' = [k \in 1..top |-> stack[k]]
    BY <1>1, <1>2, <2>1
  <2>3. stack' \in Seq(Nodes) /\ Len(stack') = top
    BY <1>1, <1>2, <2>1, <2>2
  <2> QED
    BY <2>2, <2>3 DEF top
<1>6. OnStack' = OnStack \ {n}
  <2>1. ASSUME NEW k \in 1..Len(stack')
        PROVE  stack'[k] \in OnStack \ {n}
    BY <1>1, <1>2, <1>5 DEF IInv, StackSound, OnStack
  <2>2. ASSUME NEW k \in 1..Len(stack), stack[k] # n
        PROVE  stack[k] \in OnStack'
    <3>1. k \in 1..Len(stack')
      BY <1>2, <1>5, <2>2
    <3> QED
      BY <1>5, <3>1 DEF OnStack
  <2> QED
    BY <2>1, <2>2 DEF OnStack
<1> HIDE DEF n
<1>7. Avail(n) \ used \in SUBSET Regs
  BY DEF Avail, Palette
<1>8. /\ h \in (Avail(n) \ used) \cup {SPILL}
      /\ h = SPILL => Avail(n) \ used = {} \/ crossmask[n] # {}
  BY SMTT(30), <1>2, <1>3, <1>7, PickedFree
<1>9. TypeOK'
  BY <1>1, <1>2, <1>3, <1>4, <1>5, <1>7, <1>8 DEF TypeOK
<1>10. (ColoringInv /\ EasyNodesColored)'
  BY <1>1, <1>4, <1>9
     DEF ColoringInv, NeighborsApart, HomesAllowed, DegreesExact, EasyNodesColored, Painted
<1>11. MergesExact' /\ MergesSafe'
  BY <1>4 DEF IInv, MergesExact, MergesSafe, BriggsConservative, Simplifiable
<1>12. StackSound'
  <2>1. OnStack' \subseteq Roots'
    BY <1>4, <1>6 DEF IInv, StackSound
  <2>2. \A j, k \in 1..Len(stack') : stack'[j] = stack'[k] => j = k
    BY <1>2, <1>5 DEF IInv, StackSound
  <2>3. ASSUME NEW k \in 1..Len(stack'), stack'[k] \in easy'
        PROVE  Cardinality(row'[stack'[k]] \cap (Roots' \ {stack'[j] : j \in 1..k}))
                 < Cardinality(Avail(stack[k])')
    <3>1. stack'[k] = stack[k] /\ k \in 1..Len(stack)
      BY <1>2, <1>5
    <3>2. Avail(stack[k])' = Avail(stack[k])
      BY <1>4, <3>1 DEF Avail, Palette
    <3>3. {stack'[j] : j \in 1..k} = {stack[j] : j \in 1..k}
      BY <1>5
    <3> QED
      BY <1>4, <2>3, <3>1, <3>2, <3>3 DEF IInv, StackSound
  <2> QED
    BY <1>1, <1>4, <2>1, <2>2, <2>3 DEF StackSound
<1>13. Removing'
  BY <1>1, <1>4 DEF Removing
<1>14. Picking'
  <2>1. /\ \A m \in Nodes : home[m] \in Avail(m) \cup {SPILL}
        /\ \A m \in Nodes : \A x \in row[m] : home[m] = SPILL \/ home[m] # home[x]
        /\ \A m \in OnStack : home[m] = SPILL
        /\ easy \subseteq Roots
        /\ \A m \in easy \ OnStack : home[m] = SPILL => crossmask[m] # {}
    BY <1>1 DEF IInv, Picking
  <2>2. home \in [Nodes -> Regs \cup {SPILL}] /\ row \in Graphs
    BY <1>1 DEF TypeOK
  <2>3. home'[n] = h /\ \A m \in Nodes \ {n} : home'[m] = home[m]
    BY <1>2, <1>3, <2>2
  <2>4. ASSUME NEW m \in Nodes
        PROVE  home'[m] \in Avail(m)' \cup {SPILL}
    <3>1. Avail(m)' = Avail(m)
      BY <1>4 DEF Avail, Palette
    <3> QED
      BY <1>8, <2>1, <2>3, <3>1
  <2>5. ASSUME NEW m \in Nodes, NEW x \in row[m]
        PROVE  home'[m] = SPILL \/ home'[m] # home'[x]
    <3>1. x \in Nodes /\ x # m /\ m \in row[x]
      BY <2>2
    <3>2. CASE m = n
      BY <1>8, <2>3, <3>1, <3>2
    <3>3. CASE x = n
      BY <1>8, <2>3, <3>1, <3>3
    <3>4. CASE m # n /\ x # n
      BY <2>1, <2>3, <3>1, <3>4
    <3> QED
      BY <3>2, <3>3, <3>4
  <2>6. \A m \in OnStack' : home'[m] = SPILL
    BY <1>2, <1>6, <2>1, <2>3 DEF IInv, StackSound
  <2>7. ASSUME n \in easy, h = SPILL
        PROVE  crossmask[n] # {}
    <3> SUFFICES ASSUME Avail(n) \ used = {}
                 PROVE  FALSE
      BY <1>8, <2>7
    <3> DEFINE others == row[n] \cap (Roots \ OnStack)
    <3>1. others \in SUBSET Nodes /\ Avail(n) \in SUBSET Regs
      BY DEF Avail, Palette
    <3>2. Cardinality(others) < Cardinality(Avail(n))
      BY <1>2, <2>7 DEF IInv, StackSound, OnStack, n
    <3>3. PICK r \in Avail(n) : \A m \in others : home[m] # r
      BY <2>2, <3>1, <3>2, RegisterLeft
    <3>4. r # SPILL
      BY <3>1, SpillIsNoReg
    <3>5. ASSUME NEW m \in row[n]
          PROVE  home[m] # r
      <4>1. m \in Nodes /\ rep[m] = m
        BY <1>2, <2>2 DEF IInv, MergesExact
      <4> QED
        BY <2>1, <3>3, <3>4, <4>1
    <3> QED
      BY <3>3, <3>5
  <2>8. \A m \in easy \ OnStack' : home'[m] = SPILL => crossmask[m] # {}
    BY <1>2, <1>6, <2>1, <2>3, <2>7
  <2> QED
    BY <1>4, <2>1, <2>4, <2>5, <2>6, <2>8 DEF Picking
<1> QED
  BY <1>10, <1>11, <1>12, <1>13, <1>14 DEF IInv

(* The merged nodes take the homes of their roots.                         *)
LEMMA CopyKeeps ==
  ASSUME IInv, CopyMerged
  PROVE  IInv'
<1> USE DEF CopyMerged
<1>1. TypeOK /\ MergesExact /\ OnStack = {}
  BY DEF IInv, ColoringInv, OnStack
<1>2. TypeOK'
  BY <1>1 DEF TypeOK
<1>3. \A n \in Nodes : home'[n] = home[rep[n]] /\ rep[n] \in Nodes /\ rep[n] \in Roots
  BY <1>1 DEF TypeOK, MergesExact
<1>4. NeighborsApart'
  <2> SUFFICES ASSUME NEW n \in Nodes, NEW m \in edge[n]
               PROVE  home'[n] = SPILL \/ home'[n] # home'[m]
    BY DEF NeighborsApart
  <2>1. m \in Nodes /\ rep[m] \in row[rep[n]]
    BY <1>1 DEF TypeOK, MergesExact
  <2> QED
    BY <1>3, <2>1 DEF IInv, Picking
<1>5. HomesAllowed'
  <2> SUFFICES ASSUME NEW n \in Nodes
               PROVE  home'[n] \in (Palette \ ban[n]) \cup {SPILL}
    BY DEF HomesAllowed, Palette
  <2>1. home[rep[n]] \in Avail(rep[n]) \cup {SPILL} /\ ban[n] \subseteq forbid[rep[n]]
    BY <1>1, <1>3 DEF IInv, Picking, MergesExact
  <2> QED
    BY <1>3, <2>1 DEF Avail
<1>6. EasyNodesColored'
  BY <1>1, <1>3 DEF EasyNodesColored, IInv, Picking
<1>7. MergesExact' /\ MergesSafe'
  BY DEF IInv, MergesExact, MergesSafe, BriggsConservative, Simplifiable
<1>8. StackSound' /\ Removing' /\ Picking'
  BY DEF IInv, StackSound, Removing, Picking, OnStack, Avail, Palette
<1> QED
  BY <1>2, <1>4, <1>5, <1>6, <1>7, <1>8 DEF IInv, ColoringInv, DegreesExact

(* The painted block is accepted, or painted again.                        *)
LEMMA CheckKeeps ==
  ASSUME IInv, CheckScratch
  PROVE  IInv'
<1> USE DEF CheckScratch
<1>1. Len(Scratch) \in Nat /\ TypeOK
  BY ScratchIsCaller DEF IInv, ColoringInv
<1>2. PICK need \in 0..Len(Scratch) :
        IF need <= s THEN phase' = "done" /\ s' = s ELSE phase' = "reset" /\ s' = s + 1
  OBVIOUS
<1>3. TypeOK'
  BY <1>1, <1>2 DEF TypeOK
<1>4. NeighborsApart' /\ HomesAllowed' /\ DegreesExact' /\ EasyNodesColored'
  BY <1>2 DEF IInv, ColoringInv, NeighborsApart, HomesAllowed, DegreesExact,
              EasyNodesColored, Painted, Palette
<1>5. MergesExact' /\ MergesSafe'
  BY <1>2 DEF IInv, MergesExact, MergesSafe, BriggsConservative, Simplifiable
<1>6. StackSound' /\ Removing' /\ Picking'
  BY <1>2 DEF IInv, StackSound, Removing, Picking, OnStack
<1> QED
  BY <1>3, <1>4, <1>5, <1>6 DEF IInv, ColoringInv

(* Every step keeps the invariant.                                         *)
LEMMA StepKeeps == IInv /\ [Next]_vars => IInv'
<1> SUFFICES ASSUME IInv, [Next]_vars PROVE IInv'
  OBVIOUS
<1>1. CASE UNCHANGED vars
  <2>1. ColoringInv' /\ EasyNodesColored'
    BY <1>1 DEF IInv, ColoringInv, vars, TypeOK, NeighborsApart, HomesAllowed,
                DegreesExact, EasyNodesColored, Painted, Palette
  <2>2. MergesExact' /\ MergesSafe'
    BY <1>1 DEF IInv, vars, MergesExact, MergesSafe, BriggsConservative, Simplifiable
  <2>3. StackSound' /\ Removing' /\ Picking'
    BY <1>1 DEF IInv, vars, StackSound, Removing, Picking, OnStack, Avail, Palette
  <2> QED
    BY <2>1, <2>2, <2>3 DEF IInv
<1> QED
  BY <1>1, CoalesceKeeps, ResetKeeps, PushKeeps, AllPushedKeeps, SelectKeeps, CopyKeeps,
     CheckKeeps DEF Next

(* The invariant holds of every state of every painting.                   *)
LEMMA InvariantHolds == Spec => []IInv
<1> QED
  BY InitSound, StepKeeps, PTL DEF Spec

-----------------------------------------------------------------------------
(* Nodes that are live together are apart, masks and the scratch registers *)
(* respected, and degrees exact, through every merge, removal and retry    *)
(* (paint.c:4-215, color.c:101-111).                                       *)
THEOREM ColoringCorrect == Spec => []ColoringInv
<1>1. IInv => ColoringInv
  BY DEF IInv
<1> QED
  BY <1>1, InvariantHolds, PTL

(* A node removed while it had fewer neighbours than registers gets a      *)
(* register unless it crosses a call, and no merge makes a spill necessary *)
(* (paint.c:4-42, 84-97, 139-158).                                         *)
THEOREM SpillsNeeded == Spec => []NoNeedlessSpill
<1>1. IInv => NoNeedlessSpill
  BY DEF IInv, NoNeedlessSpill, MergesSafe
<1> QED
  BY <1>1, InvariantHolds, PTL

(* The homes of a painted block keep what the contract asks of them.       *)
LEMMA PaintedProper == IInv /\ Painted => PC!Proper(home)
<1> SUFFICES ASSUME IInv, Painted PROVE PC!Proper(home)
  OBVIOUS
<1>1. TypeOK /\ NeighborsApart /\ HomesAllowed
  BY DEF IInv, ColoringInv
<1>2. \A n \in Nodes : home[n] \notin ban[n] \cup PC!Kept(s)
  <2> SUFFICES ASSUME NEW n \in Nodes
               PROVE  home[n] \notin ban[n] \cup PC!Kept(s)
    OBVIOUS
  <2>1. home[n] \in (Palette \ ban[n]) \cup {SPILL}
    BY <1>1 DEF HomesAllowed
  <2>2. ban[n] \subseteq Regs
    BY <1>1 DEF TypeOK
  <2>3. PC!Kept(s) \subseteq Regs
    <3>1. s \in Nat /\ s <= Len(Scratch)
      BY <1>1, ScratchIsCaller DEF TypeOK
    <3> QED
      BY <3>1, ScratchIsCaller DEF PC!Kept
  <2> QED
    BY <2>1, <2>2, <2>3, SpillIsNoReg DEF Palette, PC!Kept
<1> QED
  BY <1>1, <1>2 DEF PC!Proper, TypeOK, NeighborsApart

(* The painting implements its contract: however it merges, removes, picks *)
(* and retries, each round paints the whole block at once as far as anyone *)
(* can tell, properly (verifiy.c:153-201, color.c:101-111).                *)
THEOREM Refinement == Spec => Contract
<1> DEFINE blank == [n \in Nodes |-> SPILL]
<1>1. Init => PC!Init
  <2> SUFFICES ASSUME Init PROVE PC!Init
    OBVIOUS
  <2>1. TypeOK
    BY InitSound DEF IInv, ColoringInv
  <2> QED
    BY <2>1 DEF Init, PC!Init, PC!Blank, Painted, TypeOK
<1>2. (IInv /\ Painted => PC!Proper(home))'
  BY PaintedProper, PTL
<1>3. IInv /\ IInv' /\ [Next]_vars => [PC!Next]_(PC!vars)
  <2> SUFFICES ASSUME IInv, IInv', [Next]_vars
               PROVE  PC!Next \/ UNCHANGED PC!vars
    OBVIOUS
  <2> USE DEF PC!vars
  <2>1. CASE Coalesce
    BY <2>1 DEF Coalesce, Painted
  <2>2. CASE ResetNodes
    <3>1. ~Painted /\ phase # "done" /\ phase # "check" /\ UNCHANGED <<edge, ban, s>>
      BY <2>2 DEF ResetNodes, Painted
    <3>2. CASE Palette = {}
      <4>1. phase' = "check" /\ Painted'
        BY <2>2, <3>2 DEF ResetNodes, Painted
      <4>2. PC!Proper(home)'
        BY <4>1, <1>2
      <4> QED
        BY <3>1, <4>1, <4>2 DEF PC!Next, PC!Paint, PC!Proper, PC!Kept
    <3>3. CASE Palette # {}
      BY <2>2, <3>1, <3>3 DEF ResetNodes, Painted
    <3> QED
      BY <3>2, <3>3
  <2>3. CASE PushNode
    BY <2>3 DEF PushNode, Painted
  <2>4. CASE AllPushed
    BY <2>4 DEF AllPushed, Painted
  <2>5. CASE SelectColor
    BY <2>5 DEF SelectColor, Painted
  <2>6. CASE CopyMerged
    <3>1. /\ ~Painted /\ phase # "done" /\ phase # "check"
          /\ phase' = "check" /\ Painted' /\ UNCHANGED <<edge, ban, s>>
      BY <2>6 DEF CopyMerged, Painted
    <3>2. PC!Proper(home)'
      BY <3>1, <1>2
    <3> QED
      BY <3>1, <3>2 DEF PC!Next, PC!Paint, PC!Proper, PC!Kept
  <2>7. CASE CheckScratch
    <3>1. PICK need \in 0..Len(Scratch) :
            IF need <= s THEN phase' = "done" /\ s' = s ELSE phase' = "reset" /\ s' = s + 1
      BY <2>7 DEF CheckScratch
    <3>2. phase = "check" /\ Painted /\ UNCHANGED <<edge, ban, home>>
      BY <2>7 DEF CheckScratch, Painted
    <3>3. s \in Nat /\ Len(Scratch) \in Nat
      BY ScratchIsCaller DEF IInv, ColoringInv, TypeOK
    <3>4. CASE need <= s
      BY <3>1, <3>2, <3>4 DEF PC!Next, PC!Accept, Painted
    <3>5. CASE ~(need <= s)
      <4>1. s < Len(Scratch) /\ s' = s + 1 /\ phase' = "reset" /\ ~Painted'
        BY <3>1, <3>3, <3>5 DEF Painted
      <4> QED
        BY <3>2, <4>1 DEF PC!Next, PC!Retry, PC!Blank
    <3> QED
      BY <3>4, <3>5
  <2>8. CASE UNCHANGED vars
    BY <2>8 DEF vars, Painted
  <2> QED
    BY <2>1, <2>2, <2>3, <2>4, <2>5, <2>6, <2>7, <2>8 DEF Next
<1> QED
  BY <1>1, <1>3, InvariantHolds, PTL DEF Spec, Contract, PC!Spec

-----------------------------------------------------------------------------
(* What is left of the loops, phase by phase.                              *)
LEMMA PhaseOrder ==
  /\ phase = "done" => PhasesLeft = 0
  /\ phase = "check" => PhasesLeft = 1
  /\ phase = "select" => PhasesLeft = 2
  /\ phase = "push" => PhasesLeft = 3
  /\ phase = "reset" => PhasesLeft = 4
BY DEF PhasesLeft

(* Three counts go down when one does and those before it stay.            *)
LEMMA Down ==
  ASSUME NEW a, NEW b, NEW c, NEW x, NEW y, NEW z
  PROVE  /\ x < a => Before(<<x, y, z>>, <<a, b, c>>)
         /\ x = a /\ y < b => Before(<<x, y, z>>, <<a, b, c>>)
         /\ x = a /\ y = b /\ z < c => Before(<<x, y, z>>, <<a, b, c>>)
<1>1. DOMAIN <<x, y, z>> = 1..3
  OBVIOUS
<1>2. ASSUME x < a PROVE Before(<<x, y, z>>, <<a, b, c>>)
  <2>1. 1 \in DOMAIN <<x, y, z>> /\ 1..1 - 1 = {}
    BY <1>1
  <2> QED
    BY <1>2, <2>1 DEF Before
<1>3. ASSUME x = a, y < b PROVE Before(<<x, y, z>>, <<a, b, c>>)
  <2>1. 2 \in DOMAIN <<x, y, z>> /\ 1..2 - 1 = {1}
    BY <1>1
  <2> QED
    BY <1>3, <2>1 DEF Before
<1>4. ASSUME x = a, y = b, z < c PROVE Before(<<x, y, z>>, <<a, b, c>>)
  <2>1. 3 \in DOMAIN <<x, y, z>> /\ 1..3 - 1 = {1, 2}
    BY <1>1
  <2> QED
    BY <1>4, <2>1 DEF Before
<1> QED
  BY <1>2, <1>3, <1>4

(* Whatever is painted next, the end comes nearer: no graph, mask or demand*)
(* for scratch registers makes the painting go on for ever (paint.c:113-   *)
(* 119, 130-215, color.c:101-111).                                         *)
THEOREM PaintingNearsTheEnd == Spec => NearerTheEnd
<1>1. PhaseOrder!1' /\ PhaseOrder!2' /\ PhaseOrder!3' /\ PhaseOrder!4' /\ PhaseOrder!5'
  BY PhaseOrder, PTL
<1>2. ASSUME IInv, IInv', Next
      PROVE  Before(Left', Left)
  <2>1. TypeOK /\ TypeOK' /\ Len(Scratch) \in Nat
    BY <1>2, ScratchIsCaller DEF IInv, ColoringInv
  <2>2. s \in Nat /\ s' \in Nat /\ s <= Len(Scratch) /\ s' <= Len(Scratch)
    BY <2>1 DEF TypeOK
  <2>3. CASE Coalesce
    <3>1. Len(affs) \in Nat /\ Len(affs') = Len(affs) - 1
      BY <2>1, <2>3 DEF Coalesce, TypeOK
    <3>2. Left = <<Len(Scratch) + 1, 5, Len(affs)>> /\ Left' = <<Len(Scratch) + 1, 5, Len(affs')>>
      BY <2>3 DEF Coalesce, Left, LoopLeft
    <3> QED
      BY <3>1, <3>2, Down
  <2>4. CASE ResetNodes
    <3>1. phase' \in {"check", "push"} /\ s' = s
      BY <2>4 DEF ResetNodes
    <3>2. Left' = <<Len(Scratch) - s, PhasesLeft', LoopLeft'>> /\ PhasesLeft' \in {1, 3}
      BY <1>1, <3>1 DEF Left
    <3>3. CASE phase = "coalesce"
      <4>1. Left = <<Len(Scratch) + 1, 5, LoopLeft>> /\ Len(Scratch) - s < Len(Scratch) + 1
        BY <2>2, <3>3 DEF Left
      <4> QED
        BY <3>2, <4>1, Down
    <3>4. CASE phase = "reset"
      <4>1. Left = <<Len(Scratch) - s, 4, LoopLeft>> /\ PhasesLeft' < 4
        BY <3>2, <3>4, PhaseOrder DEF Left
      <4> QED
        BY <3>2, <4>1, Down
    <3> QED
      BY <2>4, <3>3, <3>4 DEF ResetNodes
  <2>5. CASE PushNode
    <3>1. phase = "push" /\ phase' = "push" /\ s' = s
      BY <2>5 DEF PushNode
    <3>2. PICK n \in active : active' = active \ {n}
      BY <2>5 DEF PushNode, Easy
    <3>3. Cardinality(active') = Cardinality(active) - 1 /\ Cardinality(active) \in Nat
      BY <2>1, <3>2, NodesFinite, FS_RemoveElement DEF TypeOK
    <3>4. /\ Left = <<Len(Scratch) - s, 3, Cardinality(active)>>
          /\ Left' = <<Len(Scratch) - s, 3, Cardinality(active')>>
      BY <1>1, <3>1, PhaseOrder DEF Left, LoopLeft
    <3> QED
      BY <3>3, <3>4, Down
  <2>6. CASE AllPushed
    <3>1. phase = "push" /\ phase' = "select" /\ s' = s
      BY <2>6 DEF AllPushed
    <3>2. /\ Left = <<Len(Scratch) - s, 3, LoopLeft>>
          /\ Left' = <<Len(Scratch) - s, 2, LoopLeft'>>
      BY <1>1, <3>1, PhaseOrder DEF Left
    <3> QED
      BY <3>2, Down
  <2>7. CASE SelectColor
    <3>1. phase = "select" /\ phase' = "select" /\ s' = s
      BY <2>7 DEF SelectColor
    <3>2. Len(stack) \in Nat /\ Len(stack') = Len(stack) - 1
      <4> DEFINE top == Len(stack) - 1
      <4>1. stack \in Seq(Nodes) /\ stack # <<>> /\ stack' = SubSeq(stack, 1, top)
        BY <2>1, <2>7 DEF TypeOK, SelectColor
      <4>2. Len(stack) \in Nat /\ top \in Nat
        BY <4>1
      <4> HIDE DEF top
      <4>3. stack' = [k \in 1..top |-> stack[k]]
        BY <4>1, <4>2
      <4>4. Len(stack') = top
        BY <4>2, <4>3
      <4> QED
        BY <4>2, <4>4 DEF top
    <3>3. /\ Left = <<Len(Scratch) - s, 2, Len(stack)>>
          /\ Left' = <<Len(Scratch) - s, 2, Len(stack')>>
      BY <1>1, <3>1, PhaseOrder DEF Left, LoopLeft
    <3> QED
      BY <3>2, <3>3, Down
  <2>8. CASE CopyMerged
    <3>1. phase = "select" /\ phase' = "check" /\ s' = s
      BY <2>8 DEF CopyMerged
    <3>2. /\ Left = <<Len(Scratch) - s, 2, LoopLeft>>
          /\ Left' = <<Len(Scratch) - s, 1, LoopLeft'>>
      BY <1>1, <3>1, PhaseOrder DEF Left
    <3> QED
      BY <3>2, Down
  <2>9. CASE CheckScratch
    <3>1. phase = "check" /\ \/ phase' = "done" /\ s' = s
                             \/ phase' = "reset" /\ s' = s + 1
      BY <2>9 DEF CheckScratch
    <3>2. Left = <<Len(Scratch) - s, 1, LoopLeft>>
      BY <3>1, PhaseOrder DEF Left
    <3>3. CASE phase' = "done" /\ s' = s
      <4>1. Left' = <<Len(Scratch) - s, 0, LoopLeft'>>
        BY <1>1, <3>3 DEF Left
      <4> QED
        BY <3>2, <4>1, Down
    <3>4. CASE phase' = "reset" /\ s' = s + 1
      <4>1. Left' = <<Len(Scratch) - (s + 1), 4, LoopLeft'>>
        BY <1>1, <3>4 DEF Left
      <4>2. Len(Scratch) - (s + 1) < Len(Scratch) - s
        BY <2>1, <2>2
      <4> QED
        BY <3>2, <4>1, <4>2, Down
    <3> QED
      BY <3>1, <3>3, <3>4
  <2> QED
    BY <1>2, <2>3, <2>4, <2>5, <2>6, <2>7, <2>8, <2>9 DEF Next
<1>3. IInv /\ IInv' /\ [Next]_vars => [Before(Left', Left)]_vars
  BY <1>2
<1> QED
  BY <1>3, InvariantHolds, PTL DEF Spec, NearerTheEnd
=============================================================================
