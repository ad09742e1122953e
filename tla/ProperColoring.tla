--------------------------- MODULE ProperColoring ---------------------------
(***************************************************************************)
(* What painting a partition promises (the contract verifiy.c checks): in  *)
(* one step every node gets a register or stays spilled, neighbours apart  *)
(* and nobody in a register that is forbidden to it or kept for scratch.   *)
(* The painting is repeated with one more scratch register while the code  *)
(* needs more than were kept (color.c:101-111).                            *)
(***************************************************************************)
EXTENDS Naturals, Sequences

CONSTANTS
  Nodes,        \* the nodes of the graph
  Regs,         \* the registers of the palette
  Scratch,      \* the registers kept for scratch, in the order they are taken
  SPILL         \* VR_SPILL

Graphs == {g \in [Nodes -> SUBSET Nodes] :
             \A m, n \in Nodes : n \notin g[n] /\ (m \in g[n] <=> n \in g[m])}

VARIABLES
  edge,    \* which nodes are live together
  ban,     \* the registers forbidden to each node
  s,       \* how many scratch registers are kept
  status,  \* "open" until painted, "painted" until the scratch is checked, "done"
  home     \* the register of each node

vars == <<edge, ban, s, status, home>>

Kept(k) == {Scratch[i] : i \in 1..k}

Proper(h) ==
  /\ h \in [Nodes -> Regs \cup {SPILL}]
  /\ \A n \in Nodes : h[n] \notin ban[n] \cup Kept(s)
  /\ \A n \in Nodes : \A m \in edge[n] : h[n] = SPILL \/ h[n] # h[m]

Blank == [n \in Nodes |-> SPILL]

Init ==
  /\ edge \in Graphs
  /\ ban \in [Nodes -> SUBSET Regs]
  /\ s = 0
  /\ status = "open"
  /\ home = Blank

Paint ==
  /\ status = "open"
  /\ status' = "painted"
  /\ Proper(home')
  /\ UNCHANGED <<edge, ban, s>>

Accept ==
  /\ status = "painted"
  /\ status' = "done"
  /\ UNCHANGED <<edge, ban, s, home>>

Retry ==
  /\ status = "painted"
  /\ s < Len(Scratch)
  /\ s' = s + 1
  /\ status' = "open"
  /\ home' = Blank
  /\ UNCHANGED <<edge, ban>>

Next == Paint \/ Accept \/ Retry

Spec == Init /\ [][Next]_vars
=============================================================================
