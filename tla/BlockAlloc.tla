----------------------------- MODULE BlockAlloc -----------------------------
(***************************************************************************)
(* Register allocation of one straight piece of code, from the backward    *)
(* sweep that finds the interference (regalloc/graph.c) through the        *)
(* painting (the contract of ProperColoring) and the scratch loop          *)
(* (color.c:101-111) to what the emission of each instruction then finds   *)
(* free (regalloc.c:580-610, x86-64/regs.c:58-118).                        *)
(*                                                                         *)
(* The code is any short sequence of the x86-64 instructions with fixed    *)
(* registers, and a plain unary one.  It is chosen instruction by          *)
(* instruction as the sweep reaches it.                                    *)
(***************************************************************************)
EXTENDS Integers, Sequences, FiniteSets

CONSTANTS
  Vregs,              \* the virtual registers of the function
  Ax, Dx, Cx,         \* the caller-saved registers instructions fix
  Callee,             \* callee_mask
  Scratch,            \* the order in which scratch_regs keeps registers
  Ops,                \* the kinds of instructions in the code
  MaxCode,            \* bound: its length
  SPILL, NONE

Caller == {Ax, Dx, Cx}
Regs == Caller \cup Callee

ASSUME OpsKnown == Ops \subseteq {"neg", "shift", "div", "divc"}

ASSUME ScratchKnown == Scratch \in Seq(Caller)

ASSUME SpillFresh == SPILL \notin Regs

ASSUME NoneFresh == NONE \notin Vregs

ASSUME FixedApart == Ax # Cx /\ Dx # Cx /\ Ax # Dx

ASSUME CodeBounded == MaxCode \in Nat

ASSUME CalleeFinite == IsFiniteSet(Callee)

(* The lowest caller-saved register is kept first, rax and not the count   *)
(* register (graph.c:435-445, x86-64/common.h:24-28).                      *)
ASSUME CountNotFirst == Scratch # <<>> /\ Scratch[1] # Cx

VARIABLES
  code,      \* the instructions swept so far; the last one is the block's last
  out,       \* live at the end of the block
  live,      \* Graph.live, what is live before code
  edge,      \* the interference found so far
  ban,       \* CRNode.forbid
  swept,     \* build_graph has finished
  s, status, home

vars == <<code, out, live, edge, ban, swept, s, status, home>>

PC == INSTANCE ProperColoring WITH Nodes <- Vregs

(* neg reads src1; a division by a constant that is not a power of two     *)
(* has no second source; the others read two registers.                    *)
Instrs ==
  [op : Ops \cap {"neg", "divc"}, dst : Vregs, src1 : Vregs, src2 : {NONE}]
    \cup [op : Ops \cap {"shift", "div"}, dst : Vregs, src1 : Vregs, src2 : Vregs]

Srcs(in) == {in.src1, in.src2} \ {NONE}

(* needs_mask: what the instruction destroys or fixes (layout.c:75-98).    *)
NeedsMask(in) ==
  CASE in.op = "neg" -> {}
    [] in.op = "shift" -> {Cx}
    [] in.op \in {"div", "divc"} -> {Ax, Dx}

-----------------------------------------------------------------------------
Init ==
  /\ code = <<>>
  /\ out \in SUBSET Vregs
  /\ live = out
  /\ edge = [v \in Vregs |-> {}]
  /\ ban = [v \in Vregs |-> {}]
  /\ swept = FALSE
  /\ s = 0
  /\ status = "open"
  /\ home = PC!Blank

Linked(g, S, T) ==
  [v \in Vregs |-> g[v] \cup {w \in Vregs \ {v} : (v \in S /\ w \in T) \/ (v \in T /\ w \in S)}]

(* Mutation: a result that nobody reads is not linked with what is live.   *)
LinkedIfRead(in) == IF in.dst \in live THEN Linked(edge, {in.dst}, live) ELSE edge

LinkedWithDst(in) == Linked(edge, {in.dst}, live)

(* Mutation: a result nobody reads forbids nothing.                        *)
MaskedIfRead(in) ==
  [v \in Vregs |-> IF v \in live /\ in.dst \in live \ {v} THEN ban[v] \cup NeedsMask(in) ELSE ban[v]]

(* forbid_live, called when the destination has left the live set.         *)
Masked(in) ==
  [v \in Vregs |-> IF v \in live \ {in.dst} THEN ban[v] \cup NeedsMask(in) ELSE ban[v]]

(* Mutation: the destination leaves the set after the sources have come in.*)
KilledLast(in) == (live \cup Srcs(in)) \ {in.dst}

LiveBefore(in) == (live \ {in.dst}) \cup Srcs(in)

(* sweep_instr on the instruction before those in code.                    *)
SweepInstr ==
  /\ ~swept
  /\ Len(code) < MaxCode
  /\ \E in \in Instrs :
       /\ code' = <<in>> \o code
       /\ edge' = LinkedWithDst(in)
       /\ ban' = Masked(in)
       /\ live' = LiveBefore(in)
  /\ UNCHANGED <<out, swept, s, status, home>>

(* clique_live: everything live on entry is linked.                        *)
SweepDone ==
  /\ ~swept
  /\ code # <<>>
  /\ swept' = TRUE
  /\ edge' = Linked(edge, live, live)
  /\ UNCHANGED <<code, out, live, ban, s, status, home>>

(* paint_graph with the palette of set_palette.                            *)
Paint ==
  /\ swept
  /\ home' \in [Vregs -> Regs \cup {SPILL}]
  /\ PC!Paint
  /\ UNCHANGED <<code, out, live, swept>>

(* What is live after the k-th instruction, by definition.                 *)
LiveAfter(k) ==
  {v \in Vregs :
     \/ v \in out /\ \A j \in k + 1..Len(code) : code[j].dst # v
     \/ \E j \in k + 1..Len(code) :
          v \in Srcs(code[j]) /\ \A i \in k + 1..j - 1 : code[i].dst # v}

(* cg_is_silent: an instruction nobody needs is not emitted; a division    *)
(* may trap and always is.                                                 *)
Silent(k) == code[k].op \in {"neg", "shift"} /\ code[k].dst \notin LiveAfter(k)

(* scratch_need: the registers the emission will grab, given the homes     *)
(* (arith.c:230-246, divmod.c:153-165).                                    *)
ScratchNeed(in) ==
  LET d == home[in.dst]
      grabs ==
        CASE in.op = "neg" -> d = SPILL
          [] in.op = "shift" -> \/ d \in {SPILL, Cx}
                                \/ home[in.src1] = Cx /\ d = home[in.src2]
          [] in.op = "div" -> home[in.src2] \in {SPILL, Ax, Dx}
          [] in.op = "divc" -> TRUE
  IN IF grabs THEN 1 ELSE 0

(* block_scratch.                                                          *)
BlockNeeds(n) == \E k \in DOMAIN code : ~Silent(k) /\ ScratchNeed(code[k]) >= n

(* Mutation: the scratch loop accepts its first colouring.                 *)
AcceptFirst ==
  /\ PC!Accept
  /\ UNCHANGED <<code, out, live, swept>>

Accept ==
  /\ ~BlockNeeds(s + 1)
  /\ PC!Accept
  /\ UNCHANGED <<code, out, live, swept>>

Retry ==
  /\ BlockNeeds(s + 1)
  /\ PC!Retry
  /\ UNCHANGED <<code, out, live, swept>>

Next == SweepInstr \/ SweepDone \/ Paint \/ Accept \/ Retry

Spec == Init /\ [][Next]_vars

-----------------------------------------------------------------------------
TypeOK ==
  /\ code \in Seq(Instrs) /\ Len(code) <= MaxCode
  /\ out \subseteq Vregs
  /\ live \subseteq Vregs
  /\ edge \in PC!Graphs
  /\ ban \in [Vregs -> SUBSET Regs]
  /\ s \in 0..Len(Scratch)
  /\ home \in [Vregs -> Regs \cup {SPILL}]

(* The sweep ends with exactly the registers that are live on entry        *)
(* (graph.c:346-392).                                                      *)
SweptLive == live = LiveAfter(0)

Through(k) == LiveAfter(k) \ {code[k].dst}

Distinct(S) == \A v, w \in S : v # w => home[v] = SPILL \/ home[v] # home[w]

(* The allocator's contract as verify_block_live checks it: what is live   *)
(* at one point, with the result written there, has distinct homes, and    *)
(* nothing sits in a register that an instruction it lives across          *)
(* destroys (verifiy.c:169-228).                                           *)
ContractHolds ==
  status = "done" =>
    /\ Distinct(LiveAfter(0))
    /\ \A k \in DOMAIN code :
         /\ Distinct(LiveAfter(k) \cup {code[k].dst})
         /\ \A v \in Through(k) : home[v] \notin NeedsMask(code[k])

CalleeUsed == Callee \cap {home[v] : v \in Vregs}

(* free_regs[k], computed by sweep_block once all homes are known.         *)
FreeRegs(k) == (Caller \cup CalleeUsed) \ {home[v] : v \in Through(k)}

(* The registers the emission takes because the instruction fixes them;    *)
(* the count register of a shift may already hold the count.               *)
Fixed(in) ==
  CASE in.op = "neg" -> {}
    [] in.op = "shift" -> {Cx} \ {home[in.src2]}
    [] in.op \in {"div", "divc"} -> {Ax, Dx}

(* x86_take_fixed always finds its register free (regs.c:97-110).          *)
FixedFree ==
  status = "done" => \A k \in DOMAIN code : ~Silent(k) => Fixed(code[k]) \subseteq FreeRegs(k)

(* x86_grab always finds a register: one that is free at the instruction,  *)
(* is not fixed by it and is not the home of one of its operands           *)
(* (regs.c:86-95).                                                         *)
ScratchServed ==
  status = "done" => \A k \in DOMAIN code :
    LET in == code[k]
        busy == {home[v] : v \in Srcs(in) \cup {in.dst}}
    IN ~Silent(k) => Cardinality((FreeRegs(k) \ Fixed(in)) \ busy) >= ScratchNeed(in)

(* The same for code without a division.  A division fixes rax and rdx,    *)
(* which block_reserved leaves in the scratch pool because it drops the    *)
(* masks it asks for (graph.c:207-220); without one, the estimate and the  *)
(* emission agree on every shift and every unary instruction.              *)
Divides == \E k \in DOMAIN code : code[k].op \in {"div", "divc"}

ScratchServedUndivided == Divides \/ ScratchServed

(* The emission of every instruction finds the registers it takes, those   *)
(* the machine fixes and those it may choose (regs.c:86-110).              *)
EmissionServed == FixedFree /\ ScratchServedUndivided
=============================================================================
