------------------------------ MODULE Liveness ------------------------------
(***************************************************************************)
(* Which registers are live at the beginning of each block: the iteration  *)
(* of src/ir/cfg.c (live_solve) over the blocks of a function, from the    *)
(* last to the first, until a sweep changes nothing.                       *)
(*                                                                         *)
(* The optimizer solves it with live_full = 0: an instruction that only    *)
(* makes a dead register and can be deleted reads nothing.  The register   *)
(* allocator solves it with live_full = 1.                                 *)
(***************************************************************************)
EXTENDS Integers, FiniteSets

CONSTANTS
  N,        \* bound: blocks of the function
  Size,     \* bound: instructions of a block
  Regs,     \* the virtual registers
  NOREG,    \* the destination of an instruction that has none
  Instrs    \* bound: the instructions considered

Instr == [dst : Regs \cup {NOREG}, src : SUBSET Regs, deletable : BOOLEAN, looks : BOOLEAN]

ASSUME SizesNatural == N \in Nat \ {0} /\ Size \in Nat \ {0}
ASSUME InstrsAreInstr == Instrs \subseteq Instr
ASSUME NoRegIsNone == NOREG \notin Regs
ASSUME RegsCounted == IsFiniteSet(Regs)

Blocks == 1..N
Points == 0..Size

VARIABLES
  code, succ,   \* the function: the instructions of its blocks, its edges
  full,         \* live_full
  liveIn,       \* live_in of the blocks
  pc,           \* where live_solve stands
  b, i,         \* the block it is at, the instructions still to be gone through
  tmp,          \* the registers live after them
  again,        \* whether this sweep has changed anything
  at            \* history: what tmp was at each point of a block, last time

function == <<code, succ, full>>
vars == <<function, liveIn, pc, b, i, tmp, again, at>>

-----------------------------------------------------------------------------

(* cfg_live_step.                                                          *)
Skipped(in, live) == in.deletable /\ in.dst # NOREG /\ in.dst \notin live

(* cfg_live_step_full.                                                     *)
FullStep(in, live) == (live \ {in.dst}) \cup in.src

Step(in, live) == IF ~full /\ Skipped(in, live) THEN live ELSE FullStep(in, live)

(* Mutation: only the first successor counts.                              *)
OutOfOne(blk, live) == IF succ[blk] = {} THEN {} ELSE live[CHOOSE s \in succ[blk] : TRUE]

(* cfg_live_out.                                                           *)
Out(blk, live) == UNION {live[s] : s \in succ[blk]}

(* cfg_build_edges: a block ends in a return, in a jump, or in a branch or *)
(* nothing, after which the next block follows.                            *)
Edges(blk) ==
  {s \in SUBSET Blocks : Cardinality(s) <= 1 \/ (Cardinality(s) = 2 /\ blk + 1 \in s)}

LiveAtFirst == {}

Init ==
  /\ code \in [Blocks -> [1..Size -> Instrs]]
  /\ succ \in [Blocks -> SUBSET Blocks]
  /\ \A blk \in Blocks : succ[blk] \in Edges(blk)
  /\ full \in BOOLEAN
  /\ liveIn = [blk \in Blocks |-> LiveAtFirst]
  /\ pc = "sweep" /\ again = TRUE
  /\ b = 0 /\ i = 0 /\ tmp = {}
  /\ at = [blk \in Blocks |-> [k \in Points |-> {}]]

StartSweep ==
  /\ pc = "sweep" /\ again
  /\ again' = FALSE
  /\ pc' = "block" /\ b' = N
  /\ UNCHANGED <<function, liveIn, i, tmp, at>>

(* live_block begins with what is live in the successors.                  *)
StartBlock ==
  /\ pc = "block"
  /\ tmp' = Out(b, liveIn)
  /\ i' = Size
  /\ pc' = "instr"
  /\ at' = [at EXCEPT ![b] = [@ EXCEPT ![Size] = tmp']]
  /\ UNCHANGED <<function, liveIn, b, again>>

StepBack ==
  /\ pc = "instr" /\ i > 0
  /\ tmp' = Step(code[b][i], tmp)
  /\ i' = i - 1
  /\ at' = [at EXCEPT ![b] = [@ EXCEPT ![i - 1] = tmp']]
  /\ UNCHANGED <<function, liveIn, pc, b, again>>

(* Mutation: anything live counts as a change.                             *)
AnyLive == again \/ tmp # {}

(* Mutation: only the last block of the sweep decides.                     *)
ChangedNow == tmp # liveIn[b]

Changed == again \/ tmp # liveIn[b]

EndsSweep == b = 1

EndBlock ==
  /\ pc = "instr" /\ i = 0
  /\ again' = Changed
  /\ liveIn' = [liveIn EXCEPT ![b] = tmp]
  /\ b' = b - 1
  /\ pc' = IF EndsSweep THEN "sweep" ELSE "block"
  /\ UNCHANGED <<function, i, tmp, at>>

Solved ==
  /\ pc = "sweep" /\ ~again
  /\ pc' = "solved"
  /\ UNCHANGED <<function, liveIn, b, i, tmp, again, at>>

Next == StartSweep \/ StartBlock \/ StepBack \/ EndBlock \/ Solved

Spec == Init /\ [][Next]_vars

-----------------------------------------------------------------------------
TypeOK ==
  /\ code \in [Blocks -> [1..Size -> Instrs]]
  /\ succ \in [Blocks -> SUBSET Blocks] /\ full \in BOOLEAN
  /\ liveIn \in [Blocks -> SUBSET Regs]
  /\ pc \in {"sweep", "block", "instr", "solved"}
  /\ b \in 0..N /\ (pc \in {"block", "instr"} => b # 0)
  /\ i \in Points /\ tmp \subseteq Regs /\ again \in BOOLEAN
  /\ at \in [Blocks -> [Points -> SUBSET Regs]]

(* s gives the live registers at every point of every block consistently.  *)
IsSolution(s) ==
  \A blk \in Blocks :
    /\ s[blk][Size] = UNION {s[c][0] : c \in succ[blk]}
    /\ \A k \in 1..Size : s[blk][k - 1] = Step(code[blk][k], s[blk][k])

(* When the iteration stops, the live_in of the blocks and what the        *)
(* clients recompute from them within the blocks are consistent: nothing   *)
(* that a later instruction reads has been forgotten (cfg.c:180-197).      *)
Consistent ==
  pc = "solved" => IsSolution(at) /\ \A blk \in Blocks : at[blk][0] = liveIn[blk]

(* No register is ever held live that a consistent solution says is dead:  *)
(* the registers that loops alone keep alive do not count, as the          *)
(* iteration starts from nothing (cfg.c:186).                              *)
LeastAt(s) == IsSolution(s) => \A blk \in Blocks : liveIn[blk] \subseteq s[blk][0]

Least == pc = "solved" => \A s \in [Blocks -> [Points -> SUBSET Regs]] : LeastAt(s)

(* One step back from known points: those from which the next instruction  *)
(* reads r, or leaves r alone and leads to a known point.                  *)
ReadNext(r, known) ==
  {p \in Blocks \X Points :
     IF p[2] = Size THEN \E c \in succ[p[1]] : <<c, 0>> \in known
     ELSE LET in == code[p[1]][p[2] + 1]
          IN r \in in.src \/ (r # in.dst /\ <<p[1], p[2] + 1>> \in known)}

(* The points from which a path leads to an instruction that reads r,      *)
(* without passing one that makes r anew: the least set that holds what is *)
(* one step back from its own points.                                      *)
ReadAhead(r) ==
  LET Closed == {known \in SUBSET (Blocks \X Points) : ReadNext(r, known) \subseteq known}
  IN {p \in Blocks \X Points : \A known \in Closed : p \in known}

(* With live_full a register is live where it may still be read, and       *)
(* nowhere else (cfg.c:153-162, 180-197).                                  *)
LiveAsRead ==
  pc = "solved" /\ full =>
    \A blk \in Blocks : liveIn[blk] = {r \in Regs : <<blk, 0>> \in ReadAhead(r)}

(* What is left to do: the registers still to be found live, whether       *)
(* another sweep is due, and the rest of this one.                         *)
Left ==
  <<Cardinality({p \in Blocks \X Regs : p[2] \notin liveIn[p[1]]}),
    IF again THEN 1 ELSE 0,
    IF pc = "solved" THEN 0 ELSE IF pc = "sweep" THEN 1 ELSE b + 1,
    IF pc = "instr" THEN i ELSE Size + 1>>

Before(m, n) ==
  \E k \in DOMAIN m : m[k] < n[k] /\ \A j \in 1..k - 1 : m[j] = n[j]

(* live_solve returns: another sweep is made only if this one has found a  *)
(* register live that was not, and none is ever taken back, whichever      *)
(* instructions live_full = 0 skips (cfg.c:138-149, 180-197).              *)
NearerTheEnd == [][pc # "solved" => Before(Left', Left)]_vars
=============================================================================
