---------------------------- MODULE ParallelMove ----------------------------
(***************************************************************************)
(* The parallel move planner, src/codegen/parallel.c.                      *)
(*                                                                         *)
(* parallel_actions turns a group of moves that must look simultaneous     *)
(* into a sequence of machine instructions: first every store, then the    *)
(* register moves (a move as soon as nobody still reads its destination,   *)
(* an exchange when all that is left are cycles), then every load.         *)
(*                                                                         *)
(* x86_parallel_move emits the planned actions in order and one after the  *)
(* other, so this module executes each action as the planner emits it: loc *)
(* is the machine the emitted prefix has produced.  The size and sign of a *)
(* move do not influence the plan and are left out.                        *)
(***************************************************************************)
EXTENDS Integers, Sequences, FiniteSets

CONSTANTS
  Regs,        \* machine registers (from, to >= 0)
  Slots,       \* stack slots (PM_SLOT plus a slot number)
  PMMaxRegs    \* PM_MAX_REGS, size of the planner's register move table

(* The x86-64 back end has 14 registers and the table 64 entries.          *)
ASSUME RegsFit ==
  /\ IsFiniteSet(Regs)
  /\ PMMaxRegs \in Nat
  /\ Cardinality(Regs) <= PMMaxRegs

ASSUME LocsDisjoint == Regs \cap Slots = {}

VARIABLES
  moves,    \* the group, chosen by the caller and never changed
  phase,    \* which loop of parallel_actions runs
  at,       \* loop counter of plan_stores and plan_loads
  src,      \* PMPlan.regs[k].from, rewritten by swap_cycle
  done,     \* PMPlan.done, the register moves already made
  loc       \* contents of the machine's locations

vars == <<moves, phase, at, src, done, loc>>

PA == INSTANCE ParallelAssign WITH finished <- phase = "done",
        loc <- IF phase = "done" THEN loc ELSE [l \in Regs \cup Slots |-> l]

Locs == Regs \cup Slots
Idx == DOMAIN moves

StoreMoves == {k \in Idx : moves[k].from \in Regs /\ moves[k].to \in Slots}
LoadMoves == {k \in Idx : moves[k].from \in Slots /\ moves[k].to \in Regs}
RegMoves == {k \in Idx : /\ moves[k].from \in Regs
                         /\ moves[k].to \in Regs
                         /\ moves[k].from # moves[k].to}

(* collect_regs stops at the first move that does not fit the table.       *)
Collected ==
  {k \in RegMoves : Cardinality({m \in RegMoves : m < k}) < PMMaxRegs}

Pending == Collected \ done

-----------------------------------------------------------------------------
(* parallel_actions is entered with a group built by its caller.           *)
Start ==
  /\ phase = "store"
  /\ at = 1
  /\ src = [k \in Idx |-> moves[k].from]
  /\ done = {}
  /\ loc = [l \in Locs |-> l]

Init == moves \in PA!Groups /\ Start

(* One iteration of plan_stores.                                           *)
PlanStore ==
  /\ phase = "store"
  /\ at \in Idx
  /\ at' = at + 1
  /\ loc' = IF at \in StoreMoves
              THEN [loc EXCEPT ![moves[at].to] = loc[moves[at].from]]
              ELSE loc
  /\ UNCHANGED <<moves, phase, src, done>>

(* collect_regs and the reset of the plan at the head of plan_regs.        *)
CollectRegs ==
  /\ phase = "store"
  /\ at \notin Idx
  /\ phase' = "regs"
  /\ src' = [k \in Idx |-> moves[k].from]
  /\ done' = {}
  /\ UNCHANGED <<moves, at, loc>>

(* Mutation: only the moves after j are looked at.                         *)
LaterPending(j) == \E k \in Pending : k > j /\ src[k] = moves[j].to

(* source_pending: another move that is not made yet reads j's destination.*)
SourcePending(j) == \E k \in Pending \ {j} : src[k] = moves[j].to

Ready == {j \in Pending : src[j] = moves[j].to \/ ~SourcePending(j)}

Least(S) == CHOOSE j \in S : \A k \in S : j <= k

(* Mutation: a move that a swap satisfied is skipped but not marked.       *)
SatisfiedUnmarked ==
  /\ phase = "regs"
  /\ Ready # {}
  /\ LET j == Least(Ready) IN
       IF src[j] = moves[j].to
         THEN UNCHANGED <<loc, done>>
         ELSE /\ loc' = [loc EXCEPT ![moves[j].to] = loc[src[j]]]
              /\ done' = done \cup {j}
  /\ UNCHANGED <<moves, phase, at, src>>

(* A move whose destination nobody reads any more; one that a swap already *)
(* satisfied needs no instruction.                                         *)
MoveReady ==
  /\ phase = "regs"
  /\ Ready # {}
  /\ LET j == Least(Ready) IN
       /\ loc' = IF src[j] # moves[j].to
                   THEN [loc EXCEPT ![moves[j].to] = loc[src[j]]]
                   ELSE loc
       /\ done' = done \cup {j}
  /\ UNCHANGED <<moves, phase, at, src>>

(* Mutation: an exchange does not redirect the moves that read its ends.   *)
NotRewritten(j, f, t) == src

(* The sources of the moves other than j after f and t were exchanged.     *)
Rewritten(j, f, t) ==
  [k \in Idx |-> IF k \notin Pending \/ k = j THEN src[k]
                 ELSE IF src[k] = t THEN f
                 ELSE IF src[k] = f THEN t
                 ELSE src[k]]

(* swap_cycle on the first pending move.                                   *)
SwapCycle ==
  /\ phase = "regs"
  /\ Pending # {}
  /\ Ready = {}
  /\ LET j == Least(Pending)
         f == src[j]
         t == moves[j].to
     IN /\ loc' = [loc EXCEPT ![f] = loc[t], ![t] = loc[f]]
        /\ src' = Rewritten(j, f, t)
        /\ done' = done \cup {j}
  /\ UNCHANGED <<moves, phase, at>>

(* Mutation: the loads begin where the stores stopped.                     *)
CounterKept ==
  /\ phase = "regs"
  /\ Pending = {}
  /\ phase' = "load"
  /\ UNCHANGED <<moves, at, src, done, loc>>

RegsPlanned ==
  /\ phase = "regs"
  /\ Pending = {}
  /\ phase' = "load"
  /\ at' = 1
  /\ UNCHANGED <<moves, src, done, loc>>

(* One iteration of plan_loads.                                            *)
PlanLoad ==
  /\ phase = "load"
  /\ at \in Idx
  /\ at' = at + 1
  /\ loc' = IF at \in LoadMoves
              THEN [loc EXCEPT ![moves[at].to] = loc[moves[at].from]]
              ELSE loc
  /\ UNCHANGED <<moves, phase, src, done>>

Finish ==
  /\ phase = "load"
  /\ at \notin Idx
  /\ phase' = "done"
  /\ UNCHANGED <<moves, at, src, done, loc>>

Next ==
  \/ PlanStore
  \/ CollectRegs
  \/ MoveReady
  \/ SwapCycle
  \/ RegsPlanned
  \/ PlanLoad
  \/ Finish

Spec == Init /\ [][Next]_vars

(* The planner is a loop that runs until it returns.                       *)
FairSpec == Spec /\ WF_vars(Next)

-----------------------------------------------------------------------------
TypeOK ==
  /\ moves \in PA!Groups
  /\ phase \in {"store", "regs", "load", "done"}
  /\ at \in Nat \ {0}
  /\ src \in [Idx -> Locs]
  /\ done \subseteq Collected
  /\ loc \in [Locs -> Locs]

(* The moves whose effect the emitted prefix already has.                  *)
Complete ==
  {k \in StoreMoves : phase # "store" \/ k < at}
    \cup {k \in RegMoves : phase \in {"load", "done"} \/ k \in done}
    \cup {k \in LoadMoves : phase = "done" \/ (phase = "load" /\ k < at)}

Effective == StoreMoves \cup RegMoves \cup LoadMoves

(* Where the planner will read the value of a move it has not made yet.    *)
ReadsFrom(k) == IF phase = "regs" /\ k \in RegMoves THEN src[k] ELSE moves[k].from

(* A move that is still to be made will find its original source value at  *)
(* the place the planner will read: no store, move, exchange or load       *)
(* emitted so far has destroyed it (parallel.c:66-73, 107-120).            *)
SourcesIntact ==
  \A k \in Effective \ Complete : loc[ReadsFrom(k)] = moves[k].from

(* A move that was made stays made: nothing emitted later overwrites its   *)
(* destination (parallel.c:107-141).                                       *)
ResultsKept ==
  \A k \in Complete : loc[moves[k].to] = moves[k].from

(* A register or slot that no move has to change keeps its contents        *)
(* throughout, in particular across the exchanges of swap_cycle, which     *)
(* write two registers for one move (parallel.c:107-120).                  *)
BystandersKept ==
  \A l \in Locs : (\A k \in Effective : moves[k].to # l) => loc[l] = l

(* The inductive invariant of the planner. The group is one the planner is *)
(* right for (no two moves to one place, no slot both read and written),   *)
(* and the three properties above hold together: an exchange writes two    *)
(* registers for one move, and it takes all three to know that the second  *)
(* is still what a later move will read (parallel.c:21-148).               *)
PlanInv ==
  /\ TypeOK
  /\ phase = "store" => done = {}
  /\ SourcesIntact
  /\ ResultsKept
  /\ BystandersKept

(* The emitted sequence implements the simultaneous assignment.            *)
Parallel == PA!Spec

(* plan_regs' while loop comes to an end (parallel.c:122-141).             *)
Terminates == <>(phase = "done")
=============================================================================
