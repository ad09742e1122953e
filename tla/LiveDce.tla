------------------------------ MODULE LiveDce ------------------------------
(***************************************************************************)
(* The removal of instructions whose result is dead, src/ir/opts/dce_live.c*)
(* (opt_live_dce): liveness is solved once, then every block is swept from *)
(* its end and loses what is dead.  The function that is left then runs.   *)
(*                                                                         *)
(* A register whose address was taken (reg_addressed) can be read by any   *)
(* instruction that looks into memory.                                     *)
(***************************************************************************)
EXTENDS Liveness

CONSTANT Builds   \* bound: instructions with registers whose address is taken

ASSUME BuildsKnown ==
  Builds \subseteq [instrs : SUBSET Instrs, addressed : SUBSET Regs]

VARIABLES
  stage,       \* how far the pass and the program are
  addressed,   \* the registers whose address is taken
  killed,      \* the places whose instruction has become a nop
  stale        \* the registers that hold something else than without the pass

dceVars == <<vars, stage, addressed, killed, stale>>

DceInit ==
  /\ \E bd \in Builds :
       /\ code \in [Blocks -> [1..Size -> bd.instrs]]
       /\ addressed = bd.addressed
  /\ Init
  /\ stage = "solve"
  /\ killed = {}
  /\ stale = {}

(* cfg_live_solve, or cfg_live_solve_full for the register allocator.      *)
Solve == Next /\ UNCHANGED <<stage, addressed, killed, stale>>

-----------------------------------------------------------------------------
Rest == UNCHANGED <<function, liveIn, pc, again, at, addressed>>

StartKilling ==
  /\ pc = "solved" /\ ~full /\ stage = "solve"
  /\ stage' = "out" /\ b' = 1
  /\ UNCHANGED <<i, tmp, killed, stale>> /\ Rest

(* live_sweep begins with what is live in the successors.                  *)
SweepOut ==
  /\ stage = "out"
  /\ tmp' = Out(b, liveIn)
  /\ i' = Size
  /\ stage' = "kill"
  /\ UNCHANGED <<b, killed, stale>> /\ Rest

(* Mutation: what is dead after the block is dead in the block.            *)
DeadAfterBlock(in) == in.dst \notin addressed /\ Skipped(in, Out(b, liveIn))

(* Mutation: an addressed register is treated like any other.              *)
DeadResult(in) == Skipped(in, tmp)

Dies(in) == in.dst \notin addressed /\ Skipped(in, tmp)

SweepInstr ==
  /\ stage = "kill" /\ i > 0
  /\ LET in == code[b][i]
     IN IF Dies(in)
          THEN killed' = killed \cup {<<b, i>>} /\ tmp' = tmp
          ELSE killed' = killed /\ tmp' = FullStep(in, tmp)
  /\ i' = i - 1
  /\ UNCHANGED <<stage, b, stale>> /\ Rest

SweepEnd ==
  /\ stage = "kill" /\ i = 0
  /\ IF b < N
       THEN stage' = "out" /\ b' = b + 1 /\ i' = i
       ELSE stage' = "run" /\ b' = 1 /\ i' = 0
  /\ UNCHANGED <<tmp, killed, stale>> /\ Rest

-----------------------------------------------------------------------------
(* The registers an instruction depends on.                                *)
ReadBy(in) == in.src \cup (IF in.looks THEN addressed ELSE {})

(* An instruction runs.  A nop leaves in its destination what was there;   *)
(* the result of one that depends on something stale is stale.             *)
Execute ==
  /\ stage = "run" /\ i < Size
  /\ LET in == code[b][i + 1]
     IN stale' = IF in.dst = NOREG THEN stale
                 ELSE IF <<b, i + 1>> \in killed \/ ReadBy(in) \cap stale # {}
                   THEN stale \cup {in.dst}
                   ELSE stale \ {in.dst}
  /\ i' = i + 1
  /\ UNCHANGED <<stage, b, tmp, killed>> /\ Rest

ToNextBlock ==
  /\ stage = "run" /\ i = Size
  /\ b' \in succ[b]
  /\ i' = 0
  /\ UNCHANGED <<stage, tmp, killed, stale>> /\ Rest

DceNext ==
  Solve \/ StartKilling \/ SweepOut \/ SweepInstr \/ SweepEnd \/ Execute \/ ToNextBlock

DceSpec == DceInit /\ [][DceNext]_dceVars

-----------------------------------------------------------------------------
DceTypeOK ==
  /\ stage \in {"solve", "out", "kill", "run"}
  /\ addressed \subseteq Regs /\ stale \subseteq Regs
  /\ \A p \in killed : code[p[1]][p[2]].deletable

(* The solver skips no instruction that the sweep keeps: a dead result     *)
(* that is an addressed register is read from nothing that was forgotten.  *)
SolverAgrees ==
  \A blk \in Blocks : \A k \in 1..Size :
    LET in == code[blk][k]
    IN Skipped(in, at[blk][k]) /\ in.dst \in addressed => in.src \subseteq at[blk][k - 1]

(* An instruction with an effect (a call, a store, a branch, a return)     *)
(* finds everything it depends on as it was without the pass, on every     *)
(* path and however often a loop is gone through (dce_live.c:27-45), where *)
(* the solver and the sweep agree on what is skipped.                      *)
EffectsKept ==
  stage = "run" /\ i < Size /\ SolverAgrees =>
    LET in == code[b][i + 1] IN ~in.deletable => ReadBy(in) \cap stale = {}
=============================================================================
