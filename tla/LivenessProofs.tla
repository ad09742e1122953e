--------------------------- MODULE LivenessProofs ---------------------------
(***************************************************************************)
(* What live_solve computes, for every function, whatever its blocks and   *)
(* instructions: a consistent solution, and the least one; and what is     *)
(* built on it, the removal of dead instructions and the slots that        *)
(* spilled registers share.                                                *)
(***************************************************************************)
EXTENDS FrameSlots, FiniteSetTheorems, WellFoundedInduction, TLAPS

USE DEF Blocks, Points

(* Each step works on sets of registers and stays within the blocks and    *)
(* their instructions.                                                     *)
LEMMA TypeKept == TypeOK /\ [Next]_vars => TypeOK'
<1> SUFFICES ASSUME TypeOK, [Next]_vars PROVE TypeOK'
  OBVIOUS
<1> USE DEF TypeOK
<1>1. CASE StartSweep
  <2>1. b' \in 0..N /\ b' # 0 /\ pc' = "block"
    BY <1>1, SizesNatural DEF StartSweep
  <2>2. again' \in BOOLEAN
    BY <1>1, Zenon DEF StartSweep
  <2> QED
    BY <1>1, <2>1, <2>2 DEF StartSweep, function
<1>2. CASE StartBlock
  <2>1. tmp' \subseteq Regs
    BY <1>2 DEF StartBlock, Out
  <2>2. at' \in [Blocks -> [Points -> SUBSET Regs]]
    <3>1. Size \in Points /\ b \in Blocks
      BY <1>2, SizesNatural DEF StartBlock
    <3>2. [at[b] EXCEPT ![Size] = tmp'] \in [Points -> SUBSET Regs]
      BY <2>1, <3>1
    <3> QED
      BY <1>2, <3>1, <3>2 DEF StartBlock
  <2> QED
    BY <1>2, <2>1, <2>2, SizesNatural DEF StartBlock, function
<1>3. CASE StepBack
  <2>1. b \in Blocks /\ i \in 1..Size /\ i - 1 \in Points
    BY <1>3, SizesNatural DEF StepBack
  <2>2. code[b][i] \in Instr
    BY ZenonT(30), <2>1, InstrsAreInstr
  <2>3. tmp' \subseteq Regs
    BY <1>3, <2>2 DEF StepBack, Step, FullStep, Instr
  <2>4. [at[b] EXCEPT ![i - 1] = tmp'] \in [Points -> SUBSET Regs]
    BY <2>1, <2>3
  <2>5. at' \in [Blocks -> [Points -> SUBSET Regs]]
    BY <1>3, <2>1, <2>4 DEF StepBack
  <2> QED
    BY <1>3, <2>1, <2>3, <2>5 DEF StepBack, function
<1>4. CASE EndBlock
  <2>1. b \in Blocks
    BY <1>4 DEF EndBlock
  <2>2. liveIn' \in [Blocks -> SUBSET Regs]
    BY <1>4, <2>1 DEF EndBlock
  <2>3. again' \in BOOLEAN
    BY <1>4 DEF EndBlock, Changed
  <2>4. b' \in 0..N /\ pc' \in {"sweep", "block"} /\ (pc' = "block" => b' # 0)
    BY <1>4, <2>1, SizesNatural DEF EndBlock, EndsSweep
  <2> QED
    BY <1>4, <2>2, <2>3, <2>4 DEF EndBlock, function
<1>5. CASE Solved
  BY <1>5 DEF Solved, function
<1>6. CASE UNCHANGED vars
  BY <1>6 DEF vars, function
<1> QED
  BY <1>1, <1>2, <1>3, <1>4, <1>5, <1>6 DEF Next

(* Every intermediate set is a set of registers, and the iteration stays   *)
(* within the blocks and their instructions.                               *)
THEOREM TypeCorrect == Spec => []TypeOK
<1>1. Init => TypeOK
  BY SizesNatural DEF Init, TypeOK, LiveAtFirst
<1> QED
  BY <1>1, TypeKept, PTL DEF Spec

-----------------------------------------------------------------------------
(* What holds of a block that has been swept, as long as nothing changes.  *)
Fits(blk) ==
  /\ at[blk][0] = liveIn[blk]
  /\ at[blk][Size] = Out(blk, liveIn)
  /\ \A k \in 1..Size : at[blk][k - 1] = Step(code[blk][k], at[blk][k])

(* What holds of the block that is being swept.                            *)
FitsSoFar ==
  /\ at[b][i] = tmp
  /\ at[b][Size] = Out(b, liveIn)
  /\ \A k \in i + 1..Size : at[b][k - 1] = Step(code[b][k], at[b][k])

SweptFits ==
  /\ ~again /\ pc \in {"sweep", "solved"} => \A blk \in Blocks : Fits(blk)
  /\ ~again /\ pc \in {"block", "instr"} => \A blk \in b + 1..N : Fits(blk)
  /\ pc = "instr" => FitsSoFar
  /\ pc = "solved" => ~again

(* Sweeping further keeps what is known of the blocks swept before.        *)
LEMMA SweptFitsKept == TypeOK /\ SweptFits /\ [Next]_vars => SweptFits'
<1> SUFFICES ASSUME TypeOK, SweptFits, [Next]_vars PROVE SweptFits'
  OBVIOUS
<1>1. CASE StartSweep
  BY <1>1, SizesNatural DEF StartSweep, SweptFits, TypeOK
<1>2. CASE StartBlock
  <2>1. b \in Blocks /\ Size \in Points
    BY <1>2, SizesNatural DEF TypeOK, StartBlock
  <2>2. \A blk \in Blocks : blk # b => at'[blk] = at[blk]
    BY <1>2, <2>1 DEF StartBlock, TypeOK
  <2>3. at'[b][Size] = Out(b, liveIn)
    BY <1>2, <2>1 DEF StartBlock, TypeOK
  <2>4. FitsSoFar'
    BY <1>2, <2>1, <2>3, SizesNatural DEF StartBlock, FitsSoFar, Out, function
  <2>5. ~again' => \A blk \in b + 1..N : Fits(blk)'
    <3> SUFFICES ASSUME ~again', NEW blk \in b + 1..N PROVE Fits(blk)'
      OBVIOUS
    <3>1. Fits(blk) /\ blk \in Blocks /\ blk # b
      BY <1>2, <2>1 DEF StartBlock, SweptFits
    <3> QED
      BY <1>2, <2>2, <3>1 DEF StartBlock, Fits, Out, Step, function
  <2> QED
    BY <1>2, <2>4, <2>5 DEF StartBlock, SweptFits
<1>3. CASE StepBack
  <2>1. b \in Blocks /\ i \in 1..Size /\ i - 1 \in Points
    BY <1>3, SizesNatural DEF TypeOK, StepBack
  <2>2. \A blk \in Blocks : blk # b => at'[blk] = at[blk]
    BY <1>3, <2>1 DEF StepBack, TypeOK
  <2>3. at'[b][i - 1] = Step(code[b][i], tmp)
    BY <1>3, <2>1 DEF StepBack, TypeOK
  <2>4. \A k \in Points : k # i - 1 => at'[b][k] = at[b][k]
    BY <1>3, <2>1 DEF StepBack, TypeOK
  <2>5. FitsSoFar /\ pc' = "instr"
    BY <1>3 DEF StepBack, SweptFits
  <2>6. FitsSoFar'
    <3>1. at'[b'][i'] = tmp'
      BY <1>3, <2>3 DEF StepBack
    <3>2. (at[b][Size] = Out(b, liveIn))'
      <4>1. Size \in Points /\ Size # i - 1
        BY <2>1, SizesNatural
      <4>2. at'[b][Size] = Out(b, liveIn)
        BY <2>4, <2>5, <4>1 DEF FitsSoFar
      <4> QED
        BY <1>3, <4>2 DEF StepBack, Out, function
    <3>3. ASSUME NEW k \in i' + 1..Size
          PROVE  at'[b'][k - 1] = Step(code[b][k], at'[b][k])
      <4>1. CASE k = i
        BY <1>3, <2>1, <2>3, <2>4, <2>5, <4>1 DEF StepBack, FitsSoFar
      <4>2. CASE k # i
        <5>1. k \in i + 1..Size /\ k \in Points /\ k - 1 \in Points
          BY <1>3, <2>1, <4>2, SizesNatural DEF StepBack
        <5>2. at[b][k - 1] = Step(code[b][k], at[b][k])
          BY <2>5, <5>1 DEF FitsSoFar
        <5>3. at'[b][k - 1] = at[b][k - 1] /\ at'[b][k] = at[b][k]
          BY <2>1, <2>4, <5>1
        <5> QED
          BY <1>3, <5>2, <5>3 DEF StepBack
      <4> QED
        BY <4>1, <4>2
    <3>4. (\A k \in i + 1..Size : at[b][k - 1] = Step(code[b][k], at[b][k]))'
      BY <1>3, <3>3 DEF StepBack, Step, function
    <3> QED
      BY <3>1, <3>2, <3>4 DEF FitsSoFar
  <2>7. ~again' => \A blk \in b + 1..N : Fits(blk)'
    <3> SUFFICES ASSUME ~again', NEW blk \in b + 1..N PROVE Fits(blk)'
      OBVIOUS
    <3>1. Fits(blk) /\ blk \in Blocks /\ blk # b
      BY <1>3, <2>1 DEF StepBack, SweptFits
    <3> QED
      BY <1>3, <2>2, <3>1 DEF StepBack, Fits, Out, Step, function
  <2> QED
    BY <1>3, <2>5, <2>6, <2>7 DEF StepBack, SweptFits
<1>4. CASE EndBlock
  <2>1. b \in Blocks /\ b' = b - 1 /\ pc' \in {"sweep", "block"}
    BY <1>4 DEF TypeOK, EndBlock
  <2>2. ASSUME ~again'
        PROVE  /\ ~again /\ liveIn' = liveIn
               /\ \A blk \in b..N : Fits(blk)
    <3>1. ~again /\ tmp = liveIn[b]
      BY <1>4, <2>2 DEF EndBlock, Changed
    <3>2. liveIn' = liveIn
      BY <1>4, <3>1, <2>1 DEF EndBlock, TypeOK
    <3>3. Fits(b)
      BY <1>4, <3>1 DEF EndBlock, SweptFits, FitsSoFar, Fits
    <3>4. \A blk \in b + 1..N : Fits(blk)
      BY <1>4, <3>1 DEF EndBlock, SweptFits
    <3> QED
      BY <2>1, <3>1, <3>2, <3>3, <3>4
  <2>3. ASSUME ~again' PROVE \A blk \in b..N : Fits(blk)'
    BY <1>4, <2>2, <2>3 DEF EndBlock, Fits, Out, Step, function
  <2>4. pc' = "sweep" => b = 1
    BY <1>4 DEF EndBlock, EndsSweep
  <2> QED
    BY <2>1, <2>3, <2>4 DEF SweptFits
<1>5. CASE Solved
  BY <1>5 DEF Solved, SweptFits, Fits, Out, Step, function
<1>6. CASE UNCHANGED vars
  BY <1>6 DEF vars, SweptFits, FitsSoFar, Fits, Out, Step, function
<1> QED
  BY <1>1, <1>2, <1>3, <1>4, <1>5, <1>6 DEF Next

(* Where nothing has changed in a whole sweep, the equations hold.         *)
LEMMA FitsSolve == TypeOK /\ SweptFits => Consistent
<1> SUFFICES ASSUME TypeOK, SweptFits, pc = "solved"
             PROVE  IsSolution(at) /\ \A blk \in Blocks : at[blk][0] = liveIn[blk]
  BY DEF Consistent
<1>1. \A blk \in Blocks : Fits(blk)
  BY DEF SweptFits
<1>2. ASSUME NEW blk \in Blocks
      PROVE  at[blk][Size] = UNION {at[c][0] : c \in succ[blk]}
  <2>1. succ[blk] \subseteq Blocks
    BY <1>2 DEF TypeOK
  <2>2. {at[c][0] : c \in succ[blk]} = {liveIn[c] : c \in succ[blk]}
    BY <1>1, <2>1 DEF Fits
  <2> QED
    BY <1>1, <2>2 DEF Fits, Out
<1> QED
  BY <1>1, <1>2 DEF Fits, IsSolution

(* When live_solve returns, live_in and what is recomputed from it in each *)
(* block satisfy the liveness equations at every point (cfg.c:180-197):    *)
(* the sweep that changed nothing has seen every block.                    *)
THEOREM ConsistentAlways == Spec => []Consistent
<1>1. Init => SweptFits
  BY DEF Init, SweptFits
<1> QED
  BY <1>1, FitsSolve, SweptFitsKept, TypeCorrect, PTL DEF Spec

-----------------------------------------------------------------------------
(* Whatever solution there is, the iteration stays below it.               *)
Below(s) ==
  /\ \A blk \in Blocks : liveIn[blk] \subseteq s[blk][0]
  /\ pc = "instr" => tmp \subseteq s[b][i]

(* A larger set after an instruction gives a larger one before it, also    *)
(* when the instruction is skipped for the smaller one only.               *)
LEMMA StepMonotone ==
  ASSUME NEW in, NEW lower, NEW upper, lower \subseteq upper
  PROVE  Step(in, lower) \subseteq Step(in, upper)
  BY DEF Step, Skipped, FullStep

(* The sweep stays below the solution s, whatever step it takes.           *)
LEMMA BelowKept ==
  ASSUME NEW s, IsSolution(s), TypeOK, Below(s), [Next]_vars
  PROVE  Below(s)'
<1>1. CASE StartBlock
  <2>1. b \in Blocks /\ succ[b] \subseteq Blocks
    BY <1>1 DEF TypeOK, StartBlock
  <2>2. s[b][Size] = UNION {s[c][0] : c \in succ[b]}
    BY <2>1 DEF IsSolution
  <2>3. Out(b, liveIn) \subseteq s[b][Size]
    BY <2>1, <2>2 DEF Out, Below
  <2> QED
    BY <1>1, <2>3 DEF StartBlock, Below
<1>2. CASE StepBack
  <2>1. b \in Blocks /\ i \in 1..Size
    BY <1>2 DEF TypeOK, StepBack
  <2>2. tmp \subseteq s[b][i]
    BY <1>2 DEF StepBack, Below
  <2>3. s[b][i - 1] = Step(code[b][i], s[b][i])
    BY <2>1 DEF IsSolution
  <2>4. tmp' \subseteq s[b][i - 1]
    BY <1>2, <2>2, <2>3, StepMonotone DEF StepBack
  <2> QED
    BY <1>2, <2>4 DEF StepBack, Below
<1>3. CASE EndBlock
  <2>1. b \in Blocks /\ pc' # "instr" /\ tmp \subseteq s[b][0]
    BY <1>3 DEF TypeOK, EndBlock, Below
  <2>2. \A blk \in Blocks : liveIn'[blk] = IF blk = b THEN tmp ELSE liveIn[blk]
    BY <1>3, <2>1 DEF EndBlock, TypeOK
  <2> QED
    BY <2>1, <2>2 DEF Below
<1>4. CASE StartSweep \/ Solved \/ UNCHANGED vars
  BY <1>4 DEF StartSweep, Solved, vars, Below
<1> QED
  BY <1>1, <1>2, <1>3, <1>4 DEF Next

(* The same of every solution.                                             *)
BelowAll == \A s \in [Blocks -> [Points -> SUBSET Regs]] : IsSolution(s) => Below(s)

(* Whatever the solution, each step stays below it.                        *)
LEMMA BelowAllKept == TypeOK /\ BelowAll /\ [Next]_vars => BelowAll'
<1> SUFFICES ASSUME TypeOK, BelowAll, [Next]_vars,
                    NEW s \in [Blocks -> [Points -> SUBSET Regs]], IsSolution(s)'
             PROVE  Below(s)'
  BY DEF BelowAll
<1>1. code' = code /\ succ' = succ /\ full' = full
  BY DEF Next, StartSweep, StartBlock, StepBack, EndBlock, Solved, vars, function
<1>2. IsSolution(s)
  BY <1>1 DEF IsSolution, Step
<1> QED
  BY <1>2, BelowKept DEF BelowAll

(* Any choice of sets that satisfies the liveness equations holds all that *)
(* live_solve holds live (cfg.c:186, 192-196).                             *)
THEOREM LeastAlways == Spec => []Least
<1>1. Init => BelowAll
  BY DEF Init, BelowAll, Below, LiveAtFirst
<1>2. BelowAll => Least
  BY DEF BelowAll, Least, LeastAt, Below
<1> QED
  BY <1>1, <1>2, BelowAllKept, TypeCorrect, PTL DEF Spec

-----------------------------------------------------------------------------
(* The solver only ever finds more: what a block held live when it was     *)
(* last at a point is found again from what its successors hold now.       *)
Growing ==
  /\ \A blk \in Blocks :
       /\ liveIn[blk] \subseteq at[blk][0]
       /\ at[blk][Size] \subseteq Out(blk, liveIn)
       /\ \A k \in 1..Size : at[blk][k - 1] \subseteq Step(code[blk][k], at[blk][k])
  /\ pc = "instr" => at[b][i] = tmp

(* More at one point of a block, and what is a step before it follows.     *)
LEMMA GrowingKept == TypeOK /\ Growing /\ [Next]_vars => Growing'
<1> SUFFICES ASSUME TypeOK, Growing, [Next]_vars PROVE Growing'
  OBVIOUS
<1>1. CASE StartBlock
  <2>1. b \in Blocks /\ Size \in Points /\ 0 \in Points /\ Size # 0
    BY <1>1, SizesNatural DEF TypeOK, StartBlock
  <2>2. /\ \A blk \in Blocks : blk # b => at'[blk] = at[blk]
        /\ \A k \in Points : k # Size => at'[b][k] = at[b][k]
        /\ at'[b][Size] = Out(b, liveIn)
    BY <1>1, <2>1 DEF StartBlock, TypeOK
  <2>3. ASSUME NEW blk \in Blocks
        PROVE  /\ liveIn[blk] \subseteq at'[blk][0]
               /\ at'[blk][Size] \subseteq Out(blk, liveIn)
    BY <2>1, <2>2 DEF Growing
  <2>4. ASSUME NEW blk \in Blocks, NEW k \in 1..Size
        PROVE  at'[blk][k - 1] \subseteq Step(code[blk][k], at'[blk][k])
    <3>1. k \in Points /\ k - 1 \in Points /\ k - 1 # Size
      BY SizesNatural
    <3>2. at'[blk][k - 1] = at[blk][k - 1]
      BY <2>1, <2>2, <3>1
    <3>3. at[blk][k] \subseteq at'[blk][k]
      <4>1. CASE blk = b /\ k = Size
        BY <2>1, <2>2, <4>1 DEF Growing
      <4>2. CASE ~(blk = b /\ k = Size)
        BY <2>1, <2>2, <3>1, <4>2
      <4> QED
        BY <4>1, <4>2
    <3>4. at[blk][k - 1] \subseteq Step(code[blk][k], at[blk][k])
      BY DEF Growing
    <3> QED
      BY <3>2, <3>3, <3>4, StepMonotone
  <2>5. liveIn' = liveIn /\ code' = code /\ succ' = succ /\ full' = full /\ b' = b /\ i' = Size
    BY <1>1 DEF StartBlock, function
  <2>6. at'[b'][i'] = tmp'
    BY <1>1, <2>2, <2>5 DEF StartBlock
  <2> QED
    BY <2>3, <2>4, <2>5, <2>6 DEF Growing, Out, Step
<1>2. CASE StepBack
  <2>1. b \in Blocks /\ i \in 1..Size /\ i - 1 \in Points /\ i - 1 # Size /\ Size \in Points /\ 0 \in Points
    BY <1>2, SizesNatural DEF TypeOK, StepBack
  <2>2. /\ \A blk \in Blocks : blk # b => at'[blk] = at[blk]
        /\ \A k \in Points : k # i - 1 => at'[b][k] = at[b][k]
        /\ at'[b][i - 1] = Step(code[b][i], tmp)
    BY <1>2, <2>1 DEF StepBack, TypeOK
  <2>3. at[b][i - 1] \subseteq at'[b][i - 1]
    <3>1. at[b][i] = tmp
      BY <1>2 DEF StepBack, Growing
    <3> QED
      BY <2>1, <2>2, <3>1 DEF Growing
  <2>4. ASSUME NEW blk \in Blocks, NEW k \in Points
        PROVE  at[blk][k] \subseteq at'[blk][k]
    <3>1. CASE blk = b /\ k = i - 1
      BY <2>3, <3>1
    <3>2. CASE ~(blk = b /\ k = i - 1)
      BY <2>2, <3>2
    <3> QED
      BY <3>1, <3>2
  <2>5. ASSUME NEW blk \in Blocks
        PROVE  /\ liveIn[blk] \subseteq at'[blk][0]
               /\ at'[blk][Size] \subseteq Out(blk, liveIn)
    <3>1. liveIn[blk] \subseteq at'[blk][0]
      BY <2>1, <2>4 DEF Growing
    <3>2. at'[blk][Size] = at[blk][Size]
      BY <2>1, <2>2
    <3> QED
      BY <3>1, <3>2 DEF Growing
  <2>6. ASSUME NEW blk \in Blocks, NEW k \in 1..Size
        PROVE  at'[blk][k - 1] \subseteq Step(code[blk][k], at'[blk][k])
    <3>0. k \in Points /\ k - 1 \in Points
      BY SizesNatural
    <3>1. CASE blk = b /\ k = i
      <4>1. at'[b][i] = tmp
        BY <1>2, <2>1, <2>2 DEF StepBack, Growing
      <4> QED
        BY <2>2, <3>1, <4>1
    <3>2. CASE ~(blk = b /\ k = i)
      <4>1. at'[blk][k - 1] = at[blk][k - 1]
        BY <2>1, <2>2, <3>0, <3>2
      <4>2. at[blk][k] \subseteq at'[blk][k]
        BY <2>4, <3>0
      <4>3. at[blk][k - 1] \subseteq Step(code[blk][k], at[blk][k])
        BY DEF Growing
      <4> QED
        BY <4>1, <4>2, <4>3, StepMonotone
    <3> QED
      BY <3>1, <3>2
  <2>7. liveIn' = liveIn /\ code' = code /\ succ' = succ /\ full' = full /\ b' = b /\ i' = i - 1
    BY <1>2 DEF StepBack, function
  <2>8. at'[b'][i'] = tmp'
    BY <1>2, <2>2, <2>7 DEF StepBack
  <2> QED
    BY <2>5, <2>6, <2>7, <2>8 DEF Growing, Out, Step
<1>3. CASE EndBlock
  <2>1. b \in Blocks /\ pc' # "instr" /\ tmp = at[b][0]
    BY <1>3 DEF TypeOK, EndBlock, Growing
  <2>2. /\ \A blk \in Blocks : liveIn'[blk] = IF blk = b THEN tmp ELSE liveIn[blk]
        /\ at' = at /\ code' = code /\ succ' = succ /\ full' = full
    BY <1>3, <2>1 DEF EndBlock, TypeOK, function
  <2>3. \A blk \in Blocks : liveIn[blk] \subseteq liveIn'[blk]
    BY <2>1, <2>2 DEF Growing
  <2>4. ASSUME NEW blk \in Blocks PROVE Out(blk, liveIn) \subseteq Out(blk, liveIn')
    <3>1. succ[blk] \subseteq Blocks
      BY DEF TypeOK
    <3> QED
      BY <2>3, <3>1 DEF Out
  <2>5. ASSUME NEW blk \in Blocks
        PROVE  liveIn'[blk] \subseteq at[blk][0] /\ at[blk][Size] \subseteq Out(blk, liveIn')
    BY <2>1, <2>2, <2>4 DEF Growing
  <2> QED
    BY <2>1, <2>2, <2>5 DEF Growing, Out, Step
<1>4. CASE StartSweep \/ Solved
  BY <1>4 DEF StartSweep, Solved, Growing, Out, Step, function
<1>5. CASE UNCHANGED vars
  BY <1>5 DEF vars, Growing, Out, Step, function
<1> QED
  BY <1>1, <1>2, <1>3, <1>4, <1>5 DEF Next

(* The registers still to be found live.                                   *)
Missing == {p \in Blocks \X Regs : p[2] \notin liveIn[p[1]]}

(* What is not yet live can be counted.                                    *)
LEMMA MissingCounted == IsFiniteSet(Missing) /\ Cardinality(Missing) \in Nat
<1>1. IsFiniteSet(Blocks)
  BY FS_Interval, SizesNatural
<1>2. IsFiniteSet(Blocks \X Regs)
  BY <1>1, RegsCounted, FS_Product
<1>3. Missing \subseteq Blocks \X Regs
  BY DEF Missing
<1> QED
  BY <1>2, <1>3, FS_Subset, FS_CardinalityType

(* A block whose live_in changes has found one live that was missing.      *)
LEMMA FoundOne ==
  ASSUME TypeOK, Growing, EndBlock, tmp # liveIn[b]
  PROVE  Cardinality(Missing') \in Nat /\ Cardinality(Missing') < Cardinality(Missing)
<1>1. b \in Blocks /\ liveIn[b] \subseteq tmp /\ tmp \subseteq Regs
  BY DEF TypeOK, EndBlock, Growing
<1>2. liveIn \in [Blocks -> SUBSET Regs]
  BY DEF TypeOK
<1>3. \A blk \in Blocks : liveIn'[blk] = IF blk = b THEN tmp ELSE liveIn[blk]
  BY <1>1, <1>2 DEF EndBlock
<1>4. Missing' = {p \in Blocks \X Regs : p[2] \notin liveIn'[p[1]]}
  BY DEF Missing
<1>5. PICK r \in tmp : r \notin liveIn[b]
  BY <1>1
<1>6. <<b, r>> \in Missing /\ <<b, r>> \notin Missing'
  BY <1>1, <1>3, <1>4, <1>5 DEF Missing
<1>7. Missing' \subseteq Missing
  <2> SUFFICES ASSUME NEW p \in Missing' PROVE p \in Missing
    OBVIOUS
  <2>1. p \in Blocks \X Regs /\ p[1] \in Blocks /\ p[2] \notin liveIn'[p[1]]
    BY <1>4
  <2>2. p[2] \notin liveIn[p[1]]
    BY <1>1, <1>3, <2>1
  <2> QED
    BY <2>1, <2>2 DEF Missing
<1> QED
  BY <1>6, <1>7, MissingCounted, FS_Subset, FS_CardinalityType

(* live_solve returns, for every function: each step of the sweep comes    *)
(* nearer to its end, and a sweep that is followed by another has found a  *)
(* register live that was not (cfg.c:138-149, 180-197).                    *)
THEOREM SolvingNearsTheEnd == Spec => NearerTheEnd
<1>1. Init => Growing
  BY SizesNatural DEF Init, Growing, LiveAtFirst
<1>2. TypeOK /\ Growing /\ [Next]_vars => [pc # "solved" => Before(Left', Left)]_vars
  <2> SUFFICES ASSUME TypeOK, Growing, Next, pc # "solved" PROVE Before(Left', Left)
    BY DEF vars
  <2> DEFINE m == Left'
             n == Left
  <2>1. /\ m = <<Cardinality(Missing'), IF again' THEN 1 ELSE 0,
                 IF pc' = "solved" THEN 0 ELSE IF pc' = "sweep" THEN 1 ELSE b' + 1,
                 IF pc' = "instr" THEN i' ELSE Size + 1>>
        /\ n = <<Cardinality(Missing), IF again THEN 1 ELSE 0,
                 IF pc = "solved" THEN 0 ELSE IF pc = "sweep" THEN 1 ELSE b + 1,
                 IF pc = "instr" THEN i ELSE Size + 1>>
    BY DEF Left, Missing
  <2>2. \/ m[1] < n[1]
        \/ m[1] = n[1] /\ m[2] < n[2]
        \/ m[1] = n[1] /\ m[2] = n[2] /\ m[3] < n[3]
        \/ m[1] = n[1] /\ m[2] = n[2] /\ m[3] = n[3] /\ m[4] < n[4]
    <3> HIDE DEF m, n
    <3>1. CASE StartSweep
      <4>1. Missing' = Missing
        BY <3>1 DEF StartSweep, Missing
      <4> QED
        BY <2>1, <3>1, <4>1 DEF StartSweep
    <3>2. CASE StartBlock
      <4>1. Missing' = Missing /\ b' = b /\ again' = again /\ pc' = "instr" /\ pc = "block" /\ i' = Size
        BY <3>2 DEF StartBlock, Missing
      <4> QED
        BY <2>1, <4>1, SizesNatural
    <3>3. CASE StepBack
      <4>1. Missing' = Missing /\ b' = b /\ again' = again /\ pc' = pc /\ pc = "instr" /\ i' = i - 1
        BY <3>3 DEF StepBack, Missing
      <4> QED
        BY <2>1, <4>1, SizesNatural DEF TypeOK
    <3>4. CASE EndBlock
      <4>1. CASE tmp # liveIn[b]
        <5>1. Cardinality(Missing') < Cardinality(Missing)
          BY <3>4, <4>1, FoundOne
        <5> QED
          BY <2>1, <5>1
      <4>2. CASE tmp = liveIn[b]
        <5>1. liveIn' = liveIn /\ again' = again
          BY <3>4, <4>2 DEF EndBlock, Changed, TypeOK
        <5>2. Missing' = Missing
          BY <5>1 DEF Missing
        <5>3. b' = b - 1 /\ pc = "instr" /\ b \in 1..N /\ pc' = IF b = 1 THEN "sweep" ELSE "block"
          BY <3>4 DEF EndBlock, EndsSweep, TypeOK
        <5>4. (IF pc' = "solved" THEN 0 ELSE IF pc' = "sweep" THEN 1 ELSE b' + 1) < b + 1
          BY <5>3, SizesNatural
        <5> QED
          BY <2>1, <5>1, <5>2, <5>3, <5>4
      <4> QED
        BY <4>1, <4>2
    <3>5. CASE Solved
      <4>1. Missing' = Missing /\ again' = again /\ pc = "sweep" /\ pc' = "solved"
        BY <3>5 DEF Solved, Missing
      <4> QED
        BY <2>1, <4>1
    <3> QED
      BY <3>1, <3>2, <3>3, <3>4, <3>5 DEF Next
  <2>3. DOMAIN m = 1..4
    BY <2>1
  <2> HIDE DEF m, n
  <2>4. \E k \in 1..4 : m[k] < n[k] /\ \A j \in 1..k - 1 : m[j] = n[j]
    BY <2>2
  <2>5. \E k \in DOMAIN m : m[k] < n[k] /\ \A j \in 1..k - 1 : m[j] = n[j]
    BY <2>3, <2>4
  <2> QED
    BY <2>5 DEF Before, m, n
<1> QED
  BY <1>1, <1>2, GrowingKept, TypeCorrect, PTL DEF Spec, NearerTheEnd
-----------------------------------------------------------------------------
(* The points from which r is read ahead are closed under going back, and  *)
(* each of them is one step back from another.                             *)
LEMMA ReadAheadFixed ==
  ASSUME NEW r PROVE ReadNext(r, ReadAhead(r)) = ReadAhead(r)
<1> DEFINE Places == Blocks \X Points
           Closed == {known \in SUBSET Places : ReadNext(r, known) \subseteq known}
<1>1. ReadAhead(r) = {p \in Places : \A known \in Closed : p \in known}
  BY DEF ReadAhead
<1>2. ASSUME NEW few, NEW many, few \subseteq many
      PROVE  ReadNext(r, few) \subseteq ReadNext(r, many)
  BY <1>2 DEF ReadNext
<1>3. \A known : ReadNext(r, known) \subseteq Places
  BY DEF ReadNext
<1> HIDE DEF Places
<1>4. ReadNext(r, ReadAhead(r)) \subseteq ReadAhead(r)
  <2> SUFFICES ASSUME NEW p \in ReadNext(r, ReadAhead(r)), NEW known \in Closed
               PROVE  p \in known
    BY <1>1, <1>3
  <2>1. ReadAhead(r) \subseteq known
    BY <1>1
  <2>2. ReadNext(r, ReadAhead(r)) \subseteq ReadNext(r, known)
    BY <1>2, <2>1
  <2>3. ReadNext(r, known) \subseteq known
    OBVIOUS
  <2> QED
    BY <2>2, <2>3
<1>5. ReadAhead(r) \subseteq ReadNext(r, ReadAhead(r))
  <2>1. ReadNext(r, ReadNext(r, ReadAhead(r))) \subseteq ReadNext(r, ReadAhead(r))
    BY <1>2, <1>4
  <2>2. ReadNext(r, ReadAhead(r)) \in Closed
    BY <1>3, <2>1
  <2> QED
    BY <1>1, <2>2
<1> QED
  BY <1>4, <1>5

(* What is read ahead of each point is a solution of the equations the     *)
(* register allocator solves.                                              *)
Reads == [blk \in Blocks |-> [k \in Points |-> {r \in Regs : <<blk, k>> \in ReadAhead(r)}]]

(* A set of points that holds every point one step back from its own and   *)
(* each point that reads the register: what reads ahead solves the         *)
(* liveness equations.                                                     *)
LEMMA ReadsSolve ==
  ASSUME TypeOK, full PROVE IsSolution(Reads)
<1>1. ASSUME NEW blk \in Blocks, NEW k \in Points, NEW r \in Regs
      PROVE  r \in Reads[blk][k] <=> <<blk, k>> \in ReadNext(r, ReadAhead(r))
  BY ReadAheadFixed DEF Reads
<1>2. \A blk \in Blocks : \A k \in Points : Reads[blk][k] \subseteq Regs
  BY DEF Reads
<1>3. \A blk \in Blocks : \A k \in Points : \A r \in Regs :
        r \in Reads[blk][k] <=> <<blk, k>> \in ReadAhead(r)
  BY DEF Reads
<1>4. ASSUME NEW blk \in Blocks
      PROVE  Reads[blk][Size] = UNION {Reads[c][0] : c \in succ[blk]}
  <2>1. Size \in Points /\ 0 \in Points /\ succ[blk] \subseteq Blocks
    BY SizesNatural DEF TypeOK
  <2>2. ASSUME NEW r \in Regs
        PROVE  r \in Reads[blk][Size] <=> \E c \in succ[blk] : r \in Reads[c][0]
    <3>1. <<blk, Size>> \in ReadNext(r, ReadAhead(r))
            <=> \E c \in succ[blk] : <<c, 0>> \in ReadAhead(r)
      BY <2>1 DEF ReadNext
    <3> QED
      BY <1>1, <1>3, <2>1, <3>1
  <2>3. \A c \in succ[blk] : Reads[c][0] \subseteq Regs
    BY <1>2, <2>1
  <2> QED
    BY <1>2, <2>1, <2>2, <2>3
<1>5. ASSUME NEW blk \in Blocks, NEW k \in 1..Size
      PROVE  Reads[blk][k - 1] = Step(code[blk][k], Reads[blk][k])
  <2>1. k \in Points /\ k - 1 \in Points /\ k - 1 # Size /\ (k - 1) + 1 = k
    BY SizesNatural
  <2>2. code[blk][k] \in Instr
    BY ZenonT(30), InstrsAreInstr DEF TypeOK
  <2>3. code[blk][k].src \subseteq Regs
    BY <2>2 DEF Instr
  <2>4. ASSUME NEW r \in Regs
        PROVE  r \in Reads[blk][k - 1]
                 <=> r \in code[blk][k].src \/ (r # code[blk][k].dst /\ r \in Reads[blk][k])
    <3>1. <<blk, k - 1>> \in ReadNext(r, ReadAhead(r))
            <=> r \in code[blk][k].src \/ (r # code[blk][k].dst /\ <<blk, k>> \in ReadAhead(r))
      BY <2>1 DEF ReadNext
    <3> QED
      BY <1>1, <1>3, <2>1, <3>1
  <2>5. Step(code[blk][k], Reads[blk][k]) = (Reads[blk][k] \ {code[blk][k].dst}) \cup code[blk][k].src
    BY DEF Step, FullStep
  <2> QED
    BY <1>2, <2>1, <2>3, <2>4, <2>5
<1> HIDE DEF Reads
<1> QED
  BY <1>4, <1>5 DEF IsSolution

(* The allocator takes a register to be live where some path leads to an   *)
(* instruction that reads it before it is made anew, and nowhere else, in  *)
(* every function (cfg.c:153-162, 180-197).                                *)
THEOREM LiveWhereRead == Spec => []LiveAsRead
<1>1. Init => SweptFits /\ BelowAll
  BY DEF Init, SweptFits, BelowAll, Below, LiveAtFirst
<1>2. TypeOK /\ SweptFits /\ BelowAll => LiveAsRead
  <2> SUFFICES ASSUME TypeOK, SweptFits, BelowAll, pc = "solved", full,
                      NEW blk \in Blocks
               PROVE  liveIn[blk] = {r \in Regs : <<blk, 0>> \in ReadAhead(r)}
    BY DEF LiveAsRead
  <2>1. IsSolution(at) /\ \A c \in Blocks : at[c][0] = liveIn[c]
    BY FitsSolve DEF Consistent
  <2>2. 0 \in Points /\ Size \in Points
    BY SizesNatural
  <2>3. liveIn[blk] \subseteq {r \in Regs : <<blk, 0>> \in ReadAhead(r)}
    <3>1. Reads \in [Blocks -> [Points -> SUBSET Regs]]
      BY DEF Reads
    <3>2. Below(Reads)
      BY <3>1, ReadsSolve DEF BelowAll
    <3> QED
      BY <2>2, <3>2 DEF Below, Reads
  <2>4. ASSUME NEW r \in Regs, <<blk, 0>> \in ReadAhead(r)
        PROVE  r \in liveIn[blk]
    <3> DEFINE K == {p \in Blocks \X Points : r \in at[p[1]][p[2]]}
    <3>1. ReadNext(r, K) \subseteq K
      <4> SUFFICES ASSUME NEW p \in ReadNext(r, K) PROVE p \in K
        OBVIOUS
      <4>1. PICK c \in Blocks, k \in Points : p = <<c, k>>
        BY DEF ReadNext
      <4>2. CASE k = Size
        <5>1. PICK d \in succ[c] : <<d, 0>> \in K
          BY <4>1, <4>2 DEF ReadNext
        <5>2. r \in at[d][0]
          BY <5>1
        <5>3. at[c][Size] = UNION {at[e][0] : e \in succ[c]}
          BY <2>1 DEF IsSolution
        <5> QED
          BY <4>1, <4>2, <5>2, <5>3
      <4>3. CASE k # Size
        <5>1. k + 1 \in 1..Size /\ (k + 1) - 1 = k /\ k + 1 \in Points
          BY <4>3, SizesNatural
        <5>2. at[c][k] = Step(code[c][k + 1], at[c][k + 1])
          BY <2>1, <5>1 DEF IsSolution
        <5>3. at[c][k] = (at[c][k + 1] \ {code[c][k + 1].dst}) \cup code[c][k + 1].src
          BY <5>2 DEF Step, FullStep
        <5>4. r \in code[c][k + 1].src \/ (r # code[c][k + 1].dst /\ <<c, k + 1>> \in K)
          BY <4>1, <4>3 DEF ReadNext
        <5>5. r \in at[c][k]
          BY <5>3, <5>4
        <5> QED
          BY <4>1, <5>5
      <4> QED
        BY <4>2, <4>3
    <3>2. K \in SUBSET (Blocks \X Points)
      OBVIOUS
    <3> HIDE DEF K
    <3>3. <<blk, 0>> \in K
      BY <2>4, <3>1, <3>2 DEF ReadAhead
    <3>4. r \in at[blk][0]
      BY <3>3 DEF K
    <3> QED
      BY <2>1, <3>4
  <2> QED
    BY <2>3, <2>4
<1> QED
  BY <1>1, <1>2, SweptFitsKept, BelowAllKept, TypeCorrect, PTL DEF Spec
-----------------------------------------------------------------------------
(* What opt_live_dce may take away: at the points of a solution, what makes*)
(* a dead register that is not in memory.                                  *)
Dead(blk, k) == code[blk][k].dst \notin addressed /\ Skipped(code[blk][k], at[blk][k])

(* While the pass removes instructions its sets are those of the solver,   *)
(* and while the program runs, what was not computed is neither live nor   *)
(* to be found in memory.                                                  *)
DceInv ==
  /\ TypeOK
  /\ stage \in {"solve", "out", "kill", "run"} /\ addressed \subseteq Regs
  /\ stage = "solve" => SweptFits /\ killed = {}
  /\ stage # "run" => stale = {}
  /\ stage # "solve" =>
       /\ pc = "solved" /\ ~full /\ b # 0 /\ IsSolution(at)
       /\ \A blk \in Blocks : at[blk][0] = liveIn[blk]
  /\ stage # "solve" /\ SolverAgrees =>
       /\ stage = "kill" => tmp = at[b][i]
       /\ \A p \in killed : p \in Blocks \X (1..Size) /\ Dead(p[1], p[2])
       /\ stage = "run" => stale \cap (at[b][i] \cup addressed) = {}

(* What is left of the solver's facts once it is done is about the         *)
(* function and the sets it found.                                         *)
LEMMA SolutionStays ==
  ASSUME UNCHANGED <<function, liveIn, at, addressed>>
  PROVE  /\ code' = code /\ succ' = succ /\ full' = full /\ liveIn' = liveIn /\ at' = at
         /\ addressed' = addressed
         /\ IsSolution(at)' <=> IsSolution(at)
         /\ SolverAgrees' <=> SolverAgrees
         /\ \A blk, k : Dead(blk, k)' <=> Dead(blk, k)
<1>1. code' = code /\ succ' = succ /\ full' = full /\ liveIn' = liveIn /\ at' = at
      /\ addressed' = addressed
  BY DEF function
<1> QED
  BY <1>1 DEF IsSolution, Step, SolverAgrees, Dead

(* A removed instruction leaves nothing stale that anybody still reads.    *)
LEMMA ExecuteKeeps ==
  ASSUME TypeOK, NEW k \in 1..Size, NEW blk \in Blocks, IsSolution(at), ~full, SolverAgrees,
         stale \cap (at[blk][k - 1] \cup addressed) = {}
  PROVE  /\ code[blk][k].src \subseteq at[blk][k - 1] \/ Dead(blk, k)
         /\ at[blk][k] \subseteq at[blk][k - 1] \cup {code[blk][k].dst}
         /\ code[blk][k].dst = NOREG => at[blk][k] \subseteq at[blk][k - 1]
<1> DEFINE in == code[blk][k]
<1>1. at[blk][k - 1] = Step(in, at[blk][k])
  BY DEF IsSolution
<1>2. at[blk][k] \subseteq Regs
  <2>1. k \in Points
    BY SizesNatural
  <2> QED
    BY <2>1 DEF TypeOK
<1>3. CASE Skipped(in, at[blk][k])
  <2>1. at[blk][k - 1] = at[blk][k]
    BY <1>1, <1>3 DEF Step
  <2>2. in.dst \in addressed => in.src \subseteq at[blk][k - 1]
    BY <1>3 DEF SolverAgrees
  <2> QED
    BY <1>3, <2>1, <2>2 DEF Dead
<1>4. CASE ~Skipped(in, at[blk][k])
  <2>1. at[blk][k - 1] = (at[blk][k] \ {in.dst}) \cup in.src
    BY <1>1, <1>4 DEF Step, FullStep
  <2> QED
    BY <1>2, <2>1, NoRegIsNone
<1> QED
  BY <1>3, <1>4

(* Before the solver has run, the pass has done nothing.                   *)
LEMMA DceInvInit == DceInit => DceInv
<1>1. Init => TypeOK
  BY SizesNatural DEF Init, TypeOK, LiveAtFirst
<1>2. Init => SweptFits
  BY DEF Init, SweptFits
<1>3. DceInit => addressed \subseteq Regs
  BY BuildsKnown DEF DceInit
<1> QED
  BY <1>1, <1>2, <1>3 DEF DceInit, DceInv

(* Each step of the pass, and of the program it leaves.                    *)
LEMMA DceInvKept == DceInv /\ [DceNext]_dceVars => DceInv'
<1> SUFFICES ASSUME DceInv, [DceNext]_dceVars PROVE DceInv'
  OBVIOUS
<1>0. TypeOK /\ addressed \subseteq Regs
  BY DEF DceInv
<1>1. CASE Solve
  <2>1. CASE pc = "solved"
    BY <2>1, <1>1 DEF Solve, Next, StartSweep, StartBlock, StepBack, EndBlock, Solved
  <2>2. CASE pc # "solved"
    <3>1. stage = "solve" /\ stage' = "solve" /\ killed' = killed /\ stale' = stale
          /\ addressed' = addressed
      BY <1>1, <2>2 DEF Solve, DceInv
    <3>2. TypeOK' /\ SweptFits'
      BY <1>0, <1>1, <3>1, TypeKept, SweptFitsKept DEF Solve, DceInv
    <3> QED
      BY <3>1, <3>2 DEF DceInv
  <2> QED
    BY <2>1, <2>2
<1>2. CASE UNCHANGED dceVars
  <2>1. TypeOK' /\ (SweptFits => SweptFits')
    BY <1>0, <1>2, TypeKept, SweptFitsKept DEF dceVars
  <2>2. UNCHANGED <<function, liveIn, at, addressed, pc, b, i, tmp, stage, killed, stale>>
    BY <1>2 DEF dceVars, vars
  <2> QED
    BY <2>1, <2>2, SolutionStays DEF DceInv
<1>3. CASE StartKilling
  <2>1. UNCHANGED <<function, liveIn, at, addressed>> /\ pc' = pc /\ again' = again
    BY <1>3 DEF StartKilling, Rest
  <2>2. /\ pc = "solved" /\ ~full /\ stage = "solve" /\ stage' = "out" /\ b' = 1
        /\ i' = i /\ tmp' = tmp /\ killed' = killed /\ stale' = stale
    BY <1>3 DEF StartKilling
  <2>3. SweptFits /\ killed = {} /\ stale = {}
    BY <2>2 DEF DceInv
  <2>4. IsSolution(at) /\ \A blk \in Blocks : at[blk][0] = liveIn[blk]
    BY <1>0, <2>2, <2>3, FitsSolve DEF Consistent
  <2>5. TypeOK'
    BY <1>0, <2>1, <2>2, SizesNatural DEF TypeOK, function
  <2> QED
    BY <2>1, <2>2, <2>3, <2>4, <2>5, <1>0, SolutionStays DEF DceInv
<1>4. CASE SweepOut
  <2>1. UNCHANGED <<function, liveIn, at, addressed>> /\ pc' = pc /\ again' = again
    BY <1>4 DEF SweepOut, Rest
  <2>2. /\ stage = "out" /\ stage' = "kill" /\ tmp' = Out(b, liveIn) /\ i' = Size
        /\ b' = b /\ killed' = killed /\ stale' = stale
    BY <1>4 DEF SweepOut
  <2>3. b \in Blocks /\ Size \in Points
    BY <1>0, <2>2, SizesNatural DEF DceInv, TypeOK
  <2>4. tmp' = at[b][Size]
    <3>1. at[b][Size] = UNION {at[c][0] : c \in succ[b]}
      BY <2>2, <2>3 DEF DceInv, IsSolution
    <3>2. succ[b] \subseteq Blocks /\ \A c \in Blocks : at[c][0] = liveIn[c]
      BY <1>0, <2>2, <2>3 DEF DceInv, TypeOK
    <3>3. {at[c][0] : c \in succ[b]} = {liveIn[c] : c \in succ[b]}
      BY <3>2
    <3> QED
      BY <2>2, <3>1, <3>3 DEF Out
  <2>5. TypeOK'
    <3>1. tmp' \subseteq Regs
      BY <1>0, <2>3, <2>4 DEF TypeOK
    <3> QED
      BY <1>0, <2>1, <2>2, <2>3, <3>1 DEF TypeOK, function
  <2> QED
    BY <2>1, <2>2, <2>4, <2>5, <1>0, SolutionStays DEF DceInv
<1>5. CASE SweepInstr
  <2>1. UNCHANGED <<function, liveIn, at, addressed>> /\ pc' = pc /\ again' = again
    BY <1>5 DEF SweepInstr, Rest
  <2> DEFINE in == code[b][i]
  <2>2. /\ stage = "kill" /\ stage' = stage /\ i > 0 /\ i' = i - 1 /\ b' = b /\ stale' = stale
        /\ \/ Dies(in) /\ killed' = killed \cup {<<b, i>>} /\ tmp' = tmp
           \/ ~Dies(in) /\ killed' = killed /\ tmp' = FullStep(in, tmp)
    BY <1>5 DEF SweepInstr
  <2>3. b \in Blocks /\ i \in 1..Size /\ i \in Points /\ i - 1 \in Points
    BY <1>0, <2>2, SizesNatural DEF DceInv, TypeOK
  <2>4. in \in Instr
    BY ZenonT(30), <1>0, <2>3, InstrsAreInstr DEF TypeOK
  <2>5. TypeOK'
    <3>1. tmp' \subseteq Regs
      BY <1>0, <2>2, <2>4 DEF TypeOK, FullStep, Instr
    <3> QED
      BY <1>0, <2>1, <2>2, <2>3, <3>1 DEF TypeOK, function
  <2>6. ASSUME SolverAgrees
        PROVE  /\ tmp' = at[b][i - 1]
               /\ \A p \in killed' : p \in Blocks \X (1..Size) /\ Dead(p[1], p[2])
    <3>1. tmp = at[b][i] /\ ~full /\ IsSolution(at)
          /\ \A p \in killed : p \in Blocks \X (1..Size) /\ Dead(p[1], p[2])
      BY <2>2, <2>6 DEF DceInv
    <3>2. at[b][i - 1] = IF Skipped(in, tmp) THEN tmp ELSE FullStep(in, tmp)
      BY <2>3, <3>1 DEF IsSolution, Step
    <3>3. CASE Dies(in)
      <4>1. in.dst \notin addressed /\ Skipped(in, tmp)
        BY <3>3 DEF Dies
      <4>2. Dead(b, i)
        BY <3>1, <4>1 DEF Dead
      <4> QED
        BY <2>2, <2>3, <3>1, <3>2, <3>3, <4>1, <4>2
    <3>4. CASE ~Dies(in)
      <4>1. CASE Skipped(in, tmp)
        <5>1. in.dst \in addressed
          BY <3>4, <4>1 DEF Dies
        <5>2. in.src \subseteq tmp
          BY <2>3, <2>6, <3>1, <3>2, <4>1, <5>1 DEF SolverAgrees
        <5>3. in.dst \notin tmp
          BY <4>1 DEF Skipped
        <5>4. FullStep(in, tmp) = tmp
          BY <5>2, <5>3 DEF FullStep
        <5> QED
          BY <2>2, <3>1, <3>2, <3>4, <4>1, <5>4
      <4>2. CASE ~Skipped(in, tmp)
        BY <2>2, <3>1, <3>2, <3>4, <4>2
      <4> QED
        BY <4>1, <4>2
    <3> QED
      BY <3>3, <3>4
  <2> HIDE DEF in
  <2> QED
    BY <2>1, <2>2, <2>5, <2>6, <1>0, SolutionStays DEF DceInv
<1>6. CASE SweepEnd
  <2>1. UNCHANGED <<function, liveIn, at, addressed>> /\ pc' = pc /\ again' = again
    BY <1>6 DEF SweepEnd, Rest
  <2>2. /\ stage = "kill" /\ i = 0 /\ tmp' = tmp /\ killed' = killed /\ stale' = stale
        /\ \/ b < N /\ stage' = "out" /\ b' = b + 1 /\ i' = i
           \/ stage' = "run" /\ b' = 1 /\ i' = 0
    BY <1>6 DEF SweepEnd
  <2>3. TypeOK' /\ b' # 0
    BY <1>0, <2>1, <2>2, SizesNatural DEF TypeOK, function
  <2> QED
    BY <2>1, <2>2, <2>3, <1>0, SolutionStays DEF DceInv
<1>7. CASE Execute
  <2>1. UNCHANGED <<function, liveIn, at, addressed>> /\ pc' = pc /\ again' = again
    BY <1>7 DEF Execute, Rest
  <2> DEFINE in == code[b][i + 1]
  <2>2. /\ stage = "run" /\ stage' = stage /\ i < Size /\ i' = i + 1 /\ b' = b /\ tmp' = tmp
        /\ killed' = killed
        /\ stale' = IF in.dst = NOREG THEN stale
                    ELSE IF <<b, i + 1>> \in killed \/ ReadBy(in) \cap stale # {}
                      THEN stale \cup {in.dst}
                      ELSE stale \ {in.dst}
    BY <1>7 DEF Execute
  <2>3. b \in Blocks /\ i + 1 \in 1..Size /\ i + 1 \in Points /\ (i + 1) - 1 = i
    BY <1>0, <2>2, SizesNatural DEF DceInv, TypeOK
  <2>4. TypeOK'
    BY <1>0, <2>1, <2>2, <2>3 DEF TypeOK, function
  <2>5. ASSUME SolverAgrees
        PROVE  stale' \cap (at[b][i + 1] \cup addressed) = {}
    <3>1. /\ ~full /\ IsSolution(at) /\ stale \cap (at[b][i] \cup addressed) = {}
          /\ \A p \in killed : p \in Blocks \X (1..Size) /\ Dead(p[1], p[2])
      BY <2>2, <2>5 DEF DceInv
    <3>2. /\ in.src \subseteq at[b][i] \/ Dead(b, i + 1)
          /\ at[b][i + 1] \subseteq at[b][i] \cup {in.dst}
          /\ in.dst = NOREG => at[b][i + 1] \subseteq at[b][i]
      BY <1>0, <2>3, <2>5, <3>1, ExecuteKeeps
    <3>3. Dead(b, i + 1) =>
            /\ in.dst \notin at[b][i + 1] /\ in.dst \notin addressed
      BY DEF Dead, Skipped
    <3>4. <<b, i + 1>> \in killed => Dead(b, i + 1)
      BY <3>1
    <3>5. ~Dead(b, i + 1) => ReadBy(in) \cap stale = {}
      BY <3>1, <3>2 DEF ReadBy
    <3> HIDE DEF in
    <3> QED
      BY <2>2, <3>1, <3>2, <3>3, <3>4, <3>5
  <2> HIDE DEF in
  <2> QED
    BY <2>1, <2>2, <2>4, <2>5, <1>0, SolutionStays DEF DceInv
<1>8. CASE ToNextBlock
  <2>1. UNCHANGED <<function, liveIn, at, addressed>> /\ pc' = pc /\ again' = again
    BY <1>8 DEF ToNextBlock, Rest
  <2>2. /\ stage = "run" /\ stage' = stage /\ i = Size /\ b' \in succ[b] /\ i' = 0
        /\ tmp' = tmp /\ killed' = killed /\ stale' = stale
    BY <1>8 DEF ToNextBlock
  <2>3. b \in Blocks /\ b' \in Blocks /\ succ[b] \subseteq Blocks
    BY <1>0, <2>2 DEF DceInv, TypeOK
  <2>4. TypeOK' /\ b' # 0
    BY <1>0, <2>1, <2>2, <2>3, SizesNatural DEF TypeOK, function
  <2>5. at[b'][0] \subseteq at[b][Size]
    <3>1. at[b][Size] = UNION {at[c][0] : c \in succ[b]}
      BY <2>2, <2>3 DEF DceInv, IsSolution
    <3> QED
      BY <2>2, <3>1
  <2>6. SolverAgrees => stale \cap (at[b'][0] \cup addressed) = {}
    BY <2>2, <2>5 DEF DceInv
  <2> QED
    BY <2>1, <2>2, <2>4, <2>6, <1>0, SolutionStays DEF DceInv
<1> QED
  BY <1>1, <1>2, <1>3, <1>4, <1>5, <1>6, <1>7, <1>8 DEF DceNext

(* However the program goes through its blocks, an instruction with an     *)
(* effect finds every register it reads as it was without the pass, and so *)
(* does memory, where solver and sweep agree (dce_live.c:27-45).           *)
THEOREM EffectsSafe == DceSpec => []EffectsKept
<1>1. DceInv => EffectsKept
  <2> SUFFICES ASSUME DceInv, stage = "run", i < Size, SolverAgrees,
                      ~code[b][i + 1].deletable
               PROVE  ReadBy(code[b][i + 1]) \cap stale = {}
    BY DEF EffectsKept
  <2>1. TypeOK /\ b \in Blocks /\ i + 1 \in 1..Size /\ (i + 1) - 1 = i
    BY SizesNatural DEF DceInv, TypeOK
  <2>2. ~full /\ IsSolution(at) /\ stale \cap (at[b][i] \cup addressed) = {}
    BY DEF DceInv
  <2>3. code[b][i + 1].src \subseteq at[b][i] \/ Dead(b, i + 1)
    BY <2>1, <2>2, ExecuteKeeps
  <2>4. ~Dead(b, i + 1)
    BY DEF Dead, Skipped
  <2> QED
    BY <2>2, <2>3, <2>4 DEF ReadBy
<1> QED
  BY <1>1, DceInvInit, DceInvKept, PTL DEF DceSpec

-----------------------------------------------------------------------------
(* The slots of the frame.  Until they are laid the solver alone has been  *)
(* at work, and what it has solved stays as it is.                         *)
ReadyInv == stage \in {"solve", "lay", "laid"} => TypeOK /\ SweptFits

LEMMA ReadyKept == ReadyInv /\ [SlotNext]_slotVars => ReadyInv'
<1> SUFFICES ASSUME ReadyInv, [SlotNext]_slotVars, stage' \in {"solve", "lay", "laid"}
             PROVE  (TypeOK /\ SweptFits)'
  BY DEF ReadyInv
<1>1. [Next]_vars /\ stage \in {"solve", "lay", "laid"}
  <2>1. CASE DceNext
    BY <2>1 DEF DceNext, Solve, StartKilling, SweepOut, SweepInstr, SweepEnd, Execute, ToNextBlock
  <2>2. CASE LaySlots \/ Laid
    BY <2>2 DEF LaySlots, Laid
  <2>3. CASE \E r \in Regs : BeginSpan(r) \/ EndSpan(r)
    BY <2>3 DEF BeginSpan, EndSpan, dceVars
  <2>4. CASE UNCHANGED slotVars
    BY <2>4 DEF slotVars, dceVars
  <2> QED
    BY <2>1, <2>2, <2>3, <2>4 DEF SlotNext
<1> QED
  BY <1>1, TypeKept, SweptFitsKept DEF ReadyInv

(* A set of numbers has a least one.                                       *)
LEMMA LeastNumber ==
  ASSUME NEW S, S \subseteq Nat, S # {}
  PROVE  \E n \in S : \A k \in S : n <= k
<1> DEFINE R == OpToRel(<, Nat)
<1>1. PICK n \in S : \A k \in S : ~(<<k, n>> \in R)
  BY NatLessThanWellFounded, WFMin
<1>2. \A k \in S : ~(k < n)
  BY <1>1 DEF OpToRel
<1> QED
  BY <1>2

(* The places of a block follow one another.                               *)
LEMMA PlacesFollow ==
  ASSUME NEW blk \in Blocks, NEW k \in 1..Size
  PROVE  /\ Place(blk, k) \in 0..Final
         /\ Place(blk, k) = Place(blk, 1) + (k - 1)
<1> DEFINE base == (blk - 1) * Size
<1>0. /\ \A m, n \in Nat : m * n \in Nat
      /\ \A l, m, n \in Nat : l * n + n + m * n = (l + 1 + m) * n
  OBVIOUS
<1>1. base \in Nat /\ base + Size <= N * Size
  <2>1. blk - 1 \in Nat /\ N - blk \in Nat /\ (blk - 1) + 1 + (N - blk) = N /\ Size \in Nat
    BY SizesNatural
  <2>2. N * Size = base + Size + (N - blk) * Size
    BY <1>0, <2>1
  <2>3. (N - blk) * Size \in Nat /\ base \in Nat
    BY <1>0, <2>1
  <2> HIDE DEF base
  <2> QED
    BY <2>1, <2>2, <2>3
<1>2. Place(blk, k) = base + k - 1 /\ Place(blk, 1) = base + 1 - 1 /\ Final = N * Size - 1
  BY DEF Place, Final
<1>3. N * Size \in Int
  BY <1>0, SizesNatural
<1> HIDE DEF base
<1> QED
  BY <1>1, <1>2, <1>3, SizesNatural

(* The ends of a span are places it touches, and all the others lie        *)
(* between them.                                                           *)
LEMMA SpanHolds ==
  ASSUME TypeOK, NEW r \in Regs
  PROVE  /\ Lo(r) \in Int /\ Hi(r) \in Int /\ Lo(r) <= Hi(r)
         /\ \A p \in Touched(r) : p \in Int /\ Lo(r) <= p /\ p <= Hi(r)
<1>1. Final \in Nat
  <2>1. 1 \in Blocks /\ 1 \in 1..Size
    BY SizesNatural
  <2>2. Final \in Int
    <3>1. \A m, n \in Nat : m * n - 1 \in Int
      OBVIOUS
    <3> QED
      BY <3>1, SizesNatural DEF Final
  <2> QED
    BY <2>1, <2>2, PlacesFollow
<1>2. Touched(r) \subseteq 0..Final
  <2>1. ASSUME NEW p \in TouchedByCode(r) PROVE p \in 0..Final
    <3>1. PICK q \in Blocks \X (1..Size) : p = Place(q[1], q[2])
      BY <2>1 DEF TouchedByCode
    <3> QED
      BY <3>1, PlacesFollow
  <2>2. ASSUME NEW p \in TouchedByBlocks(r) PROVE p \in 0..Final
    <3>1. PICK blk \in Blocks : p = Place(blk, 1) \/ p = Place(blk, Size)
      BY <2>2 DEF TouchedByBlocks
    <3>2. 1 \in 1..Size /\ Size \in 1..Size
      BY SizesNatural
    <3> QED
      BY <3>1, <3>2, PlacesFollow
  <2> QED
    BY <2>1, <2>2 DEF Touched
<1>3. CASE Touched(r) = {}
  BY <1>1, <1>3 DEF Lo, Hi
<1>4. CASE Touched(r) # {}
  <2> DEFINE S == Touched(r)
  <2>1. \E x \in S : \A y \in S : x <= y
    <3>1. PICK z : z \in S
      BY <1>4
    <3>2. S \in SUBSET Nat
      BY <1>1, <1>2
    <3> HIDE DEF S
    <3> QED
      BY <3>1, <3>2, LeastNumber
  <2>2. \E x \in S : \A y \in S : x >= y
    <3> DEFINE D == {Final - y : y \in S}
    <3>1. D \in SUBSET Nat /\ D # {}
      BY <1>1, <1>2, <1>4
    <3>2. PICK d \in D : \A e \in D : d <= e
      <4> HIDE DEF D
      <4> QED
        BY <3>1, LeastNumber
    <3>3. PICK x \in S : d = Final - x
      BY <3>2
    <3>4. \A y \in S : Final - x <= Final - y
      BY <3>2, <3>3
    <3> QED
      BY <1>1, <1>2, <3>3, <3>4
  <2>3. Min(S) \in S /\ \A y \in S : Min(S) <= y
    BY <2>1 DEF Min
  <2>4. Max(S) \in S /\ \A y \in S : Max(S) >= y
    BY <2>2 DEF Max
  <2>5. Lo(r) = Min(S) /\ Hi(r) = Max(S)
    BY <1>4 DEF Lo, Hi
  <2> HIDE DEF S
  <2>6. S \subseteq 0..Final /\ S = Touched(r)
    BY <1>2 DEF S
  <2> QED
    BY <1>1, <2>3, <2>4, <2>5, <2>6
<1> QED
  BY <1>3, <1>4

Began(r) == r \in spill.spilled /\ Begins(r) \notin todo
Over(r) == ShareSlots /\ Ends(r) \notin todo

(* The bytes of two registers, of a register and a free slot, of two free  *)
(* slots do not meet.                                                      *)
RegsApart(r, s) == slot[r] <= slot[s] - spill.size[s] \/ slot[s] <= slot[r] - spill.size[r]
FreeAndReg(k, r) == free[k] <= slot[r] - spill.size[r] \/ slot[r] <= free[k] - bytes
FreesApart(j, k) == free[j] <= free[k] - bytes \/ free[k] <= free[j] - bytes

LayType ==
  /\ spill.spilled \subseteq Regs /\ spill.size \in [Regs -> {1, 2, 4, 8}]
  /\ slot \in [Regs -> Nat] /\ top \in Nat /\ bytes \in {1, 2, 4, 8}
  /\ free \in Seq(Nat)
  /\ lo \in [Regs -> Int] /\ hi \in [Regs -> Int] /\ \A r \in Regs : lo[r] <= hi[r]
  /\ todo \subseteq SpanEnds(spill.spilled)

(* What was gone through came before what is ahead.                        *)
InOrder ==
  /\ \A e \in SpanEnds(spill.spilled) \ todo : \A f \in todo : ~Earlier(f, e)
  /\ \A e \in todo : spill.size[e.reg] <= bytes

(* The slots of the spans that began.                                      *)
Aligned ==
  /\ top % bytes = 0
  /\ \A r \in Regs : Began(r) =>
       /\ 0 < slot[r] /\ slot[r] <= top /\ slot[r] % spill.size[r] = 0
       /\ bytes <= spill.size[r]

(* The slots given back: nothing that is still to be read is in them.      *)
FreeApart ==
  /\ free # <<>> => ShareSlots
  /\ \A k \in 1..Len(free) :
       /\ 0 < free[k] /\ free[k] <= top /\ free[k] % bytes = 0
       /\ \A j \in 1..Len(free) : j # k => FreesApart(j, k)
       /\ \A r \in Regs : Began(r) =>
            (Over(r) /\ spill.size[r] = bytes) \/ FreeAndReg(k, r)

(* Registers of one size whose spans do not meet may share a slot, and no  *)
(* others.                                                                 *)
SpansMeet(r, s) == lo[r] <= hi[s] /\ lo[s] <= hi[r]
MayShare(r, s) == ShareSlots /\ spill.size[r] = spill.size[s] /\ ~SpansMeet(r, s)
BeganApart ==
  \A r, s \in Regs : Began(r) /\ Began(s) /\ r # s => MayShare(r, s) \/ RegsApart(r, s)

LayInv == LayType /\ InOrder /\ Aligned /\ FreeApart /\ BeganApart

(* Until then nothing is laid.                                             *)
Unlaid ==
  /\ slot = [r \in Regs |-> 0] /\ top = 0 /\ bytes = 8 /\ free = <<>>

SpansKnown == lo = [r \in Regs |-> Lo(r)] /\ hi = [r \in Regs |-> Hi(r)]

SlotInv ==
  /\ ReadyInv
  /\ stage = "solve" => Unlaid
  /\ stage \in {"lay", "laid"} => pc = "solved" /\ full /\ LayInv /\ SpansKnown
  /\ stage = "laid" => todo = {}

(* The spans depend on the function and on what is live in its blocks.     *)
LEMMA SpansStay ==
  ASSUME SpansKnown, UNCHANGED <<code, succ, liveIn, lo, hi>>
  PROVE  SpansKnown'
<1>1. ASSUME NEW r PROVE Touched(r)' = Touched(r)
  <2>1. TouchedByCode(r)' = TouchedByCode(r)
    BY DEF TouchedByCode
  <2>2. TouchedByBlocks(r)' = TouchedByBlocks(r)
    BY DEF TouchedByBlocks, Out
  <2> QED
    BY <2>1, <2>2 DEF Touched
<1>2. ASSUME NEW r PROVE Lo(r)' = Lo(r) /\ Hi(r)' = Hi(r)
  BY <1>1 DEF Lo, Hi
<1> QED
  BY <1>2 DEF SpansKnown

LEMMA SlotInvInit == SlotInit => SlotInv
<1> SUFFICES ASSUME SlotInit PROVE SlotInv
  OBVIOUS
<1>1. Init /\ stage = "solve"
  BY DEF SlotInit, DceInit
<1>2. TypeOK /\ SweptFits
  <2>1. TypeOK
    BY <1>1, SizesNatural DEF Init, TypeOK, LiveAtFirst
  <2> QED
    BY <1>1, <2>1 DEF Init, SweptFits
<1> QED
  BY <1>1, <1>2 DEF SlotInit, SlotInv, ReadyInv, Unlaid

(* The first slots are laid in an empty frame.                             *)
LEMMA LayStarts ==
  ASSUME SlotInv, LaySlots PROVE SlotInv'
<1>1. ReadyInv'
  BY ReadyKept DEF SlotInv, SlotNext
<1>2. stage' = "lay" /\ pc' = "solved" /\ full' /\ TypeOK /\ Unlaid
  BY DEF LaySlots, SlotInv, ReadyInv, vars, function
<1>3. spill'.spilled \subseteq Regs /\ spill'.size \in [Regs -> {1, 2, 4, 8}]
  BY SpillsKnown DEF LaySlots
<1>4. todo' = SpanEnds(spill'.spilled) /\ SpanEnds(spill'.spilled) = SpanEnds(spill.spilled)'
  BY DEF LaySlots, SpanEnds, ShareSlots
<1>5. /\ lo' \in [Regs -> Int] /\ hi' \in [Regs -> Int]
      /\ \A r \in Regs : lo'[r] <= hi'[r]
  BY <1>2, SpanHolds DEF LaySlots
<1>6. slot' = slot /\ top' = 0 /\ bytes' = 8 /\ free' = <<>>
  BY <1>2 DEF LaySlots, Unlaid
<1>7. LayType'
  BY <1>2, <1>3, <1>4, <1>5, <1>6 DEF LayType, Unlaid
<1>8. \A r \in Regs : ~Began(r)'
  BY <1>3, <1>4 DEF Began, SpanEnds, Begins
<1>9. InOrder'
  <2>1. \A e \in todo' : e.reg \in Regs
    BY <1>3, <1>4 DEF SpanEnds, Begins, Ends
  <2>2. \A r \in Regs : spill'.size[r] <= 8
    BY <1>3
  <2> QED
    BY <1>4, <1>6, <2>1, <2>2 DEF InOrder
<1>10. Aligned' /\ FreeApart' /\ BeganApart'
  BY <1>6, <1>8 DEF Aligned, FreeApart, BeganApart
<1>11. SpansKnown'
  BY DEF LaySlots, SpansKnown, Lo, Hi, Touched, TouchedByCode, TouchedByBlocks, Out, vars, function
<1> QED
  BY <1>1, <1>2, <1>7, <1>9, <1>10, <1>11 DEF SlotInv, LayInv

(* A span is over only if it began, and every one that is not over by the  *)
(* time the span of r begins meets it.                                     *)
LEMMA OverBegan ==
  ASSUME LayInv, NEW r \in Regs, r \in spill.spilled, Over(r)
  PROVE  Began(r)
<1> SUFFICES ASSUME Begins(r) \in todo PROVE FALSE
  BY DEF Began
<1>1. Ends(r) \in SpanEnds(spill.spilled) \ todo
  BY DEF Over, SpanEnds
<1>2. ~Earlier(Begins(r), Ends(r))
  BY <1>1 DEF LayInv, InOrder
<1>3. lo[r] \in Int /\ hi[r] \in Int /\ lo[r] <= hi[r] /\ ShareSlots
  BY DEF LayInv, LayType, Over
<1> QED
  BY <1>2, <1>3 DEF Earlier, At, Begins, Ends

(* The ends that remain when one of them is due stay in order.             *)
LEMMA OrderStays ==
  ASSUME LayInv, NEW e \in todo, Due(e), todo' = todo \ {e},
         UNCHANGED <<spill, lo, hi, addressed>>,
         bytes' \in Int, spill.size[e.reg] <= bytes'
  PROVE  InOrder'
<1>1. SpanEnds(spill.spilled)' = SpanEnds(spill.spilled) /\ ShareSlots' = ShareSlots
  BY DEF SpanEnds, ShareSlots
<1>2. \A f, g : Earlier(f, g)' <=> Earlier(f, g)
  BY <1>1 DEF Earlier, At
<1>3. \A f \in SpanEnds(spill.spilled) \ todo' : \A g \in todo' : ~Earlier(g, f)
  BY DEF Due, LayInv, InOrder
<1>4. ASSUME NEW f \in todo' PROVE spill.size[f.reg] <= bytes'
  <2>1. ~Earlier(f, e) /\ f \in todo
    BY <1>4 DEF Due
  <2>2. f.reg \in Regs /\ e.reg \in Regs
    <3>1. \A g \in SpanEnds(spill.spilled) : g.reg \in spill.spilled
      BY DEF SpanEnds, Begins, Ends
    <3> QED
      BY <2>1, <3>1 DEF LayInv, LayType
  <2>3. \A s \in Regs : spill.size[s] \in {1, 2, 4, 8}
    BY DEF LayInv, LayType
  <2> QED
    BY <2>1, <2>2, <2>3 DEF Earlier
<1> QED
  BY <1>1, <1>2, <1>3, <1>4 DEF InOrder

(* What follows for a span that begins: it is of a size that has its turn, *)
(* and the spans of that size that are over end before it.                 *)
LEMMA BeginIsNext ==
  ASSUME LayInv, NEW r \in Regs, Due(Begins(r))
  PROVE  /\ r \in spill.spilled /\ ~Began(r) /\ spill.size[r] <= bytes
         /\ \A s \in Regs : s \in spill.spilled /\ Over(s) /\ spill.size[s] = spill.size[r] =>
              MayShare(r, s) /\ MayShare(s, r)
<1>1. Begins(r) \in todo
  BY DEF Due
<1>2. r \in spill.spilled /\ ~Began(r) /\ spill.size[r] <= bytes
  BY <1>1 DEF LayInv, LayType, InOrder, SpanEnds, Begins, Ends, Began
<1>3. ASSUME NEW s \in Regs, s \in spill.spilled, Over(s), spill.size[s] = spill.size[r]
      PROVE  MayShare(r, s) /\ MayShare(s, r)
  <2>1. Ends(s) \in SpanEnds(spill.spilled) \ todo
    BY <1>3 DEF Over, SpanEnds
  <2>2. ~Earlier(Begins(r), Ends(s))
    BY <1>1, <2>1 DEF LayInv, InOrder
  <2>3. lo[r] \in Int /\ hi[s] \in Int /\ ShareSlots
    BY <1>3 DEF LayInv, LayType, Over
  <2>4. hi[s] < lo[r]
    BY <1>3, <2>2, <2>3 DEF Earlier, At, Begins, Ends
  <2> QED
    BY <1>3, <2>3, <2>4 DEF MayShare, SpansMeet
<1> QED
  BY <1>2, <1>3

(* A stack from which the last element was taken.                          *)
LEMMA WithoutLast ==
  ASSUME NEW q \in Seq(Nat), q # <<>>
  PROVE  LET n == Len(q)
             p == SubSeq(q, 1, n - 1)
         IN p \in Seq(Nat) /\ Len(p) = n - 1 /\ \A k \in 1..n - 1 : p[k] = q[k] /\ k \in 1..n
<1>1. Len(q) \in Nat /\ Len(q) # 0
  OBVIOUS
<1>2. PICK m \in Nat : m = Len(q) - 1 /\ 1..m \subseteq 1..Len(q)
  BY <1>1
<1>3. SubSeq(q, 1, m) = [k \in 1..m |-> q[k]]
  BY <1>2
<1>4. [k \in 1..m |-> q[k]] \in Seq(Nat) /\ Len([k \in 1..m |-> q[k]]) = m
  BY <1>1, <1>2
<1> QED
  BY <1>2, <1>3, <1>4

LEMMA BeginKeeps ==
  ASSUME LayInv, NEW r \in Regs, BeginSpan(r)
  PROVE  LayInv'
<1> DEFINE size == spill.size[r]
           given == IF size = bytes THEN free ELSE <<>>
           n == Len(given)
<1>0. UNCHANGED <<spill, lo, hi, addressed>> /\ (ShareSlots' <=> ShareSlots)
  BY DEF BeginSpan, dceVars, ShareSlots
<1>1. Due(Begins(r)) /\ bytes' = size /\ todo' = todo \ {Begins(r)}
  BY DEF BeginSpan
<1>2. /\ r \in spill.spilled /\ ~Began(r) /\ size <= bytes
      /\ size \in {1, 2, 4, 8} /\ bytes \in {1, 2, 4, 8} /\ top \in Nat /\ given \in Seq(Nat)
  BY <1>1, BeginIsNext DEF LayInv, LayType
<1>3. /\ given # <<>> => /\ slot' = [slot EXCEPT ![r] = given[n]]
                         /\ free' = SubSeq(given, 1, n - 1) /\ top' = top
      /\ given = <<>> => /\ slot' = [slot EXCEPT ![r] = top + size]
                         /\ free' = <<>> /\ top' = top + size
  BY DEF BeginSpan
<1>4. \A s \in Regs : /\ Began(s)' <=> Began(s) \/ s = r
                      /\ Over(s)' <=> Over(s)
  BY <1>0, <1>1, <1>2 DEF Began, Over, Begins, Ends
<1>5. \A s \in Regs : /\ spill.size[s] \in {1, 2, 4, 8} /\ slot[s] \in Nat
                      /\ s # r => slot'[s] = slot[s]
  BY <1>3 DEF LayInv, LayType
<1>6. \A s \in Regs : Began(s) =>
        /\ 0 < slot[s] /\ slot[s] <= top /\ slot[s] % spill.size[s] = 0 /\ bytes <= spill.size[s]
  BY DEF LayInv, Aligned
<1>7. \A k \in 1..n :
        /\ size = bytes /\ ShareSlots /\ given = free /\ given[k] \in Nat
        /\ 0 < given[k] /\ given[k] <= top /\ given[k] % bytes = 0
        /\ \A j \in 1..n : j # k => FreesApart(j, k)
        /\ \A s \in Regs : Began(s) =>
             (Over(s) /\ spill.size[s] = bytes) \/ FreeAndReg(k, s)
  BY <1>2 DEF LayInv, FreeApart
<1>8. n \in Nat /\ (given # <<>> <=> n # 0)
  BY <1>2
<1>9. top % size = 0
  BY <1>2 DEF LayInv, Aligned
<1>12. InOrder'
  <2>1. Begins(r) \in todo /\ Begins(r).reg = r /\ bytes' \in Int /\ size <= bytes'
    BY <1>1, <1>2 DEF Due, Begins
  <2> QED
    BY <1>0, <1>1, <2>1, OrderStays
<1> HIDE DEF given, size
<1>10. CASE given # <<>>
  <2>1. /\ n \in 1..n /\ given = free /\ size = bytes /\ ShareSlots /\ top' = top
        /\ slot'[r] = given[n]
        /\ free' \in Seq(Nat) /\ Len(free') = n - 1
        /\ \A k \in 1..n - 1 : free'[k] = given[k] /\ k \in 1..n
    <3>1. n \in 1..n /\ given = free /\ size = bytes /\ ShareSlots /\ top' = top
      BY <1>3, <1>7, <1>8, <1>10
    <3>2. slot \in [Regs -> Nat] /\ slot' = [slot EXCEPT ![r] = given[n]]
      BY <1>3, <1>10 DEF LayInv, LayType
    <3>3. free' = SubSeq(given, 1, n - 1) /\ n - 1 \in 0..n /\ n = Len(given)
      BY <1>3, <1>8, <1>10, <3>1 DEF n
    <3>4. /\ free' \in Seq(Nat) /\ Len(free') = n - 1
          /\ \A k \in 1..n - 1 : free'[k] = given[k] /\ k \in 1..n
      BY <1>2, <1>10, <3>3, WithoutLast
    <3> QED
      BY <3>1, <3>2, <3>4
  <2>2. LayType'
    <3>1. slot' \in [Regs -> Nat] /\ todo' \subseteq SpanEnds(spill.spilled)'
      BY <1>0, <1>1, <1>3, <1>5, <1>7, <1>10, <2>1 DEF LayInv, LayType, SpanEnds
    <3> QED
      BY <1>0, <1>1, <1>2, <2>1, <3>1 DEF LayInv, LayType
  <2>3. InOrder'
    BY <1>12
  <2>4. Aligned'
    <3>1. 0 < slot'[r] /\ slot'[r] <= top' /\ slot'[r] % spill'.size[r] = 0 /\ bytes' <= spill'.size[r]
      BY <1>0, <1>1, <1>2, <1>7, <2>1 DEF size
    <3>2. top' % bytes' = 0
      BY <1>1, <1>9, <2>1
    <3> QED
      BY <1>0, <1>1, <1>4, <1>5, <1>6, <2>1, <3>1, <3>2 DEF Aligned
  <2>5. FreeApart'
    <3>1. ASSUME NEW k \in 1..n - 1
          PROVE  /\ 0 < free'[k] /\ free'[k] <= top' /\ free'[k] % bytes' = 0
                 /\ \A j \in 1..n - 1 : j # k => FreesApart(j, k)'
                 /\ \A s \in Regs : Began(s)' =>
                      (Over(s)' /\ spill'.size[s] = bytes') \/ FreeAndReg(k, s)'
      <4>1. k \in 1..n /\ free'[k] = free[k] /\ bytes' = bytes /\ k # n /\ free'[k] = given[k]
        BY <1>1, <2>1, <3>1
      <4>2. \A j \in 1..n - 1 : j # k => FreesApart(j, k)'
        BY <1>7, <2>1, <4>1 DEF FreesApart
      <4>3. ASSUME NEW s \in Regs, Began(s)', s # r
            PROVE  (Over(s)' /\ spill'.size[s] = bytes') \/ FreeAndReg(k, s)'
        BY <1>0, <1>4, <1>5, <1>7, <4>1, <4>3 DEF FreeAndReg
      <4>4. FreeAndReg(k, r)'
        BY <1>0, <1>1, <1>7, <2>1, <4>1 DEF FreeAndReg, FreesApart, size
      <4> QED
        BY <1>7, <2>1, <4>1, <4>2, <4>3, <4>4
    <3> QED
      BY <1>0, <2>1, <3>1 DEF FreeApart
  <2>6. ASSUME NEW s \in Regs, Began(s)
        PROVE  (MayShare(r, s) /\ MayShare(s, r)) \/ (RegsApart(r, s)' /\ RegsApart(s, r)')
    <3>1. s # r
      BY <1>2, <2>6
    <3>2. CASE Over(s) /\ spill.size[s] = bytes
      <4>1. s \in spill.spilled /\ Over(s) /\ spill.size[s] = spill.size[r]
        BY <2>1, <2>6, <3>2 DEF Began, size
      <4>2. MayShare(r, s) /\ MayShare(s, r)
        BY <1>1, <4>1, BeginIsNext
      <4> QED
        BY <4>2 DEF MayShare
    <3>3. CASE FreeAndReg(n, s)
      BY <1>0, <1>5, <2>1, <3>1, <3>3 DEF FreeAndReg, RegsApart, size
    <3> QED
      BY <1>7, <2>1, <2>6, <3>2, <3>3
  <2>7. BeganApart'
    BY <1>0, <1>4, <1>5, <2>6 DEF LayInv, BeganApart, MayShare, SpansMeet, RegsApart
  <2> QED
    BY <2>2, <2>3, <2>4, <2>5, <2>7 DEF LayInv
<1>11. CASE given = <<>>
  <2>1. /\ slot'[r] = top + size /\ top' = top + size /\ free' = <<>> /\ top' \in Nat
        /\ Len(free') = 0
    BY <1>2, <1>3, <1>11 DEF LayInv, LayType
  <2>2. LayType'
    <3>1. slot' \in [Regs -> Nat] /\ todo' \subseteq SpanEnds(spill.spilled)'
      BY <1>0, <1>1, <1>2, <1>3, <1>11 DEF LayInv, LayType, SpanEnds
    <3> QED
      BY <1>0, <1>1, <1>2, <2>1, <3>1 DEF LayInv, LayType
  <2>3. InOrder'
    BY <1>12
  <2>4. Aligned'
    <3>1. (top + size) % size = 0
      BY <1>2, <1>9
    <3>2. ASSUME NEW s \in Regs, Began(s) PROVE slot[s] <= top' /\ bytes' <= spill.size[s]
      <4>1. slot[s] <= top /\ slot[s] \in Nat
        BY <1>5, <1>6, <3>2
      <4>2. bytes <= spill.size[s] /\ spill.size[s] \in {1, 2, 4, 8}
        BY <1>5, <1>6, <3>2
      <4>3. slot[s] <= top'
        BY <1>2, <2>1, <4>1
      <4>4. bytes' <= spill.size[s]
        BY <1>1, <1>2, <4>2
      <4> QED
        BY <4>3, <4>4
    <3> QED
      BY <1>0, <1>1, <1>2, <1>4, <1>5, <1>6, <2>1, <3>1, <3>2 DEF Aligned, size
  <2>5. FreeApart'
    BY <2>1 DEF FreeApart
  <2>6. ASSUME NEW s \in Regs, Began(s)
        PROVE  RegsApart(r, s)' /\ RegsApart(s, r)'
    <3>1. s # r /\ slot'[s] = slot[s] /\ slot[s] <= top /\ slot[s] \in Nat
      BY <1>2, <1>5, <1>6, <2>6
    <3>2. slot'[s] <= slot'[r] - spill'.size[r]
      BY <1>0, <1>2, <2>1, <3>1 DEF size
    <3> QED
      BY <3>2 DEF RegsApart
  <2>7. BeganApart'
    BY <1>0, <1>4, <1>5, <2>6 DEF LayInv, BeganApart, MayShare, SpansMeet, RegsApart
  <2> QED
    BY <2>2, <2>3, <2>4, <2>5, <2>7 DEF LayInv
<1> QED
  BY <1>10, <1>11

LEMMA EndKeeps ==
  ASSUME LayInv, NEW r \in Regs, EndSpan(r)
  PROVE  LayInv'
<1>0. UNCHANGED <<spill, lo, hi, addressed, slot, top, bytes>> /\ (ShareSlots' <=> ShareSlots)
  BY DEF EndSpan, dceVars, ShareSlots
<1>1. Due(Ends(r)) /\ free' = Append(free, slot[r]) /\ todo' = todo \ {Ends(r)}
  BY DEF EndSpan
<1>2. Ends(r) \in todo /\ r \in spill.spilled /\ ShareSlots /\ ~Over(r)
  BY <1>1 DEF Due, Over, LayInv, LayType, SpanEnds, Begins, Ends
<1>3. \A s \in Regs : spill.size[s] \in {1, 2, 4, 8} /\ slot[s] \in Nat
                      /\ lo[s] \in Int /\ hi[s] \in Int /\ lo[s] <= hi[s]
  BY DEF LayInv, LayType
<1>4. Began(r)
  <2> SUFFICES ASSUME Begins(r) \in todo PROVE FALSE
    BY <1>2 DEF Began
  <2>1. ~Earlier(Begins(r), Ends(r))
    BY <1>1 DEF Due
  <2> QED
    BY <1>2, <1>3, <2>1 DEF Earlier, At, Begins, Ends
<1>5. spill.size[r] = bytes
  <2>1. spill.size[r] <= bytes
    BY <1>2 DEF LayInv, InOrder, Ends
  <2>2. bytes <= spill.size[r] /\ bytes \in {1, 2, 4, 8}
    BY <1>4 DEF LayInv, LayType, Aligned
  <2> QED
    BY <1>3, <2>1, <2>2
<1>6. \A s \in Regs : /\ Began(s)' <=> Began(s)
                      /\ Over(s)' <=> Over(s) \/ s = r
  BY <1>0, <1>1, <1>2 DEF Began, Over, Begins, Ends
<1>7. LayType'
  <2>1. free' \in Seq(Nat)
    BY <1>1, <1>3 DEF LayInv, LayType
  <2>2. todo' \subseteq SpanEnds(spill.spilled)'
    BY <1>0, <1>1 DEF LayInv, LayType, SpanEnds
  <2> QED
    BY <1>0, <2>1, <2>2 DEF LayInv, LayType
<1>8. InOrder'
  <2>1. Ends(r).reg = r /\ bytes' \in Int /\ spill.size[r] <= bytes'
    BY <1>0, <1>5, <1>3 DEF Ends
  <2> QED
    BY <1>0, <1>1, <1>2, <2>1, OrderStays
<1>9. Aligned'
  BY <1>0, <1>6 DEF LayInv, Aligned
<1>10. BeganApart'
  BY <1>0, <1>6 DEF LayInv, BeganApart, MayShare, SpansMeet, RegsApart
(* The registers that hold a slot of this size now all meet r.             *)
<1>11. ASSUME NEW s \in Regs, Began(s), s # r, ~(Over(s) /\ spill.size[s] = bytes)
       PROVE  RegsApart(r, s)
  <2>1. CASE spill.size[s] # bytes
    BY <1>4, <1>5, <1>11, <2>1 DEF LayInv, BeganApart, MayShare
  <2>2. CASE spill.size[s] = bytes /\ ~Over(s)
    <3>1. Ends(s) \in todo
      BY <1>2, <2>2 DEF Over
    <3>2. ~Earlier(Ends(s), Ends(r))
      BY <1>1, <3>1 DEF Due
    <3>3. hi[r] <= hi[s]
      BY <1>2, <1>3, <1>5, <2>2, <3>2 DEF Earlier, At, Ends
    <3>4. Begins(s) \in SpanEnds(spill.spilled) \ todo
      BY <1>11 DEF Began, SpanEnds
    <3>5. lo[s] <= hi[r]
      <4> SUFFICES ASSUME hi[r] < lo[s] PROVE FALSE
        BY <1>3
      <4>1. ~Earlier(Ends(r), Begins(s))
        BY <1>2, <3>4 DEF LayInv, InOrder
      <4> QED
        BY <1>2, <1>5, <2>2, <4>1 DEF Earlier, At, Begins, Ends
    <3>6. SpansMeet(r, s)
      BY <1>3, <3>3, <3>5 DEF SpansMeet
    <3> QED
      BY <1>4, <1>11, <3>6 DEF LayInv, BeganApart, MayShare
  <2> QED
    BY <1>11, <2>1, <2>2
<1>12. FreeApart'
  <2>0. PICK m \in Nat : m = Len(free)
    BY DEF LayInv, LayType
  <2>1. /\ Len(free') = m + 1 /\ free'[m + 1] = slot[r]
        /\ \A k \in 1..m : free'[k] = free[k] /\ free[k] \in Nat
    BY <1>1, <1>3, <2>0 DEF LayInv, LayType
  <2>2. 0 < slot[r] /\ slot[r] <= top /\ slot[r] % bytes = 0
    BY <1>4, <1>5 DEF LayInv, Aligned
  <2>3. \A k \in 1..m : FreeAndReg(k, r)
    BY <1>2, <1>4, <2>0 DEF LayInv, FreeApart
  <2>4. \A k \in 1..m : FreesApart(k, m + 1)' /\ FreesApart(m + 1, k)'
    BY <1>0, <1>5, <2>1, <2>3 DEF FreesApart, FreeAndReg
  <2>5. \A k \in 1..m : /\ 0 < free'[k] /\ free'[k] <= top' /\ free'[k] % bytes' = 0
                        /\ \A j \in 1..m : j # k => FreesApart(j, k)'
    BY <1>0, <2>0, <2>1 DEF LayInv, FreeApart, FreesApart
  <2>6. ASSUME NEW k \in 1..m, NEW s \in Regs, Began(s)
        PROVE  (Over(s)' /\ spill'.size[s] = bytes') \/ FreeAndReg(k, s)'
    BY <1>0, <1>6, <2>0, <2>1, <2>6 DEF LayInv, FreeApart, FreeAndReg
  <2>7. ASSUME NEW s \in Regs, Began(s)
        PROVE  (Over(s)' /\ spill'.size[s] = bytes') \/ FreeAndReg(m + 1, s)'
    <3>1. CASE s = r
      BY <1>0, <1>5, <1>6, <3>1
    <3>2. CASE s # r /\ ~(Over(s) /\ spill.size[s] = bytes)
      BY <1>0, <1>5, <1>11, <2>1, <2>7, <3>2 DEF FreeAndReg, RegsApart
    <3>3. CASE Over(s) /\ spill.size[s] = bytes
      BY <1>0, <1>6, <3>3
    <3> QED
      BY <3>1, <3>2, <3>3
  <2>8. \A k \in 1..m + 1 : k \in 1..m \/ k = m + 1
    BY <2>0
  <2> QED
    <3>1. ASSUME NEW k \in 1..m + 1
          PROVE  /\ 0 < free'[k] /\ free'[k] <= top' /\ free'[k] % bytes' = 0
                 /\ \A j \in 1..m + 1 : j # k => FreesApart(j, k)'
      <4>1. 0 < free'[k] /\ free'[k] <= top' /\ free'[k] % bytes' = 0
        BY <1>0, <2>1, <2>2, <2>5, <2>8
      <4>2. ASSUME NEW j \in 1..m + 1, j # k PROVE FreesApart(j, k)'
        <5>1. CASE j \in 1..m /\ k \in 1..m
          BY <2>5, <4>2, <5>1
        <5>2. CASE j = m + 1 /\ k \in 1..m
          BY <2>4, <5>2
        <5>3. CASE k = m + 1 /\ j \in 1..m
          BY <2>4, <5>3
        <5> QED
          BY <2>8, <4>2, <5>1, <5>2, <5>3
      <4> QED
        BY <4>1, <4>2
    <3>2. ASSUME NEW k \in 1..m + 1, NEW s \in Regs, Began(s)'
          PROVE  (Over(s)' /\ spill'.size[s] = bytes') \/ FreeAndReg(k, s)'
      <4>1. Began(s)
        BY <1>6, <3>2
      <4> QED
        BY <2>6, <2>7, <2>8, <4>1
    <3> QED
      BY <1>0, <1>2, <2>1, <3>1, <3>2 DEF FreeApart
<1> QED
  BY <1>7, <1>8, <1>9, <1>10, <1>12 DEF LayInv

LEMMA SlotInvKept == SlotInv /\ [SlotNext]_slotVars => SlotInv'
<1> SUFFICES ASSUME SlotInv, [SlotNext]_slotVars PROVE SlotInv'
  OBVIOUS
<1>0. ReadyInv'
  BY ReadyKept DEF SlotInv
<1>1. CASE LaySlots
  BY <1>1, LayStarts
<1>2. ASSUME NEW r \in Regs, BeginSpan(r) \/ EndSpan(r) PROVE SlotInv'
  <2>1. stage = "lay" /\ UNCHANGED <<dceVars, spill, lo, hi>>
    BY <1>2 DEF BeginSpan, EndSpan
  <2>2. LayInv /\ SpansKnown /\ pc = "solved" /\ full
    BY <2>1 DEF SlotInv
  <2>3. LayInv'
    BY <1>2, <2>2, BeginKeeps, EndKeeps
  <2>4. SpansKnown'
    BY <2>1, <2>2, SpansStay DEF dceVars, vars, function
  <2> QED
    BY <1>0, <2>1, <2>2, <2>3, <2>4 DEF SlotInv, dceVars, vars, function
<1>3. ASSUME UNCHANGED <<vars, addressed, laying>>, stage' = stage \/ (stage = "lay" /\ stage' = "laid" /\ todo = {})
      PROVE SlotInv'
  <2>1. LayInv => LayInv'
    <3>1. ShareSlots' = ShareSlots /\ SpanEnds(spill.spilled)' = SpanEnds(spill.spilled)
      BY <1>3 DEF laying, ShareSlots, SpanEnds
    <3>2. \A e, f : Earlier(e, f)' = Earlier(e, f)
      BY <1>3, <3>1 DEF laying, Earlier, At
    <3>3. \A r : Began(r)' = Began(r) /\ Over(r)' = Over(r)
      BY <1>3, <3>1 DEF laying, Began, Over
    <3>4. LayType => LayType'
      BY <1>3, <3>1 DEF laying, LayType
    <3>5. InOrder => InOrder'
      BY <1>3, <3>1, <3>2 DEF laying, InOrder
    <3>6. Aligned => Aligned'
      BY <1>3, <3>3 DEF laying, Aligned
    <3>7. FreeApart => FreeApart'
      BY <1>3, <3>1, <3>3 DEF laying, FreeApart, FreesApart, FreeAndReg
    <3>8. BeganApart => BeganApart'
      BY <1>3, <3>1, <3>3 DEF laying, BeganApart, MayShare, SpansMeet, RegsApart
    <3> QED
      BY <3>4, <3>5, <3>6, <3>7, <3>8 DEF LayInv
  <2>2. SpansKnown => SpansKnown'
    BY <1>3, SpansStay DEF laying, vars, function
  <2>3. Unlaid => Unlaid'
    BY <1>3 DEF laying, Unlaid
  <2> QED
    BY <1>0, <1>3, <2>1, <2>2, <2>3 DEF SlotInv, vars, function, laying
<1>4. CASE Laid \/ UNCHANGED slotVars
  BY <1>3, <1>4 DEF Laid, slotVars, dceVars
<1>5. CASE DceNext /\ UNCHANGED laying
  <2>1. CASE stage = "lay" \/ stage = "laid"
    <3>1. pc = "solved" /\ full
      BY <2>1 DEF SlotInv
    <3> QED
      BY <1>5, <2>1, <3>1 DEF DceNext, Solve, Next, StartSweep, StartBlock, StepBack, EndBlock, Solved,
                            StartKilling, SweepOut, SweepInstr, SweepEnd, Execute, ToNextBlock
  <2>2. CASE stage # "lay" /\ stage # "laid"
    <3>1. stage' # "lay" /\ stage' # "laid" /\ (stage' = "solve" => stage = "solve")
      BY <1>5, <2>2 DEF DceNext, Solve, StartKilling, SweepOut, SweepInstr, SweepEnd, Execute, ToNextBlock
    <3> QED
      BY <1>0, <1>5, <3>1 DEF SlotInv, Unlaid, laying
  <2> QED
    BY <2>1, <2>2
<1> QED
  BY <1>1, <1>2, <1>4, <1>5 DEF SlotNext

(* What is read or made at an instruction, or live after it, is within its *)
(* span there.                                                             *)
LEMMA HeldInSpan ==
  ASSUME TypeOK, IsSolution(at), \A blk \in Blocks : at[blk][0] = liveIn[blk], full,
         NEW blk \in Blocks, NEW k \in 1..Size, NEW r \in Regs,
         r \in HeldAt(blk, k), r \notin addressed
  PROVE  Lo(r) <= Place(blk, k) /\ Place(blk, k) <= Hi(r)
<1>1. \A j \in 1..Size : /\ Place(blk, j) = Place(blk, 1) + (j - 1) /\ Place(blk, j) \in Int
                         /\ r \in code[blk][j].src \/ r = code[blk][j].dst =>
                              Lo(r) <= Place(blk, j) /\ Place(blk, j) <= Hi(r)
  <2> SUFFICES ASSUME NEW j \in 1..Size, r \in code[blk][j].src \/ r = code[blk][j].dst
               PROVE  Place(blk, j) \in Touched(r)
    BY PlacesFollow, SpanHolds
  <2>1. Place(blk, j) \in TouchedByCode(r)
    <3> DEFINE q == <<blk, j>>
    <3>1. q \in Blocks \X (1..Size) /\ q[1] = blk /\ q[2] = j
      OBVIOUS
    <3> HIDE DEF q
    <3> QED
      BY <3>1 DEF TouchedByCode
  <2> QED
    BY <2>1 DEF Touched
<1>2. Lo(r) \in Int /\ Hi(r) \in Int
  BY SpanHolds
<1>3. CASE r \in code[blk][k].src \/ r = code[blk][k].dst
  BY <1>1, <1>3
<1>4. CASE r \in at[blk][k]
  (* Forwards it is read in the block, or live when the block is left.     *)
  <2>1. Place(blk, k) <= Hi(r)
    <3> DEFINE S == {j \in k..Size : r \in at[blk][j]}
               D == {Size - j : j \in S}
    <3>1. D \subseteq Nat /\ D # {}
      BY <1>4, SizesNatural
    <3>2. PICK d \in D : \A e \in D : d <= e
      <4> HIDE DEF D
      <4> QED
        BY <3>1, LeastNumber
    <3>3. PICK j \in S : d = Size - j
      BY <3>2
    <3>4. \A m \in S : Size - j <= Size - m
      BY <3>2, <3>3
    <3>5. j \in 1..Size /\ k <= j /\ r \in at[blk][j] /\ (j + 1 \in 1..Size => r \notin at[blk][j + 1])
      BY <3>3, <3>4, SizesNatural
    <3>6. CASE j = Size
      <4>1. r \in Out(blk, liveIn)
        <5>1. r \in UNION {at[c][0] : c \in succ[blk]} /\ succ[blk] \subseteq Blocks
          BY <3>5, <3>6 DEF IsSolution, TypeOK
        <5> QED
          BY <5>1 DEF Out
      <4>2. Place(blk, Size) \in Touched(r)
        BY <4>1 DEF Touched, TouchedByBlocks
      <4>3. Place(blk, Size) <= Hi(r) /\ Place(blk, Size) = Place(blk, 1) + (Size - 1)
        BY <1>1, <3>5, <3>6, <4>2, SpanHolds
      <4> QED
        BY <1>1, <1>2, <3>5, <3>6, <4>3, SizesNatural
    <3>7. CASE j # Size
      <4>1. j + 1 \in 1..Size /\ (j + 1) - 1 = j
        BY <3>5, <3>7, SizesNatural
      <4>2. at[blk][j] = Step(code[blk][j + 1], at[blk][j + 1])
        BY <4>1 DEF IsSolution
      <4>3. r \in code[blk][j + 1].src
        BY <3>5, <4>1, <4>2 DEF Step, FullStep
      <4>4. Place(blk, j + 1) <= Hi(r)
        BY <1>1, <4>1, <4>3
      <4> QED
        BY <1>1, <1>2, <3>5, <4>1, <4>4, SizesNatural
    <3> QED
      BY <3>6, <3>7
  (* Backwards it is made in the block, or live when the block is entered. *)
  <2>2. Lo(r) <= Place(blk, k)
    <3> DEFINE S == {j \in 0..k : \A m \in j..k : r \in at[blk][m]}
    <3>1. S \subseteq Nat /\ k \in S
      BY <1>4
    <3>2. PICK j \in S : \A m \in S : j <= m
      <4> HIDE DEF S
      <4> QED
        BY <3>1, LeastNumber
    <3>3. j \in 0..k /\ r \in at[blk][j] /\ (j # 0 => r \notin at[blk][j - 1])
      <4>1. j \in 0..k /\ r \in at[blk][j] /\ \A m \in j..k : r \in at[blk][m]
        BY <3>2
      <4>2. ASSUME j # 0, r \in at[blk][j - 1] PROVE FALSE
        <5>1. j - 1 \in 0..k /\ \A m \in (j - 1)..k : m = j - 1 \/ m \in j..k
          BY <4>1, <4>2
        <5>2. j - 1 \in S
          BY <4>1, <4>2, <5>1
        <5> QED
          BY <3>2, <4>1, <5>2
      <4> QED
        BY <4>1, <4>2
    <3>4. CASE j = 0
      <4>1. r \in liveIn[blk]
        BY <3>3, <3>4
      <4>2. Place(blk, 1) \in Touched(r)
        BY <4>1 DEF Touched, TouchedByBlocks
      <4>3. Lo(r) <= Place(blk, 1)
        BY <4>2, SpanHolds
      <4> QED
        BY <1>1, <1>2, <4>3, SizesNatural
    <3>5. CASE j # 0
      <4>1. j \in 1..Size /\ j <= k
        BY <3>3, <3>5, SizesNatural
      <4>2. at[blk][j - 1] = Step(code[blk][j], at[blk][j])
        BY <4>1 DEF IsSolution
      <4>3. r = code[blk][j].dst
        BY <3>3, <3>5, <4>2 DEF Step, FullStep
      <4>4. Lo(r) <= Place(blk, j)
        BY <1>1, <4>1, <4>3
      <4> QED
        BY <1>1, <1>2, <4>1, <4>4, SizesNatural
    <3> QED
      BY <3>4, <3>5
  <2> QED
    BY <2>1, <2>2
<1> QED
  BY <1>3, <1>4 DEF HeldAt

(* For every function, whatever was spilled and however large: no spilled  *)
(* register is written over while it may still be read, around a loop too, *)
(* and every slot is aligned to its size (regalloc.c:326-345).             *)
THEOREM SlotsStayApart == SlotSpec => []SlotsApart
<1>1. SlotInv => SlotsApart
  <2> SUFFICES ASSUME SlotInv, stage = "laid"
               PROVE  /\ \A blk \in Blocks : \A k \in 1..Size :
                           \A r, s \in HeldAt(blk, k) \cap spill.spilled :
                             r # s => Bytes(r) \cap Bytes(s) = {}
                      /\ \A r \in spill.spilled : slot[r] > 0 /\ slot[r] % spill.size[r] = 0
    BY DEF SlotsApart
  <2>1. TypeOK /\ Consistent /\ pc = "solved" /\ full /\ LayInv /\ SpansKnown /\ todo = {}
    BY FitsSolve DEF SlotInv, ReadyInv
  <2>2. spill.spilled \subseteq Regs /\ \A r \in spill.spilled : Began(r)
    BY <2>1 DEF LayInv, LayType, Began
  <2>3. \A r \in spill.spilled : slot[r] > 0 /\ slot[r] % spill.size[r] = 0
    BY <2>1, <2>2 DEF LayInv, LayType, Aligned
  <2>4. ASSUME NEW blk \in Blocks, NEW k \in 1..Size,
               NEW r \in HeldAt(blk, k) \cap spill.spilled, NEW s \in HeldAt(blk, k) \cap spill.spilled, r # s
        PROVE  Bytes(r) \cap Bytes(s) = {}
    <3>1. r \in Regs /\ s \in Regs /\ Began(r) /\ Began(s)
      BY <2>2
    <3>2. ~MayShare(r, s)
      <4> SUFFICES ASSUME addressed = {} PROVE SpansMeet(r, s)
        BY DEF MayShare, ShareSlots
      <4>1. lo[r] = Lo(r) /\ lo[s] = Lo(s) /\ hi[r] = Hi(r) /\ hi[s] = Hi(s)
        BY <2>1, <3>1 DEF SpansKnown
      <4>2. /\ Lo(r) <= Place(blk, k) /\ Place(blk, k) <= Hi(r)
            /\ Lo(s) <= Place(blk, k) /\ Place(blk, k) <= Hi(s)
        BY <2>1, <3>1, HeldInSpan DEF Consistent
      <4>3. Place(blk, k) \in Int
        BY PlacesFollow
      <4>4. Lo(r) \in Int /\ Lo(s) \in Int /\ Hi(r) \in Int /\ Hi(s) \in Int
        BY <2>1, <3>1, SpanHolds
      <4> QED
        BY <4>1, <4>2, <4>3, <4>4 DEF SpansMeet
    <3>3. RegsApart(r, s)
      BY <2>1, <2>4, <3>1, <3>2 DEF LayInv, BeganApart
    <3>4. slot[r] \in Nat /\ slot[s] \in Nat /\ spill.size[r] \in {1, 2, 4, 8} /\ spill.size[s] \in {1, 2, 4, 8}
      BY <2>1, <3>1 DEF LayInv, LayType
    <3> QED
      BY <3>3, <3>4 DEF RegsApart, Bytes
  <2> QED
    BY <2>3, <2>4
<1> QED
  BY <1>1, SlotInvInit, SlotInvKept, PTL DEF SlotSpec
=============================================================================
