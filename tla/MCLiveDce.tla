----------------------------- MODULE MCLiveDce ------------------------------
(* Instances of FrameSlots, and so of LiveDce, for TLC.                    *)
EXTENDS FrameSlots, TLC

One(S) == {R \in SUBSET S : Cardinality(R) <= 1}

Made == [dst : Regs, src : One(Regs), deletable : {TRUE}, looks : {FALSE}]
Loaded == [dst : Regs, src : {{}}, deletable : {TRUE}, looks : {TRUE}]
Shown == [dst : {NOREG}, src : {{r} : r \in Regs}, deletable : {FALSE}, looks : {FALSE}]
Called == [dst : Regs \cup {NOREG}, src : {{}}, deletable : {FALSE}, looks : {TRUE}]

EveryInstr == Made \cup Loaded \cup Shown \cup Called

(* Computations without memory; locals in memory, loads and calls.         *)
InRegisters == {in \in Made : in.src # {}} \cup Shown \cup {in \in Called : in.dst # NOREG}
InMemory(r) ==
  {in \in Made : in.src # {} \/ in.dst = r} \cup Shown \cup {in \in Loaded : in.dst # r}
    \cup {in \in Called : in.dst = NOREG}

MCBuilds ==
  {[instrs |-> InRegisters, addressed |-> {}]}
    \cup {[instrs |-> InMemory(r), addressed |-> {r}] : r \in Regs}

(* Both registers are spilled, with sizes of which some are equal.         *)
MCSpills ==
  {[spilled |-> Regs, size |-> [r \in Regs |-> IF r \in small THEN 4 ELSE 8]] : small \in One(Regs)}

(* For the allocator a function ends with an instruction that reads.  Its  *)
(* solver takes no notice of memory, and slots are not shared if a register*)
(* is in memory: there both blocks may be the same.                        *)
MCInit ==
  /\ SlotInit
  /\ full => code[N][Size] \in Shown /\ (addressed # {} => code[1] = code[2])
MCSpec == MCInit /\ [][SlotNext]_slotVars

Symmetric == Permutations(Regs)
=============================================================================
