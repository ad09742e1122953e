------------------------------ MODULE IRBlock ------------------------------
(***************************************************************************)
(* What a straight piece of intermediate code does (src/ir/ir.h): the      *)
(* values are terms over the values the registers hold on entry, so two    *)
(* pieces of code with equal results are equal for every input.            *)
(*                                                                         *)
(* Addressed registers are locals whose address was taken: they live in    *)
(* memory, where calls and stores through pointers reach them.  Every      *)
(* pointer of the code points to one object, alias.                        *)
(***************************************************************************)
EXTENDS Integers, Sequences, FiniteSets

CONSTANTS
  Regs,        \* the virtual registers of the code
  Addressed,   \* IRFn.addressed: those that are locals in memory
  Ops,         \* the operations in the code
  MaxCode,     \* bound: instructions
  NOREG        \* NO_REG

ASSUME AddressedAreRegs == Addressed \subseteq Regs /\ NOREG \notin Regs

ASSUME CodeBounded == MaxCode \in Nat

ASSUME ObjectsApart == {"global", "heap"} \cap Regs = {}

ASSUME MovesExist == "move" \in Ops

Reads == Regs \ Addressed

(* The operations with a result, by their number of sources.               *)
Instrs ==
  [op : Ops \cap {"add", "mul", "div"}, dst : Regs, s1 : Reads, s2 : Reads]
    \cup [op : Ops \cap {"move"}, dst : Regs, s1 : Regs, s2 : {NOREG}]
    \cup [op : Ops \cap {"call", "ldp"}, dst : Regs, s1 : Reads, s2 : {NOREG}]
    \cup [op : Ops \cap {"ldg"}, dst : Regs, s1 : {NOREG}, s2 : {NOREG}]
    \cup [op : Ops \cap {"stg"}, dst : {NOREG}, s1 : Reads, s2 : {NOREG}]
    \cup [op : Ops \cap {"stp"}, dst : {NOREG}, s1 : Reads, s2 : Reads]

Nop == [op |-> "nop", dst |-> NOREG, s1 |-> NOREG, s2 |-> NOREG]

(* get_srcs.                                                               *)
Srcs(in) == {in.s1, in.s2} \ {NOREG}

(* is_deletable: a division may trap.                                      *)
Deletable == {"move", "add", "mul", "ldp", "ldg"}

(* The memory objects: the addressed locals, a global and the rest.        *)
Objects == Addressed \cup {"global", "heap"}

-----------------------------------------------------------------------------
Value(st, o) == IF o \in Addressed THEN st.reg[o] ELSE st.mem[o]

Written(st, o, v) ==
  IF o \in Addressed THEN [st EXCEPT !.reg[o] = v] ELSE [st EXCEPT !.mem[o] = v]

(* What the callee and the caller's caller can see of the memory.          *)
Memory(st) == [o \in Objects |-> Value(st, o)]

(* A call sees the memory and leaves something new in all of it.           *)
AfterCall(st, in) ==
  LET k == Len(st.seen) + 1
      reg == [r \in Regs |-> IF r \in Addressed THEN <<"left", k, r>> ELSE st.reg[r]]
  IN [st EXCEPT
        !.seen = Append(@, <<st.reg[in.s1], Memory(st)>>),
        !.mem = [o \in DOMAIN @ |-> <<"left", k, o>>],
        !.reg = [reg EXCEPT ![in.dst] = <<"ret", k>>]]

(* The state after one instruction.                                        *)
Exec(alias, st, in) ==
  LET v(x) == st.reg[x]
      into(t) == [st EXCEPT !.reg[in.dst] = t]
  IN CASE in.op = "nop" -> st
       [] in.op = "move" -> into(v(in.s1))
       [] in.op = "add" -> into(<<"add", v(in.s1), v(in.s2)>>)
       [] in.op = "mul" -> into(<<"mul", {v(in.s1), v(in.s2)}>>)
       [] in.op = "div" ->
            [into(<<"div", v(in.s1), v(in.s2)>>) EXCEPT !.traps = @ \cup {<<v(in.s1), v(in.s2)>>}]
       [] in.op = "ldg" -> into(st.mem["global"])
       [] in.op = "stg" -> Written(st, "global", v(in.s1))
       [] in.op = "ldp" -> into(Value(st, alias))
       [] in.op = "stp" -> Written(st, alias, v(in.s2))
       [] in.op = "call" -> AfterCall(st, in)

Entry ==
  [reg |-> [r \in Regs |-> <<"entry", r>>],
   mem |-> [o \in {"global", "heap"} |-> <<"entry", o>>],
   seen |-> <<>>,
   traps |-> {}]

(* The state on entry, and after each instruction.                         *)
States(alias, c) ==
  LET after[k \in 0..MaxCode] == IF k = 0 THEN Entry ELSE Exec(alias, after[k - 1], c[k])
  IN after

(* What the rest of the program can tell of the code: the registers it     *)
(* reads later, the memory, what each call saw, and the divisions made.    *)
Meaning(alias, c, out) ==
  LET st == States(alias, c)[MaxCode]
  IN [reg |-> [r \in out |-> st.reg[r]],
      mem |-> Memory(st), seen |-> st.seen, traps |-> st.traps]
=============================================================================
