------------------------------- MODULE Front -------------------------------
(***************************************************************************)
(* The front of the compiler on a small program: semantic analysis walks   *)
(* the tree of every function and reports, a program without errors is     *)
(* lowered to intermediate code, short functions are inlined, and the code *)
(* runs, with every argument of main and every input (compiler.c runs the  *)
(* phases in this order; the run is the meaning of the code).              *)
(*                                                                         *)
(* TreeMeaning says what the tree means.  The code must do the same, and   *)
(* what semantic analysis reports must be true of every run.               *)
(***************************************************************************)
EXTENDS SemaFlow, Lowering, Inliner, TreeMeaning

CONSTANTS
  Programs,    \* the programs compiled: trees, one function is main
  Globals,     \* the names of the global variables
  MaxInputs    \* bound: how often a run can call in()

ASSUME MaxInputsNat == MaxInputs \in Nat

VARIABLES
  phase,    \* parsed, checked, lowered, inlined, running, or how it ended
  fns,      \* the functions: [code, regs]
  labels,   \* how many labels they use
  args,     \* the arguments of main
  at,       \* the run: function, instruction, where its registers begin
  stack,    \* the same of its callers
  regs,     \* the registers, of the callers first
  mem,      \* the globals
  passed,   \* the arguments of the next call, or of the function
  shown,    \* what the run took and showed
  result    \* what main returned

run == <<args, at, stack, regs, mem, passed, shown, result, inputs>>
vars == <<ast, sema, phase, fns, labels, run>>

NoRun ==
  /\ args = <<>> /\ at = <<>> /\ stack = <<>> /\ regs = <<>> /\ mem = <<>>
  /\ passed = <<>> /\ shown = <<>> /\ result = 0 /\ inputs = <<>>

Init ==
  /\ ast \in Programs
  /\ sema = <<>> /\ fns = <<>> /\ labels = 0
  /\ phase = "parsed"
  /\ NoRun

Check ==
  /\ phase = "parsed"
  /\ sema' = FoldLeft(CheckFnDec, SemaInit(Globals), FnDecs)
  /\ phase' = IF sema'.errors = {} THEN "checked" ELSE "rejected"
  /\ UNCHANGED <<ast, fns, labels, run>>

(* The functions in order; labels are numbered through the program.        *)
PushFn(w, g) ==
  [fns |-> Append(w.fns, [code |-> g.code, regs |-> g.regs]),
   labels |-> g.labels, fault |-> w.fault \/ g.fault]

IRGen(useSelect) ==
  FoldLeft(LAMBDA w, f : PushFn(w, GenFn(useSelect, w.labels, f)),
           [fns |-> <<>>, labels |-> 0, fault |-> FALSE], FnDecs)

Lower ==
  /\ phase = "checked"
  /\ \E w \in {IRGen(useSelect) : useSelect \in BOOLEAN} :
       /\ fns' = w.fns /\ labels' = w.labels
       /\ phase' = IF w.fault THEN "crashed" ELSE "lowered"
  /\ UNCHANGED <<ast, sema, run>>

Inline ==
  /\ phase = "lowered"
  /\ \E n \in DOMAIN fns : Sites(fns[n], fns) # {}
  /\ \E w \in {InlineIR(fns, labels)} : fns' = w.fns /\ labels' = w.labels
  /\ phase' = "inlined"
  /\ UNCHANGED <<ast, sema, run>>

Enter(f, base) == [fn |-> f, pc |-> 1, base |-> base]
NewRegs(f) == [r \in 1..fns[f].regs |-> NOVALUE]

CallMain ==
  /\ phase \in {"lowered", "inlined"}
  /\ LET main == FnNumber("main")
     IN /\ args' \in [DOMAIN Params(FnDecs[main]) -> {0, 1}]
        /\ at' = Enter(main, 0)
        /\ regs' = NewRegs(main)
  /\ passed' = args'
  /\ mem' = [x \in DOMAIN Globals |-> 0]
  /\ phase' = "running"
  /\ UNCHANGED <<ast, sema, fns, labels, stack, shown, result, inputs>>

(***************************************************************************)
(* The meaning of the instructions, as code generation gives it.  The      *)
(* address of a register, and of a global, is a number no other value      *)
(* reaches.                                                                *)
(***************************************************************************)
GlobalPointer(x) == 10000 + x
Code == fns[at.fn].code
Now == Code[at.pc]
Slot(r) == at.base + r
Value(r) == regs[Slot(r)]
Src1 == Value(Now.src1)
Src2 == Value(Now.src2)
LabelAt(l) == CHOOSE k \in DOMAIN Code : Code[k].op = "label" /\ Code[k].target = l
On == at' = [at EXCEPT !.pc = @ + 1]

Computes == {"param", "const", "move", "select", "add", "eq", "ne", "and", "or", "lnot",
             "ld_global", "addr_local", "addr_global"}

Computed ==
  CASE Now.op = "param" -> passed[Now.target]
    [] Now.op = "const" -> Now.imm
    [] Now.op = "move" -> Src1
    [] Now.op = "select" -> IF Value(Now.cond) # 0 THEN Src1 ELSE Src2
    [] Now.op = "add" -> Src1 + Src2
    [] Now.op = "eq" -> Bool(Src1 = Src2)
    [] Now.op = "ne" -> Bool(Src1 # Src2)
    [] Now.op = "and" -> Bool(Src1 = 1 /\ Src2 = 1)
    [] Now.op = "or" -> Bool(Src1 = 1 \/ Src2 = 1)
    [] Now.op = "lnot" -> Bool(Src1 = 0)
    [] Now.op = "ld_global" -> mem[Now.target]
    [] Now.op = "addr_local" -> Pointer(Slot(Now.src1))
    [] Now.op = "addr_global" -> GlobalPointer(Now.target)

SetReg(r, v) == regs' = [regs EXCEPT ![Slot(r)] = v]

Compute ==
  /\ Now.op \in Computes
  /\ SetReg(Now.dst, Computed)
  /\ On
  /\ UNCHANGED <<phase, stack, mem, passed, shown, result, inputs>>

Flow ==
  /\ Now.op \in {"label", "jmp", "jz", "jnz"}
  /\ at' = [at EXCEPT !.pc = IF \/ Now.op = "jmp"
                                \/ Now.op = "jz" /\ Src1 = 0
                                \/ Now.op = "jnz" /\ Src1 # 0
                             THEN LabelAt(Now.target) ELSE @ + 1]
  /\ UNCHANGED <<phase, stack, regs, mem, passed, shown, result, inputs>>

StrGlobal ==
  /\ Now.op = "str_global"
  /\ mem' = [mem EXCEPT ![Now.target] = Src1]
  /\ On
  /\ UNCHANGED <<phase, stack, regs, passed, shown, result, inputs>>

ToLocal == Cell(Src1) \in DOMAIN regs
ToGlobal == Src1 - GlobalPointer(0) \in DOMAIN mem

LdPtr ==
  /\ Now.op = "ld_ptr" /\ (ToLocal \/ ToGlobal)
  /\ SetReg(Now.dst, IF ToLocal THEN regs[Cell(Src1)] ELSE mem[Src1 - GlobalPointer(0)])
  /\ On
  /\ UNCHANGED <<phase, stack, mem, passed, shown, result, inputs>>

StrPtr ==
  /\ Now.op = "str_ptr" /\ (ToLocal \/ ToGlobal)
  /\ IF ToLocal THEN regs' = [regs EXCEPT ![Cell(Src1)] = Src2] /\ UNCHANGED mem
                ELSE mem' = [mem EXCEPT ![Src1 - GlobalPointer(0)] = Src2] /\ UNCHANGED regs
  /\ On
  /\ UNCHANGED <<phase, stack, passed, shown, result, inputs>>

BadPointer ==
  /\ Now.op \in {"ld_ptr", "str_ptr"} /\ ~ToLocal /\ ~ToGlobal
  /\ phase' = "fault"
  /\ UNCHANGED <<at, stack, regs, mem, passed, shown, result, inputs>>

Pass ==
  /\ Now.op = "arg"
  /\ passed' = Append(IF Now.target = 1 THEN <<>> ELSE passed, Src1)
  /\ On
  /\ UNCHANGED <<phase, stack, regs, mem, shown, result, inputs>>

In ==
  /\ Now.op = "in" /\ Len(inputs) < MaxInputs
  /\ \E v \in {0, 1} : /\ inputs' = Append(inputs, v)
                       /\ SetReg(Now.dst, v)
                       /\ shown' = Append(shown, Shows("in", v))
  /\ On
  /\ UNCHANGED <<phase, stack, mem, passed, result>>

Wait ==
  /\ Now.op = "in" /\ Len(inputs) = MaxInputs
  /\ phase' = "waits"
  /\ UNCHANGED <<at, stack, regs, mem, passed, shown, result, inputs>>

Out ==
  /\ Now.op = "out"
  /\ shown' = Append(shown, Shows("out", passed[1]))
  /\ On
  /\ UNCHANGED <<phase, stack, regs, mem, passed, result, inputs>>

(* A call whose result is what the function returns, and nothing else      *)
(* (cg_is_tail_call; the types agree, the arguments are in registers).     *)
Reads(r) == {k \in DOMAIN Code : r \in {Code[k].src1, Code[k].src2, Code[k].cond}}

IsTailCall ==
  LET after == {k \in at.pc + 1..Len(Code) : Code[k].op # "label"}
      ret == CHOOSE k \in after : \A j \in after : k <= j
  IN /\ Now.op = "call"
     /\ Code[ret].op = "ret" /\ Code[ret].src1 = Now.dst
     /\ Cardinality(Reads(Now.dst)) = 1

(* It gives up the frame, then jumps: the function called returns to the   *)
(* caller.                                                                 *)
TailCall ==
  /\ IsTailCall
  /\ at' = Enter(Now.target, at.base)
  /\ regs' = SubSeq(regs, 1, at.base) \o NewRegs(Now.target)
  /\ UNCHANGED <<phase, stack, mem, passed, shown, result, inputs>>

CallFn ==
  /\ Now.op = "call" /\ ~IsTailCall
  /\ at' = Enter(Now.target, Len(regs))
  /\ stack' = Append(stack, at)
  /\ regs' = regs \o NewRegs(Now.target)
  /\ UNCHANGED <<phase, mem, passed, shown, result, inputs>>

Returned == IF Now.src1 = NOREG THEN 0 ELSE Src1

Return ==
  /\ Now.op = "ret" /\ stack # <<>>
  /\ LET caller == Last(stack)
         dst == fns[caller.fn].code[caller.pc].dst
     IN /\ at' = [caller EXCEPT !.pc = @ + 1]
        /\ regs' = [SubSeq(regs, 1, at.base) EXCEPT ![caller.base + dst] = Returned]
  /\ stack' = Front(stack)
  /\ UNCHANGED <<phase, mem, passed, shown, result, inputs>>

Finish ==
  /\ Now.op = "ret" /\ stack = <<>>
  /\ result' = Returned
  /\ phase' = "done"
  /\ UNCHANGED <<at, stack, regs, mem, passed, shown, inputs>>

Step ==
  /\ phase = "running"
  /\ \/ Compute \/ Flow \/ StrGlobal \/ LdPtr \/ StrPtr \/ BadPointer \/ Pass \/ In \/ Wait \/ Out
     \/ TailCall \/ CallFn \/ Return \/ Finish
  /\ UNCHANGED <<ast, sema, fns, labels, args>>

Next == Check \/ Lower \/ Inline \/ CallMain \/ Step

Spec == Init /\ [][Next]_vars

(***************************************************************************)
(* What the phases promise each other.                                     *)
(***************************************************************************)
Ended == phase \in {"done", "waits", "fault"}
Tree == Meaning(Globals, args)
InLoop(i) == \E w \in DOMAIN ast : Type(w) \in {"WHILE", "FOR"} /\ i \in Under(w)
Warned(what) == {i \in DOMAIN ast : <<what, i>> \in sema.warned}
AddressTaken(i) == sema.syms[IF Type(i) = "VAR_DEC" THEN sema.sym[i] ELSE sema.sym[Kid(i, 1)]].addressed

(* The run showed what the tree shows, and ended as it does.               *)
DoesAs(tree) ==
  tree.none = {} =>
    /\ shown = tree.shown
    /\ CASE phase = "done" -> tree.end \in {"returns", "falls"} /\ result = tree.val
         [] phase = "waits" -> tree.end = "waits"
         [] phase = "fault" -> tree.end = "fault"

(* The code does what the tree says: with the same arguments and inputs it *)
(* shows the same values in the same order, ends in the same way and       *)
(* returns the same value, whether conditions, && and || and ternaries     *)
(* were lowered to jumps or to selects, and whether calls were inlined.  A *)
(* run that reads a variable no assignment reached means nothing.          *)
LoweredAsWritten == Ended => DoesAs(Tree)

(* Every read that can meet a variable without a value was warned about:   *)
(* the flags a branch or a loop leaves never say assigned when some path   *)
(* through it is not.                                                      *)
AssignedBeforeRead == Ended => \A i \in Tree.none : <<"unassigned", i>> \in sema.warned

(* A value reported as not used is read by no run.  Left out is a write in *)
(* a loop to a variable whose address is taken: the address may be taken   *)
(* after the write was reported, and read in the next iteration.           *)
DeadWritesTrue ==
  Ended => \A i \in Warned("dead") : (InLoop(i) /\ AddressTaken(i)) \/ i \notin Tree.used

(* A pointer reported to be NULL where it is dereferenced never holds the  *)
(* address of a variable there.  Left out is a dereference in a loop, which*)
(* is walked once, with what was known before the loop.                    *)
NullTrue == Ended => \A i \in Warned("null") : InLoop(i) \/ i \notin Tree.valid

(* Warnings are not invented (LANGUAGE.md:359), with those exceptions.     *)
WarningsTrue == DeadWritesTrue /\ NullTrue

(* A function with a value never runs into the return without one that     *)
(* closes its code: stmt_returns accepts only bodies all of whose paths    *)
(* return.                                                                 *)
NoFallOff == phase = "running" /\ Valued(FnDecs[at.fn]) => at.pc < Len(Code)
=============================================================================
