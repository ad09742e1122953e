------------------------------ MODULE Program ------------------------------
(***************************************************************************)
(* The whole program, from its initializers to its functions in assembly   *)
(* (src/codegen/x86-64/x86_64.c).  Functions are generated callees first:  *)
(* what a function clobbers is known to those generated after it, and      *)
(* registers it leaves alone may hold values across a call to it.  An      *)
(* initialization function that static.c emptied is neither generated nor  *)
(* called by main.                                                         *)
(***************************************************************************)
EXTENDS Startup

CONSTANTS
  CallerMask,   \* X86_CALLER_MASK: the registers a call may clobber
  ArgRegs       \* the registers of arguments, in order

(* Functions from elsewhere; what a body writes itself; how many arguments *)
(* in registers.                                                           *)
ASSUME EmissionKnown ==
  \A p \in Programs :
    p.externs \subseteq DOMAIN p.fns /\ DOMAIN p.own = DOMAIN p.fns /\ p.argc \in [DOMAIN p.fns -> Nat]

VARIABLES
  gen,       \* per function: 0 not yet, 1 in work, 2 done (init is function 0)
  work,      \* the functions in work, each with its next call
  next,      \* the next function of the program
  clobber,   \* fn_clobber: what a call to each is taken to clobber
  kept       \* for each function done, what its calls were taken to clobber

emission == <<gen, work, next, clobber, kept>>
progVars == <<vars, emission>>

InitFn == 0
AllFns == {InitFn} \cup Fns

EmissionInit ==
  /\ gen = [f \in AllFns |-> 0] /\ work = <<>> /\ next = InitFn
  /\ clobber = [f \in AllFns |-> CallerMask]
  /\ kept = [f \in AllFns |-> <<>>]

InitEmpty == \A k \in DOMAIN code : code[k].op = "nop"
Skipped(f) == f \in prog.externs \/ (f = InitFn /\ InitEmpty)

Sites(f) ==
  IF f = InitFn THEN {k \in DOMAIN code : code[k].op = "call"}
  ELSE {k \in DOMAIN prog.fns[f] : prog.fns[f][k].op = "call"}
Callee(f, k) == IF f = InitFn THEN code[k].target ELSE prog.fns[f][k].f

(* x86_call_clobbers: what the callee clobbers, and the arguments.         *)
Args(f) == ToSet(SubSeq(ArgRegs, 1, prog.argc[f]))
CallClobbers(f) == clobber[f] \cup Args(f)

Begin(f, rest) ==
  IF gen[f] # 0 THEN gen' = gen /\ work' = rest
  ELSE IF Skipped(f) THEN gen' = [gen EXCEPT ![f] = 2] /\ work' = rest
  ELSE gen' = [gen EXCEPT ![f] = 1] /\ work' = Append(rest, [fn |-> f, at |-> 1])

(* The first call of the function in work that has not been gone through.  *)
Doing == Last(work).fn
Ahead == {k \in Sites(Doing) : k >= Last(work).at}
NextCall(k) == k \in Ahead /\ \A j \in Ahead : k <= j
Past(k) == Append(Front(work), [fn |-> Doing, at |-> k + 1])

(* Mutation: functions are generated in the order of the program.          *)
GenCalleeLater ==
  /\ phase = "bound" /\ work # <<>>
  /\ \E k \in Ahead : NextCall(k) /\ work' = Past(k)
  /\ UNCHANGED <<vars, gen, next, clobber, kept>>

GenNext ==
  /\ phase = "bound" /\ work = <<>> /\ next \in AllFns
  /\ Begin(next, <<>>)
  /\ next' = next + 1
  /\ UNCHANGED <<vars, clobber, kept>>

GenCallee ==
  /\ phase = "bound" /\ work # <<>>
  /\ \E k \in Ahead : NextCall(k) /\ Begin(Callee(Doing, k), Past(k))
  /\ UNCHANGED <<vars, next, clobber, kept>>

Own(f) == IF f = InitFn THEN {} ELSE prog.own[f]

(* Mutation: only what the function writes itself is recorded.             *)
GenBodyAlone ==
  /\ phase = "bound" /\ work # <<>> /\ Ahead = {}
  /\ gen' = [gen EXCEPT ![Doing] = 2]
  /\ clobber' = [clobber EXCEPT ![Doing] = Own(Doing) \cap CallerMask]
  /\ kept' = [kept EXCEPT ![Doing] = [k \in Sites(Doing) |-> CallClobbers(Callee(Doing, k))]]
  /\ work' = Front(work)
  /\ UNCHANGED <<vars, next>>

(* Allocation and emission: calls keep values out of what their callees    *)
(* clobber, and what the function clobbers is what it writes and they do.  *)
GenBody ==
  /\ phase = "bound" /\ work # <<>> /\ Ahead = {}
  /\ LET masks == [k \in Sites(Doing) |-> CallClobbers(Callee(Doing, k))]
     IN /\ clobber' = [clobber EXCEPT ![Doing] = (Own(Doing) \cup UNION Range(masks)) \cap CallerMask]
        /\ kept' = [kept EXCEPT ![Doing] = masks]
  /\ gen' = [gen EXCEPT ![Doing] = 2]
  /\ work' = Front(work)
  /\ UNCHANGED <<vars, next>>

ProgramInit == Init /\ EmissionInit
ProgramNext == (Next /\ UNCHANGED emission) \/ GenNext \/ GenCallee \/ GenBody
Spec == ProgramInit /\ [][ProgramNext]_progVars /\ WF_progVars(ProgramNext)

Emitted == phase = "bound" /\ work = <<>> /\ next \notin AllFns

(***************************************************************************)
(* Properties.                                                             *)
(***************************************************************************)
Called(f) == {Callee(f, k) : k \in Sites(f)}

(* What may run once one of the functions is called; nothing is known of   *)
(* what a function from elsewhere calls.                                   *)
ReachedFrom(fs) ==
  {g \in AllFns : \A S \in SUBSET AllFns : fs \subseteq S /\ (\A f \in S \ prog.externs : Called(f) \subseteq S) => g \in S}
Reached(f) == ReachedFrom({f})
Recursive(f) == f \in ReachedFrom(Called(f))

(* What its own code writes, and what executing it can clobber.            *)
Writes(f) == Own(f) \cup UNION {Args(g) : g \in Called(f)}
Clobbered(f) ==
  IF Reached(f) \cap prog.externs # {} THEN CallerMask
  ELSE UNION {Writes(g) : g \in Reached(f)}

(* No register a caller keeps a value in is changed by the callee or by    *)
(* anything it calls, recursion and functions from elsewhere included; and *)
(* where there is no recursion nothing is kept out without need.           *)
ClobbersKnown ==
  \A f \in AllFns : \A k \in DOMAIN kept[f] :
    LET g == Callee(f, k)
    IN /\ Clobbered(g) \cap CallerMask \subseteq kept[f][k]
       /\ ~(\E h \in Reached(g) : Recursive(h)) =>
            kept[f][k] = (Clobbered(g) \cap CallerMask) \cup Args(g)

(* Every program gets through: circles of initializers are found, circles  *)
(* of calls come to rest in the sweeps and are generated once.             *)
Starts == <>(phase = "rejected" \/ Emitted)
=============================================================================
