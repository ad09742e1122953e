---------------------------- MODULE MoveCallers ----------------------------
(* The three places that ask the planner of ParallelMove for a group of    *)
(* moves, and what they do around it:                                      *)
(*   params  x86_make_param (x86-64/move.c): the arguments of a function   *)
(*           go to the homes of its parameters                             *)
(*   args    x86_make_arg, x86_make_call (flow.c, regs.c): the homes of    *)
(*           the arguments go to where the callee expects them, and what   *)
(*           is alive across the call is saved and restored                *)
(*   edge    build_edges (regalloc.c), x86_make_edge (edges.c): on an edge *)
(*           between two blocks the live variables change homes            *)
(*                                                                         *)
(* The group itself is planned and executed by ParallelMove, whose loc     *)
(* says for every location where its contents were before the group. mem   *)
(* is the machine: it holds a value of the program, NOTHING when no value  *)
(* that matters. Tail calls leave without saving; what they restore is in  *)
(* ShrinkWrap.                                                             *)
EXTENDS ParallelMove, SequencesExt

CONSTANTS
  ArgRegs,      \* x86_arg_regs
  InSlots,      \* where the remaining arguments arrive
  OutSlots,     \* the outgoing area for those of a callee
  Rax,
  CallerSaved,  \* X86_CALLER_MASK
  SpillSlots,   \* Reg.slot of each vreg, were it spilled
  SaveSlots,    \* the regsave area, a slot for each register
  ArgVregs,     \* bound: the vregs that args and calls are about
  Overwritten,  \* whether a function may overwrite a parameter unread
  SPILL, CONST, NOTHING, RESULT

Vregs == DOMAIN SpillSlots

ASSUME CallersAssumption ==
  /\ ArgRegs \in Seq(CallerSaved) /\ IsInjective(ArgRegs)
  /\ Rax \in CallerSaved /\ CallerSaved \subseteq Regs
  /\ InSlots \in Seq(Slots) /\ OutSlots \in Seq(Slots) /\ Len(InSlots) = Len(OutSlots)
  /\ SpillSlots \in Seq(Slots) /\ SaveSlots \in [Regs -> Slots]
  /\ Len(SpillSlots) <= Len(ArgRegs) + Len(InSlots)   \* each may be a parameter
  /\ ArgVregs \subseteq Vregs /\ Overwritten \in BOOLEAN
  /\ SPILL \notin Regs /\ CONST \notin Vregs

(* The four areas of a frame keep their slots apart (layout.c:33-45,       *)
(* 129-138).                                                               *)
ASSUME FrameLayout ==
  /\ IsInjective(InSlots) /\ IsInjective(OutSlots)
  /\ IsInjective(SpillSlots) /\ IsInjective(SaveSlots)
  /\ \A v \in DOMAIN SpillSlots, k \in DOMAIN InSlots :
       SpillSlots[v] # InSlots[k] /\ SpillSlots[v] # OutSlots[k]
  /\ \A r \in Regs, k \in DOMAIN InSlots :
       SaveSlots[r] # InSlots[k] /\ SaveSlots[r] # OutSlots[k]
  /\ \A r \in Regs, v \in DOMAIN SpillSlots : SaveSlots[r] # SpillSlots[v]

VARIABLES
  job,    \* which of the three places
  home,   \* Reg.home of the vregs in the block of the group
  there,  \* edge: Reg.home in the block the edge leads to
  live,   \* params: read before being overwritten; args: alive after the
          \* call; edge: live_in of the block the edge leads to
  used,   \* params: Reg.uses > 0
  twin,   \* vreg 2 is a VR_ALIAS of vreg 1
  call,   \* args: [argv, dst, clob, tail]
  stage,  \* how far the place is
  next,   \* the next stack argument or parameter
  mem     \* the contents of registers and memory

cvars == <<job, home, there, live, used, twin, call, stage, next, mem>>
context == <<job, home, there, live, used, twin, call>>

Homes == [Vregs -> Regs \cup {SPILL}]
Place(h, v) == IF h[v] = SPILL THEN SpillSlots[IF twin /\ v = 2 THEN 1 ELSE v] ELSE h[v]
Value(v) == IF twin /\ v = 2 THEN 1 ELSE v

\* vregs that are alive together have homes of their own, twins excepted
Apart(h, vs) == \A v, w \in vs : Value(v) # Value(w) => h[v] = SPILL \/ h[v] # h[w]
HomesOf(h, vs) == {h[v] : v \in vs} \ {SPILL}

\* the machine in which every vreg of vs is at home
Holding(vs) ==
  [l \in Locs |-> IF \E v \in vs : Place(home, v) = l
                    THEN Value(CHOOSE v \in vs : Place(home, v) = l) ELSE NOTHING]

\* the members of a set of numbers, in their order
InOrder(S) ==
  [k \in 1 .. Cardinality(S) |-> CHOOSE v \in S : Cardinality({w \in S : w <= v}) = k]

NoCall == [argv |-> <<>>, dst |-> CONST, clob |-> {}, tail |-> FALSE]
Unneeded(h, vs) == \A v \in Vregs \ vs : h[v] = SPILL   \* bound: one home will do

-----------------------------------------------------------------------------
(* Parameters.                                                             *)

RegParams == {v \in Vregs : v <= Len(ArgRegs)}
Arrives(v) == IF v \in RegParams THEN ArgRegs[v] ELSE InSlots[v - Len(ArgRegs)]

\* The sweep goes backwards and links PARAM v with what is alive after it:
\* the earlier parameters whose incoming value is read, and no other.
Linked(v, w) == w < v /\ {v, w} \subseteq used /\ w \in live

BuildParamMoves ==
  LET chosen == InOrder(RegParams \cap used)
  IN [k \in DOMAIN chosen |-> [from |-> ArgRegs[chosen[k]], to |-> Place(home, chosen[k])]]

\* paint_block keeps a scratch register off the palette
ParamsInit ==
  /\ job = "params" /\ stage = "plan" /\ next = Len(ArgRegs) + 1
  /\ twin = FALSE /\ call = NoCall
  /\ used \in SUBSET Vregs /\ live \in SUBSET used
  /\ ~Overwritten => live = used
  /\ home \in Homes /\ Unneeded(home, used)
  /\ \A v, w \in Vregs : Linked(v, w) => home[v] = SPILL \/ home[v] # home[w]
  /\ HomesOf(home, used) # Regs
  /\ there = home
  /\ mem = [l \in Locs |-> IF \E v \in Vregs : Arrives(v) = l
                             THEN CHOOSE v \in Vregs : Arrives(v) = l ELSE NOTHING]
  /\ moves = BuildParamMoves

\* Mutation: any register will do as a scratch register.
AnyScratch == Regs

\* what x86_grab may take: a register that is no parameter's home
StackScratch == Regs \ HomesOf(home, used)

MakeStackParam ==
  /\ job = "params" /\ stage = "planned" /\ next \in Vregs
  /\ IF next \notin used THEN UNCHANGED mem
     ELSE IF home[next] # SPILL THEN mem' = [mem EXCEPT ![home[next]] = mem[Arrives(next)]]
     ELSE \E w \in StackScratch :
            mem' = [mem EXCEPT ![w] = mem[Arrives(next)],
                               ![SpillSlots[next]] = mem[Arrives(next)]]
  /\ next' = next + 1
  /\ UNCHANGED <<context, stage, vars>>

-----------------------------------------------------------------------------
(* Arguments and the call.                                                 *)

ArgSources == ToSet(call.argv) \ {CONST}
GoesTo(k) == IF k <= Len(ArgRegs) THEN ArgRegs[k]
             ELSE (IF call.tail THEN InSlots ELSE OutSlots)[k - Len(ArgRegs)]
InRegs == {k \in DOMAIN call.argv : k <= Len(ArgRegs)}

\* Mutation: the registers that carry the arguments are thought to survive.
ClobbersOfBody == call.clob

\* x86_call_clobbers: what the callee writes, and the argument registers
CallClobbers == call.clob \cup {ArgRegs[k] : k \in InRegs}

\* ctx->save as move_call_live uses it
Saved == IF call.tail THEN {} ELSE HomesOf(home, live) \cap CallClobbers \cap CallerSaved

BuildArgMoves ==
  LET chosen == InOrder({k \in InRegs : call.argv[k] # CONST})
  IN [n \in DOMAIN chosen |-> [from |-> Place(home, call.argv[chosen[n]]), to |-> ArgRegs[chosen[n]]]]

\* Mutation: the argument registers are free for scratch.
ScratchOfArgs == Regs \ HomesOf(home, live)

\* protect_args: the argument registers and every argument's home are busy
ArgScratch == Regs \ (HomesOf(home, live \cup ArgSources) \cup ToSet(ArgRegs))

ArgsInit ==
  /\ job = "args" /\ stage = "save" /\ next = Len(ArgRegs) + 1 /\ twin = FALSE
  /\ call \in [argv : BoundedSeq(ArgVregs \cup {CONST}, Len(ArgRegs) + Len(OutSlots)),
               dst : ArgVregs \cup {CONST}, clob : {{Rax}, CallerSaved}, tail : BOOLEAN]
  /\ live \in SUBSET (ArgVregs \ {call.dst})
  /\ call.tail => live = {} /\ call.dst = CONST
  /\ home \in Homes /\ Unneeded(home, live \cup ArgSources \cup {call.dst})
  /\ Apart(home, live \cup ArgSources) /\ Apart(home, (live \cup {call.dst}) \cap Vregs)
  /\ ArgScratch # {}
  /\ used = Vregs /\ there = home
  /\ mem = Holding(live \cup ArgSources)
  /\ moves = BuildArgMoves

SaveLive ==
  /\ job = "args" /\ stage = "save" /\ stage' = "stack"
  /\ mem' = [l \in Locs |-> IF \E r \in Saved : SaveSlots[r] = l
                              THEN mem[CHOOSE r \in Saved : SaveSlots[r] = l] ELSE mem[l]]
  /\ UNCHANGED <<context, next, vars>>

MakeStackArg ==
  /\ job = "args" /\ stage = "stack" /\ next \in DOMAIN call.argv
  /\ LET v == call.argv[next] IN
       IF v = CONST THEN mem' = [mem EXCEPT ![GoesTo(next)] = CONST]
       ELSE IF home[v] # SPILL THEN mem' = [mem EXCEPT ![GoesTo(next)] = mem[home[v]]]
       ELSE \E w \in ArgScratch :
              mem' = [mem EXCEPT ![w] = mem[SpillSlots[v]], ![GoesTo(next)] = mem[SpillSlots[v]]]
  /\ next' = next + 1
  /\ UNCHANGED <<context, stage, vars>>

StackArgsMade ==
  /\ job = "args" /\ stage = "stack" /\ next \notin DOMAIN call.argv
  /\ stage' = "plan"
  /\ UNCHANGED <<context, next, mem, vars>>

RematArgs ==
  /\ job = "args" /\ stage = "planned" /\ stage' = "call"
  /\ mem' = [l \in Locs |-> IF \E k \in InRegs : ArgRegs[k] = l /\ call.argv[k] = CONST
                              THEN CONST ELSE mem[l]]
  /\ UNCHANGED <<context, next, vars>>

\* The callee: the registers it may change, the result, and its own stack
\* arguments, which belong to it.
Callee ==
  /\ job = "args" /\ stage = "call" /\ ~call.tail /\ stage' = "returned"
  /\ mem' = [l \in Locs |-> IF l = Rax THEN RESULT
                            ELSE IF l \in CallClobbers \cup ToSet(OutSlots) THEN NOTHING ELSE mem[l]]
  /\ UNCHANGED <<context, next, vars>>

\* the rest of x86_make_call: the result goes home, then the saved come back
FinishCall ==
  /\ job = "args" /\ stage = "returned" /\ stage' = "end"
  /\ LET stored == IF call.dst = CONST THEN mem
                   ELSE [mem EXCEPT ![Place(home, call.dst)] = mem[Rax]]
     IN mem' = [l \in Locs |-> IF l \in Saved THEN stored[SaveSlots[l]] ELSE stored[l]]
  /\ UNCHANGED <<context, next, vars>>

-----------------------------------------------------------------------------
(* Edges between blocks.                                                   *)

\* Mutation: a vreg whose home another one has is not moved.
SeenFrom(v) == \E w \in live : w < v /\ home[w] = home[v]

\* Mutation: twins are moved twice.
NeverSeen(v) == FALSE

\* edge_move_seen: a twin has already been moved
EdgeMoveSeen(v) == \E w \in live : w < v /\ home[w] = home[v] /\ there[w] = there[v]

BuildEdgeMoves ==
  LET chosen == InOrder({v \in live : home[v] # there[v] /\ ~EdgeMoveSeen(v)})
  IN [k \in DOMAIN chosen |-> [from |-> Place(home, chosen[k]), to |-> Place(there, chosen[k])]]

EdgeInit ==
  /\ job = "edge" /\ stage = "plan" /\ next = 1
  /\ twin \in BOOLEAN /\ live \in SUBSET Vregs
  /\ home \in Homes /\ Apart(home, live) /\ Unneeded(home, live)
  /\ there \in Homes /\ Apart(there, live) /\ Unneeded(there, live)
  /\ twin => home[1] = home[2] /\ there[1] = there[2]
  /\ used = Vregs /\ call = NoCall
  /\ mem = Holding(live)
  /\ moves = BuildEdgeMoves

-----------------------------------------------------------------------------
CallersInit == (ParamsInit \/ ArgsInit \/ EdgeInit) /\ Start

Plan == stage = "plan" /\ Next /\ UNCHANGED cvars

\* the emitted group has run on the machine
Planned ==
  /\ stage = "plan" /\ phase = "done" /\ stage' = "planned"
  /\ mem' = [l \in Locs |-> mem[loc[l]]]
  /\ UNCHANGED <<context, next, vars>>

CallersNext ==
  \/ Plan \/ Planned
  \/ MakeStackParam
  \/ SaveLive \/ MakeStackArg \/ StackArgsMade \/ RematArgs \/ Callee \/ FinishCall

\* the code generator is a sequential program
CallersSpec == CallersInit /\ [][CallersNext]_<<vars, cvars>> /\ WF_<<vars, cvars>>(CallersNext)

-----------------------------------------------------------------------------
(* Types of the callers' own variables; those of the planner are in TypeOK.*)
CallersTypeOK ==
  /\ job \in {"params", "args", "edge"}
  /\ home \in Homes /\ there \in Homes
  /\ live \subseteq Vregs /\ used \subseteq Vregs
  /\ ToSet(call.argv) \subseteq Vregs \cup {CONST} /\ call.clob \subseteq Regs
  /\ stage \in {"save", "stack", "plan", "planned", "call", "returned", "end"}
  /\ next \in 1 .. Len(ArgRegs) + Len(InSlots) + 1
  /\ mem \in [Locs -> Vregs \cup {CONST, NOTHING, RESULT}]

(* Parameters are passed by value (LANGUAGE.md:368): when the prologue has *)
(* run, the home of every parameter whose value the body reads holds the   *)
(* argument the caller passed in that position (move.c:42-95).             *)
ParamsArrive ==
  job = "params" /\ stage = "planned" /\ next \notin Vregs =>
    \A v \in live : mem[Place(home, v)] = v

(* When control reaches the callee every argument is in its register or    *)
(* stack slot, although they are put there by three loops that read        *)
(* sources the others may overwrite (flow.c:24-99).                        *)
ArgsArrive ==
  stage = "call" => \A k \in DOMAIN call.argv : mem[GoesTo(k)] = call.argv[k]

(* After a call the result and every variable that is still needed are     *)
(* where the register allocator says, whatever the callee changes          *)
(* (regs.c:10-41, flow.c:9-15, 101-116, regalloc.c:580-610).               *)
CallKeepsLive ==
  stage = "end" =>
    /\ \A v \in live : mem[Place(home, v)] = v
    /\ call.dst # CONST => mem[Place(home, call.dst)] = RESULT

(* After the moves of an edge every variable alive at the target is in its *)
(* home there, with what it was worth before (regalloc.c:396-492,          *)
(* verifiy.c:230-294).                                                     *)
EdgesDeliver ==
  job = "edge" /\ stage = "planned" => \A v \in live : mem[Place(there, v)] = Value(v)

(* Whoever asks for a plan, and with loops of his own around it, finds     *)
(* every value where it is looked for next (move.c:42-95, flow.c:24-99,    *)
(* regalloc.c:396-492).                                                    *)
ValuesArrive == ParamsArrive /\ ArgsArrive /\ EdgesDeliver
=============================================================================
