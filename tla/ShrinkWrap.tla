----------------------------- MODULE ShrinkWrap -----------------------------
(***************************************************************************)
(* Where a callee-saved register is saved and restored                     *)
(* (src/codegen/regalloc/shrink.c), and the function running with what was *)
(* planned, as src/codegen/x86-64/func.c and flow.c emit it.               *)
(*                                                                         *)
(* The registers are planned one by one (plan_reg); here there is one.     *)
(* Blocks are numbered in the order of the code, block 1 is the entry.     *)
(* Whether the register is needed is told by one virtual register: it is   *)
(* the home of that register in the blocks of here, and not elsewhere.     *)
(***************************************************************************)
EXTENDS Integers, FiniteSets

CONSTANTS
  N,           \* bound: blocks of the function
  MaxRuns      \* bound: how often such a function starts over

ASSUME AtLeastOneBlock == N \in Nat \ {0} /\ MaxRuns \in Nat \ {0}

Blocks == 1..N

(* How a block ends.  "tailret": by a call in tail position whose return is *)
(* a block of its own, after labels; "self": a tail call of the function.  *)
Ends == {"go", "ret", "tail", "tailret", "self"}

VARIABLES
  succ, ends,   \* the control flow graph and what ends the blocks
  labels,       \* the blocks that hold nothing but their label
  here,         \* the blocks in which the virtual register lives in the register
  arrives,      \* ... at their beginning (live_in)
  dom,          \* dom[b]: the blocks that dominate b, as far as known
  saveAt,       \* the block before which the register is saved; 0: not yet planned
  saved,        \* the blocks in which it counts as saved
  pc,           \* the block that runs next; 0 before the function is entered
  reg, slot,    \* the contents of the register and of the slot it is saved in
  runs

graph == <<succ, ends, labels, here, arrives>>
plan == <<dom, saveAt, saved>>
wrapVars == <<graph, plan, pc, reg, slot, runs>>

-----------------------------------------------------------------------------
(* The blocks that can be reached from block b when those of W are walls:  *)
(* the least set with b in it that no edge leaves but into a wall.         *)
From(b, W) ==
  LET Closed == {K \in SUBSET Blocks :
                   {b} \ W \subseteq K /\ \A c \in K : succ[c] \ W \subseteq K}
  IN {c \in Blocks : \A K \in Closed : c \in K}

(* mark_reach.                                                             *)
Reach == From(1, {})

(* What cfg_build_edges makes of the ends of the blocks.                   *)
Edges(b) ==
  CASE ends[b] \in {"ret", "tail"} -> {{}}
    [] ends[b] \in {"tailret", "self"} -> IF b < N THEN {{}, {b + 1}} ELSE {{}}
    [] ends[b] = "go" -> {{c} : c \in Blocks} \cup (IF b < N THEN {{b + 1, c} : c \in Blocks} ELSE {})

(* The last block ends in the return of the function.  After a tailret the *)
(* block that returns follows.                                             *)
WrapInit ==
  /\ ends \in [Blocks -> Ends] /\ ends[N] = "ret"
  /\ succ \in [Blocks -> SUBSET Blocks]
  /\ \A b \in Blocks : succ[b] \in Edges(b)
  /\ \A b \in Blocks : ends[b] = "tailret" => succ[b] = {b + 1} /\ ends[b + 1] = "ret"
  /\ labels \in SUBSET {b \in Blocks : ends[b] = "go" /\ Cardinality(succ[b]) = 1 /\ b + 1 \in succ[b]}
  /\ here \in SUBSET (Blocks \ {1})
  /\ arrives \in SUBSET here
  /\ LET reach == Reach
     IN dom = [b \in Blocks |-> IF b = 1 THEN {1} ELSE IF b \in reach THEN Blocks ELSE {}]
  /\ saveAt = 0
  /\ saved = {}
  /\ pc = 0
  /\ reg = "caller" /\ slot = "empty"
  /\ runs = 0

-----------------------------------------------------------------------------
(* Mutation: one predecessor that is dominated is enough.                  *)
DomOfSome ==
  LET reach == Reach
  IN [b \in Blocks |->
        IF b = 1 THEN {1}
        ELSE IF b \notin reach THEN {}
        ELSE {b} \cup {d \in Blocks : \E p \in reach : b \in succ[p] /\ d \in dom[p]}]

(* dom_step.                                                               *)
DomStepped ==
  LET reach == Reach
  IN [b \in Blocks |->
        IF b = 1 THEN {1}
        ELSE IF b \notin reach THEN {}
        ELSE {b} \cup {d \in Blocks : \A p \in reach : b \in succ[p] => d \in dom[p]}]

DomStep ==
  /\ saveAt = 0
  /\ DomStepped # dom
  /\ dom' = DomStepped
  /\ UNCHANGED <<graph, saveAt, saved, pc, reg, slot, runs>>

(* Mutation: the moves on the edges are not looked at.                     *)
TouchedInBlocks == Reach \cap here

(* touch_instrs, touch_edges.                                              *)
Touched ==
  Reach \cap (here \cup {b \in Blocks : \E c \in succ[b] \cap arrives : b \notin here})

Exits == {b \in Reach : ends[b] # "go"}

(* Mutation: a save in a loop is allowed.                                  *)
LoopRegion(b) == \A e \in Exits \cap From(b, {}) : b \in dom[e]

(* What a block must be so that the register can be saved before it.       *)
SaveRegion(b) ==
  /\ \A c \in succ[b] : b \notin From(c, {})
  /\ \A e \in Exits \cap From(b, {}) : b \in dom[e]

(* pick_save_block.                                                        *)
Candidates ==
  {b \in Reach \ {1} : /\ \A t \in Touched : b \in dom[t]
                       /\ b \notin labels
                       /\ SaveRegion(b)}

Depth(b) == Cardinality(dom[b])

Deeper(b, c) == Depth(b) > Depth(c) \/ (Depth(b) = Depth(c) /\ b <= c)

SaveBlocks == LET all == {1} \cup Candidates IN {b \in all : \A c \in all : Deeper(b, c)}

SavedFrom(b) == {q \in Reach : b \in dom[q]}

(* Mutation: the last block is missed.                                     *)
AllButTheLast == 1..N - 1

(* save_all.                                                               *)
SaveAll == Blocks

(* plan_reg; save_all for a function that calls itself last.  A register   *)
(* that is never touched is not among callee_used.                         *)
PlanReg ==
  /\ saveAt = 0
  /\ DomStepped = dom
  /\ IF \E b \in Blocks : ends[b] = "self"
       THEN here # {} /\ saveAt' = 1 /\ saved' = SaveAll
       ELSE /\ Touched # {}
            /\ \E b \in SaveBlocks : saveAt' = b /\ saved' = SavedFrom(b)
  /\ UNCHANGED <<graph, dom, pc, reg, slot, runs>>

-----------------------------------------------------------------------------
(* make_body from its first instruction: a save in the entry block stands   *)
(* before everything, the label of the block included.                     *)
Enter ==
  /\ saveAt # 0 /\ pc = 0 /\ runs = 0
  /\ pc' = 1
  /\ slot' = IF saveAt = 1 THEN reg ELSE slot
  /\ runs' = 1
  /\ UNCHANGED <<graph, plan, reg>>

(* Any other save stands after the labels of its block.                    *)
SlotNow == IF pc = saveAt /\ pc # 1 THEN reg ELSE slot
RegNow == IF pc \in here THEN "own" ELSE reg

(* make_body goes on to another block; a move on the edge may put the      *)
(* virtual register into the register (x86_make_edge).                     *)
Go ==
  /\ pc # 0 /\ ends[pc] = "go"
  /\ \E c \in succ[pc] :
       /\ pc' = c
       /\ reg' = IF c \in arrives /\ pc \notin here THEN "own" ELSE RegNow
  /\ slot' = SlotNow
  /\ UNCHANGED <<graph, plan, runs>>

(* x86_make_ret and the tail call of another function: restore and leave.  *)
Leave ==
  /\ pc # 0 /\ ends[pc] \in {"ret", "tail", "tailret"}
  /\ reg' = IF pc \in saved THEN SlotNow ELSE RegNow
  /\ slot' = SlotNow
  /\ pc' = 0
  /\ UNCHANGED <<graph, plan, runs>>

(* x86_make_tail_call of the function itself: a jump to .LS, where the      *)
(* saves of the entry block stand.                                         *)
StartOver ==
  /\ pc # 0 /\ ends[pc] = "self" /\ runs < MaxRuns
  /\ pc' = 1
  /\ reg' = RegNow
  /\ slot' = IF saveAt = 1 THEN RegNow ELSE slot
  /\ runs' = runs + 1
  /\ UNCHANGED <<graph, plan>>

WrapNext == DomStep \/ PlanReg \/ Enter \/ Go \/ Leave \/ StartOver

WrapSpec == WrapInit /\ [][WrapNext]_wrapVars

-----------------------------------------------------------------------------
WrapTypeOK ==
  /\ succ \in [Blocks -> SUBSET Blocks] /\ ends \in [Blocks -> Ends]
  /\ labels \subseteq Blocks /\ arrives \subseteq here /\ here \subseteq Blocks
  /\ dom \in [Blocks -> SUBSET Blocks]
  /\ saveAt \in 0..N /\ saved \subseteq Blocks
  /\ pc \in 0..N
  /\ reg \in {"caller", "own"} /\ slot \in {"caller", "own", "empty"}
  /\ runs \in 0..MaxRuns

(* When the function returns or hands over to another one, the register    *)
(* holds what it held when the function was called, on every path through  *)
(* the graph (shrink.c:264-341, flow.c:118-175); for a function that calls *)
(* itself last, as long as it has not started over (shrink.c:378-391):     *)
(* StartOver then saves its own value over that of the caller.             *)
CallerValueKept == pc = 0 /\ runs <= 1 => reg = "caller"

(* As long as the function can still return, the slot holds the caller's   *)
(* value where the register counts as saved, and the register itself does  *)
(* where it does not (shrink.c:312-361).                                   *)
SavedExactly ==
  pc # 0 /\ runs <= 1 /\ From(pc, {}) \cap Exits # {} =>
    IF pc \in saved /\ (pc # saveAt \/ pc = 1) THEN slot = "caller" ELSE reg = "caller"

(* The caller's value is neither lost nor misplaced, on any path           *)
(* (shrink.c:264-361).                                                     *)
CallerValueSafe == CallerValueKept /\ SavedExactly

(* The iteration of dom_step finds exactly the dominators: the blocks that *)
(* every path from the entry passes (shrink.c:184-240).                    *)
DomExact ==
  saveAt # 0 =>
    \A d \in Blocks : {b \in Reach : d \in dom[b]} = Reach \ From(1, {d})
=============================================================================
