------------------------------ MODULE BlockOpt ------------------------------
(***************************************************************************)
(* The optimizer's loop over its passes (optimize_fn, src/ir/opt.c) and    *)
(* the passes that rewrite the inside of a block: copy propagation, common *)
(* subexpressions, coalescing, the two dead code eliminations, forwarding  *)
(* of globals and dead store elimination (src/ir/opts).                    *)
(*                                                                         *)
(* The code is one block of a function.  The rest of the function is what  *)
(* the passes see of it: the registers defined there and those read there. *)
(* Constants, jumps and the types of the registers are left out: the       *)
(* passes that only concern them change nothing here, and every register   *)
(* has the same representation.                                            *)
(***************************************************************************)
EXTENDS IRBlock

CONSTANTS
  Builds,        \* bound: what is compiled
  MaxRounds      \* OPT_MAX_ROUNDS

(* The level, OPT_FULL (-O3) or OPT_BASIC, the instructions the block is   *)
(* made of, the sets of registers that other blocks may define as well.    *)
ASSUME BuildsKnown ==
  Builds \subseteq [full : BOOLEAN, ops : SUBSET Ops, elseDefs : SUBSET SUBSET Regs]

ASSUME RoundsPositive == MaxRounds \in Nat \ {0}

VARIABLES
  full,       \* the level, OptCtx.level
  source,     \* the block before the optimizer ran
  outDefs,    \* the registers that other blocks define
  outLive,    \* the registers that other blocks read
  code,       \* the block now
  seen,       \* the block as analyze_fn last saw it
  dirty,      \* the last pass changed something
  changed,    \* some pass of this round changed something
  pass,       \* position in Passes
  round

vars == <<full, source, outDefs, outLive, code, seen, dirty, changed, pass, round>>

(* passes[], filtered by level.                                            *)
Passes ==
  IF full
    THEN <<"propagate", "cse", "coalesce", "dce", "live_dce", "globals", "dse">>
    ELSE <<"propagate", "coalesce", "dce", "globals", "dse">>

(* What the block reads before writing it is defined elsewhere.            *)
ReadFirst(c) ==
  {r \in Regs : \E i \in DOMAIN c : r \in Srcs(c[i]) /\ \A j \in 1..i - 1 : c[j].dst # r}

Init ==
  /\ \E bd \in Builds :
       /\ full = bd.full
       /\ source \in [1..MaxCode -> {in \in Instrs : in.op \in bd.ops}]
       /\ \E S \in bd.elseDefs : outDefs = S \cup ReadFirst(source)
  /\ outLive \in SUBSET Reads
  /\ code = source
  /\ seen = source
  /\ dirty = TRUE
  /\ changed = FALSE
  /\ pass = 1
  /\ round = 1

-----------------------------------------------------------------------------
Elsewhere(r, S) == IF r \in S THEN 1 ELSE 0

(* count_regs, on the code that analyze_fn saw.                            *)
Defs(an, r) == Cardinality({i \in DOMAIN an : an[i].dst = r}) + Elsewhere(r, outDefs)

Uses(an, r) ==
  Cardinality({p \in (DOMAIN an) \X {"s1", "s2"} : an[p[1]][p[2]] = r}) + Elsewhere(r, outLive)

(* Each pass goes over the block once, one instruction after the other or  *)
(* the last one first: st.c is the code so far, st.known what the pass has *)
(* noted.                                                                  *)
Edited(st, c) == [st EXCEPT !.c = c]

(* Mutation: the source may have been redefined in between.                *)
ForwardToEnd(c, i) ==
  [k \in DOMAIN c |->
     IF k <= i THEN c[k]
     ELSE [c[k] EXCEPT !.s1 = IF @ = c[i].dst THEN c[i].s1 ELSE @,
                       !.s2 = IF @ = c[i].dst THEN c[i].s1 ELSE @]]

(* forward_copy: up to the instruction that redefines the copied register. *)
ForwardCopy(c, i) ==
  [k \in DOMAIN c |->
     IF k <= i \/ \E j \in i + 1..k - 1 : c[j].dst = c[i].s1 THEN c[k]
     ELSE [c[k] EXCEPT !.s1 = IF @ = c[i].dst THEN c[i].s1 ELSE @,
                       !.s2 = IF @ = c[i].dst THEN c[i].s1 ELSE @]]

(* Mutation: a local in memory is read later than the copy was made.       *)
CopyOfAnything(an, in) ==
  in.op = "move" /\ in.dst # in.s1 /\ Defs(an, in.dst) = 1

(* The copies opt_propagate forwards.                                      *)
Copy(an, in) ==
  /\ in.op = "move" /\ in.dst # in.s1
  /\ Defs(an, in.dst) = 1
  /\ {in.dst, in.s1} \cap Addressed = {}

PropagateStep(an, st, i) ==
  IF Copy(an, st.c[i]) THEN Edited(st, ForwardCopy(st.c, i)) ELSE st

(* cse_find.                                                               *)
Same(e, in) ==
  /\ e.op = in.op
  /\ \/ e.s1 = in.s1 /\ e.s2 = in.s2
     \/ in.op = "mul" /\ e.s1 = in.s2 /\ e.s2 = in.s1

(* Mutation: the entries outlive a redefinition of their result.           *)
KilledSources(known, r) == {e \in known : r \notin {e.s1, e.s2}}

Killed(known, r) == {e \in known : r \notin {e.dst, e.s1, e.s2}}

(* One instruction of cse_block.                                           *)
CseStep(st, i) ==
  LET in == st.c[i]
      cand == in.op \in {"mul", "div"}
      hits == IF cand THEN {e \in st.known : Same(e, in)} ELSE {}
      e == CHOOSE x \in hits : TRUE
      new == IF hits = {} THEN in
             ELSE IF in.dst = e.dst THEN Nop
             ELSE [op |-> "move", dst |-> in.dst, s1 |-> e.dst, s2 |-> NOREG]
      kept == IF in.op = "stp" THEN {} ELSE st.known
      left == IF new.dst = NOREG THEN kept ELSE Killed(kept, new.dst)
  IN [c |-> [st.c EXCEPT ![i] = new],
      known |-> IF cand /\ hits = {} /\ in.dst \notin Srcs(in) THEN left \cup {in} ELSE left]

NextReal(c, i) ==
  {k \in DOMAIN c : k > i /\ c[k].op # "nop" /\ \A j \in i + 1..k - 1 : c[j].op = "nop"}

(* The results that only the copy after them reads.                        *)
Coalescable(an, in) ==
  /\ in.op \in (Deletable \ {"move"}) \cup {"call", "div"}
  /\ Defs(an, in.dst) = 1 /\ Uses(an, in.dst) = 1
  /\ in.dst \notin Addressed

CopyAfter(c, i) ==
  {k \in NextReal(c, i) : c[k].op = "move" /\ c[k].s1 = c[i].dst /\ c[k].dst # c[i].dst}

Merged(c, i) ==
  LET m == CopyAfter(c, i)
  IN [k \in DOMAIN c |->
        IF k \in m THEN Nop
        ELSE IF k = i THEN [c[i] EXCEPT !.dst = c[CHOOSE x \in m : TRUE].dst]
        ELSE c[k]]

CoalesceStep(an, st, i) ==
  IF Coalescable(an, st.c[i]) /\ CopyAfter(st.c, i) # {} THEN Edited(st, Merged(st.c, i)) ELSE st

(* The instructions an elimination may take out: their result is not       *)
(* memory, and computing it does nothing else.                             *)
Removable(in) == in.op \in Deletable /\ in.dst \notin Addressed

(* opt_dce: nobody reads the result.                                       *)
DceStep(st, i) ==
  LET in == st.c[i]
      count(r) == Cardinality({f \in {"s1", "s2"} : in[f] = r})
  IN IF Removable(in) /\ st.known[in.dst] = 0
       THEN [c |-> [st.c EXCEPT ![i] = Nop],
             known |-> [r \in Regs |-> st.known[r] - count(r)]]
       ELSE st

(* live_sweep: the result is not live.                                     *)
LiveStep(st, i) ==
  LET in == st.c[i]
  IN IF Removable(in) /\ in.dst \notin st.known
       THEN [st EXCEPT !.c[i] = Nop]
       ELSE [st EXCEPT !.known = (@ \ {in.dst}) \cup Srcs(in)]

(* Mutation: a call is taken not to change globals.                        *)
ForgetsAtStores == {"stp"}

Forgets == {"call", "stp"}

(* globals_block: known is the register that holds the global's value.     *)
GlobalsStep(an, st, i) ==
  LET in == st.c[i]
      note(r) == IF Defs(an, r) = 1 THEN {r} ELSE {}
  IN CASE in.op \in Forgets -> [st EXCEPT !.known = {}]
       [] in.op = "stg" -> [st EXCEPT !.known = note(in.s1)]
       [] in.op = "ldg" /\ st.known # {} ->
            [st EXCEPT !.c[i] = [op |-> "move", dst |-> in.dst, s2 |-> NOREG,
                                 s1 |-> CHOOSE r \in st.known : TRUE]]
       [] in.op = "ldg" /\ st.known = {} -> [st EXCEPT !.known = note(in.dst)]
       [] OTHER -> st

(* dse_block: the result is overwritten in the block before it is read.    *)
DseStep(st, i) ==
  LET in == st.c[i]
      over == IF in.op = "stp" THEN {} ELSE st.known
  IN IF Removable(in) /\ in.dst \in over
       THEN [c |-> [st.c EXCEPT ![i] = Nop], known |-> over]
       ELSE [c |-> st.c, known |-> (over \cup ({in.dst} \ {NOREG})) \ Srcs(in)]

-----------------------------------------------------------------------------
(* What a pass knows before it starts; the k-th instruction it meets.      *)
Known(p, an) ==
  CASE p = "dce" -> [r \in Regs |-> Uses(an, r)]
    [] p = "live_dce" -> outLive
    [] OTHER -> {}

Step(p, an, st, k) ==
  LET last == MaxCode + 1 - k   \* of a pass that starts at the end
  IN CASE p = "propagate" -> PropagateStep(an, st, k)
       [] p = "cse" -> CseStep(st, k)
       [] p = "coalesce" -> CoalesceStep(an, st, k)
       [] p = "dce" -> DceStep(st, last)
       [] p = "live_dce" -> LiveStep(st, last)
       [] p = "globals" -> GlobalsStep(an, st, k)
       [] p = "dse" -> DseStep(st, last)

(* What one pass makes of the code.                                        *)
Sweep(p, an) ==
  LET sweep[k \in 0..MaxCode] ==
        IF k = 0 THEN [c |-> code, known |-> Known(p, an)] ELSE Step(p, an, sweep[k - 1], k)
  IN sweep
Result(p, an) == Sweep(p, an)[MaxCode].c

Analyzed == IF dirty THEN code ELSE seen

(* One pass of optimize_fn, after analyze_fn where that is due.            *)
RunPass ==
  /\ pass \in DOMAIN Passes
  /\ seen' = Analyzed
  /\ code' = Result(Passes[pass], seen')
  /\ dirty' = (code' # code)
  /\ changed' = (changed \/ dirty')
  /\ pass' = pass + 1
  /\ UNCHANGED <<full, source, outDefs, outLive, round>>

(* Mutation: there is only one round.                                      *)
NoSecondRound == round < 1

RoundsLeft == round < MaxRounds

NextRound ==
  /\ pass = Len(Passes) + 1
  /\ changed /\ RoundsLeft
  /\ round' = round + 1
  /\ pass' = 1
  /\ changed' = FALSE
  /\ UNCHANGED <<full, source, outDefs, outLive, code, seen, dirty>>

Next == RunPass \/ NextRound

Spec == Init /\ [][Next]_vars

-----------------------------------------------------------------------------
TypeOK ==
  /\ full \in BOOLEAN
  /\ {source, code, seen} \subseteq [1..MaxCode -> Instrs \cup {Nop}]
  /\ outDefs \subseteq Regs /\ outLive \subseteq Regs
  /\ dirty \in BOOLEAN /\ changed \in BOOLEAN
  /\ pass \in 1..Len(Passes) + 1
  /\ round \in 1..MaxRounds

(* However the passes follow and feed one another, the block computes what *)
(* it computed before: the values other blocks read, the memory, what each *)
(* call sees and the divisions it makes, whatever object the pointers      *)
(* point to (opt.c:30-48, LANGUAGE.md:440-468).                            *)
MeaningKept ==
  \A alias \in Objects :
    Meaning(alias, code, outLive) = Meaning(alias, source, outLive)

(* Every pass leaves a block of the IR, and one with the same meaning      *)
(* (opt.c:30-48).                                                          *)
BlockOptInv == TypeOK /\ MeaningKept

(* The rounds end because there is nothing left to do, not because the     *)
(* limit is reached: no pass undoes what another one does (opt.c:35-47).   *)
Settles == pass = Len(Passes) + 1 /\ ~RoundsLeft => ~changed
=============================================================================
