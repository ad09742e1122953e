------------------------------ MODULE JumpOpt ------------------------------
(***************************************************************************)
(* The optimizer's passes over jumps, src/ir/opts/cfg.c: unreachable       *)
(* blocks, labels nobody jumps to, jumps to jumps, branches around a jump  *)
(* and jumps to the next instruction, in the rounds of optimize_fn.        *)
(*                                                                         *)
(* opt_jumps works through the code in place, counting down the references *)
(* of the labels as it goes; its loop is one action per instruction.       *)
(***************************************************************************)
EXTENDS Cfg

CONSTANTS
  MaxHops,     \* OPT_MAX_HOPS
  MaxRounds    \* OPT_MAX_ROUNDS

ASSUME LimitsPositive == MaxHops \in Nat /\ MaxRounds \in Nat \ {0}

VARIABLES
  source,    \* the code before the optimizer ran
  code,      \* the code now
  lrefs,     \* OptFn.lrefs
  at,        \* where opt_jumps is; 0 before opt_unreachable has run
  changed,   \* a pass of this round changed something
  round

vars == <<source, code, lrefs, at, changed, round>>

Init ==
  /\ source \in Generated
  /\ code = source
  /\ lrefs = [l \in Labels |-> 0]
  /\ at = 0
  /\ changed = FALSE
  /\ round = 1

(* count_label_refs.                                                       *)
Counted(c) == [l \in Labels |-> Cardinality(JumpsTo(c, l))]

-----------------------------------------------------------------------------
BlockOf(c, k) == CHOOSE b \in Blocks(c) : b <= k /\ k <= Last(c, b)

(* opt_unreachable, and the analysis before opt_jumps.                     *)
Unreachable ==
  /\ at = 0
  /\ code' = [k \in DOMAIN code |->
                IF BlockOf(code, k) \in Reachable(code) \cup {1} \/ k = Len(code)
                  THEN code[k] ELSE Nop]
  /\ lrefs' = Counted(code')
  /\ changed' = (code' # code)
  /\ at' = 1
  /\ UNCHANGED <<source, round>>

(* next_real.                                                              *)
NextReal(c, i) ==
  {k \in DOMAIN c : k > i /\ c[k].op # "nop" /\ \A j \in i + 1..k - 1 : c[j].op = "nop"}

(* skip_labels.                                                            *)
NextInstr(c, i) ==
  {k \in DOMAIN c : /\ k > i /\ c[k].op \notin {"nop", "label"}
                    /\ \A j \in i + 1..k - 1 : c[j].op \in {"nop", "label"}}

(* One hop of thread_jump: the jump that label l leads to at once.         *)
Hop(c, l) ==
  LET nx == {k \in DOMAIN c : /\ c[k].op = "jmp" /\ c[k].to # l
                              /\ \E p \in Places(c, l) : k \in NextInstr(c, p)}
  IN IF nx = {} THEN l ELSE c[CHOOSE k \in nx : TRUE].to

(* Mutation: the new target does not count as a reference.                 *)
RetargetedUncounted(st, i, l) ==
  IF l = st.c[i].to THEN st
  ELSE [c |-> [st.c EXCEPT ![i].to = l],
        refs |-> [st.refs EXCEPT ![st.c[i].to] = @ - 1]]

Retargeted(st, i, l) ==
  IF l = st.c[i].to THEN st
  ELSE [c |-> [st.c EXCEPT ![i].to = l],
        refs |-> [st.refs EXCEPT ![st.c[i].to] = @ - 1, ![l] = @ + 1]]

(* Where label l leads to after one hop, two hops, ...                     *)
Hops(c, l) ==
  LET hop[n \in Nat] == IF n = 0 THEN l ELSE Hop(c, hop[n - 1]) IN hop

(* thread_jump.                                                            *)
Threaded(st, i) == Retargeted(st, i, Hops(st.c, st.c[i].to)[MaxHops])

(* Mutation: the branch is redirected but not inverted.                    *)
SameBranch(op) == op

InverseBranch(op) == IF op = "jz" THEN "jnz" ELSE "jz"

(* flip_branch: a branch over a jump becomes the inverse branch.           *)
Flipped(st, i) ==
  LET over == {k \in NextReal(st.c, i) :
                 /\ st.c[k].op = "jmp"
                 /\ \E m \in NextReal(st.c, k) : st.c[m] = [op |-> "label", to |-> st.c[i].to]}
  IN IF over = {} THEN st
     ELSE LET k == CHOOSE x \in over : TRUE
          IN [c |-> [st.c EXCEPT ![i] = [op |-> InverseBranch(@.op), to |-> st.c[k].to],
                                 ![k] = Nop],
              refs |-> [st.refs EXCEPT ![st.c[i].to] = @ - 1]]

(* jump_to_next: only labels lie between the jump and its target.          *)
NextDropped(st, i) ==
  LET passed == {k \in Places(st.c, st.c[i].to) :
                   /\ k > i
                   /\ \A j \in i + 1..k - 1 : st.c[j].op \in {"nop", "label"}}
  IN IF passed = {} THEN st
     ELSE [c |-> [st.c EXCEPT ![i] = Nop],
           refs |-> [st.refs EXCEPT ![st.c[i].to] = @ - 1]]

(* What one iteration of opt_jumps makes of the instruction.               *)
Worked(st, i) ==
  LET op == st.c[i].op
  IN CASE op = "label" ->
            IF st.refs[st.c[i].to] = 0 THEN [st EXCEPT !.c[i] = Nop] ELSE st
       [] op = "jmp" -> NextDropped(Threaded(st, i), i)
       [] op \in {"jz", "jnz"} -> NextDropped(Flipped(Threaded(st, i), i), i)
       [] OTHER -> st

JumpStep ==
  /\ at \in 1..Len(code) - 1
  /\ LET st == Worked([c |-> code, refs |-> lrefs], at)
     IN code' = st.c /\ lrefs' = st.refs
  /\ changed' = (changed \/ code' # code)
  /\ at' = at + 1
  /\ UNCHANGED <<source, round>>

(* Mutation: the limit is one round.                                      *)
NoSecondRound == round < 1

RoundsLeft == round < MaxRounds

NextRound ==
  /\ at = Len(code)
  /\ changed /\ RoundsLeft
  /\ at' = 0
  /\ round' = round + 1
  /\ UNCHANGED <<source, code, lrefs, changed>>

Next == Unreachable \/ JumpStep \/ NextRound

Spec == Init /\ [][Next]_vars

-----------------------------------------------------------------------------
TypeOK ==
  /\ source \in Generated
  /\ code \in [1..MaxCode -> Instr]
  /\ lrefs \in [Labels -> Nat]
  /\ at \in 0..MaxCode
  /\ changed \in BOOLEAN
  /\ round \in 1..MaxRounds

(* Whatever the conditions are, the same instructions are executed in the  *)
(* same order as in the source, after every single rewriting               *)
(* (opts/cfg.c:5-111).                                                     *)
FlowKept ==
  \A p \in {0} \cup {k \in DOMAIN code : code[k].op = "ins"} :
    \A nu \in [Branches(source) -> BOOLEAN] :
      NextEffect(code, p + 1, nu) = NextEffect(source, p + 1, nu)

(* While opt_jumps runs, a label's count is the number of jumps to it, and *)
(* no jump is left without its label: the counts decide which labels are   *)
(* deleted (opts/cfg.c:29-111, utils.c:11-16).                             *)
RefsExact ==
  /\ at > 0 => lrefs = Counted(code)
  /\ \A l \in Labels : JumpsTo(code, l) # {} => Cardinality(Places(code, l)) = 1

(* The control flow graph of every code the passes produce is exact.       *)
GraphExact == CfgExact(code)

(* What the passes decide by, the counts of the labels and the graph, is   *)
(* exact in every code they make (opts/cfg.c:29-111, ir/cfg.c:6-110).        *)
TablesExact == RefsExact /\ GraphExact

(* Jumps that lead to jumps in a circle do not keep the rounds going: they *)
(* end because nothing is left to do (opt.c:35-47, opts/cfg.c:52-74).      *)
Settles == at = Len(code) /\ ~RoundsLeft => ~changed
=============================================================================
