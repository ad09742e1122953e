-------------------------------- MODULE Cfg --------------------------------
(***************************************************************************)
(* Intermediate code as its flow of control sees it (src/ir/ir.h): labels, *)
(* jumps, returns, and instructions that do something; and the control     *)
(* flow graph of a function, src/ir/cfg.c: how its code is cut into        *)
(* blocks, which block may follow which, and which are reachable.          *)
(* An instruction that was taken out is a nop in its place; a block is     *)
(* named by the position of its first instruction.                         *)
(***************************************************************************)
EXTENDS Integers, Sequences, FiniteSets

CONSTANTS
  Labels,    \* the labels of the function
  MaxCode,   \* bound: its number of instructions
  NOLABEL

ASSUME MaxCodePositive == MaxCode \in Nat \ {0}

Jumps == {"jmp", "jz", "jnz"}

Instr ==
  [op : {"label"} \cup Jumps, to : Labels] \cup [op : {"ins", "ret", "nop"}, to : {NOLABEL}]

Nop == [op |-> "nop", to |-> NOLABEL]

Places(c, l) == {k \in DOMAIN c : c[k] = [op |-> "label", to |-> l]}

JumpsTo(c, l) == {k \in DOMAIN c : c[k].op \in Jumps /\ c[k].to = l}

(* What the generator emits: every label of a jump is in the code, once,   *)
(* and the last instruction is a return (fn_end).                          *)
Generated ==
  {c \in [1..MaxCode -> Instr \ {Nop}] :
     /\ c[MaxCode].op = "ret"
     /\ \A l \in Labels : /\ Cardinality(Places(c, l)) <= 1
                          /\ JumpsTo(c, l) # {} => Places(c, l) # {}}

(* Where control goes after instruction k when the branch there finds nu[k]*)
(* in its condition.                                                       *)
Goes(c, k, nu) ==
  LET taken == \/ c[k].op = "jmp"
               \/ c[k].op = "jz" /\ ~nu[k]
               \/ c[k].op = "jnz" /\ nu[k]
  IN IF taken THEN CHOOSE p \in Places(c, c[k].to) : TRUE ELSE k + 1

Effects(c) == {k \in DOMAIN c : c[k].op \in {"ins", "ret"}}

(* Where control is after n steps from k, with the conditions as they are, *)
(* when it stops at an instruction with an effect.                         *)
Walk(c, k, nu) ==
  LET walk[n \in Nat] ==
        IF n = 0 THEN k
        ELSE LET p == walk[n - 1] IN IF p \in Effects(c) THEN p ELSE Goes(c, p, nu)
  IN walk

(* The first instruction with an effect that control meets from k on; 0 if *)
(* it goes round in a circle without one.                                  *)
NextEffect(c, k, nu) ==
  LET end == Walk(c, k, nu)[Len(c)] IN IF end \in Effects(c) THEN end ELSE 0

Branches(c) == {k \in DOMAIN c : c[k].op \in {"jz", "jnz"}}

-----------------------------------------------------------------------------
(* Mutation: a label after ordinary code does not start a block.           *)
StartsAfterJump(c, k) == k = 1 \/ c[k - 1].op \in Jumps \cup {"ret"}

(* starts_block.                                                           *)
StartsBlock(c, k) ==
  \/ k = 1
  \/ c[k - 1].op \in Jumps \cup {"ret"}
  \/ c[k].op = "label"

(* cfg_fill_blocks.                                                        *)
Blocks(c) == {k \in DOMAIN c : StartsBlock(c, k)}

(* The last instruction of block b.                                        *)
Last(c, b) ==
  CHOOSE k \in DOMAIN c :
    /\ k >= b
    /\ \A j \in b + 1..k : ~StartsBlock(c, j)
    /\ k = Len(c) \/ StartsBlock(c, k + 1)

(* cfg_label_block: the blocks that begin with label l.                    *)
LabelBlock(c, l) == {b \in Blocks(c) : c[b] = [op |-> "label", to |-> l]}

(* cfg_build_edges.                                                        *)
Succ(c, b) ==
  LET k == Last(c, b)
      falls == IF c[k].op \notin {"jmp", "ret"} /\ k < Len(c) THEN {k + 1} ELSE {}
      jumps == IF c[k].op \in Jumps THEN LabelBlock(c, c[k].to) ELSE {}
  IN falls \cup jumps

(* cfg_mark_reachable: the entry and what follows a block of the set.      *)
Reachable(c) ==
  LET succ == [b \in Blocks(c) |-> Succ(c, b)]
      Closed == {R \in SUBSET Blocks(c) : 1 \in R /\ \A b \in R : succ[b] \subseteq R}
  IN {b \in Blocks(c) : \A R \in Closed : b \in R}

-----------------------------------------------------------------------------
(* The graph says about the code what executing it would: control enters a *)
(* block at its first instruction only, and goes from one block to another *)
(* exactly along the edges, the jumps being decided either way             *)
(* (cfg.c:6-110).                                                          *)
CfgExact(c) ==
  /\ \A k \in DOMAIN c : c[k].op \in Jumps => Places(c, c[k].to) \subseteq Blocks(c)
  /\ \A b \in Blocks(c) :
       LET k == Last(c, b)
       IN Succ(c, b) =
            IF c[k].op = "ret" THEN {}
            ELSE {Goes(c, k, [j \in DOMAIN c |-> v]) : v \in BOOLEAN} \cap DOMAIN c
=============================================================================
