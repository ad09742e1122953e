---------------------------- MODULE AllocProofs ----------------------------
(***************************************************************************)
(* Register allocation around one function: what the sweep over a block,   *)
(* the painting and the scratch loop give the emission, for every block,   *)
(* every set of registers and every painter that keeps the contract of     *)
(* ProperColoring; and where callee-saved registers are saved, for every   *)
(* control flow graph.                                                     *)
(***************************************************************************)
EXTENDS BlockAlloc, ShrinkWrap, SequenceTheorems, FiniteSetTheorems, TLAPS

(* An instruction writes and reads registers of the function.              *)
LEMMA InstrShape ==
  ASSUME NEW in \in Instrs
  PROVE  /\ in.dst \in Vregs /\ Srcs(in) \subseteq Vregs
         /\ in.op \in {"neg", "shift", "div", "divc"}
         /\ NeedsMask(in) \subseteq Caller
<1>1. in.op \in {"neg", "shift", "div", "divc"} /\ in.dst \in Vregs
  BY OpsKnown DEF Instrs
<1>2. Srcs(in) \subseteq Vregs
  BY DEF Instrs, Srcs
<1>3. NeedsMask(in) \subseteq Caller
  BY <1>1 DEF NeedsMask, Caller
<1> QED
  BY <1>1, <1>2, <1>3

(* The code with an instruction before it.                                 *)
LEMMA InstrBefore ==
  ASSUME NEW in \in Instrs, code \in Seq(Instrs), code' = <<in>> \o code
  PROVE  /\ Len(code) \in Nat /\ code' \in Seq(Instrs) /\ Len(code') = Len(code) + 1
         /\ DOMAIN code = 1..Len(code) /\ DOMAIN code' = 1..Len(code) + 1
         /\ code'[1] = in
         /\ \A k \in 1..Len(code) : code[k] \in Instrs
         /\ \A k \in 1..Len(code) : code'[k + 1] = code[k]
         /\ \A k \in 2..Len(code) + 1 : code'[k] = code[k - 1]
<1>1. <<in>> \in Seq(Instrs) /\ Len(<<in>>) = 1 /\ <<in>>[1] = in
  OBVIOUS
<1>2. /\ Len(code) \in Nat /\ code' \in Seq(Instrs) /\ Len(code') = 1 + Len(code)
      /\ \A k \in 1..1 + Len(code) : code'[k] = IF k <= 1 THEN <<in>>[k] ELSE code[k - 1]
  BY <1>1, ConcatProperties
<1> QED
  BY <1>1, <1>2

(* What is live after an instruction does not change when one is found in  *)
(* front of it, and LiveBefore is what is live before that one.            *)
LEMMA LiveAfterMoves ==
  ASSUME NEW in \in Instrs, code \in Seq(Instrs), code' = <<in>> \o code, out' = out
  PROVE  /\ \A k \in 0..Len(code) : LiveAfter(k + 1)' = LiveAfter(k)
         /\ LiveAfter(0)' = (LiveAfter(0) \ {in.dst}) \cup Srcs(in)
<1> DEFINE L == Len(code)
<1>1. /\ L \in Nat /\ Len(code') = L + 1 /\ code'[1] = in
      /\ \A k \in 1..L : code[k] \in Instrs
      /\ \A k \in 1..L : code'[k + 1] = code[k]
      /\ \A k \in 2..L + 1 : code'[k] = code[k - 1]
  BY InstrBefore
<1>2. \A k : LiveAfter(k)' =
        {v \in Vregs :
           \/ v \in out /\ \A j \in k + 1..Len(code') : code'[j].dst # v
           \/ \E j \in k + 1..Len(code') :
                v \in Srcs(code'[j]) /\ \A i \in k + 1..j - 1 : code'[i].dst # v}
  BY DEF LiveAfter, Srcs
<1> HIDE DEF L
<1>3. ASSUME NEW k \in 0..L, NEW v
      PROVE  /\ (\A j \in k + 2..L + 1 : code'[j].dst # v) <=> (\A j \in k + 1..L : code[j].dst # v)
             /\ (\E j \in k + 2..L + 1 : v \in Srcs(code'[j]) /\ \A i \in k + 2..j - 1 : code'[i].dst # v)
                  <=> (\E j \in k + 1..L : v \in Srcs(code[j]) /\ \A i \in k + 1..j - 1 : code[i].dst # v)
  <2>1. ASSUME NEW m \in 1..L + 1, NEW n \in 1..L + 2, m = n - 1, k + 1 <= n - 1
        PROVE  (\A i \in k + 2..n - 1 : code'[i].dst # v) <=> (\A i \in k + 1..m - 1 : code[i].dst # v)
    <3>1. ASSUME \A i \in k + 2..n - 1 : code'[i].dst # v, NEW i \in k + 1..m - 1
          PROVE  code[i].dst # v
      <4>1. i + 1 \in k + 2..n - 1 /\ i \in 1..L
        BY <1>1, <2>1
      <4> QED
        BY <1>1, <3>1, <4>1
    <3>2. ASSUME \A i \in k + 1..m - 1 : code[i].dst # v, NEW i \in k + 2..n - 1
          PROVE  code'[i].dst # v
      <4>1. i - 1 \in k + 1..m - 1 /\ i \in 2..L + 1
        BY <1>1, <2>1
      <4> QED
        BY <1>1, <3>2, <4>1
    <3> QED
      BY <3>1, <3>2
  <2>2. (\A j \in k + 2..L + 1 : code'[j].dst # v) <=> (\A j \in k + 1..L : code[j].dst # v)
    <3>1. L + 1 \in 1..L + 1 /\ L + 2 \in 1..L + 2 /\ L + 1 = (L + 2) - 1 /\ k + 1 <= (L + 2) - 1
          /\ (L + 1) - 1 = L
      BY <1>1
    <3> QED
      BY <2>1, <3>1
  <2>3. ASSUME NEW j \in k + 2..L + 1, v \in Srcs(code'[j]), \A i \in k + 2..j - 1 : code'[i].dst # v
        PROVE  \E n \in k + 1..L : v \in Srcs(code[n]) /\ \A i \in k + 1..n - 1 : code[i].dst # v
    <3>1. /\ j - 1 \in k + 1..L /\ j - 1 \in 1..L + 1 /\ j \in 1..L + 2 /\ k + 1 <= j - 1
          /\ j \in 2..L + 1
      BY <1>1
    <3>2. \A i \in k + 1..(j - 1) - 1 : code[i].dst # v
      BY <2>1, <2>3, <3>1
    <3>3. code'[j] = code[j - 1]
      BY <1>1, <3>1
    <3> QED
      BY <2>3, <3>1, <3>2, <3>3
  <2>4. ASSUME NEW j \in k + 1..L, v \in Srcs(code[j]), \A i \in k + 1..j - 1 : code[i].dst # v
        PROVE  \E n \in k + 2..L + 1 : v \in Srcs(code'[n]) /\ \A i \in k + 2..n - 1 : code'[i].dst # v
    <3>1. /\ j + 1 \in k + 2..L + 1 /\ j \in 1..L + 1 /\ j + 1 \in 1..L + 2 /\ k + 1 <= (j + 1) - 1
          /\ j \in 1..L /\ j = (j + 1) - 1
      BY <1>1
    <3>2. \A i \in k + 2..(j + 1) - 1 : code'[i].dst # v
      BY <2>1, <2>4, <3>1
    <3>3. code'[j + 1] = code[j]
      BY <1>1, <3>1
    <3> QED
      BY <2>4, <3>1, <3>2, <3>3
  <2> QED
    BY <2>2, <2>3, <2>4
<1>4. ASSUME NEW k \in 0..L PROVE LiveAfter(k + 1)' = LiveAfter(k)
  <2>1. (k + 1) + 1 = k + 2
    BY <1>1
  <2>2. LiveAfter(k + 1)' =
          {v \in Vregs :
             \/ v \in out /\ \A j \in k + 2..L + 1 : code'[j].dst # v
             \/ \E j \in k + 2..L + 1 :
                  v \in Srcs(code'[j]) /\ \A i \in k + 2..j - 1 : code'[i].dst # v}
    BY <1>1, <1>2, <2>1
  <2>3. LiveAfter(k) =
          {v \in Vregs :
             \/ v \in out /\ \A j \in k + 1..L : code[j].dst # v
             \/ \E j \in k + 1..L :
                  v \in Srcs(code[j]) /\ \A i \in k + 1..j - 1 : code[i].dst # v}
    BY DEF LiveAfter, L
  <2>4. ASSUME NEW v \in Vregs PROVE v \in LiveAfter(k + 1)' <=> v \in LiveAfter(k)
    <3>1. v \in LiveAfter(k + 1)' <=>
             \/ v \in out /\ \A j \in k + 2..L + 1 : code'[j].dst # v
             \/ \E j \in k + 2..L + 1 :
                  v \in Srcs(code'[j]) /\ \A i \in k + 2..j - 1 : code'[i].dst # v
      BY <2>2
    <3>2. v \in LiveAfter(k) <=>
             \/ v \in out /\ \A j \in k + 1..L : code[j].dst # v
             \/ \E j \in k + 1..L :
                  v \in Srcs(code[j]) /\ \A i \in k + 1..j - 1 : code[i].dst # v
      BY <2>3
    <3> QED
      BY <1>3, <3>1, <3>2
  <2> QED
    BY <2>2, <2>3, <2>4
<1>5. LiveAfter(0)' = (LiveAfter(0) \ {in.dst}) \cup Srcs(in)
  <2>1. Srcs(in) \subseteq Vregs
    BY InstrShape
  <2>2. ASSUME NEW v \in Vregs
        PROVE  v \in LiveAfter(0)' <=> v \in Srcs(in) \/ (v # in.dst /\ v \in LiveAfter(1)')
    <3>0. 0 + 1..Len(code') = 1..L + 1 /\ 1 + 1..Len(code') = 2..L + 1
          /\ \A j : 0 + 1..j - 1 = 1..j - 1 /\ 1 + 1..j - 1 = 2..j - 1
      BY <1>1
    <3>1. v \in LiveAfter(0)' <=>
            \/ v \in out /\ \A j \in 1..L + 1 : code'[j].dst # v
            \/ \E j \in 1..L + 1 : v \in Srcs(code'[j]) /\ \A i \in 1..j - 1 : code'[i].dst # v
      <4>1. v \in LiveAfter(0)' <=>
              \/ v \in out /\ \A j \in 0 + 1..Len(code') : code'[j].dst # v
              \/ \E j \in 0 + 1..Len(code') :
                   v \in Srcs(code'[j]) /\ \A i \in 0 + 1..j - 1 : code'[i].dst # v
        BY DEF LiveAfter, Srcs
      <4> QED
        BY <3>0, <4>1
    <3>2. v \in LiveAfter(1)' <=>
            \/ v \in out /\ \A j \in 2..L + 1 : code'[j].dst # v
            \/ \E j \in 2..L + 1 : v \in Srcs(code'[j]) /\ \A i \in 2..j - 1 : code'[i].dst # v
      <4>1. v \in LiveAfter(1)' <=>
              \/ v \in out /\ \A j \in 1 + 1..Len(code') : code'[j].dst # v
              \/ \E j \in 1 + 1..Len(code') :
                   v \in Srcs(code'[j]) /\ \A i \in 1 + 1..j - 1 : code'[i].dst # v
        BY DEF LiveAfter, Srcs
      <4> QED
        BY <3>0, <4>1
    <3>3. \A n \in 1..L + 1 : (\A i \in 1..n : code'[i].dst # v)
                                <=> in.dst # v /\ \A i \in 2..n : code'[i].dst # v
      <4> SUFFICES ASSUME NEW n \in 1..L + 1
                   PROVE  (\A i \in 1..n : code'[i].dst # v)
                            <=> in.dst # v /\ \A i \in 2..n : code'[i].dst # v
        OBVIOUS
      <4>1. 1 \in 1..n /\ \A i \in 1..n : i = 1 \/ i \in 2..n
        BY <1>1
      <4>2. \A i \in 2..n : i \in 1..n
        BY <1>1
      <4> QED
        BY <1>1, <4>1, <4>2
    <3>4. (\A j \in 1..L + 1 : code'[j].dst # v)
            <=> in.dst # v /\ \A j \in 2..L + 1 : code'[j].dst # v
      <4>1. L + 1 \in 1..L + 1
        BY <1>1
      <4> QED
        BY <3>3, <4>1
    <3>5. ASSUME NEW j \in 2..L + 1
          PROVE  (\A i \in 1..j - 1 : code'[i].dst # v)
                   <=> in.dst # v /\ \A i \in 2..j - 1 : code'[i].dst # v
      <4>1. j - 1 \in 1..L + 1
        BY <1>1
      <4> QED
        BY <3>3, <4>1
    <3>6. (\E j \in 1..L + 1 : v \in Srcs(code'[j]) /\ \A i \in 1..j - 1 : code'[i].dst # v)
            <=> \/ v \in Srcs(in)
                \/ in.dst # v /\ \E j \in 2..L + 1 : v \in Srcs(code'[j])
                                     /\ \A i \in 2..j - 1 : code'[i].dst # v
      <4>1. ASSUME NEW j \in 1..L + 1, v \in Srcs(code'[j]), \A i \in 1..j - 1 : code'[i].dst # v
            PROVE  \/ v \in Srcs(in)
                   \/ in.dst # v /\ \E n \in 2..L + 1 : v \in Srcs(code'[n])
                                        /\ \A i \in 2..n - 1 : code'[i].dst # v
        <5>1. CASE j = 1
          BY <1>1, <4>1, <5>1
        <5>2. CASE j # 1
          <6>1. j \in 2..L + 1
            BY <1>1, <5>2
          <6> QED
            BY <3>5, <4>1, <6>1
        <5> QED
          BY <5>1, <5>2
      <4>2. ASSUME v \in Srcs(in)
            PROVE  \E j \in 1..L + 1 : v \in Srcs(code'[j]) /\ \A i \in 1..j - 1 : code'[i].dst # v
        <5>1. 1 \in 1..L + 1 /\ \A i \in 1..1 - 1 : FALSE
          BY <1>1
        <5> QED
          BY <1>1, <4>2, <5>1
      <4>3. ASSUME in.dst # v, NEW j \in 2..L + 1, v \in Srcs(code'[j]),
                   \A i \in 2..j - 1 : code'[i].dst # v
            PROVE  \E n \in 1..L + 1 : v \in Srcs(code'[n]) /\ \A i \in 1..n - 1 : code'[i].dst # v
        <5>1. j \in 1..L + 1
          BY <1>1
        <5> QED
          BY <3>5, <4>3, <5>1
      <4> QED
        BY <4>1, <4>2, <4>3
    <3> QED
      BY <3>1, <3>2, <3>4, <3>6
  <2>3. LiveAfter(1)' = LiveAfter(0)
    <3>1. 0 \in 0..L /\ 0 + 1 = 1
      BY <1>1
    <3> QED
      BY <1>4, <3>1
  <2>4. LiveAfter(0)' \subseteq Vregs /\ LiveAfter(0) \subseteq Vregs
    BY <1>2 DEF LiveAfter
  <2> QED
    BY <2>1, <2>2, <2>3, <2>4
<1> QED
  BY <1>4, <1>5 DEF L
-----------------------------------------------------------------------------
(* A result is linked with all that lives across its instruction.          *)
ResultsLinked == \A k \in DOMAIN code : \A v \in Through(k) : v \in edge[code[k].dst]

(* What is live at one point is linked, or will be when the sweep goes on: *)
(* it is live where the sweep stands.                                      *)
LiveLinked ==
  \A k \in 0..Len(code) : \A v, w \in LiveAfter(k) :
    v # w => w \in edge[v] \/ (~swept /\ v \in live /\ w \in live)

(* What an instruction destroys is forbidden to all that lives across it.  *)
MasksBanned == \A k \in DOMAIN code : \A v \in Through(k) : NeedsMask(code[k]) \subseteq ban[v]

(* A painting keeps the contract, and one that is accepted needs no more   *)
(* scratch registers than were kept.                                       *)
Painted ==
  /\ status \in {"open", "painted", "done"}
  /\ ~swept => status = "open"
  /\ status # "open" => PC!Proper(home)
  /\ status = "done" => ~BlockNeeds(s + 1)

AllocInv == TypeOK /\ SweptLive /\ ResultsLinked /\ LiveLinked /\ MasksBanned /\ Painted

(* Linking two sets of registers keeps the graph a graph.                  *)
LEMMA LinkedGraph ==
  ASSUME NEW g \in PC!Graphs, NEW S \in SUBSET Vregs, NEW T \in SUBSET Vregs
  PROVE  /\ Linked(g, S, T) \in PC!Graphs
         /\ \A v \in Vregs : g[v] \subseteq Linked(g, S, T)[v]
         /\ \A v \in S : \A w \in T : v # w => w \in Linked(g, S, T)[v] /\ v \in Linked(g, S, T)[w]
<1>1. g \in [Vregs -> SUBSET Vregs]
      /\ \A m, n \in Vregs : n \notin g[n] /\ (m \in g[n] <=> n \in g[m])
  BY DEF PC!Graphs
<1>2. \A v \in Vregs : Linked(g, S, T)[v] =
        g[v] \cup {w \in Vregs \ {v} : (v \in S /\ w \in T) \/ (v \in T /\ w \in S)}
  BY DEF Linked
<1>3. Linked(g, S, T) \in [Vregs -> SUBSET Vregs]
  BY <1>1 DEF Linked
<1>4. ASSUME NEW m \in Vregs, NEW n \in Vregs
      PROVE  n \notin Linked(g, S, T)[n] /\ (m \in Linked(g, S, T)[n] <=> n \in Linked(g, S, T)[m])
  BY <1>1, <1>2
<1>5. Linked(g, S, T) \in PC!Graphs
  BY <1>3, <1>4 DEF PC!Graphs
<1> QED
  BY <1>2, <1>5

(* As long as the code stays, so does what is live in it.                  *)
LEMMA LiveAfterStays ==
  ASSUME UNCHANGED <<code, out>>
  PROVE  \A k : LiveAfter(k)' = LiveAfter(k) /\ Through(k)' = Through(k)
  BY DEF LiveAfter, Srcs, Through

(* Before the sweep there is no code and no interference.                  *)
LEMMA AllocInvInit == Init => AllocInv
<1> SUFFICES ASSUME Init PROVE AllocInv
  OBVIOUS
<1>1. Len(code) = 0 /\ DOMAIN code = {} /\ code \in Seq(Instrs)
  BY DEF Init
<1>2. LiveAfter(0) = out
  <2>1. 0 + 1..Len(code) = {}
    BY <1>1
  <2> QED
    BY <2>1 DEF LiveAfter, Init
<1>3. edge \in PC!Graphs
  BY DEF Init, PC!Graphs
<1>4. Len(Scratch) \in Nat
  BY ScratchKnown
<1>5. home \in [Vregs -> Regs \cup {SPILL}]
  BY DEF Init, PC!Blank
<1>6. ban \in [Vregs -> SUBSET Regs]
  BY DEF Init
<1>7. 0 \in 0..Len(Scratch)
  BY <1>4
<1>8. MaxCode \in Nat
  BY CodeBounded
<1>9. TypeOK
  BY <1>1, <1>3, <1>5, <1>6, <1>7, <1>8 DEF Init, TypeOK
<1>10. LiveLinked
  BY <1>1, <1>2 DEF Init, LiveLinked
<1> QED
  BY <1>1, <1>2, <1>9, <1>10 DEF AllocInv, Init, SweptLive, ResultsLinked, MasksBanned, Painted

(* One more instruction is swept.                                          *)
LEMMA SweepKeeps == AllocInv /\ SweepInstr => AllocInv'
<1> SUFFICES ASSUME AllocInv, SweepInstr PROVE AllocInv'
  OBVIOUS
<1>1. /\ ~swept /\ Len(code) < MaxCode /\ out' = out /\ swept' = swept /\ s' = s
      /\ status' = status /\ home' = home
  BY DEF SweepInstr
<1>2. PICK in \in Instrs :
        /\ code' = <<in>> \o code
        /\ edge' = LinkedWithDst(in)
        /\ ban' = Masked(in)
        /\ live' = LiveBefore(in)
  BY DEF SweepInstr
<1>3. /\ code \in Seq(Instrs) /\ live \subseteq Vregs /\ out \subseteq Vregs /\ edge \in PC!Graphs
      /\ ban \in [Vregs -> SUBSET Regs] /\ live = LiveAfter(0)
  BY DEF AllocInv, TypeOK, SweptLive
<1>4. /\ Len(code) \in Nat /\ code' \in Seq(Instrs) /\ Len(code') = Len(code) + 1
      /\ DOMAIN code = 1..Len(code) /\ DOMAIN code' = 1..Len(code) + 1
      /\ code'[1] = in
      /\ \A k \in 1..Len(code) : code[k] \in Instrs
      /\ \A k \in 2..Len(code) + 1 : code'[k] = code[k - 1]
  BY <1>2, <1>3, InstrBefore
<1>5. /\ \A k \in 0..Len(code) : LiveAfter(k + 1)' = LiveAfter(k)
      /\ LiveAfter(0)' = (live \ {in.dst}) \cup Srcs(in)
  BY <1>1, <1>2, <1>3, LiveAfterMoves
<1>6. \A k \in 1..Len(code) + 1 : LiveAfter(k)' = LiveAfter(k - 1)
  <2> TAKE k \in 1..Len(code) + 1
  <2>1. k - 1 \in 0..Len(code) /\ (k - 1) + 1 = k
    BY <1>4
  <2>2. LiveAfter((k - 1) + 1)' = LiveAfter(k - 1)
    BY <1>5, <2>1
  <2> QED
    BY <2>1, <2>2
<1>7. live' = LiveAfter(0)'
  BY <1>2, <1>5 DEF LiveBefore
<1>8. in.dst \in Vregs /\ Srcs(in) \subseteq Vregs /\ NeedsMask(in) \subseteq Regs
  BY InstrShape DEF Regs
<1>9. /\ edge' \in PC!Graphs
      /\ \A v \in Vregs : edge[v] \subseteq edge'[v]
      /\ \A w \in live : in.dst # w => w \in edge'[in.dst] /\ in.dst \in edge'[w]
  <2>1. edge' = Linked(edge, {in.dst}, live) /\ {in.dst} \in SUBSET Vregs /\ live \in SUBSET Vregs
    BY <1>2, <1>3, <1>8 DEF LinkedWithDst
  <2> QED
    BY <1>3, <2>1, LinkedGraph
<1>10. /\ ban' \in [Vregs -> SUBSET Regs]
       /\ \A v \in Vregs : ban[v] \subseteq ban'[v]
       /\ \A v \in live \ {in.dst} : NeedsMask(in) \subseteq ban'[v]
  BY <1>2, <1>3, <1>8 DEF Masked
<1>11. TypeOK'
  BY <1>1, <1>2, <1>3, <1>4, <1>8, <1>9, <1>10, CodeBounded DEF AllocInv, TypeOK, LiveBefore
<1>12. ASSUME NEW k \in 1..Len(code) + 1
       PROVE  /\ k = 1 => code'[k] = in /\ Through(k)' = live \ {in.dst}
              /\ k # 1 => /\ k - 1 \in 1..Len(code) /\ code'[k] = code[k - 1]
                          /\ Through(k)' = Through(k - 1) /\ code[k - 1] \in Instrs
  <2>1. Through(k)' = LiveAfter(k)' \ {code'[k].dst}
    BY DEF Through
  <2>2. LiveAfter(k)' = LiveAfter(k - 1)
    BY <1>6
  <2>3. CASE k = 1
    <3>1. LiveAfter(k)' = live
      BY <1>3, <2>2, <2>3
    <3> QED
      BY <1>4, <2>1, <2>3, <3>1
  <2>4. CASE k # 1
    <3>1. k - 1 \in 1..Len(code) /\ k \in 2..Len(code) + 1
      BY <1>4, <2>4
    <3>2. code'[k] = code[k - 1] /\ code[k - 1] \in Instrs
      BY <1>4, <3>1
    <3> QED
      BY <2>1, <2>2, <2>4, <3>1, <3>2 DEF Through
  <2> QED
    BY <2>3, <2>4
<1>13. \A k \in DOMAIN code : Through(k) \subseteq Vregs /\ code[k].dst \in Vregs
  BY <1>4, InstrShape DEF Through, LiveAfter
<1>14. ResultsLinked'
  <2> SUFFICES ASSUME NEW k \in DOMAIN code', NEW v \in Through(k)'
               PROVE  v \in edge'[code'[k].dst]
    BY DEF ResultsLinked
  <2>1. k \in 1..Len(code) + 1
    BY <1>4
  <2>2. CASE k = 1
    BY <1>9, <1>12, <2>1, <2>2
  <2>3. CASE k # 1
    <3>1. k - 1 \in DOMAIN code /\ v \in Through(k - 1) /\ code'[k] = code[k - 1]
      BY <1>4, <1>12, <2>1, <2>3
    <3>2. v \in edge[code[k - 1].dst] /\ code[k - 1].dst \in Vregs
      BY <1>13, <3>1 DEF AllocInv, ResultsLinked
    <3> QED
      BY <1>9, <3>1, <3>2
  <2> QED
    BY <2>2, <2>3
<1>15. MasksBanned'
  <2> SUFFICES ASSUME NEW k \in DOMAIN code', NEW v \in Through(k)'
               PROVE  NeedsMask(code'[k]) \subseteq ban'[v]
    BY DEF MasksBanned, NeedsMask
  <2>1. k \in 1..Len(code) + 1
    BY <1>4
  <2>2. CASE k = 1
    BY <1>10, <1>12, <2>1, <2>2
  <2>3. CASE k # 1
    <3>1. k - 1 \in DOMAIN code /\ v \in Through(k - 1) /\ code'[k] = code[k - 1]
      BY <1>4, <1>12, <2>1, <2>3
    <3>2. NeedsMask(code[k - 1]) \subseteq ban[v] /\ v \in Vregs
      BY <1>13, <3>1 DEF AllocInv, MasksBanned
    <3> QED
      BY <1>10, <3>1, <3>2
  <2> QED
    BY <2>2, <2>3
<1>16. LiveLinked'
  <2> SUFFICES ASSUME NEW k \in 0..Len(code'), NEW v \in LiveAfter(k)', NEW w \in LiveAfter(k)',
                      v # w, ~(v \in live' /\ w \in live')
               PROVE  w \in edge'[v]
    BY <1>1 DEF LiveLinked
  <2>1. k # 0
    BY <1>7
  <2>2. k \in 1..Len(code) + 1 /\ k - 1 \in 0..Len(code)
    BY <1>4, <2>1
  <2>3. v \in LiveAfter(k - 1) /\ w \in LiveAfter(k - 1)
    BY <1>6, <2>2
  <2>4. v \in Vregs /\ w \in Vregs
    BY <2>3 DEF LiveAfter
  <2>5. w \in edge[v] \/ (v \in live /\ w \in live)
    BY <2>2, <2>3 DEF AllocInv, LiveLinked
  <2>6. CASE w \in edge[v]
    BY <1>9, <2>4, <2>6
  <2>7. CASE v \in live /\ w \in live
    <3>1. v = in.dst \/ w = in.dst
      BY <1>2, <2>7 DEF LiveBefore
    <3> QED
      BY <1>9, <2>7, <3>1
  <2> QED
    BY <2>5, <2>6, <2>7
<1>17. Painted'
  BY <1>1 DEF AllocInv, Painted
<1> QED
  BY <1>7, <1>11, <1>14, <1>15, <1>16, <1>17 DEF AllocInv, SweptLive

(* The sweep ends: what is live on entry is linked.                        *)
LEMMA SweepDoneKeeps == AllocInv /\ SweepDone => AllocInv'
<1> SUFFICES ASSUME AllocInv, SweepDone PROVE AllocInv'
  OBVIOUS
<1>1. /\ ~swept /\ swept' = TRUE /\ edge' = Linked(edge, live, live)
      /\ code' = code /\ out' = out /\ live' = live /\ ban' = ban /\ s' = s
      /\ status' = status /\ home' = home
  BY DEF SweepDone
<1>2. \A k : LiveAfter(k)' = LiveAfter(k) /\ Through(k)' = Through(k)
  BY <1>1, LiveAfterStays
<1>3. edge \in PC!Graphs /\ live \subseteq Vregs /\ code \in Seq(Instrs)
  BY DEF AllocInv, TypeOK
<1>4. /\ edge' \in PC!Graphs
      /\ \A v \in Vregs : edge[v] \subseteq edge'[v]
      /\ \A v \in live : \A w \in live : v # w => w \in edge'[v]
  BY <1>1, <1>3, LinkedGraph
<1>5. TypeOK'
  BY <1>1, <1>4 DEF AllocInv, TypeOK
<1>6. SweptLive'
  <2>1. LiveAfter(0)' = LiveAfter(0)
    BY <1>2
  <2> QED
    BY <1>1, <2>1 DEF AllocInv, SweptLive
<1>7. \A k \in DOMAIN code : code[k].dst \in Vregs
  BY <1>3, InstrShape
<1>8. ResultsLinked'
  <2> SUFFICES ASSUME NEW k \in DOMAIN code, NEW v \in Through(k)' PROVE v \in edge'[code[k].dst]
    BY <1>1 DEF ResultsLinked
  <2>1. v \in edge[code[k].dst]
    BY <1>2 DEF AllocInv, ResultsLinked
  <2> QED
    BY <1>4, <1>7, <2>1
<1>9. LiveLinked'
  <2> SUFFICES ASSUME NEW k \in 0..Len(code), NEW v \in LiveAfter(k)', NEW w \in LiveAfter(k)', v # w
               PROVE  w \in edge'[v]
    BY <1>1 DEF LiveLinked
  <2>1. v \in LiveAfter(k) /\ w \in LiveAfter(k)
    BY <1>2
  <2>2. w \in edge[v] \/ (v \in live /\ w \in live)
    BY <2>1 DEF AllocInv, LiveLinked
  <2>3. v \in Vregs
    BY <2>1 DEF LiveAfter
  <2> QED
    BY <1>4, <2>2, <2>3
<1>10. MasksBanned'
  <2> SUFFICES ASSUME NEW k \in DOMAIN code, NEW v \in Through(k)'
               PROVE  NeedsMask(code[k]) \subseteq ban[v]
    BY <1>1 DEF MasksBanned, NeedsMask
  <2>1. v \in Through(k)
    BY <1>2
  <2> QED
    BY <2>1 DEF AllocInv, MasksBanned
<1>11. Painted'
  BY <1>1 DEF AllocInv, Painted
<1> QED
  BY <1>5, <1>6, <1>8, <1>9, <1>10, <1>11 DEF AllocInv

(* The painting, its acceptance and its repetition leave the code alone.   *)
LEMMA PaintingKeeps ==
  ASSUME AllocInv, Paint \/ Accept \/ Retry \/ UNCHANGED vars
  PROVE  AllocInv'
<1>1. /\ code' = code /\ out' = out /\ live' = live /\ swept' = swept
      /\ edge' = edge /\ ban' = ban
  BY DEF Paint, Accept, Retry, vars, PC!Paint, PC!Accept, PC!Retry
<1>2. \A k : LiveAfter(k)' = LiveAfter(k) /\ Through(k)' = Through(k)
  BY <1>1, LiveAfterStays
<1>3. Len(Scratch) \in Nat
  BY ScratchKnown
<1>4. SweptLive'
  <2>1. LiveAfter(0)' = LiveAfter(0)
    BY <1>2
  <2> QED
    BY <1>1, <2>1 DEF AllocInv, SweptLive
<1>5. ResultsLinked'
  <2> SUFFICES ASSUME NEW k \in DOMAIN code, NEW v \in Through(k)' PROVE v \in edge[code[k].dst]
    BY <1>1 DEF ResultsLinked
  <2>1. v \in Through(k)
    BY <1>2
  <2> QED
    BY <2>1 DEF AllocInv, ResultsLinked
<1>6. LiveLinked'
  <2> SUFFICES ASSUME NEW k \in 0..Len(code), NEW v \in LiveAfter(k)', NEW w \in LiveAfter(k)', v # w
               PROVE  w \in edge[v] \/ (~swept /\ v \in live /\ w \in live)
    BY <1>1 DEF LiveLinked
  <2>1. v \in LiveAfter(k) /\ w \in LiveAfter(k)
    BY <1>2
  <2> QED
    BY <2>1 DEF AllocInv, LiveLinked
<1>7. MasksBanned'
  <2> SUFFICES ASSUME NEW k \in DOMAIN code, NEW v \in Through(k)'
               PROVE  NeedsMask(code[k]) \subseteq ban[v]
    BY <1>1 DEF MasksBanned, NeedsMask
  <2>1. v \in Through(k)
    BY <1>2
  <2> QED
    BY <2>1 DEF AllocInv, MasksBanned
<1>8. TypeOK' /\ Painted'
  <2>1. CASE Paint
    <3>1. swept /\ s' = s /\ status' = "painted" /\ PC!Proper(home')
          /\ home' \in [Vregs -> Regs \cup {SPILL}]
      BY <2>1 DEF Paint, PC!Paint
    <3>2. PC!Proper(home)'
      BY <1>1, <3>1 DEF PC!Proper, PC!Kept
    <3> QED
      BY <1>1, <3>1, <3>2 DEF AllocInv, TypeOK, Painted
  <2>2. CASE Accept
    <3>1. status = "painted" /\ status' = "done" /\ s' = s /\ home' = home /\ ~BlockNeeds(s + 1)
      BY <2>2 DEF Accept, PC!Accept
    <3>2. ~BlockNeeds(s + 1)'
      <4>1. BlockNeeds(s + 1)' <=>
              \E k \in DOMAIN code : ~Silent(k)' /\ ScratchNeed(code[k])' >= s + 1
        BY <1>1, <3>1 DEF BlockNeeds, ScratchNeed
      <4>2. \A k : Silent(k)' <=> Silent(k)
        BY <1>1, <1>2 DEF Silent
      <4>3. \A k : ScratchNeed(code[k])' = ScratchNeed(code[k])
        BY <1>1, <3>1 DEF ScratchNeed
      <4> QED
        BY <3>1, <4>1, <4>2, <4>3 DEF BlockNeeds
    <3>3. PC!Proper(home)'
      BY <1>1, <3>1 DEF AllocInv, Painted, PC!Proper, PC!Kept
    <3>4. swept
      BY <3>1 DEF AllocInv, Painted
    <3> QED
      BY <1>1, <3>1, <3>2, <3>3, <3>4 DEF AllocInv, TypeOK, Painted
  <2>3. CASE Retry
    <3>1. status = "painted" /\ s < Len(Scratch) /\ s' = s + 1 /\ status' = "open"
          /\ home' = PC!Blank
      BY <2>3 DEF Retry, PC!Retry
    <3>2. home' \in [Vregs -> Regs \cup {SPILL}]
      BY <3>1 DEF PC!Blank
    <3> QED
      BY <1>1, <1>3, <3>1, <3>2 DEF AllocInv, TypeOK, Painted
  <2>4. CASE UNCHANGED vars
    <3>1. status' = status /\ s' = s /\ home' = home
      BY <2>4 DEF vars
    <3>2. BlockNeeds(s + 1)' <=> BlockNeeds(s + 1)
      <4>1. \A k : Silent(k)' <=> Silent(k)
        BY <1>1, <1>2 DEF Silent
      <4> QED
        BY <1>1, <3>1, <4>1 DEF BlockNeeds, ScratchNeed
    <3> QED
      BY <1>1, <3>1, <3>2 DEF AllocInv, TypeOK, Painted, PC!Proper, PC!Kept
  <2> QED
    BY <2>1, <2>2, <2>3, <2>4
<1> QED
  BY <1>4, <1>5, <1>6, <1>7, <1>8 DEF AllocInv

(* What holds of a block from the first instruction swept to the accepted  *)
(* painting.                                                               *)
THEOREM AllocHolds == Spec => []AllocInv
<1>1. AllocInv /\ [Next]_vars => AllocInv'
  BY SweepKeeps, SweepDoneKeeps, PaintingKeeps DEF Next
<1> QED
  BY <1>1, AllocInvInit, PTL DEF Spec

(* The sweep holds live exactly what is live (graph.c:346-392).            *)
THEOREM SweepExact == Spec => []SweptLive
<1>1. AllocInv => SweptLive
  BY DEF AllocInv
<1> QED
  BY <1>1, AllocHolds, PTL

(* The interference found by one sweep backwards, with what is live on     *)
(* entry as a clique, and the masks forbidden on the way are all that the  *)
(* painter must respect for the allocator's contract (verifiy.c:169-228).  *)
THEOREM ContractKept == Spec => []ContractHolds
<1>1. AllocInv => ContractHolds
  <2> SUFFICES ASSUME AllocInv, status = "done"
               PROVE  /\ Distinct(LiveAfter(0))
                      /\ \A k \in DOMAIN code :
                           /\ Distinct(LiveAfter(k) \cup {code[k].dst})
                           /\ \A v \in Through(k) : home[v] \notin NeedsMask(code[k])
    BY DEF ContractHolds
  <2>1. /\ swept /\ \A n \in Vregs : home[n] \notin ban[n]
        /\ \A n \in Vregs : \A m \in edge[n] : home[n] = SPILL \/ home[n] # home[m]
    BY DEF AllocInv, Painted, PC!Proper
  <2>2. code \in Seq(Instrs) /\ DOMAIN code = 1..Len(code) /\ Len(code) \in Nat
        /\ edge \in PC!Graphs
    BY DEF AllocInv, TypeOK
  <2>3. \A k : LiveAfter(k) \subseteq Vregs
    BY DEF LiveAfter
  <2>4. ASSUME NEW k \in 0..Len(code), NEW v \in LiveAfter(k), NEW w \in LiveAfter(k), v # w
        PROVE  home[v] = SPILL \/ home[v] # home[w]
    <3>1. w \in edge[v]
      BY <2>1, <2>4 DEF AllocInv, LiveLinked
    <3> QED
      BY <2>1, <2>3, <3>1
  <2>5. Distinct(LiveAfter(0))
    <3>1. 0 \in 0..Len(code)
      BY <2>2
    <3> QED
      BY <2>4, <3>1 DEF Distinct
  <2>6. ASSUME NEW k \in DOMAIN code
        PROVE  /\ Distinct(LiveAfter(k) \cup {code[k].dst})
               /\ \A v \in Through(k) : home[v] \notin NeedsMask(code[k])
    <3>1. k \in 0..Len(code) /\ code[k] \in Instrs /\ code[k].dst \in Vregs
      BY <2>2, InstrShape
    <3>2. ASSUME NEW v \in LiveAfter(k), v # code[k].dst
          PROVE  /\ home[v] = SPILL \/ home[v] # home[code[k].dst]
                 /\ home[code[k].dst] = SPILL \/ home[v] # home[code[k].dst]
      <4>1. v \in Through(k)
        BY <3>2 DEF Through
      <4>2. v \in edge[code[k].dst]
        BY <4>1 DEF AllocInv, ResultsLinked
      <4>3. v \in Vregs
        BY <2>3
      <4>4. code[k].dst \in edge[v]
        BY <2>2, <3>1, <4>2, <4>3 DEF PC!Graphs
      <4> QED
        BY <2>1, <3>1, <4>2, <4>3, <4>4
    <3>3. Distinct(LiveAfter(k) \cup {code[k].dst})
      <4> SUFFICES ASSUME NEW v \in LiveAfter(k) \cup {code[k].dst},
                          NEW w \in LiveAfter(k) \cup {code[k].dst}, v # w
                   PROVE  home[v] = SPILL \/ home[v] # home[w]
        BY DEF Distinct
      <4>1. CASE v \in LiveAfter(k) /\ w \in LiveAfter(k)
        BY <2>4, <3>1, <4>1
      <4>2. CASE v = code[k].dst
        BY <3>2, <4>2
      <4>3. CASE w = code[k].dst
        BY <3>2, <4>3
      <4> QED
        BY <4>1, <4>2, <4>3
    <3>4. ASSUME NEW v \in Through(k) PROVE home[v] \notin NeedsMask(code[k])
      <4>1. NeedsMask(code[k]) \subseteq ban[v]
        BY DEF AllocInv, MasksBanned
      <4>2. v \in Vregs
        BY <2>3 DEF Through
      <4> QED
        BY <2>1, <4>1, <4>2
    <3> QED
      BY <3>3, <3>4
  <2> QED
    BY <2>5, <2>6
<1> QED
  BY <1>1, AllocHolds, PTL

(* The emission of each instruction finds the registers it takes: those    *)
(* the machine fixes, and, in code without a division, the scratch         *)
(* registers the estimate asked for (regs.c:86-110).                       *)
THEOREM EmissionGetsWhatItTakes == Spec => []EmissionServed
<1>1. AllocInv => EmissionServed
  <2> SUFFICES ASSUME AllocInv, status = "done" PROVE FixedFree /\ (Divides \/ ScratchServed)
    BY DEF EmissionServed, FixedFree, ScratchServedUndivided, ScratchServed
  <2>1. /\ ~BlockNeeds(s + 1) /\ s \in 0..Len(Scratch) /\ Len(Scratch) \in Nat
        /\ home \in [Vregs -> Regs \cup {SPILL}]
        /\ \A n \in Vregs : home[n] \notin ban[n] \cup PC!Kept(s)
    BY ScratchKnown DEF AllocInv, Painted, TypeOK, PC!Proper
  <2>2. code \in Seq(Instrs) /\ DOMAIN code = 1..Len(code)
    BY DEF AllocInv, TypeOK
  <2>3. \A k : Through(k) \subseteq Vregs
    BY DEF Through, LiveAfter
  <2>4. ASSUME NEW k \in DOMAIN code PROVE Fixed(code[k]) \subseteq FreeRegs(k)
    <3>1. code[k] \in Instrs
      BY <2>2
    <3>2. Fixed(code[k]) \subseteq NeedsMask(code[k]) /\ NeedsMask(code[k]) \subseteq Caller
      BY <3>1, InstrShape DEF Fixed, NeedsMask
    <3>3. \A v \in Through(k) : home[v] \notin NeedsMask(code[k])
      <4> TAKE v \in Through(k)
      <4>1. NeedsMask(code[k]) \subseteq ban[v]
        BY DEF AllocInv, MasksBanned
      <4> QED
        BY <2>1, <2>3, <4>1
    <3> QED
      BY <3>2, <3>3 DEF FreeRegs
  <2>5. ASSUME ~Divides, NEW k \in DOMAIN code, ~Silent(k)
        PROVE  LET in == code[k]
                   busy == {home[v] : v \in Srcs(in) \cup {in.dst}}
               IN Cardinality((FreeRegs(k) \ Fixed(in)) \ busy) >= ScratchNeed(in)
    <3> DEFINE in == code[k]
               busy == {home[v] : v \in Srcs(in) \cup {in.dst}}
               left == (FreeRegs(k) \ Fixed(in)) \ busy
    <3>1. in \in Instrs /\ in.op \in {"neg", "shift"} /\ in.dst \in Vregs /\ Srcs(in) \subseteq Vregs
      BY <2>2, <2>5, InstrShape DEF Divides
    <3>2. IsFiniteSet(left) /\ Cardinality(left) \in Nat
      <4>1. IsFiniteSet(Caller)
        <5>1. IsFiniteSet({Ax} \cup {Dx})
          BY FS_Singleton, FS_AddElement
        <5>2. Caller = ({Ax} \cup {Dx}) \cup {Cx}
          BY DEF Caller
        <5> QED
          BY <5>1, <5>2, FS_AddElement
      <4>2. IsFiniteSet(Caller \cup Callee)
        BY <4>1, CalleeFinite, FS_Union
      <4>3. left \subseteq Caller \cup Callee
        BY DEF FreeRegs, CalleeUsed
      <4> QED
        BY <4>2, <4>3, FS_Subset, FS_CardinalityType
    <3>3. ScratchNeed(in) \in {0, 1}
      BY DEF ScratchNeed
    <3>4. CASE ScratchNeed(in) = 0
      BY <3>2, <3>4
    <3>5. CASE ScratchNeed(in) = 1
      <4>1. s # 0
        <5>1. s = 0 => ScratchNeed(in) >= s + 1
          BY <3>5
        <5> QED
          BY <2>1, <2>5, <5>1 DEF BlockNeeds
      <4>2. 1 \in 1..s /\ 1 \in 1..Len(Scratch)
        BY <2>1, <4>1
      <4>3. Scratch[1] \in PC!Kept(s) /\ Scratch[1] \in Caller
        BY <4>2, ScratchKnown DEF PC!Kept
      <4>4. \A v \in Vregs : home[v] # Scratch[1]
        BY <2>1, <4>3
      <4>5. Scratch[1] \in FreeRegs(k)
        BY <2>3, <4>3, <4>4 DEF FreeRegs
      <4>6. Scratch[1] \notin Fixed(in)
        BY <3>1, CountNotFirst DEF Fixed
      <4>7. Scratch[1] \notin busy
        BY <3>1, <4>4
      <4>8. Scratch[1] \in left
        BY <4>5, <4>6, <4>7
      <4> HIDE DEF left
      <4>9. Cardinality(left) # 0
        BY <3>2, <4>8, FS_EmptySet
      <4> QED
        BY <3>2, <3>5, <4>9 DEF left
    <3> QED
      BY <3>3, <3>4, <3>5
  <2> QED
    BY <2>4, <2>5 DEF FixedFree, ScratchServed
<1> QED
  BY <1>1, AllocHolds, PTL

(***************************************************************************)
(* The plan for a callee-saved register is right for every control flow    *)
(* graph: the caller's value is saved once, before the register is used,   *)
(* and is back in the register on every way out.                           *)
(***************************************************************************)
USE DEF Blocks

GraphOK == succ \in [Blocks -> SUBSET Blocks]

-----------------------------------------------------------------------------
(* What From computes: it holds its start, is closed under edges but into  *)
(* walls, and lies within every set that is so.                            *)
ClosedFrom(K, b, W) == {b} \ W \subseteq K /\ \A c \in K : succ[c] \ W \subseteq K

(* What can be reached is closed under the edges, walls aside.             *)
LEMMA FromIsClosed ==
  ASSUME GraphOK, NEW b \in Blocks, NEW W
  PROVE  From(b, W) \subseteq Blocks /\ ClosedFrom(From(b, W), b, W)
<1> DEFINE Closed == {K \in SUBSET Blocks : ClosedFrom(K, b, W)}
<1>1. From(b, W) = {c \in Blocks : \A K \in Closed : c \in K}
  BY DEF From, ClosedFrom
<1>2. {b} \ W \subseteq From(b, W)
  BY <1>1 DEF ClosedFrom
<1>3. ASSUME NEW c \in From(b, W), NEW e \in succ[c] \ W PROVE e \in From(b, W)
  <2>1. c \in Blocks /\ e \in Blocks
    BY <1>1 DEF GraphOK
  <2>2. ASSUME NEW K \in Closed PROVE e \in K
    <3>1. c \in K
      BY <1>1
    <3> QED
      BY <3>1 DEF ClosedFrom
  <2> QED
    BY <1>1, <2>1, <2>2
<1> QED
  BY <1>1, <1>2, <1>3 DEF ClosedFrom

(* ... and lies in every set that is.                                      *)
LEMMA FromIsLeast ==
  ASSUME NEW b, NEW W, NEW K \in SUBSET Blocks, ClosedFrom(K, b, W)
  PROVE  From(b, W) \subseteq K
BY DEF From, ClosedFrom

(* From says the same after a step that leaves the graph alone.            *)
LEMMA FromStays ==
  ASSUME succ' = succ
  PROVE  \A b, W : From(b, W)' = From(b, W)
BY DEF From

(* A wall at the start lets nothing through.                               *)
LEMMA BehindTheWall ==
  ASSUME NEW b, NEW W, b \in W PROVE From(b, W) = {}
<1>1. ClosedFrom({}, b, W) /\ {} \in SUBSET Blocks
  BY DEF ClosedFrom
<1> QED
  BY <1>1, FromIsLeast

(* What is reached from there is reached from here.                        *)
LEMMA FromTransitive ==
  ASSUME GraphOK, NEW b \in Blocks, NEW c \in From(b, {})
  PROVE  From(c, {}) \subseteq From(b, {})
<1>1. ClosedFrom(From(b, {}), c, {}) /\ From(b, {}) \in SUBSET Blocks
  BY FromIsClosed DEF ClosedFrom
<1> QED
  BY <1>1, FromIsLeast

(* To get anywhere else a path goes through a successor first.             *)
LEMMA FromSuccessor ==
  ASSUME GraphOK, NEW b \in Blocks, NEW e \in From(b, {}), e # b
  PROVE  \E c \in succ[b] : e \in From(c, {})
<1> DEFINE K == {b} \cup {x \in Blocks : \E c \in succ[b] : x \in From(c, {})}
<1>1. succ[b] \subseteq Blocks
  BY DEF GraphOK
<1>2. ASSUME NEW x \in K, NEW y \in succ[x] PROVE y \in K
  <2>1. x \in Blocks /\ y \in Blocks
    BY DEF GraphOK
  <2>2. CASE x = b
    <3>1. y \in From(y, {})
      BY <2>1, FromIsClosed DEF ClosedFrom
    <3> QED
      BY <2>1, <2>2, <3>1
  <2>3. CASE x # b
    <3>1. PICK c \in succ[b] : x \in From(c, {})
      BY <2>3
    <3>2. y \in From(c, {})
      BY <1>1, <3>1, FromIsClosed DEF ClosedFrom
    <3> QED
      BY <2>1, <3>1, <3>2
  <2> QED
    BY <2>2, <2>3
<1>3. ClosedFrom(K, b, {}) /\ K \in SUBSET Blocks
  BY <1>2 DEF ClosedFrom
<1>4. e \in K
  BY <1>3, FromIsLeast
<1> QED
  BY <1>4

(* A block that cannot be reached around b is reached from b.              *)
LEMMA ReachedThrough ==
  ASSUME GraphOK, NEW b \in Blocks, NEW e \in From(1, {}), e \notin From(1, {b}), 1 \in Blocks
  PROVE  e \in From(b, {})
<1> DEFINE K == From(1, {b}) \cup From(b, {})
<1>1. /\ From(1, {b}) \subseteq Blocks /\ ClosedFrom(From(1, {b}), 1, {b})
      /\ From(b, {}) \subseteq Blocks /\ ClosedFrom(From(b, {}), b, {})
  BY FromIsClosed
<1>2. ClosedFrom(K, 1, {}) /\ K \in SUBSET Blocks
  BY <1>1 DEF ClosedFrom
<1> QED
  BY <1>2, FromIsLeast

(* A path that reaches c around b and cannot come to b from c stays around *)
(* b.                                                                      *)
LEMMA StaysAround ==
  ASSUME GraphOK, NEW b \in Blocks, NEW c \in From(1, {b}), b \notin From(c, {}), 1 \in Blocks
  PROVE  From(c, {}) \subseteq From(1, {b})
<1> DEFINE K == From(c, {}) \cap From(1, {b})
<1>1. From(1, {b}) \subseteq Blocks /\ ClosedFrom(From(1, {b}), 1, {b})
  BY FromIsClosed
<1>2. c \in Blocks
  BY <1>1
<1>3. From(c, {}) \subseteq Blocks /\ ClosedFrom(From(c, {}), c, {})
  BY <1>2, FromIsClosed
<1>4. ClosedFrom(K, c, {}) /\ K \in SUBSET Blocks
  BY <1>1, <1>3 DEF ClosedFrom
<1>5. From(c, {}) \subseteq K
  BY <1>4, FromIsLeast
<1> QED
  BY <1>5

-----------------------------------------------------------------------------
(* The iteration starts above the dominators and stays there.              *)
Above == \A b \in Reach : \A d \in Blocks : b \notin From(1, {d}) => d \in dom[b]

(* dom_step has nothing left to change.                                    *)
AtRest == DomStepped = dom

(* The entry is reached, and from a reached block its successors.          *)
LEMMA EntryReached ==
  ASSUME GraphOK
  PROVE  /\ 1 \in Blocks /\ 1 \in Reach /\ Reach \subseteq Blocks
         /\ \A b \in Reach : succ[b] \subseteq Reach
<1>1. 1 \in Blocks
  BY AtLeastOneBlock
<1> QED
  BY <1>1, FromIsClosed DEF Reach, ClosedFrom

(* Once dom_step changes nothing more, block d dominates block b exactly   *)
(* when b is out of reach with d a wall.                                   *)
LEMMA DominatorsFound ==
  ASSUME WrapTypeOK, Above, AtRest, NEW d \in Blocks, NEW b \in Reach
  PROVE  d \in dom[b] <=> b \notin From(1, {d})
<1>1. GraphOK
  BY DEF WrapTypeOK, GraphOK
<1>2. 1 \in Blocks /\ 1 \in Reach /\ Reach \subseteq Blocks /\ \A c \in Reach : succ[c] \subseteq Reach
  BY <1>1, EntryReached
<1>3. dom[1] = {1}
  BY <1>2 DEF AtRest, DomStepped
<1>4. \A c \in Reach \ {1} :
        dom[c] = {c} \cup {x \in Blocks : \A p \in Reach : c \in succ[p] => x \in dom[p]}
  BY <1>2 DEF AtRest, DomStepped
<1> DEFINE K == {c \in Reach : d \notin dom[c]}
<1>5. ClosedFrom(K, 1, {d})
  <2>1. {1} \ {d} \subseteq K
    BY <1>2, <1>3
  <2>2. ASSUME NEW c \in K, NEW e \in succ[c] \ {d} PROVE e \in K
    <3>1. c \in Reach /\ e \in Reach /\ d \notin dom[c]
      BY <1>2
    <3>2. CASE e = 1
      BY <1>2, <1>3, <3>2
    <3>3. CASE e # 1
      BY <1>4, <3>1, <3>3
    <3> QED
      BY <3>2, <3>3
  <2> QED
    BY <2>1, <2>2 DEF ClosedFrom
<1>6. From(1, {d}) \subseteq K
  BY <1>2, <1>5, FromIsLeast
<1> QED
  BY <1>6 DEF Above

(* A step of the iteration forgets no dominator.                           *)
LEMMA AboveKept ==
  ASSUME WrapTypeOK, Above, DomStep PROVE Above'
<1>1. dom' = DomStepped /\ succ' = succ
  BY DEF DomStep, graph
<1>2. GraphOK
  BY DEF WrapTypeOK, GraphOK
<1>3. 1 \in Blocks /\ 1 \in Reach /\ Reach \subseteq Blocks
  BY <1>2, EntryReached
<1>4. Reach' = Reach /\ \A d : From(1, {d})' = From(1, {d})
  BY <1>1, FromStays DEF Reach
<1>5. ASSUME NEW b \in Reach, NEW d \in Blocks, b \notin From(1, {d})
      PROVE  d \in DomStepped[b]
  <2>1. CASE b = 1
    <3>1. d = 1
      BY <1>2, <1>3, <1>5, <2>1, FromIsClosed DEF ClosedFrom
    <3> QED
      BY <1>3, <2>1, <3>1 DEF DomStepped
  <2>2. CASE b # 1
    <3>1. DomStepped[b] = {b} \cup {x \in Blocks : \A p \in Reach : b \in succ[p] => x \in dom[p]}
      BY <1>3, <2>2 DEF DomStepped
    <3>2. ASSUME b # d, NEW p \in Reach, b \in succ[p] PROVE d \in dom[p]
      <4>1. p \notin From(1, {d})
        BY <1>2, <1>3, <1>5, <3>2, FromIsClosed DEF ClosedFrom
      <4> QED
        BY <4>1 DEF Above
    <3> QED
      BY <3>1, <3>2
  <2> QED
    BY <2>1, <2>2
<1>6. \A b \in Reach : \A d \in Blocks : b \notin From(1, {d}) => d \in dom'[b]
  BY <1>1, <1>5
<1>7. Above' <=> \A b \in Reach' : \A d \in Blocks : b \notin From(1, {d})' => d \in dom'[b]
  BY DEF Above
<1> QED
  BY <1>4, <1>6, <1>7
-----------------------------------------------------------------------------
CallsItself == \E b \in Blocks : ends[b] = "self"

(* What plan_reg and save_all may have decided.                            *)
PlanOK ==
  IF CallsItself
    THEN saveAt = 1 /\ saved = Blocks
    ELSE saveAt \in {1} \cup Candidates /\ saved = SavedFrom(saveAt)

(* The plan is made when the dominators are known, and never changes; as   *)
(* long as the function has not started over and can still return, its     *)
(* caller's value is where the plan says it is.                            *)
WrapInv ==
  /\ WrapTypeOK /\ 1 \notin here
  /\ Above
  /\ pc = 0 \/ pc \in Reach
  /\ saveAt = 0 => runs = 0
  /\ saveAt # 0 => AtRest /\ PlanOK
  /\ runs = 0 => pc = 0 /\ reg = "caller"
  /\ runs # 0 /\ saveAt = 1 => slot # "empty"
  /\ runs > 1 => saveAt = 1
  /\ CallerValueKept
  /\ SavedExactly

CanReturn(b) == From(b, {}) \cap Exits # {}

(* A block that leads to one that can return can return.                   *)
LEMMA ReturnAhead ==
  ASSUME GraphOK, NEW b \in Blocks, NEW c \in succ[b], CanReturn(c)
  PROVE  CanReturn(b)
<1>1. c \in From(b, {})
  BY FromIsClosed DEF ClosedFrom
<1> QED
  BY <1>1, FromTransitive DEF CanReturn

(* With a plan, a block counts as saved if it cannot be reached around the *)
(* block of the save.                                                      *)
LEMMA SavedMeans ==
  ASSUME WrapInv, saveAt # 0, ~CallsItself
  PROVE  /\ GraphOK /\ 1 \in Blocks /\ saveAt \in Blocks /\ Reach \subseteq Blocks
         /\ saved = {q \in Reach : q \notin From(1, {saveAt})}
         /\ saveAt = 1 => saved = Reach
         /\ saveAt # 1 => saveAt \in Candidates
<1>1. GraphOK /\ 1 \in Blocks /\ Reach \subseteq Blocks
  BY EntryReached DEF WrapInv, WrapTypeOK, GraphOK
<1>2. saveAt \in {1} \cup Candidates /\ saved = SavedFrom(saveAt)
  BY DEF WrapInv, PlanOK
<1>3. saveAt \in Blocks
  BY <1>1, <1>2 DEF Candidates
<1>4. WrapTypeOK /\ Above /\ AtRest
  BY DEF WrapInv
<1>5. saved = {q \in Reach : q \notin From(1, {saveAt})}
  BY <1>2, <1>3, <1>4, DominatorsFound DEF SavedFrom
<1>6. saveAt = 1 => saved = Reach
  BY <1>5, BehindTheWall
<1> QED
  BY <1>1, <1>2, <1>3, <1>5, <1>6

(* The register is touched only where it counts as saved.                  *)
LEMMA TouchedIsSaved ==
  ASSUME WrapInv, saveAt # 0, ~CallsItself
  PROVE  Touched \subseteq saved
<1>1. CASE saveAt = 1
  BY <1>1, SavedMeans DEF Touched
<1>2. CASE saveAt # 1
  <2>1. \A t \in Touched : t \in Reach /\ saveAt \in dom[t]
    BY <1>2, SavedMeans DEF Candidates, Touched
  <2> QED
    BY <2>1 DEF WrapInv, PlanOK, SavedFrom
<1> QED
  BY <1>1, <1>2

(* Control enters what is saved only through the block of the save.        *)
LEMMA OneWayIn ==
  ASSUME WrapInv, saveAt # 0, ~CallsItself,
         NEW b \in Reach, NEW c \in succ[b], c \in saved, c # saveAt
  PROVE  b \in saved
<1>1. GraphOK /\ 1 \in Blocks /\ saveAt \in Blocks
      /\ saved = {q \in Reach : q \notin From(1, {saveAt})}
  BY SavedMeans
<1>2. b \in From(1, {saveAt}) => c \in From(1, {saveAt})
  BY <1>1, FromIsClosed DEF ClosedFrom
<1> QED
  BY <1>1, <1>2

(* What is saved lies behind the block of the save, and no way leads back. *)
LEMMA BehindTheSave ==
  ASSUME WrapInv, saveAt # 0, ~CallsItself, saveAt # 1
  PROVE  /\ saved \subseteq From(saveAt, {})
         /\ \A b \in From(saveAt, {}) \ {saveAt} : saveAt \notin From(b, {})
         /\ saveAt \notin succ[saveAt]
         /\ \A e \in Exits : e \in From(saveAt, {}) => saveAt \in dom[e]
<1>1. GraphOK /\ 1 \in Blocks /\ saveAt \in Blocks
      /\ saved = {q \in Reach : q \notin From(1, {saveAt})}
      /\ saveAt \in Candidates
  BY SavedMeans
<1>2. /\ \A c \in succ[saveAt] : saveAt \notin From(c, {})
      /\ \A e \in Exits \cap From(saveAt, {}) : saveAt \in dom[e]
  BY <1>1 DEF Candidates, SaveRegion
<1>3. saved \subseteq From(saveAt, {})
  BY <1>1, ReachedThrough DEF Reach
<1>4. ASSUME NEW b \in From(saveAt, {}) \ {saveAt} PROVE saveAt \notin From(b, {})
  <2>1. PICK c \in succ[saveAt] : b \in From(c, {})
    BY <1>1, FromSuccessor
  <2>2. c \in Blocks
    BY <1>1 DEF GraphOK
  <2>3. From(b, {}) \subseteq From(c, {})
    BY <1>1, <2>1, <2>2, FromTransitive
  <2> QED
    BY <1>2, <2>3
<1>5. saveAt \notin succ[saveAt]
  <2>1. saveAt \in From(saveAt, {})
    BY <1>1, FromIsClosed DEF ClosedFrom
  <2> QED
    BY <1>2, <2>1
<1> QED
  BY <1>2, <1>3, <1>4, <1>5

(* The block of the save is not entered from what is saved.                *)
LEMMA SavedOnce ==
  ASSUME WrapInv, saveAt # 0, ~CallsItself, saveAt # 1,
         NEW b \in Reach, saveAt \in succ[b]
  PROVE  b \notin saved
<1> SUFFICES ASSUME b \in saved PROVE FALSE
  OBVIOUS
<1>1. GraphOK /\ saveAt \in Blocks /\ b \in Blocks /\ b \in From(saveAt, {}) /\ b # saveAt
  BY SavedMeans, BehindTheSave
<1>2. saveAt \in From(b, {})
  BY <1>1, FromIsClosed DEF ClosedFrom
<1> QED
  BY <1>1, <1>2, BehindTheSave

(* From what is saved no way leads out of it and to an exit.               *)
LEMMA NoWayOut ==
  ASSUME WrapInv, saveAt # 0, ~CallsItself,
         NEW b \in saved, NEW c \in succ[b], CanReturn(c)
  PROVE  c \in saved
<1> SUFFICES ASSUME c \notin saved PROVE FALSE
  OBVIOUS
<1>1. GraphOK /\ 1 \in Blocks /\ saveAt \in Blocks /\ Reach \subseteq Blocks
      /\ saved = {q \in Reach : q \notin From(1, {saveAt})}
      /\ (saveAt = 1 => saved = Reach)
  BY SavedMeans
<1>2. b \in Reach /\ c \in Reach
  BY <1>1, EntryReached
<1>3. saveAt # 1 /\ c \in From(1, {saveAt})
  BY <1>1, <1>2
<1>4. c \in From(saveAt, {})
  <2>1. b \in From(saveAt, {})
    BY <1>3, BehindTheSave
  <2> QED
    BY <1>1, <2>1, FromIsClosed DEF ClosedFrom
<1>5. c # saveAt
  BY <1>1, <1>3, FromIsClosed, BehindTheWall, SavedOnce, <1>2
<1>6. saveAt \notin From(c, {})
  BY <1>3, <1>4, <1>5, BehindTheSave
<1>7. PICK e \in Exits : e \in From(c, {})
  BY DEF CanReturn
<1>8. e \in From(1, {saveAt})
  BY <1>1, <1>3, <1>6, <1>7, StaysAround
<1>9. e \in From(saveAt, {})
  BY <1>1, <1>4, <1>7, FromTransitive
<1>10. saveAt \in dom[e] /\ e \in Reach
  BY <1>3, <1>9, BehindTheSave DEF Exits
<1>11. e \notin From(1, {saveAt})
  BY <1>1, <1>10, DominatorsFound DEF WrapInv
<1> QED
  BY <1>8, <1>11

-----------------------------------------------------------------------------
(* Before anything is planned, every block may dominate a reached one.     *)
LEMMA WrapStarts == WrapInit => WrapInv
<1> SUFFICES ASSUME WrapInit PROVE WrapInv
  OBVIOUS
<1>1. GraphOK
  BY DEF WrapInit, GraphOK
<1>2. 1 \in Blocks /\ Reach \subseteq Blocks
  BY <1>1, EntryReached
<1>3. dom = [b \in Blocks |-> IF b = 1 THEN {1} ELSE IF b \in Reach THEN Blocks ELSE {}]
  BY DEF WrapInit
<1>4. dom \in [Blocks -> SUBSET Blocks]
  BY <1>2, <1>3
<1>5. WrapTypeOK /\ 1 \notin here
  BY <1>4, AtLeastOneBlock DEF WrapInit, WrapTypeOK
<1>6. Above
  <2> SUFFICES ASSUME NEW b \in Reach, NEW d \in Blocks, b \notin From(1, {d}) PROVE d \in dom[b]
    BY DEF Above
  <2>1. CASE b = 1
    <3>1. d = 1
      BY <1>1, <1>2, <2>1, FromIsClosed DEF ClosedFrom
    <3> QED
      BY <1>2, <1>3, <2>1, <3>1
  <2>2. CASE b # 1
    BY <1>2, <1>3, <2>2
  <2> QED
    BY <2>1, <2>2
<1> QED
  BY <1>5, <1>6 DEF WrapInit, WrapInv, CallerValueKept, SavedExactly

(* Where a step leaves graph and plan alone, so are they in what is said   *)
(* of them.                                                                *)
LEMMA PlanStays ==
  ASSUME UNCHANGED <<graph, plan>>
  PROVE  /\ succ' = succ /\ ends' = ends /\ labels' = labels /\ here' = here /\ arrives' = arrives
         /\ dom' = dom /\ saveAt' = saveAt /\ saved' = saved
         /\ \A b, W : From(b, W)' = From(b, W)
         /\ Reach' = Reach /\ Exits' = Exits
         /\ Above' <=> Above
         /\ AtRest' <=> AtRest
         /\ PlanOK' <=> PlanOK
<1>1. /\ succ' = succ /\ ends' = ends /\ labels' = labels /\ here' = here /\ arrives' = arrives
      /\ dom' = dom /\ saveAt' = saveAt /\ saved' = saved
  BY DEF graph, plan
<1>2. \A b, W : From(b, W)' = From(b, W)
  BY <1>1, FromStays
<1>3. Reach' = Reach
  BY <1>2 DEF Reach
<1>4. Exits' = Exits
  BY <1>1, <1>3 DEF Exits
<1>5. Above' <=> Above
  <2>1. Above' <=> \A b \in Reach' : \A d \in Blocks : b \notin From(1, {d})' => d \in dom'[b]
    BY DEF Above
  <2> QED
    BY <1>1, <1>2, <1>3, <2>1 DEF Above
<1>6. AtRest' <=> AtRest
  BY <1>1, <1>3 DEF AtRest, DomStepped
<1>7. Candidates' = Candidates
  <2>1. Touched' = Touched
    BY <1>1, <1>3 DEF Touched
  <2>2. \A b : SaveRegion(b)' <=> SaveRegion(b)
    <3>1. \A b : SaveRegion(b)' <=> /\ \A c \in succ'[b] : b \notin From(c, {})'
                                    /\ \A e \in Exits' \cap From(b, {})' : b \in dom'[e]
      BY DEF SaveRegion
    <3> QED
      BY <1>1, <1>2, <1>4, <3>1 DEF SaveRegion
  <2> QED
    BY <1>1, <1>3, <2>1, <2>2 DEF Candidates
<1>8. PlanOK' <=> PlanOK
  BY <1>1, <1>3, <1>7 DEF PlanOK, CallsItself, SavedFrom
<1> QED
  BY <1>1, <1>2, <1>3, <1>4, <1>5, <1>6, <1>8

(* A step of the function that runs is well typed when what it changes is. *)
LEMMA TypeStays ==
  ASSUME WrapTypeOK, UNCHANGED <<graph, plan>>,
         pc' \in 0..N, runs' \in 0..MaxRuns,
         reg' \in {"caller", "own"}, slot' \in {"caller", "own", "empty"}
  PROVE  WrapTypeOK'
<1>1. /\ succ' = succ /\ ends' = ends /\ labels' = labels /\ here' = here /\ arrives' = arrives
      /\ dom' = dom /\ saveAt' = saveAt /\ saved' = saved
  BY DEF graph, plan
<1> QED
  BY <1>1 DEF WrapTypeOK

(* The function is planned.                                                *)
LEMMA PlanningKeeps ==
  ASSUME WrapInv, DomStep \/ PlanReg PROVE WrapInv'
<1>1. /\ saveAt = 0 /\ UNCHANGED <<graph, pc, reg, slot, runs>>
      /\ runs = 0 /\ pc = 0 /\ reg = "caller" /\ WrapTypeOK
  BY DEF DomStep, PlanReg, WrapInv
<1>2. /\ succ' = succ /\ ends' = ends /\ labels' = labels /\ here' = here /\ arrives' = arrives
      /\ pc' = 0 /\ reg' = "caller" /\ slot' = slot /\ runs' = 0
  BY <1>1 DEF graph
<1>3. \A b, W : From(b, W)' = From(b, W)
  BY <1>2, FromStays
<1>4. Reach' = Reach
  BY <1>3 DEF Reach
<1>5. GraphOK /\ 1 \in Blocks /\ Reach \subseteq Blocks
  BY <1>1, EntryReached DEF WrapTypeOK, GraphOK
<1>6. CASE DomStep
  <2>1. saveAt' = 0 /\ saved' = saved /\ dom' = DomStepped
    BY <1>1, <1>6 DEF DomStep
  <2>2. DomStepped \in [Blocks -> SUBSET Blocks]
    BY <1>5 DEF DomStepped
  <2>3. WrapTypeOK'
    BY <1>1, <1>2, <2>1, <2>2 DEF WrapTypeOK
  <2>4. Above'
    BY <1>1, <1>6, AboveKept DEF WrapInv
  <2> QED
    BY <1>2, <2>1, <2>3, <2>4 DEF WrapInv, CallerValueKept, SavedExactly
<1>7. CASE PlanReg
  <2>1. dom' = dom /\ AtRest
    BY <1>7 DEF PlanReg, AtRest
  <2>2. /\ CallsItself => saveAt' = 1 /\ saved' = Blocks
        /\ ~CallsItself => saveAt' \in {1} \cup Candidates /\ saved' = SavedFrom(saveAt')
    BY <1>7 DEF PlanReg, CallsItself, SaveAll, SaveBlocks
  <2>3. saveAt' \in Blocks /\ saved' \subseteq Blocks
    BY <1>5, <2>2 DEF Candidates, SavedFrom
  <2>4. WrapTypeOK'
    BY <1>1, <1>2, <2>1, <2>3 DEF WrapTypeOK
  <2>5. Above'
    <3>1. Above' <=> \A b \in Reach' : \A d \in Blocks : b \notin From(1, {d})' => d \in dom'[b]
      BY DEF Above
    <3> QED
      BY <1>3, <1>4, <2>1, <3>1 DEF WrapInv, Above
  <2>6. AtRest'
    BY <1>2, <1>4, <2>1 DEF AtRest, DomStepped
  <2>7. PlanOK'
    <3>1. Exits' = Exits
      BY <1>2, <1>4 DEF Exits
    <3>2. Touched' = Touched
      BY <1>2, <1>4 DEF Touched
    <3>3. \A b : SaveRegion(b)' <=> SaveRegion(b)
      <4>1. \A b : SaveRegion(b)' <=> /\ \A c \in succ'[b] : b \notin From(c, {})'
                                      /\ \A e \in Exits' \cap From(b, {})' : b \in dom'[e]
        BY DEF SaveRegion
      <4> QED
        BY <1>2, <1>3, <2>1, <3>1, <4>1 DEF SaveRegion
    <3>4. Candidates' = Candidates
      BY <1>2, <1>4, <2>1, <3>2, <3>3 DEF Candidates
    <3>5. CallsItself' <=> CallsItself
      BY <1>2 DEF CallsItself
    <3>6. SavedFrom(saveAt)' = SavedFrom(saveAt')
      BY <1>4, <2>1 DEF SavedFrom
    <3> QED
      BY <2>2, <3>4, <3>5, <3>6 DEF PlanOK
  <2> QED
    BY <1>1, <1>2, <2>3, <2>4, <2>5, <2>6, <2>7 DEF WrapInv, CallerValueKept, SavedExactly
<1> QED
  BY <1>6, <1>7

(* The function is entered.                                                *)
LEMMA EnterKeeps ==
  ASSUME WrapInv, Enter PROVE WrapInv'
<1>1. /\ saveAt # 0 /\ pc = 0 /\ runs = 0 /\ pc' = 1 /\ runs' = 1 /\ reg' = reg
      /\ slot' = IF saveAt = 1 THEN reg ELSE slot
      /\ UNCHANGED <<graph, plan>> /\ WrapTypeOK /\ reg = "caller"
  BY DEF Enter, WrapInv
<1>2. GraphOK /\ 1 \in Blocks /\ 1 \in Reach
  BY <1>1, EntryReached DEF WrapTypeOK, GraphOK
<1>3. WrapTypeOK'
  <2>1. pc' \in 0..N /\ runs' \in 0..MaxRuns
    BY <1>1, AtLeastOneBlock
  <2>2. reg' \in {"caller", "own"} /\ slot' \in {"caller", "own", "empty"}
    BY <1>1 DEF WrapTypeOK
  <2> QED
    BY <1>1, <2>1, <2>2, TypeStays
<1>4. 1 \in saved => saveAt = 1
  <2>1. CASE CallsItself
    BY <1>1, <2>1 DEF WrapInv, PlanOK
  <2>2. CASE ~CallsItself
    <3>1. saved = {q \in Reach : q \notin From(1, {saveAt})} /\ saveAt \in Blocks
      BY <1>1, <2>2, SavedMeans
    <3>2. saveAt # 1 => 1 \in From(1, {saveAt})
      BY <1>2, FromIsClosed DEF ClosedFrom
    <3> QED
      BY <3>1, <3>2
  <2> QED
    BY <2>1, <2>2
<1>5. SavedExactly'
  BY <1>1, <1>4, PlanStays DEF SavedExactly
<1> QED
  BY <1>1, <1>2, <1>3, <1>5, PlanStays DEF WrapInv, CallerValueKept

(* The function goes on to another block.                                  *)
LEMMA GoKeeps ==
  ASSUME WrapInv, Go PROVE WrapInv'
<1>1. /\ pc # 0 /\ slot' = SlotNow /\ runs' = runs /\ UNCHANGED <<graph, plan>> /\ WrapTypeOK
      /\ pc' \in succ[pc]
      /\ reg' = IF pc' \in arrives /\ pc \notin here THEN "own" ELSE RegNow
  BY DEF Go, WrapInv
<1>2. pc \in Reach /\ GraphOK
  BY <1>1 DEF WrapInv, WrapTypeOK, GraphOK
<1>3. pc \in Blocks /\ pc' \in Reach /\ pc' \in Blocks /\ pc' # 0
  BY <1>1, <1>2, EntryReached, AtLeastOneBlock
<1>4. saveAt # 0 /\ runs # 0
  BY <1>1 DEF WrapInv
<1>5. WrapTypeOK'
  <2>1. pc' \in 0..N /\ runs' \in 0..MaxRuns
    BY <1>1, <1>3, AtLeastOneBlock DEF WrapTypeOK, Blocks
  <2>2. reg' \in {"caller", "own"}
    BY <1>1 DEF WrapTypeOK, RegNow
  <2>3. slot' \in {"caller", "own", "empty"}
    BY <1>1 DEF WrapTypeOK, SlotNow
  <2> QED
    BY <1>1, <2>1, <2>2, <2>3, TypeStays
<1>6. runs > 1 \/ ~CanReturn(pc') \/ IF pc' \in saved /\ (pc' # saveAt \/ pc' = 1)
                                       THEN slot' = "caller" ELSE reg' = "caller"
  <2> SUFFICES ASSUME ~(runs > 1), CanReturn(pc')
               PROVE  IF pc' \in saved /\ (pc' # saveAt \/ pc' = 1)
                        THEN slot' = "caller" ELSE reg' = "caller"
    OBVIOUS
  <2>1. CanReturn(pc)
    BY <1>1, <1>2, <1>3, ReturnAhead
  <2>2. IF pc \in saved /\ (pc # saveAt \/ pc = 1) THEN slot = "caller" ELSE reg = "caller"
    <3>1. runs <= 1
      BY <1>1 DEF WrapTypeOK
    <3> QED
      BY <1>1, <2>1, <3>1 DEF WrapInv, SavedExactly, CanReturn
  <2>3. CASE CallsItself
    <3>1. saveAt = 1 /\ saved = Blocks
      BY <1>4, <2>3 DEF WrapInv, PlanOK
    <3> QED
      BY <1>1, <1>3, <2>2, <3>1 DEF SlotNow
  <2>4. CASE ~CallsItself
    <3>1. Touched \subseteq saved
      BY <1>4, <2>4, TouchedIsSaved
    <3>2. pc \notin saved => reg' = reg
      BY <1>1, <1>2, <1>3, <3>1 DEF Touched, RegNow
    <3>3. CASE pc' \in saved /\ pc' # saveAt
      <4>1. pc \in saved
        BY <1>1, <1>2, <1>4, <2>4, <3>3, OneWayIn
      <4> QED
        BY <1>1, <2>2, <3>3, <4>1 DEF SlotNow
    <3>4. CASE pc' = saveAt /\ saveAt = 1
      <4>1. saved = Reach
        BY <1>4, <2>4, <3>4, SavedMeans
      <4> QED
        BY <1>1, <1>2, <1>3, <2>2, <3>4, <4>1 DEF SlotNow
    <3>5. CASE pc' = saveAt /\ saveAt # 1
      <4>1. pc \notin saved
        BY <1>1, <1>2, <1>4, <2>4, <3>5, SavedOnce
      <4> QED
        BY <2>2, <3>2, <3>5, <4>1
    <3>6. CASE pc' \notin saved
      <4>1. pc \notin saved
        BY <1>1, <1>4, <2>4, <3>6, NoWayOut
      <4> QED
        BY <2>2, <3>2, <3>6, <4>1
    <3> QED
      BY <3>3, <3>4, <3>5, <3>6
  <2> QED
    BY <2>3, <2>4
<1>7. SavedExactly'
  <2>1. CanReturn(pc') <=> (From(pc, {}) \cap Exits # {})'
    <3>1. From(pc, {})' = From(pc', {})
      BY <1>1, PlanStays DEF From
    <3> QED
      BY <1>1, <3>1, PlanStays DEF CanReturn
  <2> QED
    BY <1>1, <1>6, <2>1, PlanStays DEF SavedExactly, WrapTypeOK
<1>8. runs # 0 /\ saveAt = 1 => slot' # "empty"
  BY <1>1 DEF WrapInv, SlotNow, WrapTypeOK
<1> QED
  BY <1>1, <1>3, <1>4, <1>5, <1>7, <1>8, PlanStays DEF WrapInv, CallerValueKept

(* The function leaves, and has restored what it found.                    *)
LEMMA LeaveKeeps ==
  ASSUME WrapInv, Leave PROVE WrapInv'
<1>1. /\ pc # 0 /\ ends[pc] \in {"ret", "tail", "tailret"} /\ slot' = SlotNow /\ pc' = 0
      /\ runs' = runs /\ UNCHANGED <<graph, plan>> /\ WrapTypeOK
      /\ reg' = IF pc \in saved THEN SlotNow ELSE RegNow
  BY DEF Leave, WrapInv
<1>2. pc \in Reach /\ GraphOK /\ saveAt # 0 /\ runs # 0
  BY <1>1 DEF WrapInv, WrapTypeOK, GraphOK
<1>3. pc \in Blocks /\ CanReturn(pc)
  <2>1. pc \in Blocks /\ pc \in Exits
    BY <1>1, <1>2, EntryReached DEF Exits
  <2>2. pc \in From(pc, {})
    BY <1>2, <2>1, FromIsClosed DEF ClosedFrom
  <2> QED
    BY <2>1, <2>2 DEF CanReturn
<1>4. runs <= 1 => reg' = "caller"
  <2> SUFFICES ASSUME runs <= 1 PROVE reg' = "caller"
    OBVIOUS
  <2>1. IF pc \in saved /\ (pc # saveAt \/ pc = 1) THEN slot = "caller" ELSE reg = "caller"
    BY <1>1, <1>3 DEF WrapInv, SavedExactly, CanReturn
  <2>2. CASE pc \in saved
    BY <1>1, <2>1, <2>2 DEF SlotNow
  <2>3. CASE pc \notin saved
    <3>1. pc \notin here
      <4>1. ~CallsItself
        BY <1>2, <1>3, <2>3 DEF WrapInv, PlanOK
      <4>2. Touched \subseteq saved
        BY <1>2, <4>1, TouchedIsSaved
      <4> QED
        BY <1>2, <2>3, <4>2 DEF Touched
    <3> QED
      BY <1>1, <2>1, <2>3, <3>1 DEF RegNow
  <2> QED
    BY <2>2, <2>3
<1>5. reg' \in {"caller", "own"}
  <2>1. CASE runs > 1
    <3>1. saveAt = 1 /\ slot # "empty"
      BY <1>2, <2>1 DEF WrapInv
    <3> QED
      BY <1>1, <3>1 DEF WrapTypeOK, SlotNow, RegNow
  <2>2. CASE ~(runs > 1)
    BY <1>1, <1>4, <2>2 DEF WrapTypeOK
  <2> QED
    BY <2>1, <2>2
<1>6. WrapTypeOK'
  <2>1. pc' \in 0..N /\ runs' \in 0..MaxRuns
    BY <1>1, AtLeastOneBlock DEF WrapTypeOK
  <2>2. slot' \in {"caller", "own", "empty"}
    BY <1>1 DEF WrapTypeOK, SlotNow
  <2> QED
    BY <1>1, <1>5, <2>1, <2>2, TypeStays
<1>7. runs # 0 /\ saveAt = 1 => slot' # "empty"
  BY <1>1 DEF WrapInv, SlotNow, WrapTypeOK
<1> QED
  BY <1>1, <1>2, <1>4, <1>6, <1>7, PlanStays DEF WrapInv, CallerValueKept, SavedExactly

(* A function that starts over has been planned to save at its entry.      *)
LEMMA StartOverKeeps ==
  ASSUME WrapInv, StartOver PROVE WrapInv'
<1>1. /\ pc # 0 /\ ends[pc] = "self" /\ runs < MaxRuns /\ pc' = 1 /\ reg' = RegNow
      /\ slot' = IF saveAt = 1 THEN RegNow ELSE slot
      /\ runs' = runs + 1 /\ UNCHANGED <<graph, plan>> /\ WrapTypeOK
  BY DEF StartOver, WrapInv
<1>2. pc \in Reach /\ GraphOK /\ saveAt # 0 /\ runs # 0 /\ runs \in Nat
  BY <1>1, AtLeastOneBlock DEF WrapInv, WrapTypeOK, GraphOK
<1>3. 1 \in Blocks /\ 1 \in Reach /\ pc \in Blocks
  BY <1>2, EntryReached
<1>4. saveAt = 1
  BY <1>1, <1>2, <1>3 DEF WrapInv, PlanOK, CallsItself
<1>5. WrapTypeOK'
  <2>1. pc' \in 0..N /\ runs' \in 0..MaxRuns
    BY <1>1, AtLeastOneBlock DEF WrapTypeOK
  <2>2. reg' \in {"caller", "own"} /\ slot' \in {"caller", "own", "empty"}
    BY <1>1 DEF WrapTypeOK, RegNow
  <2> QED
    BY <1>1, <2>1, <2>2, TypeStays
<1>6. slot' # "empty"
  BY <1>1, <1>4 DEF WrapTypeOK, RegNow
<1>7. runs' > 1
  BY <1>1, <1>2
<1> QED
  BY <1>1, <1>2, <1>3, <1>4, <1>5, <1>6, <1>7, PlanStays
     DEF WrapInv, CallerValueKept, SavedExactly, WrapTypeOK

(* The invariant of the planning and of the function that runs.            *)
THEOREM WrapHolds == WrapSpec => []WrapInv
<1>1. ASSUME WrapInv, UNCHANGED wrapVars PROVE WrapInv'
  <2>1. UNCHANGED <<graph, plan>> /\ UNCHANGED <<pc, reg, slot, runs>>
    BY <1>1 DEF wrapVars
  <2>2. From(pc, {})' = From(pc, {})
    BY <2>1, PlanStays
  <2>3. WrapTypeOK' /\ CallerValueKept'
    BY <1>1, <2>1, PlanStays DEF WrapInv, WrapTypeOK, CallerValueKept
  <2>4. SavedExactly'
    BY <1>1, <2>1, <2>2, PlanStays DEF WrapInv, SavedExactly
  <2> QED
    BY <1>1, <2>1, <2>3, <2>4, PlanStays DEF WrapInv
<1>2. WrapInv /\ [WrapNext]_wrapVars => WrapInv'
  BY <1>1, PlanningKeeps, EnterKeeps, GoKeeps, LeaveKeeps, StartOverKeeps DEF WrapNext
<1> QED
  BY <1>2, WrapStarts, PTL DEF WrapSpec

(* dom_step computes the dominators of every graph (shrink.c:184-240).     *)
THEOREM DominatorsExact == WrapSpec => []DomExact
<1>1. WrapInv => DomExact
  <2> SUFFICES ASSUME WrapInv, saveAt # 0, NEW d \in Blocks
               PROVE  {b \in Reach : d \in dom[b]} = Reach \ From(1, {d})
    BY DEF DomExact
  <2>1. \A b \in Reach : d \in dom[b] <=> b \notin From(1, {d})
    BY DominatorsFound DEF WrapInv
  <2> QED
    BY <2>1
<1> QED
  BY <1>1, WrapHolds, PTL

(* On every path through every graph the function leaves with its caller's *)
(* value in the register, and until then keeps it where the plan says, for *)
(* a function that calls itself last as long as it has not started over    *)
(* (shrink.c:264-391, flow.c:118-175).                                     *)
THEOREM CallerSafe == WrapSpec => []CallerValueSafe
<1>1. WrapInv => CallerValueSafe
  BY DEF WrapInv, CallerValueSafe
<1> QED
  BY <1>1, WrapHolds, PTL
=============================================================================
