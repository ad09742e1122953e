--------------------------- MODULE BlockOptProofs ---------------------------
(***************************************************************************)
(* The passes over a block, for every block of any length and any          *)
(* registers: what the block computes stays the same.                      *)
(***************************************************************************)
EXTENDS BlockOpt, FiniteSetTheorems, WellFoundedInduction, TLAPS

LEMMA AllNumbers ==
  ASSUME NEW S, 0 \in S, \A n \in Nat : n \in S => n + 1 \in S
  PROVE  \A n \in Nat : n \in S
<1> SUFFICES ASSUME NEW m \in Nat, m \notin S PROVE FALSE
  OBVIOUS
<1> DEFINE R == OpToRel(<, Nat)
<1>1. Nat \ S # {} /\ Nat \ S \subseteq Nat
  OBVIOUS
<1>2. PICK n \in Nat \ S : \A k \in Nat \ S : ~(<<k, n>> \in R)
  BY <1>1, NatLessThanWellFounded, WFMin
<1>3. \A k \in Nat \ S : ~(k < n)
  BY <1>2 DEF OpToRel
<1>4. n # 0
  OBVIOUS
<1>5. n - 1 \in Nat /\ n - 1 < n /\ (n - 1) + 1 = n
  BY <1>4
<1> QED
  BY <1>3, <1>5

(* The same up to the length of the block.                                 *)
LEMMA AllPlaces ==
  ASSUME NEW S, NEW n \in Nat, 0 \in S, \A k \in 0..n : k # n /\ k \in S => k + 1 \in S
  PROVE  \A k \in 0..n : k \in S
<1> DEFINE T == {k \in Nat : k <= n => k \in S}
<1>1. 0 \in T
  OBVIOUS
<1>2. \A k \in Nat : k \in T => k + 1 \in T
  OBVIOUS
<1> HIDE DEF T
<1>3. \A k \in Nat : k \in T
  BY <1>1, <1>2, AllNumbers
<1> QED
  BY <1>3 DEF T

(***************************************************************************)
(* Instructions and what they do.                                          *)
(***************************************************************************)
AnyInstr == Instrs \cup {Nop}
Code == [1..MaxCode -> AnyInstr]
Places == 1..MaxCode

LEMMA InstrParts ==
  ASSUME NEW in \in AnyInstr
  PROVE  /\ in = [op |-> in.op, dst |-> in.dst, s1 |-> in.s1, s2 |-> in.s2]
         /\ in.op \in {"nop", "move", "add", "mul", "div", "ldg", "stg", "ldp", "stp", "call"}
         /\ in.op = "nop" => in = Nop
         /\ in.op \in {"nop", "stg", "stp"} => in.dst = NOREG
         /\ in.op \in {"move", "add", "mul", "div", "ldg", "ldp", "call"} => in.dst \in Regs
         /\ in.op \in {"add", "mul", "div", "stp"} => in.s1 \in Reads /\ in.s2 \in Reads
         /\ in.op = "move" => in.s1 \in Regs /\ in.s2 = NOREG
         /\ in.op \in {"call", "ldp", "stg"} => in.s1 \in Reads /\ in.s2 = NOREG
         /\ in.op \in {"ldg", "nop"} => in.s1 = NOREG /\ in.s2 = NOREG
<1>1. CASE in \in [op : Ops \cap {"add", "mul", "div"}, dst : Regs, s1 : Reads, s2 : Reads]
  BY <1>1
<1>2. CASE in \in [op : Ops \cap {"move"}, dst : Regs, s1 : Regs, s2 : {NOREG}]
  BY <1>2
<1>3. CASE in \in [op : Ops \cap {"call", "ldp"}, dst : Regs, s1 : Reads, s2 : {NOREG}]
  BY <1>3
<1>4. CASE in \in [op : Ops \cap {"ldg"}, dst : Regs, s1 : {NOREG}, s2 : {NOREG}]
  BY <1>4
<1>5. CASE in \in [op : Ops \cap {"stg"}, dst : {NOREG}, s1 : Reads, s2 : {NOREG}]
  BY <1>5
<1>6. CASE in \in [op : Ops \cap {"stp"}, dst : {NOREG}, s1 : Reads, s2 : Reads]
  BY <1>6
<1>7. CASE in = Nop
  BY <1>7 DEF Nop
<1> QED
  BY <1>1, <1>2, <1>3, <1>4, <1>5, <1>6, <1>7 DEF AnyInstr, Instrs

LEMMA RegsApart == /\ NOREG \notin Regs /\ Reads \subseteq Regs /\ Addressed \subseteq Regs /\ MaxCode \in Nat
                   /\ \A r \in Regs : r # NOREG /\ r # "global" /\ r # "heap"
                   /\ \A in \in AnyInstr : Srcs(in) \subseteq Regs
<1>1. \A in \in AnyInstr : in.s1 \in Regs \cup {NOREG} /\ in.s2 \in Regs \cup {NOREG}
  BY InstrParts DEF Reads
<1> QED
  BY <1>1, AddressedAreRegs, ObjectsApart, CodeBounded DEF Reads, Srcs

IsState(st) ==
  /\ st = [reg |-> st.reg, mem |-> st.mem, seen |-> st.seen, traps |-> st.traps]
  /\ st.reg = [r \in Regs |-> st.reg[r]]
  /\ st.mem = [o \in {"global", "heap"} |-> st.mem[o]]

LEMMA EntryIs == IsState(Entry)
  BY DEF Entry, IsState

Pure == {"move", "add", "mul", "div", "ldg", "ldp"}

(* The value an instruction without other effects computes.                *)
Computed(alias, st, in) ==
  CASE in.op = "move" -> st.reg[in.s1]
    [] in.op = "add" -> <<"add", st.reg[in.s1], st.reg[in.s2]>>
    [] in.op = "mul" -> <<"mul", {st.reg[in.s1], st.reg[in.s2]}>>
    [] in.op = "div" -> <<"div", st.reg[in.s1], st.reg[in.s2]>>
    [] in.op = "ldg" -> st.mem["global"]
    [] in.op = "ldp" -> Value(st, alias)

Trapped(st, in) == IF in.op = "div" THEN {<<st.reg[in.s1], st.reg[in.s2]>>} ELSE {}

LEMMA ExecPure ==
  ASSUME NEW alias \in Objects, NEW st, IsState(st), NEW in \in AnyInstr, in.op \in Pure
  PROVE  LET t == Exec(alias, st, in)
         IN /\ IsState(t)
            /\ \A r \in Regs : t.reg[r] = IF r = in.dst THEN Computed(alias, st, in) ELSE st.reg[r]
            /\ t.mem = st.mem /\ t.seen = st.seen /\ t.traps = st.traps \cup Trapped(st, in)
<1> DEFINE t == Exec(alias, st, in)
           new(v) == [st EXCEPT !.reg[in.dst] = v]
<1>1. in.dst \in Regs
  BY InstrParts DEF Pure
<1>2. ASSUME NEW v
      PROVE  /\ IsState(new(v)) /\ \A r \in Regs : new(v).reg[r] = IF r = in.dst THEN v ELSE st.reg[r]
             /\ new(v).mem = st.mem /\ new(v).seen = st.seen /\ new(v).traps = st.traps
  BY <1>1 DEF IsState
<1>3. CASE in.op # "div"
  <2>1. t = new(Computed(alias, st, in))
    <3>1. CASE in.op = "move"
      BY <3>1 DEF Exec, Computed
    <3>2. CASE in.op = "add"
      BY <3>2 DEF Exec, Computed
    <3>3. CASE in.op = "mul"
      BY <3>3 DEF Exec, Computed
    <3>4. CASE in.op = "ldg"
      BY <3>4 DEF Exec, Computed
    <3>5. CASE in.op = "ldp"
      BY <3>5 DEF Exec, Computed
    <3> QED
      BY <1>3, <3>1, <3>2, <3>3, <3>4, <3>5 DEF Pure
  <2>2. Trapped(st, in) = {}
    BY <1>3 DEF Trapped
  <2> HIDE DEF t, new
  <2> QED
    BY <1>2, <2>1, <2>2 DEF t
<1>4. CASE in.op = "div"
  <2> DEFINE u == new(<<"div", st.reg[in.s1], st.reg[in.s2]>>)
  <2>1. t = [u EXCEPT !.traps = @ \cup {<<st.reg[in.s1], st.reg[in.s2]>>}]
    BY <1>4 DEF Exec
  <2>2. /\ IsState(u) /\ \A r \in Regs : u.reg[r] = IF r = in.dst THEN <<"div", st.reg[in.s1], st.reg[in.s2]>> ELSE st.reg[r]
        /\ u.mem = st.mem /\ u.seen = st.seen /\ u.traps = st.traps
    BY <1>2
  <2>3. Computed(alias, st, in) = <<"div", st.reg[in.s1], st.reg[in.s2]>>
    BY <1>4 DEF Computed
  <2>4. Trapped(st, in) = {<<st.reg[in.s1], st.reg[in.s2]>>}
    BY <1>4 DEF Trapped
  <2> HIDE DEF t, u, new
  <2>5. IsState(t) /\ t.reg = u.reg /\ t.mem = u.mem /\ t.seen = u.seen /\ t.traps = u.traps \cup {<<st.reg[in.s1], st.reg[in.s2]>>}
    BY <2>1, <2>2 DEF IsState
  <2> QED
    BY <2>2, <2>3, <2>4, <2>5 DEF t
<1> QED
  BY <1>3, <1>4

LEMMA ExecStore ==
  ASSUME NEW alias \in Objects, NEW st, IsState(st), NEW in \in AnyInstr, in.op \in {"stg", "stp"}
  PROVE  LET t == Exec(alias, st, in)
             o == IF in.op = "stg" THEN "global" ELSE alias
             v == IF in.op = "stg" THEN st.reg[in.s1] ELSE st.reg[in.s2]
         IN /\ IsState(t)
            /\ \A r \in Regs : t.reg[r] = IF r = o THEN v ELSE st.reg[r]
            /\ \A q \in {"global", "heap"} : t.mem[q] = IF q = o THEN v ELSE st.mem[q]
            /\ t.seen = st.seen /\ t.traps = st.traps
<1> DEFINE t == Exec(alias, st, in)
           o == IF in.op = "stg" THEN "global" ELSE alias
           v == IF in.op = "stg" THEN st.reg[in.s1] ELSE st.reg[in.s2]
<1>1. t = Written(st, o, v)
  BY DEF Exec
<1>2. o \in Addressed \/ o \in {"global", "heap"}
  BY DEF Objects
<1> HIDE DEF t, v, o
<1>3. CASE o \in Addressed
  <2>1. t = [st EXCEPT !.reg[o] = v]
    BY <1>1, <1>3 DEF Written
  <2>2. o \in Regs /\ o # "global" /\ o # "heap"
    BY <1>3, RegsApart
  <2> QED
    BY <2>1, <2>2 DEF IsState, t, v, o
<1>4. CASE o \notin Addressed
  <2>1. t = [st EXCEPT !.mem[o] = v]
    BY <1>1, <1>4 DEF Written
  <2>2. o \in {"global", "heap"} /\ o \notin Regs
    BY <1>2, <1>4, RegsApart
  <2>3. /\ IsState(t) /\ \A r \in Regs : t.reg[r] = IF r = o THEN v ELSE st.reg[r]
        /\ \A q \in {"global", "heap"} : t.mem[q] = IF q = o THEN v ELSE st.mem[q]
        /\ t.seen = st.seen /\ t.traps = st.traps
    BY <2>1, <2>2 DEF IsState
  <2> QED
    BY <2>3 DEF t, v, o
<1> QED
  BY <1>3, <1>4

LEMMA ExecCall ==
  ASSUME NEW alias \in Objects, NEW st, IsState(st), NEW in \in AnyInstr, in.op = "call"
  PROVE  LET t == Exec(alias, st, in)
             k == Len(st.seen) + 1
         IN /\ IsState(t)
            /\ \A r \in Regs : t.reg[r] = IF r = in.dst THEN <<"ret", k>>
                                          ELSE IF r \in Addressed THEN <<"left", k, r>> ELSE st.reg[r]
            /\ \A q \in {"global", "heap"} : t.mem[q] = <<"left", k, q>>
            /\ t.seen = Append(st.seen, <<st.reg[in.s1], Memory(st)>>) /\ t.traps = st.traps
<1>1. Exec(alias, st, in) = AfterCall(st, in)
  BY DEF Exec
<1>2. in.dst \in Regs
  BY InstrParts
<1> DEFINE k == Len(st.seen) + 1
           left == [r \in Regs |-> IF r \in Addressed THEN <<"left", k, r>> ELSE st.reg[r]]
           mem == [o \in {"global", "heap"} |-> <<"left", k, o>>]
           seen2 == Append(st.seen, <<st.reg[in.s1], Memory(st)>>)
           t == Exec(alias, st, in)
<1>3. DOMAIN st.mem = {"global", "heap"}
  BY DEF IsState
<1>4. t = [st EXCEPT !.seen = seen2, !.mem = mem, !.reg = [left EXCEPT ![in.dst] = <<"ret", k>>]]
  BY <1>1, <1>3 DEF AfterCall
<1>5. /\ t.seen = seen2 /\ t.mem = mem /\ t.reg = [left EXCEPT ![in.dst] = <<"ret", k>>] /\ t.traps = st.traps
      /\ t = [reg |-> t.reg, mem |-> t.mem, seen |-> t.seen, traps |-> t.traps]
  <2> HIDE DEF t, seen2, mem, left, k
  <2> QED
    BY <1>4 DEF IsState
<1> HIDE DEF t
<1>6. /\ t.reg = [r \in Regs |-> t.reg[r]] /\ t.mem = [o \in {"global", "heap"} |-> t.mem[o]]
      /\ \A r \in Regs : t.reg[r] = IF r = in.dst THEN <<"ret", k>> ELSE left[r]
  <2> HIDE DEF k
  <2> QED
    BY <1>2, <1>5
<1>7. /\ IsState(t) /\ t.seen = seen2 /\ t.traps = st.traps
      /\ \A r \in Regs : t.reg[r] = IF r = in.dst THEN <<"ret", k>>
                                    ELSE IF r \in Addressed THEN <<"left", k, r>> ELSE st.reg[r]
      /\ \A q \in {"global", "heap"} : t.mem[q] = <<"left", k, q>>
  <2>1. \A r \in Regs : left[r] = IF r \in Addressed THEN <<"left", k, r>> ELSE st.reg[r]
    OBVIOUS
  <2>2. \A q \in {"global", "heap"} : mem[q] = <<"left", k, q>>
    OBVIOUS
  <2> HIDE DEF left, mem, k, seen2
  <2> QED
    BY <1>5, <1>6, <2>1, <2>2 DEF IsState
<1> QED
  BY <1>7 DEF t

LEMMA ExecNop ==
  ASSUME NEW alias, NEW st
  PROVE  Exec(alias, st, Nop) = st
  BY DEF Exec, Nop

LEMMA ExecIs ==
  ASSUME NEW alias \in Objects, NEW st, IsState(st), NEW in \in AnyInstr
  PROVE  IsState(Exec(alias, st, in))
<1>1. in.op \in Pure \/ in.op \in {"stg", "stp"} \/ in.op = "call" \/ in = Nop
  BY InstrParts DEF Pure
<1>2. CASE in.op \in Pure
  BY <1>2, ExecPure
<1>3. CASE in.op \in {"stg", "stp"}
  BY <1>3, ExecStore
<1>4. CASE in.op = "call"
  BY <1>4, ExecCall
<1>5. CASE in = Nop
  BY <1>5, ExecNop
<1> QED
  BY <1>1, <1>2, <1>3, <1>4, <1>5

(***************************************************************************)
(* States that differ in registers of R only.                              *)
(***************************************************************************)
Alike(st, st2, R) ==
  /\ IsState(st) /\ IsState(st2)
  /\ st2.mem = st.mem /\ st2.seen = st.seen /\ st2.traps = st.traps
  /\ \A r \in Regs \ R : st2.reg[r] = st.reg[r]

Hidden == Regs \ Addressed    \* registers that memory does not show

LEMMA AlikeSame ==
  ASSUME NEW st, NEW st2, Alike(st, st2, {})
  PROVE  st = st2
  BY DEF Alike, IsState

LEMMA AlikeSees ==
  ASSUME NEW st, NEW st2, NEW R \in SUBSET Hidden, Alike(st, st2, R)
  PROVE  /\ \A o \in Objects : Value(st2, o) = Value(st, o)
         /\ Memory(st2) = Memory(st)
<1>1. \A o \in Addressed : o \in Regs \ R
  BY RegsApart DEF Hidden
<1>2. \A o \in Objects : Value(st2, o) = Value(st, o)
  BY <1>1 DEF Alike, Value
<1> QED
  BY <1>2 DEF Memory

(* An instruction sees the registers it reads and the memory.              *)
LEMMA ExecAlike ==
  ASSUME NEW alias \in Objects, NEW R \in SUBSET Hidden, NEW st, NEW st2, Alike(st, st2, R),
         NEW in \in AnyInstr, Srcs(in) \cap R = {}
  PROVE  Alike(Exec(alias, st, in), Exec(alias, st2, in), R \ {in.dst})
<1> DEFINE t == Exec(alias, st, in)
           t2 == Exec(alias, st2, in)
<1>1. IsState(st) /\ IsState(st2) /\ IsState(t) /\ IsState(t2)
  BY ExecIs DEF Alike
<1>2. Srcs(in) \subseteq Regs \ R
  BY RegsApart
<1>3. \A r \in Srcs(in) : st2.reg[r] = st.reg[r]
  BY <1>2 DEF Alike
<1>4. /\ in.s1 # NOREG => st2.reg[in.s1] = st.reg[in.s1]
      /\ in.s2 # NOREG => st2.reg[in.s2] = st.reg[in.s2]
  BY <1>3 DEF Srcs
<1>5. Value(st2, alias) = Value(st, alias) /\ Memory(st2) = Memory(st)
  BY AlikeSees
<1>6. st2.mem = st.mem /\ st2.seen = st.seen /\ st2.traps = st.traps /\ \A r \in Regs \ R : st2.reg[r] = st.reg[r]
  BY DEF Alike
<1>7. CASE in.op \in Pure
  <2>1. Computed(alias, st2, in) = Computed(alias, st, in)
    <3>1. CASE in.op \in {"add", "mul", "div"}
      <4>1. in.s1 # NOREG /\ in.s2 # NOREG
        BY <3>1, InstrParts, RegsApart
      <4> QED
        BY <1>4, <3>1, <4>1 DEF Computed
    <3>2. CASE in.op = "move"
      <4>1. in.s1 # NOREG
        BY <3>2, InstrParts, RegsApart
      <4> QED
        BY <1>4, <3>2, <4>1 DEF Computed
    <3>3. CASE in.op \in {"ldg", "ldp"}
      BY <1>5, <1>6, <3>3 DEF Computed
    <3> QED
      BY <1>7, <3>1, <3>2, <3>3 DEF Pure
  <2>2. Trapped(st2, in) = Trapped(st, in)
    <3>1. in.op = "div" => in.s1 # NOREG /\ in.s2 # NOREG
      BY InstrParts, RegsApart
    <3> QED
      BY <1>4, <3>1 DEF Trapped
  <2>3. /\ \A r \in Regs : t.reg[r] = IF r = in.dst THEN Computed(alias, st, in) ELSE st.reg[r]
        /\ t.mem = st.mem /\ t.seen = st.seen /\ t.traps = st.traps \cup Trapped(st, in)
    BY <1>1, <1>7, ExecPure
  <2>4. /\ \A r \in Regs : t2.reg[r] = IF r = in.dst THEN Computed(alias, st2, in) ELSE st2.reg[r]
        /\ t2.mem = st2.mem /\ t2.seen = st2.seen /\ t2.traps = st2.traps \cup Trapped(st2, in)
    BY <1>1, <1>7, ExecPure
  <2> HIDE DEF t, t2
  <2> QED
    BY <1>1, <1>6, <2>1, <2>2, <2>3, <2>4 DEF Alike, t, t2
<1>8. CASE in.op \in {"stg", "stp"}
  <2> DEFINE o == IF in.op = "stg" THEN "global" ELSE alias
             v == IF in.op = "stg" THEN st.reg[in.s1] ELSE st.reg[in.s2]
             v2 == IF in.op = "stg" THEN st2.reg[in.s1] ELSE st2.reg[in.s2]
  <2>1. v2 = v /\ in.dst = NOREG
    <3>1. in.dst = NOREG /\ in.s1 # NOREG /\ (in.op = "stp" => in.s2 # NOREG)
      BY <1>8, InstrParts, RegsApart
    <3> QED
      BY <1>4, <1>8, <3>1
  <2>2. /\ \A r \in Regs : t.reg[r] = IF r = o THEN v ELSE st.reg[r]
        /\ \A q \in {"global", "heap"} : t.mem[q] = IF q = o THEN v ELSE st.mem[q]
        /\ t.seen = st.seen /\ t.traps = st.traps
    BY <1>1, <1>8, ExecStore
  <2>3. /\ \A r \in Regs : t2.reg[r] = IF r = o THEN v2 ELSE st2.reg[r]
        /\ \A q \in {"global", "heap"} : t2.mem[q] = IF q = o THEN v2 ELSE st2.mem[q]
        /\ t2.seen = st2.seen /\ t2.traps = st2.traps
    BY <1>1, <1>8, ExecStore
  <2> HIDE DEF t, t2, o, v, v2
  <2>4. t2.mem = t.mem
    <3>1. \A q \in {"global", "heap"} : t2.mem[q] = t.mem[q]
      BY <1>6, <2>1, <2>2, <2>3
    <3> QED
      BY <1>1, <3>1 DEF IsState
  <2>5. \A r \in Regs \ R : t2.reg[r] = t.reg[r]
    BY <1>6, <2>1, <2>2, <2>3
  <2>6. R \ {in.dst} = R
    BY <2>1, RegsApart DEF Hidden
  <2> QED
    BY <1>1, <1>6, <2>2, <2>3, <2>4, <2>5, <2>6 DEF Alike, t, t2
<1>9. CASE in.op = "call"
  <2> DEFINE k == Len(st.seen) + 1
  <2>1. in.s1 # NOREG
    BY <1>9, InstrParts, RegsApart
  <2>2. /\ \A r \in Regs : t.reg[r] = IF r = in.dst THEN <<"ret", k>>
                                      ELSE IF r \in Addressed THEN <<"left", k, r>> ELSE st.reg[r]
        /\ \A q \in {"global", "heap"} : t.mem[q] = <<"left", k, q>>
        /\ t.seen = Append(st.seen, <<st.reg[in.s1], Memory(st)>>) /\ t.traps = st.traps
    BY <1>1, <1>9, ExecCall
  <2>3. /\ \A r \in Regs : t2.reg[r] = IF r = in.dst THEN <<"ret", Len(st2.seen) + 1>>
                                       ELSE IF r \in Addressed THEN <<"left", Len(st2.seen) + 1, r>> ELSE st2.reg[r]
        /\ \A q \in {"global", "heap"} : t2.mem[q] = <<"left", Len(st2.seen) + 1, q>>
        /\ t2.seen = Append(st2.seen, <<st2.reg[in.s1], Memory(st2)>>) /\ t2.traps = st2.traps
    BY <1>1, <1>9, ExecCall
  <2>4. Len(st2.seen) + 1 = k /\ st2.reg[in.s1] = st.reg[in.s1]
    BY <1>4, <1>6, <2>1
  <2> HIDE DEF t, t2, k
  <2>5. t2.mem = t.mem
    <3>1. \A q \in {"global", "heap"} : t2.mem[q] = t.mem[q]
      BY <2>2, <2>3, <2>4
    <3> QED
      BY <1>1, <3>1 DEF IsState
  <2>6. \A r \in Regs \ (R \ {in.dst}) : t2.reg[r] = t.reg[r]
    BY <1>6, <2>2, <2>3, <2>4
  <2>7. t2.seen = t.seen /\ t2.traps = t.traps
    BY <1>5, <1>6, <2>2, <2>3, <2>4
  <2> QED
    BY <1>1, <2>5, <2>6, <2>7 DEF Alike, t, t2
<1>10. CASE in = Nop
  <2>1. t = st /\ t2 = st2 /\ in.dst = NOREG
    BY <1>10, ExecNop DEF Nop
  <2>2. R \ {in.dst} = R
    BY <2>1, RegsApart DEF Hidden
  <2> QED
    BY <2>1, <2>2
<1>11. in.op \in Pure \/ in.op \in {"stg", "stp"} \/ in.op = "call" \/ in = Nop
  BY InstrParts DEF Pure
<1> QED
  BY <1>7, <1>8, <1>9, <1>10, <1>11

(* One that may be taken out changes the register of its result only.      *)
LEMMA ExecDead ==
  ASSUME NEW alias \in Objects, NEW R \in SUBSET Hidden, NEW st, NEW st2, Alike(st, st2, R),
         NEW in \in AnyInstr, Removable(in)
  PROVE  Alike(Exec(alias, st, in), st2, R \cup {in.dst}) /\ in.dst \in Hidden
<1>1. in.op \in Pure /\ in.op # "div"
  BY DEF Removable, Deletable, Pure
<1>2. IsState(st) /\ IsState(st2)
  BY DEF Alike
<1>3. Trapped(st, in) = {}
  BY <1>1 DEF Trapped
<1> DEFINE t == Exec(alias, st, in)
<1>4. /\ IsState(t) /\ \A r \in Regs : t.reg[r] = IF r = in.dst THEN Computed(alias, st, in) ELSE st.reg[r]
      /\ t.mem = st.mem /\ t.seen = st.seen /\ t.traps = st.traps \cup Trapped(st, in)
  BY <1>1, <1>2, ExecPure
<1>5. in.dst \in Hidden
  BY <1>1, InstrParts DEF Removable, Pure, Hidden
<1> HIDE DEF t
<1>6. t.traps = st.traps
  BY <1>3, <1>4
<1>7. Alike(t, st2, R \cup {in.dst})
  BY <1>2, <1>4, <1>6 DEF Alike
<1> QED
  BY <1>5, <1>7 DEF t

(***************************************************************************)
(* The states a block goes through.                                        *)
(***************************************************************************)
LEMMA StatesStep ==
  ASSUME NEW alias, NEW c
  PROVE  /\ States(alias, c)[0] = Entry
         /\ \A k \in 0..MaxCode : k # MaxCode => States(alias, c)[k + 1] = Exec(alias, States(alias, c)[k], c[k + 1])
<1> DEFINE Obeys(f, n) == f = [k \in 0..n |-> IF k = 0 THEN Entry ELSE Exec(alias, f[k - 1], c[k])]
           S == {n \in Nat : \E f : Obeys(f, n)}
<1>1. 0 \in S
  <2>1. Obeys([k \in 0..0 |-> Entry], 0)
    OBVIOUS
  <2> QED
    BY <2>1
<1>2. ASSUME NEW n \in Nat, n \in S PROVE n + 1 \in S
  <2>1. PICK f : Obeys(f, n)
    BY <1>2
  <2> DEFINE g == [k \in 0..n + 1 |-> IF k = n + 1 THEN Exec(alias, f[n], c[n + 1]) ELSE f[k]]
  <2>2. ASSUME NEW k \in 0..n + 1 PROVE g[k] = IF k = 0 THEN Entry ELSE Exec(alias, g[k - 1], c[k])
    <3>1. CASE k = 0
      <4>1. f[0] = Entry
        BY <2>1
      <4> QED
        BY <3>1, <4>1
    <3>2. CASE k = n + 1
      <4>1. k # 0 /\ k - 1 = n /\ n \in 0..n + 1 /\ n # n + 1
        BY <3>2
      <4> QED
        BY <3>2, <4>1
    <3>3. CASE k # 0 /\ k # n + 1
      <4>1. k \in 0..n /\ k - 1 \in 0..n + 1 /\ k - 1 # n + 1
        BY <3>3
      <4>2. f[k] = Exec(alias, f[k - 1], c[k])
        BY <2>1, <3>3, <4>1
      <4> QED
        BY <3>3, <4>1, <4>2
    <3> QED
      BY <3>1, <3>2, <3>3
  <2>3. Obeys(g, n + 1)
    <3>1. g = [k \in 0..n + 1 |-> g[k]]
      OBVIOUS
    <3> HIDE DEF g
    <3> QED
      BY <2>2, <3>1
  <2> HIDE DEF Obeys
  <2> QED
    BY <2>3
<1>3. MaxCode \in S
  <2> HIDE DEF S
  <2>1. \A n \in Nat : n \in S
    BY <1>1, <1>2, AllNumbers
  <2> QED
    BY <2>1, CodeBounded
<1>4. States(alias, c) = CHOOSE f : Obeys(f, MaxCode)
  BY DEF States
<1>5. Obeys(States(alias, c), MaxCode)
  <2> HIDE DEF Obeys
  <2> QED
    BY <1>3, <1>4
<1> DEFINE f == States(alias, c)
<1> HIDE DEF f
<1>6. f = [k \in 0..MaxCode |-> IF k = 0 THEN Entry ELSE Exec(alias, f[k - 1], c[k])]
  BY <1>5 DEF f
<1>7. f[0] = Entry
  BY <1>6, CodeBounded
<1>8. ASSUME NEW k \in 0..MaxCode, k # MaxCode PROVE f[k + 1] = Exec(alias, f[k], c[k + 1])
  <2>1. k + 1 \in 0..MaxCode /\ k + 1 # 0 /\ (k + 1) - 1 = k
    BY <1>8, CodeBounded
  <2> QED
    BY <1>6, <2>1
<1> QED
  BY <1>7, <1>8 DEF f

LEMMA StatesAre ==
  ASSUME NEW alias \in Objects, NEW c \in Code
  PROVE  \A k \in 0..MaxCode : IsState(States(alias, c)[k])
<1> DEFINE f == States(alias, c)
           S == {k \in 0..MaxCode : IsState(f[k])}
<1>1. f[0] = Entry /\ \A k \in 0..MaxCode : k # MaxCode => f[k + 1] = Exec(alias, f[k], c[k + 1])
  BY StatesStep
<1> HIDE DEF f
<1>2. 0 \in S
  BY <1>1, EntryIs, CodeBounded
<1>3. ASSUME NEW k \in 0..MaxCode, k # MaxCode, k \in S PROVE k + 1 \in S
  <2>1. k + 1 \in 1..MaxCode /\ k + 1 \in 0..MaxCode
    BY <1>3, CodeBounded
  <2>2. c[k + 1] \in AnyInstr
    BY <2>1 DEF Code
  <2> QED
    BY <1>1, <1>3, <2>1, <2>2, ExecIs
<1>4. \A k \in 0..MaxCode : k \in S
  <2> HIDE DEF S
  <2> QED
    BY <1>2, <1>3, AllPlaces, CodeBounded
<1> QED
  BY <1>4 DEF f

(* Two blocks whose instructions do the same where they stand.             *)
LEMMA SameStates ==
  ASSUME NEW alias, NEW c, NEW c2, NEW n \in 0..MaxCode,
         \A k \in 0..n : k # n => Exec(alias, States(alias, c)[k], c2[k + 1]) = Exec(alias, States(alias, c)[k], c[k + 1])
  PROVE  \A k \in 0..n : States(alias, c2)[k] = States(alias, c)[k]
<1> DEFINE f == States(alias, c)
           g == States(alias, c2)
           S == {k \in 0..n : g[k] = f[k]}
<1>1. /\ f[0] = Entry /\ \A k \in 0..MaxCode : k # MaxCode => f[k + 1] = Exec(alias, f[k], c[k + 1])
      /\ g[0] = Entry /\ \A k \in 0..MaxCode : k # MaxCode => g[k + 1] = Exec(alias, g[k], c2[k + 1])
  BY StatesStep
<1>2. \A k \in 0..n : k # n => Exec(alias, f[k], c2[k + 1]) = Exec(alias, f[k], c[k + 1])
  OBVIOUS
<1>3. n \in Nat /\ \A k \in 0..n : k \in 0..MaxCode /\ (k # n => k # MaxCode /\ k + 1 \in 0..n)
  BY CodeBounded
<1> HIDE DEF f, g
<1>4. 0 \in S
  BY <1>1, <1>3
<1>5. \A k \in 0..n : k # n /\ k \in S => k + 1 \in S
  BY <1>1, <1>2, <1>3
<1>6. \A k \in 0..n : k \in S
  <2> HIDE DEF S
  <2> QED
    BY <1>3, <1>4, <1>5, AllPlaces
<1> QED
  BY <1>6 DEF f, g

(* What the rest of the program sees of two blocks is the same.            *)
Equal(c, c2) == \A alias \in Objects : Meaning(alias, c, outLive) = Meaning(alias, c2, outLive)

LEMMA EqualIf ==
  ASSUME NEW c \in Code, NEW c2 \in Code, outLive \subseteq Reads,
         \A alias \in Objects : \E R \in SUBSET Hidden :
            R \cap outLive = {} /\ Alike(States(alias, c)[MaxCode], States(alias, c2)[MaxCode], R)
  PROVE  Equal(c, c2)
<1> SUFFICES ASSUME NEW alias \in Objects PROVE Meaning(alias, c, outLive) = Meaning(alias, c2, outLive)
  BY DEF Equal
<1> DEFINE st == States(alias, c)[MaxCode]
           st2 == States(alias, c2)[MaxCode]
<1>1. PICK R \in SUBSET Hidden : R \cap outLive = {} /\ Alike(st, st2, R)
  OBVIOUS
<1>2. Memory(st2) = Memory(st)
  BY <1>1, AlikeSees
<1>3. st2.seen = st.seen /\ st2.traps = st.traps
  BY <1>1 DEF Alike
<1>4. \A r \in outLive : st2.reg[r] = st.reg[r]
  <2>1. \A r \in outLive : r \in Regs \ R
    BY <1>1, RegsApart
  <2> QED
    BY <1>1, <2>1 DEF Alike
<1>5. [r \in outLive |-> st2.reg[r]] = [r \in outLive |-> st.reg[r]]
  BY <1>4
<1> QED
  BY <1>2, <1>3, <1>5 DEF Meaning

LEMMA EqualStates ==
  ASSUME NEW c \in Code, NEW c2 \in Code,
         \A alias \in Objects : States(alias, c2)[MaxCode] = States(alias, c)[MaxCode]
  PROVE  Equal(c, c2)
  BY DEF Equal, Meaning

(* Nobody reads register r after instruction i before it is written again. *)
DeadAfter(c, i, r) ==
  /\ \A k \in Places : k > i /\ r \in Srcs(c[k]) => \E j \in Places : i < j /\ j < k /\ c[j].dst = r
  /\ r \in outLive => \E j \in Places : i < j /\ c[j].dst = r

(* An instruction without effects whose result is dead may be taken out.   *)
LEMMA TakenOut ==
  ASSUME NEW c \in Code, NEW i \in Places, Removable(c[i]), DeadAfter(c, i, c[i].dst), outLive \subseteq Reads
  PROVE  Equal(c, [c EXCEPT ![i] = Nop])
<1> DEFINE c2 == [c EXCEPT ![i] = Nop]
           r == c[i].dst
           Renewed(k) == \E j \in Places : i < j /\ j <= k /\ c[j].dst = r
           D(k) == IF k < i \/ Renewed(k) THEN {} ELSE {r}
<1>1. i \in 1..MaxCode /\ MaxCode \in Nat /\ c[i] \in AnyInstr /\ Nop \in AnyInstr
  BY CodeBounded DEF Places, Code, AnyInstr
<1>2. c2 \in Code /\ c2[i] = Nop /\ \A k \in Places : k # i => c2[k] = c[k]
  BY <1>1 DEF Code, Places
<1>3. r \in Hidden
  BY <1>1, InstrParts DEF Removable, Deletable, Hidden
<1> HIDE DEF c2
<1>4. ASSUME NEW alias \in Objects
      PROVE  \A k \in 0..MaxCode : Alike(States(alias, c)[k], States(alias, c2)[k], D(k))
  <2> DEFINE f == States(alias, c)
             g == States(alias, c2)
             S == {k \in 0..MaxCode : Alike(f[k], g[k], D(k))}
  <2>1. /\ f[0] = Entry /\ \A k \in 0..MaxCode : k # MaxCode => f[k + 1] = Exec(alias, f[k], c[k + 1])
        /\ g[0] = Entry /\ \A k \in 0..MaxCode : k # MaxCode => g[k + 1] = Exec(alias, g[k], c2[k + 1])
    BY StatesStep
  <2> HIDE DEF f, g
  <2>2. 0 \in S
    <3>1. 0 < i
      BY <1>1
    <3>2. Alike(f[0], g[0], {})
      BY <2>1, EntryIs DEF Alike
    <3> QED
      BY <1>1, <3>1, <3>2
  <2>3. ASSUME NEW k \in 0..MaxCode, k # MaxCode, k \in S PROVE k + 1 \in S
    <3>1. k + 1 \in Places /\ k + 1 \in 0..MaxCode /\ c[k + 1] \in AnyInstr /\ k \in Nat /\ i \in Nat
      BY <1>1, <2>3 DEF Places, Code
    <3>2. Alike(f[k], g[k], D(k)) /\ D(k) \in SUBSET Hidden
      BY <1>3, <2>3
    <3>3. f[k + 1] = Exec(alias, f[k], c[k + 1]) /\ g[k + 1] = Exec(alias, g[k], c2[k + 1])
      BY <2>1, <2>3
    <3>4. CASE k + 1 = i
      <4>1. D(k) = {} /\ D(k + 1) = {r}
        BY <3>1, <3>4
      <4>2. g[k + 1] = g[k]
        BY <1>2, <3>3, <3>4, ExecNop
      <4>3. Alike(f[k + 1], g[k], D(k) \cup {r})
        <5> HIDE DEF D
        <5> QED
          BY <3>1, <3>2, <3>3, <3>4, ExecDead
      <4> QED
        BY <3>1, <4>1, <4>2, <4>3
    <3>5. CASE k + 1 < i
      <4>1. D(k) = {} /\ D(k + 1) = {}
        BY <3>1, <3>5
      <4>2. c2[k + 1] = c[k + 1]
        BY <1>2, <3>1, <3>5
      <4>3. Alike(f[k + 1], g[k + 1], {} \ {c[k + 1].dst})
        BY <3>1, <3>2, <3>3, <4>1, <4>2, ExecAlike
      <4> QED
        BY <3>1, <4>1, <4>3
    <3>6. CASE i < k + 1
      <4>1. c2[k + 1] = c[k + 1]
        BY <1>2, <3>1, <3>6
      <4>2. Srcs(c[k + 1]) \cap D(k) = {}
        <5>1. ASSUME r \in Srcs(c[k + 1]) PROVE Renewed(k)
          <6>1. PICK j \in Places : i < j /\ j < k + 1 /\ c[j].dst = r
            BY <3>1, <3>6, <5>1 DEF DeadAfter
          <6> QED
            BY <3>1, <6>1 DEF Places
        <5> QED
          BY <5>1
      <4>3. Alike(f[k + 1], g[k + 1], D(k) \ {c[k + 1].dst})
        <5> HIDE DEF D
        <5> QED
          BY <3>1, <3>2, <3>3, <4>1, <4>2, ExecAlike
      <4>4. D(k + 1) = D(k) \ {c[k + 1].dst}
        <5>1. Renewed(k + 1) <=> Renewed(k) \/ c[k + 1].dst = r
          <6>1. \A j \in Places : j <= k + 1 <=> (j <= k \/ j = k + 1)
            BY <3>1 DEF Places
          <6> QED
            BY <3>1, <3>6, <6>1
        <5>2. ~(k + 1 < i) /\ ~(k < i)
          BY <3>1, <3>6
        <5> QED
          BY <5>1, <5>2
      <4> QED
        BY <3>1, <4>3, <4>4
    <3>7. k + 1 = i \/ k + 1 < i \/ i < k + 1
      BY <3>1
    <3> QED
      BY <3>4, <3>5, <3>6, <3>7
  <2>4. \A k \in 0..MaxCode : k \in S
    <3> HIDE DEF S
    <3> QED
      BY <1>1, <2>2, <2>3, AllPlaces
  <2> HIDE DEF D
  <2> QED
    BY <2>4 DEF f, g
<1>5. D(MaxCode) \in SUBSET Hidden /\ D(MaxCode) \cap outLive = {}
  <2>1. r \in outLive => Renewed(MaxCode)
    BY <1>1 DEF DeadAfter, Places
  <2> QED
    BY <1>3, <2>1
<1>6. MaxCode \in 0..MaxCode
  BY <1>1
<1>7. \A alias \in Objects : Alike(States(alias, c)[MaxCode], States(alias, c2)[MaxCode], D(MaxCode))
  <2> HIDE DEF D
  <2> QED
    BY <1>4, <1>6
<1>8. Equal(c, c2)
  <2> HIDE DEF D
  <2> QED
    BY <1>2, <1>5, <1>7, EqualIf
<1> QED
  BY <1>8 DEF c2

(* A register that memory does not show changes by name only.              *)
LEMMA Untouched ==
  ASSUME NEW alias \in Objects, NEW st, IsState(st), NEW in \in AnyInstr
  PROVE  /\ \A r \in Hidden : r # in.dst => Exec(alias, st, in).reg[r] = st.reg[r]
         /\ in.op \notin {"call", "stp"} => \A r \in Regs : r # in.dst => Exec(alias, st, in).reg[r] = st.reg[r]
         /\ st.traps \subseteq Exec(alias, st, in).traps
         /\ in.op \notin {"call", "stp", "stg"} => Exec(alias, st, in).mem = st.mem
<1> DEFINE t == Exec(alias, st, in)
<1>1. in.op \in Pure \/ in.op \in {"stg", "stp"} \/ in.op = "call" \/ in = Nop
  BY InstrParts DEF Pure
<1>2. Hidden \subseteq Regs /\ (\A r \in Hidden : r \notin Addressed) /\ \A r \in Regs : r # "global" /\ r # "heap"
  BY RegsApart DEF Hidden
<1>3. CASE in.op \in Pure
  <2>1. \A r \in Regs : t.reg[r] = IF r = in.dst THEN Computed(alias, st, in) ELSE st.reg[r]
    BY <1>3, ExecPure
  <2>2. t.mem = st.mem /\ t.traps = st.traps \cup Trapped(st, in)
    BY <1>3, ExecPure
  <2> HIDE DEF t
  <2> QED
    BY <1>2, <2>1, <2>2 DEF t
<1>4. CASE in.op \in {"stg", "stp"}
  <2> DEFINE o == IF in.op = "stg" THEN "global" ELSE alias
             v == IF in.op = "stg" THEN st.reg[in.s1] ELSE st.reg[in.s2]
  <2>1. (\A r \in Regs : t.reg[r] = IF r = o THEN v ELSE st.reg[r]) /\ t.traps = st.traps
    BY <1>4, ExecStore
  <2>2. \A r \in Hidden : r # o
    BY <1>2 DEF Objects
  <2>3. in.op \notin {"call", "stp"} => \A r \in Regs : r # o
    BY <1>2, <1>4
  <2>4. in.op \notin {"call", "stp", "stg"} => FALSE
    BY <1>4
  <2> HIDE DEF t, o, v
  <2> QED
    BY <1>2, <2>1, <2>2, <2>3, <2>4 DEF t
<1>5. CASE in.op = "call"
  <2> DEFINE k == Len(st.seen) + 1
  <2>0. /\ \A r \in Regs : t.reg[r] = IF r = in.dst THEN <<"ret", k>>
                                        ELSE IF r \in Addressed THEN <<"left", k, r>> ELSE st.reg[r]
        /\ t.traps = st.traps
    BY <1>5, ExecCall
  <2> HIDE DEF t, k
  <2>1. \A r \in Regs : r \notin Addressed /\ r # in.dst => t.reg[r] = st.reg[r]
    BY <2>0
  <2>2. t.traps = st.traps
    BY <2>0
  <2> HIDE DEF t
  <2> QED
    BY <1>2, <1>5, <2>1, <2>2 DEF t
<1>6. CASE in = Nop
  BY <1>6, ExecNop
<1> QED
  BY <1>1, <1>3, <1>4, <1>5, <1>6

(* Other registers read in place of t.                                     *)
LEMMA ReadsInstead ==
  ASSUME NEW in \in AnyInstr, NEW t \in Regs, NEW r \in Reads
  PROVE  LET new == [in EXCEPT !.s1 = IF @ = t THEN r ELSE @, !.s2 = IF @ = t THEN r ELSE @]
         IN /\ new \in AnyInstr /\ new.op = in.op /\ new.dst = in.dst
            /\ new.s1 = (IF in.s1 = t THEN r ELSE in.s1) /\ new.s2 = (IF in.s2 = t THEN r ELSE in.s2)
<1> DEFINE a == IF in.s1 = t THEN r ELSE in.s1
           b == IF in.s2 = t THEN r ELSE in.s2
           new == [in EXCEPT !.s1 = IF @ = t THEN r ELSE @, !.s2 = IF @ = t THEN r ELSE @]
           made == [op |-> in.op, dst |-> in.dst, s1 |-> a, s2 |-> b]
<1>1. in = [op |-> in.op, dst |-> in.dst, s1 |-> in.s1, s2 |-> in.s2]
  BY InstrParts
<1>2. new = made
  <2>1. new = [in EXCEPT !.s1 = a, !.s2 = b]
    OBVIOUS
  <2> HIDE DEF a, b, new
  <2>2. [in EXCEPT !.s1 = a, !.s2 = b] = made
    <3> DEFINE nw == [in EXCEPT !.s1 = a, !.s2 = b]
    <3>0. nw = [in EXCEPT !.s1 = a, !.s2 = b]
      OBVIOUS
    <3> HIDE DEF nw
    <3>1. /\ nw = [op |-> nw.op, dst |-> nw.dst, s1 |-> nw.s1, s2 |-> nw.s2]
          /\ nw.op = in.op /\ nw.dst = in.dst /\ nw.s1 = a /\ nw.s2 = b
      BY <1>1, <3>0
    <3>2. nw = made
      BY <3>1
    <3> QED
      BY <3>2 DEF nw
  <2> QED
    BY <2>1, <2>2
<1>3. r \in Regs /\ NOREG # t /\ NOREG # r
  BY RegsApart
<1> HIDE DEF new
<1>4. made \in AnyInstr
  <2>1. CASE in \in [op : Ops \cap {"add", "mul", "div"}, dst : Regs, s1 : Reads, s2 : Reads]
    <3>1. made \in [op : Ops \cap {"add", "mul", "div"}, dst : Regs, s1 : Reads, s2 : Reads]
      BY <2>1
    <3> QED
      BY <3>1 DEF AnyInstr, Instrs
  <2>2. CASE in \in [op : Ops \cap {"move"}, dst : Regs, s1 : Regs, s2 : {NOREG}]
    <3>1. made \in [op : Ops \cap {"move"}, dst : Regs, s1 : Regs, s2 : {NOREG}]
      BY <1>3, <2>2
    <3> QED
      BY <3>1 DEF AnyInstr, Instrs
  <2>3. CASE in \in [op : Ops \cap {"call", "ldp"}, dst : Regs, s1 : Reads, s2 : {NOREG}]
    <3>1. made \in [op : Ops \cap {"call", "ldp"}, dst : Regs, s1 : Reads, s2 : {NOREG}]
      BY <1>3, <2>3
    <3> QED
      BY <3>1 DEF AnyInstr, Instrs
  <2>4. CASE in \in [op : Ops \cap {"ldg"}, dst : Regs, s1 : {NOREG}, s2 : {NOREG}]
    <3>1. made \in [op : Ops \cap {"ldg"}, dst : Regs, s1 : {NOREG}, s2 : {NOREG}]
      BY <1>3, <2>4
    <3> QED
      BY <3>1 DEF AnyInstr, Instrs
  <2>5. CASE in \in [op : Ops \cap {"stg"}, dst : {NOREG}, s1 : Reads, s2 : {NOREG}]
    <3>1. made \in [op : Ops \cap {"stg"}, dst : {NOREG}, s1 : Reads, s2 : {NOREG}]
      BY <1>3, <2>5
    <3> QED
      BY <3>1 DEF AnyInstr, Instrs
  <2>6. CASE in \in [op : Ops \cap {"stp"}, dst : {NOREG}, s1 : Reads, s2 : Reads]
    <3>1. made \in [op : Ops \cap {"stp"}, dst : {NOREG}, s1 : Reads, s2 : Reads]
      BY <1>3, <2>6
    <3> QED
      BY <3>1 DEF AnyInstr, Instrs
  <2>7. CASE in = Nop
    <3>1. made = in
      BY <1>1, <1>3, <2>7 DEF Nop
    <3> QED
      BY <3>1
  <2> QED
    BY <2>1, <2>2, <2>3, <2>4, <2>5, <2>6, <2>7 DEF AnyInstr, Instrs
<1>5. new.op = in.op /\ new.dst = in.dst /\ new.s1 = a /\ new.s2 = b
  BY <1>2
<1> QED
  BY <1>2, <1>4, <1>5 DEF new

(* What the instruction reads has the values that were there before.       *)
LEMMA ExecInstead ==
  ASSUME NEW alias, NEW st, NEW in, NEW in2, in2.op = in.op, in2.dst = in.dst,
         st.reg[in2.s1] = st.reg[in.s1] \/ in2.s1 = in.s1,
         st.reg[in2.s2] = st.reg[in.s2] \/ in2.s2 = in.s2
  PROVE  Exec(alias, st, in2) = Exec(alias, st, in)
<1>1. st.reg[in2.s1] = st.reg[in.s1] /\ st.reg[in2.s2] = st.reg[in.s2]
  OBVIOUS
<1> QED
  BY <1>1 DEF Exec, AfterCall

LEMMA SweepStep ==
  ASSUME NEW p, NEW an
  PROVE  /\ Sweep(p, an)[0] = [c |-> code, known |-> Known(p, an)]
         /\ \A k \in 0..MaxCode : k # MaxCode => Sweep(p, an)[k + 1] = Step(p, an, Sweep(p, an)[k], k + 1)
<1> DEFINE start == [c |-> code, known |-> Known(p, an)]
           Obeys(f, n) == f = [k \in 0..n |-> IF k = 0 THEN start ELSE Step(p, an, f[k - 1], k)]
           S == {n \in Nat : \E f : Obeys(f, n)}
<1>1. 0 \in S
  <2>1. Obeys([k \in 0..0 |-> start], 0)
    <3> HIDE DEF start
    <3> QED
      OBVIOUS
  <2> QED
    BY <2>1
<1>2. ASSUME NEW n \in Nat, n \in S PROVE n + 1 \in S
  <2>1. PICK f : Obeys(f, n)
    BY <1>2
  <2> DEFINE g == [k \in 0..n + 1 |-> IF k = n + 1 THEN Step(p, an, f[n], n + 1) ELSE f[k]]
  <2> HIDE DEF start
  <2>2. ASSUME NEW k \in 0..n + 1 PROVE g[k] = IF k = 0 THEN start ELSE Step(p, an, g[k - 1], k)
    <3>1. CASE k = 0
      <4>1. f[0] = start
        BY <2>1
      <4> QED
        BY <3>1, <4>1
    <3>2. CASE k = n + 1
      <4>1. k # 0 /\ k - 1 = n /\ n \in 0..n + 1 /\ n # n + 1
        BY <3>2
      <4> QED
        BY <3>2, <4>1
    <3>3. CASE k # 0 /\ k # n + 1
      <4>1. k \in 0..n /\ k - 1 \in 0..n + 1 /\ k - 1 # n + 1
        BY <3>3
      <4>2. f[k] = Step(p, an, f[k - 1], k)
        BY <2>1, <3>3, <4>1
      <4> QED
        BY <3>3, <4>1, <4>2
    <3> QED
      BY <3>1, <3>2, <3>3
  <2>3. Obeys(g, n + 1)
    <3>1. g = [k \in 0..n + 1 |-> g[k]]
      OBVIOUS
    <3> HIDE DEF g
    <3> QED
      BY <2>2, <3>1
  <2> HIDE DEF Obeys
  <2> QED
    BY <2>3
<1>3. MaxCode \in S
  <2> HIDE DEF S
  <2>1. \A n \in Nat : n \in S
    BY <1>1, <1>2, AllNumbers
  <2> QED
    BY <2>1, CodeBounded
<1>4. Sweep(p, an) = CHOOSE f : Obeys(f, MaxCode)
  BY DEF Sweep
<1>5. Obeys(Sweep(p, an), MaxCode)
  <2> HIDE DEF Obeys
  <2> QED
    BY <1>3, <1>4
<1> DEFINE f == Sweep(p, an)
<1> HIDE DEF f, start
<1>6. f = [k \in 0..MaxCode |-> IF k = 0 THEN start ELSE Step(p, an, f[k - 1], k)]
  BY <1>5 DEF f
<1>7. f[0] = start
  BY <1>6, CodeBounded
<1>8. ASSUME NEW k \in 0..MaxCode, k # MaxCode PROVE f[k + 1] = Step(p, an, f[k], k + 1)
  <2>1. k + 1 \in 0..MaxCode /\ k + 1 # 0 /\ (k + 1) - 1 = k
    BY <1>8, CodeBounded
  <2> QED
    BY <1>6, <2>1
<1> QED
  BY <1>7, <1>8 DEF f, start

(***************************************************************************)
(* What a step of a pass may make of the block.                            *)
(***************************************************************************)
ReadsDefined(c) ==
  \A k \in Places : \A r \in Srcs(c[k]) : r \in outDefs \/ \E j \in Places : j < k /\ c[j].dst = r

(* Either the results of products are not where calls write, or there are  *)
(* no calls, or the pass that remembers products is not run.               *)
CallsApart ==
  \/ Addressed = {}
  \/ \A k \in Places : source[k].op # "call"
  \/ \A k \in Places : source[k].op \notin {"mul", "div"}
  \/ ~full

Fine(c) ==
  /\ c \in Code /\ ReadsDefined(c)
  /\ \A k \in Places : c[k].op \in {source[k].op, "nop", "move"}

Follows(c, c2) == Fine(c2) /\ (CallsApart => Equal(c, c2))

LEMMA FollowsOn ==
  ASSUME NEW c, NEW c1, NEW c2, Follows(c, c1), Follows(c1, c2)
  PROVE  Follows(c, c2)
  BY DEF Follows, Equal

LEMMA FollowsSame ==
  ASSUME NEW c, Fine(c)
  PROVE  Follows(c, c)
  BY DEF Follows, Equal

LEMMA RemovedFollows ==
  ASSUME NEW c, Fine(c), NEW i \in Places, Removable(c[i]), DeadAfter(c, i, c[i].dst), outLive \subseteq Reads
  PROVE  Follows(c, [c EXCEPT ![i] = Nop])
<1> DEFINE c2 == [c EXCEPT ![i] = Nop]
<1>1. c \in Code /\ Nop \in AnyInstr
  BY DEF Fine, AnyInstr
<1>2. c2 \in Code /\ c2[i] = Nop /\ \A k \in Places : k # i => c2[k] = c[k]
  BY <1>1 DEF Code, Places
<1>3. Equal(c, c2)
  BY <1>1, TakenOut
<1>4. Srcs(Nop) = {} /\ Nop.op = "nop"
  BY DEF Srcs, Nop
<1> HIDE DEF c2
<1>5. ReadsDefined(c2)
  <2> SUFFICES ASSUME NEW k \in Places, NEW r \in Srcs(c2[k]), r \notin outDefs
               PROVE  \E j \in Places : j < k /\ c2[j].dst = r
    BY DEF ReadsDefined
  <2>1. k # i /\ c2[k] = c[k] /\ r \in Srcs(c[k])
    BY <1>2, <1>4
  <2>2. PICK j \in Places : j < k /\ c[j].dst = r
    BY <2>1 DEF Fine, ReadsDefined
  <2>3. CASE j # i
    BY <1>2, <2>2, <2>3
  <2>4. CASE j = i
    <3>1. PICK q \in Places : i < q /\ q < k /\ c[q].dst = r
      BY <2>1, <2>2, <2>4 DEF DeadAfter, Places
    <3>2. q # i
      BY <3>1 DEF Places
    <3> QED
      BY <1>2, <3>1, <3>2
  <2> QED
    BY <2>3, <2>4
<1>6. Follows(c, c2)
  BY <1>1, <1>2, <1>3, <1>4, <1>5 DEF Follows, Fine
<1> QED
  BY <1>6 DEF c2

(***************************************************************************)
(* The passes that go backwards know what is dead.                         *)
(***************************************************************************)
LEMMA DeadBefore ==
  ASSUME NEW c, NEW i \in Places, NEW r, r \notin Srcs(c[i]), DeadAfter(c, i, r) \/ c[i].dst = r
  PROVE  DeadAfter(c, i - 1, r)
<1>1. i \in Nat /\ \A k \in Places : (k > i - 1 <=> (k > i \/ k = i)) /\ (i < k => i - 1 < k) /\ i - 1 < i /\ (k > i => i < k)
  BY CodeBounded DEF Places
<1>2. CASE c[i].dst = r
  BY <1>1, <1>2 DEF DeadAfter
<1>3. CASE DeadAfter(c, i, r)
  BY <1>1, <1>3 DEF DeadAfter
<1> QED
  BY <1>2, <1>3

LEMMA DeadWithout ==
  ASSUME NEW c \in Code, NEW i \in Places, NEW r \in Regs, DeadAfter(c, i, r)
  PROVE  DeadAfter([c EXCEPT ![i] = Nop], i - 1, r)
<1> DEFINE c2 == [c EXCEPT ![i] = Nop]
<1>1. c2[i] = Nop /\ \A k \in Places : k # i => c2[k] = c[k]
  BY DEF Code, Places
<1>2. i \in Nat /\ \A k \in Places : k \in Nat
  BY DEF Places
<1>3. Srcs(Nop) = {}
  BY DEF Srcs, Nop
<1> HIDE DEF c2
<1>4. DeadAfter(c2, i, r)
  <2>1. ASSUME NEW k \in Places, k > i, r \in Srcs(c2[k]) PROVE \E j \in Places : i < j /\ j < k /\ c2[j].dst = r
    <3>1. PICK j \in Places : i < j /\ j < k /\ c[j].dst = r
      BY <1>1, <1>2, <2>1 DEF DeadAfter
    <3> QED
      BY <1>1, <1>2, <3>1
  <2>2. ASSUME r \in outLive PROVE \E j \in Places : i < j /\ c2[j].dst = r
    <3>1. PICK j \in Places : i < j /\ c[j].dst = r
      BY <2>2 DEF DeadAfter
    <3> QED
      BY <1>1, <1>2, <3>1
  <2> QED
    BY <2>1, <2>2 DEF DeadAfter
<1>5. DeadAfter(c2, i - 1, r)
  BY <1>1, <1>3, <1>4, DeadBefore
<1> QED
  BY <1>5 DEF c2

IsSweep(st) == st = [c |-> st.c, known |-> st.known]

LEMMA LivePass ==
  ASSUME NEW st, IsSweep(st), Fine(st.c), outLive \subseteq Reads, NEW i \in Places,
         \A r \in Regs : r \notin st.known => DeadAfter(st.c, i, r)
  PROVE  LET t == LiveStep(st, i)
         IN /\ IsSweep(t) /\ Follows(st.c, t.c)
            /\ \A r \in Regs : r \notin t.known => DeadAfter(t.c, i - 1, r)
<1> DEFINE in == st.c[i]
           t == LiveStep(st, i)
<1>1. CASE Removable(in) /\ in.dst \notin st.known
  <2>1. t = [st EXCEPT !.c[i] = Nop]
    BY <1>1 DEF LiveStep
  <2>2. IsSweep(t) /\ t.c = [st.c EXCEPT ![i] = Nop] /\ t.known = st.known
    BY <2>1 DEF IsSweep
  <2> HIDE DEF t
  <2>3. in.dst \in Regs
    BY <1>1, InstrParts DEF Fine, Code, Places, Removable, Deletable
  <2>4. Follows(st.c, t.c)
    BY <1>1, <2>2, <2>3, RemovedFollows
  <2>5. \A r \in Regs : r \notin t.known => DeadAfter(t.c, i - 1, r)
    BY <2>2, DeadWithout DEF Fine
  <2> QED
    BY <2>2, <2>4, <2>5 DEF t
<1>2. CASE ~(Removable(in) /\ in.dst \notin st.known)
  <2>1. t = [st EXCEPT !.known = (@ \ {in.dst}) \cup Srcs(in)]
    BY <1>2 DEF LiveStep
  <2>2. IsSweep(t) /\ t.c = st.c /\ t.known = (st.known \ {in.dst}) \cup Srcs(in)
    BY <2>1 DEF IsSweep
  <2> HIDE DEF t
  <2>3. \A r \in Regs : r \notin t.known => DeadAfter(t.c, i - 1, r)
    BY <2>2, DeadBefore
  <2> QED
    BY <2>2, <2>3, FollowsSame DEF t
<1> QED
  BY <1>1, <1>2

LEMMA DsePass ==
  ASSUME NEW st, IsSweep(st), Fine(st.c), outLive \subseteq Reads, NEW i \in Places,
         \A r \in st.known \cap Regs : DeadAfter(st.c, i, r)
  PROVE  LET t == DseStep(st, i)
         IN /\ IsSweep(t) /\ Follows(st.c, t.c)
            /\ \A r \in t.known \cap Regs : DeadAfter(t.c, i - 1, r)
<1> DEFINE in == st.c[i]
           over == IF in.op = "stp" THEN {} ELSE st.known
           t == DseStep(st, i)
<1>0. \A r \in over \cap Regs : DeadAfter(st.c, i, r)
  OBVIOUS
<1>1. CASE Removable(in) /\ in.dst \in over
  <2>1. t = [c |-> [st.c EXCEPT ![i] = Nop], known |-> over]
    BY <1>1 DEF DseStep
  <2>2. IsSweep(t) /\ t.c = [st.c EXCEPT ![i] = Nop] /\ t.known = over
    BY <2>1 DEF IsSweep
  <2> HIDE DEF t, over
  <2>3. in.dst \in Regs
    BY <1>1, InstrParts DEF Fine, Code, Places, Removable, Deletable
  <2>4. Follows(st.c, t.c)
    BY <1>0, <1>1, <2>2, <2>3, RemovedFollows
  <2>5. \A r \in t.known \cap Regs : DeadAfter(t.c, i - 1, r)
    BY <1>0, <2>2, DeadWithout DEF Fine
  <2> QED
    BY <2>2, <2>4, <2>5 DEF t
<1>2. CASE ~(Removable(in) /\ in.dst \in over)
  <2>1. t = [c |-> st.c, known |-> (over \cup ({in.dst} \ {NOREG})) \ Srcs(in)]
    BY <1>2 DEF DseStep
  <2>2. IsSweep(t) /\ t.c = st.c /\ t.known = (over \cup ({in.dst} \ {NOREG})) \ Srcs(in)
    BY <2>1 DEF IsSweep
  <2> HIDE DEF t, over
  <2>3. \A r \in t.known \cap Regs : DeadAfter(t.c, i - 1, r)
    BY <1>0, <2>2, DeadBefore
  <2> QED
    BY <2>2, <2>3, FollowsSame DEF t
<1> QED
  BY <1>1, <1>2

(***************************************************************************)
(* Uses and definitions as they are counted.                               *)
(***************************************************************************)
UsesIn(c, r) == {p \in Places \X {"s1", "s2"} : c[p[1]][p[2]] = r}
UsesAt(in, r) == {f \in {"s1", "s2"} : in[f] = r}
DefsIn(c, r) == {i \in Places : c[i].dst = r}

LEMMA CountsAre ==
  ASSUME NEW c \in Code, NEW r
  PROVE  /\ Uses(c, r) = Cardinality(UsesIn(c, r)) + Elsewhere(r, outLive)
         /\ Defs(c, r) = Cardinality(DefsIn(c, r)) + Elsewhere(r, outDefs)
         /\ IsFiniteSet(UsesIn(c, r)) /\ Cardinality(UsesIn(c, r)) \in Nat
         /\ IsFiniteSet(DefsIn(c, r)) /\ Cardinality(DefsIn(c, r)) \in Nat
<1>1. DOMAIN c = Places
  BY DEF Code, Places
<1>2. IsFiniteSet(Places)
  BY CodeBounded, FS_Interval DEF Places
<1>3. IsFiniteSet({"s1", "s2"})
  <2>1. {"s1", "s2"} = {"s1"} \cup {"s2"}
    OBVIOUS
  <2>2. IsFiniteSet({"s1"}) /\ IsFiniteSet({"s2"})
    BY FS_Singleton
  <2> QED
    BY <2>1, <2>2, FS_Union
<1>4. IsFiniteSet(Places \X {"s1", "s2"})
  BY <1>2, <1>3, FS_Product
<1>5. IsFiniteSet(UsesIn(c, r)) /\ IsFiniteSet(DefsIn(c, r))
  <2>1. UsesIn(c, r) \in SUBSET (Places \X {"s1", "s2"}) /\ DefsIn(c, r) \in SUBSET Places
    BY DEF UsesIn, DefsIn
  <2> QED
    BY <1>2, <1>4, <2>1, FS_Subset
<1>6. Cardinality(UsesIn(c, r)) \in Nat /\ Cardinality(DefsIn(c, r)) \in Nat
  BY <1>5, FS_CardinalityType
<1> QED
  BY <1>1, <1>5, <1>6 DEF Uses, Defs, UsesIn, DefsIn

LEMMA FieldsFew ==
  ASSUME NEW in, NEW r
  PROVE  IsFiniteSet(UsesAt(in, r)) /\ Cardinality(UsesAt(in, r)) \in Nat
<1>1. UsesAt(in, r) \in SUBSET {"s1", "s2"}
  BY DEF UsesAt
<1>2. {"s1", "s2"} = {"s1"} \cup {"s2"} /\ IsFiniteSet({"s1"}) /\ IsFiniteSet({"s2"})
  BY FS_Singleton
<1>3. IsFiniteSet({"s1", "s2"})
  BY <1>2, FS_Union
<1>4. IsFiniteSet(UsesAt(in, r))
  BY <1>1, <1>3, FS_Subset
<1> QED
  BY <1>4, FS_CardinalityType

LEMMA UsesRemoved ==
  ASSUME NEW c \in Code, NEW i \in Places, NEW r \in Regs
  PROVE  Cardinality(UsesIn([c EXCEPT ![i] = Nop], r)) = Cardinality(UsesIn(c, r)) - Cardinality(UsesAt(c[i], r))
<1> DEFINE c2 == [c EXCEPT ![i] = Nop]
           F == UsesAt(c[i], r)
           B == {p \in UsesIn(c, r) : p[1] = i}
           g == [f \in F |-> <<i, f>>]
<1>1. c2[i] = Nop /\ \A k \in Places : k # i => c2[k] = c[k]
  BY DEF Code, Places
<1>2. Nop["s1"] # r /\ Nop["s2"] # r
  BY RegsApart DEF Nop
<1> HIDE DEF c2
<1>3. UsesIn(c2, r) = UsesIn(c, r) \ B
  BY <1>1, <1>2 DEF UsesIn
<1>4. IsFiniteSet(UsesIn(c, r))
  BY CountsAre
<1>5. UsesIn(c, r) \cap B = B
  OBVIOUS
<1>6. Cardinality(UsesIn(c2, r)) = Cardinality(UsesIn(c, r)) - Cardinality(B)
  BY <1>3, <1>4, <1>5, FS_Difference
<1>7. IsFiniteSet(F)
  BY FieldsFew
<1>8. g \in Bijection(F, B)
  <2>1. \A f \in F : <<i, f>> \in B
    BY DEF UsesAt, UsesIn
  <2>2. \A p \in B : p[2] \in F /\ p = <<i, p[2]>>
    BY DEF UsesAt, UsesIn
  <2> HIDE DEF B, F
  <2>3. \A f \in F : g[f] = <<i, f>>
    OBVIOUS
  <2>4. \A x, y \in F : <<i, x>> = <<i, y>> => x = y
    OBVIOUS
  <2> QED
    BY <2>1, <2>2, <2>3, <2>4 DEF Bijection, Injection, Surjection, IsInjective
<1>9. Cardinality(B) = Cardinality(F)
  BY <1>7, <1>8, FS_Bijection DEF ExistsBijection
<1> QED
  BY <1>6, <1>9 DEF c2

LEMMA DcePass ==
  ASSUME NEW st, IsSweep(st), Fine(st.c), outLive \subseteq Reads, NEW i \in Places,
         st.known \in [Regs -> Int],
         \A r \in Regs : Cardinality(UsesIn(st.c, r)) + Elsewhere(r, outLive) <= st.known[r]
  PROVE  LET t == DceStep(st, i)
         IN /\ IsSweep(t) /\ Follows(st.c, t.c) /\ t.known \in [Regs -> Int]
            /\ \A r \in Regs : Cardinality(UsesIn(t.c, r)) + Elsewhere(r, outLive) <= t.known[r]
<1> DEFINE in == st.c[i]
           t == DceStep(st, i)
<1>0. st.c \in Code
  BY DEF Fine
<1>1. CASE Removable(in) /\ st.known[in.dst] = 0
  <2>1. t = [c |-> [st.c EXCEPT ![i] = Nop], known |-> [r \in Regs |-> st.known[r] - Cardinality(UsesAt(in, r))]]
    BY <1>1 DEF DceStep, UsesAt
  <2>2. IsSweep(t) /\ t.c = [st.c EXCEPT ![i] = Nop] /\ t.known = [r \in Regs |-> st.known[r] - Cardinality(UsesAt(in, r))]
    BY <2>1 DEF IsSweep
  <2> HIDE DEF t
  <2>3. in.dst \in Regs
    BY <1>0, <1>1, InstrParts DEF Code, Places, Removable, Deletable
  <2>4. \A r \in Regs : Cardinality(UsesIn(t.c, r)) = Cardinality(UsesIn(st.c, r)) - Cardinality(UsesAt(in, r))
    <3> HIDE DEF in
    <3> TAKE r \in Regs
    <3>1. Cardinality(UsesIn([st.c EXCEPT ![i] = Nop], r)) = Cardinality(UsesIn(st.c, r)) - Cardinality(UsesAt(st.c[i], r))
      BY <1>0, UsesRemoved
    <3> QED
      BY <2>2, <3>1 DEF in
  <2>5. \A r \in Regs : Elsewhere(r, outLive) \in {0, 1} /\ Cardinality(UsesIn(st.c, r)) \in Nat
    BY <1>0, CountsAre DEF Elsewhere
  <2>6. \A r \in Regs : Cardinality(UsesAt(in, r)) \in Nat
    BY FieldsFew
  <2>7. Cardinality(UsesIn(st.c, in.dst)) = 0 /\ Elsewhere(in.dst, outLive) = 0
    BY <1>1, <2>3, <2>5
  <2>8. UsesIn(st.c, in.dst) = {} /\ in.dst \notin outLive
    <3>1. IsFiniteSet(UsesIn(st.c, in.dst))
      BY <1>0, CountsAre
    <3> QED
      BY <2>7, <3>1, FS_EmptySet DEF Elsewhere
  <2>9. DeadAfter(st.c, i, in.dst)
    <3>1. \A k \in Places : in.dst \notin Srcs(st.c[k])
      <4> SUFFICES ASSUME NEW k \in Places, in.dst \in Srcs(st.c[k]) PROVE FALSE
        OBVIOUS
      <4>1. st.c[k]["s1"] = in.dst \/ st.c[k]["s2"] = in.dst
        BY DEF Srcs
      <4>2. <<k, "s1">> \in UsesIn(st.c, in.dst) \/ <<k, "s2">> \in UsesIn(st.c, in.dst)
        BY <4>1 DEF UsesIn
      <4> QED
        BY <2>8, <4>2
    <3> QED
      BY <2>8, <3>1 DEF DeadAfter
  <2>10. Follows(st.c, t.c)
    BY <1>1, <2>2, <2>9, RemovedFollows, Zenon
  <2>11. \A r \in Regs : Cardinality(UsesIn(t.c, r)) + Elsewhere(r, outLive) <= t.known[r]
    <3> TAKE r \in Regs
    <3> DEFINE u == Cardinality(UsesIn(st.c, r))
               u2 == Cardinality(UsesIn(t.c, r))
               n == Cardinality(UsesAt(in, r))
               e == Elsewhere(r, outLive)
    <3>1. u2 = u - n /\ u \in Nat /\ n \in Nat /\ e \in Int /\ t.known[r] = st.known[r] - n /\ st.known[r] \in Int /\ u + e <= st.known[r]
      BY <2>2, <2>4, <2>5, <2>6
    <3> HIDE DEF u, u2, n, e
    <3>2. u2 + e <= t.known[r]
      BY <3>1
    <3> QED
      BY <3>2 DEF u2, e
  <2>12. t.known \in [Regs -> Int]
    BY <2>2, <2>6
  <2> QED
    BY <2>2, <2>10, <2>11, <2>12 DEF t
<1>2. CASE ~(Removable(in) /\ st.known[in.dst] = 0)
  <2>1. t = st
    BY <1>2 DEF DceStep
  <2> QED
    BY <2>1, FollowsSame
<1> QED
  BY <1>1, <1>2

LEMMA StatesAt ==
  ASSUME NEW alias \in Objects, NEW c \in Code, NEW i \in Places
  PROVE  /\ i - 1 \in 0..MaxCode /\ i \in 0..MaxCode /\ c[i] \in AnyInstr
         /\ IsState(States(alias, c)[i - 1]) /\ IsState(States(alias, c)[i])
         /\ States(alias, c)[i] = Exec(alias, States(alias, c)[i - 1], c[i])
<1>1. i - 1 \in 0..MaxCode /\ i \in 0..MaxCode /\ i - 1 # MaxCode /\ (i - 1) + 1 = i
  BY CodeBounded DEF Places
<1>2. c[i] \in AnyInstr
  BY DEF Code, Places
<1>3. States(alias, c)[i] = Exec(alias, States(alias, c)[i - 1], c[i])
  <2> DEFINE f == States(alias, c)
  <2>1. \A k \in 0..MaxCode : k # MaxCode => f[k + 1] = Exec(alias, f[k], c[k + 1])
    BY StatesStep
  <2> HIDE DEF f
  <2>2. f[(i - 1) + 1] = Exec(alias, f[i - 1], c[(i - 1) + 1])
    BY <1>1, <2>1
  <2> QED
    BY <1>1, <2>2 DEF f
<1> QED
  BY <1>1, <1>2, <1>3, StatesAre

WrittenBy(c, n, r) == r \in outDefs \/ \E j \in Places : j <= n /\ c[j].dst = r

(* An instruction that does where it stands what the one before it did.    *)
DoesAs(c, i, new) ==
  /\ new \in AnyInstr /\ new.op \in {c[i].op, "nop", "move"}
  /\ new.dst = c[i].dst \/ WrittenBy(c, i - 1, c[i].dst)
  /\ \A r \in Srcs(new) : WrittenBy(c, i - 1, r)
  /\ CallsApart => \A alias \in Objects :
       Exec(alias, States(alias, c)[i - 1], new) = Exec(alias, States(alias, c)[i - 1], c[i])

Replaced(c, c2, i, new) ==
  /\ Follows(c, c2)
  /\ c2[i] = new /\ \A k \in Places : k # i => c2[k] = c[k]
  /\ CallsApart =>
       \A alias \in Objects : \A k \in 0..MaxCode : States(alias, c2)[k] = States(alias, c)[k]

LEMMA OneFollows ==
  ASSUME NEW c, Fine(c), NEW i \in Places, NEW new, DoesAs(c, i, new)
  PROVE  Replaced(c, [c EXCEPT ![i] = new], i, new)
<1> DEFINE c2 == [c EXCEPT ![i] = new]
<1>1. c \in Code
  BY DEF Fine
<1>2. c2 \in Code /\ c2[i] = new /\ \A k \in Places : k # i => c2[k] = c[k]
  BY <1>1 DEF Code, Places, DoesAs
<1>3. i \in Nat /\ MaxCode \in Nat /\ \A k \in Places : k \in Nat /\ (k <= i - 1 <=> k < i)
  BY CodeBounded DEF Places
<1> HIDE DEF c2
<1>4. ReadsDefined(c2)
  <2> SUFFICES ASSUME NEW k \in Places, NEW r \in Srcs(c2[k]), r \notin outDefs
               PROVE  \E j \in Places : j < k /\ c2[j].dst = r
    BY DEF ReadsDefined
  <2>1. PICK j \in Places : j < k /\ c[j].dst = r
    <3>1. CASE k = i
      BY <1>2, <1>3, <3>1 DEF WrittenBy, DoesAs
    <3>2. CASE k # i
      BY <1>2, <3>2 DEF Fine, ReadsDefined
    <3> QED
      BY <3>1, <3>2
  <2>2. CASE c2[j].dst = c[j].dst
    BY <2>1, <2>2
  <2>3. CASE c2[j].dst # c[j].dst
    <3>1. j = i /\ WrittenBy(c, i - 1, r)
      BY <1>2, <2>1, <2>3 DEF DoesAs
    <3>2. PICK q \in Places : q <= i - 1 /\ c[q].dst = r
      BY <3>1 DEF WrittenBy
    <3>3. q < k /\ q # i
      BY <1>3, <2>1, <3>1, <3>2
    <3> QED
      BY <1>2, <3>2, <3>3
  <2> QED
    BY <2>2, <2>3
<1>5. ASSUME CallsApart, NEW alias \in Objects
      PROVE  \A k \in 0..MaxCode : States(alias, c2)[k] = States(alias, c)[k]
  <2>1. MaxCode \in 0..MaxCode
    BY <1>3
  <2>2. ASSUME NEW k \in 0..MaxCode, k # MaxCode
        PROVE  Exec(alias, States(alias, c)[k], c2[k + 1]) = Exec(alias, States(alias, c)[k], c[k + 1])
    <3>1. k + 1 \in Places /\ (k + 1) - 1 = k
      BY <1>3, <2>2 DEF Places
    <3>2. CASE k + 1 = i
      <4>1. Exec(alias, States(alias, c)[i - 1], new) = Exec(alias, States(alias, c)[i - 1], c[i])
        BY <1>5 DEF DoesAs
      <4>2. k = i - 1
        BY <3>1, <3>2
      <4> QED
        BY <1>2, <3>2, <4>1, <4>2
    <3>3. CASE k + 1 # i
      BY <1>2, <3>1, <3>3
    <3> QED
      BY <3>2, <3>3
  <2> QED
    BY <2>1, <2>2, SameStates
<1>6. CallsApart => Equal(c, c2)
  <2>1. MaxCode \in 0..MaxCode
    BY <1>3
  <2> QED
    BY <1>1, <1>2, <1>5, <2>1, EqualStates
<1>7. Follows(c, c2)
  <2>1. \A k \in Places : c2[k].op \in {source[k].op, "nop", "move"}
    BY <1>2 DEF DoesAs, Fine
  <2> QED
    BY <1>2, <1>4, <1>6, <2>1 DEF Follows, Fine
<1> QED
  BY <1>2, <1>5, <1>7 DEF c2, Replaced

(* A register with one definition is not written again.                    *)
LEMMA OneDef ==
  ASSUME NEW an \in Code, NEW r, Defs(an, r) = 1, NEW n \in Int, WrittenBy(an, n, r), NEW k \in Places, k > n
  PROVE  an[k].dst # r
<1> SUFFICES ASSUME an[k].dst = r PROVE FALSE
  OBVIOUS
<1> DEFINE D == DefsIn(an, r)
<1>1. /\ Cardinality(D) + Elsewhere(r, outDefs) = 1
      /\ IsFiniteSet(D) /\ Cardinality(D) \in Nat
  BY CountsAre
<1>2. k \in D
  BY DEF DefsIn
<1>3. Cardinality(D) # 0
  <2> HIDE DEF D
  <2> QED
    BY <1>1, <1>2, FS_EmptySet
<1>4. r \notin outDefs /\ Cardinality(D) = 1
  <2> HIDE DEF D
  <2> QED
    BY <1>1, <1>3 DEF Elsewhere
<1>5. PICK j \in Places : j <= n /\ an[j].dst = r
  BY <1>4 DEF WrittenBy
<1>6. j \in D /\ j # k
  BY <1>5 DEF DefsIn, Places
<1>7. PICK x : D = {x}
  <2> HIDE DEF D
  <2> QED
    BY <1>1, <1>4, FS_Singleton
<1> QED
  BY <1>2, <1>6, <1>7

LEMMA OnlyDef ==
  ASSUME NEW an \in Code, NEW r, Defs(an, r) = 1, NEW i \in Places, an[i].dst = r
  PROVE  \A k \in Places : k # i => an[k].dst # r
<1> SUFFICES ASSUME NEW k \in Places, k # i, an[k].dst = r PROVE FALSE
  OBVIOUS
<1>1. CASE k > i
  <2>1. WrittenBy(an, i, r) /\ i \in Int
    BY DEF WrittenBy, Places
  <2> QED
    BY <1>1, <2>1, OneDef
<1>2. CASE i > k
  <2>1. WrittenBy(an, k, r) /\ k \in Int
    BY DEF WrittenBy, Places
  <2> QED
    BY <1>2, <2>1, OneDef
<1> QED
  BY <1>1, <1>2 DEF Places

(***************************************************************************)
(* Forwarding of globals: one register holds the value of the global.      *)
(***************************************************************************)
Holds(c, n, r) == \A alias \in Objects : States(alias, c)[n].mem["global"] = States(alias, c)[n].reg[r]

(* What the passes note of a register: it has one definition, made before. *)
Settled(an, c, n, r) == r \in Regs /\ Defs(an, r) = 1 /\ WrittenBy(c, n, r)

SameDsts(an, c) == \A k \in Places : c[k].dst = an[k].dst

LEMMA GlobalsPass ==
  ASSUME NEW an \in Code, NEW st, IsSweep(st), Fine(st.c), SameDsts(an, st.c), NEW i \in Places,
         \A r \in st.known : Settled(an, st.c, i - 1, r) /\ (CallsApart => Holds(st.c, i - 1, r))
  PROVE  LET t == GlobalsStep(an, st, i)
         IN /\ IsSweep(t) /\ Follows(st.c, t.c) /\ SameDsts(an, t.c)
            /\ \A r \in t.known : Settled(an, t.c, i, r) /\ (CallsApart => Holds(t.c, i, r))
<1> DEFINE c == st.c
           in == c[i]
           t == GlobalsStep(an, st, i)
           note(r) == IF Defs(an, r) = 1 THEN {r} ELSE {}
<1>1. c \in Code /\ in \in AnyInstr /\ i \in Int /\ i > i - 1
  <2>1. c \in Code
    BY DEF Fine
  <2> HIDE DEF c
  <2> QED
    BY <2>1 DEF Code, Places
<1>2. \A alias \in Objects : /\ IsState(States(alias, c)[i - 1])
                             /\ States(alias, c)[i] = Exec(alias, States(alias, c)[i - 1], in)
  BY <1>1, StatesAt
<1>3. CASE in.op \in Forgets
  <2>1. t = [st EXCEPT !.known = {}]
    BY <1>3 DEF GlobalsStep, Forgets
  <2>2. IsSweep(t) /\ t.c = c /\ t.known = {}
    BY <2>1 DEF IsSweep
  <2> QED
    BY <2>2, FollowsSame
<1>4. CASE in.op = "stg"
  <2>1. t = [st EXCEPT !.known = note(in.s1)]
    BY <1>4 DEF GlobalsStep, Forgets
  <2>2. IsSweep(t) /\ t.c = c /\ t.known = note(in.s1)
    BY <2>1 DEF IsSweep
  <2>3. in.s1 \in Regs /\ in.s1 \in Srcs(in)
    BY <1>1, <1>4, InstrParts, RegsApart DEF Srcs
  <2>4. WrittenBy(c, i, in.s1)
    BY <1>1, <2>3 DEF Fine, ReadsDefined, WrittenBy, Places
  <2>5. Holds(c, i, in.s1)
    <3> SUFFICES ASSUME NEW alias \in Objects PROVE States(alias, c)[i].mem["global"] = States(alias, c)[i].reg[in.s1]
      BY DEF Holds
    <3> DEFINE s == States(alias, c)[i - 1]
               u == Exec(alias, s, in)
    <3>1. IsState(s) /\ States(alias, c)[i] = u
      BY <1>2
    <3>2. /\ \A r \in Regs : u.reg[r] = IF r = "global" THEN s.reg[in.s1] ELSE s.reg[r]
          /\ \A q \in {"global", "heap"} : u.mem[q] = IF q = "global" THEN s.reg[in.s1] ELSE s.mem[q]
      <4> HIDE DEF s, in
      <4> QED
        BY <1>1, <1>4, <3>1, ExecStore
    <3>3. in.s1 # "global"
      BY <2>3, RegsApart
    <3> HIDE DEF u, s
    <3> QED
      BY <2>3, <3>1, <3>2, <3>3
  <2>6. \A r \in t.known : r = in.s1 /\ Defs(an, r) = 1
    BY <2>2
  <2> HIDE DEF t
  <2>7. \A r \in t.known : Settled(an, c, i, r) /\ Holds(c, i, r)
    BY <2>3, <2>4, <2>5, <2>6 DEF Settled
  <2> QED
    BY <2>2, <2>7, FollowsSame DEF t
<1>5. CASE in.op = "ldg" /\ st.known # {}
  <2> DEFINE s == CHOOSE r \in st.known : TRUE
             new == [op |-> "move", dst |-> in.dst, s2 |-> NOREG, s1 |-> s]
  <2>1. t = [st EXCEPT !.c[i] = new]
    BY <1>5 DEF GlobalsStep, Forgets
  <2>2. s \in st.known
    BY <1>5
  <2>3. IsSweep(t) /\ t.c = [c EXCEPT ![i] = new] /\ t.known = st.known
    <3> HIDE DEF new
    <3> QED
      BY <2>1 DEF IsSweep
  <2> HIDE DEF t, s
  <2>4. Settled(an, c, i - 1, s) /\ (CallsApart => Holds(c, i - 1, s))
    BY <2>2
  <2>5. in.dst \in Regs /\ s \in Regs
    BY <1>1, <1>5, <2>4, InstrParts DEF Settled
  <2>6. new \in AnyInstr /\ Srcs(new) = {s}
    BY <2>5, MovesExist, RegsApart DEF AnyInstr, Instrs, Srcs
  <2>7. new.op = "move" /\ new.dst = in.dst /\ new.s1 = s
    OBVIOUS
  <2> HIDE DEF new
  <2>8. ASSUME CallsApart, NEW alias \in Objects
        PROVE  Exec(alias, States(alias, c)[i - 1], new) = Exec(alias, States(alias, c)[i - 1], in)
    <3> DEFINE b == States(alias, c)[i - 1]
    <3>1. b.mem["global"] = b.reg[s]
      BY <2>4, <2>8 DEF Holds
    <3> HIDE DEF b
    <3>2. Exec(alias, b, new) = [b EXCEPT !.reg[in.dst] = b.reg[s]]
      BY <2>7 DEF Exec
    <3>3. Exec(alias, b, in) = [b EXCEPT !.reg[in.dst] = b.mem["global"]]
      BY <1>5 DEF Exec
    <3> QED
      BY <3>1, <3>2, <3>3 DEF b
  <2>9. /\ Follows(c, t.c)
        /\ t.c[i] = new /\ \A k \in Places : k # i => t.c[k] = c[k]
        /\ CallsApart => \A alias \in Objects : \A k \in 0..MaxCode : States(alias, t.c)[k] = States(alias, c)[k]
    <3>1. \A r \in Srcs(new) : WrittenBy(c, i - 1, r)
      BY <2>4, <2>6 DEF Settled
    <3> HIDE DEF c
    <3>2. new.op \in {c[i].op, "nop", "move"} /\ new.dst = c[i].dst
      BY <2>7
    <3>3. Fine(c)
      BY DEF c
    <3>4. DoesAs(c, i, new)
      BY <2>6, <2>8, <3>1, <3>2 DEF DoesAs
    <3>5. Replaced(c, [c EXCEPT ![i] = new], i, new)
      BY <3>3, <3>4, OneFollows
    <3>6. Replaced(c, t.c, i, new)
      BY <2>3, <3>5 DEF c
    <3> QED
      BY <3>6 DEF Replaced
  <2>10. SameDsts(an, t.c)
    BY <2>7, <2>9 DEF SameDsts
  <2>11. \A r \in t.known : Settled(an, t.c, i, r)
    <3> TAKE r \in t.known
    <3>1. Settled(an, c, i - 1, r)
      BY <2>3
    <3>2. \A j \in Places : j <= i - 1 => j <= i
      BY DEF Places
    <3>3. \A j \in Places : t.c[j].dst = c[j].dst
      BY <2>10 DEF SameDsts
    <3> QED
      BY <3>1, <3>2, <3>3 DEF Settled, WrittenBy
  <2>12. ASSUME NEW r \in t.known, CallsApart PROVE Holds(t.c, i, r)
    <3>1. Settled(an, c, i - 1, r) /\ Holds(c, i - 1, r)
      BY <2>3, <2>12
    <3>2. r \in Regs /\ r # in.dst
      <4>1. WrittenBy(an, i - 1, r) /\ Defs(an, r) = 1
        BY <3>1 DEF Settled, WrittenBy, SameDsts
      <4> QED
        BY <1>1, <3>1, <4>1, OneDef DEF Settled, SameDsts
    <3> SUFFICES ASSUME NEW alias \in Objects PROVE States(alias, t.c)[i].mem["global"] = States(alias, t.c)[i].reg[r]
      BY DEF Holds
    <3>3. States(alias, t.c)[i] = States(alias, c)[i]
      BY <1>1, <2>9, <2>12, StatesAt
    <3> DEFINE b == States(alias, c)[i - 1]
               u == Exec(alias, b, in)
    <3>4. IsState(b) /\ States(alias, c)[i] = u /\ b.mem["global"] = b.reg[r]
      BY <1>2, <3>1 DEF Holds
    <3>5. u.mem = b.mem /\ u.reg[r] = b.reg[r]
      <4> HIDE DEF b, in
      <4> QED
        BY <1>1, <1>5, <3>2, <3>4, Untouched
    <3> HIDE DEF u, b
    <3> QED
      BY <3>3, <3>4, <3>5
  <2> QED
    BY <2>3, <2>9, <2>10, <2>11, <2>12 DEF t
<1>6. CASE in.op = "ldg" /\ st.known = {}
  <2>1. t = [st EXCEPT !.known = note(in.dst)]
    BY <1>6 DEF GlobalsStep, Forgets
  <2>2. IsSweep(t) /\ t.c = c /\ t.known = note(in.dst)
    BY <2>1 DEF IsSweep
  <2>3. in.dst \in Regs
    BY <1>1, <1>6, InstrParts
  <2>4. WrittenBy(c, i, in.dst)
    BY <1>1 DEF WrittenBy, Places
  <2>5. Holds(c, i, in.dst)
    <3> SUFFICES ASSUME NEW alias \in Objects PROVE States(alias, c)[i].mem["global"] = States(alias, c)[i].reg[in.dst]
      BY DEF Holds
    <3> DEFINE s == States(alias, c)[i - 1]
               u == Exec(alias, s, in)
    <3>1. IsState(s) /\ States(alias, c)[i] = u
      BY <1>2
    <3>2. u.mem = s.mem /\ u.reg[in.dst] = Computed(alias, s, in)
      <4> HIDE DEF s, in
      <4> QED
        BY <1>1, <1>6, <2>3, <3>1, ExecPure DEF Pure
    <3>3. Computed(alias, s, in) = s.mem["global"]
      BY <1>6 DEF Computed
    <3> HIDE DEF u, s
    <3> QED
      BY <3>1, <3>2, <3>3
  <2>6. \A r \in t.known : r = in.dst /\ Defs(an, r) = 1
    BY <2>2
  <2> HIDE DEF t
  <2>7. \A r \in t.known : Settled(an, c, i, r) /\ Holds(c, i, r)
    BY <2>3, <2>4, <2>5, <2>6 DEF Settled
  <2> QED
    BY <2>2, <2>7, FollowsSame DEF t
<1>7. CASE in.op \notin Forgets \cup {"stg", "ldg"}
  <2>1. t = st
    BY <1>7 DEF GlobalsStep
  <2>2. \A r \in st.known : Settled(an, c, i, r)
    BY <1>1 DEF Settled, WrittenBy, Places
  <2>3. ASSUME NEW r \in st.known, CallsApart PROVE Holds(c, i, r)
    <3>1. Settled(an, c, i - 1, r) /\ Holds(c, i - 1, r)
      BY <2>3
    <3>2. r \in Regs /\ r # in.dst
      <4>1. WrittenBy(an, i - 1, r) /\ Defs(an, r) = 1
        BY <3>1 DEF Settled, WrittenBy, SameDsts
      <4> QED
        BY <1>1, <3>1, <4>1, OneDef DEF Settled, SameDsts
    <3> SUFFICES ASSUME NEW alias \in Objects PROVE States(alias, c)[i].mem["global"] = States(alias, c)[i].reg[r]
      BY DEF Holds
    <3> DEFINE b == States(alias, c)[i - 1]
               u == Exec(alias, b, in)
    <3>4. IsState(b) /\ States(alias, c)[i] = u /\ b.mem["global"] = b.reg[r]
      BY <1>2, <3>1 DEF Holds
    <3>5. u.mem = b.mem /\ u.reg[r] = b.reg[r]
      <4>1. in.op \notin {"call", "stp", "stg"}
        BY <1>7 DEF Forgets
      <4> HIDE DEF b, in
      <4> QED
        BY <1>1, <4>1, <3>2, <3>4, Untouched
    <3> HIDE DEF u, b
    <3> QED
      BY <3>4, <3>5
  <2> QED
    BY <2>1, <2>2, <2>3, FollowsSame
<1> QED
  BY <1>3, <1>4, <1>5, <1>6, <1>7

(***************************************************************************)
(* Common subexpressions: the products and quotients a register holds.     *)
(***************************************************************************)
HeldIn(alias, s, e) == s.reg[e.dst] = Computed(alias, s, e) /\ Trapped(s, e) \subseteq s.traps

Available(c, n, e) ==
  /\ e \in AnyInstr /\ e.op \in {"mul", "div"} /\ e.dst \notin Srcs(e)
  /\ \E j \in Places : j <= n /\ c[j] = e
  /\ CallsApart => \A alias \in Objects : HeldIn(alias, States(alias, c)[n], e)

LEMMA TermParts ==
  ASSUME NEW e \in AnyInstr, e.op \in {"mul", "div"}
  PROVE  /\ e.dst \in Regs /\ e.s1 \in Hidden /\ e.s2 \in Hidden
         /\ Srcs(e) = {e.s1, e.s2}
<1>1. e.dst \in Regs /\ e.s1 \in Reads /\ e.s2 \in Reads
  BY InstrParts
<1> QED
  BY <1>1, RegsApart DEF Srcs, Hidden, Reads

(* An entry stays true over an instruction that writes none of its         *)
(* registers.                                                              *)
LEMMA StillHeld ==
  ASSUME NEW alias \in Objects, NEW s, IsState(s), NEW in \in AnyInstr,
         NEW e \in AnyInstr, e.op \in {"mul", "div"}, HeldIn(alias, s, e),
         in.dst \notin {e.dst, e.s1, e.s2},
         in.op \in {"call", "stp"} => e.dst \notin Addressed
  PROVE  HeldIn(alias, Exec(alias, s, in), e)
<1> DEFINE t == Exec(alias, s, in)
<1>1. e.dst \in Regs /\ e.s1 \in Hidden /\ e.s2 \in Hidden
  BY TermParts
<1>2. t.reg[e.s1] = s.reg[e.s1] /\ t.reg[e.s2] = s.reg[e.s2] /\ s.traps \subseteq t.traps
  BY <1>1, Untouched
<1>3. t.reg[e.dst] = s.reg[e.dst]
  <2>1. CASE in.op \in {"call", "stp"}
    <3>1. e.dst \in Hidden
      BY <1>1, <2>1 DEF Hidden
    <3> QED
      BY <3>1, Untouched
  <2>2. CASE in.op \notin {"call", "stp"}
    BY <1>1, <2>2, Untouched
  <2> QED
    BY <2>1, <2>2
<1> HIDE DEF t
<1>4. Computed(alias, t, e) = Computed(alias, s, e)
  <2>1. CASE e.op = "mul"
    BY <1>2, <2>1 DEF Computed
  <2>2. CASE e.op = "div"
    BY <1>2, <2>2 DEF Computed
  <2> QED
    BY <2>1, <2>2
<1>5. Trapped(t, e) = Trapped(s, e)
  BY <1>2 DEF Trapped
<1>6. HeldIn(alias, t, e)
  BY <1>2, <1>3, <1>4, <1>5 DEF HeldIn
<1> QED
  BY <1>6 DEF t

(* The operation that makes the entry.                                     *)
LEMMA MadeHeld ==
  ASSUME NEW alias \in Objects, NEW s, IsState(s), NEW in \in AnyInstr, in.op \in {"mul", "div"}, in.dst \notin Srcs(in)
  PROVE  HeldIn(alias, Exec(alias, s, in), in)
<1> DEFINE t == Exec(alias, s, in)
<1>1. in.dst \in Regs /\ in.s1 \in Regs /\ in.s2 \in Regs /\ in.dst # in.s1 /\ in.dst # in.s2
  BY TermParts DEF Hidden
<1>2. /\ \A r \in Regs : t.reg[r] = IF r = in.dst THEN Computed(alias, s, in) ELSE s.reg[r]
      /\ t.traps = s.traps \cup Trapped(s, in)
  BY ExecPure DEF Pure
<1> HIDE DEF t
<1>3. t.reg[in.s1] = s.reg[in.s1] /\ t.reg[in.s2] = s.reg[in.s2] /\ t.reg[in.dst] = Computed(alias, s, in)
  BY <1>1, <1>2
<1>4. Computed(alias, t, in) = Computed(alias, s, in)
  <2>1. CASE in.op = "mul"
    BY <1>3, <2>1 DEF Computed
  <2>2. CASE in.op = "div"
    BY <1>3, <2>2 DEF Computed
  <2> QED
    BY <2>1, <2>2
<1>5. Trapped(t, in) = Trapped(s, in)
  BY <1>3 DEF Trapped
<1>6. HeldIn(alias, t, in)
  BY <1>2, <1>3, <1>4, <1>5 DEF HeldIn
<1> QED
  BY <1>6 DEF t

(* Reading the entry instead of computing it again.                        *)
LEMMA TakesEntry ==
  ASSUME NEW alias \in Objects, NEW s, IsState(s), NEW in \in AnyInstr, NEW e \in AnyInstr,
         in.op \in {"mul", "div"}, Same(e, in), HeldIn(alias, s, e),
         NEW new, new = IF in.dst = e.dst THEN Nop ELSE [op |-> "move", dst |-> in.dst, s1 |-> e.dst, s2 |-> NOREG]
  PROVE  Exec(alias, s, new) = Exec(alias, s, in)
<1> DEFINE v == Computed(alias, s, in)
<1>1. e.op = in.op /\ e.dst \in Regs /\ in.dst \in Regs
  BY TermParts DEF Same
<1>2. Computed(alias, s, e) = v /\ Trapped(s, e) = Trapped(s, in)
  <2>1. CASE in.op = "mul"
    <3>1. {s.reg[e.s1], s.reg[e.s2]} = {s.reg[in.s1], s.reg[in.s2]}
      BY DEF Same
    <3> QED
      BY <1>1, <2>1, <3>1 DEF Computed, Trapped
  <2>2. CASE in.op = "div"
    <3>1. e.s1 = in.s1 /\ e.s2 = in.s2
      BY <2>2 DEF Same
    <3> QED
      BY <1>1, <2>2, <3>1 DEF Computed, Trapped
  <2> QED
    BY <2>1, <2>2
<1>3. s.reg[e.dst] = v /\ s.traps \cup Trapped(s, in) = s.traps
  BY <1>2 DEF HeldIn
<1> DEFINE t == Exec(alias, s, in)
           u == Exec(alias, s, new)
<1>4. /\ IsState(t) /\ t.mem = s.mem /\ t.seen = s.seen /\ t.traps = s.traps \cup Trapped(s, in)
      /\ \A r \in Regs : t.reg[r] = IF r = in.dst THEN v ELSE s.reg[r]
  BY ExecPure DEF Pure
<1>5. /\ IsState(u) /\ u.mem = s.mem /\ u.seen = s.seen /\ u.traps = s.traps
      /\ \A r \in Regs : u.reg[r] = IF r = in.dst THEN v ELSE s.reg[r]
  <2>1. CASE in.dst = e.dst
    <3>1. u = s
      BY <2>1, ExecNop
    <3> HIDE DEF u, v
    <3> QED
      BY <1>3, <2>1, <3>1
  <2>2. CASE in.dst # e.dst
    <3>1. new = [op |-> "move", dst |-> in.dst, s1 |-> e.dst, s2 |-> NOREG]
      BY <2>2
    <3>2. u = [s EXCEPT !.reg[in.dst] = v]
      BY <1>3, <3>1 DEF Exec
    <3> HIDE DEF u, v
    <3> QED
      BY <1>1, <3>2 DEF IsState
  <2> QED
    BY <2>1, <2>2
<1> HIDE DEF t, u, v
<1>6. Alike(t, u, {})
  BY <1>3, <1>4, <1>5 DEF Alike
<1> QED
  BY <1>6, AlikeSame DEF t, u

LEMMA CsePass ==
  ASSUME full, NEW st, IsSweep(st), Fine(st.c), NEW i \in Places, \A e \in st.known : Available(st.c, i - 1, e)
  PROVE  LET t == CseStep(st, i)
         IN IsSweep(t) /\ Follows(st.c, t.c) /\ \A e \in t.known : Available(t.c, i, e)
<1> DEFINE c == st.c
           in == c[i]
           cand == in.op \in {"mul", "div"}
           hits == IF cand THEN {e \in st.known : Same(e, in)} ELSE {}
           e0 == CHOOSE x \in hits : TRUE
           new == IF hits = {} THEN in
                  ELSE IF in.dst = e0.dst THEN Nop
                  ELSE [op |-> "move", dst |-> in.dst, s1 |-> e0.dst, s2 |-> NOREG]
           kept == IF in.op = "stp" THEN {} ELSE st.known
           left == IF new.dst = NOREG THEN kept ELSE Killed(kept, new.dst)
           c2 == [c EXCEPT ![i] = new]
           known2 == IF cand /\ hits = {} /\ in.dst \notin Srcs(in) THEN left \cup {in} ELSE left
           t == CseStep(st, i)
<1>1. t = [c |-> c2, known |-> known2]
  BY DEF CseStep
<1>2. IsSweep(t) /\ t.c = c2 /\ t.known = known2
  <2> HIDE DEF c2, known2, t
  <2> QED
    BY <1>1 DEF IsSweep
<1>3. c \in Code /\ in \in AnyInstr
  <2>1. c \in Code
    BY DEF Fine
  <2> HIDE DEF c
  <2> QED
    BY <2>1 DEF Code, Places
<1>4. hits # {} => e0 \in st.known /\ Same(e0, in) /\ in.op \in {"mul", "div"}
  BY DEF e0
<1>5. DoesAs(c, i, new)
  <2>1. CASE hits = {}
    <3>1. new = in
      BY <2>1
    <3> HIDE DEF new, hits, c
    <3> QED
      BY <1>3, <3>1 DEF DoesAs, Fine, ReadsDefined, WrittenBy, Places, c
  <2>2. CASE hits # {}
    <3>1. Available(c, i - 1, e0) /\ Same(e0, in) /\ in.op \in {"mul", "div"}
      BY <1>4, <2>2
    <3>2. new = IF in.dst = e0.dst THEN Nop ELSE [op |-> "move", dst |-> in.dst, s1 |-> e0.dst, s2 |-> NOREG]
      BY <2>2
    <3> HIDE DEF e0, hits, new
    <3>3. e0.dst \in Regs /\ in.dst \in Regs /\ e0 \in AnyInstr
      BY <1>3, <3>1, TermParts DEF Available
    <3>4. WrittenBy(c, i - 1, e0.dst)
      BY <3>1 DEF Available, WrittenBy
    <3>5. ASSUME CallsApart, NEW alias \in Objects
          PROVE  Exec(alias, States(alias, c)[i - 1], new) = Exec(alias, States(alias, c)[i - 1], in)
      <4>1. HeldIn(alias, States(alias, c)[i - 1], e0) /\ IsState(States(alias, c)[i - 1])
        BY <1>3, <3>1, <3>5, StatesAt DEF Available
      <4> HIDE DEF in
      <4> QED
        BY <1>3, <3>1, <3>2, <3>3, <4>1, TakesEntry
    <3>6. CASE in.dst = e0.dst
      <4>1. new = Nop /\ Srcs(Nop) = {} /\ Nop.op = "nop" /\ Nop \in AnyInstr
        BY <3>2, <3>6 DEF Srcs, Nop, AnyInstr
      <4> QED
        BY <3>4, <3>5, <3>6, <4>1 DEF DoesAs
    <3>7. CASE in.dst # e0.dst
      <4>1. new = [op |-> "move", dst |-> in.dst, s1 |-> e0.dst, s2 |-> NOREG]
        BY <3>2, <3>7
      <4>2. new \in AnyInstr /\ Srcs(new) = {e0.dst} /\ new.op = "move" /\ new.dst = in.dst
        BY <3>3, <4>1, MovesExist, RegsApart DEF AnyInstr, Instrs, Srcs
      <4> QED
        BY <3>4, <3>5, <4>2 DEF DoesAs
    <3> QED
      BY <3>6, <3>7
  <2> QED
    BY <2>1, <2>2
<1>6. Replaced(c, c2, i, new)
  <2> HIDE DEF c, new
  <2>1. Replaced(c, [c EXCEPT ![i] = new], i, new)
    BY <1>5, OneFollows DEF c
  <2> QED
    BY <2>1
<1>7. new \in AnyInstr /\ i - 1 \in 0..MaxCode /\ i \in 0..MaxCode /\ c2 \in Code /\ \A j \in Places : j <= i - 1 => j <= i /\ j # i
  <2>1. c2 \in Code
    BY <1>6 DEF Replaced, Follows, Fine
  <2> HIDE DEF c, c2, new
  <2> QED
    BY <1>5, <2>1, CodeBounded DEF DoesAs, Places
<1>8. ASSUME CallsApart, NEW alias \in Objects
      PROVE  /\ IsState(States(alias, c)[i - 1])
             /\ States(alias, c2)[i] = Exec(alias, States(alias, c)[i - 1], new)
  <2> HIDE DEF c, c2, new
  <2>1. States(alias, c2)[i] = Exec(alias, States(alias, c2)[i - 1], c2[i])
    BY <1>7, StatesAt
  <2>2. States(alias, c2)[i - 1] = States(alias, c)[i - 1] /\ c2[i] = new
    BY <1>6, <1>7, <1>8 DEF Replaced
  <2>3. IsState(States(alias, c)[i - 1])
    BY <1>3, StatesAt
  <2> QED
    BY <2>1, <2>2, <2>3
<1>9. ASSUME NEW e \in left PROVE Available(c2, i, e)
  <2>1. e \in st.known /\ in.op # "stp" /\ new.dst \notin {e.dst, e.s1, e.s2}
    <3>1. e \in kept
      BY <1>9 DEF Killed
    <3>2. e \in st.known /\ in.op # "stp"
      BY <3>1
    <3>3. Available(c, i - 1, e)
      BY <3>2
    <3>4. e.dst # NOREG /\ e.s1 # NOREG /\ e.s2 # NOREG
      BY <3>3, TermParts, RegsApart DEF Available, Hidden
    <3> HIDE DEF kept, new
    <3> QED
      BY <1>9, <3>2, <3>4 DEF Killed
  <2>2. Available(c, i - 1, e)
    BY <2>1
  <2> HIDE DEF left, kept, known2, t, hits, e0
  <2>3. e \in AnyInstr /\ e.op \in {"mul", "div"} /\ e.dst \notin Srcs(e)
    BY <2>2 DEF Available
  <2>4. PICK j \in Places : j <= i - 1 /\ c[j] = e
    BY <2>2 DEF Available
  <2>5. c2[j] = e /\ j <= i
    BY <1>6, <1>7, <2>4 DEF Replaced
  <2>6. new.op # "stp"
    BY <1>5, <2>1 DEF DoesAs
  <2>7. CallsApart /\ new.op = "call" => e.dst \notin Addressed
    <3> SUFFICES ASSUME CallsApart, new.op = "call" PROVE e.dst \notin Addressed
      OBVIOUS
    <3>1. in.op = "call"
      BY <1>5 DEF DoesAs
    <3>2. source[i].op = "call" /\ source[j].op \in {"mul", "div"}
      <4>1. \A k \in Places : c[k].op \in {source[k].op, "nop", "move"}
        BY DEF Fine
      <4> QED
        BY <2>3, <2>4, <3>1, <4>1
    <3> QED
      BY <3>2 DEF CallsApart
  <2>8. ASSUME CallsApart, NEW alias \in Objects PROVE HeldIn(alias, States(alias, c2)[i], e)
    <3>1. HeldIn(alias, States(alias, c)[i - 1], e)
      BY <2>2, <2>8 DEF Available
    <3> HIDE DEF c, c2, new
    <3> QED
      BY <1>7, <1>8, <2>1, <2>3, <2>6, <2>7, <2>8, <3>1, StillHeld
  <2> QED
    BY <2>3, <2>5, <2>8 DEF Available
<1>10. ASSUME cand, hits = {}, in.dst \notin Srcs(in) PROVE Available(c2, i, in)
  <2>1. new = in
    BY <1>10
  <2> HIDE DEF left, kept, known2, t, hits, e0, new
  <2>2. i \in Places /\ i <= i /\ c2[i] = in
    BY <1>6, <2>1 DEF Replaced, Places
  <2>3. ASSUME CallsApart, NEW alias \in Objects PROVE HeldIn(alias, States(alias, c2)[i], in)
    <3>1. /\ IsState(States(alias, c)[i - 1])
          /\ States(alias, c2)[i] = Exec(alias, States(alias, c)[i - 1], in)
      BY <1>8, <2>1, <2>3
    <3> HIDE DEF in, c2
    <3> QED
      BY <1>3, <1>10, <3>1, MadeHeld
  <2> HIDE DEF in, c2
  <2> QED
    BY <1>3, <1>10, <2>2, <2>3 DEF Available
<1>11. \A e \in t.known : Available(t.c, i, e)
  <2> HIDE DEF t, left, c2, hits, cand, in, e0, new
  <2> QED
    BY <1>2, <1>9, <1>10
<1> QED
  BY <1>2, <1>6, <1>11 DEF Replaced

(***************************************************************************)
(* Copy propagation: the source has the value of the copy until it is      *)
(* written again.                                                          *)
(***************************************************************************)
Rewritten(c, i, k) == \E j \in i + 1..k - 1 : c[j].dst = c[i].s1

LEMMA ForwardedParts ==
  ASSUME NEW c \in Code, NEW i \in Places, c[i].dst \in Regs, c[i].s1 \in Reads
  PROVE  LET c2 == ForwardCopy(c, i)
             d == c[i].dst
             s == c[i].s1
         IN /\ c2 \in Code
            /\ \A k \in Places :
                 /\ c2[k].op = c[k].op /\ c2[k].dst = c[k].dst
                 /\ k <= i \/ Rewritten(c, i, k) => c2[k] = c[k]
                 /\ c2[k].s1 = c[k].s1 \/ (k > i /\ ~Rewritten(c, i, k) /\ c[k].s1 = d /\ c2[k].s1 = s)
                 /\ c2[k].s2 = c[k].s2 \/ (k > i /\ ~Rewritten(c, i, k) /\ c[k].s2 = d /\ c2[k].s2 = s)
<1> DEFINE c2 == ForwardCopy(c, i)
           d == c[i].dst
           s == c[i].s1
           new(k) == [c[k] EXCEPT !.s1 = IF @ = d THEN s ELSE @, !.s2 = IF @ = d THEN s ELSE @]
<1>1. DOMAIN c = Places
  BY DEF Code, Places
<1>2. c2 = [k \in Places |-> IF k <= i \/ Rewritten(c, i, k) THEN c[k] ELSE new(k)]
  BY <1>1 DEF ForwardCopy, Rewritten
<1>3. ASSUME NEW k \in Places
      PROVE  /\ new(k) \in AnyInstr /\ new(k).op = c[k].op /\ new(k).dst = c[k].dst
             /\ new(k).s1 = (IF c[k].s1 = d THEN s ELSE c[k].s1) /\ new(k).s2 = (IF c[k].s2 = d THEN s ELSE c[k].s2)
             /\ c[k] \in AnyInstr
  <2>1. c[k] \in AnyInstr
    BY DEF Code, Places
  <2> DEFINE in == c[k]
             made == [in EXCEPT !.s1 = IF @ = d THEN s ELSE @, !.s2 = IF @ = d THEN s ELSE @]
  <2>2. d \in Regs /\ s \in Reads /\ in \in AnyInstr
    BY <2>1
  <2>3. new(k) = made
    OBVIOUS
  <2> HIDE DEF in, d, s, new
  <2>4. /\ made \in AnyInstr /\ made.op = in.op /\ made.dst = in.dst
        /\ made.s1 = (IF in.s1 = d THEN s ELSE in.s1) /\ made.s2 = (IF in.s2 = d THEN s ELSE in.s2)
    BY <2>2, ReadsInstead, Zenon
  <2> HIDE DEF made
  <2> QED
    BY <2>1, <2>3, <2>4 DEF in
<1>4. \A k \in Places : k > i <=> ~(k <= i)
  BY DEF Places
<1>5. ASSUME NEW k \in Places
      PROVE  /\ c2[k] \in AnyInstr
             /\ c2[k].op = c[k].op /\ c2[k].dst = c[k].dst
             /\ k <= i \/ Rewritten(c, i, k) => c2[k] = c[k]
             /\ c2[k].s1 = c[k].s1 \/ (k > i /\ ~Rewritten(c, i, k) /\ c[k].s1 = d /\ c2[k].s1 = s)
             /\ c2[k].s2 = c[k].s2 \/ (k > i /\ ~Rewritten(c, i, k) /\ c[k].s2 = d /\ c2[k].s2 = s)
  <2>1. CASE k <= i \/ Rewritten(c, i, k)
    <3>1. c2[k] = c[k]
      BY <1>2, <2>1
    <3> QED
      BY <1>3, <2>1, <3>1
  <2>2. CASE ~(k <= i \/ Rewritten(c, i, k))
    <3>1. c2[k] = new(k)
      BY <1>2, <2>2
    <3> HIDE DEF new, c2, d, s
    <3> QED
      BY <1>3, <1>4, <2>2, <3>1
  <2> QED
    BY <2>1, <2>2
<1>6. c2 \in Code
  <2>1. c2 = [k \in Places |-> c2[k]]
    BY <1>2
  <2> HIDE DEF c2
  <2> QED
    BY <1>5, <2>1 DEF Code, Places
<1> HIDE DEF c2, d, s
<1> QED
  BY <1>5, <1>6 DEF c2, d, s

LEMMA CopyHolds ==
  ASSUME NEW alias \in Objects, NEW an \in Code, NEW c \in Code, SameDsts(an, c), NEW i \in Places, Copy(an, c[i])
  PROVE  \A k \in 0..MaxCode : k >= i /\ ~Rewritten(c, i, k + 1) =>
           States(alias, c)[k].reg[c[i].dst] = States(alias, c)[k].reg[c[i].s1]
<1> DEFINE f == States(alias, c)
           d == c[i].dst
           s == c[i].s1
           S == {k \in 0..MaxCode : k >= i /\ ~Rewritten(c, i, k + 1) => f[k].reg[d] = f[k].reg[s]}
<1>1. c[i] \in AnyInstr /\ c[i].op = "move" /\ d # s /\ Defs(an, d) = 1 /\ d \notin Addressed /\ s \notin Addressed
  BY DEF Copy, Code, Places
<1>2. d \in Hidden /\ s \in Hidden
  BY <1>1, InstrParts DEF Hidden
<1>3. \A k \in Places : k # i => c[k].dst # d
  BY <1>1, OnlyDef DEF SameDsts
<1>4. \A k \in Places : /\ k - 1 \in 0..MaxCode /\ k \in 0..MaxCode /\ c[k] \in AnyInstr
                        /\ IsState(f[k - 1]) /\ f[k] = Exec(alias, f[k - 1], c[k])
  BY StatesAt
<1> HIDE DEF f
<1>5. 0 \in S
  BY CodeBounded DEF Places
<1>6. ASSUME NEW k \in 0..MaxCode, k # MaxCode, k \in S PROVE k + 1 \in S
  <2>1. k + 1 \in Places /\ k + 1 \in 0..MaxCode /\ (k + 1) - 1 = k
    BY <1>6, CodeBounded DEF Places
  <2> SUFFICES ASSUME k + 1 >= i, ~Rewritten(c, i, k + 2) PROVE f[k + 1].reg[d] = f[k + 1].reg[s]
    BY <2>1
  <2>2. IsState(f[k]) /\ f[k + 1] = Exec(alias, f[k], c[k + 1]) /\ c[k + 1] \in AnyInstr
    BY <1>4, <2>1
  <2>3. CASE k + 1 = i
    <3>1. c[k + 1].op \in Pure /\ c[k + 1].dst = d /\ Computed(alias, f[k], c[k + 1]) = f[k].reg[s]
      BY <1>1, <2>3 DEF Pure, Computed
    <3>2. d \in Regs /\ s \in Regs /\ d # s
      BY <1>1, <1>2 DEF Hidden
    <3> HIDE DEF d, s
    <3>3. \A r \in Regs : f[k + 1].reg[r] = IF r = d THEN f[k].reg[s] ELSE f[k].reg[r]
      BY <2>2, <3>1, ExecPure
    <3> QED
      BY <3>2, <3>3
  <2>4. CASE k + 1 # i
    <3>1. k >= i /\ k + 1 > i /\ i \in Int
      BY <2>1, <2>4 DEF Places
    <3>2. c[k + 1].dst # s
      <4>1. k + 1 \in i + 1..(k + 2) - 1
        BY <2>1, <3>1
      <4> QED
        BY <4>1 DEF Rewritten
    <3>3. ~Rewritten(c, i, k + 1)
      <4>1. i + 1..(k + 1) - 1 \subseteq i + 1..(k + 2) - 1
        BY <2>1, <3>1
      <4> QED
        BY <4>1 DEF Rewritten
    <3>4. f[k].reg[d] = f[k].reg[s]
      BY <1>6, <3>1, <3>3
    <3>5. f[k + 1].reg[d] = f[k].reg[d] /\ f[k + 1].reg[s] = f[k].reg[s]
      <4> HIDE DEF d, s
      <4> QED
        BY <1>2, <1>3, <2>1, <2>2, <2>4, <3>2, Untouched
    <3> QED
      BY <3>4, <3>5
  <2> QED
    BY <2>3, <2>4
<1>7. \A k \in 0..MaxCode : k \in S
  <2> HIDE DEF S
  <2> QED
    BY <1>5, <1>6, AllPlaces, CodeBounded
<1> QED
  BY <1>7 DEF f

LEMMA PropagatePass ==
  ASSUME NEW an \in Code, NEW st, IsSweep(st), Fine(st.c), SameDsts(an, st.c), NEW i \in Places
  PROVE  LET t == PropagateStep(an, st, i)
         IN IsSweep(t) /\ Follows(st.c, t.c) /\ SameDsts(an, t.c)
<1> DEFINE c == st.c
           t == PropagateStep(an, st, i)
<1>1. CASE ~Copy(an, c[i])
  <2>1. t = st
    BY <1>1 DEF PropagateStep
  <2> QED
    BY <2>1, FollowsSame
<1>2. CASE Copy(an, c[i])
  <2> DEFINE c2 == ForwardCopy(c, i)
             d == c[i].dst
             s == c[i].s1
  <2>1. t = [st EXCEPT !.c = c2]
    BY <1>2 DEF PropagateStep, Edited
  <2>2. IsSweep(t) /\ t.c = c2
    <3> HIDE DEF c2
    <3> QED
      BY <2>1 DEF IsSweep
  <2>3. c \in Code
    BY DEF Fine
  <2>4. c[i] \in AnyInstr /\ c[i].op = "move" /\ {d, s} \cap Addressed = {}
    <3> HIDE DEF c
    <3> QED
      BY <1>2, <2>3 DEF Copy, Code, Places
  <2>5. d \in Regs /\ s \in Reads /\ s # NOREG /\ s \in Srcs(c[i])
    <3>1. c[i].s1 \in Regs /\ c[i].dst \in Regs
      <4> HIDE DEF c
      <4> QED
        BY <2>4, InstrParts
    <3> QED
      BY <2>4, <3>1, RegsApart DEF Reads, Srcs
  <2>6. /\ c2 \in Code
        /\ \A k \in Places :
             /\ c2[k].op = c[k].op /\ c2[k].dst = c[k].dst
             /\ k <= i \/ Rewritten(c, i, k) => c2[k] = c[k]
             /\ c2[k].s1 = c[k].s1 \/ (k > i /\ ~Rewritten(c, i, k) /\ c[k].s1 = d /\ c2[k].s1 = s)
             /\ c2[k].s2 = c[k].s2 \/ (k > i /\ ~Rewritten(c, i, k) /\ c[k].s2 = d /\ c2[k].s2 = s)
    <3> HIDE DEF c
    <3> QED
      BY <2>3, <2>5, ForwardedParts
  <2>7. Fine(c2)
    <3>1. ReadsDefined(c)
      BY DEF Fine
    <3> HIDE DEF c2, d, s
    <3>2. ReadsDefined(c2)
      <4> SUFFICES ASSUME NEW k \in Places, NEW r \in Srcs(c2[k])
                   PROVE  r \in outDefs \/ \E j \in Places : j < k /\ c2[j].dst = r
        BY DEF ReadsDefined
      <4>1. r \in Srcs(c[k]) \/ (r = s /\ k > i)
        BY <2>6 DEF Srcs
      <4>2. r \in outDefs \/ \E j \in Places : j < k /\ c[j].dst = r
        <5>1. CASE r \in Srcs(c[k])
          BY <3>1, <5>1 DEF ReadsDefined
        <5>2. CASE r = s /\ k > i
          <6>1. r \in outDefs \/ \E j \in Places : j < i /\ c[j].dst = r
            BY <2>5, <3>1, <5>2 DEF ReadsDefined
          <6>2. \A j \in Places : j < i => j < k
            BY <5>2 DEF Places
          <6> QED
            BY <6>1, <6>2
        <5> QED
          BY <4>1, <5>1, <5>2
      <4> QED
        BY <2>6, <4>2
    <3>3. \A k \in Places : c2[k].op \in {source[k].op, "nop", "move"}
      BY <2>6 DEF Fine
    <3> QED
      BY <2>6, <3>2, <3>3 DEF Fine
  <2>8. ASSUME NEW alias \in Objects PROVE States(alias, c2)[MaxCode] = States(alias, c)[MaxCode]
    <3>1. MaxCode \in 0..MaxCode
      BY CodeBounded
    <3>2. ASSUME NEW k \in 0..MaxCode, k # MaxCode
          PROVE  Exec(alias, States(alias, c)[k], c2[k + 1]) = Exec(alias, States(alias, c)[k], c[k + 1])
      <4>1. k + 1 \in Places
        BY <3>2, CodeBounded DEF Places
      <4> DEFINE b == States(alias, c)[k]
      <4>2. k + 1 > i /\ ~Rewritten(c, i, k + 1) => b.reg[d] = b.reg[s]
        <5>1. k + 1 > i => k >= i
          BY <4>1 DEF Places
        <5> HIDE DEF c
        <5> QED
          BY <1>2, <2>3, <5>1, CopyHolds DEF c
      <4> HIDE DEF b, c2, c, d, s
      <4> QED
        BY <2>6, <4>1, <4>2, ExecInstead DEF b
    <3> HIDE DEF c, c2
    <3> QED
      BY <3>1, <3>2, SameStates
  <2>9. Equal(c, c2)
    <3> HIDE DEF c, c2
    <3> QED
      BY <2>3, <2>6, <2>8, EqualStates
  <2>10. SameDsts(an, c2)
    <3> HIDE DEF c2
    <3> QED
      BY <2>6 DEF SameDsts
  <2> QED
    BY <2>2, <2>7, <2>9, <2>10 DEF Follows
<1> QED
  BY <1>1, <1>2

(***************************************************************************)
(* Coalescing: the result goes where its only reader copies it.            *)
(***************************************************************************)
LEMMA ResultElsewhere ==
  ASSUME NEW in \in AnyInstr, in.op \in {"add", "mul", "div", "ldp", "ldg", "call"}, NEW d \in Regs
  PROVE  LET new == [in EXCEPT !.dst = d]
         IN new \in AnyInstr /\ new.op = in.op /\ new.dst = d /\ new.s1 = in.s1 /\ new.s2 = in.s2
<1> DEFINE new == [in EXCEPT !.dst = d]
           made == [op |-> in.op, dst |-> d, s1 |-> in.s1, s2 |-> in.s2]
<1>1. in = [op |-> in.op, dst |-> in.dst, s1 |-> in.s1, s2 |-> in.s2]
  BY InstrParts
<1>2. new = made
  <2>0. new = [in EXCEPT !.dst = d]
    OBVIOUS
  <2> HIDE DEF new
  <2>1. /\ new = [op |-> new.op, dst |-> new.dst, s1 |-> new.s1, s2 |-> new.s2]
        /\ new.op = in.op /\ new.dst = d /\ new.s1 = in.s1 /\ new.s2 = in.s2
    BY <1>1, <2>0
  <2> QED
    BY <2>1
<1>3. made \in AnyInstr
  <2>1. CASE in.op \in {"add", "mul", "div"}
    <3>1. in.s1 \in Reads /\ in.s2 \in Reads /\ in.op \in Ops
      BY <2>1, RegsApart DEF AnyInstr, Instrs, Nop
    <3> QED
      BY <2>1, <3>1 DEF AnyInstr, Instrs
  <2>2. CASE in.op \in {"ldp", "call"}
    <3>1. in.s1 \in Reads /\ in.s2 = NOREG /\ in.op \in Ops
      BY <2>2 DEF AnyInstr, Instrs, Nop
    <3> QED
      BY <2>2, <3>1 DEF AnyInstr, Instrs
  <2>3. CASE in.op = "ldg"
    <3>1. in.s1 = NOREG /\ in.s2 = NOREG /\ in.op \in Ops
      BY <2>3 DEF AnyInstr, Instrs, Nop
    <3> QED
      BY <2>3, <3>1 DEF AnyInstr, Instrs
  <2> QED
    BY <2>1, <2>2, <2>3
<1> HIDE DEF new
<1>4. new \in AnyInstr /\ new.op = in.op /\ new.dst = d /\ new.s1 = in.s1 /\ new.s2 = in.s2
  BY <1>2, <1>3
<1> QED
  BY <1>4 DEF new

(* The state when the result is in d instead of t.                         *)
Shifted(u, w, t, d) ==
  /\ IsState(u) /\ IsState(w)
  /\ w.mem = u.mem /\ w.seen = u.seen /\ w.traps = u.traps
  /\ w.reg[d] = u.reg[t]
  /\ \A r \in Regs \ {t, d} : w.reg[r] = u.reg[r]

LEMMA ExecElsewhere ==
  ASSUME NEW alias \in Objects, NEW s, IsState(s), NEW in \in AnyInstr,
         in.op \in {"add", "mul", "div", "ldp", "ldg", "call"}, NEW d \in Regs, in.dst # d, in.dst \notin Addressed
  PROVE  Shifted(Exec(alias, s, in), Exec(alias, s, [in EXCEPT !.dst = d]), in.dst, d)
<1> DEFINE new == [in EXCEPT !.dst = d]
           u == Exec(alias, s, in)
           w == Exec(alias, s, new)
<1>1. new \in AnyInstr /\ new.op = in.op /\ new.dst = d /\ new.s1 = in.s1 /\ new.s2 = in.s2
  BY ResultElsewhere
<1>2. in.dst \in Regs
  BY InstrParts
<1> HIDE DEF new
<1>3. CASE in.op # "call"
  <2>1. in.op \in Pure
    BY <1>3 DEF Pure
  <2>2. Computed(alias, s, new) = Computed(alias, s, in) /\ Trapped(s, new) = Trapped(s, in)
    BY <1>1 DEF Computed, Trapped
  <2>3. /\ IsState(u) /\ u.mem = s.mem /\ u.seen = s.seen /\ u.traps = s.traps \cup Trapped(s, in)
        /\ \A r \in Regs : u.reg[r] = IF r = in.dst THEN Computed(alias, s, in) ELSE s.reg[r]
    BY <2>1, ExecPure
  <2>4. /\ IsState(w) /\ w.mem = s.mem /\ w.seen = s.seen /\ w.traps = s.traps \cup Trapped(s, new)
        /\ \A r \in Regs : w.reg[r] = IF r = new.dst THEN Computed(alias, s, new) ELSE s.reg[r]
    BY <1>1, <2>1, ExecPure
  <2> HIDE DEF u, w
  <2> QED
    BY <1>1, <1>2, <2>2, <2>3, <2>4 DEF Shifted, u, w, new
<1>4. CASE in.op = "call"
  <2> DEFINE k == Len(s.seen) + 1
             seen2 == Append(s.seen, <<s.reg[in.s1], Memory(s)>>)
             old(r) == IF r \in Addressed THEN <<"left", k, r>> ELSE s.reg[r]
  <2>1. /\ IsState(u) /\ u.seen = seen2 /\ u.traps = s.traps
        /\ \A r \in Regs : u.reg[r] = IF r = in.dst THEN <<"ret", k>> ELSE old(r)
        /\ \A q \in {"global", "heap"} : u.mem[q] = <<"left", k, q>>
    BY <1>4, ExecCall
  <2>2. /\ IsState(w) /\ w.seen = seen2 /\ w.traps = s.traps
        /\ \A r \in Regs : w.reg[r] = IF r = d THEN <<"ret", k>> ELSE old(r)
        /\ \A q \in {"global", "heap"} : w.mem[q] = <<"left", k, q>>
    BY <1>1, <1>4, ExecCall
  <2> HIDE DEF u, w, k, seen2, old
  <2>3. w.mem = u.mem
    <3>1. \A q \in {"global", "heap"} : w.mem[q] = u.mem[q]
      BY <2>1, <2>2
    <3> QED
      BY <2>1, <2>2, <3>1 DEF IsState
  <2> QED
    BY <1>1, <1>2, <2>1, <2>2, <2>3 DEF Shifted, u, w, new
<1> QED
  BY <1>3, <1>4

LEMMA ExecBack ==
  ASSUME NEW alias \in Objects, NEW u, NEW w, NEW t \in Hidden, NEW d \in Regs, t # d, Shifted(u, w, t, d),
         NEW in \in AnyInstr, in.op = "move", in.dst = d, in.s1 = t
  PROVE  Alike(Exec(alias, u, in), w, {t})
<1> DEFINE v == Exec(alias, u, in)
<1>1. IsState(u)
  BY DEF Shifted
<1>2. /\ IsState(v) /\ v.mem = u.mem /\ v.seen = u.seen /\ v.traps = u.traps \cup Trapped(u, in)
      /\ \A r \in Regs : v.reg[r] = IF r = in.dst THEN Computed(alias, u, in) ELSE u.reg[r]
  BY <1>1, ExecPure DEF Pure
<1>3. Computed(alias, u, in) = u.reg[t] /\ Trapped(u, in) = {}
  BY DEF Computed, Trapped
<1> HIDE DEF v
<1>4. v.traps = u.traps
  BY <1>2, <1>3
<1>5. \A r \in Regs \ {t} : w.reg[r] = v.reg[r]
  BY <1>2, <1>3 DEF Shifted
<1>6. Alike(v, w, {t})
  BY <1>2, <1>4, <1>5 DEF Alike, Shifted
<1> QED
  BY <1>6 DEF v

(* The places in the code and what is between them.                        *)
Merges(c, i, m) ==
  /\ i < m /\ c[m].op = "move" /\ c[m].s1 = c[i].dst /\ c[m].dst # c[i].dst
  /\ \A j \in Places : i < j /\ j < m => c[j] = Nop

LEMMA MergedParts ==
  ASSUME NEW c \in Code, NEW i \in Places, CopyAfter(c, i) # {},
         c[i].op \in {"add", "mul", "div", "ldp", "ldg", "call"}
  PROVE  \E m \in Places : /\ Merges(c, i, m) /\ c[m].dst \in Regs
                           /\ LET c2 == Merged(c, i)
                              IN /\ c2 \in Code /\ c2[m] = Nop /\ c2[i] = [c[i] EXCEPT !.dst = c[m].dst]
                                 /\ \A k \in Places : k # i /\ k # m => c2[k] = c[k]
<1>1. DOMAIN c = Places /\ \A k \in Places : c[k] \in AnyInstr /\ k \in Int /\ i \in Int
  BY DEF Code, Places
<1>2. PICK m : m \in CopyAfter(c, i)
  OBVIOUS
<1>3. /\ m \in Places /\ m > i /\ c[m].op # "nop" /\ \A j \in i + 1..m - 1 : c[j].op = "nop"
      /\ c[m].op = "move" /\ c[m].s1 = c[i].dst /\ c[m].dst # c[i].dst
  BY <1>1, <1>2 DEF CopyAfter, NextReal
<1>4. \A k \in CopyAfter(c, i) : k = m
  <2> SUFFICES ASSUME NEW k \in CopyAfter(c, i), k # m PROVE FALSE
    OBVIOUS
  <2>1. k \in Places /\ k > i /\ c[k].op # "nop" /\ \A j \in i + 1..k - 1 : c[j].op = "nop"
    BY <1>1 DEF CopyAfter, NextReal
  <2>2. k < m \/ m < k
    BY <1>1, <1>3, <2>1
  <2>3. k \in i + 1..m - 1 \/ m \in i + 1..k - 1
    BY <1>1, <1>3, <2>1, <2>2
  <2> QED
    BY <1>3, <2>1, <2>3
<1>5. CopyAfter(c, i) = {m}
  BY <1>2, <1>4
<1>6. \A j \in Places : i < j /\ j < m => c[j] = Nop
  <2> TAKE j \in Places
  <2>1. i < j /\ j < m => j \in i + 1..m - 1
    BY <1>1, <1>3
  <2> QED
    BY <1>1, <1>3, <2>1, InstrParts
<1>7. c[m].dst \in Regs
  BY <1>1, <1>3, InstrParts
<1> DEFINE new == [c[i] EXCEPT !.dst = c[m].dst]
           c2 == Merged(c, i)
<1>8. c2 = [k \in Places |-> IF k = m THEN Nop ELSE IF k = i THEN new ELSE c[k]]
  <2>1. (CHOOSE x \in CopyAfter(c, i) : TRUE) = m
    BY <1>5
  <2> QED
    BY <1>1, <1>5, <2>1 DEF Merged
<1>9. new \in AnyInstr /\ Nop \in AnyInstr
  <2>1. c[i] \in AnyInstr
    BY <1>1
  <2> QED
    BY <1>7, <2>1, ResultElsewhere DEF AnyInstr
<1> HIDE DEF new, c2
<1>10. c2 \in Code
  BY <1>1, <1>8, <1>9 DEF Code, Places
<1>11. c2[m] = Nop /\ c2[i] = new /\ \A k \in Places : k # i /\ k # m => c2[k] = c[k]
  BY <1>1, <1>3, <1>8
<1>12. Merges(c, i, m)
  BY <1>3, <1>6 DEF Merges
<1> QED
  BY <1>3, <1>7, <1>10, <1>11, <1>12 DEF new, c2

LEMMA OneUse ==
  ASSUME NEW an \in Code, NEW t \in Regs, Uses(an, t) = 1, NEW m \in Places, an[m].s1 = t
  PROVE  t \notin outLive /\ \A k \in Places : (an[k].s1 = t => k = m) /\ an[k].s2 # t
<1> DEFINE U == UsesIn(an, t)
<1>1. Cardinality(U) + Elsewhere(t, outLive) = 1 /\ IsFiniteSet(U) /\ Cardinality(U) \in Nat
  BY CountsAre
<1>2. <<m, "s1">> \in U
  BY DEF UsesIn
<1>3. Cardinality(U) # 0
  <2> HIDE DEF U
  <2> QED
    BY <1>1, <1>2, FS_EmptySet
<1>4. t \notin outLive /\ Cardinality(U) = 1
  <2> HIDE DEF U
  <2> QED
    BY <1>1, <1>3 DEF Elsewhere
<1>5. PICK x : U = {x}
  <2> HIDE DEF U
  <2> QED
    BY <1>1, <1>4, FS_Singleton
<1>6. ASSUME NEW k \in Places PROVE (an[k].s1 = t => k = m) /\ an[k].s2 # t
  <2>1. an[k].s1 = t => <<k, "s1">> \in U
    BY DEF UsesIn
  <2>2. an[k].s2 = t => <<k, "s2">> \in U
    BY DEF UsesIn
  <2> HIDE DEF U
  <2>3. an[k].s1 = t => <<k, "s1">> = <<m, "s1">>
    BY <1>2, <1>5, <2>1
  <2>4. an[k].s2 = t => <<k, "s2">> = <<m, "s1">>
    BY <1>2, <1>5, <2>2
  <2> QED
    BY <2>3, <2>4
<1> QED
  BY <1>4, <1>6

ReadsFewer(an, c) ==
  \A k \in Places : c[k].s1 \in {an[k].s1, NOREG} /\ c[k].s2 \in {an[k].s2, NOREG}

LEMMA MergedStates ==
  ASSUME NEW alias \in Objects, NEW c \in Code, NEW c2 \in Code, NEW i \in Places, NEW m \in Places, NEW t, NEW d \in Regs,
         Merges(c, i, m), t = c[i].dst, d = c[m].dst, t \in Hidden,
         c[i].op \in {"add", "mul", "div", "ldp", "ldg", "call"},
         c2[m] = Nop, c2[i] = [c[i] EXCEPT !.dst = d], \A k \in Places : k # i /\ k # m => c2[k] = c[k],
         \A k \in Places : t \in Srcs(c[k]) => k = m
  PROVE  Alike(States(alias, c)[MaxCode], States(alias, c2)[MaxCode], {t})
<1> DEFINE f == States(alias, c)
           g == States(alias, c2)
           S == {k \in 0..MaxCode : /\ k < i => g[k] = f[k]
                                    /\ i <= k /\ k < m => Shifted(f[k], g[k], t, d)
                                    /\ m <= k => Alike(f[k], g[k], {t})}
<1>1. /\ f[0] = Entry /\ \A k \in 0..MaxCode : k # MaxCode => f[k + 1] = Exec(alias, f[k], c[k + 1])
      /\ g[0] = Entry /\ \A k \in 0..MaxCode : k # MaxCode => g[k + 1] = Exec(alias, g[k], c2[k + 1])
  BY StatesStep
<1>2. \A k \in 0..MaxCode : IsState(f[k])
  BY StatesAre
<1>3. i < m /\ c[m].op = "move" /\ c[m].s1 = t /\ d # t /\ (\A j \in Places : i < j /\ j < m => c[j] = Nop)
  BY DEF Merges
<1>4. i \in Nat /\ m \in Nat /\ 0 < i /\ m <= MaxCode /\ MaxCode \in Nat /\ \A k \in Places : c[k] \in AnyInstr /\ k \in Nat
  BY CodeBounded DEF Places, Code
<1> HIDE DEF f, g
<1>5. 0 \in S
  BY <1>1, <1>3, <1>4
<1>6. ASSUME NEW k \in 0..MaxCode, k # MaxCode, k \in S PROVE k + 1 \in S
  <2>1. k + 1 \in Places /\ k + 1 \in 0..MaxCode /\ k \in Nat
    BY <1>4, <1>6 DEF Places
  <2>2. f[k + 1] = Exec(alias, f[k], c[k + 1]) /\ g[k + 1] = Exec(alias, g[k], c2[k + 1])
    BY <1>1, <1>6
  <2>3. IsState(f[k]) /\ c[k + 1] \in AnyInstr
    BY <1>2, <1>4, <2>1
  <2>4. CASE k + 1 < i
    <3>1. k < i /\ k + 1 # i /\ k + 1 # m /\ ~(i <= k + 1) /\ ~(m <= k + 1)
      BY <1>3, <1>4, <2>1, <2>4
    <3>2. g[k + 1] = f[k + 1]
      BY <1>6, <2>1, <2>2, <3>1
    <3> QED
      BY <2>1, <3>1, <3>2
  <2>5. CASE k + 1 = i
    <3>1. k < i /\ i <= k + 1 /\ k + 1 < m /\ ~(k + 1 < i) /\ ~(m <= k + 1)
      BY <1>3, <1>4, <2>1, <2>5
    <3>2. g[k] = f[k]
      BY <1>6, <3>1
    <3>3. Shifted(Exec(alias, f[k], c[k + 1]), Exec(alias, f[k], [c[k + 1] EXCEPT !.dst = d]), c[k + 1].dst, d)
      <4>1. c[k + 1].op \in {"add", "mul", "div", "ldp", "ldg", "call"} /\ c[k + 1].dst # d /\ c[k + 1].dst \notin Addressed
        BY <1>3, <2>5 DEF Hidden
      <4> QED
        BY <2>3, <4>1, ExecElsewhere
    <3>4. Shifted(f[k + 1], g[k + 1], t, d)
      BY <2>2, <2>5, <3>2, <3>3
    <3> QED
      BY <2>1, <3>1, <3>4
  <2>6. CASE i < k + 1 /\ k + 1 < m
    <3>1. i <= k /\ k < m /\ i <= k + 1 /\ ~(k + 1 < i) /\ ~(m <= k + 1) /\ k + 1 # i /\ k + 1 # m
      BY <1>3, <1>4, <2>1, <2>6
    <3>2. c[k + 1] = Nop /\ c2[k + 1] = Nop
      BY <1>3, <2>1, <2>6, <3>1
    <3>3. f[k + 1] = f[k] /\ g[k + 1] = g[k]
      BY <2>2, <3>2, ExecNop
    <3>4. Shifted(f[k + 1], g[k + 1], t, d)
      BY <1>6, <3>1, <3>3
    <3> QED
      BY <2>1, <3>1, <3>4
  <2>7. CASE k + 1 = m
    <3>1. i <= k /\ k < m /\ ~(k + 1 < i) /\ ~(k + 1 < m)
      BY <1>3, <1>4, <2>1, <2>7
    <3>2. Shifted(f[k], g[k], t, d)
      BY <1>6, <3>1
    <3>3. g[k + 1] = g[k]
      BY <2>2, <2>7, ExecNop
    <3>4. Alike(Exec(alias, f[k], c[k + 1]), g[k], {t})
      <4>1. c[k + 1].op = "move" /\ c[k + 1].dst = d /\ c[k + 1].s1 = t
        BY <1>3, <2>7
      <4> QED
        BY <1>3, <2>3, <3>2, <4>1, ExecBack
    <3>5. Alike(f[k + 1], g[k + 1], {t})
      BY <2>2, <3>3, <3>4
    <3> QED
      BY <2>1, <3>1, <3>5
  <2>8. CASE m < k + 1
    <3>1. m <= k /\ ~(k + 1 < i) /\ ~(k + 1 < m) /\ k + 1 # i /\ k + 1 # m
      BY <1>3, <1>4, <2>1, <2>8
    <3>2. Alike(f[k], g[k], {t}) /\ c2[k + 1] = c[k + 1]
      BY <1>6, <2>1, <3>1
    <3>3. Srcs(c[k + 1]) \cap {t} = {}
      BY <2>1, <3>1
    <3>4. Alike(f[k + 1], g[k + 1], {t} \ {c[k + 1].dst})
      BY <2>2, <2>3, <3>2, <3>3, ExecAlike
    <3>5. Alike(f[k + 1], g[k + 1], {t})
      BY <3>4 DEF Alike
    <3> QED
      BY <2>1, <3>1, <3>5
  <2> QED
    BY <1>4, <2>1, <2>4, <2>5, <2>6, <2>7, <2>8
<1>7. MaxCode \in S
  <2>1. \A k \in 0..MaxCode : k \in S
    <3> HIDE DEF S
    <3> QED
      BY <1>4, <1>5, <1>6, AllPlaces
  <2>2. MaxCode \in 0..MaxCode
    BY <1>4
  <2> HIDE DEF S
  <2> QED
    BY <2>1, <2>2
<1>8. Alike(f[MaxCode], g[MaxCode], {t})
  BY <1>4, <1>7
<1> QED
  BY <1>8 DEF f, g

LEMMA CoalescePass ==
  ASSUME NEW an \in Code, NEW st, IsSweep(st), Fine(st.c), ReadsFewer(an, st.c), outLive \subseteq Reads, NEW i \in Places
  PROVE  LET t == CoalesceStep(an, st, i)
         IN IsSweep(t) /\ Follows(st.c, t.c) /\ ReadsFewer(an, t.c)
<1> DEFINE c == st.c
           w == CoalesceStep(an, st, i)
<1>1. CASE ~(Coalescable(an, c[i]) /\ CopyAfter(c, i) # {})
  <2>1. w = st
    BY <1>1 DEF CoalesceStep
  <2> QED
    BY <2>1, FollowsSame
<1>2. CASE Coalescable(an, c[i]) /\ CopyAfter(c, i) # {}
  <2> DEFINE c2 == Merged(c, i)
             t == c[i].dst
  <2>1. w = [st EXCEPT !.c = c2]
    BY <1>2 DEF CoalesceStep, Edited
  <2>2. IsSweep(w) /\ w.c = c2
    <3> HIDE DEF c2
    <3> QED
      BY <2>1 DEF IsSweep
  <2>3. c \in Code
    BY DEF Fine
  <2>4. c[i].op \in {"add", "mul", "div", "ldp", "ldg", "call"} /\ Uses(an, t) = 1 /\ t \notin Addressed
    BY <1>2 DEF Coalescable, Deletable
  <2>5. t \in Hidden
    <3>1. c[i] \in AnyInstr
      <4> HIDE DEF c
      <4> QED
        BY <2>3 DEF Code, Places
    <3> HIDE DEF c
    <3> QED
      BY <2>4, <3>1, InstrParts DEF Hidden
  <2>6. PICK m \in Places : /\ Merges(c, i, m) /\ c[m].dst \in Regs
                            /\ c2 \in Code /\ c2[m] = Nop /\ c2[i] = [c[i] EXCEPT !.dst = c[m].dst]
                            /\ \A k \in Places : k # i /\ k # m => c2[k] = c[k]
    <3> HIDE DEF c
    <3> QED
      BY <1>2, <2>3, <2>4, MergedParts
  <2> DEFINE d == c[m].dst
  <2>7. ReadsFewer(an, c)
    OBVIOUS
  <2>8. Fine(c)
    OBVIOUS
  <2> HIDE DEF c, c2
  <2>9. i < m /\ c[m].op = "move" /\ c[m].s1 = t /\ d # t /\ (\A j \in Places : i < j /\ j < m => c[j] = Nop)
    BY <2>6 DEF Merges
  <2>10. t \in Regs /\ t # NOREG /\ (\A k \in Places : c[k] \in AnyInstr) /\ \A k \in Places : k \in Int
    BY <2>3, <2>5, RegsApart DEF Hidden, Code, Places
  <2>11. t \notin outLive /\ \A k \in Places : t \in Srcs(c[k]) => k = m
    <3>1. an[m].s1 = t
      BY <2>7, <2>9, <2>10 DEF ReadsFewer
    <3>2. t \notin outLive /\ \A k \in Places : (an[k].s1 = t => k = m) /\ an[k].s2 # t
      <4> HIDE DEF t
      <4> QED
        BY <2>4, <2>10, <3>1, OneUse
    <3> QED
      BY <2>7, <2>10, <3>2 DEF ReadsFewer, Srcs
  <2>12. /\ c2[i].op = c[i].op /\ c2[i].dst = d /\ c2[i].s1 = c[i].s1 /\ c2[i].s2 = c[i].s2
         /\ Nop.op = "nop" /\ Nop.s1 = NOREG /\ Nop.s2 = NOREG
    <3>1. c[i] \in AnyInstr
      BY <2>10
    <3> QED
      BY <2>4, <2>6, <3>1, ResultElsewhere DEF Nop
  <2>13. ReadsFewer(an, c2)
    <3> SUFFICES ASSUME NEW k \in Places PROVE c2[k].s1 \in {an[k].s1, NOREG} /\ c2[k].s2 \in {an[k].s2, NOREG}
      BY DEF ReadsFewer
    <3>1. c[k].s1 \in {an[k].s1, NOREG} /\ c[k].s2 \in {an[k].s2, NOREG}
      BY <2>7 DEF ReadsFewer
    <3>2. CASE k = i
      BY <2>12, <3>1, <3>2
    <3>3. CASE k = m
      BY <2>6, <2>12, <3>3
    <3>4. CASE k # i /\ k # m
      BY <2>6, <3>1, <3>4
    <3> QED
      BY <3>2, <3>3, <3>4
  <2>14. ReadsDefined(c2)
    <3> SUFFICES ASSUME NEW k \in Places, NEW r \in Srcs(c2[k]), r \notin outDefs
                 PROVE  \E j \in Places : j < k /\ c2[j].dst = r
      BY DEF ReadsDefined
    <3>1. k # m /\ r \in Srcs(c[k])
      <4>1. k # m
        BY <2>6, <2>12 DEF Srcs
      <4>2. CASE k = i
        BY <2>12, <4>1, <4>2 DEF Srcs
      <4>3. CASE k # i
        BY <2>6, <4>1, <4>3
      <4> QED
        BY <4>1, <4>2, <4>3
    <3>2. PICK j \in Places : j < k /\ c[j].dst = r
      BY <2>8, <3>1 DEF Fine, ReadsDefined
    <3>3. CASE j = i
      BY <2>11, <3>1, <3>2, <3>3
    <3>4. CASE j = m
      BY <2>9, <2>10, <2>12, <3>2, <3>4
    <3>5. CASE j # i /\ j # m
      BY <2>6, <3>2, <3>5
    <3> QED
      BY <3>3, <3>4, <3>5
  <2>15. Fine(c2)
    <3>1. \A k \in Places : c2[k].op \in {source[k].op, "nop", "move"}
      <4> SUFFICES ASSUME NEW k \in Places PROVE c2[k].op \in {source[k].op, "nop", "move"}
        OBVIOUS
      <4>1. c[k].op \in {source[k].op, "nop", "move"}
        BY <2>8 DEF Fine
      <4>2. c2[k].op = c[k].op \/ c2[k].op = "nop"
        BY <2>6, <2>12
      <4> QED
        BY <4>1, <4>2
    <3> QED
      BY <2>6, <2>14, <3>1 DEF Fine
  <2>16. Equal(c, c2)
    <3>1. \A alias \in Objects : Alike(States(alias, c)[MaxCode], States(alias, c2)[MaxCode], {t})
      <4> HIDE DEF t, d
      <4> TAKE alias \in Objects
      <4>1. t = c[i].dst /\ d = c[m].dst /\ d \in Regs
        BY <2>6 DEF t, d
      <4>2. c2[i] = [c[i] EXCEPT !.dst = d]
        BY <2>6, <4>1
      <4> QED
        BY <2>3, <2>4, <2>5, <2>6, <2>11, <4>1, <4>2, MergedStates
    <3>2. {t} \in SUBSET Hidden /\ {t} \cap outLive = {}
      BY <2>5, <2>11
    <3> HIDE DEF t
    <3> QED
      BY <2>3, <2>6, <3>1, <3>2, EqualIf
  <2> QED
    BY <2>2, <2>13, <2>15, <2>16 DEF Follows, c
<1> QED
  BY <1>1, <1>2

(***************************************************************************)
(* What a pass knows after its first n instructions.                       *)
(***************************************************************************)
PassNames == {"propagate", "cse", "coalesce", "dce", "live_dce", "globals", "dse"}

UsesCounted(st) ==
  /\ st.known \in [Regs -> Int]
  /\ \A r \in Regs : Cardinality(UsesIn(st.c, r)) + Elsewhere(r, outLive) <= st.known[r]

KnownGood(p, an, n, st) ==
  /\ p \in {"propagate", "globals"} => SameDsts(an, st.c)
  /\ p = "cse" => \A e \in st.known : Available(st.c, n, e)
  /\ p = "coalesce" => ReadsFewer(an, st.c)
  /\ p = "dce" => UsesCounted(st)
  /\ p = "live_dce" => \A r \in Regs : r \notin st.known => DeadAfter(st.c, MaxCode - n, r)
  /\ p = "globals" => \A r \in st.known : Settled(an, st.c, n, r) /\ (CallsApart => Holds(st.c, n, r))
  /\ p = "dse" => \A r \in st.known \cap Regs : DeadAfter(st.c, MaxCode - n, r)

LEMMA PassStep ==
  ASSUME NEW p \in PassNames, p = "cse" => full, NEW an \in Code, outLive \subseteq Reads,
         NEW st, IsSweep(st), Fine(st.c), NEW n \in 0..MaxCode, n # MaxCode, KnownGood(p, an, n, st)
  PROVE  LET t == Step(p, an, st, n + 1)
         IN IsSweep(t) /\ Follows(st.c, t.c) /\ KnownGood(p, an, n + 1, t)
<1> DEFINE i == n + 1
           last == MaxCode + 1 - i
           t == Step(p, an, st, i)
<1>1. i \in Places /\ i - 1 = n /\ last \in Places /\ last = MaxCode - n /\ last - 1 = MaxCode - i
  BY CodeBounded DEF Places
<1> HIDE DEF i, last
<1>2. CASE p = "propagate"
  <2>1. t = PropagateStep(an, st, i)
    BY <1>2 DEF Step
  <2>2. SameDsts(an, st.c)
    BY <1>2 DEF KnownGood
  <2>3. IsSweep(t) /\ Follows(st.c, t.c) /\ SameDsts(an, t.c)
    <3> DEFINE u == PropagateStep(an, st, i)
    <3>1. IsSweep(u) /\ Follows(st.c, u.c) /\ SameDsts(an, u.c)
      BY <1>1, <2>2, PropagatePass
    <3> HIDE DEF u, t
    <3> QED
      BY <2>1, <3>1 DEF u
  <2> QED
    BY <1>2, <2>3 DEF KnownGood, i
<1>3. CASE p = "cse"
  <2>1. t = CseStep(st, i)
    BY <1>3 DEF Step
  <2>2. \A e \in st.known : Available(st.c, i - 1, e)
    BY <1>1, <1>3 DEF KnownGood
  <2>3. IsSweep(t) /\ Follows(st.c, t.c) /\ \A e \in t.known : Available(t.c, i, e)
    <3> DEFINE u == CseStep(st, i)
    <3>1. IsSweep(u) /\ Follows(st.c, u.c) /\ \A e \in u.known : Available(u.c, i, e)
      BY <1>1, <1>3, <2>2, CsePass
    <3> HIDE DEF u, t
    <3> QED
      BY <2>1, <3>1 DEF u
  <2> QED
    BY <1>3, <2>3 DEF KnownGood, i
<1>4. CASE p = "coalesce"
  <2>1. t = CoalesceStep(an, st, i)
    BY <1>4 DEF Step
  <2>2. ReadsFewer(an, st.c)
    BY <1>4 DEF KnownGood
  <2>3. IsSweep(t) /\ Follows(st.c, t.c) /\ ReadsFewer(an, t.c)
    <3> DEFINE u == CoalesceStep(an, st, i)
    <3>1. IsSweep(u) /\ Follows(st.c, u.c) /\ ReadsFewer(an, u.c)
      BY <1>1, <2>2, CoalescePass
    <3> HIDE DEF u, t
    <3> QED
      BY <2>1, <3>1 DEF u
  <2> QED
    BY <1>4, <2>3 DEF KnownGood, i
<1>5. CASE p = "dce"
  <2>1. t = DceStep(st, last)
    BY <1>5 DEF Step, last
  <2>2. UsesCounted(st)
    BY <1>5 DEF KnownGood
  <2>3. IsSweep(t) /\ Follows(st.c, t.c) /\ UsesCounted(t)
    <3> DEFINE u == DceStep(st, last)
    <3>1. IsSweep(u) /\ Follows(st.c, u.c) /\ UsesCounted(u)
      BY <1>1, <2>2, DcePass DEF UsesCounted
    <3> HIDE DEF u, t
    <3> QED
      BY <2>1, <3>1 DEF u
  <2> QED
    BY <1>5, <2>3 DEF KnownGood, i
<1>6. CASE p = "live_dce"
  <2>1. t = LiveStep(st, last)
    BY <1>6 DEF Step, last
  <2>2. \A r \in Regs : r \notin st.known => DeadAfter(st.c, last, r)
    BY <1>1, <1>6 DEF KnownGood
  <2>3. IsSweep(t) /\ Follows(st.c, t.c) /\ \A r \in Regs : r \notin t.known => DeadAfter(t.c, last - 1, r)
    <3> DEFINE u == LiveStep(st, last)
    <3>1. IsSweep(u) /\ Follows(st.c, u.c) /\ \A r \in Regs : r \notin u.known => DeadAfter(u.c, last - 1, r)
      BY <1>1, <2>2, LivePass
    <3> HIDE DEF u, t
    <3> QED
      BY <2>1, <3>1 DEF u
  <2> QED
    BY <1>1, <1>6, <2>3 DEF KnownGood, i
<1>7. CASE p = "globals"
  <2>1. t = GlobalsStep(an, st, i)
    BY <1>7 DEF Step
  <2>2. SameDsts(an, st.c) /\ \A r \in st.known : Settled(an, st.c, i - 1, r) /\ (CallsApart => Holds(st.c, i - 1, r))
    BY <1>1, <1>7 DEF KnownGood
  <2>3. /\ IsSweep(t) /\ Follows(st.c, t.c) /\ SameDsts(an, t.c)
        /\ \A r \in t.known : Settled(an, t.c, i, r) /\ (CallsApart => Holds(t.c, i, r))
    <3> DEFINE u == GlobalsStep(an, st, i)
    <3>1. /\ IsSweep(u) /\ Follows(st.c, u.c) /\ SameDsts(an, u.c)
          /\ \A r \in u.known : Settled(an, u.c, i, r) /\ (CallsApart => Holds(u.c, i, r))
      BY <1>1, <2>2, GlobalsPass
    <3> HIDE DEF u, t
    <3> QED
      BY <2>1, <3>1 DEF u
  <2> QED
    BY <1>7, <2>3 DEF KnownGood, i
<1>8. CASE p = "dse"
  <2>1. t = DseStep(st, last)
    BY <1>8 DEF Step, last
  <2>2. \A r \in st.known \cap Regs : DeadAfter(st.c, last, r)
    BY <1>1, <1>8 DEF KnownGood
  <2>3. IsSweep(t) /\ Follows(st.c, t.c) /\ \A r \in t.known \cap Regs : DeadAfter(t.c, last - 1, r)
    <3> DEFINE u == DseStep(st, last)
    <3>1. IsSweep(u) /\ Follows(st.c, u.c) /\ \A r \in u.known \cap Regs : DeadAfter(u.c, last - 1, r)
      BY <1>1, <2>2, DsePass
    <3> HIDE DEF u, t
    <3> QED
      BY <2>1, <3>1 DEF u
  <2> QED
    BY <1>1, <1>8, <2>3 DEF KnownGood, i
<1> QED
  BY <1>2, <1>3, <1>4, <1>5, <1>6, <1>7, <1>8 DEF PassNames

LEMMA PassStart ==
  ASSUME NEW p \in PassNames, Fine(code), outLive \subseteq Reads
  PROVE  KnownGood(p, code, 0, [c |-> code, known |-> Known(p, code)])
<1> DEFINE st == [c |-> code, known |-> Known(p, code)]
<1>1. st.c = code /\ st.known = Known(p, code)
  OBVIOUS
<1>2. p \notin {"dce", "live_dce"} => Known(p, code) = {}
  BY DEF Known, PassNames
<1>3. p = "dce" => UsesCounted(st)
  <2> SUFFICES ASSUME p = "dce" PROVE UsesCounted(st)
    OBVIOUS
  <2>1. st.known = [r \in Regs |-> Uses(code, r)]
    BY <1>1 DEF Known
  <2>2. \A r \in Regs : /\ Uses(code, r) = Cardinality(UsesIn(code, r)) + Elsewhere(r, outLive)
                        /\ Cardinality(UsesIn(code, r)) \in Nat /\ Elsewhere(r, outLive) \in {0, 1}
    BY CountsAre DEF Fine, Elsewhere
  <2>3. \A r \in Regs : Uses(code, r) \in Int /\ Cardinality(UsesIn(code, r)) + Elsewhere(r, outLive) <= Uses(code, r)
    BY <2>2
  <2> HIDE DEF st
  <2> QED
    BY <1>1, <2>1, <2>3 DEF UsesCounted
<1>4. p = "live_dce" => \A r \in Regs : r \notin st.known => DeadAfter(code, MaxCode - 0, r)
  <2> SUFFICES ASSUME p = "live_dce", NEW r \in Regs, r \notin st.known PROVE DeadAfter(code, MaxCode - 0, r)
    OBVIOUS
  <2>1. r \notin outLive
    BY <1>1 DEF Known
  <2>2. MaxCode - 0 = MaxCode /\ \A k \in Places : ~(k > MaxCode)
    BY CodeBounded DEF Places
  <2> QED
    BY <2>1, <2>2 DEF DeadAfter
<1>5. SameDsts(code, code) /\ ReadsFewer(code, code)
  BY DEF SameDsts, ReadsFewer
<1> HIDE DEF st
<1>6. KnownGood(p, code, 0, st)
  BY <1>1, <1>2, <1>3, <1>4, <1>5 DEF KnownGood
<1> QED
  BY <1>6 DEF st

LEMMA ResultFollows ==
  ASSUME NEW p \in PassNames, p = "cse" => full, Fine(code), outLive \subseteq Reads
  PROVE  Follows(code, Result(p, code))
<1> DEFINE sw == Sweep(p, code)
           S == {n \in 0..MaxCode : IsSweep(sw[n]) /\ Follows(code, sw[n].c) /\ KnownGood(p, code, n, sw[n])}
<1>1. /\ sw[0] = [c |-> code, known |-> Known(p, code)]
      /\ \A n \in 0..MaxCode : n # MaxCode => sw[n + 1] = Step(p, code, sw[n], n + 1)
  BY SweepStep
<1>2. code \in Code
  BY DEF Fine
<1>3. 0 \in 0..MaxCode /\ MaxCode \in 0..MaxCode
  BY CodeBounded
<1> HIDE DEF sw
<1>4. 0 \in S
  <2>1. KnownGood(p, code, 0, sw[0])
    BY <1>1, PassStart
  <2>2. IsSweep(sw[0]) /\ sw[0].c = code
    BY <1>1 DEF IsSweep
  <2> QED
    BY <1>3, <2>1, <2>2, FollowsSame
<1>5. ASSUME NEW n \in 0..MaxCode, n # MaxCode, n \in S PROVE n + 1 \in S
  <2>1. n + 1 \in 0..MaxCode
    BY <1>5, CodeBounded
  <2> DEFINE st == sw[n]
             t == Step(p, code, st, n + 1)
  <2>2. IsSweep(st) /\ Follows(code, st.c) /\ KnownGood(p, code, n, st)
    BY <1>5
  <2> HIDE DEF st, S
  <2>3. Fine(st.c)
    BY <2>2 DEF Follows
  <2>4. IsSweep(t) /\ Follows(st.c, t.c) /\ KnownGood(p, code, n + 1, t)
    BY <1>2, <1>5, <2>2, <2>3, PassStep
  <2>5. sw[n + 1] = t
    BY <1>1, <1>5 DEF st
  <2> HIDE DEF t
  <2>6. Follows(code, t.c)
    BY <2>2, <2>4, FollowsOn
  <2> QED
    BY <2>1, <2>4, <2>5, <2>6 DEF S
<1>6. MaxCode \in S
  <2> HIDE DEF S
  <2> QED
    BY <1>3, <1>4, <1>5, AllPlaces, CodeBounded
<1> QED
  BY <1>6 DEF Result, sw

(***************************************************************************)
(* The rounds.                                                             *)
(***************************************************************************)
IInv ==
  /\ TypeOK
  /\ outLive \subseteq Reads
  /\ ~dirty => seen = code
  /\ Fine(code)
  /\ CallsApart => Equal(source, code)

LEMMA PassesAre ==
  /\ Len(Passes) \in Nat /\ DOMAIN Passes = 1..Len(Passes)
  /\ \A k \in DOMAIN Passes : Passes[k] \in PassNames /\ (Passes[k] = "cse" => full)
<1>1. CASE full
  <2>1. Passes = <<"propagate", "cse", "coalesce", "dce", "live_dce", "globals", "dse">>
    BY <1>1 DEF Passes
  <2> QED
    BY <1>1, <2>1 DEF PassNames
<1>2. CASE ~full
  <2>1. Passes = <<"propagate", "coalesce", "dce", "globals", "dse">>
    BY <1>2 DEF Passes
  <2> QED
    BY <2>1 DEF PassNames
<1> QED
  BY <1>1, <1>2

LEMMA InitHolds == Init => IInv
<1> SUFFICES ASSUME Init PROVE IInv
  OBVIOUS
<1>1. PICK bd \in Builds : /\ full = bd.full
                           /\ source \in [1..MaxCode -> {in \in Instrs : in.op \in bd.ops}]
                           /\ \E T \in bd.elseDefs : outDefs = T \cup ReadFirst(source)
  BY DEF Init
<1>2. bd.full \in BOOLEAN /\ bd.elseDefs \in SUBSET SUBSET Regs
  BY BuildsKnown
<1>3. source \in Code /\ DOMAIN source = Places /\ source \in [1..MaxCode -> Instrs \cup {Nop}]
  BY <1>1 DEF Code, AnyInstr, Places
<1>4. outDefs \subseteq Regs /\ ReadFirst(source) \subseteq outDefs
  BY <1>1, <1>2 DEF ReadFirst
<1>5. outLive \subseteq Reads /\ code = source /\ seen = source /\ dirty = TRUE /\ changed = FALSE /\ pass = 1 /\ round = 1
  BY DEF Init
<1>6. TypeOK
  <2>1. 1 \in 1..Len(Passes) + 1 /\ 1 \in 1..MaxRounds
    BY PassesAre, RoundsPositive
  <2> QED
    BY <1>1, <1>2, <1>3, <1>4, <1>5, <2>1, RegsApart DEF TypeOK
<1>7. ReadsDefined(source)
  <2> SUFFICES ASSUME NEW k \in Places, NEW r \in Srcs(source[k]), r \notin outDefs
               PROVE  \E j \in Places : j < k /\ source[j].dst = r
    BY DEF ReadsDefined
  <2>1. r \in Regs /\ r \notin ReadFirst(source)
    <3>1. source[k] \in AnyInstr
      BY <1>3 DEF Code, Places
    <3> QED
      BY <1>4, <3>1, RegsApart
  <2>2. PICK j \in 1..k - 1 : source[j].dst = r
    BY <1>3, <2>1 DEF ReadFirst
  <2> QED
    BY <2>2, CodeBounded DEF Places
<1>8. Fine(source)
  BY <1>3, <1>7 DEF Fine
<1> QED
  BY <1>5, <1>6, <1>8 DEF IInv, Equal

LEMMA StepKeeps == IInv /\ [Next]_vars => IInv'
<1> SUFFICES ASSUME IInv, [Next]_vars PROVE IInv'
  OBVIOUS
<1>1. /\ TypeOK /\ outLive \subseteq Reads /\ (~dirty => seen = code) /\ Fine(code)
      /\ (CallsApart => Equal(source, code))
  BY DEF IInv
<1>2. CASE RunPass
  <2>1. seen' = code
    BY <1>1, <1>2 DEF RunPass, Analyzed
  <2> DEFINE p == Passes[pass]
  <2>2. p \in PassNames /\ (p = "cse" => full)
    BY <1>2, PassesAre DEF RunPass
  <2>3. code' = Result(p, code)
    BY <1>2, <2>1 DEF RunPass
  <2>4. Follows(code, code')
    <3>1. Follows(code, Result(p, code))
      BY <1>1, <2>2, ResultFollows
    <3> QED
      BY <2>3, <3>1
  <2>5. /\ full' = full /\ source' = source /\ outDefs' = outDefs /\ outLive' = outLive /\ round' = round
        /\ dirty' = (code' # code) /\ changed' = (changed \/ dirty') /\ pass' = pass + 1 /\ pass \in DOMAIN Passes
    BY <1>2 DEF RunPass
  <2>6. Fine(code)'
    <3>1. Fine(code')
      BY <2>4 DEF Follows
    <3> QED
      BY <2>5, <3>1 DEF Fine, ReadsDefined
  <2>7. (CallsApart => Equal(source, code))'
    <3>1. CallsApart => Equal(source, code')
      BY <1>1, <2>4 DEF Follows, Equal
    <3> QED
      BY <2>5, <3>1 DEF CallsApart, Equal
  <2>8. TypeOK'
    <3>1. code' \in Code
      BY <2>6 DEF Fine
    <3>2. Passes' = Passes
      BY <2>5 DEF Passes
    <3>3. pass + 1 \in 1..Len(Passes) + 1
      BY <2>5, PassesAre
    <3> QED
      BY <1>1, <2>1, <2>5, <3>1, <3>2, <3>3 DEF TypeOK, Code, AnyInstr
  <2> QED
    BY <1>1, <2>1, <2>5, <2>6, <2>7, <2>8 DEF IInv
<1>3. CASE NextRound
  <2>1. /\ round' = round + 1 /\ pass' = 1 /\ changed' = FALSE /\ round < MaxRounds
        /\ UNCHANGED <<full, source, outDefs, outLive, code, seen, dirty>>
    BY <1>3 DEF NextRound, RoundsLeft
  <2>2. TypeOK'
    <3>1. Passes' = Passes
      BY <2>1 DEF Passes
    <3>2. 1 \in 1..Len(Passes) + 1 /\ round + 1 \in 1..MaxRounds
      BY <1>1, <2>1, PassesAre, RoundsPositive DEF TypeOK
    <3> QED
      BY <1>1, <2>1, <3>1, <3>2 DEF TypeOK
  <2> QED
    BY <1>1, <2>1, <2>2 DEF IInv, Fine, ReadsDefined, CallsApart, Equal
<1>4. CASE UNCHANGED vars
  <2>1. /\ full' = full /\ source' = source /\ outDefs' = outDefs /\ outLive' = outLive /\ code' = code /\ seen' = seen
        /\ dirty' = dirty /\ changed' = changed /\ pass' = pass /\ round' = round
    BY <1>4 DEF vars
  <2> QED
    BY <1>1, <2>1 DEF IInv, TypeOK, Passes, Fine, ReadsDefined, CallsApart, Equal
<1> QED
  BY <1>2, <1>3, <1>4 DEF Next

(* Whatever the passes do, the code stays a block of the IR, and pass and  *)
(* round stay within their limits (optimize_fn, opt.c:30-48).              *)
THEOREM TypesKept == Spec => []TypeOK
<1>1. IInv => TypeOK
  BY DEF IInv
<1> QED
  BY <1>1, InitHolds, StepKeeps, PTL DEF Spec

(* However often the passes run, whatever counts they rely on and whatever *)
(* they have made of the code before, the block computes what it did when  *)
(* optimize_fn got it (opt.c:30-48): the values other blocks read, the     *)
(* memory, what each call sees and the divisions made.                     *)
THEOREM BlocksKeepMeaning == Spec => [](CallsApart => BlockOptInv)
<1>1. IInv => (CallsApart => BlockOptInv)
  <2> SUFFICES ASSUME IInv, CallsApart PROVE TypeOK /\ MeaningKept
    BY DEF BlockOptInv
  <2>1. TypeOK /\ Equal(source, code)
    BY DEF IInv
  <2> QED
    BY <2>1 DEF MeaningKept, Equal
<1> QED
  BY <1>1, InitHolds, StepKeeps, PTL DEF Spec
=============================================================================
