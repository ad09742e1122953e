---------------------------- MODULE InstrSelect ----------------------------
(* Instruction selection for x86-64: src/src/codegen/x86-64/arith.c,       *)
(* divmod.c, cmp.c, rmw.c and the moves of move.c, driven by make_instr    *)
(* and make_body of func.c.                                                *)
(*                                                                         *)
(* Each handler of the back end is an action that takes the instruction at *)
(* pc, with those it fuses it with, and runs the instructions it emits on  *)
(* the machine; in the same step the IR instructions it consumed are given *)
(* their meaning in val. A handler that returns 0 to decline leaves the    *)
(* instruction to the next one in make_instr: that order is in the guards. *)
EXTENDS Emit

vars == <<prog, home, told, pc, val, m>>
context == <<prog, home, told>>

Code == prog.code
Here == Code[pc]
At(k) == pc + k <= Len(Code)
NextI == Code[pc + 1]                      \* x86_next_live
DataType == prog.type[Here.src1]           \* the data_type of Here
Wide(v) == Size(v) = WideBits
One(b) == IF b THEN 1 ELSE 0

Arith == {"add", "sub", "mul", "xor"}      \* IR_AND_A and IR_OR_A are as IR_XOR
Shifts == {"shl", "shr"}                   \* IR_LS and IR_RS
Compares == {"eq", "ne", "gt", "ge", "lt", "le"}

PowersOfTwo == {2^e : e \in 0 .. WideBits - 1}
Log2(v) == CHOOSE e \in 0 .. WideBits : 2^e = v

-----------------------------------------------------------------------------
(* What the IR means.                                                      *)

Holds(op, a, b) ==
  CASE op = "eq" -> a = b  [] op = "ne" -> a # b
    [] op = "gt" -> a > b  [] op = "ge" -> a >= b
    [] op = "lt" -> a < b  [] op = "le" -> a <= b

\* the value of instruction i when every vreg v is worth w[v]
IRValue(i, w) ==
  LET Of(v) == Ext(prog.type[v], IF IsConst(v) THEN prog.cval[v] ELSE w[v])
      a == Of(i.src1)
      b == Of(i.src2)
      t == prog.type[i.src1]
      k == Low(WideBits, b) % WideBits
  IN CASE i.op \in Arith      -> AluValue(i.op, WideBits, Low(WideBits, a), Low(WideBits, b))
       [] i.op = "neg"        -> 0 - a
       [] i.op = "not"        -> 0 - a - 1
       [] i.op = "not_l"      -> One(a = 0)
       [] i.op = "move"       -> a
       [] i.op = "shl"        -> a * 2^k
       [] i.op = "shr"        -> a \div 2^k
       [] i.op = "div"        -> Quot(a, b)
       [] i.op = "mod"        -> Rem(a, b)
       [] i.op \in Compares   -> One(Holds(i.op, a, b))
       [] i.op = "select"     -> IF Of(i.cond) # 0 THEN a ELSE b

After(i, w) == [w EXCEPT ![i.dst] = Low(Size(i.dst), IRValue(i, w))]
AfterN[n \in 0 .. 3] == IF n = 0 THEN val ELSE After(Code[pc + n - 1], AfterN[n - 1])

\* consume n instructions, leaving the machine as given
Emitted(n, machine) ==
  /\ m' = machine
  /\ val' = AfterN[n]
  /\ pc' = pc + n
  /\ UNCHANGED context

-----------------------------------------------------------------------------
(* rmw.c: an instruction applied to a variable where it lives.             *)

RmwUnary == {"neg", "not"}
RmwArith == Arith \ {"mul"}
RmwShift == {"mul"} \cup Shifts
RmwKinds == RmwUnary \cup RmwArith \cup RmwShift

\* rmw_shift: how far the shift that i amounts to goes, 0 when it is none
RmwCount(i) ==
  LET k == ConstExt(i.src2) IN
  CASE ~IsConst(i.src2)                          -> 0
    [] IsConst(i.src2) /\ i.op # "mul"           -> k
    [] IsConst(i.src2) /\ i.op = "mul"           ->
         IF k > 1 /\ k \in PowersOfTwo THEN Log2(k) ELSE 0

\* rmw_operand: i can be done in a place of s bits, its operand an immediate
RmwOperand(i, s) ==
  \/ i.op \in RmwUnary
  \/ i.op \in RmwArith /\ IsConst(i.src2) /\ (s = WideBits => FitsImm(ConstExt(i.src2)))
  \/ i.op \in RmwShift /\ RmwCount(i) \in 1 .. s - 1

\* rmw_reg_op: or its operand is a register
RmwRegOp(i, s, src2_home) ==
  i.op \in RmwArith /\ src2_home \in Regs /\ Size(i.src2) = s

RmwFits(i) ==   \* x86_rmw_fits
  /\ i.op \in RmwKinds /\ i.dst = i.src1
  /\ RmwOperand(i, Size(i.dst)) \/ RmwRegOp(i, Size(i.dst), Phys(i.src2))

\* the instruction on the place of v
RmwEmitted(n, i, v) ==
  LET s == Size(v)
      old == IF Phys(v) \in Regs THEN n.reg[Phys(v)] ELSE n.slot[v]
      by == CASE i.op \in RmwUnary      -> 0
              [] i.op \in RmwShift      -> RmwCount(i)
              [] RmwOperand(i, s)       -> ConstExt(i.src2)
              [] OTHER                  -> n.reg[Phys(i.src2)]
      shift == CASE i.op # "shr" -> "shl"
                 [] i.op = "shr" -> IF prog.type[i.src1].sign THEN "sar" ELSE "shr"
      new == IF i.op \in RmwShift THEN Shifted(shift, s, old, by)
                                  ELSE AluValue(i.op, s, old, by)
  IN Scrambled(IF Phys(v) \in Regs THEN MovLow(Clobber(n, Phys(v)), Phys(v), s, new)
                                   ELSE [n EXCEPT !.slot[v] = new])

TryRmwInplace ==
  /\ At(0) /\ RmwFits(Here)
  /\ Emitted(1, RmwEmitted(Begun, Here, Here.dst))

\* x86_make_rmw: t = x; u = t op y; x = u, done on x. The tests of rmw_find,
\* rmw_closes and rmw_shape_ok in their order.
RmwTriple ==
  /\ At(2) /\ Here.op = "move" /\ ~IsConst(Here.src1)
  /\ LET b == Code[pc + 1]
         c == Code[pc + 2]
         s == Size(Here.src1)
     IN /\ b.op \in RmwKinds /\ b.src1 = Here.dst
        /\ c.src1 = b.dst /\ c.op = "move" /\ c.dst = Here.src1
        /\ Uses(Here.dst) = 1 /\ Uses(b.dst) = 1
        /\ Size(Here.dst) = s /\ Size(b.dst) = s
        /\ RmwOperand(b, s) \/ RmwRegOp(b, s, Phys(b.src2))

MakeRmw ==
  /\ RmwTriple
  /\ Emitted(3, RmwEmitted(Begun, NextI, Here.src1))

-----------------------------------------------------------------------------
(* move.c                                                                  *)

MoveEmitted(n, i) ==
  LET widen == Size(i.dst) > Size(i.src1)
      p == Phys(i.src1)
      same == prog.type[i.dst] = prog.type[i.src1]     \* same_rep
  IN CASE IsConst(i.src1)            -> StoreImm(n, i.dst, ConstExt(i.src1))
       [] ~widen /\ p \in Regs /\ Phys(i.dst) \in Regs /\ same ->
            IF p = Phys(i.dst) THEN n
            ELSE Mov(Clobber(n, Phys(i.dst)), Phys(i.dst), n.reg[p])
       [] ~widen /\ p \in Regs /\ ~(Phys(i.dst) \in Regs /\ same) ->
            StoreReg(n, p, i.dst)
       [] OTHER ->
            WorkReg(n, i.dst, {}, LAMBDA g, w :
              StoreReg(IF widen THEN LoadReg64(g, w, i.src1) ELSE LoadReg(g, w, i.src1),
                       w, i.dst))

MakeMove ==
  /\ At(0) /\ Here.op = "move" /\ ~RmwTriple
  /\ Emitted(1, IF Here.dst = Here.src1 THEN Begun ELSE MoveEmitted(Begun, Here))

-----------------------------------------------------------------------------
(* arith.c                                                                 *)

\* x86_try_mul_add, make_mul_add: t = b * k; d = t + o as one or two lea/add
MulAddScale ==
  LET k == ConstExt(Here.src2) IN IF Here.op = "shl" THEN 2^(k % WideBits) ELSE k
MulAddOther == IF NextI.src1 = Here.dst THEN NextI.src2 ELSE NextI.src1

MulAdd ==
  /\ At(1) /\ Here.op \in {"mul", "shl"} /\ NextI.op = "add" /\ Wide(NextI.dst)
  /\ IsConst(Here.src2) /\ Uses(Here.dst) = 1 /\ Uses(NextI.dst) > 0
  /\ Wide(Here.dst) /\ Here.dst \in {NextI.src1, NextI.src2}
  /\ MulAddScale \in {2, 3, 4, 5, 8, 9}
  /\ {Phys(Here.src1), Phys(MulAddOther), Phys(NextI.dst)} \subseteq Regs

MulAddEmitted(n) ==
  LET k == MulAddScale
      odd == k \in {3, 5, 9}
      scale == IF odd THEN k - 1 ELSE k
      b == Phys(Here.src1)
      o == Phys(MulAddOther)
      d == Phys(NextI.dst)
      c == Clobber(n, d)
  IN CASE d = b /\ odd    -> LET l == Mov(c, d, c.reg[b] + c.reg[b] * scale)
                             IN Mov(l, d, l.reg[d] + l.reg[o])
       [] ~(d = b /\ odd) -> LET l == Mov(c, d, c.reg[o] + c.reg[b] * scale)
                             IN IF odd THEN Mov(l, d, l.reg[d] + l.reg[b]) ELSE l

MakeMulAdd ==
  /\ At(0) /\ ~RmwFits(Here) /\ MulAdd
  /\ Emitted(2, MulAddEmitted(Begun))

\* x86_make_arith gets the instruction when nothing above took it
ArithHere == At(0) /\ Here.op \in Arith /\ ~RmwFits(Here) /\ ~MulAdd
OpSize == IF Here.op = "mul" THEN WideBits ELSE DataType.size

\* make_mul_const, with make_mul_pm1 in its two middle cases
MulConst == Here.op = "mul" /\ IsConst(Here.src2)

MulPm1(n, w, k, plus) ==
  Grab(n, LAMBDA g, t :
    LET l == Clobber(Mov(g, t, Shifted("shl", WideBits, g.reg[w], k)), w)
    IN IF plus THEN Mov(l, w, l.reg[w] + l.reg[t])
       ELSE LET d == Mov(l, t, l.reg[t] - l.reg[w]) IN Mov(d, w, d.reg[t]))

MulConstEmitted(n, w) ==
  LET v == ConstExt(Here.src2)
      l == LoadReg(n, w, Here.src1)
      pow2 == v > 0 /\ v \in PowersOfTwo
      small == v \in {3, 5, 9}
      plus == v > 9 /\ v - 1 \in PowersOfTwo
      minus == v > 3 /\ v + 1 \in PowersOfTwo
  IN CASE pow2                               -> Mov(l, w, Shifted("shl", WideBits, l.reg[w], Log2(v)))
       [] ~pow2 /\ small                     -> Mov(l, w, l.reg[w] + l.reg[w] * (v - 1))
       [] ~pow2 /\ ~small /\ plus            -> MulPm1(l, w, Log2(v - 1), TRUE)
       [] ~pow2 /\ ~small /\ ~plus /\ minus  -> MulPm1(l, w, Log2(v + 1), FALSE)
       [] OTHER -> OpReg(l, LAMBDA g, r, b : Alu("mul", WideBits, g, r, b), w, Here.src2, WideBits)

MakeMulConst ==
  /\ ArithHere /\ MulConst
  /\ Emitted(1, WorkReg(Begun, Here.dst, {}, LAMBDA g, w : StoreReg(MulConstEmitted(g, w), w, Here.dst)))

\* make_arith_inplace: the destination already holds the second operand
\* Mutant: a subtraction too is done on the register of its second operand.
InplaceAny == Phys(Here.dst) \in Regs /\ Phys(Here.dst) = Phys(Here.src2)

Inplace == Here.op # "sub" /\ Phys(Here.dst) \in Regs /\ Phys(Here.dst) = Phys(Here.src2)

MakeArithInplace ==
  /\ ArithHere /\ ~MulConst /\ Inplace
  /\ Emitted(1, StoreReg(OpReg(Begun, LAMBDA g, r, b : Alu(Here.op, OpSize, g, r, b),
                               Phys(Here.dst), Here.src1, OpSize),
                         Phys(Here.dst), Here.dst))

\* make_lea
Lea == Here.op = "add" /\ DataType.size = WideBits
       /\ {Phys(Here.src1), Phys(Here.src2), Phys(Here.dst)} \subseteq Regs

MakeLea ==
  /\ ArithHere /\ ~Inplace /\ Lea
  /\ Emitted(1, Mov(Clobber(Begun, Phys(Here.dst)), Phys(Here.dst),
                    m.reg[Phys(Here.src1)] + m.reg[Phys(Here.src2)]))

\* make_incdec
IncDec == Here.op \in {"add", "sub"} /\ IsConst(Here.src2) /\ ConstExt(Here.src2) = 1

MakeIncDec ==
  /\ ArithHere /\ IncDec
  /\ Emitted(1, WorkReg(Begun, Here.dst, {}, LAMBDA g, w :
                  StoreReg(Alu(Here.op, DataType.size, LoadReg(g, w, Here.src1), w, 1), w, Here.dst)))

\* what is left: load, operate, store
MakeArith ==
  /\ ArithHere /\ ~MulConst /\ ~Inplace /\ ~Lea /\ ~IncDec
  /\ Emitted(1, WorkReg(Begun, Here.dst, HomesOf({Here.src2}), LAMBDA g, w :
                  StoreReg(OpReg(LoadReg(g, w, Here.src1),
                                 LAMBDA h, r, b : Alu(Here.op, OpSize, h, r, b),
                                 w, Here.src2, OpSize), w, Here.dst)))

\* x86_make_shift: the count goes through %cl, before the value is loaded
\* when that cannot destroy it (early)
ShiftOp == CASE Here.op = "shl" -> "shl"
             [] Here.op = "shr" -> IF DataType.sign THEN "sar" ELSE "shr"
\* Mutant: the count is always loaded first, over a value that is in %cl.
EarlyAlways == TRUE

Early == Phys(Here.src1) # RCX

ShiftBy(n, w, count) ==
  Scrambled(Mov(n, w, Shifted(ShiftOp, WideBits, n.reg[w], count)))

ShiftEmitted ==
  IF IsConst(Here.src2)
  THEN WorkReg(Begun, Here.dst, {}, LAMBDA g, w :
         StoreReg(ShiftBy(LoadReg64(g, w, Here.src1), w, ConstExt(Here.src2)), w, Here.dst))
  ELSE LET taken == TakeFixed(Begun, RCX, Here.src2)
           ready == IF Early THEN LoadReg(taken, RCX, Here.src2) ELSE taken
           avoid == {RCX} \cup (IF Early THEN {} ELSE HomesOf({Here.src2}))
       IN WorkReg(ready, Here.dst, avoid, LAMBDA g, w :
            LET l == LoadReg64(g, w, Here.src1)
                c == IF Early THEN l ELSE LoadReg(l, RCX, Here.src2)
            IN StoreReg(ShiftBy(c, w, Low(NarrowBits, c.reg[RCX])), w, Here.dst))

MakeShift ==
  /\ At(0) /\ Here.op \in Shifts /\ ~RmwFits(Here) /\ ~MulAdd
  /\ Emitted(1, ShiftEmitted)

\* x86_make_unary and x86_make_not_l
MakeUnary ==
  /\ At(0) /\ Here.op \in RmwUnary /\ ~RmwFits(Here)
  /\ Emitted(1, WorkReg(Begun, Here.dst, {}, LAMBDA g, w :
                  StoreReg(Alu(Here.op, DataType.size, LoadReg(g, w, Here.src1), w, 0), w, Here.dst)))

MakeNotL ==
  /\ At(0) /\ Here.op = "not_l"
  /\ Emitted(1, WorkReg(Begun, Here.dst, {}, LAMBDA g, w :
                  LET l == LoadReg(g, w, Here.src1)
                  IN StoreReg(SetCC(Cmp(l, DataType.size, l.reg[w], 0), "e", w), w, Here.dst)))

-----------------------------------------------------------------------------
(* divmod.c                                                                *)

DivHere == At(0) /\ Here.op \in {"div", "mod"}
DivBegun == TakeFixedRW(TakeFixedRW(Begun, RAX), RDX)

\* the divisors make_divmod_const knows how to do without dividing
DivConst ==
  /\ IsConst(Here.src2)
  /\ LET v == ConstExt(Here.src2) IN
     /\ v > 0 /\ ~(DataType.sign /\ v = 1)
     /\ ~(v \in PowersOfTwo /\ Here.op = "mod" /\ ~FitsImm(v - 1))

\* make_div_pow2
DivPow2Emitted ==
  LET v == ConstExt(Here.src2)
      k == Log2(v)
      l == LoadReg64(DivBegun, RAX, Here.src1)
      signs == Mov(l, RDX, Shifted("sar", WideBits, l.reg[RAX], WideBits - 1))
      bias == Mov(signs, RDX, Shifted("shr", WideBits, signs.reg[RDX], WideBits - k))
      up == Mov(bias, RAX, bias.reg[RAX] + bias.reg[RDX])
  IN CASE ~DataType.sign /\ Here.op = "div" -> Mov(l, RAX, Shifted("shr", WideBits, l.reg[RAX], k))
       [] ~DataType.sign /\ Here.op = "mod" -> Mov(l, RAX, l.reg[RAX] % v)
       [] DataType.sign /\ Here.op = "div"  -> Mov(up, RAX, Shifted("sar", WideBits, up.reg[RAX], k))
       [] DataType.sign /\ Here.op = "mod"  -> Mov(up, RAX, (up.reg[RAX] % v) - up.reg[RDX])

MakeDivPow2 ==
  /\ DivHere /\ DivConst /\ ConstExt(Here.src2) \in PowersOfTwo
  /\ Emitted(1, StoreReg(DivPow2Emitted, RAX, Here.dst))

\* make_sdiv_magic and make_udiv_magic: DivMagic has the multiplication;
\* here it is the registers it goes through
DivMagicEmitted ==
  Grab(LoadReg64(DivBegun, RAX, Here.src1), LAMBDA g, t :
    LET a == IF DataType.sign THEN Signed(WideBits, g.reg[RAX]) ELSE g.reg[RAX]
        v == ConstExt(Here.src2)
        spent == Mov(Mov(g, t, Rem(a, v)), RDX, 0)
    IN Scrambled(Mov(spent, RAX, IF Here.op = "div" THEN Quot(a, v) ELSE Rem(a, v))))

MakeDivMagic ==
  /\ DivHere /\ DivConst /\ ConstExt(Here.src2) \notin PowersOfTwo
  /\ Emitted(1, StoreReg(DivMagicEmitted, RAX, Here.dst))

\* the division proper; p is the register of the divisor
DivBy(n, p) ==
  LET s == DataType.size
      l == LoadReg(n, RAX, Here.src1)
      ready == CASE DataType.sign                          -> SignExtendA(l, s)
                 [] ~DataType.sign /\ s > NarrowBits       -> XorSelf(l, RDX)
                 [] ~DataType.sign /\ s = NarrowBits       -> l
      d == Divide(ready, s, DataType.sign, p)
  IN CASE Here.op = "div"                     -> StoreReg(d, RAX, Here.dst)
       [] Here.op = "mod" /\ s > NarrowBits   -> StoreReg(d, RDX, Here.dst)
       [] Here.op = "mod" /\ s = NarrowBits   ->
            StoreReg(Mov(d, RAX, Low(s, d.reg[RAX] \div 2^s)), RAX, Here.dst)

DivEmitted ==
  IF Phys(Here.src2) \in Regs \ {RAX, RDX} THEN DivBy(DivBegun, Phys(Here.src2))
  ELSE Grab(DivBegun, LAMBDA g, p : DivBy(LoadReg(g, p, Here.src2), p))

\* what the processor refuses is left to it, not to the compiler
Divides ==
  LET t == DataType
      a == Ext(t, val[Here.src1])
      b == IF IsConst(Here.src2) THEN ConstExt(Here.src2) ELSE Ext(t, val[Here.src2])
  IN b # 0 /\ ~(t.sign /\ b = -1 /\ a = -(2^(t.size - 1)))

MakeDivmod ==
  /\ DivHere /\ ~DivConst /\ Divides
  /\ Emitted(1, DivEmitted)

-----------------------------------------------------------------------------
(* cmp.c                                                                   *)

CCName(op, sign) ==
  CASE op = "eq" -> "e"  [] op = "ne" -> "ne"
    [] op = "gt" -> IF sign THEN "g" ELSE "a"
    [] op = "ge" -> IF sign THEN "ge" ELSE "ae"
    [] op = "lt" -> IF sign THEN "l" ELSE "b"
    [] op = "le" -> IF sign THEN "le" ELSE "be"
\* Mutant: the operands are exchanged instead of the condition negated.
InvCmpSwapped(op) ==
  CASE op = "eq" -> "ne" [] op = "ne" -> "eq" [] op = "gt" -> "lt"
    [] op = "le" -> "ge" [] op = "lt" -> "gt" [] op = "ge" -> "le"

InvCmp(op) ==
  CASE op = "eq" -> "ne" [] op = "ne" -> "eq" [] op = "gt" -> "le"
    [] op = "le" -> "gt" [] op = "lt" -> "ge" [] op = "ge" -> "lt"

\* cmp_mem_imm: a variable in memory against an immediate
CmpMemImm ==
  /\ IsConst(Here.src2) /\ ~IsConst(Here.src1) /\ Phys(Here.src1) \notin Regs
  /\ Size(Here.src1) = WideBits => FitsImm(ConstExt(Here.src2))

WriteCmp(n) ==
  LET s == DataType.size
      By(g, p) == OpReg(g, LAMBDA h, r, b : Cmp(h, s, h.reg[r], b), p, Here.src2, s)
      done == CASE CmpMemImm -> Cmp(n, Size(Here.src1), n.slot[Here.src1], ConstExt(Here.src2))
                [] ~CmpMemImm /\ Phys(Here.src1) \in Regs -> By(n, Phys(Here.src1))
                [] OTHER -> Grab(n, LAMBDA g, p : By(LoadReg(g, p, Here.src1), p))
  IN [done EXCEPT !.pool = n.pool]

\* make_cmp_select takes the comparison when only the select reads it
CmpSelect ==
  At(1) /\ NextI.op = "select" /\ NextI.cond = Here.dst /\ Uses(Here.dst) = 1

MakeCmp ==
  /\ At(0) /\ Here.op \in Compares /\ ~CmpSelect
  /\ Emitted(1, WorkReg(WriteCmp(Begun), Here.dst, {}, LAMBDA g, w :
                  StoreReg(SetCC(g, CCName(Here.op, DataType.sign), w), w, Here.dst)))

\* select_move: the flags are set; cmov one operand over the other
SelectMove(n, sel, yes, no) ==
  IF Phys(sel.dst) \in Regs /\ Phys(sel.dst) = Phys(sel.src2)
  THEN LET d == Phys(sel.dst)
           Over(g, r) == CMov(Clobber(g, d), yes, r, d)
       IN IF Phys(sel.src1) \in Regs THEN Over(n, Phys(sel.src1))
          ELSE Grab(n, LAMBDA g, r : Over(LoadReg(g, r, sel.src1), r))
  ELSE WorkReg(n, sel.dst, {}, LAMBDA g, w :
         LET l == LoadReg(g, w, sel.src1)
             Over(h, r) == StoreReg(CMov(h, no, r, w), w, sel.dst)
         IN IF Phys(sel.src2) \in Regs THEN Over(l, Phys(sel.src2))
            ELSE Grab(l, LAMBDA h, r : Over(LoadReg(h, r, sel.src2), r)))

MakeCmpSelect ==
  /\ At(0) /\ Here.op \in Compares /\ CmpSelect
  /\ LET n == [Begun EXCEPT !.busy = @ \cup HomesOf({NextI.src1, NextI.src2, NextI.dst})]
         t == DataType.sign
     IN Emitted(2, SelectMove(WriteCmp(n), NextI, CCName(Here.op, t), CCName(InvCmp(Here.op), t)))

\* test_zero
TestZero(n, v) ==
  CASE IsConst(v) ->
         [Grab(n, LAMBDA g, t : LET l == LoadReg(g, t, v) IN Cmp(l, Size(v), l.reg[t], 0))
            EXCEPT !.pool = n.pool]
    [] Phys(v) \in Regs -> Cmp(n, Size(v), n.reg[Phys(v)], 0)
    [] OTHER            -> Cmp(n, Size(v), n.slot[v], 0)

MakeSelect ==
  /\ At(0) /\ Here.op = "select"
  /\ Emitted(1, SelectMove(TestZero(Begun, Here.cond), Here, "ne", "e"))

-----------------------------------------------------------------------------
(* What each handler tells the register allocator it may grab:             *)
(* x86_scratch_need of layout.c and the *_scratch functions.               *)

\* x86_op_reg_tmp asks x86_phys_reg, which reads the home in block f->blk
OpRegTmp(v, size) ==
  CASE IsConst(v)                     -> One(size = WideBits /\ ~FitsImm(ConstExt(v)))
    [] ~IsConst(v) /\ told[v] \in Regs  -> 0
    [] OTHER                          -> One(Size(v) # size)

MulTmp(v) ==
  CASE v > 0 /\ v \in PowersOfTwo -> 0
    [] v \in {3, 5, 9}            -> 0
    [] v > 9 /\ v - 1 \in PowersOfTwo -> 1
    [] v > 3 /\ v + 1 \in PowersOfTwo -> 1
    [] OTHER                      -> One(~FitsImm(v))

\* Mutant: a destination that is the home of the second operand is not counted.
ArithScratchFlat(i) ==
  IF RmwFits(i) THEN 0
  ELSE One(Phys(i.dst) \notin Regs)
       + (IF IsConst(i.src2) THEN MulTmp(ConstExt(i.src2)) ELSE OpRegTmp(i.src2, Size(i.src1)))

ArithScratch(i) ==
  LET d == Phys(i.dst)
      os == IF i.op = "mul" THEN WideBits ELSE Size(i.src1)
  IN CASE RmwFits(i)                          -> 0
       [] ~RmwFits(i) /\ i.op = "mul" /\ IsConst(i.src2) ->
            One(d \notin Regs) + MulTmp(ConstExt(i.src2))
       [] OTHER ->
            IF i.op # "sub" /\ d \in Regs /\ d = Phys(i.src2) THEN OpRegTmp(i.src1, os)
            ELSE One(d \notin Regs \/ d = Phys(i.src2)) + OpRegTmp(i.src2, os)

UnaryScratch(i) ==
  LET d == Phys(i.dst)
  IN CASE RmwFits(i)                       -> 0
       [] ~RmwFits(i) /\ i.op \in Shifts /\ d \in Regs ->
            One(~IsConst(i.src2) /\ (d = RCX \/ (Phys(i.src1) = RCX /\ d = Phys(i.src2))))
       [] OTHER                            -> One(d \notin Regs)

\* Mutant: a divisor in the registers of the dividend is left there.
DivScratchFree(i) ==
  IF IsConst(i.src2) THEN One(ConstExt(i.src2) \notin PowersOfTwo)
                     ELSE One(Phys(i.src2) \notin Regs)

DivScratch(i) ==
  LET v == ConstExt(i.src2)
      sign == prog.type[i.src1].sign
      pow2 == v \in PowersOfTwo
  IN CASE ~IsConst(i.src2) -> One(Phys(i.src2) \notin Regs \ {RAX, RDX})
       [] IsConst(i.src2) /\ (v <= 0 \/ (sign /\ v = 1)) -> 1
       [] OTHER -> IF pow2 /\ i.op = "mod" /\ ~FitsImm(v - 1) THEN 1 ELSE One(~pow2)

CmpScratch(i, fused) ==
  LET need == One(Phys(i.src1) \notin Regs) + OpRegTmp(i.src2, Size(i.src1))
  IN IF fused \/ Phys(i.dst) \in Regs THEN need ELSE Max({need, 1})

\* Mutant: one register for both operands of the conditional move.
SelectScratchOne(i) == One(Phys(i.dst) \notin Regs \/ Phys(i.src2) \notin Regs)

SelectScratch(i) ==
  LET d == Phys(i.dst)
      need == IF d \in Regs /\ d = Phys(i.src2) THEN One(Phys(i.src1) \notin Regs)
              ELSE One(d \notin Regs) + One(Phys(i.src2) \notin Regs)
  IN IF IsConst(i.cond) THEN Max({need, 1}) ELSE need

MoveScratch(i) ==
  CASE i.dst = i.src1 \/ Phys(i.dst) \in Regs -> 0
    [] OTHER -> IF IsConst(i.src1) THEN One(Wide(i.dst) /\ ~FitsImm(ConstExt(i.src1)))
                                   ELSE One(Phys(i.src1) \notin Regs)

ScratchNeed(k) ==
  LET i == Code[k]
      fused == /\ k < Len(Code) /\ Code[k + 1].op = "select"
               /\ Code[k + 1].cond = i.dst /\ Uses(i.dst) = 1
  IN CASE i.op = "move"           -> MoveScratch(i)
       [] i.op = "select"         -> SelectScratch(i)
       [] i.op \in Arith          -> ArithScratch(i)
       [] i.op \in {"div", "mod"} -> DivScratch(i)
       [] i.op \in Compares       -> CmpScratch(i, fused)
       [] OTHER                   -> UnaryScratch(i)

-----------------------------------------------------------------------------
(* Where the allocator may leave the code (regalloc/graph.c, paint.c,      *)
(* color.c): vregs alive together have homes of their own, a fixed         *)
(* register is free of what lives across the instruction, and as many      *)
(* registers as any instruction says it grabs are nobody's home.           *)

CONSTANTS Values,    \* the words variables start with
          Dirt,      \* the contents of a register above a narrow variable
          StaleBlk   \* whether f->blk may be another block while told is read

Places == prog.all \cup {VR_SPILL}

Fixed(i) == CASE i.op \in {"div", "mod"} -> {RAX, RDX}
              [] i.op \in Shifts /\ ~IsConst(i.src2) -> {RCX}
              [] OTHER -> {}

Coloured ==
  /\ \A k \in 0 .. Len(Code) :
       LET together == LiveAt[k + 1] \cup (IF k = 0 THEN {} ELSE {Code[k].dst})
       IN \A v, w \in together : v # w /\ home[v] \in Regs => home[v] # home[w]
  /\ \A k \in DOMAIN Code :
       LET i == Code[k]
           across == LiveAt[k + 1] \ {i.dst}
       IN HomesOf(IF i.op \in Shifts THEN across \ {i.src2} ELSE across) \cap Fixed(i) = {}
  /\ \A k \in DOMAIN Code :
       Cardinality((prog.all \ HomesOf(DOMAIN home)) \ Fixed(Code[k]))
         >= Min({ScratchNeed(k), ScratchMax})

\* registers and slots hold the variables, a narrow one with dirt above it
Loaded(dirt) ==
  [reg   |-> [r \in Regs |->
                LET here == {v \in LiveAt[1] : home[v] = r}
                IN IF here = {} THEN dirt
                   ELSE LET v == CHOOSE v \in here : TRUE
                        IN val[v] + dirt - Low(Size(v), dirt)],
   slot  |-> [v \in DOMAIN home |-> val[v]],
   flags |-> Junk, fault |-> "", pool |-> {}, busy |-> {}, clobbers |-> {}]

Init ==
  /\ prog \in Programs
  /\ pc = 0 /\ home = <<>> /\ told = <<>> /\ val = <<>> /\ m = [fault |-> ""]

\* the allocator's answer and the state of the program at this point
Allocate ==
  /\ pc = 0 /\ pc' = 1
  /\ UNCHANGED prog
  /\ home' \in [Variable(VRegs) -> Places]
  /\ told' \in IF StaleBlk THEN [DOMAIN home' -> Places] ELSE {home'}
  /\ Coloured'
  /\ \E w \in [LiveAt[1] -> Values] :
       val' = [v \in DOMAIN home' |-> IF v \in LiveAt[1] THEN Low(Size(v), w[v]) ELSE 0]
  /\ \E d \in Dirt : m' = Loaded(d)'

HandlerRuns ==
  \/ TryRmwInplace \/ MakeRmw \/ MakeMove
  \/ MakeMulAdd \/ MakeMulConst \/ MakeArithInplace \/ MakeLea \/ MakeIncDec \/ MakeArith
  \/ MakeShift \/ MakeUnary \/ MakeNotL
  \/ MakeDivPow2 \/ MakeDivMagic \/ MakeDivmod
  \/ MakeCmp \/ MakeCmpSelect \/ MakeSelect

Next == Allocate \/ (pc > 0 /\ m.fault = "" /\ HandlerRuns)
Spec == Init /\ [][Next]_vars

-----------------------------------------------------------------------------
(* Types only: the word in every register and slot, a home for every       *)
(* variable (regalloc.h, Reg), the emitter's sets of registers (X86Fn).    *)
TypeOK ==
  pc > 0 =>
    /\ home \in [Variable(VRegs) -> Places]
    /\ pc \in 1 .. Len(Code) + 1
    /\ m.reg \in [Regs -> Word]
    /\ \A v \in DOMAIN home : {val[v], m.slot[v]} \subseteq 0 .. 2^Size(v) - 1
    /\ m.pool \cup m.busy \cup m.clobbers \subseteq Regs

\* Between two instructions every variable that is still needed is where the
\* register allocator said, with the value the IR gives it, whatever homes
\* the operands share and whatever lies above a narrow value.
ValuesHeld ==
  pc > 0 /\ m.fault = "" =>
    \A v \in LiveAt[pc] :
      Low(Size(v), IF home[v] \in Regs THEN m.reg[home[v]] ELSE m.slot[v]) = val[v]

\* The machine stays a machine, no slot holds more than fits it, and the
\* values are held (mem.c:19-98).
SelectInv == TypeOK /\ ValuesHeld

\* No instruction needs more scratch registers than it told the allocator,
\* nor finds a fixed register taken: regalloc_violation (regs.c) is dead code.
\* Nor does one divide what the processor refuses, or branch on flags that an
\* instruction in between has destroyed.
NoFault == m.fault = ""

\* Every register an instruction changes is reported by x86_clobber: callers
\* save only what the clobbers of the callee name (x86_call_clobbers).
ClobbersTold ==
  [][pc > 0 => \A r \in Regs : m'.reg[r] # m.reg[r] => r \in m'.clobbers]_vars
=============================================================================
