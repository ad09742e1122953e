-------------------------------- MODULE Emit --------------------------------
(* How the x86-64 back end reaches the operands of an instruction:         *)
(* src/src/codegen/x86-64/regs.c and mem.c. Text is not kept: an emitted   *)
(* instruction is executed at once on the machine m, whose last fields are *)
(* the emitter's own (X86Fn): pool, busy and clobbers.                     *)
(*                                                                         *)
(* What surrounds the instruction is what the register allocator left: a   *)
(* home for every virtual register of the straight line of code prog, at   *)
(* one of the places, and which registers are alive between instructions.  *)
EXTENDS X86, FiniteSetsExt, Sequences

CONSTANTS Programs,   \* records [code, out, type, cval, all]: all is ra->all
          ScratchMax  \* X86_SCRATCH_MAX

VARIABLES prog,   \* the code being emitted, one of Programs
          home,   \* home of each vreg in this block (Reg.home[blk])
          told,   \* home[f->blk] while the allocator asks for scratch needs
          pc,     \* the next instruction
          val,    \* what each vreg is worth according to the IR
          m       \* the machine and the emitter

VR_NO_HOME == -1
VR_SPILL == -2
NO_REG == "none"

VRegs == DOMAIN prog.type
Size(v) == prog.type[v].size
IsConst(v) == v \in DOMAIN prog.cval             \* cstate = VR_CONST
ConstExt(v) == Signed(WideBits, Ext(prog.type[v], prog.cval[v]))   \* an int64_t

Srcs(i) == {i.src1, i.src2, i.cond} \ {NO_REG}
Variable(vs) == {v \in vs : ~IsConst(v)}

\* uses: how often the code reads v, the reads after it included
Uses(v) == Cardinality({<<k, f>> \in (DOMAIN prog.code) \X {"src1", "src2", "cond"} :
                          prog.code[k][f] = v})
           + (IF v \in prog.out THEN 1 ELSE 0)

\* the vregs alive before instruction k
LiveAt[k \in Nat] ==
  IF k > Len(prog.code) THEN prog.out
  ELSE LET i == prog.code[k]
       IN (LiveAt[k + 1] \ {i.dst}) \cup Variable(Srcs(i))

Phys(v) == IF IsConst(v) THEN VR_NO_HOME ELSE home[v]
HomesOf(vs) == {Phys(v) : v \in vs \ {NO_REG}} \cap Regs

\* ra->all & ~hm: registers that no vreg needs across instruction k
FreeRegs(k) == prog.all \ HomesOf(LiveAt[k + 1] \ {prog.code[k].dst})

\* x86_begin_instr
Begun == [m EXCEPT !.pool = FreeRegs(pc),
                   !.busy = HomesOf(Srcs(prog.code[pc]) \cup {prog.code[pc].dst})]

-----------------------------------------------------------------------------
Clobber(n, r) == [n EXCEPT !.clobbers = @ \cup {r}]

\* the registers x86_grab may take: of the pool, and no operand lives there
Grabbable(n) == n.pool \ n.busy

\* x86_grab takes the lowest of them. The rest of the emission is given as a
\* function of the emitter and the register.
Grab(n, Rest(_, _)) ==
  LET r == Min(Grabbable(n))
  IN IF Grabbable(n) = {} THEN Fault(n, "no scratch register available")
     ELSE Rest(Clobber([n EXCEPT !.pool = @ \ {r}], r), r)

\* Mutant: a fixed register is taken without reporting it.
TakeFixedQuiet(n, r) ==
  IF r \notin n.pool THEN Fault(n, "fixed register is not free")
  ELSE [n EXCEPT !.pool = @ \ {r}]

TakeFixedRW(n, r) ==
  IF r \notin n.pool THEN Fault(n, "fixed register is not free")
  ELSE Clobber([n EXCEPT !.pool = @ \ {r}], r)

TakeFixed(n, r, keeps) == IF Phys(keeps) = r THEN n ELSE TakeFixedRW(n, r)

\* x86_work_reg: the home of dst unless it must be avoided
WorksAtHome(dst, avoid) == Phys(dst) \in Regs \ avoid

WorkReg(n, dst, avoid, Rest(_, _)) ==
  IF WorksAtHome(dst, avoid) THEN Rest(n, Phys(dst)) ELSE Grab(n, Rest)

LoadImm(n, r, v) ==
  LET c == Clobber(n, r) IN IF v = 0 THEN XorSelf(c, r) ELSE Mov(c, r, v)

\* x86_load_reg: the bits of v, what lies above them unspecified
LoadReg(n, r, v) ==
  CASE IsConst(v)        -> LoadImm(n, r, ConstExt(v))
    [] Phys(v) \in Regs  -> Mov(Clobber(n, r), r, n.reg[Phys(v)])
    [] OTHER             -> Mov(Clobber(n, r), r, n.slot[v])

\* x86_load_reg64: the number v, extended to a word
LoadReg64(n, r, v) ==
  CASE IsConst(v)        -> LoadImm(n, r, ConstExt(v))
    [] Phys(v) \in Regs  -> Mov(Clobber(n, r), r, Ext(prog.type[v], n.reg[Phys(v)]))
    [] OTHER             -> Mov(Clobber(n, r), r, Ext(prog.type[v], n.slot[v]))

\* Mutant: the slot of a narrow variable gets the whole register.
StoreRegWhole(n, r, v) ==
  CASE Phys(v) = r       -> Clobber(n, r)
    [] Phys(v) \in Regs  -> MovLow(Clobber(n, Phys(v)), Phys(v), Size(v), n.reg[r])
    [] OTHER             -> [n EXCEPT !.slot[v] = n.reg[r]]

\* Mutant: only the registers grabbed are reported, not the home written.
StoreRegQuiet(n, r, v) ==
  CASE Phys(v) = r       -> n
    [] Phys(v) \in Regs  -> MovLow(n, Phys(v), Size(v), n.reg[r])
    [] OTHER             -> [n EXCEPT !.slot[v] = Low(Size(v), n.reg[r])]

StoreReg(n, r, v) ==
  CASE Phys(v) = r       -> Clobber(n, r)
    [] Phys(v) \in Regs  -> LET c == Clobber(n, Phys(v)) IN
                            IF Uses(v) = 0 THEN c
                            ELSE MovLow(c, Phys(v), Size(v), n.reg[r])
    [] Uses(v) = 0       -> n
    [] OTHER             -> [n EXCEPT !.slot[v] = Low(Size(v), n.reg[r])]

StoreImm(n, v, imm) ==
  CASE Phys(v) \in Regs -> LoadImm(n, Phys(v), Ext(prog.type[v], imm))
    [] Phys(v) \notin Regs /\ Size(v) = WideBits /\ ~FitsImm(imm) ->
         Grab(n, LAMBDA g, w : StoreReg(Mov(g, w, imm), w, v))
    [] OTHER -> [n EXCEPT !.slot[v] = Low(Size(v), imm)]

\* x86_op_reg: apply an instruction Do(machine, register, operand) of the
\* given size to register w and the vreg v, wherever v is.
OpReg(n, Do(_, _, _), w, v, size) ==
  LET c == Clobber(n, w)
      done ==
        CASE IsConst(v) /\ (size < WideBits \/ FitsImm(ConstExt(v))) ->
               Do(c, w, Signed(size, ConstExt(v)))
          [] Phys(v) \in Regs -> Do(c, w, c.reg[Phys(v)])
          [] ~IsConst(v) /\ Phys(v) \notin Regs /\ Size(v) = size ->
               Do(c, w, c.slot[v])
          [] OTHER ->
               Grab(c, LAMBDA g, t : LET l == LoadReg(g, t, v) IN Do(l, w, l.reg[t]))
  IN [done EXCEPT !.pool = n.pool]

\* the arithmetic of an instruction of the given size
AluValue(op, size, a, b) ==
  Low(size, CASE op = "add" -> a + b
              [] op = "sub" -> a - b
              [] op = "mul" -> a * b
              [] op = "xor" -> Low(size, a) ^^ Low(size, b)
              [] op = "neg" -> 0 - a
              [] op = "not" -> 0 - a - 1)

\* the two operand instruction, on register w and operand b
Alu(op, size, n, w, b) ==
  Scrambled(MovLow(n, w, size, AluValue(op, size, n.reg[w], b)))
=============================================================================
