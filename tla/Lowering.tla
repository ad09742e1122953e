------------------------------ MODULE Lowering ------------------------------
(***************************************************************************)
(* From the tree of a function to its intermediate code (src/ir/ir.c).     *)
(* The generator appends instructions and hands out registers and labels   *)
(* from counters; a local variable is the register it was declared in, a   *)
(* global is reached by loads and stores, and reading a variable copies it,*)
(* so that what an operand was is not changed by the operands after it.    *)
(*                                                                         *)
(* The state of the generator is a record; val is the register of the      *)
(* expression generated last.                                              *)
(***************************************************************************)
EXTENDS Ast, SequencesExt

CONSTANT LogicBudget   \* LOGIC_BUDGET: how large a pure operand may be (8)

VARIABLE sema          \* the symbol table semantic analysis leaves

NOREG == 0

IRInit(useSelect, labels) ==
  [select |-> useSelect, code |-> <<>>, regs |-> 0, labels |-> labels, home |-> [x \in DOMAIN sema.syms |-> NOREG],
   addressed |-> {}, val |-> NOREG, fault |-> FALSE]

Blank == [op |-> "nop", dst |-> NOREG, src1 |-> NOREG, src2 |-> NOREG, cond |-> NOREG, target |-> 0, imm |-> 0]

Push(g, i) == [g EXCEPT !.code = Append(@, i)]
NewReg(g) == [g EXCEPT !.regs = @ + 1, !.val = g.regs + 1]
NewLabel(g) == [g EXCEPT !.labels = @ + 1]

MakeConstInto(g, d, v) == Push(g, [Blank EXCEPT !.op = "const", !.dst = d, !.imm = v])
MakeConst(g, v) == LET r == NewReg(g) IN MakeConstInto(r, r.val, v)
MakeMove(g, d, s) == Push(g, [Blank EXCEPT !.op = "move", !.dst = d, !.src1 = s])
MakeOp(g, op, a, b) ==
  LET r == NewReg(g) IN Push(r, [Blank EXCEPT !.op = op, !.dst = r.val, !.src1 = a, !.src2 = b])
MakeSelect(g, d, a, b, c) ==
  Push(g, [Blank EXCEPT !.op = "select", !.dst = d, !.src1 = a, !.src2 = b, !.cond = c])
MakeJump(g, op, c, label) == Push(g, [Blank EXCEPT !.op = op, !.src1 = c, !.target = label])
MakeLabel(g, label) == Push(g, [Blank EXCEPT !.op = "label", !.target = label])
MakeRet(g, v) == Push(g, [Blank EXCEPT !.op = "ret", !.src1 = v])
MakeLdGlobal(g, x) ==
  LET r == NewReg(g) IN Push(r, [Blank EXCEPT !.op = "ld_global", !.dst = r.val, !.target = x])
MakeStrGlobal(g, x, v) == Push(g, [Blank EXCEPT !.op = "str_global", !.src1 = v, !.target = x])
MakeLdPtr(g, p) == LET r == NewReg(g) IN Push(r, [Blank EXCEPT !.op = "ld_ptr", !.dst = r.val, !.src1 = p])
MakeStrPtr(g, p, v) == Push(g, [Blank EXCEPT !.op = "str_ptr", !.src1 = p, !.src2 = v])

Global(x) == sema.syms[x].depth = 0
LoadVar(g, x) == IF Global(x) THEN MakeLdGlobal(g, x) ELSE MakeOp(g, "move", g.home[x], NOREG)
StoreVar(g, x, v) == IF Global(x) THEN MakeStrGlobal(g, x, v) ELSE MakeMove(g, g.home[x], v)

RECURSIVE GenNode(_, _),   \* an expression or a statement, by its type
          GenJumpIf(_, _, _, _)

(***************************************************************************)
(* Addresses, assignments, calls.  The address of the left side comes      *)
(* first, then the value; a compound assignment reads the old value before *)
(* it evaluates its operand.                                               *)
(***************************************************************************)
GenAddr(g, i) ==
  LET c == Kid(i, 1)
      x == sema.sym[c]
      r == NewReg(g)
  IN IF Type(c) = "DEREF" THEN GenNode(g, Kid(c, 1))
     ELSE IF Global(x) THEN Push(r, [Blank EXCEPT !.op = "addr_global", !.dst = r.val, !.target = x])
     ELSE Push([r EXCEPT !.addressed = @ \cup {g.home[x]}],
               [Blank EXCEPT !.op = "addr_local", !.dst = r.val, !.src1 = g.home[x]])

GenDeref(g, i) == LET p == GenNode(g, Kid(i, 1)) IN MakeLdPtr(p, p.val)

GenLvalueAddr(g, lhs) == IF Type(lhs) = "DEREF" THEN GenNode(g, Kid(lhs, 1)) ELSE [g EXCEPT !.val = NOREG]

(* Where a value computed in g goes: through the address at, or to lhs.    *)
StoreTo(g, lhs, at) == IF at # NOREG THEN MakeStrPtr(g, at, g.val) ELSE StoreVar(g, sema.sym[lhs], g.val)
LoadFrom(g, lhs, at) == IF at # NOREG THEN MakeLdPtr(g, at) ELSE LoadVar(g, sema.sym[lhs])

GenAssign(g, i) ==
  LET addr == GenLvalueAddr(g, Kid(i, 1))
  IN StoreTo(GenNode(addr, Kid(i, 2)), Kid(i, 1), addr.val)

GenCompoundAssign(g, i) ==
  LET addr == GenLvalueAddr(g, Kid(i, 1))
      a == LoadFrom(addr, Kid(i, 1), addr.val)
      b == GenNode(a, Kid(i, 2))
  IN StoreTo(MakeOp(b, "add", a.val, b.val), Kid(i, 1), addr.val)

GenIncDec(g, i) ==
  LET addr == GenLvalueAddr(g, Kid(i, 1))
      a == LoadFrom(addr, Kid(i, 1), addr.val)
      one == MakeConst(a, 1)
  IN StoreTo(MakeOp(one, "add", a.val, one.val), Kid(i, 1), addr.val)

(* The arguments are evaluated in order, then passed.                      *)
GenCall(g, i) ==
  LET args == FoldLeft(LAMBDA w, k : LET v == GenNode(w[1], k) IN <<v, Append(w[2], v.val)>>,
                       <<g, <<>>>>, Kids(i))
      passed == FoldLeft(LAMBDA h, k : Push(h, [Blank EXCEPT !.op = "arg", !.src1 = args[2][k], !.target = k]),
                         args[1], [k \in DOMAIN args[2] |-> k])
      name == ast[i].name
      r == IF name = "out" THEN [passed EXCEPT !.val = NOREG] ELSE NewReg(passed)
  IN Push(r, [Blank EXCEPT !.op = IF name \in {"in", "out"} THEN name ELSE "call", !.dst = r.val,
                           !.target = IF name \in {"in", "out"} THEN 0 ELSE FnNumber(name),
                           !.imm = Len(Kids(i))])

GenUnary(g, i) == LET a == GenNode(g, Kid(i, 1)) IN MakeOp(a, "lnot", a.val, NOREG)

NodeToIR == [ADD |-> "add", EQ |-> "eq"]

GenBinary(g, i) ==
  LET a == GenNode(g, Kid(i, 1))
      b == GenNode(a, Kid(i, 2))
  IN MakeOp(b, NodeToIR[Type(i)], a.val, b.val)

(***************************************************************************)
(* Conditions.  && and || of a condition jump as soon as it is decided; as *)
(* a value they are computed without a jump if the right operand is pure.  *)
(***************************************************************************)
GenJumpLogic(g, i, label, when) ==
  LET stop == Type(i) = "OR_L"
      skip == NewLabel(g)
      past == GenJumpIf(GenJumpIf(skip, Kid(i, 1), skip.labels, stop), Kid(i, 2), label, when)
  IN IF when = stop THEN GenJumpIf(GenJumpIf(g, Kid(i, 1), label, stop), Kid(i, 2), label, when)
     ELSE MakeLabel(past, skip.labels)

GenJumpIf(g, i, label, when) ==
  LET value == GenNode(g, i)
  IN CASE Type(i) = "NOT_L" -> GenJumpIf(g, Kid(i, 1), label, ~when)
       [] Type(i) \in {"AND_L", "OR_L"} -> GenJumpLogic(g, i, label, when)
       [] OTHER -> MakeJump(value, IF when THEN "jnz" ELSE "jz", value.val, label)

(* Mutation: a call is a pure operand.                                     *)
PureNodeOrCall == {"LIT", "ID", "ADD", "NOT_L", "EQ", "AND_L", "OR_L", "FN_CALL"}
PureNode == {"LIT", "ID", "ADD", "NOT_L", "EQ", "AND_L", "OR_L"}

RECURSIVE Under(_)
Under(i) == {i} \cup UNION {Under(k) : k \in ToSet(Kids(i))}

IsPure(i) == Cardinality(Under(i)) <= LogicBudget /\ \A k \in Under(i) : Type(k) \in PureNode

(* A branch that only assigns a simple value to a local: its assignment.   *)
(* The left side is looked up as a variable whatever it is: if it is       *)
(* reached through a pointer the compiler reads a symbol that does not     *)
(* exist (OutOfTable).                                                     *)
IsSimpleVal(i) == Type(i) = "LIT" \/ (Type(i) = "ID" /\ ~Global(sema.sym[i]))

Lone(body) ==
  IF Type(body) # "BLOCK" THEN body ELSE IF Len(Kids(body)) = 1 THEN Kid(body, 1) ELSE NONODE

LoneAssign(body) ==
  LET n == Lone(body)
  IN IF /\ n # NONODE /\ Type(n) = "ASSIGN" /\ Type(Kid(n, 1)) = "ID"
        /\ ~Global(sema.sym[Kid(n, 1)]) /\ IsSimpleVal(Kid(n, 2))
     THEN n ELSE NONODE

OutOfTable(body) ==
  LET n == Lone(body) IN n # NONODE /\ Type(n) = "ASSIGN" /\ Type(Kid(n, 1)) # "ID"

(* The assignments an if chooses between: none, one, or one of each branch *)
(* to the same variable.                                                   *)
SelectArms(i) ==
  LET a == LoneAssign(Kid(i, 2))
      other == Kid(i, 3)
      b == LoneAssign(Kid(other, 1))
  IN IF a = NONODE THEN <<>>
     ELSE IF other = NONODE THEN <<a>>
     ELSE IF Type(other) # "ELSE" \/ b = NONODE THEN <<>>
     ELSE IF sema.sym[Kid(b, 1)] = sema.sym[Kid(a, 1)] THEN <<a, b>> ELSE <<>>

SelectFaults(i) ==
  \/ OutOfTable(Kid(i, 2))
  \/ /\ LoneAssign(Kid(i, 2)) # NONODE
     /\ Kid(i, 3) # NONODE /\ Type(Kid(i, 3)) = "ELSE" /\ OutOfTable(Kid(Kid(i, 3), 1))

(* A pure condition is evaluated last, next to the select that reads it.   *)
GenSelect(g, i) ==
  LET arms == SelectArms(i)
      x == sema.sym[Kid(arms[1], 1)]
      late == IsPure(Kid(i, 1))
      c == IF late THEN g ELSE GenNode(g, Kid(i, 1))
      va == GenNode(c, Kid(arms[1], 2))
      vb == IF Len(arms) = 2 THEN GenNode(va, Kid(arms[2], 2)) ELSE [va EXCEPT !.val = g.home[x]]
      vc == IF late THEN GenNode(vb, Kid(i, 1)) ELSE [vb EXCEPT !.val = c.val]
  IN MakeSelect(vc, g.home[x], va.val, vb.val, vc.val)

GenFlatTernary(g, i) ==
  LET va == GenNode(g, Kid(i, 2))
      vb == GenNode(va, Kid(i, 3))
      vc == GenNode(vb, Kid(i, 1))
      res == NewReg(vc)
  IN MakeSelect(res, res.val, va.val, vb.val, vc.val)

GenTernary(g, i) ==
  LET else == NewLabel(g)
      end == NewLabel(else)
      res == NewReg(end)
      cond == GenJumpIf(res, Kid(i, 1), else.labels, FALSE)
      a == GenNode(cond, Kid(i, 2))
      other == MakeLabel(MakeJump(MakeMove(a, res.val, a.val), "jmp", NOREG, end.labels), else.labels)
      b == GenNode(other, Kid(i, 3))
  IN IF g.select /\ \A k \in 1..3 : IsPure(Kid(i, k)) THEN GenFlatTernary(g, i)
     ELSE [MakeLabel(MakeMove(b, res.val, b.val), end.labels) EXCEPT !.val = res.val]

GenBool(g, i) ==
  LET v == GenNode(g, i)
      zero == MakeConst(v, 0)
  IN IF Type(i) \in {"EQ", "AND_L", "OR_L", "NOT_L"} THEN v ELSE MakeOp(zero, "ne", v.val, zero.val)

GenLogicFlat(g, i) ==
  LET a == GenBool(g, Kid(i, 1))
      b == GenBool(a, Kid(i, 2))
  IN MakeOp(b, IF Type(i) = "AND_L" THEN "and" ELSE "or", a.val, b.val)

GenLogic(g, i) ==
  LET res == NewReg(g)
      false == NewLabel(res)
      end == NewLabel(false)
      true == MakeConstInto(GenJumpIf(end, i, false.labels, FALSE), res.val, 1)
      other == MakeLabel(MakeJump(true, "jmp", NOREG, end.labels), false.labels)
  IN IF IsPure(Kid(i, 2)) THEN GenLogicFlat(g, i)
     ELSE [MakeLabel(MakeConstInto(other, res.val, 0), end.labels) EXCEPT !.val = res.val]

GenExpr(g, i) ==
  CASE Type(i) = "LIT" -> MakeConst(g, ast[i].int)
    [] Type(i) = "LIT_NULL" -> MakeConst(g, 0)
    [] Type(i) = "ID" -> LoadVar(g, sema.sym[i])
    [] Type(i) = "DEREF" -> GenDeref(g, i)
    [] Type(i) = "ADDR" -> GenAddr(g, i)
    [] Type(i) = "FN_CALL" -> GenCall(g, i)
    [] Type(i) = "ASSIGN" -> GenAssign(g, i)
    [] Type(i) = "ADD_ASSIGN" -> GenCompoundAssign(g, i)
    [] Type(i) = "NOT_L" -> GenUnary(g, i)
    [] Type(i) \in {"AND_L", "OR_L"} -> GenLogic(g, i)
    [] Type(i) = "TERNARY" -> GenTernary(g, i)
    [] OTHER -> GenBinary(g, i)

(***************************************************************************)
(* Statements.                                                             *)
(***************************************************************************)
GenVarDec(g, i) ==
  LET x == sema.sym[i]
      r == IF Kids(i) = <<>> THEN NewReg(g) ELSE GenNode(g, Kid(i, 1))
  IN [r EXCEPT !.home[x] = r.val,
               !.addressed = IF sema.syms[x].addressed THEN @ \cup {r.val} ELSE @]

GenReturn(g, i) ==
  LET v == GenNode(g, Kid(i, 1)) IN IF Kids(i) = <<>> THEN MakeRet(g, NOREG) ELSE MakeRet(v, v.val)

(* One branch of an if; if another follows, its end jumps over that one.   *)
GenBranch(g, cond, body, end, more) ==
  LET l == IF more THEN NewLabel(g) ELSE g
      next == IF more THEN l.labels ELSE end
      done == GenNode(GenJumpIf(l, cond, next, FALSE), body)
  IN IF more THEN MakeLabel(MakeJump(done, "jmp", NOREG, end), next) ELSE done

GenIf(g, i) ==
  LET end == NewLabel(g)
      first == GenBranch(end, Kid(i, 1), Kid(i, 2), end.labels, Kid(i, 3) # NONODE)
      rest == FoldLeft(LAMBDA h, k :
                         LET b == Kid(i, k)
                         IN IF Type(b) = "ELSE" THEN GenNode(h, Kid(b, 1))
                            ELSE GenBranch(h, Kid(b, 1), Kid(b, 2), end.labels, k < Len(Kids(i))),
                       first, [k \in 1..(Len(Kids(i)) - 2) |-> k + 2])
  IN IF g.select /\ SelectFaults(i) THEN [g EXCEPT !.fault = TRUE]
     ELSE IF g.select /\ SelectArms(i) # <<>> THEN GenSelect(g, i)
     ELSE MakeLabel(rest, end.labels)

GenWhile(g, i) ==
  LET body == NewLabel(g)
      cond == NewLabel(body)
      enter == MakeLabel(MakeJump(cond, "jmp", NOREG, cond.labels), body.labels)
  IN GenJumpIf(MakeLabel(GenNode(enter, Kid(i, 2)), cond.labels), Kid(i, 1), body.labels, TRUE)

GenFor(g, i) ==
  LET body == NewLabel(g)
      cond == NewLabel(body)
      init == GenNode(cond, Kid(i, 1))
      endless == Type(Kid(i, 2)) = "EMPTY"
      enter == MakeLabel(IF endless THEN init ELSE MakeJump(init, "jmp", NOREG, cond.labels), body.labels)
      again == MakeLabel(GenNode(GenNode(enter, Kid(i, 4)), Kid(i, 3)), cond.labels)
  IN IF endless THEN MakeJump(again, "jmp", NOREG, body.labels)
     ELSE GenJumpIf(again, Kid(i, 2), body.labels, TRUE)

CaseValues(c) == SelectSeq(Kids(c), LAMBDA v : Type(v) # "BLOCK")

(* Clause k of the switch i has the label first + k; a value that is none  *)
(* of the cases goes to the default clause.                                *)
GenSwitchTests(g, i, scrut, first) ==
  LET Clauses == 1..(Len(Kids(i)) - 1)
      default == CHOOSE k \in Clauses : Type(Kid(i, k + 1)) = "DEFAULT"
      tested == FoldLeft(LAMBDA h, k :
                           FoldLeft(LAMBDA t, v : LET c == GenNode(t, v)
                                                      eq == MakeOp(c, "eq", scrut, c.val)
                                                  IN MakeJump(eq, "jnz", eq.val, first + k),
                                    h, IF k = default THEN <<>> ELSE CaseValues(Kid(i, k + 1))),
                         g, [k \in Clauses |-> k])
  IN MakeJump(tested, "jmp", NOREG, first + default)

GenSwitch(g, i) ==
  LET scrut == GenNode(g, Kid(i, 1))
      end == NewLabel(scrut)
      labelled == [end EXCEPT !.labels = @ + Len(Kids(i)) - 1]
      tests == GenSwitchTests(labelled, i, scrut.val, end.labels)
      clauses == FoldLeft(LAMBDA h, k :
                            MakeJump(GenNode(MakeLabel(h, end.labels + k), CaseBody(Kid(i, k + 1))),
                                     "jmp", NOREG, end.labels),
                          tests, [k \in 1..(Len(Kids(i)) - 1) |-> k])
  IN MakeLabel(clauses, end.labels)

GenBlock(g, i) == FoldLeft(GenNode, g, Kids(i))

GenStmt(g, i) ==
  CASE Type(i) = "VAR_DEC" -> GenVarDec(g, i)
    [] Type(i) = "BLOCK" -> GenBlock(g, i)
    [] Type(i) = "RET" -> GenReturn(g, i)
    [] Type(i) = "WHILE" -> GenWhile(g, i)
    [] Type(i) = "FOR" -> GenFor(g, i)
    [] Type(i) = "IF" -> GenIf(g, i)
    [] Type(i) = "SWITCH" -> GenSwitch(g, i)
    [] Type(i) = "INC" -> GenIncDec(g, i)
    [] Type(i) = "EMPTY" -> g
    [] OTHER -> GenExpr(g, i)

GenNode(g, i) == GenStmt(g, i)

(* The parameters take the first registers; a return closes the code.      *)
GenArgsDec(g, f) ==
  FoldLeft(LAMBDA h, k :
             LET x == sema.sym[Params(f)[k]]
                 r == NewReg(h)
             IN Push([r EXCEPT !.home[x] = r.val,
                               !.addressed = IF sema.syms[x].addressed THEN @ \cup {r.val} ELSE @],
                     [Blank EXCEPT !.op = "param", !.dst = r.val, !.target = k]),
           g, [k \in DOMAIN Params(f) |-> k])

FnEnd(g) == MakeRet(g, NOREG)
GenFn(useSelect, labels, f) == FnEnd(GenBlock(GenArgsDec(IRInit(useSelect, labels), f), Body(f)))
=============================================================================
