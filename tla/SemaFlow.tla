------------------------------ MODULE SemaFlow ------------------------------
(***************************************************************************)
(* What semantic analysis follows along the flow of a function             *)
(* (src/sema/statements.c, expr_vars.c, symbol.c): which variables are     *)
(* assigned, which pointers are known to be NULL, which values were written*)
(* and not yet read, whether every path returns.  One walk over the tree,  *)
(* in source order; a branch is walked with the flags it is entered with,  *)
(* and the flags after it are those all its ends share.                    *)
(*                                                                         *)
(* The state of the walk is a record: the symbols, those in scope          *)
(* (active, the latest last), the depth, the symbol each identifier stands *)
(* for, the dead writes recorded, and what was reported.                   *)
(***************************************************************************)
EXTENDS Ast, SequencesExt

NOSYM == 0

Symbol(name, kind, depth, assigned) ==
  [name |-> name, kind |-> kind, depth |-> depth, assigned |-> assigned, addressed |-> FALSE,
   read |-> FALSE, null |-> FALSE, pending |-> FALSE, write |-> NONODE]

(* The table before the functions: the names declared at the top level.    *)
SemaInit(globals) ==
  [syms |-> [k \in DOMAIN globals |-> Symbol(globals[k], "var", 0, FALSE)],
   active |-> [k \in DOMAIN globals |-> k], depth |-> 0,
   sym |-> [i \in DOMAIN ast |-> NOSYM], dead |-> {},
   valued |-> FALSE, warned |-> {}, errors |-> {}]

Warn(s, what, i) == [s EXCEPT !.warned = @ \cup {<<what, i>>}]
Error(s, what, i) == [s EXCEPT !.errors = @ \cup {<<what, i>>}]
Mark(s) == Len(s.active)

(* The chain of a bucket lists the symbols in scope with the latest first. *)
Find(s, name) ==
  LET known == {k \in DOMAIN s.active : s.syms[s.active[k]].name = name}
  IN IF known = {} THEN NOSYM ELSE s.active[CHOOSE k \in known : \A j \in known : j <= k]

Declare(s, kind, i) ==
  LET prev == Find(s, ast[i].name)
      twice == prev # NOSYM /\ s.syms[prev].depth = s.depth
      new == Symbol(ast[i].name, kind, s.depth, kind = "param" \/ Kids(i) # <<>>)
  IN [s EXCEPT !.syms = Append(@, new), !.active = Append(@, Len(s.syms) + 1),
               !.sym[i] = Len(s.syms) + 1,
               !.errors = IF twice THEN @ \cup {<<"declared twice", i>>} ELSE @]

(***************************************************************************)
(* The flags that follow the flow, for the first mark symbols in scope.    *)
(***************************************************************************)
SaveFlags(s, mark) ==
  [k \in 1..mark |-> [assigned |-> s.syms[s.active[k]].assigned, null |-> s.syms[s.active[k]].null]]

AllAssigned(mark) == [k \in 1..mark |-> [assigned |-> TRUE, null |-> FALSE]]

LoadFlags(s, flags) ==
  [s EXCEPT !.syms = [x \in DOMAIN @ |->
     IF \E k \in DOMAIN flags : s.active[k] = x
     THEN LET k == CHOOSE j \in DOMAIN flags : s.active[j] = x
          IN [@[x] EXCEPT !.assigned = flags[k].assigned, !.null = flags[k].null, !.pending = FALSE]
     ELSE @[x]]]

(* Mutation: a pointer is NULL after a branch if one of its ends says so.  *)
SharedAny(a, b) == [assigned |-> a.assigned /\ b.assigned, null |-> a.null \/ b.null]

(* What two ends of a branch share.                                        *)
Shared(a, b) == [assigned |-> a.assigned /\ b.assigned, null |-> a.null /\ b.null]

Intersect(flags, s) ==
  LET now == SaveFlags(s, Len(flags)) IN [k \in DOMAIN flags |-> Shared(flags[k], now[k])]

(* Mutation: what is pending is kept where a branch starts.                *)
ClearNothing(s) == s

ClearPending(s) ==
  [s EXCEPT !.syms = [x \in DOMAIN @ |->
     IF x \in ToSet(s.active) THEN [@[x] EXCEPT !.pending = FALSE] ELSE @[x]]]

(***************************************************************************)
(* Reads and writes of a variable.                                         *)
(***************************************************************************)
CheckVarRef(s, i) ==
  IF Find(s, ast[i].name) = NOSYM THEN Error(s, "not declared", i)
  ELSE [s EXCEPT !.sym[i] = Find(s, ast[i].name)]

WarnUnassigned(s, i) ==
  IF s.sym[i] = NOSYM \/ s.syms[s.sym[i]].assigned THEN s ELSE Warn(s, "unassigned", i)

MarkRead(s, i) ==
  IF s.sym[i] = NOSYM THEN s
  ELSE [s EXCEPT !.syms[s.sym[i]].read = TRUE, !.syms[s.sym[i]].pending = FALSE]

CheckId(s, i) == MarkRead(WarnUnassigned(CheckVarRef(s, i), i), i)

(* A value is pending from its write to the next read; a write that finds  *)
(* one pending makes that one dead.                                        *)
SymWrite(s, x, i) ==
  IF x = NOSYM \/ s.syms[x].depth = 0 \/ s.syms[x].addressed THEN s
  ELSE [s EXCEPT !.dead = IF s.syms[x].pending THEN @ \cup {<<x, s.syms[x].write>>} ELSE @,
                 !.syms[x].pending = TRUE, !.syms[x].write = i]

(* The variable a write goes to, or through.                               *)
RECURSIVE Target(_)
Target(left) == IF Type(left) = "DEREF" THEN Target(Kid(left, 1)) ELSE left

MarkAssigned(s, left) ==
  LET x == IF Type(Target(left)) = "ID" THEN s.sym[Target(left)] ELSE NOSYM
  IN IF x = NOSYM THEN s ELSE [s EXCEPT !.syms[x].assigned = TRUE]

SetNullState(s, left, null) ==
  IF Type(left) # "ID" \/ s.sym[left] = NOSYM THEN s
  ELSE [s EXCEPT !.syms[s.sym[left]].null = null]

IsNullValue(i) == Type(i) = "LIT_NULL"

WarnNullDeref(s, i) ==
  LET p == Kid(i, 1)
  IN IF Type(p) = "ID" /\ s.sym[p] # NOSYM /\ s.syms[s.sym[p]].null THEN Warn(s, "null", i) ELSE s

(***************************************************************************)
(* Expressions.                                                            *)
(***************************************************************************)
RECURSIVE CheckNode(_, _)   \* an expression or a statement, by its type

CheckDeref(s, i) == WarnNullDeref(CheckNode(s, Kid(i, 1)), i)

CheckAddr(s, i) ==
  LET c == Kid(i, 1)
      found == CheckVarRef(s, c)
  IN IF Type(c) = "DEREF" THEN CheckDeref(s, c)
     ELSE IF found.sym[c] = NOSYM THEN found
     ELSE MarkRead([found EXCEPT !.syms[found.sym[c]].addressed = TRUE], c)

CheckLvalue(s, i) == IF Type(i) = "ID" THEN CheckVarRef(s, i) ELSE CheckDeref(s, i)

(* mark_assigned, set_null_state and sym_write, in that order.             *)
Written(s, left, null, i) ==
  LET known == SetNullState(MarkAssigned(s, left), left, null)
  IN IF Type(left) = "ID" THEN SymWrite(known, known.sym[left], i) ELSE known

CheckAssign(s, i) ==
  LET left == Kid(i, 1)
      right == Kid(i, 2)
  IN Written(CheckNode(CheckLvalue(s, left), right), left, IsNullValue(right), i)

CheckCompoundAssign(s, i) ==
  LET left == Kid(i, 1)
      seen == MarkRead(WarnUnassigned(CheckLvalue(s, left), left), left)
  IN Written(CheckNode(seen, Kid(i, 2)), left, FALSE, i)

CheckIncDec(s, i) ==
  LET target == Kid(i, 1)
      seen == MarkRead(WarnUnassigned(CheckLvalue(s, target), target), target)
  IN Written(seen, target, FALSE, i)

(* Mutation: what the right operand assigns is taken for assigned.         *)
CheckRhsAlways(s, i) == CheckNode(s, Kid(i, 2))

(* The right operand of && and || may not be reached.                      *)
CheckRhs(s, i) ==
  LET right == Kid(i, 2)
      snap == SaveFlags(s, Mark(s))
      seen == CheckNode(ClearPending(s), right)
  IN IF Type(i) \notin {"AND_L", "OR_L"} THEN CheckNode(s, right)
     ELSE LoadFlags(seen, Intersect(snap, seen))

ConstCondValue(i) ==
  CASE Type(i) = "LIT" -> IF ast[i].int # 0 THEN 1 ELSE 0
    [] Type(i) = "LIT_NULL" -> 0
    [] OTHER -> -1

CheckCond(s, i) == CheckNode(s, i)

CheckTernary(s, i) ==
  LET cond == CheckCond(s, Kid(i, 1))
      snap == SaveFlags(cond, Mark(s))
      then == CheckNode(ClearPending(cond), Kid(i, 2))
      acc == SaveFlags(then, Mark(s))
      else == CheckNode(ClearPending(LoadFlags(then, snap)), Kid(i, 3))
  IN LoadFlags(else, Intersect(acc, else))

CheckExpr(s, i) ==
  CASE Type(i) = "ID" -> CheckId(s, i)
    [] Type(i) = "DEREF" -> CheckDeref(s, i)
    [] Type(i) = "ADDR" -> CheckAddr(s, i)
    [] Type(i) = "ASSIGN" -> CheckAssign(s, i)
    [] Type(i) = "ADD_ASSIGN" -> CheckCompoundAssign(s, i)
    [] Type(i) = "TERNARY" -> CheckTernary(s, i)
    [] Type(i) = "NOT_L" -> CheckNode(s, Kid(i, 1))
    [] Type(i) = "FN_CALL" -> FoldLeft(CheckNode, s, Kids(i))
    [] Type(i) \in {"AND_L", "OR_L", "ADD", "EQ"} -> CheckRhs(CheckNode(s, Kid(i, 1)), i)
    [] OTHER -> s

(***************************************************************************)
(* Which statements return on every path (stmt_returns).  The language has *)
(* no break: a loop with a true condition is left by a return only.        *)
(***************************************************************************)
BranchBody(b) == IF Type(b) = "ELSE" THEN Kid(b, 1) ELSE Kid(b, 2)
From(i, k) == SubSeq(Kids(i), k, Len(Kids(i)))

RECURSIVE StmtReturns(_)

BlockReturns(i) == \E k \in DOMAIN Kids(i) : StmtReturns(Kid(i, k))

(* Mutation: an if without an else can return on every path.               *)
IfReturnsWithoutElse(i) ==
  /\ StmtReturns(Kid(i, 2))
  /\ \A b \in ToSet(From(i, 3)) : StmtReturns(BranchBody(b))

IfReturns(i) ==
  LET branches == ToSet(From(i, 3))
  IN /\ StmtReturns(Kid(i, 2))
     /\ \A b \in branches : StmtReturns(BranchBody(b))
     /\ \E b \in branches : Type(b) = "ELSE"

SwitchReturns(i) ==
  LET clauses == ToSet(From(i, 2))
  IN /\ \A c \in clauses : StmtReturns(CaseBody(c))
     /\ \E c \in clauses : Type(c) = "DEFAULT"

StmtReturns(i) ==
  CASE Type(i) = "RET" -> TRUE
    [] Type(i) = "BLOCK" -> BlockReturns(i)
    [] Type(i) = "IF" -> IfReturns(i)
    [] Type(i) = "SWITCH" -> SwitchReturns(i)
    [] Type(i) = "WHILE" -> ConstCondValue(Kid(i, 1)) = 1
    [] Type(i) = "FOR" -> Type(Kid(i, 2)) = "EMPTY" \/ ConstCondValue(Kid(i, 2)) = 1
    [] OTHER -> FALSE

(***************************************************************************)
(* Scopes: what leaves one is reported on, the latest of a name is found   *)
(* again after it.                                                         *)
(***************************************************************************)
WarnDeadWrites(s, x) ==
  LET last == IF s.syms[x].pending /\ ~s.syms[x].addressed THEN {<<x, s.syms[x].write>>} ELSE {}
  IN [s EXCEPT !.warned = @ \cup {<<"dead", d[2]>> : d \in {e \in s.dead \cup last : e[1] = x}}]

WarnUnused(s, x) ==
  IF s.syms[x].read THEN WarnDeadWrites(s, x)
  ELSE Warn(s, "unused", CHOOSE i \in DOMAIN ast : Type(i) \in {"VAR_DEC", "PARAM"} /\ s.sym[i] = x)

PopScope(s, mark) ==
  LET reported == FoldLeft(WarnUnused, s, SubSeq(s.active, mark + 1, Mark(s)))
  IN [reported EXCEPT !.active = SubSeq(@, 1, mark)]

Deeper(s) == [s EXCEPT !.depth = @ + 1]
Shallower(s, mark) == PopScope([s EXCEPT !.depth = @ - 1], mark)

(***************************************************************************)
(* Statements.                                                             *)
(***************************************************************************)
CheckBlockBody(s, i) == FoldLeft(CheckNode, s, Kids(i))
CheckBlock(s, i) == Shallower(CheckBlockBody(Deeper(s), i), Mark(s))

CheckVarDec(s, i) ==
  LET seen == IF Kids(i) = <<>> THEN s ELSE CheckNode(s, Kid(i, 1))
      declared == Declare(seen, "var", i)
      x == declared.sym[i]
      known == [declared EXCEPT !.syms[x].null = Kids(i) # <<>> /\ IsNullValue(Kid(i, 1))]
  IN IF Kids(i) = <<>> THEN declared ELSE SymWrite(known, x, i)

CheckScopedStatement(s, i) == Shallower(CheckNode(Deeper(s), i), Mark(s))
CheckBody(s, i) == IF Type(i) = "BLOCK" THEN CheckNode(s, i) ELSE CheckScopedStatement(s, i)

(* A branch is walked from the flags snap; if its end can be reached, acc  *)
(* keeps only what holds there too.  Walked as <<state, acc>>.             *)
CheckBranch(s, body, snap, acc) ==
  LET seen == CheckBody(s, body)
  IN <<LoadFlags(seen, snap), IF StmtReturns(body) THEN acc ELSE Intersect(acc, seen)>>

CheckElifChain(s, branches, snap, acc) ==
  FoldLeft(LAMBDA w, b :
             LET clear == ClearPending(w[1])
                 cond == IF Type(b) = "ELIF" THEN CheckCond(clear, Kid(b, 1)) ELSE clear
             IN CheckBranch(cond, BranchBody(b), snap, w[2]),
           <<s, acc>>, branches)

(* A condition that is always true makes the body unconditional.           *)
CheckCertainIf(s, i) ==
  LET after == CheckBody(s, Kid(i, 2))
      snap == SaveFlags(after, Mark(s))
      chain == CheckElifChain(after, From(i, 3), snap, AllAssigned(Mark(s)))
  IN LoadFlags(chain[1], snap)

CheckIf(s, i) ==
  LET cond == CheckCond(s, Kid(i, 1))
      body == Kid(i, 2)
      snap == SaveFlags(cond, Mark(s))
      then == CheckBody(ClearPending(cond), body)
      acc == IF StmtReturns(body) THEN AllAssigned(Mark(s)) ELSE SaveFlags(then, Mark(s))
      chain == CheckElifChain(LoadFlags(then, snap), From(i, 3), snap, acc)
      else == \E k \in DOMAIN From(i, 3) : Type(From(i, 3)[k]) = "ELSE"
      end == IF else THEN chain[2] ELSE Intersect(chain[2], chain[1])
  IN IF ConstCondValue(Kid(i, 1)) = 1 THEN CheckCertainIf(cond, i) ELSE LoadFlags(chain[1], end)

CheckWhile(s, i) ==
  LET cond == ClearPending(CheckCond(s, Kid(i, 1)))
      snap == SaveFlags(cond, Mark(s))
      seen == CheckBody(cond, Kid(i, 2))
  IN LoadFlags(seen, Intersect(snap, seen))

CheckFor(s, i) ==
  LET init == CheckNode(Deeper(s), Kid(i, 1))
      cond == ClearPending(CheckCond(init, Kid(i, 2)))
      snap == SaveFlags(cond, Mark(cond))
      updt == CheckNode(CheckBody(cond, Kid(i, 4)), Kid(i, 3))
  IN Shallower(LoadFlags(updt, Intersect(snap, updt)), Mark(s))

CheckSwitch(s, i) ==
  LET cond == CheckNode(s, Kid(i, 1))
      snap == SaveFlags(cond, Mark(s))
      clauses == FoldLeft(LAMBDA w, c : CheckBranch(ClearPending(w[1]), CaseBody(c), snap, w[2]),
                          <<cond, AllAssigned(Mark(s))>>, From(i, 2))
      default == \E c \in ToSet(From(i, 2)) : Type(c) = "DEFAULT"
      checked == IF default THEN clauses[1] ELSE Error(clauses[1], "no default", i)
  IN LoadFlags(checked, clauses[2])

CheckReturn(s, i) ==
  IF Kids(i) = <<>> THEN IF s.valued THEN Error(s, "missing value", i) ELSE s
  ELSE CheckNode(IF s.valued THEN s ELSE Error(s, "void value", i), Kid(i, 1))

CheckStatement(s, i) ==
  CASE Type(i) = "VAR_DEC" -> CheckVarDec(s, i)
    [] Type(i) = "BLOCK" -> CheckBlock(s, i)
    [] Type(i) = "RET" -> CheckReturn(s, i)
    [] Type(i) = "WHILE" -> CheckWhile(s, i)
    [] Type(i) = "FOR" -> CheckFor(s, i)
    [] Type(i) = "IF" -> CheckIf(s, i)
    [] Type(i) = "SWITCH" -> CheckSwitch(s, i)
    [] Type(i) = "INC" -> CheckIncDec(s, i)
    [] OTHER -> CheckExpr(s, i)

CheckNode(s, i) == CheckStatement(s, i)

(* The body of a function is walked in the scope of its parameters; a      *)
(* function with a value must return on every path.                        *)
CheckFnDec(s, f) ==
  LET open == Deeper([s EXCEPT !.valued = Valued(f)])
      params == FoldLeft(LAMBDA t, i : Declare(t, "param", i), open, Params(f))
      body == CheckBlockBody(params, Body(f))
      ends == IF Valued(f) /\ ~StmtReturns(Body(f)) THEN Error(body, "may not return", f) ELSE body
  IN Shallower(ends, Mark(s))
=============================================================================
