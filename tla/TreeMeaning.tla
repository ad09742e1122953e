---------------------------- MODULE TreeMeaning ----------------------------
(***************************************************************************)
(* What a program of the language means, read off its tree: the reference  *)
(* the compiled code and the reports of semantic analysis are held to.     *)
(* Operands are evaluated left to right, && and || stop when they are      *)
(* decided, a block opens a scope, and a variable without an initializer   *)
(* starts with no value (LANGUAGE.md, sections 4 to 8).                    *)
(*                                                                         *)
(* in() takes the next of the inputs, out(v) shows a value; the run stops  *)
(* where the inputs end.  Besides what it shows, a run says which reads    *)
(* met no value, which writes were read, and which dereferences were of a  *)
(* pointer that was not NULL.                                              *)
(***************************************************************************)
EXTENDS Ast, SequencesExt

VARIABLE inputs   \* what in() returned so far

NOVALUE == -1
Pointer(cell) == 100 + cell   \* no other value is as large
Cell(p) == p - 100
Shows(what, v) == <<what, v>>

(* A run: scope is the stack of names and their cells, cells the values    *)
(* with the node that wrote each, top the scope of the globals.            *)
RunInit(globals) ==
  LET names == [k \in DOMAIN globals |-> <<globals[k], k>>]
  IN [scope |-> names, top |-> names, cells |-> [k \in DOMAIN globals |-> [v |-> 0, by |-> NONODE]],
      taken |-> 0, shown |-> <<>>, val |-> 0, end |-> "", none |-> {}, used |-> {}, valid |-> {}]

CellOf(m, name) ==
  LET known == {k \in DOMAIN m.scope : m.scope[k][1] = name}
  IN m.scope[CHOOSE k \in known : \A j \in known : j <= k][2]

Read(m, c) == [m EXCEPT !.val = m.cells[c].v, !.used = @ \cup {m.cells[c].by}]
ReadVar(m, i) ==
  LET c == CellOf(m, ast[i].name)
  IN [Read(m, c) EXCEPT !.none = IF m.cells[c] = [v |-> NOVALUE, by |-> NONODE] THEN @ \cup {i} ELSE @]
Write(m, c, v, i) == [m EXCEPT !.cells[c] = [v |-> v, by |-> i], !.val = v]
Stop(m, why) == [m EXCEPT !.end = why]
Bool(b) == IF b THEN 1 ELSE 0
Open(m, name, v, i) ==
  [m EXCEPT !.scope = Append(@, <<name, Len(m.cells) + 1>>),
            !.cells = Append(@, [v |-> v, by |-> i])]

RECURSIVE Ex(_, _),   \* an expression or a statement, by its type
          Loop(_, _, _, _)

(* The cell an assignment goes to; at a dereference, the pointer is        *)
(* evaluated now.  What is not a pointer to a cell ends the run.           *)
Place(m, i) ==
  LET p == Ex(m, Kid(i, 1))
      seen == IF p.val # 0 THEN [p EXCEPT !.valid = @ \cup {i}] ELSE p
  IN IF Type(i) = "ID" THEN [m EXCEPT !.val = CellOf(m, ast[i].name)]
     ELSE IF p.end # "" THEN p
     ELSE IF Cell(p.val) \in DOMAIN p.cells THEN [seen EXCEPT !.val = Cell(p.val)]
     ELSE Stop(seen, "fault")

Operands(m, i) ==
  LET a == Ex(m, Kid(i, 1))
      b == Ex(a, Kid(i, 2))
  IN [m |-> b, a |-> a.val, b |-> b.val]

EvAssign(m, i) ==
  LET at == Place(m, Kid(i, 1))
      v == Ex(at, Kid(i, 2))
  IN IF v.end # "" THEN v ELSE Write(v, at.val, v.val, i)

(* x += e and x++ : the old value is read first.                           *)
EvUpdate(m, i) ==
  LET left == Kid(i, 1)
      at == Place(m, left)
      old == IF Type(left) = "ID" THEN ReadVar(at, left) ELSE Read(at, at.val)
      e == IF Type(i) = "INC" THEN [old EXCEPT !.val = 1] ELSE Ex(old, Kid(i, 2))
  IN IF at.end # "" THEN at ELSE IF e.end # "" THEN e ELSE Write(e, at.val, old.val + e.val, i)

(* A function f with the values args: it sees its parameters and the       *)
(* globals, and falls off its end with 0.                                  *)
Apply(m, f, args) ==
  LET opened == FoldLeft(LAMBDA w, k : Open(w, ast[Params(f)[k]].name, args[k], Params(f)[k]),
                         [m EXCEPT !.scope = m.top], [k \in DOMAIN args |-> k])
      Left(ran) == IF ran.end = "" THEN [ran EXCEPT !.end = "falls", !.val = 0] ELSE ran
  IN Left(Ex(opened, Body(f)))

EvCall(m, i) ==
  LET args == FoldLeft(LAMBDA w, k : LET v == Ex(w[1], k) IN <<v, Append(w[2], v.val)>>, <<m, <<>>>>, Kids(i))
      after == args[1]
      next == after.taken + 1
      ran == Apply(after, FnDecs[FnNumber(ast[i].name)], args[2])
  IN IF after.end # "" THEN after
     ELSE IF ast[i].name = "out" THEN [after EXCEPT !.shown = Append(@, Shows("out", after.val))]
     ELSE IF ast[i].name # "in"
          THEN [ran EXCEPT !.scope = m.scope, !.end = IF @ \in {"returns", "falls"} THEN "" ELSE @]
     ELSE IF after.taken = Len(inputs) THEN Stop(after, "waits")
     ELSE [after EXCEPT !.taken = next, !.val = inputs[next], !.shown = Append(@, Shows("in", inputs[next]))]

EvLogic(m, i) ==
  LET a == Ex(m, Kid(i, 1))
      b == Ex(a, Kid(i, 2))
      decided == (a.val = 0) = (Type(i) = "AND_L")
  IN IF a.end # "" THEN a
     ELSE IF decided THEN [a EXCEPT !.val = Bool(Type(i) = "OR_L")]
     ELSE [b EXCEPT !.val = Bool(b.val # 0)]

Ev(m, i) ==
  IF m.end # "" THEN m
  ELSE CASE Type(i) = "LIT" -> [m EXCEPT !.val = ast[i].int]
         [] Type(i) = "LIT_NULL" -> [m EXCEPT !.val = 0]
         [] Type(i) = "ID" -> ReadVar(m, i)
         [] Type(i) = "DEREF" -> LET at == Place(m, i) IN IF at.end # "" THEN at ELSE Read(at, at.val)
         [] Type(i) = "ADDR" -> LET at == Place(m, Kid(i, 1))
                                IN IF at.end # "" THEN at ELSE [at EXCEPT !.val = Pointer(at.val)]
         [] Type(i) = "FN_CALL" -> EvCall(m, i)
         [] Type(i) = "ASSIGN" -> EvAssign(m, i)
         [] Type(i) \in {"ADD_ASSIGN", "INC"} -> EvUpdate(m, i)
         [] Type(i) = "NOT_L" -> LET a == Ex(m, Kid(i, 1)) IN [a EXCEPT !.val = Bool(a.val = 0)]
         [] Type(i) \in {"AND_L", "OR_L"} -> EvLogic(m, i)
         [] Type(i) = "ADD" -> LET o == Operands(m, i) IN [o.m EXCEPT !.val = o.a + o.b]
         [] Type(i) = "EQ" -> LET o == Operands(m, i) IN [o.m EXCEPT !.val = Bool(o.a = o.b)]
         [] Type(i) = "TERNARY" -> LET c == Ex(m, Kid(i, 1)) IN Ex(c, Kid(i, IF c.val # 0 THEN 2 ELSE 3))
         [] OTHER -> m

(***************************************************************************)
(* Statements.                                                             *)
(***************************************************************************)
InScope(m, i) == [Ex(m, i) EXCEPT !.scope = m.scope]

ExVarDec(m, i) ==
  LET v == Ex(m, Kid(i, 1))
  IN IF Kids(i) = <<>> THEN Open(m, ast[i].name, NOVALUE, NONODE)
     ELSE IF v.end # "" THEN v ELSE Open(v, ast[i].name, v.val, i)

(* The branches of an if: pairs of a condition (0 for else) and a body.    *)
RECURSIVE ExBranches(_, _)
ExBranches(m, branches) ==
  LET first == branches[1]
      c == IF first[1] = NONODE THEN [m EXCEPT !.val = 1] ELSE Ex(m, first[1])
  IN IF branches = <<>> THEN m
     ELSE IF c.end # "" THEN c
     ELSE IF c.val # 0 THEN InScope(c, first[2]) ELSE ExBranches(c, Tail(branches))

Branches(i) ==
  [k \in 1..(Len(Kids(i)) - 1) |->
     IF k = 1 THEN <<Kid(i, 1), Kid(i, 2)>>
     ELSE IF Type(Kid(i, k + 1)) = "ELSE" THEN <<NONODE, Kid(Kid(i, k + 1), 1)>>
     ELSE <<Kid(Kid(i, k + 1), 1), Kid(Kid(i, k + 1), 2)>>]

Loop(m, cond, body, updt) ==
  LET c == IF Type(cond) = "EMPTY" THEN [m EXCEPT !.val = 1] ELSE Ex(m, cond)
      once == InScope(c, body)
      next == IF updt = NONODE THEN once ELSE InScope(once, updt)
  IN IF m.end # "" THEN m ELSE IF c.end # "" \/ c.val = 0 THEN c ELSE Loop(next, cond, body, updt)

ExSwitch(m, i) ==
  LET v == Ex(m, Kid(i, 1))
      clauses == 2..Len(Kids(i))
      holds == {k \in clauses : Type(Kid(i, k)) = "CASE"
                                /\ \E x \in ToSet(Kids(Kid(i, k))) : Type(x) = "LIT" /\ ast[x].int = v.val}
      default == {k \in clauses : Type(Kid(i, k)) = "DEFAULT"}
      taken == CHOOSE k \in clauses : k \in holds \/ (holds = {} /\ k \in default)
  IN IF v.end # "" THEN v ELSE InScope(v, CaseBody(Kid(i, taken)))

Ex(m, i) ==
  IF m.end # "" THEN m
  ELSE CASE Type(i) = "VAR_DEC" -> ExVarDec(m, i)
         [] Type(i) = "BLOCK" -> [FoldLeft(Ex, m, Kids(i)) EXCEPT !.scope = m.scope]
         [] Type(i) = "RET" -> IF Kids(i) = <<>> THEN Stop([m EXCEPT !.val = 0], "returns")
                               ELSE LET v == Ex(m, Kid(i, 1)) IN IF v.end # "" THEN v ELSE Stop(v, "returns")
         [] Type(i) = "IF" -> ExBranches(m, Branches(i))
         [] Type(i) = "WHILE" -> Loop(m, Kid(i, 1), Kid(i, 2), NONODE)
         [] Type(i) = "FOR" -> LET init == Ex(m, Kid(i, 1))
                               IN [Loop(init, Kid(i, 2), Kid(i, 4), Kid(i, 3)) EXCEPT !.scope = m.scope]
         [] Type(i) = "SWITCH" -> ExSwitch(m, i)
         [] OTHER -> Ev(m, i)

Meaning(globals, args) == Apply(RunInit(globals), FnDecs[FnNumber("main")], args)
=============================================================================
