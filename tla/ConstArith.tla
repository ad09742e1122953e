----------------------------- MODULE ConstArith -----------------------------
(***************************************************************************)
(* Arithmetic on values the compiler knows, from the optimizer to the      *)
(* machine.  opt_fold (fold.c, simplify.c) and opt_strength (extra.c)      *)
(* rewrite the instructions of a function, round after round (opt.c); a    *)
(* division by a constant that is left is emitted as shifts or as a        *)
(* multiplication (divmod.c, DivMagic); the result runs on an input.       *)
(*                                                                         *)
(* A function is an entry, and perhaps a loop: label, body, branch back.   *)
(* A value is the int64_t that stands for it, on words of W bits; a type   *)
(* has a size in bits and a sign.                                          *)
(***************************************************************************)
EXTENDS DivMagic, Bitwise, SequencesExt

CONSTANTS
  Families,    \* bound: families of functions compiled: types, addressed, code
  Inputs(_),   \* bound: the values a function is run on
  ImmBits,     \* the size of an immediate operand (32)
  MaxRounds,   \* OPT_MAX_ROUNDS
  MaxTurns     \* bound: how often the loop goes round

ASSUME BoundsPositive == {ImmBits, MaxRounds, MaxTurns} \subseteq Nat \ {0}

VARIABLES
  source,    \* what is compiled
  code,      \* the instructions now
  seen,      \* the instructions as analyze_fn last saw them
  changed,   \* a pass of this round changed something
  round,
  phase,     \* the next pass, "fold" or "strength", then "emit", "done"
  input,     \* what the run is given
  result     \* what it showed, and how it ended

optVars == <<source, code, seen, changed, round>>
vars == <<optVars, phase, input, result, magicVars>>

NOREG == "none"
Instr(op, dst, s1, s2, imm, type) ==
  [op |-> op, dst |-> dst, s1 |-> s1, s2 |-> s2, imm |-> imm, type |-> type]

Truth(b) == IF b THEN 1 ELSE 0

NormVal(v, t) ==
  LET low == v % 2^t.size
  IN Signed(IF t.sign /\ low >= 2^(t.size - 1) THEN low - 2^t.size ELSE low)

TypeOf(r) == source.types[r]
SameRep(a, b) ==
  LET ta == TypeOf(a) tb == TypeOf(b)
  IN ta.size = tb.size /\ (ta.size = W \/ ta.sign = tb.sign)

-----------------------------------------------------------------------------
(* What the compiler computes: the set of the value, empty if it does not. *)

EvalDivmod(op, sg, a, b) ==
  LET ua == Wrap(a) ub == Wrap(b)
  IN IF b = 0 \/ (sg /\ b = -1) THEN {}
     ELSE IF sg THEN {IF op = "div" THEN Towards0(a, b) ELSE a - b * Towards0(a, b)}
     ELSE {IF op = "div" THEN ua \div ub ELSE ua % ub}

EvalCompare(op, sg, a, b) ==
  LET x == IF sg THEN a ELSE Wrap(a)
      y == IF sg THEN b ELSE Wrap(b)
  IN CASE op = "eq" -> {Truth(a = b)}
       [] op = "ne" -> {Truth(a # b)}
       [] op = "gt" -> {Truth(x > y)}
       [] op = "ge" -> {Truth(x >= y)}
       [] op = "lt" -> {Truth(x < y)}
       [] op = "le" -> {Truth(x <= y)}
       [] OTHER -> {}

EvalBinary(op, t, a, b) ==
  LET ua == Wrap(a) ub == Wrap(b)
  IN CASE op = "add" -> {Signed(a + b)}
       [] op = "sub" -> {Signed(a - b)}
       [] op = "mul" -> {Signed(a * b)}
       [] op = "and" -> {Signed(ua & ub)}
       [] op = "or" -> {Signed(ua | ub)}
       [] op = "xor" -> {Signed(ua ^^ ub)}
       [] op = "ls" -> IF ub >= W THEN {} ELSE {Signed(ua * 2^ub)}
       [] op = "rs" -> IF ub >= W THEN {} ELSE {Signed((IF t.sign THEN a ELSE ua) \div 2^ub)}
       [] op \in {"div", "mod"} -> EvalDivmod(op, t.sign, a, b)
       [] OTHER -> EvalCompare(op, t.sign, a, b)

EvalUnary(op, a) ==
  CASE op \in {"move", "extend"} -> {a}
    [] op = "neg" -> {Signed(-a)}
    [] op = "not_a" -> {-a - 1}
    [] op = "not_l" -> {Truth(a = 0)}
    [] OTHER -> {}

-----------------------------------------------------------------------------
(* Which registers hold a known value.  g.known has those set to a constant*)
(* in this block; a register defined once, in the entry, holds its constant*)
(* everywhere.                                                             *)

Jumps == {"jmp", "jz", "jnz"}
DefsOf(r) == {i \in DOMAIN seen : seen[i].op # "nop" /\ seen[i].dst = r}
UsesOf(r) ==
  {u \in (DOMAIN seen) \X {"s1", "s2"} : seen[u[1]][u[2]] = r}
    \cup {u \in (DOMAIN seen) \X {"imm"} : seen[u[1]].op = "select" /\ seen[u[1]].imm = r}
InEntry(i) == \A k \in 1..i : seen[k].op \notin Jumps \cup {"label"}

\* The one definition of r, if it is the only one and in the entry.
OnlyDef(r) == {i \in DefsOf(r) : DefsOf(r) = {i} /\ InEntry(i) /\ r \notin source.addressed}

\* Mutation: the definition of the entry is taken for the only one.
RegConstOfEntry(g, r) ==
  IF r \in source.addressed THEN {}
  ELSE IF r \in DOMAIN g.known THEN {g.known[r]}
  ELSE {NormVal(g.code[i].imm, TypeOf(r)) : i \in {j \in DefsOf(r) : InEntry(j) /\ g.code[j].op = "const"}}

RegConst(g, r) ==
  IF r \in source.addressed THEN {}
  ELSE IF r \in DOMAIN g.known THEN {g.known[r]}
  ELSE {NormVal(g.code[i].imm, TypeOf(r)) : i \in {j \in OnlyDef(r) : g.code[j].op = "const"}}

-----------------------------------------------------------------------------
(* What an instruction becomes: the set of the new one, empty if it stays. *)

Nop == Instr("nop", NOREG, NOREG, NOREG, 0, [size |-> W, sign |-> TRUE])
ToConst(in, v) ==
  {Instr("const", in.dst, NOREG, NOREG, NormVal(v, TypeOf(in.dst)), TypeOf(in.dst))}
TryMove(in, r) ==
  IF ~SameRep(in.dst, r) THEN {}
  ELSE IF in.dst = r THEN {Nop}
  ELSE {[in EXCEPT !.op = "move", !.s1 = r, !.s2 = NOREG]}

FoldInstr(g, in) ==
  IF in.dst = NOREG \/ in.s1 = NOREG THEN {}
  ELSE LET as == RegConst(g, in.s1)
           results == IF in.s2 = NOREG THEN UNION {EvalUnary(in.op, a) : a \in as}
                      ELSE UNION {EvalBinary(in.op, in.type, a, b) : a \in as, b \in RegConst(g, in.s2)}
       IN UNION {ToConst(in, v) : v \in results}

FoldSelect(g, in) ==
  UNION {TryMove(in, IF c # 0 THEN in.s1 ELSE in.s2) : c \in RegConst(g, in.imm)}

FoldJump(g, in) ==
  {IF (v # 0) = (in.op = "jnz") THEN [in EXCEPT !.op = "jmp", !.s1 = NOREG] ELSE Nop :
     v \in RegConst(g, in.s1)}

SimplifySame(in) ==
  CASE in.op \in {"sub", "xor", "ne", "lt", "gt"} -> ToConst(in, 0)
    [] in.op \in {"eq", "le", "ge"} -> ToConst(in, 1)
    [] in.op \in {"and", "or"} -> TryMove(in, in.s1)
    [] OTHER -> {}

\* The right operand is b.
SimplifyRhs(in, b) ==
  LET neutral == CASE in.op \in {"add", "sub", "or", "xor", "ls", "rs"} -> b = 0
                   [] in.op \in {"div", "mul"} -> b = 1
                   [] in.op = "and" -> b = NormVal(-1, in.type)
                   [] OTHER -> FALSE
      zero == (in.op = "mod" /\ b = 1) \/ (in.op \in {"mul", "and"} /\ b = 0)
  IN IF zero THEN ToConst(in, 0) ELSE IF neutral THEN TryMove(in, in.s1) ELSE {}

SimplifyLhs(in, a) == IF in.op \in {"ls", "rs"} /\ a = 0 THEN ToConst(in, 0) ELSE {}

\* Mutation: a comparison is the same from the other side.
SwapOpKept ==
  [o \in {"add", "mul", "and", "or", "xor", "eq", "ne", "gt", "lt", "ge", "le"} |-> o]

SwapOp ==
  [o \in {"add", "mul", "and", "or", "xor", "eq", "ne", "gt", "lt", "ge", "le"} |->
     CASE o = "gt" -> "lt" [] o = "lt" -> "gt" [] o = "ge" -> "le" [] o = "le" -> "ge" [] OTHER -> o]

SimplifyInstr(g, in) ==
  LET as == RegConst(g, in.s1)
      bs == RegConst(g, in.s2)
  IN IF NOREG \in {in.dst, in.s1, in.s2} THEN {}
     ELSE IF in.s1 = in.s2 THEN SimplifySame(in)
     ELSE IF as # {} /\ bs # {} THEN {}
     ELSE IF bs # {} THEN UNION {SimplifyRhs(in, b) : b \in bs}
     ELSE IF as # {} /\ in.op \in DOMAIN SwapOp
          THEN {[in EXCEPT !.op = SwapOp[in.op], !.s1 = in.s2, !.s2 = in.s1]}
     ELSE UNION {SimplifyLhs(in, a) : a \in as}

\* A block begins: what the block before knew does not hold here.
BlockStart(i) == i = 1 \/ seen[i].op = "label" \/ seen[i - 1].op \in Jumps

TrackConst(known, in) ==
  [r \in (DOMAIN known \ {in.dst}) \cup (IF in.op = "const" THEN {in.dst} ELSE {}) |->
     IF r = in.dst THEN NormVal(in.imm, TypeOf(r)) ELSE known[r]]

\* One instruction of fold_block.
FoldStep(before, i) ==
  LET g == IF BlockStart(i) THEN [before EXCEPT !.known = <<>>] ELSE before
      in == g.code[i]
      folded == CASE in.op \in {"jz", "jnz"} -> FoldJump(g, in)
                  [] in.op = "select" -> FoldSelect(g, in)
                  [] OTHER -> FoldInstr(g, in)
      new == IF folded = {} /\ in.op \notin {"jz", "jnz", "select"} THEN SimplifyInstr(g, in) ELSE folded
      now == IF new = {} THEN in ELSE CHOOSE n \in new : TRUE
  IN [code |-> [g.code EXCEPT ![i] = now], known |-> TrackConst(g.known, now)]

OptFold == FoldLeft(FoldStep, [code |-> code, known |-> <<>>], [i \in DOMAIN code |-> i]).code

Log2(v) == CHOOSE k \in 0..W - 1 : 2^k = v

\* Mutation: a constant that others read as well is changed.
ReadByOthers(r) == TRUE

\* The register is read once, so its constant may be changed with the reader.
ReadOnce(r) == Cardinality(UsesOf(r)) = 1

StrengthStep(c, i) ==
  LET in == c[i]
      ks == {k \in OnlyDef(in.s2) : c[k].op = "const" /\ ReadOnce(in.s2)}
      k == CHOOSE j \in ks : TRUE
      v == Wrap(NormVal(c[k].imm, TypeOf(in.s2)))
  IN IF in.dst = NOREG \/ in.s2 = NOREG \/ in.op \notin {"mul", "div", "mod"} THEN c
     ELSE IF ks = {} THEN c
     ELSE IF v < 2 \/ v \notin PowersOfTwo \/ (in.op # "mul" /\ in.type.sign) THEN c
     ELSE [c EXCEPT ![i].op = CASE in.op = "mul" -> "ls" [] in.op = "div" -> "rs" [] in.op = "mod" -> "and",
                    ![k].imm = IF in.op = "mod" THEN v - 1 ELSE Log2(v)]

OptStrength == FoldLeft(StrengthStep, code, [i \in DOMAIN code |-> i])

-----------------------------------------------------------------------------
(* The emission of a division by a constant, as what the emitted code      *)
(* computes from the word a.                                               *)

\* A register that is a constant for the code generator, defined in the entry.
ConstOf(r) == {NormVal(code[i].imm, TypeOf(r)) : i \in {j \in OnlyDef(r) : code[j].op = "const"}}

PowerOfTwo(in, v) ==
  v \in PowersOfTwo /\ (in.op = "div" \/ v - 1 < 2^(ImmBits - 1))
ByMagic(in, v) == v \in Divisors

DivPow2(in, a, v) ==
  LET bias == IF a < 0 THEN v - 1 ELSE 0
      sum == Signed(a + bias)
  IN CASE in.op = "div" /\ ~in.type.sign -> Wrap(a) \div v
       [] in.op = "mod" /\ ~in.type.sign -> Wrap(a) & (v - 1)
       [] in.op = "div" /\ in.type.sign -> sum \div v
       [] OTHER -> (Wrap(sum) & (v - 1)) - bias

MakeDivmodConst(in, a, v) ==
  IF in.type.sign /\ v = 1 THEN {}
  ELSE IF PowerOfTwo(in, v) THEN {DivPow2(in, a, v)}
  ELSE IF ByMagic(in, v) THEN {IF in.op = "div" THEN MagicQuotient(Wrap(a)) ELSE ModTail(Wrap(a))}
  ELSE {}

\* The divisors that need a multiplier.
MagicDivisors ==
  {i \in DOMAIN code : code[i].op \in {"div", "mod"} /\ \E v \in ConstOf(code[i].s2) : ByMagic(code[i], v)}

-----------------------------------------------------------------------------
(* Running: on two operands, the meaning LANGUAGE.md gives an operator.    *)
(* Shifts are computed on the whole word; a division by zero, and one whose*)
(* quotient does not fit, end the program; a count as large as the word    *)
(* means nothing.                                                          *)

Traps(in, a, b) ==
  in.op \in {"div", "mod"} /\ (b = 0 \/ (in.type.sign /\ b = -1 /\ a = -(2^(in.type.size - 1))))
Meaningless(in, b) == in.op \in {"ls", "rs"} /\ Wrap(b) >= W

Value(in, a, b) ==
  LET u(v) == IF in.type.sign THEN v ELSE Wrap(v)
  IN CASE in.op = "const" -> in.imm
       [] in.op \in {"move", "extend"} -> a
       [] in.op = "neg" -> -a
       [] in.op = "not_a" -> -1 - a
       [] in.op = "not_l" -> Truth(a = 0)
       [] in.op = "add" -> a + b
       [] in.op = "sub" -> a - b
       [] in.op = "mul" -> a * b
       [] in.op = "div" -> Towards0(u(a), u(b))
       [] in.op = "mod" -> u(a) - u(b) * Towards0(u(a), u(b))
       [] in.op = "and" -> Wrap(a) & Wrap(b)
       [] in.op = "or" -> Wrap(a) | Wrap(b)
       [] in.op = "xor" -> Wrap(a) ^^ Wrap(b)
       [] in.op = "ls" -> a * 2^b
       [] in.op = "rs" -> u(a) \div 2^b
       [] in.op = "eq" -> Truth(a = b)
       [] in.op = "ne" -> Truth(a # b)
       [] in.op = "gt" -> Truth(u(a) > u(b))
       [] in.op = "ge" -> Truth(u(a) >= u(b))
       [] in.op = "lt" -> Truth(u(a) < u(b))
       [] in.op = "le" -> Truth(u(a) <= u(b))

Set(m, r, v) == [m EXCEPT !.reg[r] = NormVal(v, TypeOf(r)), !.pc = @ + 1]
Reg(m, r) == IF r = NOREG THEN 0 ELSE m.reg[r]

\* What the code generator makes of it, where it is not the operator itself.
Emitted(in, a, m) ==
  IF m.emitted /\ in.op \in {"div", "mod"}
  THEN UNION {MakeDivmodConst(in, a, v) : v \in ConstOf(in.s2)} ELSE {}

Compute(m, in) ==
  LET a == Reg(m, in.s1)
      b == Reg(m, in.s2)
      made == Emitted(in, a, m)
  IN IF made # {} THEN Set(m, in.dst, CHOOSE v \in made : TRUE)
     ELSE IF Traps(in, a, b) THEN [m EXCEPT !.end = "trap"]
     ELSE IF Meaningless(in, b) THEN [m EXCEPT !.end = "means nothing"]
     ELSE Set(m, in.dst, Value(in, a, b))

\* A branch goes back to the label; after MaxTurns the run is given up.
Branch(m, c, in) ==
  LET taken == \/ in.op = "jmp"
               \/ in.op = "jz" /\ m.reg[in.s1] = 0
               \/ in.op = "jnz" /\ m.reg[in.s1] # 0
      target == CHOOSE k \in DOMAIN c : c[k].op = "label"
  IN IF ~taken THEN [m EXCEPT !.pc = @ + 1]
     ELSE [m EXCEPT !.pc = target, !.turns = @ + 1, !.end = IF m.turns = MaxTurns THEN "turns" ELSE ""]

Execute(m, c) ==
  LET in == c[m.pc]
      next == [m EXCEPT !.pc = @ + 1]
  IN CASE in.op \in {"nop", "label"} -> next
       [] in.op \in Jumps -> Branch(m, c, in)
       [] in.op = "out" -> [next EXCEPT !.shown = Append(@, m.reg[in.s1])]
       [] in.op = "param" -> Set(m, in.dst, m.given)
       [] in.op = "poke" -> [next EXCEPT !.reg = [r \in DOMAIN @ |-> IF r \in source.addressed THEN Reg(m, in.s1) ELSE @[r]]]
       [] in.op = "select" -> Set(m, in.dst, m.reg[IF m.reg[in.imm] # 0 THEN in.s1 ELSE in.s2])
       [] OTHER -> Compute(m, in)

RECURSIVE RunFrom(_, _)
RunFrom(m, c) ==
  IF m.end # "" THEN [shown |-> m.shown, end |-> m.end]
  ELSE IF m.pc > Len(c) THEN [shown |-> m.shown, end |-> "end"]
  ELSE RunFrom(Execute(m, c), c)

\* The run of c on the value v, with the divisions as emitted or as meant.
RunOf(c, v, emitted) ==
  RunFrom([pc |-> 1, reg |-> [r \in DOMAIN source.types |-> 0], shown |-> <<>>, end |-> "",
           turns |-> 0, given |-> v, emitted |-> emitted], c)

-----------------------------------------------------------------------------
Init ==
  /\ \E family \in Families : source \in family
  /\ code = source.code /\ seen = source.code
  /\ changed = FALSE /\ round = 1
  /\ phase = "fold"
  /\ input = 0 /\ result = [shown |-> <<>>, end |-> ""]
  /\ Idle

Fold ==
  /\ phase = "fold" /\ phase' = "strength"
  /\ \E c \in {OptFold} : code' = c /\ seen' = c /\ changed' = (c # code)
  /\ UNCHANGED <<source, round, input, result, magicVars>>

\* The last pass of a round; another follows if one of the two did something.
Strength ==
  /\ phase = "strength"
  /\ \E c \in {OptStrength} :
       /\ code' = c /\ seen' = c
       /\ phase' = IF (changed \/ c # code) /\ round < MaxRounds THEN "fold" ELSE "emit"
  /\ round' = round + 1
  /\ UNCHANGED <<source, changed, input, result, magicVars>>

SearchMagic ==
  /\ phase = "emit"
  /\ \E i \in MagicDivisors : \E v \in ConstOf(code[i].s2) : Search(v, code[i].type.sign)
  /\ UNCHANGED <<optVars, phase, input, result>>

SearchOn ==
  /\ Iterate
  /\ UNCHANGED <<optVars, phase, input, result>>

Run ==
  /\ phase = "emit" /\ (MagicDivisors = {} \/ search = "found")
  /\ phase' = "done"
  /\ input' \in Inputs(source)
  /\ result' = RunOf(code, input', TRUE)
  /\ UNCHANGED <<optVars, magicVars>>

Next == Fold \/ Strength \/ SearchMagic \/ SearchOn \/ Run
Spec == Init /\ [][Next]_vars

-----------------------------------------------------------------------------
(* Whatever was folded, simplified, reduced to a shift or turned into a    *)
(* multiplication, the program shows what its operators mean, on every     *)
(* input, and ends with a fault where they do.  A run that shifts by the   *)
(* size of the word or more is the one that means nothing.                 *)
ComputedAsWritten ==
  phase = "done" =>
    LET meant == RunOf(source.code, input, FALSE)
    IN meant.end # "means nothing" => result = meant
=============================================================================
