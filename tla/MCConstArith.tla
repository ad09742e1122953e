---------------------------- MODULE MCConstArith ----------------------------
(***************************************************************************)
(* Functions of a parameter x and constants k and c, on words of two sizes:*)
(* a division by every constant; every operator on a parameter and a       *)
(* constant, on two constants, on the parameter twice; loops that may      *)
(* change what the entry defined.                                          *)
(***************************************************************************)
EXTENDS ConstArith

CONSTANT Narrow   \* bits of the smaller size

I64 == [size |-> W, sign |-> TRUE]
NumTypes == [size : {Narrow, W}, sign : BOOLEAN]
ValuesOf(t) == {NormVal(v, t) : v \in 0 .. 2^t.size - 1}

\* The values an operator may treat in its own way.
Edge(t, n) ==
  NormVal(<<0, 1, 2, 3, -1, 2^(t.size - 1), 2^(t.size - 1) - 1, 2^(t.size - 2)>>[n], t)
Edges == 1..8

Compares == {"eq", "ne", "gt", "ge", "lt", "le"}
BinaryOps == {"add", "sub", "mul", "div", "mod", "and", "or", "xor", "ls", "rs"} \cup Compares
UnaryOps == {"neg", "not_a", "not_l", "move"}
ResultType(op, t) == IF op \in Compares \cup {"not_l"} THEN I64 ELSE t

Types(t, u, rt) == [x |-> t, k |-> t, c |-> u, r |-> rt]
Param(t) == Instr("param", "x", NOREG, NOREG, 0, t)
Const(r, v, t) == Instr("const", r, NOREG, NOREG, v, t)
Op(op, dst, s1, s2, t) == Instr(op, dst, s1, s2, 0, t)
Out(r, t) == Instr("out", NOREG, r, NOREG, 0, t)
Label == Instr("label", NOREG, NOREG, NOREG, 0, I64)
Select(s1, s2, cond, t) == Instr("select", "r", s1, s2, cond, t)
Goto(op, r, t) == Instr(op, NOREG, r, NOREG, 0, t)

Source(types, addressed, c) == [types |-> types, addressed |-> addressed, code |-> c]

\* A division by every constant: the negative ones of the wide types are few.
Divisions ==
  {Source(Types(t, t, t), {},
          <<Param(t), Const("k", NormVal(n, t), t), Op(op, "r", "x", "k", t), Out("r", t)>>) :
     op \in {"div", "mod"}, n \in 0..TwoTop - 1, t \in NumTypes}

Single(t, u, k, c, in) ==
  Source(Types(t, u, ResultType(in.op, t)), {},
         <<Param(t), Const("k", k, t), Const("c", c, u), Label, in, Out("r", ResultType(in.op, t))>>)

Unary ==
  {Single(t, t, Edge(t, n), 0, Op(op, "r", s, NOREG, t)) :
     op \in UnaryOps, n \in Edges, s \in {"x", "k"}, t \in NumTypes}
WithConstant ==
  {Single(t, t, Edge(t, n), 0, Op(op, "r", o[1], o[2], t)) :
     op \in BinaryOps, n \in Edges, o \in {<<"x", "k">>, <<"k", "x">>, <<"x", "x">>}, t \in NumTypes}
OfConstants ==
  {Single(t, t, Edge(t, n), Edge(t, l), Op(op, "r", "k", "c", t)) :
     op \in BinaryOps, n \in Edges, l \in Edges, t \in NumTypes}

\* The count of a shift, and the result of a conversion, have types of their own.
Shifts ==
  {Single(t, u, 3, Edge(u, n), Op(op, "r", s, "c", t)) :
     op \in {"ls", "rs"}, s \in {"x", "k"}, n \in Edges, t \in NumTypes, u \in NumTypes}
Extends ==
  {Source(Types(t, t, u), {},
          <<Param(t), Const("k", Edge(t, n), t), Label, Op("extend", "r", s, NOREG, u), Out("r", u)>>) :
     n \in Edges, s \in {"x", "k"}, t \in NumTypes, u \in NumTypes}

\* Two instructions of a loop.
Body ==
  {Op(op, dst, o[1], o[2], I64) : op \in {"add", "mul"}, dst \in {"x", "k", "r"}, o \in {<<"x", "k">>, <<"k", "r">>}}
  \cup {Const(dst, v, I64) : dst \in {"k", "r"}, v \in {0, 1}}
  \cup {Op("move", "k", "x", NOREG, I64), Op("move", "r", "k", NOREG, I64), Op("sub", "x", "x", "k", I64)}
  \cup {Instr("poke", NOREG, "x", NOREG, 0, I64)}
  \cup {Select(o[1], o[2], cond, I64) : o \in {<<"x", "k">>, <<"k", "r">>}, cond \in {"k", "r"}}

Typed(in, t) == [in EXCEPT !.type = t]
Loops ==
  {Source(Types(t, t, t), addressed,
          <<Param(t), Const("k", v, t), Const("r", 1, t), Label, Typed(a, t), Typed(b, t), Out("r", t), Goto(g[1], g[2], t)>>) :
     v \in {0, 2}, a \in Body, b \in Body, addressed \in {{}, {"k"}},
     g \in {<<"jnz", "x">>, <<"jz", "k">>}, t \in {I64, [size |-> Narrow, sign |-> FALSE]}}

MCFamilies == {Divisions, Unary, WithConstant, OfConstants, Shifts, Extends, Loops}

\* Every dividend; for other operators the values they may treat differently.
MCInputs(s) ==
  IF s \in Divisions THEN ValuesOf(s.types.x)
  ELSE IF s \in Loops THEN {0, 1, 3} ELSE {Edge(s.types.x, n) : n \in Edges}
=============================================================================
