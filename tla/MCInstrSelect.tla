--------------------------- MODULE MCInstrSelect ---------------------------
(* Programs of one to three instructions for InstrSelect. x and y are the  *)
(* operands, z another destination, t and u temporaries, k a constant; by  *)
(* renaming, every aliasing of operands and destination occurs.            *)
EXTENDS InstrSelect

CONSTANT Kinds   \* which of the families below

NarrowTypes == [size : {NarrowBits}, sign : BOOLEAN]
WideTypes == [size : {WideBits}, sign : BOOLEAN]
SignedWord == [size |-> WideBits, sign |-> TRUE]

Instr(op, d, a, b, c) == [op |-> op, dst |-> d, src1 |-> a, src2 |-> b, cond |-> c]

NamesIn(code) == UNION {{i.dst, i.src1, i.src2, i.cond} : i \in {code[n] : n \in DOMAIN code}}

\* the caller-saved registers, with and without a callee-saved one
Three == {0, 1, 2}
Four == {0, 1, 2, 3}

\* code over vregs all of type t; o: which operands are needed afterwards
Typed(rs, codes, consts, ts) ==
  {[code |-> c, all |-> rs, out |-> (o \cap NamesIn(c)) \cup {c[Len(c)].dst}, cval |-> [k \in {"k"} \cap NamesIn(c) |-> kv],
    type |-> [v \in NamesIn(c) \ {NO_REG} |-> t]] :
     c \in codes, o \in SUBSET {"x", "y"}, kv \in consts, t \in ts}

All == {"x", "y", "z"}
Binary(ops, dsts, srcs) ==
  {<<Instr(op, d, "x", s, NO_REG)>> : op \in ops, d \in dsts, s \in srcs}
Unary(ops) == {<<Instr(op, d, "x", NO_REG, NO_REG)>> : op \in ops, d \in {"x", "z"}}

\* t = x * k or x << k; d = t + o
Pairs(others) == {<<Instr(op, "t", "x", "k", NO_REG), Instr("add", d, a[1], a[2], NO_REG)>> :
                    op \in {"mul", "shl"}, d \in All,
                    a \in {<<"t", o>> : o \in others} \cup {<<o, "t">> : o \in others}}
\* t = x; u = t op s; x = u
Triples == {<<Instr("move", "t", "x", NO_REG, NO_REG), Instr(op, "u", "t", s, NO_REG),
              Instr("move", "x", "u", NO_REG, NO_REG)>> :
              op \in {"add", "sub", "shr", "mul", "neg"}, s \in {"y", "k", "x"}}
\* t = x cmp s; d = t ? a : b
Selects == {<<Instr(op, "t", "x", s, NO_REG), Instr("select", d, a[1], a[2], "t")>> :
              op \in {"lt", "ne"}, s \in {"y", "k"}, d \in {"x", "y", "z"},
              a \in {<<"x", "y">>, <<"y", "x">>, <<"k", "y">>, <<"y", "k">>}}
Conditionals == {<<Instr("select", d, a[1], a[2], c)>> :
              d \in {"x", "y", "z"}, c \in {"x", "k"},
              a \in {<<"x", "y">>, <<"k", "y">>, <<"y", "k">>}}

\* the same with a bystander b alive throughout, in a register or not
Crowded(programs) ==
  {[p EXCEPT !.out = @ \cup {"b"},
             !.type = [v \in DOMAIN p.type \cup {"b"} |-> IF v = "b" THEN SignedWord ELSE p.type[v]]] :
     p \in programs}

\* a move between sizes, the sign of the source deciding the extension
Conversions ==
  {[all |-> Four, code |-> <<Instr("move", "z", "x", NO_REG, NO_REG)>>, out |-> o \cup {"z"}, cval |-> <<>>,
    type |-> [v \in {"x", "z"} |-> IF v = "x" THEN a ELSE b]] :
     o \in SUBSET {"x"}, a \in NarrowTypes \cup WideTypes, b \in NarrowTypes \cup WideTypes}

Narrow == {[size |-> NarrowBits, sign |-> TRUE]}
Unsigned == {[size |-> NarrowBits, sign |-> FALSE]}
Multipliers == {1, 3, 4, 5, 9, 17, 31, 100, 128}
Divisors == {1, 3, 4, 7, 100, 128}
Operands == {1, 3, 100, 128}

Family(kind) ==
  CASE kind = "wide"    -> Typed(Three, Binary({"add", "sub", "mul"}, All, {"x", "y", "k"}),
                                 Multipliers, {SignedWord})
    [] kind = "narrow"  -> Typed(Three, Binary({"add", "xor", "mul"}, All, {"y", "k"}), Multipliers, Narrow)
    [] kind = "crowded" -> Crowded(Typed(Three, Binary({"sub", "mul"}, {"y", "z"}, {"y"}), {1},
                                         Narrow \cup {SignedWord}))
    [] kind = "pairs"   -> Typed(Three, Pairs({"y", "t"}), Multipliers, {SignedWord})
    [] kind = "triples" -> Typed(Three, Triples, Operands, Unsigned \cup {SignedWord})
    [] kind = "shifts"  -> Typed(Four, Binary(Shifts, All, {"x", "y", "k"}), Divisors,
                                 NarrowTypes \cup {SignedWord})
    [] kind = "unary"   -> Typed(Four, Unary({"neg", "not", "not_l", "move"}), {0}, NarrowTypes \cup WideTypes)
    [] kind = "convert" -> Conversions
    [] kind = "div"     -> Typed(Four, Binary({"div", "mod"}, All, {"x", "y", "k"}), Divisors, Narrow \cup WideTypes)
    [] kind = "cmp"     -> Typed(Three, Binary(Compares, All, {"x", "y", "k"}), Operands,
                                 NarrowTypes \cup WideTypes)
    [] kind = "select"  -> Typed(Three, Selects, Operands, WideTypes)
    [] kind = "choice"  -> Typed(Three, Conditionals, Operands, {SignedWord})

       \* where the code goes wrong: see the README
    [] kind = "self"    -> Typed(Three, Pairs({"x"}), {3}, {SignedWord})
    [] kind = "div8"    -> Typed(Four, Binary({"div", "mod"}, {"z"}, {"y"}), {1}, Unsigned)
    [] kind = "stale"   -> Typed({0, 1}, Binary({"add", "xor", "mul"}, All, {"y", "k"}), {3}, Narrow)
    [] kind = "zero"    -> Typed(Three, Selects \cup Conditionals, {0}, {SignedWord})

MCPrograms == UNION {Family(kind) : kind \in Kinds}
=============================================================================
