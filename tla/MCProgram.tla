----------------------------- MODULE MCProgram -----------------------------
(***************************************************************************)
(* Programs of three globals, the third with initializers of two terms or  *)
(* a static of the first function, and two functions that may call each    *)
(* other.  The execution of a program, which StartsAsWritten compares with *)
(* how it was written, is recursive and for that reason here, where no     *)
(* proof is made.                                                          *)
(***************************************************************************)
EXTENDS Program

CONSTANTS
  MaxDepth   \* bound: how deep calls nest (the programs count down)

ASSUME MaxDepthNat == MaxDepth \in Nat

Const(v) == [op |-> "const", v |-> v]
Ref(g) == [op |-> "ref", g |-> g]
Wr(g) == [op |-> "write", g |-> g, v |-> 2]
Addr(g) == [op |-> "addr", g |-> g]
Call(f) == [op |-> "call", f |-> f]
Cond(g) == [op |-> "cond", g |-> g, v |-> 1]

Reads(g) == [op |-> "read", g |-> g]
Sets(g) == [op |-> "set", g |-> g, v |-> 5]
Through(g) == [op |-> "through", g |-> g, v |-> 7]
Point(g, to) == [op |-> "point", g |-> g, to |-> to]

Ordinary == {Const(1), Ref(1), Ref(2), Ref(3), Wr(1), Call(1), Call(2)}
Inits1 == {<<>>} \cup {<<t>> : t \in Ordinary \cup {Addr(2)}}
Inits2 == {<<>>} \cup {<<t>> : t \in Ordinary \cup {Cond(1), Addr(1)}}
Inits3 == {<<t>> : t \in {Const(1), Ref(1), Call(1)}} \cup {<<Call(1), Wr(2)>>, <<Ref(1), Call(2)>>, <<Const(2), Ref(2)>>}

Bodies1 == {<<Reads(1)>>, <<Reads(2), Call(2)>>, <<Sets(1)>>, <<Call(2), Through(1)>>}
Bodies2 == {<<Reads(1), Reads(3)>>, <<Sets(2)>>, <<Call(1)>>, <<Point(1, 2)>>}

MCArgRegs == <<"rdi", "rsi">>

MCPrograms ==
  LET Bodies == {<<f, h>> : f \in Bodies1, h \in Bodies2}
      Owned == {<<{"rax"}, {"rcx", "rbx"}>>}
      Argc == {<<0, 1>>}
  IN [inits : {<<a, b, c>> : a \in Inits1, b \in Inits2, c \in Inits3},
      statics : {<<>>}, fns : Bodies, externs : {{}}, own : Owned, argc : Argc]
     \cup
     [inits : {<<a, b, <<Const(1)>>>> : a \in {i \in Inits1 : Ref(3) \notin ToSet(i)},
                                        b \in {i \in Inits2 : Ref(3) \notin ToSet(i)}},
      statics : {<<3>>}, fns : Bodies, externs : {{}}, own : Owned, argc : Argc]
     \cup
     [inits : {<<a, b, <<Const(1)>>>> : a \in Inits1, b \in Inits2},
      statics : {<<>>}, fns : {<<f, <<>>>> : f \in Bodies1}, externs : {{2}}, own : Owned, argc : Argc]

(***************************************************************************)
(* What the program does when it starts: what each read of a function sees *)
(* and the values the globals are left with.  m is the memory, the reads,  *)
(* and the value of the call made last.                                    *)
(***************************************************************************)
RECURSIVE ExecFn(_, _, _)
ExecFn(f, depth, m) ==
  LET Step(n, o) ==
        CASE o.op = "read" -> [n EXCEPT !.shown = Append(@, <<f, o.g, n.mem[o.g]>>), !.val = n.mem[o.g]]
          [] o.op = "set" -> [n EXCEPT !.mem[o.g] = o.v]
          [] o.op = "point" -> [n EXCEPT !.mem[o.g] = AddressOf(o.to)]
          [] o.op = "through" -> IF n.mem[o.g] > AddressOf(0) THEN [n EXCEPT !.mem[n.mem[o.g] - AddressOf(0)] = o.v] ELSE n
          [] o.op = "call" -> IF depth = 0 THEN n ELSE ExecFn(o.f, depth - 1, n)
  IN FoldLeft(Step, [m EXCEPT !.val = 0], prog.fns[f])

RECURSIVE ExecInit(_, _, _, _)
ExecInit(c, k, regs, m) ==
  LET i == c[k]
      called == ExecFn(i.target, MaxDepth, m)
      Result(v) == [regs EXCEPT ![i.dst] = v]
      label == CHOOSE j \in DOMAIN c : c[j].op = "label" /\ c[j].target = i.target
  IN IF k > Len(c) THEN m
     ELSE CASE i.op = "const" -> ExecInit(c, k + 1, Result(i.imm), m)
            [] i.op = "ld_global" -> ExecInit(c, k + 1, Result(m.mem[i.target]), m)
            [] i.op = "addr_global" -> ExecInit(c, k + 1, Result(AddressOf(i.target)), m)
            [] i.op = "add" -> ExecInit(c, k + 1, Result(regs[i.src[1]] + regs[i.src[2]]), m)
            [] i.op = "call" -> ExecInit(c, k + 1, Result(called.val), called)
            [] i.op = "str_global" -> ExecInit(c, k + 1, regs, [m EXCEPT !.mem[i.target] = regs[i.src[1]]])
            [] i.op = "jz" -> ExecInit(c, IF regs[i.src[1]] = 0 THEN label ELSE k + 1, regs, m)
            [] OTHER -> ExecInit(c, k + 1, regs, m)

Started(c, mem) ==
  LET m == ExecInit(c, 1, [r \in 1..(3 * Len(c) + 3) |-> 0], [mem |-> mem, shown |-> <<>>, val |-> 0])
  IN [mem |-> m.mem, shown |-> m.shown]

(* The initialization function as it is generated.                         *)
Written == FlattenSeq([k \in DOMAIN Initialized |-> GenVarInit(Initialized[k], 3 * k)])

(* The values bound change nothing a program can see: with them in its     *)
(* data and the shorter initialization function, called or left out, the   *)
(* functions it calls see the same values and the globals are left with    *)
(* the same ones.                                                          *)
StartsAsWritten ==
  Emitted => Started(IF InitEmpty THEN <<>> ELSE code, data) = Started(Written, [g \in Globals |-> ZERO])
=============================================================================
