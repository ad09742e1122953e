------------------------------ MODULE MCFront ------------------------------
(***************************************************************************)
(* The programs compiled: a main with a parameter a, a variable x, a       *)
(* pointer p, and a statement of the families below, before the value of x *)
(* is shown and returned; in some, another function h.  A loop that does   *)
(* not end by itself calls in(), so that a run ends with the inputs.       *)
(***************************************************************************)
EXTENDS Front

Id(x) == N("ID", x, 0, <<>>)
Lit(n) == N("LIT", "", n, <<>>)
Null == N("LIT_NULL", "", 0, <<>>)
Empty == N("EMPTY", "", 0, <<>>)
Node(type, kids) == N(type, "", 0, kids)
AtP == Node("DEREF", <<Id("p")>>)
AddrX == Node("ADDR", <<Id("x")>>)
CallIn == N("FN_CALL", "in", 0, <<>>)
CallOut(e) == N("FN_CALL", "out", 0, <<e>>)
Set(l, e) == Node("ASSIGN", <<l, e>>)
Plus(a, b) == Node("ADD", <<a, b>>)
Not(a) == Node("NOT_L", <<a>>)
And(a, b) == Node("AND_L", <<a, b>>)
Or(a, b) == Node("OR_L", <<a, b>>)
Same(a, b) == Node("EQ", <<a, b>>)
Block(stmts) == Node("BLOCK", stmts)
Return1(e) == Node("RET", <<e>>)
Var(x, init) == N("VAR_DEC", x, 0, init)
If(c, s, rest) == Node("IF", <<c, Block(<<s>>)>> \o rest)
Else(s) == Node("ELSE", <<Block(<<s>>)>>)
Elif(c, s) == Node("ELIF", <<c, Block(<<s>>)>>)

Fn(name, param, valued, stmts) ==
  N("FN_DEC", name, valued, <<Node("ARGS_DEC", <<N("PARAM", param, 0, <<>>)>>), Block(stmts)>>)
Main(x, p, stmts, valued) == Fn("main", "a", valued, <<Var("x", x), Var("p", p)>> \o stmts)

Return0 == Node("RET", <<>>)
AddrG == Node("ADDR", <<Id("g")>>)
While(c, stmts) == Node("WHILE", <<c, Block(stmts)>>)
For(init, c, updt, s) == Node("FOR", <<init, c, updt, Block(<<s>>)>>)

(* Statements without a branch.                                            *)
Simple == {Set(Id("x"), Lit(1)), Set(Id("x"), Id("a")), Node("ADD_ASSIGN", <<Id("x"), Id("a")>>),
           Set(AtP, Lit(1)), Set(Id("p"), AddrX), Set(Id("p"), Null), CallOut(AtP),
           Return1(Id("a"))}
Updates == {Set(Id("x"), Lit(1)), Set(Id("x"), Id("a")), Set(Id("p"), AddrX), CallOut(Id("x")),
            Return1(Lit(0))}

Conditions == {Id("a"), Not(Id("x")), Lit(1), Lit(0), And(Id("a"), Set(Id("x"), Lit(1))),
               Or(Set(Id("x"), Lit(0)), CallIn), Same(Id("x"), Id("a"))}

Values == {Node("TERNARY", <<Id("a"), Id("x"), Plus(Id("a"), Lit(1))>>),
           Node("TERNARY", <<Not(Id("a")), AtP, Lit(0)>>),
           And(Id("a"), Not(Id("x"))), Or(Id("x"), Plus(Id("x"), Id("a"))), Or(Id("a"), CallIn),
           Or(Id("a"), Plus(Id("x"), Not(Id("x")))), Plus(Id("x"), Set(Id("x"), Lit(1)))}

Ifs == {If(c, s, <<>>) : c \in Conditions, s \in Simple}
IfElses == {If(c, s, <<Else(t)>>) : c \in Conditions, s \in Updates, t \in Simple}
Chains == {If(Id("a"), s, <<Elif(Same(Id("x"), Lit(1)), t)>> \o rest) :
             s \in Updates, t \in Updates,
             rest \in {<<>>, <<Else(Return1(Lit(0)))>>, <<Else(Set(Id("x"), Lit(0)))>>}}
Whiles == {While(c, <<s, t>>) : c \in {CallIn, And(CallIn, Id("a"))}, s \in Simple, t \in Updates}
          \cup {While(Lit(1), <<s, If(CallIn, Return1(Id("x")), <<>>)>>) : s \in Simple}
Fors == {For(Set(Id("x"), Lit(0)), c, Node("INC", <<Id("x")>>), s) :
           c \in {CallIn, Same(Id("x"), CallIn)}, s \in Simple}
        \cup {For(Empty, Empty, Empty, If(CallIn, s, <<>>)) : s \in Simple}
Switches == {Node("SWITCH", <<Id("a"), Node("CASE", <<Lit(0), Block(<<s>>)>>), Node("DEFAULT", <<Block(<<t>>)>>)>>) :
               s \in Updates, t \in Simple}
Shadows == {Block(<<Var("x", <<Id("x")>>), s, CallOut(Id("x"))>>) : s \in Simple}
Others == {Set(Id("x"), v) : v \in Values} \cup
          {Set(Id("g"), Plus(Id("g"), Id("a"))), Node("ADD_ASSIGN", <<Id("g"), Set(Id("g"), Lit(1))>>)}

(* Whether x is read between two writes of a loop, and through what.       *)
Rewrites == {While(CallIn, <<Set(Id("x"), Lit(1)), CallOut(AtP), s, t>>) : s \in Updates, t \in Simple}
Nested == {If(Id("a"), c, <<Else(t)>>) : c \in Fors \cup Shadows, t \in Updates}

Compound == Ifs \cup IfElses \cup Chains \cup Whiles \cup Fors \cup Switches \cup Shadows
            \cup Others \cup Rewrites \cup Nested

Starts == {<<<<>>, <<Null>>>>, <<<<Lit(0)>>, <<AddrX>>>>, <<<<Lit(0)>>, <<AddrG>>>>}
Ends == {<<>>, <<CallOut(Id("x")), Return1(Id("x"))>>, <<Set(Id("x"), Id("a")), CallOut(AtP), Return1(Id("x"))>>}

Single(s, stmts, valued) == Flatten(Main(s[1], s[2], stmts, valued), <<>>)

(***************************************************************************)
(* Programs of two functions: main calls h, before or after it.            *)
(***************************************************************************)
H(e) == N("FN_CALL", "h", 0, <<e>>)
H1(stmts) == Fn("h", "a", 1, stmts)

Callees ==
  {H1(<<If(Id("a"), Return1(Lit(0)), <<>>), Return1(Lit(1))>>),
   H1(<<Var("x", <<Lit(1)>>), While(Same(Id("a"), Id("x")), <<Node("INC", <<Id("a")>>), CallOut(Id("a"))>>), Return1(Id("a"))>>),
   H1(<<Var("x", <<Lit(0)>>), Node("ADD_ASSIGN", <<Id("x"), Set(Id("a"), Plus(Id("a"), Id("g")))>>),
        Set(Id("g"), Id("a")), Return1(Id("x"))>>),
   H1(<<Var("x", <<Id("a")>>), Var("p", <<AddrX>>), If(Id("a"), Set(AtP, Lit(0)), <<Else(Set(Id("p"), AddrG))>>),
        Return1(AtP)>>),
   H1(<<If(Id("a"), Return1(H(Not(Id("a")))), <<>>), Return1(Plus(Id("a"), Lit(1)))>>)}

Calls ==
  {Set(Id("x"), H(Id("a"))), Set(Id("x"), H(H(Id("x")))), Set(Id("x"), Plus(H(Id("a")), H(Id("x")))),
   Set(Id("x"), Plus(Id("x"), H(Set(Id("x"), Lit(1))))), Node("ADD_ASSIGN", <<Id("g"), H(Id("g"))>>),
   While(CallIn, <<Set(Id("x"), H(Id("x"))), Set(AtP, H(Not(Id("a"))))>>),
   If(H(Id("x")), Set(Id("x"), H(Lit(0))), <<Else(Return1(H(Id("a"))))>>),
   Set(Id("x"), Node("TERNARY", <<H(Id("a")), H(CallIn), Id("x")>>)), H(CallIn),
   Set(Id("x"), Or(And(Id("a"), H(Id("x"))), H(Id("a"))))}

(* Through a pointer to x or to g: h writes what main reads.               *)
ByAddress == Fn("h", "q", 1, <<Node("ADD_ASSIGN", <<Node("DEREF", <<Id("q")>>), Lit(1)>>),
                               Return1(Node("DEREF", <<Id("q")>>))>>)
AddressCalls == {Set(Id("x"), H(AddrX)), Set(Id("x"), Plus(Id("x"), H(AddrX))), Set(Id("x"), Plus(H(Id("p")), H(Id("p")))),
                 While(CallIn, <<Set(Id("g"), H(Id("p")))>>), Set(AtP, H(AddrG))}

(* A tail call gives its frame up, even if an argument points into it      *)
(* (README.md, divergence 10): here p is not the address of x.             *)
TailCalls == {If(Id("a"), Return1(H(Id("p"))), <<>>), If(CallIn, CallOut(Lit(1)), <<Else(Return1(H(AddrG)))>>)}

Pair(f, g) == Flatten(g, Flatten(f, <<>>))

MCGlobals == <<"g">>
MCPrograms ==
  {Single(s, <<c>> \o e, 1) : s \in Starts, c \in Compound, e \in Ends}
  \cup {Single(s, <<If(c, Return0, <<>>), CallOut(Id("x"))>>, 0) : s \in Starts, c \in Conditions}
  \cup UNION {{Pair(h, Main(s[1], s[2], <<c>> \o e, 1)), Pair(Main(s[1], s[2], <<c>> \o e, 1), h)} :
                 h \in Callees, s \in Starts, c \in Calls, e \in Ends}
  \cup {Pair(Main(s[1], s[2], <<c>> \o e, 1), ByAddress) : s \in Starts, c \in AddressCalls, e \in Ends}
  \cup {Pair(Main(<<Lit(0)>>, <<p>>, <<c>> \o e, 1), ByAddress) : p \in {Null, AddrG}, c \in TailCalls, e \in Ends}
=============================================================================
