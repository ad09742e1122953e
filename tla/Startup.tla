------------------------------ MODULE Startup ------------------------------
(***************************************************************************)
(* How the globals of a program get their first values.  Semantic analysis *)
(* checks the initializers in the order they need one another              *)
(* (check_global_var_init, check_init_ref), the generator writes them into *)
(* one function in that order (gen_init_fn), and static.c takes from it    *)
(* the stores of constants that nobody can tell from data of the program.  *)
(*                                                                         *)
(* An initializer is a sum of terms: a constant, a global, an assignment   *)
(* to a global, the address of one, a call, or a choice by the value of    *)
(* one.  A function reads, sets and calls, in sequence; a pointer global   *)
(* may be written through.                                                 *)
(***************************************************************************)
EXTENDS Integers, Sequences, FiniteSets, SequencesExt

CONSTANTS
  Programs   \* globals and functions are numbered in source order

(* What an initializer and a function are made of in a program of n        *)
(* globals and m functions.                                                *)
Terms(n, m) ==
  [op : {"const"}, v : Int] \cup [op : {"ref", "addr"}, g : 1..n]
    \cup [op : {"write", "cond"}, g : 1..n, v : Int] \cup [op : {"call"}, f : 1..m]
Ops(n, m) ==
  [op : {"read"}, g : 1..n] \cup [op : {"set", "through"}, g : 1..n, v : Int]
    \cup [op : {"point"}, g : 1..n, to : 1..n] \cup [op : {"call"}, f : 1..m]

Refers(t) == t.op \in {"ref", "write", "cond"}

(* Statics belong to a function: nothing at the top level can name one.    *)
(* Bound: initializers of two terms.                                       *)
WellFormed(p) ==
  LET n == Len(p.inits)
      m == Len(p.fns)
  IN /\ p.inits \in Seq(Seq(Terms(n, m))) /\ \A g \in 1..n : Len(p.inits[g]) <= 2
     /\ p.fns \in Seq(Seq(Ops(n, m)))
     /\ p.statics \in Seq(1..n)
     /\ \A g \in (1..n) \ ToSet(p.statics) : \A k \in DOMAIN p.inits[g] :
          Refers(p.inits[g][k]) => p.inits[g][k].g \notin ToSet(p.statics)

ASSUME ProgramsKnown == \A p \in Programs : WellFormed(p)

VARIABLES
  prog, phase,
  state, stack, root, order, errors,    \* semantic analysis
  code, made,                           \* the initialization function; initializers in it
  touch, at, changed,                   \* globals each function reads or writes
  pos, seen, dirty, data,               \* the scan; the static values bound
  uses, taken                           \* before the scan: reads of registers, addresses taken

checking == <<state, stack, root, order, errors>>
generating == <<code, made>>
touching == <<touch, at, changed>>
scanning == <<pos, seen, dirty, data, uses, taken>>
vars == <<prog, phase, checking, generating, touching, scanning>>

Globals == DOMAIN prog.inits
Fns == DOMAIN prog.fns
Plain == {g \in Globals : g \notin ToSet(prog.statics)}   \* declared at the top level
HasInit(g) == prog.inits[g] # <<>>
ZERO == 0

Init ==
  /\ prog \in Programs
  /\ phase = "checking"
  /\ state = [g \in Globals |-> "pending"] /\ stack = <<>> /\ root = 1 /\ order = <<>> /\ errors = {}
  /\ code = <<>> /\ made = 0
  /\ touch = [f \in Fns |-> {}] /\ at = 1 /\ changed = FALSE
  /\ pos = 1 /\ seen = {} /\ dirty = {} /\ data = [g \in Globals |-> ZERO] /\ uses = <<>> /\ taken = {}

(***************************************************************************)
(* check_root walks the declarations; an initializer that names a global   *)
(* whose own has not been checked yet checks that one first.               *)
(***************************************************************************)
Top == stack[Len(stack)]
Term == prog.inits[Top.decl][Top.term]
Enter(g) ==
  /\ state' = [state EXCEPT ![g] = "checking"]
  /\ stack' = Append(stack, [decl |-> g, term |-> 1])

Pass == [stack EXCEPT ![Len(stack)].term = @ + 1]

CheckRoot ==
  /\ phase = "checking" /\ stack = <<>> /\ root \in Globals
  /\ root' = root + 1
  /\ IF root \in Plain /\ HasInit(root) /\ state[root] = "pending" THEN Enter(root) ELSE UNCHANGED <<state, stack>>
  /\ UNCHANGED <<prog, phase, order, errors, generating, touching, scanning>>

(* Mutation: a global that is needed is not checked first.                 *)
CheckInitRefInPlace ==
  /\ phase = "checking" /\ stack # <<>> /\ Top.term <= Len(prog.inits[Top.decl])
  /\ stack' = Pass
  /\ errors' = IF Refers(Term) /\ state[Term.g] = "checking" THEN errors \cup {<<Top.decl, Term.g>>} ELSE errors
  /\ UNCHANGED <<prog, phase, state, root, order, generating, touching, scanning>>

CheckInitRef ==
  /\ phase = "checking" /\ stack # <<>> /\ Top.term <= Len(prog.inits[Top.decl])
  /\ IF Refers(Term) /\ Term.g # Top.decl /\ state[Term.g] = "pending" /\ HasInit(Term.g)
     THEN Enter(Term.g) /\ UNCHANGED errors
     ELSE /\ stack' = Pass
          /\ errors' = IF Refers(Term) /\ state[Term.g] = "checking" THEN errors \cup {<<Top.decl, Term.g>>} ELSE errors
          /\ UNCHANGED state
  /\ UNCHANGED <<prog, phase, root, order, generating, touching, scanning>>

Checked ==
  /\ phase = "checking" /\ stack # <<>> /\ Top.term > Len(prog.inits[Top.decl])
  /\ state' = [state EXCEPT ![Top.decl] = "done"]
  /\ order' = Append(order, Top.decl)
  /\ stack' = Front(stack)
  /\ UNCHANGED <<prog, phase, root, errors, generating, touching, scanning>>

(***************************************************************************)
(* The initialization function.  Registers are numbered as they are made.  *)
(***************************************************************************)
Instr(op, dst, src, target, imm) == [op |-> op, dst |-> dst, src |-> src, target |-> target, imm |-> imm]
NONE == 0
Nop == Instr("nop", NONE, <<>>, NONE, 0)

(* The code of a term whose registers start at r: its value is in the last.*)
GenTerm(t, r) ==
  CASE t.op = "const" -> <<Instr("const", r, <<>>, NONE, t.v)>>
    [] t.op = "ref" -> <<Instr("ld_global", r, <<>>, t.g, 0)>>
    [] t.op = "write" -> <<Instr("const", r, <<>>, NONE, t.v), Instr("str_global", NONE, <<r>>, t.g, 0)>>
    [] t.op = "addr" -> <<Instr("addr_global", r, <<>>, t.g, 0)>>
    [] t.op = "call" -> <<Instr("call", r, <<>>, t.f, 0)>>
    [] t.op = "cond" -> <<Instr("ld_global", r, <<>>, t.g, 0), Instr("jz", NONE, <<r>>, r, 0),
                          Instr("const", r, <<>>, NONE, t.v), Instr("label", NONE, <<>>, r, 0)>>

GenVarInit(g, r) ==
  LET terms == prog.inits[g]
      first == GenTerm(terms[1], r)
  IN IF terms = <<>> THEN <<>>
     ELSE IF Len(terms) = 1 THEN first \o <<Instr("str_global", NONE, <<r>>, g, 0)>>
     ELSE first \o GenTerm(terms[2], r + 1)
          \o <<Instr("add", r + 2, <<r, r + 1>>, NONE, 0), Instr("str_global", NONE, <<r + 2>>, g, 0)>>

Generate ==
  /\ phase = "checking" /\ stack = <<>> /\ root \notin Globals
  /\ phase' = IF errors # {} THEN "rejected" ELSE "generating"
  /\ UNCHANGED <<prog, checking, generating, touching, scanning>>

(* One initializer after the other: those of statics, then the others in   *)
(* the order found.                                                        *)
Initialized == prog.statics \o order

GenInitFn ==
  /\ phase = "generating" /\ made < Len(Initialized)
  /\ code' = code \o GenVarInit(Initialized[made + 1], 3 * (made + 1))
  /\ made' = made + 1
  /\ UNCHANGED <<prog, phase, checking, touching, scanning>>

(***************************************************************************)
(* compute_touch: what each function reads or writes by itself, then what  *)
(* those it calls do, until a whole sweep changes nothing.                 *)
(***************************************************************************)
(* What a function touches: reaching a global through a pointer touches    *)
(* the pointer only.                                                       *)
Direct(f) == {o.g : o \in {p \in ToSet(prog.fns[f]) : p.op # "call"}}
Callees(f) == {o.f : o \in {p \in ToSet(prog.fns[f]) : p.op = "call"}}

TouchDirect ==
  /\ phase = "generating" /\ made = Len(Initialized)
  /\ touch' = [f \in Fns |-> Direct(f)]
  /\ phase' = "touching"
  /\ UNCHANGED <<prog, checking, generating, at, changed, scanning>>

(* Mutation: a sweep is repeated as long as something is called.           *)
TouchMergeRestless ==
  /\ phase = "touching" /\ at \in Fns
  /\ LET called == UNION {touch[f] : f \in Callees(at)}
     IN /\ touch' = [touch EXCEPT ![at] = @ \cup called]
        /\ changed' = (changed \/ called # {})
  /\ at' = at + 1
  /\ UNCHANGED <<prog, phase, checking, generating, scanning>>

TouchMerge ==
  /\ phase = "touching" /\ at \in Fns
  /\ LET merged == touch[at] \cup UNION {touch[f] : f \in Callees(at)}
     IN /\ touch' = [touch EXCEPT ![at] = merged]
        /\ changed' = (changed \/ merged # touch[at])
  /\ at' = at + 1
  /\ UNCHANGED <<prog, phase, checking, generating, scanning>>

SweepAgain ==
  /\ phase = "touching" /\ at \notin Fns /\ changed
  /\ at' = 1 /\ changed' = FALSE
  /\ UNCHANGED <<prog, phase, checking, generating, touch, scanning>>

AddrTaken == {c.target : c \in {d \in ToSet(code) : d.op = "addr_global"}}
             \cup {o.to : o \in {p \in UNION {ToSet(prog.fns[f]) : f \in Fns} : p.op = "point"}}
UsesIn(c) == [r \in 1..(3 * Len(c) + 3) |-> Len(SelectSeq(c, LAMBDA i : r \in ToSet(i.src)))]

StartScan ==
  /\ phase = "touching" /\ at \notin Fns /\ ~changed
  /\ phase' = "scanning"
  /\ uses' = UsesIn(code)
  /\ taken' = AddrTaken
  /\ UNCHANGED <<prog, checking, generating, touching, pos, seen, dirty, data>>

(***************************************************************************)
(* scan_static_init: up to the first jump, the first access to a global is *)
(* bound if it stores a constant no call before it can have looked at.     *)
(***************************************************************************)
StopsStatic == {"jz", "label"}
AddressOf(g) == 100 + g

(* The instruction before k that was not removed.                          *)
Before(k) ==
  LET left == {j \in 1..(k - 1) : code[j].op # "nop"}
  IN IF left = {} THEN NONE ELSE CHOOSE j \in left : \A i \in left : i <= j

BindValue(c) == IF c.op = "addr_global" THEN AddressOf(c.target) ELSE c.imm

Bindable(k) ==
  LET b == Before(k)
  IN /\ code[k].target \notin taken
     /\ b # NONE
     /\ code[b].op \in {"const", "addr_global"} /\ code[b].dst = code[k].src[1]

BindStatic(k) ==
  LET b == Before(k)
      dropped == [code EXCEPT ![k] = Nop]
  IN /\ data' = [data EXCEPT ![code[k].target] = BindValue(code[b])]
     /\ code' = IF uses[code[b].dst] = 1 THEN [dropped EXCEPT ![b] = Nop] ELSE dropped

Now == code[pos]
Accesses == Now.op \in {"str_global", "ld_global"} /\ Now.target \notin seen

(* Mutation: what the calls before a store looked at is forgotten.         *)
CleanAlways == Now.op # "nop"

Clean == Now.target \notin dirty

Scan ==
  /\ phase = "scanning" /\ pos \in DOMAIN code /\ Now.op \notin StopsStatic
  /\ dirty' = IF Now.op = "call" THEN dirty \cup touch[Now.target] ELSE dirty
  /\ seen' = IF Accesses THEN seen \cup {Now.target} ELSE seen
  /\ IF Accesses /\ Now.op = "str_global" /\ Clean /\ Bindable(pos)
     THEN BindStatic(pos) ELSE UNCHANGED <<code, data>>
  /\ pos' = pos + 1
  /\ UNCHANGED <<prog, phase, checking, made, touching, uses, taken>>

ScanEnds ==
  /\ phase = "scanning" /\ (pos \in DOMAIN code => Now.op \in StopsStatic)
  /\ phase' = "bound"
  /\ UNCHANGED <<prog, checking, generating, touching, scanning>>

Next == CheckRoot \/ CheckInitRef \/ Checked \/ Generate \/ GenInitFn \/ TouchDirect \/ TouchMerge \/ SweepAgain \/ StartScan
        \/ Scan \/ ScanEnds

(* A program is rejected if its initializers need one another in a circle, *)
(* and only then; otherwise each is in the order once, after those it      *)
(* names, whatever the order in the source.                                *)
Names(g) == {t.g : t \in {u \in ToSet(prog.inits[g]) : Refers(u)}} \cap {h \in Plain : HasInit(h)}
NeededBy(gs) ==
  {h \in Globals : \A S \in SUBSET Globals : gs \subseteq S /\ (\A g \in S : Names(g) \subseteq S) => h \in S}
Circular == \E g \in Plain : g \in NeededBy(Names(g))

InitOrdered ==
  phase # "checking" =>
    /\ (phase = "rejected") <=> Circular
    /\ phase # "rejected" =>
         /\ ToSet(order) = {g \in Plain : HasInit(g)} /\ IsInjective(order)
         /\ \A i \in DOMAIN order : Names(order[i]) \subseteq ToSet(SubSeq(order, 1, i - 1))
=============================================================================
