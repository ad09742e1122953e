---------------------------- MODULE ProgramProofs ----------------------------
(***************************************************************************)
(* For every program: the order in which the initializers of its globals   *)
(* are checked, and what calls of its functions are taken to clobber.      *)
(***************************************************************************)
EXTENDS Program, WellFoundedInduction, TLAPS

(***************************************************************************)
(* The program.                                                            *)
(***************************************************************************)
Entered == {g \in Plain : HasInit(g)}
NumTerms(g) == Len(prog.inits[g])

LEMMA Parts ==
  ASSUME prog \in Programs
  PROVE  /\ Len(prog.inits) \in Nat /\ Globals = 1..Len(prog.inits)
         /\ Len(prog.fns) \in Nat /\ Fns = 1..Len(prog.fns)
         /\ prog.inits \in Seq(Seq(Terms(Len(prog.inits), Len(prog.fns))))
         /\ prog.fns \in Seq(Seq(Ops(Len(prog.inits), Len(prog.fns))))
         /\ prog.statics \in Seq(Globals)
<1>1. WellFormed(prog)
  BY ProgramsKnown
<1> QED
  BY <1>1 DEF WellFormed, Globals, Fns

LEMMA TermParts ==
  ASSUME NEW n \in Nat, NEW m \in Nat, NEW t \in Terms(n, m)
  PROVE  /\ Refers(t) => t.g \in 1..n
         /\ t.op = "call" => t.f \in 1..m
         /\ t.op \in {"const", "ref", "addr", "write", "cond", "call"}
<1>1. CASE t \in [op : {"const"}, v : Int]
  BY <1>1 DEF Refers
<1>2. CASE t \in [op : {"ref", "addr"}, g : 1..n]
  BY <1>2 DEF Refers
<1>3. CASE t \in [op : {"write", "cond"}, g : 1..n, v : Int]
  BY <1>3 DEF Refers
<1>4. CASE t \in [op : {"call"}, f : 1..m]
  BY <1>4 DEF Refers
<1> QED
  BY <1>1, <1>2, <1>3, <1>4 DEF Terms

(* What an initializer at the top level names is at the top level, too.    *)
LEMMA InitParts ==
  ASSUME prog \in Programs, NEW g \in Plain
  PROVE  /\ g \in Globals /\ NumTerms(g) \in Nat /\ DOMAIN prog.inits[g] = 1..NumTerms(g)
         /\ HasInit(g) <=> NumTerms(g) # 0
         /\ \A k \in 1..NumTerms(g) : Refers(prog.inits[g][k]) => prog.inits[g][k].g \in Plain
         /\ Names(g) = {h \in Entered : \E k \in 1..NumTerms(g) :
                          Refers(prog.inits[g][k]) /\ prog.inits[g][k].g = h}
<1>1. g \in Globals /\ g \in 1..Len(prog.inits) /\ g \notin ToSet(prog.statics)
  BY Parts DEF Plain
<1>2. prog.inits[g] \in Seq(Terms(Len(prog.inits), Len(prog.fns)))
  BY <1>1, Parts
<1>3. NumTerms(g) \in Nat /\ DOMAIN prog.inits[g] = 1..NumTerms(g) /\ (HasInit(g) <=> NumTerms(g) # 0)
  BY <1>2 DEF NumTerms, HasInit
<1>4. ASSUME NEW k \in 1..NumTerms(g), Refers(prog.inits[g][k]) PROVE prog.inits[g][k].g \in Plain
  <2>1. prog.inits[g][k] \in Terms(Len(prog.inits), Len(prog.fns))
    BY <1>2, <1>3
  <2>2. prog.inits[g][k].g \in Globals
    BY <1>4, <2>1, Parts, TermParts
  <2>3. WellFormed(prog)
    BY ProgramsKnown
  <2>4. prog.inits[g][k].g \notin ToSet(prog.statics)
    BY <1>1, <1>3, <1>4, <2>3 DEF WellFormed
  <2> QED
    BY <2>2, <2>4 DEF Plain
<1>5. Names(g) = {h \in Entered : \E k \in 1..NumTerms(g) :
                    Refers(prog.inits[g][k]) /\ prog.inits[g][k].g = h}
  BY <1>3 DEF Names, Entered, ToSet
<1> QED
  BY <1>1, <1>3, <1>4, <1>5

LEMMA LeastNumber ==
  ASSUME NEW S, S \subseteq Nat, S # {}
  PROVE  \E n \in S : \A k \in S : n <= k
<1> DEFINE R == OpToRel(<, Nat)
<1>1. PICK n \in S : \A k \in S : ~(<<k, n>> \in R)
  BY NatLessThanWellFounded, WFMin
<1>2. \A k \in S : ~(k < n)
  BY <1>1 DEF OpToRel
<1> QED
  BY <1>2

LEMMA InSequence ==
  ASSUME NEW T, NEW q \in Seq(T)
  PROVE  Len(q) \in Nat /\ DOMAIN q = 1..Len(q) /\ (q # <<>> <=> Len(q) # 0) /\ \A i \in 1..Len(q) : q[i] \in T
  OBVIOUS

LEMMA WithoutLast ==
  ASSUME NEW T, NEW q \in Seq(T), q # <<>>
  PROVE  LET n == Len(q)
             p == Front(q)
         IN n \in Nat \ {0} /\ p \in Seq(T) /\ Len(p) = n - 1 /\ \A k \in 1..n - 1 : p[k] = q[k] /\ k \in 1..n
<1>1. Len(q) \in Nat /\ Len(q) # 0
  OBVIOUS
<1>2. PICK m \in Nat : m = Len(q) - 1 /\ 1..m \subseteq 1..Len(q)
  BY <1>1
<1>3. SubSeq(q, 1, m) = [k \in 1..m |-> q[k]]
  BY <1>2
<1>4. [k \in 1..m |-> q[k]] \in Seq(T) /\ Len([k \in 1..m |-> q[k]]) = m
  BY <1>1, <1>2
<1>5. Front(q) = SubSeq(q, 1, m)
  BY <1>2 DEF Front
<1> QED
  BY <1>1, <1>2, <1>3, <1>4, <1>5

(***************************************************************************)
(* The walk over the initializers.                                         *)
(***************************************************************************)
Frames == [decl : Globals, term : Nat \ {0}]

CheckTypes ==
  /\ prog \in Programs
  /\ state \in [Globals -> {"pending", "checking", "done"}]
  /\ stack \in Seq(Frames)
  /\ root \in Nat \ {0}
  /\ order \in Seq(Globals)

(* The globals being checked are those on the stack, each once.            *)
StackSound ==
  /\ \A i \in 1..Len(stack) :
       /\ stack[i].decl \in Entered /\ state[stack[i].decl] = "checking"
       /\ stack[i].term <= NumTerms(stack[i].decl) + 1
  /\ \A i, j \in 1..Len(stack) : stack[i].decl = stack[j].decl => i = j
  /\ \A g \in Globals : state[g] = "checking" => \E i \in 1..Len(stack) : stack[i].decl = g

(* Each but the last waits for the next one.                               *)
WaitsFor(d, k, g) == k <= NumTerms(d) /\ Refers(prog.inits[d][k]) /\ prog.inits[d][k].g = g
Waiting == \A i \in 1..Len(stack) - 1 : WaitsFor(stack[i].decl, stack[i].term, stack[i + 1].decl)

(* What is done is in the order, each once, after what it names; and what  *)
(* those on the stack named so far is done.                                *)
OrderSound ==
  /\ \A i \in 1..Len(order) : order[i] \in Entered /\ state[order[i]] = "done"
  /\ \A i, j \in 1..Len(order) : order[i] = order[j] => i = j
  /\ \A g \in Globals : state[g] = "done" => \E i \in 1..Len(order) : order[i] = g

NeedsDone ==
  errors = {} =>
    /\ \A i \in 1..Len(order) : \A k \in Nat \ {0} : \A h \in Entered :
         WaitsFor(order[i], k, h) => \E j \in 1..i - 1 : order[j] = h
    /\ \A i \in 1..Len(stack) : \A k \in 1..stack[i].term - 1 : \A h \in Entered :
         WaitsFor(stack[i].decl, k, h) => state[h] = "done"

Visited == \A g \in Entered : g < root => state[g] # "pending"

Over == phase # "checking" => stack = <<>> /\ root \notin Globals /\ ((phase = "rejected") <=> (errors # {}))

CheckInv ==
  /\ CheckTypes /\ StackSound /\ Waiting /\ OrderSound /\ NeedsDone /\ Visited /\ Over
  /\ errors # {} => Circular

(* These depend on the program only.                                       *)
LEMMA SameProgram ==
  ASSUME prog' = prog
  PROVE  /\ Globals' = Globals /\ Frames' = Frames /\ Plain' = Plain /\ Entered' = Entered /\ (Circular' <=> Circular)
         /\ \A g : NumTerms(g)' = NumTerms(g) /\ Names(g)' = Names(g)
         /\ \A d, k, g : WaitsFor(d, k, g)' <=> WaitsFor(d, k, g)
<1>1. Globals' = Globals
  BY DEF Globals
<1>2. Plain' = Plain
  BY <1>1 DEF Plain
<1>3. \A g : NumTerms(g)' = NumTerms(g) /\ (HasInit(g)' <=> HasInit(g))
  BY DEF NumTerms, HasInit
<1>4. Entered' = Entered
  BY <1>2, <1>3 DEF Entered
<1>5. ASSUME NEW g PROVE Names(g)' = Names(g)
  BY <1>2 DEF Names, HasInit
<1>6. ASSUME NEW gs PROVE NeededBy(gs)' = NeededBy(gs)
  BY <1>1, <1>5 DEF NeededBy
<1>7. Circular' <=> Circular
  BY <1>2, <1>5, <1>6 DEF Circular
<1>8. \A d, k, g : WaitsFor(d, k, g)' <=> WaitsFor(d, k, g)
  BY <1>3 DEF WaitsFor
<1> QED
  BY <1>1, <1>2, <1>3, <1>4, <1>5, <1>7, <1>8 DEF Frames

LEMMA CheckInit == Init => CheckInv
<1> SUFFICES ASSUME Init PROVE CheckInv
  OBVIOUS
<1>1. prog \in Programs /\ stack = <<>> /\ order = <<>> /\ errors = {} /\ root = 1 /\ phase = "checking"
  BY DEF Init
<1>2. state = [g \in Globals |-> "pending"]
  BY DEF Init
<1>3. CheckTypes
  BY <1>1, <1>2 DEF CheckTypes
<1>4. Len(stack) = 0 /\ Len(order) = 0
  BY <1>1
<1>5. StackSound /\ Waiting
  BY <1>2, <1>4 DEF StackSound, Waiting
<1>6. OrderSound /\ NeedsDone
  BY <1>2, <1>4 DEF OrderSound, NeedsDone
<1>7. Visited /\ Over
  BY <1>1, <1>2, Parts DEF Visited, Over, Entered, Plain
<1> QED
  BY <1>1, <1>3, <1>5, <1>6, <1>7 DEF CheckInv

(* A global is entered: from the walk, or from the one that waits for it.  *)
LEMMA EnterKeeps ==
  ASSUME CheckInv, phase = "checking", NEW g \in Entered, state[g] = "pending", Enter(g),
         UNCHANGED <<prog, phase, order, errors>>, root' \in {root, root + 1}, root' = root + 1 => stack = <<>> /\ g = root,
         stack = <<>> \/ WaitsFor(Top.decl, Top.term, g)
  PROVE  CheckInv'
<1> DEFINE n == Len(stack)
<1>1. prog \in Programs /\ CheckTypes /\ StackSound /\ Waiting /\ OrderSound /\ NeedsDone /\ Visited
  BY DEF CheckInv, CheckTypes
<1>2. g \in Plain /\ g \in Globals /\ HasInit(g) /\ NumTerms(g) \in Nat \ {0} /\ g \in Nat
  BY <1>1, InitParts, Parts DEF Entered
<1>3. n \in Nat /\ Len(stack') = n + 1 /\ stack'[n + 1] = [decl |-> g, term |-> 1]
      /\ \A i \in 1..n : stack'[i] = stack[i]
  BY <1>1 DEF CheckTypes, Enter
<1>4. \A h \in Globals : state'[h] = IF h = g THEN "checking" ELSE state[h]
  BY <1>1, <1>2 DEF CheckTypes, Enter
<1>5. CheckTypes'
  <2>1. state' \in [Globals -> {"pending", "checking", "done"}]
    BY <1>1 DEF CheckTypes, Enter
  <2>2. [decl |-> g, term |-> 1] \in [decl : Globals, term : Nat \ {0}]
    BY <1>2
  <2>3. stack' \in Seq(Frames)
    BY <1>1, <2>2 DEF CheckTypes, Enter, Frames
  <2> QED
    BY <1>1, <2>1, <2>3, SameProgram DEF CheckTypes
<1>6. \A i \in 1..n : stack[i].decl \in Globals /\ stack[i].decl # g /\ state'[stack[i].decl] = "checking"
  BY <1>1, <1>3, <1>4 DEF StackSound, Entered, Plain
<1>7. StackSound'
  <2>1. \A i \in 1..n + 1 : /\ stack'[i].decl \in Entered /\ state'[stack'[i].decl] = "checking"
                            /\ stack'[i].term <= NumTerms(stack'[i].decl) + 1
    <3>1. CASE n = 0
      BY <1>2, <1>3, <1>4, <3>1
    <3> QED
      BY <1>1, <1>2, <1>3, <1>4, <1>6 DEF StackSound
  <2>2. \A i, j \in 1..n + 1 : stack'[i].decl = stack'[j].decl => i = j
    BY <1>1, <1>3, <1>6 DEF StackSound
  <2>3. ASSUME NEW h \in Globals, state'[h] = "checking" PROVE \E i \in 1..n + 1 : stack'[i].decl = h
    <3>1. CASE h = g
      BY <1>3, <3>1
    <3>2. CASE h # g
      <4>1. PICK i \in 1..n : stack[i].decl = h
        BY <1>1, <1>4, <2>3, <3>2 DEF StackSound
      <4>2. i \in 1..n + 1 /\ stack'[i].decl = h
        BY <1>3, <4>1
      <4> QED
        BY <4>2
    <3> QED
      BY <3>1, <3>2
  <2> QED
    BY <1>3, <2>1, <2>2, <2>3, SameProgram DEF StackSound
<1>8. Waiting'
  <2>1. ASSUME NEW i \in 1..n PROVE WaitsFor(stack'[i].decl, stack'[i].term, stack'[i + 1].decl)
    <3>1. CASE i < n
      <4>1. i \in 1..n - 1 /\ i + 1 \in 1..n
        BY <1>3, <3>1
      <4> QED
        BY <1>1, <1>3, <4>1 DEF Waiting
    <3>2. CASE i = n
      <4>1. stack # <<>>
        BY <1>3, <3>2
      <4> QED
        BY <1>3, <3>2, <4>1 DEF Top
    <3> QED
      BY <1>3, <3>1, <3>2
  <2> QED
    BY <1>3, <2>1, SameProgram DEF Waiting
<1>9. OrderSound'
  <2>0. order' = order
    OBVIOUS
  <2>1. \A i \in 1..Len(order) : order[i] \in Globals /\ order[i] # g
    BY <1>1 DEF OrderSound, Entered, Plain
  <2>2. \A i \in 1..Len(order) : order[i] \in Entered /\ state'[order[i]] = "done"
    BY <1>1, <1>4, <2>1 DEF OrderSound
  <2>3. \A h \in Globals : state'[h] = "done" => \E i \in 1..Len(order) : order[i] = h
    BY <1>1, <1>4 DEF OrderSound
  <2> QED
    BY <1>1, <2>0, <2>2, <2>3, SameProgram DEF OrderSound
<1>10. NeedsDone'
  <2>1. ASSUME errors = {}, NEW i \in 1..n + 1, NEW k \in 1..stack'[i].term - 1, NEW h \in Entered,
               WaitsFor(stack'[i].decl, k, h)
        PROVE  state'[h] = "done"
    <3>1. i # n + 1
      BY <1>3, <2>1
    <3>2. i \in 1..n
      BY <1>3, <3>1
    <3>3. state[h] = "done"
      BY <1>1, <1>3, <2>1, <3>2 DEF NeedsDone
    <3> QED
      BY <1>4, <3>3 DEF Entered, Plain
  <2>2. errors' = errors /\ order' = order
    OBVIOUS
  <2>3. errors' = {} => \A i \in 1..Len(order') : \A k \in Nat \ {0} : \A h \in Entered :
          WaitsFor(order'[i], k, h) => \E j \in 1..i - 1 : order'[j] = h
    BY <1>1, <2>2 DEF NeedsDone
  <2>4. Entered' = Entered /\ \A d, k, h : WaitsFor(d, k, h)' <=> WaitsFor(d, k, h)
    BY SameProgram
  <2>5. errors' = {} => \A i \in 1..Len(stack') : \A k \in 1..stack'[i].term - 1 : \A h \in Entered :
          WaitsFor(stack'[i].decl, k, h) => state'[h] = "done"
    BY <1>3, <2>1, <2>2
  <2> QED
    BY <2>3, <2>4, <2>5 DEF NeedsDone
<1>11. Visited'
  <2>1. ASSUME NEW h \in Entered, h < root' PROVE state'[h] # "pending"
    <3>1. h \in Globals /\ h \in Nat /\ root \in Nat
      BY <1>1, Parts DEF Entered, Plain, CheckTypes
    <3>2. CASE h = g
      BY <1>4, <3>1, <3>2
    <3>3. CASE h # g
      <4>1. h < root
        BY <1>2, <2>1, <3>1, <3>3
      <4> QED
        BY <1>1, <1>4, <3>1, <3>3, <4>1 DEF Visited
    <3> QED
      BY <3>2, <3>3
  <2> QED
    BY <2>1, SameProgram DEF Visited
<1> QED
  BY <1>5, <1>7, <1>8, <1>9, <1>10, <1>11, SameProgram DEF CheckInv, Over

LEMMA WaitsForNamed ==
  ASSUME prog \in Programs, NEW d \in Plain, NEW h \in Entered
  PROVE  h \in Names(d) <=> \E k \in Nat \ {0} : WaitsFor(d, k, h)
<1>1. NumTerms(d) \in Nat
  BY InitParts
<1>2. h \in Names(d) <=> \E k \in 1..NumTerms(d) : Refers(prog.inits[d][k]) /\ prog.inits[d][k].g = h
  BY InitParts
<1> QED
  BY <1>1, <1>2 DEF WaitsFor

(* One that waits for a global being checked closes a circle.              *)
LEMMA Circle ==
  ASSUME CheckInv, stack # <<>>, NEW g \in Globals, state[g] = "checking", WaitsFor(Top.decl, Top.term, g)
  PROVE  Circular
<1> DEFINE n == Len(stack)
           decl(i) == stack[i].decl
<1>1. prog \in Programs /\ CheckTypes /\ StackSound /\ Waiting
  BY DEF CheckInv, CheckTypes
<1>2. n \in Nat \ {0}
  BY <1>1 DEF CheckTypes
<1>3. \A i \in 1..n : decl(i) \in Entered /\ decl(i) \in Plain /\ decl(i) \in Globals /\ stack[i].term \in Nat \ {0}
  <2>1. \A i \in 1..n : decl(i) \in Entered
    BY <1>1 DEF StackSound
  <2>2. \A i \in 1..n : stack[i] \in Frames
    BY <1>1, InSequence DEF CheckTypes
  <2> QED
    BY <2>1, <2>2 DEF Entered, Plain, Frames
<1>4. PICK j \in 1..n : decl(j) = g
  BY <1>1 DEF StackSound
<1>5. \A i \in 1..n - 1 : decl(i + 1) \in Names(decl(i))
  <2> SUFFICES ASSUME NEW i \in 1..n - 1 PROVE decl(i + 1) \in Names(decl(i))
    OBVIOUS
  <2>1. i \in 1..n /\ i + 1 \in 1..n
    BY <1>2
  <2>2. WaitsFor(decl(i), stack[i].term, decl(i + 1))
    BY <1>1 DEF Waiting
  <2> QED
    BY <1>1, <1>3, <2>1, <2>2, WaitsForNamed
<1>6. g \in Names(decl(n))
  <2>1. WaitsFor(decl(n), stack[n].term, g)
    BY DEF Top
  <2>2. g \in Entered /\ n \in 1..n
    BY <1>2, <1>3, <1>4
  <2> QED
    BY <1>1, <1>3, <2>1, <2>2, WaitsForNamed
<1>7. ASSUME NEW S \in SUBSET Globals, Names(g) \subseteq S, \A d \in S : Names(d) \subseteq S
      PROVE  g \in S
  <2> DEFINE Outside == {i \in j + 1..n : decl(i) \notin S}
  <2>1. Outside = {}
    <3> SUFFICES ASSUME Outside # {} PROVE FALSE
      OBVIOUS
    <3>1. Outside \subseteq Nat
      BY <1>4
    <3>2. PICK i \in Outside : \A k \in Outside : i <= k
      <4> HIDE DEF Outside
      <4> QED
        BY <3>1, LeastNumber
    <3>3. i \in j + 1..n /\ decl(i) \notin S /\ i - 1 \in 1..n - 1 /\ (i - 1) + 1 = i
      BY <1>2, <1>4, <3>2
    <3>4. decl(i) \in Names(decl(i - 1))
      BY <1>5, <3>3
    <3>5. i - 1 = j \/ (i - 1 \in j + 1..n /\ i - 1 \notin Outside)
      <4>1. i - 1 \notin Outside
        BY <3>2, <3>3
      <4> QED
        BY <1>4, <3>3, <4>1
    <3>6. i - 1 = j => Names(decl(i - 1)) \subseteq S
      BY <1>4, <1>7
    <3>7. i - 1 # j => decl(i - 1) \in S
      BY <3>5
    <3> QED
      BY <1>7, <3>3, <3>4, <3>6, <3>7
  <2>2. CASE j = n
    BY <1>4, <1>6, <1>7, <2>2
  <2>3. CASE j # n
    <3>1. n \in j + 1..n
      BY <1>2, <1>4, <2>3
    <3>2. decl(n) \in S
      BY <2>1, <3>1
    <3> QED
      BY <1>6, <1>7, <3>2
  <2> QED
    BY <2>2, <2>3
<1>8. g \in NeededBy(Names(g))
  BY <1>7 DEF NeededBy
<1>9. g \in Plain
  BY <1>3, <1>4
<1> QED
  BY <1>8, <1>9 DEF Circular

LEMMA RootChecked == CheckInv /\ CheckRoot => CheckInv'
<1> SUFFICES ASSUME CheckInv, CheckRoot PROVE CheckInv'
  OBVIOUS
<1>1. phase = "checking" /\ stack = <<>> /\ root \in Globals /\ root' = root + 1
      /\ UNCHANGED <<prog, phase, order, errors>>
  BY DEF CheckRoot
<1>2. prog \in Programs /\ root \in Nat \ {0}
  BY DEF CheckInv, CheckTypes
<1>3. CASE root \in Plain /\ HasInit(root) /\ state[root] = "pending"
  <2>1. Enter(root) /\ root \in Entered
    BY <1>3 DEF CheckRoot, Entered
  <2> QED
    BY <1>1, <1>3, <2>1, EnterKeeps
<1>4. CASE ~(root \in Plain /\ HasInit(root) /\ state[root] = "pending")
  <2>1. UNCHANGED <<state, stack>>
    BY <1>4 DEF CheckRoot
  <2>2. CheckTypes'
    BY <1>1, <1>2, <2>1, SameProgram DEF CheckInv, CheckTypes
  <2>3. StackSound' /\ Waiting' /\ OrderSound' /\ NeedsDone'
    BY <1>1, <2>1, SameProgram DEF CheckInv, StackSound, Waiting, OrderSound, NeedsDone
  <2>4. Visited'
    <3>1. ASSUME NEW h \in Entered, h < root + 1 PROVE state[h] # "pending"
      <4>1. h \in Nat /\ h \in Plain /\ HasInit(h)
        BY <1>2, InitParts, Parts DEF Entered
      <4>2. CASE h = root
        BY <1>4, <4>1, <4>2
      <4>3. CASE h # root
        <5>1. h < root
          BY <1>2, <3>1, <4>1, <4>3
        <5> QED
          BY <5>1 DEF CheckInv, Visited
      <4> QED
        BY <4>2, <4>3
    <3> QED
      BY <1>1, <2>1, <3>1, SameProgram DEF Visited
  <2> QED
    BY <1>1, <2>2, <2>3, <2>4, SameProgram DEF CheckInv, Over
<1> QED
  BY <1>3, <1>4

(* The term the initializer on top is at needs nothing that is left to do. *)
LEMMA PassKeeps ==
  ASSUME CheckInv, phase = "checking", stack # <<>>, Top.term <= NumTerms(Top.decl), stack' = Pass,
         UNCHANGED <<prog, phase, state, root, order>>, errors \subseteq errors',
         errors' # {} => Circular,
         errors' = {} => \A h \in Entered : WaitsFor(Top.decl, Top.term, h) => state[h] = "done"
  PROVE  CheckInv'
<1> DEFINE n == Len(stack)
<1>1. prog \in Programs /\ CheckTypes /\ StackSound /\ Waiting /\ OrderSound /\ NeedsDone /\ Visited
  BY DEF CheckInv, CheckTypes
<1>2. n \in Nat \ {0} /\ n \in 1..n /\ Top = stack[n]
  BY <1>1 DEF CheckTypes, Top
<1>3. \A i \in 1..n : stack[i] \in Frames /\ stack[i] \in [decl : Globals, term : Nat \ {0}]
  <2>1. \A i \in 1..n : stack[i] \in Frames
    BY <1>1, InSequence DEF CheckTypes
  <2> QED
    BY <2>1 DEF Frames
<1>4. /\ stack' \in Seq(Frames) /\ Len(stack') = n
      /\ \A i \in 1..n : stack'[i].decl = stack[i].decl
      /\ \A i \in 1..n : stack'[i].term = IF i = n THEN stack[i].term + 1 ELSE stack[i].term
  <2>1. stack' = [stack EXCEPT ![n] = [stack[n] EXCEPT !.term = @ + 1]]
    BY DEF Pass
  <2>2. [stack[n] EXCEPT !.term = @ + 1] = [decl |-> stack[n].decl, term |-> stack[n].term + 1]
    BY <1>2, <1>3
  <2>3. [decl |-> stack[n].decl, term |-> stack[n].term + 1] \in Frames
    BY <1>2, <1>3 DEF Frames
  <2>4. stack' = [stack EXCEPT ![n] = [decl |-> stack[n].decl, term |-> stack[n].term + 1]]
    BY <2>1, <2>2
  <2> QED
    BY <1>1, <1>2, <2>3, <2>4 DEF CheckTypes
<1>5. CheckTypes'
  BY <1>1, <1>4, SameProgram DEF CheckTypes
<1>6. StackSound'
  <2>1. ASSUME NEW i \in 1..n PROVE stack'[i].term <= NumTerms(stack[i].decl) + 1
    <3>1. stack[i].decl \in Plain
      BY <1>1 DEF StackSound, Entered
    <3>2. NumTerms(stack[i].decl) \in Nat /\ stack[i].term \in Nat
      BY <1>1, <1>3, <3>1, InitParts
    <3> QED
      BY <1>1, <1>2, <1>4, <3>2 DEF StackSound
  <2>2. \A i \in 1..n : stack'[i].decl \in Entered /\ state[stack'[i].decl] = "checking"
                        /\ stack'[i].term <= NumTerms(stack'[i].decl) + 1
    BY <1>1, <1>4, <2>1 DEF StackSound
  <2>3. \A i, j \in 1..n : stack'[i].decl = stack'[j].decl => i = j
    BY <1>1, <1>4 DEF StackSound
  <2>4. \A g \in Globals : state[g] = "checking" => \E i \in 1..n : stack'[i].decl = g
    <3> SUFFICES ASSUME NEW g \in Globals, state[g] = "checking" PROVE \E i \in 1..n : stack'[i].decl = g
      OBVIOUS
    <3>1. PICK i \in 1..n : stack[i].decl = g
      BY <1>1 DEF StackSound
    <3> QED
      BY <1>4, <3>1
  <2> QED
    BY <1>4, <2>2, <2>3, <2>4, SameProgram DEF StackSound
<1>7. Waiting'
  <2>1. \A i \in 1..n - 1 : i \in 1..n /\ i + 1 \in 1..n /\ i # n
    BY <1>2
  <2>2. \A i \in 1..n - 1 : WaitsFor(stack'[i].decl, stack'[i].term, stack'[i + 1].decl)
    BY <1>1, <1>4, <2>1 DEF Waiting
  <2> QED
    BY <1>4, <2>2, SameProgram DEF Waiting
<1>8. OrderSound' /\ Visited'
  BY <1>1, SameProgram DEF OrderSound, Visited
<1>9. NeedsDone'
  <2> SUFFICES ASSUME errors' = {} PROVE NeedsDone'
    BY DEF NeedsDone
  <2>1. errors = {}
    OBVIOUS
  <2>2. ASSUME NEW i \in 1..n, NEW k \in 1..stack'[i].term - 1, NEW h \in Entered, WaitsFor(stack[i].decl, k, h)
        PROVE  state[h] = "done"
    <3>1. stack[i].term \in Nat
      BY <1>3
    <3>2. CASE k \in 1..stack[i].term - 1
      BY <1>1, <2>1, <2>2, <3>2 DEF NeedsDone
    <3>3. CASE k \notin 1..stack[i].term - 1
      <4>1. i = n /\ k = stack[n].term
        BY <1>4, <2>2, <3>1, <3>3
      <4> QED
        BY <1>2, <2>2, <4>1
    <3> QED
      BY <3>2, <3>3
  <2>3. \A i \in 1..Len(order) : \A k \in Nat \ {0} : \A h \in Entered :
          WaitsFor(order[i], k, h) => \E j \in 1..i - 1 : order[j] = h
    BY <1>1, <2>1 DEF NeedsDone
  <2>4. \A i \in 1..n : \A k \in 1..stack'[i].term - 1 : \A h \in Entered :
          WaitsFor(stack'[i].decl, k, h) => state[h] = "done"
    BY <1>4, <2>2
  <2> QED
    BY <1>4, <2>3, <2>4, SameProgram DEF NeedsDone
<1> QED
  BY <1>5, <1>6, <1>7, <1>8, <1>9, SameProgram DEF CheckInv, Over

LEMMA RefChecked == CheckInv /\ CheckInitRef => CheckInv'
<1> SUFFICES ASSUME CheckInv, CheckInitRef PROVE CheckInv'
  OBVIOUS
<1> DEFINE d == Top.decl
<1>1. phase = "checking" /\ stack # <<>> /\ Top.term <= NumTerms(d) /\ UNCHANGED <<prog, phase, root, order>>
  BY DEF CheckInitRef, NumTerms
<1>2. prog \in Programs /\ CheckTypes /\ StackSound
  BY DEF CheckInv, CheckTypes
<1>3. Len(stack) \in Nat \ {0} /\ Top = stack[Len(stack)] /\ Top \in [decl : Globals, term : Nat \ {0}]
  <2>1. Len(stack) \in Nat /\ Len(stack) # 0 /\ \A i \in 1..Len(stack) : stack[i] \in Frames
    BY <1>1, <1>2, InSequence DEF CheckTypes
  <2>2. Top = stack[Len(stack)] /\ Len(stack) \in 1..Len(stack)
    BY <2>1 DEF Top
  <2> QED
    BY <2>1, <2>2 DEF Frames
<1>4. d \in Plain /\ state[d] = "checking"
  BY <1>2, <1>3 DEF StackSound, Entered
<1>5. Top.term \in 1..NumTerms(d)
  BY <1>1, <1>2, <1>3, <1>4, InitParts
<1>6. Refers(Term) => Term.g \in Plain /\ Term.g \in Globals /\ WaitsFor(d, Top.term, Term.g)
  BY <1>1, <1>2, <1>4, <1>5, InitParts DEF Term, WaitsFor, Plain
<1>7. CASE Refers(Term) /\ Term.g # d /\ state[Term.g] = "pending" /\ HasInit(Term.g)
  <2>1. Enter(Term.g) /\ UNCHANGED errors
    BY <1>7 DEF CheckInitRef
  <2>2. Term.g \in Entered
    BY <1>6, <1>7 DEF Entered
  <2>3. root \in Nat /\ root' = root
    BY <1>1, <1>2 DEF CheckTypes
  <2> QED
    BY <1>1, <1>6, <1>7, <2>1, <2>2, <2>3, EnterKeeps
<1>8. CASE ~(Refers(Term) /\ Term.g # d /\ state[Term.g] = "pending" /\ HasInit(Term.g))
  <2> DEFINE circle == Refers(Term) /\ state[Term.g] = "checking"
  <2>1. stack' = Pass /\ errors' = (IF circle THEN errors \cup {<<Top.decl, Term.g>>} ELSE errors) /\ UNCHANGED state
    BY <1>8 DEF CheckInitRef
  <2>2. circle => Circular
    BY <1>1, <1>6, Circle
  <2>3. errors \subseteq errors' /\ (errors' # {} => Circular) /\ (errors' = {} => ~circle)
    BY <2>1, <2>2 DEF CheckInv
  <2>4. ASSUME ~circle, NEW h \in Entered, WaitsFor(d, Top.term, h) PROVE state[h] = "done"
    <3>1. Refers(Term) /\ Term.g = h /\ h \in Globals /\ HasInit(h)
      BY <2>4 DEF WaitsFor, Term, Entered, Plain
    <3>2. state[h] # "checking" /\ state[h] # "pending"
      BY <1>4, <1>8, <2>4, <3>1
    <3> QED
      BY <1>2, <3>1, <3>2 DEF CheckTypes
  <2> HIDE DEF circle
  <2>5. errors' = {} => \A h \in Entered : WaitsFor(Top.decl, Top.term, h) => state[h] = "done"
    BY <2>3, <2>4
  <2> QED
    BY <1>1, <2>1, <2>3, <2>5, PassKeeps
<1> QED
  BY <1>7, <1>8

LEMMA CheckedKeeps == CheckInv /\ Checked => CheckInv'
<1> SUFFICES ASSUME CheckInv, Checked PROVE CheckInv'
  OBVIOUS
<1> DEFINE n == Len(stack)
           d == Top.decl
<1>1. phase = "checking" /\ stack # <<>> /\ Top.term > NumTerms(d) /\ UNCHANGED <<prog, phase, root, errors>>
      /\ state' = [state EXCEPT ![d] = "done"] /\ order' = Append(order, d) /\ stack' = Front(stack)
  BY DEF Checked, NumTerms
<1>2. prog \in Programs /\ CheckTypes /\ StackSound /\ Waiting /\ OrderSound /\ NeedsDone /\ Visited
  BY DEF CheckInv, CheckTypes
<1>3. /\ n \in Nat \ {0} /\ n \in 1..n /\ Top = stack[n] /\ stack' \in Seq(Frames) /\ Len(stack') = n - 1
      /\ \A i \in 1..n - 1 : stack'[i] = stack[i] /\ i \in 1..n
  BY <1>1, <1>2, WithoutLast DEF CheckTypes, Top
<1>4. \A i \in 1..n : stack[i] \in Frames /\ stack[i] \in [decl : Globals, term : Nat \ {0}]
  BY <1>2, InSequence DEF CheckTypes, Frames
<1>5. d \in Entered /\ d \in Plain /\ d \in Globals /\ state[d] = "checking" /\ NumTerms(d) \in Nat
  BY <1>2, <1>3, InitParts DEF StackSound, Entered
<1>6. \A h \in Globals : state'[h] = IF h = d THEN "done" ELSE state[h]
  BY <1>1, <1>2, <1>5 DEF CheckTypes
<1>7. \A i \in 1..n - 1 : stack[i].decl # d /\ stack[i].decl \in Globals
  <2> SUFFICES ASSUME NEW i \in 1..n - 1 PROVE stack[i].decl # d /\ stack[i].decl \in Globals
    OBVIOUS
  <2>1. i \in 1..n /\ i # n
    BY <1>3
  <2> QED
    BY <1>2, <1>3, <1>4, <2>1 DEF StackSound
<1>8. Len(order) \in Nat /\ Len(order') = Len(order) + 1 /\ order'[Len(order) + 1] = d
      /\ \A i \in 1..Len(order) : order'[i] = order[i] /\ order[i] # d /\ order[i] \in Globals
  BY <1>1, <1>2, <1>5 DEF CheckTypes, OrderSound
<1>9. CheckTypes'
  <2>1. state' \in [Globals -> {"pending", "checking", "done"}] /\ order' \in Seq(Globals)
    BY <1>1, <1>2, <1>5 DEF CheckTypes
  <2> QED
    BY <1>1, <1>2, <1>3, <2>1, SameProgram DEF CheckTypes
<1>10. StackSound'
  <2>1. ASSUME NEW i \in 1..n - 1
        PROVE  /\ stack'[i].decl \in Entered /\ state'[stack'[i].decl] = "checking"
               /\ stack'[i].term <= NumTerms(stack'[i].decl) + 1
    <3>1. i \in 1..n /\ stack'[i] = stack[i]
      BY <1>3
    <3>2. stack[i].decl \in Entered /\ state[stack[i].decl] = "checking" /\ stack[i].term <= NumTerms(stack[i].decl) + 1
      BY <1>2, <3>1 DEF StackSound
    <3> QED
      BY <1>6, <1>7, <3>1, <3>2
  <2>2. \A i, j \in 1..n - 1 : stack'[i].decl = stack'[j].decl => i = j
    BY <1>2, <1>3 DEF StackSound
  <2>3. ASSUME NEW h \in Globals, state'[h] = "checking" PROVE \E i \in 1..n - 1 : stack'[i].decl = h
    <3>1. h # d /\ state[h] = "checking"
      BY <1>6, <2>3
    <3>2. PICK i \in 1..n : stack[i].decl = h
      BY <1>2, <3>1 DEF StackSound
    <3>3. i \in 1..n - 1
      BY <1>3, <3>1, <3>2
    <3> QED
      BY <1>3, <3>2, <3>3
  <2>4. Len(stack') = n - 1 /\ Globals' = Globals /\ Entered' = Entered
    BY <1>1, <1>3, SameProgram
  <2>5. \A i \in 1..Len(stack') : stack'[i].decl \in Entered /\ state'[stack'[i].decl] = "checking"
                                  /\ stack'[i].term <= NumTerms(stack'[i].decl) + 1
    BY <2>1, <2>4
  <2>6. \A h \in Globals : state'[h] = "checking" => \E i \in 1..Len(stack') : stack'[i].decl = h
    BY <2>3, <2>4
  <2>7. \A i, j \in 1..Len(stack') : stack'[i].decl = stack'[j].decl => i = j
    BY <2>2, <2>4
  <2> QED
    BY <1>1, <2>4, <2>5, <2>6, <2>7 DEF StackSound, NumTerms
<1>11. Waiting'
  <2>1. \A i \in 1..n - 2 : i \in 1..n - 1 /\ i + 1 \in 1..n - 1
    BY <1>3
  <2>2. \A i \in 1..n - 2 : WaitsFor(stack'[i].decl, stack'[i].term, stack'[i + 1].decl)
    BY <1>2, <1>3, <2>1 DEF Waiting
  <2>3. Len(stack') - 1 = n - 2
    BY <1>3
  <2> QED
    BY <1>1, <2>2, <2>3, SameProgram DEF Waiting
<1>12. OrderSound'
  <2>1. \A i \in 1..Len(order) + 1 : order'[i] \in Entered /\ state'[order'[i]] = "done"
    BY <1>2, <1>5, <1>6, <1>8 DEF OrderSound
  <2>2. ASSUME NEW i \in 1..Len(order) + 1, NEW j \in 1..Len(order) + 1, order'[i] = order'[j] PROVE i = j
    BY <1>2, <1>8, <2>2 DEF OrderSound
  <2>3. ASSUME NEW h \in Globals, state'[h] = "done" PROVE \E i \in 1..Len(order) + 1 : order'[i] = h
    <3>1. CASE h = d
      BY <1>8, <3>1
    <3>2. CASE h # d
      <4>1. PICK i \in 1..Len(order) : order[i] = h
        BY <1>2, <1>6, <2>3, <3>2 DEF OrderSound
      <4>2. i \in 1..Len(order) + 1 /\ order'[i] = h
        BY <1>8, <4>1
      <4> QED
        BY <4>2
    <3> QED
      BY <3>1, <3>2
  <2> QED
    BY <1>1, <1>8, <2>1, <2>2, <2>3, SameProgram DEF OrderSound
<1>13. NeedsDone'
  <2> SUFFICES ASSUME errors = {} PROVE NeedsDone'
    BY <1>1 DEF NeedsDone
  <2>1. ASSUME NEW k \in Nat \ {0}, NEW h \in Entered, WaitsFor(d, k, h)
        PROVE  \E j \in 1..Len(order) : order[j] = h
    <3>1. k <= NumTerms(d) /\ Top.term \in Nat
      BY <1>3, <1>4, <2>1 DEF WaitsFor
    <3>2. k \in 1..Top.term - 1
      BY <1>1, <1>5, <3>1
    <3>3. state[h] = "done"
      BY <1>2, <1>3, <2>1, <3>2 DEF NeedsDone
    <3> QED
      BY <1>2, <3>3 DEF OrderSound, Entered, Plain
  <2>2. ASSUME NEW i \in 1..Len(order) + 1, NEW k \in Nat \ {0}, NEW h \in Entered, WaitsFor(order'[i], k, h)
        PROVE  \E j \in 1..i - 1 : order'[j] = h
    <3>1. CASE i = Len(order) + 1
      <4>1. PICK j \in 1..Len(order) : order[j] = h
        BY <1>8, <2>1, <2>2, <3>1
      <4>2. j \in 1..i - 1 /\ order'[j] = h
        BY <1>8, <3>1, <4>1
      <4> QED
        BY <4>2
    <3>2. CASE i # Len(order) + 1
      <4>1. i \in 1..Len(order)
        BY <1>8, <3>2
      <4>2. PICK j \in 1..i - 1 : order[j] = h
        BY <1>2, <1>8, <2>2, <4>1 DEF NeedsDone
      <4>3. order'[j] = h
        BY <1>8, <4>1, <4>2
      <4> QED
        BY <4>3
    <3> QED
      BY <3>1, <3>2
  <2>3. ASSUME NEW i \in 1..n - 1, NEW k \in 1..stack'[i].term - 1, NEW h \in Entered,
               WaitsFor(stack'[i].decl, k, h)
        PROVE  state'[h] = "done"
    <3>1. state[h] = "done" /\ h \in Globals
      BY <1>2, <1>3, <2>3 DEF NeedsDone, Entered, Plain
    <3> QED
      BY <1>6, <3>1
  <2>4. Len(stack') = n - 1 /\ Len(order') = Len(order) + 1 /\ Entered' = Entered
        /\ \A e, k, h : WaitsFor(e, k, h)' <=> WaitsFor(e, k, h)
    BY <1>1, <1>3, <1>8, SameProgram
  <2>5. \A i \in 1..Len(order') : \A k \in Nat \ {0} : \A h \in Entered :
          WaitsFor(order'[i], k, h) => \E j \in 1..i - 1 : order'[j] = h
    BY <2>2, <2>4
  <2>6. \A i \in 1..Len(stack') : \A k \in 1..stack'[i].term - 1 : \A h \in Entered :
          WaitsFor(stack'[i].decl, k, h) => state'[h] = "done"
    BY <2>3, <2>4
  <2> QED
    BY <2>4, <2>5, <2>6 DEF NeedsDone
<1>14. Visited'
  <2>1. \A h \in Entered : h \in Globals
    BY DEF Entered, Plain
  <2>2. \A h \in Entered : h < root => state'[h] # "pending"
    BY <1>2, <1>6, <2>1 DEF Visited
  <2> QED
    BY <1>1, <2>2, SameProgram DEF Visited
<1> QED
  BY <1>1, <1>9, <1>10, <1>11, <1>12, <1>13, <1>14, SameProgram DEF CheckInv, Over

(* The steps after the walk leave what it found as it is.                  *)
LEMMA GenerateKeeps == CheckInv /\ Generate => CheckInv'
<1> SUFFICES ASSUME CheckInv, Generate PROVE CheckInv'
  OBVIOUS
<1>1. stack = <<>> /\ root \notin Globals /\ UNCHANGED <<prog, state, stack, root, order, errors>>
      /\ phase' = IF errors # {} THEN "rejected" ELSE "generating"
  BY DEF Generate, checking
<1>2. CheckTypes' /\ StackSound' /\ Waiting'
  BY <1>1, SameProgram DEF CheckInv, CheckTypes, StackSound, Waiting
<1>3. OrderSound' /\ NeedsDone' /\ Visited'
  BY <1>1, SameProgram DEF CheckInv, OrderSound, NeedsDone, Visited
<1> QED
  BY <1>1, <1>2, <1>3, SameProgram DEF CheckInv, Over

LEMMA CheckStays ==
  ASSUME CheckInv, UNCHANGED <<prog, checking>>,
         phase' = phase \/ (phase \notin {"checking", "rejected"} /\ phase' \notin {"checking", "rejected"})
  PROVE  CheckInv'
<1>1. UNCHANGED <<prog, state, stack, root, order, errors>>
  BY DEF checking
<1>2. CheckTypes' /\ StackSound' /\ Waiting'
  BY <1>1, SameProgram DEF CheckInv, CheckTypes, StackSound, Waiting
<1>3. OrderSound' /\ NeedsDone' /\ Visited'
  BY <1>1, SameProgram DEF CheckInv, OrderSound, NeedsDone, Visited
<1> QED
  BY <1>1, <1>2, <1>3, SameProgram DEF CheckInv, Over

LEMMA CheckNext == CheckInv /\ [Next]_vars => CheckInv'
<1> SUFFICES ASSUME CheckInv, [Next]_vars PROVE CheckInv'
  OBVIOUS
<1>1. CASE CheckRoot
  BY <1>1, RootChecked
<1>2. CASE CheckInitRef
  BY <1>2, RefChecked
<1>3. CASE Checked
  BY <1>3, CheckedKeeps
<1>4. CASE Generate
  BY <1>4, GenerateKeeps
<1>5. CASE GenInitFn \/ TouchMerge \/ SweepAgain \/ Scan \/ UNCHANGED vars
  BY <1>5, CheckStays DEF GenInitFn, TouchMerge, SweepAgain, Scan, vars
<1>6. CASE TouchDirect \/ StartScan \/ ScanEnds
  BY <1>6, CheckStays DEF TouchDirect, StartScan, ScanEnds
<1> QED
  BY <1>1, <1>2, <1>3, <1>4, <1>5, <1>6 DEF Next

LEMMA Before1 ==
  ASSUME NEW T, NEW q \in Seq(T), NEW i \in 1..Len(q)
  PROVE  ToSet(SubSeq(q, 1, i - 1)) = {q[j] : j \in 1..i - 1}
<1>1. PICK m \in Nat : m = i - 1 /\ 1..m \subseteq 1..Len(q)
  OBVIOUS
<1>2. SubSeq(q, 1, m) = [k \in 1..m |-> q[k]]
  BY <1>1
<1>3. DOMAIN SubSeq(q, 1, m) = 1..m /\ \A k \in 1..m : SubSeq(q, 1, m)[k] = q[k]
  BY <1>2
<1> QED
  BY <1>1, <1>3 DEF ToSet

(* An order in which everything comes after what it names has no circle.   *)
LEMMA NoCircle ==
  ASSUME CheckInv, errors = {}, \A g \in Entered : \E i \in 1..Len(order) : order[i] = g
  PROVE  ~Circular
<1>1. prog \in Programs /\ OrderSound /\ NeedsDone /\ order \in Seq(Globals) /\ Len(order) \in Nat
  BY InSequence DEF CheckInv, CheckTypes
<1>2. ASSUME NEW i \in 1..Len(order), NEW h \in Names(order[i]) PROVE \E j \in 1..i - 1 : order[j] = h
  <2>1. order[i] \in Plain
    BY <1>1 DEF OrderSound, Entered
  <2>2. h \in Entered
    BY <1>1, <1>2, <2>1, InitParts
  <2>3. \E k \in Nat \ {0} : WaitsFor(order[i], k, h)
    BY <1>1, <1>2, <2>1, <2>2, WaitsForNamed
  <2> QED
    BY <1>1, <2>2, <2>3 DEF NeedsDone
<1>3. ASSUME NEW g \in Plain, g \in NeededBy(Names(g)) PROVE FALSE
  <2>1. CASE HasInit(g)
    <3>1. PICK i \in 1..Len(order) : order[i] = g
      BY <2>1 DEF Entered
    <3> DEFINE S == {order[j] : j \in 1..i - 1}
    <3>2. S \subseteq Globals
      <4>1. \A j \in 1..i - 1 : j \in 1..Len(order)
        BY <1>1
      <4> QED
        BY <1>1, <4>1, InSequence
    <3>3. Names(g) \subseteq S
      BY <1>2, <3>1
    <3>4. ASSUME NEW d \in S PROVE Names(d) \subseteq S
      <4>1. PICK j \in 1..i - 1 : order[j] = d
        OBVIOUS
      <4>2. j \in 1..Len(order) /\ 1..j - 1 \subseteq 1..i - 1
        BY <1>1, <4>1
      <4> QED
        BY <1>2, <4>1, <4>2
    <3>5. g \in S
      <4> HIDE DEF S
      <4> QED
        BY <1>3, <3>2, <3>3, <3>4 DEF NeededBy
    <3>6. PICK j \in 1..i - 1 : order[j] = g
      BY <3>5
    <3>7. j \in 1..Len(order) /\ j # i
      BY <1>1, <3>6
    <3> QED
      BY <1>1, <3>1, <3>6, <3>7 DEF OrderSound
  <2>2. CASE ~HasInit(g)
    <3>1. Names(g) = {}
      <4>1. NumTerms(g) = 0
        BY <1>1, <2>2, InitParts
      <4> QED
        BY <1>1, <4>1, InitParts
    <3>2. g \in {}
      BY <1>3, <3>1 DEF NeededBy
    <3> QED
      BY <3>2
  <2> QED
    BY <2>1, <2>2
<1> QED
  BY <1>3 DEF Circular

LEMMA Ordered == CheckInv => InitOrdered
<1> SUFFICES ASSUME CheckInv, phase # "checking" PROVE InitOrdered
  BY DEF InitOrdered
<1>1. prog \in Programs /\ CheckTypes /\ StackSound /\ OrderSound /\ NeedsDone /\ Visited
      /\ order \in Seq(Globals) /\ Len(order) \in Nat /\ DOMAIN order = 1..Len(order)
  BY InSequence DEF CheckInv, CheckTypes
<1>2. stack = <<>> /\ Len(stack) = 0 /\ root \notin Globals /\ ((phase = "rejected") <=> (errors # {}))
  BY DEF CheckInv, Over
<1>3. ASSUME NEW g \in Entered PROVE \E i \in 1..Len(order) : order[i] = g
  <2>1. g \in Globals /\ g \in Nat /\ g < root
    BY <1>1, <1>2, Parts DEF Entered, Plain, CheckTypes
  <2>2. state[g] # "pending"
    BY <1>1, <2>1 DEF Visited
  <2>3. state[g] # "checking"
    BY <1>1, <1>2, <2>1 DEF StackSound
  <2>4. state[g] = "done"
    BY <1>1, <2>1, <2>2, <2>3 DEF CheckTypes
  <2> QED
    BY <1>1, <2>1, <2>4 DEF OrderSound
<1>4. (phase = "rejected") <=> Circular
  <2>1. errors # {} => Circular
    BY DEF CheckInv
  <2> QED
    BY <1>2, <1>3, <2>1, NoCircle
<1>5. ToSet(order) = {g \in Plain : HasInit(g)}
  BY <1>1, <1>3 DEF ToSet, OrderSound, Entered
<1>6. IsInjective(order)
  BY <1>1 DEF IsInjective, OrderSound
<1>7. ASSUME phase # "rejected", NEW i \in DOMAIN order PROVE Names(order[i]) \subseteq ToSet(SubSeq(order, 1, i - 1))
  <2>1. i \in 1..Len(order) /\ order[i] \in Plain /\ errors = {}
    BY <1>1, <1>2, <1>7 DEF OrderSound, Entered
  <2>2. ASSUME NEW h \in Names(order[i]) PROVE \E j \in 1..i - 1 : order[j] = h
    <3>1. h \in Entered
      BY <1>1, <2>1, InitParts
    <3>2. \E k \in Nat \ {0} : WaitsFor(order[i], k, h)
      BY <1>1, <2>1, <3>1, WaitsForNamed
    <3> QED
      BY <1>1, <2>1, <3>1, <3>2 DEF NeedsDone
  <2>3. ToSet(SubSeq(order, 1, i - 1)) = {order[j] : j \in 1..i - 1}
    BY <1>1, <2>1, Before1
  <2> QED
    BY <2>2, <2>3
<1> QED
  BY <1>4, <1>5, <1>6, <1>7 DEF InitOrdered

LEMMA OneStep == [ProgramNext]_progVars => [Next]_vars
  BY DEF ProgramNext, progVars, GenNext, GenCallee, GenBody

(* For every program: it is rejected exactly if the initializers of its    *)
(* globals need one another in a circle; otherwise every initializer is in *)
(* the order once, after those of the globals it names                     *)
(* (check_global_var_init, check_init_ref).                                *)
THEOREM InitializersOrdered == Spec => []InitOrdered
<1>1. ProgramInit => CheckInv
  BY CheckInit DEF ProgramInit
<1>2. CheckInv /\ [ProgramNext]_progVars => CheckInv'
  BY CheckNext, OneStep
<1> QED
  BY <1>1, <1>2, Ordered, PTL DEF Spec

(***************************************************************************)
(* Calls.                                                                  *)
(***************************************************************************)
(* Every call of the initialization function is one of a function of the   *)
(* program.                                                                *)
OpNames == {"nop", "const", "ld_global", "str_global", "addr_global", "call", "jz", "label", "add"}
Instrs == {c \in [op : OpNames, dst : Nat, src : Seq(Nat), target : Nat, imm : Int] : c.op = "call" => c.target \in Fns}
CodeSound == code \in Seq(Instrs) /\ made \in Nat

LEMMA InstrKnown ==
  ASSUME NEW op \in OpNames, NEW dst \in Nat, NEW src \in Seq(Nat), NEW target \in Nat, NEW imm \in Int,
         op = "call" => target \in Fns
  PROVE  Instr(op, dst, src, target, imm) \in Instrs
  BY DEF Instr, Instrs

LEMMA TermCode ==
  ASSUME prog \in Programs, NEW t \in Terms(Len(prog.inits), Len(prog.fns)), NEW r \in Nat
  PROVE  GenTerm(t, r) \in Seq(Instrs)
<1>1. /\ Len(prog.inits) \in Nat /\ Len(prog.fns) \in Nat /\ Fns = 1..Len(prog.fns)
  BY Parts
<1>2. <<>> \in Seq(Nat) /\ <<r>> \in Seq(Nat) /\ NONE \in Nat /\ 0 \in Int
  BY DEF NONE
<1>3. CASE t \in [op : {"const"}, v : Int]
  <2>1. t.op = "const" /\ t.v \in Int
    BY <1>3
  <2>2. Instr("const", r, <<>>, NONE, t.v) \in Instrs
    BY <1>2, <2>1, InstrKnown DEF OpNames
  <2> QED
    BY <2>1, <2>2 DEF GenTerm
<1>4. CASE t \in [op : {"ref", "addr"}, g : 1..Len(prog.inits)]
  <2>1. t.op \in {"ref", "addr"} /\ t.g \in Nat
    BY <1>1, <1>4
  <2>2. /\ Instr("ld_global", r, <<>>, t.g, 0) \in Instrs
        /\ Instr("addr_global", r, <<>>, t.g, 0) \in Instrs
    BY <1>2, <2>1, InstrKnown DEF OpNames
  <2> QED
    BY <2>1, <2>2 DEF GenTerm
<1>5. CASE t \in [op : {"write", "cond"}, g : 1..Len(prog.inits), v : Int]
  <2>1. t.g \in Nat /\ t.v \in Int /\ t.op \in {"write", "cond"}
    BY <1>1, <1>5
  <2>2. /\ Instr("const", r, <<>>, NONE, t.v) \in Instrs /\ Instr("str_global", NONE, <<r>>, t.g, 0) \in Instrs
        /\ Instr("ld_global", r, <<>>, t.g, 0) \in Instrs /\ Instr("jz", NONE, <<r>>, r, 0) \in Instrs
        /\ Instr("label", NONE, <<>>, r, 0) \in Instrs
    BY <1>2, <2>1, InstrKnown DEF OpNames
  <2> QED
    BY <2>1, <2>2 DEF GenTerm
<1>6. CASE t \in [op : {"call"}, f : 1..Len(prog.fns)]
  <2>1. t.op = "call" /\ t.f \in Nat /\ t.f \in Fns
    BY <1>1, <1>6
  <2>2. Instr("call", r, <<>>, t.f, 0) \in Instrs
    BY <1>2, <2>1, InstrKnown DEF OpNames
  <2> QED
    BY <2>1, <2>2 DEF GenTerm
<1> QED
  BY <1>3, <1>4, <1>5, <1>6 DEF Terms

LEMMA VarInitCode ==
  ASSUME prog \in Programs, NEW g \in Globals, NEW r \in Nat
  PROVE  GenVarInit(g, r) \in Seq(Instrs)
<1> DEFINE terms == prog.inits[g]
           T == Terms(Len(prog.inits), Len(prog.fns))
<1>1. terms \in Seq(T) /\ g \in Nat
  <2> HIDE DEF T
  <2> QED
    BY Parts, InSequence DEF T
<1>2. CASE terms = <<>>
  BY <1>2 DEF GenVarInit
<1>3. CASE terms # <<>>
  <2>1. Len(terms) \in Nat \ {0} /\ \A k \in 1..Len(terms) : terms[k] \in T
    <3> HIDE DEF T, terms
    <3> QED
      BY <1>1, <1>3, InSequence
  <2>2. GenTerm(terms[1], r) \in Seq(Instrs)
    BY <2>1, TermCode
  <2>3. /\ r + 1 \in Nat /\ r + 2 \in Nat /\ 0 \in Int
        /\ <<r>> \in Seq(Nat) /\ <<r + 2>> \in Seq(Nat) /\ <<r, r + 1>> \in Seq(Nat) /\ NONE \in Nat
    BY DEF NONE
  <2>4. /\ Instr("str_global", NONE, <<r>>, g, 0) \in Instrs /\ Instr("str_global", NONE, <<r + 2>>, g, 0) \in Instrs
        /\ Instr("add", r + 2, <<r, r + 1>>, NONE, 0) \in Instrs
    BY <1>1, <2>3, InstrKnown DEF OpNames
  <2>5. CASE Len(terms) = 1
    <3>1. GenVarInit(g, r) = GenTerm(terms[1], r) \o <<Instr("str_global", NONE, <<r>>, g, 0)>>
      BY <1>3, <2>5 DEF GenVarInit
    <3> HIDE DEF terms
    <3> QED
      BY <2>2, <2>4, <3>1
  <2>6. CASE Len(terms) # 1
    <3>1. GenTerm(terms[2], r + 1) \in Seq(Instrs)
      <4>1. terms[2] \in T /\ r + 1 \in Nat
        <5> HIDE DEF T, terms
        <5>0. PICK n \in Nat \ {0} : n = Len(terms)
          BY <2>1
        <5>1. 2 \in 1..Len(terms)
          BY <2>6, <5>0
        <5> QED
          BY <2>1, <2>3, <5>1
      <4> QED
        BY <4>1, TermCode
    <3>2. GenVarInit(g, r) = GenTerm(terms[1], r) \o GenTerm(terms[2], r + 1)
            \o <<Instr("add", r + 2, <<r, r + 1>>, NONE, 0), Instr("str_global", NONE, <<r + 2>>, g, 0)>>
      BY <1>3, <2>6 DEF GenVarInit
    <3> HIDE DEF terms
    <3> QED
      BY <2>2, <2>4, <3>1, <3>2
  <2> QED
    BY <2>5, <2>6
<1> QED
  BY <1>2, <1>3

LEMMA CodeKept == CheckInv /\ CodeSound /\ [Next]_vars => CodeSound'
<1> SUFFICES ASSUME CheckInv, CodeSound, [Next]_vars PROVE CodeSound'
  OBVIOUS
<1>1. prog \in Programs /\ order \in Seq(Globals) /\ code \in Seq(Instrs) /\ made \in Nat
  BY DEF CheckInv, CheckTypes, CodeSound
<1>2. prog' = prog
  BY DEF Next, CheckRoot, CheckInitRef, Checked, Generate, GenInitFn, TouchDirect, TouchMerge, SweepAgain, StartScan,
         Scan, ScanEnds, vars
<1>3. Instrs' = Instrs
  BY <1>2 DEF Instrs, Fns
<1>4. CASE UNCHANGED <<code, made>>
  BY <1>1, <1>3, <1>4 DEF CodeSound
<1>5. CASE GenInitFn
  <2>1. Initialized \in Seq(Globals)
    BY <1>1, Parts DEF Initialized
  <2>2. made < Len(Initialized) /\ made' = made + 1
        /\ code' = code \o GenVarInit(Initialized[made + 1], 3 * (made + 1))
    BY <1>5 DEF GenInitFn
  <2>3. made + 1 \in 1..Len(Initialized) /\ 3 * (made + 1) \in Nat
    BY <1>1, <2>1, <2>2
  <2>4. GenVarInit(Initialized[made + 1], 3 * (made + 1)) \in Seq(Instrs)
    BY <1>1, <2>1, <2>3, VarInitCode, InSequence
  <2> QED
    BY <1>1, <1>3, <2>2, <2>4 DEF CodeSound
<1>6. CASE Scan
  <2>1. Nop \in Instrs
    <3>1. 0 \in Nat /\ 0 \in Int /\ <<>> \in Seq(Nat) /\ "nop" \in OpNames
      BY DEF OpNames
    <3> QED
      BY <3>1, InstrKnown DEF Nop, NONE
  <2>2. pos \in DOMAIN code /\ made' = made
    BY <1>6 DEF Scan
  <2>3. CASE UNCHANGED code
    BY <1>4, <2>2, <2>3
  <2>4. CASE BindStatic(pos)
    <3>1. [code EXCEPT ![pos] = Nop] \in Seq(Instrs)
      BY <1>1, <2>1, <2>2
    <3>2. ASSUME NEW c \in Seq(Instrs), NEW b PROVE [c EXCEPT ![b] = Nop] \in Seq(Instrs)
      <4>1. CASE b \in 1..Len(c)
        BY <2>1, <4>1
      <4>2. CASE b \notin 1..Len(c)
        <5>1. [c EXCEPT ![b] = Nop] = c
          BY <4>2
        <5> QED
          BY <5>1
      <4> QED
        BY <4>1, <4>2
    <3>3. code' \in Seq(Instrs)
      BY <2>4, <3>1, <3>2 DEF BindStatic
    <3> QED
      BY <1>1, <1>3, <2>2, <3>3 DEF CodeSound
  <2> QED
    BY <1>6, <2>3, <2>4 DEF Scan
<1> QED
  BY <1>4, <1>5, <1>6 DEF Next, CheckRoot, CheckInitRef, Checked, Generate, TouchDirect, TouchMerge, SweepAgain, StartScan,
         ScanEnds, vars, generating

LEMMA SitesKnown ==
  ASSUME prog \in Programs, CodeSound, NEW f \in AllFns
  PROVE  /\ Sites(f) \subseteq Nat \ {0} /\ \A k \in Sites(f) : Callee(f, k) \in Fns
         /\ Called(f) \subseteq Fns /\ Called(f) \subseteq AllFns
<1>1. \A k \in Sites(f) : k \in Nat \ {0} /\ Callee(f, k) \in Fns
  <2> SUFFICES ASSUME NEW k \in Sites(f) PROVE k \in Nat \ {0} /\ Callee(f, k) \in Fns
    OBVIOUS
  <2>1. CASE f = InitFn
    <3>1. k \in DOMAIN code /\ code[k].op = "call"
      BY <2>1 DEF Sites
    <3>2. code[k] \in Instrs /\ k \in Nat \ {0}
      BY <3>1, InSequence DEF CodeSound
    <3> QED
      BY <2>1, <3>1, <3>2 DEF Callee, Instrs
  <2>2. CASE f # InitFn
    <3>1. f \in Fns /\ k \in DOMAIN prog.fns[f] /\ prog.fns[f][k].op = "call"
      BY <2>2 DEF Sites, AllFns
    <3> DEFINE O == Ops(Len(prog.inits), Len(prog.fns))
    <3>2. prog.fns[f] \in Seq(O)
      <4> HIDE DEF O
      <4> QED
        BY <3>1, Parts, InSequence DEF O
    <3>3. prog.fns[f][k] \in O /\ k \in Nat \ {0}
      <4> HIDE DEF O
      <4> QED
        BY <3>1, <3>2, InSequence
    <3>4. prog.fns[f][k] \in [op : {"call"}, f : 1..Len(prog.fns)]
      BY <3>1, <3>3 DEF Ops
    <3> QED
      BY <2>2, <3>3, <3>4, Parts DEF Callee
  <2> QED
    BY <2>1, <2>2
<1> QED
  BY <1>1 DEF Called, AllFns

(* What is reached from functions is the least set that has them and what  *)
(* its functions call.                                                     *)
Closed(S) == \A f \in S \ prog.externs : Called(f) \subseteq S

LEMMA ReachedLeast ==
  ASSUME prog \in Programs, CodeSound, NEW fs \in SUBSET AllFns
  PROVE  /\ fs \subseteq ReachedFrom(fs) /\ ReachedFrom(fs) \in SUBSET AllFns /\ Closed(ReachedFrom(fs))
         /\ \A S \in SUBSET AllFns : fs \subseteq S /\ Closed(S) => ReachedFrom(fs) \subseteq S
<1>1. fs \subseteq ReachedFrom(fs) /\ ReachedFrom(fs) \in SUBSET AllFns
  BY DEF ReachedFrom
<1>2. \A S \in SUBSET AllFns : fs \subseteq S /\ Closed(S) => ReachedFrom(fs) \subseteq S
  BY DEF ReachedFrom, Closed
<1>3. ASSUME NEW f \in ReachedFrom(fs) \ prog.externs, NEW g \in Called(f) PROVE g \in ReachedFrom(fs)
  <2>1. g \in AllFns
    BY <1>1, SitesKnown
  <2>2. ASSUME NEW S \in SUBSET AllFns, fs \subseteq S, Closed(S) PROVE g \in S
    <3>1. f \in S
      BY <1>2, <2>2
    <3> QED
      BY <2>2, <3>1 DEF Closed
  <2> QED
    BY <2>1, <2>2 DEF ReachedFrom, Closed
<1> QED
  BY <1>1, <1>2, <1>3 DEF Closed

LEMMA ReachedFurther ==
  ASSUME prog \in Programs, CodeSound, NEW g \in AllFns, NEW c \in Reached(g)
  PROVE  Reached(c) \subseteq Reached(g)
<1>1. Reached(g) \in SUBSET AllFns /\ Closed(Reached(g)) /\ c \in AllFns
  BY ReachedLeast DEF Reached
<1> QED
  BY <1>1, ReachedLeast DEF Reached

LEMMA ReachedByCalls ==
  ASSUME prog \in Programs, CodeSound, NEW g \in AllFns, g \notin prog.externs
  PROVE  /\ Reached(g) = {g} \cup UNION {Reached(c) : c \in Called(g)}
         /\ \A c \in Called(g) : c \in Reached(g) /\ c \in Reached(c) /\ Reached(c) \subseteq Reached(g)
<1> DEFINE S == {g} \cup UNION {Reached(c) : c \in Called(g)}
<1>1. g \in Reached(g) /\ Closed(Reached(g)) /\ Called(g) \subseteq AllFns
  BY ReachedLeast, SitesKnown DEF Reached
<1>2. \A c \in Called(g) : c \in Reached(g)
  BY <1>1 DEF Closed
<1>3. \A c \in Called(g) : c \in AllFns /\ Reached(c) \subseteq Reached(g)
  BY <1>1, <1>2, ReachedFurther
<1>4. \A c \in Called(g) : c \in Reached(c) /\ Reached(c) \in SUBSET AllFns /\ Closed(Reached(c))
  BY <1>3, ReachedLeast DEF Reached
<1>5. S \in SUBSET AllFns
  BY <1>4
<1>6. Closed(S)
  <2> SUFFICES ASSUME NEW f \in S \ prog.externs PROVE Called(f) \subseteq S
    BY DEF Closed
  <2>1. CASE f = g
    BY <1>4, <2>1
  <2>2. CASE f # g
    <3>1. PICK c \in Called(g) : f \in Reached(c)
      BY <2>2
    <3>2. Called(f) \subseteq Reached(c)
      BY <1>4, <3>1 DEF Closed
    <3> QED
      BY <3>1, <3>2
  <2> QED
    BY <2>1, <2>2
<1>7. Reached(g) \subseteq S
  <2> HIDE DEF S
  <2>1. {g} \subseteq S
    BY DEF S
  <2> QED
    BY <1>5, <1>6, <2>1, ReachedLeast DEF Reached
<1> QED
  BY <1>1, <1>2, <1>3, <1>4, <1>7

(* What a function clobbers: what it writes itself, and what its callees   *)
(* clobber and are passed.                                                 *)
LEMMA ClobberedByCalls ==
  ASSUME prog \in Programs, CodeSound, NEW g \in AllFns, g \notin prog.externs
  PROVE  Clobbered(g) \cap CallerMask
           = (Own(g) \cup UNION {(Clobbered(c) \cap CallerMask) \cup Args(c) : c \in Called(g)}) \cap CallerMask
<1>1. /\ Reached(g) = {g} \cup UNION {Reached(c) : c \in Called(g)}
      /\ \A c \in Called(g) : c \in Reached(g) /\ c \in Reached(c) /\ Reached(c) \subseteq Reached(g)
  BY ReachedByCalls
<1>2. CASE Reached(g) \cap prog.externs # {}
  <2>1. PICK h \in Reached(g) : h \in prog.externs
    BY <1>2
  <2>2. PICK c \in Called(g) : h \in Reached(c)
    BY <1>1, <2>1
  <2>3. Clobbered(c) = CallerMask /\ Clobbered(g) = CallerMask
    BY <1>2, <2>1, <2>2 DEF Clobbered
  <2> QED
    BY <2>2, <2>3
<1>3. CASE Reached(g) \cap prog.externs = {}
  <2>1. Clobbered(g) = UNION {Writes(h) : h \in Reached(g)}
    BY <1>3 DEF Clobbered
  <2>2. \A c \in Called(g) : Clobbered(c) = UNION {Writes(h) : h \in Reached(c)}
    BY <1>1, <1>3 DEF Clobbered
  <2>3. UNION {Writes(h) : h \in Reached(g)} = Writes(g) \cup UNION {UNION {Writes(h) : h \in Reached(c)} : c \in Called(g)}
    BY <1>1
  <2>4. Clobbered(g) = Writes(g) \cup UNION {Clobbered(c) : c \in Called(g)}
    <3>1. {UNION {Writes(h) : h \in Reached(c)} : c \in Called(g)} = {Clobbered(c) : c \in Called(g)}
      BY <2>2
    <3> QED
      BY <2>1, <2>3, <3>1
  <2>5. ASSUME NEW x \in CallerMask
        PROVE  x \in Clobbered(g) <=> (x \in Own(g) \/ \E c \in Called(g) : x \in Clobbered(c) \/ x \in Args(c))
    BY <2>4 DEF Writes
  <2> QED
    BY <2>5
<1> QED
  BY <1>2, <1>3

(***************************************************************************)
(* The functions in work.                                                  *)
(***************************************************************************)
Jobs == [fn : AllFns, at : Nat \ {0}]
NoCycle(g) == ~\E h \in Reached(g) : Recursive(h)

EmitTypes ==
  /\ gen \in [AllFns -> {0, 1, 2}] /\ work \in Seq(Jobs) /\ next \in Nat
  /\ clobber \in [AllFns -> SUBSET CallerMask]
  /\ kept = [f \in AllFns |-> kept[f]]

(* Those in work are on the stack, each once, and each was called by the   *)
(* one below.                                                              *)
WorkSound ==
  /\ \A i \in 1..Len(work) : gen[work[i].fn] = 1 /\ ~Skipped(work[i].fn)
  /\ \A i, j \in 1..Len(work) : work[i].fn = work[j].fn => i = j
  /\ \A f \in AllFns : gen[f] = 1 => \E i \in 1..Len(work) : work[i].fn = f
  /\ \A i \in 1..Len(work) - 1 : work[i + 1].fn \in Called(work[i].fn)

(* Calls gone through are in work or done.                                 *)
GoneThrough ==
  \A i \in 1..Len(work) : \A k \in Sites(work[i].fn) : k < work[i].at => gen[Callee(work[i].fn, k)] # 0

(* Of a function that is not done nothing is known; one that is done       *)
(* clobbers at least what its callees do, and has kept values from it.     *)
Untold == \A f \in AllFns : gen[f] # 2 \/ Skipped(f) => clobber[f] = CallerMask /\ kept[f] = <<>>

Told ==
  \A f \in AllFns : gen[f] = 2 /\ ~Skipped(f) =>
    /\ DOMAIN kept[f] = Sites(f) /\ Own(f) \cap CallerMask \subseteq clobber[f]
    /\ \A k \in Sites(f) :
         /\ CallClobbers(Callee(f, k)) \cap CallerMask \subseteq clobber[f]
         /\ CallClobbers(Callee(f, k)) \subseteq kept[f][k]

(* Without recursion nothing else is recorded.                             *)
Exact ==
  /\ \A g \in Fns : gen[g] = 2 /\ NoCycle(g) => clobber[g] = Clobbered(g) \cap CallerMask
  /\ \A f \in AllFns : \A k \in DOMAIN kept[f] :
       NoCycle(Callee(f, k)) => kept[f][k] = (Clobbered(Callee(f, k)) \cap CallerMask) \cup Args(Callee(f, k))

EmitInv == EmitTypes /\ WorkSound /\ GoneThrough /\ Untold /\ Told /\ Exact

Unemitted ==
  /\ gen = [f \in AllFns |-> 0] /\ work = <<>> /\ next \in Nat
  /\ clobber = [f \in AllFns |-> CallerMask] /\ kept = [f \in AllFns |-> <<>>]

LEMMA Fresh == Unemitted => EmitInv
<1> SUFFICES ASSUME Unemitted PROVE EmitInv
  OBVIOUS
<1>1. \A f \in AllFns : gen[f] = 0 /\ clobber[f] = CallerMask /\ kept[f] = <<>>
  BY DEF Unemitted
<1>2. Len(work) = 0 /\ DOMAIN <<>> = {} /\ \A f \in Fns : f \in AllFns
  BY DEF Unemitted, AllFns
<1>3. EmitTypes
  BY DEF EmitTypes, Unemitted
<1>4. WorkSound /\ GoneThrough
  BY <1>1, <1>2 DEF WorkSound, GoneThrough
<1>5. Untold /\ Told /\ Exact
  BY <1>1, <1>2 DEF Untold, Told, Exact
<1> QED
  BY <1>3, <1>4, <1>5 DEF EmitInv

LEMMA FreshNext == Unemitted' => EmitInv'
  BY Fresh, PTL

(* From below to the top of the stack, one has called the next.            *)
LEMMA CallsInWork ==
  ASSUME prog \in Programs, CodeSound, EmitTypes, WorkSound, NEW i \in 1..Len(work), NEW c \in Called(work[Len(work)].fn),
         c = work[i].fn
  PROVE  Recursive(c)
<1> DEFINE n == Len(work)
           fn(j) == work[j].fn
<1>1. n \in Nat \ {0} /\ n \in 1..n /\ i \in Nat /\ \A j \in 1..n : fn(j) \in AllFns /\ fn(j) \notin prog.externs
  <2>1. n \in Nat /\ \A j \in 1..n : work[j] \in Jobs
    BY InSequence DEF EmitTypes
  <2> QED
    BY <2>1 DEF Jobs, WorkSound, Skipped
<1>2. Called(c) \in SUBSET AllFns
  BY <1>1, SitesKnown
<1> DEFINE R == ReachedFrom(Called(c))
<1>3. Called(c) \subseteq R /\ Closed(R)
  BY <1>2, ReachedLeast
<1> DEFINE Outside == {j \in i + 1..n : fn(j) \notin R}
<1>4. Outside = {}
  <2> SUFFICES ASSUME Outside # {} PROVE FALSE
    OBVIOUS
  <2>1. Outside \subseteq Nat
    BY <1>1
  <2>2. PICK j \in Outside : \A k \in Outside : j <= k
    <3> HIDE DEF Outside
    <3> QED
      BY <2>1, LeastNumber
  <2>3. j \in i + 1..n /\ fn(j) \notin R /\ j - 1 \in 1..n - 1 /\ j - 1 \in 1..n /\ (j - 1) + 1 = j
    BY <1>1, <2>2
  <2>4. fn(j) \in Called(fn(j - 1))
    BY <2>3 DEF WorkSound
  <2>5. j - 1 = i \/ fn(j - 1) \in R
    <3>1. j - 1 \notin Outside
      BY <2>2, <2>3
    <3> HIDE DEF R
    <3> QED
      BY <1>1, <2>3, <3>1
  <2>6. j - 1 = i => fn(j) \in R
    BY <1>3, <2>4
  <2>7. fn(j - 1) \in R => fn(j) \in R
    BY <1>1, <1>3, <2>3, <2>4 DEF Closed
  <2> QED
    BY <2>3, <2>5, <2>6, <2>7
<1>5. c \in R
  <2>1. CASE i = n
    BY <1>3, <2>1
  <2>2. CASE i # n
    <3>1. n \in i + 1..n
      BY <1>1, <2>2
    <3>2. fn(n) \in R
      BY <1>4, <3>1
    <3> QED
      BY <1>1, <1>3, <3>2 DEF Closed
  <2> QED
    BY <2>1, <2>2
<1> QED
  BY <1>5 DEF Recursive

LEMMA SameCode ==
  ASSUME prog' = prog, code' = code
  PROVE  /\ AllFns' = AllFns /\ Fns' = Fns /\ Jobs' = Jobs
         /\ \A f : (Skipped(f)' <=> Skipped(f)) /\ Sites(f)' = Sites(f) /\ Called(f)' = Called(f)
                   /\ Own(f)' = Own(f) /\ Args(f)' = Args(f) /\ Clobbered(f)' = Clobbered(f)
                   /\ (NoCycle(f)' <=> NoCycle(f))
         /\ \A f, k : Callee(f, k)' = Callee(f, k)
<1>1. AllFns' = AllFns /\ Fns' = Fns /\ Jobs' = Jobs
  BY DEF AllFns, Fns, Jobs
<1>2. ASSUME NEW f PROVE Sites(f)' = Sites(f)
  BY DEF Sites
<1>3. \A f, k : Callee(f, k)' = Callee(f, k)
  BY DEF Callee
<1>4. ASSUME NEW f PROVE Called(f)' = Called(f)
  BY <1>2, <1>3 DEF Called
<1>5. ASSUME NEW f PROVE (Skipped(f)' <=> Skipped(f)) /\ Own(f)' = Own(f) /\ Args(f)' = Args(f)
  BY DEF Skipped, InitEmpty, Own, Args
<1>6. ASSUME NEW fs PROVE ReachedFrom(fs)' = ReachedFrom(fs)
  BY <1>1, <1>4 DEF ReachedFrom
<1>7. ASSUME NEW f PROVE Reached(f)' = Reached(f) /\ (Recursive(f)' <=> Recursive(f))
  BY <1>4, <1>6 DEF Reached, Recursive
<1>8. ASSUME NEW f PROVE Clobbered(f)' = Clobbered(f)
  <2>1. \A g : Writes(g)' = Writes(g)
    BY <1>4, <1>5 DEF Writes
  <2>2. Reached(f)' = Reached(f) /\ prog'.externs = prog.externs
    BY <1>7
  <2> QED
    BY <2>1, <2>2 DEF Clobbered
<1>9. ASSUME NEW f PROVE NoCycle(f)' <=> NoCycle(f)
  BY <1>7 DEF NoCycle
<1> QED
  BY <1>1, <1>2, <1>3, <1>4, <1>5, <1>8, <1>9

(* A function is taken up, from the program or from the call its caller is *)
(* at: rest is the stack with the caller past that call.                   *)
LEMMA BeginKeeps ==
  ASSUME prog \in Programs, CodeSound, EmitInv, NEW f \in AllFns, NEW rest \in Seq(Jobs),
         Len(rest) = Len(work), \A i \in 1..Len(work) : rest[i].fn = work[i].fn,
         Len(work) # 0 => f \in Called(work[Len(work)].fn),
         \A i \in 1..Len(work) : \A k \in Sites(work[i].fn) :
           k < rest[i].at => gen[Callee(work[i].fn, k)] # 0 \/ Callee(work[i].fn, k) = f,
         Begin(f, rest), next' \in Nat, UNCHANGED <<prog, code, clobber, kept>>
  PROVE  EmitInv'
<1> DEFINE n == Len(work)
<1>1. EmitTypes /\ WorkSound /\ GoneThrough /\ Untold /\ Told /\ Exact
  BY DEF EmitInv
<1>2. n \in Nat /\ \A i \in 1..n : work[i].fn \in AllFns /\ rest[i].fn \in AllFns
  <2>1. n \in Nat /\ \A i \in 1..n : work[i] \in Jobs /\ rest[i] \in Jobs
    BY <1>1, InSequence DEF EmitTypes
  <2> QED
    BY <2>1 DEF Jobs
<1>3. \A h \in AllFns : \A k \in Sites(h) : Callee(h, k) \in AllFns
  BY SitesKnown DEF AllFns
<1>4. CASE gen[f] # 0
  <2>1. gen' = gen /\ work' = rest
    BY <1>4 DEF Begin
  <2>2. EmitTypes'
    BY <1>1, <2>1, SameCode DEF EmitTypes
  <2>3. WorkSound'
    <3>1. \A i \in 1..n - 1 : i \in 1..n /\ i + 1 \in 1..n
      BY <1>2
    <3>2. \A i \in 1..n - 1 : rest[i + 1].fn \in Called(rest[i].fn)
      BY <1>1, <3>1 DEF WorkSound
    <3>3. \A i \in 1..n : gen[rest[i].fn] = 1 /\ ~Skipped(rest[i].fn)
      BY <1>1 DEF WorkSound
    <3>4. \A i, j \in 1..n : rest[i].fn = rest[j].fn => i = j
      BY <1>1 DEF WorkSound
    <3>5. \A h \in AllFns : gen[h] = 1 => \E i \in 1..n : rest[i].fn = h
      BY <1>1 DEF WorkSound
    <3> QED
      BY <2>1, <3>2, <3>3, <3>4, <3>5, SameCode DEF WorkSound
  <2>4. GoneThrough'
    <3>1. \A i \in 1..n : \A k \in Sites(rest[i].fn) : k < rest[i].at => gen[Callee(rest[i].fn, k)] # 0
      BY <1>4
    <3> QED
      BY <2>1, <3>1, SameCode DEF GoneThrough
  <2>5. Untold' /\ Told' /\ Exact'
    BY <1>1, <2>1, SameCode DEF Untold, Told, Exact, CallClobbers
  <2> QED
    BY <2>2, <2>3, <2>4, <2>5 DEF EmitInv
<1>5. CASE gen[f] = 0 /\ Skipped(f)
  <2>1. gen' = [gen EXCEPT ![f] = 2] /\ work' = rest
    BY <1>5 DEF Begin
  <2>2. \A h \in AllFns : gen'[h] = IF h = f THEN 2 ELSE gen[h]
    BY <1>1, <2>1 DEF EmitTypes
  <2>3. EmitTypes'
    BY <1>1, <2>1, SameCode DEF EmitTypes
  <2>4. WorkSound'
    <3>1. \A i \in 1..n - 1 : i \in 1..n /\ i + 1 \in 1..n
      BY <1>2
    <3>2. \A i \in 1..n - 1 : rest[i + 1].fn \in Called(rest[i].fn)
      BY <1>1, <3>1 DEF WorkSound
    <3>3. \A i \in 1..n : gen'[rest[i].fn] = 1 /\ ~Skipped(rest[i].fn)
      BY <1>1, <1>2, <1>5, <2>2 DEF WorkSound
    <3>4. \A i, j \in 1..n : rest[i].fn = rest[j].fn => i = j
      BY <1>1 DEF WorkSound
    <3>5. \A h \in AllFns : gen'[h] = 1 => \E i \in 1..n : rest[i].fn = h
      BY <1>1, <2>2 DEF WorkSound
    <3> QED
      BY <2>1, <3>2, <3>3, <3>4, <3>5, SameCode DEF WorkSound
  <2>5. GoneThrough'
    <3>1. \A i \in 1..n : \A k \in Sites(rest[i].fn) : k < rest[i].at => gen'[Callee(rest[i].fn, k)] # 0
      BY <1>2, <1>3, <2>2
    <3> QED
      BY <2>1, <3>1, SameCode DEF GoneThrough
  <2>6. Untold' /\ Told'
    <3>1. \A h \in AllFns : gen'[h] # 2 \/ Skipped(h) => gen[h] # 2 \/ Skipped(h)
      BY <2>2
    <3>2. \A h \in AllFns : gen'[h] = 2 /\ ~Skipped(h) => gen[h] = 2
      BY <1>5, <2>2
    <3> QED
      BY <1>1, <3>1, <3>2, SameCode DEF Untold, Told, CallClobbers
  <2>7. Exact'
    <3>1. ASSUME NEW g \in Fns, gen'[g] = 2, NoCycle(g) PROVE clobber[g] = Clobbered(g) \cap CallerMask
      <4>1. g \in AllFns
        BY DEF AllFns
      <4>2. CASE g # f
        BY <1>1, <2>2, <3>1, <4>1, <4>2 DEF Exact
      <4>3. CASE g = f
        <5>1. clobber[f] = CallerMask
          BY <1>1, <1>5 DEF Untold
        <5>2. f \in prog.externs \/ f = InitFn
          BY <1>5 DEF Skipped
        <5>3. f # InitFn
          BY <4>3, Parts DEF InitFn
        <5>4. f \in Reached(f)
          BY ReachedLeast DEF Reached
        <5>5. Clobbered(f) = CallerMask
          BY <5>2, <5>3, <5>4 DEF Clobbered
        <5> QED
          BY <4>3, <5>1, <5>5
      <4> QED
        BY <4>2, <4>3
    <3> QED
      BY <1>1, <3>1, SameCode DEF Exact
  <2> QED
    BY <2>3, <2>4, <2>5, <2>6, <2>7 DEF EmitInv
<1>6. CASE gen[f] = 0 /\ ~Skipped(f)
  <2> DEFINE job == [fn |-> f, at |-> 1]
  <2>1. gen' = [gen EXCEPT ![f] = 1] /\ work' = Append(rest, job)
    BY <1>6 DEF Begin
  <2>2. \A h \in AllFns : gen'[h] = IF h = f THEN 1 ELSE gen[h]
    BY <1>1, <2>1 DEF EmitTypes
  <2>3. /\ job \in Jobs /\ work' \in Seq(Jobs) /\ Len(work') = n + 1
        /\ work'[n + 1] = job /\ \A i \in 1..n : work'[i] = rest[i]
    <3>1. job \in Jobs
      BY DEF Jobs
    <3> HIDE DEF job
    <3> QED
      BY <2>1, <3>1
  <2>4. EmitTypes'
    BY <1>1, <2>1, <2>3, SameCode DEF EmitTypes
  <2>5. \A i \in 1..n : work'[i].fn = work[i].fn /\ work'[i].fn \in AllFns /\ work'[i].fn # f
    BY <1>1, <1>2, <1>6, <2>3 DEF WorkSound
  <2>6. WorkSound'
    <3>1. \A i \in 1..n : gen'[work'[i].fn] = 1 /\ ~Skipped(work'[i].fn)
      BY <1>1, <2>2, <2>5 DEF WorkSound
    <3>2. \A i \in 1..n + 1 : gen'[work'[i].fn] = 1 /\ ~Skipped(work'[i].fn)
      BY <1>2, <1>6, <2>2, <2>3, <3>1
    <3>3. \A i, j \in 1..n + 1 : work'[i].fn = work'[j].fn => i = j
      <4> SUFFICES ASSUME NEW i \in 1..n + 1, NEW j \in 1..n + 1, work'[i].fn = work'[j].fn PROVE i = j
        OBVIOUS
      <4>1. CASE i \in 1..n /\ j \in 1..n
        BY <1>1, <2>5, <4>1 DEF WorkSound
      <4>2. CASE i = n + 1 \/ j = n + 1
        <5>1. work'[n + 1].fn = f
          BY <2>3
        <5>2. \A m \in 1..n + 1 : m = n + 1 \/ m \in 1..n
          BY <1>2
        <5> QED
          BY <2>5, <4>2, <5>1, <5>2
      <4>3. \A m \in 1..n + 1 : m = n + 1 \/ m \in 1..n
        BY <1>2
      <4> QED
        BY <4>1, <4>2, <4>3
    <3>4. ASSUME NEW h \in AllFns, gen'[h] = 1 PROVE \E i \in 1..n + 1 : work'[i].fn = h
      <4>1. CASE h = f
        BY <1>2, <2>3, <4>1
      <4>2. CASE h # f
        <5>1. PICK i \in 1..n : work[i].fn = h
          BY <1>1, <2>2, <3>4, <4>2 DEF WorkSound
        <5>2. i \in 1..n + 1
          BY <1>2
        <5> QED
          BY <2>5, <5>1, <5>2
      <4> QED
        BY <4>1, <4>2
    <3>5. ASSUME NEW i \in 1..n PROVE work'[i + 1].fn \in Called(work'[i].fn)
      <4>1. CASE i = n
        BY <1>2, <2>3, <2>5, <4>1
      <4>2. CASE i # n
        <5>1. i \in 1..n - 1 /\ i + 1 \in 1..n
          BY <1>2, <4>2
        <5> QED
          BY <1>1, <2>5, <5>1 DEF WorkSound
      <4> QED
        BY <4>1, <4>2
    <3>6. Len(work') - 1 = n
      BY <1>2, <2>3
    <3> QED
      BY <2>3, <3>2, <3>3, <3>4, <3>5, <3>6, SameCode DEF WorkSound
  <2>7. GoneThrough'
    <3>1. ASSUME NEW i \in 1..n + 1, NEW k \in Sites(work'[i].fn), k < work'[i].at
          PROVE  gen'[Callee(work'[i].fn, k)] # 0
      <4>1. CASE i = n + 1
        <5>1. k \in Nat \ {0} /\ k < 1
          BY <2>3, <3>1, <4>1, SitesKnown
        <5> QED
          BY <5>1
      <4>2. CASE i # n + 1
        <5>1. i \in 1..n
          BY <1>2, <4>2
        <5>2. gen[Callee(work[i].fn, k)] # 0 \/ Callee(work[i].fn, k) = f
          BY <2>3, <2>5, <3>1, <5>1
        <5> QED
          BY <1>2, <1>3, <2>2, <2>5, <3>1, <5>1, <5>2
      <4> QED
        BY <4>1, <4>2
    <3> QED
      BY <2>3, <3>1, SameCode DEF GoneThrough
  <2>8. Untold' /\ Told'
    <3>1. \A h \in AllFns : gen'[h] # 2 \/ Skipped(h) => gen[h] # 2 \/ Skipped(h)
      BY <1>6, <2>2
    <3>2. \A h \in AllFns : gen'[h] = 2 /\ ~Skipped(h) => gen[h] = 2
      BY <2>2
    <3> QED
      BY <1>1, <3>1, <3>2, SameCode DEF Untold, Told, CallClobbers
  <2>9. Exact'
    <3>1. \A g \in Fns : gen'[g] = 2 => gen[g] = 2
      BY <2>2 DEF AllFns
    <3> QED
      BY <1>1, <3>1, SameCode DEF Exact
  <2> QED
    BY <2>4, <2>6, <2>7, <2>8, <2>9 DEF EmitInv
<1> QED
  BY <1>4, <1>5, <1>6

(* A function all of whose calls were gone through is generated.           *)
LEMMA BodyKeeps ==
  ASSUME prog \in Programs, CodeSound, EmitInv, GenBody
  PROVE  EmitInv'
<1> DEFINE n == Len(work)
           g == Doing
           told == [k \in Sites(g) |-> CallClobbers(Callee(g, k))]
<1>1. EmitTypes /\ WorkSound /\ GoneThrough /\ Untold /\ Told /\ Exact
  BY DEF EmitInv
<1>2. /\ work # <<>> /\ Ahead = {} /\ gen' = [gen EXCEPT ![g] = 2] /\ work' = Front(work) /\ next' = next
      /\ clobber' = [clobber EXCEPT ![g] = (Own(g) \cup UNION Range(told)) \cap CallerMask]
      /\ kept' = [kept EXCEPT ![g] = told] /\ prog' = prog /\ code' = code
  BY DEF GenBody, vars, generating
<1>3. /\ n \in Nat \ {0} /\ work' \in Seq(Jobs) /\ Len(work') = n - 1
      /\ \A i \in 1..n - 1 : work'[i] = work[i] /\ i \in 1..n
  BY <1>1, <1>2, WithoutLast DEF EmitTypes
<1>4. \A i \in 1..n : work[i] \in Jobs /\ work[i].fn \in AllFns /\ work[i].at \in Nat
  <2>1. \A i \in 1..n : work[i] \in Jobs
    BY <1>1, InSequence DEF EmitTypes
  <2> QED
    BY <2>1 DEF Jobs
<1>5. n \in 1..n /\ g = work[n].fn /\ g \in AllFns /\ gen[g] = 1 /\ ~Skipped(g) /\ g \notin prog.externs
  <2>1. n \in 1..n /\ g = work[n].fn
    BY <1>3 DEF Doing, Last
  <2> QED
    BY <1>1, <1>4, <2>1 DEF WorkSound, Skipped
<1>6. ASSUME NEW k \in Sites(g) PROVE Callee(g, k) \in Fns /\ Callee(g, k) \in AllFns /\ gen[Callee(g, k)] # 0
  <2>1. ~(k >= work[n].at)
    BY <1>2, <1>6 DEF Ahead, Last, Doing
  <2>2. k \in Nat /\ k < work[n].at
    BY <1>4, <1>5, <1>6, <2>1, SitesKnown
  <2>3. gen[Callee(g, k)] # 0
    BY <1>1, <1>5, <1>6, <2>2 DEF GoneThrough
  <2> QED
    BY <1>5, <1>6, <2>3, SitesKnown DEF AllFns
<1>7. \A h \in AllFns : gen'[h] = IF h = g THEN 2 ELSE gen[h]
  BY <1>1, <1>2 DEF EmitTypes
<1>8. Range(told) = {CallClobbers(Callee(g, k)) : k \in Sites(g)}
  BY DEF Range
<1> DEFINE told2 == (Own(g) \cup UNION {CallClobbers(Callee(g, k)) : k \in Sites(g)}) \cap CallerMask
<1>9. clobber' = [clobber EXCEPT ![g] = told2] /\ told2 \subseteq CallerMask
  <2> HIDE DEF told
  <2> QED
    BY <1>2, <1>8
<1>10. clobber'[g] = told2 /\ \A h \in AllFns : h # g => clobber'[h] = clobber[h]
  <2> HIDE DEF told2
  <2> QED
    BY <1>1, <1>5, <1>9 DEF EmitTypes
<1>11. \A h \in AllFns : clobber'[h] \subseteq clobber[h]
  <2>1. clobber[g] = CallerMask
    BY <1>1, <1>5 DEF Untold
  <2> QED
    BY <1>9, <1>10, <2>1
<1>13. kept'[g] = told /\ \A h \in AllFns : h # g => kept'[h] = kept[h]
  <2> HIDE DEF told
  <2> QED
    BY <1>1, <1>2, <1>5 DEF EmitTypes
<1>14. EmitTypes'
  <2>1. gen' \in [AllFns -> {0, 1, 2}] /\ kept' = [f \in AllFns |-> kept'[f]] /\ next' \in Nat
    <3> HIDE DEF told
    <3> QED
      BY <1>1, <1>2 DEF EmitTypes
  <2>2. clobber' \in [AllFns -> SUBSET CallerMask]
    <3> HIDE DEF told2
    <3> QED
      BY <1>1, <1>9 DEF EmitTypes
  <2> QED
    BY <1>2, <1>3, <2>1, <2>2, SameCode DEF EmitTypes
<1>15. WorkSound'
  <2>1. \A i \in 1..n - 1 : work[i].fn # g
    <3> SUFFICES ASSUME NEW i \in 1..n - 1, work[i].fn = g PROVE FALSE
      OBVIOUS
    <3>1. i \in 1..n /\ i # n
      BY <1>3
    <3> QED
      BY <1>1, <1>5, <3>1 DEF WorkSound
  <2>2. ASSUME NEW i \in 1..n - 1 PROVE gen'[work'[i].fn] = 1 /\ ~Skipped(work'[i].fn)
    <3>1. i \in 1..n /\ work'[i] = work[i] /\ work[i].fn \in AllFns
      BY <1>3, <1>4
    <3>2. gen[work[i].fn] = 1 /\ ~Skipped(work[i].fn)
      BY <1>1, <3>1 DEF WorkSound
    <3> QED
      BY <1>7, <2>1, <3>1, <3>2
  <2>3. \A i, j \in 1..n - 1 : work'[i].fn = work'[j].fn => i = j
    BY <1>1, <1>3 DEF WorkSound
  <2>4. ASSUME NEW h \in AllFns, gen'[h] = 1 PROVE \E i \in 1..n - 1 : work'[i].fn = h
    <3>1. PICK i \in 1..n : work[i].fn = h
      BY <1>1, <1>7, <2>4 DEF WorkSound
    <3>2. i # n
      BY <1>5, <1>7, <2>4, <3>1
    <3>3. i \in 1..n - 1
      BY <1>3, <3>1, <3>2
    <3> QED
      BY <1>3, <3>1, <3>3
  <2>5. \A i \in 1..n - 2 : i \in 1..n - 1 /\ i + 1 \in 1..n - 1
    BY <1>3
  <2>6. \A i \in 1..n - 2 : work'[i + 1].fn \in Called(work'[i].fn)
    BY <1>1, <1>3, <2>5 DEF WorkSound
  <2>7. Len(work') = n - 1 /\ Len(work') - 1 = n - 2
    BY <1>3
  <2> HIDE DEF g, n
  <2> QED
    BY <1>2, <2>2, <2>3, <2>4, <2>6, <2>7, SameCode DEF WorkSound
<1>16. GoneThrough'
  <2>1. ASSUME NEW i \in 1..n - 1, NEW k \in Sites(work'[i].fn), k < work'[i].at
        PROVE  gen'[Callee(work'[i].fn, k)] # 0
    <3>1. i \in 1..n /\ work'[i] = work[i] /\ work[i].fn \in AllFns
      BY <1>3, <1>4
    <3>2. gen[Callee(work[i].fn, k)] # 0
      BY <1>1, <2>1, <3>1 DEF GoneThrough
    <3>3. Callee(work[i].fn, k) \in AllFns
      BY <2>1, <3>1, SitesKnown DEF AllFns
    <3> QED
      BY <1>7, <3>1, <3>2, <3>3
  <2>2. Len(work') = n - 1
    BY <1>3
  <2> HIDE DEF g, n
  <2> QED
    BY <1>2, <2>1, <2>2, SameCode DEF GoneThrough
<1>17. Untold'
  <2>1. \A h \in AllFns : gen'[h] # 2 \/ Skipped(h) => h # g /\ (gen[h] # 2 \/ Skipped(h))
    BY <1>5, <1>7
  <2>2. \A h \in AllFns : gen'[h] # 2 \/ Skipped(h) => clobber'[h] = CallerMask /\ kept'[h] = <<>>
    <3> HIDE DEF g, told, told2
    <3> QED
      BY <1>1, <1>10, <1>13, <2>1 DEF Untold
  <2> QED
    BY <1>2, <2>2, SameCode DEF Untold
<1>18. Told'
  <2> DEFINE now(h, k) == clobber'[Callee(h, k)] \cup Args(Callee(h, k))
  <2>1. ASSUME NEW h \in AllFns, NEW k \in Sites(h) PROVE now(h, k) \subseteq CallClobbers(Callee(h, k))
    <3>1. Callee(h, k) \in AllFns
      BY <2>1, SitesKnown DEF AllFns
    <3> QED
      BY <1>11, <3>1 DEF CallClobbers
  <2>2. ASSUME NEW h \in AllFns, gen'[h] = 2, ~Skipped(h)
        PROVE  /\ DOMAIN kept'[h] = Sites(h) /\ Own(h) \cap CallerMask \subseteq clobber'[h]
               /\ \A k \in Sites(h) : now(h, k) \cap CallerMask \subseteq clobber'[h] /\ now(h, k) \subseteq kept'[h][k]
    <3> HIDE DEF now
    <3>1. CASE h = g
      <4>1. DOMAIN kept'[h] = Sites(h)
        BY <1>13, <3>1
      <4>2. \A k \in Sites(h) : kept'[h][k] = CallClobbers(Callee(h, k))
        BY <1>13, <3>1
      <4>3. Own(h) \cap CallerMask \subseteq clobber'[h]
            /\ \A k \in Sites(h) : CallClobbers(Callee(h, k)) \cap CallerMask \subseteq clobber'[h]
        BY <1>10, <3>1
      <4> QED
        BY <2>1, <4>1, <4>2, <4>3
    <3>2. CASE h # g
      <4>1. gen[h] = 2 /\ clobber'[h] = clobber[h] /\ kept'[h] = kept[h]
        BY <1>7, <1>10, <1>13, <2>2, <3>2
      <4>2. /\ DOMAIN kept[h] = Sites(h) /\ Own(h) \cap CallerMask \subseteq clobber[h]
            /\ \A k \in Sites(h) : /\ CallClobbers(Callee(h, k)) \cap CallerMask \subseteq clobber[h]
                                   /\ CallClobbers(Callee(h, k)) \subseteq kept[h][k]
        BY <1>1, <2>2, <4>1 DEF Told
      <4> QED
        BY <2>1, <4>1, <4>2
    <3> QED
      BY <3>1, <3>2
  <2> HIDE DEF g, told, told2
  <2> QED
    BY <1>2, <2>2, SameCode DEF Told, CallClobbers
<1>19. ASSUME NEW c \in Called(g), NoCycle(c)
       PROVE  clobber[c] = Clobbered(c) \cap CallerMask
  <2>1. PICK k \in Sites(g) : c = Callee(g, k)
    BY DEF Called
  <2>2. c \in Fns /\ c \in AllFns /\ gen[c] # 0
    BY <1>6, <2>1
  <2>3. gen[c] # 1
    <3> SUFFICES ASSUME gen[c] = 1 PROVE FALSE
      OBVIOUS
    <3>1. PICK i \in 1..n : work[i].fn = c
      BY <1>1, <2>2 DEF WorkSound
    <3>2. Recursive(c)
      BY <1>1, <1>5, <3>1, CallsInWork
    <3>3. c \in Reached(c)
      BY <2>2, ReachedLeast DEF Reached
    <3> QED
      BY <1>19, <3>2, <3>3 DEF NoCycle
  <2>4. gen[c] = 2
    BY <1>1, <2>2, <2>3 DEF EmitTypes
  <2> QED
    BY <1>1, <1>19, <2>2, <2>4 DEF Exact
<1>20. Exact'
  <2>1. ASSUME NoCycle(g) PROVE clobber'[g] = Clobbered(g) \cap CallerMask
    <3>1. \A c \in Called(g) : NoCycle(c)
      BY <1>5, <2>1, ReachedByCalls DEF NoCycle
    <3>2. \A c \in Called(g) : CallClobbers(c) = (Clobbered(c) \cap CallerMask) \cup Args(c)
      BY <1>19, <3>1 DEF CallClobbers
    <3>3. Clobbered(g) \cap CallerMask
            = (Own(g) \cup UNION {(Clobbered(c) \cap CallerMask) \cup Args(c) : c \in Called(g)}) \cap CallerMask
      BY <1>5, ClobberedByCalls
    <3>4. told2 = (Own(g) \cup UNION {CallClobbers(c) : c \in Called(g)}) \cap CallerMask
      BY DEF Called
    <3>5. {CallClobbers(c) : c \in Called(g)} = {(Clobbered(c) \cap CallerMask) \cup Args(c) : c \in Called(g)}
      BY <3>2
    <3> HIDE DEF told2, g
    <3> QED
      BY <1>10, <3>3, <3>4, <3>5
  <2>2. ASSUME NEW h \in Fns, gen'[h] = 2, NoCycle(h) PROVE clobber'[h] = Clobbered(h) \cap CallerMask
    <3>1. h \in AllFns
      BY DEF AllFns
    <3>2. CASE h = g
      BY <2>1, <2>2, <3>2
    <3>3. CASE h # g
      BY <1>1, <1>7, <1>10, <2>2, <3>1, <3>3 DEF Exact
    <3> QED
      BY <3>2, <3>3
  <2>3. ASSUME NEW h \in AllFns, NEW k \in DOMAIN kept'[h], NoCycle(Callee(h, k))
        PROVE  kept'[h][k] = (Clobbered(Callee(h, k)) \cap CallerMask) \cup Args(Callee(h, k))
    <3>1. CASE h = g
      <4>1. k \in Sites(g) /\ kept'[h][k] = CallClobbers(Callee(g, k))
        BY <1>13, <2>3, <3>1
      <4>2. Callee(g, k) \in Called(g)
        BY <4>1 DEF Called
      <4> QED
        BY <1>19, <2>3, <3>1, <4>1, <4>2 DEF CallClobbers
    <3>2. CASE h # g
      BY <1>1, <1>13, <2>3, <3>2 DEF Exact
    <3> QED
      BY <3>1, <3>2
  <2> HIDE DEF g, told, told2
  <2> QED
    BY <1>2, <2>2, <2>3, SameCode DEF Exact
<1> QED
  BY <1>14, <1>15, <1>16, <1>17, <1>18, <1>20 DEF EmitInv

(* A function of the program is taken up.                                  *)
LEMMA NextKeeps ==
  ASSUME prog \in Programs, CodeSound, EmitInv, GenNext
  PROVE  EmitInv'
<1>1. /\ work = <<>> /\ next \in AllFns /\ Begin(next, <<>>) /\ next' = next + 1
      /\ prog' = prog /\ code' = code /\ clobber' = clobber /\ kept' = kept
  BY DEF GenNext, vars, generating
<1> DEFINE none == <<>>
<1>2. none \in Seq(Jobs) /\ Len(none) = 0 /\ Len(work) = 0 /\ 1..Len(work) = {} /\ next' \in Nat
  BY <1>1 DEF EmitInv, EmitTypes
<1>3. Begin(next, none) /\ next \in AllFns /\ UNCHANGED <<prog, code, clobber, kept>>
  BY <1>1
<1> HIDE DEF none
<1>4. /\ Len(none) = Len(work) /\ \A i \in 1..Len(work) : none[i].fn = work[i].fn
      /\ Len(work) # 0 => next \in Called(work[Len(work)].fn)
  BY <1>2
<1>5. \A i \in 1..Len(work) : \A k \in Sites(work[i].fn) :
        k < none[i].at => gen[Callee(work[i].fn, k)] # 0 \/ Callee(work[i].fn, k) = next
  BY <1>2
<1> QED
  BY <1>2, <1>3, <1>4, <1>5, BeginKeeps

LEMMA CalleeKeeps ==
  ASSUME prog \in Programs, CodeSound, EmitInv, GenCallee
  PROVE  EmitInv'
<1> DEFINE n == Len(work)
           g == Doing
<1>1. /\ work # <<>> /\ next' = next /\ prog' = prog /\ code' = code /\ clobber' = clobber /\ kept' = kept
      /\ \E k \in Ahead : NextCall(k) /\ Begin(Callee(g, k), Past(k))
  BY DEF GenCallee, vars, generating
<1>2. PICK k \in Ahead : NextCall(k) /\ Begin(Callee(g, k), Past(k))
  BY <1>1
<1>3. EmitTypes /\ WorkSound /\ GoneThrough
  BY DEF EmitInv
<1>4. n \in Nat \ {0} /\ Front(work) \in Seq(Jobs) /\ Len(Front(work)) = n - 1
      /\ \A i \in 1..n - 1 : Front(work)[i] = work[i] /\ i \in 1..n
  BY <1>1, <1>3, WithoutLast DEF EmitTypes
<1>5. n \in 1..n /\ work[n] \in Jobs /\ g = work[n].fn /\ g \in AllFns /\ work[n].at \in Nat
  <2>1. n \in 1..n /\ g = work[n].fn
    BY <1>4 DEF Doing, Last
  <2>2. work[n] \in Jobs
    BY <1>3, <2>1, InSequence DEF EmitTypes
  <2> QED
    BY <2>1, <2>2 DEF Jobs
<1>6. k \in Sites(g) /\ k \in Nat \ {0} /\ Callee(g, k) \in AllFns /\ Callee(g, k) \in Called(g)
      /\ \A j \in Sites(g) : j \in Nat /\ (j >= work[n].at => k <= j)
  <2>1. k \in Sites(g) /\ \A j \in Sites(g) : j >= work[n].at => k <= j
    BY <1>2 DEF Ahead, NextCall, Last
  <2> QED
    BY <1>5, <2>1, SitesKnown DEF Called, AllFns
<1> DEFINE rest == Past(k)
<1>7. /\ rest \in Seq(Jobs) /\ Len(rest) = n /\ rest[n] = [fn |-> g, at |-> k + 1]
      /\ \A i \in 1..n - 1 : rest[i] = work[i] /\ i \in 1..n
  <2>1. [fn |-> g, at |-> k + 1] \in Jobs
    BY <1>5, <1>6 DEF Jobs
  <2>2. rest = Append(Front(work), [fn |-> g, at |-> k + 1])
    BY DEF Past
  <2> HIDE DEF rest, g
  <2> QED
    BY <1>4, <2>1, <2>2
<1>8. \A i \in 1..n : i = n \/ i \in 1..n - 1
  BY <1>4
<1>9. \A i \in 1..n : rest[i].fn = work[i].fn
  <2> HIDE DEF rest
  <2> QED
    BY <1>5, <1>7, <1>8
<1>10. ASSUME NEW i \in 1..n, NEW j \in Sites(work[i].fn), j < rest[i].at
       PROVE  gen[Callee(work[i].fn, j)] # 0 \/ Callee(work[i].fn, j) = Callee(g, k)
  <2> HIDE DEF rest
  <2>1. CASE i = n
    <3>1. j \in Nat /\ j < k + 1 /\ j \in Sites(g)
      <4>1. j \in Sites(g)
        BY <1>5, <1>10, <2>1
      <4>2. rest[i].at = k + 1
        BY <1>7, <2>1
      <4> HIDE DEF g
      <4> QED
        BY <1>6, <1>10, <4>1, <4>2
    <3>2. CASE j < work[n].at
      BY <1>3, <1>10, <2>1, <3>2 DEF GoneThrough
    <3>3. CASE ~(j < work[n].at)
      <4>1. k <= j
        BY <1>5, <1>6, <3>1, <3>3
      <4>2. j = k
        BY <1>6, <3>1, <4>1
      <4> QED
        BY <1>5, <2>1, <4>2
    <3> QED
      BY <3>2, <3>3
  <2>2. CASE i # n
    <3>1. rest[i] = work[i]
      BY <1>7, <1>8, <2>2
    <3> QED
      BY <1>3, <1>10, <3>1 DEF GoneThrough
  <2> QED
    BY <2>1, <2>2
<1>11. next' \in Nat
  BY <1>1, <1>3 DEF EmitTypes
<1>12. Begin(Callee(g, k), rest)
  BY <1>2
<1> HIDE DEF rest, g
<1>13. Callee(g, k) \in Called(work[n].fn)
  BY <1>5, <1>6
<1> QED
  BY <1>1, <1>6, <1>7, <1>9, <1>10, <1>11, <1>12, <1>13, BeginKeeps

ProgramInv ==
  /\ CheckInv /\ CodeSound
  /\ phase # "bound" => Unemitted
  /\ EmitInv

LEMMA ProgramStarts == ProgramInit => ProgramInv
<1> SUFFICES ASSUME ProgramInit PROVE ProgramInv
  OBVIOUS
<1>1. CheckInv
  BY CheckInit DEF ProgramInit
<1>2. CodeSound
  BY DEF ProgramInit, Init, CodeSound
<1>3. Unemitted
  BY DEF ProgramInit, EmissionInit, Unemitted, InitFn
<1> QED
  BY <1>1, <1>2, <1>3, Fresh DEF ProgramInv

LEMMA ProgramStep == ProgramInv /\ [ProgramNext]_progVars => ProgramInv'
<1> SUFFICES ASSUME ProgramInv, [ProgramNext]_progVars PROVE ProgramInv'
  OBVIOUS
<1>1. CheckInv /\ CodeSound /\ EmitInv /\ prog \in Programs
  BY DEF ProgramInv, CheckInv, CheckTypes
<1>2. CheckInv' /\ CodeSound'
  BY <1>1, OneStep, CheckNext, CodeKept
<1>3. CASE Next /\ UNCHANGED emission
  <2>1. phase # "bound" /\ prog' = prog
    BY <1>3 DEF Next, CheckRoot, CheckInitRef, Checked, Generate, GenInitFn, TouchDirect, TouchMerge, SweepAgain, StartScan,
         Scan, ScanEnds
  <2>2. Unemitted'
    BY <1>3, <2>1 DEF ProgramInv, Unemitted, emission, AllFns, Fns
  <2>3. EmitInv'
    BY <2>2, FreshNext
  <2> QED
    BY <1>2, <2>2, <2>3 DEF ProgramInv
<1>4. CASE GenNext \/ GenCallee \/ GenBody
  <2>1. phase = "bound" /\ phase' = phase
    BY <1>4 DEF GenNext, GenCallee, GenBody, vars
  <2>2. EmitInv'
    BY <1>1, <1>4, NextKeeps, CalleeKeeps, BodyKeeps
  <2> QED
    BY <1>2, <2>1, <2>2 DEF ProgramInv
<1>5. CASE UNCHANGED progVars
  <2>1. UNCHANGED <<prog, code, phase, gen, work, next, clobber, kept>>
    BY <1>5 DEF progVars, vars, generating, emission
  <2>2. phase' # "bound" => Unemitted'
    BY <2>1 DEF ProgramInv, Unemitted, AllFns, Fns
  <2>3. EmitTypes' /\ WorkSound' /\ GoneThrough'
    BY <1>1, <2>1, SameCode DEF EmitInv, EmitTypes, WorkSound, GoneThrough
  <2>4. Untold' /\ Told' /\ Exact'
    BY <1>1, <2>1, SameCode DEF EmitInv, Untold, Told, Exact, CallClobbers
  <2> QED
    BY <1>2, <2>2, <2>3, <2>4 DEF ProgramInv, EmitInv
<1> QED
  BY <1>3, <1>4, <1>5 DEF ProgramNext

(* The functions that clobber no more than one that is called are closed   *)
(* under calls.                                                            *)
LEMMA ClobberedTold ==
  ASSUME prog \in Programs, CodeSound, EmitInv, NEW g \in Fns
  PROVE  Clobbered(g) \cap CallerMask \subseteq clobber[g]
<1> DEFINE S == {h \in AllFns : clobber[h] \subseteq clobber[g]}
<1>1. g \in AllFns /\ EmitTypes /\ Untold /\ Told
  BY DEF AllFns, EmitInv
<1>2. \A h \in AllFns : clobber[h] \subseteq CallerMask /\ gen[h] \in {0, 1, 2}
  BY <1>1 DEF EmitTypes
<1>3. ASSUME NEW h \in S, NEW c \in Called(h) PROVE c \in S /\ Args(c) \cap CallerMask \subseteq clobber[g]
  <2>1. c \in AllFns
    BY <1>3, SitesKnown
  <2>2. PICK k \in Sites(h) : c = Callee(h, k)
    BY <1>3 DEF Called
  <2>3. CASE gen[h] # 2 \/ Skipped(h)
    <3>1. clobber[h] = CallerMask
      BY <1>1, <2>3 DEF Untold
    <3> QED
      BY <1>2, <2>1, <3>1
  <2>4. CASE gen[h] = 2 /\ ~Skipped(h)
    <3>1. CallClobbers(c) \cap CallerMask \subseteq clobber[h]
      BY <1>1, <2>2, <2>4 DEF Told
    <3> QED
      BY <1>2, <2>1, <3>1 DEF CallClobbers
  <2> QED
    BY <2>3, <2>4
<1>4. \A h \in S : Own(h) \cap CallerMask \subseteq clobber[g]
  <2> SUFFICES ASSUME NEW h \in S PROVE Own(h) \cap CallerMask \subseteq clobber[g]
    OBVIOUS
  <2>1. CASE gen[h] # 2 \/ Skipped(h)
    BY <1>1, <2>1 DEF Untold
  <2>2. CASE gen[h] = 2 /\ ~Skipped(h)
    BY <1>1, <2>2 DEF Told
  <2> QED
    BY <2>1, <2>2
<1>5. Closed(S)
  <2>1. \A h \in S : Called(h) \subseteq S
    BY <1>3
  <2> HIDE DEF S
  <2> QED
    BY <2>1 DEF Closed
<1>6. Reached(g) \subseteq S
  <2>1. {g} \subseteq S /\ S \in SUBSET AllFns
    BY <1>1
  <2> HIDE DEF S
  <2> QED
    BY <1>1, <1>5, <2>1, ReachedLeast DEF Reached
<1>7. CASE Reached(g) \cap prog.externs # {}
  <2>1. PICK h \in Reached(g) : h \in prog.externs
    BY <1>7
  <2>2. Skipped(h) /\ h \in S /\ h \in AllFns
    BY <1>6, <2>1 DEF Skipped
  <2>3. clobber[h] = CallerMask
    BY <1>1, <2>2 DEF Untold
  <2> QED
    BY <2>2, <2>3
<1>8. CASE Reached(g) \cap prog.externs = {}
  <2>1. \A h \in S : Writes(h) \cap CallerMask \subseteq clobber[g]
    BY <1>3, <1>4 DEF Writes
  <2>2. Clobbered(g) = UNION {Writes(h) : h \in Reached(g)}
    BY <1>8 DEF Clobbered
  <2> HIDE DEF S
  <2> QED
    BY <1>6, <2>1, <2>2
<1> QED
  BY <1>7, <1>8

LEMMA Known == ProgramInv => ClobbersKnown
<1> SUFFICES ASSUME ProgramInv, NEW f \in AllFns, NEW k \in DOMAIN kept[f]
             PROVE  LET g == Callee(f, k)
                    IN /\ Clobbered(g) \cap CallerMask \subseteq kept[f][k]
                       /\ ~(\E h \in Reached(g) : Recursive(h)) => kept[f][k] = (Clobbered(g) \cap CallerMask) \cup Args(g)
  BY DEF ClobbersKnown
<1> DEFINE g == Callee(f, k)
<1>1. prog \in Programs /\ CodeSound /\ EmitInv /\ EmitTypes /\ Untold /\ Told /\ Exact
  BY DEF ProgramInv, CheckInv, CheckTypes, EmitInv
<1>2. kept[f] # <<>>
  OBVIOUS
<1>3. gen[f] = 2 /\ ~Skipped(f)
  BY <1>1, <1>2 DEF Untold
<1>4. k \in Sites(f) /\ CallClobbers(g) \subseteq kept[f][k]
  BY <1>1, <1>3 DEF Told
<1>5. g \in Fns
  BY <1>1, <1>4, SitesKnown
<1>6. Clobbered(g) \cap CallerMask \subseteq kept[f][k]
  BY <1>1, <1>4, <1>5, ClobberedTold DEF CallClobbers
<1>7. NoCycle(g) => kept[f][k] = (Clobbered(g) \cap CallerMask) \cup Args(g)
  BY <1>1 DEF Exact
<1> QED
  BY <1>6, <1>7 DEF NoCycle

(* For every program: no register in which a caller keeps a value over a   *)
(* call is changed by what the call executes, and without recursion none   *)
(* is avoided needlessly (gen_fn, x86_call_clobbers).                      *)
THEOREM ClobbersAlwaysKnown == Spec => []ClobbersKnown
<1> QED
  BY ProgramStarts, ProgramStep, Known, PTL DEF Spec

=============================================================================
