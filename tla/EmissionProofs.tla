--------------------------- MODULE EmissionProofs ---------------------------
(***************************************************************************)
(* Proofs about code that is emitted: the parallel move planner and what   *)
(* surrounds it, for any number of registers that fits the table, argument *)
(* registers, variables and slots; and divisions by a constant, for words  *)
(* of any width.                                                           *)
(*                                                                         *)
(* The planner is right for any group its callers may build.  The          *)
(* difficulty is swap_cycle, which writes two registers for one move.  It  *)
(* only runs when every destination is still some pending move's source.   *)
(* Destinations are distinct, so by counting the pending sources are       *)
(* exactly the pending destinations (CycleSources): the second register an *)
(* exchange writes is itself a destination that is still to be filled, and *)
(* no bystander is disturbed.                                              *)
(*                                                                         *)
(* Then every value is brought where it is looked for next: the planner's  *)
(* group is a simultaneous assignment (PlanInv), the callers ask only for  *)
(* groups it is right for, and the loops around it do not write what it    *)
(* reads nor read what it writes.                                          *)
(***************************************************************************)
EXTENDS MoveCallers, DivMagic, FiniteSetTheorems, FunctionTheorems,
        WellFoundedInduction, TLAPS

(* A group is a sequence of moves between locations with distinct          *)
(* destinations, and a slot that is written is never read.                 *)
LEMMA GroupShape ==
  ASSUME NEW mv \in PA!Groups
  PROVE  /\ \E n \in Nat : DOMAIN mv = 1..n
         /\ \A k \in DOMAIN mv : mv[k].from \in Locs /\ mv[k].to \in Locs
         /\ \A j, k \in DOMAIN mv : mv[j].to = mv[k].to => j = k
         /\ \A j, k \in DOMAIN mv : mv[j].from = mv[k].to => mv[j].from \in Regs
<1>1. /\ Len(mv) \in Nat /\ DOMAIN mv = 1..Len(mv)
      /\ \A k \in DOMAIN mv : mv[k] \in PA!Move
  BY DEF PA!Groups
<1>2. PA!WellFormed(mv)
  BY DEF PA!Groups
<1> QED
  BY <1>1, <1>2 DEF PA!WellFormed, PA!Move, PA!Locs, Locs

(* The register moves number no more than the registers, so collect_regs   *)
(* never drops one (parallel.c:58-71).                                     *)
LEMMA NothingDropped ==
  ASSUME moves \in PA!Groups
  PROVE  Collected = RegMoves /\ IsFiniteSet(RegMoves)
<1> DEFINE to == [k \in RegMoves |-> moves[k].to]
<1>1. to \in Injection(RegMoves, Regs)
  BY GroupShape DEF Injection, IsInjective, RegMoves, Idx
<1>2. IsFiniteSet(RegMoves) /\ Cardinality(RegMoves) <= Cardinality(Regs)
  BY <1>1, FS_Injection, RegsFit
<1>3. ASSUME NEW k \in RegMoves
      PROVE  Cardinality({m \in RegMoves : m < k}) < PMMaxRegs
  <2> DEFINE B == {m \in RegMoves : m < k}
  <2>1. IsFiniteSet(B) /\ Cardinality(B) <= Cardinality(RegMoves)
    BY <1>2, FS_Subset
  <2>2. k \in Int
    BY GroupShape DEF RegMoves, Idx
  <2>3. B # RegMoves
    BY <2>2
  <2>4. Cardinality(B) # Cardinality(RegMoves)
    BY <1>2, <2>3, FS_Subset
  <2>5. Cardinality(B) \in Nat /\ Cardinality(RegMoves) \in Nat
          /\ Cardinality(Regs) \in Nat
    BY <1>2, <2>1, RegsFit, FS_CardinalityType
  <2> QED
    BY <1>2, <2>1, <2>4, <2>5, RegsFit
<1> QED
  BY <1>2, <1>3 DEF Collected

(* When no pending move is ready, the pending sources are a permutation of *)
(* the pending destinations.                                               *)
LEMMA CycleSources ==
  ASSUME moves \in PA!Groups, done \subseteq Collected, src \in [Idx -> Locs],
         Ready = {}
  PROVE  /\ \A j \in Pending : \E k \in Pending : src[j] = moves[k].to
         /\ \A j, k \in Pending : src[j] = src[k] => j = k
<1> DEFINE F == {src[k] : k \in Pending}
           from == [k \in Pending |-> src[k]]
           to == [k \in Pending |-> moves[k].to]
<1>1. IsFiniteSet(Pending)
  BY NothingDropped, FS_Subset DEF Pending
<1>2. \A j \in Pending : \E k \in Pending : src[k] = moves[j].to
  BY DEF Ready, SourcePending
<1>3. to \in Injection(Pending, F)
  <2>1. to \in [Pending -> F]
    BY <1>2
  <2>2. Pending \subseteq DOMAIN moves
    BY DEF Pending, Collected, RegMoves, Idx
  <2>3. \A j, k \in Pending : moves[j].to = moves[k].to => j = k
    BY <2>2, GroupShape
  <2> QED
    BY <2>1, <2>3 DEF Injection, IsInjective
<1>4. from \in Surjection(Pending, F)
  BY DEF Surjection
<1>5. IsFiniteSet(F) /\ Cardinality(F) <= Cardinality(Pending)
        /\ (Cardinality(F) = Cardinality(Pending) <=> from \in Injection(Pending, F))
  BY <1>1, <1>4, FS_Surjection
<1>6. Cardinality(Pending) <= Cardinality(F)
        /\ (Cardinality(Pending) = Cardinality(F) <=> to \in Surjection(Pending, F))
  BY <1>3, <1>5, FS_Injection
<1>7. Cardinality(Pending) = Cardinality(F)
  BY <1>1, <1>5, <1>6, FS_CardinalityType
<1>8. from \in Injection(Pending, F) /\ to \in Surjection(Pending, F)
  BY <1>5, <1>6, <1>7
<1> QED
  BY <1>8 DEF Injection, IsInjective, Surjection

-----------------------------------------------------------------------------
(* Least picks a member of a non-empty set of indices.                     *)
LEMMA LeastIn ==
  ASSUME moves \in PA!Groups, NEW S \in SUBSET Idx, S # {}
  PROVE  Least(S) \in S
<1>1. S \subseteq Nat
  BY GroupShape DEF Idx
<1>2. \E j \in S : \A k \in S : j <= k
  <2> DEFINE R == OpToRel(<, Nat)
  <2>1. PICK j \in S : \A k \in S : ~ (<<k, j>> \in R)
    BY <1>1, NatLessThanWellFounded, WFMin
  <2>2. \A k \in S : ~ (k < j)
    BY <1>1, <2>1 DEF OpToRel
  <2> QED
    BY <1>1, <2>2
<1> QED
  BY <1>2 DEF Least

-----------------------------------------------------------------------------
(* The three kinds of moves are disjoint sets of indices, and every index  *)
(* is a move between locations.                                            *)
LEMMA MoveKinds ==
  ASSUME moves \in PA!Groups
  PROVE  /\ Effective \subseteq Idx
         /\ StoreMoves \subseteq Nat /\ LoadMoves \subseteq Nat
         /\ \A k \in Idx : k \in Nat /\ moves[k].from \in Locs /\ moves[k].to \in Locs
         /\ \A k \in StoreMoves : k \notin RegMoves /\ k \notin LoadMoves
         /\ \A k \in LoadMoves : k \notin RegMoves
         /\ \A j, k \in Idx : moves[j].to = moves[k].to => j = k
         /\ \A j, k \in Idx : moves[j].from = moves[k].to => moves[j].from \in Regs
         /\ \A n \in Nat \ {0} : n \notin Idx => \A k \in Idx : k < n
<1>1. PICK n \in Nat : Idx = 1..n
  BY GroupShape DEF Idx
<1>2. \A k \in Idx : k \in Nat /\ moves[k].from \in Locs /\ moves[k].to \in Locs
  BY <1>1, GroupShape DEF Idx
<1>3. \A j, k \in Idx : moves[j].to = moves[k].to => j = k
  BY GroupShape DEF Idx
<1>4. \A j, k \in Idx : moves[j].from = moves[k].to => moves[j].from \in Regs
  BY GroupShape DEF Idx
<1>5. Effective \subseteq Idx
  BY DEF Effective, StoreMoves, RegMoves, LoadMoves
<1>6. /\ \A k \in StoreMoves : k \notin RegMoves /\ k \notin LoadMoves
      /\ \A k \in LoadMoves : k \notin RegMoves
  BY LocsDisjoint DEF StoreMoves, RegMoves, LoadMoves
<1>7. \A m \in Nat \ {0} : m \notin Idx => \A k \in Idx : k < m
  BY <1>1
<1>8. StoreMoves \subseteq Nat /\ LoadMoves \subseteq Nat
  BY <1>2 DEF StoreMoves, LoadMoves
<1> QED
  BY <1>2, <1>3, <1>4, <1>5, <1>6, <1>7, <1>8

(* The planner starts in a state where nothing has been emitted.           *)
LEMMA PlanInit == Init => PlanInv
<1> SUFFICES ASSUME Init PROVE PlanInv
  OBVIOUS
<1>1. moves \in PA!Groups /\ phase = "store" /\ at = 1 /\ done = {}
  BY DEF Init, Start
<1>2. \A k \in Idx : k \in Nat /\ moves[k].from \in Locs /\ moves[k].to \in Locs
  BY <1>1, MoveKinds
<1>3. TypeOK
  BY <1>1, <1>2 DEF Init, Start, TypeOK
<1>4. Complete = {}
  <2>1. \A k \in StoreMoves : ~ (k < at)
    <3>1. \A k \in Idx : k \in Nat \ {0}
      BY <1>1, GroupShape DEF Idx
    <3> QED
      BY <1>1, <3>1 DEF StoreMoves
  <2> QED
    BY <1>1, <2>1 DEF Complete
<1>5. SourcesIntact /\ ResultsKept /\ BystandersKept
  <2>1. \A k \in Effective : loc[moves[k].from] = moves[k].from
    BY <1>1, <1>2, MoveKinds DEF Init, Start
  <2> QED
    BY <1>1, <1>4, <2>1 DEF SourcesIntact, ResultsKept, BystandersKept,
       ReadsFrom, Init, Start
<1> QED
  BY <1>1, <1>3, <1>5 DEF PlanInv

-----------------------------------------------------------------------------
(* One lemma per action of the planner.                                    *)
LEMMA StoreStep == PlanInv /\ PlanStore => PlanInv'
<1> SUFFICES ASSUME PlanInv, PlanStore PROVE PlanInv'
  OBVIOUS
<1> USE DEF PlanInv, PlanStore
<1>1. moves \in PA!Groups /\ moves' = moves /\ phase' = phase /\ phase = "store"
        /\ done = {} /\ done' = {} /\ at \in Nat \ {0} /\ at' = at + 1
        /\ loc \in [Locs -> Locs] /\ at \in Idx
  BY DEF TypeOK
<1>2. Effective' = Effective /\ Idx' = Idx /\ RegMoves' = RegMoves
        /\ StoreMoves' = StoreMoves /\ LoadMoves' = LoadMoves /\ Collected' = Collected
  BY <1>1 DEF Effective, Idx, RegMoves, StoreMoves, LoadMoves, Collected
<1>3. Complete = {k \in StoreMoves : k < at}
  BY <1>1 DEF Complete
<1>4. Complete' = {k \in StoreMoves : k < at + 1}
  BY <1>1, <1>2 DEF Complete
<1>5. CASE at \in StoreMoves
  <2>1. loc' = [loc EXCEPT ![moves[at].to] = loc[moves[at].from]]
    BY <1>5
  <2>2. Complete' = Complete \cup {at} /\ at \notin Complete
    <3>1. \A k \in StoreMoves : k < at + 1 <=> (k < at \/ k = at)
      BY <1>1, MoveKinds
    <3>2. ~ (at < at)
      BY <1>1
    <3> HIDE DEF PlanInv, PlanStore
    <3> QED
      BY <1>3, <1>4, <1>5, <3>1, <3>2
  <2>3. \A k \in Idx : moves[k].from # moves[at].to
    BY <1>1, <1>5, MoveKinds, LocsDisjoint DEF StoreMoves
  <2>4. at \in Effective /\ moves[at].from \in Locs /\ moves[at].to \in Locs
    BY <1>1, <1>5, MoveKinds DEF Effective
  <2>5. TypeOK'
    BY <1>1, <1>2, <2>1, <2>4 DEF TypeOK
  <2>6. SourcesIntact'
    <3>1. SUFFICES ASSUME NEW k \in Effective, k \notin Complete'
                   PROVE  loc'[moves[k].from] = moves[k].from
      BY <1>1, <1>2 DEF SourcesIntact, ReadsFrom
    <3>2. k \in Idx /\ moves[k].from \in Locs /\ k \notin Complete
      BY <1>1, <2>2, <3>1, MoveKinds
    <3>3. loc[moves[k].from] = moves[k].from
      BY <1>1, <3>1, <3>2 DEF SourcesIntact, ReadsFrom
    <3> QED
      BY <1>1, <2>1, <2>3, <3>2, <3>3
  <2>7. ResultsKept'
    <3>1. loc[moves[at].from] = moves[at].from
      BY <1>1, <2>2, <2>4 DEF SourcesIntact, ReadsFrom
    <3>2. \A k \in Complete : moves[k].to # moves[at].to /\ moves[k].to \in Locs
      BY <1>1, <1>3, <2>2, MoveKinds DEF Effective
    <3> QED
      BY <1>1, <2>1, <2>2, <2>4, <3>1, <3>2 DEF ResultsKept
  <2>8. BystandersKept'
    BY <1>1, <1>2, <2>1, <2>4 DEF BystandersKept
  <2> QED
    BY <1>1, <2>5, <2>6, <2>7, <2>8
<1>6. CASE at \notin StoreMoves
  <2>1. loc' = loc
    BY <1>6
  <2>2. Complete' = Complete
    <3>1. \A k \in StoreMoves : k < at + 1 <=> (k < at \/ k = at)
      BY <1>1, MoveKinds
    <3> QED
      BY <1>1, <1>3, <1>4, <1>6, <3>1
  <2>3. TypeOK'
    <3> HIDE DEF PlanInv, PlanStore
    <3>1. at' \in Nat \ {0} /\ loc' \in [Locs -> Locs] /\ phase' = "store"
      <4>1. at + 1 \in Nat \ {0}
        BY <1>1
      <4>2. loc' \in [Locs -> Locs]
        BY <1>1, <2>1
      <4> QED
        BY <1>1, <4>1, <4>2
    <3>2. src' = src /\ src \in [Idx -> Locs]
      BY DEF TypeOK, PlanInv, PlanStore
    <3> QED
      BY <1>1, <1>2, <3>1, <3>2 DEF TypeOK
  <2>4. SourcesIntact' /\ ResultsKept' /\ BystandersKept'
    BY <1>1, <1>2, <2>1, <2>2 DEF SourcesIntact, ResultsKept, BystandersKept, ReadsFrom
  <2> QED
    BY <1>1, <2>3, <2>4
<1> QED
  BY <1>5, <1>6

(* From the stores to the moves between registers.                         *)
LEMMA CollectStep == PlanInv /\ CollectRegs => PlanInv'
<1> SUFFICES ASSUME PlanInv, CollectRegs PROVE PlanInv'
  OBVIOUS
<1> USE DEF PlanInv, CollectRegs
<1>1. moves \in PA!Groups /\ moves' = moves /\ phase = "store" /\ phase' = "regs"
        /\ done' = {} /\ at \in Nat \ {0} /\ at' = at /\ at \notin Idx
        /\ loc \in [Locs -> Locs] /\ loc' = loc /\ done = {}
        /\ src' = [k \in Idx |-> moves[k].from]
  BY DEF TypeOK
<1>2. Effective' = Effective /\ Idx' = Idx /\ RegMoves' = RegMoves
        /\ StoreMoves' = StoreMoves /\ LoadMoves' = LoadMoves /\ Collected' = Collected
  BY <1>1 DEF Effective, Idx, RegMoves, StoreMoves, LoadMoves, Collected
<1>3. Complete = StoreMoves
  <2>1. \A k \in StoreMoves : k < at
    BY <1>1, MoveKinds DEF StoreMoves
  <2> QED
    BY <1>1, <2>1 DEF Complete
<1>4. Complete' = StoreMoves
  BY <1>1, <1>2 DEF Complete
<1>5. \A k \in Effective : ReadsFrom(k) = moves[k].from /\ ReadsFrom(k)' = moves[k].from
  BY <1>1, <1>2, MoveKinds DEF ReadsFrom
<1>6. TypeOK'
  BY <1>1, <1>2, MoveKinds DEF TypeOK
<1>7. SourcesIntact' /\ ResultsKept' /\ BystandersKept'
  BY <1>1, <1>2, <1>3, <1>4, <1>5 DEF SourcesIntact, ResultsKept, BystandersKept
<1> QED
  BY <1>1, <1>6, <1>7

(* What both register steps need: while the register moves are planned,    *)
(* the moves still to be made are the pending ones and the loads.          *)
LEMMA RegsPhase ==
  ASSUME PlanInv, phase = "regs"
  PROVE  /\ Complete = StoreMoves \cup done
         /\ Pending = RegMoves \ done
         /\ done \subseteq RegMoves
         /\ \A k \in Pending : loc[src[k]] = moves[k].from /\ src[k] \in Locs
         /\ \A k \in LoadMoves : loc[moves[k].from] = moves[k].from
<1> USE DEF PlanInv, TypeOK
<1>1. Collected = RegMoves
  BY NothingDropped
<1>2. done \subseteq RegMoves
  BY <1>1
<1>3. Complete = StoreMoves \cup done
  BY <1>2 DEF Complete
<1>4. Pending = RegMoves \ done
  BY <1>1 DEF Pending
<1>5. \A k \in Pending : loc[src[k]] = moves[k].from /\ src[k] \in Locs
  <2> TAKE k \in Pending
  <2>1. k \in Effective \ Complete /\ k \in RegMoves
    BY <1>3, <1>4, MoveKinds DEF Effective
  <2>2. src[k] \in Locs
    BY <2>1 DEF RegMoves
  <2> QED
    BY <2>1, <2>2 DEF SourcesIntact, ReadsFrom
<1>6. \A k \in LoadMoves : loc[moves[k].from] = moves[k].from
  <2> TAKE k \in LoadMoves
  <2>1. k \in Effective \ Complete /\ k \notin RegMoves
    BY <1>2, <1>3, MoveKinds DEF Effective
  <2> QED
    BY <2>1 DEF SourcesIntact, ReadsFrom
<1> QED
  BY <1>2, <1>3, <1>4, <1>5, <1>6

(* The conclusion both register steps reach.                               *)
LEMMA RegsPhaseNext ==
  ASSUME PlanInv, phase = "regs", phase' = "regs", moves' = moves,
         at' = at, NEW j \in Pending, done' = done \cup {j},
         src' \in [Idx -> Locs], loc' \in [Locs -> Locs],
         loc'[moves[j].to] = moves[j].from,
         \A k \in Complete : loc'[moves[k].to] = moves[k].from,
         \A k \in Pending \ {j} : loc'[src'[k]] = moves[k].from,
         \A k \in LoadMoves : loc'[moves[k].from] = moves[k].from,
         \A l \in Locs : (\A k \in Effective : moves[k].to # l) => loc'[l] = l
  PROVE  PlanInv'
<1>1. Effective' = Effective /\ Idx' = Idx /\ RegMoves' = RegMoves
        /\ StoreMoves' = StoreMoves /\ LoadMoves' = LoadMoves /\ Collected' = Collected
  BY DEF Effective, Idx, RegMoves, StoreMoves, LoadMoves, Collected
<1>2. moves \in PA!Groups /\ at \in Nat \ {0} /\ done \subseteq Collected
  BY DEF PlanInv, TypeOK
<1>3. j \in Collected /\ j \in RegMoves
  BY DEF Pending, Collected
<1>4. TypeOK'
  BY <1>1, <1>2, <1>3 DEF TypeOK
<1>5. Complete' = Complete \cup {j}
  BY <1>1, <1>3, RegsPhase DEF Complete
<1>6. SourcesIntact'
  <2> SUFFICES ASSUME NEW k \in Effective \ Complete'
               PROVE  loc'[ReadsFrom(k)'] = moves[k].from
    BY <1>1 DEF SourcesIntact
  <2>1. k \notin StoreMoves
    BY <1>5, RegsPhase
  <2>2. CASE k \in RegMoves
    BY <1>1, <1>5, <2>2, RegsPhase DEF ReadsFrom
  <2>3. CASE k \in LoadMoves
    BY <1>1, <1>2, <2>3, MoveKinds DEF ReadsFrom
  <2> QED
    BY <2>1, <2>2, <2>3 DEF Effective
<1>7. ResultsKept'
  BY <1>5 DEF ResultsKept
<1>8. BystandersKept'
  BY <1>1 DEF BystandersKept, Locs
<1> QED
  BY <1>4, <1>6, <1>7, <1>8 DEF PlanInv

(* A move whose destination nobody waits for destroys nothing.             *)
LEMMA ReadyStep == PlanInv /\ MoveReady => PlanInv'
<1> SUFFICES ASSUME PlanInv, MoveReady PROVE PlanInv'
  OBVIOUS
<1>1. /\ phase = "regs" /\ phase' = "regs" /\ moves' = moves /\ at' = at /\ src' = src
      /\ Ready # {}
  BY DEF MoveReady
<1>2. /\ moves \in PA!Groups /\ loc \in [Locs -> Locs] /\ src \in [Idx -> Locs]
      /\ Idx' = Idx
  BY <1>1 DEF PlanInv, TypeOK, Idx
<1> DEFINE j == Least(Ready)
           t == moves[j].to
<1>3. Ready \subseteq Pending /\ Pending \subseteq Idx
  BY DEF Ready, Pending, Collected, RegMoves
<1>4. j \in Ready /\ j \in Pending /\ j \in Idx
  BY <1>1, <1>2, <1>3, LeastIn
<1>5. /\ done' = done \cup {j}
      /\ loc' = IF src[j] # t THEN [loc EXCEPT ![t] = loc[src[j]]] ELSE loc
  BY DEF MoveReady
<1> HIDE DEF j
<1>6. t \in Locs /\ t \in Regs
  BY <1>4, <1>2, MoveKinds DEF Pending, Collected, RegMoves
<1>7. loc' \in [Locs -> Locs] /\ loc'[t] = moves[j].from
        /\ \A l \in Locs : l # t => loc'[l] = loc[l]
  BY <1>1, <1>2, <1>4, <1>5, <1>6, RegsPhase
<1>8. \A k \in Complete : loc'[moves[k].to] = moves[k].from
  <2> TAKE k \in Complete
  <2>1. k # j /\ k \in Idx
    BY <1>1, <1>4, RegsPhase, <1>2, MoveKinds DEF StoreMoves, RegMoves
  <2>2. moves[k].to # t /\ moves[k].to \in Locs
    BY <1>2, <1>4, <2>1, MoveKinds
  <2> QED
    BY <1>7, <2>2 DEF PlanInv, ResultsKept
<1>9. \A k \in Pending \ {j} : loc'[src'[k]] = moves[k].from
  <2> TAKE k \in Pending \ {j}
  <2>1. loc[src[k]] = moves[k].from /\ src[k] \in Locs
    BY <1>1, RegsPhase
  <2>2. CASE src[k] # t
    BY <1>1, <1>7, <2>1, <2>2
  <2>3. CASE src[k] = t
    <3>1. src[j] = t
      BY <1>4, <2>3 DEF Ready, SourcePending
    <3> QED
      BY <1>1, <1>5, <2>1, <3>1
  <2> QED
    BY <2>2, <2>3
<1>10. \A k \in LoadMoves : loc'[moves[k].from] = moves[k].from
  <2> TAKE k \in LoadMoves
  <2>1. moves[k].from \in Locs /\ moves[k].from # t
    BY <1>6, LocsDisjoint DEF LoadMoves, Locs
  <2> QED
    BY <1>1, <1>7, <2>1, RegsPhase
<1>11. \A l \in Locs : (\A k \in Effective : moves[k].to # l) => loc'[l] = l
  <2>1. j \in Effective
    BY <1>4 DEF Pending, Collected, Effective
  <2> QED
    BY <1>7, <2>1 DEF PlanInv, BystandersKept
<1> QED
  BY <1>1, <1>2, <1>4, <1>5, <1>7, <1>8, <1>9, <1>10, <1>11, RegsPhaseNext

(* An exchange makes one move and brings the source of another elsewhere.  *)
LEMMA SwapStep == PlanInv /\ SwapCycle => PlanInv'
<1> SUFFICES ASSUME PlanInv, SwapCycle PROVE PlanInv'
  OBVIOUS
<1>1. /\ phase = "regs" /\ phase' = "regs" /\ moves' = moves /\ at' = at
      /\ Pending # {} /\ Ready = {}
  BY DEF SwapCycle
<1>2. /\ moves \in PA!Groups /\ loc \in [Locs -> Locs] /\ src \in [Idx -> Locs]
      /\ done \subseteq Collected /\ Idx' = Idx
  BY <1>1 DEF PlanInv, TypeOK, Idx
<1> DEFINE j == Least(Pending)
           f == src[j]
           t == moves[j].to
<1>3. Pending \subseteq Idx
  BY DEF Pending, Collected, RegMoves
<1>4. j \in Pending /\ j \in Idx
  BY <1>1, <1>2, <1>3, LeastIn
<1>5. /\ done' = done \cup {j}
      /\ loc' = [loc EXCEPT ![f] = loc[t], ![t] = loc[f]]
      /\ src' = Rewritten(j, f, t)
  BY DEF SwapCycle
<1> HIDE DEF j
<1>6. PICK m \in Pending : f = moves[m].to
  BY <1>1, <1>2, <1>4, CycleSources
<1>7. \A k \in Pending \ {j} : src[k] # f
  BY <1>1, <1>2, <1>4, CycleSources
<1>8. f # t
  BY <1>1, <1>4 DEF Ready
<1>9. f \in Regs /\ t \in Regs /\ f \in Locs /\ t \in Locs
  BY <1>4, <1>6 DEF Pending, Collected, RegMoves, Locs
<1>10. /\ loc' \in [Locs -> Locs] /\ loc'[t] = loc[f] /\ loc'[f] = loc[t]
       /\ \A l \in Locs : l # t /\ l # f => loc'[l] = loc[l]
  BY <1>2, <1>5, <1>8, <1>9
<1>11. loc[f] = moves[j].from
  BY <1>1, <1>4, RegsPhase
<1>12. \A k \in Complete : loc'[moves[k].to] = moves[k].from
  <2> TAKE k \in Complete
  <2>1. k # j /\ k # m /\ k \in Idx
    BY <1>1, <1>4, <1>6, <1>2, RegsPhase, MoveKinds DEF StoreMoves, RegMoves
  <2>2. moves[k].to # t /\ moves[k].to # f /\ moves[k].to \in Locs
    BY <1>2, <1>3, <1>4, <1>6, <2>1, MoveKinds
  <2> QED
    BY <1>10, <2>2 DEF PlanInv, ResultsKept
<1>13. src' \in [Idx -> Locs]
  BY <1>2, <1>5, <1>9 DEF Rewritten
<1>14. \A k \in Pending \ {j} : loc'[src'[k]] = moves[k].from
  <2> TAKE k \in Pending \ {j}
  <2>1. loc[src[k]] = moves[k].from /\ src[k] \in Locs /\ k \in Idx
    BY <1>1, <1>3, RegsPhase
  <2>2. src'[k] = IF src[k] = t THEN f ELSE IF src[k] = f THEN t ELSE src[k]
    BY <1>5, <2>1 DEF Rewritten
  <2> QED
    BY <1>7, <1>10, <2>1, <2>2
<1>15. \A k \in LoadMoves : loc'[moves[k].from] = moves[k].from
  <2> TAKE k \in LoadMoves
  <2>1. moves[k].from \in Locs /\ moves[k].from # t /\ moves[k].from # f
    BY <1>9, LocsDisjoint DEF LoadMoves, Locs
  <2> QED
    BY <1>1, <1>10, <2>1, RegsPhase
<1>16. \A l \in Locs : (\A k \in Effective : moves[k].to # l) => loc'[l] = l
  <2>1. j \in Effective /\ m \in Effective
    BY <1>4, <1>6 DEF Pending, Collected, Effective
  <2> QED
    BY <1>6, <1>10, <2>1 DEF PlanInv, BystandersKept
<1>17. loc'[t] = moves[j].from
  BY <1>10, <1>11
<1>18. done' = done \cup {j}
  BY <1>5
<1> QED
  BY <1>1, <1>4, <1>10, <1>12, <1>13, <1>14, <1>15, <1>16, <1>17, <1>18,
     RegsPhaseNext

(* With no register move pending, every register move has been made.       *)
LEMMA PlannedStep == PlanInv /\ RegsPlanned => PlanInv'
<1> SUFFICES ASSUME PlanInv, RegsPlanned PROVE PlanInv'
  OBVIOUS
<1>1. /\ phase = "regs" /\ phase' = "load" /\ at' = 1 /\ Pending = {}
      /\ moves' = moves /\ src' = src /\ done' = done /\ loc' = loc
  BY DEF RegsPlanned
<1>2. moves \in PA!Groups
  BY DEF PlanInv, TypeOK
<1>3. Effective' = Effective /\ Idx' = Idx /\ RegMoves' = RegMoves
        /\ StoreMoves' = StoreMoves /\ LoadMoves' = LoadMoves /\ Collected' = Collected
  BY <1>1 DEF Effective, Idx, RegMoves, StoreMoves, LoadMoves, Collected
<1>4. done = RegMoves /\ Complete = StoreMoves \cup RegMoves
  BY <1>1, RegsPhase
<1>5. Complete' = StoreMoves \cup RegMoves
  <2>1. \A k \in LoadMoves : ~ (k < 1)
    BY <1>2, MoveKinds, GroupShape DEF LoadMoves, Idx
  <2> QED
    BY <1>1, <1>3, <2>1 DEF Complete
<1>6. TypeOK'
  BY <1>1, <1>3 DEF PlanInv, TypeOK
<1>7. SourcesIntact'
  <2> SUFFICES ASSUME NEW k \in Effective, k \notin Complete'
               PROVE  loc[ReadsFrom(k)'] = moves[k].from
    BY <1>1, <1>3 DEF SourcesIntact
  <2>1. k \in LoadMoves /\ ReadsFrom(k)' = moves[k].from
    BY <1>1, <1>5 DEF Effective, ReadsFrom
  <2> QED
    BY <1>1, <2>1, RegsPhase
<1>8. ResultsKept' /\ BystandersKept'
  BY <1>1, <1>3, <1>4, <1>5 DEF PlanInv, ResultsKept, BystandersKept, Locs
<1> QED
  BY <1>1, <1>6, <1>7, <1>8 DEF PlanInv

(* The loads come when nobody reads a register any more.                   *)
LEMMA LoadStep == PlanInv /\ PlanLoad => PlanInv'
<1> SUFFICES ASSUME PlanInv, PlanLoad PROVE PlanInv'
  OBVIOUS
<1>1. /\ phase = "load" /\ phase' = "load" /\ at \in Idx /\ at' = at + 1
      /\ moves' = moves /\ src' = src /\ done' = done
  BY DEF PlanLoad
<1>2. /\ moves \in PA!Groups /\ at \in Nat \ {0} /\ loc \in [Locs -> Locs]
      /\ src \in [Idx -> Locs] /\ done \subseteq Collected
  BY DEF PlanInv, TypeOK
<1>3. Effective' = Effective /\ Idx' = Idx /\ RegMoves' = RegMoves
        /\ StoreMoves' = StoreMoves /\ LoadMoves' = LoadMoves /\ Collected' = Collected
  BY <1>1 DEF Effective, Idx, RegMoves, StoreMoves, LoadMoves, Collected
<1> DEFINE Made == StoreMoves \cup RegMoves
<1>4. Complete = Made \cup {k \in LoadMoves : k < at}
  BY <1>1 DEF Complete
<1>5. Complete' = Made \cup {k \in LoadMoves : k < at + 1}
  BY <1>1, <1>3 DEF Complete
<1>6. \A k \in LoadMoves : k < at + 1 <=> (k < at \/ k = at)
  BY <1>2, MoveKinds
<1>7. \A k \in Effective \ Complete : loc[moves[k].from] = moves[k].from
  BY <1>1 DEF PlanInv, SourcesIntact, ReadsFrom
<1>8. at + 1 \in Nat \ {0}
  BY <1>2
<1>9. CASE at \in LoadMoves
  <2>1. loc' = [loc EXCEPT ![moves[at].to] = loc[moves[at].from]]
    BY <1>9 DEF PlanLoad
  <2>2. at \notin Made /\ ~ (at < at)
    BY <1>2, <1>9, MoveKinds
  <2>3. Complete' = Complete \cup {at} /\ at \notin Complete
    <3> HIDE DEF Made
    <3> QED
      BY <1>4, <1>5, <1>6, <1>9, <2>2
  <2>4. /\ at \in Effective /\ moves[at].from \in Locs /\ moves[at].to \in Locs
        /\ moves[at].to \in Regs
    BY <1>1, <1>2, <1>9, MoveKinds DEF Effective, LoadMoves
  <2>5. TypeOK'
    <3>1. loc' \in [Locs -> Locs]
      BY <1>2, <2>1, <2>4
    <3> QED
      BY <1>1, <1>2, <1>3, <1>8, <3>1 DEF TypeOK
  <2>6. SourcesIntact'
    <3> SUFFICES ASSUME NEW k \in Effective, k \notin Complete'
                 PROVE  loc'[moves[k].from] = moves[k].from
      BY <1>1, <1>3 DEF SourcesIntact, ReadsFrom
    <3>1. k \in LoadMoves /\ k \notin Complete
      BY <1>4, <2>3 DEF Effective
    <3>2. moves[k].from \in Locs /\ moves[k].from # moves[at].to
      BY <2>4, <3>1, LocsDisjoint DEF LoadMoves, Locs
    <3> QED
      BY <1>2, <1>7, <2>1, <3>1, <3>2
  <2>7. ResultsKept'
    <3>1. loc[moves[at].from] = moves[at].from
      BY <1>7, <2>3, <2>4
    <3>2. \A k \in Complete : moves[k].to # moves[at].to /\ moves[k].to \in Locs
      <4> TAKE k \in Complete
      <4>1. k # at /\ k \in Idx
        BY <1>2, <1>4, <2>3, MoveKinds DEF Effective
      <4> QED
        BY <1>1, <1>2, <4>1, MoveKinds
    <3>3. \A k \in Complete : loc'[moves[k].to] = moves[k].from
      BY <1>2, <2>1, <3>2 DEF PlanInv, ResultsKept
    <3> QED
      BY <1>1, <1>2, <2>1, <2>3, <2>4, <3>1, <3>3 DEF ResultsKept
  <2>8. BystandersKept'
    BY <1>1, <1>2, <1>3, <2>1, <2>4 DEF PlanInv, BystandersKept, Locs
  <2> QED
    BY <1>1, <2>5, <2>6, <2>7, <2>8 DEF PlanInv
<1>10. CASE at \notin LoadMoves
  <2>1. loc' = loc
    BY <1>10 DEF PlanLoad
  <2>2. Complete' = Complete
    BY <1>4, <1>5, <1>6, <1>10
  <2>3. TypeOK'
    BY <1>1, <1>2, <1>3, <1>8, <2>1 DEF TypeOK
  <2>4. SourcesIntact'
    BY <1>1, <1>3, <1>7, <2>1, <2>2 DEF SourcesIntact, ReadsFrom
  <2>5. ResultsKept' /\ BystandersKept'
    BY <1>1, <1>3, <2>1, <2>2 DEF PlanInv, ResultsKept, BystandersKept, Locs
  <2> QED
    BY <1>1, <2>3, <2>4, <2>5 DEF PlanInv
<1> QED
  BY <1>9, <1>10

(* When the loads are done, every effective move has been made.            *)
LEMMA FinishStep == PlanInv /\ Finish => PlanInv' /\ Complete = Effective
<1> SUFFICES ASSUME PlanInv, Finish PROVE PlanInv' /\ Complete = Effective
  OBVIOUS
<1>1. /\ phase = "load" /\ phase' = "done" /\ at \notin Idx
      /\ moves' = moves /\ at' = at /\ src' = src /\ done' = done /\ loc' = loc
  BY DEF Finish
<1>2. moves \in PA!Groups /\ at \in Nat \ {0}
  BY DEF PlanInv, TypeOK
<1>3. Effective' = Effective /\ Idx' = Idx /\ RegMoves' = RegMoves
        /\ StoreMoves' = StoreMoves /\ LoadMoves' = LoadMoves /\ Collected' = Collected
  BY <1>1 DEF Effective, Idx, RegMoves, StoreMoves, LoadMoves, Collected
<1>4. \A k \in LoadMoves : k < at
  BY <1>1, <1>2, MoveKinds DEF LoadMoves
<1>5. Complete = Effective /\ Complete' = Effective
  BY <1>1, <1>3, <1>4 DEF Complete, Effective
<1>6. TypeOK'
  BY <1>1, <1>3 DEF PlanInv, TypeOK
<1>7. SourcesIntact' /\ ResultsKept' /\ BystandersKept'
  BY <1>1, <1>3, <1>5 DEF PlanInv, SourcesIntact, ResultsKept, BystandersKept, Locs
<1> QED
  BY <1>1, <1>5, <1>6, <1>7 DEF PlanInv

(* The invariant only reads the variables of the planner.                  *)
LEMMA IdleStep == PlanInv /\ UNCHANGED vars => PlanInv'
<1> SUFFICES ASSUME PlanInv, UNCHANGED vars PROVE PlanInv'
  OBVIOUS
<1>1. /\ moves' = moves /\ phase' = phase /\ at' = at
      /\ src' = src /\ done' = done /\ loc' = loc
  BY DEF vars
<1>2. Effective' = Effective /\ Idx' = Idx /\ RegMoves' = RegMoves
        /\ StoreMoves' = StoreMoves /\ LoadMoves' = LoadMoves /\ Collected' = Collected
  BY <1>1 DEF Effective, Idx, RegMoves, StoreMoves, LoadMoves, Collected
<1>3. Complete' = Complete
  BY <1>1, <1>2 DEF Complete
<1>4. TypeOK'
  BY <1>1, <1>2 DEF PlanInv, TypeOK
<1>5. SourcesIntact' /\ ResultsKept' /\ BystandersKept'
  BY <1>1, <1>2, <1>3 DEF PlanInv, SourcesIntact, ResultsKept, BystandersKept,
     ReadsFrom, Locs
<1> QED
  BY <1>1, <1>4, <1>5 DEF PlanInv

(* The planner's invariant holds in every state it reaches.                *)
THEOREM PlanCorrect == Spec => []PlanInv
<1>1. PlanInv /\ [Next]_vars => PlanInv'
  BY StoreStep, CollectStep, ReadyStep, SwapStep, PlannedStep, LoadStep,
     FinishStep, IdleStep DEF Next
<1> QED
  BY PlanInit, <1>1, PTL DEF Spec

(* Every variable of the planner keeps its type (parallel.c:5-21).         *)
THEOREM TypeCorrect == Spec => []TypeOK
<1>1. PlanInv => TypeOK
  BY DEF PlanInv
<1> QED
  BY PlanCorrect, <1>1, PTL

(* No emitted instruction destroys a value that is still to be moved       *)
(* (parallel.c:50-141), for any number of registers, slots and moves.      *)
THEOREM SourcesSafe == Spec => []SourcesIntact
<1>1. PlanInv => SourcesIntact
  BY DEF PlanInv
<1> QED
  BY PlanCorrect, <1>1, PTL

(* Nothing emitted later destroys a move that was made, in particular not  *)
(* the exchange of a cycle (parallel.c:107-120).                           *)
THEOREM ResultsSafe == Spec => []ResultsKept
<1>1. PlanInv => ResultsKept
  BY DEF PlanInv
<1> QED
  BY PlanCorrect, <1>1, PTL

(* No register or slot outside the group's destinations ever changes.      *)
THEOREM BystandersSafe == Spec => []BystandersKept
<1>1. PlanInv => BystandersKept
  BY DEF PlanInv
<1> QED
  BY PlanCorrect, <1>1, PTL

-----------------------------------------------------------------------------
(* When every effective move is complete the contents are those of the     *)
(* simultaneous assignment; a move of a location to itself changes nothing.*)
LEMMA DoneAssigned ==
  ASSUME PlanInv, Complete = Effective
  PROVE  loc = [l \in Locs |-> PA!Assigned(moves, l)]
<1>1. moves \in PA!Groups /\ loc \in [Locs -> Locs]
  BY DEF PlanInv, TypeOK
<1>2. ASSUME NEW l \in Locs PROVE loc[l] = PA!Assigned(moves, l)
  <2>1. CASE \E k \in Idx : moves[k].to = l
    <3>1. PICK k \in Idx : moves[k].to = l
      BY <2>1
    <3>2. (CHOOSE i \in DOMAIN moves : moves[i].to = l) = k
      BY <1>1, <3>1, MoveKinds DEF Idx
    <3>3. PA!Assigned(moves, l) = moves[k].from
      BY <3>1, <3>2 DEF PA!Assigned, Idx
    <3>4. CASE k \in Effective
      BY <3>1, <3>3, <3>4 DEF PlanInv, ResultsKept
    <3>5. CASE k \notin Effective
      <4>1. moves[k] \in PA!Move
        BY <1>1, <3>1 DEF PA!Groups, Idx
      <4>2. moves[k].from = l
        BY <3>1, <3>5, <4>1 DEF PA!Move, PA!Locs, Effective, StoreMoves,
           RegMoves, LoadMoves
      <4>3. \A i \in Effective : moves[i].to # l
        BY <1>1, <3>1, <3>5, MoveKinds
      <4> QED
        BY <3>3, <4>2, <4>3 DEF PlanInv, BystandersKept
    <3> QED
      BY <3>4, <3>5
  <2>2. CASE ~ \E k \in Idx : moves[k].to = l
    <3>1. \A k \in Effective : moves[k].to # l
      BY <1>1, <2>2, MoveKinds
    <3> QED
      BY <2>2, <3>1 DEF PlanInv, BystandersKept, PA!Assigned, Idx
  <2> QED
    BY <2>1, <2>2
<1> QED
  BY <1>1, <1>2

(* The step that finishes makes the assignment, the others stutter.        *)
LEMMA PlanStepsImplement == PlanInv /\ [Next]_vars => [PA!Next]_(PA!vars)
<1> SUFFICES ASSUME PlanInv, [Next]_vars PROVE [PA!Next]_(PA!vars)
  OBVIOUS
<1>1. CASE Finish
  <2>1. loc' = [l \in Locs |-> PA!Assigned(moves, l)]
    BY <1>1, FinishStep, DoneAssigned DEF Finish
  <2> QED
    BY <1>1, <2>1 DEF Finish, PA!Next, PA!Assign, PA!Locs, Locs
<1>2. CASE Next /\ ~Finish
  <2>1. phase # "done" /\ phase' # "done" /\ moves' = moves
    BY <1>2 DEF Next, PlanStore, CollectRegs, MoveReady, SwapCycle,
       RegsPlanned, PlanLoad
  <2> QED
    BY <2>1 DEF PA!vars
<1>3. CASE UNCHANGED vars
  BY <1>3 DEF vars, PA!vars
<1> QED
  BY <1>1, <1>2, <1>3

(* The planned sequence implements the simultaneous assignment of          *)
(* ParallelAssign: its last step is the assignment, the others stutter.    *)
THEOREM Implements == Spec => Parallel
<1>1. Init => PA!Init
  BY DEF Init, Start, PA!Init, PA!Locs
<1> QED
  BY <1>1, PlanStepsImplement, PlanCorrect, PTL DEF Spec, Parallel, PA!Spec

-----------------------------------------------------------------------------
(* Around the planner: parameters, arguments and edges.                    *)

(* The members of a finite set of numbers in their order: each once.       *)
LEMMA InOrderLists ==
  ASSUME NEW S \in SUBSET Nat, IsFiniteSet(S)
  PROVE  /\ Cardinality(S) \in Nat
         /\ DOMAIN InOrder(S) = 1..Cardinality(S)
         /\ \A k \in 1..Cardinality(S) : InOrder(S)[k] \in S
         /\ \A j, k \in 1..Cardinality(S) : InOrder(S)[j] = InOrder(S)[k] => j = k
         /\ \A v \in S : \E k \in 1..Cardinality(S) : InOrder(S)[k] = v
<1> DEFINE Upto(v) == {w \in S : w <= v}
           n == Cardinality(S)
           rank == [v \in S |-> Cardinality(Upto(v))]
<1>1. n \in Nat
  BY FS_CardinalityType
<1>2. \A v \in S : IsFiniteSet(Upto(v)) /\ Cardinality(Upto(v)) \in 1..n
  <2> TAKE v \in S
  <2>1. IsFiniteSet(Upto(v)) /\ Cardinality(Upto(v)) <= n /\ Cardinality(Upto(v)) \in Nat
    BY FS_Subset, FS_CardinalityType
  <2>2. v \in Upto(v)
    OBVIOUS
  <2>3. Cardinality(Upto(v)) # 0
    BY <2>1, <2>2, FS_EmptySet
  <2> QED
    BY <1>1, <2>1, <2>3
<1>3. \A v, w \in S : v < w => Cardinality(Upto(v)) # Cardinality(Upto(w))
  <2> TAKE v, w \in S
  <2> HAVE v < w
  <2>1. v \in Nat /\ w \in Nat /\ \A x \in S : x \in Nat
    OBVIOUS
  <2>2. \A x \in S : x <= v => x <= w
    BY <2>1
  <2> HIDE DEF n, rank
  <2>3. Upto(v) \subseteq Upto(w)
    BY <2>2
  <2>4. w \in Upto(w) /\ w \notin Upto(v)
    BY <2>1
  <2> QED
    BY <1>2, <2>3, <2>4, FS_Subset
<1>4. \A v, w \in S : rank[v] = rank[w] => v = w
  <2> TAKE v, w \in S
  <2>1. v < w \/ w < v \/ v = w
    OBVIOUS
  <2> QED
    BY <1>3, <2>1
<1>5. rank \in Surjection(S, 1..n)
  <2>1. rank \in Injection(S, 1..n)
    BY <1>2, <1>4 DEF Injection, IsInjective
  <2>2. IsFiniteSet(1..n) /\ Cardinality(1..n) = n
    BY <1>1, FS_Interval
  <2> HIDE DEF rank
  <2> QED
    BY <2>1, <2>2, FS_Injection
<1>6. \A k \in 1..n : \E v \in S : Cardinality(Upto(v)) = k
  BY <1>5 DEF Surjection
<1> DEFINE nth(k) == CHOOSE v \in S : Cardinality(Upto(v)) = k
<1>7. \A k \in 1..n : nth(k) \in S /\ Cardinality(Upto(nth(k))) = k
  BY <1>6
<1>8. InOrder(S) = [k \in 1..n |-> nth(k)]
  BY DEF InOrder
<1>9. \A v \in S : Cardinality(Upto(v)) \in 1..n /\ nth(Cardinality(Upto(v))) = v
  <2> TAKE v \in S
  <2>1. Cardinality(Upto(v)) \in 1..n
    BY <1>2
  <2> HIDE DEF nth
  <2> QED
    BY <1>4, <1>7, <2>1
<1> HIDE DEF nth, Upto, n
<1> QED
  BY <1>1, <1>7, <1>8, <1>9 DEF n
-----------------------------------------------------------------------------
(* The variables are the numbers from one.                                 *)
LEMMA VregsAre ==
  /\ Len(SpillSlots) \in Nat /\ Vregs = 1 .. Len(SpillSlots)
  /\ Len(ArgRegs) \in Nat /\ DOMAIN ArgRegs = 1 .. Len(ArgRegs)
  /\ Len(InSlots) \in Nat /\ DOMAIN InSlots = 1 .. Len(InSlots)
  /\ DOMAIN OutSlots = 1 .. Len(InSlots)
  /\ \A k \in DOMAIN ArgRegs : ArgRegs[k] \in CallerSaved /\ ArgRegs[k] \in Regs
  /\ \A k \in DOMAIN InSlots : InSlots[k] \in Slots /\ OutSlots[k] \in Slots
  /\ \A v \in Vregs : SpillSlots[v] \in Slots
  /\ \A r \in Regs : SaveSlots[r] \in Slots
  /\ \A l \in Slots : l \notin Regs
BY CallersAssumption, LocsDisjoint DEF Vregs

(* A variable is in its register, or in the slot of the value it stands for.*)
LEMMA Places ==
  ASSUME NEW h \in Homes, NEW v \in Vregs
  PROVE  /\ Value(v) \in Vregs /\ Place(h, v) \in Locs
         /\ h[v] = SPILL => Place(h, v) = SpillSlots[Value(v)] /\ Place(h, v) \in Slots
         /\ h[v] # SPILL => Place(h, v) = h[v] /\ Place(h, v) \in Regs
         /\ ~twin => Value(v) = v
<1>1. Value(v) \in Vregs
  BY VregsAre DEF Value
<1>2. Place(h, v) = IF h[v] = SPILL THEN SpillSlots[Value(v)] ELSE h[v]
  BY DEF Place, Value
<1>3. h[v] \in Regs \cup {SPILL} /\ (~twin => Value(v) = v)
  BY DEF Homes, Value
<1> QED
  BY <1>1, <1>2, <1>3, VregsAre DEF Locs

(* Two variables in one place stand for one value, or share a register.    *)
LEMMA OnePlace ==
  ASSUME NEW h \in Homes, NEW v \in Vregs, NEW w \in Vregs, Place(h, v) = Place(h, w)
  PROVE  Value(v) = Value(w) \/ (h[v] # SPILL /\ h[v] = h[w])
<1>1. CASE h[v] = SPILL /\ h[w] = SPILL
  BY <1>1, Places, FrameLayout DEF IsInjective, Vregs
<1>2. CASE h[v] = SPILL /\ h[w] # SPILL
  BY <1>2, Places, VregsAre
<1>3. CASE h[v] # SPILL
  BY <1>3, Places, VregsAre
<1> QED
  BY <1>1, <1>2, <1>3

(* Places of variables that are apart tell the values apart.               *)
LEMMA ApartPlaces ==
  ASSUME NEW h \in Homes, NEW vs \in SUBSET Vregs, Apart(h, vs)
  PROVE  \A v, w \in vs : Place(h, v) = Place(h, w) => Value(v) = Value(w)
BY OnePlace DEF Apart

(* The machine that holds vs at home does so.                              *)
LEMMA HoldingHolds ==
  ASSUME home \in Homes, NEW vs \in SUBSET Vregs, Apart(home, vs)
  PROVE  /\ Holding(vs) \in [Locs -> Vregs \cup {NOTHING}]
         /\ \A v \in vs : Holding(vs)[Place(home, v)] = Value(v)
<1> DEFINE who(l) == CHOOSE v \in vs : Place(home, v) = l
<1>1. \A l \in Locs : (\E v \in vs : Place(home, v) = l) => who(l) \in vs /\ Place(home, who(l)) = l
  OBVIOUS
<1>2. \A v \in vs : Value(v) \in Vregs /\ Place(home, v) \in Locs
  BY Places
<1>3. Holding(vs) = [l \in Locs |-> IF \E v \in vs : Place(home, v) = l THEN Value(who(l)) ELSE NOTHING]
  BY DEF Holding
<1> HIDE DEF who
<1>4. \A v \in vs : Value(who(Place(home, v))) = Value(v)
  BY <1>1, <1>2, ApartPlaces
<1> QED
  BY <1>1, <1>2, <1>3, <1>4

-----------------------------------------------------------------------------
(* When the planner has finished, every move of the group is made and      *)
(* nothing else has changed.                                               *)
LEMMA GroupMade ==
  ASSUME PlanInv, phase = "done"
  PROVE  /\ loc \in [Locs -> Locs]
         /\ \A k \in Idx : loc[moves[k].to] = moves[k].from
         /\ \A l \in Locs : (\A k \in Idx : moves[k].to # l) => loc[l] = l
<1>1. moves \in PA!Groups /\ loc \in [Locs -> Locs]
  BY DEF PlanInv, TypeOK
<1>2. Complete = Effective
  BY <1>1 DEF Complete, Effective
<1>3. loc = [l \in Locs |-> PA!Assigned(moves, l)]
  BY <1>2, DoneAssigned
<1>4. ASSUME NEW k \in Idx PROVE loc[moves[k].to] = moves[k].from
  <2>1. moves[k].to \in Locs
    BY <1>1, MoveKinds
  <2>2. (CHOOSE i \in DOMAIN moves : moves[i].to = moves[k].to) = k
    BY <1>1, MoveKinds DEF Idx
  <2> QED
    BY <1>3, <2>1, <2>2 DEF PA!Assigned, Idx
<1>5. \A l \in Locs : (\A k \in Idx : moves[k].to # l) => loc[l] = l
  BY <1>3 DEF PA!Assigned, Idx
<1> QED
  BY <1>1, <1>4, <1>5

\* the moves of the members of S, from and to what F and T say
Listed(S, F, T) ==
  [k \in DOMAIN InOrder(S) |-> [from |-> F[InOrder(S)[k]], to |-> T[InOrder(S)[k]]]]

(* The planner is right for such a group when T is one-to-one and no slot  *)
(* is both read and written.                                               *)
LEMMA ListedGroup ==
  ASSUME NEW S \in SUBSET Nat, IsFiniteSet(S), NEW F \in [S -> Locs], NEW T \in [S -> Locs],
         \A v \in S : F[v] \in Regs \/ T[v] \in Regs,
         \A v, w \in S : T[v] = T[w] => v = w,
         \A v, w \in S : F[v] = T[w] => F[v] \in Regs
  PROVE  Listed(S, F, T) \in PA!Groups
<1> DEFINE c == InOrder(S)
           n == Cardinality(S)
<1>1. /\ n \in Nat /\ DOMAIN c = 1..n
      /\ \A k \in 1..n : c[k] \in S
      /\ \A j, k \in 1..n : c[j] = c[k] => j = k
  BY InOrderLists
<1>2. Listed(S, F, T) = [k \in DOMAIN c |-> [from |-> F[c[k]], to |-> T[c[k]]]]
  BY DEF Listed
<1> HIDE DEF c, n
<1> DEFINE g == [k \in 1..n |-> [from |-> F[c[k]], to |-> T[c[k]]]]
<1>3. \A k \in 1..n : g[k] \in PA!Move
  BY <1>1 DEF PA!Move, PA!Locs, Locs
<1>4. g \in Seq(PA!Move)
  <2> DEFINE M == PA!Move
  <2>1. g \in [1..n -> M]
    <3> HIDE DEF M
    <3>1. \A k \in 1..n : [from |-> F[c[k]], to |-> T[c[k]]] \in M
      BY <1>3 DEF M
    <3> QED
      BY <3>1
  <2> HIDE DEF M, g
  <2>2. g \in Seq(M)
    BY <1>1, <2>1
  <2> QED
    BY <2>2 DEF M
<1>5. PA!WellFormed(g)
  <2>1. DOMAIN g = 1..n /\ \A k \in 1..n : g[k].from = F[c[k]] /\ g[k].to = T[c[k]]
    OBVIOUS
  <2> HIDE DEF g
  <2>2. \A j, k \in 1..n : g[j].to = g[k].to => j = k
    <3> TAKE j, k \in 1..n
    <3>1. c[j] \in S /\ c[k] \in S
      BY <1>1
    <3>2. T[c[j]] = T[c[k]] => c[j] = c[k]
      BY <3>1
    <3> QED
      BY <1>1, <2>1, <3>2
  <2>3. \A j, k \in 1..n : g[j].from = g[k].to => g[j].from \in Regs
    <3> TAKE j, k \in 1..n
    <3>1. c[j] \in S /\ c[k] \in S
      BY <1>1
    <3>2. F[c[j]] = T[c[k]] => F[c[j]] \in Regs
      BY <3>1
    <3> QED
      BY <2>1, <3>2
  <2> QED
    BY <2>1, <2>2, <2>3 DEF PA!WellFormed
<1>6. Listed(S, F, T) = g
  BY <1>1, <1>2
<1> HIDE DEF g
<1> QED
  BY <1>4, <1>5, <1>6 DEF PA!Groups

(* What such a group does.                                                 *)
LEMMA ListedMade ==
  ASSUME PlanInv, phase = "done",
         NEW S \in SUBSET Nat, IsFiniteSet(S), NEW F \in [S -> Locs], NEW T \in [S -> Locs],
         moves = Listed(S, F, T)
  PROVE  /\ loc \in [Locs -> Locs]
         /\ \A v \in S : loc[T[v]] = F[v]
         /\ \A l \in Locs : (\A v \in S : T[v] # l) => loc[l] = l
<1> DEFINE c == InOrder(S)
           n == Cardinality(S)
<1>1. /\ n \in Nat /\ DOMAIN c = 1..n
      /\ \A k \in 1..n : c[k] \in S
      /\ \A v \in S : \E k \in 1..n : c[k] = v
  BY InOrderLists
<1>2. moves = [k \in 1..n |-> [from |-> F[c[k]], to |-> T[c[k]]]]
  BY <1>1 DEF Listed
<1> HIDE DEF c, n
<1>3. Idx = 1..n /\ \A k \in Idx : moves[k].from = F[c[k]] /\ moves[k].to = T[c[k]]
  BY <1>2 DEF Idx
<1>4. \A v \in S : loc[T[v]] = F[v]
  <2> TAKE v \in S
  <2>1. PICK k \in 1..n : c[k] = v
    BY <1>1
  <2> QED
    BY <1>3, <2>1, GroupMade
<1>5. ASSUME NEW l \in Locs, \A v \in S : T[v] # l PROVE loc[l] = l
  <2>1. \A k \in Idx : moves[k].to # l
    <3> TAKE k \in Idx
    <3>1. c[k] \in S
      BY <1>1, <1>3
    <3>2. T[c[k]] # l
      BY <1>5, <3>1
    <3> QED
      BY <1>3, <3>2
  <2> QED
    BY <2>1, GroupMade
<1> QED
  BY <1>4, <1>5, GroupMade

-----------------------------------------------------------------------------
(* The inductive invariant. For each of the three places it has a part     *)
(* that nothing changes (who lives where, and the group that was asked     *)
(* for) and a part that says where the values are at every stage.          *)
ParamsFrame ==
  /\ job = "params" /\ ~twin /\ call = NoCall /\ there = home
  /\ used \subseteq Vregs /\ live = used /\ home \in Homes
  /\ \A v, w \in used : v # w => home[v] = SPILL \/ home[v] # home[w]
  /\ moves = BuildParamMoves

ParamsMem ==
  /\ stage \in {"plan", "planned"} /\ next \in Nat /\ next > Len(ArgRegs)
  /\ next <= Len(ArgRegs) + Len(InSlots) + 1
  /\ stage = "plan" => next = Len(ArgRegs) + 1 /\ \A v \in Vregs : mem[Arrives(v)] = v
  /\ stage = "planned" =>
       /\ \A v \in used : v < next => mem[Place(home, v)] = v
       /\ \A v \in Vregs : v >= next => mem[Arrives(v)] = v

ArgsFrame ==
  /\ job = "args" /\ ~twin /\ used = Vregs /\ there = home
  /\ call.argv \in Seq(ArgVregs \cup {CONST})
  /\ Len(call.argv) <= Len(ArgRegs) + Len(OutSlots)
  /\ call.dst \in ArgVregs \cup {CONST} /\ call.tail \in BOOLEAN
  /\ Rax \in call.clob /\ call.clob \subseteq CallerSaved
  /\ live \subseteq ArgVregs \ {call.dst} /\ (call.tail => live = {})
  /\ home \in Homes
  /\ Apart(home, live \cup ArgSources) /\ Apart(home, (live \cup {call.dst}) \cap Vregs)
  /\ moves = BuildArgMoves

ArgsMem ==
  /\ stage \in {"save", "stack", "plan", "planned", "call", "returned", "end"}
  /\ next \in Nat /\ next > Len(ArgRegs) /\ next <= Len(ArgRegs) + Len(InSlots) + 1
  /\ stage \in {"returned", "end"} => ~call.tail
  /\ stage \in {"save", "stack", "plan"} =>
       \A v \in live \cup ArgSources : mem[Place(home, v)] = v
  /\ stage # "save" => \A v \in live : home[v] \in Saved => mem[SaveSlots[home[v]]] = v
  /\ stage \in {"planned", "call", "returned"} =>
       \A v \in live : home[v] \notin Saved => mem[Place(home, v)] = v
  /\ stage = "save" => next = Len(ArgRegs) + 1
  /\ stage \in {"stack", "plan", "planned", "call"} =>
       \A k \in DOMAIN call.argv : k \notin InRegs /\ k < next => mem[GoesTo(k)] = call.argv[k]
  /\ stage \in {"plan", "planned", "call"} => next \notin DOMAIN call.argv
  /\ stage \in {"planned", "call"} =>
       \A k \in InRegs : call.argv[k] # CONST => mem[ArgRegs[k]] = call.argv[k]
  /\ stage = "call" => \A k \in InRegs : call.argv[k] = CONST => mem[ArgRegs[k]] = CONST
  /\ stage = "returned" => mem[Rax] = RESULT
  /\ CallKeepsLive

EdgeFrame ==
  /\ job = "edge" /\ twin \in BOOLEAN /\ used = Vregs /\ call = NoCall
  /\ live \subseteq Vregs /\ home \in Homes /\ there \in Homes
  /\ Apart(home, live) /\ Apart(there, live)
  /\ twin => home[1] = home[2] /\ there[1] = there[2]
  /\ moves = BuildEdgeMoves

EdgeMem ==
  /\ stage \in {"plan", "planned"} /\ next = 1
  /\ stage = "plan" => \A v \in live : mem[Place(home, v)] = Value(v)
  /\ stage = "planned" => \A v \in live : mem[Place(there, v)] = Value(v)

CallersInv ==
  /\ PlanInv
  /\ mem \in [Locs -> Vregs \cup {CONST, NOTHING, RESULT}]
  /\ \/ ParamsFrame /\ ParamsMem
     \/ ArgsFrame /\ ArgsMem
     \/ EdgeFrame /\ EdgeMem

-----------------------------------------------------------------------------
(* The group of each place, as a list.                                     *)
ParamSet == RegParams \cap used
ParamFrom == [v \in ParamSet |-> ArgRegs[v]]
ParamTo == [v \in ParamSet |-> Place(home, v)]

ArgSet == {k \in InRegs : call.argv[k] # CONST}
ArgFrom == [k \in ArgSet |-> Place(home, call.argv[k])]
ArgTo == [k \in ArgSet |-> ArgRegs[k]]

EdgeSet == {v \in live : home[v] # there[v] /\ ~EdgeMoveSeen(v)}
EdgeFrom == [v \in EdgeSet |-> Place(home, v)]
EdgeTo == [v \in EdgeSet |-> Place(there, v)]

(* A set of variables is a finite set of numbers.                          *)
LEMMA FiniteVregs == Vregs \subseteq Nat /\ \A S \in SUBSET Vregs : S \in SUBSET Nat /\ IsFiniteSet(S)
<1>1. PICK m \in Nat : Vregs = 1..m
  BY VregsAre
<1>2. IsFiniteSet(1..m)
  BY FS_Interval
<1>3. IsFiniteSet(Vregs) /\ Vregs \subseteq Nat
  BY <1>1, <1>2
<1> QED
  BY <1>3, FS_Subset

(* The moves of the parameters: distinct homes, and no slot is read.       *)
LEMMA ParamsGroup ==
  ParamsFrame =>
    /\ ParamSet \in SUBSET Nat /\ IsFiniteSet(ParamSet)
    /\ ParamFrom \in [ParamSet -> Locs] /\ ParamTo \in [ParamSet -> Locs]
    /\ moves = Listed(ParamSet, ParamFrom, ParamTo) /\ moves \in PA!Groups
<1> SUFFICES ASSUME ParamsFrame
             PROVE  /\ ParamSet \in SUBSET Nat /\ IsFiniteSet(ParamSet)
                    /\ ParamFrom \in [ParamSet -> Locs] /\ ParamTo \in [ParamSet -> Locs]
                    /\ moves = Listed(ParamSet, ParamFrom, ParamTo) /\ moves \in PA!Groups
  OBVIOUS
<1>1. ParamSet \subseteq Vregs /\ ParamSet \subseteq used /\ ParamSet \in SUBSET Nat /\ IsFiniteSet(ParamSet)
  BY FiniteVregs DEF ParamSet, RegParams
<1>2. \A v \in ParamSet : v \in DOMAIN ArgRegs /\ ArgRegs[v] \in Regs /\ ArgRegs[v] \in Locs
  BY VregsAre DEF ParamSet, RegParams, Locs
<1>3. home \in Homes /\ ~twin /\ \A v \in ParamSet : Place(home, v) \in Locs
  BY <1>1, Places DEF ParamsFrame
<1>4. ParamFrom \in [ParamSet -> Locs] /\ ParamTo \in [ParamSet -> Locs]
  BY <1>2, <1>3 DEF ParamFrom, ParamTo
<1>5. \A v, w \in ParamSet : ParamTo[v] = ParamTo[w] => v = w
  BY <1>1, <1>3, Places, OnePlace DEF ParamTo, ParamsFrame
<1>6. \A v \in ParamSet : ParamFrom[v] \in Regs
  BY <1>2 DEF ParamFrom
<1>7. moves = Listed(ParamSet, ParamFrom, ParamTo)
  <2>1. \A k \in DOMAIN InOrder(ParamSet) : InOrder(ParamSet)[k] \in ParamSet
    BY <1>1, InOrderLists
  <2>2. moves = [k \in DOMAIN InOrder(ParamSet) |->
                   [from |-> ArgRegs[InOrder(ParamSet)[k]],
                    to |-> Place(home, InOrder(ParamSet)[k])]]
    BY DEF ParamsFrame, BuildParamMoves, ParamSet
  <2> QED
    BY <2>1, <2>2 DEF Listed, ParamFrom, ParamTo
<1> QED
  BY <1>1, <1>4, <1>5, <1>6, <1>7, ListedGroup

(* Arguments are variables or constants; those in registers are numbered.  *)
LEMMA ArgsAre ==
  ArgsFrame =>
    /\ Len(call.argv) \in Nat /\ DOMAIN call.argv = 1 .. Len(call.argv)
    /\ \A k \in DOMAIN call.argv : call.argv[k] # CONST =>
         call.argv[k] \in Vregs /\ call.argv[k] \in ArgSources
    /\ ArgSources \subseteq Vregs /\ live \subseteq Vregs
    /\ \A k \in InRegs : k \in DOMAIN call.argv /\ k \in DOMAIN ArgRegs /\ ArgRegs[k] \in Regs
    /\ \A k \in DOMAIN call.argv \ InRegs :
         /\ k \in Nat /\ k > Len(ArgRegs) /\ k - Len(ArgRegs) \in DOMAIN InSlots
         /\ GoesTo(k) \in Slots
         /\ GoesTo(k) = (IF call.tail THEN InSlots ELSE OutSlots)[k - Len(ArgRegs)]
    /\ \A k \in InRegs : GoesTo(k) = ArgRegs[k]
<1> SUFFICES ASSUME ArgsFrame
             PROVE ArgsAre!2
  OBVIOUS
<1>1. /\ Len(call.argv) \in Nat /\ DOMAIN call.argv = 1 .. Len(call.argv)
      /\ \A k \in DOMAIN call.argv : call.argv[k] \in ArgVregs \cup {CONST}
      /\ Len(call.argv) <= Len(ArgRegs) + Len(OutSlots)
      /\ ArgVregs \subseteq Vregs /\ live \subseteq ArgVregs /\ Len(OutSlots) = Len(InSlots)
  BY CallersAssumption DEF ArgsFrame
<1>2. /\ \A k \in DOMAIN call.argv : call.argv[k] # CONST =>
           call.argv[k] \in Vregs /\ call.argv[k] \in ArgSources
      /\ ArgSources \subseteq Vregs /\ live \subseteq Vregs
  BY <1>1 DEF ArgSources, ToSet
<1>3. \A k \in InRegs : k \in DOMAIN call.argv /\ k \in DOMAIN ArgRegs /\ ArgRegs[k] \in Regs
                        /\ GoesTo(k) = ArgRegs[k]
  BY <1>1, VregsAre DEF InRegs, GoesTo
<1>4. ASSUME NEW k \in DOMAIN call.argv \ InRegs
      PROVE  /\ k \in Nat /\ k > Len(ArgRegs) /\ k - Len(ArgRegs) \in DOMAIN InSlots
             /\ GoesTo(k) \in Slots
             /\ GoesTo(k) = (IF call.tail THEN InSlots ELSE OutSlots)[k - Len(ArgRegs)]
  <2>1. k \in Nat /\ k > Len(ArgRegs) /\ k - Len(ArgRegs) \in DOMAIN InSlots
    BY <1>1, VregsAre DEF InRegs
  <2>2. GoesTo(k) = (IF call.tail THEN InSlots ELSE OutSlots)[k - Len(ArgRegs)]
    BY <2>1, VregsAre DEF GoesTo
  <2>3. GoesTo(k) \in Slots
    BY <2>1, <2>2, VregsAre
  <2> QED
    BY <2>1, <2>2, <2>3
<1> QED
  BY <1>1, <1>2, <1>3, <1>4

(* The moves of the arguments: distinct registers, and no slot is written. *)
LEMMA ArgsGroup ==
  ArgsFrame =>
    /\ ArgSet \in SUBSET Nat /\ IsFiniteSet(ArgSet)
    /\ ArgFrom \in [ArgSet -> Locs] /\ ArgTo \in [ArgSet -> Locs]
    /\ moves = Listed(ArgSet, ArgFrom, ArgTo) /\ moves \in PA!Groups
<1> SUFFICES ASSUME ArgsFrame
             PROVE ArgsGroup!2
  OBVIOUS
<1>1. ArgSet \in SUBSET Nat /\ IsFiniteSet(ArgSet)
  <2>1. ArgSet \subseteq DOMAIN ArgRegs
    BY ArgsAre DEF ArgSet
  <2>2. DOMAIN ArgRegs = 1 .. Len(ArgRegs) /\ Len(ArgRegs) \in Nat
    BY VregsAre
  <2>3. IsFiniteSet(1 .. Len(ArgRegs)) /\ 1 .. Len(ArgRegs) \subseteq Nat
    BY <2>2, FS_Interval
  <2> QED
    BY <2>1, <2>2, <2>3, FS_Subset
<1>2. \A k \in ArgSet : k \in InRegs /\ call.argv[k] \in Vregs /\ k \in DOMAIN ArgRegs
                       /\ ArgRegs[k] \in Regs /\ ArgRegs[k] \in Locs
  BY ArgsAre DEF ArgSet, Locs
<1>3. \A k \in ArgSet : Place(home, call.argv[k]) \in Locs
  BY <1>2, Places DEF ArgsFrame
<1>4. ArgFrom \in [ArgSet -> Locs] /\ ArgTo \in [ArgSet -> Locs]
  BY <1>2, <1>3 DEF ArgFrom, ArgTo
<1>5. \A j, k \in ArgSet : ArgTo[j] = ArgTo[k] => j = k
  BY <1>2, CallersAssumption DEF ArgTo, IsInjective
<1>6. \A k \in ArgSet : ArgTo[k] \in Regs
  BY <1>2 DEF ArgTo
<1>7. moves = Listed(ArgSet, ArgFrom, ArgTo)
  <2>1. \A k \in DOMAIN InOrder(ArgSet) : InOrder(ArgSet)[k] \in ArgSet
    BY <1>1, InOrderLists
  <2>2. moves = [k \in DOMAIN InOrder(ArgSet) |->
                   [from |-> Place(home, call.argv[InOrder(ArgSet)[k]]),
                    to |-> ArgRegs[InOrder(ArgSet)[k]]]]
    BY DEF ArgsFrame, BuildArgMoves, ArgSet
  <2> QED
    BY <2>1, <2>2 DEF Listed, ArgFrom, ArgTo
<1>8. \A j, k \in ArgSet : ArgFrom[j] = ArgTo[k] => ArgFrom[j] \in Regs
  BY <1>6
<1> QED
  BY <1>1, <1>4, <1>5, <1>6, <1>7, <1>8, ListedGroup

(* Twins have one home on either side; others that are alive have places   *)
(* of their own on either side.                                            *)
LEMMA EdgePlaces ==
  EdgeFrame =>
    /\ \A v, w \in live : Value(v) = Value(w) =>
         home[v] = home[w] /\ there[v] = there[w]
         /\ Place(home, v) = Place(home, w) /\ Place(there, v) = Place(there, w)
    /\ \A v, w \in live : Place(home, v) = Place(home, w) => Value(v) = Value(w)
    /\ \A v, w \in live : Place(there, v) = Place(there, w) => Value(v) = Value(w)
<1> SUFFICES ASSUME EdgeFrame
             PROVE EdgePlaces!2
  OBVIOUS
<1>1. \A v, w \in live : Value(v) = Value(w) => home[v] = home[w] /\ there[v] = there[w]
  BY DEF EdgeFrame, Value
<1>2. \A v, w \in live : Value(v) = Value(w) =>
         Place(home, v) = Place(home, w) /\ Place(there, v) = Place(there, w)
  BY <1>1 DEF Place, Value
<1>3. \A v, w \in live : Place(home, v) = Place(home, w) => Value(v) = Value(w)
  BY ApartPlaces DEF EdgeFrame
<1>4. \A v, w \in live : Place(there, v) = Place(there, w) => Value(v) = Value(w)
  BY ApartPlaces DEF EdgeFrame
<1> QED
  BY <1>1, <1>2, <1>3, <1>4

(* The moves of an edge: of twins only the first is moved, so no two go to *)
(* one place, and who stays in his slot is not moved.                      *)
LEMMA EdgeGroup ==
  EdgeFrame =>
    /\ EdgeSet \in SUBSET Nat /\ IsFiniteSet(EdgeSet)
    /\ EdgeFrom \in [EdgeSet -> Locs] /\ EdgeTo \in [EdgeSet -> Locs]
    /\ moves = Listed(EdgeSet, EdgeFrom, EdgeTo) /\ moves \in PA!Groups
<1> SUFFICES ASSUME EdgeFrame
             PROVE EdgeGroup!2
  OBVIOUS
<1> USE DEF EdgeSet
<1>1. EdgeSet \subseteq live /\ live \subseteq Vregs /\ EdgeSet \in SUBSET Nat /\ IsFiniteSet(EdgeSet)
  BY FiniteVregs DEF EdgeFrame
<1>2. \A v \in EdgeSet : Place(home, v) \in Locs /\ Place(there, v) \in Locs
  BY <1>1, Places DEF EdgeFrame
<1>3. EdgeFrom \in [EdgeSet -> Locs] /\ EdgeTo \in [EdgeSet -> Locs]
  BY <1>2 DEF EdgeFrom, EdgeTo
<1>4. \A v \in EdgeSet : EdgeFrom[v] \in Regs \/ EdgeTo[v] \in Regs
  <2> TAKE v \in EdgeSet
  <2>1. home[v] # SPILL \/ there[v] # SPILL
    OBVIOUS
  <2> QED
    BY <1>1, <2>1, Places DEF EdgeFrom, EdgeTo, EdgeFrame
<1>5. \A v, w \in EdgeSet : Value(v) = Value(w) => v = w
  <2> TAKE v, w \in EdgeSet
  <2> HAVE Value(v) = Value(w)
  <2>1. home[v] = home[w] /\ there[v] = there[w]
    BY <1>1, EdgePlaces
  <2>2. ~ (v < w) /\ ~ (w < v)
    BY <1>1, <2>1 DEF EdgeMoveSeen
  <2> QED
    BY <1>1, <2>2
<1>6. \A v, w \in EdgeSet : EdgeTo[v] = EdgeTo[w] => v = w
  BY <1>1, <1>5, EdgePlaces DEF EdgeTo
<1>7. \A v, w \in EdgeSet : EdgeFrom[v] = EdgeTo[w] => EdgeFrom[v] \in Regs
  <2> TAKE v, w \in EdgeSet
  <2> HAVE EdgeFrom[v] = EdgeTo[w]
  <2>1. Place(home, v) = Place(there, w)
    BY DEF EdgeFrom, EdgeTo
  <2>2. v \in Vregs /\ w \in Vregs /\ home \in Homes /\ there \in Homes
    BY <1>1 DEF EdgeFrame
  <2>3. CASE home[v] = SPILL
    <3>1. there[w] = SPILL /\ SpillSlots[Value(v)] = SpillSlots[Value(w)]
      BY <2>1, <2>2, <2>3, Places, VregsAre
    <3>2. Value(v) = Value(w)
      BY <2>2, <3>1, Places, FrameLayout DEF IsInjective, Vregs
    <3> QED
      BY <1>5, <2>3, <3>1, <3>2
  <2>4. CASE home[v] # SPILL
    BY <2>2, <2>4, Places DEF EdgeFrom
  <2> QED
    BY <2>3, <2>4
<1>8. moves = Listed(EdgeSet, EdgeFrom, EdgeTo)
  <2>1. \A k \in DOMAIN InOrder(EdgeSet) : InOrder(EdgeSet)[k] \in EdgeSet
    BY <1>1, InOrderLists
  <2>2. moves = [k \in DOMAIN InOrder(EdgeSet) |->
                   [from |-> Place(home, InOrder(EdgeSet)[k]),
                    to |-> Place(there, InOrder(EdgeSet)[k])]]
    BY DEF EdgeFrame, BuildEdgeMoves
  <2> HIDE DEF EdgeSet
  <2> QED
    BY <2>1, <2>2 DEF Listed, EdgeFrom, EdgeTo
<1> HIDE DEF EdgeSet
<1> QED
  BY <1>1, <1>3, <1>4, <1>6, <1>7, <1>8, ListedGroup

-----------------------------------------------------------------------------
(* Every parameter arrives in a place of its own, which no variable owns.  *)
LEMMA Arrivals ==
  /\ \A v \in Vregs : Arrives(v) \in Locs
  /\ \A v, w \in Vregs : Arrives(v) = Arrives(w) => v = w
  /\ \A v \in RegParams : v \in Vregs /\ Arrives(v) = ArgRegs[v] /\ v <= Len(ArgRegs)
  /\ \A v \in Vregs \ RegParams : v > Len(ArgRegs) /\ Arrives(v) \in Slots
  /\ \A v \in Vregs \ RegParams, w \in Vregs : Arrives(v) # SpillSlots[w]
<1>1. \A v \in RegParams : v \in Vregs /\ v \in DOMAIN ArgRegs /\ Arrives(v) = ArgRegs[v]
                          /\ Arrives(v) \in Regs /\ v <= Len(ArgRegs)
  BY VregsAre DEF RegParams, Arrives
<1>2. \A v \in Vregs \ RegParams :
        /\ v \in Nat /\ v > Len(ArgRegs) /\ v - Len(ArgRegs) \in DOMAIN InSlots
        /\ Arrives(v) = InSlots[v - Len(ArgRegs)] /\ Arrives(v) \in Slots
  BY VregsAre, CallersAssumption DEF RegParams, Arrives
<1>3. \A v \in Vregs \ RegParams, w \in Vregs : Arrives(v) # SpillSlots[w]
  BY <1>2, FrameLayout DEF Vregs
<1>4. ASSUME NEW v \in Vregs, NEW w \in Vregs, Arrives(v) = Arrives(w) PROVE v = w
  <2>1. CASE v \in RegParams /\ w \in RegParams
    BY <1>1, <1>4, <2>1, CallersAssumption DEF IsInjective
  <2>2. CASE v \notin RegParams /\ w \notin RegParams
    <3>1. v - Len(ArgRegs) = w - Len(ArgRegs)
      BY <1>2, <1>4, <2>2, FrameLayout DEF IsInjective
    <3> QED
      BY <1>2, <2>2, <3>1, VregsAre
  <2>3. CASE (v \in RegParams) # (w \in RegParams)
    BY <1>1, <1>2, <1>4, <2>3, VregsAre
  <2> QED
    BY <2>1, <2>2, <2>3
<1> QED
  BY <1>1, <1>2, <1>3, <1>4, VregsAre DEF Locs

(* The invariant holds when a function starts.                             *)
LEMMA ParamsInitSound ==
  ~Overwritten /\ ParamsInit => ParamsFrame /\ ParamsMem /\ mem \in [Locs -> Vregs \cup {NOTHING}]
<1> SUFFICES ASSUME ~Overwritten, ParamsInit
             PROVE  ParamsFrame /\ ParamsMem /\ mem \in [Locs -> Vregs \cup {NOTHING}]
  OBVIOUS
<1> DEFINE who(l) == CHOOSE v \in Vregs : Arrives(v) = l
<1>1. live = used /\ used \subseteq Vregs
  BY DEF ParamsInit
<1>2. \A v, w \in used : v # w => home[v] = SPILL \/ home[v] # home[w]
  <2> TAKE v, w \in used
  <2> HAVE v # w
  <2>1. Linked(v, w) \/ Linked(w, v)
    BY <1>1, FiniteVregs DEF Linked
  <2>2. home[v] = SPILL \/ home[w] = SPILL \/ home[v] # home[w]
    BY <1>1, <2>1 DEF ParamsInit
  <2> QED
    BY <2>2
<1>3. ParamsFrame
  BY <1>1, <1>2 DEF ParamsInit, ParamsFrame
<1>4. mem = [l \in Locs |-> IF \E v \in Vregs : Arrives(v) = l THEN who(l) ELSE NOTHING]
  BY DEF ParamsInit
<1>5. \A l \in Locs : (\E v \in Vregs : Arrives(v) = l) => who(l) \in Vregs /\ Arrives(who(l)) = l
  OBVIOUS
<1> HIDE DEF who
<1>6. mem \in [Locs -> Vregs \cup {NOTHING}]
  BY <1>4, <1>5
<1>7. \A v \in Vregs : mem[Arrives(v)] = v
  <2> TAKE v \in Vregs
  <2>1. Arrives(v) \in Locs /\ who(Arrives(v)) \in Vregs /\ Arrives(who(Arrives(v))) = Arrives(v)
    BY <1>5, Arrivals
  <2>2. who(Arrives(v)) = v
    BY <2>1, Arrivals
  <2> QED
    BY <1>4, <2>1, <2>2
<1>8. ParamsMem
  BY <1>7, VregsAre DEF ParamsInit, ParamsMem
<1> QED
  BY <1>3, <1>6, <1>8

(* The invariant holds when a group of arguments begins.                   *)
LEMMA ArgsInitSound ==
  ArgsInit => ArgsFrame /\ ArgsMem /\ mem \in [Locs -> Vregs \cup {NOTHING}]
<1> SUFFICES ASSUME ArgsInit
             PROVE  ArgsFrame /\ ArgsMem /\ mem \in [Locs -> Vregs \cup {NOTHING}]
  OBVIOUS
<1>1. /\ call.argv \in BoundedSeq(ArgVregs \cup {CONST}, Len(ArgRegs) + Len(OutSlots))
      /\ call.dst \in ArgVregs \cup {CONST} /\ call.tail \in BOOLEAN
      /\ call.clob \in {{Rax}, CallerSaved}
  BY DEF ArgsInit
<1>2. /\ call.argv \in Seq(ArgVregs \cup {CONST})
      /\ Len(call.argv) <= Len(ArgRegs) + Len(OutSlots)
  <2>1. PICK m \in 0 .. Len(ArgRegs) + Len(OutSlots) : call.argv \in [1..m -> ArgVregs \cup {CONST}]
    BY <1>1 DEF BoundedSeq, SeqOf
  <2>2. m \in Nat /\ m <= Len(ArgRegs) + Len(OutSlots)
    BY VregsAre, CallersAssumption
  <2> QED
    BY <2>1, <2>2
<1>3. Rax \in call.clob /\ call.clob \subseteq CallerSaved
  BY <1>1, CallersAssumption
<1>4. ArgsFrame
  BY <1>1, <1>2, <1>3 DEF ArgsInit, ArgsFrame
<1>5. live \cup ArgSources \subseteq Vregs /\ Apart(home, live \cup ArgSources) /\ home \in Homes /\ ~twin
  BY <1>4, ArgsAre DEF ArgsFrame
<1>6. \A v \in Vregs : Value(v) = v
  BY <1>5 DEF Value
<1>7. mem = Holding(live \cup ArgSources)
  BY DEF ArgsInit
<1>8. /\ mem \in [Locs -> Vregs \cup {NOTHING}]
      /\ \A v \in live \cup ArgSources : mem[Place(home, v)] = v
  BY <1>5, <1>6, <1>7, HoldingHolds
<1>9. ArgsMem
  <2>1. stage = "save" /\ next = Len(ArgRegs) + 1
    BY DEF ArgsInit
  <2>2. next \in Nat /\ next > Len(ArgRegs) /\ next <= Len(ArgRegs) + Len(InSlots) + 1
    BY <2>1, VregsAre
  <2> QED
    BY <1>8, <2>1, <2>2 DEF ArgsMem, CallKeepsLive
<1> QED
  BY <1>4, <1>8, <1>9

(* The invariant holds when the moves of an edge begin.                    *)
LEMMA EdgeInitSound ==
  EdgeInit => EdgeFrame /\ EdgeMem /\ mem \in [Locs -> Vregs \cup {NOTHING}]
<1> SUFFICES ASSUME EdgeInit
             PROVE  EdgeFrame /\ EdgeMem /\ mem \in [Locs -> Vregs \cup {NOTHING}]
  OBVIOUS
<1>1. EdgeFrame
  BY DEF EdgeInit, EdgeFrame
<1>2. /\ mem \in [Locs -> Vregs \cup {NOTHING}]
      /\ \A v \in live : mem[Place(home, v)] = Value(v)
  BY HoldingHolds DEF EdgeInit
<1> QED
  BY <1>1, <1>2 DEF EdgeInit, EdgeMem

(* Every job starts with its part of the invariant.                        *)
LEMMA InitSound == ~Overwritten /\ CallersInit => CallersInv /\ Init
<1> SUFFICES ASSUME ~Overwritten, CallersInit PROVE CallersInv /\ Init
  OBVIOUS
<1>1. /\ \/ ParamsFrame /\ ParamsMem
         \/ ArgsFrame /\ ArgsMem
         \/ EdgeFrame /\ EdgeMem
      /\ mem \in [Locs -> Vregs \cup {NOTHING}]
  BY ParamsInitSound, ArgsInitSound, EdgeInitSound DEF CallersInit
<1>2. moves \in PA!Groups
  BY <1>1, ParamsGroup, ArgsGroup, EdgeGroup
<1>3. Init /\ PlanInv
  BY <1>2, PlanInit DEF CallersInit, Init
<1> QED
  BY <1>1, <1>3 DEF CallersInv

-----------------------------------------------------------------------------
(* The context of a group never changes, nor what is computed from it.     *)
LEMMA ContextStays ==
  UNCHANGED context =>
    /\ \A v \in Vregs : Value(v)' = Value(v)
    /\ \A v \in Vregs : Place(home, v)' = Place(home, v) /\ Place(there, v)' = Place(there, v)
    /\ ArgSources' = ArgSources /\ InRegs' = InRegs /\ Saved' = Saved
    /\ \A k \in DOMAIN call.argv : GoesTo(k)' = GoesTo(k)
    /\ home' = home /\ there' = there /\ live' = live /\ used' = used
    /\ twin' = twin /\ call' = call /\ job' = job
BY DEF context, Value, Place, ArgSources, InRegs, Saved, HomesOf, CallClobbers, GoesTo

(* What a frame says is about the job and its group only.                  *)
LEMMA FramesStay ==
  UNCHANGED <<context, moves>> =>
    /\ ParamsFrame => ParamsFrame'
    /\ ArgsFrame => ArgsFrame'
    /\ EdgeFrame => EdgeFrame'
<1> SUFFICES ASSUME UNCHANGED <<context, moves>>
             PROVE FramesStay!2
  OBVIOUS
<1>1. /\ home' = home /\ there' = there /\ live' = live /\ used' = used
      /\ twin' = twin /\ call' = call /\ job' = job /\ moves' = moves
  BY DEF context
<1>2. BuildParamMoves' = BuildParamMoves /\ (ParamsFrame => ParamsFrame')
  BY <1>1 DEF ParamsFrame, BuildParamMoves, Place
<1>3. BuildArgMoves' = BuildArgMoves /\ ArgSources' = ArgSources
  BY <1>1 DEF BuildArgMoves, Place, InRegs, ArgSources
<1>4. BuildEdgeMoves' = BuildEdgeMoves
  BY <1>1 DEF BuildEdgeMoves, EdgeMoveSeen, Place
<1>5. \A h, vs : Apart(h, vs)' <=> Apart(h, vs)
  BY <1>1 DEF Apart, Value
<1>6. ArgsFrame => ArgsFrame'
  BY <1>1, <1>3, <1>5 DEF ArgsFrame
<1>7. EdgeFrame => EdgeFrame'
  BY <1>1, <1>4, <1>5 DEF EdgeFrame
<1> QED
  BY <1>2, <1>6, <1>7

(* What an action that is not one of the planner's has to show.            *)
LEMMA StepsOf ==
  CallersInv /\ UNCHANGED <<context, vars>> =>
    /\ PlanInv' /\ moves' = moves
    /\ (ParamsFrame => ParamsFrame') /\ (ArgsFrame => ArgsFrame') /\ (EdgeFrame => EdgeFrame')
<1>1. UNCHANGED <<context, vars>> => UNCHANGED <<context, moves>>
  BY DEF vars
<1> QED
  BY <1>1, FramesStay, IdleStep DEF CallersInv, vars

(* A step of the planner leaves the machine to the group's end.            *)
LEMMA PlanStep == CallersInv /\ Plan => CallersInv'
<1> SUFFICES ASSUME CallersInv, Plan PROVE CallersInv'
  OBVIOUS
<1>1. /\ stage' = stage /\ next' = next /\ mem' = mem /\ UNCHANGED context
      /\ stage = "plan"
  BY DEF Plan, cvars, context
<1>2. Next /\ PlanInv
  BY DEF Plan, CallersInv
<1>3. PlanInv'
  BY <1>2, StoreStep, CollectStep, ReadyStep, SwapStep, PlannedStep, LoadStep, FinishStep DEF Next
<1>4. moves' = moves
  BY <1>2 DEF Next, PlanStore, CollectRegs, MoveReady, SwapCycle, RegsPlanned, PlanLoad, Finish
<1>5. FramesStay!2
  BY <1>1, <1>4, FramesStay
<1>6. ParamsFrame /\ ParamsMem => ParamsMem'
  <2> SUFFICES ASSUME ParamsFrame, ParamsMem PROVE ParamsMem'
    OBVIOUS
  <2> QED
    BY <1>1, ContextStays DEF ParamsMem, ParamsFrame
<1>7. ArgsFrame /\ ArgsMem => ArgsMem'
  <2> SUFFICES ASSUME ArgsFrame, ArgsMem PROVE ArgsMem'
    OBVIOUS
  <2>1. live \cup ArgSources \subseteq Vregs /\ live \subseteq Vregs
    BY ArgsAre
  <2>2. CallKeepsLive'
    BY <1>1 DEF CallKeepsLive
  <2> QED
    BY <1>1, <2>1, <2>2, ContextStays DEF ArgsMem
<1>8. EdgeFrame /\ EdgeMem => EdgeMem'
  <2> SUFFICES ASSUME EdgeFrame, EdgeMem PROVE EdgeMem'
    OBVIOUS
  <2>1. live \subseteq Vregs
    BY DEF EdgeFrame
  <2> QED
    BY <1>1, <2>1, ContextStays DEF EdgeMem
<1> QED
  BY <1>1, <1>3, <1>5, <1>6, <1>7, <1>8 DEF CallersInv

(* The group has run: what each place gets from it.                        *)
LEMMA ParamsPlanned ==
  CallersInv /\ ParamsFrame /\ ParamsMem /\ Planned => ParamsMem'
<1> SUFFICES ASSUME CallersInv, ParamsFrame, ParamsMem, Planned PROVE ParamsMem'
  OBVIOUS
<1>1. /\ phase = "done" /\ PlanInv /\ stage = "plan" /\ stage' = "planned"
      /\ next' = next /\ UNCHANGED context /\ mem' = [l \in Locs |-> mem[loc[l]]]
  BY DEF Planned, CallersInv
<1>2. /\ next = Len(ArgRegs) + 1 /\ \A v \in Vregs : mem[Arrives(v)] = v
      /\ next \in Nat /\ next > Len(ArgRegs) /\ next <= Len(ArgRegs) + Len(InSlots) + 1
  BY <1>1 DEF ParamsMem
<1>3. /\ \A v \in ParamSet : loc[ParamTo[v]] = ParamFrom[v]
      /\ \A l \in Locs : (\A v \in ParamSet : ParamTo[v] # l) => loc[l] = l
  BY <1>1, ParamsGroup, ListedMade
<1>4. used \subseteq Vregs /\ home \in Homes /\ ~twin
  BY DEF ParamsFrame
<1>5. ASSUME NEW v \in used, v < next PROVE mem'[Place(home, v)] = v
  <2>1. v \in ParamSet /\ v \in RegParams /\ v \in Vregs
    BY <1>2, <1>4, <1>5, VregsAre DEF ParamSet, RegParams
  <2>2. loc[Place(home, v)] = Arrives(v) /\ Place(home, v) \in Locs
    BY <1>3, <1>4, <2>1, Places, Arrivals DEF ParamTo, ParamFrom
  <2> QED
    BY <1>1, <1>2, <2>1, <2>2
<1>6. ASSUME NEW v \in Vregs, v >= next PROVE mem'[Arrives(v)] = v
  <2>1. v \notin RegParams
    BY <1>2, <1>6, VregsAre DEF RegParams
  <2>2. Arrives(v) \in Slots /\ Arrives(v) \in Locs
    BY <2>1, Arrivals
  <2>3. \A w \in ParamSet : ParamTo[w] # Arrives(v)
    <3> TAKE w \in ParamSet
    <3>1. w \in Vregs /\ Value(w) \in Vregs /\ ParamTo[w] = Place(home, w)
      BY <1>4, Places DEF ParamTo, ParamSet
    <3> QED
      BY <1>4, <2>1, <2>2, <3>1, Places, Arrivals, VregsAre
  <2>4. loc[Arrives(v)] = Arrives(v)
    BY <1>3, <2>2, <2>3
  <2> QED
    BY <1>1, <1>2, <2>2, <2>4
<1>7. \A v \in Vregs : Place(home, v)' = Place(home, v)
  BY <1>1, ContextStays
<1>8. used' = used
  BY <1>1, ContextStays
<1> QED
  BY <1>1, <1>2, <1>4, <1>5, <1>6, <1>7, <1>8 DEF ParamsMem

(* The planned moves bring the arguments to their registers.               *)
LEMMA ArgsPlanned ==
  CallersInv /\ ArgsFrame /\ ArgsMem /\ Planned => ArgsMem'
<1> SUFFICES ASSUME CallersInv, ArgsFrame, ArgsMem, Planned PROVE ArgsMem'
  OBVIOUS
<1>1. /\ phase = "done" /\ PlanInv /\ stage = "plan" /\ stage' = "planned"
      /\ next' = next /\ UNCHANGED context /\ mem' = [l \in Locs |-> mem[loc[l]]]
  BY DEF Planned, CallersInv
<1>2. /\ \A v \in live \cup ArgSources : mem[Place(home, v)] = v
      /\ \A v \in live : home[v] \in Saved => mem[SaveSlots[home[v]]] = v
      /\ \A k \in DOMAIN call.argv : k \notin InRegs /\ k < next => mem[GoesTo(k)] = call.argv[k]
      /\ next \notin DOMAIN call.argv
      /\ next \in Nat /\ next > Len(ArgRegs) /\ next <= Len(ArgRegs) + Len(InSlots) + 1
  BY <1>1 DEF ArgsMem
<1>3. /\ \A k \in ArgSet : loc[ArgTo[k]] = ArgFrom[k]
      /\ \A l \in Locs : (\A k \in ArgSet : ArgTo[k] # l) => loc[l] = l
  BY <1>1, ArgsGroup, ListedMade
<1>4. /\ home \in Homes /\ ~twin /\ live \subseteq Vregs /\ ArgSources \subseteq Vregs
      /\ call.tail => live = {}
  BY ArgsAre DEF ArgsFrame
<1>5. \A k \in ArgSet : ArgTo[k] = ArgRegs[k] /\ k \in InRegs /\ ArgRegs[k] \in Regs
  BY ArgsAre DEF ArgTo, ArgSet
<1>6. \A l \in Slots : l \in Locs /\ loc[l] = l /\ mem'[l] = mem[l]
  <2>1. \A l \in Slots : l \in Locs /\ loc[l] = l
    BY <1>3, <1>5, VregsAre DEF Locs
  <2> QED
    BY <1>1, <2>1
<1>7. ASSUME NEW v \in live, home[v] \notin Saved PROVE mem'[Place(home, v)] = v
  <2>1. v \in Vregs /\ ~call.tail
    BY <1>4
  <2>2. CASE home[v] = SPILL
    BY <1>2, <1>4, <1>6, <2>1, <2>2, Places
  <2>3. CASE home[v] # SPILL
    <3>1. Place(home, v) = home[v] /\ home[v] \in Regs /\ home[v] \in HomesOf(home, live)
      BY <1>4, <2>1, <2>3, Places DEF HomesOf
    <3>2. \A k \in ArgSet : ArgTo[k] # home[v]
      <4> SUFFICES ASSUME NEW k \in ArgSet, ArgRegs[k] = home[v] PROVE FALSE
        BY <1>5
      <4>1. home[v] \in CallClobbers /\ home[v] \in CallerSaved
        BY <1>5, ArgsAre, VregsAre DEF CallClobbers
      <4> QED
        BY <1>7, <2>1, <3>1, <4>1 DEF Saved
    <3>3. loc[home[v]] = home[v] /\ home[v] \in Locs
      BY <1>3, <3>1, <3>2 DEF Locs
    <3> QED
      BY <1>1, <1>2, <3>1, <3>3
  <2> QED
    BY <2>2, <2>3
<1>8. ASSUME NEW v \in live, home[v] \in Saved PROVE mem'[SaveSlots[home[v]]] = v
  <2>1. SaveSlots[home[v]] \in Slots
    BY <1>8, VregsAre, CallersAssumption DEF Saved
  <2> QED
    BY <1>2, <1>6, <1>8, <2>1
<1>9. ASSUME NEW k \in DOMAIN call.argv, k \notin InRegs, k < next
      PROVE  mem'[GoesTo(k)] = call.argv[k]
  BY <1>2, <1>6, <1>9, ArgsAre
<1>10. ASSUME NEW k \in InRegs, call.argv[k] # CONST PROVE mem'[ArgRegs[k]] = call.argv[k]
  <2>1. k \in ArgSet /\ k \in DOMAIN call.argv /\ ArgRegs[k] \in Regs
    BY <1>10, ArgsAre DEF ArgSet
  <2>2. call.argv[k] \in ArgSources
    BY <1>10, <2>1, ArgsAre
  <2>3. loc[ArgRegs[k]] = Place(home, call.argv[k]) /\ ArgRegs[k] \in Locs
    BY <1>3, <1>5, <2>1 DEF ArgFrom, Locs
  <2> QED
    BY <1>1, <1>2, <2>2, <2>3
<1>11. /\ Saved' = Saved /\ home' = home /\ live' = live /\ call' = call /\ InRegs' = InRegs
       /\ \A v \in live : Place(home, v)' = Place(home, v)
       /\ \A k \in DOMAIN call.argv : GoesTo(k)' = GoesTo(k)
  BY <1>1, <1>4, ContextStays
<1>12. CallKeepsLive'
  BY <1>1 DEF CallKeepsLive
<1> QED
  BY <1>1, <1>2, <1>7, <1>8, <1>9, <1>10, <1>11, <1>12 DEF ArgsMem

(* The planned moves bring the live variables to the homes of the successor. *)
LEMMA EdgePlanned ==
  CallersInv /\ EdgeFrame /\ EdgeMem /\ Planned => EdgeMem'
<1> SUFFICES ASSUME CallersInv, EdgeFrame, EdgeMem, Planned PROVE EdgeMem'
  OBVIOUS
<1>1. /\ phase = "done" /\ PlanInv /\ stage = "plan" /\ stage' = "planned"
      /\ next' = next /\ UNCHANGED context /\ mem' = [l \in Locs |-> mem[loc[l]]]
  BY DEF Planned, CallersInv
<1>2. next = 1 /\ \A v \in live : mem[Place(home, v)] = Value(v)
  BY <1>1 DEF EdgeMem
<1>3. /\ \A v \in EdgeSet : loc[EdgeTo[v]] = EdgeFrom[v]
      /\ \A l \in Locs : (\A v \in EdgeSet : EdgeTo[v] # l) => loc[l] = l
  BY <1>1, EdgeGroup, ListedMade
<1>4. live \subseteq Vregs /\ home \in Homes /\ there \in Homes
  BY DEF EdgeFrame
<1>5. \A v \in live : Place(home, v) \in Locs /\ Place(there, v) \in Locs
  BY <1>4, Places
<1>6. ASSUME NEW v \in EdgeSet PROVE loc[Place(there, v)] = Place(home, v)
  BY <1>3 DEF EdgeTo, EdgeFrom
<1>7. ASSUME NEW v \in live PROVE loc[Place(there, v)] = Place(home, v)
  <2>1. CASE home[v] = there[v]
    <3>1. Place(there, v) = Place(home, v)
      BY <2>1 DEF Place
    <3>2. \A w \in EdgeSet : EdgeTo[w] # Place(there, v)
      <4> SUFFICES ASSUME NEW w \in EdgeSet, Place(there, w) = Place(there, v) PROVE FALSE
        BY DEF EdgeTo
      <4>1. w \in live /\ home[w] # there[w]
        BY DEF EdgeSet
      <4>2. home[w] = home[v] /\ there[w] = there[v]
        BY <4>1, EdgePlaces
      <4> QED
        BY <2>1, <4>1, <4>2
    <3> QED
      BY <1>3, <1>5, <3>1, <3>2
  <2>2. CASE home[v] # there[v] /\ ~EdgeMoveSeen(v)
    BY <1>6, <2>2 DEF EdgeSet
  <2>3. CASE home[v] # there[v] /\ EdgeMoveSeen(v)
    <3>1. PICK w \in live : w < v /\ home[w] = home[v] /\ there[w] = there[v]
      BY <2>3 DEF EdgeMoveSeen
    <3>2. Value(w) = Value(v)
      BY <2>3, <3>1 DEF EdgeFrame, Apart
    <3>3. w \in EdgeSet
      <4> SUFFICES ASSUME EdgeMoveSeen(w) PROVE FALSE
        BY <2>3, <3>1 DEF EdgeSet
      <4>1. PICK u \in live : u < w /\ home[u] = home[w] /\ there[u] = there[w]
        BY DEF EdgeMoveSeen
      <4>2. Value(u) = Value(w)
        BY <2>3, <3>1, <4>1 DEF EdgeFrame, Apart
      <4>3. u \in Nat /\ w \in Nat /\ v \in Nat
        BY <1>4, FiniteVregs
      <4> QED
        BY <3>1, <3>2, <4>1, <4>2, <4>3 DEF Value
    <3>4. Place(home, w) = Place(home, v) /\ Place(there, w) = Place(there, v)
      BY <3>1, <3>2, EdgePlaces
    <3> QED
      BY <1>6, <3>3, <3>4
  <2> QED
    BY <2>1, <2>2, <2>3
<1>8. \A v \in live : mem'[Place(there, v)] = Value(v)
  BY <1>1, <1>2, <1>5, <1>7
<1>9. live' = live /\ \A v \in live : Place(there, v)' = Place(there, v) /\ Value(v)' = Value(v)
  BY <1>1, <1>4, ContextStays
<1> QED
  BY <1>1, <1>2, <1>8, <1>9 DEF EdgeMem

-----------------------------------------------------------------------------
(* A parameter that arrives on the stack goes home, by a register that is  *)
(* no parameter's home if need be.                                         *)
LEMMA StackParamStep ==
  CallersInv /\ ParamsFrame /\ ParamsMem /\ MakeStackParam =>
    ParamsMem' /\ mem' \in [Locs -> Vregs \cup {CONST, NOTHING, RESULT}]
<1> SUFFICES ASSUME CallersInv, ParamsFrame, ParamsMem, MakeStackParam
             PROVE  ParamsMem' /\ mem' \in [Locs -> Vregs \cup {CONST, NOTHING, RESULT}]
  OBVIOUS
<1>1. /\ stage = "planned" /\ next \in Vregs /\ stage' = stage /\ next' = next + 1
      /\ UNCHANGED context /\ mem \in [Locs -> Vregs \cup {CONST, NOTHING, RESULT}]
  BY DEF MakeStackParam, CallersInv
<1>2. /\ next \in Nat /\ next > Len(ArgRegs) /\ next <= Len(ArgRegs) + Len(InSlots) + 1
      /\ \A v \in used : v < next => mem[Place(home, v)] = v
      /\ \A v \in Vregs : v >= next => mem[Arrives(v)] = v
  BY <1>1 DEF ParamsMem
<1>3. used \subseteq Vregs /\ home \in Homes /\ ~twin
  BY DEF ParamsFrame
<1>4. next + 1 \in Nat /\ next + 1 > Len(ArgRegs) /\ next + 1 <= Len(ArgRegs) + Len(InSlots) + 1
  BY <1>1, <1>2, VregsAre, CallersAssumption
<1>5. next \notin RegParams /\ Arrives(next) \in Slots /\ Arrives(next) \in Locs /\ mem[Arrives(next)] = next
  BY <1>1, <1>2, Arrivals, VregsAre DEF RegParams
<1>6. \A v \in used, w \in used : Place(home, v) = Place(home, w) => v = w
  BY <1>3, OnePlace, Places DEF ParamsFrame
<1>7. \A v \in Vregs : Place(home, v)' = Place(home, v)
  BY <1>1, ContextStays
<1>8. used' = used
  BY <1>1, ContextStays
<1>9. \A v \in Vregs : v >= next + 1 => v \notin RegParams /\ Arrives(v) \in Slots /\ Arrives(v) \in Locs
                        /\ mem[Arrives(v)] = v /\ \A w \in Vregs : Place(home, w) # Arrives(v)
  <2> TAKE v \in Vregs
  <2> HAVE v >= next + 1
  <2>1. v \notin RegParams /\ v >= next
    BY <1>2, VregsAre DEF RegParams
  <2>2. Arrives(v) \in Slots /\ Arrives(v) \in Locs /\ mem[Arrives(v)] = v
    BY <1>2, <2>1, Arrivals
  <2>3. \A w \in Vregs : Place(home, w) # Arrives(v)
    BY <1>3, <2>1, <2>2, Places, Arrivals, VregsAre
  <2> QED
    BY <2>1, <2>2, <2>3
<1>10. \A v \in used : v < next + 1 => v < next \/ v = next
  BY <1>2, <1>3, VregsAre
<1>11. CASE next \notin used
  <2>1. mem' = mem
    BY <1>11 DEF MakeStackParam
  <2> QED
    BY <1>1, <1>2, <1>4, <1>7, <1>8, <1>9, <1>10, <1>11, <2>1, <1>3 DEF ParamsMem
<1>12. CASE next \in used
  <2> DEFINE here == Place(home, next)
  <2>1. \E w \in Regs \cup {here} :
          /\ w = here \/ w \in StackScratch
          /\ mem' = [mem EXCEPT ![w] = next, ![here] = next]
    <3>1. CASE home[next] # SPILL
      <4>1. here = home[next] /\ mem' = [mem EXCEPT ![here] = next]
        BY <1>1, <1>3, <1>5, <1>12, <3>1, Places DEF MakeStackParam
      <4>2. mem' = [mem EXCEPT ![here] = next, ![here] = next]
        BY <1>1, <4>1
      <4> QED
        BY <4>2
    <3>2. CASE home[next] = SPILL
      <4>1. here = SpillSlots[next]
        BY <1>1, <1>3, <3>2, Places
      <4> QED
        BY <1>5, <1>12, <3>2, <4>1 DEF MakeStackParam, StackScratch
    <3> QED
      BY <3>1, <3>2
  <2>2. PICK w \in Regs \cup {here} :
          /\ w = here \/ w \in StackScratch
          /\ mem' = [mem EXCEPT ![w] = next, ![here] = next]
    BY <2>1
  <2>3. here \in Locs /\ w \in Locs
    BY <1>1, <1>3, Places DEF Locs
  <2>4. mem' \in [Locs -> Vregs \cup {CONST, NOTHING, RESULT}]
    BY <1>1, <2>2
  <2>5. mem'[here] = next
    BY <1>1, <2>2, <2>3
  <2>6. \A v \in used : v # next => Place(home, v) # here /\ Place(home, v) # w /\ Place(home, v) \in Locs
    <3> TAKE v \in used
    <3> HAVE v # next
    <3>1. Place(home, v) # here /\ Place(home, v) \in Locs
      BY <1>3, <1>6, <1>12, Places
    <3>2. w \in StackScratch => w \in Regs /\ Place(home, v) # w
      BY <1>3, Places, VregsAre DEF StackScratch, HomesOf
    <3> QED
      BY <2>2, <3>1, <3>2
  <2>7. \A v \in used : v < next + 1 => mem'[Place(home, v)] = v
    BY <1>1, <1>2, <1>10, <2>2, <2>5, <2>6
  <2>8. \A v \in Vregs : v >= next + 1 => mem'[Arrives(v)] = v
    <3> TAKE v \in Vregs
    <3> HAVE v >= next + 1
    <3>1. Arrives(v) # here /\ Arrives(v) \in Slots /\ Arrives(v) \in Locs /\ mem[Arrives(v)] = v
      BY <1>1, <1>9
    <3>2. Arrives(v) # w
      BY <2>2, <3>1, VregsAre DEF StackScratch
    <3> QED
      BY <1>1, <2>2, <3>1, <3>2
  <2> QED
    BY <1>1, <1>3, <1>4, <1>7, <1>8, <2>4, <2>7, <2>8 DEF ParamsMem
<1> QED
  BY <1>11, <1>12

-----------------------------------------------------------------------------
(* The places of the arguments and of what is alive.                       *)
LEMMA ArgPlaces ==
  ArgsFrame =>
    /\ home \in Homes /\ ~twin /\ live \subseteq Vregs /\ ArgSources \subseteq Vregs
    /\ \A v \in live \cup ArgSources : Place(home, v) \in Locs
    /\ \A v \in Vregs : home[v] = SPILL => Place(home, v) = SpillSlots[v] /\ Place(home, v) \in Slots
    /\ \A v \in Vregs : home[v] # SPILL => Place(home, v) = home[v] /\ home[v] \in Regs
    /\ \A k \in DOMAIN call.argv \ InRegs : GoesTo(k) \in Slots /\ \A v \in Vregs : GoesTo(k) # SpillSlots[v]
    /\ \A k \in DOMAIN call.argv \ InRegs : \A r \in Regs : GoesTo(k) # SaveSlots[r]
    /\ \A j, k \in DOMAIN call.argv \ InRegs : GoesTo(j) = GoesTo(k) => j = k
    /\ Saved \subseteq Regs
<1> SUFFICES ASSUME ArgsFrame
             PROVE ArgPlaces!2
  OBVIOUS
<1>1. home \in Homes /\ ~twin /\ live \subseteq Vregs /\ ArgSources \subseteq Vregs
  BY ArgsAre DEF ArgsFrame
<1>2. /\ \A v \in live \cup ArgSources : Place(home, v) \in Locs
      /\ \A v \in Vregs : home[v] = SPILL => Place(home, v) = SpillSlots[v] /\ Place(home, v) \in Slots
      /\ \A v \in Vregs : home[v] # SPILL => Place(home, v) = home[v] /\ home[v] \in Regs
  BY <1>1, Places
<1>3. ASSUME NEW k \in DOMAIN call.argv \ InRegs
      PROVE  /\ GoesTo(k) \in Slots /\ \A v \in Vregs : GoesTo(k) # SpillSlots[v]
             /\ \A r \in Regs : GoesTo(k) # SaveSlots[r]
  BY <1>3, ArgsAre, VregsAre, FrameLayout DEF Vregs
<1>4. ASSUME NEW j \in DOMAIN call.argv \ InRegs, NEW k \in DOMAIN call.argv \ InRegs,
             GoesTo(j) = GoesTo(k)
      PROVE  j = k
  <2>1. j - Len(ArgRegs) = k - Len(ArgRegs)
    BY SMTT(30), <1>4, ArgsAre, VregsAre, FrameLayout DEF IsInjective
  <2> QED
    BY <2>1, ArgsAre, VregsAre
<1>5. Saved \subseteq Regs
  BY CallersAssumption DEF Saved
<1> QED
  BY <1>1, <1>2, <1>3, <1>4, <1>5

(* What is alive and in danger is saved.                                   *)
LEMMA SaveStep ==
  CallersInv /\ ArgsFrame /\ ArgsMem /\ SaveLive =>
    ArgsMem' /\ mem' \in [Locs -> Vregs \cup {CONST, NOTHING, RESULT}]
<1> SUFFICES ASSUME CallersInv, ArgsFrame, ArgsMem, SaveLive
             PROVE  ArgsMem' /\ mem' \in [Locs -> Vregs \cup {CONST, NOTHING, RESULT}]
  OBVIOUS
<1> DEFINE of(l) == CHOOSE r \in Saved : SaveSlots[r] = l
<1>1. /\ stage = "save" /\ stage' = "stack" /\ next' = next /\ UNCHANGED context
      /\ mem' = [l \in Locs |-> IF \E r \in Saved : SaveSlots[r] = l THEN mem[of(l)] ELSE mem[l]]
      /\ mem \in [Locs -> Vregs \cup {CONST, NOTHING, RESULT}]
  BY DEF SaveLive, CallersInv
<1>2. \A l \in Locs : (\E r \in Saved : SaveSlots[r] = l) => of(l) \in Saved /\ SaveSlots[of(l)] = l
  OBVIOUS
<1> HIDE DEF of
<1>3. /\ \A v \in live \cup ArgSources : mem[Place(home, v)] = v
      /\ next = Len(ArgRegs) + 1
      /\ next \in Nat /\ next > Len(ArgRegs) /\ next <= Len(ArgRegs) + Len(InSlots) + 1
  BY <1>1 DEF ArgsMem
<1>4. Saved \subseteq Regs /\ Saved \subseteq Locs
  BY ArgPlaces DEF Locs
<1>5. \A r \in Saved : SaveSlots[r] \in Locs /\ mem'[SaveSlots[r]] = mem[r]
  <2> TAKE r \in Saved
  <2>1. SaveSlots[r] \in Locs /\ of(SaveSlots[r]) \in Saved /\ SaveSlots[of(SaveSlots[r])] = SaveSlots[r]
    BY <1>2, <1>4, VregsAre DEF Locs
  <2>2. of(SaveSlots[r]) = r
    BY <1>4, <2>1, CallersAssumption, FrameLayout DEF IsInjective
  <2> QED
    BY <1>1, <2>1, <2>2
<1>6. mem' \in [Locs -> Vregs \cup {CONST, NOTHING, RESULT}]
  BY <1>1, <1>2, <1>4
<1>7. \A v \in live \cup ArgSources : mem'[Place(home, v)] = v
  <2> TAKE v \in live \cup ArgSources
  <2>1. Place(home, v) \in Locs /\ v \in Vregs
    BY ArgPlaces
  <2>2. \A r \in Saved : SaveSlots[r] # Place(home, v)
    BY <1>4, <2>1, ArgPlaces, VregsAre, FrameLayout DEF Vregs
  <2> QED
    BY <1>1, <1>3, <2>1, <2>2
<1>8. \A v \in live : home[v] \in Saved => mem'[SaveSlots[home[v]]] = v
  <2> TAKE v \in live
  <2> HAVE home[v] \in Saved
  <2>1. home[v] # SPILL /\ v \in Vregs
    BY <1>4, ArgPlaces, CallersAssumption
  <2>2. Place(home, v) = home[v]
    BY <2>1, ArgPlaces
  <2> QED
    BY <1>3, <1>5, <2>2
<1>9. \A k \in DOMAIN call.argv : k \notin InRegs => ~ (k < next)
  BY <1>3, ArgsAre, VregsAre
<1>10. /\ Saved' = Saved /\ home' = home /\ live' = live /\ call' = call /\ InRegs' = InRegs
       /\ ArgSources' = ArgSources
       /\ \A v \in live \cup ArgSources : Place(home, v)' = Place(home, v)
  BY <1>1, ContextStays, ArgPlaces
<1>11. CallKeepsLive'
  BY <1>1 DEF CallKeepsLive
<1>12. ArgsMem'
  BY <1>1, <1>3, <1>7, <1>8, <1>9, <1>10, <1>11 DEF ArgsMem
<1> QED
  BY <1>6, <1>12

(* An argument goes to its stack slot, by a register that is no argument's *)
(* and carries none.                                                       *)
LEMMA StackArgStep ==
  CallersInv /\ ArgsFrame /\ ArgsMem /\ MakeStackArg =>
    ArgsMem' /\ mem' \in [Locs -> Vregs \cup {CONST, NOTHING, RESULT}]
<1> SUFFICES ASSUME CallersInv, ArgsFrame, ArgsMem, MakeStackArg
             PROVE  ArgsMem' /\ mem' \in [Locs -> Vregs \cup {CONST, NOTHING, RESULT}]
  OBVIOUS
<1> DEFINE v == call.argv[next]
           spot == GoesTo(next)
<1>1. /\ stage = "stack" /\ next \in DOMAIN call.argv /\ stage' = stage /\ next' = next + 1
      /\ UNCHANGED context /\ mem \in [Locs -> Vregs \cup {CONST, NOTHING, RESULT}]
  BY DEF MakeStackArg, CallersInv
<1>2. /\ next \in Nat /\ next > Len(ArgRegs) /\ next <= Len(ArgRegs) + Len(InSlots) + 1
      /\ \A x \in live \cup ArgSources : mem[Place(home, x)] = x
      /\ \A x \in live : home[x] \in Saved => mem[SaveSlots[home[x]]] = x
      /\ \A k \in DOMAIN call.argv : k \notin InRegs /\ k < next => mem[GoesTo(k)] = call.argv[k]
  BY <1>1 DEF ArgsMem
<1>3. next \notin InRegs /\ spot \in Slots /\ spot \in Locs
  BY <1>1, <1>2, ArgPlaces, VregsAre DEF InRegs, Locs
<1>4. next + 1 \in Nat /\ next + 1 > Len(ArgRegs) /\ next + 1 <= Len(ArgRegs) + Len(InSlots) + 1
  BY SMTT(30), <1>1, <1>2, <1>3, ArgsAre, VregsAre
<1>5. v # CONST => v \in Vregs /\ v \in ArgSources
  BY <1>1, ArgsAre
<1>6. \E w \in ArgScratch \cup {spot} : mem' = [mem EXCEPT ![w] = v, ![spot] = v]
  <2>1. CASE v = CONST
    <3>1. mem' = [mem EXCEPT ![spot] = v, ![spot] = v]
      BY <1>1, <1>3, <2>1 DEF MakeStackArg
    <3> QED
      BY <3>1
  <2>2. CASE v # CONST /\ home[v] # SPILL
    <3>1. mem[home[v]] = v
      BY <1>2, <1>5, <2>2, ArgPlaces
    <3>2. mem' = [mem EXCEPT ![spot] = v, ![spot] = v]
      BY <1>1, <1>3, <2>2, <3>1 DEF MakeStackArg
    <3> QED
      BY <3>2
  <2>3. CASE v # CONST /\ home[v] = SPILL
    <3>1. mem[SpillSlots[v]] = v
      BY <1>2, <1>5, <2>3, ArgPlaces
    <3> QED
      BY <2>3, <3>1 DEF MakeStackArg
  <2> QED
    BY <2>1, <2>2, <2>3
<1>7. PICK w \in ArgScratch \cup {spot} : mem' = [mem EXCEPT ![w] = v, ![spot] = v]
  BY <1>6
<1> HIDE DEF v, spot
<1>8. w = spot \/ (w \in Regs /\ w \notin HomesOf(home, live \cup ArgSources))
  BY DEF ArgScratch
<1>9. \A l \in Locs : l # w /\ l # spot => mem'[l] = mem[l]
  BY <1>1, <1>7
<1>10. mem' \in [Locs -> Vregs \cup {CONST, NOTHING, RESULT}] /\ mem'[spot] = v
  BY <1>1, <1>3, <1>5, <1>7
<1>11. \A x \in live \cup ArgSources : mem'[Place(home, x)] = x
  <2> TAKE x \in live \cup ArgSources
  <2>1. x \in Vregs /\ Place(home, x) \in Locs
    BY ArgPlaces
  <2>2. Place(home, x) # spot
    <3>1. spot # SpillSlots[x]
      BY <1>1, <1>3, <2>1, ArgPlaces DEF spot
    <3> QED
      BY <1>3, <2>1, <3>1, ArgPlaces, VregsAre
  <2>3. w # spot => Place(home, x) # w
    BY <1>8, <2>1, ArgPlaces, VregsAre DEF HomesOf
  <2> QED
    BY <1>2, <1>9, <2>1, <2>2, <2>3
<1>12. \A x \in live : home[x] \in Saved => mem'[SaveSlots[home[x]]] = x
  <2> TAKE x \in live
  <2> HAVE home[x] \in Saved
  <2>1. home[x] \in Regs /\ SaveSlots[home[x]] \in Slots /\ SaveSlots[home[x]] \in Locs
    BY ArgPlaces, VregsAre DEF Locs
  <2>2. spot # SaveSlots[home[x]]
    BY <1>1, <1>3, <2>1, ArgPlaces DEF spot
  <2>3. w # spot => w # SaveSlots[home[x]]
    BY <1>8, <2>1, VregsAre
  <2> QED
    BY <1>2, <1>9, <2>1, <2>2, <2>3
<1>13. \A k \in DOMAIN call.argv : k \notin InRegs /\ k < next + 1 => mem'[GoesTo(k)] = call.argv[k]
  <2> TAKE k \in DOMAIN call.argv
  <2> HAVE k \notin InRegs /\ k < next + 1
  <2>1. CASE k = next
    BY <1>10, <2>1 DEF v, spot
  <2>2. CASE k # next
    <3>1. k < next /\ GoesTo(k) \in Slots /\ GoesTo(k) \in Locs
      BY <1>2, <2>2, ArgsAre DEF Locs
    <3>2. GoesTo(k) # spot
      BY <1>1, <1>3, <2>2, ArgPlaces DEF spot
    <3>3. w # spot => w # GoesTo(k)
      BY <1>8, <3>1, VregsAre
    <3> QED
      BY <1>2, <1>9, <3>1, <3>2, <3>3
  <2> QED
    BY <2>1, <2>2
<1>14. /\ Saved' = Saved /\ home' = home /\ live' = live /\ call' = call /\ InRegs' = InRegs
       /\ ArgSources' = ArgSources
       /\ \A x \in live \cup ArgSources : Place(home, x)' = Place(home, x)
       /\ \A k \in DOMAIN call.argv : GoesTo(k)' = GoesTo(k)
  BY <1>1, ContextStays, ArgPlaces
<1>15. CallKeepsLive'
  BY <1>1 DEF CallKeepsLive
<1>16. ArgsMem'
  BY <1>1, <1>4, <1>11, <1>12, <1>13, <1>14, <1>15 DEF ArgsMem
<1> QED
  BY <1>10, <1>16

(* With the last stack argument made, those in registers can be planned.   *)
LEMMA StackArgsMadeStep ==
  CallersInv /\ ArgsFrame /\ ArgsMem /\ StackArgsMade => ArgsMem'
<1> SUFFICES ASSUME CallersInv, ArgsFrame, ArgsMem, StackArgsMade PROVE ArgsMem'
  OBVIOUS
<1>1. /\ stage = "stack" /\ next \notin DOMAIN call.argv /\ stage' = "plan" /\ next' = next
      /\ UNCHANGED context /\ mem' = mem
  BY DEF StackArgsMade
<1>2. /\ Saved' = Saved /\ home' = home /\ live' = live /\ call' = call /\ InRegs' = InRegs
      /\ ArgSources' = ArgSources
      /\ \A x \in live \cup ArgSources : Place(home, x)' = Place(home, x)
      /\ \A k \in DOMAIN call.argv : GoesTo(k)' = GoesTo(k)
  BY <1>1, ContextStays, ArgPlaces
<1>3. CallKeepsLive'
  BY <1>1 DEF CallKeepsLive
<1> QED
  BY <1>1, <1>2, <1>3 DEF ArgsMem

(* The constants among the arguments are loaded last.                      *)
LEMMA RematStep ==
  CallersInv /\ ArgsFrame /\ ArgsMem /\ RematArgs =>
    ArgsMem' /\ mem' \in [Locs -> Vregs \cup {CONST, NOTHING, RESULT}]
<1> SUFFICES ASSUME CallersInv, ArgsFrame, ArgsMem, RematArgs
             PROVE  ArgsMem' /\ mem' \in [Locs -> Vregs \cup {CONST, NOTHING, RESULT}]
  OBVIOUS
<1>1. /\ stage = "planned" /\ stage' = "call" /\ next' = next /\ UNCHANGED context
      /\ mem' = [l \in Locs |-> IF \E k \in InRegs : ArgRegs[k] = l /\ call.argv[k] = CONST
                                   THEN CONST ELSE mem[l]]
      /\ mem \in [Locs -> Vregs \cup {CONST, NOTHING, RESULT}]
  BY DEF RematArgs, CallersInv
<1>2. /\ next \in Nat /\ next > Len(ArgRegs) /\ next <= Len(ArgRegs) + Len(InSlots) + 1
      /\ \A x \in live : home[x] \in Saved => mem[SaveSlots[home[x]]] = x
      /\ \A x \in live : home[x] \notin Saved => mem[Place(home, x)] = x
      /\ \A k \in DOMAIN call.argv : k \notin InRegs /\ k < next => mem[GoesTo(k)] = call.argv[k]
      /\ next \notin DOMAIN call.argv
      /\ \A k \in InRegs : call.argv[k] # CONST => mem[ArgRegs[k]] = call.argv[k]
  BY <1>1 DEF ArgsMem
<1>3. \A k \in InRegs : ArgRegs[k] \in Regs /\ ArgRegs[k] \in Locs
  BY ArgsAre DEF Locs
<1>4. \A l \in Slots : l \in Locs /\ mem'[l] = mem[l]
  BY <1>1, <1>3, VregsAre DEF Locs
<1>5. mem' \in [Locs -> Vregs \cup {CONST, NOTHING, RESULT}]
  BY <1>1
<1>6. \A x \in live : home[x] \in Saved => mem'[SaveSlots[home[x]]] = x
  BY <1>2, <1>4, ArgPlaces, VregsAre
<1>7. ASSUME NEW x \in live, home[x] \notin Saved PROVE mem'[Place(home, x)] = x
  <2>1. x \in Vregs /\ Place(home, x) \in Locs /\ mem[Place(home, x)] = x
    BY <1>2, <1>7, ArgPlaces
  <2>2. \A k \in InRegs : ArgRegs[k] # Place(home, x)
    <3> SUFFICES ASSUME NEW k \in InRegs, ArgRegs[k] = Place(home, x) PROVE FALSE
      OBVIOUS
    <3>1. home[x] # SPILL /\ Place(home, x) = home[x]
      BY <1>3, <2>1, ArgPlaces, VregsAre
    <3>2. home[x] \in CallClobbers /\ home[x] \in CallerSaved /\ home[x] \in HomesOf(home, live)
      BY <3>1, ArgsAre, VregsAre DEF CallClobbers, HomesOf
    <3>3. ~call.tail
      BY DEF ArgsFrame
    <3> QED
      BY <1>7, <3>2, <3>3 DEF Saved
  <2> QED
    BY <1>1, <2>1, <2>2
<1>8. \A k \in DOMAIN call.argv : k \notin InRegs /\ k < next => mem'[GoesTo(k)] = call.argv[k]
  BY <1>2, <1>4, ArgPlaces
<1>9. \A k \in InRegs : call.argv[k] # CONST => mem'[ArgRegs[k]] = call.argv[k]
  <2> TAKE k \in InRegs
  <2> HAVE call.argv[k] # CONST
  <2>1. \A j \in InRegs : ArgRegs[j] = ArgRegs[k] => j = k
    BY ArgsAre, CallersAssumption DEF IsInjective
  <2> QED
    BY <1>1, <1>2, <1>3, <2>1
<1>10. \A k \in InRegs : call.argv[k] = CONST => mem'[ArgRegs[k]] = CONST
  BY <1>1, <1>3
<1>11. /\ Saved' = Saved /\ home' = home /\ live' = live /\ call' = call /\ InRegs' = InRegs
       /\ \A x \in live : Place(home, x)' = Place(home, x)
       /\ \A k \in DOMAIN call.argv : GoesTo(k)' = GoesTo(k)
  BY <1>1, ContextStays, ArgPlaces
<1>12. CallKeepsLive'
  BY <1>1 DEF CallKeepsLive
<1>13. ArgsMem'
  <2>1. stage' = "call" /\ next' = next
    BY <1>1
  <2>2. \A k \in InRegs : (call.argv[k] # CONST => mem'[ArgRegs[k]] = call.argv[k])
                         /\ (call.argv[k] = CONST => mem'[ArgRegs[k]] = CONST)
    BY <1>9, <1>10
  <2> QED
    BY <1>2, <1>6, <1>7, <1>8, <1>11, <1>12, <2>1, <2>2 DEF ArgsMem
<1> QED
  BY <1>5, <1>13

(* The callee changes nothing that is alive and was not saved.             *)
LEMMA CalleeStep ==
  CallersInv /\ ArgsFrame /\ ArgsMem /\ Callee =>
    ArgsMem' /\ mem' \in [Locs -> Vregs \cup {CONST, NOTHING, RESULT}]
<1> SUFFICES ASSUME CallersInv, ArgsFrame, ArgsMem, Callee
             PROVE  ArgsMem' /\ mem' \in [Locs -> Vregs \cup {CONST, NOTHING, RESULT}]
  OBVIOUS
<1>1. /\ stage = "call" /\ ~call.tail /\ stage' = "returned" /\ next' = next /\ UNCHANGED context
      /\ mem' = [l \in Locs |-> IF l = Rax THEN RESULT
                                ELSE IF l \in CallClobbers \cup ToSet(OutSlots) THEN NOTHING ELSE mem[l]]
      /\ mem \in [Locs -> Vregs \cup {CONST, NOTHING, RESULT}]
  BY DEF Callee, CallersInv
<1>2. /\ next \in Nat /\ next > Len(ArgRegs) /\ next <= Len(ArgRegs) + Len(InSlots) + 1
      /\ \A x \in live : home[x] \in Saved => mem[SaveSlots[home[x]]] = x
      /\ \A x \in live : home[x] \notin Saved => mem[Place(home, x)] = x
  BY <1>1 DEF ArgsMem
<1>3. Rax \in Regs /\ Rax \in Locs /\ Rax \in CallClobbers /\ CallClobbers \subseteq CallerSaved
        /\ CallerSaved \subseteq Regs
  BY ArgsAre, VregsAre, CallersAssumption DEF ArgsFrame, CallClobbers, Locs
<1>4. mem'[Rax] = RESULT /\ mem' \in [Locs -> Vregs \cup {CONST, NOTHING, RESULT}]
  BY <1>1, <1>3
<1>5. ASSUME NEW l \in Slots, l \notin ToSet(OutSlots) PROVE l \in Locs /\ mem'[l] = mem[l]
  BY <1>1, <1>3, <1>5, VregsAre DEF Locs
<1>6. ASSUME NEW x \in live, home[x] \in Saved PROVE mem'[SaveSlots[home[x]]] = x
  <2>1. home[x] \in Regs /\ SaveSlots[home[x]] \in Slots
    BY <1>6, ArgPlaces, VregsAre
  <2>2. SaveSlots[home[x]] \notin ToSet(OutSlots)
    BY <2>1, VregsAre, FrameLayout DEF ToSet
  <2> QED
    BY <1>2, <1>5, <1>6, <2>1, <2>2
<1>7. ASSUME NEW x \in live, home[x] \notin Saved PROVE mem'[Place(home, x)] = x
  <2>1. x \in Vregs /\ Place(home, x) \in Locs /\ mem[Place(home, x)] = x
    BY <1>2, <1>7, ArgPlaces
  <2>2. CASE home[x] = SPILL
    <3>1. Place(home, x) \in Slots /\ Place(home, x) = SpillSlots[x]
      BY <2>1, <2>2, ArgPlaces
    <3>2. Place(home, x) \notin ToSet(OutSlots)
      BY <2>1, <3>1, VregsAre, FrameLayout DEF ToSet, Vregs
    <3> QED
      BY <1>5, <2>1, <3>1, <3>2
  <2>3. CASE home[x] # SPILL
    <3>1. Place(home, x) = home[x] /\ home[x] \in Regs /\ home[x] \in HomesOf(home, live)
      BY <2>1, <2>3, ArgPlaces DEF HomesOf
    <3>2. home[x] \notin CallClobbers
      BY <1>1, <1>3, <1>7, <3>1 DEF Saved
    <3>3. home[x] # Rax /\ home[x] \notin ToSet(OutSlots)
      BY <1>3, <3>1, <3>2, VregsAre DEF ToSet
    <3> QED
      BY <1>1, <2>1, <3>1, <3>2, <3>3
  <2> QED
    BY <2>2, <2>3
<1>8. /\ Saved' = Saved /\ home' = home /\ live' = live /\ call' = call
      /\ \A x \in live : Place(home, x)' = Place(home, x)
  BY <1>1, ContextStays, ArgPlaces
<1>9. CallKeepsLive'
  BY <1>1 DEF CallKeepsLive
<1>10. ArgsMem'
  BY <1>1, <1>2, <1>4, <1>6, <1>7, <1>8, <1>9 DEF ArgsMem
<1> QED
  BY <1>4, <1>10

(* The result goes home and what was saved comes back; neither lands where *)
(* the other belongs.                                                      *)
LEMMA FinishCallStep ==
  CallersInv /\ ArgsFrame /\ ArgsMem /\ FinishCall =>
    ArgsMem' /\ mem' \in [Locs -> Vregs \cup {CONST, NOTHING, RESULT}]
<1> SUFFICES ASSUME CallersInv, ArgsFrame, ArgsMem, FinishCall
             PROVE  ArgsMem' /\ mem' \in [Locs -> Vregs \cup {CONST, NOTHING, RESULT}]
  OBVIOUS
<1> DEFINE stored == IF call.dst = CONST THEN mem
                     ELSE [mem EXCEPT ![Place(home, call.dst)] = mem[Rax]]
<1>1. /\ stage = "returned" /\ stage' = "end" /\ next' = next /\ UNCHANGED context
      /\ mem' = [l \in Locs |-> IF l \in Saved THEN stored[SaveSlots[l]] ELSE stored[l]]
      /\ mem \in [Locs -> Vregs \cup {CONST, NOTHING, RESULT}]
  BY DEF FinishCall, CallersInv
<1>2. /\ next \in Nat /\ next > Len(ArgRegs) /\ next <= Len(ArgRegs) + Len(InSlots) + 1
      /\ \A x \in live : home[x] \in Saved => mem[SaveSlots[home[x]]] = x
      /\ \A x \in live : home[x] \notin Saved => mem[Place(home, x)] = x
      /\ mem[Rax] = RESULT /\ ~call.tail
  BY <1>1 DEF ArgsMem
<1>3. call.dst # CONST => call.dst \in Vregs /\ call.dst \notin live
        /\ Place(home, call.dst) \in Locs
  <2>1. call.dst # CONST => call.dst \in Vregs /\ call.dst \notin live
    BY CallersAssumption DEF ArgsFrame
  <2> QED
    BY <2>1, Places DEF ArgsFrame
<1>4. stored \in [Locs -> Vregs \cup {CONST, NOTHING, RESULT}]
  BY <1>1, <1>2, <1>3
<1>5. \A r \in Saved : r \in Regs /\ r \in Locs /\ SaveSlots[r] \in Slots /\ SaveSlots[r] \in Locs
  BY ArgPlaces, VregsAre DEF Locs
<1>6. mem' \in [Locs -> Vregs \cup {CONST, NOTHING, RESULT}]
  <2> HIDE DEF stored
  <2> QED
    BY <1>1, <1>4, <1>5
<1>7. call.dst # CONST => \A x \in live : Place(home, x) # Place(home, call.dst)
  <2> SUFFICES ASSUME call.dst # CONST, NEW x \in live, Place(home, x) = Place(home, call.dst)
               PROVE FALSE
    OBVIOUS
  <2>1. x \in (live \cup {call.dst}) \cap Vregs /\ call.dst \in (live \cup {call.dst}) \cap Vregs
    BY <1>3, ArgPlaces
  <2>2. Value(x) = Value(call.dst)
    BY <2>1, ApartPlaces DEF ArgsFrame
  <2> QED
    BY <1>3, <2>2, ArgPlaces DEF Value
<1>8. call.dst # CONST => /\ \A r \in Saved : SaveSlots[r] # Place(home, call.dst)
                          /\ Place(home, call.dst) \notin Saved
  <2> SUFFICES ASSUME call.dst # CONST
               PROVE  /\ \A r \in Saved : SaveSlots[r] # Place(home, call.dst)
                      /\ Place(home, call.dst) \notin Saved
    OBVIOUS
  <2>1. \A r \in Saved : SaveSlots[r] # Place(home, call.dst)
    BY <1>3, <1>5, ArgPlaces, VregsAre, FrameLayout DEF Vregs
  <2>2. Place(home, call.dst) \notin Saved
    <3> SUFFICES ASSUME Place(home, call.dst) \in HomesOf(home, live) PROVE FALSE
      BY DEF Saved
    <3>1. PICK x \in live : home[x] = Place(home, call.dst) /\ home[x] # SPILL
      BY DEF HomesOf
    <3>2. Place(home, x) = home[x]
      BY <3>1, ArgPlaces
    <3> QED
      BY <1>7, <3>1, <3>2
  <2> QED
    BY <2>1, <2>2
<1>9. \A l \in Locs : (call.dst # CONST => l # Place(home, call.dst)) => stored[l] = mem[l]
  BY <1>1, <1>3
<1>10. call.dst # CONST => stored[Place(home, call.dst)] = RESULT
  BY <1>1, <1>2, <1>3
<1> HIDE DEF stored
<1>11. \A x \in live : mem'[Place(home, x)] = x
  <2> TAKE x \in live
  <2>1. x \in Vregs /\ Place(home, x) \in Locs
    BY ArgPlaces
  <2>2. CASE home[x] \in Saved
    <3>1. home[x] # SPILL
      BY <1>5, <2>2, CallersAssumption
    <3>2. Place(home, x) = home[x]
      BY <2>1, <3>1, ArgPlaces
    <3>3. stored[SaveSlots[home[x]]] = x
      BY <1>2, <1>5, <1>8, <1>9, <2>2
    <3> QED
      BY <1>1, <2>1, <2>2, <3>2, <3>3
  <2>3. CASE home[x] \notin Saved
    <3>1. Place(home, x) \notin Saved
      BY <1>5, <2>1, <2>3, ArgPlaces, VregsAre
    <3>2. stored[Place(home, x)] = x
      BY <1>2, <1>7, <1>9, <2>1, <2>3
    <3> QED
      BY <1>1, <2>1, <3>1, <3>2
  <2> QED
    BY <2>2, <2>3
<1>12. call.dst # CONST => mem'[Place(home, call.dst)] = RESULT
  BY <1>1, <1>3, <1>8, <1>10
<1>13. /\ Saved' = Saved /\ home' = home /\ live' = live /\ call' = call
       /\ \A x \in Vregs : Place(home, x)' = Place(home, x)
  BY <1>1, ContextStays
<1>14. CallKeepsLive'
  <2>1. \A x \in live' : mem'[Place(home, x)'] = x
    BY <1>11, <1>13, ArgPlaces
  <2>2. call'.dst # CONST => mem'[Place(home, call.dst)'] = RESULT
    <3>1. call.dst # CONST => Place(home, call.dst)' = Place(home, call.dst)
      BY <1>1 DEF Place, context
    <3> QED
      BY <1>12, <1>13, <3>1
  <2> QED
    BY <2>1, <2>2 DEF CallKeepsLive
<1>15. \A x \in live : home[x] \in Saved => mem'[SaveSlots[home[x]]] = x
  <2> TAKE x \in live
  <2> HAVE home[x] \in Saved
  <2>1. SaveSlots[home[x]] \notin Saved /\ SaveSlots[home[x]] \in Locs
    BY <1>5, VregsAre
  <2>2. stored[SaveSlots[home[x]]] = x
    BY <1>2, <1>5, <1>8, <1>9
  <2> QED
    BY <1>1, <2>1, <2>2
<1>16. ArgsMem'
  BY <1>1, <1>2, <1>13, <1>14, <1>15 DEF ArgsMem
<1> QED
  BY <1>6, <1>16

-----------------------------------------------------------------------------
(* Every step of the three callers preserves the invariant.                *)
LEMMA CallersStep == CallersInv /\ [CallersNext]_<<vars, cvars>> => CallersInv'
<1> DEFINE Typed == mem \in [Locs -> Vregs \cup {CONST, NOTHING, RESULT}]
<1> SUFFICES ASSUME CallersInv, [CallersNext]_<<vars, cvars>> PROVE CallersInv'
  OBVIOUS
<1>1. CASE Plan
  BY <1>1, PlanStep
<1>2. CASE Planned
  <2>1. UNCHANGED <<context, vars>> /\ Typed /\ mem' = [l \in Locs |-> mem[loc[l]]]
    BY <1>2 DEF Planned, CallersInv
  <2>2. Typed'
    BY <2>1 DEF CallersInv, PlanInv, TypeOK
  <2> QED
    BY <1>2, <2>1, <2>2, StepsOf, ParamsPlanned, ArgsPlanned, EdgePlanned DEF CallersInv
<1>3. CASE MakeStackParam
  <2>1. UNCHANGED <<context, vars>> /\ job = "params"
    BY <1>3 DEF MakeStackParam
  <2>2. ParamsFrame /\ ParamsMem
    BY <2>1 DEF CallersInv, ArgsFrame, EdgeFrame
  <2> QED
    BY <1>3, <2>1, <2>2, StepsOf, StackParamStep DEF CallersInv
<1>4. CASE SaveLive \/ MakeStackArg \/ StackArgsMade \/ RematArgs \/ Callee \/ FinishCall
  <2>1. UNCHANGED <<context, vars>> /\ job = "args"
    BY <1>4 DEF SaveLive, MakeStackArg, StackArgsMade, RematArgs, Callee, FinishCall
  <2>2. ArgsFrame /\ ArgsMem /\ Typed
    BY <2>1 DEF CallersInv, ParamsFrame, EdgeFrame
  <2>3. ArgsMem' /\ Typed'
    BY <1>4, <2>2, SaveStep, StackArgStep, StackArgsMadeStep, RematStep, CalleeStep,
       FinishCallStep DEF StackArgsMade
  <2> QED
    BY <2>1, <2>2, <2>3, StepsOf DEF CallersInv
<1>5. CASE UNCHANGED <<vars, cvars>>
  <2>1. /\ UNCHANGED <<context, vars>> /\ stage' = stage /\ next' = next /\ mem' = mem
    BY <1>5 DEF cvars, context
  <2>2. ParamsFrame /\ ParamsMem => ParamsMem'
    BY <2>1, ContextStays DEF ParamsMem, ParamsFrame
  <2>3. ArgsFrame /\ ArgsMem => ArgsMem'
    <3> SUFFICES ASSUME ArgsFrame, ArgsMem PROVE ArgsMem'
      OBVIOUS
    <3>1. CallKeepsLive'
      <4>1. CallKeepsLive
        BY DEF ArgsMem
      <4> QED
        BY <2>1, <4>1 DEF CallKeepsLive, Place, context
    <3> QED
      BY <2>1, <3>1, ContextStays, ArgPlaces DEF ArgsMem
  <2>4. EdgeFrame /\ EdgeMem => EdgeMem'
    BY <2>1, ContextStays DEF EdgeMem, EdgeFrame
  <2> QED
    BY <2>1, <2>2, <2>3, <2>4, StepsOf DEF CallersInv
<1> QED
  BY <1>1, <1>2, <1>3, <1>4, <1>5 DEF CallersNext

(* The invariant holds for every layout, call and assignment of homes that *)
(* the register allocator may leave, when no function overwrites a         *)
(* parameter it has not read.                                              *)
THEOREM CallersHold == ASSUME ~Overwritten PROVE CallersSpec => []CallersInv
<1>1. CallersInit => CallersInv
  BY InitSound
<1> QED
  BY <1>1, CallersStep, PTL DEF CallersSpec

(* Every parameter, argument and variable alive across an edge arrives     *)
(* where it is looked for next (move.c:42-95, flow.c:24-99,                *)
(* regalloc.c:396-492).                                                    *)
THEOREM ValuesSafe == ASSUME ~Overwritten PROVE CallersSpec => []ValuesArrive
<1>1. CallersInv => ValuesArrive
  <2> SUFFICES ASSUME CallersInv PROVE ParamsArrive /\ ArgsArrive /\ EdgesDeliver
    BY DEF ValuesArrive
  <2>1. ParamsArrive
    <3> SUFFICES ASSUME job = "params", stage = "planned", next \notin Vregs, NEW v \in live
                 PROVE  mem[Place(home, v)] = v
      BY DEF ParamsArrive
    <3>1. ParamsFrame /\ ParamsMem
      BY DEF CallersInv, ArgsFrame, EdgeFrame
    <3>2. v \in used /\ v \in Vregs
      BY <3>1 DEF ParamsFrame
    <3>3. v < next
      BY <3>1, <3>2, VregsAre DEF ParamsMem
    <3> QED
      BY <3>1, <3>2, <3>3 DEF ParamsMem
  <2>2. ArgsArrive
    <3> SUFFICES ASSUME stage = "call", NEW k \in DOMAIN call.argv
                 PROVE  mem[GoesTo(k)] = call.argv[k]
      BY DEF ArgsArrive
    <3>1. ArgsFrame /\ ArgsMem
      BY DEF CallersInv, ParamsMem, EdgeMem
    <3>2. CASE k \in InRegs
      BY <3>1, <3>2, ArgsAre DEF ArgsMem
    <3>3. CASE k \notin InRegs
      <4>1. k < next
        BY <3>1, <3>3, ArgsAre DEF ArgsMem
      <4> QED
        BY <3>1, <3>3, <4>1 DEF ArgsMem
    <3> QED
      BY <3>2, <3>3
  <2>3. EdgesDeliver
    BY DEF CallersInv, EdgesDeliver, EdgeMem, ParamsFrame, ArgsFrame
  <2> QED
    BY <2>1, <2>2, <2>3
<1> QED
  BY <1>1, CallersHold, PTL

(* After a call the result and every variable that is still needed are     *)
(* where the register allocator says (regs.c:10-41, flow.c:9-15, 101-116). *)
THEOREM CallsSafe == ASSUME ~Overwritten PROVE CallersSpec => []CallKeepsLive
<1>1. CallersInv => CallKeepsLive
  BY DEF CallersInv, ArgsMem, ParamsMem, EdgeMem, CallKeepsLive
<1> QED
  BY <1>1, CallersHold, PTL

(* The callers' variables keep their types.                                *)
THEOREM CallersTyped == ASSUME ~Overwritten PROVE CallersSpec => []CallersTypeOK
<1>1. CallersInv => CallersTypeOK
  <2> SUFFICES ASSUME CallersInv PROVE CallersTypeOK
    OBVIOUS
  <2>1. mem \in [Locs -> Vregs \cup {CONST, NOTHING, RESULT}]
    BY DEF CallersInv
  <2>2. ToSet(<<>>) = {} /\ CallerSaved \subseteq Regs /\ ArgVregs \subseteq Vregs
    BY CallersAssumption DEF ToSet
  <2>3. CASE ParamsFrame /\ ParamsMem
    <3>1. next \in 1 .. Len(ArgRegs) + Len(InSlots) + 1
      BY <2>3, VregsAre DEF ParamsMem
    <3> QED
      BY <2>1, <2>2, <2>3, <3>1 DEF CallersTypeOK, ParamsFrame, ParamsMem, NoCall
  <2>4. CASE ArgsFrame /\ ArgsMem
    <3>1. next \in 1 .. Len(ArgRegs) + Len(InSlots) + 1
      BY <2>4, VregsAre DEF ArgsMem
    <3>2. ToSet(call.argv) \subseteq Vregs \cup {CONST}
      BY <2>2, <2>4, ArgsAre DEF ToSet
    <3> QED
      BY <2>1, <2>2, <2>4, <3>1, <3>2, ArgsAre DEF CallersTypeOK, ArgsFrame, ArgsMem
  <2>5. CASE EdgeFrame /\ EdgeMem
    <3>1. next \in 1 .. Len(ArgRegs) + Len(InSlots) + 1
      BY <2>5, VregsAre DEF EdgeMem
    <3> QED
      BY <2>1, <2>2, <2>5, <3>1 DEF CallersTypeOK, EdgeFrame, EdgeMem, NoCall
  <2> QED
    BY <2>3, <2>4, <2>5 DEF CallersInv
<1> QED
  BY <1>1, CallersHold, PTL

(* The groups the callers ask for are those the planner is right for: what *)
(* it emits for them is a simultaneous assignment.                         *)
THEOREM CallersImplement == ASSUME ~Overwritten PROVE CallersSpec => Parallel
<1>1. CallersInit => PA!Init
  BY InitSound DEF Init, Start, PA!Init, PA!Locs
<1>2. CallersInv /\ [CallersNext]_<<vars, cvars>> => PlanInv /\ [Next]_vars
  BY DEF CallersInv, CallersNext, Plan, Planned, MakeStackParam, SaveLive, MakeStackArg,
     StackArgsMade, RematArgs, Callee, FinishCall
<1> QED
  BY <1>1, <1>2, PlanStepsImplement, CallersHold, PTL DEF CallersSpec, Parallel, PA!Spec

-----------------------------------------------------------------------------
(***************************************************************************)
(* Divisions by a constant, emitted as a multiplication: for a word of any *)
(* width above three bits.  The multiplier stands for M / 2^p, a little    *)
(* more than 1 / d.  The surplus is e / (d * 2^p), and the quotient is     *)
(* right for every word when it is too small to lift any of them to the    *)
(* next quotient: the word in most danger is anc, the largest with the     *)
(* remainder d - 1, and anc * e < 2^p is what the loop of magic_signed     *)
(* searches for.  An unsigned multiplier always has that precision, in one *)
(* bit more than the word.                                                 *)
(***************************************************************************)

(* Induction, for a set that is given.                                     *)
LEMMA AllNumbers ==
  ASSUME NEW S, 0 \in S, \A n \in Nat : n \in S => n + 1 \in S
  PROVE  \A n \in Nat : n \in S
<1> SUFFICES ASSUME NEW m \in Nat, m \notin S PROVE FALSE
  OBVIOUS
<1> DEFINE R == OpToRel(<, Nat)
<1>1. Nat \ S # {} /\ Nat \ S \subseteq Nat
  OBVIOUS
<1>2. PICK n \in Nat \ S : \A k \in Nat \ S : ~(<<k, n>> \in R)
  BY <1>1, NatLessThanWellFounded, WFMin
<1>3. \A k \in Nat \ S : ~(k < n)
  BY <1>2 DEF OpToRel
<1>4. n # 0
  OBVIOUS
<1>5. n - 1 \in Nat /\ n - 1 < n /\ (n - 1) + 1 = n
  BY <1>4
<1> QED
  BY <1>3, <1>5

(***************************************************************************)
(* Powers of two.                                                          *)
(***************************************************************************)
(* Each is twice the one before: the recursive function that defines them  *)
(* exists, which takes an induction on its domain.                         *)
LEMMA Doubles ==
  TwoTo[0] = 1 /\ \A e \in 0 .. 2 * W : e # 2 * W => TwoTo[e + 1] = 2 * TwoTo[e]
<1> DEFINE N == 2 * W
           Obeys(f, n) == f = [e \in 0 .. n |-> IF e = 0 THEN 1 ELSE 2 * f[e - 1]]
           S == {n \in Nat : \E f : Obeys(f, n)}
           power == CHOOSE f : Obeys(f, N)
<1>0. N \in Nat
  BY WidthAssumption
<1>1. 0 \in S
  <2>1. Obeys([e \in 0 .. 0 |-> 1], 0)
    OBVIOUS
  <2> QED
    BY <2>1
<1>2. ASSUME NEW n \in Nat, n \in S PROVE n + 1 \in S
  <2>1. PICK f : Obeys(f, n)
    BY <1>2
  <2> DEFINE g == [e \in 0 .. n + 1 |-> IF e = n + 1 THEN 2 * f[n] ELSE f[e]]
  <2>2. ASSUME NEW e \in 0 .. n + 1 PROVE g[e] = IF e = 0 THEN 1 ELSE 2 * g[e - 1]
    <3>1. CASE e = 0
      <4>1. f[0] = 1
        BY <2>1
      <4> QED
        BY <3>1, <4>1
    <3>2. CASE e = n + 1
      <4>1. e # 0 /\ e - 1 = n /\ n \in 0 .. n + 1 /\ n # n + 1
        BY <3>2
      <4> QED
        BY <3>2, <4>1
    <3>3. CASE e # 0 /\ e # n + 1
      <4>1. e \in 0 .. n /\ e - 1 \in 0 .. n + 1 /\ e - 1 # n + 1
        BY <3>3
      <4>2. f[e] = 2 * f[e - 1]
        BY <2>1, <3>3, <4>1
      <4> QED
        BY <3>3, <4>1, <4>2
    <3> QED
      BY <3>1, <3>2, <3>3
  <2>3. Obeys(g, n + 1)
    <3>1. g = [e \in 0 .. n + 1 |-> g[e]]
      OBVIOUS
    <3> HIDE DEF g
    <3> QED
      BY <2>2, <3>1
  <2> HIDE DEF Obeys
  <2> QED
    BY <2>3
<1>3. N \in S
  <2> HIDE DEF S, N
  <2>1. \A n \in Nat : n \in S
    BY <1>1, <1>2, AllNumbers
  <2> QED
    BY <1>0, <2>1
<1>4. Obeys(power, N)
  <2> HIDE DEF Obeys, N
  <2> QED
    BY <1>3
<1>5. TwoTo = [e \in 0 .. N |-> power[e]]
  BY DEF TwoTo
<1> HIDE DEF power, N
<1>6. power = [e \in 0 .. N |-> IF e = 0 THEN 1 ELSE 2 * power[e - 1]]
  BY <1>4
<1>7. TwoTo[0] = 1
  BY <1>0, <1>5, <1>6
<1>8. ASSUME NEW e \in 0 .. N, e # N PROVE TwoTo[e + 1] = 2 * TwoTo[e]
  <2>1. e + 1 \in 0 .. N /\ e + 1 # 0 /\ (e + 1) - 1 = e
    BY <1>0, <1>8
  <2> QED
    BY <1>5, <1>6, <2>1
<1> QED
  BY <1>7, <1>8 DEF N

(* They are positive.                                                     *)
LEMMA PowersAre == \A e \in 0 .. 2 * W : TwoTo[e] \in Nat \ {0}
<1> DEFINE S == {e \in Nat : e <= 2 * W => TwoTo[e] \in Nat \ {0}}
<1>1. 0 \in S
  BY Doubles
<1>2. ASSUME NEW e \in Nat, e \in S PROVE e + 1 \in S
  <2> SUFFICES ASSUME e + 1 <= 2 * W PROVE TwoTo[e + 1] \in Nat \ {0}
    OBVIOUS
  <2>1. e \in 0 .. 2 * W /\ e # 2 * W
    BY WidthAssumption
  <2>2. TwoTo[e] \in Nat \ {0}
    BY <1>2, <2>1
  <2> QED
    BY <2>1, <2>2, Doubles
<1> HIDE DEF S
<1>3. \A e \in Nat : e \in S
  BY <1>1, <1>2, AllNumbers
<1> QED
  BY <1>3, WidthAssumption DEF S

(* The product of two of them is one.                                      *)
LEMMA PowersAdd ==
  ASSUME NEW a \in Nat, NEW b \in Nat, a + b <= 2 * W
  PROVE  TwoTo[a + b] = TwoTo[a] * TwoTo[b]
<1> DEFINE S == {j \in Nat : a + j <= 2 * W => TwoTo[a + j] = TwoTo[a] * TwoTo[j]}
<1>0. a \in 0 .. 2 * W /\ TwoTo[a] \in Nat /\ TwoTo[0] = 1 /\ 2 * W \in Nat
  BY WidthAssumption, PowersAre, Doubles
<1>1. 0 \in S
  BY <1>0
<1>2. ASSUME NEW j \in Nat, j \in S PROVE j + 1 \in S
  <2> SUFFICES ASSUME a + (j + 1) <= 2 * W PROVE TwoTo[a + (j + 1)] = TwoTo[a] * TwoTo[j + 1]
    OBVIOUS
  <2>1. /\ a + j \in 0 .. 2 * W /\ a + j # 2 * W /\ j \in 0 .. 2 * W /\ j # 2 * W
        /\ a + (j + 1) = (a + j) + 1
    BY <1>0
  <2>2. TwoTo[a + j] = TwoTo[a] * TwoTo[j]
    BY <1>2, <2>1
  <2>3. TwoTo[(a + j) + 1] = 2 * TwoTo[a + j] /\ TwoTo[j + 1] = 2 * TwoTo[j] /\ TwoTo[j] \in Nat
    BY <2>1, Doubles, PowersAre
  <2>4. 2 * (TwoTo[a] * TwoTo[j]) = TwoTo[a] * (2 * TwoTo[j])
    BY <1>0, <2>3
  <2> QED
    BY <2>1, <2>2, <2>3, <2>4
<1> HIDE DEF S
<1>3. \A j \in Nat : j \in S
  BY <1>1, <1>2, AllNumbers
<1>4. b \in S
  BY <1>3
<1> QED
  BY <1>4 DEF S

(***************************************************************************)
(* Products and quotients.                                                 *)
(***************************************************************************)
LEMMA QuotientIs ==
  ASSUME NEW b \in Nat \ {0}
  PROVE  \A a, q \in Int : q * b <= a /\ a < q * b + b => a \div b = q /\ a % b = a - q * b
  OBVIOUS

LEMMA QuotientOf ==
  ASSUME NEW b \in Nat \ {0}
  PROVE  \A a \in Int :
           /\ a \div b \in Int /\ a % b \in 0 .. b - 1
           /\ a = (a \div b) * b + (a % b)
           /\ a >= 0 => a \div b >= 0
  OBVIOUS

(* Numbers that are the same word.                                         *)
LEMMA SameWord ==
  ASSUME NEW c \in Nat \ {0}
  PROVE  \A u, v, i \in Int : u = v + i * c => u % c = v % c
<1> SUFFICES ASSUME NEW u \in Int, NEW v \in Int, NEW i \in Int, u = v + i * c
             PROVE  u % c = v % c
  OBVIOUS
<1>1. v = (v \div c) * c + (v % c) /\ v \div c \in Int /\ v % c \in 0 .. c - 1
  BY QuotientOf
<1>2. u = ((v \div c) + i) * c + (v % c)
  BY <1>1
<1> DEFINE q == (v \div c) + i
<1>3. q \in Int /\ q * c <= u /\ u < q * c + c
  BY <1>1, <1>2
<1>4. u % c = u - q * c
  BY <1>3, QuotientIs
<1> QED
  BY <1>1, <1>2, <1>4

(* The word: its size, half of it, and what Wrap and Signed make of it.    *)
Size == TwoTo[W]

LEMMA SizeIs ==
  /\ Size \in Nat /\ TwoTop \in Nat /\ Size = 2 * TwoTop /\ TwoTop >= 8
  /\ \E h \in Nat : TwoTop = 2 * h
<1>1. W - 1 \in 0 .. 2 * W /\ W - 1 # 2 * W /\ (W - 1) + 1 = W
  BY WidthAssumption
<1>2. W - 2 \in 0 .. 2 * W /\ W - 2 # 2 * W /\ (W - 2) + 1 = W - 1
  BY WidthAssumption
<1>3. W - 3 \in 0 .. 2 * W /\ W - 3 # 2 * W /\ (W - 3) + 1 = W - 2
  BY WidthAssumption
<1>4. W - 4 \in 0 .. 2 * W /\ W - 4 # 2 * W /\ (W - 4) + 1 = W - 3
  BY WidthAssumption
<1>5. TwoTo[W] = 2 * TwoTo[W - 1] /\ TwoTo[W - 1] = 2 * TwoTo[W - 2] /\ TwoTo[W - 2] = 2 * TwoTo[W - 3] /\ TwoTo[W - 3] = 2 * TwoTo[W - 4]
  BY <1>1, <1>2, <1>3, <1>4, Doubles
<1>6. TwoTo[W - 4] \in Nat \ {0}
  BY <1>4, PowersAre
<1> QED
  BY <1>5, <1>6 DEF Size, TwoTop

LEMMA WrapIs ==
  ASSUME NEW v \in Int
  PROVE  /\ Wrap(v) \in 0 .. Size - 1
         /\ v \in 0 .. Size - 1 => Wrap(v) = v
         /\ \E j \in Int : v = Wrap(v) + j * Size
<1>1. Size \in Nat \ {0}
  BY SizeIs
<1>2. Wrap(v) = v % Size
  BY DEF Wrap, Size
<1>3. v = (v \div Size) * Size + (v % Size) /\ v \div Size \in Int /\ v % Size \in 0 .. Size - 1
  BY <1>1, QuotientOf
<1>5. ASSUME v \in 0 .. Size - 1 PROVE v % Size = v
  <2>1. 0 \in Int /\ 0 * Size = 0 /\ 0 * Size <= v /\ v < 0 * Size + Size
    BY <1>1, <1>5
  <2>2. v % Size = v - 0 * Size
    BY <1>1, <2>1, QuotientIs
  <2> QED
    BY <2>1, <2>2
<1>6. v = Wrap(v) + (v \div Size) * Size
  BY <1>1, <1>2, <1>3
<1> QED
  BY <1>2, <1>3, <1>5, <1>6

LEMMA WrapSame ==
  ASSUME NEW a \in Int, NEW b \in Int, NEW j \in Int, a = b + j * Size
  PROVE  Wrap(a) = Wrap(b)
<1>1. Size \in Nat \ {0}
  BY SizeIs
<1>2. Wrap(a) = a % Size /\ Wrap(b) = b % Size
  BY DEF Wrap, Size
<1>3. a % Size = b % Size
  BY <1>1, SameWord
<1> QED
  BY <1>2, <1>3

LEMMA SignedIs ==
  ASSUME NEW v \in Int
  PROVE  /\ Signed(v) \in -TwoTop .. TwoTop - 1
         /\ v \in -TwoTop .. TwoTop - 1 => Signed(v) = v
         /\ \E j \in Int : v = Signed(v) + j * Size
<1>1. Size \in Nat /\ TwoTop \in Nat /\ Size = 2 * TwoTop /\ TwoTop >= 8
  BY SizeIs
<1>2. Wrap(v) \in 0 .. Size - 1 /\ Wrap(v) \in Int
  BY WrapIs
<1>3. Signed(v) = IF Wrap(v) >= TwoTop THEN Wrap(v) - Size ELSE Wrap(v)
  BY DEF Signed, TwoTop, Size
<1>4. PICK j \in Int : v = Wrap(v) + j * Size
  BY WrapIs
<1>5. v = Signed(v) + j * Size \/ v = Signed(v) + (j + 1) * Size
  BY <1>1, <1>2, <1>3, <1>4
<1>6. Signed(v) \in -TwoTop .. TwoTop - 1
  BY <1>1, <1>2, <1>3
<1>7. ASSUME v \in -TwoTop .. TwoTop - 1 PROVE Signed(v) = v
  <2>1. CASE v >= 0
    <3>1. Wrap(v) = v
      BY <1>1, <1>7, <2>1, WrapIs
    <3> QED
      BY <1>1, <1>3, <1>7, <3>1
  <2>2. CASE v < 0
    <3> DEFINE u == v + Size
               i == -1
    <3>1. u \in Int /\ i \in Int /\ v = u + i * Size /\ u \in 0 .. Size - 1
      BY <1>1, <1>7, <2>2
    <3> HIDE DEF u, i
    <3>2. Wrap(v) = Wrap(u)
      BY <3>1, WrapSame
    <3>3. Wrap(v) = u
      BY <3>1, <3>2, WrapIs
    <3> QED
      BY <1>1, <1>3, <1>7, <2>2, <3>3 DEF u
  <2> QED
    BY <2>1, <2>2
<1>8. \E i \in Int : v = Signed(v) + i * Size
  <2>1. CASE v = Signed(v) + j * Size
    BY <2>1
  <2>2. CASE v = Signed(v) + (j + 1) * Size
    <3>1. j + 1 \in Int
      OBVIOUS
    <3> QED
      BY <2>2, <3>1
  <2> QED
    BY <1>5, <2>1, <2>2
<1> QED
  BY <1>6, <1>7, <1>8

(***************************************************************************)
(* Unsigned division.  The multiplier, with the bit that does not fit into *)
(* the word, is a little more than the reciprocal: m of it is kept.        *)
(***************************************************************************)
LEMMA HighPart ==
  ASSUME NEW B \in Nat \ {0}, NEW D \in Nat \ {0}, NEW by \in Nat \ {0}, NEW m \in 0 .. B - 1, NEW e \in 1 .. D,
         NEW n \in 0 .. B - 1, (B + m) * by = B * D + e
  PROVE  LET t == (n * m) \div B
             q == n \div by
         IN t \in 0 .. n /\ q \in Nat /\ q * D <= n + t /\ n + t < q * D + D
<1> DEFINE N == n * m
           t == N \div B
           u == N % B
           q == n \div by
           r == n % by
           X == B * D
           w == n + t - q * D
           z == B * w + u
<1>1. n \in Nat /\ m \in Nat /\ e \in Nat /\ n * m \in Nat /\ N = n * m
  OBVIOUS
<1> HIDE DEF N
<1>2. t \in Nat /\ u \in 0 .. B - 1 /\ n * m = t * B + u
  BY <1>1
<1>3. q \in Nat /\ r \in 0 .. by - 1 /\ n = q * by + r
  BY <1>1
<1> HIDE DEF t, u, q, r
<1>4. X \in Nat \ {0} /\ w \in Int /\ z \in Int
  BY <1>1, <1>2, <1>3
<1>5. by * z = n * e + r * X
  <2>1. z = n * (B + m) - q * X
    BY <1>1, <1>2, <1>3
  <2>2. by * z = n * ((B + m) * by) - (q * by) * X
    BY <1>1, <1>3, <1>4, <2>1
  <2>3. by * z = n * (X + e) - (n - r) * X
    BY <1>3, <2>2
  <2> HIDE DEF X, z
  <2> QED
    BY <1>1, <1>3, <1>4, <2>3
<1>6. n * e < X
  <2>1. n * e <= n * D
    BY <1>1
  <2>2. n * D < B * D
    BY <1>1
  <2> QED
    BY <1>1, <2>1, <2>2
<1>7. r * X <= (by - 1) * X
  <2> HIDE DEF X
  <2> QED
    BY <1>3, <1>4
<1>8. 0 <= by * z /\ by * z < by * X
  <2>1. n * e >= 0 /\ r * X >= 0
    <3> HIDE DEF X
    <3> QED
      BY <1>1, <1>3, <1>4
  <2> HIDE DEF X, z
  <2> QED
    BY <1>1, <1>3, <1>4, <1>5, <1>6, <1>7, <2>1
<1>9. 0 <= z /\ z < X
  <2> HIDE DEF X, z
  <2> QED
    BY <1>4, <1>8
<1>10. 0 <= w
  <2> SUFFICES ASSUME w <= -1 PROVE FALSE
    BY <1>4
  <2> HIDE DEF w
  <2>1. B * w <= -B
    BY <1>4
  <2> QED
    BY <1>2, <1>4, <1>9, <2>1
<1>11. w < D
  <2> SUFFICES ASSUME D <= w PROVE FALSE
    BY <1>4
  <2> HIDE DEF w
  <2>1. B * D <= B * w
    BY <1>4
  <2> QED
    BY <1>2, <1>4, <1>9, <2>1
<1>12. t <= n
  <2> SUFFICES ASSUME n + 1 <= t PROVE FALSE
    BY <1>1, <1>2
  <2>1. (n + 1) * B <= t * B
    BY <1>1, <1>2
  <2>2. n * m <= n * B
    BY <1>1
  <2> QED
    BY <1>1, <1>2, <2>1, <2>2
<1>13. q * D \in Int
  BY <1>3
<1> QED
  BY <1>1, <1>2, <1>3, <1>10, <1>11, <1>12, <1>13 DEF t, q, N

(* The mean of the dividend and the product, which never leaves the word,  *)
(* shifted by the rest.                                                    *)
LEMMA MeanIs ==
  ASSUME NEW n \in Nat, NEW t \in 0 .. n, NEW q \in Nat, NEW H \in Nat \ {0},
         q * (2 * H) <= n + t, n + t < q * (2 * H) + 2 * H
  PROVE  LET mean == (n - t) \div 2 + t
         IN mean \in 0 .. n /\ mean \div H = q
<1> DEFINE h == (n - t) \div 2
           c == (n - t) % 2
           mean == h + t
<1>1. n - t \in Nat
  OBVIOUS
<1>2. h \in Nat /\ c \in 0 .. 1 /\ n - t = h * 2 + c
  BY <1>1, QuotientOf
<1> HIDE DEF h, c
<1>3. mean \in 0 .. n /\ n + t = 2 * mean + c
  BY <1>2
<1> DEFINE a == q * H
<1>4. a \in Nat /\ q * (2 * H) = 2 * a
  OBVIOUS
<1> HIDE DEF a
<1>5. a <= mean /\ mean < a + H
  BY <1>2, <1>3, <1>4
<1> HIDE DEF mean
<1>6. mean \div H = q
  <2>1. q * H <= mean /\ mean < q * H + H /\ mean \in Int /\ q \in Int
    BY <1>3, <1>5 DEF a
  <2> QED
    BY <2>1
<1> QED
  BY <1>3, <1>6 DEF mean, h

(* A number has as many bits as magic_unsigned counts.                     *)
LEMMA BitsIs ==
  ASSUME NEW v \in 1 .. Size - 1
  PROVE  Bits(v) \in 1 .. W /\ TwoTo[Bits(v) - 1] <= v /\ v < TwoTo[Bits(v)]
<1> DEFINE Fits(k) == TwoTo[k - 1] <= v /\ v < TwoTo[k]
           S == {j \in Nat : j <= W /\ v < TwoTo[j] => \E k \in 1 .. W : Fits(k)}
<1>0. Size \in Nat /\ v \in Nat /\ v < Size /\ W \in Nat
  BY SizeIs, WidthAssumption
<1>1. 0 \in S
  BY <1>0, Doubles
<1>2. ASSUME NEW j \in Nat, j \in S PROVE j + 1 \in S
  <2> SUFFICES ASSUME j + 1 <= W, v < TwoTo[j + 1] PROVE \E k \in 1 .. W : Fits(k)
    OBVIOUS
  <2>1. CASE v < TwoTo[j]
    BY <1>0, <1>2, <2>1
  <2>2. CASE ~(v < TwoTo[j])
    <3>1. j + 1 \in 1 .. W /\ (j + 1) - 1 = j /\ j \in 0 .. 2 * W
      BY <1>0
    <3>2. TwoTo[j] \in Nat
      BY <3>1, PowersAre
    <3>3. TwoTo[j] <= v
      BY <1>0, <2>2, <3>2
    <3>4. Fits(j + 1)
      BY <3>1, <3>3
    <3> QED
      BY <3>1, <3>4
  <2> QED
    BY <2>1, <2>2
<1>3. W \in S
  <2> HIDE DEF S
  <2>1. \A j \in Nat : j \in S
    BY <1>1, <1>2, AllNumbers
  <2> QED
    BY <1>0, <2>1
<1>4. \E k \in 1 .. W : Fits(k)
  BY <1>0, <1>3 DEF Size
<1> QED
  BY <1>4 DEF Bits

LEMMA DivisorsAre ==
  ASSUME NEW by \in Divisors
  PROVE  by \in 3 .. TwoTop - 1 /\ \A k \in 0 .. W - 1 : by # TwoTo[k]
<1>1. by \in 1 .. TwoTop - 1 /\ by \notin PowersOfTwo /\ TwoTop \in Nat
  BY SizeIs DEF Divisors
<1>2. \A k \in 0 .. W - 1 : by # TwoTo[k]
  BY <1>1 DEF PowersOfTwo
<1>3. 0 \in 0 .. W - 1 /\ 1 \in 0 .. W - 1 /\ 0 \in 0 .. 2 * W /\ 0 # 2 * W /\ 0 + 1 = 1
  BY WidthAssumption
<1>4. TwoTo[0] = 1 /\ TwoTo[1] = 2
  BY <1>3, Doubles
<1> QED
  BY <1>1, <1>2, <1>3, <1>4

(* The multiplier of magic_unsigned fits the word, and its surplus is at   *)
(* most 2^shift.                                                           *)
LEMMA UnsignedFits ==
  ASSUME NEW by \in Divisors
  PROVE  LET mu == MagicUnsigned(by)
         IN /\ mu.s \in 2 .. W - 1 /\ mu.m \in 0 .. Size - 1
            /\ \E e \in 1 .. TwoTo[mu.s] : (Size + mu.m) * by = Size * TwoTo[mu.s] + e
<1> DEFINE k == Bits(by - 1)
           low == TwoTo[k] - by
           N == low * Size
           q == N \div by
           r == N % by
           mu == MagicUnsigned(by)
<1>0. Size \in Nat /\ TwoTop \in Nat /\ Size = 2 * TwoTop /\ TwoTop >= 8 /\ W \in Nat /\ W > 3
  BY SizeIs, WidthAssumption
<1>1. by \in 3 .. TwoTop - 1 /\ \A j \in 0 .. W - 1 : by # TwoTo[j]
  BY DivisorsAre
<1>2. by - 1 \in 1 .. Size - 1
  BY <1>0, <1>1
<1>3. k \in 1 .. W /\ TwoTo[k - 1] <= by - 1 /\ by - 1 < TwoTo[k]
  BY <1>2, BitsIs
<1> HIDE DEF k
<1>4. /\ k - 1 \in 0 .. 2 * W /\ k - 1 # 2 * W /\ (k - 1) + 1 = k /\ k \in 0 .. 2 * W
      /\ 0 \in 0 .. 2 * W /\ 0 # 2 * W
  BY <1>0, <1>3
<1>5. TwoTo[k] = 2 * TwoTo[k - 1] /\ TwoTo[k] \in Nat /\ TwoTo[k - 1] \in Nat /\ TwoTo[0] = 1
  BY <1>4, Doubles, PowersAre
<1>6. k # 1
  BY <1>1, <1>3, <1>5
<1>7. k # W
  BY <1>0, <1>1, <1>3 DEF TwoTop
<1>8. k \in 2 .. W - 1 /\ k \in 0 .. W - 1
  BY <1>0, <1>3, <1>6, <1>7
<1>9. by < TwoTo[k] /\ low \in 1 .. by - 1
  BY <1>1, <1>3, <1>5, <1>8
<1> HIDE DEF low
<1>10. low * Size \in Nat /\ N = low * Size
  BY <1>0, <1>9
<1> HIDE DEF N
<1>11. q \in Nat /\ r \in 0 .. by - 1 /\ N = q * by + r
  BY <1>1, <1>10
<1> HIDE DEF q, r
<1>12. q + 1 \in 0 .. Size - 1
  <2> SUFFICES ASSUME Size - 1 <= q PROVE FALSE
    BY <1>0, <1>11
  <2>1. (Size - 1) * by <= q * by
    BY <1>0, <1>1, <1>11
  <2>2. low * Size <= (by - 1) * Size
    BY <1>0, <1>1, <1>9
  <2>3. (by - 1) * Size = by * Size - Size /\ (Size - 1) * by = by * Size - by
    BY <1>0, <1>1
  <2> QED
    BY <1>0, <1>1, <1>10, <1>11, <2>1, <2>2, <2>3
<1>13. mu.s = k /\ mu.m = q + 1
  <2>1. mu = [m |-> Wrap(q + 1), s |-> k]
    BY DEF MagicUnsigned, q, N, low, k, Size
  <2>2. Wrap(q + 1) = q + 1
    BY <1>0, <1>12, WrapIs
  <2> QED
    BY <2>1, <2>2
<1> DEFINE e == by - r
<1>14. e \in 1 .. TwoTo[k]
  BY <1>1, <1>5, <1>9, <1>11
<1>15. (Size + (q + 1)) * by = Size * TwoTo[k] + e
  <2>1. (Size + (q + 1)) * by = Size * by + q * by + by
    BY <1>0, <1>1, <1>11
  <2>2. low * Size = Size * TwoTo[k] - Size * by
    BY <1>0, <1>1, <1>5 DEF low
  <2> QED
    BY <1>0, <1>1, <1>5, <1>10, <1>11, <2>1, <2>2
<1> HIDE DEF mu, e
<1> QED
  BY <1>8, <1>12, <1>13, <1>14, <1>15 DEF mu

(* What the unsigned code computes is the quotient (make_udiv_magic).      *)
LEMMA UnsignedExact ==
  ASSUME d \in Divisors, magic = MagicUnsigned(d), NEW n \in 0 .. Size - 1
  PROVE  UnsignedQuotient(n) = n \div d
<1>0. Size \in Nat \ {0} /\ d \in Nat \ {0} /\ W \in Nat /\ n \in Nat
  BY SizeIs, DivisorsAre, WidthAssumption
<1>1. PICK e \in 1 .. TwoTo[magic.s] : (Size + magic.m) * d = Size * TwoTo[magic.s] + e
  BY UnsignedFits
<1>2. magic.s \in 2 .. W - 1 /\ magic.m \in 0 .. Size - 1
  BY UnsignedFits
<1> DEFINE k == magic.s
           m == magic.m
           D == TwoTo[k]
           H == TwoTo[k - 1]
           t == (n * m) \div Size
           q == n \div d
<1>3. k - 1 \in 0 .. 2 * W /\ k - 1 # 2 * W /\ (k - 1) + 1 = k
  BY <1>0, <1>2
<1>4. D = 2 * H /\ H \in Nat \ {0} /\ D \in Nat \ {0}
  BY <1>3, Doubles, PowersAre
<1> HIDE DEF k, m, D, H
<1>5. m \in 0 .. Size - 1 /\ e \in 1 .. D /\ (Size + m) * d = Size * D + e
  BY <1>1, <1>2 DEF k, m, D
<1>6. t \in 0 .. n /\ q \in Nat /\ q * D <= n + t /\ n + t < q * D + D
  BY <1>0, <1>4, <1>5, HighPart
<1> HIDE DEF t, q
<1> DEFINE mean == (n - t) \div 2 + t
<1>7. mean \in 0 .. n /\ mean \div H = q
  BY <1>0, <1>4, <1>6, MeanIs
<1>8. High(n, magic.m) = t
  BY DEF High, t, m, Size
<1>9. Wrap(n - t) = n - t
  BY <1>0, <1>6, WrapIs
<1>10. Wrap(mean) = mean
  BY <1>0, <1>7, WrapIs
<1>11. UnsignedQuotient(n) = Wrap(Wrap(n - t) \div 2 + t) \div TwoTo[magic.s - 1]
  BY <1>8 DEF UnsignedQuotient
<1> QED
  BY <1>7, <1>9, <1>10, <1>11 DEF H, k, q

(***************************************************************************)
(* Signed division.  The multiplier is a little more than the reciprocal:  *)
(* M / P > 1 / by.  The surplus e must be too small to matter for any word.*)
(***************************************************************************)

(* Anc is the largest positive word with the largest remainder.            *)
LEMMA AncIs ==
  ASSUME NEW by \in Divisors
  PROVE  /\ Anc(by) \in 1 .. TwoTop - 1 /\ TwoTop <= 2 * Anc(by) /\ Anc(by) + 1 = TwoTop - (TwoTop % by)
         /\ \A y \in 0 .. TwoTop - 1 : y % by = by - 1 => y <= Anc(by)
<1> DEFINE K == TwoTop \div by
           r == TwoTop % by
           a == by * K
<1>0. TwoTop \in Nat /\ TwoTop >= 8 /\ by \in 3 .. TwoTop - 1 /\ by \in Nat \ {0}
  BY SizeIs, DivisorsAre
<1>1. K \in Nat /\ r \in 0 .. by - 1 /\ TwoTop = a + r /\ a \in Nat
  BY <1>0
<1>2. Anc(by) = a - 1
  BY <1>0, <1>1 DEF Anc
<1>3. K >= 1 /\ a >= by
  <2>1. K # 0
    BY <1>0, <1>1
  <2> HIDE DEF K
  <2> QED
    BY <1>0, <1>1, <2>1
<1>4. PICK h \in Nat : TwoTop = 2 * h
  BY SizeIs
<1>5. TwoTop < 2 * a
  BY <1>0, <1>1, <1>3
<1>6. TwoTop + 2 <= 2 * a
  <2> HIDE DEF a
  <2> QED
    BY <1>1, <1>4, <1>5
<1>7. ASSUME NEW y \in 0 .. TwoTop - 1, y % by = by - 1 PROVE y <= Anc(by)
  <2> DEFINE j == y \div by
  <2>1. j \in Nat /\ y = by * j + (by - 1)
    BY <1>0, <1>7
  <2> HIDE DEF j, K
  <2>2. by * (j + 1) <= TwoTop
    BY <1>0, <2>1
  <2>3. j + 1 <= K
    <3> SUFFICES ASSUME K + 1 <= j + 1 PROVE FALSE
      BY <1>1, <2>1
    <3>1. by * (K + 1) <= by * (j + 1)
      BY <1>0, <1>1, <2>1
    <3> QED
      BY <1>0, <1>1, <2>1, <2>2, <3>1
  <2>4. by * (j + 1) <= by * K
    BY <1>0, <1>1, <2>1, <2>3
  <2> QED
    BY <1>0, <1>1, <1>2, <2>1, <2>4
<1> QED
  BY <1>0, <1>1, <1>2, <1>3, <1>6, <1>7

(* A surplus that anc bears is borne by every word.                        *)
LEMMA SurplusSmall ==
  ASSUME NEW by \in Divisors, NEW P \in Nat \ {0}, NEW e \in 1 .. by, Anc(by) * e < P,
         NEW y \in 0 .. TwoTop, y # TwoTop \/ y % by # by - 1
  PROVE  y * e < P * (by - (y % by))
<1> DEFINE r == y % by
           a == Anc(by)
<1>0. by \in Nat \ {0} /\ TwoTop \in Nat /\ y \in Nat /\ e \in Nat /\ e >= 1
  BY SizeIs, DivisorsAre
<1>1. r \in 0 .. by - 1
  BY <1>0
<1>2. a \in Nat /\ TwoTop <= 2 * a /\ (y # TwoTop /\ r = by - 1 => y <= a)
  BY <1>0, AncIs
<1>3. a * e < P
  OBVIOUS
<1> HIDE DEF r, a
<1>4. CASE r = by - 1
  <2>1. y <= a
    BY <1>2, <1>4 DEF r
  <2>2. y * e <= a * e
    BY <1>0, <1>2, <2>1
  <2>3. P * (by - r) = P
    BY <1>0, <1>4
  <2> QED
    BY <1>0, <1>2, <1>3, <2>2, <2>3 DEF r
<1>5. CASE r <= by - 2
  <2>1. y * e <= (2 * a) * e
    <3>1. y <= 2 * a
      BY <1>0, <1>2
    <3> QED
      BY <1>0, <1>2, <3>1
  <2>2. (2 * a) * e = 2 * (a * e) /\ a * e \in Nat
    BY <1>0, <1>2
  <2>3. P * 2 <= P * (by - r)
    BY <1>0, <1>1, <1>5
  <2> QED
    BY <1>0, <1>1, <1>3, <2>1, <2>2, <2>3 DEF r
<1> QED
  BY <1>0, <1>1, <1>4, <1>5

(* Then the product is shifted to the quotient ...                         *)
LEMMA RoundsDown ==
  ASSUME NEW by \in Nat \ {0}, NEW P \in Nat \ {0}, NEW M \in Nat, NEW e \in Nat \ {0}, M * by = P + e,
         NEW q \in Nat, NEW r \in 0 .. by - 1, NEW y \in Nat, y = q * by + r, y * e < P * (by - r)
  PROVE  q * P <= y * M /\ y * M < q * P + P
<1> DEFINE N == y * M
<1>2. y * e < P * (by - r)
  OBVIOUS
<1>3. N \in Nat /\ y * e \in Nat /\ r * P \in Nat
  OBVIOUS
<1>4. N * by = (q * P) * by + r * P + y * e
  <2>1. N * by = y * (P + e)
    OBVIOUS
  <2>2. N * by = y * P + y * e
    BY <2>1
  <2>3. y * P = (q * P) * by + r * P
    OBVIOUS
  <2> QED
    BY <2>2, <2>3
<1> HIDE DEF N
<1>5. (q * P) * by <= N * by
  BY <1>3, <1>4
<1>6. N * by < (q * P + P) * by
  <2>1. (q * P + P) * by = (q * P) * by + P * by /\ P * (by - r) = P * by - r * P
    OBVIOUS
  <2> QED
    BY <1>2, <1>3, <1>4, <2>1
<1> DEFINE a == q * P
<1>7. a \in Nat
  OBVIOUS
<1>8. a <= N /\ N < a + P
  <2> HIDE DEF a
  <2>1. a * by <= N * by /\ N * by < (a + P) * by
    BY <1>5, <1>6 DEF a
  <2> QED
    BY <1>3, <1>7, <2>1
<1> QED
  BY <1>8 DEF N

(* ... and that of a negative word to one less, which the code makes up for. *)
LEMMA RoundsUp ==
  ASSUME NEW by \in Nat \ {0}, NEW P \in Nat \ {0}, NEW M \in Nat, NEW e \in Nat \ {0}, M * by = P + e,
         NEW y \in Nat \ {0}, y * e <= P * (by - (y % by))
  PROVE  (-(y * M)) \div P = -(y \div by) - 1
<1> DEFINE q == y \div by
           r == y % by
           N == y * M
<1>1. q \in Nat /\ r \in 0 .. by - 1 /\ y = q * by + r
  OBVIOUS
<1>2. y * e <= P * (by - r)
  OBVIOUS
<1>3. N \in Nat /\ y * e \in Nat \ {0} /\ r * P \in Nat
  BY <1>1
<1> HIDE DEF q, r
<1>4. N * by = (q * P) * by + r * P + y * e
  <2>1. N * by = y * (P + e)
    BY <1>1
  <2>2. N * by = y * P + y * e
    BY <1>1, <2>1
  <2>3. y * P = (q * P) * by + r * P
    BY <1>1
  <2> QED
    BY <2>2, <2>3
<1> HIDE DEF N
<1>5. (q * P) * by < N * by
  BY <1>1, <1>3, <1>4
<1>6. N * by <= (q * P + P) * by
  <2>1. (q * P + P) * by = (q * P) * by + P * by /\ P * (by - r) = P * by - r * P
    BY <1>1
  <2> QED
    BY <1>1, <1>2, <1>3, <1>4, <2>1
<1> DEFINE a == q * P
<1>7. a \in Nat
  BY <1>1
<1>8. a < N /\ N <= a + P
  <2> HIDE DEF a
  <2>1. a * by < N * by /\ N * by <= (a + P) * by
    BY <1>5, <1>6 DEF a
  <2> QED
    BY <1>3, <1>7, <2>1
<1> DEFINE g == -q - 1
<1>9. g * P <= -N /\ -N < g * P + P /\ g \in Int
  <2>1. g * P = -a - P
    BY <1>1
  <2> QED
    BY <1>1, <1>3, <1>7, <1>8, <2>1
<1> HIDE DEF g
<1>10. (-N) \div P = g
  BY <1>3, <1>9
<1> QED
  BY <1>10 DEF N, q, g

(* The smallest integer has no positive counterpart: Anc does not cover it,*)
(* but the surplus is small enough for it as well.                         *)
LEMMA SurplusAtEnd ==
  ASSUME NEW by \in Divisors, NEW S \in Nat \ {0}, NEW M \in Nat, NEW e \in 1 .. by,
         M * by = Size * S + e, TwoTop % by = by - 1
  PROVE  TwoTop * e <= Size * S
<1> DEFINE T == TwoTop
           K == T \div by
           z == M - 2 * (S * (K + 1))
<1>0. by \in Nat \ {0} /\ T \in Nat /\ Size = 2 * T /\ e \in Nat
  BY SizeIs, DivisorsAre
<1>1. K \in Nat /\ T + 1 = by * (K + 1)
  <2>1. T % by = by - 1
    OBVIOUS
  <2> HIDE DEF T
  <2> QED
    BY <1>0, <2>1
<1> HIDE DEF T, K
<1>2. z \in Int /\ S * (K + 1) \in Nat /\ S * T \in Nat
  BY <1>0, <1>1
<1>3. by * z = e - 2 * S
  <2>1. M * by = 2 * (S * T) + e
    BY <1>0
  <2>2. S * (T + 1) = S * T + S
    BY <1>0
  <2>3. S * (T + 1) = by * (S * (K + 1))
    BY <1>0, <1>1
  <2>4. by * z = M * by - 2 * (by * (S * (K + 1)))
    BY <1>0, <1>2
  <2> HIDE DEF z
  <2> QED
    BY <1>0, <1>2, <2>1, <2>2, <2>3, <2>4
<1>4. e <= 2 * S
  <2> SUFFICES ASSUME 2 * S < e PROVE FALSE
    BY <1>0
  <2>1. 0 < by * z /\ by * z < by
    BY <1>0, <1>3
  <2> HIDE DEF z
  <2>2. z <= 0 => by * z <= 0
    BY <1>0, <1>2
  <2>3. 1 <= z => by <= by * z
    BY <1>0, <1>2
  <2> QED
    BY <1>0, <1>2, <2>1, <2>2, <2>3
<1>5. T * e <= T * (2 * S)
  BY <1>0, <1>4
<1>6. T * (2 * S) = Size * S
  BY <1>0
<1> QED
  BY <1>5, <1>6 DEF T

(* The high word and the shift are one division.                           *)
LEMMA Nested ==
  ASSUME NEW N \in Int, NEW B \in Nat \ {0}, NEW S \in Nat \ {0}
  PROVE  (N \div B) \div S = N \div (B * S)
<1> DEFINE g == N \div B
           u == N % B
           h == g \div S
           v == g % S
           X == B * S
<1>1. g \in Int /\ u \in 0 .. B - 1 /\ N = g * B + u
  OBVIOUS
<1> HIDE DEF g, u
<1>2. h \in Int /\ v \in 0 .. S - 1 /\ g = h * S + v
  BY <1>1
<1> HIDE DEF h, v
<1>3. X \in Nat \ {0} /\ v * B \in Nat /\ h * X \in Int
  BY <1>2
<1>4. N = h * X + v * B + u
  BY <1>1, <1>2
<1>5. v * B <= (S - 1) * B /\ (S - 1) * B = X - B
  BY <1>2
<1> HIDE DEF X
<1>6. h * X <= N /\ N < h * X + X
  BY <1>1, <1>2, <1>3, <1>4, <1>5
<1>7. N \div X = h
  BY <1>2, <1>3, <1>6
<1> QED
  BY <1>7 DEF g, h, X

(* The high word of the signed product, corrected for a multiplier that is *)
(* negative as a word.                                                     *)
LEMMA SignedHigh ==
  ASSUME NEW M \in 0 .. Size - 1, NEW x \in -TwoTop .. TwoTop - 1
  PROVE  LET t == High(x, Signed(M)) + (IF Signed(M) < 0 THEN x ELSE 0)
         IN t = (x * M) \div Size /\ t \in -TwoTop .. TwoTop - 1
<1> DEFINE N == x * M
           g == N \div Size
           u == N % Size
           t == High(x, Signed(M)) + (IF Signed(M) < 0 THEN x ELSE 0)
<1>0. Size \in Nat \ {0} /\ TwoTop \in Nat /\ Size = 2 * TwoTop /\ M \in Nat /\ x \in Int
  BY SizeIs
<1>1. N \in Int /\ N = x * M
  BY <1>0
<1> HIDE DEF N
<1>2. g \in Int /\ u \in 0 .. Size - 1 /\ N = g * Size + u
  <2>1. N \in Int /\ Size \in Nat \ {0}
    BY <1>0, <1>1
  <2> HIDE DEF Size
  <2> QED
    BY <2>1
<1>3. Signed(M) = IF M >= TwoTop THEN M - Size ELSE M
  <2>1. Wrap(M) = M
    BY <1>0, WrapIs
  <2> QED
    BY <2>1 DEF Signed, TwoTop, Size
<1>4. t = g
  <2>1. CASE M >= TwoTop
    <3>1. Signed(M) = M - Size /\ Signed(M) < 0
      BY <1>0, <1>3, <2>1
    <3>2. t = (x * (M - Size)) \div Size + x
      BY <3>1 DEF High, Size
    <3> DEFINE b == x * (M - Size)
               j == g - x
    <3>3. b = N - x * Size /\ b \in Int /\ j \in Int /\ j * Size = g * Size - x * Size
      BY <1>0, <1>1, <1>2
    <3> HIDE DEF b, j, g, u
    <3>4. j * Size <= b /\ b < j * Size + Size
      <4>1. x * Size \in Int /\ g * Size \in Int
        BY <1>0, <1>2
      <4> QED
        BY <1>0, <1>1, <1>2, <3>3, <4>1
    <3>5. b \div Size = j
      BY <1>0, <3>3, <3>4
    <3> HIDE DEF t
    <3> QED
      BY <1>0, <1>2, <3>2, <3>5 DEF b, j
  <2>2. CASE ~(M >= TwoTop)
    <3>1. Signed(M) = M /\ ~(Signed(M) < 0)
      BY <1>0, <1>3, <2>2
    <3>2. t = (x * M) \div Size + 0
      BY <3>1 DEF High, Size
    <3> HIDE DEF t, g
    <3>3. t = g + 0
      BY <3>2 DEF g, N
    <3> QED
      BY <1>2, <3>3
  <2> QED
    BY <2>1, <2>2
<1> HIDE DEF t, g, u
<1>5. g \in -TwoTop .. TwoTop - 1
  <2>1. CASE x >= 0
    <3>1. 0 <= N /\ N <= x * Size
      BY <1>0, <1>1, <2>1
    <3>2. -1 < g
      <4> SUFFICES ASSUME g <= -1 PROVE FALSE
        BY <1>2
      <4>1. g * Size <= (-1) * Size
        BY <1>0, <1>2
      <4> QED
        BY <1>0, <1>1, <1>2, <3>1, <4>1
    <3>3. g <= x
      <4> SUFFICES ASSUME x + 1 <= g PROVE FALSE
        BY <1>0, <1>2
      <4>1. (x + 1) * Size <= g * Size /\ (x + 1) * Size = x * Size + Size
        BY <1>0, <1>2
      <4> QED
        BY <1>0, <1>1, <1>2, <3>1, <4>1
    <3> QED
      BY <1>0, <1>2, <3>2, <3>3
  <2>2. CASE x < 0
    <3>1. N <= 0 /\ x * Size <= N
      BY <1>0, <1>1, <2>2
    <3>2. g <= 0
      <4> SUFFICES ASSUME 1 <= g PROVE FALSE
        BY <1>2
      <4>1. 1 * Size <= g * Size
        BY <1>0, <1>2
      <4> QED
        BY <1>0, <1>1, <1>2, <3>1, <4>1
    <3>3. x <= g
      <4> SUFFICES ASSUME g + 1 <= x PROVE FALSE
        BY <1>0, <1>2
      <4>1. (g + 1) * Size <= x * Size /\ (g + 1) * Size = g * Size + Size
        BY <1>0, <1>2
      <4> QED
        BY <1>0, <1>1, <1>2, <3>1, <4>1
    <3> QED
      BY <1>0, <1>2, <3>2, <3>3
  <2> QED
    BY <1>0, <2>1, <2>2
<1> QED
  BY <1>4, <1>5 DEF t, g, N

(* What the signed multiplier and its shift must be.                       *)
Enough(by, mu) ==
  /\ mu.m \in 0 .. Size - 1 /\ mu.s \in 0 .. W - 2
  /\ \E e \in 1 .. by :
       mu.m * by = Size * TwoTo[mu.s] + e /\ Anc(by) * e < Size * TwoTo[mu.s]

(* What the signed code then computes (make_sdiv_magic).                   *)
LEMMA SignedExact ==
  ASSUME d \in Divisors, Enough(d, magic), NEW n \in 0 .. Size - 1
  PROVE  SignedQuotient(n) = Wrap(Towards0(Signed(n), d))
<1> DEFINE x == Signed(n)
           M == magic.m
           S == TwoTo[magic.s]
           P == Size * S
           t == High(x, Signed(M)) + (IF Signed(M) < 0 THEN x ELSE 0)
           shifted == Signed(t) \div S
<1>0. Size \in Nat \ {0} /\ TwoTop \in Nat /\ d \in Nat \ {0} /\ d \in 3 .. TwoTop - 1 /\ W \in Nat
  BY SizeIs, DivisorsAre, WidthAssumption
<1>1. M \in 0 .. Size - 1 /\ magic.s \in 0 .. 2 * W
  BY <1>0 DEF Enough
<1>2. PICK e \in 1 .. d : M * d = P + e /\ Anc(d) * e < P
  BY DEF Enough
<1>3. S \in Nat \ {0}
  BY <1>1, PowersAre
<1>4. x \in -TwoTop .. TwoTop - 1
  BY SignedIs
<1>5. SignedQuotient(n) = Wrap(shifted + (IF shifted < 0 THEN 1 ELSE 0))
  BY DEF SignedQuotient
<1> HIDE DEF M, S, x
<1>6. P \in Nat \ {0} /\ M \in Nat /\ e \in Nat \ {0} /\ x \in Int
  BY <1>0, <1>1, <1>3, <1>4
<1>7. shifted = (x * M) \div P
  <2>1. t = (x * M) \div Size /\ t \in -TwoTop .. TwoTop - 1
    BY <1>1, <1>4, SignedHigh
  <2>2. t \in Int
    BY <1>0, <2>1
  <2>3. Signed(t) = t
    BY <2>1, <2>2, SignedIs
  <2>4. x * M \in Int
    BY <1>6
  <2>5. ((x * M) \div Size) \div S = (x * M) \div P
    BY <1>0, <1>3, <2>4, Nested
  <2> HIDE DEF t, P
  <2> QED
    BY <2>1, <2>3, <2>5
<1> HIDE DEF P, shifted
<1>8. CASE x >= 0
  <2>1. x \in Nat /\ x \in 0 .. TwoTop /\ x # TwoTop
    BY <1>0, <1>4, <1>8
  <2>2. x * e < P * (d - (x % d))
    BY <1>2, <1>6, <2>1, SurplusSmall
  <2>3. shifted = x \div d
    <3> DEFINE q == x \div d
               r == x % d
    <3>1. d \in Nat \ {0} /\ P \in Nat \ {0} /\ M \in Nat /\ e \in Nat \ {0} /\ x \in Nat /\ M * d = P + e
      BY <1>0, <1>2, <1>6, <2>1
    <3>2. q \in Nat /\ r \in 0 .. d - 1 /\ x = q * d + r
      BY <1>0, <2>1
    <3>3. x * e < P * (d - r)
      BY <2>2
    <3> HIDE DEF q, r
    <3>4. q * P <= x * M /\ x * M < q * P + P
      BY <3>1, <3>2, <3>3, RoundsDown
    <3> DEFINE N == x * M
               b == q * P
    <3>5. N \in Int /\ b \in Int /\ b <= N /\ N < b + P
      BY <3>1, <3>2, <3>4
    <3> HIDE DEF N
    <3>6. N \div P = q
      BY <3>1, <3>2, <3>5
    <3> QED
      BY <1>7, <3>6 DEF N, q
  <2>4. x \div d \in Nat
    BY <1>0, <2>1
  <2>5. Towards0(x, d) = x \div d
    BY <1>0, <1>6, <1>8 DEF Towards0
  <2>6. shifted + (IF shifted < 0 THEN 1 ELSE 0) = Towards0(x, d)
    BY <2>3, <2>4, <2>5
  <2> QED
    BY <1>5, <2>6 DEF x
<1>9. CASE x < 0
  <2> DEFINE y == -x
  <2>1. y \in Nat \ {0} /\ y \in 0 .. TwoTop /\ x = -y
    BY <1>0, <1>4, <1>9
  <2> HIDE DEF y
  <2>2. y * e <= P * (d - (y % d))
    <3>1. CASE y # TwoTop \/ y % d # d - 1
      <4>1. y * e < P * (d - (y % d))
        BY <1>2, <1>6, <2>1, <3>1, SurplusSmall
      <4>2. y * e \in Int /\ y % d \in Int
        BY <1>0, <1>6, <2>1
      <4>3. P * (d - (y % d)) \in Int
        BY <1>0, <1>6, <4>2
      <4> QED
        BY <4>1, <4>2, <4>3
    <3>2. CASE y = TwoTop /\ y % d = d - 1
      <4>1. TwoTop % d = d - 1
        BY <3>2
      <4>2. TwoTop * e <= P
        BY <1>2, <1>3, <1>6, <4>1, SurplusAtEnd DEF P
      <4>3. d - (y % d) = 1
        BY <1>0, <3>2
      <4>4. P * (d - (y % d)) = P
        BY <1>6, <4>3
      <4> QED
        BY <3>2, <4>2, <4>4
    <3> QED
      BY <3>1, <3>2
  <2>3. (-(y * M)) \div P = -(y \div d) - 1
    BY <1>0, <1>2, <1>6, <2>1, <2>2, RoundsUp
  <2>4. x * M = -(y * M)
    BY <1>6, <2>1
  <2>5. y \div d \in Nat
    BY <1>0, <2>1
  <2>6. shifted = -(y \div d) - 1
    BY <1>7, <2>3, <2>4
  <2>7. Towards0(x, d) = -(y \div d)
    <3>1. -x = y
      BY <2>1
    <3> QED
      BY <1>0, <1>6, <1>9, <3>1 DEF Towards0
  <2>8. shifted + (IF shifted < 0 THEN 1 ELSE 0) = Towards0(x, d)
    <3> DEFINE g == y \div d
    <3>1. g \in Nat /\ shifted = -g - 1 /\ Towards0(x, d) = -g
      BY <2>5, <2>6, <2>7
    <3> HIDE DEF g
    <3> QED
      BY <3>1
  <2> QED
    BY <1>5, <2>8 DEF x
<1> QED
  BY <1>6, <1>8, <1>9
(* The remainder is that of the quotient, whichever multiple of a word the *)
(* multiplication drops (make_mod_tail).                                   *)
LEMMA TailIs ==
  ASSUME NEW n \in Int, NEW x \in Int, NEW j \in Int, n = x + j * Size, NEW q \in Int, NEW by \in Int
  PROVE  Wrap(n - Wrap(q) * by) = Wrap(x - q * by)
<1>0. Size \in Nat /\ Wrap(q) \in Int
  BY SizeIs, WrapIs
<1>1. PICK i \in Int : q = Wrap(q) + i * Size
  BY WrapIs
<1> DEFINE w == Wrap(q)
           a == n - w * by
           b == x - q * by
           k == j + i * by
<1>2. w \in Int /\ q = w + i * Size
  BY <1>0, <1>1
<1> HIDE DEF w
<1>3. a \in Int /\ b \in Int /\ k \in Int
  BY <1>2
<1>4. a = b + k * Size
  <2>1. q * by = w * by + (i * by) * Size
    BY <1>0, <1>2
  <2>2. k * Size = j * Size + (i * by) * Size
    BY <1>0
  <2> QED
    BY <1>0, <1>2, <2>1, <2>2
<1> HIDE DEF a, b, k
<1>5. Wrap(a) = Wrap(b)
  BY <1>3, <1>4, WrapSame
<1> QED
  BY <1>5 DEF a, b, w

(* A multiplier that is good enough is exact.                              *)
LEMMA ExactWhen ==
  ASSUME d \in Divisors, IF sign THEN Enough(d, magic) ELSE magic = MagicUnsigned(d)
  PROVE  Exact
<1>0. Size \in Nat \ {0} /\ TwoTop \in Nat /\ d \in Nat \ {0}
  BY SizeIs, DivisorsAre
<1> SUFFICES ASSUME NEW n \in 0 .. Size - 1
             PROVE  MagicQuotient(n) = Wrap(Quotient(n)) /\ ModTail(n) = Wrap(Remainder(n))
  BY DEF Exact, Size
<1> DEFINE x == IF sign THEN Signed(n) ELSE n
<1>1. Quotient(n) \in Int /\ MagicQuotient(n) = Wrap(Quotient(n))
  <2>1. CASE sign
    <3>1. MagicQuotient(n) = Wrap(Towards0(Signed(n), d))
      BY <2>1, SignedExact DEF MagicQuotient
    <3>2. Signed(n) \in Int
      BY <1>0, SignedIs
    <3> DEFINE y == Signed(n)
    <3> HIDE DEF y
    <3>3. y \in Int => Towards0(y, d) \in Int
      BY <1>0 DEF Towards0
    <3> QED
      BY <2>1, <3>1, <3>2, <3>3 DEF Quotient, y
  <2>2. CASE ~sign
    <3>1. MagicQuotient(n) = n \div d
      BY <2>2, UnsignedExact DEF MagicQuotient
    <3> DEFINE q == n \div d
               r == n % d
    <3>2. q \in Nat /\ r \in 0 .. d - 1 /\ n = q * d + r
      BY <1>0
    <3> HIDE DEF q, r
    <3>3. q <= q * d
      BY <1>0, <3>2
    <3>4. q \in 0 .. Size - 1
      BY <1>0, <3>2, <3>3
    <3>5. Wrap(q) = q
      BY <3>2, <3>4, WrapIs
    <3> QED
      BY <2>2, <3>1, <3>2, <3>5 DEF Quotient, q
  <2> QED
    BY <2>1, <2>2
<1>2. x \in Int /\ \E j \in Int : n = x + j * Size
  <2>1. CASE sign
    <3>1. n \in Int
      BY <1>0
    <3>2. Signed(n) \in -TwoTop .. TwoTop - 1 /\ \E j \in Int : n = Signed(n) + j * Size
      BY <3>1, SignedIs
    <3>3. Signed(n) \in Int
      BY <1>0, <3>2
    <3>4. x = Signed(n)
      BY <2>1
    <3> HIDE DEF x
    <3> QED
      BY <3>2, <3>3, <3>4
  <2>2. CASE ~sign
    <3>1. n = n + 0 * Size
      BY <1>0
    <3> QED
      BY <2>2, <3>1
  <2> QED
    BY <2>1, <2>2
<1>3. PICK j \in Int : n = x + j * Size
  BY <1>2
<1> DEFINE q == Quotient(n)
<1>4. Remainder(n) = x - q * d /\ ModTail(n) = Wrap(n - MagicQuotient(n) * d)
  BY DEF Remainder, ModTail
<1> HIDE DEF x, q
<1>5. Wrap(n - Wrap(q) * d) = Wrap(x - q * d)
  <2>1. q \in Int /\ x \in Int /\ n \in Int /\ d \in Int
    BY <1>0, <1>1, <1>2 DEF q
  <2> QED
    BY <1>3, <2>1, TailIs
<1> QED
  BY <1>1, <1>4, <1>5 DEF q

(***************************************************************************)
(* The search.                                                             *)
(***************************************************************************)

(* Doubling the dividend of a division that is known (the two halves of    *)
(* the loop's body in magic_signed).                                       *)
Doubled(q, r, by) ==
  /\ DoubledQ(q, r, by) \in 0 .. 2 * q + 1 /\ DoubledR(r, by) \in 0 .. by - 1
  /\ r = 0 => DoubledQ(q, r, by) = 2 * q
  /\ DoubledQ(q, r, by) * by + DoubledR(r, by) = 2 * (q * by + r)

LEMMA DoublingIs ==
  ASSUME NEW by \in 1 .. TwoTop - 1, NEW q \in 0 .. TwoTop - 1, NEW r \in 0 .. by - 1
  PROVE  Doubled(q, r, by)
<1>0. Size \in Nat /\ TwoTop \in Nat /\ Size = 2 * TwoTop
  BY SizeIs
<1>1. 2 * r \in 0 .. Size - 1 /\ 2 * q \in 0 .. Size - 1 /\ 2 * q + 1 \in 0 .. Size - 1
  BY <1>0
<1>2. Wrap(2 * r) = 2 * r /\ Wrap(2 * q) = 2 * q /\ Wrap(2 * q + 1) = 2 * q + 1
  <2>1. \A v \in 0 .. Size - 1 : v \in Int
    BY <1>0
  <2> QED
    BY <1>1, <2>1, WrapIs
<1>3. CASE 2 * r >= by
  <2>1. DoubledQ(q, r, by) = 2 * q + 1 /\ DoubledR(r, by) = 2 * r - by
    BY <1>2, <1>3 DEF DoubledQ, DoubledR
  <2>2. (2 * q + 1) * by + (2 * r - by) = 2 * (q * by + r)
    BY <1>0
  <2>3. r # 0
    BY <1>0, <1>3
  <2> QED
    BY <1>0, <1>3, <2>1, <2>2, <2>3 DEF Doubled
<1>4. CASE ~(2 * r >= by)
  <2>1. DoubledQ(q, r, by) = 2 * q /\ DoubledR(r, by) = 2 * r
    BY <1>2, <1>4 DEF DoubledQ, DoubledR
  <2>2. (2 * q) * by + 2 * r = 2 * (q * by + r)
    BY <1>0
  <2> QED
    BY <1>0, <1>4, <2>1, <2>2 DEF Doubled
<1> QED
  BY <1>3, <1>4

(* The condition of the loop, as the products it stands for.               *)
LEMMA AgainIs ==
  ASSUME NEW anc \in Nat \ {0}, NEW x \in Nat, NEW y \in 0 .. anc - 1, NEW delta \in Int, NEW P \in Nat,
         x * anc + y = P
  PROVE  Again(x, y, delta) <=> P <= anc * delta
<1>1. CASE x < delta
  <2>1. anc * (x + 1) <= anc * delta
    BY <1>1
  <2> QED
    BY <1>1, <2>1 DEF Again
<1>2. CASE x = delta
  <2>1. anc * delta = x * anc
    BY <1>2
  <2> QED
    BY <1>2, <2>1 DEF Again
<1>3. CASE x > delta
  <2>1. anc * (delta + 1) <= anc * x
    BY <1>3
  <2> QED
    BY <1>3, <2>1 DEF Again
<1> QED
  BY <1>1, <1>2, <1>3

(* What the loop keeps: q1, r1 and q2, r2 divide the power of two, and it  *)
(* has gone on because the surplus was too large.                          *)
Searching ==
  /\ sign = TRUE /\ d \in Divisors /\ p \in W - 1 .. 2 * W - 3
  /\ q1 \in Nat /\ r1 \in 0 .. Anc(d) - 1 /\ q1 * Anc(d) + r1 = TwoTo[p]
  /\ q2 \in Nat /\ r2 \in 0 .. d - 1 /\ q2 * d + r2 = TwoTo[p]
  /\ p = W - 1 \/ TwoTo[p] <= Anc(d) * (d - r2)
SearchInv == search = "loop" => Searching

(* The power of two that is divided, when the search starts.               *)
LEMMA StartIs ==
  ASSUME NEW by \in Divisors, Search(by, TRUE)
  PROVE  Searching'
<1> DEFINE a == Anc(by)
           T == TwoTop
<1>0. /\ T \in Nat /\ by \in Nat \ {0} /\ a \in Nat \ {0} /\ W \in Nat /\ W > 3
  BY SizeIs, DivisorsAre, AncIs, WidthAssumption
<1>1. d' = by /\ sign' = TRUE /\ p' = W - 1 /\ p' \in W - 1 .. 2 * W - 3
  BY <1>0 DEF Search
<1>2. q1' = T \div a /\ r1' = T - q1' * a /\ q2' = T \div by /\ r2' = T - q2' * by
  BY DEF Search
<1>3. ASSUME NEW b \in Nat \ {0}, NEW q, q = T \div b
      PROVE  q \in Nat /\ T - q * b \in 0 .. b - 1 /\ q * b + (T - q * b) = T
  <2> HIDE DEF T
  <2>1. q \in Nat /\ T % b \in 0 .. b - 1 /\ T = q * b + (T % b)
    BY <1>0, <1>3
  <2> QED
    BY <1>0, <2>1
<1>4. TwoTo[p'] = T /\ Anc(d)' = a
  BY <1>1 DEF TwoTop, Anc
<1> HIDE DEF a, T
<1>5. q1' \in Nat /\ r1' \in 0 .. a - 1 /\ q1' * a + r1' = T
  BY <1>0, <1>2, <1>3
<1>6. q2' \in Nat /\ r2' \in 0 .. by - 1 /\ q2' * by + r2' = T
  BY <1>0, <1>2, <1>3
<1> QED
  BY <1>1, <1>4, <1>5, <1>6 DEF Searching

(* Nothing wraps in the loop, and the multiplier it finds fits the word.   *)
LEMMA QuotientsFit ==
  ASSUME Searching
  PROVE  /\ q1 \in 0 .. TwoTop - 1 /\ q2 \in 0 .. TwoTop - 1
         /\ r2 # 0 => q2 <= TwoTop - 2
<1> DEFINE a == Anc(d)
           T == TwoTop
           P == TwoTo[p]
<1>0. /\ T \in Nat /\ T >= 8 /\ d \in 3 .. T - 1 /\ a \in 1 .. T - 1 /\ T <= 2 * a
      /\ q1 \in Nat /\ r1 \in 0 .. a - 1 /\ q1 * a + r1 = P
      /\ q2 \in Nat /\ r2 \in 0 .. d - 1 /\ q2 * d + r2 = P
  BY SizeIs, DivisorsAre, AncIs DEF Searching
<1>1. p = W - 1 \/ P <= a * (d - r2)
  BY DEF Searching
<1>2. p = W - 1 => P = T
  BY DEF TwoTop
<1> HIDE DEF a, T, P
<1>3. CASE p = W - 1
  <2>1. q1 <= 2
    <3> SUFFICES ASSUME 3 <= q1 PROVE FALSE
      BY <1>0
    <3>1. 3 * a <= q1 * a
      BY <1>0
    <3> QED
      BY <1>0, <1>2, <1>3, <3>1
  <2>2. q2 * 3 <= q2 * d
    BY <1>0
  <2>3. q2 * 3 <= T
    BY <1>0, <1>2, <1>3, <2>2
  <2> QED
    BY <1>0, <2>1, <2>3 DEF T
<1>4. CASE P <= a * (d - r2)
  <2>1. a * (d - r2) <= a * d
    BY <1>0
  <2>2. q1 <= d
    <3> SUFFICES ASSUME d + 1 <= q1 PROVE FALSE
      BY <1>0
    <3>1. (d + 1) * a <= q1 * a
      BY <1>0
    <3> QED
      BY <1>0, <1>4, <2>1, <3>1
  <2>3. q2 <= a
    <3> SUFFICES ASSUME a + 1 <= q2 PROVE FALSE
      BY <1>0
    <3>1. (a + 1) * d <= q2 * d
      BY <1>0
    <3> QED
      BY <1>0, <1>4, <2>1, <3>1
  <2>4. ASSUME r2 # 0 PROVE q2 <= a - 1
    <3> SUFFICES ASSUME a <= q2 PROVE FALSE
      BY <1>0
    <3>1. a * d <= q2 * d
      BY <1>0
    <3> QED
      BY <1>0, <1>4, <2>1, <2>4, <3>1
  <2> QED
    BY <1>0, <2>2, <2>3, <2>4 DEF T
<1> QED
  BY <1>1, <1>3, <1>4

(* One more iteration of the loop.                                         *)
LEMMA IterationIs ==
  ASSUME Searching, Iterate
  PROVE  /\ sign' = TRUE /\ d' \in Divisors /\ d' = d /\ p' = p + 1 /\ p' \in W .. 2 * W - 2
         /\ q1' \in Nat /\ r1' \in 0 .. Anc(d) - 1 /\ q1' * Anc(d) + r1' = TwoTo[p']
         /\ q2' \in 0 .. Size - 2 /\ r2' \in 0 .. d - 1 /\ q2' * d + r2' = TwoTo[p']
<1>0. /\ Size \in Nat /\ TwoTop \in Nat /\ Size = 2 * TwoTop /\ W \in Nat
      /\ d \in 1 .. TwoTop - 1 /\ Anc(d) \in 1 .. TwoTop - 1
  BY SizeIs, DivisorsAre, AncIs, WidthAssumption DEF Searching
<1>1. /\ sign /\ d \in Divisors /\ p \in W - 1 .. 2 * W - 3
      /\ q1 * Anc(d) + r1 = TwoTo[p] /\ r1 \in 0 .. Anc(d) - 1
      /\ q2 * d + r2 = TwoTo[p] /\ r2 \in 0 .. d - 1
  BY DEF Searching
<1>2. /\ sign' = sign /\ d' = d /\ p' = p + 1
      /\ q1' = DoubledQ(q1, r1, Anc(d)) /\ r1' = DoubledR(r1, Anc(d))
      /\ q2' = DoubledQ(q2, r2, d) /\ r2' = DoubledR(r2, d)
  BY DEF Iterate
<1>3. p \in 0 .. 2 * W /\ p # 2 * W /\ p + 1 \in W .. 2 * W - 2
  BY <1>0, <1>1
<1>4. TwoTo[p + 1] = 2 * TwoTo[p] /\ TwoTo[p] \in Nat
  BY <1>3, Doubles, PowersAre
<1>5. q1 \in 0 .. TwoTop - 1 /\ q2 \in 0 .. TwoTop - 1 /\ (r2 # 0 => q2 <= TwoTop - 2)
  BY QuotientsFit
<1> DEFINE a == Anc(d)
           P == TwoTo[p]
<1>9. a \in 1 .. TwoTop - 1 /\ q1 * a + r1 = P /\ r1 \in 0 .. a - 1 /\ q2 * d + r2 = P /\ P \in Nat
  BY <1>0, <1>1, <1>4
<1> HIDE DEF a, P
<1>10. Doubled(q1, r1, a)
  BY <1>5, <1>9, DoublingIs
<1>11. Doubled(q2, r2, d)
  BY <1>0, <1>1, <1>5, DoublingIs
<1>6. q1' \in 0 .. 2 * q1 + 1 /\ r1' \in 0 .. Anc(d) - 1 /\ q1' * Anc(d) + r1' = TwoTo[p']
  BY <1>2, <1>4, <1>9, <1>10 DEF a, P, Doubled
<1>7. /\ q2' \in 0 .. 2 * q2 + 1 /\ r2' \in 0 .. d - 1 /\ q2' * d + r2' = TwoTo[p']
      /\ r2 = 0 => q2' = 2 * q2
  BY <1>2, <1>4, <1>9, <1>11 DEF P, Doubled
<1>8. q2' \in 0 .. Size - 2
  BY <1>0, <1>5, <1>7
<1> QED
  BY <1>0, <1>1, <1>2, <1>3, <1>5, <1>6, <1>7, <1>8

(* The search goes on only while the power of two is small.                *)
LEMMA GoesOn ==
  ASSUME Searching, Iterate, search' = "loop"
  PROVE  Searching'
<1> DEFINE a == Anc(d)
           e == d - r2'
           P == TwoTo[p']
<1>0. /\ a \in 1 .. TwoTop - 1 /\ d \in 1 .. TwoTop - 1 /\ TwoTop \in Nat /\ W \in Nat /\ W > 3
  BY SizeIs, DivisorsAre, AncIs, WidthAssumption DEF Searching
<1>1. /\ sign' = TRUE /\ d' \in Divisors /\ d' = d /\ p' \in W .. 2 * W - 2
      /\ q1' \in Nat /\ r1' \in 0 .. a - 1 /\ q1' * a + r1' = P
      /\ q2' \in 0 .. Size - 2 /\ r2' \in 0 .. d - 1 /\ q2' * d + r2' = P
  BY IterationIs
<1>2. Again(q1', r1', e)
  BY DEF Iterate
<1>3. p' \in 0 .. 2 * W
  BY <1>0, <1>1
<1>4. P \in Nat
  BY <1>3, PowersAre
<1>11. e \in 1 .. d
  <2> DEFINE r == r2'
  <2>1. r \in 0 .. d - 1 /\ d \in Nat /\ e = d - r
    BY <1>0, <1>1
  <2> HIDE DEF r, e
  <2> QED
    BY <2>1
<1> DEFINE x == q1'
           y == r1'
<1>12. x \in Nat /\ y \in 0 .. a - 1 /\ x * a + y = P /\ a \in Nat \ {0} /\ e \in Int /\ Again(x, y, e)
  BY <1>0, <1>1, <1>2, <1>11
<1> HIDE DEF P, e, x, y, a
<1>5. P <= a * e
  BY <1>4, <1>12, AgainIs
<1>6. P < TwoTop * TwoTop
  <2>1. a * e <= a * TwoTop
    BY <1>0, <1>11
  <2>2. a * TwoTop < TwoTop * TwoTop
    BY <1>0
  <2>3. a * e \in Int /\ a * TwoTop \in Int /\ TwoTop * TwoTop \in Int
    BY <1>0, <1>12
  <2> QED
    BY <1>4, <1>5, <2>1, <2>2, <2>3
<1>7. p' # 2 * W - 2
  <2>1. W - 1 \in Nat /\ (W - 1) + (W - 1) = 2 * W - 2 /\ (W - 1) + (W - 1) <= 2 * W
    BY <1>0
  <2>2. TwoTo[2 * W - 2] = TwoTop * TwoTop
    BY <2>1, PowersAdd DEF TwoTop
  <2> QED
    BY <1>0, <1>6, <2>2 DEF P
<1>8. p' \in W - 1 .. 2 * W - 3
  BY <1>0, <1>1, <1>7
<1>9. Anc(d)' = a
  BY <1>1 DEF Anc, a
<1>10. q2' \in Nat
  BY <1>1, SizeIs
<1> QED
  BY <1>1, <1>5, <1>8, <1>9, <1>10 DEF Searching, P, e, a

(* When it ends, what it has found is good enough.                         *)
LEMMA EndsWithEnough ==
  ASSUME Searching, Iterate, search' = "found"
  PROVE  Enough(d', magic')
<1> DEFINE a == Anc(d)
           e == d - r2'
           P == TwoTo[p']
           M == q2' + 1
<1>0. /\ Size \in Nat /\ a \in 1 .. TwoTop - 1 /\ d \in 1 .. TwoTop - 1 /\ TwoTop \in Nat /\ W \in Nat /\ W > 3
  BY SizeIs, DivisorsAre, AncIs, WidthAssumption DEF Searching
<1>1. /\ d' = d /\ p' \in W .. 2 * W - 2
      /\ q1' \in Nat /\ r1' \in 0 .. a - 1 /\ q1' * a + r1' = P
      /\ q2' \in 0 .. Size - 2 /\ r2' \in 0 .. d - 1 /\ q2' * d + r2' = P
  BY IterationIs
<1>2. ~Again(q1', r1', e) /\ magic' = [m |-> Wrap(M), s |-> p' - W]
  BY DEF Iterate
<1>3. p' \in 0 .. 2 * W /\ p' - W \in 0 .. W - 2 /\ p' - W \in Nat /\ W + (p' - W) = p' /\ W + (p' - W) <= 2 * W
  <2> DEFINE k == p'
  <2>1. k \in W .. 2 * W - 2
    BY <1>1
  <2> HIDE DEF k
  <2>2. k \in 0 .. 2 * W /\ k - W \in 0 .. W - 2 /\ k - W \in Nat /\ W + (k - W) = k /\ W + (k - W) <= 2 * W
    BY <1>0, <2>1
  <2> QED
    BY <2>2 DEF k
<1>4. P \in Nat /\ e \in 1 .. d /\ P = Size * TwoTo[p' - W]
  <2>1. P \in Nat
    BY <1>3, PowersAre
  <2>2. e \in 1 .. d
    <3> DEFINE r == r2'
    <3>1. r \in 0 .. d - 1 /\ d \in Nat /\ e = d - r
      BY <1>0, <1>1
    <3> HIDE DEF r, e
    <3> QED
      BY <3>1
  <2>3. TwoTo[W + (p' - W)] = TwoTo[W] * TwoTo[p' - W]
    BY <1>0, <1>3, PowersAdd
  <2> QED
    BY <1>3, <2>1, <2>2, <2>3 DEF Size
<1>8. M \in 0 .. Size - 1
  <2> DEFINE q == q2'
  <2>1. q \in 0 .. Size - 2 /\ M = q + 1
    BY <1>1
  <2> HIDE DEF q, M
  <2> QED
    BY <1>0, <2>1
<1>5. M * d = P + e
  <2> DEFINE q == q2'
             r == r2'
  <2>1. q \in Int /\ r \in Int /\ q * d + r = P /\ e = d - r /\ M = q + 1 /\ d \in Int
    BY <1>0, <1>1
  <2> HIDE DEF q, r, P, e, M
  <2> QED
    BY <1>4, <2>1
<1>6. magic'.m = M /\ magic'.s = p' - W
  <2>1. Wrap(M) = M
    BY <1>0, <1>8, WrapIs
  <2> QED
    BY <1>2, <2>1
<1> DEFINE x == q1'
           y == r1'
<1>9. x \in Nat /\ y \in 0 .. a - 1 /\ x * a + y = P /\ a \in Nat \ {0} /\ e \in Int /\ ~Again(x, y, e)
  BY <1>0, <1>1, <1>2, <1>4
<1> HIDE DEF P, e, M, x, y, a
<1>7. a * e < P
  <2>1. ~(P <= a * e)
    BY <1>4, <1>9, AgainIs
  <2>2. a * e \in Int
    BY <1>9
  <2> QED
    BY <1>4, <2>1, <2>2
<1> QED
  BY <1>1, <1>3, <1>4, <1>5, <1>6, <1>7, <1>8 DEF Enough, a

(* Searching is kept by every step.                                        *)
LEMMA SearchInvInductive ==
  /\ Idle => SearchInv
  /\ SearchInv /\ [MagicNext]_magicVars => SearchInv'
<1>1. Idle => SearchInv
  BY DEF Idle, SearchInv
<1>2. ASSUME SearchInv, MagicNext, search' = "loop" PROVE Searching'
  <2>1. CASE \E by \in Divisors, signed \in BOOLEAN : Search(by, signed)
    <3>1. PICK by \in Divisors, signed \in BOOLEAN : Search(by, signed)
      BY <2>1
    <3>2. signed = TRUE
      BY <1>2, <3>1 DEF Search
    <3> QED
      BY <3>1, <3>2, StartIs
  <2>2. CASE Iterate
    <3>1. Searching
      BY <1>2, <2>2 DEF SearchInv, Iterate
    <3> QED
      BY <1>2, <2>2, <3>1, GoesOn
  <2> QED
    BY <1>2, <2>1, <2>2 DEF MagicNext
<1>3. ASSUME SearchInv, UNCHANGED magicVars PROVE SearchInv'
  BY <1>3 DEF SearchInv, Searching, magicVars, Anc
<1> QED
  BY <1>1, <1>2, <1>3 DEF SearchInv

(* The search for a signed multiplier ends in time, for every divisor of a *)
(* word of any width: it goes on only while the power of two is below the  *)
(* square of half a word (the loop of magic_signed).                       *)
THEOREM SearchInTime == MagicSpec => []SearchEnds
<1>1. SearchInv => SearchEnds
  <2> SUFFICES ASSUME Searching PROVE p < 2 * W - 1
    BY DEF SearchInv, SearchEnds
  <2> QED
    BY WidthAssumption DEF Searching
<1> QED
  BY <1>1, SearchInvInductive, PTL DEF MagicSpec

(* Every multiplier that is found, for every divisor of a word of any      *)
(* width, gives the quotient and the remainder of every word: the division *)
(* that is emitted is that of the program (make_udiv_magic,                *)
(* make_sdiv_magic and make_mod_tail).                                     *)
THEOREM DivisionsExact == MagicSpec => MultipliersExact
<1> DEFINE Found == d \in Divisors /\ IF sign THEN Enough(d, magic) ELSE magic = MagicUnsigned(d)
<1>1. ASSUME SearchInv, MagicNext, search # "found", search' = "found" PROVE Found'
  <2>1. d' \in Divisors /\ IF sign' THEN Enough(d', magic') ELSE magic' = MagicUnsigned(d')
    <3>1. CASE \E by \in Divisors, signed \in BOOLEAN : Search(by, signed)
      <4>1. PICK by \in Divisors, signed \in BOOLEAN : Search(by, signed)
        BY <3>1
      <4>2. signed = FALSE
        BY <1>1, <4>1 DEF Search
      <4> QED
        BY <4>1, <4>2 DEF Search
    <3>2. CASE Iterate
      <4>1. Searching
        BY <1>1, <3>2 DEF SearchInv, Iterate
      <4>2. d' \in Divisors /\ sign' = TRUE
        BY <3>2, <4>1, IterationIs
      <4> QED
        BY <1>1, <3>2, <4>1, <4>2, EndsWithEnough
    <3> QED
      BY <1>1, <3>1, <3>2 DEF MagicNext
  <2> QED
    BY <2>1 DEF Enough, Anc
<1>2. Found => Exact
  BY ExactWhen
<1> HIDE DEF Found
<1>3. SearchInv /\ [MagicNext]_magicVars => [search # "found" /\ search' = "found" => Found']_magicVars
  BY <1>1
<1> QED
  BY <1>2, <1>3, SearchInvInductive, PTL DEF MagicSpec, MultipliersExact
=============================================================================
