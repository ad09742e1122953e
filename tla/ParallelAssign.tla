--------------------------- MODULE ParallelAssign ---------------------------
(***************************************************************************)
(* What a parallel move promises: every destination receives the value its *)
(* source held before any move was made, and no other location changes.    *)
(* The whole assignment is one step here; ParallelMove implements it with  *)
(* the sequence of stores, register moves, exchanges and loads that        *)
(* src/codegen/parallel.c plans.                                           *)
(*                                                                         *)
(* A location that nothing has written holds a value named after itself.   *)
(***************************************************************************)
EXTENDS Naturals, Sequences

CONSTANTS
  Regs,      \* the machine registers a move may name
  Slots      \* the stack slots a move may name

Locs == Regs \cup Slots

(* A move with both ends in memory is never asked for: see ParallelMove.   *)
Move == {m \in [from : Locs, to : Locs] : m.from \in Regs \/ m.to \in Regs}

(* The groups the callers build: no two moves share a destination, and no  *)
(* slot is both read and written.                                          *)
WellFormed(mv) ==
  /\ \A j, k \in DOMAIN mv : mv[j].to = mv[k].to => j = k
  /\ \A j, k \in DOMAIN mv : mv[j].from = mv[k].to => mv[j].from \in Regs

Groups == {mv \in Seq(Move) : WellFormed(mv)}

(* The contents every location must have once the group has been made.     *)
Assigned(mv, l) ==
  IF \E k \in DOMAIN mv : mv[k].to = l
    THEN mv[CHOOSE k \in DOMAIN mv : mv[k].to = l].from
    ELSE l

VARIABLES
  moves,     \* the group of moves, fixed by the caller
  loc,       \* contents of every location
  finished   \* the group has been made

vars == <<moves, loc, finished>>

Init ==
  /\ moves \in Groups
  /\ loc = [l \in Locs |-> l]
  /\ finished = FALSE

Assign ==
  /\ ~finished
  /\ finished' = TRUE
  /\ loc' = [l \in Locs |-> Assigned(moves, l)]
  /\ UNCHANGED moves

Next == Assign

Spec == Init /\ [][Next]_vars
=============================================================================
