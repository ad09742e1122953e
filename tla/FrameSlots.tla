----------------------------- MODULE FrameSlots -----------------------------
(***************************************************************************)
(* The slots of the frame for the registers that were spilled,             *)
(* src/codegen/regalloc/regalloc.c (lay_sizes): spilled registers of one   *)
(* size share a slot if their spans in the code, as it is written, do not  *)
(* meet.  The spans come from the liveness the allocator has solved.       *)
(* Arrays, which are laid first and keep their bytes, are left out, and so *)
(* are merged registers, which have the span and the slot of their root.   *)
(***************************************************************************)
EXTENDS LiveDce, Sequences, FiniteSetsExt

CONSTANTS
  Spills   \* bound: which registers are spilled, and how large they are

ASSUME SpillsKnown ==
  Spills \subseteq [spilled : SUBSET Regs, size : [Regs -> {1, 2, 4, 8}]]

VARIABLES
  spill,   \* the registers that were spilled and the sizes
  slot,    \* where the slot of a register ends; 0 is none
  top,     \* c: the bytes of the frame that are taken
  bytes,   \* the size whose turn it is
  free,    \* the stack of slots of that size that were given back
  lo, hi,  \* the span of each register, in the code as it is written
  todo     \* the ends of spans that are still ahead

laying == <<spill, slot, top, bytes, free, lo, hi, todo>>
slotVars == <<dceVars, laying>>

SlotInit ==
  /\ DceInit
  /\ spill = [spilled |-> {}, size |-> [r \in Regs |-> 8]]
  /\ slot = [r \in Regs |-> 0]
  /\ top = 0 /\ bytes = 8 /\ free = <<>>
  /\ lo = [r \in Regs |-> 0] /\ hi = [r \in Regs |-> 0] /\ todo = {}

-----------------------------------------------------------------------------
Final == N * Size - 1
Place(blk, k) == (blk - 1) * Size + k - 1

(* span_instrs: an instruction touches what it reads and what it makes.    *)
TouchedByCode(r) ==
  {Place(p[1], p[2]) : p \in {q \in Blocks \X (1..Size) :
     LET in == code[q[1]][q[2]] IN r = in.dst \/ r \in in.src}}

(* Mutation: what is live into a block only counts where it is read.       *)
TouchedByLeaving(r) == {Place(blk, Size) : blk \in {c \in Blocks : r \in Out(c, liveIn)}}

(* span_blocks: the ends of a block touch what is live there.              *)
TouchedByBlocks(r) ==
  {Place(blk, 1) : blk \in {c \in Blocks : r \in liveIn[c]}}
    \cup {Place(blk, Size) : blk \in {c \in Blocks : r \in Out(c, liveIn)}}

Touched(r) == TouchedByCode(r) \cup TouchedByBlocks(r)

Lo(r) == IF Touched(r) = {} THEN 0 ELSE Min(Touched(r))
Hi(r) == IF Touched(r) = {} THEN Final ELSE Max(Touched(r))

(* share_slots: no slot is shared if any register is in memory.            *)
ShareSlots == addressed = {}

(* The ends of the spans; without sharing no slot is ever given back.      *)
Begins(r) == [reg |-> r, over |-> FALSE]
Ends(r) == [reg |-> r, over |-> TRUE]

SpanEnds(regs) ==
  {Begins(r) : r \in regs} \cup {Ends(r) : r \in IF ShareSlots THEN regs ELSE {}}

At(e) == IF e.over THEN hi[e.reg] ELSE lo[e.reg]

(* Mutation: the spans that end are over before others begin.              *)
EndsFirst(e, f) ==
  \/ spill.size[e.reg] > spill.size[f.reg]
  \/ /\ spill.size[e.reg] = spill.size[f.reg] /\ ShareSlots
     /\ At(e) < At(f) \/ (At(e) = At(f) /\ e.over /\ ~f.over)

(* The loops of lay_sizes and span_sweep over the lists of span_link: one  *)
(* size after the other, in each the positions as they follow, at each the *)
(* spans that begin and then those that end.                               *)
Earlier(e, f) ==
  \/ spill.size[e.reg] > spill.size[f.reg]
  \/ /\ spill.size[e.reg] = spill.size[f.reg] /\ ShareSlots
     /\ At(e) < At(f) \/ (At(e) = At(f) /\ ~e.over /\ f.over)

Due(e) == e \in todo /\ \A f \in todo : ~Earlier(f, e)

(* The coloring has left the registers of spill' without a home.           *)
LaySlots ==
  /\ stage = "solve" /\ pc = "solved" /\ full
  /\ stage' = "lay"
  /\ spill' \in Spills
  /\ lo' = [r \in Regs |-> Lo(r)] /\ hi' = [r \in Regs |-> Hi(r)]
  /\ todo' = SpanEnds(spill'.spilled)
  /\ UNCHANGED <<vars, addressed, killed, stale, slot, top, bytes, free>>

(* A slot of this size that was given back, or a new one.                  *)
BeginSpan(r) ==
  /\ stage = "lay" /\ Due(Begins(r))
  /\ LET size == spill.size[r]
         given == IF size = bytes THEN free ELSE <<>>
     IN /\ bytes' = size
        /\ IF given # <<>>
             THEN /\ slot' = [slot EXCEPT ![r] = given[Len(given)]]
                  /\ free' = SubSeq(given, 1, Len(given) - 1)
                  /\ top' = top
             ELSE /\ slot' = [slot EXCEPT ![r] = top + size]
                  /\ free' = <<>>
                  /\ top' = top + size
  /\ todo' = todo \ {Begins(r)}
  /\ UNCHANGED <<dceVars, spill, lo, hi>>

EndSpan(r) ==
  /\ stage = "lay" /\ Due(Ends(r))
  /\ free' = Append(free, slot[r])
  /\ todo' = todo \ {Ends(r)}
  /\ UNCHANGED <<dceVars, spill, slot, top, bytes, lo, hi>>

Laid ==
  /\ stage = "lay" /\ todo = {}
  /\ stage' = "laid"
  /\ UNCHANGED <<vars, addressed, killed, stale, laying>>

SlotNext ==
  \/ DceNext /\ UNCHANGED laying
  \/ LaySlots \/ Laid
  \/ \E r \in Regs : BeginSpan(r) \/ EndSpan(r)

SlotSpec == SlotInit /\ [][SlotNext]_slotVars

-----------------------------------------------------------------------------
Bytes(r) == slot[r] - spill.size[r] + 1 .. slot[r]

(* What must be apart at an instruction: what it reads, what it makes, and *)
(* what is live after it.                                                  *)
HeldAt(blk, k) ==
  LET in == code[blk][k]
  IN in.src \cup ({in.dst} \cap Regs) \cup at[blk][k] \cup addressed

(* Nothing is written over a spilled register that may still be read,      *)
(* around a loop too, and every slot is aligned to its size                *)
(* (regalloc.c:326-345).                                                   *)
SlotsApart ==
  stage = "laid" =>
    /\ \A blk \in Blocks : \A k \in 1..Size :
         \A r, s \in HeldAt(blk, k) \cap spill.spilled :
           r # s => Bytes(r) \cap Bytes(s) = {}
    /\ \A r \in spill.spilled : slot[r] > 0 /\ slot[r] % spill.size[r] = 0
=============================================================================
