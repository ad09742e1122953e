------------------------------- MODULE Arena -------------------------------
(***************************************************************************)
(* The arena allocator, src/arena/arena.c: a list of blocks, a bump        *)
(* pointer in the last one, growth of the most recent allocation in place, *)
(* and marks that let a caller free everything allocated since.            *)
(*                                                                         *)
(* The clients are part of the model: they hold allocations, write all of  *)
(* their bytes, grow them, and take and release marks in LIFO order (as    *)
(* gen_fn does, x86_64.c:42-49).  An allocation made since a mark is gone  *)
(* for its client when the mark is released.  Clients only grow            *)
(* allocations that have a size: every growth in the compiler starts from  *)
(* a NULL pointer, never from a zero-sized block.                          *)
(***************************************************************************)
EXTENDS Integers, Sequences, FiniteSets

CONSTANTS
  Bases,       \* the storage malloc may return for a block
  Ids,         \* bound: the allocations clients hold at one time
  Sizes,       \* bound: the sizes clients ask for
  Align,       \* ARENA_ALIGN
  BlockSize,   \* ARENA_DEFAULT_BLOCK, Arena.block_size
  MaxOffset,   \* bound: the bytes of a block the model keeps contents of
  MaxMarks,    \* bound: marks held at one time
  NULL

ASSUME SizesNat == Sizes \subseteq Nat

ASSUME BlockFits == Align \in Nat \ {0} /\ BlockSize \in Nat /\ BlockSize >= Align

ASSUME NullIsNoPointer == NULL \notin Bases \cup [base : Bases, off : Nat]

ASSUME MaxMarksNat == MaxMarks \in Nat

-----------------------------------------------------------------------------
(* Mutation: sizes are rounded down.                                       *)
AlignDown(n) == n - (n % Align)

AlignUp(n) == n + ((Align - (n % Align)) % Align)

(* The contents that are kept cover every block.                           *)
ASSUME RoomForAll ==
  /\ MaxOffset \in Nat
  /\ \A room \in {AlignUp(z) : z \in Sizes \cup {1}} \cup {BlockSize} : room <= MaxOffset + 1

VARIABLES
  blocks,     \* head .. tail: storage, bytes used, and the size malloc gave
  cap,        \* Arena.cap, what the arena believes the tail block can hold
  last,       \* Arena.last_ptr
  lastSize,   \* Arena.last_size
  marks,      \* the marks callers hold, oldest first
  live,       \* the allocations clients hold
  alloc,      \* where each of them is, its size, and the marks older than it
  mem         \* contents of the storage: who wrote each byte

vars == <<blocks, cap, last, lastSize, marks, live, alloc, mem>>

Ptr == [base : Bases, off : Nat]
Tail_ == blocks[Len(blocks)]
Fresh == Bases \ {blocks[k].base : k \in DOMAIN blocks}

Bytes(a) == a.off .. a.off + a.size - 1

(* The bytes of a written by i.  A byte no client holds is left out.       *)
Filled(m, a, i) ==
  [m EXCEPT ![a.base] = [o \in DOMAIN @ |-> IF o \in Bytes(a) THEN i ELSE @[o]]]

Nowhere == [base |-> NULL, off |-> 0, size |-> 0, depth |-> 0]

Visible(m, held, at) ==
  [b \in Bases |-> [o \in DOMAIN m[b] |->
     IF \E i \in held : at[i].base = b /\ o \in Bytes(at[i]) THEN m[b][o] ELSE NULL]]

-----------------------------------------------------------------------------
(* arena_init: one empty block of the default size.                        *)
Init ==
  /\ \E b \in Bases : blocks = <<[base |-> b, used |-> 0, room |-> BlockSize]>>
  /\ cap = BlockSize
  /\ last = NULL
  /\ lastSize = 0
  /\ marks = <<>>
  /\ live = {}
  /\ alloc = [i \in Ids |-> Nowhere]
  /\ mem = [b \in Bases |-> [o \in 0..MaxOffset |-> NULL]]

(* Mutation: the tail block is never checked for room.                     *)
BumpInTailUnchecked(need) ==
  /\ blocks' = [blocks EXCEPT ![Len(blocks)].used = @ + need]
  /\ last' = [base |-> Tail_.base, off |-> Tail_.used]
  /\ UNCHANGED cap

BumpInTail(need) ==
  /\ need <= cap - Tail_.used
  /\ blocks' = [blocks EXCEPT ![Len(blocks)].used = @ + need]
  /\ last' = [base |-> Tail_.base, off |-> Tail_.used]
  /\ UNCHANGED cap

BumpInNewBlock(need) ==
  /\ need > cap - Tail_.used
  /\ cap' = IF need > BlockSize THEN need ELSE BlockSize
  /\ \E b \in Fresh :
       /\ blocks' = Append(blocks, [base |-> b, used |-> need, room |-> cap'])
       /\ last' = [base |-> b, off |-> 0]

(* arena_alloc: the result is last'.                                       *)
ArenaAlloc(size) ==
  /\ BumpInTail(AlignUp(size)) \/ BumpInNewBlock(AlignUp(size))
  /\ lastSize' = AlignUp(size)

(* What the client now holds at p.  It writes the bytes from the kept ones *)
(* on: the others must be the ones it wrote before.                        *)
Hold(i, p, size, kept, m) ==
  LET From(k) == [base |-> p.base, off |-> p.off + k, size |-> size - k, depth |-> Len(marks)]
  IN /\ alloc' = [alloc EXCEPT ![i] = From(0)]
     /\ mem' = Visible(Filled(m, From(kept), i), live', alloc')

Alloc(i, size) ==
  /\ i \notin live
  /\ ArenaAlloc(size)
  /\ live' = live \cup {i}
  /\ Hold(i, last', size, 0, mem)
  /\ UNCHANGED marks

IsLast(i) == last = [base |-> alloc[i].base, off |-> alloc[i].off]

Growing(i, size) == i \in live /\ alloc[i].size > 0 /\ size > alloc[i].size

(* grow_last: the aligned size already covers the growth.                  *)
GrowWithin(i, size) ==
  /\ Growing(i, size)
  /\ IsLast(i)
  /\ AlignUp(size) <= lastSize
  /\ UNCHANGED <<blocks, cap, last, lastSize, marks, live>>
  /\ Hold(i, last, size, alloc[i].size, mem)

Extra(size) == AlignUp(size) - lastSize

(* grow_last: the tail block has room for the rest.                        *)
GrowInPlace(i, size) ==
  /\ Growing(i, size)
  /\ IsLast(i)
  /\ AlignUp(size) > lastSize
  /\ Extra(size) <= cap - Tail_.used
  /\ blocks' = [blocks EXCEPT ![Len(blocks)].used = @ + Extra(size)]
  /\ lastSize' = AlignUp(size)
  /\ UNCHANGED <<cap, last, marks, live>>
  /\ Hold(i, last, size, alloc[i].size, mem)

(* regrow_block: the allocation is alone in the tail block, which realloc  *)
(* enlarges, in place or by moving it.                                     *)
RegrowBlock(i, size) ==
  /\ Growing(i, size)
  /\ IsLast(i)
  /\ AlignUp(size) > lastSize
  /\ Extra(size) > cap - Tail_.used
  /\ last = [base |-> Tail_.base, off |-> 0]
  /\ UNCHANGED <<marks, live>>
  /\ \E b \in Fresh \cup {Tail_.base} :
       /\ blocks' = [blocks EXCEPT ![Len(blocks)] =
                       [base |-> b, used |-> AlignUp(size), room |-> AlignUp(size)]]
       /\ last' = [base |-> b, off |-> 0]
       /\ Hold(i, last', size, alloc[i].size, [mem EXCEPT ![b] = mem[Tail_.base]])
  /\ cap' = AlignUp(size)
  /\ lastSize' = AlignUp(size)

(* Mutation: the old bytes are not copied.                                 *)
NotCopied(a, q) == mem

(* memcpy of the old_size bytes of a to q.                                 *)
Copied(a, q) ==
  [mem EXCEPT ![q.base] = [o \in DOMAIN @ |->
     IF o \in q.off .. q.off + a.size - 1
       THEN mem[a.base][a.off + o - q.off] ELSE @[o]]]

(* arena_realloc when nothing can grow in place: a new allocation and a    *)
(* copy.                                                                   *)
GrowByCopy(i, size) ==
  /\ Growing(i, size)
  /\ \/ ~IsLast(i)
     \/ /\ AlignUp(size) > lastSize
        /\ Extra(size) > cap - Tail_.used
        /\ last # [base |-> Tail_.base, off |-> 0]
  /\ ArenaAlloc(size)
  /\ UNCHANGED <<marks, live>>
  /\ Hold(i, last', size, alloc[i].size, Copied(alloc[i], last'))

(* Mutation: the mark takes no byte of its own.                            *)
MarkWithoutByte ==
  /\ Len(marks) < MaxMarks
  /\ marks' = Append(marks, [tail |-> Tail_.base, used |-> Tail_.used, cap |-> cap])
  /\ UNCHANGED <<blocks, cap, last, lastSize, live, alloc, mem>>

(* arena_mark: a byte of its own separates what is older from the rest.    *)
Mark ==
  /\ Len(marks) < MaxMarks
  /\ ArenaAlloc(1)
  /\ LET tail == blocks'[Len(blocks')]
     IN marks' = Append(marks, [tail |-> tail.base, used |-> tail.used, cap |-> cap'])
  /\ UNCHANGED <<live, alloc, mem>>

(* arena_release of the newest mark: the blocks after the mark's are freed.*)
Release ==
  /\ marks # <<>>
  /\ LET m == marks[Len(marks)]
     IN /\ \E t \in DOMAIN blocks :
             /\ blocks[t].base = m.tail
             /\ blocks' = [SubSeq(blocks, 1, t) EXCEPT ![t].used = m.used]
        /\ cap' = m.cap
  /\ last' = NULL
  /\ lastSize' = 0
  /\ live' = {i \in live : alloc[i].depth < Len(marks)}
  /\ marks' = SubSeq(marks, 1, Len(marks) - 1)
  /\ alloc' = [i \in Ids |-> IF i \in live' THEN alloc[i] ELSE Nowhere]
  /\ mem' = Visible(mem, live', alloc')

Next ==
  \/ \E i \in Ids, size \in Sizes :
       \/ Alloc(i, size)
       \/ GrowWithin(i, size)
       \/ GrowInPlace(i, size)
       \/ RegrowBlock(i, size)
       \/ GrowByCopy(i, size)
  \/ Mark
  \/ Release

Spec == Init /\ [][Next]_vars

-----------------------------------------------------------------------------
TypeOK ==
  /\ blocks \in Seq([base : Bases, used : Nat, room : Nat]) /\ blocks # <<>>
  /\ cap \in Nat
  /\ last \in Ptr \cup {NULL}
  /\ lastSize \in Nat
  /\ marks \in Seq([tail : Bases, used : Nat, cap : Nat])
  /\ live \subseteq Ids
  /\ alloc \in [Ids -> [base : Bases \cup {NULL}, off : Nat, size : Nat, depth : Nat]]

(* The arena's idea of the tail block agrees with what malloc returned:    *)
(* bumping never leaves the block (arena.c:45-61, 63-86, 136-152).         *)
InBounds ==
  /\ cap = Tail_.room
  /\ \A k \in DOMAIN blocks : blocks[k].used <= blocks[k].room

Held == {i \in live : alloc[i].size > 0}

(* Allocation i lies in the used part of the k-th block.                   *)
Within(i, k) ==
  alloc[i].base = blocks[k].base /\ alloc[i].off + alloc[i].size <= blocks[k].used

Apart(i, j) ==
  \/ alloc[i].base # alloc[j].base
  \/ alloc[i].off + alloc[i].size <= alloc[j].off
  \/ alloc[j].off + alloc[j].size <= alloc[i].off

(* Every allocation a client holds lies in the used part of a block that   *)
(* was neither freed nor moved away, and no two of them share a byte,      *)
(* whatever growths, marks and releases came in between                    *)
(* (arena.c:63-123, 136-152).                                              *)
Disjoint ==
  /\ \A i \in Held : \E k \in DOMAIN blocks : Within(i, k)
  /\ \A i, j \in Held : i # j => Apart(i, j)

(* What a client wrote into an allocation stays there while it holds it:   *)
(* growing by copy or by moving the block keeps it, and no other           *)
(* allocation writes over it (arena.c:72, 120-122).                        *)
ContentsKept ==
  \A i \in Held : \A o \in Bytes(alloc[i]) : mem[alloc[i].base][o] = i

(* A mark stays usable: its block is still on the list, and everything     *)
(* allocated before it lies below the point its release cuts back to       *)
(* (arena.c:125-152).                                                      *)
MarksHold ==
  \A d \in DOMAIN marks : \E t \in DOMAIN blocks :
    /\ blocks[t].base = marks[d].tail
    /\ marks[d].used <= blocks[t].used
    /\ marks[d].cap = blocks[t].room
    /\ \A i \in Held : alloc[i].depth < d =>
         \E k \in 1..t :
           Within(i, k) /\ (k = t => alloc[i].off + alloc[i].size <= marks[d].used)

(* The arena's bookkeeping is right, whatever allocations, growths, marks  *)
(* and releases came in which order: the tail block is as large as it is   *)
(* thought to be, what clients hold is disjoint and in used memory, and    *)
(* every mark can be released (arena.c:45-152).                            *)
ArenaInv == TypeOK /\ InBounds /\ Disjoint /\ MarksHold
=============================================================================
