---------------------------- MODULE ArenaProofs ----------------------------
(***************************************************************************)
(* The arena keeps its invariant and its clients' bytes, whatever is       *)
(* allocated, grown, marked and released, for every alignment, block size  *)
(* and set of sizes.                                                       *)
(***************************************************************************)
EXTENDS Arena, TLAPS

Writers == Ids \cup {NULL}

(* No two blocks share storage, and the model keeps all their bytes.       *)
BlocksApart ==
  /\ \A j, k \in DOMAIN blocks : blocks[j].base = blocks[k].base => j = k
  /\ \A k \in DOMAIN blocks : blocks[k].room <= MaxOffset + 1

(* What the arena calls its last allocation ends where the tail block is   *)
(* used up to, and what clients hold there lies before it or is it.        *)
LastAtEnd ==
  last # NULL =>
    /\ last.base = Tail_.base
    /\ last.off + lastSize = Tail_.used
    /\ \A i \in Held : alloc[i].base = Tail_.base =>
         \/ alloc[i].off + alloc[i].size <= last.off
         \/ alloc[i].off = last.off /\ alloc[i].size <= lastSize

(* A last allocation that a client holds was made after every mark: it may *)
(* grow without covering what a mark's release cuts back to.               *)
LastAboveMarks ==
  \A i \in Held : IsLast(i) =>
    \A d \in DOMAIN marks : marks[d].tail = Tail_.base => marks[d].used <= last.off

(* Older marks cut back further.                                           *)
MarksOrdered ==
  /\ \A d \in DOMAIN marks : marks[d].used > 0
  /\ \A d, e \in DOMAIN marks : \A t, u \in DOMAIN blocks :
       d < e /\ blocks[t].base = marks[d].tail /\ blocks[u].base = marks[e].tail =>
         t < u \/ (t = u /\ marks[d].used <= marks[e].used)

(* Everything but the contents.                                            *)
ShapeInv == ArenaInv /\ BlocksApart /\ LastAtEnd /\ LastAboveMarks /\ MarksOrdered

IInv ==
  /\ ShapeInv
  /\ mem \in [Bases -> [0..MaxOffset -> Writers]]
  /\ ContentsKept

-----------------------------------------------------------------------------
(* Rounding up never makes a size smaller (arena.c:17-20).                 *)
LEMMA RoundedUp ==
  ASSUME NEW n \in Nat
  PROVE  AlignUp(n) \in Nat /\ n <= AlignUp(n)
<1>1. Align \in Nat \ {0}
  BY BlockFits
<1>2. Align - (n % Align) \in Int
  BY <1>1
<1>3. \A x \in Int : x % Align \in 0..Align - 1
  BY <1>1
<1> QED
  BY <1>1, <1>2, <1>3 DEF AlignUp

(* Every size clients or marks ask for fits in the bytes the model keeps.  *)
LEMMA RoomEnough ==
  ASSUME NEW z \in Sizes \cup {1}
  PROVE  /\ z \in Nat /\ AlignUp(z) \in Nat /\ z <= AlignUp(z)
         /\ AlignUp(z) <= MaxOffset + 1 /\ BlockSize <= MaxOffset + 1 /\ MaxOffset \in Nat
<1>1. z \in Nat
  BY SizesNat
<1> QED
  BY <1>1, RoundedUp, RoomForAll

Block == [base : Bases, used : Nat, room : Nat]

(* The k-th block stays where it is and loses nothing.                     *)
Keeps(k) ==
  /\ k \in DOMAIN blocks'
  /\ blocks'[k].base = blocks[k].base
  /\ blocks'[k].room = blocks[k].room
  /\ blocks'[k].used >= blocks[k].used

(* What a step that allocates or grows leaves of the arena itself.         *)
Settled ==
  /\ blocks' \in Seq(Block) /\ blocks' # <<>> /\ cap' \in Nat
  /\ last' \in Ptr /\ lastSize' \in Nat
  /\ InBounds' /\ BlocksApart'
  /\ last'.base = Tail_'.base
  /\ last'.off + lastSize' = Tail_'.used

(* The types of what the invariant speaks of, spelled out.                 *)
LEMMA Shapes ==
  ASSUME ShapeInv
  PROVE  /\ TypeOK /\ InBounds /\ BlocksApart
         /\ Len(blocks) \in Nat /\ Len(blocks) > 0 /\ DOMAIN blocks = 1..Len(blocks)
         /\ Tail_ \in Block /\ Tail_ = blocks[Len(blocks)] /\ cap = Tail_.room
         /\ Tail_.used <= Tail_.room
         /\ \A k \in DOMAIN blocks : blocks[k] \in Block
         /\ DOMAIN marks = 1..Len(marks) /\ Len(marks) \in Nat
<1>1. TypeOK /\ InBounds /\ BlocksApart /\ blocks \in Seq(Block) /\ blocks # <<>>
  BY DEF ShapeInv, ArenaInv, TypeOK, Block
<1> QED
  BY <1>1 DEF TypeOK, InBounds, Tail_

(* An allocation a client holds lies in exactly one block.                 *)
LEMMA HeldWithin ==
  ASSUME ShapeInv, NEW i \in Held
  PROVE  /\ i \in Ids /\ alloc[i].base \in Bases
         /\ alloc[i].off \in Nat /\ alloc[i].size \in Nat /\ alloc[i].size > 0
         /\ alloc[i].depth \in Nat
         /\ \E k \in DOMAIN blocks : Within(i, k)
         /\ \A k \in DOMAIN blocks : alloc[i].base = blocks[k].base => Within(i, k)
<1>1. TypeOK /\ BlocksApart /\ Disjoint /\ \A k \in DOMAIN blocks : blocks[k] \in Block
  BY Shapes DEF ShapeInv, ArenaInv
<1>2. i \in Ids /\ alloc[i].off \in Nat /\ alloc[i].size \in Nat /\ alloc[i].size > 0
      /\ alloc[i].depth \in Nat
  BY <1>1 DEF TypeOK, Held
<1>3. PICK k \in DOMAIN blocks : Within(i, k)
  BY <1>1 DEF Disjoint
<1>4. alloc[i].base \in Bases
  BY <1>1, <1>3 DEF Within, Block
<1>5. \A j \in DOMAIN blocks : alloc[i].base = blocks[j].base => j = k
  BY <1>1, <1>3 DEF Within, BlocksApart
<1> QED
  BY <1>2, <1>3, <1>4, <1>5

(* Only the tail block changes when it is replaced.                        *)
LEMMA TailReplaced ==
  ASSUME ShapeInv, NEW grown \in Block, blocks' = [blocks EXCEPT ![Len(blocks)] = grown]
  PROVE  /\ blocks' \in Seq(Block) /\ Len(blocks') = Len(blocks) /\ blocks' # <<>>
         /\ DOMAIN blocks' = DOMAIN blocks /\ Tail_' = grown
         /\ blocks'[Len(blocks)] = grown
         /\ \A k \in DOMAIN blocks \ {Len(blocks)} : blocks'[k] = blocks[k] /\ Keeps(k)
<1>1. /\ Len(blocks) \in Nat /\ Len(blocks) > 0 /\ DOMAIN blocks = 1..Len(blocks)
      /\ blocks \in Seq(Block) /\ \A k \in DOMAIN blocks : blocks[k] \in Block
  BY Shapes DEF TypeOK, Block
<1>2. blocks' \in Seq(Block) /\ Len(blocks') = Len(blocks)
  BY <1>1
<1>3. DOMAIN blocks' = DOMAIN blocks
  BY <1>1
<1>4. Len(blocks) \in DOMAIN blocks /\ blocks'[Len(blocks)] = grown
  BY <1>1
<1>5. blocks' # <<>>
  BY <1>1, <1>2
<1>6. \A k \in DOMAIN blocks \ {Len(blocks)} : blocks'[k] = blocks[k]
  OBVIOUS
<1>7. \A k \in DOMAIN blocks \ {Len(blocks)} : Keeps(k)
  BY <1>1, <1>3, <1>6 DEF Keeps, Block
<1> QED
  BY <1>2, <1>3, <1>4, <1>5, <1>6, <1>7 DEF Tail_

(* Bumping by what the tail block has left stays in it.                    *)
LEMMA TailBumped ==
  ASSUME ShapeInv, NEW n \in Nat, n <= cap - Tail_.used, cap' = cap,
         blocks' = [blocks EXCEPT ![Len(blocks)].used = @ + n]
  PROVE  /\ blocks' \in Seq(Block) /\ blocks' # <<>>
         /\ Tail_'.base = Tail_.base /\ Tail_'.used = Tail_.used + n
         /\ InBounds' /\ BlocksApart' /\ \A k \in DOMAIN blocks : Keeps(k)
<1> DEFINE grown == [Tail_ EXCEPT !.used = @ + n]
<1>1. /\ Tail_ \in Block /\ Tail_ = blocks[Len(blocks)] /\ cap = Tail_.room
      /\ Len(blocks) \in DOMAIN blocks /\ InBounds /\ BlocksApart
  BY Shapes
<1>2. /\ grown \in Block /\ grown.base = Tail_.base /\ grown.room = Tail_.room
      /\ grown.used = Tail_.used + n /\ Tail_.used \in Nat /\ Tail_.room \in Nat
  BY <1>1 DEF Block
<1>3. blocks' = [blocks EXCEPT ![Len(blocks)] = grown]
  BY <1>1
<1> HIDE DEF grown
<1>4. /\ blocks' \in Seq(Block) /\ blocks' # <<>> /\ DOMAIN blocks' = DOMAIN blocks
      /\ Tail_' = grown /\ blocks'[Len(blocks)] = grown
      /\ \A k \in DOMAIN blocks \ {Len(blocks)} : blocks'[k] = blocks[k] /\ Keeps(k)
  BY <1>2, <1>3, TailReplaced
<1>5. \A k \in DOMAIN blocks : Keeps(k)
  <2>1. Keeps(Len(blocks))
    BY <1>1, <1>2, <1>4 DEF Keeps
  <2> QED
    BY <1>4, <2>1
<1>6. InBounds'
  <2>1. Tail_.used + n <= Tail_.room
    BY <1>1, <1>2
  <2>2. \A k \in DOMAIN blocks' : blocks'[k].used <= blocks'[k].room
    BY <1>1, <1>2, <1>4, <2>1 DEF InBounds
  <2> QED
    BY <1>1, <1>2, <1>4, <2>2 DEF InBounds
<1>7. BlocksApart'
  BY <1>1, <1>4, <1>5 DEF BlocksApart, Keeps
<1> QED
  BY <1>2, <1>4, <1>5, <1>6, <1>7

(* arena_alloc gives room in the tail block or in a new one, after all     *)
(* that is held or marked there (arena.c:45-61).                           *)
LEMMA AllocSound ==
  ASSUME ShapeInv, NEW size \in Sizes \cup {1}, ArenaAlloc(size)
  PROVE  /\ Settled /\ size <= lastSize' /\ lastSize' = AlignUp(size)
         /\ \A k \in DOMAIN blocks : Keeps(k)
         /\ \A i \in Held : alloc[i].base = last'.base =>
              alloc[i].off + alloc[i].size <= last'.off
         /\ \A d \in DOMAIN marks : marks[d].tail = last'.base => marks[d].used <= last'.off
<1> DEFINE need == AlignUp(size)
<1>1. need \in Nat /\ size <= need /\ need <= MaxOffset + 1 /\ BlockSize <= MaxOffset + 1
  BY RoomEnough
<1>2. /\ BlocksApart /\ InBounds
      /\ Len(blocks) \in Nat /\ Len(blocks) > 0 /\ DOMAIN blocks = 1..Len(blocks)
      /\ Tail_ \in Block /\ Tail_ = blocks[Len(blocks)] /\ cap = Tail_.room
      /\ \A k \in DOMAIN blocks : blocks[k] \in Block
      /\ blocks \in Seq(Block) /\ cap \in Nat
  BY Shapes DEF TypeOK, Block
<1>3. lastSize' = need /\ (BumpInTail(need) \/ BumpInNewBlock(need))
  BY DEF ArenaAlloc
<1>4. ASSUME NEW d \in DOMAIN marks, NEW k \in DOMAIN blocks, marks[d].tail = blocks[k].base
      PROVE  marks[d].used <= blocks[k].used
  BY <1>2, <1>4 DEF ShapeInv, ArenaInv, MarksHold, BlocksApart
<1>5. \A d \in DOMAIN marks : \E k \in DOMAIN blocks : marks[d].tail = blocks[k].base
  BY DEF ShapeInv, ArenaInv, MarksHold
<1> HIDE DEF need
<1>6. CASE BumpInTail(need)
  <2>1. /\ need <= cap - Tail_.used
        /\ blocks' = [blocks EXCEPT ![Len(blocks)].used = @ + need]
        /\ last' = [base |-> Tail_.base, off |-> Tail_.used] /\ cap' = cap
    BY <1>6 DEF BumpInTail
  <2>2. /\ blocks' \in Seq(Block) /\ blocks' # <<>>
        /\ Tail_'.base = Tail_.base /\ Tail_'.used = Tail_.used + need
        /\ InBounds' /\ BlocksApart' /\ \A k \in DOMAIN blocks : Keeps(k)
    BY <1>1, <2>1, TailBumped
  <2>6. Settled
    BY <1>1, <1>2, <1>3, <2>1, <2>2 DEF Settled, Ptr, Block
  <2>7. ASSUME NEW i \in Held, alloc[i].base = last'.base
        PROVE  alloc[i].off + alloc[i].size <= last'.off
    BY <1>2, <2>1, <2>7, HeldWithin DEF Within
  <2>8. ASSUME NEW d \in DOMAIN marks, marks[d].tail = last'.base
        PROVE  marks[d].used <= last'.off
    BY <1>2, <1>4, <2>1, <2>8
  <2> QED
    BY <1>1, <1>3, <2>2, <2>6, <2>7, <2>8 DEF need
<1>7. CASE BumpInNewBlock(need)
  <2>1. cap' = (IF need > BlockSize THEN need ELSE BlockSize)
    BY <1>7 DEF BumpInNewBlock
  <2>2. PICK b \in Fresh : /\ blocks' = Append(blocks, [base |-> b, used |-> need, room |-> cap'])
                           /\ last' = [base |-> b, off |-> 0]
    BY <1>7 DEF BumpInNewBlock
  <2>3. b \in Bases /\ \A k \in DOMAIN blocks : blocks[k].base # b
    BY DEF Fresh
  <2>4. cap' \in Nat /\ need <= cap' /\ cap' <= MaxOffset + 1
    BY <1>1, <2>1, BlockFits, RoomForAll
  <2>5. [base |-> b, used |-> need, room |-> cap'] \in Block
    BY <1>1, <2>3, <2>4 DEF Block
  <2>6. /\ blocks' \in Seq(Block) /\ Len(blocks') = Len(blocks) + 1 /\ blocks' # <<>>
        /\ DOMAIN blocks' = 1..Len(blocks) + 1
        /\ blocks'[Len(blocks) + 1] = [base |-> b, used |-> need, room |-> cap']
        /\ \A k \in DOMAIN blocks : blocks'[k] = blocks[k]
    BY <1>2, <2>2, <2>5
  <2>7. Tail_' = [base |-> b, used |-> need, room |-> cap']
    BY <2>6 DEF Tail_
  <2>8. \A k \in DOMAIN blocks : Keeps(k)
    BY SMTT(30), <1>2, <2>6 DEF Keeps, Block
  <2>9. InBounds' /\ BlocksApart'
    <3>1. \A k \in DOMAIN blocks' : blocks'[k].used <= blocks'[k].room
      BY <1>2, <2>4, <2>6 DEF InBounds
    <3>2. cap' = Tail_'.room
      BY <2>7
    <3>3. \A j, k \in DOMAIN blocks' : blocks'[j].base = blocks'[k].base => j = k
      BY <1>2, <2>3, <2>6 DEF BlocksApart
    <3>4. \A k \in DOMAIN blocks' : blocks'[k].room <= MaxOffset + 1
      BY <1>2, <2>4, <2>6 DEF BlocksApart
    <3> QED
      BY <3>1, <3>2, <3>3, <3>4 DEF InBounds, BlocksApart
  <2>10. Settled
    BY <1>1, <1>3, <2>2, <2>3, <2>4, <2>6, <2>7, <2>9 DEF Settled, Ptr
  <2>11. ASSUME NEW i \in Held
         PROVE  alloc[i].base # last'.base
    BY <2>2, <2>3, HeldWithin DEF Within
  <2>12. ASSUME NEW d \in DOMAIN marks
         PROVE  marks[d].tail # last'.base
    BY <1>5, <2>2, <2>3
  <2> QED
    BY <1>1, <1>3, <2>8, <2>10, <2>11, <2>12 DEF need
<1> QED
  BY <1>3, <1>6, <1>7

(* Client i now holds size bytes at what the arena calls its last          *)
(* allocation.                                                             *)
Placed(i, size) ==
  /\ marks' = marks
  /\ live' = live \cup {i}
  /\ alloc' = [alloc EXCEPT ![i] = [base |-> last'.base, off |-> last'.off,
                                    size |-> size, depth |-> Len(marks)]]

(* A settled step after which a client holds the last allocation keeps the *)
(* invariant, if it keeps the blocks others need and takes none of their   *)
(* bytes.                                                                  *)
LEMMA PlacedKeeps ==
  ASSUME ShapeInv, NEW i \in Ids, NEW size \in Nat, Settled, Placed(i, size),
         size <= lastSize',
         \A j \in Held \ {i} : \A k \in DOMAIN blocks : Within(j, k) => Keeps(k),
         \A j \in Held \ {i} : alloc[j].base = last'.base =>
           alloc[j].off + alloc[j].size <= last'.off,
         \A d \in DOMAIN marks : \A t \in DOMAIN blocks :
           marks[d].tail = blocks[t].base => Keeps(t),
         \A d \in DOMAIN marks : marks[d].tail = last'.base => marks[d].used <= last'.off
  PROVE  ShapeInv'
<1>1. TypeOK /\ DOMAIN marks = 1..Len(marks) /\ Len(marks) \in Nat
  BY Shapes
<1>2. /\ blocks' \in Seq(Block) /\ blocks' # <<>> /\ cap' \in Nat
      /\ last' \in Ptr /\ lastSize' \in Nat /\ InBounds' /\ BlocksApart'
      /\ last'.base = Tail_'.base /\ last'.off + lastSize' = Tail_'.used
  BY DEF Settled
<1>3. /\ last'.base \in Bases /\ last'.off \in Nat
      /\ Len(blocks') \in Nat /\ Len(blocks') \in DOMAIN blocks'
      /\ DOMAIN blocks' = 1..Len(blocks')
      /\ Tail_' = blocks'[Len(blocks')]
      /\ \A k \in DOMAIN blocks' : blocks'[k] \in Block
  BY <1>2 DEF Ptr, Tail_
<1> DEFINE new == [base |-> last'.base, off |-> last'.off, size |-> size, depth |-> Len(marks)]
<1>4. /\ marks' = marks /\ live' = live \cup {i}
      /\ alloc'[i] = new /\ \A j \in Ids \ {i} : alloc'[j] = alloc[j]
      /\ alloc' \in [Ids -> [base : Bases \cup {NULL}, off : Nat, size : Nat, depth : Nat]]
  BY <1>1, <1>3 DEF Placed, TypeOK
<1>5. TypeOK'
  BY <1>1, <1>2, <1>4 DEF TypeOK, Block
<1>6. /\ alloc'[i].base = last'.base /\ alloc'[i].off = last'.off
      /\ alloc'[i].size = size /\ alloc'[i].depth = Len(marks)
  BY <1>4
<1>7. Held' \ {i} = Held \ {i}
  BY <1>1, <1>4 DEF Held, TypeOK
<1>8. ASSUME NEW j \in Held', j # i
      PROVE  /\ j \in Held /\ alloc'[j] = alloc[j] /\ j \in Held \ {i}
             /\ alloc[j].base = last'.base => alloc[j].off + alloc[j].size <= last'.off
             /\ \A k \in DOMAIN blocks : Within(j, k) => Within(j, k)' /\ Keeps(k)
  <2>1. j \in Held /\ alloc'[j] = alloc[j] /\ j \in Ids /\ j \in Held \ {i}
    BY <1>4, <1>7, <1>8, HeldWithin
  <2>2. ASSUME NEW k \in DOMAIN blocks, Within(j, k)
        PROVE  Within(j, k)' /\ Keeps(k)
    <3>1. Keeps(k)
      BY <2>1, <2>2, <1>8
    <3>2. blocks[k].used \in Nat /\ blocks'[k].used \in Nat
      BY <1>3, <3>1, Shapes DEF Keeps, Block
    <3>3. alloc[j].off + alloc[j].size \in Nat
      BY <2>1, HeldWithin
    <3> QED
      BY <2>1, <2>2, <3>1, <3>2, <3>3 DEF Within, Keeps
  <2> QED
    BY <2>1, <2>2
<1>9. Disjoint'
  <2>1. ASSUME NEW j \in Held'
        PROVE  \E k \in DOMAIN blocks' : Within(j, k)'
    <3>1. CASE j = i
      <4>1. last'.off + size <= Tail_'.used
        BY <1>2, <1>3 DEF Block
      <4> QED
        BY <1>2, <1>3, <1>6, <3>1, <4>1 DEF Within
    <3>2. CASE j # i
      BY <1>8, <3>2, HeldWithin DEF Keeps
    <3> QED
      BY <3>1, <3>2
  <2>2. ASSUME NEW j \in Held', NEW k \in Held', j # k
        PROVE  Apart(j, k)'
    <3>1. CASE j = i
      BY <1>6, <1>8, <2>2, <3>1 DEF Apart
    <3>2. CASE k = i
      BY <1>6, <1>8, <2>2, <3>2 DEF Apart
    <3>3. CASE j # i /\ k # i
      BY <1>8, <2>2, <3>3 DEF Apart, ShapeInv, ArenaInv, Disjoint
    <3> QED
      BY <3>1, <3>2, <3>3
  <2> QED
    BY <2>1, <2>2 DEF Disjoint
<1>10. ASSUME NEW d \in DOMAIN marks, NEW t \in DOMAIN blocks, marks[d].tail = blocks[t].base
       PROVE  t \in DOMAIN blocks' /\ blocks'[t].base = blocks[t].base
              /\ blocks'[t].room = blocks[t].room /\ blocks'[t].used >= blocks[t].used
              /\ blocks[t].used \in Nat /\ blocks'[t].used \in Nat /\ marks[d].used \in Nat
  <2>1. Keeps(t)
    BY <1>10
  <2>2. blocks[t].used \in Nat
    BY Shapes DEF Block
  <2>3. marks[d].used \in Nat
    <3> DEFINE MarkSet == [tail : Bases, used : Nat, cap : Nat]
    <3>1. marks \in Seq(MarkSet)
      BY <1>1 DEF TypeOK
    <3> HIDE DEF MarkSet
    <3>2. marks[d] \in MarkSet
      BY <1>1, <3>1
    <3> QED
      BY <3>2 DEF MarkSet
  <2>4. t \in DOMAIN blocks' /\ blocks'[t] \in Block
    BY <1>3, <2>1 DEF Keeps
  <2> QED
    BY <2>1, <2>2, <2>3, <2>4 DEF Keeps, Block
<1>11. MarksHold'
  <2> SUFFICES ASSUME NEW d \in DOMAIN marks
               PROVE  \E t \in DOMAIN blocks' :
                 /\ blocks'[t].base = marks[d].tail
                 /\ marks[d].used <= blocks'[t].used
                 /\ marks[d].cap = blocks'[t].room
                 /\ \A j \in Held' : alloc'[j].depth < d =>
                      \E k \in 1..t :
                        Within(j, k)' /\ (k = t => alloc'[j].off + alloc'[j].size <= marks[d].used)
    BY <1>4 DEF MarksHold
  <2>1. PICK t \in DOMAIN blocks :
          /\ blocks[t].base = marks[d].tail
          /\ marks[d].used <= blocks[t].used
          /\ marks[d].cap = blocks[t].room
          /\ \A j \in Held : alloc[j].depth < d =>
               \E k \in 1..t :
                 Within(j, k) /\ (k = t => alloc[j].off + alloc[j].size <= marks[d].used)
    BY DEF ShapeInv, ArenaInv, MarksHold
  <2>2. ASSUME NEW j \in Held', alloc'[j].depth < d
        PROVE  \E k \in 1..t :
                 Within(j, k)' /\ (k = t => alloc'[j].off + alloc'[j].size <= marks[d].used)
    <3>1. j # i
      BY <1>1, <1>6, <2>2
    <3>2. j \in Held /\ alloc'[j] = alloc[j]
      BY <1>8, <3>1
    <3>3. PICK k \in 1..t :
            Within(j, k) /\ (k = t => alloc[j].off + alloc[j].size <= marks[d].used)
      BY <2>1, <2>2, <3>2
    <3>4. k \in DOMAIN blocks
      BY Shapes
    <3> QED
      BY <1>8, <3>1, <3>2, <3>3, <3>4
  <2> QED
    BY <1>10, <2>1, <2>2
<1>12. LastAtEnd'
  <2>1. ASSUME NEW j \in Held', alloc'[j].base = Tail_'.base
        PROVE  \/ alloc'[j].off + alloc'[j].size <= last'.off
               \/ alloc'[j].off = last'.off /\ alloc'[j].size <= lastSize'
    BY <1>2, <1>6, <1>8, <2>1
  <2> QED
    BY <1>2, <2>1 DEF LastAtEnd
<1>13. LastAboveMarks'
  BY <1>2, <1>4 DEF LastAboveMarks
<1>14. MarksOrdered'
  <2>1. ASSUME NEW d \in DOMAIN marks, NEW e \in DOMAIN marks,
               NEW t \in DOMAIN blocks', NEW u \in DOMAIN blocks',
               d < e, blocks'[t].base = marks[d].tail, blocks'[u].base = marks[e].tail
        PROVE  t < u \/ (t = u /\ marks[d].used <= marks[e].used)
    <3>1. PICK x \in DOMAIN blocks : blocks[x].base = marks[d].tail
      BY DEF ShapeInv, ArenaInv, MarksHold
    <3>2. PICK y \in DOMAIN blocks : blocks[y].base = marks[e].tail
      BY DEF ShapeInv, ArenaInv, MarksHold
    <3>3. x = t /\ y = u
      BY <1>2, <1>10, <2>1, <3>1, <3>2 DEF BlocksApart
    <3> QED
      BY <2>1, <3>1, <3>2, <3>3 DEF ShapeInv, MarksOrdered
  <2> QED
    BY <1>4, <2>1 DEF ShapeInv, MarksOrdered
<1> QED
  BY <1>2, <1>5, <1>9, <1>11, <1>12, <1>13, <1>14 DEF ShapeInv, ArenaInv

-----------------------------------------------------------------------------
(* The bytes clients hold are among those the model keeps.                 *)
LEMMA HeldBytes ==
  ShapeInv => \A j \in Held : \A o \in Bytes(alloc[j]) :
                alloc[j].base \in Bases /\ o \in 0..MaxOffset
<1> SUFFICES ASSUME ShapeInv, NEW j \in Held, NEW o \in Bytes(alloc[j])
             PROVE  alloc[j].base \in Bases /\ o \in 0..MaxOffset
  OBVIOUS
<1>1. alloc[j].base \in Bases /\ alloc[j].off \in Nat /\ alloc[j].size \in Nat
  BY HeldWithin
<1>2. PICK k \in DOMAIN blocks : Within(j, k)
  BY HeldWithin
<1>3. blocks[k] \in Block /\ blocks[k].used <= blocks[k].room /\ blocks[k].room <= MaxOffset + 1
  BY Shapes DEF InBounds, BlocksApart
<1>4. o >= alloc[j].off /\ o < alloc[j].off + alloc[j].size /\ o \in Int
  BY <1>1 DEF Bytes
<1> QED
  BY <1>1, <1>2, <1>3, <1>4, RoomForAll DEF Within, Block

(* The same after a step.                                                  *)
LEMMA HeldBytesNext ==
  ShapeInv' => \A j \in Held' : \A o \in Bytes(alloc'[j]) :
                 alloc'[j].base \in Bases /\ o \in 0..MaxOffset
<1>1. (ShapeInv => \A j \in Held : \A o \in Bytes(alloc[j]) :
                     alloc[j].base \in Bases /\ o \in 0..MaxOffset)'
  BY HeldBytes, PTL
<1> QED
  BY <1>1 DEF Bytes

(* Clients see what m holds of their bytes.                                *)
LEMMA SeenByClients ==
  ASSUME ShapeInv', NEW m, m \in [Bases -> [0..MaxOffset -> Writers]],
         mem' = Visible(m, live', alloc'),
         \A j \in Held' : \A o \in Bytes(alloc'[j]) : m[alloc'[j].base][o] = j
  PROVE  /\ mem' \in [Bases -> [0..MaxOffset -> Writers]]
         /\ ContentsKept'
<1>1. \A b \in Bases : m[b] \in [0..MaxOffset -> Writers]
  OBVIOUS
<1>2. \A b \in Bases : DOMAIN m[b] = 0..MaxOffset
  BY <1>1
<1>3. mem' = [b \in Bases |-> [o \in 0..MaxOffset |->
         IF \E i \in live' : alloc'[i].base = b /\ o \in Bytes(alloc'[i]) THEN m[b][o] ELSE NULL]]
  BY <1>2 DEF Visible
<1>4. mem' \in [Bases -> [0..MaxOffset -> Writers]]
  <2> SUFFICES ASSUME NEW b \in Bases
               PROVE  mem'[b] \in [0..MaxOffset -> Writers]
    BY <1>3
  <2> DEFINE seen(o) == \E i \in live' : alloc'[i].base = b /\ o \in Bytes(alloc'[i])
  <2>1. mem'[b] = [o \in 0..MaxOffset |-> IF seen(o) THEN m[b][o] ELSE NULL]
    BY <1>3
  <2> HIDE DEF seen
  <2> QED
    BY <1>1, <2>1 DEF Writers
<1>5. ASSUME NEW j \in Held', NEW o \in Bytes(alloc'[j])
      PROVE  mem'[alloc'[j].base][o] = j
  <2>1. j \in live' /\ alloc'[j].base \in Bases /\ o \in 0..MaxOffset
    BY HeldBytesNext DEF Held
  <2> QED
    BY <1>3, <2>1
<1> QED
  BY <1>4, <1>5 DEF ContentsKept

(* What a client writes at its bytes is read back there, and only there.   *)
LEMMA FilledExactly ==
  ASSUME NEW m, m \in [Bases -> [0..MaxOffset -> Writers]],
         NEW i \in Ids, NEW a, a.base \in Bases
  PROVE  /\ Filled(m, a, i) \in [Bases -> [0..MaxOffset -> Writers]]
         /\ \A b \in Bases : \A o \in 0..MaxOffset :
              Filled(m, a, i)[b][o] = IF b = a.base /\ o \in Bytes(a) THEN i ELSE m[b][o]
<1> DEFINE line == [o \in 0..MaxOffset |-> IF o \in Bytes(a) THEN i ELSE m[a.base][o]]
<1>1. m[a.base] \in [0..MaxOffset -> Writers]
  OBVIOUS
<1>2. Filled(m, a, i) = [m EXCEPT ![a.base] = line]
  BY <1>1 DEF Filled
<1>3. line \in [0..MaxOffset -> Writers]
  BY <1>1 DEF Writers
<1>4. \A o \in 0..MaxOffset : line[o] = IF o \in Bytes(a) THEN i ELSE m[a.base][o]
  OBVIOUS
<1> HIDE DEF line
<1> QED
  BY <1>2, <1>3, <1>4

(* The client that holds more now writes the bytes after those it had,     *)
(* which the allocation keeps: it and everyone else find what they wrote.  *)
LEMMA HeldKeepsContents ==
  ASSUME ShapeInv', NEW i \in Ids, NEW size \in Nat, NEW kept \in 0..size,
         NEW m, m \in [Bases -> [0..MaxOffset -> Writers]],
         Placed(i, size), TypeOK, last' \in Ptr,
         Hold(i, last', size, kept, m),
         \A o \in last'.off .. last'.off + kept - 1 : m[last'.base][o] = i,
         \A j \in Held' \ {i} : \A o \in Bytes(alloc'[j]) : m[alloc'[j].base][o] = j
  PROVE  /\ mem' \in [Bases -> [0..MaxOffset -> Writers]]
         /\ ContentsKept'
<1> DEFINE a == [base |-> last'.base, off |-> last'.off, size |-> size, depth |-> Len(marks)]
           rest == [base |-> last'.base, off |-> last'.off + kept, size |-> size - kept,
                    depth |-> Len(marks)]
           full == Filled(m, rest, i)
<1>1. mem' = Visible(full, live', alloc')
  BY DEF Hold
<1>2. last'.base \in Bases /\ last'.off \in Nat /\ rest.base = last'.base
  BY DEF Ptr
<1>3. /\ full \in [Bases -> [0..MaxOffset -> Writers]]
      /\ \A b \in Bases : \A o \in 0..MaxOffset :
           full[b][o] = IF b = rest.base /\ o \in Bytes(rest) THEN i ELSE m[b][o]
  BY <1>2, FilledExactly
<1> HIDE DEF full
<1>4. alloc'[i] = a
  BY DEF Placed, TypeOK
<1>5. ASSUME NEW j \in Held', NEW o \in Bytes(alloc'[j])
      PROVE  full[alloc'[j].base][o] = j
  <2>1. Disjoint' /\ j \in Ids /\ alloc'[j].off \in Nat /\ alloc'[j].size \in Nat
    BY DEF ShapeInv, ArenaInv, TypeOK, Held
  <2>6. alloc'[j].base \in Bases /\ o \in 0..MaxOffset
    BY HeldBytesNext
  <2>7. CASE j = i
    <3>1. o \in last'.off .. last'.off + size - 1
      BY <1>4, <2>7 DEF Bytes
    <3>2. CASE o \in last'.off .. last'.off + kept - 1
      <4>1. o \notin Bytes(rest)
        BY <1>2, <3>2 DEF Bytes
      <4> QED
        BY <1>2, <1>3, <1>4, <2>6, <2>7, <3>2, <4>1
    <3>3. CASE o \notin last'.off .. last'.off + kept - 1
      <4>1. o \in Bytes(rest)
        BY <1>2, <3>1, <3>3 DEF Bytes
      <4> QED
        BY <1>2, <1>3, <1>4, <2>6, <2>7, <4>1
    <3> QED
      BY <3>2, <3>3
  <2>8. CASE j # i
    <3>1. ~(alloc'[j].base = rest.base /\ o \in Bytes(rest))
      <4> SUFFICES ASSUME alloc'[j].base = rest.base, o \in Bytes(rest)
                   PROVE  FALSE
        OBVIOUS
      <4>1. size > 0
        BY <1>2 DEF Bytes
      <4>2. i \in Held'
        BY <1>4, <4>1 DEF Held, Placed
      <4>3. Apart(i, j)'
        BY <2>1, <2>8, <4>2 DEF Disjoint
      <4> QED
        <5>1. /\ alloc'[i].off = last'.off /\ alloc'[i].size = size /\ alloc'[i].base = last'.base
              /\ rest.off = last'.off + kept /\ rest.size = size - kept
          BY <1>4
        <5>2. o >= last'.off + kept /\ o < last'.off + size
          BY <1>2, <5>1 DEF Bytes
        <5>3. o >= alloc'[j].off /\ o < alloc'[j].off + alloc'[j].size
          BY <2>1 DEF Bytes
        <5> QED
          BY SMTT(30), <1>2, <2>1, <2>6, <4>3, <5>1, <5>2, <5>3 DEF Apart
    <3> QED
      BY <1>3, <2>6, <2>8, <3>1
  <2> QED
    BY <2>7, <2>8
<1>6. \A j \in Held' : \A o \in Bytes(alloc'[j]) : full[alloc'[j].base][o] = j
  BY <1>5
<1>7. full \in [Bases -> [0..MaxOffset -> Writers]]
  BY <1>3
<1> QED
  BY <1>1, <1>6, <1>7, SeenByClients

-----------------------------------------------------------------------------
(* A client that holds the last allocation holds the top of the tail block,*)
(* above everyone else's and above every mark.                             *)
LEMMA LastHeld ==
  ASSUME ShapeInv, NEW i \in Held, IsLast(i)
  PROVE  /\ last \in Ptr /\ lastSize \in Nat
         /\ alloc[i].base = last.base /\ alloc[i].off = last.off
         /\ last.base = Tail_.base /\ last.off + lastSize = Tail_.used
         /\ alloc[i].size <= lastSize
         /\ \A j \in Held \ {i} : alloc[j].base = last.base =>
              alloc[j].off + alloc[j].size <= last.off
         /\ \A d \in DOMAIN marks : marks[d].tail = last.base => marks[d].used <= last.off
<1>1. i \in Ids /\ alloc[i].base \in Bases /\ alloc[i].off \in Nat /\ alloc[i].size \in Nat
      /\ alloc[i].size > 0
  BY HeldWithin
<1>2. last \in Ptr /\ alloc[i].base = last.base /\ alloc[i].off = last.off
  BY <1>1 DEF IsLast, Ptr
<1>3. last # NULL /\ lastSize \in Nat
  BY <1>2, NullIsNoPointer DEF Ptr, ShapeInv, ArenaInv, TypeOK
<1>4. /\ last.base = Tail_.base /\ last.off + lastSize = Tail_.used
      /\ \A j \in Held : alloc[j].base = Tail_.base =>
           \/ alloc[j].off + alloc[j].size <= last.off
           \/ alloc[j].off = last.off /\ alloc[j].size <= lastSize
  BY <1>3 DEF ShapeInv, LastAtEnd
<1>5. alloc[i].size <= lastSize
  BY <1>1, <1>2, <1>4
<1>6. ASSUME NEW j \in Held \ {i}, alloc[j].base = last.base
      PROVE  alloc[j].off + alloc[j].size <= last.off
  <2>1. alloc[j].off \in Nat /\ alloc[j].size \in Nat /\ alloc[j].size > 0
    BY HeldWithin
  <2>2. Apart(j, i)
    BY DEF ShapeInv, ArenaInv, Disjoint
  <2> QED
    BY <1>1, <1>2, <1>4, <1>6, <2>1, <2>2 DEF Apart
<1>7. \A d \in DOMAIN marks : marks[d].tail = last.base => marks[d].used <= last.off
  BY <1>4 DEF ShapeInv, LastAboveMarks
<1> QED
  BY <1>2, <1>3, <1>4, <1>5, <1>6, <1>7

(* A client that is given last' holds it.                                  *)
LEMMA HoldPlaces ==
  ASSUME last' \in Ptr, NEW i \in Ids, NEW size \in Nat, NEW kept, NEW m,
         Hold(i, last', size, kept, m), marks' = marks, live' = live \cup {i}
  PROVE  Placed(i, size)
<1>1. last'.off + 0 = last'.off /\ size - 0 = size
  BY DEF Ptr
<1> QED
  BY <1>1 DEF Hold, Placed

(* Who else holds something held it before.                                *)
LEMMA OthersHeld ==
  ASSUME TypeOK, NEW i \in Ids, NEW size, Placed(i, size), NEW j \in Held' \ {i}
  PROVE  j \in Held \ {i} /\ alloc'[j] = alloc[j]
BY DEF Placed, Held, TypeOK

(* A client allocates.                                                     *)
LEMMA AllocKeeps ==
  ASSUME IInv, NEW i \in Ids, NEW size \in Sizes, Alloc(i, size)
  PROVE  IInv'
<1>1. ShapeInv /\ ContentsKept /\ TypeOK /\ mem \in [Bases -> [0..MaxOffset -> Writers]]
  BY Shapes DEF IInv
<1>2. /\ ArenaAlloc(size) /\ i \notin live /\ live' = live \cup {i} /\ marks' = marks
      /\ Hold(i, last', size, 0, mem)
  BY DEF Alloc
<1>3. /\ Settled /\ size <= lastSize'
      /\ \A k \in DOMAIN blocks : Keeps(k)
      /\ \A j \in Held : alloc[j].base = last'.base =>
           alloc[j].off + alloc[j].size <= last'.off
      /\ \A d \in DOMAIN marks : marks[d].tail = last'.base => marks[d].used <= last'.off
  BY <1>1, <1>2, AllocSound
<1>4. last' \in Ptr /\ size \in Nat
  BY <1>3, SizesNat DEF Settled
<1>5. Placed(i, size)
  BY <1>2, <1>4, HoldPlaces
<1>6. ShapeInv'
  BY <1>1, <1>3, <1>4, <1>5, PlacedKeeps
<1>7. \A j \in Held' \ {i} : \A o \in Bytes(alloc'[j]) : mem[alloc'[j].base][o] = j
  BY <1>1, <1>5, OthersHeld DEF ContentsKept
<1>8. \A o \in last'.off .. last'.off + 0 - 1 : mem[last'.base][o] = i
  BY <1>4 DEF Ptr
<1>9. 0 \in 0..size
  BY <1>4
<1> QED
  BY <1>1, <1>2, <1>4, <1>5, <1>6, <1>7, <1>8, <1>9, HeldKeepsContents DEF IInv

(* A client grows within the rounded size.                                 *)
LEMMA GrowWithinKeeps ==
  ASSUME IInv, NEW i \in Ids, NEW size \in Sizes, GrowWithin(i, size)
  PROVE  IInv'
<1>1. ShapeInv /\ ContentsKept /\ TypeOK /\ mem \in [Bases -> [0..MaxOffset -> Writers]]
  BY Shapes DEF IInv
<1>2. /\ i \in live /\ alloc[i].size > 0 /\ size > alloc[i].size /\ IsLast(i)
      /\ AlignUp(size) <= lastSize
      /\ UNCHANGED <<blocks, cap, last, lastSize, marks, live>>
      /\ Hold(i, last', size, alloc[i].size, mem)
  BY DEF GrowWithin, Growing
<1>3. i \in Held
  BY <1>2 DEF Held
<1>4. /\ last \in Ptr /\ lastSize \in Nat
      /\ alloc[i].base = last.base /\ alloc[i].off = last.off
      /\ last.base = Tail_.base /\ last.off + lastSize = Tail_.used
      /\ \A j \in Held \ {i} : alloc[j].base = last.base =>
           alloc[j].off + alloc[j].size <= last.off
      /\ \A d \in DOMAIN marks : marks[d].tail = last.base => marks[d].used <= last.off
  BY <1>1, <1>2, <1>3, LastHeld
<1>5. size \in Nat /\ size <= lastSize /\ alloc[i].size \in 0..size /\ live' = live \cup {i}
  <2>1. size \in Nat /\ AlignUp(size) \in Nat /\ size <= AlignUp(size)
    BY RoomEnough
  <2>2. alloc[i].size \in Nat
    BY <1>1, <1>3, HeldWithin
  <2> QED
    BY <1>2, <1>4, <2>1, <2>2
<1>6. Placed(i, size)
  BY <1>2, <1>4, <1>5, HoldPlaces
<1>7. \A k \in DOMAIN blocks : Keeps(k)
  <2>1. \A k \in DOMAIN blocks : blocks[k].used \in Nat
    BY <1>1, Shapes DEF Block
  <2> QED
    BY <1>2, <2>1 DEF Keeps
<1>8. Settled
  <2>1. blocks \in Seq(Block) /\ blocks # <<>> /\ cap \in Nat /\ InBounds /\ BlocksApart
    BY <1>1, Shapes DEF TypeOK, Block
  <2>2. InBounds' /\ BlocksApart' /\ Tail_' = Tail_
    BY <1>2, <2>1 DEF InBounds, BlocksApart, Tail_
  <2> QED
    BY <1>2, <1>4, <2>1, <2>2 DEF Settled
<1>9. ShapeInv'
  BY <1>1, <1>2, <1>4, <1>5, <1>6, <1>7, <1>8, PlacedKeeps
<1>10. \A j \in Held' \ {i} : \A o \in Bytes(alloc'[j]) : mem[alloc'[j].base][o] = j
  BY <1>1, <1>6, OthersHeld DEF ContentsKept
<1>11. \A o \in last'.off .. last'.off + alloc[i].size - 1 : mem[last'.base][o] = i
  BY <1>1, <1>2, <1>3, <1>4 DEF ContentsKept, Bytes
<1> QED
  BY ZenonT(30), <1>1, <1>2, <1>4, <1>5, <1>6, <1>9, <1>10, <1>11, HeldKeepsContents DEF IInv

(* A client grows into the rest of the tail block.                         *)
LEMMA GrowInPlaceKeeps ==
  ASSUME IInv, NEW i \in Ids, NEW size \in Sizes, GrowInPlace(i, size)
  PROVE  IInv'
<1>1. ShapeInv /\ ContentsKept /\ TypeOK /\ mem \in [Bases -> [0..MaxOffset -> Writers]]
  BY Shapes DEF IInv
<1>2. /\ i \in live /\ alloc[i].size > 0 /\ size > alloc[i].size /\ IsLast(i)
      /\ AlignUp(size) > lastSize /\ Extra(size) <= cap - Tail_.used
      /\ blocks' = [blocks EXCEPT ![Len(blocks)].used = @ + Extra(size)]
      /\ lastSize' = AlignUp(size)
      /\ UNCHANGED <<cap, last, marks, live>>
      /\ Hold(i, last', size, alloc[i].size, mem)
  BY DEF GrowInPlace, Growing
<1>3. i \in Held
  BY <1>2 DEF Held
<1>4. /\ last \in Ptr /\ lastSize \in Nat
      /\ alloc[i].base = last.base /\ alloc[i].off = last.off
      /\ last.base = Tail_.base /\ last.off + lastSize = Tail_.used
      /\ \A j \in Held \ {i} : alloc[j].base = last.base =>
           alloc[j].off + alloc[j].size <= last.off
      /\ \A d \in DOMAIN marks : marks[d].tail = last.base => marks[d].used <= last.off
  BY <1>1, <1>2, <1>3, LastHeld
<1>5. /\ size \in Nat /\ AlignUp(size) \in Nat /\ size <= lastSize'
      /\ Extra(size) \in Nat /\ lastSize + Extra(size) = AlignUp(size)
      /\ alloc[i].size \in 0..size /\ live' = live \cup {i}
  <2>1. size \in Nat /\ AlignUp(size) \in Nat /\ size <= AlignUp(size)
    BY RoomEnough
  <2>2. alloc[i].size \in Nat
    BY <1>1, <1>3, HeldWithin
  <2> QED
    BY <1>2, <1>4, <2>1, <2>2 DEF Extra
<1>6. Placed(i, size)
  BY <1>2, <1>4, <1>5, HoldPlaces
<1>7. /\ blocks' \in Seq(Block) /\ blocks' # <<>>
      /\ Tail_'.base = Tail_.base /\ Tail_'.used = Tail_.used + Extra(size)
      /\ InBounds' /\ BlocksApart' /\ \A k \in DOMAIN blocks : Keeps(k)
  BY <1>1, <1>2, <1>5, TailBumped
<1>8. Settled
  <2>1. cap' \in Nat
    BY <1>1, <1>2 DEF TypeOK
  <2>2. last.off + lastSize' = Tail_'.used
    BY <1>2, <1>4, <1>5, <1>7 DEF Ptr
  <2> QED
    BY <1>2, <1>4, <1>5, <1>7, <2>1, <2>2 DEF Settled
<1>9. ShapeInv'
  BY <1>1, <1>2, <1>4, <1>5, <1>6, <1>7, <1>8, PlacedKeeps
<1>10. \A j \in Held' \ {i} : \A o \in Bytes(alloc'[j]) : mem[alloc'[j].base][o] = j
  BY <1>1, <1>6, OthersHeld DEF ContentsKept
<1>11. \A o \in last'.off .. last'.off + alloc[i].size - 1 : mem[last'.base][o] = i
  BY <1>1, <1>2, <1>3, <1>4 DEF ContentsKept, Bytes
<1>12. mem' \in [Bases -> [0..MaxOffset -> Writers]] /\ ContentsKept'
  <2>1. TypeOK /\ last' \in Ptr /\ alloc[i].size \in 0..size /\ size \in Nat
    BY <1>1, <1>2, <1>4, <1>5
  <2>2. mem \in [Bases -> [0..MaxOffset -> Writers]] /\ Hold(i, last', size, alloc[i].size, mem)
    BY <1>1, <1>2
  <2> QED
    BY ZenonT(30), <1>6, <1>9, <1>10, <1>11, <2>1, <2>2, HeldKeepsContents
<1> QED
  BY <1>9, <1>12 DEF IInv

(* The tail block grows, and may move: the client that grows is alone in   *)
(* it, and no mark names it.                                               *)
LEMMA RegrowKeeps ==
  ASSUME IInv, NEW i \in Ids, NEW size \in Sizes, RegrowBlock(i, size)
  PROVE  IInv'
<1>1. ShapeInv /\ ContentsKept /\ TypeOK /\ mem \in [Bases -> [0..MaxOffset -> Writers]]
  BY Shapes DEF IInv
<1>2. /\ i \in live /\ alloc[i].size > 0 /\ size > alloc[i].size /\ IsLast(i)
      /\ last = [base |-> Tail_.base, off |-> 0]
      /\ marks' = marks /\ live' = live
      /\ cap' = AlignUp(size) /\ lastSize' = AlignUp(size)
  BY DEF RegrowBlock, Growing
<1>3. PICK b \in Fresh \cup {Tail_.base} :
        /\ blocks' = [blocks EXCEPT ![Len(blocks)] =
                        [base |-> b, used |-> AlignUp(size), room |-> AlignUp(size)]]
        /\ last' = [base |-> b, off |-> 0]
        /\ Hold(i, last', size, alloc[i].size, [mem EXCEPT ![b] = mem[Tail_.base]])
  BY DEF RegrowBlock
<1>4. i \in Held
  BY <1>2 DEF Held
<1>5. /\ last \in Ptr /\ alloc[i].base = last.base /\ alloc[i].off = 0
      /\ last.base = Tail_.base /\ last.off = 0
      /\ \A j \in Held \ {i} : alloc[j].base = Tail_.base => alloc[j].off + alloc[j].size <= 0
      /\ \A d \in DOMAIN marks : marks[d].tail = Tail_.base => marks[d].used <= 0
  BY <1>1, <1>2, <1>4, LastHeld
<1>6. /\ size \in Nat /\ AlignUp(size) \in Nat /\ size <= AlignUp(size)
      /\ AlignUp(size) <= MaxOffset + 1
      /\ alloc[i].size \in Nat /\ alloc[i].size \in 0..size
      /\ live' = live \cup {i}
  <2>1. size \in Nat /\ AlignUp(size) \in Nat /\ size <= AlignUp(size)
        /\ AlignUp(size) <= MaxOffset + 1
    BY RoomEnough
  <2>2. alloc[i].size \in Nat
    BY <1>1, <1>4, HeldWithin
  <2> QED
    BY <1>2, <2>1, <2>2
<1>7. /\ BlocksApart /\ InBounds /\ Tail_ = blocks[Len(blocks)] /\ Len(blocks) \in DOMAIN blocks
      /\ \A k \in DOMAIN blocks : blocks[k] \in Block
  BY <1>1, Shapes
<1>8. b \in Bases /\ \A k \in DOMAIN blocks \ {Len(blocks)} : blocks[k].base # b
  BY <1>7 DEF Fresh, Block, BlocksApart
<1> DEFINE grown == [base |-> b, used |-> AlignUp(size), room |-> AlignUp(size)]
<1>9. grown \in Block
  BY <1>6, <1>8 DEF Block
<1>10. /\ blocks' \in Seq(Block) /\ blocks' # <<>> /\ DOMAIN blocks' = DOMAIN blocks
       /\ Tail_' = grown /\ blocks'[Len(blocks)] = grown
       /\ \A k \in DOMAIN blocks \ {Len(blocks)} : blocks'[k] = blocks[k] /\ Keeps(k)
  BY <1>1, <1>3, <1>9, TailReplaced
<1>11. last' \in Ptr /\ last'.base = b /\ last'.off = 0
  BY <1>3, <1>8 DEF Ptr
<1>12. Settled
  <2>1. InBounds'
    BY <1>2, <1>6, <1>7, <1>10 DEF InBounds
  <2>2. \A j, k \in DOMAIN blocks' : blocks'[j].base = blocks'[k].base => j = k
    BY <1>7, <1>8, <1>10 DEF BlocksApart
  <2>3. \A k \in DOMAIN blocks' : blocks'[k].room <= MaxOffset + 1
    BY <1>6, <1>7, <1>10 DEF BlocksApart
  <2>4. BlocksApart'
    BY <2>2, <2>3 DEF BlocksApart
  <2> QED
    BY <1>2, <1>6, <1>10, <1>11, <2>1, <2>4 DEF Settled
<1>13. Placed(i, size)
  BY <1>2, <1>3, <1>6, <1>11, HoldPlaces
<1>14. ASSUME NEW j \in Held \ {i}
       PROVE  /\ alloc[j].base # Tail_.base /\ alloc[j].base # b /\ alloc[j].base \in Bases
              /\ \A k \in DOMAIN blocks : Within(j, k) => Keeps(k)
  <2>1. /\ alloc[j].off \in Nat /\ alloc[j].size \in Nat /\ alloc[j].size > 0
        /\ alloc[j].base \in Bases /\ \E k \in DOMAIN blocks : Within(j, k)
    BY <1>1, HeldWithin
  <2>2. alloc[j].base # Tail_.base
    BY <1>5, <2>1
  <2>3. \A k \in DOMAIN blocks : Within(j, k) => k # Len(blocks)
    BY <1>7, <2>2 DEF Within
  <2>4. alloc[j].base # b
    BY <1>8, <2>1, <2>3 DEF Within
  <2> QED
    BY <1>10, <2>1, <2>2, <2>3, <2>4
<1>15. ASSUME NEW d \in DOMAIN marks
       PROVE  /\ marks[d].tail # Tail_.base /\ marks[d].tail # b
              /\ \A t \in DOMAIN blocks : marks[d].tail = blocks[t].base => Keeps(t)
  <2>1. marks[d].used > 0 /\ marks[d].used \in Nat
    <3> DEFINE MarkSet == [tail : Bases, used : Nat, cap : Nat]
    <3>1. marks \in Seq(MarkSet)
      BY <1>1 DEF TypeOK
    <3> HIDE DEF MarkSet
    <3>2. marks[d] \in MarkSet
      BY <3>1
    <3> QED
      BY <1>1, <3>2 DEF MarkSet, ShapeInv, MarksOrdered
  <2>2. marks[d].tail # Tail_.base
    BY <1>5, <2>1
  <2>3. PICK t \in DOMAIN blocks : blocks[t].base = marks[d].tail
    BY <1>1 DEF ShapeInv, ArenaInv, MarksHold
  <2> QED
    BY <1>7, <1>8, <1>10, <2>2, <2>3
<1>16. ShapeInv'
  BY <1>1, <1>2, <1>6, <1>11, <1>12, <1>13, <1>14, <1>15, PlacedKeeps
<1> DEFINE moved == [mem EXCEPT ![b] = mem[Tail_.base]]
<1>17. /\ moved \in [Bases -> [0..MaxOffset -> Writers]]
       /\ moved[b] = mem[Tail_.base] /\ \A x \in Bases \ {b} : moved[x] = mem[x]
  <2>1. Tail_.base \in Bases
    BY <1>7 DEF Block
  <2> QED
    BY <1>1, <1>8, <2>1
<1>18. Hold(i, last', size, alloc[i].size, moved)
  BY <1>3
<1> HIDE DEF moved
<1>19. ASSUME NEW j \in Held' \ {i}, NEW o \in Bytes(alloc'[j])
       PROVE  moved[alloc'[j].base][o] = j
  <2>1. j \in Held \ {i} /\ alloc'[j] = alloc[j]
    BY <1>1, <1>13, OthersHeld
  <2> QED
    BY <1>1, <1>14, <1>17, <1>19, <2>1 DEF ContentsKept
<1>20. \A o \in last'.off .. last'.off + alloc[i].size - 1 : moved[last'.base][o] = i
  BY <1>1, <1>4, <1>5, <1>6, <1>11, <1>17 DEF ContentsKept, Bytes
<1>21. \A j \in Held' \ {i} : \A o \in Bytes(alloc'[j]) : moved[alloc'[j].base][o] = j
  BY <1>19
<1>22. mem' \in [Bases -> [0..MaxOffset -> Writers]] /\ ContentsKept'
  <2>1. moved \in [Bases -> [0..MaxOffset -> Writers]] /\ alloc[i].size \in 0..size
    BY <1>6, <1>17
  <2> QED
    BY ZenonT(30), <1>1, <1>6, <1>11, <1>13, <1>16, <1>18, <1>20, <1>21, <2>1, HeldKeepsContents
<1> QED
  BY <1>16, <1>22 DEF IInv

(* A client's allocation moves to where it can grow, its bytes with it.    *)
LEMMA GrowByCopyKeeps ==
  ASSUME IInv, NEW i \in Ids, NEW size \in Sizes, GrowByCopy(i, size)
  PROVE  IInv'
<1>1. ShapeInv /\ ContentsKept /\ TypeOK /\ mem \in [Bases -> [0..MaxOffset -> Writers]]
  BY Shapes DEF IInv
<1> DEFINE old == alloc[i]
           copied == Copied(old, last')
<1>2. /\ i \in live /\ old.size > 0 /\ size > old.size
      /\ ArenaAlloc(size) /\ marks' = marks /\ live' = live
      /\ Hold(i, last', size, old.size, copied)
  BY DEF GrowByCopy, Growing
<1>3. i \in Held
  BY <1>2 DEF Held
<1>4. /\ Settled /\ size <= lastSize'
      /\ \A k \in DOMAIN blocks : Keeps(k)
      /\ \A j \in Held : alloc[j].base = last'.base =>
           alloc[j].off + alloc[j].size <= last'.off
      /\ \A d \in DOMAIN marks : marks[d].tail = last'.base => marks[d].used <= last'.off
  BY <1>1, <1>2, AllocSound
<1>5. /\ last' \in Ptr /\ last'.base \in Bases /\ last'.off \in Nat /\ size \in Nat
      /\ live' = live \cup {i}
  BY <1>2, <1>4, SizesNat DEF Settled, Ptr
<1>6. /\ old.base \in Bases /\ old.off \in Nat /\ old.size \in Nat /\ old.size \in 0..size
  BY <1>1, <1>2, <1>3, <1>5, HeldWithin
<1>7. Placed(i, size)
  BY <1>2, <1>5, HoldPlaces
<1>8. ShapeInv'
  BY <1>1, <1>4, <1>5, <1>7, PlacedKeeps
<1>9. \A o \in old.off .. old.off + old.size - 1 : o \in 0..MaxOffset /\ mem[old.base][o] = i
  BY <1>1, <1>3, HeldBytes DEF ContentsKept, Bytes
<1> DEFINE line == [o \in 0..MaxOffset |-> IF o \in last'.off .. last'.off + old.size - 1
                      THEN mem[old.base][old.off + o - last'.off] ELSE mem[last'.base][o]]
<1>10. mem[last'.base] \in [0..MaxOffset -> Writers]
  BY <1>1, <1>5
<1>11. copied = [mem EXCEPT ![last'.base] = line]
  BY <1>1, <1>10 DEF Copied
<1>12. ASSUME NEW o \in last'.off .. last'.off + old.size - 1
       PROVE  mem[old.base][old.off + o - last'.off] = i
  <2>1. old.off + o - last'.off \in old.off .. old.off + old.size - 1
    BY <1>5, <1>6
  <2> QED
    BY <1>9, <2>1
<1>13. line \in [0..MaxOffset -> Writers]
  BY <1>10, <1>12 DEF Writers
<1>14. /\ \A o \in 0..MaxOffset : o \in last'.off .. last'.off + old.size - 1 => line[o] = i
       /\ \A o \in 0..MaxOffset : o \notin last'.off .. last'.off + old.size - 1 =>
            line[o] = mem[last'.base][o]
  BY <1>12
<1> HIDE DEF line
<1>15. /\ copied \in [Bases -> [0..MaxOffset -> Writers]]
       /\ copied[last'.base] = line /\ \A x \in Bases \ {last'.base} : copied[x] = mem[x]
  BY <1>1, <1>5, <1>11, <1>13
<1>16. ASSUME NEW o \in last'.off .. last'.off + old.size - 1
       PROVE  copied[last'.base][o] = i
  <2>1. size > 0 /\ alloc'[i].off = last'.off /\ alloc'[i].size = size
    <3>1. alloc'[i] = [base |-> last'.base, off |-> last'.off, size |-> size,
                       depth |-> Len(marks)]
      BY <1>1, <1>7 DEF Placed, TypeOK
    <3> QED
      BY <1>2, <1>5, <1>6, <3>1
  <2>2. i \in Held' /\ o \in Bytes(alloc'[i])
    BY <1>2, <1>5, <1>6, <2>1 DEF Held, Bytes
  <2>3. o \in 0..MaxOffset
    BY <1>8, <2>2, HeldBytesNext
  <2> QED
    BY <1>14, <1>15, <2>3
<1>17. ASSUME NEW j \in Held' \ {i}, NEW o \in Bytes(alloc'[j])
       PROVE  copied[alloc'[j].base][o] = j
  <2>1. j \in Held \ {i} /\ alloc'[j] = alloc[j] /\ o \in Bytes(alloc[j])
    BY <1>1, <1>7, OthersHeld
  <2>2. alloc[j].base \in Bases /\ o \in 0..MaxOffset /\ mem[alloc[j].base][o] = j
    BY <1>1, <2>1, HeldBytes DEF ContentsKept
  <2>3. CASE alloc[j].base = last'.base
    <3>1. alloc[j].off + alloc[j].size <= last'.off /\ alloc[j].off \in Nat /\ alloc[j].size \in Nat
      BY <1>1, <1>4, <2>1, <2>3, HeldWithin
    <3>2. o \notin last'.off .. last'.off + old.size - 1
      BY <1>5, <2>1, <3>1 DEF Bytes
    <3> QED
      BY <1>14, <1>15, <2>1, <2>2, <2>3, <3>2
  <2>4. CASE alloc[j].base # last'.base
    BY <1>15, <2>1, <2>2, <2>4
  <2> QED
    BY <2>3, <2>4
<1>18. \A o \in last'.off .. last'.off + old.size - 1 : copied[last'.base][o] = i
  BY <1>16
<1>19. \A j \in Held' \ {i} : \A o \in Bytes(alloc'[j]) : copied[alloc'[j].base][o] = j
  BY <1>17
<1> HIDE DEF copied
<1>20. mem' \in [Bases -> [0..MaxOffset -> Writers]] /\ ContentsKept'
  <2>1. \A o \in last'.off .. last'.off + old.size - 1 : copied[last'.base][o] = i
    BY <1>18
  <2>2. TypeOK /\ last' \in Ptr /\ old.size \in 0..size /\ size \in Nat
    BY <1>1, <1>5, <1>6
  <2> QED
    BY ZenonT(30), <1>2, <1>7, <1>8, <1>15, <1>19, <2>1, <2>2, HeldKeepsContents
<1> QED
  BY <1>8, <1>20 DEF IInv

(* A mark takes a byte of its own.                                         *)
LEMMA MarkKeeps ==
  ASSUME IInv, Mark
  PROVE  IInv'
<1>1. ShapeInv /\ ContentsKept /\ TypeOK /\ mem \in [Bases -> [0..MaxOffset -> Writers]]
      /\ DOMAIN marks = 1..Len(marks) /\ Len(marks) \in Nat
  BY Shapes DEF IInv
<1>2. ArenaAlloc(1) /\ UNCHANGED <<live, alloc, mem>>
  BY DEF Mark
<1>3. /\ Settled /\ 1 <= lastSize'
      /\ \A k \in DOMAIN blocks : Keeps(k)
      /\ \A i \in Held : alloc[i].base = last'.base =>
           alloc[i].off + alloc[i].size <= last'.off
      /\ \A d \in DOMAIN marks : marks[d].tail = last'.base => marks[d].used <= last'.off
  BY <1>1, <1>2, AllocSound
<1>4. /\ blocks' \in Seq(Block) /\ blocks' # <<>> /\ cap' \in Nat
      /\ last' \in Ptr /\ last'.off \in Nat /\ lastSize' \in Nat /\ InBounds' /\ BlocksApart'
      /\ last'.base = Tail_'.base /\ last'.off + lastSize' = Tail_'.used
  BY <1>3 DEF Settled, Ptr
<1>5. /\ Len(blocks') \in DOMAIN blocks' /\ DOMAIN blocks' = 1..Len(blocks')
      /\ Len(blocks') \in Nat
      /\ Tail_' = blocks'[Len(blocks')] /\ Tail_' \in Block
      /\ \A k \in DOMAIN blocks' : blocks'[k] \in Block
  BY <1>4 DEF Tail_
<1> DEFINE MarkSet == [tail : Bases, used : Nat, cap : Nat]
           new == [tail |-> Tail_'.base, used |-> Tail_'.used, cap |-> cap']
           here == Len(marks) + 1
<1>6. new \in MarkSet /\ marks \in Seq(MarkSet) /\ marks' = Append(marks, new)
  BY <1>1, <1>4, <1>5 DEF Mark, TypeOK, Block, Tail_
<1>7. new.tail = Tail_'.base /\ new.used = Tail_'.used /\ new.cap = Tail_'.room
  BY <1>4 DEF InBounds
<1> HIDE DEF MarkSet, new
<1>8. /\ marks' \in Seq(MarkSet) /\ DOMAIN marks' = DOMAIN marks \cup {here}
      /\ marks'[here] = new /\ \A d \in DOMAIN marks : marks'[d] = marks[d] /\ d < here
      /\ \A d \in DOMAIN marks : marks[d] \in MarkSet
  BY <1>1, <1>6
<1>9. TypeOK'
  BY <1>1, <1>2, <1>4, <1>8 DEF TypeOK, Block, MarkSet
<1>10. Held' = Held /\ \A i \in Held : alloc'[i] = alloc[i]
  BY <1>2 DEF Held
<1>11. ASSUME NEW i \in Held, NEW k \in DOMAIN blocks, Within(i, k)
       PROVE  Within(i, k)' /\ k \in DOMAIN blocks'
  <2>1. Keeps(k) /\ blocks[k].used \in Nat
    BY <1>1, <1>3, Shapes DEF Block
  <2>2. blocks'[k].used \in Nat /\ alloc[i].off + alloc[i].size \in Nat
    BY SMTT(30), <1>1, <1>5, <2>1, HeldWithin DEF Keeps, Block
  <2> QED
    BY <1>2, <1>11, <2>1, <2>2 DEF Within, Keeps
<1>12. Disjoint'
  <2>1. \A i \in Held : \E k \in DOMAIN blocks' : Within(i, k)'
    BY <1>1, <1>11, HeldWithin
  <2>2. \A i, j \in Held : i # j => Apart(i, j)'
    BY <1>1, <1>2 DEF ShapeInv, ArenaInv, Disjoint, Apart
  <2> QED
    BY <1>10, <2>1, <2>2 DEF Disjoint
<1>13. ASSUME NEW d \in DOMAIN marks, NEW t \in DOMAIN blocks, marks[d].tail = blocks[t].base
       PROVE  t \in DOMAIN blocks' /\ blocks'[t].base = blocks[t].base
              /\ blocks'[t].room = blocks[t].room /\ blocks'[t].used >= blocks[t].used
              /\ blocks[t].used \in Nat /\ blocks'[t].used \in Nat /\ marks[d].used \in Nat
  <2>1. Keeps(t) /\ blocks[t].used \in Nat
    BY <1>1, <1>3, Shapes DEF Block
  <2>2. t \in DOMAIN blocks' /\ blocks'[t] \in Block
    BY <1>5, <2>1 DEF Keeps
  <2>3. marks[d].used \in Nat
    BY <1>8 DEF MarkSet
  <2> QED
    BY <2>1, <2>2, <2>3 DEF Keeps, Block
<1>14. MarksHold'
  <2>1. ASSUME NEW d \in DOMAIN marks
        PROVE  \E t \in DOMAIN blocks' :
                 /\ blocks'[t].base = marks[d].tail
                 /\ marks[d].used <= blocks'[t].used
                 /\ marks[d].cap = blocks'[t].room
                 /\ \A i \in Held : alloc[i].depth < d =>
                      \E k \in 1..t :
                        Within(i, k)' /\ (k = t => alloc[i].off + alloc[i].size <= marks[d].used)
    <3>1. PICK t \in DOMAIN blocks :
            /\ blocks[t].base = marks[d].tail
            /\ marks[d].used <= blocks[t].used
            /\ marks[d].cap = blocks[t].room
            /\ \A i \in Held : alloc[i].depth < d =>
                 \E k \in 1..t :
                   Within(i, k) /\ (k = t => alloc[i].off + alloc[i].size <= marks[d].used)
      BY <1>1 DEF ShapeInv, ArenaInv, MarksHold
    <3>2. \A k \in 1..t : k \in DOMAIN blocks
      BY <1>1, Shapes
    <3> QED
      BY <1>11, <1>13, <3>1, <3>2
  <2>2. /\ blocks'[Len(blocks')].base = new.tail
        /\ new.used <= blocks'[Len(blocks')].used
        /\ new.cap = blocks'[Len(blocks')].room
        /\ \A i \in Held : \E k \in 1..Len(blocks') :
             Within(i, k)' /\ (k = Len(blocks') => alloc[i].off + alloc[i].size <= new.used)
    <3>1. ASSUME NEW i \in Held
          PROVE  \E k \in 1..Len(blocks') :
                   Within(i, k)' /\ (k = Len(blocks') => alloc[i].off + alloc[i].size <= new.used)
      <4>1. PICK k \in DOMAIN blocks' : Within(i, k)'
        BY <1>10, <1>12 DEF Disjoint
      <4> QED
        BY <1>2, <1>5, <1>7, <4>1 DEF Within
    <3>2. new.used = blocks'[Len(blocks')].used /\ new.used \in Nat
      BY <1>5, <1>7 DEF Block
    <3>3. blocks'[Len(blocks')].base = new.tail /\ new.cap = blocks'[Len(blocks')].room
      BY <1>5, <1>7
    <3> QED
      BY <3>1, <3>2, <3>3
  <2> SUFFICES ASSUME NEW d \in DOMAIN marks'
               PROVE  \E t \in DOMAIN blocks' :
                 /\ blocks'[t].base = marks'[d].tail
                 /\ marks'[d].used <= blocks'[t].used
                 /\ marks'[d].cap = blocks'[t].room
                 /\ \A i \in Held : alloc[i].depth < d =>
                      \E k \in 1..t :
                        Within(i, k)' /\ (k = t => alloc[i].off + alloc[i].size <= marks'[d].used)
    BY <1>2, <1>10 DEF MarksHold
  <2>3. CASE d \in DOMAIN marks
    BY <1>8, <2>1, <2>3
  <2>4. CASE d = here
    BY <1>5, <1>8, <2>2, <2>4
  <2> QED
    BY <1>8, <2>3, <2>4
<1>15. LastAtEnd'
  BY <1>2, <1>3, <1>4, <1>10 DEF LastAtEnd
<1>16. LastAboveMarks'
  <2> SUFFICES ASSUME NEW i \in Held, IsLast(i)'
               PROVE  FALSE
    BY <1>10 DEF LastAboveMarks
  <2>1. alloc[i].base = last'.base /\ alloc[i].off = last'.off
    BY <1>2 DEF IsLast
  <2> QED
    BY <1>1, <1>3, <2>1, HeldWithin
<1>17. MarksOrdered'
  <2>1. \A d \in DOMAIN marks' : marks'[d].used > 0
    <3>1. new.used > 0
      BY <1>3, <1>4, <1>7
    <3> QED
      BY <1>1, <1>8, <3>1 DEF ShapeInv, MarksOrdered
  <2>2. ASSUME NEW d \in DOMAIN marks', NEW e \in DOMAIN marks',
               NEW t \in DOMAIN blocks', NEW u \in DOMAIN blocks',
               d < e, blocks'[t].base = marks'[d].tail, blocks'[u].base = marks'[e].tail
        PROVE  t < u \/ (t = u /\ marks'[d].used <= marks'[e].used)
    <3>1. d \in DOMAIN marks
      BY <1>1, <1>8, <2>2
    <3>2. PICK x \in DOMAIN blocks : blocks[x].base = marks[d].tail /\ marks[d].used <= blocks[x].used
      BY <1>1, <3>1 DEF ShapeInv, ArenaInv, MarksHold
    <3>3. x = t /\ marks[d].used <= blocks'[t].used
      BY SMTT(30), <1>4, <1>8, <1>13, <2>2, <3>1, <3>2 DEF BlocksApart
    <3>4. CASE e = here
      <4>1. u = Len(blocks')
        BY <1>4, <1>5, <1>7, <1>8, <2>2, <3>4 DEF BlocksApart
      <4> QED
        BY <1>5, <1>7, <1>8, <2>2, <3>1, <3>3, <3>4, <4>1
    <3>5. CASE e \in DOMAIN marks
      <4>1. PICK y \in DOMAIN blocks : blocks[y].base = marks[e].tail
        BY <1>1, <3>5 DEF ShapeInv, ArenaInv, MarksHold
      <4>2. y = u
        BY <1>4, <1>8, <1>13, <2>2, <3>5, <4>1 DEF BlocksApart
      <4> QED
        BY <1>1, <1>8, <2>2, <3>1, <3>2, <3>3, <3>5, <4>1, <4>2 DEF ShapeInv, MarksOrdered
    <3> QED
      BY <1>8, <3>4, <3>5
  <2> QED
    BY <2>1, <2>2 DEF MarksOrdered
<1>18. ContentsKept' /\ mem' \in [Bases -> [0..MaxOffset -> Writers]]
  BY <1>1, <1>2 DEF ContentsKept, Held
<1> QED
  BY <1>4, <1>9, <1>12, <1>14, <1>15, <1>16, <1>17, <1>18 DEF IInv, ShapeInv, ArenaInv

(* A release cuts the arena back to its newest mark: everything older is   *)
(* still there, every older mark still good.                               *)
LEMMA ReleaseKeeps ==
  ASSUME IInv, Release
  PROVE  IInv'
<1>1. /\ ShapeInv /\ ContentsKept /\ TypeOK /\ mem \in [Bases -> [0..MaxOffset -> Writers]]
      /\ DOMAIN marks = 1..Len(marks) /\ Len(marks) \in Nat
      /\ BlocksApart /\ InBounds /\ blocks \in Seq(Block)
      /\ Len(blocks) \in Nat /\ DOMAIN blocks = 1..Len(blocks)
      /\ \A k \in DOMAIN blocks : blocks[k] \in Block
  BY Shapes DEF IInv, TypeOK, Block
<1> DEFINE newest == Len(marks)
           m == marks[newest]
           top == Len(marks) - 1
<1>2. marks # <<>> /\ newest \in DOMAIN marks /\ newest > 0
  BY <1>1 DEF Release
<1>3. PICK t \in DOMAIN blocks :
        /\ blocks[t].base = m.tail
        /\ blocks' = [SubSeq(blocks, 1, t) EXCEPT ![t].used = m.used]
  BY DEF Release
<1>4. /\ cap' = m.cap /\ last' = NULL /\ lastSize' = 0
      /\ live' = {i \in live : alloc[i].depth < newest}
      /\ marks' = SubSeq(marks, 1, top)
      /\ alloc' = [i \in Ids |-> IF i \in live' THEN alloc[i] ELSE Nowhere]
      /\ mem' = Visible(mem, live', alloc')
  BY DEF Release
<1> DEFINE MarkSet == [tail : Bases, used : Nat, cap : Nat]
<1>5. marks \in Seq(MarkSet) /\ top \in Nat /\ top < newest
  BY <1>1, <1>2 DEF TypeOK
<1> HIDE DEF MarkSet
<1>6. \A d \in DOMAIN marks : marks[d] \in MarkSet
  BY <1>1, <1>5
<1>7. m.used \in Nat /\ m.cap \in Nat
  BY <1>2, <1>6 DEF MarkSet
<1>8. /\ marks' \in Seq(MarkSet) /\ DOMAIN marks' = 1..top
      /\ \A d \in 1..top : marks'[d] = marks[d] /\ d \in DOMAIN marks /\ d < newest
  <2> HIDE DEF top
  <2>1. marks' = [d \in 1..top |-> marks[d]]
    BY <1>1, <1>2, <1>4, <1>5
  <2>2. top <= Len(marks)
    BY <1>1, <1>5 DEF top
  <2>3. marks' \in Seq(MarkSet)
    BY <1>1, <1>4, <1>5, <2>2
  <2>4. \A d \in 1..top : d \in DOMAIN marks /\ d < newest
    BY <1>1, <1>5, <2>2
  <2> QED
    BY <2>1, <2>3, <2>4
<1>9. /\ m.used <= blocks[t].used /\ m.cap = blocks[t].room
      /\ \A i \in Held : alloc[i].depth < newest =>
           \E k \in 1..t : Within(i, k) /\ (k = t => alloc[i].off + alloc[i].size <= m.used)
  <2>1. PICK x \in DOMAIN blocks :
          /\ blocks[x].base = m.tail
          /\ m.used <= blocks[x].used
          /\ m.cap = blocks[x].room
          /\ \A i \in Held : alloc[i].depth < newest =>
               \E k \in 1..x : Within(i, k) /\ (k = x => alloc[i].off + alloc[i].size <= m.used)
    BY <1>1, <1>2 DEF ShapeInv, ArenaInv, MarksHold
  <2>2. x = t
    BY <1>1, <1>3, <2>1 DEF BlocksApart
  <2> QED
    BY <2>1, <2>2
<1> HIDE DEF m, newest, top
<1> DEFINE cut == [blocks[t] EXCEPT !.used = m.used]
<1>10. /\ cut \in Block /\ cut.base = blocks[t].base /\ cut.used = m.used
       /\ cut.room = blocks[t].room
  BY <1>1, <1>7 DEF Block
<1>11. /\ blocks' \in Seq(Block) /\ Len(blocks') = t /\ blocks' # <<>> /\ t \in Nat /\ t > 0
       /\ DOMAIN blocks' = 1..t /\ blocks'[t] = cut /\ Tail_' = cut
       /\ \A k \in 1..t : k \in DOMAIN blocks
       /\ \A k \in (1..t) \ {t} : blocks'[k] = blocks[k]
  <2> DEFINE head == SubSeq(blocks, 1, t)
  <2>1. t \in Nat /\ t > 0 /\ t <= Len(blocks)
    BY <1>1
  <2>2. head = [k \in 1..t |-> blocks[k]]
    BY <1>1, <2>1
  <2>3. head \in Seq(Block) /\ Len(head) = t
    BY <1>1, <2>1
  <2> HIDE DEF head
  <2>4. head[t] = blocks[t] /\ DOMAIN head = 1..t
    BY <2>1, <2>2
  <2>5. blocks' = [head EXCEPT ![t] = cut]
    BY <1>3, <2>4 DEF head
  <2> HIDE DEF cut
  <2>6. blocks' \in Seq(Block) /\ Len(blocks') = t
    BY <1>10, <2>1, <2>3, <2>4, <2>5
  <2>7. DOMAIN blocks' = 1..t /\ blocks'[t] = cut
    BY <2>1, <2>4, <2>5
  <2>8. \A k \in (1..t) \ {t} : blocks'[k] = blocks[k]
    BY <2>2, <2>4, <2>5
  <2>9. blocks' # <<>>
    BY <2>1, <2>6
  <2>10. \A k \in 1..t : k \in DOMAIN blocks
    BY <1>1, <2>1
  <2> QED
    BY <2>1, <2>6, <2>7, <2>8, <2>9, <2>10 DEF Tail_
<1> HIDE DEF cut
<1>12. /\ \A k \in 1..t : blocks'[k].base = blocks[k].base /\ blocks'[k].room = blocks[k].room
       /\ \A k \in 1..t : k # t => blocks'[k].used = blocks[k].used
       /\ blocks'[t].used = m.used
  BY <1>10, <1>11
<1>13. BlocksApart' /\ InBounds'
  <2>1. BlocksApart'
    BY <1>1, <1>11, <1>12 DEF BlocksApart
  <2>2. \A k \in 1..t : blocks'[k].used <= blocks'[k].room
    <3>1. blocks[t].used <= blocks[t].room /\ blocks[t].used \in Nat /\ blocks[t].room \in Nat
      BY <1>1 DEF InBounds, Block
    <3> QED
      BY <1>1, <1>7, <1>9, <1>11, <1>12, <3>1 DEF InBounds
  <2> QED
    BY <1>4, <1>9, <1>10, <1>11, <2>1, <2>2 DEF InBounds
<1>14. TypeOK'
  <2>1. Nowhere \in [base : Bases \cup {NULL}, off : Nat, size : Nat, depth : Nat]
    BY DEF Nowhere
  <2>2. alloc' \in [Ids -> [base : Bases \cup {NULL}, off : Nat, size : Nat, depth : Nat]]
    BY <1>1, <1>4, <2>1 DEF TypeOK
  <2>3. live' \subseteq Ids
    BY <1>1, <1>4 DEF TypeOK
  <2> QED
    BY <1>4, <1>7, <1>8, <1>11, <2>2, <2>3 DEF TypeOK, MarkSet, Block
<1>15. ASSUME NEW i \in Held'
       PROVE  i \in Held /\ alloc'[i] = alloc[i] /\ alloc[i].depth < newest
  BY <1>1, <1>4 DEF Held, TypeOK
<1>16. ASSUME NEW i \in Held', NEW k \in 1..t, Within(i, k),
              k = t => alloc[i].off + alloc[i].size <= m.used
       PROVE  Within(i, k)'
  BY <1>12, <1>15, <1>16 DEF Within
<1>17. Disjoint'
  <2>1. \A i \in Held' : \E k \in DOMAIN blocks' : Within(i, k)'
    BY <1>9, <1>11, <1>15, <1>16
  <2>2. \A i, j \in Held' : i # j => Apart(i, j)'
    BY <1>1, <1>15 DEF ShapeInv, ArenaInv, Disjoint, Apart
  <2> QED
    BY <2>1, <2>2 DEF Disjoint
<1>18. MarksHold'
  <2> SUFFICES ASSUME NEW d \in 1..top
               PROVE  \E x \in 1..t :
                 /\ blocks'[x].base = marks[d].tail
                 /\ marks[d].used <= blocks'[x].used
                 /\ marks[d].cap = blocks'[x].room
                 /\ \A i \in Held' : alloc'[i].depth < d =>
                      \E k \in 1..x :
                        Within(i, k)' /\ (k = x => alloc'[i].off + alloc'[i].size <= marks[d].used)
    BY SMTT(30), <1>8, <1>11 DEF MarksHold
  <2>1. PICK x \in DOMAIN blocks :
          /\ blocks[x].base = marks[d].tail
          /\ marks[d].used <= blocks[x].used
          /\ marks[d].cap = blocks[x].room
          /\ \A i \in Held : alloc[i].depth < d =>
               \E k \in 1..x :
                 Within(i, k) /\ (k = x => alloc[i].off + alloc[i].size <= marks[d].used)
    BY <1>1, <1>8 DEF ShapeInv, ArenaInv, MarksHold
  <2>2. x < t \/ (x = t /\ marks[d].used <= m.used)
    BY <1>1, <1>2, <1>3, <1>8, <2>1 DEF ShapeInv, MarksOrdered, m
  <2>3. x \in 1..t
    BY <1>1, <1>11, <2>2
  <2>4. marks[d].used <= blocks'[x].used
    BY <1>12, <2>1, <2>2, <2>3
  <2>5. ASSUME NEW i \in Held', alloc'[i].depth < d
        PROVE  \E k \in 1..x :
                 Within(i, k)' /\ (k = x => alloc'[i].off + alloc'[i].size <= marks[d].used)
    <3>1. PICK k \in 1..x :
            Within(i, k) /\ (k = x => alloc[i].off + alloc[i].size <= marks[d].used)
      BY <1>15, <2>1, <2>5
    <3>2. k \in 1..t
      BY <1>11, <2>3
    <3>3. /\ alloc[i].off + alloc[i].size \in Nat /\ marks[d].used \in Nat
      <4>1. alloc[i].off \in Nat /\ alloc[i].size \in Nat
        BY <1>1, <1>15, HeldWithin
      <4>2. marks[d].used \in Nat
        BY <1>6, <1>8 DEF MarkSet
      <4> QED
        BY <4>1, <4>2
    <3>4. k = t => alloc[i].off + alloc[i].size <= m.used
      BY <1>7, <1>11, <2>2, <2>3, <3>1, <3>3
    <3> QED
      BY <1>15, <1>16, <3>1, <3>2, <3>4
  <2> QED
    BY <1>12, <2>1, <2>3, <2>4, <2>5
<1>19. LastAtEnd' /\ LastAboveMarks'
  <2>1. LastAtEnd'
    BY <1>4 DEF LastAtEnd
  <2>2. ASSUME NEW i \in Held'
        PROVE  ~IsLast(i)'
    <3>1. alloc'[i].base \in Bases /\ alloc'[i].off \in Nat
      BY <1>1, <1>15, HeldWithin
    <3> QED
      BY <1>4, <3>1, NullIsNoPointer DEF IsLast
  <2> QED
    BY <2>1, <2>2 DEF LastAboveMarks
<1>20. MarksOrdered'
  <2>1. \A d \in 1..top : marks'[d].used > 0
    BY <1>1, <1>8 DEF ShapeInv, MarksOrdered
  <2>2. ASSUME NEW d \in 1..top, NEW e \in 1..top, NEW x \in 1..t, NEW y \in 1..t,
               d < e, blocks'[x].base = marks'[d].tail, blocks'[y].base = marks'[e].tail
        PROVE  x < y \/ (x = y /\ marks'[d].used <= marks'[e].used)
    <3>1. x \in DOMAIN blocks /\ y \in DOMAIN blocks
      BY <1>11
    <3>2. blocks[x].base = marks[d].tail /\ blocks[y].base = marks[e].tail
      BY <1>8, <1>12, <2>2
    <3>3. d \in DOMAIN marks /\ e \in DOMAIN marks
      BY <1>8
    <3>4. x < y \/ (x = y /\ marks[d].used <= marks[e].used)
      BY <1>1, <2>2, <3>1, <3>2, <3>3 DEF ShapeInv, MarksOrdered
    <3> QED
      BY <1>8, <3>4
  <2> QED
    BY <1>8, <1>11, <2>1, <2>2 DEF MarksOrdered
<1>21. ShapeInv'
  BY <1>13, <1>14, <1>17, <1>18, <1>19, <1>20 DEF ShapeInv, ArenaInv
<1>22. \A j \in Held' : \A o \in Bytes(alloc'[j]) : mem[alloc'[j].base][o] = j
  BY <1>1, <1>15 DEF ContentsKept
<1>23. mem' \in [Bases -> [0..MaxOffset -> Writers]] /\ ContentsKept'
  BY <1>1, <1>4, <1>21, <1>22, SeenByClients
<1> QED
  BY <1>21, <1>23 DEF IInv

-----------------------------------------------------------------------------
(* An empty arena satisfies the invariant.                                 *)
LEMMA InitSound == Init => IInv
<1> SUFFICES ASSUME Init PROVE IInv
  OBVIOUS
<1>1. PICK b \in Bases : blocks = <<[base |-> b, used |-> 0, room |-> BlockSize]>>
  BY DEF Init
<1>2. /\ blocks \in Seq(Block) /\ Len(blocks) = 1 /\ blocks # <<>> /\ DOMAIN blocks = {1}
      /\ blocks[1] = [base |-> b, used |-> 0, room |-> BlockSize] /\ Tail_ = blocks[1]
  BY <1>1, BlockFits DEF Block, Tail_
<1>3. Held = {} /\ marks = <<>> /\ last = NULL /\ DOMAIN marks = {}
  BY DEF Init, Held
<1>4. TypeOK
  BY <1>2, BlockFits DEF Init, TypeOK, Block, Nowhere
<1>5. InBounds /\ BlocksApart
  BY <1>2, BlockFits, RoomForAll DEF Init, InBounds, BlocksApart
<1>6. Disjoint /\ MarksHold /\ LastAtEnd /\ LastAboveMarks /\ MarksOrdered /\ ContentsKept
  BY <1>3 DEF Disjoint, MarksHold, LastAtEnd, LastAboveMarks, MarksOrdered, ContentsKept
<1>7. mem \in [Bases -> [0..MaxOffset -> Writers]]
  BY DEF Init, Writers
<1> QED
  BY <1>4, <1>5, <1>6, <1>7 DEF IInv, ShapeInv, ArenaInv

(* Every step keeps the invariant.                                         *)
LEMMA StepKeeps == IInv /\ [Next]_vars => IInv'
<1> SUFFICES ASSUME IInv, [Next]_vars PROVE IInv'
  OBVIOUS
<1>1. CASE UNCHANGED vars
  <2> USE <1>1 DEF vars
  <2>1. Held' = Held /\ Tail_' = Tail_
    BY DEF Held, Tail_
  <2>2. ArenaInv'
    BY <2>1 DEF IInv, ShapeInv, ArenaInv, TypeOK, InBounds, Disjoint, MarksHold, Within, Apart
  <2>3. (BlocksApart /\ LastAtEnd /\ LastAboveMarks /\ MarksOrdered)'
    BY <2>1 DEF IInv, ShapeInv, BlocksApart, LastAtEnd, LastAboveMarks, IsLast, MarksOrdered
  <2> QED
    BY <2>1, <2>2, <2>3 DEF IInv, ShapeInv, ContentsKept
<1>2. CASE Next
  BY <1>2, AllocKeeps, GrowWithinKeeps, GrowInPlaceKeeps, RegrowKeeps, GrowByCopyKeeps,
     MarkKeeps, ReleaseKeeps DEF Next
<1> QED
  BY <1>1, <1>2

(* The arena's bookkeeping is right, whatever is allocated, grown, marked  *)
(* and released in which order: nothing leaves its block or overlaps, and  *)
(* every mark can be released (arena.c:45-152).                            *)
THEOREM ArenaSound == Spec => []ArenaInv
<1>1. IInv => ArenaInv
  BY DEF IInv, ShapeInv
<1> QED
  BY <1>1, InitSound, StepKeeps, PTL DEF Spec

(* What a client wrote is there as long as it holds the allocation: no     *)
(* growth, move or neighbour destroys it (arena.c:63-123).                 *)
THEOREM ContentsSafe == Spec => []ContentsKept
<1>1. IInv => ContentsKept
  BY DEF IInv
<1> QED
  BY <1>1, InitSound, StepKeeps, PTL DEF Spec
=============================================================================
