--------------------------------- MODULE Malloc --------------------------------
(***************************************************************************)
(* The kernel heap, kernel/malloc.c in a build without SOS_SFI: areas of   *)
(* one or more blocks laid end to end, the free list, the owner in an      *)
(* area's header and the guard byte at its end.                            *)
(*                                                                         *)
(* Only the headers of areas are kept; what is left of a header inside an  *)
(* area is not.  The guard byte is: it stays behind when an area is freed, *)
(* and sos_blk_mem_realloc may come to rely on what it finds there.  The   *)
(* doubly linked free list is a sequence, and a merging loop is the area   *)
(* it ends with.                                                           *)
(***************************************************************************)
EXTENDS Integers, Sequences, FiniteSets, FiniteSetsExt, SequencesExt

CONSTANTS BLOCKS,         \* NUM_HEAP_BLOCKS, with the sentinel
          SHIFT_VALUE,    \* A block has 2^SHIFT_VALUE bytes.
          HEADER,         \* sizeof(BlockHeaderType)
          Owner, Sizes,   \* Owners; the sizes asked for, in bytes.
          NONE            \* A guard byte that holds no id.

ASSUME MallocAssumption ==
  /\ BLOCKS \in Nat /\ BLOCKS > 1
  /\ SHIFT_VALUE \in Nat /\ HEADER \in Nat /\ HEADER + 1 < 2^SHIFT_VALUE
  /\ Sizes \subseteq 1..(2^16 - 1)
  /\ NONE \notin Owner

VARIABLES area,     \* area[b]: the header of the area that starts at block b
          free,     \* The areas of the free list, in its order.
          guard,    \* guard[b]: the last byte of block b
          held,     \* The areas the program has a pointer to.
          unfit     \* The areas a realloc has grown and not found large enough.

memVars == <<area, free, guard, held, unfit>>

Block == 0..(BLOCKS - 1)
mSentinel == BLOCKS - 1
BLOCKOVERHEAD == HEADER + 1

\* A request in blocks: uint16_t arithmetic, as unsigned int has 16 bits on the
\* microcontrollers.
reqBlocks(size) == ((size + BLOCKOVERHEAD + 2^SHIFT_VALUE - 1) % 2^16) \div 2^SHIFT_VALUE

FreeArea(n) == [blocks |-> n, owner |-> NONE, reserved |-> FALSE, bytes |-> 0]

\* bytes, the size that was asked for, is not in the header.
ReservedArea(n, id, size) == [blocks |-> n, owner |-> id, reserved |-> TRUE, bytes |-> size]

MemInit ==
  /\ area = (0 :> FreeArea(BLOCKS - 1)) @@ (mSentinel :> ReservedArea(1, NONE, 0))
  /\ free = <<0>>
  /\ guard = [b \in Block |-> NONE]
  /\ held = {}
  /\ unfit = {}

--------------------------------------------------------------------------------
\* The operations work on a heap h, a record of area, free and guard.
Heap == [area |-> area, free |-> free, guard |-> guard]

SetArea(h, b, r) == [h EXCEPT !.area = (b :> r) @@ @]

\* InsertAfter: in front of the first area that is not below b.
InsertAfter(h, b) ==
  LET k == Min({i \in DOMAIN h.free : h.free[i] >= b} \cup {Len(h.free) + 1})
  IN  [h EXCEPT !.free = InsertAt(@, k, b)]

TakeOut(h, b) == [h EXCEPT !.free = Remove(@, b)]

\* The area b after it took in the areas up to the one at e.
MergeTo(h, b, e) ==
  [h EXCEPT !.area = [a \in DOMAIN @ \ (b + 1)..(e - 1) |->
                        IF a = b THEN [@[b] EXCEPT !.blocks = e - b] ELSE @[a]],
            !.free = SelectSeq(@, LAMBDA p : p <= b \/ p >= e)]

Follows(h, b) == {a \in DOMAIN h.area : a >= b + h.area[b].blocks}

\* The reserved area at which MergeBlocks stops.
NextReserved(h, b) == Min({a \in Follows(h, b) : h.area[a].reserved})

MergeBlocks(h, b) == MergeTo(h, b, NextReserved(h, b))

\* MergeBlocksQuick looks at the size only after it has taken in an area.
MergeBlocksQuick(h, b, n) ==
  LET stop == NextReserved(h, b)
      enough == {a \in Follows(h, b) : /\ b + h.area[b].blocks < a /\ a <= stop
                                       /\ a - b >= n}
  IN  MergeTo(h, b, Min(enough \cup {stop}))

SplitBlock(h, b, n) ==
  LET rest == SetArea(h, b + n, FreeArea(h.area[b].blocks - n))
      first == [rest EXCEPT !.area[b].blocks = n]
  IN  InsertAfter(first, b + n)

\* An area is given to id: its header, its guard byte, and the program's data over
\* the guard bytes that earlier areas left inside it.
Reserve(h, b, id, size) ==
  LET n == h.area[b].blocks
  IN  [h EXCEPT !.area[b] = ReservedArea(n, id, size),
                !.guard = [x \in Block |-> IF x = b + n - 1 THEN id
                                          ELSE IF x \in b..(b + n - 1) THEN NONE ELSE @[x]]]

\* The check of sos_blk_mem_free and sos_blk_mem_change_own for corrupted memory.
GuardMatches(h, b) == h.area[b].owner = h.guard[b + h.area[b].blocks - 1]

\* sos_blk_mem_free
FreeBlock(h, b) ==
  IF GuardMatches(h, b) THEN InsertAfter(SetArea(h, b, FreeArea(h.area[b].blocks)), b) ELSE h

\* The loop of mem_remove_all and malloc_gc over the heap, in address order.
FreeEach(h, bs) == FoldLeft(FreeBlock, h, SetToSortSeq(bs, <))

NOBLOCK == -1

\* The loop of sos_blk_mem_alloc: the areas of the free list in turn, those that an
\* earlier one took in left out, until one is large enough.
FirstFit(h, n) ==
  LET look(r, b) == IF r.at # NOBLOCK \/ b \notin DOMAIN r.heap.area THEN r
                    ELSE LET g == MergeBlocksQuick(r.heap, b, n)
                         IN  [heap |-> g, at |-> IF g.area[b].blocks >= n THEN b ELSE NOBLOCK]
  IN  FoldLeft(look, [heap |-> h, at |-> NOBLOCK], h.free)

\* sos_blk_mem_alloc: the heap it leaves and the area it returns.
Alloc(h, id, size) ==
  LET n == reqBlocks(size)
      fit == FirstFit(h, n)
      cut == IF fit.heap.area[fit.at].blocks > n THEN SplitBlock(fit.heap, fit.at, n)
             ELSE fit.heap
  IN  IF fit.at = NOBLOCK THEN fit
      ELSE [fit EXCEPT !.heap = Reserve(TakeOut(cut, fit.at), fit.at, id, size)]

\* sos_blk_mem_longterm_alloc merges all there is to merge and takes the tail of the
\* last area that is large enough.
AllocLongterm(h, id, size) ==
  LET n == reqBlocks(size)
      merge(g, b) == IF b \in DOMAIN g.area THEN MergeBlocks(g, b) ELSE g
      whole == FoldLeft(merge, h, h.free)
      fits == {b \in ToSet(whole.free) : whole.area[b].blocks >= n}
      max_block == Max(fits)
      rest == whole.area[max_block].blocks - n
      new == max_block + rest
      cut == SetArea(SetArea(whole, new, FreeArea(n)), max_block, FreeArea(rest))
  IN  IF fits = {} THEN [heap |-> whole, at |-> NOBLOCK]
      ELSE [heap |-> Reserve(IF rest = 0 THEN TakeOut(whole, new) ELSE cut, new, id, size),
            at |-> new]

--------------------------------------------------------------------------------
Becomes(h) == area' = h.area /\ free' = h.free /\ guard' = h.guard

Returns(r) ==
  /\ Becomes(r.heap)
  /\ held' = held \cup ({r.at} \ {NOBLOCK})
  /\ UNCHANGED unfit

sos_blk_mem_alloc(id, size) == Returns(Alloc(Heap, id, size))

sos_blk_mem_longterm_alloc(id, size) == Returns(AllocLongterm(Heap, id, size))

sos_blk_mem_free(b) ==
  /\ b \in held
  /\ Becomes(FreeBlock(Heap, b))
  /\ held' = held \ {b}
  /\ unfit' = IF GuardMatches(Heap, b) THEN unfit \ {b} ELSE unfit

\* Mutant: only the header is written.
sos_blk_mem_change_own_header(b, id) ==
  /\ b \in held
  /\ GuardMatches(Heap, b)
  /\ area' = [area EXCEPT ![b].owner = id]
  /\ UNCHANGED <<free, guard, held, unfit>>

sos_blk_mem_change_own(b, id) ==
  /\ b \in held
  /\ GuardMatches(Heap, b)
  /\ area' = [area EXCEPT ![b].owner = id]
  /\ guard' = [guard EXCEPT ![b + area[b].blocks - 1] = id]
  /\ UNCHANGED <<free, held, unfit>>

OwnedBy(id) == {b \in DOMAIN area : area[b].reserved /\ area[b].owner = id}

Sweep(bs) ==
  /\ Becomes(FreeEach(Heap, bs))
  /\ held' = held \ bs
  /\ unfit' = {b \in unfit : b \in bs => ~GuardMatches(Heap, b)}

\* Module id is removed, with its memory.
mem_remove_all(id) == Sweep(OwnedBy(id))

\* The areas of id that ker_gc_mark was not called for are freed.
malloc_gc(id) == Sweep(OwnedBy(id) \ held)

\* The program loses its last pointer to an area.
forget(b) ==
  /\ held' = held \ {b}
  /\ UNCHANGED <<area, free, guard, unfit>>

\* sos_blk_mem_realloc: the area first takes in the free areas behind it.  If that
\* is enough it is cut to size.  If not it stays reserved as it has become, and its
\* contents move to a new area if there is one.
sos_blk_mem_realloc(b, size) ==
  LET n == reqBlocks(size)
      id == area[b].owner
      grown == MergeBlocks(Heap, b)
      cut == IF grown.area[b].blocks > n THEN SplitBlock(grown, b, n) ELSE grown
      moved == Alloc(grown, id, size)
      fresh == IF NextReserved(Heap, b) > b + area[b].blocks THEN {b} ELSE {}
  IN  /\ b \in held
      /\ \/ /\ grown.area[b].blocks >= n
            /\ Becomes(Reserve(cut, b, id, size))
            /\ unfit' = unfit \ {b}
            /\ UNCHANGED held
         \/ /\ grown.area[b].blocks < n
            /\ moved.at = NOBLOCK
            /\ Becomes(moved.heap)
            /\ unfit' = unfit \cup fresh
            /\ UNCHANGED held
         \/ /\ grown.area[b].blocks < n
            /\ moved.at # NOBLOCK
            /\ Becomes(FreeBlock(moved.heap, b))
            /\ unfit' = IF GuardMatches(grown, b) THEN unfit \ {b} ELSE unfit \cup fresh
            /\ held' = (held \ {b}) \cup {moved.at}

MemNext ==
  \/ \E id \in Owner : \/ mem_remove_all(id)
                       \/ malloc_gc(id)
                       \/ \E size \in Sizes : \/ sos_blk_mem_alloc(id, size)
                                              \/ sos_blk_mem_longterm_alloc(id, size)
                       \/ \E b \in held : sos_blk_mem_change_own(b, id)
  \/ \E b \in held : \/ sos_blk_mem_free(b)
                     \/ forget(b)
                     \/ \E size \in Sizes : sos_blk_mem_realloc(b, size)

MemSpec == MemInit /\ [][MemNext]_memVars

--------------------------------------------------------------------------------
MemTypeOK ==
  /\ DOMAIN area \subseteq Block
  /\ \A b \in DOMAIN area : area[b] \in [blocks : 1..BLOCKS, owner : Owner \cup {NONE},
                                       reserved : BOOLEAN, bytes : Sizes \cup {0}]
  /\ free \in Seq(Block)
  /\ guard \in [Block -> Owner \cup {NONE}]
  /\ held \subseteq Block /\ unfit \subseteq Block

\* The areas cover the heap without gap or overlap, whatever was split, merged and
\* cut from the tail of an area: each ends where another starts, up to the sentinel.
Tiled ==
  /\ {0, mSentinel} \subseteq DOMAIN area
  /\ \A b \in DOMAIN area \ {mSentinel} :
       /\ b + area[b].blocks \in DOMAIN area
       /\ \A a \in DOMAIN area : a <= b \/ a >= b + area[b].blocks

\* The free list has every area that is not reserved, once, in address order, so that
\* a free area found by address can be unlinked (malloc.c:770) and none is lost.
FreeListExact ==
  /\ ToSet(free) = {b \in DOMAIN area : ~area[b].reserved}
  /\ \A i, j \in DOMAIN free : i < j => free[i] < free[j]

\* A pointer the program has is the start of a reserved area with room for the bytes
\* it asked for, beside the header and the guard byte: no call of another module,
\* no collection and no realloc of a neighbour takes part of it.
HeldIntact ==
  \A b \in held : /\ b \in DOMAIN area /\ area[b].reserved
                  /\ area[b].blocks * 2^SHIFT_VALUE - BLOCKOVERHEAD >= area[b].bytes

Reserved == {b \in DOMAIN area \ {mSentinel} : area[b].reserved}

\* The guard byte of a reserved area is its owner, so that it can be freed, unless a
\* realloc grew the area and then did not use it.
GuardSound == \A b \in Reserved \ unfit : GuardMatches(Heap, b)

\* There are n blocks in a row that belong to no reserved area.
RoomFor(n) ==
  \E b \in Block : \A a \in Reserved \cup {mSentinel} : a + area[a].blocks <= b \/ a >= b + n

\* Both allocators find memory exactly when there are enough free blocks in a row,
\* however the free areas are divided: merging while searching misses none.
AllocFinds ==
  \A size \in Sizes :
    LET room == RoomFor(reqBlocks(size))
        id == CHOOSE p \in Owner : TRUE     \* who asks makes no difference
    IN  /\ (Alloc(Heap, id, size).at # NOBLOCK) = room
        /\ (AllocLongterm(Heap, id, size).at # NOBLOCK) = room

\* "Note the old pointer is still valid" (malloc.c:706): a pointer the program has can
\* be freed, also after a realloc that failed.
StillValid == \A b \in held : GuardMatches(Heap, b)

\* The heap is tiled by areas, the free list holds the free ones in order, what a
\* program holds is reserved, large enough and can be freed, and a request fails only
\* when there is no room: after any sequence of allocations at both ends, frees,
\* reallocations, changes of owner and collections.
HeapSound == Tiled /\ FreeListExact /\ HeldIntact /\ GuardSound /\ AllocFinds
================================================================================
