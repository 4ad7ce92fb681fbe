---------------------------------- MODULE Slab ---------------------------------
(***************************************************************************)
(* The slab allocator of kernel/slab.c, which hands out message headers,   *)
(* module control blocks, timers and shared memory records.  A slab is a   *)
(* chain of pools; a pool is one heap block with ItemsPerPool items, an    *)
(* allocation vector and a mark vector for the garbage collector.  Every   *)
(* caller holds a critical section, so an operation is one step.           *)
(***************************************************************************)
EXTENDS FiniteSetsExt, LinkedList

CONSTANTS SlabBlock,     \* Heap blocks a pool can live in.
          ItemsPerPool   \* Items of a pool, at most the 8 bits of a vector.

ASSUME SlabAssumption == ItemsPerPool \in 1..8 /\ SlabBlock # {}

VARIABLES pools,     \* The chain slab->head, next, ...
          slabHeld   \* Items handed out and not yet given back.

slabVars == <<pools, slabHeld>>

Index == 0..(ItemsPerPool - 1)
Pool == [mem : SlabBlock, alloc : SUBSET Index, mark : SUBSET Index]
Item == SlabBlock \X Index

NewPool(b, a) == [mem |-> b, alloc |-> a, mark |-> {}]
UnusedBlocks == SlabBlock \ {pools[i].mem : i \in DOMAIN pools}
PoolOf(it) == CHOOSE i \in DOMAIN pools : pools[i].mem = it[1]

\* ker_slab_init: one empty pool, which is never given back.
SlabInit ==
  /\ \E b \in SlabBlock : pools = <<NewPool(b, {})>>
  /\ slabHeld = {}

\* The pools the search of ker_slab_alloc can stop at: a vector is not full.
OpenPools == {i \in DOMAIN pools : pools[i].alloc # Index}

\* ker_slab_alloc: the lowest free item of the first pool that has one ...
SlabAlloc ==
  /\ OpenPools # {}
  /\ \E i \in {Min(OpenPools)} : \E s \in {Min(Index \ pools[i].alloc)} :
       /\ pools' = [pools EXCEPT ![i].alloc = @ \cup {s}]
       /\ slabHeld' = slabHeld \cup {<<pools[i].mem, s>>}

\* ... or item 0 of a new pool at the end of the chain, when the heap has a block
\* for it; otherwise NULL is returned and nothing changes.
SlabGrow ==
  /\ OpenPools = {}
  /\ \E b \in UnusedBlocks :
       /\ pools' = Append(pools, NewPool(b, {0}))
       /\ slabHeld' = slabHeld \cup {<<b, 0>>}

\* ker_slab_free: clear the item's bit; a pool that becomes empty goes back to the
\* heap unless it is the head.
SlabFree(it) ==
  LET i == PoolOf(it)
      left == pools[i].alloc \ {it[2]}
  IN  /\ it \in slabHeld
      /\ pools' = IF left = {} /\ i # 1 THEN Without(pools, i)
                  ELSE [pools EXCEPT ![i].alloc = left]
      /\ slabHeld' = slabHeld \ {it}

\* slab_gc_mark on every item of reach: only allocated items are marked.
Marked(reach) ==
  [i \in DOMAIN pools |->
     [pools[i] EXCEPT !.mark =
        @ \cup {s \in pools[i].alloc : <<pools[i].mem, s>> \in reach}]]

\* Mutant: the marks stay for the next collection.
Swept_marked(p) == [p EXCEPT !.alloc = p.mark]

\* slab_gc on one pool: an unmarked item is a leak, and the marks start afresh.
Swept(p) == [p EXCEPT !.alloc = p.mark, !.mark = {}]

\* The chain that slab_gc leaves of the swept pools s: the head, and each later pool
\* that still has an item.
Relinked(s) ==
  LET chain[i \in 1..Len(s)] ==
        IF i = 1 THEN <<s[1]>>
        ELSE IF s[i].alloc = {} THEN chain[i - 1] ELSE Append(chain[i - 1], s[i])
  IN  chain[Len(s)]

\* A collection: the owner of the slab marks the items it can still reach, then
\* slab_gc walks the chain and frees the pools that became empty.
SlabCollect(reach) ==
  \E marked \in {Marked(reach)} :
    /\ pools' = Relinked([i \in DOMAIN pools |-> Swept(marked[i])])
    /\ slabHeld' = slabHeld \cap reach

SlabNext == \/ SlabAlloc \/ SlabGrow
            \/ \E it \in slabHeld : SlabFree(it)
            \/ \E reach \in SUBSET slabHeld : SlabCollect(reach)

SlabSpec == SlabInit /\ [][SlabNext]_slabVars

--------------------------------------------------------------------------------
SlabTypeOK ==
  /\ pools \in Seq(Pool)
  /\ slabHeld \subseteq Item

\* The allocation vectors say exactly which items are in use: ker_slab_alloc never
\* hands out an item twice, a free or a collection never releases another user's
\* item, and a collection finds an item that was reachable at the last one.
SlabExact ==
  slabHeld = UNION {{<<pools[i].mem, s>> : s \in pools[i].alloc} : i \in DOMAIN pools}

\* The chain holds no pool twice and, the head apart, no empty pool: what
\* ker_slab_free and slab_gc unlink is what they return to the heap, and
\* slab->head is never NULL for the next ker_slab_alloc.
SlabChain ==
  /\ pools # <<>>
  /\ \A i, j \in DOMAIN pools : pools[i].mem = pools[j].mem => i = j
  /\ \A i \in DOMAIN pools : i # 1 => pools[i].alloc # {}

\* The allocation vectors of the pools say exactly which items are in use, over frees
\* that give pools back and collections in between, and the chain has no empty pool
\* but its head.
SlabSound == SlabTypeOK /\ SlabExact /\ SlabChain
================================================================================
