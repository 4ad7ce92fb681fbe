-------------------------------- MODULE MCQueue --------------------------------
(***************************************************************************)
(* One run for three parts of the kernel's memory that share no state: the *)
(* message queue, the slab allocator and the heap.  The variable part says *)
(* which one a behaviour is about; the others rest in their initial states.*)
(***************************************************************************)
EXTENDS MessageQueue, Slab, Malloc

VARIABLE part

queueVars == <<vars, slabVars, memVars, part>>

QueueInit ==
  /\ part \in {"queue", "slab", "heap"}
  /\ Init
  /\ part # "queue" => key = [m \in Msg |-> CHOOSE k \in Key : TRUE]
  /\ SlabInit
  /\ part # "slab" => pools[1].mem = CHOOSE b \in SlabBlock : TRUE
  /\ MemInit

InQueue(A) == part = "queue" /\ A /\ UNCHANGED <<slabVars, memVars, part>>
InSlab(A) == part = "slab" /\ A /\ UNCHANGED <<vars, memVars, part>>
InHeap(A) == part = "heap" /\ A /\ UNCHANGED <<vars, slabVars, part>>

QueueNext ==
  \/ InQueue(\E m \in Msg, c \in Class, k \in Key : mq_enqueue(m, c, k))
  \/ InQueue(\E c \in Class : mq_dequeue(c))
  \/ InQueue(\E k \in Key : mq_get(k))
  \/ InSlab(SlabAlloc)
  \/ InSlab(SlabGrow)
  \/ InSlab(\E it \in slabHeld : SlabFree(it))
  \/ InSlab(\E reach \in SUBSET slabHeld : SlabCollect(reach))
  \/ InHeap(\E id \in Owner : mem_remove_all(id))
  \/ InHeap(\E id \in Owner : malloc_gc(id))
  \/ InHeap(\E id \in Owner, size \in Sizes : sos_blk_mem_alloc(id, size))
  \/ InHeap(\E id \in Owner, size \in Sizes : sos_blk_mem_longterm_alloc(id, size))
  \/ InHeap(\E id \in Owner, m \in held : sos_blk_mem_change_own(m, id))
  \/ InHeap(\E m \in held : sos_blk_mem_free(m))
  \/ InHeap(\E m \in held : forget(m))
  \/ InHeap(\E m \in held, size \in Sizes : sos_blk_mem_realloc(m, size))

QueueSpec == QueueInit /\ [][QueueNext]_queueVars

--------------------------------------------------------------------------------
\* HeapSound of Malloc, evaluated only where the heap is used: the areas, the free list
\* and what sos_blk_mem_alloc, _longterm_alloc, _free and _realloc leave of them.
HeapCorrect == part = "heap" => MemTypeOK /\ HeapSound
================================================================================
