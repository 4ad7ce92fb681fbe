-------------------------------- MODULE Registry -------------------------------
(***************************************************************************)
(* The module registry of kernel/sched.c: control blocks from sched_slab,  *)
(* hashed into mod_bin and chained through next, the one-entry cache of    *)
(* ker_get_module, and pid_pool, the ids of spawned threads.               *)
(*                                                                         *)
(* ker_deregister_module finds the block and its predecessor, calls the    *)
(* module's MSG_FINAL handler, and only then unlinks; what that handler    *)
(* and the other handlers may call is the constant Calls.  A freed control *)
(* block keeps its contents: ker_slab_free clears an allocation bit.       *)
(***************************************************************************)
EXTENDS Integers, FiniteSetsExt, LinkedList

CONSTANTS BINS,      \* SCHED_NUMBER_BINS
          SLOTS,     \* How many control blocks sched_slab can give.
          LOADER,    \* The module that loads and removes others; it stays.
          App,       \* Ids of modules that are registered under their own id.
          Thread,    \* Ids from SCHED_MIN_THREAD_PID up.
          Calls,     \* Subset of {"lookup", "several", "nested"}: what handlers do.
          Failures,  \* Subset of {"state", "timer", "init"}: what can run out.
          DEPTH      \* Bound on nested deregistrations.

ASSUME RegistryAssumption ==
  /\ BINS \in Nat \ {0}
  /\ SLOTS \in Nat
  /\ LOADER \in Nat
  /\ App \subseteq Nat /\ Thread \subseteq Nat
  /\ LOADER \notin App \cup Thread /\ App \cap Thread = {}
  /\ Calls \subseteq {"lookup", "several", "nested"}
  /\ Failures \subseteq {"state", "timer", "init"}
  /\ DEPTH \in Nat \ {0}

VARIABLES bin,      \* mod_bin
          next,     \* next[s]: sos_module_t.next
          pid,      \* pid[s]: sos_module_t.pid
          alloc,    \* The blocks sched_slab has handed out.
          cache,    \* the static variable of ker_get_module
          pool,     \* The thread ids whose pid_pool bit is set.
          cur,      \* The module whose handler is running.
          final     \* The deregistrations whose MSG_FINAL handler is running.

vars == <<bin, next, pid, alloc, cache, pool, cur, final>>

Pid == {LOADER} \cup App \cup Thread
Slot == 0..SLOTS         \* 0 is the loader's static block.
NULL == -1
Bin == 0..(BINS - 1)
hash_pid(p) == p % BINS

Init ==
  /\ bin = [b \in Bin |-> IF b = hash_pid(LOADER) THEN 0 ELSE NULL]
  /\ next = [s \in Slot |-> NULL]
  /\ pid = [s \in Slot |-> IF s = 0 THEN LOADER ELSE NULL]
  /\ alloc = {0}
  /\ cache = NULL
  /\ pool = {}
  /\ cur = NULL
  /\ final = <<>>

\* The blocks on the chain of bin b, in order, along the pointers nx.
ChainOf(nx, b) == ListFrom(bin[b], nx, NULL, SLOTS + 1)

Chain(b) == ChainOf(next, b)

\* The places of id p on the chain of its bin, when the blocks hold ids.
PlacesOf(ids, nx, p) ==
  LET c == ChainOf(nx, hash_pid(p)) IN {i \in 1..Len(c) : ids[c[i]] = p}

Places(p) == PlacesOf(pid, next, p)

\* What ker_get_module(p) returns: the cached block if its id is p, otherwise the
\* first block of p on its chain.
Get(ids, nx, p) ==
  IF cache # NULL /\ ids[cache] = p THEN cache
  ELSE IF PlacesOf(ids, nx, p) = {} THEN NULL
  ELSE ChainOf(nx, hash_pid(p))[Min(PlacesOf(ids, nx, p))]

\* The cache after that call.
Cached(ids, nx, p) == IF Get(ids, nx, p) = NULL THEN cache ELSE Get(ids, nx, p)

\* The scheduler finds the handler of p and runs it.
do_dispatch(p) ==
  /\ final = <<>>
  /\ Get(pid, next, p) # NULL
  /\ cur' = p
  /\ cache' = Cached(pid, next, p)
  /\ UNCHANGED <<bin, next, pid, alloc, pool, final>>

\* A running handler looks a module up: ker_sys_get_module_state, the fntable,
\* ker_get_module itself.
ker_get_module(p) ==
  /\ "lookup" \in Calls
  /\ cache' = Cached(pid, next, p)
  /\ UNCHANGED <<bin, next, pid, alloc, pool, final, cur>>

\* The handlers that load and remove modules: the loader's and, with "nested",
\* the MSG_FINAL handler of a leaving module.
MayCall == /\ cur = LOADER
           /\ final = <<>> \/ ("nested" \in Calls /\ Len(final) < DEPTH)

\* A handler makes one call, or with "several" goes on.
Called == cur' \in {NULL} \cup (IF "several" \in Calls THEN {cur} ELSE {})

\* sched_slab hands out its first free block.
NewSlot == Min((1..SLOTS) \ alloc)

\* sched_register_module for the block h of id p: refuse an id that is found,
\* pre-allocate the timers, link, and post MSG_INIT.  The caller frees h unless
\* SOS_OK is returned; when the post fails h is on its chain by then.
sched_register_module(h, p, ids, nx) ==
  \/ /\ Get(ids, nx, p) # NULL \/ "timer" \in Failures
     /\ next' = nx
     /\ UNCHANGED <<bin, alloc>>
  \/ /\ Get(ids, nx, p) = NULL
     /\ next' = [nx EXCEPT ![h] = bin[hash_pid(p)]]
     /\ bin' = [bin EXCEPT ![hash_pid(p)] = h]
     /\ \/ alloc' = alloc \cup {h}
        \/ "init" \in Failures /\ UNCHANGED alloc

\* do_register_module for id p in a new block: its state, then its fields.
do_register_module(p) ==
  /\ Cardinality(alloc) <= SLOTS
  /\ \/ "state" \in Failures /\ UNCHANGED <<bin, next, pid, alloc, cache>>
     \/ LET ids == [pid EXCEPT ![NewSlot] = p]
            nx == [next EXCEPT ![NewSlot] = NULL]
        IN  /\ pid' = ids
            /\ cache' = Cached(ids, nx, p)
            /\ sched_register_module(NewSlot, p, ids, nx)
  /\ Called
  /\ UNCHANGED final

\* ker_register_module, and ker_spawn_module with flag 0.
ker_register_module(p) ==
  /\ MayCall
  /\ p \in App
  /\ do_register_module(p)
  /\ UNCHANGED pool

\* Mutant: the end of the pool is one id too late.
sched_get_pid_from_pool_past == Min((Thread \cup {Max(Thread) + 1}) \ pool)

\* The first free thread id, or NULL_PID.
sched_get_pid_from_pool == IF Thread \subseteq pool THEN NULL ELSE Min(Thread \ pool)

\* ker_spawn_module with SOS_CREATE_THREAD.
ker_spawn_module ==
  /\ MayCall
  /\ LET p == sched_get_pid_from_pool
     IN  /\ p # NULL
         /\ pool' = pool \cup {p}
         /\ do_register_module(p)

\* ker_deregister_module up to the call of the MSG_FINAL handler.
ker_deregister_module(p) ==
  /\ MayCall
  /\ p # LOADER
  /\ Places(p) # {}
  /\ LET i == Min(Places(p))
     IN  final' = Append(final, [handle |-> Chain(hash_pid(p))[i],
                                 prev |-> IF i = 1 THEN NULL
                                          ELSE Chain(hash_pid(p))[i - 1]])
  /\ UNCHANGED <<bin, next, pid, alloc, cache, pool, cur>>

\* Mutant: the predecessor is passed over.
Unlink_head(f, b) ==
  /\ bin' = [bin EXCEPT ![b] = next[f.handle]]
  /\ UNCHANGED next

Unlink(f, b) ==
  IF f.prev = NULL
  THEN bin' = [bin EXCEPT ![b] = next[f.handle]] /\ UNCHANGED next
  ELSE next' = [next EXCEPT ![f.prev] = next[f.handle]] /\ UNCHANGED bin

\* ker_deregister_module after the MSG_FINAL handler returned: unlink the block,
\* give back the thread id and the block.
deregister_finish ==
  /\ final # <<>>
  /\ LET f == final[Len(final)]
     IN  /\ Unlink(f, hash_pid(pid[f.handle]))
         /\ pool' = pool \ {pid[f.handle]}
         /\ alloc' = alloc \ {f.handle}
  /\ final' = SubSeq(final, 1, Len(final) - 1)
  /\ IF Len(final) = 1 THEN Called ELSE UNCHANGED cur
  /\ UNCHANGED <<pid, cache>>

Next == \/ \E p \in Pid : do_dispatch(p) \/ ker_get_module(p)
        \/ \E p \in App : ker_register_module(p)
        \/ ker_spawn_module
        \/ \E p \in App \cup Thread : ker_deregister_module(p)
        \/ deregister_finish

Spec == Init /\ [][Next]_vars

--------------------------------------------------------------------------------
TypeOK ==
  /\ bin \in [Bin -> Slot \cup {NULL}]
  /\ next \in [Slot -> Slot \cup {NULL}]
  /\ pid \in [Slot -> Pid \cup {NULL}]
  /\ alloc \subseteq Slot
  /\ cache \in Slot \cup {NULL}
  /\ pool \subseteq Thread
  /\ cur \in Pid \cup {NULL}
  /\ final \in Seq([handle : Slot, prev : Slot \cup {NULL}])

Linked == UNION {{Chain(b)[i] : i \in 1..Len(Chain(b))} : b \in Bin}

\* The chains of mod_bin end, hold only blocks that sched_slab has handed out,
\* each in the bin of its id, and no id twice, after any sequence of successful
\* and failed registrations and of removals with a handler run in between.
ChainsSound ==
  /\ \A b \in Bin : /\ Len(Chain(b)) <= SLOTS + 1
                    /\ \A i, j \in 1..Len(Chain(b)) :
                         pid[Chain(b)[i]] = pid[Chain(b)[j]] => i = j
                    /\ \A i \in 1..Len(Chain(b)) : hash_pid(pid[Chain(b)[i]]) = b
  /\ Linked \subseteq alloc

\* No control block is lost: sched_slab has handed out only what is on a chain.
NoBlockLeak == alloc \subseteq Linked

\* ker_get_module: "handle if successful, NULL otherwise": the block it returns is
\* on the chain of the id, although the cache is never invalidated.
GetIsLinked == \A p \in Pid : Get(pid, next, p) # NULL => Get(pid, next, p) \in Linked

\* pid_pool covers every thread on a chain, so that sched_get_pid_from_pool never
\* hands out the id of a thread that lives.  (The converse fails when a spawn fails:
\* the id it took is not given back.)
ThreadIds == {pid[s] : s \in Linked} \cap Thread \subseteq pool

\* The bins of the module table hold each registered module once, the control blocks
\* in use are those linked, and the ids of threads are taken from the pool, although
\* registration fails half way and MSG_FINAL handlers call back.
RegistrySound == ChainsSound /\ NoBlockLeak /\ ThreadIds

\* ker_deregister_module: "task id to be removed": once the handler has returned
\* and the call is over the module's block is on no chain.
Removed == [][deregister_finish => final[Len(final)].handle \notin Linked']_vars
================================================================================
