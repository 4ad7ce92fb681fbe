------------------------------ MODULE SharedMemory -----------------------------
(***************************************************************************)
(* Named shared memory, kernel/sos_shm.c: records in SHM_NUM_BINS chains,  *)
(* each with its owner and SHM_NUM_WAITER processes that are told of       *)
(* updates and of the close.  A chain is the sequence of its records.      *)
(* ker_deregister_module does not call shm_remove_all, so neither does     *)
(* anything here: the records of a removed module stay.                    *)
(***************************************************************************)
EXTENDS Modules, LinkedList

CONSTANTS ShmName,         \* Names, numbers.
          SHM_NUM_BINS,
          SHM_NUM_WAITER

ASSUME ShmAssumption ==
  /\ ShmName \subseteq Nat
  /\ SHM_NUM_BINS \in Nat \ {0}
  /\ SHM_NUM_WAITER \in Nat

VARIABLES shm_bin,    \* The chains.
          shmSent     \* The MSG_SHM messages the last call posted: [to, type, name]

shmVars == <<shm_bin, shmSent>>

ShmBin == 0..(SHM_NUM_BINS - 1)
Waiter == 1..SHM_NUM_WAITER
hash_bin(name) == name % SHM_NUM_BINS
ShmCb == [name : ShmName, owner : Module, waiter : [Waiter -> Module \cup {NULL_PID}]]

shmInit ==
  /\ shm_bin = [b \in ShmBin |-> <<>>]
  /\ shmSent = {}

Opened(name) == {i \in DOMAIN shm_bin[hash_bin(name)] : shm_bin[hash_bin(name)][i].name = name}

\* Mutant: only the head of the chain is looked at.
shm_lookup_head(name) == Opened(name) \cap {1}

\* shm_lookup: the place of the first record of that name, if any.
shm_lookup(name) == IF Opened(name) = {} THEN {} ELSE {Min(Opened(name))}

shm_send_event(cb, type) ==
  shmSent' = {[to |-> cb.waiter[w], type |-> type, name |-> cb.name] :
                 w \in {v \in Waiter : cb.waiter[v] # NULL_PID}}

\* ker_shm_open; a full slab returns -ENOMEM and changes nothing.
ker_shm_open(m, name) ==
  /\ m \in live
  /\ shm_lookup(name) = {}
  /\ shm_bin' = [shm_bin EXCEPT ![hash_bin(name)] =
                   <<[name |-> name, owner |-> m,
                      waiter |-> [w \in Waiter |-> NULL_PID]]>> \o @]
  /\ shmSent' = {}

\* ker_shm_update, by any module that knows the name.
ker_shm_update(m, name) ==
  /\ m \in live
  /\ \E i \in shm_lookup(name) : shm_send_event(shm_bin[hash_bin(name)][i], "SHM_UPDATED")
  /\ UNCHANGED shm_bin

\* Mutant: the waiters are not told.
ker_shm_close_quiet(m, name) ==
  /\ m \in live
  /\ \E i \in shm_lookup(name) :
       /\ shm_bin[hash_bin(name)][i].owner = m
       /\ shm_bin' = [shm_bin EXCEPT ![hash_bin(name)] = Without(@, i)]
  /\ shmSent' = {}

\* ker_shm_close, by the owner only.
ker_shm_close(m, name) ==
  /\ m \in live
  /\ \E i \in shm_lookup(name) :
       /\ shm_bin[hash_bin(name)][i].owner = m
       /\ shm_bin' = [shm_bin EXCEPT ![hash_bin(name)] = Without(@, i)]
       /\ shm_send_event(shm_bin[hash_bin(name)][i], "SHM_CLOSED")

\* ker_shm_wait in the first free waiter entry.
ker_shm_wait(m, name) ==
  /\ m \in live
  /\ \E i \in shm_lookup(name) :
       LET free == {w \in Waiter : shm_bin[hash_bin(name)][i].waiter[w] = NULL_PID}
       IN  /\ free # {}
           /\ shm_bin' = [shm_bin EXCEPT ![hash_bin(name)][i].waiter[Min(free)] = m]
  /\ shmSent' = {}

\* ker_shm_stopwait for the first entry that holds m.
ker_shm_stopwait(m, name) ==
  /\ m \in live
  /\ \E i \in shm_lookup(name) :
       LET mine == {w \in Waiter : shm_bin[hash_bin(name)][i].waiter[w] = m}
       IN  /\ mine # {}
           /\ shm_bin' = [shm_bin EXCEPT ![hash_bin(name)][i].waiter[Min(mine)] = NULL_PID]
  /\ shmSent' = {}

--------------------------------------------------------------------------------
shmTypeOK ==
  /\ \A b \in ShmBin : shm_bin[b] \in Seq(ShmCb)
  /\ shmSent \subseteq [to : Module, type : {"SHM_UPDATED", "SHM_CLOSED"}, name : ShmName]

\* A name has at most one record, in the bin it hashes to, so that ker_shm_get and
\* ker_shm_close of a name speak of the same memory however chains were cut.
ShmNames ==
  \A b \in ShmBin : \A i, j \in DOMAIN shm_bin[b] :
    /\ hash_bin(shm_bin[b][i].name) = b
    /\ shm_bin[b][i].name = shm_bin[b][j].name => i = j

\* A process that waits on a name is told when the name goes: while it was waiting
\* the record did not vanish without a MSG_SHM to it.
WaitersTold ==
  [][\A b \in ShmBin : \A i \in DOMAIN shm_bin[b] :
       LET cb == shm_bin[b][i]
       IN  (\A j \in DOMAIN shm_bin'[b] : shm_bin'[b][j].name # cb.name) =>
             \A w \in Waiter : cb.waiter[w] # NULL_PID =>
               [to |-> cb.waiter[w], type |-> "SHM_CLOSED", name |-> cb.name] \in shmSent']_shmVars
================================================================================
