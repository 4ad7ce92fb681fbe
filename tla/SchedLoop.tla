-------------------------------- MODULE SchedLoop ------------------------------
(***************************************************************************)
(* The main loop of kernel/sched.c in the cooperative build: sched,        *)
(* handle_callback and sched_add_interrupt, against interrupts that arrive *)
(* between any two steps while they are enabled.                           *)
(*                                                                         *)
(* Interrupt handlers leave work in two places, a callback in int_array    *)
(* (the timer) or a message in schedpq.  The loop looks at both with       *)
(* interrupts disabled, and sleeps if there is none.  Messages are counted *)
(* here; Sched and MessageQueue model them.                                *)
(***************************************************************************)
EXTENDS Integers

CONSTANTS NUM_INTS,   \* SCHED_NUM_INTS
          MaxMsg      \* Bound on msg_cnt.

ASSUME LoopAssumption == NUM_INTS \in Nat \ {0} /\ MaxMsg \in Nat

VARIABLES int_ready, int_array, msg_cnt,
          where,    \* Where the loop is.
          slot,     \* i, the index of handle_callback.
          raised    \* raised[d]: callback d was asked for and has not started since.

loopVars == <<int_ready, int_array, msg_cnt, where, slot, raised>>

Id == 0..(NUM_INTS - 1)

LoopInit ==
  /\ int_ready = FALSE
  /\ int_array = [d \in Id |-> FALSE]
  /\ msg_cnt = 0
  /\ where = "top"
  /\ slot = 0
  /\ raised = [d \in Id |-> FALSE]

\* Mutant: the loop looks for work with interrupts enabled.
IntEnabled_always == TRUE

\* DISABLE_GLOBAL_INTERRUPTS .. ENABLE_GLOBAL_INTERRUPTS, or the sei of
\* atomic_hardware_sleep.
IntEnabled == where \notin {"check_int", "check_msg"}

\* An interrupt ends the sleep.
Wake == where' = IF where = "sleep" THEN "top" ELSE where

sched_add_interrupt(d) ==
  /\ int_array' = [int_array EXCEPT ![d] = TRUE]
  /\ int_ready' = TRUE
  /\ raised' = [raised EXCEPT ![d] = TRUE]

\* A device's interrupt handler asks for its callback.
isr_callback(d) ==
  /\ IntEnabled
  /\ sched_add_interrupt(d)
  /\ Wake
  /\ UNCHANGED <<msg_cnt, slot>>

\* A device's interrupt handler posts a message.
isr_post ==
  /\ IntEnabled
  /\ msg_cnt < MaxMsg
  /\ msg_cnt' = msg_cnt + 1
  /\ Wake
  /\ UNCHANGED <<int_ready, int_array, slot, raised>>

\* The top of the loop: DISABLE_GLOBAL_INTERRUPTS.
sched_top ==
  /\ where = "top"
  /\ where' = "check_int"
  /\ UNCHANGED <<int_ready, int_array, msg_cnt, slot, raised>>

sched_check_int ==
  /\ where = "check_int"
  /\ where' = IF int_ready THEN "callback" ELSE "check_msg"
  /\ UNCHANGED <<int_ready, int_array, msg_cnt, slot, raised>>

\* Mutant: the last message is not seen.
sched_check_msg_last ==
  /\ where = "check_msg"
  /\ where' = IF msg_cnt > 1 THEN "dispatch" ELSE "sleep"
  /\ UNCHANGED <<int_ready, int_array, msg_cnt, slot, raised>>

sched_check_msg ==
  /\ where = "check_msg"
  /\ where' = IF msg_cnt # 0 THEN "dispatch" ELSE "sleep"
  /\ UNCHANGED <<int_ready, int_array, msg_cnt, slot, raised>>

\* do_dispatch takes a message; its handler may post.
do_dispatch ==
  /\ where = "dispatch"
  /\ msg_cnt' \in {msg_cnt - 1, msg_cnt}
  /\ where' = "top"
  /\ UNCHANGED <<int_ready, int_array, slot, raised>>

handle_callback ==
  /\ where = "callback"
  /\ int_ready' = FALSE
  /\ slot' = 0
  /\ where' = "look"
  /\ UNCHANGED <<int_array, msg_cnt, raised>>

\* Mutant: int_ready is cleared when the pass is over.
Advance_clear ==
  /\ slot' = IF slot = NUM_INTS - 1 THEN 0 ELSE slot + 1
  /\ where' = IF slot = NUM_INTS - 1 THEN "top" ELSE "look"
  /\ int_ready' = IF slot = NUM_INTS - 1 THEN FALSE ELSE int_ready

\* i++ of the for loop.
Advance ==
  /\ slot' = IF slot = NUM_INTS - 1 THEN 0 ELSE slot + 1
  /\ where' = IF slot = NUM_INTS - 1 THEN "top" ELSE "look"
  /\ UNCHANGED int_ready

\* if( int_array[i] != NULL ) f = int_array[i]
callback_look ==
  /\ where = "look"
  /\ IF int_array[slot] THEN where' = "clear" /\ UNCHANGED <<slot, int_ready>> ELSE Advance
  /\ UNCHANGED <<int_array, msg_cnt, raised>>

\* int_array[i] = NULL
callback_clear ==
  /\ where = "clear"
  /\ int_array' = [int_array EXCEPT ![slot] = FALSE]
  /\ where' = "call"
  /\ UNCHANGED <<int_ready, msg_cnt, slot, raised>>

\* f() starts.
callback_call ==
  /\ where = "call"
  /\ raised' = [raised EXCEPT ![slot] = FALSE]
  /\ where' = "running"
  /\ UNCHANGED <<int_ready, int_array, msg_cnt, slot>>

\* f() asks to be called again, as soft_interrupt does when ticks are left.
callback_again ==
  /\ where = "running"
  /\ sched_add_interrupt(slot)
  /\ UNCHANGED <<msg_cnt, where, slot>>

callback_return ==
  /\ where = "running"
  /\ Advance
  /\ UNCHANGED <<int_array, msg_cnt, raised>>

Loop == \/ sched_top \/ sched_check_int \/ sched_check_msg \/ do_dispatch
        \/ handle_callback \/ callback_look \/ callback_clear \/ callback_call
        \/ callback_return

LoopNext == \/ \E d \in Id : isr_callback(d)
            \/ isr_post
            \/ callback_again
            \/ Loop

\* The processor keeps executing the loop.
LoopSpec == LoopInit /\ [][LoopNext]_loopVars /\ WF_loopVars(Loop)

--------------------------------------------------------------------------------
LoopTypeOK ==
  /\ int_ready \in BOOLEAN
  /\ int_array \in [Id -> BOOLEAN]
  /\ msg_cnt \in 0..MaxMsg
  /\ where \in {"top", "check_int", "check_msg", "dispatch", "sleep", "callback",
                "look", "clear", "call", "running"}
  /\ slot \in Id
  /\ raised \in [Id -> BOOLEAN]

\* A callback that was asked for is still in int_array or is the one about to be
\* called, wherever in handle_callback the interrupt came.
RequestKept ==
  \A d \in Id : raised[d] => int_array[d] \/ (where = "call" /\ slot = d)

\* The loop will look at every entry of int_array: int_ready is set, or the pass
\* has the entry ahead of it.
EntrySeen ==
  \A d \in Id : int_array[d] =>
    int_ready \/ (where = "look" /\ slot <= d) \/ (where = "clear" /\ slot <= d)
              \/ (where \in {"call", "running"} /\ slot < d)

\* The processor sleeps only when no callback and no message is waiting: no wakeup
\* is lost between the checks and the sleep.
SleepsIdle == where = "sleep" => /\ ~int_ready /\ msg_cnt = 0
                                 /\ \A d \in Id : ~raised[d]

\* No callback that an interrupt asked for is lost and the processor does not sleep
\* with work waiting, wherever between two steps of the loop the interrupt comes.
LoopSound == LoopTypeOK /\ RequestKept /\ EntrySeen /\ SleepsIdle

\* A callback that an interrupt handler asked for is called, even if interrupts
\* and messages keep coming.
CallbackServed == \A d \in Id : raised[d] ~> ~raised[d]

\* If interrupts leave the loop turns in which no callback is waiting, it keeps
\* dispatching messages or has none.
MessagesServed ==
  []<>(where = "check_int" /\ ~int_ready) => []<>(where = "dispatch" \/ msg_cnt = 0)
================================================================================
