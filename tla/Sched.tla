--------------------------------- MODULE Sched ---------------------------------
(***************************************************************************)
(* The message path of the cooperative SOS kernel (kernel/sched.c,         *)
(* kernel/message.c, kernel/message_queue.c): message headers come from a  *)
(* slab, payloads are heap blocks with an owner, posted headers wait in    *)
(* three FIFO queues, the scheduler runs one handler at a time, and a      *)
(* reliable message travels back to its sender inside a MSG_PKT_SENDDONE.  *)
(*                                                                         *)
(* A module's handler is modelled by the kernel calls it makes: between    *)
(* do_dispatch and handler_return the current module may post, allocate,   *)
(* free and take data in any order.  Interrupt handlers post at any time.  *)
(* The heap itself is the module Malloc, the table of modules is Registry; *)
(* here a block is just its owner and the table is the set of modules.     *)
(***************************************************************************)
EXTENDS Naturals, Sequences, FiniteSets

CONSTANTS Hdr,       \* message headers the slab can hand out
          Blk,       \* heap blocks used as payloads
          Pid,       \* modules
          LOADER,    \* the module that loads and removes the others
          SCHED,     \* KER_SCHED_PID
          NULL,      \* no header, no block, no module
          PAYLOAD,   \* data of a short message: the payload bytes of its header
          FREE,      \* owner of a block on the free list (NULL_PID)
          FlagSets,  \* the flag combinations modules post with
          UseGC      \* TRUE in a build with SOS_USE_GC

Flag == {"RELEASE", "RELIABLE", "HIGH_PRIORITY", "SYSTEM_PRIORITY", "SEND_FAIL"}

Class == {"hq", "sq", "lq"}

Type == {"INIT", "DATA", "SENDDONE"}

Message == [did : Pid, sid : Pid \cup {SCHED}, type : Type,
            data : Blk \cup Hdr \cup {NULL, PAYLOAD}, flag : SUBSET Flag]

\* The kernel's own identifiers are not modules, headers are not blocks, and
\* modules leave SEND_FAIL and SYSTEM_PRIORITY to the kernel.
ASSUME SchedAssumption ==
  /\ LOADER \in Pid
  /\ SCHED \notin Pid /\ FREE \notin Pid \cup {SCHED} /\ NULL \notin Pid \cup {SCHED}
  /\ Hdr \cap Blk = {} /\ NULL \notin Hdr \cup Blk
  /\ PAYLOAD \notin Hdr \cup Blk \cup {NULL} /\ NULL \notin Message
  /\ FlagSets \subseteq SUBSET {"RELEASE", "RELIABLE", "HIGH_PRIORITY"}
  /\ UseGC \in BOOLEAN

VARIABLES hdr,   \* hdr[h]: the Message in header h, NULL when h is in the slab
          own,   \* own[b]: blockhdr.owner of block b
          q,     \* schedpq: the high, system and low priority queues
          mods,  \* the modules ker_get_module finds
          run,   \* the handler call in progress, with do_dispatch's locals
          fin,   \* the module handling MSG_FINAL inside that handler, or NULL
          held   \* held[p]: the blocks module p allocated or took, and still uses

vars == <<hdr, own, q, mods, run, fin, held>>

\* No handler is running: the scheduler is at the top of its loop.
Idle == [k |-> "idle", pid |-> NULL, e |-> NULL, inner |-> NULL, sdst |-> NULL]

Init ==
  /\ hdr = [h \in Hdr |-> NULL]
  /\ own = [b \in Blk |-> FREE]
  /\ q = [c \in Class |-> <<>>]
  /\ mods = {LOADER}
  /\ run = Idle
  /\ fin = NULL
  /\ held = [p \in Pid |-> {}]

--------------------------------------------------------------------------------
\* Message queue and header pool.

\* The queue mq_enqueue picks from the flags.
ClassOf(flag) == IF "HIGH_PRIORITY" \in flag THEN "hq"
                 ELSE IF "SYSTEM_PRIORITY" \in flag THEN "sq" ELSE "lq"

Enqueue(qq, c, h) == [qq EXCEPT ![c] = Append(@, h)]

\* Mutant: the new message goes to the front of its queue.
mq_enqueue_lifo(h, flag) == q' = [q EXCEPT ![ClassOf(flag)] = <<h>> \o @]

mq_enqueue(h, flag) == q' = Enqueue(q, ClassOf(flag), h)

\* The queue mq_dequeue takes the head of.
Front == IF q["hq"] # <<>> THEN "hq" ELSE IF q["sq"] # <<>> THEN "sq" ELSE "lq"

\* The queues after mq_dequeue took the head of queue c.
mq_dequeue(c) == [q EXCEPT ![c] = Tail(@)]

Pending == \E c \in Class : q[c] # <<>>

FreeHdr == {h \in Hdr : hdr[h] = NULL}

\* The owners after ker_free(d): freeing NULL, or a block that is free, does
\* nothing.
ker_free(ow, d) == IF d \in Blk THEN [ow EXCEPT ![d] = FREE] ELSE ow

\* The owners after msg_dispose(m), which also returns m to the slab.
DisposeOwn(ow, m) == IF "RELEASE" \in hdr[m].flag THEN ker_free(ow, hdr[m].data) ELSE ow

\* The owners after ker_change_own(d, p): the guard byte of a free block does not
\* match its owner, so the call leaves it alone.
ker_change_own(ow, d, p) == IF d \in Blk /\ ow[d] # FREE THEN [ow EXCEPT ![d] = p] ELSE ow

\* post_longer when msg_create succeeds with header h: fill it in, and
\* sched_msg_alloc takes over a released payload and enqueues.
PostOK(h, msg) ==
  /\ hdr[h] = NULL
  /\ hdr' = [hdr EXCEPT ![h] = msg]
  /\ own' = IF "RELEASE" \in msg.flag THEN ker_change_own(own, msg.data, SCHED) ELSE own
  /\ mq_enqueue(h, msg.flag)

\* Mutant: a failed post keeps the released payload.
PostNoMem_keep(msg) ==
  /\ FreeHdr = {}
  /\ UNCHANGED <<hdr, own, q>>

\* post_longer when msg_create fails: a released payload is freed, -ENOMEM.
PostNoMem(msg) ==
  /\ FreeHdr = {}
  /\ own' = IF "RELEASE" \in msg.flag THEN ker_free(own, msg.data) ELSE own
  /\ UNCHANGED <<hdr, q>>

--------------------------------------------------------------------------------
\* What the running handler may ask of the kernel.

\* curr_pid
CurPid == IF fin # NULL THEN fin ELSE run.pid

Running(p) == p = CurPid /\ p # NULL

\* post_long(did, sid, MSG, len, data, flag) by the running module.  With
\* SOS_MSG_RELEASE the module gives the block away, whatever the outcome.
post_long(p, did, b, flag) ==
  /\ Running(p)
  /\ b \in held[p]
  /\ LET msg == [did |-> did, sid |-> p, type |-> "DATA", data |-> b, flag |-> flag]
     IN (\E h \in Hdr : PostOK(h, msg)) \/ PostNoMem(msg)
  /\ held' = IF "RELEASE" \in flag THEN [held EXCEPT ![p] = @ \ {b}] ELSE held
  /\ UNCHANGED <<mods, run, fin>>

\* post_short: the payload is inside the header, SOS_MSG_RELEASE is masked out.
post_short(p, did, flag) ==
  /\ Running(p)
  /\ LET msg == [did |-> did, sid |-> p, type |-> "DATA", data |-> PAYLOAD,
                 flag |-> flag \ {"RELEASE"}]
     IN (\E h \in Hdr : PostOK(h, msg)) \/ PostNoMem(msg)
  /\ UNCHANGED <<mods, run, fin, held>>

\* Mutant: a driver asks for a MSG_PKT_SENDDONE that no module can receive.
isr_post_short_reliable(did) ==
  /\ \E h \in Hdr :
       PostOK(h, [did |-> did, sid |-> SCHED, type |-> "DATA", data |-> PAYLOAD,
                  flag |-> {"HIGH_PRIORITY", "RELIABLE"}])
  /\ UNCHANGED <<mods, run, fin, held>>

\* The same from an interrupt handler (a driver), between any two steps.
isr_post_short(did) ==
  /\ \E h \in Hdr :
       PostOK(h, [did |-> did, sid |-> SCHED, type |-> "DATA", data |-> PAYLOAD,
                  flag |-> {"HIGH_PRIORITY"}])
  /\ UNCHANGED <<mods, run, fin, held>>

ker_malloc(p, b) ==
  /\ Running(p)
  /\ own[b] = FREE
  /\ own' = [own EXCEPT ![b] = p]
  /\ held' = [held EXCEPT ![p] = @ \cup {b}]
  /\ UNCHANGED <<hdr, q, mods, run, fin>>

sys_free(p, b) ==
  /\ Running(p)
  /\ b \in held[p]
  /\ own' = ker_free(own, b)
  /\ held' = [held EXCEPT ![p] = @ \ {b}]
  /\ UNCHANGED <<hdr, q, mods, run, fin>>

\* The message ker_msg_take_data takes from: the one being handled, or the
\* message inside it when that is a MSG_PKT_SENDDONE.
TakeFrom == IF hdr[run.e].type = "SENDDONE" THEN hdr[run.e].data ELSE run.e

\* A message whose released payload was taken.
Taken(m) == [m EXCEPT !.data = NULL, !.flag = @ \ {"RELEASE"}]

\* ker_msg_take_data: a released payload changes hands, any other is copied into
\* a new block b (nothing happens when there is no memory, or nothing to copy).
ker_msg_take_data(p) ==
  /\ Running(p) /\ fin = NULL /\ run.k = "msg"
  /\ LET m == TakeFrom
         d == hdr[m].data
     IN \/ /\ "RELEASE" \in hdr[m].flag
           /\ own' = ker_change_own(own, d, p)
           /\ held' = [held EXCEPT ![p] = @ \cup ({d} \cap Blk)]
           /\ hdr' = [hdr EXCEPT ![m] = Taken(@)]
        \/ /\ "RELEASE" \notin hdr[m].flag
           /\ d # NULL
           /\ \E b \in Blk : /\ own[b] = FREE
                             /\ own' = [own EXCEPT ![b] = p]
                             /\ held' = [held EXCEPT ![p] = @ \cup {b}]
           /\ UNCHANGED hdr
  /\ UNCHANGED <<q, mods, run, fin>>

--------------------------------------------------------------------------------
\* Dispatch.

\* Mutant: a SENDDONE that cannot be posted leaves its message behind.
DisposeOne_lost(qq, e, sdst) ==
  /\ sdst = NULL \/ FreeHdr = {}
  /\ hdr' = IF sdst = NULL THEN [hdr EXCEPT ![e] = NULL] ELSE hdr
  /\ own' = IF sdst = NULL THEN DisposeOwn(own, e) ELSE own
  /\ q' = qq

\* msg_dispose(e): nobody wants a SENDDONE, or there is no header for it.
DisposeOne(qq, e, sdst) ==
  /\ sdst = NULL \/ FreeHdr = {}
  /\ hdr' = [hdr EXCEPT ![e] = NULL]
  /\ own' = DisposeOwn(own, e)
  /\ q' = qq

SendDoneMsg(e, sdst, ok) ==
  [did |-> sdst, sid |-> SCHED, type |-> "SENDDONE", data |-> e,
   flag |-> IF ok THEN {} ELSE {"SEND_FAIL"}]

\* Mutant: the message is disposed of although its SENDDONE carries it.
SendSendDone_dispose(qq, e, sdst, ok) ==
  /\ sdst # NULL
  /\ \E h \in FreeHdr :
       /\ hdr' = [hdr EXCEPT ![h] = SendDoneMsg(e, sdst, ok), ![e] = NULL]
       /\ q' = Enqueue(qq, "lq", h)
  /\ own' = DisposeOwn(own, e)

\* post_long of the MSG_PKT_SENDDONE that takes e back to its sender.
SendSendDone(qq, e, sdst, ok) ==
  /\ sdst # NULL
  /\ \E h \in FreeHdr :
       /\ hdr' = [hdr EXCEPT ![h] = SendDoneMsg(e, sdst, ok)]
       /\ q' = Enqueue(qq, "lq", h)
  /\ UNCHANGED own

\* msg_dispose of a MSG_PKT_SENDDONE and of the message inside it.
DisposeBoth(qq, e, inner) ==
  /\ hdr' = [hdr EXCEPT ![inner] = NULL, ![e] = NULL]
  /\ own' = DisposeOwn(DisposeOwn(own, inner), e)
  /\ q' = qq

\* The end of do_dispatch, with the queues left at qq by mq_dequeue: what becomes
\* of message e once its handler returned (ok: with SOS_OK) or no module took it.
\* inner is the message e carried if e is a MSG_PKT_SENDDONE, sdst the sender
\* that asked for one.
FinishDispatch(qq, e, inner, sdst, ok) ==
  \/ inner # NULL /\ DisposeBoth(qq, e, inner)
  \/ inner = NULL /\ SendSendDone(qq, e, sdst, ok)
  \/ inner = NULL /\ DisposeOne(qq, e, sdst)

\* mq_dequeue, and the start of do_dispatch up to the call of the handler.
\* With no module to call, the message is finished off at once.
do_dispatch ==
  /\ run = Idle /\ Pending
  /\ LET c     == Front
         e     == Head(q[c])
         qq    == mq_dequeue(c)
         m     == hdr[e]
         inner == IF m.type = "SENDDONE" THEN m.data ELSE NULL
         sdst  == IF "RELIABLE" \in m.flag THEN m.sid ELSE NULL
     IN \/ /\ m.did \in mods
           /\ q' = qq
           /\ own' = IF "RELEASE" \in m.flag THEN ker_change_own(own, m.data, m.did) ELSE own
           /\ run' = [k |-> "msg", pid |-> m.did, e |-> e, inner |-> inner, sdst |-> sdst]
           /\ UNCHANGED hdr
        \/ /\ m.did \notin mods
           /\ FinishDispatch(qq, e, inner, sdst, FALSE)
           /\ UNCHANGED run
  /\ UNCHANGED <<mods, fin, held>>

\* The handler returns to do_dispatch.
handler_return(ok) ==
  /\ run.k = "msg" /\ fin = NULL
  /\ FinishDispatch(q, run.e, run.inner, run.sdst, ok)
  /\ run' = Idle
  /\ UNCHANGED <<mods, fin, held>>

\* A soft interrupt (a timer) calls a module directly, from the scheduler loop.
sched_dispatch_short_message(p) ==
  /\ run = Idle
  /\ p \in mods
  /\ run' = [k |-> "short", pid |-> p, e |-> NULL, inner |-> NULL, sdst |-> NULL]
  /\ UNCHANGED <<hdr, own, q, mods, fin, held>>

short_return ==
  /\ run.k = "short" /\ fin = NULL
  /\ run' = Idle
  /\ UNCHANGED <<hdr, own, q, mods, fin, held>>

--------------------------------------------------------------------------------
\* Loading and removing modules, and garbage collection.

\* ker_register_module by the loader: the module is linked in, then MSG_INIT is
\* posted.  When that fails the module stays linked (sched.c:413-416).
ker_register_module(p) ==
  /\ Running(LOADER)
  /\ p \notin mods
  /\ mods' = mods \cup {p}
  /\ LET msg == [did |-> p, sid |-> SCHED, type |-> "INIT", data |-> NULL,
                 flag |-> {"RELEASE", "SYSTEM_PRIORITY"}]
     IN (\E h \in Hdr : PostOK(h, msg)) \/ PostNoMem(msg)
  /\ UNCHANGED <<run, fin, held>>

\* ker_deregister_module first calls the module's handler with MSG_FINAL ...
ker_deregister_module(p) ==
  /\ Running(LOADER)
  /\ p \in mods \ {LOADER}
  /\ fin' = p
  /\ UNCHANGED <<hdr, own, q, mods, run, held>>

\* ... and when it returns unlinks the module and frees everything it owns.
\* Messages to and from the module stay where they are.
deregister_finish ==
  /\ fin # NULL
  /\ mods' = mods \ {fin}
  /\ own' = [b \in Blk |-> IF own[b] = fin THEN FREE ELSE own[b]]
  /\ held' = [held EXCEPT ![fin] = {}]
  /\ fin' = NULL
  /\ UNCHANGED <<hdr, q, run>>

Elems(s) == {s[i] : i \in DOMAIN s}

\* The headers in queues qq.
QElems(qq) == UNION {Elems(qq[c]) : c \in Class}

Queued == QElems(q)

\* Mutant: the payloads of the system queue are not marked.
MarkedPayload_nosq == {hdr[h].data : h \in {g \in Queued :
                         "RELEASE" \in hdr[g].flag /\ "SYSTEM_PRIORITY" \notin hdr[g].flag
                         /\ "HIGH_PRIORITY" \notin hdr[g].flag}}

\* The payloads mq_gc_mark_payload marks: released payloads of queued messages.
MarkedPayload == {hdr[h].data : h \in {g \in Queued : "RELEASE" \in hdr[g].flag}}

\* malloc_gc_kernel, run by the memory module's timer handler: sched_gc frees
\* the scheduler's blocks that no queued message releases, mq_gc returns every
\* header that is not queued to the slab.
malloc_gc_kernel ==
  /\ UseGC
  /\ run = Idle
  /\ own' = [b \in Blk |-> IF own[b] = SCHED /\ b \notin MarkedPayload THEN FREE ELSE own[b]]
  /\ hdr' = [h \in Hdr |-> IF h \in Queued THEN hdr[h] ELSE NULL]
  /\ UNCHANGED <<q, mods, run, fin, held>>

Next ==
  \/ \E p, did \in Pid, b \in Blk, f \in FlagSets : post_long(p, did, b, f)
  \/ \E p, did \in Pid, f \in FlagSets : post_short(p, did, f)
  \/ \E did \in Pid : isr_post_short(did)
  \/ \E p \in Pid, b \in Blk : ker_malloc(p, b) \/ sys_free(p, b)
  \/ \E p \in Pid : ker_msg_take_data(p)
  \/ do_dispatch
  \/ \E ok \in BOOLEAN : handler_return(ok)
  \/ \E p \in Pid : sched_dispatch_short_message(p)
  \/ short_return
  \/ \E p \in Pid : ker_register_module(p) \/ ker_deregister_module(p)
  \/ deregister_finish
  \/ malloc_gc_kernel

Spec == Init /\ [][Next]_vars

\* The processor keeps running: the scheduler loop reaches the message queue
\* again and again (interrupts and timers do not fill it), and handlers return.
Fairness ==
  /\ SF_vars(do_dispatch)
  /\ SF_vars(\E ok \in BOOLEAN : handler_return(ok))
  /\ SF_vars(short_return)
  /\ WF_vars(deregister_finish)

FairSpec == Spec /\ Fairness

--------------------------------------------------------------------------------
\* Properties.

\* The values the variables take.
TypeOK ==
  /\ hdr \in [Hdr -> Message \cup {NULL}]
  /\ own \in [Blk -> Pid \cup {SCHED, FREE}]
  /\ q \in [Class -> Seq(Hdr)]
  /\ mods \subseteq Pid
  /\ run \in [k : {"idle", "msg", "short"}, pid : Pid \cup {NULL}, e : Hdr \cup {NULL},
              inner : Hdr \cup {NULL}, sdst : Pid \cup {NULL}]
  /\ fin \in Pid \cup {NULL}
  /\ held \in [Pid -> SUBSET Blk]

Alloc == {h \in Hdr : hdr[h] # NULL}

SendDones == {h \in Alloc : hdr[h].type = "SENDDONE"}

\* The headers a MSG_PKT_SENDDONE carries as its payload.
Carried == {hdr[s].data : s \in SendDones}

\* The header of the message being handled.
Handled == {run.e} \cap Hdr

\* No header is twice in queues qq.
QInj(qq) ==
  /\ \A c \in Class : \A i, j \in DOMAIN qq[c] : qq[c][i] = qq[c][j] => i = j
  /\ \A c, d \in Class : c # d => Elems(qq[c]) \cap Elems(qq[d]) = {}

\* Each of the headers in the three linked lists of message_queue.c is in one
\* place of one list, and none of them is back in the slab: msg_dispose and
\* mq_enqueue never meet on the same header.
QueueSound ==
  /\ Queued \subseteq Alloc
  /\ QInj(q)

\* The payload of a MSG_PKT_SENDDONE is a message that nobody else has (sched.c:868):
\* allocated, not queued, not being handled, not itself a SENDDONE, and carried
\* by that one SENDDONE only; so the two msg_dispose calls of sched.c:984-987
\* return two different headers, each for the first time.
SendDoneSound ==
  /\ Carried \subseteq Alloc \ (SendDones \cup Queued \cup Handled)
  /\ \A s, t \in SendDones : hdr[s].data = hdr[t].data => s = t

\* Every header taken from the slab by msg_create is queued, being handled, or
\* carried by a SENDDONE: no path through do_dispatch, post_longer or the removal
\* of a module loses one.
NoHeaderLeak == Alloc \subseteq Queued \cup Handled \cup Carried

\* Every header that msg_create gave out is in one place, a queue, the handler under
\* way or a MSG_PKT_SENDDONE: none is lost, queued twice or given out again, whichever
\* posts fail and whoever posts from an interrupt.
HeadersSound == QueueSound /\ NoHeaderLeak

\* What do_dispatch relies on when it reads a message: a SENDDONE carries a header
\* and no other message does, and only modules ask for a SENDDONE.
MsgSound ==
  \A h \in Alloc :
    /\ hdr[h].type = "SENDDONE" => hdr[h].data \in Hdr /\ hdr[h].flag \subseteq {"SEND_FAIL"}
    /\ hdr[h].type # "SENDDONE" => hdr[h].data \notin Hdr
    /\ "RELIABLE" \in hdr[h].flag => hdr[h].sid \in Pid

\* The locals of do_dispatch still describe the message while its handler runs.
RunSound ==
  /\ run.k = "idle" => run = Idle
  /\ run.k = "short" => run.pid \in Pid /\ run.e = NULL /\ run.inner = NULL /\ run.sdst = NULL
  /\ run.k = "msg" =>
       /\ run.pid \in Pid
       /\ run.e \in Alloc \ Queued
       /\ run.inner = IF hdr[run.e].type = "SENDDONE" THEN hdr[run.e].data ELSE NULL
       /\ run.sdst = IF "RELIABLE" \in hdr[run.e].flag THEN hdr[run.e].sid ELSE NULL

Released(h) == hdr[h] # NULL /\ "RELEASE" \in hdr[h].flag /\ hdr[h].data \in Blk

\* The payload of a queued SOS_MSG_RELEASE message belongs to the scheduler, that
\* of the message being handled to the handling module, and no module or second
\* message has it: between post and handler nobody else may free it.
ReleasedOwned ==
  \A h \in Alloc : Released(h) =>
    /\ h \in Queued => own[hdr[h].data] = SCHED
    /\ h = run.e => own[hdr[h].data] = run.pid
    /\ \A p \in Pid : hdr[h].data \notin held[p]
    /\ \A g \in Alloc : Released(g) /\ hdr[g].data = hdr[h].data => g = h

\* A block that a module allocated or took from a message stays that module's
\* until it gives it away: no msg_dispose, mem_remove_all or failed post of
\* somebody else frees it under the module's feet.
HeldIsOwned == \A p \in Pid : \A b \in held[p] : own[b] = p

\* Every block that is not free is reachable: a module holds it, or an allocated
\* message releases it.  A failed post frees the payload (message.c:119-121) and a
\* message without a receiver is disposed of (sched.c:999).
NoPayloadLeak ==
  \A b \in Blk : own[b] # FREE =>
    \/ \E p \in Pid : b \in held[p]
    \/ \E h \in Hdr : Released(h) /\ hdr[h].data = b

\* Every payload has one owner, the module that holds it or the message that carries
\* it, and is never lost or freed under somebody, although posts fail, handlers take
\* data and modules are removed with messages queued.
PayloadsSound == ReleasedOwned /\ HeldIsOwned /\ NoPayloadLeak

\* A collection frees no header of a queued message and no payload that a message
\* still carries.
GCSound == QueueSound /\ ReleasedOwned

\* A handler runs only for a module that is in the table (sched.c:892, 823), and
\* a module removes another only from the loader's own handler.
HandlerRegistered ==
  /\ run # Idle => run.pid \in mods
  /\ fin # NULL => fin \in mods \ {LOADER} /\ run.pid = LOADER

\* A message waiting in the high priority queue is eventually taken by
\* mq_dequeue, whatever else modules and interrupts post.
HighPriorityServed ==
  \A h \in Hdr : (\E i \in DOMAIN q["hq"] : q["hq"][i] = h)
                  ~> ~(\E i \in DOMAIN q["hq"] : q["hq"][i] = h)
================================================================================
