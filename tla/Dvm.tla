---------------------------------- MODULE Dvm ----------------------------------
(***************************************************************************)
(* The core of the virtual machine, modules/VM/coreVM: the scheduler of    *)
(* script contexts (DVMScheduler.c), the locks on shared variables         *)
(* (DVMConcurrencyMngr.c), the queues (DVMqueue.c), the event handlers     *)
(* (DVMEventHandler.c) and the waiting for sensor data (DVMBasiclib.c).    *)
(* A handler of the module runs to completion, so each is one action; what *)
(* a script computes is abstracted to how its slice ends.                  *)
(***************************************************************************)
EXTENDS Integers, Sequences, SequencesExt

CONSTANTS LAST_CAPSULE, \* Capsules are 0..LAST_CAPSULE; 0 is DVM_CAPSULE_REBOOT.
          Lock,         \* One for each shared variable or buffer.
          ScriptLocks,  \* ScriptLocks[c]: the locks of what the script of c uses.
          NeedsLib,     \* Capsules whose script needs the extension library.
          Timed,        \* Capsules that a timer starts.
          Trigger,      \* Trigger[c]: the message that starts c, if none is.
          MAXTASKS,     \* OP_NOP is executed with fewer MSG_RUN_TASKs queued only.
          Rough         \* Subset of the four conditions below.

Capsule == 0..LAST_CAPSULE
REBOOT == 0
NoCtx == -1

\* overrun: the timer of a context expires while it holds locks or awaits data.
\* awaited: the machine reboots while sensor data is awaited.
\* active: a library comes or goes while contexts are active.
\* noheader: a MSG_RUN_TASK cannot be posted.
ASSUME DvmAssumption ==
  /\ LAST_CAPSULE \in Nat
  /\ ScriptLocks \in [Capsule -> SUBSET Lock]
  /\ NeedsLib \subseteq Capsule /\ Timed \subseteq Capsule
  /\ MAXTASKS \in Nat \ {0}
  /\ Rough \subseteq {"overrun", "awaited", "active", "noheader"}

\* The state of the module, a record:
\*   st[c], held[c], acquire[c]  state, heldSet and acquireSet of context c
\*   in[c]                       the queue that context->queue names, or "none"
\*   start[c]                    pc is 0
\*   q.run, q.ready, q.wait      runQueue, readyQueue and getDataWaitQueue
\*   holder[l]                   locks[l].holder
\*   running, taskRunning, halted, inError   of the scheduler
\*   busy, executing             of the basic library
\*   loaded, lib                 capsules with a state block; is the library there
\*   tasks, posts                queued MSG_RUN_TASKs; will a post succeed
VARIABLE dvm

State == {"HALT", "WAITING", "READY", "RUN", "BLOCKED"}
QueueName == {"run", "ready", "wait"}

dvmInit ==
  dvm = [st |-> [c \in Capsule |-> "HALT"], held |-> [c \in Capsule |-> {}],
         acquire |-> [c \in Capsule |-> {}], in |-> [c \in Capsule |-> "none"],
         start |-> [c \in Capsule |-> TRUE], q |-> [n \in QueueName |-> <<>>],
         holder |-> [l \in Lock |-> NoCtx], running |-> NoCtx, taskRunning |-> FALSE,
         halted |-> FALSE, inError |-> FALSE, busy |-> FALSE, executing |-> NoCtx,
         loaded |-> {}, lib |-> FALSE, tasks |-> 0, posts |-> TRUE]

--------------------------------------------------------------------------------
\* DVMqueue.c.  New elements enter behind the ones that are there.

\* Mutant: a new element is the next to leave.
queue_enqueue_front(s, n, c) ==
  IF s.in[c] # "none" THEN s
  ELSE [s EXCEPT !.in[c] = n, !.q[n] = <<c>> \o @]

queue_enqueue(s, n, c) ==
  IF s.in[c] # "none" THEN s
  ELSE [s EXCEPT !.in[c] = n, !.q[n] = Append(@, c)]

queue_dequeue(s, n) ==
  [s EXCEPT !.in[Head(s.q[n])] = "none", !.q[n] = Tail(@)]

\* An element that queue_init has cut off is not in the list any more.
queue_remove(s, c) ==
  IF s.in[c] = "none" THEN s
  ELSE [s EXCEPT !.in[c] = "none", !.q[s.in[c]] = SelectSeq(@, LAMBDA d : d # c)]

--------------------------------------------------------------------------------
\* sys_post_value of MSG_RUN_TASK.
PostTask(s) == IF s.posts THEN [s EXCEPT !.tasks = @ + 1] ELSE s

\* Mutant: the flag is set without the message.
scheduler_submit_quiet(s, c) ==
  [queue_enqueue([s EXCEPT !.st[c] = "READY"], "run", c) EXCEPT !.taskRunning = TRUE]

\* scheduler_submit and executeContext.
scheduler_submit(s, c) ==
  LET t == queue_enqueue([s EXCEPT !.st[c] = "READY"], "run", c)
  IN  IF s.taskRunning THEN t ELSE PostTask([t EXCEPT !.taskRunning = TRUE])

--------------------------------------------------------------------------------
\* DVMConcurrencyMngr.c.

\* usedVars[c]: analyzeVars reads it off the script after every change of scripts or
\* libraries, unless the library is missing.
usedVars(s, c) == IF c \in NeedsLib /\ ~s.lib THEN {} ELSE ScriptLocks[c]

\* Mutant: a context is stopped by the first lock only.
isRunnable_any(s, c) == s.acquire[c] = {} \/ \E l \in s.acquire[c] : s.holder[l] = NoCtx

isRunnable(s, c) == \A l \in s.acquire[c] : s.holder[l] = NoCtx

obtainLocks(s, c) ==
  [s EXCEPT !.holder = [l \in Lock |-> IF l \in s.acquire[c] THEN c ELSE @[l]],
            !.held[c] = @ \cup s.acquire[c],
            !.acquire[c] = {}]

\* unlock frees a lock whoever holds it.
releaseAllLocks(s, c) ==
  [s EXCEPT !.holder = [l \in Lock |-> IF l \in s.held[c] THEN NoCtx ELSE @[l]],
            !.held[c] = {}]

resumeContext(s, c) ==
  LET w == [s EXCEPT !.st[c] = "WAITING"]
  IN  IF isRunnable(w, c)
      THEN scheduler_submit(obtainLocks(w, c), c)
      ELSE queue_enqueue(w, "ready", c)

\* Every context that was in readyQueue is tried once; those that cannot run go back.
\* The first of them is tried a second time, which ends the loop and leaves it last.
\* (Nothing ever sets a bit of releaseSet, so releaseLocks releases nothing.)
yieldContext(s) ==
  LET tried == FoldLeft(LAMBDA t, c : resumeContext(queue_dequeue(t, "ready"), c),
                        s, s.q.ready)
  IN  IF tried.q.ready = <<>> THEN tried
      ELSE [tried EXCEPT !.q.ready = Append(Tail(@), Head(@))]

\* Mutant: the locks are released and nobody is looked for who waits for them.
haltContext_alone(s, c) ==
  [queue_remove(releaseAllLocks(s, c), c) EXCEPT !.st[c] = "HALT"]

haltContext(s, c) ==
  LET y == yieldContext(releaseAllLocks(s, c))
  IN  [IF y.st[c] # "HALT" THEN queue_remove(y, c) ELSE y EXCEPT !.st[c] = "HALT"]

initializeContext(s, c) ==
  [queue_remove(s, c) EXCEPT !.held[c] = {}, !.acquire[c] = usedVars(s, c),
                             !.st[c] = "HALT", !.start[c] = TRUE]

--------------------------------------------------------------------------------
\* tryget of DVMBasiclib.c: the sensor accepts the request or refuses it.
tryget(s, c, accepts) ==
  IF accepts
  THEN yieldContext([s EXCEPT !.busy = TRUE, !.executing = c, !.st[c] = "BLOCKED"])
  ELSE queue_enqueue([s EXCEPT !.st[c] = "WAITING"], "wait", c)

\* How a slice of DVM_CPU_SLICE instructions can end: it is used up, OP_HALT,
\* OP_GET_DATA (accepted or refused), OP_NOP, or an error on the operand stack.
Outcome == {"slice", "halt", "get", "refused", "nop", "error"}

\* execute for context c, up to the instruction that ends its slice.  error leaves
\* the locks of the context with it; OP_NOP posts MOD_MSG_START, which is the number
\* of MSG_RUN_TASK, and nothing resumes the context.
execute(s, c, out) ==
  LET e == [s EXCEPT !.start[c] = FALSE]
  IN  CASE out = "slice" -> e
        [] out = "halt" -> [haltContext(e, c) EXCEPT !.start[c] = TRUE]
        [] out \in {"get", "refused"} ->
             IF e.busy THEN queue_enqueue([e EXCEPT !.st[c] = "WAITING"], "wait", c)
             ELSE tryget(e, c, out = "get")
        [] out = "nop" -> yieldContext(PostTask([e EXCEPT !.st[c] = "BLOCKED"]))
        [] out = "error" -> [e EXCEPT !.inError = TRUE, !.st[c] = "HALT"]

\* The running context does not run any more: the CPU is released.
ReleaseCPU(s) ==
  [PostTask([s EXCEPT !.running = NoCtx]) EXCEPT !.taskRunning = @ /\ s.posts]

\* The slice of the running context has expired: it goes to the end of the queue.
Expire(s) ==
  IF s.running # NoCtx /\ s.st[s.running] = "RUN"
  THEN [queue_enqueue([s EXCEPT !.st[s.running] = "READY"], "run", s.running)
          EXCEPT !.running = NoCtx]
  ELSE s

\* The next context, unless the machine is in its error state.
Dispatch(s) ==
  IF s.running # NoCtx \/ s.inError \/ s.q.run = <<>> THEN s
  ELSE LET c == Head(s.q.run)
       IN  [queue_dequeue(s, "run") EXCEPT !.running = c, !.st[c] = "RUN"]

--------------------------------------------------------------------------------
\* The handlers.  A handler begins with headers for its posts, or without.
Begun == {[dvm EXCEPT !.posts = p] : p \in IF "noheader" \in Rough THEN BOOLEAN ELSE {TRUE}}

\* computeInstruction for the running context: the slice, and MSG_RUN_TASK for the
\* next one, the result of posting which is not looked at.  An instruction that stops
\* the context may be the last of its slice; the CPU is then released in the next turn.
computeInstruction(s) ==
  IF s.start[s.running] /\ s.running \in NeedsLib /\ ~s.lib
  THEN dvm' = PostTask([haltContext(s, s.running) EXCEPT !.running = NoCtx])
  ELSE \E out \in Outcome :
         /\ out = "nop" => s.tasks < MAXTASKS
         /\ \E e \in {execute(s, s.running, out)} :
              \/ dvm' = PostTask(e)
              \/ out # "slice" /\ dvm' = ReleaseCPU(e)

\* opdone.  Between handlers, a running context in state RUN has used its slice up.
opdone(s) ==
  IF s.halted THEN dvm' = [s EXCEPT !.taskRunning = FALSE]
  ELSE \E d \in {Dispatch(Expire(s))} :
         CASE d.running = NoCtx -> dvm' = [d EXCEPT !.taskRunning = FALSE]
           [] d.running # NoCtx /\ d.st[d.running] # "RUN" -> dvm' = ReleaseCPU(d)
           [] OTHER -> computeInstruction(d)

\* MSG_RUN_TASK.
dvmsched_run_task ==
  /\ dvm.tasks > 0
  /\ \E s \in Begun : opdone([s EXCEPT !.tasks = @ - 1])

\* MSG_HALT.
dvmsched_halt == dvm' = [dvm EXCEPT !.halted = TRUE]

\* MSG_RESUME.
dvmsched_resume ==
  \E s \in Begun :
    IF s.taskRunning THEN dvm' = [s EXCEPT !.halted = FALSE]
    ELSE opdone([s EXCEPT !.halted = FALSE, !.taskRunning = TRUE])

Start(s, c) == resumeContext(initializeContext(s, c), c)

\* The messages that scripts wait for: every halted context of that trigger starts.
event_handler_default(e) ==
  \E s \in Begun :
    dvm' = FoldLeft(LAMBDA t, c : IF c \in t.loaded \ Timed /\ Trigger[c] = e /\ t.st[c] = "HALT"
                                  THEN Start(t, c) ELSE t,
                    s, [i \in 1..LAST_CAPSULE + 1 |-> i - 1])

\* MSG_TIMER_TIMEOUT: the context starts again, in whatever state it is.
event_handler_timeout(c) ==
  /\ c \in Timed \cap dvm.loaded
  /\ "overrun" \in Rough \/ (dvm.held[c] = {} /\ dvm.executing # c)
  /\ \E s \in Begun : dvm' = Start(s, c)

\* MSG_DATA_READY: the context that asked goes on, and the next one asks.  Its operand
\* stack may overflow.
basic_library_data_ready ==
  /\ dvm.busy
  /\ \E s \in Begun, overflow, accepts \in BOOLEAN :
       LET idle == [s EXCEPT !.busy = FALSE, !.executing = NoCtx, !.inError = @ \/ overflow]
           woken == IF s.executing = NoCtx THEN [idle EXCEPT !.inError = s.inError]
                    ELSE resumeContext(idle, s.executing)
       IN  dvm' = IF woken.q.wait = <<>> THEN woken
                  ELSE tryget(queue_dequeue(woken, "wait"), Head(woken.q.wait), accepts)

\* What queue_init and locks_reset do: context->queue and heldSet stay as they are.
engineReboot(s) ==
  [s EXCEPT !.running = NoCtx, !.q = [n \in QueueName |-> <<>>],
            !.holder = [l \in Lock |-> NoCtx], !.inError = FALSE, !.halted = FALSE]

rebootContexts(s) ==
  FoldLeft(LAMBDA t, c : IF c \in t.loaded /\ t.st[c] # "HALT" THEN haltContext(t, c) ELSE t,
           s, [i \in 1..LAST_CAPSULE + 1 |-> i - 1])

\* The state block of a capsule, a new one or the one it has, is cleared.  (Without
\* memory for a new one the handler returns and nothing has changed.)
mem_allocate(s, c) == [s EXCEPT !.loaded = @ \cup {c}, !.in[c] = "none"]

\* Whatever script arrived, the machine reboots and the reboot script is started.
initEventHandler(s, c) ==
  LET booted == rebootContexts(engineReboot(initializeContext(s, c)))
  IN  IF REBOOT \in booted.loaded THEN Start(booted, REBOOT) ELSE booted

MayReboot == "awaited" \in Rough \/ dvm.executing = NoCtx

\* MSG_LOADER_DATA_AVAILABLE: the script of c is there, for the first time or again.
resmanager_loader_data_handler(c) ==
  /\ MayReboot
  /\ \E s \in Begun : dvm' = initEventHandler(mem_allocate(s, c), c)

\* MSG_ADD_LIBRARY and MSG_REMOVE_LIBRARY: a reboot without rebootContexts.
dvmsched_change_lib ==
  /\ MayReboot
  /\ "active" \in Rough \/ \A c \in Capsule : dvm.st[c] = "HALT"
  /\ dvm' = [engineReboot(dvm) EXCEPT !.lib = ~@]

dvmNext ==
  \/ dvmsched_run_task \/ dvmsched_halt \/ dvmsched_resume
  \/ \E e \in {Trigger[c] : c \in Capsule} : event_handler_default(e)
  \/ \E c \in Capsule : event_handler_timeout(c)
  \/ basic_library_data_ready
  \/ \E c \in Capsule : resmanager_loader_data_handler(c)
  \/ dvmsched_change_lib

\* The scheduler delivers MSG_RUN_TASK.
dvmSpec == dvmInit /\ [][dvmNext]_dvm /\ WF_dvm(dvmsched_run_task)

--------------------------------------------------------------------------------
\* A context that got past readyQueue and was not halted.
Active(c) == dvm.st[c] # "HALT" /\ dvm.in[c] # "ready"

\* Scripts exclude each other from their shared variables: a context that may go on
\* after its first instruction has the locks of all its script uses, recorded on both
\* sides; and unless a script has failed, a lock is never left with a context that
\* does not know of it or has stopped.
LocksSound ==
  /\ \A c \in Capsule : Active(c) =>
       /\ dvm.start[c] \/ ScriptLocks[c] \subseteq dvm.held[c]
       /\ \A l \in dvm.held[c] : dvm.holder[l] = c
  /\ ~dvm.inError => \A l \in Lock : dvm.holder[l] # NoCtx =>
                       Active(dvm.holder[l]) /\ l \in dvm.held[dvm.holder[l]]

\* A context is in the queue its state says, once, although queues are thrown away in
\* a reboot and contexts are restarted in any state.  Whoever waits for locks waits
\* for one that is taken: no context is left behind that could run.
ContextsSound ==
  /\ dvm.st \in [Capsule -> State] /\ dvm.in \in [Capsule -> QueueName \cup {"none"}]
  /\ {dvm.running, dvm.executing} \subseteq Capsule \cup {NoCtx}
  /\ \A n \in QueueName :
       /\ IsInjective(dvm.q[n])
       /\ \A c \in Capsule : c \in ToSet(dvm.q[n]) <=> dvm.in[c] = n
  /\ \A c \in Capsule :
       /\ dvm.st[c] = "READY" <=> dvm.in[c] = "run"
       /\ dvm.st[c] = "WAITING" <=> dvm.in[c] \in {"ready", "wait"}
       /\ dvm.st[c] = "RUN" => dvm.running = c
       /\ dvm.in[c] = "ready" => ~isRunnable(dvm, c)

\* The machine does not stall: taskRunning is backed by a MSG_RUN_TASK that is queued,
\* and it is set whenever a context could run, however MSG_HALT, MSG_RESUME, reboots
\* and submissions follow each other.
TaskPosted ==
  /\ dvm.taskRunning => dvm.tasks > 0
  /\ ~dvm.halted /\ ~dvm.inError /\ (dvm.q.run # <<>> \/ dvm.running # NoCtx)
       => dvm.taskRunning

\* A context that is ready gets its turn, unless the machine is halted or has failed;
\* for contexts that no timer puts to the end of the queue again.
ContextServed ==
  \A c \in Capsule \ Timed :
    dvm.st[c] = "READY" ~> (dvm.st[c] # "READY" \/ dvm.halted \/ dvm.inError)
================================================================================
