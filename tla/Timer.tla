---------------------------------- MODULE Timer --------------------------------
(***************************************************************************)
(* Software timers: kernel/sos_timer.c in the cooperative build, over a    *)
(* hardware counter that counts to its interval, interrupts and starts     *)
(* again (processor/avr/timer.c).                                          *)
(*                                                                         *)
(* Timer blocks move between four lists.  The delta queue holds running    *)
(* timers, each with the ticks between it and the one in front.  The       *)
(* interrupt only adds to outstanding_ticks and asks for soft_interrupt,   *)
(* which the scheduler calls; that subtracts the ticks, dispatches a       *)
(* timeout to every timer that is due, and runs the handlers as it does,   *)
(* so that they start, stop and release timers while the lists are in use. *)
(* Realtime clocks and permanent timers are left out.                      *)
(***************************************************************************)
EXTENDS Integers, Sequences, FiniteSets, FiniteSetsExt, SequencesExt

CONSTANTS Blk,                 \* The timer blocks timer_slab can give.
          Pid, Tid,
          Watched,             \* A timer of each module, whose timeouts are timed.
          Intervals,           \* The intervals timers are started with.
          TIMER_MIN_INTERVAL,
          MAX_SLEEP_INTERVAL,
          CAP                  \* Bound on the ticks that are counted and not yet
                               \* taken off the queue.

ASSUME TimerAssumption ==
  /\ Watched \in Tid
  /\ Intervals \subseteq Nat \ {0}
  /\ TIMER_MIN_INTERVAL \in Nat \ {0} /\ MAX_SLEEP_INTERVAL \in Nat
  /\ TIMER_MIN_INTERVAL <= MAX_SLEEP_INTERVAL
  /\ CAP \in Nat

VARIABLES t,      \* The state of sos_timer.c and of the hardware.
          pc      \* "out", or in soft_interrupt: "loop" or "handler"

vars == <<t, pc>>

(***************************************************************************)
(* t.deltaq, t.pool, t.prealloc, t.periodic: the lists; t.alloc: what the  *)
(* slab has given; t.tm[b]: a block; t.out: outstanding_ticks; t.soft:     *)
(* soft_interrupt is asked for; t.cnt and t.int: counter and interval of   *)
(* the hardware; t.left[b]: the ticks until b, if it is watched, is due,   *)
(* counted by an observer, who gives up on one that is LATE ticks late;    *)
(* t.raced: the interrupt came once inside timer_set_hw_top.  A timer that *)
(* does not run keeps no delta.                                            *)
(***************************************************************************)
LATE == CAP + Max(Intervals)
Unused == [pid |-> "none", tid |-> "none", type |-> "none", ticks |-> 0, delta |-> 0]

Init ==
  /\ t = [deltaq |-> <<>>, pool |-> <<>>, prealloc |-> <<>>, periodic |-> <<>>,
          alloc |-> {}, tm |-> [b \in Blk |-> Unused],
          out |-> 0, soft |-> FALSE, cnt |-> 0, int |-> MAX_SLEEP_INTERVAL,
          left |-> [b \in Blk |-> 0], raced |-> FALSE]
  /\ pc = "out"

Running(s) == ToSet(s.deltaq) \cup ToSet(s.periodic)

\* One tick for the observer.
Elapse(s) ==
  [b \in Blk |-> IF b \in Running(s) /\ s.tm[b].tid = Watched /\ s.left[b] > -LATE
                 THEN s.left[b] - 1 ELSE s.left[b]]

\* The observer waits for n more ticks.
Await(s, b, n) ==
  [s.left EXCEPT ![b] = IF s.tm[b].tid = Watched /\ @ > -LATE THEN @ + n ELSE @]

--------------------------------------------------------------------------------
\* The interrupt may come between the reading of the counter and the critical
\* section, once in a behaviour.
Races == {FALSE, t.cnt = t.int - 1 /\ ~t.raced}

timer_set_hw_interval(c) == Max({TIMER_MIN_INTERVAL, Min({c, MAX_SLEEP_INTERVAL})})

\* The hardware is set to c ticks.  In a race the ticks of its interval are counted
\* by the interrupt and, but for one, by this call.
timer_set_hw_top(s, c, update, race) ==
  LET seen == s.cnt + (IF race THEN s.int ELSE 0)
  IN  [s EXCEPT !.out = IF update THEN @ + seen ELSE 0,
                !.soft = @ \/ race,
                !.raced = @ \/ race,
                !.cnt = 0,
                !.int = timer_set_hw_interval(c),
                !.left = IF race THEN Elapse(s) ELSE @]

\* What is left of d behind the first i - 1 timers of the queue.
Behind(s, d, i) == d - FoldLeft(LAMBDA n, b : n + s.tm[b].delta, 0, SubSeq(s.deltaq, 1, i - 1))

\* Mutant: only the ticks of past interrupts.
PassedTicks_out(s) == s.out

\* The ticks the queue will be charged with and that a new timer has not waited for.
PassedTicks(s) == s.out + s.cnt

\* A new timer is due in c ticks, before those in the queue.
NewHead(s, c, race) == timer_set_hw_top(s, c, s.deltaq # <<>>, race)

timer_delta_q_insert(s, b, new, race) ==
  LET d == s.tm[b].delta + (IF new /\ s.deltaq # <<>> THEN PassedTicks(s) ELSE 0)
      n == Len(s.deltaq)
      k == Min({i \in 1..n : Behind(s, d, i) < s.tm[s.deltaq[i]].delta} \cup {n + 1})
      set == IF new /\ k = 1 THEN NewHead(s, s.tm[b].delta, race) ELSE s
      after == IF k > n THEN set
               ELSE [set EXCEPT !.tm[s.deltaq[k]].delta = @ - Behind(s, d, k)]
  IN  [after EXCEPT !.deltaq = InsertAt(@, k, b),
                    !.tm[b].delta = Behind(s, d, k)]

timer_remove_timer(s, b) ==
  LET k == CHOOSE i \in DOMAIN s.deltaq : s.deltaq[i] = b
      given == IF k < Len(s.deltaq) /\ s.tm[b].delta > 0
               THEN [s EXCEPT !.tm[s.deltaq[k + 1]].delta = @ + s.tm[b].delta] ELSE s
  IN  [given EXCEPT !.deltaq = RemoveAt(@, k)]

NotDue(s) ==
  {i \in DOMAIN s.deltaq : s.tm[s.deltaq[i]].delta >= Behind(s, s.out, i)}

\* Mutant: the first timer that is not due keeps its delta.
LastCharged_due(s) == Min({i - 1 : i \in NotDue(s)} \cup {Len(s.deltaq)})

\* The last timer the ticks are taken off: the first that is not due.
LastCharged(s) == Min(NotDue(s) \cup {Len(s.deltaq)})

\* The ticks that wait are taken off the queue.  A timer that is due keeps by how
\* much it is late; the first that is not keeps the rest.
timer_update_delta(s) ==
  LET charged == SubSeq(s.deltaq, 1, LastCharged(s))
      late(b) == Behind(s, s.out, CHOOSE i \in DOMAIN charged : charged[i] = b)
  IN  [s EXCEPT !.out = 0,
                !.tm = [b \in Blk |-> IF b \in ToSet(charged)
                                      THEN [@[b] EXCEPT !.delta = @ - late(b)] ELSE @[b]]]

\* The blocks of list that belong to timer i of p, in order.
Of(s, list, p, i) == SelectSeq(list, LAMBDA b : s.tm[b].pid = p /\ s.tm[b].tid = i)

\* Mutant: the block stays in periodic_pool.
Drop_periodic(s, b) == [s EXCEPT !.pool = Remove(@, b), !.prealloc = Remove(@, b)]

Drop(s, b) == [s EXCEPT !.pool = Remove(@, b), !.prealloc = Remove(@, b),
                        !.periodic = Remove(@, b)]

Detach(s, b) == IF b \in ToSet(s.deltaq) THEN timer_remove_timer(s, b) ELSE Drop(s, b)

\* list_insert_tail(&timer_pool, b)
Pooled(s, b) == [s EXCEPT !.pool = Append(@, b), !.tm[b].delta = 0, !.left[b] = 0]

ker_slab_free(s, b) ==
  [s EXCEPT !.alloc = @ \ {b}, !.tm[b] = Unused, !.left[b] = 0]

Run(s, b, interval, race) ==
  LET set == [s EXCEPT !.tm[b].ticks = interval, !.tm[b].delta = interval,
                        !.left = Await([s EXCEPT !.left[b] = 0], b, interval)]
  IN  timer_delta_q_insert(set, b, TRUE, race)

--------------------------------------------------------------------------------
\* A handler calls a timer function: some module's, or that of a timeout.
Call(s) == pc \in {"out", "handler"} /\ UNCHANGED pc /\ t' = s

\* A block from the slab holds what memory held; ker_timer_restart may read ticks.
Garbage == {0, Max(Intervals)}
Fresh(p, i, type, ticks) == [pid |-> p, tid |-> i, type |-> type, ticks |-> ticks, delta |-> 0]

ker_timer_init(p, i, type) ==
  LET found == Of(t, t.periodic, p, i) \o Of(t, t.deltaq, p, i) \o Of(t, t.pool, p, i)
               \o SelectSeq(t.prealloc, LAMBDA b : t.tm[b].pid = p)
      b == Head(found)
      new == CHOOSE x \in Blk : x \notin t.alloc
  IN  \/ /\ found # <<>>
         /\ Call([Pooled(Detach(t, b), b) EXCEPT !.tm[b].tid = i, !.tm[b].type = type])
      \/ /\ found = <<>> /\ t.alloc # Blk
         /\ \E ticks \in Garbage :
              Call([t EXCEPT !.alloc = @ \cup {new}, !.pool = Append(@, new),
                             !.tm[new] = Fresh(p, i, type, ticks)])

ker_timer_start(p, i, interval, race) ==
  LET found == Of(t, t.pool, p, i)
      b == Head(found)
  IN  found # <<>> /\ t.out <= CAP /\ Call(Run(Drop(t, b), b, interval, race))

\* The timer that ker_timer_stop stops, if any.
Stoppable(p, i) == Of(t, t.periodic, p, i) \o Of(t, t.deltaq, p, i)

ker_timer_stop(p, i) ==
  LET b == Head(Stoppable(p, i))
  IN  Stoppable(p, i) # <<>> /\ Call(Pooled(Detach(t, b), b))

ker_timer_stop_and_release(p, i) ==
  LET found == Of(t, t.pool, p, i) \o Stoppable(p, i)
      b == Head(found)
  IN  found # <<>> /\ Call(ker_slab_free(Detach(t, b), b))

\* An interval of 0 asks for the last one.
ker_timer_restart(p, i, interval, race) ==
  LET found == Stoppable(p, i) \o Of(t, t.pool, p, i)
      b == Head(found)
      ticks == IF interval = 0 THEN t.tm[b].ticks ELSE interval
  IN  /\ found # <<>> /\ t.out <= CAP
      /\ Call(IF ticks < TIMER_MIN_INTERVAL THEN Pooled(Detach(t, b), b)
              ELSE Run(Detach(t, b), b, ticks, race))

BlocksOf(p) == {b \in t.alloc : t.tm[b].pid = p}

\* A module that is registered gets its first timer block.
timer_preallocate(p) ==
  LET new == CHOOSE x \in Blk : x \notin t.alloc
  IN  /\ BlocksOf(p) = {} /\ t.alloc # Blk
      /\ \E ticks \in Garbage :
           Call([t EXCEPT !.alloc = @ \cup {new}, !.prealloc = Append(@, new),
                          !.tm[new] = Fresh(p, "none", "none", ticks)])

timer_remove_all(p) ==
  LET remove(s, b) == IF t.tm[b].pid = p THEN ker_slab_free(Detach(s, b), b) ELSE s
  IN  /\ BlocksOf(p) # {}
      /\ Call(FoldLeft(remove, t, t.deltaq \o t.pool \o t.prealloc \o t.periodic))

--------------------------------------------------------------------------------
\* The counter counts, and at its interval timer_interrupt runs.
timer_interrupt ==
  LET match == t.cnt + 1 = t.int
  IN  /\ t.soft => t.out + t.int <= CAP
      /\ UNCHANGED pc
      /\ t' = [t EXCEPT !.cnt = IF match THEN 0 ELSE @ + 1,
                        !.out = IF match THEN @ + t.int ELSE @,
                        !.soft = @ \/ match,
                        !.left = Elapse(t)]

\* soft_interrupt, called by handle_callback.
soft_interrupt ==
  /\ pc = "out" /\ t.soft
  /\ pc' = "loop"
  /\ \E s \in {timer_update_delta(t)} : t' = [s EXCEPT !.soft = FALSE]

DueHead(s) == s.deltaq # <<>> /\ s.tm[Head(s.deltaq)].delta <= 0

\* The ticks, in whole intervals, that make the delta of a due timer positive again.
Periods(m) == m.ticks * (1 + (-m.delta) \div m.ticks)

\* A timer that is due goes to its pool, and its module is told.
soft_dispatch ==
  LET b == Head(t.deltaq)
      s == [t EXCEPT !.deltaq = Tail(@)]
  IN  /\ pc = "loop" /\ DueHead(t)
      /\ pc' = "handler"
      /\ t' = IF t.tm[b].type = "one shot" THEN Pooled(s, b)
              ELSE [s EXCEPT !.periodic = Append(@, b),
                             !.tm[b].delta = @ + Periods(t.tm[b]),
                             !.left = Await(t, b, Periods(t.tm[b]))]

handler_return ==
  /\ pc = "handler"
  /\ pc' = "loop"
  /\ UNCHANGED t

\* No timer is due: the periodic ones are queued again, and the hardware is set.
soft_finish(race) ==
  LET put(s, b) == timer_delta_q_insert([s EXCEPT !.periodic = Tail(@)], b, FALSE, race)
  IN  /\ pc = "loop" /\ ~DueHead(t)
      /\ pc' = "out"
      /\ \E s \in {FoldLeft(put, t, t.periodic)} :
           LET hw_cnt == s.out - s.cnt
               next == s.tm[Head(s.deltaq)].delta - hw_cnt
           IN  t' = IF s.deltaq = <<>>
                    THEN timer_set_hw_top(s, MAX_SLEEP_INTERVAL, FALSE, FALSE)
                    ELSE IF next > 0 THEN timer_set_hw_top(s, next, TRUE, race)
                    ELSE [s EXCEPT !.soft = TRUE]

Api(p, i) ==
  \/ \E type \in {"repeat", "one shot"} : ker_timer_init(p, i, type)
  \/ \E n \in Intervals, race \in Races : ker_timer_start(p, i, n, race)
  \/ ker_timer_stop(p, i)
  \/ ker_timer_stop_and_release(p, i)
  \/ \E n \in {0} \cup Intervals, race \in Races : ker_timer_restart(p, i, n, race)

Soft == soft_interrupt \/ soft_dispatch \/ handler_return
        \/ \E race \in Races : soft_finish(race)

Next ==
  \/ \E p \in Pid : \/ \E i \in Tid : Api(p, i)
                    \/ timer_preallocate(p)
                    \/ timer_remove_all(p)
  \/ timer_interrupt
  \/ Soft

Spec == Init /\ [][Next]_vars

\* The clock ticks; the scheduler loop calls soft_interrupt, which returns when the
\* handlers it calls do.
FairSpec == Spec /\ WF_vars(timer_interrupt) /\ WF_vars(Soft)

--------------------------------------------------------------------------------
TypeOK ==
  /\ pc \in {"out", "loop", "handler"}
  /\ t.alloc \subseteq Blk
  /\ t.out \in Nat /\ t.cnt \in 0..(t.int - 1)
  /\ t.int \in TIMER_MIN_INTERVAL..MAX_SLEEP_INTERVAL
  /\ \A b \in Blk : t.tm[b].delta \in Int /\ t.left[b] >= -LATE

Lists == t.deltaq \o t.pool \o t.prealloc \o t.periodic

\* Every block the slab has given is in one place of one list, and no timer of a
\* module has two: no block is lost, and none is in two lists, when a handler stops,
\* restarts or releases timers while soft_interrupt is taking them from the queue.
OnePlace ==
  /\ ToSet(Lists) = t.alloc /\ Len(Lists) = Cardinality(t.alloc)
  /\ \A a, b \in t.alloc : /\ t.tm[a].tid # "none"
                            /\ t.tm[a].pid = t.tm[b].pid /\ t.tm[a].tid = t.tm[b].tid
                            => a = b

\* OnePlace, and the counters stay within the range of the hardware interval.
TimersSound == TypeOK /\ OnePlace

\* A timeout is dispatched no earlier than its interval after the timer was started,
\* and for a periodic timer after the last, as long as no interrupt has come between
\* the reading of the counter and the critical section of timer_set_hw_top.
NeverEarly == pc = "loop" /\ DueHead(t) /\ ~t.raced => t.left[Head(t.deltaq)] <= 0

\* "The timeout interval specified in ticks" (sys_module.h:280): a timeout is never
\* dispatched before its interval is over.
FullInterval == pc = "loop" /\ DueHead(t) => t.left[Head(t.deltaq)] <= 0

\* A timer that is put in the queue leaves it, to be dispatched or because it is
\* stopped, unless it is restarted again and again, which gives it its interval anew:
\* no start, stop or release of other timers, and no setting of the hardware that
\* comes with it, puts it off for ever.
Fires ==
  \A p \in Pid :
    \/ []<>(Of(t, t.deltaq, p, Watched) = <<>>)
    \/ []<><<\E b \in ToSet(t.deltaq) \cap ToSet(t'.deltaq) : t.left[b] < t'.left[b]>>_vars
================================================================================
