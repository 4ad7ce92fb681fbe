-------------------------------- MODULE Fetcher --------------------------------
(***************************************************************************)
(* The module fetcher of one node, kernel/sos_module_fetcher.c, as         *)
(* operators on the record of the node's state:                            *)
(*   fst    the fetches, the first one under way (fst, fst->next, ...)     *)
(*   cam    cam[k]: the content address record shared under key k          *)
(*   code   code[h]: what code memory h holds, fragment by fragment        *)
(*   timer  whether FETCHER_REQUEST_TID is running                         *)
(*   tmo    whether its MSG_TIMER_TIMEOUT is in the scheduler's queue      *)
(*   retry  no_mem_retry                                                   *)
(*   done   the MSG_FETCHER_DONE messages in the scheduler's queue         *)
(*   send   send_state.map, what a neighbour asked for                     *)
(*   inq    send_state.num_msg_in_queue                                    *)
(*   fail   what can run out: "mem" memory, "post" message headers         *)
(*   bad    what went wrong so far that C does not survive: "null" a NULL  *)
(*          pointer was followed, "freed" a record was kept that is freed  *)
(* Code memory is kernel/codemem.c at its interface; CodeMem.tla has the   *)
(* pages and the cache behind it.                                          *)
(***************************************************************************)
EXTENDS Naturals, Sequences, FiniteSets, SequencesExt

CONSTANTS Key,          \* Keys of the loader's entries, numbers in their order.
          ModuleKey,    \* Those that are modules; the others are data.
          MAXFRAG,      \* Fragments of the largest entry.
          MAXVER,       \* Versions are 1..MAXVER.
          Handle,       \* Code memories, numbers.
          MAX_RETX,     \* FETCHER_REQUEST_MAX_RETX
          MAX_IN_QUEUE  \* FETCHER_MAX_MSG_IN_QUEUE

ASSUME FetcherAssumption ==
  /\ Key \subseteq Nat /\ ModuleKey \subseteq Key
  /\ {MAXFRAG, MAXVER, MAX_RETX, MAX_IN_QUEUE} \subseteq Nat
  /\ Handle \subseteq Nat

Frag == 0..(MAXFRAG - 1)
Frags(size) == 0..(size - 1)
NoCam == [cm |-> 0, status |-> "none", ver |-> 0, size |-> 0]
NoMap == [key |-> 0, map |-> {}]
FreeCode == <<>>
Garbage == 0             \* What was never written through the handle.

Fetch == [key : Key, need : SUBSET Frag, retx : 0..(MAX_RETX + 1)]
Cam == [cm : Handle, status : {"started", "done", "queued"}, ver : 0..MAXVER,
        size : 1..MAXFRAG] \cup {NoCam}

Fst(s) == Head(s.fst)
HasCam(s, k) == s.cam[k] # NoCam
Content(s, k) == s.code[s.cam[k].cm]
Wrong(s, what) == [s EXCEPT !.bad = @ \cup {what}]
SetStatus(s, k, v) == IF HasCam(s, k) THEN [s EXCEPT !.cam[k].status = v]
                      ELSE Wrong(s, "null")

\* A fetch is put at the end of the list; the first one starts the timer.
Enqueue(s, f) ==
  IF s.fst = <<>>
  THEN [SetStatus(s, f.key, "started") EXCEPT !.fst = <<f>>, !.timer = TRUE]
  ELSE [SetStatus(s, f.key, "queued") EXCEPT !.fst = Append(@, f)]

fetcher_request(s, k, size) ==
  Enqueue(s, [key |-> k, need |-> Frags(size), retx |-> 0])

\* fetcher_restart of a fetch that failed: with what is still missing.
fetcher_restart(s, f) == Enqueue(s, [f EXCEPT !.retx = 0])

\* Mutant: the next fetch waits for a timer that nobody starts.
start_new_fetch_idle(s) ==
  LET t == [s EXCEPT !.fst = Tail(@), !.timer = FALSE]
  IN  IF t.fst = <<>> THEN t ELSE SetStatus(t, Fst(t).key, "started")

start_new_fetch(s) ==
  LET t == [s EXCEPT !.fst = Tail(@)]
  IN  IF t.fst = <<>> THEN t
      ELSE [SetStatus(t, Fst(t).key, "started") EXCEPT !.timer = TRUE]

free_send_state_map(s) == [s EXCEPT !.send = NoMap]

\* fetcher_cancel: a fetch under way gives way to the next one, and its data is no
\* longer sent to others; a queued one is taken off the list.
fetcher_cancel(s, k) ==
  IF s.fst = <<>> THEN s
  ELSE IF Fst(s).key = k
  THEN LET t == start_new_fetch(s)
       IN  IF t.send.key = k THEN free_send_state_map(t) ELSE t
  ELSE LET at == {i \in 2..Len(s.fst) : s.fst[i].key = k}
       IN  IF at = {} THEN s ELSE [s EXCEPT !.fst = RemoveAt(@, Min(at))]

\* send_fetcher_done: the record goes to the requester.  When no header is left
\* post_long has freed the record, and the timer is to try again with it.
send_fetcher_done(s) ==
  {[start_new_fetch(SetStatus(s, Fst(s).key, "done"))
      EXCEPT !.done = Append(@, Fst(s)), !.retry = FALSE]}
  \cup (IF "post" \in s.fail
        THEN {[Wrong(s, "freed") EXCEPT !.retry = TRUE, !.timer = TRUE]} ELSE {})

\* check_map_and_post: a fetch with nothing missing is over.
check_map_and_post(s) ==
  IF Fst(s).need # {} THEN {s}
  ELSE send_fetcher_done([s EXCEPT !.fst[1].retx = 0, !.timer = FALSE])

\* The early returns of handle_data: another key, no record, a fragment that is
\* there, or a module whose fragment 0 is not there yet.
Wanted(s, k, f) ==
  /\ Fst(s).key = k
  /\ HasCam(s, k)
  /\ f \in Fst(s).need
  /\ ~(f # 0 /\ 0 \in Fst(s).need /\ k \in ModuleKey)

\* MSG_FETCHER_FRAGMENT f of entry k, which the sender had in version v: a sender
\* of the same entry need not send it any more; with a fetch under way the timer
\* is restarted and the data written to code memory.
recv_fragment(s, k, f, v) ==
  LET heard == IF s.send.key = k THEN [s EXCEPT !.send.map = @ \ {f}] ELSE s
      t == [heard EXCEPT !.timer = TRUE, !.fst[1].retx = 0]
  IN  IF s.fst = <<>> THEN {heard}
      ELSE IF ~Wanted(t, k, f) THEN {t}
      ELSE check_map_and_post([t EXCEPT !.code[t.cam[k].cm][f] = v,
                                        !.fst[1].need = @ \ {f}])

\* FETCHER_REQUEST_TID, a one-shot timer, fires and its message is queued.
timer_fires(s) == [s EXCEPT !.timer = FALSE, !.tmo = TRUE]

\* That message is handled, perhaps after the timer was stopped or restarted: post
\* what could not be posted, or ask again for what is missing (Request), or give up
\* after MAX_RETX requests.
request_timeout(s) ==
  LET t == [s EXCEPT !.tmo = FALSE]
  IN  IF s.retry THEN IF s.fst = <<>> THEN {Wrong(t, "null")} ELSE send_fetcher_done(t)
      ELSE IF s.fst = <<>> THEN {t}
      ELSE IF Fst(s).retx < MAX_RETX
      THEN {[t EXCEPT !.fst[1].retx = @ + 1, !.timer = TRUE]}
      ELSE send_fetcher_done([t EXCEPT !.fst[1].retx = @ + 1])

Request(s) ==
  IF ~s.retry /\ s.fst # <<>> /\ Fst(s).retx < MAX_RETX
  THEN {[key |-> Fst(s).key, frag |-> f] : f \in Fst(s).need} ELSE {}

\* A request to another node is overheard: that node's answers will be, too.
overheard_request(s) ==
  IF s.fst = <<>> THEN s ELSE [s EXCEPT !.timer = TRUE, !.fst[1].retx = 0]

\* "send only those we have"
MaskMissing(s) ==
  IF s.fst # <<>> /\ s.send.key = Fst(s).key
  THEN [s EXCEPT !.send.map = @ \ Fst(s).need] ELSE s

\* MSG_FETCHER_REQUEST to this node, for the fragments w of entry k.
recv_request(s, k, w) ==
  IF s.send = NoMap
  THEN IF ~HasCam(s, k) \/ (k \in ModuleKey /\ s.fst # <<>> /\ Fst(s).key = k /\ 0 \in Fst(s).need)
       THEN s
       ELSE MaskMissing([s EXCEPT !.send = [key |-> k, map |-> w]])
  ELSE MaskMissing(IF s.send.key = k THEN [s EXCEPT !.send.map = @ \cup w] ELSE s)

\* Mutant: the messages under way are not counted.
transmit_timeout_full(s) ==
  IF ~HasCam(s, s.send.key) \/ s.send.map = {} THEN {free_send_state_map(s)}
  ELSE {[s EXCEPT !.send.map = @ \ {Min(@)}, !.inq = @ + 1]}

\* FETCHER_TRANSMIT_TID fires: send_fragment, for the first fragment of the map.
\* Without memory for the message the fragment is skipped.
transmit_timeout(s) ==
  LET f == Min(s.send.map)
      took == [s EXCEPT !.send.map = @ \ {f}]
      sent == [took EXCEPT !.inq = @ + 1]
      Freed(t) == IF t.send.map = {} THEN free_send_state_map(t) ELSE t
  IN  IF s.inq >= MAX_IN_QUEUE THEN {s}
      ELSE IF ~HasCam(s, s.send.key) \/ s.send.map = {} THEN {free_send_state_map(s)}
      ELSE {Freed(sent)} \cup (IF s.fail # {} THEN {Freed(took)} ELSE {})

senddone(s) == IF s.inq > 0 THEN [s EXCEPT !.inq = @ - 1] ELSE s
================================================================================
