------------------------------- MODULE RadioProofs -----------------------------
(***************************************************************************)
(* Proofs about two parts that interrupts drive: the CC1000 radio of two   *)
(* nodes, whatever messages they send, for any lengths, numbers of         *)
(* retries, backoffs and noise; and the loop of sched(), for any number of *)
(* interrupt sources and of messages.                                      *)
(***************************************************************************)
EXTENDS Radio, SchedLoop, TLAPS

--------------------------------------------------------------------------------
\* The radio.

\* The fields of a radio.
RadioFields ==
  {"st", "tx", "rx", "mode", "spdr", "out", "next", "busy", "pend", "msg", "pq", "ack", "retry",
   "tcnt", "rcnt", "len", "hdr", "block", "crc", "prev", "pre", "sof", "delay", "init", "samp",
   "adc", "again"}

\* The states of the three state machines.
RadioStates(r) ==
  /\ r.st \in {"idle", "pretx", "tx", "sync", "rx", "sending_ack"}
  /\ r.tx \in {"preamble", "sync", "preheader", "header", "data", "crc", "flush", "wait_for_ack",
               "read_ack", "done"}
  /\ r.rx \in {"preheader", "header", "data", "crc1", "crc2"}

\* The message in work and the queue behind it.
TxPart(r) ==
  /\ r.msg \in RadioMsg \cup {0} /\ r.pq \in Seq(RadioMsg) /\ r.retry \in 0..TX_RETRY
  /\ r.busy \in BOOLEAN /\ r.pend \in BOOLEAN
  /\ r.busy <=> r.msg # 0
  /\ r.pend <=> r.busy
  /\ r.st \in {"pretx", "tx"} => r.busy
  /\ r.pq # <<>> => r.busy
  /\ ~r.busy => r.retry = 0

\* What is sent to all needs no acknowledgement and is not waited for.
AckPart(r) ==
  r.st = "tx" =>
    /\ r.tx \in {"wait_for_ack", "read_ack"} => Dst[r.msg] # BCAST
    /\ r.tx = "done" /\ Dst[r.msg] = BCAST => r.ack

\* The block of a reception.
RxPart(r) ==
  /\ r.block \in BOOLEAN
  /\ r.block => r.st = "sending_ack" \/ (r.st = "rx" /\ r.rx \in {"data", "crc1", "crc2"})

\* The inductive invariant of one radio.
NodeOK(r) ==
  /\ DOMAIN r = RadioFields
  /\ RadioStates(r) /\ TxPart(r) /\ AckPart(r) /\ RxPart(r)

\* The message in work stays as it is.
Kept(r, q) ==
  /\ q.msg = r.msg /\ q.pq = r.pq /\ q.retry = r.retry /\ (q.st = "tx" <=> r.st = "tx")

\* The message is tried once more.
Again(r, q) ==
  /\ r.st = "tx" /\ q.st # "tx" /\ q.msg = r.msg /\ q.pq = r.pq /\ q.retry = r.retry + 1

\* The message is answered, and the next one of the queue is in work.
Over(r, q) ==
  /\ r.st = "tx" /\ q.st # "tx" /\ q.retry = 0 /\ (r.ack \/ r.retry = TX_RETRY)
  /\ q.msg = IF r.pq = <<>> THEN 0 ELSE Head(r.pq)
  /\ q.pq = IF r.pq = <<>> THEN <<>> ELSE Tail(r.pq)

\* Outside its interrupt the ADC is idle or busy.
Converting(r) == r.adc \in {"idle", "busy"}

\* What one interrupt may make of radio r.
StepOK(r, s) ==
  /\ NodeOK(s.r) /\ Converting(s.r)
  /\ \/ s.done = 0 /\ (Kept(r, s.r) \/ Again(r, s.r))
     \/ s.done = r.msg /\ Over(r, s.r)

\* A change of fields that do not matter for the message in work.
Agree(r, q) ==
  /\ DOMAIN q = RadioFields /\ q.tx = r.tx /\ q.ack = r.ack /\ q.adc = r.adc
  /\ q.msg = r.msg /\ q.pq = r.pq /\ q.retry = r.retry /\ q.busy = r.busy /\ q.pend = r.pend

\* The radio goes to another state, but not to or from a transmission.
LEMMA MoveOK ==
  ASSUME NEW r, NEW q, NodeOK(r), Agree(r, q), RadioStates(q), RxPart(q),
         q.st = "tx" <=> r.st = "tx", q.st = "pretx" => r.busy
  PROVE  NodeOK(q) /\ Kept(r, q)
BY DEF Agree, NodeOK, RadioStates, TxPart, AckPart, Kept

\* The same as a step.
LEMMA MoveStep ==
  ASSUME NEW r, NodeOK(r), Converting(r), NEW s, Agree(r, s.r), RadioStates(s.r), RxPart(s.r),
         s.r.st = "tx" <=> r.st = "tx", s.r.st = "pretx" => r.busy, s.done = 0
  PROVE  StepOK(r, s)
<1>1. NodeOK(s.r) /\ Kept(r, s.r)
  BY MoveOK
<1>. QED BY <1>1 DEF StepOK, Converting, Agree

\* A step that answers nothing.
LEMMA StepIs == ASSUME NEW q PROVE Step(q).r = q /\ Step(q).done = 0
BY DEF Step

\* The same when memory is missing.
LEMMA NoMemIs ==
  ASSUME NEW q PROVE [Step(q) EXCEPT !.nomem = TRUE].r = q /\ [Step(q) EXCEPT !.nomem = TRUE].done = 0
BY DEF Step

\* ker_adc_proc_getData touches the converter only.
LEMMA GetData ==
  ASSUME NEW r, NodeOK(r), Converting(r)
  PROVE  /\ NodeOK(getData(r)) /\ Converting(getData(r)) /\ Kept(r, getData(r))
<1>. DEFINE q == getData(r)
<1>1. /\ DOMAIN q = RadioFields /\ q.tx = r.tx /\ q.ack = r.ack /\ q.st = r.st /\ q.rx = r.rx
      /\ q.msg = r.msg /\ q.pq = r.pq /\ q.retry = r.retry /\ q.busy = r.busy /\ q.pend = r.pend
      /\ q.block = r.block /\ Converting(q)
  BY DEF getData, RadioFields, NodeOK, Converting
<1>. HIDE DEF q
<1>2. NodeOK(q) /\ Kept(r, q)
  BY <1>1 DEF NodeOK, RadioStates, TxPart, AckPart, RxPart, Kept
<1>. QED BY <1>1, <1>2 DEF q

\* getData at the end of a step.
LEMMA GetDataStep ==
  ASSUME NEW r, NEW q, NodeOK(r), Converting(r), Agree(r, q), RadioStates(q), RxPart(q),
         q.st = "tx" <=> r.st = "tx", q.st = "pretx" => r.busy
  PROVE  StepOK(r, Step(getData(q)))
<1>1. NodeOK(q) /\ Kept(r, q) /\ Converting(q)
  BY MoveOK DEF Converting, Agree
<1>. DEFINE g == getData(q)
<1>2. NodeOK(g) /\ Converting(g) /\ Kept(q, g)
  BY <1>1, GetData, Zenon
<1>. HIDE DEF g
<1>3. StepOK(r, Step(g))
  BY <1>1, <1>2, StepIs DEF Kept, StepOK
<1>. QED BY <1>3 DEF g

\* IDLE_STATE keeps the invariant.
LEMMA IdleOK ==
  ASSUME NEW r, NEW b, NodeOK(r), Converting(r), r.st = "idle", NEW s \in IdleInterrupt(r, b)
  PROVE  StepOK(r, s)
<1>. DEFINE sync == [r EXCEPT !.pre = 0, !.sof = 0, !.rcnt = 0, !.crc = <<>>, !.st = "sync"]
            pretx == [r EXCEPT !.delay = 0, !.st = "pretx", !.init = "pretx", !.samp = 0, !.pre = 0]
<1>0. DOMAIN r = RadioFields /\ r.block = FALSE
  BY DEF NodeOK, RxPart
<1>1. ASSUME NEW q, Agree(r, q), q.st \in {"idle", "sync"}, q.rx = r.rx, q.block = r.block,
             s.r = q, s.done = 0
      PROVE  StepOK(r, s)
  <2>1. RadioStates(q) /\ RxPart(q)
    BY <1>0, <1>1 DEF NodeOK, RadioStates, RxPart, Agree
  <2>. QED BY <1>1, <2>1, MoveStep
<1>2. CASE s = Step([r EXCEPT !.pre = @ + 1])
  <2>. DEFINE q == [r EXCEPT !.pre = @ + 1]
  <2>1. Agree(r, q) /\ q.st = "idle" /\ q.rx = r.rx /\ q.block = r.block
    BY <1>0 DEF Agree, RadioFields
  <2>. QED BY <1>1, <1>2, <2>1, StepIs, Zenon
<1>3. CASE s = Step([r EXCEPT !.delay = @ - 1])
  <2>. DEFINE q == [r EXCEPT !.delay = @ - 1]
  <2>1. Agree(r, q) /\ q.st = "idle" /\ q.rx = r.rx /\ q.block = r.block
    BY <1>0 DEF Agree, RadioFields
  <2>. QED BY <1>1, <1>3, <2>1, StepIs, Zenon
<1>4. CASE s = Step(r)
  <2>1. Agree(r, r)
    BY <1>0 DEF Agree
  <2>. QED BY <1>1, <1>4, <2>1, StepIs
<1>5. CASE s = Step(sync)
  <2>1. Agree(r, sync) /\ sync.st = "sync" /\ sync.rx = r.rx /\ sync.block = r.block
    BY <1>0 DEF Agree, RadioFields
  <2>. QED BY <1>1, <1>5, <2>1, StepIs, Zenon
<1>6. CASE s = Step([sync EXCEPT !.hdr = TRUE])
  <2>. DEFINE q == [sync EXCEPT !.hdr = TRUE]
  <2>1. Agree(r, q) /\ q.st = "sync" /\ q.rx = r.rx /\ q.block = r.block
    BY <1>0 DEF Agree, RadioFields
  <2>. QED BY <1>1, <1>6, <2>1, StepIs, Zenon
<1>7. CASE s = [Step([sync EXCEPT !.st = "idle"]) EXCEPT !.nomem = TRUE]
  <2>. DEFINE q == [sync EXCEPT !.st = "idle"]
  <2>1. Agree(r, q) /\ q.st = "idle" /\ q.rx = r.rx /\ q.block = r.block
    BY <1>0 DEF Agree, RadioFields
  <2>. QED BY <1>1, <1>7, <2>1, NoMemIs, Zenon
<1>8. CASE r.pend /\ s = Step(getData(pretx))
  <2>1. /\ Agree(r, pretx) /\ pretx.st = "pretx" /\ pretx.rx = r.rx /\ pretx.block = r.block
    BY <1>0 DEF Agree, RadioFields
  <2>. HIDE DEF pretx
  <2>2. RadioStates(pretx) /\ RxPart(pretx) /\ r.busy
    BY <1>0, <1>8, <2>1 DEF NodeOK, RadioStates, TxPart, RxPart, Agree
  <2>. QED BY <1>8, <2>1, <2>2, GetDataStep
<1>. HIDE DEF pretx, sync
<1>9. \/ s = Step([r EXCEPT !.pre = @ + 1]) \/ s = Step([r EXCEPT !.delay = @ - 1])
      \/ s = Step(r) \/ s = Step(sync) \/ s = Step([sync EXCEPT !.hdr = TRUE])
      \/ s = [Step([sync EXCEPT !.st = "idle"]) EXCEPT !.nomem = TRUE]
      \/ r.pend /\ s = Step(getData(pretx))
  BY Zenon DEF IdleInterrupt, pretx, sync
<1>. QED BY <1>2, <1>3, <1>4, <1>5, <1>6, <1>7, <1>8, <1>9

\* SYNC_STATE keeps it.
LEMMA SyncOK ==
  ASSUME NEW r, NEW b, NodeOK(r), Converting(r), r.st = "sync"
  PROVE  StepOK(r, Step(SyncInterrupt(r, b)))
<1>. DEFINE q == [r EXCEPT !.prev = b, !.sof = @ + 1]
            back == [r EXCEPT !.st = "idle", !.sof = @ + 1]
            rx == [q EXCEPT !.st = "rx", !.rx = "preheader", !.init = "rx"]
<1>0. DOMAIN r = RadioFields /\ r.block = FALSE
  BY DEF NodeOK, RxPart
<1>1. ASSUME NEW k, Agree(r, k), k.st \in {"idle", "sync", "rx"}, k.rx \in {r.rx, "preheader"},
             k.block = r.block
      PROVE  RadioStates(k) /\ RxPart(k) /\ StepOK(r, Step(k))
  <2>1. RadioStates(k) /\ RxPart(k)
    BY <1>0, <1>1 DEF NodeOK, RadioStates, RxPart, Agree
  <2>. QED BY <1>1, <2>1, MoveStep, StepIs
<1>2. Agree(r, r)
  BY <1>0 DEF Agree
<1>3. Agree(r, q) /\ q.st = "sync" /\ q.rx = r.rx /\ q.block = r.block
  BY <1>0 DEF Agree, RadioFields
<1>4. Agree(r, back) /\ back.st = "idle" /\ back.rx = r.rx /\ back.block = r.block
  BY <1>0 DEF Agree, RadioFields
<1>5. Agree(r, rx) /\ rx.st = "rx" /\ rx.rx = "preheader" /\ rx.block = r.block
  BY <1>0 DEF Agree, RadioFields
<1>6. SyncInterrupt(r, b) \in {r, q, back, getData(rx)}
  BY DEF SyncInterrupt
<1>. HIDE DEF q, back, rx
<1>7. StepOK(r, Step(getData(rx)))
  BY <1>1, <1>5, GetDataStep
<1>. QED BY <1>1, <1>2, <1>3, <1>4, <1>6, <1>7

\* What msg_create leaves of a step.
LEMMA WithHeaderIs ==
  ASSUME NEW q, DOMAIN q = RadioFields, NEW u, NEW s \in WithHeader([Step(q) EXCEPT !.up = u])
  PROVE  /\ s.done = 0 /\ Agree(q, s.r)
         /\ s.r.st = q.st /\ s.r.rx = q.rx /\ s.r.block = q.block
<1>. DEFINE x == [Step(q) EXCEPT !.up = u]
<1>1. x.done = 0 /\ x.r = q /\ DOMAIN x = {"r", "done", "up", "nomem"}
  BY DEF Step
<1>2. s = x \/ s = [x EXCEPT !.r.hdr = FALSE, !.nomem = TRUE]
  BY DEF WithHeader
<1>. HIDE DEF x
<1>3. CASE s = x
  BY <1>1, <1>3 DEF Agree
<1>4. CASE s = [x EXCEPT !.r.hdr = FALSE, !.nomem = TRUE]
  <2>1. s.done = 0 /\ s.r = [q EXCEPT !.hdr = FALSE]
    BY <1>1, <1>4
  <2>. QED BY <2>1 DEF Agree, RadioFields
<1>. QED BY <1>2, <1>3, <1>4

\* Header reading ends in a block, in none, or in IDLE_STATE.
LEMMA HeaderOK ==
  ASSUME NEW r, NodeOK(r), Converting(r), r.st = "rx", r.rx = "header",
         NEW q, Agree(r, q), q.st = "rx", q.rx = "header", q.block = r.block,
         NEW len, NEW s \in Header(q, len)
  PROVE  StepOK(r, s)
<1>. DEFINE none == [q EXCEPT !.rx = "crc1", !.len = 0]
            idle == [q EXCEPT !.st = "idle"]
            data == [q EXCEPT !.block = TRUE, !.rcnt = 0, !.len = len, !.rx = "data"]
<1>0. DOMAIN q = RadioFields /\ q.block = FALSE
  BY DEF NodeOK, RxPart, Agree
<1>1. Agree(r, none) /\ none.st = "rx" /\ none.rx = "crc1" /\ none.block = FALSE
  BY <1>0 DEF Agree, RadioFields
<1>2. Agree(r, idle) /\ idle.st = "idle" /\ idle.rx = "header" /\ idle.block = FALSE
  BY <1>0 DEF Agree, RadioFields
<1>3. Agree(r, data) /\ data.st = "rx" /\ data.rx = "data" /\ data.block = TRUE
  BY <1>0 DEF Agree, RadioFields
<1>4. /\ s = Step(none) \/ s = Step(idle) \/ s = Step(data)
         \/ s = [Step(idle) EXCEPT !.nomem = TRUE]
  BY Zenon DEF Header
<1>. HIDE DEF none, idle, data
<1>5. s.done = 0 /\ (s.r = none \/ s.r = idle \/ s.r = data)
  BY <1>4, StepIs, NoMemIs, Zenon
<1>6. ASSUME NEW k, Agree(r, k), k.st \in {"rx", "idle"}, k.rx \in {"header", "crc1", "data"},
             RxPart(k), s.r = k, s.done = 0
      PROVE  StepOK(r, s)
  <2>1. RadioStates(k)
    BY <1>6 DEF RadioStates, NodeOK, Agree
  <2>. QED BY <1>6, <2>1, MoveStep
<1>7. RxPart(none) /\ RxPart(idle) /\ RxPart(data)
  BY <1>1, <1>2, <1>3, Zenon DEF RxPart
<1>. QED BY <1>1, <1>2, <1>3, <1>5, <1>6, <1>7

\* RX_STATE keeps the invariant.
LEMMA RxOK ==
  ASSUME NEW n, NEW r, NEW b, NodeOK(r), Converting(r), r.st = "rx", NEW s \in RxInterrupt(n, r, b)
  PROVE  StepOK(r, s)
<1>. DEFINE q == [r EXCEPT !.rcnt = @ + 1, !.crc = Append(@, b)]
<1>0. DOMAIN r = RadioFields /\ r.rx \in {"preheader", "header", "data", "crc1", "crc2"}
  BY DEF NodeOK, RadioStates
<1>1. Agree(r, q) /\ q.st = "rx" /\ q.rx = r.rx /\ q.block = r.block
  BY <1>0 DEF Agree, RadioFields
<1>2. ASSUME Agree(r, s.r), s.r.st \in {"rx", "idle", "sending_ack"}, s.r.rx \in {"preheader", "header", "data", "crc1", "crc2"},
             RxPart(s.r), s.done = 0
      PROVE  StepOK(r, s)
  <2>1. RadioStates(s.r)
    BY <1>2 DEF RadioStates, NodeOK, Agree
  <2>. QED BY <1>2, <2>1, MoveStep
<1>3. CASE r.rx = "preheader"
  <2>. DEFINE k == [r EXCEPT !.st = IF b = Group THEN "rx" ELSE "idle", !.rx = "header"]
  <2>1. Agree(r, k) /\ k.st \in {"rx", "idle"} /\ k.rx = "header" /\ k.block = FALSE
    BY <1>0, <1>3 DEF Agree, RadioFields, NodeOK, RxPart
  <2>2. s = Step(k)
    BY <1>3 DEF RxInterrupt
  <2>. HIDE DEF k
  <2>3. s.r = k /\ s.done = 0
    BY <2>2, StepIs
  <2>. QED BY <1>2, <2>1, <2>3, Zenon DEF RxPart
<1>4. CASE r.rx = "header"
  <2>1. s = Step(q) \/ \E len \in Lengths(b) : s \in Header(q, len)
    BY <1>4 DEF RxInterrupt
  <2>. HIDE DEF q
  <2>2. CASE s = Step(q)
    BY <1>1, <1>2, <1>4, <2>2, StepIs DEF NodeOK, RxPart
  <2>3. CASE \E len \in Lengths(b) : s \in Header(q, len)
    BY <1>1, <1>4, <2>3, HeaderOK
  <2>. QED BY <2>1, <2>2, <2>3
<1>5. CASE r.rx = "data"
  <2>. DEFINE k == [q EXCEPT !.rx = "crc1"]
  <2>1. s = Step(q) \/ s = Step(k)
    BY <1>5 DEF RxInterrupt
  <2>2. Agree(r, k) /\ k.st = "rx" /\ k.rx = "crc1" /\ k.block = r.block
    BY <1>0 DEF Agree, RadioFields
  <2>. HIDE DEF q, k
  <2>3. s.done = 0 /\ (s.r = q \/ s.r = k)
    BY <2>1, StepIs
  <2>. QED BY <1>1, <1>2, <1>5, <2>2, <2>3 DEF NodeOK, RxPart
<1>6. CASE r.rx = "crc1"
  <2>. DEFINE k == [r EXCEPT !.prev = b, !.rx = "crc2"]
  <2>1. Agree(r, k) /\ k.st = "rx" /\ k.rx = "crc2" /\ k.block = r.block
    BY <1>0 DEF Agree, RadioFields
  <2>2. s = Step(k)
    BY <1>6 DEF RxInterrupt
  <2>. HIDE DEF k
  <2>3. s.r = k /\ s.done = 0
    BY <2>2, StepIs
  <2>. QED BY <1>2, <2>1, <2>3 DEF NodeOK, RxPart
<1>7. CASE r.rx = "crc2"
  <2>. DEFINE ack == [r EXCEPT !.st = "sending_ack", !.mode = "tx", !.out = Preamble, !.rcnt = 0]
              k == [r EXCEPT !.st = "idle", !.block = FALSE]
  <2>1. s = Step(ack) \/ s = Step(k) \/ s \in WithHeader([Step(k) EXCEPT !.up = Frame(r)])
    BY <1>7 DEF RxInterrupt, LastByte, Discard
  <2>2. Agree(r, ack) /\ ack.st = "sending_ack" /\ ack.rx = "crc2" /\ ack.block = r.block
    BY <1>0, <1>7 DEF Agree, RadioFields
  <2>3. Agree(r, k) /\ k.st = "idle" /\ k.rx = "crc2" /\ k.block = FALSE
    BY <1>0, <1>7 DEF Agree, RadioFields
  <2>. HIDE DEF ack, k
  <2>4. CASE s = Step(ack)
    <3>1. s.r = ack /\ s.done = 0
      BY <2>4, StepIs
    <3>. QED BY <1>2, <2>2, <3>1 DEF NodeOK, RxPart
  <2>5. CASE s = Step(k)
    <3>1. s.r = k /\ s.done = 0
      BY <2>5, StepIs
    <3>. QED BY <1>2, <2>3, <3>1, Zenon DEF RxPart
  <2>6. CASE s \in WithHeader([Step(k) EXCEPT !.up = Frame(r)])
    <3>1. Agree(k, s.r) /\ s.done = 0 /\ s.r.st = k.st /\ s.r.rx = k.rx /\ s.r.block = k.block
      BY <2>3, <2>6, WithHeaderIs DEF Agree
    <3>2. Agree(r, s.r)
      BY <2>3, <3>1 DEF Agree
    <3>. QED BY <1>2, <2>3, <3>1, <3>2, Zenon DEF RxPart
  <2>. QED BY <2>1, <2>4, <2>5, <2>6
<1>. QED BY <1>0, <1>3, <1>4, <1>5, <1>6, <1>7

\* SENDING_ACK keeps it.
LEMMA AckOK ==
  ASSUME NEW r, NodeOK(r), Converting(r), r.st = "sending_ack", NEW s \in AckInterrupt(r)
  PROVE  StepOK(r, s)
<1>. DEFINE q == [r EXCEPT !.rcnt = @ + 1]
            over == [q EXCEPT !.mode = "rx", !.st = "idle", !.block = FALSE]
            on == [q EXCEPT !.out = AckByte(q.rcnt)]
<1>0. DOMAIN r = RadioFields
  BY DEF NodeOK
<1>1. Agree(r, over) /\ over.st = "idle" /\ over.rx = r.rx /\ over.block = FALSE
  BY <1>0 DEF Agree, RadioFields
<1>2. Agree(r, on) /\ on.st = "sending_ack" /\ on.rx = r.rx /\ on.block = r.block
  BY <1>0 DEF Agree, RadioFields
<1>3. s = Step(on) \/ s \in WithHeader([Step(over) EXCEPT !.up = Frame(r)])
  BY Zenon DEF AckInterrupt
<1>. HIDE DEF q, over, on
<1>4. CASE s = Step(on)
  <2>1. s.r = on /\ s.done = 0
    BY <1>4, StepIs
  <2>2. RadioStates(on) /\ RxPart(on)
    BY <1>2 DEF NodeOK, RadioStates, RxPart, Agree
  <2>. QED BY <1>2, <2>1, <2>2, MoveStep
<1>5. CASE s \in WithHeader([Step(over) EXCEPT !.up = Frame(r)])
  <2>1. Agree(over, s.r) /\ s.done = 0 /\ s.r.st = over.st /\ s.r.rx = over.rx /\ s.r.block = over.block
    BY <1>1, <1>5, WithHeaderIs DEF Agree
  <2>2. Agree(r, s.r) /\ RadioStates(s.r) /\ RxPart(s.r)
    BY <1>1, <2>1, Zenon DEF Agree, NodeOK, RadioStates, RxPart
  <2>. QED BY <1>1, <2>1, <2>2, MoveStep
<1>. QED BY <1>3, <1>4, <1>5

\* A step within TX_STATE.
TxLike(r, q) ==
  /\ DOMAIN q = RadioFields /\ q.st = "tx" /\ q.rx = r.rx /\ q.block = r.block /\ q.adc = r.adc
  /\ q.msg = r.msg /\ q.pq = r.pq /\ q.retry = r.retry /\ q.busy = r.busy /\ q.pend = r.pend

\* A byte after which the radio is still in TX_STATE.
LEMMA TxMove ==
  ASSUME NEW r, NodeOK(r), Converting(r), r.st = "tx", NEW q, TxLike(r, q),
         \/ q.tx \in {"preamble", "sync", "preheader", "header", "data", "crc", "flush"}
         \/ q.tx \in {"wait_for_ack", "read_ack"} /\ Dst[r.msg] # BCAST
         \/ q.tx = "done" /\ (Dst[r.msg] # BCAST \/ q.ack = TRUE)
  PROVE  StepOK(r, Step(q))
<1>1. RadioStates(q) /\ TxPart(q) /\ AckPart(q)
  BY DEF NodeOK, RadioStates, TxPart, AckPart, TxLike
<1>2. RxPart(q) /\ Kept(r, q) /\ Converting(q)
  BY DEF NodeOK, RxPart, Kept, Converting, TxLike
<1>3. NodeOK(q)
  BY <1>1, <1>2 DEF NodeOK, TxLike
<1>. QED BY <1>2, <1>3, StepIs DEF StepOK

\* The radio after the end of a transmission, before ker_adc_proc_getData.
Rearmed(f, u) ==
  /\ DOMAIN u = RadioFields /\ u.st = "idle" /\ u.rx = f.rx /\ u.tx = f.tx /\ u.block = f.block
  /\ u.adc = f.adc /\ u.msg = f.msg /\ u.pq = f.pq /\ u.retry = f.retry
  /\ IF f.msg # 0 THEN u.busy = TRUE /\ u.pend = TRUE ELSE u.busy = FALSE /\ u.pend = FALSE

\* What Rearm makes of a step.
LEMMA RearmIs ==
  ASSUME NEW f, DOMAIN f = {"r", "done", "up", "nomem"}, DOMAIN f.r = RadioFields, NEW d
  PROVE  \E u : Rearmed(f.r, u) /\ Rearm(f, d).r = getData(u) /\ Rearm(f, d).done = f.done
<1>. DEFINE more == f.r.msg # 0
            w == IF more THEN d ELSE f.r.delay
            v(k) == [f.r EXCEPT !.pend = k, !.busy = k, !.mode = "rx", !.delay = w, !.st = "idle",
                                !.init = "idle"]
            u == [f EXCEPT !.r.pend = more, !.r.busy = more, !.r.mode = "rx",
                           !.r.delay = IF more THEN d ELSE @, !.r.st = "idle", !.r.init = "idle"]
<1>1. Rearm(f, d) = [u EXCEPT !.r = getData(u.r)]
  BY Zenon DEF Rearm
<1>2. u.r = v(more) /\ u.done = f.done /\ DOMAIN u = {"r", "done", "up", "nomem"}
  <2>. HIDE DEF more
  <2>. QED BY DEF RadioFields
<1>3. Rearm(f, d).r = getData(u.r) /\ Rearm(f, d).done = f.done
  <2>. HIDE DEF u
  <2>. QED BY <1>1, <1>2
<1>. HIDE DEF u
<1>4. ASSUME NEW k PROVE /\ DOMAIN v(k) = RadioFields /\ v(k).st = "idle" /\ v(k).rx = f.r.rx
                         /\ v(k).tx = f.r.tx /\ v(k).block = f.r.block /\ v(k).adc = f.r.adc
                         /\ v(k).msg = f.r.msg /\ v(k).pq = f.r.pq /\ v(k).retry = f.r.retry
                         /\ v(k).busy = k /\ v(k).pend = k
  <2>. HIDE DEF w
  <2>. QED BY DEF RadioFields
<1>. HIDE DEF v
<1>5. CASE more
  <2>1. more = TRUE
    BY <1>5
  <2>2. Rearmed(f.r, v(TRUE)) /\ u.r = v(TRUE)
    BY <1>2, <1>4, <1>5, <2>1, Zenon DEF Rearmed
  <2>. QED BY <1>3, <2>2, Zenon
<1>6. CASE ~more
  <2>1. more = FALSE
    BY <1>6
  <2>2. Rearmed(f.r, v(FALSE)) /\ u.r = v(FALSE)
    BY <1>2, <1>4, <1>6, <2>1, Zenon DEF Rearmed
  <2>. QED BY <1>3, <2>2, Zenon
<1>. QED BY <1>5, <1>6

\* TXSTATE_DONE: try again, or answer and go on with the queue.
LEMMA DoneOK ==
  ASSUME NEW old, NodeOK(old), Converting(old), old.st = "tx", old.tx = "done",
         NEW r, Agree(old, r), r.rx = old.rx, r.block = old.block, NEW d
  PROVE  StepOK(old, Rearm(Finish(r), d))
<1>. DEFINE f == Finish(r)
<1>0. /\ old.msg \in RadioMsg /\ old.msg # 0 /\ old.pq \in Seq(RadioMsg) /\ old.block = FALSE
      /\ old.retry \in 0..TX_RETRY /\ TX_RETRY \in Nat /\ RadioMsg \subseteq Nat \ {0}
      /\ DOMAIN r = RadioFields
  BY RadioAssumption DEF NodeOK, TxPart, RxPart, Agree
<1>1. CASE ~r.ack /\ Dst[r.msg] # BCAST /\ r.retry < TX_RETRY
  <2>1. f = [Step(r) EXCEPT !.r.retry = @ + 1]
    BY <1>1 DEF Finish
  <2>2. /\ DOMAIN f = {"r", "done", "up", "nomem"} /\ f.done = 0 /\ f.r = [r EXCEPT !.retry = @ + 1]
    BY <2>1 DEF Step
  <2>. HIDE DEF f
  <2>3. /\ DOMAIN f.r = RadioFields /\ f.r.msg = old.msg /\ f.r.pq = old.pq /\ f.r.tx = old.tx
        /\ f.r.rx = old.rx /\ f.r.retry = old.retry + 1 /\ f.r.block = FALSE /\ f.r.adc = old.adc
    BY <1>0, <2>2 DEF Agree, RadioFields
  <2>4. PICK u : Rearmed(f.r, u) /\ Rearm(f, d).r = getData(u) /\ Rearm(f, d).done = f.done
    BY <2>2, <2>3, RearmIs
  <2>5. old.retry + 1 \in 0..TX_RETRY
    BY <1>0, <1>1 DEF Agree
  <2>6. NodeOK(u) /\ Converting(u)
    BY <1>0, <2>3, <2>4, <2>5, ZenonT(30) DEF NodeOK, RadioStates, TxPart, AckPart, RxPart, Converting, Rearmed
  <2>7. NodeOK(getData(u)) /\ Converting(getData(u)) /\ Kept(u, getData(u))
    BY <2>6, GetData
  <2>8. Again(old, getData(u))
    BY <2>3, <2>4, <2>7 DEF Kept, Again, Rearmed
  <2>. QED BY <2>2, <2>4, <2>7, <2>8 DEF StepOK, f
<1>2. CASE ~(~r.ack /\ Dst[r.msg] # BCAST /\ r.retry < TX_RETRY)
  <2>. DEFINE m == IF r.pq = <<>> THEN 0 ELSE Head(r.pq)
              t == IF r.pq = <<>> THEN r.pq ELSE Tail(r.pq)
  <2>1. f = [Step(r) EXCEPT !.done = r.msg, !.r.retry = 0, !.r.msg = m, !.r.pq = t]
    BY <1>2 DEF Finish, Step
  <2>2. /\ DOMAIN f = {"r", "done", "up", "nomem"} /\ f.done = r.msg
        /\ f.r = [r EXCEPT !.retry = 0, !.msg = m, !.pq = t]
    BY <2>1 DEF Step
  <2>3. m \in RadioMsg \cup {0} /\ t \in Seq(RadioMsg) /\ (t # <<>> => m # 0) /\ r.pq = old.pq
    BY <1>0 DEF Agree
  <2>. HIDE DEF f, m, t
  <2>4. /\ DOMAIN f.r = RadioFields /\ f.r.msg = m /\ f.r.pq = t /\ f.r.tx = old.tx
        /\ f.r.rx = old.rx /\ f.r.retry = 0 /\ f.r.block = FALSE /\ f.r.adc = old.adc
        /\ f.done = old.msg
    BY <1>0, <2>2 DEF Agree, RadioFields
  <2>5. PICK u : Rearmed(f.r, u) /\ Rearm(f, d).r = getData(u) /\ Rearm(f, d).done = f.done
    BY <2>2, <2>4, RearmIs, ZenonT(30)
  <2>6. NodeOK(u) /\ Converting(u)
    <3>1. /\ DOMAIN u = RadioFields /\ u.st = "idle" /\ u.rx = old.rx /\ u.tx = old.tx
          /\ u.block = FALSE /\ u.adc = old.adc /\ u.msg = m /\ u.pq = t /\ u.retry = 0
      BY <2>4, <2>5, Zenon DEF Rearmed
    <3>2. IF m # 0 THEN u.busy = TRUE /\ u.pend = TRUE ELSE u.busy = FALSE /\ u.pend = FALSE
      BY <2>4, <2>5, Zenon DEF Rearmed
    <3>3. TxPart(u)
      <4>0. TX_RETRY \in Nat /\ u.retry \in 0..TX_RETRY
        BY <1>0, <3>1
      <4>1. CASE m # 0
        BY <2>3, <3>1, <3>2, <4>0, <4>1, Zenon DEF TxPart
      <4>2. CASE m = 0
        BY <2>3, <3>1, <3>2, <4>0, <4>2, Zenon DEF TxPart
      <4>. QED BY <4>1, <4>2
    <3>4. RadioStates(u) /\ AckPart(u) /\ RxPart(u) /\ Converting(u)
      BY <3>1, Zenon DEF NodeOK, RadioStates, AckPart, RxPart, Converting
    <3>. QED BY <3>1, <3>3, <3>4 DEF NodeOK
  <2>7. NodeOK(getData(u)) /\ Converting(getData(u)) /\ Kept(u, getData(u))
    BY <2>6, GetData
  <2>8. old.ack \/ old.retry = TX_RETRY
    BY <1>0, <1>2 DEF NodeOK, AckPart, Agree
  <2>9. u.msg = m /\ u.pq = t /\ u.retry = 0 /\ u.st = "idle"
    BY <2>4, <2>5 DEF Rearmed
  <2>10. Over(old, getData(u))
    BY <2>3, <2>7, <2>8, <2>9 DEF Kept, Over, m, t
  <2>. QED BY <2>4, <2>5, <2>7, <2>10 DEF StepOK, f
<1>. QED BY <1>1, <1>2

\* TX_STATE keeps the invariant.
LEMMA TxOK ==
  ASSUME NEW old, NEW b, NodeOK(old), Converting(old), old.st = "tx", NEW s \in TxInterrupt(old, b)
  PROVE  StepOK(old, s)
<1>. DEFINE r == [old EXCEPT !.out = old.next, !.tcnt = @ + 1]
            U(x, y, z) == [r EXCEPT !.next = x, !.tx = y, !.tcnt = z]
            V(x, y) == [r EXCEPT !.next = x, !.tx = y]
            W(x, y) == [r EXCEPT !.ack = x, !.tx = y]
            S(x) == [Summed(r, x) EXCEPT !.tcnt = 0, !.tx = "data"]
<1>0. /\ DOMAIN old = RadioFields
      /\ old.tx \in {"preamble", "sync", "preheader", "header", "data", "crc", "flush",
                     "wait_for_ack", "read_ack", "done"}
      /\ old.tx \in {"wait_for_ack", "read_ack"} => Dst[old.msg] # BCAST
  BY DEF NodeOK, RadioStates, AckPart
<1>1. /\ Agree(old, r) /\ TxLike(old, r) /\ r.tx = old.tx /\ r.msg = old.msg
      /\ DOMAIN r = RadioFields
  BY <1>0 DEF Agree, TxLike, RadioFields
<1>2. ASSUME NEW x, NEW y, NEW z PROVE TxLike(old, U(x, y, z)) /\ U(x, y, z).tx = y
  <2>. HIDE DEF r
  <2>. QED BY <1>1 DEF TxLike, RadioFields
<1>3. ASSUME NEW x, NEW y PROVE TxLike(old, V(x, y)) /\ V(x, y).tx = y
  <2>. HIDE DEF r
  <2>. QED BY <1>1 DEF TxLike, RadioFields
<1>4. ASSUME NEW x, NEW y PROVE TxLike(old, W(x, y)) /\ W(x, y).tx = y /\ W(x, y).ack = x
  <2>. HIDE DEF r
  <2>. QED BY <1>1 DEF TxLike, RadioFields
<1>5. ASSUME NEW x PROVE TxLike(old, Summed(r, x)) /\ Summed(r, x).tx = r.tx
                         /\ TxLike(old, ReadCrc(r)) /\ ReadCrc(r).tx = "crc"
  <2>. HIDE DEF r
  <2>. QED BY <1>1 DEF TxLike, RadioFields, Summed, ReadCrc
<1>6. ASSUME NEW x PROVE TxLike(old, S(x)) /\ S(x).tx = "data"
  <2>. HIDE DEF r
  <2>. QED BY <1>1 DEF TxLike, RadioFields, Summed
<1>13. ASSUME NEW q, TxLike(old, q), s = Step(q),
              q.tx \in {"preamble", "sync", "preheader", "header", "data", "crc", "flush"}
       PROVE  StepOK(old, s)
  BY <1>13, TxMove, Zenon
<1>14. ASSUME NEW q, TxLike(old, q), s = Step(q), q.tx = "done", Dst[old.msg] # BCAST \/ q.ack = TRUE
       PROVE  StepOK(old, s)
  BY <1>14, TxMove, Zenon
<1>7. CASE old.tx \in {"preamble", "sync", "preheader"}
  <2>1. \/ s = Step(r)
        \/ s = Step(V(Sync1, "sync"))
        \/ s = Step(U(Sync2, "preheader", -1))
        \/ s = Step(U(Group, "header", -1))
    BY <1>1, <1>7 DEF TxInterrupt
  <2>. HIDE DEF r, U, V, W, S
  <2>2. CASE s = Step(r)
    BY <1>1, <1>7, <2>2, <1>13, Zenon
  <2>3. CASE s = Step(V(Sync1, "sync"))
    BY <1>3, <2>3, <1>13, Zenon
  <2>4. CASE s = Step(U(Sync2, "preheader", -1))
    BY <1>2, <2>4, <1>13, Zenon
  <2>5. CASE s = Step(U(Group, "header", -1))
    BY <1>2, <2>5, <1>13, Zenon
  <2>. QED BY <2>1, <2>2, <2>3, <2>4, <2>5
<1>8. CASE old.tx \in {"header", "data"}
  <2>1. \/ s = Step(ReadCrc(r))
        \/ \E x : s = Step(Summed(r, x))
        \/ \E x : s = Step(S(x))
    BY <1>1, <1>8, Zenon DEF TxInterrupt
  <2>. HIDE DEF r, U, V, W, S
  <2>2. CASE s = Step(ReadCrc(r))
    BY <1>5, <2>2, <1>13, Zenon
  <2>3. ASSUME NEW x, s = Step(Summed(r, x)) PROVE StepOK(old, s)
    BY <1>1, <1>5, <1>8, <2>3, <1>13, Zenon
  <2>4. ASSUME NEW x, s = Step(S(x)) PROVE StepOK(old, s)
    BY <1>6, <2>4, <1>13, Zenon
  <2>. QED BY <2>1, <2>2, <2>3, <2>4
<1>9. CASE old.tx \in {"crc", "flush"}
  <2>1. \/ s = Step(U(CrcByte(r.crc, "hi"), "flush", 0))
        \/ s = Step(r)
        \/ Dst[old.msg] # BCAST /\ s = Step([r EXCEPT !.tcnt = 0, !.tx = "wait_for_ack"])
        \/ s = Step(W(TRUE, "done"))
    BY <1>1, <1>9, Zenon DEF TxInterrupt
  <2>. HIDE DEF r, U, V, W, S
  <2>2. CASE s = Step(U(CrcByte(r.crc, "hi"), "flush", 0))
    BY <1>2, <2>2, <1>13, Zenon
  <2>3. CASE s = Step(r)
    BY <1>1, <1>9, <2>3, <1>13, Zenon
  <2>4. CASE Dst[old.msg] # BCAST /\ s = Step([r EXCEPT !.tcnt = 0, !.tx = "wait_for_ack"])
    <3>. DEFINE k == [r EXCEPT !.tcnt = 0, !.tx = "wait_for_ack"]
    <3>1. TxLike(old, k) /\ k.tx = "wait_for_ack"
      BY <1>1 DEF TxLike, RadioFields
    <3>. HIDE DEF k
    <3>2. StepOK(old, Step(k))
      BY <2>4, <3>1, TxMove, Zenon
    <3>. QED BY <2>4, <3>2 DEF k
  <2>5. CASE s = Step(W(TRUE, "done"))
    BY <1>4, <1>14, <2>5, Zenon
  <2>. QED BY <2>1, <2>2, <2>3, <2>4, <2>5, Zenon
<1>10. CASE old.tx = "wait_for_ack"
  <2>. DEFINE q == IF r.tcnt = 1 THEN [r EXCEPT !.mode = "rx"] ELSE r
              k == [q EXCEPT !.tx = "read_ack", !.tcnt = 0, !.prev = Junk]
  <2>1. s = Step(q) \/ s = Step(k)
    BY <1>1, <1>10 DEF TxInterrupt
  <2>2. TxLike(old, q) /\ q.tx = old.tx
    <3>. HIDE DEF r
    <3>1. TxLike(old, [r EXCEPT !.mode = "rx"]) /\ [r EXCEPT !.mode = "rx"].tx = old.tx
      BY <1>1 DEF TxLike, RadioFields
    <3>. QED BY <1>1, <3>1
  <2>. HIDE DEF q
  <2>3. TxLike(old, k) /\ k.tx = "read_ack"
    BY <2>2 DEF TxLike, RadioFields
  <2>. HIDE DEF k, r, U, V, W, S
  <2>. QED BY <1>0, <1>10, <2>1, <2>2, <2>3, TxMove, Zenon
<1>11. CASE old.tx = "read_ack"
  <2>. DEFINE k == [r EXCEPT !.prev = b]
  <2>1. \/ s = Step(W(TRUE, "done"))
        \/ s = Step(W(FALSE, "done")) \/ s = Step(k)
    BY <1>1, <1>11, Zenon DEF TxInterrupt
  <2>. HIDE DEF r, U, V, W, S
  <2>2. TxLike(old, k) /\ k.tx = "read_ack"
    BY <1>1, <1>11 DEF TxLike, RadioFields
  <2>. HIDE DEF k
  <2>3. CASE s = Step(k)
    BY <1>0, <1>11, <2>2, <2>3, TxMove, Zenon
  <2>4. CASE s = Step(W(TRUE, "done"))
    BY <1>4, <1>14, <2>4, Zenon
  <2>5. CASE s = Step(W(FALSE, "done"))
    BY <1>0, <1>4, <1>11, <1>14, <2>5, Zenon
  <2>. QED BY <2>1, <2>3, <2>4, <2>5, Zenon
<1>12. CASE old.tx = "done"
  <2>1. s \in {Rearm(Finish(r), d) : d \in BACKOFF}
    BY <1>1, <1>12 DEF TxInterrupt
  <2>2. r.rx = old.rx /\ r.block = old.block
    BY <1>1 DEF TxLike
  <2>. HIDE DEF r
  <2>. QED BY <1>1, <1>12, <2>1, <2>2, DoneOK
<1>. QED BY <1>0, <1>7, <1>8, <1>9, <1>10, <1>11, <1>12

\* One SPI interrupt keeps the invariant of the radio, in every state.
LEMMA InterruptOK ==
  ASSUME NEW n, NEW old, NEW b, NodeOK(old), Converting(old),
         NEW s \in cc1k_radio_spi_interrupt(n, old, b)
  PROVE  StepOK(old, s)
<1>. DEFINE r == [old EXCEPT !.spdr = old.out]
            W(d) == [r EXCEPT !.st = "idle", !.delay = d]
<1>0. /\ DOMAIN old = RadioFields
      /\ old.st \in {"idle", "pretx", "tx", "sync", "rx", "sending_ack"}
  BY DEF NodeOK, RadioStates
<1>1. Agree(old, r) /\ r.st = old.st /\ r.rx = old.rx /\ r.block = old.block
  BY <1>0 DEF Agree, RadioFields
<1>2. ASSUME NEW d PROVE Agree(r, W(d)) /\ W(d).st = "idle" /\ W(d).rx = r.rx /\ W(d).block = r.block
  <2>. HIDE DEF r
  <2>. QED BY <1>1 DEF Agree, RadioFields
<1>3. \/ r.st = "tx" /\ s \in TxInterrupt(r, b)
      \/ r.st = "idle" /\ s \in IdleInterrupt(r, b)
      \/ r.st = "pretx" /\ (s = Step(r) \/ \E d : s = Step(W(d)))
      \/ r.st = "sync" /\ s = Step(SyncInterrupt(r, b))
      \/ r.st = "rx" /\ s \in RxInterrupt(n, r, b)
      \/ r.st = "sending_ack" /\ s \in AckInterrupt(r)
  BY <1>0, <1>1, Zenon DEF cc1k_radio_spi_interrupt
<1>. HIDE DEF r, W
<1>4. NodeOK(r) /\ Converting(r)
  BY <1>1 DEF NodeOK, RadioStates, TxPart, AckPart, RxPart, Converting, Agree
<1>5. ASSUME r.st = "pretx", s = Step(r) \/ \E d : s = Step(W(d)) PROVE StepOK(r, s)
  <2>1. CASE s = Step(r)
    <3>1. Agree(r, r) /\ RadioStates(r) /\ RxPart(r) /\ r.busy
      BY <1>4, <1>5 DEF Agree, NodeOK, TxPart
    <3>. QED BY <1>4, <2>1, <3>1, StepIs, MoveStep, SMTT(30)
  <2>2. ASSUME NEW d, s = Step(W(d)) PROVE StepOK(r, s)
    <3>1. RadioStates(W(d)) /\ RxPart(W(d))
      BY <1>2, <1>4, <1>5 DEF Agree, NodeOK, RadioStates, RxPart
    <3>. QED BY <1>2, <1>4, <1>5, <2>2, <3>1, StepIs, MoveStep
  <2>. QED BY <1>5, <2>1, <2>2
<1>6. StepOK(r, s)
  BY <1>3, <1>4, <1>5, TxOK, IdleOK, SyncOK, RxOK, AckOK
<1>. QED BY <1>1, <1>6 DEF StepOK, Kept, Again, Over, Agree

\* What the callback of a conversion may make of a radio: it starts a transmission, or
\* leaves the message alone.
LEMMA DataReadyOK ==
  ASSUME NEW old, NodeOK(old), old.adc = "rdy", NEW clear, NEW r \in RSSIADC_dataReady(old, clear)
  PROVE  /\ NodeOK(r) /\ r.msg = old.msg /\ r.pq = old.pq /\ r.retry = old.retry
         /\ old.st = "tx" => r.st = "tx" 
<1>. DEFINE null == [old EXCEPT !.init = "null"]
            start == [old EXCEPT !.samp = RSSI_SAMPLES, !.tcnt = 0, !.crc = <<>>, !.st = "tx",
                    !.tx = "preamble", !.next = Preamble, !.out = Preamble, !.mode = "tx",
                    !.init = "null"]
            back(d) == [old EXCEPT !.samp = @ + 1, !.delay = d, !.st = "idle", !.init = "null"]
            more == [old EXCEPT !.samp = @ + 1, !.init = "pretx"]
<1>0. DOMAIN old = RadioFields
  BY DEF NodeOK
<1>1. \/ r = old \/ r = null
      \/ old.st = "pretx" /\ (r = start \/ (\E d : r = back(d)) \/ r = getData(more))
  BY Zenon DEF RSSIADC_dataReady
<1>2. Agree(old, null) /\ null.st = old.st /\ null.rx = old.rx /\ null.block = old.block
  BY <1>0 DEF Agree, RadioFields
<1>3. Agree(old, more) /\ more.st = old.st /\ more.rx = old.rx /\ more.block = old.block
  BY <1>0 DEF Agree, RadioFields
<1>4. ASSUME NEW d PROVE /\ Agree(old, back(d)) /\ back(d).st = "idle" /\ back(d).rx = old.rx
                         /\ back(d).block = old.block
  BY <1>0 DEF Agree, RadioFields
<1>5. /\ DOMAIN start = RadioFields /\ start.st = "tx" /\ start.tx = "preamble"
      /\ start.rx = old.rx /\ start.block = old.block /\ start.msg = old.msg /\ start.pq = old.pq
      /\ start.retry = old.retry /\ start.busy = old.busy /\ start.pend = old.pend
  BY <1>0, Zenon DEF RadioFields
<1>6. getData(more) = more
  <2>. HIDE DEF more
  <2>. QED BY <1>3 DEF getData, Agree
<1>. HIDE DEF null, start, back, more
<1>7. CASE r = old
  BY <1>7
<1>8. CASE r = null \/ r = more
  BY <1>2, <1>3, <1>8 DEF NodeOK, RadioStates, TxPart, AckPart, RxPart, Agree
<1>9. ASSUME NEW d, old.st = "pretx", r = back(d)
      PROVE  NodeOK(r) /\ Kept(old, r)
  <2>1. RadioStates(r) /\ RxPart(r)
    BY <1>4, <1>9 DEF Agree, NodeOK, RadioStates, RxPart
  <2>. QED BY <1>4, <1>9, <2>1, MoveOK
<1>10. CASE old.st = "pretx" /\ r = start
  <2>1. TxPart(r) /\ old.block = FALSE
    BY <1>5, <1>10 DEF NodeOK, TxPart, RxPart
  <2>. QED BY <1>5, <1>10, <2>1 DEF NodeOK, RadioStates, AckPart, RxPart
<1>. QED BY <1>1, <1>6, <1>7, <1>8, <1>9, <1>10 DEF Kept

\* What waits at node n, whose radio is r, is of that node and not yet answered.
QueueOK(n, r, ans) ==
  /\ \A i \in DOMAIN r.pq : From[r.pq[i]] = n /\ ans[r.pq[i]] = "no" /\ r.pq[i] # r.msg
  /\ \A i, j \in DOMAIN r.pq : r.pq[i] = r.pq[j] => i = j
  /\ r.msg # 0 => From[r.msg] = n /\ ans[r.msg] = "no"

\* How often message m, whose sender is r, went on the air.
TriesOK(m, r, ans, t) ==
  /\ ans[m] = "no" => t[m] = IF r.msg # m THEN 0 ELSE IF r.st = "tx" THEN r.retry + 1 ELSE r.retry
  /\ ans[m] = "failed" => t[m] = TX_RETRY + 1

\* The inductive invariant of the radios.
RadioInv ==
  /\ plan \in Plans /\ noise \in 0..plan.noise
  /\ DOMAIN radio = RadioNode
  /\ answered \in [RadioMsg -> {"no", "acked", "failed"}] /\ tries \in [RadioMsg -> Nat]
  /\ \A n \in RadioNode : /\ NodeOK(radio[n]) /\ Converting(radio[n])
                          /\ QueueOK(n, radio[n], answered)
  /\ \A m \in RadioMsg : TriesOK(m, radio[From[m]], answered, tries)

\* The invariant says what is checked.
LEMMA RadioInvImplies == RadioInv => RadioSound
<1>. SUFFICES ASSUME RadioInv PROVE RadioSound
  OBVIOUS
<1>1. RadioTypeOK
  BY DEF RadioInv, NodeOK, RadioStates, TxPart, Converting, RadioTypeOK
<1>2. TxSound
  BY DEF RadioInv, NodeOK, TxPart, TxSound
<1>3. RxBlocks
  BY DEF RadioInv, NodeOK, RxPart, RxBlocks
<1>4. FullRetry
  BY DEF RadioInv, TriesOK, FullRetry
<1>. QED BY <1>1, <1>2, <1>3, <1>4 DEF RadioSound

\* The radios start idle, with nothing to send.
LEMMA RadioInitOK == RadioInit => RadioInv
<1>. SUFFICES ASSUME RadioInit PROVE RadioInv
  OBVIOUS
<1>. USE RadioAssumption
<1>1. plan \in Plans /\ noise = 0 /\ plan.noise \in Nat
  BY DEF RadioInit
<1>2. /\ answered = [m \in RadioMsg |-> "no"] /\ tries = [m \in RadioMsg |-> 0]
      /\ DOMAIN radio = RadioNode
  BY DEF RadioInit
<1>3. ASSUME NEW n \in RadioNode
      PROVE  /\ DOMAIN radio[n] = RadioFields /\ radio[n].st = "idle" /\ radio[n].tx = "preamble"
             /\ radio[n].rx = "header" /\ radio[n].busy = FALSE /\ radio[n].pend = FALSE
             /\ radio[n].msg = 0 /\ radio[n].pq = <<>> /\ radio[n].retry = 0
             /\ radio[n].block = FALSE /\ radio[n].adc = "idle"
  BY DEF RadioInit, RadioFields
<1>4. ASSUME NEW n \in RadioNode
      PROVE  NodeOK(radio[n]) /\ Converting(radio[n]) /\ QueueOK(n, radio[n], answered)
  <2>0. /\ 0 \in 0..TX_RETRY /\ <<>> \in Seq(RadioMsg) /\ FALSE \in BOOLEAN
        /\ DOMAIN <<>> = {}
    OBVIOUS
  <2>1. TxPart(radio[n])
    BY <1>3, <2>0, Zenon DEF TxPart
  <2>2. RadioStates(radio[n]) /\ AckPart(radio[n]) /\ RxPart(radio[n]) /\ Converting(radio[n])
    BY <1>3, Zenon DEF RadioStates, AckPart, RxPart, Converting
  <2>3. QueueOK(n, radio[n], answered)
    <3>1. radio[n].pq = <<>> /\ radio[n].msg = 0
      BY <1>3, Zenon
    <3>. QED BY <2>0, <3>1, Zenon DEF QueueOK
  <2>. QED BY <1>3, <2>1, <2>2, <2>3, Zenon DEF NodeOK
<1>5. ASSUME NEW m \in RadioMsg PROVE TriesOK(m, radio[From[m]], answered, tries)
  <2>1. radio[From[m]].msg = 0 /\ m # 0
    BY <1>3, Zenon
  <2>. QED BY <1>2, <2>1 DEF TriesOK
<1>6. noise \in 0..plan.noise /\ answered \in [RadioMsg -> {"no", "acked", "failed"}]
      /\ tries \in [RadioMsg -> Nat]
  BY <1>1, <1>2
<1>. QED BY <1>1, <1>2, <1>4, <1>5, <1>6, Zenon DEF RadioInv

\* A step of the radio of n that answers no message.
LEMMA KeptQueue ==
  ASSUME NEW n \in RadioNode, NEW r, NEW q, NodeOK(r), q.msg = r.msg, q.pq = r.pq, NEW ans, NEW ans2,
         QueueOK(n, r, ans), \A m \in RadioMsg : From[m] = n => ans2[m] = ans[m]
  PROVE  QueueOK(n, q, ans2)
<1>1. r.msg \in RadioMsg \cup {0} /\ \A i \in DOMAIN r.pq : r.pq[i] \in RadioMsg
  BY DEF NodeOK, TxPart
<1>. QED BY <1>1 DEF QueueOK

\* One interrupt keeps the accounts of its node.
LEMMA InterruptTries ==
  ASSUME NEW n \in RadioNode, NEW r, NEW s, NodeOK(r), StepOK(r, s), NEW ans, NEW ans2, NEW t,
         QueueOK(n, r, ans), \A m \in RadioMsg : From[m] = n => TriesOK(m, r, ans, t),
         \A m \in RadioMsg : From[m] = n =>
           ans2[m] = IF s.done # m THEN ans[m] ELSE IF r.ack THEN "acked" ELSE "failed"
  PROVE  QueueOK(n, s.r, ans2) /\ \A m \in RadioMsg : From[m] = n => TriesOK(m, s.r, ans2, t)
<1>. USE RadioAssumption
<1>0. /\ r.msg \in RadioMsg \cup {0} /\ \A i \in DOMAIN r.pq : r.pq[i] \in RadioMsg
      /\ \A m \in RadioMsg : m # 0 /\ r.retry \in Nat
  BY DEF NodeOK, TxPart
<1>1. CASE s.done = 0 /\ (Kept(r, s.r) \/ Again(r, s.r))
  <2>1. \A m \in RadioMsg : From[m] = n => ans2[m] = ans[m]
    BY <1>0, <1>1
  <2>2. s.r.msg = r.msg /\ s.r.pq = r.pq
    BY <1>1 DEF Kept, Again
  <2>3. QueueOK(n, s.r, ans2)
    BY <2>1, <2>2, KeptQueue, SMTT(30)
  <2>4. ASSUME NEW m \in RadioMsg, From[m] = n PROVE TriesOK(m, s.r, ans2, t)
    BY <1>0, <1>1, <2>1, <2>4, SMTT(30) DEF TriesOK, Kept, Again
  <2>. QED BY <2>3, <2>4
<1>2. CASE s.done = r.msg /\ Over(r, s.r)
  <2>1. r.msg # 0 /\ r.msg \in RadioMsg /\ From[r.msg] = n /\ r.pq \in Seq(RadioMsg)
    BY <1>0, <1>2 DEF Over, NodeOK, TxPart, QueueOK
  <2>2. \A m \in RadioMsg : From[m] = n /\ m # r.msg => ans2[m] = ans[m]
    BY <1>2
  <2>3. QueueOK(n, s.r, ans2)
    <3>1. CASE r.pq = <<>>
      BY <1>2, <3>1, SMTT(30) DEF Over, QueueOK
    <3>2. CASE r.pq # <<>>
      <4>1. s.r.msg = r.pq[1] /\ s.r.pq = Tail(r.pq) /\ 1 \in DOMAIN r.pq
        BY <1>2, <2>1, <3>2, SMTT(30) DEF Over
      <4>2. \A i \in DOMAIN s.r.pq : i + 1 \in DOMAIN r.pq /\ s.r.pq[i] = r.pq[i + 1] /\ i \in Nat
                                     /\ i + 1 # 1
        BY <2>1, <3>2, <4>1
      <4>3. \A i \in DOMAIN r.pq : From[r.pq[i]] = n /\ ans2[r.pq[i]] = "no"
        BY <1>0, <2>2, Zenon DEF QueueOK
      <4>4. \A i \in DOMAIN s.r.pq : From[s.r.pq[i]] = n /\ ans2[s.r.pq[i]] = "no"
                                     /\ s.r.pq[i] # s.r.msg
        BY <4>1, <4>2, <4>3 DEF QueueOK
      <4>5. ASSUME NEW i \in DOMAIN s.r.pq, NEW j \in DOMAIN s.r.pq, s.r.pq[i] = s.r.pq[j] PROVE i = j
        <5>1. i + 1 = j + 1
          BY <4>2, <4>5 DEF QueueOK
        <5>. QED BY <4>2, <5>1
      <4>. QED BY <4>1, <4>3, <4>4, <4>5, SMTT(30) DEF QueueOK
    <3>. QED BY <3>1, <3>2
  <2>4. ASSUME NEW m \in RadioMsg, From[m] = n PROVE TriesOK(m, s.r, ans2, t)
    <3>1. CASE m = r.msg
      <4>1. ans[m] = "no" /\ t[m] = r.retry + 1 /\ (r.ack \/ r.retry = TX_RETRY)
        BY <1>2, <2>4, <3>1, <2>1, Zenon DEF QueueOK, TriesOK, Over
      <4>2. ans2[m] = IF r.ack THEN "acked" ELSE "failed"
        BY <1>2, <2>4, <3>1, Zenon
      <4>. QED BY <4>1, <4>2, SMTT(30) DEF TriesOK
    <3>2. CASE m # r.msg
      BY <1>2, <2>2, <2>4, <3>2 DEF TriesOK, Over
    <3>. QED BY <3>1, <3>2, SMTT(30)
  <2>. QED BY <2>3, <2>4
<1>. QED BY <1>1, <1>2 DEF StepOK

\* Messages and their senders.
LEMMA Senders == /\ From \in [RadioMsg -> RadioNode] /\ RadioMsg \subseteq Nat \ {0}
                 /\ \A m \in RadioMsg : From[m] \in RadioNode /\ m # 0
BY RadioAssumption, Zenon

\* A message at the end of a queue.
LEMMA Appended ==
  ASSUME NEW s \in Seq(RadioMsg), NEW m \in RadioMsg
  PROVE  \A i \in DOMAIN Append(s, m) : (i \in DOMAIN s /\ Append(s, m)[i] = s[i])
                                        \/ (i = Len(s) + 1 /\ Append(s, m)[i] = m)
OBVIOUS

\* radio_msg_alloc takes a message that is nowhere yet.
LEMMA AllocOK == ASSUME RadioInv, NEW m \in RadioMsg, radio_msg_alloc(m) PROVE RadioInv'
<1>. DEFINE n == From[m]
<1>1. PICK r : r = radio[n]
  OBVIOUS
<1>2. PICK q : q = radio'[n]
  OBVIOUS
<1>0. n \in RadioNode /\ m # 0
  BY Senders
<1>. HIDE DEF n
<1>3. /\ answered' = answered /\ tries' = tries /\ noise' = noise /\ plan' = plan
      /\ answered[m] = "no" /\ r.msg # m /\ \A i \in DOMAIN r.pq : r.pq[i] # m
  BY <1>1, Zenon DEF radio_msg_alloc, n
<1>4. /\ NodeOK(r) /\ Converting(r) /\ QueueOK(n, r, answered) /\ TriesOK(m, r, answered, tries)
      /\ DOMAIN radio = RadioNode
  BY <1>0, <1>1, Zenon DEF RadioInv, n
<1>5. /\ DOMAIN radio' = RadioNode
      /\ \A k \in RadioNode : k # n => radio'[k] = radio[k]
      /\ IF r.busy THEN q = [r EXCEPT !.pq = Append(@, m)]
         ELSE \E d \in BACKOFF : q = [r EXCEPT !.busy = TRUE, !.pend = TRUE, !.delay = d, !.msg = m]
  <2>1. CASE r.busy
    <3>1. radio' = [radio EXCEPT ![n] = [r EXCEPT !.pq = Append(@, m)]]
      BY <1>1, <2>1 DEF radio_msg_alloc, n
    <3>2. DOMAIN radio = RadioNode
      BY <1>4
    <3>. QED BY <1>0, <1>2, <2>1, <3>1, <3>2, Zenon
  <2>2. CASE ~r.busy
    <3>1. PICK d \in BACKOFF :
            radio' = [radio EXCEPT ![n] = [r EXCEPT !.busy = TRUE, !.pend = TRUE, !.delay = d, !.msg = m]]
      BY <1>1, <2>2, Zenon DEF radio_msg_alloc, n
    <3>2. DOMAIN radio = RadioNode
      BY <1>4
    <3>. QED BY <1>0, <1>2, <2>2, <3>1, <3>2, Zenon
  <2>. QED BY <2>1, <2>2, Zenon
<1>6. /\ DOMAIN q = RadioFields /\ q.st = r.st /\ q.tx = r.tx /\ q.rx = r.rx /\ q.ack = r.ack
      /\ q.block = r.block /\ q.adc = r.adc /\ q.retry = r.retry
      /\ \/ r.busy /\ q.busy = r.busy /\ q.pend = r.pend /\ q.msg = r.msg /\ q.pq = Append(r.pq, m)
         \/ ~r.busy /\ q.busy = TRUE /\ q.pend = TRUE /\ q.msg = m /\ q.pq = r.pq
  <2>0. DOMAIN r = RadioFields
    BY <1>4 DEF NodeOK
  <2>1. CASE r.busy
    <3>1. q = [r EXCEPT !.pq = Append(@, m)]
      BY <1>5, <2>1
    <3>. QED BY <2>0, <2>1, <3>1, Zenon DEF RadioFields
  <2>2. CASE ~r.busy
    <3>1. PICK d : q = [r EXCEPT !.busy = TRUE, !.pend = TRUE, !.delay = d, !.msg = m]
      BY <1>5, <2>2, Zenon
    <3>. QED BY <2>0, <2>2, <3>1, Zenon DEF RadioFields
  <2>. QED BY <2>1, <2>2, ZenonT(30)
<1>7. /\ r.busy \in BOOLEAN /\ r.pend \in BOOLEAN /\ (r.busy <=> r.msg # 0) /\ r.pq \in Seq(RadioMsg)
      /\ (r.pq # <<>> => r.busy) /\ (r.st \in {"pretx", "tx"} => r.busy) /\ (~r.busy => r.retry = 0)
      /\ (r.pend <=> r.busy) /\ r.msg \in RadioMsg \cup {0} /\ r.retry \in 0..TX_RETRY
  BY <1>4, SMTT(30) DEF NodeOK, TxPart
<1>8. NodeOK(q) /\ Converting(q)
  <2>1. TxPart(q)
    <3>1. CASE r.busy /\ q.busy = r.busy /\ q.pend = r.pend /\ q.msg = r.msg /\ q.pq = Append(r.pq, m)
      <4>1. q.pq \in Seq(RadioMsg)
        BY <1>7, <3>1
      <4>. QED BY <1>6, <1>7, <3>1, <4>1, Zenon DEF TxPart
    <3>2. CASE ~r.busy /\ q.busy = TRUE /\ q.pend = TRUE /\ q.msg = m /\ q.pq = r.pq
      BY <1>0, <1>6, <1>7, <3>2, Zenon DEF TxPart
    <3>. QED BY <1>6, <3>1, <3>2, Zenon
  <2>2. AckPart(q)
    <3>1. r.st = "tx" => q.msg = r.msg
      BY <1>6, <1>7, SMTT(30)
    <3>. QED BY <1>4, <1>6, <3>1 DEF NodeOK, AckPart
  <2>3. RadioStates(q) /\ RxPart(q) /\ Converting(q)
    BY <1>4, <1>6, SMTT(30) DEF NodeOK, RadioStates, RxPart, Converting
  <2>. QED BY <1>6, <2>1, <2>2, <2>3 DEF NodeOK
<1>9. QueueOK(n, q, answered)
  <2>1. CASE r.busy /\ q.msg = r.msg /\ q.pq = Append(r.pq, m)
    <3>1. \A i \in DOMAIN q.pq : (i \in DOMAIN r.pq /\ q.pq[i] = r.pq[i])
                                 \/ (i = Len(r.pq) + 1 /\ q.pq[i] = m)
      <4>1. r.pq \in Seq(RadioMsg) /\ q.pq = Append(r.pq, m)
        BY <1>7, <2>1
      <4>. QED BY <4>1, Appended, Zenon
    <3>3. \A i \in DOMAIN r.pq : From[r.pq[i]] = n /\ answered[r.pq[i]] = "no" /\ r.pq[i] # r.msg
      BY <1>4 DEF QueueOK
    <3>4. \A i, j \in DOMAIN r.pq : r.pq[i] = r.pq[j] => i = j
      BY <1>4 DEF QueueOK
    <3>5. \A i \in DOMAIN q.pq : From[q.pq[i]] = n /\ answered[q.pq[i]] = "no" /\ q.pq[i] # q.msg
      BY <1>3, <2>1, <3>1, <3>3, Zenon DEF n
    <3>6. ASSUME NEW i \in DOMAIN q.pq, NEW j \in DOMAIN q.pq, q.pq[i] = q.pq[j] PROVE i = j
      <4>1. (i \in DOMAIN r.pq /\ q.pq[i] = r.pq[i]) \/ (i = Len(r.pq) + 1 /\ q.pq[i] = m)
        BY <3>1, Zenon
      <4>2. (j \in DOMAIN r.pq /\ q.pq[j] = r.pq[j]) \/ (j = Len(r.pq) + 1 /\ q.pq[j] = m)
        BY <3>1, Zenon
      <4>. QED BY <1>3, <3>4, <3>6, <4>1, <4>2, Zenon
    <3>7. q.msg # 0 => From[q.msg] = n /\ answered[q.msg] = "no"
      BY <1>4, <2>1 DEF QueueOK
    <3>. QED BY <3>5, <3>6, <3>7, Zenon DEF QueueOK
  <2>2. CASE ~r.busy /\ q.msg = m /\ q.pq = r.pq
    <3>1. r.pq = <<>>
      BY <1>7, <2>2
    <3>. QED BY <1>3, <2>2, <3>1 DEF QueueOK, n
  <2>. QED BY <1>6, <2>1, <2>2
<1>10. ASSUME NEW k \in RadioMsg PROVE TriesOK(k, radio'[From[k]], answered, tries)
  <2>1. TriesOK(k, radio[From[k]], answered, tries)
    BY DEF RadioInv
  <2>2. CASE From[k] # n
    BY <1>5, <2>1, <2>2, Senders, Zenon
  <2>3. CASE From[k] = n
    <3>1. TriesOK(k, r, answered, tries) /\ radio'[From[k]] = q
      BY <1>1, <1>2, <2>1, <2>3, SMTT(30)
    <3>2. CASE q.msg = r.msg
      BY <1>6, <3>1, <3>2 DEF TriesOK
    <3>3. CASE r.msg = 0 /\ q.msg = m /\ ~r.busy
      <4>1. r.msg # k /\ r.retry = 0 /\ r.st # "tx"
        BY <1>7, <3>3, Senders, SMTT(30)
      <4>. QED BY <1>6, <3>1, <4>1 DEF TriesOK
    <3>. QED BY <1>6, <1>7, <3>2, <3>3, SMTT(30)
  <2>. QED BY <2>2, <2>3
<1>11. ASSUME NEW k \in RadioNode
       PROVE  NodeOK(radio'[k]) /\ Converting(radio'[k]) /\ QueueOK(k, radio'[k], answered)
  BY <1>2, <1>5, <1>8, <1>9, ZenonT(30) DEF RadioInv
<1>. QED BY <1>3, <1>5, <1>10, <1>11, Zenon DEF RadioInv

\* A step that changes the radio of n alone, and answers nothing.
LEMMA OneRadio ==
  ASSUME RadioInv, NEW n \in RadioNode, NEW q, radio' = [radio EXCEPT ![n] = q],
         answered' = answered, noise' = noise, plan' = plan, tries' \in [RadioMsg -> Nat],
         NodeOK(q), Converting(q), q.msg = radio[n].msg, q.pq = radio[n].pq,
         \A m \in RadioMsg : From[m] # n => tries'[m] = tries[m],
         \A m \in RadioMsg : From[m] = n => TriesOK(m, q, answered, tries')
  PROVE  RadioInv'
<1>1. /\ DOMAIN radio' = RadioNode /\ radio'[n] = q
      /\ \A k \in RadioNode : k # n => radio'[k] = radio[k]
  BY DEF RadioInv
<1>2. QueueOK(n, q, answered)
  BY KeptQueue DEF RadioInv
<1>3. ASSUME NEW k \in RadioNode
      PROVE  NodeOK(radio'[k]) /\ Converting(radio'[k]) /\ QueueOK(k, radio'[k], answered)
  BY <1>1, <1>2, SMTT(30) DEF RadioInv
<1>4. ASSUME NEW m \in RadioMsg PROVE TriesOK(m, radio'[From[m]], answered, tries')
  <2>1. CASE From[m] = n
    BY <1>1, <2>1, SMTT(30)
  <2>2. CASE From[m] # n
    <3>1. TriesOK(m, radio[From[m]], answered, tries) /\ From[m] \in RadioNode /\ tries'[m] = tries[m]
      BY <2>2, Senders DEF RadioInv
    <3>. QED BY <1>1, <2>2, <3>1, SMTT(30) DEF TriesOK
  <2>. QED BY <2>1, <2>2
<1>. QED BY <1>1, <1>3, <1>4 DEF RadioInv

\* The squelch timer asks for a sample and no more.
LEMMA SquelchOK == ASSUME RadioInv, NEW n \in RadioNode, squelch_timer_fired(n) PROVE RadioInv'
<1>1. PICK r : r = [radio[n] EXCEPT !.init = "idle"]
  BY Zenon
<1>2. NodeOK(radio[n]) /\ Converting(radio[n]) /\ DOMAIN radio = RadioNode
  BY DEF RadioInv
<1>3. Agree(radio[n], r) /\ r.st = radio[n].st /\ r.rx = radio[n].rx /\ r.block = radio[n].block
  BY <1>1, <1>2 DEF NodeOK, Agree, RadioFields
<1>4. NodeOK(r) /\ Kept(radio[n], r) /\ Converting(r)
  <2>1. RadioStates(r) /\ RxPart(r) /\ (r.st = "pretx" => radio[n].busy) /\ Converting(r)
    BY <1>2, <1>3 DEF NodeOK, TxPart, RadioStates, RxPart, Agree, Converting
  <2>. QED BY <1>2, <1>3, <2>1, MoveOK, SMTT(30)
<1>5. PICK q : q = getData(r)
  OBVIOUS
<1>6. NodeOK(q) /\ Converting(q) /\ Kept(r, q)
  BY <1>4, <1>5, GetData, Zenon
<1>7. /\ radio' = [radio EXCEPT ![n] = q] /\ answered' = answered /\ tries' = tries
      /\ noise' = noise /\ plan' = plan
  BY <1>1, <1>2, <1>5, SMTT(30) DEF squelch_timer_fired
<1>8. ASSUME NEW m \in RadioMsg, From[m] = n PROVE TriesOK(m, q, answered, tries')
  <2>1. TriesOK(m, radio[n], answered, tries)
    BY <1>8 DEF RadioInv
  <2>. QED BY <1>4, <1>6, <1>7, <2>1, SMTT(30) DEF TriesOK, Kept
<1>9. q.msg = radio[n].msg /\ q.pq = radio[n].pq /\ tries' \in [RadioMsg -> Nat]
  BY <1>4, <1>6, <1>7 DEF Kept, RadioInv
<1>. QED BY <1>6, <1>7, <1>8, <1>9, OneRadio, Zenon

\* A sample starts a transmission, gives way, or asks for the next sample.
LEMMA AdcOK == ASSUME RadioInv, NEW n \in RadioNode, adc_proc_interrupt(n) PROVE RadioInv'
<1>1. NodeOK(radio[n]) /\ DOMAIN radio[n] = RadioFields /\ DOMAIN radio = RadioNode
  BY DEF RadioInv, NodeOK
<1>2. PICK old : old = [radio[n] EXCEPT !.adc = "rdy"]
  BY ZenonT(30)
<1>3. /\ DOMAIN old = RadioFields /\ old.adc = "rdy" /\ old.st = radio[n].st /\ old.tx = radio[n].tx
      /\ old.rx = radio[n].rx /\ old.ack = radio[n].ack /\ old.msg = radio[n].msg
      /\ old.pq = radio[n].pq /\ old.retry = radio[n].retry /\ old.busy = radio[n].busy
      /\ old.pend = radio[n].pend /\ old.block = radio[n].block
  BY <1>1, <1>2, Zenon DEF RadioFields
<1>4. NodeOK(old)
  BY <1>1, <1>3, Zenon DEF NodeOK, RadioStates, TxPart, AckPart, RxPart
<1>5. PICK r \in RSSIADC_dataReady(old, radio[Other(n)].mode = "rx") :
        /\ radio' = [radio EXCEPT ![n] = [r EXCEPT !.adc = IF r.again THEN "busy" ELSE "idle",
                                                   !.again = FALSE]]
        /\ tries' = IF r.st = "tx" /\ radio[n].st # "tx" THEN [tries EXCEPT ![r.msg] = @ + 1]
                    ELSE tries
  BY <1>2, Zenon DEF adc_proc_interrupt
<1>6. PICK c : c = (radio[Other(n)].mode = "rx")
  OBVIOUS
<1>7. r \in RSSIADC_dataReady(old, c)
  BY <1>5, <1>6
<1>8. /\ NodeOK(r) /\ r.msg = old.msg /\ r.pq = old.pq /\ r.retry = old.retry
      /\ old.st = "tx" => r.st = "tx"
  BY <1>3, <1>4, <1>7, DataReadyOK, Zenon
<1>9. PICK q : q = [r EXCEPT !.adc = IF r.again THEN "busy" ELSE "idle", !.again = FALSE]
  OBVIOUS
<1>10. DOMAIN r = RadioFields
  BY <1>8 DEF NodeOK
<1>11. /\ DOMAIN q = RadioFields /\ q.adc = (IF r.again THEN "busy" ELSE "idle") /\ q.st = r.st
       /\ q.tx = r.tx /\ q.rx = r.rx /\ q.ack = r.ack /\ q.msg = r.msg
       /\ q.pq = r.pq /\ q.retry = r.retry /\ q.busy = r.busy
       /\ q.pend = r.pend /\ q.block = r.block
  BY <1>9, <1>10, Zenon DEF RadioFields
<1>12. NodeOK(q) /\ Converting(q)
  <2>1. NodeOK(q)
    BY <1>8, <1>11, Zenon DEF NodeOK, RadioStates, TxPart, AckPart, RxPart
  <2>. QED BY <1>11, <2>1 DEF Converting
<1>13. q.msg = radio[n].msg /\ q.pq = radio[n].pq /\ q.retry = radio[n].retry
  BY <1>3, <1>8, <1>11
<1>14. radio' = [radio EXCEPT ![n] = q] /\ answered' = answered /\ noise' = noise /\ plan' = plan
  BY <1>5, <1>9, Zenon DEF adc_proc_interrupt
<1>15. tries \in [RadioMsg -> Nat] /\ QueueOK(n, radio[n], answered)
       /\ \A m \in RadioMsg : From[m] = n => TriesOK(m, radio[n], answered, tries)
  BY DEF RadioInv
<1>16. CASE r.st = "tx" /\ radio[n].st # "tx"
  <2>1. PICK k : k = r.msg
    OBVIOUS
  <2>2. k \in RadioMsg /\ k # 0 /\ k = radio[n].msg
    <3>1. r.busy /\ (r.busy <=> r.msg # 0) /\ r.msg \in RadioMsg \cup {0}
      BY <1>8, <1>16 DEF NodeOK, TxPart
    <3>. QED BY <1>11, <1>13, <2>1, <3>1, ZenonT(30)
  <2>3. tries' = [tries EXCEPT ![k] = @ + 1] /\ answered[k] = "no" /\ From[k] = n
    BY <1>5, <1>15, <1>16, <2>1, <2>2 DEF QueueOK
  <2>4. tries' \in [RadioMsg -> Nat] /\ (\A m \in RadioMsg : m # k => tries'[m] = tries[m])
        /\ tries'[k] = tries[k] + 1
    BY <1>15, <2>2, <2>3
  <2>5. ASSUME NEW m \in RadioMsg, From[m] = n PROVE TriesOK(m, q, answered, tries')
    <3>1. TriesOK(m, radio[n], answered, tries)
      BY <1>15, <2>5
    <3>2. CASE m = k
      <4>1. q.msg = m /\ radio[n].msg = m /\ q.st = "tx" /\ answered[m] = "no"
            /\ tries'[m] = tries[m] + 1
        BY <1>11, <1>13, <1>16, <2>2, <2>3, <2>4, <3>2, SMTT(30)
      <4>2. tries[m] = radio[n].retry
        BY <1>16, <3>1, <4>1 DEF TriesOK
      <4>. QED BY <1>13, <4>1, <4>2, SMTT(30) DEF TriesOK
    <3>3. CASE m # k
      BY <1>13, <2>2, <2>4, <3>1, <3>3 DEF TriesOK
    <3>. QED BY <3>2, <3>3
  <2>6. \A m \in RadioMsg : From[m] # n => tries'[m] = tries[m]
    BY <2>3, <2>4
  <2>. QED BY <1>12, <1>13, <1>14, <2>4, <2>5, <2>6, OneRadio, Zenon
<1>17. CASE ~(r.st = "tx" /\ radio[n].st # "tx")
  <2>1. tries' = tries /\ (q.st = "tx" <=> radio[n].st = "tx")
    BY <1>3, <1>5, <1>8, <1>11, <1>17
  <2>2. ASSUME NEW m \in RadioMsg, From[m] = n PROVE TriesOK(m, q, answered, tries')
    <3>1. TriesOK(m, radio[n], answered, tries)
      BY <1>15, <2>2
    <3>. QED BY <1>13, <2>1, <3>1 DEF TriesOK
  <2>. QED BY <1>12, <1>13, <1>14, <1>15, <2>1, <2>2, OneRadio, Zenon
<1>. QED BY <1>16, <1>17, SMTT(30)

\* One byte on the air: both nodes take their interrupts.
LEMMA ByteOK == ASSUME RadioInv, byte_time PROVE RadioInv'
<1>. DEFINE Byte(b, hits, can, s) ==
              /\ \A n \in RadioNode : s[n] \in can[n]
              /\ noise' = noise + hits + Count([n \in RadioNode |-> s[n].nomem])
              /\ noise' <= plan.noise
              /\ radio' = [n \in RadioNode |-> s[n].r]
              /\ received' = received \cup {<<n, s[n].up>> : n \in {k \in RadioNode : s[k].up # 0}}
              /\ answered' = [m \in RadioMsg |->
                                IF s[From[m]].done # m THEN answered[m]
                                ELSE IF radio[From[m]].ack THEN "acked" ELSE "failed"]
              /\ UNCHANGED <<tries, plan>>
            Can(b) == [n \in RadioNode |-> cc1k_radio_spi_interrupt(n, radio[n], b[n])]
            Hits(b) == Count([n \in RadioNode |-> b[n] # Heard(n)])
<1>0. PICK b \in Hearings :
        \E can \in {Can(b)} : \E s \in [RadioNode -> UNION {can[n] : n \in RadioNode}] :
          Byte(b, Hits(b), can, s)
  BY Zenon DEF byte_time
<1>1. PICK s : Byte(b, Hits(b), Can(b), s)
  <2>. HIDE DEF Byte, Hits, Can
  <2>. QED BY <1>0, SMTT(30)
<1>2. noise' \in 0..plan'.noise /\ plan' \in Plans
  <2>1. Hits(b) \in Nat /\ Count([n \in RadioNode |-> s[n].nomem]) \in Nat
    BY DEF Count
  <2>2. plan \in Plans /\ plan.noise \in Nat /\ noise \in 0..plan.noise
    BY RadioAssumption, SMTT(30) DEF RadioInv
  <2>. QED BY <1>1, <2>1, <2>2, SMTT(30)
<1>3. ASSUME NEW n \in RadioNode PROVE StepOK(radio[n], s[n])
  <2>1. NodeOK(radio[n]) /\ Converting(radio[n]) /\ s[n] \in cc1k_radio_spi_interrupt(n, radio[n], b[n])
    BY <1>1, SMTT(30) DEF RadioInv
  <2>. QED BY <2>1, InterruptOK, SMTT(30)
<1>4. ASSUME NEW n \in RadioNode
      PROVE  /\ QueueOK(n, s[n].r, answered')
             /\ \A m \in RadioMsg : From[m] = n => TriesOK(m, s[n].r, answered', tries)
  <2>1. /\ NodeOK(radio[n]) /\ QueueOK(n, radio[n], answered)
        /\ \A m \in RadioMsg : From[m] = n => TriesOK(m, radio[n], answered, tries)
    BY DEF RadioInv
  <2>2. \A m \in RadioMsg : From[m] = n =>
           answered'[m] = IF s[n].done # m THEN answered[m]
                          ELSE IF radio[n].ack THEN "acked" ELSE "failed"
    BY <1>1
  <2>. QED BY <1>3, <2>1, <2>2, InterruptTries, SMTT(30)
<1>5. DOMAIN radio' = RadioNode /\ \A n \in RadioNode : radio'[n] = s[n].r
  BY <1>1, SMTT(30)
<1>6. ASSUME NEW n \in RadioNode
      PROVE  NodeOK(radio'[n]) /\ Converting(radio'[n]) /\ QueueOK(n, radio'[n], answered')
  BY <1>3, <1>4, <1>5 DEF StepOK
<1>7. ASSUME NEW m \in RadioMsg PROVE TriesOK(m, radio'[From[m]], answered', tries')
  <2>1. From[m] \in RadioNode /\ tries' = tries
    BY <1>1, Senders, SMTT(30)
  <2>. QED BY <1>4, <1>5, <2>1
<1>8. /\ answered' \in [RadioMsg -> {"no", "acked", "failed"}]
      /\ tries' \in [RadioMsg -> Nat]
  BY <1>1 DEF RadioInv
<1>. QED BY <1>2, <1>5, <1>6, <1>7, <1>8 DEF RadioInv

\* Radios, cc1k_radio.c: whatever two nodes send, and whatever noise and missing memory
\* do to it, txmsgptr is there when it is used, no message waits in the queue
\* without one in work, none is given up before its last retry, and the payload of
\* a reception is freed or handed up.
THEOREM RadioIsSound == RadioSpec => []RadioSound
<1>1. RadioInv /\ [RadioNext]_radioVars => RadioInv'
  <2>1. CASE UNCHANGED radioVars
    BY <2>1 DEF RadioInv, radioVars
  <2>2. ASSUME RadioInv, RadioNext PROVE RadioInv'
    BY <2>2, AllocOK, ByteOK, SquelchOK, AdcOK DEF RadioNext
  <2>. QED BY <2>1, <2>2, SMTT(30)
<1>. QED BY <1>1, RadioInitOK, RadioInvImplies, PTL DEF RadioSpec

--------------------------------------------------------------------------------
\* The scheduler's loop.

\* With interrupts disabled, what the loop has seen stays true until it acts on it.
Seen ==
  /\ where = "check_msg" => ~int_ready
  /\ where = "dispatch" => msg_cnt # 0

LoopInv == LoopTypeOK /\ RequestKept /\ EntrySeen /\ SleepsIdle /\ Seen

\* When the loop starts nothing is asked for.
LEMMA InitLoop == LoopInit => LoopInv
<1> SUFFICES ASSUME LoopInit PROVE LoopInv
    OBVIOUS
<1>1. 0 \in Id /\ 0 \in 0..MaxMsg
  BY LoopAssumption DEF LoopAssumption, Id
<1>2. \A d \in Id : ~raised[d] /\ ~int_array[d]
  BY DEF LoopInit
<1>3. LoopTypeOK
  BY <1>1 DEF LoopInit, LoopTypeOK
<1>4. RequestKept /\ EntrySeen
  BY <1>2 DEF RequestKept, EntrySeen
<1>5. SleepsIdle /\ Seen
  BY DEF LoopInit, SleepsIdle, Seen
<1> QED BY <1>3, <1>4, <1>5 DEF LoopInv

\* Every step of the loop, of a callback and of an interrupt handler keeps LoopInv.
LEMMA StepLoop == LoopInv /\ [LoopNext]_loopVars => LoopInv'
<1> SUFFICES ASSUME LoopInv, [LoopNext]_loopVars PROVE LoopInv'
    OBVIOUS
<1> USE LoopAssumption DEF LoopAssumption, LoopInv, Id
<1>1. ASSUME NEW d \in Id, isr_callback(d) PROVE LoopInv'
  <2> USE <1>1 DEF isr_callback, sched_add_interrupt, Wake, IntEnabled
  <2>1. LoopTypeOK'
    BY DEF LoopTypeOK
  <2>2. RequestKept'
    BY DEF LoopTypeOK, RequestKept
  <2>3. EntrySeen'
    BY DEF EntrySeen
  <2>4. SleepsIdle' /\ Seen'
    BY DEF SleepsIdle, Seen
  <2> QED BY <2>1, <2>2, <2>3, <2>4
<1>2. CASE isr_post
  BY <1>2 DEF isr_post, Wake, IntEnabled, LoopTypeOK, RequestKept, EntrySeen, SleepsIdle, Seen
<1>3. CASE callback_again
  <2> USE <1>3 DEF callback_again, sched_add_interrupt
  <2>1. LoopTypeOK' /\ RequestKept'
    BY DEF LoopTypeOK, RequestKept
  <2>2. EntrySeen' /\ SleepsIdle' /\ Seen'
    BY DEF EntrySeen, SleepsIdle, Seen
  <2> QED BY <2>1, <2>2
<1>4. CASE sched_top
  BY <1>4 DEF sched_top, LoopTypeOK, RequestKept, EntrySeen, SleepsIdle, Seen
<1>5. CASE sched_check_int
  BY <1>5 DEF sched_check_int, LoopTypeOK, RequestKept, EntrySeen, SleepsIdle, Seen
<1>6. CASE sched_check_msg
  <2>1. \A d \in Id : ~raised[d]
    BY <1>6 DEF sched_check_msg, RequestKept, EntrySeen, Seen
  <2> QED BY <1>6, <2>1 DEF sched_check_msg, LoopTypeOK, RequestKept, EntrySeen, SleepsIdle, Seen
<1>7. CASE do_dispatch
  <2> USE <1>7 DEF do_dispatch
  <2>1. msg_cnt' \in 0..MaxMsg
    BY DEF LoopTypeOK, Seen
  <2>2. LoopTypeOK'
    BY <2>1 DEF LoopTypeOK
  <2>3. RequestKept' /\ EntrySeen'
    BY DEF RequestKept, EntrySeen
  <2>4. SleepsIdle' /\ Seen'
    BY DEF SleepsIdle, Seen
  <2> QED BY <2>2, <2>3, <2>4
<1>8. CASE handle_callback
  <2> USE <1>8 DEF handle_callback
  <2>1. LoopTypeOK'
    <3>1. slot' \in Id
      BY DEF Id
    <3>2. int_ready' \in BOOLEAN
      OBVIOUS
    <3> QED BY <3>1, <3>2, Zenon DEF LoopTypeOK
  <2>2. RequestKept'
    BY DEF RequestKept
  <2>3. EntrySeen'
    BY DEF EntrySeen
  <2>4. SleepsIdle' /\ Seen'
    BY DEF SleepsIdle, Seen
  <2> QED BY <2>1, <2>2, <2>3, <2>4
<1>9. CASE callback_look
  <2> USE <1>9 DEF callback_look, Advance
  <2>1. LoopTypeOK'
    BY DEF LoopTypeOK
  <2>2. RequestKept'
    BY DEF RequestKept
  <2>3. EntrySeen'
    BY DEF EntrySeen, LoopTypeOK
  <2>4. SleepsIdle' /\ Seen'
    BY DEF SleepsIdle, Seen
  <2> QED BY <2>1, <2>2, <2>3, <2>4
<1>10. CASE callback_clear
  <2> USE <1>10 DEF callback_clear
  <2>1. LoopTypeOK'
    BY DEF LoopTypeOK
  <2>2. RequestKept'
    BY DEF RequestKept, LoopTypeOK
  <2>3. EntrySeen'
    BY DEF EntrySeen, LoopTypeOK
  <2>4. SleepsIdle' /\ Seen'
    BY DEF SleepsIdle, Seen
  <2> QED BY <2>1, <2>2, <2>3, <2>4
<1>11. CASE callback_call
  <2> USE <1>11 DEF callback_call
  <2>1. LoopTypeOK'
    BY DEF LoopTypeOK
  <2>2. RequestKept'
    BY DEF RequestKept, LoopTypeOK
  <2>3. EntrySeen' /\ SleepsIdle' /\ Seen'
    BY DEF EntrySeen, SleepsIdle, Seen
  <2> QED BY <2>1, <2>2, <2>3
<1>12. CASE callback_return
  <2> USE <1>12 DEF callback_return, Advance
  <2>1. LoopTypeOK'
    BY DEF LoopTypeOK
  <2>2. RequestKept'
    BY DEF RequestKept
  <2>3. EntrySeen'
    BY DEF EntrySeen, LoopTypeOK
  <2>4. SleepsIdle' /\ Seen'
    BY DEF SleepsIdle, Seen
  <2> QED BY <2>1, <2>2, <2>3, <2>4
<1>13. CASE UNCHANGED loopVars
  BY <1>13 DEF loopVars, LoopTypeOK, RequestKept, EntrySeen, SleepsIdle, Seen
<1> QED BY <1>1, <1>2, <1>3, <1>4, <1>5, <1>6, <1>7, <1>8, <1>9, <1>10, <1>11, <1>12, <1>13
    DEF LoopNext, Loop

\* So LoopInv holds throughout.
LEMMA LoopInvariance == LoopSpec => []LoopInv
BY InitLoop, StepLoop, PTL DEF LoopSpec

\* Wherever in handle_callback an interrupt comes, and whatever the callbacks ask for
\* themselves, no request is lost, no entry is passed over by clearing int_ready, and
\* the processor never sleeps with work waiting (LoopSound), for any SCHED_NUM_INTS.
\* The last part needs the first two: with int_ready clear and no pass under way,
\* EntrySeen leaves int_array empty, and then RequestKept leaves no request.
THEOREM LoopIsSound == LoopSpec => []LoopSound
<1>1. LoopInv => LoopSound
  BY DEF LoopInv, LoopSound
<1> QED BY <1>1, LoopInvariance, PTL
================================================================================
