---------------------------------- MODULE Radio --------------------------------
(***************************************************************************)
(* The CC1000 radio of the mica2 nodes, platform/mica2/cc1k_radio.c with   *)
(* the RSSI requests it makes of processor/avr/adc_proc.c, on two nodes in *)
(* each other's range.  One SPI interrupt per byte drives the radio; bytes *)
(* of the two nodes come at the same time and on byte boundaries.  A byte  *)
(* is a value that says what it is; the CRC is all that was summed up, so  *)
(* that it fails exactly when a byte was changed.  Preambles and headers   *)
(* are shortened, the lengths of the acknowledgement are the code's.       *)
(***************************************************************************)
EXTENDS Integers, Sequences, FiniteSets

CONSTANTS RadioNode,     \* Two nodes.
          RadioMsg,      \* Messages, numbers from 1.
          From, Dst,     \* From[m] sends m to Dst[m]: a node or BCAST.
          MsgLen,        \* MsgLen[m]: bytes of payload
          BCAST,         \* BCAST_ADDRESS
          PREAMBLE,      \* preamblelen
          PRECURSOR,     \* CC1K_ValidPrecursor
          RSSI_SAMPLES,  \* CC1K_MaxRSSISamples
          BACKOFF,       \* MacBackoff_initialBackoff, _congestionBackoff: one of these
          TX_RETRY,      \* MAX_TX_RETRY
          Plans          \* What the applications send, and the bound on the bytes
                         \* changed on the air and the failed allocations meanwhile.

ASSUME RadioAssumption ==
  /\ Cardinality(RadioNode) = 2 /\ BCAST \notin RadioNode
  /\ RadioMsg \subseteq Nat \ {0}
  /\ From \in [RadioMsg -> RadioNode] /\ Dst \in [RadioMsg -> RadioNode \cup {BCAST}]
  /\ MsgLen \in [RadioMsg -> Nat]
  /\ {PREAMBLE, PRECURSOR, RSSI_SAMPLES, TX_RETRY} \subseteq Nat
  /\ BACKOFF \subseteq Nat
  /\ \A p \in Plans : p.send \subseteq RadioMsg /\ p.noise \in Nat

VARIABLES radio,       \* radio[n]: the variables of cc1k_radio.c, see RadioInit
          answered,    \* answered[m]: the senddone of message m
          tries,       \* tries[m]: how often m was sent
          received,    \* The messages handed to handle_incoming_msg: <<n, m>>
          noise,       \* Bytes changed and allocations failed so far.
          plan         \* One of Plans.

radioVars == <<radio, answered, tries, received, noise, plan>>

\* Bytes: of the preamble (0xaa, 0x55), the sync word, the group, the acknowledgement,
\* and any other one.
Preamble == <<"aa">>
Sync1 == <<"33">>
Sync2 == <<"cc">>
Group == <<"group">>
Ack1 == <<"ab">>
Ack2 == <<"ba">>
Ack3 == <<"83">>
Junk == <<"junk">>

ACK_LENGTH == 16
MAX_ACK_WAIT == 18
HEAD_SIZE == 2              \* SOS_MSG_HEADER_SIZE: the addresses and len.
ack_code == <<Ack1, Ack2, Ack3>>
Other(n) == CHOOSE k \in RadioNode : k # n

\* Bytes of messages and of their CRC.
HeadByte(m, i) == <<"head", m, i>>
DataByte(m, i) == <<"data", m, i>>
CrcByte(s, half) == <<half, s>>
Body(m) == [i \in 1..(HEAD_SIZE + MsgLen[m]) |->
              IF i <= HEAD_SIZE THEN HeadByte(m, i - 1) ELSE DataByte(m, i - HEAD_SIZE - 1)]

RadioInit ==
  /\ radio = [n \in RadioNode |->
       [st |-> "idle", tx |-> "preamble", rx |-> "header",   \* RadioState, -Tx-, -Rx-
        mode |-> "rx",                                       \* of the chip
        spdr |-> Junk, out |-> Junk, next |-> Junk,    \* SPDR, OutgoingByte, NextTxByte
        busy |-> FALSE, pend |-> FALSE,                      \* bTxBusy, bTxPending
        msg |-> 0, pq |-> <<>>, ack |-> FALSE, retry |-> 0,  \* txmsgptr, txbufptr_ack
        tcnt |-> 0, rcnt |-> 0, len |-> 0,                   \* TxByteCnt, RxByteCnt, rxmsg->len
        hdr |-> TRUE, block |-> FALSE,                       \* rxmsg and its payload
        crc |-> <<>>, prev |-> Junk, pre |-> 0, sof |-> 0, delay |-> 0,
        init |-> "null", samp |-> 0,                         \* RSSIInitState, iRSSIcount
        adc |-> "idle", again |-> FALSE]]                    \* s.state, s.reqMask of the ADC
  /\ answered = [m \in RadioMsg |-> "no"]
  /\ tries = [m \in RadioMsg |-> 0]
  /\ received = {}
  /\ noise = 0
  /\ plan \in Plans

\* ker_adc_proc_getData: started, remembered, or dropped in the callback itself.
getData(r) ==
  CASE r.adc = "idle" -> [r EXCEPT !.adc = "busy"]
    [] r.adc = "busy" -> [r EXCEPT !.again = TRUE]
    [] r.adc = "rdy" -> r

\* radio_msg_alloc: posted to the radio.
radio_msg_alloc(m) ==
  LET n == From[m]
      r == radio[n]
  IN  /\ m \in plan.send
      /\ answered[m] = "no" /\ r.msg # m /\ m \notin {r.pq[i] : i \in DOMAIN r.pq}
      /\ IF r.busy THEN radio' = [radio EXCEPT ![n].pq = Append(@, m)]
         ELSE \E d \in BACKOFF :
                radio' = [radio EXCEPT ![n] = [r EXCEPT !.busy = TRUE, !.pend = TRUE,
                                                        !.delay = d, !.msg = m]]
      /\ UNCHANGED <<answered, tries, received, noise, plan>>

--------------------------------------------------------------------------------
\* One SPI interrupt.  A step is the new radio, the message that is answered or
\* handed up (0 if none), and whether memory was missing.
Step(r) == [r |-> r, done |-> 0, up |-> 0, nomem |-> FALSE]

\* msg_create, which may fail.
WithHeader(s) == {s, [s EXCEPT !.r.hdr = FALSE, !.nomem = TRUE]}

ReadCrc(r) == [r EXCEPT !.next = CrcByte(r.crc, "lo"), !.tx = "crc"]
Summed(r, b) == [r EXCEPT !.next = b, !.crc = Append(@, b)]

\* TXSTATE_DONE: try again, or answer and take the next message of the queue.
Finish(r) ==
  IF ~r.ack /\ Dst[r.msg] # BCAST /\ r.retry < TX_RETRY
  THEN [Step(r) EXCEPT !.r.retry = @ + 1]
  ELSE [Step(r) EXCEPT !.done = r.msg, !.r.retry = 0,
                       !.r.msg = IF r.pq = <<>> THEN 0 ELSE Head(r.pq),
                       !.r.pq = IF @ = <<>> THEN @ ELSE Tail(@)]

\* Mutant: the queue is left to the next radio_msg_alloc.
Rearm_idle(s, d) ==
  [s EXCEPT !.r.pend = FALSE, !.r.busy = FALSE, !.r.delay = d, !.r.mode = "rx",
            !.r.st = "idle", !.r.init = "idle"]

\* The rest of TXSTATE_DONE, with backoff d for the message that is next.
Rearm(s, d) ==
  LET more == s.r.msg # 0
      u == [s EXCEPT !.r.pend = more, !.r.busy = more, !.r.mode = "rx",
                     !.r.delay = IF more THEN d ELSE @, !.r.st = "idle", !.r.init = "idle"]
  IN  [u EXCEPT !.r = getData(u.r)]

\* Mutant: the acknowledgement is not waited for.
Acknowledged_none(r, b) == TRUE

\* The end of the acknowledgement is in search_word.
Acknowledged(r, b) == r.prev = Ack2 /\ b = Ack3

\* TX_STATE when data_in is b: NextTxByte is written, the next one prepared.
TxInterrupt(old, b) ==
  LET r == [old EXCEPT !.out = old.next, !.tcnt = @ + 1]
      m == r.msg
  IN  CASE r.tx = "preamble" ->
             {Step(IF r.tcnt < PREAMBLE THEN r ELSE [r EXCEPT !.next = Sync1, !.tx = "sync"])}
        [] r.tx = "sync" -> {Step([r EXCEPT !.next = Sync2, !.tx = "preheader", !.tcnt = -1])}
        [] r.tx = "preheader" -> {Step([r EXCEPT !.next = Group, !.tx = "header", !.tcnt = -1])}
        [] r.tx = "header" ->
             {Step(IF r.tcnt < HEAD_SIZE THEN Summed(r, HeadByte(m, r.tcnt))
                   ELSE IF MsgLen[m] # 0
                   THEN [Summed(r, DataByte(m, 0)) EXCEPT !.tcnt = 0, !.tx = "data"]
                   ELSE ReadCrc(r))}
        [] r.tx = "data" ->
             {Step(IF r.tcnt < MsgLen[m] THEN Summed(r, DataByte(m, r.tcnt)) ELSE ReadCrc(r))}
        [] r.tx = "crc" ->
             {Step([r EXCEPT !.next = CrcByte(r.crc, "hi"), !.tx = "flush", !.tcnt = 0])}
        [] r.tx = "flush" ->
             {Step(IF r.tcnt <= 3 THEN r
                   ELSE IF Dst[m] # BCAST THEN [r EXCEPT !.tcnt = 0, !.tx = "wait_for_ack"]
                   ELSE [r EXCEPT !.ack = TRUE, !.tx = "done"])}
        [] r.tx = "wait_for_ack" ->
             LET q == IF r.tcnt = 1 THEN [r EXCEPT !.mode = "rx"] ELSE r
             IN  {Step(IF r.tcnt <= 3 THEN q
                       ELSE [q EXCEPT !.tx = "read_ack", !.tcnt = 0, !.prev = Junk])}
        [] r.tx = "read_ack" ->
             {Step(IF Acknowledged(r, b) THEN [r EXCEPT !.ack = TRUE, !.tx = "done"]
                   ELSE IF r.tcnt = MAX_ACK_WAIT THEN [r EXCEPT !.ack = FALSE, !.tx = "done"]
                   ELSE [r EXCEPT !.prev = b])}
        [] r.tx = "done" -> {Rearm(Finish(r), d) : d \in BACKOFF}

\* IDLE_STATE: count preamble bytes, or count down to the next transmission.
IdleInterrupt(r, b) ==
  LET sync == [r EXCEPT !.pre = 0, !.sof = 0, !.rcnt = 0, !.crc = <<>>, !.st = "sync"]
  IN  IF b = Preamble
      THEN IF r.pre + 1 <= PRECURSOR THEN {Step([r EXCEPT !.pre = @ + 1])}
           ELSE IF r.hdr THEN {Step(sync)}
           ELSE {Step([sync EXCEPT !.hdr = TRUE]),
                 [Step([sync EXCEPT !.st = "idle"]) EXCEPT !.nomem = TRUE]}
      ELSE IF ~r.pend THEN {Step(r)}
      ELSE IF r.delay - 1 > 0 THEN {Step([r EXCEPT !.delay = @ - 1])}
      ELSE {Step(getData([r EXCEPT !.delay = 0, !.st = "pretx", !.init = "pretx",
                                   !.samp = 0, !.pre = 0]))}

\* SYNC_STATE: look for the two sync bytes.
SyncInterrupt(r, b) ==
  LET q == [r EXCEPT !.prev = b, !.sof = @ + 1]
  IN  IF b = Preamble THEN r
      ELSE IF r.sof > 2 THEN [r EXCEPT !.st = "idle", !.sof = @ + 1]
      ELSE IF r.sof > 0 /\ r.prev = Sync1 /\ b = Sync2
      THEN getData([q EXCEPT !.st = "rx", !.rx = "preheader", !.init = "rx"])
      ELSE q

\* The message whose bytes were received, if they are all there.
Frame(r) == LET M == {m \in RadioMsg : r.crc = Body(m)}
            IN  IF M = {} THEN 0 ELSE CHOOSE m \in M : TRUE

\* Mutant: a packet with a bad CRC keeps its payload.
Discard_keep(r) == [r EXCEPT !.st = "idle"]

Discard(r) == [r EXCEPT !.st = "idle", !.block = FALSE]

\* RXSTATE_CRC_BYTE2.
LastByte(n, r, b) ==
  IF r.prev = CrcByte(r.crc, "lo") /\ b = CrcByte(r.crc, "hi")
  THEN IF Dst[Frame(r)] = n
       THEN {Step([r EXCEPT !.st = "sending_ack", !.mode = "tx", !.out = Preamble, !.rcnt = 0])}
       ELSE WithHeader([Step([r EXCEPT !.st = "idle", !.block = FALSE]) EXCEPT !.up = Frame(r)])
  ELSE {Step(Discard(r))}

\* RXSTATE_HEADER once the header is there: its len decides.  A changed len may be
\* any length, more than 128 included.
Lengths(b) == IF b \in {HeadByte(m, 1) : m \in RadioMsg} THEN {MsgLen[b[2]]} ELSE {0, 1, 129}

Header(r, len) ==
  IF len = 0 THEN {Step([r EXCEPT !.rx = "crc1", !.len = 0])}
  ELSE IF len > 128 THEN {Step([r EXCEPT !.st = "idle"])}
  ELSE {Step([r EXCEPT !.block = TRUE, !.rcnt = 0, !.len = len, !.rx = "data"]),
        [Step([r EXCEPT !.st = "idle"]) EXCEPT !.nomem = TRUE]}

\* RX_STATE
RxInterrupt(n, r, b) ==
  LET q == [r EXCEPT !.rcnt = @ + 1, !.crc = Append(@, b)]
  IN  CASE r.rx = "preheader" ->
             {Step([r EXCEPT !.st = IF b = Group THEN "rx" ELSE "idle", !.rx = "header"])}
        [] r.rx = "header" -> IF q.rcnt < HEAD_SIZE THEN {Step(q)}
                              ELSE UNION {Header(q, len) : len \in Lengths(b)}
        [] r.rx = "data" -> {Step(IF q.rcnt = r.len THEN [q EXCEPT !.rx = "crc1"] ELSE q)}
        [] r.rx = "crc1" -> {Step([r EXCEPT !.prev = b, !.rx = "crc2"])}
        [] r.rx = "crc2" -> LastByte(n, r, b)

\* The byte written when RxByteCnt is c; past the end of ack_code it is whatever
\* lies there.
AckByte(c) ==
  LET at == c + Len(ack_code) + 2 - ACK_LENGTH
  IN  IF at < 0 THEN Preamble ELSE IF at < Len(ack_code) THEN ack_code[at + 1] ELSE Junk

\* SENDING_ACK
AckInterrupt(r) ==
  LET q == [r EXCEPT !.rcnt = @ + 1]
  IN  IF q.rcnt >= ACK_LENGTH
      THEN WithHeader([Step([q EXCEPT !.mode = "rx", !.st = "idle", !.block = FALSE])
                         EXCEPT !.up = Frame(r)])
      ELSE {Step([q EXCEPT !.out = AckByte(q.rcnt)])}

\* cc1k_radio_spi_interrupt with data_in b; the interrupt has loaded SPDR.
cc1k_radio_spi_interrupt(n, old, b) ==
  LET r == [old EXCEPT !.spdr = old.out]
  IN  CASE r.st = "tx" -> TxInterrupt(r, b)
        [] r.st = "idle" -> IdleInterrupt(r, b)
        [] r.st = "pretx" ->
             IF b = Preamble THEN {Step([r EXCEPT !.st = "idle", !.delay = d]) : d \in BACKOFF}
             ELSE {Step(r)}
        [] r.st = "sync" -> {Step(SyncInterrupt(r, b))}
        [] r.st = "rx" -> RxInterrupt(n, r, b)
        [] r.st = "sending_ack" -> AckInterrupt(r)

\* What n hears: the byte of the other node if that one is sending.
Heard(n) == IF radio[Other(n)].mode = "tx" THEN radio[Other(n)].spdr ELSE Junk

\* What the nodes hear: that, or noise has changed it for one of them.
Hearings ==
  LET clean == [n \in RadioNode |-> Heard(n)]
  IN  {clean} \cup {[clean EXCEPT ![n] = b] : n \in RadioNode, b \in {Preamble, Junk}}

\* On how many of the two nodes f holds.
Count(f) == IF \A n \in RadioNode : f[n] THEN 2 ELSE IF \E n \in RadioNode : f[n] THEN 1 ELSE 0

\* One byte passes on the air, and each node takes its interrupt.
byte_time ==
  \E b \in Hearings :
    LET hits == Count([n \in RadioNode |-> b[n] # Heard(n)])
    IN  /\ noise + hits <= plan.noise
        /\ \E can \in {[n \in RadioNode |-> cc1k_radio_spi_interrupt(n, radio[n], b[n])]} :
           \E s \in [RadioNode -> UNION {can[n] : n \in RadioNode}] :
             /\ \A n \in RadioNode : s[n] \in can[n]
             /\ noise' = noise + hits + Count([n \in RadioNode |-> s[n].nomem])
             /\ noise' <= plan.noise
             /\ radio' = [n \in RadioNode |-> s[n].r]
             /\ received' = received \cup {<<n, s[n].up>> : n \in {k \in RadioNode : s[k].up # 0}}
             /\ answered' = [m \in RadioMsg |->
                               IF s[From[m]].done # m THEN answered[m]
                               ELSE IF radio[From[m]].ack THEN "acked" ELSE "failed"]
             /\ UNCHANGED <<tries, plan>>

\* SquelchTimer_fired
squelch_timer_fired(n) ==
  /\ radio[n].st = "idle"
  /\ radio' = [radio EXCEPT ![n] = getData([@ EXCEPT !.init = "idle"])]
  /\ UNCHANGED <<answered, tries, received, noise, plan>>

\* RSSIADC_dataReady: in PRETX_STATE a clear channel starts the transmission.
RSSIADC_dataReady(r, clear) ==
  CASE r.st \in {"idle", "rx"} -> {[r EXCEPT !.init = "null"]}
    [] r.st = "pretx" /\ clear /\ r.init = "pretx" ->
         {[r EXCEPT !.samp = RSSI_SAMPLES, !.tcnt = 0, !.crc = <<>>, !.st = "tx",
                    !.tx = "preamble", !.next = Preamble, !.out = Preamble, !.mode = "tx",
                    !.init = "null"]}
    [] r.st = "pretx" /\ ~(clear /\ r.init = "pretx") ->
         IF r.samp + 1 = RSSI_SAMPLES
         THEN {[r EXCEPT !.samp = @ + 1, !.delay = d, !.st = "idle", !.init = "null"] :
                 d \in BACKOFF}
         ELSE {getData([r EXCEPT !.samp = @ + 1, !.init = "pretx"])}
    [] OTHER -> {r}

\* adc_proc_interrupt: the callback, then the next conversion if one was asked for.
\* The channel is clear unless the other node sends.
adc_proc_interrupt(n) ==
  /\ radio[n].adc = "busy"
  /\ \E r \in RSSIADC_dataReady([radio[n] EXCEPT !.adc = "rdy"], radio[Other(n)].mode = "rx") :
       /\ radio' = [radio EXCEPT ![n] = [r EXCEPT !.adc = IF r.again THEN "busy" ELSE "idle",
                                                  !.again = FALSE]]
       /\ tries' = IF r.st = "tx" /\ radio[n].st # "tx" THEN [tries EXCEPT ![r.msg] = @ + 1]
                   ELSE tries
  /\ UNCHANGED <<answered, received, noise, plan>>

RadioNext ==
  \/ \E m \in RadioMsg : radio_msg_alloc(m)
  \/ byte_time
  \/ \E n \in RadioNode : squelch_timer_fired(n)
  \/ \E n \in RadioNode : adc_proc_interrupt(n)

RadioSpec ==
  /\ RadioInit /\ [][RadioNext]_radioVars
  /\ WF_radioVars(byte_time)
  /\ \A n \in RadioNode : WF_radioVars(adc_proc_interrupt(n))

--------------------------------------------------------------------------------
RadioTypeOK ==
  /\ \A n \in RadioNode :
       /\ radio[n].st \in {"idle", "pretx", "tx", "sync", "rx", "sending_ack"}
       /\ radio[n].msg \in RadioMsg \cup {0}
       /\ radio[n].retry \in 0..TX_RETRY
       /\ radio[n].adc \in {"idle", "busy"}
  /\ answered \in [RadioMsg -> {"no", "acked", "failed"}]
  /\ noise \in 0..plan.noise

\* txmsgptr is there whenever the state machine uses it, and a message waits in the
\* queue only while another one is in work: none is left behind when radio_msg_alloc
\* and the end of a transmission meet.
TxSound ==
  \A n \in RadioNode :
    LET r == radio[n]
    IN  /\ r.busy <=> r.msg # 0
        /\ r.pend <=> r.busy
        /\ r.st \in {"pretx", "tx"} => r.busy
        /\ r.pq # <<>> => r.busy

\* The sender is told that a message got through only if the receiver has it whole,
\* or hands it up as soon as the acknowledgement is out.
AckedReceived ==
  \A m \in RadioMsg : answered[m] = "acked" /\ Dst[m] # BCAST =>
    LET r == radio[Dst[m]]
    IN  <<Dst[m], m>> \in received \/ (r.st = "sending_ack" /\ Frame(r) = m)

\* A message is given up only after all its retries, whatever became of the message
\* before it.
FullRetry == \A m \in RadioMsg : answered[m] = "failed" => tries[m] = TX_RETRY + 1

\* The radio holds a payload block only while it receives into it or acknowledges:
\* every way out of a reception frees it or hands it up.
RxBlocks ==
  \A n \in RadioNode : radio[n].block =>
    radio[n].st = "sending_ack" \/ (radio[n].st = "rx" /\ radio[n].rx \in {"data", "crc1", "crc2"})

\* The states of the radio agree with its queue, its message and its block: no message
\* waits without a transmission to end, none is given up early, and no block of a
\* reception is lost.
RadioSound == RadioTypeOK /\ TxSound /\ RxBlocks /\ FullRetry

\* While only one node sends, each of its messages arrives and is acknowledged: the
\* acknowledgement falls into the time in which the sender reads it, and the
\* retries outlast the noise.
Arrives ==
  \A m \in RadioMsg :
    plan.noise <= TX_RETRY /\ (\A k \in plan.send : From[k] = From[m]) =>
      ((radio[From[m]].msg = m) ~> (answered[m] = "acked"))
================================================================================
