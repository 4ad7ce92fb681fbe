------------------------------ MODULE PayloadProofs ----------------------------
(***************************************************************************)
(* Who owns the payloads of messages in Sched, for every number of         *)
(* headers, blocks and modules, without and with garbage collection.       *)
(***************************************************************************)
EXTENDS SchedProofs

--------------------------------------------------------------------------------
\* Payloads.

\* No module asks to give a payload away and to have it back.
NoReleasedReliable == \A f \in FlagSets : ~ ({"RELEASE", "RELIABLE"} \subseteq f)

\* A message that comes back in a SENDDONE releases nothing.
PlainInv ==
  /\ \A h \in Alloc : "RELIABLE" \in hdr[h].flag => "RELEASE" \notin hdr[h].flag
  /\ \A s \in SendDones : "RELEASE" \notin hdr[hdr[s].data].flag

\* Who owns a released payload, and that it belongs to one message only.
RelInv ==
  \A h \in Hdr : Released(h) =>
    /\ own[hdr[h].data] = IF h = run.e THEN run.pid ELSE SCHED
    /\ \A p \in Pid : hdr[h].data \notin held[p]
    /\ \A g \in Hdr : Released(g) /\ hdr[g].data = hdr[h].data => g = h

\* The inductive invariant of payload ownership, on top of HInv and OType.
OInv == PlainInv /\ RelInv /\ HeldIsOwned /\ NoPayloadLeak /\ HandlerRegistered

\* The invariant says what the checked properties say.
LEMMA OInvImplies == HInv /\ OInv => ReleasedOwned /\ HeldIsOwned /\ NoPayloadLeak
<1>. SUFFICES ASSUME HInv, OInv PROVE ReleasedOwned
  BY DEF OInv
<1>1. Handled \cap Queued = {} /\ Queued \subseteq Hdr /\ \A h \in Hdr : h = run.e => h \in Handled
  BY HandledAlloc DEF HInv, QueueSound, Alloc, Handled
<1>. QED BY <1>1 DEF ReleasedOwned, OInv, RelInv, Alloc

\* Posting message msg, which gives block b away if it is released.
LEMMA PostOInv ==
  ASSUME HInv, OType, OInv, NEW msg \in Message, NEW p \in Pid, NEW h \in Hdr,
         msg.type # "SENDDONE", {"RELEASE", "RELIABLE"} \subseteq msg.flag => FALSE,
         PostOK(h, msg),
         "RELEASE" \in msg.flag => msg.data = NULL \/ msg.data \in held[p],
         held' = IF "RELEASE" \in msg.flag THEN [held EXCEPT ![p] = @ \ {msg.data}] ELSE held,
         run' = run
  PROVE  PlainInv' /\ RelInv' /\ HeldIsOwned' /\ NoPayloadLeak'
<1>. USE ConstFacts
<1>1. /\ hdr[h] = NULL /\ hdr'[h] = msg /\ msg # NULL /\ \A g \in Hdr : g # h => hdr'[g] = hdr[g]
  BY DEF PostOK, HInv, HType
<1>2. h \notin Alloc /\ h \notin SendDones /\ h # run.e /\ Alloc' = Alloc \cup {h}
  <2>1. run.e \in Hdr => run.e \in Alloc
    BY HandledAlloc, SMTT(30) DEF Handled
  <2>. QED BY <1>1, <2>1 DEF Alloc, SendDones
<1>3. SendDones' = SendDones /\ \A s \in SendDones : hdr[s].data \in Alloc /\ hdr'[s] = hdr[s]
  BY <1>1, <1>2 DEF SendDones, Alloc, HInv, SendDoneSound, Carried
<1>4. PlainInv'
  <2>1. \A s \in SendDones' : hdr'[hdr'[s].data] = hdr[hdr[s].data]
    BY <1>1, <1>2, <1>3 DEF Alloc
  <2>2. \A s \in SendDones' : "RELEASE" \notin hdr'[hdr'[s].data].flag
    BY <1>3, <2>1, SMTT(30) DEF OInv, PlainInv
  <2>3. \A g \in Alloc' : "RELIABLE" \in hdr'[g].flag => "RELEASE" \notin hdr'[g].flag
    BY <1>1, <1>2 DEF OInv, PlainInv, Alloc
  <2>. QED BY <2>2, <2>3 DEF PlainInv
<1>5. \A g \in Hdr : g # h => (Released(g)' <=> Released(g)) /\ hdr'[g].data = hdr[g].data
  BY <1>1 DEF Released
<1>6. ~Released(h)
  BY <1>1 DEF Released
<1>7. CASE ~Released(h)'
  <2>1. own' = own /\ \A x \in Pid : held'[x] = held[x]
    BY <1>1, <1>7 DEF Released, PostOK, ker_change_own, OType
  <2>2. RelInv'
    BY <1>5, <1>6, <1>7, <2>1 DEF OInv, RelInv
  <2>3. HeldIsOwned'
    BY <2>1 DEF OInv, HeldIsOwned
  <2>4. NoPayloadLeak'
    BY <1>5, <1>6, <2>1 DEF OInv, NoPayloadLeak
  <2>. QED BY <1>4, <2>2, <2>3, <2>4
<1>8. CASE Released(h)'
  <2>. DEFINE b == msg.data
  <2>1. b \in Blk /\ "RELEASE" \in msg.flag /\ b \in held[p] /\ own[b] = p /\ p # FREE
    BY <1>1, <1>8 DEF Released, OInv, HeldIsOwned
  <2>2. /\ own'[b] = SCHED /\ \A x \in Blk : x # b => own'[x] = own[x]
        /\ held'[p] = held[p] \ {b} /\ \A x \in Pid : x # p => held'[x] = held[x]
    BY <2>1 DEF PostOK, ker_change_own, OType
  <2>3. \A x \in Pid : b \notin held'[x]
    BY <2>1, <2>2 DEF OInv, HeldIsOwned
  <2>4. \A g \in Hdr : Released(g) => hdr[g].data # b
    BY <2>1, SMTT(30) DEF OInv, RelInv
  <2>5. RelInv'
    <3>1. ASSUME NEW g \in Hdr, Released(g)', g # h
          PROVE  /\ hdr'[g].data # b /\ hdr'[g].data \in Blk
                 /\ own'[hdr'[g].data] = IF g = run'.e THEN run'.pid ELSE SCHED
                 /\ \A x \in Pid : hdr'[g].data \notin held'[x]
                 /\ \A k \in Hdr : Released(k)' /\ hdr'[k].data = hdr'[g].data => k = g
      <4>1. Released(g) /\ hdr[g].data = hdr'[g].data /\ hdr[g].data # b /\ hdr[g].data \in Blk
        BY <1>5, <2>4, <3>1 DEF Released
      <4>. QED BY <1>1, <1>5, <2>2, <4>1 DEF OInv, RelInv
    <3>. QED BY <1>1, <1>2, <2>1, <2>2, <2>3, <3>1, SMTT(30) DEF RelInv
  <2>6. HeldIsOwned'
    BY <2>1, <2>2, <2>3 DEF OInv, HeldIsOwned, OType
  <2>7. NoPayloadLeak'
    <3>1. SUFFICES ASSUME NEW x \in Blk, own'[x] # FREE, x # b
                   PROVE  \/ \E y \in Pid : x \in held'[y]
                          \/ \E g \in Hdr : Released(g)' /\ hdr'[g].data = x
      BY <1>1, <1>8 DEF NoPayloadLeak
    <3>2. CASE \E y \in Pid : x \in held[y]
      BY <2>2, <3>1, <3>2
    <3>3. CASE \E g \in Hdr : Released(g) /\ hdr[g].data = x
      BY <1>5, <1>6, <3>3
    <3>. QED BY <2>2, <3>1, <3>2, <3>3 DEF OInv, NoPayloadLeak
  <2>. QED BY <1>4, <2>5, <2>6, <2>7
<1>. QED BY <1>7, <1>8, SMTT(30)

\* Giving a block back to the heap, or taking one from it, when no message
\* releases it.
LEMMA BlockOInv ==
  ASSUME OType, OInv, hdr' = hdr, run' = run, NEW p \in Pid, NEW b \in Blk,
         \A h \in Hdr : Released(h) => hdr[h].data # b,
         \A x \in Blk : x # b => own'[x] = own[x],
         \A x \in Pid : x # p => held'[x] = held[x] /\ b \notin held[x],
         \/ own'[b] = FREE /\ held'[p] = held[p] \ {b}
         \/ own'[b] = p /\ held'[p] = held[p] \cup {b}
  PROVE  PlainInv' /\ RelInv' /\ HeldIsOwned' /\ NoPayloadLeak'
<1>. USE ConstFacts
<1>1. \A h \in Hdr : Released(h)' <=> Released(h)
  BY DEF Released
<1>2. Alloc' = Alloc /\ SendDones' = SendDones
  BY SMTT(30) DEF Alloc, SendDones
<1>3. PlainInv'
  BY <1>2 DEF OInv, PlainInv
<1>4. RelInv'
  <2>1. SUFFICES ASSUME NEW h \in Hdr, Released(h)
                 PROVE  /\ own'[hdr[h].data] = IF h = run.e THEN run.pid ELSE SCHED
                        /\ \A x \in Pid : hdr[h].data \notin held'[x]
                        /\ \A g \in Hdr : Released(g) /\ hdr[g].data = hdr[h].data => g = h
    BY <1>1, SMTT(30) DEF RelInv
  <2>2. hdr[h].data \in Blk /\ hdr[h].data # b
    BY <2>1, SMTT(30) DEF Released
  <2>. QED BY <2>1, <2>2, SMTT(30) DEF OInv, RelInv
<1>5. HeldIsOwned'
  BY SMTT(30) DEF OInv, HeldIsOwned, OType
<1>6. NoPayloadLeak'
  <2>1. SUFFICES ASSUME NEW x \in Blk, own'[x] # FREE
                 PROVE  \/ \E y \in Pid : x \in held'[y]
                        \/ \E g \in Hdr : Released(g) /\ hdr[g].data = x
    BY <1>1, SMTT(30) DEF NoPayloadLeak
  <2>2. CASE x = b
    BY <2>1, <2>2
  <2>3. CASE x # b
    BY <2>1, <2>3, SMTT(30) DEF OInv, NoPayloadLeak
  <2>. QED BY <2>2, <2>3, SMTT(30)
<1>. QED BY <1>3, <1>4, <1>5, <1>6, SMTT(30)

\* Nothing happens to messages, owners and holders.
LEMMA SameOInv ==
  ASSUME OInv, hdr' = hdr, own' = own, held' = held, run'.e = run.e, run'.pid = run.pid
  PROVE  PlainInv' /\ RelInv' /\ HeldIsOwned' /\ NoPayloadLeak'
<1>1. \A h \in Hdr : Released(h)' <=> Released(h)
  BY DEF Released
<1>2. Alloc' = Alloc /\ SendDones' = SendDones
  BY DEF Alloc, SendDones
<1>. QED BY <1>1, <1>2 DEF OInv, PlainInv, RelInv, HeldIsOwned, NoPayloadLeak

\* What do_dispatch knows of the payloads with message e in hand.
PayloadInHand(e) ==
  \A h \in Hdr : Released(h) =>
    /\ h # e => own[hdr[h].data] = SCHED
    /\ \A p \in Pid : hdr[h].data \notin held[p]
    /\ \A g \in Hdr : Released(g) /\ hdr[g].data = hdr[h].data => g = h

\* Whoever is left with a released payload after do_dispatch is a queued message.
LEMMA FinishRelInv ==
  ASSUME NEW e, PayloadInHand(e), run'.e = NULL, NULL \notin Hdr, held' = held,
         \A h \in Hdr : Released(h)' => /\ Released(h) /\ h # e /\ hdr'[h].data = hdr[h].data
                                        /\ own'[hdr[h].data] = own[hdr[h].data]
  PROVE  RelInv'
<1>1. SUFFICES ASSUME NEW h \in Hdr, Released(h)'
               PROVE  /\ own'[hdr'[h].data] = IF h = run'.e THEN run'.pid ELSE SCHED
                      /\ \A p \in Pid : hdr'[h].data \notin held'[p]
                      /\ \A g \in Hdr : Released(g)' /\ hdr'[g].data = hdr'[h].data => g = h
  BY DEF RelInv
<1>2. /\ Released(h) /\ h # e /\ h # run'.e /\ hdr'[h].data = hdr[h].data
      /\ own'[hdr[h].data] = own[hdr[h].data]
  BY <1>1
<1>3. own[hdr[h].data] = SCHED /\ \A p \in Pid : hdr[h].data \notin held[p]
  BY <1>2 DEF PayloadInHand
<1>4. ASSUME NEW g \in Hdr, Released(g)', hdr'[g].data = hdr'[h].data PROVE g = h
  BY <1>2, <1>4 DEF PayloadInHand
<1>. QED BY <1>2, <1>3, <1>4

\* However do_dispatch ends, it frees the payload of its own message only.
LEMMA FinishOInv ==
  ASSUME NEW qq, NEW e, NEW ok \in BOOLEAN, InHand(qq, e), OType, PayloadInHand(e),
         PlainInv, HeldIsOwned, NoPayloadLeak,
         FinishDispatch(qq, e, InnerOf(e), SdstOf(e), ok), run' = Idle, held' = held
  PROVE  PlainInv' /\ RelInv' /\ HeldIsOwned' /\ NoPayloadLeak'
<1>. USE ConstFacts
<1>0. /\ e \in Hdr /\ hdr[e] \in Message /\ e \in Alloc /\ run'.e = NULL
      /\ \A h \in Alloc : h \in Hdr /\ hdr[h] \in Message /\ hdr[h] # NULL
      /\ \A s \in SendDones : s \in Alloc /\ hdr[s].data \in Alloc /\ hdr[s].data # e
                               /\ hdr[s].data \notin SendDones
  <2>1. run'.e = NULL
    BY DEF Idle
  <2>2. /\ e \in Hdr /\ hdr[e] \in Message /\ e \in Alloc
        /\ \A h \in Alloc : h \in Hdr /\ hdr[h] \in Message /\ hdr[h] # NULL
    BY DEF InHand, Alloc
  <2>3. ASSUME NEW s \in SendDones
        PROVE  /\ s \in Alloc /\ hdr[s].data \in Alloc /\ hdr[s].data # e
               /\ hdr[s].data \notin SendDones
    BY <2>3 DEF InHand, SendDones, Carried
  <2>. QED BY <2>1, <2>2, <2>3
<1>1. CASE InnerOf(e) # NULL /\ DisposeBoth(qq, e, InnerOf(e))
  <2>. DEFINE i == InnerOf(e)
  <2>1. e \in SendDones /\ i = hdr[e].data /\ i \in Alloc /\ i # e /\ i \in Hdr
    BY <1>0, <1>1, SMTT(30) DEF InnerOf, SendDones
  <2>2. "RELEASE" \notin hdr[i].flag /\ "RELEASE" \notin hdr[e].flag
    BY <1>0, <2>1, SMTT(30) DEF PlainInv, InHand, MsgSound, SendDones
  <2>. HIDE DEF i
  <2>3. own' = own
    BY <1>1, <2>2 DEF DisposeBoth, DisposeOwn, i
  <2>4. /\ hdr'[i] = NULL /\ hdr'[e] = NULL
        /\ \A g \in Hdr : g # i /\ g # e => hdr'[g] = hdr[g]
    <3>1. hdr' = [hdr EXCEPT ![i] = NULL, ![e] = NULL]
      BY <1>1 DEF DisposeBoth, i
    <3>2. hdr \in [Hdr -> Message \cup {NULL}]
      BY SMTT(30) DEF InHand
    <3>. QED BY <1>0, <2>1, <3>1, <3>2
  <2>5. \A g \in Hdr : (Released(g)' <=> Released(g)) /\ (Released(g) => hdr'[g] = hdr[g] /\ g # e)
    BY <2>2, <2>4, SMTT(30) DEF Released
  <2>6. Alloc' = Alloc \ {i, e} /\ \A s \in SendDones' : s \in SendDones /\ hdr'[s] = hdr[s] /\ s # e
    BY <2>4 DEF Alloc, SendDones
  <2>7. \A s \in SendDones' : hdr[s].data # i /\ hdr[s].data # e /\ hdr[s].data \in Hdr
    BY <1>0, <2>1, <2>6, SMTT(30) DEF InHand
  <2>8. PlainInv'
    BY <2>4, <2>6, <2>7, SMTT(30) DEF PlainInv, Alloc
  <2>9. RelInv'
    BY <1>0, <2>3, <2>5, FinishRelInv
  <2>10. HeldIsOwned' /\ NoPayloadLeak'
    BY <2>3, <2>5 DEF HeldIsOwned, NoPayloadLeak
  <2>. QED BY <2>8, <2>9, <2>10, SMTT(30)
<1>2. CASE InnerOf(e) = NULL /\ SendSendDone(qq, e, SdstOf(e), ok)
  <2>1. PICK h \in FreeHdr : hdr' = [hdr EXCEPT ![h] = SendDoneMsg(e, SdstOf(e), ok)]
    BY <1>2, ZenonT(30) DEF SendSendDone
  <2>. DEFINE sd == SendDoneMsg(e, SdstOf(e), ok)
  <2>2. "RELIABLE" \in hdr[e].flag /\ SdstOf(e) \in Pid /\ own' = own
    BY <1>0, <1>2, SMTT(30) DEF SdstOf, SendSendDone, InHand, MsgSound
  <2>3. sd.flag \subseteq {"SEND_FAIL"} /\ sd.data = e /\ sd.type = "SENDDONE" /\ sd # NULL
    <3>1. sd \in Message /\ sd.flag \subseteq {"SEND_FAIL"} /\ sd.data = e /\ sd.type = "SENDDONE"
      BY <1>0, <2>2, SendDoneMsgType, SMTT(30)
    <3>. QED BY <3>1, SMTT(30)
  <2>. HIDE DEF sd
  <2>4. h \in Hdr /\ hdr[h] = NULL /\ h # e /\ hdr'[h] = sd
        /\ \A g \in Hdr : g # h => hdr'[g] = hdr[g]
    BY <1>0, <2>1, SMTT(30) DEF FreeHdr, InHand, sd, Alloc
  <2>5. \A g \in Hdr : (Released(g)' <=> Released(g)) /\ (Released(g) => hdr'[g] = hdr[g])
    <3>1. ~Released(h) /\ ~Released(h)'
      BY <2>3, <2>4, SMTT(30) DEF Released
    <3>2. ASSUME NEW g \in Hdr, g # h PROVE (Released(g)' <=> Released(g)) /\ hdr'[g] = hdr[g]
      BY <2>4, <3>2 DEF Released
    <3>. QED BY <3>1, <3>2, Zenon
  <2>6. ~Released(e)
    BY <1>0, <2>2, ZenonT(30) DEF PlainInv, Released
  <2>7. Alloc' = Alloc \cup {h} /\ \A s \in SendDones' : s = h \/ (s \in SendDones /\ hdr'[s] = hdr[s])
    <3>1. Alloc' = Alloc \cup {h}
      BY <2>3, <2>4, SMTT(30) DEF Alloc
    <3>2. ASSUME NEW s \in SendDones', s # h PROVE s \in SendDones /\ hdr'[s] = hdr[s]
      BY <2>4, <3>2, SMTT(30) DEF Alloc, SendDones
    <3>. QED BY <3>1, <3>2, ZenonT(30)
  <2>8. \A s \in SendDones' : hdr'[hdr'[s].data] = hdr[hdr'[s].data]
    BY <1>0, <2>3, <2>4, <2>7, SMTT(30)
  <2>9. \A s \in SendDones' : "RELEASE" \notin hdr'[hdr'[s].data].flag
    BY <1>0, <2>2, <2>3, <2>4, <2>7, <2>8, SMTT(30) DEF PlainInv
  <2>10. PlainInv'
    BY <1>0, <2>3, <2>4, <2>7, <2>9, SMTT(30) DEF PlainInv, Alloc
  <2>11. RelInv'
    BY <1>0, <2>2, <2>5, <2>6, FinishRelInv
  <2>12. HeldIsOwned' /\ NoPayloadLeak'
    BY <2>2, <2>5 DEF HeldIsOwned, NoPayloadLeak
  <2>. QED BY <2>10, <2>11, <2>12
<1>3. CASE InnerOf(e) = NULL /\ DisposeOne(qq, e, SdstOf(e))
  <2>1. /\ hdr'[e] = NULL /\ \A g \in Hdr : g # e => hdr'[g] = hdr[g]
        /\ own' = DisposeOwn(own, e)
    BY <1>0, <1>3, SMTT(30) DEF DisposeOne, InHand
  <2>2. Alloc' = Alloc \ {e} /\ \A s \in SendDones' : s \in SendDones /\ hdr'[s] = hdr[s]
    BY <2>1, SMTT(30) DEF Alloc, SendDones
  <2>3. PlainInv'
    BY <1>0, <2>1, <2>2, ZenonT(30) DEF PlainInv, Alloc
  <2>4. \A g \in Hdr : Released(g)' <=> Released(g) /\ g # e
    BY <2>1, Zenon DEF Released
  <2>5. CASE ~Released(e)
    <3>1. own' = own
      BY <1>0, <2>1, <2>5, SMTT(30) DEF DisposeOwn, ker_free, Released
    <3>2. RelInv'
      BY <1>0, <2>1, <2>4, <3>1, FinishRelInv
    <3>3. HeldIsOwned'
      BY <3>1, SMTT(30) DEF HeldIsOwned
    <3>4. NoPayloadLeak'
      BY <2>1, <2>4, <2>5, <3>1, ZenonT(30) DEF NoPayloadLeak
    <3>. QED BY <2>3, <3>2, <3>3, <3>4, SMTT(30)
  <2>6. CASE Released(e)
    <3>. DEFINE b == hdr[e].data
    <3>1. b \in Blk /\ own'[b] = FREE /\ \A x \in Blk : x # b => own'[x] = own[x]
      BY <2>1, <2>6, SMTT(30) DEF DisposeOwn, ker_free, Released, OType
    <3>2. \A p \in Pid : b \notin held[p]
      BY <1>0, <2>6, SMTT(30) DEF PayloadInHand
    <3>3. \A g \in Hdr : Released(g) /\ g # e => hdr[g].data # b /\ hdr[g].data \in Blk
      BY <1>0, <2>6, SMTT(30) DEF PayloadInHand, Released
    <3>. HIDE DEF b
    <3>4. RelInv'
      BY <1>0, <2>1, <2>4, <3>1, <3>3, FinishRelInv
    <3>5. HeldIsOwned'
      BY <3>1, <3>2, SMTT(30) DEF HeldIsOwned, OType
    <3>6. NoPayloadLeak'
      <4>1. SUFFICES ASSUME NEW x \in Blk, own[x] # FREE, x # b
                     PROVE  \/ \E y \in Pid : x \in held'[y]
                            \/ \E g \in Hdr : Released(g)' /\ hdr'[g].data = x
        BY <3>1, Zenon DEF NoPayloadLeak
      <4>2. CASE \E y \in Pid : x \in held[y]
        BY <4>2, SMTT(30)
      <4>3. CASE \E g \in Hdr : Released(g) /\ hdr[g].data = x
        <5>1. PICK g \in Hdr : Released(g) /\ hdr[g].data = x
          BY <4>3, SMTT(30)
        <5>2. g # e
          BY <4>1, <5>1, SMTT(30) DEF b
        <5>. QED BY <2>1, <2>4, <5>1, <5>2, ZenonT(30)
      <4>. QED BY <4>1, <4>2, <4>3, ZenonT(30) DEF NoPayloadLeak
    <3>. QED BY <2>3, <3>4, <3>5, <3>6, Zenon
  <2>. QED BY <2>5, <2>6, SMTT(30)
<1>. QED BY <1>1, <1>2, <1>3, SMTT(30) DEF FinishDispatch

\* Calling the handler makes its module the owner of a released payload.
LEMMA StartOInv ==
  ASSUME NEW e \in Alloc, OType, OInv, HInv, run = Idle, hdr[e].did \in Pid,
         hdr' = hdr, held' = held, run'.e = e, run'.pid = hdr[e].did,
         own' = IF "RELEASE" \in hdr[e].flag THEN ker_change_own(own, hdr[e].data, hdr[e].did)
                ELSE own
  PROVE  PlainInv' /\ RelInv' /\ HeldIsOwned' /\ NoPayloadLeak'
<1>. USE ConstFacts
<1>1. \A h \in Hdr : Released(h)' <=> Released(h)
  BY SMTT(30) DEF Released
<1>2. Alloc' = Alloc /\ SendDones' = SendDones /\ e \in Hdr
  BY SMTT(30) DEF Alloc, SendDones
<1>3. PlainInv'
  BY <1>2, SMTT(30) DEF OInv, PlainInv
<1>4. \A h \in Hdr : Released(h) => own[hdr[h].data] = SCHED /\ hdr[h].data \in Blk
  BY SMTT(30) DEF OInv, RelInv, Idle, Released
<1>5. CASE ~Released(e)
  <2>1. own' = own
    BY <1>5, SMTT(30) DEF Released, ker_change_own, Alloc
  <2>2. RelInv'
    BY <1>1, <1>4, <1>5, <2>1, SMTT(30) DEF OInv, RelInv
  <2>. QED BY <1>1, <1>3, <2>1, <2>2 DEF OInv, HeldIsOwned, NoPayloadLeak
<1>6. CASE Released(e)
  <2>. DEFINE b == hdr[e].data
  <2>1. b \in Blk /\ own[b] = SCHED /\ SCHED # FREE
    BY <1>2, <1>4, <1>6, SMTT(30)
  <2>2. own'[b] = hdr[e].did /\ \A x \in Blk : x # b => own'[x] = own[x]
    BY <1>6, <2>1, SMTT(30) DEF Released, ker_change_own, OType
  <2>3. \A h \in Hdr : Released(h) /\ h # e => hdr[h].data # b
    BY <1>2, <1>6, SMTT(30) DEF OInv, RelInv
  <2>4. \A p \in Pid : b \notin held[p]
    BY <1>2, <1>6, SMTT(30) DEF OInv, RelInv
  <2>5. RelInv'
    BY <1>1, <1>4, <2>2, <2>3, ZenonT(30) DEF OInv, RelInv
  <2>6. HeldIsOwned'
    BY <2>2, <2>4, SMTT(30) DEF OInv, HeldIsOwned, OType
  <2>7. NoPayloadLeak'
    BY <1>1, <1>2, <1>6, <2>2 DEF OInv, NoPayloadLeak
  <2>. QED BY <1>3, <2>5, <2>6, <2>7, SMTT(30)
<1>. QED BY <1>5, <1>6, SMTT(30)

\* Removing a module frees what it owns and nothing a message still needs.
LEMMA RemoveOInv ==
  ASSUME OType, OInv, deregister_finish
  PROVE  PlainInv' /\ RelInv' /\ HeldIsOwned' /\ NoPayloadLeak' /\ HandlerRegistered'
<1>. USE ConstFacts
<1>1. fin \in Pid /\ fin # LOADER /\ run.pid = LOADER /\ hdr' = hdr /\ run' = run
  BY DEF deregister_finish, OInv, HandlerRegistered, OType
<1>2. \A h \in Hdr : Released(h)' <=> Released(h)
  BY <1>1 DEF Released
<1>3. Alloc' = Alloc /\ SendDones' = SendDones
  BY <1>1 DEF Alloc, SendDones
<1>4. PlainInv'
  BY <1>1, <1>3 DEF OInv, PlainInv
<1>5. /\ \A b \in Blk : own'[b] = IF own[b] = fin THEN FREE ELSE own[b]
      /\ held'[fin] = {} /\ \A p \in Pid : p # fin => held'[p] = held[p]
  BY <1>1, SMTT(30) DEF deregister_finish, OType
<1>6. \A h \in Hdr : Released(h) => hdr[h].data \in Blk /\ own[hdr[h].data] # fin
  BY <1>1, SMTT(30) DEF OInv, RelInv, Released
<1>7. RelInv'
  <2>1. ASSUME NEW h \in Hdr, Released(h)
        PROVE  /\ own'[hdr[h].data] = own[hdr[h].data]
               /\ \A p \in Pid : hdr[h].data \notin held[p] => hdr[h].data \notin held'[p]
    BY <1>5, <1>6, <2>1
  <2>. QED BY <1>1, <1>2, <2>1 DEF OInv, RelInv
<1>8. HeldIsOwned'
  BY <1>1, <1>5 DEF OInv, HeldIsOwned, OType
<1>9. NoPayloadLeak'
  <2>1. SUFFICES ASSUME NEW x \in Blk, own'[x] # FREE
                 PROVE  \/ \E y \in Pid : x \in held'[y]
                        \/ \E g \in Hdr : Released(g)' /\ hdr'[g].data = x
    BY DEF NoPayloadLeak
  <2>2. own[x] # FREE /\ own[x] # fin
    BY <1>5, <2>1
  <2>3. CASE \E y \in Pid : x \in held[y]
    BY <1>5, <2>2, <2>3 DEF OInv, HeldIsOwned
  <2>4. CASE \E g \in Hdr : Released(g) /\ hdr[g].data = x
    BY <1>1, <1>2, <2>4
  <2>. QED BY <2>2, <2>3, <2>4 DEF OInv, NoPayloadLeak
<1>10. HandlerRegistered'
  <2>1. run # Idle /\ LOADER \in mods
    BY <1>1 DEF OInv, HandlerRegistered, Idle
  <2>. QED BY <1>1, <2>1 DEF deregister_finish, HandlerRegistered
<1>. QED BY <1>4, <1>7, <1>8, <1>9, <1>10

\* A failed post frees the payload it was given.
LEMMA NoMemOInv ==
  ASSUME OType, OInv, NEW msg, NEW p \in Pid, PostNoMem(msg), run' = run,
         "RELEASE" \in msg.flag => msg.data = NULL \/ msg.data \in held[p],
         held' = IF "RELEASE" \in msg.flag THEN [held EXCEPT ![p] = @ \ {msg.data}] ELSE held
  PROVE  PlainInv' /\ RelInv' /\ HeldIsOwned' /\ NoPayloadLeak'
<1>. USE ConstFacts
<1>1. CASE ~("RELEASE" \in msg.flag /\ msg.data \in held[p])
  <2>1. own' = own /\ held' = held
    BY <1>1, SMTT(30) DEF PostNoMem, ker_free, OType
  <2>. QED BY <2>1, SameOInv DEF PostNoMem
<1>2. CASE "RELEASE" \in msg.flag /\ msg.data \in held[p]
  <2>. DEFINE b == msg.data
  <2>1. b \in Blk /\ own[b] = p
    BY <1>2, SMTT(30) DEF OType, OInv, HeldIsOwned
  <2>2. /\ own'[b] = FREE /\ \A x \in Blk : x # b => own'[x] = own[x] /\ hdr' = hdr
        /\ held'[p] = held[p] \ {b} /\ \A x \in Pid : x # p => held'[x] = held[x]
    BY <1>2, <2>1, SMTT(30) DEF PostNoMem, ker_free, OType
  <2>3. /\ \A h \in Hdr : Released(h) => hdr[h].data # b
        /\ \A x \in Pid : x # p => b \notin held[x]
    BY <1>2, <2>1, SMTT(30) DEF OInv, RelInv, HeldIsOwned
  <2>4. hdr' = hdr
    BY SMTT(30) DEF PostNoMem
  <2>. HIDE DEF b
  <2>5. \A x \in Pid : x # p => held'[x] = held[x] /\ b \notin held[x]
    BY <2>2, <2>3, SMTT(30)
  <2>6. \A x \in Blk : x # b => own'[x] = own[x]
    BY <2>2
  <2>. QED BY <2>1, <2>2, <2>3, <2>4, <2>5, <2>6, BlockOInv, SMTT(30)
<1>. QED BY <1>1, <1>2, SMTT(30)

\* The kernel calls on blocks.
LEMMA HeapOInv ==
  ASSUME OType, OInv, NEW p \in Pid, NEW b \in Blk, hdr' = hdr, run' = run,
         \/ b \in held[p] /\ own' = ker_free(own, b) /\ held' = [held EXCEPT ![p] = @ \ {b}]
         \/ own[b] = FREE /\ own' = [own EXCEPT ![b] = p] /\ held' = [held EXCEPT ![p] = @ \cup {b}]
  PROVE  PlainInv' /\ RelInv' /\ HeldIsOwned' /\ NoPayloadLeak'
<1>. USE ConstFacts
<1>1. CASE b \in held[p] /\ own' = ker_free(own, b) /\ held' = [held EXCEPT ![p] = @ \ {b}]
  <2>1. own[b] = p
    BY <1>1 DEF OInv, HeldIsOwned
  <2>2. /\ own'[b] = FREE /\ \A x \in Blk : x # b => own'[x] = own[x]
        /\ held'[p] = held[p] \ {b} /\ \A x \in Pid : x # p => held'[x] = held[x]
    BY <1>1, SMTT(30) DEF ker_free, OType
  <2>3. /\ \A h \in Hdr : Released(h) => hdr[h].data # b
        /\ \A x \in Pid : x # p => b \notin held[x]
    BY <1>1, <2>1, SMTT(30) DEF OInv, RelInv, HeldIsOwned
  <2>. QED BY <2>2, <2>3, BlockOInv
<1>2. CASE /\ own[b] = FREE /\ own' = [own EXCEPT ![b] = p]
           /\ held' = [held EXCEPT ![p] = @ \cup {b}]
  <2>1. /\ own'[b] = p /\ \A x \in Blk : x # b => own'[x] = own[x]
        /\ held'[p] = held[p] \cup {b} /\ \A x \in Pid : x # p => held'[x] = held[x]
    BY <1>2 DEF OType
  <2>2. \A x \in Pid : b \notin held[x]
    BY <1>2, SMTT(30) DEF OInv, HeldIsOwned
  <2>3. \A h \in Hdr : Released(h) => hdr[h].data # b
    BY <1>2, SMTT(30) DEF OInv, RelInv, HandlerRegistered, Released, Idle, OType
  <2>. QED BY <2>1, <2>2, <2>3, BlockOInv
<1>. QED BY <1>1, <1>2, SMTT(30)

\* ker_msg_take_data passes a released payload to the module that handles it.
LEMMA TakeOInv ==
  ASSUME HInv, OType, OInv, NEW p \in Pid, ker_msg_take_data(p)
  PROVE  PlainInv' /\ RelInv' /\ HeldIsOwned' /\ NoPayloadLeak'
<1>. USE ConstFacts
<1>. DEFINE m == TakeFrom
            d == hdr[m].data
<1>1. run.k = "msg" /\ run.pid = p /\ run' = run /\ run.e \in Alloc /\ run.e \in Hdr
  BY SMTT(30) DEF ker_msg_take_data, Running, CurPid, HInv, RunSound, Alloc
<1>2. m \in Alloc /\ m \in Hdr /\ hdr[m].type # "SENDDONE" /\ hdr[m] \in Message
  BY <1>1, SMTT(30) DEF TakeFrom, HInv, HType, SendDoneSound, Carried, SendDones, Alloc
<1>3. CASE /\ "RELEASE" \in hdr[m].flag
           /\ own' = ker_change_own(own, d, p)
           /\ held' = [held EXCEPT ![p] = @ \cup ({d} \cap Blk)]
           /\ hdr' = [hdr EXCEPT ![m] = Taken(@)]
  <2>1. m = run.e
    <3>1. ASSUME hdr[run.e].type = "SENDDONE" PROVE FALSE
      <4>1. run.e \in SendDones /\ m = hdr[run.e].data
        BY <1>1, <3>1 DEF SendDones, TakeFrom
      <4>. QED BY <1>3, <4>1 DEF OInv, PlainInv
    <3>. QED BY <3>1 DEF TakeFrom
  <2>2. /\ Taken(hdr[m]).type = hdr[m].type /\ Taken(hdr[m]).data = NULL
        /\ Taken(hdr[m]).flag = hdr[m].flag \ {"RELEASE"} /\ Taken(hdr[m]) # NULL
    BY <1>2, TakenMsg, SMTT(30)
  <2>3. hdr'[m] = Taken(hdr[m]) /\ \A g \in Hdr : g # m => hdr'[g] = hdr[g]
    BY <1>2, <1>3, SMTT(30) DEF HInv, HType
  <2>4. Alloc' = Alloc /\ SendDones' = SendDones /\ m \notin SendDones
    BY <1>2, <2>2, <2>3, SMTT(30) DEF Alloc, SendDones
  <2>5. \A s \in SendDones : hdr'[s] = hdr[s] /\ hdr[s].data \in Hdr /\ hdr[s].data # m
    BY <1>3, <2>3, <2>4, SMTT(30) DEF SendDones, Alloc, OInv, PlainInv, HInv, MsgSound
  <2>6. PlainInv'
    BY <2>2, <2>3, <2>4, <2>5 DEF OInv, PlainInv, Alloc
  <2>7. \A g \in Hdr : Released(g)' <=> Released(g) /\ g # m
    BY <2>2, <2>3, SMTT(30) DEF Released
  <2>8. CASE d \notin Blk
    <3>1. own' = own /\ ~Released(m) /\ \A x \in Pid : held'[x] = held[x]
      BY <1>3, <2>8 DEF ker_change_own, Released, OType
    <3>2. \A g \in Hdr : Released(g) => hdr'[g] = hdr[g]
      BY <2>3, <3>1, SMTT(30)
    <3>3. RelInv'
      BY <1>1, <2>7, <3>1, <3>2, SMTT(30) DEF OInv, RelInv
    <3>4. HeldIsOwned'
      BY <3>1, SMTT(30) DEF OInv, HeldIsOwned
    <3>5. NoPayloadLeak'
      BY <2>7, <3>1, <3>2, SMTT(30) DEF OInv, NoPayloadLeak
    <3>. QED BY <2>6, <3>3, <3>4, <3>5
  <2>9. CASE d \in Blk
    <3>1. Released(m) /\ own[d] = p
      BY <1>1, <1>2, <1>3, <2>1, <2>9, SMTT(30) DEF Released, OInv, RelInv, Alloc
    <3>2. /\ \A x \in Blk : own'[x] = own[x]
          /\ held'[p] = held[p] \cup {d} /\ \A x \in Pid : x # p => held'[x] = held[x]
      BY <1>3, <2>9, <3>1, SMTT(30) DEF ker_change_own, OType
    <3>3. \A g \in Hdr : Released(g) /\ g # m => hdr[g].data # d /\ hdr[g].data \in Blk
      BY <1>2, <3>1, SMTT(30) DEF OInv, RelInv, Released
    <3>4. RelInv'
      <4>1. SUFFICES ASSUME NEW g \in Hdr, Released(g)'
                     PROVE  /\ own'[hdr'[g].data] = IF g = run'.e THEN run'.pid ELSE SCHED
                            /\ \A x \in Pid : hdr'[g].data \notin held'[x]
                            /\ \A k \in Hdr : Released(k)' /\ hdr'[k].data = hdr'[g].data => k = g
        BY SMTT(30) DEF RelInv
      <4>2. /\ Released(g) /\ g # m /\ hdr'[g] = hdr[g] /\ hdr[g].data # d
            /\ hdr[g].data \in Blk
        BY <2>3, <2>7, <3>3, <4>1, SMTT(30)
      <4>3. own[hdr[g].data] = (IF g = run.e THEN run.pid ELSE SCHED)
            /\ \A x \in Pid : hdr[g].data \notin held[x]
        BY <4>2, SMTT(30) DEF OInv, RelInv
      <4>4. \A k \in Hdr : Released(k)' => Released(k) /\ hdr'[k].data = hdr[k].data
        BY <2>3, <2>7, SMTT(30)
      <4>5. \A k \in Hdr : Released(k)' /\ hdr'[k].data = hdr'[g].data => k = g
        BY <4>2, <4>4, SMTT(30) DEF OInv, RelInv
      <4>. HIDE DEF d, m
      <4>6. own'[hdr'[g].data] = own[hdr[g].data] /\ hdr'[g].data = hdr[g].data
        BY <3>2, <4>2, SMTT(30)
      <4>7. \A x \in Pid : hdr'[g].data \notin held'[x]
        BY <3>2, <4>2, <4>3, SMTT(30)
      <4>. QED BY <1>1, <4>3, <4>5, <4>6, <4>7, ZenonT(30)
    <3>. HIDE DEF d, m
    <3>5. HeldIsOwned'
      BY <2>9, <3>1, <3>2, SMTT(30) DEF OInv, HeldIsOwned, OType
    <3>6. NoPayloadLeak'
      <4>1. SUFFICES ASSUME NEW x \in Blk, own[x] # FREE, x # d
                     PROVE  \/ \E y \in Pid : x \in held'[y]
                            \/ \E g \in Hdr : Released(g)' /\ hdr'[g].data = x
        BY <3>2, SMTT(30) DEF NoPayloadLeak
      <4>2. CASE \E y \in Pid : x \in held[y]
        BY <3>2, <4>2, SMTT(30)
      <4>3. CASE \E g \in Hdr : Released(g) /\ hdr[g].data = x
        BY <2>3, <2>7, <4>1, <4>3, SMTT(30) DEF d
      <4>. QED BY <4>1, <4>2, <4>3, ZenonT(30) DEF OInv, NoPayloadLeak
    <3>. QED BY <2>6, <3>4, <3>5, <3>6, SMTT(30)
  <2>. QED BY <2>8, <2>9, SMTT(30)
<1>4. CASE /\ hdr' = hdr
           /\ \E b \in Blk : /\ own[b] = FREE
                             /\ own' = [own EXCEPT ![b] = p]
                             /\ held' = [held EXCEPT ![p] = @ \cup {b}]
  BY <1>1, <1>4, HeapOInv, Zenon
<1>. QED BY <1>3, <1>4, SMTT(30) DEF ker_msg_take_data

\* Only registered modules run, whatever step is taken.
LEMMA NextRegistered ==
  ASSUME HInv, OType, OInv, Step
  PROVE  HandlerRegistered'
<1>. USE ConstFacts
<1>0. /\ run # Idle => run.pid \in mods
      /\ fin # NULL => fin \in mods \ {LOADER} /\ run.pid = LOADER
      /\ run = Idle => run.pid = NULL /\ fin = NULL
  BY DEF OInv, HandlerRegistered, Idle
<1>1. CASE mods' = mods /\ run' = run /\ fin' = fin
  BY <1>0, <1>1 DEF HandlerRegistered
<1>2. CASE do_dispatch
  <2>1. mods' = mods /\ fin' = fin /\ fin = NULL
    BY <1>0, <1>2, ZenonT(30) DEF do_dispatch
  <2>. DEFINE e == Head(q[Front])
              i == IF hdr[e].type = "SENDDONE" THEN hdr[e].data ELSE NULL
              s == IF "RELIABLE" \in hdr[e].flag THEN hdr[e].sid ELSE NULL
  <2>2. \/ run' = run
        \/ /\ hdr[e].did \in mods
           /\ run' = [k |-> "msg", pid |-> hdr[e].did, e |-> e, inner |-> i, sdst |-> s]
    BY <1>2, Zenon DEF do_dispatch
  <2>. HIDE DEF e, i, s
  <2>3. run' = run \/ run'.pid \in mods
    BY <2>2, SMTT(30)
  <2>. QED BY <1>0, <1>2, <2>1, <2>3, Zenon DEF HandlerRegistered, do_dispatch
<1>3. CASE (\E ok \in BOOLEAN : handler_return(ok)) \/ short_return
  BY <1>3, SMTT(30) DEF handler_return, short_return, HandlerRegistered
<1>4. ASSUME NEW p \in Pid, sched_dispatch_short_message(p) PROVE HandlerRegistered'
  BY <1>0, <1>4, SMTT(30) DEF sched_dispatch_short_message, HandlerRegistered
<1>5. ASSUME NEW p \in Pid, ker_register_module(p) PROVE HandlerRegistered'
  BY <1>0, <1>5, SMTT(30) DEF ker_register_module, HandlerRegistered
<1>6. ASSUME NEW p \in Pid, ker_deregister_module(p) PROVE HandlerRegistered'
  BY <1>0, <1>6 DEF ker_deregister_module, HandlerRegistered, Running, CurPid
<1>7. CASE deregister_finish
  BY <1>7, RemoveOInv
<1>. QED
  BY <1>1, <1>2, <1>3, <1>4, <1>5, <1>6, <1>7, ZenonT(30)
     DEF Next, Step, post_long, post_short, isr_post_short, ker_malloc, sys_free, ker_msg_take_data,
         malloc_gc_kernel

\* Every step of the system preserves payload ownership.
LEMMA NextOInv ==
  ASSUME HInv, OType, OInv, NoReleasedReliable, [Step]_vars
  PROVE  OInv'
<1>. USE ConstFacts
<1>. DEFINE Goal == PlainInv' /\ RelInv' /\ HeldIsOwned' /\ NoPayloadLeak'
<1>0. ASSUME Step PROVE Goal
  <2>1. ASSUME NEW msg \in Message, NEW p \in Pid, msg.type # "SENDDONE",
               ~({"RELEASE", "RELIABLE"} \subseteq msg.flag),
               (\E h \in Hdr : PostOK(h, msg)) \/ PostNoMem(msg),
               "RELEASE" \in msg.flag => msg.data = NULL \/ msg.data \in held[p],
               held' = IF "RELEASE" \in msg.flag THEN [held EXCEPT ![p] = @ \ {msg.data}] ELSE held,
               run' = run
        PROVE  Goal
    <3>1. ASSUME NEW h \in Hdr, PostOK(h, msg) PROVE Goal
      BY <2>1, <3>1, PostOInv, SMTT(30)
    <3>2. CASE PostNoMem(msg)
      BY <2>1, <3>2, NoMemOInv, SMTT(30)
    <3>. QED BY <2>1, <3>1, <3>2, SMTT(30)
  <2>2. ASSUME NEW p \in Pid, NEW did \in Pid, NEW b \in Blk, NEW f \in FlagSets,
               post_long(p, did, b, f)
        PROVE  Goal
    <3>. DEFINE msg == [did |-> did, sid |-> p, type |-> "DATA", data |-> b, flag |-> f]
    <3>1. msg \in Message /\ msg.type # "SENDDONE" /\ msg.data = b /\ msg.flag = f
      BY SchedAssumption, SMTT(30) DEF Message, Type, Flag
    <3>2. /\ (\E h \in Hdr : PostOK(h, msg)) \/ PostNoMem(msg)
          /\ run' = run /\ b \in held[p]
          /\ held' = IF "RELEASE" \in f THEN [held EXCEPT ![p] = @ \ {b}] ELSE held
      BY <2>2 DEF post_long
    <3>3. ~({"RELEASE", "RELIABLE"} \subseteq f)
      BY SMTT(30) DEF NoReleasedReliable
    <3>. HIDE DEF msg, Goal
    <3>. QED BY <2>1, <3>1, <3>2, <3>3, SMTT(30)
  <2>3. ASSUME NEW p \in Pid, NEW did \in Pid, NEW f \in FlagSets, post_short(p, did, f)
        PROVE  Goal
    <3>. DEFINE msg == [did |-> did, sid |-> p, type |-> "DATA", data |-> PAYLOAD,
                        flag |-> f \ {"RELEASE"}]
    <3>0. f \ {"RELEASE"} \in SUBSET Flag
      BY SchedAssumption, SMTT(30) DEF Flag
    <3>1. msg \in Message /\ msg.type # "SENDDONE" /\ "RELEASE" \notin msg.flag
      BY <3>0 DEF Message, Type
    <3>2. ((\E h \in Hdr : PostOK(h, msg)) \/ PostNoMem(msg)) /\ run' = run /\ held' = held
      BY <2>3, ZenonT(30) DEF post_short
    <3>. HIDE DEF msg, Goal
    <3>. QED BY <2>1, <3>1, <3>2, SMTT(30)
  <2>4. ASSUME NEW did \in Pid, isr_post_short(did) PROVE Goal
    <3>. DEFINE msg == [did |-> did, sid |-> SCHED, type |-> "DATA", data |-> PAYLOAD,
                        flag |-> {"HIGH_PRIORITY"}]
    <3>1. msg \in Message /\ msg.type # "SENDDONE" /\ "RELEASE" \notin msg.flag
      BY DEF Message, Type, Flag
    <3>2. (\E h \in Hdr : PostOK(h, msg)) /\ run' = run /\ held' = held
      BY <2>4, SMTT(30) DEF isr_post_short
    <3>. HIDE DEF msg, Goal
    <3>. QED BY <2>1, <3>1, <3>2, SMTT(30)
  <2>5. ASSUME NEW p \in Pid, NEW b \in Blk, ker_malloc(p, b) \/ sys_free(p, b) PROVE Goal
    BY <2>5, HeapOInv DEF ker_malloc, sys_free
  <2>6. ASSUME NEW p \in Pid, ker_msg_take_data(p) PROVE Goal
    BY <2>6, TakeOInv
  <2>7. CASE do_dispatch
    <3>. DEFINE e == Head(q[Front])
                qq == mq_dequeue(Front)
    <3>1. run = Idle /\ InHand(qq, e) /\ held' = held
      BY <2>7, DequeueInHand, Zenon DEF do_dispatch
    <3>2. \/ /\ hdr' = hdr
             /\ run' = [k |-> "msg", pid |-> hdr[e].did, e |-> e,
                        inner |-> InnerOf(e), sdst |-> SdstOf(e)]
             /\ own' = IF "RELEASE" \in hdr[e].flag
                       THEN ker_change_own(own, hdr[e].data, hdr[e].did) ELSE own
          \/ FinishDispatch(qq, e, InnerOf(e), SdstOf(e), FALSE) /\ run' = run
      BY <2>7, ZenonT(30) DEF do_dispatch, InnerOf, SdstOf
    <3>. HIDE DEF e, qq
    <3>3. e \in Alloc /\ hdr[e].did \in Pid
      BY <3>1, ZenonT(30) DEF InHand, Alloc, Message
    <3>4. PayloadInHand(e)
      BY <3>1 DEF PayloadInHand, OInv, RelInv, Idle
    <3>5. FALSE \in BOOLEAN /\ PlainInv /\ HeldIsOwned /\ NoPayloadLeak
      BY DEF OInv
    <3>6. CASE FinishDispatch(qq, e, InnerOf(e), SdstOf(e), FALSE) /\ run' = run
      BY <3>1, <3>4, <3>5, <3>6, FinishOInv, Zenon
    <3>7. CASE ~(FinishDispatch(qq, e, InnerOf(e), SdstOf(e), FALSE) /\ run' = run)
      <4>1. /\ hdr' = hdr
            /\ run' = [k |-> "msg", pid |-> hdr[e].did, e |-> e,
                       inner |-> InnerOf(e), sdst |-> SdstOf(e)]
            /\ own' = IF "RELEASE" \in hdr[e].flag
                      THEN ker_change_own(own, hdr[e].data, hdr[e].did) ELSE own
        BY <3>2, <3>7, Zenon
      <4>2. run'.e = e /\ run'.pid = hdr[e].did
        BY <4>1, Zenon
      <4>. QED BY <3>1, <3>3, <4>1, <4>2, StartOInv, Zenon
    <3>. QED BY <3>6, <3>7, ZenonT(30)
  <2>8. ASSUME NEW ok \in BOOLEAN, handler_return(ok) PROVE Goal
    <3>1. /\ run.k = "msg" /\ FinishDispatch(q, run.e, run.inner, run.sdst, ok)
          /\ run' = Idle /\ held' = held
      BY <2>8, SMTT(30) DEF handler_return
    <3>2. PayloadInHand(run.e) /\ PlainInv /\ HeldIsOwned /\ NoPayloadLeak
      BY SMTT(30) DEF PayloadInHand, OInv, RelInv
    <3>. QED BY <3>1, <3>2, RunInHand, FinishOInv
  <2>9. ASSUME run'.e = NULL, hdr' = hdr, own' = own, held' = held, run.k # "msg" PROVE Goal
    <3>1. \A h \in Hdr : h # run.e /\ h # run'.e
      BY <2>9, HandledAlloc, SMTT(30) DEF Handled
    <3>2. \A h \in Hdr : Released(h)' <=> Released(h)
      BY <2>9, SMTT(30) DEF Released
    <3>3. Alloc' = Alloc /\ SendDones' = SendDones
      BY <2>9, SMTT(30) DEF Alloc, SendDones
    <3>. QED BY <2>9, <3>1, <3>2, <3>3, SMTT(30) DEF OInv, PlainInv, RelInv, HeldIsOwned, NoPayloadLeak
  <2>10. ASSUME NEW p \in Pid, sched_dispatch_short_message(p) PROVE Goal
    BY <2>9, <2>10, SMTT(30) DEF sched_dispatch_short_message, Idle
  <2>11. CASE short_return
    BY <2>9, <2>11, SMTT(30) DEF short_return, Idle
  <2>12. ASSUME NEW p \in Pid, ker_register_module(p) PROVE Goal
    <3>. DEFINE msg == [did |-> p, sid |-> SCHED, type |-> "INIT", data |-> NULL,
                        flag |-> {"RELEASE", "SYSTEM_PRIORITY"}]
    <3>1. msg \in Message /\ msg.type # "SENDDONE" /\ "RELIABLE" \notin msg.flag /\ msg.data = NULL
      BY DEF Message, Type, Flag
    <3>2. ((\E h \in Hdr : PostOK(h, msg)) \/ PostNoMem(msg)) /\ run' = run /\ held' = held
      BY <2>12, ZenonT(30) DEF ker_register_module
    <3>3. held' = [held EXCEPT ![p] = @ \ {msg.data}]
      BY <3>1, <3>2, SMTT(30) DEF OType
    <3>. HIDE DEF msg, Goal
    <3>. QED BY <2>1, <3>1, <3>2, <3>3, Zenon
  <2>13. ASSUME NEW p \in Pid, ker_deregister_module(p) PROVE Goal
    BY <2>13, SameOInv DEF ker_deregister_module
  <2>14. CASE deregister_finish
    BY <2>14, RemoveOInv
  <2>. HIDE DEF Goal
  <2>. QED
    BY <1>0, <2>2, <2>3, <2>4, <2>5, <2>6, <2>7, <2>8, <2>10, <2>11, <2>12, <2>13, <2>14, SMTT(30)
       DEF Next, Step
<1>1. CASE Step
  BY <1>0, <1>1, NextRegistered DEF OInv
<1>2. CASE UNCHANGED vars
  <2>1. HandlerRegistered'
    BY <1>2, SMTT(30) DEF vars, OInv, HandlerRegistered
  <2>. QED BY <1>2, <2>1, SameOInv DEF vars, OInv
<1>. QED BY <1>1, <1>2, SMTT(30)

\* At boot no block is owned and no module runs.
LEMMA InitOInv == Init => OInv
<1>. USE ConstFacts
<1>. SUFFICES ASSUME Init PROVE OInv
  OBVIOUS
<1>1. Alloc = {} /\ SendDones = {} /\ \A h \in Hdr : ~Released(h)
  BY DEF Init, Alloc, SendDones, Released
<1>. QED BY <1>1 DEF Init, OInv, PlainInv, RelInv, HeldIsOwned, NoPayloadLeak, HandlerRegistered

\* In a build without garbage collection, and as long as no module sets both
\* SOS_MSG_RELEASE and SOS_MSG_RELIABLE on one message: a module's blocks are
\* never freed behind its back, a released payload has one owner at a time, and
\* no payload is lost, whatever posts fail and whatever modules are removed.
THEOREM PayloadOwnership ==
  ASSUME ~UseGC, NoReleasedReliable
  PROVE  Spec => []PayloadsSound
<1>1. HInv /\ OType /\ OInv /\ [Next]_vars => HInv' /\ OType' /\ OInv'
  BY NextHInv, NextOType, NextOInv DEF Step, malloc_gc_kernel
<1>2. HInv /\ OType /\ OInv => PayloadsSound
  BY OInvImplies, SMTT(30) DEF PayloadsSound
<1>. QED BY <1>1, <1>2, InitHInv, InitOInv, PTL DEF Spec
--------------------------------------------------------------------------------
\* Garbage collection.

\* No module asks for a SENDDONE.
NoReliable == \A f \in FlagSets : "RELIABLE" \notin f

\* Then there is none, and no message will cause one.
NoneReliable == \A h \in Alloc : "RELIABLE" \notin hdr[h].flag /\ hdr[h].type # "SENDDONE"

\* Messages are posted without SOS_MSG_RELIABLE, and do_dispatch posts a SENDDONE for
\* reliable messages only.
LEMMA NextNoneReliable ==
  ASSUME HInv, NoReliable, NoneReliable, [Step]_vars
  PROVE  NoneReliable'
<1>. USE ConstFacts
<1>1. ASSUME NEW msg, "RELIABLE" \notin msg.flag, msg.type # "SENDDONE",
             (\E h \in Hdr : PostOK(h, msg)) \/ PostNoMem(msg)
      PROVE  NoneReliable'
  <2>1. CASE hdr' = hdr
    BY <2>1, SMTT(30) DEF NoneReliable, Alloc
  <2>2. CASE \E h \in Hdr : PostOK(h, msg)
    <3>1. PICK h \in Hdr : hdr' = [hdr EXCEPT ![h] = msg]
      BY <2>2, ZenonT(30) DEF PostOK
    <3>2. \A g \in Hdr : hdr'[g] = hdr[g] \/ hdr'[g] = msg
      BY <3>1 DEF HInv, HType
    <3>. QED BY <1>1, <3>2 DEF NoneReliable, Alloc
  <2>. QED BY <1>1, <2>1, <2>2 DEF PostNoMem
<1>2. ASSUME NEW e \in Alloc, NEW qq, NEW ok, NEW i, FinishDispatch(qq, e, i, SdstOf(e), ok)
      PROVE  NoneReliable'
  <2>1. SdstOf(e) = NULL
    BY DEF NoneReliable, SdstOf
  <2>2. \A g \in Hdr : hdr'[g] = hdr[g] \/ hdr'[g] = NULL
    BY <1>2, <2>1 DEF FinishDispatch, DisposeBoth, DisposeOne, SendSendDone, HInv, HType
  <2>. QED BY <2>2 DEF NoneReliable, Alloc
<1>3. ASSUME hdr' = hdr PROVE NoneReliable'
  BY <1>3 DEF NoneReliable, Alloc
<1>4. ASSUME NEW p \in Pid, NEW did \in Pid, NEW b \in Blk, NEW f \in FlagSets,
             post_long(p, did, b, f)
      PROVE  NoneReliable'
  <2>. DEFINE msg == [did |-> did, sid |-> p, type |-> "DATA", data |-> b, flag |-> f]
  <2>1. "RELIABLE" \notin msg.flag /\ msg.type # "SENDDONE"
    BY SMTT(30) DEF NoReliable
  <2>2. (\E h \in Hdr : PostOK(h, msg)) \/ PostNoMem(msg)
    BY <1>4, SMTT(30) DEF post_long
  <2>. HIDE DEF msg
  <2>. QED BY <1>1, <2>1, <2>2
<1>5. ASSUME NEW p \in Pid, NEW did \in Pid, NEW f \in FlagSets, post_short(p, did, f)
      PROVE  NoneReliable'
  <2>. DEFINE msg == [did |-> did, sid |-> p, type |-> "DATA", data |-> PAYLOAD,
                      flag |-> f \ {"RELEASE"}]
  <2>1. "RELIABLE" \notin msg.flag /\ msg.type # "SENDDONE"
    BY DEF NoReliable
  <2>2. (\E h \in Hdr : PostOK(h, msg)) \/ PostNoMem(msg)
    BY <1>5, Zenon DEF post_short
  <2>. HIDE DEF msg
  <2>. QED BY <1>1, <2>1, <2>2, SMTT(30)
<1>6. ASSUME NEW did \in Pid, isr_post_short(did) PROVE NoneReliable'
  <2>. DEFINE msg == [did |-> did, sid |-> SCHED, type |-> "DATA", data |-> PAYLOAD,
                      flag |-> {"HIGH_PRIORITY"}]
  <2>1. "RELIABLE" \notin msg.flag /\ msg.type # "SENDDONE"
    OBVIOUS
  <2>2. \E h \in Hdr : PostOK(h, msg)
    BY <1>6, SMTT(30) DEF isr_post_short
  <2>. HIDE DEF msg
  <2>. QED BY <1>1, <2>1, <2>2
<1>7. ASSUME NEW p \in Pid, ker_msg_take_data(p) PROVE NoneReliable'
  <2>1. hdr' = [hdr EXCEPT ![TakeFrom] = Taken(@)] \/ hdr' = hdr
    BY <1>7 DEF ker_msg_take_data
  <2>2. \A g \in Hdr : hdr'[g] = hdr[g] \/ (g = TakeFrom /\ hdr'[g] = Taken(hdr[g]))
    BY <2>1, SMTT(30) DEF HInv, HType
  <2>3. TakeFrom \in Alloc
    BY <1>7, Zenon DEF ker_msg_take_data, TakeFrom, HInv, RunSound, NoneReliable
  <2>4. hdr[TakeFrom] \in Message
    BY <2>3 DEF Alloc, HInv, HType
  <2>5. Taken(hdr[TakeFrom]).type = hdr[TakeFrom].type
        /\ Taken(hdr[TakeFrom]).flag \subseteq hdr[TakeFrom].flag
    BY <2>4 DEF Taken, Message
  <2>. QED BY <2>2, <2>3, <2>5, SMTT(30) DEF NoneReliable, Alloc
<1>8. CASE do_dispatch
  <2>. DEFINE e == Head(q[Front])
  <2>1. e \in Alloc
    BY <1>8, DequeueInHand DEF do_dispatch, InHand, Alloc
  <2>2. hdr' = hdr \/ FinishDispatch(mq_dequeue(Front), e, InnerOf(e), SdstOf(e), FALSE)
    BY <1>8, Zenon DEF do_dispatch, InnerOf, SdstOf
  <2>. HIDE DEF e
  <2>. QED BY <1>2, <1>3, <2>1, <2>2, Zenon
<1>9. ASSUME NEW ok \in BOOLEAN, handler_return(ok) PROVE NoneReliable'
  <2>1. run.k = "msg" /\ FinishDispatch(q, run.e, run.inner, run.sdst, ok)
    BY <1>9, SMTT(30) DEF handler_return
  <2>2. run.e \in Alloc /\ run.sdst = SdstOf(run.e)
    BY <2>1 DEF HInv, RunSound, SdstOf
  <2>. QED BY <1>2, <2>1, <2>2
<1>10. ASSUME NEW p \in Pid, ker_register_module(p) PROVE NoneReliable'
  <2>. DEFINE msg == [did |-> p, sid |-> SCHED, type |-> "INIT", data |-> NULL,
                      flag |-> {"RELEASE", "SYSTEM_PRIORITY"}]
  <2>1. "RELIABLE" \notin msg.flag /\ msg.type # "SENDDONE"
    OBVIOUS
  <2>2. (\E h \in Hdr : PostOK(h, msg)) \/ PostNoMem(msg)
    BY <1>10, Zenon DEF ker_register_module
  <2>. HIDE DEF msg
  <2>. QED BY <1>1, <2>1, <2>2
<1>11. ASSUME NEW p \in Pid, NEW b \in Blk,
              \/ ker_malloc(p, b) \/ sys_free(p, b) \/ ker_deregister_module(p)
              \/ sched_dispatch_short_message(p)
       PROVE  NoneReliable'
  BY <1>3, <1>11, SMTT(30) DEF ker_malloc, sys_free, ker_deregister_module, sched_dispatch_short_message
<1>12. ASSUME NEW p \in Pid, ker_deregister_module(p) \/ sched_dispatch_short_message(p)
       PROVE  NoneReliable'
  BY <1>3, <1>12 DEF ker_deregister_module, sched_dispatch_short_message
<1>13. CASE short_return \/ deregister_finish \/ UNCHANGED vars
  BY <1>3, <1>13, SMTT(30) DEF short_return, deregister_finish, vars
<1>. QED
  BY <1>4, <1>5, <1>6, <1>7, <1>8, <1>9, <1>10, <1>11, <1>12, <1>13, SMTT(30) DEF Next, Step

\* Where every header is queued and every block is held or released, the collector
\* finds nothing: what it frees would have been lost.
LEMMA CollectsNothing ==
  ASSUME HInv, OType, OInv, NoneReliable, malloc_gc_kernel
  PROVE  UNCHANGED vars
<1>. USE ConstFacts
<1>1. SendDones = {} /\ Handled = {}
  BY DEF malloc_gc_kernel, NoneReliable, SendDones, Handled, Idle
<1>2. Alloc \subseteq Queued
  BY <1>1 DEF HInv, NoHeaderLeak, Carried
<1>3. hdr' = hdr
  <2>1. hdr' = [h \in Hdr |-> IF h \in Queued THEN hdr[h] ELSE NULL]
    BY DEF malloc_gc_kernel
  <2>2. \A h \in Hdr : hdr'[h] = hdr[h]
    BY <1>2, <2>1 DEF Alloc
  <2>. QED BY <2>1, <2>2 DEF HInv, HType
<1>4. \A b \in Blk : own[b] = SCHED => b \in MarkedPayload
  <2>1. SUFFICES ASSUME NEW b \in Blk, own[b] = SCHED PROVE b \in MarkedPayload
    OBVIOUS
  <2>2. \A p \in Pid : b \notin held[p]
    BY <2>1 DEF OInv, HeldIsOwned
  <2>3. PICK h \in Hdr : Released(h) /\ hdr[h].data = b
    BY <2>1, <2>2 DEF OInv, NoPayloadLeak
  <2>4. h \in Queued
    BY <1>2, <2>3 DEF Released, Alloc
  <2>. QED BY <2>3, <2>4 DEF MarkedPayload, Released
<1>5. own' = own
  <2>1. own' = [b \in Blk |-> IF own[b] = SCHED /\ b \notin MarkedPayload THEN FREE ELSE own[b]]
    BY DEF malloc_gc_kernel
  <2>2. \A b \in Blk : own'[b] = own[b]
    BY <1>4, <2>1
  <2>. QED BY <2>1, <2>2 DEF OType
<1>. QED BY <1>3, <1>5, SMTT(30) DEF malloc_gc_kernel, vars

\* The inductive invariant of a build with garbage collection.
GInv == HInv /\ OType /\ OInv /\ NoneReliable

\* It holds in every reachable state.
LEMMA GInvariant == ASSUME NoReliable PROVE Spec => []GInv
<1>1. NoReleasedReliable
  BY DEF NoReliable, NoReleasedReliable
<1>2. GInv /\ [Next]_vars => GInv'
  <2>1. GInv /\ [Step]_vars => GInv'
    BY <1>1, NextHInv, NextOType, NextOInv, NextNoneReliable DEF GInv
  <2>2. GInv /\ malloc_gc_kernel => UNCHANGED vars
    BY CollectsNothing, SMTT(30) DEF GInv
  <2>. QED BY <2>1, <2>2 DEF Step
<1>3. Init => GInv
  BY InitHInv, InitOInv DEF Init, GInv, NoneReliable, Alloc
<1>. QED BY <1>2, <1>3, PTL DEF Spec

\* In a build with or without garbage collection, as long as no module asks for a
\* SENDDONE: a collection frees no header of a queued message and no payload that a
\* message still carries, and headers and payloads are accounted for as without it.
THEOREM CollectionSound ==
  ASSUME NoReliable
  PROVE  Spec => [](GCSound /\ HeadersSound /\ PayloadsSound)
<1>1. GInv => GCSound /\ HeadersSound /\ PayloadsSound
  BY OInvImplies DEF GInv, GCSound, PayloadsSound, HeadersSound, HInv
<1>. QED BY <1>1, GInvariant, PTL

\* As long as no module asks for a SENDDONE, a collection (malloc_gc_kernel) changes
\* nothing: the message path loses neither headers nor payloads, so that there is
\* nothing to collect.
THEOREM NothingToCollect ==
  ASSUME NoReliable
  PROVE  Spec => [][~malloc_gc_kernel]_vars
<1>1. GInv /\ [Next]_vars => [~malloc_gc_kernel]_vars
  BY CollectsNothing DEF GInv
<1>. QED BY <1>1, GInvariant, PTL DEF Spec
================================================================================
