------------------------------- MODULE SchedProofs -----------------------------
(***************************************************************************)
(* What Sched guarantees for every number of headers, blocks and modules:  *)
(* its types and the accounting of message headers. Then the dissemination *)
(* of versions, for every network: any set of nodes, any neighbourhoods,   *)
(* any number of releases and of lost messages.                            *)
(***************************************************************************)
EXTENDS Sched, Dissemination, TLAPS

--------------------------------------------------------------------------------
\* What the proofs need of the constants.
LEMMA ConstFacts ==
  /\ LOADER \in Pid /\ SCHED \notin Pid /\ FREE \notin Pid /\ FREE # SCHED
  /\ NULL \notin Pid /\ NULL # SCHED /\ NULL \notin Hdr /\ NULL \notin Blk
  /\ PAYLOAD \notin Hdr /\ PAYLOAD \notin Blk /\ PAYLOAD # NULL
  /\ NULL \notin Message /\ \A h \in Hdr : h \notin Blk
BY SchedAssumption

\* Queues.

\* Appending a header adds it to the elements of a sequence.
LEMMA AppendElems ==
  ASSUME NEW s \in Seq(Hdr), NEW h \in Hdr
  PROVE  /\ Append(s, h) \in Seq(Hdr)
         /\ Elems(Append(s, h)) = Elems(s) \cup {h}
         /\ (\A i, j \in DOMAIN s : s[i] = s[j] => i = j) /\ h \notin Elems(s)
            => \A i, j \in DOMAIN Append(s, h) : Append(s, h)[i] = Append(s, h)[j] => i = j
<1>1. /\ Append(s, h) \in Seq(Hdr) /\ DOMAIN Append(s, h) = 1 .. (Len(s) + 1)
      /\ DOMAIN s = 1 .. Len(s) /\ Len(s) \in Nat
      /\ \A i \in 1 .. Len(s) : Append(s, h)[i] = s[i]
      /\ Append(s, h)[Len(s) + 1] = h
  OBVIOUS
<1>2. \A i \in 1 .. (Len(s) + 1) : i \in 1 .. Len(s) \/ i = Len(s) + 1
  BY <1>1
<1>3. ASSUME NEW x \in Elems(Append(s, h)) PROVE x \in Elems(s) \cup {h}
  BY <1>1, <1>2 DEF Elems
<1>4. ASSUME NEW x \in Elems(s) \cup {h} PROVE x \in Elems(Append(s, h))
  <2>1. CASE x = h
    <3>1. Len(s) + 1 \in DOMAIN Append(s, h)
      BY <1>1
    <3>. QED BY <1>1, <2>1, <3>1 DEF Elems
  <2>2. CASE x \in Elems(s)
    <3>1. PICK i \in 1 .. Len(s) : x = s[i]
      BY <1>1, <2>2 DEF Elems
    <3>2. i \in DOMAIN Append(s, h) /\ Append(s, h)[i] = x
      BY <1>1, <3>1
    <3>. QED BY <3>2 DEF Elems
  <2>. QED BY <2>1, <2>2
<1>5. ASSUME \A i, j \in DOMAIN s : s[i] = s[j] => i = j, h \notin Elems(s),
             NEW i \in 1 .. (Len(s) + 1), NEW j \in 1 .. (Len(s) + 1),
             Append(s, h)[i] = Append(s, h)[j]
      PROVE  i = j
  BY <1>1, <1>2, <1>5 DEF Elems
<1>6. Elems(Append(s, h)) = Elems(s) \cup {h}
  BY <1>3, <1>4
<1>. QED BY <1>1, <1>5, <1>6

\* Removing the head of a sequence without duplicates removes just that header.
LEMMA TailElems ==
  ASSUME NEW s \in Seq(Hdr), s # <<>>, \A i, j \in DOMAIN s : s[i] = s[j] => i = j
  PROVE  /\ Head(s) \in Elems(s) /\ Head(s) \in Hdr
         /\ Tail(s) \in Seq(Hdr)
         /\ Elems(Tail(s)) = Elems(s) \ {Head(s)}
         /\ \A i, j \in DOMAIN Tail(s) : Tail(s)[i] = Tail(s)[j] => i = j
<1>1. Head(s) = s[1] /\ 1 \in DOMAIN s /\ Tail(s) \in Seq(Hdr)
  OBVIOUS
<1>2. DOMAIN Tail(s) = 1 .. (Len(s) - 1) /\ \A i \in DOMAIN Tail(s) : Tail(s)[i] = s[i + 1]
  OBVIOUS
<1>3. \A i, j \in DOMAIN Tail(s) : Tail(s)[i] = Tail(s)[j] => i = j
  BY <1>2
<1>4. ASSUME NEW x \in Elems(Tail(s)) PROVE x \in Elems(s) /\ x # Head(s)
  BY <1>1, <1>2 DEF Elems
<1>5. ASSUME NEW x \in Elems(s), x # Head(s) PROVE x \in Elems(Tail(s))
  <2>1. PICK i \in 1 .. Len(s) : x = s[i]
    BY DEF Elems
  <2>2. i # 1 /\ i - 1 \in DOMAIN Tail(s) /\ Tail(s)[i - 1] = s[i]
    BY <1>1, <1>2, <1>5, <2>1
  <2>. QED BY <2>1, <2>2, Zenon DEF Elems
<1>. QED BY <1>1, <1>3, <1>4, <1>5 DEF Elems

\* mq_enqueue of a header that is not queued.
LEMMA EnqueueLemma ==
  ASSUME NEW qq \in [Class -> Seq(Hdr)], QInj(qq), NEW c \in Class, NEW h \in Hdr \ QElems(qq)
  PROVE  /\ Enqueue(qq, c, h) \in [Class -> Seq(Hdr)] /\ QInj(Enqueue(qq, c, h))
         /\ QElems(Enqueue(qq, c, h)) = QElems(qq) \cup {h}
<1>. DEFINE q1 == Enqueue(qq, c, h)
<1>0. q1 = [qq EXCEPT ![c] = Append(@, h)]
  BY DEF Enqueue
<1>. HIDE DEF q1
<1>1. Append(qq[c], h) \in Seq(Hdr) /\ Elems(Append(qq[c], h)) = Elems(qq[c]) \cup {h}
  BY AppendElems
<1>2. h \notin Elems(qq[c])
  BY DEF QElems
<1>3. \A i, j \in DOMAIN Append(qq[c], h) : Append(qq[c], h)[i] = Append(qq[c], h)[j] => i = j
  BY <1>2, AppendElems DEF QInj
<1>4. /\ q1 \in [Class -> Seq(Hdr)] /\ q1[c] = Append(qq[c], h)
      /\ \A d \in Class : d # c => q1[d] = qq[d]
  BY <1>0, <1>1
<1>5. \A d \in Class : Elems(q1[d]) = IF d = c THEN Elems(qq[d]) \cup {h} ELSE Elems(qq[d])
  BY <1>1, <1>4, Zenon
<1>6. QElems(q1) = QElems(qq) \cup {h}
  <2>1. ASSUME NEW x \in QElems(q1) PROVE x \in QElems(qq) \cup {h}
    <3>1. PICK d \in Class : x \in Elems(q1[d])
      BY <2>1 DEF QElems
    <3>2. x \in Elems(qq[d]) \/ x = h
      BY <1>5, <3>1, Zenon
    <3>. QED BY <3>2 DEF QElems
  <2>2. ASSUME NEW x \in QElems(qq) \cup {h} PROVE x \in QElems(q1)
    <3>1. CASE x = h
      <4>1. x \in Elems(q1[c])
        BY <1>5, <3>1, Zenon
      <4>. QED BY <4>1 DEF QElems
    <3>2. CASE x \in QElems(qq)
      <4>1. PICK d \in Class : x \in Elems(qq[d])
        BY <3>2 DEF QElems
      <4>2. x \in Elems(q1[d])
        BY <1>5, <4>1, Zenon
      <4>. QED BY <4>2 DEF QElems
    <3>. QED BY <3>1, <3>2, <2>2
  <2>. QED BY <2>1, <2>2
<1>7. \A d \in Class : \A i, j \in DOMAIN q1[d] : q1[d][i] = q1[d][j] => i = j
  BY <1>3, <1>4, Zenon DEF QInj
<1>8. \A d, e \in Class : d # e => Elems(q1[d]) \cap Elems(q1[e]) = {}
  <2>1. \A d \in Class : h \notin Elems(qq[d])
    BY DEF QElems
  <2>2. \A d, e \in Class : d # e => Elems(qq[d]) \cap Elems(qq[e]) = {}
    BY DEF QInj
  <2>3. SUFFICES ASSUME NEW d \in Class, NEW e \in Class, d # e,
                        NEW x \in Elems(q1[d]), x \in Elems(q1[e])
                 PROVE  FALSE
    BY Zenon
  <2>4. (x \in Elems(qq[d]) \/ (d = c /\ x = h)) /\ (x \in Elems(qq[e]) \/ (e = c /\ x = h))
    BY <1>5, <2>3, Zenon
  <2>. QED BY <2>1, <2>2, <2>3, <2>4
<1>. QED BY <1>4, <1>6, <1>7, <1>8 DEF QInj, q1

\* mq_dequeue of the head of queue c.
LEMMA DequeueLemma ==
  ASSUME q \in [Class -> Seq(Hdr)], QInj(q), NEW c \in Class, q[c] # <<>>
  PROVE  /\ mq_dequeue(c) \in [Class -> Seq(Hdr)] /\ QInj(mq_dequeue(c))
         /\ Head(q[c]) \in QElems(q) /\ Head(q[c]) \in Hdr
         /\ QElems(mq_dequeue(c)) = QElems(q) \ {Head(q[c])}
<1>. DEFINE q1 == mq_dequeue(c)
<1>00. q1 = [q EXCEPT ![c] = Tail(@)]
  BY DEF mq_dequeue
<1>. HIDE DEF q1
<1>0. \A i, j \in DOMAIN q[c] : q[c][i] = q[c][j] => i = j
  BY DEF QInj
<1>1. /\ Head(q[c]) \in Elems(q[c]) /\ Head(q[c]) \in Hdr
      /\ Tail(q[c]) \in Seq(Hdr)
      /\ Elems(Tail(q[c])) = Elems(q[c]) \ {Head(q[c])}
      /\ \A i, j \in DOMAIN Tail(q[c]) : Tail(q[c])[i] = Tail(q[c])[j] => i = j
  BY <1>0, TailElems
<1>2. /\ q1 \in [Class -> Seq(Hdr)] /\ q1[c] = Tail(q[c])
      /\ \A d \in Class : d # c => q1[d] = q[d]
  BY <1>00, <1>1
<1>3. \A d \in Class : Elems(q1[d]) = IF d = c THEN Elems(q[d]) \ {Head(q[c])} ELSE Elems(q[d])
  BY <1>1, <1>2, Zenon
<1>4. \A d \in Class : d # c => Head(q[c]) \notin Elems(q[d])
  BY <1>1 DEF QInj
<1>5. QElems(q1) = QElems(q) \ {Head(q[c])}
  <2>1. ASSUME NEW x \in QElems(q1) PROVE x \in QElems(q) \ {Head(q[c])}
    <3>1. PICK d \in Class : x \in Elems(q1[d])
      BY <2>1 DEF QElems
    <3>2. x \in Elems(q[d]) /\ x # Head(q[c])
      BY <1>3, <1>4, <3>1, Zenon
    <3>. QED BY <3>2 DEF QElems
  <2>2. ASSUME NEW x \in QElems(q) \ {Head(q[c])} PROVE x \in QElems(q1)
    <3>1. PICK d \in Class : x \in Elems(q[d])
      BY <2>2 DEF QElems
    <3>2. x \in Elems(q1[d])
      BY <1>3, <2>2, <3>1, Zenon
    <3>. QED BY <3>2 DEF QElems
  <2>. QED BY <2>1, <2>2
<1>6. \A d \in Class : \A i, j \in DOMAIN q1[d] : q1[d][i] = q1[d][j] => i = j
  BY <1>1, <1>2, Zenon DEF QInj
<1>7. \A d, e \in Class : d # e => Elems(q1[d]) \cap Elems(q1[e]) = {}
  BY <1>3, Zenon DEF QInj
<1>8. Head(q[c]) \in QElems(q)
  BY <1>1 DEF QElems
<1>. QED BY <1>1, <1>2, <1>5, <1>6, <1>7, <1>8 DEF QInj, q1

--------------------------------------------------------------------------------
\* Headers.

HType ==
  /\ hdr \in [Hdr -> Message \cup {NULL}]
  /\ q \in [Class -> Seq(Hdr)]
  /\ run \in [k : {"idle", "msg", "short"}, pid : Pid \cup {NULL}, e : Hdr \cup {NULL},
              inner : Hdr \cup {NULL}, sdst : Pid \cup {NULL}]

\* The inductive invariant of the header accounting.
HInv == HType /\ MsgSound /\ RunSound /\ QueueSound /\ SendDoneSound /\ NoHeaderLeak

\* The message being handled has a header that is not free and not queued.
LEMMA HandledAlloc ==
  ASSUME HInv
  PROVE  /\ Handled \subseteq Alloc \ Queued
         /\ run.k # "msg" => Handled = {}
<1>. USE SchedAssumption DEF HInv, HType, RunSound
<1>1. CASE run.k = "msg"
  BY <1>1 DEF Handled
<1>2. CASE run.k = "idle"
  BY <1>2 DEF Handled, Idle
<1>3. CASE run.k = "short"
  BY <1>3 DEF Handled, Idle
<1>. QED BY <1>1, <1>2, <1>3

\* Posting message msg in a free header preserves the header accounting.
LEMMA PostHInv ==
  ASSUME HInv, NEW h \in Hdr, hdr[h] = NULL, NEW msg \in Message, NEW c \in Class,
         msg.type # "SENDDONE", msg.data \notin Hdr, "RELIABLE" \in msg.flag => msg.sid \in Pid,
         hdr' = [hdr EXCEPT ![h] = msg], q' = Enqueue(q, c, h), run' = run
  PROVE  HInv'
<1>. USE ConstFacts
<1>1. h \notin Queued /\ h \notin Alloc /\ h \notin SendDones /\ h \notin Handled
  BY HandledAlloc DEF HInv, QueueSound, Alloc, SendDones
<1>2. q' \in [Class -> Seq(Hdr)] /\ QInj(q') /\ Queued' = Queued \cup {h}
  <2>1. QInj(q) /\ q \in [Class -> Seq(Hdr)] /\ h \in Hdr \ QElems(q)
    BY <1>1 DEF HInv, HType, QueueSound, Queued
  <2>2. q' \in [Class -> Seq(Hdr)] /\ QInj(q') /\ QElems(q') = QElems(q) \cup {h}
    BY <2>1, EnqueueLemma
  <2>3. Queued' = QElems(q')
    BY DEF Queued, QElems
  <2>. QED BY <2>2, <2>3 DEF Queued
<1>3. /\ hdr' \in [Hdr -> Message \cup {NULL}] /\ hdr'[h] = msg /\ msg # NULL
      /\ \A g \in Hdr : g # h => hdr'[g] = hdr[g]
  BY DEF HInv, HType
<1>4. Alloc' = Alloc \cup {h}
  BY <1>3 DEF Alloc
<1>5. SendDones' = SendDones
  BY <1>1, <1>3, <1>4 DEF SendDones, Alloc
<1>6. Carried' = Carried
  BY <1>1, <1>3, <1>5 DEF Carried, SendDones, Alloc
<1>7. Handled' = Handled
  BY DEF Handled
<1>8. HType'
  BY <1>2, <1>3 DEF HInv, HType
<1>9. MsgSound'
  BY <1>3, <1>4 DEF HInv, MsgSound, Alloc
<1>10. RunSound'
  BY <1>1, <1>2, <1>3, <1>4 DEF HInv, RunSound, Idle, Alloc, Handled
<1>11. QueueSound'
  BY <1>2, <1>4 DEF HInv, QueueSound
<1>12. SendDoneSound'
  BY <1>1, <1>2, <1>3, <1>4, <1>5, <1>6, <1>7 DEF HInv, SendDoneSound, SendDones, Alloc
<1>13. NoHeaderLeak'
  BY <1>2, <1>4, <1>6, <1>7 DEF HInv, NoHeaderLeak
<1>. QED BY <1>8, <1>9, <1>10, <1>11, <1>12, <1>13 DEF HInv

\* Taking the payload changes the payload and the release flag only.
LEMMA TakenMsg ==
  ASSUME NEW x \in Message
  PROVE  /\ Taken(x) \in Message
         /\ Taken(x).type = x.type /\ Taken(x).sid = x.sid
         /\ Taken(x).data = NULL /\ Taken(x).flag = x.flag \ {"RELEASE"}
BY Zenon DEF Taken, Message

\* ker_msg_take_data clears the payload of a message that is not a SENDDONE.
LEMMA TakeHInv ==
  ASSUME HInv, NEW m \in Alloc, hdr[m].type # "SENDDONE",
         hdr' = [hdr EXCEPT ![m] = Taken(@)], q' = q, run' = run
  PROVE  HInv'
<1>. USE ConstFacts
<1>1. hdr[m] \in Message /\ m \in Hdr
  BY DEF HInv, HType, Alloc
<1>2. /\ Taken(hdr[m]) \in Message /\ Taken(hdr[m]) # NULL
      /\ Taken(hdr[m]).type = hdr[m].type /\ Taken(hdr[m]).sid = hdr[m].sid
      /\ Taken(hdr[m]).data = NULL /\ Taken(hdr[m]).flag = hdr[m].flag \ {"RELEASE"}
  BY <1>1, TakenMsg
<1>3. /\ hdr' \in [Hdr -> Message \cup {NULL}] /\ hdr'[m] = Taken(hdr[m])
      /\ \A g \in Hdr : g # m => hdr'[g] = hdr[g]
  BY <1>1, <1>2 DEF HInv, HType
<1>4. Alloc' = Alloc
  BY <1>1, <1>2, <1>3 DEF Alloc
<1>5. SendDones' = SendDones /\ m \notin SendDones
  BY <1>2, <1>3, <1>4 DEF SendDones, Alloc
<1>6. \A s \in SendDones : hdr'[s] = hdr[s]
  BY <1>3, <1>5 DEF SendDones, Alloc
<1>7. Carried' = Carried
  BY <1>5, <1>6 DEF Carried
<1>8. Handled' = Handled /\ Queued' = Queued
  BY DEF Handled, Queued, QElems, Elems
<1>9. HType'
  BY <1>3 DEF HInv, HType
<1>10. MsgSound'
  BY <1>2, <1>3, <1>4 DEF HInv, MsgSound, Alloc
<1>11. RunSound'
  BY <1>2, <1>3, <1>4, <1>8 DEF HInv, RunSound, Alloc
<1>12. QueueSound'
  BY <1>4, <1>8 DEF HInv, QueueSound, QInj, Elems
<1>13. SendDoneSound'
  BY <1>4, <1>5, <1>6, <1>7, <1>8 DEF HInv, SendDoneSound
<1>14. NoHeaderLeak'
  BY <1>4, <1>7, <1>8 DEF HInv, NoHeaderLeak
<1>. QED BY <1>9, <1>10, <1>11, <1>12, <1>13, <1>14 DEF HInv

\* The state in which do_dispatch has message e in hand and the queues are qq.
InHand(qq, e) ==
  /\ hdr \in [Hdr -> Message \cup {NULL}] /\ MsgSound
  /\ qq \in [Class -> Seq(Hdr)] /\ QInj(qq) /\ QElems(qq) \subseteq Alloc
  /\ e \in Alloc \ QElems(qq)
  /\ Carried \subseteq Alloc \ (SendDones \cup QElems(qq) \cup {e})
  /\ \A s, t \in SendDones : hdr[s].data = hdr[t].data => s = t
  /\ Alloc \subseteq QElems(qq) \cup {e} \cup Carried

InnerOf(e) == IF hdr[e].type = "SENDDONE" THEN hdr[e].data ELSE NULL

SdstOf(e) == IF "RELIABLE" \in hdr[e].flag THEN hdr[e].sid ELSE NULL

\* With the scheduler idle, the header accounting follows from the accounts of
\* the slab, the queues and the SENDDONEs.
LEMMA IdleHInv ==
  ASSUME run' = Idle, hdr' \in [Hdr -> Message \cup {NULL}], q' \in [Class -> Seq(Hdr)],
         QInj(q'), MsgSound', QElems(q') \subseteq Alloc',
         Carried' \subseteq Alloc' \ (SendDones' \cup QElems(q')),
         \A s, t \in SendDones' : hdr'[s].data = hdr'[t].data => s = t,
         Alloc' \subseteq QElems(q') \cup Carried'
  PROVE  HInv'
<1>. USE ConstFacts
<1>1. Queued' = QElems(q')
  BY DEF Queued, QElems, Elems
<1>2. Handled' = {}
  BY DEF Handled, Idle
<1>3. HType' /\ RunSound'
  BY DEF HType, RunSound, Idle
<1>4. QueueSound'
  BY <1>1, Zenon DEF QueueSound, QInj, Elems
<1>5. SendDoneSound'
  BY <1>1, <1>2 DEF SendDoneSound
<1>6. NoHeaderLeak'
  BY <1>1, <1>2 DEF NoHeaderLeak
<1>. QED BY <1>3, <1>4, <1>5, <1>6 DEF HInv

\* The MSG_PKT_SENDDONE that do_dispatch posts is a well-formed message.
LEMMA SendDoneMsgType ==
  ASSUME NEW e \in Hdr, NEW d \in Pid, NEW ok \in BOOLEAN
  PROVE  /\ SendDoneMsg(e, d, ok) \in Message
         /\ SendDoneMsg(e, d, ok).type = "SENDDONE" /\ SendDoneMsg(e, d, ok).data = e
         /\ SendDoneMsg(e, d, ok).flag \subseteq {"SEND_FAIL"}
         /\ "RELIABLE" \notin SendDoneMsg(e, d, ok).flag
BY DEF SendDoneMsg, Message, Type, Flag

\* However do_dispatch ends, every header stays accounted for.
LEMMA FinishHInv ==
  ASSUME NEW qq, NEW e, NEW ok \in BOOLEAN, InHand(qq, e),
         FinishDispatch(qq, e, InnerOf(e), SdstOf(e), ok), run' = Idle
  PROVE  HInv'
<1>. USE ConstFacts
<1>0. /\ e \in Hdr /\ hdr[e] \in Message /\ e \notin QElems(qq)
      /\ \A h \in Alloc : h \in Hdr /\ hdr[h] \in Message
  BY DEF InHand, Alloc
<1>1. CASE InnerOf(e) # NULL /\ DisposeBoth(qq, e, InnerOf(e))
  <2>. DEFINE i == InnerOf(e)
  <2>1. e \in SendDones /\ i = hdr[e].data /\ i \in Carried /\ i \in Alloc /\ i # e
        /\ i \notin SendDones /\ i \notin QElems(qq)
    BY <1>0, <1>1 DEF InnerOf, InHand, SendDones, Carried
  <2>. HIDE DEF i
  <2>2. /\ hdr' \in [Hdr -> Message \cup {NULL}] /\ hdr'[i] = NULL /\ hdr'[e] = NULL
        /\ \A g \in Hdr : g # i /\ g # e => hdr'[g] = hdr[g]
        /\ q' = qq
    BY <1>0, <1>1, <2>1 DEF DisposeBoth, InHand, i
  <2>3. Alloc' = Alloc \ {i, e}
    BY <2>2 DEF Alloc
  <2>4. SendDones' = SendDones \ {e}
    BY <2>1, <2>2, <2>3 DEF SendDones, Alloc
  <2>5. \A s \in SendDones' : s \in SendDones /\ s # e /\ hdr'[s] = hdr[s]
    BY <2>1, <2>2, <2>4 DEF SendDones, Alloc
  <2>6. Carried' = Carried \ {i}
    <3>1. ASSUME NEW x \in Carried' PROVE x \in Carried /\ x # i
      <4>1. PICK s \in SendDones' : x = hdr'[s].data
        BY <3>1 DEF Carried
      <4>. QED BY <2>1, <2>5, <4>1 DEF Carried, InHand
    <3>2. ASSUME NEW x \in Carried, x # i PROVE x \in Carried'
      <4>1. PICK s \in SendDones : x = hdr[s].data
        BY <3>2 DEF Carried
      <4>2. s \in SendDones' /\ hdr'[s] = hdr[s]
        BY <2>1, <2>4, <2>5, <3>2, <4>1
      <4>. QED BY <4>1, <4>2 DEF Carried
    <3>. QED BY <3>1, <3>2
  <2>7. MsgSound'
    BY <2>2, <2>3 DEF MsgSound, InHand, Alloc
  <2>8. Alloc' \subseteq QElems(q') \cup Carried'
    BY <2>2, <2>3, <2>6 DEF InHand
  <2>9. QElems(q') \subseteq Alloc'
    BY <1>0, <2>1, <2>2, <2>3 DEF InHand
  <2>10. Carried' \subseteq Alloc' \ (SendDones' \cup QElems(q'))
    BY <2>2, <2>3, <2>4, <2>6 DEF InHand
  <2>11. \A s, t \in SendDones' : hdr'[s].data = hdr'[t].data => s = t
    BY <2>5 DEF InHand
  <2>12. q' \in [Class -> Seq(Hdr)] /\ QInj(q')
    BY <2>2 DEF InHand
  <2>. QED BY <2>2, <2>7, <2>8, <2>9, <2>10, <2>11, <2>12, IdleHInv
<1>2. CASE InnerOf(e) = NULL /\ SendSendDone(qq, e, SdstOf(e), ok)
  <2>1. PICK h \in FreeHdr : /\ hdr' = [hdr EXCEPT ![h] = SendDoneMsg(e, SdstOf(e), ok)]
                             /\ q' = Enqueue(qq, "lq", h)
    BY <1>2, Zenon DEF SendSendDone
  <2>. DEFINE sd == SendDoneMsg(e, SdstOf(e), ok)
  <2>2. e \notin SendDones /\ h \in Hdr /\ h \notin Alloc /\ h # e /\ h \notin QElems(qq)
    BY <1>0, <1>2 DEF InnerOf, InHand, SendDones, FreeHdr, Alloc, MsgSound
  <2>3. SdstOf(e) \in Pid
    BY <1>0, <1>2 DEF SdstOf, InHand, MsgSound, SendSendDone, Alloc
  <2>4. /\ sd \in Message /\ sd.type = "SENDDONE" /\ sd.data = e
        /\ sd.flag \subseteq {"SEND_FAIL"} /\ "RELIABLE" \notin sd.flag
    BY <1>0, <2>3, SendDoneMsgType
  <2>. HIDE DEF sd
  <2>5. /\ hdr' \in [Hdr -> Message \cup {NULL}] /\ hdr'[h] = sd /\ sd # NULL
        /\ \A g \in Hdr : g # h => hdr'[g] = hdr[g]
    BY <2>1, <2>2, <2>4 DEF InHand, sd
  <2>6. Alloc' = Alloc \cup {h}
    BY <2>2, <2>5 DEF Alloc
  <2>7. SendDones' = SendDones \cup {h} /\ h \notin SendDones
    BY <2>2, <2>4, <2>5, <2>6 DEF SendDones, Alloc
  <2>8. \A s \in SendDones : hdr'[s] = hdr[s] /\ hdr[s].data # e /\ hdr[s].data \in Carried
    BY <2>2, <2>5 DEF SendDones, Alloc, InHand, Carried
  <2>9. Carried' = Carried \cup {e}
    <3>1. ASSUME NEW x \in Carried' PROVE x \in Carried \cup {e}
      BY <2>4, <2>5, <2>7, <2>8, <3>1 DEF Carried
    <3>2. ASSUME NEW x \in Carried \cup {e} PROVE x \in Carried'
      BY <2>4, <2>5, <2>7, <2>8, <3>2 DEF Carried
    <3>. QED BY <3>1, <3>2
  <2>10. MsgSound'
    BY <1>0, <2>4, <2>5, <2>6 DEF MsgSound, InHand, Alloc
  <2>11. q' \in [Class -> Seq(Hdr)] /\ QInj(q') /\ QElems(q') = QElems(qq) \cup {h}
    BY <2>1, <2>2, EnqueueLemma DEF InHand, Class
  <2>12. Alloc' \subseteq QElems(q') \cup Carried'
    BY <2>6, <2>9, <2>11 DEF InHand
  <2>13. QElems(q') \subseteq Alloc'
    BY <2>6, <2>11 DEF InHand
  <2>14. Carried' \subseteq Alloc' \ (SendDones' \cup QElems(q'))
    BY <1>0, <2>2, <2>6, <2>7, <2>9, <2>11 DEF InHand
  <2>15. \A s, t \in SendDones' : hdr'[s].data = hdr'[t].data => s = t
    BY <2>4, <2>5, <2>7, <2>8 DEF InHand
  <2>. QED BY <2>5, <2>10, <2>11, <2>12, <2>13, <2>14, <2>15, IdleHInv
<1>3. CASE InnerOf(e) = NULL /\ DisposeOne(qq, e, SdstOf(e))
  <2>1. e \notin SendDones
    BY <1>0, <1>3 DEF InnerOf, InHand, SendDones, MsgSound
  <2>2. /\ hdr' \in [Hdr -> Message \cup {NULL}] /\ hdr'[e] = NULL
        /\ \A g \in Hdr : g # e => hdr'[g] = hdr[g]
        /\ q' = qq
    BY <1>0, <1>3 DEF DisposeOne, InHand
  <2>3. Alloc' = Alloc \ {e}
    BY <2>2 DEF Alloc
  <2>4. SendDones' = SendDones
    BY <2>1, <2>2, <2>3 DEF SendDones, Alloc
  <2>5. \A s \in SendDones : hdr'[s] = hdr[s]
    BY <2>1, <2>2 DEF SendDones, Alloc
  <2>6. Carried' = Carried
    BY <2>4, <2>5 DEF Carried
  <2>7. MsgSound'
    BY <2>2, <2>3 DEF MsgSound, InHand, Alloc
  <2>8. /\ Alloc' \subseteq QElems(q') \cup Carried'
        /\ QElems(q') \subseteq Alloc'
        /\ Carried' \subseteq Alloc' \ (SendDones' \cup QElems(q'))
    BY <1>0, <2>2, <2>3, <2>4, <2>6 DEF InHand
  <2>9. \A s, t \in SendDones' : hdr'[s].data = hdr'[t].data => s = t
    BY <2>4, <2>5 DEF InHand
  <2>10. q' \in [Class -> Seq(Hdr)] /\ QInj(q')
    BY <2>2 DEF InHand
  <2>. QED BY <2>2, <2>7, <2>8, <2>9, <2>10, IdleHInv
<1>. QED BY <1>1, <1>2, <1>3 DEF FinishDispatch

\* Taking the next message from the queues leaves do_dispatch with it in hand.
LEMMA DequeueInHand ==
  ASSUME HInv, run = Idle, Pending
  PROVE  InHand(mq_dequeue(Front), Head(q[Front]))
<1>. USE ConstFacts
<1>1. Front \in Class /\ q[Front] # <<>>
  BY DEF Front, Pending, Class
<1>. DEFINE c == Front
            e == Head(q[c])
            qq == mq_dequeue(c)
<1>2. /\ qq \in [Class -> Seq(Hdr)] /\ QInj(qq) /\ e \in Queued /\ e \in Hdr
      /\ QElems(qq) = Queued \ {e}
  BY <1>1, DequeueLemma DEF HInv, HType, QueueSound, Queued
<1>. HIDE DEF c, e, qq
<1>3. Handled = {}
  BY DEF Handled, Idle
<1>4. QElems(qq) \subseteq Alloc /\ e \in Alloc \ QElems(qq)
  BY <1>2 DEF HInv, QueueSound
<1>5. Carried \subseteq Alloc \ (SendDones \cup QElems(qq) \cup {e})
  BY <1>2 DEF HInv, SendDoneSound
<1>6. Alloc \subseteq QElems(qq) \cup {e} \cup Carried
  BY <1>2, <1>3 DEF HInv, NoHeaderLeak
<1>7. InHand(qq, e)
  BY <1>2, <1>4, <1>5, <1>6 DEF InHand, HInv, HType, SendDoneSound
<1>. QED BY <1>7 DEF qq, e, c

\* While its handler runs, do_dispatch still has the message in hand.
LEMMA RunInHand ==
  ASSUME HInv, run.k = "msg"
  PROVE  /\ InHand(q, run.e) /\ run.inner = InnerOf(run.e) /\ run.sdst = SdstOf(run.e)
<1>. USE ConstFacts
<1>1. run.e \in Alloc \ Queued /\ run.e \in Hdr
  BY DEF HInv, RunSound, Alloc
<1>2. Handled = {run.e}
  BY <1>1 DEF Handled
<1>3. InHand(q, run.e)
  BY <1>1, <1>2 DEF InHand, HInv, HType, QueueSound, SendDoneSound, NoHeaderLeak, Queued
<1>. QED BY <1>3 DEF InnerOf, SdstOf, HInv, RunSound

\* Calling a handler moves a header from the queues to the scheduler's hand.
LEMMA StartHInv ==
  ASSUME NEW qq, NEW e, InHand(qq, e), q' = qq, hdr' = hdr,
         run' = [k |-> "msg", pid |-> hdr[e].did, e |-> e, inner |-> InnerOf(e), sdst |-> SdstOf(e)]
  PROVE  HInv'
<1>. USE ConstFacts
<1>1. e \in Hdr /\ hdr[e] \in Message /\ hdr[e].did \in Pid
  BY DEF InHand, Alloc, Message
<1>2. InnerOf(e) \in Hdr \cup {NULL} /\ SdstOf(e) \in Pid \cup {NULL}
  BY DEF InHand, InnerOf, SdstOf, MsgSound
<1>3. /\ Alloc' = Alloc /\ SendDones' = SendDones /\ Carried' = Carried
      /\ Queued' = QElems(qq) /\ Handled' = {e}
  BY <1>1 DEF Alloc, SendDones, Carried, Queued, QElems, Elems, Handled
<1>4. HType'
  BY <1>1, <1>2, SMTT(30) DEF HType, InHand
<1>5. MsgSound'
  BY <1>3 DEF MsgSound, InHand
<1>6. RunSound'
  BY <1>1, <1>3, SMTT(30) DEF RunSound, InHand, InnerOf, SdstOf
<1>7. QueueSound'
  <2>1. QInj(q') /\ QElems(qq) \subseteq Alloc
    BY DEF InHand
  <2>. QED BY <1>3, <2>1 DEF QueueSound, QInj, Elems
<1>8. SendDoneSound'
  BY <1>3 DEF SendDoneSound, InHand
<1>9. NoHeaderLeak'
  BY <1>3 DEF NoHeaderLeak, InHand
<1>. QED BY <1>4, <1>5, <1>6, <1>7, <1>8, <1>9, SMTT(30) DEF HInv

\* A soft interrupt's handler has no message in hand.
LEMMA ShortHInv ==
  ASSUME HInv, run.k # "msg", hdr' = hdr, q' = q,
         run' = Idle \/ \E p \in Pid : run' = [k |-> "short", pid |-> p, e |-> NULL,
                                               inner |-> NULL, sdst |-> NULL]
  PROVE  HInv'
<1>. USE ConstFacts
<1>1. Handled = {}
  BY HandledAlloc
<1>2. run'.e = NULL
  BY DEF Idle
<1>3. HType'
  BY DEF HInv, HType, Idle
<1>4. RunSound'
  BY DEF RunSound, Idle
<1>5. /\ Alloc' = Alloc /\ SendDones' = SendDones /\ Carried' = Carried
      /\ Queued' = Queued
  BY DEF Alloc, SendDones, Carried, Queued, QElems, Elems
<1>6. Handled' = {}
  BY <1>2 DEF Handled
<1>7. MsgSound'
  BY <1>5 DEF HInv, MsgSound
<1>8. QueueSound'
  BY <1>5 DEF HInv, QueueSound, QInj, Elems
<1>9. SendDoneSound' /\ NoHeaderLeak'
  BY <1>1, <1>5, <1>6 DEF HInv, SendDoneSound, NoHeaderLeak
<1>. QED BY <1>3, <1>4, <1>7, <1>8, <1>9 DEF HInv

\* The header accounting does not depend on the other variables.
LEMMA SameHInv ==
  ASSUME HInv, UNCHANGED <<hdr, q, run>>
  PROVE  HInv'
<1>1. /\ Alloc' = Alloc /\ SendDones' = SendDones /\ Carried' = Carried
      /\ Queued' = Queued /\ Handled' = Handled
  BY SMTT(30) DEF Alloc, SendDones, Carried, Queued, QElems, Elems, Handled
<1>2. HType /\ MsgSound /\ RunSound /\ QueueSound /\ SendDoneSound /\ NoHeaderLeak
  BY DEF HInv
<1>3. HType'
  BY <1>2 DEF HType
<1>4. MsgSound'
  BY <1>1, <1>2 DEF MsgSound
<1>5. RunSound'
  BY <1>1, <1>2 DEF RunSound, Idle
<1>6. QueueSound'
  BY <1>1, <1>2 DEF QueueSound
<1>7. SendDoneSound' /\ NoHeaderLeak'
  BY <1>1, <1>2 DEF SendDoneSound, NoHeaderLeak
<1>. QED BY <1>3, <1>4, <1>5, <1>6, <1>7 DEF HInv

OType ==
  /\ own \in [Blk -> Pid \cup {SCHED, FREE}]
  /\ mods \subseteq Pid
  /\ fin \in Pid \cup {NULL}
  /\ held \in [Pid -> SUBSET Blk]

\* The queue a message goes to is one of the three.
LEMMA ClassOfClass == ASSUME NEW f PROVE ClassOf(f) \in Class
BY DEF ClassOf, Class

\* post_longer, whether it finds a header or not.
LEMMA PostStep ==
  ASSUME HInv, NEW msg \in Message, msg.type # "SENDDONE", msg.data \notin Hdr,
         "RELIABLE" \in msg.flag => msg.sid \in Pid, run' = run,
         (\E h \in Hdr : PostOK(h, msg)) \/ PostNoMem(msg)
  PROVE  HInv'
<1>1. ASSUME NEW h \in Hdr, PostOK(h, msg) PROVE HInv'
  BY <1>1, PostHInv, ClassOfClass, Zenon DEF PostOK, mq_enqueue
<1>2. CASE PostNoMem(msg)
  BY <1>2, SameHInv DEF PostNoMem
<1>. QED BY <1>1, <1>2, SMTT(30)

\* A step that is not a garbage collection.
Step == Next /\ ~malloc_gc_kernel

\* Every step of the system preserves the header accounting.
LEMMA NextHInv ==
  ASSUME HInv, [Step]_vars
  PROVE  HInv'
<1>. USE ConstFacts
<1>1. ASSUME NEW p \in Pid, NEW did \in Pid, NEW b \in Blk, NEW f \in FlagSets,
             post_long(p, did, b, f)
      PROVE  HInv'
  <2>. DEFINE msg == [did |-> did, sid |-> p, type |-> "DATA", data |-> b, flag |-> f]
  <2>1. msg \in Message /\ msg.type # "SENDDONE" /\ msg.data \notin Hdr /\ msg.sid \in Pid
    BY SchedAssumption DEF Message, Type, Flag
  <2>2. ((\E h \in Hdr : PostOK(h, msg)) \/ PostNoMem(msg)) /\ run' = run
    BY <1>1 DEF post_long
  <2>. HIDE DEF msg
  <2>. QED BY <2>1, <2>2, PostStep
<1>2. ASSUME NEW p \in Pid, NEW did \in Pid, NEW f \in FlagSets, post_short(p, did, f)
      PROVE  HInv'
  <2>. DEFINE msg == [did |-> did, sid |-> p, type |-> "DATA", data |-> PAYLOAD,
                      flag |-> f \ {"RELEASE"}]
  <2>1. msg \in Message /\ msg.type # "SENDDONE" /\ msg.data \notin Hdr /\ msg.sid \in Pid
    BY SchedAssumption DEF Message, Type, Flag
  <2>2. ((\E h \in Hdr : PostOK(h, msg)) \/ PostNoMem(msg)) /\ run' = run
    BY <1>2, Zenon DEF post_short
  <2>. HIDE DEF msg
  <2>. QED BY <2>1, <2>2, PostStep
<1>3. ASSUME NEW did \in Pid, isr_post_short(did) PROVE HInv'
  <2>. DEFINE msg == [did |-> did, sid |-> SCHED, type |-> "DATA", data |-> PAYLOAD,
                      flag |-> {"HIGH_PRIORITY"}]
  <2>1. msg \in Message /\ msg.type # "SENDDONE" /\ msg.data \notin Hdr
        /\ "RELIABLE" \notin msg.flag
    BY DEF Message, Type, Flag
  <2>2. (\E h \in Hdr : PostOK(h, msg)) /\ run' = run
    BY <1>3 DEF isr_post_short
  <2>. HIDE DEF msg
  <2>. QED BY <2>1, <2>2, PostStep
<1>4. ASSUME NEW p \in Pid, NEW b \in Blk, ker_malloc(p, b) \/ sys_free(p, b) PROVE HInv'
  BY <1>4, SameHInv DEF ker_malloc, sys_free
<1>5. ASSUME NEW p \in Pid, ker_msg_take_data(p) PROVE HInv'
  <2>1. run.k = "msg" /\ run.e \in Alloc /\ q' = q /\ run' = run
    BY <1>5 DEF ker_msg_take_data, HInv, RunSound
  <2>2. TakeFrom \in Alloc /\ hdr[TakeFrom].type # "SENDDONE"
    BY <2>1 DEF TakeFrom, HInv, SendDoneSound, Carried, SendDones
  <2>3. hdr' = [hdr EXCEPT ![TakeFrom] = Taken(@)] \/ hdr' = hdr
    BY <1>5 DEF ker_msg_take_data
  <2>. QED BY <2>1, <2>2, <2>3, TakeHInv, SameHInv
<1>6. CASE do_dispatch
  <2>. DEFINE e == Head(q[Front])
              qq == mq_dequeue(Front)
  <2>1. run = Idle /\ InHand(qq, e)
    BY <1>6, DequeueInHand DEF do_dispatch
  <2>2. \/ /\ q' = qq /\ hdr' = hdr
           /\ run' = [k |-> "msg", pid |-> hdr[e].did, e |-> e,
                      inner |-> InnerOf(e), sdst |-> SdstOf(e)]
        \/ FinishDispatch(qq, e, InnerOf(e), SdstOf(e), FALSE) /\ run' = run
    BY <1>6, Zenon DEF do_dispatch, InnerOf, SdstOf
  <2>. HIDE DEF e, qq
  <2>3. FALSE \in BOOLEAN
    OBVIOUS
  <2>. QED BY <2>1, <2>2, <2>3, StartHInv, FinishHInv, Zenon
<1>7. ASSUME NEW ok \in BOOLEAN, handler_return(ok) PROVE HInv'
  <2>1. run.k = "msg" /\ FinishDispatch(q, run.e, run.inner, run.sdst, ok) /\ run' = Idle
    BY <1>7 DEF handler_return
  <2>. QED BY <2>1, RunInHand, FinishHInv
<1>8. ASSUME NEW p \in Pid, sched_dispatch_short_message(p) PROVE HInv'
  BY <1>8, ShortHInv DEF sched_dispatch_short_message, Idle
<1>9. CASE short_return
  BY <1>9, ShortHInv DEF short_return
<1>10. ASSUME NEW p \in Pid, ker_register_module(p) PROVE HInv'
  <2>. DEFINE msg == [did |-> p, sid |-> SCHED, type |-> "INIT", data |-> NULL,
                      flag |-> {"RELEASE", "SYSTEM_PRIORITY"}]
  <2>1. msg \in Message /\ msg.type # "SENDDONE" /\ msg.data \notin Hdr
        /\ "RELIABLE" \notin msg.flag
    BY DEF Message, Type, Flag
  <2>2. ((\E h \in Hdr : PostOK(h, msg)) \/ PostNoMem(msg)) /\ run' = run
    BY <1>10, Zenon DEF ker_register_module
  <2>. HIDE DEF msg
  <2>. QED BY <2>1, <2>2, PostStep
<1>11. ASSUME NEW p \in Pid, ker_deregister_module(p) PROVE HInv'
  BY <1>11, SameHInv DEF ker_deregister_module
<1>12. CASE deregister_finish
  BY <1>12, SameHInv DEF deregister_finish
<1>14. CASE UNCHANGED vars
  BY <1>14, SameHInv DEF vars
<1>. QED
  BY <1>1, <1>2, <1>3, <1>4, <1>5, <1>6, <1>7, <1>8, <1>9, <1>10, <1>11, <1>12, <1>14
     DEF Next, Step

\* ker_free, ker_change_own and msg_dispose yield owners.
LEMMA OwnType ==
  ASSUME NEW ow \in [Blk -> Pid \cup {SCHED, FREE}], NEW d, NEW p \in Pid \cup {SCHED}, NEW m
  PROVE  /\ ker_free(ow, d) \in [Blk -> Pid \cup {SCHED, FREE}]
         /\ ker_change_own(ow, d, p) \in [Blk -> Pid \cup {SCHED, FREE}]
         /\ DisposeOwn(ow, m) \in [Blk -> Pid \cup {SCHED, FREE}]
BY DEF ker_free, ker_change_own, DisposeOwn

\* Every step of the system preserves the types of the remaining variables.
LEMMA NextOType ==
  ASSUME HInv, OType, [Step]_vars
  PROVE  OType'
<1>. USE ConstFacts
<1>. DEFINE O == [Blk -> Pid \cup {SCHED, FREE}]
<1>0. own \in O /\ mods \subseteq Pid /\ fin \in Pid \cup {NULL} /\ held \in [Pid -> SUBSET Blk]
  BY DEF OType
<1>1. ASSUME NEW h, NEW msg, PostOK(h, msg) \/ PostNoMem(msg) PROVE own' \in O
  <2>1. CASE PostOK(h, msg)
    <3>1. own' = IF "RELEASE" \in msg.flag THEN ker_change_own(own, msg.data, SCHED) ELSE own
      BY <2>1, Zenon DEF PostOK
    <3>2. ker_change_own(own, msg.data, SCHED) \in O
      BY <1>0, OwnType
    <3>. QED BY <1>0, <3>1, <3>2
  <2>2. CASE PostNoMem(msg)
    <3>1. own' = IF "RELEASE" \in msg.flag THEN ker_free(own, msg.data) ELSE own
      BY <2>2, Zenon DEF PostNoMem
    <3>2. ker_free(own, msg.data) \in O
      BY <1>0, OwnType, Zenon
    <3>. QED BY <1>0, <3>1, <3>2
  <2>. QED BY <1>1, <2>1, <2>2
<1>2. ASSUME NEW qq, NEW e, NEW i, NEW d, NEW ok, FinishDispatch(qq, e, i, d, ok)
      PROVE  own' \in O
  <2>1. DisposeOwn(own, i) \in O
    BY <1>0, OwnType
  <2>2. DisposeOwn(DisposeOwn(own, i), e) \in O /\ DisposeOwn(own, e) \in O
    BY <1>0, <2>1, OwnType, Zenon
  <2>. QED BY <1>0, <1>2, <2>2 DEF FinishDispatch, DisposeBoth, SendSendDone, DisposeOne
<1>3. ASSUME NEW p \in Pid, NEW did \in Pid, NEW b \in Blk, NEW f \in FlagSets,
             post_long(p, did, b, f)
      PROVE  OType'
  BY <1>0, <1>1, <1>3 DEF post_long, OType
<1>4. ASSUME NEW p \in Pid, NEW did \in Pid, NEW f \in FlagSets, post_short(p, did, f)
      PROVE  OType'
  BY <1>0, <1>1, <1>4 DEF post_short, OType
<1>5. ASSUME NEW did \in Pid, isr_post_short(did) PROVE OType'
  BY <1>0, <1>1, <1>5 DEF isr_post_short, OType
<1>6. ASSUME NEW p \in Pid, NEW b \in Blk, ker_malloc(p, b) \/ sys_free(p, b) PROVE OType'
  <2>1. CASE ker_malloc(p, b)
    BY <1>0, <2>1 DEF ker_malloc, OType
  <2>2. CASE sys_free(p, b)
    <3>1. own' = ker_free(own, b)
      BY <2>2 DEF sys_free
    <3>2. own' \in O
      BY <1>0, <3>1, OwnType, Zenon
    <3>. QED BY <1>0, <2>2, <3>2 DEF sys_free, OType
  <2>. QED BY <1>6, <2>1, <2>2
<1>7. ASSUME NEW p \in Pid, ker_msg_take_data(p) PROVE OType'
  <2>1. mods' = mods /\ fin' = fin
    BY <1>7 DEF ker_msg_take_data
  <2>2. CASE \E d : /\ own' = ker_change_own(own, d, p)
                    /\ held' = [held EXCEPT ![p] = @ \cup ({d} \cap Blk)]
    <3>1. PICK d : /\ own' = ker_change_own(own, d, p)
                   /\ held' = [held EXCEPT ![p] = @ \cup ({d} \cap Blk)]
      BY <2>2, Zenon
    <3>2. own' \in O
      BY <1>0, <3>1, OwnType, Zenon
    <3>3. held' \in [Pid -> SUBSET Blk]
      BY <1>0, <3>1
    <3>. QED BY <1>0, <2>1, <3>2, <3>3 DEF OType
  <2>3. CASE \E b \in Blk : /\ own' = [own EXCEPT ![b] = p]
                            /\ held' = [held EXCEPT ![p] = @ \cup {b}]
    BY <1>0, <2>1, <2>3 DEF OType
  <2>. QED BY <1>7, <2>2, <2>3, Zenon DEF ker_msg_take_data
<1>8. CASE do_dispatch
  <2>. DEFINE e == Head(q[Front])
  <2>1. \/ own' = own
        \/ own' = ker_change_own(own, hdr[e].data, hdr[e].did) /\ hdr[e].did \in mods
        \/ \E qq, i, d : FinishDispatch(qq, e, i, d, FALSE)
    BY <1>8, Zenon DEF do_dispatch
  <2>. HIDE DEF e
  <2>2. own' \in O
    <3>1. CASE own' = ker_change_own(own, hdr[e].data, hdr[e].did) /\ hdr[e].did \in mods
      <4>1. hdr[e].did \in Pid \cup {SCHED}
        BY <1>0, <3>1
      <4>. QED BY <1>0, <3>1, <4>1, OwnType
    <3>2. CASE \E qq, i, d : FinishDispatch(qq, e, i, d, FALSE)
      BY <1>2, <3>2, Zenon
    <3>. QED BY <1>0, <2>1, <3>1, <3>2, Zenon
  <2>. QED BY <1>0, <1>8, <2>2 DEF do_dispatch, OType
<1>9. ASSUME NEW ok \in BOOLEAN, handler_return(ok) PROVE OType'
  BY <1>0, <1>2, <1>9 DEF handler_return, OType
<1>10. ASSUME NEW p \in Pid, sched_dispatch_short_message(p) PROVE OType'
  BY <1>0, <1>10 DEF sched_dispatch_short_message, OType
<1>11. CASE short_return
  BY <1>0, <1>11 DEF short_return, OType
<1>12. ASSUME NEW p \in Pid, ker_register_module(p) PROVE OType'
  BY <1>0, <1>1, <1>12 DEF ker_register_module, OType
<1>13. ASSUME NEW p \in Pid, ker_deregister_module(p) PROVE OType'
  BY <1>0, <1>13 DEF ker_deregister_module, OType
<1>14. CASE deregister_finish
  BY <1>0, <1>14 DEF deregister_finish, OType
<1>16. CASE UNCHANGED vars
  BY <1>0, <1>16 DEF vars, OType
<1>. QED
  BY <1>3, <1>4, <1>5, <1>6, <1>7, <1>8, <1>9, <1>10, <1>11, <1>12, <1>13, <1>14, <1>16
     DEF Next, Step

\* The scheduler starts with empty queues and every header in the slab.
LEMMA InitHInv == Init => HInv /\ OType
<1>. USE ConstFacts
<1>. SUFFICES ASSUME Init PROVE HInv /\ OType
  OBVIOUS
<1>1. Alloc = {} /\ SendDones = {} /\ Carried = {} /\ Handled = {}
  BY DEF Init, Alloc, SendDones, Carried, Handled, Idle
<1>2. q \in [Class -> Seq(Hdr)] /\ \A c \in Class : q[c] = <<>> /\ Elems(q[c]) = {}
  BY DEF Init, Elems
<1>3. Queued = {} /\ QInj(q)
  BY <1>2 DEF Queued, QElems, QInj
<1>4. HType /\ RunSound
  BY <1>2 DEF Init, HType, RunSound, Idle
<1>5. MsgSound /\ QueueSound /\ SendDoneSound /\ NoHeaderLeak
  BY <1>1, <1>3 DEF MsgSound, QueueSound, SendDoneSound, NoHeaderLeak
<1>. QED BY <1>4, <1>5 DEF HInv, OType, Init

\* In a build without garbage collection the variables keep their types.
THEOREM TypeCorrect == ASSUME ~UseGC PROVE Spec => []TypeOK
<1>1. HInv /\ OType /\ [Next]_vars => HInv' /\ OType'
  BY NextHInv, NextOType DEF Step, malloc_gc_kernel
<1>2. HInv /\ OType => TypeOK
  BY DEF HInv, HType, OType, TypeOK
<1>. QED BY <1>1, <1>2, InitHInv, PTL DEF Spec

\* In a build without garbage collection every message header is in exactly one
\* place (slab, one queue, the running handler, one SENDDONE), for any number of
\* headers and modules, any flags, and any posts, failures and removals.
THEOREM HeaderAccounting ==
  ASSUME ~UseGC PROVE Spec => [](HeadersSound /\ SendDoneSound)
<1>1. HInv /\ OType /\ [Next]_vars => HInv' /\ OType'
  BY NextHInv, NextOType DEF Step, malloc_gc_kernel
<1>2. HInv /\ OType => HeadersSound /\ SendDoneSound
  BY SMTT(30) DEF HInv, HeadersSound
<1>. QED BY <1>1, <1>2, InitHInv, PTL DEF Spec

\* No SENDDONE is under way for a header that is somewhere else.
THEOREM SendDoneOnce == ASSUME ~UseGC PROVE Spec => []SendDoneSound
BY HeaderAccounting, PTL

--------------------------------------------------------------------------------
\* Dissemination.

\* No message is newer than what its sender has, and a node does not remember a
\* neighbour that has less than itself.
AirOld == \A m \in air : m.from \in Node => m.ver <= ver[m.from]

\* The parts of the type invariant that the proofs need.
Typed ==
  /\ ver \in [Node -> Version]
  /\ send \in [Node -> BOOLEAN]
  /\ armed \in [Node -> {"none", "tran", "data"}]
  /\ recent \in [Node -> Source]
  /\ air \subseteq Packet

IInv == Typed /\ SendArmed /\ AirOld /\ RecentHas

\* A broadcast adds only packets of its sender with its version.
LEMMA BroadcastSound ==
  ASSUME Typed, NEW n \in Node, NEW kind \in {"adv", "data"},
         Broadcast(n, kind, ver[n])
  PROVE  /\ air' \subseteq Packet
         /\ \A m \in air' \ air : m.from = n /\ m.ver = ver[n]
BY DissAssumption DEF Broadcast, Typed, Packet, Version, Source, DissAssumption

\* A step that sets the flag and the timer of one node alike keeps SendArmed.
LEMMA OneNode ==
  ASSUME Typed, SendArmed, NEW n \in Node, NEW s \in BOOLEAN,
         NEW t \in {"none", "tran", "data"}, s <=> t = "data",
         send' = [send EXCEPT ![n] = s], armed' = [armed EXCEPT ![n] = t]
  PROVE  /\ send' \in [Node -> BOOLEAN]
         /\ armed' \in [Node -> {"none", "tran", "data"}]
         /\ SendArmed'
<1>1. send' \in [Node -> BOOLEAN] /\ armed' \in [Node -> {"none", "tran", "data"}]
  BY DEF Typed
<1>2. SUFFICES ASSUME NEW k \in Node PROVE send'[k] <=> armed'[k] = "data"
  BY <1>1 DEF SendArmed
<1>3. CASE k = n
  <2>1. send'[k] = s /\ armed'[k] = t
    BY <1>3 DEF Typed
  <2> QED BY <2>1
<1>4. CASE k # n
  <2>1. send'[k] = send[k] /\ armed'[k] = armed[k]
    BY <1>4 DEF Typed
  <2> QED BY <2>1 DEF SendArmed
<1> QED BY <1>3, <1>4

\* At boot no node has sent or heard anything.
LEMMA InitIInv == dissInit => IInv
BY DissAssumption DEF DissAssumption, dissInit, IInv, Typed, SendArmed, AirOld, RecentHas, Version, Source

\* Every timeout and every packet keeps IInv.
LEMMA StepIInv == IInv /\ [dissNext]_dissVars => IInv'
<1> SUFFICES ASSUME IInv, [dissNext]_dissVars PROVE IInv'
    OBVIOUS
<1> USE DissAssumption DEF IInv
<1>1. ASSUME NEW n \in Node, tou_timeout(n) PROVE IInv'
  BY <1>1 DEF tou_timeout, restartInterval, Typed, SendArmed, AirOld, RecentHas
<1>2. ASSUME NEW n \in Node, tran_timeout(n) PROVE IInv'
  <2>1. /\ air' \subseteq Packet
        /\ \A m \in air' \ air : m.from = n /\ m.ver = ver[n]
    BY <1>2, BroadcastSound DEF tran_timeout, Typed
  <2>2. /\ armed' = [armed EXCEPT ![n] = "none"] /\ armed[n] = "tran"
        /\ UNCHANGED <<ver, send, fetching, recent>>
    BY <1>2 DEF tran_timeout
  <2>3. Typed' /\ SendArmed'
    BY <2>1, <2>2 DEF Typed, SendArmed
  <2>4. AirOld' /\ RecentHas'
    BY <2>1, <2>2 DEF AirOld, RecentHas, Typed, Version
  <2> QED BY <2>3, <2>4
<1>3. ASSUME NEW n \in Node, data_timeout(n) PROVE IInv'
  <2>1. /\ air' \subseteq Packet
        /\ \A m \in air' \ air : m.from = n /\ m.ver = ver[n]
    BY <1>3, BroadcastSound DEF data_timeout
  <2>2. /\ armed' = [armed EXCEPT ![n] = "none"]
        /\ send' = [send EXCEPT ![n] = FALSE]
        /\ UNCHANGED <<ver, fetching, recent>>
    BY <1>3 DEF data_timeout
  <2>3. Typed' /\ SendArmed'
    BY <2>1, <2>2 DEF Typed, SendArmed
  <2>4. AirOld' /\ RecentHas'
    BY <2>1, <2>2 DEF AirOld, RecentHas, Typed, Version
  <2> QED BY <2>3, <2>4
<1>4. ASSUME NEW m \in air, diss_version_adv(m) PROVE IInv'
  <2> DEFINE n == m.to
  <2>1. /\ n \in Node /\ m.from \in Source /\ m.ver \in Version
        /\ ver[n] \in Version /\ ver' = ver /\ air' \subseteq air
    BY <1>4 DEF diss_version_adv, Typed, Packet
  <2>2. recent' \in [Node -> Source] /\ RecentHas'
    BY <1>4, <2>1 DEF diss_version_adv, Recent, RecentHas, AirOld, Typed, Source, Version,
       DissAssumption
  <2>3. send' \in [Node -> BOOLEAN] /\ armed' \in [Node -> {"none", "tran", "data"}] /\ SendArmed'
    <3>0. send = [send EXCEPT ![n] = send[n]] /\ armed = [armed EXCEPT ![n] = armed[n]]
      BY DEF Typed
    <3>1. send[n] \in BOOLEAN /\ armed[n] \in {"none", "tran", "data"}
      BY <2>1 DEF Typed
    <3>2. send[n] <=> armed[n] = "data"
      BY <2>1 DEF SendArmed
    <3>3. CASE restartInterval(n, send[n]) /\ UNCHANGED send
      <4> DEFINE t == IF send[n] THEN "data" ELSE "tran"
      <4>1. t \in {"none", "tran", "data"} /\ (send[n] <=> t = "data")
        BY <3>1
      <4>2. armed' = [armed EXCEPT ![n] = t] /\ send' = [send EXCEPT ![n] = send[n]]
        BY <3>0, <3>3 DEF restartInterval
      <4> HIDE DEF t
      <4> QED BY <2>1, <3>1, <4>1, <4>2, OneNode
    <3>4. CASE OlderHeard(n)
      <4>1. CASE send[n]
        BY <2>1, <3>0, <3>1, <3>2, <3>4, <4>1, OneNode DEF OlderHeard
      <4>2. CASE ~send[n]
        <5>1. send' = [send EXCEPT ![n] = TRUE] /\ armed' = [armed EXCEPT ![n] = "data"]
          BY <3>4, <4>2 DEF OlderHeard, restartInterval
        <5> QED BY <2>1, <5>1, OneNode
      <4> QED BY <4>1, <4>2
    <3>5. CASE /\ armed' = [armed EXCEPT ![n] = IF @ = "tran" THEN "none" ELSE @]
               /\ UNCHANGED send
      <4> DEFINE t == IF armed[n] = "tran" THEN "none" ELSE armed[n]
      <4>1. t \in {"none", "tran", "data"} /\ (send[n] <=> t = "data")
        BY <3>1, <3>2
      <4>2. armed' = [armed EXCEPT ![n] = t] /\ send' = [send EXCEPT ![n] = send[n]]
        BY <3>0, <3>5
      <4> HIDE DEF t
      <4> QED BY <2>1, <3>1, <4>1, <4>2, OneNode
    <3> QED BY <1>4, <3>3, <3>4, <3>5 DEF diss_version_adv
  <2>4. AirOld'
    BY <2>1 DEF AirOld
  <2> QED BY <2>1, <2>2, <2>3, <2>4 DEF Typed
<1>5. ASSUME NEW m \in air, diss_version_data(m) PROVE IInv'
  <2> DEFINE n == m.to
  <2>1. /\ n \in Node /\ m.from \in Source /\ m.ver \in Version
        /\ ver[n] \in Version /\ air' \subseteq air
    BY <1>5 DEF diss_version_data, Typed, Packet
  <2>2. /\ ver' \in [Node -> Version]
        /\ ver' = [ver EXCEPT ![n] = IF Newer(m.ver, ver[n]) /\ ~(send[n] /\ m.ver = ver[n])
                                     THEN m.ver ELSE @]
    BY <1>5, <2>1 DEF diss_version_data, Newer, Typed
  <2>3. \A k \in Node : ver[k] <= ver'[k]
    BY <2>1, <2>2 DEF Newer, Typed, Version
  <2>4. recent' \in [Node -> Source]
    BY <1>5, <2>1 DEF diss_version_data, Recent, Typed
  <2>5. RecentHas'
    <3> SUFFICES ASSUME NEW k \in Node, recent'[k] # Host PROVE ver'[recent'[k]] >= ver'[k]
        BY DEF RecentHas
    <3>1. recent'[k] \in Node
      BY <2>4 DEF Source
    <3>2. CASE k # n
      <4>1. recent'[k] = recent[k] /\ ver'[k] = ver[k]
        BY <1>5, <2>1, <2>2, <3>2 DEF diss_version_data, Recent, Typed
      <4> QED BY <4>1, <2>3, <2>2, <3>1 DEF RecentHas, Typed, Version
    <3>3. CASE k = n /\ m.ver >= ver[n]
      <4>1. recent'[n] = m.from /\ ver'[n] = m.ver
        BY <1>5, <2>1, <2>2, <3>3 DEF diss_version_data, Recent, Typed, Newer, Version
      <4>2. m.ver <= ver[m.from]
        BY <3>1, <3>3, <4>1, <1>5 DEF AirOld
      <4> QED BY <4>1, <4>2, <3>1, <3>3, <2>1, <2>2, <2>3 DEF Typed, Version
    <3>4. CASE k = n /\ ~(m.ver >= ver[n])
      <4>1. recent' = recent /\ ver'[n] = ver[n]
        BY <1>5, <2>1, <2>2, <3>4 DEF diss_version_data, Recent, Typed, Newer, Version
      <4> QED BY <4>1, <3>1, <3>4, <2>1, <2>2, <2>3 DEF RecentHas, Typed, Version
    <3> QED BY <3>2, <3>3, <3>4
  <2>6. send' \in [Node -> BOOLEAN] /\ armed' \in [Node -> {"none", "tran", "data"}] /\ SendArmed'
    <3>0. send = [send EXCEPT ![n] = send[n]] /\ armed = [armed EXCEPT ![n] = armed[n]]
      BY DEF Typed
    <3>1. send[n] \in BOOLEAN /\ armed[n] \in {"none", "tran", "data"}
      BY <2>1 DEF Typed
    <3>2. send[n] <=> armed[n] = "data"
      BY <2>1 DEF SendArmed
    <3>3. CASE send[n] /\ m.ver = ver[n]
      <4>1. send' = [send EXCEPT ![n] = FALSE] /\ armed' = [armed EXCEPT ![n] = "none"]
        BY <1>5, <3>2, <3>3 DEF diss_version_data
      <4> QED BY <2>1, <4>1, OneNode
    <3>4. CASE restartInterval(n, send[n]) /\ UNCHANGED send
      <4> DEFINE t == IF send[n] THEN "data" ELSE "tran"
      <4>1. t \in {"none", "tran", "data"} /\ (send[n] <=> t = "data")
        BY <3>1
      <4>2. armed' = [armed EXCEPT ![n] = t] /\ send' = [send EXCEPT ![n] = send[n]]
        BY <3>0, <3>4 DEF restartInterval
      <4> HIDE DEF t
      <4> QED BY <2>1, <3>1, <4>1, <4>2, OneNode
    <3>5. CASE UNCHANGED <<send, armed>>
      BY <2>1, <3>0, <3>1, <3>2, <3>5, OneNode
    <3> QED BY <1>5, <3>3, <3>4, <3>5 DEF diss_version_data
  <2>7. AirOld'
    BY <2>1, <2>2, <2>3 DEF AirOld, Typed, Packet, Version
  <2> QED BY <2>1, <2>2, <2>4, <2>5, <2>6, <2>7 DEF Typed
<1>6. ASSUME NEW n \in Node, NEW more \in BOOLEAN, diss_fetcher_done(n, more) PROVE IInv'
  BY <1>6 DEF diss_fetcher_done, restartInterval, Typed, SendArmed, AirOld, RecentHas
<1>7. ASSUME NEW n \in Node, inject(n) PROVE IInv'
  <2>1. PICK v \in Version :
          air' = air \cup {[kind |-> "data", ver |-> v, from |-> Host, to |-> n]}
    BY <1>7 DEF inject
  <2>2. UNCHANGED <<ver, send, armed, fetching, recent, lost>>
    BY <1>7 DEF inject
  <2>3. air' \subseteq Packet /\ AirOld'
    BY <2>1, <2>2 DEF Typed, Packet, Source, AirOld, DissAssumption
  <2> QED BY <2>2, <2>3 DEF Typed, SendArmed, RecentHas
<1>8. CASE UNCHANGED dissVars
  BY <1>8 DEF dissVars, Typed, SendArmed, AirOld, RecentHas
<1> QED BY <1>1, <1>2, <1>3, <1>4, <1>5, <1>6, <1>7, <1>8 DEF dissNext

\* So IInv holds throughout.
LEMMA Invariance == dissInit /\ [][dissNext]_dissVars => []IInv
BY InitIInv, StepIInv, PTL

\* On every node of any network, in whatever order advertisements, version data and
\* timeouts come: st.net_state and DATA_TID agree, and the neighbour a failed fetch is
\* restarted with has the node's release (DissSound).  The version it was remembered
\* for was its own at that time, and versions never go back.
THEOREM DissIsSound == dissSpec => []DissSound
<1>1. IInv => DissSound
  BY DEF IInv, DissSound
<1> QED BY <1>1, Invariance, PTL DEF dissSpec

\* No step takes a node back to an older release (NeverBack).
THEOREM VersionsGrow == dissSpec => NeverBack
<1>1. IInv /\ [dissNext]_dissVars => [\A n \in Node : ver'[n] >= ver[n]]_dissVars
  <2> SUFFICES ASSUME IInv, dissNext, NEW n \in Node PROVE ver'[n] >= ver[n]
      BY DEF dissVars
  <2>1. ver \in [Node -> Version] /\ air \subseteq Packet
    BY DEF IInv, Typed
  <2>2. CASE UNCHANGED ver
    BY <2>1, <2>2 DEF Version
  <2>3. ASSUME NEW m \in air, diss_version_data(m) PROVE ver'[n] >= ver[n]
    BY <2>1, <2>2, <2>3 DEF diss_version_data, Newer, Version, Packet
  <2> QED BY <2>2, <2>3 DEF dissNext, tou_timeout, tran_timeout, data_timeout,
          diss_version_adv, diss_fetcher_done, inject
<1> QED BY <1>1, Invariance, PTL DEF dissSpec, NeverBack

\* A network in which all nodes agree sends no version data until the host announces
\* a release (StaysSettled).
THEOREM QuietNetwork == dissSpec => StaysSettled
<1>1. IInv /\ [dissNext]_dissVars =>
        [Settled => Settled' \/ \E n \in Node : inject(n)]_dissVars
  <2> SUFFICES ASSUME IInv, dissNext, Settled, ~\E n \in Node : inject(n) PROVE Settled'
      BY DEF dissVars
  <2>1. Typed /\ SendArmed
    BY DEF IInv
  <2>2. ASSUME NEW n \in Node, tou_timeout(n) PROVE Settled'
    BY <2>2 DEF tou_timeout, Settled
  <2>3. ASSUME NEW n \in Node, tran_timeout(n) PROVE Settled'
    <3>1. \A m \in air' \ air : m.ver = ver[n]
      BY <2>1, <2>3, BroadcastSound DEF tran_timeout
    <3> QED BY <2>3, <3>1 DEF tran_timeout, Settled
  <2>4. ASSUME NEW n \in Node, data_timeout(n) PROVE Settled'
    BY <2>1, <2>4 DEF data_timeout, Settled, SendArmed
  <2>5. ASSUME NEW m \in air, diss_version_adv(m) PROVE Settled'
    <3>1. m.to \in Node /\ m.ver = ver[m.to] /\ ver[m.to] \in Nat
      BY <2>1 DEF Typed, Packet, Settled, Version
    <3> QED BY <2>5, <3>1 DEF diss_version_adv, Settled
  <2>6. ASSUME NEW m \in air, diss_version_data(m) PROVE Settled'
    <3>1. m.to \in Node /\ m.ver = ver[m.to] /\ ver[m.to] \in Nat /\ ~send[m.to]
      BY <2>1 DEF Typed, Packet, Settled, Version
    <3> QED BY <2>6, <3>1 DEF diss_version_data, Newer, Settled
  <2>7. ASSUME NEW n \in Node, NEW more \in BOOLEAN, diss_fetcher_done(n, more) PROVE Settled'
    BY <2>7 DEF diss_fetcher_done, Settled
  <2> QED BY <2>2, <2>3, <2>4, <2>5, <2>6, <2>7 DEF dissNext
<1> QED BY <1>1, Invariance, PTL DEF dissSpec, StaysSettled
================================================================================
