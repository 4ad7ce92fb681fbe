------------------------------- MODULE QueueProofs -----------------------------
(***************************************************************************)
(* Proofs about the message queue, that its lists are sound and that it    *)
(* implements PriorityQueue, and about the slab allocator.                 *)
(***************************************************************************)
EXTENDS MessageQueue, Slab, ListProofs

--------------------------------------------------------------------------------
\* The lists of the queue as sequences: w[c] lists what hd[c] and nx lead to, no
\* message is on two lists, and the messages on none are those in out.
QueueLists(w, hd, tl, nx, out) ==
  /\ w \in [Class -> Seq(Msg)]
  /\ \A c \in Class : IsList(w[c], hd[c], nx, NULL)
  /\ \A c, d \in Class : c # d => Range(w[c]) \cap Range(w[d]) = {}
  /\ \A m \in Msg : m \in out <=> \A c \in Class : m \notin Range(w[c])
  /\ \A c \in Class : hd[c] # NULL => tl[c] = w[c][Len(w[c])]

Walks == [c \in Class |-> Walk(c)]

QInv == TypeOK /\ QueueLists(Walks, head, tail, next, loose) /\ CountExact

\* The number of messages.
LEMMA NIsNat == N \in Nat
BY MessageQueueAssumption, FS_CardinalityType DEF N

\* The walks are the only sequences of that kind.
LEMMA WalksAre ==
  ASSUME NEW w, NEW hd, NEW tl, NEW nx, NEW out, QueueLists(w, hd, tl, nx, out), NEW c \in Class
  PROVE  ListFrom(hd[c], nx, NULL, N) = w[c]
<1>1. w[c] \in Seq(Msg) /\ IsList(w[c], hd[c], nx, NULL)
  BY DEF QueueLists
<1>2. Len(w[c]) <= N
  BY <1>1, InjectiveLen, MessageQueueAssumption DEF IsList, N
<1>3. Len(w[c]) <= N + 1
  BY <1>1, <1>2, NIsNat
<1> QED BY <1>1, <1>3, ListFromList, NIsNat, MessageQueueAssumption, SMTT(30)

\* A step leads to the walks that its lists are.
LEMMA WalksStep ==
  ASSUME NEW w, QueueLists(w, head', tail', next', loose')
  PROVE  Walks' = w /\ QueueLists(Walks, head, tail, next, loose)'
<1>1. \A c \in Class : Walk(c)' = w[c]
  BY WalksAre DEF Walk
<1>2. w = [c \in Class |-> w[c]]
  BY DEF QueueLists
<1>3. Walks' = w
  BY <1>1, <1>2 DEF Walks
<1> QED BY <1>3

\* Init: the lists are empty.
LEMMA InitQ == Init => QInv
<1> SUFFICES ASSUME Init PROVE QInv
  OBVIOUS
<1> DEFINE w == [c \in Class |-> <<>>]
<1>1. QueueLists(w, head, tail, next, loose)
  BY DEF QueueLists, Init, IsList, Range
<1>2. Walks = w
  <2>1. \A c \in Class : Walk(c) = w[c]
    BY <1>1, WalksAre DEF Walk
  <2> QED BY <2>1 DEF Walks
<1>3. CountExact
  <2>1. Msg \ loose = {} /\ msg_cnt = 0
    BY DEF Init
  <2> QED BY <2>1, FS_EmptySet DEF CountExact, UINT8
<1> QED BY <1>1, <1>2, <1>3 DEF QInv, Init, TypeOK, UINT8

\* One list changes and the others stay as they are.
LEMMA OneList ==
  ASSUME NEW w, NEW hd, NEW tl, NEW nx, NEW out, QueueLists(w, hd, tl, nx, out), out \subseteq Msg,
         NEW c \in Class, NEW s \in Seq(Msg), NEW hd2, NEW tl2, NEW nx2, NEW out2,
         IsList(s, hd2[c], nx2, NULL),
         hd2[c] # NULL => tl2[c] = s[Len(s)],
         \A d \in Class \ {c} : hd2[d] = hd[d] /\ tl2[d] = tl[d],
         \A d \in Class \ {c} : \A x \in Range(w[d]) : nx2[x] = nx[x],
         out2 \subseteq Msg, Range(s) \cap out2 = {},
         Range(s) \cup out2 = Range(w[c]) \cup out
  PROVE  QueueLists([w EXCEPT ![c] = s], hd2, tl2, nx2, out2)
<1> DEFINE w2 == [w EXCEPT ![c] = s]
<1>1. /\ w2 \in [Class -> Seq(Msg)] /\ w2[c] = s
      /\ \A d \in Class \ {c} : w2[d] = w[d] /\ w[d] \in Seq(Msg)
      /\ w[c] \in Seq(Msg)
  BY DEF QueueLists
<1> HIDE DEF w2
<1>2. \A d \in Class : w[d] \in Seq(Range(w[d])) /\ Range(w[d]) \subseteq Msg
  BY <1>1, RangeIs, Zenon
<1>3. \A d \in Class : IsList(w2[d], hd2[d], nx2, NULL)
  <2> SUFFICES ASSUME NEW d \in Class \ {c} PROVE IsList(w[d], hd[d], nx2, NULL)
    BY <1>1
  <2>1. IsList(w[d], hd[d], nx, NULL)
    BY DEF QueueLists
  <2> QED BY <1>2, <2>1, SameList
<1>4. \A d \in Class \ {c} : Range(s) \cap Range(w[d]) = {}
  <2> SUFFICES ASSUME NEW d \in Class \ {c}, NEW x \in Range(s), x \in Range(w[d]) PROVE FALSE
    OBVIOUS
  <2>1. x \in Range(w[c]) \/ x \in out
    OBVIOUS
  <2>2. x \in Msg /\ x \notin out
    BY <1>2 DEF QueueLists
  <2> QED BY <2>1, <2>2 DEF QueueLists
<1>5. \A d, e \in Class : d # e => Range(w2[d]) \cap Range(w2[e]) = {}
  <2> SUFFICES ASSUME NEW d \in Class, NEW e \in Class, d # e
               PROVE  Range(w2[d]) \cap Range(w2[e]) = {}
    OBVIOUS
  <2>1. CASE d # c /\ e # c
    BY <1>1, <2>1 DEF QueueLists
  <2>2. CASE d = c \/ e = c
    BY <1>1, <1>4, <2>2
  <2> QED BY <2>1, <2>2
<1>6. ASSUME NEW m \in Msg PROVE m \in out2 <=> \A d \in Class : m \notin Range(w2[d])
  <2>1. m \in out <=> \A d \in Class : m \notin Range(w[d])
    BY DEF QueueLists
  <2>2. m \in out2 <=> m \notin Range(s) /\ (m \in Range(w[c]) \/ m \in out)
    OBVIOUS
  <2>3. m \in Range(w[c]) => \A d \in Class \ {c} : m \notin Range(w[d])
    BY DEF QueueLists
  <2>4. w2[c] = s /\ \A d \in Class \ {c} : w2[d] = w[d]
    BY <1>1, Zenon
  <2> QED BY <1>4, <2>1, <2>2, <2>3, <2>4, ZenonT(30)
<1>7. \A d \in Class : hd2[d] # NULL => tl2[d] = w2[d][Len(w2[d])]
  BY <1>1 DEF QueueLists
<1> QED BY <1>1, <1>3, <1>5, <1>6, <1>7, SMTT(30) DEF QueueLists, w2

\* mq_enqueue appends to the list of its class.
LEMMA EnqueueStep ==
  ASSUME QInv, NEW m \in Msg, NEW c \in Class, NEW k \in Key, mq_enqueue(m, c, k)
  PROVE  QueueLists([Walks EXCEPT ![c] = Append(Walks[c], m)], head', tail', next', loose')
<1> DEFINE w == Walks
           s == w[c]
<1>1. QueueLists(w, head, tail, next, loose) /\ TypeOK
  BY DEF QInv
<1>2. /\ m \in loose /\ loose' = loose \ {m}
      /\ next' = IF head[c] = NULL THEN [next EXCEPT ![m] = NULL]
                 ELSE [next EXCEPT ![m] = NULL, ![tail[c]] = m]
      /\ head' = IF head[c] = NULL THEN [head EXCEPT ![c] = m] ELSE head
      /\ tail' = [tail EXCEPT ![c] = m]
  BY DEF mq_enqueue
<1> HIDE DEF w
<1>3. s \in Seq(Msg) /\ IsList(s, head[c], next, NULL) /\ Len(s) \in Nat
  BY <1>1 DEF QueueLists
<1>4. \A d \in Class : m \notin Range(w[d]) /\ Range(w[d]) \subseteq Msg
  BY <1>1, <1>2, RangeIs, SMTT(30) DEF QueueLists
<1>5. head[c] = NULL <=> s = <<>>
  BY <1>3, MessageQueueAssumption DEF IsList
<1>6. head[c] # NULL => tail[c] = s[Len(s)] /\ Len(s) \in 1..Len(s) /\ tail[c] \in Range(s)
  BY <1>1, <1>3, <1>5, RangeIs, SMTT(30) DEF QueueLists
<1>7. next'[m] = NULL
  BY <1>1, <1>2, <1>4, <1>6, SMTT(30) DEF TypeOK
<1>8. \A x \in Msg : x # m /\ (head[c] # NULL => x # tail[c]) => next'[x] = next[x]
  BY <1>1, <1>2 DEF TypeOK
<1>9. IsList(Append(s, m), head'[c], next', NULL)
  <2>1. ASSUME NEW i \in 1..Len(s) PROVE next'[s[i]] = IF i < Len(s) THEN next[s[i]] ELSE m
    <3>1. s[i] \in Msg /\ s[i] # m /\ head[c] # NULL
      BY <1>3, <1>4, <1>5, RangeIs, SMTT(30)
    <3>2. CASE i < Len(s)
      <4>1. s[i] # s[Len(s)]
        BY <1>3, <3>2 DEF IsList
      <4> QED BY <1>6, <1>8, <3>1, <3>2, <4>1, SMTT(30)
    <3>3. CASE i = Len(s)
      BY <1>1, <1>2, <1>6, <3>1, <3>3, SMTT(30) DEF TypeOK
    <3> QED BY <1>3, <3>2, <3>3, SMTT(30)
  <2>2. head'[c] = IF s = <<>> THEN m ELSE head[c]
    BY <1>1, <1>2, <1>5 DEF TypeOK
  <2>3. \A i \in 1..Len(s) : s[i] # m
    BY <1>3, <1>4, RangeIs, SMTT(30)
  <2>4. IsList(Append(s, m), IF s = <<>> THEN m ELSE head[c], next', NULL)
    BY <1>3, <1>7, <2>1, <2>3, AppendList, MessageQueueAssumption, SMTT(30)
  <2> QED BY <2>2, <2>4, SMTT(30)
<1>10. Append(s, m) \in Seq(Msg) /\ Range(Append(s, m)) = Range(s) \cup {m}
       /\ Append(s, m)[Len(Append(s, m))] = m
  BY <1>3, AppendSet
<1>11. \A d \in Class \ {c} : head'[d] = head[d] /\ tail'[d] = tail[d]
  BY <1>1, <1>2 DEF TypeOK
<1>12. tail'[c] = m
  BY <1>1, <1>2 DEF TypeOK
<1>13. \A d \in Class \ {c} : \A x \in Range(w[d]) : next'[x] = next[x]
  <2> SUFFICES ASSUME NEW d \in Class \ {c}, NEW x \in Range(w[d]) PROVE next'[x] = next[x]
    OBVIOUS
  <2>1. Range(w[d]) \cap Range(s) = {}
    BY <1>1 DEF QueueLists
  <2> QED BY <1>4, <1>6, <1>8, <2>1, SMTT(30)
<1>14. loose \subseteq Msg /\ loose' \subseteq Msg /\ Range(Append(s, m)) \cap loose' = {}
       /\ Range(Append(s, m)) \cup loose' = Range(s) \cup loose
  <2>1. Range(s) \cap loose = {} /\ loose \subseteq Msg
    BY <1>1, <1>4 DEF QueueLists, TypeOK
  <2> QED BY <1>2, <1>10, <2>1
<1> DEFINE a == Append(s, m)
<1>15. head'[c] # NULL => tail'[c] = a[Len(a)]
  BY <1>10, <1>12
<1>16. a \in Seq(Msg) /\ IsList(a, head'[c], next', NULL)
  BY <1>9, <1>10
<1>17. loose \subseteq Msg /\ loose' \subseteq Msg /\ Range(a) \cap loose' = {}
       /\ Range(a) \cup loose' = Range(w[c]) \cup loose
  BY <1>14, SMTT(30)
<1> HIDE DEF a, s
<1>18. QueueLists([w EXCEPT ![c] = a], head', tail', next', loose')
  BY <1>1, <1>11, <1>13, <1>15, <1>16, <1>17, OneList, SMTT(30)
<1> QED BY <1>18 DEF w, s, a

\* The pointers hd2, tl2, nx2 differ from hd, tl, nx in that the i-th message of the
\* list s of class c is passed over; a list that is empty may have any tail.
Unlinked(s, c, i, hd, tl, nx, hd2, tl2, nx2) ==
  /\ hd2[c] = IF i = 1 THEN nx[s[1]] ELSE hd[c]
  /\ \/ i < Len(s) /\ tl2[c] = tl[c]
     \/ i = Len(s) /\ i > 1 /\ tl2[c] = s[i - 1]
     \/ Len(s) = 1
  /\ \A d \in Class \ {c} : hd2[d] = hd[d] /\ tl2[d] = tl[d]
  /\ \A x \in Msg : (i > 1 => x # s[i - 1]) => nx2[x] = nx[x]
  /\ i > 1 => nx2[s[i - 1]] = nx[s[i]]

\* A message leaves its list, and the tail is moved if it was the last of several.
LEMMA UnlinkLists ==
  ASSUME NEW w, NEW hd, NEW tl, NEW nx, NEW out, QueueLists(w, hd, tl, nx, out), out \subseteq Msg,
         NEW c \in Class, NEW i \in 1..Len(w[c]), NEW hd2, NEW tl2, NEW nx2,
         Unlinked(w[c], c, i, hd, tl, nx, hd2, tl2, nx2)
  PROVE  QueueLists([w EXCEPT ![c] = Without(w[c], i)], hd2, tl2, nx2, out \cup {w[c][i]})
<1> DEFINE s == w[c]
           r == Without(s, i)
<1>1. s \in Seq(Msg) /\ IsList(s, hd[c], nx, NULL) /\ Len(s) \in Nat
  BY DEF QueueLists
<1>2. /\ r \in Seq(Msg) /\ Len(r) = Len(s) - 1
      /\ \A j \in 1..(Len(s) - 1) : r[j] = IF j < i THEN s[j] ELSE s[j + 1]
  BY <1>1, WithoutIs, Zenon
<1>3. Range(r) = Range(s) \ {s[i]}
  BY <1>1, WithoutRange DEF IsList
<1>4. /\ \A j \in 1..Len(s) : s[j] \in Range(s) /\ s[j] \in Msg
      /\ Range(s) \subseteq Msg
  BY <1>1, RangeIs
<1>5. IsList(r, hd2[c], nx2, NULL)
  <2>1. \A j \in 1..Len(s) : j # i - 1 /\ j # i => nx2[s[j]] = nx[s[j]]
    <3> SUFFICES ASSUME NEW j \in 1..Len(s), j # i - 1, j # i PROVE nx2[s[j]] = nx[s[j]]
      OBVIOUS
    <3>1. i > 1 => s[j] # s[i - 1]
      BY <1>1, SMTT(30) DEF IsList
    <3> QED BY <1>4, <3>1 DEF Unlinked
  <2>2. IsList(r, IF i = 1 THEN nx[s[1]] ELSE hd[c], nx2, NULL)
    <3>1. i > 1 => nx2[s[i - 1]] = nx[s[i]]
      BY DEF Unlinked
    <3> QED BY <1>1, <2>1, <3>1, RemoveList, MessageQueueAssumption, ZenonT(30)
  <2> QED BY <2>2 DEF Unlinked
<1>6. hd2[c] # NULL => tl2[c] = r[Len(r)]
  <2> SUFFICES ASSUME hd2[c] # NULL PROVE tl2[c] = r[Len(r)]
    OBVIOUS
  <2>1. r # <<>>
    BY <1>5 DEF IsList
  <2>2. Len(s) > 1 /\ Len(s) - 1 \in 1..(Len(s) - 1)
    BY <1>1, <1>2, <2>1, SMTT(30)
  <2>3. r[Len(r)] = IF i < Len(s) THEN s[Len(s)] ELSE s[Len(s) - 1]
    BY <1>1, <1>2, <2>2, SMTT(30)
  <2>4. tl[c] = s[Len(s)]
    <3>1. hd[c] # NULL
      BY <1>1, <2>2, SMTT(30) DEF IsList
    <3> QED BY <3>1, SMTT(30) DEF QueueLists
  <2> QED BY <1>1, <2>2, <2>3, <2>4 DEF Unlinked
<1>7. \A d \in Class \ {c} : \A x \in Range(w[d]) : nx2[x] = nx[x]
  <2> SUFFICES ASSUME NEW d \in Class \ {c}, NEW x \in Range(w[d]) PROVE nx2[x] = nx[x]
    OBVIOUS
  <2>1. Range(w[d]) \cap Range(s) = {} /\ w[d] \in Seq(Msg)
    BY DEF QueueLists
  <2>2. x \in Msg
    BY <2>1, RangeIs, SMTT(30)
  <2>3. i > 1 => x # s[i - 1]
    BY <1>1, <1>4, <2>1, SMTT(30)
  <2> QED BY <2>2, <2>3, SMTT(30) DEF Unlinked
<1>8. Range(s) \cap out = {}
  BY <1>4, SMTT(30) DEF QueueLists
<1> DEFINE out2 == out \cup {s[i]}
<1>9. out2 \subseteq Msg /\ Range(r) \cap out2 = {} /\ Range(r) \cup out2 = Range(w[c]) \cup out
  BY <1>3, <1>4, <1>8, SMTT(30)
<1> HIDE DEF r, out2
<1>10. QueueLists([w EXCEPT ![c] = r], hd2, tl2, nx2, out2)
  <2>1. \A d \in Class \ {c} : hd2[d] = hd[d] /\ tl2[d] = tl[d]
    BY DEF Unlinked
  <2>2. r \in Seq(Msg)
    BY <1>2
  <2> QED BY <1>5, <1>6, <1>7, <1>9, <2>1, <2>2, OneList, SMTT(30)
<1> QED BY <1>10 DEF r, out2

\* The messages in the queue are counted, modulo 2^8.
LEMMA CountStep ==
  ASSUME TypeOK, CountExact, NEW m \in Msg
  PROVE  /\ m \in loose /\ loose' = loose \ {m} /\ msg_cnt' = (msg_cnt + 1) % UINT8 => CountExact'
         /\ m \notin loose /\ loose' = loose \cup {m} /\ msg_cnt' = (msg_cnt - 1) % UINT8 => CountExact'
<1> DEFINE Q == Msg \ loose
           Q2 == Msg \ loose'
<1>1. IsFiniteSet(Q) /\ Cardinality(Q) \in Nat
  BY MessageQueueAssumption, FS_Subset, FS_CardinalityType, SMTT(30)
<1>2. ASSUME m \in loose, loose' = loose \ {m}, msg_cnt' = (msg_cnt + 1) % UINT8 PROVE CountExact'
  <2>1. Q2 = Q \cup {m} /\ m \notin Q
    BY <1>2 DEF TypeOK
  <2>2. Cardinality(Q2) = Cardinality(Q) + 1
    BY <1>1, <2>1, FS_AddElement, SMTT(30)
  <2> HIDE DEF Q, Q2
  <2>3. msg_cnt = Cardinality(Q) % 256
    BY DEF CountExact, UINT8, Q
  <2>4. (msg_cnt + 1) % 256 = (Cardinality(Q) + 1) % 256
    BY <1>1, <2>3
  <2> QED BY <1>2, <2>2, <2>4, SMTT(30) DEF CountExact, UINT8, Q2
<1>3. ASSUME m \notin loose, loose' = loose \cup {m}, msg_cnt' = (msg_cnt - 1) % UINT8 PROVE CountExact'
  <2>1. Q2 = Q \ {m} /\ m \in Q
    BY <1>3
  <2>2. Cardinality(Q2) = Cardinality(Q) - 1
    BY <1>1, <2>1, FS_RemoveElement, ZenonT(30)
  <2> HIDE DEF Q, Q2
  <2>3. msg_cnt = Cardinality(Q) % 256
    BY DEF CountExact, UINT8, Q
  <2>4. (msg_cnt - 1) % 256 = (Cardinality(Q) - 1) % 256
    BY <1>1, <2>3
  <2> QED BY <1>3, <2>2, <2>4, SMTT(30) DEF CountExact, UINT8, Q2
<1> QED BY <1>2, <1>3, SMTT(30)

\* mq_dequeue takes the first message of its list.
LEMMA DequeueStep ==
  ASSUME QInv, NEW c \in Class, mq_dequeue(c)
  PROVE  /\ QueueLists([Walks EXCEPT ![c] = Without(Walks[c], 1)], head', tail', next', loose')
         /\ Walks[c] # <<>> /\ Walks[c][1] = head[c]
<1> DEFINE w == Walks
<1>1. QueueLists(w, head, tail, next, loose) /\ TypeOK
  BY DEF QInv
<1>2. /\ head[c] # NULL /\ head' = [head EXCEPT ![c] = next[head[c]]]
      /\ loose' = loose \cup {head[c]} /\ next' = next /\ tail' = tail
  BY DEF mq_dequeue
<1> HIDE DEF w
<1>3. w[c] \in Seq(Msg) /\ IsList(w[c], head[c], next, NULL)
  BY <1>1 DEF QueueLists
<1>4. w[c] # <<>> /\ w[c][1] = head[c]
  BY <1>2, <1>3, MessageQueueAssumption, SMTT(30) DEF IsList
<1>41. Len(w[c]) \in Nat /\ Len(w[c]) >= 1 /\ 1 \in 1..Len(w[c])
  BY <1>3, <1>4, SMTT(30)
<1>5. head'[c] = next[w[c][1]]
  BY <1>1, <1>2, <1>4, SMTT(30) DEF TypeOK
<1>6. \A d \in Class \ {c} : head'[d] = head[d] /\ tail'[d] = tail[d]
  BY <1>1, <1>2 DEF TypeOK
<1>7. loose \subseteq Msg
  BY <1>1 DEF TypeOK
<1>8. Unlinked(w[c], c, 1, head, tail, next, head', tail', next')
  <2>1. 1 < Len(w[c]) \/ Len(w[c]) = 1
    <3>1. \A n \in Nat : n >= 1 => 1 < n \/ n = 1
      OBVIOUS
    <3> QED BY <1>41, <3>1, Zenon
  <2>2. tail'[c] = tail[c] /\ next' = next
    BY <1>2
  <2> QED BY <1>5, <1>6, <2>1, <2>2, SMTT(30) DEF Unlinked
<1>9. QueueLists([w EXCEPT ![c] = Without(w[c], 1)], head', tail', next', loose \cup {w[c][1]})
  BY <1>1, <1>41, <1>7, <1>8, UnlinkLists, SMTT(30)
<1> QED BY <1>2, <1>4, <1>9 DEF w

\* mq_real_get takes the i-th message of its list.
LEMMA GetStep ==
  ASSUME QInv, NEW c \in Class, NEW i \in 1..Len(Walks[c]), mq_real_get(c, i),
         loose' = loose \cup {Walk(c)[i]}
  PROVE  QueueLists([Walks EXCEPT ![c] = Without(Walks[c], i)], head', tail', next', loose')
<1> DEFINE w == Walks
           s == w[c]
<1>1. QueueLists(w, head, tail, next, loose) /\ TypeOK
  BY DEF QInv
<1>2. Walk(c) = s
  BY DEF Walks
<1> HIDE DEF w
<1>3. s \in Seq(Msg) /\ IsList(s, head[c], next, NULL) /\ Len(s) \in Nat /\ i \in 1..Len(s)
  BY <1>1 DEF QueueLists, w
<1>31. Len(s) \in Nat /\ Len(s) >= 1 /\ i \in Nat /\ i >= 1 /\ i <= Len(s)
  BY <1>3, SMTT(30)
<1>4. head[c] # NULL /\ tail[c] = s[Len(s)]
  BY <1>1, <1>3, SMTT(30) DEF QueueLists, IsList
<1>5. \A j \in 1..Len(s) : s[j] \in Msg
  BY <1>3
<1>6. next[s[i]] = IF i < Len(s) THEN s[i + 1] ELSE NULL
  BY <1>3 DEF IsList
<1>7. loose \subseteq Msg
  BY <1>1 DEF TypeOK
<1>8. Unlinked(s, c, i, head, tail, next, head', tail', next')
  <2> USE <1>2
  <2>1. CASE i = 1
    <3>1. /\ head' = [head EXCEPT ![c] = next[s[1]]] /\ next' = next
          /\ tail' = IF next[s[1]] = NULL THEN [tail EXCEPT ![c] = NULL] ELSE tail
      BY <2>1, SMTT(30) DEF mq_real_get
    <3>2. CASE Len(s) = 1
      BY <1>1, <1>3, <2>1, <3>1, <3>2, SMTT(30) DEF TypeOK, Unlinked
    <3>3. CASE Len(s) > 1
      <4>1. next[s[1]] = s[2] /\ s[2] \in Msg
        BY <1>3, <1>5, <1>6, <2>1, <3>3, SMTT(30)
      <4>2. tail' = tail
        BY <3>1, <4>1, MessageQueueAssumption, SMTT(30)
      <4> QED BY <1>1, <1>3, <2>1, <3>1, <3>3, <4>2, SMTT(30) DEF TypeOK, Unlinked
    <3>4. \A n \in Nat : n >= 1 => n > 1 \/ n = 1
      OBVIOUS
    <3> QED BY <1>31, <3>2, <3>3, <3>4, Zenon
  <2>2. CASE i # 1 /\ s[i] = tail[c]
    <3>1. /\ next' = [next EXCEPT ![s[i - 1]] = NULL] /\ head' = head
          /\ tail' = [tail EXCEPT ![c] = s[i - 1]]
      BY <2>2 DEF mq_real_get
    <3>2. i = Len(s) /\ i > 1 /\ s[i - 1] \in Msg
      BY <1>3, <1>4, <1>5, <2>2, SMTT(30) DEF IsList
    <3> QED BY <1>1, <1>3, <1>6, <2>2, <3>1, <3>2, SMTT(30) DEF TypeOK, Unlinked
  <2>3. CASE i # 1 /\ s[i] # tail[c]
    <3>1. next' = [next EXCEPT ![s[i - 1]] = next[s[i]]] /\ head' = head /\ tail' = tail
      BY <2>3 DEF mq_real_get
    <3>2. i < Len(s) /\ i > 1 /\ s[i - 1] \in Msg
      BY <1>3, <1>4, <1>5, <2>3, SMTT(30)
    <3> QED BY <1>1, <1>3, <2>3, <3>1, <3>2, SMTT(30) DEF TypeOK, Unlinked
  <2> QED BY <2>1, <2>2, <2>3, SMTT(30)
<1>9. QueueLists([w EXCEPT ![c] = Without(w[c], i)], head', tail', next', loose \cup {w[c][i]})
  BY <1>1, <1>3, <1>7, <1>8, UnlinkLists, SMTT(30)
<1> QED BY <1>2, <1>9 DEF w

\* The first match that mq_get finds is a place of the walk.
LEMMA FirstMatch ==
  ASSUME QInv, NEW c \in Class, NEW k \in Key, Matches(c, k) # {}
  PROVE  LET i == CHOOSE i \in Matches(c, k) : \A j \in Matches(c, k) : i <= j
         IN  i \in 1..Len(Walk(c))
<1>1. Matches(c, k) \subseteq 1..Len(Walk(c)) /\ Matches(c, k) \subseteq Nat
  BY DEF Matches
<1>2. \E i \in Matches(c, k) : \A j \in Matches(c, k) : i <= j
  BY <1>1, LeastNat, SMTT(30)
<1> QED BY <1>1, <1>2

\* What a call does to the queue: nothing but what the abstract queue allows.
LEMMA StepQ ==
  ASSUME QInv, [Next]_vars
  PROVE  /\ QInv'
         /\ \/ \E c \in Class, m \in Msg : /\ m \in loose
                                           /\ Walks' = [Walks EXCEPT ![c] = Append(Walks[c], m)]
            \/ \E c \in Class : /\ head[c] # NULL
                                /\ c # "hq" => head["hq"] = NULL
                                /\ c = "lq" => head["sq"] = NULL
                                /\ Walks' = [Walks EXCEPT ![c] = Without(Walks[c], 1)]
            \/ \E c \in Class : \E i \in 1..Len(Walks[c]) :
                 Walks' = [Walks EXCEPT ![c] = Without(Walks[c], i)]
            \/ Walks' = Walks
<1>1. TypeOK /\ CountExact /\ QueueLists(Walks, head, tail, next, loose)
  BY DEF QInv
<1>2. ASSUME NEW m \in Msg, NEW c \in Class, NEW k \in Key, mq_enqueue(m, c, k)
      PROVE  /\ QInv' /\ m \in loose
             /\ Walks' = [Walks EXCEPT ![c] = Append(Walks[c], m)]
  <2>1. QueueLists([Walks EXCEPT ![c] = Append(Walks[c], m)], head', tail', next', loose')
    BY <1>2, EnqueueStep, Zenon
  <2>2. /\ Walks' = [Walks EXCEPT ![c] = Append(Walks[c], m)]
        /\ QueueLists(Walks, head, tail, next, loose)'
    BY <2>1, WalksStep
  <2>3. m \in loose /\ loose' = loose \ {m} /\ msg_cnt' = (msg_cnt + 1) % UINT8
    BY <1>2 DEF mq_enqueue
  <2>4. CountExact'
    BY <1>1, <2>3, CountStep
  <2>5. TypeOK'
    <3>1. next' \in [Msg -> Msg \cup {NULL}]
      BY <1>1, <1>2, Zenon DEF mq_enqueue, TypeOK
    <3>2. head' \in [Class -> Msg \cup {NULL}] /\ tail' \in [Class -> Msg \cup {NULL}]
      BY <1>1, <1>2 DEF mq_enqueue, TypeOK
    <3>3. key' \in [Msg -> Key] /\ msg_cnt' \in 0..(UINT8 - 1) /\ loose' \subseteq Msg
      BY <1>1, <1>2 DEF mq_enqueue, TypeOK, UINT8
    <3> QED BY <3>1, <3>2, <3>3 DEF TypeOK
  <2> QED BY <2>2, <2>3, <2>4, <2>5, SMTT(30) DEF QInv
<1>3. ASSUME NEW c \in Class, mq_dequeue(c)
      PROVE  QInv' /\ Walks' = [Walks EXCEPT ![c] = Without(Walks[c], 1)]
  <2>1. QueueLists([Walks EXCEPT ![c] = Without(Walks[c], 1)], head', tail', next', loose')
    BY <1>3, DequeueStep
  <2>2. /\ Walks' = [Walks EXCEPT ![c] = Without(Walks[c], 1)]
        /\ QueueLists(Walks, head, tail, next, loose)'
    BY <2>1, WalksStep, SMTT(30)
  <2>3. head[c] \in Msg /\ head[c] \notin loose
    <3>1. Walks[c] # <<>> /\ Walks[c][1] = head[c] /\ Walks[c] \in Seq(Msg)
      BY <1>1, <1>3, DequeueStep, SMTT(30) DEF QueueLists
    <3>2. 1 \in 1..Len(Walks[c])
      BY <3>1
    <3>3. head[c] \in Range(Walks[c]) /\ Range(Walks[c]) \subseteq Msg
      BY <3>1, <3>2, RangeIs, SMTT(30)
    <3> QED BY <1>1, <3>3, SMTT(30) DEF QueueLists
  <2>4. loose' = loose \cup {head[c]} /\ msg_cnt' = (msg_cnt - 1) % UINT8
    BY <1>3 DEF mq_dequeue
  <2>5. CountExact'
    BY <1>1, <2>3, <2>4, CountStep, SMTT(30)
  <2>6. TypeOK'
    BY <1>1, <1>3, <2>3, SMTT(30) DEF mq_dequeue, TypeOK, UINT8
  <2> QED BY <2>2, <2>5, <2>6 DEF QInv
<1>4. ASSUME NEW k \in Key, mq_get(k)
      PROVE  /\ QInv'
             /\ \E c \in Class : \E i \in 1..Len(Walks[c]) :
                  Walks' = [Walks EXCEPT ![c] = Without(Walks[c], i)]
  <2>1. PICK c \in Class : Got(c, k) /\ Matches(c, k) # {}
    BY <1>4 DEF mq_get, Search, Class
  <2> DEFINE i == CHOOSE i \in Matches(c, k) : \A j \in Matches(c, k) : i <= j
  <2>2. i \in 1..Len(Walks[c]) /\ Walk(c) = Walks[c]
    BY <2>1, FirstMatch, Zenon DEF Walks
  <2>3. /\ mq_real_get(c, i) /\ loose' = loose \cup {Walk(c)[i]}
        /\ msg_cnt' = (msg_cnt - 1) % UINT8 /\ key' = key
    BY <2>1 DEF Got
  <2> HIDE DEF i
  <2>4. QueueLists([Walks EXCEPT ![c] = Without(Walks[c], i)], head', tail', next', loose')
    BY <2>2, <2>3, GetStep, Zenon
  <2>5. /\ Walks' = [Walks EXCEPT ![c] = Without(Walks[c], i)]
        /\ QueueLists(Walks, head, tail, next, loose)'
    BY <2>4, WalksStep
  <2> DEFINE s == Walks[c]
  <2>6. s \in Seq(Msg) /\ \A j \in 1..Len(s) : s[j] \in Msg
    BY <1>1 DEF QueueLists
  <2>7. s[i] \in Msg /\ s[i] \notin loose
    <3>1. s[i] \in Range(s) /\ s[i] \in Msg
      BY <2>2, <2>6, RangeIs, SMTT(30)
    <3> QED BY <1>1, <3>1, SMTT(30) DEF QueueLists
  <2>8. CountExact'
    BY <1>1, <2>2, <2>3, <2>7, CountStep, SMTT(30)
  <2>9. TypeOK'
    <3> HIDE DEF s
    <3>1. next[s[i]] \in Msg \cup {NULL} /\ (i # 1 => s[i - 1] \in Msg)
      BY <1>1, <2>2, <2>6, <2>7, SMTT(30) DEF TypeOK, s
    <3>2. /\ next' \in [Msg -> Msg \cup {NULL}]
          /\ head' \in [Class -> Msg \cup {NULL}] /\ tail' \in [Class -> Msg \cup {NULL}]
      BY <1>1, <2>2, <2>3, <3>1, SMTT(30) DEF mq_real_get, TypeOK, s
    <3>3. key' \in [Msg -> Key] /\ msg_cnt' \in 0..(UINT8 - 1) /\ loose' \subseteq Msg
      <4>1. key' = key /\ loose' = loose \cup {s[i]}
        BY <2>2, <2>3, SMTT(30) DEF s
      <4>2. msg_cnt \in 0..255 /\ msg_cnt' = (msg_cnt - 1) % 256
        BY <1>1, <2>3, SMTT(30) DEF TypeOK, UINT8
      <4>3. msg_cnt' \in 0..255
        BY <4>2, SMTT(30)
      <4> QED BY <1>1, <2>7, <4>1, <4>3, SMTT(30) DEF TypeOK, UINT8
    <3> QED BY <3>2, <3>3, SMTT(30) DEF TypeOK
  <2> QED BY <2>2, <2>5, <2>8, <2>9, Zenon DEF QInv
<1>5. ASSUME UNCHANGED vars PROVE QInv' /\ Walks' = Walks
  <2>1. /\ next' = next /\ key' = key /\ head' = head /\ tail' = tail
        /\ msg_cnt' = msg_cnt /\ loose' = loose
    BY <1>5 DEF vars
  <2>2. \A c \in Class : Walk(c)' = Walk(c)
    BY <2>1 DEF Walk
  <2>3. Walks' = Walks
    BY <2>2 DEF Walks
  <2> QED BY <1>1, <2>1, <2>3, SMTT(30) DEF QInv, TypeOK, CountExact
<1> QED BY <1>2, <1>3, <1>4, <1>5, SMTT(30) DEF Next, mq_dequeue

\* The lists are empty exactly where there is no head.
LEMMA EmptyWalk ==
  ASSUME QInv, NEW c \in Class
  PROVE  Walks[c] \in Seq(Msg) /\ (head[c] = NULL <=> Walks[c] = <<>>)
<1>1. Walks[c] \in Seq(Msg) /\ IsList(Walks[c], head[c], next, NULL)
  BY DEF QInv, QueueLists
<1> QED BY <1>1, SMTT(30) DEF IsList

\* The inductive invariant implies what MessageQueueSound says of the walks.
LEMMA QSound == QInv => MessageQueueSound
<1> SUFFICES ASSUME QInv PROVE ListsSound
  BY SMTT(30) DEF QInv, MessageQueueSound
<1>1. /\ QueueLists(Walks, head, tail, next, loose)
      /\ \A c \in Class : Walk(c) = Walks[c] /\ Walks[c] \in Seq(Msg)
  BY DEF QInv, Walks, QueueLists
<1>2. \A c \in Class : Len(Walk(c)) <= N /\ IsInjective(Walk(c))
  <2> SUFFICES ASSUME NEW c \in Class PROVE Len(Walks[c]) <= N /\ IsInjective(Walks[c])
    BY <1>1, SMTT(30)
  <2>1. IsList(Walks[c], head[c], next, NULL) /\ Walks[c] \in Seq(Msg)
    BY <1>1, SMTT(30) DEF QueueLists
  <2>2. Len(Walks[c]) <= N
    BY <2>1, InjectiveLen, MessageQueueAssumption, SMTT(30) DEF IsList, N
  <2>3. \A i, j \in 1..Len(Walks[c]) : Walks[c][i] = Walks[c][j] => i = j
    BY <2>1 DEF IsList
  <2>4. DOMAIN Walks[c] = 1..Len(Walks[c])
    BY <2>1, SMTT(30)
  <2> QED BY <2>2, <2>3, <2>4, SMTT(30) DEF IsInjective
<1>3. \A c, d \in Class : c # d => Range(Walk(c)) \cap Range(Walk(d)) = {}
  BY <1>1 DEF QueueLists
<1>4. UNION {Range(Walk(c)) : c \in Class} = Msg \ loose
  <2>1. \A c \in Class : Range(Walk(c)) \subseteq Msg
    BY <1>1, RangeIs, SMTT(30)
  <2>2. \A m \in Msg : m \in loose <=> \A c \in Class : m \notin Range(Walk(c))
    BY <1>1, SMTT(30) DEF QueueLists
  <2> QED BY <2>1, <2>2, SMTT(30)
<1>5. \A c \in Class : head[c] # NULL => tail[c] = Walk(c)[Len(Walk(c))]
  BY <1>1 DEF QueueLists
<1> QED BY <1>2, <1>3, <1>4, <1>5, SMTT(30) DEF ListsSound

\* Spec keeps the inductive invariant.
THEOREM QueueInvariant == Spec => []QInv
<1>1. QInv /\ [Next]_vars => QInv'
  BY StepQ
<1> QED BY InitQ, <1>1, PTL DEF Spec

\* For every set of headers and keys: the three lists of message_queue.c stay
\* separate and acyclic, hold exactly the headers given to mq_enqueue and not
\* yet returned, end at their tails, and msg_cnt counts them, whatever dangling
\* tails mq_dequeue and mq_get leave behind.
THEOREM MessageQueueIsSound == Spec => []MessageQueueSound
BY QueueInvariant, QSound, PTL

\* The pointers of message_queue.c implement three sequences: mq_enqueue appends
\* to one, mq_dequeue takes the oldest of the first class that has any, mq_get
\* withdraws one message and leaves the order of the others.
THEOREM QueueRefines == Spec => ImplementsPQ
<1>1. PQ!Class = Class
  BY DEF PQ!Class, Class
<1>2. Init => PQ!Init
  <2> SUFFICES ASSUME Init PROVE Walks = [c \in Class |-> <<>>]
    BY <1>1, SMTT(30) DEF PQ!Init, Walks
  <2>1. \A c \in Class : Walk(c) = <<>>
    BY DEF Init, Walk, ListFrom
  <2> QED BY <2>1 DEF Walks
<1>3. QInv /\ [Next]_vars => [PQ!Next]_(Walks)
  <2> SUFFICES ASSUME QInv, [Next]_vars, Walks' # Walks PROVE PQ!Next
    OBVIOUS
  <2>1. ASSUME NEW c \in Class, NEW m \in Msg, m \in loose,
               Walks' = [Walks EXCEPT ![c] = Append(Walks[c], m)]
        PROVE  PQ!Add(c, m)
    <3>1. \A d \in Class : m \notin Range(Walks[d]) /\ Walks[d] \in Seq(Msg)
      BY <2>1 DEF QInv, QueueLists
    <3>2. \A d \in Class : \A i \in 1..Len(Walks[d]) : Walks[d][i] # m
      BY <3>1, RangeIs, SMTT(30)
    <3> QED BY <1>1, <2>1, <3>2 DEF PQ!Add, Walks
  <2>2. ASSUME NEW c \in Class, head[c] # NULL, c # "hq" => head["hq"] = NULL,
               c = "lq" => head["sq"] = NULL,
               Walks' = [Walks EXCEPT ![c] = Without(Walks[c], 1)]
        PROVE  PQ!Take(c)
    <3>1. /\ Walks[c] # <<>> /\ Walks[c] \in Seq(Msg)
          /\ c = "sq" => Walks["hq"] = <<>>
          /\ c = "lq" => Walks["hq"] = <<>> /\ Walks["sq"] = <<>>
      BY <2>2, EmptyWalk DEF Class
    <3>2. Without(Walks[c], 1) = Tail(Walks[c])
      <4>1. 1 \in 1..Len(Walks[c])
        BY <3>1
      <4> DEFINE s == Walks[c]
                 r == Without(s, 1)
      <4>2. /\ s \in Seq(Msg) /\ Len(s) \in Nat /\ Len(s) >= 1
            /\ r \in Seq(Msg) /\ Len(r) = Len(s) - 1
            /\ \A j \in 1..(Len(s) - 1) : r[j] = IF j < 1 THEN s[j] ELSE s[j + 1]
        BY <3>1, <4>1, WithoutIs, SMTT(30)
      <4> HIDE DEF s, r
      <4>3. \A j \in 1..(Len(s) - 1) : r[j] = s[j + 1]
        BY <4>2
      <4>4. Tail(s) \in Seq(Msg) /\ Len(Tail(s)) = Len(s) - 1
            /\ \A j \in 1..(Len(s) - 1) : Tail(s)[j] = s[j + 1]
        BY <4>2
      <4>5. r = Tail(s)
        BY <4>2, <4>3, <4>4
      <4> QED BY <4>5 DEF s, r
    <3> QED BY <2>2, <3>1, <3>2, Zenon DEF PQ!Take, Walks
  <2>3. ASSUME NEW c \in Class, NEW i \in 1..Len(Walks[c]),
               Walks' = [Walks EXCEPT ![c] = Without(Walks[c], i)]
        PROVE  PQ!Withdraw(c, i)
    <3>1. i \in 1..Len(Walks[c]) /\ Walks' = [Walks EXCEPT ![c] = Without(Walks[c], i)]
      BY <2>3, Zenon
    <3>2. PQ!Withdraw(c, i) <=> /\ i \in 1..Len(Walks[c])
                               /\ Walks' = [Walks EXCEPT ![c] = Without(@, i)]
      BY Zenon DEF PQ!Withdraw, Without, Walks
    <3> QED BY <3>1, <3>2, Zenon
  <2> QED BY <1>1, <2>1, <2>2, <2>3, StepQ, Zenon DEF PQ!Next, Walks
<1> QED BY <1>2, <1>3, QueueInvariant, PTL DEF Spec, ImplementsPQ, PQ!Spec, Walks

--------------------------------------------------------------------------------
\* The slab allocator.

\* The chain that slab_gc has linked after i of the pools of s: pools of s, those that
\* have an item and the head, each once.
IsRelinked(r, s, i) ==
  /\ r \in Seq(Pool) /\ Len(r) >= 1 /\ r[1] = s[1]
  /\ \A k \in 1..Len(r) : k # 1 => r[k].alloc # {}
  /\ \A k \in 1..Len(r) : \E j \in 1..i : r[k] = s[j]
  /\ \A j \in 1..i : s[j].alloc # {} => \E k \in 1..Len(r) : r[k] = s[j]
  /\ \A k, l \in 1..Len(r) : r[k].mem = r[l].mem => k = l

\* One more pool.
LEMMA RelinkOne ==
  ASSUME NEW s \in Seq(Pool), \A i, j \in 1..Len(s) : s[i].mem = s[j].mem => i = j,
         NEW r, NEW i \in 1..Len(s), i + 1 \in 1..Len(s), IsRelinked(r, s, i)
  PROVE  IsRelinked(IF s[i + 1].alloc = {} THEN r ELSE Append(r, s[i + 1]), s, i + 1)
<1> DEFINE p == s[i + 1]
           t == Append(r, p)
<1>0. Len(s) \in Nat /\ i \in Nat /\ p \in Pool
  OBVIOUS
<1>1. /\ r \in Seq(Pool) /\ Len(r) >= 1 /\ r[1] = s[1]
      /\ \A k \in 1..Len(r) : k # 1 => r[k].alloc # {}
      /\ \A k \in 1..Len(r) : \E j \in 1..i : r[k] = s[j]
      /\ \A j \in 1..i : s[j].alloc # {} => \E k \in 1..Len(r) : r[k] = s[j]
      /\ \A k, l \in 1..Len(r) : r[k].mem = r[l].mem => k = l
  BY Zenon DEF IsRelinked
<1>2. \A j \in 1..(i + 1) : j \in 1..i \/ j = i + 1
  BY <1>0
<1>3. \A j \in 1..i : j \in 1..(i + 1) /\ j \in 1..Len(s) /\ j # i + 1
  BY <1>0
<1>11. \A k \in 1..Len(r) : \E j \in 1..i : r[k] = s[j]
  BY <1>1, Zenon
<1>4. CASE p.alloc = {}
  <2>1. \A k \in 1..Len(r) : \E j \in 1..(i + 1) : r[k] = s[j]
    BY <1>1, <1>3
  <2>2. \A j \in 1..(i + 1) : s[j].alloc # {} => \E k \in 1..Len(r) : r[k] = s[j]
    BY <1>1, <1>2, <1>4, Zenon
  <2>3. IsRelinked(r, s, i + 1)
    BY <1>1, <2>1, <2>2, Zenon DEF IsRelinked
  <2> QED BY <1>4, <2>3
<1>5. CASE p.alloc # {}
  <2>1. /\ t \in Seq(Pool) /\ Len(t) = Len(r) + 1 /\ t[Len(t)] = p
        /\ \A k \in 1..Len(r) : t[k] = r[k] /\ k \in 1..Len(t)
        /\ \A k \in 1..Len(t) : k \in 1..Len(r) \/ k = Len(t)
        /\ Len(t) \in 1..Len(t) /\ Len(t) # 1 /\ t[1] = s[1] /\ Len(t) >= 1
    BY <1>0, <1>1
  <2> HIDE DEF t
  <2>2. \A k \in 1..Len(t) : k # 1 => t[k].alloc # {}
    BY <1>1, <1>5, <2>1, Zenon
  <2>3. \A k \in 1..Len(t) : \E j \in 1..(i + 1) : t[k] = s[j]
    <3>1. i + 1 \in 1..(i + 1)
      BY <1>0
    <3>2. \A k \in 1..Len(r) : \E j \in 1..(i + 1) : t[k] = s[j]
      <4>1. \A k \in 1..Len(r) : t[k] = r[k]
        BY <2>1, Zenon
      <4>2. \A j \in 1..i : j \in 1..(i + 1)
        BY <1>3, Zenon
      <4> QED BY <1>11, <4>1, <4>2, Zenon
    <3> QED BY <2>1, <3>1, <3>2, Zenon
  <2>4. \A j \in 1..(i + 1) : s[j].alloc # {} => \E k \in 1..Len(t) : t[k] = s[j]
    <3>1. t[Len(t)] = s[i + 1] /\ Len(t) \in 1..Len(t)
      BY <2>1, Zenon
    <3>2. \A j \in 1..i : s[j].alloc # {} => \E k \in 1..Len(t) : t[k] = s[j]
      <4>1. \A j \in 1..i : s[j].alloc # {} => \E k \in 1..Len(r) : r[k] = s[j]
        BY <1>1, Zenon
      <4>2. \A k \in 1..Len(r) : t[k] = r[k] /\ k \in 1..Len(t)
        BY <2>1, Zenon
      <4> QED BY <4>1, <4>2, Zenon
    <3> QED BY <1>2, <3>1, <3>2, Zenon
  <2>5. \A k \in 1..Len(r) : r[k].mem # p.mem
    <3>1. \A j \in 1..i : s[j].mem # p.mem
      BY <1>3
    <3> QED BY <1>11, <3>1, Zenon
  <2>6. \A k, l \in 1..Len(t) : t[k].mem = t[l].mem => k = l
    <3>1. \A k, l \in 1..Len(r) : t[k].mem = t[l].mem => k = l
      BY <1>1, <2>1, Zenon
    <3>2. \A k \in 1..Len(r) : t[k].mem # t[Len(t)].mem
      BY <2>1, <2>5, Zenon
    <3> QED BY <2>1, <3>1, <3>2, Zenon
  <2>7. IsRelinked(t, s, i + 1)
    BY <2>1, <2>2, <2>3, <2>4, <2>6, Zenon DEF IsRelinked
  <2> QED BY <1>5, <2>7 DEF t
<1> QED BY <1>4, <1>5

\* What slab_gc leaves of a chain.
LEMMA RelinkedIs ==
  ASSUME NEW s \in Seq(Pool), s # <<>>, \A i, j \in 1..Len(s) : s[i].mem = s[j].mem => i = j
  PROVE  IsRelinked(Relinked(s), s, Len(s))
<1> DEFINE n == Len(s)
           One(f, i) == IF s[i].alloc = {} THEN f[i - 1] ELSE Append(f[i - 1], s[i])
           Step(f) == [i \in 1..n |-> IF i = 1 THEN <<s[1]>> ELSE One(f, i)]
           chain == CHOOSE f : f = Step(f)
           Upto(f, k) == f[1] = <<s[1]>> /\ \A i \in 2..k : f[i] = One(f, i)
           D == {k \in Nat : \E f \in [1..(k + 1) -> Seq(Pool)] : k + 1 <= n => Upto(f, k + 1)}
<1>1. n \in Nat /\ n >= 1 /\ s[1] \in Pool /\ \A i \in 1..n : s[i] \in Pool
  OBVIOUS
<1>2. Nat \subseteq D
  <2>1. 0 \in D
    <3> DEFINE f == [i \in 1..1 |-> <<s[1]>>]
    <3>1. f \in [1..(0 + 1) -> Seq(Pool)] /\ Upto(f, 0 + 1)
      BY <1>1
    <3> QED BY <3>1, Zenon
  <2>2. \A k \in Nat : k \in D => k + 1 \in D
    <3> SUFFICES ASSUME NEW k \in Nat, NEW f \in [1..(k + 1) -> Seq(Pool)],
                        k + 1 <= n => Upto(f, k + 1)
                 PROVE  \E g \in [1..(k + 2) -> Seq(Pool)] : k + 2 <= n => Upto(g, k + 2)
      <4>1. \A k \in Nat : (k + 1) + 1 = k + 2 /\ k + 1 \in Nat
        OBVIOUS
      <4> HIDE DEF Upto
      <4> QED BY <4>1
    <3> DEFINE g == [i \in 1..(k + 2) |-> IF i <= k + 1 THEN f[i]
                                          ELSE IF k + 2 <= n THEN One(f, i) ELSE <<>>]
    <3>1. g \in [1..(k + 2) -> Seq(Pool)]
      <4>1. k + 2 <= n => One(f, k + 2) \in Seq(Pool)
        BY <1>1
      <4>2. \A i \in 1..(k + 2) : i <= k + 1 \/ i = k + 2
        OBVIOUS
      <4> HIDE DEF One
      <4> QED BY <4>1, <4>2
    <3>2. k + 2 <= n => Upto(g, k + 2)
      <4> SUFFICES ASSUME k + 2 <= n PROVE Upto(g, k + 2)
        BY Zenon
      <4>1. \A i \in 1..(k + 1) : g[i] = f[i]
        OBVIOUS
      <4>2. g[k + 2] = One(f, k + 2)
        OBVIOUS
      <4>3. Upto(f, k + 1)
        BY <1>1
      <4> HIDE DEF g
      <4>4. \A i \in 2..(k + 2) : One(g, i) = One(f, i)
        BY <4>1
      <4>5. \A i \in 2..(k + 2) : i \in 2..(k + 1) \/ i = k + 2
        OBVIOUS
      <4> HIDE DEF One
      <4>6. \A i \in 2..(k + 1) : g[i] = f[i]
        BY <4>1
      <4>7. g[1] = f[1]
        BY <4>1
      <4>8. ASSUME NEW i \in 2..(k + 2) PROVE g[i] = One(g, i)
        <5>1. CASE i \in 2..(k + 1)
          BY <4>3, <4>4, <4>6, <5>1, Zenon
        <5>2. CASE i = k + 2
          BY <4>2, <4>4, <5>2, Zenon
        <5> QED BY <4>5, <5>1, <5>2, Zenon
      <4> QED BY <4>3, <4>7, <4>8, Zenon
    <3> HIDE DEF g, Upto
    <3> QED BY <3>1, <3>2
  <2> HIDE DEF D
  <2> QED BY <2>1, <2>2, NatInSet
<1>3. chain = Step(chain)
  <2>1. PICK f \in [1..n -> Seq(Pool)] : Upto(f, n)
    <3>1. n - 1 \in Nat /\ (n - 1) + 1 = n
      BY <1>1
    <3>2. n - 1 \in D
      BY <1>2, <3>1, Zenon
    <3>3. \E f \in [1..((n - 1) + 1) -> Seq(Pool)] : (n - 1) + 1 <= n => Upto(f, (n - 1) + 1)
      BY <3>2, Zenon
    <3>4. n <= n
      BY <1>1
    <3> HIDE DEF Upto
    <3> QED BY <3>1, <3>3, <3>4
  <2>2. f = Step(f)
    <3>1. \A i \in 1..n : i = 1 \/ i \in 2..n
      BY <1>1
    <3> HIDE DEF One
    <3> QED BY <2>1, <3>1, Zenon
  <2> HIDE DEF Step
  <2> QED BY <2>2
<1>4. Relinked(s) = chain[n]
  BY Zenon DEF Relinked
<1> HIDE DEF chain
<1>5. chain[1] = <<s[1]>> /\ \A i \in 1..n : i + 1 \in 1..n =>
        chain[i + 1] = IF s[i + 1].alloc = {} THEN chain[i] ELSE Append(chain[i], s[i + 1])
  <2>1. chain[1] = <<s[1]>> /\ 1 \in 1..n
    BY <1>1, <1>3
  <2>2. \A i \in 1..n : i + 1 \in 1..n => chain[i + 1] = One(chain, i + 1)
    <3> HIDE DEF One
    <3> QED BY <1>1, <1>3, SMTT(30)
  <2>3. \A i \in 1..n : (i + 1) - 1 = i
    OBVIOUS
  <2> QED BY <2>1, <2>2, <2>3
<1> DEFINE E == {k \in Nat : k + 1 <= n => IsRelinked(chain[k + 1], s, k + 1)}
<1>6. Nat \subseteq E
  <2>1. 0 \in E
    <3>1. IsRelinked(<<s[1]>>, s, 1)
      BY <1>1 DEF IsRelinked
    <3> QED BY <1>5, <3>1
  <2>2. \A k \in Nat : k \in E => k + 1 \in E
    <3> SUFFICES ASSUME NEW k \in Nat, k + 2 <= n, IsRelinked(chain[k + 1], s, k + 1)
                 PROVE  IsRelinked(chain[k + 2], s, k + 2)
      <4>1. \A k \in Nat : (k + 1) + 1 = k + 2 /\ k + 1 \in Nat /\ (k + 2 <= n => k + 1 <= n)
        BY <1>1
      <4> QED BY <4>1
    <3>1. k + 1 \in 1..n /\ (k + 1) + 1 \in 1..n /\ (k + 1) + 1 = k + 2
      BY <1>1
    <3>2. chain[k + 2] = IF s[(k + 1) + 1].alloc = {} THEN chain[k + 1]
                         ELSE Append(chain[k + 1], s[(k + 1) + 1])
      BY <1>5, <3>1
    <3> QED BY <3>1, <3>2, RelinkOne
  <2> HIDE DEF E
  <2> QED BY <2>1, <2>2, NatInSet
<1>7. n - 1 \in Nat /\ (n - 1) + 1 = n
  BY <1>1
<1>8. n - 1 \in E
  BY <1>6, <1>7
<1> QED BY <1>1, <1>4, <1>7, <1>8

\* The items that the vectors of the chain ps say are in use.
InVectors(ps) == {it \in Item : \E i \in DOMAIN ps : it[1] = ps[i].mem /\ it[2] \in ps[i].alloc}

\* The inductive invariant: between collections no item is marked.
SlabInv == SlabSound /\ \A i \in DOMAIN pools : pools[i].mark = {}

\* SlabExact in terms of items.
LEMMA VectorsAre ==
  ASSUME NEW ps \in Seq(Pool)
  PROVE  UNION {{<<ps[i].mem, s>> : s \in ps[i].alloc} : i \in DOMAIN ps} = InVectors(ps)
<1>1. \A i \in DOMAIN ps : ps[i].mem \in SlabBlock /\ ps[i].alloc \subseteq Index
  <2>1. \A i \in DOMAIN ps : ps[i] \in Pool
    OBVIOUS
  <2> QED BY <2>1 DEF Pool
<1>2. ASSUME NEW it \in InVectors(ps)
      PROVE  it \in UNION {{<<ps[i].mem, s>> : s \in ps[i].alloc} : i \in DOMAIN ps}
  BY DEF InVectors, Item
<1>3. ASSUME NEW i \in DOMAIN ps, NEW s \in ps[i].alloc PROVE <<ps[i].mem, s>> \in InVectors(ps)
  BY <1>1 DEF InVectors, Item
<1> QED BY <1>2, <1>3

\* The same for the chain ps and the items held.
SlabOK(ps, held) ==
  /\ ps \in Seq(Pool) /\ ps # <<>> /\ held = InVectors(ps)
  /\ \A i, j \in DOMAIN ps : ps[i].mem = ps[j].mem => i = j
  /\ \A i \in DOMAIN ps : ps[i].mark = {} /\ (i # 1 => ps[i].alloc # {})

\* The invariant in terms of the pools and of the items handed out.
LEMMA SlabInvIs == SlabInv => SlabOK(pools, slabHeld)
<1> SUFFICES ASSUME SlabInv PROVE SlabOK(pools, slabHeld)
  OBVIOUS
<1>1. pools \in Seq(Pool) /\ SlabExact /\ SlabChain /\ \A i \in DOMAIN pools : pools[i].mark = {}
  BY DEF SlabInv, SlabSound, SlabTypeOK
<1>2. slabHeld = InVectors(pools)
  BY <1>1, VectorsAre DEF SlabExact
<1> QED BY <1>1, <1>2, Zenon DEF SlabOK, SlabChain

\* And back, for the next state.
LEMMA SlabOKNext == ASSUME SlabOK(pools', slabHeld') PROVE SlabInv'
<1>1. /\ pools' \in Seq(Pool) /\ pools' # <<>> /\ slabHeld' = InVectors(pools')
      /\ \A i, j \in DOMAIN pools' : pools'[i].mem = pools'[j].mem => i = j
      /\ \A i \in DOMAIN pools' : pools'[i].mark = {} /\ (i # 1 => pools'[i].alloc # {})
  BY Zenon DEF SlabOK
<1>2. InVectors(pools') \subseteq Item
  BY DEF InVectors
<1>3. SlabExact'
  BY <1>1, VectorsAre DEF SlabExact
<1>4. SlabChain'
  BY <1>1, Zenon DEF SlabChain
<1> QED BY <1>1, <1>2, <1>3, <1>4, SMTT(30) DEF SlabInv, SlabSound, SlabTypeOK

\* A slab begins with one empty pool.
LEMMA SlabStart == SlabInit => SlabInv
<1> SUFFICES ASSUME NEW b \in SlabBlock, pools = <<NewPool(b, {})>>, slabHeld = {} PROVE SlabInv
  BY DEF SlabInit
<1>1. NewPool(b, {}) \in Pool /\ NewPool(b, {}).alloc = {} /\ NewPool(b, {}).mark = {}
  BY DEF NewPool, Pool
<1>2. pools \in Seq(Pool) /\ DOMAIN pools = {1} /\ pools[1] = NewPool(b, {}) /\ pools # <<>>
  BY <1>1
<1>3. InVectors(pools) = {}
  BY <1>1, <1>2 DEF InVectors
<1>4. SlabChain
  BY <1>1, <1>2 DEF SlabChain
<1>5. SlabExact
  BY <1>2, <1>3, VectorsAre DEF SlabExact
<1> QED BY <1>1, <1>2, <1>4, <1>5, SMTT(30) DEF SlabInv, SlabSound, SlabTypeOK

\* ker_slab_alloc takes an item that is not in use.
LEMMA SlabAllocStep == ASSUME SlabOK(pools, slabHeld), SlabAlloc PROVE SlabOK(pools', slabHeld')
<1>1. /\ pools \in Seq(Pool) /\ pools # <<>> /\ slabHeld = InVectors(pools)
      /\ \A i, j \in DOMAIN pools : pools[i].mem = pools[j].mem => i = j
      /\ \A i \in DOMAIN pools : pools[i].mark = {} /\ (i # 1 => pools[i].alloc # {})
  BY Zenon DEF SlabOK
<1>2. PICK i \in {Min(OpenPools)} : \E s \in {Min(Index \ pools[i].alloc)} :
         /\ pools' = [pools EXCEPT ![i].alloc = @ \cup {s}]
         /\ slabHeld' = slabHeld \cup {<<pools[i].mem, s>>}
  BY DEF SlabAlloc
<1>3. PICK s \in {Min(Index \ pools[i].alloc)} :
         /\ pools' = [pools EXCEPT ![i].alloc = @ \cup {s}]
         /\ slabHeld' = slabHeld \cup {<<pools[i].mem, s>>}
  BY <1>2
<1>4. i \in DOMAIN pools /\ pools[i].alloc # Index /\ pools[i] \in Pool
  <2>1. OpenPools # {} /\ OpenPools \subseteq DOMAIN pools /\ OpenPools \subseteq Nat
    BY <1>1, SMTT(30) DEF SlabAlloc, OpenPools
  <2>2. i \in OpenPools
    BY <2>1, MinOf
  <2>3. i \in DOMAIN pools /\ pools[i].alloc # Index
    BY <2>2 DEF OpenPools
  <2> QED BY <1>1, <2>3, SMTT(30)
<1>5. s \in Index
  <2>1. Index \ pools[i].alloc # {} /\ Index \ pools[i].alloc \subseteq Nat
    <3>1. pools[i].alloc \subseteq Index
      BY <1>4 DEF Pool
    <3>2. Index \subseteq Nat
      BY SlabAssumption DEF Index
    <3> QED BY <1>4, <3>1, <3>2, Zenon
  <2> QED BY <2>1, MinOf
<1> DEFINE p == [pools[i] EXCEPT !.alloc = @ \cup {s}]
<1>6. p \in Pool /\ p.mem = pools[i].mem /\ p.mark = pools[i].mark /\ p.alloc = pools[i].alloc \cup {s}
  BY <1>4, <1>5 DEF Pool
<1>7. pools' = [pools EXCEPT ![i] = p]
  BY <1>3
<1> HIDE DEF p
<1>8. /\ pools' \in Seq(Pool) /\ DOMAIN pools' = DOMAIN pools /\ pools' # <<>> /\ pools'[i] = p
      /\ \A j \in DOMAIN pools : j # i => pools'[j] = pools[j]
  BY <1>1, <1>4, <1>6, <1>7, SMTT(30)
<1>9. slabHeld' = InVectors(pools')
  <2>1. <<pools[i].mem, s>> \in Item
    BY <1>4, <1>5 DEF Item, Pool
  <2>2. \A it \in Item : it \in InVectors(pools') <=> it \in InVectors(pools) \/ it = <<pools[i].mem, s>>
    <3> SUFFICES ASSUME NEW it \in Item
                 PROVE  (\E j \in DOMAIN pools' : it[1] = pools'[j].mem /\ it[2] \in pools'[j].alloc)
                        <=> (\E j \in DOMAIN pools : it[1] = pools[j].mem /\ it[2] \in pools[j].alloc)
                            \/ (it[1] = pools[i].mem /\ it[2] = s)
      <4>1. \A it \in Item : it = <<pools[i].mem, s>> <=> it[1] = pools[i].mem /\ it[2] = s
        BY <2>1 DEF Item
      <4> QED BY <4>1, Zenon DEF InVectors
    <3> QED BY <1>4, <1>6, <1>8, ZenonT(30)
  <2> QED BY <1>1, <1>3, <2>1, <2>2, ZenonT(30) DEF InVectors
<1>10. \A j \in DOMAIN pools : pools'[j].mem = pools[j].mem /\ pools'[j].mark = pools[j].mark
  BY <1>6, <1>8, SMTT(30)
<1>11. \A j \in DOMAIN pools : j # 1 => pools'[j].alloc # {}
  BY <1>1, <1>6, <1>8, SMTT(30)
<1> QED BY <1>1, <1>8, <1>9, <1>10, <1>11, Zenon DEF SlabOK

\* A new pool comes in at the end with its first item taken.
LEMMA SlabGrowStep == ASSUME SlabOK(pools, slabHeld), SlabGrow PROVE SlabOK(pools', slabHeld')
<1>1. /\ pools \in Seq(Pool) /\ pools # <<>> /\ slabHeld = InVectors(pools)
      /\ \A i, j \in DOMAIN pools : pools[i].mem = pools[j].mem => i = j
      /\ \A i \in DOMAIN pools : pools[i].mark = {} /\ (i # 1 => pools[i].alloc # {})
  BY Zenon DEF SlabOK
<1>2. PICK b \in UnusedBlocks : /\ pools' = Append(pools, NewPool(b, {0}))
                                /\ slabHeld' = slabHeld \cup {<<b, 0>>}
  BY DEF SlabGrow
<1> DEFINE p == NewPool(b, {0})
           n == Len(pools)
<1>3. p \in Pool /\ p.mem = b /\ p.alloc = {0} /\ p.mark = {} /\ <<b, 0>> \in Item
  BY SlabAssumption DEF NewPool, Pool, Index, Item, UnusedBlocks
<1>4. \A i \in DOMAIN pools : pools[i].mem # b
  BY DEF UnusedBlocks
<1>5. pools' = Append(pools, p)
  BY <1>2
<1> HIDE DEF p
<1>6. /\ pools' \in Seq(Pool) /\ pools' # <<>> /\ n \in Nat /\ n + 1 \in DOMAIN pools' /\ pools'[n + 1] = p
      /\ \A j \in DOMAIN pools : j \in DOMAIN pools' /\ pools'[j] = pools[j]
      /\ \A j \in DOMAIN pools' : j \in DOMAIN pools \/ j = n + 1
      /\ n + 1 # 1 /\ DOMAIN pools = 1..n
  BY <1>1, <1>3, <1>5, SMTT(30)
<1>7. slabHeld' = InVectors(pools')
  <2>1. \A it \in Item : it \in InVectors(pools') <=> it \in InVectors(pools) \/ it = <<b, 0>>
    <3> SUFFICES ASSUME NEW it \in Item
                 PROVE  (\E j \in DOMAIN pools' : it[1] = pools'[j].mem /\ it[2] \in pools'[j].alloc)
                        <=> (\E j \in DOMAIN pools : it[1] = pools[j].mem /\ it[2] \in pools[j].alloc)
                            \/ (it[1] = b /\ it[2] = 0)
      BY DEF InVectors, Item
    <3> QED BY <1>3, <1>6, SMTT(30)
  <2> QED BY <1>1, <1>2, <1>3, <2>1, ZenonT(30) DEF InVectors
<1>8. \A i, j \in DOMAIN pools' : pools'[i].mem = pools'[j].mem => i = j
  BY <1>1, <1>3, <1>4, <1>6
<1>9. \A i \in DOMAIN pools' : pools'[i].mark = {} /\ (i # 1 => pools'[i].alloc # {})
  BY <1>1, <1>3, <1>6, Zenon
<1> QED BY <1>6, <1>7, <1>8, <1>9, Zenon DEF SlabOK

\* ker_slab_free clears one bit, and returns a pool without items unless it is the head.
LEMMA SlabFreeStep ==
  ASSUME SlabOK(pools, slabHeld), NEW it \in slabHeld, SlabFree(it)
  PROVE  SlabOK(pools', slabHeld')
<1>1. /\ pools \in Seq(Pool) /\ pools # <<>> /\ slabHeld = InVectors(pools)
      /\ \A i, j \in DOMAIN pools : pools[i].mem = pools[j].mem => i = j
      /\ \A i \in DOMAIN pools : pools[i].mark = {} /\ (i # 1 => pools[i].alloc # {})
  BY Zenon DEF SlabOK
<1> DEFINE i == PoolOf(it)
           left == pools[i].alloc \ {it[2]}
           n == Len(pools)
<1>2. it \in Item /\ \E k \in DOMAIN pools : it[1] = pools[k].mem /\ it[2] \in pools[k].alloc
  BY <1>1 DEF InVectors
<1>3. i \in DOMAIN pools /\ pools[i].mem = it[1]
  BY <1>2, Zenon DEF PoolOf
<1>4. /\ pools' = IF left = {} /\ i # 1 THEN Without(pools, i) ELSE [pools EXCEPT ![i].alloc = left]
      /\ slabHeld' = slabHeld \ {it}
  BY DEF SlabFree
<1> HIDE DEF i
<1>5. \A x \in Item : x = it <=> x[1] = pools[i].mem /\ x[2] = it[2]
  BY <1>2, <1>3 DEF Item
<1>6. pools[i] \in Pool /\ n \in Nat /\ DOMAIN pools = 1..n
  BY <1>1, <1>3
<1>7. ASSUME NEW x \in Item
      PROVE  x \in slabHeld' <=> \E k \in DOMAIN pools : /\ x[1] = pools[k].mem
                                                         /\ x[2] \in IF k = i THEN left ELSE pools[k].alloc
  BY <1>1, <1>3, <1>4, <1>5, SMTT(30) DEF InVectors
<1>8. slabHeld' \subseteq Item
  BY <1>1, <1>4 DEF InVectors
<1> HIDE DEF left
<1>9. CASE left = {} /\ i # 1
  <2> DEFINE r == Without(pools, i)
  <2>1. pools' = r
    BY <1>4, <1>9
  <2>2. /\ r \in Seq(Pool) /\ Len(r) = n - 1
        /\ \A j \in 1..(n - 1) : r[j] = IF j < i THEN pools[j] ELSE pools[j + 1]
    <3>1. i \in 1..Len(pools) /\ pools \in Seq(Pool)
      BY <1>1, <1>3, <1>6, SMTT(30)
    <3> QED BY <3>1, WithoutIs, Zenon
  <2> HIDE DEF r
  <2>3. i \in 1..n /\ DOMAIN r = 1..(n - 1) /\ n >= 2
    BY <1>3, <1>6, <1>9, <2>2, SMTT(30)
  <2> DEFINE At(j) == IF j < i THEN j ELSE j + 1
  <2>4. /\ \A j \in DOMAIN r : /\ r[j] = pools[At(j)] /\ At(j) \in DOMAIN pools \ {i}
                               /\ (j # 1 => At(j) # 1)
        /\ \A j, l \in DOMAIN r : At(j) = At(l) => j = l
    BY <1>6, <2>2, <2>3, SMTT(30)
  <2>5. \A k \in DOMAIN pools \ {i} : \E j \in DOMAIN r : At(j) = k
    <3> SUFFICES ASSUME NEW k \in 1..n, k # i PROVE \E j \in 1..(n - 1) : At(j) = k
      BY <1>6, <2>3, Zenon
    <3>1. CASE k < i
      <4>1. k \in 1..(n - 1) /\ At(k) = k
        BY <1>6, <2>3, <3>1
      <4> QED BY <4>1
    <3>2. CASE k > i
      <4>1. k - 1 \in 1..(n - 1) /\ At(k - 1) = k
        BY <1>6, <2>3, <3>2
      <4> QED BY <4>1
    <3> QED BY <1>6, <2>3, <3>1, <3>2, SMTT(30)
  <2> HIDE DEF At
  <2>6. \A x \in Item : x \in slabHeld' <=> \E j \in DOMAIN r : x[1] = r[j].mem /\ x[2] \in r[j].alloc
    <3> SUFFICES ASSUME NEW x \in Item
                 PROVE  (\E k \in DOMAIN pools : /\ x[1] = pools[k].mem
                                                 /\ x[2] \in IF k = i THEN {} ELSE pools[k].alloc)
                        <=> \E j \in DOMAIN r : x[1] = r[j].mem /\ x[2] \in r[j].alloc
      BY <1>7, <1>9
    <3> QED BY <2>4, <2>5
  <2>7. slabHeld' = InVectors(r)
    BY <1>8, <2>6 DEF InVectors
  <2>8. \A j, l \in DOMAIN r : r[j].mem = r[l].mem => j = l
    BY <1>1, <2>4, SMTT(30)
  <2>9. \A j \in DOMAIN r : r[j].mark = {} /\ (j # 1 => r[j].alloc # {})
    BY <1>1, <2>4
  <2>10. r # <<>>
    BY <2>2, <2>3
  <2> QED BY <2>1, <2>2, <2>7, <2>8, <2>9, <2>10, Zenon DEF SlabOK
<1>10. CASE ~(left = {} /\ i # 1)
  <2> DEFINE p == [pools[i] EXCEPT !.alloc = left]
  <2>1. p \in Pool /\ p.mem = pools[i].mem /\ p.mark = pools[i].mark /\ p.alloc = left
    BY <1>6 DEF Pool, left
  <2>2. pools' = [pools EXCEPT ![i] = p]
    BY <1>4, <1>10
  <2> HIDE DEF p
  <2>3. /\ pools' \in Seq(Pool) /\ DOMAIN pools' = DOMAIN pools /\ pools' # <<>> /\ pools'[i] = p
        /\ \A j \in DOMAIN pools : j # i => pools'[j] = pools[j]
    BY <1>1, <1>3, <2>1, <2>2, SMTT(30)
  <2>4. \A j \in DOMAIN pools : /\ pools'[j].mem = pools[j].mem /\ pools'[j].mark = pools[j].mark
                                /\ pools'[j].alloc = IF j = i THEN left ELSE pools[j].alloc
    BY <2>1, <2>3
  <2>5. slabHeld' = InVectors(pools')
    <3>1. \A x \in Item : x \in slabHeld' <=>
            \E j \in DOMAIN pools' : x[1] = pools'[j].mem /\ x[2] \in pools'[j].alloc
      BY <1>7, <2>3, <2>4
    <3> QED BY <1>8, <3>1 DEF InVectors
  <2>6. \A j \in DOMAIN pools : j # 1 => pools'[j].alloc # {}
    BY <1>1, <1>10, <2>4, SMTT(30)
  <2> QED BY <1>1, <2>3, <2>4, <2>5, <2>6, Zenon DEF SlabOK
<1> QED BY <1>9, <1>10

\* A collection keeps what was marked, and leaves no mark.
LEMMA SlabCollectStep ==
  ASSUME SlabOK(pools, slabHeld), NEW reach \in SUBSET slabHeld, SlabCollect(reach)
  PROVE  SlabOK(pools', slabHeld')
<1>1. /\ pools \in Seq(Pool) /\ pools # <<>> /\ slabHeld = InVectors(pools)
      /\ \A i, j \in DOMAIN pools : pools[i].mem = pools[j].mem => i = j
      /\ \A i \in DOMAIN pools : pools[i].mark = {} /\ (i # 1 => pools[i].alloc # {})
  BY Zenon DEF SlabOK
<1> DEFINE n == Len(pools)
           s == [i \in DOMAIN pools |-> Swept(Marked(reach)[i])]
           r == pools'
           Kept(i) == {o \in pools[i].alloc : <<pools[i].mem, o>> \in reach}
<1>2. r = Relinked(s) /\ slabHeld' = slabHeld \cap reach
  BY DEF SlabCollect
<1>3. n \in Nat /\ DOMAIN pools = 1..n /\ n # 0 /\ \A i \in 1..n : pools[i] \in Pool
  BY <1>1, SMTT(30)
<1>4. \A i \in 1..n : s[i] \in Pool /\ s[i].mem = pools[i].mem /\ s[i].mark = {} /\ s[i].alloc = Kept(i)
  <2> SUFFICES ASSUME NEW i \in 1..n
               PROVE  s[i] \in Pool /\ s[i].mem = pools[i].mem /\ s[i].mark = {} /\ s[i].alloc = Kept(i)
    BY Zenon
  <2>1. s[i] = Swept(Marked(reach)[i])
    BY <1>3
  <2>2. Marked(reach)[i] = [pools[i] EXCEPT !.mark = {} \cup Kept(i)]
    BY <1>1, <1>3, Zenon DEF Marked
  <2>3. pools[i] \in Pool
    BY <1>3
  <2> HIDE DEF s
  <2> QED BY <2>1, <2>2, <2>3, ZenonT(30) DEF Swept, Pool
<1>5. s \in Seq(Pool) /\ Len(s) = n /\ DOMAIN s = 1..n
  <2>1. s \in [1..n -> Pool]
    BY <1>3, <1>4
  <2> HIDE DEF s
  <2> QED BY <1>3, <2>1
<1> HIDE DEF s, Kept
<1>6. IsRelinked(r, s, n)
  <2>1. s # <<>>
    BY <1>3, <1>5
  <2>2. \A i, j \in 1..Len(s) : s[i].mem = s[j].mem => i = j
    BY <1>1, <1>3, <1>4, <1>5, SMTT(30)
  <2>3. IsRelinked(Relinked(s), s, Len(s))
    BY <1>5, <2>1, <2>2, RelinkedIs, SMTT(30)
  <2> QED BY <1>2, <1>5, <2>3
<1>7. /\ r \in Seq(Pool) /\ Len(r) >= 1 /\ r[1] = s[1]
      /\ \A k \in 1..Len(r) : k # 1 => r[k].alloc # {}
      /\ \A k, l \in 1..Len(r) : r[k].mem = r[l].mem => k = l
  BY <1>6, Zenon DEF IsRelinked
<1>8. \A k \in 1..Len(r) : \E j \in 1..n : r[k] = s[j]
  BY <1>6, Zenon DEF IsRelinked
<1>9. \A j \in 1..n : s[j].alloc # {} => \E k \in 1..Len(r) : r[k] = s[j]
  BY <1>6, Zenon DEF IsRelinked
<1>10. DOMAIN r = 1..Len(r) /\ r # <<>>
  BY <1>7
<1>11. \A x \in Item : x \in slabHeld' <=> \E k \in DOMAIN r : x[1] = r[k].mem /\ x[2] \in r[k].alloc
  <2> SUFFICES ASSUME NEW x \in Item
               PROVE  x \in slabHeld' <=> \E k \in 1..Len(r) : x[1] = r[k].mem /\ x[2] \in r[k].alloc
    BY <1>10
  <2>1. x = <<x[1], x[2]>>
    BY DEF Item
  <2>2. x \in slabHeld' <=> \E j \in 1..n : x[1] = pools[j].mem /\ x[2] \in pools[j].alloc /\ x \in reach
    BY <1>1, <1>2, <1>3 DEF InVectors
  <2>3. x \in slabHeld' <=> \E j \in 1..n : x[1] = s[j].mem /\ x[2] \in s[j].alloc
    BY <1>4, <2>1, <2>2, SMTT(30) DEF Kept
  <2>4. ASSUME NEW k \in 1..Len(r), x[1] = r[k].mem, x[2] \in r[k].alloc PROVE x \in slabHeld'
    BY <1>8, <2>3, <2>4, Zenon
  <2>5. ASSUME NEW j \in 1..n, x[1] = s[j].mem, x[2] \in s[j].alloc
        PROVE  \E k \in 1..Len(r) : x[1] = r[k].mem /\ x[2] \in r[k].alloc
    BY <1>9, <2>5, Zenon
  <2> QED BY <2>3, <2>4, <2>5, Zenon
<1>12. slabHeld' = InVectors(r)
  <2>1. slabHeld' \subseteq Item
    BY <1>1, <1>2, SMTT(30) DEF InVectors
  <2> QED BY <1>11, <2>1 DEF InVectors
<1>13. \A k \in 1..Len(r) : r[k].mark = {}
  BY <1>4, <1>8
<1> QED BY <1>7, <1>10, <1>12, <1>13, Zenon DEF SlabOK

\* For every number of items a pool holds and every set of blocks: the vectors of the
\* pools of kernel/slab.c say exactly which items are in use, so that ker_slab_alloc
\* hands out no item twice, and the chain holds no pool twice and no empty pool but
\* its head, over any frees and collections.
THEOREM SlabIsSound == SlabSpec => []SlabSound
<1>1. SlabInv /\ [SlabNext]_slabVars => SlabInv'
  <2> SUFFICES ASSUME SlabInv, [SlabNext]_slabVars PROVE SlabInv'
    OBVIOUS
  <2>1. CASE SlabNext
    <3>1. SlabOK(pools', slabHeld')
      BY <2>1, SlabInvIs, SlabAllocStep, SlabGrowStep, SlabFreeStep, SlabCollectStep, SMTT(30) DEF SlabNext
    <3> QED BY <3>1, SlabOKNext
  <2>2. CASE UNCHANGED slabVars
    BY <2>2 DEF slabVars, SlabInv, SlabSound, SlabTypeOK, SlabExact, SlabChain
  <2> QED BY <2>1, <2>2
<1>2. SlabInv => SlabSound
  BY DEF SlabInv
<1> QED BY <1>1, <1>2, SlabStart, PTL DEF SlabSpec
================================================================================
