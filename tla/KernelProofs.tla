------------------------------ MODULE KernelProofs -----------------------------
(***************************************************************************)
(* Proofs about parts of the kernel that keep their records on chains: the *)
(* named shared memory of kernel/sos_shm.c and the monitors of             *)
(* kernel/monitor.c.                                                       *)
(***************************************************************************)
EXTENDS Services, ListProofs

--------------------------------------------------------------------------------
\* Shared memory.  The records are well formed, and a name has one at most.
ShmMsg == [to : Module, type : {"SHM_UPDATED", "SHM_CLOSED"}, name : ShmName]
ShmInv == shm_bin \in [ShmBin -> Seq(ShmCb)] /\ ShmNames /\ shmSent \subseteq ShmMsg

\* What WaitersTold says of one step.
Told ==
  \A b \in ShmBin : \A i \in DOMAIN shm_bin[b] :
    LET cb == shm_bin[b][i]
    IN  (\A j \in DOMAIN shm_bin'[b] : shm_bin'[b][j].name # cb.name) =>
          \A w \in Waiter : cb.waiter[w] # NULL_PID =>
            [to |-> cb.waiter[w], type |-> "SHM_CLOSED", name |-> cb.name] \in shmSent'

\* The bin of a name.
LEMMA BinOf == ASSUME NEW n \in ShmName PROVE hash_bin(n) \in ShmBin
<1>1. n \in Nat /\ SHM_NUM_BINS \in Nat /\ SHM_NUM_BINS # 0
  BY ShmAssumption
<1>2. n % SHM_NUM_BINS \in 0..(SHM_NUM_BINS - 1)
  BY <1>1
<1> QED BY <1>2 DEF hash_bin, ShmBin

\* What shm_lookup finds is the record of the name.
LEMMA LookupIs ==
  ASSUME ShmInv, NEW n \in ShmName, NEW i \in shm_lookup(n)
  PROVE  /\ i \in 1..Len(shm_bin[hash_bin(n)]) /\ shm_bin[hash_bin(n)] \in Seq(ShmCb)
         /\ shm_bin[hash_bin(n)][i] \in ShmCb /\ shm_bin[hash_bin(n)][i].name = n
<1> DEFINE s == shm_bin[hash_bin(n)]
<1>1. s \in Seq(ShmCb)
  BY BinOf DEF ShmInv
<1>2. Opened(n) \subseteq 1..Len(s) /\ \A j \in Opened(n) : s[j].name = n
  BY <1>1 DEF Opened
<1>3. i \in Opened(n)
  <2>1. Opened(n) # {} /\ i = Min(Opened(n))
    BY DEF shm_lookup
  <2>2. Opened(n) \subseteq Nat
    BY <1>2
  <2> QED BY <2>1, <2>2, MinOf
<1> QED BY <1>1, <1>2, <1>3

\* One chain is replaced.
LEMMA OneBin ==
  ASSUME ShmInv, NEW b \in ShmBin, NEW s \in Seq(ShmCb), shm_bin' = [shm_bin EXCEPT ![b] = s],
         \A i, j \in 1..Len(s) : hash_bin(s[i].name) = b /\ (s[i].name = s[j].name => i = j)
  PROVE  /\ (shm_bin \in [ShmBin -> Seq(ShmCb)])' /\ ShmNames'
         /\ shm_bin'[b] = s /\ \A d \in ShmBin : d # b => shm_bin'[d] = shm_bin[d]
<1>1. /\ shm_bin' \in [ShmBin -> Seq(ShmCb)] /\ shm_bin'[b] = s
      /\ \A d \in ShmBin : d # b => shm_bin'[d] = shm_bin[d]
  BY DEF ShmInv
<1>2. ASSUME NEW d \in ShmBin, NEW i \in DOMAIN shm_bin'[d], NEW j \in DOMAIN shm_bin'[d]
      PROVE  /\ hash_bin(shm_bin'[d][i].name) = d
             /\ shm_bin'[d][i].name = shm_bin'[d][j].name => i = j
  BY <1>1 DEF ShmInv, ShmNames
<1> QED BY <1>1, <1>2 DEF ShmNames

\* The messages of shm_send_event are well formed and go to every waiter.
LEMMA SendsTo ==
  ASSUME NEW cb \in ShmCb, NEW t \in {"SHM_UPDATED", "SHM_CLOSED"}, shm_send_event(cb, t)
  PROVE  /\ shmSent' \subseteq ShmMsg
         /\ \A w \in Waiter : cb.waiter[w] # NULL_PID =>
              [to |-> cb.waiter[w], type |-> t, name |-> cb.name] \in shmSent'
BY DEF shm_send_event, ShmCb, ShmMsg

\* ker_shm_open puts a record of a new name in front.
LEMMA OpenStep ==
  ASSUME ShmInv, NEW m \in Module, NEW n \in ShmName, ker_shm_open(m, n)
  PROVE  ShmInv' /\ Told
<1> DEFINE b == hash_bin(n)
           s == shm_bin[b]
           cb == [name |-> n, owner |-> m, waiter |-> [w \in Waiter |-> NULL_PID]]
           t == <<cb>> \o s
<1>1. b \in ShmBin /\ s \in Seq(ShmCb) /\ cb \in ShmCb
  BY BinOf, Zenon DEF ShmInv, ShmCb
<1>2. shm_bin' = [shm_bin EXCEPT ![b] = t] /\ shmSent' = {}
  BY DEF ker_shm_open
<1>3. \A i \in 1..Len(s) : s[i].name # n /\ hash_bin(s[i].name) = b
  <2>1. Opened(n) = {}
    <3>1. Opened(n) \subseteq Nat
      BY <1>1 DEF Opened
    <3> QED BY <3>1 DEF ker_shm_open, shm_lookup
  <2> QED BY <1>1, <2>1 DEF Opened, ShmInv, ShmNames
<1>4. \A i, j \in 1..Len(s) : s[i].name = s[j].name => i = j
  BY <1>1 DEF ShmInv, ShmNames
<1>5. cb.name = n /\ hash_bin(n) = b
  OBVIOUS
<1> HIDE DEF cb, s, b
<1>6. /\ t \in Seq(ShmCb) /\ Len(t) = Len(s) + 1 /\ Len(s) \in Nat
      /\ t[1] = cb /\ \A i \in 1..Len(s) : t[i + 1] = s[i]
  BY <1>1
<1>7. \A i \in 1..Len(t) : (i = 1 /\ t[i] = cb) \/ (i - 1 \in 1..Len(s) /\ t[i] = s[i - 1])
  BY <1>6
<1> HIDE DEF t
<1>8. \A i, j \in 1..Len(t) : hash_bin(t[i].name) = b /\ (t[i].name = t[j].name => i = j)
  <2> SUFFICES ASSUME NEW i \in 1..Len(t), NEW j \in 1..Len(t)
               PROVE  hash_bin(t[i].name) = b /\ (t[i].name = t[j].name => i = j)
    OBVIOUS
  <2>1. hash_bin(t[i].name) = b
    BY <1>3, <1>5, <1>7
  <2>2. CASE i = 1 \/ j = 1
    BY <1>3, <1>5, <1>7, <2>2, SMTT(30)
  <2>3. CASE i # 1 /\ j # 1
    <3>1. i - 1 \in 1..Len(s) /\ t[i] = s[i - 1] /\ j - 1 \in 1..Len(s) /\ t[j] = s[j - 1]
      BY <1>7, <2>3
    <3>2. t[i].name = t[j].name => i - 1 = j - 1
      BY <1>4, <3>1
    <3> QED BY <1>6, <2>1, <3>2
  <2> QED BY <2>1, <2>2, <2>3
<1>9. /\ (shm_bin \in [ShmBin -> Seq(ShmCb)])' /\ ShmNames'
      /\ shm_bin'[b] = t /\ \A d \in ShmBin : d # b => shm_bin'[d] = shm_bin[d]
  BY <1>1, <1>2, <1>6, <1>8, OneBin, Zenon
<1>10. \A d \in ShmBin : \A i \in DOMAIN shm_bin[d] :
         \E j \in DOMAIN shm_bin'[d] : shm_bin'[d][j].name = shm_bin[d][i].name
  <2> SUFFICES ASSUME NEW d \in ShmBin, NEW i \in DOMAIN shm_bin[d]
               PROVE  \E j \in DOMAIN shm_bin'[d] : shm_bin'[d][j].name = shm_bin[d][i].name
    OBVIOUS
  <2>1. CASE d = b
    <3>1. shm_bin[d] = s /\ i \in 1..Len(s) /\ DOMAIN t = 1..Len(t)
      BY <1>1, <1>6, <2>1 DEF s
    <3>2. i + 1 \in 1..Len(t) /\ t[i + 1] = s[i]
      BY <1>6, <3>1
    <3> QED BY <1>9, <2>1, <3>1, <3>2
  <2>2. CASE d # b
    BY <1>9, <2>2
  <2> QED BY <2>1, <2>2
<1> QED BY <1>2, <1>9, <1>10, SMTT(30) DEF ShmInv, Told

\* ker_shm_close cuts the record out and tells those who wait on it.
LEMMA CloseStep ==
  ASSUME ShmInv, NEW m \in Module, NEW n \in ShmName, ker_shm_close(m, n)
  PROVE  ShmInv' /\ Told
<1> DEFINE b == hash_bin(n)
           s == shm_bin[b]
<1>1. PICK k \in shm_lookup(n) : /\ shm_bin' = [shm_bin EXCEPT ![b] = Without(s, k)]
                                 /\ shm_send_event(s[k], "SHM_CLOSED")
  BY Zenon DEF ker_shm_close
<1> DEFINE t == Without(s, k)
<1>2. b \in ShmBin /\ k \in 1..Len(s) /\ s \in Seq(ShmCb) /\ s[k] \in ShmCb /\ s[k].name = n
  BY BinOf, LookupIs
<1>3. \A i, j \in 1..Len(s) : hash_bin(s[i].name) = b /\ (s[i].name = s[j].name => i = j)
  BY <1>2 DEF ShmInv, ShmNames
<1>4. shm_bin' = [shm_bin EXCEPT ![b] = t]
  BY <1>1
<1>6. shm_bin[b] = s
  OBVIOUS
<1> HIDE DEF s, b
<1>5. /\ t \in Seq(ShmCb) /\ Len(t) = Len(s) - 1 /\ Len(s) \in Nat
      /\ \A j \in 1..(Len(s) - 1) : t[j] = IF j < k THEN s[j] ELSE s[j + 1]
  BY <1>2, WithoutIs
<1> HIDE DEF t
<1>7. \A i, j \in 1..Len(t) : hash_bin(t[i].name) = b /\ (t[i].name = t[j].name => i = j)
  <2> SUFFICES ASSUME NEW i \in 1..Len(t), NEW j \in 1..Len(t)
               PROVE  hash_bin(t[i].name) = b /\ (t[i].name = t[j].name => i = j)
    OBVIOUS
  <2> DEFINE At(x) == IF x < k THEN x ELSE x + 1
  <2>1. \A x \in 1..Len(t) : At(x) \in 1..Len(s) /\ t[x] = s[At(x)]
    BY <1>2, <1>5
  <2>2. hash_bin(t[i].name) = b /\ (t[i].name = t[j].name => At(i) = At(j))
    BY <1>3, <2>1
  <2>3. At(i) = At(j) => i = j
    BY <1>2, <1>5
  <2> QED BY <2>2, <2>3
<1>8. /\ (shm_bin \in [ShmBin -> Seq(ShmCb)])' /\ ShmNames'
      /\ shm_bin'[b] = t /\ \A d \in ShmBin : d # b => shm_bin'[d] = shm_bin[d]
  BY <1>2, <1>4, <1>5, <1>7, OneBin, Zenon
<1>9. /\ shmSent' \subseteq ShmMsg
      /\ \A w \in Waiter : s[k].waiter[w] # NULL_PID =>
           [to |-> s[k].waiter[w], type |-> "SHM_CLOSED", name |-> s[k].name] \in shmSent'
  BY <1>1, <1>2, SendsTo DEF s
<1>10. ASSUME NEW i \in 1..Len(s), i # k PROVE \E j \in 1..Len(t) : t[j] = s[i]
  <2>1. CASE i < k
    BY <1>2, <1>5, <2>1
  <2>2. CASE i > k
    <3>1. i - 1 \in 1..(Len(s) - 1) /\ ~(i - 1 < k) /\ (i - 1) + 1 = i
      BY <1>2, <1>5, <2>2
    <3>2. t[i - 1] = s[i]
      BY <1>5, <3>1
    <3> QED BY <1>5, <3>1, <3>2
  <2> QED BY <1>2, <1>5, <1>10, <2>1, <2>2
<1>11. Told
  <2> SUFFICES ASSUME NEW d \in ShmBin, NEW i \in DOMAIN shm_bin[d],
                      \A j \in DOMAIN shm_bin'[d] : shm_bin'[d][j].name # shm_bin[d][i].name
               PROVE  d = b /\ i = k
    BY <1>6, <1>9 DEF Told
  <2>1. d = b
    BY <1>8
  <2>2. i \in 1..Len(s) /\ DOMAIN t = 1..Len(t)
    BY <1>2, <1>5, <1>6, <2>1, SMTT(30)
  <2> QED BY <1>6, <1>8, <1>10, <2>1, <2>2, SMTT(30)
<1> QED BY <1>8, <1>9, <1>11 DEF ShmInv

\* A waiter entry changes and the names stay.
LEMMA WaiterStep ==
  ASSUME ShmInv, NEW n \in ShmName, NEW k \in shm_lookup(n), NEW v \in Waiter,
         NEW p \in Module \cup {NULL_PID},
         shm_bin' = [shm_bin EXCEPT ![hash_bin(n)][k].waiter[v] = p], shmSent' = {}
  PROVE  ShmInv' /\ Told
<1> DEFINE b == hash_bin(n)
           s == shm_bin[b]
           t == [s EXCEPT ![k].waiter[v] = p]
<1>2. b \in ShmBin /\ k \in 1..Len(s) /\ s \in Seq(ShmCb) /\ s[k] \in ShmCb
  BY BinOf, LookupIs
<1>3. \A i, j \in 1..Len(s) : hash_bin(s[i].name) = b /\ (s[i].name = s[j].name => i = j)
  BY <1>2 DEF ShmInv, ShmNames
<1>4. shm_bin' = [shm_bin EXCEPT ![b] = t] /\ shm_bin[b] = s
  OBVIOUS
<1>5. t = [s EXCEPT ![k] = [s[k] EXCEPT !.waiter[v] = p]]
  OBVIOUS
<1>6. [s[k] EXCEPT !.waiter[v] = p] \in ShmCb /\ [s[k] EXCEPT !.waiter[v] = p].name = s[k].name
  BY <1>2, SMTT(30) DEF ShmCb
<1> HIDE DEF t, s, b
<1>7. /\ t \in Seq(ShmCb) /\ Len(t) = Len(s)
      /\ \A i \in 1..Len(s) : t[i].name = s[i].name
  BY <1>2, <1>5, <1>6
<1>8. \A i, j \in 1..Len(t) : hash_bin(t[i].name) = b /\ (t[i].name = t[j].name => i = j)
  BY <1>3, <1>7, SMTT(30)
<1>9. /\ (shm_bin \in [ShmBin -> Seq(ShmCb)])' /\ ShmNames'
      /\ shm_bin'[b] = t /\ \A d \in ShmBin : d # b => shm_bin'[d] = shm_bin[d]
  BY <1>2, <1>4, <1>7, <1>8, OneBin, Zenon
<1>10. ASSUME NEW d \in ShmBin, NEW i \in DOMAIN shm_bin[d]
       PROVE  i \in DOMAIN shm_bin'[d] /\ shm_bin'[d][i].name = shm_bin[d][i].name
  <2>1. CASE d = b
    BY <1>2, <1>4, <1>7, <1>9, <2>1
  <2>2. CASE d # b
    BY <1>9, <2>2
  <2> QED BY <2>1, <2>2
<1> QED BY <1>9, <1>10 DEF ShmInv, Told

\* Every step of the services keeps the invariant, and tells the waiters of a name
\* that goes.
LEMMA ShmStep == ASSUME ShmInv, [servNext]_servVars PROVE ShmInv' /\ (Told \/ UNCHANGED shmVars)
<1>1. CASE ShmOpen
  BY <1>1, OpenStep DEF ShmOpen
<1>2. CASE ShmClose
  BY <1>2, CloseStep DEF ShmClose
<1>3. CASE ShmUpdate
  <2>1. PICK m \in Module \ Kernel, n \in ShmName : ker_shm_update(m, n)
    BY <1>3 DEF ShmUpdate
  <2>2. PICK k \in shm_lookup(n) : shm_send_event(shm_bin[hash_bin(n)][k], "SHM_UPDATED")
    BY <2>1 DEF ker_shm_update
  <2>3. shmSent' \subseteq ShmMsg
    BY <2>2, LookupIs, SendsTo
  <2>4. shm_bin' = shm_bin
    BY <2>1, SMTT(30) DEF ker_shm_update
  <2> QED BY <2>3, <2>4 DEF ShmInv, ShmNames, Told
<1>4. CASE ShmWait
  <2>1. PICK m \in Module \ Kernel, n \in ShmName : ker_shm_wait(m, n)
    BY <1>4 DEF ShmWait
  <2>2. PICK k \in shm_lookup(n) :
          LET free == {w \in Waiter : shm_bin[hash_bin(n)][k].waiter[w] = NULL_PID}
          IN  free # {} /\ shm_bin' = [shm_bin EXCEPT ![hash_bin(n)][k].waiter[Min(free)] = m]
    BY <2>1, Zenon DEF ker_shm_wait
  <2> DEFINE free == {w \in Waiter : shm_bin[hash_bin(n)][k].waiter[w] = NULL_PID}
  <2>3. free # {} /\ free \subseteq Nat /\ free \subseteq Waiter
    BY <2>2 DEF Waiter
  <2>4. Min(free) \in Waiter
    BY <2>3, MinOf
  <2>5. shmSent' = {} /\ shm_bin' = [shm_bin EXCEPT ![hash_bin(n)][k].waiter[Min(free)] = m]
    BY <2>1, <2>2, Zenon DEF ker_shm_wait
  <2> QED BY <2>4, <2>5, WaiterStep, Zenon
<1>5. CASE ShmStopwait
  <2>1. PICK m \in Module \ Kernel, n \in ShmName : ker_shm_stopwait(m, n)
    BY <1>5 DEF ShmStopwait
  <2>2. PICK k \in shm_lookup(n) :
          LET mine == {w \in Waiter : shm_bin[hash_bin(n)][k].waiter[w] = m}
          IN  mine # {} /\ shm_bin' = [shm_bin EXCEPT ![hash_bin(n)][k].waiter[Min(mine)] = NULL_PID]
    BY <2>1, Zenon DEF ker_shm_stopwait
  <2> DEFINE mine == {w \in Waiter : shm_bin[hash_bin(n)][k].waiter[w] = m}
  <2>3. mine # {} /\ mine \subseteq Nat /\ mine \subseteq Waiter
    BY <2>2 DEF Waiter
  <2>4. Min(mine) \in Waiter
    BY <2>3, MinOf
  <2>5. shmSent' = {} /\ shm_bin' = [shm_bin EXCEPT ![hash_bin(n)][k].waiter[Min(mine)] = NULL_PID]
    BY <2>1, <2>2, Zenon DEF ker_shm_stopwait
  <2> QED BY <2>4, <2>5, WaiterStep, Zenon
<1>6. CASE UNCHANGED shmVars
  BY <1>6 DEF ShmInv, ShmNames, shmVars
<1>7. CASE UNCHANGED servVars \/ Load \/ Unload
  BY <1>6, <1>7 DEF servVars, Load, register_module, Unload, deregister_module
<1>8. CASE Subscribe \/ DfuncRemoved
  BY <1>6, <1>8 DEF Subscribe, DfuncRemoved, OtherThanFn
<1>9. CASE SensorRegister \/ SensorDeregister \/ SensorGetData \/ SensorDataReady
  BY <1>6, <1>9 DEF SensorRegister, SensorDeregister, SensorGetData, SensorDataReady, OtherThanSens
<1>10. CASE MonitorRegister \/ MonitorDeregister \/ DeliverBegin \/ DeliverStep
  BY <1>6, <1>10, Zenon DEF MonitorRegister, MonitorDeregister, DeliverBegin, DeliverStep, OtherThanMon
<1> QED BY <1>1, <1>2, <1>3, <1>4, <1>5, <1>7, <1>8, <1>9, <1>10, SMTT(30) DEF servNext

\* The chains are empty at first.
LEMMA ShmStart == servInit => ShmInv
BY DEF servInit, shmInit, ShmInv, ShmNames, ShmMsg

\* For every set of names and numbers of bins and waiters: ker_shm_open never makes
\* a second record of a name, and every record is in the bin in which shm_lookup
\* looks for it, however ker_shm_close cuts the chains.
THEOREM ShmNamesUnique == servSpec => []ShmNames
<1>1. ShmInv => ShmNames
  BY DEF ShmInv
<1> QED BY <1>1, ShmStart, ShmStep, PTL DEF servSpec

\* A record never vanishes without a message to each process that waits on it: the
\* only step that takes a name away is ker_shm_close, which tells them all.
THEOREM ShmWaitersTold == servSpec => WaitersTold
<1>1. ShmInv /\ [servNext]_servVars => [Told]_shmVars
  BY ShmStep
<1> QED BY <1>1, ShmStart, ShmStep, PTL DEF servSpec, WaitersTold, Told

--------------------------------------------------------------------------------
\* Monitors, one block for each module.  The blocks w are the list that cb_list and
\* cbNext lead through.
MonList(w, first, nx) == w \in Seq(MonCb) /\ IsList(w, first, nx, NoMon)

\* How often a delivery runs the handler of c.
Times(c, msg) == IF Matching(c, msg) THEN 1 ELSE 0

\* A walk that has served the first k blocks of w: its next pointer leads to block
\* k + 1, also when the block it is at has taken itself off the list.
Walking(w, k, cr, nx, sn, msg) ==
  /\ k \in 0..Len(w)
  /\ \A i \in 1..Len(w) : sn[w[i]] = IF i <= k THEN Times(w[i], msg) ELSE 0
  /\ nx[cr] = IF k < Len(w) THEN w[k + 1] ELSE NoMon
  /\ \A i \in 1..Len(w) : w[i] = cr => i = k

MonInv ==
  /\ monTypeOK /\ MonitorOnce
  /\ \E w : /\ MonList(w, cb_list, cbNext)
            /\ \A i \in 1..Len(w) : CbModule[w[i]] \in live
            /\ curr # NoMon => throughout = Range(w) /\ \E k \in Nat : Walking(w, k, curr, cbNext, seen, mon)

\* List is that list.
LEMMA MonListIs ==
  ASSUME NEW w, NEW first, NEW nx, MonList(w, first, nx)
  PROVE  ListFrom(first, nx, NoMon, Cardinality(MonCb)) = w
<1>1. w \in Seq(MonCb) /\ IsList(w, first, nx, NoMon) /\ NoMon \notin MonCb
      /\ Cardinality(MonCb) \in Nat
  BY MonitorAssumption, FS_CardinalityType DEF MonList
<1>2. Len(w) <= Cardinality(MonCb)
  BY <1>1, InjectiveLen, MonitorAssumption DEF IsList
<1>3. Len(w) <= Cardinality(MonCb) + 1
  BY <1>1, <1>2
<1> QED BY <1>1, <1>3, ListFromList

\* The blocks on it.
LEMMA MonOnList ==
  ASSUME NEW w, MonList(w, cb_list, cbNext)
  PROVE  /\ List = w /\ OnList = Range(w) /\ OnList \subseteq MonCb
         /\ \A c \in OnList : \E i \in 1..Len(w) : w[i] = c
         /\ \A i \in 1..Len(w) : w[i] \in OnList
<1>1. List = w
  BY MonListIs DEF List
<1>2. w \in Seq(MonCb)
  BY DEF MonList
<1>3. OnList = Range(w)
  BY <1>1 DEF OnList, Range
<1> QED BY <1>1, <1>2, <1>3, RangeIs

\* Drop takes the block at place k off and leaves the pointer of every block on the
\* list but its predecessor's.
LEMMA DropStep ==
  ASSUME NEW w, MonList(w, cb_list, cbNext), cbNext \in [MonCb -> MonCb \cup {NoMon}],
         NEW k \in 1..Len(w), Drop(w[k])
  PROVE  /\ MonList(Without(w, k), cb_list', cbNext')
         /\ cbNext'[w[k]] = cbNext[w[k]] /\ cbNext' \in [MonCb -> MonCb \cup {NoMon}]
         /\ cb_list' \in MonCb \cup {NoMon}
         /\ throughout' = throughout \ {w[k]}
<1>1. /\ w \in Seq(MonCb) /\ IsList(w, cb_list, cbNext, NoMon) /\ NoMon \notin MonCb
      /\ Len(w) \in Nat /\ w[k] \in MonCb
  BY MonitorAssumption DEF MonList
<1>2. /\ \A i, j \in 1..Len(w) : w[i] = w[j] => i = j
      /\ cb_list = w[1] /\ 1 \in 1..Len(w)
      /\ \A i \in 1..Len(w) : cbNext[w[i]] = IF i < Len(w) THEN w[i + 1] ELSE NoMon
  BY <1>1 DEF IsList
<1>3. Without(w, k) \in Seq(MonCb)
  BY <1>1, WithoutIs
<1>4. CASE k = 1
  <2>1. cb_list' = cbNext[w[1]] /\ cbNext' = cbNext /\ throughout' = throughout \ {w[1]}
    BY <1>2, <1>4 DEF Drop
  <2>2. IsList(Without(w, k), IF k = 1 THEN cbNext[w[1]] ELSE cb_list, cbNext', NoMon)
    <3>1. \A j \in 1..Len(w) : j # k - 1 /\ j # k => cbNext'[w[j]] = cbNext[w[j]]
      BY <2>1
    <3>2. k > 1 => cbNext'[w[k - 1]] = cbNext[w[k]]
      BY <1>4
    <3> QED BY <1>1, <3>1, <3>2, RemoveList, Zenon
  <2>3. cbNext[w[1]] \in MonCb \cup {NoMon}
    BY <1>1, <1>4
  <2> QED BY <1>3, <1>4, <2>1, <2>2, <2>3, SMTT(30) DEF MonList
<1>5. CASE k # 1
  <2> DEFINE p == CHOOSE q \in OnList : cbNext[q] = w[k]
  <2>1. w[k] # cb_list
    BY <1>2, <1>5
  <2>2. cb_list' = cb_list /\ cbNext' = [cbNext EXCEPT ![p] = cbNext[w[k]]]
        /\ throughout' = throughout \ {w[k]}
    BY <2>1 DEF Drop
  <2>3. k - 1 \in 1..Len(w) /\ (k - 1) + 1 = k /\ k - 1 < Len(w) /\ k \in Nat
    BY <1>1, <1>5
  <2>4. \A i \in 1..Len(w) : cbNext[w[i]] = w[k] => i = k - 1
    <3> SUFFICES ASSUME NEW i \in 1..Len(w), cbNext[w[i]] = w[k] PROVE i = k - 1
      OBVIOUS
    <3>1. i < Len(w) /\ w[i + 1] = w[k]
      BY <1>1, <1>2
    <3>2. i + 1 \in 1..Len(w)
      BY <1>1, <3>1
    <3>3. i + 1 = k
      BY <1>2, <3>1, <3>2
    <3> QED BY <2>3, <3>3
  <2>5. cbNext[w[k - 1]] = w[k]
    BY <1>2, <2>3
  <2>6. p = w[k - 1]
    BY <2>3, <2>4, <2>5, MonOnList
  <2> HIDE DEF p
  <2>7. w[k - 1] \in MonCb /\ w[k - 1] # w[k]
    BY <1>1, <1>2, <2>3
  <2>8. cbNext[w[k]] \in MonCb \cup {NoMon}
    BY <1>1
  <2>9. /\ cbNext' \in [MonCb -> MonCb \cup {NoMon}] /\ cbNext'[w[k - 1]] = cbNext[w[k]]
        /\ \A c \in MonCb : c # w[k - 1] => cbNext'[c] = cbNext[c]
    BY <2>2, <2>6, <2>7, <2>8, SMTT(30)
  <2>10. IsList(Without(w, k), IF k = 1 THEN cbNext[w[1]] ELSE cb_list, cbNext', NoMon)
    <3>1. \A j \in 1..Len(w) : j # k - 1 /\ j # k => cbNext'[w[j]] = cbNext[w[j]]
      BY <1>1, <1>2, <2>3, <2>9
    <3>2. k > 1 => cbNext'[w[k - 1]] = cbNext[w[k]]
      BY <2>9
    <3> QED BY <1>1, <3>1, <3>2, RemoveList, Zenon
  <2>11. cb_list \in MonCb
    BY <1>1, <1>2
  <2> QED BY <1>1, <1>3, <1>5, <2>2, <2>7, <2>9, <2>10, <2>11 DEF MonList
<1> QED BY <1>4, <1>5

\* A new block comes in at the end.
LEMMA LinkStep ==
  ASSUME NEW w, MonList(w, cb_list, cbNext), cbNext \in [MonCb -> MonCb \cup {NoMon}],
         NEW c \in MonCb, c \notin OnList,
         IF cb_list = NoMon THEN cb_list' = c /\ cbNext' = [cbNext EXCEPT ![c] = NoMon]
         ELSE /\ cbNext' = [cbNext EXCEPT ![c] = NoMon, ![List[Len(List)]] = c]
              /\ cb_list' = cb_list
  PROVE  /\ MonList(Append(w, c), cb_list', cbNext') /\ cb_list' \in MonCb
         /\ cbNext' \in [MonCb -> MonCb \cup {NoMon}]
<1>1. /\ w \in Seq(MonCb) /\ IsList(w, cb_list, cbNext, NoMon) /\ NoMon \notin MonCb
      /\ Len(w) \in Nat /\ \A i \in 1..Len(w) : w[i] \in MonCb
  BY MonitorAssumption DEF MonList
<1>2. List = w /\ \A i \in 1..Len(w) : w[i] # c
  BY MonOnList
<1>3. /\ \A i, j \in 1..Len(w) : w[i] = w[j] => i = j
      /\ cb_list = IF w = <<>> THEN NoMon ELSE w[1]
  BY <1>1 DEF IsList
<1>4. Append(w, c) \in Seq(MonCb)
  BY <1>1
<1>5. CASE w = <<>>
  <2>1. cb_list' = c /\ cbNext' = [cbNext EXCEPT ![c] = NoMon]
    BY <1>3, <1>5
  <2>2. cbNext' \in [MonCb -> MonCb \cup {NoMon}] /\ cbNext'[c] = NoMon
    BY <2>1
  <2>3. \A i \in 1..Len(w) : cbNext'[w[i]] = IF i < Len(w) THEN cbNext[w[i]] ELSE c
    BY <1>5
  <2>4. IsList(Append(w, c), IF w = <<>> THEN c ELSE cb_list, cbNext', NoMon)
    BY <1>1, <1>2, <2>2, <2>3, AppendList, SMTT(30)
  <2> QED BY <1>4, <1>5, <2>1, <2>2, <2>4, SMTT(30) DEF MonList
<1>6. CASE w # <<>>
  <2> DEFINE l == w[Len(w)]
  <2>1. Len(w) \in 1..Len(w) /\ 1 \in 1..Len(w)
    BY <1>1, <1>6
  <2>2. cb_list = w[1] /\ cb_list \in MonCb /\ l \in MonCb /\ l # c /\ cb_list # NoMon
    BY <1>1, <1>2, <1>3, <1>6, <2>1, SMTT(30)
  <2>3. cb_list' = cb_list /\ cbNext' = [cbNext EXCEPT ![c] = NoMon, ![l] = c]
    BY <1>2, <2>2
  <2> HIDE DEF l
  <2>4. /\ cbNext' \in [MonCb -> MonCb \cup {NoMon}] /\ cbNext'[c] = NoMon /\ cbNext'[l] = c
        /\ \A d \in MonCb : d # c /\ d # l => cbNext'[d] = cbNext[d]
    BY <2>2, <2>3
  <2>5. \A i \in 1..Len(w) : cbNext'[w[i]] = IF i < Len(w) THEN cbNext[w[i]] ELSE c
    <3> SUFFICES ASSUME NEW i \in 1..Len(w)
                 PROVE  cbNext'[w[i]] = IF i < Len(w) THEN cbNext[w[i]] ELSE c
      OBVIOUS
    <3>1. CASE i < Len(w)
      <4>1. w[i] # l /\ w[i] # c /\ w[i] \in MonCb
        BY <1>1, <1>2, <1>3, <2>1, <3>1, SMTT(30) DEF l
      <4> QED BY <2>4, <3>1, <4>1
    <3>2. CASE ~(i < Len(w))
      <4>1. i = Len(w)
        BY <1>1, <3>2
      <4> QED BY <2>4, <3>2, <4>1, SMTT(30) DEF l
    <3> QED BY <3>1, <3>2
  <2>6. IsList(Append(w, c), IF w = <<>> THEN c ELSE cb_list, cbNext', NoMon)
    BY <1>1, <1>2, <2>4, <2>5, AppendList, SMTT(30)
  <2> QED BY <1>4, <1>6, <2>2, <2>3, <2>4, <2>6, SMTT(30) DEF MonList
<1> QED BY <1>5, <1>6

\* A walk goes to the next block, or is over when all were served.
LEMMA WalkOn ==
  ASSUME NEW w, MonList(w, cb_list, cbNext), NEW k \in Nat, monTypeOK,
         Walking(w, k, curr, cbNext, seen, mon), Visit(cbNext[curr], mon, seen)
  PROVE  /\ curr' \in MonCb \cup {NoMon} /\ seen' \in [MonCb -> Nat]
         /\ curr' # NoMon => Walking(w, k + 1, curr', cbNext, seen', mon)
         /\ curr' = NoMon => \A c \in Range(w) : seen'[c] = Times(c, mon)
<1>1. /\ w \in Seq(MonCb) /\ IsList(w, cb_list, cbNext, NoMon) /\ NoMon \notin MonCb
      /\ Len(w) \in Nat /\ \A i \in 1..Len(w) : w[i] \in MonCb
  BY MonitorAssumption DEF MonList
<1>2. /\ \A i, j \in 1..Len(w) : w[i] = w[j] => i = j
      /\ \A i \in 1..Len(w) : cbNext[w[i]] = IF i < Len(w) THEN w[i + 1] ELSE NoMon
  BY <1>1 DEF IsList
<1>3. /\ k \in 0..Len(w) /\ seen \in [MonCb -> Nat]
      /\ \A i \in 1..Len(w) : seen[w[i]] = IF i <= k THEN Times(w[i], mon) ELSE 0
      /\ cbNext[curr] = IF k < Len(w) THEN w[k + 1] ELSE NoMon
  BY SMTT(30) DEF Walking, monTypeOK
<1>4. CASE k < Len(w)
  <2> DEFINE c == w[k + 1]
  <2>1. k + 1 \in 1..Len(w) /\ c \in MonCb /\ c # NoMon /\ ~(k + 1 <= k)
    BY <1>1, <1>3, <1>4, SMTT(30)
  <2>2. curr' = c /\ seen' = IF Matching(c, mon) THEN [seen EXCEPT ![c] = @ + 1] ELSE seen
    BY <1>3, <1>4, <2>1, SMTT(30) DEF Visit
  <2>3. seen[c] = 0
    BY <1>3, <2>1, SMTT(30)
  <2> HIDE DEF c
  <2>4. /\ seen' \in [MonCb -> Nat] /\ seen'[c] = Times(c, mon)
        /\ \A d \in MonCb : d # c => seen'[d] = seen[d]
    BY <1>3, <2>1, <2>2, <2>3, SMTT(30) DEF Times
  <2>5. \A i \in 1..Len(w) : w[i] = c => i = k + 1
    BY <1>2, <2>1, SMTT(30) DEF c
  <2>6. \A i \in 1..Len(w) : seen'[w[i]] = IF i <= k + 1 THEN Times(w[i], mon) ELSE 0
    <3> SUFFICES ASSUME NEW i \in 1..Len(w)
                 PROVE  seen'[w[i]] = IF i <= k + 1 THEN Times(w[i], mon) ELSE 0
      OBVIOUS
    <3>1. CASE i = k + 1
      BY <2>1, <2>4, <3>1, SMTT(30) DEF c
    <3>2. CASE i # k + 1
      <4>1. i <= k + 1 <=> i <= k
        BY <3>2, SMTT(30)
      <4>2. seen'[w[i]] = seen[w[i]]
        BY <1>1, <2>4, <2>5, <3>2, SMTT(30)
      <4> QED BY <1>3, <4>1, <4>2
    <3> QED BY <3>1, <3>2, SMTT(30)
  <2>7. cbNext[c] = IF k + 1 < Len(w) THEN w[(k + 1) + 1] ELSE NoMon
    BY <1>2, <2>1 DEF c
  <2>8. k + 1 \in 0..Len(w)
    BY <1>1, <2>1, SMTT(30)
  <2> QED BY <2>1, <2>2, <2>4, <2>5, <2>6, <2>7, <2>8, SMTT(30) DEF Walking
<1>5. CASE ~(k < Len(w))
  <2>1. k = Len(w)
    BY <1>1, <1>3, <1>5, SMTT(30)
  <2>2. curr' = NoMon /\ seen' = seen
    BY <1>3, <1>5, SMTT(30) DEF Visit
  <2>3. \A i \in 1..Len(w) : seen[w[i]] = Times(w[i], mon)
    BY <1>1, <1>3, <2>1
  <2>4. \A c \in Range(w) : \E i \in 1..Len(w) : w[i] = c
    BY <1>1, RangeIs, SMTT(30)
  <2> QED BY <1>3, <2>2, <2>3, <2>4, SMTT(30)
<1> QED BY <1>4, <1>5

\* A walk begins at the head.
LEMMA WalkBegins ==
  ASSUME NEW w, MonList(w, cb_list, cbNext), NEW msg, cb_list # NoMon, Visit(cb_list, msg, Nobody)
  PROVE  /\ curr' \in MonCb /\ seen' \in [MonCb -> Nat]
         /\ Walking(w, 1, curr', cbNext, seen', msg)
<1>1. /\ w \in Seq(MonCb) /\ IsList(w, cb_list, cbNext, NoMon) /\ NoMon \notin MonCb
      /\ Len(w) \in Nat /\ \A i \in 1..Len(w) : w[i] \in MonCb
  BY MonitorAssumption DEF MonList
<1>2. /\ \A i, j \in 1..Len(w) : w[i] = w[j] => i = j
      /\ \A i \in 1..Len(w) : cbNext[w[i]] = IF i < Len(w) THEN w[i + 1] ELSE NoMon
      /\ w # <<>> /\ cb_list = w[1]
  BY <1>1 DEF IsList
<1>3. 1 \in 1..Len(w) /\ 1 \in 0..Len(w)
  BY <1>1, <1>2
<1> DEFINE c == w[1]
<1>4. c \in MonCb /\ curr' = c /\ seen' = IF Matching(c, msg) THEN [Nobody EXCEPT ![c] = @ + 1] ELSE Nobody
  BY <1>1, <1>2, <1>3 DEF Visit
<1> HIDE DEF c
<1>5. seen' \in [MonCb -> Nat] /\ seen'[c] = Times(c, msg) /\ \A d \in MonCb : d # c => seen'[d] = 0
  BY <1>4 DEF Nobody, Times
<1>6. \A i \in 1..Len(w) : w[i] = c => i = 1
  BY <1>2, <1>3 DEF c
<1>7. \A i \in 1..Len(w) : seen'[w[i]] = IF i <= 1 THEN Times(w[i], msg) ELSE 0
  <2> SUFFICES ASSUME NEW i \in 1..Len(w)
               PROVE  seen'[w[i]] = IF i <= 1 THEN Times(w[i], msg) ELSE 0
    OBVIOUS
  <2>1. CASE i = 1
    BY <1>5, <2>1 DEF c
  <2>2. CASE i # 1
    BY <1>1, <1>5, <1>6, <2>2
  <2> QED BY <2>1, <2>2, SMTT(30)
<1>8. cbNext[c] = IF 1 < Len(w) THEN w[1 + 1] ELSE NoMon
  BY <1>2, <1>3, SMTT(30) DEF c
<1> QED BY <1>3, <1>4, <1>5, <1>6, <1>7, <1>8, SMTT(30) DEF Walking

\* The block that the walk is at goes.
LEMMA WalkDrops ==
  ASSUME NEW w, MonList(w, cb_list, cbNext), NEW k \in 1..Len(w),
         Walking(w, k, w[k], cbNext, seen, mon), NEW nx, nx[w[k]] = cbNext[w[k]]
  PROVE  /\ k - 1 \in Nat /\ Walking(Without(w, k), k - 1, w[k], nx, seen, mon)
         /\ Range(Without(w, k)) = Range(w) \ {w[k]}
<1>1. /\ w \in Seq(MonCb) /\ IsList(w, cb_list, cbNext, NoMon) /\ NoMon \notin MonCb
      /\ Len(w) \in Nat /\ \A i \in 1..Len(w) : w[i] \in MonCb
  BY MonitorAssumption DEF MonList
<1>2. \A i, j \in 1..Len(w) : w[i] = w[j] => i = j
  BY <1>1 DEF IsList
<1>3. /\ \A i \in 1..Len(w) : seen[w[i]] = IF i <= k THEN Times(w[i], mon) ELSE 0
      /\ cbNext[w[k]] = IF k < Len(w) THEN w[k + 1] ELSE NoMon
  BY DEF Walking
<1> DEFINE r == Without(w, k)
           c == w[k]
           n == Len(w)
<1>4. /\ r \in Seq(MonCb) /\ Len(r) = n - 1
      /\ \A j \in 1..(n - 1) : r[j] = IF j < k THEN w[j] ELSE w[j + 1]
  BY <1>1, WithoutIs, Zenon
<1>5. Range(r) = Range(w) \ {c}
  BY <1>1, <1>2, WithoutRange, Zenon
<1> HIDE DEF r
<1>6. n \in Nat /\ k \in 1..n /\ k - 1 \in 0..Len(r) /\ k - 1 \in Nat /\ (k - 1) + 1 = k
  BY <1>1, <1>4, SMTT(30)
<1>7. \A i \in 1..Len(r) : seen[r[i]] = IF i <= k - 1 THEN Times(r[i], mon) ELSE 0
  <2> SUFFICES ASSUME NEW i \in 1..Len(r)
               PROVE  seen[r[i]] = IF i <= k - 1 THEN Times(r[i], mon) ELSE 0
    OBVIOUS
  <2>3. i \in 1..(n - 1)
    BY <1>4, SMTT(30)
  <2>1. CASE i < k
    <3>1. r[i] = w[i] /\ i \in 1..n /\ i <= k /\ i <= k - 1
      BY <1>4, <1>6, <2>1, <2>3, SMTT(30)
    <3> QED BY <1>3, <3>1, SMTT(30)
  <2>2. CASE ~(i < k)
    <3>1. r[i] = w[i + 1] /\ i + 1 \in 1..n /\ ~(i + 1 <= k) /\ ~(i <= k - 1)
      BY <1>4, <1>6, <2>2, <2>3, SMTT(30)
    <3> QED BY <1>3, <3>1, SMTT(30)
  <2> QED BY <2>1, <2>2, SMTT(30)
<1>8. nx[c] = IF k - 1 < Len(r) THEN r[(k - 1) + 1] ELSE NoMon
  <2>1. CASE k < n
    <3>1. r[k] = w[k + 1] /\ k - 1 < Len(r)
      BY <1>4, <1>6, <2>1, SMTT(30)
    <3> QED BY <1>3, <1>6, <2>1, <3>1, SMTT(30)
  <2>2. CASE ~(k < n)
    <3>1. ~(k - 1 < Len(r))
      BY <1>4, <1>6, <2>2, SMTT(30)
    <3> QED BY <1>3, <2>2, <3>1, SMTT(30)
  <2> QED BY <2>1, <2>2, SMTT(30)
<1>9. \A i \in 1..Len(r) : r[i] # c
  BY <1>1, <1>4, <1>5, RangeIs, Zenon
<1> QED BY <1>5, <1>6, <1>7, <1>8, <1>9, SMTT(30) DEF Walking, r

\* A module keeps one block, as the modules of the repository do.
OneBlock == \A c, d \in MonCb : CbModule[c] = CbModule[d] => c = d

\* What is left of a list of live blocks without one of them.
LEMMA LiveLeft ==
  ASSUME NEW w \in Seq(MonCb), NEW k \in 1..Len(w), \A i \in 1..Len(w) : CbModule[w[i]] \in live,
         \A i, j \in 1..Len(w) : w[i] = w[j] => i = j
  PROVE  \A i \in 1..Len(Without(w, k)) : /\ CbModule[Without(w, k)[i]] \in live
                                           /\ \E j \in 1..Len(w) : j # k /\ Without(w, k)[i] = w[j]
<1> DEFINE r == Without(w, k)
<1>1. r \in Seq(MonCb) /\ Range(r) = Range(w) \ {w[k]}
  BY WithoutIs, WithoutRange, Zenon
<1> HIDE DEF r
<1>2. \A i \in 1..Len(r) : r[i] \in Range(w) /\ r[i] # w[k]
  BY <1>1, RangeIs, ZenonT(30)
<1>3. \A i \in 1..Len(r) : \E j \in 1..Len(w) : j # k /\ r[i] = w[j]
  <2>1. \A c \in Range(w) : \E j \in 1..Len(w) : c = w[j]
    BY RangeIs
  <2> QED BY <1>2, <2>1
<1> QED BY <1>3 DEF r

\* Every step keeps the list, and the place of a walk in it.
LEMMA MonStep == ASSUME OneBlock, MonInv, [servNext]_servVars PROVE MonInv'
<1>1. PICK w : /\ MonList(w, cb_list, cbNext)
               /\ \A i \in 1..Len(w) : CbModule[w[i]] \in live
               /\ curr # NoMon => throughout = Range(w) /\ \E k \in Nat : Walking(w, k, curr, cbNext, seen, mon)
  BY DEF MonInv
<1>2. /\ w \in Seq(MonCb) /\ IsList(w, cb_list, cbNext, NoMon) /\ NoMon \notin MonCb
      /\ Len(w) \in Nat /\ \A i \in 1..Len(w) : w[i] \in MonCb
      /\ \A i, j \in 1..Len(w) : w[i] = w[j] => i = j
  BY <1>1, MonitorAssumption, SMTT(30) DEF MonList, IsList
<1>3. monTypeOK /\ MonitorOnce
  BY SMTT(30) DEF MonInv
<1>4. /\ List = w /\ OnList = Range(w) /\ OnList \subseteq MonCb
      /\ \A c \in OnList : \E i \in 1..Len(w) : w[i] = c
  BY <1>1, MonOnList, SMTT(30)
<1>5. CASE MonitorRegister
  <2>1. PICK c \in MonCb : ker_register_monitor(c) /\ UNCHANGED OtherThanMon
    BY <1>5 DEF MonitorRegister
  <2>2. /\ live' = live /\ curr' = curr /\ mon' = mon /\ seen' = seen /\ throughout' = throughout
        /\ CbModule[c] \in live /\ c \notin OnList /\ curr = NoMon
        /\ IF cb_list = NoMon THEN cb_list' = c /\ cbNext' = [cbNext EXCEPT ![c] = NoMon]
           ELSE /\ cbNext' = [cbNext EXCEPT ![c] = NoMon, ![List[Len(List)]] = c]
                /\ cb_list' = cb_list
    BY <1>3, <2>1 DEF ker_register_monitor, OtherThanMon, OneBlock, monTypeOK
  <2>3. /\ MonList(Append(w, c), cb_list', cbNext') /\ cb_list' \in MonCb
        /\ cbNext' \in [MonCb -> MonCb \cup {NoMon}]
    BY <1>1, <1>3, <2>2, LinkStep, SMTT(30) DEF monTypeOK
  <2>4. \A i \in 1..Len(Append(w, c)) : CbModule[Append(w, c)[i]] \in live'
    BY <1>1, <1>2, <2>2, SMTT(30)
  <2>5. monTypeOK'
    BY <1>3, <2>2, <2>3, SMTT(30) DEF monTypeOK
  <2>6. MonitorOnce'
    BY <1>3, <2>2, SMTT(30) DEF MonitorOnce
  <2> QED BY <2>2, <2>3, <2>4, <2>5, <2>6, Zenon DEF MonInv
<1>6. ASSUME NEW k \in 1..Len(w), Drop(w[k])
      PROVE  /\ MonList(Without(w, k), cb_list', cbNext')
             /\ cbNext'[w[k]] = cbNext[w[k]] /\ cbNext' \in [MonCb -> MonCb \cup {NoMon}]
             /\ cb_list' \in MonCb \cup {NoMon} /\ throughout' = throughout \ {w[k]}
             /\ \A i \in 1..Len(Without(w, k)) :
                  /\ CbModule[Without(w, k)[i]] \in live
                  /\ \E j \in 1..Len(w) : j # k /\ Without(w, k)[i] = w[j]
  <2>1. cbNext \in [MonCb -> MonCb \cup {NoMon}]
    BY <1>3 DEF monTypeOK
  <2>2. /\ MonList(Without(w, k), cb_list', cbNext')
        /\ cbNext'[w[k]] = cbNext[w[k]] /\ cbNext' \in [MonCb -> MonCb \cup {NoMon}]
        /\ cb_list' \in MonCb \cup {NoMon}
    BY <1>1, <1>6, <2>1, DropStep, Zenon
  <2>3. throughout' = throughout \ {w[k]}
    BY <1>6 DEF Drop
  <2>4. \A i \in 1..Len(Without(w, k)) :
          /\ CbModule[Without(w, k)[i]] \in live
          /\ \E j \in 1..Len(w) : j # k /\ Without(w, k)[i] = w[j]
    BY <1>1, <1>2, LiveLeft, Zenon
  <2> QED BY <2>2, <2>3, <2>4
<1>7. CASE MonitorDeregister
  <2>1. PICK c \in MonCb : ker_deregister_monitor(c) /\ UNCHANGED OtherThanMon
    BY <1>7 DEF MonitorDeregister
  <2>2. /\ live' = live /\ curr' = curr /\ mon' = mon /\ seen' = seen
        /\ c \in OnList /\ Drop(c) /\ (curr # NoMon => c = curr)
    BY <1>3, <2>1 DEF ker_deregister_monitor, OtherThanMon, OneBlock, monTypeOK
  <2>3. PICK k \in 1..Len(w) : w[k] = c
    BY <1>4, <2>2, SMTT(30)
  <2>4. /\ MonList(Without(w, k), cb_list', cbNext')
        /\ cbNext'[w[k]] = cbNext[w[k]] /\ cbNext' \in [MonCb -> MonCb \cup {NoMon}]
        /\ cb_list' \in MonCb \cup {NoMon} /\ throughout' = throughout \ {w[k]}
        /\ \A i \in 1..Len(Without(w, k)) : CbModule[Without(w, k)[i]] \in live
    BY <1>6, <2>2, <2>3, SMTT(30)
  <2>5. monTypeOK' /\ MonitorOnce'
    BY <1>3, <2>2, <2>4, SMTT(30) DEF monTypeOK, MonitorOnce
  <2>6. curr # NoMon => /\ throughout' = Range(Without(w, k))
                        /\ \E j \in Nat : Walking(Without(w, k), j, curr, cbNext', seen, mon)
    <3> SUFFICES ASSUME curr # NoMon
                 PROVE  /\ throughout' = Range(Without(w, k))
                        /\ \E j \in Nat : Walking(Without(w, k), j, curr, cbNext', seen, mon)
      OBVIOUS
    <3>1. PICK j \in Nat : Walking(w, j, curr, cbNext, seen, mon)
      BY <1>1
    <3>2. curr = w[k] /\ j = k
      BY <2>2, <2>3, <3>1, SMTT(30) DEF Walking
    <3>3. /\ k - 1 \in Nat /\ Walking(Without(w, k), k - 1, w[k], cbNext', seen, mon)
          /\ Range(Without(w, k)) = Range(w) \ {w[k]}
      BY <1>1, <2>4, <3>1, <3>2, WalkDrops, SMTT(30)
    <3> QED BY <1>1, <2>4, <3>2, <3>3, SMTT(30)
  <2> QED BY <2>2, <2>4, <2>5, <2>6, SMTT(30) DEF MonInv
<1>8. CASE DeliverBegin
  <2>1. PICK t \in {"local", "outgoing"}, o \in Module \cup {NULL_PID} :
          deliver_begin([type |-> t, other |-> o]) /\ UNCHANGED OtherThanMon
    BY <1>8 DEF DeliverBegin
  <2> DEFINE msg == [type |-> t, other |-> o]
  <2>2. /\ live' = live /\ cb_list' = cb_list /\ cbNext' = cbNext /\ cb_list # NoMon
        /\ mon' = msg /\ throughout' = Range(w) /\ Visit(cb_list, msg, Nobody)
    BY <1>4, <2>1, SMTT(30) DEF deliver_begin, OtherThanMon
  <2>3. /\ curr' \in MonCb /\ seen' \in [MonCb -> Nat]
        /\ Walking(w, 1, curr', cbNext, seen', msg)
    BY <1>1, <2>2, WalkBegins, SMTT(30)
  <2>4. monTypeOK'
    BY <1>2, <1>3, <1>4, <2>2, <2>3, SMTT(30) DEF monTypeOK
  <2>5. MonitorOnce'
    BY <1>2, <2>3, SMTT(30) DEF MonitorOnce
  <2> HIDE DEF msg
  <2> QED BY <1>1, <2>2, <2>3, <2>4, <2>5, SMTT(30) DEF MonInv
<1>9. CASE DeliverStep
  <2>1. /\ live' = live /\ cb_list' = cb_list /\ cbNext' = cbNext /\ mon' = mon
        /\ throughout' = throughout /\ curr # NoMon /\ Visit(cbNext[curr], mon, seen)
    BY <1>9, SMTT(30) DEF DeliverStep, deliver_step, OtherThanMon
  <2>2. PICK k \in Nat : Walking(w, k, curr, cbNext, seen, mon)
    BY <1>1, <2>1, SMTT(30)
  <2>3. /\ curr' \in MonCb \cup {NoMon} /\ seen' \in [MonCb -> Nat]
        /\ curr' # NoMon => Walking(w, k + 1, curr', cbNext, seen', mon)
        /\ curr' = NoMon => \A c \in Range(w) : seen'[c] = Times(c, mon)
    BY <1>1, <1>3, <2>1, <2>2, WalkOn, SMTT(30)
  <2>4. monTypeOK'
    BY <1>3, <2>1, <2>3, SMTT(30) DEF monTypeOK
  <2>5. MonitorOnce'
    BY <1>1, <2>1, <2>3 DEF MonitorOnce, Times, Matching
  <2>6. k + 1 \in Nat
    OBVIOUS
  <2> QED BY <1>1, <2>1, <2>3, <2>4, <2>5, <2>6, SMTT(30) DEF MonInv
<1>10. CASE Unload
  <2>1. PICK m \in Module \ Kernel : deregister_module(m)
    BY <1>10 DEF Unload
  <2>2. /\ curr = NoMon /\ curr' = curr /\ mon' = mon /\ seen' = seen /\ live' = live \ {m}
        /\ monitor_remove_all(m)
    BY <2>1 DEF deregister_module
  <2> DEFINE mine == {i \in 1..Len(w) : CbModule[w[i]] = m}
  <2>3. IF mine = {} THEN UNCHANGED <<cb_list, cbNext, throughout>> ELSE Drop(w[Min(mine)])
    <3>1. DOMAIN w = 1..Len(w)
      BY <1>2, SMTT(30)
    <3> QED BY <1>4, <2>2, <3>1, Zenon DEF monitor_remove_all
  <2>4. CASE mine = {}
    <3>1. cb_list' = cb_list /\ cbNext' = cbNext /\ throughout' = throughout
      BY <2>3, <2>4, SMTT(30)
    <3>2. \A i \in 1..Len(w) : CbModule[w[i]] \in live'
      BY <1>1, <2>2, <2>4, SMTT(30)
    <3>3. monTypeOK' /\ MonitorOnce'
      BY <1>3, <2>2, <3>1, SMTT(30) DEF monTypeOK, MonitorOnce
    <3> QED BY <1>1, <2>2, <3>1, <3>2, <3>3, SMTT(30) DEF MonInv
  <2>5. CASE mine # {}
    <3> DEFINE k == Min(mine)
    <3>1. k \in 1..Len(w) /\ CbModule[w[k]] = m
      <4>1. mine \subseteq Nat
        OBVIOUS
      <4>2. k \in mine
        <5> HIDE DEF mine
        <5> QED BY <2>5, <4>1, MinOf, ZenonT(30)
      <4> QED BY <4>2
    <3>2. Drop(w[k])
      BY <2>3, <2>5, Zenon
    <3> HIDE DEF k
    <3>3. /\ MonList(Without(w, k), cb_list', cbNext')
          /\ cbNext' \in [MonCb -> MonCb \cup {NoMon}]
          /\ cb_list' \in MonCb \cup {NoMon} /\ throughout' = throughout \ {w[k]}
          /\ \A i \in 1..Len(Without(w, k)) :
               /\ CbModule[Without(w, k)[i]] \in live
               /\ \E j \in 1..Len(w) : j # k /\ Without(w, k)[i] = w[j]
      BY <1>6, <3>1, <3>2
    <3>4. \A i \in 1..Len(Without(w, k)) : CbModule[Without(w, k)[i]] \in live'
      <4>1. \A j \in 1..Len(w) : CbModule[w[j]] = m => j = k
        BY <1>2, <3>1, SMTT(30) DEF OneBlock
      <4> QED BY <2>2, <3>3, <4>1
    <3>5. monTypeOK' /\ MonitorOnce'
      BY <1>3, <2>2, <3>3, SMTT(30) DEF monTypeOK, MonitorOnce
    <3> QED BY <2>2, <3>3, <3>4, <3>5, ZenonT(30) DEF MonInv
  <2> QED BY <2>4, <2>5
<1>11. ASSUME UNCHANGED monVars, live \subseteq live' PROVE MonInv'
  <2>1. /\ cb_list' = cb_list /\ cbNext' = cbNext /\ curr' = curr /\ mon' = mon
        /\ seen' = seen /\ throughout' = throughout
    BY <1>11 DEF monVars
  <2>2. monTypeOK' /\ MonitorOnce'
    BY <1>3, <2>1, SMTT(30) DEF monTypeOK, MonitorOnce
  <2>3. \A i \in 1..Len(w) : CbModule[w[i]] \in live'
    BY <1>1, <1>11
  <2>4. /\ MonList(w, cb_list', cbNext')
        /\ curr' # NoMon => /\ throughout' = Range(w)
                            /\ \E k \in Nat : Walking(w, k, curr', cbNext', seen', mon')
    BY <1>1, <2>1, ZenonT(30)
  <2> QED BY <2>2, <2>3, <2>4, ZenonT(30) DEF MonInv
<1>12. CASE UNCHANGED servVars \/ Load
  BY <1>11, <1>12 DEF servVars, Load, register_module
<1>13. CASE Subscribe \/ DfuncRemoved
  BY <1>11, <1>13 DEF Subscribe, DfuncRemoved, OtherThanFn
<1>14. CASE SensorRegister \/ SensorDeregister \/ SensorGetData \/ SensorDataReady
  BY <1>11, <1>14 DEF SensorRegister, SensorDeregister, SensorGetData, SensorDataReady, OtherThanSens
<1>15. CASE ShmOpen \/ ShmUpdate \/ ShmClose \/ ShmWait \/ ShmStopwait
  BY <1>11, <1>15 DEF ShmOpen, ShmUpdate, ShmClose, ShmWait, ShmStopwait, OtherThanShm
<1> QED BY <1>5, <1>7, <1>8, <1>9, <1>10, <1>12, <1>13, <1>14, <1>15 DEF servNext

\* If a module keeps one monitor block: the list of kernel/monitor.c leads only to
\* blocks of modules that are loaded, and a delivery runs the handler of every block
\* that stays on the list exactly once, also when the block it is at takes itself off
\* the list and the walk goes on from its stale pointer.
THEOREM MonitorsAreSound == ASSUME OneBlock PROVE servSpec => []MonitorsSound
<1>1. servInit => MonInv
  <2> SUFFICES ASSUME servInit PROVE MonInv
    OBVIOUS
  <2>1. MonList(<<>>, cb_list, cbNext)
    BY DEF servInit, monInit, MonList, IsList
  <2>2. monTypeOK /\ MonitorOnce /\ curr = NoMon
    BY DEF servInit, monInit, monTypeOK, MonitorOnce, Nobody
  <2>3. \A i \in 1..Len(<<>>) : CbModule[<<>>[i]] \in live
    OBVIOUS
  <2> QED BY <2>1, <2>2, <2>3 DEF MonInv
<1>2. MonInv => MonitorsSound
  <2> SUFFICES ASSUME MonInv PROVE MonitorsLive
    BY SMTT(30) DEF MonitorsSound, MonInv
  <2>1. PICK w : MonList(w, cb_list, cbNext) /\ \A i \in 1..Len(w) : CbModule[w[i]] \in live
    BY DEF MonInv
  <2>2. List = w /\ \A c \in OnList : \E i \in 1..Len(w) : w[i] = c
    BY <2>1, MonOnList
  <2>3. w \in Seq(MonCb) /\ \A i, j \in 1..Len(w) : w[i] = w[j] => i = j
    BY <2>1 DEF MonList, IsList
  <2> QED BY <2>1, <2>2, <2>3, SMTT(30) DEF MonitorsLive
<1> QED BY <1>1, <1>2, MonStep, PTL DEF servSpec
================================================================================
