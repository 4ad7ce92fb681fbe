----------------------------- MODULE RegistryProofs ----------------------------
(***************************************************************************)
(* Proofs about the module registry of kernel/sched.c, for any number of   *)
(* modules, threads, control blocks and bins.                              *)
(***************************************************************************)
EXTENDS Registry, ListProofs

--------------------------------------------------------------------------------
\* The module registry.  The sequence ch[b] is the chain of bin b: it ends, each of
\* its blocks holds an id of the bin, and no id is there twice.
IsChain(s, b, bn, nx, ids) ==
  /\ s \in Seq(Slot) /\ IsList(s, bn[b], nx, NULL)
  /\ \A i \in 1..Len(s) : ids[s[i]] \in Pid /\ hash_pid(ids[s[i]]) = b
  /\ \A i, j \in 1..Len(s) : ids[s[i]] = ids[s[j]] => i = j

AreChains(ch, bn, nx, ids) == ch \in [Bin -> Seq(Slot)] /\ \A b \in Bin : IsChain(ch[b], b, bn, nx, ids)

\* Block s is on a chain.
On(ch, s) == \E b \in Bin : s \in Range(ch[b])

\* The deregistration f that waits for its MSG_FINAL handler knows its block and the
\* one before.
Leaving(ch, f) ==
  \E b \in Bin : \E i \in 1..Len(ch[b]) :
    /\ f.handle = ch[b][i]
    /\ f.prev = IF i = 1 THEN NULL ELSE ch[b][i - 1]
    /\ pid[f.handle] # LOADER

\* The blocks in use are those on a chain, the loader's is one of them, the ids of the
\* threads among them are taken, and at most one module is leaving.
RegOK(ch) ==
  /\ AreChains(ch, bin, next, pid)
  /\ \A s \in Slot : s \in alloc <=> On(ch, s)
  /\ \A s \in alloc : pid[s] \in Thread => pid[s] \in pool
  /\ 0 \in alloc /\ pid[0] = LOADER
  /\ Len(final) <= 1 /\ (final # <<>> => Leaving(ch, final[1]))

RegInv == TypeOK /\ \E ch : RegOK(ch)

\* The constants, and the bin of an id.
LEMMA RegConst == /\ SLOTS \in Nat /\ BINS \in Nat \ {0} /\ NULL \notin Slot
                  /\ NULL \notin Pid /\ Thread \subseteq Nat /\ Pid \subseteq Nat
                  /\ IsFiniteSet(Slot) /\ Cardinality(Slot) = SLOTS + 1
                  /\ \A p \in Pid : hash_pid(p) \in Bin
<1>1. SLOTS \in Nat /\ BINS \in Nat \ {0} /\ Thread \subseteq Nat /\ Pid \subseteq Nat
  BY RegistryAssumption DEF Pid
<1>2. IsFiniteSet(Slot) /\ Cardinality(Slot) = SLOTS + 1
  <2>1. 0 \in Int /\ SLOTS \in Int /\ SLOTS - 0 + 1 = SLOTS + 1 /\ ~ 0 > SLOTS
    BY <1>1
  <2> QED BY <2>1, FS_Interval DEF Slot
<1>3. \A p \in Pid : hash_pid(p) \in Bin
  BY <1>1 DEF hash_pid, Bin
<1> QED BY <1>1, <1>2, <1>3 DEF Slot, NULL

\* What the walk along a chain meets.
LEMMA ChainIs ==
  ASSUME NEW ids, NEW nx, NEW b \in Bin, NEW s, IsChain(s, b, bin, nx, ids)
  PROVE  /\ ChainOf(nx, b) = s /\ s \in Seq(Slot) /\ Len(s) \in Nat /\ Len(s) <= SLOTS + 1
         /\ \A i \in 1..Len(s) : s[i] \in Slot
<1>1. /\ s \in Seq(Slot) /\ IsList(s, bin[b], nx, NULL)
      /\ \A i, j \in 1..Len(s) : s[i] = s[j] => i = j
  BY DEF IsChain, IsList
<1>2. Len(s) <= SLOTS + 1
  BY <1>1, RegConst, InjectiveLen
<1>3. SLOTS + 1 \in Nat /\ Len(s) <= (SLOTS + 1) + 1
  BY <1>1, <1>2, RegConst
<1>4. ChainOf(nx, b) = s
  BY <1>1, <1>3, RegConst, ListFromList DEF ChainOf
<1> QED BY <1>1, <1>2, <1>4

\* What ker_get_module returns: NULL only if the id is on no chain.
LEMMA GetIs ==
  ASSUME NEW ids, NEW nx, NEW p \in Pid, NEW s, cache \in Slot \cup {NULL},
         IsChain(s, hash_pid(p), bin, nx, ids)
  PROVE  /\ Get(ids, nx, p) \in Slot \cup {NULL} /\ Cached(ids, nx, p) \in Slot \cup {NULL}
         /\ PlacesOf(ids, nx, p) = {i \in 1..Len(s) : ids[s[i]] = p}
         /\ Get(ids, nx, p) = NULL => \A i \in 1..Len(s) : ids[s[i]] # p
<1>1. /\ ChainOf(nx, hash_pid(p)) = s /\ s \in Seq(Slot) /\ Len(s) \in Nat
      /\ \A i \in 1..Len(s) : s[i] \in Slot
  BY RegConst, ChainIs
<1> DEFINE K == {i \in 1..Len(s) : ids[s[i]] = p}
<1>2. PlacesOf(ids, nx, p) = K
  BY <1>1 DEF PlacesOf
<1>3. CASE K = {}
  <2>1. Get(ids, nx, p) \in Slot \cup {NULL}
    BY <1>2, <1>3 DEF Get
  <2> QED BY <1>2, <1>3, <2>1 DEF Cached
<1>4. CASE K # {}
  <2>1. K \subseteq Nat
    BY <1>1
  <2>2. Min(K) \in K
    <3> HIDE DEF K
    <3> QED BY <1>4, <2>1, MinOf, Zenon
  <2>3. s[Min(K)] \in Slot
    BY <1>1, <2>2
  <2>4. Get(ids, nx, p) \in Slot
    <3> HIDE DEF K
    <3> QED BY <1>1, <1>2, <1>4, <2>3 DEF Get
  <2> QED BY <1>2, <2>4, RegConst DEF Cached
<1> QED BY <1>3, <1>4

\* A block is at one place of one chain, and so is an id.
LEMMA OnePlace ==
  ASSUME NEW ch, NEW bn, NEW nx, NEW ids, AreChains(ch, bn, nx, ids),
         NEW b \in Bin, NEW d \in Bin, NEW i \in 1..Len(ch[b]), NEW j \in 1..Len(ch[d]),
         ids[ch[b][i]] = ids[ch[d][j]]
  PROVE  b = d /\ i = j
BY DEF AreChains, IsChain

\* A chain whose blocks keep their ids and pointers, in a bin that keeps its head,
\* stays a chain.
LEMMA ChainStays ==
  ASSUME NEW s, NEW b, NEW bn, NEW nx, NEW ids, IsChain(s, b, bn, nx, ids),
         NEW bn2, NEW nx2, NEW ids2, bn2[b] = bn[b],
         \A i \in 1..Len(s) : nx2[s[i]] = nx[s[i]] /\ ids2[s[i]] = ids[s[i]]
  PROVE  IsChain(s, b, bn2, nx2, ids2)
<1>1. /\ s \in Seq(Slot) /\ bn[b] = IF s = <<>> THEN NULL ELSE s[1]
      /\ \A i \in 1..Len(s) : /\ s[i] # NULL /\ nx[s[i]] = IF i < Len(s) THEN s[i + 1] ELSE NULL
                              /\ ids[s[i]] \in Pid /\ hash_pid(ids[s[i]]) = b
      /\ \A i, j \in 1..Len(s) : s[i] = s[j] => i = j
      /\ \A i, j \in 1..Len(s) : ids[s[i]] = ids[s[j]] => i = j
  BY DEF IsChain, IsList
<1>2. IsList(s, bn2[b], nx2, NULL)
  BY <1>1 DEF IsList
<1>3. /\ \A i \in 1..Len(s) : ids2[s[i]] \in Pid /\ hash_pid(ids2[s[i]]) = b
      /\ \A i, j \in 1..Len(s) : ids2[s[i]] = ids2[s[j]] => i = j
  BY <1>1
<1> QED BY <1>1, <1>2, <1>3 DEF IsChain

\* Block h is linked in at the head of bin b, where its id is not.
Pushed(s, t, b, bn, nx, ids, h, bn2, nx2) ==
  /\ s = <<h>> \o t
  /\ IsChain(t, b, bn, nx, ids) /\ h \in Slot /\ bn2[b] = h /\ nx2[h] = bn[b]
  /\ \A i \in 1..Len(t) : t[i] # h /\ nx2[t[i]] = nx[t[i]]
  /\ ids[h] \in Pid /\ hash_pid(ids[h]) = b /\ \A i \in 1..Len(t) : ids[t[i]] # ids[h]

\* Then the chain with h in front is the chain of the bin.
LEMMA PushChain ==
  ASSUME NEW s, NEW t, NEW b, NEW bn, NEW nx, NEW ids, NEW h, NEW bn2, NEW nx2,
         Pushed(s, t, b, bn, nx, ids, h, bn2, nx2)
  PROVE  IsChain(s, b, bn2, nx2, ids) /\ s \in Seq(Slot) /\ Range(s) = Range(t) \cup {h}
<1>0. /\ s = <<h>> \o t /\ IsChain(t, b, bn, nx, ids) /\ h \in Slot /\ bn2[b] = h /\ nx2[h] = bn[b]
      /\ \A i \in 1..Len(t) : t[i] # h /\ nx2[t[i]] = nx[t[i]]
      /\ ids[h] \in Pid /\ hash_pid(ids[h]) = b /\ \A i \in 1..Len(t) : ids[t[i]] # ids[h]
  BY DEF Pushed
<1>1. /\ t \in Seq(Slot) /\ Len(t) \in Nat /\ IsList(t, bn[b], nx, NULL)
      /\ \A i \in 1..Len(t) : ids[t[i]] \in Pid /\ hash_pid(ids[t[i]]) = b
      /\ \A i, j \in 1..Len(t) : ids[t[i]] = ids[t[j]] => i = j
  BY <1>0 DEF IsChain
<1>2. /\ IsList(s, h, nx2, NULL) /\ s \in Seq(Slot)
      /\ Len(s) = Len(t) + 1 /\ s[1] = h /\ \A i \in 2..(Len(t) + 1) : s[i] = t[i - 1]
  <2>1. NULL \notin Slot /\ (\A i \in 1..Len(t) : t[i] # h) /\ \A i \in 1..Len(t) : nx2[t[i]] = nx[t[i]]
    BY <1>0, RegConst
  <2> QED BY <1>0, <1>1, <2>1, PushList
<1>3. \A i \in 1..Len(s) : i = 1 \/ (i - 1 \in 1..Len(t) /\ s[i] = t[i - 1])
  <2>1. \A n \in Nat : \A i \in 1..(n + 1) : i = 1 \/ (i - 1 \in 1..n /\ i \in 2..(n + 1))
    OBVIOUS
  <2> QED BY <1>1, <1>2, <2>1, Zenon
<1>4. \A i \in 1..Len(s) : ids[s[i]] \in Pid /\ hash_pid(ids[s[i]]) = b
  <2> SUFFICES ASSUME NEW i \in 1..Len(s) PROVE ids[s[i]] \in Pid /\ hash_pid(ids[s[i]]) = b
    OBVIOUS
  <2>1. CASE i = 1
    BY <1>0, <1>2, <2>1
  <2>2. CASE i # 1
    BY <1>1, <1>3, <2>2
  <2> QED BY <2>1, <2>2
<1>5. ASSUME NEW i \in 1..Len(s), NEW j \in 1..Len(s), ids[s[i]] = ids[s[j]] PROVE i = j
  <2>1. CASE i = 1
    BY <1>0, <1>2, <1>3, <1>5, <2>1
  <2>3. CASE j = 1
    BY <1>0, <1>2, <1>3, <1>5, <2>3
  <2>2. CASE i # 1 /\ j # 1
    <3>1. i - 1 \in 1..Len(t) /\ j - 1 \in 1..Len(t) /\ ids[t[i - 1]] = ids[t[j - 1]]
      BY <1>3, <1>5, <2>2
    <3>2. i - 1 = j - 1
      BY <1>1, <3>1, Zenon
    <3> QED BY <3>2
  <2> QED BY <2>1, <2>2, <2>3
<1>6. ASSUME NEW i \in 1..Len(t) PROVE i + 1 \in 1..Len(s) /\ s[i + 1] = t[i]
  BY <1>1, <1>2
<1>7. 1 \in 1..Len(s)
  BY <1>1, <1>2
<1>8. Range(s) = Range(t) \cup {h}
  <2>1. ASSUME NEW x \in Range(s) PROVE x \in Range(t) \cup {h}
    <3>1. PICK i \in 1..Len(s) : x = s[i]
      BY <1>2, RangeIs
    <3> QED BY <1>1, <1>2, <1>3, <3>1, RangeIs, Zenon
  <2>2. ASSUME NEW x \in Range(t) PROVE x \in Range(s)
    <3>1. PICK i \in 1..Len(t) : x = t[i]
      BY <1>1, RangeIs
    <3> QED BY <1>2, <1>6, <3>1, RangeIs, Zenon
  <2>3. h \in Range(s)
    BY <1>2, <1>7, RangeIs
  <2> QED BY <2>1, <2>2, <2>3
<1>9. IsChain(s, b, bn2, nx2, ids)
  BY <1>0, <1>2, <1>4, <1>5 DEF IsChain
<1> QED BY <1>2, <1>8, <1>9

\* sched_slab has a block that is not on a chain as long as one is left.
LEMMA NewSlotIs ==
  ASSUME alloc \subseteq Slot, 0 \in alloc, Cardinality(alloc) <= SLOTS
  PROVE  NewSlot \in Slot /\ NewSlot \notin alloc
<1>1. (1..SLOTS) \ alloc # {}
  <2> SUFFICES ASSUME (1..SLOTS) \ alloc = {} PROVE FALSE
    OBVIOUS
  <2>1. \A s \in Slot : s = 0 \/ s \in 1..SLOTS
    BY RegConst DEF Slot
  <2>2. alloc = Slot
    BY <2>1
  <2>3. ~(SLOTS + 1 <= SLOTS)
    BY RegConst
  <2> QED BY <2>2, <2>3, RegConst
<1>2. (1..SLOTS) \ alloc \subseteq Nat
  BY RegConst
<1>3. NewSlot \in (1..SLOTS) \ alloc
  BY <1>1, <1>2, MinOf, Zenon DEF NewSlot
<1> QED BY <1>3, RegConst DEF Slot

\* The blocks on the chains are those in use.
LEMMA LinkedIs == ASSUME NEW ch, RegOK(ch), TypeOK PROVE Linked = alloc
<1>1. /\ AreChains(ch, bin, next, pid) /\ \A s \in Slot : s \in alloc <=> On(ch, s)
      /\ alloc \subseteq Slot
  BY DEF RegOK, TypeOK
<1>2. \A b \in Bin : Chain(b) = ch[b] /\ ch[b] \in Seq(Slot)
  BY <1>1, ChainIs, Zenon DEF Chain, AreChains
<1>3. \A b \in Bin : /\ Range(ch[b]) = {Chain(b)[i] : i \in 1..Len(Chain(b))}
                     /\ Range(ch[b]) \subseteq Slot
  BY <1>2 DEF Range
<1>5. ASSUME NEW s PROVE s \in Linked <=> On(ch, s) /\ s \in Slot
  <2>1. s \in Linked <=> \E b \in Bin : s \in {Chain(b)[i] : i \in 1..Len(Chain(b))}
    BY Zenon DEF Linked
  <2> QED BY <1>3, <2>1, Zenon DEF On
<1> QED BY <1>1, <1>5

\* do_register_module: the new block comes to the head of its bin, or nothing is
\* linked.
LEMMA RegisterStep ==
  ASSUME "init" \notin Failures, TypeOK, NEW ch, RegOK(ch), final = <<>>, NEW p \in Pid,
         do_register_module(p), pool \subseteq pool', pool' \subseteq Thread,
         p \in Thread => p \in pool'
  PROVE  TypeOK' /\ \E c : RegOK(c)'
<1>1. /\ AreChains(ch, bin, next, pid) /\ \A s \in Slot : s \in alloc <=> On(ch, s)
      /\ \A s \in alloc : pid[s] \in Thread => pid[s] \in pool
      /\ 0 \in alloc /\ pid[0] = LOADER
  BY DEF RegOK
<1>2. /\ bin \in [Bin -> Slot \cup {NULL}] /\ next \in [Slot -> Slot \cup {NULL}]
      /\ pid \in [Slot -> Pid \cup {NULL}] /\ alloc \subseteq Slot
      /\ cache \in Slot \cup {NULL} /\ pool \subseteq Thread /\ cur \in Pid \cup {NULL}
  BY DEF TypeOK
<1>3. cur' \in Pid \cup {NULL} /\ final' = <<>>
  BY <1>2 DEF do_register_module, Called
<1>4. CASE UNCHANGED <<bin, next, pid, alloc, cache>>
  <2>1. TypeOK'
    BY <1>2, <1>3, <1>4 DEF TypeOK
  <2>2. RegOK(ch)'
    BY <1>1, <1>3, <1>4 DEF RegOK
  <2> QED BY <2>1, <2>2
<1>h. PICK h : h = NewSlot
  OBVIOUS
<1> DEFINE ids == [pid EXCEPT ![h] = p]
           nx == [next EXCEPT ![h] = NULL]
<1>5. CASE pid' = ids /\ cache' = Cached(ids, nx, p) /\ sched_register_module(h, p, ids, nx)
  <2>1. h \in Slot /\ h \notin alloc
    BY <1>1, <1>2, <1>h, NewSlotIs DEF do_register_module
  <2>2. /\ ids \in [Slot -> Pid \cup {NULL}] /\ nx \in [Slot -> Slot \cup {NULL}]
        /\ ids[h] = p /\ \A s \in Slot : s # h => ids[s] = pid[s] /\ nx[s] = next[s]
    BY <1>2, <2>1
  <2> HIDE DEF ids, nx
  <2>3. \A b \in Bin : /\ ch[b] \in Seq(Slot) /\ Len(ch[b]) \in Nat
                       /\ IsChain(ch[b], b, bin, next, pid)
                       /\ \A i \in 1..Len(ch[b]) : ch[b][i] \in Slot /\ ch[b][i] # h
    <3> SUFFICES ASSUME NEW b \in Bin
                 PROVE  /\ ch[b] \in Seq(Slot) /\ Len(ch[b]) \in Nat
                        /\ IsChain(ch[b], b, bin, next, pid)
                        /\ \A i \in 1..Len(ch[b]) : ch[b][i] \in Slot /\ ch[b][i] # h
      OBVIOUS
    <3>1. IsChain(ch[b], b, bin, next, pid) /\ ch[b] \in Seq(Slot)
      BY <1>1 DEF AreChains
    <3>2. \A i \in 1..Len(ch[b]) : ch[b][i] \in Slot /\ ch[b][i] \in Range(ch[b])
      BY <3>1, RangeIs
    <3>3. \A i \in 1..Len(ch[b]) : ch[b][i] \in alloc
      BY <1>1, <3>2 DEF On
    <3> QED BY <2>1, <3>1, <3>2, <3>3
  <2>4. ch \in [Bin -> Seq(Slot)] /\ \A b \in Bin : IsChain(ch[b], b, bin, nx, ids)
    <3>1. ASSUME NEW b \in Bin PROVE IsChain(ch[b], b, bin, nx, ids)
      BY <2>2, <2>3, ChainStays
    <3> QED BY <1>1, <3>1 DEF AreChains
  <2> DEFINE b == hash_pid(p)
  <2>5. b \in Bin
    BY RegConst
  <2>6. /\ cache' \in Slot \cup {NULL}
        /\ Get(ids, nx, p) = NULL => \A i \in 1..Len(ch[b]) : ids[ch[b][i]] # p
    BY <1>2, <1>5, <2>4, <2>5, GetIs
  <2>7. \A s \in alloc : ids[s] = pid[s]
    BY <1>2, <2>1, <2>2
  <2>8. ids[0] = LOADER /\ \A s \in alloc \cup {h} : ids[s] \in Thread => ids[s] \in pool'
    BY <1>1, <2>2, <2>7, SMTT(30)
  <2>9. CASE next' = nx /\ bin' = bin /\ alloc' = alloc
    <3>1. TypeOK'
      BY <1>2, <1>3, <1>5, <2>2, <2>6, <2>9, SMTT(30) DEF TypeOK
    <3>2. RegOK(ch)'
      BY <1>1, <1>3, <1>5, <2>4, <2>8, <2>9, SMTT(30) DEF RegOK, AreChains
    <3> QED BY <3>1, <3>2
  <2>10. CASE /\ Get(ids, nx, p) = NULL /\ next' = [nx EXCEPT ![h] = bin[b]]
              /\ bin' = [bin EXCEPT ![b] = h] /\ alloc' = alloc \cup {h}
    <3> DEFINE s == <<h>> \o ch[b]
               c == [ch EXCEPT ![b] = s]
    <3>1. /\ next' \in [Slot -> Slot \cup {NULL}] /\ next'[h] = bin[b]
          /\ \A x \in Slot : x # h => next'[x] = nx[x]
          /\ bin' \in [Bin -> Slot \cup {NULL}] /\ bin'[b] = h
          /\ \A d \in Bin : d # b => bin'[d] = bin[d]
      BY <1>2, <2>1, <2>2, <2>5, <2>10, SMTT(30)
    <3>2. TypeOK'
      BY <1>2, <1>3, <1>5, <2>1, <2>2, <2>6, <2>10, <3>1, SMTT(30) DEF TypeOK
    <3>3. \A i \in 1..Len(ch[b]) : ch[b][i] # h /\ next'[ch[b][i]] = nx[ch[b][i]]
      BY <2>3, <2>5, <3>1
    <3>5. /\ IsChain(s, b, bin', next', ids) /\ s \in Seq(Slot)
          /\ Range(s) = Range(ch[b]) \cup {h}
      <4>1. Pushed(s, ch[b], b, bin, nx, ids, h, bin', next')
        BY <2>1, <2>2, <2>4, <2>5, <2>6, <2>10, <3>1, <3>3, SMTT(30) DEF Pushed
      <4> HIDE DEF s, b
      <4> QED BY <4>1, PushChain, SMT, SMTT(30)
    <3> HIDE DEF s
    <3>6. ASSUME NEW d \in Bin, d # b PROVE IsChain(ch[d], d, bin', next', ids)
      <4>1. \A i \in 1..Len(ch[d]) : next'[ch[d][i]] = nx[ch[d][i]]
        BY <2>3, <3>1
      <4> QED BY <2>4, <3>1, <3>6, <4>1, ChainStays, SMTT(30)
    <3>7. c \in [Bin -> Seq(Slot)] /\ c[b] = s /\ \A d \in Bin : d # b => c[d] = ch[d]
      BY <2>4, <2>5, <3>5
    <3> HIDE DEF c
    <3>8. AreChains(c, bin', next', ids)
      BY <3>5, <3>6, <3>7 DEF AreChains
    <3>9. \A x \in Slot : On(c, x) <=> (On(ch, x) \/ x = h)
      <4> HIDE DEF b
      <4>1. ASSUME NEW x, On(c, x) PROVE On(ch, x) \/ x = h
        <5>1. PICK d \in Bin : x \in Range(c[d])
          BY <4>1 DEF On
        <5>2. CASE d = b
          BY <2>5, <3>5, <3>7, <5>1, <5>2, SMTT(30) DEF On
        <5>3. CASE d # b
          BY <3>7, <5>1, <5>3 DEF On
        <5> QED BY <5>2, <5>3
      <4>2. ASSUME NEW x, On(ch, x) PROVE On(c, x)
        <5>1. PICK d \in Bin : x \in Range(ch[d])
          BY <4>2 DEF On
        <5>2. CASE d = b
          BY <2>5, <3>5, <3>7, <5>1, <5>2, SMTT(30) DEF On
        <5>3. CASE d # b
          BY <3>7, <5>1, <5>3 DEF On
        <5> QED BY <5>2, <5>3
      <4>3. On(c, h)
        BY <2>5, <3>5, <3>7 DEF On
      <4> QED BY <4>1, <4>2, <4>3, Zenon
    <3>10. \A x \in Slot : x \in alloc' <=> On(c, x)
      <4>1. alloc' = alloc \cup {h}
        BY <2>10
      <4> QED BY <1>1, <3>9, <4>1, Zenon
    <3>11. RegOK(c)'
      BY <1>1, <1>3, <1>5, <2>8, <2>10, <3>8, <3>10, SMTT(30) DEF RegOK
    <3> QED BY <3>2, <3>11
  <2> QED BY <1>5, <2>9, <2>10 DEF sched_register_module
<1> QED BY <1>4, <1>5, <1>h DEF do_register_module

\* ker_deregister_module after the handler: the block is unlinked and given back.
LEMMA FinishStep ==
  ASSUME TypeOK, NEW ch, RegOK(ch), deregister_finish
  PROVE  TypeOK' /\ (\E c : RegOK(c)') /\ final[Len(final)].handle \notin alloc'
<1>1. /\ AreChains(ch, bin, next, pid) /\ \A s \in Slot : s \in alloc <=> On(ch, s)
      /\ \A s \in alloc : pid[s] \in Thread => pid[s] \in pool
      /\ 0 \in alloc /\ pid[0] = LOADER
  BY DEF RegOK
<1>2. /\ bin \in [Bin -> Slot \cup {NULL}] /\ next \in [Slot -> Slot \cup {NULL}]
      /\ pid \in [Slot -> Pid \cup {NULL}] /\ alloc \subseteq Slot
      /\ cache \in Slot \cup {NULL} /\ pool \subseteq Thread /\ cur \in Pid \cup {NULL}
      /\ final \in Seq([handle : Slot, prev : Slot \cup {NULL}])
  BY DEF TypeOK
<1>3. Len(final) = 1 /\ final # <<>> /\ Leaving(ch, final[1])
  <2>1. final # <<>> /\ Len(final) <= 1 /\ Leaving(ch, final[1])
    BY DEF deregister_finish, RegOK
  <2>2. Len(final) \in Nat \ {0}
    BY <1>2, <2>1
  <2>3. \A k \in Nat \ {0} : k <= 1 => k = 1
    OBVIOUS
  <2> QED BY <2>1, <2>2, <2>3, Zenon
<1>4. PICK f : f = final[1]
  OBVIOUS
<1>5. PICK b \in Bin : \E i \in 1..Len(ch[b]) :
        f.handle = ch[b][i] /\ f.prev = (IF i = 1 THEN NULL ELSE ch[b][i - 1]) /\ pid[f.handle] # LOADER
  BY <1>3, <1>4 DEF Leaving
<1>6. PICK k \in 1..Len(ch[b]) :
        f.handle = ch[b][k] /\ f.prev = (IF k = 1 THEN NULL ELSE ch[b][k - 1]) /\ pid[f.handle] # LOADER
  BY <1>5
<1>7. /\ Unlink(f, hash_pid(pid[f.handle])) /\ pool' = pool \ {pid[f.handle]}
      /\ alloc' = alloc \ {f.handle} /\ final' = <<>> /\ pid' = pid /\ cache' = cache
      /\ cur' \in Pid \cup {NULL}
  <2>1. final' = SubSeq(final, 1, 0)
    BY <1>3 DEF deregister_finish
  <2>2. final' = <<>>
    BY <1>2, <2>1
  <2>3. cur' \in Pid \cup {NULL}
    BY <1>2, <1>3 DEF deregister_finish, Called
  <2> QED BY <1>3, <1>4, <2>2, <2>3 DEF deregister_finish
<1>8. \A d \in Bin : /\ IsChain(ch[d], d, bin, next, pid) /\ ch[d] \in Seq(Slot) /\ Len(ch[d]) \in Nat
                     /\ \A i \in 1..Len(ch[d]) : ch[d][i] \in Slot /\ ch[d][i] # NULL
  <2>1. \A d \in Bin : IsChain(ch[d], d, bin, next, pid) /\ ch[d] \in Seq(Slot)
    BY <1>1, SMTT(30) DEF AreChains
  <2> QED BY <2>1, RegConst
<1> DEFINE t == ch[b]
           h == ch[b][k]
           r == Without(t, k)
<1>9. /\ t \in Seq(Slot) /\ Len(t) \in Nat /\ IsList(t, bin[b], next, NULL) /\ h \in Slot
      /\ \A i, j \in 1..Len(t) : t[i] = t[j] => i = j
      /\ \A i \in 1..Len(t) : t[i] \in Slot /\ pid[t[i]] \in Pid /\ hash_pid(pid[t[i]]) = b
      /\ \A i, j \in 1..Len(t) : pid[t[i]] = pid[t[j]] => i = j
  BY <1>8, SMTT(30) DEF IsChain, IsList
<1>10. /\ hash_pid(pid[h]) = b /\ h = t[k]
       /\ \A j \in 1..Len(t) : j # k - 1 => next'[t[j]] = next[t[j]]
       /\ k > 1 => k - 1 \in 1..Len(t) /\ next'[t[k - 1]] = next[h]
       /\ bin'[b] = (IF k = 1 THEN next[t[1]] ELSE bin[b])
       /\ \A d \in Bin : d # b => bin'[d] = bin[d]
       /\ bin' \in [Bin -> Slot \cup {NULL}] /\ next' \in [Slot -> Slot \cup {NULL}]
       /\ \A x \in Slot : (k = 1 \/ x # t[k - 1]) => next'[x] = next[x]
  <2>1. hash_pid(pid[h]) = b /\ f.handle = h /\ h = t[k]
    BY <1>6, <1>9, SMTT(30)
  <2>2. CASE k = 1
    <3>1. f.prev = NULL
      BY <1>6, <2>2
    <3>2. bin' = [bin EXCEPT ![b] = next[h]] /\ next' = next
      BY <1>7, <2>1, <3>1, SMTT(30) DEF Unlink
    <3> QED BY <1>2, <1>9, <2>1, <2>2, <3>2, SMTT(30)
  <2>3. CASE k # 1
    <3>1. k - 1 \in 1..Len(t) /\ f.prev = t[k - 1] /\ t[k - 1] \in Slot /\ f.prev # NULL
      BY <1>6, <1>8, <1>9, <2>3, SMTT(30)
    <3>2. next' = [next EXCEPT ![t[k - 1]] = next[h]] /\ bin' = bin
      BY <1>7, <2>1, <3>1, SMTT(30) DEF Unlink
    <3>3. \A j \in 1..Len(t) : j # k - 1 => t[j] # t[k - 1]
      BY <1>9, <3>1
    <3> HIDE DEF t, h
    <3>4. next'[t[k - 1]] = next[h] /\ \A x \in Slot : x # t[k - 1] => next'[x] = next[x]
      BY <1>2, <1>9, <3>1, <3>2, SMTT(30)
    <3>5. bin'[b] = bin[b] /\ bin' \in [Bin -> Slot \cup {NULL}] /\ next' \in [Slot -> Slot \cup {NULL}]
      BY <1>2, <1>9, <3>2, Zenon
    <3> QED BY <1>9, <2>1, <2>3, <3>1, <3>2, <3>3, <3>4, <3>5, SMTT(30)
  <2> QED BY <2>2, <2>3, SMTT(30)
<1>11. /\ r \in Seq(Slot) /\ Len(r) = Len(t) - 1
       /\ \A j \in 1..(Len(t) - 1) : r[j] = IF j < k THEN t[j] ELSE t[j + 1]
       /\ Range(r) = Range(t) \ {h}
  <2>1. k \in 1..Len(t) /\ t \in Seq(Slot)
    BY <1>9
  <2> HIDE DEF t
  <2>2. Range(r) = Range(t) \ {t[k]}
    BY <1>9, <2>1, WithoutRange, SMTT(30)
  <2> QED BY <1>10, <2>1, <2>2, WithoutIs
<1>12. IsList(r, bin'[b], next', NULL)
  <2>1. /\ \A j \in 1..Len(t) : j # k - 1 /\ j # k => next'[t[j]] = next[t[j]]
        /\ k > 1 => next'[t[k - 1]] = next[t[k]]
        /\ k \in 1..Len(t)
    BY <1>10, SMTT(30)
  <2>2. IsList(r, IF k = 1 THEN next[t[1]] ELSE bin[b], next', NULL)
    <3> HIDE DEF t, h
    <3> QED BY <1>9, <2>1, RegConst, RemoveList, Zenon
  <2> QED BY <1>10, <2>2, SMTT(30)
<1>13. IsChain(r, b, bin', next', pid')
  <2> HIDE DEF r, t, h
  <2>1. \A i \in 1..Len(r) : r[i] = t[IF i < k THEN i ELSE i + 1] /\ (IF i < k THEN i ELSE i + 1) \in 1..Len(t)
    BY <1>9, <1>11, SMTT(30)
  <2>2. \A i \in 1..Len(r) : pid[r[i]] \in Pid /\ hash_pid(pid[r[i]]) = b
    BY <1>9, <2>1
  <2>3. ASSUME NEW i \in 1..Len(r), NEW j \in 1..Len(r), pid[r[i]] = pid[r[j]] PROVE i = j
    <3>1. (IF i < k THEN i ELSE i + 1) = (IF j < k THEN j ELSE j + 1)
      BY <1>9, <2>1, <2>3, SMTT(30)
    <3> QED BY <3>1
  <2> QED BY <1>7, <1>11, <1>12, <2>2, <2>3, SMTT(30) DEF IsChain
<1>14. ASSUME NEW d \in Bin, d # b PROVE IsChain(ch[d], d, bin', next', pid')
  <2>1. \A i \in 1..Len(ch[d]) : hash_pid(pid[ch[d][i]]) = d
    BY <1>8, SMTT(30) DEF IsChain
  <2>2. \A i \in 1..Len(ch[d]) : next'[ch[d][i]] = next[ch[d][i]]
    <3> SUFFICES ASSUME NEW i \in 1..Len(ch[d]) PROVE next'[ch[d][i]] = next[ch[d][i]]
      OBVIOUS
    <3>1. k # 1 => k - 1 \in 1..Len(t)
      BY <1>9
    <3>2. k # 1 => hash_pid(pid[t[k - 1]]) = b
      BY <1>9, <3>1
    <3>3. ch[d][i] \in Slot
      BY <1>8
    <3> QED BY <1>10, <1>14, <2>1, <3>2, <3>3
  <2> QED BY <1>7, <1>8, <1>10, <1>14, <2>2, ChainStays, SMTT(30)
<1> DEFINE c == [ch EXCEPT ![b] = r]
<1>15. c \in [Bin -> Seq(Slot)] /\ c[b] = r /\ \A d \in Bin : d # b => c[d] = ch[d]
  BY <1>1, <1>11 DEF AreChains
<1> HIDE DEF r
<1>16. AreChains(c, bin', next', pid')
  <2> HIDE DEF c
  <2> QED BY <1>13, <1>14, <1>15, SMTT(30) DEF AreChains
<1>17. \A s \in Slot : On(c, s) <=> (On(ch, s) /\ s # h)
  <2> HIDE DEF c
  <2>1. ASSUME NEW d \in Bin, d # b PROVE h \notin Range(ch[d])
    <3> SUFFICES ASSUME h \in Range(ch[d]) PROVE FALSE
      OBVIOUS
    <3>1. PICK i \in 1..Len(ch[d]) : h = ch[d][i]
      BY <1>8, RangeIs, SMTT(30)
    <3>2. hash_pid(pid[h]) = d
      BY <1>8, <3>1 DEF IsChain
    <3> QED BY <1>10, <2>1, <3>2
  <2>2. ASSUME NEW s \in Slot, On(c, s) PROVE On(ch, s) /\ s # h
    <3>1. PICK d \in Bin : s \in Range(c[d])
      BY <2>2 DEF On
    <3>2. CASE d = b
      BY <1>11, <1>15, <3>1, <3>2, SMTT(30) DEF On
    <3>3. CASE d # b
      BY <1>15, <2>1, <3>1, <3>3 DEF On
    <3> QED BY <3>2, <3>3
  <2>3. ASSUME NEW s \in Slot, On(ch, s), s # h PROVE On(c, s)
    <3>1. PICK d \in Bin : s \in Range(ch[d])
      BY <2>3 DEF On
    <3>2. CASE d = b
      BY <1>11, <1>15, <2>3, <3>1, <3>2, SMTT(30) DEF On
    <3>3. CASE d # b
      BY <1>15, <3>1, <3>3, SMTT(30) DEF On
    <3> QED BY <3>2, <3>3
  <2> QED BY <2>2, <2>3, Zenon
<1>18. \A s \in Slot : s \in alloc' <=> On(c, s)
  <2> HIDE DEF c
  <2> QED BY <1>1, <1>6, <1>7, <1>17, SMTT(30)
<1>19. \A s \in alloc' : pid[s] # pid[h]
  <2> SUFFICES ASSUME NEW s \in alloc', pid[s] = pid[h] PROVE FALSE
    BY SMTT(30)
  <2>1. s \in Slot /\ s # h /\ On(ch, s)
    BY <1>1, <1>2, <1>6, <1>7, SMTT(30)
  <2>2. PICK d \in Bin : s \in Range(ch[d])
    BY <2>1, SMTT(30) DEF On
  <2>3. PICK i \in 1..Len(ch[d]) : s = ch[d][i]
    BY <1>8, <2>2, RangeIs, ZenonT(30)
  <2>4. d = b /\ i = k
    BY <1>1, <2>3, OnePlace
  <2> QED BY <2>1, <2>3, <2>4, SMTT(30)
<1>20. /\ \A s \in alloc' : pid'[s] \in Thread => pid'[s] \in pool'
       /\ 0 \in alloc' /\ pid'[0] = LOADER
  BY <1>1, <1>6, <1>7, <1>19
<1>21. TypeOK'
  BY <1>2, <1>7, <1>10, SMTT(30) DEF TypeOK
<1>22. RegOK(c)'
  <2> HIDE DEF c
  <2> QED BY <1>7, <1>16, <1>18, <1>20, SMTT(30) DEF RegOK
<1>23. final[Len(final)].handle \notin alloc'
  BY <1>3, <1>4, <1>7, SMTT(30)
<1> QED BY <1>21, <1>22, <1>23

\* Every step keeps the chains.
LEMMA RegStep ==
  ASSUME "nested" \notin Calls, "init" \notin Failures, RegInv, [Next]_vars
  PROVE  RegInv'
<1>1. TypeOK
  BY DEF RegInv
<1>2. PICK ch : RegOK(ch)
  BY DEF RegInv
<1>3. /\ bin \in [Bin -> Slot \cup {NULL}] /\ next \in [Slot -> Slot \cup {NULL}]
      /\ pid \in [Slot -> Pid \cup {NULL}] /\ alloc \subseteq Slot
      /\ cache \in Slot \cup {NULL} /\ pool \subseteq Thread /\ cur \in Pid \cup {NULL}
      /\ final \in Seq([handle : Slot, prev : Slot \cup {NULL}])
  BY <1>1 DEF TypeOK
<1>4. \A b \in Bin : IsChain(ch[b], b, bin, next, pid)
  BY <1>2 DEF RegOK, AreChains
<1>5. ASSUME UNCHANGED <<bin, next, pid, alloc, pool, final>>, cache' \in Slot \cup {NULL},
             cur' \in Pid \cup {NULL}
      PROVE  RegInv'
  <2>1. TypeOK'
    BY <1>3, <1>5, SMTT(30) DEF TypeOK
  <2>2. RegOK(ch)'
    BY <1>2, <1>5, SMTT(30) DEF RegOK, Leaving
  <2> QED BY <2>1, <2>2 DEF RegInv
<1>6. \A p \in Pid : Cached(pid, next, p) \in Slot \cup {NULL}
  BY <1>3, <1>4, RegConst, GetIs, SMTT(30)
<1>7. CASE \E p \in Pid : do_dispatch(p) \/ ker_get_module(p)
  BY <1>3, <1>5, <1>6, <1>7 DEF do_dispatch, ker_get_module
<1>8. MayCall => final = <<>>
  BY DEF MayCall
<1>9. CASE \E p \in App : ker_register_module(p)
  <2>1. PICK p \in App : ker_register_module(p)
    BY <1>9
  <2>2. p \in Pid /\ p \notin Thread
    BY RegistryAssumption DEF Pid
  <2>3. final = <<>> /\ do_register_module(p) /\ pool' = pool
    BY <1>8, <2>1 DEF ker_register_module
  <2> QED BY <1>1, <1>2, <1>3, <2>2, <2>3, RegisterStep DEF RegInv
<1>10. CASE ker_spawn_module
  <2>1. PICK p : p = sched_get_pid_from_pool
    OBVIOUS
  <2>2. /\ final = <<>> /\ p # NULL /\ pool' = pool \cup {p} /\ do_register_module(p)
    BY <1>8, <1>10, <2>1 DEF ker_spawn_module
  <2>3. p \in Thread
    <3>1. Thread \ pool # {} /\ p = Min(Thread \ pool)
      BY <2>1, <2>2 DEF sched_get_pid_from_pool
    <3>2. Thread \ pool \subseteq Nat
      BY RegConst, Zenon
    <3> QED BY <3>1, <3>2, MinOf
  <2>4. p \in Pid /\ pool' \subseteq Thread /\ pool \subseteq pool' /\ p \in pool'
    BY <1>3, <2>2, <2>3 DEF Pid
  <2> QED BY <1>1, <1>2, <2>2, <2>4, RegisterStep DEF RegInv
<1>11. CASE \E p \in App \cup Thread : ker_deregister_module(p)
  <2>1. PICK p \in App \cup Thread : ker_deregister_module(p)
    BY <1>11
  <2>2. /\ p \in Pid /\ p # LOADER /\ Places(p) # {} /\ final = <<>> /\ hash_pid(p) \in Bin
        /\ UNCHANGED <<bin, next, pid, alloc, cache, pool, cur>>
    BY <1>8, <2>1, RegConst DEF ker_deregister_module, Pid
  <2> DEFINE t == ch[hash_pid(p)]
             K == {i \in 1..Len(t) : pid[t[i]] = p}
  <2>3. Places(p) = K /\ Chain(hash_pid(p)) = t /\ t \in Seq(Slot) /\ Len(t) \in Nat
    BY <1>3, <1>4, <2>2, GetIs, ChainIs DEF Places, Chain
  <2>4. PICK i : i = Min(K)
    BY Zenon
  <2>5. i \in 1..Len(t) /\ pid[t[i]] = p
    <3>1. K \subseteq Nat /\ K # {}
      BY <2>2, <2>3
    <3>2. i \in K
      <4> HIDE DEF K
      <4> QED BY <2>4, <3>1, MinOf, Zenon
    <3> QED BY <3>2
  <2> HIDE DEF K
  <2>6. PICK f : f = [handle |-> t[i], prev |-> IF i = 1 THEN NULL ELSE t[i - 1]]
    BY Zenon
  <2>7. final' = <<f>>
    BY <2>1, <2>2, <2>3, <2>4, <2>6 DEF ker_deregister_module
  <2>8. f \in [handle : Slot, prev : Slot \cup {NULL}]
    <3>1. t[i] \in Slot /\ (i # 1 => t[i - 1] \in Slot)
      BY <2>3, <2>5, SMTT(30)
    <3> QED BY <2>6, <3>1
  <2>9. Leaving(ch, f)
    <3>1. f.handle = t[i] /\ f.prev = IF i = 1 THEN NULL ELSE t[i - 1]
      BY <2>6
    <3> QED BY <2>2, <2>5, <3>1, SMTT(30) DEF Leaving
  <2>10. TypeOK'
    BY <1>3, <2>2, <2>7, <2>8, SMTT(30) DEF TypeOK
  <2>11. RegOK(ch)'
    <3>1. Len(final') = 1 /\ final'[1] = f
      BY <2>7, SMTT(30)
    <3>2. Leaving(ch, f)'
      BY <2>2, <2>9 DEF Leaving
    <3> QED BY <1>2, <2>2, <3>1, <3>2 DEF RegOK
  <2> QED BY <2>10, <2>11 DEF RegInv
<1>12. CASE deregister_finish
  BY <1>1, <1>2, <1>12, FinishStep DEF RegInv
<1>13. CASE UNCHANGED vars
  BY <1>3, <1>5, <1>13 DEF vars
<1> QED BY <1>7, <1>9, <1>10, <1>11, <1>12, <1>13 DEF Next

\* The registry starts with the loader.
LEMMA RegStart == Init => RegInv
<1> SUFFICES ASSUME Init PROVE RegInv
  OBVIOUS
<1>1. LOADER \in Pid /\ 0 \in Slot /\ hash_pid(LOADER) \in Bin /\ LOADER \notin Thread
  BY RegConst, RegistryAssumption DEF Pid, Slot
<1>2. TypeOK
  BY <1>1 DEF Init, TypeOK
<1> DEFINE ch == [b \in Bin |-> IF b = hash_pid(LOADER) THEN <<0>> ELSE <<>>]
<1>3. ch \in [Bin -> Seq(Slot)] /\ ch[hash_pid(LOADER)] = <<0>>
      /\ \A b \in Bin : b # hash_pid(LOADER) => ch[b] = <<>>
  BY <1>1
<1> HIDE DEF ch
<1>4. ASSUME NEW b \in Bin PROVE IsChain(ch[b], b, bin, next, pid)
  <2>1. CASE b = hash_pid(LOADER)
    <3>1. IsChain(<<0>>, b, bin, next, pid)
      BY <1>1, <2>1, RegConst DEF Init, IsChain, IsList
    <3> QED BY <1>3, <2>1, <3>1, SMTT(30)
  <2>2. CASE b # hash_pid(LOADER)
    <3>1. IsChain(<<>>, b, bin, next, pid)
      BY <2>2 DEF Init, IsChain, IsList
    <3> QED BY <1>3, <2>2, <3>1
  <2> QED BY <2>1, <2>2
<1>5. \A s \in Slot : s \in alloc <=> On(ch, s)
  <2>1. Range(<<0>>) = {0} /\ Range(<<>>) = {}
    BY DEF Range
  <2>2. \A b \in Bin : Range(ch[b]) = IF b = hash_pid(LOADER) THEN {0} ELSE {}
    BY <1>3, <2>1
  <2>3. alloc = {0}
    BY DEF Init
  <2> QED BY <1>1, <2>2, <2>3, SMTT(30) DEF On
<1>6. RegOK(ch)
  <2>1. final = <<>> /\ Len(final) <= 1
    BY DEF Init
  <2>2. alloc = {0} /\ pid[0] = LOADER
    BY <1>1 DEF Init
  <2>3. AreChains(ch, bin, next, pid)
    BY <1>3, <1>4 DEF AreChains
  <2> QED BY <1>1, <1>5, <2>1, <2>2, <2>3 DEF RegOK
<1> QED BY <1>2, <1>6 DEF RegInv

\* The invariant says what RegistrySound says.
LEMMA RegSound == ASSUME RegInv PROVE RegistrySound
<1>1. TypeOK
  BY DEF RegInv
<1>2. PICK ch : RegOK(ch)
  BY DEF RegInv
<1>3. Linked = alloc
  BY <1>1, <1>2, LinkedIs
<1>4. \A b \in Bin : IsChain(ch[b], b, bin, next, pid)
  BY <1>2 DEF RegOK, AreChains
<1>5. \A b \in Bin : Chain(b) = ch[b] /\ Len(ch[b]) <= SLOTS + 1
  BY <1>4, ChainIs, Zenon DEF Chain
<1>6. ChainsSound
  BY <1>3, <1>4, <1>5 DEF ChainsSound, IsChain
<1>7. ThreadIds
  BY <1>2, <1>3 DEF ThreadIds, RegOK
<1> QED BY <1>3, <1>6, <1>7 DEF RegistrySound, NoBlockLeak

\* If MSG_FINAL handlers remove no modules and MSG_INIT is posted: the bins of mod_bin
\* hold each registered module once, in the bin of its id, the control blocks that
\* sched_slab has handed out are those on a chain, and the ids of the threads among them
\* are taken from pid_pool, whatever registrations fail for want of memory or timers.
THEOREM RegistryIsSound ==
  ASSUME "nested" \notin Calls, "init" \notin Failures
  PROVE  Spec => []RegistrySound
<1>1. RegInv => RegistrySound
  BY RegSound
<1> QED BY <1>1, RegStart, RegStep, PTL DEF Spec

\* Under the same conditions: when ker_deregister_module has unlinked and freed a control
\* block, no chain leads to it any more.
THEOREM RemovedModules ==
  ASSUME "nested" \notin Calls, "init" \notin Failures
  PROVE  Spec => Removed
<1>2. RegInv => Linked = alloc
  BY LinkedIs DEF RegInv
<1>1. ASSUME RegInv, (Linked = alloc)', [Next]_vars
      PROVE  [deregister_finish => final[Len(final)].handle \notin Linked']_vars
  <2> SUFFICES ASSUME deregister_finish PROVE final[Len(final)].handle \notin Linked'
    OBVIOUS
  <2>1. PICK ch : RegOK(ch)
    BY <1>1 DEF RegInv
  <2>2. final[Len(final)].handle \notin alloc'
    BY <1>1, <2>1, FinishStep DEF RegInv
  <2> QED BY <1>1, <2>2
<1> QED BY <1>1, <1>2, RegStart, RegStep, PTL DEF Spec, Removed
================================================================================
