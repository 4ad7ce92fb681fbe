------------------------------- MODULE ServProofs ------------------------------
(***************************************************************************)
(* Proofs about Services: function links and drivers, for any set of       *)
(* modules and any functions they subscribe to and provide.                *)
(***************************************************************************)
EXTENDS Services, WellFoundedInduction, TLAPS

\* What a pointer of module m may lead to while the modules in L are registered.
\* A link that its header asks for leads to the function it names and no other: so
\* CutLinks, which looks at the header's name alone, finds it.
Sound(m, i, cb, L) ==
  \/ cb = <<m, i>>
  \/ /\ cb[1] \in L
     /\ cb \in ProvidedCb(cb[1])
     /\ cb[1] = m \/ proto_pub(cb) = Subscribed[m][i].proto
     /\ \/ Runtime(m, i)
        \/ cb = fntable_get_prov_cb(Subscribed[m][i].pid, Subscribed[m][i].fid)

LinkShape ==
  /\ live \subseteq Module
  /\ Kernel \subseteq live
  /\ DOMAIN link = live
  /\ \A m \in live : DOMAIN link[m] = Subs(m)

LinksSound == \A m \in live : \A i \in Subs(m) : Sound(m, i, link[m][i], live)

\* A link that its module counts on is a runtime link of a live module.
UsedShape ==
  \A u \in used : \E m \in live : \E i \in Subs(m) : u = <<m, i>> /\ Runtime(m, i)

FnInv == LinkShape /\ LinksSound /\ UsedShape /\ UsersTold

DrvInv ==
  /\ DOMAIN driver = SensorId
  /\ DriverLinked

SampInv ==
  /\ DOMAIN client = SensorId /\ DOMAIN sampling = SensorId
  /\ SamplesForClient

\* A set of numbers that is not empty has a minimum.
LEMMA MinIn == ASSUME NEW K, K \subseteq Nat, K # {} PROVE Min(K) \in K
<1> DEFINE R == {ss \in Nat \X Nat : ss[1] < ss[2]}
<1>1. IsWellFoundedOn(R, Nat)
  <2>1. OpToRel(<, Nat) = R
    BY Zenon DEF OpToRel
  <2> QED BY <2>1, NatLessThanWellFounded, Zenon
<1>2. \A x, y \in Nat : ~(<<y, x>> \in R) => x =< y
  OBVIOUS
<1> HIDE DEF R
<1>3. \E x \in K : \A y \in K : ~(<<y, x>> \in R)
  BY <1>1, WFMin, Zenon
<1>4. \E x \in K : \A y \in K : x =< y
  BY <1>2, <1>3, Zenon
<1> QED BY <1>4, Zenon DEF Min

\* What the constants are.
LEMMA Facts ==
  /\ RUNTIME_PID \notin Module
  /\ \A m \in Module : num_sub(m) \in Nat /\ Len(Provided[m]) \in Nat
  /\ \A m \in Module : Subs(m) = 1..num_sub(m)
  /\ Kernel \subseteq Module /\ NULL_PID \notin Module
  /\ SENSOR \in Kernel /\ \A i \in Subs(SENSOR) : Runtime(SENSOR, i)
BY FnTableAssumption, ModulesAssumption, SensorAssumption
   DEF FnTableAssumption, ModulesAssumption, SensorAssumption, num_sub, Subs

\* A function that a module provides is an entry of that module, and no stub.
LEMMA ProvidedEntry ==
  ASSUME NEW p \in Module, NEW cb \in ProvidedCb(p)
  PROVE  cb[1] = p /\ cb # NoCb /\ \A m \in Module : \A i \in Subs(m) : cb # <<m, i>>
<1>1. PICK k \in 1..Len(Provided[p]) : cb = <<p, num_sub(p) + k>>
  BY DEF ProvidedCb
<1>2. cb[1] = p /\ cb # NoCb
  BY <1>1 DEF NoCb
<1>3. ASSUME NEW m \in Module, NEW i \in Subs(m), cb = <<m, i>> PROVE FALSE
  BY <1>1, <1>3, Facts
<1> QED BY <1>2, <1>3

\* fntable_get_prov_cb finds nothing, or a provided entry of the module.
LEMMA ProvCb ==
  ASSUME NEW p \in Module, NEW f, fntable_get_prov_cb(p, f) # NoCb
  PROVE  fntable_get_prov_cb(p, f) \in ProvidedCb(p)
<1> DEFINE K == {k \in 1..Len(Provided[p]) : Provided[p][k].fid = f}
<1>1. K # {} /\ fntable_get_prov_cb(p, f) = <<p, num_sub(p) + Min(K)>>
  BY DEF fntable_get_prov_cb
<1>2. K \subseteq Nat
  BY Facts
<1>3. Min(K) \in K
  BY <1>1, <1>2, MinIn, Zenon
<1> QED BY <1>1, <1>3, Zenon DEF ProvidedCb

\* fntable_real_subscribe finds nothing, or a function of a live module with the
\* subscriber's prototype.
LEMMA RealSubscribe ==
  ASSUME NEW m \in Module, NEW p \in Module, NEW f, NEW i,
         fntable_real_subscribe(m, p, f, i) # NoCb
  PROVE  /\ p \in live
         /\ fntable_real_subscribe(m, p, f, i) = fntable_get_prov_cb(p, f)
         /\ fntable_real_subscribe(m, p, f, i) \in ProvidedCb(p)
         /\ proto_pub(fntable_real_subscribe(m, p, f, i)) = Subscribed[m][i].proto
BY ProvCb DEF fntable_real_subscribe

\* The invariant says what the properties say.
LEMMA SoundLive == FnInv => LinksLive
<1> SUFFICES ASSUME FnInv, NEW m \in live, NEW i \in Subs(m)
             PROVE  \/ Unlinked(m, i)
                    \/ /\ link[m][i][1] \in live
                       /\ link[m][i] \in ProvidedCb(link[m][i][1])
                       /\ \/ link[m][i][1] = m
                          \/ proto_pub(link[m][i]) = Subscribed[m][i].proto
  BY DEF LinksLive
<1>1. Sound(m, i, link[m][i], live)
  BY DEF FnInv, LinksSound
<1> QED BY <1>1 DEF Sound, Unlinked

\* ker_fntable_subscribe of a runtime entry keeps the links sound.
LEMMA SubscribeStep ==
  ASSUME FnInv, NEW m \in live, NEW p \in Module, NEW f, NEW i \in Subs(m), Runtime(m, i),
         ker_fntable_subscribe(m, p, f, i), live' = live, dfunc' = dfunc
  PROVE  FnInv'
<1> DEFINE cb == fntable_real_subscribe(m, p, f, i)
<1> USE Facts
<1>0. live \subseteq Module /\ DOMAIN link = live /\ DOMAIN link[m] = Subs(m)
  BY DEF FnInv, LinkShape
<1>1. cb # NoCb => p \in live /\ cb \in ProvidedCb(p) /\ cb[1] = p
                  /\ proto_pub(cb) = Subscribed[m][i].proto
                  /\ \A n \in Module : \A k \in Subs(n) : cb # <<n, k>>
  BY <1>0, RealSubscribe, ProvidedEntry
<1>2. link' = [link EXCEPT ![m][i] = OrStub(cb, m, i)]
  BY DEF ker_fntable_subscribe
<1>3. used' = IF cb = NoCb THEN used \ {<<m, i>>} ELSE used \cup {<<m, i>>}
  BY DEF ker_fntable_subscribe
<1> HIDE DEF cb
<1>4. LinkShape'
  BY <1>2 DEF FnInv, LinkShape
<1>5. /\ link'[m][i] = OrStub(cb, m, i)
      /\ \A n \in live : \A k \in Subs(n) : <<n, k>> # <<m, i>> => link'[n][k] = link[n][k]
  BY <1>0, <1>2 DEF FnInv, LinkShape
<1>6. Sound(m, i, link'[m][i], live)
  BY <1>1, <1>5 DEF Sound, OrStub
<1>7. LinksSound'
  BY <1>5, <1>6 DEF FnInv, LinksSound, Sound
<1>8. UsedShape'
  BY <1>3 DEF FnInv, UsedShape
<1>9. UsersTold'
  <2> SUFFICES ASSUME NEW u \in used' PROVE u \in dfunc \/ link'[u[1]][u[2]] # <<u[1], u[2]>>
    BY DEF UsersTold, Unlinked
  <2>1. PICK n \in live : \E k \in Subs(n) : u = <<n, k>>
    BY <1>8 DEF UsedShape
  <2>2. PICK k \in Subs(n) : u = <<n, k>>
    BY <2>1
  <2>3. CASE u = <<m, i>>
    BY <1>0, <1>1, <1>3, <1>5, <2>3 DEF OrStub
  <2>4. CASE u # <<m, i>>
    <3>1. u \in used /\ link'[n][k] = link[n][k]
      BY <1>3, <1>5, <2>2, <2>4
    <3> QED BY <2>2, <3>1 DEF FnInv, UsersTold, Unlinked
  <2> QED BY <2>3, <2>4
<1> QED BY <1>4, <1>7, <1>8, <1>9 DEF FnInv

\* Registering a module keeps the links sound, whether it comes before or after the
\* modules it names and the modules that name it.
LEMMA RegisterStep ==
  ASSUME FnInv, NEW m \in Module \ live, fntable_link(m), live' = live \cup {m}
  PROVE  FnInv'
<1> USE Facts
<1>0. live \subseteq Module /\ DOMAIN link = live
  BY SMTT(30) DEF FnInv, LinkShape
<1>1. LinkShape'
  BY <1>0, SMTT(30) DEF FnInv, LinkShape, fntable_link, fntable_link_subscribed_functions, LinkProvided
<1>2. ASSUME NEW i \in Subs(m) PROVE Sound(m, i, link'[m][i], live')
  <2> DEFINE s == Subscribed[m][i]
             own == fntable_get_prov_cb(m, s.fid)
             cb == fntable_real_subscribe(m, s.pid, s.fid, i)
  <2>1. link'[m][i] = OrStub(IF s.pid = m THEN own
                             ELSE IF s.pid = RUNTIME_PID THEN NoCb ELSE cb, m, i)
    BY <1>0 DEF fntable_link, fntable_link_subscribed_functions
  <2>2. own # NoCb => own \in ProvidedCb(m) /\ own[1] = m
    BY ProvCb, ProvidedEntry
  <2>3. cb # NoCb => s.pid \in live
    BY DEF fntable_real_subscribe
  <2>4. cb # NoCb => /\ cb = fntable_get_prov_cb(s.pid, s.fid)
                     /\ cb \in ProvidedCb(s.pid) /\ cb[1] = s.pid
                     /\ proto_pub(cb) = s.proto
    BY <1>0, <2>3, RealSubscribe, ProvidedEntry
  <2>5. CASE link'[m][i] = <<m, i>>
    BY <2>5 DEF Sound
  <2>6. CASE s.pid = m /\ link'[m][i] = own /\ own # NoCb
    BY <2>2, <2>6, SMTT(30) DEF Sound
  <2>7. CASE link'[m][i] = cb /\ cb # NoCb
    BY <2>3, <2>4, <2>7 DEF Sound
  <2> QED BY <2>1, <2>5, <2>6, <2>7 DEF OrStub
<1>3. ASSUME NEW n \in live, NEW i \in Subs(n)
      PROVE  /\ link'[n][i] # link[n][i] =>
                  /\ Subscribed[n][i].pid = m
                  /\ link'[n][i] = fntable_get_prov_cb(m, Subscribed[n][i].fid)
                  /\ link'[n][i] \in ProvidedCb(m) /\ link'[n][i][1] = m
                  /\ proto_pub(link'[n][i]) = Subscribed[n][i].proto
                  /\ link'[n][i] # <<n, i>>
             /\ Sound(n, i, link'[n][i], live')
  <2> DEFINE cb == fntable_get_prov_cb(m, Subscribed[n][i].fid)
  <2>1. \/ link'[n][i] = link[n][i]
        \/ /\ Subscribed[n][i].pid = m /\ cb # NoCb
           /\ proto_pub(cb) = Subscribed[n][i].proto
           /\ link'[n][i] = cb
    BY <1>0 DEF fntable_link, LinkProvided
  <2>2. cb # NoCb => cb \in ProvidedCb(m) /\ cb[1] = m /\ cb # <<n, i>>
    BY <1>0, ProvCb, ProvidedEntry
  <2>3. Sound(n, i, link[n][i], live)
    BY DEF FnInv, LinksSound
  <2> HIDE DEF cb
  <2>4. CASE link'[n][i] = link[n][i]
    BY <2>3, <2>4 DEF Sound
  <2>5. CASE link'[n][i] # link[n][i]
    BY <2>1, <2>2, <2>5 DEF Sound, cb
  <2> QED BY <2>4, <2>5
<1>4. LinksSound'
  BY <1>2, <1>3, ZenonT(30) DEF LinksSound
<1>5. UsedShape'
  BY DEF FnInv, UsedShape, fntable_link
<1>6. UsersTold'
  <2> SUFFICES ASSUME NEW u \in used' PROVE u \in dfunc' \/ link'[u[1]][u[2]] # <<u[1], u[2]>>
    BY DEF UsersTold, Unlinked
  <2>1. u \in used /\ dfunc' = dfunc
    BY DEF fntable_link
  <2>2. PICK n \in live : \E k \in Subs(n) : u = <<n, k>>
    BY <2>1 DEF FnInv, UsedShape
  <2>3. PICK k \in Subs(n) : u = <<n, k>>
    BY <2>2
  <2>4. u \in dfunc \/ link[n][k] # <<n, k>>
    BY <2>1, <2>3 DEF FnInv, UsersTold, Unlinked
  <2> QED BY <1>3, <2>1, <2>3, <2>4
<1> QED BY <1>1, <1>4, <1>5, <1>6 DEF FnInv

\* Removing a module cuts every link that led to it, and tells the runtime users.
LEMMA RemoveStep ==
  ASSUME FnInv, NEW p \in live \ Kernel, fntable_remove_all(p), live' = live \ {p}
  PROVE  FnInv'
<1> USE Facts
<1>0. live \subseteq Module /\ DOMAIN link = live
  BY DEF FnInv, LinkShape
<1>1. LinkShape'
  BY DEF FnInv, LinkShape, fntable_remove_all
<1>2. ASSUME NEW m \in live \ {p}, NEW i \in Subs(m)
      PROVE  link'[m][i] = IF Provided[p] # <<>> /\ <<m, i>> \in CutLinks(p) THEN <<m, i>>
                           ELSE link[m][i]
  BY DEF fntable_remove_all
<1>3. ASSUME NEW m \in live \ {p}, NEW i \in Subs(m), link[m][i] # <<m, i>>, link[m][i][1] = p
      PROVE  Provided[p] # <<>> /\ <<m, i>> \in CutLinks(p)
  <2>1. /\ link[m][i] \in ProvidedCb(p)
        /\ \/ Runtime(m, i)
           \/ link[m][i] = fntable_get_prov_cb(Subscribed[m][i].pid, Subscribed[m][i].fid)
    BY <1>3 DEF FnInv, LinksSound, Sound
  <2>2. Provided[p] # <<>>
    BY <1>0, <2>1 DEF ProvidedCb
  <2>3. <<m, i>> \in Entries(p)
    BY DEF Entries
  <2>4. Runtime(m, i) \/ Names(m, i, p)
    <3> SUFFICES ASSUME ~Runtime(m, i) PROVE Names(m, i, p)
      OBVIOUS
    <3> DEFINE cb == fntable_get_prov_cb(Subscribed[m][i].pid, Subscribed[m][i].fid)
    <3>1. link[m][i] = cb /\ cb # NoCb /\ cb[1] = p
      BY <1>0, <1>3, <2>1, ProvidedEntry
    <3>2. \/ cb = NoCb
          \/ \E n : cb = <<Subscribed[m][i].pid, n>>
      BY Zenon DEF fntable_get_prov_cb
    <3>3. cb[1] = Subscribed[m][i].pid
      <4> HIDE DEF cb
      <4> QED BY <3>1, <3>2
    <3> QED BY <3>1, <3>3 DEF Names
  <2> QED BY <2>1, <2>2, <2>3, <2>4 DEF CutLinks
<1>4. LinksSound'
  <2> SUFFICES ASSUME NEW m \in live \ {p}, NEW i \in Subs(m)
               PROVE  Sound(m, i, link'[m][i], live \ {p})
    BY Zenon DEF LinksSound
  <2>1. CASE link'[m][i] = <<m, i>>
    BY <2>1 DEF Sound
  <2>2. CASE link'[m][i] # <<m, i>>
    <3>0. link'[m][i] = link[m][i] /\ ~(Provided[p] # <<>> /\ <<m, i>> \in CutLinks(p))
      BY <1>2, <2>2, Zenon
    <3>1. link'[m][i] = link[m][i] /\ link[m][i][1] # p
      BY <1>3, <2>2, <3>0, Zenon
    <3>2. Sound(m, i, link[m][i], live)
      BY DEF FnInv, LinksSound
    <3> QED BY <2>2, <3>1, <3>2 DEF Sound
  <2> QED BY <2>1, <2>2
<1>5. UsedShape'
  BY DEF FnInv, UsedShape, fntable_remove_all
<1>6. UsersTold'
  <2> SUFFICES ASSUME NEW u \in used' PROVE u \in dfunc' \/ link'[u[1]][u[2]] # <<u[1], u[2]>>
    BY DEF UsersTold, Unlinked
  <2>1. u \in used /\ u[1] # p /\ dfunc \subseteq dfunc'
    BY DEF fntable_remove_all
  <2>2. PICK m \in live : \E i \in Subs(m) : u = <<m, i>> /\ Runtime(m, i)
    BY <2>1 DEF FnInv, UsedShape
  <2>3. PICK i \in Subs(m) : u = <<m, i>> /\ Runtime(m, i)
    BY <2>2
  <2>4. u \in dfunc \/ link[m][i] # <<m, i>>
    BY <2>1, <2>3 DEF FnInv, UsersTold, Unlinked
  <2>5. ASSUME Provided[p] # <<>>, <<m, i>> \in CutLinks(p) PROVE <<m, i>> \in dfunc'
    BY <2>3, <2>5 DEF fntable_remove_all, ToldUsers
  <2> QED BY <1>2, <2>1, <2>3, <2>4, <2>5
<1> QED BY <1>1, <1>4, <1>5, <1>6 DEF FnInv

\* Steps of the services that leave links and modules alone.
LEMMA SameFn ==
  ASSUME FnInv, UNCHANGED <<live, link, dfunc, used>> PROVE FnInv'
BY DEF FnInv, LinkShape, LinksSound, UsedShape, UsersTold, Unlinked

\* At boot every entry of the kernel's modules leads to its stub.
LEMMA InitFn == servInit => FnInv /\ DrvInv
<1> SUFFICES ASSUME servInit PROVE FnInv /\ DrvInv
  OBVIOUS
<1>1. LinkShape
  BY Facts DEF servInit, fnInit, LinkShape
<1>2. LinksSound
  BY DEF servInit, fnInit, LinksSound, Sound
<1>3. UsedShape /\ UsersTold
  BY DEF servInit, fnInit, UsedShape, UsersTold
<1>4. DrvInv
  BY DEF servInit, sensInit, DrvInv, DriverLinked
<1> QED BY <1>1, <1>2, <1>3, <1>4 DEF FnInv

\* A step of the services that changes function links is a subscription, the
\* arrival of MSG_DFUNC_REMOVED, or the coming or going of a module.
LEMMA StepFn == FnInv /\ [servNext]_servVars => FnInv'
<1> SUFFICES ASSUME FnInv, [servNext]_servVars PROVE FnInv'
  OBVIOUS
<1>0. live \subseteq Module /\ Kernel \subseteq live
  BY DEF FnInv, LinkShape
<1>1. CASE Load
  BY <1>1, RegisterStep DEF Load, register_module
<1>2. CASE Unload
  BY <1>0, <1>2, RemoveStep DEF Unload, deregister_module
<1>3. CASE Subscribe
  <2>1. PICK m \in Module \ Kernel, p \in Module, f \in Fid :
          \E i \in Subs(m) : ker_sys_fntable_subscribe(m, p, f, i) /\ UNCHANGED OtherThanFn
    BY <1>3 DEF Subscribe
  <2>2. PICK i \in Subs(m) : ker_sys_fntable_subscribe(m, p, f, i) /\ UNCHANGED OtherThanFn
    BY <2>1
  <2> QED BY <2>2, SubscribeStep DEF ker_sys_fntable_subscribe, OtherThanFn
<1>4. CASE DfuncRemoved
  BY <1>4 DEF DfuncRemoved, dfunc_removed, OtherThanFn, FnInv, LinkShape, LinksSound, UsedShape,
              UsersTold, Unlinked
<1>5. CASE SensorRegister
  <2>1. PICK m \in Module \ Kernel, id \in SensorId, f \in Fid :
          ker_sensor_register(m, id, f) /\ UNCHANGED OtherThanSens
    BY <1>5 DEF SensorRegister
  <2>2. SENSOR \in live /\ id \in Subs(SENSOR) /\ Runtime(SENSOR, id)
    BY <1>0, Facts DEF SensorId
  <2> QED BY <2>1, <2>2, SubscribeStep DEF ker_sensor_register, OtherThanSens
<1>6. CASE SensorDeregister \/ SensorGetData \/ SensorDataReady
  BY <1>6, SameFn, Zenon DEF SensorDeregister, SensorGetData, SensorDataReady, ker_sensor_deregister,
                      ker_sensor_get_data, ker_sensor_data_ready, fnVars, OtherThanSens
<1>7. CASE ShmOpen \/ ShmUpdate \/ ShmClose \/ ShmWait \/ ShmStopwait
  BY <1>7, SameFn DEF ShmOpen, ShmUpdate, ShmClose, ShmWait, ShmStopwait, OtherThanShm, fnVars
<1>8. CASE MonitorRegister \/ MonitorDeregister \/ DeliverBegin \/ DeliverStep
  BY <1>8, SameFn, Zenon DEF MonitorRegister, MonitorDeregister, DeliverBegin, DeliverStep,
                      OtherThanMon, fnVars
<1>9. CASE UNCHANGED servVars
  BY <1>9, SameFn DEF servVars, fnVars
<1> QED BY <1>1, <1>2, <1>3, <1>4, <1>5, <1>6, <1>7, <1>8, <1>9 DEF servNext

\* No function pointer of a live module leads to a module that is gone, for any
\* modules and any order of registrations, removals and subscriptions.
THEOREM LinksStayLive == servSpec => []LinksLive
BY InitFn, StepFn, SoundLive, PTL DEF servSpec

\* A module that counts on a runtime link has it, or is being told that it is gone.
THEOREM UsersAreTold == servSpec => []UsersTold
<1>1. FnInv => UsersTold
  BY DEF FnInv
<1> QED BY <1>1, InitFn, StepFn, PTL DEF servSpec

\* The sensor manager's own entries are only moved by ker_sensor_register, to the
\* driver that registers; otherwise a step leaves them or puts them to their stub.
LEMMA StepDrv == FnInv /\ DrvInv /\ [servNext]_servVars => DrvInv'
<1> SUFFICES ASSUME FnInv, DrvInv, [servNext]_servVars PROVE DrvInv'
  OBVIOUS
<1>0. /\ live \subseteq Module /\ Kernel \subseteq live /\ SENSOR \in live /\ DOMAIN link = live
      /\ DOMAIN link[SENSOR] = SensorId
      /\ \A id \in SensorId : Subscribed[SENSOR][id].pid = RUNTIME_PID
  BY Facts DEF FnInv, LinkShape, SensorId, Runtime
<1> DEFINE Stays(id) == \/ link'[SENSOR][id] = link[SENSOR][id]
                        \/ link'[SENSOR][id] = <<SENSOR, id>>
           Keeps == \A id \in SensorId :
                      /\ driver'[id] # NULL_PID => driver'[id] = driver[id] /\ driver[id] \in live'
                      /\ Stays(id)
<1>1. ASSUME Keeps, DOMAIN driver' = SensorId PROVE DrvInv'
  BY <1>1 DEF DrvInv, DriverLinked, Unlinked
<1>2. CASE Load
  <2>1. PICK m \in Module \ Kernel : register_module(m)
    BY <1>2, SMTT(30) DEF Load
  <2>2. \A id \in SensorId : link'[SENSOR][id] = link[SENSOR][id]
    BY <1>0, <2>1, Facts, SMTT(30) DEF register_module, fntable_link, LinkProvided, SensorId
  <2> QED BY <1>1, <2>1, <2>2 DEF register_module, sensVars, DrvInv, DriverLinked
<1>3. CASE Unload
  <2>1. PICK m \in Module \ Kernel : deregister_module(m)
    BY <1>3 DEF Unload
  <2>2. SENSOR # m
    BY Facts, SMTT(30)
  <2>3. \A id \in SensorId : Stays(id)
    BY <1>0, <2>1, <2>2 DEF deregister_module, fntable_remove_all, SensorId
  <2>4. live' = live \ {m} /\ driver' = [id \in SensorId |->
                   IF id \in {k \in SensorId : driver[k] = m} THEN NULL_PID ELSE driver[id]]
    BY <2>1 DEF deregister_module, sensor_remove_all, Deregistered
  <2> QED BY <1>1, <2>3, <2>4 DEF DrvInv, DriverLinked
<1>4. CASE Subscribe
  <2>1. PICK m \in Module \ Kernel, p \in Module, f \in Fid :
          \E i \in Subs(m) : ker_sys_fntable_subscribe(m, p, f, i) /\ UNCHANGED OtherThanFn
    BY <1>4 DEF Subscribe
  <2>2. link'[SENSOR] = link[SENSOR] /\ live' = live /\ driver' = driver
    BY <1>0, <2>1, Facts
       DEF ker_sys_fntable_subscribe, ker_fntable_subscribe, OtherThanFn, sensVars
  <2> QED BY <1>1, <2>2 DEF DrvInv, DriverLinked
<1>5. CASE SensorRegister
  <2>1. PICK m \in Module \ Kernel, id \in SensorId, f \in Fid :
          ker_sensor_register(m, id, f) /\ UNCHANGED OtherThanSens
    BY <1>5 DEF SensorRegister
  <2> DEFINE cb == fntable_real_subscribe(SENSOR, m, f, id)
  <2>2. /\ m \in live /\ live' = live /\ driver' = [driver EXCEPT ![id] = m]
        /\ link' = [link EXCEPT ![SENSOR][id] = OrStub(cb, SENSOR, id)]
    BY <2>1 DEF ker_sensor_register, ker_fntable_subscribe, OtherThanSens
  <2>3. cb # NoCb => cb[1] = m
    BY <1>0, RealSubscribe, ProvidedEntry
  <2> HIDE DEF cb
  <2> QED BY <1>0, <2>2, <2>3 DEF DrvInv, DriverLinked, Unlinked, OrStub
<1>6. CASE SensorDeregister
  <2>1. /\ UNCHANGED <<live, link>>
        /\ \E id \in SensorId : driver' = [k \in SensorId |->
              IF k \in {id} THEN NULL_PID ELSE driver[k]]
    BY <1>6 DEF SensorDeregister, ker_sensor_deregister, Deregistered, OtherThanSens, fnVars
  <2> QED BY <1>1, <2>1 DEF DrvInv, DriverLinked
<1>7. CASE UNCHANGED <<live, link, driver>>
  BY <1>1, <1>7 DEF DrvInv, DriverLinked
<1>8. CASE DfuncRemoved \/ SensorGetData \/ SensorDataReady
  BY <1>7, <1>8 DEF DfuncRemoved, dfunc_removed, SensorGetData, SensorDataReady,
     ker_sensor_get_data, ker_sensor_data_ready, fnVars, sensVars, OtherThanSens, OtherThanFn
<1>9. CASE ShmOpen \/ ShmUpdate \/ ShmClose \/ ShmWait \/ ShmStopwait
  BY <1>7, <1>9 DEF ShmOpen, ShmUpdate, ShmClose, ShmWait, ShmStopwait, OtherThanShm, fnVars,
                    sensVars
<1>10. CASE MonitorRegister \/ MonitorDeregister \/ DeliverBegin \/ DeliverStep
  BY <1>7, <1>10, Zenon DEF MonitorRegister, MonitorDeregister, DeliverBegin, DeliverStep,
                     OtherThanMon, fnVars, sensVars
<1>11. CASE UNCHANGED servVars
  BY <1>7, <1>11 DEF servVars, fnVars, sensVars
<1> QED BY <1>2, <1>3, <1>4, <1>5, <1>6, <1>8, <1>9, <1>10, <1>11 DEF servNext

\* A request is made of the driver alone, because the entry of a sensor leads to its
\* driver (DriverLinked); and a sensor without a driver has nobody sampling, so that
\* the next driver starts afresh.
LEMMA StepSamp == FnInv /\ DrvInv /\ SampInv /\ [servNext]_servVars => SampInv'
<1> SUFFICES ASSUME FnInv, DrvInv, SampInv, [servNext]_servVars PROVE SampInv'
  OBVIOUS
<1> USE DEF SampInv, SamplesForClient
<1>1. CASE UNCHANGED sensVars
  BY <1>1 DEF sensVars
<1>2. CASE Unload
  <2>1. PICK m \in Module : sensor_remove_all(m)
    BY <1>2 DEF Unload, deregister_module
  <2> QED BY <2>1 DEF sensor_remove_all, Deregistered
<1>3. CASE SensorRegister
  BY <1>3 DEF SensorRegister, ker_sensor_register, Vacant, DrvInv
<1>4. CASE SensorDeregister
  <2>1. PICK id \in SensorId : Deregistered({id})
    BY <1>4 DEF SensorDeregister, ker_sensor_deregister
  <2> QED BY <2>1 DEF Deregistered
<1>5. CASE SensorGetData
  <2>1. PICK m \in Module \ Kernel, id \in SensorId : ker_sensor_get_data(m, id)
    BY <1>5, SMTT(30) DEF SensorGetData
  <2>2. m # NULL_PID /\ link[SENSOR][id][1] = driver[id]
    BY <2>1, Facts DEF ker_sensor_get_data, Idle, DrvInv, DriverLinked
  <2> QED BY <2>1, <2>2 DEF ker_sensor_get_data
<1>6. CASE SensorDataReady
  BY <1>6, SMTT(30) DEF SensorDataReady, ker_sensor_data_ready
<1>7. CASE Load \/ Subscribe \/ DfuncRemoved
  BY <1>1, <1>7 DEF Load, register_module, Subscribe, DfuncRemoved, OtherThanFn
<1>8. CASE ShmOpen \/ ShmUpdate \/ ShmClose \/ ShmWait \/ ShmStopwait
  BY <1>1, <1>8 DEF ShmOpen, ShmUpdate, ShmClose, ShmWait, ShmStopwait, OtherThanShm
<1>9. CASE MonitorRegister \/ MonitorDeregister \/ DeliverBegin \/ DeliverStep
  BY <1>1, <1>9, Zenon DEF MonitorRegister, MonitorDeregister, DeliverBegin, DeliverStep, OtherThanMon
<1>10. CASE UNCHANGED servVars
  BY <1>1, <1>10 DEF servVars
<1> QED BY <1>2, <1>3, <1>4, <1>5, <1>6, <1>7, <1>8, <1>9, <1>10 DEF servNext

\* The sensor manager never calls a driver that is gone, or another module than the
\* driver that registered for the sensor, and whoever samples is that driver, for a
\* client that waits (SensorsSound), for any modules, functions and sensors.
THEOREM SensorsServed == servSpec => []SensorsSound
<1>1. servInit => SampInv
  BY DEF servInit, sensInit, SampInv, SamplesForClient
<1>2. DrvInv /\ SampInv => SensorsSound
  BY DEF DrvInv, SampInv, SensorsSound
<1> QED BY <1>1, <1>2, InitFn, StepFn, StepDrv, StepSamp, PTL DEF servSpec

\* A subscription that the header of a live module makes of a live provider with a
\* function of that number and prototype is linked, after every step.
LEMMA StepComplete == FnInv /\ LinksComplete /\ [servNext]_servVars => LinksComplete'
<1> SUFFICES ASSUME FnInv, LinksComplete, [servNext]_servVars PROVE LinksComplete'
  OBVIOUS
<1>0. /\ live \subseteq Module /\ Kernel \subseteq live /\ DOMAIN link = live
      /\ RUNTIME_PID \notin Module
      /\ \A m \in live : DOMAIN link[m] = Subs(m)
  BY Facts DEF FnInv, LinkShape
<1>1. ASSUME live' = live,
             \A m \in live : \A i \in Subs(m) : Runtime(m, i) \/ link'[m][i] = link[m][i]
      PROVE  LinksComplete'
  BY <1>0, <1>1 DEF LinksComplete, Runtime
<1>2. CASE Load
  <2>1. PICK m \in Module \ Kernel : register_module(m)
    BY <1>2 DEF Load
  <2>2. m \notin live /\ live' = live \cup {m} /\ fntable_link(m)
    BY <2>1, SMTT(30) DEF register_module
  <2> SUFFICES ASSUME NEW n \in live', NEW i \in Subs(n),
                      Subscribed[n][i].pid \in live', Subscribed[n][i].pid # n,
                      fntable_get_prov_cb(Subscribed[n][i].pid, Subscribed[n][i].fid) # NoCb,
                      proto_pub(fntable_get_prov_cb(Subscribed[n][i].pid, Subscribed[n][i].fid))
                        = Subscribed[n][i].proto
               PROVE  link'[n][i]
                        = fntable_get_prov_cb(Subscribed[n][i].pid, Subscribed[n][i].fid)
    BY SMTT(30) DEF LinksComplete
  <2>3. CASE n = m
    <3>1. link'[m][i] = fntable_link_subscribed_functions(m)[i]
      BY <2>2 DEF fntable_link
    <3>2. Subscribed[n][i].pid \in live /\ Subscribed[n][i].pid # RUNTIME_PID
      BY <1>0, <2>2, <2>3
    <3>3. fntable_real_subscribe(m, Subscribed[n][i].pid, Subscribed[n][i].fid, i)
            = fntable_get_prov_cb(Subscribed[n][i].pid, Subscribed[n][i].fid)
      BY <2>3, <3>2, Zenon DEF fntable_real_subscribe
    <3> QED BY <2>3, <3>1, <3>2, <3>3, SMTT(30) DEF fntable_link_subscribed_functions, OrStub
  <2>4. CASE n # m /\ Subscribed[n][i].pid = m
    <3>1. n \in live /\ DOMAIN link = live
      BY <1>0, <2>2, <2>4, SMTT(30)
    <3>2. Provided[m] # <<>>
      BY <2>4, SMTT(30) DEF fntable_get_prov_cb
    <3>3. link'[n] = LinkProvided(m)[n]
      BY <2>2, <2>4, <3>1, <3>2, SMTT(30) DEF fntable_link
    <3> QED BY <2>4, <3>1, <3>3 DEF LinkProvided
  <2>5. CASE n # m /\ Subscribed[n][i].pid # m
    <3>1. n \in live /\ Subscribed[n][i].pid \in live
      BY <2>2, <2>5, SMTT(30)
    <3>2. link'[n][i] = link[n][i]
      BY <1>0, <2>2, <2>5, <3>1, SMTT(30) DEF fntable_link, LinkProvided
    <3> QED BY <3>1, <3>2, SMTT(30) DEF LinksComplete
  <2> QED BY <2>3, <2>4, <2>5
<1>3. CASE Unload
  <2>1. PICK p \in Module \ Kernel : deregister_module(p)
    BY <1>3 DEF Unload
  <2>2. live' = live \ {p} /\ fntable_remove_all(p)
    BY <2>1 DEF deregister_module
  <2>3. ASSUME NEW m \in live \ {p}, NEW i \in Subs(m), Subscribed[m][i].pid \in live \ {p}
        PROVE  link'[m][i] = link[m][i]
    <3>1. ~Runtime(m, i) /\ ~Names(m, i, p)
      BY <1>0, <2>3 DEF Runtime, Names
    <3>2. <<m, i>> \notin CutLinks(p)
      BY <3>1 DEF CutLinks
    <3> QED BY <2>2, <3>2 DEF fntable_remove_all
  <2> QED BY <2>2, <2>3 DEF LinksComplete
<1>4. CASE Subscribe
  <2>1. PICK m \in Module \ Kernel, p \in Module, f \in Fid :
          \E i \in Subs(m) : ker_sys_fntable_subscribe(m, p, f, i) /\ UNCHANGED OtherThanFn
    BY <1>4 DEF Subscribe
  <2>2. PICK i \in Subs(m) : ker_sys_fntable_subscribe(m, p, f, i) /\ UNCHANGED OtherThanFn
    BY <2>1
  <2>3. /\ m \in live /\ Runtime(m, i) /\ live' = live
        /\ link' = [link EXCEPT ![m][i] = OrStub(fntable_real_subscribe(m, p, f, i), m, i)]
    BY <2>2 DEF ker_sys_fntable_subscribe, ker_fntable_subscribe, OtherThanFn
  <2> QED BY <1>0, <1>1, <2>3
<1>5. CASE SensorRegister
  <2>1. PICK m \in Module \ Kernel, id \in SensorId, f \in Fid :
          ker_sensor_register(m, id, f) /\ UNCHANGED OtherThanSens
    BY <1>5 DEF SensorRegister
  <2>2. SENSOR \in live /\ Runtime(SENSOR, id)
    BY <1>0, Facts DEF SensorId
  <2>3. /\ live' = live
        /\ link' = [link EXCEPT ![SENSOR][id] =
                      OrStub(fntable_real_subscribe(SENSOR, m, f, id), SENSOR, id)]
    BY <2>1 DEF ker_sensor_register, ker_fntable_subscribe, OtherThanSens
  <2> QED BY <1>0, <1>1, <2>2, <2>3
<1>6. CASE UNCHANGED <<live, link>>
  BY <1>1, <1>6, SMTT(30)
<1>7. CASE DfuncRemoved \/ SensorDeregister \/ SensorGetData \/ SensorDataReady
  BY <1>6, <1>7, Zenon DEF DfuncRemoved, dfunc_removed, SensorDeregister, SensorGetData,
     SensorDataReady, ker_sensor_deregister, ker_sensor_get_data, ker_sensor_data_ready,
     fnVars, OtherThanSens, OtherThanFn
<1>8. CASE ShmOpen \/ ShmUpdate \/ ShmClose \/ ShmWait \/ ShmStopwait
  BY <1>6, <1>8 DEF ShmOpen, ShmUpdate, ShmClose, ShmWait, ShmStopwait, OtherThanShm, fnVars
<1>9. CASE MonitorRegister \/ MonitorDeregister \/ DeliverBegin \/ DeliverStep
  BY <1>6, <1>9, Zenon DEF MonitorRegister, MonitorDeregister, DeliverBegin, DeliverStep,
                    OtherThanMon, fnVars
<1>10. CASE UNCHANGED servVars
  BY <1>6, <1>10 DEF servVars, fnVars
<1> QED BY <1>2, <1>3, <1>4, <1>5, <1>7, <1>8, <1>9, <1>10 DEF servNext

\* If the kernel's own modules bind their functions at run time, as the sensor
\* manager does: no function pointer leads to a module that is gone, a subscription is
\* linked whenever its provider is there, in whatever order the two were registered,
\* and the user of a link that was cut is being told (LinksCorrect).
THEOREM LinksAreCorrect ==
  ASSUME \A m \in Kernel : \A i \in Subs(m) : Runtime(m, i)
  PROVE  servSpec => []LinksCorrect
<1>1. servInit => LinksComplete
  BY Facts DEF servInit, LinksComplete, Runtime
<1>2. FnInv /\ LinksComplete => LinksCorrect
  BY SoundLive DEF FnInv, LinksCorrect
<1> QED BY <1>1, <1>2, InitFn, StepFn, StepComplete, PTL DEF servSpec
================================================================================
