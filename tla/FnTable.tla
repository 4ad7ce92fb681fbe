-------------------------------- MODULE FnTable --------------------------------
(***************************************************************************)
(* Dynamic function linking, kernel/fntable.c.  A module's header lists the*)
(* functions it subscribes to and, after them, those it provides; its      *)
(* state begins with one pointer for each subscription.  A pointer leads   *)
(* to an entry of some module's table: <<m, i>> is entry i of m.  The      *)
(* pointer of a subscription that is not linked leads to the subscription's*)
(* own entry, whose function is an error stub.                             *)
(***************************************************************************)
EXTENDS Modules

CONSTANTS RUNTIME_PID,   \* The provider of a subscription made at run time.
          Subscribed,    \* Subscribed[m]: funct[0 .. num_sub_func - 1]
          Provided       \* Provided[m]: the num_prov_func entries after them

ASSUME FnTableAssumption ==
  /\ RUNTIME_PID \notin Module
  /\ DOMAIN Subscribed = Module /\ DOMAIN Provided = Module
  /\ \A m \in Module : Len(Subscribed[m]) \in Nat /\ Len(Provided[m]) \in Nat

VARIABLES link,    \* link[m][i]: pointer i in the state of the live module m
          dfunc,   \* The MSG_DFUNC_REMOVED messages under way: <<to, argument>>
          used     \* The runtime links their modules believe to hold: <<m, i>>

fnVars == <<link, dfunc, used>>

Subs(m) == 1..Len(Subscribed[m])
num_sub(m) == Len(Subscribed[m])
ProvidedCb(m) == {<<m, num_sub(m) + k>> : k \in 1..Len(Provided[m])}
Cb == UNION {{<<m, i>> : i \in Subs(m)} \cup ProvidedCb(m) : m \in Module}
NoCb == <<>>
Runtime(m, i) == Subscribed[m][i].pid = RUNTIME_PID

proto_pub(cb) == Provided[cb[1]][cb[2] - num_sub(cb[1])].proto

\* The provided entry of p with number fid, if there is one.
fntable_get_prov_cb(p, fid) ==
  LET K == {k \in 1..Len(Provided[p]) : Provided[p][k].fid = fid}
  IN  IF K = {} THEN NoCb ELSE <<p, num_sub(p) + Min(K)>>

fntable_real_subscribe(m, p, fid, i) ==
  IF p \notin live THEN NoCb
  ELSE LET cb == fntable_get_prov_cb(p, fid)
       IN  IF cb # NoCb /\ proto_pub(cb) = Subscribed[m][i].proto THEN cb ELSE NoCb

OrStub(cb, m, i) == IF cb = NoCb THEN <<m, i>> ELSE cb

\* Entry i of module m leads to its own stub.
Unlinked(m, i) == link[m][i] = <<m, i>>

\* ker_fntable_subscribe: module m links its entry i to function fid of p, or to
\* the stub when p is not there or the prototypes differ; both return SOS_OK.
ker_fntable_subscribe(m, p, fid, i) ==
  LET cb == fntable_real_subscribe(m, p, fid, i)
  IN  /\ link' = [link EXCEPT ![m][i] = OrStub(cb, m, i)]
      /\ used' = IF cb = NoCb THEN used \ {<<m, i>>} ELSE used \cup {<<m, i>>}

\* fntable_link_subscribed_functions: the pointers of a module being registered.
fntable_link_subscribed_functions(m) ==
  [i \in Subs(m) |->
     LET s == Subscribed[m][i]
     IN  OrStub(IF s.pid = m THEN fntable_get_prov_cb(m, s.fid)
                ELSE IF s.pid = RUNTIME_PID THEN NoCb
                ELSE fntable_real_subscribe(m, s.pid, s.fid, i), m, i)]

\* Mutant: subscribers that came before the provider are not linked.
LinkProvided_late(p) == link

\* fntable_link_provided_functions(..., true): the entries of the registered
\* modules that name p lead to p's functions from now on.
LinkProvided(p) ==
  [m \in DOMAIN link |->
     [i \in Subs(m) |->
        LET s == Subscribed[m][i]
            cb == fntable_get_prov_cb(p, s.fid)
        IN  IF s.pid = p /\ cb # NoCb /\ proto_pub(cb) = s.proto THEN cb
            ELSE link[m][i]]]

\* fntable_link in sched_register_module, for a module not yet on its chain.
fntable_link(m) ==
  /\ link' = [k \in live \cup {m} |->
                IF k = m THEN fntable_link_subscribed_functions(m)
                ELSE IF Provided[m] = <<>> THEN link[k] ELSE LinkProvided(m)[k]]
  /\ used' = {u \in used : u[1] # m}
  /\ UNCHANGED dfunc

\* The header of m names a function of p as its entry i.
Names(m, i, p) ==
  Subscribed[m][i].pid = p /\ fntable_get_prov_cb(p, Subscribed[m][i].fid) # NoCb

\* The entries of the modules other than p.
Entries(p) == UNION {{m} \X Subs(m) : m \in live \ {p}}

\* The entries fntable_link_provided_functions(..., false) puts back to their stub:
\* those that name p in the header, and runtime entries that lead to p.
CutLinks(p) ==
  {e \in Entries(p) : \/ Names(e[1], e[2], p)
                      \/ Runtime(e[1], e[2]) /\ link[e[1]][e[2]] \in ProvidedCb(p)}

\* The runtime subscribers among them are sent the index of the entry.
ToldUsers(p) == {mi \in CutLinks(p) : Runtime(mi[1], mi[2])}

\* The pid field of an entry: the provider, also in the stub of a subscription.
CbPid(cb) == IF cb[2] \in Subs(cb[1]) THEN Subscribed[cb[1]][cb[2]].pid ELSE cb[1]

\* The modules named in the entries that p's pointers lead to are sent the id of p.
ToldProviders(p) ==
  {<<CbPid(link[p][i]), p>> :
     i \in {k \in Subs(p) : CbPid(link[p][k]) \notin {p, RUNTIME_PID}}}

\* fntable_remove_all in ker_deregister_module, p being off its chain.
fntable_remove_all(p) ==
  LET cut == IF Provided[p] = <<>> THEN {} ELSE CutLinks(p)
      told == IF Provided[p] = <<>> THEN {} ELSE ToldUsers(p) \cup ToldProviders(p)
  IN  /\ link' = [m \in live \ {p} |->
                    [i \in Subs(m) |-> IF <<m, i>> \in cut THEN <<m, i>>
                                       ELSE link[m][i]]]
      /\ dfunc' = dfunc \cup told
      /\ used' = {u \in used : u[1] # p}

\* A module is given the message; it no longer counts on the entry.  Messages to
\* modules that are gone are dropped by the scheduler.
dfunc_removed(d) ==
  /\ d \in dfunc
  /\ dfunc' = dfunc \ {d}
  /\ used' = used \ {d}
  /\ UNCHANGED link

\* A module links one of its runtime entries: sys_fntable_subscribe.
ker_sys_fntable_subscribe(m, p, fid, i) ==
  /\ m \in live
  /\ Runtime(m, i)
  /\ ker_fntable_subscribe(m, p, fid, i)
  /\ UNCHANGED dfunc

fnInit(loaded) ==
  /\ link = [m \in loaded |-> [i \in Subs(m) |-> <<m, i>>]]
  /\ dfunc = {}
  /\ used = {}

--------------------------------------------------------------------------------
fnTypeOK ==
  /\ DOMAIN link = live
  /\ \A m \in live : link[m] \in [Subs(m) -> Cb]
  /\ dfunc \subseteq Module \X (Module \cup Nat)
  /\ used \subseteq Module \X Nat

\* A function pointer of a live module leads to its own stub or to a function of
\* a live module, of the prototype the subscriber asked for (a module's link to
\* itself is not type-checked).  So SOS_CALL never enters code that was removed,
\* whatever the order of registrations, removals and subscriptions.
LinksLive ==
  \A m \in live : \A i \in Subs(m) :
    \/ Unlinked(m, i)
    \/ /\ link[m][i][1] \in live
       /\ link[m][i] \in ProvidedCb(link[m][i][1])
       /\ link[m][i][1] = m \/ proto_pub(link[m][i]) = Subscribed[m][i].proto

\* A subscription written in the header is linked whenever its provider is there
\* with a function of that number and prototype, whichever of the two modules was
\* registered first and however often either was removed.
LinksComplete ==
  \A m \in live : \A i \in Subs(m) :
    LET s == Subscribed[m][i]
    IN  s.pid \in live /\ s.pid # m =>
          LET cb == fntable_get_prov_cb(s.pid, s.fid)
          IN  cb # NoCb /\ proto_pub(cb) = s.proto => link[m][i] = cb

\* A module that linked an entry at run time and was not told otherwise still has
\* the link, or MSG_DFUNC_REMOVED is on its way to it: fntable_remove_all cuts no
\* link silently.  (Messages are not lost here; post_short's result is ignored.)
UsersTold ==
  \A u \in used : u \in dfunc \/ ~Unlinked(u[1], u[2])

\* A function pointer leads to live code or to its stub, a subscription of the header
\* is linked whenever it can be, and no runtime link is cut silently, in whatever
\* order modules are registered, removed and subscribe.
LinksCorrect == LinksLive /\ LinksComplete /\ UsersTold
================================================================================
