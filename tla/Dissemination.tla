------------------------------ MODULE Dissemination ----------------------------
(***************************************************************************)
(* How releases spread over a network: the version messages of             *)
(* extensions/loader/loader.c.  Every node advertises its version once per *)
(* interval unless it overhears the same version; a node that hears of an  *)
(* older version sends its version data.  Intervals have no length here:   *)
(* TRAN_TID and DATA_TID are started for less than the interval, so that   *)
(* TOU_TID comes after them.  Fetching (Loader.tla) is what blocks a node. *)
(***************************************************************************)
EXTENDS Integers, FiniteSets

CONSTANTS Node,
          Neighbour,   \* Neighbour[n]: the nodes that hear n.
          Host,        \* The host at some node's serial line.
          LAST,        \* The last version the host injects; nodes start with 1.
          MAXAIR,      \* Advertisements wait while so many messages are under way.
          MAXLOSS      \* Bound on messages that are lost.

ASSUME DissAssumption ==
  /\ Host \notin Node
  /\ Neighbour \in [Node -> SUBSET Node]
  /\ LAST \in Nat \ {0}
  /\ MAXAIR \in Nat /\ MAXLOSS \in Nat

VARIABLES ver,       \* ver[n]: st.version_data->version
          send,      \* send[n]: SEND_DATA in st.net_state
          armed,     \* armed[n]: which of TRAN_TID and DATA_TID is running
          fetching,  \* fetching[n]: st.blocked
          recent,    \* recent[n]: st.recent_neighbor
          air,       \* Messages under way: [kind, ver, from, to].
          lost       \* Messages lost so far.

dissVars == <<ver, send, armed, fetching, recent, air, lost>>

Version == 1..LAST
Source == Node \cup {Host}
Packet == [kind : {"adv", "data"}, ver : Version, from : Source, to : Node]

\* The packets that are ever sent.
Sent == {m \in Packet : IF m.from = Host THEN m.kind = "data" ELSE m.to \in Neighbour[m.from]}

dissInit ==
  /\ ver = [n \in Node |-> 1]
  /\ send = [n \in Node |-> FALSE]
  /\ armed = [n \in Node |-> "tran"]
  /\ fetching = [n \in Node |-> FALSE]
  /\ recent = [n \in Node |-> Host]
  /\ air = {}
  /\ lost = 0

\* restartInterval, when SEND_DATA is s.
restartInterval(n, s) == armed' = [armed EXCEPT ![n] = IF s THEN "data" ELSE "tran"]

\* post_link to BCAST_ADDRESS: one packet to each neighbour, some of them lost.
Broadcast(n, kind, v) ==
  \E heard \in SUBSET Neighbour[n] :
    /\ air' = air \cup {[kind |-> kind, ver |-> v, from |-> n, to |-> m] : m \in heard}
    /\ lost' = lost + Cardinality(Neighbour[n] \ heard)
    /\ lost' <= MAXLOSS

\* TOU_TID: a new interval.
tou_timeout(n) ==
  /\ armed[n] = "none"
  /\ restartInterval(n, send[n])
  /\ UNCHANGED <<ver, send, fetching, recent, air, lost>>

\* TRAN_TID: advertise, unless st.blocked.
tran_timeout(n) ==
  /\ armed[n] = "tran"
  /\ Cardinality(air) < MAXAIR
  /\ armed' = [armed EXCEPT ![n] = "none"]
  /\ IF fetching[n] THEN UNCHANGED <<air, lost>> ELSE Broadcast(n, "adv", ver[n])
  /\ UNCHANGED <<ver, send, fetching, recent>>

\* DATA_TID: send the version data.
data_timeout(n) ==
  /\ armed[n] = "data"
  /\ armed' = [armed EXCEPT ![n] = "none"]
  /\ send' = [send EXCEPT ![n] = FALSE]
  /\ Broadcast(n, "data", ver[n])
  /\ UNCHANGED <<ver, fetching, recent>>

\* Mutant: whoever was heard last is asked for fragments.
Recent_any(m) == recent' = [recent EXCEPT ![m.to] = m.from]

\* loader_handler: the sender of a version that is not older than the node's.
Recent(m) ==
  recent' = IF m.ver >= ver[m.to] THEN [recent EXCEPT ![m.to] = m.from] ELSE recent

\* Mutant: an older version is not answered.
OlderHeard_none(n) == UNCHANGED <<send, armed>>

\* An older version: send the version data, unless that is planned already.
OlderHeard(n) ==
  IF send[n] THEN UNCHANGED <<send, armed>>
  ELSE send' = [send EXCEPT ![n] = TRUE] /\ restartInterval(n, TRUE)

\* Mutant: the same version is answered, too.
diss_version_adv_same(m) ==
  LET n == m.to
  IN  /\ m \in air /\ m.kind = "adv"
      /\ air' = air \ {m}
      /\ Recent(m)
      /\ \/ m.ver > ver[n] /\ restartInterval(n, send[n]) /\ UNCHANGED send
         \/ m.ver <= ver[n] /\ OlderHeard(n)
      /\ UNCHANGED <<ver, fetching, lost>>

\* MSG_VERSION_ADV.  OVERHEARD_K is 1: the first advertisement of the same version
\* stops the node's own.
diss_version_adv(m) ==
  LET n == m.to
  IN  /\ m \in air /\ m.kind = "adv"
      /\ air' = air \ {m}
      /\ Recent(m)
      /\ \/ m.ver > ver[n] /\ restartInterval(n, send[n]) /\ UNCHANGED send
         \/ m.ver < ver[n] /\ OlderHeard(n)
         \/ /\ m.ver = ver[n]
            /\ armed' = [armed EXCEPT ![n] = IF @ = "tran" THEN "none" ELSE @]
            /\ UNCHANGED send
      /\ UNCHANGED <<ver, fetching, lost>>

\* Mutant: any other version is taken.
Newer_other(v, w) == v # w

Newer(v, w) == v > w

\* MSG_VERSION_DATA: the same data need not be sent again; newer data is taken, and
\* process_version_data may find something to fetch.
diss_version_data(m) ==
  LET n == m.to
  IN  /\ m \in air /\ m.kind = "data"
      /\ air' = air \ {m}
      /\ Recent(m)
      /\ IF send[n] /\ m.ver = ver[n]
         THEN /\ send' = [send EXCEPT ![n] = FALSE]
              /\ armed' = [armed EXCEPT ![n] = IF @ = "data" THEN "none" ELSE @]
              /\ UNCHANGED <<ver, fetching>>
         ELSE IF Newer(m.ver, ver[n])
         THEN /\ restartInterval(n, send[n])
              /\ ver' = [ver EXCEPT ![n] = m.ver]
              /\ \E b \in BOOLEAN : fetching' = [fetching EXCEPT ![n] = b]
              /\ UNCHANGED send
         ELSE UNCHANGED <<ver, send, armed, fetching>>
      /\ UNCHANGED lost

\* MSG_FETCHER_DONE of a fetch that succeeded: a new interval, and
\* process_version_data may find another entry to fetch (more).
diss_fetcher_done(n, more) ==
  /\ fetching[n]
  /\ restartInterval(n, send[n])
  /\ fetching' = [fetching EXCEPT ![n] = more]
  /\ UNCHANGED <<ver, send, recent, air, lost>>

\* The host announces a release, newer than any, to one node.
inject(n) ==
  \E v \in Version :
    /\ \A k \in Node : v > ver[k]
    /\ \A m \in air : v > m.ver
    /\ air' = air \cup {[kind |-> "data", ver |-> v, from |-> Host, to |-> n]}
    /\ UNCHANGED <<ver, send, armed, fetching, recent, lost>>

dissNext ==
  \/ \E n \in Node : tou_timeout(n)
  \/ \E n \in Node : tran_timeout(n)
  \/ \E n \in Node : data_timeout(n)
  \/ \E m \in air : diss_version_adv(m)
  \/ \E m \in air : diss_version_data(m)
  \/ \E n \in Node, more \in BOOLEAN : diss_fetcher_done(n, more)
  \/ \E n \in Node : inject(n)

HandleMessage(n) == \E m \in air : m.to = n /\ (diss_version_adv(m) \/ diss_version_data(m))

\* Every node handles messages, timers expire, and of the entries to fetch there is a
\* last one.  Which node's timer expires first in an interval is random, so that no
\* node is silenced by its neighbours for ever.
dissFair ==
  /\ \A n \in Node : /\ WF_dissVars(HandleMessage(n))
                     /\ WF_dissVars(tou_timeout(n))
                     /\ WF_dissVars(data_timeout(n))
                     /\ WF_dissVars(diss_fetcher_done(n, FALSE))
                     /\ SF_dissVars(tran_timeout(n))

dissSpec == dissInit /\ [][dissNext]_dissVars /\ dissFair

--------------------------------------------------------------------------------
dissTypeOK ==
  /\ ver \in [Node -> Version]
  /\ send \in [Node -> BOOLEAN]
  /\ armed \in [Node -> {"none", "tran", "data"}]
  /\ fetching \in [Node -> BOOLEAN]
  /\ recent \in [Node -> Source]
  /\ air \subseteq Sent
  /\ lost \in 0..MAXLOSS

\* A node that means to send its version data has DATA_TID running: the flag, which
\* keeps it from starting the timer again, is never left set with nothing to clear
\* it, whatever order advertisements, data and timeouts come in.
SendArmed == \A n \in Node : send[n] <=> armed[n] = "data"

\* The neighbour that a failed fetch is restarted with has at least the node's own
\* release, however many releases and messages overtake each other.
RecentHas == \A n \in Node : recent[n] # Host => ver[recent[n]] >= ver[n]

\* The flag SEND_DATA has its timer and the neighbour remembered has the release, on
\* every node, whatever order advertisements, version data and timeouts come in.
DissSound == SendArmed /\ RecentHas

\* No more version data is sent once all nodes agree: nothing under way carries
\* another version and no node means to send.
Settled ==
  /\ \A n, k \in Node : ver[n] = ver[k] /\ ~send[n]
  /\ \A m \in air : \A n \in Node : m.ver = ver[n]

\* A network that agrees stays quiet until the host announces a release.
StaysSettled == [][Settled => Settled' \/ \E n \in Node : inject(n)]_dissVars

\* A node never goes back to an older release, although messages overtake.
NeverBack == [][\A n \in Node : ver'[n] >= ver[n]]_dissVars

\* A release that some node has reaches every node, over several hops and although
\* messages are lost and advertisements suppress each other.
Spreads == \A v \in Version : (\E n \in Node : ver[n] = v) ~> (\A n \in Node : ver[n] >= v)
================================================================================
