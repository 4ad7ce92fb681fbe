-------------------------------- MODULE Monitor --------------------------------
(***************************************************************************)
(* Message monitors, kernel/monitor.c: a linked list of control blocks that*)
(* live in the memory of their modules.  A delivery walks the list and     *)
(* runs the handler of each matching module in the middle of the walk, so  *)
(* the list may change under it; the step from one block to the next reads *)
(* the pointer of the block just served.                                   *)
(***************************************************************************)
EXTENDS Modules, LinkedList

CONSTANTS MonCb,      \* Control blocks.
          CbModule,   \* CbModule[c]: the module in whose memory c lies
          CbType,     \* CbType[c]: the kinds of message it asks for
          NoMon       \* NULL

ASSUME MonitorAssumption ==
  /\ CbModule \in [MonCb -> Module \ Kernel]
  /\ CbType \in [MonCb -> SUBSET {"local", "incoming", "outgoing"}]
  /\ IsFiniteSet(MonCb) /\ NoMon \notin MonCb

VARIABLES cb_list,    \* The head of the list.
          cbNext,     \* cbNext[c]: c->next
          curr,       \* The block the walk is at, NoMon between deliveries.
          mon,        \* The message being delivered: [type, other]
          seen,       \* seen[c]: how often this delivery ran c's handler
          throughout  \* The blocks that were on the list ever since it began.

monVars == <<cb_list, cbNext, curr, mon, seen, throughout>>

Nobody == [c \in MonCb |-> 0]

monInit ==
  /\ cb_list = NoMon
  /\ cbNext = [c \in MonCb |-> NoMon]
  /\ curr = NoMon
  /\ mon = [type |-> "local", other |-> NULL_PID]
  /\ seen = Nobody
  /\ throughout = {}

\* The blocks on the list, in order.
List == ListFrom(cb_list, cbNext, NoMon, Cardinality(MonCb))

OnList == {List[i] : i \in DOMAIN List}

\* ker_register_monitor: at the end of the list.  A module does not register a
\* block that is on the list, and during a delivery only a running handler acts.
ker_register_monitor(c) ==
  /\ CbModule[c] \in live
  /\ c \notin OnList
  /\ curr # NoMon => CbModule[c] = CbModule[curr] /\ c # curr
  /\ IF cb_list = NoMon
     THEN cb_list' = c /\ cbNext' = [cbNext EXCEPT ![c] = NoMon]
     ELSE /\ cbNext' = [cbNext EXCEPT ![c] = NoMon, ![List[Len(List)]] = c]
          /\ UNCHANGED cb_list
  /\ UNCHANGED <<curr, mon, seen, throughout>>

\* Mutant: the pointer of the block that leaves is cleared.
Drop_clear(c) ==
  /\ IF c = cb_list
     THEN cb_list' = cbNext[c] /\ cbNext' = [cbNext EXCEPT ![c] = NoMon]
     ELSE LET p == CHOOSE q \in OnList : cbNext[q] = c
          IN  cbNext' = [cbNext EXCEPT ![p] = cbNext[c], ![c] = NoMon] /\ UNCHANGED cb_list
  /\ throughout' = throughout \ {c}

\* Taking block c off the list leaves its own pointer as it is.
Drop(c) ==
  /\ IF c = cb_list
     THEN cb_list' = cbNext[c] /\ UNCHANGED cbNext
     ELSE LET p == CHOOSE q \in OnList : cbNext[q] = c
          IN  cbNext' = [cbNext EXCEPT ![p] = cbNext[c]] /\ UNCHANGED cb_list
  /\ throughout' = throughout \ {c}

\* ker_deregister_monitor, by the block's module.
ker_deregister_monitor(c) ==
  /\ c \in OnList
  /\ curr # NoMon => CbModule[c] = CbModule[curr]
  /\ Drop(c)
  /\ UNCHANGED <<curr, mon, seen>>

\* monitor_remove_all in ker_deregister_module: the first block of m only.
monitor_remove_all(m) ==
  LET mine == {i \in DOMAIN List : CbModule[List[i]] = m}
  IN  IF mine = {} THEN UNCHANGED <<cb_list, cbNext, throughout>>
      ELSE Drop(List[Min(mine)])

\* The handler of the block at the walk runs if it asked for such messages and is
\* neither the receiver of an incoming message nor the sender of an outgoing one.
Matching(c, msg) == msg.type \in CbType[c] /\ CbModule[c] # msg.other

Visit(c, msg, counts) ==
  /\ curr' = c
  /\ seen' = IF c # NoMon /\ Matching(c, msg) THEN [counts EXCEPT ![c] = @ + 1] ELSE counts

\* monitor_deliver_incoming_msg_to_monitor and monitor_deliver_outgoing_... begin.
deliver_begin(msg) ==
  /\ curr = NoMon
  /\ cb_list # NoMon
  /\ mon' = msg
  /\ throughout' = OnList
  /\ Visit(cb_list, msg, Nobody)
  /\ UNCHANGED <<cb_list, cbNext>>

\* The handler returns and the walk goes to the block's successor.
deliver_step ==
  /\ curr # NoMon
  /\ Visit(cbNext[curr], mon, seen)
  /\ UNCHANGED <<cb_list, cbNext, mon, throughout>>

--------------------------------------------------------------------------------
monTypeOK ==
  /\ cb_list \in MonCb \cup {NoMon}
  /\ cbNext \in [MonCb -> MonCb \cup {NoMon}]
  /\ curr \in MonCb \cup {NoMon}
  /\ mon \in [type : {"local", "incoming", "outgoing"}, other : Module \cup {NULL_PID}]
  /\ seen \in [MonCb -> Nat]
  /\ throughout \subseteq MonCb

\* The list holds each block once, and only blocks in the memory of live modules:
\* after ker_deregister_module the walk never reads a freed block.
MonitorsLive ==
  /\ \A i, j \in DOMAIN List : List[i] = List[j] => i = j
  /\ \A c \in OnList : CbModule[c] \in live

\* When a delivery is over, every block that was on the list all the time and
\* matches has seen the message exactly once, although handlers registered and
\* deregistered blocks during the walk.
MonitorOnce ==
  curr = NoMon => \A c \in throughout : seen[c] = IF Matching(c, mon) THEN 1 ELSE 0

\* The list of callbacks leads only to live modules, and a delivery calls each callback
\* that is registered throughout exactly once, although the handlers it calls register
\* and remove callbacks.
MonitorsSound == MonitorsLive /\ MonitorOnce
================================================================================
