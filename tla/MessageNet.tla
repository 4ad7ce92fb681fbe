------------------------------- MODULE MessageNet ------------------------------
(***************************************************************************)
(* Posting over the links of a node, kernel/message_net.c.  A post takes a *)
(* header, goes through routing when it is for another node, and is handed *)
(* to every link its flags name: to the first one itself, to the others as *)
(* deep copies that are made beforehand, so that a post that runs out of   *)
(* memory has no effect.  Links and the routing module are the environment.*)
(***************************************************************************)
EXTENDS Naturals, FiniteSets, Sequences, SequencesExt

CONSTANTS Hdr,        \* Message headers, numbers.
          Payload,    \* Blocks for payloads, numbers from 1.
          Channel     \* Links the node is built with, in the order of the code.

ASSUME NetAssumption ==
  /\ Hdr \subseteq Nat /\ Payload \subseteq Nat \ {0}
  /\ ToSet(Channel) \subseteq {"radio", "uart", "i2c", "spi"}

Static == 0               \* A payload that no message owns.
NoMessage == [at |-> "free", data |-> Static, release |-> FALSE, reliable |-> FALSE,
              post |-> 0]

VARIABLES net,       \* net[h]: where header h is, and its fields
          blocks,    \* Payload blocks in use.
          netRet     \* The result of the last post.

netVars == <<net, blocks, netRet>>

Link == ToSet(Channel)
InUse == {h \in Hdr : net[h].at # "free"}

NetInit ==
  /\ net = [h \in Hdr |-> NoMessage]
  /\ blocks = {}
  /\ netRet = "ok"

\* The net and the blocks that an operation works on.
NetHeap == [net |-> net, blocks |-> blocks]
SetHeap(s) == net' = s.net /\ blocks' = s.blocks
Unused(s) == {h \in Hdr : s.net[h].at = "free"}

\* msg_dispose
msg_dispose(s, h) ==
  [net |-> [s.net EXCEPT ![h] = NoMessage],
   blocks |-> IF s.net[h].release THEN s.blocks \ {s.net[h].data} ELSE s.blocks]

\* post_long of MSG_PKT_SENDDONE about h, in a header of its own; without one the
\* message is disposed of and its sender is not told.
SendDone(s, h) ==
  IF Unused(s) = {} THEN msg_dispose(s, h)
  ELSE [s EXCEPT !.net[h].at = "inner",
                 !.net[Min(Unused(s))] = [NoMessage EXCEPT !.at = "senddone", !.post = s.net[h].post]]

\* msg_send_senddone: the payload of a message that was sent goes first.
msg_send_senddone(s, h) ==
  LET m == s.net[h]
  IN  IF ~m.reliable THEN msg_dispose(s, h)
      ELSE SendDone([net |-> [s.net EXCEPT ![h].data = Static, ![h].release = FALSE],
                     blocks |-> IF m.release THEN s.blocks \ {m.data} ELSE s.blocks], h)

\* What sos_msg_dispatch has done so far: the heap, the messages in mcopy, whether
\* memory sufficed.
Doing(s, mcopy, ok) == [heap |-> s, mcopy |-> mcopy, ok |-> ok]

\* Mutant: the copy shares the payload of the message.
msg_duplicate_shallow(d, h, l) ==
  LET s == d.heap
      g == Min(Unused(s))
  IN  IF ~d.ok THEN d
      ELSE IF Unused(s) = {} THEN [d EXCEPT !.ok = FALSE]
      ELSE Doing([s EXCEPT !.net[g] = [s.net[h] EXCEPT !.at = l, !.reliable = FALSE]],
                 Append(d.mcopy, g), TRUE)

\* msg_duplicate for link l: a header and a block of its own, or nothing when
\* either is missing.  The sender is told of the message itself, not of copies.
msg_duplicate(d, h, l) ==
  LET s == d.heap
      g == Min(Unused(s))
      b == Min(Payload \ s.blocks)
  IN  IF ~d.ok THEN d
      ELSE IF Unused(s) = {} \/ Payload \subseteq s.blocks THEN [d EXCEPT !.ok = FALSE]
      ELSE Doing([net |-> [s.net EXCEPT ![g] = [s.net[h] EXCEPT
                             !.at = l, !.data = b, !.release = TRUE, !.reliable = FALSE]],
                  blocks |-> s.blocks \cup {b}], Append(d.mcopy, g), TRUE)

\* Mutant: what was copied before the memory ran out stays.
dispatch_cleanup_first(d) == msg_dispose(d.heap, d.mcopy[1])

\* dispatch_cleanup: neither the message nor a copy is left.
dispatch_cleanup(d) == FoldLeft(msg_dispose, d.heap, d.mcopy)

\* The links of a message in the order of the code, of those that are built.
Chosen(flags) == SelectSeq(Channel, LAMBDA l : l \in flags)

\* sos_msg_find_right_link: the links that know the address, or else the radio; the
\* flag of the SPI link stays as it is.
sos_msg_find_right_link(flags, known) ==
  (flags \cap {"spi"}) \cup (IF known = {} THEN {"radio"} ELSE known)

\* The links of sos_msg_dispatch: a message without a link is disposed of, a
\* message for a link that is not built is forgotten.
ToLinks(s, h, flags) ==
  LET ls == Chosen(flags)
      first == Doing([s EXCEPT !.net[h].at = ls[1]], <<h>>, TRUE)
      d == FoldLeft(LAMBDA r, l : msg_duplicate(r, h, l), first, Tail(ls))
  IN  IF flags = {} THEN [heap |-> msg_dispose(s, h), ret |-> "ok"]
      ELSE IF ls = <<>> THEN [heap |-> s, ret |-> "ok"]
      ELSE IF d.ok THEN [heap |-> d.heap, ret |-> "ok"]
      ELSE [heap |-> dispatch_cleanup(d), ret |-> "nomem"]

\* sos_msg_dispatch of header h.  to has the address ("self", "bcast" or "node"),
\* the flags raw and auto and the links in flags, and what the environment says of
\* the address: the links that know it, and the router.
sos_msg_dispatch(s, h, to) ==
  LET routed == to.dst = "node" /\ ~to.raw
      right == sos_msg_find_right_link(to.flags, to.known)
      chosen == IF routed \/ (to.auto /\ to.dst = "node") THEN right ELSE to.flags
  IN  IF to.dst = "self" THEN [heap |-> [s EXCEPT !.net[h].at = "local"], ret |-> "ok"]
      ELSE IF routed /\ to.known = {} /\ to.route = "forwarded"
      THEN [heap |-> msg_dispose(s, h), ret |-> "ok"]
      ELSE IF routed /\ to.known = {} /\ to.route = "accepted"
      THEN [heap |-> msg_send_senddone(s, h), ret |-> "ok"]
      ELSE ToLinks(s, h, chosen)

\* post_link, with a block of the caller's (release) or static data; post differs
\* in that it takes the header's fields from a message.
post_link(release, reliable, to) ==
  LET b == IF release THEN Min(Payload \ blocks) ELSE Static
      given == [NetHeap EXCEPT !.blocks = IF release THEN @ \cup {b} ELSE @]
      h == Min(Hdr \ InUse)
      id == Min((1..(Cardinality(Hdr) + 1)) \ {net[g].post : g \in InUse})
      s == [given EXCEPT !.net[h] = [at |-> "posted", data |-> b, release |-> release,
                                     reliable |-> reliable, post |-> id]]
      r == sos_msg_dispatch(s, h, to)
  IN  /\ release => Payload \ blocks # {}
      /\ IF InUse = Hdr THEN UNCHANGED <<net, blocks>> /\ netRet' = "nomem"
         ELSE SetHeap(r.heap) /\ netRet' = r.ret

\* do_dispatch of a local message: the answer to a reliable one takes the payload
\* along.
net_dispatch(h) ==
  /\ net[h].at = "local"
  /\ SetHeap(IF net[h].reliable THEN SendDone(NetHeap, h) ELSE msg_dispose(NetHeap, h))
  /\ netRet' = "ok"

\* do_dispatch of MSG_PKT_SENDDONE h: the message in it, then itself.
net_dispatch_senddone(h) ==
  /\ net[h].at = "senddone"
  /\ \E g \in InUse : /\ net[g].at = "inner" /\ net[g].post = net[h].post
                      /\ SetHeap(msg_dispose(msg_dispose(NetHeap, g), h))
  /\ netRet' = "ok"

\* A link has sent a message or given up.
link_senddone(h) ==
  /\ net[h].at \in Link
  /\ SetHeap(msg_send_senddone(NetHeap, h))
  /\ netRet' = "ok"

--------------------------------------------------------------------------------
NetTypeOK ==
  /\ net \in [Hdr -> [at : {"free", "local", "senddone", "inner"} \cup Link,
                      data : Payload \cup {Static}, release : BOOLEAN,
                      reliable : BOOLEAN, post : 0..(Cardinality(Hdr) + 1)]]
  /\ blocks \subseteq Payload
  /\ netRet \in {"ok", "nomem"}

\* Every block has exactly one message that will free it: a deep copy has its own,
\* and none is left behind by a post that ran out of memory half way.
NetPayloads ==
  \A b \in Payload :
    Cardinality({h \in InUse : net[h].release /\ net[h].data = b}) =
      (IF b \in blocks THEN 1 ELSE 0)

\* A post that fails has no effect: no header and no block stay in use, and no
\* link has been given a message.
NetAtomic == [][netRet' = "nomem" => net' = net /\ blocks' \subseteq blocks]_netVars

\* At most one of the messages that a post became is reliable, so that the sender
\* is told at most once however many links it went to.
NetOneAnswer ==
  \A h \in InUse : Cardinality({g \in InUse : net[g].post = net[h].post /\ net[g].reliable}) <= 1

\* However many links a post goes out on, each payload block belongs to one message
\* and at most one copy reports to the sender.
NetSound == NetPayloads /\ NetOneAnswer
================================================================================
