----------------------------- MODULE MessageQueue ------------------------------
(***************************************************************************)
(* kernel/message_queue.c in the cooperative build: the three linked lists *)
(* behind mq_enqueue, mq_dequeue and mq_get, pointer by pointer.           *)
(*                                                                         *)
(* mq_dequeue leaves the tail pointer of a list it empties dangling, and a *)
(* message keeps its old next pointer after it leaves, so the lists are    *)
(* right only as long as every path looks at the head first.  Each         *)
(* operation runs inside a critical section and is one action.  hm_cnt,    *)
(* sm_cnt and lm_cnt are written and never read, and are left out.         *)
(***************************************************************************)
EXTENDS Integers, LinkedList

CONSTANTS Msg,    \* The message headers.
          Key,    \* What mq_real_get compares: ids, addresses, type, length and bytes.
          NULL

ASSUME MessageQueueAssumption == IsFiniteSet(Msg) /\ NULL \notin Msg

VARIABLES next,       \* next[m]: Message.next
          key,        \* key[m]: what m would match
          head, tail, \* hq_head, hq_tail, sq_head, ...
          msg_cnt,    \* uint8_t
          loose       \* The headers that are in the hands of the callers.

vars == <<next, key, head, tail, msg_cnt, loose>>

Class == {"hq", "sq", "lq"}
N == Cardinality(Msg)
UINT8 == 256

\* The messages a walk from head[c] along next visits.
Walk(c) == ListFrom(head[c], next, NULL, N)

Init ==
  /\ next \in [Msg -> {NULL}]
  /\ key \in [Msg -> Key]
  /\ head = [c \in Class |-> NULL]
  /\ tail = [c \in Class |-> NULL]
  /\ msg_cnt = 0
  /\ loose = Msg

\* Mutant: emptiness is read off the tail, which mq_dequeue does not reset.
mq_enqueue_tail(m, c, k) ==
  /\ m \in loose
  /\ next' = IF tail[c] = NULL THEN [next EXCEPT ![m] = NULL]
             ELSE [next EXCEPT ![m] = NULL, ![tail[c]] = m]
  /\ head' = IF tail[c] = NULL THEN [head EXCEPT ![c] = m] ELSE head
  /\ tail' = [tail EXCEPT ![c] = m]
  /\ key' = [key EXCEPT ![m] = k]
  /\ msg_cnt' = (msg_cnt + 1) % UINT8
  /\ loose' = loose \ {m}

mq_enqueue(m, c, k) ==
  /\ m \in loose
  /\ next' = IF head[c] = NULL THEN [next EXCEPT ![m] = NULL]
             ELSE [next EXCEPT ![m] = NULL, ![tail[c]] = m]
  /\ head' = IF head[c] = NULL THEN [head EXCEPT ![c] = m] ELSE head
  /\ tail' = [tail EXCEPT ![c] = m]
  /\ key' = [key EXCEPT ![m] = k]
  /\ msg_cnt' = (msg_cnt + 1) % UINT8
  /\ loose' = loose \ {m}

\* The class mq_dequeue serves: the first with a head.
mq_dequeue(c) ==
  /\ head[c] # NULL
  /\ c # "hq" => head["hq"] = NULL
  /\ c = "lq" => head["sq"] = NULL
  /\ head' = [head EXCEPT ![c] = next[@]]
  /\ msg_cnt' = (msg_cnt - 1) % UINT8
  /\ loose' = loose \cup {head[c]}
  /\ UNCHANGED <<next, key, tail>>

\* Mutant: the last message is unlinked without moving the tail back.
mq_real_get_tail(c, i) ==
  LET m == Walk(c)[i]
  IN  IF i = 1
      THEN /\ head' = [head EXCEPT ![c] = next[m]]
           /\ tail' = IF next[m] = NULL THEN [tail EXCEPT ![c] = NULL] ELSE tail
           /\ UNCHANGED next
      ELSE /\ next' = [next EXCEPT ![Walk(c)[i - 1]] = next[m]]
           /\ UNCHANGED <<head, tail>>

\* mq_real_get unlinks the i-th message of the walk.
mq_real_get(c, i) ==
  LET m == Walk(c)[i]
      prev == Walk(c)[i - 1]
  IN  IF i = 1
      THEN /\ head' = [head EXCEPT ![c] = next[m]]
           /\ tail' = IF next[m] = NULL THEN [tail EXCEPT ![c] = NULL] ELSE tail
           /\ UNCHANGED next
      ELSE IF m = tail[c]
      THEN /\ next' = [next EXCEPT ![prev] = NULL]
           /\ tail' = [tail EXCEPT ![c] = prev]
           /\ UNCHANGED head
      ELSE /\ next' = [next EXCEPT ![prev] = next[m]]
           /\ UNCHANGED <<head, tail>>

\* The places of queue c at which a message matches k.
Matches(c, k) == {i \in 1..Len(Walk(c)) : key[Walk(c)[i]] = k}

\* mq_real_get finds its first match in queue c.
Got(c, k) ==
  LET i == CHOOSE i \in Matches(c, k) : \A j \in Matches(c, k) : i <= j
  IN  /\ mq_real_get(c, i)
      /\ loose' = loose \cup {Walk(c)[i]}
      /\ msg_cnt' = (msg_cnt - 1) % UINT8
      /\ UNCHANGED key

\* The lists in which mq_get finds a match: it searches none when msg_cnt is 0,
\* and never the system queue.
Search(k) == {c \in {"hq", "lq"} : msg_cnt # 0 /\ Matches(c, k) # {}}

\* mq_get: the high priority queue, then the low priority queue.
mq_get(k) ==
  \/ "hq" \in Search(k) /\ Got("hq", k)
  \/ "hq" \notin Search(k) /\ "lq" \in Search(k) /\ Got("lq", k)

Next == \/ \E m \in Msg, c \in Class, k \in Key : mq_enqueue(m, c, k)
        \/ \E c \in Class : mq_dequeue(c)
        \/ \E k \in Key : mq_get(k)

Spec == Init /\ [][Next]_vars

--------------------------------------------------------------------------------
\* Every pointer is NULL or a header.
TypeOK ==
  /\ next \in [Msg -> Msg \cup {NULL}]
  /\ key \in [Msg -> Key]
  /\ head \in [Class -> Msg \cup {NULL}]
  /\ tail \in [Class -> Msg \cup {NULL}]
  /\ msg_cnt \in 0..(UINT8 - 1)
  /\ loose \subseteq Msg

\* The lists are separate, acyclic and hold exactly the headers their callers
\* gave away, and a list that has a head ends at its tail, whatever the order in
\* which mq_enqueue, mq_dequeue (which leaves tails dangling) and mq_get ran.
ListsSound ==
  /\ \A c \in Class : Len(Walk(c)) <= N /\ IsInjective(Walk(c))
  /\ \A c, d \in Class : c # d => Range(Walk(c)) \cap Range(Walk(d)) = {}
  /\ UNION {Range(Walk(c)) : c \in Class} = Msg \ loose
  /\ \A c \in Class : head[c] # NULL => tail[c] = Walk(c)[Len(Walk(c))]

\* msg_cnt, by which mq_get decides that there is nothing to search, counts the
\* messages of the three lists.
CountExact == msg_cnt = Cardinality(Msg \ loose) % UINT8

\* The three linked lists hold exactly the queued messages, each once, and msg_cnt
\* counts them, although mq_dequeue and mq_get leave tails dangling.
MessageQueueSound == TypeOK /\ ListsSound /\ CountExact

\* The pointers behave as three sequences: mq_enqueue appends to one, mq_dequeue
\* takes the head of the first that is not empty, mq_get withdraws one message
\* and keeps the order of the rest.
PQ == INSTANCE PriorityQueue WITH q <- [c \in Class |-> Walk(c)]
ImplementsPQ == PQ!Spec
================================================================================
