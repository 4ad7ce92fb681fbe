----------------------------- MODULE PriorityQueue -----------------------------
(***************************************************************************)
(* What a message queue promises its users (the scheduler's schedpq, the   *)
(* queues of the radio MACs): three first-in first-out sequences, served   *)
(* in a fixed order, from which one message may also be withdrawn.  It is  *)
(* the abstract specification that MessageQueue implements.                *)
(***************************************************************************)
EXTENDS Naturals, Sequences

CONSTANT Msg

VARIABLE q    \* The messages of each class, in order of arrival.

Class == {"hq", "sq", "lq"}

Init == q = [c \in Class |-> <<>>]

\* A message that is in no queue joins the end of one.
Add(c, m) ==
  /\ \A d \in Class : \A i \in 1..Len(q[d]) : q[d][i] # m
  /\ q' = [q EXCEPT ![c] = Append(@, m)]

\* The oldest message of the first class that has one leaves.
Take(c) ==
  /\ q[c] # <<>>
  /\ c = "sq" => q["hq"] = <<>>
  /\ c = "lq" => q["hq"] = <<>> /\ q["sq"] = <<>>
  /\ q' = [q EXCEPT ![c] = Tail(@)]

\* One message leaves from any place of its queue, the others keep their order.
Withdraw(c, i) ==
  /\ i \in 1..Len(q[c])
  /\ q' = [q EXCEPT ![c] = [j \in 1..(Len(@) - 1) |-> IF j < i THEN @[j] ELSE @[j + 1]]]

Next == \E c \in Class : \/ \E m \in Msg : Add(c, m)
                         \/ Take(c)
                         \/ \E i \in 1..Len(q[c]) : Withdraw(c, i)

Spec == Init /\ [][Next]_q
================================================================================
