------------------------------- MODULE LinkedList ------------------------------
(***************************************************************************)
(* Singly linked lists in memory, as the kernel keeps its messages, module *)
(* control blocks and monitors: each node holds the pointer to the next    *)
(* one, and whoever wants the list follows the pointers from its head.     *)
(***************************************************************************)
EXTENDS Naturals, Sequences, FiniteSets, Functions

\* Where n steps along the pointers next lead from the node first.
Follow(first, next, null) ==
  LET at[n \in Nat] == IF n = 0 THEN first
                       ELSE IF at[n - 1] = null THEN null ELSE next[at[n - 1]]
  IN  at

\* The nodes that are met, in order; a walk that goes round is given up after bound.
ListFrom(first, next, null, bound) ==
  LET at == Follow(first, next, null)
      len == Cardinality({n \in 0..bound : at[n] # null})
  IN  IF first = null THEN <<>> ELSE [i \in 1..len |-> at[i - 1]]

\* What is left of a list without its i-th node.
Without(s, i) == [j \in 1..(Len(s) - 1) |-> IF j < i THEN s[j] ELSE s[j + 1]]

\* The sequence s lists the nodes from first on to the end, each once.
IsList(s, first, next, null) ==
  /\ first = IF s = <<>> THEN null ELSE s[1]
  /\ \A i \in 1..Len(s) : s[i] # null /\ next[s[i]] = IF i < Len(s) THEN s[i + 1] ELSE null
  /\ \A i, j \in 1..Len(s) : s[i] = s[j] => i = j
================================================================================
