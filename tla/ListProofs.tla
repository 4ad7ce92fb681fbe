------------------------------- MODULE ListProofs ------------------------------
(***************************************************************************)
(* Lemmas about numbers, sequences and linked lists for the other proofs.  *)
(***************************************************************************)
EXTENDS LinkedList, FiniteSetsExt, FiniteSetTheorems, WellFoundedInduction, TLAPS

\* A set of numbers that is not empty has a least element.
LEMMA LeastNat == ASSUME NEW K, K \subseteq Nat, K # {} PROVE \E x \in K : \A y \in K : x <= y
<1> DEFINE R == {ss \in Nat \X Nat : ss[1] < ss[2]}
<1>1. IsWellFoundedOn(R, Nat)
  <2>1. OpToRel(<, Nat) = R
    BY Zenon DEF OpToRel
  <2> QED BY <2>1, NatLessThanWellFounded, Zenon
<1>2. \A x, y \in Nat : ~(<<y, x>> \in R) => x <= y
  OBVIOUS
<1> HIDE DEF R
<1>3. \E x \in K : \A y \in K : ~(<<y, x>> \in R)
  BY <1>1, WFMin, Zenon
<1> QED BY <1>2, <1>3, Zenon

\* The least number of a set is in the set.
LEMMA MinOf == ASSUME NEW K, K \subseteq Nat, K # {} PROVE Min(K) \in K /\ \A y \in K : Min(K) <= y
BY LeastNat, Zenon DEF Min

\* Induction over the natural numbers: a set that has 0 and with n also n + 1 has
\* them all.
LEMMA NatInSet ==
  ASSUME NEW S, 0 \in S, \A n \in Nat : n \in S => n + 1 \in S
  PROVE  Nat \subseteq S
<1> DEFINE K == {n \in Nat : n \notin S}
<1> SUFFICES ASSUME K # {} PROVE FALSE
  OBVIOUS
<1>1. PICK k \in K : \A n \in K : k <= n
  BY LeastNat, Zenon
<1>2. k \in Nat /\ k # 0
  BY <1>1
<1>3. k - 1 \in Nat /\ k - 1 \notin K
  BY <1>1, <1>2
<1> QED BY <1>1, <1>2, <1>3

\* A list that ends is what following its pointers meets.
LEMMA FollowList ==
  ASSUME NEW null, NEW Node, null \notin Node, NEW s \in Seq(Node), NEW first, NEW next,
         IsList(s, first, next, null), NEW n \in Nat
  PROVE  Follow(first, next, null)[n] = IF n < Len(s) THEN s[n + 1] ELSE null
<1> DEFINE Step(f) == [k \in Nat |-> IF k = 0 THEN first
                                     ELSE IF f[k - 1] = null THEN null ELSE next[f[k - 1]]]
           f == [k \in Nat |-> IF k < Len(s) THEN s[k + 1] ELSE null]
           g == Follow(first, next, null)
<1>1. f = Step(f)
  <2>1. ASSUME NEW k \in Nat PROVE f[k] = Step(f)[k]
    <3>1. CASE k = 0
      BY <3>1 DEF IsList
    <3>2. CASE k # 0
      <4>1. k - 1 \in Nat /\ Len(s) \in Nat
        BY <3>2
      <4>2. CASE k - 1 < Len(s)
        BY <4>1, <4>2, <3>2 DEF IsList
      <4>3. CASE ~(k - 1 < Len(s))
        BY <4>1, <4>3, <3>2
      <4> QED BY <4>2, <4>3
    <3> QED BY <3>1, <3>2
  <2> QED BY <2>1
<1>2. g = Step(g)
  <2>1. g = CHOOSE h : h = Step(h)
    BY DEF Follow
  <2> HIDE DEF Step, f, g
  <2> QED BY <1>1, <2>1
<1> DEFINE S == {k \in Nat : g[k] = f[k]}
<1>3. 0 \in S
  BY <1>1, <1>2, Zenon
<1>4. \A k \in Nat : k \in S => k + 1 \in S
  <2> SUFFICES ASSUME NEW k \in Nat, g[k] = f[k] PROVE g[k + 1] = f[k + 1]
    OBVIOUS
  <2>1. Step(g)[k + 1] = IF g[k] = null THEN null ELSE next[g[k]]
    OBVIOUS
  <2>2. Step(f)[k + 1] = IF f[k] = null THEN null ELSE next[f[k]]
    OBVIOUS
  <2> HIDE DEF Step, f, g
  <2> QED BY <1>1, <1>2, <2>1, <2>2
<1>5. Nat \subseteq S
  <2> HIDE DEF S
  <2> QED BY <1>3, <1>4, NatInSet
<1> QED BY <1>5

\* A sequence without repetitions is no longer than the set of its members.
LEMMA InjectiveLen ==
  ASSUME NEW Node, IsFiniteSet(Node), NEW s \in Seq(Node),
         \A i, j \in 1..Len(s) : s[i] = s[j] => i = j
  PROVE  Len(s) <= Cardinality(Node)
<1>1. s \in Injection(1..Len(s), Node)
  BY DEF Injection, IsInjective
<1>2. Cardinality(1..Len(s)) <= Cardinality(Node)
  BY <1>1, FS_Injection
<1>3. 1 \in Int /\ Len(s) \in Int
  OBVIOUS
<1>4. Cardinality(1..Len(s)) = IF 1 > Len(s) THEN 0 ELSE Len(s) - 1 + 1
  BY <1>3, FS_Interval
<1> QED BY <1>2, <1>4

\* What a walk along the pointers of a list returns, if it is not given up early.
LEMMA ListFromList ==
  ASSUME NEW null, NEW Node, null \notin Node, NEW s \in Seq(Node), NEW first, NEW next,
         IsList(s, first, next, null), NEW bound \in Nat, Len(s) <= bound + 1
  PROVE  ListFrom(first, next, null, bound) = s
<1> DEFINE at == Follow(first, next, null)
           seen == {n \in 0..bound : at[n] # null}
<1>1. \A n \in Nat : at[n] = IF n < Len(s) THEN s[n + 1] ELSE null
  BY FollowList
<1>2. \A n \in Nat : n < Len(s) => s[n + 1] # null
  BY DEF IsList
<1> HIDE DEF at
<1>3. seen = 0..(Len(s) - 1)
  BY <1>1, <1>2
<1>4. Cardinality(seen) = Len(s)
  <2>1. Cardinality(0..(Len(s) - 1)) = Len(s)
    <3>1. Len(s) - 1 \in Int /\ 0 \in Int
      OBVIOUS
    <3>2. Cardinality(0..(Len(s) - 1)) = IF 0 > Len(s) - 1 THEN 0 ELSE Len(s) - 1 - 0 + 1
      BY <3>1, FS_Interval, Zenon
    <3> QED BY <3>2
  <2> QED BY <1>3, <2>1, Zenon
<1>5. CASE s = <<>>
  BY <1>5 DEF ListFrom, IsList
<1>6. CASE s # <<>>
  <2>1. first # null
    BY <1>6 DEF IsList
  <2>2. ListFrom(first, next, null, bound) = [i \in 1..Len(s) |-> at[i - 1]]
    BY <2>1, <1>4 DEF ListFrom, at
  <2>3. \A i \in 1..Len(s) : at[i - 1] = s[i]
    BY <1>1
  <2> QED BY <2>2, <2>3
<1> QED BY <1>5, <1>6

\* A pointer that no node of the list holds may change.
LEMMA SameList ==
  ASSUME NEW null, NEW s, NEW first, NEW next, NEW next2, IsList(s, first, next, null),
         \A x \in Range(s) : next2[x] = next[x], s \in Seq(Range(s))
  PROVE  IsList(s, first, next2, null)
BY DEF IsList, Range

\* A node is linked in at the head.
LEMMA PushList ==
  ASSUME NEW null, NEW Node, null \notin Node, NEW s \in Seq(Node), NEW first, NEW nx,
         IsList(s, first, nx, null), NEW m \in Node, \A i \in 1..Len(s) : s[i] # m,
         NEW next2, next2[m] = first, \A i \in 1..Len(s) : next2[s[i]] = nx[s[i]]
  PROVE  /\ IsList(<<m>> \o s, m, next2, null) /\ <<m>> \o s \in Seq(Node)
         /\ Len(<<m>> \o s) = Len(s) + 1 /\ (<<m>> \o s)[1] = m
         /\ \A i \in 2..(Len(s) + 1) : (<<m>> \o s)[i] = s[i - 1]
<1> DEFINE a == <<m>> \o s
<1>1. /\ a \in Seq(Node) /\ Len(a) = Len(s) + 1 /\ Len(s) \in Nat /\ a[1] = m
      /\ \A i \in 2..(Len(s) + 1) : a[i] = s[i - 1]
  OBVIOUS
<1> HIDE DEF a
<1>2. /\ first = IF s = <<>> THEN null ELSE s[1]
      /\ \A i \in 1..Len(s) : s[i] # null /\ nx[s[i]] = IF i < Len(s) THEN s[i + 1] ELSE null
      /\ \A i, j \in 1..Len(s) : s[i] = s[j] => i = j
      /\ (s = <<>> <=> Len(s) = 0)
  BY DEF IsList
<1>3. ASSUME NEW i \in 1..Len(a)
      PROVE  a[i] # null /\ next2[a[i]] = IF i < Len(a) THEN a[i + 1] ELSE null
  <2>1. CASE i = 1
    BY <1>1, <1>2, <2>1
  <2>2. CASE i # 1
    <3>1. i - 1 \in 1..Len(s) /\ a[i] = s[i - 1] /\ i \in 2..(Len(s) + 1)
      BY <1>1, <2>2
    <3>2. next2[a[i]] = IF i - 1 < Len(s) THEN s[i - 1 + 1] ELSE null
      BY <1>2, <3>1
    <3>3. i < Len(a) => a[i + 1] = s[i] /\ i - 1 < Len(s) /\ i - 1 + 1 = i
      BY <1>1, <3>1
    <3>4. ~(i < Len(a)) => ~(i - 1 < Len(s))
      BY <1>1, <3>1
    <3> QED BY <1>2, <3>1, <3>2, <3>3, <3>4
  <2> QED BY <2>1, <2>2
<1>4. ASSUME NEW i \in 1..Len(a), NEW j \in 1..Len(a), a[i] = a[j] PROVE i = j
  <2>1. i = 1 \/ (i - 1 \in 1..Len(s) /\ a[i] = s[i - 1])
    BY <1>1
  <2>2. j = 1 \/ (j - 1 \in 1..Len(s) /\ a[j] = s[j - 1])
    BY <1>1
  <2>3. CASE i = 1
    BY <1>1, <1>4, <2>2, <2>3
  <2>4. CASE i # 1
    <3>1. j # 1
      BY <1>1, <1>4, <2>1, <2>4
    <3>2. i - 1 = j - 1
      BY <1>2, <1>4, <2>1, <2>2, <2>4, <3>1
    <3> QED BY <3>2
  <2> QED BY <2>3, <2>4
<1>5. a # <<>>
  BY <1>1
<1>6. IsList(a, m, next2, null)
  BY <1>1, <1>3, <1>4, <1>5 DEF IsList
<1> QED BY <1>1, <1>6 DEF a

\* A node is linked in at the end.
LEMMA AppendList ==
  ASSUME NEW null, NEW Node, null \notin Node, NEW s \in Seq(Node), NEW first, NEW next,
         IsList(s, first, next, null), NEW m \in Node, \A i \in 1..Len(s) : s[i] # m,
         NEW next2, next2[m] = null,
         \A i \in 1..Len(s) : next2[s[i]] = IF i < Len(s) THEN next[s[i]] ELSE m
  PROVE  IsList(Append(s, m), IF s = <<>> THEN m ELSE first, next2, null)
<1> DEFINE a == Append(s, m)
<1>1. a \in Seq(Node) /\ Len(a) = Len(s) + 1 /\ a # <<>> /\ Len(s) \in Nat
  OBVIOUS
<1>2. \A i \in 1..Len(a) : a[i] = IF i <= Len(s) THEN s[i] ELSE m
  OBVIOUS
<1>3. s = <<>> <=> Len(s) = 0
  OBVIOUS
<1> HIDE DEF a
<1>4. a[1] = IF s = <<>> THEN m ELSE first
  BY <1>1, <1>2, <1>3 DEF IsList
<1>5. ASSUME NEW i \in 1..Len(a)
      PROVE  a[i] # null /\ next2[a[i]] = IF i < Len(a) THEN a[i + 1] ELSE null
  <2>1. CASE i <= Len(s)
    <3>1. i \in 1..Len(s) /\ i < Len(a) /\ a[i] = s[i] /\ i + 1 \in 1..Len(a)
      BY <1>1, <1>2, <2>1
    <3>2. a[i + 1] = IF i < Len(s) THEN s[i + 1] ELSE m
      BY <1>1, <1>2, <3>1
    <3> QED BY <3>1, <3>2 DEF IsList
  <2>2. CASE i > Len(s)
    BY <1>1, <1>2, <2>2
  <2> QED BY <1>1, <2>1, <2>2
<1>6. ASSUME NEW i \in 1..Len(a), NEW j \in 1..Len(a), a[i] = a[j] PROVE i = j
  BY <1>1, <1>2, <1>6, SMTT(30) DEF IsList
<1> QED BY <1>1, <1>4, <1>5, <1>6 DEF IsList, a

\* What is left of a sequence without its i-th member.
LEMMA WithoutIs ==
  ASSUME NEW Node, NEW s \in Seq(Node), NEW i \in 1..Len(s)
  PROVE  /\ Without(s, i) \in Seq(Node)
         /\ Len(Without(s, i)) = Len(s) - 1
         /\ \A j \in 1..(Len(s) - 1) : Without(s, i)[j] = IF j < i THEN s[j] ELSE s[j + 1]
<1>1. Len(s) \in Nat /\ i \in 1..Len(s) /\ \A j \in 1..Len(s) : s[j] \in Node
  OBVIOUS
<1>2. Len(s) - 1 \in Nat /\ \A j \in 1..(Len(s) - 1) : (IF j < i THEN s[j] ELSE s[j + 1]) \in Node
  BY <1>1
<1>. QED BY <1>1, <1>2 DEF Without

\* The i-th node is unlinked: its predecessor, or the head, takes over its pointer.
LEMMA RemoveList ==
  ASSUME NEW null, NEW Node, null \notin Node, NEW s \in Seq(Node), NEW first, NEW next,
         IsList(s, first, next, null), NEW i \in 1..Len(s), NEW next2,
         \A j \in 1..Len(s) : j # i - 1 /\ j # i => next2[s[j]] = next[s[j]],
         i > 1 => next2[s[i - 1]] = next[s[i]]
  PROVE  IsList(Without(s, i), IF i = 1 THEN next[s[1]] ELSE first, next2, null)
<1> DEFINE r == Without(s, i)
<1>1. Len(s) \in Nat /\ i \in 1..Len(s) /\ s # <<>>
  OBVIOUS
<1>2. /\ r \in Seq(Node) /\ Len(r) = Len(s) - 1
      /\ \A j \in 1..(Len(s) - 1) : r[j] = IF j < i THEN s[j] ELSE s[j + 1]
  BY <1>1, WithoutIs, Zenon
<1>3. r = <<>> <=> Len(s) = 1
  <2>1. r = <<>> <=> Len(r) = 0
    BY <1>2
  <2> QED BY <1>1, <1>2, <2>1
<1> HIDE DEF r
<1>4. (IF i = 1 THEN next[s[1]] ELSE first) = IF r = <<>> THEN null ELSE r[1]
  <2>1. CASE Len(s) = 1
    BY <1>1, <1>3, <2>1, SMTT(30) DEF IsList
  <2>2. CASE Len(s) # 1
    <3>1. r # <<>> /\ 1 \in 1..(Len(s) - 1) /\ r[1] = IF 1 < i THEN s[1] ELSE s[2]
      BY <1>1, <1>2, <1>3, <2>2, SMTT(30)
    <3> QED BY <1>1, <2>2, <3>1 DEF IsList
  <2> QED BY <2>1, <2>2
<1>5. ASSUME NEW j \in 1..Len(r)
      PROVE  r[j] # null /\ next2[r[j]] = IF j < Len(r) THEN r[j + 1] ELSE null
  <2>1. j \in 1..Len(s) /\ j + 1 \in 1..Len(s) /\ j < Len(s) /\ j \in 1..(Len(s) - 1)
    BY <1>1, <1>2, SMTT(30)
  <2>2. CASE j < i - 1
    <3>1. j < Len(r) /\ r[j] = s[j] /\ r[j + 1] = s[j + 1]
      BY <1>1, <1>2, <2>1, <2>2, SMTT(30)
    <3>2. next2[s[j]] = next[s[j]]
      BY <1>1, <2>1, <2>2
    <3> QED BY <2>1, <3>1, <3>2, SMTT(30) DEF IsList
  <2>3. CASE j = i - 1
    <3>1. r[j] = s[j] /\ i > 1 /\ (j < Len(r) => r[j + 1] = s[i + 1])
      BY <1>1, <1>2, <2>1, <2>3
    <3>2. next2[s[j]] = next[s[i]] /\ (j < Len(r) <=> i < Len(s))
      BY <1>1, <1>2, <2>1, <2>3, SMTT(30)
    <3> QED BY <1>1, <2>1, <3>1, <3>2, SMTT(30) DEF IsList
  <2>4. CASE j >= i
    <3>1. r[j] = s[j + 1] /\ (j < Len(r) => r[j + 1] = s[j + 2]) /\ (j < Len(r) <=> j + 1 < Len(s))
      BY <1>1, <1>2, <2>1, <2>4, SMTT(30)
    <3>2. next2[s[j + 1]] = next[s[j + 1]]
      BY <1>1, <2>1, <2>4
    <3>3. next[s[j + 1]] = IF j + 1 < Len(s) THEN s[j + 2] ELSE null
      <4>1. next[s[j + 1]] = IF j + 1 < Len(s) THEN s[(j + 1) + 1] ELSE null
        BY <2>1 DEF IsList
      <4> QED BY <4>1, <2>1
    <3>4. s[j + 1] # null
      BY <2>1 DEF IsList
    <3> QED BY <3>1, <3>2, <3>3, <3>4, SMTT(30)
  <2> QED BY <1>1, <2>1, <2>2, <2>3, <2>4, SMTT(30)
<1>6. ASSUME NEW j \in 1..Len(r), NEW k \in 1..Len(r), r[j] = r[k] PROVE j = k
  <2> DEFINE J == IF j < i THEN j ELSE j + 1
             K == IF k < i THEN k ELSE k + 1
  <2>1. J \in 1..Len(s) /\ K \in 1..Len(s) /\ s[J] = s[K]
    BY <1>1, <1>2, <1>6
  <2>2. J = K
    <3> HIDE DEF J, K
    <3> QED BY <2>1 DEF IsList
  <2> QED BY <1>1, <1>2, <2>2
<1> QED BY <1>4, <1>5, <1>6 DEF IsList, r

\* The members of a sequence.
LEMMA RangeIs ==
  ASSUME NEW Node, NEW s \in Seq(Node)
  PROVE  /\ s \in Seq(Range(s)) /\ Range(s) \subseteq Node
         /\ \A i \in 1..Len(s) : s[i] \in Range(s)
         /\ \A x \in Range(s) : \E i \in 1..Len(s) : x = s[i]
         /\ s # <<>> => Len(s) \in 1..Len(s)
BY DEF Range

\* The nodes of a list to which one was appended.
LEMMA AppendSet ==
  ASSUME NEW Node, NEW s \in Seq(Node), NEW m \in Node
  PROVE  Range(Append(s, m)) = Range(s) \cup {m}
<1> DEFINE a == Append(s, m)
<1>1. a \in Seq(Node) /\ Len(a) = Len(s) + 1 /\ Len(s) \in Nat /\ DOMAIN a = 1..Len(a)
      /\ DOMAIN s = 1..Len(s)
  OBVIOUS
<1>2. \A i \in 1..Len(a) : a[i] = IF i <= Len(s) THEN s[i] ELSE m
  OBVIOUS
<1> HIDE DEF a
<1>3. ASSUME NEW x \in Range(s) \cup {m} PROVE \E i \in 1..Len(a) : a[i] = x
  <2>1. CASE x = m
    BY <1>1, <1>2, <2>1
  <2>2. CASE x \in Range(s)
    <3>1. PICK i \in 1..Len(s) : x = s[i]
      BY <1>1, <2>2 DEF Range
    <3> QED BY <1>1, <1>2, <3>1
  <2> QED BY <2>1, <2>2
<1>4. ASSUME NEW i \in 1..Len(a) PROVE a[i] \in Range(s) \cup {m}
  BY <1>1, <1>2 DEF Range
<1> QED BY <1>1, <1>3, <1>4 DEF Range, a

\* The nodes of a list from which one was taken.
LEMMA WithoutRange ==
  ASSUME NEW Node, NEW s \in Seq(Node), NEW i \in 1..Len(s),
         \A j, k \in 1..Len(s) : s[j] = s[k] => j = k
  PROVE  Range(Without(s, i)) = Range(s) \ {s[i]}
<1> DEFINE r == Without(s, i)
<1>1. Len(s) \in Nat /\ DOMAIN s = 1..Len(s)
  OBVIOUS
<1>2. /\ r \in Seq(Node) /\ Len(r) = Len(s) - 1
      /\ \A j \in 1..(Len(s) - 1) : r[j] = IF j < i THEN s[j] ELSE s[j + 1]
  BY WithoutIs
<1> HIDE DEF r
<1>3. DOMAIN r = 1..(Len(s) - 1)
  BY <1>1, <1>2
<1>4. ASSUME NEW j \in 1..(Len(s) - 1) PROVE r[j] \in Range(s) \ {s[i]}
  <2> DEFINE J == IF j < i THEN j ELSE j + 1
  <2>1. J \in 1..Len(s) /\ J # i /\ r[j] = s[J]
    BY <1>1, <1>2
  <2> HIDE DEF J
  <2> QED BY <1>1, <2>1 DEF Range
<1>5. ASSUME NEW x \in Range(s) \ {s[i]} PROVE \E j \in 1..(Len(s) - 1) : r[j] = x
  <2>1. PICK k \in 1..Len(s) : x = s[k]
    BY <1>1 DEF Range
  <2> DEFINE j == IF k < i THEN k ELSE k - 1
  <2>2. k # i
    BY <2>1
  <2>3. j \in 1..(Len(s) - 1) /\ r[j] = s[k]
    BY <1>1, <1>2, <2>2
  <2> QED BY <2>1, <2>3
<1>6. Range(r) = {r[j] : j \in 1..(Len(s) - 1)}
  BY <1>3 DEF Range
<1>7. Range(r) = Range(s) \ {s[i]}
  BY <1>4, <1>5, <1>6
<1> QED BY <1>7 DEF r
================================================================================
