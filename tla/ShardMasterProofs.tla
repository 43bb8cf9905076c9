-------------------------- MODULE ShardMasterProofs --------------------------
(***************************************************************************)
(* The proofs about ShardMaster: the configurations are sound              *)
(* (ConfigsStaySound) and what the balancing pushes is balanced and moves  *)
(* no shard without need (BalancesAtLeastCost), for any number of shards,  *)
(* groups, clerks and requests, when Move names a group of the             *)
(* configuration.  MasterInv is the invariant: every shard is in one place *)
(* (Placed), and no group both takes shards and gives some away (OneWay).  *)
(***************************************************************************)
EXTENDS ShardMaster, SequenceTheorems, FiniteSetTheorems, TLAPS

-----------------------------------------------------------------------------
(* Sequences of shards.                                                      *)

\* push_back.
LEMMA Pushed ==
    ASSUME NEW T, NEW q \in Seq(T), NEW x \in T
    PROVE  /\ Append(q, x) \in Seq(T)
           /\ Len(q) \in Nat
           /\ Len(Append(q, x)) = Len(q) + 1
           /\ Range(Append(q, x)) = Range(q) \cup {x}
           /\ IsInjective(q) /\ x \notin Range(q) => IsInjective(Append(q, x))
<1>1. Len(q) \in Nat /\ DOMAIN q = 1..Len(q)
  BY LenProperties
<1>2. /\ Append(q, x) \in Seq(T)
      /\ Len(Append(q, x)) = Len(q) + 1
      /\ \A i \in 1..Len(q) : Append(q, x)[i] = q[i]
      /\ Append(q, x)[Len(q) + 1] = x
  BY AppendProperties
<1>3. DOMAIN Append(q, x) = 1..(Len(q) + 1)
  BY <1>2, LenProperties
<1>4. 1..(Len(q) + 1) = 1..Len(q) \cup {Len(q) + 1} /\ Len(q) + 1 \notin 1..Len(q)
  BY <1>1
<1>5. Range(Append(q, x)) = Range(q) \cup {x}
  BY <1>1, <1>2, <1>3, <1>4, Zenon DEF Range
<1>6. ASSUME IsInjective(q), x \notin Range(q) PROVE IsInjective(Append(q, x))
  <2> SUFFICES ASSUME NEW i \in 1..(Len(q) + 1), NEW j \in 1..(Len(q) + 1),
                      Append(q, x)[i] = Append(q, x)[j]
               PROVE  i = j
    BY <1>3 DEF IsInjective
  <2>1. \A k \in 1..Len(q) : q[k] # x
    BY <1>1, <1>6 DEF Range
  <2> QED BY <1>1, <1>2, <1>4, <1>6, <2>1 DEF IsInjective
<1> QED BY <1>1, <1>2, <1>5, <1>6

\* pop_back.
LEMMA Popped ==
    ASSUME NEW T, NEW q \in Seq(T), q # <<>>, IsInjective(q)
    PROVE  /\ Front(q) \in Seq(T)
           /\ Len(q) \in Nat \ {0}
           /\ Len(Front(q)) = Len(q) - 1
           /\ Last(q) \in T /\ Last(q) \in Range(q)
           /\ Range(Front(q)) = Range(q) \ {Last(q)}
           /\ IsInjective(Front(q))
<1>1. Len(q) \in Nat \ {0} /\ DOMAIN q = 1..Len(q)
  BY LenProperties, EmptySeq
<1>0. Len(q) - 1 \in Nat
  BY <1>1
<1> PICK n \in Nat : n = Len(q) - 1
  BY <1>0
<1>2. 1 \in 1..(n + 1) /\ n \in 0..Len(q) /\ Len(q) = n + 1 /\ Front(q) = SubSeq(q, 1, n)
  BY <1>1 DEF Front
<1>3. /\ SubSeq(q, 1, n) \in Seq(T)
      /\ Len(SubSeq(q, 1, n)) = n
      /\ \A i \in 1..n : SubSeq(q, 1, n)[i] = q[i]
  BY <1>1, <1>2, SubSeqProperties
<1>4. DOMAIN Front(q) = 1..n
  BY <1>2, <1>3, LenProperties
<1>5. 1..Len(q) = 1..n \cup {n + 1} /\ n + 1 \notin 1..n
  BY <1>2
<1>6. Last(q) = q[n + 1] /\ q[n + 1] \in T
  BY <1>1, <1>2, ElementOfSeq DEF Last
<1>7. \A i \in 1..n : q[i] # q[n + 1]
  BY <1>1, <1>5, <1>6 DEF IsInjective
<1>8. Range(Front(q)) = {q[i] : i \in 1..n}
  BY <1>2, <1>3, <1>4 DEF Range
<1>9. Range(q) = {q[i] : i \in 1..n} \cup {q[n + 1]}
  BY <1>1, <1>5 DEF Range
<1>10. Range(Front(q)) = Range(q) \ {Last(q)} /\ Last(q) \in Range(q)
  BY <1>6, <1>7, <1>8, <1>9
<1>11. IsInjective(Front(q))
  BY <1>1, <1>2, <1>3, <1>4, <1>5 DEF IsInjective
<1> QED BY <1>1, <1>2, <1>3, <1>6, <1>10, <1>11

\* A set of numbers that is not empty has a least one.
LEMMA LeastNumber ==
    ASSUME NEW S \in SUBSET Nat, S # {}
    PROVE  \E n \in S : \A m \in S : n <= m
<1> DEFINE T == {0..n : n \in S}
<1>1. T \subseteq FiniteSubsetsOf(Nat)
  <2> SUFFICES ASSUME NEW n \in Nat PROVE 0..n \in FiniteSubsetsOf(Nat)
    OBVIOUS
  <2>1. IsFiniteSet(0..n) /\ 0..n \subseteq Nat
    BY FS_Interval
  <2> QED BY <2>1 DEF FiniteSubsetsOf
<1>2. T # {}
  OBVIOUS
<1>3. PICK x \in T : \A y \in T : ~ (<<y, x>> \in StrictSubsetOrdering(Nat))
  <2> HIDE DEF T
  <2> QED BY <1>1, <1>2, FS_StrictSubsetOrderingWellFounded, WFMin
<1>4. PICK n \in S : x = 0..n
  OBVIOUS
<1>5. ASSUME NEW m \in S, ~(n <= m) PROVE FALSE
  <2>1. 0..m \in T /\ 0..m \in SUBSET Nat /\ 0..n \in SUBSET Nat
    OBVIOUS
  <2>2. 0..m \subseteq 0..n /\ n \notin 0..m /\ n \in 0..n
    BY <1>5
  <2>3. <<0..m, 0..n>> \in StrictSubsetOrdering(Nat)
    BY <2>1, <2>2 DEF StrictSubsetOrdering
  <2> QED BY <1>3, <1>4, <2>1, <2>3
<1> QED BY <1>5

\* The shard Assign takes is one that has no group.
LEMMA MinIn ==
    ASSUME NEW S \in SUBSET Shard, S # {}
    PROVE  Min(S) \in S
<1>1. S \in SUBSET Nat
  BY ShardMasterAssumption DEF Shard
<1>2. \E n \in S : \A m \in S : n <= m
  BY <1>1, LeastNumber
<1> QED BY <1>2 DEF Min

\* q lists the numbers of S, the least first.
Lists(q, m, S) ==
    /\ q \in [1..m -> S]
    /\ \A i, j \in 1..m : i < j => q[i] < q[j]
    /\ \A s \in S : \E i \in 1..m : q[i] = s

\* Every set of numbers below n can be so listed.
LEMMA Listing ==
    ASSUME NEW n \in Nat
    PROVE  \A S \in SUBSET (0..(n - 1)) : \E m \in Nat : \E q : Lists(q, m, S)
<1> DEFINE Good(k) == \A S \in SUBSET (0..(k - 1)) : \E m \in Nat : \E q : Lists(q, m, S)
           Bad == {k \in Nat : ~Good(k)}
<1> SUFFICES ASSUME Bad # {} PROVE FALSE
  OBVIOUS
<1>1. PICK k \in Bad : \A j \in Bad : k <= j
  BY LeastNumber
<1>2. CASE k = 0
  <2>1. \A S \in SUBSET (0..(k - 1)) : S = {}
    BY <1>2
  <2>2. Lists(<<>>, 0, {})
    BY DEF Lists
  <2> QED BY <2>1, <2>2
<1>3. CASE k # 0
  <2>1. k - 1 \in Nat /\ Good(k - 1) /\ k \in Nat
    BY <1>1, <1>3
  <2> SUFFICES ASSUME NEW S \in SUBSET (0..(k - 1)) PROVE \E m \in Nat : \E q : Lists(q, m, S)
    OBVIOUS
  <2>2. S \ {k - 1} \in SUBSET (0..((k - 1) - 1))
    BY <2>1
  <2> PICK m \in Nat : \E q : Lists(q, m, S \ {k - 1})
    BY <2>1, <2>2
  <2>3. PICK q : Lists(q, m, S \ {k - 1})
    OBVIOUS
  <2>4. CASE k - 1 \notin S
    <3>1. S \ {k - 1} = S
      BY <2>4
    <3> QED BY <2>3, <3>1
  <2>5. CASE k - 1 \in S
    <3> DEFINE r == [i \in 1..(m + 1) |-> IF i <= m THEN q[i] ELSE k - 1]
    <3>1. m + 1 \in Nat /\ \A i \in 1..(m + 1) : i \in 1..m \/ i = m + 1
      OBVIOUS
    <3>2. ASSUME NEW i \in 1..m PROVE r[i] = q[i] /\ q[i] \in S \ {k - 1} /\ q[i] < k - 1
      <4>1. i \in 1..(m + 1) /\ i <= m
        OBVIOUS
      <4>2. q[i] \in S \ {k - 1}
        BY <2>3 DEF Lists
      <4>3. q[i] \in 0..((k - 1) - 1)
        BY <2>2, <4>2
      <4> QED BY <2>1, <4>1, <4>2, <4>3
    <3>3. r[m + 1] = k - 1 /\ m + 1 \in 1..(m + 1)
      OBVIOUS
    <3>4. r \in [1..(m + 1) -> S]
      BY <2>5, <3>1, <3>2, <3>3
    <3>5. ASSUME NEW i \in 1..(m + 1), NEW j \in 1..(m + 1), i < j PROVE r[i] < r[j]
      <4>1. i \in 1..m
        BY <3>5
      <4>2. CASE j \in 1..m
        BY <2>3, <3>2, <3>5, <4>1, <4>2 DEF Lists
      <4>3. CASE j = m + 1
        BY <3>2, <3>3, <4>1, <4>3
      <4> QED BY <3>1, <4>2, <4>3
    <3>6. ASSUME NEW s \in S PROVE \E i \in 1..(m + 1) : r[i] = s
      <4>1. CASE s = k - 1
        BY <3>3, <4>1
      <4>2. CASE s # k - 1
        <5>1. PICK i \in 1..m : q[i] = s
          BY <2>3, <4>2 DEF Lists
        <5> QED BY <3>1, <3>2, <5>1
      <4> QED BY <4>1, <4>2
    <3> HIDE DEF r
    <3>7. Lists(r, m + 1, S)
      BY <3>4, <3>5, <3>6 DEF Lists
    <3> QED BY <3>1, <3>7
  <2> QED BY <2>4, <2>5
<1> QED BY <1>1, <1>2, <1>3

\* The load that balanceWorkLoad begins with holds the shards of the group, once.
LEMMA InOrderIs ==
    ASSUME NEW S \in SUBSET Shard
    PROVE  InOrder(S) \in Seq(S) /\ IsInjective(InOrder(S)) /\ Range(InOrder(S)) = S
<1>1. NShards \in Nat /\ S \in SUBSET (0..(NShards - 1)) /\ \A x \in S : x \in Int
  BY ShardMasterAssumption DEF Shard
<1> PICK m \in Nat : \E q : Lists(q, m, S)
  BY <1>1, Listing
<1>2. PICK q : Lists(q, m, S)
  OBVIOUS
<1>3. ASSUME NEW l, l \in [1..m -> S], \A i, j \in 1..m : i < j => l[i] < l[j]
      PROVE  l \in Injection(1..m, S)
  <2>1. ASSUME NEW i \in 1..m, NEW j \in 1..m, l[i] = l[j] PROVE i = j
    <3>1. l[i] \in S /\ l[j] \in S
      BY <1>3
    <3>2. l[i] \in Int /\ l[j] \in Int
      BY <1>1, <3>1
    <3> QED BY <1>3, <2>1, <3>2
  <2> QED BY <1>3, <2>1 DEF Injection, IsInjective
<1>4. IsFiniteSet(1..m) /\ Cardinality(1..m) = m
  BY FS_Interval
<1>5. Cardinality(S) = m /\ IsFiniteSet(S)
  <2>1. q \in Injection(1..m, S)
    BY <1>2, <1>3 DEF Lists
  <2>2. q \in Surjection(1..m, S)
    BY <1>2 DEF Lists, Surjection
  <2>3. q \in Bijection(1..m, S)
    BY <2>1, <2>2 DEF Bijection
  <2>4. ExistsBijection(1..m, S)
    BY <2>3 DEF ExistsBijection
  <2> QED BY <1>4, <2>4, FS_Bijection
<1>6. q \in [1..Cardinality(S) -> S] /\ \A i, j \in DOMAIN q : i < j => q[i] < q[j]
  BY <1>2, <1>5 DEF Lists
<1>7. /\ InOrder(S) \in [1..m -> S]
      /\ \A i, j \in DOMAIN InOrder(S) : i < j => InOrder(S)[i] < InOrder(S)[j]
  BY <1>5, <1>6 DEF InOrder
<1>8. InOrder(S) \in Injection(1..m, S)
  <2>1. \A i, j \in 1..m : i < j => InOrder(S)[i] < InOrder(S)[j]
    BY <1>7
  <2> QED BY <1>3, <1>7, <2>1
<1>9. InOrder(S) \in Surjection(1..m, S)
  BY <1>4, <1>5, <1>8, FS_Injection
<1>10. Range(InOrder(S)) = S
  BY <1>7, <1>9 DEF Surjection, Range
<1>11. InOrder(S) \in Seq(S)
  BY <1>7, SeqDef
<1> QED BY <1>8, <1>10, <1>11 DEF Injection

-----------------------------------------------------------------------------
(* What balanceWorkLoad keeps from one loop to the next.                     *)

Size(w, g) == Len(w.load[g])

\* The groups, and what each of them holds.
WorkTyped(w) ==
    /\ DOMAIN w = {"groups", "load", "todo"}
    /\ w.groups \in SUBSET Gids /\ w.groups # {}
    /\ w.load \in [w.groups -> Seq(Shard)]
    /\ w.todo \in SUBSET Shard
\* Every shard is in one place: without a group, or once in the load of one group.
Placed(w) ==
    /\ \A g \in w.groups : IsInjective(w.load[g]) /\ Range(w.load[g]) \cap w.todo = {}
    /\ \A g, h \in w.groups : g # h => Range(w.load[g]) \cap Range(w.load[h]) = {}
    /\ \A s \in Shard \ w.todo : \E g \in w.groups : s \in Range(w.load[g])
\* A group that has been given a shard holds at most one more than any other, and one
\* that has given a shard away at most one less, so it will not do the opposite.
Took(w, old, g) ==
    Held(old, g) \subseteq Range(w.load[g]) /\ \A h \in w.groups : Size(w, g) <= Size(w, h) + 1
Gave(w, old, g) ==
    /\ Range(w.load[g]) \subseteq Held(old, g) /\ w.todo = {}
    /\ \A h \in w.groups : Size(w, h) <= Size(w, g) + 1
OneWay(w, old) ==
    \A g \in w.groups \cap old.groups :
        Range(w.load[g]) = Held(old, g) \/ Took(w, old, g) \/ Gave(w, old, g)
WorkOK(w, old) == WorkTyped(w) /\ Placed(w) /\ OneWay(w, old)

\* The sizes of the loads are numbers.
LEMMA SizeType ==
    ASSUME NEW w, WorkTyped(w), NEW g \in w.groups
    PROVE  Size(w, g) \in Nat /\ DOMAIN w.load[g] = 1..Size(w, g) /\ w.load[g] \in Seq(Shard)
<1>1. w.load[g] \in Seq(Shard)
  BY DEF WorkTyped
<1> QED BY <1>1, LenProperties DEF Size

\* A shard without a group is pushed onto the shortest load.
LEMMA AssignKeeps ==
    ASSUME NEW w, NEW old, WorkOK(w, old), w.todo # {},
           NEW g \in Lightest(w.load), NEW s \in w.todo
    PROVE  WorkOK(Assigned(w, s, g), old)
<1> DEFINE q == w.load[g]  w2 == Assigned(w, s, g)
<1>1. WorkTyped(w) /\ Placed(w) /\ OneWay(w, old)
  BY DEF WorkOK
<1>2. /\ g \in w.groups /\ DOMAIN w.load = w.groups
      /\ \A h \in w.groups : Size(w, g) <= Size(w, h)
  BY <1>1 DEF Lightest, Load, Size, WorkTyped
<1>3. s \in Shard /\ q \in Seq(Shard) /\ s \notin Range(q)
  BY <1>1, <1>2 DEF WorkTyped, Placed
<1>4. /\ Append(q, s) \in Seq(Shard)
      /\ Len(Append(q, s)) = Len(q) + 1
      /\ Range(Append(q, s)) = Range(q) \cup {s}
      /\ IsInjective(Append(q, s))
  <2> HIDE DEF q
  <2>1. IsInjective(q)
    BY <1>1, <1>2 DEF Placed, q
  <2> QED BY <1>3, <2>1, Pushed
<1>5. /\ w2.groups = w.groups /\ w2.todo = w.todo \ {s}
      /\ w2.load = [w.load EXCEPT ![g] = Append(q, s)]
      /\ DOMAIN w2 = {"groups", "load", "todo"}
  BY <1>1 DEF Assigned, WorkTyped
<1>6. w2.load[g] = Append(q, s) /\ \A h \in w.groups : h # g => w2.load[h] = w.load[h]
  BY <1>1, <1>2, <1>5 DEF WorkTyped
<1> HIDE DEF w2
<1>7. WorkTyped(w2)
  <2>1. w2.load \in [w.groups -> Seq(Shard)]
    BY <1>1, <1>4, <1>5 DEF WorkTyped
  <2> QED BY <1>1, <1>5, <2>1 DEF WorkTyped
<1>8. Range(w2.load[g]) = Range(w.load[g]) \cup {s}
  BY <1>4, <1>6
<1>9. Placed(w2)
  <2>1. ASSUME NEW h \in w.groups
        PROVE  IsInjective(w2.load[h]) /\ Range(w2.load[h]) \cap w2.todo = {}
    <3>1. CASE h = g
      BY <1>1, <1>2, <1>4, <1>5, <1>6, <1>8, <3>1 DEF Placed
    <3>2. CASE h # g
      BY <1>1, <1>5, <1>6, <3>2 DEF Placed
    <3> QED BY <3>1, <3>2
  <2>2. \A h \in w.groups : s \notin Range(w.load[h])
    BY <1>1 DEF Placed
  <2>3. ASSUME NEW h \in w.groups, NEW k \in w.groups, h # k
        PROVE  Range(w2.load[h]) \cap Range(w2.load[k]) = {}
    <3>1. Range(w.load[h]) \cap Range(w.load[k]) = {}
      BY <1>1, <2>3 DEF Placed
    <3> QED BY <1>6, <1>8, <2>2, <2>3, <3>1
  <2>4. ASSUME NEW t \in Shard \ w2.todo PROVE \E h \in w.groups : t \in Range(w2.load[h])
    <3>1. CASE t = s
      BY <1>2, <1>8, <3>1
    <3>2. CASE t # s
      <4>1. PICK h \in w.groups : t \in Range(w.load[h])
        BY <1>1, <1>5, <3>2 DEF Placed
      <4> QED BY <1>6, <1>8, <4>1
    <3> QED BY <3>1, <3>2
  <2> QED BY <1>5, <2>1, <2>3, <2>4 DEF Placed
<1>10. \A h \in w.groups : /\ Size(w, h) \in Nat
                           /\ Size(w2, h) = IF h = g THEN Size(w, h) + 1 ELSE Size(w, h)
  BY <1>1, <1>4, <1>6, SizeType DEF Size
<1>11. OneWay(w2, old)
  <2> SUFFICES ASSUME NEW h \in w.groups \cap old.groups
               PROVE  Range(w2.load[h]) = Held(old, h) \/ Took(w2, old, h)
    BY <1>5 DEF OneWay
  <2>1. Range(w.load[h]) = Held(old, h) \/ Took(w, old, h)
    BY <1>1 DEF OneWay, Gave
  <2>2. Held(old, h) \subseteq Range(w.load[h])
    BY <2>1 DEF Took
  <2>3. CASE h = g
    <3>1. Held(old, h) \subseteq Range(w2.load[h])
      BY <1>8, <2>2, <2>3
    <3>2. \A k \in w.groups : Size(w2, h) <= Size(w2, k) + 1
      BY <1>2, <1>10, <2>3
    <3> QED BY <1>5, <3>1, <3>2 DEF Took
  <2>4. CASE h # g
    <3>1. w2.load[h] = w.load[h]
      BY <1>6, <2>4
    <3>2. CASE Took(w, old, h)
      <4>1. \A k \in w.groups : Size(w2, h) <= Size(w2, k) + 1
        BY <1>10, <2>4, <3>2 DEF Took
      <4> QED BY <1>5, <2>2, <3>1, <4>1 DEF Took
    <3> QED BY <2>1, <3>1, <3>2
  <2> QED BY <2>3, <2>4
<1> QED BY <1>7, <1>9, <1>11 DEF WorkOK, w2

\* A number that leaves a rest is not divided.
LEMMA NotDivided ==
    ASSUME NEW k \in Nat \ {0}, NEW m \in Nat, NEW b \in 1..(k - 1)
    PROVE  (k * m + b) % k # 0
<1>1. k * m \in Nat
  OBVIOUS
<1> PICK x \in Nat : x = k * m + b
  BY <1>1
<1>2. x % k = 0 => \E q \in Int : x = k * q
  <2>1. x = k * (x \div k) + (x % k)
    OBVIOUS
  <2>2. x \div k \in Int
    OBVIOUS
  <2> QED BY <2>1, <2>2
<1>3. ASSUME NEW q \in Int, x = k * q PROVE FALSE
  <2>1. k * (q - m) = b
    BY <1>3
  <2>2. CASE q - m <= 0
    <3>1. k * (q - m) <= 0
      BY <2>2
    <3> QED BY <2>1, <3>1
  <2>3. CASE q - m >= 1
    <3>1. k * (q - m) >= k
      BY <2>3
    <3> QED BY <2>1, <3>1
  <2> QED BY <2>2, <2>3
<1> QED BY <1>2, <1>3

\* The first numbers.
LEMMA FirstNumbers ==
    ASSUME NEW n \in Nat
    PROVE  IsFiniteSet(1..n) /\ Cardinality(1..n) = n
BY FS_Interval

\* The places in the loads are as many as the shards, once all are assigned.
Places(w, n) == {p \in w.groups \X (1..n) : p[2] <= Size(w, p[1])}
\* A place per shard.
LEMMA PlacesCount ==
    ASSUME NEW w, WorkTyped(w), Placed(w), w.todo = {},
           NEW n \in Nat, \A g \in w.groups : Size(w, g) <= n
    PROVE  IsFiniteSet(Places(w, n)) /\ Cardinality(Places(w, n)) = NShards
<1>0. IsFiniteSet(1..n)
  BY FirstNumbers
<1> DEFINE P == Places(w, n)
           F == [p \in P |-> w.load[p[1]][p[2]]]
<1>1. IsFiniteSet(w.groups)
  BY FS_Subset, ShardMasterAssumption DEF WorkTyped
<1>2. IsFiniteSet(w.groups \X (1..n))
  BY <1>0, <1>1, FS_Product
<1>3. IsFiniteSet(P)
  BY <1>2, FS_Subset DEF Places
<1>4. ASSUME NEW g \in w.groups, NEW i \in 1..Size(w, g) PROVE <<g, i>> \in P
  BY <1>4, SizeType DEF Places
<1>5. ASSUME NEW p \in P
      PROVE  /\ p[1] \in w.groups /\ p[2] \in 1..Size(w, p[1])
             /\ p = <<p[1], p[2]>> /\ p[2] \in DOMAIN w.load[p[1]]
             /\ w.load[p[1]][p[2]] \in Shard
             /\ w.load[p[1]][p[2]] \in Range(w.load[p[1]])
  <2>1. p[1] \in w.groups /\ p[2] \in 1..Size(w, p[1]) /\ p = <<p[1], p[2]>>
    BY SizeType DEF Places
  <2>2. DOMAIN w.load[p[1]] = 1..Size(w, p[1]) /\ w.load[p[1]] \in Seq(Shard)
    BY <2>1, SizeType
  <2>3. w.load[p[1]][p[2]] \in Shard
    BY <2>1, <2>2, ElementOfSeq DEF Size
  <2> QED BY <2>1, <2>2, <2>3 DEF Range
<1> HIDE DEF P
<1>6. F \in [P -> Shard]
  BY <1>5
<1>7. ASSUME NEW p \in P, NEW r \in P, F[p] = F[r] PROVE p = r
  <2>1. w.load[p[1]][p[2]] = w.load[r[1]][r[2]]
    BY <1>7
  <2>2. p[1] = r[1]
    BY <1>5, <2>1 DEF Placed
  <2>3. p[2] = r[2]
    BY <1>5, <2>1, <2>2 DEF Placed, IsInjective
  <2> QED BY <1>5, <2>2, <2>3
<1>8. ASSUME NEW s \in Shard PROVE \E p \in P : F[p] = s
  <2>1. PICK g \in w.groups : s \in Range(w.load[g])
    BY DEF Placed
  <2>2. PICK i \in 1..Size(w, g) : w.load[g][i] = s
    BY <2>1, SizeType DEF Range
  <2>3. <<g, i>> \in P
    BY <1>4
  <2> QED BY <2>2, <2>3
<1> HIDE DEF F
<1>9. F \in Bijection(P, Shard)
  <2>1. F \in Injection(P, Shard)
    BY <1>6, <1>7 DEF Injection, IsInjective
  <2>2. F \in Surjection(P, Shard)
    BY <1>6, <1>8 DEF Surjection
  <2> QED BY <2>1, <2>2 DEF Bijection
<1>10. ExistsBijection(P, Shard)
  BY <1>9 DEF ExistsBijection
<1>11. Cardinality(Shard) = Cardinality(P)
  BY <1>3, <1>10, FS_Bijection
<1>12. Cardinality(Shard) = NShards
  BY FS_Interval, ShardMasterAssumption DEF Shard
<1> QED BY <1>3, <1>11, <1>12 DEF P

\* While the second loop goes on the longest load and the shortest differ by two, also
\* when the loads have to be equal: if they differed by one, the number of groups
\* would not divide that of the shards.
LEMMA SpreadWide ==
    ASSUME NEW w, WorkTyped(w), Placed(w), w.todo = {}, Spread(w.groups, w.load),
           NEW g \in Lightest(w.load), NEW h \in Heaviest(w.load)
    PROVE  g \in w.groups /\ h \in w.groups /\ Size(w, h) >= Size(w, g) + 2
<1>1. /\ g \in w.groups /\ h \in w.groups /\ DOMAIN w.load = w.groups
      /\ \A x \in w.groups : Size(w, x) \in Nat /\ Size(w, g) <= Size(w, x) /\ Size(w, x) <= Size(w, h)
  BY SizeType DEF Lightest, Heaviest, Load, Size, WorkTyped
<1>2. CASE NShards % Cardinality(w.groups) # 0
  <2>1. PICK a \in w.groups, b \in w.groups : Size(w, a) - Size(w, b) > 1
    BY <1>1, <1>2 DEF Spread, Load, Size
  <2> QED BY <1>1, <2>1
<1>3. CASE NShards % Cardinality(w.groups) = 0
  <2>1. PICK a \in w.groups, b \in w.groups : Size(w, a) # Size(w, b)
    BY <1>1, <1>3 DEF Spread, Load, Size
  <2> SUFFICES ASSUME ~(Size(w, h) >= Size(w, g) + 2) PROVE FALSE
    BY <1>1
  <2> PICK m \in Nat : m = Size(w, g)
    BY <1>1
  <2>2. Size(w, h) = m + 1 /\ \A x \in w.groups : Size(w, x) \in {m, m + 1}
    BY <1>1, <2>1
  <2> DEFINE Big == {x \in w.groups : Size(w, x) = m + 1}
             P == Places(w, m + 1)
  <2>3. IsFiniteSet(P) /\ Cardinality(P) = NShards
    BY <2>2, PlacesCount
  <2>4. IsFiniteSet(w.groups) /\ IsFiniteSet(Big)
    BY FS_Subset, ShardMasterAssumption DEF WorkTyped
  <2>5. Big \subseteq w.groups /\ g \in w.groups \ Big /\ h \in Big
    BY <1>1, <2>2
  <2>6. /\ Cardinality(w.groups) \in Nat \ {0} /\ Cardinality(Big) \in Nat
        /\ Cardinality(Big) \in 1..(Cardinality(w.groups) - 1)
    <3>1. Cardinality(w.groups) \in Nat /\ Cardinality(Big) \in Nat
      BY <2>4, FS_CardinalityType
    <3>2. Cardinality(Big) # 0 /\ Cardinality(w.groups) # 0
      BY <2>4, <2>5, FS_EmptySet
    <3>3. Cardinality(Big) <= Cardinality(w.groups) /\ Cardinality(Big) # Cardinality(w.groups)
      BY <2>4, <2>5, FS_Subset
    <3> QED BY <3>1, <3>2, <3>3
  <2>7. P = (w.groups \X (1..m)) \cup (Big \X {m + 1})
    <3>1. ASSUME NEW p \in P PROVE p \in w.groups \X (1..m) \/ p \in Big \X {m + 1}
      <4>1. p[1] \in w.groups /\ p[2] \in 1..(m + 1) /\ p[2] <= Size(w, p[1]) /\ p = <<p[1], p[2]>>
        BY DEF Places
      <4> QED BY <2>2, <4>1
    <3>2. ASSUME NEW x \in w.groups, NEW i \in 1..m PROVE <<x, i>> \in P
      BY <2>2 DEF Places
    <3>3. ASSUME NEW x \in Big PROVE <<x, m + 1>> \in P
      BY <2>2 DEF Places
    <3> HIDE DEF P
    <3> QED BY <3>1, <3>2, <3>3
  <2>8. (w.groups \X (1..m)) \cap (Big \X {m + 1}) = {}
    BY m + 1 \notin 1..m
  <2> HIDE DEF Big
  <2>9. /\ IsFiniteSet(w.groups \X (1..m)) /\ IsFiniteSet(Big \X {m + 1})
        /\ Cardinality(w.groups \X (1..m)) = Cardinality(w.groups) * m
        /\ Cardinality(Big \X {m + 1}) = Cardinality(Big) * 1
    <3>1. IsFiniteSet(1..m) /\ Cardinality(1..m) = m
      BY FirstNumbers
    <3>2. IsFiniteSet({m + 1}) /\ Cardinality({m + 1}) = 1
      BY FS_Singleton
    <3>3. /\ IsFiniteSet(w.groups \X (1..m))
          /\ Cardinality(w.groups \X (1..m)) = Cardinality(w.groups) * Cardinality(1..m)
      BY <2>4, <3>1, FS_Product
    <3>4. /\ IsFiniteSet(Big \X {m + 1})
          /\ Cardinality(Big \X {m + 1}) = Cardinality(Big) * Cardinality({m + 1})
      BY <2>4, <3>2, FS_Product
    <3> QED BY <3>1, <3>2, <3>3, <3>4
  <2>10. Cardinality(P) = Cardinality(w.groups) * m + Cardinality(Big)
    <3>1. Cardinality((w.groups \X (1..m)) \cup (Big \X {m + 1})) =
             Cardinality(w.groups \X (1..m)) + Cardinality(Big \X {m + 1}) -
             Cardinality((w.groups \X (1..m)) \cap (Big \X {m + 1}))
      BY <2>9, FS_Union
    <3>2. Cardinality((w.groups \X (1..m)) \cap (Big \X {m + 1})) = 0
      BY <2>8, FS_EmptySet
    <3>3. Cardinality(P) = Cardinality(w.groups \X (1..m)) + Cardinality(Big \X {m + 1}) - 0
      BY <2>7, <3>1, <3>2
    <3> HIDE DEF P
    <3> QED BY <2>6, <2>9, <3>3
  <2> QED BY <1>3, <2>3, <2>6, <2>10, NotDivided
<1> QED BY <1>2, <1>3

\* A longest load gives its last shard to a shortest one.
LEMMA EvenKeeps ==
    ASSUME NEW w, NEW old, WorkOK(w, old), w.todo = {}, Spread(w.groups, w.load),
           NEW g \in Lightest(w.load), NEW h \in Heaviest(w.load)
    PROVE  WorkOK([w EXCEPT !.load = Given(@, h, g)], old)
<1> DEFINE p == w.load[g]  q == w.load[h]  s == Last(q)
           w2 == [w EXCEPT !.load = Given(@, h, g)]
<1>1. WorkTyped(w) /\ Placed(w) /\ OneWay(w, old)
  BY DEF WorkOK
<1>2. /\ g \in w.groups /\ h \in w.groups /\ DOMAIN w.load = w.groups
      /\ \A x \in w.groups : Size(w, x) \in Nat /\ Size(w, g) <= Size(w, x) /\ Size(w, x) <= Size(w, h)
      /\ Size(w, h) >= Size(w, g) + 2
  BY <1>1, SizeType, SpreadWide DEF Lightest, Heaviest, Load, Size, WorkTyped
<1>3. g # h /\ p \in Seq(Shard) /\ q \in Seq(Shard) /\ q # <<>> /\ IsInjective(p) /\ IsInjective(q)
  <2>1. Len(<<>>) = 0
    BY EmptySeq
  <2>2. q # <<>>
    BY <1>2, <2>1 DEF Size
  <2> QED BY <1>1, <1>2, <2>2 DEF WorkTyped, Placed
<1>4. /\ Front(q) \in Seq(Shard) /\ Len(q) \in Nat /\ Len(Front(q)) = Len(q) - 1
      /\ s \in Shard /\ s \in Range(q) /\ Range(Front(q)) = Range(q) \ {s}
      /\ IsInjective(Front(q))
  <2> HIDE DEF q
  <2> QED BY <1>3, Popped
<1>5. s \notin Range(p) /\ Range(p) \cap Range(q) = {}
  BY <1>1, <1>2, <1>3, <1>4 DEF Placed
<1>6. /\ Append(p, s) \in Seq(Shard) /\ Len(p) \in Nat /\ Len(Append(p, s)) = Len(p) + 1
      /\ Range(Append(p, s)) = Range(p) \cup {s} /\ IsInjective(Append(p, s))
  <2> HIDE DEF p, s
  <2> QED BY <1>3, <1>4, <1>5, Pushed
<1>7. /\ w2.groups = w.groups /\ w2.todo = {} /\ DOMAIN w2 = {"groups", "load", "todo"}
      /\ w2.load = Given(w.load, h, g)
  BY <1>1 DEF WorkTyped
<1>8. Given(w.load, h, g) = [w.load EXCEPT ![g] = Append(p, s), ![h] = Front(q)]
  BY <1>3 DEF Given
<1>9. /\ w2.load[g] = Append(p, s) /\ w2.load[h] = Front(q)
      /\ \A x \in w.groups : x # g /\ x # h => w2.load[x] = w.load[x]
  BY <1>1, <1>2, <1>3, <1>7, <1>8 DEF WorkTyped
<1>10. w2.load \in [w.groups -> Seq(Shard)]
  BY <1>1, <1>4, <1>6, <1>7, <1>8 DEF WorkTyped
<1> HIDE DEF w2
<1>11. WorkTyped(w2)
  BY <1>1, <1>7, <1>10 DEF WorkTyped
<1>12. /\ Range(w2.load[g]) = Range(w.load[g]) \cup {s}
       /\ Range(w2.load[h]) = Range(w.load[h]) \ {s}
       /\ s \in Range(w.load[h])
  BY <1>4, <1>6, <1>9
<1>13. Size(w2, g) = Size(w, g) + 1 /\ Size(w2, h) = Size(w, h) - 1
       /\ \A x \in w.groups : x # g /\ x # h => Size(w2, x) = Size(w, x)
  BY <1>4, <1>6, <1>9 DEF Size
<1> HIDE DEF s, p, q
<1>14. Placed(w2)
  <2>1. ASSUME NEW x \in w.groups PROVE IsInjective(w2.load[x]) /\ Range(w2.load[x]) \cap w2.todo = {}
    BY <1>1, <1>4, <1>6, <1>7, <1>9 DEF Placed
  <2>2. \A x \in w.groups : x # h => s \notin Range(w.load[x])
    BY <1>1, <1>2, <1>12 DEF Placed
  <2>3. ASSUME NEW x \in w.groups, NEW y \in w.groups, x # y
        PROVE  Range(w2.load[x]) \cap Range(w2.load[y]) = {}
    <3>1. Range(w.load[x]) \cap Range(w.load[y]) = {}
      BY <1>1, <2>3 DEF Placed
    <3> QED BY <1>3, <1>9, <1>12, <2>2, <2>3, <3>1
  <2>4. ASSUME NEW t \in Shard PROVE \E x \in w.groups : t \in Range(w2.load[x])
    <3>1. PICK x \in w.groups : t \in Range(w.load[x])
      BY <1>1 DEF Placed
    <3> QED BY <1>2, <1>3, <1>9, <1>12, <3>1
  <2> QED BY <1>7, <2>1, <2>3, <2>4 DEF Placed
<1>15. OneWay(w2, old)
  <2> SUFFICES ASSUME NEW x \in w.groups \cap old.groups
               PROVE  \/ Range(w2.load[x]) = Held(old, x)
                      \/ Took(w2, old, x) \/ Gave(w2, old, x)
    BY <1>7 DEF OneWay
  <2>1. Range(w.load[x]) = Held(old, x) \/ Took(w, old, x) \/ Gave(w, old, x)
    BY <1>1 DEF OneWay
  <2>2. CASE x = g
    <3>1. ~Gave(w, old, x)
      BY <1>2, <2>2 DEF Gave
    <3>2. Held(old, x) \subseteq Range(w2.load[x])
      BY <1>12, <2>1, <2>2, <3>1 DEF Took
    <3>3. \A y \in w.groups : Size(w2, x) <= Size(w2, y) + 1
      BY <1>2, <1>3, <1>13, <2>2
    <3> QED BY <1>7, <3>2, <3>3 DEF Took
  <2>3. CASE x = h
    <3>1. ~Took(w, old, x)
      BY <1>2, <2>3 DEF Took
    <3>2. Range(w2.load[x]) \subseteq Held(old, x)
      BY <1>12, <2>1, <2>3, <3>1 DEF Gave
    <3>3. \A y \in w.groups : Size(w2, y) <= Size(w2, x) + 1
      BY <1>2, <1>3, <1>13, <2>3
    <3> QED BY <1>7, <3>2, <3>3 DEF Gave
  <2>4. CASE x # g /\ x # h
    <3>1. w2.load[x] = w.load[x] /\ Size(w2, x) = Size(w, x)
      BY <1>9, <1>13, <2>4
    <3>2. CASE Took(w, old, x)
      <4>1. \A y \in w.groups : Size(w, x) <= Size(w, y) + 1
        BY <3>2 DEF Took
      <4>2. \A y \in w.groups : Size(w2, x) <= Size(w2, y) + 1
        BY <1>2, <1>13, <3>1, <4>1
      <4> QED BY <1>7, <3>1, <3>2, <4>2 DEF Took
    <3>3. CASE Gave(w, old, x)
      <4>1. \A y \in w.groups : Size(w, y) <= Size(w, x) + 1
        BY <3>3 DEF Gave
      <4>2. \A y \in w.groups : Size(w2, y) <= Size(w2, x) + 1
        BY <1>2, <1>13, <3>1, <4>1
      <4> QED BY <1>7, <3>1, <3>3, <4>2 DEF Gave
    <3> QED BY <2>1, <3>1, <3>2, <3>3
  <2> QED BY <2>2, <2>3, <2>4
<1> QED BY <1>11, <1>14, <1>15 DEF WorkOK, w2

\* balanceWorkLoad begins with what the groups that stay have held.
Begun(groups, shards) ==
    [groups |-> groups, load |-> WorkLoad(groups, shards), todo |-> {s \in Shard : shards[s] = 0}]
\* The first step of balanceWorkLoad loses no shard and moves none.
LEMMA StartsOK ==
    ASSUME NEW groups \in SUBSET Gids, groups # {},
           NEW shards \in [Shard -> groups \cup {0}],
           NEW old, \A g \in groups \cap old.groups : \A s \in Shard :
                       shards[s] = g <=> old.shards[s] = g
    PROVE  WorkOK(Begun(groups, shards), old)
<1> DEFINE w == Begun(groups, shards)  Of(g) == {s \in Shard : shards[s] = g}
<1>1. 0 \notin Gids
  BY ShardMasterAssumption
<1>2. Range(shards) \ {0} \subseteq groups
  BY DEF Range
<1>3. /\ DOMAIN w = {"groups", "load", "todo"} /\ w.groups = groups
      /\ w.todo = {s \in Shard : shards[s] = 0}
      /\ w.load = [g \in groups |-> InOrder(Of(g))]
  BY <1>2 DEF Begun, WorkLoad
<1>4. ASSUME NEW g \in groups
      PROVE  /\ w.load[g] \in Seq(Shard)
             /\ IsInjective(w.load[g]) /\ Range(w.load[g]) = Of(g)
  <2>1. Of(g) \in SUBSET Shard /\ w.load[g] = InOrder(Of(g))
    BY <1>3
  <2> HIDE DEF Of
  <2>2. InOrder(Of(g)) \in Seq(Of(g)) /\ IsInjective(InOrder(Of(g))) /\ Range(InOrder(Of(g))) = Of(g)
    BY <2>1, InOrderIs
  <2>3. InOrder(Of(g)) \in Seq(Shard)
    BY <2>1, <2>2, SeqMonotonic
  <2> QED BY <2>1, <2>2, <2>3
<1>5. WorkTyped(w)
  <2>1. w.load \in [groups -> Seq(Shard)]
    BY <1>3, <1>4
  <2> QED BY <1>3, <2>1 DEF WorkTyped
<1> HIDE DEF w
<1>6. Placed(w)
  BY <1>1, <1>3, <1>4 DEF Placed
<1>7. OneWay(w, old)
  BY <1>3, <1>4 DEF OneWay, Held
<1> QED BY <1>5, <1>6, <1>7 DEF WorkOK, w

\* What is pushed onto configs: each group holds what its load lists.
Result(w) == [groups |-> w.groups, shards |-> [s \in Shard |-> Owner(w.load, s)]]
\* The pushed configuration gives each shard to the group whose load lists it.
LEMMA ResultIs ==
    ASSUME NEW w, WorkTyped(w), Placed(w), w.todo = {}
    PROVE  /\ Result(w) \in Config
           /\ \A s \in Shard : Result(w).shards[s] \in Result(w).groups
           /\ \A g \in w.groups : /\ Held(Result(w), g) = Range(w.load[g])
                                  /\ Cardinality(Held(Result(w), g)) = Size(w, g)
<1>1. DOMAIN w.load = w.groups /\ w.groups \in SUBSET Gids
  BY DEF WorkTyped
<1>2. ASSUME NEW s \in Shard
      PROVE  Owner(w.load, s) \in w.groups /\ s \in Range(w.load[Owner(w.load, s)])
  <2>1. \E g \in w.groups : s \in Range(w.load[g])
    BY DEF Placed
  <2> QED BY <1>1, <2>1 DEF Owner
<1>3. /\ Result(w).groups = w.groups
      /\ Result(w).shards = [s \in Shard |-> Owner(w.load, s)]
  BY DEF Result
<1>4. \A s \in Shard : Result(w).shards[s] = Owner(w.load, s)
  BY <1>3
<1>5. Result(w) \in Config
  <2>1. [s \in Shard |-> Owner(w.load, s)] \in [Shard -> Gids \cup {0}]
    BY <1>1, <1>2
  <2> QED BY <1>1, <2>1 DEF Result, Config
<1>6. ASSUME NEW g \in w.groups
      PROVE  Held(Result(w), g) = Range(w.load[g]) /\ Cardinality(Held(Result(w), g)) = Size(w, g)
  <2>1. DOMAIN w.load[g] = 1..Size(w, g) /\ Size(w, g) \in Nat /\ w.load[g] \in Seq(Shard)
    BY SizeType
  <2>2. \A i \in 1..Size(w, g) : w.load[g][i] \in Shard
    BY <2>1, ElementOfSeq DEF Size
  <2>3. Range(w.load[g]) \subseteq Shard
    BY <2>1, <2>2 DEF Range
  <2>4. ASSUME NEW s \in Shard PROVE Owner(w.load, s) = g <=> s \in Range(w.load[g])
    BY <1>2, <2>4 DEF Placed
  <2>5. Held(Result(w), g) = Range(w.load[g])
    BY <1>4, <2>3, <2>4 DEF Held
  <2>6. w.load[g] \in Bijection(1..Size(w, g), Range(w.load[g]))
    <3>1. w.load[g] \in [1..Size(w, g) -> Range(w.load[g])]
      <4>1. w.load[g] = [i \in 1..Size(w, g) |-> w.load[g][i]]
        BY <2>1, SeqDef
      <4>2. \A i \in 1..Size(w, g) : w.load[g][i] \in Range(w.load[g])
        BY <2>1 DEF Range
      <4> QED BY <4>1, <4>2
    <3>2. \A t \in Range(w.load[g]) : \E i \in 1..Size(w, g) : w.load[g][i] = t
      BY <2>1 DEF Range
    <3>3. IsInjective(w.load[g])
      BY DEF Placed
    <3> QED BY <3>1, <3>2, <3>3 DEF Bijection, Injection, Surjection
  <2>7. Cardinality(Range(w.load[g])) = Size(w, g)
    BY <2>1, <2>6, FS_CountingElements DEF ExistsBijection
  <2> QED BY <2>5, <2>7
<1> QED BY <1>2, <1>3, <1>4, <1>5, <1>6

-----------------------------------------------------------------------------
(* The inductive invariant.                                                  *)

\* A shard belongs to a group of its configuration, or to none in the first.
ConfigsInv ==
    /\ configs \in Seq(Config) /\ configs # <<>> /\ configs[1].groups = {} /\ AllOwned
    /\ \A i \in 1..Len(configs) : \A s \in Shard : configs[i].shards[s] \in configs[i].groups \cup {0}
\* What the balancing has moved is measured against the last configuration.
WorkInv == work = Idle \/ \E w : work = <<w>> /\ WorkOK(w, Last(configs))
\* A configuration, or the balancing for one, for every request at most.
CountInv ==
    /\ clientSeq \in [Clerks -> 0..MaxRequest]
    /\ IsFiniteSet(Applied) /\ OneConfigPerRequest
MasterInv == ConfigsInv /\ WorkInv /\ CountInv

\* What the runs check follows from the invariant.
LEMMA MasterInvImplies == MasterInv => ConfigsSound
<1> SUFFICES ASSUME MasterInv PROVE ConfigsSound
  OBVIOUS
<1>1. MasterTypeOK
  <2>1. ASSUME NEW w, work = <<w>>, WorkOK(w, Last(configs))
        PROVE  /\ work[1] = w /\ w.groups \subseteq Gids /\ w.todo \subseteq Shard
               /\ \A g \in DOMAIN w.load : IsInjective(w.load[g])
    BY <2>1 DEF WorkOK, WorkTyped, Placed
  <2>2. work # Idle => \E w : work = <<w>> /\ WorkOK(w, Last(configs))
    BY DEF MasterInv, WorkInv
  <2> QED BY <2>1, <2>2 DEF MasterInv, ConfigsInv, CountInv, MasterTypeOK
<1>2. NoShardLost
  <2> SUFFICES ASSUME work # Idle, NEW s \in Shard
               PROVE  Cardinality({g \in DOMAIN work[1].load : s \in Range(work[1].load[g])}) =
                         IF s \in work[1].todo THEN 0 ELSE 1
    BY DEF NoShardLost
  <2>1. PICK w : work = <<w>> /\ WorkOK(w, Last(configs))
    BY DEF MasterInv, WorkInv
  <2>2. work[1] = w /\ DOMAIN w.load = w.groups /\ Placed(w)
    BY <2>1 DEF WorkOK, WorkTyped
  <2> DEFINE at == {g \in w.groups : s \in Range(w.load[g])}
  <2>3. {g \in DOMAIN work[1].load : s \in Range(work[1].load[g])} = at
    BY <2>2
  <2>4. Cardinality(at) = IF s \in w.todo THEN 0 ELSE 1
    <3>1. CASE s \in w.todo
      <4>1. at = {}
        BY <2>2, <3>1 DEF Placed
      <4> QED BY <3>1, <4>1, FS_EmptySet
    <3>2. CASE s \notin w.todo
      <4>1. PICK g \in w.groups : at = {g}
        <5>1. PICK g \in w.groups : s \in Range(w.load[g])
          BY <2>2, <3>2 DEF Placed
        <5> QED BY <2>2, <5>1 DEF Placed
      <4>2. Cardinality({g}) = 1
        BY FS_Singleton
      <4> QED BY <3>2, <4>1, <4>2
    <3> QED BY <3>1, <3>2
  <2> HIDE DEF at
  <2> QED BY <2>2, <2>3, <2>4
<1> QED BY <1>1, <1>2 DEF MasterInv, ConfigsInv, CountInv, ConfigsSound

\* One configuration without groups, and nothing applied.
LEMMA MasterInitOK == MasterInit => MasterInv
<1> SUFFICES ASSUME MasterInit PROVE MasterInv
  OBVIOUS
<1>1. NoConfig \in Config /\ NoConfig.groups = {} /\ \A s \in Shard : NoConfig.shards[s] = 0
  BY DEF NoConfig, Config
<1>2. configs = <<NoConfig>> /\ Len(configs) = 1 /\ configs[1] = NoConfig /\ configs # <<>>
  BY DEF MasterInit
<1>3. configs \in Seq(Config)
  BY <1>1, <1>2
<1>4. ConfigsInv
  <2>1. \A i \in 1..1 : i = 1
    OBVIOUS
  <2>2. \A i \in 1..Len(configs) : i = 1
    BY <1>2, <2>1
  <2>3. 2..Len(configs) = {}
    BY <1>2
  <2>4. AllOwned
    BY <2>3 DEF AllOwned
  <2> QED BY <1>1, <1>2, <1>3, <2>2, <2>4 DEF ConfigsInv
<1>5. CountInv
  <2>1. MaxRequest \in Nat /\ clientSeq = [c \in Clerks |-> 0] /\ work = <<>>
    BY ShardMasterAssumption DEF MasterInit, Idle
  <2>2. Applied = {}
    BY <2>1 DEF Applied
  <2>3. IsFiniteSet(Applied) /\ Cardinality(Applied) = 0
    BY <2>2, FS_EmptySet
  <2>4. Len(work) = 0
    BY <2>1
  <2>5. OneConfigPerRequest
    BY <1>2, <2>3, <2>4 DEF OneConfigPerRequest
  <2> QED BY <2>1, <2>3, <2>5 DEF CountInv
<1> QED BY <1>4, <1>5 DEF MasterInv, WorkInv, MasterInit

\* push_back of a configuration that gives every shard to one of its groups.
LEMMA ConfigPushed ==
    ASSUME ConfigsInv, NEW config \in Config,
           \A s \in Shard : config.shards[s] \in config.groups,
           configs' = Append(configs, config)
    PROVE  ConfigsInv' /\ Last(configs') = config /\ Len(configs') = Len(configs) + 1
<1>1. configs \in Seq(Config) /\ Len(configs) \in Nat \ {0} /\ 1 \in 1..Len(configs)
  BY EmptySeq DEF ConfigsInv
<1>2. /\ configs' \in Seq(Config) /\ Len(configs') = Len(configs) + 1
      /\ \A i \in 1..Len(configs) : configs'[i] = configs[i]
      /\ configs'[Len(configs) + 1] = config
  BY <1>1, AppendProperties
<1>3. configs' # <<>> /\ configs'[1].groups = {}
  BY <1>1, <1>2, EmptySeq DEF ConfigsInv
<1>4. \A i \in 1..Len(configs') : i \in 1..Len(configs) \/ i = Len(configs) + 1
  BY <1>1, <1>2
<1>5. ASSUME NEW i \in 1..Len(configs'), NEW s \in Shard
      PROVE  /\ configs'[i].shards[s] \in configs'[i].groups \cup {0}
             /\ i # 1 => configs'[i].shards[s] \in configs'[i].groups
  <2>1. CASE i \in 1..Len(configs)
    BY <1>1, <1>2, <2>1 DEF ConfigsInv, AllOwned
  <2>2. CASE i = Len(configs) + 1
    BY <1>2, <2>2
  <2> QED BY <1>4, <2>1, <2>2
<1>6. AllOwned'
  BY <1>1, <1>2, <1>5 DEF AllOwned
<1> QED BY <1>2, <1>3, <1>5, <1>6 DEF ConfigsInv, Last

\* The last configuration.
LEMMA LastConfig ==
    ASSUME ConfigsInv
    PROVE  /\ Last(configs) \in Config
           /\ \A s \in Shard : Last(configs).shards[s] \in Last(configs).groups \cup {0}
<1>1. Len(configs) \in 1..Len(configs) /\ configs \in Seq(Config)
  BY EmptySeq, LenProperties DEF ConfigsInv
<1> QED BY <1>1, ElementOfSeq DEF ConfigsInv, Last

\* The loops of balanceWorkLoad.
LEMMA AssignStep ==
    ASSUME MasterInv, Assign
    PROVE  MasterInv' /\ work' # Idle
<1>1. PICK w : work = <<w>> /\ WorkOK(w, Last(configs))
  BY DEF MasterInv, WorkInv, Assign
<1>2. work[1] = w /\ Len(work) = 1
  BY <1>1
<1>3. PICK g \in Lightest(w.load) : work' = <<Assigned(w, Min(w.todo), g)>>
  BY <1>2 DEF Assign
<1>4. w.todo # {} /\ w.todo \in SUBSET Shard
  BY <1>1, <1>2 DEF Assign, WorkOK, WorkTyped
<1>5. Min(w.todo) \in w.todo
  BY <1>4, MinIn
<1>6. WorkOK(Assigned(w, Min(w.todo), g), Last(configs))
  BY <1>1, <1>4, <1>5, AssignKeeps
<1>7. UNCHANGED <<configs, clientSeq>> /\ Len(work') = 1 /\ work' # Idle
  BY <1>3 DEF Assign, Idle
<1>8. WorkInv'
  BY <1>3, <1>6, <1>7 DEF WorkInv
<1>9. ConfigsInv' /\ CountInv'
  BY <1>2, <1>7 DEF MasterInv, ConfigsInv, AllOwned, CountInv, Applied, OneConfigPerRequest
<1> QED BY <1>7, <1>8, <1>9 DEF MasterInv

\* A longest load gives a shard to a shortest: neither has done the opposite before.
LEMMA EvenStep ==
    ASSUME MasterInv, Even
    PROVE  MasterInv' /\ work' # Idle
<1>1. PICK w : work = <<w>> /\ WorkOK(w, Last(configs))
  BY DEF MasterInv, WorkInv, Even
<1>2. work[1] = w /\ Len(work) = 1
  BY <1>1
<1>3. PICK g \in Lightest(w.load), h \in Heaviest(w.load) :
         work' = <<[w EXCEPT !.load = Given(@, h, g)]>>
  BY <1>2 DEF Even
<1>4. w.todo = {} /\ Spread(w.groups, w.load)
  BY <1>2 DEF Even
<1>5. WorkOK([w EXCEPT !.load = Given(@, h, g)], Last(configs))
  BY <1>1, <1>4, EvenKeeps
<1>6. UNCHANGED <<configs, clientSeq>> /\ Len(work') = 1 /\ work' # Idle
  BY <1>3 DEF Even, Idle
<1>7. WorkInv'
  BY <1>3, <1>5, <1>6 DEF WorkInv
<1>8. ConfigsInv' /\ CountInv'
  BY <1>2, <1>6 DEF MasterInv, ConfigsInv, AllOwned, CountInv, Applied, OneConfigPerRequest
<1> QED BY <1>6, <1>7, <1>8 DEF MasterInv

\* The result is pushed: what the loads say is what the configuration says.
LEMMA PushIs ==
    ASSUME MasterInv, Push
    PROVE  \E w : /\ work = <<w>> /\ WorkOK(w, Last(configs)) /\ w.todo = {}
                  /\ ~Spread(w.groups, w.load)
                  /\ configs' = Append(configs, Result(w))
<1>1. PICK w : work = <<w>> /\ WorkOK(w, Last(configs))
  BY DEF MasterInv, WorkInv, Push
<1>2. work[1] = w
  BY <1>1
<1> QED BY <1>1, <1>2 DEF Push, Result

\* The end of balanceWorkLoad pushes a sound configuration.
LEMMA PushStep ==
    ASSUME MasterInv, Push
    PROVE  MasterInv'
<1>1. PICK w : /\ work = <<w>> /\ WorkOK(w, Last(configs)) /\ w.todo = {}
               /\ configs' = Append(configs, Result(w))
  BY PushIs
<1>2. /\ Result(w) \in Config
      /\ \A s \in Shard : Result(w).shards[s] \in Result(w).groups
  BY <1>1, ResultIs DEF WorkOK
<1>3. ConfigsInv' /\ Len(configs') = Len(configs) + 1
  BY <1>1, <1>2, ConfigPushed DEF MasterInv
<1>4. work' = Idle /\ UNCHANGED clientSeq /\ Len(work) = 1 /\ Len(work') = 0
  BY <1>1 DEF Push, Idle
<1>5. Len(configs) \in Nat
  BY LenProperties DEF MasterInv, ConfigsInv
<1>6. CountInv'
  BY <1>3, <1>4, <1>5 DEF MasterInv, CountInv, Applied, OneConfigPerRequest
<1> QED BY <1>3, <1>4, <1>6 DEF MasterInv, WorkInv

\* Join and Leave hand the groups that are left, and the shards they have, to
\* balanceWorkLoad.
LEMMA StartStep ==
    ASSUME ConfigsInv, UNCHANGED configs,
           NEW groups \in SUBSET Gids, groups # {},
           NEW shards \in [Shard -> groups \cup {0}],
           \A g \in groups : \A s \in Shard : shards[s] = g <=> Last(configs).shards[s] = g,
           StartBalance(groups, shards)
    PROVE  ConfigsInv' /\ WorkInv' /\ Len(work') = 1
<1>1. work' = <<Begun(groups, shards)>>
  BY DEF StartBalance, Begun
<1>2. WorkOK(Begun(groups, shards), Last(configs))
  BY StartsOK
<1>3. Last(configs') = Last(configs)
  OBVIOUS
<1>4. WorkInv'
  BY <1>1, <1>2, <1>3 DEF WorkInv
<1> QED BY <1>1, <1>4 DEF ConfigsInv, AllOwned

\* What an operation does, apart from its number: it begins a configuration, or pushes
\* one, or does nothing.
LEMMA OperationStep ==
    ASSUME ForeignMove = FALSE, ConfigsInv, work = Idle, NEW req \in Request(Last(configs)),
           NEW c, NEW r, Apply(c, r, req)
    PROVE  /\ ConfigsInv' /\ WorkInv'
           /\ Len(configs') + Len(work') <= Len(configs) + 1
           /\ ~Fresh(c, r) => UNCHANGED <<configs, work>>
<1> DEFINE config == Last(configs)
<1>1. /\ config \in Config /\ config.groups \in SUBSET Gids /\ 0 \notin Gids
      /\ config.shards \in [Shard -> Gids \cup {0}]
      /\ \A s \in Shard : config.shards[s] \in config.groups \cup {0}
  BY LastConfig, ShardMasterAssumption DEF Config
<1>2. Len(configs) \in Nat \ {0} /\ Len(work) = 0
  BY EmptySeq DEF ConfigsInv, Idle
<1> HIDE DEF config
<1>3. ASSUME UNCHANGED <<configs, work>>
      PROVE  ConfigsInv' /\ WorkInv' /\ Len(configs') + Len(work') <= Len(configs) + 1
  BY <1>2, <1>3 DEF ConfigsInv, AllOwned, WorkInv
<1>4. ASSUME ConfigsInv', WorkInv', UNCHANGED configs, Len(work') = 1
      PROVE  ConfigsInv' /\ WorkInv' /\ Len(configs') + Len(work') <= Len(configs) + 1
  BY <1>2, <1>4
<1>5. CASE ~Fresh(c, r) \/ req.op = "Query"
  BY <1>3, <1>5 DEF Apply
<1>6. CASE Fresh(c, r) /\ req.op = "Join"
  <2>1. Join(config, req.gids)
    BY <1>6 DEF Apply, config
  <2>2. req.gids \in SUBSET Gids
    BY <1>6 DEF Request
  <2> DEFINE groups == config.groups \cup req.gids
  <2>3. CASE groups = {}
    BY <1>3, <1>6, <2>1, <2>3 DEF Join
  <2>4. CASE groups # {}
    <3>1. StartBalance(groups, config.shards) /\ UNCHANGED configs
      BY <2>1, <2>4 DEF Join
    <3>2. groups \in SUBSET Gids /\ config.shards \in [Shard -> groups \cup {0}]
      BY <1>1, <2>2
    <3> HIDE DEF groups
    <3>3. ConfigsInv' /\ WorkInv' /\ Len(work') = 1
      BY <2>4, <3>1, <3>2, StartStep DEF config
    <3> QED BY <1>4, <1>6, <3>1, <3>3
  <2> QED BY <2>3, <2>4
<1>7. CASE Fresh(c, r) /\ req.op = "Leave"
  <2>1. Leave(config, req.gids)
    BY <1>7 DEF Apply, config
  <2> DEFINE groups == config.groups \ req.gids
             shards == LeftShards(config, req.gids)
  <2>2. CASE groups = {}
    BY <1>3, <1>7, <2>1, <2>2 DEF Leave
  <2>3. CASE groups # {}
    <3>1. StartBalance(groups, shards) /\ UNCHANGED configs
      BY <2>1, <2>3 DEF Leave
    <3>2. groups \in SUBSET Gids /\ shards \in [Shard -> groups \cup {0}]
      BY <1>1 DEF LeftShards
    <3>3. \A g \in groups : \A s \in Shard : shards[s] = g <=> config.shards[s] = g
      BY <1>1 DEF LeftShards
    <3> HIDE DEF groups, shards
    <3>4. ConfigsInv' /\ WorkInv' /\ Len(work') = 1
      BY <2>3, <3>1, <3>2, <3>3, StartStep DEF config
    <3> QED BY <1>4, <1>7, <3>1, <3>4
  <2> QED BY <2>2, <2>3
<1>8. CASE Fresh(c, r) /\ req.op = "Move"
  <2>1. Move(config, req.shard, req.gid)
    BY <1>8 DEF Apply, config
  <2>2. req.shard \in Shard /\ req.gid \in config.groups
    BY <1>8 DEF Request, config
  <2>6. \A s \in Shard : config.shards[s] \in config.groups
    <3>1. Len(configs) # 1
      BY <2>2 DEF config, Last, ConfigsInv
    <3>2. PICK n \in Nat : n = Len(configs)
      BY <1>2
    <3>3. n \in 2..n
      <4>1. n # 0 /\ n # 1
        BY <1>2, <3>1, <3>2
      <4> QED BY ONLY <3>2, <4>1
    <3> QED BY <3>2, <3>3 DEF config, Last, ConfigsInv, AllOwned
  <2> DEFINE new == [config EXCEPT !.shards[req.shard] = req.gid]
  <2>3. new \in Config
    BY <1>1, <2>2 DEF Config
  <2>4. \A s \in Shard : new.shards[s] \in new.groups
    <3>1. new.groups = config.groups
      BY <1>1 DEF Config
    <3>2. new.shards = [config.shards EXCEPT ![req.shard] = req.gid]
      BY <1>1 DEF Config
    <3> QED BY <1>1, <2>2, <2>6, <3>1, <3>2
  <2>5. configs' = Append(configs, new) /\ UNCHANGED work
    BY <2>1 DEF Move
  <2> HIDE DEF new
  <2>7. ConfigsInv' /\ Len(configs') = Len(configs) + 1
    BY <2>3, <2>4, <2>5, ConfigPushed
  <2> QED BY <1>2, <1>8, <2>5, <2>7 DEF WorkInv
<1> QED BY <1>5, <1>6, <1>7, <1>8 DEF Request

\* A new request is counted before it makes a configuration.
LEMMA NewStep ==
    ASSUME ForeignMove = FALSE, MasterInv, NEW c \in Clerks, ApplyNew(c)
    PROVE  MasterInv'
<1>1. PICK req \in Request(Last(configs)) : Apply(c, clientSeq[c] + 1, req)
  BY DEF ApplyNew
<1>2. ConfigsInv' /\ WorkInv' /\ Len(configs') + Len(work') <= Len(configs) + 1
  BY <1>1, OperationStep DEF MasterInv, Apply
<1>3. /\ clientSeq \in [Clerks -> 0..MaxRequest] /\ clientSeq[c] \in 0..MaxRequest
      /\ clientSeq[c] < MaxRequest /\ MaxRequest \in Nat
      /\ clientSeq' = [clientSeq EXCEPT ![c] = clientSeq[c] + 1]
  BY <1>1, ShardMasterAssumption DEF ApplyNew, Apply, MasterInv, CountInv
<1>4. clientSeq' \in [Clerks -> 0..MaxRequest]
  BY <1>3
<1> DEFINE new == <<c, clientSeq[c] + 1>>
<1>5. new \notin Applied
  BY <1>3 DEF Applied
<1>6. Applied' = Applied \cup {new}
  <2>1. ASSUME NEW d \in Clerks, NEW i \in 1..MaxRequest
        PROVE  i <= clientSeq'[d] <=> i <= clientSeq[d] \/ <<d, i>> = new
    BY <1>3
  <2>2. new \in Clerks \X (1..MaxRequest)
    BY <1>3
  <2> HIDE DEF new
  <2>3. \A r \in Clerks \X (1..MaxRequest) : r[2] <= clientSeq'[r[1]] <=> r[2] <= clientSeq[r[1]] \/ r = new
    BY <2>1
  <2> QED BY <2>2, <2>3 DEF Applied
<1> HIDE DEF new
<1>7. IsFiniteSet(Applied') /\ Cardinality(Applied') = Cardinality(Applied) + 1 /\ Cardinality(Applied) \in Nat
  BY <1>5, <1>6, FS_AddElement, FS_CardinalityType DEF MasterInv, CountInv
<1>8. Len(configs) \in Nat /\ Len(configs') \in Nat /\ Len(work) = 0
  BY <1>1, <1>2, LenProperties DEF MasterInv, ConfigsInv, Apply, Idle
<1>9. Len(configs) - 1 <= Cardinality(Applied)
  BY <1>8 DEF MasterInv, CountInv, OneConfigPerRequest
<1>10. Len(work') \in Nat
  <2>1. work' = Idle \/ \E w : work' = <<w>>
    BY <1>2 DEF WorkInv
  <2> QED BY <2>1 DEF Idle
<1>11. OneConfigPerRequest'
  BY <1>2, <1>7, <1>8, <1>9, <1>10 DEF OneConfigPerRequest
<1> QED BY <1>2, <1>4, <1>7, <1>11 DEF MasterInv, CountInv

\* A request that comes once more is not new.
LEMMA AgainStep ==
    ASSUME MasterInv, NEW c \in Clerks, ApplyAgain(c)
    PROVE  MasterInv'
<1>1. clientSeq \in [Clerks -> 0..MaxRequest] /\ MaxRequest \in Nat
  BY ShardMasterAssumption DEF MasterInv, CountInv
<1>2. ~Fresh(c, clientSeq[c])
  BY <1>1 DEF Fresh
<1>3. UNCHANGED <<configs, work>> /\ clientSeq' = [clientSeq EXCEPT ![c] = clientSeq[c]]
  BY <1>2 DEF ApplyAgain, Apply
<1>4. clientSeq' = clientSeq
  BY <1>1, <1>3
<1> QED BY <1>3, <1>4 DEF MasterInv, ConfigsInv, AllOwned, WorkInv, CountInv, Applied, OneConfigPerRequest

\* Every step of the apply loop keeps the invariant.
LEMMA MasterNextOK ==
    ASSUME ForeignMove = FALSE, MasterInv, [MasterNext]_masterVars
    PROVE  MasterInv'
<1>1. ASSUME UNCHANGED masterVars PROVE MasterInv'
  BY <1>1 DEF masterVars, MasterInv, ConfigsInv, AllOwned, WorkInv, CountInv, Applied, OneConfigPerRequest
<1> QED BY <1>1, AssignStep, EvenStep, PushStep, NewStep, AgainStep DEF MasterNext, Balance

\* So it holds always.
LEMMA MasterAlways ==
    ASSUME ForeignMove = FALSE
    PROVE  MasterSpec => []MasterInv
<1>1. MasterInv /\ [MasterNext]_masterVars => MasterInv'
  BY MasterNextOK
<1> QED BY <1>1, MasterInitOK, PTL DEF MasterSpec

-----------------------------------------------------------------------------
(* The theorems.                                                             *)

\* Every configuration assigns every shard to one of its groups, and while
\* balanceWorkLoad runs no shard is lost or in two loads; a request that a clerk
\* repeats makes no second configuration.  For any number of shards and groups.
THEOREM ConfigsStaySound ==
    ASSUME ForeignMove = FALSE
    PROVE  MasterSpec => []ConfigsSound
BY MasterAlways, MasterInvImplies, PTL

\* Only the end of balanceWorkLoad makes the apply loop idle again.
LEMMA OnlyPush ==
    ASSUME MasterInv, [MasterNext]_masterVars, work # Idle, work' = Idle
    PROVE  Push
<1>1. ~Assign /\ ~Even
  BY AssignStep, EvenStep
<1>2. \A c \in Clerks : ~ApplyNew(c) /\ ~ApplyAgain(c)
  BY DEF ApplyNew, ApplyAgain, Apply
<1> QED BY <1>1, <1>2 DEF MasterNext, Balance, masterVars

\* The new configuration, measured against the last one.
LEMMA PushedConfig ==
    ASSUME MasterInv, Push
    PROVE  \E w : /\ WorkOK(w, Last(configs)) /\ w.todo = {} /\ ~Spread(w.groups, w.load)
                  /\ Last(configs') = Result(w)
<1>1. PICK w : /\ WorkOK(w, Last(configs)) /\ w.todo = {} /\ ~Spread(w.groups, w.load)
               /\ configs' = Append(configs, Result(w))
  BY PushIs
<1>2. Last(configs') = Result(w)
  <2>1. /\ Result(w) \in Config
        /\ \A s \in Shard : Result(w).shards[s] \in Result(w).groups
    BY <1>1, ResultIs DEF WorkOK
  <2> QED BY <1>1, <2>1, ConfigPushed DEF MasterInv
<1> QED BY <1>1, <1>2

\* The loads of a pushed configuration are as even as they can be.
LEMMA PushBalances ==
    ASSUME MasterInv, Push
    PROVE  LET config == Last(configs') IN
           \A g, h \in config.groups :
               Cardinality(Held(config, g)) - Cardinality(Held(config, h)) <=
                   IF NShards % Cardinality(config.groups) = 0 THEN 0 ELSE 1
<1>1. PICK w : /\ WorkOK(w, Last(configs)) /\ w.todo = {} /\ ~Spread(w.groups, w.load)
               /\ Last(configs') = Result(w)
  BY PushedConfig
<1>2. WorkTyped(w) /\ Placed(w) /\ DOMAIN w.load = w.groups
  BY <1>1 DEF WorkOK, WorkTyped
<1>3. Result(w).groups = w.groups
  BY DEF Result
<1> SUFFICES ASSUME NEW g \in w.groups, NEW h \in w.groups
             PROVE  Cardinality(Held(Result(w), g)) - Cardinality(Held(Result(w), h)) <=
                        IF NShards % Cardinality(w.groups) = 0 THEN 0 ELSE 1
  BY <1>1, <1>3
<1>4. /\ Cardinality(Held(Result(w), g)) = Size(w, g)
      /\ Cardinality(Held(Result(w), h)) = Size(w, h)
      /\ Size(w, g) \in Nat /\ Size(w, h) \in Nat
  BY <1>1, <1>2, ResultIs, SizeType
<1>5. IF NShards % Cardinality(w.groups) = 0 THEN Size(w, g) = Size(w, h)
                                             ELSE ~(Size(w, g) - Size(w, h) > 1)
  BY <1>1, <1>2 DEF Spread, Load, Size
<1> QED BY <1>4, <1>5

\* No group both gains and loses shards by it.
LEMMA PushMovesLittle ==
    ASSUME MasterInv, Push
    PROVE  LET old == Last(configs)  new == Last(configs') IN
           \A g \in old.groups \cap new.groups :
               Held(old, g) \subseteq Held(new, g) \/ Held(new, g) \subseteq Held(old, g)
<1>1. PICK w : WorkOK(w, Last(configs)) /\ w.todo = {} /\ Last(configs') = Result(w)
  BY PushedConfig
<1>2. Result(w).groups = w.groups
  BY DEF Result
<1>3. \A g \in w.groups : Held(Result(w), g) = Range(w.load[g])
  BY <1>1, ResultIs DEF WorkOK
<1> QED BY <1>1, <1>2, <1>3 DEF WorkOK, OneWay, Took, Gave

\* Join and Leave leave loads that differ by one at most, and by nothing when the
\* groups divide the shards, and they move no more shards than that takes: no group
\* both gives a shard away and gets another.  For any number of shards and groups.
THEOREM BalancesAtLeastCost ==
    ASSUME ForeignMove = FALSE
    PROVE  MasterSpec => BalancedAndMinimal
<1>1. MasterInv /\ [MasterNext]_masterVars =>
         [work # Idle /\ work' = Idle =>
             LET config == Last(configs') IN
             \A g, h \in config.groups :
                 Cardinality(Held(config, g)) - Cardinality(Held(config, h)) <=
                     IF NShards % Cardinality(config.groups) = 0 THEN 0 ELSE 1]_masterVars
  BY OnlyPush, PushBalances
<1>2. MasterInv /\ [MasterNext]_masterVars =>
         [work # Idle /\ work' = Idle =>
             LET old == Last(configs)  new == Last(configs') IN
             \A g \in old.groups \cap new.groups :
                 Held(old, g) \subseteq Held(new, g) \/ Held(new, g) \subseteq Held(old, g)]_masterVars
  BY OnlyPush, PushMovesLittle
<1>3. MasterSpec => BalancedResult
  BY <1>1, MasterAlways, PTL DEF MasterSpec, BalancedResult
<1>4. MasterSpec => MinimalMovement
  BY <1>2, MasterAlways, PTL DEF MasterSpec, MinimalMovement
<1> QED BY <1>3, <1>4 DEF BalancedAndMinimal
=============================================================================
