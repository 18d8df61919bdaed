------------------------------ MODULE DhcpProofs ------------------------------
(***************************************************************************)
(* Proofs about Dhcp for every range of addresses, every set of stations   *)
(* and every lease time: the server's list stays in order, and a station   *)
(* never believes in a lease longer than the server keeps it.              *)
(***************************************************************************)
EXTENDS Dhcp, FiniteSetTheorems, SequenceTheorems, WellFoundedInduction, TLAPS

-----------------------------------------------------------------------------
(* Recursion over the entries of a list *)

\* Every non-empty set of naturals has a least element: the finite initial
\* segments are well-founded.
LEMMA LeastNat ==
  ASSUME NEW T \in SUBSET Nat, T # {} PROVE \E x \in T : \A y \in T : x <= y
<1> DEFINE B == {0 .. (x - 1) : x \in T}
<1>1. B \subseteq FiniteSubsetsOf(Nat) /\ B # {}
  <2>1. \A x \in T : 0 .. (x - 1) \subseteq Nat /\ IsFiniteSet(0 .. (x - 1))
    BY FS_Interval
  <2> QED BY <2>1 DEF FiniteSubsetsOf
<1>2. PICK b \in B : \A d \in B : <<d, b>> \notin StrictSubsetOrdering(Nat)
  <2>1. IsWellFoundedOn(StrictSubsetOrdering(Nat), FiniteSubsetsOf(Nat))
    BY FS_StrictSubsetOrderingWellFounded
  <2> HIDE DEF B
  <2> QED BY <1>1, <2>1, WFMin
<1>3. PICK x \in T : b = 0 .. (x - 1)
  BY <1>2
<1>4. ASSUME NEW y \in T, y < x PROVE FALSE
  <2>1. 0 .. (y - 1) \in B /\ 0 .. (y - 1) \subseteq b /\ 0 .. (y - 1) # b /\ b \subseteq Nat
    BY <1>3, <1>4
  <2>2. <<0 .. (y - 1), b>> \in StrictSubsetOrdering(Nat)
    BY <2>1 DEF StrictSubsetOrdering
  <2> QED BY <1>2, <2>1, <2>2
<1> QED BY <1>4

\* What holds for 0 and, if for m - 1, for m, holds up to n; holds is the set
\* of the numbers for which it does.
LEMMA Induction ==
  ASSUME NEW n \in Nat, NEW holds, 0 \in holds,
         \A m \in 1 .. n : m - 1 \in holds => m \in holds
  PROVE  \A m \in 0 .. n : m \in holds
<1> DEFINE bad == {m \in 0 .. n : m \notin holds}
<1> SUFFICES ASSUME bad # {} PROVE FALSE
  OBVIOUS
<1>1. PICK m \in bad : \A y \in bad : m <= y
  <2>1. bad \in SUBSET Nat
    OBVIOUS
  <2> HIDE DEF bad
  <2> QED BY <2>1, LeastNat
<1>2. m \in 1 .. n /\ m - 1 \in 0 .. n /\ m - 1 \notin bad
  BY <1>1
<1> QED BY <1>1, <1>2

\* A function defined by recursion over 1 .. n exists.
IsStep(n, S, step) == step \in [1 .. n -> [S -> S]]

IsRecursive(f, n, S, base, step) ==
    /\ f \in [0 .. n -> S]
    /\ f[0] = base /\ \A i \in 1 .. n : f[i] = step[i][f[i - 1]]

LEMMA FiniteRecursion ==
  ASSUME NEW n \in Nat, NEW S, NEW base \in S, NEW step, IsStep(n, S, step)
  PROVE  \E f : IsRecursive(f, n, S, base, step)
<1>0. step \in [1 .. n -> [S -> S]]
  BY DEF IsStep
<1> DEFINE Good(m) == \E f \in [0 .. m -> S] :
                        f[0] = base /\ \A i \in 1 .. m : f[i] = step[i][f[i - 1]]
           holds == {m \in 0 .. n : Good(m)}
<1>1. Good(0)
  <2>1. /\ [i \in 0 .. 0 |-> base] \in [0 .. 0 -> S] /\ [i \in 0 .. 0 |-> base][0] = base
        /\ 1 .. 0 = {}
    OBVIOUS
  <2> QED BY <2>1
<1>2. ASSUME NEW m \in 1 .. n, Good(m - 1) PROVE Good(m)
  <2>0. m \in Nat /\ m # 0 /\ m - 1 \in 0 .. (m - 1) /\ m \in 1 .. n
    OBVIOUS
  <2>1. PICK f \in [0 .. (m - 1) -> S] :
               f[0] = base /\ \A i \in 1 .. (m - 1) : f[i] = step[i][f[i - 1]]
    BY <1>2
  <2> DEFINE h == [i \in 0 .. m |-> IF i = m THEN step[m][f[m - 1]] ELSE f[i]]
  <2>2. h \in [0 .. m -> S]
    <3>1. step[m][f[m - 1]] \in S
      BY <1>0, <2>0, <2>1
    <3>2. \A i \in 0 .. m : i # m => i \in 0 .. (m - 1)
      BY <2>0
    <3> QED BY <3>1, <3>2
  <2>3. h[0] = base
    BY <2>0, <2>1
  <2>4. ASSUME NEW i \in 1 .. m PROVE h[i] = step[i][h[i - 1]]
    <3>1. i - 1 \in 0 .. m /\ i - 1 # m /\ i \in 0 .. m
      BY <2>0
    <3>2. h[i - 1] = f[i - 1]
      BY <3>1
    <3>3. CASE i = m
      BY <3>1, <3>2, <3>3
    <3>4. CASE i # m
      <4>1. i \in 1 .. (m - 1) /\ h[i] = f[i]
        BY <3>1, <3>4, <2>0
      <4> QED BY <2>1, <3>2, <4>1
    <3> QED BY <3>3, <3>4
  <2> HIDE DEF h
  <2> QED BY <2>2, <2>3, <2>4
<1>3. 0 \in holds /\ \A m \in 1 .. n : m - 1 \in holds => m \in holds
  <2>1. 0 \in 0 .. n /\ \A m \in 1 .. n : m \in 0 .. n
    OBVIOUS
  <2> HIDE DEF Good
  <2> QED BY <1>1, <1>2, <2>1
<1>4. n \in holds
  <2>1. n \in 0 .. n
    OBVIOUS
  <2> HIDE DEF holds
  <2> QED BY <1>3, <2>1, Induction
<1> QED BY <1>4 DEF IsRecursive

\* Kept is the end of such a recursion.
LEMMA KeptRecursion ==
  ASSUME NEW S, NEW list \in Seq(S), NEW K
  PROVE  \E f : /\ f[0] = <<>> /\ Kept(list, K) = f[Len(list)]
                /\ \A i \in 1 .. Len(list) :
                     f[i] = IF i \in K THEN Append(f[i - 1], list[i]) ELSE f[i - 1]
<1> DEFINE n == Len(list)
           Is(f) == f = [i \in 0 .. n |->
                      IF i = 0 THEN <<>>
                      ELSE IF i \in K THEN Append(f[i - 1], list[i]) ELSE f[i - 1]]
           step == [i \in 1 .. n |-> [s \in Seq(S) |-> IF i \in K THEN Append(s, list[i]) ELSE s]]
<1>1. n \in Nat /\ <<>> \in Seq(S)
  OBVIOUS
<1>2. PICK f : IsRecursive(f, n, Seq(S), <<>>, step)
  <2>1. IsStep(n, Seq(S), step)
    BY <1>1 DEF IsStep
  <2> HIDE DEF step, n
  <2> QED BY <1>1, <2>1, FiniteRecursion
<1>3. \A i \in 1 .. n : f[i] = IF i \in K THEN Append(f[i - 1], list[i]) ELSE f[i - 1]
  <2>1. \A i \in 1 .. n : i - 1 \in 0 .. n
    BY <1>1
  <2>2. \A i \in 1 .. n : f[i - 1] \in Seq(S)
    BY <1>2, <2>1 DEF IsRecursive
  <2> QED BY <1>2, <2>2 DEF IsRecursive
<1>4. Is(f)
  <2>1. f = [i \in 0 .. n |-> f[i]]
    BY <1>2 DEF IsRecursive
  <2>2. ASSUME NEW i \in 0 .. n
        PROVE f[i] = IF i = 0 THEN <<>>
                     ELSE IF i \in K THEN Append(f[i - 1], list[i]) ELSE f[i - 1]
    <3>1. i = 0 \/ (i # 0 /\ i \in 1 .. n)
      BY <1>1
    <3> HIDE DEF n, step
    <3> QED BY <3>1, <1>2, <1>3, Zenon DEF IsRecursive
  <2> QED BY <2>1, <2>2, Zenon
<1> DEFINE g == CHOOSE k : Is(k)
<1>5. Is(g)
  BY <1>4, Zenon
<1>6. Kept(list, K) = g[n]
  BY Zenon DEF Kept
<1>7. g[0] = <<>> /\ \A i \in 1 .. n : g[i] = IF i \in K THEN Append(g[i - 1], list[i]) ELSE g[i - 1]
  <2>1. 0 \in 0 .. n /\ \A i \in 1 .. n : i \in 0 .. n /\ i # 0
    BY <1>1
  <2> HIDE DEF g, n
  <2> QED BY <1>5, <2>1, Zenon
<1> HIDE DEF g
<1> QED BY <1>6, <1>7

\* The entries that are kept are those with an index in K, in their order:
\* their indices increase.
LEMMA KeptIs ==
  ASSUME NEW S, NEW list \in Seq(S), NEW K \in SUBSET DOMAIN list
  PROVE  /\ Kept(list, K) \in Seq(S)
         /\ \E g \in [1 .. Len(Kept(list, K)) -> K] :
              /\ \A j \in 1 .. Len(Kept(list, K)) : Kept(list, K)[j] = list[g[j]]
              /\ \A j, k \in 1 .. Len(Kept(list, K)) : j < k => g[j] < g[k]
              /\ \A x \in K : \E j \in 1 .. Len(Kept(list, K)) : g[j] = x
<1> DEFINE n == Len(list)
<1>0. n \in Nat /\ DOMAIN list = 1 .. n
  OBVIOUS
<1>1. PICK f : /\ f[0] = <<>> /\ Kept(list, K) = f[Len(list)]
               /\ \A i \in 1 .. Len(list) :
                    f[i] = IF i \in K THEN Append(f[i - 1], list[i]) ELSE f[i - 1]
  BY KeptRecursion
<1> DEFINE Index(s, i, g) ==
             /\ \A j \in 1 .. Len(s) : s[j] = list[g[j]]
             /\ \A j, k \in 1 .. Len(s) : j < k => g[j] < g[k]
             /\ \A x \in K : x <= i => \E j \in 1 .. Len(s) : g[j] = x
           Good(i) == /\ f[i] \in Seq(S)
                      /\ \E g \in [1 .. Len(f[i]) -> {x \in K : x <= i}] : Index(f[i], i, g)
           holds == {i \in 0 .. n : Good(i)}
<1>2. Good(0)
  <2>1. f[0] = <<>> /\ <<>> \in Seq(S) /\ Len(<<>>) = 0 /\ 1 .. 0 = {}
        /\ \A x \in K : ~(x <= 0)
    BY <1>0, <1>1
  <2>2. Index(f[0], 0, <<>>) /\ <<>> \in [1 .. 0 -> {x \in K : x <= 0}]
    BY <2>1
  <2> QED BY <2>1, <2>2
<1>3. ASSUME NEW i \in 1 .. n, Good(i - 1) PROVE Good(i)
  <2>0. /\ i \in Nat /\ list[i] \in S /\ i - 1 \in Int
        /\ \A x \in K : x \in Nat /\ (x <= i <=> x <= i - 1 \/ x = i)
    BY <1>0
  <2>1. f[i] = IF i \in K THEN Append(f[i - 1], list[i]) ELSE f[i - 1]
    BY <1>1
  <2>2. PICK g \in [1 .. Len(f[i - 1]) -> {x \in K : x <= i - 1}] : Index(f[i - 1], i - 1, g)
    BY <1>3
  <2>3. f[i - 1] \in Seq(S)
    BY <1>3
  <2>4. CASE i \notin K
    <3>1. {x \in K : x <= i} = {x \in K : x <= i - 1} /\ f[i] = f[i - 1]
      BY <2>0, <2>1, <2>4
    <3>2. Index(f[i], i, g)
      BY <2>0, <2>2, <2>4, <3>1
    <3> QED BY <2>2, <2>3, <3>1, <3>2
  <2>5. CASE i \in K
    <3> DEFINE s == f[i - 1]
               m == Len(s)
               h == [j \in 1 .. (m + 1) |-> IF j = m + 1 THEN i ELSE g[j]]
    <3>1. /\ f[i] = Append(s, list[i]) /\ f[i] \in Seq(S) /\ Len(f[i]) = m + 1 /\ m \in Nat
          /\ f[i][m + 1] = list[i] /\ \A j \in 1 .. m : f[i][j] = s[j]
      BY <2>0, <2>1, <2>3, <2>5
    <3>2. \A j \in 1 .. m : g[j] \in K /\ g[j] <= i - 1 /\ h[j] = g[j]
      <4>1. \A j \in 1 .. m : h[j] = g[j]
        BY <3>1
      <4>2. \A j \in 1 .. m : g[j] \in {x \in K : x <= i - 1}
        BY <2>2
      <4> HIDE DEF h, m
      <4> QED BY <4>1, <4>2
    <3>3. h[m + 1] = i /\ \A j \in 1 .. (m + 1) : j = m + 1 \/ j \in 1 .. m
      BY <3>1
    <3>4. h \in [1 .. (m + 1) -> {x \in K : x <= i}]
      BY <2>0, <2>5, <3>2, <3>3
    <3> HIDE DEF h, m
    <3>5. \A j \in 1 .. (m + 1) : f[i][j] = list[h[j]]
      BY <2>2, <3>1, <3>2, <3>3 DEF m
    <3>6. ASSUME NEW j \in 1 .. (m + 1), NEW k \in 1 .. (m + 1), j < k PROVE h[j] < h[k]
      <4>1. j \in 1 .. m
        BY <3>1, <3>6
      <4>2. CASE k = m + 1
        BY <2>0, <3>2, <3>3, <4>1, <4>2
      <4>3. CASE k # m + 1
        <5>1. k \in 1 .. m
          BY <3>3, <4>3
        <5> QED BY <2>2, <3>2, <3>6, <4>1, <5>1 DEF m
      <4> QED BY <4>2, <4>3
    <3>7. ASSUME NEW x \in K, x <= i PROVE \E j \in 1 .. (m + 1) : h[j] = x
      <4>1. CASE x = i
        BY <3>1, <3>3, <4>1
      <4>2. CASE x <= i - 1
        <5>1. PICK j \in 1 .. m : g[j] = x
          BY <2>2, <4>2 DEF m
        <5>2. j \in 1 .. (m + 1)
          BY <3>1
        <5> QED BY <3>2, <5>1, <5>2
      <4> QED BY <2>0, <3>7, <4>1, <4>2
    <3>8. Index(f[i], i, h)
      BY <3>1, <3>5, <3>6, <3>7
    <3> QED BY <3>1, <3>4, <3>8
  <2> QED BY <2>4, <2>5
<1>4. 0 \in holds /\ \A i \in 1 .. n : i - 1 \in holds => i \in holds
  <2>1. 0 \in 0 .. n /\ \A m \in 1 .. n : m \in 0 .. n
    BY <1>0
  <2> HIDE DEF Good
  <2> QED BY <1>2, <1>3, <2>1
<1>5. Good(n)
  <2>1. n \in 0 .. n
    BY <1>0
  <2>2. n \in holds
    <3> HIDE DEF holds, n
    <3> QED BY <1>0, <1>4, <2>1, Induction
  <2> QED BY <2>2
<1>6. PICK g \in [1 .. Len(f[n]) -> {x \in K : x <= n}] : Index(f[n], n, g)
  BY <1>5
<1>7. {x \in K : x <= n} = K /\ f[n] = Kept(list, K) /\ f[n] \in Seq(S)
  BY <1>0, <1>1, <1>5
<1>8. \A x \in K : x <= n
  BY <1>7
<1> HIDE DEF n
<1> QED BY <1>6, <1>7, <1>8, SMTT(30)

-----------------------------------------------------------------------------
(* The server *)

LeaseEntry == [ip : Pool, mac : Macs, timer : 1 .. LeaseTime]

\* Ordered by address, and every station once.
Sorted(l) == \A i, j \in DOMAIN l : i < j => l[i].ip < l[j].ip /\ l[i].mac # l[j].mac

ListOK(l) == l \in Seq(LeaseEntry) /\ Sorted(l)

ServerOK(s) ==
    /\ s \in [list : Seq(LeaseEntry), plus : PollStart .. PollStart + MaxLease,
              start : {PollStart}, end : {PollStart + MaxLease - 1}]
    /\ Sorted(s.list)

\* Station mac has a lease for ip that runs for at least t more ticks.
Leased(l, mac, ip, t) ==
    \E i \in DOMAIN l : l[i].mac = mac /\ l[i].ip = ip /\ l[i].timer >= t

\* The range never contains the access point's own address, nor 0.
LEMMA PoolIs ==
  /\ PollStart \in Nat \ {0} /\ MaxLease \in Nat \ {0} /\ LeaseTime \in Nat \ {0}
  /\ \A ip : ip \in Pool <=> ip \in Nat /\ PollStart <= ip /\ ip < PollStart + MaxLease
  /\ \A ip \in Pool : ip \in Nat \ {0} /\ ip # ServerIp
<1>1. PollStart \in Nat \ {0} /\ MaxLease \in Nat \ {0} /\ LeaseTime \in Nat \ {0}
      /\ (ServerIp < PollStart \/ ServerIp >= PollStart + MaxLease)
  BY DhcpServerAssumption DEF PollStart
<1> QED BY <1>1 DEF Pool

\* What is kept of an ordered list is ordered.
LEMMA KeptSorted ==
  ASSUME NEW S, NEW l \in Seq(S), Sorted(l), \A e \in S : e.ip \in Nat, NEW K \in SUBSET DOMAIN l
  PROVE  /\ Kept(l, K) \in Seq(S) /\ Sorted(Kept(l, K))
         /\ \A j \in DOMAIN Kept(l, K) : \E i \in K : Kept(l, K)[j] = l[i]
         /\ \A i \in K : \E j \in DOMAIN Kept(l, K) : Kept(l, K)[j] = l[i]
<1> DEFINE k == Kept(l, K)
<1>1. k \in Seq(S)
  BY KeptIs
<1>2. PICK g \in [1 .. Len(k) -> K] :
        /\ \A j \in 1 .. Len(k) : k[j] = l[g[j]]
        /\ \A i, j \in 1 .. Len(k) : i < j => g[i] < g[j]
        /\ \A x \in K : \E j \in 1 .. Len(k) : g[j] = x
  BY KeptIs, SMTT(30)
<1> HIDE DEF k
<1>3. DOMAIN k = 1 .. Len(k)
  BY <1>1
<1>4. Sorted(k)
  <2>1. \A j \in 1 .. Len(k) : g[j] \in DOMAIN l
    BY <1>2
  <2> QED BY <1>2, <1>3, <2>1 DEF Sorted
<1>5. \A j \in DOMAIN k : \E i \in K : k[j] = l[i]
  BY <1>2, <1>3
<1>6. \A i \in K : \E j \in DOMAIN k : k[j] = l[i]
  BY <1>2, <1>3
<1> QED BY <1>1, <1>4, <1>5, <1>6 DEF k

\* node_remove_from_list keeps the order and the leases of the others.
LEMMA RemoveOK ==
  ASSUME NEW l, ListOK(l), NEW mac
  PROVE  /\ ListOK(NodeRemove(l, mac))
         /\ \A m, ip, t : m # mac /\ Leased(l, m, ip, t) => Leased(NodeRemove(l, mac), m, ip, t)
<1> DEFINE K == {i \in DOMAIN l : l[i].mac # mac}
           k == Kept(l, K)
<1>1. l \in Seq(LeaseEntry) /\ Sorted(l) /\ K \in SUBSET DOMAIN l /\ \A e \in LeaseEntry : e.ip \in Nat
  BY PoolIs DEF ListOK, LeaseEntry
<1>2. /\ k \in Seq(LeaseEntry) /\ Sorted(k)
      /\ \A i \in K : \E j \in DOMAIN k : k[j] = l[i]
  <2> HIDE DEF K
  <2> QED BY <1>1, KeptSorted
<1>3. NodeRemove(l, mac) = k
  BY DEF NodeRemove
<1>4. ASSUME NEW m, NEW ip, NEW t, m # mac, Leased(l, m, ip, t) PROVE Leased(k, m, ip, t)
  <2>1. PICK i \in DOMAIN l : l[i].mac = m /\ l[i].ip = ip /\ l[i].timer >= t
    BY <1>4 DEF Leased
  <2>2. i \in K
    BY <1>4, <2>1
  <2> HIDE DEF k, K
  <2> QED BY <1>2, <2>1, <2>2 DEF Leased
<1> HIDE DEF k
<1> QED BY <1>2, <1>3, <1>4 DEF ListOK

\* node_insert_to_list of an unused address for a station without a lease
\* keeps the order and every lease.
LEMMA InsertOK ==
  ASSUME NEW l, ListOK(l), NEW e \in LeaseEntry,
         \A i \in DOMAIN l : l[i].ip # e.ip /\ l[i].mac # e.mac
  PROVE  /\ ListOK(NodeInsert(l, e))
         /\ \A m, ip, t : Leased(l, m, ip, t) => Leased(NodeInsert(l, e), m, ip, t)
         /\ Leased(NodeInsert(l, e), e.mac, e.ip, e.timer)
<1> DEFINE At(n) == /\ \A i \in 1 .. n : l[i].ip <= e.ip
                    /\ n < Len(l) => l[n + 1].ip > e.ip
           T == {n \in 0 .. Len(l) : n < Len(l) => l[n + 1].ip > e.ip}
<1>0. /\ l \in Seq(LeaseEntry) /\ Len(l) \in Nat /\ DOMAIN l = 1 .. Len(l) /\ e.ip \in Nat
      /\ \A i \in 1 .. Len(l) : l[i].ip \in Nat /\ l[i] \in LeaseEntry
  <2>1. l \in Seq(LeaseEntry) /\ Len(l) \in Nat /\ DOMAIN l = 1 .. Len(l)
    BY DEF ListOK
  <2>2. \A x \in LeaseEntry : x.ip \in Nat
    BY PoolIs DEF LeaseEntry
  <2> QED BY <2>1, <2>2
<1>1. \E n \in 0 .. Len(l) : At(n)
  <2>1. Len(l) \in T /\ T \in SUBSET Nat
    BY <1>0
  <2>2. PICK n \in T : \A y \in T : n <= y
    <3> HIDE DEF T
    <3> QED BY <2>1, LeastNat
  <2>3. ASSUME NEW i \in 1 .. n PROVE l[i].ip <= e.ip
    <3>1. i - 1 \in 0 .. Len(l) /\ i - 1 < n /\ i - 1 < Len(l) /\ (i - 1) + 1 = i /\ i \in 1 .. Len(l)
      BY <1>0, <2>2
    <3>2. i - 1 \notin T
      BY <2>2, <3>1
    <3> QED BY <1>0, <3>1, <3>2
  <2> QED BY <2>2, <2>3
<1> DEFINE n == CHOOSE n \in 0 .. Len(l) : At(n)
           r == SubSeq(l, 1, n) \o <<e>> \o SubSeq(l, n + 1, Len(l))
<1>2. n \in 0 .. Len(l) /\ At(n)
  <2> HIDE DEF At
  <2> QED BY <1>1, Zenon
<1>3. NodeInsert(l, e) = r
  BY Zenon DEF NodeInsert
<1> HIDE DEF n
<1>4. /\ r \in Seq(LeaseEntry) /\ Len(r) = Len(l) + 1 /\ DOMAIN r = 1 .. (Len(l) + 1)
      /\ \A i \in 1 .. n : r[i] = l[i]
      /\ r[n + 1] = e
      /\ \A i \in (n + 2) .. (Len(l) + 1) : r[i] = l[i - 1]
  <2>1. /\ SubSeq(l, 1, n) \in Seq(LeaseEntry) /\ Len(SubSeq(l, 1, n)) = n
        /\ \A i \in 1 .. n : SubSeq(l, 1, n)[i] = l[i]
    BY <1>0, <1>2
  <2>2. /\ SubSeq(l, n + 1, Len(l)) \in Seq(LeaseEntry) /\ Len(SubSeq(l, n + 1, Len(l))) = Len(l) - n
        /\ \A i \in 1 .. (Len(l) - n) : SubSeq(l, n + 1, Len(l))[i] = l[n + i]
    <3>1. n + 1 \in Int /\ Len(l) \in Int /\ \A i \in (n + 1) .. Len(l) : l[i] \in LeaseEntry
      BY <1>0, <1>2
    <3> DEFINE z == SubSeq(l, n + 1, Len(l))
    <3>2. /\ z \in Seq(LeaseEntry)
          /\ Len(z) = IF n + 1 <= Len(l) THEN Len(l) - (n + 1) + 1 ELSE 0
          /\ \A i \in 1 .. Len(l) - (n + 1) + 1 : z[i] = l[(n + 1) + i - 1]
      BY <3>1, SubSeqProperties
    <3> HIDE DEF z
    <3>3. /\ Len(z) = Len(l) - n /\ Len(l) - (n + 1) + 1 = Len(l) - n
          /\ \A i \in 1 .. (Len(l) - n) : (n + 1) + i - 1 = n + i
      <4> DEFINE len == Len(l)
      <4>1. len \in Nat /\ n \in 0 .. len
        BY <1>0, <1>2
      <4>2. Len(z) = IF n + 1 <= len THEN len - (n + 1) + 1 ELSE 0
        BY <3>2
      <4> HIDE DEF len, At
      <4>3. Len(z) = len - n
        <5>1. CASE n + 1 <= len
          BY <4>1, <4>2, <5>1
        <5>2. CASE ~(n + 1 <= len)
          BY <4>1, <4>2, <5>2
        <5> QED BY <5>1, <5>2
      <4>4. len - (n + 1) + 1 = len - n /\ \A i \in 1 .. (len - n) : (n + 1) + i - 1 = n + i
        BY <4>1
      <4> QED BY <4>3, <4>4 DEF len
    <3>4. \A i \in 1 .. (Len(l) - n) : z[i] = l[n + i]
      BY <3>2, <3>3
    <3> QED BY <3>2, <3>3, <3>4 DEF z
  <2> DEFINE a == SubSeq(l, 1, n)
             b == SubSeq(l, n + 1, Len(l))
  <2> HIDE DEF a, b
  <2>3. a \o <<e>> \in Seq(LeaseEntry) /\ Len(a \o <<e>>) = n + 1
        /\ (\A i \in 1 .. n : (a \o <<e>>)[i] = l[i]) /\ (a \o <<e>>)[n + 1] = e
    BY <1>0, <1>2, <2>1 DEF a
  <2> DEFINE c == a \o <<e>>
  <2> HIDE DEF c
  <2>4. /\ c \o b \in Seq(LeaseEntry) /\ Len(c \o b) = Len(l) + 1
        /\ \A i \in 1 .. (n + 1) : (c \o b)[i] = c[i]
        /\ \A i \in (n + 2) .. (Len(l) + 1) : (c \o b)[i] = b[i - (n + 1)]
    <3>1. c \in Seq(LeaseEntry) /\ b \in Seq(LeaseEntry) /\ Len(c) = n + 1 /\ Len(b) = Len(l) - n
      BY <2>2, <2>3 DEF b, c
    <3>2. /\ c \o b \in Seq(LeaseEntry) /\ Len(c \o b) = Len(c) + Len(b)
          /\ \A i \in 1 .. Len(c) + Len(b) : (c \o b)[i] = IF i <= Len(c) THEN c[i] ELSE b[i - Len(c)]
      BY <3>1, ConcatProperties
    <3>3. Len(c) + Len(b) = Len(l) + 1
      BY <1>0, <1>2, <3>1
    <3>4. \A i \in 1 .. (n + 1) : i \in 1 .. (Len(l) + 1) /\ i <= n + 1
      BY <1>0, <1>2
    <3>5. \A i \in (n + 2) .. (Len(l) + 1) : i \in 1 .. (Len(l) + 1) /\ ~(i <= n + 1)
      BY <1>0, <1>2
    <3> QED BY <3>1, <3>2, <3>3, <3>4, <3>5
  <2>5. r = c \o b
    BY DEF a, b, c
  <2>6. \A i \in (n + 2) .. (Len(l) + 1) : i - (n + 1) \in 1 .. (Len(l) - n) /\ n + (i - (n + 1)) = i - 1
    BY <1>0, <1>2
  <2>7. \A i \in (n + 2) .. (Len(l) + 1) : b[i - (n + 1)] = l[i - 1]
    BY <2>2, <2>6 DEF b
  <2> HIDE DEF r
  <2>8. \A i \in 1 .. n : i \in 1 .. (n + 1)
    BY <1>2
  <2> QED BY <1>2, <2>3, <2>4, <2>5, <2>7, <2>8 DEF c
<1> HIDE DEF r
<1>5. \A i \in DOMAIN r : \/ i \in 1 .. n /\ i \in DOMAIN l /\ r[i] = l[i]
                          \/ i = n + 1 /\ r[i] = e
                          \/ i \in (n + 2) .. (Len(l) + 1) /\ i - 1 \in DOMAIN l /\ i - 1 > n /\ r[i] = l[i - 1]
  <2>1. \A i \in 1 .. (Len(l) + 1) : i \in 1 .. n \/ i = n + 1 \/ i \in (n + 2) .. (Len(l) + 1)
    BY <1>0, <1>2
  <2>2. \A i \in 1 .. n : i \in DOMAIN l
    BY <1>0, <1>2
  <2>3. \A i \in (n + 2) .. (Len(l) + 1) : i - 1 \in DOMAIN l /\ i - 1 > n
    BY <1>0, <1>2
  <2> QED BY <1>4, <2>1, <2>2, <2>3
<1>6. /\ \A i \in DOMAIN l : i <= n => l[i].ip < e.ip
      /\ \A i \in DOMAIN l : i > n => l[i].ip > e.ip
  <2>1. \A i \in DOMAIN l : i <= n => l[i].ip < e.ip
    BY <1>0, <1>2
  <2>2. ASSUME NEW i \in DOMAIN l, i > n PROVE l[i].ip > e.ip
    <3>1. n < Len(l) /\ n + 1 \in DOMAIN l /\ l[n + 1].ip > e.ip
      BY <1>0, <1>2, <2>2
    <3>2. n + 1 = i \/ n + 1 < i
      BY <1>0, <1>2, <2>2
    <3>3. n + 1 < i => l[n + 1].ip < l[i].ip
      BY <3>1 DEF ListOK, Sorted
    <3> QED BY <1>0, <3>1, <3>2, <3>3
  <2> QED BY <2>1, <2>2
<1>7. Sorted(r)
  <2> SUFFICES ASSUME NEW i \in DOMAIN r, NEW j \in DOMAIN r, i < j
               PROVE  r[i].ip < r[j].ip /\ r[i].mac # r[j].mac
    BY DEF Sorted
  <2>1. i \in Int /\ j \in Int /\ n \in Int
    BY <1>2, <1>4
  <2>2. \A a, b \in DOMAIN l : a < b => l[a].ip < l[b].ip /\ l[a].mac # l[b].mac
    BY DEF ListOK, Sorted
  <2>3. CASE i \in 1 .. n /\ i \in DOMAIN l /\ r[i] = l[i]
    <3>1. CASE j \in 1 .. n /\ j \in DOMAIN l /\ r[j] = l[j]
      BY <2>2, <2>3, <3>1
    <3>2. CASE j = n + 1 /\ r[j] = e
      BY <1>6, <2>1, <2>3, <3>2
    <3>3. CASE j \in (n + 2) .. (Len(l) + 1) /\ j - 1 \in DOMAIN l /\ j - 1 > n /\ r[j] = l[j - 1]
      <4>1. i < j - 1
        BY <2>1, <2>3, <3>3
      <4> QED BY <2>2, <2>3, <3>3, <4>1
    <3> QED BY <1>5, <3>1, <3>2, <3>3
  <2>4. CASE i = n + 1 /\ r[i] = e
    <3>1. j - 1 \in DOMAIN l /\ j - 1 > n /\ r[j] = l[j - 1]
      BY <1>5, <2>1, <2>4
    <3> QED BY <1>0, <1>6, <2>4, <3>1
  <2>5. CASE i - 1 \in DOMAIN l /\ i - 1 > n /\ r[i] = l[i - 1]
    <3>1. j - 1 \in DOMAIN l /\ j - 1 > n /\ r[j] = l[j - 1]
      BY <1>5, <2>1, <2>5
    <3>2. i - 1 < j - 1
      BY <2>1
    <3> QED BY <2>2, <2>5, <3>1, <3>2
  <2> QED BY <1>5, <2>3, <2>4, <2>5
<1>8. \A i \in DOMAIN l : \E j \in DOMAIN r : r[j] = l[i]
  <2> SUFFICES ASSUME NEW i \in DOMAIN l PROVE \E j \in DOMAIN r : r[j] = l[i]
    OBVIOUS
  <2>1. CASE i <= n
    <3>1. i \in 1 .. n /\ i \in DOMAIN r
      BY <1>0, <1>2, <1>4, <2>1
    <3> QED BY <1>4, <3>1
  <2>2. CASE i > n
    <3>1. i + 1 \in (n + 2) .. (Len(l) + 1) /\ i + 1 \in DOMAIN r /\ (i + 1) - 1 = i
      BY <1>0, <1>2, <1>4, <2>2
    <3> QED BY <1>4, <3>1
  <2> QED BY <1>0, <1>2, <2>1, <2>2
<1>9. n + 1 \in DOMAIN r /\ e.timer >= e.timer
  BY <1>2, <1>4 DEF LeaseEntry
<1>10. \A m, ip, t : Leased(l, m, ip, t) => Leased(r, m, ip, t)
  BY <1>8 DEF Leased
<1>11. Leased(r, e.mac, e.ip, e.timer)
  BY <1>4, <1>9 DEF Leased
<1> QED BY <1>3, <1>4, <1>7, <1>10, <1>11 DEF ListOK

-----------------------------------------------------------------------------
(* The walk through the list for a free address *)

Walked == [plus : Nat, first : Nat, found : BOOLEAN]

\* f describes the walk over the first n entries.
IsWalk(f, s, n) ==
    /\ f[0] = [plus |-> s.plus, first |-> s.start, found |-> FALSE]
    /\ \A i \in 0 .. n : f[i] \in Walked
    /\ \A i \in 1 .. n :
         LET v == f[i - 1]
             ip == s.list[i].ip
         IN  /\ f[i].plus = (IF ip = v.plus THEN v.plus + 1 ELSE v.plus)
             /\ f[i].first = (IF v.found \/ v.first < ip THEN v.first ELSE v.first + 1)
             /\ f[i].found = (v.found \/ v.first < ip)

\* Walk(s, n) is the end of a recursion over the first n entries.
LEMMA WalkRecursion ==
  ASSUME NEW n \in Nat, NEW s, s.plus \in Nat, s.start \in Nat
  PROVE  \E f : IsWalk(f, s, n) /\ Walk(s, n) = f[n]
<1> DEFINE base == [plus |-> s.plus, first |-> s.start, found |-> FALSE]
           next(v, ip) == [plus |-> IF ip = v.plus THEN v.plus + 1 ELSE v.plus,
                           first |-> IF v.found \/ v.first < ip THEN v.first ELSE v.first + 1,
                           found |-> v.found \/ v.first < ip]
           step == [i \in 1 .. n |-> [v \in Walked |-> next(v, s.list[i].ip)]]
           Is(w) == w = [i \in 0 .. n |->
                      IF i = 0 THEN [plus |-> s.plus, first |-> s.start, found |-> FALSE]
                      ELSE LET v == w[i - 1]
                               ip == s.list[i].ip
                           IN  [plus |-> IF ip = v.plus THEN v.plus + 1 ELSE v.plus,
                                first |-> IF v.found \/ v.first < ip THEN v.first ELSE v.first + 1,
                                found |-> v.found \/ v.first < ip]]
<1>1. base \in Walked
  BY DEF Walked
<1>2. \A v \in Walked : \A ip : next(v, ip) \in Walked
  <2> TAKE v \in Walked
  <2> TAKE ip
  <2>1. v.plus \in Nat /\ v.first \in Nat /\ v.found \in BOOLEAN
    BY DEF Walked
  <2>2. (IF ip = v.plus THEN v.plus + 1 ELSE v.plus) \in Nat
    BY <2>1
  <2>3. (IF v.found \/ v.first < ip THEN v.first ELSE v.first + 1) \in Nat
    BY <2>1
  <2>4. (v.found \/ v.first < ip) \in BOOLEAN
    OBVIOUS
  <2> QED BY <2>2, <2>3, <2>4, Zenon DEF Walked
<1>3. PICK f : IsRecursive(f, n, Walked, base, step)
  <2>1. IsStep(n, Walked, step)
    <3> HIDE DEF next
    <3> QED BY <1>2 DEF IsStep
  <2> HIDE DEF step, base
  <2> QED BY <1>1, <2>1, FiniteRecursion
<1>4. \A i \in 0 .. n : f[i] \in Walked
  BY <1>3 DEF IsRecursive
<1>5. \A i \in 1 .. n : f[i] = next(f[i - 1], s.list[i].ip)
  <2>1. \A i \in 1 .. n : i - 1 \in 0 .. n
    OBVIOUS
  <2> HIDE DEF next
  <2> QED BY <1>3, <1>4, <2>1 DEF IsRecursive
<1>6. Is(f)
  <2>1. f = [i \in 0 .. n |-> f[i]]
    BY <1>3 DEF IsRecursive
  <2>2. ASSUME NEW i \in 0 .. n
        PROVE  f[i] = IF i = 0 THEN base ELSE next(f[i - 1], s.list[i].ip)
    <3>1. i = 0 \/ (i # 0 /\ i \in 1 .. n)
      OBVIOUS
    <3> HIDE DEF next, base
    <3> QED BY <1>3, <1>5, <3>1, Zenon DEF IsRecursive
  <2> QED BY <2>1, <2>2, Zenon
<1> DEFINE g == CHOOSE w : Is(w)
<1>7. Is(g)
  BY <1>6, Zenon
<1>8. Walk(s, n) = g[n]
  BY Zenon DEF Walk
<1>9. g[0] = base /\ \A i \in 1 .. n : g[i] = next(g[i - 1], s.list[i].ip)
  <2>1. 0 \in 0 .. n /\ \A i \in 1 .. n : i \in 0 .. n /\ i # 0
    OBVIOUS
  <2>2. g = [i \in 0 .. n |-> IF i = 0 THEN base ELSE next(g[i - 1], s.list[i].ip)]
    <3> HIDE DEF g
    <3> QED BY <1>7, Zenon
  <2> HIDE DEF g, next, base
  <2> QED BY <2>1, <2>2, Zenon
<1> DEFINE holds == {i \in 0 .. n : g[i] \in Walked}
<1>10. 0 \in holds /\ \A i \in 1 .. n : i - 1 \in holds => i \in holds
  <2>1. 0 \in 0 .. n /\ \A i \in 1 .. n : i \in 0 .. n
    OBVIOUS
  <2> HIDE DEF g, next, base
  <2> QED BY <1>1, <1>2, <1>9, <2>1
<1>11. \A i \in 0 .. n : i \in holds
  <2> HIDE DEF holds
  <2> QED BY <1>10, Induction
<1>12. \A v, ip : /\ next(v, ip).plus = (IF ip = v.plus THEN v.plus + 1 ELSE v.plus)
                  /\ next(v, ip).first = (IF v.found \/ v.first < ip THEN v.first ELSE v.first + 1)
                  /\ next(v, ip).found = (v.found \/ v.first < ip)
  <2> TAKE v, ip
  <2>1. next(v, ip).plus = (IF ip = v.plus THEN v.plus + 1 ELSE v.plus)
    OBVIOUS
  <2>2. next(v, ip).first = (IF v.found \/ v.first < ip THEN v.first ELSE v.first + 1)
    OBVIOUS
  <2>3. next(v, ip).found = (v.found \/ v.first < ip)
    OBVIOUS
  <2> HIDE DEF next
  <2> QED BY <2>1, <2>2, <2>3, Zenon
<1> HIDE DEF g, next
<1>13. \A i \in 0 .. n : g[i] \in Walked
  BY <1>11
<1>14. ASSUME NEW i \in 1 .. n
       PROVE  LET v == g[i - 1]
                  ip == s.list[i].ip
              IN  /\ g[i].plus = (IF ip = v.plus THEN v.plus + 1 ELSE v.plus)
                  /\ g[i].first = (IF v.found \/ v.first < ip THEN v.first ELSE v.first + 1)
                  /\ g[i].found = (v.found \/ v.first < ip)
  <2>1. g[i] = next(g[i - 1], s.list[i].ip)
    BY <1>9
  <2> DEFINE v == g[i - 1]
             ip == s.list[i].ip
  <2>2. /\ next(v, ip).plus = (IF ip = v.plus THEN v.plus + 1 ELSE v.plus)
        /\ next(v, ip).first = (IF v.found \/ v.first < ip THEN v.first ELSE v.first + 1)
        /\ next(v, ip).found = (v.found \/ v.first < ip)
    BY <1>12, Zenon
  <2> QED BY <2>1, <2>2, Zenon
<1>15. IsWalk(g, s, n)
  BY <1>9, <1>13, <1>14, Zenon DEF IsWalk
<1> QED BY <1>8, <1>15

\* What ServerOK says of the entries of the list.
LEMMA ServerList ==
  ASSUME NEW s, ServerOK(s)
  PROVE  /\ s.list \in Seq(LeaseEntry) /\ Sorted(s.list) /\ ListOK(s.list)
         /\ Len(s.list) \in Nat /\ DOMAIN s.list = 1 .. Len(s.list)
         /\ s.start = PollStart /\ s.end = PollStart + MaxLease - 1
         /\ s.plus \in PollStart .. PollStart + MaxLease
         /\ \A i \in 1 .. Len(s.list) :
              /\ s.list[i] \in LeaseEntry /\ s.list[i].ip \in Pool
              /\ s.list[i].mac \in Macs /\ s.list[i].timer \in 1 .. LeaseTime
         /\ \A i, j \in 1 .. Len(s.list) : i < j => s.list[i].ip < s.list[j].ip
<1>1. /\ s.list \in Seq(LeaseEntry) /\ Sorted(s.list)
      /\ s.start = PollStart /\ s.end = PollStart + MaxLease - 1
      /\ s.plus \in PollStart .. PollStart + MaxLease
  BY DEF ServerOK
<1>2. /\ Len(s.list) \in Nat /\ DOMAIN s.list = 1 .. Len(s.list)
      /\ \A i \in 1 .. Len(s.list) : s.list[i] \in LeaseEntry
  BY <1>1
<1>3. \A e \in LeaseEntry : e.ip \in Pool /\ e.mac \in Macs /\ e.timer \in 1 .. LeaseTime
  BY DEF LeaseEntry
<1>4. \A i, j \in 1 .. Len(s.list) : i < j => s.list[i].ip < s.list[j].ip
  BY <1>1, <1>2 DEF Sorted
<1> QED BY <1>1, <1>2, <1>3, <1>4 DEF ListOK

\* After n entries plus is none of their addresses; first is an unused one if
\* there is a gap, and otherwise they fill the range from its start.
LEMMA WalkOK ==
  ASSUME NEW s, ServerOK(s), NEW n \in 0 .. Len(s.list)
  PROVE  /\ Walk(s, n).plus \in s.plus .. PollStart + MaxLease
         /\ \A j \in 1 .. n : s.list[j].ip # Walk(s, n).plus
         /\ Walk(s, n).found => /\ Walk(s, n).first \in Pool
                                /\ \A j \in DOMAIN s.list : s.list[j].ip # Walk(s, n).first
         /\ ~Walk(s, n).found => /\ Walk(s, n).first = PollStart + n
                                 /\ \A j \in 1 .. n : s.list[j].ip = PollStart + j - 1
<1> DEFINE len == Len(s.list)
           ip(i) == s.list[i].ip
           end == PollStart + MaxLease
<1>1. /\ PollStart \in Nat /\ MaxLease \in Nat /\ s.start = PollStart /\ len \in Nat /\ n \in Nat
      /\ end \in Nat /\ PollStart < end /\ s.plus \in Nat
      /\ s.plus \in PollStart .. end /\ n <= len /\ DOMAIN s.list = 1 .. len
      /\ \A i \in 1 .. len : ip(i) \in Nat /\ PollStart <= ip(i) /\ ip(i) < end
      /\ \A i, j \in 1 .. len : i < j => ip(i) < ip(j)
  <2>1. /\ s.start = PollStart /\ len \in Nat /\ DOMAIN s.list = 1 .. len
        /\ s.plus \in PollStart .. end
        /\ \A i \in 1 .. len : ip(i) \in Pool
        /\ \A i, j \in 1 .. len : i < j => ip(i) < ip(j)
    BY ServerList
  <2>2. /\ PollStart \in Nat /\ MaxLease \in Nat \ {0}
        /\ \A x \in Pool : x \in Nat /\ PollStart <= x /\ x < end
    BY PoolIs
  <2>3. n \in Nat /\ n <= len
    BY <2>1
  <2>4. \A i \in 1 .. len : ip(i) \in Nat /\ PollStart <= ip(i) /\ ip(i) < end
    BY <2>1, <2>2
  <2> HIDE DEF ip, len
  <2> QED BY <2>1, <2>2, <2>3, <2>4
<1>2. PICK f : IsWalk(f, s, n) /\ Walk(s, n) = f[n]
  <2>1. s.plus \in Nat /\ s.start \in Nat /\ n \in Nat
    BY <1>1
  <2> QED BY <2>1, WalkRecursion
<1> HIDE DEF ip, len, end
<1> DEFINE Plus(v, i) == v.plus \in s.plus .. end /\ \A j \in 1 .. i : ip(j) # v.plus
           Gap(v) == v.first \in PollStart .. (end - 1) /\ \A j \in 1 .. len : ip(j) # v.first
           Full(v, i) == v.first = PollStart + i /\ \A j \in 1 .. i : ip(j) = PollStart + j - 1
           Good(i) == Plus(f[i], i) /\ (f[i].found => Gap(f[i])) /\ (~f[i].found => Full(f[i], i))
           holds == {i \in 0 .. n : Good(i)}
<1>3. Good(0)
  <2>1. f[0].plus = s.plus /\ f[0].first = s.start /\ f[0].found = FALSE
    BY <1>2 DEF IsWalk
  <2> QED BY <1>1, <2>1
<1>4. ASSUME NEW i \in 1 .. n, Good(i - 1) PROVE Good(i)
  <2>1. /\ i \in Nat /\ i \in 1 .. len /\ i - 1 \in 0 .. n /\ ip(i) \in Nat /\ i - 1 \in Nat
        /\ \A j \in 1 .. i : j = i \/ (j \in 1 .. (i - 1) /\ j \in 1 .. len /\ j < i)
    BY <1>1
  <2> DEFINE v == f[i - 1]
  <2>2. v.plus \in Nat /\ v.first \in Nat /\ v.found \in BOOLEAN
    BY <1>2, <2>1 DEF IsWalk, Walked
  <2>3. /\ f[i].plus = IF ip(i) = v.plus THEN v.plus + 1 ELSE v.plus
        /\ f[i].first = IF v.found \/ v.first < ip(i) THEN v.first ELSE v.first + 1
        /\ f[i].found = (v.found \/ v.first < ip(i))
    BY <1>2, Zenon DEF IsWalk, ip
  <2>4. Plus(v, i - 1) /\ (v.found => Gap(v)) /\ (~v.found => Full(v, i - 1))
    BY <1>4
  <2> HIDE DEF v
  <2>5. Plus(f[i], i)
    <3>1. CASE ip(i) = v.plus
      <4>1. f[i].plus = v.plus + 1 /\ v.plus < end /\ f[i].plus \in s.plus .. end
        BY <1>1, <2>1, <2>2, <2>3, <2>4, <3>1, SMTT(30)
      <4>2. ASSUME NEW j \in 1 .. i PROVE ip(j) # v.plus + 1
        <5>1. j = i \/ (j \in 1 .. len /\ ip(j) < ip(i))
          BY <1>1, <2>1
        <5> QED BY <1>1, <2>1, <2>2, <3>1, <5>1
      <4> QED BY <4>1, <4>2
    <3>2. CASE ip(i) # v.plus
      BY <2>1, <2>3, <2>4, <3>2
    <3> QED BY <3>1, <3>2
  <2>6. CASE v.found
    BY <2>3, <2>4, <2>5, <2>6
  <2>7. CASE ~v.found /\ v.first < ip(i)
    <3>1. f[i].first = v.first /\ f[i].found /\ v.first = PollStart + (i - 1)
      BY <2>3, <2>4, <2>7
    <3>2. v.first \in PollStart .. (end - 1)
      BY <1>1, <2>1, <2>7, <3>1
    <3>3. ASSUME NEW j \in 1 .. len PROVE ip(j) # v.first
      <4>1. CASE j < i
        <5>1. j \in 1 .. (i - 1) /\ ip(j) = PollStart + j - 1
          BY <1>1, <2>1, <2>4, <2>7, <4>1
        <5> QED BY <1>1, <2>1, <3>1, <5>1
      <4>2. CASE j >= i
        <5>1. j = i \/ ip(i) < ip(j)
          BY <1>1, <2>1, <4>2
        <5> QED BY <1>1, <2>1, <2>2, <2>7, <5>1
      <4> QED BY <1>1, <2>1, <4>1, <4>2
    <3> QED BY <2>5, <3>1, <3>2, <3>3
  <2>8. CASE ~v.found /\ ~(v.first < ip(i))
    <3>1. f[i].first = v.first + 1 /\ ~f[i].found /\ v.first = PollStart + (i - 1)
          /\ \A j \in 1 .. (i - 1) : ip(j) = PollStart + j - 1
      BY <2>2, <2>3, <2>4, <2>8
    <3>2. f[i].first = PollStart + i
      BY <1>1, <2>1, <3>1
    <3>3. ip(i) = PollStart + i - 1
      <4>1. ip(i) <= PollStart + i - 1
        BY <1>1, <2>1, <2>8, <3>1
      <4>2. CASE i = 1
        BY <1>1, <2>1, <4>1, <4>2
      <4>3. CASE i # 1
        <5>1. i - 1 \in 1 .. (i - 1) /\ i - 1 \in 1 .. len /\ i - 1 < i
          BY <1>1, <2>1, <4>3
        <5>2. ip(i - 1) = PollStart + (i - 1) - 1 /\ ip(i - 1) < ip(i)
          BY <1>1, <2>1, <3>1, <5>1
        <5> QED BY <1>1, <2>1, <4>1, <5>2
      <4> QED BY <4>2, <4>3
    <3>4. \A j \in 1 .. i : ip(j) = PollStart + j - 1
      BY <2>1, <3>1, <3>3
    <3> QED BY <2>5, <3>1, <3>2, <3>4
  <2> QED BY <2>6, <2>7, <2>8
<1>5. Good(n)
  <2>1. 0 \in holds /\ \A i \in 1 .. n : i - 1 \in holds => i \in holds
    <3>1. 0 \in 0 .. n /\ \A i \in 1 .. n : i \in 0 .. n
      BY <1>1
    <3> HIDE DEF Good
    <3> QED BY <1>3, <1>4, <3>1
  <2>2. n \in holds
    <3>1. n \in 0 .. n
      BY <1>1
    <3> HIDE DEF holds
    <3> QED BY <1>1, <2>1, <3>1, Induction
  <2> QED BY <2>2
<1>6. \A x : x \in PollStart .. (end - 1) => x \in Pool
  BY <1>1 DEF Pool, end
<1> QED BY <1>1, <1>2, <1>5, <1>6 DEF ip, len, end

\* The address for a new station is unused, and in the range if the server
\* has one left.
LEMMA PickAddressOK ==
  ASSUME NEW s, ServerOK(s)
  PROVE  /\ PickAddress(s) \in Nat /\ PickAddress(s) >= PollStart
         /\ \A i \in DOMAIN s.list : s.list[i].ip # PickAddress(s)
         /\ ~(PickAddress(s) > s.end) => PickAddress(s) \in Pool
<1> DEFINE n == Len(s.list)
           w == Walk(s, n)
<1>1. /\ PollStart \in Nat /\ MaxLease \in Nat \ {0} /\ n \in Nat /\ s.end = PollStart + MaxLease - 1
      /\ s.start = PollStart /\ s.plus \in PollStart .. PollStart + MaxLease /\ DOMAIN s.list = 1 .. n
      /\ \A x \in Pool : x \in Nat /\ x >= PollStart
      /\ \A x \in Nat : x >= PollStart /\ ~(x > s.end) => x \in Pool
  BY ServerList, PoolIs
<1>2. /\ w.plus \in s.plus .. PollStart + MaxLease
      /\ \A j \in 1 .. n : s.list[j].ip # w.plus
      /\ w.found => w.first \in Pool /\ \A j \in DOMAIN s.list : s.list[j].ip # w.first
      /\ ~w.found => w.first = PollStart + n /\ \A j \in 1 .. n : s.list[j].ip = PollStart + j - 1
  <2>1. n \in 0 .. n
    BY <1>1
  <2> QED BY <2>1, WalkOK
<1>3. PickAddress(s) = IF w.plus > s.end THEN w.first ELSE IF s.list = <<>> THEN s.start ELSE w.plus
  BY DEF PickAddress
<1> HIDE DEF w, n
<1>4. CASE w.plus > s.end
  <2>1. PickAddress(s) = w.first
    BY <1>3, <1>4
  <2>2. CASE w.found
    BY <1>1, <1>2, <2>1, <2>2
  <2>3. CASE ~w.found
    <3>1. w.first \in Nat /\ w.first >= PollStart /\ \A i \in 1 .. n : s.list[i].ip # w.first
      BY <1>1, <1>2, <2>3
    <3> QED BY <1>1, <2>1, <3>1
  <2> QED BY <2>2, <2>3
<1>5. CASE ~(w.plus > s.end) /\ s.list = <<>>
  <2>1. PickAddress(s) = PollStart /\ DOMAIN s.list = {}
    BY <1>1, <1>3, <1>5
  <2> QED BY <1>1, <2>1
<1>6. CASE ~(w.plus > s.end) /\ s.list # <<>>
  <2>1. PickAddress(s) = w.plus /\ w.plus \in Nat /\ w.plus >= PollStart
    BY <1>1, <1>2, <1>3, <1>6
  <2> QED BY <1>1, <1>2, <2>1
<1> QED BY <1>4, <1>5, <1>6

-----------------------------------------------------------------------------
(* Messages and replies *)

Message == [type : {"DISCOVER", "REQUEST", "DECLINE", "RELEASE"}, mac : Macs,
            ciaddr : Nat, req : Nat, cur : BOOLEAN]

Reply == [type : {"OFFER", "ACK", "NAK"}, yiaddr : Nat, cur : BOOLEAN]

\* An offered or confirmed address is in the range and leased for the whole
\* time; an address is confirmed only to who asks for it.
RightReply(rep, m, l) ==
    /\ rep \in Reply /\ rep.cur = m.cur
    /\ rep.type # "NAK" => rep.yiaddr \in Pool /\ Leased(l, m.mac, rep.yiaddr, LeaseTime)
    /\ rep.type = "ACK" => /\ m.type = "REQUEST"
                           /\ rep.yiaddr = IF m.req # 0 THEN m.req ELSE m.ciaddr

\* s2 is the server s after a message of station mac of the given type.
LeasesKept(s, s2, mac, type) ==
    /\ ServerOK(s2)
    /\ \A m, ip, t : m # mac /\ Leased(s.list, m, ip, t) => Leased(s2.list, m, ip, t)
    /\ type # "RELEASE" =>
         \A ip, t : Leased(s.list, mac, ip, t) => Leased(s2.list, mac, ip, LeaseTime)

\* What the messages of each type are answered with.
LEMMA ParseOptionsIs ==
  ASSUME NEW m \in Message, NEW ip, NEW renew \in BOOLEAN
  PROVE  LET st == ParseOptions(m, ip, renew)
         IN  /\ m.type = "DISCOVER" => st = "OFFER"
             /\ m.type = "REQUEST" /\ m.req # 0 => st = IF m.req = ip THEN "ACK" ELSE "NAK"
             /\ m.type = "REQUEST" /\ m.req = 0 => st = IF renew THEN "ACK" ELSE "NAK"
             /\ m.type = "DECLINE" => st = "IDLE"
             /\ m.type = "RELEASE" => st = "RELEASE"
  BY Zenon DEF ParseOptions

\* The answer to a station that has a lease for ip, just renewed.
LEMMA AnswerOK ==
  ASSUME NEW s, ServerOK(s), NEW m \in Message, NEW ip \in Pool,
         Leased(s.list, m.mac, ip, LeaseTime),
         NEW renew \in BOOLEAN, renew => ip = m.ciaddr
  PROVE  LET a == Answer(s, m, ip, renew)
         IN  /\ ServerOK(a.s)
             /\ \A mac, x, t : mac # m.mac /\ Leased(s.list, mac, x, t) => Leased(a.s.list, mac, x, t)
             /\ m.type # "RELEASE" => a.s = s
             /\ a.reply = <<>> \/ \E rep : a.reply = <<rep>> /\ RightReply(rep, m, a.s.list)
<1> DEFINE st == ParseOptions(m, ip, renew)
           a == Answer(s, m, ip, renew)
           rep == [type |-> st, yiaddr |-> ip, cur |-> m.cur]
<1>1. /\ a.s = IF st = "RELEASE" THEN [s EXCEPT !.list = NodeRemove(s.list, m.mac)] ELSE s
      /\ a.reply = IF st \in {"OFFER", "ACK", "NAK"} THEN <<rep>> ELSE <<>>
  BY DEF Answer
<1>2. m.type \in {"DISCOVER", "REQUEST", "DECLINE", "RELEASE"} /\ m.cur \in BOOLEAN /\ ip \in Nat
  BY PoolIs DEF Message
<1>3. /\ m.type = "DISCOVER" => st = "OFFER"
      /\ m.type = "REQUEST" /\ m.req # 0 => st = IF m.req = ip THEN "ACK" ELSE "NAK"
      /\ m.type = "REQUEST" /\ m.req = 0 => st = IF renew THEN "ACK" ELSE "NAK"
      /\ m.type = "DECLINE" => st = "IDLE"
      /\ m.type = "RELEASE" => st = "RELEASE"
  BY ParseOptionsIs, Zenon
<1> HIDE DEF a, st
<1>4. CASE m.type = "RELEASE"
  <2>1. a.s = [s EXCEPT !.list = NodeRemove(s.list, m.mac)] /\ a.reply = <<>>
    BY <1>1, <1>3, <1>4
  <2>2. ListOK(s.list)
    BY ServerList
  <2>3. /\ ListOK(NodeRemove(s.list, m.mac))
        /\ \A mac, x, t : mac # m.mac /\ Leased(s.list, mac, x, t)
                          => Leased(NodeRemove(s.list, m.mac), mac, x, t)
    BY <2>2, RemoveOK
  <2>4. ServerOK(a.s) /\ a.s.list = NodeRemove(s.list, m.mac)
    BY <2>1, <2>3 DEF ServerOK, ListOK
  <2> QED BY <1>4, <2>1, <2>3, <2>4 DEF a
<1>5. CASE m.type # "RELEASE"
  <2>1. a.s = s
    BY <1>1, <1>2, <1>3, <1>5
  <2>2. a.reply # <<>> => a.reply = <<rep>> /\ RightReply(rep, m, s.list)
    <3>1. CASE st \in {"OFFER", "ACK", "NAK"}
      <4>1. rep \in Reply /\ rep.cur = m.cur /\ rep.yiaddr = ip /\ rep.type = st
        BY <1>2, <3>1 DEF Reply
      <4>2. st = "ACK" => m.type = "REQUEST" /\ ip = IF m.req # 0 THEN m.req ELSE m.ciaddr
        BY <1>2, <1>3, <1>5
      <4>3. a.reply = <<rep>>
        BY <1>1, <3>1
      <4> HIDE DEF rep
      <4> QED BY <4>1, <4>2, <4>3 DEF RightReply
    <3>2. CASE st \notin {"OFFER", "ACK", "NAK"}
      BY <1>1, <3>2
    <3> QED BY <3>1, <3>2
  <2> HIDE DEF rep
  <2> QED BY <2>1, <2>2 DEF a
<1> QED BY <1>4, <1>5

\* handle_dhcp, from a station that has a lease.
LEMMA KnownOK ==
  ASSUME NEW s, ServerOK(s), NEW m \in Message,
         NEW i \in DOMAIN s.list, s.list[i].mac = m.mac
  PROVE  LET r == ParseKnown(s, m, i)
         IN  /\ LeasesKept(s, r.s, m.mac, m.type)
             /\ r.reply = <<>> \/ \E rep : r.reply = <<rep>> /\ RightReply(rep, m, r.s.list)
<1> DEFINE e == s.list[i]
           l == [s.list EXCEPT ![i].timer = LeaseTime]
           s1 == [s EXCEPT !.plus = Walk(s, i - 1).plus, !.list[i].timer = LeaseTime]
           r == Answer(s1, m, e.ip, e.ip = m.ciaddr)
<1>1. ParseKnown(s, m, i) = r
  BY DEF ParseKnown
<1>2. /\ s.list \in Seq(LeaseEntry) /\ e \in LeaseEntry /\ e.ip \in Pool /\ e.mac \in Macs
      /\ DOMAIN s.list = 1 .. Len(s.list) /\ Len(s.list) \in Nat
      /\ LeaseTime \in 1 .. LeaseTime /\ i - 1 \in 0 .. Len(s.list)
      /\ s.plus \in PollStart .. PollStart + MaxLease /\ PollStart \in Nat /\ MaxLease \in Nat
  BY ServerList, PoolIs
<1>3. Walk(s, i - 1).plus \in PollStart .. PollStart + MaxLease
  <2>1. Walk(s, i - 1).plus \in s.plus .. PollStart + MaxLease
    BY <1>2, WalkOK
  <2> QED BY <1>2, <2>1
<1>4. /\ l \in Seq(LeaseEntry) /\ DOMAIN l = DOMAIN s.list
      /\ \A j \in DOMAIN l : l[j].ip = s.list[j].ip /\ l[j].mac = s.list[j].mac
      /\ \A j \in DOMAIN l : j # i => l[j] = s.list[j]
      /\ l[i].timer = LeaseTime
  <2> DEFINE e2 == [e EXCEPT !.timer = LeaseTime]
  <2>1. e2 \in LeaseEntry /\ e2.ip = e.ip /\ e2.mac = e.mac /\ e2.timer = LeaseTime
    BY <1>2 DEF LeaseEntry
  <2>2. l = [s.list EXCEPT ![i] = e2]
    OBVIOUS
  <2> HIDE DEF e2
  <2>3. l \in Seq(LeaseEntry) /\ DOMAIN l = DOMAIN s.list
    <3> HIDE DEF l
    <3>1. Len(l) = Len(s.list) /\ l \in Seq(LeaseEntry)
      BY <1>2, <2>1, <2>2, ExceptSeq
    <3> QED BY <1>2, <3>1
  <2>4. l[i] = e2 /\ \A j \in DOMAIN s.list : j # i => l[j] = s.list[j]
    BY <1>2, <2>2
  <2> HIDE DEF l
  <2> QED BY <2>1, <2>3, <2>4
<1>5. s1 = [s EXCEPT !.plus = Walk(s, i - 1).plus, !.list = l]
  BY DEF ServerOK
<1> HIDE DEF l
<1>6. Sorted(l)
  BY <1>4, ServerList DEF Sorted
<1>7. ServerOK(s1) /\ s1.list = l
  <2> HIDE DEF s1
  <2> QED BY <1>3, <1>4, <1>5, <1>6 DEF ServerOK
<1> HIDE DEF s1
<1>8. Leased(l, m.mac, e.ip, LeaseTime)
  BY <1>2, <1>4, PoolIs DEF Leased
<1>9. \A mac, x, t : mac # m.mac /\ Leased(s.list, mac, x, t) => Leased(l, mac, x, t)
  <2> SUFFICES ASSUME NEW mac, NEW x, NEW t, mac # m.mac, Leased(s.list, mac, x, t)
               PROVE  Leased(l, mac, x, t)
    OBVIOUS
  <2>1. PICK j \in DOMAIN s.list : s.list[j].mac = mac /\ s.list[j].ip = x /\ s.list[j].timer >= t
    BY DEF Leased
  <2>2. j # i /\ j \in DOMAIN l /\ l[j] = s.list[j]
    BY <1>4, <2>1
  <2> QED BY <2>1, <2>2 DEF Leased
<1>10. \A x, t : Leased(s.list, m.mac, x, t) => x = e.ip
  <2>1. \A j, k \in DOMAIN s.list : j < k => s.list[j].mac # s.list[k].mac
    BY ServerList DEF Sorted
  <2>2. \A j \in DOMAIN s.list : s.list[j].mac = m.mac => j = i
    <3>1. \A j \in DOMAIN s.list : j = i \/ j < i \/ i < j
      BY <1>2
    <3> QED BY <2>1, <3>1
  <2> QED BY <2>2 DEF Leased
<1>11. /\ ServerOK(r.s)
       /\ \A mac, x, t : mac # m.mac /\ Leased(s1.list, mac, x, t) => Leased(r.s.list, mac, x, t)
       /\ m.type # "RELEASE" => r.s = s1
       /\ r.reply = <<>> \/ \E rep : r.reply = <<rep>> /\ RightReply(rep, m, r.s.list)
  <2>1. Leased(s1.list, m.mac, e.ip, LeaseTime)
    BY <1>7, <1>8
  <2>2. PICK renew \in BOOLEAN : renew = (e.ip = m.ciaddr)
    OBVIOUS
  <2> DEFINE a == Answer(s1, m, e.ip, renew)
  <2>3. r = a
    BY <2>2, Zenon
  <2>4. renew => e.ip = m.ciaddr
    BY <2>2, Zenon
  <2> HIDE DEF r
  <2>5. /\ ServerOK(a.s)
        /\ \A mac, x, t : mac # m.mac /\ Leased(s1.list, mac, x, t) => Leased(a.s.list, mac, x, t)
        /\ m.type # "RELEASE" => a.s = s1
        /\ a.reply = <<>> \/ \E rep : a.reply = <<rep>> /\ RightReply(rep, m, a.s.list)
    <3> HIDE DEF e
    <3> QED BY <1>2, <1>7, <2>1, <2>4, AnswerOK
  <2> HIDE DEF a
  <2> QED BY <2>3, <2>5
<1> HIDE DEF r, e
<1>12. LeasesKept(s, r.s, m.mac, m.type)
  BY <1>7, <1>8, <1>9, <1>10, <1>11 DEF LeasesKept
<1> QED BY <1>1, <1>11, <1>12

\* handle_dhcp, from a station without a lease.
LEMMA NewOK ==
  ASSUME NEW s, ServerOK(s), NEW m \in Message, \A i \in DOMAIN s.list : s.list[i].mac # m.mac
  PROVE  LET r == ParseNew(s, m)
         IN  /\ LeasesKept(s, r.s, m.mac, m.type)
             /\ r.reply = <<>> \/ \E rep : r.reply = <<rep>> /\ RightReply(rep, m, r.s.list)
<1> DEFINE ip == PickAddress(s)
           r == ParseNew(s, m)
<1>1. /\ ip \in Nat /\ \A i \in DOMAIN s.list : s.list[i].ip # ip
      /\ ~(ip > s.end) => ip \in Pool
  BY PickAddressOK
<1>2. /\ ListOK(s.list) /\ s.start = PollStart /\ s.end = PollStart + MaxLease - 1
      /\ PollStart \in Nat /\ MaxLease \in Nat \ {0} /\ m.mac \in Macs /\ m.cur \in BOOLEAN
      /\ LeaseTime \in Nat \ {0}
      /\ \A x, t : ~Leased(s.list, m.mac, x, t)
  BY ServerList, PoolIs DEF Message, Leased
<1>3. CASE ip > s.end
  <2> DEFINE s2 == [s EXCEPT !.plus = s.start]
             rep == [type |-> "NAK", yiaddr |-> ip, cur |-> m.cur]
  <2>1. r.s = s2 /\ r.reply = <<rep>>
    BY <1>3 DEF ParseNew
  <2>2. ServerOK(s2) /\ s2.list = s.list
    BY <1>2 DEF ServerOK
  <2>3. RightReply(rep, m, s.list)
    BY <1>1, <1>2 DEF RightReply, Reply
  <2> HIDE DEF s2, rep, r
  <2>4. LeasesKept(s, r.s, m.mac, m.type)
    BY <1>2, <2>1, <2>2 DEF LeasesKept
  <2> QED BY <2>1, <2>2, <2>3, <2>4 DEF r
<1>4. CASE ~(ip > s.end)
  <2> DEFINE e == [ip |-> ip, mac |-> m.mac, timer |-> LeaseTime]
             l == NodeInsert(s.list, e)
             plus == IF ip = s.end THEN s.start ELSE ip + 1
             s1 == [s EXCEPT !.list = l, !.plus = plus]
             a == Answer(s1, m, ip, FALSE)
  <2>1. r = a
    BY <1>4, Zenon DEF ParseNew
  <2>2. e \in LeaseEntry /\ e.ip = ip /\ e.mac = m.mac /\ e.timer = LeaseTime
    BY <1>1, <1>2, <1>4 DEF LeaseEntry
  <2> HIDE DEF r, e
  <2>3. /\ ListOK(l)
        /\ \A mac, x, t : Leased(s.list, mac, x, t) => Leased(l, mac, x, t)
        /\ Leased(l, m.mac, ip, LeaseTime)
    <3>1. \A i \in DOMAIN s.list : s.list[i].ip # e.ip /\ s.list[i].mac # e.mac
      BY <1>1, <2>2
    <3> HIDE DEF ip
    <3> QED BY <1>2, <2>2, <3>1, InsertOK
  <2> HIDE DEF l
  <2>4. plus \in PollStart .. PollStart + MaxLease
    BY <1>1, <1>2, <1>4 DEF Pool
  <2> HIDE DEF plus
  <2>5. ServerOK(s1) /\ s1.list = l
    BY <2>3, <2>4 DEF ServerOK, ListOK
  <2> HIDE DEF s1, ip
  <2>6. /\ ServerOK(a.s)
        /\ \A mac, x, t : mac # m.mac /\ Leased(l, mac, x, t) => Leased(a.s.list, mac, x, t)
        /\ a.reply = <<>> \/ \E rep : a.reply = <<rep>> /\ RightReply(rep, m, a.s.list)
    <3>1. ip \in Pool /\ Leased(s1.list, m.mac, ip, LeaseTime)
      BY <1>1, <1>4, <2>3, <2>5
    <3>2. PICK renew \in BOOLEAN : renew = FALSE
      OBVIOUS
    <3> QED BY <2>5, <3>1, <3>2, AnswerOK
  <2> HIDE DEF a
  <2>7. LeasesKept(s, a.s, m.mac, m.type)
    BY <1>2, <2>3, <2>6 DEF LeasesKept
  <2> QED BY <2>1, <2>6, <2>7 DEF r
<1> QED BY <1>3, <1>4

\* handle_dhcp: the list stays right, nobody else's lease changes, the
\* sender's is renewed, and the answer is right.
LEMMA HandleOK ==
  ASSUME NEW s, ServerOK(s), NEW m \in Message
  PROVE  LET r == HandleDhcp(s, m)
         IN  /\ LeasesKept(s, r.s, m.mac, m.type)
             /\ r.reply = <<>> \/ \E rep : r.reply = <<rep>> /\ RightReply(rep, m, r.s.list)
<1>1. CASE \E i \in DOMAIN s.list : s.list[i].mac = m.mac
  <2> DEFINE i == CHOOSE i \in DOMAIN s.list : s.list[i].mac = m.mac
  <2>1. i \in DOMAIN s.list /\ s.list[i].mac = m.mac
    BY <1>1, Zenon
  <2>2. HandleDhcp(s, m) = ParseKnown(s, m, i)
    BY <1>1, Zenon DEF HandleDhcp
  <2> HIDE DEF i
  <2> QED BY <2>1, <2>2, KnownOK
<1>2. CASE ~\E i \in DOMAIN s.list : s.list[i].mac = m.mac
  <2>1. HandleDhcp(s, m) = ParseNew(s, m)
    BY <1>2, Zenon DEF HandleDhcp
  <2> QED BY <1>2, <2>1, NewOK
<1> QED BY <1>1, <1>2

\* dhcps_coarse_tmr: every lease that is not evicted and has more than a tick
\* left stays, with a tick less.
LEMMA CoarseTmrOK ==
  ASSUME NEW s, ServerOK(s)
  PROVE  /\ ServerOK(CoarseTmr(s))
         /\ \A mac, ip : \A t \in Nat : mac \notin Evicts(s) /\ t > 1 /\ Leased(s.list, mac, ip, t)
                           => Leased(CoarseTmr(s).list, mac, ip, t - 1)
<1> DEFINE l == s.list
           d == [i \in DOMAIN l |-> [l[i] EXCEPT !.timer = @ - 1]]
           K == {i \in DOMAIN l : l[i].timer # 1}
           a == Kept(d, K)
           S == [ip : Pool, mac : Macs, timer : Nat]
           K2 == {i \in DOMAIN a : a[i].mac \notin Evicts(s)}
           b == Kept(a, K2)
<1>1. /\ l \in Seq(LeaseEntry) /\ Sorted(l) /\ DOMAIN l = 1 .. Len(l) /\ Len(l) \in Nat
      /\ \A i \in DOMAIN l : l[i] \in LeaseEntry
      /\ LeaseTime \in Nat \ {0} /\ \A e \in S : e.ip \in Nat
  <2>1. \A e \in S : e.ip \in Pool
    OBVIOUS
  <2> QED BY <2>1, ServerList, PoolIs
<1>2. \A i \in DOMAIN l : d[i] \in S /\ d[i].ip = l[i].ip /\ d[i].mac = l[i].mac
                          /\ d[i].timer = l[i].timer - 1 /\ l[i].timer \in 1 .. LeaseTime
  <2> TAKE i \in DOMAIN l
  <2>1. l[i] \in LeaseEntry
    BY <1>1
  <2>2. d[i] = [l[i] EXCEPT !.timer = @ - 1]
    OBVIOUS
  <2>3. PICK e \in LeaseEntry : e = l[i]
    BY <2>1
  <2>4. e.timer \in 1 .. LeaseTime
    BY DEF LeaseEntry
  <2>5. d[i] = [e EXCEPT !.timer = e.timer - 1] /\ e.timer - 1 \in Nat
    BY <1>1, <2>2, <2>3, <2>4
  <2> HIDE DEF d, l
  <2> QED BY <2>3, <2>4, <2>5 DEF LeaseEntry
<1>3. d \in Seq(S) /\ DOMAIN d = DOMAIN l /\ K \in SUBSET DOMAIN d
  <2>1. DOMAIN d = 1 .. Len(l)
    BY <1>1
  <2>2. d \in [1 .. Len(l) -> S]
    <3> HIDE DEF S
    <3> QED BY <1>1, <1>2
  <2> HIDE DEF d, S
  <2> QED BY <1>1, <2>1, <2>2, SeqDef, SMTT(30)
<1>4. Sorted(d)
  <2> HIDE DEF d, l
  <2> QED BY <1>1, <1>2, <1>3, SMTT(30) DEF Sorted
<1> HIDE DEF d
<1>5. /\ a \in Seq(S) /\ Sorted(a)
      /\ \A j \in DOMAIN a : \E i \in K : a[j] = d[i]
      /\ \A i \in K : \E j \in DOMAIN a : a[j] = d[i]
  <2> HIDE DEF K, S
  <2> QED BY <1>1, <1>3, <1>4, KeptSorted
<1>6. /\ b \in Seq(S) /\ Sorted(b)
      /\ \A j \in DOMAIN b : \E i \in K2 : b[j] = a[i]
      /\ \A i \in K2 : \E j \in DOMAIN b : b[j] = a[i]
  <2>1. K2 \in SUBSET DOMAIN a
    OBVIOUS
  <2> HIDE DEF K2, S, a
  <2> QED BY <1>1, <1>5, <2>1, KeptSorted, ZenonT(60)
<1>7. Aged(l) = a
  BY DEF Aged, d
<1>8. CoarseTmr(s) = [s EXCEPT !.list = b]
  BY <1>7, Zenon DEF CoarseTmr
<1> HIDE DEF a, b
<1>9. \A j \in DOMAIN a : a[j] \in LeaseEntry
  <2> TAKE j \in DOMAIN a
  <2>1. PICK i \in K : a[j] = d[i]
    BY <1>5
  <2>2. i \in DOMAIN l /\ l[i].timer # 1
    OBVIOUS
  <2>3. d[i] \in S /\ d[i].timer \in 1 .. LeaseTime
    BY <1>1, <1>2, <2>2
  <2> QED BY <2>1, <2>3 DEF LeaseEntry
<1>10. b \in Seq(LeaseEntry)
  <2>1. DOMAIN b = 1 .. Len(b) /\ Len(b) \in Nat
    BY <1>6
  <2>2. \A j \in 1 .. Len(b) : b[j] \in LeaseEntry
    BY <1>6, <1>9, <2>1
  <2>3. b = [j \in 1 .. Len(b) |-> b[j]]
    BY <1>6
  <2>4. b \in [1 .. Len(b) -> LeaseEntry]
    BY <2>2, <2>3
  <2> QED BY <2>1, <2>4, SeqDef
<1>11. ServerOK(CoarseTmr(s)) /\ CoarseTmr(s).list = b
  <2> HIDE DEF l
  <2> QED BY <1>6, <1>8, <1>10 DEF ServerOK
<1>12. ASSUME NEW mac, NEW ip, NEW t \in Nat, mac \notin Evicts(s), t > 1, Leased(l, mac, ip, t)
       PROVE  Leased(b, mac, ip, t - 1)
  <2>1. PICK i \in DOMAIN l : l[i].mac = mac /\ l[i].ip = ip /\ l[i].timer >= t
    BY <1>12 DEF Leased
  <2>2. i \in K /\ d[i].mac = mac /\ d[i].ip = ip /\ d[i].timer >= t - 1
    BY <1>2, <1>12, <2>1
  <2>3. PICK j \in DOMAIN a : a[j] = d[i]
    BY <1>5, <2>2
  <2>4. j \in K2
    BY <1>12, <2>2, <2>3
  <2>5. PICK k \in DOMAIN b : b[k] = a[j]
    BY <1>6, <2>4
  <2> QED BY <2>2, <2>3, <2>5 DEF Leased
<1> QED BY <1>11, <1>12

-----------------------------------------------------------------------------
(* The invariant *)

OutMsg == [type : {"DISCOVER", "REQUEST", "RELEASE"}, ciaddr : Nat, req : Nat, cur : BOOLEAN]

ClientType ==
    [state : ClientStates, tries : Nat, waiting : BOOLEAN, offered : Pool \cup {0},
     lease : {0, LeaseTime}, t0 : {0, LeaseTime}, t2 : Nat, used : Nat, t1r : Nat, t2r : Nat,
     ip : Pool \cup {0}, out : Seq(OutMsg), newXid : BOOLEAN]

Extending == {"RENEWING", "REBINDING"}

\* The client believes in a lease.
Using(d) == d.state \in Holding /\ d.ip # 0

\* A lease that is believed in is the one bound last and has time left. An
\* address that is left over (dhcp_release while REBINDING) has no timers left.
ClientOK(d) ==
    /\ d \in ClientType
    /\ Using(d) => d.offered = d.ip /\ d.lease = LeaseTime /\ d.t0 = LeaseTime /\ d.used < d.t0
    /\ d.state \notin Holding /\ d.ip # 0 => d.t1r = 0 /\ d.t2r = 0

Idle(d) == d.out = <<>> /\ d.newXid = FALSE

\* What a call of the client sends: a RELEASE only on leaving the lease, with a
\* new transaction; and to extend a lease nothing but a request for its address.
OutOK(d) ==
    /\ \A i \in DOMAIN d.out : d.out[i].type = "RELEASE" =>
         /\ d.newXid /\ d.state \in {"SELECTING", "OFF"}
         /\ \A j \in DOMAIN d.out : j < i => ~d.out[j].cur
    /\ d.state \in Extending => /\ d.newXid = FALSE
                                /\ \A i \in DOMAIN d.out :
                                     /\ d.out[i].type = "REQUEST" /\ d.out[i].req = 0
                                     /\ d.out[i].ciaddr = d.ip

\* The messages q and the replies r under way between station s with client d
\* and the server with the list l.
MessagesOK(s, d, q) ==
    /\ q \in Seq(Message)
    /\ \A i \in DOMAIN q : q[i].mac = s
    /\ d.state \in Extending =>
         \A i \in DOMAIN q : q[i].cur => /\ q[i].type = "REQUEST" /\ q[i].req = 0
                                         /\ q[i].ciaddr = d.ip

RepliesOK(s, d, r, l) ==
    /\ r \in Seq(Reply)
    /\ \A i \in DOMAIN r : r[i].type # "NAK" => r[i].yiaddr \in Pool
    /\ \A i \in DOMAIN r : r[i].cur /\ r[i].type = "ACK" =>
         /\ Leased(l, s, r[i].yiaddr, LeaseTime)
         /\ d.state \in Extending => r[i].yiaddr = d.ip

\* A RELEASE under way is behind everything of its lease.
ReleaseOK(d, q, r) ==
    \A i \in DOMAIN q : q[i].type = "RELEASE" =>
      /\ d.state \in {"SELECTING", "OFF"}
      /\ \A j \in DOMAIN q : j < i => ~q[j].cur
      /\ \A j \in DOMAIN r : ~r[j].cur

\* The lease that the client believes in runs at the server at least as long.
Covered(s, d, l) == Using(d) => Leased(l, s, d.ip, d.t0 - d.used)

StationOK(s, d, q, r, l) ==
    ClientOK(d) /\ MessagesOK(s, d, q) /\ RepliesOK(s, d, r, l) /\ ReleaseOK(d, q, r)

Inv ==
    /\ ServerOK(srv)
    /\ DOMAIN cli = Stations /\ DOMAIN toSrv = Stations /\ DOMAIN toCli = Stations
    /\ \A s \in Stations :
         /\ Idle(cli[s])
         /\ StationOK(s, cli[s], toSrv[s], toCli[s], srv.list)
         /\ s \notin evicted => Covered(s, cli[s], srv.list)

-----------------------------------------------------------------------------
(* The operations of the client *)

SameLease(d, e) ==
    /\ e.offered = d.offered /\ e.lease = d.lease /\ e.t0 = d.t0 /\ e.t2 = d.t2
    /\ e.used = d.used /\ e.t1r = d.t1r /\ e.t2r = d.t2r /\ e.ip = d.ip

\* What is sent has at most one RELEASE, with a new transaction and with
\* nothing current before it.
ReleaseFirst(d) ==
    \A i \in DOMAIN d.out : d.out[i].type = "RELEASE" =>
      d.newXid /\ \A j \in DOMAIN d.out : j < i => ~d.out[j].cur

\* Nothing is sent but requests.
Asks(e, req, ip) ==
    \A i \in DOMAIN e.out :
      e.out[i].type = "REQUEST" /\ e.out[i].req = req /\ e.out[i].ciaddr = ip

NoRelease(d) == \A i \in DOMAIN d.out : d.out[i].type # "RELEASE"

LEMMA SetStateIs ==
  ASSUME NEW d \in ClientType, NEW st \in ClientStates
  PROVE  LET e == SetState(d, st)
         IN  /\ e \in ClientType /\ e.state = st /\ SameLease(d, e)
             /\ e.out = d.out /\ e.newXid = d.newXid
             /\ st # d.state => e.tries = 0
  BY DEF SetState, ClientType, SameLease

LEMMA CountTryIs ==
  ASSUME NEW d \in ClientType
  PROVE  LET e == CountTry(d)
         IN  /\ e \in ClientType /\ e.state = d.state /\ SameLease(d, e)
             /\ e.out = d.out /\ e.newXid = d.newXid
<1>1. d.tries \in Nat
  BY DEF ClientType
<1>2. PICK n \in Nat : n = IF d.tries > RequestTries THEN d.tries ELSE d.tries + 1
  BY <1>1
<1>3. CountTry(d) = [d EXCEPT !.tries = n, !.waiting = TRUE]
  BY <1>2, Zenon DEF CountTry
<1> QED BY <1>3 DEF ClientType, SameLease

\* Messages whose transaction is over.
LEMMA OutdatedIs ==
  ASSUME NEW q
  PROVE  /\ DOMAIN Outdated(q) = DOMAIN q
         /\ q \in Seq(OutMsg) => Outdated(q) \in Seq(OutMsg)
         /\ q \in Seq(Message) => Outdated(q) \in Seq(Message)
         /\ q \in Seq(Reply) => Outdated(q) \in Seq(Reply)
         /\ q \in Seq(OutMsg) \/ q \in Seq(Message) \/ q \in Seq(Reply) =>
              \A i \in DOMAIN q : Outdated(q)[i].type = q[i].type /\ Outdated(q)[i].cur = FALSE
         /\ q \in Seq(Message) => \A i \in DOMAIN q : Outdated(q)[i].mac = q[i].mac
         /\ q \in Seq(Reply) => \A i \in DOMAIN q : Outdated(q)[i].yiaddr = q[i].yiaddr
<1> DEFINE o == Outdated(q)
<1>1. DOMAIN o = DOMAIN q /\ \A i \in DOMAIN q : o[i] = [q[i] EXCEPT !.cur = FALSE]
  BY DEF Outdated
<1>2. \A S : q \in Seq(S) /\ (\A i \in DOMAIN q : o[i] \in S) => o \in Seq(S)
  <2> TAKE S
  <2> HAVE q \in Seq(S) /\ (\A i \in DOMAIN q : o[i] \in S)
  <2>1. Len(q) \in Nat /\ DOMAIN q = 1 .. Len(q)
    OBVIOUS
  <2>2. o = [i \in 1 .. Len(q) |-> [q[i] EXCEPT !.cur = FALSE]]
    BY <2>1 DEF Outdated
  <2>3. o \in [1 .. Len(q) -> S]
    BY <2>1, <2>2
  <2> HIDE DEF o
  <2> QED BY <2>1, <2>3, SeqDef
<1> HIDE DEF o
<1>3. ASSUME q \in Seq(OutMsg)
      PROVE  /\ o \in Seq(OutMsg)
             /\ \A i \in DOMAIN q : o[i].type = q[i].type /\ o[i].cur = FALSE
  <2>1. \A i \in DOMAIN q : q[i] \in OutMsg
    BY <1>3
  <2>2. ASSUME NEW i \in DOMAIN q
        PROVE  o[i] \in OutMsg /\ o[i].type = q[i].type /\ o[i].cur = FALSE
    <3>1. PICK m \in OutMsg : m = q[i]
      BY <2>1
    <3>2. o[i] = [m EXCEPT !.cur = FALSE]
      BY <1>1, <3>1
    <3> QED BY <3>1, <3>2 DEF OutMsg
  <2> QED BY <1>2, <2>2, <1>3
<1>4. ASSUME q \in Seq(Message)
      PROVE  /\ o \in Seq(Message)
             /\ \A i \in DOMAIN q : /\ o[i].type = q[i].type /\ o[i].cur = FALSE
                                    /\ o[i].mac = q[i].mac
  <2>1. \A i \in DOMAIN q : q[i] \in Message
    BY <1>4
  <2>2. ASSUME NEW i \in DOMAIN q
        PROVE  o[i] \in Message /\ o[i].type = q[i].type /\ o[i].cur = FALSE /\ o[i].mac = q[i].mac
    <3>1. PICK m \in Message : m = q[i]
      BY <2>1
    <3>2. o[i] = [m EXCEPT !.cur = FALSE]
      BY <1>1, <3>1
    <3> QED BY <3>1, <3>2 DEF Message
  <2> QED BY <1>2, <2>2, <1>4
<1>5. ASSUME q \in Seq(Reply)
      PROVE  /\ o \in Seq(Reply)
             /\ \A i \in DOMAIN q : /\ o[i].type = q[i].type /\ o[i].cur = FALSE
                                    /\ o[i].yiaddr = q[i].yiaddr
  <2>1. \A i \in DOMAIN q : q[i] \in Reply
    BY <1>5
  <2>2. ASSUME NEW i \in DOMAIN q
        PROVE  o[i] \in Reply /\ o[i].type = q[i].type /\ o[i].cur = FALSE /\ o[i].yiaddr = q[i].yiaddr
    <3>1. PICK m \in Reply : m = q[i]
      BY <2>1
    <3>2. o[i] = [m EXCEPT !.cur = FALSE]
      BY <1>1, <3>1
    <3> QED BY <3>1, <3>2 DEF Reply
  <2> QED BY <1>2, <2>2, <1>5
<1> QED BY <1>1, <1>3, <1>4, <1>5 DEF o

LEMMA SendIs ==
  ASSUME NEW d \in ClientType, NEW type \in {"DISCOVER", "REQUEST", "RELEASE"}, NEW req \in Nat,
         NEW mem \in BOOLEAN
  PROVE  LET e == Send(d, type, req, mem)
         IN  /\ e \in ClientType /\ e.state = d.state /\ SameLease(d, e)
             /\ type # "RELEASE" /\ ReleaseFirst(d) => ReleaseFirst(e)
             /\ type # "RELEASE" /\ NoRelease(d) => NoRelease(e)
             /\ type = "RELEASE" /\ d.out = <<>> /\ d.tries = 0 => ReleaseFirst(e)
             /\ type = "REQUEST" => e.newXid = d.newXid
             /\ type = "REQUEST" /\ d.out = <<>> /\ d.state \in Extending => Asks(e, req, d.ip)
<1> DEFINE fresh == type # "REQUEST" /\ d.tries = 0
           ci == IF type = "RELEASE" \/ (type = "REQUEST" /\ d.state \in Extending)
                 THEN d.ip ELSE 0
           msg == [type |-> type, ciaddr |-> ci, req |-> req, cur |-> TRUE]
           old == IF fresh THEN Outdated(d.out) ELSE d.out
           out == Append(old, msg)
           xid == d.newXid \/ fresh
           e == Send(d, type, req, mem)
<1>1. e = IF ~mem THEN d ELSE [d EXCEPT !.out = out, !.newXid = xid]
  BY Zenon DEF Send, Extending
<1>2. d.out \in Seq(OutMsg) /\ d.newXid \in BOOLEAN /\ d.ip \in Nat /\ ci \in Nat
  BY PoolIs DEF ClientType
<1>3. /\ msg \in OutMsg /\ msg.type = type /\ msg.req = req
      /\ type = "REQUEST" /\ d.state \in Extending => msg.ciaddr = d.ip
  BY <1>2 DEF OutMsg
<1>4. /\ old \in Seq(OutMsg) /\ DOMAIN old = DOMAIN d.out
      /\ \A i \in DOMAIN old : /\ old[i].type = d.out[i].type
                               /\ ~d.out[i].cur => ~old[i].cur
                               /\ fresh => ~old[i].cur
  <2>1. /\ Outdated(d.out) \in Seq(OutMsg) /\ DOMAIN Outdated(d.out) = DOMAIN d.out
        /\ \A i \in DOMAIN d.out : Outdated(d.out)[i].type = d.out[i].type
                                   /\ Outdated(d.out)[i].cur = FALSE
    BY <1>2, OutdatedIs
  <2>2. CASE fresh
    BY <2>1, <2>2
  <2>3. CASE ~fresh
    BY <1>2, <2>3
  <2> QED BY <2>2, <2>3
<1>5. fresh \in BOOLEAN /\ xid \in BOOLEAN /\ (d.newXid => xid) /\ (fresh => xid)
      /\ (type = "REQUEST" => xid = d.newXid)
  BY <1>2
<1> HIDE DEF fresh, ci, msg, old, xid
<1>6. /\ out \in Seq(OutMsg) /\ DOMAIN out = 1 .. (Len(old) + 1) /\ Len(old) \in Nat
      /\ DOMAIN old = 1 .. Len(old) /\ out[Len(old) + 1] = msg
      /\ \A i \in 1 .. Len(old) : out[i] = old[i]
  BY <1>3, <1>4
<1> HIDE DEF out
<1>7. CASE ~mem
  <2>1. e = d
    BY <1>1, <1>7
  <2> HIDE DEF e
  <2>2. type = "RELEASE" /\ d.out = <<>> /\ d.tries = 0 => ReleaseFirst(e)
    BY <2>1 DEF ReleaseFirst
  <2>3. type = "REQUEST" /\ d.out = <<>> => Asks(e, req, d.ip)
    BY <2>1 DEF Asks
  <2> QED BY <2>1, <2>2, <2>3 DEF SameLease, e
<1>8. CASE mem
  <2>1. e = [d EXCEPT !.out = out, !.newXid = xid]
    BY <1>1, <1>8
  <2> HIDE DEF e
  <2>2. /\ e \in ClientType /\ e.state = d.state /\ SameLease(d, e)
        /\ e.out = out /\ e.newXid = xid
    BY <1>5, <1>6, <2>1 DEF ClientType, SameLease
  <2>3. \A i \in DOMAIN out : i = Len(old) + 1 \/ (i \in DOMAIN d.out /\ i \in 1 .. Len(old))
    BY <1>4, <1>6
  <2>4. ASSUME type # "RELEASE", ReleaseFirst(d) PROVE ReleaseFirst(e)
    <3> SUFFICES ASSUME NEW i \in DOMAIN out, out[i].type = "RELEASE"
                 PROVE  xid /\ \A j \in DOMAIN out : j < i => ~out[j].cur
      BY <2>2 DEF ReleaseFirst
    <3>1. i \in DOMAIN d.out /\ i \in 1 .. Len(old) /\ d.out[i].type = "RELEASE"
      BY <1>3, <1>4, <1>6, <2>3, <2>4
    <3>2. d.newXid /\ \A j \in DOMAIN d.out : j < i => ~d.out[j].cur
      BY <2>4, <3>1 DEF ReleaseFirst
    <3>3. \A j \in DOMAIN out : j < i => j \in 1 .. Len(old) /\ j \in DOMAIN d.out
      BY <1>4, <1>6, <3>1
    <3>4. \A j \in DOMAIN out : j < i => ~out[j].cur
      BY <1>4, <1>6, <3>2, <3>3
    <3> QED BY <1>5, <3>2, <3>4
  <2>5. ASSUME type # "RELEASE", NoRelease(d) PROVE NoRelease(e)
    BY <1>3, <1>4, <1>6, <2>2, <2>3, <2>5 DEF NoRelease
  <2>6. ASSUME type = "RELEASE", d.out = <<>>, d.tries = 0 PROVE ReleaseFirst(e)
    <3>1. DOMAIN d.out = {} /\ xid
      BY <1>5, <2>6 DEF fresh
    <3>2. Len(old) = 0
      <4>1. 1 \notin 1 .. Len(old)
        BY <1>4, <1>6, <3>1
      <4> QED BY <1>6, <4>1
    <3>3. DOMAIN out = {1}
      BY <1>6, <3>2
    <3> QED BY <2>2, <3>1, <3>3 DEF ReleaseFirst
  <2>7. ASSUME type = "REQUEST", d.out = <<>>, d.state \in Extending
        PROVE  Asks(e, req, d.ip)
    <3>1. DOMAIN d.out = {}
      BY <2>7
    <3> QED BY <1>3, <1>6, <2>2, <2>3, <2>7, <3>1 DEF Asks
  <2> QED BY <1>5, <2>2, <2>4, <2>5, <2>6, <2>7 DEF e
<1> QED BY <1>7, <1>8

\* dhcp_discover, from whatever state.
LEMMA DiscoverIs ==
  ASSUME NEW d \in ClientType, NEW mem \in BOOLEAN, ReleaseFirst(d)
  PROVE  LET e == Discover(d, mem)
         IN  /\ e \in ClientType /\ e.state = "SELECTING" /\ ReleaseFirst(e)
             /\ e.offered = 0 /\ e.ip = d.ip /\ e.t1r = d.t1r /\ e.t2r = d.t2r
             /\ NoRelease(d) => NoRelease(e)
<1> DEFINE a == [d EXCEPT !.offered = 0]
           b == SetState(a, "SELECTING")
           c == Send(b, "DISCOVER", 0, mem)
           e == CountTry(c)
<1>1. Discover(d, mem) = e
  BY DEF Discover
<1>2. /\ a \in ClientType /\ a.offered = 0 /\ a.ip = d.ip /\ a.t1r = d.t1r /\ a.t2r = d.t2r
      /\ a.out = d.out /\ a.newXid = d.newXid
  BY DEF ClientType
<1> HIDE DEF a
<1>3. /\ b \in ClientType /\ b.state = "SELECTING" /\ SameLease(a, b)
      /\ b.out = a.out /\ b.newXid = a.newXid
  <2>1. "SELECTING" \in ClientStates
    BY DEF ClientStates
  <2> QED BY <1>2, <2>1, SetStateIs
<1> HIDE DEF b
<1>4. ReleaseFirst(b) /\ (NoRelease(d) => NoRelease(b))
  BY <1>2, <1>3 DEF ReleaseFirst, NoRelease
<1>5. /\ c \in ClientType /\ c.state = "SELECTING" /\ SameLease(b, c)
      /\ ReleaseFirst(c) /\ (NoRelease(d) => NoRelease(c))
  <2>1. 0 \in Nat /\ "DISCOVER" \in {"DISCOVER", "REQUEST", "RELEASE"} /\ "DISCOVER" # "RELEASE"
    OBVIOUS
  <2> QED BY <1>3, <1>4, <2>1, SendIs
<1> HIDE DEF c
<1>6. /\ e \in ClientType /\ e.state = c.state /\ SameLease(c, e)
      /\ e.out = c.out /\ e.newXid = c.newXid
  BY <1>5, CountTryIs
<1> HIDE DEF e
<1>7. ReleaseFirst(e) /\ (NoRelease(d) => NoRelease(e))
  BY <1>5, <1>6 DEF ReleaseFirst, NoRelease
<1> QED BY <1>1, <1>2, <1>3, <1>5, <1>6, <1>7 DEF SameLease

\* dhcp_select, dhcp_renew and dhcp_rebind: a request, if anything, is sent.
RequestIs(d, e, st, req) ==
    /\ e \in ClientType /\ e.state = st /\ SameLease(d, e) /\ NoRelease(e) /\ e.newXid = d.newXid
    /\ st \in Extending => Asks(e, req, d.ip)

LEMMA Requests ==
  ASSUME NEW d \in ClientType, NEW mem \in BOOLEAN, d.out = <<>>,
         NEW st \in {"REQUESTING", "RENEWING", "REBINDING"}, NEW req \in Nat
  PROVE  RequestIs(d, CountTry(Send(SetState(d, st), "REQUEST", req, mem)), st, req)
<1> DEFINE b == SetState(d, st)
           c == Send(b, "REQUEST", req, mem)
           e == CountTry(c)
<1>1. /\ b \in ClientType /\ b.state = st /\ SameLease(d, b) /\ b.out = d.out /\ b.newXid = d.newXid
  <2>1. st \in ClientStates
    BY DEF ClientStates
  <2> QED BY <2>1, SetStateIs
<1> HIDE DEF b
<1>2. NoRelease(b)
  BY <1>1 DEF NoRelease
<1>3. /\ c \in ClientType /\ c.state = b.state /\ SameLease(b, c) /\ NoRelease(c)
      /\ c.newXid = b.newXid
      /\ b.state \in Extending => Asks(c, req, b.ip)
  <2>1. PICK type \in {"DISCOVER", "REQUEST", "RELEASE"} : type = "REQUEST"
    OBVIOUS
  <2> DEFINE x == Send(b, type, req, mem)
  <2>2. /\ x \in ClientType /\ x.state = b.state /\ SameLease(b, x)
        /\ type # "RELEASE" /\ NoRelease(b) => NoRelease(x)
        /\ type = "REQUEST" => x.newXid = b.newXid
        /\ type = "REQUEST" /\ b.out = <<>> /\ b.state \in Extending => Asks(x, req, b.ip)
    BY <1>1, SendIs, ZenonT(60)
  <2>3. x = c /\ b.out = <<>>
    BY <1>1, <2>1
  <2> HIDE DEF x, c
  <2> QED BY <1>2, <2>1, <2>2, <2>3
<1> HIDE DEF c
<1>4. /\ e \in ClientType /\ e.state = c.state /\ SameLease(c, e)
      /\ e.out = c.out /\ e.newXid = c.newXid
  BY <1>3, CountTryIs
<1> HIDE DEF e
<1>5. NoRelease(e) /\ (st \in Extending => Asks(e, req, b.ip))
  BY <1>1, <1>3, <1>4 DEF NoRelease, Asks
<1>6. SameLease(d, e) /\ b.ip = d.ip
  BY <1>1, <1>3, <1>4 DEF SameLease
<1> QED BY <1>1, <1>3, <1>4, <1>5, <1>6 DEF RequestIs, b, c, e

LEMMA SelectIs ==
  ASSUME NEW d \in ClientType, NEW mem \in BOOLEAN, d.out = <<>>
  PROVE  RequestIs(d, Select(d, mem), "REQUESTING", d.offered)
<1>1. d.offered \in Nat
  BY PoolIs DEF ClientType
<1> QED BY <1>1, Requests DEF Select

LEMMA RenewIs ==
  ASSUME NEW d \in ClientType, NEW mem \in BOOLEAN, d.out = <<>>
  PROVE  /\ RequestIs(d, Renew(d, mem), "RENEWING", 0)
         /\ RequestIs(d, Rebind(d, mem), "REBINDING", 0)
<1>1. 0 \in Nat
  OBVIOUS
<1> QED BY <1>1, Requests DEF Renew, Rebind

\* dhcp_release
LEMMA ReleaseIs ==
  ASSUME NEW d \in ClientType, NEW mem \in BOOLEAN, d.out = <<>>
  PROVE  LET e == Release(d, mem)
         IN  /\ e \in ClientType /\ e.state = "OFF" /\ ReleaseFirst(e)
             /\ e.t1r = 0 /\ e.t2r = 0
<1> DEFINE a == SetState(d, "OFF")
           off == [a EXCEPT !.offered = 0, !.lease = 0, !.t0 = 0, !.used = 0, !.t1r = 0, !.t2r = 0]
           b == Send(off, "RELEASE", 0, mem)
<1>1. a \in ClientType /\ a.state = "OFF" /\ a.out = d.out /\ (d.state # "OFF" => a.tries = 0)
  <2>1. "OFF" \in ClientStates
    BY DEF ClientStates
  <2> QED BY <2>1, SetStateIs
<1> HIDE DEF a
<1>2. /\ off \in ClientType /\ off.state = "OFF" /\ off.out = <<>> /\ off.t1r = 0 /\ off.t2r = 0
      /\ off.tries = a.tries
  BY <1>1 DEF ClientType
<1>3. Release(d, mem) = IF Supplied(d) THEN [b EXCEPT !.ip = 0] ELSE off
  BY DEF Release, a
<1> HIDE DEF off
<1>4. CASE Supplied(d)
  <2>1. off.tries = 0
    BY <1>1, <1>2, <1>4 DEF Supplied
  <2>2. b \in ClientType /\ b.state = off.state /\ SameLease(off, b) /\ ReleaseFirst(b)
    <3>1. 0 \in Nat /\ "RELEASE" \in {"DISCOVER", "REQUEST", "RELEASE"}
      OBVIOUS
    <3> QED BY <1>2, <2>1, <3>1, SendIs
  <2> HIDE DEF b
  <2> DEFINE e == [b EXCEPT !.ip = 0]
  <2>3. /\ e \in ClientType /\ e.state = b.state /\ e.t1r = b.t1r /\ e.t2r = b.t2r
        /\ e.out = b.out /\ e.newXid = b.newXid
    BY <2>2 DEF ClientType
  <2> HIDE DEF e
  <2>4. ReleaseFirst(e)
    BY <2>2, <2>3 DEF ReleaseFirst
  <2> QED BY <1>2, <1>3, <1>4, <2>2, <2>3, <2>4 DEF SameLease, e
<1>5. CASE ~Supplied(d)
  <2>1. ReleaseFirst(off)
    BY <1>2 DEF ReleaseFirst
  <2> QED BY <1>2, <1>3, <1>5, <2>1
<1> QED BY <1>4, <1>5

\* dhcp_bind
LEMMA BindIs ==
  ASSUME NEW d \in ClientType
  PROVE  LET e == Bind(d)
         IN  /\ e \in ClientType /\ e.state = "BOUND" /\ e.out = d.out /\ e.newXid = d.newXid
             /\ e.offered = d.offered /\ e.ip = d.offered /\ e.lease = d.lease
             /\ e.t0 = d.lease /\ e.used = 0
<1>1. PICK x \in Nat, y \in Nat : x = (d.lease * 7) \div 8 /\ y = d.lease \div 2
  <2>1. d.lease \in Nat
    BY PoolIs DEF ClientType
  <2> QED BY <2>1
<1> DEFINE a == [d EXCEPT !.used = 0, !.t0 = d.lease, !.t2 = x, !.t1r = y, !.t2r = x, !.ip = d.offered]
<1>2. Bind(d) = SetState(a, "BOUND")
  BY <1>1, Zenon DEF Bind
<1>3. /\ a \in ClientType /\ a.out = d.out /\ a.newXid = d.newXid /\ a.offered = d.offered
      /\ a.ip = d.offered /\ a.lease = d.lease /\ a.t0 = d.lease /\ a.used = 0
  BY DEF ClientType
<1> HIDE DEF a
<1> DEFINE e == SetState(a, "BOUND")
<1>4. e \in ClientType /\ e.state = "BOUND" /\ SameLease(a, e) /\ e.out = a.out /\ e.newXid = a.newXid
  <2>1. "BOUND" \in ClientStates
    BY DEF ClientStates
  <2> QED BY <1>3, <2>1, SetStateIs
<1> HIDE DEF e
<1> QED BY <1>2, <1>3, <1>4 DEF SameLease, e

-----------------------------------------------------------------------------
(* The calls of the client: each leaves it in order *)

\* No lease is believed in, and none is being extended, that was not before.
NoNewLease(c, e) ==
    /\ Using(e) => Using(c) /\ e.ip = c.ip /\ e.t0 = c.t0 /\ e.used = c.used
    /\ e.state \in Extending => c.state \in Extending /\ e.ip = c.ip

LEMMA IdleSends ==
  ASSUME NEW d, d.out = <<>>
  PROVE  ReleaseFirst(d) /\ NoRelease(d) /\ \A req, ip : Asks(d, req, ip)
  BY DEF ReleaseFirst, NoRelease, Asks

\* A client that starts over with a DISCOVER is in order.
LEMMA DiscoverOK ==
  ASSUME NEW d \in ClientType, NEW mem \in BOOLEAN, ReleaseFirst(d),
         d.ip # 0 => d.t1r = 0 /\ d.t2r = 0
  PROVE  LET e == Discover(d, mem)
         IN  ClientOK(e) /\ OutOK(e) /\ e.state = "SELECTING" /\ ~Using(e)
<1> DEFINE e == Discover(d, mem)
<1>1. /\ e \in ClientType /\ e.state = "SELECTING" /\ ReleaseFirst(e)
      /\ e.ip = d.ip /\ e.t1r = d.t1r /\ e.t2r = d.t2r
  BY DiscoverIs
<1> HIDE DEF e
<1>2. ClientOK(e) /\ ~Using(e)
  BY <1>1 DEF ClientOK, Using, Holding
<1>3. OutOK(e)
  BY <1>1 DEF OutOK, ReleaseFirst, Extending
<1> QED BY <1>1, <1>2, <1>3 DEF e

\* A client that asks for the offered address, or for more time, is in order.
LEMMA RequestOK ==
  ASSUME NEW d, NEW e, NEW st \in {"REQUESTING", "RENEWING", "REBINDING"}, NEW req,
         RequestIs(d, e, st, req), d.newXid = FALSE, st \in Extending => req = 0
  PROVE  OutOK(e)
<1>1. e.state = st /\ e.newXid = FALSE /\ NoRelease(e) /\ (st \in Extending => Asks(e, 0, d.ip))
      /\ e.ip = d.ip
  BY DEF RequestIs, SameLease
<1> QED BY <1>1 DEF OutOK, NoRelease, Asks

\* dhcp_timeout
LEMMA TimeoutOK ==
  ASSUME NEW c, ClientOK(c), Idle(c), NEW mem \in BOOLEAN
  PROVE  LET e == Timeout(c, mem) IN ClientOK(e) /\ OutOK(e) /\ NoNewLease(c, e)
<1> DEFINE d == [c EXCEPT !.waiting = FALSE]
           e == Timeout(c, mem)
<1>1. /\ d \in ClientType /\ d.state = c.state /\ SameLease(c, d) /\ d.out = <<>> /\ d.newXid = FALSE
  BY DEF ClientOK, ClientType, SameLease, Idle
<1>2. /\ c.state \in {"BACKING_OFF", "SELECTING"} => e = Discover(d, mem)
      /\ c.state = "REQUESTING" => e = Select(d, mem) \/ e = Discover(Release(d, mem), mem)
      /\ c.state \notin {"BACKING_OFF", "SELECTING", "REQUESTING"} => e = d
  <2>1. e = CASE d.state \in {"BACKING_OFF", "SELECTING"} -> Discover(d, mem)
              [] d.state = "REQUESTING" ->
                   IF d.tries <= RequestTries THEN Select(d, mem) ELSE Discover(Release(d, mem), mem)
              [] OTHER -> d
    BY Zenon DEF Timeout
  <2> HIDE DEF e, d
  <2> QED BY <1>1, <2>1, Zenon
<1> HIDE DEF d, e
<1>3. CASE c.state \in {"BACKING_OFF", "SELECTING"}
  <2>1. c.state \notin Holding
    BY <1>3 DEF Holding
  <2>2. ReleaseFirst(d) /\ (d.ip # 0 => d.t1r = 0 /\ d.t2r = 0)
    BY <1>1, <2>1, IdleSends DEF ClientOK, SameLease
  <2>3. ClientOK(e) /\ OutOK(e) /\ e.state = "SELECTING" /\ ~Using(e)
    BY <1>1, <1>2, <1>3, <2>2, DiscoverOK
  <2> QED BY <2>3 DEF NoNewLease, Extending, e
<1>4. CASE e = Discover(Release(d, mem), mem)
  <2> DEFINE r == Release(d, mem)
  <2>1. r \in ClientType /\ ReleaseFirst(r) /\ r.t1r = 0 /\ r.t2r = 0
    BY <1>1, ReleaseIs
  <2> HIDE DEF r
  <2>2. ClientOK(e) /\ OutOK(e) /\ e.state = "SELECTING" /\ ~Using(e)
    BY <1>4, <2>1, DiscoverOK DEF r
  <2> QED BY <2>2 DEF NoNewLease, Extending, e
<1>5. CASE c.state = "REQUESTING" /\ e = Select(d, mem)
  <2>1. RequestIs(d, e, "REQUESTING", d.offered)
    BY <1>1, <1>5, SelectIs
  <2>2. OutOK(e)
    BY <1>1, <2>1, RequestOK DEF Extending
  <2>3. e \in ClientType /\ e.state = "REQUESTING" /\ SameLease(d, e)
    BY <2>1 DEF RequestIs
  <2>4. ClientOK(e) /\ ~Using(e)
    BY <1>1, <1>5, <2>3 DEF ClientOK, SameLease, Using, Holding
  <2> QED BY <2>2, <2>3, <2>4 DEF NoNewLease, Extending, e
<1>6. CASE e = d
  <2>1. ClientOK(e)
    BY <1>1, <1>6 DEF ClientOK, SameLease, Using
  <2>2. OutOK(e)
    BY <1>1, <1>6 DEF OutOK
  <2>3. NoNewLease(c, e)
    BY <1>1, <1>6 DEF NoNewLease, SameLease, Using
  <2> QED BY <2>1, <2>2, <2>3 DEF e
<1> QED BY <1>2, <1>3, <1>4, <1>5, <1>6

\* dhcp_start
LEMMA StartOK ==
  ASSUME NEW mem \in BOOLEAN
  PROVE  LET e == Start(mem) IN ClientOK(e) /\ OutOK(e) /\ ~Using(e) /\ e.state \notin Extending
<1>1. ClientOff \in ClientType /\ ClientOff.out = <<>> /\ ClientOff.ip = 0
  BY DEF ClientOff, ClientType, ClientStates
<1> DEFINE d == Discover(ClientOff, mem)
           a == SetState(d, "OFF")
           e == [a EXCEPT !.newXid = FALSE]
<1>2. ClientOK(d) /\ OutOK(d) /\ d.state = "SELECTING" /\ ~Using(d)
      /\ d \in ClientType /\ NoRelease(d) /\ d.ip = 0
  <2>1. ReleaseFirst(ClientOff) /\ NoRelease(ClientOff)
    BY <1>1, IdleSends
  <2>2. ClientOK(d) /\ OutOK(d) /\ d.state = "SELECTING" /\ ~Using(d)
    BY <1>1, <2>1, DiscoverOK
  <2>3. d \in ClientType /\ NoRelease(d) /\ d.ip = 0
    BY <1>1, <2>1, DiscoverIs
  <2> QED BY <2>2, <2>3
<1>3. Start(mem) = IF mem THEN d ELSE e
  BY DEF Start
<1> HIDE DEF d
<1>4. a \in ClientType /\ a.state = "OFF" /\ SameLease(d, a) /\ a.out = d.out
  <2>1. "OFF" \in ClientStates
    BY DEF ClientStates
  <2> QED BY <1>2, <2>1, SetStateIs
<1> HIDE DEF a
<1>5. /\ e \in ClientType /\ e.state = "OFF" /\ e.out = d.out /\ e.ip = 0
  BY <1>2, <1>4 DEF ClientType, SameLease
<1> HIDE DEF e
<1>6. ClientOK(e) /\ OutOK(e) /\ ~Using(e) /\ e.state \notin Extending
  BY <1>2, <1>5 DEF ClientOK, OutOK, Using, Extending, NoRelease
<1> QED BY <1>2, <1>3, <1>6 DEF Extending

\* dhcp_stop, with or without dhcp_release before it
LEMMA StopOK ==
  ASSUME NEW c, ClientOK(c), Idle(c), NEW mem \in BOOLEAN, NEW d \in {c, Release(c, mem)}
  PROVE  LET e == [ClientOff EXCEPT !.out = d.out, !.newXid = d.newXid]
         IN  ClientOK(e) /\ OutOK(e) /\ ~Using(e) /\ e.state = "OFF"
<1> DEFINE e == [ClientOff EXCEPT !.out = d.out, !.newXid = d.newXid]
<1>1. c \in ClientType /\ c.out = <<>>
  BY DEF ClientOK, Idle
<1>2. d \in ClientType /\ ReleaseFirst(d)
  BY <1>1, IdleSends, ReleaseIs
<1>3. e \in ClientType /\ e.out = d.out /\ e.newXid = d.newXid /\ e.state = "OFF" /\ e.ip = 0
  BY <1>2 DEF ClientOff, ClientType, ClientStates
<1> HIDE DEF e
<1>4. ClientOK(e) /\ ~Using(e)
  BY <1>3 DEF ClientOK, Using
<1>5. OutOK(e)
  BY <1>2, <1>3 DEF OutOK, ReleaseFirst, Extending
<1> QED BY <1>3, <1>4, <1>5 DEF e

\* dhcp_recv: a new lease is what the current ACK confirms.
LEMMA RecvOK ==
  ASSUME NEW c, ClientOK(c), Idle(c), NEW mem \in BOOLEAN, NEW m \in Reply,
         m.type # "NAK" => m.yiaddr \in Pool,
         m.cur /\ m.type = "ACK" /\ c.state \in Extending => m.yiaddr = c.ip
  PROVE  LET e == Recv(c, m, LeaseTime, mem)
         IN  /\ ClientOK(e) /\ OutOK(e)
             /\ ~m.cur => e = c
             /\ \/ NoNewLease(c, e)
                \/ /\ m.cur /\ m.type = "ACK" /\ e.state = "BOUND"
                   /\ e.ip = m.yiaddr /\ e.t0 = LeaseTime /\ e.used = 0
<1> DEFINE e == Recv(c, m, LeaseTime, mem)
           a == [c EXCEPT !.lease = LeaseTime, !.offered = m.yiaddr]
           o == [c EXCEPT !.waiting = FALSE, !.offered = m.yiaddr]
<1>1. c \in ClientType /\ c.out = <<>> /\ c.newXid = FALSE /\ m.type \in {"OFFER", "ACK", "NAK"}
  BY DEF ClientOK, Idle, Reply
<1>2. \/ m.cur /\ m.type = "ACK" /\ c.state = "REQUESTING" /\ e = Bind(a)
      \/ m.cur /\ m.type = "ACK" /\ c.state \in Extending /\ e = Bind(c)
      \/ m.cur /\ m.type = "NAK" /\ e = HandleNak(c, mem)
      \/ m.cur /\ m.type = "OFFER" /\ c.state = "SELECTING" /\ e = Select(o, mem)
      \/ e = c
  <2>1. CASE c.state = "OFF" \/ ~m.cur
    BY <2>1, Zenon DEF Recv
  <2>2. CASE ~(c.state = "OFF" \/ ~m.cur)
    <3>1. e = CASE m.type = "ACK" /\ c.state = "REQUESTING" -> Bind(a)
                [] m.type = "ACK" /\ c.state \in {"REBINDING", "RENEWING"} -> Bind(c)
                [] m.type = "NAK" /\ c.state \in {"REQUESTING", "REBINDING", "RENEWING"} ->
                     HandleNak(c, mem)
                [] m.type = "OFFER" /\ c.state = "SELECTING" -> Select(o, mem)
                [] OTHER -> c
      BY <2>2, Zenon DEF Recv, HandleAck
    <3> HIDE DEF e, a, o
    <3>2. \/ m.type = "ACK" /\ c.state = "REQUESTING" /\ e = Bind(a)
          \/ m.type = "ACK" /\ c.state \in {"REBINDING", "RENEWING"} /\ e = Bind(c)
          \/ m.type = "NAK" /\ e = HandleNak(c, mem)
          \/ m.type = "OFFER" /\ c.state = "SELECTING" /\ e = Select(o, mem)
          \/ e = c
      BY <3>1, Zenon
    <3>3. c.state \in {"REBINDING", "RENEWING"} => c.state \in Extending
      BY DEF Extending
    <3> QED BY <2>2, <3>2, <3>3
  <2> QED BY <2>1, <2>2
<1>3. ~m.cur => e = c
  BY Zenon DEF Recv
<1> HIDE DEF e
<1>4. CASE m.cur /\ m.type = "ACK" /\ c.state = "REQUESTING" /\ e = Bind(a)
  <2>1. m.yiaddr \in Pool /\ LeaseTime \in Nat \ {0}
    BY <1>4, PoolIs
  <2>2. /\ a \in ClientType /\ a.offered = m.yiaddr /\ a.lease = LeaseTime
        /\ a.out = <<>> /\ a.newXid = FALSE
    BY <1>1, <2>1 DEF ClientType
  <2> HIDE DEF a
  <2>3. /\ e \in ClientType /\ e.state = "BOUND" /\ e.out = a.out /\ e.newXid = a.newXid
        /\ e.offered = a.offered /\ e.ip = a.offered /\ e.lease = a.lease
        /\ e.t0 = a.lease /\ e.used = 0
    BY <1>4, <2>2, BindIs
  <2>4. ClientOK(e)
    BY <2>1, <2>2, <2>3 DEF ClientOK, Using, Holding
  <2>5. OutOK(e)
    BY <2>2, <2>3 DEF OutOK, Extending
  <2> QED BY <1>3, <1>4, <2>2, <2>3, <2>4, <2>5 DEF e
<1>5. CASE m.cur /\ m.type = "ACK" /\ c.state \in Extending /\ e = Bind(c)
  <2>1. m.yiaddr \in Pool /\ m.yiaddr = c.ip /\ LeaseTime \in Nat \ {0} /\ m.yiaddr # 0
    BY <1>5, PoolIs
  <2>2. c.offered = m.yiaddr /\ c.lease = LeaseTime
    BY <1>5, <2>1 DEF ClientOK, Using, Holding, Extending
  <2>3. /\ e \in ClientType /\ e.state = "BOUND" /\ e.out = c.out /\ e.newXid = c.newXid
        /\ e.offered = c.offered /\ e.ip = c.offered /\ e.lease = c.lease
        /\ e.t0 = c.lease /\ e.used = 0
    BY <1>1, <1>5, BindIs
  <2>4. ClientOK(e)
    BY <2>1, <2>2, <2>3 DEF ClientOK, Using, Holding
  <2>5. OutOK(e)
    BY <1>1, <2>3 DEF OutOK, Extending
  <2> QED BY <1>3, <1>5, <2>2, <2>3, <2>4, <2>5 DEF e
<1>6. CASE m.cur /\ m.type = "NAK" /\ e = HandleNak(c, mem)
  <2> DEFINE z == [c EXCEPT !.ip = 0]
             b == SetState(z, "BACKING_OFF")
  <2>1. z \in ClientType /\ z.ip = 0 /\ z.out = <<>>
    BY <1>1 DEF ClientType
  <2> HIDE DEF z
  <2>2. b \in ClientType /\ SameLease(z, b) /\ b.out = z.out
    <3>1. "BACKING_OFF" \in ClientStates
      BY DEF ClientStates
    <3> QED BY <2>1, <3>1, SetStateIs
  <2>3. e = Discover(b, mem)
    BY <1>6 DEF HandleNak, z
  <2> HIDE DEF b
  <2>4. ReleaseFirst(b) /\ b.ip = 0
    BY <2>1, <2>2, IdleSends DEF SameLease
  <2>5. ClientOK(e) /\ OutOK(e) /\ e.state = "SELECTING" /\ ~Using(e)
    BY <2>2, <2>3, <2>4, DiscoverOK
  <2> QED BY <1>3, <1>6, <2>5 DEF NoNewLease, Extending, e
<1>7. CASE m.cur /\ m.type = "OFFER" /\ c.state = "SELECTING" /\ e = Select(o, mem)
  <2>1. /\ o \in ClientType /\ o.out = <<>> /\ o.newXid = FALSE /\ o.ip = c.ip
        /\ o.t1r = c.t1r /\ o.t2r = c.t2r
    BY <1>1, <1>7 DEF ClientType
  <2> HIDE DEF o
  <2>2. RequestIs(o, e, "REQUESTING", o.offered)
    BY <1>7, <2>1, SelectIs
  <2>3. OutOK(e)
    BY <2>1, <2>2, RequestOK DEF Extending
  <2>4. e \in ClientType /\ e.state = "REQUESTING" /\ SameLease(o, e)
    BY <2>2 DEF RequestIs
  <2>5. ClientOK(e) /\ ~Using(e)
    BY <1>7, <2>1, <2>4 DEF ClientOK, SameLease, Using, Holding
  <2> QED BY <1>3, <1>7, <2>3, <2>4, <2>5 DEF NoNewLease, Extending, e
<1>8. CASE e = c
  <2>1. OutOK(e)
    BY <1>1, <1>8 DEF OutOK
  <2> QED BY <1>8, <2>1 DEF NoNewLease, e
<1> QED BY <1>2, <1>4, <1>5, <1>6, <1>7, <1>8

\* dhcp_coarse_tmr: a lease that is still believed in is a tick older.
LEMMA ClientTmrOK ==
  ASSUME NEW c, ClientOK(c), Idle(c), NEW mem \in BOOLEAN
  PROVE  LET e == ClientTmr(c, mem)
         IN  /\ ClientOK(e) /\ OutOK(e)
             /\ Using(e) => /\ Using(c) /\ e.ip = c.ip /\ e.t0 = c.t0
                            /\ e.used = c.used + 1 /\ e.used < e.t0
<1> DEFINE d == [c EXCEPT !.used = IF c.t0 # 0 THEN c.used + 1 ELSE c.used]
           d2 == [d EXCEPT !.t2r = Pred(d.t2r)]
           d1 == [d2 EXCEPT !.t1r = Pred(d2.t1r)]
           e == ClientTmr(c, mem)
\* x is c a tick later, but for the timers of its lease.
<1> DEFINE Later(x) == /\ x \in ClientType /\ x.offered = c.offered /\ x.lease = c.lease
                       /\ x.t0 = c.t0 /\ x.ip = c.ip
                       /\ x.used = (IF c.t0 # 0 THEN c.used + 1 ELSE c.used)
           Still(x) == x.state = c.state /\ x.out = <<>> /\ x.newXid = FALSE
<1>1. c \in ClientType /\ c.out = <<>> /\ c.newXid = FALSE /\ c.t1r \in Nat /\ c.t2r \in Nat
      /\ c.used \in Nat /\ c.t0 \in Nat
  <2>1. c \in ClientType /\ c.out = <<>> /\ c.newXid = FALSE
    BY DEF ClientOK, Idle
  <2> QED BY <2>1, PoolIs DEF ClientType
<1>2. Later(d) /\ Still(d) /\ d.t1r = c.t1r /\ d.t2r = c.t2r
  <2>1. PICK u \in Nat : u = IF c.t0 # 0 THEN c.used + 1 ELSE c.used
    BY <1>1
  <2>2. d = [c EXCEPT !.used = u]
    BY <2>1
  <2> HIDE DEF d
  <2> QED BY <1>1, <2>1, <2>2 DEF ClientType
<1>3. \A t \in Nat : Pred(t) \in Nat /\ (t = 0 => Pred(t) = 0)
  BY DEF Pred
<1>4. Later(d2) /\ Still(d2) /\ d2.t1r = c.t1r /\ d2.t2r = Pred(c.t2r)
  <2>1. PICK t \in Nat : t = Pred(d.t2r)
    BY <1>1, <1>2, <1>3
  <2>2. d2 = [d EXCEPT !.t2r = t]
    BY <2>1
  <2> HIDE DEF d, d2
  <2> QED BY <1>2, <2>1, <2>2 DEF ClientType
<1>5. Later(d1) /\ Still(d1) /\ d1.t1r = Pred(c.t1r) /\ d1.t2r = Pred(c.t2r)
  <2>1. PICK t \in Nat : t = Pred(d2.t1r)
    BY <1>1, <1>3, <1>4
  <2>2. d1 = [d2 EXCEPT !.t1r = t]
    BY <2>1
  <2> HIDE DEF d1, d2
  <2> QED BY <1>4, <2>1, <2>2 DEF ClientType
<1>6. \/ c.state = "OFF" /\ e = c
      \/ e = Discover(Release(d, mem), mem)
      \/ ~(c.t0 # 0 /\ d.used = c.t0) /\ d.t2r = 1 /\ e = T2Timeout(d2, mem)
      \/ ~(c.t0 # 0 /\ d.used = c.t0) /\ d.t1r = 1 /\ e = T1Timeout(d1, mem)
      \/ ~(c.t0 # 0 /\ d.used = c.t0) /\ e = d1
  <2>1. e = CASE c.state = "OFF" -> c
              [] c.state # "OFF" /\ d.t0 # 0 /\ d.used = d.t0 -> Discover(Release(d, mem), mem)
              [] c.state # "OFF" /\ ~(d.t0 # 0 /\ d.used = d.t0) ->
                   CASE d.t2r = 1 -> T2Timeout(d2, mem)
                     [] d.t2r # 1 /\ d.t1r = 1 -> T1Timeout(d1, mem)
                     [] OTHER -> d1
    BY Zenon DEF ClientTmr
  <2>2. d.t0 = c.t0
    BY <1>2
  <2> HIDE DEF e, d, d1, d2
  <2> QED BY <2>1, <2>2, Zenon
<1> HIDE DEF e, d, d1, d2
\* Extending a lease, x the client before.
<1>7. ASSUME NEW x, Later(x), Still(x), ~(c.t0 # 0 /\ d.used = c.t0),
             NEW st \in Extending, NEW y, RequestIs(x, y, st, 0),
             NEW e2 \in ClientType, e2.state = y.state, e2.offered = y.offered, e2.lease = y.lease,
             e2.t0 = y.t0, e2.used = y.used, e2.ip = y.ip, e2.out = y.out, e2.newXid = y.newXid,
             c.state \in Holding \/ c.ip = 0
      PROVE  /\ ClientOK(e2) /\ OutOK(e2)
             /\ Using(e2) => /\ Using(c) /\ e2.ip = c.ip /\ e2.t0 = c.t0
                             /\ e2.used = c.used + 1 /\ e2.used < e2.t0
  <2>1. y.state = st /\ SameLease(x, y) /\ y.newXid = FALSE /\ OutOK(y)
    <3>1. OutOK(y)
      BY <1>7, RequestOK DEF Extending
    <3> QED BY <1>7, <3>1 DEF RequestIs
  <2>2. OutOK(e2)
    BY <1>7, <2>1 DEF OutOK
  <2>3. /\ e2.state = st /\ e2.ip = c.ip /\ e2.t0 = c.t0 /\ e2.offered = c.offered
        /\ e2.lease = c.lease /\ e2.used = d.used
    BY <1>2, <1>7, <2>1 DEF SameLease
  <2>4. ASSUME c.ip # 0
        PROVE  /\ Using(c) /\ c.offered = c.ip /\ c.lease = LeaseTime /\ c.t0 = LeaseTime
               /\ d.used = c.used + 1 /\ d.used < c.t0
    <3>1. Using(c)
      BY <1>7, <2>4 DEF Using
    <3>2. c.offered = c.ip /\ c.lease = LeaseTime /\ c.t0 = LeaseTime /\ c.used < c.t0 /\ c.t0 # 0
      BY <3>1, PoolIs DEF ClientOK
    <3>3. d.used = c.used + 1 /\ d.used # c.t0
      BY <1>2, <1>7, <3>2
    <3> QED BY <1>1, <3>1, <3>2, <3>3
  <2>5. e2.state \in Holding
    BY <1>7, <2>3 DEF Holding, Extending
  <2> HIDE DEF Later, Still
  <2>6. ClientOK(e2)
    BY <1>7, <2>3, <2>4, <2>5 DEF ClientOK, Using
  <2>7. Using(e2) => c.ip # 0
    BY <2>3 DEF Using
  <2> QED BY <2>2, <2>3, <2>4, <2>6, <2>7
<1>8. CASE c.state = "OFF" /\ e = c
  <2>1. OutOK(e)
    BY <1>1, <1>8 DEF OutOK
  <2> QED BY <1>8, <2>1 DEF Using, Holding, e
<1>9. CASE e = Discover(Release(d, mem), mem)
  <2> DEFINE r == Release(d, mem)
  <2>1. r \in ClientType /\ ReleaseFirst(r) /\ r.t1r = 0 /\ r.t2r = 0
    BY <1>2, ReleaseIs
  <2> HIDE DEF r
  <2>2. ClientOK(e) /\ OutOK(e) /\ ~Using(e)
    BY <1>9, <2>1, DiscoverOK DEF r
  <2> QED BY <2>2 DEF e
\* No timer runs off in a state that does not hold the address it has.
<1>10. d.t2r = 1 \/ d.t1r = 1 => c.state \in Holding \/ c.ip = 0
  BY <1>2 DEF ClientOK
\* A tick in which nothing else happens.
<1>11. ASSUME NEW x, Later(x), Still(x), ~(c.t0 # 0 /\ d.used = c.t0),
              x.t1r \in {c.t1r, Pred(c.t1r)}, x.t2r = Pred(c.t2r)
       PROVE  /\ ClientOK(x) /\ OutOK(x)
              /\ Using(x) => /\ Using(c) /\ x.ip = c.ip /\ x.t0 = c.t0
                             /\ x.used = c.used + 1 /\ x.used < x.t0
  <2>1. OutOK(x)
    BY <1>11 DEF OutOK
  <2>2. ASSUME Using(x)
        PROVE  /\ Using(c) /\ x.ip = c.ip /\ x.t0 = c.t0 /\ x.used = c.used + 1 /\ x.used < x.t0
               /\ x.offered = x.ip /\ x.lease = LeaseTime /\ x.t0 = LeaseTime
    <3>1. Using(c)
      BY <1>11, <2>2 DEF Using
    <3>2. c.offered = c.ip /\ c.lease = LeaseTime /\ c.t0 = LeaseTime /\ c.used < c.t0 /\ c.t0 # 0
      BY <3>1, PoolIs DEF ClientOK
    <3>3. x.used = c.used + 1 /\ x.used # c.t0
      BY <1>2, <1>11, <3>2
    <3> QED BY <1>1, <1>11, <3>1, <3>2, <3>3
  <2>3. x.state \notin Holding /\ x.ip # 0 => x.t1r = 0 /\ x.t2r = 0
    <3>1. x.state \notin Holding /\ x.ip # 0 => c.t1r = 0 /\ c.t2r = 0
      BY <1>11 DEF ClientOK
    <3> QED BY <1>1, <1>3, <1>11, <3>1
  <2>4. ClientOK(x)
    BY <1>11, <2>2, <2>3 DEF ClientOK
  <2> QED BY <2>1, <2>2, <2>4
<1>12. CASE ~(c.t0 # 0 /\ d.used = c.t0) /\ d.t2r = 1 /\ e = T2Timeout(d2, mem)
  <2> DEFINE y == Rebind(d2, mem)
             h == Half(d2.t0, d2.used)
             z == [y EXCEPT !.t2r = IF h >= MinRetry THEN h ELSE y.t2r]
  <2>1. RequestIs(d2, y, "REBINDING", 0)
    BY <1>4, RenewIs
  <2>2. e = d2 \/ e = z
    BY <1>12 DEF T2Timeout
  <2> HIDE DEF y
  <2>3. /\ z \in ClientType /\ z.state = y.state /\ z.offered = y.offered /\ z.lease = y.lease
        /\ z.t0 = y.t0 /\ z.used = y.used /\ z.ip = y.ip /\ z.out = y.out /\ z.newXid = y.newXid
    <3>1. d2.t0 \in Nat /\ d2.used \in Nat /\ y \in ClientType /\ y.t2r \in Nat
      <4>1. d2 \in ClientType /\ d2.t0 = c.t0 /\ y \in ClientType
        BY <1>4, <2>1 DEF RequestIs
      <4> QED BY <1>1, <4>1 DEF ClientType
    <3>2. h \in Nat
      BY <3>1 DEF Half
    <3>3. PICK t \in Nat : t = IF h >= MinRetry THEN h ELSE y.t2r
      BY <3>1, <3>2
    <3>4. z = [y EXCEPT !.t2r = t]
      BY <3>3
    <3> HIDE DEF z
    <3> QED BY <3>1, <3>4 DEF ClientType
  <2> HIDE DEF z
  <2>4. CASE e = z
    <3>1. PICK st \in Extending : st = "REBINDING"
      BY DEF Extending
    <3> HIDE DEF Later, Still
    <3> QED BY <1>4, <1>7, <1>10, <1>12, <2>1, <2>3, <2>4, <3>1 DEF e
  <2>5. CASE e = d2
    <3> HIDE DEF Later, Still
    <3> QED BY <1>4, <1>11, <1>12, <2>5 DEF e
  <2> QED BY <2>2, <2>4, <2>5
<1>13. CASE ~(c.t0 # 0 /\ d.used = c.t0) /\ d.t1r = 1 /\ e = T1Timeout(d1, mem)
  <2> DEFINE y == Renew(d1, mem)
             h == Half(d1.t2, d1.used)
             z == [y EXCEPT !.t1r = IF h >= MinRetry THEN h ELSE y.t1r]
  <2>1. RequestIs(d1, y, "RENEWING", 0)
    BY <1>5, RenewIs
  <2>2. e = d1 \/ e = z
    BY <1>13 DEF T1Timeout
  <2> HIDE DEF y
  <2>3. /\ z \in ClientType /\ z.state = y.state /\ z.offered = y.offered /\ z.lease = y.lease
        /\ z.t0 = y.t0 /\ z.used = y.used /\ z.ip = y.ip /\ z.out = y.out /\ z.newXid = y.newXid
    <3>1. d1.t2 \in Nat /\ d1.used \in Nat /\ y \in ClientType /\ y.t1r \in Nat
      BY <1>5, <2>1 DEF ClientType, RequestIs
    <3>2. h \in Nat
      BY <3>1 DEF Half
    <3>3. PICK t \in Nat : t = IF h >= MinRetry THEN h ELSE y.t1r
      BY <3>1, <3>2
    <3>4. z = [y EXCEPT !.t1r = t]
      BY <3>3
    <3> HIDE DEF z
    <3> QED BY <3>1, <3>4 DEF ClientType
  <2> HIDE DEF z
  <2>4. CASE e = z
    <3>1. PICK st \in Extending : st = "RENEWING"
      BY DEF Extending
    <3> HIDE DEF Later, Still
    <3> QED BY <1>5, <1>7, <1>10, <1>13, <2>1, <2>3, <2>4, <3>1 DEF e
  <2>5. CASE e = d1
    <3> HIDE DEF Later, Still
    <3> QED BY <1>5, <1>11, <1>13, <2>5 DEF e
  <2> QED BY <2>2, <2>4, <2>5
<1>14. CASE ~(c.t0 # 0 /\ d.used = c.t0) /\ e = d1
  <2> HIDE DEF Later, Still
  <2> QED BY <1>5, <1>11, <1>14 DEF e
<1> QED BY <1>6, <1>8, <1>9, <1>12, <1>13, <1>14

-----------------------------------------------------------------------------
(* What is under way *)

LEMMA HeadTail ==
  ASSUME NEW S, NEW q \in Seq(S), q # <<>>
  PROVE  /\ Tail(q) \in Seq(S) /\ Head(q) = q[1] /\ 1 \in DOMAIN q /\ Head(q) \in S
         /\ \A i \in DOMAIN Tail(q) : i \in Nat \ {0} /\ i + 1 \in DOMAIN q /\ Tail(q)[i] = q[i + 1]
<1>1. Len(q) \in Nat \ {0} /\ DOMAIN q = 1 .. Len(q)
  OBVIOUS
<1>2. Tail(q) \in Seq(S) /\ Len(Tail(q)) = Len(q) - 1
      /\ \A i \in 1 .. (Len(q) - 1) : Tail(q)[i] = q[i + 1]
  BY HeadTailProperties
<1>3. DOMAIN Tail(q) = 1 .. (Len(q) - 1)
  BY <1>2
<1> QED BY <1>1, <1>2, <1>3

\* r2 is what is left of the replies r; after a new transaction nothing of it
\* is current.
Left(r2, r, xid) ==
    /\ r2 \in Seq(Reply)
    /\ \A j \in DOMAIN r2 : \E i \in DOMAIN r :
         /\ r2[j].type = r[i].type /\ r2[j].yiaddr = r[i].yiaddr
         /\ r2[j].cur => r[i].cur /\ ~xid

\* q2 is q and after it what the result d of a call of station s sends; after
\* a new transaction nothing of q is current.
IsSent(q2, q, s, d) ==
    /\ q2 \in Seq(Message)
    /\ DOMAIN q2 = 1 .. (Len(q) + Len(d.out))
    /\ \A i \in 1 .. Len(q) :
         /\ q2[i].type = q[i].type /\ q2[i].mac = q[i].mac
         /\ q2[i].cur => q[i].cur /\ ~d.newXid
         /\ ~d.newXid => q2[i] = q[i]
    /\ \A i \in 1 .. Len(d.out) :
         LET m == q2[Len(q) + i]
         IN  /\ m.mac = s /\ m.type = d.out[i].type /\ m.cur = d.out[i].cur
             /\ m.req = d.out[i].req /\ m.ciaddr = d.out[i].ciaddr

LEMMA SentIs ==
  ASSUME NEW Q, NEW s \in Macs, Q[s] \in Seq(Message), NEW d, d.out \in Seq(OutMsg)
  PROVE  IsSent(Sent(Q, s, d), Q[s], s, d)
<1> DEFINE old == IF d.newXid THEN Outdated(Q[s]) ELSE Q[s]
           out == [i \in DOMAIN d.out |-> [type |-> d.out[i].type, mac |-> s,
                     ciaddr |-> d.out[i].ciaddr, req |-> d.out[i].req, cur |-> d.out[i].cur]]
           n == Len(Q[s])
           k == Len(d.out)
<1>1. /\ n \in Nat /\ k \in Nat /\ DOMAIN Q[s] = 1 .. n /\ DOMAIN d.out = 1 .. k
      /\ \A i \in 1 .. k : d.out[i] \in OutMsg
  OBVIOUS
<1>2. Sent(Q, s, d) = old \o out
  BY Zenon DEF Sent
<1>3. /\ old \in Seq(Message) /\ DOMAIN old = 1 .. n
      /\ \A i \in 1 .. n : /\ old[i].type = Q[s][i].type /\ old[i].mac = Q[s][i].mac
                           /\ old[i].cur => Q[s][i].cur /\ ~d.newXid
                           /\ ~d.newXid => old[i] = Q[s][i]
  <2>1. CASE d.newXid
    <3>1. /\ Outdated(Q[s]) \in Seq(Message) /\ DOMAIN Outdated(Q[s]) = DOMAIN Q[s]
          /\ \A i \in DOMAIN Q[s] : /\ Outdated(Q[s])[i].type = Q[s][i].type
                                    /\ Outdated(Q[s])[i].cur = FALSE
                                    /\ Outdated(Q[s])[i].mac = Q[s][i].mac
      BY OutdatedIs
    <3> QED BY <1>1, <2>1, <3>1
  <2>2. CASE ~d.newXid
    BY <1>1, <2>2
  <2> QED BY <2>1, <2>2
<1>4. /\ out \in Seq(Message) /\ DOMAIN out = 1 .. k
      /\ \A i \in 1 .. k : /\ out[i].mac = s /\ out[i].type = d.out[i].type /\ out[i].cur = d.out[i].cur
                           /\ out[i].req = d.out[i].req /\ out[i].ciaddr = d.out[i].ciaddr
  <2>1. ASSUME NEW i \in 1 .. k
        PROVE  /\ out[i] \in Message /\ out[i].mac = s /\ out[i].type = d.out[i].type
               /\ out[i].cur = d.out[i].cur
               /\ out[i].req = d.out[i].req /\ out[i].ciaddr = d.out[i].ciaddr
    <3>1. PICK o \in OutMsg : o = d.out[i]
      BY <1>1
    <3>2. out[i] = [type |-> o.type, mac |-> s, ciaddr |-> o.ciaddr, req |-> o.req, cur |-> o.cur]
      BY <1>1, <3>1
    <3> HIDE DEF out
    <3> QED BY <3>1, <3>2 DEF OutMsg, Message
  <2>2. DOMAIN out = 1 .. k
    BY <1>1
  <2>3. out = [i \in 1 .. k |-> out[i]]
    BY <1>1
  <2>4. out \in [1 .. k -> Message]
    <3> HIDE DEF out
    <3> QED BY <2>1, <2>3
  <2> HIDE DEF out, k
  <2> QED BY <1>1, <2>1, <2>2, <2>4, SeqDef
<1>5. Len(old) = n /\ Len(out) = k
  <2> HIDE DEF old, out, n, k
  <2> QED BY <1>1, <1>3, <1>4, LenProperties
<1> HIDE DEF old, out, n, k
<1> DEFINE q2 == old \o out
<1>6. /\ q2 \in Seq(Message) /\ DOMAIN q2 = 1 .. (n + k)
      /\ \A i \in 1 .. n : q2[i] = old[i]
      /\ \A i \in 1 .. k : q2[n + i] = out[i]
  <2>1. /\ q2 \in Seq(Message) /\ Len(q2) = n + k
        /\ \A i \in 1 .. (n + k) : q2[i] = IF i <= n THEN old[i] ELSE out[i - n]
    <3>1. /\ old \o out \in Seq(Message) /\ Len(old \o out) = Len(old) + Len(out)
          /\ \A i \in 1 .. Len(old) + Len(out) :
               (old \o out)[i] = IF i <= Len(old) THEN old[i] ELSE out[i - Len(old)]
      BY <1>3, <1>4, ConcatProperties
    <3> HIDE DEF q2
    <3>2. Len(old) + Len(out) = n + k
      BY <1>5
    <3> QED BY <1>5, <3>1, <3>2 DEF q2
  <2> HIDE DEF q2
  <2>2. \A i \in 1 .. n : i \in 1 .. (n + k) /\ i <= n
    BY <1>1
  <2>3. \A i \in 1 .. k : n + i \in 1 .. (n + k) /\ ~(n + i <= n) /\ (n + i) - n = i
    BY <1>1
  <2> QED BY <2>1, <2>2, <2>3
<1> HIDE DEF q2
<1>7. \A i \in 1 .. n : /\ q2[i].type = Q[s][i].type /\ q2[i].mac = Q[s][i].mac
                        /\ q2[i].cur => Q[s][i].cur /\ ~d.newXid
                        /\ ~d.newXid => q2[i] = Q[s][i]
  BY <1>3, <1>6
<1>8. \A i \in 1 .. k : LET m == q2[n + i]
                        IN  /\ m.mac = s /\ m.type = d.out[i].type /\ m.cur = d.out[i].cur
                            /\ m.req = d.out[i].req /\ m.ciaddr = d.out[i].ciaddr
  BY <1>4, <1>6
<1> QED BY <1>2, <1>6, <1>7, <1>8, ZenonT(60) DEF n, k, q2, IsSent

\* What remains of the result of a call.
Clear(d) == [d EXCEPT !.out = <<>>, !.newXid = FALSE]

LEMMA Cleared ==
  ASSUME NEW d \in ClientType
  PROVE  LET e == Clear(d)
         IN  /\ e \in ClientType /\ e.state = d.state /\ e.ip = d.ip /\ e.offered = d.offered
             /\ e.lease = d.lease /\ e.t0 = d.t0 /\ e.used = d.used /\ e.t1r = d.t1r
             /\ e.t2r = d.t2r /\ e.out = <<>> /\ e.newXid = FALSE
<1>1. <<>> \in Seq(OutMsg) /\ FALSE \in BOOLEAN
  OBVIOUS
<1> QED BY <1>1 DEF ClientType, Clear

\* A client's call with the result d leaves everything between it and the
\* server in order.
LEMMA CallOK ==
  ASSUME NEW Q, NEW s \in Macs, NEW c, NEW r, NEW l, StationOK(s, c, Q[s], r, l),
         NEW d, ClientOK(d), OutOK(d), NEW r2, Left(r2, r, d.newXid),
         \A i \in DOMAIN Q[s] : Q[s][i].type = "RELEASE" => d.state \in {"SELECTING", "OFF"},
         d.state \in Extending => \/ c.state \in Extending /\ d.ip = c.ip
                                  \/ Q[s] = <<>> /\ r = <<>>
  PROVE  Idle(Clear(d)) /\ StationOK(s, Clear(d), Sent(Q, s, d), r2, l)
<1> DEFINE e == Clear(d)
           q == Q[s]
           q2 == Sent(Q, s, d)
           n == Len(q)
           k == Len(d.out)
<1>1. /\ q \in Seq(Message) /\ n \in Nat /\ DOMAIN q = 1 .. n
      /\ \A i \in 1 .. n : q[i].mac = s
      /\ c.state \in Extending => \A i \in 1 .. n : q[i].cur =>
           q[i].type = "REQUEST" /\ q[i].req = 0 /\ q[i].ciaddr = c.ip
  <2>1. MessagesOK(s, c, q)
    BY DEF StationOK
  <2> QED BY <2>1 DEF MessagesOK
<1>2. d \in ClientType /\ d.out \in Seq(OutMsg) /\ k \in Nat /\ DOMAIN d.out = 1 .. k
  BY DEF ClientOK, ClientType
<1>3. /\ Idle(e) /\ ClientOK(e) /\ e.state = d.state /\ e.ip = d.ip
  <2>1. /\ e \in ClientType /\ e.state = d.state /\ e.ip = d.ip /\ e.offered = d.offered
        /\ e.lease = d.lease /\ e.t0 = d.t0 /\ e.used = d.used /\ e.t1r = d.t1r /\ e.t2r = d.t2r
        /\ e.out = <<>> /\ e.newXid = FALSE
    BY <1>2, Cleared
  <2> QED BY <2>1 DEF ClientOK, Using, Idle
<1>4. /\ q2 \in Seq(Message) /\ DOMAIN q2 = 1 .. (n + k)
      /\ \A i \in 1 .. n : /\ q2[i].type = q[i].type /\ q2[i].mac = q[i].mac
                           /\ q2[i].cur => q[i].cur /\ ~d.newXid
                           /\ ~d.newXid => q2[i] = q[i]
      /\ \A i \in 1 .. k : LET m == q2[n + i]
                           IN  /\ m.mac = s /\ m.type = d.out[i].type /\ m.cur = d.out[i].cur
                               /\ m.req = d.out[i].req /\ m.ciaddr = d.out[i].ciaddr
  <2>1. IsSent(q2, q, s, d)
    BY <1>1, <1>2, SentIs
  <2> HIDE DEF q2, q
  <2> QED BY <2>1 DEF IsSent
<1> HIDE DEF e, q, q2, n, k
<1>5. \A i \in DOMAIN q2 : i \in 1 .. n \/ \E j \in 1 .. k : i = n + j
  <2> TAKE i \in DOMAIN q2
  <2>1. CASE i <= n
    BY <1>1, <1>4, <2>1
  <2>2. CASE i > n
    <3>1. i - n \in 1 .. k /\ i = n + (i - n)
      BY <1>1, <1>2, <1>4, <2>2
    <3> QED BY <3>1
  <2> QED BY <1>1, <1>4, <2>1, <2>2
<1>6. MessagesOK(s, e, q2)
  <2>1. \A i \in DOMAIN q2 : q2[i].mac = s
    BY <1>1, <1>4, <1>5
  <2>2. ASSUME d.state \in Extending, NEW i \in DOMAIN q2, q2[i].cur
        PROVE  q2[i].type = "REQUEST" /\ q2[i].req = 0 /\ q2[i].ciaddr = d.ip
    <3>1. /\ d.newXid = FALSE
          /\ \A j \in 1 .. k : d.out[j].type = "REQUEST" /\ d.out[j].req = 0 /\ d.out[j].ciaddr = d.ip
      BY <1>2, <2>2 DEF OutOK
    <3>2. CASE i \in 1 .. n
      <4>1. q2[i] = q[i] /\ q[i].cur
        BY <1>4, <2>2, <3>1, <3>2
      <4>2. c.state \in Extending /\ d.ip = c.ip
        <5>1. q # <<>>
          BY <1>1, <3>2
        <5> QED BY <2>2, <5>1 DEF q
      <4> QED BY <1>1, <3>2, <4>1, <4>2
    <3>3. CASE \E j \in 1 .. k : i = n + j
      BY <1>4, <3>1, <3>3
    <3> QED BY <1>5, <3>2, <3>3
  <2> QED BY <1>3, <1>4, <2>1, <2>2 DEF MessagesOK
<1>7. RepliesOK(s, e, r2, l)
  <2>1. /\ \A i \in DOMAIN r : r[i].type # "NAK" => r[i].yiaddr \in Pool
        /\ \A i \in DOMAIN r : r[i].cur /\ r[i].type = "ACK" =>
             /\ Leased(l, s, r[i].yiaddr, LeaseTime)
             /\ c.state \in Extending => r[i].yiaddr = c.ip
    BY DEF StationOK, RepliesOK
  <2>2. r2 \in Seq(Reply) /\ \A j \in DOMAIN r2 : \E i \in DOMAIN r :
           /\ r2[j].type = r[i].type /\ r2[j].yiaddr = r[i].yiaddr /\ (r2[j].cur => r[i].cur)
    BY DEF Left
  <2>3. \A j \in DOMAIN r2 : r2[j].type # "NAK" => r2[j].yiaddr \in Pool
    BY <2>1, <2>2
  <2>4. ASSUME NEW j \in DOMAIN r2, r2[j].cur, r2[j].type = "ACK"
        PROVE  /\ Leased(l, s, r2[j].yiaddr, LeaseTime)
               /\ d.state \in Extending => r2[j].yiaddr = d.ip
    <3>1. PICK i \in DOMAIN r : r2[j].type = r[i].type /\ r2[j].yiaddr = r[i].yiaddr /\ r[i].cur
      BY <2>2, <2>4
    <3>2. r # <<>>
      BY <3>1
    <3> QED BY <2>1, <2>4, <3>1, <3>2
  <2> QED BY <1>3, <2>2, <2>3, <2>4 DEF RepliesOK
<1>8. ReleaseOK(e, q2, r2)
  <2> SUFFICES ASSUME NEW i \in DOMAIN q2, q2[i].type = "RELEASE"
               PROVE  /\ d.state \in {"SELECTING", "OFF"}
                      /\ \A j \in DOMAIN q2 : j < i => ~q2[j].cur
                      /\ \A j \in DOMAIN r2 : ~r2[j].cur
    BY <1>3 DEF ReleaseOK
  <2>1. CASE i \in 1 .. n
    <3>1. q[i].type = "RELEASE" /\ i \in DOMAIN q
      BY <1>1, <1>4, <2>1
    <3>2. (\A j \in DOMAIN q : j < i => ~q[j].cur) /\ (\A j \in DOMAIN r : ~r[j].cur)
      BY <3>1 DEF StationOK, ReleaseOK, q
    <3>3. \A j \in DOMAIN q2 : j < i => j \in 1 .. n
      BY <1>1, <1>4, <2>1
    <3>4. \A j \in DOMAIN q2 : j < i => ~q2[j].cur
      BY <1>1, <1>4, <3>2, <3>3
    <3>5. \A j \in DOMAIN r2 : ~r2[j].cur
      BY <3>2 DEF Left
    <3>6. d.state \in {"SELECTING", "OFF"}
      BY <3>1 DEF q
    <3> QED BY <3>4, <3>5, <3>6
  <2>2. CASE \E m \in 1 .. k : i = n + m
    <3>1. PICK m \in 1 .. k : i = n + m
      BY <2>2
    <3>2. d.out[m].type = "RELEASE" /\ m \in DOMAIN d.out
      BY <1>2, <1>4, <3>1
    <3>3. /\ d.newXid /\ d.state \in {"SELECTING", "OFF"}
          /\ \A j \in DOMAIN d.out : j < m => ~d.out[j].cur
      BY <3>2 DEF OutOK
    <3>4. ASSUME NEW j \in DOMAIN q2, j < i PROVE ~q2[j].cur
      <4>1. CASE j \in 1 .. n
        BY <1>4, <3>3, <4>1
      <4>2. CASE \E o \in 1 .. k : j = n + o
        <5>1. PICK o \in 1 .. k : j = n + o
          BY <4>2
        <5>2. o < m /\ o \in DOMAIN d.out
          BY <1>1, <1>2, <3>1, <3>4, <5>1
        <5> QED BY <1>4, <3>3, <5>1, <5>2
      <4> QED BY <1>5, <4>1, <4>2
    <3>5. \A j \in DOMAIN r2 : ~r2[j].cur
      BY <3>3 DEF Left
    <3> QED BY <3>3, <3>4, <3>5
  <2> QED BY <1>5, <2>1, <2>2
<1> QED BY <1>3, <1>6, <1>7, <1>8 DEF StationOK, q2, e

\* Everything that relies on the list relies on the leases of the station.
LEMMA ListChange ==
  ASSUME NEW s, NEW d, NEW q, NEW r, NEW l, StationOK(s, d, q, r, l), NEW l2,
         \A ip, t : Leased(l, s, ip, t) => Leased(l2, s, ip, t)
  PROVE  StationOK(s, d, q, r, l2) /\ (Covered(s, d, l) => Covered(s, d, l2))
<1>1. RepliesOK(s, d, r, l2)
  BY DEF StationOK, RepliesOK
<1> QED BY <1>1 DEF StationOK, Covered

\* A message is lost.
LEMMA LoseOK ==
  ASSUME NEW s, NEW d, NEW q, NEW r, NEW l, StationOK(s, d, q, r, l)
  PROVE  /\ q # <<>> => StationOK(s, d, Tail(q), r, l)
         /\ r # <<>> => StationOK(s, d, q, Tail(r), l)
<1>1. ClientOK(d) /\ MessagesOK(s, d, q) /\ RepliesOK(s, d, r, l) /\ ReleaseOK(d, q, r)
  BY DEF StationOK
<1>2. ASSUME q # <<>> PROVE StationOK(s, d, Tail(q), r, l)
  <2>1. q \in Seq(Message)
    BY <1>1 DEF MessagesOK
  <2>2. /\ Tail(q) \in Seq(Message)
        /\ \A i \in DOMAIN Tail(q) : i \in Nat \ {0} /\ i + 1 \in DOMAIN q /\ Tail(q)[i] = q[i + 1]
    BY <1>2, <2>1, HeadTail
  <2> DEFINE t == Tail(q)
  <2> HIDE DEF t
  <2>3. MessagesOK(s, d, t)
    BY <1>1, <2>2 DEF MessagesOK, t
  <2>4. ReleaseOK(d, t, r)
    <3> SUFFICES ASSUME NEW i \in DOMAIN t, t[i].type = "RELEASE"
                 PROVE  /\ d.state \in {"SELECTING", "OFF"}
                        /\ \A j \in DOMAIN t : j < i => ~t[j].cur
                        /\ \A j \in DOMAIN r : ~r[j].cur
      BY DEF ReleaseOK
    <3>1. i + 1 \in DOMAIN q /\ q[i + 1].type = "RELEASE" /\ i \in Nat
      BY <2>2 DEF t
    <3>2. /\ d.state \in {"SELECTING", "OFF"}
          /\ \A j \in DOMAIN q : j < i + 1 => ~q[j].cur
          /\ \A j \in DOMAIN r : ~r[j].cur
      BY <1>1, <3>1 DEF ReleaseOK
    <3>3. ASSUME NEW j \in DOMAIN t, j < i PROVE ~t[j].cur
      <4>1. j + 1 \in DOMAIN q /\ t[j] = q[j + 1] /\ j \in Nat
        BY <2>2 DEF t
      <4>2. j + 1 < i + 1
        BY <3>1, <3>3, <4>1
      <4> QED BY <3>2, <4>1, <4>2
    <3> QED BY <3>2, <3>3
  <2> QED BY <1>1, <2>3, <2>4 DEF StationOK, t
<1>3. ASSUME r # <<>> PROVE StationOK(s, d, q, Tail(r), l)
  <2>1. r \in Seq(Reply)
    BY <1>1 DEF RepliesOK
  <2>2. /\ Tail(r) \in Seq(Reply)
        /\ \A i \in DOMAIN Tail(r) : i + 1 \in DOMAIN r /\ Tail(r)[i] = r[i + 1]
    BY <1>3, <2>1, HeadTail
  <2> DEFINE t == Tail(r)
  <2> HIDE DEF t
  <2>3. RepliesOK(s, d, t, l)
    BY <1>1, <2>2 DEF RepliesOK, t
  <2>4. ReleaseOK(d, q, t)
    BY <1>1, <2>2 DEF ReleaseOK, t
  <2> QED BY <1>1, <2>3, <2>4 DEF StationOK, t
<1> QED BY <1>2, <1>3

\* The server answers a message of the station.
LEMMA ReplyOK ==
  ASSUME NEW s, NEW d, NEW q, NEW r, NEW l, StationOK(s, d, q, r, l), NEW m \in Message,
         m.mac = s, NEW rep, RightReply(rep, m, l),
         d.state \in Extending /\ m.cur =>
           m.type = "REQUEST" /\ m.req = 0 /\ m.ciaddr = d.ip,
         m.cur => \A i \in DOMAIN q : q[i].type # "RELEASE"
  PROVE  StationOK(s, d, q, r \o <<rep>>, l)
<1>1. ClientOK(d) /\ MessagesOK(s, d, q) /\ RepliesOK(s, d, r, l) /\ ReleaseOK(d, q, r)
  BY DEF StationOK
<1>2. /\ rep \in Reply /\ rep.cur = m.cur
      /\ rep.type # "NAK" => rep.yiaddr \in Pool /\ Leased(l, s, rep.yiaddr, LeaseTime)
      /\ rep.type = "ACK" => rep.yiaddr = IF m.req # 0 THEN m.req ELSE m.ciaddr
  BY DEF RightReply
<1> DEFINE t == r \o <<rep>>
<1>3. t \in Seq(Reply) /\ \A i \in DOMAIN t : (i \in DOMAIN r /\ t[i] = r[i]) \/ t[i] = rep
  <2>1. r \in Seq(Reply)
    BY <1>1 DEF RepliesOK
  <2> QED BY <1>2, <2>1
<1> HIDE DEF t
<1>4. ASSUME d.state \in Extending, rep.cur, rep.type = "ACK" PROVE rep.yiaddr = d.ip
  BY <1>2, <1>4
<1>5. RepliesOK(s, d, t, l)
  <2>1. \A i \in DOMAIN t : t[i].type # "NAK" => t[i].yiaddr \in Pool
    BY <1>1, <1>2, <1>3 DEF RepliesOK
  <2>2. \A i \in DOMAIN t : t[i].cur /\ t[i].type = "ACK" =>
         /\ Leased(l, s, t[i].yiaddr, LeaseTime)
         /\ d.state \in Extending => t[i].yiaddr = d.ip
    BY <1>1, <1>2, <1>3, <1>4 DEF RepliesOK
  <2> QED BY <1>3, <2>1, <2>2 DEF RepliesOK
<1>6. ReleaseOK(d, q, t)
  BY <1>1, <1>2, <1>3 DEF ReleaseOK
<1> QED BY <1>1, <1>5, <1>6 DEF StationOK, t

\* The server handles the oldest message of the station.
LEMMA ReceiveOK ==
  ASSUME NEW s, NEW d, NEW q, NEW r, NEW sv, StationOK(s, d, q, r, sv.list), q # <<>>,
         NEW sv2, LeasesKept(sv, sv2, s, Head(q).type)
  PROVE  /\ StationOK(s, d, Tail(q), r, sv2.list)
         /\ Covered(s, d, sv.list) => Covered(s, d, sv2.list)
         /\ \A rep : RightReply(rep, Head(q), sv2.list) =>
              StationOK(s, d, Tail(q), r \o <<rep>>, sv2.list)
<1> DEFINE m == Head(q)
           t == Tail(q)
           l == sv.list
           l2 == sv2.list
<1>1. ClientOK(d) /\ MessagesOK(s, d, q) /\ RepliesOK(s, d, r, l) /\ ReleaseOK(d, q, r)
  BY DEF StationOK
<1>2. /\ 1 \in DOMAIN q /\ m = q[1] /\ m \in Message /\ m.mac = s
      /\ \A i \in DOMAIN t : i \in Nat \ {0} /\ i + 1 \in DOMAIN q /\ t[i] = q[i + 1]
  <2>1. q \in Seq(Message)
    BY <1>1 DEF MessagesOK
  <2>2. /\ 1 \in DOMAIN q /\ m = q[1] /\ m \in Message
        /\ \A i \in DOMAIN t : i \in Nat \ {0} /\ i + 1 \in DOMAIN q /\ t[i] = q[i + 1]
    BY <2>1, HeadTail
  <2> QED BY <1>1, <2>2 DEF MessagesOK
<1>3. StationOK(s, d, t, r, l)
  BY LoseOK
<1>4. /\ m.type = "RELEASE" => d.state \in {"SELECTING", "OFF"} /\ \A j \in DOMAIN r : ~r[j].cur
      /\ m.cur => \A i \in DOMAIN t : t[i].type # "RELEASE"
  <2>1. m.type = "RELEASE" => d.state \in {"SELECTING", "OFF"} /\ \A j \in DOMAIN r : ~r[j].cur
    BY <1>1, <1>2 DEF ReleaseOK
  <2>2. ASSUME m.cur, NEW i \in DOMAIN t, t[i].type = "RELEASE" PROVE FALSE
    <3>1. i + 1 \in DOMAIN q /\ q[i + 1].type = "RELEASE" /\ 1 < i + 1
      BY <1>2, <2>2
    <3>2. \A j \in DOMAIN q : j < i + 1 => ~q[j].cur
      BY <1>1, <3>1 DEF ReleaseOK
    <3> QED BY <1>2, <2>2, <3>1, <3>2
  <2> QED BY <2>1, <2>2
<1>5. d.state \in Extending /\ m.cur => m.type = "REQUEST" /\ m.req = 0 /\ m.ciaddr = d.ip
  BY <1>1, <1>2 DEF MessagesOK
<1> HIDE DEF m, t
<1>6. StationOK(s, d, t, r, l2)
  <2>1. CASE m.type = "RELEASE"
    <3>1. RepliesOK(s, d, r, l2)
      BY <1>1, <1>4, <2>1 DEF RepliesOK
    <3> QED BY <1>3, <3>1 DEF StationOK
  <2>2. CASE m.type # "RELEASE"
    <3>1. \A ip : Leased(l, s, ip, LeaseTime) => Leased(l2, s, ip, LeaseTime)
      BY <2>2 DEF LeasesKept, m
    <3>2. RepliesOK(s, d, r, l2)
      BY <1>1, <3>1 DEF RepliesOK
    <3> QED BY <1>3, <3>2 DEF StationOK
  <2> QED BY <2>1, <2>2
<1>7. Covered(s, d, l) => Covered(s, d, l2)
  <2> SUFFICES ASSUME Using(d), Leased(l, s, d.ip, d.t0 - d.used)
               PROVE  Leased(l2, s, d.ip, d.t0 - d.used)
    BY DEF Covered
  <2>1. m.type # "RELEASE"
    BY <1>4 DEF Using, Holding
  <2>2. Leased(l2, s, d.ip, LeaseTime)
    BY <2>1 DEF LeasesKept, m
  <2>3. d.t0 = LeaseTime /\ d.used \in Nat /\ LeaseTime \in Nat
    <3>1. d \in ClientType
      BY <1>1 DEF ClientOK
    <3>2. d.used \in Nat
      BY <3>1 DEF ClientType
    <3> QED BY <1>1, <3>2, PoolIs DEF ClientOK
  <2>4. PICK i \in DOMAIN l2 : l2[i].mac = s /\ l2[i].ip = d.ip /\ l2[i].timer >= LeaseTime
    BY <2>2 DEF Leased
  <2>5. l2[i].timer \in Int
    <3>1. ServerOK(sv2)
      BY DEF LeasesKept
    <3> QED BY <3>1, ServerList
  <2>6. l2[i].timer >= d.t0 - d.used
    BY <2>3, <2>4, <2>5
  <2> QED BY <2>4, <2>6 DEF Leased
<1>8. ASSUME NEW rep, RightReply(rep, m, l2) PROVE StationOK(s, d, t, r \o <<rep>>, l2)
  <2> HIDE DEF l2
  <2> QED BY <1>2, <1>4, <1>5, <1>6, <1>8, ReplyOK
<1> QED BY <1>6, <1>7, <1>8 DEF m, t

-----------------------------------------------------------------------------
(* The invariant is inductive *)

\* A client that has not been called stays what it is.
LEMMA IdleStays ==
  ASSUME NEW c \in ClientType, Idle(c)
  PROVE  Clear(c) = c
  BY DEF ClientType, Idle, Clear

LEMMA StationIs ==
  ASSUME Inv, NEW s \in Stations
  PROVE  /\ s \in Macs /\ ServerOK(srv) /\ cli[s] \in ClientType /\ ClientOK(cli[s]) /\ Idle(cli[s])
         /\ StationOK(s, cli[s], toSrv[s], toCli[s], srv.list)
         /\ toSrv[s] \in Seq(Message) /\ toCli[s] \in Seq(Reply)
         /\ s \notin evicted => Covered(s, cli[s], srv.list)
<1>1. /\ ServerOK(srv) /\ Idle(cli[s])
      /\ StationOK(s, cli[s], toSrv[s], toCli[s], srv.list)
      /\ s \notin evicted => Covered(s, cli[s], srv.list)
  BY DEF Inv
<1>2. ClientOK(cli[s]) /\ MessagesOK(s, cli[s], toSrv[s]) /\ RepliesOK(s, cli[s], toCli[s], srv.list)
  BY <1>1 DEF StationOK
<1> QED BY <1>1, <1>2, DhcpAssumption DEF ClientOK, MessagesOK, RepliesOK

\* The device and the stations start with nothing.
LEMMA StartsOK ==
  /\ ServerOK(ServerStart)
  /\ \A l, s : Idle(ClientOff) /\ StationOK(s, ClientOff, <<>>, <<>>, l) /\ Covered(s, ClientOff, l)
<1>1. ServerOK(ServerStart)
  <2>1. PollStart \in PollStart .. PollStart + MaxLease
    BY PoolIs
  <2> QED BY <2>1 DEF ServerOK, Sorted, ServerStart
<1>2. \A l, s : Idle(ClientOff) /\ StationOK(s, ClientOff, <<>>, <<>>, l) /\ Covered(s, ClientOff, l)
  <2>1. /\ ClientOff \in ClientType /\ ClientOff.out = <<>> /\ ClientOff.newXid = FALSE
        /\ ClientOff.ip = 0 /\ ClientOff.state = "OFF"
    BY DEF ClientOff, ClientType, ClientStates
  <2>2. <<>> \in Seq(Message) /\ <<>> \in Seq(Reply) /\ DOMAIN <<>> = {}
    OBVIOUS
  <2> QED BY <2>1, <2>2 DEF Idle, StationOK, ClientOK, Using, MessagesOK, RepliesOK, ReleaseOK,
                            Covered, Extending
<1> QED BY <1>1, <1>2

LEMMA InitOK == Init => Inv
<1> SUFFICES ASSUME Init PROVE Inv
  OBVIOUS
<1>1. /\ srv = ServerStart /\ cli = [s \in Stations |-> ClientOff]
      /\ toSrv = [s \in Stations |-> <<>>] /\ toCli = [s \in Stations |-> <<>>]
  BY DEF Init
<1> QED BY <1>1, StartsOK DEF Inv

\* A call of one client, with the result d.
LEMMA ClientCallOK ==
  ASSUME Inv, NEW s \in Stations, NEW d, NEW rest, ClientCall(s, d, rest), srv' = srv,
         ClientOK(d), OutOK(d), Left(rest, toCli[s], FALSE),
         \A i \in DOMAIN toSrv[s] : toSrv[s][i].type = "RELEASE" => d.state \in {"SELECTING", "OFF"},
         d.state \in Extending => cli[s].state \in Extending /\ d.ip = cli[s].ip,
         s \notin evicted => Covered(s, d, srv.list)
  PROVE  Inv'
<1> DEFINE e == Clear(d)
           r2 == IF d.newXid THEN Outdated(rest) ELSE rest
           c == [cli EXCEPT ![s] = d]
<1>1. /\ ServerOK(srv) /\ DOMAIN cli = Stations /\ DOMAIN toSrv = Stations /\ DOMAIN toCli = Stations
  BY DEF Inv
<1>2. /\ cli' = [x \in Stations |-> Clear(c[x])]
      /\ evicted' = {x \in evicted : c[x].state \in Holding}
      /\ toSrv' = [toSrv EXCEPT ![s] = Sent(toSrv, s, d)]
      /\ toCli' = [toCli EXCEPT ![s] = r2]
  BY DEF ClientCall, Step, Clear
<1>3. c[s] = d /\ \A x \in Stations : x # s => c[x] = cli[x]
  BY <1>1
<1> HIDE DEF c
<1>4. /\ cli'[s] = e /\ toSrv'[s] = Sent(toSrv, s, d) /\ toCli'[s] = r2
      /\ DOMAIN cli' = Stations /\ DOMAIN toSrv' = Stations /\ DOMAIN toCli' = Stations
  BY <1>1, <1>2, <1>3
<1>5. ASSUME NEW x \in Stations, x # s
      PROVE  cli'[x] = cli[x] /\ toSrv'[x] = toSrv[x] /\ toCli'[x] = toCli[x]
  <2>1. cli'[x] = Clear(cli[x])
    BY <1>2, <1>3, <1>5
  <2>2. cli'[x] = cli[x]
    BY <2>1, StationIs, IdleStays
  <2> QED BY <1>1, <1>2, <1>5, <2>2
<1>6. \A x \in Stations : x \notin evicted' => x \notin evicted \/ c[x].state \notin Holding
  BY <1>2
<1> HIDE DEF e, r2
<1>7. Idle(e) /\ StationOK(s, e, Sent(toSrv, s, d), r2, srv.list)
  <2>1. /\ s \in Macs /\ StationOK(s, cli[s], toSrv[s], toCli[s], srv.list)
    BY StationIs
  <2>2. Left(r2, toCli[s], d.newXid)
    <3>1. CASE d.newXid
      <4>1. rest \in Seq(Reply) /\ r2 = Outdated(rest)
        BY <3>1 DEF Left, r2
      <4>2. /\ r2 \in Seq(Reply) /\ DOMAIN r2 = DOMAIN rest
            /\ \A i \in DOMAIN rest : /\ r2[i].type = rest[i].type /\ r2[i].cur = FALSE
                                      /\ r2[i].yiaddr = rest[i].yiaddr
        BY <4>1, OutdatedIs
      <4> QED BY <4>2 DEF Left
    <3>2. CASE ~d.newXid
      BY <3>2 DEF Left, r2
    <3> QED BY <3>1, <3>2
  <2> QED BY <2>1, <2>2, CallOK DEF e
<1>8. s \notin evicted' => Covered(s, e, srv.list)
  <2>1. /\ e.state = d.state /\ e.ip = d.ip /\ e.t0 = d.t0 /\ e.used = d.used
    BY Cleared DEF ClientOK, e
  <2>2. s \notin evicted' => s \notin evicted \/ d.state \notin Holding
    BY <1>3, <1>6
  <2> QED BY <2>1, <2>2 DEF Covered, Using
<1>9. ASSUME NEW x \in Stations
      PROVE  /\ Idle(cli'[x]) /\ StationOK(x, cli'[x], toSrv'[x], toCli'[x], srv.list)
             /\ x \notin evicted' => Covered(x, cli'[x], srv.list)
  <2>1. CASE x = s
    BY <1>4, <1>7, <1>8, <2>1
  <2>2. CASE x # s
    <3>1. /\ Idle(cli[x]) /\ StationOK(x, cli[x], toSrv[x], toCli[x], srv.list)
          /\ x \notin evicted => Covered(x, cli[x], srv.list)
      BY StationIs
    <3>2. x \notin evicted' => x \notin evicted \/ cli[x].state \notin Holding
      BY <1>3, <1>6, <2>2
    <3> QED BY <1>5, <2>2, <3>1, <3>2 DEF Covered, Using
  <2> QED BY <2>1, <2>2
<1>10. ServerOK(srv')
  BY <1>1
<1> QED BY <1>4, <1>9, <1>10 DEF Inv

\* What is under way to the station stays.
LEMMA AllLeft ==
  ASSUME NEW r \in Seq(Reply)
  PROVE  /\ Left(r, r, FALSE)
         /\ r # <<>> => Left(Tail(r), r, FALSE)
<1>1. ASSUME r # <<>> PROVE Left(Tail(r), r, FALSE)
  <2>1. /\ Tail(r) \in Seq(Reply)
        /\ \A i \in DOMAIN Tail(r) : i + 1 \in DOMAIN r /\ Tail(r)[i] = r[i + 1]
    BY <1>1, HeadTail
  <2> QED BY <2>1 DEF Left
<1> QED BY <1>1 DEF Left

\* A station that uses no address is covered.
LEMMA UnusedCovered ==
  ASSUME NEW d, ~Using(d) PROVE \A s, l : Covered(s, d, l)
  BY DEF Covered

LEMMA ConnectOK ==
  ASSUME Inv, NEW s \in Stations, Connect(s) PROVE Inv'
<1>1. PICK mem \in BOOLEAN : ClientCall(s, Start(mem), toCli[s])
  BY DEF Connect
<1>2. srv' = srv /\ toSrv[s] = <<>>
  BY DEF Connect
<1> DEFINE d == Start(mem)
<1>3. ClientOK(d) /\ OutOK(d) /\ ~Using(d) /\ d.state \notin Extending
  BY StartOK
<1>4. ClientCall(s, d, toCli[s])
  BY <1>1
<1> HIDE DEF d
<1>5. Left(toCli[s], toCli[s], FALSE) /\ Covered(s, d, srv.list)
  BY <1>3, StationIs, AllLeft, UnusedCovered
<1>6. \A i \in DOMAIN toSrv[s] : toSrv[s][i].type = "RELEASE" => d.state \in {"SELECTING", "OFF"}
  BY <1>2
<1> QED BY <1>2, <1>3, <1>4, <1>5, <1>6, ClientCallOK

LEMMA DisconnectOK ==
  ASSUME Inv, NEW s \in Stations, Disconnect(s) PROVE Inv'
<1>1. PICK d0 \in {cli[s]} \cup {Release(cli[s], mem) : mem \in BOOLEAN} :
        ClientCall(s, [ClientOff EXCEPT !.out = d0.out, !.newXid = d0.newXid], toCli[s])
  BY DEF Disconnect
<1>2. srv' = srv
  BY DEF Disconnect
<1>3. PICK mem \in BOOLEAN : d0 \in {cli[s], Release(cli[s], mem)}
  BY <1>1
<1> DEFINE d == [ClientOff EXCEPT !.out = d0.out, !.newXid = d0.newXid]
<1>4. ClientOK(d) /\ OutOK(d) /\ ~Using(d) /\ d.state = "OFF"
  BY <1>3, StationIs, StopOK
<1>5. ClientCall(s, d, toCli[s])
  BY <1>1
<1> HIDE DEF d
<1>6. Left(toCli[s], toCli[s], FALSE) /\ Covered(s, d, srv.list)
  BY <1>4, StationIs, AllLeft, UnusedCovered
<1>7. d.state \in {"SELECTING", "OFF"} /\ d.state \notin Extending
  BY <1>4 DEF Extending
<1> QED BY <1>2, <1>4, <1>5, <1>6, <1>7, ClientCallOK

\* A call that binds nothing new: the client still uses its lease or has given
\* it up.
LEMMA NoNewLeaseCovered ==
  ASSUME NEW c, NEW e, NoNewLease(c, e), NEW s, NEW l, Covered(s, c, l)
  PROVE  Covered(s, e, l)
  BY DEF NoNewLease, Covered

LEMMA RequestTimeoutOK ==
  ASSUME Inv, NEW s \in Stations, NEW mem \in BOOLEAN, RequestTimeout(s, mem) PROVE Inv'
<1> DEFINE c == cli[s]
           d == Timeout(c, mem)
<1>1. srv' = srv /\ toSrv[s] = <<>> /\ ClientCall(s, d, toCli[s])
  BY DEF RequestTimeout
<1>2. ClientOK(d) /\ OutOK(d) /\ NoNewLease(c, d)
  BY StationIs, TimeoutOK
<1>3. s \notin evicted => Covered(s, c, srv.list)
  BY StationIs
<1> HIDE DEF d
<1>4. s \notin evicted => Covered(s, d, srv.list)
  BY <1>2, <1>3, NoNewLeaseCovered
<1>5. d.state \in Extending => c.state \in Extending /\ d.ip = c.ip
  BY <1>2 DEF NoNewLease
<1>6. Left(toCli[s], toCli[s], FALSE)
  BY StationIs, AllLeft
<1>7. \A i \in DOMAIN toSrv[s] : toSrv[s][i].type = "RELEASE" => d.state \in {"SELECTING", "OFF"}
  BY <1>1
<1> QED BY <1>1, <1>2, <1>4, <1>5, <1>6, <1>7, ClientCallOK

LEMMA ClientReceivesOK ==
  ASSUME Inv, NEW s \in Stations, NEW mem \in BOOLEAN, ClientReceives(s, mem) PROVE Inv'
<1> DEFINE c == cli[s]
           r == toCli[s]
           m == Head(r)
           d == Recv(c, m, LeaseTime, mem)
<1>1. srv' = srv /\ r # <<>> /\ ClientCall(s, d, Tail(r))
  BY DEF ClientReceives
<1>2. /\ ClientOK(c) /\ Idle(c) /\ r \in Seq(Reply)
      /\ MessagesOK(s, c, toSrv[s]) /\ RepliesOK(s, c, r, srv.list) /\ ReleaseOK(c, toSrv[s], r)
      /\ s \notin evicted => Covered(s, c, srv.list)
  BY StationIs DEF StationOK
<1>3. m \in Reply /\ 1 \in DOMAIN r /\ m = r[1]
  BY <1>1, <1>2, HeadTail
<1>4. /\ m.type # "NAK" => m.yiaddr \in Pool
      /\ m.cur /\ m.type = "ACK" => /\ Leased(srv.list, s, m.yiaddr, LeaseTime)
                                    /\ c.state \in Extending => m.yiaddr = c.ip
  BY <1>2, <1>3 DEF RepliesOK
<1>5. /\ ClientOK(d) /\ OutOK(d)
      /\ ~m.cur => d = c
      /\ \/ NoNewLease(c, d)
         \/ /\ m.cur /\ m.type = "ACK" /\ d.state = "BOUND"
            /\ d.ip = m.yiaddr /\ d.t0 = LeaseTime /\ d.used = 0
  <2> HIDE DEF c, m
  <2> QED BY <1>2, <1>3, <1>4, RecvOK
<1>6. Left(Tail(r), r, FALSE)
  BY <1>1, <1>2, AllLeft
<1> HIDE DEF d
<1>7. \A i \in DOMAIN toSrv[s] : toSrv[s][i].type = "RELEASE" => d.state \in {"SELECTING", "OFF"}
  BY <1>2, <1>3, <1>5 DEF ReleaseOK
<1>8. d.state \in Extending => c.state \in Extending /\ d.ip = c.ip
  BY <1>5 DEF NoNewLease, Extending
<1>9. s \notin evicted => Covered(s, d, srv.list)
  <2>1. CASE NoNewLease(c, d)
    BY <1>2, <2>1, NoNewLeaseCovered
  <2>2. CASE m.cur /\ m.type = "ACK" /\ d.ip = m.yiaddr /\ d.t0 = LeaseTime /\ d.used = 0
    <3>1. d.t0 - d.used = LeaseTime
      BY <2>2, PoolIs
    <3> QED BY <1>4, <2>2, <3>1 DEF Covered
  <2> QED BY <1>5, <2>1, <2>2
<1> QED BY <1>1, <1>5, <1>6, <1>7, <1>8, <1>9, ClientCallOK

LEMMA LoseStepOK ==
  ASSUME Inv, NEW s \in Stations, Lose(s) PROVE Inv'
<1>1. /\ ServerOK(srv) /\ DOMAIN cli = Stations /\ DOMAIN toSrv = Stations /\ DOMAIN toCli = Stations
  BY DEF Inv
<1>2. srv' = srv /\ cli' = cli /\ evicted' = evicted
  BY DEF Lose
<1>3. /\ DOMAIN toSrv' = Stations /\ DOMAIN toCli' = Stations
      /\ \A x \in Stations : x # s => toSrv'[x] = toSrv[x] /\ toCli'[x] = toCli[x]
      /\ \/ toSrv[s] # <<>> /\ toSrv'[s] = Tail(toSrv[s]) /\ toCli'[s] = toCli[s]
         \/ toCli[s] # <<>> /\ toCli'[s] = Tail(toCli[s]) /\ toSrv'[s] = toSrv[s]
  BY <1>1 DEF Lose
<1>4. ASSUME NEW x \in Stations PROVE StationOK(x, cli[x], toSrv'[x], toCli'[x], srv.list)
  <2>1. StationOK(x, cli[x], toSrv[x], toCli[x], srv.list)
    BY StationIs
  <2>2. CASE x = s
    BY <1>3, <2>1, <2>2, LoseOK
  <2>3. CASE x # s
    BY <1>3, <2>1, <2>3
  <2> QED BY <2>2, <2>3
<1>5. \A x \in Stations : Idle(cli[x]) /\ (x \notin evicted => Covered(x, cli[x], srv.list))
  BY StationIs
<1> QED BY <1>1, <1>2, <1>3, <1>4, <1>5 DEF Inv

LEMMA ServerReceivesOK ==
  ASSUME Inv, NEW s \in Stations, NEW answers \in BOOLEAN, ServerReceives(s, answers) PROVE Inv'
<1> DEFINE q == toSrv[s]
           r == toCli[s]
           m == Head(q)
           h == HandleDhcp(srv, m)
<1>1. /\ ServerOK(srv) /\ DOMAIN cli = Stations /\ DOMAIN toSrv = Stations /\ DOMAIN toCli = Stations
  BY DEF Inv
<1>2. /\ q # <<>> /\ srv' = h.s /\ toSrv' = [toSrv EXCEPT ![s] = Tail(q)]
      /\ toCli' = [toCli EXCEPT ![s] = IF answers THEN r \o h.reply ELSE r]
      /\ cli' = cli /\ evicted' = evicted
  BY DEF ServerReceives
<1>3. /\ StationOK(s, cli[s], q, r, srv.list) /\ r \in Seq(Reply) /\ q \in Seq(Message)
      /\ \A i \in DOMAIN q : q[i].mac = s
  BY StationIs DEF StationOK, MessagesOK
<1>4. m \in Message /\ m.mac = s
  BY <1>2, <1>3, HeadTail
<1>5. /\ LeasesKept(srv, h.s, m.mac, m.type)
      /\ h.reply = <<>> \/ \E rep : h.reply = <<rep>> /\ RightReply(rep, m, h.s.list)
  <2> HIDE DEF m
  <2> QED BY <1>1, <1>4, HandleOK
<1> HIDE DEF h
<1> DEFINE l2 == h.s.list
<1>6. ServerOK(h.s) /\ \A x, ip, t : x # s /\ Leased(srv.list, x, ip, t) => Leased(l2, x, ip, t)
  BY <1>4, <1>5 DEF LeasesKept
<1>7. /\ StationOK(s, cli[s], Tail(q), r, l2)
      /\ Covered(s, cli[s], srv.list) => Covered(s, cli[s], l2)
      /\ \A rep : RightReply(rep, m, l2) => StationOK(s, cli[s], Tail(q), r \o <<rep>>, l2)
  <2>1. LeasesKept(srv, h.s, s, m.type)
    BY <1>4, <1>5
  <2> HIDE DEF q, r
  <2> QED BY <1>2, <1>3, <2>1, ReceiveOK
<1>8. StationOK(s, cli[s], Tail(q), r \o h.reply, l2)
  <2>1. CASE h.reply = <<>>
    <3>1. r \o <<>> = r
      BY <1>3
    <3> QED BY <1>7, <2>1, <3>1
  <2>2. CASE \E rep : h.reply = <<rep>> /\ RightReply(rep, m, l2)
    BY <1>7, <2>2
  <2> QED BY <1>5, <2>1, <2>2
<1> DEFINE r2 == IF answers THEN r \o h.reply ELSE r
<1>9. StationOK(s, cli[s], Tail(q), r2, l2)
  BY <1>7, <1>8
<1>10. /\ toSrv'[s] = Tail(q) /\ toCli'[s] = r2 /\ DOMAIN toSrv' = Stations /\ DOMAIN toCli' = Stations
       /\ \A x \in Stations : x # s => toSrv'[x] = toSrv[x] /\ toCli'[x] = toCli[x]
  BY <1>1, <1>2
<1> HIDE DEF l2, r2, q, r, m
<1>11. ASSUME NEW x \in Stations
       PROVE  /\ Idle(cli[x]) /\ StationOK(x, cli[x], toSrv'[x], toCli'[x], l2)
              /\ x \notin evicted => Covered(x, cli[x], l2)
  <2>1. /\ Idle(cli[x]) /\ StationOK(x, cli[x], toSrv[x], toCli[x], srv.list)
        /\ x \notin evicted => Covered(x, cli[x], srv.list)
    BY StationIs
  <2>2. CASE x = s
    BY <1>7, <1>9, <1>10, <2>1, <2>2
  <2>3. CASE x # s
    <3>1. \A ip, t : Leased(srv.list, x, ip, t) => Leased(l2, x, ip, t)
      BY <1>6, <2>3
    <3>2. /\ StationOK(x, cli[x], toSrv[x], toCli[x], l2)
          /\ Covered(x, cli[x], srv.list) => Covered(x, cli[x], l2)
      BY <2>1, <3>1, ListChange
    <3> QED BY <1>10, <2>1, <2>3, <3>2
  <2> QED BY <2>2, <2>3
<1>12. srv'.list = l2 /\ ServerOK(srv')
  BY <1>2, <1>6 DEF l2
<1> QED BY <1>1, <1>2, <1>10, <1>11, <1>12 DEF Inv

LEMMA StrangeMessageOK ==
  ASSUME Inv, StrangeMessage PROVE Inv'
<1>1. PICK mac \in Macs \ Stations, ip \in PollStart .. PollStart + MaxLease :
        \E type \in {"DISCOVER", "REQUEST", "DECLINE", "RELEASE"}, req \in {0, ip}, ci \in {0, ip} :
          srv' = HandleDhcp(srv, [type |-> type, mac |-> mac, ciaddr |-> ci,
                                  req |-> req, cur |-> FALSE]).s
  BY DEF StrangeMessage
<1>2. PICK type \in {"DISCOVER", "REQUEST", "DECLINE", "RELEASE"}, req \in {0, ip}, ci \in {0, ip} :
        srv' = HandleDhcp(srv, [type |-> type, mac |-> mac, ciaddr |-> ci,
                                req |-> req, cur |-> FALSE]).s
  BY <1>1
<1> DEFINE m == [type |-> type, mac |-> mac, ciaddr |-> ci, req |-> req, cur |-> FALSE]
<1>3. m \in Message /\ m.mac = mac
  <2>1. ip \in Nat
    BY <1>1, PoolIs
  <2> QED BY <2>1 DEF Message
<1>4. srv' = HandleDhcp(srv, m).s
  BY <1>2
<1> HIDE DEF m
<1>5. ServerOK(srv) /\ DOMAIN cli = Stations /\ DOMAIN toSrv = Stations /\ DOMAIN toCli = Stations
  BY DEF Inv
<1>6. LeasesKept(srv, srv', mac, m.type)
  BY <1>3, <1>4, <1>5, HandleOK
<1>7. ServerOK(srv')
  BY <1>6 DEF LeasesKept
<1>8. ASSUME NEW x \in Stations
      PROVE  /\ Idle(cli[x]) /\ StationOK(x, cli[x], toSrv[x], toCli[x], srv'.list)
             /\ x \notin evicted => Covered(x, cli[x], srv'.list)
  <2>1. /\ Idle(cli[x]) /\ StationOK(x, cli[x], toSrv[x], toCli[x], srv.list)
        /\ x \notin evicted => Covered(x, cli[x], srv.list)
    BY StationIs
  <2>2. \A a, t : Leased(srv.list, x, a, t) => Leased(srv'.list, x, a, t)
    BY <1>6 DEF LeasesKept
  <2> QED BY <2>1, <2>2, ListChange
<1>9. cli' = cli /\ toSrv' = toSrv /\ toCli' = toCli /\ evicted' = evicted
  BY DEF StrangeMessage
<1> QED BY <1>5, <1>7, <1>8, <1>9 DEF Inv

LEMMA RebootOK ==
  ASSUME Reboot PROVE Inv'
<1>1. /\ srv' = ServerStart /\ cli' = [s \in Stations |-> ClientOff]
      /\ toSrv' = [s \in Stations |-> <<>>] /\ toCli' = [s \in Stations |-> <<>>]
  BY DEF Reboot
<1>2. ServerOK(ServerStart)
  BY StartsOK
<1>3. \A l, s : Idle(ClientOff) /\ StationOK(s, ClientOff, <<>>, <<>>, l) /\ Covered(s, ClientOff, l)
  BY StartsOK
<1> QED BY <1>1, <1>2, <1>3 DEF Inv

\* Replies that are not there need no lease.
LEMMA QuietList ==
  ASSUME NEW s, NEW d, NEW q, NEW l, StationOK(s, d, q, <<>>, l), NEW l2
  PROVE  StationOK(s, d, q, <<>>, l2)
<1>1. <<>> \in Seq(Reply) /\ DOMAIN <<>> = {}
  OBVIOUS
<1>2. RepliesOK(s, d, <<>>, l2)
  BY <1>1 DEF RepliesOK
<1> QED BY <1>2 DEF StationOK

LEMMA TickOK ==
  ASSUME Inv, NEW mem \in BOOLEAN, Tick(mem) PROVE Inv'
<1> DEFINE c == [s \in Stations |-> ClientTmr(cli[s], mem)]
           ev == Evicts(srv)
           l2 == CoarseTmr(srv).list
<1>1. /\ ServerOK(srv) /\ DOMAIN cli = Stations /\ DOMAIN toSrv = Stations /\ DOMAIN toCli = Stations
  BY DEF Inv
<1>2. /\ srv' = CoarseTmr(srv) /\ toCli' = toCli
      /\ cli' = [s \in Stations |-> Clear(c[s])]
      /\ toSrv' = [s \in Stations |-> Sent(toSrv, s, c[s])]
      /\ evicted' = {s \in evicted \cup (ev \cap Stations) : c[s].state \in Holding}
      /\ \A s \in Stations : toSrv[s] = <<>> /\ toCli[s] = <<>>
  BY DEF Tick, Clear, Quiet
<1>3. \A s \in Stations : c[s] = ClientTmr(cli[s], mem)
  OBVIOUS
<1> HIDE DEF c
<1>4. /\ ServerOK(CoarseTmr(srv))
      /\ \A mac, ip : \A t \in Nat : mac \notin ev /\ t > 1 /\ Leased(srv.list, mac, ip, t)
                           => Leased(l2, mac, ip, t - 1)
  BY <1>1, CoarseTmrOK
<1> HIDE DEF ev, l2
<1>5. ASSUME NEW s \in Stations
      PROVE  /\ Idle(cli'[s]) /\ StationOK(s, cli'[s], toSrv'[s], toCli'[s], l2)
             /\ s \notin evicted' => Covered(s, cli'[s], l2)
  <2> DEFINE d == c[s]
  <2>1. /\ ClientOK(d) /\ OutOK(d)
        /\ Using(d) => /\ Using(cli[s]) /\ d.ip = cli[s].ip /\ d.t0 = cli[s].t0
                       /\ d.used = cli[s].used + 1 /\ d.used < d.t0
    BY <1>3, StationIs, ClientTmrOK
  <2> HIDE DEF d
  <2>2. /\ toSrv[s] = <<>> /\ toCli[s] = <<>> /\ toCli'[s] = <<>>
        /\ cli'[s] = Clear(d) /\ toSrv'[s] = Sent(toSrv, s, d)
    BY <1>2 DEF d
  <2>3. s \in Macs /\ StationOK(s, cli[s], toSrv[s], toCli[s], srv.list)
    BY StationIs
  <2>4. Idle(Clear(d)) /\ StationOK(s, Clear(d), Sent(toSrv, s, d), toCli[s], srv.list)
    <3>1. Left(toCli[s], toCli[s], d.newXid)
      BY <2>2 DEF Left
    <3>2. \A i \in DOMAIN toSrv[s] : toSrv[s][i].type = "RELEASE" => d.state \in {"SELECTING", "OFF"}
      BY <2>2
    <3> QED BY <2>1, <2>2, <2>3, <3>1, <3>2, CallOK
  <2>5. StationOK(s, Clear(d), Sent(toSrv, s, d), <<>>, l2)
    BY <2>2, <2>4, QuietList
  <2>6. ASSUME s \notin evicted', Using(d) PROVE Leased(l2, s, d.ip, d.t0 - d.used)
    <3>1. s \notin evicted /\ s \notin ev
      BY <1>2, <2>6 DEF d, Using
    <3>2. Leased(srv.list, s, cli[s].ip, cli[s].t0 - cli[s].used)
      BY <2>1, <2>6, <3>1, StationIs DEF Covered
    <3>3. cli[s].used \in Nat /\ cli[s].t0 \in Nat
      <4>1. cli[s] \in ClientType
        BY StationIs
      <4> QED BY <4>1, PoolIs, SMTT(30) DEF ClientType
    <3> DEFINE t == cli[s].t0 - cli[s].used
    <3>4. t \in Nat /\ t > 1 /\ d.t0 - d.used = t - 1
      BY <2>1, <2>6, <3>3
    <3> HIDE DEF t
    <3>5. Leased(srv.list, s, cli[s].ip, t)
      BY <3>2 DEF t
    <3>6. Leased(l2, s, cli[s].ip, t - 1)
      BY <1>4, <3>1, <3>4, <3>5
    <3> QED BY <2>1, <2>6, <3>4, <3>6
  <2>7. s \notin evicted' => Covered(s, Clear(d), l2)
    <3>1. Clear(d).state = d.state /\ Clear(d).ip = d.ip /\ Clear(d).t0 = d.t0 /\ Clear(d).used = d.used
      BY <2>1, Cleared DEF ClientOK
    <3> QED BY <2>6, <3>1 DEF Covered, Using
  <2> QED BY <2>2, <2>4, <2>5, <2>7
<1>6. DOMAIN cli' = Stations /\ DOMAIN toSrv' = Stations /\ DOMAIN toCli' = Stations
  BY <1>1, <1>2
<1>7. ServerOK(srv') /\ srv'.list = l2
  BY <1>2, <1>4 DEF l2
<1> QED BY <1>5, <1>6, <1>7 DEF Inv

LEMMA Inductive == Inv /\ [Next]_vars => Inv'
<1> SUFFICES ASSUME Inv, [Next]_vars PROVE Inv'
  OBVIOUS
<1>1. ASSUME NEW s \in Stations, Connect(s) PROVE Inv'
  BY <1>1, ConnectOK
<1>2. ASSUME NEW s \in Stations, Disconnect(s) PROVE Inv'
  BY <1>2, DisconnectOK
<1>3. ASSUME NEW s \in Stations, Lose(s) PROVE Inv'
  BY <1>3, LoseStepOK
<1>4. ASSUME NEW s \in Stations, NEW b \in BOOLEAN, ServerReceives(s, b) PROVE Inv'
  BY <1>4, ServerReceivesOK
<1>5. ASSUME NEW s \in Stations, NEW b \in BOOLEAN, ClientReceives(s, b) PROVE Inv'
  BY <1>5, ClientReceivesOK
<1>6. ASSUME NEW s \in Stations, NEW b \in BOOLEAN, RequestTimeout(s, b) PROVE Inv'
  BY <1>6, RequestTimeoutOK
<1>7. ASSUME NEW mem \in BOOLEAN, Tick(mem) PROVE Inv'
  BY <1>7, TickOK
<1>8. CASE StrangeMessage
  BY <1>8, StrangeMessageOK
<1>9. CASE Reboot
  BY <1>9, RebootOK
<1>10. CASE UNCHANGED vars
  BY <1>10 DEF Inv, vars
<1> QED BY <1>1, <1>2, <1>3, <1>4, <1>5, <1>6, <1>7, <1>8, <1>9, <1>10 DEF Next

-----------------------------------------------------------------------------
(* What the module promises *)

\* Whatever the stations send, answer and lose: what the server and the clients
\* know of the leases, and everything under way, fits together.
THEOREM LeasesFit == Spec => []Inv
BY InitOK, Inductive, PTL DEF Spec

LEMMA ListRight == Inv => LeasesConsistent
<1> SUFFICES ASSUME Inv PROVE LeasesConsistent
  OBVIOUS
<1>1. ServerOK(srv)
  BY DEF Inv
<1>2. /\ Sorted(srv.list) /\ DOMAIN srv.list = 1 .. Len(srv.list)
      /\ \A i \in 1 .. Len(srv.list) : srv.list[i].ip \in Pool
  BY <1>1, ServerList
<1>3. \A i \in DOMAIN srv.list : srv.list[i].ip \in Pool \ {ServerIp}
  BY <1>2, PoolIs
<1> QED BY <1>2, <1>3 DEF LeasesConsistent, Sorted

\* node_insert_to_list, parse_msg, dhcps_coarse_tmr: the list stays ordered by
\* address, with every address and every station once, inside the range and
\* without the access point's own address.
THEOREM LeasesRight == Spec => []LeasesConsistent
BY LeasesFit, ListRight, PTL

LEMMA UsedLeased == Inv => LeaseCovered
<1> SUFFICES ASSUME Inv, NEW s \in Stations \ evicted, cli[s].state \in Holding, cli[s].ip # 0
             PROVE  \E i \in DOMAIN srv.list :
                      /\ srv.list[i].mac = s /\ srv.list[i].ip = cli[s].ip
                      /\ srv.list[i].timer >= cli[s].t0 - cli[s].used
  BY DEF LeaseCovered
<1>1. Covered(s, cli[s], srv.list)
  BY StationIs
<1> QED BY <1>1 DEF Covered, Using, Leased

\* dhcp_bind and dhcp_coarse_tmr against parse_msg and dhcps_coarse_tmr: the
\* lease of an address that a client uses does not run out at the server first.
THEOREM LeaseOutlives == Spec => []LeaseCovered
BY LeasesFit, UsedLeased, PTL
===============================================================================
