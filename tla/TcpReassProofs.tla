---------------------------- MODULE TcpReassProofs ----------------------------
(***************************************************************************)
(* Proofs about TcpReass for every stream, window, segment size, mailbox   *)
(* and sequence number to start from: whatever the order and the overlap   *)
(* of the segments.                                                        *)
(***************************************************************************)
EXTENDS TcpReass, FiniteSetTheorems, SequenceTheorems, WellFoundedInduction, TLAPS

-----------------------------------------------------------------------------
(* Sequence numbers as positions of the stream *)

LEMMA Constants ==
  /\ SeqSpace \in Nat /\ SeqSpace > 2 /\ WndMax \in Nat \ {0} /\ Mss \in Nat \ {0}
  /\ StreamLen \in Nat /\ MboxSize \in Nat \ {0} /\ Irs \in Nat /\ Irs < SeqSpace
  /\ 2 * (StreamLen + WndMax + 2) < SeqSpace
  BY TcpAssumption, TcpReassAssumption

LEMMA Division ==
  ASSUME NEW a \in Int, NEW m \in Nat \ {0}
  PROVE  a \div m \in Int /\ a % m \in 0 .. (m - 1) /\ a = m * (a \div m) + (a % m)
  OBVIOUS

\* The remainder is the only number below m that differs by a multiple of m.
LEMMA RemainderIs ==
  ASSUME NEW a \in Int, NEW m \in Nat \ {0}, NEW r \in 0 .. (m - 1), NEW k \in Int,
         a = m * k + r
  PROVE  a % m = r
<1> DEFINE q == a \div m
           x == a % m
<1>1. q \in Int /\ x \in 0 .. (m - 1) /\ a = m * q + x
  BY Division
<1> HIDE DEF q, x
<1>2. m * (k - q) = x - r
  BY <1>1
<1>3. CASE k - q >= 1
  <2>1. m * (k - q) >= m
    BY <1>1, <1>3
  <2> QED BY <1>1, <1>2, <2>1
<1>4. CASE k - q <= -1
  <2>1. m * (k - q) <= -m
    BY <1>1, <1>4
  <2> QED BY <1>1, <1>2, <2>1
<1>5. CASE k - q = 0
  <2>1. m * (k - q) = 0
    BY <1>1, <1>5
  <2> QED BY <1>1, <1>2, <2>1 DEF x
<1> QED BY <1>1, <1>3, <1>4, <1>5

\* The sequence number of position x of the stream.
At(x) == Plus(Irs, x)

LEMMA AtIs ==
  ASSUME NEW x \in Int
  PROVE  At(x) \in 0 .. (SeqSpace - 1) /\ \E k \in Int : Irs + x = SeqSpace * k + At(x)
<1>1. Irs + x \in Int /\ SeqSpace \in Nat \ {0}
  BY Constants
<1>2. /\ (Irs + x) \div SeqSpace \in Int /\ (Irs + x) % SeqSpace \in 0 .. (SeqSpace - 1)
      /\ Irs + x = SeqSpace * ((Irs + x) \div SeqSpace) + ((Irs + x) % SeqSpace)
  BY <1>1, Division
<1> QED BY <1>2 DEF At, Plus

LEMMA AtPlus ==
  ASSUME NEW x \in Int, NEW n \in Int
  PROVE  Plus(At(x), n) = At(x + n)
<1>1. PICK k \in Int : Irs + x = SeqSpace * k + At(x)
  BY AtIs
<1>2. PICK j \in Int : Irs + (x + n) = SeqSpace * j + At(x + n)
  BY AtIs
<1>3. At(x) \in Int /\ At(x + n) \in 0 .. (SeqSpace - 1) /\ SeqSpace \in Nat \ {0}
      /\ Irs \in Int
  BY AtIs, Constants
<1>4. At(x) + n = SeqSpace * (j - k) + At(x + n)
  <2> DEFINE p == SeqSpace * j
             q == SeqSpace * k
  <2>1. p \in Int /\ q \in Int /\ SeqSpace * (j - k) = p - q
    BY <1>3
  <2>2. Irs + x = q + At(x) /\ Irs + (x + n) = p + At(x + n)
    BY <1>1, <1>2
  <2> HIDE DEF p, q
  <2> QED BY <1>3, <2>1, <2>2
<1>5. (At(x) + n) % SeqSpace = At(x + n)
  <2>1. At(x) + n \in Int /\ j - k \in Int
    BY <1>3
  <2> QED BY <1>3, <1>4, <2>1, RemainderIs
<1> QED BY <1>5 DEF Plus

LEMMA AtMinus ==
  ASSUME NEW x \in Int, NEW y \in Int
  PROVE  /\ 0 <= x - y /\ x - y < SeqSpace => Minus(At(x), At(y)) = x - y
         /\ -SeqSpace <= x - y /\ x - y < 0 => Minus(At(x), At(y)) = x - y + SeqSpace
<1>1. PICK k \in Int : Irs + x = SeqSpace * k + At(x)
  BY AtIs
<1>2. PICK j \in Int : Irs + y = SeqSpace * j + At(y)
  BY AtIs
<1>3. At(x) \in Int /\ At(y) \in Int /\ SeqSpace \in Nat \ {0} /\ Irs \in Int
  BY AtIs, Constants
<1>4. At(x) - At(y) = SeqSpace * (j - k) + (x - y)
  BY <1>1, <1>2, <1>3
<1>5. ASSUME 0 <= x - y, x - y < SeqSpace PROVE Minus(At(x), At(y)) = x - y
  <2>1. x - y \in 0 .. (SeqSpace - 1) /\ At(x) - At(y) \in Int /\ j - k \in Int
    BY <1>3, <1>5
  <2>2. (At(x) - At(y)) % SeqSpace = x - y
    BY <1>3, <1>4, <2>1, RemainderIs
  <2> QED BY <2>2 DEF Minus
<1>6. ASSUME -SeqSpace <= x - y, x - y < 0 PROVE Minus(At(x), At(y)) = x - y + SeqSpace
  <2>1. x - y + SeqSpace \in 0 .. (SeqSpace - 1) /\ At(x) - At(y) \in Int /\ j - k - 1 \in Int
    BY <1>3, <1>6
  <2>2. At(x) - At(y) = SeqSpace * (j - k - 1) + (x - y + SeqSpace)
    BY <1>3, <1>4
  <2>3. (At(x) - At(y)) % SeqSpace = x - y + SeqSpace
    BY <1>3, <2>1, <2>2, RemainderIs
  <2> QED BY <2>3 DEF Minus
<1> QED BY <1>5, <1>6

\* Positions that are less than half the ring apart are compared by their
\* sequence numbers.
LEMMA Compare ==
  ASSUME NEW x \in Int, NEW y \in Int, 2 * (x - y) < SeqSpace, 2 * (y - x) < SeqSpace
  PROVE  /\ SeqLT(At(x), At(y)) <=> x < y
         /\ SeqGEQ(At(x), At(y)) <=> x >= y
         /\ SeqGT(At(x), At(y)) <=> x > y
         /\ SeqLEQ(At(x), At(y)) <=> x <= y
         /\ At(x) = At(y) <=> x = y
<1>0. SeqSpace \in Nat /\ SeqSpace > 2
  BY Constants
<1>1. SeqLT(At(x), At(y)) <=> x < y
  <2>1. CASE x >= y
    <3>1. Minus(At(x), At(y)) = x - y
      BY <1>0, <2>1, AtMinus
    <3> QED BY <1>0, <2>1, <3>1 DEF SeqLT
  <2>2. CASE x < y
    <3>1. Minus(At(x), At(y)) = x - y + SeqSpace
      BY <1>0, <2>2, AtMinus
    <3> QED BY <1>0, <2>2, <3>1 DEF SeqLT
  <2> QED BY <2>1, <2>2
<1>2. At(x) = At(y) <=> x = y
  <2> SUFFICES ASSUME At(x) = At(y) PROVE x = y
    OBVIOUS
  <2>1. SeqLT(At(y), At(x)) <=> y < x
    <3>1. CASE y >= x
      <4>1. Minus(At(y), At(x)) = y - x
        BY <1>0, <3>1, AtMinus
      <4> QED BY <1>0, <3>1, <4>1 DEF SeqLT
    <3>2. CASE y < x
      <4>1. Minus(At(y), At(x)) = y - x + SeqSpace
        BY <1>0, <3>2, AtMinus
      <4> QED BY <1>0, <3>2, <4>1 DEF SeqLT
    <3> QED BY <3>1, <3>2
  <2>2. At(x) \in Int
    BY AtIs
  <2>3. x < y <=> y < x
    BY <1>1, <2>1
  <2> QED BY <2>3
<1> QED BY <1>1, <1>2 DEF SeqGEQ, SeqGT, SeqLEQ

\* So it is with the positions of the stream, of the window, and the one
\* before.
Position == -1 .. (StreamLen + WndMax + 1)

LEMMA PositionIs ==
  ASSUME NEW x \in Int, -1 <= x, x <= StreamLen + WndMax + 1 PROVE x \in Position
  BY Constants DEF Position

LEMMA InOrder ==
  ASSUME NEW x \in Position, NEW y \in Position
  PROVE  /\ x \in Int /\ y \in Int
         /\ SeqLT(At(x), At(y)) <=> x < y
         /\ SeqGEQ(At(x), At(y)) <=> x >= y
         /\ SeqGT(At(x), At(y)) <=> x > y
         /\ SeqLEQ(At(x), At(y)) <=> x <= y
         /\ At(x) = At(y) <=> x = y
<1>1. x \in Int /\ y \in Int /\ 2 * (x - y) < SeqSpace /\ 2 * (y - x) < SeqSpace
  BY Constants DEF Position
<1> QED BY <1>1, Compare

\* Where a sequence number is in the stream.
LEMMA OffsetAt ==
  ASSUME NEW x \in Int, 0 <= x, x < SeqSpace
  PROVE  Offset(At(x)) = x
<1>1. Irs = At(0)
  BY Constants DEF At, Plus
<1>2. Minus(At(x), At(0)) = x - 0
  BY AtMinus
<1> QED BY <1>1, <1>2 DEF Offset

LEMMA AtOffset ==
  ASSUME NEW a \in 0 .. (SeqSpace - 1)
  PROVE  Offset(a) \in 0 .. (SeqSpace - 1) /\ At(Offset(a)) = a
<1>0. SeqSpace \in Nat \ {0} /\ Irs \in 0 .. (SeqSpace - 1)
  BY Constants
<1>1. PICK k \in Int : a - Irs = SeqSpace * k + Offset(a)
  <2>1. a - Irs \in Int
    BY <1>0
  <2> QED BY <1>0, <2>1, Division DEF Offset, Minus
<1>2. Offset(a) \in 0 .. (SeqSpace - 1)
  <2>1. a - Irs \in Int
    BY <1>0
  <2> QED BY <1>0, <2>1, Division DEF Offset, Minus
<1>3. Irs + Offset(a) = SeqSpace * (-k) + a
  <2> DEFINE q == SeqSpace * k
  <2>1. q \in Int /\ SeqSpace * (-k) = -q
    BY <1>0
  <2>2. a - Irs = q + Offset(a)
    BY <1>1
  <2> HIDE DEF q
  <2> QED BY <1>0, <1>2, <2>1, <2>2
<1>4. (Irs + Offset(a)) % SeqSpace = a
  <2>1. Irs + Offset(a) \in Int /\ -k \in Int
    BY <1>0, <1>2
  <2> QED BY <1>0, <1>3, <2>1, RemainderIs
<1> QED BY <1>2, <1>4 DEF At, Plus

-----------------------------------------------------------------------------
(* Numbers, sets of numbers, and recursion over an interval *)

\* Every non-empty set of naturals has a least element: the finite initial
\* segments are well-founded.
LEMMA LeastNat ==
  ASSUME NEW T \in SUBSET Nat, T # {} PROVE \E x \in T : \A y \in T : x <= y
<1> DEFINE B == {0 .. (x - 1) : x \in T}
<1>1. B \subseteq FiniteSubsetsOf(Nat) /\ B # {}
  <2>1. \A x \in T : 0 .. (x - 1) \subseteq Nat /\ IsFiniteSet(0 .. (x - 1))
    BY FS_Interval
  <2> QED BY <2>1 DEF FiniteSubsetsOf
<1>2. PICK b \in B : \A d \in B : <<d, b>> \notin StrictSubsetOrdering(Nat)
  <2>1. IsWellFoundedOn(StrictSubsetOrdering(Nat), FiniteSubsetsOf(Nat))
    BY FS_StrictSubsetOrderingWellFounded
  <2> HIDE DEF B
  <2> QED BY <1>1, <2>1, WFMin
<1>3. PICK x \in T : b = 0 .. (x - 1)
  BY <1>2
<1>4. ASSUME NEW y \in T, y < x PROVE FALSE
  <2>1. 0 .. (y - 1) \in B /\ 0 .. (y - 1) \subseteq b /\ 0 .. (y - 1) # b /\ b \subseteq Nat
    BY <1>3, <1>4
  <2>2. <<0 .. (y - 1), b>> \in StrictSubsetOrdering(Nat)
    BY <2>1 DEF StrictSubsetOrdering
  <2> QED BY <1>2, <2>1, <2>2
<1> QED BY <1>4

\* What holds for 0 and, if for m - 1, for m, holds up to n; holds is the set
\* of the numbers for which it does.
LEMMA Induction ==
  ASSUME NEW n \in Nat, NEW holds, 0 \in holds,
         \A m \in 1 .. n : m - 1 \in holds => m \in holds
  PROVE  \A m \in 0 .. n : m \in holds
<1> DEFINE bad == {m \in 0 .. n : m \notin holds}
<1> SUFFICES ASSUME bad # {} PROVE FALSE
  OBVIOUS
<1>1. PICK m \in bad : \A y \in bad : m <= y
  <2>1. bad \in SUBSET Nat
    OBVIOUS
  <2> HIDE DEF bad
  <2> QED BY <2>1, LeastNat
<1>2. m \in 1 .. n /\ m - 1 \in 0 .. n /\ m - 1 \notin bad
  BY <1>1
<1> QED BY <1>1, <1>2

\* A function defined by recursion over 1 .. n exists.
IsStep(n, S, step) == step \in [1 .. n -> [S -> S]]

IsRecursive(f, n, S, base, step) ==
    /\ f \in [0 .. n -> S]
    /\ f[0] = base /\ \A i \in 1 .. n : f[i] = step[i][f[i - 1]]

LEMMA FiniteRecursion ==
  ASSUME NEW n \in Nat, NEW S, NEW base \in S, NEW step, IsStep(n, S, step)
  PROVE  \E f : IsRecursive(f, n, S, base, step)
<1>0. step \in [1 .. n -> [S -> S]]
  BY DEF IsStep
<1> DEFINE Good(m) == \E f \in [0 .. m -> S] :
                        f[0] = base /\ \A i \in 1 .. m : f[i] = step[i][f[i - 1]]
           holds == {m \in 0 .. n : Good(m)}
<1>1. Good(0)
  <2>1. /\ [i \in 0 .. 0 |-> base] \in [0 .. 0 -> S] /\ [i \in 0 .. 0 |-> base][0] = base
        /\ 1 .. 0 = {}
    OBVIOUS
  <2> QED BY <2>1
<1>2. ASSUME NEW m \in 1 .. n, Good(m - 1) PROVE Good(m)
  <2>0. m \in Nat /\ m # 0 /\ m - 1 \in 0 .. (m - 1) /\ m \in 1 .. n
    OBVIOUS
  <2>1. PICK f \in [0 .. (m - 1) -> S] :
               f[0] = base /\ \A i \in 1 .. (m - 1) : f[i] = step[i][f[i - 1]]
    BY <1>2
  <2> DEFINE h == [i \in 0 .. m |-> IF i = m THEN step[m][f[m - 1]] ELSE f[i]]
  <2>2. h \in [0 .. m -> S]
    <3>1. step[m][f[m - 1]] \in S
      BY <1>0, <2>0, <2>1
    <3>2. \A i \in 0 .. m : i # m => i \in 0 .. (m - 1)
      BY <2>0
    <3> QED BY <3>1, <3>2
  <2>3. h[0] = base
    BY <2>0, <2>1
  <2>4. ASSUME NEW i \in 1 .. m PROVE h[i] = step[i][h[i - 1]]
    <3>1. i - 1 \in 0 .. m /\ i - 1 # m /\ i \in 0 .. m
      BY <2>0
    <3>2. h[i - 1] = f[i - 1]
      BY <3>1
    <3>3. CASE i = m
      BY <3>1, <3>2, <3>3
    <3>4. CASE i # m
      <4>1. i \in 1 .. (m - 1) /\ h[i] = f[i]
        BY <3>1, <3>4, <2>0
      <4> QED BY <2>1, <3>2, <4>1
    <3> QED BY <3>3, <3>4
  <2> HIDE DEF h
  <2> QED BY <2>2, <2>3, <2>4
<1>3. 0 \in holds /\ \A m \in 1 .. n : m - 1 \in holds => m \in holds
  <2>1. 0 \in 0 .. n /\ \A m \in 1 .. n : m \in 0 .. n
    OBVIOUS
  <2> HIDE DEF Good
  <2> QED BY <1>1, <1>2, <2>1
<1>4. n \in holds
  <2>1. n \in 0 .. n
    OBVIOUS
  <2> HIDE DEF holds
  <2> QED BY <1>3, <2>1, Induction
<1> QED BY <1>4 DEF IsRecursive

\* Kept is the end of such a recursion.
LEMMA MaxIs ==
  ASSUME NEW n \in Nat, NEW T \in SUBSET (0 .. n), T # {}
  PROVE  Max(T) \in T /\ \A y \in T : y <= Max(T)
<1> DEFINE below == {n - x : x \in T}
<1>1. below \in SUBSET Nat /\ below # {}
  <2>1. \A x \in T : n - x \in Nat
    OBVIOUS
  <2> QED BY <2>1
<1>2. PICK b \in below : \A y \in below : b <= y
  <2> HIDE DEF below
  <2> QED BY <1>1, LeastNat
<1>3. PICK x \in T : b = n - x
  BY <1>2
<1>4. \A y \in T : x >= y
  <2>1. \A y \in T : n - y \in below /\ y \in Int
    OBVIOUS
  <2> QED BY <1>2, <1>3, <2>1
<1>5. Max(T) \in T /\ \A y \in T : Max(T) >= y
  BY <1>4, Zenon DEF Max
<1>6. \A y \in T : y \in Int
  OBVIOUS
<1> QED BY <1>5, <1>6

LEMMA MinIs ==
  ASSUME NEW a \in Int, NEW b \in Int
  PROVE  Min({a, b}) = IF a <= b THEN a ELSE b
<1>1. \E x \in {a, b} : \A y \in {a, b} : x <= y
  OBVIOUS
<1>2. Min({a, b}) \in {a, b} /\ \A y \in {a, b} : Min({a, b}) <= y
  BY <1>1, Zenon DEF Min
<1> QED BY <1>2

\* A set of indices that holds, with an index, those before it.
LEMMA PrefixIs ==
  ASSUME NEW n \in Nat, NEW T \in SUBSET (1 .. n), \A i \in T : \A j \in 1 .. i : j \in T
  PROVE  Cardinality(T) \in 0 .. n /\ T = 1 .. Cardinality(T)
<1> DEFINE m == Max(T \cup {0})
<1>1. m \in T \cup {0} /\ \A y \in T \cup {0} : y <= m
  <2>1. T \cup {0} \in SUBSET (0 .. n) /\ T \cup {0} # {}
    OBVIOUS
  <2> QED BY <2>1, MaxIs
<1> HIDE DEF m
<1>2. T = 1 .. m /\ m \in 0 .. n
  <2>1. m \in 0 .. n /\ \A y \in T : y \in Nat /\ 1 <= y /\ y <= m
    BY <1>1
  <2>2. T \subseteq 1 .. m
    BY <2>1
  <2>3. 1 .. m \subseteq T
    <3>1. CASE m \in T
      BY <3>1
    <3>2. CASE m = 0
      BY <3>2
    <3> QED BY <1>1, <3>1, <3>2
  <2> QED BY <2>1, <2>2, <2>3
<1>3. Cardinality(1 .. m) = m
  <2>1. Cardinality(1 .. m) = IF 1 > m THEN 0 ELSE m - 1 + 1
    BY <1>2, FS_Interval
  <2> QED BY <1>2, <2>1
<1> QED BY <1>2, <1>3

-----------------------------------------------------------------------------
(* Segments *)

SegSet == [seqno : 0 .. (SeqSpace - 1), data : Seq(Int), fin : BOOLEAN]

\* The positions of the first byte of s and of the one behind its last.
Pos(s) == Offset(s.seqno)
End(s) == Pos(s) + Len(s.data)

\* s is a part of the stream: it holds the bytes that belong to its sequence
\* numbers, and a FIN only behind the last one.
SegOK(s) ==
    /\ s \in SegSet
    /\ End(s) <= StreamLen
    /\ Len(s.data) > 0 \/ s.fin
    /\ \A k \in 1 .. Len(s.data) : s.data[k] = Pos(s) + k
    /\ s.fin => End(s) = StreamLen

LEMMA SegIs ==
  ASSUME NEW s, SegOK(s)
  PROVE  /\ Pos(s) \in 0 .. StreamLen /\ Len(s.data) \in Nat /\ End(s) \in 0 .. StreamLen
         /\ TcpLen(s) \in 1 .. (StreamLen + 1)
         /\ TcpLen(s) = Len(s.data) + (IF s.fin THEN 1 ELSE 0)
         /\ s.seqno = At(Pos(s)) /\ DataEnd(s) = At(End(s))
         /\ Plus(s.seqno, TcpLen(s)) = At(Pos(s) + TcpLen(s))
<1>1. s \in SegSet /\ s.seqno \in 0 .. (SeqSpace - 1) /\ s.data \in Seq(Int) /\ s.fin \in BOOLEAN
  BY DEF SegOK, SegSet
<1>2. Pos(s) \in Nat /\ At(Pos(s)) = s.seqno
  BY <1>1, AtOffset, Constants, SMTT(30) DEF Pos
<1>3. Len(s.data) \in Nat
  BY <1>1
<1>4. End(s) = Pos(s) + Len(s.data) /\ End(s) <= StreamLen /\ (Len(s.data) > 0 \/ s.fin)
  BY DEF SegOK, End
<1>5. PICK f \in {0, 1} : f = (IF s.fin THEN 1 ELSE 0) /\ (s.fin => f = 1)
  OBVIOUS
<1>6. TcpLen(s) = Len(s.data) + f
  BY <1>5 DEF TcpLen
<1>7. TcpLen(s) >= 1
  <2>1. Len(s.data) > 0 \/ f = 1
    BY <1>4, <1>5
  <2> QED BY <1>3, <1>6, <2>1
<1>8. TcpLen(s) \in Int /\ Pos(s) \in Int /\ StreamLen \in Nat
  BY <1>2, <1>3, <1>6, Constants
<1>9. DataEnd(s) = At(End(s))
  <2>1. Pos(s) \in Int /\ Len(s.data) \in Int
    BY <1>3, <1>8
  <2>2. Plus(At(Pos(s)), Len(s.data)) = At(Pos(s) + Len(s.data))
    BY <2>1, AtPlus
  <2> QED BY <1>2, <1>4, <2>2, <2>1 DEF DataEnd
<1>10. Plus(s.seqno, TcpLen(s)) = At(Pos(s) + TcpLen(s))
  <2>1. Plus(At(Pos(s)), TcpLen(s)) = At(Pos(s) + TcpLen(s))
    BY <1>8, AtPlus
  <2> QED BY <1>2, <2>1
<1>11. TcpLen(s) \in 1 .. (StreamLen + 1) /\ Pos(s) \in 0 .. StreamLen /\ End(s) \in 0 .. StreamLen
  <2>1. End(s) \in Int /\ f \in Int /\ f <= 1
    BY <1>3, <1>4, <1>8
  <2>2. Pos(s) >= 0 /\ End(s) <= StreamLen /\ End(s) = Pos(s) + Len(s.data)
    BY <1>2, <1>4
  <2> HIDE DEF Pos, End, TcpLen
  <2> QED BY <1>3, <1>6, <1>7, <1>8, <2>1, <2>2
<1> QED BY <1>2, <1>3, <1>5, <1>6, <1>9, <1>10, <1>11

\* The numbers of a segment.
LEMMA SegNums ==
  ASSUME NEW s, SegOK(s)
  PROVE  /\ Pos(s) \in Int /\ End(s) \in Int /\ TcpLen(s) \in Int /\ Len(s.data) \in Int
         /\ 0 <= Pos(s) /\ Pos(s) <= StreamLen /\ 0 <= Len(s.data) /\ 1 <= TcpLen(s)
         /\ End(s) = Pos(s) + Len(s.data) /\ End(s) <= StreamLen
         /\ s.fin => TcpLen(s) = Len(s.data) + 1 /\ End(s) = StreamLen
         /\ ~s.fin => TcpLen(s) = Len(s.data) /\ Len(s.data) >= 1
<1>1. /\ Pos(s) \in 0 .. StreamLen /\ Len(s.data) \in Nat /\ End(s) \in 0 .. StreamLen
      /\ TcpLen(s) \in 1 .. (StreamLen + 1)
  BY SegIs
<1>2. StreamLen \in Nat /\ End(s) = Pos(s) + Len(s.data)
  BY Constants DEF End
<1>3. (Len(s.data) > 0 \/ s.fin) /\ (s.fin => End(s) = StreamLen)
  BY DEF SegOK
<1>4. (s.fin => TcpLen(s) = Len(s.data) + 1) /\ (~s.fin => TcpLen(s) = Len(s.data) + 0)
  BY SegIs
<1> HIDE DEF Pos, End, TcpLen
<1>5. /\ Pos(s) \in Int /\ End(s) \in Int /\ TcpLen(s) \in Int /\ Len(s.data) \in Int
      /\ 0 <= Pos(s) /\ Pos(s) <= StreamLen /\ 0 <= Len(s.data) /\ 1 <= TcpLen(s)
      /\ End(s) <= StreamLen
  <2> DEFINE p == Pos(s)
             e == End(s)
             t == TcpLen(s)
             l == Len(s.data)
  <2>1. p \in 0 .. StreamLen /\ l \in Nat /\ e \in 0 .. StreamLen /\ t \in 1 .. (StreamLen + 1)
    BY <1>1
  <2> HIDE DEF p, e, t, l
  <2>2. /\ p \in Int /\ e \in Int /\ t \in Int /\ l \in Int /\ e <= StreamLen
        /\ 0 <= p /\ p <= StreamLen /\ 0 <= l /\ 1 <= t
    BY <1>2, <2>1
  <2> QED BY <2>2 DEF p, e, t, l
<1>6. ~s.fin => TcpLen(s) = Len(s.data) /\ Len(s.data) >= 1
  <2>1. Len(s.data) + 0 = Len(s.data) /\ (Len(s.data) > 0 => Len(s.data) >= 1)
    BY <1>5
  <2> QED BY <1>3, <1>4, <2>1, Zenon
<1> QED BY <1>2, <1>3, <1>4, <1>5, <1>6, Zenon

\* What CutAt leaves of a part of the stream is one.
LEMMA CutIs ==
  ASSUME NEW s, SegOK(s), ~s.fin, NEW e \in Int, Pos(s) < e, e <= End(s)
  PROVE  /\ SegOK(CutAt(s, At(e))) /\ ~CutAt(s, At(e)).fin
         /\ Pos(CutAt(s, At(e))) = Pos(s) /\ End(CutAt(s, At(e))) = e
<1> DEFINE n == e - Pos(s)
           c == CutAt(s, At(e))
<1>1. s.seqno \in 0 .. (SeqSpace - 1) /\ s.data \in Seq(Int) /\ s \in SegSet
      /\ \A k \in 1 .. Len(s.data) : s.data[k] = Pos(s) + k
  BY DEF SegOK, SegSet
<1>2. Pos(s) \in 0 .. StreamLen /\ Len(s.data) \in Nat /\ End(s) \in 0 .. StreamLen
      /\ s.seqno = At(Pos(s)) /\ End(s) = Pos(s) + Len(s.data)
  BY SegIs DEF End
<1>3. n \in 1 .. Len(s.data) /\ n \in Int
  BY <1>2
<1>4. Minus(At(e), s.seqno) = n
  <2>1. 0 <= n /\ n < SeqSpace /\ Pos(s) \in Int
    BY <1>2, <1>3, Constants
  <2> QED BY <1>2, <2>1, AtMinus
<1>5. c = [s EXCEPT !.data = SubSeq(s.data, 1, n)]
  BY <1>4 DEF CutAt
<1> HIDE DEF n
<1>6. /\ SubSeq(s.data, 1, n) \in Seq(Int) /\ Len(SubSeq(s.data, 1, n)) = n
      /\ \A k \in 1 .. n : SubSeq(s.data, 1, n)[k] = s.data[k]
  BY <1>1, <1>3
<1>7. c \in SegSet /\ c.seqno = s.seqno /\ c.data = SubSeq(s.data, 1, n) /\ c.fin = s.fin
  BY <1>1, <1>5, <1>6 DEF SegSet
<1>8. Pos(c) = Pos(s) /\ End(c) = e
  BY <1>2, <1>3, <1>6, <1>7 DEF Pos, End, n
<1>9. \A k \in 1 .. n : k \in 1 .. Len(s.data)
  BY <1>2, <1>3
<1> HIDE DEF c
<1>10. SegOK(c)
  <2>1. Len(c.data) = n /\ Len(c.data) > 0
    BY <1>2, <1>3, <1>6, <1>7
  <2>2. \A k \in 1 .. Len(c.data) : c.data[k] = Pos(c) + k
    BY <1>1, <1>6, <1>7, <1>8, <1>9, <2>1
  <2>3. End(c) <= StreamLen /\ ~c.fin
    BY <1>2, <1>7, <1>8, Constants
  <2> QED BY <1>7, <2>1, <2>2, <2>3 DEF SegOK
<1> QED BY <1>7, <1>8, <1>10 DEF c

-----------------------------------------------------------------------------
(* Queues of segments: in order, apart, and inside a part of the stream. *)

SegIn(s, lo, hi) == SegOK(s) /\ lo <= Pos(s) /\ Pos(s) + TcpLen(s) <= hi

Behind(s, t) == ~s.fin /\ End(s) <= Pos(t)

QueueOK(q, lo, hi) ==
    /\ q \in Seq(SegSet)
    /\ \A i \in 1 .. Len(q) : SegIn(q[i], lo, hi)
    /\ \A i, j \in 1 .. Len(q) : i < j => Behind(q[i], q[j])

LEMMA QueueEmpty ==
  ASSUME NEW lo, NEW hi PROVE QueueOK(<<>>, lo, hi)
  BY DEF QueueOK

LEMMA QueueOne ==
  ASSUME NEW lo, NEW hi, NEW s, SegIn(s, lo, hi) PROVE QueueOK(<<s>>, lo, hi)
<1>1. s \in SegSet
  BY DEF SegIn, SegOK
<1>2. <<s>> \in Seq(SegSet) /\ Len(<<s>>) = 1 /\ <<s>>[1] = s
  BY <1>1
<1>3. \A i \in 1 .. 1 : i = 1
  OBVIOUS
<1> QED BY <1>2, <1>3 DEF QueueOK

LEMMA QueueSub ==
  ASSUME NEW lo, NEW hi, NEW q, QueueOK(q, lo, hi),
         NEW a \in 1 .. (Len(q) + 1), NEW b \in 0 .. Len(q), a <= b + 1
  PROVE  /\ QueueOK(SubSeq(q, a, b), lo, hi) /\ Len(SubSeq(q, a, b)) = b - a + 1
         /\ \A i \in 1 .. (b - a + 1) : SubSeq(q, a, b)[i] = q[a + i - 1] /\ a + i - 1 \in 1 .. Len(q)
<1> DEFINE p == SubSeq(q, a, b)
           n == b - a + 1
<1>1. q \in Seq(SegSet) /\ Len(q) \in Nat
  BY DEF QueueOK
<1>2. p \in Seq(SegSet) /\ Len(p) = n /\ n \in Nat
      /\ \A i \in 1 .. n : p[i] = q[a + i - 1] /\ a + i - 1 \in 1 .. Len(q)
  BY <1>1
<1>3. \A i \in 1 .. n : SegIn(p[i], lo, hi)
  BY <1>2 DEF QueueOK
<1>4. ASSUME NEW i \in 1 .. n, NEW j \in 1 .. n, i < j PROVE Behind(p[i], p[j])
  <2>1. a + i - 1 < a + j - 1
    BY <1>1, <1>4
  <2> QED BY <1>2, <2>1 DEF QueueOK
<1> HIDE DEF p, n
<1>5. QueueOK(p, lo, hi)
  BY <1>2, <1>3, <1>4 DEF QueueOK
<1> QED BY <1>2, <1>5 DEF p, n

LEMMA QueueCat ==
  ASSUME NEW lo, NEW hi, NEW p, NEW q, QueueOK(p, lo, hi), QueueOK(q, lo, hi),
         \A i \in 1 .. Len(p), j \in 1 .. Len(q) : Behind(p[i], q[j])
  PROVE  QueueOK(p \o q, lo, hi)
<1> DEFINE m == Len(p)
           n == Len(q)
           r == p \o q
<1>1. p \in Seq(SegSet) /\ q \in Seq(SegSet) /\ m \in Nat /\ n \in Nat
  BY DEF QueueOK
<1>2. /\ r \in Seq(SegSet) /\ Len(r) = m + n
      /\ \A i \in 1 .. m : r[i] = p[i]
      /\ \A i \in (m + 1) .. (m + n) : r[i] = q[i - m] /\ i - m \in 1 .. n
  BY <1>1, ConcatProperties
<1> HIDE DEF r
<1>3. ASSUME NEW i \in 1 .. (m + n) PROVE SegIn(r[i], lo, hi)
  <2>1. CASE i \in 1 .. m
    BY <1>2, <2>1 DEF QueueOK
  <2>2. CASE i \notin 1 .. m
    <3>1. i \in (m + 1) .. (m + n)
      BY <1>1, <2>2
    <3> QED BY <1>2, <3>1 DEF QueueOK
  <2> QED BY <2>1, <2>2
<1>4. ASSUME NEW i \in 1 .. (m + n), NEW j \in 1 .. (m + n), i < j
      PROVE  Behind(r[i], r[j])
  <2>1. CASE j \in 1 .. m
    <3>1. i \in 1 .. m
      BY <1>1, <1>4, <2>1
    <3> QED BY <1>2, <1>4, <2>1, <3>1 DEF QueueOK
  <2>2. CASE j \notin 1 .. m
    <3>1. j \in (m + 1) .. (m + n) /\ r[j] = q[j - m] /\ j - m \in 1 .. n
      BY <1>1, <1>2, <2>2
    <3>2. CASE i \in 1 .. m
      BY <1>2, <3>1, <3>2
    <3>3. CASE i \notin 1 .. m
      <4>1. i \in (m + 1) .. (m + n) /\ r[i] = q[i - m] /\ i - m \in 1 .. n
        BY <1>1, <1>2, <3>3
      <4>2. i - m < j - m
        BY <1>1, <1>4, <3>1, <4>1
      <4> QED BY <3>1, <4>1, <4>2 DEF QueueOK
    <3> QED BY <3>2, <3>3
  <2> QED BY <2>1, <2>2
<1>5. QueueOK(r, lo, hi)
  BY <1>2, <1>3, <1>4 DEF QueueOK
<1> QED BY <1>5 DEF r

\* The bounds may be moved apart, and the lower one over what is in front.
LEMMA QueueFrom ==
  ASSUME NEW lo, NEW hi, NEW q, QueueOK(q, lo, hi), NEW x, NEW y,
         \A i \in 1 .. Len(q) : x <= Pos(q[i]) /\ Pos(q[i]) + TcpLen(q[i]) <= y
  PROVE  QueueOK(q, x, y)
  BY DEF QueueOK, SegIn

LEMMA QueueIs ==
  ASSUME NEW lo, NEW hi, NEW q, QueueOK(q, lo, hi), NEW i \in 1 .. Len(q)
  PROVE  SegIn(q[i], lo, hi) /\ SegOK(q[i]) /\ q[i].fin \in BOOLEAN /\ Len(q) \in Nat /\ q[i] \in SegSet
<1>1. SegIn(q[i], lo, hi) /\ q \in Seq(SegSet)
  BY DEF QueueOK
<1>2. q[i] \in SegSet /\ SegOK(q[i]) /\ Len(q) \in Nat
  BY <1>1 DEF SegIn, SegOK
<1> QED BY <1>1, <1>2 DEF SegSet

LEMMA CoveredIs ==
  ASSUME NEW lo, NEW hi, NEW q, QueueOK(q, lo, hi), NEW e \in 0 .. (StreamLen + 1)
  PROVE  /\ Covered(q, At(e)) \in 0 .. Len(q)
         /\ \A i \in 1 .. Covered(q, At(e)) : End(q[i]) <= e
         /\ Covered(q, At(e)) < Len(q) => End(q[Covered(q, At(e)) + 1]) > e
<1> DEFINE T == {k \in 0 .. Len(q) : \A i \in 1 .. k : SeqGEQ(At(e), DataEnd(q[i]))}
           m == Max(T)
<1>0. Len(q) \in Nat
  BY DEF QueueOK
<1>1. m \in T /\ \A y \in T : y <= m
  <2>1. T \in SUBSET (0 .. Len(q)) /\ 0 \in T
    BY <1>0
  <2> HIDE DEF T
  <2> QED BY <1>0, <2>1, MaxIs
<1>2. Covered(q, At(e)) = m
  BY DEF Covered
<1>3. ASSUME NEW i \in 1 .. Len(q) PROVE SeqGEQ(At(e), DataEnd(q[i])) <=> End(q[i]) <= e
  <2>1. End(q[i]) \in 0 .. StreamLen /\ DataEnd(q[i]) = At(End(q[i]))
    BY QueueIs, SegIs
  <2>2. End(q[i]) \in Int /\ e \in Int /\ 2 * (e - End(q[i])) < SeqSpace /\ 2 * (End(q[i]) - e) < SeqSpace
    BY <2>1, Constants
  <2>3. SeqGEQ(At(e), At(End(q[i]))) <=> e >= End(q[i])
    BY <2>2, Compare
  <2> QED BY <2>1, <2>2, <2>3
<1>4. m \in 0 .. Len(q) /\ \A i \in 1 .. m : i \in 1 .. Len(q) /\ SeqGEQ(At(e), DataEnd(q[i]))
  <2>1. m \in 0 .. Len(q) /\ \A i \in 1 .. m : SeqGEQ(At(e), DataEnd(q[i]))
    <3> HIDE DEF m
    <3> QED BY <1>1
  <2> HIDE DEF m
  <2> QED BY <1>0, <2>1
<1>5. ASSUME m < Len(q), ~(End(q[m + 1]) > e) PROVE FALSE
  <2>1. m + 1 \in 1 .. Len(q) /\ m + 1 \in 0 .. Len(q)
    BY <1>0, <1>4, <1>5
  <2>2. End(q[m + 1]) \in Int /\ e \in Int
    <3> HIDE DEF m, T
    <3>1. SegOK(q[m + 1])
      BY <2>1, QueueIs
    <3> QED BY <3>1, SegNums
  <2>3. SeqGEQ(At(e), DataEnd(q[m + 1]))
    BY <1>3, <1>5, <2>1, <2>2
  <2>4. \A i \in 1 .. (m + 1) : i = m + 1 \/ i \in 1 .. m
    BY <1>4
  <2> HIDE DEF m
  <2>5. m + 1 \in T
    BY <1>4, <2>1, <2>3, <2>4
  <2> HIDE DEF T
  <2> QED BY <1>1, <1>4, <2>5
<1> HIDE DEF m, T
<1> QED BY <1>2, <1>3, <1>4, <1>5

\* s with the FIN of the first k segments of q.
Whole(s, q, k) == [s EXCEPT !.fin = \E i \in 1 .. k : q[i].fin]

LEMMA WholeIs ==
  ASSUME NEW lo \in Int, NEW x, NEW hi \in Int, NEW q, NEW s, SegIn(s, lo, hi), ~s.fin,
         QueueOK(q, x, hi), NEW k \in 0 .. Len(q), \A i \in 1 .. k : End(q[i]) <= End(s)
  PROVE  /\ SegIn(Whole(s, q, k), lo, hi)
         /\ Pos(Whole(s, q, k)) = Pos(s) /\ End(Whole(s, q, k)) = End(s)
         /\ Whole(s, q, k).seqno = s.seqno /\ Whole(s, q, k).data = s.data
         /\ k < Len(q) => ~Whole(s, q, k).fin
<1> DEFINE w == Whole(s, q, k)
<1>0. SegOK(s) /\ s \in SegSet /\ Len(q) \in Nat
  BY DEF SegIn, SegOK, QueueOK
<1>1. PICK f \in BOOLEAN : f = \E i \in 1 .. k : q[i].fin
  OBVIOUS
<1>2. w = [s EXCEPT !.fin = f]
  BY <1>1 DEF Whole
<1>3. w \in SegSet /\ w.seqno = s.seqno /\ w.data = s.data /\ w.fin = f
  BY <1>0, <1>2 DEF SegSet
<1>4. Pos(w) = Pos(s) /\ End(w) = End(s)
  BY <1>3 DEF Pos, End
<1>5. Pos(s) \in 0 .. StreamLen /\ End(s) \in 0 .. StreamLen /\ Len(s.data) \in Nat
      /\ End(s) = Pos(s) + Len(s.data) /\ TcpLen(s) = Len(s.data)
  BY <1>0, SegIs, SegNums
<1>6. ASSUME f
      PROVE  End(s) = StreamLen /\ StreamLen + 1 <= hi /\ ~(k < Len(q))
  <2>1. PICK i \in 1 .. k : q[i].fin
    BY <1>1, <1>6
  <2>2. i \in 1 .. Len(q) /\ i \in Int /\ i <= k
    BY <1>0
  <2>3. SegIn(q[i], x, hi) /\ SegOK(q[i])
    BY <2>2, QueueIs
  <2>4. End(q[i]) = StreamLen /\ Pos(q[i]) + TcpLen(q[i]) <= hi
        /\ End(q[i]) = Pos(q[i]) + Len(q[i].data)
    BY <2>1, <2>3, Zenon DEF SegIn, SegOK, End
  <2>5. TcpLen(q[i]) = Len(q[i].data) + 1
    BY <2>1, <2>3, SegNums
  <2>6. Len(q[i].data) \in Int /\ Pos(q[i]) \in Int
    BY <2>3, SegNums
  <2>7. ASSUME k < Len(q) PROVE FALSE
    <3>1. k + 1 \in 1 .. Len(q) /\ i < k + 1
      BY <1>0, <2>2, <2>7
    <3>2. Behind(q[i], q[k + 1])
      BY <2>2, <3>1 DEF QueueOK
    <3> QED BY <2>1, <3>2 DEF Behind
  <2>8. End(q[i]) <= End(s)
    OBVIOUS
  <2>9. StreamLen + 1 <= hi
    BY <2>4, <2>5, <2>6
  <2>10. End(s) = StreamLen
    <3>1. End(s) \in Int /\ StreamLen \in Int /\ End(s) <= StreamLen
      BY <1>0, SegNums, Constants
    <3> QED BY <2>4, <2>8, <3>1
  <2> QED BY <2>7, <2>9, <2>10, Zenon
<1>7. TcpLen(w) = Len(s.data) + (IF f THEN 1 ELSE 0)
  BY <1>3 DEF TcpLen
<1>8. SegOK(w)
  <2>1. Len(s.data) > 0
    BY <1>0 DEF SegOK
  <2>2. \A j \in 1 .. Len(w.data) : w.data[j] = Pos(w) + j
    BY <1>0, <1>3, <1>4 DEF SegOK
  <2>3. End(w) <= StreamLen
    BY <1>4, <1>5, Constants
  <2>4. w.fin => End(w) = StreamLen
    BY <1>3, <1>4, <1>6
  <2> HIDE DEF w
  <2> QED BY <1>3, <2>1, <2>2, <2>3, <2>4, Zenon DEF SegOK
<1>9. lo <= Pos(w) /\ Pos(w) + TcpLen(w) <= hi
  <2>1. lo <= Pos(s) /\ Pos(s) + TcpLen(s) <= hi
    BY DEF SegIn
  <2> HIDE DEF w, Pos, TcpLen, End
  <2>2. CASE f
    BY <1>4, <1>5, <1>6, <1>7, <2>1, <2>2, Constants
  <2>3. CASE ~f
    BY <1>4, <1>5, <1>7, <2>1, <2>3, Constants
  <2> QED BY <2>2, <2>3
<1>10. SegIn(w, lo, hi)
  BY <1>8, <1>9 DEF SegIn
<1>11. k < Len(q) => ~w.fin
  BY <1>3, <1>6
<1> HIDE DEF w
<1> QED BY <1>3, <1>4, <1>10, <1>11 DEF w

\* A segment inside the window keeps all its bytes.
LEMMA InWindow ==
  ASSUME NEW p, NEW n \in 0 .. (StreamLen + 1), NEW w \in 0 .. WndMax,
         p.rcv_nxt = At(n), p.rcv_wnd = w, NEW lo, NEW s, SegIn(s, lo, n + w)
  PROVE  TrimToWindow(p, s) = s
<1> DEFINE e == Pos(s) + TcpLen(s)
<1>1. SegOK(s) /\ e <= n + w
  BY DEF SegIn
<1>2. e \in Int /\ 0 <= e /\ Plus(s.seqno, TcpLen(s)) = At(e)
  <2>1. Pos(s) \in Int /\ TcpLen(s) \in Int /\ 0 <= Pos(s) /\ 1 <= TcpLen(s)
    BY <1>1, SegNums
  <2>2. Plus(s.seqno, TcpLen(s)) = At(Pos(s) + TcpLen(s))
    BY <1>1, SegIs
  <2> HIDE DEF Pos, TcpLen
  <2> QED BY <2>1, <2>2
<1>3. n \in Int /\ w \in Int /\ Plus(p.rcv_nxt, p.rcv_wnd) = At(n + w)
  BY AtPlus, Constants
<1> HIDE DEF e
<1>4. n + w \in Position /\ e \in Position
  BY <1>1, <1>2, Constants DEF Position
<1>5. ~SeqGT(At(e), At(n + w))
  BY <1>1, <1>2, <1>4, InOrder
<1> QED BY <1>2, <1>3, <1>5 DEF TrimToWindow, e

LEMMA TrimLastOK ==
  ASSUME NEW lo \in Int, NEW hi \in Int, NEW q, QueueOK(q, lo, hi), NEW e \in 0 .. StreamLen,
         \A i \in 1 .. Len(q) : Pos(q[i]) < e /\ ~q[i].fin
  PROVE  /\ QueueOK(TrimLast(q, At(e)), lo, hi)
         /\ \A i \in 1 .. Len(TrimLast(q, At(e))) :
              ~TrimLast(q, At(e))[i].fin /\ End(TrimLast(q, At(e))[i]) <= e
<1> DEFINE n == Len(q)
           l == q[n]
<1>0. q \in Seq(SegSet) /\ n \in Nat /\ e \in Int /\ StreamLen \in Nat
  BY Constants DEF QueueOK
<1>1. CASE q = <<>>
  <2>1. TrimLast(q, At(e)) = q /\ \A i \in 1 .. Len(q) : FALSE
    BY <1>1 DEF TrimLast
  <2> QED BY <2>1
<1>2. CASE q # <<>>
  <2>1. n \in 1 .. n /\ n >= 1
    BY <1>0, <1>2
  <2>2. SegIn(l, lo, hi) /\ SegOK(l) /\ Pos(l) < e /\ ~l.fin
    BY <2>1, QueueIs
  <2>3. Last(q) = l
    BY DEF Last
  <2> HIDE DEF l
  <2>4. /\ End(l) \in Int /\ Pos(l) \in Int /\ TcpLen(l) \in Int
        /\ End(l) = Pos(l) + TcpLen(l) /\ 0 <= Pos(l) /\ End(l) <= StreamLen
        /\ DataEnd(l) = At(End(l))
    BY <2>2, SegNums, SegIs
  <2>5. SeqGT(DataEnd(l), At(e)) <=> End(l) > e
    <3>0. e <= StreamLen /\ 0 <= e /\ 0 <= End(l)
      <4>1. 0 <= Pos(l) /\ 0 <= Len(l.data) /\ End(l) = Pos(l) + Len(l.data)
            /\ Len(l.data) \in Int
        BY <2>2, SegNums
      <4> HIDE DEF End, Pos
      <4> QED BY <1>0, <2>4, <4>1
    <3> HIDE DEF End
    <3>1. End(l) \in Position /\ e \in Position
      BY <1>0, <2>4, <3>0, Constants DEF Position
    <3> QED BY <2>4, <3>1, InOrder
  <2>6. \A i \in 1 .. n : i < n => End(q[i]) <= Pos(l)
    BY <2>1 DEF QueueOK, Behind, l
  <2>7. \A i \in 1 .. n : End(q[i]) \in Int
    BY QueueIs, SegNums
  <2>8. CASE ~(End(l) > e)
    <3>1. TrimLast(q, At(e)) = q
      BY <2>3, <2>5, <2>8 DEF TrimLast
    <3>2. \A i \in 1 .. n : End(q[i]) <= e
      <4>1. \A i \in 1 .. n : i < n \/ q[i] = l
        BY <1>0 DEF l
      <4> QED BY <2>2, <2>4, <2>6, <2>7, <2>8, <4>1, <1>0, SMTT(30)
    <3> QED BY <3>1, <3>2
  <2>9. CASE End(l) > e
    <3> DEFINE c == CutAt(l, At(e))
               f == SubSeq(q, 1, n - 1)
    <3>1. TrimLast(q, At(e)) = f \o <<c>>
      BY <1>2, <2>3, <2>5, <2>9 DEF TrimLast, Front
    <3>2. SegOK(c) /\ ~c.fin /\ Pos(c) = Pos(l) /\ End(c) = e
      BY <1>0, <2>2, <2>4, <2>9, CutIs
    <3>3. QueueOK(f, lo, hi) /\ Len(f) = n - 1 /\ \A i \in 1 .. (n - 1) : f[i] = q[i]
      <4>1. 1 \in 1 .. (n + 1) /\ n - 1 \in 0 .. n /\ 1 <= (n - 1) + 1 /\ n - 1 - 1 + 1 = n - 1
        BY <1>0, <2>1
      <4>2. /\ QueueOK(f, lo, hi) /\ Len(f) = n - 1 - 1 + 1
            /\ \A i \in 1 .. (n - 1 - 1 + 1) : f[i] = q[1 + i - 1]
        <5> HIDE DEF n
        <5> QED BY <4>1, QueueSub DEF n
      <4>3. \A i \in 1 .. (n - 1) : 1 + i - 1 = i
        BY <1>0
      <4> QED BY <4>1, <4>2, <4>3
    <3>4. SegIn(c, lo, hi)
      <4>1. lo <= Pos(l) /\ Pos(l) + TcpLen(l) <= hi
        BY <2>2 DEF SegIn
      <4>2. End(c) = Pos(c) + TcpLen(c) /\ TcpLen(c) \in Int
        BY <3>2, SegNums
      <4> HIDE DEF c
      <4>3. lo <= Pos(c) /\ Pos(c) + TcpLen(c) <= hi
        BY <1>0, <2>4, <2>9, <3>2, <4>1, <4>2
      <4> QED BY <3>2, <4>3 DEF SegIn
    <3> HIDE DEF c, f
    <3>5. QueueOK(<<c>>, lo, hi) /\ Len(<<c>>) = 1 /\ \A j \in 1 .. Len(<<c>>) : <<c>>[j] = c
      BY <3>4, QueueOne
    <3>6. \A i \in 1 .. Len(f) : ~f[i].fin /\ End(f[i]) <= Pos(c) /\ End(f[i]) <= e
      <4>1. \A i \in 1 .. (n - 1) : i \in 1 .. n /\ i < n
        BY <1>0
      <4> QED BY <1>0, <2>2, <2>4, <2>6, <2>7, <3>2, <3>3, <4>1, SMTT(30)
    <3>7. QueueOK(f \o <<c>>, lo, hi)
      <4>1. \A i \in 1 .. Len(f), j \in 1 .. Len(<<c>>) : Behind(f[i], <<c>>[j])
        BY <3>5, <3>6, Zenon DEF Behind
      <4> QED BY <3>3, <3>5, <4>1, QueueCat
    <3>8. \A i \in 1 .. Len(f \o <<c>>) : (f \o <<c>>)[i] = c \/ \E k \in 1 .. Len(f) : (f \o <<c>>)[i] = f[k]
      <4>1. f \in Seq(SegSet) /\ <<c>> \in Seq(SegSet)
        BY <3>3, <3>5 DEF QueueOK
      <4> QED BY <4>1
    <3>9. \A i \in 1 .. Len(f \o <<c>>) : ~(f \o <<c>>)[i].fin /\ End((f \o <<c>>)[i]) <= e
      <4>1. e <= e
        BY <1>0
      <4> QED BY <3>2, <3>6, <3>8, <4>1, Zenon
    <3> QED BY <3>1, <3>7, <3>9
  <2> QED BY <2>8, <2>9
<1> QED BY <1>1, <1>2

LEMMA CatElements ==
  ASSUME NEW S, NEW p \in Seq(S), NEW q \in Seq(S)
  PROVE  \A i \in 1 .. Len(p \o q) : \/ \E j \in 1 .. Len(p) : (p \o q)[i] = p[j]
                                    \/ \E j \in 1 .. Len(q) : (p \o q)[i] = q[j]
<1>1. /\ Len(p) \in Nat /\ Len(q) \in Nat /\ Len(p \o q) = Len(p) + Len(q)
      /\ \A i \in 1 .. Len(p) : (p \o q)[i] = p[i]
      /\ \A i \in (Len(p) + 1) .. (Len(p) + Len(q)) : (p \o q)[i] = q[i - Len(p)]
  BY ConcatProperties
<1>2. ASSUME NEW i \in 1 .. (Len(p) + Len(q))
      PROVE  i \in 1 .. Len(p) \/ (i \in (Len(p) + 1) .. (Len(p) + Len(q)) /\ i - Len(p) \in 1 .. Len(q))
  BY <1>1
<1> QED BY <1>1, <1>2

\* A queue whose segments start behind s takes s in front.
LEMMA InsertOK ==
  ASSUME NEW lo \in Int, NEW hi \in Int, NEW q, QueueOK(q, lo, hi), q # <<>>,
         NEW s, SegIn(s, lo, hi),
         Pos(s) < Pos(q[1]) \/ (Pos(s) = Pos(q[1]) /\ Len(s.data) > Len(q[1].data)),
         NEW r, r = tcp_oos_insert_segment(s, q)
  PROVE  QueueOK(r, lo, hi) /\ \A i \in 1 .. Len(r) : Pos(s) <= Pos(r[i])
<1> DEFINE k == Covered(q, DataEnd(s))
           n == Len(q)
           rest == SubSeq(q, k + 1, n)
           w == Whole(s, q, k)
<1>0. n \in Nat /\ n >= 1 /\ 1 \in 1 .. n /\ q \in Seq(SegSet)
  BY DEF QueueOK
<1>1. SegOK(s) /\ Pos(s) \in Int /\ End(s) \in Int /\ DataEnd(s) = At(End(s))
      /\ End(s) \in 0 .. (StreamLen + 1) /\ Pos(s) <= Pos(s) /\ End(s) = Pos(s) + Len(s.data)
      /\ Len(s.data) \in Int
  <2>1. SegOK(s)
    BY DEF SegIn
  <2>2. End(s) \in 0 .. StreamLen /\ DataEnd(s) = At(End(s))
    BY <2>1, SegIs
  <2>3. Pos(s) \in Int /\ End(s) \in Int /\ End(s) = Pos(s) + Len(s.data) /\ Len(s.data) \in Int
    BY <2>1, SegNums
  <2> HIDE DEF Pos, End
  <2> QED BY <2>1, <2>2, <2>3, Constants
<1>2. k \in 0 .. n /\ (\A i \in 1 .. k : End(q[i]) <= End(s)) /\ (k < n => End(q[k + 1]) > End(s))
  BY <1>1, CoveredIs
<1>3. CASE s.fin
  <2>1. r = <<s>>
    BY <1>3 DEF tcp_oos_insert_segment
  <2>2. QueueOK(<<s>>, lo, hi)
    BY QueueOne
  <2>3. Len(<<s>>) = 1 /\ \A i \in 1 .. 1 : <<s>>[i] = s
    OBVIOUS
  <2> QED BY <1>1, <2>1, <2>2, <2>3
<1>4. CASE ~s.fin
  <2> HIDE DEF k
  <2>1. k + 1 \in 1 .. (n + 1) /\ n \in 0 .. n /\ k + 1 <= n + 1 /\ n - (k + 1) + 1 = n - k
    BY <1>0, <1>2
  <2>2. /\ QueueOK(rest, lo, hi) /\ Len(rest) = n - k
        /\ \A i \in 1 .. (n - k) : rest[i] = q[k + 1 + i - 1] /\ k + 1 + i - 1 \in 1 .. n
    <3> HIDE DEF n
    <3>1. /\ QueueOK(rest, lo, hi) /\ Len(rest) = n - (k + 1) + 1
          /\ \A i \in 1 .. (n - (k + 1) + 1) : rest[i] = q[k + 1 + i - 1] /\ k + 1 + i - 1 \in 1 .. n
      BY <2>1, QueueSub DEF n
    <3> QED BY <2>1, <3>1
  <2>3. /\ SegIn(w, lo, hi) /\ Pos(w) = Pos(s) /\ End(w) = End(s) /\ w.seqno = s.seqno
        /\ k < n => ~w.fin
    BY <1>2, <1>4, WholeIs
  <2>4. w = [s EXCEPT !.fin = \E i \in 1 .. k : q[i].fin]
    BY DEF Whole
  <2> HIDE DEF rest, w
  <2>5. r = IF rest # <<>> /\ SeqGT(DataEnd(s), Head(rest).seqno)
            THEN <<CutAt(w, Head(rest).seqno)>> \o rest ELSE <<w>> \o rest
    BY <1>4, <2>4 DEF tcp_oos_insert_segment, k, rest, n
  <2>6. rest \in Seq(SegSet)
    BY <2>2 DEF QueueOK
  <2>7. CASE rest = <<>>
    <3>1. r = <<w>>
      <4>1. r = <<w>> \o rest
        BY <2>5, <2>7
      <4>2. w \in SegSet
        BY <2>3 DEF SegIn, SegOK
      <4> QED BY <2>7, <4>1, <4>2
    <3>2. QueueOK(<<w>>, lo, hi)
      BY <2>3, QueueOne
    <3>3. Len(<<w>>) = 1 /\ \A i \in 1 .. 1 : <<w>>[i] = w
      OBVIOUS
    <3> QED BY <1>1, <2>3, <3>1, <3>2, <3>3
  <2>8. CASE rest # <<>>
    <3> DEFINE h == q[k + 1]
    <3>1. k < n /\ k + 1 \in 1 .. n /\ Head(rest) = h /\ 1 \in 1 .. (n - k) /\ rest[1] = h
      <4>1. Len(rest) \in Nat /\ Len(rest) # 0 /\ Head(rest) = rest[1]
        BY <2>6, <2>8
      <4>2. k < n /\ k + 1 \in 1 .. n /\ 1 \in 1 .. (n - k) /\ k + 1 + 1 - 1 = k + 1
        <5> HIDE DEF n
        <5> QED BY <1>0, <1>2, <2>2, <4>1
      <4> QED BY <2>2, <4>1, <4>2
    <3>2. SegIn(h, lo, hi) /\ SegOK(h) /\ h.seqno = At(Pos(h)) /\ Pos(h) \in 0 .. StreamLen
      <4>1. SegIn(h, lo, hi) /\ SegOK(h)
        BY <3>1, QueueIs
      <4> QED BY <4>1, SegIs
    <3>3. Pos(s) < Pos(h)
      <4>1. Pos(q[1]) \in Int /\ End(q[1]) \in Int /\ End(q[1]) = Pos(q[1]) + Len(q[1].data)
            /\ Len(q[1].data) \in Int /\ 0 <= Len(q[1].data)
        <5>1. SegOK(q[1])
          BY <1>0, QueueIs
        <5> QED BY <5>1, SegNums
      <4>2. CASE k = 0
        <5>1. End(q[1]) > End(s) /\ h = q[1]
          <6>1. k + 1 = 1 /\ h = q[1]
            BY <4>2
          <6>2. End(q[k + 1]) > End(s)
            BY <1>2, <3>1
          <6> HIDE DEF h, End, k
          <6> QED BY <6>1, <6>2
        <5> HIDE DEF h, Pos, End
        <5>2. Pos(h) = Pos(q[1])
          BY <5>1, Zenon
        <5>3. Pos(s) <= End(s) /\ End(s) < End(q[1])
          BY <1>1, <4>1, <5>1
        <5> QED BY <1>1, <4>1, <5>2, <5>3, SMTT(30)
      <4>3. CASE k # 0
        <5>1. 1 < k + 1
          BY <1>0, <1>2, <4>3
        <5>2. End(q[1]) <= Pos(h) /\ ~q[1].fin
          BY <1>0, <3>1, <5>1 DEF QueueOK, Behind
        <5>3. Len(q[1].data) >= 1
          <6>1. SegOK(q[1])
            BY <1>0, QueueIs
          <6> QED BY <5>2, <6>1, SegNums
        <5>4. Pos(h) \in Int
          BY <3>2
        <5> HIDE DEF h, Pos, End
        <5> QED BY <1>1, <4>1, <5>2, <5>3, <5>4
      <4> QED BY <4>2, <4>3
    <3> HIDE DEF h
    <3>4. SeqGT(DataEnd(s), h.seqno) <=> End(s) > Pos(h)
      <4>1. End(s) \in Position /\ Pos(h) \in Position
        <5> HIDE DEF Pos, End
        <5> QED BY <1>1, <3>2, Constants, SMTT(30) DEF Position
      <4> QED BY <1>1, <3>2, <4>1, InOrder
    <3>5. ~w.fin /\ SegOK(w)
      BY <2>3, <3>1 DEF SegIn
    <3>6. \A j \in 1 .. Len(rest) : Pos(h) <= Pos(rest[j]) /\ Pos(s) <= Pos(rest[j])
      <4> SUFFICES ASSUME NEW j \in 1 .. (n - k)
                   PROVE  Pos(h) <= Pos(rest[j]) /\ Pos(s) <= Pos(rest[j])
        BY <2>2
      <4>1. SegOK(rest[j]) /\ Pos(rest[j]) \in Int
        <5>1. j \in 1 .. Len(rest)
          BY <2>2
        <5>2. SegOK(rest[j])
          BY <2>2, <5>1, QueueIs
        <5> QED BY <5>2, SegNums
      <4>2. CASE j = 1
        BY <1>1, <3>1, <3>2, <3>3, <4>1, <4>2
      <4>3. CASE j # 1
        <5>1. 1 < j /\ j \in 1 .. Len(rest) /\ 1 \in 1 .. Len(rest)
          BY <2>2, <3>1, <4>3
        <5>2. End(h) <= Pos(rest[j])
          BY <2>2, <3>1, <5>1 DEF QueueOK, Behind
        <5>3. End(h) = Pos(h) + Len(h.data) /\ 0 <= Len(h.data) /\ End(h) \in Int /\ Pos(h) \in Int
              /\ Len(h.data) \in Int
          BY <3>2, SegNums
        <5> HIDE DEF Pos, End
        <5> QED BY <1>1, <3>3, <4>1, <5>2, <5>3, SMTT(30)
      <4> QED BY <4>2, <4>3
    \* What is put in front of rest, cut or not, ends where rest starts.
    <3>7. PICK c : /\ r = <<c>> \o rest /\ SegIn(c, lo, hi) /\ ~c.fin
                   /\ Pos(c) = Pos(s) /\ End(c) <= Pos(h)
      <4>1. CASE End(s) > Pos(h)
        <5> DEFINE c == CutAt(w, h.seqno)
        <5>1. r = <<c>> \o rest
          BY <2>5, <2>8, <3>1, <3>4, <4>1
        <5>2. Pos(h) \in Int /\ Pos(w) < Pos(h) /\ Pos(h) <= End(w)
          BY <1>1, <2>3, <3>2, <3>3, <4>1
        <5>3. SegOK(c) /\ ~c.fin /\ Pos(c) = Pos(w) /\ End(c) = Pos(h)
          BY <3>2, <3>5, <5>2, CutIs
        <5>4. SegIn(c, lo, hi)
          <6>1. lo <= Pos(w) /\ Pos(w) + TcpLen(w) <= hi
            BY <2>3 DEF SegIn
          <6>2. /\ End(w) = Pos(w) + Len(w.data) /\ TcpLen(w) = Len(w.data)
                /\ Pos(w) \in Int /\ Len(w.data) \in Int
            BY <3>5, SegNums
          <6>3. End(c) = Pos(c) + Len(c.data) /\ TcpLen(c) = Len(c.data) /\ Len(c.data) \in Int
            BY <5>3, SegNums
          <6> HIDE DEF Pos, End, TcpLen, c
          <6>4. lo <= Pos(c) /\ Pos(c) + TcpLen(c) <= hi
            BY <5>2, <5>3, <6>1, <6>2, <6>3, SMTT(30)
          <6> QED BY <5>3, <6>4 DEF SegIn
        <5>5. Pos(h) <= Pos(h)
          BY <5>2
        <5> HIDE DEF c
        <5> QED BY <2>3, <5>1, <5>3, <5>4, <5>5
      <4>2. CASE ~(End(s) > Pos(h))
        <5>1. r = <<w>> \o rest
          BY <2>5, <2>8, <3>1, <3>4, <4>2
        <5>2. End(w) <= Pos(h)
          BY <1>1, <2>3, <3>2, <4>2
        <5> QED BY <2>3, <3>5, <5>1, <5>2
      <4> QED BY <4>1, <4>2
    <3>8. QueueOK(<<c>>, lo, hi) /\ Len(<<c>>) = 1 /\ \A j \in 1 .. 1 : <<c>>[j] = c
      BY <3>7, QueueOne
    <3>9. \A i \in 1 .. Len(<<c>>), j \in 1 .. Len(rest) : Behind(<<c>>[i], rest[j])
      <4> SUFFICES ASSUME NEW j \in 1 .. Len(rest) PROVE End(c) <= Pos(rest[j])
        BY <3>7, <3>8 DEF Behind
      <4>1. End(c) \in Int /\ Pos(h) \in Int /\ Pos(rest[j]) \in Int
        <5>1. SegOK(rest[j])
          BY <2>2, QueueIs
        <5>2. SegOK(c)
          BY <3>7 DEF SegIn
        <5> QED BY <3>2, <5>1, <5>2, SegNums
      <4>2. Pos(h) <= Pos(rest[j]) /\ End(c) <= Pos(h)
        BY <3>6, <3>7
      <4> HIDE DEF End, Pos
      <4> QED BY <4>1, <4>2
    <3>10. QueueOK(r, lo, hi)
      BY <2>2, <3>7, <3>8, <3>9, QueueCat
    <3>11. \A i \in 1 .. Len(r) : r[i] = c \/ \E j \in 1 .. Len(rest) : r[i] = rest[j]
      <4>1. c \in SegSet
        BY <3>7 DEF SegIn, SegOK
      <4>2. <<c>> \in Seq(SegSet)
        BY <4>1
      <4>3. \A i \in 1 .. Len(r) : \/ \E j \in 1 .. Len(<<c>>) : r[i] = <<c>>[j]
                                  \/ \E j \in 1 .. Len(rest) : r[i] = rest[j]
        BY <2>6, <3>7, <4>2, CatElements
      <4> QED BY <3>8, <4>3
    <3>12. \A i \in 1 .. Len(r) : Pos(s) <= Pos(r[i])
      BY <1>1, <3>6, <3>7, <3>11
    <3> QED BY <3>10, <3>12
  <2> QED BY <2>7, <2>8
<1> QED BY <1>3, <1>4

\* A segment beyond rcv_nxt is put where it belongs.
LEMMA QueuedOK ==
  ASSUME NEW p, NEW n \in 0 .. (StreamLen + 1), NEW w \in 0 .. WndMax,
         p.rcv_nxt = At(n), p.rcv_wnd = w, NEW lo \in Int, NEW hi \in Int, hi = n + w,
         NEW q, QueueOK(q, lo, hi), NEW s, SegIn(s, lo, hi)
  PROVE  QueueOK(Queued(p, q, s), lo, hi)
<1> DEFINE m == Len(q)
           T == {i \in 1 .. m : SeqLT(q[i].seqno, s.seqno)}
           k == Cardinality(T)
           before == SubSeq(q, 1, k)
           after == SubSeq(q, k + 1, m)
           res == Queued(p, q, s)
<1> SUFFICES QueueOK(res, lo, hi)
  OBVIOUS
<1>0. m \in Nat /\ q \in Seq(SegSet)
  BY DEF QueueOK
<1>1. SegOK(s) /\ Pos(s) \in Int /\ s.seqno = At(Pos(s)) /\ Pos(s) \in 0 .. StreamLen
      /\ Pos(s) \in Position
  <2>1. SegOK(s)
    BY DEF SegIn
  <2>2. Pos(s) \in Int /\ s.seqno = At(Pos(s)) /\ Pos(s) \in 0 .. StreamLen
    BY <2>1, SegIs, SegNums
  <2> HIDE DEF Pos
  <2>3. Pos(s) \in Position
    BY <2>2, Constants DEF Position
  <2> QED BY <2>1, <2>2, <2>3
<1>2. ASSUME NEW i \in 1 .. m
      PROVE  /\ SegOK(q[i]) /\ Pos(q[i]) \in Int /\ End(q[i]) \in Int /\ Pos(q[i]) <= End(q[i])
             /\ q[i].seqno = At(Pos(q[i]))
             /\ SeqLT(q[i].seqno, s.seqno) <=> Pos(q[i]) < Pos(s)
             /\ q[i].seqno = s.seqno <=> Pos(q[i]) = Pos(s)
  <2>1. SegOK(q[i])
    BY QueueIs
  <2>2. q[i].seqno = At(Pos(q[i])) /\ Pos(q[i]) \in 0 .. StreamLen
    BY <2>1, SegIs
  <2>3. Pos(q[i]) \in Int /\ End(q[i]) \in Int /\ End(q[i]) = Pos(q[i]) + Len(q[i].data)
        /\ Len(q[i].data) \in Int /\ 0 <= Len(q[i].data)
    BY <2>1, SegNums
  <2> HIDE DEF Pos, End
  <2>4. Pos(q[i]) \in Position /\ Pos(q[i]) <= End(q[i])
    BY <2>2, <2>3, Constants, SMTT(30) DEF Position
  <2>5. /\ SeqLT(q[i].seqno, s.seqno) <=> Pos(q[i]) < Pos(s)
        /\ q[i].seqno = s.seqno <=> Pos(q[i]) = Pos(s)
    BY <1>1, <2>2, <2>4, InOrder
  <2> QED BY <2>1, <2>2, <2>3, <2>4, <2>5
<1>3. k \in 0 .. m /\ T = 1 .. k
  <2>1. ASSUME NEW i \in T, NEW j \in 1 .. i PROVE j \in T
    <3>1. i \in 1 .. m /\ j \in 1 .. m /\ (j = i \/ j < i)
      BY <1>0
    <3>2. CASE j = i
      BY <3>2
    <3>3. CASE j < i
      <4>1. End(q[j]) <= Pos(q[i])
        BY <3>1, <3>3 DEF QueueOK, Behind
      <4>2. Pos(q[i]) < Pos(s)
        BY <1>2, <3>1
      <4>3. Pos(q[j]) < Pos(s)
        <5>1. Pos(q[j]) \in Int /\ End(q[j]) \in Int /\ Pos(q[j]) <= End(q[j]) /\ Pos(q[i]) \in Int
          BY <1>2, <3>1
        <5> HIDE DEF Pos, End
        <5> QED BY <1>1, <4>1, <4>2, <5>1
      <4> QED BY <1>2, <3>1, <4>3
    <3> QED BY <3>1, <3>2, <3>3
  <2>2. T \in SUBSET (1 .. m)
    OBVIOUS
  <2> HIDE DEF T, m
  <2> QED BY <1>0, <2>1, <2>2, PrefixIs
<1>4. \A i \in 1 .. m : (i <= k <=> Pos(q[i]) < Pos(s))
  <2>1. \A i \in 1 .. m : (i \in T <=> Pos(q[i]) < Pos(s))
    BY <1>2
  <2>2. \A i \in 1 .. m : (i \in 1 .. k <=> i <= k)
    BY <1>0, <1>3
  <2> HIDE DEF T, m, k
  <2> QED BY <1>3, <2>1, <2>2
<1>5. res = IF q = <<>> THEN <<s>>
            ELSE IF after = <<>>
            THEN IF Last(q).fin THEN q
                 ELSE TrimLast(before, s.seqno) \o <<TrimToWindow(p, s)>>
            ELSE IF Head(after).seqno = s.seqno
                    /\ Len(s.data) <= Len(Head(after).data) THEN q
            ELSE TrimLast(before, s.seqno) \o tcp_oos_insert_segment(s, after)
  BY DEF Queued
<1>6. TrimToWindow(p, s) = s
  BY InWindow
<1>7. QueueOK(<<s>>, lo, hi) /\ Len(<<s>>) = 1 /\ \A i \in 1 .. 1 : <<s>>[i] = s
  BY QueueOne
<1> HIDE DEF T, res
<1>8. /\ QueueOK(before, lo, hi) /\ Len(before) = k
      /\ \A i \in 1 .. k : before[i] = q[i] /\ i \in 1 .. m
  <2>1. 1 \in 1 .. (m + 1) /\ k \in 0 .. m /\ 1 <= k + 1 /\ k - 1 + 1 = k
    BY <1>0, <1>3
  <2> HIDE DEF m, k
  <2>2. /\ QueueOK(before, lo, hi) /\ Len(before) = k - 1 + 1
        /\ \A i \in 1 .. (k - 1 + 1) : before[i] = q[1 + i - 1] /\ 1 + i - 1 \in 1 .. m
    BY <2>1, QueueSub DEF m
  <2>3. \A i \in 1 .. k : 1 + i - 1 = i
    BY <2>1
  <2> QED BY <2>1, <2>2, <2>3
<1>9. /\ QueueOK(after, lo, hi) /\ Len(after) = m - k
      /\ \A i \in 1 .. (m - k) : after[i] = q[k + i] /\ k + i \in 1 .. m /\ k + i > k
  <2>1. k + 1 \in 1 .. (m + 1) /\ m \in 0 .. m /\ k + 1 <= m + 1 /\ m - (k + 1) + 1 = m - k
    BY <1>0, <1>3
  <2> HIDE DEF m, k
  <2> DEFINE c == k + 1
  <2> HIDE DEF c
  <2>2. /\ QueueOK(after, lo, hi) /\ Len(after) = m - c + 1
        /\ \A i \in 1 .. (m - c + 1) : after[i] = q[c + i - 1] /\ c + i - 1 \in 1 .. m
    <3>1. c \in 1 .. (Len(q) + 1) /\ Len(q) \in 0 .. Len(q) /\ c <= Len(q) + 1
      BY <2>1 DEF m, c
    <3>2. after = SubSeq(q, c, Len(q))
      BY DEF m, c
    <3> HIDE DEF after
    <3> QED BY <3>1, <3>2, QueueSub DEF m
  <2>3. m - c + 1 = m - k /\ \A i \in 1 .. (m - k) : c + i - 1 = k + i /\ k + i > k
    BY <1>0, <1>3, <2>1 DEF c
  <2> QED BY <2>1, <2>2, <2>3
<1> DEFINE b == TrimLast(before, s.seqno)
\* What is in front of s, if no FIN is, ends where s starts.
<1>10. ASSUME \A i \in 1 .. k : ~q[i].fin
       PROVE  QueueOK(b, lo, hi) /\ \A i \in 1 .. Len(b) : ~b[i].fin /\ End(b[i]) <= Pos(s)
  <2>1. \A i \in 1 .. Len(before) : Pos(before[i]) < Pos(s) /\ ~before[i].fin
    <3>1. \A i \in 1 .. k : i <= k
      BY <1>3
    <3> HIDE DEF before, k, m, Pos
    <3> QED BY <1>4, <1>8, <1>10, <3>1
  <2> HIDE DEF before, k, m, Pos, End
  <2> QED BY <1>1, <1>8, <2>1, TrimLastOK, SMTT(30)
<1> HIDE DEF b, before, after, k
<1>11. CASE q = <<>>
  <2>1. res = <<s>>
    BY <1>5, <1>11
  <2> QED BY <1>7, <2>1
<1>12. CASE q # <<>> /\ after = <<>>
  <2>1. k = m /\ m \in 1 .. m /\ Last(q) = q[m]
    BY <1>0, <1>3, <1>9, <1>12 DEF Last
  <2>2. CASE q[m].fin
    <3>1. res = q
      BY <1>5, <1>12, <2>1, <2>2
    <3> QED BY <3>1
  <2>3. CASE ~q[m].fin
    <3>1. res = b \o <<s>>
      BY <1>5, <1>6, <1>12, <2>1, <2>3 DEF b
    <3>2. \A i \in 1 .. k : ~q[i].fin
      <4>1. \A i \in 1 .. m : i = m \/ i < m
        BY <1>0
      <4> QED BY <2>1, <2>3, <4>1 DEF QueueOK, Behind
    <3>3. QueueOK(b, lo, hi) /\ \A i \in 1 .. Len(b) : ~b[i].fin /\ End(b[i]) <= Pos(s)
      BY <1>10, <3>2
    <3>4. \A i \in 1 .. Len(b), j \in 1 .. Len(<<s>>) : Behind(b[i], <<s>>[j])
      BY <1>7, <3>3 DEF Behind
    <3> QED BY <1>7, <3>1, <3>3, <3>4, QueueCat
  <2> QED BY <2>2, <2>3
<1>13. CASE q # <<>> /\ after # <<>>
  <2> DEFINE h == q[k + 1]
  <2>1. k < m /\ k + 1 \in 1 .. m /\ Head(after) = h /\ after[1] = h
    <3>1. after \in Seq(SegSet)
      BY <1>9 DEF QueueOK
    <3>2. Len(after) \in Nat /\ Len(after) # 0 /\ Head(after) = after[1]
      BY <1>13, <3>1
    <3>3. k < m /\ k + 1 \in 1 .. m /\ 1 \in 1 .. (m - k)
      BY <1>0, <1>3, <1>9, <3>2
    <3> QED BY <1>9, <3>2, <3>3
  <2>2. Pos(s) <= Pos(h) /\ Pos(h) \in Int /\ (h.seqno = s.seqno <=> Pos(h) = Pos(s))
    <3>1. ~(k + 1 <= k) /\ Pos(h) \in Int
      BY <1>2, <1>3, <2>1
    <3>2. ~(Pos(h) < Pos(s))
      BY <1>4, <2>1, <3>1
    <3> HIDE DEF Pos
    <3>3. Pos(s) <= Pos(h)
      BY <1>1, <3>1, <3>2
    <3> QED BY <1>2, <2>1, <3>1, <3>3
  <2>3. CASE h.seqno = s.seqno /\ Len(s.data) <= Len(h.data)
    <3>1. res = q
      BY <1>5, <1>13, <2>1, <2>3
    <3> QED BY <3>1
  <2>4. CASE ~(h.seqno = s.seqno /\ Len(s.data) <= Len(h.data))
    <3> DEFINE c == tcp_oos_insert_segment(s, after)
    <3>1. res = b \o c
      BY <1>5, <1>13, <2>1, <2>4 DEF b
    <3>2. \A i \in 1 .. k : ~q[i].fin
      <4>1. \A i \in 1 .. k : i \in 1 .. m /\ i < k + 1
        BY <1>0, <1>3
      <4> QED BY <2>1, <4>1 DEF QueueOK, Behind
    <3>3. QueueOK(b, lo, hi) /\ \A i \in 1 .. Len(b) : ~b[i].fin /\ End(b[i]) <= Pos(s)
      BY <1>10, <3>2
    <3>4. Pos(s) < Pos(h) \/ (Pos(s) = Pos(h) /\ Len(s.data) > Len(h.data))
      <4>1. Len(s.data) \in Int /\ Len(h.data) \in Int
        BY <1>1, <1>2, <2>1, SegNums
      <4>2. Pos(s) = Pos(h) => Len(s.data) > Len(h.data)
        <5>1. Pos(s) = Pos(h) => ~(Len(s.data) <= Len(h.data))
          <6> HIDE DEF h, Pos
          <6> QED BY <2>2, <2>4
        <5> HIDE DEF h, Pos
        <5> QED BY <4>1, <5>1
      <4>3. Pos(s) < Pos(h) \/ Pos(s) = Pos(h)
        <5> HIDE DEF h, Pos
        <5> QED BY <1>1, <2>2
      <4> QED BY <4>2, <4>3, Zenon
    <3>5. QueueOK(c, lo, hi) /\ \A j \in 1 .. Len(c) : Pos(s) <= Pos(c[j])
      <4> HIDE DEF h
      <4> QED BY <1>9, <1>13, <2>1, <3>4, InsertOK
    <3> HIDE DEF c
    <3>6. ASSUME NEW i \in 1 .. Len(b), NEW j \in 1 .. Len(c) PROVE Behind(b[i], c[j])
      <4>1. SegOK(b[i]) /\ SegOK(c[j])
        BY <3>3, <3>5, QueueIs
      <4>2. End(b[i]) \in Int /\ Pos(c[j]) \in Int
        BY <4>1, SegNums
      <4>3. End(b[i]) <= Pos(c[j])
        <5> HIDE DEF Pos, End
        <5> QED BY <1>1, <3>3, <3>5, <4>2
      <4> QED BY <3>3, <4>3 DEF Behind
    <3> QED BY <3>1, <3>3, <3>5, <3>6, QueueCat
  <2> QED BY <2>3, <2>4
<1> QED BY <1>11, <1>12, <1>13

-----------------------------------------------------------------------------
(* Bytes of the stream *)

\* The bytes of the stream from position a up to position b.
Bytes(a, b) == [k \in 1 .. (b - a) |-> a + k]

LEMMA BytesIs ==
  ASSUME NEW a \in Int, NEW b \in Int, a <= b
  PROVE  /\ Bytes(a, b) \in Seq(Int) /\ Len(Bytes(a, b)) = b - a
         /\ \A k \in 1 .. (b - a) : Bytes(a, b)[k] = a + k
<1>1. b - a \in Nat /\ \A k \in 1 .. (b - a) : a + k \in Int
  OBVIOUS
<1> QED BY <1>1 DEF Bytes

LEMMA BytesSame ==
  ASSUME NEW a \in Int, NEW b \in Int, a <= b,
         NEW d \in Seq(Int), Len(d) = b - a, \A k \in 1 .. Len(d) : d[k] = a + k
  PROVE  d = Bytes(a, b)
<1>1. /\ Bytes(a, b) \in Seq(Int) /\ Len(Bytes(a, b)) = b - a
      /\ \A k \in 1 .. (b - a) : Bytes(a, b)[k] = a + k
  BY BytesIs
<1> QED BY <1>1

LEMMA BytesNone ==
  ASSUME NEW a \in Int PROVE <<>> = Bytes(a, a)
<1>1. a - a = 0 /\ a <= a /\ Len(<<>>) = 0 /\ <<>> \in Seq(Int)
      /\ \A k \in 1 .. 0 : <<>>[k] = a + k
  OBVIOUS
<1> QED BY <1>1, BytesSame

LEMMA BytesCat ==
  ASSUME NEW a \in Int, NEW b \in Int, NEW c \in Int, a <= b, b <= c
  PROVE  Bytes(a, b) \o Bytes(b, c) = Bytes(a, c)
<1> DEFINE p == Bytes(a, b)
           q == Bytes(b, c)
<1>1. /\ p \in Seq(Int) /\ Len(p) = b - a /\ \A k \in 1 .. (b - a) : p[k] = a + k
      /\ q \in Seq(Int) /\ Len(q) = c - b /\ \A k \in 1 .. (c - b) : q[k] = b + k
  BY BytesIs
<1> HIDE DEF p, q
<1>2. /\ p \o q \in Seq(Int) /\ Len(p \o q) = Len(p) + Len(q)
      /\ \A i \in 1 .. Len(p) : (p \o q)[i] = p[i]
      /\ \A i \in (Len(p) + 1) .. (Len(p) + Len(q)) : (p \o q)[i] = q[i - Len(p)]
  <2>1. p \in Seq(Int) /\ q \in Seq(Int)
    BY <1>1
  <2> QED BY <2>1, ConcatProperties
<1>3. Len(p \o q) = c - a /\ a <= c
  BY <1>1, <1>2
<1>4. ASSUME NEW k \in 1 .. (c - a) PROVE (p \o q)[k] = a + k
  <2>1. CASE k <= b - a
    <3>1. k \in 1 .. (b - a)
      BY <2>1
    <3> QED BY <1>1, <1>2, <3>1
  <2>2. CASE ~(k <= b - a)
    <3>1. k \in (b - a + 1) .. (b - a + (c - b)) /\ k - (b - a) \in 1 .. (c - b)
      BY <2>2
    <3>2. b + (k - (b - a)) = a + k
      OBVIOUS
    <3> QED BY <1>1, <1>2, <3>1, <3>2
  <2> QED BY <2>1, <2>2
<1>5. p \o q = Bytes(a, c)
  BY <1>2, <1>3, <1>4, BytesSame
<1> QED BY <1>5 DEF p, q

LEMMA SegBytes ==
  ASSUME NEW s, SegOK(s) PROVE s.data = Bytes(Pos(s), End(s))
<1>1. s.data \in Seq(Int) /\ \A k \in 1 .. Len(s.data) : s.data[k] = Pos(s) + k
  BY DEF SegOK, SegSet
<1>2. Pos(s) \in Int /\ End(s) \in Int /\ End(s) = Pos(s) + Len(s.data)
      /\ Len(s.data) \in Int /\ 0 <= Len(s.data)
  BY SegNums
<1> HIDE DEF Pos, End
<1>3. Pos(s) <= End(s) /\ Len(s.data) = End(s) - Pos(s)
  BY <1>2
<1> QED BY <1>1, <1>2, <1>3, BytesSame

-----------------------------------------------------------------------------
(* The receive window *)

Pcbs == [rcv_nxt : 0 .. (SeqSpace - 1), rcv_wnd : Int, rcv_ann_wnd : Int,
         rcv_ann_right_edge : 0 .. (SeqSpace - 1), ooseq : Seq(SegSet), refused : Seq(Int),
         refusedFin : BOOLEAN, delayAck : BOOLEAN, ackNow : BOOLEAN, closeWait : BOOLEAN]

\* rcv_nxt is position n and the window has w bytes; the right edge the peer
\* knows is inside it.
Edges(p, n, w) ==
    /\ p \in Pcbs /\ n \in 0 .. (StreamLen + 1) /\ w \in 0 .. WndMax
    /\ p.rcv_nxt = At(n) /\ p.rcv_wnd = w
    /\ Offset(p.rcv_ann_right_edge) <= n + w

\* The window that will be announced is inside it, too.
Window(p, n, w) == Edges(p, n, w) /\ p.rcv_ann_wnd \in 0 .. w

\* What acknowledgements do not touch.
Keeps(p, r) ==
    /\ r.ooseq = p.ooseq /\ r.refused = p.refused
    /\ r.refusedFin = p.refusedFin /\ r.closeWait = p.closeWait

LEMMA KeepsTwice ==
  ASSUME NEW p, NEW q, NEW r, Keeps(p, q), Keeps(q, r) PROVE Keeps(p, r)
  BY DEF Keeps

LEMMA EdgesAre ==
  ASSUME NEW p, NEW n, NEW w, Edges(p, n, w)
  PROVE  /\ n \in Int /\ w \in Int /\ 0 <= n /\ 0 <= w /\ n <= StreamLen + 1 /\ w <= WndMax
         /\ n \in Position /\ n + w \in Position /\ n + w - 1 \in Position
         /\ Plus(p.rcv_nxt, p.rcv_wnd) = At(n + w)
         /\ Offset(p.rcv_ann_right_edge) \in Int /\ 0 <= Offset(p.rcv_ann_right_edge)
         /\ Offset(p.rcv_ann_right_edge) \in Position
         /\ p.rcv_ann_right_edge = At(Offset(p.rcv_ann_right_edge))
         /\ Offset(p.rcv_nxt) = n
<1>1. p.rcv_ann_right_edge \in 0 .. (SeqSpace - 1) /\ p.rcv_nxt = At(n) /\ p.rcv_wnd = w
      /\ n \in 0 .. (StreamLen + 1) /\ w \in 0 .. WndMax
      /\ Offset(p.rcv_ann_right_edge) <= n + w
  BY DEF Edges, Pcbs
<1>2. /\ Offset(p.rcv_ann_right_edge) \in 0 .. (SeqSpace - 1)
      /\ p.rcv_ann_right_edge = At(Offset(p.rcv_ann_right_edge))
  BY <1>1, AtOffset
<1>3. n \in Int /\ w \in Int /\ 0 <= n /\ 0 <= w /\ n <= StreamLen + 1 /\ w <= WndMax
  BY <1>1, Constants
<1>4. Plus(p.rcv_nxt, p.rcv_wnd) = At(n + w)
  BY <1>1, <1>3, AtPlus
<1>5. Offset(p.rcv_nxt) = n
  <2>1. n < SeqSpace
    BY <1>3, Constants
  <2> QED BY <1>1, <1>3, <2>1, OffsetAt
<1>6. n \in Position /\ n + w \in Position /\ n + w - 1 \in Position
  BY <1>3, Constants DEF Position
<1>7. Offset(p.rcv_ann_right_edge) \in Int /\ 0 <= Offset(p.rcv_ann_right_edge)
      /\ Offset(p.rcv_ann_right_edge) \in Position
  BY <1>1, <1>2, <1>3, Constants DEF Position
<1> QED BY <1>2, <1>3, <1>4, <1>5, <1>6, <1>7

LEMMA AnnouncedOK ==
  ASSUME NEW p, NEW n, NEW w, Window(p, n, w)
  PROVE  Window(Announced(p), n, w) /\ Keeps(p, Announced(p))
<1> DEFINE a == p.rcv_ann_wnd
           r == Announced(p)
<1>1. p \in Pcbs /\ a \in 0 .. w /\ n \in 0 .. (StreamLen + 1) /\ w \in 0 .. WndMax
      /\ p.rcv_nxt = At(n) /\ p.rcv_wnd = w
  BY DEF Window, Edges
<1>2. n \in Int /\ w \in Int /\ a \in Int /\ 0 <= n /\ 0 <= a /\ a <= w
      /\ n + a \in Int /\ 0 <= n + a /\ n + a < SeqSpace /\ n + a <= n + w
  BY <1>1, Constants
<1> HIDE DEF a
<1>3. Plus(p.rcv_nxt, a) = At(n + a) /\ At(n + a) \in 0 .. (SeqSpace - 1) /\ Offset(At(n + a)) = n + a
  BY <1>1, <1>2, AtPlus, AtIs, OffsetAt
<1>4. r = [p EXCEPT !.rcv_ann_right_edge = At(n + a), !.delayAck = FALSE, !.ackNow = FALSE]
  BY <1>3 DEF Announced, a
<1>5. /\ r \in Pcbs /\ r.rcv_nxt = p.rcv_nxt /\ r.rcv_wnd = p.rcv_wnd /\ r.rcv_ann_wnd = p.rcv_ann_wnd
      /\ r.rcv_ann_right_edge = At(n + a)
      /\ r.ooseq = p.ooseq /\ r.refused = p.refused
      /\ r.refusedFin = p.refusedFin /\ r.closeWait = p.closeWait
  BY <1>1, <1>3, <1>4 DEF Pcbs
<1> HIDE DEF r
<1>6. Window(r, n, w)
  BY <1>1, <1>2, <1>3, <1>5 DEF Window, Edges, a
<1> QED BY <1>5, <1>6 DEF r, Keeps

LEMMA UpdateOK ==
  ASSUME NEW p, NEW n, NEW w, Edges(p, n, w)
  PROVE  Window(tcp_update_rcv_ann_wnd(p), n, w) /\ Keeps(p, tcp_update_rcv_ann_wnd(p))
<1> DEFINE e == Offset(p.rcv_ann_right_edge)
           x == SeqGEQ(Plus(p.rcv_nxt, p.rcv_wnd),
                       Plus(p.rcv_ann_right_edge, Min({WndMax \div 2, Mss})))
           y == SeqGT(p.rcv_nxt, p.rcv_ann_right_edge)
           r == tcp_update_rcv_ann_wnd(p)
<1>1. /\ n \in Int /\ w \in Int /\ 0 <= w /\ 0 <= e /\ e \in Int /\ e <= n + w
      /\ n \in Position /\ e \in Position /\ p.rcv_ann_right_edge = At(e) /\ p.rcv_nxt = At(n)
      /\ p.rcv_wnd = w /\ p \in Pcbs
  BY EdgesAre DEF Edges
<1> HIDE DEF e
<1>2. y <=> n > e
  BY <1>1, InOrder
<1>3. ~(n > e) => Minus(p.rcv_ann_right_edge, p.rcv_nxt) = e - n
  <2>1. ASSUME ~(n > e) PROVE 0 <= e - n /\ e - n < SeqSpace
    BY <1>1, <2>1, Constants DEF Position
  <2> QED BY <1>1, <2>1, AtMinus
<1> HIDE DEF x, y
<1>4. PICK a \in 0 .. w : r = [p EXCEPT !.rcv_ann_wnd = a]
  <2>1. r = [p EXCEPT !.rcv_ann_wnd = IF x THEN p.rcv_wnd ELSE IF y THEN 0
                                      ELSE Minus(p.rcv_ann_right_edge, p.rcv_nxt)]
    BY DEF tcp_update_rcv_ann_wnd, x, y
  <2> HIDE DEF r
  <2>2. CASE x
    <3>1. r = [p EXCEPT !.rcv_ann_wnd = w] /\ w \in 0 .. w
      BY <1>1, <2>1, <2>2
    <3> QED BY <3>1
  <2>3. CASE ~x /\ y
    <3>1. r = [p EXCEPT !.rcv_ann_wnd = 0] /\ 0 \in 0 .. w
      BY <1>1, <2>1, <2>3
    <3> QED BY <3>1
  <2>4. CASE ~x /\ ~y
    <3>1. r = [p EXCEPT !.rcv_ann_wnd = e - n]
      BY <1>2, <1>3, <2>1, <2>4
    <3>2. e - n \in 0 .. w
      BY <1>1, <1>2, <2>4
    <3> QED BY <3>1, <3>2
  <2> QED BY <2>2, <2>3, <2>4
<1> HIDE DEF r
<1>5. a \in Int /\ Edges(p, n, w)
  BY <1>1
<1>6. /\ r \in Pcbs /\ r.rcv_nxt = p.rcv_nxt /\ r.rcv_wnd = p.rcv_wnd /\ r.rcv_ann_wnd = a
      /\ r.rcv_ann_right_edge = p.rcv_ann_right_edge
      /\ r.ooseq = p.ooseq /\ r.refused = p.refused
      /\ r.refusedFin = p.refusedFin /\ r.closeWait = p.closeWait
  BY <1>1, <1>4, <1>5 DEF Pcbs
<1>7. Window(r, n, w)
  BY <1>4, <1>5, <1>6 DEF Window, Edges
<1> QED BY <1>6, <1>7 DEF r, Keeps

-----------------------------------------------------------------------------
(* Data that is in sequence *)

Results == [p : Pcbs, data : Seq(Int), fin : BOOLEAN, sent : BOOLEAN]

LEMMA AdvanceOK ==
  ASSUME NEW r \in Results, NEW n, NEW w, Edges(r.p, n, w),
         NEW s, SegOK(s), TcpLen(s) <= w, n + TcpLen(s) <= StreamLen + 1
  PROVE  /\ Advance(r, s) \in Results
         /\ Window(Advance(r, s).p, n + TcpLen(s), w - TcpLen(s)) /\ Keeps(r.p, Advance(r, s).p)
         /\ Advance(r, s).data = r.data \o s.data
         /\ Advance(r, s).fin = (r.fin \/ s.fin)
<1> DEFINE t == TcpLen(s)
           q == [r.p EXCEPT !.rcv_nxt = Plus(@, t), !.rcv_wnd = @ - t]
           u == tcp_update_rcv_ann_wnd(q)
<1>1. /\ r.p \in Pcbs /\ r.data \in Seq(Int) /\ r.fin \in BOOLEAN /\ r.sent \in BOOLEAN
      /\ s.data \in Seq(Int) /\ s.fin \in BOOLEAN
  BY DEF Results, SegOK, SegSet
<1>2. t \in Int /\ 1 <= t /\ n \in Int /\ w \in Int /\ 0 <= n /\ 0 <= w /\ w <= WndMax
      /\ t <= w /\ n + t <= StreamLen + 1
  BY SegNums, EdgesAre
<1>3. r.p.rcv_nxt = At(n) /\ r.p.rcv_wnd = w /\ Offset(r.p.rcv_ann_right_edge) <= n + w
  BY DEF Edges
<1>4. Plus(r.p.rcv_nxt, t) = At(n + t) /\ At(n + t) \in 0 .. (SeqSpace - 1)
  BY <1>2, <1>3, AtPlus, AtIs
<1> HIDE DEF t
<1>5. PICK x \in 0 .. (SeqSpace - 1), v \in Int :
        x = At(n + t) /\ v = w - t /\ q = [r.p EXCEPT !.rcv_nxt = x, !.rcv_wnd = v]
  <2>1. w - t \in Int
    BY <1>2
  <2> QED BY <1>3, <1>4, <2>1
<1> HIDE DEF q
<1>6. /\ q \in Pcbs /\ q.rcv_nxt = At(n + t) /\ q.rcv_wnd = w - t
      /\ q.rcv_ann_right_edge = r.p.rcv_ann_right_edge
      /\ q.ooseq = r.p.ooseq /\ q.refused = r.p.refused
      /\ q.refusedFin = r.p.refusedFin /\ q.closeWait = r.p.closeWait
  BY <1>1, <1>5 DEF Pcbs
<1>7. Edges(q, n + t, w - t) /\ Keeps(r.p, q)
  <2>1. n + t \in 0 .. (StreamLen + 1) /\ w - t \in 0 .. WndMax /\ n + t + (w - t) = n + w
    BY <1>2, Constants
  <2> QED BY <1>3, <1>6, <2>1 DEF Edges, Keeps
<1>8. Window(u, n + t, w - t) /\ Keeps(r.p, u) /\ u \in Pcbs
  <2>1. Window(u, n + t, w - t) /\ Keeps(q, u)
    BY <1>7, UpdateOK
  <2> HIDE DEF u
  <2> QED BY <1>7, <2>1, KeepsTwice DEF Window, Edges
<1>9. PICK d : d = r.data \o s.data
  OBVIOUS
<1>10. PICK f \in BOOLEAN : f = (r.fin \/ s.fin)
  BY <1>1
<1>11. Advance(r, s) = [r EXCEPT !.p = u, !.data = d, !.fin = f]
  BY <1>9, <1>10 DEF Advance, u, q, t
<1> HIDE DEF u
<1>12. d \in Seq(Int)
  BY <1>1, <1>9
<1>13. /\ Advance(r, s) \in Results /\ Advance(r, s).p = u /\ Advance(r, s).data = d
       /\ Advance(r, s).fin = f
  BY <1>1, <1>8, <1>11, <1>12 DEF Results
<1> QED BY <1>8, <1>9, <1>10, <1>13 DEF t

\* What has been taken in, up to position n: the bytes from position a on, and
\* the FIN if n is behind it.  The right edge hi does not move.
Taken(r, p, a, n, hi) ==
    /\ r \in Results /\ a \in Int /\ n \in Int /\ hi \in Int /\ a <= n
    /\ Window(r.p, n, hi - n)
    /\ QueueOK(r.p.ooseq, n, hi)
    /\ r.p.refused = p.refused /\ r.p.refusedFin = p.refusedFin /\ r.p.closeWait = p.closeWait
    /\ r.fin => n = StreamLen + 1 /\ r.p.ooseq = <<>> /\ r.data = Bytes(a, StreamLen)
    /\ ~r.fin => n <= StreamLen /\ r.data = Bytes(a, n)

IsTaken(r, p, a, hi) == \E n \in Int : Taken(r, p, a, n, hi)

\* The head of the queue is not what comes next.
Stuck(r) == r.p.ooseq = <<>> \/ Head(r.p.ooseq).seqno # r.p.rcv_nxt

\* Advance over a segment that comes next.
LEMMA AdvanceTaken ==
  ASSUME NEW r \in Results, NEW p, NEW a \in Int, NEW n, NEW hi \in Int, a <= n,
         Edges(r.p, n, hi - n), ~r.fin, r.data = Bytes(a, n),
         r.p.refused = p.refused, r.p.refusedFin = p.refusedFin, r.p.closeWait = p.closeWait,
         NEW s, SegIn(s, n, hi), Pos(s) = n,
         s.fin => r.p.ooseq = <<>>, QueueOK(r.p.ooseq, n + TcpLen(s), hi)
  PROVE  Taken(Advance(r, s), p, a, n + TcpLen(s), hi) /\ Advance(r, s).p.ooseq = r.p.ooseq
<1> DEFINE t == TcpLen(s)
           x == Advance(r, s)
<1>1. SegOK(s) /\ n + t <= hi
  BY DEF SegIn
<1>2. /\ t \in Int /\ 1 <= t /\ End(s) \in Int /\ End(s) = n + Len(s.data) /\ Len(s.data) \in Int
      /\ 0 <= Len(s.data) /\ End(s) <= StreamLen /\ n \in Int
      /\ s.fin => t = Len(s.data) + 1 /\ End(s) = StreamLen
      /\ ~s.fin => t = Len(s.data)
  BY <1>1, SegNums
<1> HIDE DEF t
<1>3. t <= hi - n /\ n + t <= StreamLen + 1 /\ StreamLen \in Int /\ a <= n + t
  <2>1. t <= Len(s.data) + 1
    BY <1>2
  <2>2. End(s) = n + Len(s.data) /\ End(s) <= StreamLen /\ StreamLen \in Nat
    BY <1>2, Constants
  <2> HIDE DEF End
  <2> QED BY <1>1, <1>2, <2>1, <2>2, SMTT(30)
<1>4. /\ x \in Results /\ Window(x.p, n + t, hi - n - t) /\ Keeps(r.p, x.p)
      /\ x.data = r.data \o s.data /\ x.fin = (r.fin \/ s.fin)
  BY <1>1, <1>3, AdvanceOK DEF t
<1> HIDE DEF x
<1>5. r.data \o s.data = Bytes(a, End(s))
  <2>1. s.data = Bytes(n, End(s))
    BY <1>1, SegBytes
  <2>2. n <= End(s) /\ End(s) \in Int
    <3> HIDE DEF End
    <3> QED BY <1>2
  <2>3. n \in Int /\ a \in Int /\ a <= n
    BY <1>2
  <2>4. Bytes(a, n) \o Bytes(n, End(s)) = Bytes(a, End(s))
    <3> HIDE DEF End
    <3> QED BY <2>2, <2>3, BytesCat
  <2> QED BY <2>1, <2>4
<1>6. x.fin <=> s.fin
  BY <1>4
<1>7. s.fin => n + t = StreamLen + 1
  <2> HIDE DEF End
  <2> QED BY <1>2, Constants
<1>8. ~s.fin => n + t = End(s) /\ n + t <= StreamLen
  <2> HIDE DEF End
  <2> QED BY <1>2
<1>9. hi - n - t = hi - (n + t) /\ n + t \in Int
  BY <1>2
<1>10. QueueOK(r.p.ooseq, n + t, hi)
  BY DEF t
<1>11. Taken(x, p, a, n + t, hi)
  <2>1. s.fin => x.data = Bytes(a, StreamLen)
    BY <1>2, <1>4, <1>5
  <2>2. ~s.fin => x.data = Bytes(a, n + t)
    BY <1>4, <1>5, <1>8
  <2>3. x.p.ooseq = r.p.ooseq /\ x.p.refused = p.refused /\ x.p.refusedFin = p.refusedFin
        /\ x.p.closeWait = p.closeWait
    BY <1>4 DEF Keeps
  <2> QED BY <1>3, <1>4, <1>6, <1>7, <1>8, <1>9, <1>10, <2>1, <2>2, <2>3 DEF Taken
<1> QED BY <1>4, <1>11 DEF x, t, Keeps

LEMMA TakeHeadOK ==
  ASSUME NEW r, NEW p, NEW a, NEW n, NEW hi, Taken(r, p, a, n, hi)
  PROVE  /\ IsTaken(TakeHead(r), p, a, hi)
         /\ Stuck(r) => TakeHead(r) = r
         /\ ~Stuck(r) => Len(TakeHead(r).p.ooseq) = Len(r.p.ooseq) - 1
<1> DEFINE q == r.p.ooseq
           s == Head(q)
           x == [r EXCEPT !.p.ooseq = Tail(@)]
<1>0. /\ r \in Results /\ a \in Int /\ n \in Int /\ hi \in Int /\ a <= n
      /\ Window(r.p, n, hi - n) /\ QueueOK(q, n, hi)
      /\ r.p.refused = p.refused /\ r.p.refusedFin = p.refusedFin /\ r.p.closeWait = p.closeWait
      /\ r.fin => q = <<>>
      /\ ~r.fin => r.data = Bytes(a, n)
  BY DEF Taken
<1>1. q \in Seq(SegSet)
  BY <1>0 DEF QueueOK
<1>2. CASE Stuck(r)
  <2>1. TakeHead(r) = r
    BY <1>2, Zenon DEF TakeHead, Stuck
  <2>2. IsTaken(r, p, a, hi)
    BY <1>0 DEF IsTaken
  <2> QED BY <1>2, <2>1, <2>2
<1>3. CASE ~Stuck(r)
  <2>1. q # <<>> /\ s.seqno = r.p.rcv_nxt
    BY <1>3 DEF Stuck
  <2>2. TakeHead(r) = Advance(x, s)
    BY <2>1, Zenon DEF TakeHead
  <2>3. /\ s = q[1] /\ 1 \in 1 .. Len(q) /\ Tail(q) \in Seq(SegSet) /\ Len(Tail(q)) = Len(q) - 1
        /\ \A i \in 1 .. Len(Tail(q)) : Tail(q)[i] = q[i + 1] /\ i + 1 \in 1 .. Len(q)
        /\ Len(q) \in Nat
    BY <1>1, <2>1, HeadTailProperties
  <2>4. SegIn(s, n, hi) /\ SegOK(s)
    BY <1>0, <2>3, QueueIs
  <2>5. ~r.fin /\ r.data = Bytes(a, n)
    BY <1>0, <2>1
  <2> HIDE DEF s
  <2>6. Pos(s) = n
    <3>1. s.seqno = At(Pos(s)) /\ Pos(s) \in 0 .. StreamLen
      BY <2>4, SegIs
    <3>2. Pos(s) \in Position
      <4> HIDE DEF Pos
      <4> QED BY <3>1, Constants DEF Position
    <3>3. r.p.rcv_nxt = At(n) /\ n \in Position
      <4>1. Edges(r.p, n, hi - n)
        BY <1>0 DEF Window
      <4>2. r.p.rcv_nxt = At(n)
        BY <4>1 DEF Edges
      <4> QED BY <4>1, <4>2, EdgesAre
    <3> QED BY <2>1, <3>1, <3>2, <3>3, InOrder
  <2>7. /\ x \in Results /\ x.p = [r.p EXCEPT !.ooseq = Tail(q)]
        /\ x.data = r.data /\ x.fin = r.fin
    <3>1. r.p \in Pcbs
      BY <1>0 DEF Results
    <3>2. PICK y : y = [r.p EXCEPT !.ooseq = Tail(q)]
      OBVIOUS
    <3>3. y \in Pcbs
      BY <2>3, <3>1, <3>2 DEF Pcbs
    <3>4. x = [r EXCEPT !.p = y]
      BY <1>0, <3>2 DEF Results
    <3> QED BY <1>0, <3>2, <3>3, <3>4 DEF Results
  <2> HIDE DEF x
  <2>8. /\ x.p.ooseq = Tail(q) /\ x.p.refused = p.refused /\ x.p.refusedFin = p.refusedFin
        /\ x.p.closeWait = p.closeWait /\ Edges(x.p, n, hi - n)
    <3>1. r.p \in Pcbs /\ Edges(r.p, n, hi - n)
      BY <1>0 DEF Results, Window
    <3>2. /\ x.p \in Pcbs /\ x.p.ooseq = Tail(q) /\ x.p.refused = r.p.refused
          /\ x.p.refusedFin = r.p.refusedFin /\ x.p.closeWait = r.p.closeWait
          /\ x.p.rcv_nxt = r.p.rcv_nxt /\ x.p.rcv_wnd = r.p.rcv_wnd
          /\ x.p.rcv_ann_right_edge = r.p.rcv_ann_right_edge
      <4>1. x.p \in Pcbs
        BY <2>7 DEF Results
      <4> QED BY <2>7, <3>1, <4>1 DEF Pcbs
    <3>3. Edges(x.p, n, hi - n)
      BY <3>1, <3>2 DEF Edges
    <3> QED BY <1>0, <3>2, <3>3
  <2>9. \A i \in 1 .. Len(Tail(q)) : /\ Behind(s, Tail(q)[i]) /\ SegIn(Tail(q)[i], n, hi)
    <3> SUFFICES ASSUME NEW i \in 1 .. Len(Tail(q))
                 PROVE  Behind(s, Tail(q)[i]) /\ SegIn(Tail(q)[i], n, hi)
      OBVIOUS
    <3>1. 1 < i + 1 /\ i + 1 \in 1 .. Len(q) /\ Tail(q)[i] = q[i + 1] /\ 1 \in 1 .. Len(q)
      BY <2>3
    <3> QED BY <1>0, <2>3, <3>1 DEF QueueOK
  <2>10. s.fin => Tail(q) = <<>>
    <3> SUFFICES ASSUME s.fin, Tail(q) # <<>> PROVE FALSE
      OBVIOUS
    <3>1. 1 \in 1 .. Len(Tail(q))
      <4>1. \A y \in Seq(SegSet) : y # <<>> => 1 \in 1 .. Len(y)
        OBVIOUS
      <4> QED BY <2>3, <4>1
    <3> QED BY <2>9, <3>1 DEF Behind
  <2>11. QueueOK(Tail(q), n + TcpLen(s), hi)
    <3> DEFINE m == Len(Tail(q))
    <3>1. \A i \in 1 .. m, j \in 1 .. m : i < j => Behind(Tail(q)[i], Tail(q)[j])
      <4> SUFFICES ASSUME NEW i \in 1 .. m, NEW j \in 1 .. m, i < j
                   PROVE  Behind(Tail(q)[i], Tail(q)[j])
        OBVIOUS
      <4>1. i + 1 < j + 1 /\ Tail(q)[i] = q[i + 1] /\ i + 1 \in 1 .. Len(q)
            /\ Tail(q)[j] = q[j + 1] /\ j + 1 \in 1 .. Len(q)
        BY <2>3
      <4> QED BY <1>0, <4>1 DEF QueueOK
    <3>2. ASSUME NEW i \in 1 .. m PROVE SegIn(Tail(q)[i], n + TcpLen(s), hi)
      <4>1. ~s.fin /\ End(s) <= Pos(Tail(q)[i]) /\ SegIn(Tail(q)[i], n, hi)
        BY <2>9 DEF Behind
      <4>2. End(s) = n + TcpLen(s)
        BY <2>4, <2>6, <4>1, SegNums
      <4> QED BY <4>1, <4>2 DEF SegIn
    <3> HIDE DEF m
    <3> QED BY <2>3, <3>1, <3>2 DEF QueueOK, m
  <2>12. /\ Taken(Advance(x, s), p, a, n + TcpLen(s), hi)
         /\ Advance(x, s).p.ooseq = Tail(q)
    <3>1. s.fin => x.p.ooseq = <<>>
      BY <2>8, <2>10
    <3>2. QueueOK(x.p.ooseq, n + TcpLen(s), hi)
      BY <2>8, <2>11
    <3>3. Taken(Advance(x, s), p, a, n + TcpLen(s), hi) /\ Advance(x, s).p.ooseq = x.p.ooseq
      <4>1. /\ x \in Results /\ a \in Int /\ hi \in Int /\ a <= n
            /\ Edges(x.p, n, hi - n) /\ ~x.fin /\ x.data = Bytes(a, n)
            /\ x.p.refused = p.refused /\ x.p.refusedFin = p.refusedFin /\ x.p.closeWait = p.closeWait
            /\ SegIn(s, n, hi) /\ Pos(s) = n
        BY <1>0, <2>4, <2>5, <2>6, <2>7, <2>8
      <4> QED BY <3>1, <3>2, <4>1, AdvanceTaken
    <3> QED BY <2>8, <3>3
  <2>13. n + TcpLen(s) \in Int
    BY <1>0, <2>4, SegNums
  <2> QED BY <1>3, <2>2, <2>3, <2>12, <2>13 DEF IsTaken
<1> QED BY <1>2, <1>3

\* The loop ends with a queue whose head is not what comes next.
LEMMA EmptyQueueOK ==
  ASSUME NEW r, NEW p, NEW a, NEW hi, IsTaken(r, p, a, hi)
  PROVE  IsTaken(EmptyQueue(r), p, a, hi) /\ Stuck(EmptyQueue(r))
<1> DEFINE L == Len(r.p.ooseq)
           S == {x \in Results : IsTaken(x, p, a, hi)}
           Is(f) == f = [i \in 0 .. L |-> IF i = 0 THEN r ELSE TakeHead(f[i - 1])]
           step == [i \in 1 .. L |-> [x \in S |-> TakeHead(x)]]
<1>1. \A x : IsTaken(x, p, a, hi) => x \in S /\ Len(x.p.ooseq) \in Nat
  <2> SUFFICES ASSUME NEW x, IsTaken(x, p, a, hi) PROVE x \in Results /\ Len(x.p.ooseq) \in Nat
    OBVIOUS
  <2>1. PICK n \in Int : Taken(x, p, a, n, hi)
    BY DEF IsTaken
  <2>2. x \in Results /\ QueueOK(x.p.ooseq, n, hi)
    BY <2>1 DEF Taken
  <2>3. x.p.ooseq \in Seq(SegSet)
    BY <2>2 DEF QueueOK
  <2> QED BY <2>2, <2>3
<1>2. L \in Nat /\ r \in S
  BY <1>1
<1>3. \A x \in S : /\ TakeHead(x) \in S
                   /\ Stuck(x) => TakeHead(x) = x
                   /\ ~Stuck(x) => Len(TakeHead(x).p.ooseq) = Len(x.p.ooseq) - 1
  <2> SUFFICES ASSUME NEW x \in S
               PROVE  /\ TakeHead(x) \in S
                      /\ Stuck(x) => TakeHead(x) = x
                      /\ ~Stuck(x) => Len(TakeHead(x).p.ooseq) = Len(x.p.ooseq) - 1
    OBVIOUS
  <2>1. PICK n \in Int : Taken(x, p, a, n, hi)
    BY DEF IsTaken
  <2>2. /\ IsTaken(TakeHead(x), p, a, hi)
        /\ Stuck(x) => TakeHead(x) = x
        /\ ~Stuck(x) => Len(TakeHead(x).p.ooseq) = Len(x.p.ooseq) - 1
    BY <2>1, TakeHeadOK
  <2> HIDE DEF S
  <2> QED BY <1>1, <2>2
<1> HIDE DEF S
<1>4. PICK f : IsRecursive(f, L, S, r, step)
  <2>1. IsStep(L, S, step)
    BY <1>3 DEF IsStep
  <2> HIDE DEF step, L
  <2> QED BY <1>2, <2>1, FiniteRecursion
<1>5. \A i \in 1 .. L : f[i] = TakeHead(f[i - 1]) /\ f[i - 1] \in S
  <2>1. \A i \in 1 .. L : i - 1 \in 0 .. L
    BY <1>2
  <2>2. \A i \in 1 .. L : f[i - 1] \in S
    BY <1>4, <2>1 DEF IsRecursive
  <2> QED BY <1>4, <2>2 DEF IsRecursive
<1>6. Is(f)
  <2>1. f = [i \in 0 .. L |-> f[i]]
    BY <1>4 DEF IsRecursive
  <2>2. ASSUME NEW i \in 0 .. L
        PROVE  f[i] = IF i = 0 THEN r ELSE TakeHead(f[i - 1])
    <3>1. i = 0 \/ (i # 0 /\ i \in 1 .. L)
      BY <1>2
    <3> HIDE DEF L, step
    <3> QED BY <3>1, <1>4, <1>5, Zenon DEF IsRecursive
  <2> QED BY <2>1, <2>2, Zenon
<1> DEFINE g == CHOOSE k : Is(k)
<1>7. Is(g)
  BY <1>6, Zenon
<1>8. EmptyQueue(r) = g[L]
  BY Zenon DEF EmptyQueue
<1>9. g[0] = r /\ \A i \in 1 .. L : g[i] = TakeHead(g[i - 1])
  <2>1. 0 \in 0 .. L /\ \A i \in 1 .. L : i \in 0 .. L /\ i # 0
    BY <1>2
  <2> HIDE DEF g, L
  <2> QED BY <1>7, <2>1, Zenon
<1> HIDE DEF g, step, L
\* After i turns, the loop is stuck or has taken i segments.
<1> DEFINE Good(i) == g[i] \in S /\ (Stuck(g[i]) \/ Len(g[i].p.ooseq) = L - i)
           holds == {i \in 0 .. L : Good(i)}
<1>10. Good(0)
  BY <1>2, <1>9 DEF L
<1>11. ASSUME NEW i \in 1 .. L, Good(i - 1) PROVE Good(i)
  <2>1. g[i] = TakeHead(g[i - 1]) /\ g[i - 1] \in S /\ g[i] \in S
    BY <1>3, <1>9, <1>11
  <2>2. CASE Stuck(g[i - 1])
    <3>1. Stuck(g[i])
      BY <1>3, <2>1, <2>2
    <3> QED BY <2>1, <3>1
  <2>3. CASE ~Stuck(g[i - 1])
    <3>1. Len(g[i].p.ooseq) = Len(g[i - 1].p.ooseq) - 1
      BY <1>3, <2>1, <2>3
    <3>2. Len(g[i - 1].p.ooseq) = L - (i - 1)
      BY <1>11, <2>3
    <3>3. L - (i - 1) - 1 = L - i
      BY <1>2
    <3> QED BY <2>1, <3>1, <3>2, <3>3
  <2> QED BY <2>2, <2>3
<1>12. 0 \in holds /\ \A i \in 1 .. L : i - 1 \in holds => i \in holds
  <2>1. 0 \in 0 .. L /\ \A i \in 1 .. L : i \in 0 .. L
    BY <1>2
  <2> HIDE DEF Good
  <2> QED BY <1>10, <1>11, <2>1
<1>13. Good(L)
  <2>1. L \in 0 .. L
    BY <1>2
  <2>2. L \in holds
    <3> HIDE DEF holds
    <3> QED BY <1>2, <1>12, <2>1, Induction
  <2> QED BY <2>2
<1>14. IsTaken(g[L], p, a, hi) /\ g[L] \in Results
  BY <1>13 DEF S
<1>15. Stuck(g[L])
  <2>1. CASE Len(g[L].p.ooseq) = L - L
    <3>1. PICK n \in Int : Taken(g[L], p, a, n, hi)
      BY <1>14 DEF IsTaken
    <3>2. g[L].p.ooseq \in Seq(SegSet)
      BY <3>1 DEF Taken, QueueOK
    <3>3. g[L].p.ooseq = <<>>
      BY <1>2, <2>1, <3>2
    <3> QED BY <3>3 DEF Stuck
  <2> QED BY <1>13, <2>1
<1> QED BY <1>8, <1>14, <1>15

LEMMA SetQueue ==
  ASSUME NEW p, NEW n, NEW w, Window(p, n, w), NEW q \in Seq(SegSet)
  PROVE  /\ Window([p EXCEPT !.ooseq = q], n, w) /\ [p EXCEPT !.ooseq = q] \in Pcbs
         /\ [p EXCEPT !.ooseq = q].ooseq = q
         /\ [p EXCEPT !.ooseq = q].refused = p.refused
         /\ [p EXCEPT !.ooseq = q].refusedFin = p.refusedFin
         /\ [p EXCEPT !.ooseq = q].closeWait = p.closeWait
<1> DEFINE x == [p EXCEPT !.ooseq = q]
<1>1. p \in Pcbs
  BY DEF Window, Edges
<1>2. /\ x \in Pcbs /\ x.ooseq = q /\ x.refused = p.refused /\ x.refusedFin = p.refusedFin
      /\ x.closeWait = p.closeWait /\ x.rcv_nxt = p.rcv_nxt /\ x.rcv_wnd = p.rcv_wnd
      /\ x.rcv_ann_wnd = p.rcv_ann_wnd /\ x.rcv_ann_right_edge = p.rcv_ann_right_edge
  BY <1>1 DEF Pcbs
<1> HIDE DEF x
<1>3. Window(x, n, w)
  BY <1>2 DEF Window, Edges
<1> QED BY <1>2, <1>3 DEF x

LEMMA SetFlags ==
  ASSUME NEW p, NEW n, NEW w, Window(p, n, w), NEW x \in BOOLEAN, NEW y \in BOOLEAN,
         NEW r, r = [p EXCEPT !.delayAck = x, !.ackNow = y]
  PROVE  Window(r, n, w) /\ Keeps(p, r) /\ r \in Pcbs
<1>1. p \in Pcbs
  BY DEF Window, Edges
<1>2. /\ r \in Pcbs /\ r.ooseq = p.ooseq /\ r.refused = p.refused /\ r.refusedFin = p.refusedFin
      /\ r.closeWait = p.closeWait /\ r.rcv_nxt = p.rcv_nxt /\ r.rcv_wnd = p.rcv_wnd
      /\ r.rcv_ann_wnd = p.rcv_ann_wnd /\ r.rcv_ann_right_edge = p.rcv_ann_right_edge
  BY <1>1 DEF Pcbs
<1> QED BY <1>2 DEF Window, Edges, Keeps

LEMMA AckOK ==
  ASSUME NEW p, NEW n, NEW w, Window(p, n, w)
  PROVE  /\ Window(tcp_ack(p), n, w) /\ Keeps(p, tcp_ack(p)) /\ tcp_ack(p) \in Pcbs
         /\ Window(tcp_ack_now(p), n, w) /\ Keeps(p, tcp_ack_now(p)) /\ tcp_ack_now(p) \in Pcbs
<1>1. p \in Pcbs
  BY DEF Window, Edges
<1>2. PICK x \in BOOLEAN, y \in BOOLEAN : tcp_ack(p) = [p EXCEPT !.delayAck = x, !.ackNow = y]
  <2>1. p = [p EXCEPT !.ackNow = p.ackNow] /\ p.ackNow \in BOOLEAN
    BY <1>1 DEF Pcbs
  <2>2. [p EXCEPT !.delayAck = TRUE] = [p EXCEPT !.delayAck = TRUE, !.ackNow = p.ackNow]
    BY <1>1 DEF Pcbs
  <2> QED BY <2>1, <2>2 DEF tcp_ack
<1>3. tcp_ack_now(p) = [p EXCEPT !.delayAck = p.delayAck, !.ackNow = TRUE] /\ p.delayAck \in BOOLEAN
  BY <1>1 DEF Pcbs, tcp_ack_now
<1> QED BY <1>2, <1>3, SetFlags

\* All the data up to what is missing next: the rest of the queue is behind it.
Received(r, p, a, n, hi) == Taken(r, p, a, n, hi) /\ QueueOK(r.p.ooseq, n + 1, hi)

IsReceived(r, p, a, hi) == \E n \in Int : Received(r, p, a, n, hi)

LEMMA StuckBehind ==
  ASSUME NEW r, NEW p, NEW a, NEW n, NEW hi, Taken(r, p, a, n, hi), Stuck(r)
  PROVE  Received(r, p, a, n, hi)
<1> DEFINE q == r.p.ooseq
<1>1. n \in Int /\ Window(r.p, n, hi - n) /\ QueueOK(q, n, hi) /\ q \in Seq(SegSet) /\ Len(q) \in Nat
  BY SMTT(30) DEF Taken, QueueOK
<1>2. CASE q = <<>>
  BY <1>2, QueueEmpty DEF Received
<1>3. CASE q # <<>>
  <2>1. 1 \in 1 .. Len(q) /\ Head(q) = q[1] /\ q[1].seqno # r.p.rcv_nxt
    BY <1>1, <1>3 DEF Stuck
  <2>2. SegIn(q[1], n, hi) /\ SegOK(q[1])
    BY <1>1, <2>1, QueueIs
  <2>3. Pos(q[1]) \in Int /\ End(q[1]) \in Int /\ n <= Pos(q[1]) /\ Pos(q[1]) <= End(q[1])
    <3>1. Pos(q[1]) \in Int /\ End(q[1]) = Pos(q[1]) + Len(q[1].data) /\ End(q[1]) \in Int
          /\ 0 <= Len(q[1].data) /\ Len(q[1].data) \in Int
      BY <2>2, SegNums
    <3>2. n <= Pos(q[1])
      BY <2>2 DEF SegIn
    <3> HIDE DEF Pos, End, q
    <3> QED BY <3>1, <3>2
  <2>4. Pos(q[1]) # n
    <3>1. q[1].seqno = At(Pos(q[1]))
      BY <2>2, SegIs
    <3>2. r.p.rcv_nxt = At(n)
      BY <1>1 DEF Window, Edges
    <3> QED BY <2>1, <3>1, <3>2
  <2>5. ASSUME NEW i \in 1 .. Len(q) PROVE n + 1 <= Pos(q[i]) /\ Pos(q[i]) + TcpLen(q[i]) <= hi
    <3>1. SegIn(q[i], n, hi) /\ SegOK(q[i])
      BY <1>1, QueueIs
    <3>2. Pos(q[i]) \in Int
      BY <3>1, SegNums
    <3>3. i = 1 \/ 1 < i
      BY <1>1
    <3>4. 1 < i => End(q[1]) <= Pos(q[i])
      BY <1>1, <2>1 DEF QueueOK, Behind
    <3>5. n + 1 <= Pos(q[i])
      <4> HIDE DEF Pos, End, q
      <4>1. CASE i = 1
        BY <1>1, <2>3, <2>4, <4>1
      <4>2. CASE 1 < i
        BY <1>1, <2>3, <2>4, <3>2, <3>4, <4>2
      <4> QED BY <3>3, <4>1, <4>2
    <3> QED BY <3>1, <3>5 DEF SegIn
  <2>6. QueueOK(q, n + 1, hi)
    <3> HIDE DEF q
    <3> QED BY <1>1, <2>5, QueueFrom
  <2> QED BY <2>6 DEF Received
<1> QED BY <1>2, <1>3

\* The acknowledgement that follows changes none of it.
LEMMA ReceivedAck ==
  ASSUME NEW r, NEW p, NEW a, NEW n, NEW hi, Received(r, p, a, n, hi)
  PROVE  Received([r EXCEPT !.p = tcp_ack(@)], p, a, n, hi)
<1> DEFINE q == tcp_ack(r.p)
           x == [r EXCEPT !.p = tcp_ack(@)]
<1>1. Window(r.p, n, hi - n) /\ r \in Results
  BY DEF Received, Taken
<1>2. Window(q, n, hi - n) /\ Keeps(r.p, q) /\ q \in Pcbs
  BY <1>1, AckOK
<1>3. x = [r EXCEPT !.p = q]
  OBVIOUS
<1> HIDE DEF q, x
<1>4. x \in Results /\ x.p = q /\ x.data = r.data /\ x.fin = r.fin
  BY <1>1, <1>2, <1>3 DEF Results
<1>5. Received(x, p, a, n, hi)
  BY <1>2, <1>4 DEF Received, Taken, Keeps
<1> QED BY <1>5 DEF x

\* A segment in sequence, in front of the queue.
LEMMA InSequenceOK ==
  ASSUME NEW p, NEW n, NEW w, Window(p, n, w), n <= StreamLen,
         QueueOK(p.ooseq, n + 1, n + w), NEW s, SegIn(s, n, n + w), Pos(s) = n
  PROVE  IsReceived(InSequence(p, s), p, n, n + w)
<1> DEFINE hi == n + w
           q == p.ooseq
           k == Covered(q, Plus(s.seqno, TcpLen(s)))
           rest == SubSeq(q, k + 1, Len(q))
           whole == Whole(s, q, k)
           cut == IF rest # <<>> /\ SeqGT(Plus(s.seqno, TcpLen(whole)), Head(rest).seqno)
                  THEN CutAt(whole, Head(rest).seqno) ELSE whole
           Base(y) == [p |-> [p EXCEPT !.ooseq = y], data |-> <<>>, fin |-> FALSE, sent |-> FALSE]
           first == IF s.fin THEN Advance(Base(<<>>), s) ELSE Advance(Base(rest), cut)
<1>0. /\ p \in Pcbs /\ Edges(p, n, w) /\ n \in 0 .. (StreamLen + 1) /\ w \in 0 .. WndMax
      /\ p.rcv_nxt = At(n) /\ p.rcv_wnd = w /\ n \in Int /\ hi \in Int /\ hi - n = w /\ n <= n
      /\ w \in Int /\ n + 1 \in Int
  <2>1. /\ p \in Pcbs /\ Edges(p, n, w) /\ n \in 0 .. (StreamLen + 1) /\ w \in 0 .. WndMax
        /\ p.rcv_nxt = At(n) /\ p.rcv_wnd = w
    BY DEF Window, Edges
  <2> QED BY <2>1, EdgesAre
<1>1. TrimToWindow(p, s) = s
  BY <1>0, InWindow
<1>2. InSequence(p, s) = [EmptyQueue(first) EXCEPT !.p = tcp_ack(@)]
  BY <1>1 DEF InSequence, Whole
<1>3. SegOK(s) /\ s.seqno = At(n) /\ s.fin \in BOOLEAN /\ End(s) \in Int /\ TcpLen(s) \in Int
      /\ End(s) = n + Len(s.data) /\ Len(s.data) \in Int
  BY SegIs, SegNums DEF SegIn, SegOK, SegSet
<1>4. q \in Seq(SegSet) /\ Len(q) \in Nat
  BY DEF QueueOK
<1>5. ASSUME NEW y \in Seq(SegSet), NEW t, SegIn(t, n, hi), Pos(t) = n, t.fin => y = <<>>,
             QueueOK(y, n + TcpLen(t), hi)
      PROVE  IsTaken(Advance(Base(y), t), p, n, hi)
  <2> DEFINE b == Base(y)
  <2>1. /\ Window(b.p, n, w) /\ b.p \in Pcbs /\ b.p.ooseq = y /\ b.p.refused = p.refused
        /\ b.p.refusedFin = p.refusedFin /\ b.p.closeWait = p.closeWait
    BY SetQueue
  <2>2. b \in Results /\ ~b.fin /\ b.data = <<>>
    BY <2>1 DEF Results
  <2>3. <<>> = Bytes(n, n)
    BY <1>0, BytesNone
  <2>4. Edges(b.p, n, hi - n)
    BY <1>0, <2>1 DEF Window
  <2>5. n + TcpLen(t) \in Int
    BY <1>0, <1>5, SegNums DEF SegIn
  <2> HIDE DEF b
  <2>6. Taken(Advance(b, t), p, n, n + TcpLen(t), hi)
    <3> HIDE DEF hi
    <3> QED BY <1>0, <1>5, <2>1, <2>2, <2>3, <2>4, AdvanceTaken
  <2> QED BY <2>5, <2>6 DEF IsTaken, b
<1>6. IsTaken(first, p, n, hi)
  <2>1. CASE s.fin
    <3>1. QueueOK(<<>>, n + TcpLen(s), hi) /\ <<>> \in Seq(SegSet)
      BY QueueEmpty
    <3> HIDE DEF Base, hi
    <3>2. IsTaken(Advance(Base(<<>>), s), p, n, hi)
      BY <1>5, <3>1 DEF hi
    <3> QED BY <2>1, <3>2
  <2>2. CASE ~s.fin
    <3>1. Plus(s.seqno, TcpLen(s)) = At(End(s)) /\ End(s) \in 0 .. (StreamLen + 1)
      <4>1. TcpLen(s) = Len(s.data) /\ Plus(s.seqno, TcpLen(s)) = At(Pos(s) + TcpLen(s))
        BY <1>3, <2>2, SegNums, SegIs
      <4>2. End(s) \in 0 .. StreamLen
        BY <1>3, SegIs
      <4> HIDE DEF End, Pos, TcpLen
      <4> QED BY <1>3, <4>1, <4>2, Constants
    <3>2. k \in 0 .. Len(q) /\ \A i \in 1 .. k : End(q[i]) <= End(s)
      <4> HIDE DEF q
      <4> QED BY <3>1, CoveredIs DEF q
    <3> HIDE DEF k
    <3>3. /\ SegIn(whole, n, hi) /\ Pos(whole) = n /\ End(whole) = End(s) /\ whole.seqno = s.seqno
          /\ k < Len(q) => ~whole.fin
      <4> HIDE DEF q, hi
      <4> QED BY <1>0, <2>2, <3>2, WholeIs DEF q, hi
    <3>4. /\ QueueOK(rest, n + 1, hi) /\ Len(rest) = Len(q) - k /\ rest \in Seq(SegSet)
      <4>1. k + 1 \in 1 .. (Len(q) + 1) /\ Len(q) \in 0 .. Len(q) /\ k + 1 <= Len(q) + 1
            /\ Len(q) - (k + 1) + 1 = Len(q) - k
        BY <1>4, <3>2
      <4> HIDE DEF q, hi
      <4>2. QueueOK(rest, n + 1, hi) /\ Len(rest) = Len(q) - (k + 1) + 1
        BY <4>1, QueueSub DEF q, hi
      <4> QED BY <4>1, <4>2 DEF QueueOK
    <3> HIDE DEF rest, whole
    <3>5. SegOK(whole) /\ TcpLen(whole) \in Int
      BY <3>3, SegNums DEF SegIn
    <3>6. CASE rest = <<>>
      <4>1. cut = whole
        BY <3>6
      <4>2. QueueOK(rest, n + TcpLen(whole), hi)
        BY <3>6, QueueEmpty
      <4> HIDE DEF cut, Base, hi
      <4>3. IsTaken(Advance(Base(rest), cut), p, n, hi)
        BY <1>5, <3>3, <3>4, <3>6, <4>1, <4>2 DEF hi
      <4> QED BY <2>2, <4>3
    <3>7. CASE rest # <<>>
      <4> DEFINE h == Head(rest)
      <4>1. h = rest[1] /\ 1 \in 1 .. Len(rest) /\ Len(rest) \in Nat /\ ~whole.fin
        <5>1. h = rest[1] /\ Len(rest) \in Nat /\ Len(rest) # 0
          BY <3>4, <3>7
        <5>2. k < Len(q) /\ 1 \in 1 .. Len(rest)
          <6> HIDE DEF q
          <6> QED BY <1>4, <3>2, <3>4, <5>1
        <5> QED BY <3>3, <5>1, <5>2
      <4>2. SegIn(h, n + 1, hi) /\ SegOK(h)
        BY <3>4, <4>1, QueueIs
      <4>3. h.seqno = At(Pos(h)) /\ Pos(h) \in Int /\ n < Pos(h) /\ Pos(h) \in Position
        <5>1. h.seqno = At(Pos(h)) /\ Pos(h) \in Int /\ Pos(h) \in 0 .. StreamLen
          BY <4>2, SegIs, SegNums
        <5>2. n + 1 <= Pos(h)
          BY <4>2 DEF SegIn
        <5> HIDE DEF Pos, h
        <5> QED BY <1>0, <5>1, <5>2, Constants DEF Position
      <4> HIDE DEF h
      <4>4. Plus(s.seqno, TcpLen(whole)) = At(End(whole)) /\ End(whole) \in Position
            /\ End(whole) \in Int /\ End(whole) = n + TcpLen(whole)
        <5>1. End(whole) = Pos(whole) + Len(whole.data) /\ TcpLen(whole) = Len(whole.data)
              /\ End(whole) \in Int
          BY <3>5, <4>1, SegNums
        <5>2. Plus(whole.seqno, TcpLen(whole)) = At(Pos(whole) + TcpLen(whole))
              /\ End(whole) \in 0 .. StreamLen
          BY <3>5, SegIs
        <5> HIDE DEF Pos, End, TcpLen
        <5> QED BY <3>3, <5>1, <5>2, Constants DEF Position
      <4>5. SeqGT(Plus(s.seqno, TcpLen(whole)), h.seqno) <=> End(whole) > Pos(h)
        BY <4>3, <4>4, InOrder
      <4>6. /\ SegIn(cut, n, hi) /\ Pos(cut) = n /\ ~cut.fin /\ End(cut) <= Pos(h)
        <5>1. CASE End(whole) > Pos(h)
          <6>1. cut = CutAt(whole, At(Pos(h)))
            BY <3>7, <4>3, <4>5, <5>1 DEF h
          <6>2. Pos(whole) < Pos(h) /\ Pos(h) <= End(whole)
            BY <3>3, <4>3, <4>4, <5>1
          <6> HIDE DEF cut
          <6>3. SegOK(cut) /\ ~cut.fin /\ Pos(cut) = n /\ End(cut) = Pos(h)
            BY <3>3, <3>5, <4>1, <4>3, <6>1, <6>2, CutIs
          <6>4. End(cut) = Pos(cut) + TcpLen(cut) /\ TcpLen(cut) \in Int
            BY <6>3, SegNums
          <6>5. Pos(whole) + TcpLen(whole) <= hi
            BY <3>3 DEF SegIn
          <6>6. n <= Pos(cut) /\ Pos(cut) + TcpLen(cut) <= hi /\ End(cut) <= Pos(h)
            <7> HIDE DEF Pos, End, TcpLen, hi
            <7> QED BY <1>0, <3>3, <3>5, <4>3, <4>4, <5>1, <6>3, <6>4, <6>5
          <6> QED BY <6>3, <6>6 DEF SegIn
        <5>2. CASE ~(End(whole) > Pos(h))
          <6>1. cut = whole
            BY <4>5, <5>2 DEF h
          <6>2. End(whole) <= Pos(h)
            BY <4>3, <4>4, <5>2
          <6> QED BY <3>3, <4>1, <6>1, <6>2
        <5> QED BY <5>1, <5>2
      <4> HIDE DEF cut
      <4>7. End(cut) = n + TcpLen(cut) /\ End(cut) \in Int
        BY <4>6, SegNums DEF SegIn
      <4>8. QueueOK(rest, n + TcpLen(cut), hi)
        <5>1. ASSUME NEW i \in 1 .. Len(rest)
              PROVE  n + TcpLen(cut) <= Pos(rest[i]) /\ Pos(rest[i]) + TcpLen(rest[i]) <= hi
          <6>1. SegIn(rest[i], n + 1, hi) /\ SegOK(rest[i])
            BY <3>4, QueueIs
          <6>2. Pos(rest[i]) \in Int
            BY <6>1, SegNums
          <6>3. Pos(h) <= Pos(rest[i])
            <7>1. CASE i = 1
              BY <4>1, <4>3, <7>1
            <7>2. CASE i # 1
              <8>1. 1 < i
                BY <4>1, <7>2
              <8>2. End(h) <= Pos(rest[i])
                BY <3>4, <4>1, <8>1 DEF QueueOK, Behind
              <8>3. End(h) = Pos(h) + Len(h.data) /\ 0 <= Len(h.data) /\ Len(h.data) \in Int
                BY <4>2, SegNums
              <8> HIDE DEF Pos, End
              <8> QED BY <4>3, <6>2, <8>2, <8>3
            <7> QED BY <7>1, <7>2
          <6>4. n + TcpLen(cut) <= Pos(rest[i])
            <7> HIDE DEF Pos, End, TcpLen
            <7> QED BY <4>3, <4>6, <4>7, <6>2, <6>3
          <6> QED BY <6>1, <6>4 DEF SegIn
        <5> QED BY <3>4, <5>1, QueueFrom
      <4> HIDE DEF Base, hi
      <4>9. IsTaken(Advance(Base(rest), cut), p, n, hi)
        BY <1>5, <3>4, <4>6, <4>8 DEF hi
      <4> QED BY <2>2, <4>9
    <3> QED BY <3>6, <3>7
  <2> QED BY <1>3, <2>1, <2>2
<1> HIDE DEF first
<1>7. IsTaken(EmptyQueue(first), p, n, hi) /\ Stuck(EmptyQueue(first))
  BY <1>6, EmptyQueueOK
<1>8. PICK m \in Int : Received(EmptyQueue(first), p, n, m, hi)
  <2>1. PICK m \in Int : Taken(EmptyQueue(first), p, n, m, hi)
    BY <1>7 DEF IsTaken
  <2> QED BY <1>7, <2>1, StuckBehind
<1>9. Received(InSequence(p, s), p, n, m, hi)
  BY <1>2, <1>8, ReceivedAck
<1> QED BY <1>9 DEF IsReceived

\* What is left of a segment that starts too early ends where it did.
LEMMA TrimFrontOK ==
  ASSUME NEW p, NEW n \in 0 .. (StreamLen + 1), p.rcv_nxt = At(n), NEW s, SegOK(s)
  PROVE  /\ SegOK(TrimFront(p, s))
         /\ Pos(TrimFront(p, s)) + TcpLen(TrimFront(p, s)) = Pos(s) + TcpLen(s)
         /\ Pos(s) = n => TrimFront(p, s) = s
<1> DEFINE t == TcpLen(s)
           l == Len(s.data)
           x == TrimFront(p, s)
<1>1. /\ Pos(s) \in Int /\ t \in Int /\ l \in Int /\ 0 <= Pos(s) /\ Pos(s) <= StreamLen
      /\ 0 <= l /\ 1 <= t /\ End(s) = Pos(s) + l /\ End(s) <= StreamLen /\ End(s) \in Int
      /\ s.fin => t = l + 1 /\ End(s) = StreamLen
      /\ ~s.fin => t = l /\ l >= 1
  BY SegNums
<1>2. s.seqno = At(Pos(s)) /\ Plus(s.seqno, 1) = At(Pos(s) + 1) /\ Plus(s.seqno, t - 1) = At(Pos(s) + (t - 1))
  <2>1. s.seqno = At(Pos(s))
    BY SegIs
  <2>2. t - 1 \in Int
    BY <1>1
  <2>3. Pos(s) \in Int /\ 1 \in Int
    BY <1>1
  <2> HIDE DEF Pos, t
  <2>4. Plus(At(Pos(s)), 1) = At(Pos(s) + 1) /\ Plus(At(Pos(s)), t - 1) = At(Pos(s) + (t - 1))
    BY <2>2, <2>3, AtPlus
  <2> QED BY <2>1, <2>4
<1>3. t <= l + 1
  <2> HIDE DEF t, l, End, Pos
  <2> QED BY <1>1
<1>4. /\ n \in Int /\ n \in Position /\ Pos(s) + 1 \in Position /\ Pos(s) + (t - 1) \in Position
  <2> HIDE DEF t, l, End, Pos
  <2> QED BY <1>1, <1>3, Constants DEF Position
<1>5. SeqBetween(p.rcv_nxt, Plus(s.seqno, 1), Plus(s.seqno, t - 1))
        <=> Pos(s) + 1 <= n /\ n <= Pos(s) + (t - 1)
  <2>1. SeqGEQ(At(n), At(Pos(s) + 1)) <=> n >= Pos(s) + 1
    BY <1>4, InOrder
  <2>2. SeqLEQ(At(n), At(Pos(s) + (t - 1))) <=> n <= Pos(s) + (t - 1)
    BY <1>4, InOrder
  <2>3. n >= Pos(s) + 1 <=> Pos(s) + 1 <= n
    <3> HIDE DEF Pos
    <3> QED BY <1>1, <1>4
  <2> QED BY <1>2, <2>1, <2>2, <2>3, Zenon DEF SeqBetween
<1>6. CASE ~(Pos(s) + 1 <= n /\ n <= Pos(s) + (t - 1))
  <2>1. x = s
    BY <1>5, <1>6 DEF TrimFront
  <2> QED BY <2>1
<1>7. CASE Pos(s) + 1 <= n /\ n <= Pos(s) + (t - 1)
  <2> DEFINE g == n - Pos(s)
             d == SubSeq(s.data, g + 1, l)
  <2>1. Minus(p.rcv_nxt, s.seqno) = g
    <3>1. 0 <= g /\ g < SeqSpace
      <4> HIDE DEF Pos, t
      <4> QED BY <1>1, <1>4, <1>7, Constants
    <3> QED BY <1>1, <1>2, <1>4, <3>1, AtMinus
  <2>2. x = [s EXCEPT !.seqno = At(n), !.data = d]
    BY <1>5, <1>7, <2>1 DEF TrimFront
  <2>3. g \in Int /\ 1 <= g /\ g <= l /\ g + 1 \in Int
    <3> HIDE DEF Pos, t, l, End
    <3> QED BY <1>1, <1>3, <1>4, <1>7
  <2>4. s \in SegSet /\ s.data \in Seq(Int) /\ s.fin \in BOOLEAN
        /\ \A i \in 1 .. l : s.data[i] = Pos(s) + i
    BY DEF SegOK, SegSet
  <2> HIDE DEF g
  <2>5. d \in Seq(Int) /\ Len(d) = l - g /\ \A i \in 1 .. (l - g) : d[i] = s.data[g + i]
    <3>0. \A y \in Seq(Int) : \A i \in 1 .. (Len(y) + 1), j \in 0 .. Len(y) : i <= j + 1 =>
            /\ SubSeq(y, i, j) \in Seq(Int) /\ Len(SubSeq(y, i, j)) = j - i + 1
            /\ \A k \in 1 .. (j - i + 1) : SubSeq(y, i, j)[k] = y[i + k - 1]
      OBVIOUS
    <3>1. g + 1 \in 1 .. (l + 1) /\ l \in 0 .. l /\ g + 1 <= l + 1 /\ l - (g + 1) + 1 = l - g
      <4> HIDE DEF l
      <4> QED BY <1>1, <2>3
    <3>2. /\ d \in Seq(Int) /\ Len(d) = l - (g + 1) + 1
          /\ \A i \in 1 .. (l - (g + 1) + 1) : d[i] = s.data[g + 1 + i - 1]
      BY <2>4, <3>0, <3>1
    <3>3. \A i \in 1 .. (l - g) : g + 1 + i - 1 = g + i
      BY <2>3
    <3> HIDE DEF d, l
    <3> QED BY <3>1, <3>2, <3>3
  <2>6. At(n) \in 0 .. (SeqSpace - 1) /\ Offset(At(n)) = n
    <3>1. n < SeqSpace /\ 0 <= n
      BY Constants
    <3> QED BY <1>4, <3>1, AtIs, OffsetAt
  <2> HIDE DEF d
  <2>7. x \in SegSet /\ x.seqno = At(n) /\ x.data = d /\ x.fin = s.fin
    BY <2>2, <2>4, <2>5, <2>6 DEF SegSet
  <2> HIDE DEF x
  <2>8. Pos(x) = n /\ End(x) = End(s) /\ TcpLen(x) = t - g
    <3>1. Pos(x) = n /\ End(x) = n + (l - g)
      BY <2>5, <2>6, <2>7 DEF Pos, End
    <3>2. End(x) = End(s)
      <4>1. g = n - Pos(s)
        BY DEF g
      <4> HIDE DEF Pos, End, l
      <4> QED BY <1>1, <1>4, <2>3, <3>1, <4>1
    <3>3. TcpLen(x) = t - g
      <4>1. CASE s.fin
        <5>1. TcpLen(x) = l - g + 1 /\ t = l + 1
          BY <1>1, <2>5, <2>7, <4>1 DEF TcpLen
        <5> HIDE DEF t, l
        <5> QED BY <1>1, <2>3, <5>1
      <4>2. CASE ~s.fin
        <5>1. TcpLen(x) = l - g + 0 /\ t = l
          BY <1>1, <2>5, <2>7, <4>2 DEF TcpLen
        <5> HIDE DEF t, l
        <5> QED BY <1>1, <2>3, <5>1
      <4> QED BY <2>4, <4>1, <4>2
    <3> QED BY <3>1, <3>2, <3>3
  <2>9. SegOK(x)
    <3>1. Len(x.data) > 0 \/ x.fin
      <4> SUFFICES ASSUME ~s.fin PROVE l - g > 0
        BY <2>4, <2>5, <2>7
      <4>1. t = l
        BY <1>1
      <4>2. g = n - Pos(s)
        BY DEF g
      <4> HIDE DEF t, l, Pos
      <4> QED BY <1>1, <1>4, <1>7, <4>1, <4>2
    <3>2. \A i \in 1 .. Len(x.data) : x.data[i] = Pos(x) + i
      <4>1. ASSUME NEW i \in 1 .. (l - g) PROVE d[i] = n + i
        <5>1. g + i \in 1 .. l /\ d[i] = s.data[g + i]
          <6>1. d[i] = s.data[g + i]
            BY <2>5
          <6> HIDE DEF l
          <6> QED BY <1>1, <2>3, <6>1
        <5>2. d[i] = Pos(s) + (g + i)
          BY <2>4, <5>1
        <5>3. g = n - Pos(s)
          BY DEF g
        <5> HIDE DEF Pos
        <5> QED BY <1>1, <1>4, <5>2, <5>3
      <4> QED BY <2>5, <2>7, <2>8, <4>1
    <3>3. End(x) <= StreamLen /\ (x.fin => End(x) = StreamLen)
      BY <1>1, <2>7, <2>8
    <3> QED BY <2>7, <3>1, <3>2, <3>3 DEF SegOK
  <2>10. Pos(x) + TcpLen(x) = Pos(s) + t /\ Pos(s) # n
    <3>1. g = n - Pos(s)
      BY DEF g
    <3>2. TcpLen(x) = t - g /\ Pos(x) = n /\ 1 <= g /\ g \in Int /\ n \in Int
          /\ Pos(s) \in Int /\ t \in Int
      BY <1>1, <1>4, <2>3, <2>8
    <3> HIDE DEF Pos, t, TcpLen
    <3> QED BY <3>1, <3>2
  <2> QED BY <2>9, <2>10 DEF x
<1> QED BY <1>6, <1>7

\* tcp_receive, for any segment of a peer that stays in the window.
LEMMA ReceiveOK ==
  ASSUME NEW p, NEW n, NEW w, Window(p, n, w), n <= StreamLen,
         QueueOK(p.ooseq, n + 1, n + w), NEW seg, SegOK(seg),
         Pos(seg) + TcpLen(seg) <= n + w \/ (Pos(seg) = n /\ TcpLen(seg) = 1)
  PROVE  IsReceived(Receive(p, seg), p, n, n + w)
<1> DEFINE s == TrimFront(p, seg)
           hi == n + w
           None(q) == [p |-> q, data |-> <<>>, fin |-> FALSE, sent |-> TRUE]
           x == Receive(p, seg)
<1>0. /\ p \in Pcbs /\ Edges(p, n, w) /\ n \in 0 .. (StreamLen + 1) /\ w \in 0 .. WndMax
      /\ p.rcv_nxt = At(n) /\ p.rcv_wnd = w /\ n \in Int /\ w \in Int /\ hi \in Int
      /\ n \in Position /\ hi - 1 \in Position /\ hi - n = w /\ n <= n /\ n + 1 \in Int
      /\ 0 <= w /\ w <= WndMax
  <2>1. /\ p \in Pcbs /\ Edges(p, n, w) /\ n \in 0 .. (StreamLen + 1) /\ w \in 0 .. WndMax
        /\ p.rcv_nxt = At(n) /\ p.rcv_wnd = w
    BY DEF Window, Edges
  <2> QED BY <2>1, EdgesAre
<1>1. /\ SegOK(s) /\ Pos(s) + TcpLen(s) = Pos(seg) + TcpLen(seg)
      /\ Pos(seg) = n => s = seg
  BY <1>0, TrimFrontOK
<1> HIDE DEF s
<1>2. /\ Pos(s) \in Int /\ TcpLen(s) \in Int /\ 1 <= TcpLen(s) /\ s.seqno = At(Pos(s))
      /\ Pos(s) \in Position
  <2>1. Pos(s) \in 0 .. StreamLen /\ s.seqno = At(Pos(s))
    BY <1>1, SegIs
  <2>2. Pos(s) \in Int /\ TcpLen(s) \in Int /\ 1 <= TcpLen(s)
    BY <1>1, SegNums
  <2> HIDE DEF Pos
  <2> QED BY <2>1, <2>2, Constants DEF Position
<1>3. SeqBetween(s.seqno, p.rcv_nxt, Plus(p.rcv_nxt, p.rcv_wnd - 1))
        <=> n <= Pos(s) /\ Pos(s) <= hi - 1
  <2>1. Plus(p.rcv_nxt, p.rcv_wnd - 1) = At(hi - 1)
    <3>1. w - 1 \in Int /\ n + (w - 1) = hi - 1
      BY <1>0
    <3> QED BY <1>0, <3>1, AtPlus
  <2> HIDE DEF hi
  <2>2. SeqGEQ(At(Pos(s)), At(n)) <=> Pos(s) >= n
    BY <1>0, <1>2, InOrder
  <2>3. SeqLEQ(At(Pos(s)), At(hi - 1)) <=> Pos(s) <= hi - 1
    BY <1>0, <1>2, InOrder
  <2>4. Pos(s) >= n <=> n <= Pos(s)
    <3> HIDE DEF Pos
    <3> QED BY <1>0, <1>2
  <2> QED BY <1>0, <1>2, <2>1, <2>2, <2>3, <2>4, Zenon DEF SeqBetween
<1>4. s.seqno = p.rcv_nxt <=> Pos(s) = n
  BY <1>0, <1>2, InOrder
<1>5. x = IF ~SeqBetween(s.seqno, p.rcv_nxt, Plus(p.rcv_nxt, p.rcv_wnd - 1)) THEN None(Announced(p))
          ELSE IF s.seqno = p.rcv_nxt THEN InSequence(p, s)
          ELSE None([Announced(p) EXCEPT !.ooseq = Queued(p, p.ooseq, s)])
  BY DEF Receive, s
<1>6. ASSUME NEW q, Window(q, n, w), QueueOK(q.ooseq, n + 1, hi), q.refused = p.refused,
             q.refusedFin = p.refusedFin, q.closeWait = p.closeWait
      PROVE  IsReceived(None(q), p, n, hi)
  <2> DEFINE r == None(q)
  <2>1. r \in Results /\ r.p = q /\ r.data = Bytes(n, n) /\ ~r.fin
    <3>1. q \in Pcbs /\ <<>> = Bytes(n, n)
      BY <1>0, <1>6, BytesNone DEF Window, Edges
    <3> QED BY <3>1 DEF Results
  <2>2. QueueOK(q.ooseq, n, hi)
    <3>1. ASSUME NEW i \in 1 .. Len(q.ooseq)
          PROVE  n <= Pos(q.ooseq[i]) /\ Pos(q.ooseq[i]) + TcpLen(q.ooseq[i]) <= hi
      <4>1. SegIn(q.ooseq[i], n + 1, hi) /\ SegOK(q.ooseq[i])
        BY <1>6, QueueIs
      <4>2. Pos(q.ooseq[i]) \in Int /\ n + 1 <= Pos(q.ooseq[i])
            /\ Pos(q.ooseq[i]) + TcpLen(q.ooseq[i]) <= hi
        BY <4>1, SegNums DEF SegIn
      <4> HIDE DEF Pos, hi
      <4> QED BY <1>0, <4>2
    <3> HIDE DEF hi
    <3> QED BY <1>6, <3>1, QueueFrom
  <2> HIDE DEF r, hi
  <2>3. Window(r.p, n, hi - n)
    BY <1>0, <1>6, <2>1
  <2>4. Received(r, p, n, n, hi)
    BY <1>0, <1>6, <2>1, <2>2, <2>3 DEF Received, Taken
  <2> QED BY <1>0, <2>4 DEF IsReceived, r
<1>7. Window(Announced(p), n, w) /\ Keeps(p, Announced(p))
  BY AnnouncedOK
<1>8. CASE ~(n <= Pos(s) /\ Pos(s) <= hi - 1)
  <2>1. x = None(Announced(p))
    BY <1>3, <1>5, <1>8
  <2>2. IsReceived(None(Announced(p)), p, n, hi)
    <3> HIDE DEF None
    <3> QED BY <1>6, <1>7 DEF Keeps
  <2> QED BY <2>1, <2>2
<1>9. CASE n <= Pos(s) /\ Pos(s) <= hi - 1
  <2>1. SegIn(s, n, hi)
    <3>1. Pos(s) + TcpLen(s) <= hi
      <4>1. CASE Pos(seg) + TcpLen(seg) <= n + w
        BY <1>1, <4>1
      <4>2. CASE Pos(seg) = n /\ TcpLen(seg) = 1
        <5>1. Pos(s) + TcpLen(s) = Pos(s) + 1
          BY <1>1, <4>2
        <5> HIDE DEF Pos, hi
        <5> QED BY <1>0, <1>2, <1>9, <5>1
      <4> QED BY <4>1, <4>2
    <3> QED BY <1>1, <1>9, <3>1 DEF SegIn
  <2>2. CASE Pos(s) = n
    <3>1. x = InSequence(p, s)
      BY <1>3, <1>4, <1>5, <1>9, <2>2
    <3>2. IsReceived(InSequence(p, s), p, n, n + w)
      BY <2>1, <2>2, InSequenceOK
    <3> QED BY <3>1, <3>2
  <2>3. CASE Pos(s) # n
    <3> DEFINE q == Queued(p, p.ooseq, s)
    <3>1. x = None([Announced(p) EXCEPT !.ooseq = q])
      BY <1>3, <1>4, <1>5, <1>9, <2>3
    <3>2. SegIn(s, n + 1, hi)
      <4>1. n + 1 <= Pos(s)
        <5> HIDE DEF Pos
        <5> QED BY <1>0, <1>2, <1>9, <2>3
      <4> QED BY <2>1, <4>1 DEF SegIn
    <3>3. QueueOK(q, n + 1, hi)
      BY <1>0, <3>2, QueuedOK
    <3>4. q \in Seq(SegSet)
      BY <3>3 DEF QueueOK
    <3> HIDE DEF q
    <3>5. PICK y : y = [Announced(p) EXCEPT !.ooseq = q]
      OBVIOUS
    <3>6. Window(y, n, w) /\ y.ooseq = q /\ y.refused = p.refused /\ y.refusedFin = p.refusedFin
          /\ y.closeWait = p.closeWait
      BY <1>7, <3>4, <3>5, SetQueue DEF Keeps
    <3>7. IsReceived(None(y), p, n, hi)
      <4> HIDE DEF None, hi
      <4> QED BY <1>6, <3>3, <3>6
    <3> QED BY <3>1, <3>5, <3>7
  <2> QED BY <2>2, <2>3
<1> QED BY <1>8, <1>9

-----------------------------------------------------------------------------
(* What the chunks of a mailbox hold together *)

Chunks == Seq(Seq(Int))

Flat(f, m) ==
    /\ f \in [0 .. Len(m) -> Seq(Int)]
    /\ f[0] = <<>> /\ \A i \in 1 .. Len(m) : f[i] = f[i - 1] \o m[i]

LEMMA FlatIs ==
  ASSUME NEW m \in Chunks
  PROVE  \E f : Flat(f, m) /\ FlattenSeq(m) = f[Len(m)]
<1> DEFINE n == Len(m)
           Is(h) == h = [i \in 1 .. n |-> IF i = 1 THEN m[i] ELSE h[i - 1] \o m[i]]
           step == [i \in 1 .. n |-> [d \in Seq(Int) |-> d \o m[i]]]
<1>1. n \in Nat /\ <<>> \in Seq(Int) /\ \A i \in 1 .. n : m[i] \in Seq(Int)
  BY DEF Chunks
<1>2. PICK f : IsRecursive(f, n, Seq(Int), <<>>, step)
  <2>1. IsStep(n, Seq(Int), step)
    BY <1>1 DEF IsStep
  <2> HIDE DEF step, n
  <2> QED BY <1>1, <2>1, FiniteRecursion
<1>3. /\ f \in [0 .. n -> Seq(Int)] /\ f[0] = <<>>
      /\ \A i \in 1 .. n : f[i] = f[i - 1] \o m[i]
  <2>1. f \in [0 .. n -> Seq(Int)] /\ f[0] = <<>> /\ \A i \in 1 .. n : f[i] = step[i][f[i - 1]]
    BY <1>2 DEF IsRecursive
  <2>2. \A i \in 1 .. n : i - 1 \in 0 .. n
    BY <1>1
  <2>3. \A i \in 1 .. n : f[i - 1] \in Seq(Int)
    BY <2>1, <2>2
  <2> QED BY <2>1, <2>3
<1>4. Flat(f, m)
  BY <1>3 DEF Flat
<1>5. CASE n = 0
  <2>1. m = <<>>
    BY <1>5 DEF Chunks
  <2>2. FlattenSeq(m) = m
    BY <1>5 DEF FlattenSeq
  <2> QED BY <1>3, <1>4, <1>5, <2>1, <2>2
<1>6. CASE n # 0
  <2> DEFINE h == [i \in 1 .. n |-> f[i]]
             g == CHOOSE k : Is(k)
  <2>1. Is(h)
    <3>1. ASSUME NEW i \in 1 .. n
          PROVE  f[i] = IF i = 1 THEN m[i] ELSE h[i - 1] \o m[i]
      <4>1. CASE i = 1
        <5>1. f[1] = f[0] \o m[1] /\ f[0] = <<>>
          <6>1. 1 - 1 = 0
            OBVIOUS
          <6> QED BY <1>3, <4>1, <6>1
        <5>2. <<>> \o m[1] = m[1]
          BY <1>1, <4>1
        <5> QED BY <4>1, <5>1, <5>2
      <4>2. CASE i # 1
        <5>1. i - 1 \in 1 .. n
          BY <1>1, <4>2
        <5>2. h[i - 1] = f[i - 1]
          BY <5>1
        <5> HIDE DEF h
        <5> QED BY <1>3, <4>2, <5>2
      <4> QED BY <4>1, <4>2
    <3>2. h = [i \in 1 .. n |-> f[i]]
      OBVIOUS
    <3> HIDE DEF h, n
    <3>3. h = [i \in 1 .. n |-> IF i = 1 THEN m[i] ELSE h[i - 1] \o m[i]]
      BY <3>1, <3>2, Zenon
    <3> QED BY <3>3
  <2>2. Is(g)
    BY <2>1, Zenon
  <2>3. FlattenSeq(m) = g[n]
    BY <1>6, Zenon DEF FlattenSeq
  <2> DEFINE k == [i \in 0 .. n |-> IF i = 0 THEN <<>> ELSE g[i]]
             Good(i) == i = 0 \/ g[i] = f[i]
             holds == {i \in 0 .. n : Good(i)}
  <2>4. \A i \in 1 .. n : g[i] = IF i = 1 THEN m[i] ELSE g[i - 1] \o m[i]
    <3> HIDE DEF g, n
    <3> QED BY <2>2, Zenon
  <2> HIDE DEF g, h
  <2>5. ASSUME NEW i \in 1 .. n, Good(i - 1) PROVE Good(i)
    <3>1. CASE i = 1
      <4>1. g[1] = m[1]
        BY <2>4, <3>1
      <4>2. f[1] = f[0] \o m[1] /\ f[0] = <<>>
        <5>1. 1 - 1 = 0
          OBVIOUS
        <5> QED BY <1>3, <3>1, <5>1
      <4>3. <<>> \o m[1] = m[1]
        BY <1>1, <3>1
      <4> QED BY <3>1, <4>1, <4>2, <4>3
    <3>2. CASE i # 1
      <4>1. i - 1 # 0
        BY <1>1, <3>2
      <4> HIDE DEF n
      <4>2. g[i] = g[i - 1] \o m[i]
        BY <2>4, <3>2
      <4>3. f[i] = f[i - 1] \o m[i]
        BY <1>3
      <4>4. g[i - 1] = f[i - 1]
        BY <2>5, <4>1
      <4> QED BY <4>2, <4>3, <4>4
    <3> QED BY <3>1, <3>2
  <2>6. 0 \in holds /\ \A i \in 1 .. n : i - 1 \in holds => i \in holds
    <3>1. 0 \in 0 .. n /\ \A i \in 1 .. n : i \in 0 .. n
      BY <1>1
    <3>2. Good(0)
      OBVIOUS
    <3> HIDE DEF Good
    <3> QED BY <2>5, <3>1, <3>2
  <2>7. Good(n)
    <3>1. n \in 0 .. n
      BY <1>1
    <3>2. n \in holds
      <4> HIDE DEF holds, n
      <4> QED BY <1>1, <2>6, <3>1, Induction
    <3> QED BY <3>2
  <2> QED BY <1>4, <1>6, <2>3, <2>7
<1> QED BY <1>5, <1>6

LEMMA FlatType ==
  ASSUME NEW m \in Chunks
  PROVE  FlattenSeq(m) \in Seq(Int) /\ Len(FlattenSeq(m)) \in Nat
<1>1. PICK f : Flat(f, m) /\ FlattenSeq(m) = f[Len(m)]
  BY FlatIs
<1>2. Len(m) \in 0 .. Len(m)
  BY DEF Chunks
<1>3. FlattenSeq(m) \in Seq(Int)
  BY <1>1, <1>2 DEF Flat
<1> QED BY <1>3

LEMMA FlatEmpty == FlattenSeq(<<>>) = <<>> /\ <<>> \in Chunks
  BY DEF FlattenSeq, Chunks

\* Two such functions agree as far as the sequences do.
LEMMA FlatSame ==
  ASSUME NEW m \in Chunks, NEW q \in Chunks, NEW f, NEW h, Flat(f, m), Flat(h, q),
         NEW n \in Nat, n <= Len(m), n <= Len(q), \A i \in 1 .. n : m[i] = q[i]
  PROVE  f[n] = h[n]
<1> DEFINE holds == {i \in 0 .. n : f[i] = h[i]}
<1>1. Len(m) \in Nat /\ Len(q) \in Nat
  BY DEF Chunks
<1>2. 0 \in holds
  BY DEF Flat
<1>3. ASSUME NEW i \in 1 .. n, i - 1 \in holds PROVE i \in holds
  <2>1. i \in 1 .. Len(m) /\ i \in 1 .. Len(q) /\ i \in 0 .. n
    BY <1>1
  <2>2. f[i] = f[i - 1] \o m[i] /\ h[i] = h[i - 1] \o q[i] /\ m[i] = q[i]
    BY <2>1 DEF Flat
  <2> QED BY <1>3, <2>1, <2>2
<1>4. n \in holds
  <2> HIDE DEF holds
  <2>1. n \in 0 .. n
    OBVIOUS
  <2> QED BY <1>2, <1>3, <2>1, Induction
<1> QED BY <1>4

LEMMA FlatAppend ==
  ASSUME NEW m \in Chunks, NEW c \in Seq(Int)
  PROVE  FlattenSeq(Append(m, c)) = FlattenSeq(m) \o c /\ Append(m, c) \in Chunks
<1> DEFINE q == Append(m, c)
           n == Len(m)
<1>1. /\ q \in Chunks /\ n \in Nat /\ Len(q) = n + 1 /\ q[n + 1] = c
      /\ \A i \in 1 .. n : m[i] = q[i]
  BY DEF Chunks
<1>2. PICK f : Flat(f, m) /\ FlattenSeq(m) = f[n]
  BY FlatIs
<1> HIDE DEF q
<1>3. PICK h : Flat(h, q) /\ FlattenSeq(q) = h[n + 1]
  BY <1>1, FlatIs
<1>4. f[n] = h[n]
  <2>1. n <= Len(m) /\ n <= Len(q)
    BY <1>1
  <2> HIDE DEF n
  <2> QED BY <1>1, <1>2, <1>3, <2>1, FlatSame
<1>5. h[n + 1] = h[n] \o c
  <2>1. n + 1 \in 1 .. Len(q) /\ n + 1 - 1 = n
    BY <1>1
  <2>2. h[n + 1] = h[n + 1 - 1] \o q[n + 1]
    BY <1>3, <2>1 DEF Flat
  <2> QED BY <1>1, <2>1, <2>2
<1> QED BY <1>1, <1>2, <1>3, <1>4, <1>5 DEF q

LEMMA ConcatAssoc ==
  ASSUME NEW a \in Seq(Int), NEW b \in Seq(Int), NEW c \in Seq(Int)
  PROVE  (a \o b) \o c = a \o (b \o c)
  BY SMTT(30)

LEMMA FlatTail ==
  ASSUME NEW m \in Chunks, m # <<>>
  PROVE  /\ FlattenSeq(m) = Head(m) \o FlattenSeq(Tail(m))
         /\ Tail(m) \in Chunks /\ Head(m) \in Seq(Int)
<1> DEFINE q == Tail(m)
           n == Len(q)
<1>1. /\ q \in Chunks /\ Head(m) \in Seq(Int) /\ Head(m) = m[1] /\ Len(m) = n + 1 /\ n \in Nat
      /\ \A i \in 1 .. n : q[i] = m[i + 1]
  BY HeadTailProperties DEF Chunks
<1> HIDE DEF q
<1>2. PICK f : Flat(f, m) /\ FlattenSeq(m) = f[n + 1]
  BY <1>1, FlatIs
<1>3. PICK h : Flat(h, q) /\ FlattenSeq(q) = h[n]
  BY <1>1, FlatIs
<1> DEFINE holds == {i \in 0 .. n : f[i + 1] = m[1] \o h[i]}
<1>4. 0 \in holds
  <2>1. f[1] = f[0] \o m[1] /\ f[0] = <<>> /\ h[0] = <<>>
    <3>1. 1 \in 1 .. Len(m) /\ 1 - 1 = 0
      BY <1>1
    <3> QED BY <1>2, <1>3, <3>1 DEF Flat
  <2>2. <<>> \o m[1] = m[1] /\ m[1] \o <<>> = m[1]
    BY <1>1
  <2>3. 0 \in 0 .. n /\ 0 + 1 = 1
    BY <1>1
  <2> QED BY <2>1, <2>2, <2>3
<1>5. ASSUME NEW i \in 1 .. n, i - 1 \in holds PROVE i \in holds
  <2>1. i \in 0 .. n /\ i + 1 \in 1 .. Len(m) /\ i + 1 - 1 = i /\ i - 1 + 1 = i /\ i - 1 \in 0 .. n
    BY <1>1
  <2>2. f[i + 1] = f[i] \o m[i + 1]
    <3>1. \A j \in 1 .. Len(m) : f[j] = f[j - 1] \o m[j]
      BY <1>2 DEF Flat
    <3>2. PICK j \in 1 .. Len(m) : j = i + 1 /\ j - 1 = i
      BY <2>1
    <3>3. f[j] = f[j - 1] \o m[j]
      BY <3>1
    <3> QED BY <3>2, <3>3
  <2>3. h[i] = h[i - 1] \o q[i] /\ q[i] = m[i + 1]
    BY <1>1, <1>3 DEF Flat
  <2>4. f[i] = m[1] \o h[i - 1]
    BY <1>5, <2>1
  <2>5. m[1] \in Seq(Int) /\ h[i - 1] \in Seq(Int) /\ q[i] \in Seq(Int)
    <3>1. q[i] \in Seq(Int)
      BY <1>1 DEF Chunks
    <3>2. h[i - 1] \in Seq(Int)
      BY <1>3, <2>1 DEF Flat
    <3> QED BY <1>1, <3>1, <3>2
  <2>6. (m[1] \o h[i - 1]) \o q[i] = m[1] \o (h[i - 1] \o q[i])
    BY <2>5, ConcatAssoc
  <2> QED BY <2>1, <2>2, <2>3, <2>4, <2>6
<1>6. n \in holds
  <2> HIDE DEF holds, n
  <2>1. n \in 0 .. n
    BY <1>1
  <2> QED BY <1>1, <1>4, <1>5, <2>1, Induction
<1> QED BY <1>1, <1>2, <1>3, <1>6 DEF q

-----------------------------------------------------------------------------
(* The pcb and the mailbox *)

\* An EOF mark is among the chunks.
Marked(m) == \E i \in 1 .. Len(m) : m[i] = <<>>

\* How far the stream is taken in; the FIN is beyond its bytes.
Reach(p, n) == IF p.closeWait THEN StreamLen ELSE n

\* The pcb between two calls: nothing that it holds comes next.
Rcv(p, n, w) ==
    /\ Window(p, n, w) /\ QueueOK(p.ooseq, n + 1, n + w)
    /\ p.refusedFin => p.refused # <<>> /\ p.closeWait
    /\ p.closeWait => n = StreamLen + 1 /\ p.ooseq = <<>>
    /\ ~p.closeWait => n <= StreamLen

\* The bytes taken, those waiting, those refused, and d, which is not passed
\* up yet, are the stream up to there.
Text(p, m, g, d, n) ==
    /\ m \in Chunks /\ g \in Chunks /\ d \in Seq(Int)
    /\ ((FlattenSeq(g) \o FlattenSeq(m)) \o p.refused) \o d = Bytes(0, Reach(p, n))

\* A mark comes last, and when everything is passed up.
Marks(p, m, g, d, x) ==
    /\ Len(m) <= MboxSize
    /\ \A i \in 1 .. Len(m) : m[i] = <<>> => i = Len(m)
    /\ \A i \in 1 .. Len(g) : g[i] = <<>> => i = Len(g) /\ m = <<>>
    /\ Marked(g) \/ Marked(m) => p.closeWait /\ p.refused = <<>> /\ d = <<>> /\ x = 0

\* The window and everything that is in the buffer; x is the byte of a FIN
\* that is not passed up yet.
Room(p, m, g, o, d, x, w) ==
    /\ o \in 0 .. WndMax /\ x \in {0, 1}
    /\ Marked(g) => w = WndMax
    /\ ~Marked(g) => w + Len(FlattenSeq(m)) + Len(p.refused) + o
                       + (IF p.refusedFin THEN 1 ELSE 0) + Len(d) + x = WndMax

Host(p, m, g, o, d, x, n, w) ==
    /\ Rcv(p, n, w) /\ Text(p, m, g, d, n) /\ Marks(p, m, g, d, x) /\ Room(p, m, g, o, d, x, w)

LEMMA SameOK ==
  ASSUME NEW p, NEW m, NEW g, NEW o, NEW d, NEW x, NEW n, NEW w, Host(p, m, g, o, d, x, n, w),
         NEW q, Window(q, n, w), Keeps(p, q)
  PROVE  Host(q, m, g, o, d, x, n, w)
<1>1. /\ q.ooseq = p.ooseq /\ q.refused = p.refused
      /\ q.refusedFin = p.refusedFin /\ q.closeWait = p.closeWait
  BY DEF Keeps
<1>2. Rcv(q, n, w)
  BY <1>1 DEF Host, Rcv
<1>3. Text(q, m, g, d, n)
  BY <1>1 DEF Host, Text, Reach
<1>4. Marks(q, m, g, d, x)
  BY <1>1 DEF Host, Marks
<1>5. Room(q, m, g, o, d, x, w)
  BY <1>1 DEF Host, Room
<1> QED BY <1>2, <1>3, <1>4, <1>5 DEF Host

\* The fields of the pcb that the window does not depend on.
LEMMA SameWindow ==
  ASSUME NEW p, NEW n, NEW w, Window(p, n, w), NEW q \in Pcbs,
         q.rcv_nxt = p.rcv_nxt, q.rcv_wnd = p.rcv_wnd, q.rcv_ann_wnd = p.rcv_ann_wnd,
         q.rcv_ann_right_edge = p.rcv_ann_right_edge
  PROVE  Window(q, n, w)
  BY DEF Window, Edges

\* What was refused is to be passed up.
LEMMA FreeOK ==
  ASSUME NEW p, NEW m, NEW g, NEW o, NEW n, NEW w, Host(p, m, g, o, <<>>, 0, n, w),
         p.refused # <<>>,
         NEW q, q = [p EXCEPT !.refused = <<>>, !.refusedFin = FALSE]
  PROVE  /\ Host(q, m, g, o, p.refused, IF p.refusedFin THEN 1 ELSE 0, n, w)
         /\ q.refused = <<>> /\ q.refusedFin = FALSE /\ q.closeWait = p.closeWait
<1> DEFINE c == p.refused
           x == IF p.refusedFin THEN 1 ELSE 0
<1>1. Window(p, n, w) /\ p \in Pcbs
  BY DEF Host, Rcv, Window, Edges
<1>2. c \in Seq(Int) /\ <<>> \in Seq(Int) /\ p.refusedFin \in BOOLEAN /\ Len(<<>>) = 0
      /\ Len(c) \in Nat
  BY <1>1 DEF Pcbs
<1>3. /\ Window(q, n, w) /\ q.refused = <<>> /\ q.refusedFin = FALSE
      /\ q.ooseq = p.ooseq /\ q.closeWait = p.closeWait
  <2>1. /\ q \in Pcbs /\ q.refused = <<>> /\ q.ooseq = p.ooseq /\ q.closeWait = p.closeWait
        /\ q.rcv_nxt = p.rcv_nxt /\ q.rcv_wnd = p.rcv_wnd /\ q.rcv_ann_wnd = p.rcv_ann_wnd
        /\ q.rcv_ann_right_edge = p.rcv_ann_right_edge
    BY <1>1, <1>2 DEF Pcbs
  <2>2. q.refusedFin = FALSE
    BY <1>1, <1>2 DEF Pcbs
  <2>3. Window(q, n, w)
    BY <1>1, <2>1, SameWindow
  <2> QED BY <2>1, <2>2, <2>3
<1>4. Rcv(q, n, w)
  BY <1>3 DEF Host, Rcv
<1>5. Text(q, m, g, c, n)
  <2>1. FlattenSeq(g) \in Seq(Int) /\ FlattenSeq(m) \in Seq(Int)
    BY FlatType DEF Host, Text
  <2>2. FlattenSeq(g) \o FlattenSeq(m) \in Seq(Int)
    BY <2>1
  <2>3. ASSUME NEW a \in Seq(Int) PROVE (a \o <<>>) \o c = (a \o c) \o <<>>
    BY <1>2
  <2>4. ((FlattenSeq(g) \o FlattenSeq(m)) \o <<>>) \o c
          = ((FlattenSeq(g) \o FlattenSeq(m)) \o c) \o <<>>
    BY <2>2, <2>3
  <2>5. ((FlattenSeq(g) \o FlattenSeq(m)) \o c) \o <<>> = Bytes(0, Reach(p, n))
        /\ m \in Chunks /\ g \in Chunks
    BY DEF Host, Text
  <2>6. Reach(q, n) = Reach(p, n)
    BY <1>3 DEF Reach
  <2> QED BY <1>2, <1>3, <2>4, <2>5, <2>6 DEF Text
<1>6. Marks(q, m, g, c, x)
  BY <1>3 DEF Host, Marks
<1>7. ~Marked(g)
  BY DEF Host, Marks
<1>8. Room(q, m, g, o, c, x, w)
  <2>1. Len(FlattenSeq(m)) \in Nat /\ w \in Int /\ o \in 0 .. WndMax
    BY <1>1, FlatType, EdgesAre DEF Host, Text, Room, Window
  <2>2. w + Len(FlattenSeq(m)) + Len(c) + o + x + 0 + 0 = WndMax
    BY <1>2, <1>7 DEF Host, Room
  <2>3. x \in {0, 1} /\ x \in Int /\ o \in Int
    BY <2>1, Constants
  <2> HIDE DEF x, c
  <2>4. w + Len(FlattenSeq(m)) + 0 + o + 0 + Len(c) + x = WndMax
    BY <1>2, <2>1, <2>2, <2>3
  <2> QED BY <1>2, <1>3, <1>7, <2>1, <2>3, <2>4 DEF Room
<1> QED BY <1>3, <1>4, <1>5, <1>6, <1>8 DEF Host

\* The mailbox takes what is to be passed up.
LEMMA PostOK ==
  ASSUME NEW p, NEW m, NEW g, NEW o, NEW d, NEW x, NEW n, NEW w, Host(p, m, g, o, d, x, n, w),
         p.refused = <<>>, p.refusedFin = FALSE, d # <<>>, Len(m) < MboxSize
  PROVE  Host(p, Append(m, d), g, o, <<>>, x, n, w)
<1> DEFINE r == Append(m, d)
<1>1. /\ m \in Chunks /\ g \in Chunks /\ d \in Seq(Int) /\ <<>> \in Seq(Int)
      /\ FlattenSeq(g) \in Seq(Int) /\ FlattenSeq(m) \in Seq(Int)
      /\ Len(FlattenSeq(m)) \in Nat /\ Len(d) \in Nat /\ Len(<<>>) = 0
  BY FlatType DEF Host, Text
<1>2. FlattenSeq(r) = FlattenSeq(m) \o d /\ r \in Chunks
  BY <1>1, FlatAppend
<1>3. Len(r) = Len(m) + 1 /\ Len(m) \in Nat /\ r[Len(m) + 1] = d
      /\ \A i \in 1 .. Len(m) : r[i] = m[i]
  BY <1>1 DEF Chunks
<1>4. ~Marked(g) /\ ~Marked(m)
  BY DEF Host, Marks
<1> HIDE DEF r
<1>5. Text(p, r, g, <<>>, n)
  <2>1. ASSUME NEW a \in Seq(Int), NEW b \in Seq(Int), NEW c \in Seq(Int)
        PROVE  ((a \o b) \o <<>>) \o c = ((a \o (b \o c)) \o <<>>) \o <<>>
    BY SMTT(30)
  <2>2. ((FlattenSeq(g) \o FlattenSeq(m)) \o <<>>) \o d
          = ((FlattenSeq(g) \o (FlattenSeq(m) \o d)) \o <<>>) \o <<>>
    BY <1>1, <2>1
  <2>3. ((FlattenSeq(g) \o FlattenSeq(m)) \o <<>>) \o d = Bytes(0, Reach(p, n))
    BY DEF Host, Text
  <2> QED BY <1>1, <1>2, <2>2, <2>3 DEF Text
<1>6. ~Marked(r)
  <2>1. ASSUME NEW i \in 1 .. Len(r) PROVE r[i] # <<>>
    <3>1. CASE i \in 1 .. Len(m)
      BY <1>3, <1>4, <3>1 DEF Marked
    <3>2. CASE i = Len(m) + 1
      BY <1>3, <3>2
    <3> QED BY <1>3, <3>1, <3>2
  <2> QED BY <2>1 DEF Marked
<1>7. Marks(p, r, g, <<>>, x)
  <2>1. Len(r) <= MboxSize
    BY <1>3, Constants
  <2> QED BY <1>4, <1>6, <2>1 DEF Marks, Marked
<1>8. Len(FlattenSeq(r)) = Len(FlattenSeq(m)) + Len(d)
  BY <1>1, <1>2
<1>9. Room(p, r, g, o, <<>>, x, w)
  <2>1. w \in Int /\ o \in 0 .. WndMax /\ o \in Int /\ x \in {0, 1} /\ x \in Int
    <3>1. o \in 0 .. WndMax /\ x \in {0, 1}
      BY DEF Host, Room
    <3>2. w \in Int
      BY EdgesAre DEF Host, Rcv, Window
    <3> QED BY <3>1, <3>2, Constants
  <2>2. w + Len(FlattenSeq(m)) + 0 + o + 0 + Len(d) + x = WndMax
    BY <1>1, <1>4 DEF Host, Room
  <2>3. w + Len(FlattenSeq(r)) + 0 + o + 0 + 0 + x = WndMax
    BY <1>1, <1>8, <2>1, <2>2
  <2> QED BY <1>1, <1>4, <2>1, <2>3 DEF Room
<1>10. Rcv(p, n, w)
  BY DEF Host
<1> QED BY <1>5, <1>7, <1>9, <1>10 DEF Host, r

Keeping(p, d, x) == [p EXCEPT !.refused = d, !.refusedFin = (x = 1)]

\* The mailbox is full: the data is kept, and a FIN waits behind it.
LEMMA RefuseOK ==
  ASSUME NEW p, NEW m, NEW g, NEW o, NEW d, NEW x, NEW n, NEW w, Host(p, m, g, o, d, x, n, w),
         p.refused = <<>>, p.refusedFin = FALSE, d # <<>>, x = 1 => p.closeWait,
         NEW q, q = Keeping(p, d, x)
  PROVE  Host(q, m, g, o, <<>>, 0, n, w)
<1>1. /\ m \in Chunks /\ g \in Chunks /\ d \in Seq(Int) /\ <<>> \in Seq(Int)
      /\ FlattenSeq(g) \in Seq(Int) /\ FlattenSeq(m) \in Seq(Int)
      /\ Len(FlattenSeq(m)) \in Nat /\ Len(d) \in Nat /\ Len(<<>>) = 0
      /\ x \in {0, 1} /\ o \in 0 .. WndMax /\ o \in Int
  <2>1. m \in Chunks /\ g \in Chunks /\ d \in Seq(Int) /\ x \in {0, 1} /\ o \in 0 .. WndMax
    BY DEF Host, Text, Room
  <2> QED BY <2>1, FlatType, Constants
<1>2. ~Marked(g) /\ ~Marked(m)
  BY DEF Host, Marks
<1>3. /\ Window(q, n, w) /\ q.refused = d /\ q.refusedFin = (x = 1)
      /\ q.ooseq = p.ooseq /\ q.closeWait = p.closeWait
  <2>1. PICK b \in BOOLEAN : b = (x = 1)
    OBVIOUS
  <2>2. q = [p EXCEPT !.refused = d, !.refusedFin = b] /\ Window(p, n, w) /\ p \in Pcbs
    BY <2>1 DEF Host, Rcv, Window, Edges, Keeping
  <2>3. /\ q \in Pcbs /\ q.refused = d /\ q.ooseq = p.ooseq /\ q.closeWait = p.closeWait
        /\ q.rcv_nxt = p.rcv_nxt /\ q.rcv_wnd = p.rcv_wnd /\ q.rcv_ann_wnd = p.rcv_ann_wnd
        /\ q.rcv_ann_right_edge = p.rcv_ann_right_edge
    BY <1>1, <2>1, <2>2 DEF Pcbs
  <2>4. q.refusedFin = b
    BY <1>1, <2>1, <2>2 DEF Pcbs
  <2>5. Window(q, n, w)
    BY <2>2, <2>3, SameWindow
  <2>6. q.refusedFin = (x = 1)
    BY <2>1, <2>4
  <2> QED BY <2>3, <2>5, <2>6
<1>4. Rcv(q, n, w)
  BY <1>3 DEF Host, Rcv
<1>5. Text(q, m, g, <<>>, n)
  <2>1. ASSUME NEW a \in Seq(Int), NEW c \in Seq(Int)
        PROVE  (a \o <<>>) \o c = (a \o c) \o <<>>
    OBVIOUS
  <2>2. FlattenSeq(g) \o FlattenSeq(m) \in Seq(Int)
    BY <1>1
  <2>3. ((FlattenSeq(g) \o FlattenSeq(m)) \o <<>>) \o d
          = ((FlattenSeq(g) \o FlattenSeq(m)) \o d) \o <<>>
    BY <1>1, <2>1, <2>2
  <2>4. ((FlattenSeq(g) \o FlattenSeq(m)) \o <<>>) \o d = Bytes(0, Reach(p, n))
    BY DEF Host, Text
  <2>5. Reach(q, n) = Reach(p, n)
    BY <1>3 DEF Reach
  <2> QED BY <1>1, <1>3, <2>3, <2>4, <2>5 DEF Text
<1>6. Marks(q, m, g, <<>>, 0)
  BY <1>2 DEF Host, Marks, Marked
<1>7. Room(q, m, g, o, <<>>, 0, w)
  <2>1. w \in Int
    BY EdgesAre DEF Host, Rcv, Window
  <2>2. w + Len(FlattenSeq(m)) + 0 + o + 0 + Len(d) + x = WndMax
    BY <1>1, <1>2 DEF Host, Room
  <2>3. (IF q.refusedFin THEN 1 ELSE 0) = x
    BY <1>1, <1>3
  <2>4. w + Len(FlattenSeq(m)) + Len(q.refused) + o + x + 0 + 0 = WndMax
    BY <1>1, <1>3, <2>1, <2>2
  <2> QED BY <1>1, <1>2, <2>3, <2>4 DEF Room
<1> QED BY <1>4, <1>5, <1>6, <1>7 DEF Host

\* The FIN gives its byte of the window back, and its mark is posted if there
\* is room for it.
LEMMA ClosedOK ==
  ASSUME NEW p, NEW m, NEW g, NEW o, NEW n, NEW w, Host(p, m, g, o, <<>>, 1, n, w),
         p.closeWait, p.refused = <<>>, p.refusedFin = FALSE
  PROVE  /\ Host(FinEvent(p), Post(m, EOF), g, o, <<>>, 0, n, w + 1)
         /\ FinEvent(p).closeWait = p.closeWait
<1> DEFINE q == FinEvent(p)
           r == Post(m, EOF)
           e == <<>>
<1>1. /\ p \in Pcbs /\ n \in 0 .. (StreamLen + 1) /\ w \in Int /\ 0 <= w /\ w <= WndMax
      /\ p.rcv_nxt = At(n) /\ p.rcv_wnd = w /\ p.rcv_ann_wnd \in 0 .. w
      /\ Offset(p.rcv_ann_right_edge) <= n + w /\ Offset(p.rcv_ann_right_edge) \in Int /\ n \in Int
  <2>1. Edges(p, n, w) /\ p.rcv_ann_wnd \in 0 .. w
    BY DEF Host, Rcv, Window
  <2> QED BY <2>1, EdgesAre DEF Edges
<1>2. /\ m \in Chunks /\ g \in Chunks /\ e \in Seq(Int) /\ Len(e) = 0 /\ Len(m) \in Nat
      /\ FlattenSeq(g) \in Seq(Int) /\ FlattenSeq(m) \in Seq(Int)
      /\ Len(FlattenSeq(m)) \in Nat /\ o \in 0 .. WndMax /\ o \in Int /\ WndMax \in Nat
  <2>1. m \in Chunks /\ g \in Chunks /\ o \in 0 .. WndMax
    BY DEF Host, Text, Room
  <2> QED BY <2>1, FlatType, Constants DEF Chunks
<1>3. ~Marked(g) /\ ~Marked(m)
  BY DEF Host, Marks
<1>4. w + Len(FlattenSeq(m)) + 0 + o + 0 + 0 + 1 = WndMax
  BY <1>2, <1>3 DEF Host, Room
<1>5. w + 1 <= WndMax /\ 0 <= o
  BY <1>1, <1>2, <1>4
<1>6. Min({p.rcv_wnd + 1, WndMax}) = w + 1
  <2>1. p.rcv_wnd + 1 = w + 1 /\ w + 1 \in Int /\ WndMax \in Int
    BY <1>1, <1>2
  <2> QED BY <1>5, <2>1, MinIs
<1>7. q = [p EXCEPT !.rcv_wnd = w + 1]
  BY <1>6 DEF FinEvent
<1> HIDE DEF q
<1>8. /\ q \in Pcbs /\ q.rcv_nxt = p.rcv_nxt /\ q.rcv_wnd = w + 1 /\ q.rcv_ann_wnd = p.rcv_ann_wnd
      /\ q.rcv_ann_right_edge = p.rcv_ann_right_edge
      /\ q.ooseq = p.ooseq /\ q.refused = p.refused
      /\ q.refusedFin = p.refusedFin /\ q.closeWait = p.closeWait
  <2>1. w + 1 \in Int
    BY <1>1
  <2> QED BY <1>1, <1>7, <2>1 DEF Pcbs
<1>9. Window(q, n, w + 1)
  <2>1. w + 1 \in 0 .. WndMax /\ p.rcv_ann_wnd \in 0 .. (w + 1)
        /\ Offset(p.rcv_ann_right_edge) <= n + (w + 1)
    BY <1>1, <1>2, <1>5
  <2> QED BY <1>1, <1>8, <2>1 DEF Window, Edges
<1>10. Rcv(q, n, w + 1)
  <2>1. p.ooseq = <<>> /\ n = StreamLen + 1
    BY DEF Host, Rcv
  <2>2. QueueOK(q.ooseq, n + 1, n + (w + 1))
    BY <1>8, <2>1, QueueEmpty
  <2> QED BY <1>8, <1>9, <2>1, <2>2 DEF Rcv
<1>11. /\ Text(p, r, g, e, n) /\ Len(FlattenSeq(r)) = Len(FlattenSeq(m)) /\ Len(r) <= MboxSize
       /\ \A i \in 1 .. Len(r) : r[i] = <<>> => i = Len(r)
  <2>1. CASE Len(m) < MboxSize
    <3>1. r = Append(m, e)
      BY <2>1 DEF Post, EOF
    <3>2. FlattenSeq(r) = FlattenSeq(m) \o e /\ r \in Chunks
      BY <1>2, <3>1, FlatAppend
    <3>3. FlattenSeq(m) \o e = FlattenSeq(m)
      BY <1>2
    <3>4. Len(r) = Len(m) + 1 /\ \A i \in 1 .. Len(m) : r[i] = m[i]
      BY <1>2, <3>1 DEF Chunks
    <3> HIDE DEF r, e
    <3>5. Text(p, r, g, e, n)
      BY <3>2, <3>3 DEF Host, Text, e
    <3>6. \A i \in 1 .. Len(r) : r[i] = <<>> => i = Len(r)
      <4>1. ASSUME NEW i \in 1 .. Len(r), r[i] = <<>> PROVE i = Len(r)
        <5>1. i \in 1 .. Len(m) \/ i = Len(m) + 1
          BY <1>2, <3>4
        <5>2. i \notin 1 .. Len(m)
          BY <1>3, <3>4, <4>1 DEF Marked
        <5> QED BY <3>4, <5>1, <5>2
      <4> QED BY <4>1
    <3>7. Len(r) <= MboxSize
      BY <1>2, <2>1, <3>4, Constants
    <3> QED BY <3>2, <3>3, <3>5, <3>6, <3>7
  <2>2. CASE ~(Len(m) < MboxSize)
    <3>1. r = m
      BY <2>2 DEF Post
    <3> QED BY <3>1 DEF Host, Text, Marks
  <2> QED BY <2>1, <2>2
<1> HIDE DEF r
<1>12. Text(q, r, g, e, n)
  BY <1>8, <1>11 DEF Text, Reach
<1>13. Marks(q, r, g, e, 0)
  <2>1. \A i \in 1 .. Len(g) : g[i] = <<>> => i = Len(g) /\ r = <<>>
    BY <1>3 DEF Marked
  <2> QED BY <1>8, <1>11, <2>1 DEF Marks
<1>14. Room(q, r, g, o, e, 0, w + 1)
  <2>1. (w + 1) + Len(FlattenSeq(r)) + 0 + o + 0 + 0 + 0 = WndMax
    BY <1>1, <1>2, <1>4, <1>11
  <2> QED BY <1>2, <1>3, <1>8, <2>1 DEF Room
<1> QED BY <1>8, <1>10, <1>12, <1>13, <1>14 DEF Host, q, r

\* The host after a call: it has the pcb and the mailbox of h.
IsHost(h, g, o) == \E n, w : Host(h.p, h.m, g, o, <<>>, 0, n, w)

\* tcp_process_refused_data: the window changes only if a FIN was waiting.
LEMMA RefusedOK ==
  ASSUME NEW p, NEW m, NEW g, NEW o, NEW n, NEW w, Host(p, m, g, o, <<>>, 0, n, w),
         NEW h, h = Refused([p |-> p, m |-> m])
  PROVE  \E v : /\ Host(h.p, h.m, g, o, <<>>, 0, n, v)
                /\ h.p.closeWait = p.closeWait /\ (~p.closeWait => v = w)
<1> DEFINE q == [p EXCEPT !.refused = <<>>, !.refusedFin = FALSE]
           r == Post(m, p.refused)
           t == [p |-> q, m |-> r]
<1>1. CASE p.refused = <<>> \/ Len(m) >= MboxSize
  <2>1. h.p = p /\ h.m = m
    BY <1>1 DEF Refused
  <2> QED BY <2>1
<1>2. CASE ~(p.refused = <<>> \/ Len(m) >= MboxSize)
  <2>1. h = IF p.refusedFin THEN Closed(t) ELSE t
    BY <1>2 DEF Refused
  <2>2. /\ Host(q, m, g, o, p.refused, IF p.refusedFin THEN 1 ELSE 0, n, w)
        /\ q.refused = <<>> /\ q.refusedFin = FALSE /\ q.closeWait = p.closeWait
    <3>1. p.refused # <<>>
      BY <1>2
    <3> HIDE DEF q
    <3> QED BY <3>1, FreeOK DEF q
  <2>3. Len(m) < MboxSize
    <3>1. Len(m) \in Nat /\ MboxSize \in Nat
      BY Constants DEF Host, Text, Chunks
    <3> QED BY <1>2, <3>1
  <2>4. r = Append(m, p.refused)
    BY <2>3 DEF Post
  <2> HIDE DEF q, r
  <2>5. Host(q, r, g, o, <<>>, IF p.refusedFin THEN 1 ELSE 0, n, w)
    BY <1>2, <2>2, <2>3, <2>4, PostOK
  <2>6. CASE p.refusedFin
    <3>1. h.p = FinEvent(q) /\ h.m = Post(r, EOF)
      BY <2>1, <2>6 DEF Closed
    <3>2. p.closeWait
      BY <2>6 DEF Host, Rcv
    <3>3. Host(q, r, g, o, <<>>, 1, n, w)
      BY <2>5, <2>6
    <3>4. /\ Host(FinEvent(q), Post(r, EOF), g, o, <<>>, 0, n, w + 1)
          /\ FinEvent(q).closeWait = q.closeWait
      BY <2>2, <3>2, <3>3, ClosedOK
    <3> QED BY <2>2, <3>1, <3>2, <3>4
  <2>7. CASE ~p.refusedFin
    <3>1. h.p = q /\ h.m = r
      BY <2>1, <2>7
    <3> QED BY <2>2, <2>5, <2>7, <3>1
  <2> QED BY <2>6, <2>7
<1> QED BY <1>1, <1>2

\* The segment may be sent: it is inside the window, or probes it.
Inside(s, n, w) == Pos(s) + TcpLen(s) <= n + w \/ (Pos(s) = n /\ TcpLen(s) = 1)

\* What a segment left to be passed up.
Left(r, m, g, o, n, w) ==
    /\ Host(r.p, m, g, o, r.data, IF r.fin THEN 1 ELSE 0, n, w)
    /\ r.p.refused = <<>> /\ r.p.refusedFin = FALSE
    /\ r.fin \in BOOLEAN /\ (r.fin => r.p.closeWait)

\* tcp_process: the data taken follows what was passed up before.
LEMMA TextMore ==
  ASSUME NEW p, NEW m, NEW g, NEW n \in Int, Text(p, m, g, <<>>, n), 0 <= n, ~p.closeWait,
         p.refused = <<>>, NEW q, q.refused = <<>>, NEW b \in Int, n <= b, NEW k,
         Reach(q, k) = b
  PROVE  Text(q, m, g, Bytes(n, b), k)
<1> DEFINE d == Bytes(n, b)
           f == FlattenSeq(g) \o FlattenSeq(m)
<1>1. m \in Chunks /\ g \in Chunks /\ d \in Seq(Int)
  BY BytesIs DEF Text
<1>2. f \in Seq(Int)
  <2>1. FlattenSeq(g) \in Seq(Int) /\ FlattenSeq(m) \in Seq(Int)
    BY <1>1, FlatType
  <2> QED BY <2>1
<1>3. (f \o <<>>) \o <<>> = Bytes(0, n)
  BY DEF Text, Reach
<1> HIDE DEF f, d
<1>4. f = Bytes(0, n) /\ f \o <<>> = f
  BY <1>2, <1>3
<1>5. Bytes(0, n) \o d = Bytes(0, b)
  BY BytesCat, SMTT(30) DEF d
<1>6. (f \o <<>>) \o d = Bytes(0, b)
  BY <1>4, <1>5
<1> QED BY <1>1, <1>6 DEF Text, f, d

\* q goes on with what was received; the FIN closes it.
GoesOn(q, r) ==
    /\ q.ooseq = r.p.ooseq /\ q.refused = r.p.refused /\ q.refusedFin = r.p.refusedFin
    /\ q.closeWait <=> r.fin

LEMMA TakenHost ==
  ASSUME NEW p, NEW m, NEW g, NEW o, NEW n, NEW w, Host(p, m, g, o, <<>>, 0, n, w),
         p.refused = <<>>, ~p.closeWait, NEW r, NEW k, Received(r, p, n, k, n + w),
         NEW q, Window(q, k, n + w - k), GoesOn(q, r)
  PROVE  /\ Host(q, m, g, o, r.data, IF r.fin THEN 1 ELSE 0, k, n + w - k)
         /\ q.refused = <<>> /\ q.refusedFin = FALSE
<1> DEFINE v == n + w - k
           x == IF r.fin THEN 1 ELSE 0
           b == IF r.fin THEN StreamLen ELSE k
           e == <<>>
<1>0. /\ q.ooseq = r.p.ooseq /\ q.refused = r.p.refused /\ q.refusedFin = r.p.refusedFin
      /\ q.closeWait <=> r.fin
  BY DEF GoesOn
<1>1. /\ k \in Int /\ n \in Int /\ w \in Int /\ n <= k /\ QueueOK(r.p.ooseq, k + 1, n + w)
      /\ r.p.refused = p.refused /\ r.p.refusedFin = p.refusedFin /\ r.fin \in BOOLEAN
      /\ r.fin => k = StreamLen + 1 /\ r.p.ooseq = <<>> /\ r.data = Bytes(n, StreamLen)
      /\ ~r.fin => k <= StreamLen /\ r.data = Bytes(n, k)
  <2>1. Edges(p, n, w)
    BY DEF Host, Rcv, Window
  <2>2. n \in Int /\ w \in Int
    BY <2>1, EdgesAre
  <2> QED BY <2>2 DEF Received, Taken, Results
<1>2. p.refusedFin = FALSE
  <2>1. p.refusedFin \in BOOLEAN /\ (p.refusedFin => p.refused # <<>>)
    BY DEF Host, Rcv, Window, Edges, Pcbs
  <2> QED BY <2>1
<1>3. 0 <= n /\ n <= StreamLen /\ StreamLen \in Int
  <2>1. Edges(p, n, w) /\ n <= StreamLen
    BY DEF Host, Rcv, Window
  <2> QED BY <2>1, EdgesAre, Constants
<1>4. /\ b \in Int /\ n <= b /\ r.data = Bytes(n, b) /\ Reach(q, k) = b /\ x \in {0, 1} /\ x \in Int
      /\ k = b + x
  BY <1>0, <1>1, <1>3 DEF Reach
<1> HIDE DEF b, x
<1>5. Rcv(q, k, v)
  <2>1. k + v = n + w
    BY <1>1
  <2>2. QueueOK(q.ooseq, k + 1, k + v)
    BY <1>0, <1>1, <2>1
  <2>3. q.closeWait => k = StreamLen + 1 /\ q.ooseq = <<>>
    BY <1>0, <1>1
  <2>4. ~q.closeWait => k <= StreamLen
    BY <1>0, <1>1
  <2> QED BY <1>0, <1>1, <1>2, <2>2, <2>3, <2>4 DEF Rcv
<1>6. Text(q, m, g, r.data, k)
  <2>1. Text(p, m, g, <<>>, n)
    BY DEF Host
  <2> QED BY <1>0, <1>1, <1>3, <1>4, <2>1, TextMore
<1>7. ~Marked(g) /\ ~Marked(m)
  BY DEF Host, Marks
<1>8. Marks(q, m, g, r.data, x)
  BY <1>0, <1>7 DEF Host, Marks
<1>9. Room(q, m, g, o, r.data, x, v)
  <2>1. m \in Chunks /\ o \in 0 .. WndMax
    BY DEF Host, Text, Room
  <2>2. Len(FlattenSeq(m)) \in Int /\ o \in Int /\ Len(e) = 0
    BY <2>1, FlatType, Constants
  <2>3. w + Len(FlattenSeq(m)) + 0 + o + 0 + 0 + 0 = WndMax
    BY <1>2, <1>7, <2>2 DEF Host, Room
  <2>4. Len(r.data) = b - n
    BY <1>1, <1>4, BytesIs
  <2>5. v + Len(FlattenSeq(m)) + 0 + o + 0 + Len(r.data) + x = WndMax
    BY <1>1, <1>4, <2>2, <2>3, <2>4
  <2> QED BY <1>0, <1>1, <1>2, <1>4, <1>7, <2>1, <2>2, <2>5 DEF Room
<1> QED BY <1>0, <1>1, <1>2, <1>5, <1>6, <1>8, <1>9 DEF Host, x

LEMMA TakenOpen ==
  ASSUME NEW r, NEW p, NEW a, NEW n, NEW hi, Taken(r, p, a, n, hi), ~p.closeWait
  PROVE  r \in Results /\ r.p \in Pcbs /\ Window(r.p, n, hi - n) /\ ~r.p.closeWait
<1>1. r.p.closeWait = p.closeWait
  BY DEF Taken
<1>2. r \in Results /\ Window(r.p, n, hi - n)
  BY DEF Taken
<1>3. r.p \in Pcbs
  BY <1>2 DEF Results
<1>4. ~r.p.closeWait
  BY <1>1, Zenon
<1> QED BY <1>2, <1>3, <1>4

LEMMA ProcessOK ==
  ASSUME NEW p, NEW m, NEW g, NEW o, NEW n, NEW w, Host(p, m, g, o, <<>>, 0, n, w),
         p.refused = <<>>, NEW s, SegOK(s), ~p.closeWait => Inside(s, n, w),
         NEW r, r = Process(p, s)
  PROVE  \E k, v : Left(r, m, g, o, k, v)
<1>1. p.refusedFin = FALSE
  <2>1. p.refusedFin \in BOOLEAN /\ (p.refusedFin => p.refused # <<>>)
    BY DEF Host, Rcv, Window, Edges, Pcbs
  <2> QED BY <2>1
<1>2. CASE p.closeWait
  <2>1. r = [p |-> ReceiveEmpty(p, s.seqno), data |-> <<>>, fin |-> FALSE, sent |-> FALSE]
    BY <1>2 DEF Process
  <2>2. /\ Window(ReceiveEmpty(p, s.seqno), n, w) /\ Keeps(p, ReceiveEmpty(p, s.seqno))
    <3>1. Window(p, n, w) /\ Keeps(p, p)
      BY DEF Host, Rcv, Keeps
    <3>2. Window(tcp_ack_now(p), n, w) /\ Keeps(p, tcp_ack_now(p))
      BY <3>1, AckOK
    <3> QED BY <3>1, <3>2 DEF ReceiveEmpty
  <2>3. Host(ReceiveEmpty(p, s.seqno), m, g, o, <<>>, 0, n, w)
    BY <2>2, SameOK
  <2> QED BY <1>1, <2>1, <2>2, <2>3 DEF Left, Keeps
<1>3. CASE ~p.closeWait
  <2> DEFINE c == Receive(p, s)
  <2>1. r = IF c.fin THEN [c EXCEPT !.p.closeWait = TRUE, !.p.ackNow = TRUE] ELSE c
    BY <1>3 DEF Process
  <2>2. PICK k \in Int : Received(c, p, n, k, n + w)
    <3>1. Window(p, n, w) /\ n <= StreamLen /\ QueueOK(p.ooseq, n + 1, n + w)
      BY <1>3 DEF Host, Rcv
    <3>2. Pos(s) + TcpLen(s) <= n + w \/ (Pos(s) = n /\ TcpLen(s) = 1)
      BY <1>3 DEF Inside
    <3>3. IsReceived(Receive(p, s), p, n, n + w)
      BY <3>1, <3>2, ReceiveOK
    <3> QED BY <3>3 DEF IsReceived
  <2> HIDE DEF c
  <2>3. c \in Results /\ c.p \in Pcbs /\ Window(c.p, k, n + w - k) /\ ~c.p.closeWait
    <3>1. Taken(c, p, n, k, n + w)
      BY <2>2 DEF Received
    <3>0. n \in Int /\ w \in Int
      BY EdgesAre DEF Host, Rcv, Window
    <3>2. PICK hi : hi = n + w /\ hi - k = n + w - k
      BY <3>0
    <3>3. Taken(c, p, n, k, hi)
      BY <3>1, <3>2
    <3>4. c \in Results /\ c.p \in Pcbs /\ Window(c.p, k, hi - k) /\ ~c.p.closeWait
      BY <1>3, <3>3, TakenOpen
    <3> QED BY <3>2, <3>4
  <2>4. /\ r.fin = c.fin /\ r.data = c.data /\ r.p \in Pcbs
        /\ r.p.rcv_nxt = c.p.rcv_nxt /\ r.p.rcv_wnd = c.p.rcv_wnd
        /\ r.p.rcv_ann_wnd = c.p.rcv_ann_wnd
        /\ r.p.rcv_ann_right_edge = c.p.rcv_ann_right_edge
        /\ r.p.ooseq = c.p.ooseq /\ r.p.refused = c.p.refused
        /\ r.p.refusedFin = c.p.refusedFin /\ (r.p.closeWait <=> c.fin)
    <3>1. CASE c.fin
      <4>1. r = [c EXCEPT !.p = [c.p EXCEPT !.closeWait = TRUE, !.ackNow = TRUE]]
        BY <2>1, <2>3, <3>1 DEF Results, Pcbs
      <4>2. r.fin = c.fin /\ r.data = c.data
            /\ r.p = [c.p EXCEPT !.closeWait = TRUE, !.ackNow = TRUE]
        BY <2>3, <4>1 DEF Results
      <4>3. c.fin = TRUE
        BY <2>3, <3>1 DEF Results
      <4> QED BY <2>3, <4>2, <4>3 DEF Pcbs
    <3>2. CASE ~c.fin
      <4>1. r = c
        BY <2>1, <3>2
      <4> QED BY <2>3, <3>2, <4>1
    <3> QED BY <3>1, <3>2
  <2>5. Window(r.p, k, n + w - k)
    BY <2>3, <2>4, SameWindow
  <2>6. /\ Host(r.p, m, g, o, c.data, IF c.fin THEN 1 ELSE 0, k, n + w - k)
        /\ r.p.refused = <<>> /\ r.p.refusedFin = FALSE
    <3>1. PICK q : q = r.p
      OBVIOUS
    <3>2. Window(q, k, n + w - k)
      BY <2>5, <3>1
    <3>3. GoesOn(q, c)
      BY <2>4, <3>1 DEF GoesOn
    <3>4. /\ Host(q, m, g, o, c.data, IF c.fin THEN 1 ELSE 0, k, n + w - k)
          /\ q.refused = <<>> /\ q.refusedFin = FALSE
      BY <1>3, <2>2, <3>2, <3>3, TakenHost, ZenonT(60)
    <3> QED BY <3>1, <3>4
  <2>7. r.fin \in BOOLEAN
    <3>1. c.fin \in BOOLEAN
      BY <2>3 DEF Results
    <3> QED BY <2>4, <3>1
  <2> QED BY <2>4, <2>6, <2>7 DEF Left
<1> QED BY <1>2, <1>3

\* The end of tcp_input: what was taken goes to the mailbox or stays.
LEMMA PassUpOK ==
  ASSUME NEW r, NEW m, NEW g, NEW o, NEW n, NEW w, Left(r, m, g, o, n, w),
         r.fin \in BOOLEAN, NEW z, NEW u, u = PassUp([p |-> z, m |-> m], r)
  PROVE  IsHost(u, g, o)
<1> DEFINE q == r.p
           d == r.data
           x == IF r.fin THEN 1 ELSE 0
           full == d # <<>> /\ Len(m) >= MboxSize
           data == IF d = <<>> THEN [p |-> q, m |-> m]
                   ELSE [p |-> [q EXCEPT !.refused = IF full THEN d ELSE @], m |-> Post(m, d)]
<1>1. u = IF ~r.fin THEN data
          ELSE IF data.p.refused # <<>> THEN [data EXCEPT !.p.refusedFin = TRUE]
          ELSE Closed(data)
  BY DEF PassUp
<1>2. /\ Host(q, m, g, o, d, x, n, w) /\ q.refused = <<>> /\ q.refusedFin = FALSE
      /\ r.fin => q.closeWait
  BY DEF Left
<1>3. /\ q \in Pcbs /\ d \in Seq(Int) /\ Len(m) \in Nat /\ MboxSize \in Nat
  BY <1>2, Constants DEF Host, Rcv, Window, Edges, Text, Chunks
<1> HIDE DEF q, d, x, data
<1>4. CASE d = <<>> \/ Len(m) < MboxSize
  <2>1. PICK c : /\ data = [p |-> q, m |-> c] /\ Host(q, c, g, o, <<>>, x, n, w)
    <3>1. CASE d = <<>>
      <4>1. data = [p |-> q, m |-> m]
        BY <3>1 DEF data
      <4> QED BY <1>2, <3>1, <4>1
    <3>2. CASE d # <<>> /\ Len(m) < MboxSize
      <4>1. ~full
        BY <1>3, <3>2
      <4>2. Post(m, d) = Append(m, d)
        BY <3>2 DEF Post
      <4>3. [q EXCEPT !.refused = q.refused] = q
        BY <1>3 DEF Pcbs
      <4> HIDE DEF full
      <4>4. data = [p |-> [q EXCEPT !.refused = q.refused], m |-> Append(m, d)]
        BY <3>2, <4>1, <4>2 DEF data
      <4>5. Host(q, Append(m, d), g, o, <<>>, x, n, w)
        BY <1>2, <3>2, PostOK
      <4> QED BY <4>3, <4>4, <4>5
    <3> QED BY <1>4, <3>1, <3>2
  <2>2. CASE r.fin
    <3>1. data.p = q /\ data.m = c
      BY <2>1
    <3>2. u = Closed(data)
      BY <1>1, <1>2, <2>2, <3>1
    <3>3. u.p = FinEvent(q) /\ u.m = Post(c, EOF)
      BY <3>1, <3>2 DEF Closed
    <3>4. Host(q, c, g, o, <<>>, 1, n, w)
      BY <2>1, <2>2 DEF x
    <3>5. Host(FinEvent(q), Post(c, EOF), g, o, <<>>, 0, n, w + 1)
      BY <1>2, <2>2, <3>4, ClosedOK
    <3> QED BY <3>3, <3>5 DEF IsHost
  <2>3. CASE ~r.fin
    <3>1. u.p = q /\ u.m = c
      BY <1>1, <2>1, <2>3
    <3>2. Host(q, c, g, o, <<>>, 0, n, w)
      BY <2>1, <2>3 DEF x
    <3> QED BY <3>1, <3>2 DEF IsHost
  <2> QED BY <2>2, <2>3
<1>5. CASE ~(d = <<>> \/ Len(m) < MboxSize)
  <2>1. full /\ d # <<>> /\ ~(Len(m) < MboxSize)
    BY <1>3, <1>5
  <2>2. Post(m, d) = m
    BY <2>1 DEF Post
  <2> HIDE DEF full
  <2>3. data = [p |-> [q EXCEPT !.refused = d], m |-> m]
    BY <2>1, <2>2 DEF data
  <2>4. PICK b \in BOOLEAN : b = (x = 1)
    OBVIOUS
  <2>5. u.m = m /\ u.p = [q EXCEPT !.refused = d, !.refusedFin = b]
    <3>1. CASE r.fin
      <4>1. data.p = [q EXCEPT !.refused = d] /\ data.p.refused # <<>>
        BY <1>3, <2>1, <2>3 DEF Pcbs
      <4>2. u = [data EXCEPT !.p.refusedFin = TRUE]
        BY <1>1, <3>1, <4>1
      <4>3. u.m = m /\ u.p = [data.p EXCEPT !.refusedFin = TRUE]
        BY <2>3, <4>2
      <4>4. b = TRUE
        BY <2>4, <3>1 DEF x
      <4>5. [[q EXCEPT !.refused = d] EXCEPT !.refusedFin = TRUE]
              = [q EXCEPT !.refused = d, !.refusedFin = TRUE]
        OBVIOUS
      <4> QED BY <4>1, <4>3, <4>4, <4>5
    <3>2. CASE ~r.fin
      <4>1. u.m = m /\ u.p = [q EXCEPT !.refused = d]
        BY <1>1, <2>3, <3>2
      <4>2. b = FALSE
        BY <2>4, <3>2 DEF x
      <4>3. [q EXCEPT !.refused = d] = [q EXCEPT !.refused = d, !.refusedFin = FALSE]
        BY <1>2, <1>3 DEF Pcbs
      <4> QED BY <4>1, <4>2, <4>3
    <3> QED BY <3>1, <3>2
  <2>6. u.p = Keeping(q, d, x)
    BY <2>4, <2>5 DEF Keeping
  <2>7. x = 1 => q.closeWait
    BY <1>2 DEF x
  <2>8. Host(u.p, m, g, o, <<>>, 0, n, w)
    BY <1>2, <2>1, <2>6, <2>7, RefuseOK
  <2> QED BY <2>5, <2>8 DEF IsHost
<1> QED BY <1>4, <1>5

-----------------------------------------------------------------------------
(* The steps *)

Inv == \E n, w : Host(pcb, mbox, got, owed, <<>>, 0, n, w)

LEMMA SegmentOK ==
  ASSUME NEW s \in Segments PROVE SegOK(s)
<1>1. PICK i \in 0 .. StreamLen, n \in 0 .. Mss, f \in BOOLEAN :
        /\ i + n <= StreamLen /\ (f => i + n = StreamLen) /\ (n > 0 \/ f)
        /\ s = Part(i, n, f)
  BY DEF Segments
<1>2. i \in Int /\ n \in Int /\ 0 <= i /\ 0 <= n /\ i <= StreamLen /\ i < SeqSpace /\ StreamLen \in Nat
  BY Constants
<1> DEFINE d == SubSeq(Stream, i + 1, i + n)
<1>3. /\ Stream \in Seq(Int) /\ Len(Stream) = StreamLen
      /\ \A k \in 1 .. StreamLen : Stream[k] = k
  BY <1>2 DEF Stream
<1>4. d \in Seq(Int) /\ Len(d) = n /\ \A k \in 1 .. n : d[k] = i + k
  <2>1. \A k \in 1 .. n : i + 1 + k - 1 = i + k /\ i + k \in 1 .. StreamLen
    BY <1>1, <1>2
  <2> HIDE DEF d
  <2>2. d \in Seq(Int) /\ Len(d) = n /\ \A k \in 1 .. n : d[k] = Stream[i + 1 + k - 1]
    BY <1>1, <1>2, <1>3 DEF d
  <2> QED BY <1>3, <2>1, <2>2
<1>5. s = [seqno |-> At(i), data |-> d, fin |-> f] /\ At(i) \in 0 .. (SeqSpace - 1)
  BY <1>1, <1>2, AtIs DEF Part, At
<1>6. Offset(At(i)) = i
  BY <1>2, OffsetAt
<1> HIDE DEF d
<1>7. s \in SegSet /\ Pos(s) = i /\ s.data = d /\ s.fin = f /\ End(s) = i + n
  BY <1>4, <1>5, <1>6 DEF SegSet, Pos, End
<1> HIDE DEF Pos, End
<1> QED BY <1>1, <1>4, <1>7 DEF SegOK

\* The peer stays inside the window.
LEMMA MaySendInside ==
  ASSUME NEW n, NEW w, Window(pcb, n, w), NEW s, SegOK(s), MaySend(s)
  PROVE  Inside(s, n, w)
<1>1. /\ Offset(pcb.rcv_ann_right_edge) <= n + w /\ Offset(pcb.rcv_ann_right_edge) \in Int
      /\ Offset(pcb.rcv_nxt) = n /\ n \in Int /\ w \in Int
  BY EdgesAre DEF Window, Edges
<1>2. Pos(s) \in Int /\ TcpLen(s) \in Int
  BY SegNums
<1>3. CASE Offset(s.seqno) + TcpLen(s) <= Offset(pcb.rcv_ann_right_edge)
  <2>1. Pos(s) + TcpLen(s) <= Offset(pcb.rcv_ann_right_edge)
    BY <1>3 DEF Pos
  <2> HIDE DEF Pos
  <2> QED BY <1>1, <1>2, <2>1 DEF Inside
<1>4. CASE s.seqno = pcb.rcv_nxt /\ TcpLen(s) = 1
  <2>1. Pos(s) = n
    BY <1>1, <1>4 DEF Pos
  <2> QED BY <1>4, <2>1 DEF Inside
<1> QED BY <1>3, <1>4 DEF MaySend

LEMMA OutputOK ==
  ASSUME NEW p, NEW n, NEW w, Window(p, n, w)
  PROVE  Window(Output(p), n, w) /\ Keeps(p, Output(p))
<1>1. Keeps(p, p)
  BY DEF Keeps
<1> QED BY <1>1, AnnouncedOK DEF Output

LEMMA HostWindow ==
  ASSUME NEW p, NEW m, NEW g, NEW o, NEW d, NEW x, NEW n, NEW w, Host(p, m, g, o, d, x, n, w)
  PROVE  Window(p, n, w)
  BY DEF Host, Rcv

LEMMA ArrivesOK ==
  ASSUME Inv, NEW s \in Segments, Arrives(s) PROVE Inv'
<1>1. PICK n, w : Host(pcb, mbox, got, owed, <<>>, 0, n, w)
  BY DEF Inv
<1> DEFINE host == Refused([p |-> pcb, m |-> mbox])
           r == Process(host.p, s)
           up == PassUp(host, r)
<1>2. SegOK(s) /\ Inside(s, n, w)
  <2>1. SegOK(s) /\ Window(pcb, n, w) /\ MaySend(s)
    BY <1>1, SegmentOK, HostWindow DEF Arrives
  <2> QED BY <2>1, MaySendInside
<1>3. PICK v : /\ Host(host.p, host.m, got, owed, <<>>, 0, n, v)
               /\ host.p.closeWait = pcb.closeWait /\ (~pcb.closeWait => v = w)
  <2> HIDE DEF r, up
  <2> QED BY <1>1, RefusedOK
<1>4. /\ IF host.p.refused # <<>> THEN Becomes(host)
         ELSE Becomes([p |-> Output(up.p), m |-> up.m])
      /\ got' = got /\ owed' = owed
  BY DEF Arrives
<1>5. host = [p |-> host.p, m |-> host.m]
  BY DEF Refused, Closed
<1> HIDE DEF host
<1>6. CASE host.p.refused # <<>>
  <2>1. pcb' = host.p /\ mbox' = host.m /\ got' = got /\ owed' = owed
    BY <1>4, <1>6 DEF Becomes
  <2> QED BY <1>3, <2>1 DEF Inv
<1>7. CASE host.p.refused = <<>>
  <2>1. ~host.p.closeWait => Inside(s, n, v)
    BY <1>2, <1>3
  <2>2. PICK k, y : Left(r, host.m, got, owed, k, y)
    BY <1>2, <1>3, <1>7, <2>1, ProcessOK
  <2>3. IsHost(up, got, owed)
    <3> HIDE DEF r
    <3>1. r.fin \in BOOLEAN
      BY <2>2 DEF Left
    <3>2. up = PassUp([p |-> host.p, m |-> host.m], r)
      BY <1>5
    <3> HIDE DEF up
    <3> QED BY <2>2, <3>1, <3>2, PassUpOK
  <2> HIDE DEF up
  <2>4. PICK a, b : Host(up.p, up.m, got, owed, <<>>, 0, a, b)
    BY <2>3 DEF IsHost
  <2>5. Host(Output(up.p), up.m, got, owed, <<>>, 0, a, b)
    <3>1. Window(Output(up.p), a, b) /\ Keeps(up.p, Output(up.p))
      BY <2>4, HostWindow, OutputOK
    <3> QED BY <2>4, <3>1, SameOK
  <2>6. pcb' = Output(up.p) /\ mbox' = up.m /\ got' = got /\ owed' = owed
    BY <1>4, <1>7 DEF Becomes
  <2> QED BY <2>5, <2>6 DEF Inv
<1> QED BY <1>6, <1>7

LEMMA FastTmrOK ==
  ASSUME Inv, FastTmr PROVE Inv'
<1>1. PICK n, w : Host(pcb, mbox, got, owed, <<>>, 0, n, w)
  BY DEF Inv
<1> DEFINE p == IF pcb.delayAck THEN Announced(pcb) ELSE pcb
           host == Refused([p |-> p, m |-> mbox])
<1>2. Host(p, mbox, got, owed, <<>>, 0, n, w)
  <2>1. Window(Announced(pcb), n, w) /\ Keeps(pcb, Announced(pcb))
    BY <1>1, HostWindow, AnnouncedOK
  <2>2. Host(Announced(pcb), mbox, got, owed, <<>>, 0, n, w)
    BY <1>1, <2>1, SameOK
  <2> QED BY <1>1, <2>2
<1>3. Becomes(host) /\ got' = got /\ owed' = owed
  BY DEF FastTmr
<1> HIDE DEF p
<1>4. PICK v : Host(host.p, host.m, got, owed, <<>>, 0, n, v)
  BY <1>2, RefusedOK
<1> HIDE DEF host
<1>5. pcb' = host.p /\ mbox' = host.m
  BY <1>3 DEF Becomes
<1> QED BY <1>3, <1>4, <1>5 DEF Inv

LEMMA DropOoseqOK ==
  ASSUME Inv, DropOoseq PROVE Inv'
<1>1. PICK n, w : Host(pcb, mbox, got, owed, <<>>, 0, n, w)
  BY DEF Inv
<1> DEFINE e == <<>>
           q == [pcb EXCEPT !.ooseq = e]
<1>2. /\ Window(q, n, w) /\ q.ooseq = e
      /\ q.refused = pcb.refused /\ q.refusedFin = pcb.refusedFin /\ q.closeWait = pcb.closeWait
  <2>1. Window(pcb, n, w) /\ e \in Seq(SegSet)
    BY <1>1, HostWindow
  <2> HIDE DEF e
  <2> QED BY <2>1, SetQueue
<1>3. pcb' = q /\ mbox' = mbox /\ got' = got /\ owed' = owed
  BY DEF DropOoseq
<1> HIDE DEF q
<1>4. Rcv(q, n, w)
  <2>1. QueueOK(q.ooseq, n + 1, n + w)
    BY <1>2, QueueEmpty
  <2> QED BY <1>1, <1>2, <2>1 DEF Host, Rcv
<1>5. Text(q, mbox, got, <<>>, n)
  BY <1>1, <1>2 DEF Host, Text, Reach
<1>6. Marks(q, mbox, got, <<>>, 0)
  BY <1>1, <1>2 DEF Host, Marks
<1>7. Room(q, mbox, got, owed, <<>>, 0, w)
  BY <1>1, <1>2 DEF Host, Room
<1> QED BY <1>3, <1>4, <1>5, <1>6, <1>7 DEF Inv, Host

LEMMA TransmitOK ==
  ASSUME Inv, Transmit PROVE Inv'
<1>1. PICK n, w : Host(pcb, mbox, got, owed, <<>>, 0, n, w)
  BY DEF Inv
<1>2. Window(Announced(pcb), n, w) /\ Keeps(pcb, Announced(pcb))
  BY <1>1, HostWindow, AnnouncedOK
<1>3. Host(Announced(pcb), mbox, got, owed, <<>>, 0, n, w)
  BY <1>1, <1>2, SameOK
<1> QED BY <1>3 DEF Inv, Transmit


LEMMA MaxTwo ==
  ASSUME NEW a \in Nat
  PROVE  Max({1, a}) = IF a <= 1 THEN 1 ELSE a
<1>1. PICK n \in Nat : n = a + 1
  OBVIOUS
<1>2. {1, a} \in SUBSET (0 .. n) /\ {1, a} # {}
  BY <1>1
<1>3. Max({1, a}) \in {1, a} /\ \A y \in {1, a} : y <= Max({1, a})
  BY <1>2, MaxIs
<1> QED BY <1>3

\* The task takes the head of the mailbox.
LEMMA FetchOK ==
  ASSUME Inv, Fetch PROVE Inv'
<1>1. PICK n, w : Host(pcb, mbox, got, owed, <<>>, 0, n, w)
  BY DEF Inv
<1> DEFINE c == Head(mbox)
           q == Tail(mbox)
           g == Append(got, c)
           e == <<>>
<1>2. /\ mbox # <<>> /\ owed = 0 /\ got' = g /\ mbox' = q /\ pcb' = pcb
      /\ owed' = Max({1, Len(c)})
  BY DEF Fetch
<1>3. /\ mbox \in Chunks /\ got \in Chunks /\ q \in Chunks /\ c \in Seq(Int)
      /\ FlattenSeq(mbox) = c \o FlattenSeq(q) /\ e \in Seq(Int) /\ Len(e) = 0
  <2>1. mbox \in Chunks /\ got \in Chunks
    BY <1>1 DEF Host, Text
  <2> QED BY <1>2, <2>1, FlatTail
<1>4. FlattenSeq(g) = FlattenSeq(got) \o c /\ g \in Chunks
  BY <1>3, FlatAppend
<1>5. /\ FlattenSeq(got) \in Seq(Int) /\ FlattenSeq(q) \in Seq(Int) /\ FlattenSeq(mbox) \in Seq(Int)
      /\ Len(FlattenSeq(q)) \in Nat /\ Len(c) \in Nat
      /\ Len(FlattenSeq(mbox)) = Len(c) + Len(FlattenSeq(q))
  BY <1>3, FlatType
<1>6. /\ Len(mbox) = Len(q) + 1 /\ Len(q) \in Nat /\ mbox[1] = c
      /\ \A i \in 1 .. Len(q) : q[i] = mbox[i + 1]
      /\ Len(g) = Len(got) + 1 /\ Len(got) \in Nat /\ g[Len(got) + 1] = c
      /\ \A i \in 1 .. Len(got) : g[i] = got[i]
  BY <1>2, <1>3, HeadTailProperties DEF Chunks
<1>7. /\ pcb.refused \in Seq(Int) /\ Len(pcb.refused) \in Nat /\ pcb.refusedFin \in BOOLEAN
      /\ w \in Int /\ 0 <= w /\ w <= WndMax /\ WndMax \in Nat /\ WndMax # 0 /\ MboxSize \in Nat
  <2>1. Window(pcb, n, w) /\ Edges(pcb, n, w) /\ pcb \in Pcbs
    BY <1>1, HostWindow DEF Window, Edges
  <2> QED BY <2>1, EdgesAre, Constants DEF Pcbs
<1>8. /\ Len(mbox) <= MboxSize
      /\ \A i \in 1 .. Len(mbox) : mbox[i] = e => i = Len(mbox)
      /\ \A i \in 1 .. Len(got) : got[i] = e => i = Len(got) /\ mbox = e
      /\ Marked(got) \/ Marked(mbox) => pcb.closeWait /\ pcb.refused = e
  BY <1>1 DEF Host, Marks
<1>9. ~Marked(got)
  BY <1>2, <1>8 DEF Marked
<1>10. w + Len(FlattenSeq(mbox)) + Len(pcb.refused) + 0 + (IF pcb.refusedFin THEN 1 ELSE 0) + 0 + 0 = WndMax
  BY <1>1, <1>2, <1>3, <1>9 DEF Host, Room
<1> HIDE DEF c, q, g, e
<1>11. Text(pcb, q, g, e, n)
  <2>1. ASSUME NEW x \in Seq(Int), NEW y \in Seq(Int), NEW z \in Seq(Int)
        PROVE  (x \o y) \o z = x \o (y \o z)
    BY ConcatAssoc
  <2>2. (FlattenSeq(got) \o c) \o FlattenSeq(q) = FlattenSeq(got) \o (c \o FlattenSeq(q))
    BY <1>3, <1>5, <2>1, ZenonT(60)
  <2>3. ((FlattenSeq(got) \o FlattenSeq(mbox)) \o pcb.refused) \o e = Bytes(0, Reach(pcb, n))
    BY <1>1 DEF Host, Text, e
  <2> QED BY <1>3, <1>4, <2>2, <2>3 DEF Text
<1>12. CASE c = e
  <2>1. Len(mbox) = 1 /\ Marked(mbox)
    <3>1. 1 \in 1 .. Len(mbox)
      BY <1>6
    <3> QED BY <1>6, <1>8, <1>12, <3>1 DEF Marked, e
  <2>2. q = e /\ Len(q) = 0
    <3>1. Len(mbox) = Len(q) + 1 /\ Len(q) \in Nat
      BY <1>6
    <3>2. Len(q) = 0
      BY <2>1, <3>1
    <3> QED BY <1>3, <3>2 DEF Chunks, e
  <2>3. pcb.closeWait /\ pcb.refused = e
    BY <1>8, <2>1
  <2>4. ~pcb.refusedFin
    BY <1>1, <2>3 DEF Host, Rcv, e
  <2>5. w = WndMax
    <3>1. Len(FlattenSeq(q)) = 0
      BY <1>3, <2>2, FlatEmpty DEF e
    <3>2. Len(FlattenSeq(mbox)) = 0
      BY <1>3, <1>5, <1>12, <3>1
    <3> QED BY <1>3, <1>7, <1>10, <2>3, <2>4, <3>2
  <2>6. owed' = 1
    <3>1. Max({1, 0}) = 1
      BY MaxTwo
    <3> QED BY <1>2, <1>3, <1>12, <3>1
  <2>7. Marked(g)
    <3>1. Len(got) + 1 \in 1 .. Len(g)
      BY <1>6
    <3> QED BY <1>6, <1>12, <3>1 DEF Marked, e
  <2>8. Marks(pcb, q, g, e, 0)
    <3>1. \A i \in 1 .. Len(g) : g[i] = e => i = Len(g) /\ q = e
      <4>1. ASSUME NEW i \in 1 .. Len(g), g[i] = e PROVE i = Len(g)
        <5>1. i \in 1 .. Len(got) \/ i = Len(got) + 1
          BY <1>6
        <5>2. i \notin 1 .. Len(got)
          BY <1>6, <1>9, <4>1 DEF Marked, e
        <5> QED BY <1>6, <5>1, <5>2
      <4> QED BY <2>2, <4>1
    <3>2. Len(q) <= MboxSize /\ \A i \in 1 .. Len(q) : q[i] = e => i = Len(q)
      BY <1>7, <2>2
    <3> QED BY <2>3, <3>1, <3>2 DEF Marks, e
  <2>9. Room(pcb, q, g, 1, e, 0, w)
    BY <1>7, <2>5, <2>7 DEF Room
  <2>10. Host(pcb, q, g, 1, e, 0, n, w)
    BY <1>1, <1>11, <2>8, <2>9 DEF Host
  <2> QED BY <1>2, <2>6, <2>10 DEF Inv, e
<1>13. CASE c # e
  <2>1. Len(c) >= 1
    <3>1. Len(c) # 0
      BY <1>3, <1>13 DEF e
    <3> QED BY <1>5, <3>1
  <2>2. owed' = Len(c)
    <3>1. PICK a \in Nat : a = Len(c)
      BY <1>5
    <3>2. Max({1, a}) = a
      BY <2>1, <3>1, MaxTwo
    <3> QED BY <1>2, <3>1, <3>2
  <2>3. ~Marked(g)
    <3>1. ASSUME NEW i \in 1 .. Len(g) PROVE g[i] # e
      <4>1. i \in 1 .. Len(got) \/ i = Len(got) + 1
        BY <1>6
      <4> QED BY <1>6, <1>9, <1>13, <4>1 DEF Marked, e
    <3> QED BY <3>1 DEF Marked, e
  <2>4. Marks(pcb, q, g, e, 0)
    <3>1. Len(q) <= MboxSize
      BY <1>6, <1>7, <1>8
    <3>2. ASSUME NEW i \in 1 .. Len(q), q[i] = e
          PROVE  i = Len(q) /\ Marked(mbox)
      <4>1. i + 1 \in 1 .. Len(mbox) /\ mbox[i + 1] = e
        BY <1>6, <3>2
      <4>2. i + 1 = Len(mbox)
        BY <1>8, <4>1
      <4> QED BY <1>6, <4>1, <4>2 DEF Marked, e
    <3>3. Marked(q) => Marked(mbox)
      BY <3>2 DEF Marked, e
    <3> QED BY <1>8, <2>3, <3>1, <3>2, <3>3 DEF Marks, Marked, e
  <2>5. Room(pcb, q, g, Len(c), e, 0, w)
    <3>1. PICK b \in {0, 1} : b = IF pcb.refusedFin THEN 1 ELSE 0
      OBVIOUS
    <3>2. b \in Int /\ 0 <= b
      OBVIOUS
    <3>3. w + Len(FlattenSeq(mbox)) + Len(pcb.refused) + 0 + b + 0 + 0 = WndMax
      BY <1>10, <3>1
    <3>4. ASSUME NEW x1 \in Nat, NEW x2 \in Nat, NEW x3 \in Nat, NEW x4 \in Int,
                 w + x4 + x3 + 0 + b + 0 + 0 = WndMax, x4 = x1 + x2
          PROVE  w + x2 + x3 + x1 + b + 0 + 0 = WndMax /\ x1 \in 0 .. WndMax
      BY <1>7, <3>2, <3>4
    <3>5. w + Len(FlattenSeq(q)) + Len(pcb.refused) + Len(c) + b + 0 + 0 = WndMax
          /\ Len(c) \in 0 .. WndMax
      <4>1. Len(FlattenSeq(mbox)) \in Int
        BY <1>5
      <4> QED BY <1>5, <1>7, <3>3, <3>4, <4>1
    <3> QED BY <1>3, <2>3, <3>1, <3>5 DEF Room
  <2>6. Host(pcb, q, g, Len(c), e, 0, n, w)
    BY <1>1, <1>11, <2>4, <2>5 DEF Host
  <2> QED BY <1>2, <2>2, <2>6 DEF Inv, e
<1> QED BY <1>12, <1>13

\* What the task reports is free again; the queue fits into more.
LEMMA DoRecvOK ==
  ASSUME Inv, DoRecv PROVE Inv'
<1>1. PICK n, w : Host(pcb, mbox, got, owed, <<>>, 0, n, w)
  BY DEF Inv
<1> DEFINE y == Min({pcb.rcv_wnd + owed, WndMax})
           q == [pcb EXCEPT !.rcv_wnd = y]
           more == tcp_update_rcv_ann_wnd(q)
           rcvd == tcp_recved(pcb, owed)
           e == <<>>
<1>2. /\ pcb' = Output(rcvd) /\ owed' = 0 /\ mbox' = mbox /\ got' = got
  BY DEF DoRecv
<1>3. /\ pcb \in Pcbs /\ n \in 0 .. (StreamLen + 1) /\ w \in 0 .. WndMax /\ n \in Int /\ w \in Int
      /\ pcb.rcv_nxt = At(n) /\ pcb.rcv_wnd = w /\ WndMax \in Int
      /\ Offset(pcb.rcv_ann_right_edge) <= n + w /\ Offset(pcb.rcv_ann_right_edge) \in Int
  <2>1. Edges(pcb, n, w)
    BY <1>1, HostWindow DEF Window
  <2> QED BY <2>1, EdgesAre, Constants DEF Edges
<1>4. owed \in 0 .. WndMax /\ owed \in Int
  BY <1>1, Constants DEF Host, Room
<1>5. rcvd = more \/ rcvd = tcp_ack_now(more)
  BY DEF tcp_recved
<1> HIDE DEF rcvd
<1>6. /\ mbox \in Chunks /\ Len(FlattenSeq(mbox)) \in Nat
      /\ pcb.refused \in Seq(Int) /\ Len(pcb.refused) \in Nat /\ Len(e) = 0
  <2>1. mbox \in Chunks
    BY <1>1 DEF Host, Text
  <2> QED BY <1>3, <2>1, FlatType DEF Pcbs
<1>7. /\ Marked(got) => w = WndMax
      /\ ~Marked(got) => w + Len(FlattenSeq(mbox)) + Len(pcb.refused) + owed
                           + (IF pcb.refusedFin THEN 1 ELSE 0) + 0 + 0 = WndMax
  BY <1>1, <1>6 DEF Host, Room
<1>8. y = IF w + owed <= WndMax THEN w + owed ELSE WndMax
  BY <1>3, <1>4, MinIs
<1> HIDE DEF y
<1>9. y \in 0 .. WndMax /\ y \in Int /\ w <= y
  BY <1>3, <1>4, <1>8
<1>10. /\ q \in Pcbs /\ q.rcv_nxt = pcb.rcv_nxt /\ q.rcv_wnd = y
       /\ q.rcv_ann_right_edge = pcb.rcv_ann_right_edge
       /\ q.ooseq = pcb.ooseq /\ q.refused = pcb.refused
       /\ q.refusedFin = pcb.refusedFin /\ q.closeWait = pcb.closeWait
  BY <1>3, <1>9 DEF Pcbs
<1> HIDE DEF q
<1>11. Edges(q, n, y) /\ Keeps(pcb, q)
  <2>1. Offset(pcb.rcv_ann_right_edge) <= n + y
    BY <1>3, <1>9
  <2> QED BY <1>3, <1>9, <1>10, <2>1 DEF Edges, Keeps
<1>12. Window(more, n, y) /\ Keeps(pcb, more)
  BY <1>11, UpdateOK, KeepsTwice
<1> HIDE DEF more
<1>13. Window(rcvd, n, y) /\ Keeps(pcb, rcvd)
  BY <1>5, <1>12, AckOK, KeepsTwice
<1> DEFINE z == Output(rcvd)
<1>14. Window(z, n, y) /\ Keeps(pcb, z)
  BY <1>13, OutputOK, KeepsTwice
<1> HIDE DEF z
<1>15. z.ooseq = pcb.ooseq /\ z.refused = pcb.refused /\ z.refusedFin = pcb.refusedFin
       /\ z.closeWait = pcb.closeWait
  BY <1>14 DEF Keeps
<1>16. Rcv(z, n, y)
  <2>1. Rcv(pcb, n, w)
    BY <1>1 DEF Host
  <2>2. QueueOK(pcb.ooseq, n + 1, n + y)
    <3>1. QueueOK(pcb.ooseq, n + 1, n + w)
      BY <2>1 DEF Rcv
    <3>2. ASSUME NEW i \in 1 .. Len(pcb.ooseq)
          PROVE  SegIn(pcb.ooseq[i], n + 1, n + y)
      <4>1. SegIn(pcb.ooseq[i], n + 1, n + w) /\ SegOK(pcb.ooseq[i])
        BY <3>1 DEF QueueOK, SegIn
      <4>2. Pos(pcb.ooseq[i]) \in Int /\ TcpLen(pcb.ooseq[i]) \in Int
        BY <4>1, SegNums
      <4>3. Pos(pcb.ooseq[i]) + TcpLen(pcb.ooseq[i]) <= n + w
        BY <4>1 DEF SegIn
      <4> HIDE DEF Pos, TcpLen
      <4>4. Pos(pcb.ooseq[i]) + TcpLen(pcb.ooseq[i]) <= n + y
        BY <1>3, <1>9, <4>2, <4>3
      <4> QED BY <4>1, <4>4 DEF SegIn
    <3> QED BY <3>1, <3>2 DEF QueueOK
  <2> QED BY <1>14, <1>15, <2>1, <2>2 DEF Rcv
<1>17. Text(z, mbox, got, e, n)
  BY <1>1, <1>15 DEF Host, Text, Reach
<1>18. Marks(z, mbox, got, e, 0)
  BY <1>1, <1>15 DEF Host, Marks
<1>19. Room(z, mbox, got, 0, e, 0, y)
  <2>1. CASE Marked(got)
    <3>1. y = WndMax
      BY <1>3, <1>7, <1>9, <2>1
    <3> QED BY <1>3, <1>9, <2>1, <3>1 DEF Room
  <2>2. CASE ~Marked(got)
    <3>1. PICK b \in {0, 1} : b = IF pcb.refusedFin THEN 1 ELSE 0
      OBVIOUS
    <3>2. ASSUME NEW x1 \in Nat, NEW x2 \in Nat, w + x1 + x2 + owed + b + 0 + 0 = WndMax
          PROVE  y + x1 + x2 + 0 + b + 0 + 0 = WndMax
      <4>1. b \in Int /\ 0 <= b
        OBVIOUS
      <4> QED BY <1>3, <1>4, <1>8, <3>2, <4>1
    <3>3. y + Len(FlattenSeq(mbox)) + Len(pcb.refused) + 0 + b + 0 + 0 = WndMax
      BY <1>6, <1>7, <2>2, <3>1, <3>2
    <3>4. 0 \in 0 .. WndMax
      BY Constants
    <3> QED BY <1>6, <1>15, <2>2, <3>1, <3>3, <3>4 DEF Room
  <2> QED BY <2>1, <2>2
<1>20. Host(z, mbox, got, 0, e, 0, n, y)
  BY <1>16, <1>17, <1>18, <1>19 DEF Host
<1> QED BY <1>2, <1>20 DEF Inv, z, e

-----------------------------------------------------------------------------
(* The invariant *)

LEMMA InitInv ==
  ASSUME Init PROVE Inv
<1> DEFINE e == <<>>
           irs == At(0)
           edge == At(WndMax)
<1>1. /\ WndMax \in Nat /\ WndMax # 0 /\ StreamLen \in Nat /\ WndMax < SeqSpace /\ MboxSize \in Nat
  BY Constants
<1>2. Irs = irs /\ irs \in 0 .. (SeqSpace - 1) /\ edge \in 0 .. (SeqSpace - 1)
      /\ Offset(edge) = WndMax /\ Plus(Irs, WndMax) = edge
  <2>1. Irs = At(0)
    BY Constants DEF At, Plus
  <2>2. 0 <= WndMax /\ WndMax \in Int /\ 0 \in Int
    BY <1>1
  <2>3. At(0) \in 0 .. (SeqSpace - 1) /\ At(WndMax) \in 0 .. (SeqSpace - 1)
    BY <2>2, AtIs
  <2>4. Offset(At(WndMax)) = WndMax
    BY <1>1, <2>2, OffsetAt
  <2> QED BY <2>1, <2>3, <2>4 DEF At
<1> HIDE DEF irs, edge
<1>3. /\ pcb \in Pcbs /\ pcb.rcv_nxt = irs /\ pcb.rcv_wnd = WndMax /\ pcb.rcv_ann_wnd = WndMax
      /\ pcb.rcv_ann_right_edge = edge /\ pcb.ooseq = e /\ pcb.refused = e
      /\ ~pcb.refusedFin /\ ~pcb.closeWait
  <2>1. pcb = [rcv_nxt |-> irs, rcv_wnd |-> WndMax, rcv_ann_wnd |-> WndMax,
               rcv_ann_right_edge |-> edge, ooseq |-> e, refused |-> e,
               refusedFin |-> FALSE, delayAck |-> FALSE, ackNow |-> FALSE, closeWait |-> FALSE]
    BY <1>2 DEF Init
  <2>2. e \in Seq(SegSet) /\ e \in Seq(Int) /\ WndMax \in Int
    BY <1>1
  <2> HIDE DEF e
  <2> QED BY <1>1, <1>2, <2>1, <2>2 DEF Pcbs
<1>4. mbox = e /\ got = e /\ owed = 0
  BY DEF Init
<1>5. Window(pcb, 0, WndMax)
  BY <1>1, <1>2, <1>3 DEF Window, Edges, irs
<1>6. Rcv(pcb, 0, WndMax)
  <2>1. QueueOK(pcb.ooseq, 0 + 1, 0 + WndMax)
    BY <1>3, QueueEmpty
  <2> QED BY <1>1, <1>3, <1>5, <2>1 DEF Rcv
<1>7. Text(pcb, mbox, got, e, 0)
  <2>1. FlattenSeq(e) = e /\ e \in Chunks /\ e \in Seq(Int)
    BY FlatEmpty
  <2>2. ((e \o e) \o e) \o e = e
    OBVIOUS
  <2>3. e = Bytes(0, 0)
    BY BytesNone
  <2> HIDE DEF e
  <2> QED BY <1>3, <1>4, <2>1, <2>2, <2>3 DEF Text, Reach
<1>8. Len(e) = 0 /\ ~Marked(e)
  BY DEF Marked
<1>9. Marks(pcb, mbox, got, e, 0)
  BY <1>1, <1>4, <1>8 DEF Marks
<1>10. Room(pcb, mbox, got, owed, e, 0, WndMax)
  <2>1. FlattenSeq(e) = e
    BY FlatEmpty
  <2> HIDE DEF e
  <2> QED BY <1>1, <1>3, <1>4, <1>8, <2>1 DEF Room
<1>11. Host(pcb, mbox, got, owed, e, 0, 0, WndMax)
  BY <1>6, <1>7, <1>9, <1>10 DEF Host
<1> QED BY <1>11 DEF Inv

LEMMA NextInv ==
  ASSUME Inv, [Next]_vars PROVE Inv'
<1>1. CASE \E s \in Segments : Arrives(s)
  BY <1>1, ArrivesOK
<1>2. CASE FastTmr
  BY <1>2, FastTmrOK
<1>3. CASE DropOoseq
  BY <1>3, DropOoseqOK
<1>4. CASE Transmit
  BY <1>4, TransmitOK
<1>5. CASE Fetch
  BY <1>5, FetchOK
<1>6. CASE DoRecv
  BY <1>6, DoRecvOK
<1>7. CASE UNCHANGED vars
  BY <1>7 DEF Inv, vars
<1> QED BY <1>1, <1>2, <1>3, <1>4, <1>5, <1>6, <1>7 DEF Next

LEMMA Always == Spec => []Inv
<1>1. Init => Inv
  BY InitInv
<1>2. Inv /\ [Next]_vars => Inv'
  BY NextInv
<1> QED BY <1>1, <1>2, PTL DEF Spec

-----------------------------------------------------------------------------
(* What the invariant says *)

LEMMA MarkedIs ==
  ASSUME NEW m \in Chunks PROVE EOF \in Range(m) <=> Marked(m)
<1>1. DOMAIN m = 1 .. Len(m)
  BY DEF Chunks
<1>2. EOF \in Range(m) <=> \E i \in DOMAIN m : m[i] = EOF
  BY DEF Range
<1> QED BY <1>1, <1>2 DEF Marked, EOF

LEMMA InvType == Inv => TypeOK
<1> SUFFICES ASSUME Inv PROVE TypeOK
  OBVIOUS
<1>1. PICK n, w : Host(pcb, mbox, got, owed, <<>>, 0, n, w)
  BY DEF Inv
<1>2. Rcv(pcb, n, w) /\ Window(pcb, n, w) /\ Edges(pcb, n, w)
  BY <1>1, HostWindow DEF Host, Window
<1>3. /\ pcb.rcv_nxt \in 0 .. SeqSpace - 1 /\ pcb.rcv_wnd = w /\ w \in 0 .. WndMax
      /\ pcb.rcv_ann_wnd \in 0 .. w
  BY <1>2 DEF Window, Edges, Pcbs
<1>4. pcb.rcv_wnd \in 0 .. WndMax /\ pcb.rcv_ann_wnd \in 0 .. WndMax
  BY <1>3, Constants
<1>5. pcb.refusedFin => pcb.refused # <<>>
  BY <1>2 DEF Rcv
<1>6. Len(mbox) <= MboxSize /\ owed \in 0 .. WndMax
  BY <1>1 DEF Host, Marks, Room
<1> QED BY <1>3, <1>4, <1>5, <1>6 DEF TypeOK

LEMMA InvStream == Inv => StreamIntact
<1> SUFFICES ASSUME Inv PROVE StreamIntact
  OBVIOUS
<1> DEFINE e == <<>>
<1>1. PICK n, w : Host(pcb, mbox, got, owed, e, 0, n, w)
  BY DEF Inv
<1>2. /\ Offset(pcb.rcv_nxt) = n /\ n \in Int /\ 0 <= n /\ pcb.refused \in Seq(Int)
      /\ StreamLen \in Nat
  <2>1. Edges(pcb, n, w)
    BY <1>1, HostWindow DEF Window
  <2> QED BY <2>1, EdgesAre, Constants DEF Edges, Pcbs
<1>3. /\ pcb.closeWait => n = StreamLen + 1
      /\ ~pcb.closeWait => n <= StreamLen
  BY <1>1 DEF Host, Rcv
<1> DEFINE b == Reach(pcb, n)
<1>4. /\ b \in Int /\ 0 <= b /\ b <= StreamLen /\ n = b + (IF pcb.closeWait THEN 1 ELSE 0)
      /\ pcb.closeWait => b = StreamLen
  BY <1>2, <1>3 DEF Reach
<1>5. mbox \in Chunks /\ got \in Chunks
  BY <1>1 DEF Host, Text
<1>6. Passed \in Seq(Int) /\ Passed = Bytes(0, b)
  <2>1. FlattenSeq(got) \in Seq(Int) /\ FlattenSeq(mbox) \in Seq(Int)
    BY <1>5, FlatType
  <2>2. Passed \in Seq(Int)
    BY <1>2, <2>1 DEF Passed
  <2>3. Passed \o e = Bytes(0, b)
    BY <1>1 DEF Host, Text, Passed
  <2>4. Passed \o e = Passed
    BY <2>2
  <2> QED BY <2>2, <2>3, <2>4
<1> HIDE DEF b
<1>7. Len(Passed) = b
  <2>1. Len(Bytes(0, b)) = b - 0
    BY <1>4, BytesIs
  <2> QED BY <1>4, <1>6, <2>1
<1>8. ASSUME NEW c \in Int, 0 <= c, c <= StreamLen PROVE SubSeq(Stream, 1, c) = Bytes(0, c)
  <2>1. /\ Stream \in Seq(Int) /\ Len(Stream) = StreamLen
        /\ \A k \in 1 .. StreamLen : Stream[k] = k
    BY <1>2 DEF Stream
  <2> DEFINE d == SubSeq(Stream, 1, c)
  <2>2. d \in Seq(Int) /\ Len(d) = c - 0 /\ \A k \in 1 .. c : d[k] = Stream[k]
    BY <1>2, <1>8, <2>1
  <2> HIDE DEF d
  <2>3. \A k \in 1 .. Len(d) : d[k] = 0 + k
    BY <1>2, <1>8, <2>1, <2>2
  <2>4. d = Bytes(0, c)
    BY <1>8, <2>2, <2>3, BytesSame
  <2> QED BY <2>4 DEF d
<1>9. Passed = SubSeq(Stream, 1, Len(Passed))
  BY <1>4, <1>6, <1>7, <1>8
<1>10. pcb.closeWait => Passed = Stream
  <2>1. SubSeq(Stream, 1, StreamLen) = Stream
    BY <1>2 DEF Stream
  <2> QED BY <1>4, <1>7, <1>9, <2>1
<1>11. /\ \A i \in 1 .. Len(got) : got[i] = EOF => i = Len(got) /\ mbox = <<>>
       /\ Marked(got) \/ Marked(mbox) => pcb.closeWait /\ pcb.refused = <<>>
  BY <1>1 DEF Host, Marks, EOF
<1>12. EOF \in Range(got) \cup Range(mbox) => pcb.closeWait /\ pcb.refused = <<>>
  BY <1>5, <1>11, MarkedIs
<1>13. Offset(pcb.rcv_nxt) = Len(Passed) + (IF pcb.closeWait THEN 1 ELSE 0)
  BY <1>2, <1>4, <1>7
<1> QED BY <1>9, <1>10, <1>11, <1>12, <1>13 DEF StreamIntact

LEMMA InvQueue == Inv => QueueInOrder
<1> SUFFICES ASSUME Inv PROVE QueueInOrder
  OBVIOUS
<1> DEFINE q == pcb.ooseq
<1>1. PICK n, w : Host(pcb, mbox, got, owed, <<>>, 0, n, w)
  BY DEF Inv
<1>2. /\ n \in Int /\ 0 <= n /\ n \in Position /\ pcb.rcv_nxt = At(n)
      /\ QueueOK(q, n + 1, n + w) /\ Len(q) \in Nat
  <2>1. Edges(pcb, n, w) /\ QueueOK(q, n + 1, n + w)
    BY <1>1, HostWindow DEF Window, Host, Rcv
  <2>2. n \in Int /\ 0 <= n /\ n \in Position /\ pcb.rcv_nxt = At(n)
    BY <2>1, EdgesAre DEF Edges
  <2>3. Len(q) \in Nat
    BY <2>1 DEF QueueOK
  <2> QED BY <2>1, <2>2, <2>3
<1> HIDE DEF q
<1>3. ASSUME NEW i \in 1 .. Len(q)
      PROVE  /\ SegOK(q[i]) /\ Pos(q[i]) \in Position /\ End(q[i]) \in Position
             /\ Pos(q[i]) > n /\ q[i].seqno = At(Pos(q[i])) /\ DataEnd(q[i]) = At(End(q[i]))
             /\ End(q[i]) \in Int /\ 0 <= End(q[i]) /\ End(q[i]) < SeqSpace
  <2>1. SegIn(q[i], n + 1, n + w) /\ SegOK(q[i])
    BY <1>2, QueueIs
  <2>2. /\ Pos(q[i]) \in Int /\ End(q[i]) \in Int /\ 0 <= Pos(q[i]) /\ 0 <= Len(q[i].data)
        /\ Len(q[i].data) \in Int /\ End(q[i]) = Pos(q[i]) + Len(q[i].data) /\ End(q[i]) <= StreamLen
        /\ Pos(q[i]) <= StreamLen
    BY <2>1, SegNums
  <2>3. n + 1 <= Pos(q[i])
    BY <2>1 DEF SegIn
  <2>4. q[i].seqno = At(Pos(q[i])) /\ DataEnd(q[i]) = At(End(q[i]))
    BY <2>1, SegIs
  <2> HIDE DEF Pos, End
  <2> QED BY <1>2, <2>1, <2>2, <2>3, <2>4, Constants, SMTT(30) DEF Position
<1>4. ASSUME NEW i \in 1 .. Len(q)
      PROVE  SeqGT(q[i].seqno, pcb.rcv_nxt)
  BY <1>2, <1>3, InOrder
<1>5. ASSUME NEW i \in 1 .. Len(q), NEW k \in 1 .. Len(q[i].data)
      PROVE  q[i].data[k] = Offset(q[i].seqno) + k
  <2>1. q[i].data[k] = Pos(q[i]) + k
    BY <1>3 DEF SegOK
  <2> QED BY <2>1 DEF Pos
<1>6. ASSUME NEW i \in 1 .. Len(q), i < Len(q)
      PROVE  ~q[i].fin /\ SeqLEQ(DataEnd(q[i]), q[i + 1].seqno)
  <2>1. PICK j \in 1 .. Len(q) : j = i + 1 /\ i < j
    BY <1>2, <1>6
  <2>2. ~q[i].fin /\ End(q[i]) <= Pos(q[j])
    BY <1>2, <2>1 DEF QueueOK, Behind
  <2>3. SeqLEQ(At(End(q[i])), At(Pos(q[j])))
    <3>1. End(q[i]) \in Position /\ Pos(q[j]) \in Position
      BY <1>3
    <3> QED BY <2>2, <3>1, InOrder
  <2>4. DataEnd(q[i]) = At(End(q[i])) /\ q[j].seqno = At(Pos(q[j]))
    BY <1>3
  <2> QED BY <2>1, <2>2, <2>3, <2>4
<1>7. ASSUME NEW i \in 1 .. Len(q), q[i].fin PROVE Offset(DataEnd(q[i])) = StreamLen
  <2>1. End(q[i]) = StreamLen
    BY <1>3, <1>7 DEF SegOK
  <2>2. Offset(At(End(q[i]))) = End(q[i])
    BY <1>3, OffsetAt
  <2> QED BY <1>3, <2>1, <2>2
<1> QED BY <1>4, <1>5, <1>6, <1>7 DEF QueueInOrder, q

LEMMA InvWindow == Inv => WindowAccounted /\ PromiseKept
<1> SUFFICES ASSUME Inv PROVE WindowAccounted /\ PromiseKept
  OBVIOUS
<1> DEFINE e == <<>>
<1>1. PICK n, w : Host(pcb, mbox, got, owed, e, 0, n, w)
  BY DEF Inv
<1>2. /\ Offset(pcb.rcv_nxt) = n /\ pcb.rcv_wnd = w /\ w \in Int
      /\ Offset(pcb.rcv_ann_right_edge) <= n + w /\ pcb.refused \in Seq(Int)
  <2>1. Edges(pcb, n, w)
    BY <1>1, HostWindow DEF Window
  <2> QED BY <2>1, EdgesAre DEF Edges, Pcbs
<1>3. PromiseKept
  BY <1>2 DEF PromiseKept
<1>4. mbox \in Chunks /\ got \in Chunks /\ Len(e) = 0 /\ owed \in Int
  <2>1. owed \in 0 .. WndMax
    BY <1>1 DEF Host, Room
  <2> QED BY <1>1, <2>1, Constants DEF Host, Text
<1>5. EOF \in Range(got) <=> Marked(got)
  BY <1>4, MarkedIs
<1>6. CASE Marked(got)
  <2>1. pcb.rcv_wnd = WndMax
    BY <1>1, <1>2, <1>6 DEF Host, Room
  <2> QED BY <1>3, <1>5, <1>6, <2>1 DEF WindowAccounted
<1>7. CASE ~Marked(got)
  <2>1. w + Len(FlattenSeq(mbox)) + Len(pcb.refused) + owed
          + (IF pcb.refusedFin THEN 1 ELSE 0) + 0 + 0 = WndMax
    BY <1>1, <1>4, <1>7 DEF Host, Room
  <2>2. PICK b \in {0, 1} : b = IF pcb.refusedFin THEN 1 ELSE 0
    OBVIOUS
  <2>3. Len(FlattenSeq(mbox)) \in Int /\ Len(pcb.refused) \in Int /\ b \in Int
    BY <1>2, <1>4, FlatType
  <2>4. ASSUME NEW x1 \in Int, NEW x2 \in Int, w + x1 + x2 + owed + b + 0 + 0 = WndMax
        PROVE  w + x1 + x2 + owed + b = WndMax
    BY <1>2, <1>4, <2>3, <2>4
  <2>5. w + Len(FlattenSeq(mbox)) + Len(pcb.refused) + owed + b = WndMax
    BY <2>1, <2>2, <2>3, <2>4
  <2> QED BY <1>2, <1>3, <1>5, <1>7, <2>2, <2>5 DEF WindowAccounted
<1> QED BY <1>6, <1>7

\* The pcb, the mailbox and what the task owes stay in their ranges: the
\* assertions of tcp_receive on rcv_wnd hold, whatever arrives.
THEOREM PcbTyped == Spec => []TypeOK
  BY Always, InvType, PTL

\* The application gets the bytes of the stream, each once and in order, and
\* an EOF mark only behind the last one (tcp_receive, tcp_input, recv_tcp).
THEOREM StreamComesIntact == Spec => []StreamIntact
  BY Always, InvStream, PTL

\* The queue of tcp_receive stays ordered and apart, and each of its segments
\* holds the bytes of its sequence numbers, where tcp_oos_insert_segment and
\* the trimming cut it.
THEOREM QueueStaysInOrder == Spec => []QueueInOrder
  BY Always, InvQueue, PTL

\* No byte of the receive window leaks or is given away twice between
\* tcp_receive, refused_data, the mailbox and tcp_recved.
THEOREM NoWindowLost == Spec => []WindowAccounted
  BY Always, InvWindow, PTL

\* What tcp_update_rcv_ann_wnd announced stays inside the window.
THEOREM PromisesKept == Spec => []PromiseKept
  BY Always, InvWindow, PTL
===============================================================================
