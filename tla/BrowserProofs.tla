---------------------------- MODULE BrowserProofs ----------------------------
(***************************************************************************)
(* Proofs about what a browser gets: about DevDownloads, for every size of *)
(* the ring buffer, of the flash and of a chunk and every range that is    *)
(* asked for, and about Page, for all names, buffers and partitions.       *)
(***************************************************************************)
EXTENDS DevDownloads, Page, FiniteSetTheorems, FunctionTheorems, SequenceTheorems,
        WellFoundedInduction, TLAPS

(***************************************************************************)
(* Runs of consecutive bytes.                                              *)
(***************************************************************************)

\* The bytes numbered a to b - 1.
Run(a, b) == [i \in 1..(b-a) |-> a + i - 1]

LEMMA RunIs ==
  ASSUME NEW a \in Int, NEW b \in Int, a <= b
  PROVE  /\ Run(a, b) \in Seq(Int) /\ Len(Run(a, b)) = b - a
         /\ \A i \in 1..(b-a) : Run(a, b)[i] = a + i - 1
  BY DEF Run

LEMMA RunLength == ASSUME NEW a \in Int, NEW n \in Nat PROVE Len(Run(a, a + n)) = n
<1>1. a + n \in Int /\ a <= a + n /\ (a + n) - a = n
  OBVIOUS
<1>2. Len(Run(a, a + n)) = (a + n) - a
  BY <1>1, RunIs
<1> QED BY <1>1, <1>2

LEMMA IsRun ==
  ASSUME NEW a \in Int, NEW n \in Nat, NEW s \in Seq(Int), Len(s) = n,
         \A i \in 1..n : s[i] = a + i - 1
  PROVE  s = Run(a, a + n)
<1> DEFINE u == Run(a, a + n)
<1>1. a + n \in Int /\ a <= a + n /\ (a + n) - a = n
  OBVIOUS
<1>2. u \in Seq(Int) /\ Len(u) = n /\ \A i \in 1..n : u[i] = a + i - 1
  <2>1. u \in Seq(Int) /\ Len(u) = (a + n) - a
    BY <1>1, RunIs
  <2>2. \A i \in 1..n : u[i] = a + i - 1
    BY <1>1 DEF Run
  <2> QED BY <1>1, <2>1, <2>2
<1> HIDE DEF u
<1>3. Len(s) = Len(u) /\ \A i \in 1..Len(s) : s[i] = u[i]
  BY <1>2
<1>4. s = u
  BY <1>2, <1>3, SeqEqual
<1> QED BY <1>4 DEF u

LEMMA RunJoin ==
  ASSUME NEW a \in Int, NEW b \in Int, NEW c \in Int, a <= b, b <= c
  PROVE  Run(a, b) \o Run(b, c) = Run(a, c)
<1> DEFINE s == Run(a, b)
           t == Run(b, c)
           u == Run(a, c)
<1>1. /\ s \in Seq(Int) /\ t \in Seq(Int) /\ u \in Seq(Int)
      /\ Len(s) = b - a /\ Len(t) = c - b /\ Len(u) = c - a
  BY RunIs
<1>2. /\ \A i \in 1..(b-a) : s[i] = a + i - 1
      /\ \A i \in 1..(c-b) : t[i] = b + i - 1
      /\ \A i \in 1..(c-a) : u[i] = a + i - 1
  BY DEF Run
<1> HIDE DEF s, t, u
<1> DEFINE w == s \o t
<1>3. /\ w \in Seq(Int) /\ Len(w) = Len(s) + Len(t)
      /\ \A i \in 1..Len(s)+Len(t) : w[i] = IF i <= Len(s) THEN s[i] ELSE t[i - Len(s)]
  BY <1>1, ConcatProperties
<1> HIDE DEF w
<1>4. Len(w) = c - a
  BY <1>1, <1>3, SMTT(30)
<1>5. \A i \in 1..(c-a) : w[i] = IF i <= b - a THEN s[i] ELSE t[i - (b - a)]
  <2>1. 1..Len(s)+Len(t) = 1..(c-a)
    BY <1>1
  <2> QED BY <1>1, <1>3, <2>1
<1>6. ASSUME NEW i \in 1..(c-a) PROVE w[i] = u[i]
  <2>1. CASE i <= b - a
    BY <1>2, <1>5, <2>1
  <2>2. CASE ~(i <= b - a)
    <3>1. i - (b - a) \in 1..(c-b) /\ b + (i - (b - a)) - 1 = a + i - 1
      BY <2>2
    <3> QED BY <1>2, <1>5, <2>2, <3>1
  <2> QED BY <2>1, <2>2
<1>7. w = u
  BY <1>1, <1>3, <1>4, <1>6, SeqEqual
<1> QED BY <1>7 DEF s, t, u, w

LEMMA RunPrefix ==
  ASSUME NEW a \in Int, NEW b \in Int, NEW c \in Int, a <= b, b <= c
  PROVE  Len(Run(a, b)) <= Len(Run(a, c)) /\ Run(a, b) = SubSeq(Run(a, c), 1, Len(Run(a, b)))
<1> DEFINE s == Run(a, b)
           u == Run(a, c)
           p == SubSeq(u, 1, b - a)
<1>1. s \in Seq(Int) /\ u \in Seq(Int) /\ Len(s) = b - a /\ Len(u) = c - a
  BY RunIs
<1>0. \A i \in 1..(b-a) : s[i] = u[i]
  BY DEF Run
<1> HIDE DEF s, u
<1>2. p \in Seq(Int) /\ Len(p) = b - a /\ \A i \in 1..(b-a) : p[i] = u[i]
  BY <1>1
<1> HIDE DEF p
<1>3. s = p
  <2>1. Len(s) = Len(p) /\ \A i \in 1..Len(s) : s[i] = p[i]
    BY <1>0, <1>1, <1>2
  <2> QED BY <1>1, <1>2, <2>1, SeqEqual
<1> QED BY <1>1, <1>3 DEF s, u, p

(***************************************************************************)
(* The flash.                                                              *)
(***************************************************************************)

\* A download that runs has something left, one that is done has nothing left,
\* and what a range inside the flash has sent are its bytes from off on.
FlashInv ==
  /\ flashSt = "idle" => flashSent = << >>
  /\ flashSt \in {"send", "done"} =>
       /\ off \in Nat /\ flashDl \in [size : Nat, pos : Nat]
       /\ flashSt = "send" => off <= flashDl.pos /\ flashDl.pos < flashDl.size
       /\ flashSt = "done" => flashDl.pos = flashDl.size
       /\ off <= flashDl.size /\ flashDl.size <= FlashLen => flashSent = Run(off, flashDl.pos)

LEMMA FlashChunk ==
  ASSUME NEW o \in Nat, NEW d \in [size : Nat, pos : Nat], o <= d.pos,
         o <= d.size /\ d.size <= FlashLen => flashSent = Run(o, d.pos) /\ d.pos <= d.size,
         off' = o, Flash!SendChunk(d)
  PROVE  FlashInv'
<1> DEFINE n == Flash!ChunkLen(d)
<1>0. Chunk \in Nat \ {0} /\ FlashLen \in Nat /\ d.size \in Nat /\ d.pos \in Nat
  BY DevAssumption
<1>1. n \in Int /\ n = IF d.size - d.pos > Chunk THEN Chunk ELSE d.size - d.pos
  BY <1>0 DEF Flash!ChunkLen
<1>2. /\ \E bytes \in Flash!Sent(d.pos, n) : flashSent' = flashSent \o bytes
      /\ flashDl' = [d EXCEPT !.pos = @ + n]
      /\ flashSt' = IF d.pos + n = d.size THEN "done" ELSE "send"
  BY DEF Flash!SendChunk
<1> HIDE DEF n
<1>3. d.pos + n \in Nat
  BY <1>0, <1>1
<1>4. flashDl' \in [size : Nat, pos : Nat] /\ flashDl'.pos = d.pos + n /\ flashDl'.size = d.size
  BY <1>2, <1>3
<1>5. /\ flashSt' = "send" => o <= d.pos + n /\ d.pos + n < d.size
      /\ flashSt' = "done" => d.pos + n = d.size
      /\ flashSt' \in {"send", "done"}
  BY <1>0, <1>1, <1>2
<1>6. ASSUME o <= d.size, d.size <= FlashLen PROVE flashSent' = Run(o, d.pos + n)
  <2>1. n \in Nat /\ d.pos + n <= FlashLen
    BY <1>0, <1>1, <1>6
  <2>2. Flash!Sent(d.pos, n) = {Flash!ReadFlash(d.pos, n)}
    BY <2>1 DEF Flash!Sent
  <2>3. Flash!ReadFlash(d.pos, n) = Run(d.pos, d.pos + n)
    BY <1>0, <2>1 DEF Flash!ReadFlash, Run
  <2>4. flashSent' = Run(o, d.pos) \o Run(d.pos, d.pos + n)
    BY <1>2, <1>6, <2>2, <2>3
  <2>5. o \in Int /\ d.pos \in Int /\ d.pos + n \in Int /\ o <= d.pos /\ d.pos <= d.pos + n
    BY <1>0, <2>1
  <2>6. Run(o, d.pos) \o Run(d.pos, d.pos + n) = Run(o, d.pos + n)
    BY <2>5, RunJoin, Zenon
  <2> QED BY <2>4, <2>6, Zenon
<1> QED BY <1>4, <1>5, <1>6 DEF FlashInv

LEMMA FlashNext == ASSUME FlashInv, Flash!Next PROVE FlashInv'
<1>1. ASSUME NEW size \in Sizes, NEW o \in Offs, Flash!FirstCall(size, o) PROVE FlashInv'
  <2> DEFINE d == [size |-> size, pos |-> o]
  <2>0. size \in Nat /\ o \in Nat
    BY DevAssumption
  <2>1. d \in [size : Nat, pos : Nat] /\ d.pos = o /\ d.size = size
    BY <2>0
  <2>2. flashSt = "idle" /\ off' = o /\ Flash!SendChunk(d)
    BY <1>1 DEF Flash!FirstCall
  <2> HIDE DEF d
  <2>3. flashSent = Run(o, o)
    <3>1. flashSent = << >>
      BY <2>2 DEF FlashInv
    <3>2. Run(o, o) = << >>
      BY <2>0 DEF Run
    <3> QED BY <3>1, <3>2
  <2> QED BY <2>0, <2>1, <2>2, <2>3, FlashChunk
<1>2. ASSUME Flash!NextCall PROVE FlashInv'
  <2>1. flashSt = "send" /\ off' = off /\ Flash!SendChunk(flashDl)
    BY <1>2 DEF Flash!NextCall
  <2>2. /\ off \in Nat /\ flashDl \in [size : Nat, pos : Nat]
        /\ off <= flashDl.pos /\ flashDl.pos < flashDl.size
        /\ off <= flashDl.size /\ flashDl.size <= FlashLen => flashSent = Run(off, flashDl.pos)
    BY <2>1 DEF FlashInv
  <2>3. flashDl.pos \in Nat /\ flashDl.size \in Nat /\ flashDl.pos <= flashDl.size
    BY <2>2
  <2> QED BY <2>1, <2>2, <2>3, FlashChunk
<1>3. CASE (\E o \in Offs : Flash!BadArgs(o)) \/ Flash!NoMemory \/ Flash!Abort
  BY <1>3 DEF Flash!BadArgs, Flash!NoMemory, Flash!Abort, FlashInv
<1> QED BY <1>1, <1>2, <1>3 DEF Flash!Next

\* What cgiDownloadFlash sends of a range that lies in the flash: the bytes
\* from off to size, in order, once each, and it stops exactly there.
THEOREM FlashRight == Spec => []SendsUpToSize
<1>1. Init => FlashInv
  BY DEF Init, Flash!Init, FlashInv
<1>2. FlashInv /\ [Next]_vars => FlashInv'
  <2>1. ASSUME FlashInv, UNCHANGED flashVars PROVE FlashInv'
    BY <2>1 DEF flashVars, FlashInv
  <2> QED BY <2>1, FlashNext DEF Next, vars
<1>3. FlashInv => SendsUpToSize
  <2> SUFFICES ASSUME FlashInv, flashSt \in {"send", "done"}, off <= flashDl.size,
                      flashDl.size <= FlashLen
               PROVE  /\ flashSent = [i \in 1..(flashDl.pos - off) |-> off + i - 1]
                      /\ flashSt = "done" <=> flashDl.pos = flashDl.size
    BY DEF SendsUpToSize, Flash!SendsUpToSize
  <2> QED BY DEF FlashInv, Run
<1> QED BY <1>1, <1>2, <1>3, PTL DEF Spec

(***************************************************************************)
(* The log.                                                                *)
(***************************************************************************)

Cells == 0..(BufSize-1)

\* One subtraction brings an index back into the ring.
Wrap(x) == IF x < BufSize THEN x ELSE x - BufSize

LEMMA ModIs == ASSUME NEW x \in Nat, x < 2 * BufSize PROVE x % BufSize = Wrap(x)
  BY DevAssumption DEF Wrap

\* Behind the write pointer lie the bytes printed last; once the buffer has
\* wrapped, the bytes before those lie from the write pointer on.
RingOK ==
  /\ rb \in [magic : BOOLEAN, writeptr : Cells, wrapped : BOOLEAN, buffer : [Cells -> Int]]
  /\ printed \in Nat
  /\ rb.wrapped => printed >= BufSize
  /\ ~rb.wrapped => printed = rb.writeptr
  /\ \A i \in Cells : i < rb.writeptr => rb.buffer[i] = printed - rb.writeptr + i + 1
  /\ \A i \in Cells : ~(i < rb.writeptr) /\ rb.wrapped =>
                        rb.buffer[i] = printed - BufSize - rb.writeptr + i + 1

\* Number of bytes in the buffer, the number of the oldest one and its cell.
Count == IF printed < BufSize THEN printed ELSE BufSize
Oldest == printed - Count + 1
Start == IF rb.wrapped THEN rb.writeptr ELSE 0

DlOK(d) ==
  /\ d \in [size : Nat, pos : Nat, ptr : Cells]
  /\ d.size = Count /\ d.pos <= d.size /\ d.ptr = Wrap(Start + d.pos)

LogInv ==
  /\ RingOK
  /\ logSt \in {"print", "idle", "send", "done", "404", "gone"}
  /\ logSt \in {"print", "idle"} => logDl = Log!NoState /\ logSent = << >>
  /\ logSt = "send" => /\ DlOK(logDl) /\ logDl.pos < logDl.size
                       /\ logSent = Run(Oldest, Oldest + logDl.pos)

LEMMA RingIs ==
  ASSUME RingOK
  PROVE  /\ BufSize \in Nat \ {0} /\ printed \in Nat /\ Count \in Nat /\ Count <= BufSize
         /\ Start \in Cells /\ Oldest \in Int /\ Cells \subseteq Nat
         /\ rb.writeptr \in Nat /\ rb.writeptr < BufSize /\ rb.wrapped \in BOOLEAN
         /\ rb.wrapped => Count = BufSize /\ Start = rb.writeptr
         /\ ~rb.wrapped => Count = rb.writeptr /\ Start = 0
<1>1. BufSize \in Nat \ {0} /\ Cells \subseteq Nat /\ 0 \in Cells
  BY DevAssumption DEF Cells
<1>2. /\ printed \in Nat /\ rb.writeptr \in Cells /\ rb.wrapped \in BOOLEAN
      /\ rb.wrapped => printed >= BufSize
      /\ ~rb.wrapped => printed = rb.writeptr
  BY DEF RingOK
<1>3. rb.writeptr \in Nat /\ rb.writeptr < BufSize
  BY <1>1, <1>2 DEF Cells
<1>4. Count \in Nat /\ Count <= BufSize /\ Oldest \in Int
  BY <1>1, <1>2 DEF Count, Oldest
<1>5. CASE rb.wrapped
  <2>1. Count = BufSize
    BY <1>1, <1>2, <1>5 DEF Count
  <2>2. Start = rb.writeptr
    BY <1>5 DEF Start
  <2> QED BY <1>1, <1>2, <1>3, <1>4, <1>5, <2>1, <2>2
<1>6. CASE ~rb.wrapped
  <2>1. Count = rb.writeptr
    BY <1>1, <1>2, <1>3, <1>6 DEF Count
  <2>2. Start = 0
    BY <1>6 DEF Start
  <2> QED BY <1>1, <1>2, <1>3, <1>4, <1>6, <2>1, <2>2
<1> QED BY <1>5, <1>6

\* Reading the ring from its oldest cell gives the bytes in order.
LEMMA RingCell ==
  ASSUME RingOK, NEW j \in Nat, j < Count
  PROVE  Wrap(Start + j) \in Cells /\ rb.buffer[Wrap(Start + j)] = Oldest + j
<1> DEFINE w == rb.writeptr
           x == Wrap(Start + j)
<1>1. /\ BufSize \in Nat \ {0} /\ printed \in Nat /\ Count \in Nat /\ Count <= BufSize
      /\ w \in Nat /\ w < BufSize /\ rb.wrapped \in BOOLEAN
      /\ rb.wrapped => Count = BufSize /\ Start = w
      /\ ~rb.wrapped => Count = w /\ Start = 0
  BY RingIs
<1>2. /\ \A i \in Cells : i < w => rb.buffer[i] = printed - w + i + 1
      /\ \A i \in Cells : ~(i < w) /\ rb.wrapped =>
                            rb.buffer[i] = printed - BufSize - w + i + 1
      /\ ~rb.wrapped => printed = w
  BY DEF RingOK
<1> HIDE DEF w, x
<1>3. CASE rb.wrapped
  <2>1. Start = w /\ Count = BufSize
    BY <1>1, <1>3
  <2>2. CASE w + j < BufSize
    <3>1. x = w + j /\ x \in Cells /\ ~(x < w)
      BY <1>1, <2>1, <2>2 DEF x, Wrap, Cells
    <3> QED BY <1>1, <1>2, <1>3, <2>1, <3>1 DEF Oldest, x
  <2>3. CASE ~(w + j < BufSize)
    <3>1. x = w + j - BufSize /\ x \in Cells /\ x < w
      BY <1>1, <2>1, <2>3 DEF x, Wrap, Cells
    <3> QED BY <1>1, <1>2, <2>1, <3>1 DEF Oldest, x
  <2> QED BY <2>2, <2>3
<1>4. CASE ~rb.wrapped
  <2>1. Start = 0 /\ Count = w /\ printed = w
    BY <1>1, <1>2, <1>4
  <2>2. x = j /\ x \in Cells /\ x < w
    BY <1>1, <2>1 DEF x, Wrap, Cells
  <2> QED BY <1>1, <1>2, <2>1, <2>2 DEF Oldest, x
<1> QED BY <1>3, <1>4

\* One more byte is printed.
LEMMA PrintKeepsRing == ASSUME RingOK, Log!PrintByte PROVE RingOK'
<1> DEFINE w == rb.writeptr
           b == rb.buffer
           next == w + 1
           c == [b EXCEPT ![w] = printed + 1]
<1>1. BufSize \in Nat \ {0} /\ printed \in Nat /\ w \in Nat /\ w < BufSize /\ w \in Cells
      /\ b \in [Cells -> Int] /\ rb.wrapped \in BOOLEAN
  <2>1. BufSize \in Nat \ {0} /\ printed \in Nat /\ w \in Nat /\ w < BufSize
        /\ rb.wrapped \in BOOLEAN
    BY RingIs
  <2> QED BY <2>1 DEF RingOK
<1>2. /\ printed' = printed + 1
      /\ rb' = [rb EXCEPT !.buffer = c, !.writeptr = next % BufSize,
                          !.wrapped = rb.wrapped \/ next = BufSize]
  BY DEF Log!PrintByte
<1>3. next % BufSize = IF next = BufSize THEN 0 ELSE next
  BY <1>1, ModIs DEF Wrap
<1> DEFINE v == IF next = BufSize THEN 0 ELSE next
           p == rb.wrapped \/ next = BufSize
<1>4. v \in Cells /\ p \in BOOLEAN
  BY <1>1 DEF Cells
<1>5. c \in [Cells -> Int] /\ c[w] = printed + 1 /\ \A i \in Cells : i # w => c[i] = b[i]
  BY <1>1
<1>6. rb' = [rb EXCEPT !.buffer = c, !.writeptr = v, !.wrapped = p]
  BY <1>2, <1>3
<1> HIDE DEF c, p, v
<1>7. /\ rb' \in [magic : BOOLEAN, writeptr : Cells, wrapped : BOOLEAN, buffer : [Cells -> Int]]
      /\ rb'.writeptr = v /\ rb'.buffer = c /\ rb'.wrapped = p
  BY <1>4, <1>5, <1>6 DEF RingOK
<1>8. /\ rb.wrapped => printed >= BufSize
      /\ ~rb.wrapped => printed = w
      /\ \A i \in Cells : i < w => b[i] = printed - w + i + 1
      /\ \A i \in Cells : ~(i < w) /\ rb.wrapped => b[i] = printed - BufSize - w + i + 1
  BY DEF RingOK
<1> HIDE DEF b, w
<1>9. CASE next = BufSize
  <2>1. v = 0 /\ p = TRUE
    BY <1>1, <1>9 DEF v, p
  <2>2. printed' >= BufSize
    BY <1>1, <1>2, <1>8, <1>9
  <2>3. ASSUME NEW i \in Cells PROVE c[i] = printed' - BufSize - 0 + i + 1 /\ ~(i < 0)
    <3>1. i \in Nat /\ (i < w \/ i = w)
      BY <1>1, <1>9 DEF Cells
    <3> QED BY <1>1, <1>2, <1>5, <1>8, <1>9, <3>1
  <2>4. /\ p /\ printed' \in Nat
        /\ \A i \in Cells : ~(i < v) /\ c[i] = printed' - BufSize - v + i + 1
    BY <1>1, <1>2, <2>1, <2>3
  <2> QED BY <1>7, <2>2, <2>4 DEF RingOK
<1>10. CASE next # BufSize
  <2>1. v = w + 1 /\ p = rb.wrapped
    BY <1>1, <1>10 DEF v, p
  <2>2. (p => printed' >= BufSize) /\ (~p => printed' = v)
    BY <1>1, <1>2, <1>8, <2>1
  <2>3. ASSUME NEW i \in Cells, i < v PROVE c[i] = printed' - v + i + 1
    <3>1. i \in Nat /\ (i < w \/ i = w)
      BY <1>1, <2>1, <2>3 DEF Cells
    <3> QED BY <1>1, <1>2, <1>5, <1>8, <2>1, <3>1
  <2>4. ASSUME NEW i \in Cells, ~(i < v), p PROVE c[i] = printed' - BufSize - v + i + 1
    <3>1. i \in Nat /\ ~(i < w) /\ i # w
      BY <1>1, <2>1, <2>4 DEF Cells
    <3>2. rb.wrapped
      BY <2>1, <2>4
    <3>3. c[i] = printed - BufSize - w + i + 1
      BY <1>5, <1>8, <3>1, <3>2
    <3> HIDE DEF p
    <3> QED BY <1>1, <1>2, <2>1, <3>1, <3>3
  <2> QED BY <1>1, <1>2, <1>7, <2>2, <2>3, <2>4 DEF RingOK
<1> QED BY <1>9, <1>10

\* One call of the handler sends the next bytes of the run and stops after the
\* last one.
LEMMA LogChunk ==
  ASSUME RingOK, NEW d, DlOK(d), logSent = Run(Oldest, Oldest + d.pos),
         rb' = rb, printed' = printed, Log!SendChunk(d)
  PROVE  \E n \in Nat :
           /\ d.pos < d.size => n > 0
           /\ d.pos + n <= d.size
           /\ logSent' = Run(Oldest, Oldest + d.pos + n)
           /\ DlOK(logDl') /\ logDl'.size = d.size /\ logDl'.pos = d.pos + n
           /\ logSt' = IF d.pos + n = d.size THEN "done" ELSE "send"
<1> DEFINE n == Log!ChunkLen(d)
           bytes == [i \in 1..n |-> rb.buffer[(d.ptr + i - 1) % BufSize]]
<1>0. /\ d.size \in Nat /\ d.pos \in Nat /\ d.ptr \in Cells
      /\ d.size = Count /\ d.pos <= d.size /\ d.ptr = Wrap(Start + d.pos)
  BY DEF DlOK
<1>1. /\ BufSize \in Nat \ {0} /\ Count \in Nat /\ Count <= BufSize /\ Chunk \in Nat \ {0}
      /\ Start \in Nat /\ Start < BufSize /\ d.ptr \in Nat /\ d.ptr < BufSize /\ Oldest \in Int
  BY <1>0, RingIs, DevAssumption DEF Cells
<1>2. n \in Nat /\ d.pos + n <= d.size /\ (d.pos < d.size => n > 0)
  BY <1>0, <1>1 DEF Log!ChunkLen
<1>3. /\ logSent' = logSent \o bytes
      /\ logDl' = [d EXCEPT !.pos = @ + n, !.ptr = (@ + n) % BufSize]
      /\ logSt' = IF d.pos + n = d.size THEN "done" ELSE "send"
  BY DEF Log!SendChunk
<1> HIDE DEF n
<1>4. \A i \in 1..n : rb.buffer[(d.ptr + i - 1) % BufSize] = Oldest + d.pos + i - 1
  <2> SUFFICES ASSUME NEW i \in 1..n
               PROVE  rb.buffer[(d.ptr + i - 1) % BufSize] = Oldest + d.pos + i - 1
    OBVIOUS
  <2> DEFINE j == d.pos + i - 1
             x == d.ptr + i - 1
  <2>1. j \in Nat /\ j < Count /\ x \in Nat /\ x < 2 * BufSize
    BY <1>0, <1>1, <1>2
  <2>2. Wrap(x) = Wrap(Start + j)
    BY <1>0, <1>1, <2>1 DEF Wrap
  <2> HIDE DEF x, j
  <2>3. rb.buffer[x % BufSize] = Oldest + j
    BY <2>1, <2>2, ModIs, RingCell
  <2> QED BY <1>0, <1>1, <2>3 DEF x, j
<1>5. bytes = Run(Oldest + d.pos, Oldest + d.pos + n)
  <2> DEFINE a == Oldest + d.pos
  <2>1. a \in Int /\ \A i \in 1..n : a + i - 1 \in Int
    BY <1>0, <1>1
  <2>2. bytes \in Seq(Int) /\ Len(bytes) = n /\ \A i \in 1..n : bytes[i] = a + i - 1
    <3> HIDE DEF a
    <3>1. \A i \in 1..n : rb.buffer[(d.ptr + i - 1) % BufSize] = a + i - 1
      BY <1>4 DEF a
    <3> QED BY <1>2, <2>1, <3>1
  <2> HIDE DEF a, bytes
  <2>3. bytes = Run(a, a + n)
    BY <1>2, <2>1, <2>2, IsRun
  <2> QED BY <2>3 DEF a
<1> HIDE DEF bytes
<1>6. logSent' = Run(Oldest, Oldest + d.pos + n)
  <2>1. /\ Oldest \in Int /\ Oldest + d.pos \in Int /\ Oldest + d.pos + n \in Int
        /\ Oldest <= Oldest + d.pos /\ Oldest + d.pos <= Oldest + d.pos + n
    BY <1>0, <1>1, <1>2
  <2>2. Run(Oldest, Oldest + d.pos) \o Run(Oldest + d.pos, Oldest + d.pos + n)
          = Run(Oldest, Oldest + d.pos + n)
    BY <2>1, RunJoin, Zenon
  <2> QED BY <1>3, <1>5, <2>2, Zenon
<1>7. DlOK(logDl') /\ logDl'.size = d.size /\ logDl'.pos = d.pos + n
  <2>1. d.ptr + n \in Nat /\ d.ptr + n < 2 * BufSize
    BY <1>0, <1>1, <1>2
  <2>2. (d.ptr + n) % BufSize = Wrap(d.ptr + n)
    BY <2>1, ModIs
  <2>3. Wrap(d.ptr + n) \in Cells /\ Wrap(d.ptr + n) = Wrap(Start + (d.pos + n))
    BY <1>0, <1>1, <1>2 DEF Wrap, Cells
  <2>4. d \in [size : Nat, pos : Nat, ptr : Cells] /\ d.pos + n \in Nat
    BY <1>0, <1>2 DEF DlOK
  <2>5. /\ logDl' \in [size : Nat, pos : Nat, ptr : Cells] /\ logDl'.size = d.size
        /\ logDl'.pos = d.pos + n /\ logDl'.ptr = Wrap(d.ptr + n)
    BY <1>3, <2>2, <2>3, <2>4
  <2>6. logDl'.ptr = Wrap(Start + logDl'.pos)
    BY <2>3, <2>5, Zenon
  <2>7. logDl'.size = Count /\ logDl'.pos <= logDl'.size
    BY <1>0, <1>2, <2>5
  <2> QED BY <2>5, <2>6, <2>7 DEF DlOK
<1> QED BY <1>2, <1>3, <1>6, <1>7

\* The first call starts at the oldest byte.
LEMMA FirstStateIs ==
  ASSUME RingOK
  PROVE  DlOK(Log!FirstState) /\ Log!FirstState.pos = 0
<1>1. /\ Count \in Nat /\ Start \in Cells /\ Cells \subseteq Nat /\ BufSize \in Nat \ {0}
      /\ rb.wrapped \in BOOLEAN
      /\ rb.wrapped => Count = BufSize /\ Start = rb.writeptr
      /\ ~rb.wrapped => Count = rb.writeptr /\ Start = 0
  BY RingIs
<1>2. Log!FirstState = [size |-> Count, pos |-> 0, ptr |-> Start]
  BY <1>1 DEF Log!FirstState
<1>3. Start = Wrap(Start + 0)
  BY <1>1 DEF Wrap, Cells
<1> QED BY <1>1, <1>2, <1>3 DEF DlOK

LEMMA RunEmpty == ASSUME NEW a \in Int PROVE Run(a, a + 0) = << >>
  BY DEF Run

LEMMA LogNext == ASSUME LogInv, Log!Next PROVE LogInv'
<1> USE DEF LogInv
<1>1. CASE Log!PrintByte
  <2>1. RingOK'
    BY <1>1, PrintKeepsRing
  <2> QED BY <1>1, <2>1 DEF Log!PrintByte, Log!NoState
<1>2. CASE Log!FirstCall \/ Log!NextCall
  <2>1. \E d : /\ DlOK(d) /\ logSent = Run(Oldest, Oldest + d.pos) /\ Log!SendChunk(d)
               /\ rb' = rb /\ printed' = printed
    <3>1. CASE Log!FirstCall
      <4>1. logSent = Run(Oldest, Oldest + 0)
        BY <3>1, RunEmpty, RingIs DEF Log!FirstCall
      <4> QED BY <3>1, <4>1, FirstStateIs DEF Log!FirstCall
    <3>2. CASE Log!NextCall
      BY <3>2 DEF Log!NextCall
    <3> QED BY <1>2, <3>1, <3>2
  <2>2. PICK d : /\ DlOK(d) /\ logSent = Run(Oldest, Oldest + d.pos) /\ Log!SendChunk(d)
                 /\ rb' = rb /\ printed' = printed
    BY <2>1
  <2>3. PICK n \in Nat :
           /\ d.pos + n <= d.size
           /\ logSent' = Run(Oldest, Oldest + d.pos + n)
           /\ DlOK(logDl') /\ logDl'.size = d.size /\ logDl'.pos = d.pos + n
           /\ logSt' = IF d.pos + n = d.size THEN "done" ELSE "send"
    BY <2>2, LogChunk
  <2>4. RingOK' /\ Oldest' = Oldest
    BY <2>2 DEF RingOK, Oldest, Count
  <2>5. d.pos \in Nat /\ d.size \in Nat /\ Oldest \in Int
    BY <2>2, RingIs DEF DlOK
  <2>6. DlOK(logDl)'
    BY <2>2, <2>3 DEF DlOK, Count, Start, Wrap
  <2>7. logSt' = "send" => logDl'.pos < logDl'.size
    BY <2>3, <2>5
  <2>8. Oldest + logDl'.pos = Oldest + d.pos + n
    BY <2>3, <2>5
  <2> QED BY <2>3, <2>4, <2>6, <2>7, <2>8
<1>3. CASE Log!AppEnds \/ Log!BadMagic \/ Log!NoMemory \/ Log!Abort
  BY <1>3 DEF Log!AppEnds, Log!BadMagic, Log!NoMemory, Log!Abort, Log!NoState, RingOK
<1> QED BY <1>1, <1>2, <1>3 DEF Log!Next

(***************************************************************************)
(* The log download implements Transfer.                                   *)
(***************************************************************************)

LEMMA StatusIs ==
  /\ logSt \in {"print", "idle"} => Log!Status = "new"
  /\ logSt = "send" => Log!Status = "open"
  /\ logSt = "done" => Log!Status = "complete"
  /\ logSt \in {"404", "gone"} => Log!Status = "over"
  BY Zenon DEF Log!Status

LEMMA StatusNextIs ==
  /\ logSt' \in {"print", "idle"} => Log!Status' = "new"
  /\ logSt' = "send" => Log!Status' = "open"
  /\ logSt' = "done" => Log!Status' = "complete"
  /\ logSt' \in {"404", "gone"} => Log!Status' = "over"
  BY Zenon DEF Log!Status

\* What the buffer kept, as a run.
LEMMA KeptIs ==
  ASSUME RingOK PROVE Log!Kept = Run(Oldest, Oldest + Count)
<1> DEFINE m == IF printed < BufSize THEN printed ELSE BufSize
<1>1. m = Count /\ Count \in Nat /\ printed \in Nat
  BY RingIs DEF Count
<1>2. Log!Kept = [i \in 1..m |-> printed - m + i]
  BY DEF Log!Kept
<1> HIDE DEF m
<1>3. Log!Kept = [i \in 1..Count |-> printed - Count + i]
  BY <1>1, <1>2
<1> DEFINE s == [i \in 1..Count |-> printed - Count + i]
<1>4. s \in Seq(Int) /\ Len(s) = Count /\ Oldest \in Int
      /\ \A i \in 1..Count : s[i] = Oldest + i - 1
  BY <1>1 DEF Oldest
<1> HIDE DEF s
<1>5. s = Run(Oldest, Oldest + Count)
  BY <1>1, <1>4, IsRun
<1> QED BY <1>3, <1>5 DEF s

\* A run from the oldest byte on is a prefix of that, and all of it exactly if
\* it is as long.
LEMMA PrefixOfKept ==
  ASSUME RingOK, NEW m \in Nat, m <= Count
  PROVE  /\ Log!Abstract!IsPrefixOf(Run(Oldest, Oldest + m), Log!Kept)
         /\ Log!Abstract!StatusOf(Run(Oldest, Oldest + m), Log!Kept)
              = IF m = Count THEN "complete" ELSE "open"
         /\ Len(Run(Oldest, Oldest + m)) = m
<1>1. /\ Oldest \in Int /\ Oldest + m \in Int /\ Oldest + Count \in Int
      /\ Oldest <= Oldest + m /\ Oldest + m <= Oldest + Count
      /\ Oldest + m - Oldest = m /\ Oldest + Count - Oldest = Count
  BY RingIs
<1> DEFINE s == Run(Oldest, Oldest + m)
           t == Run(Oldest, Oldest + Count)
<1>2. Len(s) = m /\ Len(t) = Count
  BY <1>1, RingIs, RunLength
<1>3. Len(s) <= Len(t) /\ s = SubSeq(t, 1, Len(s))
  BY <1>1, RunPrefix
<1>4. s = t <=> m = Count
  <2>1. m = Count => s = t
    <3>1. m = Count => Oldest + m = Oldest + Count
      OBVIOUS
    <3> QED BY <3>1
  <2> HIDE DEF s, t
  <2> QED BY <1>2, <2>1
<1>5. Log!Kept = t
  BY KeptIs
<1> HIDE DEF s, t
<1>6. Log!Abstract!IsPrefixOf(s, t) /\ Log!Abstract!StatusOf(s, t) = IF m = Count THEN "complete" ELSE "open"
  BY <1>3, <1>4 DEF Log!Abstract!IsPrefixOf, Log!Abstract!StatusOf
<1> QED BY <1>2, <1>5, <1>6 DEF s

\* The next call sends more of the same run.
LEMMA RunMore ==
  ASSUME RingOK, NEW m \in Nat, NEW n \in Nat, m <= n
  PROVE  Log!Abstract!IsPrefixOf(Run(Oldest, Oldest + m), Run(Oldest, Oldest + n))
<1>1. /\ Oldest \in Int /\ Oldest + m \in Int /\ Oldest + n \in Int
      /\ Oldest <= Oldest + m /\ Oldest + m <= Oldest + n
  BY RingIs
<1> QED BY <1>1, RunPrefix DEF Log!Abstract!IsPrefixOf

LEMMA LogStep ==
  ASSUME LogInv, Log!Next PROVE [Log!Abstract!Next]_(Log!Abstract!vars)
<1> USE DEF LogInv
<1> DEFINE bar == Log!Abstract!vars
<1>0. Count \in Nat /\ Oldest \in Int
  BY RingIs
<1>1. CASE Log!PrintByte \/ Log!AppEnds
  <2>1. /\ logSt \in {"print", "idle"} /\ logSt' \in {"print", "idle"}
        /\ logDl' = logDl /\ logSent' = logSent /\ logDl = Log!NoState
    BY <1>1 DEF Log!PrintByte, Log!AppEnds
  <2>2. Log!Content = << >> /\ Log!Content' = << >>
    BY <2>1 DEF Log!Content, Log!NoState
  <2>3. Log!Status' = Log!Status
    BY <2>1, StatusIs, StatusNextIs
  <2> QED BY <2>1, <2>2, <2>3 DEF Log!Abstract!vars
<1>2. CASE Log!FirstCall
  <2> DEFINE d == Log!FirstState
  <2>1. /\ logSt = "idle" /\ rb' = rb /\ printed' = printed /\ Log!SendChunk(d)
        /\ logSent = << >>
    BY <1>2 DEF Log!FirstCall
  <2>2. DlOK(d) /\ d.pos = 0 /\ d.size = Count
    BY FirstStateIs DEF DlOK
  <2>3. logSent = Run(Oldest, Oldest + d.pos)
    BY <1>0, <2>1, <2>2, RunEmpty
  <2> HIDE DEF d
  <2>4. PICK n \in Nat :
           /\ d.pos + n <= d.size
           /\ logSent' = Run(Oldest, Oldest + d.pos + n)
           /\ logSt' = IF d.pos + n = d.size THEN "done" ELSE "send"
    BY <2>1, <2>2, <2>3, LogChunk
  <2>5. n <= Count /\ logSent' = Run(Oldest, Oldest + n)
        /\ logSt' = IF n = Count THEN "done" ELSE "send"
    BY <1>0, <2>2, <2>4
  <2>6. Log!Content' = Log!Kept
    <3>1. Log!Kept' = Log!Kept
      BY <2>1 DEF Log!Kept
    <3>2. logSt' \in {"send", "done"}
      BY <2>5
    <3> QED BY <3>1, <3>2 DEF Log!Content
  <2>7. Log!Abstract!Announce
    <3>1. Log!Abstract!IsPrefixOf(logSent', Log!Content')
      BY <2>5, <2>6, PrefixOfKept
    <3>2. Log!Status' = Log!Abstract!StatusOf(logSent', Log!Content')
      <4>1. Log!Abstract!StatusOf(logSent', Log!Content') = IF n = Count THEN "complete" ELSE "open"
        BY <2>5, <2>6, PrefixOfKept
      <4> QED BY <2>5, <4>1, StatusNextIs
    <3> QED BY <2>1, <3>1, <3>2, StatusIs DEF Log!Abstract!Announce
  <2> QED BY <2>7 DEF Log!Abstract!Next
<1>3. CASE Log!NextCall
  <2> DEFINE d == logDl
  <2>1. /\ logSt = "send" /\ rb' = rb /\ printed' = printed /\ Log!SendChunk(d)
        /\ DlOK(d) /\ d.pos < d.size /\ logSent = Run(Oldest, Oldest + d.pos)
    BY <1>3 DEF Log!NextCall
  <2>2. d.pos \in Nat /\ d.size = Count
    BY <2>1 DEF DlOK
  <2> HIDE DEF d
  <2>3. PICK n \in Nat :
           /\ n > 0 /\ d.pos + n <= d.size
           /\ logSent' = Run(Oldest, Oldest + d.pos + n)
           /\ logSt' = IF d.pos + n = d.size THEN "done" ELSE "send"
    BY <2>1, LogChunk
  <2> DEFINE m == d.pos + n
  <2>4. /\ m \in Nat /\ m <= Count /\ d.pos < m /\ d.pos <= Count
        /\ Oldest + d.pos + n = Oldest + m
        /\ logSt' = IF m = Count THEN "done" ELSE "send"
    BY <1>0, <2>2, <2>3
  <2>5. logSent' = Run(Oldest, Oldest + m)
    BY <2>3, <2>4
  <2> HIDE DEF m
  <2>6. Log!Content = Log!Kept /\ Log!Content' = Log!Kept
    <3>1. Log!Kept' = Log!Kept
      BY <2>1 DEF Log!Kept
    <3>2. logSt' \in {"send", "done"}
      BY <2>4
    <3> QED BY <2>1, <3>1, <3>2 DEF Log!Content
  <2>7. Log!Abstract!Send
    <3>1. Log!Abstract!IsPrefixOf(logSent', Log!Content)
      BY <2>4, <2>5, <2>6, PrefixOfKept
    <3>2. Log!Abstract!IsPrefixOf(logSent, logSent')
      BY <2>1, <2>2, <2>4, <2>5, RunMore
    <3>3. Len(logSent') > Len(logSent)
      BY <2>1, <2>2, <2>4, <2>5, PrefixOfKept
    <3>4. Log!Status' = Log!Abstract!StatusOf(logSent', Log!Content)
      <4>1. Log!Abstract!StatusOf(logSent', Log!Content) = IF m = Count THEN "complete" ELSE "open"
        BY <2>4, <2>5, <2>6, PrefixOfKept
      <4> QED BY <2>4, <4>1, StatusNextIs
    <3> QED BY <2>1, <2>6, <3>1, <3>2, <3>3, <3>4, StatusIs DEF Log!Abstract!Send
  <2> QED BY <2>7 DEF Log!Abstract!Next
<1>4. CASE Log!BadMagic \/ Log!NoMemory
  <2>1. /\ logSt = "idle" /\ logSt' \in {"404", "gone"} /\ logDl' = logDl /\ logSent' = logSent
        /\ logDl = Log!NoState
    BY <1>4 DEF Log!BadMagic, Log!NoMemory
  <2>2. Log!Content' = Log!Content
    BY <2>1 DEF Log!Content, Log!NoState
  <2>3. Log!Abstract!GiveUp
    BY <2>1, <2>2, StatusIs, StatusNextIs DEF Log!Abstract!GiveUp
  <2> QED BY <2>3 DEF Log!Abstract!Next
<1>5. CASE Log!Abort
  <2>1. /\ logSt = "send" /\ logSt' = "gone" /\ logDl' = logDl /\ logSent' = logSent
        /\ printed' = printed /\ DlOK(logDl) /\ logDl.pos < logDl.size
    BY <1>5 DEF Log!Abort
  <2>2. logDl # Log!NoState
    <3>1. logDl.size # 0
      BY <2>1 DEF DlOK
    <3> QED BY <3>1 DEF Log!NoState
  <2>3. Log!Content' = Log!Content
    <3>1. Log!Kept' = Log!Kept
      BY <2>1 DEF Log!Kept
    <3>2. Log!NoState' = Log!NoState
      BY DEF Log!NoState
    <3> QED BY <2>1, <2>2, <3>1, <3>2 DEF Log!Content
  <2>4. Log!Abstract!GiveUp
    BY <2>1, <2>3, StatusIs, StatusNextIs DEF Log!Abstract!GiveUp
  <2> QED BY <2>4 DEF Log!Abstract!Next
<1> QED BY <1>1, <1>2, <1>3, <1>4, <1>5 DEF Log!Next

\* The log download promises what Transfer says: the client gets the log that
\* the buffer kept, oldest byte first, complete and with the announced length.
THEOREM LogRefinesTransfer == Spec => LogIsTransferred
<1>1. Init => LogInv /\ Log!Abstract!Init
  <2> SUFFICES ASSUME Init PROVE LogInv /\ Log!Abstract!Init
    OBVIOUS
  <2>1. /\ \E m \in BOOLEAN : rb = [magic |-> m, writeptr |-> 0, wrapped |-> FALSE,
                                    buffer |-> [i \in Cells |-> 0]]
        /\ printed = 0 /\ logSt = "print" /\ logDl = Log!NoState /\ logSent = << >>
    BY DEF Init, Log!Init, Cells
  <2>2. BufSize \in Nat \ {0} /\ 0 \in Cells /\ \A i \in Cells : ~(i < 0)
    BY DevAssumption DEF Cells
  <2>3. RingOK
    BY <2>1, <2>2 DEF RingOK
  <2>4. Log!Content = << >> /\ Log!Status = "new"
    BY <2>1, StatusIs DEF Log!Content
  <2> QED BY <2>1, <2>3, <2>4 DEF LogInv, Log!Abstract!Init
<1>2. LogInv /\ [Next]_vars => LogInv' /\ [Log!Abstract!Next]_(Log!Abstract!vars)
  <2>1. ASSUME LogInv, Log!Next PROVE LogInv' /\ [Log!Abstract!Next]_(Log!Abstract!vars)
    BY <2>1, LogNext, LogStep
  <2>2. ASSUME LogInv, UNCHANGED logVars
        PROVE  LogInv' /\ [Log!Abstract!Next]_(Log!Abstract!vars)
    <3>1. UNCHANGED <<rb, printed, logSt, logDl, logSent>>
      BY <2>2 DEF logVars
    <3>2. LogInv'
      BY <2>2, <3>1 DEF LogInv, RingOK, DlOK, Oldest, Count, Start, Wrap, Log!NoState
    <3>3. UNCHANGED <<Log!Content, Log!Status, logSent>>
      BY <3>1 DEF Log!Content, Log!Status, Log!Kept, Log!NoState
    <3> QED BY <3>2, <3>3 DEF Log!Abstract!vars
  <2> QED BY <2>1, <2>2 DEF Next, vars
<1> QED BY <1>1, <1>2, PTL DEF Spec, LogIsTransferred, Log!Transferred, Log!Abstract!Spec

(***************************************************************************)
(* The page. Numbers first: a set of them has a least one, what goes from  *)
(* one number to the next holds for all, and functions that are defined by *)
(* recursion exist.                                                        *)
(***************************************************************************)

LEMMA LeastNat ==
  ASSUME NEW T \in SUBSET Nat, T # {} PROVE \E x \in T : \A y \in T : x <= y
<1> DEFINE B == {0..(x-1) : x \in T}
<1>1. B \subseteq FiniteSubsetsOf(Nat) /\ B # {}
  <2>1. \A x \in T : 0..(x-1) \subseteq Nat /\ IsFiniteSet(0..(x-1))
    BY FS_Interval
  <2> QED BY <2>1 DEF FiniteSubsetsOf
<1>2. PICK b \in B : \A d \in B : <<d, b>> \notin StrictSubsetOrdering(Nat)
  <2>1. IsWellFoundedOn(StrictSubsetOrdering(Nat), FiniteSubsetsOf(Nat))
    BY FS_StrictSubsetOrderingWellFounded
  <2> HIDE DEF B
  <2> QED BY <1>1, <2>1, WFMin
<1>3. PICK x \in T : b = 0..(x-1)
  BY <1>2
<1>4. ASSUME NEW y \in T, y < x PROVE FALSE
  <2>1. 0..(y-1) \in B /\ 0..(y-1) \subseteq b /\ 0..(y-1) # b /\ b \subseteq Nat
    BY <1>3, <1>4
  <2>2. <<0..(y-1), b>> \in StrictSubsetOrdering(Nat)
    BY <2>1 DEF StrictSubsetOrdering
  <2> QED BY <1>2, <2>1, <2>2
<1> QED BY <1>4

LEMMA SlotsFacts == Slots \subseteq Nat /\ IsFiniteSet(Slots) /\ INVALID \notin Slots
  BY NumSlotsAssumption, FS_Interval DEF Slots, INVALID

LEMMA LowestIs ==
  ASSUME NEW S \in SUBSET Slots, S # {}
  PROVE  Lowest(S) \in S /\ \A y \in S : Lowest(S) <= y
<1>1. \E x \in S : \A y \in S : x <= y
  BY LeastNat, SlotsFacts
<1> QED BY <1>1 DEF Lowest

\* What holds for 0 and, if for m - 1, for m, holds up to n; holds is the set
\* of the numbers for which it does.
LEMMA Induction ==
  ASSUME NEW n \in Nat, NEW holds, 0 \in holds,
         \A m \in 1..n : m - 1 \in holds => m \in holds
  PROVE  \A m \in 0..n : m \in holds
<1> DEFINE bad == {m \in 0..n : m \notin holds}
<1> SUFFICES ASSUME bad # {} PROVE FALSE
  OBVIOUS
<1>1. PICK m \in bad : \A y \in bad : m <= y
  <2>1. bad \in SUBSET Nat
    OBVIOUS
  <2> HIDE DEF bad
  <2> QED BY <2>1, LeastNat
<1>2. m \in 1..n /\ m - 1 \in 0..n /\ m - 1 \notin bad
  BY <1>1
<1> QED BY <1>1, <1>2

\* A function defined by recursion over 1..n exists.
IsStep(n, S, step) == step \in [1..n -> [S -> S]]

IsRecursive(f, n, S, base, step) ==
    /\ f \in [0..n -> S]
    /\ f[0] = base /\ \A i \in 1..n : f[i] = step[i][f[i - 1]]

LEMMA FiniteRecursion ==
  ASSUME NEW n \in Nat, NEW S, NEW base \in S, NEW step, IsStep(n, S, step)
  PROVE  \E f : IsRecursive(f, n, S, base, step)
<1>0. step \in [1..n -> [S -> S]]
  BY DEF IsStep
<1> DEFINE Good(m) == \E f \in [0..m -> S] :
                        f[0] = base /\ \A i \in 1..m : f[i] = step[i][f[i - 1]]
           holds == {m \in 0..n : Good(m)}
<1>1. Good(0)
  <2>1. /\ [i \in 0..0 |-> base] \in [0..0 -> S] /\ [i \in 0..0 |-> base][0] = base
        /\ 1..0 = {}
    OBVIOUS
  <2> QED BY <2>1
<1>2. ASSUME NEW m \in 1..n, Good(m - 1) PROVE Good(m)
  <2>0. m \in Nat /\ m # 0 /\ m - 1 \in 0..(m - 1) /\ m \in 1..n
    OBVIOUS
  <2>1. PICK f \in [0..(m - 1) -> S] :
               f[0] = base /\ \A i \in 1..(m - 1) : f[i] = step[i][f[i - 1]]
    BY <1>2
  <2> DEFINE h == [i \in 0..m |-> IF i = m THEN step[m][f[m - 1]] ELSE f[i]]
  <2>2. h \in [0..m -> S]
    <3>1. step[m][f[m - 1]] \in S
      BY <1>0, <2>0, <2>1
    <3>2. \A i \in 0..m : i # m => i \in 0..(m - 1)
      BY <2>0
    <3> QED BY <3>1, <3>2
  <2>3. h[0] = base
    BY <2>0, <2>1
  <2>4. ASSUME NEW i \in 1..m PROVE h[i] = step[i][h[i - 1]]
    <3>1. i - 1 \in 0..m /\ i - 1 # m /\ i \in 0..m
      BY <2>0
    <3>2. h[i - 1] = f[i - 1]
      BY <3>1
    <3>3. CASE i = m
      BY <3>1, <3>2, <3>3
    <3>4. CASE i # m
      <4>1. i \in 1..(m - 1) /\ h[i] = f[i]
        BY <3>1, <3>4, <2>0
      <4> QED BY <2>1, <3>2, <4>1
    <3> QED BY <3>3, <3>4
  <2> HIDE DEF h
  <2> QED BY <2>2, <2>3, <2>4
<1>3. 0 \in holds /\ \A m \in 1..n : m - 1 \in holds => m \in holds
  <2>1. 0 \in 0..n /\ \A m \in 1..n : m \in 0..n
    OBVIOUS
  <2> HIDE DEF Good
  <2> QED BY <1>1, <1>2, <2>1
<1>4. n \in holds
  <2>1. n \in 0..n
    OBVIOUS
  <2> HIDE DEF holds
  <2> QED BY <1>3, <2>1, Induction
<1> QED BY <1>4 DEF IsRecursive

(***************************************************************************)
(* What JSON.parse makes of a text.                                        *)
(***************************************************************************)

NameChars == {"plain", "special"}
TextChars == NameChars \cup {"\\"}

\* f reads the text t: f[i] is what its first i characters stand for.
Reading(t, f) ==
    /\ f[0] = << >>
    /\ \A i \in 1..Len(t) : f[i] = IF t[i] = "\\" THEN f[i-1] ELSE Append(f[i-1], t[i])

\* JSON.parse accepts the text t.
Accepted(t) ==
    \A i \in 1..Len(t) : t[i] # "control" /\ (t[i] = "special" => i # 1 /\ t[i-1] = "\\")

Reads(t, s) ==
    /\ t \in Seq(TextChars) /\ Accepted(t)
    /\ \E f : Reading(t, f) /\ f[Len(t)] = s

LEMMA ReadingAgrees ==
  ASSUME NEW t \in Seq(TextChars), NEW f, Reading(t, f), NEW g, Reading(t, g)
  PROVE  f[Len(t)] = g[Len(t)]
<1> DEFINE same == {i \in 0..Len(t) : f[i] = g[i]}
<1>1. 0 \in same
  BY DEF Reading
<1>2. ASSUME NEW m \in 1..Len(t), m - 1 \in same PROVE m \in same
  BY <1>2 DEF Reading
<1>3. \A m \in 0..Len(t) : m \in same
  <2> HIDE DEF same
  <2>1. Len(t) \in Nat
    OBVIOUS
  <2> QED BY <1>1, <1>2, <2>1, Induction
<1> QED BY <1>3

\* What JsonParse makes of a text it accepts.
LEMMA ParseIs ==
  ASSUME NEW t, NEW s, Reads(t, s)
  PROVE  JsonParse(t) = s
<1> DEFINE n == Len(t)
           Is(f) == f = [i \in 0..n |->
                      IF i = 0 THEN << >>
                      ELSE IF t[i] = "\\" THEN f[i-1] ELSE Append(f[i-1], t[i])]
           g == CHOOSE f : Is(f)
<1>0. n \in Nat /\ t \in Seq(TextChars)
  BY DEF Reads
<1>1. PICK f : Reading(t, f) /\ f[n] = s
  BY DEF Reads
<1>2. Is([i \in 0..n |-> f[i]])
  <2> DEFINE h == [i \in 0..n |-> f[i]]
  <2>1. ASSUME NEW i \in 0..n
        PROVE  h[i] = IF i = 0 THEN << >>
                      ELSE IF t[i] = "\\" THEN h[i-1] ELSE Append(h[i-1], t[i])
    <3>1. i = 0 \/ (i # 0 /\ i \in 1..n /\ i - 1 \in 0..n)
      BY <1>0
    <3>2. h[i] = f[i] /\ (i # 0 => h[i-1] = f[i-1])
      BY <3>1
    <3> HIDE DEF h, n
    <3>3. CASE i = 0
      BY <3>2, <3>3, <1>1 DEF Reading
    <3>4. CASE i # 0
      BY <3>1, <3>2, <3>4, <1>1 DEF Reading, n
    <3> QED BY <3>3, <3>4
  <2>2. h = [i \in 0..n |-> h[i]]
    OBVIOUS
  <2> HIDE DEF h, n
  <2> QED BY <2>1, <2>2, Zenon DEF h
<1>3. Is(g)
  BY <1>2, Zenon
<1>4. Reading(t, g)
  <2>1. 0 \in 0..n /\ \A i \in 1..n : i \in 0..n /\ i # 0
    BY <1>0
  <2> HIDE DEF g
  <2> QED BY <1>3, <2>1, Zenon DEF Reading
<1>5. ~(\E i \in 1..n : \/ t[i] = "control"
                        \/ t[i] = "special" /\ (i = 1 \/ t[i-1] # "\\"))
  <2> HIDE DEF n
  <2> QED BY Zenon DEF Reads, Accepted, n
<1>6. JsonParse(t) = g[n]
  <2> HIDE DEF n
  <2> QED BY <1>5, Zenon DEF JsonParse, n
<1>7. g[n] = s
  <2> HIDE DEF g
  <2> QED BY <1>0, <1>1, <1>4, ReadingAgrees
<1> QED BY <1>6, <1>7

LEMMA ReadsNothing == Reads(<< >>, << >>)
<1>1. Reading(<< >>, [i \in {0} |-> << >>])
  BY DEF Reading
<1> QED BY <1>1 DEF Reads, Accepted

\* Each character of a name is read back from what json_esc writes for it.
LEMMA ReadsPlain ==
  ASSUME NEW t, NEW s, Reads(t, s)
  PROVE  Reads(Append(t, "plain"), Append(s, "plain"))
<1> DEFINE n == Len(t)
           u == Append(t, "plain")
<1>0. n \in Nat /\ t \in Seq(TextChars)
  BY DEF Reads
<1>1. PICK f : Reading(t, f) /\ f[n] = s
  BY DEF Reads
<1>2. /\ u \in Seq(TextChars) /\ Len(u) = n + 1 /\ u[n+1] = "plain"
      /\ \A i \in 1..n : u[i] = t[i]
  BY <1>0 DEF TextChars, NameChars
<1> DEFINE h == [i \in 0..(n+1) |-> IF i = n + 1 THEN Append(s, "plain") ELSE f[i]]
<1>3. h[0] = f[0] /\ h[n+1] = Append(s, "plain") /\ \A i \in 1..n : h[i] = f[i] /\ h[i-1] = f[i-1]
  BY <1>0
<1>4. h[n] = s
  BY <1>0, <1>1
<1> HIDE DEF n, u, h
<1>5. ASSUME NEW i \in 1..(n+1)
      PROVE  /\ h[i] = IF u[i] = "\\" THEN h[i-1] ELSE Append(h[i-1], u[i])
             /\ u[i] # "control" /\ (u[i] = "special" => i # 1 /\ u[i-1] = "\\")
  <2>1. CASE i = n + 1
    <3>1. h[i-1] = s
      BY <1>0, <1>4, <2>1
    <3> QED BY <1>2, <1>3, <2>1, <3>1
  <2>2. CASE i \in 1..n
    <3>1. h[i] = IF t[i] = "\\" THEN h[i-1] ELSE Append(h[i-1], t[i])
      BY <1>1, <1>3, <2>2 DEF Reading, n
    <3>2. t[i] # "control" /\ (t[i] = "special" => i # 1 /\ t[i-1] = "\\")
      BY <2>2 DEF Reads, Accepted, n
    <3>3. i # 1 => i - 1 \in 1..n
      BY <1>0, <2>2
    <3> QED BY <1>2, <2>2, <3>1, <3>2, <3>3
  <2> QED BY <1>0, <2>1, <2>2
<1>6. Accepted(u)
  BY <1>2, <1>5 DEF Accepted
<1>7. Reading(u, h)
  BY <1>1, <1>2, <1>3, <1>5 DEF Reading
<1> QED BY <1>2, <1>3, <1>6, <1>7 DEF Reads, u

LEMMA ReadsSpecial ==
  ASSUME NEW t, NEW s, Reads(t, s)
  PROVE  Reads(t \o <<"\\", "special">>, Append(s, "special"))
<1> DEFINE n == Len(t)
           u == t \o <<"\\", "special">>
<1>0. n \in Nat /\ t \in Seq(TextChars)
  BY DEF Reads
<1>1. PICK f : Reading(t, f) /\ f[n] = s
  BY DEF Reads
<1>2. /\ u \in Seq(TextChars) /\ Len(u) = n + 2 /\ u[n+1] = "\\" /\ u[n+2] = "special"
      /\ \A i \in 1..n : u[i] = t[i]
  <2>1. <<"\\", "special">> \in Seq(TextChars)
    BY DEF TextChars, NameChars
  <2>2. u \in Seq(TextChars) /\ Len(u) = n + 2
    BY <1>0, <2>1
  <2>3. u[n+1] = "\\" /\ u[n+2] = "special" /\ \A i \in 1..n : u[i] = t[i]
    BY <1>0
  <2> QED BY <2>2, <2>3
<1> DEFINE h == [i \in 0..(n+2) |-> IF i = n + 2 THEN Append(s, "special")
                                    ELSE IF i = n + 1 THEN s ELSE f[i]]
<1>3. /\ h[0] = f[0] /\ h[n+2] = Append(s, "special") /\ h[n+1] = s
      /\ \A i \in 1..n : h[i] = f[i] /\ h[i-1] = f[i-1]
  BY <1>0
<1>4. h[n] = s
  BY <1>0, <1>1
<1> HIDE DEF n, u, h
<1>5. ASSUME NEW i \in 1..(n+2)
      PROVE  /\ h[i] = IF u[i] = "\\" THEN h[i-1] ELSE Append(h[i-1], u[i])
             /\ u[i] # "control" /\ (u[i] = "special" => i # 1 /\ u[i-1] = "\\")
  <2>1. CASE i = n + 1
    <3>1. h[i-1] = s
      BY <1>0, <1>4, <2>1
    <3> QED BY <1>2, <1>3, <2>1, <3>1
  <2>2. CASE i = n + 2
    <3>1. i - 1 = n + 1 /\ i # 1
      BY <1>0, <2>2
    <3> QED BY <1>2, <1>3, <2>2, <3>1
  <2>3. CASE i \in 1..n
    <3>1. h[i] = IF t[i] = "\\" THEN h[i-1] ELSE Append(h[i-1], t[i])
      BY <1>1, <1>3, <2>3 DEF Reading, n
    <3>2. t[i] # "control" /\ (t[i] = "special" => i # 1 /\ t[i-1] = "\\")
      BY <2>3 DEF Reads, Accepted, n
    <3>3. i # 1 => i - 1 \in 1..n
      BY <1>0, <2>3
    <3> QED BY <1>2, <2>3, <3>1, <3>2, <3>3
  <2> QED BY <1>0, <2>1, <2>2, <2>3
<1>6. Accepted(u)
  BY <1>2, <1>5 DEF Accepted
<1>7. Reading(u, h)
  BY <1>1, <1>2, <1>3, <1>5 DEF Reading
<1> QED BY <1>2, <1>3, <1>6, <1>7 DEF Reads, u

LEMMA ReadsEscaped ==
  ASSUME NEW t, NEW s, Reads(t, s), NEW c \in NameChars
  PROVE  /\ Reads(t \o Escaped(c), Append(s, c))
         /\ Len(t \o Escaped(c)) = Len(t) + (IF c = "special" THEN 2 ELSE 1)
<1>1. t \in Seq(TextChars)
  BY DEF Reads
<1>2. CASE c = "plain"
  <2>1. Escaped(c) = <<"plain">>
    BY <1>2 DEF Escaped
  <2>2. t \o <<"plain">> = Append(t, "plain") /\ Len(Append(t, "plain")) = Len(t) + 1
    <3>1. "plain" \in TextChars
      BY DEF TextChars, NameChars
    <3> QED BY <1>1, <3>1, AppendIsConcat
  <2> QED BY <1>2, <2>1, <2>2, ReadsPlain
<1>3. CASE c = "special"
  <2>1. Escaped(c) = <<"\\", "special">>
    BY <1>3 DEF Escaped
  <2>2. Len(t \o <<"\\", "special">>) = Len(t) + 2
    BY <1>1
  <2> QED BY <1>3, <2>1, <2>2, ReadsSpecial
<1> QED BY <1>2, <1>3 DEF NameChars

(***************************************************************************)
(* The loop of json_esc.                                                   *)
(***************************************************************************)

EscState == [text : Seq(TextChars), stop : BOOLEAN]

\* One round of the loop.
Copy(o, c) ==
    IF o.stop \/ Len(o.text) + 3 >= NameSize THEN [o EXCEPT !.stop = TRUE]
    ELSE [o EXCEPT !.text = @ \o Escaped(c)]

Copying(in, f) ==
    /\ f[0] = [text |-> << >>, stop |-> FALSE]
    /\ \A i \in 1..Len(in) : f[i-1] \in EscState /\ f[i] = Copy(f[i-1], in[i])

LEMMA CopyIs ==
  ASSUME NEW o \in EscState, NEW c \in NameChars PROVE Copy(o, c) \in EscState
<1>1. Escaped(c) \in Seq(TextChars)
  <2>1. CASE c = "plain"
    BY <2>1 DEF Escaped, TextChars, NameChars
  <2>2. CASE c = "special"
    BY <2>2 DEF Escaped, TextChars, NameChars
  <2> QED BY <2>1, <2>2 DEF NameChars
<1>2. o.text \o Escaped(c) \in Seq(TextChars)
  BY <1>1 DEF EscState
<1>3. [o EXCEPT !.text = @ \o Escaped(c)] \in EscState
  BY <1>2 DEF EscState
<1>4. [o EXCEPT !.stop = TRUE] \in EscState
  BY DEF EscState
<1> QED BY <1>3, <1>4 DEF Copy

LEMMA JsonEscIs ==
  ASSUME NEW in \in Seq(NameChars)
  PROVE  \E f : Copying(in, f) /\ JsonEsc(in, NameSize) = f[Len(in)].text
<1> DEFINE n == Len(in)
           start == [text |-> << >>, stop |-> FALSE]
           Is(f) == f = [i \in 0..n |-> IF i = 0 THEN start ELSE Copy(f[i-1], in[i])]
           step == [i \in 1..n |-> [o \in EscState |-> Copy(o, in[i])]]
           g == CHOOSE f : Is(f)
<1>0. n \in Nat /\ \A i \in 1..n : in[i] \in NameChars
  OBVIOUS
<1>1. PICK f : IsRecursive(f, n, EscState, start, step)
  <2>1. start \in EscState
    BY DEF EscState
  <2>2. IsStep(n, EscState, step)
    <3>1. \A i \in 1..n : [o \in EscState |-> Copy(o, in[i])] \in [EscState -> EscState]
      <4> HIDE DEF n
      <4> QED BY <1>0, CopyIs
    <3> QED BY <3>1 DEF IsStep
  <2> HIDE DEF step, n, start
  <2> QED BY <1>0, <2>1, <2>2, FiniteRecursion
<1>2. \A i \in 1..n : f[i-1] \in EscState /\ f[i] = Copy(f[i-1], in[i])
  <2>1. \A i \in 1..n : i - 1 \in 0..n
    BY <1>0
  <2>2. \A i \in 1..n : f[i-1] \in EscState
    BY <1>1, <2>1 DEF IsRecursive
  <2>3. \A i \in 1..n : f[i] = step[i][f[i-1]]
    <3> HIDE DEF step, n
    <3> QED BY <1>1 DEF IsRecursive
  <2> HIDE DEF n
  <2> QED BY <2>2, <2>3
<1>3. Is(f)
  <2>1. f = [i \in 0..n |-> f[i]]
    BY <1>1 DEF IsRecursive
  <2>2. ASSUME NEW i \in 0..n PROVE f[i] = IF i = 0 THEN start ELSE Copy(f[i-1], in[i])
    <3>1. i = 0 \/ (i # 0 /\ i \in 1..n)
      BY <1>0
    <3>2. f[0] = start
      <4> HIDE DEF n, step
      <4> QED BY <1>1 DEF IsRecursive
    <3> HIDE DEF n, step, start
    <3> QED BY <3>1, <3>2, <1>2, Zenon
  <2> HIDE DEF n, step, start
  <2> QED BY <2>1, <2>2, Zenon
<1>4. Is(g)
  BY <1>3, Zenon
<1>5. JsonEsc(in, NameSize) = g[n].text
  BY Zenon DEF JsonEsc, Copy
<1>6. g[0] = start /\ \A i \in 1..n : g[i] = Copy(g[i-1], in[i])
  <2>1. 0 \in 0..n /\ \A i \in 1..n : i \in 0..n /\ i # 0
    BY <1>0
  <2> HIDE DEF g, n, start
  <2> QED BY <1>4, <2>1, Zenon
<1>7. \A i \in 0..n : g[i] \in EscState
  <2> DEFINE typed == {i \in 0..n : g[i] \in EscState}
  <2>1. 0 \in typed
    <3>1. start \in EscState /\ 0 \in 0..n
      BY <1>0 DEF EscState
    <3> HIDE DEF g, n, start
    <3> QED BY <1>6, <3>1
  <2>2. ASSUME NEW m \in 1..n, m - 1 \in typed PROVE m \in typed
    <3>1. m \in 0..n /\ g[m-1] \in EscState
      BY <2>2, <1>0
    <3> HIDE DEF g, n
    <3> QED BY <1>0, <1>6, <3>1, CopyIs
  <2>3. \A m \in 0..n : m \in typed
    <3> HIDE DEF typed, n
    <3> QED BY <1>0, <2>1, <2>2, Induction
  <2> QED BY <2>3
<1>8. \A i \in 1..n : i - 1 \in 0..n
  BY <1>0
<1> HIDE DEF g
<1> QED BY <1>5, <1>6, <1>7, <1>8 DEF Copying

\* The characters from 1 to k that json_esc has to escape.
Specials(in, k) == {i \in 1..k : in[i] = "special"}

LEMMA SpecialsGrow ==
  ASSUME NEW in, NEW k \in Nat
  PROVE  /\ IsFiniteSet(Specials(in, k)) /\ Cardinality(Specials(in, k)) \in Nat
         /\ Cardinality(Specials(in, k + 1)) =
              Cardinality(Specials(in, k)) + (IF in[k+1] = "special" THEN 1 ELSE 0)
<1>1. IsFiniteSet(Specials(in, k))
  <2>1. IsFiniteSet(1..k) /\ Specials(in, k) \subseteq 1..k
    BY FS_Interval DEF Specials
  <2> QED BY <2>1, FS_Subset
<1>2. Cardinality(Specials(in, k)) \in Nat
  BY <1>1, FS_CardinalityType
<1>3. CASE in[k+1] = "special"
  <2>1. Specials(in, k + 1) = Specials(in, k) \cup {k + 1} /\ k + 1 \notin Specials(in, k)
    BY <1>3 DEF Specials
  <2> QED BY <1>1, <1>2, <1>3, <2>1, FS_AddElement
<1>4. CASE in[k+1] # "special"
  <2>1. Specials(in, k + 1) = Specials(in, k)
    BY <1>4 DEF Specials
  <2> QED BY <1>1, <1>2, <1>4, <2>1
<1> QED BY <1>1, <1>2, <1>3, <1>4

LEMMA SpecialsOfMore ==
  ASSUME NEW in, NEW k \in Nat, NEW m \in Nat, k <= m
  PROVE  Cardinality(Specials(in, k)) <= Cardinality(Specials(in, m))
<1>1. IsFiniteSet(Specials(in, m))
  BY SpecialsGrow
<1>2. Specials(in, k) \subseteq Specials(in, m)
  BY DEF Specials
<1> QED BY <1>1, <1>2, FS_Subset

\* Of the first i characters k are copied, all of them unless the loop has stopped.
Prefix(in, o, i) ==
    \E k \in 0..i : /\ Reads(o.text, SubSeq(in, 1, k))
                    /\ Len(o.text) = k + Cardinality(Specials(in, k))
                    /\ Len(o.text) < NameSize
                    /\ o.stop \in BOOLEAN
                    /\ IF o.stop THEN Len(o.text) + 3 >= NameSize ELSE k = i

LEMMA CopyOne ==
  ASSUME NEW in \in Seq(NameChars), NEW i \in 1..Len(in),
         NEW o \in EscState, Prefix(in, o, i - 1)
  PROVE  Prefix(in, Copy(o, in[i]), i)
<1>0. /\ i \in Nat \ {0} /\ i - 1 \in Nat /\ in[i] \in NameChars /\ NameSize \in Nat /\ NameSize >= 3
      /\ Len(in) \in Nat
  BY NameSizeAssumption
<1>1. PICK k \in 0..(i - 1) :
               /\ Reads(o.text, SubSeq(in, 1, k))
               /\ Len(o.text) = k + Cardinality(Specials(in, k))
               /\ Len(o.text) < NameSize
               /\ o.stop \in BOOLEAN
               /\ IF o.stop THEN Len(o.text) + 3 >= NameSize ELSE k = i - 1
  BY DEF Prefix
<1>2. Len(o.text) \in Nat
  BY DEF EscState
<1>3. CASE o.stop \/ Len(o.text) + 3 >= NameSize
  <2>1. /\ Copy(o, in[i]).text = o.text /\ Copy(o, in[i]).stop = TRUE
    BY <1>3 DEF Copy, EscState
  <2>2. k \in 0..i
    BY <1>0, <1>1
  <2>3. Len(o.text) + 3 >= NameSize
    BY <1>1, <1>3
  <2> QED BY <1>1, <2>1, <2>2, <2>3 DEF Prefix
<1>4. CASE ~(o.stop \/ Len(o.text) + 3 >= NameSize)
  <2> DEFINE u == o.text \o Escaped(in[i])
  <2>1. /\ Copy(o, in[i]).text = u /\ Copy(o, in[i]).stop = o.stop
    BY <1>4 DEF Copy, EscState
  <2>2. k = i - 1 /\ k + 1 = i /\ k \in Nat
    BY <1>0, <1>1, <1>4
  <2>3. /\ Reads(u, Append(SubSeq(in, 1, k), in[i]))
        /\ Len(u) = Len(o.text) + (IF in[i] = "special" THEN 2 ELSE 1)
    BY <1>0, <1>1, ReadsEscaped
  <2>4. Append(SubSeq(in, 1, k), in[i]) = SubSeq(in, 1, i)
    BY <1>0, <2>2
  <2>5. Len(u) = i + Cardinality(Specials(in, i))
    <3>1. /\ Cardinality(Specials(in, k)) \in Nat
          /\ Cardinality(Specials(in, k + 1)) =
               Cardinality(Specials(in, k)) + (IF in[k+1] = "special" THEN 1 ELSE 0)
      BY <2>2, SpecialsGrow
    <3> HIDE DEF u
    <3>2. CASE in[i] = "special"
      BY <1>1, <2>2, <2>3, <3>1, <3>2
    <3>3. CASE in[i] # "special"
      BY <1>1, <2>2, <2>3, <3>1, <3>3
    <3> QED BY <3>2, <3>3
  <2> HIDE DEF u
  <2>6. Len(u) < NameSize
    <3>1. Len(u) <= Len(o.text) + 2 /\ Len(u) \in Nat
      <4>1. CASE in[i] = "special"
        BY <1>2, <2>3, <4>1
      <4>2. CASE in[i] # "special"
        BY <1>2, <2>3, <4>2
      <4> QED BY <4>1, <4>2
    <3>2. ~(Len(o.text) + 3 >= NameSize)
      BY <1>4
    <3> QED BY <1>0, <1>2, <3>1, <3>2
  <2>7. i \in 0..i
    BY <1>0
  <2>8. o.stop = FALSE
    BY <1>1, <1>4
  <2> HIDE DEF Copy
  <2> QED BY <2>1, <2>3, <2>4, <2>5, <2>6, <2>7, <2>8 DEF Prefix
<1> QED BY <1>3, <1>4

\* json_esc and JSON.parse together: a name comes back whole, or as far as the
\* buffer has room for it with its escapes, and fits the buffer.
LEMMA NameSurvives ==
  ASSUME NEW in \in Seq(NameChars)
  PROVE  /\ Len(JsonEsc(in, NameSize)) < NameSize
         /\ JsonParse(JsonEsc(in, NameSize)) # ParseError
         /\ Shows(JsonParse(JsonEsc(in, NameSize)), in)
<1> DEFINE n == Len(in)
<1>0. n \in Nat /\ NameSize \in Nat /\ NameSize >= 3
  BY NameSizeAssumption
<1>1. PICK f : Copying(in, f) /\ JsonEsc(in, NameSize) = f[n].text
  BY JsonEscIs
<1> DEFINE right == {i \in 0..n : Prefix(in, f[i], i)}
<1>2. Prefix(in, f[0], 0)
  <2>1. f[0].text = << >> /\ f[0].stop = FALSE /\ SubSeq(in, 1, 0) = << >>
    BY <1>1 DEF Copying
  <2>2. Specials(in, 0) = {} /\ Cardinality(Specials(in, 0)) = 0
    BY FS_EmptySet DEF Specials
  <2>3. /\ 0 \in 0..0 /\ Reads(f[0].text, SubSeq(in, 1, 0)) /\ Len(f[0].text) = 0
    <3>1. 0 \in 0..0 /\ Len(<< >>) = 0
      OBVIOUS
    <3> QED BY <2>1, <3>1, ReadsNothing, Zenon
  <2>4. /\ 0 \in 0..0 /\ Len(f[0].text) = 0 + Cardinality(Specials(in, 0))
        /\ Len(f[0].text) < NameSize /\ f[0].stop \in BOOLEAN /\ ~f[0].stop
    <3>1. f[0].stop \in BOOLEAN /\ ~f[0].stop
      BY <2>1, Zenon
    <3>2. 0 < NameSize /\ 0 + 0 = 0 /\ 0 \in 0..0
      BY <1>0
    <3> QED BY <2>2, <2>3, <3>1, <3>2, Zenon
  <2> QED BY <2>3, <2>4, Zenon DEF Prefix
<1>3. ASSUME NEW m \in 1..n, m - 1 \in right PROVE m \in right
  <2>1. Prefix(in, f[m-1], m - 1) /\ m \in 0..n
    BY <1>0, <1>3
  <2>2. f[m-1] \in EscState /\ f[m] = Copy(f[m-1], in[m])
    BY <1>1 DEF Copying
  <2>3. Prefix(in, f[m], m)
    BY <2>1, <2>2, CopyOne
  <2> QED BY <2>1, <2>3
<1>4. Prefix(in, f[n], n)
  <2>1. 0 \in right
    BY <1>0, <1>2
  <2>2. \A m \in 0..n : m \in right
    <3> HIDE DEF right, n
    <3> QED BY <1>0, <1>3, <2>1, Induction
  <2> QED BY <1>0, <2>2
<1> DEFINE text == f[n].text
<1> HIDE DEF n
<1>5. PICK k \in 0..n : /\ Reads(text, SubSeq(in, 1, k))
                        /\ Len(text) = k + Cardinality(Specials(in, k))
                        /\ Len(text) < NameSize
                        /\ k = n \/ Len(text) + 3 >= NameSize
  <2>1. PICK k \in 0..n : /\ Reads(text, SubSeq(in, 1, k))
                          /\ Len(text) = k + Cardinality(Specials(in, k))
                          /\ Len(text) < NameSize
                          /\ IF f[n].stop THEN Len(text) + 3 >= NameSize ELSE k = n
    BY <1>4 DEF Prefix
  <2> QED BY <2>1
<1>6. JsonParse(text) = SubSeq(in, 1, k)
  BY <1>5, ParseIs
<1> HIDE DEF text
<1>7. SubSeq(in, 1, k) # ParseError
  <2>1. SubSeq(in, 1, k) \in Seq(NameChars)
    BY <1>0, <1>5 DEF n
  <2>2. SUFFICES ASSUME SubSeq(in, 1, k) = <<"error">> PROVE FALSE
    BY DEF ParseError
  <2> DEFINE w == SubSeq(in, 1, k)
  <2>3. Len(w) = 1 /\ w[1] = "error"
    <3>1. w = <<"error">>
      BY <2>2
    <3> HIDE DEF w
    <3> QED BY <3>1
  <2>4. w \in Seq(NameChars)
    BY <2>1
  <2> HIDE DEF w
  <2>5. w[1] \in NameChars
    BY <2>3, <2>4
  <2> QED BY <2>3, <2>5 DEF NameChars
<1>8. k = n => SubSeq(in, 1, k) = in
  BY DEF n
<1>9. ASSUME k # n PROVE EscapedLen(in) + 3 > NameSize
  <2>1. k + 1 <= n /\ k \in Nat /\ k <= n
    BY <1>0, <1>5, <1>9
  <2>2. /\ Cardinality(Specials(in, k)) <= Cardinality(Specials(in, n))
        /\ Cardinality(Specials(in, k)) \in Nat /\ Cardinality(Specials(in, n)) \in Nat
    BY <1>0, <2>1, SpecialsOfMore, SpecialsGrow
  <2>3. EscapedLen(in) = n + Cardinality(Specials(in, n))
    <3>1. Specials(in, n) = {i \in 1..Len(in) : in[i] = "special"}
      BY DEF Specials, n
    <3>2. EscapedLen(in) = Len(in) + Cardinality({i \in 1..Len(in) : in[i] = "special"})
      BY DEF EscapedLen
    <3> QED BY <3>1, <3>2 DEF n
  <2> QED BY <1>0, <1>5, <1>9, <2>1, <2>2, <2>3, SMTT(30)
<1>10. Shows(SubSeq(in, 1, k), in)
  BY <1>5, <1>8, <1>9 DEF Shows, n
<1> QED BY <1>1, <1>5, <1>6, <1>7, <1>10 DEF text

(***************************************************************************)
(* The files as the page meets them.                                       *)
(***************************************************************************)

\* Names without the control characters that json_esc copies as they are.
PrintableNames == Names \subseteq Seq(NameChars) /\ Temp \in Seq(NameChars)

PageFile == [name : Seq(NameChars), slots : SUBSET Slots, data : {[i \in 1..1 |-> Junk]}]

IsShelf(t) == DOMAIN t \subseteq Slots /\ t \in [DOMAIN t -> PageFile]

LEMMA ShelfDelete ==
  ASSUME NEW t, IsShelf(t), NEW name
  PROVE  /\ IsShelf(DeleteFile(t, name))
         /\ DOMAIN DeleteFile(t, name) \subseteq DOMAIN t
  BY DEF IsShelf, DeleteFile

LEMMA ShelfCreate ==
  ASSUME NEW t, IsShelf(t), NEW name \in Seq(NameChars), HasRoom(t, name, 1)
  PROVE  IsShelf(CreateFile(t, name, 1))
<1> DEFINE d == DeleteFile(t, name)
           free == FreeSlots(d)
           taken == {s \in free : Cardinality({x \in free : x < s}) < 1}
           file == [name |-> name, slots |-> taken, data |-> [i \in 1..1 |-> Junk]]
           low == Lowest(free)
           u == [h \in DOMAIN d \cup {low} |-> IF h = low THEN file ELSE d[h]]
<1>1. IsShelf(d)
  BY ShelfDelete
<1>2. free \subseteq Slots
  BY DEF FreeSlots
<1>3. free # {}
  <2>1. Cardinality(free) >= 1
    BY DEF HasRoom
  <2> HIDE DEF free
  <2>2. Cardinality({}) = 0
    BY FS_EmptySet
  <2>3. ASSUME free = {} PROVE FALSE
    <3>1. Cardinality(free) = 0
      BY <2>2, <2>3, Zenon
    <3> QED BY <2>1, <3>1
  <2> QED BY <2>3
<1>4. low \in Slots
  <2> HIDE DEF free
  <2> QED BY <1>2, <1>3, LowestIs
<1>5. file \in PageFile
  <2>1. taken \subseteq Slots
    BY <1>2
  <2> HIDE DEF taken
  <2> QED BY <2>1 DEF PageFile
<1>6. CreateFile(t, name, 1) = u
  BY DEF CreateFile
<1>7. IsShelf(u)
  <2> HIDE DEF d, free, low, file
  <2> QED BY <1>1, <1>4, <1>5 DEF IsShelf
<1> QED BY <1>6, <1>7

LEMMA ShelfRename ==
  ASSUME NEW t, IsShelf(t), NEW from, NEW to \in Seq(NameChars)
  PROVE  IsShelf(Rename(t, from, to))
<1> DEFINE d == DeleteFile(t, to)
           New(h) == IF d[h].name = from THEN [d[h] EXCEPT !.name = to] ELSE d[h]
           u == [h \in DOMAIN d |-> New(h)]
<1>1. IsShelf(d)
  BY ShelfDelete
<1>2. Rename(t, from, to) = u
  BY DEF Rename
<1> HIDE DEF d
<1>3. ASSUME NEW h \in DOMAIN d PROVE New(h) \in PageFile
  <2>1. d[h] \in PageFile
    BY <1>1 DEF IsShelf
  <2> QED BY <2>1 DEF PageFile
<1> HIDE DEF New
<1>4. DOMAIN u = DOMAIN d /\ u \in [DOMAIN u -> PageFile]
  BY <1>3
<1> QED BY <1>1, <1>2, <1>4 DEF IsShelf

(***************************************************************************)
(* The rows of the table.                                                  *)
(***************************************************************************)

\* What cgiFileIdx answers, and what the page makes of it.
Answer(t) == {[index |-> h, name |-> JsonEsc(t[h].name, NameSize)] : h \in DOMAIN t}

Row(t, h) == [index |-> h, name |-> JsonParse(JsonEsc(t[h].name, NameSize))]

Rows(t) == {Row(t, h) : h \in DOMAIN t}

LEMMA AnswerIs ==
  ASSUME PrintableNames, NEW t, IsShelf(t)
  PROVE  /\ \A r \in Answer(t) : Len(r.name) < NameSize
         /\ \A r \in Answer(t) : JsonParse(r.name) # ParseError
         /\ {[r EXCEPT !.name = JsonParse(@)] : r \in Answer(t)} = Rows(t)
<1>1. \A h \in DOMAIN t : t[h].name \in Seq(NameChars)
  BY DEF IsShelf, PageFile
<1>2. \A h \in DOMAIN t :
        /\ Len(JsonEsc(t[h].name, NameSize)) < NameSize
        /\ JsonParse(JsonEsc(t[h].name, NameSize)) # ParseError
  BY <1>1, NameSurvives DEF PrintableNames
<1> DEFINE a(h) == [index |-> h, name |-> JsonEsc(t[h].name, NameSize)]
<1>3. \A h : a(h).name = JsonEsc(t[h].name, NameSize)
             /\ [a(h) EXCEPT !.name = JsonParse(@)] = Row(t, h)
  BY DEF Row
<1>4. Answer(t) = {a(h) : h \in DOMAIN t}
  BY DEF Answer
<1> HIDE DEF a
<1>5. {[r EXCEPT !.name = JsonParse(@)] : r \in Answer(t)}
        = {[a(h) EXCEPT !.name = JsonParse(@)] : h \in DOMAIN t}
  BY <1>4
<1> QED BY <1>2, <1>3, <1>4, <1>5, SMTT(30) DEF Rows

LEMMA RowsAre ==
  ASSUME PrintableNames, NEW t, IsShelf(t)
  PROVE  /\ {r.index : r \in Rows(t)} = DOMAIN t
         /\ \A r \in Rows(t) : Shows(r.name, t[r.index].name)
         /\ Cardinality(Rows(t)) = Cardinality(DOMAIN t)
<1>1. \A h \in DOMAIN t : t[h].name \in Seq(NameChars)
  BY DEF IsShelf, PageFile
<1>2. \A h \in DOMAIN t : Shows(Row(t, h).name, t[h].name)
  BY <1>1, NameSurvives DEF PrintableNames, Row
<1>3. \A h : Row(t, h).index = h
  BY DEF Row
<1>4. {r.index : r \in Rows(t)} = DOMAIN t
  BY <1>3, Zenon DEF Rows
<1>5. \A r \in Rows(t) : Shows(r.name, t[r.index].name)
  BY <1>2, <1>3 DEF Rows
<1>6. ExistsBijection(DOMAIN t, Rows(t))
  <2> DEFINE f == [h \in DOMAIN t |-> Row(t, h)]
  <2>1. f \in [DOMAIN t -> Rows(t)] /\ \A r \in Rows(t) : \E h \in DOMAIN t : f[h] = r
    BY DEF Rows
  <2>2. \A g, h \in DOMAIN t : f[g] = f[h] => g = h
    BY <1>3
  <2> HIDE DEF f
  <2> QED BY <2>1, <2>2 DEF ExistsBijection, Bijection, Injection, Surjection, IsInjective
<1>7. IsFiniteSet(DOMAIN t)
  BY SlotsFacts, FS_Subset DEF IsShelf
<1>8. Cardinality(Rows(t)) = Cardinality(DOMAIN t)
  BY <1>6, <1>7, FS_Bijection
<1> QED BY <1>4, <1>5, <1>8

(***************************************************************************)
(* The invariant: an answer that nothing has outdated is the list of the   *)
(* files as they are, and so is a table that is shown to the end.          *)
(***************************************************************************)

PageRequest == [kind : {"none", "list", "upload"}, name : Seq(NameChars),
                stage : {"sent", "begun", "ok", "error"}]

PageInv ==
    /\ IsShelf(fs)
    /\ xhr \in PageRequest /\ orphan \in PageRequest /\ stale \in BOOLEAN
    /\ \A r \in reply : Len(r.name) < NameSize
    /\ xhr.kind = "list" /\ xhr.stage = "ok" /\ ~stale => reply = Answer(fs)
    /\ xhr.kind = "none" /\ ~stale => table = Rows(fs)

LEMMA RequestsAre ==
  ASSUME PrintableNames
  PROVE  /\ NoRequest \in PageRequest /\ NoRequest.kind = "none"
         /\ ListRequest \in PageRequest /\ ListRequest.kind = "list"
         /\ ListRequest.stage = "sent"
<1>1. /\ NoRequest = [kind |-> "none", name |-> Temp, stage |-> "sent"]
      /\ ListRequest = [kind |-> "list", name |-> Temp, stage |-> "sent"]
  BY DEF NoRequest, ListRequest
<1> QED BY <1>1 DEF PrintableNames, PageRequest

LEMMA PageInitInv ==
  ASSUME PrintableNames, PageInit PROVE PageInv
<1>1. IsShelf(fs)
  BY DEF PageInit, NoFiles, IsShelf
<1>2. xhr = ListRequest /\ orphan = NoRequest /\ stale = FALSE /\ reply = {}
  BY DEF PageInit
<1> QED BY <1>1, <1>2, RequestsAre DEF PageInv

\* Giving up a request makes the page stale, unless there was none.
LEMMA GiveUpIs ==
  ASSUME PrintableNames, PageInv, GiveUp
  PROVE  /\ orphan' \in PageRequest /\ stale' \in BOOLEAN
         /\ stale \/ xhr.kind # "none" => stale'
<1>1. orphan' \in PageRequest
  BY RequestsAre DEF PageInv, GiveUp
<1>2. stale' = (stale \/ ~(xhr.kind = "none"))
  BY DEF GiveUp, Idle
<1>3. stale' \in BOOLEAN
  BY <1>2
<1> QED BY <1>1, <1>2, <1>3

\* A new request: what the page has shown so far does not matter any more.
LEMMA NewRequest ==
  ASSUME PrintableNames, PageInv, GiveUp, xhr' \in PageRequest, xhr'.kind # "none",
         xhr'.stage = "sent", IsShelf(fs'), reply' = reply
  PROVE  PageInv'
<1>1. \A r \in reply' : Len(r.name) < NameSize
  BY DEF PageInv
<1> QED BY <1>1, GiveUpIs DEF PageInv

LEMMA PageUpload ==
  ASSUME PrintableNames, PageInv, NEW n \in Names, DoUpgrade(n)
  PROVE  PageInv'
<1>1. /\ GiveUp /\ xhr' = [kind |-> "upload", name |-> n, stage |-> "sent"]
      /\ fs' = fs /\ reply' = reply
  BY DEF DoUpgrade
<1>2. xhr' \in PageRequest /\ xhr'.kind = "upload" /\ xhr'.stage = "sent"
  BY <1>1 DEF PrintableNames, PageRequest
<1>3. IsShelf(fs')
  BY <1>1 DEF PageInv
<1> QED BY <1>1, <1>2, <1>3, NewRequest

LEMMA PageDelete ==
  ASSUME PrintableNames, PageInv, NEW row \in table, ClickDelete(row)
  PROVE  PageInv'
<1>1. /\ GiveUp /\ xhr' = ListRequest /\ reply' = reply
  BY DEF ClickDelete, Loaded
<1>2. fs' = fs \/ \E name : fs' = DeleteFile(fs, name)
  BY DEF ClickDelete
<1>3. IsShelf(fs')
  BY <1>2, ShelfDelete DEF PageInv
<1>4. xhr' \in PageRequest /\ xhr'.kind = "list" /\ xhr'.stage = "sent"
  BY <1>1, RequestsAre
<1> QED BY <1>1, <1>3, <1>4, NewRequest

LEMMA PageReload ==
  ASSUME PrintableNames, PageInv, Reload
  PROVE  PageInv'
<1>1. GiveUp /\ xhr' = ListRequest /\ reply' = reply /\ fs' = fs
  BY DEF Reload, Loaded
<1>2. IsShelf(fs')
  BY <1>1 DEF PageInv
<1>3. xhr' \in PageRequest /\ xhr'.kind = "list" /\ xhr'.stage = "sent"
  BY <1>1, RequestsAre
<1> QED BY <1>1, <1>2, <1>3, NewRequest

LEMMA PageFails ==
  ASSUME PrintableNames, PageInv, RequestFails
  PROVE  PageInv'
<1>1. /\ GiveUp /\ xhr.kind # "none" /\ xhr' = NoRequest
      /\ fs' = fs /\ reply' = reply
  BY DEF RequestFails, Idle
<1>2. stale' /\ stale' \in BOOLEAN /\ orphan' \in PageRequest
  BY <1>1, GiveUpIs
<1>3. xhr' \in PageRequest
  BY <1>1, RequestsAre
<1>4. IsShelf(fs') /\ \A r \in reply' : Len(r.name) < NameSize
  BY <1>1 DEF PageInv
<1> QED BY <1>2, <1>3, <1>4 DEF PageInv

\* A step of a running upload.
LEMMA PageUploading ==
  ASSUME PrintableNames, PageInv, xhr' \in PageRequest, xhr'.kind = "upload",
         IsShelf(fs'), UNCHANGED <<reply, table, orphan, stale>>
  PROVE  PageInv'
<1>1. orphan' \in PageRequest /\ stale' \in BOOLEAN /\ \A r \in reply' : Len(r.name) < NameSize
  BY DEF PageInv
<1> QED BY <1>1 DEF PageInv

LEMMA PageProgress ==
  ASSUME PrintableNames, PageInv, OnProgress
  PROVE  PageInv'
<1>1. xhr' = xhr /\ fs' = fs /\ xhr.kind = "upload" /\ UNCHANGED <<reply, table, orphan, stale>>
  BY DEF OnProgress
<1>2. xhr' \in PageRequest /\ xhr'.kind = "upload" /\ IsShelf(fs')
  BY <1>1 DEF PageInv
<1> QED BY <1>1, <1>2, PageUploading

LEMMA PageBegin ==
  ASSUME PrintableNames, PageInv, BeginUpload
  PROVE  PageInv'
<1>1. xhr.kind = "upload" /\ UNCHANGED <<reply, table, orphan, stale>> /\ xhr \in PageRequest
  BY DEF BeginUpload, Waiting, PageInv
<1>2. xhr' \in PageRequest /\ xhr'.kind = "upload"
  BY <1>1 DEF BeginUpload, PageRequest
<1>3. IsShelf(fs')
  <2>1. IsShelf(fs) /\ Temp \in Seq(NameChars)
    BY DEF PageInv, PrintableNames
  <2>2. \/ HasRoom(fs, Temp, 1) /\ fs' = CreateFile(fs, Temp, 1)
        \/ fs' = DeleteFile(fs, Temp)
    BY DEF BeginUpload
  <2> QED BY <2>1, <2>2, ShelfCreate, ShelfDelete
<1> QED BY <1>1, <1>2, <1>3, PageUploading

LEMMA PageEnd ==
  ASSUME PrintableNames, PageInv, EndUpload
  PROVE  PageInv'
<1>1. xhr.kind = "upload" /\ UNCHANGED <<reply, table, orphan, stale>> /\ xhr \in PageRequest
  BY DEF EndUpload, Waiting, PageInv
<1>2. xhr' \in PageRequest /\ xhr'.kind = "upload"
  BY <1>1 DEF EndUpload, PageRequest
<1>3. IsShelf(fs')
  <2>1. IsShelf(fs) /\ xhr.name \in Seq(NameChars)
    BY <1>1 DEF PageInv, PageRequest
  <2>2. fs' = fs \/ fs' = Rename(fs, Temp, xhr.name)
    BY DEF EndUpload
  <2> QED BY <2>1, <2>2, ShelfRename
<1> QED BY <1>1, <1>2, <1>3, PageUploading

LEMMA PageOrphan ==
  ASSUME PrintableNames, PageInv, OrphanEnds
  PROVE  PageInv'
<1>1. /\ orphan' = NoRequest /\ UNCHANGED <<xhr, reply, table>>
      /\ stale' = (stale \/ fs' # fs)
  BY DEF OrphanEnds
<1>2. fs' = fs \/ fs' = Rename(fs, Temp, orphan.name)
  BY DEF OrphanEnds
<1>3. IsShelf(fs')
  <2>1. IsShelf(fs) /\ orphan.name \in Seq(NameChars)
    BY DEF PageInv, PageRequest
  <2> QED BY <1>2, <2>1, ShelfRename
<1>4. orphan' \in PageRequest /\ stale' \in BOOLEAN
  BY <1>1, RequestsAre
<1>5. ~stale' => fs' = fs /\ ~stale
  BY <1>1
<1>6. /\ xhr' \in PageRequest /\ \A r \in reply' : Len(r.name) < NameSize
      /\ xhr'.kind = "list" /\ xhr'.stage = "ok" /\ ~stale' => reply' = Answer(fs')
      /\ xhr'.kind = "none" /\ ~stale' => table' = Rows(fs')
  BY <1>1, <1>5 DEF PageInv
<1> QED BY <1>3, <1>4, <1>6 DEF PageInv

LEMMA PageIndex ==
  ASSUME PrintableNames, PageInv, FileIdx
  PROVE  PageInv'
<1>1. /\ xhr.kind = "list" /\ xhr' = [xhr EXCEPT !.stage = "ok"] /\ stale' = FALSE
      /\ UNCHANGED <<fs, orphan>> /\ reply' = Answer(fs)
  BY DEF FileIdx, Waiting, Answer
<1>2. xhr' \in PageRequest /\ xhr'.kind = "list"
  BY <1>1 DEF PageInv, PageRequest
<1>3. IsShelf(fs) /\ \A r \in Answer(fs) : Len(r.name) < NameSize
  BY AnswerIs DEF PageInv
<1> QED BY <1>1, <1>2, <1>3 DEF PageInv

LEMMA PageUploaded ==
  ASSUME PrintableNames, PageInv, OnUploadReady
  PROVE  PageInv'
<1>1. UNCHANGED <<fs, reply, table, orphan>>
  BY DEF OnUploadReady
<1>2. \/ xhr' = ListRequest /\ stale' = stale
      \/ xhr' = NoRequest /\ stale' = TRUE
  BY DEF OnUploadReady, TriggerReload
<1>3. /\ xhr' \in PageRequest /\ stale' \in BOOLEAN /\ orphan' \in PageRequest /\ IsShelf(fs')
      /\ \A r \in reply' : Len(r.name) < NameSize
  BY <1>1, <1>2, RequestsAre DEF PageInv
<1>4. /\ xhr'.kind = "list" => xhr'.stage = "sent"
      /\ xhr'.kind = "none" => stale'
  BY <1>2, RequestsAre
<1> QED BY <1>3, <1>4 DEF PageInv

LEMMA PageListed ==
  ASSUME PrintableNames, PageInv, OnListReady
  PROVE  PageInv'
<1>1. /\ xhr.kind = "list" /\ xhr.stage = "ok" /\ xhr' = NoRequest
      /\ UNCHANGED <<fs, reply, orphan, stale>>
  BY DEF OnListReady, Waiting
<1>2. xhr' \in PageRequest /\ xhr'.kind = "none"
  BY <1>1, RequestsAre
<1>3. ASSUME ~stale PROVE table' = Rows(fs)
  <2>1. reply = Answer(fs) /\ IsShelf(fs)
    BY <1>1, <1>3 DEF PageInv
  <2>2. ~(\E r \in reply : JsonParse(r.name) = ParseError)
    BY <2>1, AnswerIs
  <2>3. table' = {[r EXCEPT !.name = JsonParse(@)] : r \in reply}
    BY <2>2 DEF OnListReady
  <2> QED BY <2>1, <2>3, AnswerIs
<1> QED BY <1>1, <1>2, <1>3 DEF PageInv

LEMMA PageNextInv ==
  ASSUME PrintableNames, PageInv, [PageNext]_pageVars
  PROVE  PageInv'
<1>1. CASE PageNext
  <2>1. \/ \E n \in Names : DoUpgrade(n)
        \/ \E row \in table : ClickDelete(row)
        \/ Reload \/ RequestFails \/ OnProgress
        \/ BeginUpload \/ EndUpload \/ OrphanEnds \/ FileIdx
        \/ OnUploadReady \/ OnListReady
    BY <1>1 DEF PageNext, Device, Browser
  <2> QED BY <2>1, PageUpload, PageDelete, PageReload, PageFails, PageProgress, PageBegin,
             PageEnd, PageOrphan, PageIndex, PageUploaded, PageListed
<1>2. CASE UNCHANGED pageVars
  <2>1. UNCHANGED <<fs, xhr, reply, table, orphan, stale>>
    BY <1>2 DEF pageVars
  <2> QED BY <2>1 DEF PageInv
<1> QED BY <1>1, <1>2

LEMMA PageInvTable ==
  ASSUME PrintableNames, PageInv PROVE TableTrue
<1>1. \A r \in reply : Len(r.name) < NameSize
  BY DEF PageInv
<1>2. ASSUME xhr.kind = "none", ~stale
      PROVE  /\ {r.index : r \in table} = DOMAIN fs
             /\ \A r \in table : Shows(r.name, fs[r.index].name)
             /\ Cardinality(table) = Cardinality(DOMAIN fs)
  <2>1. table = Rows(fs) /\ IsShelf(fs)
    BY <1>2 DEF PageInv
  <2> QED BY <2>1, RowsAre
<1> QED BY <1>1, <1>2 DEF TableTrue, Idle

\* When the page is idle and nothing happened behind its back, its table has
\* exactly the files of the device, each with its handle and its name as far as
\* name_esc holds it, however long the name, if no name has a bare control
\* character, which JSON.parse refuses (main.js, json_esc).
THEOREM PageShowsFiles == PrintableNames => (PageSpec => []TableTrue)
<1> SUFFICES ASSUME PrintableNames PROVE PageSpec => []TableTrue
  OBVIOUS
<1>1. PageInit => PageInv
  BY PageInitInv
<1>2. PageInv /\ [PageNext]_pageVars => PageInv'
  BY PageNextInv
<1>3. PageInv => TableTrue
  BY PageInvTable
<1> QED BY <1>1, <1>2, <1>3, PTL DEF PageSpec
===============================================================================
