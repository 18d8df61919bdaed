--------------------------- MODULE CgiUploadProofs ----------------------------
(***************************************************************************)
(* Proofs about CgiUpload for every page, erase-block and sector length    *)
(* and every length of the body: type correctness, the inductive invariant *)
(* that relates the page buffer, the flash and the bytes consumed so far,  *)
(* the safety properties that follow from it, and the implementation of    *)
(* AtomicUpload.                                                           *)
(***************************************************************************)
EXTENDS CgiUpload, TLAPS

(***************************************************************************)
(* The inductive invariant, one part per phase of the upload.              *)
(***************************************************************************)

\* No byte is consumed before the temporary file exists.
StartInv ==
  up.state = "START" =>
    /\ file = "none"
    /\ up.pagePos = 0
    /\ received = dataLen

\* What is consumed is what is on flash (below address) and in the buffer.
ConsumedInv ==
  up.state = "WRITE" =>
    /\ file = "temp"
    /\ up.len > 0
    /\ up.address + up.pagePos + up.len = total
    /\ received - dataLen = up.address + up.pagePos
    /\ up.address % PageLen = 0

BufferInv ==
  up.state = "WRITE" =>
    \A i \in 0..(up.pagePos - 1) : pageData[i] = up.address + i

\* Where the erase block that holds position a ends.
BlockEnd(a) == a - (a % EraseLen) + EraseLen

\* Everything below address is written, and a page that does not start an
\* erase block lies in a block erased together with the pages before it.
FlashInv ==
  up.state = "WRITE" /\ ~fault =>
    /\ \A i \in 0..(up.address - 1) : cell[i] = i
    /\ up.address % EraseLen # 0 =>
         \A i \in up.address..(BlockEnd(up.address) - 1) :
           i \in DOMAIN cell => cell[i] = Erased

DoneInv ==
  /\ up.state = "DONE" <=> file = "renamed"
  /\ up.state = "DONE" => received = total /\ dataLen = 0

ControlInv ==
  /\ pc # "loop" => dataLen = 0
  /\ pc = "wait" => up.state # "DONE"
  /\ pc = "closed" => ~allocated
  /\ reply # "none" => pc = "closed"
  /\ pc = "closed" => (reply = "done" <=> up.state = "DONE")

IInv ==
  /\ TypeOK
  /\ StartInv
  /\ ConsumedInv
  /\ BufferInv
  /\ FlashInv
  /\ DoneInv
  /\ ControlInv
  /\ RenamedIsBody
  /\ FlashErrorIsDeviceFault

(***************************************************************************)
(* Arithmetic of pages, erase blocks and sectors.                          *)
(***************************************************************************)

\* A number splits into its quotient and its remainder.
LEMMA Division ==
  ASSUME NEW a \in Nat, NEW m \in Nat \ {0}
  PROVE  /\ a \div m \in Nat
         /\ a % m \in 0..(m-1)
         /\ a = m * (a \div m) + (a % m)
  OBVIOUS

\* Quotient and remainder determine the number's remainder.
LEMMA Remainder ==
  ASSUME NEW m \in Nat \ {0}, NEW q \in Nat, NEW r \in 0..(m-1)
  PROVE  (m * q + r) % m = r
  OBVIOUS

\* Of two multiples of m, the larger is at least m larger.
LEMMA MultiplesApart ==
  ASSUME NEW m \in Nat \ {0}, NEW a \in Nat, NEW b \in Nat,
         a % m = 0, b % m = 0, a < b
  PROVE  a + m <= b
<1> DEFINE p == a \div m  q == b \div m
<1>1. a = m * p /\ b = m * q /\ p \in Nat /\ q \in Nat
  BY Division
<1>2. p < q
  <2>1. CASE q <= p
    <3>1. m * q <= m * p
      BY <1>1, <2>1
    <3> QED BY <3>1, <1>1
  <2> QED BY <2>1, <1>1
<1>3. m * (p + 1) <= m * q
  BY <1>1, <1>2
<1> QED BY <1>1, <1>3

\* The next multiple of a page length is again a multiple of it.
LEMMA NextMultiple ==
  ASSUME NEW m \in Nat \ {0}, NEW a \in Nat, a % m = 0
  PROVE  (a + m) % m = 0
<1> DEFINE p == a \div m
<1>1. p \in Nat /\ a = m * p
  BY Division
<1> HIDE DEF p
<1>2. a + m = m * (p + 1) + 0 /\ p + 1 \in Nat /\ 0 \in 0..(m-1)
  BY <1>1
<1>3. (m * (p + 1) + 0) % m = 0
  BY <1>2, Remainder
<1> QED BY <1>2, <1>3

\* Rounding down to a multiple of m gives a multiple of every divisor of m.
LEMMA DivisorOfMultiple ==
  ASSUME NEW m \in Nat \ {0}, NEW k \in Nat \ {0}, NEW a \in Nat,
         m % k = 0, a % m = 0
  PROVE  a % k = 0
<1> DEFINE p == a \div m  q == m \div k
<1>1. a = m * p /\ m = k * q /\ p \in Nat /\ q \in Nat
  BY Division
<1>2. a = k * (q * p) /\ q * p \in Nat
  BY <1>1
<1> HIDE DEF p, q
<1>3. (k * (q * p)) % k = 0
  BY <1>1
<1> QED BY <1>2, <1>3

\* The flash reserved for n bytes is n bytes or more, in whole erase blocks.
LEMMA ReservedFacts ==
  ASSUME NEW n \in Nat
  PROVE  /\ Reserved(n) \in Nat
         /\ n <= Reserved(n)
         /\ Reserved(n) % EraseLen = 0
<1> DEFINE a == n + SectorLen - 1  s == SectorLen * (a \div SectorLen)
<1>1. a \in Nat /\ SectorLen \in Nat \ {0}
  BY SectorLenAssumption
<1>2. a \div SectorLen \in Nat /\ a % SectorLen \in 0..(SectorLen-1)
      /\ a = s + (a % SectorLen)
  BY <1>1, Division
<1>3. Reserved(n) = s /\ s \in Nat
  BY <1>1, <1>2 DEF Reserved
<1>4. n <= s
  BY <1>1, <1>2, <1>3
<1>5. s % SectorLen = 0
  BY <1>1, <1>2
<1>6. s % EraseLen = 0
  BY <1>3, <1>5, DivisorOfMultiple, SectorLenAssumption, EraseLenAssumption
<1> QED BY <1>3, <1>4, <1>6

\* A page that starts at a multiple of the page length fits in its block.
LEMMA PageInBlock ==
  ASSUME NEW a \in Nat, a % PageLen = 0
  PROVE  /\ a % EraseLen \in 0..(EraseLen - PageLen)
         /\ (a + PageLen) % EraseLen =
              IF (a % EraseLen) + PageLen = EraseLen THEN 0 ELSE (a % EraseLen) + PageLen
<1> DEFINE r == a % EraseLen  b == EraseLen * (a \div EraseLen)
<1>1. /\ PageLen \in Nat \ {0} /\ EraseLen \in Nat \ {0} /\ EraseLen % PageLen = 0
  BY PageLenAssumption, EraseLenAssumption
<1>2. /\ r \in 0..(EraseLen - 1) /\ a = b + r
      /\ a \div EraseLen \in Nat
  BY <1>1, Division
<1>3. b \in Nat /\ b % EraseLen = 0
  <2>1. b = EraseLen * (a \div EraseLen) + 0 /\ 0 \in 0..(EraseLen - 1) /\ b \in Nat
    BY <1>1, <1>2
  <2>2. (EraseLen * (a \div EraseLen) + 0) % EraseLen = 0
    BY <2>1, <1>1, <1>2, Remainder
  <2> QED BY <2>1, <2>2
<1>4. (b + EraseLen) % EraseLen = 0 /\ b + EraseLen \in Nat
  BY <1>1, <1>2, <1>3, NextMultiple
<1>5. (b + EraseLen) % PageLen = 0
  BY <1>1, <1>3, <1>4, DivisorOfMultiple
<1>6. a < b + EraseLen
  BY <1>1, <1>2, <1>3
<1>7. a + PageLen <= b + EraseLen
  BY <1>1, <1>2, <1>4, <1>5, <1>6, MultiplesApart
<1>8. r + PageLen <= EraseLen
  BY <1>1, <1>2, <1>3, <1>7
<1>9. CASE r + PageLen = EraseLen
  <2>1. a + PageLen = b + EraseLen
    BY <1>1, <1>2, <1>3, <1>9
  <2> QED BY <2>1, <1>1, <1>2, <1>4, <1>8, <1>9
<1>10. CASE r + PageLen # EraseLen
  <2>1. a + PageLen = EraseLen * (a \div EraseLen) + (r + PageLen)
    BY <1>1, <1>2, <1>3
  <2>2. r + PageLen \in 0..(EraseLen - 1)
    BY <1>1, <1>2, <1>8, <1>10
  <2>3. (a + PageLen) % EraseLen = r + PageLen
    <3> HIDE DEF r, b
    <3>1. (EraseLen * (a \div EraseLen) + (r + PageLen)) % EraseLen = r + PageLen
      BY <2>2, <1>1, <1>2, Remainder
    <3> QED BY <2>1, <3>1
  <2> QED BY <2>3, <1>1, <1>2, <1>8, <1>10
<1> QED BY <1>9, <1>10

(***************************************************************************)
(* Type correctness and the inductive invariant.                           *)
(***************************************************************************)

\* The fields of the state block, typed one by one.
LEMMA UpFields ==
  ASSUME TypeOK
  PROVE  /\ up.state \in States
         /\ up.pagePos \in 0..(PageLen-1)
         /\ up.address \in Nat
         /\ up.len \in 0..total
         /\ up.err \in Errs
         /\ up = [state |-> up.state, pagePos |-> up.pagePos, address |-> up.address,
                  len |-> up.len, err |-> up.err]
         /\ total \in Nat /\ received \in Nat /\ dataLen \in Nat
BY MaxLenAssumption DEF TypeOK

\* A page write consumes at least one byte, and no more than the file still
\* needs or the buffer has room for.
LEMMA LenLeftFacts ==
  ASSUME TypeOK, ConsumedInv, up.state = "WRITE"
  PROVE  /\ LenLeft \in 1..PageLen
         /\ LenLeft <= up.len
         /\ up.pagePos + LenLeft <= PageLen
         /\ up.len # LenLeft => up.pagePos + LenLeft = PageLen
<1>1. up.len \in Nat /\ up.len > 0 /\ up.pagePos \in 0..(PageLen-1)
  BY UpFields DEF ConsumedInv
<1> QED BY <1>1, PageLenAssumption DEF LenLeft

\* The initial states satisfy the invariant.
LEMMA InitIInv == Init => IInv
<1> SUFFICES ASSUME Init PROVE IInv
  OBVIOUS
<1>1. TypeOK
  <2>1. cell \in [0..((IF file = "none" THEN 0 ELSE Reserved(total))-1) -> Int]
    <3>1. 0..(0-1) = {} /\ (IF file = "none" THEN 0 ELSE Reserved(total)) = 0
      BY DEF Init
    <3>2. cell \in [{} -> Int]
      BY DEF Init
    <3> QED BY <3>1, <3>2
  <2>2. up \in [state : States, pagePos : 0..(PageLen-1), address : Nat,
                len : 0..total, err : Errs]
    <3>1. up = FreshState /\ total \in Nat
      BY MaxLenAssumption DEF Init
    <3>2. 0 \in 0..(PageLen-1) /\ 0 \in 0..total /\ 0 \in Nat
      BY <3>1, PageLenAssumption
    <3>3. "START" \in States /\ "Premature end" \in Errs
      BY DEF States, Errs
    <3> QED BY <3>1, <3>2, <3>3 DEF FreshState
  <2>3. pageData \in [0..(PageLen-1) -> Int]
    BY DEF Init, Junk
  <2>4. received \in 0..total /\ dataLen \in 0..received
    BY MaxLenAssumption DEF Init
  <2>5. /\ total \in 0..MaxLen /\ named \in BOOLEAN
        /\ pc \in {"wait", "loop", "closed"}
        /\ allocated \in BOOLEAN
        /\ file \in {"none", "temp", "renamed"}
        /\ fault \in BOOLEAN
        /\ reply \in {"none", "done", "error200", "error400"}
    BY DEF Init
  <2> QED BY <2>1, <2>2, <2>3, <2>4, <2>5 DEF TypeOK
<1> QED
  BY <1>1 DEF Init, IInv, StartInv, ConsumedInv, BufferInv, FlashInv, DoneInv,
     ControlInv, RenamedIsBody, FlashErrorIsDeviceFault, FreshState

\* A call with n more bytes changes only what is consumed and received.
LEMMA CallIInv == ASSUME IInv, NEW n \in 0..MaxLen, Call(n) PROVE IInv'
<1> USE DEF IInv
<1>1. /\ total \in Nat /\ received \in 0..total /\ n \in 0..(total - received)
      /\ received' = received + n /\ dataLen' = n /\ pc' = "loop"
      /\ dataLen = 0 /\ up.state # "DONE" /\ file # "renamed"
  BY UpFields DEF Call, TypeOK, ControlInv, DoneInv
<1>2. UNCHANGED <<total, named, up, pageData, file, cell, fault, reply>> /\ allocated' = TRUE
  BY DEF Call, flash
<1>3. TypeOK'
  <2>1. received' \in 0..total' /\ dataLen' \in 0..received'
    BY <1>1, <1>2
  <2> QED BY <2>1, <1>1, <1>2 DEF TypeOK, Reserved
<1>4. StartInv' /\ ConsumedInv'
  BY <1>1, <1>2, UpFields DEF StartInv, ConsumedInv
<1>5. BufferInv' /\ FlashInv' /\ RenamedIsBody' /\ FlashErrorIsDeviceFault'
  BY <1>2 DEF BufferInv, FlashInv, RenamedIsBody, FlashErrorIsDeviceFault
<1>6. DoneInv' /\ ControlInv'
  BY <1>1, <1>2 DEF DoneInv, ControlInv, Call
<1> QED BY <1>3, <1>4, <1>5, <1>6

\* Losing the connection or the memory ends the request and touches no flash.
LEMMA EndIInv == ASSUME IInv, CallNoMemory \/ Abort PROVE IInv'
<1> USE DEF IInv
<1>1. /\ UNCHANGED <<total, named, received, dataLen, up, pageData, file, cell, fault, reply>>
      /\ pc = "wait" /\ pc' = "closed" /\ allocated' = FALSE
  BY DEF CallNoMemory, Abort, httpd, flash, TypeOK
<1>2. TypeOK'
  BY <1>1 DEF TypeOK, Reserved
<1>3. StartInv' /\ ConsumedInv' /\ BufferInv' /\ FlashInv' /\ DoneInv'
      /\ RenamedIsBody' /\ FlashErrorIsDeviceFault'
  BY <1>1 DEF StartInv, ConsumedInv, BufferInv, FlashInv, DoneInv, RenamedIsBody,
     FlashErrorIsDeviceFault
<1>4. ControlInv'
  BY <1>1 DEF ControlInv
<1> QED BY <1>2, <1>3, <1>4

\* Dropping the rest of a chunk happens only once nothing more is stored.
LEMMA DropChunkIInv == ASSUME IInv, DropChunk PROVE IInv'
<1> USE DEF IInv
<1>1. /\ UNCHANGED <<total, named, received, pc, allocated, up, pageData, file, cell, fault, reply>>
      /\ dataLen' = 0 /\ pc = "loop" /\ up.state \in {"DONE", "ERROR"}
  BY DEF DropChunk, Looping, httpd, flash
<1>2. TypeOK'
  <2>1. dataLen' \in 0..received'
    BY <1>1, UpFields
  <2> QED BY <1>1, <2>1 DEF TypeOK, Reserved
<1>3. StartInv' /\ ConsumedInv' /\ BufferInv' /\ FlashInv' /\ DoneInv'
      /\ RenamedIsBody' /\ FlashErrorIsDeviceFault'
  BY <1>1 DEF StartInv, ConsumedInv, BufferInv, FlashInv, DoneInv, RenamedIsBody,
     FlashErrorIsDeviceFault
<1>4. ControlInv'
  BY <1>1 DEF ControlInv
<1> QED BY <1>2, <1>3, <1>4

\* Returning to the web server answers the request exactly when it is over.
LEMMA ReturnIInv == ASSUME IInv, Return PROVE IInv'
<1> USE DEF IInv
<1>1. /\ UNCHANGED <<total, named, received, dataLen, up, pageData, file, cell, fault>>
      /\ pc = "loop" /\ dataLen = 0
  BY DEF Return, httpd, flash
<1>2. /\ pc' \in {"wait", "closed"} /\ allocated' \in BOOLEAN
      /\ reply' \in {"none", "done", "error200", "error400"}
  <2>1. CASE total = received
    BY <2>1 DEF Return
  <2>2. CASE total # received
    BY <2>2 DEF Return, TypeOK
  <2> QED BY <2>1, <2>2
<1>3. TypeOK'
  BY <1>1, <1>2 DEF TypeOK, Reserved
<1>4. StartInv' /\ ConsumedInv' /\ BufferInv' /\ FlashInv' /\ DoneInv'
      /\ RenamedIsBody' /\ FlashErrorIsDeviceFault'
  BY <1>1 DEF StartInv, ConsumedInv, BufferInv, FlashInv, DoneInv, RenamedIsBody,
     FlashErrorIsDeviceFault
<1>5. ControlInv'
  <2>1. CASE total = received
    BY <1>1, <2>1 DEF Return, ControlInv
  <2>2. CASE total # received
    BY <1>1, <2>2 DEF Return, ControlInv, DoneInv
  <2> QED BY <2>1, <2>2
<1> QED BY <1>3, <1>4, <1>5

\* Creating the temporary file starts the account of consumed bytes at zero.
LEMMA CreateIInv == ASSUME IInv, NEW ok \in BOOLEAN, CreateTempFile(ok) PROVE IInv'
<1> USE DEF IInv
<1>1. /\ UNCHANGED <<total, named, received, dataLen, pc, allocated, pageData, fault, reply>>
      /\ pc = "loop" /\ dataLen # 0 /\ up.state = "START"
      /\ file = "none" /\ up.pagePos = 0 /\ received = dataLen
      /\ total \in Nat /\ received \in 0..total /\ dataLen \in 1..received
  BY UpFields DEF CreateTempFile, Looping, httpd, TypeOK, StartInv
<1>2. "WRITE" \in States /\ "ERROR" \in States /\ "No name" \in Errs
      /\ "App too large for free space" \in Errs
  BY DEF States, Errs
<1>3. CASE ok
  <2>1. PICK e \in Errs : up' = [state |-> "WRITE", pagePos |-> 0, address |-> 0,
                                 len |-> total, err |-> e]
                          /\ e \in {up.err, "No name"}
    BY <1>1, <1>2, <1>3, UpFields DEF CreateTempFile
  <2>2. file' = "temp" /\ cell' = [i \in 0..(Reserved(total)-1) |-> Junk]
    BY <1>3 DEF CreateTempFile
  <2>3. up' \in [state : States, pagePos : 0..(PageLen-1), address : Nat,
                 len : 0..total, err : Errs]
    <3>1. 0 \in 0..(PageLen-1) /\ total \in 0..total
      BY <1>1, PageLenAssumption
    <3> QED BY <2>1, <1>2, <3>1
  <2>4. cell' \in [0..((IF file' = "none" THEN 0 ELSE Reserved(total))-1) -> Int]
    BY <2>2 DEF Junk
  <2>5. TypeOK'
    BY <2>2, <2>3, <2>4, <1>1 DEF TypeOK, Reserved
  <2>6. /\ up'.state = "WRITE" /\ up'.pagePos = 0 /\ up'.address = 0
        /\ up'.len = total /\ up'.err = e
    BY <2>1
  <2>7. 0 % PageLen = 0 /\ 0 % EraseLen = 0
    BY PageLenAssumption, EraseLenAssumption
  <2>8. StartInv' /\ ConsumedInv'
    BY <1>1, <2>2, <2>6, <2>7 DEF StartInv, ConsumedInv
  <2>9. BufferInv' /\ FlashInv'
    BY <2>6, <2>7 DEF BufferInv, FlashInv
  <2>10. DoneInv' /\ ControlInv' /\ RenamedIsBody'
    BY <1>1, <2>2, <2>6 DEF DoneInv, ControlInv, RenamedIsBody
  <2>11. FlashErrorIsDeviceFault'
    BY <1>1, <2>1, <2>6 DEF FlashErrorIsDeviceFault
  <2> QED BY <2>5, <2>8, <2>9, <2>10, <2>11
<1>4. CASE ~ok
  <2>1. up' = [state |-> "ERROR", pagePos |-> up.pagePos, address |-> up.address,
               len |-> up.len, err |-> "App too large for free space"]
    BY <1>4, UpFields DEF CreateTempFile
  <2>2. UNCHANGED <<file, cell>>
    BY <1>4 DEF CreateTempFile
  <2>3. up' \in [state : States, pagePos : 0..(PageLen-1), address : Nat,
                 len : 0..total, err : Errs]
    BY <2>1, <1>2, UpFields
  <2>4. TypeOK'
    BY <2>2, <2>3, <1>1 DEF TypeOK, Reserved
  <2>5. up'.state = "ERROR" /\ up'.err = "App too large for free space"
    BY <2>1
  <2>6. StartInv' /\ ConsumedInv' /\ BufferInv' /\ FlashInv' /\ DoneInv' /\ ControlInv'
        /\ RenamedIsBody' /\ FlashErrorIsDeviceFault'
    BY <1>1, <2>2, <2>5 DEF StartInv, ConsumedInv, BufferInv, FlashInv, DoneInv, ControlInv,
       RenamedIsBody, FlashErrorIsDeviceFault
  <2> QED BY <2>4, <2>6
<1> QED BY <1>3, <1>4

\* Bytes taken into the page buffer land where the flash will need them.
LEMMA BufferedFacts ==
  ASSUME IInv, up.state = "WRITE", NEW n \in Nat, up.pagePos + n <= PageLen
  PROVE  /\ Buffered(n) \in [0..(PageLen-1) -> Int]
         /\ \A i \in 0..(up.pagePos + n - 1) : Buffered(n)[i] = up.address + i
<1> USE DEF IInv
<1>1. /\ received - dataLen = up.address + up.pagePos
      /\ up.pagePos \in Nat /\ up.address \in Nat /\ received \in Nat /\ dataLen \in Nat
      /\ PageLen \in Nat
      /\ pageData \in [0..(PageLen-1) -> Int]
      /\ DOMAIN pageData = 0..(PageLen-1)
  BY UpFields, PageLenAssumption DEF ConsumedInv, TypeOK
<1>2. \A i \in 0..(PageLen-1) :
        Buffered(n)[i] = IF i \in up.pagePos..(up.pagePos + n - 1)
                         THEN received - dataLen + (i - up.pagePos) ELSE pageData[i]
  BY <1>1 DEF Buffered
<1>3. Buffered(n) \in [0..(PageLen-1) -> Int]
  BY <1>1 DEF Buffered
<1>4. ASSUME NEW i \in 0..(up.pagePos + n - 1) PROVE Buffered(n)[i] = up.address + i
  <2>1. i \in 0..(PageLen-1)
    BY <1>1
  <2>2. CASE i < up.pagePos
    <3>1. Buffered(n)[i] = pageData[i] /\ i \in 0..(up.pagePos - 1)
      BY <1>1, <1>2, <2>1, <2>2, SMTT(30)
    <3> QED BY <3>1 DEF BufferInv
  <2>3. CASE i >= up.pagePos
    BY <1>1, <1>2, <2>1, <2>3, SMTT(30)
  <2> QED BY <1>1, <2>2, <2>3
<1> QED BY <1>3, <1>4

\* A chunk that does not finish the page only moves bytes to the buffer.
LEMMA BufferChunkIInv == ASSUME IInv, BufferChunk PROVE IInv'
<1>0. TypeOK /\ ConsumedInv /\ StartInv /\ BufferInv /\ FlashInv /\ DoneInv /\ ControlInv
      /\ RenamedIsBody /\ FlashErrorIsDeviceFault
  BY DEF IInv
<1>1. /\ UNCHANGED <<total, named, received, pc, allocated, file, cell, fault, reply>>
      /\ up.state = "WRITE" /\ dataLen < LenLeft /\ dataLen' = 0 /\ pc = "loop"
      /\ pageData' = Buffered(dataLen)
  BY DEF BufferChunk, Looping, httpd, flash
<1>2. up' = [state |-> "WRITE", pagePos |-> up.pagePos + dataLen, address |-> up.address,
             len |-> up.len - dataLen, err |-> up.err]
  BY <1>0, <1>1, UpFields DEF BufferChunk
<1>3. /\ LenLeft \in 1..PageLen /\ LenLeft <= up.len /\ up.pagePos + LenLeft <= PageLen
      /\ total \in Nat /\ received \in 0..total /\ dataLen \in 0..received
      /\ up.len \in 0..total /\ up.pagePos \in 0..(PageLen-1) /\ PageLen \in Nat
      /\ up.address \in Nat
  BY <1>0, <1>1, LenLeftFacts, UpFields, PageLenAssumption DEF TypeOK
<1>4. /\ up'.state = "WRITE" /\ up'.pagePos = up.pagePos + dataLen /\ up'.err = up.err
      /\ up'.address = up.address /\ up'.len = up.len - dataLen
  BY <1>2
<1>b. /\ Buffered(dataLen) \in [0..(PageLen-1) -> Int]
      /\ \A i \in 0..(up.pagePos + dataLen - 1) : Buffered(dataLen)[i] = up.address + i
  <2>1. dataLen \in Nat /\ up.pagePos + dataLen <= PageLen
    BY <1>1, <1>3
  <2> QED BY <1>1, <2>1, BufferedFacts
<1>5. TypeOK'
  <2>1. up.pagePos + dataLen \in 0..(PageLen-1) /\ up.len - dataLen \in 0..total
    BY <1>1, <1>3
  <2>2. up' \in [state : States, pagePos : 0..(PageLen-1), address : Nat,
                 len : 0..total, err : Errs]
    BY <1>0, <1>2, <2>1, <1>3, UpFields DEF States
  <2>3. dataLen' \in 0..received'
    BY <1>1, <1>3
  <2>4. pageData' \in [0..(PageLen-1) -> Int]
    BY <1>1, <1>b
  <2> QED BY <1>0, <1>1, <2>2, <2>3, <2>4 DEF TypeOK, Reserved
<1>6. StartInv' /\ DoneInv' /\ ControlInv' /\ RenamedIsBody' /\ FlashErrorIsDeviceFault'
  BY <1>0, <1>1, <1>4 DEF StartInv, DoneInv, ControlInv, RenamedIsBody, FlashErrorIsDeviceFault,
     ConsumedInv
<1>7. ConsumedInv'
  BY <1>0, <1>1, <1>3, <1>4 DEF ConsumedInv
<1>8. BufferInv'
  <2> SUFFICES ASSUME NEW i \in 0..(up'.pagePos - 1)
               PROVE  pageData'[i] = up'.address + i
    BY DEF BufferInv
  <2>1. i \in 0..(up.pagePos + dataLen - 1)
    BY <1>3, <1>4
  <2> QED BY <2>1, <1>b, <1>1, <1>4
<1>9. FlashInv'
  BY <1>0, <1>1, <1>4 DEF FlashInv
<1> QED BY <1>5, <1>6, <1>7, <1>8, <1>9 DEF IInv

\* The end of the erase block is the same for all of the block's pages.
LEMMA SameBlock ==
  ASSUME NEW a \in Nat, a % PageLen = 0, (a + PageLen) % EraseLen # 0
  PROVE  BlockEnd(a + PageLen) = BlockEnd(a)
<1>1. (a + PageLen) % EraseLen = (a % EraseLen) + PageLen
  BY PageInBlock
<1>2. a % EraseLen \in Nat /\ PageLen \in Nat /\ EraseLen \in Nat
  BY Division, PageLenAssumption, EraseLenAssumption
<1> DEFINE r == a % EraseLen
<1> HIDE DEF r
<1>3. (a + PageLen) - (r + PageLen) + EraseLen = a - r + EraseLen
  BY <1>2 DEF r
<1> QED BY <1>1, <1>3 DEF BlockEnd, r

\* Where a finished page lies: inside the file, and an erase in front of it
\* stays inside the flash that is reserved for the file.
LEMMA PageInFile ==
  ASSUME IInv, up.state = "WRITE"
  PROVE  /\ WriteInRange
         /\ NeedsErase => EraseInRange
         /\ up.pagePos + LenLeft \in 1..PageLen
         /\ up.address + (up.pagePos + LenLeft) <= total
         /\ up.len = LenLeft => up.address + (up.pagePos + LenLeft) = total
         /\ up.len # LenLeft => up.pagePos + LenLeft = PageLen
<1>0. TypeOK /\ ConsumedInv
  BY DEF IInv
<1>1. /\ LenLeft \in 1..PageLen /\ LenLeft <= up.len /\ up.pagePos + LenLeft <= PageLen
      /\ up.len # LenLeft => up.pagePos + LenLeft = PageLen
  BY <1>0, LenLeftFacts
<1>2. /\ total \in Nat /\ up.len \in Nat /\ up.pagePos \in Nat /\ up.address \in Nat
      /\ PageLen \in Nat
      /\ up.address + up.pagePos + up.len = total
  BY <1>0, UpFields, PageLenAssumption DEF ConsumedInv
<1>3. /\ up.pagePos + LenLeft \in 1..PageLen
      /\ up.address + (up.pagePos + LenLeft) <= total
      /\ up.address + up.pagePos + LenLeft <= total
      /\ up.address < total
      /\ up.len = LenLeft => up.address + (up.pagePos + LenLeft) = total
  BY <1>1, <1>2
<1>4. NeedsErase => EraseInRange
  <2>1. Reserved(total) \in Nat /\ total <= Reserved(total) /\ Reserved(total) % EraseLen = 0
    BY <1>2, ReservedFacts
  <2>2. up.address < Reserved(total)
    BY <1>2, <1>3, <2>1
  <2> QED BY <2>1, <2>2, <1>2, MultiplesApart, EraseLenAssumption DEF NeedsErase, EraseInRange
<1> QED BY <1>1, <1>3, <1>4 DEF WriteInRange

\* The page buffer after the chunk finished the page holds the page's bytes.
LEMMA FinishedBuffer ==
  ASSUME IInv, up.state = "WRITE"
  PROVE  /\ Buffered(LenLeft) \in [0..(PageLen-1) -> Int]
         /\ \A i \in 0..((up.pagePos + LenLeft) - 1) : Buffered(LenLeft)[i] = up.address + i
<1>1. /\ LenLeft \in Nat /\ up.pagePos + LenLeft <= PageLen
      /\ (up.pagePos + LenLeft) - 1 = up.pagePos + LenLeft - 1
  BY LenLeftFacts, UpFields, PageLenAssumption DEF IInv
<1>2. /\ Buffered(LenLeft) \in [0..(PageLen-1) -> Int]
      /\ \A i \in 0..(up.pagePos + LenLeft - 1) : Buffered(LenLeft)[i] = up.address + i
  BY <1>1, BufferedFacts
<1> QED BY <1>1, <1>2

\* What finishing a page does to the flash while nothing fails: the page now
\* holds its part of the body, the rest of its erase block stays erased.
LEMMA FinishedCells ==
  ASSUME IInv, up.state = "WRITE", ~fault, NEW new,
         new = WriteCells(IF NeedsErase THEN EraseCells(cell, up.address, TRUE) ELSE cell,
                          up.address, Buffered(LenLeft), up.pagePos + LenLeft, TRUE)
  PROVE  /\ \A i \in 0..(up.address + (up.pagePos + LenLeft) - 1) : new[i] = i
         /\ \A i \in (up.address + (up.pagePos + LenLeft))..(BlockEnd(up.address) - 1) :
              i \in DOMAIN new => new[i] = Erased
<1> DEFINE a == up.address
           n == up.pagePos + LenLeft
           data == Buffered(LenLeft)
           r == a % EraseLen
           top == BlockEnd(a)
           erased == IF NeedsErase THEN EraseCells(cell, a, TRUE) ELSE cell
<1>1. /\ a \in Nat /\ total \in Nat /\ PageLen \in Nat \ {0} /\ EraseLen \in Nat \ {0}
      /\ n \in 1..PageLen /\ a + n <= total
  BY PageInFile, UpFields, PageLenAssumption, EraseLenAssumption DEF IInv
<1>d. \A i \in 0..(n-1) : data[i] = a + i
  BY FinishedBuffer
<1>m. a % PageLen = 0 /\ FlashInv
  BY DEF IInv, ConsumedInv
<1>2. /\ \A i \in 0..(a - 1) : cell[i] = i
      /\ r # 0 => \A i \in a..(top - 1) : i \in DOMAIN cell => cell[i] = Erased
      /\ NeedsErase <=> r = 0
  <2>1. \A i \in 0..(a - 1) : cell[i] = i
    BY <1>m DEF FlashInv
  <2>2. r # 0 => \A i \in a..(top - 1) : i \in DOMAIN cell => cell[i] = Erased
    BY <1>m DEF FlashInv
  <2>3. NeedsErase <=> r = 0
    BY DEF NeedsErase
  <2> QED BY <2>1, <2>2, <2>3
<1>3. DOMAIN cell = 0..(Reserved(total)-1) /\ Reserved(total) \in Nat /\ total <= Reserved(total)
  BY <1>1, ReservedFacts DEF IInv, TypeOK, ConsumedInv
<1>4. r \in 0..(EraseLen - PageLen)
  BY <1>1, <1>m, PageInBlock
<1>5. new = WriteCells(erased, a, data, n, TRUE)
  OBVIOUS
<1>t. top = a - r + EraseLen
  BY DEF BlockEnd
<1> HIDE DEF r, n, data
<1>6. a + PageLen <= top /\ top \in Nat
  BY <1>1, <1>4, <1>t
<1>7. /\ DOMAIN erased = DOMAIN cell
      /\ \A i \in 0..(a-1) : i \in DOMAIN cell => erased[i] = i
      /\ \A i \in a..(top-1) : i \in DOMAIN cell => erased[i] = Erased
  <2>1. CASE r = 0
    <3>1. top = a + EraseLen
      BY <1>1, <1>t, <2>1
    <3>2. /\ DOMAIN erased = DOMAIN cell
          /\ \A i \in DOMAIN cell : erased[i] = IF i \in a..(a + EraseLen - 1)
                                              THEN Erased ELSE cell[i]
      BY <1>2, <2>1 DEF EraseCells
    <3> HIDE DEF erased, top
    <3>3. ASSUME NEW i \in 0..(a-1), i \in DOMAIN cell PROVE erased[i] = i
      <4>1. i \notin a..(a + EraseLen - 1)
        BY <1>1
      <4> QED BY <4>1, <3>2, <3>3, <1>2
    <3>4. ASSUME NEW i \in a..(top-1), i \in DOMAIN cell PROVE erased[i] = Erased
      <4>1. i \in a..(a + EraseLen - 1)
        BY <3>1, <1>1
      <4> QED BY <4>1, <3>2, <3>4
    <3> QED BY <3>2, <3>3, <3>4
  <2>2. CASE r # 0
    BY <2>2, <1>2
  <2> QED BY <2>1, <2>2
<1> HIDE DEF erased, top, a
<1>8. /\ DOMAIN new = DOMAIN cell
      /\ \A i \in DOMAIN cell : new[i] = IF i \in a..(a + n - 1)
                                       THEN IF erased[i] = Erased THEN data[i - a] ELSE Junk
                                       ELSE erased[i]
  BY <1>5, <1>7 DEF WriteCells
<1>9. ASSUME NEW i \in 0..(a + n - 1) PROVE new[i] = i
  <2>1. i \in DOMAIN cell
    BY <1>1, <1>3
  <2>2. CASE i \in 0..(a-1)
    <3>1. i \notin a..(a + n - 1)
      BY <1>1, <2>2
    <3> QED BY <3>1, <1>7, <1>8, <2>1, <2>2
  <2>3. CASE i \in a..(a + n - 1)
    <3>1. i \in a..(top - 1) /\ i - a \in 0..(n-1)
      BY <1>1, <1>6, <2>3
    <3>2. new[i] = data[i - a]
      BY <3>1, <2>1, <1>7, <1>8, <2>3
    <3>3. data[i - a] = a + (i - a)
      BY <3>1, <1>d
    <3>4. a + (i - a) = i
      BY <1>1
    <3> QED BY <3>2, <3>3, <3>4
  <2>4. i \in 0..(a-1) \/ i \in a..(a + n - 1)
    BY <1>1
  <2> QED BY <2>2, <2>3, <2>4
<1>10. ASSUME NEW i \in (a + n)..(top - 1), i \in DOMAIN new PROVE new[i] = Erased
  <2>1. i \in a..(top-1) /\ i \notin a..(a + n - 1)
    BY <1>1, <1>6
  <2> QED BY <2>1, <1>7, <1>8, <1>10
<1> QED BY <1>9, <1>10 DEF top, a, n

\* A page write keeps the type of the flash's contents.
LEMMA FinishedCellsType ==
  ASSUME IInv, up.state = "WRITE", NEW eraseOk \in BOOLEAN, NEW writeOk \in BOOLEAN
  PROVE  WriteCells(IF NeedsErase THEN EraseCells(cell, up.address, eraseOk) ELSE cell,
                    up.address, Buffered(LenLeft), up.pagePos + LenLeft, writeOk)
           \in [0..(Reserved(total)-1) -> Int]
<1> DEFINE n == up.pagePos + LenLeft
           data == Buffered(LenLeft)
           a == up.address
           c == IF NeedsErase THEN EraseCells(cell, a, eraseOk) ELSE cell
           D == 0..(Reserved(total)-1)
<1>1. /\ n \in 1..PageLen /\ a \in Nat /\ PageLen \in Nat
      /\ data \in [0..(PageLen-1) -> Int]
  BY PageInFile, FinishedBuffer, UpFields, PageLenAssumption DEF IInv
<1>2. cell \in [D -> Int]
  BY DEF IInv, TypeOK, ConsumedInv
<1>r. Reserved(total) \in Nat
  BY UpFields, ReservedFacts DEF IInv
<1>3. EraseCells(cell, a, eraseOk) \in [D -> Int]
  BY <1>2 DEF EraseCells, Erased, Junk
<1>4. c \in [D -> Int]
  BY <1>2, <1>3
<1> HIDE DEF n, data, a, c
<1>5. ASSUME NEW i \in D PROVE (IF i \in a..(a + n - 1)
                               THEN IF writeOk /\ c[i] = Erased THEN data[i - a] ELSE Junk
                               ELSE c[i]) \in Int
  <2>1. CASE i \in a..(a + n - 1)
    <3>1. i - a \in 0..(PageLen-1)
      BY <1>1, <2>1
    <3>2. data[i - a] \in Int /\ Junk \in Int
      BY <1>1, <3>1 DEF Junk
    <3> QED BY <2>1, <3>2
  <2>2. CASE i \notin a..(a + n - 1)
    BY <2>2, <1>4
  <2> QED BY <2>1, <2>2
<1>6. WriteCells(c, a, data, n, writeOk) \in [D -> Int]
  <2>1. DOMAIN c = D
    BY <1>4
  <2> QED BY <2>1, <1>5 DEF WriteCells
<1> QED BY <1>6 DEF n, data, a, c

\* Finishing a page keeps the account of consumed bytes, never leaves the
\* file, and completes the body with the last page.
LEMMA FinishPageIInv ==
  ASSUME IInv, NEW eraseOk \in BOOLEAN, NEW writeOk \in BOOLEAN, NEW renameOk \in BOOLEAN,
         FinishPage(eraseOk, writeOk, renameOk)
  PROVE  IInv'
<1>0. TypeOK /\ ConsumedInv /\ StartInv /\ BufferInv /\ FlashInv /\ DoneInv /\ ControlInv
      /\ RenamedIsBody /\ FlashErrorIsDeviceFault
  BY DEF IInv
<1>1. /\ UNCHANGED <<total, named, received, pc, allocated, reply>>
      /\ up.state = "WRITE" /\ dataLen >= LenLeft /\ pc = "loop"
      /\ dataLen' = dataLen - LenLeft
      /\ pageData' = Buffered(LenLeft)
      /\ up' = AfterPage(eraseOk, writeOk, renameOk)
      /\ file' = IF up.len = LenLeft /\ renameOk THEN "renamed" ELSE file
  BY DEF FinishPage, Looping, httpd
<1>2. cell' = WriteCells(IF NeedsErase THEN EraseCells(cell, up.address, eraseOk) ELSE cell,
                         up.address, Buffered(LenLeft), up.pagePos + LenLeft, writeOk)
  BY DEF FinishPage
<1>3. (fault' <=> fault \/ ~eraseOk \/ ~writeOk) /\ fault' \in BOOLEAN
  <2>1. fault' = (fault \/ (EraseInRange /\ ~eraseOk) \/ (WriteInRange /\ ~writeOk))
        /\ (~NeedsErase => eraseOk)
    BY DEF FinishPage
  <2>2. WriteInRange /\ (NeedsErase => EraseInRange)
    BY <1>1, PageInFile
  <2> QED BY <2>1, <2>2
<1>4. /\ LenLeft \in 1..PageLen /\ LenLeft <= up.len
      /\ total \in Nat /\ received \in 0..total /\ dataLen \in 0..received
      /\ up.len \in 0..total /\ up.pagePos \in 0..(PageLen-1) /\ PageLen \in Nat \ {0}
      /\ up.address \in Nat
  BY <1>0, <1>1, LenLeftFacts, UpFields, PageLenAssumption DEF TypeOK
<1>5. /\ up.address + up.pagePos + up.len = total
      /\ received - dataLen = up.address + up.pagePos
      /\ file = "temp" /\ up.address % PageLen = 0
  BY <1>0, <1>1 DEF ConsumedInv
<1>6. /\ up'.pagePos = 0 /\ up'.address = up.address + PageLen /\ up'.len = up.len - LenLeft
      /\ up'.state = IF up.len = LenLeft THEN IF renameOk THEN "DONE" ELSE "ERROR"
                     ELSE IF eraseOk /\ writeOk THEN "WRITE" ELSE "ERROR"
      /\ up'.err = IF up.len = LenLeft /\ ~renameOk THEN "Rename failed"
                   ELSE IF ~writeOk THEN "AppfsWrite failed"
                   ELSE IF ~eraseOk THEN "AppfsErase failed" ELSE up.err
  BY <1>1 DEF AfterPage
<1>7. TypeOK'
  <2>1. dataLen' \in 0..received' /\ up.address + PageLen \in Nat /\ 0 \in 0..(PageLen-1)
        /\ up.len - LenLeft \in 0..total
    BY <1>1, <1>4
  <2>2. up'.state \in States /\ up'.err \in Errs
    BY <1>0, <1>6, UpFields DEF States, Errs
  <2>3. up' = [state |-> up'.state, pagePos |-> 0, address |-> up.address + PageLen,
               len |-> up.len - LenLeft, err |-> up'.err]
    BY <1>1 DEF AfterPage
  <2>4. up' \in [state : States, pagePos : 0..(PageLen-1), address : Nat,
                 len : 0..total, err : Errs]
    BY <2>1, <2>2, <2>3
  <2>5. file' \in {"none", "temp", "renamed"} /\ file' # "none"
    BY <1>1, <1>5
  <2>6. cell' \in [0..(Reserved(total)-1) -> Int]
    BY <1>1, <1>2, FinishedCellsType
  <2>7. cell' \in [0..((IF file' = "none" THEN 0 ELSE Reserved(total))-1) -> Int]
    BY <2>5, <2>6
  <2>8. pageData' \in [0..(PageLen-1) -> Int]
    BY <1>1, FinishedBuffer
  <2> QED BY <1>0, <1>1, <1>3, <2>1, <2>4, <2>5, <2>7, <2>8 DEF TypeOK, Reserved
<1>8. FlashErrorIsDeviceFault'
  BY <1>0, <1>3, <1>6 DEF FlashErrorIsDeviceFault
<1>9. ~fault' =>
        /\ \A i \in 0..(up.address + (up.pagePos + LenLeft) - 1) : cell'[i] = i
        /\ \A i \in (up.address + (up.pagePos + LenLeft))..(BlockEnd(up.address) - 1) :
             i \in DOMAIN cell' => cell'[i] = Erased
  <2> SUFFICES ASSUME ~fault'
      PROVE /\ \A i \in 0..(up.address + (up.pagePos + LenLeft) - 1) : cell'[i] = i
            /\ \A i \in (up.address + (up.pagePos + LenLeft))..(BlockEnd(up.address) - 1) :
                 i \in DOMAIN cell' => cell'[i] = Erased
    OBVIOUS
  <2>1. ~fault /\ eraseOk = TRUE /\ writeOk = TRUE
    BY <1>3
  <2>2. cell' = WriteCells(IF NeedsErase THEN EraseCells(cell, up.address, TRUE) ELSE cell,
                           up.address, Buffered(LenLeft), up.pagePos + LenLeft, TRUE)
    BY <1>2, <2>1
  <2> QED BY <1>1, <2>1, <2>2, FinishedCells
<1>10. StartInv' /\ BufferInv'
  <2>1. up'.state # "START"
    BY <1>6
  <2>2. up'.pagePos = 0
    BY <1>6
  <2>3. 0..(0-1) = {}
    OBVIOUS
  <2> QED BY <2>1, <2>2, <2>3 DEF StartInv, BufferInv
<1>11. ControlInv'
  BY <1>0, <1>1, <1>6 DEF ControlInv
<1>12. CASE up.len = LenLeft
  <2>1. /\ up.address + (up.pagePos + LenLeft) = total
        /\ received = total /\ dataLen' = 0
    BY <1>1, <1>4, <1>5, <1>12
  <2>2. RenamedIsBody'
    <3> SUFFICES ASSUME ~fault', NEW i \in 0..(total'-1) PROVE cell'[i] = i
      BY DEF RenamedIsBody
    <3>1. total' = total
      BY <1>1
    <3>2. i \in 0..(up.address + (up.pagePos + LenLeft) - 1)
      BY <3>1, <2>1, <1>4
    <3> QED BY <3>2, <1>9
  <2>3. up'.state \in {"DONE", "ERROR"} /\ (up'.state = "DONE" <=> file' = "renamed")
    BY <1>1, <1>5, <1>6, <1>12
  <2>4. DoneInv' /\ ConsumedInv' /\ FlashInv'
    BY <1>1, <2>1, <2>3 DEF DoneInv, ConsumedInv, FlashInv
  <2> QED BY <1>7, <1>8, <1>10, <1>11, <2>2, <2>4 DEF IInv
<1>13. CASE up.len # LenLeft
  <2>1. up.pagePos + LenLeft = PageLen
    BY <1>1, <1>13, PageInFile
  <2>2. file' = "temp" /\ up'.state \in {"WRITE", "ERROR"}
    BY <1>1, <1>5, <1>6, <1>13
  <2>3. DoneInv' /\ RenamedIsBody'
    BY <2>2 DEF DoneInv, RenamedIsBody
  <2>4. ConsumedInv'
    <3>1. (up.address + PageLen) % PageLen = 0
      BY <1>4, <1>5, NextMultiple
    <3>2. /\ up.len - LenLeft > 0
          /\ up.address + PageLen + 0 + (up.len - LenLeft) = total
          /\ received - (dataLen - LenLeft) = up.address + PageLen + 0
      BY <1>4, <1>5, <1>13, <2>1
    <3> QED BY <1>1, <1>6, <2>2, <3>1, <3>2 DEF ConsumedInv
  <2>5. FlashInv'
    <3> DEFINE b == up.address + PageLen
    <3>0. up'.address = b
      BY <1>6
    <3>1. up.address + PageLen - 1 = b - 1
      BY <1>4
    <3>2. b % EraseLen # 0 => BlockEnd(b) = BlockEnd(up.address)
      BY <1>4, <1>5, SameBlock
    <3>3. ~fault' => /\ \A i \in 0..(b - 1) : cell'[i] = i
                     /\ \A i \in b..(BlockEnd(up.address) - 1) :
                          i \in DOMAIN cell' => cell'[i] = Erased
      BY <1>9, <2>1, <3>1
    <3> HIDE DEF b
    <3>4. ~fault' => /\ \A i \in 0..(b - 1) : cell'[i] = i
                     /\ b % EraseLen # 0 =>
                          \A i \in b..(BlockEnd(b) - 1) :
                            i \in DOMAIN cell' => cell'[i] = Erased
      BY <3>2, <3>3
    <3> QED BY <3>0, <3>4 DEF FlashInv, BlockEnd
  <2> QED BY <1>7, <1>8, <1>10, <1>11, <2>3, <2>4, <2>5 DEF IInv
<1> QED BY <1>12, <1>13

\* The invariant is inductive: every step keeps it.
LEMMA NextIInv == ASSUME IInv, [Next]_vars PROVE IInv'
<1>1. ASSUME NEW n \in 0..MaxLen, Call(n) PROVE IInv'
  BY <1>1, CallIInv
<1>2. CASE CallNoMemory \/ Abort
  BY <1>2, EndIInv
<1>3. ASSUME NEW ok \in BOOLEAN, CreateTempFile(ok) PROVE IInv'
  BY <1>3, CreateIInv
<1>4. CASE BufferChunk
  BY <1>4, BufferChunkIInv
<1>5. ASSUME NEW eraseOk \in BOOLEAN, NEW writeOk \in BOOLEAN, NEW renameOk \in BOOLEAN,
             FinishPage(eraseOk, writeOk, renameOk)
      PROVE  IInv'
  BY <1>5, FinishPageIInv
<1>6. CASE DropChunk
  BY <1>6, DropChunkIInv
<1>7. CASE Return
  BY <1>7, ReturnIInv
<1>8. CASE UNCHANGED vars
  BY <1>8 DEF vars, IInv, TypeOK, StartInv, ConsumedInv, BufferInv, FlashInv, DoneInv,
     ControlInv, RenamedIsBody, FlashErrorIsDeviceFault, Reserved
<1> QED
  BY <1>1, <1>2, <1>3, <1>4, <1>5, <1>6, <1>7, <1>8 DEF Next, Server, Loop

(***************************************************************************)
(* The theorems.                                                           *)
(***************************************************************************)

\* The inductive invariant holds in every reachable state: what was consumed
\* is on flash or in the page buffer, and a page that is not erased before it
\* is written lies in a block erased for an earlier page.
THEOREM Inductive == Spec => []IInv
<1>1. Init => IInv
  BY InitIInv
<1>2. IInv /\ [Next]_vars => IInv'
  BY NextIInv
<1> QED BY <1>1, <1>2, PTL DEF Spec

\* The handler's state stays well typed: pagePos stays inside the page
\* buffer, len inside the body, and the chunk is never over-consumed.
THEOREM TypeCorrect == Spec => []TypeOK
<1>1. IInv => TypeOK
  BY DEF IInv
<1> QED BY <1>1, Inductive, PTL

\* However the body is cut into chunks, a renamed file holds the body unless
\* the flash failed.
THEOREM RenamedBody == Spec => []RenamedIsBody
<1>1. IInv => RenamedIsBody
  BY DEF IInv
<1> QED BY <1>1, Inductive, PTL

\* The handler never erases or writes outside the file it created.
THEOREM InsideFile == Spec => []FlashErrorIsDeviceFault
<1>1. IInv => FlashErrorIsDeviceFault
  BY DEF IInv
<1> QED BY <1>1, Inductive, PTL

\* The answer to a finished request says "done" exactly when the file was
\* renamed, the state block is freed by then, and no byte is left over after
\* the last page.
THEOREM Answered == Spec => [](ReplyTellsRename /\ StateFreedAtEnd /\ NoBytesAfterDone)
<1>1. IInv => ReplyTellsRename /\ StateFreedAtEnd /\ NoBytesAfterDone
  BY DEF IInv, ControlInv, DoneInv, ReplyTellsRename, StateFreedAtEnd, NoBytesAfterDone
<1> QED BY <1>1, Inductive, PTL

(***************************************************************************)
(* CgiUpload implements AtomicUpload.                                      *)
(***************************************************************************)

\* Every step of the handler is a step of AtomicUpload or leaves it alone.
LEMMA StepAtomic ==
  ASSUME IInv, IInv', [Next]_vars
  PROVE  [Abstract!Next]_(Abstract!vars)
<1> DEFINE posted == [i \in 0..(total-1) |-> i]
           seen == IF file = "renamed" THEN {[i \in 0..(total-1) |-> cell[i]]} ELSE {}
<1>0. /\ DoneInv /\ ControlInv /\ RenamedIsBody' /\ ConsumedInv /\ StartInv
  BY DEF IInv
<1>1. total' = total
  BY DEF Next, Server, Loop, Call, CallNoMemory, Abort, CreateTempFile, BufferChunk,
     FinishPage, DropChunk, Return, vars, httpd
<1>2. posted' = posted
  BY <1>1
<1>3. (file = "renamed" => seen # {}) /\ (file' = "renamed" => seen' # {})
  OBVIOUS
<1>4. file' = "renamed" /\ ~fault' => seen' = {posted}
  <2> SUFFICES ASSUME file' = "renamed", ~fault' PROVE seen' = {posted}
    OBVIOUS
  <2>1. \A i \in 0..(total-1) : cell'[i] = i
    BY <1>0, <1>1 DEF RenamedIsBody
  <2>2. [i \in 0..(total-1) |-> cell'[i]] = posted
    BY <2>1
  <2> QED BY <1>1, <2>2
<1>5. (file # "renamed" => seen = {}) /\ (file' # "renamed" => seen' = {})
  OBVIOUS
<1>6. file' = file /\ cell' = cell => seen' = seen
  BY <1>1
<1> HIDE DEF posted, seen
<1>7. SUFFICES \/ seen' = seen /\ Outcome' = Outcome /\ fault' \in {fault, TRUE}
               \/ /\ Outcome = "pending" /\ Outcome' = Outcome
                  /\ seen = {} /\ seen' # {}
                  /\ ~fault' => seen' = {posted}
                  /\ fault => fault'
               \/ /\ Outcome = "pending" /\ Outcome' = "ok"
                  /\ seen # {} /\ seen' = seen /\ fault' = fault
               \/ /\ Outcome = "pending" /\ Outcome' \in {"refused", "dropped"}
                  /\ seen = {} /\ seen' = seen /\ fault' = fault
  BY <1>2 DEF Abstract!Next, Abstract!DeviceFails, Abstract!Publish, Abstract!Confirm,
     Abstract!GiveUp, Abstract!vars, posted, seen
<1>8. pc # "closed" /\ pc' # "closed" => Outcome = "pending" /\ Outcome' = "pending"
  BY DEF Outcome
<1>9. ASSUME NEW n \in 0..MaxLen, Call(n)
      PROVE  seen' = seen /\ Outcome' = Outcome /\ fault' = fault
  BY <1>9, <1>6, <1>8 DEF Call, flash
<1>10. ASSUME NEW ok \in BOOLEAN, CreateTempFile(ok)
       PROVE  seen' = seen /\ Outcome' = Outcome /\ fault' = fault
  <2>1. file' # "renamed" /\ file # "renamed" /\ pc = "loop" /\ pc' = "loop" /\ fault' = fault
    BY <1>0, <1>10 DEF CreateTempFile, Looping, StartInv
  <2> QED BY <2>1, <1>5, <1>8
<1>11. CASE BufferChunk \/ DropChunk
  <2>1. file' = file /\ cell' = cell /\ fault' = fault /\ pc = "loop" /\ pc' = "loop"
    BY <1>11 DEF BufferChunk, DropChunk, Looping, flash
  <2> QED BY <2>1, <1>6, <1>8
<1>12. ASSUME NEW eraseOk \in BOOLEAN, NEW writeOk \in BOOLEAN, NEW renameOk \in BOOLEAN,
              FinishPage(eraseOk, writeOk, renameOk)
       PROVE  \/ seen' = seen /\ Outcome' = Outcome /\ fault' \in {fault, TRUE}
              \/ /\ Outcome = "pending" /\ Outcome' = Outcome
                 /\ seen = {} /\ seen' # {}
                 /\ ~fault' => seen' = {posted}
                 /\ fault => fault'
  <2>1. pc = "loop" /\ pc' = "loop" /\ file = "temp"
    BY <1>0, <1>12 DEF FinishPage, Looping, ConsumedInv
  <2>2. fault' = (fault \/ (EraseInRange /\ ~eraseOk) \/ (WriteInRange /\ ~writeOk))
    BY <1>12 DEF FinishPage
  <2>3. fault \in BOOLEAN /\ fault' \in BOOLEAN
    BY DEF IInv, TypeOK
  <2>4. (fault => fault') /\ fault' \in {fault, TRUE}
    BY <2>2, <2>3
  <2>5. CASE file' = "renamed"
    BY <2>1, <2>4, <2>5, <1>3, <1>4, <1>5, <1>8
  <2>6. CASE file' # "renamed"
    BY <2>1, <2>4, <2>6, <1>5, <1>8
  <2> QED BY <2>5, <2>6
<1>13. CASE CallNoMemory \/ Abort
  <2>1. file' = file /\ cell' = cell /\ fault' = fault /\ file # "renamed" /\ pc = "wait"
        /\ pc' = "closed" /\ reply = "none" /\ reply' = "none"
    BY <1>0, <1>13 DEF CallNoMemory, Abort, flash, ControlInv, DoneInv
  <2>2. Outcome = "pending" /\ Outcome' = "dropped"
    BY <2>1 DEF Outcome
  <2> QED BY <2>1, <2>2, <1>5, <1>6
<1>14. CASE Return
  <2>1. file' = file /\ cell' = cell /\ fault' = fault /\ pc = "loop" /\ up' = up
        /\ Outcome = "pending"
    BY <1>14 DEF Return, flash, Outcome
  <2>2. CASE total # received
    BY <2>1, <2>2, <1>6, <1>8, <1>14 DEF Return
  <2>3. CASE total = received /\ up.state = "DONE"
    <3>1. pc' = "closed" /\ reply' = "done"
      BY <1>14, <2>3 DEF Return
    <3>2. Outcome' = "ok" /\ file = "renamed"
      BY <3>1, <2>3, <1>0 DEF Outcome, DoneInv
    <3> QED BY <2>1, <3>2, <1>3, <1>6
  <2>4. CASE total = received /\ up.state # "DONE"
    <3>1. pc' = "closed" /\ reply' \in {"error200", "error400"}
      BY <1>14, <2>4 DEF Return
    <3>2. Outcome' = "refused" /\ file # "renamed"
      BY <3>1, <2>4, <1>0 DEF Outcome, DoneInv
    <3> QED BY <2>1, <3>2, <1>5, <1>6
  <2> QED BY <2>2, <2>3, <2>4
<1>15. CASE UNCHANGED vars
  <2>1. file' = file /\ cell' = cell /\ fault' = fault /\ pc' = pc /\ reply' = reply
    BY <1>15 DEF vars
  <2> QED BY <2>1, <1>6 DEF Outcome
<1> QED
  BY <1>9, <1>10, <1>11, <1>12, <1>13, <1>14, <1>15 DEF Next, Server, Loop

\* An upload is all or nothing: the handler implements AtomicUpload for every
\* body, every chunking of it and every failure of the device.
THEOREM Atomic == Spec => UploadIsAtomic
<1>1. Init => Abstract!Init
  BY DEF Init, Abstract!Init, Outcome
<1>2. IInv /\ IInv' /\ [Next]_vars => [Abstract!Next]_(Abstract!vars)
  BY StepAtomic
<1> QED BY <1>1, <1>2, Inductive, PTL DEF Spec, UploadIsAtomic, Abstract!Spec
===============================================================================
