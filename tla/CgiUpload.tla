------------------------------ MODULE CgiUpload -------------------------------
(***************************************************************************)
(* cgiUploadFile (main/cgiappfs.c), byte by byte: one HTTP POST, delivered *)
(* by the web server in chunks of any size, is collected in a page buffer  *)
(* and written page by page to a temporary appfs file, which is renamed    *)
(* once its last page is written.                                          *)
(*                                                                         *)
(* A byte of the body is represented by its position in the body, so that  *)
(* a byte that is lost, repeated or stored at the wrong place shows.       *)
(* The web server (libesphttpd) and appfs are external; every appfs call   *)
(* may fail.                                                               *)
(***************************************************************************)
EXTENDS Integers

CONSTANTS
  PageLen,    \* PAGELEN: bytes collected before a write to flash
  EraseLen,   \* SPI_FLASH_ERASE_SIZE: bytes erased at once
  SectorLen,  \* granularity in which appfs hands out flash to a file
  MaxLen      \* bound: the longest body considered

ASSUME PageLenAssumption   == PageLen \in Nat \ {0}
ASSUME EraseLenAssumption  == EraseLen \in Nat \ {0} /\ EraseLen % PageLen = 0
ASSUME SectorLenAssumption == SectorLen \in Nat \ {0} /\ SectorLen % EraseLen = 0
ASSUME MaxLenAssumption    == MaxLen \in Nat

VARIABLES
  total,      \* connData->post->len
  named,      \* the request has a name argument that is not empty
  received,   \* connData->post->received
  dataLen,    \* bytes of this call's chunk not consumed yet
  pc,         \* "wait": between calls; "loop": inside the handler; "closed"
  allocated,  \* the UploadState block is allocated (cgiData # NULL)
  up,         \* the UploadState fields state, pagePos, address, len, err
  pageData,   \* UploadState.pageData
  file,       \* the file this upload created: "none", "temp" or "renamed"
  cell,       \* contents of the flash allocated to that file
  fault,      \* history: an erase or a write was failed by the device
  reply       \* what was sent: "none", "done", "error200" or "error400"

httpd == <<total, named, received>>
flash == <<file, cell, fault>>
vars == <<total, named, received, dataLen, pc, allocated, up, pageData,
          file, cell, fault, reply>>

\* Cells of flash that hold no byte of the body.
Erased == -1
Junk   == -2

States == {"START", "WRITE", "DONE", "ERROR"}
Errs   == {"Premature end", "No name", "App too large for free space",
           "AppfsErase failed", "AppfsWrite failed", "Rename failed"}

\* The block as calloc and the first-call branch leave it.
FreshState == [state |-> "START", pagePos |-> 0, address |-> 0, len |-> 0,
               err |-> "Premature end"]

Init ==
  /\ total \in 0..MaxLen
  /\ named \in BOOLEAN
  /\ received = 0
  /\ dataLen = 0
  /\ pc = "wait"
  /\ allocated = FALSE
  /\ up = FreshState
  /\ pageData = [i \in 0..(PageLen-1) |-> Junk]
  /\ file = "none"
  /\ cell = [i \in {} |-> Junk]
  /\ fault = FALSE
  /\ reply = "none"

(***************************************************************************)
(* appfs, as this handler uses it.                                         *)
(***************************************************************************)

\* Flash reserved for a file of n bytes: whole sectors.
Reserved(n) == ((n + SectorLen - 1) \div SectorLen) * SectorLen

\* What an operation may answer: an error if what it works on is not there,
\* and otherwise whatever the device does.
MayAnswer(ok, there) == ok => there

\* appfsErase: on success the cells hold no bit; after a failure anything.
EraseCells(c, from, ok) ==
  [i \in DOMAIN c |->
     IF i \in from..(from + EraseLen - 1) THEN IF ok THEN Erased ELSE Junk ELSE c[i]]

\* appfsWrite: only erased cells take the value written to them.
WriteCells(c, from, data, n, ok) ==
  [i \in DOMAIN c |->
     IF i \in from..(from + n - 1)
     THEN IF ok /\ c[i] = Erased THEN data[i - from] ELSE Junk
     ELSE c[i]]

(***************************************************************************)
(* The handler.                                                            *)
(***************************************************************************)

\* The web server calls the handler with n more bytes of the body. The
\* first call allocates the state.
Call(n) ==
  /\ pc = "wait"
  /\ n \in 0..(total - received)
  /\ received' = received + n
  /\ dataLen' = n
  /\ pc' = "loop"
  /\ allocated' = TRUE
  /\ UNCHANGED <<total, named, up, pageData, flash, reply>>

\* The first call finds no memory for the state and ends the request.
CallNoMemory ==
  /\ pc = "wait"
  /\ ~allocated
  /\ pc' = "closed"
  /\ UNCHANGED <<httpd, dataLen, allocated, up, pageData, flash, reply>>

\* The web server tells the handler that the connection is gone.
Abort ==
  /\ pc = "wait"
  /\ pc' = "closed"
  /\ allocated' = FALSE
  /\ UNCHANGED <<httpd, dataLen, up, pageData, flash, reply>>

Looping == pc = "loop" /\ dataLen # 0

\* The creation of the temporary file decides the state, whatever the
\* test of the name argument decided just before it.
CreateTempFile(ok) ==
  /\ Looping
  /\ up.state = "START"
  /\ LET noName == IF named THEN up.err ELSE "No name"
     IN  up' = IF ok
               THEN [up EXCEPT !.state = "WRITE", !.len = total,
                               !.address = 0, !.err = noName]
               ELSE [up EXCEPT !.state = "ERROR",
                               !.err = "App too large for free space"]
  /\ file' = IF ok THEN "temp" ELSE file
  /\ cell' = IF ok THEN [i \in 0..(Reserved(total)-1) |-> Junk] ELSE cell
  /\ UNCHANGED <<httpd, dataLen, pc, allocated, pageData, fault, reply>>

\* Wrong variant: the page is finished one byte early.
LenLeftShort ==
  IF up.len < PageLen - up.pagePos - 1 THEN up.len ELSE PageLen - up.pagePos - 1

\* Bytes needed to finish the page buffer; the last page can be cut off.
LenLeft ==
  IF up.len < PageLen - up.pagePos THEN up.len ELSE PageLen - up.pagePos

\* The page buffer once it took n bytes from the chunk: the chunk's next
\* byte is number received - dataLen of the body.
Buffered(n) ==
  [i \in DOMAIN pageData |->
     IF i \in up.pagePos..(up.pagePos + n - 1)
     THEN received - dataLen + (i - up.pagePos)
     ELSE pageData[i]]

\* The chunk does not finish the page: copy it to the buffer.
BufferChunk ==
  /\ Looping
  /\ up.state = "WRITE"
  /\ dataLen < LenLeft
  /\ pageData' = Buffered(dataLen)
  /\ up' = [up EXCEPT !.pagePos = @ + dataLen, !.len = @ - dataLen]
  /\ dataLen' = 0
  /\ UNCHANGED <<httpd, pc, allocated, flash, reply>>

\* Wrong variants: only the first block is erased; every page erases.
NeedsEraseFirst == up.address = 0
NeedsEraseAlways == TRUE

NeedsErase == up.address % EraseLen = 0

\* The fields after a page: the address advances by a whole page, and the
\* state that the erase and the write left is replaced once no byte is left.
AfterPage(eraseOk, writeOk, renameOk) ==
  LET last == up.len = LenLeft
  IN  [ state   |-> IF last
                    THEN IF renameOk THEN "DONE" ELSE "ERROR"
                    ELSE IF eraseOk /\ writeOk THEN "WRITE" ELSE "ERROR",
        pagePos |-> 0,
        address |-> up.address + PageLen,
        len     |-> up.len - LenLeft,
        err     |-> IF last /\ ~renameOk THEN "Rename failed"
                    ELSE IF ~writeOk THEN "AppfsWrite failed"
                    ELSE IF ~eraseOk THEN "AppfsErase failed"
                    ELSE up.err ]

EraseInRange == up.address + EraseLen <= Reserved(total)
WriteInRange == up.address + up.pagePos + LenLeft <= total

\* The chunk finishes the page: erase if the page starts an erase block,
\* write the page, and after the last page rename the temporary file.
FinishPage(eraseOk, writeOk, renameOk) ==
  /\ Looping
  /\ up.state = "WRITE"
  /\ dataLen >= LenLeft
  /\ IF NeedsErase THEN MayAnswer(eraseOk, EraseInRange) ELSE eraseOk
  /\ MayAnswer(writeOk, WriteInRange)
  /\ IF up.len = LenLeft THEN MayAnswer(renameOk, file = "temp") ELSE renameOk
  /\ cell' = WriteCells(IF NeedsErase THEN EraseCells(cell, up.address, eraseOk) ELSE cell,
                        up.address, Buffered(LenLeft), up.pagePos + LenLeft, writeOk)
  /\ fault' = (fault \/ (EraseInRange /\ ~eraseOk) \/ (WriteInRange /\ ~writeOk))
  /\ up' = AfterPage(eraseOk, writeOk, renameOk)
  /\ file' = IF up.len = LenLeft /\ renameOk THEN "renamed" ELSE file
  /\ pageData' = Buffered(LenLeft)
  /\ dataLen' = dataLen - LenLeft
  /\ UNCHANGED <<httpd, pc, allocated, reply>>

\* Wrong variant: the chunk is not marked as consumed.
DropChunkKeeps ==
  /\ Looping
  /\ up.state \in {"DONE", "ERROR"}
  /\ UNCHANGED vars

\* Bytes that arrive after the end or after an error are dropped.
DropChunk ==
  /\ Looping
  /\ up.state \in {"DONE", "ERROR"}
  /\ dataLen' = 0
  /\ UNCHANGED <<httpd, pc, allocated, up, pageData, flash, reply>>

\* The chunk is consumed: answer and free the state after the last chunk,
\* ask for more otherwise.
Return ==
  /\ pc = "loop"
  /\ dataLen = 0
  /\ IF total = received
     THEN /\ reply' = CASE up.state = "DONE"  -> "done"
                        [] up.state = "ERROR" -> "error400"
                        [] OTHER              -> "error200"
          /\ allocated' = FALSE
          /\ pc' = "closed"
     ELSE /\ pc' = "wait"
          /\ UNCHANGED <<reply, allocated>>
  /\ UNCHANGED <<httpd, dataLen, up, pageData, flash>>

Loop ==
  \/ \E ok \in BOOLEAN : CreateTempFile(ok)
  \/ BufferChunk
  \/ \E eraseOk, writeOk, renameOk \in BOOLEAN : FinishPage(eraseOk, writeOk, renameOk)
  \/ DropChunk

Server ==
  \/ \E n \in 0..MaxLen : Call(n)
  \/ CallNoMemory
  \/ Abort

Next == Server \/ Loop \/ Return

\* The handler runs to its return; the web server owes nobody another chunk.
Fairness == WF_vars(Loop) /\ WF_vars(Return)

Spec == Init /\ [][Next]_vars
FairSpec == Spec /\ Fairness

(***************************************************************************)
(* Properties.                                                             *)
(***************************************************************************)

\* Type correctness of the handler's state, of what it knows of the request
\* and of the flash it writes.
TypeOK ==
  /\ total \in 0..MaxLen
  /\ named \in BOOLEAN
  /\ received \in 0..total
  /\ dataLen \in 0..received
  /\ pc \in {"wait", "loop", "closed"}
  /\ allocated \in BOOLEAN
  /\ up \in [state : States, pagePos : 0..(PageLen-1), address : Nat,
             len : 0..total, err : Errs]
  /\ pageData \in [0..(PageLen-1) -> Int]
  /\ file \in {"none", "temp", "renamed"}
  /\ cell \in [0..((IF file = "none" THEN 0 ELSE Reserved(total))-1) -> Int]
  /\ fault \in BOOLEAN
  /\ reply \in {"none", "done", "error200", "error400"}

\* The file that takes the upload's name holds the posted body, every byte
\* once and at its place, however the body was cut into chunks, unless the
\* flash failed (cgiUploadFile's page buffer, erase test and rename).
RenamedIsBody ==
  file = "renamed" /\ ~fault => \A i \in 0..(total-1) : cell[i] = i

\* Every erase and write the handler asks for lies inside the file that it
\* created: appfs refuses none of them, so an erase or write error is always
\* the device's fault (the address arithmetic of cgiUploadFile).
FlashErrorIsDeviceFault ==
  up.err \in {"AppfsErase failed", "AppfsWrite failed"} => fault

\* Once the request is over, the answer tells whether the file was renamed:
\* "done" is sent exactly for a renamed file, also when flash operations
\* fail, the state cannot be allocated or the connection is lost.
ReplyTellsRename ==
  pc = "closed" => (reply = "done" <=> file = "renamed")

\* The branch that reports bogus bytes received after the data is never
\* taken: no byte is left when the last page is finished.
NoBytesAfterDone ==
  up.state = "DONE" => dataLen = 0

\* Every way out of the handler frees the state block that it allocated.
StateFreedAtEnd ==
  pc = "closed" => ~allocated

\* A call of the handler returns: the loop over the chunk cannot spin
\* without consuming it.
CallReturns ==
  (pc = "loop") ~> (pc # "loop")

\* What the comment on temporary files says of them (main/main.c): they are
\* renamed once writing has succeeded.
RenamedOnlyIfWritten ==
  file = "renamed" => ~fault

(***************************************************************************)
(* The promise made to the client.                                         *)
(***************************************************************************)

Outcome ==
  IF pc # "closed" THEN "pending"
  ELSE IF reply = "done" THEN "ok"
  ELSE IF reply = "none" THEN "dropped"
  ELSE "refused"

Abstract == INSTANCE AtomicUpload WITH
  body    <- [i \in 0..(total-1) |-> i],
  visible <- IF file = "renamed" THEN {[i \in 0..(total-1) |-> cell[i]]} ELSE {},
  failed  <- fault,
  outcome <- Outcome

\* An upload is all or nothing, however it is cut into chunks and wherever
\* the connection is lost: the detailed handler implements AtomicUpload.
UploadIsAtomic == Abstract!Spec
===============================================================================
