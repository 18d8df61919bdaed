----------------------------- MODULE LogDownload ------------------------------
(***************************************************************************)
(* cgiDownloadLog (main/cgidev.c): sends the ring buffer in RTC memory, in *)
(* which the SDK keeps what an app printed, oldest byte first, in chunks.  *)
(*                                                                         *)
(* The n-th byte ever printed is represented by n. An app prints (Print is *)
(* external), then the chooser runs, which is started without the stdout   *)
(* handler and so adds nothing to the buffer while it is downloaded.       *)
(***************************************************************************)
EXTENDS Integers, Sequences

CONSTANTS
  BufSize,    \* rb->bufsz
  Chunk,      \* DOWNLOAD_CHUNK_SIZE
  MaxPrinted  \* bound: bytes the app prints

VARIABLES
  rb,        \* the ring buffer: magic is right, writeptr, has_wrapped, buffer
  printed,   \* history: number of bytes printed
  st,        \* "print": the app runs; "idle", "send", "done", "404", "gone"
  dl,        \* DownloadLogState: size, pos, ptr
  sent,      \* bytes given to httpdSend
  held       \* the DownloadLogState block is allocated

vars == <<rb, printed, st, dl, sent, held>>

NoState == [size |-> 0, pos |-> 0, ptr |-> 0]

Init ==
  /\ \E m \in BOOLEAN : rb = [magic |-> m, writeptr |-> 0, wrapped |-> FALSE,
                              buffer |-> [i \in 0..(BufSize-1) |-> 0]]
  /\ printed = 0
  /\ st = "print"
  /\ dl = NoState
  /\ sent = << >>
  /\ held = FALSE

\* The SDK's stdout handler: one more byte, wrapping at the end.
PrintByte ==
  /\ st = "print" /\ rb.magic /\ printed < MaxPrinted
  /\ printed' = printed + 1
  /\ LET next == rb.writeptr + 1
     IN  rb' = [rb EXCEPT !.buffer[rb.writeptr] = printed + 1,
                          !.writeptr = next % BufSize,
                          !.wrapped  = @ \/ next = BufSize]
  /\ UNCHANGED <<st, dl, sent, held>>

\* The app ends and the chooser starts.
AppEnds ==
  /\ st = "print"
  /\ st' = "idle"
  /\ UNCHANGED <<rb, printed, dl, sent, held>>

(***************************************************************************)
(* The handler.                                                            *)
(***************************************************************************)

\* Wrong variant: a buffer that has wrapped is sent from its first cell.
FirstStateAtZero ==
  [size |-> IF rb.wrapped THEN BufSize ELSE rb.writeptr, pos |-> 0, ptr |-> 0]

\* Where a download starts and how much there is to send.
FirstState ==
  IF rb.wrapped THEN [size |-> BufSize, pos |-> 0, ptr |-> rb.writeptr]
                ELSE [size |-> rb.writeptr, pos |-> 0, ptr |-> 0]

\* Wrong variant: a rest that is shorter than a chunk is never sent.
ChunkLenWhole(d) == IF d.size - d.pos > Chunk THEN Chunk ELSE 0

ChunkLen(d) == IF d.size - d.pos > Chunk THEN Chunk ELSE d.size - d.pos

\* The common end of every call: copy a chunk out of the ring, send it, and
\* free the state once everything is sent.
SendChunk(d) ==
  LET n == ChunkLen(d)
  IN  /\ sent' = sent \o [i \in 1..n |-> rb.buffer[(d.ptr + i - 1) % BufSize]]
      /\ dl' = [d EXCEPT !.pos = @ + n, !.ptr = (@ + n) % BufSize]
      /\ IF d.pos + n = d.size
         THEN st' = "done" /\ held' = FALSE
         ELSE st' = "send" /\ held' = TRUE

FirstCall ==
  /\ st = "idle"
  /\ rb.magic
  /\ SendChunk(FirstState)
  /\ UNCHANGED <<rb, printed>>

\* There is nothing in RTC memory: 404, and the block stays allocated.
BadMagic ==
  /\ st = "idle"
  /\ ~rb.magic
  /\ st' = "404" /\ held' = TRUE
  /\ UNCHANGED <<rb, printed, dl, sent>>

NoMemory ==
  /\ st = "idle"
  /\ st' = "gone"
  /\ UNCHANGED <<rb, printed, dl, sent, held>>

NextCall ==
  /\ st = "send"
  /\ SendChunk(dl)
  /\ UNCHANGED <<rb, printed>>

\* The connection is lost; the last call frees the state.
Abort ==
  /\ st = "send"
  /\ st' = "gone" /\ held' = FALSE
  /\ UNCHANGED <<rb, printed, dl, sent>>

Next == PrintByte \/ AppEnds \/ FirstCall \/ BadMagic \/ NoMemory \/ NextCall \/ Abort

Spec == Init /\ [][Next]_vars

(***************************************************************************)
(* Properties.                                                             *)
(***************************************************************************)

\* The last bytes that were printed, oldest first: what the buffer can hold.
Kept ==
  LET n == IF printed < BufSize THEN printed ELSE BufSize
  IN  [i \in 1..n |-> printed - n + i]

\* A download's content and status as Transfer has them.
Content == IF st \in {"send", "done"} \/ dl # NoState THEN Kept ELSE << >>

Status == CASE st \in {"print", "idle"} -> "new"
            [] st = "send"              -> "open"
            [] st = "done"              -> "complete"
            [] OTHER                    -> "over"

Abstract == INSTANCE Transfer WITH content <- Content, status <- Status

\* The client gets the log that the buffer kept, oldest byte first, complete
\* and with the announced length, whatever the fill level, the position of
\* the write pointer and the chunk size.
Transferred == Abstract!Spec
===============================================================================
