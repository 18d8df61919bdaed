---------------------------- MODULE FlashDownload -----------------------------
(***************************************************************************)
(* cgiDownloadFlash (main/cgidev.c): sends a range of the SPI flash, given *)
(* by the arguments size and off, in chunks. The byte of the flash at      *)
(* address a is represented by a. spi_flash_read and httpdSend are         *)
(* external: a read outside the flash leaves the buffer as it is, and a    *)
(* negative length makes httpdSend send the buffer up to its first zero.   *)
(***************************************************************************)
EXTENDS Integers, Sequences

CONSTANTS
  FlashLen,   \* bytes of SPI flash
  Chunk,      \* DOWNLOAD_CHUNK_SIZE
  Sizes,      \* values of the size argument, 0 if it is missing
  Offs        \* values of the off argument, 0 if it is missing

VARIABLES
  off,    \* the off argument
  st,     \* "idle", "send", "done", "404", "gone"
  dl,     \* DownloadFlashState: size, pos
  sent,   \* bytes given to httpdSend
  held    \* the DownloadFlashState block is allocated

vars == <<off, st, dl, sent, held>>

\* A byte of the stack buffer that no read has filled.
Junk == -1

NoState == [size |-> 0, pos |-> 0]

Init == off = 0 /\ st = "idle" /\ dl = NoState /\ sent = << >> /\ held = FALSE

ReadFlash(a, n) ==
  [i \in 1..n |-> IF a + n <= FlashLen THEN a + i - 1 ELSE Junk]

\* What httpdSend sends of the buffer: n bytes, or, for a negative n, as many
\* as happen to be there before a zero (at most a buffer full).
Sent(a, n) ==
  IF n >= 0 THEN {ReadFlash(a, n)} ELSE {[i \in 1..k |-> Junk] : k \in 0..Chunk}

\* Wrong variant: a rest that is shorter than a chunk is never sent.
ChunkLenWhole(d) == IF d.size - d.pos > Chunk THEN Chunk ELSE 0

\* The length is size - pos although pos starts at off; it is negative if off
\* lies behind size.
ChunkLen(d) == IF d.size - d.pos > Chunk THEN Chunk ELSE d.size - d.pos

\* The common end of every call.
SendChunk(d) ==
  LET n == ChunkLen(d)
  IN  /\ \E bytes \in Sent(d.pos, n) : sent' = sent \o bytes
      /\ dl' = [d EXCEPT !.pos = @ + n]
      /\ IF d.pos + n = d.size
         THEN st' = "done" /\ held' = FALSE
         ELSE st' = "send" /\ held' = TRUE

\* Wrong variant: off is ignored.
FirstCallNoOff(size, o) ==
  /\ st = "idle" /\ size # 0
  /\ off' = o
  /\ SendChunk([size |-> size, pos |-> 0])

FirstCall(size, o) ==
  /\ st = "idle"
  /\ size # 0
  /\ off' = o
  /\ SendChunk([size |-> size, pos |-> o])

\* No size: 404, and the block stays allocated.
BadArgs(o) ==
  /\ st = "idle" /\ 0 \in Sizes
  /\ st' = "404" /\ held' = TRUE
  /\ off' = o
  /\ UNCHANGED <<dl, sent>>

NoMemory ==
  /\ st = "idle"
  /\ st' = "gone"
  /\ UNCHANGED <<off, dl, sent, held>>

NextCall ==
  /\ st = "send"
  /\ SendChunk(dl)
  /\ UNCHANGED off

Abort ==
  /\ st = "send"
  /\ st' = "gone" /\ held' = FALSE
  /\ UNCHANGED <<off, dl, sent>>

Next ==
  \/ \E size \in Sizes, o \in Offs : FirstCall(size, o)
  \/ \E o \in Offs : BadArgs(o)
  \/ NoMemory \/ NextCall \/ Abort

Spec == Init /\ [][Next]_vars

(***************************************************************************)
(* Properties.                                                             *)
(***************************************************************************)

\* What the handler sends of a range that lies in the flash: the bytes from
\* off to size, in order, once each (nothing if off = size), and it stops
\* exactly there.
SendsUpToSize ==
  st \in {"send", "done"} /\ off <= dl.size /\ dl.size <= FlashLen =>
    /\ sent = [i \in 1..(dl.pos - off) |-> off + i - 1]
    /\ st = "done" <=> dl.pos = dl.size
===============================================================================
