---------------------------- MODULE DevDownloads ----------------------------
(***************************************************************************)
(* The developer page's two downloads (main/cgidev.c) on two connections   *)
(* of the web server: one client fetches the stdout log, another one a     *)
(* range of the flash, and the server calls their handlers in any order.   *)
(***************************************************************************)
EXTENDS Integers, Sequences

CONSTANTS
  BufSize,     \* size of the log's ring buffer
  FlashLen,    \* bytes of SPI flash
  Chunk,       \* DOWNLOAD_CHUNK_SIZE
  Sizes, Offs, \* arguments of the flash download
  MaxPrinted   \* bound: bytes the app prints

ASSUME DevAssumption ==
  /\ BufSize \in Nat \ {0} /\ FlashLen \in Nat /\ Chunk \in Nat \ {0}
  /\ Sizes \subseteq Nat /\ Offs \subseteq Nat /\ MaxPrinted \in Nat

VARIABLES rb, printed, logSt, logDl, logSent, logHeld,   \* LogDownload
          off, flashSt, flashDl, flashSent, flashHeld    \* FlashDownload

Log == INSTANCE LogDownload WITH
  st <- logSt, dl <- logDl, sent <- logSent, held <- logHeld

Flash == INSTANCE FlashDownload WITH
  st <- flashSt, dl <- flashDl, sent <- flashSent, held <- flashHeld

logVars == <<rb, printed, logSt, logDl, logSent, logHeld>>
flashVars == <<off, flashSt, flashDl, flashSent, flashHeld>>
vars == <<logVars, flashVars>>

Init == Log!Init /\ Flash!Init

Next == \/ Log!Next /\ UNCHANGED flashVars
        \/ Flash!Next /\ UNCHANGED logVars

\* The web server calls the handler of every open connection again.
Fairness ==
  /\ WF_vars(Log!NextCall /\ UNCHANGED flashVars)
  /\ WF_vars(Flash!NextCall /\ UNCHANGED logVars)

Spec == Init /\ [][Next]_vars /\ Fairness

(***************************************************************************)
(* Properties.                                                             *)
(***************************************************************************)

\* The client gets the log that the buffer kept, oldest byte first, complete
\* and with the announced length, whatever the fill level, the position of
\* the write pointer and the chunk size (cgiDownloadLog).
LogIsTransferred == Log!Transferred

\* What cgiDownloadFlash sends of a range that lies in the flash: the bytes
\* from off to size, in order, once each, and it stops exactly there.
SendsUpToSize == Flash!SendsUpToSize

\* Every download that was started ends or is lost, also the one of the
\* flash with an offset behind the size, where a chunk's length is negative.
DownloadsEnd ==
  /\ logSt = "send" ~> logSt \in {"done", "gone"}
  /\ flashSt = "send" ~> flashSt \in {"done", "gone"}
=============================================================================
