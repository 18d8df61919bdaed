------------------------------- MODULE Transfer -------------------------------
(***************************************************************************)
(* What a download promises: the header announces some content; then the   *)
(* client gets it from the front, never something else, and the transfer   *)
(* completes exactly when all of it was sent. A transfer may be refused    *)
(* before anything is announced, and given up at any time.                 *)
(* LogDownload is shown to implement this specification.                   *)
(***************************************************************************)
EXTENDS Integers, Sequences

VARIABLES
  content,   \* what the header announced
  sent,      \* what the client got
  status     \* "new", "open", "complete" or "over" (refused or given up)

vars == <<content, sent, status>>

IsPrefixOf(s, t) == Len(s) <= Len(t) /\ s = SubSeq(t, 1, Len(s))

Init == content = << >> /\ sent = << >> /\ status = "new"

StatusOf(s, t) == IF s = t THEN "complete" ELSE "open"

\* The answer starts: content is announced and a first part of it sent.
Announce ==
  /\ status = "new"
  /\ IsPrefixOf(sent', content')
  /\ status' = StatusOf(sent', content')

\* More of the announced content is sent.
Send ==
  /\ status = "open"
  /\ content' = content
  /\ Len(sent') > Len(sent)
  /\ IsPrefixOf(sent, sent') /\ IsPrefixOf(sent', content)
  /\ status' = StatusOf(sent', content)

GiveUp ==
  /\ status \in {"new", "open"}
  /\ status' = "over"
  /\ UNCHANGED <<content, sent>>

Next == Announce \/ Send \/ GiveUp

Spec == Init /\ [][Next]_vars
===============================================================================
