----------------------------- MODULE AtomicUpload -----------------------------
(***************************************************************************)
(* What an upload promises the person who starts it: the complete body     *)
(* becomes visible under its name in one step, or nothing does, and a      *)
(* success is reported exactly for an upload that became visible. Only a   *)
(* device that failed may have damaged what becomes visible.               *)
(* CgiUpload is shown to implement this specification.                     *)
(***************************************************************************)

VARIABLES
  body,      \* what the client is uploading; fixed for the whole request
  visible,   \* the versions published under the name: none or one
  failed,    \* the device has failed during this request
  outcome    \* "pending", "ok", "refused" or "dropped" (no answer was sent)

vars == <<body, visible, failed, outcome>>

Init ==
  /\ visible = {}
  /\ failed = FALSE
  /\ outcome = "pending"

DeviceFails ==
  /\ failed' = TRUE
  /\ UNCHANGED <<body, visible, outcome>>

\* The whole body appears at once.
Publish ==
  /\ outcome = "pending"
  /\ visible = {} /\ visible' # {}
  /\ ~failed' => visible' = {body}
  /\ failed => failed'
  /\ UNCHANGED <<body, outcome>>

\* Success is reported once the body is visible.
Confirm ==
  /\ outcome = "pending"
  /\ visible # {}
  /\ outcome' = "ok"
  /\ UNCHANGED <<body, visible, failed>>

\* The request is refused, or the connection goes away, and nothing changed.
GiveUp ==
  /\ outcome = "pending"
  /\ visible = {}
  /\ outcome' \in {"refused", "dropped"}
  /\ UNCHANGED <<body, visible, failed>>

Next == DeviceFails \/ Publish \/ Confirm \/ GiveUp

Spec == Init /\ [][Next]_vars
===============================================================================
