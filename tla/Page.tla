--------------------------------- MODULE Page ---------------------------------
(***************************************************************************)
(* The file manager page (html/main.js) in a browser, with the device's    *)
(* files behind it. The page has a single XMLHttpRequest; opening it again *)
(* ends whatever it was doing. The handlers of cgiappfs.c appear here as   *)
(* what they do to the files in all (FileServer has their steps); the      *)
(* listing goes through json_esc and JSON.parse. The connection of a       *)
(* request that the browser has given up is an orphan: the device may      *)
(* still complete the upload.                                              *)
(***************************************************************************)
EXTENDS AppFs, JsonEsc

CONSTANTS
  Names,     \* names of uploaded files, sequences of characters
  Temp,      \* TMPNAME
  NameSize,  \* the size of name_esc in cgiFileIdx
  MaxClicks  \* bound: clicks of the user

ASSUME NameSizeAssumption == NameSize \in Nat /\ NameSize >= 3

VARIABLES
  fs,      \* the files
  xhr,     \* the request: [kind, name, stage], stage "sent", "begun", "ok" or "error"
  reply,   \* the text of the answer to a listing
  table,   \* the rows of the table
  button,  \* the text of the button
  orphan,  \* an upload that the browser has given up and the device not yet
  stale,   \* history: a change of the files that no later listing shows, or
           \* an answer that did not reach the page
  clicks

pageVars == <<fs, xhr, reply, table, button, orphan, stale, clicks>>

NoRequest == [kind |-> "none", name |-> Temp, stage |-> "sent"]
ListRequest == [NoRequest EXCEPT !.kind = "list"]

Idle == xhr.kind = "none"
Waiting(kind, stage) == xhr.kind = kind /\ xhr.stage = stage

\* window.onload, which calls triggerReload.
Loaded == xhr' = ListRequest /\ table' = {} /\ button' = "Upload!"

PageInit ==
  /\ fs = NoFiles
  /\ xhr = ListRequest /\ table = {} /\ button = "Upload!"
  /\ reply = {} /\ orphan = NoRequest /\ stale = FALSE /\ clicks = 0

TriggerReload == xhr' = ListRequest /\ button' = "Upload!"

\* The browser gives up the running request, if there is one. The device goes on
\* with an upload unless it notices.
GiveUp ==
  /\ stale' = (stale \/ ~Idle)
  /\ IF xhr.kind = "upload" /\ xhr.stage \in {"sent", "begun"}
     THEN orphan' \in {xhr, NoRequest}
     ELSE UNCHANGED orphan

Click == clicks < MaxClicks /\ clicks' = clicks + 1

\* doUpgrade, with a file chosen.
DoUpgrade(n) ==
  /\ Click
  /\ GiveUp
  /\ xhr' = [kind |-> "upload", name |-> n, stage |-> "sent"]
  /\ UNCHANGED <<fs, reply, table, button>>

\* xhr.upload.onprogress
OnProgress ==
  /\ xhr.kind = "upload" /\ xhr.stage \in {"sent", "begun"}
  /\ button' = "Uploading"
  /\ UNCHANGED <<fs, xhr, reply, table, orphan, stale, clicks>>

\* cgiUploadFile: the temporary file is created, or there is no room for it.
BeginUpload ==
  /\ Waiting("upload", "sent")
  /\ IF HasRoom(fs, Temp, 1)
     THEN fs' = CreateFile(fs, Temp, 1) /\ xhr' = [xhr EXCEPT !.stage = "begun"]
     ELSE fs' = DeleteFile(fs, Temp) /\ xhr' = [xhr EXCEPT !.stage = "error"]
  /\ UNCHANGED <<reply, table, button, orphan, stale, clicks>>

\* cgiUploadFile: the body is complete and the file renamed, or something fails.
EndUpload ==
  /\ Waiting("upload", "begun")
  /\ \/ /\ Exists(fs, Temp)
        /\ fs' = Rename(fs, Temp, xhr.name) /\ xhr' = [xhr EXCEPT !.stage = "ok"]
     \/ fs' = fs /\ xhr' = [xhr EXCEPT !.stage = "error"]
  /\ UNCHANGED <<reply, table, button, orphan, stale, clicks>>

\* The device completes an upload that the browser has given up, or drops it.
OrphanEnds ==
  /\ orphan # NoRequest /\ orphan' = NoRequest
  /\ fs' \in {fs} \cup (IF orphan.stage = "begun" /\ Exists(fs, Temp)
                        THEN {Rename(fs, Temp, orphan.name)} ELSE {})
  /\ stale' = (stale \/ fs' # fs)
  /\ UNCHANGED <<xhr, reply, table, button, clicks>>

\* cgiFileIdx
FileIdx ==
  /\ Waiting("list", "sent")
  /\ reply' = {[index |-> h, name |-> JsonEsc(fs[h].name, NameSize)] : h \in DOMAIN fs}
  /\ xhr' = [xhr EXCEPT !.stage = "ok"]
  /\ stale' = FALSE
  /\ UNCHANGED <<fs, table, button, orphan, clicks>>

\* Wrong variant: the list is not loaded again after an upload.
OnUploadReadyNoReload ==
  /\ xhr.kind = "upload" /\ xhr.stage \in {"ok", "error"}
  /\ xhr' = NoRequest
  /\ stale' = (stale \/ xhr.stage = "error")
  /\ button' = IF xhr.stage = "error" THEN "Error!" ELSE "Upload!"
  /\ UNCHANGED <<fs, reply, table, orphan, clicks>>

\* onreadystatechange of an upload
OnUploadReady ==
  /\ xhr.kind = "upload"
  /\ \/ xhr.stage = "ok" /\ TriggerReload /\ UNCHANGED stale
     \/ xhr.stage = "error" /\ xhr' = NoRequest /\ button' = "Error!" /\ stale' = TRUE
  /\ UNCHANGED <<fs, reply, table, orphan, clicks>>

\* onreadystatechange of a listing. An answer that is not JSON raises an exception,
\* and the table stays as it is.
OnListReady ==
  /\ Waiting("list", "ok")
  /\ xhr' = NoRequest
  /\ table' = IF \E r \in reply : JsonParse(r.name) = ParseError THEN table
              ELSE {[r EXCEPT !.name = JsonParse(@)] : r \in reply}
  /\ UNCHANGED <<fs, reply, button, orphan, stale, clicks>>

\* The request fails in the network, or the device answers with an error status
\* that no handler looks at: nothing happens in the page.
RequestFails ==
  /\ ~Idle
  /\ GiveUp
  /\ xhr' = NoRequest
  /\ UNCHANGED <<fs, reply, table, button, clicks>>

\* A click on a cross: delete.cgi deletes the file that has the handle now (with
\* no such file, the name in cgiDelete is uninitialised), and its redirect loads
\* the page anew.
ClickDelete(row) ==
  /\ Click
  /\ GiveUp
  /\ IF FdValid(fs, row.index) THEN fs' = DeleteFile(fs, fs[row.index].name)
     ELSE fs' \in {fs} \cup {DeleteFile(fs, fs[h].name) : h \in DOMAIN fs}
  /\ Loaded
  /\ UNCHANGED reply

\* The user loads the page again.
Reload ==
  /\ Click
  /\ GiveUp
  /\ Loaded
  /\ UNCHANGED <<fs, reply>>

Device == BeginUpload \/ EndUpload \/ OrphanEnds \/ FileIdx
Browser == OnUploadReady \/ OnListReady

PageNext ==
  \/ \E n \in Names : DoUpgrade(n)
  \/ \E row \in table : ClickDelete(row)
  \/ Reload \/ RequestFails \/ OnProgress \/ Device \/ Browser

\* The device serves requests, the browser calls handlers.
PageSpec == PageInit /\ [][PageNext]_pageVars /\ WF_pageVars(Device) /\ WF_pageVars(Browser)

-------------------------------------------------------------------------------
\* The bytes of a name with its escapes.
EscapedLen(n) == Len(n) + Cardinality({i \in 1..Len(n) : n[i] = "special"})

\* What the table may show for a file: its name, or the beginning of a name that
\* with its escapes leaves less than three bytes of the buffer.
Shows(shown, n) ==
  /\ \E k \in 0..Len(n) : shown = SubSeq(n, 1, k)
  /\ shown = n \/ EscapedLen(n) + 3 > NameSize

\* When the page has nothing more to do, its table shows exactly the files of the
\* device, each with its name and handle, so that a click on a cross deletes the
\* file it stands beside (triggerReload after doUpgrade, json_esc): unless the page
\* did not get an answer, got an error, or the device changed files for a
\* connection that the browser had given up. No name overruns the buffer.
TableTrue ==
  /\ Idle /\ ~stale =>
       /\ {r.index : r \in table} = DOMAIN fs
       /\ \A r \in table : Shows(r.name, fs[r.index].name)
       /\ Cardinality(table) = Cardinality(DOMAIN fs)
  /\ \A r \in reply : Len(r.name) < NameSize

\* An upload ends in a list with the file, in an error shown on the button, or its
\* answer does not arrive: the one XMLHttpRequest is never left without a handler
\* for what it does.
UploadSettles ==
  \A n \in Names :
    xhr.kind = "upload" /\ xhr.name = n ~>
      \/ Idle /\ \E r \in table : Shows(r.name, n)
      \/ Idle /\ button = "Error!"
      \/ stale
===============================================================================
