------------------------------ MODULE FileServer ------------------------------
(***************************************************************************)
(* The chooser's files and everybody who works on them: the handlers of    *)
(* cgiappfs.c on several HTTP connections, the start-up clean-up of main.c *)
(* and the app menu of gui.c, over one appfs and one NVS, with power cuts. *)
(*                                                                         *)
(* The web server is one task: it runs one call of one handler at a time,  *)
(* and calls of different connections interleave freely. A call handles    *)
(* one part of a file: for an upload the bytes that finish a page, for a   *)
(* download one DOWNLOAD_CHUNK_SIZE, for the index one entry. CgiUpload    *)
(* has the byte-level view of an upload. As there, appfs may answer that   *)
(* the device failed when a file is created, erased, written or renamed.   *)
(***************************************************************************)
EXTENDS AppFs

CONSTANTS
  Conns,        \* HTTP connections
  Uploaders,    \* the connections that upload; those that
  Downloaders,  \* download,
  Listers,      \* ask for the index,
  Deleters,     \* delete files
  Names,        \* file names
  TempName,     \* UPLOAD_TEMP_NAME
  TempNames,    \* the names that match "__*.tmp"
  AppNames,     \* the names the app menu shows (app_select_filter_fn)
  Bodies,       \* what can be uploaded
  BodyLen,      \* the number of parts of each body
  Broken,       \* the content of flash that the device failed to erase or write
  MaxBlocks,    \* heap blocks there is memory for
  PowerCuts     \* may the power fail, or somebody reboot the device?

ASSUME RolesAssumption == Uploaders \cup Downloaders \cup Listers \cup Deleters \subseteq Conns
ASSUME ConnsAssumption == IsFiniteSet(Conns)
ASSUME NamesAssumption == TempName \in TempNames /\ TempNames \subseteq Names
                          /\ AppNames \subseteq Names \ TempNames
ASSUME BodyAssumption  == BodyLen \in [Bodies -> Nat \ {0}]
ASSUME HeapAssumption  == MaxBlocks \in Nat
ASSUME PowerAssumption == PowerCuts \in BOOLEAN

VARIABLES
  fs,        \* the appfs
  nvs,       \* names of the files whose app has stored something in NVS
  power,     \* "boot": delete_temp_files runs; "on"; "app": an app runs
  bootPos,   \* delete_temp_files' handle h
  conn,      \* per connection: the request and its cgiData
  blocks,    \* heap blocks held by the handlers
  lost,      \* heap blocks no connection will free
  gui,       \* handle picked in the app menu, INVALID if none is
  running,   \* the file that was booted, Nothing if none was
  kept,      \* history: namespaces of deleted files that NVS did not open
  present,   \* history: files that exist since a connection's listing began
  intact     \* history: the file a connection downloads is still the same

vars == <<fs, nvs, power, bootPos, conn, blocks, lost, gui, running, kept, present, intact>>

Nothing == [name |-> TempName, data |-> << >>]

\* The parts of a body, told apart by body and position.
Body(b) == [i \in 1..BodyLen[b] |-> <<b, i>>]

\* A connection without a request.
Idle == [op |-> "idle", st |-> "START", fd |-> INVALID, name |-> TempName, body |-> << >>,
         size |-> 0, pos |-> 0, sent |-> << >>, reply |-> "none"]

Init ==
  /\ fs = NoFiles
  /\ nvs = {}
  /\ power = "boot" /\ bootPos = INVALID
  /\ conn = [c \in Conns |-> Idle]
  /\ blocks = 0 /\ lost = 0
  /\ gui = INVALID /\ running = Nothing
  /\ kept = {}
  /\ present = [c \in Conns |-> {}]
  /\ intact = [c \in Conns |-> FALSE]

\* What the web server keeps of a request that is over, until it closes the
\* connection.
Ended(k, reply) == [k EXCEPT !.st = "ENDED", !.reply = reply]

system == <<power, bootPos, gui, running>>

\* The first call of an upload or a download finds no memory for its state:
\* the request ends without an answer.
NoMemory(c, op) ==
  /\ power = "on" /\ conn[c] = Idle
  /\ blocks = MaxBlocks
  /\ conn' = [conn EXCEPT ![c] = Ended([Idle EXCEPT !.op = op], "none")]
  /\ UNCHANGED <<fs, nvs, kept, blocks, lost, system>>

(***************************************************************************)
(* cgiUploadFile                                                           *)
(***************************************************************************)

\* The call with the first bytes creates the temporary file. If that fails, for
\* lack of room or by the device, an earlier one may be gone or not.
UploadStart(c, n, b) ==
  /\ power = "on" /\ conn[c] = Idle
  /\ blocks < MaxBlocks
  /\ blocks' = blocks + 1
  /\ LET k == [Idle EXCEPT !.op = "upload", !.name = n, !.body = Body(b), !.size = BodyLen[b]]
     IN  \/ /\ HasRoom(fs, TempName, BodyLen[b])
            /\ fs' = CreateFile(fs, TempName, BodyLen[b])
            /\ conn' = [conn EXCEPT ![c] =
                          [k EXCEPT !.st = "WRITE", !.fd = CreatedHandle(fs, TempName)]]
         \/ /\ fs' \in {fs, DeleteFile(fs, TempName)}
            /\ conn' = [conn EXCEPT ![c] = [k EXCEPT !.st = "ERROR"]]
  /\ UNCHANGED <<nvs, kept, lost, system>>

\* Wrong variant: the page before the last is taken for the last.
LastPartEarly(k) == k.pos + 1 >= k.size - 1

\* No byte of the body is left after this page.
LastPart(k) == k.pos + 1 = k.size

\* The files after the erase and the write of the next page, which work on
\* whatever file has the handle; ok: the device did both.
Flashed(k, ok) ==
  LET i == k.pos + 1
  IN  IF InFile(fs, k.fd, i)
      THEN WritePart(fs, k.fd, i, IF ok THEN k.body[i] ELSE Broken) ELSE fs

\* The call that finishes the next page. After the last page whatever file has
\* the temporary name is renamed, also if the erase or the write of this page
\* failed: the result of appfsRename replaces the state they left.
UploadPart(c) ==
  /\ power = "on" /\ conn[c].op = "upload" /\ conn[c].st = "WRITE"
  /\ LET k    == conn[c]
         i    == k.pos + 1
         last == LastPart(k)
     IN  \E flashOk, renamed \in BOOLEAN :
           /\ flashOk => InFile(fs, k.fd, i)
           /\ renamed => last /\ Exists(fs, TempName)
           /\ fs' = IF renamed THEN Rename(Flashed(k, flashOk), TempName, k.name)
                    ELSE Flashed(k, flashOk)
           /\ conn' = [conn EXCEPT ![c] =
                IF last
                THEN Ended([k EXCEPT !.pos = i], IF renamed THEN "done" ELSE "error")
                ELSE [k EXCEPT !.pos = i, !.st = IF flashOk THEN "WRITE" ELSE "ERROR"]]
           /\ blocks' = IF last THEN blocks - 1 ELSE blocks
  /\ UNCHANGED <<nvs, kept, lost, system>>

\* After an error the rest of the body is eaten up.
UploadEat(c) ==
  /\ power = "on" /\ conn[c].op = "upload" /\ conn[c].st = "ERROR"
  /\ LET k == [conn[c] EXCEPT !.pos = @ + 1]
         last == k.pos = k.size
     IN  /\ conn' = [conn EXCEPT ![c] = IF last THEN Ended(k, "error") ELSE k]
         /\ blocks' = IF last THEN blocks - 1 ELSE blocks
  /\ UNCHANGED <<fs, nvs, kept, lost, system>>

(***************************************************************************)
(* cgiDownloadFile                                                         *)
(***************************************************************************)

\* Wrong variant: always the first part.
SendPartFirst(c, k, held) ==
  LET i    == k.pos + 1
      sent == [k EXCEPT !.pos = i, !.sent = Append(@, ReadPart(fs, k.fd, 1))]
      last == i = k.size
  IN  /\ conn' = [conn EXCEPT ![c] = IF last THEN Ended(sent, "done") ELSE sent]
      /\ blocks' = IF last THEN held - 1 ELSE held

\* The end of every call: read and send one part; free the state and stop
\* at the size the file had when the download began.
SendPart(c, k, held) ==
  LET i    == k.pos + 1
      sent == [k EXCEPT !.pos = i, !.sent = Append(@, ReadPart(fs, k.fd, i))]
      last == i = k.size
  IN  /\ conn' = [conn EXCEPT ![c] = IF last THEN Ended(sent, "done") ELSE sent]
      /\ blocks' = IF last THEN held - 1 ELSE held

\* The first call looks the handle up, answers with the size and sends the
\* first part. Without a valid handle it answers 404 and keeps the block.
DownloadStart(c, h) ==
  /\ power = "on" /\ conn[c] = Idle
  /\ blocks < MaxBlocks
  /\ LET k == [Idle EXCEPT !.op = "download", !.st = "SEND", !.fd = h]
     IN  IF FdValid(fs, h)
         THEN /\ SendPart(c, [k EXCEPT !.size = Len(fs[h].data)], blocks + 1)
              /\ UNCHANGED lost
         ELSE /\ conn' = [conn EXCEPT ![c] = Ended(k, "404")]
              /\ blocks' = blocks + 1
              /\ lost' = lost + 1
  /\ UNCHANGED <<fs, nvs, kept, system>>

DownloadPart(c) ==
  /\ power = "on" /\ conn[c].op = "download" /\ conn[c].st = "SEND"
  /\ SendPart(c, conn[c], blocks)
  /\ UNCHANGED <<fs, nvs, kept, lost, system>>

(***************************************************************************)
(* cgiFileIdx: the connection remembers only the last handle it listed.    *)
(***************************************************************************)

\* Wrong variants: the entry after the next one; from the start again at the
\* end.
ListEntrySkips(c, k) ==
  LET h == NextEntry(fs, k.fd + 1)
  IN  conn' = [conn EXCEPT ![c] =
                IF h = INVALID THEN Ended(k, "done")
                ELSE [k EXCEPT !.fd = h, !.sent = Append(@, h)]]
ListEntryRestarts(c, k) ==
  LET h == NextEntry(fs, k.fd)
  IN  conn' = [conn EXCEPT ![c] =
                [k EXCEPT !.fd = h, !.sent = IF h = INVALID THEN << >> ELSE Append(@, h)]]

ListEntry(c, k) ==
  LET h == NextEntry(fs, k.fd)
  IN  conn' = [conn EXCEPT ![c] =
                IF h = INVALID THEN Ended(k, "done")
                ELSE [k EXCEPT !.fd = h, !.sent = Append(@, h)]]

ListStart(c) ==
  /\ power = "on" /\ conn[c] = Idle
  /\ ListEntry(c, [Idle EXCEPT !.op = "fileidx", !.st = "SEND"])
  /\ UNCHANGED <<fs, nvs, kept, blocks, lost, system>>

ListNext(c) ==
  /\ power = "on" /\ conn[c].op = "fileidx" /\ conn[c].st = "SEND"
  /\ ListEntry(c, conn[c])
  /\ UNCHANGED <<fs, nvs, kept, blocks, lost, system>>

(***************************************************************************)
(* cgiDelete: one call. INVALID stands for a request without idx.          *)
(***************************************************************************)

\* The names that cgiDelete may work on (none, or one). If no file has the
\* handle, appfsEntryInfo leaves the name uninitialised: whatever it points
\* to may be a file's name or no name. (A crash is a PowerCut.)
Doomed(h) ==
  IF h = INVALID THEN {{}}
  ELSE IF FdValid(fs, h) THEN {{fs[h].name}}
  ELSE {{}} \cup {{n} : n \in Names}

\* Wrong variant: the settings are not erased.
NvsWithoutLeft(gone) == nvs

NvsWithout(gone) == nvs \ gone

FilesWithout(gone) == [x \in {y \in DOMAIN fs : fs[y].name \notin gone} |-> fs[x]]

\* The settings go first, if nvs_open finds them; the file goes anyway.
Delete(c, h) ==
  /\ power = "on" /\ conn[c] = Idle
  /\ \E gone \in Doomed(h), opened \in BOOLEAN :
       /\ nvs' = IF opened THEN NvsWithout(gone) ELSE nvs
       /\ kept' = IF opened THEN kept \ gone ELSE kept \cup (gone \cap nvs)
       /\ fs' = FilesWithout(gone)
  /\ conn' = [conn EXCEPT ![c] = Ended([Idle EXCEPT !.op = "delete", !.fd = h], "done")]
  /\ UNCHANGED <<blocks, lost, system>>

(***************************************************************************)
(* The web server: closing and losing connections.                         *)
(***************************************************************************)

Close(c) ==
  /\ power = "on" /\ conn[c].st = "ENDED"
  /\ conn' = [conn EXCEPT ![c] = Idle]
  /\ UNCHANGED <<fs, nvs, kept, blocks, lost, system>>

\* Wrong variant: the state of a download is not freed.
AbortKeepsDownload(c) ==
  /\ power = "on" /\ conn[c].op # "idle" /\ conn[c].st # "ENDED"
  /\ conn' = [conn EXCEPT ![c] = Idle]
  /\ blocks' = IF conn[c].op = "upload" THEN blocks - 1 ELSE blocks
  /\ UNCHANGED <<fs, nvs, kept, lost, system>>

\* The handler is called once more, with conn==NULL, to free its state.
Abort(c) ==
  /\ power = "on" /\ conn[c].op # "idle" /\ conn[c].st # "ENDED"
  /\ conn' = [conn EXCEPT ![c] = Idle]
  /\ blocks' = IF conn[c].op \in {"upload", "download"} THEN blocks - 1 ELSE blocks
  /\ UNCHANGED <<fs, nvs, kept, lost, system>>

(***************************************************************************)
(* guiMenu: an app is picked, and booted once the button is released.      *)
(***************************************************************************)

\* kcugui_filechooser_filter returns the handle of a file that it showed.
PickApp(h) ==
  /\ power = "on" /\ gui = INVALID
  /\ FdValid(fs, h) /\ fs[h].name \in AppNames
  /\ gui' = h
  /\ UNCHANGED <<fs, nvs, kept, power, bootPos, conn, blocks, lost, running>>

\* Everything in RAM is gone.
Restart ==
  /\ conn' = [c \in Conns |-> Idle]
  /\ blocks' = 0 /\ lost' = 0
  /\ gui' = INVALID
  /\ bootPos' = INVALID

\* kchal_set_new_app and kchal_boot_into_new_app: the bootloader starts the
\* file that has the handle, or the chooser again if none has.
LaunchApp ==
  /\ power = "on" /\ gui # INVALID
  /\ Restart
  /\ IF FdValid(fs, gui)
     THEN /\ power' = "app"
          /\ running' = [name |-> fs[gui].name, data |-> fs[gui].data]
     ELSE /\ power' = "boot"
          /\ running' = Nothing
  /\ UNCHANGED <<fs, nvs, kept>>

\* A running app may store settings in the namespace with its name.
AppStores ==
  /\ power = "app" /\ running.name \in AppNames
  /\ nvs' = nvs \cup {running.name}
  /\ UNCHANGED <<fs, kept, conn, blocks, lost, system>>

AppExits ==
  /\ power = "app"
  /\ Restart
  /\ power' = "boot" /\ running' = Nothing
  /\ UNCHANGED <<fs, nvs, kept>>

(***************************************************************************)
(* Power.                                                                  *)
(***************************************************************************)

\* Wrong variant: only this version's own temporary file is removed.
IsTempOwn(name) == name = TempName

\* fnmatch("__*.tmp", name, 0) == 0
IsTemp(name) == name \in TempNames

\* One round of the loop in delete_temp_files; after the last file the web
\* server and the menu start.
BootClean ==
  /\ power = "boot"
  /\ LET h == NextEntry(fs, bootPos)
     IN  IF h = INVALID
         THEN /\ power' = "on" /\ bootPos' = INVALID /\ UNCHANGED fs
         ELSE /\ bootPos' = h
              /\ fs' = IF IsTemp(fs[h].name) THEN DeleteFile(fs, fs[h].name) ELSE fs
              /\ UNCHANGED power
  /\ UNCHANGED <<nvs, kept, conn, blocks, lost, gui, running>>

\* The power fails, somebody restarts the device, or it crashes.
PowerCut ==
  /\ PowerCuts
  /\ Restart
  /\ power' = "boot" /\ running' = Nothing
  /\ UNCHANGED <<fs, nvs, kept>>

\* The power fails while cgiDelete runs, between its two halves.
PowerCutInDelete(c, h) ==
  /\ PowerCuts /\ power = "on" /\ conn[c] = Idle /\ FdValid(fs, h)
  /\ \E gone \in Doomed(h) : nvs' = NvsWithout(gone) /\ kept' = kept \ gone
  /\ Restart
  /\ power' = "boot" /\ running' = Nothing
  /\ UNCHANGED fs

(***************************************************************************)
(* The whole system.                                                       *)
(***************************************************************************)

\* The history variables follow every step.
History ==
  /\ present' = [c \in Conns |->
       IF conn'[c].op # "fileidx" THEN {}
       ELSE IF conn[c].op # "fileidx" THEN DOMAIN fs
       ELSE IF conn[c].st = "ENDED" THEN present[c]
       ELSE present[c] \cap DOMAIN fs']
  /\ intact' = [c \in Conns |->
       /\ conn'[c].op = "download" /\ conn'[c].reply # "404"
       /\ \/ conn[c].op # "download"
          \/ LET h == conn[c].fd
             IN  intact[c] /\ FdValid(fs', h) /\ fs'[h].data = fs[h].data]

\* The handlers' own steps, by connection: what the scheduler owes them.
Handler(c) == UploadPart(c) \/ UploadEat(c) \/ DownloadPart(c) \/ ListNext(c)

Request(c) ==
  \/ c \in Uploaders   /\ \E n \in Names \ {TempName}, b \in Bodies : UploadStart(c, n, b)
  \/ c \in Downloaders /\ \E h \in Slots \cup {INVALID} : DownloadStart(c, h)
  \/ c \in Uploaders   /\ NoMemory(c, "upload")
  \/ c \in Downloaders /\ NoMemory(c, "download")
  \/ c \in Listers     /\ ListStart(c)
  \/ c \in Deleters    /\ \E h \in Slots \cup {INVALID} : Delete(c, h)

WebServer == \E c \in Conns : Request(c) \/ Handler(c) \/ Close(c) \/ Abort(c)

Menu == (\E h \in Slots : PickApp(h)) \/ LaunchApp \/ AppStores \/ AppExits

Power == BootClean \/ PowerCut \/ \E c \in Deleters, h \in Slots : PowerCutInDelete(c, h)

Next == (WebServer \/ Menu \/ Power) /\ History

\* The web server serves every open connection until it ends or is lost, and
\* start-up runs to its end.
Fairness ==
  /\ \A c \in Conns : WF_vars(Handler(c) /\ History)
  /\ WF_vars(BootClean /\ History)

Spec == Init /\ [][Next]_vars
FairSpec == Spec /\ Fairness

(***************************************************************************)
(* Properties.                                                             *)
(***************************************************************************)

\* Type correctness of the files, the NVS, the connections and the menu.
TypeOK ==
  /\ \A h \in DOMAIN fs : /\ h \in fs[h].slots /\ fs[h].slots \subseteq Slots
                          /\ fs[h].name \in Names
                          /\ Len(fs[h].data) = Cardinality(fs[h].slots)
  /\ nvs \subseteq Names /\ kept \subseteq Names
  /\ power \in {"boot", "on", "app"}
  /\ bootPos \in Slots \cup {INVALID} /\ gui \in Slots \cup {INVALID}
  /\ \A c \in Conns :
       /\ conn[c].op \in {"idle", "upload", "download", "fileidx", "delete"}
       /\ conn[c].st \in {"START", "WRITE", "SEND", "ERROR", "ENDED"}
       /\ conn[c].fd \in Slots \cup {INVALID} /\ conn[c].name \in Names
       /\ conn[c].pos \in 0..conn[c].size
       /\ conn[c].reply \in {"none", "done", "error", "404"}
  /\ blocks \in 0..MaxBlocks /\ lost \in 0..MaxBlocks
  /\ running.name \in Names
  /\ present \in [Conns -> SUBSET Slots] /\ intact \in [Conns -> BOOLEAN]

\* An uploaded body, up to a last part that the device failed to store.
Complete(data) ==
  \E b \in Bodies :
    /\ Len(data) = BodyLen[b]
    /\ \A i \in 1..BodyLen[b] : \/ data[i] = <<b, i>>
                                \/ i = BodyLen[b] /\ data[i] = Broken

\* As long as only one client uploads, every file that has its real name is
\* what somebody uploaded, whatever other clients list, download or delete
\* meanwhile (the temporary file too), whatever appfs fails and wherever the
\* power fails. There is one exception: cgiUploadFile renames the file also if
\* the erase or the write of its last page failed (CgiUpload's
\* RenamedOnlyIfWritten), so this page may be what the device left. No other
\* page is wrong, missing or another upload's.
PublishedComplete ==
  \A h \in DOMAIN fs : fs[h].name # TempName => Complete(fs[h].data)

\* Settings outlive their app only if nvs_open failed when it was deleted:
\* every other namespace belongs to a file, wherever the power fails inside
\* cgiDelete, whatever name it works on and whatever replaced the file.
NvsHasFile ==
  \A n \in nvs \ kept : Exists(fs, n)

\* When the web server and the menu start, no file of a broken upload is
\* left, also if the power failed during an earlier clean-up. appfs is taken to
\* delete what it is asked to: delete_temp_files ignores the result.
CleanAfterBoot ==
  [][power = "boot" /\ power' = "on" =>
       \A h \in DOMAIN fs' : fs'[h].name \notin TempNames]_vars

\* A complete index lists by increasing handle, so none twice, and misses no
\* file that existed all the time, whatever was created or deleted meanwhile.
IndexComplete ==
  \A c \in Conns : LET k == conn[c] IN
    k.op = "fileidx" =>
      /\ \A i, j \in DOMAIN k.sent : i < j => k.sent[i] < k.sent[j]
      /\ k.reply = "done" => \A h \in present[c] : \E i \in DOMAIN k.sent : k.sent[i] = h

\* A finished download sent as many bytes as its header announced, and if
\* nobody touched the file while it ran, the bytes of the file.
DownloadFaithful ==
  \A c \in Conns : LET k == conn[c] IN
    k.op = "download" /\ k.reply = "done" =>
      /\ Len(k.sent) = k.size
      /\ intact[c] => k.sent = fs[k.fd].data

\* The handlers lose heap only where they answer 404: every other block
\* belongs to a connection that is still being served.
BlocksAccounted ==
  blocks = lost + Cardinality({c \in Conns : conn[c].op \in {"upload", "download"}
                                             /\ conn[c].st # "ENDED"})

\* A request that is being served ends, also when files come and go under it.
RequestsEnd ==
  \A c \in Conns : (conn[c].st \in {"WRITE", "ERROR", "SEND"})
                     ~> (conn[c].st \in {"ENDED", "START"})
===============================================================================
