# Verification of the 8bkc-chooser

The chooser is the first program a PocketSprite starts. It offers the apps on
the device's flash, starts one of them, and runs a WiFi access point with a web
server through which files are uploaded, downloaded, listed and deleted. This
directory holds TLA+ models of the chooser's own code (`main/*.c`), of its web
page (`html/main.js`) and of the parts of the vendored network stack that its
web server stands on (DHCP, TCP, sockets), the TLC configurations that check
them, and TLAPS proofs about nine of them.

Line numbers below refer to the files under `main/` unless they say otherwise;
files of the network stack are under `components/lwip/`.

## 1. The system

| Component | Code | State it keeps | Operations |
|---|---|---|---|
| Upload handler | `cgiappfs.c` 66-186 | `UploadState` per request (state, page buffer, address, bytes left), the temporary file | called by the web server for every chunk of a POST and once for a lost connection |
| Download handler | `cgiappfs.c` 188-271 | `DownloadState` per request (handle, size, position) | one call per 1 KiB |
| File index | `cgiappfs.c` 295-335 | the last listed handle, in `cgiData` | one call per file |
| Delete | `cgiappfs.c` 337-369 | none | one call: settings of the app, then the file |
| Developer downloads | `cgidev.c` | `DownloadFlashState`, `DownloadLogState` per request; the log ring in RTC memory | one call per 1 KiB |
| Start-up | `main.c` 96-308 | the RTC store register, appfs and NVS partitions, counters of the polling loops | recovery menu, charging screen, key lock, clean-up, network start |
| Menus and settings | `gui.c` | NVS namespace `8bkc` (kl, wifi, channel), volume, brightness, the text of the options menu | splash, app menu, options, debug screen |
| App launcher | `gui.c` 278-286 | the picked handle | pick, wait for the button, boot |
| Web page | `html/main.js` | one XMLHttpRequest for everything, the table of files, the button | upload, reload of the list, links that delete |
| DHCP server | `apps/dhcpserver.c` | the sorted list of leases, the next address to try | a message, a tick |
| DHCP client | `core/ipv4/dhcp.c` | `struct dhcp` (state, tries, lease, timers), the interface's address | start, stop, a message, two timers |
| TCP | `core/tcp_in.c`, `tcp.c`, `tcp_out.c` | `struct tcp_pcb` per connection | a segment, two timers, connect, write, recved, shutdown, close |
| Sockets and netconns | `api/sockets.c`, `api_lib.c`, `api_msg.c` | the sockets with their event counters, the list of waiting selects, mailboxes, one semaphore per task | select, accept, recv, close; callbacks from the tcpip task |

External, and not part of the repository's tree: libesphttpd (an empty
submodule), appfs, the HAL, the GUI toolkit and the bootloader (8bkc-sdk), NVS,
WiFi and flash drivers (esp-idf). `components/lwip` and
`components/tcpip_adapter` are vendored copies of esp-idf code. The access point
runs the DHCP server; the client is what a station runs that is a device of the
same kind, and it is the peer that the server's model needs.

How the parts interact:

- The web server is one task. It runs one call of one handler to its end, then
  maybe a call for another connection (four are configured). Everything a
  handler needs later is in its `cgiData` block; everything it shares with
  others is in appfs and NVS.
- The menus run in the main task, at the same time as the web server. They meet
  it in appfs: the menu picks a file that the web server may delete or replace.
- The page in the browser talks to the handlers through one request at a time
  and keeps the handles it was told.
- Below the web server, the tcpip task handles segments and timers and posts
  data into mailboxes; the tasks that use sockets take it out, and learn of it
  through counters, a list of waiting selects and semaphores.
- Start-up runs before all of these and may end in a restart or a power-down. The RTC
  register, appfs and NVS are what one run of the program tells the next one.

What is hard here: the cutting of a body into chunks against pages, erase
blocks and the end of the file; errors of one step that a later step overwrites;
requests of several connections on one set of files and one temporary name;
handles that outlive the file they named; power cuts between any two steps;
memory that has to be given back on every path; registers and settings read
at a time when somebody else may have changed them; a page that shows handles
which are no longer what they were; messages and segments that are lost, late,
repeated or out of order while timers run; and wake-ups between a task that is
about to wait and the one that should wake it. `PROJECT.json` lists these
hazards line by line with the properties that cover them.

## 2. The modules

| Module | Models | Notes |
|---|---|---|
| `AtomicUpload` | what an upload promises | abstract specification |
| `CgiUpload` | `cgiUploadFile`, one request, byte by byte | implements `AtomicUpload` |
| `CgiUploadProofs` | | proofs about `CgiUpload` |
| `AppFs` | appfs as the chooser uses it (external) | operators on a file table |
| `FileServer` | all handlers of `cgiappfs.c` on several connections, `delete_temp_files`, `guiMenu`'s launch, running apps, power cuts | composes the users of appfs and NVS |
| `FileServerProofs` | | proofs about `FileServer`, with lemmas about `AppFs` |
| `JsonEsc` | `json_esc` and what a browser makes of its output | operators |
| `Page` | `html/main.js` with the upload, index and delete handlers as it meets them | uses `AppFs`, `JsonEsc` |
| `Transfer` | what a download promises | abstract specification |
| `LogDownload` | `cgiDownloadLog` | implements `Transfer` |
| `FlashDownload` | `cgiDownloadFlash` | |
| `DevDownloads` | both, on two connections of the one web server task | composes the two |
| `BrowserProofs` | | proofs about `DevDownloads` and its two parts, and about `Page`, with lemmas about `JsonEsc` |
| `Startup` | `do_recovery_mode`, `handleCharging`, `handleKeyLock`, the branches of `app_main` | |
| `StartupProofs` | | proofs about `Startup` |
| `Settings` | network start, `guiSplash`, `fccallback`, `option_menu_cb`, `show_options`, `debug_screen` | |
| `SettingsProofs` | | proofs about `Settings` |
| `DhcpServer` | `dhcpserver.c`: list, `parse_msg`, `dhcps_coarse_tmr` | operators on the server's state |
| `DhcpClient` | `dhcp.c` from `dhcp_start` to `dhcp_stop` | operators on a client's state |
| `Dhcp` | the server, stations that run the client, others that send anything, and the network between | composes the two |
| `DhcpProofs` | | proofs about `Dhcp` and its two parts |
| `TcpIn` | the receiving half of a pcb: `tcp_receive`'s text, windows, `tcp_recved` | operators on a pcb |
| `TcpReass` | `TcpIn` with a mailbox, a reading task, refused data and a peer that sends any segment | |
| `TcpReassProofs` | | proofs about `TcpReass` and `TcpIn` |
| `TcpOut` | the sending half of a pcb: queues, `tcp_output`, retransmission, acknowledgements | extends `TcpIn` |
| `Tcp` | a connection between two hosts, from SYN to the end of TIME_WAIT | composes `TcpIn` and `TcpOut` |
| `Sockets` | `lwip_select`, `event_callback`, `lwip_accept`, `lwip_recvfrom`, `lwip_close` and the netconn callbacks | one action per stretch between two locks, waits or posts |
| `SocketsProofs` | | proofs about `Sockets` |

The `MC*` modules extend these for TLC. Operators that are marked as wrong
variants are deliberate mistakes (a dropped guard, a missing reset, an off by
one); they are not part of any specification and are there to substitute for the
definition that follows them, to see that a property notices.

### CgiUpload

The state is `UploadState` (`up`, `pageData`, `allocated`), what the web server
knows of the request (`total`, `received`, `dataLen`), and the flash of the file
that the request created (`cell`). A byte of the body is its position in the
body, so that a byte that is lost, repeated or misplaced is visible. `Call(n)`
is the web server delivering n more bytes; each round of the handler's loop is
an action (`CreateTempFile`, `BufferChunk`, `FinishPage`, `DropChunk`), and
`Return` is the code after the loop. `FinishPage` is the whole branch: erase if
needed, write, advance, and after the last page rename. Every appfs call may
fail; one that works on something outside the file must. `file` tells whether
the file still has its temporary name. Flash cells are erased or not, and
writing a cell that is not erased yields junk.

`Abort` is the last call with `conn==NULL`. `CallNoMemory` is a failed `calloc`.

### AppFs and FileServer

appfs is a table of files over slots; a handle is the number of a file's first
slot, so that it is reused by a later file. Creating a file deletes one of the
same name first; renaming replaces a file with the new name; each of these
changes commits at once. In `FileServer` a request's `cgiData` is the record
`conn[c]`, and a body is a sequence of parts (pages), since `CgiUpload` has the
bytes. Operations on a handle work on whatever file has the handle *now*. The
heap is a number of blocks; `lost` counts the ones that the 404 answer leaves
behind. `Delete` with a handle that no file has reads an uninitialised name in
the code, so the model deletes any file or none; `nvs_open` may fail.
`PowerCutInDelete` stops `cgiDelete` between its two halves. A running app may
store settings under its name (`AppStores`).

As in `CgiUpload`, appfs may fail every creation, erase, write and rename of an
upload. `Flashed` stores a part; what a failed erase or write leaves in its place
is `Broken`, a part of nobody's body. After a part in the middle the upload is in
`ERROR` and eats the rest; after the last one it renames the file nevertheless.
Deleting is taken to succeed: `cgiDelete` and `delete_temp_files` ignore the
result of `appfsDeleteFile`, and `CleanAfterBoot` could not hold otherwise.
`Page` has the failures of the request, not those of the device.

`present` and `intact` are history variables: the files that existed during all
of a listing, and whether a download's file was touched. `kept` holds the
namespaces that `nvs_open` did not open when their file was deleted.

An upload to the temporary name itself is not considered: what appfs does with
a rename of a file to its own name is not visible in this tree.

### JsonEsc and Page

A character of a name is plain or special (one that `json_esc` has to put a
backslash before: quote, backslash, newline and the like). `JsonEsc` is the
loop with its limit of three bytes before the end of the buffer, `JsonParse`
what `JSON.parse` makes of it. Control characters that `json_esc` copies as they
are do not occur in the run and are excluded in the proof (see section 3).

`Page` has the browser (`xhr`, the one request with what its handler expects;
`table`, `button`) and the device (`fs`, `reply`). `open` on a request that is
still running gives it up, and the device may go on with what it has begun
(`OrphanEnds`). A page that got no answer, or an error, or whose device changed
files for a request that was given up, is `stale`: nothing in the page notices,
so its properties except it. `MaxClicks` bounds what the user does.

### LogDownload and FlashDownload

The n-th byte ever printed is n, the byte of the flash at address a is a.
`SendChunk` is the common end of every call. A negative length (an offset behind
the size) makes `httpdSend` send the uninitialised buffer up to its first zero:
any number of junk bytes up to a chunk. Sizes and offsets are natural numbers.

### Startup

The RTC register has three fields: the magic byte, the override bit and the
app's handle. `kchal_init_hw` may clear the register; `bootval` is the value it
had. Each round of a polling loop is an action whose inputs (buttons, charger
status, battery) are chosen anew. `handleCharging` calls `guiCharging()` without
its argument, so the first picture is either of the two. `fullCtr` matters only
below and at 32, so it is not counted beyond 33.

### Settings

`opt` holds the locals of `show_options`, `text` what the menu shows. NVS may be
impossible to open for a whole start-up, in which case every read gives the
default and every store does nothing. Left or Right on the entries "Debug info"
and "Exit" dereferences a null pointer in `option_menu_cb` (line 186) and
restarts the device (`ChangeNothing`). `CutWhileStoring` is a power cut between
the three `nvs_set_u8` calls.

### DHCP

The server is a record of its lease list (ordered, each entry an address, a
station and a timer) and `client_address_plus`. `Walk` is the loop of
`parse_msg` over the list, with the address to try next and the first free one;
`ParseKnown` and `ParseNew` are its two ends, `Answer` the code at `POOL_CHECK`,
`CoarseTmr` a tick with `kill_oldest_dhcps_pool`, which never takes the first
entry. Addresses are numbers; the byte swapping around `++` is what makes them
numbers. Every failed allocation is an input (`mem`).

The client is the record of `struct dhcp`. A transaction id is a flag on a
message: it belongs to the client's present transaction or not. `dhcp_fine_tmr`
running off is `RequestTimeout`; a `Tick` is one `dhcps_coarse_tmr` and one
`dhcp_coarse_tmr` of every station. Messages are queues per station and
direction that may lose (`Lose`). `StrangeMessage` is a station that is not
running this client, sending a message of any type. `Reboot` is a restart of the
device. `evicted` (history) are stations whose running lease was evicted.

Simplifications: the client's ARP check, DECLINE, REBOOTING and INFORM are left
out; a message is faster than a timeout of whole ticks.

### TCP

Sequence numbers are modulo `SeqSpace` with the signed comparison of
`TCP_SEQ_LT`; a segment is a record with its bytes as a sequence, and byte n of a
stream is n. `TcpIn` follows `tcp_receive` from the trimming of a segment's front
to the queue of out-of-sequence segments and the announced window, for a pcb
that is a record with the names of the code. `TcpReass` runs it as
`tcp_input` does: refused data first, then the segment, then the application's
mailbox, which may be full. Its peer sends any segment of the stream that the
announced window allows, any number of times and in any order; it counts its FIN
against the window.

`TcpOut` follows `tcp_out.c` and the acknowledgement half of `tcp_receive`;
`Tcp` adds `tcp_input`, `tcp_listen_input`, `tcp_process`, `tcp_timewait_input`,
the timers and the calls of the application. Segments travel in order, and a
fault loses one, copies it or lets it be overtaken (`Misbehave`); `late` segments
arrive at any later time. A timer may run off at any time: while an answer is on
its way that is a fault too, so that one budget (`MaxFaults`) bounds both.

Simplifications: no congestion window, Nagle algorithm, fast retransmit, round
trip estimate, keepalive or options, no failed allocations; `accept` takes every
connection; 2 MSL are longer than a segment lives; an application learns of a
connection when it is established, so the end of one in SYN_RCVD tells it
nothing. A host gives up when `nrtx` is exactly `MaxRtx`, as in the code; a
handshake that steps over it goes on retransmitting, up to a bound. Text after
`tcp_close` aborts the connection (`tcp_abort`), silently if it came with the FIN
that moved the pcb to TIME_WAIT.

### Sockets

Each call is cut where the code unlocks, waits or posts. `conn[c]` is a netconn
(mailbox, error, and `socket`, which counts events below -1 until `lwip_accept`
has a socket), `sock[c]` a socket (`rcvevent`, `select_waiting`, what is left of
the last pbuf), `task[t]` where a task is, `list` and `signalled` the list of
waiting selects, `sem` the tasks' semaphores. The tcpip task is an actor of its
own: `RecvTcp`, `AcceptFunction` and `ErrTcp` begin, `EventCallback` and `WalkOn`
are its walk over the list, which starts again when `select_cb_ctr` has changed
while it was unlocked. `Serve` is the task between calls: it works on what select
told it, as libesphttpd does.

Simplifications: reading only; each task selects on its own sockets, and only
while it has some (libesphttpd always has its listening socket); the wait of a
select times out only while no event is being told (`Timed` tasks).

## 3. The runs

| Run | Question | Result |
|---|---|---|
| `upload` | Is an upload all or nothing, stored byte for byte, inside its file, truthfully answered, freed, and does each call return? | holds |
| `files` | With one uploader, somebody who deletes anything at any time, apps, failing NVS and power cuts: are published files complete (up to a last page the device failed to store), do settings go with their app, is start-up's clean-up complete? | holds |
| `requests` | With two connections doing anything, also two uploads, and little memory: are listings complete and downloads faithful, is memory accounted for, do requests end? | holds |
| `page` | Does the page end up with the true list of files, whatever their names, and does every upload end visibly? | holds |
| `downloads` | Does the log download send exactly what the ring buffer kept, and the flash download the bytes from off to size, and do both end? | holds |
| `startup` | Are recovery, charging and key lock left as they promise, whatever is pressed and plugged? | holds |
| `settings` | Is what is shown stored, what is stored in effect, and can no stored value stop a start-up? | holds |
| `dhcp` | Are leases consistent, do they outlive what the station believes, does a connected station get an address? | holds |
| `tcp_input` | Does any order, overlap and repetition of segments, with a full mailbox, yield the stream, a sorted queue, a sound window, and all of the data? | holds |
| `tcp` | Do streams, handshake, retransmission and close work with lost, repeated and overtaken segments? | holds |
| `sockets` | Is every event counted, every wake-up delivered, and no semaphore left signalled? | holds |
| `upload_renamed` | Is a temporary file renamed only once writing has succeeded (`main.c` 237)? | violated |

### Bounds

- `upload`: pages of 3 bytes, erase blocks of 2 pages, sectors of 2 erase
  blocks, bodies of up to 14 bytes: a body may end before, at and after the end
  of a page, an erase block and a sector. Every cut into chunks is explored,
  empty chunks too. The proofs remove this bound.
- `files`: 3 slots, bodies of 1 and 2 parts, four names (two temporary, an app,
  another file). Enough for a long file and a short one to replace each other
  while the temporary file exists next to it, and for "no room"; the device may
  fail the page in the middle and the last one.
- `requests`: 3 slots, 2 connections, memory for 2 blocks (one 404 makes it
  short), two names. For the safety properties of `files` and `requests` the
  proofs remove these bounds.
- `page`: 3 slots, three names of up to three characters of either kind in a
  buffer of 7 bytes, so that one name just fits and one is cut; 4 clicks.
- `downloads`: a ring of 8 bytes with up to 25 printed: empty, partly filled,
  exactly full and wrapped up to three times; 12 bytes of flash, sizes and
  offsets around every multiple of the chunk of 3, sizes beyond the flash,
  offsets behind the size. For the safety properties the proofs remove this
  bound.
- `startup`: 3 polls stand for the 32 and 15 of the code, 3 blocks of appfs, two
  apps. The counters only matter by their distance to these limits. For the
  safety properties the proofs remove this bound.
- `settings`: 3 channels, levels up to 15 in steps of 10, so that a step is cut
  off at both ends. The proofs remove this bound.
- `dhcp`: a range of two addresses and two stations allowed, so that it is
  exhausted and leases are evicted; leases of 5 ticks (renewal, rebinding and
  expiry at different ticks); one station with the client, two strange messages
  from either of two others; one answer late; one restart. For the safety
  properties the proofs remove these bounds.
- `tcp_input`: 9 bytes and a FIN in a window of 6 and segments of up to 4 bytes,
  so that segments overlap on both sides and cover each other; the sequence
  numbers wrap inside the stream; a mailbox of 2. For the safety properties the
  proofs remove this bound.
- `tcp`: the client connects and half-closes, the server answers with two bytes
  in segments of one, in a window of two; one fault of the network or one early
  retransmission, one retransmission before a host gives up, two connections of
  the listener (one for an old SYN).
  With these bounds only a FIN is ever behind a closed window. With
  `WndMax = 1` in `MCTcp.cfg` every segment closes the window, and probes carry
  a byte that is refused, accepted (the update of the window was lost) or there
  already. The safety properties and `DataArrives` hold in that instance.
  `ClosedGoes` needs more fairness there than `Tcp` assumes: a probing host keeps
  the wire busy time and again, and in the model 2 MSL pass only while nothing is
  under way.
- `sockets`: two tasks, one listening socket, one incoming connection with one
  pbuf and its end or reset, one further connection; a pbuf that needs two
  calls of recv; mailboxes of 2. For the safety properties the proofs remove
  this bound.

Deadlock is checked in `files`, `requests`, `startup` and `settings`. The other
modules describe a request or a connection, which ends, or bound the faults and
inputs of an environment, which then falls silent.

### Fairness

- `CgiUpload`: a call that is running goes on (`Loop`, `Return`). Nothing is
  assumed about the client: chunks may never come.
- `FileServer`, `DevDownloads`: the web server calls the handler
  of an open connection again, until the request ends or the connection is lost.
  That is its contract for `HTTPD_CGI_MORE`. Start-up runs to its end.
- `Startup`: the polling loops run. Nothing is assumed about people.
- `Page`: the device serves requests, the browser calls handlers. Nothing is
  assumed about the user.
- `Dhcp`: time passes and memory is not always short, timeouts run off, and of
  each kind of message that is sent again and again to somebody who waits for
  it, one arrives. The client's retries are what makes that an assumption about
  the network only.
- `TcpReass`: a peer sends again what is not acknowledged; timer and reading
  task run.
- `Tcp`: segments arrive and timers run, what runs out does so, and an
  application that has not closed reads. Nothing is assumed about writing,
  shutting down and closing.
- `Sockets`: the tasks and the tcpip task run. Nothing is owed by the network.

### What the violation shows

`upload_renamed`: after the last page `cgiUploadFile` sets `FLST_DONE` and
renames, although the erase or write of that page has just set `FLST_ERROR`.
The client is told that all is well. `FileServer` does the same, so
`PublishedComplete` excepts this one page.

### Disagreements without a run of their own

Met while modelling; the models do what the code does, and the properties are
stated so that they hold.

- An upload without a name sets "No name" and `FLST_ERROR` (`cgiappfs.c` 95-98),
  but the creation of the temporary file right after it sets `FLST_WRITE` (107),
  so the body is stored under an empty name (`CreateTempFile`).
- All uploads share one temporary name (100). A second one deletes the first
  one's file; the first goes on with a handle that now names the second's file
  and may publish it with parts nobody wrote. So `files` has one uploader;
  `requests` has two.
- The handle picked in the app menu is booted after a wait for the button
  (`gui.c` 282-285) during which the web server may have given it to another
  file (`LaunchApp`).
- `getflash.cgi` starts at `off` but sends `size-pos` bytes (`cgidev.c` 86): the
  coredump link of `html/dev.html` (64 KiB at 0xFF0000) makes the length
  negative.
- "Factory Rst" erases appfs only: the NVS branch (`main.c` 187) is the `else`
  of the appfs branch, while the comment in line 151 says "either or both".
- The access point is started whatever the wifi setting says (`main.c` 292),
  while the splash screen says "WiFi is off" (`gui.c` 92).
- `json_esc` copies the control characters that it has no letter for, which
  `JSON.parse` refuses; a list with such a name is never shown.
- An answer that does not arrive leaves the page showing an upload for ever
  (`main.js` 24 accepts a status of 2xx or 400 only).
- A lease that runs off in REBINDING: `dhcp_release` looks at
  `dhcp_supplied_address` (`dhcp.c` 2025), which knows BOUND and RENEWING only,
  so the interface keeps the address.
- In FIN_WAIT_1, CLOSING and LAST_ACK `tcp_process` compares the acknowledgement
  with `snd_nxt` only, not with what is still unsent. `tcp_close` with unsent
  data whose FIN has not left may thus lose the data (the comment in `tcp.c`
  272-273 says it need not be ensured; `DataArrives` excepts closed
  connections).
- A FIN that fills the window to the last byte trips the assertion "ooseq tcplen
  > rcv_wnd" (`tcp_in.c` 1449) when it is taken from the queue, if the peer does
  not count it against the window.
- `recv_tcp` says of a full mailbox that data "is presented to us later again
  from tcp_fasttmr" (`api_msg.c` 296); for an end of stream without data
  (`tcp_in.c` 459-469) nothing is kept, and the mark is lost.
- `lwip_recvfrom` announces the end of a stream again (`sockets.c` 1020) although
  `netconn_recv_data` has taken the message out (`api_lib.c` 500-504): a task
  that reads once more waits for ever. `ReadToEnd` excepts that wait.

## 4. The proofs

`CgiUploadProofs` holds for all lengths of pages, erase blocks, sectors and
bodies, from these assumptions: the lengths are positive, an erase block is a
multiple of a page, and a sector of an erase block.

- `Inductive`: the invariant `IInv`. None of the properties is inductive: that a
  renamed file holds the body needs to know what is in the flash and in the page
  buffer before, and that what is written next is erased. `ConsumedInv` says
  that address, buffer and remaining length add up to the body and that the
  consumed bytes are exactly those below address plus buffer; `BufferInv` and
  `FlashInv` say what the bytes are, and that a page which does not start an
  erase block lies in a block whose rest is still erased; `StartInv`, `DoneInv`
  and `ControlInv` tie the handler's state to the request. The arithmetic
  (multiples of pages, erase blocks and sectors, `Reserved`) is in lemmas of its
  own (`Division` to `PageInBlock`).
- `TypeCorrect`, `RenamedBody`, `InsideFile`, `Answered`: the safety properties.
- `Atomic`: `CgiUpload` implements `AtomicUpload`, whatever fails.

`SettingsProofs` holds for every number of channels, default channel and range
of levels. Its invariant adds to the properties that the options menu's old
values are the ones in effect (`OptionsInv`, needed when it decides not to
restart) and that the running network is the stored one in every screen
(`NetworkInv`). Theorems: `TypeCorrect`, `ChannelStarts`, `InEffect`, `Shows`,
and the action property `StoresShown`.

`FileServerProofs` holds for every number of slots, finite pool of connections,
set of names and bodies, limit of the heap, with and without power cuts. Its
first part is about `AppFs`: `IsTable` says of a file table that a handle is one of
its file's slots, that there is one part for every slot, that names are unique
and that no slot belongs to two files; the lemmas show that creating, writing,
renaming and deleting keep it, and what `NextEntry`, the search for a name and
the search for room return.

- `Core`: the table is well formed, every connection's state is (`ConnOK`: parts
  are left while it is served, an upload carries one of the bodies), the heap is
  the number of requests served plus the lost blocks (`HeapOK`), and
  `SystemInv`. `NvsHasFile` alone is not inductive: an app may store settings
  while it runs, so `RunningHasFile` says that a running app has its file, and
  `CleanedUp` how far `delete_temp_files` is. Theorems: `TypeCorrect`,
  `HeapAccounted`, `SettingsHaveApp`, and the action property `CleanStart`.
- `DownloadsRight` and `IndexRight` need what an unfinished transfer has done: a
  download whose file nobody touched has copied the first parts (`DownloadOK`),
  a listing has listed everything up to its handle that existed all the time, in
  order (`IndexOK`, `Listed`).
- `OneUploaderPublishes` has a hypothesis: at most one connection uploads. It is
  needed, because two uploads share a temporary name (see "Disagreements"). A
  file with its real name is an uploaded body in every page but perhaps the last,
  and that one is `Broken` only if the device failed its erase or write (see
  "What the violation shows"). `UploadOK`: the uploader's file, if it is still
  there, is the only one with the temporary name and has the parts of the body
  so far; an upload that is still in `WRITE` has had no failure.

The first part of `BrowserProofs` holds for every size of the ring, the flash and a chunk,
and every size and offset asked for.

- `FlashRight`: what was sent of a range inside the flash is the run of bytes
  from `off` to `pos` (`FlashInv`).
- `LogRefinesTransfer`: `LogDownload` implements `Transfer`, step by step.
  `RingOK` says which byte lies in which cell before and behind the write
  pointer, `LogInv` that a running download has sent the bytes from the oldest
  one up to its position and that its pointer is the cell after them, wrapped.

The second part of `BrowserProofs` is about `Page`. It holds for every partition, every
number of clicks, every buffer of at least three bytes (`NameSizeAssumption`) and
every set of names that `PrintableNames` allows: names without bare control
characters (with one of them the property is false: the list is not JSON, see
section 3).

- `Reads`: a text is accepted by `JSON.parse` and stands for a string. What
  `json_esc` writes for a character stands for that character (`ReadsEscaped`);
  its loop has copied all characters so far, or it has stopped with less than
  three bytes left (`Prefix`). `NameSurvives` puts the two together.
- `PageInv`: the answer to a listing, and the table of an idle page, are those of
  the files as they are, unless `stale` says otherwise. `TableTrue` alone says
  nothing of an answer under way. Theorem: `PageShowsFiles`.

`StartupProofs` holds for every number of polls and flash blocks and every set of
apps. `IInv` adds to the type invariant: while the flash is erased the blocks
before the next one are erased unless a failure is remembered (`RecoveryInv`);
before the calibration the counter of `handleCharging` is the number of polls in
a row that said "full", afterwards it is beyond the limit (`ChargeInv`); the wish
to get past the charging screen is in the register over the restart, then in its
copy (`ButtonInv`); a register with the key lock names the app that slept, and
one that starts an app exists only while the device is off or runs it
(`LockInv`). Theorems: `TypeCorrect`, `EraseComplete`, and the action properties
`CalibrationSound`, `ButtonWorks` and `UnlockSound`.

`SocketsProofs` holds for every set of tasks, every set of netconns, mailboxes of
every size and everything that peers may send, from `SocketsAssumption`: netconns
are numbers, each has an owning task, and the ones that arrive belong to the task
of the listening one. Neither property is inductive. The invariant `IInv` has
these parts:

- `SelectInv`: a `select_cb` is in the list exactly while its task is between
  linking and unlinking it, is in it once, and is signalled only then or until
  the task drains its semaphore; the tcpip task has only entries of the list
  before it, unless it knows that the list has changed. That is why no
  semaphore is signalled for a select that is over.
- `TaskInv`: a task works on its own sockets, enters `recv` and `accept` only
  when there is something, and still has the event while it has the message but
  has not subtracted it. That is why `rcvevent` does not become negative.
- `WaitingInv`: `select_waiting` is 1 exactly between counting and uncounting.
- `ConnInv`, `TcpipInv`, `QueueInv`: the listening mailbox holds netconns that
  nobody works on, each once; what the tcpip task works on exists.
- `FinInv`: there is one end of the stream, behind all data, and it is announced
  again once.
- `CountInv`: `EventsCounted` in a form that one step changes in few places.

Theorems: `TypeCorrect`, `SemaphoreRight`, `EventsRight`. TLC checked this
invariant on the instance of `sockets` before it was proved.

Some of the models run a loop over data: the walk over the list of leases, the
emptying of the out-of-sequence queue, the copying of a name in `json_esc`. They
are recursive functions. What such a
function yields is shown by `FiniteRecursion` (a function that satisfies the
recursion exists, built up number by number), from which the one that was chosen
satisfies it too, and by `Induction`, which takes the least number that fails.

`DhcpProofs` holds for every range of addresses, lease time, set of stations and
of clients, and all bounds on retries and faults, from `DhcpServerAssumption`,
`DhcpClientAssumption` and `DhcpAssumption`. The operators of the server come
first: what its walk finds, and that inserting, removing and expiring keep the
list in order (`ListOK`). `LeasesConsistent` is then inductive (`ServerOK`).
`LeaseCovered` is not; `Inv` adds what is under way:

- `ClientOK`: an address that is believed in is the one bound last and has time
  left; one that is left over after `dhcp_release` while REBINDING has no timers.
- `OutOK`, `MessagesOK`: a client that extends its lease has nothing of the
  current transaction under way but requests for that address.
- `RepliesOK`: an ACK of the current transaction names an address for which the
  server has a lease of full length. So binding to it is right when it comes.
- `ReleaseOK`: a RELEASE under way comes from a client that has left its lease,
  and everything of its new transaction is behind it. So the server cannot
  remove a lease that was given again.
- `Covered`: the lease at the server runs at least as long as the client
  believes, unless the server evicted the station.

Theorems: `LeasesFit` (`Inv`), `LeasesRight`, `LeaseOutlives`.

`TcpReassProofs` holds for every stream, window, segment size, mailbox and
starting sequence number, from `TcpAssumption` and `TcpReassAssumption`: the
stream and a window together are less than half of the sequence numbers, as no
comparison of sequence numbers means anything beyond that.

- `At` and `Offset` go between a position in the stream and its sequence number,
  which may wrap; in that range `TCP_SEQ_LT` and its like compare positions.
- `SegOK`: a segment has the bytes of its numbers. `QueueOK`: the queue's
  segments are in order, do not overlap, lie inside the window and only the last
  one has a FIN. `tcp_oos_insert_segment`, the trimming at both ends and the
  loop that empties the queue keep this; `Received` says what a call of
  `tcp_receive` has taken: a run of bytes from `rcv_nxt` on, and no segment of
  the queue comes next.
- `Host` is the state of the host with data `d` and a FIN `x` that `tcp_input`
  has taken but not passed up yet, so that its steps can be followed one by one:
  `Rcv` (the right edge that was announced is within the window, the queue too),
  `Text` (read, waiting, refused and `d` are the stream up to there), `Marks` (an
  EOF mark comes last, and refused data is before it), `Room` (the window and
  everything that is held add up to the buffer).

Theorems: `PcbTyped` (its statement is what the `LWIP_ASSERT`s of `tcp_receive`
say of the windows), `StreamComesIntact`, `QueueStaysInOrder`, `NoWindowLost`,
`PromisesKept`.

The type invariants and two of the proved properties (`ReplyTellsRename`,
`ShownIsSet`) are not listed in a run's configuration any more: the theorems
cover them for every instance.

Only model-checked:

- All liveness properties (`CallReturns`, `RequestsEnd`, `DownloadsEnd`,
  `LockEnds`, `UploadSettles`, `GetsAddress`, `DataDelivered`, `ClosedGoes`,
  `DataArrives`, `ReadToEnd`): fairness and `ENABLED` are out of the prover's
  reach.
- `Tcp` (`StreamIntact`, `OneConnection`, `NothingForgotten`): what it takes for
  its receiving half is proved for `TcpReass`. For both halves together the
  segments of earlier connections count too: with any number of connections
  their sequence numbers come round, and the properties need more than the
  assumptions on the constants say.

## 5. What is not modelled

- `cgi.c`: its handlers are commented out and nothing refers to the rest.
- Drawing, logging, HTTP headers and wording; the static pages.
- External libraries beyond what the code asks of them. `cgiRebootFirmware`
  (libesphttpd) is a `PowerCut`.
- Of the vendored network stack: PPP (some 20 000 lines, never configured by the
  chooser), IPv6, DNS, SNTP, AUTOIP, raw and UDP sockets, and the headers of
  options and prototypes, which together are most of its 90 000 lines; the
  parts of DHCP, TCP and sockets that section 2 names as left out; IP, ARP and
  memory pools, which are the network and the failing allocations of the models.
  These lines are why the mapped share of the whole tree is small. The chooser's
  own sources are mapped almost entirely.
- The NVS handles that `show_options` and `app_main` never close.

## 6. Plan

Done: all modules of section 2; the proofs of section 4, about `CgiUpload`,
`Settings`, `FileServer`, `Page`, `Startup`, `DevDownloads`, `Sockets`, `Dhcp`
and `TcpReass`.

Left: `Tcp`. It needs an assumption on the initial sequence numbers that keeps
the segments of an earlier connection out of the window of a later one; then
`OneConnection` and `StreamIntact`, with the lemmas of `TcpReassProofs`.
