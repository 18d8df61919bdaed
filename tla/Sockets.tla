------------------------------ MODULE Sockets ------------------------------
(***************************************************************************)
(* The socket layer between the tcpip task, which fills the mailboxes of   *)
(* the netconns and then reports an event (recv_tcp, accept_function,      *)
(* err_tcp and event_callback), and the tasks that wait for their sockets  *)
(* in lwip_select and then accept or receive (the web server is one).      *)
(*                                                                         *)
(* A step is what a task does between two places where another one may     *)
(* run: the sections between SYS_ARCH_PROTECT and SYS_ARCH_UNPROTECT, the  *)
(* operations on mailboxes and semaphores. A socket has the number of its  *)
(* netconn. Only the reading side is here: no write or exception sets. A   *)
(* task selects, reads and closes its own sockets only, and selects only   *)
(* while it has some.                                                      *)
(***************************************************************************)
EXTENDS Integers, Sequences, FiniteSetsExt

CONSTANTS Tasks,       \* tasks that call select
          Conns,       \* netconns, numbered in the order of their sockets
          Owner,       \* the task of each
          Listener,    \* the one that listens
          Incoming,    \* those that are made by accept
          MboxSize,    \* messages a mailbox holds
          Chunks,      \* the pbufs that may arrive for each: [len, push]
          RecvLen,     \* bytes the tasks read at once
          MaxChunks,   \* bound: pbufs that arrive for each netconn
          Closing,     \* bound: those whose peer closes or resets them
          Timed        \* tasks whose select has a timeout

ASSUME SocketsAssumption ==
    /\ Conns \subseteq Nat /\ Owner \in [Conns -> Tasks]
    /\ Listener \in Conns /\ Incoming \subseteq Conns \ {Listener}
    /\ \A c \in Incoming : Owner[c] = Owner[Listener]
    /\ Chunks \in [Conns -> SUBSET [len : 1 .. 2 * RecvLen, push : BOOLEAN]]
    /\ RecvLen \in Nat \ {0} /\ MboxSize \in Nat \ {0}
    /\ MaxChunks \in Nat /\ Closing \subseteq Conns /\ Timed \subseteq Tasks

VARIABLES conn,   \* struct netconn: st, socket (-1 and less before accept is
                  \* through), mbox, err; and what the peer did: sent, fin
          sock,   \* struct lwip_sock: rcvevent, select_waiting, bytes left
                  \* of lastdata and its PUSH flag
          tcpip,  \* the tcpip task: at, the netconn, what is left of the
                  \* list, has the list changed, is a NULL to be posted
          task,   \* a task: pc, and its local variables
          list,   \* select_cb_list
          signalled, \* sem_signalled of each task's select_cb
          sem,    \* the semaphore of each task
          told    \* history: sockets whose FIN was counted a second time

vars == <<conn, sock, tcpip, task, list, signalled, sem, told>>
selects == <<list, signalled, sem>>

FIN == [len |-> 0, push |-> FALSE]   \* the NULL pbuf
Idle == [at |-> "idle", conn |-> Listener, rest |-> <<>>, changed |-> FALSE,
         null |-> FALSE]
NewConn(st, socket) == [st |-> st, socket |-> socket, mbox |-> <<>>,
                        err |-> FALSE, sent |-> 0, fin |-> FALSE]
NewSock == [rcvevent |-> 0, waiting |-> 0, left |-> 0, push |-> FALSE]

\* The sockets there are, and those that a task passes to select.
HasSocket(c) == conn[c].st = "open" /\ conn[c].socket >= 0
Readset(t) == {c \in Conns : Owner[c] = t /\ HasSocket(c)}

\* A task between two calls, with what select told it to work on.
Between(ready) == [pc |-> "serve", todo |-> {}, ready |-> ready,
                   cur |-> Listener, off |-> 0, how |-> "scan"]

Init ==
    /\ conn = [c \in Conns |-> IF c \in Incoming THEN NewConn("none", -1)
                               ELSE NewConn("open", 0)]
    /\ sock = [c \in Conns |-> NewSock]
    /\ tcpip = Idle
    /\ task = [t \in Tasks |-> Between({})]
    /\ list = <<>>
    /\ signalled = [t \in Tasks |-> FALSE]
    /\ sem = [t \in Tasks |-> FALSE]
    /\ told = {}

-----------------------------------------------------------------------------
(* The tcpip task *)

HasRoom(c) == Len(conn[c].mbox) < MboxSize

\* recv_tcp: a pbuf, or NULL for the peer's FIN, goes to the mailbox; the
\* event follows. What does not fit is offered again later.
RecvTcp(c, p) ==
    /\ tcpip.at = "idle"
    /\ c # Listener /\ conn[c].st = "open" /\ HasRoom(c)
    /\ ~conn[c].err /\ ~conn[c].fin
    /\ IF p = FIN THEN c \in Closing ELSE conn[c].sent < MaxChunks
    /\ conn' = [conn EXCEPT ![c].mbox = Append(@, p), ![c].fin = (p = FIN),
                            ![c].sent = IF p = FIN THEN @ ELSE @ + 1]
    /\ tcpip' = [Idle EXCEPT !.at = "event", !.conn = c]
    /\ UNCHANGED <<sock, task, selects, told>>

\* accept_function: a netconn that has no socket yet.
AcceptFunction(c) ==
    /\ tcpip.at = "idle"
    /\ c \in Incoming /\ conn[c].st = "none" /\ HasRoom(Listener)
    /\ conn' = [conn EXCEPT ![c].st = "open", ![Listener].mbox = Append(@, c)]
    /\ tcpip' = [Idle EXCEPT !.at = "event", !.conn = Listener]
    /\ UNCHANGED <<sock, task, selects, told>>

\* err_tcp: the event comes before the NULL that wakes a pending recv.
ErrTcp(c) ==
    /\ tcpip.at = "idle"
    /\ c \in Closing \ {Listener} /\ conn[c].st = "open" /\ ~conn[c].err
    /\ conn' = [conn EXCEPT ![c].err = TRUE]
    /\ tcpip' = [Idle EXCEPT !.at = "event", !.conn = c, !.null = TRUE]
    /\ UNCHANGED <<sock, task, selects, told>>

\* event_callback returns to recv_tcp, accept_function or err_tcp.
EventDone == tcpip' = IF tcpip.null THEN [tcpip EXCEPT !.at = "null"] ELSE Idle

\* event_callback: one round of the loop over the list, of which only rest
\* is left. It ends by unlocking.
Visit(c, rest) ==
    IF rest = <<>> THEN EventDone /\ UNCHANGED <<signalled, sem>>
    ELSE LET t      == Head(rest)
             signal == ~signalled[t] /\ sock'[c].rcvevent > 0 /\ c \in Readset(t)
         IN  /\ signalled' = [signalled EXCEPT ![t] = @ \/ signal]
             /\ sem' = [sem EXCEPT ![t] = @ \/ signal]
             /\ tcpip' = [tcpip EXCEPT !.at = "walk", !.rest = Tail(rest),
                                       !.changed = FALSE]

\* event_callback with NETCONN_EVT_RCVPLUS up to the first unlocking. Before
\* there is a socket the event is counted in the socket's number.
EventCallback ==
    /\ tcpip.at = "event"
    /\ LET c == tcpip.conn
       IN  IF conn[c].socket < 0
           THEN /\ conn' = [conn EXCEPT ![c].socket = @ - 1]
                /\ EventDone
                /\ UNCHANGED <<sock, signalled, sem>>
           ELSE /\ sock' = [sock EXCEPT ![c].rcvevent = @ + 1]
                /\ Visit(c, IF sock[c].waiting = 0 THEN <<>> ELSE list)
                /\ UNCHANGED conn
    /\ UNCHANGED <<task, list, told>>

\* It locks again, and starts anew if select_cb_ctr shows that the list has
\* changed.
WalkOn ==
    /\ tcpip.at = "walk"
    /\ UNCHANGED <<conn, sock, task, list, told>>
    /\ Visit(tcpip.conn, IF tcpip.changed THEN list ELSE tcpip.rest)

PostNull ==
    /\ tcpip.at = "null"
    /\ conn' = [conn EXCEPT ![tcpip.conn].mbox =
                    IF HasRoom(tcpip.conn) THEN Append(@, FIN) ELSE @]
    /\ tcpip' = Idle
    /\ UNCHANGED <<sock, task, selects, told>>

-----------------------------------------------------------------------------
(* lwip_select *)

Goto(t, pc) == task' = [task EXCEPT ![t].pc = pc]

\* The call that the task is in returns.
Returns(t) == task' = [task EXCEPT ![t] = Between(@.ready)]

\* A loop over the sockets begins: pc names it, todo is what it has to visit.
Loop(t, pc, how) == task' = [task EXCEPT ![t].pc = pc, ![t].todo = Readset(t),
                                         ![t].ready = {}, ![t].how = how]

\* lwip_selscan, one socket. After the last one select returns, if this was
\* the last scan or the first one found something.
SelScan(t) ==
    /\ task[t].pc \in {"scan", "rescan", "last"} /\ task[t].todo # {}
    /\ LET c     == Min(task[t].todo)
           ready == task[t].ready \cup
                      (IF sock[c].left > 0 \/ sock[c].rcvevent > 0 THEN {c} ELSE {})
           done  == /\ task[t].todo = {c}
                    /\ task[t].pc = "last" \/ (task[t].pc = "scan" /\ ready # {})
       IN  task' = [task EXCEPT ![t] =
                      IF done THEN Between(ready)
                      ELSE [@ EXCEPT !.todo = task[t].todo \ {c},
                                     !.ready = ready]]
    /\ UNCHANGED <<conn, sock, tcpip, selects, told>>

\* Nothing was ready: the task's select_cb becomes the first of the list.
Enlist(t) ==
    /\ task[t].pc = "scan" /\ task[t].todo = {} /\ task[t].ready = {}
    /\ list' = <<t>> \o list
    /\ tcpip' = [tcpip EXCEPT !.changed = (tcpip.at = "walk")]
    /\ Loop(t, "count", "scan")
    /\ UNCHANGED <<conn, sock, signalled, sem, told>>

\* Wrong: the sockets are not looked at again before the wait.
CountNoRescan(t) ==
    /\ task[t].pc = "count"
    /\ LET c == Min(task[t].todo)
       IN  /\ sock' = [sock EXCEPT ![c].waiting = @ + 1]
           /\ task' = [task EXCEPT ![t].todo = @ \ {c},
                                   ![t].pc = IF task[t].todo = {c} THEN "rescan" ELSE "count"]
    /\ UNCHANGED <<conn, tcpip, selects, told>>

\* select_waiting is increased socket by socket; then the second scan begins.
Count(t) ==
    /\ task[t].pc = "count"
    /\ LET c == Min(task[t].todo)
       IN  /\ sock' = [sock EXCEPT ![c].waiting = @ + 1]
           /\ IF task[t].todo = {c} THEN Loop(t, "rescan", "scan")
              ELSE task' = [task EXCEPT ![t].todo = @ \ {c}]
    /\ UNCHANGED <<conn, tcpip, selects, told>>

\* The second scan found nothing: sys_arch_sem_wait, with its timeout if the
\* call has one (it is longer than an event_callback takes). If the scan found
\* something, there is no wait.
SemWait(t) ==
    /\ task[t].pc = "rescan" /\ task[t].todo = {}
    /\ \/ /\ task[t].ready = {} /\ sem[t]
          /\ sem' = [sem EXCEPT ![t] = FALSE]
          /\ Loop(t, "uncount", "woken")
       \/ /\ task[t].ready = {} /\ ~sem[t] /\ t \in Timed /\ tcpip.at = "idle"
          /\ Loop(t, "uncount", "timeout")
          /\ UNCHANGED sem
       \/ /\ task[t].ready # {}
          /\ Loop(t, "uncount", "scan")
          /\ UNCHANGED sem
    /\ UNCHANGED <<conn, sock, tcpip, list, signalled, told>>

\* The list once the select_cb of t is unlinked.
Unlinked(t) ==
    LET p == CHOOSE i \in DOMAIN list : list[i] = t
    IN  [i \in 1 .. Len(list) - 1 |-> IF i < p THEN list[i] ELSE list[i + 1]]

\* select_waiting is decreased socket by socket; then the select_cb leaves
\* the list.
Uncount(t) ==
    /\ task[t].pc = "uncount"
    /\ IF task[t].todo = {}
       THEN /\ list' = Unlinked(t)
            /\ tcpip' = [tcpip EXCEPT !.changed = (tcpip.at = "walk")]
            /\ Goto(t, "drain")
            /\ UNCHANGED sock
       ELSE LET c == Min(task[t].todo)
            IN  /\ sock' = [sock EXCEPT ![c].waiting = @ - 1]
                /\ task' = [task EXCEPT ![t].todo = @ \ {c}]
                /\ UNCHANGED <<list, tcpip>>
    /\ UNCHANGED <<conn, signalled, sem, told>>

\* Wrong: only a wait that timed out is followed by a second one.
MustDrainTimeout(t) == signalled[t] /\ task[t].how = "timeout"

\* Was the semaphore signalled for a wait that did not take the signal?
MustDrain(t) == signalled[t] /\ task[t].how \in {"scan", "timeout"}

\* The signal is taken and the select_cb is gone; a timeout returns, everything
\* else scans once more.
Drain(t) ==
    /\ task[t].pc = "drain"
    /\ sem' = [sem EXCEPT ![t] = @ /\ ~MustDrain(t)]
    /\ signalled' = [signalled EXCEPT ![t] = FALSE]
    /\ IF task[t].how = "timeout" THEN Returns(t) ELSE Loop(t, "last", "scan")
    /\ UNCHANGED <<conn, sock, tcpip, list, told>>

-----------------------------------------------------------------------------
(* The task works on the sockets that are ready, then selects again. *)

Serve(t) ==
    /\ task[t].pc = "serve"
    /\ IF task[t].ready = {} THEN Readset(t) # {} /\ Loop(t, "scan", "scan")
       ELSE LET c == Min(task[t].ready)
            IN  task' = [task EXCEPT ![t].ready = @ \ {c}, ![t].cur = c, ![t].off = 0,
                                     ![t].pc = IF c = Listener THEN "accept" ELSE "recv"]
    /\ UNCHANGED <<conn, sock, tcpip, selects, told>>

\* event_callback for an event that the task itself reports. No other task
\* waits for its sockets, so nobody is woken.
OwnEvent(c, d) == sock' = [sock EXCEPT ![c].rcvevent = @ + d]

\* netconn_accept: the wait for the mailbox.
NetconnAccept(t) ==
    /\ task[t].pc = "accept" /\ conn[Listener].mbox # <<>>
    /\ conn' = [conn EXCEPT ![Listener].mbox = Tail(@)]
    /\ task' = [task EXCEPT ![t].pc = "accepted", ![t].cur = Head(conn[Listener].mbox)]
    /\ UNCHANGED <<sock, tcpip, selects, told>>

Accepted(t) ==
    /\ task[t].pc = "accepted"
    /\ OwnEvent(Listener, -1)
    /\ Goto(t, "alloc")
    /\ UNCHANGED <<conn, tcpip, selects, told>>

\* netconn_drain and the end of a netconn.
Deleted(c) == [conn EXCEPT ![c] = NewConn("closed", -1)]

\* The message to the tcpip task that netconn_accept ends with, and then
\* alloc_socket, which fails if other users have filled the table.
AllocSocket(t) ==
    /\ task[t].pc = "alloc" /\ tcpip.at = "idle"
    /\ \/ /\ sock' = [sock EXCEPT ![task[t].cur] = NewSock]
          /\ Goto(t, "publish")
          /\ UNCHANGED conn
       \/ /\ conn' = Deleted(task[t].cur)
          /\ Returns(t)
          /\ UNCHANGED sock
    /\ UNCHANGED <<tcpip, selects, told>>

\* Wrong: the events that came before the socket are forgotten.
PublishNothing(t) ==
    /\ task[t].pc = "publish"
    /\ conn' = [conn EXCEPT ![task[t].cur].socket = 0]
    /\ Returns(t)
    /\ UNCHANGED <<sock, tcpip, selects, told>>

\* lwip_accept: the socket takes over the events counted so far.
Publish(t) ==
    /\ task[t].pc = "publish"
    /\ LET c == task[t].cur
       IN  /\ OwnEvent(c, -1 - conn[c].socket)
           /\ conn' = [conn EXCEPT ![c].socket = 0]
    /\ Returns(t)
    /\ UNCHANGED <<tcpip, selects, told>>

-----------------------------------------------------------------------------
(* lwip_recvfrom on a blocking socket *)

\* A round begins: what is left of the last pbuf comes first; a netconn with
\* an error returns it, or what was read before.
RecvRound(t) ==
    /\ task[t].pc = "recv"
    /\ LET c == task[t].cur
       IN  Goto(t, IF sock[c].left > 0 THEN "copy"
                   ELSE IF ~conn[c].err THEN "fetch"
                   ELSE IF task[t].off > 0 THEN "return" ELSE "close")
    /\ UNCHANGED <<conn, sock, tcpip, selects, told>>

\* netconn_recv_data: the wait for the mailbox.
Fetch(t) ==
    /\ task[t].pc = "fetch"
    /\ LET c == task[t].cur
           p == Head(conn[c].mbox)
       IN  /\ conn[c].mbox # <<>>
           /\ conn' = [conn EXCEPT ![c].mbox = Tail(@)]
           /\ sock' = [sock EXCEPT ![c].left = p.len, ![c].push = p.push]
           /\ Goto(t, IF p = FIN THEN "fin" ELSE "minus")
    /\ UNCHANGED <<tcpip, selects, told>>

RecvMinus(t) ==
    /\ task[t].pc = "minus"
    /\ OwnEvent(task[t].cur, -1)
    /\ Goto(t, "copy")
    /\ UNCHANGED <<conn, tcpip, selects, told>>

\* The bytes are copied; a full buffer, a PUSH or no further event ends it.
Copy(t) ==
    /\ task[t].pc = "copy"
    /\ LET c   == task[t].cur
           n   == Min({RecvLen - task[t].off, sock[c].left})
           off == task[t].off + n
       IN  /\ sock' = [sock EXCEPT ![c].left = @ - n, ![c].push = @ /\ n < sock[c].left]
           /\ task' = [task EXCEPT ![t].off = off,
                         ![t].pc = IF off = RecvLen \/ sock[c].push
                                      \/ sock[c].rcvevent <= 0
                                   THEN "return" ELSE "recv"]
    /\ UNCHANGED <<conn, tcpip, selects, told>>

\* netconn_recved, a message to the tcpip task, and the return.
Return(t) ==
    /\ task[t].pc = "return" /\ tcpip.at = "idle"
    /\ Returns(t)
    /\ UNCHANGED <<conn, sock, tcpip, selects, told>>

\* NULL: the stream has ended. If bytes were read, they are returned and the
\* event is counted again, so that the next select sees it.
RecvFin(t) ==
    /\ task[t].pc = "fin" /\ tcpip.at = "idle"
    /\ LET c == task[t].cur
       IN  IF task[t].off > 0
           THEN told' = told \cup {c} /\ Goto(t, "return") /\ UNCHANGED sock
           ELSE OwnEvent(c, -1) /\ Goto(t, "close") /\ UNCHANGED told
    /\ UNCHANGED <<conn, tcpip, selects>>

\* lwip_close, and free_socket when it returns.
Close(t) ==
    /\ task[t].pc = "close" /\ tcpip.at = "idle"
    /\ conn' = Deleted(task[t].cur)
    /\ sock' = [sock EXCEPT ![task[t].cur] = NewSock]
    /\ told' = told \ {task[t].cur}
    /\ Returns(t)
    /\ UNCHANGED <<tcpip, selects>>

-----------------------------------------------------------------------------

Select(t) == \/ SelScan(t) \/ Enlist(t) \/ Count(t) \/ SemWait(t) \/ Uncount(t)
             \/ Drain(t)
Accept(t) == NetconnAccept(t) \/ Accepted(t) \/ AllocSocket(t) \/ Publish(t)
Recv(t) == \/ RecvRound(t) \/ Fetch(t) \/ RecvMinus(t) \/ Copy(t) \/ RecvFin(t)
           \/ Return(t)

Task(t) == Select(t) \/ Serve(t) \/ Accept(t) \/ Recv(t) \/ Close(t)

\* What the tcpip task has begun, and what the network makes it begin.
Tcpip == EventCallback \/ WalkOn \/ PostNull
Network == \E c \in Conns : \/ \E p \in Chunks[c] \cup {FIN} : RecvTcp(c, p)
                           \/ AcceptFunction(c)
                           \/ ErrTcp(c)

Next == Tcpip \/ Network \/ \E t \in Tasks : Task(t)

\* Every task runs; nothing is owed by the network.
Fairness == WF_vars(Tcpip) /\ \A t \in Tasks : WF_vars(Task(t))

Spec == Init /\ [][Next]_vars /\ Fairness

-----------------------------------------------------------------------------
(* Properties *)

\* Type correctness.
TypeOK ==
    /\ \A c \in Conns :
         /\ conn[c].st \in {"none", "open", "closed"} /\ conn[c].socket <= 0
         /\ Len(conn[c].mbox) <= MboxSize
         /\ sock[c].rcvevent >= 0 /\ sock[c].waiting \in {0, 1} /\ sock[c].left >= 0
    /\ \A t \in Tasks : task[t].todo \subseteq Conns /\ task[t].ready \subseteq Conns
    /\ list \in Seq(Tasks) /\ signalled \in [Tasks -> BOOLEAN]
    /\ sem \in [Tasks -> BOOLEAN] /\ told \subseteq Conns

\* Messages of c that a task has taken and not yet subtracted.
Taken(c) == Cardinality({t \in Tasks :
                \/ task[t].pc \in {"minus", "fin"} /\ task[t].cur = c
                \/ task[t].pc = "accepted" /\ c = Listener})

\* Every message in a mailbox is counted once: in rcvevent, or in the socket
\* number of a netconn that lwip_accept has not given its socket, or by the
\* event that is just coming; also for data that overtakes the accept. Only a
\* FIN that was announced a second time has no message.
EventsCounted ==
    \A c \in Conns :
      conn[c].st = "open" /\ ~conn[c].err =>
        (IF conn[c].socket >= 0 THEN sock[c].rcvevent ELSE -1 - conn[c].socket)
          + (IF tcpip.at = "event" /\ tcpip.conn = c THEN 1 ELSE 0)
          = Len(conn[c].mbox) + Taken(c) + (IF c \in told THEN 1 ELSE 0)

\* select leaves the semaphore of its task as it found it, whoever signalled
\* it and whenever: the same semaphore tells the task that the tcpip task has
\* finished a message, which would seem finished too early.
SemaphoreClean ==
    \A t \in Tasks :
      sem[t] => task[t].pc \in {"count", "rescan", "uncount", "drain"}

\* The task waits for a message that cannot come: the FIN was announced again
\* although it was taken out of the mailbox.
Stuck(t) == /\ task[t].pc = "fetch" /\ task[t].cur \in told
            /\ conn[task[t].cur].mbox = <<>>

\* No wake-up is lost: whatever arrives for a socket, its task takes it, to
\* the last byte, unless it waits for the second FIN.
ReadToEnd ==
    \A c \in Conns :
      (conn[c].mbox # <<>> \/ sock[c].left > 0)
        ~> \/ conn[c].mbox = <<>> /\ sock[c].left = 0
           \/ Stuck(Owner[c])
=============================================================================
