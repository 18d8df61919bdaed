---------------------------- MODULE SocketsProofs -----------------------------
(***************************************************************************)
(* Proofs about Sockets for every number of tasks and netconns, mailboxes  *)
(* of every size and everything the peers may send.                        *)
(***************************************************************************)
EXTENDS Sockets, FiniteSetTheorems, SequenceTheorems, TLAPS

Messages == [len : Nat, push : BOOLEAN]

\* The types of a netconn, a socket, the tcpip task and a task that selects.
ConnType == [st : {"none", "open", "closed"}, socket : Int,
             mbox : Seq(Conns \cup Messages), err : BOOLEAN, sent : Int, fin : BOOLEAN]
SockType == [rcvevent : Int, waiting : Int, left : Int, push : BOOLEAN]
TcpipType == [at : {"idle", "event", "walk", "null"}, conn : Conns,
              rest : Seq(Tasks), changed : BOOLEAN, null : BOOLEAN]
PCs == {"serve", "scan", "count", "rescan", "uncount", "drain", "last", "accept",
        "accepted", "alloc", "publish", "recv", "fetch", "minus", "copy", "fin", "return",
        "close"}
TaskType == [pc : PCs, todo : SUBSET Conns, ready : SUBSET Conns, cur : Conns,
             off : 0 .. RecvLen, how : {"scan", "woken", "timeout"}]

\* The shape of the state.
Shape ==
  /\ conn \in [Conns -> ConnType] /\ sock \in [Conns -> SockType]
  /\ tcpip \in TcpipType /\ task \in [Tasks -> TaskType]
  /\ list \in Seq(Tasks) /\ told \in SUBSET Conns
  /\ signalled \in [Tasks -> BOOLEAN] /\ sem \in [Tasks -> BOOLEAN]

-----------------------------------------------------------------------------
(* select and the semaphore *)

Enlisted(t) == \E i \in DOMAIN list : list[i] = t

\* A select_cb is in the list exactly while its task counts, scans again, waits
\* or uncounts; the tcpip task has only select_cbs of the list before it, unless
\* it knows that the list has changed. Only such a select_cb is signalled, and
\* a signal that the task took is not in the semaphore any more.
SelectInv ==
  /\ \A t \in Tasks :
       /\ Enlisted(t) <=> task[t].pc \in {"count", "rescan", "uncount"}
       /\ sem[t] => signalled[t]
       /\ signalled[t] => task[t].pc \in {"count", "rescan", "uncount", "drain"}
       /\ task[t].pc \in {"uncount", "drain"} /\ task[t].how = "woken" =>
            signalled[t] /\ ~sem[t]
  /\ \A i, j \in DOMAIN list : list[i] = list[j] => i = j
  /\ tcpip.at = "walk" /\ ~tcpip.changed =>
       \A i \in DOMAIN tcpip.rest : Enlisted(tcpip.rest[i])

-----------------------------------------------------------------------------
(* Who works on which socket *)

Accepting == {"accepted", "alloc", "publish"}
Reading == {"recv", "fetch", "minus", "copy", "fin", "return", "close"}
Selecting == {"scan", "count", "rescan", "uncount", "drain", "last"}

\* There is something to read, so a task may enter lwip_recvfrom or accept.
HasEvents(c) == sock[c].left > 0 \/ sock[c].rcvevent > 0

\* A task works on its own sockets; between the subtraction of an event and
\* the message that it stands for, the event is still there.
TaskOK(t) ==
  LET me == task[t]
  IN  /\ me.todo \subseteq Readset(t) /\ me.ready \subseteq Readset(t)
      /\ \A c \in me.ready : HasEvents(c)
      /\ me.pc \in Selecting => Readset(t) # {}
      /\ me.pc = "count" => me.todo # {}
      /\ me.pc \in {"accept", "accepted"} =>
           Owner[Listener] = t /\ sock[Listener].rcvevent > 0 /\ Listener \notin me.ready
      /\ me.pc \in Accepting =>
           /\ me.cur \in Incoming /\ Owner[me.cur] = t
           /\ conn[me.cur].st = "open" /\ conn[me.cur].socket < 0
      /\ me.pc = "publish" => sock[me.cur].rcvevent = 0
      /\ me.pc \in Reading =>
           me.cur \in Readset(t) \ me.ready /\ me.cur # Listener
      /\ me.pc = "recv" => HasEvents(me.cur)
      /\ me.pc \in {"fetch", "minus", "fin"} => sock[me.cur].rcvevent > 0

TaskInv == \A t \in Tasks : TaskOK(t)

\* select_waiting of a socket is 1 while its task's select has counted it.
Counted(t, c) ==
  /\ HasSocket(c)
  /\ \/ task[t].pc = "count" /\ c \notin task[t].todo
     \/ task[t].pc = "rescan"
     \/ task[t].pc = "uncount" /\ c \in task[t].todo

WaitingInv ==
  \A c \in Conns : sock[c].waiting = IF Counted(Owner[c], c) THEN 1 ELSE 0

-----------------------------------------------------------------------------
(* Mailboxes *)

\* The listening netconn stays; its mailbox holds netconns, the others' data.
\* A netconn that was not made yet has received nothing.
ConnInv ==
  /\ conn[Listener].st = "open" /\ conn[Listener].socket = 0 /\ sock[Listener].left = 0
  /\ Listener \notin told /\ ~conn[Listener].fin
  /\ conn[Listener].mbox \in Seq(Incoming)
  /\ \A c \in Conns :
       /\ conn[c].socket <= 0 /\ Len(conn[c].mbox) <= MboxSize
       /\ sock[c].rcvevent >= 0 /\ sock[c].left >= 0
       /\ c # Listener => conn[c].mbox \in Seq(Messages)
       /\ conn[c].st = "none" =>
            conn[c].socket = -1 /\ conn[c].mbox = <<>> /\ ~conn[c].fin /\ c \notin told

\* What the tcpip task works on exists; a NULL is only posted after an error.
TcpipInv ==
  /\ conn[tcpip.conn].st # "none"
  /\ tcpip.at = "null" => tcpip.null
  /\ tcpip.at = "idle" => ~tcpip.null
  /\ tcpip.null => tcpip.conn # Listener /\ conn[tcpip.conn].err

\* A netconn waits once to be accepted, and then has no socket and no task
\* works on it.
QueueInv ==
  LET queue == conn[Listener].mbox
  IN  \A i \in DOMAIN queue :
        /\ conn[queue[i]].st = "open" /\ conn[queue[i]].socket < 0
        /\ \A j \in DOMAIN queue : queue[j] = queue[i] => j = i
        /\ \A t \in Tasks : task[t].pc \in Accepting => task[t].cur # queue[i]

\* The task of c has taken its FIN, and not yet announced it again.
HasFin(c) == task[Owner[c]].pc = "fin" /\ task[Owner[c]].cur = c

\* There is one FIN, behind all data, and it is announced again once.
FinOK(c) ==
  conn[c].st = "open" /\ ~conn[c].err =>
    /\ c \in told \/ HasFin(c) => conn[c].fin
    /\ \A i \in DOMAIN conn[c].mbox :
         conn[c].mbox[i] = FIN =>
           i = Len(conn[c].mbox) /\ conn[c].fin /\ c \notin told /\ ~HasFin(c)
    /\ c \notin told \/ ~HasFin(c)

FinInv == \A c \in Conns \ {Listener} : FinOK(c)

\* The events counted for c, and the one that is just coming.
Events(c) == IF conn[c].socket >= 0 THEN sock[c].rcvevent ELSE -1 - conn[c].socket
Coming(c) == tcpip.at = "event" /\ tcpip.conn = c

\* The task of c has taken a message of it and not yet subtracted it.
Takes(c) ==
  LET me == task[Owner[c]]
  IN  \/ me.pc \in {"minus", "fin"} /\ me.cur = c
      \/ me.pc = "accepted" /\ c = Listener

Num(b) == IF b THEN 1 ELSE 0

\* EventsCounted, with what at most one task can have taken.
CountOK(c) ==
  conn[c].st = "open" /\ ~conn[c].err =>
    Events(c) + Num(Coming(c)) = Len(conn[c].mbox) + Num(Takes(c)) + Num(c \in told)

CountInv == \A c \in Conns : CountOK(c)

IInv == /\ Shape /\ SelectInv /\ TaskInv /\ WaitingInv /\ ConnInv /\ TcpipInv
        /\ QueueInv /\ FinInv /\ CountInv
-----------------------------------------------------------------------------
(* Lemmas *)

\* A set of naturals that is not empty has a least member, which Min returns.
LEMMA MinIs ==
  ASSUME NEW S \in SUBSET Nat, S # {} PROVE Min(S) \in S /\ \A x \in S : Min(S) <= x
<1>1. \E x \in S : \A y \in S : x <= y
  <2> DEFINE B == {0 .. (x - 1) : x \in S}
  <2>1. B \subseteq FiniteSubsetsOf(Nat) /\ B # {}
    <3>1. \A x \in S : 0 .. (x - 1) \subseteq Nat /\ IsFiniteSet(0 .. (x - 1))
      BY FS_Interval
    <3> QED BY <3>1 DEF FiniteSubsetsOf
  <2>2. PICK b \in B : \A d \in B : <<d, b>> \notin StrictSubsetOrdering(Nat)
    <3>1. IsWellFoundedOn(StrictSubsetOrdering(Nat), FiniteSubsetsOf(Nat))
      BY FS_StrictSubsetOrderingWellFounded
    <3> HIDE DEF B
    <3> QED BY <2>1, <3>1, WFMin
  <2>3. PICK x \in S : b = 0 .. (x - 1)
    BY <2>2
  <2>4. ASSUME NEW y \in S, y < x PROVE FALSE
    <3>1. 0 .. (y - 1) \in B /\ 0 .. (y - 1) \subseteq b /\ 0 .. (y - 1) # b /\ b \subseteq Nat
      BY <2>3, <2>4
    <3>2. <<0 .. (y - 1), b>> \in StrictSubsetOrdering(Nat)
      BY <3>1 DEF StrictSubsetOrdering
    <3> QED BY <2>2, <3>1, <3>2
  <2> QED BY <2>4
<1> QED BY <1>1 DEF Min

\* The loops over sockets visit a socket of their set.
LEMMA MinConn ==
  ASSUME NEW S \in SUBSET Conns, S # {} PROVE Min(S) \in S
  BY MinIs, SocketsAssumption

\* The smaller of two integers.
LEMMA MinPair ==
  ASSUME NEW a \in Int, NEW b \in Int
  PROVE  Min({a, b}) \in {a, b} /\ Min({a, b}) <= a /\ Min({a, b}) <= b
<1>1. \E x \in {a, b} : \A y \in {a, b} : x <= y
  OBVIOUS
<1> QED BY <1>1 DEF Min

\* What may arrive is a message; only the NULL is the FIN.
LEMMA ChunkIs ==
  /\ FIN \in Messages
  /\ \A c \in Conns : \A p \in Chunks[c] : p \in Messages /\ p # FIN
<1>1. FIN \in Messages /\ FIN.len = 0
  BY DEF FIN, Messages
<1>2. ASSUME NEW c \in Conns, NEW p \in Chunks[c] PROVE p \in Messages /\ p.len > 0
  <2>1. p \in [len : 1 .. 2 * RecvLen, push : BOOLEAN]
    BY SocketsAssumption
  <2>2. RecvLen \in Nat
    BY SocketsAssumption
  <2> QED BY <2>1, <2>2 DEF Messages
<1> QED BY <1>1, <1>2

\* A message appended to a mailbox, and the mailbox without its first one.
LEMMA MboxIs ==
  ASSUME NEW M, NEW s \in Seq(M)
  PROVE  /\ Len(s) \in Nat /\ DOMAIN s = 1 .. Len(s)
         /\ \A p \in M : /\ Append(s, p) \in Seq(M) /\ Len(Append(s, p)) = Len(s) + 1
                         /\ DOMAIN Append(s, p) = 1 .. Len(s) + 1
                         /\ \A i \in 1 .. Len(s) : Append(s, p)[i] = s[i]
                         /\ Append(s, p)[Len(s) + 1] = p
         /\ s # <<>> =>
              /\ Head(s) \in M /\ Head(s) = s[1] /\ Tail(s) \in Seq(M)
              /\ Len(s) > 0 /\ Len(Tail(s)) = Len(s) - 1
              /\ DOMAIN Tail(s) = 1 .. Len(s) - 1
              /\ \A i \in 1 .. Len(s) - 1 : Tail(s)[i] = s[i + 1]
<1>1. \A p \in M : Append(s, p) \in Seq(M) /\ Len(Append(s, p)) = Len(s) + 1
                   /\ DOMAIN Append(s, p) = 1 .. Len(s) + 1
                   /\ \A i \in 1 .. Len(s) : Append(s, p)[i] = s[i]
                   /\ Append(s, p)[Len(s) + 1] = p
  BY AppendProperties, LenProperties
<1>2. ASSUME s # <<>>
      PROVE  /\ Head(s) \in M /\ Head(s) = s[1] /\ Tail(s) \in Seq(M)
             /\ Len(s) > 0 /\ Len(Tail(s)) = Len(s) - 1
             /\ DOMAIN Tail(s) = 1 .. Len(s) - 1
             /\ \A i \in 1 .. Len(s) - 1 : Tail(s)[i] = s[i + 1]
  <2>1. Head(s) \in M /\ Tail(s) \in Seq(M) /\ Len(Tail(s)) = Len(s) - 1
        /\ \A i \in 1 .. Len(Tail(s)) : Tail(s)[i] = s[i + 1]
    BY <1>2, HeadTailProperties
  <2>2. Len(s) > 0 /\ Head(s) = s[1]
    BY <1>2, EmptySeq, LenProperties
  <2>3. DOMAIN Tail(s) = 1 .. Len(Tail(s))
    BY <2>1, LenProperties
  <2> QED BY <2>1, <2>2, <2>3
<1> QED BY <1>1, <1>2, LenProperties

-----------------------------------------------------------------------------
(* The shape is kept. *)

\* The elements of the types of Shape, with a field changed.
LEMMA NewValues ==
  /\ NewSock \in SockType
  /\ \A st \in {"none", "open", "closed"}, n \in Int :
       NewConn(st, n) \in ConnType
  /\ Idle \in TcpipType
  /\ \A ready \in SUBSET Conns :
       Between(ready) \in TaskType
<1>1. Listener \in Conns /\ RecvLen \in Nat
  BY SocketsAssumption
<1>2. NewSock \in SockType
  BY DEF NewSock, SockType
<1>3. ASSUME NEW st \in {"none", "open", "closed"}, NEW n \in Int PROVE NewConn(st, n) \in ConnType
  BY EmptySeq DEF NewConn, ConnType
<1>4. Idle \in TcpipType
  BY <1>1, EmptySeq DEF Idle, TcpipType
<1>5. ASSUME NEW ready \in SUBSET Conns PROVE Between(ready) \in TaskType
  BY <1>1, <1>5 DEF Between, TaskType, PCs
<1> QED BY <1>2, <1>3, <1>4, <1>5

LEMMA InitShape == Init => Shape
<1> SUFFICES ASSUME Init PROVE Shape
  OBVIOUS
<1>1. \A s \in {"none", "open"}, n \in {-1, 0} :
        NewConn(s, n) \in ConnType
  BY NewValues
<1>2. conn \in [Conns -> ConnType]
  BY <1>1 DEF Init
<1>3. sock \in [Conns -> SockType] /\ task \in [Tasks -> TaskType]
  BY NewValues DEF Init
<1> QED BY <1>2, <1>3, NewValues, EmptySeq DEF Init, Shape

\* Fields of a netconn and of a socket are given new values.
LEMMA ConnUpdate ==
  ASSUME NEW f \in [Conns -> ConnType], NEW c \in Conns
  PROVE  /\ \A n \in Int : [f EXCEPT ![c].socket = n] \in [Conns -> ConnType]
         /\ \A m \in Seq(Conns \cup Messages) :
              [f EXCEPT ![c].mbox = m] \in [Conns -> ConnType]
         /\ [f EXCEPT ![c].st = "open"] \in [Conns -> ConnType]
         /\ \A m \in Seq(Conns \cup Messages), e \in BOOLEAN, n \in Int :
              [f EXCEPT ![c].mbox = m, ![c].fin = e, ![c].sent = n] \in [Conns -> ConnType]
         /\ \A m \in Seq(Conns \cup Messages), d \in Conns \ {c} :
              [f EXCEPT ![c].st = "open", ![d].mbox = m] \in [Conns -> ConnType]
<1>1. ASSUME NEW n \in Int PROVE [f EXCEPT ![c].socket = n] \in [Conns -> ConnType]
  BY DEF ConnType
<1>2. ASSUME NEW m \in Seq(Conns \cup Messages)
      PROVE [f EXCEPT ![c].mbox = m] \in [Conns -> ConnType]
  BY DEF ConnType
<1>3. [f EXCEPT ![c].st = "open"] \in [Conns -> ConnType]
  BY DEF ConnType
<1>4. ASSUME NEW m \in Seq(Conns \cup Messages), NEW e \in BOOLEAN, NEW n \in Int
      PROVE [f EXCEPT ![c].mbox = m, ![c].fin = e, ![c].sent = n] \in [Conns -> ConnType]
  BY ZenonT(60) DEF ConnType
<1>5. ASSUME NEW m \in Seq(Conns \cup Messages), NEW d \in Conns \ {c}
      PROVE [f EXCEPT ![c].st = "open", ![d].mbox = m] \in [Conns -> ConnType]
  <2> DEFINE g == [f EXCEPT ![c].st = "open"]
  <2>1. g \in [Conns -> ConnType]
    BY <1>3
  <2>2. [f EXCEPT ![c].st = "open", ![d].mbox = m] = [g EXCEPT ![d].mbox = m]
    OBVIOUS
  <2>3. d \in Conns
    OBVIOUS
  <2> HIDE DEF g
  <2>4. [g EXCEPT ![d].mbox = m] \in [Conns -> ConnType]
    BY <2>1, <2>3 DEF ConnType
  <2> QED BY <2>2, <2>4
<1> QED BY <1>1, <1>2, <1>3, <1>4, <1>5

LEMMA SockUpdate ==
  ASSUME NEW f \in [Conns -> SockType], NEW c \in Conns
  PROVE  /\ \A n \in Int : [f EXCEPT ![c].rcvevent = n] \in [Conns -> SockType]
         /\ \A n \in Int : [f EXCEPT ![c].waiting = n] \in [Conns -> SockType]
         /\ \A n \in Int, e \in BOOLEAN :
              [f EXCEPT ![c].left = n, ![c].push = e] \in [Conns -> SockType]
         /\ [f EXCEPT ![c] = NewSock] \in [Conns -> SockType]
<1>1. ASSUME NEW n \in Int PROVE [f EXCEPT ![c].rcvevent = n] \in [Conns -> SockType]
  BY DEF SockType
<1>2. ASSUME NEW n \in Int PROVE [f EXCEPT ![c].waiting = n] \in [Conns -> SockType]
  BY DEF SockType
<1>3. ASSUME NEW n \in Int, NEW e \in BOOLEAN
      PROVE [f EXCEPT ![c].left = n, ![c].push = e] \in [Conns -> SockType]
  BY DEF SockType
<1> QED BY <1>1, <1>2, <1>3, NewValues

\* One round of the tcpip task's loop over the list.
LEMMA VisitShape ==
  ASSUME Shape, NEW c \in Conns, NEW rest \in Seq(Tasks), Visit(c, rest)
  PROVE  /\ tcpip' \in TcpipType
         /\ signalled' \in [Tasks -> BOOLEAN] /\ sem' \in [Tasks -> BOOLEAN]
<1>1. /\ tcpip \in TcpipType
      /\ signalled \in [Tasks -> BOOLEAN] /\ sem \in [Tasks -> BOOLEAN]
  BY DEF Shape
<1>2. CASE rest = <<>>
  <2>1. EventDone /\ UNCHANGED <<signalled, sem>>
    BY <1>2 DEF Visit
  <2>2. tcpip' \in TcpipType
    BY <1>1, <2>1, NewValues DEF EventDone, TcpipType
  <2> QED BY <1>1, <2>1, <2>2
<1>3. CASE rest # <<>>
  <2>1. Head(rest) \in Tasks /\ Tail(rest) \in Seq(Tasks)
    BY <1>3, HeadTailProperties
  <2> DEFINE sig == ~signalled[Head(rest)] /\ sock'[c].rcvevent > 0
                      /\ c \in Readset(Head(rest))
  <2>2. /\ signalled' = [signalled EXCEPT ![Head(rest)] = @ \/ sig]
        /\ sem' = [sem EXCEPT ![Head(rest)] = @ \/ sig]
        /\ tcpip' = [tcpip EXCEPT !.at = "walk", !.rest = Tail(rest), !.changed = FALSE]
    BY <1>3 DEF Visit
  <2> HIDE DEF sig
  <2>3. tcpip' \in TcpipType
    BY <1>1, <2>1, <2>2 DEF TcpipType
  <2> QED BY <1>1, <2>1, <2>2, <2>3
<1> QED BY <1>2, <1>3

\* The tcpip task.
LEMMA TcpipShape == Shape /\ Tcpip => Shape'
<1> SUFFICES ASSUME Shape, Tcpip PROVE Shape'
  OBVIOUS
<1>1. /\ conn \in [Conns -> ConnType] /\ sock \in [Conns -> SockType]
      /\ tcpip \in TcpipType /\ task \in [Tasks -> TaskType]
      /\ list \in Seq(Tasks) /\ told \in SUBSET Conns
      /\ signalled \in [Tasks -> BOOLEAN] /\ sem \in [Tasks -> BOOLEAN]
      /\ tcpip.conn \in Conns /\ tcpip.rest \in Seq(Tasks)
  BY DEF Shape, TcpipType
<1>2. CASE EventCallback
  <2>1. UNCHANGED <<task, list, told>>
    BY <1>2 DEF EventCallback
  <2>2. CASE conn[tcpip.conn].socket < 0
    <3>1. /\ conn' = [conn EXCEPT ![tcpip.conn].socket = @ - 1]
          /\ EventDone /\ UNCHANGED <<sock, signalled, sem>>
      BY <1>2, <2>2 DEF EventCallback
    <3>2. tcpip' \in TcpipType
      BY <1>1, <3>1, NewValues DEF EventDone, TcpipType
    <3>3. conn' \in [Conns -> ConnType]
      <4> DEFINE n == conn[tcpip.conn].socket - 1
      <4>1. n \in Int /\ conn' = [conn EXCEPT ![tcpip.conn].socket = n]
        BY <1>1, <3>1 DEF ConnType
      <4> HIDE DEF n
      <4> QED BY <1>1, <4>1, ConnUpdate
    <3> QED BY <1>1, <2>1, <3>1, <3>2, <3>3 DEF Shape
  <2>3. CASE ~(conn[tcpip.conn].socket < 0)
    <3> DEFINE rest == IF sock[tcpip.conn].waiting = 0 THEN <<>> ELSE list
    <3>1. rest \in Seq(Tasks) /\ Visit(tcpip.conn, rest)
      BY <1>1, <1>2, <2>3, EmptySeq DEF EventCallback
    <3>2. sock' = [sock EXCEPT ![tcpip.conn].rcvevent = @ + 1] /\ UNCHANGED conn
      BY <1>2, <2>3 DEF EventCallback
    <3> HIDE DEF rest
    <3>3. sock' \in [Conns -> SockType]
      <4>1. sock[tcpip.conn].rcvevent + 1 \in Int
        BY <1>1 DEF SockType
      <4> QED BY <1>1, <3>2, <4>1, SockUpdate
    <3>4. /\ tcpip' \in TcpipType
          /\ signalled' \in [Tasks -> BOOLEAN] /\ sem' \in [Tasks -> BOOLEAN]
      BY <1>1, <3>1, VisitShape
    <3> QED BY <1>1, <2>1, <3>2, <3>3, <3>4 DEF Shape
  <2> QED BY <2>2, <2>3
<1>3. CASE WalkOn
  <2> DEFINE rest == IF tcpip.changed THEN list ELSE tcpip.rest
  <2>1. rest \in Seq(Tasks) /\ Visit(tcpip.conn, rest)
    BY <1>1, <1>3 DEF WalkOn
  <2>2. UNCHANGED <<conn, sock, task, list, told>>
    BY <1>3 DEF WalkOn
  <2> HIDE DEF rest
  <2>3. /\ tcpip' \in TcpipType
        /\ signalled' \in [Tasks -> BOOLEAN] /\ sem' \in [Tasks -> BOOLEAN]
    BY <1>1, <2>1, VisitShape
  <2> QED BY <1>1, <2>2, <2>3 DEF Shape
<1>4. CASE PostNull
  <2> DEFINE c == tcpip.conn
             new == IF HasRoom(c) THEN Append(conn[c].mbox, FIN) ELSE conn[c].mbox
  <2>1. conn[c].mbox \in Seq(Conns \cup Messages) /\ FIN \in Conns \cup Messages
    BY <1>1, ChunkIs DEF ConnType
  <2>2. new \in Seq(Conns \cup Messages)
    BY <2>1, AppendProperties
  <2>3. conn' = [conn EXCEPT ![c].mbox = new] /\ tcpip' = Idle
        /\ UNCHANGED <<sock, task, list, signalled, sem, told>>
    BY <1>4 DEF PostNull, selects
  <2> HIDE DEF new
  <2>4. conn' \in [Conns -> ConnType]
    BY <1>1, <2>2, <2>3, ConnUpdate
  <2> QED BY <1>1, <2>3, <2>4, NewValues DEF Shape
<1> QED BY <1>2, <1>3, <1>4 DEF Tcpip

\* An event is to come for c.
LEMMA EventShape ==
  ASSUME NEW c \in Conns, NEW null \in BOOLEAN
  PROVE  [Idle EXCEPT !.at = "event", !.conn = c, !.null = null] \in TcpipType
         /\ [Idle EXCEPT !.at = "event", !.conn = c] \in TcpipType
  BY NewValues DEF TcpipType

\* The network.
LEMMA NetworkShape == Shape /\ Network => Shape'
<1> SUFFICES ASSUME Shape, Network PROVE Shape'
  OBVIOUS
<1>1. conn \in [Conns -> ConnType] /\ tcpip \in TcpipType /\ Listener \in Conns
  BY SocketsAssumption DEF Shape
<1>2. ASSUME NEW c \in Conns, NEW p \in Chunks[c] \cup {FIN}, RecvTcp(c, p) PROVE Shape'
  <2> DEFINE new == Append(conn[c].mbox, p)
             fin == p = FIN
             sent == IF p = FIN THEN conn[c].sent ELSE conn[c].sent + 1
  <2>1. conn[c].mbox \in Seq(Conns \cup Messages) /\ p \in Conns \cup Messages
        /\ conn[c].sent \in Int
    BY <1>1, ChunkIs DEF ConnType
  <2>2. new \in Seq(Conns \cup Messages) /\ fin \in BOOLEAN /\ sent \in Int
    BY <2>1, AppendProperties
  <2>3. /\ conn' = [conn EXCEPT ![c].mbox = new, ![c].fin = fin, ![c].sent = sent]
        /\ tcpip' = [Idle EXCEPT !.at = "event", !.conn = c]
        /\ UNCHANGED <<sock, task, list, signalled, sem, told>>
    BY <1>1, <1>2 DEF RecvTcp, selects
  <2> HIDE DEF new, fin, sent
  <2>4. conn' \in [Conns -> ConnType]
    BY <1>1, <2>2, <2>3, ConnUpdate
  <2> QED BY <2>3, <2>4, EventShape DEF Shape
<1>3. ASSUME NEW c \in Conns, AcceptFunction(c) PROVE Shape'
  <2> DEFINE new == Append(conn[Listener].mbox, c)
  <2>1. new \in Seq(Conns \cup Messages)
    BY <1>1, AppendProperties DEF ConnType
  <2>2. /\ conn' = [conn EXCEPT ![c].st = "open", ![Listener].mbox = new]
        /\ tcpip' = [Idle EXCEPT !.at = "event", !.conn = Listener]
        /\ UNCHANGED <<sock, task, list, signalled, sem, told>>
    <3>1. c # Listener
      BY <1>3, SocketsAssumption DEF AcceptFunction
    <3> QED BY <1>1, <1>3, <3>1 DEF AcceptFunction, selects
  <2> HIDE DEF new
  <2>3. conn' \in [Conns -> ConnType]
    <3>1. Listener \in Conns \ {c}
      BY <1>1, <1>3, SocketsAssumption DEF AcceptFunction
    <3>2. [conn EXCEPT ![c].st = "open", ![Listener].mbox = new] \in [Conns -> ConnType]
      BY <1>1, <2>1, <3>1, ConnUpdate
    <3> QED BY <2>2, <3>2
  <2> QED BY <1>1, <2>2, <2>3, EventShape DEF Shape
<1>4. ASSUME NEW c \in Conns, ErrTcp(c) PROVE Shape'
  <2>1. /\ conn' = [conn EXCEPT ![c].err = TRUE]
        /\ tcpip' = [Idle EXCEPT !.at = "event", !.conn = c, !.null = TRUE]
        /\ UNCHANGED <<sock, task, list, signalled, sem, told>>
    BY <1>4 DEF ErrTcp, selects
  <2>2. conn' \in [Conns -> ConnType]
    BY <1>1, <2>1 DEF ConnType
  <2> QED BY <2>1, <2>2, EventShape DEF Shape
<1> QED BY <1>2, <1>3, <1>4 DEF Network

\* Variables of a task are given new values.
LEMMA TaskUpdate ==
  ASSUME NEW f \in [Tasks -> TaskType], NEW t \in Tasks
  PROVE  /\ \A pc \in PCs : [f EXCEPT ![t].pc = pc] \in [Tasks -> TaskType]
         /\ \A S \in SUBSET Conns : [f EXCEPT ![t].todo = S] \in [Tasks -> TaskType]
         /\ \A pc \in PCs, S \in SUBSET Conns, how \in {"scan", "woken", "timeout"} :
              [f EXCEPT ![t].pc = pc, ![t].todo = S, ![t].ready = {}, ![t].how = how]
                \in [Tasks -> TaskType]
         /\ \A S, U \in SUBSET Conns :
              [f EXCEPT ![t] = [@ EXCEPT !.todo = S, !.ready = U]] \in [Tasks -> TaskType]
         /\ \A S \in SUBSET Conns : [f EXCEPT ![t] = Between(S)] \in [Tasks -> TaskType]
         /\ \A S \in SUBSET Conns, c \in Conns, pc \in PCs :
              [f EXCEPT ![t].ready = S, ![t].cur = c, ![t].off = 0, ![t].pc = pc]
                \in [Tasks -> TaskType]
         /\ \A c \in Conns, pc \in PCs :
              [f EXCEPT ![t].pc = pc, ![t].cur = c] \in [Tasks -> TaskType]
         /\ \A n \in 0 .. RecvLen, pc \in PCs :
              [f EXCEPT ![t].off = n, ![t].pc = pc] \in [Tasks -> TaskType]
<1>1. ASSUME NEW pc \in PCs PROVE [f EXCEPT ![t].pc = pc] \in [Tasks -> TaskType]
  BY DEF TaskType
<1>2. ASSUME NEW S \in SUBSET Conns PROVE [f EXCEPT ![t].todo = S] \in [Tasks -> TaskType]
  BY DEF TaskType
<1>3. ASSUME NEW pc \in PCs, NEW S \in SUBSET Conns, NEW how \in {"scan", "woken", "timeout"}
      PROVE  [f EXCEPT ![t].pc = pc, ![t].todo = S, ![t].ready = {}, ![t].how = how]
                \in [Tasks -> TaskType]
  <2> DEFINE g == [f EXCEPT ![t].pc = pc, ![t].todo = S]
  <2>1. g \in [Tasks -> TaskType]
    BY DEF TaskType
  <2>2. [f EXCEPT ![t].pc = pc, ![t].todo = S, ![t].ready = {}, ![t].how = how]
          = [g EXCEPT ![t].ready = {}, ![t].how = how]
    OBVIOUS
  <2> HIDE DEF g
  <2>3. [g EXCEPT ![t].ready = {}, ![t].how = how] \in [Tasks -> TaskType]
    BY <2>1, ZenonT(60) DEF TaskType
  <2> QED BY <2>2, <2>3
<1>4. ASSUME NEW S \in SUBSET Conns, NEW U \in SUBSET Conns
      PROVE  [f EXCEPT ![t] = [@ EXCEPT !.todo = S, !.ready = U]] \in [Tasks -> TaskType]
  BY DEF TaskType
<1>5. ASSUME NEW S \in SUBSET Conns PROVE [f EXCEPT ![t] = Between(S)] \in [Tasks -> TaskType]
  BY NewValues
<1>6. ASSUME NEW S \in SUBSET Conns, NEW c \in Conns, NEW pc \in PCs
      PROVE  [f EXCEPT ![t].ready = S, ![t].cur = c, ![t].off = 0, ![t].pc = pc]
                \in [Tasks -> TaskType]
  <2> DEFINE g == [f EXCEPT ![t].ready = S, ![t].cur = c]
  <2>1. 0 \in 0 .. RecvLen
    BY SocketsAssumption
  <2>2. g \in [Tasks -> TaskType]
    BY DEF TaskType
  <2>3. [f EXCEPT ![t].ready = S, ![t].cur = c, ![t].off = 0, ![t].pc = pc]
          = [g EXCEPT ![t].off = 0, ![t].pc = pc]
    OBVIOUS
  <2> HIDE DEF g
  <2>4. [g EXCEPT ![t].off = 0, ![t].pc = pc] \in [Tasks -> TaskType]
    BY <2>1, <2>2, ZenonT(60) DEF TaskType
  <2> QED BY <2>3, <2>4
<1>7. ASSUME NEW c \in Conns, NEW pc \in PCs
      PROVE  [f EXCEPT ![t].pc = pc, ![t].cur = c] \in [Tasks -> TaskType]
  BY DEF TaskType
<1>8. ASSUME NEW n \in 0 .. RecvLen, NEW pc \in PCs
      PROVE  [f EXCEPT ![t].off = n, ![t].pc = pc] \in [Tasks -> TaskType]
  BY DEF TaskType
<1> QED BY <1>1, <1>2, <1>3, <1>4, <1>5, <1>6, <1>7, <1>8

\* What a task is between two steps, and the steps of the same form.
LEMMA TaskFacts ==
  ASSUME Shape, NEW t \in Tasks
  PROVE  /\ conn \in [Conns -> ConnType] /\ sock \in [Conns -> SockType]
         /\ task \in [Tasks -> TaskType] /\ task[t] \in TaskType /\ task[t].pc \in PCs
         /\ task[t].todo \in SUBSET Conns /\ task[t].ready \in SUBSET Conns
         /\ task[t].cur \in Conns /\ task[t].off \in 0 .. RecvLen
         /\ Readset(t) \in SUBSET Conns
         /\ Returns(t) => task' \in [Tasks -> TaskType]
         /\ \A pc \in PCs : Goto(t, pc) => task' \in [Tasks -> TaskType]
         /\ \A pc \in PCs, how \in {"scan", "woken", "timeout"} :
              Loop(t, pc, how) => task' \in [Tasks -> TaskType]
         /\ \A c \in Conns, d \in Int :
              OwnEvent(c, d) => sock' \in [Conns -> SockType]
<1>1. /\ conn \in [Conns -> ConnType] /\ sock \in [Conns -> SockType]
      /\ task \in [Tasks -> TaskType] /\ task[t] \in TaskType /\ task[t].pc \in PCs
      /\ task[t].todo \in SUBSET Conns /\ task[t].ready \in SUBSET Conns
      /\ task[t].cur \in Conns /\ task[t].off \in 0 .. RecvLen
      /\ Readset(t) \in SUBSET Conns
  BY DEF Shape, TaskType, Readset
<1>2. Returns(t) => task' \in [Tasks -> TaskType]
  <2>1. [task EXCEPT ![t] = Between(task[t].ready)] \in [Tasks -> TaskType]
    BY <1>1, TaskUpdate, ZenonT(60)
  <2> QED BY <2>1, SMTT(30) DEF Returns
<1>3. ASSUME NEW pc \in PCs, Goto(t, pc) PROVE task' \in [Tasks -> TaskType]
  BY <1>1, <1>3, TaskUpdate, ZenonT(60) DEF Goto
<1>4. ASSUME NEW pc \in PCs, NEW how \in {"scan", "woken", "timeout"}, Loop(t, pc, how)
      PROVE task' \in [Tasks -> TaskType]
  <2>1. [task EXCEPT ![t].pc = pc, ![t].todo = Readset(t), ![t].ready = {}, ![t].how = how]
          \in [Tasks -> TaskType]
    BY <1>1, TaskUpdate, ZenonT(60)
  <2> QED BY <1>4, <2>1 DEF Loop
<1>5. ASSUME NEW c \in Conns, NEW d \in Int, OwnEvent(c, d) PROVE sock' \in [Conns -> SockType]
  <2> DEFINE n == sock[c].rcvevent + d
  <2>1. n \in Int /\ sock' = [sock EXCEPT ![c].rcvevent = n]
    BY <1>1, <1>5 DEF OwnEvent, SockType
  <2> HIDE DEF n
  <2> QED BY <1>1, <2>1, SockUpdate
<1> QED BY <1>1, <1>2, <1>3, <1>4, <1>5

\* A netconn that is deleted.
LEMMA DeletedShape ==
  ASSUME Shape, NEW c \in Conns PROVE Deleted(c) \in [Conns -> ConnType]
<1>1. NewConn("closed", -1) \in ConnType /\ conn \in [Conns -> ConnType]
  BY NewValues DEF Shape
<1> QED BY <1>1 DEF Deleted

\* A message is taken out of a mailbox.
LEMMA TakenShape ==
  ASSUME Shape, NEW c \in Conns, conn[c].mbox # <<>>
  PROVE  [conn EXCEPT ![c].mbox = Tail(@)] \in [Conns -> ConnType]
<1>1. conn \in [Conns -> ConnType] /\ conn[c].mbox \in Seq(Conns \cup Messages)
  BY DEF Shape, ConnType
<1>2. Tail(conn[c].mbox) \in Seq(Conns \cup Messages)
  BY <1>1, HeadTailProperties
<1> QED BY <1>1, <1>2, ConnUpdate

\* select's bookkeeping: the list with a new first element, or without one.
LEMMA ListIs ==
  ASSUME NEW t \in Tasks, list \in Seq(Tasks)
  PROVE  /\ <<t>> \o list \in Seq(Tasks)
         /\ DOMAIN (<<t>> \o list) = 1 .. Len(list) + 1
         /\ (<<t>> \o list)[1] = t
         /\ \A i \in 1 .. Len(list) : (<<t>> \o list)[i + 1] = list[i]
         /\ DOMAIN list = 1 .. Len(list) /\ Len(list) \in Nat
         /\ Unlinked(t) \in Seq(Tasks)
<1>1. <<t>> \in Seq(Tasks) /\ Len(<<t>>) = 1 /\ <<t>>[1] = t
  OBVIOUS
<1>2. DOMAIN list = 1 .. Len(list) /\ Len(list) \in Nat /\ \A i \in 1 .. Len(list) : list[i] \in Tasks
  BY LenProperties, ElementOfSeq
<1>3. /\ <<t>> \o list \in Seq(Tasks) /\ Len(<<t>> \o list) = 1 + Len(list)
      /\ \A i \in 1 .. 1 + Len(list) :
           (<<t>> \o list)[i] = IF i <= 1 THEN <<t>>[i] ELSE list[i - 1]
  <2> HIDE DEF Enlisted
  <2> QED BY <1>1, <1>2, ConcatProperties, Zenon
<1>4. DOMAIN (<<t>> \o list) = 1 .. Len(list) + 1
  BY <1>2, <1>3, LenProperties
<1> DEFINE both == <<t>> \o list
<1>5. both[1] = t /\ \A i \in 1 .. Len(list) : both[i + 1] = list[i]
  <2> DEFINE one == <<t>>
  <2>1. one[1] = t /\ \A i \in 1 .. 1 + Len(list) : both[i] = IF i <= 1 THEN one[i] ELSE list[i - 1]
    BY <1>1, <1>3
  <2> HIDE DEF both, one
  <2> QED BY <1>2, <2>1
<1>6. Unlinked(t) \in Seq(Tasks)
  <2> DEFINE p == CHOOSE i \in DOMAIN list : list[i] = t
             n == Len(list) - 1
             u == [i \in 1 .. n |-> IF i < p THEN list[i] ELSE list[i + 1]]
  <2>1. u = Unlinked(t)
    BY DEF Unlinked
  <2> HIDE DEF p
  <2>2. \A i \in 1 .. n : u[i] \in Tasks
    BY <1>2
  <2>3. CASE n \in Nat
    <3> HIDE DEF n
    <3>1. \A i \in 1 .. n : u[i] \in Tasks
      BY <2>2
    <3> QED BY <2>1, <2>3, <3>1, IsASeq DEF n
  <2>4. CASE n = -1
    <3>1. 1 .. n = {} /\ DOMAIN u = 1 .. 0
      BY <2>4
    <3>2. u \in [1 .. 0 -> Tasks]
      BY <3>1
    <3> QED BY <2>1, <3>2, SeqDef
  <2> QED BY <1>2, <2>3, <2>4
<1> HIDE DEF both
<1> QED BY <1>2, <1>3, <1>4, <1>5, <1>6 DEF both

\* lwip_select.
LEMMA SelectShape ==
  ASSUME Shape, TaskInv, NEW t \in Tasks, Select(t) PROVE Shape'
<1>0. /\ conn \in [Conns -> ConnType] /\ sock \in [Conns -> SockType]
      /\ task \in [Tasks -> TaskType] /\ task[t].cur \in Conns
      /\ task[t].todo \in SUBSET Conns /\ task[t].ready \in SUBSET Conns
  BY TaskFacts
<1>1. /\ tcpip \in TcpipType /\ list \in Seq(Tasks) /\ told \in SUBSET Conns
      /\ signalled \in [Tasks -> BOOLEAN] /\ sem \in [Tasks -> BOOLEAN]
  BY DEF Shape
<1>2. [tcpip EXCEPT !.changed = (tcpip.at = "walk")] \in TcpipType
  <2>1. (tcpip.at = "walk") \in BOOLEAN
    OBVIOUS
  <2> QED BY <1>0, <1>1, <2>1 DEF TcpipType
<1>3. CASE SelScan(t)
  <2> DEFINE c == Min(task[t].todo)
             ready == task[t].ready \cup
                        (IF sock[c].left > 0 \/ sock[c].rcvevent > 0 THEN {c} ELSE {})
  <2>1. c \in Conns /\ ready \in SUBSET Conns /\ task[t].todo \ {c} \in SUBSET Conns
    BY <1>0, <1>3, MinConn DEF SelScan
  <2>2. /\ \/ task' = [task EXCEPT ![t] = Between(ready)]
           \/ task' = [task EXCEPT ![t] = [@ EXCEPT !.todo = task[t].todo \ {c}, !.ready = ready]]
        /\ UNCHANGED <<conn, sock, tcpip, list, signalled, sem, told>>
    <3> DEFINE done == /\ task[t].todo = {c}
                       /\ task[t].pc = "last" \/ (task[t].pc = "scan" /\ ready # {})
    <3>1. /\ task' = [task EXCEPT ![t] =
                        IF done THEN Between(ready)
                        ELSE [@ EXCEPT !.todo = task[t].todo \ {c}, !.ready = ready]]
          /\ UNCHANGED <<conn, sock, tcpip, list, signalled, sem, told>>
      BY <1>3 DEF SelScan, selects
    <3> HIDE DEF done, c, ready
    <3>2. CASE done
      BY <3>1, <3>2
    <3>3. CASE ~done
      BY <3>1, <3>3
    <3> QED BY <3>2, <3>3
  <2> HIDE DEF c, ready
  <2>3. task' \in [Tasks -> TaskType]
    <3> DEFINE S == task[t].todo \ {c}
    <3>1. S \in SUBSET Conns
      BY <1>0, <2>1
    <3>2. CASE task' = [task EXCEPT ![t] = Between(ready)]
      BY <1>0, <2>1, <3>2, NewValues
    <3>3. CASE task' = [task EXCEPT ![t] = [@ EXCEPT !.todo = S, !.ready = ready]]
      <4> HIDE DEF S
      <4>1. [task EXCEPT ![t] = [@ EXCEPT !.todo = S, !.ready = ready]] \in [Tasks -> TaskType]
        BY <1>0, <2>1, <3>1, TaskUpdate
      <4> QED BY <1>0, <3>3, <4>1
    <3> QED BY <1>0, <2>2, <3>2, <3>3
  <2> QED BY <1>0, <1>1, <2>2, <2>3 DEF Shape
<1>4. CASE Enlist(t)
  <2>1. Loop(t, "count", "scan") /\ UNCHANGED <<conn, sock, signalled, sem, told>>
        /\ list' = <<t>> \o list /\ tcpip' = [tcpip EXCEPT !.changed = (tcpip.at = "walk")]
    BY <1>0, <1>4 DEF Enlist
  <2>2. list' \in Seq(Tasks)
    BY <1>0, <1>1, <2>1, ListIs
  <2>3. task' \in [Tasks -> TaskType]
    BY TaskFacts, <2>1 DEF PCs
  <2> QED BY <1>0, <1>1, <1>2, <2>1, <2>2, <2>3 DEF Shape
<1>5. CASE Count(t)
  <2> DEFINE c == Min(task[t].todo)
             n == sock[c].waiting + 1
  <2>1. c \in Conns
    BY <1>0, <1>5, MinConn DEF Count, TaskInv, TaskOK
  <2>2. n \in Int /\ sock' = [sock EXCEPT ![c].waiting = n]
        /\ UNCHANGED <<conn, tcpip, list, signalled, sem, told>>
    BY <1>0, <1>5, <2>1 DEF Count, selects, SockType
  <2>3. \/ Loop(t, "rescan", "scan")
        \/ task' = [task EXCEPT ![t].todo = task[t].todo \ {c}]
    BY <1>0, <1>5 DEF Count
  <2> HIDE DEF c, n
  <2>4. sock' \in [Conns -> SockType]
    BY <1>0, <2>1, <2>2, SockUpdate
  <2>5. task' \in [Tasks -> TaskType]
    <3> DEFINE S == task[t].todo \ {c}
    <3>1. [task EXCEPT ![t].todo = S] \in [Tasks -> TaskType]
      <4>1. S \in SUBSET Conns
        BY <1>0
      <4> HIDE DEF S
      <4> QED BY <1>0, <4>1, TaskUpdate
    <3> QED BY TaskFacts, <2>3, <3>1 DEF PCs
  <2> QED BY <1>0, <1>1, <2>2, <2>4, <2>5 DEF Shape
<1>6. CASE SemWait(t)
  <2>1. \/ Loop(t, "uncount", "woken") \/ Loop(t, "uncount", "timeout")
        \/ Loop(t, "uncount", "scan")
    BY <1>0, <1>6 DEF SemWait
  <2>2. /\ sem' = [sem EXCEPT ![t] = FALSE] \/ UNCHANGED sem
        /\ UNCHANGED <<conn, sock, tcpip, list, signalled, told>>
    BY <1>0, <1>6 DEF SemWait
  <2>3. task' \in [Tasks -> TaskType]
    BY TaskFacts, <2>1 DEF PCs
  <2> QED BY <1>0, <1>1, <2>2, <2>3 DEF Shape
<1>7. CASE Uncount(t)
  <2>1. CASE task[t].todo = {}
    <3>1. /\ list' = Unlinked(t) /\ Goto(t, "drain")
          /\ tcpip' = [tcpip EXCEPT !.changed = (tcpip.at = "walk")]
          /\ UNCHANGED <<conn, sock, signalled, sem, told>>
      BY <1>0, <1>7, <2>1 DEF Uncount
    <3>2. task' \in [Tasks -> TaskType]
      BY TaskFacts, <3>1 DEF PCs
    <3> QED BY <1>0, <1>1, <1>2, <3>1, <3>2, ListIs DEF Shape
  <2>2. CASE task[t].todo # {}
    <3> DEFINE c == Min(task[t].todo)
               n == sock[c].waiting - 1
    <3>1. c \in Conns
      BY <1>0, <2>2, MinConn
    <3>2. /\ n \in Int /\ sock' = [sock EXCEPT ![c].waiting = n]
          /\ task' = [task EXCEPT ![t].todo = task[t].todo \ {c}]
          /\ UNCHANGED <<conn, tcpip, list, signalled, sem, told>>
      BY <1>0, <1>7, <2>2, <3>1 DEF Uncount, SockType
    <3> HIDE DEF c, n
    <3>3. sock' \in [Conns -> SockType]
      BY <1>0, <3>1, <3>2, SockUpdate
    <3>4. task' \in [Tasks -> TaskType]
      <4> DEFINE S == task[t].todo \ {c}
      <4>1. S \in SUBSET Conns
        BY <1>0
      <4>2. [task EXCEPT ![t].todo = S] \in [Tasks -> TaskType]
        <5> HIDE DEF S
        <5> QED BY <1>0, <4>1, TaskUpdate
      <4> QED BY <1>0, <3>2, <4>2
    <3> QED BY <1>0, <1>1, <3>2, <3>3, <3>4 DEF Shape
  <2> QED BY <1>0, <2>1, <2>2
<1>8. CASE Drain(t)
  <2> DEFINE left == sem[t] /\ ~MustDrain(t)
  <2>1. left \in BOOLEAN /\ sem' = [sem EXCEPT ![t] = left]
        /\ signalled' = [signalled EXCEPT ![t] = FALSE]
        /\ UNCHANGED <<conn, sock, tcpip, list, told>>
    BY <1>0, <1>8 DEF Drain
  <2>2. Returns(t) \/ Loop(t, "last", "scan")
    BY <1>0, <1>8 DEF Drain
  <2>3. task' \in [Tasks -> TaskType]
    BY TaskFacts, <2>2 DEF PCs
  <2> HIDE DEF left
  <2> QED BY <1>0, <1>1, <2>1, <2>3 DEF Shape
<1> QED BY <1>3, <1>4, <1>5, <1>6, <1>7, <1>8 DEF Select

\* The work on the sockets that are ready.
LEMMA ServeShape ==
  ASSUME Shape, ConnInv, TaskInv, NEW t \in Tasks,
         Serve(t) \/ Accept(t) \/ Recv(t) \/ Close(t)
  PROVE  Shape'
<1>0. /\ conn \in [Conns -> ConnType] /\ sock \in [Conns -> SockType]
      /\ task \in [Tasks -> TaskType] /\ task[t].cur \in Conns
      /\ task[t].todo \in SUBSET Conns /\ task[t].ready \in SUBSET Conns
  BY TaskFacts
<1>1. /\ tcpip \in TcpipType /\ list \in Seq(Tasks) /\ told \in SUBSET Conns
      /\ signalled \in [Tasks -> BOOLEAN] /\ sem \in [Tasks -> BOOLEAN]
      /\ Listener \in Conns /\ RecvLen \in Nat
  BY SocketsAssumption DEF Shape
<1>2. CASE Serve(t)
  <2>1. UNCHANGED <<conn, sock, tcpip, list, signalled, sem, told>>
    BY <1>0, <1>2 DEF Serve, selects
  <2>2. CASE task[t].ready = {}
    BY TaskFacts, <1>1, <1>2, <2>1, <2>2 DEF Serve, PCs, Shape
  <2>3. CASE task[t].ready # {}
    <3> DEFINE c == Min(task[t].ready)
               pc == IF c = Listener THEN "accept" ELSE "recv"
    <3>1. c \in Conns
      BY <1>0, <2>3, MinConn
    <3>2. /\ pc \in PCs
          /\ task' = [task EXCEPT ![t].ready = task[t].ready \ {c}, ![t].cur = c,
                                  ![t].off = 0, ![t].pc = pc]
      BY TaskFacts, <1>2, <2>3 DEF Serve, PCs
    <3>3. task' \in [Tasks -> TaskType]
      <4> DEFINE S == task[t].ready \ {c}
      <4>1. S \in SUBSET Conns
        BY <1>0
      <4> HIDE DEF c, pc, S
      <4>2. [task EXCEPT ![t].ready = S, ![t].cur = c, ![t].off = 0, ![t].pc = pc]
              \in [Tasks -> TaskType]
        BY <1>0, <3>1, <3>2, <4>1, TaskUpdate, ZenonT(60)
      <4> QED BY <1>0, <3>2, <4>2 DEF S
    <3> QED BY <1>0, <1>1, <2>1, <3>3 DEF Shape
  <2> QED BY <1>0, <2>2, <2>3
<1>3. CASE NetconnAccept(t)
  <2> DEFINE c == Head(conn[Listener].mbox)
  <2>1. c \in Conns
    BY <1>0, <1>1, <1>3, HeadTailProperties, SocketsAssumption DEF NetconnAccept, ConnInv
  <2>2. /\ conn' = [conn EXCEPT ![Listener].mbox = Tail(@)]
        /\ task' = [task EXCEPT ![t].pc = "accepted", ![t].cur = c]
        /\ UNCHANGED <<sock, tcpip, list, signalled, sem, told>>
    BY <1>0, <1>3 DEF NetconnAccept, selects
  <2> HIDE DEF c
  <2>3. conn' \in [Conns -> ConnType]
    BY <1>0, <1>1, <1>3, <2>2, TakenShape DEF NetconnAccept
  <2>4. task' \in [Tasks -> TaskType]
    <3> DEFINE pc == "accepted"
    <3>1. pc \in PCs
      BY DEF PCs
    <3> HIDE DEF pc
    <3>2. [task EXCEPT ![t].pc = pc, ![t].cur = c] \in [Tasks -> TaskType]
      BY <1>0, <2>1, <3>1, TaskUpdate
    <3> QED BY <1>0, <2>2, <3>2 DEF pc
  <2> QED BY <1>0, <1>1, <2>2, <2>3, <2>4 DEF Shape
<1>4. CASE Accepted(t)
  <2>1. Goto(t, "alloc") /\ OwnEvent(Listener, -1)
        /\ UNCHANGED <<conn, tcpip, list, signalled, sem, told>>
    BY <1>0, <1>4 DEF Accepted, selects
  <2>2. task' \in [Tasks -> TaskType] /\ sock' \in [Conns -> SockType]
    BY TaskFacts, <1>1, <2>1 DEF PCs
  <2> QED BY <1>0, <1>1, <2>1, <2>2 DEF Shape
<1>5. CASE AllocSocket(t)
  <2>1. UNCHANGED <<tcpip, list, signalled, sem, told>>
    BY <1>0, <1>5 DEF AllocSocket, selects
  <2>2. /\ sock' = [sock EXCEPT ![task[t].cur] = NewSock] \/ UNCHANGED sock
        /\ conn' = Deleted(task[t].cur) \/ UNCHANGED conn
        /\ Goto(t, "publish") \/ Returns(t)
    BY <1>0, <1>5 DEF AllocSocket
  <2>3. sock' \in [Conns -> SockType]
    BY <1>0, <2>2, SockUpdate
  <2>4. conn' \in [Conns -> ConnType]
    BY <1>0, <2>2, DeletedShape
  <2>5. task' \in [Tasks -> TaskType]
    BY TaskFacts, <2>2 DEF PCs
  <2> QED BY <1>0, <1>1, <2>1, <2>3, <2>4, <2>5 DEF Shape
<1>6. CASE Publish(t)
  <2> DEFINE c == task[t].cur
             n == -1 - conn[c].socket
  <2>1. n \in Int
    BY <1>0 DEF ConnType
  <2>2. OwnEvent(c, n) /\ conn' = [conn EXCEPT ![c].socket = 0] /\ Returns(t)
        /\ UNCHANGED <<tcpip, list, signalled, sem, told>>
    BY <1>0, <1>6 DEF Publish, selects
  <2> HIDE DEF n
  <2>3. sock' \in [Conns -> SockType]
    BY <1>0, TaskFacts, <2>1, <2>2
  <2>4. conn' \in [Conns -> ConnType]
    <3> DEFINE z == 0
    <3>1. z \in Int /\ c \in Conns /\ conn' = [conn EXCEPT ![c].socket = z]
      BY <1>0, <2>2
    <3> HIDE DEF z, c
    <3> QED BY <1>0, <3>1, ConnUpdate
  <2>5. task' \in [Tasks -> TaskType]
    BY TaskFacts, <2>2
  <2> QED BY <1>0, <1>1, <2>2, <2>3, <2>4, <2>5 DEF Shape
<1>7. CASE RecvRound(t)
  <2>1. /\ \E pc \in {"copy", "fetch", "return", "close"} : Goto(t, pc)
        /\ UNCHANGED <<conn, sock, tcpip, list, signalled, sem, told>>
    BY <1>0, <1>7 DEF RecvRound, selects
  <2>2. task' \in [Tasks -> TaskType]
    BY TaskFacts, <2>1 DEF PCs
  <2> QED BY <1>0, <1>1, <2>1, <2>2 DEF Shape
<1>8. CASE Fetch(t)
  <2> DEFINE c == task[t].cur
             p == Head(conn[c].mbox)
             n == p.len
             push == p.push
  <2>1. c \in Conns /\ c # Listener /\ conn[c].mbox # <<>>
    BY <1>0, <1>8 DEF Fetch, TaskInv, TaskOK, Reading
  <2>2. conn[c].mbox \in Seq(Messages)
    BY <1>0, <2>1 DEF ConnInv
  <2>3. p \in Messages
    BY <1>0, <2>1, <2>2, HeadTailProperties
  <2>4. n \in Int /\ push \in BOOLEAN
    BY <1>0, <2>3 DEF Messages
  <2>5. /\ conn' = [conn EXCEPT ![c].mbox = Tail(@)]
        /\ sock' = [sock EXCEPT ![c].left = n, ![c].push = push]
        /\ Goto(t, "fin") \/ Goto(t, "minus")
        /\ UNCHANGED <<tcpip, list, signalled, sem, told>>
    BY <1>0, <1>8 DEF Fetch, selects
  <2> HIDE DEF n, push
  <2>6. sock' \in [Conns -> SockType]
    BY <1>0, <2>1, <2>4, <2>5, SockUpdate
  <2>7. conn' \in [Conns -> ConnType]
    BY <1>0, <2>1, <2>5, TakenShape
  <2>8. task' \in [Tasks -> TaskType]
    BY TaskFacts, <2>5 DEF PCs
  <2> QED BY <1>0, <1>1, <2>5, <2>6, <2>7, <2>8 DEF Shape
<1>9. CASE RecvMinus(t)
  <2>1. Goto(t, "copy") /\ OwnEvent(task[t].cur, -1)
        /\ UNCHANGED <<conn, tcpip, list, signalled, sem, told>>
    BY <1>0, <1>9 DEF RecvMinus, selects
  <2>2. task' \in [Tasks -> TaskType] /\ sock' \in [Conns -> SockType]
    BY TaskFacts, <2>1 DEF PCs
  <2> QED BY <1>0, <1>1, <2>1, <2>2 DEF Shape
<1>10. CASE Copy(t)
  <2> DEFINE c == task[t].cur
             n == Min({RecvLen - task[t].off, sock[c].left})
             off == task[t].off + n
             left == sock[c].left - n
             push == sock[c].push /\ n < sock[c].left
             pc == IF off = RecvLen \/ sock[c].push \/ sock[c].rcvevent <= 0
                   THEN "return" ELSE "recv"
  <2>1. RecvLen - task[t].off \in Nat /\ sock[c].left \in Nat /\ task[t].off \in Nat
    <3>1. task[t].off \in 0 .. RecvLen
      BY TaskFacts
    <3>2. sock[c].left \in Int /\ sock[c].left >= 0
      BY <1>0 DEF ConnInv, SockType
    <3> QED BY <1>1, <3>1, <3>2
  <2>2. n \in Int /\ n >= 0 /\ n <= RecvLen - task[t].off
    <3>1. n \in {RecvLen - task[t].off, sock[c].left} /\ n <= RecvLen - task[t].off
      <4> DEFINE a == RecvLen - task[t].off
                 b == sock[c].left
      <4>1. a \in Int /\ b \in Int
        BY <1>0, <2>1
      <4>2. n = Min({a, b})
        OBVIOUS
      <4> HIDE DEF a, b, n
      <4>3. n \in {a, b} /\ n <= a
        BY <1>0, <4>1, <4>2, MinPair
      <4> QED BY <1>0, <4>3 DEF a, b
    <3> HIDE DEF n
    <3> QED BY <1>0, <2>1, <3>1
  <2>3. /\ sock' = [sock EXCEPT ![c].left = left, ![c].push = push]
        /\ task' = [task EXCEPT ![t].off = off, ![t].pc = pc]
        /\ UNCHANGED <<conn, tcpip, list, signalled, sem, told>>
    BY <1>0, <1>10 DEF Copy, selects
  <2>4. left \in Int /\ push \in BOOLEAN /\ off \in 0 .. RecvLen /\ pc \in PCs
    <3> HIDE DEF n
    <3> QED BY TaskFacts, <1>1, <2>1, <2>2, SMTT(30) DEF PCs
  <2> HIDE DEF n, off, left, push, pc
  <2>5. sock' \in [Conns -> SockType]
    BY <1>0, <2>3, <2>4, SockUpdate
  <2>6. task' \in [Tasks -> TaskType]
    BY <1>0, <2>3, <2>4, TaskUpdate, ZenonT(60)
  <2> QED BY <1>0, <1>1, <2>3, <2>5, <2>6 DEF Shape
<1>11. CASE Return(t)
  BY TaskFacts, <1>1, <1>11 DEF Return, selects, Shape
<1>12. CASE RecvFin(t)
  <2> DEFINE c == task[t].cur
  <2>1. /\ told' = told \cup {c} \/ UNCHANGED told
        /\ Goto(t, "return") \/ Goto(t, "close")
        /\ UNCHANGED sock \/ OwnEvent(c, -1)
        /\ UNCHANGED <<conn, tcpip, list, signalled, sem>>
    BY <1>0, <1>12 DEF RecvFin, selects
  <2>2. task' \in [Tasks -> TaskType] /\ sock' \in [Conns -> SockType]
    BY TaskFacts, <2>1 DEF PCs
  <2> QED BY <1>0, <1>1, <2>1, <2>2 DEF Shape
<1>13. CASE Close(t)
  <2>1. /\ conn' = Deleted(task[t].cur) /\ sock' = [sock EXCEPT ![task[t].cur] = NewSock]
        /\ told' = told \ {task[t].cur} /\ Returns(t)
        /\ UNCHANGED <<tcpip, list, signalled, sem>>
    BY <1>0, <1>13 DEF Close, selects
  <2>2. sock' \in [Conns -> SockType] /\ conn' \in [Conns -> ConnType]
    BY <1>0, <2>1, SockUpdate, DeletedShape
  <2>3. task' \in [Tasks -> TaskType]
    BY <2>1, TaskFacts
  <2> QED BY <1>0, <1>1, <2>1, <2>2, <2>3 DEF Shape
<1> QED BY <1>2, <1>3, <1>4, <1>5, <1>6, <1>7, <1>8, <1>9, <1>10, <1>11, <1>12, <1>13
       DEF Accept, Recv

-----------------------------------------------------------------------------
(* select and its semaphore *)

\* The program counter of a task after a step.
LEMMA Goes ==
  ASSUME Shape, NEW t \in Tasks
  PROVE  /\ \A pc \in PCs : Goto(t, pc) => task'[t].pc = pc /\ task'[t].how = task[t].how
         /\ \A pc \in PCs, how \in {"scan", "woken", "timeout"} :
              Loop(t, pc, how) => task'[t].pc = pc /\ task'[t].how = how
         /\ Returns(t) => task'[t].pc = "serve"
         /\ \A u \in Tasks \ {t} :
              \/ \E pc \in PCs : Goto(t, pc)
              \/ \E pc \in PCs, how \in {"scan", "woken", "timeout"} : Loop(t, pc, how)
              \/ Returns(t)
              => task'[u] = task[u]
<1>1. task \in [Tasks -> TaskType]
  BY DEF Shape
<1>2. ASSUME NEW pc \in PCs, Goto(t, pc)
      PROVE  task'[t].pc = pc /\ task'[t].how = task[t].how
  BY <1>1, <1>2 DEF Goto, TaskType
<1>3. ASSUME NEW pc \in PCs, NEW how \in {"scan", "woken", "timeout"}, Loop(t, pc, how)
      PROVE  task'[t].pc = pc /\ task'[t].how = how
  BY <1>1, <1>3 DEF Loop, TaskType
<1>4. Returns(t) => task'[t].pc = "serve"
  BY <1>1 DEF Returns, Between
<1>5. ASSUME NEW u \in Tasks \ {t},
             \/ \E pc \in PCs : Goto(t, pc)
             \/ \E pc \in PCs, how \in {"scan", "woken", "timeout"} : Loop(t, pc, how)
             \/ Returns(t)
      PROVE  task'[u] = task[u]
  BY <1>1, <1>5 DEF Goto, Loop, Returns
<1> QED BY <1>2, <1>3, <1>4, <1>5

\* A task that works on its sockets does not touch what select keeps.
LEMMA OutsideSelect ==
  ASSUME Shape, NEW t \in Tasks, Serve(t) \/ Accept(t) \/ Recv(t) \/ Close(t)
  PROVE  /\ UNCHANGED <<tcpip, list, signalled, sem>>
         /\ \A u \in Tasks \ {t} : task'[u] = task[u]
         /\ task[t].pc \notin {"count", "rescan", "uncount", "drain"}
         /\ task'[t].pc \notin {"count", "rescan", "uncount", "drain"}
<1>1. task \in [Tasks -> TaskType]
  BY DEF Shape
<1> USE DEF selects, TaskType, Goto, Loop, Returns, Between
<1>2. CASE Serve(t)
  BY <1>1, <1>2 DEF Serve
<1>3. CASE NetconnAccept(t)
  BY <1>1, <1>3 DEF NetconnAccept
<1>4. CASE Accepted(t)
  BY <1>1, <1>4 DEF Accepted
<1>5. CASE AllocSocket(t)
  BY <1>1, <1>5 DEF AllocSocket
<1>6. CASE Publish(t)
  BY <1>1, <1>6 DEF Publish
<1>7. CASE RecvRound(t)
  BY <1>1, <1>7 DEF RecvRound
<1>8. CASE Fetch(t)
  BY <1>1, <1>8 DEF Fetch
<1>9. CASE RecvMinus(t)
  BY <1>1, <1>9 DEF RecvMinus
<1>10. CASE Copy(t)
  BY <1>1, <1>10 DEF Copy
<1>11. CASE Return(t)
  BY <1>1, <1>11 DEF Return
<1>12. CASE RecvFin(t)
  BY <1>1, <1>12 DEF RecvFin
<1>13. CASE Close(t)
  BY <1>1, <1>13 DEF Close
<1> QED BY <1>2, <1>3, <1>4, <1>5, <1>6, <1>7, <1>8, <1>9, <1>10, <1>11, <1>12, <1>13
       DEF Accept, Recv

LEMMA ServeSelect ==
  ASSUME Shape, SelectInv, NEW t \in Tasks, Serve(t) \/ Accept(t) \/ Recv(t) \/ Close(t)
  PROVE  SelectInv'
<1>1. /\ UNCHANGED <<tcpip, list, signalled, sem>>
      /\ \A u \in Tasks \ {t} : task'[u] = task[u]
      /\ task[t].pc \notin {"count", "rescan", "uncount", "drain"}
      /\ task'[t].pc \notin {"count", "rescan", "uncount", "drain"}
  BY OutsideSelect
<1>2. \A u \in Tasks : Enlisted(u)' <=> Enlisted(u)
  BY <1>1 DEF Enlisted
<1>3. ASSUME NEW u \in Tasks
      PROVE  /\ Enlisted(u)' <=> task'[u].pc \in {"count", "rescan", "uncount"}
             /\ sem'[u] => signalled'[u]
             /\ signalled'[u] => task'[u].pc \in {"count", "rescan", "uncount", "drain"}
             /\ task'[u].pc \in {"uncount", "drain"} /\ task'[u].how = "woken" =>
                  signalled'[u] /\ ~sem'[u]
  <2>1. CASE u = t
    BY <1>1, <1>2, <2>1, Zenon DEF SelectInv
  <2>2. CASE u # t
    BY <1>1, <1>2, <2>2, Zenon DEF SelectInv
  <2> QED BY <2>1, <2>2
<1> QED BY <1>1, <1>3, ZenonT(60) DEF SelectInv, Enlisted

\* One round of the loop over the list signals a task of the list, if any.
LEMMA VisitSelect ==
  ASSUME Shape, SelectInv, NEW c \in Conns, NEW rest \in Seq(Tasks), Visit(c, rest),
         UNCHANGED <<task, list>>, \A i \in DOMAIN rest : Enlisted(rest[i])
  PROVE  SelectInv'
<1>1. /\ tcpip \in TcpipType
      /\ signalled \in [Tasks -> BOOLEAN] /\ sem \in [Tasks -> BOOLEAN]
  BY DEF Shape
<1>2. CASE rest = <<>>
  <2>1. EventDone /\ UNCHANGED <<signalled, sem>>
    BY <1>2 DEF Visit
  <2>2. tcpip'.at # "walk"
    BY <1>1, <2>1 DEF EventDone, Idle, TcpipType
  <2> QED BY <2>1, <2>2, Zenon DEF SelectInv, Enlisted
<1>3. CASE rest # <<>>
  <2>1. /\ Head(rest) \in Tasks /\ Tail(rest) \in Seq(Tasks) /\ Enlisted(Head(rest))
        /\ \A i \in DOMAIN Tail(rest) : Enlisted(Tail(rest)[i])
    <3>1. /\ Head(rest) = rest[1] /\ Len(rest) \in Nat /\ Len(rest) > 0
          /\ DOMAIN rest = 1 .. Len(rest) /\ DOMAIN Tail(rest) = 1 .. Len(rest) - 1
          /\ \A i \in 1 .. Len(rest) - 1 : Tail(rest)[i] = rest[i + 1]
      BY <1>3, MboxIs
    <3>2. \A i \in 1 .. Len(rest) - 1 : i + 1 \in DOMAIN rest
      BY <3>1
    <3> HIDE DEF Enlisted
    <3> QED BY <1>3, <3>1, <3>2, HeadTailProperties
  <2> DEFINE t == Head(rest)
             sig == ~signalled[t] /\ sock'[c].rcvevent > 0 /\ c \in Readset(t)
  <2>2. /\ signalled' = [signalled EXCEPT ![t] = @ \/ sig]
        /\ sem' = [sem EXCEPT ![t] = @ \/ sig]
        /\ tcpip' = [tcpip EXCEPT !.at = "walk", !.rest = Tail(rest), !.changed = FALSE]
    BY <1>3 DEF Visit
  <2>3. sig => ~signalled[t]
    OBVIOUS
  <2> HIDE DEF sig, t
  <2>4. \A u \in Tasks :
          /\ Enlisted(u)' <=> task'[u].pc \in {"count", "rescan", "uncount"}
          /\ sem'[u] => signalled'[u]
          /\ signalled'[u] => task'[u].pc \in {"count", "rescan", "uncount", "drain"}
          /\ task'[u].pc \in {"uncount", "drain"} /\ task'[u].how = "woken" =>
               signalled'[u] /\ ~sem'[u]
    <3>1. t \in Tasks /\ Enlisted(t)
      BY <2>1 DEF t
    <3>2. \A u \in Tasks : Enlisted(u)' <=> Enlisted(u)
      BY DEF Enlisted
    <3>3. \A u \in Tasks : /\ signalled'[u] <=> signalled[u] \/ (u = t /\ sig)
                           /\ sem'[u] <=> sem[u] \/ (u = t /\ sig)
      BY <1>1, <2>2, <3>1
    <3> QED BY <2>3, <3>1, <3>2, <3>3, Zenon DEF SelectInv
  <2>5. tcpip'.rest = Tail(rest)
    BY <1>1, <2>2 DEF TcpipType
  <2>6. \A i \in DOMAIN tcpip'.rest : \E j \in DOMAIN list' : list'[j] = tcpip'.rest[i]
    BY <2>1, <2>5 DEF Enlisted
  <2>7. \A i, j \in DOMAIN list' : list'[i] = list'[j] => i = j
    BY DEF SelectInv
  <2> QED BY <2>4, <2>6, <2>7, Zenon DEF SelectInv, Enlisted
<1> QED BY <1>2, <1>3

LEMMA TcpipSelect == Shape /\ SelectInv /\ Tcpip => SelectInv'
<1> SUFFICES ASSUME Shape, SelectInv, Tcpip PROVE SelectInv'
  OBVIOUS
<1>1. tcpip.conn \in Conns /\ tcpip.rest \in Seq(Tasks) /\ tcpip \in TcpipType /\ list \in Seq(Tasks)
  BY DEF Shape, TcpipType
<1>2. \A i \in DOMAIN list : Enlisted(list[i])
  BY DEF Enlisted
<1>3. CASE EventCallback
  <2>1. CASE conn[tcpip.conn].socket < 0
    <3>1. EventDone /\ UNCHANGED <<signalled, sem, task, list>>
      BY <1>3, <2>1 DEF EventCallback
    <3>2. tcpip'.at # "walk"
      BY <1>1, <3>1 DEF EventDone, Idle, TcpipType
    <3> QED BY <3>1, <3>2, Zenon DEF SelectInv, Enlisted
  <2>2. CASE ~(conn[tcpip.conn].socket < 0)
    <3> DEFINE rest == IF sock[tcpip.conn].waiting = 0 THEN <<>> ELSE list
    <3>1. Visit(tcpip.conn, rest) /\ UNCHANGED <<task, list>>
      BY <1>3, <2>2 DEF EventCallback
    <3>2. rest \in Seq(Tasks) /\ \A i \in DOMAIN rest : Enlisted(rest[i])
      BY <1>1, <1>2, EmptySeq, LenProperties
    <3> HIDE DEF rest
    <3> QED BY <1>1, <3>1, <3>2, VisitSelect
  <2> QED BY <2>1, <2>2
<1>4. CASE WalkOn
  <2> DEFINE rest == IF tcpip.changed THEN list ELSE tcpip.rest
  <2>1. Visit(tcpip.conn, rest) /\ UNCHANGED <<task, list>> /\ tcpip.at = "walk"
    BY <1>4 DEF WalkOn
  <2>2. rest \in Seq(Tasks) /\ \A i \in DOMAIN rest : Enlisted(rest[i])
    BY <1>1, <1>2, <2>1 DEF SelectInv
  <2> HIDE DEF rest
  <2> QED BY <1>1, <2>1, <2>2, VisitSelect
<1>5. CASE PostNull
  <2>1. UNCHANGED <<task, list, signalled, sem>> /\ tcpip'.at # "walk"
    BY <1>5 DEF PostNull, selects, Idle
  <2> QED BY <2>1, Zenon DEF SelectInv, Enlisted
<1> QED BY <1>3, <1>4, <1>5 DEF Tcpip

LEMMA NetworkSelect == SelectInv /\ Network => SelectInv'
<1> SUFFICES ASSUME SelectInv, Network PROVE SelectInv'
  OBVIOUS
<1>1. UNCHANGED <<task, list, signalled, sem>> /\ tcpip'.at # "walk"
  BY DEF Network, RecvTcp, AcceptFunction, ErrTcp, selects, Idle
<1> QED BY <1>1, Zenon DEF SelectInv, Enlisted

\* Unlinking a select_cb takes it, and only it, out of the list.
LEMMA UnlinkedIs ==
  ASSUME Shape, SelectInv, NEW t \in Tasks, Enlisted(t)
  PROVE  /\ \A u \in Tasks : (\E i \in DOMAIN Unlinked(t) : Unlinked(t)[i] = u)
                               <=> Enlisted(u) /\ u # t
         /\ \A i, j \in DOMAIN Unlinked(t) : Unlinked(t)[i] = Unlinked(t)[j] => i = j
<1> DEFINE p == CHOOSE i \in DOMAIN list : list[i] = t
           n == Len(list)
<1>1. n \in Nat /\ DOMAIN list = 1 .. n
  BY LenProperties DEF Shape
<1>2. p \in 1 .. n /\ list[p] = t
  BY <1>1 DEF Enlisted
<1>3. \A i, j \in 1 .. n : list[i] = list[j] => i = j
  BY <1>1 DEF SelectInv
<1>4. /\ DOMAIN Unlinked(t) = 1 .. (n - 1)
      /\ \A i \in 1 .. (n - 1) : Unlinked(t)[i] = IF i < p THEN list[i] ELSE list[i + 1]
  BY DEF Unlinked
<1> HIDE DEF p, n
<1>5. ASSUME NEW u \in Tasks
      PROVE  (\E i \in DOMAIN Unlinked(t) : Unlinked(t)[i] = u) <=> Enlisted(u) /\ u # t
  <2>1. ASSUME NEW i \in 1 .. (n - 1), Unlinked(t)[i] = u PROVE Enlisted(u) /\ u # t
    <3>1. CASE i < p
      BY <1>1, <1>2, <1>3, <1>4, <2>1, <3>1 DEF Enlisted
    <3>2. CASE i >= p
      <4>1. i + 1 \in 1 .. n /\ list[i + 1] = u /\ i + 1 # p
        BY <1>1, <1>2, <1>4, <2>1, <3>2
      <4> QED BY <1>1, <1>2, <1>3, <4>1 DEF Enlisted
    <3> QED BY <1>1, <1>2, <3>1, <3>2
  <2>2. ASSUME Enlisted(u), u # t PROVE \E i \in 1 .. (n - 1) : Unlinked(t)[i] = u
    <3>1. PICK k \in 1 .. n : list[k] = u
      BY <1>1, <2>2 DEF Enlisted
    <3>2. CASE k < p
      <4>1. k \in 1 .. (n - 1)
        BY <1>1, <1>2, <3>2
      <4> QED BY <1>4, <3>1, <3>2, <4>1
    <3>3. CASE k > p
      <4>1. k - 1 \in 1 .. (n - 1) /\ ~(k - 1 < p) /\ (k - 1) + 1 = k
        BY <1>1, <1>2, <3>3
      <4>2. Unlinked(t)[k - 1] = u
        BY <1>4, <3>1, <4>1
      <4> QED BY <4>1, <4>2
    <3>4. k # p
      BY <1>2, <2>2, <3>1
    <3> QED BY <1>1, <1>2, <3>2, <3>3, <3>4
  <2> QED BY <1>4, <2>1, <2>2
<1>6. ASSUME NEW i \in 1 .. (n - 1), NEW j \in 1 .. (n - 1), Unlinked(t)[i] = Unlinked(t)[j]
      PROVE  i = j
  <2> DEFINE at(k) == IF k < p THEN k ELSE k + 1
  <2>1. \A k \in 1 .. (n - 1) : at(k) \in 1 .. n /\ Unlinked(t)[k] = list[at(k)]
    BY <1>1, <1>2, <1>4
  <2>2. at(i) = at(j)
    <3> HIDE DEF at
    <3> QED BY <1>3, <1>6, <2>1
  <2> QED BY <1>1, <1>2, <2>2
<1> QED BY <1>4, <1>5, <1>6

LEMMA SelectSelect ==
  ASSUME Shape, SelectInv, TaskInv, NEW t \in Tasks, Select(t) PROVE SelectInv'
<1> DEFINE Right(u) ==
      /\ Enlisted(u)' <=> task'[u].pc \in {"count", "rescan", "uncount"}
      /\ sem'[u] => signalled'[u]
      /\ signalled'[u] => task'[u].pc \in {"count", "rescan", "uncount", "drain"}
      /\ task'[u].pc \in {"uncount", "drain"} /\ task'[u].how = "woken" =>
           signalled'[u] /\ ~sem'[u]
<1>1. /\ tcpip \in TcpipType /\ list \in Seq(Tasks) /\ task \in [Tasks -> TaskType]
      /\ signalled \in [Tasks -> BOOLEAN] /\ sem \in [Tasks -> BOOLEAN]
  BY DEF Shape
<1>2. /\ Enlisted(t) <=> task[t].pc \in {"count", "rescan", "uncount"}
      /\ sem[t] => signalled[t]
      /\ signalled[t] => task[t].pc \in {"count", "rescan", "uncount", "drain"}
      /\ task[t].pc \in {"uncount", "drain"} /\ task[t].how = "woken" =>
           signalled[t] /\ ~sem[t]
  BY DEF SelectInv
\* What is left to show when the list and the tcpip task stay.
<1>3. ASSUME UNCHANGED <<tcpip, list>>, \A u \in Tasks \ {t} : task'[u] = task[u],
             \A u \in Tasks \ {t} : signalled'[u] = signalled[u] /\ sem'[u] = sem[u],
             Enlisted(t) <=> task'[t].pc \in {"count", "rescan", "uncount"},
             sem'[t] => signalled'[t],
             signalled'[t] => task'[t].pc \in {"count", "rescan", "uncount", "drain"},
             task'[t].pc \in {"uncount", "drain"} /\ task'[t].how = "woken" =>
               signalled'[t] /\ ~sem'[t]
      PROVE  SelectInv'
  <2>1. \A u \in Tasks : Enlisted(u)' <=> Enlisted(u)
    BY <1>3 DEF Enlisted
  <2>2. Right(t)
    BY <1>3, <2>1
  <2>3. ASSUME NEW u \in Tasks \ {t} PROVE Right(u)
    BY <1>3, <2>1, Zenon DEF SelectInv
  <2>4. \A u \in Tasks : Right(u)
    BY <2>2, <2>3
  <2>5. (tcpip.at = "walk" /\ ~tcpip.changed =>
           \A i \in DOMAIN tcpip.rest : Enlisted(tcpip.rest[i]))'
    BY <1>3 DEF SelectInv, Enlisted
  <2>6. \A i, j \in DOMAIN list' : list'[i] = list'[j] => i = j
    BY <1>3, Zenon DEF SelectInv
  <2> HIDE DEF Enlisted
  <2> QED BY <2>4, <2>5, <2>6, Zenon DEF SelectInv
\* And when they change.
<1>4. ASSUME tcpip' = [tcpip EXCEPT !.changed = (tcpip.at = "walk")],
             \A u \in Tasks \ {t} : task'[u] = task[u], UNCHANGED <<signalled, sem>>,
             \A u \in Tasks \ {t} : Enlisted(u)' <=> Enlisted(u),
             Enlisted(t)' <=> task'[t].pc \in {"count", "rescan", "uncount"},
             signalled[t] => task'[t].pc \in {"count", "rescan", "uncount", "drain"},
             task'[t].pc \in {"uncount", "drain"} /\ task'[t].how = "woken" =>
               signalled[t] /\ ~sem[t],
             \A i, j \in DOMAIN list' : list'[i] = list'[j] => i = j
      PROVE  SelectInv'
  <2>1. Right(t)
    BY <1>2, <1>4
  <2>2. ASSUME NEW u \in Tasks \ {t} PROVE Right(u)
    BY <1>4, Zenon DEF SelectInv
  <2>3. \A u \in Tasks : Right(u)
    BY <2>1, <2>2
  <2>4. ~(tcpip'.at = "walk" /\ ~tcpip'.changed)
    BY <1>1, <1>4 DEF TcpipType
  <2> QED BY <1>4, <2>3, <2>4, Zenon DEF SelectInv
<1>5. CASE SelScan(t)
  <2>1. /\ UNCHANGED <<tcpip, list, signalled, sem>>
        /\ \A u \in Tasks \ {t} : task'[u] = task[u]
        /\ \/ task'[t].pc = "serve" /\ task[t].pc \in {"scan", "last"}
           \/ task'[t].pc = task[t].pc /\ task'[t].how = task[t].how
    BY <1>1, <1>5, ZenonT(60) DEF SelScan, selects, Between, TaskType
  <2> HIDE DEF Right, Enlisted
  <2>2. CASE task'[t].pc = "serve" /\ task[t].pc \in {"scan", "last"}
    BY <1>2, <1>3, <2>1, <2>2
  <2>3. CASE task'[t].pc = task[t].pc /\ task'[t].how = task[t].how
    BY <1>2, <1>3, <2>1, <2>3
  <2> QED BY <2>1, <2>2, <2>3
<1>6. CASE Enlist(t)
  <2>1. /\ Loop(t, "count", "scan") /\ UNCHANGED <<signalled, sem>>
        /\ list' = <<t>> \o list /\ tcpip' = [tcpip EXCEPT !.changed = (tcpip.at = "walk")]
        /\ task[t].pc = "scan"
    BY <1>6 DEF Enlist
  <2>2. /\ \A u \in Tasks \ {t} : task'[u] = task[u]
        /\ task'[t].pc = "count" /\ task'[t].how = "scan"
    BY <2>1, Goes DEF PCs
  <2>3. /\ Len(list) \in Nat /\ DOMAIN list = 1 .. Len(list)
        /\ DOMAIN list' = 1 .. Len(list) + 1 /\ list'[1] = t
        /\ \A i \in 1 .. Len(list) : list'[i + 1] = list[i]
    BY <1>1, <2>1, ListIs
  <2>4. ~Enlisted(t)
    BY <1>2, <2>1
  <2>5. Enlisted(t)'
    BY <2>3 DEF Enlisted
  <2>6. ASSUME NEW u \in Tasks \ {t} PROVE Enlisted(u)' <=> Enlisted(u)
    <3>1. ASSUME Enlisted(u)' PROVE Enlisted(u)
      <4>1. PICK i \in 1 .. Len(list) + 1 : list'[i] = u
        BY <2>3, <3>1 DEF Enlisted
      <4>2. i - 1 \in 1 .. Len(list) /\ i = (i - 1) + 1
        BY <2>3, <4>1
      <4> QED BY <2>3, <4>1, <4>2 DEF Enlisted
    <3>2. ASSUME Enlisted(u) PROVE Enlisted(u)'
      <4>1. PICK i \in 1 .. Len(list) : list[i] = u
        BY <2>3, <3>2 DEF Enlisted
      <4>2. i + 1 \in 1 .. Len(list) + 1
        BY <2>3
      <4> QED BY <2>3, <4>1, <4>2 DEF Enlisted
    <3> QED BY <3>1, <3>2
  <2>7. ASSUME NEW i \in DOMAIN list', NEW j \in DOMAIN list', list'[i] = list'[j] PROVE i = j
    <3>1. \A k \in DOMAIN list' : k = 1 \/ (k - 1 \in DOMAIN list /\ list'[k] = list[k - 1])
      <4>1. ASSUME NEW k \in 1 .. Len(list) + 1, k # 1
            PROVE  k - 1 \in 1 .. Len(list) /\ k = (k - 1) + 1
        BY <2>3, <4>1
      <4> QED BY <2>3, <4>1
    <3>2. \A k \in DOMAIN list : list[k] # t
      BY <2>4 DEF Enlisted
    <3>3. i \in Int /\ j \in Int
      BY <2>3
    <3>4. CASE i = 1 \/ j = 1
      BY <2>3, <2>7, <3>1, <3>2, <3>4
    <3>5. CASE i # 1 /\ j # 1
      <4>1. i - 1 = j - 1
        BY <2>7, <3>1, <3>5 DEF SelectInv
      <4> QED BY <3>3, <4>1
    <3> QED BY <3>4, <3>5
  <2> HIDE DEF Right, Enlisted
  <2> QED BY <1>2, <1>4, <2>1, <2>2, <2>5, <2>6, <2>7
<1>7. CASE Count(t)
  <2>1. /\ UNCHANGED <<tcpip, list, signalled, sem>> /\ task[t].pc = "count"
        /\ \/ Loop(t, "rescan", "scan")
           \/ task' = [task EXCEPT ![t].todo = task[t].todo \ {Min(task[t].todo)}]
    BY <1>7 DEF Count, selects
  <2>2. CASE Loop(t, "rescan", "scan")
    <3>1. /\ \A u \in Tasks \ {t} : task'[u] = task[u]
          /\ task'[t].pc = "rescan" /\ task'[t].how = "scan"
      BY <2>2, Goes DEF PCs
    <3> HIDE DEF Right, Enlisted
    <3> QED BY <1>2, <1>3, <2>1, <3>1
  <2>3. CASE task' = [task EXCEPT ![t].todo = task[t].todo \ {Min(task[t].todo)}]
    <3>1. /\ \A u \in Tasks \ {t} : task'[u] = task[u]
          /\ task'[t].pc = task[t].pc /\ task'[t].how = task[t].how
      BY <1>1, <2>3 DEF TaskType
    <3> HIDE DEF Right, Enlisted
    <3> QED BY <1>2, <1>3, <2>1, <3>1
  <2> QED BY <2>1, <2>2, <2>3
<1>8. CASE SemWait(t)
  <2>1. UNCHANGED <<tcpip, list, signalled>> /\ task[t].pc = "rescan"
    BY <1>8 DEF SemWait
  <2>2. CASE sem[t] /\ sem' = [sem EXCEPT ![t] = FALSE] /\ Loop(t, "uncount", "woken")
    <3>1. /\ \A u \in Tasks \ {t} : task'[u] = task[u]
          /\ task'[t].pc = "uncount" /\ task'[t].how = "woken"
      BY <2>2, Goes DEF PCs
    <3>2. ~sem'[t] /\ \A u \in Tasks \ {t} : sem'[u] = sem[u]
      BY <1>1, <2>2
    <3> HIDE DEF Right, Enlisted
    <3> QED BY <1>2, <1>3, <2>1, <2>2, <3>1, <3>2
  <2>3. CASE (Loop(t, "uncount", "timeout") \/ Loop(t, "uncount", "scan")) /\ UNCHANGED sem
    <3>1. /\ \A u \in Tasks \ {t} : task'[u] = task[u]
          /\ task'[t].pc = "uncount" /\ task'[t].how # "woken"
      BY <2>3, Goes DEF PCs
    <3> HIDE DEF Right, Enlisted
    <3> QED BY <1>2, <1>3, <2>1, <2>3, <3>1
  <2> QED BY <1>8, <2>2, <2>3 DEF SemWait
<1>9. CASE Uncount(t)
  <2>1. task[t].pc = "uncount" /\ UNCHANGED <<signalled, sem>>
    BY <1>9 DEF Uncount
  <2>2. CASE task[t].todo = {}
    <3>1. /\ list' = Unlinked(t) /\ Goto(t, "drain")
          /\ tcpip' = [tcpip EXCEPT !.changed = (tcpip.at = "walk")]
      BY <1>9, <2>2 DEF Uncount
    <3>2. /\ \A u \in Tasks \ {t} : task'[u] = task[u]
          /\ task'[t].pc = "drain" /\ task'[t].how = task[t].how
      BY <3>1, Goes DEF PCs
    <3>3. Enlisted(t)
      BY <1>2, <2>1
    <3>4. \A u \in Tasks : Enlisted(u)' <=> Enlisted(u) /\ u # t
      BY <3>1, <3>3, UnlinkedIs DEF Enlisted
    <3>5. \A i, j \in DOMAIN list' : list'[i] = list'[j] => i = j
      BY <3>1, <3>3, UnlinkedIs
    <3> HIDE DEF Right, Enlisted
    <3> QED BY <1>2, <1>4, <2>1, <3>1, <3>2, <3>4, <3>5
  <2>3. CASE task[t].todo # {}
    <3>1. /\ UNCHANGED <<tcpip, list>>
          /\ task' = [task EXCEPT ![t].todo = task[t].todo \ {Min(task[t].todo)}]
      BY <1>9, <2>3 DEF Uncount
    <3>2. /\ \A u \in Tasks \ {t} : task'[u] = task[u]
          /\ task'[t].pc = task[t].pc /\ task'[t].how = task[t].how
      BY <1>1, <3>1 DEF TaskType
    <3> HIDE DEF Right, Enlisted
    <3> QED BY <1>2, <1>3, <2>1, <3>1, <3>2
  <2> QED BY <2>2, <2>3
<1>10. CASE Drain(t)
  <2> DEFINE left == sem[t] /\ ~MustDrain(t)
  <2>1. /\ task[t].pc = "drain" /\ UNCHANGED <<tcpip, list>>
        /\ sem' = [sem EXCEPT ![t] = left]
        /\ signalled' = [signalled EXCEPT ![t] = FALSE]
        /\ Returns(t) \/ Loop(t, "last", "scan")
    BY <1>10 DEF Drain
  <2>2. ~left
    <3>1. task[t].how \in {"scan", "woken", "timeout"}
      BY <1>1 DEF TaskType
    <3> QED BY <1>2, <2>1, <3>1 DEF MustDrain
  <2> HIDE DEF left
  <2>3. /\ ~sem'[t] /\ ~signalled'[t]
        /\ \A u \in Tasks \ {t} : signalled'[u] = signalled[u] /\ sem'[u] = sem[u]
    BY <1>1, <2>1, <2>2
  <2>4. /\ \A u \in Tasks \ {t} : task'[u] = task[u]
        /\ task'[t].pc \in {"serve", "last"}
    BY <2>1, Goes DEF PCs
  <2> HIDE DEF Right, Enlisted
  <2> QED BY <1>2, <1>3, <2>1, <2>3, <2>4
<1> QED BY <1>5, <1>6, <1>7, <1>8, <1>9, <1>10 DEF Select

-----------------------------------------------------------------------------
(* Who works on which socket *)

\* What a step may do to c without the task of c noticing: events are added to
\* a socket, and a netconn without a socket gets none.
Calm(c) ==
  /\ conn[c].st = "open" => conn'[c].st = "open"
  /\ HasSocket(c)' <=> HasSocket(c)
  /\ conn[c].socket < 0 => conn'[c].socket < 0 /\ sock'[c].rcvevent = sock[c].rcvevent
  /\ sock'[c].left = sock[c].left /\ sock'[c].rcvevent >= sock[c].rcvevent

\* Then all that the invariant says of a task that does not move stays true.
LEMMA CalmTask ==
  ASSUME Shape, Shape', NEW u \in Tasks, TaskOK(u), task'[u] = task[u],
         \A c \in Conns : Owner[c] = u => Calm(c)
  PROVE  TaskOK(u)'
<1> DEFINE me == task[u]
<1>1. /\ me.ready \in SUBSET Conns /\ me.cur \in Conns /\ me.pc \in PCs
      /\ \A c \in Conns : /\ sock[c].left \in Int /\ sock[c].rcvevent \in Int
                           /\ sock'[c].rcvevent \in Int
  BY TaskFacts DEF SockType, Shape
<1>2. Readset(u)' = Readset(u)
  BY DEF Readset, Calm
<1>3. \A c \in Readset(u) : HasEvents(c) => HasEvents(c)'
  <2>1. ASSUME NEW c \in Conns, Owner[c] = u, HasEvents(c) PROVE HasEvents(c)'
    <3>1. sock'[c].left = sock[c].left /\ sock'[c].rcvevent >= sock[c].rcvevent
      BY <2>1 DEF Calm
    <3>2. CASE sock[c].left > 0
      BY <3>1, <3>2 DEF HasEvents
    <3>3. CASE sock[c].rcvevent > 0
      <4>1. sock'[c].rcvevent > 0
        BY <1>1, <3>1, <3>3
      <4> QED BY <4>1 DEF HasEvents
    <3> QED BY <2>1, <3>2, <3>3 DEF HasEvents
  <2> QED BY <2>1 DEF Readset
<1>4. /\ me.todo \subseteq Readset(u)' /\ me.ready \subseteq Readset(u)'
      /\ \A c \in me.ready : HasEvents(c)'
      /\ me.pc \in Selecting => Readset(u)' # {}
      /\ me.pc = "count" => me.todo # {}
      /\ me.pc = "recv" => HasEvents(me.cur)'
      /\ me.pc \in Reading => me.cur \in Readset(u)' \ me.ready /\ me.cur # Listener
      /\ me.pc \in {"accept", "accepted"} => Listener \notin me.ready
  <2>1. /\ me.todo \subseteq Readset(u) /\ me.ready \subseteq Readset(u)
        /\ \A c \in me.ready : HasEvents(c)
        /\ me.pc \in Selecting => Readset(u) # {}
        /\ me.pc = "count" => me.todo # {}
        /\ me.pc = "recv" => HasEvents(me.cur)
        /\ me.pc \in Reading => me.cur \in Readset(u) \ me.ready /\ me.cur # Listener
        /\ me.pc \in {"accept", "accepted"} => Listener \notin me.ready
    BY DEF TaskOK
  <2>2. me.pc = "recv" => me.pc \in Reading
    BY DEF Reading
  <2>0. me' = me
    OBVIOUS
  <2> HIDE DEF me
  <2>3. me.pc = "recv" => HasEvents(me.cur)'
    <3>1. me.pc = "recv" => me.cur \in Readset(u) /\ HasEvents(me.cur)
      BY <2>1, <2>2
    <3>2. me.pc = "recv" => sock'[me.cur].left > 0 \/ sock'[me.cur].rcvevent > 0
      BY <1>3, <3>1 DEF HasEvents
    <3> QED BY <2>0, <3>2 DEF HasEvents
  <2>4. ASSUME NEW c \in me.ready PROVE HasEvents(c)'
    <3>1. c \in Readset(u) /\ HasEvents(c)
      BY <2>1
    <3> QED BY <1>3, <3>1
  <2> QED BY <1>2, <2>1, <2>3, <2>4
<1>5. /\ me.pc \in {"accept", "accepted"} =>
           Owner[Listener] = u /\ sock'[Listener].rcvevent > 0
      /\ me.pc \in Accepting =>
           /\ me.cur \in Incoming /\ Owner[me.cur] = u
           /\ conn'[me.cur].st = "open" /\ conn'[me.cur].socket < 0
      /\ me.pc = "publish" => sock'[me.cur].rcvevent = 0
      /\ me.pc \in {"fetch", "minus", "fin"} => sock'[me.cur].rcvevent > 0
  <2>1. CASE me.pc \in {"accept", "accepted"}
    <3>1. Owner[Listener] = u /\ sock[Listener].rcvevent > 0 /\ Listener \in Conns
      BY <2>1, SocketsAssumption DEF TaskOK
    <3>2. sock'[Listener].rcvevent >= sock[Listener].rcvevent /\ sock[Listener].rcvevent \in Int
          /\ sock'[Listener].rcvevent \in Int
      BY <1>1, <3>1 DEF Calm
    <3>3. Owner[Listener] = u /\ sock'[Listener].rcvevent > 0
      BY <3>1, <3>2
    <3>4. me.pc \in Accepting =>
             /\ me.cur \in Incoming /\ Owner[me.cur] = u
             /\ conn'[me.cur].st = "open" /\ conn'[me.cur].socket < 0
      BY <1>1 DEF TaskOK, Calm
    <3> QED BY <2>1, <3>3, <3>4
  <2>2. CASE me.pc \in {"alloc", "publish"}
    BY <1>1, <2>2 DEF TaskOK, Calm, Accepting
  <2>3. CASE me.pc \in {"fetch", "minus", "fin"}
    <3>1. Owner[me.cur] = u /\ sock[me.cur].rcvevent > 0
      BY <2>3 DEF TaskOK, Reading, Readset
    <3>2. sock'[me.cur].rcvevent >= sock[me.cur].rcvevent /\ sock[me.cur].rcvevent \in Int
          /\ sock'[me.cur].rcvevent \in Int
      BY <1>1, <3>1 DEF Calm
    <3>3. sock'[me.cur].rcvevent > 0
      BY <3>1, <3>2
    <3> QED BY <2>3, <3>3 DEF Accepting
  <2> QED BY <2>1, <2>2, <2>3 DEF Accepting
<1> HIDE DEF me
<1>6. /\ (task[u] = me)' /\ me = task[u]
  BY DEF me
<1> QED BY <1>4, <1>5, <1>6 DEF TaskOK

\* The tcpip task and the network disturb no task.
LEMMA TcpipCalm ==
  ASSUME Shape, ConnInv, Tcpip \/ Network
  PROVE  task' = task /\ \A c \in Conns : Calm(c)
<1>1. conn \in [Conns -> ConnType] /\ sock \in [Conns -> SockType] /\ tcpip.conn \in Conns
      /\ Listener \in Conns
  BY SocketsAssumption DEF Shape, TcpipType
<1>2. \A c \in Conns : sock[c].rcvevent \in Int /\ conn[c].socket \in Int
  BY <1>1 DEF ConnType, SockType
<1>3. CASE EventCallback
  <2>1. CASE conn[tcpip.conn].socket < 0
    <3>1. /\ conn' = [conn EXCEPT ![tcpip.conn].socket = @ - 1] /\ UNCHANGED <<sock, task>>
      BY <1>3, <2>1 DEF EventCallback
    <3>2. \A c \in Conns :
            /\ conn'[c].st = conn[c].st
            /\ conn'[c].socket = IF c = tcpip.conn THEN conn[c].socket - 1 ELSE conn[c].socket
      BY <1>1, <3>1 DEF ConnType
    <3> QED BY <1>2, <2>1, <3>1, <3>2 DEF Calm, HasSocket
  <2>2. CASE ~(conn[tcpip.conn].socket < 0)
    <3>1. /\ sock' = [sock EXCEPT ![tcpip.conn].rcvevent = @ + 1] /\ UNCHANGED <<conn, task>>
      BY <1>3, <2>2 DEF EventCallback
    <3>2. \A c \in Conns :
            /\ sock'[c].left = sock[c].left
            /\ sock'[c].rcvevent = IF c = tcpip.conn THEN sock[c].rcvevent + 1
                                   ELSE sock[c].rcvevent
      BY <1>1, <3>1 DEF SockType
    <3> QED BY <1>2, <2>2, <3>1, <3>2 DEF Calm, HasSocket
  <2> QED BY <2>1, <2>2
<1>4. CASE WalkOn
  BY <1>2, <1>4 DEF WalkOn, Calm, HasSocket
<1>5. ASSUME NEW c \in Conns, NEW m, conn' = [conn EXCEPT ![c].mbox = m], UNCHANGED <<sock, task>>
      PROVE  task' = task /\ \A d \in Conns : Calm(d)
  <2>1. \A d \in Conns : conn'[d].st = conn[d].st /\ conn'[d].socket = conn[d].socket
    BY <1>1, <1>5 DEF ConnType
  <2> QED BY <1>2, <1>5, <2>1 DEF Calm, HasSocket
<1>6. CASE PostNull
  BY <1>1, <1>5, <1>6 DEF PostNull
<1>7. ASSUME NEW c \in Conns, NEW q, RecvTcp(c, q)
      PROVE  task' = task /\ \A d \in Conns : Calm(d)
  <2>1. \A d \in Conns : conn'[d].st = conn[d].st /\ conn'[d].socket = conn[d].socket
    BY <1>1, <1>7 DEF ConnType, RecvTcp
  <2>2. UNCHANGED <<sock, task>>
    BY <1>7 DEF RecvTcp
  <2> QED BY <1>2, <2>1, <2>2 DEF Calm, HasSocket
<1>8. ASSUME NEW c \in Conns, AcceptFunction(c)
      PROVE  task' = task /\ \A d \in Conns : Calm(d)
  <2>1. c # Listener /\ conn[c].st = "none" /\ conn[c].socket = -1
    BY <1>8, SocketsAssumption DEF AcceptFunction, ConnInv
  <2>2. conn' = [conn EXCEPT ![c].st = "open", ![Listener].mbox = Append(@, c)]
    BY <1>8 DEF AcceptFunction
  <2>3. \A d \in Conns : /\ conn'[d].st = IF d = c THEN "open" ELSE conn[d].st
                         /\ conn'[d].socket = conn[d].socket
    BY <1>1, <2>1, <2>2, SMTT(30) DEF ConnType
  <2>4. UNCHANGED <<sock, task>>
    BY <1>8 DEF AcceptFunction
  <2> QED BY <1>2, <2>1, <2>3, <2>4 DEF Calm, HasSocket
<1>9. ASSUME NEW c \in Conns, ErrTcp(c) PROVE task' = task /\ \A d \in Conns : Calm(d)
  <2>1. \A d \in Conns : conn'[d].st = conn[d].st /\ conn'[d].socket = conn[d].socket
    BY <1>1, <1>9 DEF ConnType, ErrTcp
  <2>2. UNCHANGED <<sock, task>>
    BY <1>9 DEF ErrTcp
  <2> QED BY <1>2, <2>1, <2>2 DEF Calm, HasSocket
<1> QED BY <1>3, <1>4, <1>6, <1>7, <1>8, <1>9 DEF Tcpip, Network

LEMMA TcpipTask == Shape /\ Shape' /\ ConnInv /\ TaskInv /\ (Tcpip \/ Network) => TaskInv'
  BY TcpipCalm, CalmTask DEF TaskInv

\* The steps of a task disturb no other task. For those of select, netconns
\* and events stay; only select_waiting changes.
LEMMA SelectCalm ==
  ASSUME Shape, TaskInv, NEW t \in Tasks, Select(t)
  PROVE  /\ UNCHANGED <<conn, told>>
         /\ \A u \in Tasks \ {t} : task'[u] = task[u]
         /\ tcpip'.at = tcpip.at /\ tcpip'.conn = tcpip.conn /\ tcpip'.null = tcpip.null
         /\ \A c \in Conns : /\ Calm(c) /\ sock'[c].rcvevent = sock[c].rcvevent
                             /\ HasEvents(c)' <=> HasEvents(c)
<1>1. /\ conn \in [Conns -> ConnType] /\ sock \in [Conns -> SockType]
      /\ task \in [Tasks -> TaskType] /\ tcpip \in TcpipType
      /\ \A c \in Conns : sock[c].rcvevent \in Int
  BY DEF Shape, SockType
<1>2. ASSUME UNCHANGED sock \/ \E c \in Conns, n \in Int : sock' = [sock EXCEPT ![c].waiting = n],
             UNCHANGED conn
      PROVE  \A c \in Conns : /\ Calm(c) /\ sock'[c].rcvevent = sock[c].rcvevent
                              /\ HasEvents(c)' <=> HasEvents(c)
  <2>1. \A c \in Conns : sock'[c].left = sock[c].left /\ sock'[c].rcvevent = sock[c].rcvevent
    BY <1>1, <1>2 DEF SockType
  <2> QED BY <1>1, <1>2, <2>1 DEF Calm, HasSocket, HasEvents
<1>3. \/ UNCHANGED sock
      \/ \E c \in Conns, n \in Int : sock' = [sock EXCEPT ![c].waiting = n]
  <2>1. CASE Count(t)
    <3>1. Min(task[t].todo) \in Conns
      BY <2>1, MinConn, TaskFacts DEF Count, TaskInv, TaskOK
    <3>2. sock[Min(task[t].todo)].waiting + 1 \in Int
      BY <1>1, <3>1 DEF SockType
    <3> QED BY <2>1, <3>1, <3>2 DEF Count
  <2>2. CASE Uncount(t) /\ task[t].todo # {}
    <3>1. Min(task[t].todo) \in Conns
      BY <2>2, MinConn, TaskFacts
    <3>2. sock[Min(task[t].todo)].waiting - 1 \in Int
      BY <1>1, <3>1 DEF SockType
    <3> QED BY <2>2, <3>1, <3>2 DEF Uncount
  <2>3. CASE Uncount(t) /\ task[t].todo = {}
    BY <2>3, SMTT(30) DEF Uncount
  <2> QED BY <2>1, <2>2, <2>3 DEF Select, SelScan, Enlist, SemWait, Drain
<1>4. UNCHANGED <<conn, told>>
  BY DEF Select, SelScan, Enlist, Count, SemWait, Uncount, Drain
<1>5. tcpip' = tcpip \/ tcpip' = [tcpip EXCEPT !.changed = (tcpip.at = "walk")]
  BY DEF Select, SelScan, Enlist, Count, SemWait, Uncount, Drain
<1>6. tcpip'.at = tcpip.at /\ tcpip'.conn = tcpip.conn /\ tcpip'.null = tcpip.null
  BY <1>1, <1>5 DEF TcpipType
<1>7. \E x : task' = [task EXCEPT ![t] = x]
  <2>1. CASE SelScan(t)
    BY <2>1 DEF SelScan
  <2>2. CASE Enlist(t)
    BY <2>2 DEF Enlist, Loop
  <2>3. CASE Count(t)
    BY <2>3 DEF Count, Loop
  <2>4. CASE SemWait(t)
    BY <2>4 DEF SemWait, Loop
  <2>5. CASE Uncount(t)
    BY <2>5 DEF Uncount, Goto
  <2>6. CASE Drain(t)
    BY <2>6 DEF Drain, Returns, Loop
  <2> QED BY <2>1, <2>2, <2>3, <2>4, <2>5, <2>6 DEF Select
<1>8. \A u \in Tasks \ {t} : task'[u] = task[u]
  BY <1>1, <1>7
<1> QED BY <1>2, <1>3, <1>4, <1>6, <1>8

LEMMA SelectTask ==
  ASSUME Shape, Shape', TaskInv, NEW t \in Tasks, Select(t)
  PROVE  TaskInv'
<1>1. /\ UNCHANGED <<conn, told>>
      /\ \A u \in Tasks \ {t} : task'[u] = task[u]
      /\ \A c \in Conns : Calm(c) /\ (HasEvents(c)' <=> HasEvents(c))
  BY SelectCalm
<1>2. Readset(t)' = Readset(t)
  BY <1>1 DEF Readset, HasSocket
<1>3. /\ task \in [Tasks -> TaskType] /\ Readset(t) \in SUBSET Conns
      /\ task[t].todo \subseteq Readset(t) /\ task[t].ready \subseteq Readset(t)
      /\ \A c \in task[t].ready : HasEvents(c)
      /\ task[t].pc \in Selecting => Readset(t) # {}
      /\ task[t].pc = "count" => task[t].todo # {}
  BY TaskFacts, SMTT(30) DEF TaskInv, TaskOK
<1>4. task[t].pc \in Selecting
  BY DEF Select, SelScan, Enlist, Count, SemWait, Uncount, Drain, Selecting
\* What is left to show of the task itself.
<1>5. ASSUME task'[t].todo \subseteq Readset(t), task'[t].ready \subseteq Readset(t),
             \A c \in task'[t].ready : HasEvents(c),
             task'[t].pc \in Selecting \cup {"serve"},
             task'[t].pc = "count" => task'[t].todo # {}
      PROVE  TaskInv'
  <2>1. \A c \in task'[t].ready : HasEvents(c)'
    BY <1>1, <1>3, <1>5
  <2>2. /\ task'[t].pc \notin {"accept", "accepted", "publish", "recv", "fetch", "minus", "fin"}
        /\ task'[t].pc \notin Accepting /\ task'[t].pc \notin Reading
    BY <1>5 DEF Selecting, Accepting, Reading
  <2>3. Readset(t)' # {}
    BY <1>2, <1>3, <1>4
  <2>4. /\ task'[t].todo \subseteq Readset(t)' /\ task'[t].ready \subseteq Readset(t)'
        /\ task'[t].pc = "count" => task'[t].todo # {}
    BY <1>2, <1>5
  <2>5. TaskOK(t)'
    BY <2>1, <2>2, <2>3, <2>4, Zenon DEF TaskOK
  <2>6. \A u \in Tasks \ {t} : TaskOK(u)'
    BY <1>1, CalmTask DEF TaskInv
  <2> QED BY <2>5, <2>6 DEF TaskInv
\* The beginning of a loop, and the end of select.
<1>6. ASSUME NEW pc \in Selecting, NEW how, Loop(t, pc, how) PROVE TaskInv'
  <2>1. task'[t].todo = Readset(t) /\ task'[t].ready = {} /\ task'[t].pc = pc
    BY <1>3, <1>6 DEF Loop, TaskType
  <2> QED BY <1>3, <1>4, <1>5, <2>1
<1>7. ASSUME Returns(t) PROVE TaskInv'
  <2>1. task'[t].todo = {} /\ task'[t].ready = task[t].ready /\ task'[t].pc = "serve"
    BY <1>3, <1>7 DEF Returns, Between
  <2> QED BY <1>3, <1>5, <2>1
<1>8. CASE SelScan(t)
  <2> DEFINE c == Min(task[t].todo)
             ready == task[t].ready \cup
                        (IF sock[c].left > 0 \/ sock[c].rcvevent > 0 THEN {c} ELSE {})
  <2>1. c \in Readset(t)
    BY <1>3, <1>8, MinConn DEF SelScan
  <2>2. ready \subseteq Readset(t) /\ \A d \in ready : HasEvents(d)
    BY <1>3, <2>1 DEF HasEvents
  <2>3. \/ task'[t] = Between(ready)
        \/ task'[t] = [task[t] EXCEPT !.todo = task[t].todo \ {c}, !.ready = ready]
    BY <1>3, <1>8 DEF SelScan
  <2>4. task[t].pc # "count"
    BY <1>8 DEF SelScan
  <2> HIDE DEF c, ready
  <2>5. CASE task'[t] = Between(ready)
    <3>1. task'[t].todo = {} /\ task'[t].ready = ready /\ task'[t].pc = "serve"
      BY <2>5 DEF Between
    <3> QED BY <1>5, <2>2, <3>1
  <2>6. CASE task'[t] = [task[t] EXCEPT !.todo = task[t].todo \ {c}, !.ready = ready]
    <3>1. /\ task'[t].todo = task[t].todo \ {c} /\ task'[t].ready = ready
          /\ task'[t].pc = task[t].pc
      BY <1>3, <2>6 DEF TaskType
    <3> QED BY <1>3, <1>4, <1>5, <2>2, <2>4, <3>1
  <2> QED BY <2>3, <2>5, <2>6
<1>9. CASE Enlist(t)
  BY <1>6, <1>9 DEF Enlist, Selecting
<1>10. ASSUME task' = [task EXCEPT ![t].todo = task[t].todo \ {Min(task[t].todo)}],
              task[t].pc = "count" => task[t].todo # {Min(task[t].todo)}
       PROVE  TaskInv'
  <2>1. /\ task'[t].todo = task[t].todo \ {Min(task[t].todo)}
        /\ task'[t].ready = task[t].ready /\ task'[t].pc = task[t].pc
    BY <1>3, <1>10 DEF TaskType
  <2>2. task[t].pc = "count" => task'[t].todo # {}
    BY <1>3, <1>10, <2>1
  <2> QED BY <1>3, <1>4, <1>5, <2>1, <2>2
<1>11. CASE Count(t)
  <2>1. CASE task[t].todo = {Min(task[t].todo)}
    BY <1>6, <1>11, <2>1 DEF Count, Selecting
  <2>2. CASE task[t].todo # {Min(task[t].todo)}
    BY <1>10, <1>11, <2>2 DEF Count
  <2> QED BY <2>1, <2>2
<1>12. CASE SemWait(t)
  BY <1>6, <1>12 DEF SemWait, Selecting
<1>13. CASE Uncount(t)
  <2>1. task[t].pc = "uncount"
    BY <1>13 DEF Uncount
  <2>2. CASE task[t].todo = {}
    <3>1. /\ task'[t].todo = task[t].todo /\ task'[t].ready = task[t].ready
          /\ task'[t].pc = "drain"
      BY <1>3, <1>13, <2>2 DEF Uncount, Goto, TaskType
    <3> QED BY <1>3, <1>5, <3>1 DEF Selecting
  <2>3. CASE task[t].todo # {}
    BY <1>10, <1>13, <2>1, <2>3 DEF Uncount
  <2> QED BY <2>2, <2>3
<1>14. CASE Drain(t)
  BY <1>6, <1>7, <1>14 DEF Drain, Selecting
<1> QED BY <1>8, <1>9, <1>11, <1>12, <1>13, <1>14 DEF Select

\* What a step does that is not one of select: at most one socket changes, and
\* the task owns it.
LEMMA ServeEffect ==
  ASSUME Shape, TaskInv, NEW t \in Tasks, Serve(t) \/ Accept(t) \/ Recv(t) \/ Close(t)
  PROVE  \E c \in Conns : /\ Owner[c] = t \/ UNCHANGED <<conn, sock>>
                          /\ \A d \in Conns \ {c} : conn'[d] = conn[d] /\ sock'[d] = sock[d]
<1>1. /\ conn \in [Conns -> ConnType] /\ sock \in [Conns -> SockType]
      /\ task[t].cur \in Conns /\ Listener \in Conns
  BY TaskFacts, SocketsAssumption
<1>2. /\ task[t].pc \in {"accept", "accepted"} => Owner[Listener] = t
      /\ task[t].pc \in Accepting \cup Reading => Owner[task[t].cur] = t
  BY DEF TaskInv, TaskOK, Readset
<1>3. \/ UNCHANGED <<conn, sock>>
      \/ /\ task[t].pc \in {"accept", "accepted"}
         /\ \A d \in Conns \ {Listener} : conn'[d] = conn[d] /\ sock'[d] = sock[d]
      \/ /\ task[t].pc \in Accepting \cup Reading
         /\ \A d \in Conns \ {task[t].cur} : conn'[d] = conn[d] /\ sock'[d] = sock[d]
  <2> USE <1>1 DEF Accepting, Reading
  <2>1. CASE Serve(t)
    BY <2>1 DEF Serve
  <2>2. CASE NetconnAccept(t)
    BY <2>2 DEF NetconnAccept
  <2>3. CASE Accepted(t)
    BY <2>3 DEF Accepted, OwnEvent
  <2>4. CASE AllocSocket(t)
    BY <2>4 DEF AllocSocket, Deleted
  <2>5. CASE Publish(t)
    BY <2>5 DEF Publish, OwnEvent
  <2>6. CASE RecvRound(t)
    BY <2>6, SMTT(30) DEF RecvRound
  <2>7. CASE Fetch(t)
    BY <2>7 DEF Fetch
  <2>8. CASE RecvMinus(t)
    BY <2>8, SMTT(30) DEF RecvMinus, OwnEvent
  <2>9. CASE Copy(t)
    BY <2>9 DEF Copy
  <2>10. CASE Return(t)
    BY <2>10 DEF Return
  <2>11. CASE RecvFin(t)
    BY <2>11 DEF RecvFin, OwnEvent
  <2>12. CASE Close(t)
    BY <2>12 DEF Close, Deleted
  <2> QED BY <2>1, <2>2, <2>3, <2>4, <2>5, <2>6, <2>7, <2>8, <2>9, <2>10, <2>11, <2>12
          DEF Accept, Recv
<1> QED BY <1>1, <1>2, <1>3

\* So the other tasks are not disturbed.
LEMMA ServeOthers ==
  ASSUME Shape, Shape', TaskInv, NEW t \in Tasks, Serve(t) \/ Accept(t) \/ Recv(t) \/ Close(t)
  PROVE  \A u \in Tasks \ {t} : TaskOK(u)'
<1>1. PICK c \in Conns : /\ Owner[c] = t \/ UNCHANGED <<conn, sock>>
                         /\ \A d \in Conns \ {c} : conn'[d] = conn[d] /\ sock'[d] = sock[d]
  BY ServeEffect
<1>2. \A d \in Conns : sock[d].rcvevent \in Int
  BY DEF Shape, SockType
<1>3. ASSUME NEW u \in Tasks \ {t} PROVE TaskOK(u)'
  <2>1. \A d \in Conns : Owner[d] = u => Calm(d)
    <3>1. ASSUME NEW d \in Conns, Owner[d] = u PROVE conn'[d] = conn[d] /\ sock'[d] = sock[d]
      BY <1>1, <1>3, <3>1
    <3> QED BY <1>2, <3>1 DEF Calm, HasSocket
  <2>2. task'[u] = task[u]
    BY OutsideSelect
  <2> QED BY <2>1, <2>2, CalmTask DEF TaskInv
<1> QED BY <1>3

\* The task itself, where no socket of it appears or goes.
LEMMA ServeTask1 ==
  ASSUME Shape, Shape', TaskInv, ConnInv, QueueInv, NEW t \in Tasks,
         Serve(t) \/ NetconnAccept(t) \/ Accepted(t) \/ RecvRound(t) \/ Fetch(t)
           \/ RecvMinus(t) \/ Copy(t) \/ Return(t) \/ RecvFin(t)
  PROVE  TaskOK(t)'
<1> DEFINE cur == task[t].cur
<1>1. /\ conn \in [Conns -> ConnType] /\ sock \in [Conns -> SockType]
      /\ task \in [Tasks -> TaskType] /\ cur \in Conns /\ Listener \in Conns
      /\ Readset(t) \in SUBSET Conns
      /\ \A c \in Conns : sock[c].rcvevent \in Int /\ sock[c].left \in Int
  BY TaskFacts, SocketsAssumption DEF SockType
<1>2. /\ task[t].todo \subseteq Readset(t) /\ task[t].ready \subseteq Readset(t)
      /\ \A c \in task[t].ready : HasEvents(c)
      /\ task[t].pc \in {"accept", "accepted"} =>
           Owner[Listener] = t /\ sock[Listener].rcvevent > 0 /\ Listener \notin task[t].ready
      /\ task[t].pc \in Accepting =>
           /\ cur \in Incoming /\ Owner[cur] = t
           /\ conn[cur].st = "open" /\ conn[cur].socket < 0
      /\ task[t].pc \in Reading => cur \in Readset(t) \ task[t].ready /\ cur # Listener
      /\ task[t].pc = "recv" => HasEvents(cur)
      /\ task[t].pc \in {"fetch", "minus", "fin"} => sock[cur].rcvevent > 0
  BY DEF TaskInv, TaskOK
<1>3. \A c \in Conns : conn'[c].st = conn[c].st /\ conn'[c].socket = conn[c].socket
  <2>1. CASE UNCHANGED conn
    BY <2>1
  <2>2. ASSUME NEW d \in Conns, conn' = [conn EXCEPT ![d].mbox = Tail(@)]
        PROVE  \A c \in Conns : conn'[c].st = conn[c].st /\ conn'[c].socket = conn[c].socket
    BY <1>1, <2>2, SMTT(30) DEF ConnType
  <2>3. UNCHANGED conn \/ \E d \in Conns : conn' = [conn EXCEPT ![d].mbox = Tail(@)]
    BY <1>1 DEF Serve, NetconnAccept, Accepted, RecvRound, Fetch, RecvMinus, Copy, Return,
                RecvFin
  <2> QED BY <2>1, <2>2, <2>3
<1>4. Readset(t)' = Readset(t)
  BY <1>1, <1>3 DEF Readset, HasSocket
<1>5. \A c \in task[t].ready : HasEvents(c)'
  <2>1. \A c \in task[t].ready : sock'[c] = sock[c]
    BY <1>1, <1>2 DEF Serve, NetconnAccept, Accepted, RecvRound, Fetch, RecvMinus, Copy,
              Return, RecvFin, OwnEvent, Reading
  <2> QED BY <1>2, <2>1 DEF HasEvents
\* While the task receives.
<1>6. ASSUME task[t].pc \in Reading, task'[t].todo \subseteq task[t].todo,
             task'[t].ready = task[t].ready, task'[t].cur = cur,
             task'[t].pc \in Reading,
             task'[t].pc = "recv" => sock'[cur].left > 0 \/ sock'[cur].rcvevent > 0,
             task'[t].pc \in {"fetch", "minus", "fin"} => sock'[cur].rcvevent > 0
      PROVE  TaskOK(t)'
  <2>1. task'[t].pc \notin Selecting \cup {"accept", "accepted", "publish"} \cup Accepting
        /\ task'[t].pc # "count"
    BY <1>6 DEF Reading, Selecting, Accepting
  <2>2. task'[t].pc = "recv" => HasEvents(task[t].cur)'
    BY <1>6 DEF HasEvents
  <2>3. /\ task'[t].todo \subseteq Readset(t)' /\ task'[t].ready \subseteq Readset(t)'
        /\ \A c \in task'[t].ready : HasEvents(c)'
        /\ task'[t].cur \in Readset(t)' \ task'[t].ready /\ task'[t].cur # Listener
        /\ task'[t].pc \in {"fetch", "minus", "fin"} => sock'[task'[t].cur].rcvevent > 0
    BY <1>2, <1>4, <1>5, <1>6
  <2> QED BY <2>1, <2>2, <2>3, Zenon DEF TaskOK
<1>7. CASE Serve(t)
  <2>1. UNCHANGED <<conn, sock>>
    BY <1>7 DEF Serve
  <2>2. CASE task[t].ready = {}
    <3>1. /\ task'[t].todo = Readset(t) /\ task'[t].ready = {} /\ task'[t].pc = "scan"
          /\ Readset(t) # {}
      BY <1>1, <1>7, <2>2 DEF Serve, Loop, TaskType
    <3>2. task'[t].pc \notin {"count", "accept", "accepted", "publish", "recv", "fetch", "minus", "fin"}
          /\ task'[t].pc \notin Accepting /\ task'[t].pc \notin Reading
      BY <3>1 DEF Accepting, Reading
    <3>3. /\ task'[t].todo \subseteq Readset(t)' /\ task'[t].ready \subseteq Readset(t)'
          /\ \A c \in task'[t].ready : HasEvents(c)'
          /\ Readset(t)' # {}
      BY <1>4, <3>1
    <3> QED BY <3>2, <3>3, Zenon DEF TaskOK
  <2>3. CASE task[t].ready # {}
    <3> DEFINE c == Min(task[t].ready)
    <3>1. c \in task[t].ready /\ c \in Conns /\ c \in Readset(t) /\ Owner[c] = t
      BY <1>1, <1>2, <2>3, MinConn DEF Readset
    <3>2. /\ task'[t].todo = task[t].todo /\ task'[t].ready = task[t].ready \ {c}
          /\ task'[t].cur = c /\ task'[t].pc = IF c = Listener THEN "accept" ELSE "recv"
      BY <1>1, <1>7, <2>3 DEF Serve, TaskType
    <3>3. HasEvents(c)
      BY <1>2, <3>1
    <3> HIDE DEF c
    <3>4. /\ task'[t].todo \subseteq Readset(t)' /\ task'[t].ready \subseteq Readset(t)'
          /\ \A d \in task'[t].ready : HasEvents(d)'
      BY <1>2, <1>4, <1>5, <3>2
    <3>5. CASE c = Listener
      <4>1. sock'[Listener].rcvevent > 0
        BY <1>1, <2>1, <3>3, <3>5 DEF HasEvents, ConnInv
      <4>2. /\ task'[t].pc = "accept" /\ task'[t].pc \notin Selecting
            /\ task'[t].pc \notin Accepting /\ task'[t].pc \notin Reading
        BY <3>2, <3>5 DEF Selecting, Accepting, Reading
      <4>3. Listener \notin task'[t].ready /\ Owner[Listener] = t
        BY <3>1, <3>2, <3>5
      <4> QED BY <3>4, <4>1, <4>2, <4>3 DEF TaskOK
    <3>6. CASE c # Listener
      <4>1. /\ task'[t].pc = "recv" /\ task'[t].pc \notin Selecting
            /\ task'[t].pc \notin Accepting /\ task'[t].pc \in Reading
        BY <3>2, <3>6 DEF Selecting, Accepting, Reading
      <4>2. HasEvents(task[t].cur)'
        BY <2>1, <3>2, <3>3 DEF HasEvents
      <4>3. task'[t].cur \in Readset(t)' \ task'[t].ready /\ task'[t].cur # Listener
        BY <1>4, <3>1, <3>2, <3>6
      <4> QED BY <3>4, <4>1, <4>2, <4>3 DEF TaskOK
    <3> QED BY <3>5, <3>6
  <2> QED BY <2>2, <2>3
<1>8. CASE NetconnAccept(t)
  <2> DEFINE c == Head(conn[Listener].mbox)
  <2>1. /\ task'[t].todo = task[t].todo /\ task'[t].ready = task[t].ready
        /\ task'[t].pc = "accepted" /\ task'[t].cur = c
        /\ UNCHANGED sock /\ task[t].pc = "accept"
    BY <1>1, <1>8 DEF NetconnAccept, TaskType
  <2>2. c \in Incoming /\ 1 \in DOMAIN conn[Listener].mbox /\ conn[Listener].mbox[1] = c
    BY <1>8, MboxIs DEF NetconnAccept, ConnInv
  <2>3. c \in Conns /\ conn[c].st = "open" /\ conn[c].socket < 0 /\ Owner[c] = t
    BY <1>2, <2>1, <2>2, SocketsAssumption DEF QueueInv
  <2> HIDE DEF c
  <2>4. /\ task'[t].pc \notin Selecting /\ task'[t].pc \notin Reading
        /\ task'[t].pc \notin {"count", "publish", "recv", "fetch", "minus", "fin"}
    BY <2>1 DEF Selecting, Reading
  <2>5. /\ task'[t].todo \subseteq Readset(t)' /\ task'[t].ready \subseteq Readset(t)'
        /\ \A d \in task'[t].ready : HasEvents(d)'
        /\ Owner[Listener] = t /\ sock'[Listener].rcvevent > 0
        /\ Listener \notin task'[t].ready
        /\ task'[t].cur \in Incoming /\ Owner[task'[t].cur] = t
        /\ conn'[task'[t].cur].st = "open" /\ conn'[task'[t].cur].socket < 0
    BY <1>2, <1>3, <1>4, <1>5, <2>1, <2>2, <2>3
  <2> QED BY <2>4, <2>5, Zenon DEF TaskOK
<1>9. CASE Accepted(t)
  <2>1. /\ task'[t].todo = task[t].todo /\ task'[t].ready = task[t].ready
        /\ task'[t].pc = "alloc" /\ task'[t].cur = task[t].cur
        /\ task[t].pc = "accepted"
    BY <1>1, <1>9 DEF Accepted, Goto, TaskType
  <2>2. /\ task'[t].pc \notin Selecting /\ task'[t].pc \notin Reading
        /\ task'[t].pc \notin {"count", "accept", "accepted", "publish", "recv", "fetch",
                               "minus", "fin"}
        /\ task[t].pc \in Accepting
    BY <2>1 DEF Selecting, Reading, Accepting
  <2>3. /\ task'[t].todo \subseteq Readset(t)' /\ task'[t].ready \subseteq Readset(t)'
        /\ \A d \in task'[t].ready : HasEvents(d)'
        /\ task'[t].cur \in Incoming /\ Owner[task'[t].cur] = t
        /\ conn'[task'[t].cur].st = "open" /\ conn'[task'[t].cur].socket < 0
    BY <1>1, <1>2, <1>3, <1>4, <1>5, <2>1, <2>2
  <2> QED BY <2>2, <2>3, Zenon DEF TaskOK
<1>10. CASE RecvRound(t)
  <2>1. /\ task'[t].todo = task[t].todo /\ task'[t].ready = task[t].ready
        /\ task'[t].cur = cur /\ UNCHANGED sock
        /\ task'[t].pc \in {"copy", "fetch", "return", "close"}
        /\ task'[t].pc = "fetch" => ~(sock[cur].left > 0)
        /\ task[t].pc = "recv"
    BY <1>1, <1>10 DEF RecvRound, Goto, TaskType
  <2>2. task'[t].pc = "fetch" => sock'[cur].rcvevent > 0
    BY <1>2, <2>1 DEF HasEvents
  <2>3. task[t].pc \in Reading /\ task'[t].pc \in Reading
    BY <2>1 DEF Reading
  <2> QED BY <1>6, <2>1, <2>2, <2>3
<1>11. CASE Fetch(t)
  <2>1. /\ task'[t].todo = task[t].todo /\ task'[t].ready = task[t].ready
        /\ task'[t].cur = cur /\ sock'[cur].rcvevent = sock[cur].rcvevent
        /\ task'[t].pc \in {"fin", "minus"} /\ task[t].pc = "fetch"
    BY <1>1, <1>11 DEF Fetch, Goto, TaskType, SockType
  <2>2. task[t].pc \in Reading /\ task'[t].pc \in Reading
    BY <2>1 DEF Reading
  <2> QED BY <1>2, <1>6, <2>1, <2>2
<1>12. CASE RecvMinus(t)
  <2>1. /\ task'[t].todo = task[t].todo /\ task'[t].ready = task[t].ready
        /\ task'[t].cur = cur /\ task'[t].pc = "copy" /\ task[t].pc = "minus"
    BY <1>1, <1>12 DEF RecvMinus, Goto, TaskType
  <2>2. task[t].pc \in Reading /\ task'[t].pc \in Reading
    BY <2>1 DEF Reading
  <2> QED BY <1>6, <2>1, <2>2
<1>13. CASE Copy(t)
  <2>1. /\ task'[t].todo = task[t].todo /\ task'[t].ready = task[t].ready
        /\ task'[t].cur = cur /\ task'[t].pc \in {"return", "recv"}
        /\ task'[t].pc = "recv" => ~(sock[cur].rcvevent <= 0)
        /\ task[t].pc = "copy"
    BY <1>1, <1>13 DEF Copy, TaskType
  <2>2. sock'[cur].rcvevent = sock[cur].rcvevent
    BY <1>1, <1>13 DEF Copy, SockType
  <2>3. task'[t].pc = "recv" => sock'[cur].rcvevent > 0
    BY <1>1, <2>1, <2>2
  <2>4. task[t].pc \in Reading /\ task'[t].pc \in Reading
    BY <2>1 DEF Reading
  <2> QED BY <1>6, <2>1, <2>3, <2>4
<1>14. CASE Return(t)
  <2>1. task'[t].todo = {} /\ task'[t].ready = task[t].ready /\ task'[t].pc = "serve"
    BY <1>1, <1>14 DEF Return, Returns, Between
  <2>2. /\ task'[t].pc \notin Selecting /\ task'[t].pc \notin Reading
        /\ task'[t].pc \notin Accepting
        /\ task'[t].pc \notin {"count", "accept", "accepted", "publish", "recv", "fetch",
                               "minus", "fin"}
    BY <2>1 DEF Selecting, Reading, Accepting
  <2>3. /\ task'[t].todo \subseteq Readset(t)' /\ task'[t].ready \subseteq Readset(t)'
        /\ \A d \in task'[t].ready : HasEvents(d)'
    BY <1>2, <1>4, <1>5, <2>1
  <2> QED BY <2>2, <2>3, Zenon DEF TaskOK
<1>15. CASE RecvFin(t)
  <2>1. /\ task'[t].todo = task[t].todo /\ task'[t].ready = task[t].ready
        /\ task'[t].cur = cur /\ task'[t].pc \in {"return", "close"} /\ task[t].pc = "fin"
    BY <1>1, <1>15 DEF RecvFin, Goto, TaskType
  <2>2. task[t].pc \in Reading /\ task'[t].pc \in Reading
    BY <2>1 DEF Reading
  <2> QED BY <1>6, <2>1, <2>2
<1> QED BY <1>7, <1>8, <1>9, <1>10, <1>11, <1>12, <1>13, <1>14, <1>15

\* And where one does: alloc_socket, the end of accept, and close.
LEMMA ServeTask2 ==
  ASSUME Shape, Shape', TaskInv, NEW t \in Tasks, AllocSocket(t) \/ Publish(t) \/ Close(t)
  PROVE  TaskOK(t)'
<1> DEFINE cur == task[t].cur
<1>1. /\ conn \in [Conns -> ConnType] /\ sock \in [Conns -> SockType]
      /\ task \in [Tasks -> TaskType] /\ cur \in Conns
      /\ Readset(t) \in SUBSET Conns
  BY TaskFacts
<1>2. /\ task[t].todo \subseteq Readset(t) /\ task[t].ready \subseteq Readset(t)
      /\ \A c \in task[t].ready : HasEvents(c)
      /\ task[t].pc \in Accepting =>
           /\ cur \in Incoming /\ Owner[cur] = t
           /\ conn[cur].st = "open" /\ conn[cur].socket < 0
      /\ task[t].pc \in Reading => cur \in Readset(t) \ task[t].ready /\ cur # Listener
  BY DEF TaskInv, TaskOK
<1>3. task[t].pc \in {"alloc", "publish", "close"}
  BY DEF AllocSocket, Publish, Close
<1>4. cur \notin task[t].ready
  <2>1. CASE task[t].pc \in Accepting
    BY <1>1, <1>2, <2>1 DEF Readset, HasSocket, ConnType
  <2>2. CASE task[t].pc \in Reading
    BY <1>2, <2>2
  <2> QED BY <1>3, <2>1, <2>2 DEF Accepting, Reading
<1>5. \A c \in Conns \ {cur} : conn'[c] = conn[c] /\ sock'[c] = sock[c]
  BY <1>1 DEF AllocSocket, Publish, Close, Deleted, OwnEvent
<1>6. task[t].ready \subseteq Readset(t)' /\ \A c \in task[t].ready : HasEvents(c)'
  <2>1. ASSUME NEW c \in task[t].ready PROVE c \in Readset(t)' /\ HasEvents(c)'
    <3>1. c \in Conns /\ Owner[c] = t /\ HasSocket(c) /\ HasEvents(c)
      BY <1>2 DEF Readset
    <3>2. conn'[c] = conn[c] /\ sock'[c] = sock[c]
      BY <1>4, <1>5, <3>1
    <3> QED BY <3>1, <3>2 DEF Readset, HasSocket, HasEvents
  <2> QED BY <2>1
<1>7. ASSUME Returns(t) PROVE TaskOK(t)'
  <2>1. task'[t].todo = {} /\ task'[t].ready = task[t].ready /\ task'[t].pc = "serve"
    BY <1>1, <1>7 DEF Returns, Between
  <2>2. /\ task'[t].pc \notin Selecting /\ task'[t].pc \notin Reading
        /\ task'[t].pc \notin Accepting
        /\ task'[t].pc \notin {"count", "accept", "accepted", "publish", "recv", "fetch",
                               "minus", "fin"}
    BY <2>1 DEF Selecting, Reading, Accepting
  <2>3. /\ task'[t].todo \subseteq Readset(t)' /\ task'[t].ready \subseteq Readset(t)'
        /\ \A d \in task'[t].ready : HasEvents(d)'
    BY <1>6, <2>1
  <2> QED BY <2>2, <2>3, Zenon DEF TaskOK
<1>8. ASSUME Goto(t, "publish"), sock' = [sock EXCEPT ![cur] = NewSock], UNCHANGED conn,
             task[t].pc = "alloc"
      PROVE  TaskOK(t)'
  <2>1. /\ task'[t].todo = task[t].todo /\ task'[t].ready = task[t].ready
        /\ task'[t].pc = "publish" /\ task'[t].cur = cur
    BY <1>1, <1>8 DEF Goto, TaskType
  <2>2. /\ task'[t].pc \notin Selecting /\ task'[t].pc \notin Reading
        /\ task'[t].pc \notin {"count", "accept", "accepted", "recv", "fetch", "minus", "fin"}
        /\ task[t].pc \in Accepting
    BY <1>8, <2>1 DEF Selecting, Reading, Accepting
  <2>3. sock'[cur].rcvevent = 0
    BY <1>1, <1>8 DEF NewSock
  <2>4. Readset(t)' = Readset(t)
    BY <1>8 DEF Readset, HasSocket
  <2>5. /\ task'[t].todo \subseteq Readset(t)' /\ task'[t].ready \subseteq Readset(t)'
        /\ \A d \in task'[t].ready : HasEvents(d)'
        /\ sock'[task'[t].cur].rcvevent = 0
        /\ task'[t].cur \in Incoming /\ Owner[task'[t].cur] = t
        /\ conn'[task'[t].cur].st = "open" /\ conn'[task'[t].cur].socket < 0
    BY <1>2, <1>6, <1>8, <2>1, <2>2, <2>3, <2>4
  <2> QED BY <2>2, <2>5, Zenon DEF TaskOK
<1> QED BY <1>7, <1>8 DEF AllocSocket, Publish, Close

LEMMA ServeTask ==
  ASSUME Shape, Shape', TaskInv, ConnInv, QueueInv, NEW t \in Tasks,
         Serve(t) \/ Accept(t) \/ Recv(t) \/ Close(t)
  PROVE  TaskInv'
<1>1. TaskOK(t)'
  BY ServeTask1, ServeTask2 DEF Accept, Recv
<1>2. \A u \in Tasks \ {t} : TaskOK(u)'
  BY ServeOthers
<1> QED BY <1>1, <1>2 DEF TaskInv
-----------------------------------------------------------------------------
(* select_waiting *)

\* Where the task does not select, nothing of it is counted.
LEMMA OutsideWaiting ==
  ASSUME Shape, Shape', TaskInv, ConnInv, QueueInv, WaitingInv,
         Tcpip \/ Network
           \/ \E t \in Tasks : Serve(t) \/ Accept(t) \/ Recv(t) \/ Close(t)
  PROVE  WaitingInv'
<1>1. CASE Tcpip \/ Network
  <2>1. \A c \in Conns : sock'[c].waiting = sock[c].waiting
    <3>1. /\ sock \in [Conns -> SockType] /\ tcpip.conn \in Conns
      BY SMTT(30) DEF Shape, TcpipType
    <3>2. UNCHANGED sock \/ sock' = [sock EXCEPT ![tcpip.conn].rcvevent = @ + 1]
      BY <1>1 DEF Tcpip, Network, EventCallback, WalkOn, PostNull, RecvTcp, AcceptFunction,
                  ErrTcp
    <3> QED BY <3>1, <3>2 DEF SockType
  <2>2. \A c \in Conns : Counted(Owner[c], c)' <=> Counted(Owner[c], c)
    BY <1>1, TcpipCalm DEF Counted, Calm
  <2> QED BY <2>1, <2>2 DEF WaitingInv
<1>2. ASSUME NEW t \in Tasks, Serve(t) \/ Accept(t) \/ Recv(t) \/ Close(t)
      PROVE  WaitingInv'
  <2>1. PICK c \in Conns : /\ Owner[c] = t \/ UNCHANGED <<conn, sock>>
                           /\ \A d \in Conns \ {c} : conn'[d] = conn[d] /\ sock'[d] = sock[d]
    BY <1>2, ServeEffect
  <2>2. /\ \A u \in Tasks \ {t} : task'[u] = task[u]
        /\ task[t].pc \notin {"count", "rescan", "uncount"}
        /\ task'[t].pc \notin {"count", "rescan", "uncount"}
    BY <1>2, OutsideSelect
  <2>3. \A d \in Conns : Owner[d] = t => ~Counted(Owner[d], d) /\ ~Counted(Owner[d], d)'
    BY <2>2 DEF Counted
  <2>4. \A d \in Conns : Owner[d] \in Tasks
    BY SocketsAssumption
  <2>5. \A d \in Conns : Owner[d] # t =>
          (Counted(Owner[d], d)' <=> Counted(Owner[d], d)) /\ sock'[d].waiting = sock[d].waiting
    BY <2>1, <2>2, <2>4 DEF Counted, HasSocket
  <2>6. \A d \in Conns : Owner[d] = t =>
          sock'[d].waiting = sock[d].waiting \/ sock'[d].waiting = 0
    <3>1. /\ sock \in [Conns -> SockType] /\ task[t].cur \in Conns /\ Listener \in Conns
      BY TaskFacts, SocketsAssumption
    <3>2. \/ UNCHANGED sock
          \/ \E d \in Conns : \E n : sock' = [sock EXCEPT ![d].rcvevent = n]
          \/ \E d \in Conns : \E n, p : sock' = [sock EXCEPT ![d].left = n, ![d].push = p]
          \/ \E d \in Conns : sock' = [sock EXCEPT ![d] = NewSock]
      <4> USE <3>1
      <4>1. CASE Serve(t) \/ NetconnAccept(t) \/ RecvRound(t) \/ Return(t)
        BY <4>1 DEF Serve, NetconnAccept, RecvRound, Return
      <4>2. CASE Accepted(t) \/ Publish(t) \/ RecvMinus(t) \/ RecvFin(t)
        BY <4>2 DEF Accepted, Publish, RecvMinus, RecvFin, OwnEvent
      <4>3. CASE AllocSocket(t) \/ Close(t)
        BY <4>3 DEF AllocSocket, Close
      <4>4. CASE Fetch(t)
        BY <4>4 DEF Fetch
      <4>5. CASE Copy(t)
        BY <4>5 DEF Copy
      <4> QED BY <1>2, <4>1, <4>2, <4>3, <4>4, <4>5 DEF Accept, Recv
    <3>3. CASE \E d \in Conns : sock' = [sock EXCEPT ![d] = NewSock]
      BY <3>1, <3>3 DEF NewSock
    <3>4. CASE \E d \in Conns : \E n : sock' = [sock EXCEPT ![d].rcvevent = n]
      BY <3>1, <3>4 DEF SockType
    <3>5. CASE \E d \in Conns : \E n, p : sock' = [sock EXCEPT ![d].left = n, ![d].push = p]
      BY <3>1, <3>5 DEF SockType
    <3> QED BY <3>2, <3>3, <3>4, <3>5
  <2>7. \A d \in Conns : Owner[d] = t => sock'[d].waiting = 0
    BY <2>3, <2>6 DEF WaitingInv
  <2> QED BY <2>3, <2>5, <2>7 DEF WaitingInv
<1> QED BY <1>1, <1>2

\* In select.
LEMMA SelectWaiting ==
  ASSUME Shape, Shape', TaskInv, WaitingInv, NEW t \in Tasks, Select(t)
  PROVE  WaitingInv'
<1>1. /\ UNCHANGED conn /\ \A u \in Tasks \ {t} : task'[u] = task[u]
  BY SelectCalm
<1>2. /\ task \in [Tasks -> TaskType] /\ sock \in [Conns -> SockType]
      /\ task[t].todo \subseteq Readset(t)
      /\ Readset(t) \in SUBSET Conns
      /\ \A c \in Conns : Owner[c] \in Tasks
  BY TaskFacts, SocketsAssumption DEF TaskInv, TaskOK
\* What is left to show: of the task's own sockets, the count goes with its place.
<1>3. ASSUME \A c \in Conns : Owner[c] # t => sock'[c].waiting = sock[c].waiting,
             \A c \in Readset(t) :
               sock'[c].waiting = IF Counted(t, c)' THEN 1 ELSE 0,
             \A c \in Conns \ Readset(t) : sock'[c].waiting = sock[c].waiting
      PROVE  WaitingInv'
  <2>1. ASSUME NEW c \in Conns, Owner[c] # t
        PROVE  sock'[c].waiting = IF Counted(Owner[c], c)' THEN 1 ELSE 0
    <3>1. Counted(Owner[c], c)' <=> Counted(Owner[c], c)
      BY <1>1, <1>2, <2>1 DEF Counted, HasSocket
    <3> QED BY <1>3, <2>1, <3>1 DEF WaitingInv
  <2>2. ASSUME NEW c \in Conns, Owner[c] = t, ~HasSocket(c)
        PROVE  sock'[c].waiting = IF Counted(Owner[c], c)' THEN 1 ELSE 0
    <3>1. ~Counted(Owner[c], c)' /\ ~Counted(Owner[c], c) /\ c \notin Readset(t)
      BY <1>1, <2>2 DEF Counted, HasSocket, Readset
    <3> QED BY <1>3, <3>1 DEF WaitingInv
  <2>3. ASSUME NEW c \in Conns, Owner[c] = t, HasSocket(c)
        PROVE  sock'[c].waiting = IF Counted(Owner[c], c)' THEN 1 ELSE 0
    <3>1. c \in Readset(t)
      BY <2>3 DEF Readset
    <3> QED BY <1>3, <2>3, <3>1
  <2> QED BY <2>1, <2>2, <2>3 DEF WaitingInv
\* Where nothing is counted in this step.
<1>4. ASSUME UNCHANGED sock, \A c \in Readset(t) : Counted(t, c)' <=> Counted(t, c)
      PROVE  WaitingInv'
  <2>1. \A c \in Readset(t) : Owner[c] = t /\ c \in Conns
    BY DEF Readset
  <2>2. \A c \in Readset(t) : sock'[c].waiting = IF Counted(t, c)' THEN 1 ELSE 0
    BY <1>4, <2>1 DEF WaitingInv
  <2> QED BY <1>3, <1>4, <2>2
\* Where select_waiting of one socket is changed.
<1>5. ASSUME NEW n \in Int, NEW m \in Readset(t), sock' = [sock EXCEPT ![m].waiting = n],
             n = IF Counted(t, m)' THEN 1 ELSE 0,
             \A c \in Readset(t) \ {m} : Counted(t, c)' <=> Counted(t, c)
      PROVE  WaitingInv'
  <2>1. m \in Conns /\ \A c \in Readset(t) : Owner[c] = t /\ c \in Conns
    BY DEF Readset
  <2>2. /\ sock'[m].waiting = n /\ \A c \in Conns \ {m} : sock'[c].waiting = sock[c].waiting
    BY <1>2, <1>5, <2>1 DEF SockType
  <2>3. ASSUME NEW c \in Readset(t) PROVE sock'[c].waiting = IF Counted(t, c)' THEN 1 ELSE 0
    <3>1. CASE c = m
      BY <1>5, <2>2, <3>1
    <3>2. CASE c # m
      <4>1. sock[c].waiting = IF Counted(t, c) THEN 1 ELSE 0
        BY <2>1 DEF WaitingInv
      <4> QED BY <1>5, <2>1, <2>2, <3>2, <4>1
    <3> QED BY <3>1, <3>2
  <2>4. \A c \in Conns : Owner[c] # t => sock'[c].waiting = sock[c].waiting
    BY <2>1, <2>2
  <2>5. \A c \in Conns \ Readset(t) : sock'[c].waiting = sock[c].waiting
    BY <2>1, <2>2
  <2> QED BY <1>3, <2>3, <2>4, <2>5
<1>6. \A c \in Readset(t) : HasSocket(c) /\ HasSocket(c)' /\ Owner[c] = t /\ c \in Conns
  BY <1>1 DEF Readset, HasSocket
<1>7. CASE SelScan(t)
  <2>1. UNCHANGED sock /\ task[t].pc \in {"scan", "rescan", "last"}
    BY <1>7 DEF SelScan
  <2>2. \/ task'[t].pc = "serve" /\ task[t].pc # "rescan"
        \/ task'[t].pc = task[t].pc
    BY <1>2, <1>7 DEF SelScan, TaskType, Between
  <2> QED BY <1>4, <1>6, <2>1, <2>2 DEF Counted
<1>8. CASE Enlist(t)
  <2>1. UNCHANGED sock /\ task[t].pc = "scan" /\ task'[t].pc = "count" /\ task'[t].todo = Readset(t)
    BY <1>2, <1>8 DEF Enlist, Loop, TaskType
  <2> QED BY <1>4, <2>1 DEF Counted
<1>9. CASE Count(t)
  <2>1. task[t].todo # {} /\ task[t].pc = "count"
    BY <1>9 DEF Count, TaskInv, TaskOK
  <2>2. PICK m \in Readset(t) : m = Min(task[t].todo) /\ m \in task[t].todo /\ m \in Conns
    BY <1>2, <2>1, MinConn
  <2>3. sock' = [sock EXCEPT ![m].waiting = @ + 1]
        /\ \/ task'[t].pc = "rescan" /\ task[t].todo = {m}
           \/ task'[t].pc = "count" /\ task'[t].todo = task[t].todo \ {m}
    BY <1>2, <1>9, <2>2 DEF Count, Loop, TaskType
  <2>4. ~Counted(t, m) /\ Counted(t, m)'
    BY <1>6, <2>1, <2>2, <2>3 DEF Counted
  <2>5. \A c \in Readset(t) \ {m} : Counted(t, c)' <=> Counted(t, c)
    BY <1>6, <2>1, <2>2, <2>3 DEF Counted
  <2>6. sock[m].waiting = 0
    BY <1>6, <2>2, <2>4 DEF WaitingInv
  <2>7. PICK n \in Int : n = 1
    OBVIOUS
  <2>8. sock' = [sock EXCEPT ![m].waiting = n]
    BY <1>2, <2>2, <2>3, <2>6, <2>7 DEF SockType
  <2>9. n = IF Counted(t, m)' THEN 1 ELSE 0
    BY <2>4, <2>7
  <2> QED BY <1>5, <2>5, <2>8, <2>9, Zenon
<1>10. CASE SemWait(t)
  <2>1. UNCHANGED sock /\ task[t].pc = "rescan" /\ task'[t].pc = "uncount"
        /\ task'[t].todo = Readset(t)
    BY <1>2, <1>10 DEF SemWait, Loop, TaskType
  <2> QED BY <1>4, <1>6, <2>1 DEF Counted
<1>11. CASE Uncount(t)
  <2>1. task[t].pc = "uncount"
    BY <1>11 DEF Uncount
  <2>2. CASE task[t].todo = {}
    <3>1. UNCHANGED sock /\ task'[t].pc = "drain"
      BY <1>2, <1>11, <2>2 DEF Uncount, Goto, TaskType
    <3> QED BY <1>4, <2>1, <2>2, <3>1 DEF Counted
  <2>3. CASE task[t].todo # {}
    <3>1. PICK m \in Readset(t) : m = Min(task[t].todo) /\ m \in task[t].todo /\ m \in Conns
      BY <1>2, <2>3, MinConn
    <3>2. sock' = [sock EXCEPT ![m].waiting = @ - 1]
          /\ task'[t].pc = "uncount" /\ task'[t].todo = task[t].todo \ {m}
      BY <1>2, <1>11, <2>3, <3>1 DEF Uncount, TaskType
    <3>3. Counted(t, m) /\ ~Counted(t, m)'
      BY <1>6, <2>1, <3>1, <3>2 DEF Counted
    <3>4. \A c \in Readset(t) \ {m} : Counted(t, c)' <=> Counted(t, c)
      BY <1>6, <2>1, <3>1, <3>2 DEF Counted
    <3>5. sock[m].waiting = 1
      BY <1>6, <3>1, <3>3 DEF WaitingInv
    <3>6. PICK n \in Int : n = 0
      OBVIOUS
    <3>7. sock' = [sock EXCEPT ![m].waiting = n]
      BY <1>2, <3>1, <3>2, <3>5, <3>6 DEF SockType
    <3>8. n = IF Counted(t, m)' THEN 1 ELSE 0
      BY <3>3, <3>6
    <3> QED BY <1>5, <3>4, <3>7, <3>8, Zenon
  <2> QED BY <2>2, <2>3
<1>12. CASE Drain(t)
  <2>1. UNCHANGED sock /\ task[t].pc = "drain" /\ task'[t].pc \in {"serve", "last"}
    BY <1>2, <1>12 DEF Drain, Loop, Returns, Between, TaskType
  <2> QED BY <1>4, <2>1 DEF Counted
<1> QED BY <1>7, <1>8, <1>9, <1>10, <1>11, <1>12 DEF Select

-----------------------------------------------------------------------------
(* Mailboxes and events *)

\* Nothing changes that the count of c depends on.
Same(c) ==
  /\ conn'[c] = conn[c] /\ sock'[c].rcvevent = sock[c].rcvevent
  /\ Coming(c)' <=> Coming(c)
  /\ Takes(c)' <=> Takes(c)
  /\ HasFin(c)' <=> HasFin(c)
  /\ c \in told' <=> c \in told

LEMMA SameOK ==
  ASSUME NEW c \in Conns, Same(c)
  PROVE  (FinOK(c) => FinOK(c)') /\ (CountOK(c) => CountOK(c)')
<1>1. Events(c)' = Events(c)
  BY DEF Events, Same
<1>2. FinOK(c) => FinOK(c)'
  BY DEF Same, FinOK
<1>3. CountOK(c) => CountOK(c)'
  <2>1. /\ Num(Coming(c)') = Num(Coming(c)) /\ Num(Takes(c)') = Num(Takes(c))
        /\ Num(c \in told') = Num(c \in told)
    BY DEF Same, Num
  <2> QED BY <1>1, <2>1, Zenon DEF Same, CountOK
<1> QED BY <1>2, <1>3

\* If that is so for all but one, the one is left to show.
LEMMA OneChanges ==
  ASSUME FinInv, CountInv, NEW c \in Conns, \A d \in Conns \ {c} : Same(d),
         c # Listener => FinOK(c)', CountOK(c)'
  PROVE  FinInv' /\ CountInv'
<1>1. \A d \in Conns \ {c} : (FinOK(d) => FinOK(d)') /\ (CountOK(d) => CountOK(d)')
  BY SameOK
<1> QED BY <1>1 DEF FinInv, CountInv

\* The two sides of the count change by the same number.
LEMMA CountStep ==
  ASSUME NEW c \in Conns, CountOK(c), conn[c].st = "open", conn'[c].err = conn[c].err,
         Events(c) \in Int, Len(conn[c].mbox) \in Int, NEW e \in Int, NEW n \in Int,
         Events(c)' = Events(c) + e, Len(conn'[c].mbox) = Len(conn[c].mbox) + n,
         e + Num(Coming(c)') + Num(Takes(c)) + Num(c \in told)
           = n + Num(Coming(c)) + Num(Takes(c)') + Num(c \in told')
  PROVE  CountOK(c)'
<1>1. /\ Num(Coming(c)) \in Int /\ Num(Takes(c)) \in Int /\ Num(c \in told) \in Int
      /\ Num(Coming(c)') \in Int /\ Num(Takes(c)') \in Int /\ Num(c \in told') \in Int
  BY DEF Num
<1>2. ASSUME ~conn[c].err
      PROVE  Events(c)' + Num(Coming(c)') = Len(conn'[c].mbox) + Num(Takes(c)') + Num(c \in told')
  <2>1. Events(c) + Num(Coming(c)) = Len(conn[c].mbox) + Num(Takes(c)) + Num(c \in told)
    BY <1>2 DEF CountOK
  <2> DEFINE a  == Events(c)
             b  == Len(conn[c].mbox)
             x1 == Num(Coming(c))    x2 == Num(Coming(c)')
             y1 == Num(Takes(c))     y2 == Num(Takes(c)')
             z1 == Num(c \in told)   z2 == Num(c \in told')
  <2>2. /\ a \in Int /\ b \in Int /\ x1 \in Int /\ y1 \in Int /\ z1 \in Int
        /\ x2 \in Int /\ y2 \in Int /\ z2 \in Int
        /\ a + x1 = b + y1 + z1 /\ e + x2 + y1 + z1 = n + x1 + y2 + z2
    BY <1>1, <2>1
  <2>3. Events(c)' = a + e /\ Len(conn'[c].mbox) = b + n
    OBVIOUS
  <2> HIDE DEF a, b, x1, x2, y1, y2, z1, z2
  <2>4. (a + e) + x2 = (b + n) + y2 + z2
    BY <2>2
  <2> QED BY <2>3, <2>4 DEF x2, y2, z2
<1> QED BY <1>2 DEF CountOK

\* A step of t, for a socket that has no part in it.
LEMMA TaskSame ==
  ASSUME Shape, NEW t \in Tasks, \A u \in Tasks \ {t} : task'[u] = task[u],
         tcpip'.at = tcpip.at, tcpip'.conn = tcpip.conn,
         NEW d \in Conns, conn'[d] = conn[d], sock'[d].rcvevent = sock[d].rcvevent,
         d \in told' <=> d \in told,
         task[t].pc \in {"minus", "fin"} => task[t].cur # d,
         task'[t].pc \in {"minus", "fin"} => task'[t].cur # d,
         "accepted" \in {task[t].pc, task'[t].pc} => d # Listener
  PROVE  Same(d)
<1>1. Coming(d)' <=> Coming(d)
  BY DEF Coming
<1>2. CASE Owner[d] = t
  <2>1. ~Takes(d) /\ ~Takes(d)' /\ ~HasFin(d) /\ ~HasFin(d)'
    BY <1>2 DEF Takes, HasFin
  <2> QED BY <1>1, <2>1 DEF Same
<1>3. CASE Owner[d] # t
  <2>1. task'[Owner[d]] = task[Owner[d]]
    BY <1>3, SocketsAssumption
  <2>2. (Takes(d)' <=> Takes(d)) /\ (HasFin(d)' <=> HasFin(d))
    BY <2>1 DEF Takes, HasFin
  <2> QED BY <1>1, <2>2 DEF Same
<1> QED BY <1>2, <1>3

\* The netconns that wait to be accepted go on to wait.
LEMMA QueueStays ==
  ASSUME QueueInv, conn'[Listener].mbox = conn[Listener].mbox,
         \A i \in DOMAIN conn[Listener].mbox :
           LET c == conn[Listener].mbox[i]
           IN  conn[c].st = "open" /\ conn[c].socket < 0
                 /\ (\A u \in Tasks : task[u].pc \in Accepting => task[u].cur # c)
               => conn'[c].st = "open" /\ conn'[c].socket < 0,
         \A u \in Tasks : task'[u].pc \in Accepting =>
                            task[u].pc \in Accepting /\ task'[u].cur = task[u].cur
  PROVE  QueueInv'
  BY DEF QueueInv

\* Steps that change no netconn and count no event.
LEMMA QuietMail ==
  ASSUME ConnInv, QueueInv, FinInv, CountInv, UNCHANGED <<conn, told>>,
         \A c \in Conns : Same(c) /\ sock'[c].left >= 0, sock'[Listener].left = 0,
         \A u \in Tasks : task'[u].pc \in Accepting =>
                            task[u].pc \in Accepting /\ task'[u].cur = task[u].cur
  PROVE  ConnInv' /\ QueueInv' /\ FinInv' /\ CountInv'
<1>1. FinInv' /\ CountInv'
  BY SameOK DEF FinInv, CountInv
<1>2. QueueInv'
  BY QueueStays
<1>3. \A c \in Conns : sock'[c].rcvevent = sock[c].rcvevent
  BY DEF Same
<1>4. ConnInv'
  BY <1>3 DEF ConnInv
<1> QED BY <1>1, <1>2, <1>4

\* The places of a task in select.
LEMMA SelectPlaces ==
  ASSUME Shape, NEW t \in Tasks, Select(t)
  PROVE  task[t].pc \in Selecting /\ task'[t].pc \in Selecting \cup {"serve"}
<1>1. task \in [Tasks -> TaskType]
  BY DEF Shape
<1> USE <1>1 DEF Selecting, TaskType, Loop, Returns, Goto, Between
<1>2. CASE SelScan(t)
  BY <1>2 DEF SelScan
<1>3. CASE Enlist(t)
  BY <1>3 DEF Enlist
<1>4. CASE Count(t)
  BY <1>4 DEF Count
<1>5. CASE SemWait(t)
  BY <1>5 DEF SemWait
<1>6. CASE Uncount(t)
  BY <1>6 DEF Uncount
<1>7. CASE Drain(t)
  BY <1>7 DEF Drain
<1> QED BY <1>2, <1>3, <1>4, <1>5, <1>6, <1>7 DEF Select

Mail == ConnInv /\ TcpipInv /\ QueueInv /\ FinInv /\ CountInv

LEMMA SelectMail ==
  ASSUME Shape, Shape', TaskInv, Mail, NEW t \in Tasks, Select(t)
  PROVE  Mail'
<1>1. /\ UNCHANGED <<conn, told>>
      /\ \A u \in Tasks \ {t} : task'[u] = task[u]
      /\ tcpip'.at = tcpip.at /\ tcpip'.conn = tcpip.conn /\ tcpip'.null = tcpip.null
      /\ \A c \in Conns : sock'[c].rcvevent = sock[c].rcvevent /\ sock'[c].left = sock[c].left
  BY SelectCalm DEF Calm
<1>2. /\ task[t].pc \notin {"minus", "fin", "accepted"}
      /\ task'[t].pc \notin {"minus", "fin", "accepted"} \cup Accepting
  BY SelectPlaces DEF Selecting, Accepting
<1>3. \A c \in Conns : Same(c)
  BY <1>1, <1>2, TaskSame
<1>4. /\ \A c \in Conns : sock'[c].left >= 0
      /\ sock'[Listener].left = 0
  BY <1>1, SocketsAssumption DEF Mail, ConnInv
<1>5. \A u \in Tasks : task'[u].pc \in Accepting =>
                         task[u].pc \in Accepting /\ task'[u].cur = task[u].cur
  BY <1>1, <1>2
<1>6. TcpipInv'
  BY <1>1 DEF Mail, TcpipInv
<1>7. ConnInv' /\ QueueInv' /\ FinInv' /\ CountInv'
  BY <1>1, <1>3, <1>4, <1>5, QuietMail DEF Mail
<1> QED BY <1>6, <1>7 DEF Mail

\* The steps of a task's work that neither take a message nor count an event.
LEMMA QuietServe ==
  ASSUME Shape, Shape', TaskInv, Mail, NEW t \in Tasks,
         Serve(t) \/ RecvRound(t) \/ Copy(t) \/ Return(t)
  PROVE  Mail'
<1>1. /\ UNCHANGED tcpip /\ \A u \in Tasks \ {t} : task'[u] = task[u]
      /\ conn \in [Conns -> ConnType] /\ sock \in [Conns -> SockType]
      /\ task \in [Tasks -> TaskType] /\ task[t].cur \in Conns
  BY OutsideSelect, TaskFacts, SMTT(30) DEF Recv
<1>2. UNCHANGED <<conn, told>>
  BY DEF Serve, RecvRound, Copy, Return
<1>3. /\ task[t].pc \notin {"minus", "fin", "accepted"}
      /\ task'[t].pc \notin {"minus", "fin", "accepted"} \cup Accepting
  <2> USE <1>1 DEF TaskType, Accepting, Loop, Goto, Returns, Between
  <2>1. CASE Serve(t)
    BY <2>1 DEF Serve
  <2>2. CASE RecvRound(t)
    BY <2>2 DEF RecvRound
  <2>3. CASE Copy(t)
    BY <2>3 DEF Copy
  <2>4. CASE Return(t)
    BY <2>4 DEF Return
  <2> QED BY <2>1, <2>2, <2>3, <2>4
<1>4. \A c \in Conns : sock'[c].rcvevent = sock[c].rcvevent /\ sock'[c].left >= 0
  <2>1. CASE UNCHANGED sock
    BY <2>1 DEF Mail, ConnInv
  <2>2. CASE Copy(t)
    <3> DEFINE c == task[t].cur
               n == Min({RecvLen - task[t].off, sock[c].left})
    <3>1. sock' = [sock EXCEPT ![c].left = @ - n, ![c].push = @ /\ n < sock[c].left]
      BY <2>2 DEF Copy
    <3>2. sock[c].left \in Int /\ RecvLen - task[t].off \in Int
      <4>1. task[t].off \in Int /\ RecvLen \in Int
        BY TaskFacts, SocketsAssumption
      <4>2. sock[c].left \in Int
        BY <1>1 DEF SockType
      <4> QED BY <4>1, <4>2
    <3>3. n <= sock[c].left /\ n \in Int
      BY <3>2, MinPair
    <3> HIDE DEF n, c
    <3>4. \A d \in Conns : /\ sock'[d].rcvevent = sock[d].rcvevent
                           /\ sock'[d].left = sock[d].left \/ (d = c /\ sock'[d].left = sock[c].left - n)
      BY <1>1, <3>1 DEF SockType
    <3>5. sock[c].left - n >= 0
      BY <3>2, <3>3 DEF c
    <3> QED BY <3>4, <3>5 DEF Mail, ConnInv
  <2> QED BY <2>1, <2>2 DEF Serve, RecvRound, Return
<1>5. sock'[Listener].left = 0
  <2>1. CASE UNCHANGED sock
    BY <2>1 DEF Mail, ConnInv
  <2>2. CASE Copy(t)
    <3>1. task[t].cur # Listener
      BY <2>2 DEF Copy, TaskInv, TaskOK, Reading
    <3>2. sock'[Listener] = sock[Listener]
      BY <1>1, <2>2, <3>1, SocketsAssumption DEF Copy
    <3> QED BY <3>2 DEF Mail, ConnInv
  <2> QED BY <2>1, <2>2 DEF Serve, RecvRound, Return
<1>6. \A c \in Conns : Same(c)
  BY <1>1, <1>2, <1>3, <1>4, TaskSame
<1>7. TcpipInv'
  BY <1>1, <1>2 DEF Mail, TcpipInv
<1>8. \A u \in Tasks : task'[u].pc \in Accepting =>
                         task[u].pc \in Accepting /\ task'[u].cur = task[u].cur
  BY <1>1, <1>3
<1>9. ConnInv' /\ QueueInv' /\ FinInv' /\ CountInv'
  BY <1>2, <1>4, <1>5, <1>6, <1>8, QuietMail DEF Mail
<1> QED BY <1>7, <1>9 DEF Mail

\* What the tcpip task and the network do: task and told stay, and so does what
\* the tasks took.
LEMMA NoTaskSame ==
  ASSUME UNCHANGED <<task, told>>, NEW d \in Conns,
         conn'[d] = conn[d], sock'[d].rcvevent = sock[d].rcvevent, Coming(d)' <=> Coming(d)
  PROVE  Same(d)
  BY DEF Same, Takes, HasFin

\* The rest of ConnInv, when only one netconn changes.
LEMMA ConnStays ==
  ASSUME ConnInv, NEW c \in Conns, told' \in {told, told \cup {c}, told \ {c}},
         c = Listener => UNCHANGED told,
         \A d \in Conns \ {c} : conn'[d] = conn[d] /\ sock'[d] = sock[d],
         c = Listener => /\ conn'[c].st = "open" /\ conn'[c].socket = 0 /\ sock'[c].left = 0
                         /\ ~conn'[c].fin /\ conn'[c].mbox \in Seq(Incoming),
         conn'[c].socket <= 0, Len(conn'[c].mbox) <= MboxSize,
         sock'[c].rcvevent >= 0, sock'[c].left >= 0,
         c # Listener => conn'[c].mbox \in Seq(Messages),
         conn'[c].st # "none"
  PROVE  ConnInv'
<1>1. Listener \in Conns
  BY SocketsAssumption
<1>2. /\ conn'[Listener].st = "open" /\ conn'[Listener].socket = 0 /\ sock'[Listener].left = 0
      /\ Listener \notin told' /\ ~conn'[Listener].fin /\ conn'[Listener].mbox \in Seq(Incoming)
  BY <1>1 DEF ConnInv
<1>3. ASSUME NEW d \in Conns
      PROVE  /\ conn'[d].socket <= 0 /\ Len(conn'[d].mbox) <= MboxSize
             /\ sock'[d].rcvevent >= 0 /\ sock'[d].left >= 0
             /\ d # Listener => conn'[d].mbox \in Seq(Messages)
             /\ conn'[d].st = "none" =>
                  conn'[d].socket = -1 /\ conn'[d].mbox = <<>> /\ ~conn'[d].fin /\ d \notin told'
  <2>1. CASE d = c
    BY <2>1
  <2>2. CASE d # c
    BY <2>2 DEF ConnInv
  <2> QED BY <2>1, <2>2
<1> QED BY <1>2, <1>3 DEF ConnInv

\* What is known of the tcpip task's data.
LEMMA MailFacts ==
  ASSUME Shape, Mail
  PROVE  /\ conn \in [Conns -> ConnType] /\ sock \in [Conns -> SockType]
         /\ tcpip \in TcpipType /\ tcpip.conn \in Conns /\ Listener \in Conns
         /\ \A c \in Conns :
              /\ conn[c] \in ConnType /\ conn[c].socket \in Int /\ sock[c].rcvevent \in Int
              /\ conn[c].socket <= 0 /\ sock[c].rcvevent >= 0 /\ sock[c].left >= 0
              /\ sock[c].left \in Int
              /\ conn[c].mbox \in Seq(Conns \cup Messages) /\ Len(conn[c].mbox) \in Nat
              /\ Len(conn[c].mbox) <= MboxSize
              /\ c # Listener => conn[c].mbox \in Seq(Messages)
         /\ conn[Listener].st = "open" /\ conn[Listener].socket = 0 /\ sock[Listener].left = 0
         /\ Listener \notin told /\ ~conn[Listener].fin
         /\ conn[Listener].mbox \in Seq(Incoming) /\ MboxSize \in Nat
         /\ \A i \in DOMAIN conn[Listener].mbox : conn[Listener].mbox[i] \in Conns
<1>1. /\ conn \in [Conns -> ConnType] /\ sock \in [Conns -> SockType]
      /\ tcpip \in TcpipType /\ tcpip.conn \in Conns /\ Listener \in Conns /\ MboxSize \in Nat
  BY SocketsAssumption DEF Shape, TcpipType
<1>2. ASSUME NEW c \in Conns
      PROVE  /\ conn[c] \in ConnType /\ conn[c].socket \in Int /\ sock[c].rcvevent \in Int
             /\ sock[c].left \in Int
             /\ conn[c].mbox \in Seq(Conns \cup Messages) /\ Len(conn[c].mbox) \in Nat
  <2>1. conn[c] \in ConnType /\ sock[c] \in SockType
    BY <1>1
  <2>2. conn[c].mbox \in Seq(Conns \cup Messages)
    BY <2>1 DEF ConnType
  <2> QED BY <2>1, <2>2, LenProperties DEF ConnType, SockType
<1>3. conn[Listener].mbox \in Seq(Incoming)
  BY DEF Mail, ConnInv
<1>4. \A i \in DOMAIN conn[Listener].mbox : conn[Listener].mbox[i] \in Conns
  <2> DEFINE queue == conn[Listener].mbox
  <2> HIDE DEF queue
  <2>1. queue \in Seq(Incoming) /\ Incoming \subseteq Conns
    BY <1>3, SocketsAssumption DEF queue
  <2>2. DOMAIN queue = 1 .. Len(queue) /\ \A i \in 1 .. Len(queue) : queue[i] \in Incoming
    BY <2>1, LenProperties, ElementOfSeq
  <2> QED BY <2>1, <2>2 DEF queue
<1> QED BY <1>1, <1>2, <1>4 DEF Mail, ConnInv

\* recv_tcp.
LEMMA RecvTcpMail ==
  ASSUME Shape, Shape', TaskInv, Mail, NEW c \in Conns, NEW p \in Chunks[c] \cup {FIN},
         RecvTcp(c, p)
  PROVE  Mail'
<1>1. /\ conn \in [Conns -> ConnType] /\ c # Listener /\ conn[c].st = "open"
      /\ Len(conn[c].mbox) < MboxSize /\ conn[c].mbox \in Seq(Messages)
      /\ Len(conn[c].mbox) \in Nat /\ MboxSize \in Nat
      /\ ~conn[c].err /\ ~conn[c].fin /\ tcpip.at = "idle" /\ Listener \in Conns
  BY MailFacts DEF RecvTcp, HasRoom
<1>2. p \in Messages
  BY ChunkIs
<1>3. /\ UNCHANGED <<sock, task, told>>
      /\ tcpip' = [Idle EXCEPT !.at = "event", !.conn = c]
  BY DEF RecvTcp
<1>4. /\ \A d \in Conns \ {c} : conn'[d] = conn[d]
      /\ conn'[c].mbox = Append(conn[c].mbox, p) /\ conn'[c].fin = (p = FIN)
      /\ conn'[c].st = "open" /\ conn'[c].socket = conn[c].socket
      /\ conn'[c].err = conn[c].err
  BY <1>1 DEF RecvTcp, ConnType
<1>5. tcpip'.at = "event" /\ tcpip'.conn = c /\ tcpip'.null = FALSE
  BY <1>3 DEF Idle
<1>6. /\ Append(conn[c].mbox, p) \in Seq(Messages)
      /\ Len(conn'[c].mbox) = Len(conn[c].mbox) + 1
      /\ DOMAIN conn[c].mbox = 1 .. Len(conn[c].mbox)
      /\ DOMAIN conn'[c].mbox = 1 .. Len(conn[c].mbox) + 1
      /\ \A i \in 1 .. Len(conn[c].mbox) : conn'[c].mbox[i] = conn[c].mbox[i]
  BY <1>1, <1>2, <1>4, MboxIs
<1>7. ConnInv'
  <2>1. Len(conn'[c].mbox) <= MboxSize
    BY <1>1, <1>6
  <2>2. conn'[c].mbox \in Seq(Messages) /\ conn'[c].socket <= 0
        /\ sock'[c].rcvevent >= 0 /\ sock'[c].left >= 0
    BY <1>3, <1>4, <1>6, MailFacts
  <2> QED BY <1>1, <1>3, <1>4, <2>1, <2>2, ConnStays DEF Mail
<1>8. TcpipInv'
  BY <1>4, <1>5 DEF TcpipInv
<1>9. QueueInv'
  <2>1. \A i \in DOMAIN conn[Listener].mbox : conn[Listener].mbox[i] \in Conns
    BY MailFacts
  <2>2. \A d \in Conns : conn[d].st = "open" /\ conn[d].socket < 0 =>
                           conn'[d].st = "open" /\ conn'[d].socket < 0
    BY <1>4
  <2> QED BY <1>1, <1>3, <1>4, <2>1, <2>2, QueueStays DEF Mail
<1>10. \A d \in Conns \ {c} : Same(d)
  <2>1. \A d \in Conns \ {c} : Coming(d)' <=> Coming(d)
    BY <1>1, <1>5 DEF Coming
  <2> QED BY <1>3, <1>4, <2>1, NoTaskSame
<1>11. FinOK(c) /\ CountOK(c)
  BY <1>1 DEF Mail, FinInv, CountInv
<1>12. c \notin told /\ ~HasFin(c)
  BY <1>1, <1>11 DEF FinOK
<1>13. FinOK(c)'
  <2>1. \A i \in 1 .. Len(conn[c].mbox) : conn[c].mbox[i] # FIN
    BY <1>1, <1>6, <1>11 DEF FinOK
  <2>2. c \notin told' /\ ~HasFin(c)'
    BY <1>3, <1>12 DEF HasFin
  <2>3. conn'[c].mbox[Len(conn[c].mbox) + 1] = p
    BY <1>1, <1>2, <1>4, MboxIs
  <2>4. \A i \in DOMAIN conn'[c].mbox :
          conn'[c].mbox[i] = FIN => i = Len(conn'[c].mbox) /\ conn'[c].fin
    <3>1. ASSUME NEW i \in DOMAIN conn'[c].mbox, conn'[c].mbox[i] = FIN
          PROVE  i = Len(conn'[c].mbox) /\ conn'[c].fin
      <4>1. i \in 1 .. Len(conn[c].mbox) \/ i = Len(conn[c].mbox) + 1
        BY <1>1, <1>6
      <4>2. i \notin 1 .. Len(conn[c].mbox)
        BY <1>6, <2>1, <3>1
      <4>3. i = Len(conn'[c].mbox)
        BY <1>6, <4>1, <4>2
      <4> QED BY <1>4, <2>3, <3>1, <4>1, <4>2, <4>3
    <3> QED BY <3>1
  <2> QED BY <2>2, <2>4 DEF FinOK
<1>14. CountOK(c)'
  <2>1. Events(c)' = Events(c) /\ Events(c) \in Int
    BY <1>3, <1>4, MailFacts DEF Events
  <2>2. Coming(c)' /\ ~Coming(c) /\ (Takes(c)' <=> Takes(c)) /\ (c \in told' <=> c \in told)
    BY <1>1, <1>3, <1>5 DEF Coming, Takes
  <2>3. 0 + Num(Coming(c)') + Num(Takes(c)) + Num(c \in told)
          = 1 + Num(Coming(c)) + Num(Takes(c)') + Num(c \in told')
    BY <2>2 DEF Num
  <2>4. conn'[c].err = conn[c].err /\ Len(conn'[c].mbox) = Len(conn[c].mbox) + 1
        /\ Events(c)' = Events(c) + 0 /\ Len(conn[c].mbox) \in Int /\ 0 \in Int /\ 1 \in Int
    BY <1>1, <1>4, <1>6, <2>1
  <2> QED BY <1>1, <1>11, <2>1, <2>3, <2>4, CountStep, Zenon
<1>15. FinInv' /\ CountInv'
  BY <1>10, <1>13, <1>14, OneChanges DEF Mail
<1> QED BY <1>7, <1>8, <1>9, <1>15 DEF Mail

\* accept_function.
LEMMA AcceptMail ==
  ASSUME Shape, Shape', TaskInv, Mail, NEW c \in Conns, AcceptFunction(c)
  PROVE  Mail'
<1> DEFINE queue == conn[Listener].mbox
<1>1. /\ conn \in [Conns -> ConnType] /\ c \in Incoming /\ c # Listener /\ conn[c].st = "none"
      /\ Len(queue) < MboxSize /\ queue \in Seq(Incoming) /\ Len(queue) \in Nat
      /\ conn[Listener].st = "open" /\ conn[Listener].socket = 0
      /\ MboxSize \in Nat /\ tcpip.at = "idle" /\ Listener \in Conns
  BY MailFacts, SocketsAssumption DEF AcceptFunction, HasRoom
<1>2. conn[c].socket = -1 /\ conn[c].mbox = <<>> /\ ~conn[c].fin /\ c \notin told
  BY <1>1 DEF Mail, ConnInv
<1>3. /\ UNCHANGED <<sock, task, told>>
      /\ tcpip' = [Idle EXCEPT !.at = "event", !.conn = Listener]
  BY DEF AcceptFunction
<1>4. /\ \A d \in Conns \ {c, Listener} : conn'[d] = conn[d]
      /\ conn'[c].st = "open" /\ conn'[c].socket = -1 /\ conn'[c].mbox = <<>>
      /\ conn'[c].err = conn[c].err /\ ~conn'[c].fin
      /\ conn'[Listener].mbox = Append(queue, c)
      /\ conn'[Listener].st = "open" /\ conn'[Listener].socket = 0
      /\ conn'[Listener].err = conn[Listener].err /\ conn'[Listener].fin = conn[Listener].fin
  <2>1. conn' = [conn EXCEPT ![c].st = "open", ![Listener].mbox = Append(queue, c)]
    BY <1>1 DEF AcceptFunction
  <2> QED BY <1>1, <1>2, <2>1 DEF ConnType
<1>5. tcpip'.at = "event" /\ tcpip'.conn = Listener /\ tcpip'.null = FALSE
  BY <1>3 DEF Idle
<1>6. /\ Append(queue, c) \in Seq(Incoming)
      /\ Len(Append(queue, c)) = Len(queue) + 1
      /\ DOMAIN queue = 1 .. Len(queue)
      /\ DOMAIN Append(queue, c) = 1 .. Len(queue) + 1
      /\ \A i \in 1 .. Len(queue) : Append(queue, c)[i] = queue[i]
      /\ Append(queue, c)[Len(queue) + 1] = c
      /\ \A i \in 1 .. Len(queue) : queue[i] \in Incoming /\ queue[i] \in Conns
  <2> HIDE DEF queue
  <2>1. \A i \in 1 .. Len(queue) : queue[i] \in Incoming
    BY <1>1, ElementOfSeq
  <2>2. \A i \in 1 .. Len(queue) : queue[i] \in Conns
    BY <2>1, SocketsAssumption
  <2>3. /\ Append(queue, c) \in Seq(Incoming)
        /\ Len(Append(queue, c)) = Len(queue) + 1
        /\ DOMAIN queue = 1 .. Len(queue)
        /\ DOMAIN Append(queue, c) = 1 .. Len(queue) + 1
        /\ \A i \in 1 .. Len(queue) : Append(queue, c)[i] = queue[i]
        /\ Append(queue, c)[Len(queue) + 1] = c
    <3>1. queue \in Seq(Incoming) /\ c \in Incoming
      BY <1>1
    <3> QED BY <3>1, MboxIs
  <2> QED BY <2>1, <2>2, <2>3, Zenon
<1>7. ConnInv'
  <2>1. ASSUME NEW d \in Conns
        PROVE  /\ conn'[d].socket <= 0 /\ Len(conn'[d].mbox) <= MboxSize
               /\ sock'[d].rcvevent >= 0 /\ sock'[d].left >= 0
               /\ d # Listener => conn'[d].mbox \in Seq(Messages)
               /\ conn'[d].st = "none" =>
                    conn'[d].socket = -1 /\ conn'[d].mbox = <<>> /\ ~conn'[d].fin
                      /\ d \notin told'
    <3>1. CASE d \notin {c, Listener}
      BY <1>3, <1>4, <3>1 DEF Mail, ConnInv
    <3>2. CASE d = c
      BY <1>1, <1>2, <1>3, <1>4, <3>2, MailFacts
    <3>3. CASE d = Listener
      BY <1>1, <1>3, <1>4, <1>6, <3>3, MailFacts
    <3> QED BY <3>1, <3>2, <3>3
  <2>2. /\ conn'[Listener].st = "open" /\ conn'[Listener].socket = 0 /\ sock'[Listener].left = 0
        /\ Listener \notin told' /\ ~conn'[Listener].fin
        /\ conn'[Listener].mbox \in Seq(Incoming)
    BY <1>3, <1>4, <1>6, MailFacts
  <2> QED BY <2>1, <2>2 DEF ConnInv
<1>8. TcpipInv'
  BY <1>4, <1>5 DEF TcpipInv
<1>9. QueueInv'
  <2>1. \A i \in 1 .. Len(queue) :
          /\ conn[queue[i]].st = "open" /\ conn[queue[i]].socket < 0
          /\ \A j \in 1 .. Len(queue) : queue[j] = queue[i] => j = i
          /\ \A t \in Tasks : task[t].pc \in Accepting => task[t].cur # queue[i]
    BY <1>6 DEF Mail, QueueInv
  <2>2. \A i \in 1 .. Len(queue) : queue[i] # c /\ queue[i] # Listener
    BY <1>1, <2>1
  <2>3. \A t \in Tasks : task[t].pc \in Accepting => task[t].cur # c
    BY <1>1 DEF TaskInv, TaskOK
  <2> DEFINE new == Append(queue, c)
  <2>4. \A i \in 1 .. Len(queue) + 1 :
          /\ conn'[new[i]].st = "open" /\ conn'[new[i]].socket < 0
          /\ \A t \in Tasks : task'[t].pc \in Accepting => task'[t].cur # new[i]
    <3>1. \A i \in 1 .. Len(queue) : conn'[queue[i]] = conn[queue[i]]
      BY <1>4, <1>6, <2>2
    <3>2. ASSUME NEW i \in 1 .. Len(queue)
          PROVE /\ conn'[new[i]].st = "open" /\ conn'[new[i]].socket < 0
                /\ \A t \in Tasks : task'[t].pc \in Accepting => task'[t].cur # new[i]
      BY <1>3, <1>6, <2>1, <3>1
    <3>3. /\ conn'[new[Len(queue) + 1]].st = "open" /\ conn'[new[Len(queue) + 1]].socket < 0
          /\ \A t \in Tasks : task'[t].pc \in Accepting => task'[t].cur # new[Len(queue) + 1]
      BY <1>3, <1>4, <1>6, <2>3
    <3>4. \A i \in 1 .. Len(queue) + 1 : i \in 1 .. Len(queue) \/ i = Len(queue) + 1
      BY <1>1
    <3> HIDE DEF new, queue
    <3> QED BY <3>2, <3>3, <3>4
  <2>5. \A i, j \in 1 .. Len(queue) + 1 : new[j] = new[i] => j = i
    <3> HIDE DEF queue
    <3> QED BY <1>1, <1>6, <2>1, <2>2
  <2>6. conn'[Listener].mbox = new /\ DOMAIN new = 1 .. Len(queue) + 1
    BY <1>4, <1>6
  <2> HIDE DEF new, queue
  <2> QED BY <2>4, <2>5, <2>6 DEF QueueInv
<1>10. \A d \in Conns \ {c, Listener} : Same(d)
  <2>1. \A d \in Conns \ {c, Listener} : Coming(d)' <=> Coming(d)
    BY <1>1, <1>5 DEF Coming
  <2> QED BY <1>3, <1>4, <2>1, NoTaskSame
\* No task works on what was not there.
<1>11. ~Takes(c) /\ ~HasFin(c) /\ ~Takes(c)' /\ ~HasFin(c)'
  <2>1. Owner[c] \in Tasks /\ TaskOK(Owner[c])
    BY SocketsAssumption DEF TaskInv
  <2>2. task[Owner[c]].pc \in {"minus", "fin"} => task[Owner[c]].cur # c
    BY <1>1, <2>1 DEF TaskOK, Reading, Readset, HasSocket
  <2>3. ~Takes(c) /\ ~HasFin(c)
    BY <1>1, <2>2 DEF Takes, HasFin
  <2> QED BY <1>3, <2>3 DEF Takes, HasFin
<1>12. FinInv'
  <2>1. FinOK(c)'
    <3>1. DOMAIN conn'[c].mbox = {}
      BY <1>4
    <3> QED BY <1>2, <1>3, <1>11, <3>1 DEF FinOK
  <2> QED BY <1>10, <2>1, SameOK DEF Mail, FinInv
<1>13. CountInv'
  <2>1. CountOK(c)'
    <3>1. Events(c)' = 0 /\ ~Coming(c)' /\ Len(conn'[c].mbox) = 0 /\ c \notin told'
      BY <1>1, <1>2, <1>3, <1>4, <1>5 DEF Events, Coming
    <3>2. Num(Coming(c)') = 0 /\ Num(Takes(c)') = 0 /\ Num(c \in told') = 0
      BY <1>11, <3>1 DEF Num
    <3>3. Events(c)' + Num(Coming(c)') = Len(conn'[c].mbox) + Num(Takes(c)') + Num(c \in told')
      <4>1. 0 + 0 = 0 + 0 + 0
        OBVIOUS
      <4> QED BY <3>1, <3>2, <4>1, Zenon
    <3> QED BY <3>3, Zenon DEF CountOK
  <2>2. CountOK(Listener)'
    <3>1. Events(Listener)' = Events(Listener) /\ Events(Listener) \in Int
      BY <1>1, <1>3, <1>4, MailFacts DEF Events
    <3>2. /\ Coming(Listener)' /\ ~Coming(Listener) /\ (Takes(Listener)' <=> Takes(Listener))
          /\ (Listener \in told' <=> Listener \in told)
      BY <1>1, <1>3, <1>5 DEF Coming, Takes
    <3>3. CountOK(Listener)
      BY <1>1 DEF Mail, CountInv
    <3>4. 0 + Num(Coming(Listener)') + Num(Takes(Listener)) + Num(Listener \in told)
            = 1 + Num(Coming(Listener)) + Num(Takes(Listener)') + Num(Listener \in told')
      BY <3>2 DEF Num
    <3>5. /\ Len(conn'[Listener].mbox) = Len(conn[Listener].mbox) + 1
          /\ Len(conn[Listener].mbox) \in Int /\ 0 \in Int /\ 1 \in Int
          /\ Events(Listener)' = Events(Listener) + 0
          /\ conn'[Listener].err = conn[Listener].err
      BY <1>1, <1>4, <1>6, <3>1
    <3> HIDE DEF queue
    <3> QED BY <1>1, <3>1, <3>3, <3>4, <3>5, CountStep, Zenon
  <2> QED BY <1>10, <2>1, <2>2, SameOK DEF Mail, CountInv
<1> QED BY <1>7, <1>8, <1>9, <1>12, <1>13 DEF Mail

\* err_tcp.
LEMMA ErrTcpMail ==
  ASSUME Shape, Shape', TaskInv, Mail, NEW c \in Conns, ErrTcp(c)
  PROVE  Mail'
<1>1. /\ conn \in [Conns -> ConnType] /\ c # Listener /\ conn[c].st = "open"
      /\ tcpip.at = "idle" /\ Listener \in Conns
  BY MailFacts DEF ErrTcp
<1>2. /\ UNCHANGED <<sock, task, told>>
      /\ tcpip' = [Idle EXCEPT !.at = "event", !.conn = c, !.null = TRUE]
  BY DEF ErrTcp
<1>3. /\ \A d \in Conns \ {c} : conn'[d] = conn[d]
      /\ conn'[c].mbox = conn[c].mbox /\ conn'[c].st = "open" /\ conn'[c].err
      /\ conn'[c].socket = conn[c].socket
  BY <1>1 DEF ErrTcp, ConnType
<1>4. tcpip'.at = "event" /\ tcpip'.conn = c /\ tcpip'.null
  BY <1>2 DEF Idle
<1>5. ConnInv'
  BY <1>1, <1>2, <1>3, MailFacts, ConnStays DEF Mail
<1>6. TcpipInv'
  BY <1>1, <1>3, <1>4 DEF TcpipInv
<1>7. QueueInv'
  <2>1. \A d : conn[d].st = "open" /\ conn[d].socket < 0 /\ d \in Conns =>
                 conn'[d].st = "open" /\ conn'[d].socket < 0
    BY <1>3
  <2>2. \A i \in DOMAIN conn[Listener].mbox : conn[Listener].mbox[i] \in Conns
    BY MailFacts
  <2> QED BY <1>1, <1>2, <1>3, <2>1, <2>2, QueueStays DEF Mail
<1>8. \A d \in Conns \ {c} : Same(d)
  <2>1. \A d \in Conns \ {c} : Coming(d)' <=> Coming(d)
    BY <1>1, <1>4 DEF Coming
  <2> QED BY <1>2, <1>3, <2>1, NoTaskSame
<1>9. FinOK(c)' /\ CountOK(c)'
  BY <1>3 DEF FinOK, CountOK
<1>10. FinInv' /\ CountInv'
  BY <1>8, <1>9, OneChanges, SMTT(30) DEF Mail
<1> QED BY <1>5, <1>6, <1>7, <1>10 DEF Mail

\* What the tcpip task works on after a round of the loop over the list.
LEMMA DoneMail ==
  ASSUME Shape, Mail, \A d \in Conns : conn'[d].st = conn[d].st /\ conn'[d].err = conn[d].err,
         EventDone \/ \E c, rest : Visit(c, rest)
  PROVE  TcpipInv' /\ tcpip'.at # "event"
<1>1. /\ tcpip \in TcpipType /\ tcpip.conn \in Conns /\ Listener \in Conns
      /\ conn[Listener].st = "open"
  BY MailFacts
<1>2. CASE EventDone
  <2>1. CASE tcpip.null
    <3>1. tcpip'.at = "null" /\ tcpip'.conn = tcpip.conn /\ tcpip'.null
      BY <1>1, <1>2, <2>1 DEF EventDone, TcpipType
    <3> QED BY <1>1, <2>1, <3>1 DEF Mail, TcpipInv
  <2>2. CASE ~tcpip.null
    <3>1. tcpip'.at = "idle" /\ tcpip'.conn = Listener /\ tcpip'.null = FALSE
      BY <1>2, <2>2 DEF EventDone, Idle
    <3> QED BY <1>1, <3>1 DEF TcpipInv
  <2> QED BY <2>1, <2>2
<1>3. ASSUME NEW c, NEW rest, Visit(c, rest), rest # <<>> PROVE TcpipInv' /\ tcpip'.at # "event"
  <2>1. tcpip' = [tcpip EXCEPT !.at = "walk", !.rest = Tail(rest), !.changed = FALSE]
    BY <1>3 DEF Visit
  <2>2. tcpip'.at = "walk" /\ tcpip'.conn = tcpip.conn /\ tcpip'.null = tcpip.null
    BY <1>1, <2>1 DEF TcpipType
  <2> QED BY <1>1, <2>2 DEF Mail, TcpipInv
<1> QED BY <1>2, <1>3 DEF Visit

\* The tcpip task.
LEMMA TcpipMail ==
  ASSUME Shape, Shape', TaskInv, Mail, Tcpip PROVE Mail'
<1>0. tcpip.conn \in Conns
  BY MailFacts
<1> SUFFICES ASSUME NEW c \in Conns, c = tcpip.conn PROVE Mail'
  BY <1>0
<1>1. /\ conn \in [Conns -> ConnType] /\ sock \in [Conns -> SockType] /\ c \in Conns
      /\ Listener \in Conns /\ conn[Listener].socket = 0 /\ conn[Listener].st = "open"
      /\ conn[c].st # "none" /\ conn[c].socket \in Int /\ sock[c].rcvevent \in Int
  BY MailFacts DEF Mail, TcpipInv
<1>2. UNCHANGED <<task, told>>
  BY DEF Tcpip, EventCallback, WalkOn, PostNull
<1>3. \A i \in DOMAIN conn[Listener].mbox : conn[Listener].mbox[i] \in Conns
  BY MailFacts
<1>4. FinOK(c) \/ c = Listener
  BY <1>1 DEF Mail, FinInv
<1>5. CountOK(c)
  BY <1>1 DEF Mail, CountInv
\* Where the event is counted.
<1>6. ASSUME tcpip.at = "event", tcpip'.at # "event",
             \A d \in Conns \ {c} : conn'[d] = conn[d] /\ sock'[d] = sock[d],
             conn'[c].st = conn[c].st, conn'[c].mbox = conn[c].mbox,
             conn'[c].err = conn[c].err, conn'[c].fin = conn[c].fin,
             Events(c)' = Events(c) + 1
      PROVE  FinInv' /\ CountInv'
  <2>1. \A d \in Conns \ {c} : Same(d)
    <3>1. \A d \in Conns \ {c} : Coming(d)' <=> Coming(d)
      BY <1>6 DEF Coming
    <3> QED BY <1>2, <1>6, <3>1, NoTaskSame
  <2>2. c # Listener => FinOK(c)'
    <3>1. /\ HasFin(c)' <=> HasFin(c)
          /\ c \in told' <=> c \in told
      BY <1>2 DEF HasFin
    <3> QED BY <1>4, <1>6, <3>1 DEF FinOK
  <2>3. CountOK(c)'
    <3>1. /\ Takes(c)' <=> Takes(c)
          /\ c \in told' <=> c \in told
          /\ Coming(c) /\ ~Coming(c)'
      BY <1>2, <1>6 DEF Takes, Coming
    <3>2. Events(c) \in Int /\ Len(conn[c].mbox) \in Int
      BY <1>1, MailFacts DEF Events
    <3>3. 1 + Num(Coming(c)') + Num(Takes(c)) + Num(c \in told)
            = 0 + Num(Coming(c)) + Num(Takes(c)') + Num(c \in told')
      BY <3>1 DEF Num
    <3>4. Len(conn'[c].mbox) = Len(conn[c].mbox) + 0 /\ 0 \in Int /\ 1 \in Int
      BY <1>6, <3>2
    <3>5. CASE conn[c].st = "open"
      BY <1>5, <1>6, <3>2, <3>3, <3>4, <3>5, CountStep, Zenon
    <3> QED BY <1>6, <3>5 DEF CountOK
  <2> QED BY <1>1, <2>1, <2>2, <2>3, OneChanges DEF Mail
<1>7. CASE EventCallback
  <2>1. tcpip.at = "event"
    BY <1>7 DEF EventCallback
  <2>2. CASE conn[c].socket < 0
    <3>1. conn' = [conn EXCEPT ![c].socket = @ - 1] /\ EventDone /\ UNCHANGED sock
      BY <1>7, <2>2 DEF EventCallback
    <3>2. /\ \A d \in Conns \ {c} : conn'[d] = conn[d]
          /\ conn'[c].st = conn[c].st /\ conn'[c].mbox = conn[c].mbox
          /\ conn'[c].err = conn[c].err /\ conn'[c].fin = conn[c].fin
          /\ conn'[c].socket = conn[c].socket - 1
      <4> QED BY <1>1, <3>1 DEF ConnType
    <3>3. c # Listener
      BY <1>1, <2>2
    <3>4. TcpipInv' /\ tcpip'.at # "event"
      BY <1>1, <3>1, <3>2, DoneMail
    <3>5. ConnInv'
      <4>1. conn'[c].socket <= 0
        BY <1>1, <2>2, <3>2
      <4>2. /\ conn'[c].mbox \in Seq(Messages) /\ Len(conn'[c].mbox) <= MboxSize
            /\ sock'[c].rcvevent >= 0 /\ sock'[c].left >= 0 /\ conn'[c].st # "none"
        BY <1>1, <3>1, <3>2, <3>3, MailFacts
      <4> QED BY <1>1, <1>2, <3>1, <3>2, <3>3, <4>1, <4>2, ConnStays DEF Mail
    <3>6. QueueInv'
      <4>1. \A d \in Conns : conn[d].st = "open" /\ conn[d].socket < 0 =>
                               conn'[d].st = "open" /\ conn'[d].socket < 0
        BY <1>1, <2>2, <3>2
      <4> QED BY <1>1, <1>2, <1>3, <3>2, <3>3, <4>1, QueueStays DEF Mail
    <3>7. Events(c)' = Events(c) + 1
      <4>1. ~(conn'[c].socket >= 0) /\ ~(conn[c].socket >= 0)
            /\ -1 - conn'[c].socket = (-1 - conn[c].socket) + 1
        BY <1>1, <2>2, <3>2
      <4> QED BY <4>1 DEF Events
    <3>8. FinInv' /\ CountInv'
      BY <1>6, <2>1, <3>1, <3>2, <3>4, <3>7
    <3> QED BY <3>4, <3>5, <3>6, <3>8 DEF Mail
  <2>3. CASE ~(conn[c].socket < 0)
    <3>1. /\ sock' = [sock EXCEPT ![c].rcvevent = @ + 1] /\ UNCHANGED conn
          /\ \E rest : Visit(c, rest)
      BY <1>7, <2>3 DEF EventCallback
    <3>2. /\ \A d \in Conns \ {c} : sock'[d] = sock[d]
          /\ sock'[c].rcvevent = sock[c].rcvevent + 1 /\ sock'[c].left = sock[c].left
      <4> QED BY <1>1, <3>1 DEF SockType
    <3>3. TcpipInv' /\ tcpip'.at # "event"
      BY <1>1, <3>1, DoneMail
    <3>4. ConnInv'
      <4>1. sock'[c].rcvevent >= 0
        BY <1>1, <3>2, MailFacts
      <4>2. /\ c # Listener => conn'[c].mbox \in Seq(Messages)
            /\ Len(conn'[c].mbox) <= MboxSize
            /\ conn'[c].socket <= 0 /\ sock'[c].left >= 0 /\ conn'[c].st # "none"
            /\ c = Listener => /\ conn'[c].st = "open" /\ conn'[c].socket = 0
                               /\ sock'[c].left = 0
                               /\ ~conn'[c].fin /\ conn'[c].mbox \in Seq(Incoming)
        BY <1>1, <3>1, <3>2, MailFacts
      <4> QED BY <1>1, <1>2, <3>1, <3>2, <4>1, <4>2, ConnStays DEF Mail
    <3>5. QueueInv'
      BY <1>2, <3>1, QueueStays DEF Mail
    <3>6. Events(c)' = Events(c) + 1
      BY <1>1, <2>3, <3>1, <3>2 DEF Events
    <3>7. FinInv' /\ CountInv'
      BY <1>6, <2>1, <3>1, <3>2, <3>3, <3>6
    <3> QED BY <3>3, <3>4, <3>5, <3>7 DEF Mail
  <2> QED BY <2>2, <2>3
<1>8. CASE WalkOn
  <2>1. /\ UNCHANGED <<conn, sock>> /\ tcpip.at = "walk"
        /\ \E rest : Visit(c, rest)
    BY <1>8 DEF WalkOn
  <2>2. TcpipInv' /\ tcpip'.at # "event"
    BY <2>1, DoneMail
  <2>3. \A d \in Conns : Same(d)
    <3>1. \A d \in Conns : Coming(d)' <=> Coming(d)
      BY <2>1, <2>2 DEF Coming
    <3> QED BY <1>2, <2>1, <3>1, NoTaskSame
  <2>4. ConnInv' /\ QueueInv' /\ FinInv' /\ CountInv'
    BY <1>2, <2>1, <2>3, MailFacts, QuietMail DEF Mail
  <2> QED BY <2>2, <2>4 DEF Mail
<1>9. CASE PostNull
  <2> DEFINE new == IF HasRoom(c) THEN Append(conn[c].mbox, FIN) ELSE conn[c].mbox
  <2>1. /\ tcpip.at = "null" /\ tcpip' = Idle /\ UNCHANGED sock
        /\ conn' = [conn EXCEPT ![c].mbox = new]
    BY <1>9 DEF PostNull
  <2>2. c # Listener /\ conn[c].err
    BY <2>1 DEF Mail, TcpipInv
  <2>3. new \in Seq(Messages) /\ Len(new) <= MboxSize
    <3>1. conn[c].mbox \in Seq(Messages) /\ FIN \in Messages /\ Len(conn[c].mbox) <= MboxSize
          /\ Len(conn[c].mbox) \in Nat /\ MboxSize \in Nat
      BY <1>1, <2>2, ChunkIs, MailFacts
    <3>2. /\ Append(conn[c].mbox, FIN) \in Seq(Messages)
          /\ Len(Append(conn[c].mbox, FIN)) = Len(conn[c].mbox) + 1
      BY <3>1, MboxIs
    <3> QED BY <3>1, <3>2 DEF HasRoom
  <2> HIDE DEF new
  <2>4. /\ \A d \in Conns \ {c} : conn'[d] = conn[d]
        /\ conn'[c].st = conn[c].st /\ conn'[c].mbox = new /\ conn'[c].err = conn[c].err
        /\ conn'[c].socket = conn[c].socket
    <3> QED BY <1>1, <2>1 DEF ConnType
  <2>5. tcpip'.at = "idle" /\ tcpip'.conn = Listener /\ tcpip'.null = FALSE
    BY <2>1 DEF Idle
  <2>6. TcpipInv'
    BY <1>1, <2>2, <2>4, <2>5 DEF TcpipInv
  <2>7. ConnInv'
    <3>1. conn'[c].socket <= 0 /\ sock'[c].rcvevent >= 0 /\ sock'[c].left >= 0
      BY <1>1, <2>1, <2>4, MailFacts
    <3> QED BY <1>1, <1>2, <2>1, <2>2, <2>3, <2>4, <3>1, ConnStays DEF Mail
  <2>8. QueueInv'
    <3>1. \A d \in Conns : conn[d].st = "open" /\ conn[d].socket < 0 =>
                             conn'[d].st = "open" /\ conn'[d].socket < 0
      BY <2>4
    <3>2. conn'[Listener].mbox = conn[Listener].mbox
      BY <1>1, <2>2, <2>4
    <3> QED BY <1>2, <1>3, <3>1, <3>2, QueueStays DEF Mail
  <2>9. \A d \in Conns \ {c} : Same(d)
    <3>1. \A d \in Conns \ {c} : Coming(d)' <=> Coming(d)
      BY <2>1, <2>5 DEF Coming
    <3> QED BY <1>2, <2>1, <2>4, <3>1, NoTaskSame
  <2>10. FinOK(c)' /\ CountOK(c)'
    <3>1. conn'[c].err
      BY <2>2, <2>4
    <3> QED BY <3>1 DEF FinOK, CountOK
  <2>11. FinInv' /\ CountInv'
    BY <1>1, <2>9, <2>10, OneChanges DEF Mail
  <2> QED BY <2>6, <2>7, <2>8, <2>11 DEF Mail
<1> QED BY <1>7, <1>8, <1>9 DEF Tcpip

-----------------------------------------------------------------------------
(* The steps of a task that take a message or count an event *)

\* What is left to show of a step of t that works on c.
LEMMA TaskMail ==
  ASSUME Shape, Mail, NEW t \in Tasks, UNCHANGED tcpip,
         \A u \in Tasks \ {t} : task'[u] = task[u],
         NEW c \in Conns,
         \A d \in Conns \ {c} : conn'[d] = conn[d] /\ sock'[d] = sock[d],
         told' \in {told, told \cup {c}, told \ {c}},
         task[t].pc \in {"minus", "fin"} => task[t].cur = c,
         task'[t].pc \in {"minus", "fin"} => task'[t].cur = c,
         "accepted" \in {task[t].pc, task'[t].pc} => c = Listener,
         c # Listener => FinOK(c)', CountOK(c)'
  PROVE  FinInv' /\ CountInv'
<1>1. \A d \in Conns \ {c} : Same(d)
  <2>1. ASSUME NEW d \in Conns \ {c} PROVE Same(d)
    <3>1. /\ conn'[d] = conn[d] /\ sock'[d].rcvevent = sock[d].rcvevent
          /\ d \in told' <=> d \in told
          /\ task[t].pc \in {"minus", "fin"} => task[t].cur # d
          /\ task'[t].pc \in {"minus", "fin"} => task'[t].cur # d
          /\ "accepted" \in {task[t].pc, task'[t].pc} => d # Listener
      OBVIOUS
    <3>2. d \in Conns /\ tcpip'.at = tcpip.at /\ tcpip'.conn = tcpip.conn
      OBVIOUS
    <3> QED BY <3>1, <3>2, TaskSame
  <2> QED BY <2>1
<1> QED BY <1>1, OneChanges DEF Mail

\* netconn_accept takes a netconn out of the listening one's mailbox.
LEMMA NetconnAcceptMail ==
  ASSUME Shape, Shape', TaskInv, Mail, NEW t \in Tasks, NetconnAccept(t)
  PROVE  Mail'
<1> DEFINE queue == conn[Listener].mbox
<1>1. /\ conn \in [Conns -> ConnType] /\ task \in [Tasks -> TaskType] /\ Listener \in Conns
      /\ queue \in Seq(Incoming) /\ queue # <<>> /\ task[t].pc = "accept"
      /\ conn[Listener].st = "open" /\ conn[Listener].socket = 0 /\ ~conn[Listener].fin
      /\ Owner[Listener] = t
  BY MailFacts, TaskFacts DEF NetconnAccept, TaskInv, TaskOK
<1>2. /\ UNCHANGED <<tcpip, sock, told>> /\ \A u \in Tasks \ {t} : task'[u] = task[u]
  BY <1>1 DEF NetconnAccept
<1>3. /\ Head(queue) = queue[1] /\ Tail(queue) \in Seq(Incoming)
      /\ Len(Tail(queue)) = Len(queue) - 1 /\ Len(queue) \in Nat /\ Len(queue) > 0
      /\ DOMAIN Tail(queue) = 1 .. Len(queue) - 1 /\ DOMAIN queue = 1 .. Len(queue)
      /\ \A i \in 1 .. Len(queue) - 1 : Tail(queue)[i] = queue[i + 1]
  BY <1>1, MboxIs
<1>4. \A i \in 1 .. Len(queue) : queue[i] \in Conns /\ queue[i] # Listener
  <2>1. \A i \in 1 .. Len(queue) : queue[i] \in Incoming
    BY <1>1, ElementOfSeq
  <2> QED BY <2>1, SocketsAssumption
<1>5. /\ \A d \in Conns \ {Listener} : conn'[d] = conn[d]
      /\ conn'[Listener].st = "open" /\ conn'[Listener].socket = 0 /\ ~conn'[Listener].fin
      /\ conn'[Listener].mbox = Tail(queue) /\ conn'[Listener].err = conn[Listener].err
  <2>1. conn' = [conn EXCEPT ![Listener].mbox = Tail(queue)]
    BY <1>1 DEF NetconnAccept
  <2> QED BY <1>1, <2>1 DEF ConnType
<1>6. task'[t].pc = "accepted" /\ task'[t].cur = queue[1]
  BY <1>1, <1>3 DEF NetconnAccept, TaskType
<1>7. ConnInv'
  <2>1. Len(conn'[Listener].mbox) <= MboxSize
    <3>1. Len(queue) <= MboxSize /\ MboxSize \in Nat
      BY MailFacts
    <3> HIDE DEF queue
    <3> QED BY <1>3, <1>5, <3>1
  <2>2. sock'[Listener].left = 0 /\ sock'[Listener].rcvevent >= 0 /\ sock'[Listener].left >= 0
        /\ conn'[Listener].mbox \in Seq(Incoming)
    BY <1>2, <1>3, <1>5, MailFacts
  <2> HIDE DEF queue
  <2> QED BY <1>1, <1>2, <1>5, <2>1, <2>2, ConnStays DEF Mail
<1>8. TcpipInv'
  <2>1. conn'[tcpip.conn].st = conn[tcpip.conn].st /\ conn'[tcpip.conn].err = conn[tcpip.conn].err
    BY <1>1, <1>5, MailFacts
  <2> QED BY <1>2, <2>1 DEF Mail, TcpipInv
<1>9. QueueInv'
  <2>1. \A i \in 1 .. Len(queue) :
          /\ conn[queue[i]].st = "open" /\ conn[queue[i]].socket < 0
          /\ \A j \in 1 .. Len(queue) : queue[j] = queue[i] => j = i
          /\ \A u \in Tasks : task[u].pc \in Accepting => task[u].cur # queue[i]
    BY <1>3 DEF Mail, QueueInv
  <2>2. \A i \in 1 .. Len(queue) : conn'[queue[i]] = conn[queue[i]]
    BY <1>4, <1>5
  <2> HIDE DEF queue
  <2>3. \A i \in 1 .. Len(queue) - 1 :
          i + 1 \in 1 .. Len(queue) /\ 1 \in 1 .. Len(queue) /\ i + 1 # 1
    BY <1>3
  <2>4. ASSUME NEW i \in 1 .. Len(queue) - 1
        PROVE  /\ conn'[queue[i + 1]].st = "open" /\ conn'[queue[i + 1]].socket < 0
               /\ \A j \in 1 .. Len(queue) - 1 : queue[j + 1] = queue[i + 1] => j = i
               /\ \A u \in Tasks : task'[u].pc \in Accepting => task'[u].cur # queue[i + 1]
    <3>1. conn'[queue[i + 1]].st = "open" /\ conn'[queue[i + 1]].socket < 0
      BY <2>1, <2>2, <2>3
    <3>2. \A j \in 1 .. Len(queue) - 1 : queue[j + 1] = queue[i + 1] => j = i
      <4>1. \A j \in 1 .. Len(queue) - 1 : queue[j + 1] = queue[i + 1] => j + 1 = i + 1
        BY <2>1, <2>3
      <4> QED BY <1>3, <4>1
    <3>3. task'[t].cur # queue[i + 1]
      BY <1>6, <2>1, <2>3
    <3>4. \A u \in Tasks \ {t} : task'[u].pc \in Accepting => task'[u].cur # queue[i + 1]
      BY <1>2, <2>1, <2>3
    <3> QED BY <3>1, <3>2, <3>3, <3>4
  <2>5. \A i \in DOMAIN conn'[Listener].mbox :
          i \in 1 .. Len(queue) - 1 /\ conn'[Listener].mbox[i] = queue[i + 1]
    BY <1>3, <1>5
  <2> DEFINE new == Tail(queue)
  <2>6. /\ conn'[Listener].mbox = new
        /\ \A i \in DOMAIN new : i \in 1 .. Len(queue) - 1 /\ new[i] = queue[i + 1]
    BY <1>5, <2>5 DEF queue
  <2> HIDE DEF new
  <2>7. ASSUME NEW i \in DOMAIN new
        PROVE  /\ conn'[new[i]].st = "open" /\ conn'[new[i]].socket < 0
               /\ \A j \in DOMAIN new : new[j] = new[i] => j = i
               /\ \A u \in Tasks : task'[u].pc \in Accepting => task'[u].cur # new[i]
    BY <2>4, <2>6
  <2> QED BY <2>6, <2>7 DEF QueueInv
<1>10. CountOK(Listener)'
  <2>1. CountOK(Listener)
    BY <1>1 DEF Mail, CountInv
  <2>2. Events(Listener)' = Events(Listener) /\ Events(Listener) \in Int
    BY <1>1, <1>2, <1>5, MailFacts DEF Events
  <2>3. /\ Coming(Listener)' <=> Coming(Listener)
        /\ Listener \in told' <=> Listener \in told
        /\ ~Takes(Listener) /\ Takes(Listener)'
    BY <1>1, <1>2, <1>6 DEF Coming, Takes
  <2> HIDE DEF queue
  <2>4. /\ Len(conn'[Listener].mbox) = Len(conn[Listener].mbox) + (-1)
        /\ Len(conn[Listener].mbox) \in Int /\ 0 \in Int /\ -1 \in Int
        /\ Events(Listener)' = Events(Listener) + 0
    BY <1>3, <1>5, <2>2 DEF queue
  <2>5. 0 + Num(Coming(Listener)') + Num(Takes(Listener)) + Num(Listener \in told)
          = -1 + Num(Coming(Listener)) + Num(Takes(Listener)') + Num(Listener \in told')
    BY <2>3 DEF Num
  <2> QED BY <1>1, <1>5, <2>1, <2>2, <2>4, <2>5, CountStep, Zenon
<1>11. FinInv' /\ CountInv'
  BY <1>1, <1>2, <1>5, <1>6, <1>10, TaskMail
<1> QED BY <1>7, <1>8, <1>9, <1>11 DEF Mail

\* The event of the listening netconn is subtracted.
LEMMA AcceptedMail ==
  ASSUME Shape, Shape', TaskInv, Mail, NEW t \in Tasks, Accepted(t)
  PROVE  Mail'
<1>1. /\ sock \in [Conns -> SockType] /\ task \in [Tasks -> TaskType] /\ Listener \in Conns
      /\ task[t].pc = "accepted" /\ Owner[Listener] = t /\ sock[Listener].rcvevent > 0
      /\ conn[Listener].st = "open" /\ conn[Listener].socket = 0 /\ ~conn[Listener].fin
      /\ sock[Listener].rcvevent \in Int
  BY MailFacts, TaskFacts DEF Accepted, TaskInv, TaskOK
<1>2. /\ UNCHANGED <<conn, tcpip, told>> /\ \A u \in Tasks \ {t} : task'[u] = task[u]
      /\ task'[t].pc = "alloc" /\ task'[t].cur = task[t].cur
  BY <1>1 DEF Accepted, Goto, TaskType
<1>3. /\ \A d \in Conns \ {Listener} : sock'[d] = sock[d]
      /\ sock'[Listener].rcvevent = sock[Listener].rcvevent - 1
      /\ sock'[Listener].left = sock[Listener].left
  BY <1>1 DEF Accepted, OwnEvent, SockType
<1>4. ConnInv'
  <2>1. sock'[Listener].rcvevent >= 0
    BY <1>1, <1>3
  <2>2. /\ conn'[Listener].st = "open" /\ conn'[Listener].socket = 0 /\ sock'[Listener].left = 0
        /\ ~conn'[Listener].fin /\ conn'[Listener].mbox \in Seq(Incoming)
        /\ Len(conn'[Listener].mbox) <= MboxSize
    BY <1>1, <1>2, <1>3, MailFacts
  <2> QED BY <1>1, <1>2, <1>3, <2>1, <2>2, ConnStays DEF Mail
<1>5. TcpipInv'
  BY <1>2 DEF Mail, TcpipInv
<1>6. QueueInv'
  <2>1. \A u \in Tasks : task'[u].pc \in Accepting =>
                           task[u].pc \in Accepting /\ task'[u].cur = task[u].cur
    BY <1>1, <1>2 DEF Accepting
  <2> QED BY <1>2, <2>1, QueueStays DEF Mail
<1>7. CountOK(Listener)'
  <2>1. CountOK(Listener)
    BY <1>1 DEF Mail, CountInv
  <2>2. Events(Listener)' = Events(Listener) - 1 /\ Events(Listener) \in Int
    BY <1>1, <1>2, <1>3 DEF Events
  <2>3. /\ Coming(Listener)' <=> Coming(Listener)
        /\ Listener \in told' <=> Listener \in told
        /\ Takes(Listener) /\ ~Takes(Listener)'
    BY <1>1, <1>2 DEF Coming, Takes
  <2>4. /\ Len(conn'[Listener].mbox) = Len(conn[Listener].mbox) + 0
        /\ Len(conn[Listener].mbox) \in Int /\ 0 \in Int /\ -1 \in Int
        /\ Events(Listener)' = Events(Listener) + (-1)
    BY <1>1, <1>2, <2>2, MailFacts
  <2>5. -1 + Num(Coming(Listener)') + Num(Takes(Listener)) + Num(Listener \in told)
          = 0 + Num(Coming(Listener)) + Num(Takes(Listener)') + Num(Listener \in told')
    BY <2>3 DEF Num
  <2> QED BY <1>1, <1>2, <2>1, <2>2, <2>4, <2>5, CountStep, Zenon
<1>8. FinInv' /\ CountInv'
  BY <1>1, <1>2, <1>3, <1>7, TaskMail
<1> QED BY <1>4, <1>5, <1>6, <1>8 DEF Mail

\* A netconn that no task accepts and that has a socket, or is being accepted,
\* does not wait in the listening one's mailbox.
LEMMA NotQueued ==
  ASSUME Mail, NEW t \in Tasks, NEW c \in Conns,
         conn[c].socket >= 0 \/ (task[t].pc \in Accepting /\ task[t].cur = c),
         conn[c].socket \in Int
  PROVE  \A i \in DOMAIN conn[Listener].mbox : conn[Listener].mbox[i] # c
  BY DEF Mail, QueueInv

\* A netconn is deleted, by a task that works on it; the tcpip task is idle.
LEMMA DeletedMail ==
  ASSUME Shape, Shape', Mail, NEW t \in Tasks, NEW c \in Conns, c # Listener,
         \A i \in DOMAIN conn[Listener].mbox : conn[Listener].mbox[i] # c,
         conn' = Deleted(c), tcpip.at = "idle", UNCHANGED tcpip,
         \A u \in Tasks \ {t} : task'[u] = task[u], task[t].cur = c,
         task'[t].pc = "serve", task[t].pc \notin {"accepted"},
         sock' \in {sock, [sock EXCEPT ![c] = NewSock]}, told' \in {told, told \ {c}}
  PROVE  Mail'
<1>1. /\ conn \in [Conns -> ConnType] /\ sock \in [Conns -> SockType] /\ Listener \in Conns
      /\ MboxSize \in Nat
  BY MailFacts
<1>2. /\ \A d \in Conns \ {c} : conn'[d] = conn[d] /\ sock'[d] = sock[d]
      /\ conn'[c] = NewConn("closed", -1)
  BY <1>1 DEF Deleted
<1>3. conn'[c].st = "closed" /\ conn'[c].socket = -1 /\ conn'[c].mbox = <<>>
  BY <1>2 DEF NewConn
<1>4. ConnInv'
  <2>1. sock'[c].rcvevent >= 0 /\ sock'[c].left >= 0
    <3>1. sock'[c] = sock[c] \/ sock'[c] = NewSock
      BY <1>1
    <3> QED BY <3>1, MailFacts DEF NewSock
  <2>2. conn'[c].mbox \in Seq(Messages) /\ Len(conn'[c].mbox) <= MboxSize
    BY <1>1, <1>3, EmptySeq
  <2>3. told' \in {told, told \cup {c}, told \ {c}} /\ ConnInv
    BY DEF Mail
  <2> QED BY <1>2, <1>3, <2>1, <2>2, <2>3, ConnStays
<1>5. TcpipInv'
  <2>1. ~tcpip.null /\ conn[tcpip.conn].st # "none" /\ tcpip.conn \in Conns
    BY MailFacts DEF Mail, TcpipInv
  <2>2. conn'[tcpip.conn].st # "none"
    BY <1>2, <1>3, <2>1
  <2> QED BY <2>1, <2>2 DEF TcpipInv
<1>6. QueueInv'
  <2>1. \A i \in DOMAIN conn[Listener].mbox :
          conn'[conn[Listener].mbox[i]] = conn[conn[Listener].mbox[i]]
    <3>1. \A i \in DOMAIN conn[Listener].mbox : conn[Listener].mbox[i] \in Conns
      BY MailFacts
    <3> QED BY <1>2, <3>1
  <2>2. \A u \in Tasks : task'[u].pc \in Accepting =>
                           task[u].pc \in Accepting /\ task'[u].cur = task[u].cur
    BY DEF Accepting
  <2> QED BY <1>1, <1>2, <2>1, <2>2, QueueStays DEF Mail
<1>7. FinOK(c)' /\ CountOK(c)'
  BY <1>3 DEF FinOK, CountOK
<1>8. FinInv' /\ CountInv'
  <2>1. told' \in {told, told \cup {c}, told \ {c}}
    OBVIOUS
  <2>2. "accepted" \notin {task[t].pc, task'[t].pc} /\ task'[t].pc \notin {"minus", "fin"}
    OBVIOUS
  <2> QED BY <1>2, <1>7, <2>1, <2>2, TaskMail
<1> QED BY <1>4, <1>5, <1>6, <1>8 DEF Mail

\* alloc_socket.
LEMMA AllocSocketMail ==
  ASSUME Shape, Shape', TaskInv, Mail, NEW t \in Tasks, AllocSocket(t)
  PROVE  Mail'
<1>0. task[t].cur \in Conns
  BY TaskFacts
<1> SUFFICES ASSUME NEW c \in Conns, c = task[t].cur PROVE Mail'
  BY <1>0
<1>1. /\ conn \in [Conns -> ConnType] /\ sock \in [Conns -> SockType]
      /\ task \in [Tasks -> TaskType] /\ Listener \in Conns
      /\ task[t].pc = "alloc" /\ tcpip.at = "idle" /\ conn[c].socket \in Int
  BY MailFacts, TaskFacts DEF AllocSocket
<1>2. task[t].pc \in Accepting
  BY <1>1 DEF Accepting
<1>3. c # Listener /\ conn[c].socket < 0 /\ conn[c].st = "open"
  BY <1>2, SocketsAssumption DEF TaskInv, TaskOK
<1>4. /\ UNCHANGED <<tcpip, told>> /\ \A u \in Tasks \ {t} : task'[u] = task[u]
  BY OutsideSelect DEF Accept, AllocSocket
<1>5. CASE conn' = Deleted(c) /\ Returns(t) /\ UNCHANGED sock
  <2>1. task'[t].pc = "serve"
    BY <1>1, <1>5 DEF Returns, Between
  <2>2. \A i \in DOMAIN conn[Listener].mbox : conn[Listener].mbox[i] # c
    BY <1>1, <1>2, NotQueued
  <2> QED BY <1>1, <1>3, <1>4, <1>5, <2>1, <2>2, DeletedMail
<1>6. CASE sock' = [sock EXCEPT ![c] = NewSock] /\ Goto(t, "publish") /\ UNCHANGED conn
  <2>1. task'[t].pc = "publish" /\ task'[t].cur = c
    BY <1>1, <1>6 DEF Goto, TaskType
  <2>2. /\ \A d \in Conns \ {c} : sock'[d] = sock[d]
        /\ sock'[c].rcvevent = 0 /\ sock'[c].left = 0
    BY <1>1, <1>6 DEF NewSock
  <2>3. ConnInv'
    <3>1. sock'[c].rcvevent >= 0 /\ sock'[c].left >= 0
      BY <2>2
    <3> QED BY <1>3, <1>4, <1>6, <2>2, <3>1, MailFacts, ConnStays DEF Mail
  <2>4. TcpipInv'
    BY <1>4, <1>6 DEF Mail, TcpipInv
  <2>5. QueueInv'
    <3>1. \A u \in Tasks : task'[u].pc \in Accepting =>
                             task[u].pc \in Accepting /\ task'[u].cur = task[u].cur
      BY <1>2, <1>4, <2>1
    <3> QED BY <1>6, <3>1, QueueStays DEF Mail
  <2>6. FinOK(c)' /\ CountOK(c)'
    <3>1. FinOK(c) /\ CountOK(c)
      BY <1>3 DEF Mail, FinInv, CountInv
    <3>2. /\ Events(c)' = Events(c) /\ (Coming(c)' <=> Coming(c))
          /\ (c \in told' <=> c \in told)
      BY <1>1, <1>3, <1>4, <1>6 DEF Events, Coming
    <3>3. (Takes(c)' <=> Takes(c)) /\ (HasFin(c)' <=> HasFin(c))
      <4>1. CASE Owner[c] = t
        BY <1>1, <1>3, <2>1, <4>1 DEF Takes, HasFin
      <4>2. CASE Owner[c] # t
        <5>1. task'[Owner[c]] = task[Owner[c]]
          BY <1>4, <4>2, SocketsAssumption
        <5> QED BY <5>1 DEF Takes, HasFin
      <4> QED BY <4>1, <4>2
    <3>4. FinOK(c)'
      BY <1>6, <3>1, <3>2, <3>3 DEF FinOK
    <3>5. CountOK(c)'
      <4>1. /\ Num(Coming(c)') = Num(Coming(c)) /\ Num(Takes(c)') = Num(Takes(c))
            /\ Num(c \in told') = Num(c \in told)
        BY <3>2, <3>3 DEF Num
      <4> QED BY <1>6, <3>1, <3>2, <4>1, Zenon DEF CountOK
    <3> QED BY <3>4, <3>5
  <2>7. FinInv' /\ CountInv'
    BY <1>1, <1>4, <1>6, <2>1, <2>2, <2>6, TaskMail
  <2> QED BY <2>3, <2>4, <2>5, <2>7 DEF Mail
<1> QED BY <1>5, <1>6 DEF AllocSocket

\* lwip_accept gives the netconn its socket, and the socket its events.
LEMMA PublishMail ==
  ASSUME Shape, Shape', TaskInv, Mail, NEW t \in Tasks, Publish(t)
  PROVE  Mail'
<1>0. task[t].cur \in Conns
  BY TaskFacts
<1> SUFFICES ASSUME NEW c \in Conns, c = task[t].cur PROVE Mail'
  BY <1>0
<1>1. /\ conn \in [Conns -> ConnType] /\ sock \in [Conns -> SockType]
      /\ task \in [Tasks -> TaskType] /\ Listener \in Conns
      /\ task[t].pc = "publish" /\ conn[c].socket \in Int
  BY MailFacts, TaskFacts DEF Publish
<1>2. task[t].pc \in Accepting
  BY <1>1 DEF Accepting
<1>3. /\ c # Listener /\ conn[c].socket < 0 /\ conn[c].st = "open" /\ sock[c].rcvevent = 0
      /\ Owner[c] = t
  BY <1>1, <1>2, SocketsAssumption DEF TaskInv, TaskOK
<1>4. /\ UNCHANGED <<tcpip, told>> /\ \A u \in Tasks \ {t} : task'[u] = task[u]
  BY OutsideSelect DEF Accept, Publish
<1>5. /\ \A d \in Conns \ {c} : conn'[d] = conn[d] /\ sock'[d] = sock[d]
      /\ conn'[c].st = "open" /\ conn'[c].socket = 0 /\ conn'[c].mbox = conn[c].mbox
      /\ conn'[c].err = conn[c].err /\ conn'[c].fin = conn[c].fin
      /\ sock'[c].left = sock[c].left
  BY <1>1, <1>3 DEF Publish, OwnEvent, ConnType, SockType
<1>6. sock'[c].rcvevent = -1 - conn[c].socket
  <2>1. sock'[c].rcvevent = sock[c].rcvevent + (-1 - conn[c].socket)
    BY <1>1 DEF Publish, OwnEvent, SockType
  <2> QED BY <1>1, <1>3, <2>1
<1>7. task'[t].pc = "serve"
  BY <1>1 DEF Publish, Returns, Between
<1>8. ConnInv'
  <2>1. sock'[c].rcvevent >= 0
    BY <1>1, <1>3, <1>6
  <2>2. /\ sock'[c].left >= 0 /\ conn'[c].mbox \in Seq(Messages)
        /\ Len(conn'[c].mbox) <= MboxSize
    BY <1>3, <1>5, MailFacts
  <2> QED BY <1>3, <1>4, <1>5, <2>1, <2>2, ConnStays DEF Mail
<1>9. TcpipInv'
  <2>1. conn'[tcpip.conn].st = conn[tcpip.conn].st /\ conn'[tcpip.conn].err = conn[tcpip.conn].err
    BY <1>3, <1>5, MailFacts
  <2> QED BY <1>4, <2>1 DEF Mail, TcpipInv
<1>10. QueueInv'
  <2>1. \A i \in DOMAIN conn[Listener].mbox :
          conn'[conn[Listener].mbox[i]] = conn[conn[Listener].mbox[i]]
    <3>1. \A i \in DOMAIN conn[Listener].mbox : conn[Listener].mbox[i] \in Conns
      BY MailFacts
    <3>2. \A i \in DOMAIN conn[Listener].mbox : conn[Listener].mbox[i] # c
      BY <1>1, <1>2, NotQueued
    <3> QED BY <1>5, <3>1, <3>2
  <2>2. \A u \in Tasks : task'[u].pc \in Accepting =>
                           task[u].pc \in Accepting /\ task'[u].cur = task[u].cur
    BY <1>4, <1>7 DEF Accepting
  <2> QED BY <1>1, <1>3, <1>5, <2>1, <2>2, QueueStays DEF Mail
<1>11. /\ ~Takes(c) /\ ~HasFin(c) /\ ~Takes(c)' /\ ~HasFin(c)'
       /\ (Coming(c)' <=> Coming(c)) /\ (c \in told' <=> c \in told)
  BY <1>1, <1>3, <1>4, <1>7 DEF Takes, HasFin, Coming
<1>12. FinOK(c) /\ CountOK(c)
  BY <1>3 DEF Mail, FinInv, CountInv
<1>13. Events(c)' = Events(c)
  BY <1>1, <1>3, <1>5, <1>6, SMTT(30) DEF Events
<1>14. FinOK(c)'
  BY <1>3, <1>5, <1>11, <1>12 DEF FinOK
<1>15. CountOK(c)'
  <2>1. /\ Num(Coming(c)') = Num(Coming(c)) /\ Num(Takes(c)') = Num(Takes(c))
        /\ Num(c \in told') = Num(c \in told)
    BY <1>11 DEF Num
  <2> QED BY <1>3, <1>5, <1>12, <1>13, <2>1, Zenon DEF CountOK
<1>16. FinInv' /\ CountInv'
  BY <1>1, <1>4, <1>5, <1>7, <1>14, <1>15, TaskMail
<1> QED BY <1>8, <1>9, <1>10, <1>16 DEF Mail

\* lwip_close.
LEMMA CloseMail ==
  ASSUME Shape, Shape', TaskInv, Mail, NEW t \in Tasks, Close(t)
  PROVE  Mail'
<1>0. task[t].cur \in Conns
  BY TaskFacts
<1> SUFFICES ASSUME NEW c \in Conns, c = task[t].cur PROVE Mail'
  BY <1>0
<1>1. /\ task \in [Tasks -> TaskType] /\ task[t].pc = "close" /\ tcpip.at = "idle"
      /\ conn[c].socket \in Int
  BY MailFacts, TaskFacts DEF Close
<1>2. c # Listener /\ conn[c].socket >= 0
  BY <1>1 DEF TaskInv, TaskOK, Reading, Readset, HasSocket
<1>3. /\ UNCHANGED tcpip /\ \A u \in Tasks \ {t} : task'[u] = task[u]
      /\ conn' = Deleted(c) /\ sock' = [sock EXCEPT ![c] = NewSock] /\ told' = told \ {c}
  BY OutsideSelect DEF Close
<1>4. task'[t].pc = "serve"
  BY <1>1 DEF Close, Returns, Between
<1>5. \A i \in DOMAIN conn[Listener].mbox : conn[Listener].mbox[i] # c
  BY <1>1, <1>2, NotQueued
<1> QED BY <1>1, <1>2, <1>3, <1>4, <1>5, DeletedMail

\* The netconn that a task reads from.
LEMMA ReadingFacts ==
  ASSUME Shape, TaskInv, Mail, NEW t \in Tasks, task[t].pc \in Reading, Recv(t)
  PROVE  \E c \in Conns :
           /\ c = task[t].cur /\ c # Listener /\ Owner[c] = t
           /\ conn[c].st = "open" /\ conn[c].socket >= 0
           /\ task[t].pc \in {"fetch", "minus", "fin"} => sock[c].rcvevent > 0
           /\ FinOK(c) /\ CountOK(c)
           /\ UNCHANGED tcpip /\ \A u \in Tasks \ {t} : task'[u] = task[u]
           /\ \A i \in DOMAIN conn[Listener].mbox :
                conn[Listener].mbox[i] # c /\ conn[Listener].mbox[i] \in Conns
<1>0. task[t].cur \in Conns
  BY TaskFacts
<1> SUFFICES ASSUME NEW c \in Conns, c = task[t].cur
             PROVE /\ c = task[t].cur /\ c # Listener /\ Owner[c] = t
                   /\ conn[c].st = "open" /\ conn[c].socket >= 0
                   /\ task[t].pc \in {"fetch", "minus", "fin"} => sock[c].rcvevent > 0
                   /\ FinOK(c) /\ CountOK(c)
                   /\ UNCHANGED tcpip /\ \A u \in Tasks \ {t} : task'[u] = task[u]
                   /\ \A i \in DOMAIN conn[Listener].mbox :
                        conn[Listener].mbox[i] # c /\ conn[Listener].mbox[i] \in Conns
  BY <1>0
<1>1. /\ c # Listener /\ Owner[c] = t /\ conn[c].st = "open" /\ conn[c].socket >= 0
      /\ task[t].pc \in {"fetch", "minus", "fin"} => sock[c].rcvevent > 0
  BY DEF TaskInv, TaskOK, Readset, HasSocket
<1>2. FinOK(c) /\ CountOK(c)
  BY <1>1 DEF Mail, FinInv, CountInv
<1>3. UNCHANGED tcpip /\ \A u \in Tasks \ {t} : task'[u] = task[u]
  BY OutsideSelect
<1>4. \A i \in DOMAIN conn[Listener].mbox : conn[Listener].mbox[i] \in Conns
  BY MailFacts
<1>5. \A i \in DOMAIN conn[Listener].mbox : conn[Listener].mbox[i] # c
  BY <1>1, MailFacts, NotQueued
<1> QED BY <1>1, <1>2, <1>3, <1>4, <1>5

\* netconn_recv_data takes a message; behind the FIN there is none.
LEMMA FetchMail ==
  ASSUME Shape, Shape', TaskInv, Mail, NEW t \in Tasks, Fetch(t)
  PROVE  Mail'
<1>0. task[t].pc = "fetch" /\ task[t].pc \in Reading
  BY DEF Fetch, Reading
<1>1. PICK c \in Conns :
        /\ c = task[t].cur /\ c # Listener /\ Owner[c] = t
        /\ conn[c].st = "open" /\ conn[c].socket >= 0
        /\ FinOK(c) /\ CountOK(c)
        /\ UNCHANGED tcpip /\ \A u \in Tasks \ {t} : task'[u] = task[u]
        /\ \A i \in DOMAIN conn[Listener].mbox :
             conn[Listener].mbox[i] # c /\ conn[Listener].mbox[i] \in Conns
  BY <1>0, ReadingFacts, SMTT(30) DEF Recv
<1> DEFINE m == conn[c].mbox
           p == Head(m)
<1>2. /\ conn \in [Conns -> ConnType] /\ sock \in [Conns -> SockType]
      /\ task \in [Tasks -> TaskType] /\ Listener \in Conns /\ UNCHANGED told
      /\ m # <<>> /\ m \in Seq(Messages)
  BY <1>1, MailFacts, TaskFacts DEF Fetch
<1>3. /\ p \in Messages /\ p = m[1] /\ Tail(m) \in Seq(Messages)
      /\ Len(Tail(m)) = Len(m) - 1 /\ Len(m) \in Nat /\ Len(m) > 0
      /\ DOMAIN Tail(m) = 1 .. Len(m) - 1 /\ DOMAIN m = 1 .. Len(m)
      /\ \A i \in 1 .. Len(m) - 1 : Tail(m)[i] = m[i + 1]
  BY <1>2, MboxIs
<1>4. /\ \A d \in Conns \ {c} : conn'[d] = conn[d] /\ sock'[d] = sock[d]
      /\ conn'[c].st = "open" /\ conn'[c].socket = conn[c].socket
      /\ conn'[c].err = conn[c].err /\ conn'[c].fin = conn[c].fin
      /\ conn'[c].mbox = Tail(m)
      /\ sock'[c].left = p.len /\ sock'[c].rcvevent = sock[c].rcvevent
  <2>1. /\ conn' = [conn EXCEPT ![c].mbox = Tail(m)]
        /\ sock' = [sock EXCEPT ![c].left = p.len, ![c].push = p.push]
    BY <1>1, <1>2 DEF Fetch
  <2> DEFINE tail == Tail(m)
             push == p.push
             left == p.len
  <2>2. /\ conn' = [conn EXCEPT ![c].mbox = tail]
        /\ sock' = [sock EXCEPT ![c].left = left, ![c].push = push]
    BY <2>1
  <2> HIDE DEF tail, push, left
  <2>3. /\ \A d \in Conns \ {c} : conn'[d] = conn[d]
        /\ conn'[c].st = conn[c].st /\ conn'[c].socket = conn[c].socket
        /\ conn'[c].err = conn[c].err /\ conn'[c].fin = conn[c].fin
        /\ conn'[c].mbox = tail
    BY <1>2, <2>2 DEF ConnType
  <2>4. /\ \A d \in Conns \ {c} : sock'[d] = sock[d]
        /\ sock'[c].left = left /\ sock'[c].rcvevent = sock[c].rcvevent
    BY <1>2, <2>2 DEF SockType
  <2> QED BY <1>1, <2>3, <2>4 DEF tail, left
<1>5. task'[t].pc = (IF p = FIN THEN "fin" ELSE "minus") /\ task'[t].cur = c
  BY <1>1, <1>2 DEF Fetch, Goto, TaskType
<1> HIDE DEF m, p
<1>6. ConnInv'
  <2>1. sock'[c].left >= 0 /\ sock'[c].rcvevent >= 0 /\ conn'[c].socket <= 0
    BY <1>3, <1>4, MailFacts DEF Messages
  <2>2. conn'[c].mbox \in Seq(Messages) /\ Len(conn'[c].mbox) <= MboxSize
    <3>1. Len(m) <= MboxSize /\ MboxSize \in Nat
      BY MailFacts DEF m
    <3> QED BY <1>3, <1>4, <3>1
  <2> QED BY <1>1, <1>2, <1>4, <2>1, <2>2, ConnStays DEF Mail
<1>7. TcpipInv'
  <2>1. conn'[tcpip.conn].st = conn[tcpip.conn].st /\ conn'[tcpip.conn].err = conn[tcpip.conn].err
    BY <1>1, <1>4, MailFacts
  <2> QED BY <1>1, <2>1 DEF Mail, TcpipInv
<1>8. QueueInv'
  <2>1. \A u \in Tasks : task'[u].pc \in Accepting =>
                           task[u].pc \in Accepting /\ task'[u].cur = task[u].cur
    BY <1>1, <1>5 DEF Accepting
  <2>2. conn'[Listener].mbox = conn[Listener].mbox
        /\ \A i \in DOMAIN conn[Listener].mbox :
             conn'[conn[Listener].mbox[i]] = conn[conn[Listener].mbox[i]]
    BY <1>1, <1>2, <1>4
  <2> QED BY <2>1, <2>2, QueueStays DEF Mail
<1>9. FinOK(c)'
  <2>1. ASSUME ~conn[c].err
        PROVE  /\ c \in told \/ HasFin(c) => conn[c].fin
               /\ \A i \in 1 .. Len(m) :
                    m[i] = FIN => i = Len(m) /\ conn[c].fin /\ c \notin told
    BY <1>1, <1>3, <2>1 DEF FinOK, m
  <2>2. HasFin(c)' <=> p = FIN
    BY <1>1, <1>5 DEF HasFin
  <2>3. ASSUME ~conn[c].err, p = FIN
        PROVE  conn[c].fin /\ c \notin told /\ DOMAIN Tail(m) = {}
    <3>1. 1 \in 1 .. Len(m) /\ m[1] = FIN
      BY <1>3, <2>3
    <3>2. 1 = Len(m) /\ conn[c].fin /\ c \notin told
      BY <2>1, <2>3, <3>1, Zenon
    <3>3. DOMAIN Tail(m) = 1 .. 0
      <4>1. Len(m) - 1 = 0
        BY <3>2
      <4> QED BY <1>3, <4>1
    <3> QED BY <3>2, <3>3
  <2>4. ASSUME ~conn[c].err, NEW i \in DOMAIN Tail(m), Tail(m)[i] = FIN
        PROVE  i = Len(Tail(m)) /\ conn[c].fin /\ c \notin told
    <3>1. i \in 1 .. Len(m) - 1 /\ i + 1 \in 1 .. Len(m) /\ m[i + 1] = FIN
      BY <1>3, <2>4
    <3>2. i + 1 = Len(m) /\ conn[c].fin /\ c \notin told
      BY <2>1, <2>4, <3>1, Zenon
    <3> QED BY <1>3, <3>1, <3>2
  <2>5. ~conn'[c].err =>
           /\ c \in told' \/ HasFin(c)' => conn'[c].fin
           /\ \A i \in DOMAIN conn'[c].mbox :
                conn'[c].mbox[i] = FIN =>
                  i = Len(conn'[c].mbox) /\ conn'[c].fin /\ c \notin told' /\ ~HasFin(c)'
           /\ c \notin told' \/ ~HasFin(c)'
    BY <1>2, <1>4, <2>1, <2>2, <2>3, <2>4
  <2> QED BY <2>5, SMTT(30) DEF FinOK
<1>10. CountOK(c)'
  <2>1. Events(c)' = Events(c) /\ Events(c) \in Int
    BY <1>1, <1>4, MailFacts DEF Events
  <2>2. /\ Coming(c)' <=> Coming(c)
        /\ c \in told' <=> c \in told
        /\ ~Takes(c) /\ Takes(c)'
    BY <1>0, <1>1, <1>2, <1>5 DEF Coming, Takes
  <2>3. /\ Len(conn'[c].mbox) = Len(conn[c].mbox) + (-1) /\ Events(c)' = Events(c) + 0
        /\ Len(conn[c].mbox) \in Int /\ 0 \in Int /\ -1 \in Int
    BY <1>3, <1>4, <2>1 DEF m
  <2>4. 0 + Num(Coming(c)') + Num(Takes(c)) + Num(c \in told)
          = -1 + Num(Coming(c)) + Num(Takes(c)') + Num(c \in told')
    BY <2>2 DEF Num
  <2> QED BY <1>1, <1>4, <2>1, <2>3, <2>4, CountStep, Zenon
<1>11. FinInv' /\ CountInv'
  BY <1>0, <1>1, <1>2, <1>4, <1>5, <1>9, <1>10, TaskMail
<1> QED BY <1>6, <1>7, <1>8, <1>11, SMTT(30) DEF Mail

\* What is left to show of a step that subtracts an event or tells the FIN again:
\* no netconn changes.
LEMMA SubtractMail ==
  ASSUME Shape, Mail, NEW t \in Tasks, NEW c \in Conns, c # Listener,
         UNCHANGED <<conn, tcpip>>, \A u \in Tasks \ {t} : task'[u] = task[u],
         \A d \in Conns \ {c} : sock'[d] = sock[d],
         sock'[c].rcvevent >= 0, sock'[c].left >= 0, conn[c].st # "none",
         told' \in {told, told \cup {c}},
         task[t].cur = c, task[t].pc # "accepted",
         task'[t].pc \notin Accepting \cup {"minus", "fin"},
         FinOK(c)', CountOK(c)'
  PROVE  Mail'
<1>1. ConnInv'
  <2>1. /\ conn'[c].mbox \in Seq(Messages) /\ Len(conn'[c].mbox) <= MboxSize
        /\ conn'[c].socket <= 0
    BY MailFacts
  <2>2. told' \in {told, told \cup {c}, told \ {c}}
    OBVIOUS
  <2> QED BY <2>1, <2>2, ConnStays DEF Mail
<1>2. TcpipInv'
  BY DEF Mail, TcpipInv
<1>3. QueueInv'
  <2>1. \A u \in Tasks : task'[u].pc \in Accepting =>
                           task[u].pc \in Accepting /\ task'[u].cur = task[u].cur
    OBVIOUS
  <2> QED BY <2>1, QueueStays DEF Mail
<1>4. FinInv' /\ CountInv'
  <2>1. told' \in {told, told \cup {c}, told \ {c}}
    OBVIOUS
  <2>2. "accepted" \notin {task[t].pc, task'[t].pc} /\ task'[t].pc \notin {"minus", "fin"}
    BY DEF Accepting
  <2> QED BY <2>1, <2>2, TaskMail
<1> QED BY <1>1, <1>2, <1>3, <1>4 DEF Mail

\* The event of a message that was taken is subtracted.
LEMMA RecvMinusMail ==
  ASSUME Shape, Shape', TaskInv, Mail, NEW t \in Tasks, RecvMinus(t)
  PROVE  Mail'
<1>0. task[t].pc = "minus" /\ task[t].pc \in Reading
  BY DEF RecvMinus, Reading
<1>1. PICK c \in Conns :
        /\ c = task[t].cur /\ c # Listener /\ Owner[c] = t
        /\ conn[c].st = "open" /\ conn[c].socket >= 0 /\ sock[c].rcvevent > 0
        /\ FinOK(c) /\ CountOK(c)
        /\ UNCHANGED tcpip /\ \A u \in Tasks \ {t} : task'[u] = task[u]
  BY <1>0, ReadingFacts DEF Recv
<1>2. /\ sock \in [Conns -> SockType] /\ task \in [Tasks -> TaskType]
      /\ UNCHANGED <<conn, told>> /\ sock[c].rcvevent \in Int /\ sock[c].left >= 0
      /\ Len(conn[c].mbox) \in Nat
  BY MailFacts, TaskFacts DEF RecvMinus
<1>3. /\ \A d \in Conns \ {c} : sock'[d] = sock[d]
      /\ sock'[c].rcvevent = sock[c].rcvevent - 1 /\ sock'[c].left = sock[c].left
      /\ task'[t].pc = "copy"
  BY <1>1, <1>2 DEF RecvMinus, OwnEvent, Goto, TaskType, SockType
<1>4. /\ Takes(c) /\ ~Takes(c)' /\ ~HasFin(c) /\ ~HasFin(c)'
      /\ Coming(c)' <=> Coming(c)
      /\ c \in told' <=> c \in told
  BY <1>0, <1>1, <1>2, <1>3 DEF Takes, HasFin, Coming
<1>5. FinOK(c)'
  BY <1>1, <1>2, <1>4 DEF FinOK
<1>6. CountOK(c)'
  <2>1. Events(c)' = Events(c) + (-1) /\ Events(c) \in Int
    BY <1>1, <1>2, <1>3 DEF Events
  <2>2. /\ Len(conn'[c].mbox) = Len(conn[c].mbox) + 0 /\ conn'[c].err = conn[c].err
        /\ Len(conn[c].mbox) \in Int /\ 0 \in Int /\ -1 \in Int
    BY <1>2
  <2>3. -1 + Num(Coming(c)') + Num(Takes(c)) + Num(c \in told)
          = 0 + Num(Coming(c)) + Num(Takes(c)') + Num(c \in told')
    BY <1>4 DEF Num
  <2> QED BY <1>1, <2>1, <2>2, <2>3, CountStep, Zenon
<1>7. sock'[c].rcvevent >= 0 /\ sock'[c].left >= 0
  BY <1>1, <1>2, <1>3
<1>8. task'[t].pc \notin Accepting \cup {"minus", "fin"}
  BY <1>3 DEF Accepting
<1> QED BY <1>0, <1>1, <1>2, <1>3, <1>5, <1>6, <1>7, <1>8, SubtractMail

\* The FIN: its event is subtracted, or is left for the next select.
LEMMA RecvFinMail ==
  ASSUME Shape, Shape', TaskInv, Mail, NEW t \in Tasks, RecvFin(t)
  PROVE  Mail'
<1>0. task[t].pc = "fin" /\ task[t].pc \in Reading
  BY DEF RecvFin, Reading
<1>1. PICK c \in Conns :
        /\ c = task[t].cur /\ c # Listener /\ Owner[c] = t
        /\ conn[c].st = "open" /\ conn[c].socket >= 0 /\ sock[c].rcvevent > 0
        /\ FinOK(c) /\ CountOK(c)
        /\ UNCHANGED tcpip /\ \A u \in Tasks \ {t} : task'[u] = task[u]
  BY <1>0, ReadingFacts DEF Recv
<1>2. /\ sock \in [Conns -> SockType] /\ task \in [Tasks -> TaskType]
      /\ UNCHANGED conn /\ sock[c].rcvevent \in Int /\ sock[c].left >= 0
      /\ Len(conn[c].mbox) \in Nat
  BY MailFacts, TaskFacts DEF RecvFin
<1>3. /\ Takes(c) /\ HasFin(c)
      /\ task'[t].pc \in {"return", "close"} => ~Takes(c)' /\ ~HasFin(c)'
      /\ Coming(c)' <=> Coming(c)
  BY <1>0, <1>1 DEF Takes, HasFin, Coming
<1>4. CASE task[t].off > 0
  <2>1. told' = told \cup {c} /\ UNCHANGED sock /\ task'[t].pc = "return"
    BY <1>1, <1>2, <1>4 DEF RecvFin, Goto, TaskType
  <2>2. FinOK(c)'
    BY <1>1, <1>2, <1>3, <2>1 DEF FinOK
  <2>3. CountOK(c)'
    <3>1. Events(c)' = Events(c) /\ Events(c) \in Int
      BY <1>1, <1>2, <2>1 DEF Events
    <3>2. ~conn[c].err => c \notin told
      BY <1>1, <1>3 DEF FinOK
    <3>3. /\ Len(conn'[c].mbox) = Len(conn[c].mbox) + 0 /\ conn'[c].err = conn[c].err
          /\ Events(c)' = Events(c) + 0 /\ Len(conn[c].mbox) \in Int /\ 0 \in Int
      BY <1>2, <3>1
    <3>4. ~conn[c].err =>
            0 + Num(Coming(c)') + Num(Takes(c)) + Num(c \in told)
              = 0 + Num(Coming(c)) + Num(Takes(c)') + Num(c \in told')
      BY <1>3, <2>1, <3>2 DEF Num
    <3>5. CASE ~conn[c].err
      BY <1>1, <3>1, <3>3, <3>4, <3>5, CountStep, Zenon
    <3> QED BY <3>3, <3>5 DEF CountOK
  <2>4. task'[t].pc \notin Accepting \cup {"minus", "fin"}
    BY <2>1 DEF Accepting
  <2>5. sock'[c].rcvevent >= 0 /\ sock'[c].left >= 0
    BY <1>1, <1>2, <2>1
  <2> QED BY <1>0, <1>1, <1>2, <2>1, <2>2, <2>3, <2>4, <2>5, SubtractMail
<1>5. CASE ~(task[t].off > 0)
  <2>1. /\ \A d \in Conns \ {c} : sock'[d] = sock[d]
        /\ sock'[c].rcvevent = sock[c].rcvevent - 1 /\ sock'[c].left = sock[c].left
        /\ task'[t].pc = "close" /\ UNCHANGED told
    BY <1>1, <1>2, <1>5, SMTT(30) DEF RecvFin, OwnEvent, Goto, TaskType, SockType
  <2>2. FinOK(c)'
    BY <1>1, <1>2, <1>3, <2>1 DEF FinOK
  <2>3. CountOK(c)'
    <3>1. Events(c)' = Events(c) + (-1) /\ Events(c) \in Int
      BY <1>1, <1>2, <2>1 DEF Events
    <3>2. /\ Len(conn'[c].mbox) = Len(conn[c].mbox) + 0 /\ conn'[c].err = conn[c].err
          /\ Len(conn[c].mbox) \in Int /\ 0 \in Int /\ -1 \in Int
      BY <1>2
    <3>3. -1 + Num(Coming(c)') + Num(Takes(c)) + Num(c \in told)
            = 0 + Num(Coming(c)) + Num(Takes(c)') + Num(c \in told')
      BY <1>3, <2>1 DEF Num
    <3> QED BY <1>1, <3>1, <3>2, <3>3, CountStep, Zenon
  <2>4. task'[t].pc \notin Accepting \cup {"minus", "fin"}
    BY <2>1 DEF Accepting
  <2>5. sock'[c].rcvevent >= 0 /\ sock'[c].left >= 0
    BY <1>1, <1>2, <2>1
  <2> QED BY <1>0, <1>1, <1>2, <2>1, <2>2, <2>3, <2>4, <2>5, SubtractMail
<1> QED BY <1>4, <1>5

-----------------------------------------------------------------------------
(* The inductive invariant *)

\* It holds of the initial state: nothing has arrived and no task selects.
LEMMA InitInv == Init => IInv
<1> SUFFICES ASSUME Init PROVE IInv
  OBVIOUS
<1>1. Shape
  BY InitShape
<1>2. /\ Listener \in Conns /\ Listener \notin Incoming /\ MboxSize \in Nat
      /\ \A c \in Conns : Owner[c] \in Tasks
  BY SocketsAssumption
<1>3. \A c \in Conns :
        /\ conn[c].st = IF c \in Incoming THEN "none" ELSE "open"
        /\ conn[c].socket = IF c \in Incoming THEN -1 ELSE 0
        /\ conn[c].mbox = <<>> /\ ~conn[c].err /\ ~conn[c].fin
        /\ sock[c].rcvevent = 0 /\ sock[c].waiting = 0 /\ sock[c].left = 0
  BY DEF Init, NewConn, NewSock
<1>4. \A t \in Tasks : /\ task[t].pc = "serve" /\ task[t].todo = {} /\ task[t].ready = {}
                       /\ task[t].cur = Listener
  BY DEF Init, Between
<1>5. tcpip.at = "idle" /\ tcpip.conn = Listener /\ tcpip.null = FALSE
  BY DEF Init, Idle
<1>6. SelectInv
  <2>1. \A t \in Tasks : ~Enlisted(t) /\ ~sem[t] /\ ~signalled[t]
    BY DEF Init, Enlisted
  <2>2. DOMAIN list = {}
    BY DEF Init
  <2> QED BY <1>4, <1>5, <2>1, <2>2 DEF SelectInv
<1>7. TaskInv
  <2>1. ASSUME NEW t \in Tasks PROVE TaskOK(t)
    <3>1. /\ task[t].pc \notin Selecting /\ task[t].pc \notin Accepting
          /\ task[t].pc \notin Reading
          /\ task[t].pc \notin {"count", "accept", "accepted", "publish", "recv", "fetch",
                                "minus", "fin"}
      BY <1>4 DEF Selecting, Accepting, Reading
    <3>2. task[t].todo \subseteq Readset(t) /\ task[t].ready \subseteq Readset(t)
          /\ \A c \in task[t].ready : HasEvents(c)
      BY <1>4
    <3> QED BY <3>1, <3>2, Zenon DEF TaskOK
  <2> QED BY <2>1 DEF TaskInv
<1>8. WaitingInv
  BY <1>2, <1>3, <1>4 DEF WaitingInv, Counted
<1>9. ConnInv
  <2>1. \A c \in Conns : conn[c].mbox \in Seq(Messages) /\ Len(conn[c].mbox) = 0
    BY <1>3, EmptySeq
  <2>2. conn[Listener].mbox \in Seq(Incoming)
    BY <1>2, <1>3, EmptySeq
  <2>3. told = {}
    BY DEF Init
  <2> QED BY <1>2, <1>3, <2>1, <2>2, <2>3 DEF ConnInv
<1>10. TcpipInv
  BY <1>2, <1>3, <1>5 DEF TcpipInv
<1>11. QueueInv
  <2>1. DOMAIN conn[Listener].mbox = {}
    BY <1>2, <1>3
  <2> QED BY <2>1 DEF QueueInv
<1>12. \A c \in Conns : c \notin told /\ ~Takes(c) /\ ~HasFin(c) /\ ~Coming(c)
  BY <1>2, <1>4, <1>5 DEF Takes, HasFin, Coming, Init
<1>13. FinInv
  <2>1. \A c \in Conns : DOMAIN conn[c].mbox = {}
    BY <1>3
  <2> QED BY <1>12, <2>1 DEF FinInv, FinOK
<1>14. CountInv
  <2>1. \A c \in Conns : Len(conn[c].mbox) = 0
    BY <1>3
  <2>2. \A c \in Conns : Events(c) = 0
    BY <1>3 DEF Events
  <2>3. \A c \in Conns : Num(Coming(c)) = 0 /\ Num(Takes(c)) = 0 /\ Num(c \in told) = 0
    BY <1>12 DEF Num
  <2>4. 0 + 0 = 0 + 0 + 0
    OBVIOUS
  <2> QED BY <2>1, <2>2, <2>3, <2>4, Zenon DEF CountInv, CountOK
<1> QED BY <1>1, <1>6, <1>7, <1>8, <1>9, <1>10, <1>11, <1>13, <1>14 DEF IInv

\* And every step keeps it.
LEMMA StepInv == IInv /\ [Next]_vars => IInv'
<1> SUFFICES ASSUME IInv, [Next]_vars PROVE IInv'
  OBVIOUS
<1>1. /\ Shape /\ SelectInv /\ TaskInv /\ WaitingInv /\ ConnInv /\ QueueInv /\ Mail
  BY DEF IInv, Mail
<1>2. CASE UNCHANGED vars
  <2> USE <1>2 DEF vars
  <2>1. Shape' /\ SelectInv' /\ TcpipInv' /\ ConnInv' /\ QueueInv'
    BY <1>1 DEF Shape, SelectInv, Enlisted, Mail, TcpipInv, ConnInv, QueueInv
  <2>2. TaskInv'
    BY <1>1 DEF TaskInv, TaskOK, Readset, HasSocket, HasEvents
  <2>3. WaitingInv'
    BY <1>1 DEF WaitingInv, Counted, HasSocket
  <2>4. FinInv' /\ CountInv'
    BY <1>1 DEF Mail, FinInv, CountInv, FinOK, CountOK, Events, Coming, Takes, HasFin
  <2> QED BY <2>1, <2>2, <2>3, <2>4 DEF IInv
<1>3. CASE Tcpip
  <2>1. Shape'
    BY <1>1, <1>3, TcpipShape
  <2>2. SelectInv' /\ TaskInv' /\ WaitingInv' /\ Mail'
    BY <1>1, <1>3, <2>1, TcpipSelect, TcpipTask, OutsideWaiting, TcpipMail
  <2> QED BY <2>1, <2>2 DEF IInv, Mail
<1>4. CASE Network
  <2>1. Shape'
    BY <1>1, <1>4, NetworkShape
  <2>2. SelectInv' /\ TaskInv' /\ WaitingInv'
    BY <1>1, <1>4, <2>1, NetworkSelect, TcpipTask, OutsideWaiting
  <2>3. Mail'
    BY <1>1, <1>4, <2>1, RecvTcpMail, AcceptMail, ErrTcpMail DEF Network
  <2> QED BY <2>1, <2>2, <2>3 DEF IInv, Mail
<1>5. ASSUME NEW t \in Tasks, Select(t) PROVE IInv'
  <2>1. Shape'
    BY <1>1, <1>5, SelectShape
  <2>2. SelectInv' /\ TaskInv' /\ WaitingInv' /\ Mail'
    BY <1>1, <1>5, <2>1, SelectSelect, SelectTask, SelectWaiting, SelectMail
  <2> QED BY <2>1, <2>2 DEF IInv, Mail
<1>6. ASSUME NEW t \in Tasks, Serve(t) \/ Accept(t) \/ Recv(t) \/ Close(t) PROVE IInv'
  <2>1. Shape'
    BY <1>1, <1>6, ServeShape
  <2>2. SelectInv' /\ TaskInv' /\ WaitingInv'
    BY <1>1, <1>6, <2>1, ServeSelect, ServeTask, OutsideWaiting
  <2>3. Mail'
    <3>1. CASE Serve(t) \/ RecvRound(t) \/ Copy(t) \/ Return(t)
      BY <1>1, <2>1, <3>1, QuietServe
    <3>2. CASE Accept(t)
      BY <1>1, <2>1, <3>2, NetconnAcceptMail, AcceptedMail, AllocSocketMail, PublishMail
         DEF Accept
    <3>3. CASE Fetch(t) \/ RecvMinus(t) \/ RecvFin(t)
      BY <1>1, <2>1, <3>3, FetchMail, RecvMinusMail, RecvFinMail
    <3>4. CASE Close(t)
      BY <1>1, <2>1, <3>4, CloseMail
    <3> QED BY <1>6, <3>1, <3>2, <3>3, <3>4 DEF Recv
  <2> QED BY <2>1, <2>2, <2>3 DEF IInv, Mail
<1> QED BY <1>2, <1>3, <1>4, <1>5, <1>6 DEF Next, Task

\* The inductive invariant is an invariant.
LEMMA SocketsInv == Spec => []IInv
<1>1. Spec => [](IInv)
  BY InitInv, StepInv, PTL DEF Spec
<1> QED BY <1>1

-----------------------------------------------------------------------------
(* Theorems *)

\* The messages of a socket that tasks have taken and not yet subtracted: at
\* most one, by the task that owns it.
LEMMA TakenIs ==
  ASSUME TaskInv, NEW c \in Conns PROVE Taken(c) = IF Takes(c) THEN 1 ELSE 0
<1> DEFINE S == {t \in Tasks : \/ task[t].pc \in {"minus", "fin"} /\ task[t].cur = c
                               \/ task[t].pc = "accepted" /\ c = Listener}
<1>1. Taken(c) = Cardinality(S)
  BY DEF Taken
<1>2. Owner[c] \in Tasks
  BY SocketsAssumption
<1>3. \A t \in S : t = Owner[c]
  <2>1. ASSUME NEW t \in S PROVE t = Owner[c]
    <3>1. TaskOK(t)
      BY DEF TaskInv
    <3>2. CASE task[t].pc \in {"minus", "fin"} /\ task[t].cur = c
      BY <3>1, <3>2 DEF TaskOK, Reading, Readset
    <3>3. CASE task[t].pc = "accepted" /\ c = Listener
      BY <3>1, <3>3 DEF TaskOK
    <3> QED BY <3>2, <3>3
  <2> QED BY <2>1
<1>4. Takes(c) <=> Owner[c] \in S
  BY <1>2 DEF Takes
<1>5. S = IF Takes(c) THEN {Owner[c]} ELSE {}
  BY <1>3, <1>4
<1>6. Cardinality({}) = 0 /\ Cardinality({Owner[c]}) = 1
  BY FS_EmptySet, FS_Singleton
<1> HIDE DEF S
<1> QED BY <1>1, <1>5, <1>6

\* The fields of struct lwip_sock and of the netconns, select_cb_list and the
\* semaphores keep their types: rcvevent and the bytes left are never negative,
\* select_waiting is 0 or 1 and no mailbox overflows.
THEOREM TypeCorrect == Spec => []TypeOK
<1>1. IInv => TypeOK
  <2> SUFFICES ASSUME IInv PROVE TypeOK
    OBVIOUS
  <2>1. \A c \in Conns :
          /\ conn[c].st \in {"none", "open", "closed"} /\ conn[c].socket <= 0
          /\ Len(conn[c].mbox) <= MboxSize
          /\ sock[c].rcvevent >= 0 /\ sock[c].waiting \in {0, 1} /\ sock[c].left >= 0
    BY DEF IInv, Shape, ConnType, ConnInv, WaitingInv
  <2>2. /\ \A t \in Tasks : task[t].todo \subseteq Conns /\ task[t].ready \subseteq Conns
        /\ list \in Seq(Tasks) /\ signalled \in [Tasks -> BOOLEAN]
        /\ sem \in [Tasks -> BOOLEAN] /\ told \subseteq Conns
    BY DEF IInv, Shape, TaskType
  <2> QED BY <2>1, <2>2 DEF TypeOK
<1> QED BY <1>1, SocketsInv, PTL

\* lwip_select leaves the semaphore of its task as it found it: whenever
\* event_callback signals it, the select that was signalled takes the signal,
\* in its wait or by the second wait after the timeout.
THEOREM SemaphoreRight == Spec => []SemaphoreClean
<1>1. IInv => SemaphoreClean
  BY DEF IInv, SelectInv, SemaphoreClean
<1> QED BY <1>1, SocketsInv, PTL

\* rcvevent of a socket, or the socket number before lwip_accept is through, and
\* the event that is coming count the messages in the mailbox, those that a task
\* has just taken, and the FIN that lwip_recvfrom has announced again.
THEOREM EventsRight == Spec => []EventsCounted
<1>1. IInv => EventsCounted
  <2> SUFFICES ASSUME IInv, NEW c \in Conns, conn[c].st = "open", ~conn[c].err
               PROVE  Events(c) + (IF Coming(c) THEN 1 ELSE 0)
                        = Len(conn[c].mbox) + Taken(c) + (IF c \in told THEN 1 ELSE 0)
    BY DEF EventsCounted, Events, Coming
  <2>1. CountOK(c) /\ Taken(c) = Num(Takes(c))
    BY TakenIs DEF IInv, CountInv, Num
  <2>2. Events(c) + Num(Coming(c)) = Len(conn[c].mbox) + Taken(c) + Num(c \in told)
    BY <2>1, Zenon DEF CountOK
  <2> QED BY <2>2, Zenon DEF Num
<1> QED BY <1>1, SocketsInv, PTL
=============================================================================
