-------------------------------- MODULE Tcp --------------------------------
(***************************************************************************)
(* A TCP connection from its SYN to its end between two hosts that both    *)
(* run lwIP: "c" connects (the station), "s" listens (the web server of    *)
(* the device).  The network loses, repeats and reorders segments.  The    *)
(* handlers are tcp_input with tcp_listen_input, tcp_process and           *)
(* tcp_timewait_input, the timers, and the calls of the application:       *)
(* tcp_connect, tcp_write, tcp_recved, tcp_shutdown, tcp_close.            *)
(***************************************************************************)
EXTENDS TcpOut

CONSTANTS Data,      \* Data[h]: the number of bytes host h wants to send
          MaxRtx,    \* TCP_MAXRTX and TCP_SYNMAXRTX
          MaxFaults, \* bound: segments lost, repeated or overtaken, and
                     \* retransmissions while an answer is on its way
          HalfClose, \* the hosts whose application uses tcp_shutdown
          MaxConn    \* bound: connections the listener opens

Hosts == {"c", "s"}
Peer(h) == IF h = "c" THEN "s" ELSE "c"

\* tcp_next_iss: no two connections start from the same number.
Iss(h, n) == IF h = "c" THEN SeqSpace - 2 ELSE (n * SeqSpace) \div 4

ASSUME TcpConnAssumption ==
    /\ Data \in [Hosts -> Nat] /\ MaxRtx \in Nat \ {0}
    /\ HalfClose \subseteq Hosts
    /\ MaxFaults \in Nat /\ MaxConn \in Nat \ {0}

VARIABLES pcb,    \* pcb[h]: the connection at h, state CLOSED if there is none
          app,    \* app[h]: what the application at h did and was told
          net,    \* net[h]: the segments on their way to h, in order
          late,   \* segments [to, seg] that were overtaken, or copies
          conns,  \* connections the listener has opened
          faults  \* what the network did wrong

vars == <<pcb, app, net, late, conns, faults>>

NoPcb == [state |-> "CLOSED", rxClosed |-> FALSE] @@ RcvPcb(0) @@ SndPcb(0)

NoApp == [wrote |-> 0, read |-> <<>>, unread |-> 0, eof |-> FALSE,
          err |-> "none", opened |-> 0, closed |-> FALSE, shut |-> FALSE]

Init ==
    /\ pcb = [h \in Hosts |-> NoPcb]
    /\ app = [h \in Hosts |-> NoApp]
    /\ net = [h \in Hosts |-> <<>>]
    /\ late = {}
    /\ conns = 0
    /\ faults = 0

\* Host h leaves its pcb as r.p and sends the segments r.out.
Becomes(h, r) ==
    /\ pcb' = [pcb EXCEPT ![h] = r.p]
    /\ net' = [net EXCEPT ![Peer(h)] = @ \o r.out]
    /\ UNCHANGED <<conns, late>>

-----------------------------------------------------------------------------
(* tcp_input: g arrives for p.  The result is [p, out, data, fin, ev]: the *)
(* pcb, the segments sent, what the application gets, and ev: "none", or   *)
(* how the pcb went: "RST", "ABRT", "CLSD" and "DONE" (LAST_ACK is over,   *)
(* with the application told or not).                                      *)

Result(p, out) ==
    [p |-> p, out |-> out, data |-> <<>>, fin |-> FALSE, ev |-> "none"]

\* tcp_pcb_purge, when the connection moves to TIME_WAIT.
TimeWait(p) == [p EXCEPT !.state = "TIME_WAIT", !.unsent = <<>>,
                         !.unacked = <<>>, !.ooseq = <<>>]

\* tcp_listen_input: a SYN opens a connection in SYN_RCVD.
ListenInput(g) ==
    LET n == conns + 1
        q == [state |-> "SYN_RCVD", rxClosed |-> FALSE]
               @@ RcvPcb(Plus(g.seqno, 1))
               @@ [SndPcb(Iss("s", n)) EXCEPT !.snd_wl1 = Plus(g.seqno, -1),
                                              !.snd_wnd = g.wnd]
        r == tcp_output(Enqueue(q, <<>>, FALSE, TRUE))
    IN  IF g.rst THEN Result(NoPcb, <<>>)
        ELSE IF g.ack
        THEN Result(NoPcb, <<tcp_rst(g.ackno, Plus(g.seqno, SegLen(g)))>>)
        ELSE IF g.syn /\ conns < MaxConn THEN Result(r.p, r.out)
        ELSE Result(NoPcb, <<>>)

\* tcp_timewait_input: everything that has a length is acknowledged.
TimeWaitInput(p, g) ==
    LET r == tcp_output(tcp_ack_now(p))
    IN  IF g.rst \/ SegLen(g) = 0 THEN Result(p, <<>>)
        ELSE IF g.syn /\ SeqBetween(g.seqno, p.rcv_nxt, Plus(p.rcv_nxt, p.rcv_wnd))
        THEN Result(p, <<tcp_rst(g.ackno, Plus(g.seqno, SegLen(g)))>>)
        ELSE Result(r.p, r.out)

\* The text of g, for the states that take any.
Text(p, g) ==
    IF TcpLen(g) > 0 /\ p.state \in {"ESTABLISHED", "FIN_WAIT_1", "FIN_WAIT_2"}
    THEN Receive(p, [seqno |-> g.seqno, data |-> g.data, fin |-> g.fin])
    ELSE [p |-> ReceiveEmpty(p, g.seqno), data |-> <<>>,
          fin |-> FALSE, sent |-> FALSE]

\* What tcp_receive leaves: before, the acknowledgements sent at once.
Received(r, before, now) ==
    [p |-> IF r.fin THEN tcp_ack_now(r.p) ELSE r.p,
     out |-> before \o (IF r.sent THEN <<now>> ELSE <<>>),
     data |-> r.data, fin |-> r.fin, ev |-> "none"]

\* tcp_receive: the window and the acknowledgement of g, then its text.
AfterAck(p, q, g) ==
    Received(Text(q, g),
             IF g.ack /\ AckOfNothing(p, g) THEN <<EmptyAck(q)>> ELSE <<>>,
             EmptyAck(q))

TcpReceive(p, g) ==
    AfterAck(p, IF g.ack THEN AcceptAck(UpdateWindow(p, g), g) ELSE p, g)

\* The state after tcp_receive; all: the acknowledgement covers snd_nxt.
NextState(p, r, g) ==
    LET all == g.ack /\ g.ackno = r.p.snd_nxt
    IN  CASE p.state \in {"ESTABLISHED", "CLOSE_WAIT"} /\ r.fin ->
                [r EXCEPT !.p.state = "CLOSE_WAIT"]
          [] p.state = "FIN_WAIT_1" /\ r.fin /\ ~all ->
                [r EXCEPT !.p.state = "CLOSING"]
          [] p.state = "FIN_WAIT_1" /\ ~r.fin /\ all ->
                [r EXCEPT !.p.state = "FIN_WAIT_2"]
          [] \/ p.state = "FIN_WAIT_1" /\ r.fin /\ all
             \/ p.state = "FIN_WAIT_2" /\ r.fin
             \/ p.state = "CLOSING" /\ all ->
                [r EXCEPT !.p = TimeWait(@)]
          [] p.state = "LAST_ACK" /\ all ->
                [r EXCEPT !.ev = IF p.rxClosed THEN "DONE" ELSE "CLSD"]
          [] OTHER -> r

Synchronized(p, g) == NextState(p, TcpReceive(p, g), g)

\* SYN_SENT: the SYN of the peer that acknowledges ours opens the connection.
SynSentInput(p, g) ==
    IF p.unacked = <<>>
    THEN Result(p, IF g.ack THEN <<tcp_rst(g.ackno, Plus(g.seqno, SegLen(g)))>>
                   ELSE <<>>)
    ELSE IF g.ack /\ g.syn /\ g.ackno = Plus(Head(p.unacked).seqno, 1)
    THEN Result(tcp_ack_now(
            [p EXCEPT !.state = "ESTABLISHED", !.rcv_nxt = Plus(g.seqno, 1),
                      !.rcv_ann_right_edge = Plus(g.seqno, 1),
                      !.lastack = g.ackno, !.snd_wnd = g.wnd,
                      !.snd_wl1 = Plus(g.seqno, -1), !.unacked = Tail(@)]), <<>>)
    ELSE Result(p, <<>>)

\* Wrong: any acknowledgement opens the connection.
SynRcvdAny(p, g) ==
    IF g.ack THEN Synchronized([p EXCEPT !.state = "ESTABLISHED"], g)
    ELSE Result(p, <<>>)

\* SYN_RCVD: an acknowledgement of our SYN makes the connection known to the
\* application; another copy of the peer's SYN gets another SYN|ACK.
SynRcvdInput(p, g) ==
    IF g.ack
    THEN IF SeqBetween(g.ackno, Plus(p.lastack, 1), p.snd_nxt)
         THEN Synchronized([p EXCEPT !.state = "ESTABLISHED"], g)
         ELSE Result(p, <<tcp_rst(g.ackno, Plus(g.seqno, SegLen(g)))>>)
    ELSE IF g.syn /\ g.seqno = Plus(p.rcv_nxt, -1) THEN Result(tcp_rexmit(p), <<>>)
    ELSE Result(p, <<>>)

ResetAccepted(p, g) ==
    IF p.state = "SYN_SENT" THEN g.ackno = p.snd_nxt
    ELSE SeqBetween(g.seqno, p.rcv_nxt, Plus(p.rcv_nxt, p.rcv_wnd))

tcp_process(p, g) ==
    IF g.rst
    THEN IF ResetAccepted(p, g) THEN [Result(p, <<>>) EXCEPT !.ev = "RST"]
         ELSE Result(p, <<>>)
    ELSE IF g.syn /\ p.state \notin {"SYN_SENT", "SYN_RCVD"}
    THEN Result(tcp_ack_now(p), <<>>)
    ELSE IF p.state = "SYN_SENT" THEN SynSentInput(p, g)
    ELSE IF p.state = "SYN_RCVD" THEN SynRcvdInput(p, g)
    ELSE Synchronized(p, g)

Sending(r, o) == [r EXCEPT !.p = o.p, !.out = @ \o o.out]

\* tcp_abort of r's pcb. In TIME_WAIT nobody is told.
tcp_abort(r) ==
    LET gone == [r EXCEPT !.p = NoPcb, !.data = <<>>, !.fin = FALSE]
    IN  IF r.p.state = "TIME_WAIT" THEN gone
        ELSE [gone EXCEPT !.ev = "ABRT",
                          !.out = Append(@, tcp_rst(r.p.snd_nxt, r.p.rcv_nxt))]

\* The rest of tcp_input: text that comes after tcp_close aborts the
\* connection; otherwise what is due is sent.
Finish(r) ==
    IF r.ev # "none" THEN [r EXCEPT !.p = NoPcb]
    ELSE IF r.data # <<>> /\ r.p.rxClosed THEN tcp_abort(r)
    ELSE Sending(r, tcp_output(IF r.fin THEN FinEvent(r.p) ELSE r.p))

tcp_input(h, g) ==
    LET p == pcb[h]
    IN  CASE p.state = "CLOSED" /\ h = "s" -> ListenInput(g)
          [] p.state = "CLOSED" /\ h = "c" ->
                Result(p, IF g.rst THEN <<>>
                          ELSE <<tcp_rst(g.ackno, Plus(g.seqno, SegLen(g)))>>)
          [] p.state = "TIME_WAIT" -> TimeWaitInput(p, g)
          [] OTHER -> Finish(tcp_process(p, g))

\* What the application learns: a connection, data, the end, an error. It
\* does not know of a connection in SYN_RCVD.
Told(h, r) ==
    [app[h] EXCEPT
        !.opened = IF /\ pcb[h].state \in {"SYN_SENT", "SYN_RCVD"}
                      /\ r.p.state \in {"ESTABLISHED", "CLOSE_WAIT"}
                   THEN @ + 1 ELSE @,
        !.read = @ \o r.data, !.unread = @ + Len(r.data),
        !.eof = @ \/ r.fin,
        !.err = IF r.ev # "none" /\ pcb[h].state # "SYN_RCVD" THEN r.ev ELSE @]

\* Host h takes the result r of tcp_input; others: the rest of the network.
Takes(h, r, others) ==
    /\ pcb' = [pcb EXCEPT ![h] = r.p]
    /\ net' = [others EXCEPT ![Peer(h)] = @ \o r.out]
    /\ app' = [app EXCEPT ![h] = Told(h, r)]
    /\ conns' = IF pcb[h].state = "CLOSED" /\ r.p.state = "SYN_RCVD"
                THEN conns + 1 ELSE conns

Deliver(h) ==
    /\ net[h] # <<>>
    /\ Takes(h, tcp_input(h, Head(net[h])), [net EXCEPT ![h] = Tail(@)])
    /\ UNCHANGED <<late, faults>>

DeliverLate(m) ==
    /\ Takes(m.to, tcp_input(m.to, m.seg), net)
    /\ late' = late \ {m}
    /\ UNCHANGED faults

\* The next segment to h is lost; or it is overtaken; or a copy of it stays.
Misbehave(h) ==
    LET m == [to |-> h, seg |-> Head(net[h])]
    IN  /\ net[h] # <<>> /\ faults < MaxFaults
        /\ faults' = faults + 1
        /\ \E kind \in {"lost", "overtaken", "copied"} :
              /\ net' = IF kind = "copied" THEN net
                        ELSE [net EXCEPT ![h] = Tail(@)]
              /\ late' = IF kind = "lost" THEN late ELSE late \cup {m}
        /\ UNCHANGED <<pcb, app, conns>>

-----------------------------------------------------------------------------
(* The application *)

Connect ==
    LET iss == Iss("c", 1)
        p == [state |-> "SYN_SENT", rxClosed |-> FALSE] @@ RcvPcb(0)
               @@ [SndPcb(iss) EXCEPT !.lastack = Plus(iss, -1),
                                      !.snd_lbb = Plus(iss, -1)]
    IN  /\ app["c"] = NoApp /\ pcb["c"].state = "CLOSED"
        /\ Becomes("c", tcp_output(Enqueue(p, <<>>, FALSE, TRUE)))
        /\ UNCHANGED <<app, faults>>

Write(h) ==
    /\ pcb[h].state \in {"ESTABLISHED", "CLOSE_WAIT"}
    /\ app[h].wrote < Data[h] /\ ~app[h].closed
    /\ Becomes(h, tcp_output(Enqueue(pcb[h], <<app[h].wrote + 1>>,
                                     FALSE, FALSE)))
    /\ app' = [app EXCEPT ![h].wrote = @ + 1]
    /\ UNCHANGED faults

\* The application takes what has come, and tcp_recved opens the window.
Read(h) ==
    /\ app[h].unread > 0 /\ ~app[h].closed /\ pcb[h].state # "CLOSED"
    /\ Becomes(h, tcp_output(tcp_recved(pcb[h], app[h].unread)))
    /\ app' = [app EXCEPT ![h].unread = 0]
    /\ UNCHANGED faults

\* tcp_close_shutdown with the state after the FIN.
CloseSend(p) ==
    tcp_output([tcp_send_fin(p) EXCEPT
                  !.state = IF p.state = "CLOSE_WAIT" THEN "LAST_ACK"
                            ELSE "FIN_WAIT_1"])

\* tcp_shutdown of the sending side.
ShutdownTx(h) ==
    /\ h \in HalfClose
    /\ pcb[h].state \in {"ESTABLISHED", "CLOSE_WAIT"}
    /\ ~app[h].closed /\ ~app[h].shut
    /\ Becomes(h, CloseSend(pcb[h]))
    /\ app' = [app EXCEPT ![h].shut = TRUE]
    /\ UNCHANGED faults

\* tcp_close: data that was not read resets the connection.
tcp_close(p) ==
    LET q == [p EXCEPT !.rxClosed = TRUE]
        rst == <<tcp_rst(p.snd_nxt, p.rcv_nxt)>>
        unread == p.rcv_wnd # WndMax
    IN  CASE p.state = "ESTABLISHED" /\ unread -> [p |-> TimeWait(q), out |-> rst]
          [] p.state = "CLOSE_WAIT" /\ unread -> [p |-> NoPcb, out |-> rst]
          [] p.state = "SYN_SENT" -> [p |-> NoPcb, out |-> <<>>]
          [] p.state \in {"ESTABLISHED", "CLOSE_WAIT"} /\ ~unread -> CloseSend(q)
          [] OTHER -> [p |-> q, out |-> <<>>]

Close(h) ==
    /\ pcb[h].state \notin {"CLOSED", "SYN_RCVD"}
    /\ ~app[h].closed
    /\ Becomes(h, tcp_close(pcb[h]))
    /\ app' = [app EXCEPT ![h].closed = TRUE,
                          ![h].err = IF \/ pcb[h].state = "SYN_SENT"
                                        \/ /\ pcb[h].rcv_wnd # WndMax
                                           /\ pcb[h].state \in {"ESTABLISHED",
                                                                "CLOSE_WAIT"}
                                     THEN "ABRT" ELSE @]
    /\ UNCHANGED faults

-----------------------------------------------------------------------------
(* The timers *)

Quiet == net = [h \in Hosts |-> <<>>] /\ late = {}

\* tcp_slowtmr: the retransmission timer.
Retransmit(h) ==
    /\ pcb[h].unacked # <<>> /\ pcb[h].snd_wnd > 0
    /\ pcb[h].nrtx # MaxRtx /\ pcb[h].nrtx <= MaxRtx + MaxFaults
    /\ Becomes(h, tcp_rexmit_rto(pcb[h]))
    /\ faults' = IF Quiet THEN faults ELSE faults + 1
    /\ faults' <= MaxFaults
    /\ UNCHANGED app

\* tcp_slowtmr: the persist timer.
Probe(h) ==
    /\ pcb[h].unacked \o pcb[h].unsent # <<>> /\ pcb[h].snd_wnd = 0
    /\ Quiet
    /\ Becomes(h, tcp_zero_window_probe(pcb[h]))
    /\ UNCHANGED <<app, faults>>

\* Wrong: FIN_WAIT_1 and FIN_WAIT_2 may last.
OverdueNoFinWait(h) ==
    \/ pcb[h].nrtx = MaxRtx
    \/ pcb[h].state \in {"SYN_RCVD", "LAST_ACK"}
    \/ pcb[h].state = "TIME_WAIT" /\ Quiet

\* tcp_slowtmr: the pcb goes after the last retransmission, or when its state
\* has lasted too long.  2 MSL are longer than any segment lives.
Overdue(h) ==
    \/ pcb[h].nrtx = MaxRtx
    \/ pcb[h].state \in {"SYN_RCVD", "LAST_ACK"}
    \/ pcb[h].state \in {"FIN_WAIT_1", "FIN_WAIT_2"} /\ pcb[h].rxClosed
    \/ pcb[h].state = "TIME_WAIT" /\ Quiet

RemovePcb(h) ==
    /\ Overdue(h)
    /\ pcb' = [pcb EXCEPT ![h] = NoPcb]
    /\ app' = [app EXCEPT ![h].err = IF pcb[h].state \in {"TIME_WAIT", "SYN_RCVD"}
                                     THEN @ ELSE "ABRT"]
    /\ UNCHANGED <<net, late, conns, faults>>

\* tcp_fasttmr
FastTmr(h) ==
    /\ pcb[h].delayAck
    /\ Becomes(h, tcp_output(tcp_ack_now(pcb[h])))
    /\ UNCHANGED <<app, faults>>

\* What goes on without the applications.
Work == \/ \E h \in Hosts : Deliver(h) \/ Retransmit(h) \/ Probe(h)
                              \/ RemovePcb(h) \/ FastTmr(h)
        \/ \E m \in late : DeliverLate(m)

Next == \/ Work \/ Connect
        \/ \E h \in Hosts : \/ Write(h) \/ Read(h) \/ ShutdownTx(h) \/ Close(h)
                            \/ Misbehave(h)

Busy == \/ ~Quiet
        \/ \E h \in Hosts : \/ pcb[h].unacked # <<>> \/ pcb[h].delayAck
                            \/ pcb[h].unsent # <<>> /\ pcb[h].snd_wnd = 0
                            \/ Overdue(h)

\* Segments arrive and timers run: while there is Work to do something goes on
\* (of everything else there is only so much).  What rxClosed keeps from being
\* renewed runs out; an application that has not closed reads.
Fairness ==
    /\ <>[]Busy => []<><<TRUE>>_vars
    /\ \A h \in Hosts :
          <>[](Overdue(h) /\ pcb[h].rxClosed) => []<><<RemovePcb(h)>>_vars
    /\ \A h \in Hosts :
          <>[](app[h].unread > 0 /\ ~app[h].closed /\ pcb[h].state # "CLOSED")
              => []<><<Read(h)>>_vars

Spec == Init /\ [][Next]_vars /\ Fairness

-----------------------------------------------------------------------------
(* Properties *)

States == {"CLOSED", "SYN_SENT", "SYN_RCVD", "ESTABLISHED", "FIN_WAIT_1",
           "FIN_WAIT_2", "CLOSE_WAIT", "CLOSING", "LAST_ACK", "TIME_WAIT"}

\* The states of the protocol, and windows within the buffer.
TypeOK ==
    \A h \in Hosts :
        /\ pcb[h].state \in States
        /\ pcb[h].rcv_wnd \in 0 .. WndMax /\ pcb[h].snd_wnd \in 0 .. WndMax
        /\ pcb[h].nrtx \in 0 .. MaxRtx + MaxFaults + 1
        /\ app[h].wrote \in 0 .. Data[h]

Bytes(n) == [i \in 1 .. n |-> i]

\* Each application reads, in order and once, bytes the other one wrote, and
\* is told of the end of the stream only when it has all of them.
StreamIntact ==
    \A h \in Hosts :
        /\ Len(app[h].read) <= app[Peer(h)].wrote
        /\ app[h].read = Bytes(Len(app[h].read))
        /\ app[h].eof => /\ app[Peer(h)].closed \/ app[Peer(h)].shut
                         /\ Len(app[h].read) = app[Peer(h)].wrote

\* A copy of an old SYN gives the listening application no second connection.
OneConnection == app["s"].opened <= 1

\* What the bytes in a queue of segments are.
Held(q) == FoldLeft(LAMBDA n, g : n + Len(g.data), 0, q)

\* A host that still has its connection holds every byte it wrote that the
\* other application has not got.
NothingForgotten ==
    \A h \in Hosts :
        pcb[h].state \notin {"CLOSED", "SYN_RCVD", "TIME_WAIT"} =>
            app[h].wrote <= Len(app[Peer(h)].read) + Held(pcb[h].unacked)
                              + Held(pcb[h].unsent)

\* A closed connection goes away, whatever was lost and whatever the other
\* application does (a closed application stays closed, so this says that its
\* connection is gone at some time after the close).
ClosedGoes ==
    []<>(\A h \in Hosts : app[h].closed => pcb[h].state = "CLOSED")

\* What was written arrives, unless one of them closes or has an error (what
\* the applications write is limited: some time all of it has arrived).
DataArrives ==
    []<>(\/ \A h \in Hosts : Len(app[Peer(h)].read) = app[h].wrote
         \/ \E h \in Hosts : app[h].err # "none" \/ app[h].closed)
=============================================================================
