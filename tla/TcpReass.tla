------------------------------ MODULE TcpReass ------------------------------
(***************************************************************************)
(* One direction of an established connection: a peer that follows RFC 793 *)
(* sends the bytes of Stream and then a FIN, in segments that may overlap, *)
(* repeat, get lost and change places, and the receiving half of the stack *)
(* (tcp_input, tcp_receive, tcp_fasttmr, tcp_slowtmr in the tcpip task)    *)
(* hands them through the mailbox of the netconn (recv_tcp) to the task    *)
(* that reads the socket (netconn_recv_data, netconn_recved).              *)
(***************************************************************************)
EXTENDS TcpIn

CONSTANTS StreamLen,   \* bound: bytes the peer sends
          Irs,         \* sequence number of the first byte
          MboxSize     \* TCP_RECVMBOX_SIZE

ASSUME TcpReassAssumption ==
    /\ StreamLen \in Nat /\ MboxSize \in Nat \ {0}
    /\ Irs \in 0 .. SeqSpace - 1
    /\ 2 * (StreamLen + WndMax + 2) < SeqSpace

VARIABLES pcb,    \* RcvPcb, and closeWait: the state left ESTABLISHED
          mbox,   \* conn->recvmbox: chunks of data; <<>> is the EOF mark
          got,    \* the bytes and marks the reading task took
          owed    \* bytes taken and not yet passed to tcp_recved

vars == <<pcb, mbox, got, owed>>

Stream == [i \in 1 .. StreamLen |-> i]
EOF == <<>>

Init ==
    /\ pcb = [rcv_nxt |-> Irs, rcv_wnd |-> WndMax, rcv_ann_wnd |-> WndMax,
              rcv_ann_right_edge |-> Plus(Irs, WndMax), ooseq |-> <<>>,
              refused |-> <<>>, refusedFin |-> FALSE, delayAck |-> FALSE,
              ackNow |-> FALSE, closeWait |-> FALSE]
    /\ mbox = <<>>
    /\ got = <<>>
    /\ owed = 0

-----------------------------------------------------------------------------
(* The peer *)

\* A position of the stream as a number, for a sequence number.
Offset(seqno) == Minus(seqno, Irs)

\* The n bytes at position i of the stream, and its FIN.
Part(i, n, f) == [seqno |-> Plus(Irs, i), data |-> SubSeq(Stream, i + 1, i + n), fin |-> f]

\* Any part of the stream, with its FIN if it reaches the end.
Segments == {Part(t[1], t[2], t[3]) :
             t \in {u \in (0 .. StreamLen) \X (0 .. Mss) \X BOOLEAN :
                      /\ u[1] + u[2] <= StreamLen
                      /\ u[3] => u[1] + u[2] = StreamLen
                      /\ u[2] > 0 \/ u[3]}}

\* The peer stays inside the window it was told of, its FIN too; when that
\* window is closed it sends one byte (or its FIN) to probe it.
MaySend(s) ==
    \/ Offset(s.seqno) + TcpLen(s) <= Offset(pcb.rcv_ann_right_edge)
    \/ /\ pcb.rcv_nxt = pcb.rcv_ann_right_edge
       /\ s.seqno = pcb.rcv_nxt /\ TcpLen(s) = 1

-----------------------------------------------------------------------------
(* The tcpip task.  host is [p, m]: the pcb and the mailbox. *)

\* recv_tcp: the mailbox takes the chunk, or the chunk stays with the pcb.
Post(m, chunk) == IF Len(m) < MboxSize THEN Append(m, chunk) ELSE m

\* TCP_EVENT_CLOSED: the mark is posted; nobody looks whether it fitted.
Closed(host) == [p |-> FinEvent(host.p), m |-> Post(host.m, EOF)]

\* tcp_process_refused_data
Refused(host) ==
    LET free == [host.p EXCEPT !.refused = <<>>, !.refusedFin = FALSE]
        taken == [p |-> free, m |-> Post(host.m, host.p.refused)]
    IN  IF host.p.refused = <<>> \/ Len(host.m) >= MboxSize THEN host
        ELSE IF host.p.refusedFin THEN Closed(taken) ELSE taken

\* The end of tcp_input: the data goes to the application or is kept as
\* refused_data; the FIN waits behind refused data.
PassUp(host, r) ==
    LET full == r.data # <<>> /\ Len(host.m) >= MboxSize
        data == IF r.data = <<>> THEN [p |-> r.p, m |-> host.m]
                ELSE [p |-> [r.p EXCEPT !.refused = IF full THEN r.data ELSE @],
                      m |-> Post(host.m, r.data)]
    IN  IF ~r.fin THEN data
        ELSE IF data.p.refused # <<>> THEN [data EXCEPT !.p.refusedFin = TRUE]
        ELSE Closed(data)

\* tcp_output with nothing to send but an acknowledgement.
Output(p) == IF p.ackNow THEN Announced(p) ELSE p

\* tcp_process in ESTABLISHED and CLOSE_WAIT: after a FIN no text is taken.
Process(p, s) ==
    LET r == IF p.closeWait
             THEN [p |-> ReceiveEmpty(p, s.seqno), data |-> <<>>, fin |-> FALSE,
                   sent |-> FALSE]
             ELSE Receive(p, s)
    IN  IF r.fin THEN [r EXCEPT !.p.closeWait = TRUE, !.p.ackNow = TRUE] ELSE r

Becomes(host) == pcb' = host.p /\ mbox' = host.m

\* tcp_input: refused data goes first, and while it stays no data is taken.
Arrives(s) ==
    LET host == Refused([p |-> pcb, m |-> mbox])
        r == Process(host.p, s)
        up == PassUp(host, r)
    IN  /\ MaySend(s)
        /\ IF host.p.refused # <<>> THEN Becomes(host)
           ELSE Becomes([p |-> Output(up.p), m |-> up.m])
        /\ UNCHANGED <<got, owed>>

\* tcp_fasttmr: the delayed acknowledgement, then the refused data.
FastTmr ==
    /\ pcb.delayAck \/ pcb.refused # <<>>
    /\ Becomes(Refused([p |-> IF pcb.delayAck THEN Announced(pcb) ELSE pcb,
                        m |-> mbox]))
    /\ UNCHANGED <<got, owed>>

\* tcp_slowtmr: a queue that saw no segment for long is dropped.
DropOoseq ==
    /\ pcb.ooseq # <<>>
    /\ pcb' = [pcb EXCEPT !.ooseq = <<>>]
    /\ UNCHANGED <<mbox, got, owed>>

\* The connection sends data of its own, and with it rcv_nxt and the window.
Transmit ==
    /\ Announced(pcb) # pcb
    /\ pcb' = Announced(pcb)
    /\ UNCHANGED <<mbox, got, owed>>

-----------------------------------------------------------------------------
(* The reading task *)

\* netconn_recv_data takes a chunk; the mark counts as one byte for
\* tcp_recved, which the tcpip task runs later.
Fetch ==
    /\ mbox # <<>>
    /\ owed = 0
    /\ got' = Append(got, Head(mbox))
    /\ owed' = Max({1, Len(Head(mbox))})
    /\ mbox' = Tail(mbox)
    /\ UNCHANGED pcb

\* lwip_netconn_do_recv in the tcpip task.
DoRecv ==
    /\ owed > 0
    /\ pcb' = Output(tcp_recved(pcb, owed))
    /\ owed' = 0
    /\ UNCHANGED <<mbox, got>>

Next == \/ \E s \in Segments : Arrives(s)
        \/ FastTmr \/ DropOoseq \/ Transmit \/ Fetch \/ DoRecv

\* The segment that comes next can be sent, and would be taken.
Ready ==
    /\ ~pcb.closeWait /\ pcb.refused = <<>> /\ pcb.rcv_wnd > 0
    /\ \E s \in Segments : s.seqno = pcb.rcv_nxt /\ MaySend(s)

\* The peer sends again what is not acknowledged: if the next segment can be
\* taken again and again, one is (strong fairness of its arrival, which is
\* what moves rcv_nxt).  The timer runs, and the task goes on reading.
Fairness ==
    /\ []<>Ready => []<><<pcb'.rcv_nxt # pcb.rcv_nxt>>_vars
    /\ WF_vars(FastTmr) /\ WF_vars(Fetch) /\ WF_vars(DoRecv)

Spec == Init /\ [][Next]_vars /\ Fairness

-----------------------------------------------------------------------------
(* Properties *)

\* Everything on its way to the application, in the order it will see it.
Passed == FlattenSeq(got) \o FlattenSeq(mbox) \o pcb.refused

\* The pcb is well formed: the window never runs below zero (the assertions
\* of tcp_receive on rcv_wnd) and everything queued is part of the stream.
TypeOK ==
    /\ pcb.rcv_nxt \in 0 .. SeqSpace - 1
    /\ pcb.rcv_wnd \in 0 .. WndMax /\ pcb.rcv_ann_wnd \in 0 .. WndMax
    /\ pcb.refusedFin => pcb.refused # <<>>
    /\ Len(mbox) <= MboxSize
    /\ owed \in 0 .. WndMax

\* Whatever the order and the overlap of the segments, the application gets
\* the bytes of the stream, each once and in order, rcv_nxt acknowledges no
\* byte it will not get, and an EOF mark comes behind the last byte.
StreamIntact ==
    /\ Passed = SubSeq(Stream, 1, Len(Passed))
    /\ Offset(pcb.rcv_nxt) = Len(Passed) + (IF pcb.closeWait THEN 1 ELSE 0)
    /\ pcb.closeWait => Passed = Stream
    /\ \A i \in 1 .. Len(got) : got[i] = EOF => i = Len(got) /\ mbox = <<>>
    /\ EOF \in Range(got) \cup Range(mbox) => pcb.closeWait /\ pcb.refused = <<>>

\* The queue is ordered, its segments do not overlap, each holds the bytes
\* that belong to its sequence numbers, and a FIN is at its end only.
QueueInOrder ==
    \A i \in 1 .. Len(pcb.ooseq) :
        LET s == pcb.ooseq[i]
        IN  /\ SeqGT(s.seqno, pcb.rcv_nxt)
            /\ \A k \in 1 .. Len(s.data) : s.data[k] = Offset(s.seqno) + k
            /\ i < Len(pcb.ooseq) => /\ ~s.fin
                                     /\ SeqLEQ(DataEnd(s), pcb.ooseq[i + 1].seqno)
            /\ s.fin => Offset(DataEnd(s)) = StreamLen

\* The window is the buffer less what the application has not reported: no
\* space leaks, and none is given away twice.  The FIN's byte is missing
\* while it waits behind refused data.  The byte that the task reports for the
\* EOF mark is not given back again: the window is whole by then.
WindowAccounted ==
    IF EOF \in Range(got) THEN pcb.rcv_wnd = WndMax
    ELSE pcb.rcv_wnd + Len(FlattenSeq(mbox)) + Len(pcb.refused) + owed
           + (IF pcb.refusedFin THEN 1 ELSE 0) = WndMax

\* What the peer was told it may send stays acceptable: the right edge it
\* knows is inside the real window, so no byte it sends is cut off.
PromiseKept ==
    Offset(pcb.rcv_ann_right_edge) <= Offset(pcb.rcv_nxt) + pcb.rcv_wnd

\* A peer that keeps sending what is not acknowledged gets its whole stream
\* through to the task, however small the mailbox and the window are.
DataDelivered == <>(FlattenSeq(got) = Stream)
=============================================================================
