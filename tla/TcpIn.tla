------------------------------- MODULE TcpIn -------------------------------
(***************************************************************************)
(* The receive side of lwIP's TCP (components/lwip/core/tcp_in.c and the   *)
(* window accounting of tcp.c) as operators on a pcb: what tcp_receive     *)
(* does with the payload of a segment, the out-of-sequence queue, the      *)
(* receive window and its announcement, and what tcp_input then hands to   *)
(* the application.                                                        *)
(*                                                                         *)
(* A pcb is a record with at least the fields of RcvPcb.  A segment is     *)
(* [seqno, data, fin]: data is a sequence, so trimming a segment (pbuf_    *)
(* header, pbuf_realloc) really moves bytes.  Sequence numbers live in the *)
(* ring 0 .. SeqSpace - 1 (2^32 in the code), so they wrap.                  *)
(***************************************************************************)
EXTENDS Integers, FiniteSetsExt, SequencesExt

CONSTANTS SeqSpace,     \* size of the sequence number space
          WndMax,     \* TCP_WND: the receive buffer
          Mss         \* the segment size of the connection

\* The comparisons of sequence numbers work within half the ring.
ASSUME TcpAssumption ==
    /\ SeqSpace \in Nat /\ WndMax \in Nat \ {0} /\ Mss \in Nat \ {0}
    /\ SeqSpace % 2 = 0 /\ 2 * WndMax < SeqSpace

Plus(a, n) == (a + n) % SeqSpace
Minus(a, b) == (a - b) % SeqSpace

\* TCP_SEQ_LT and its relatives: the sign of the difference as an s32_t.
SeqLT(a, b) == 2 * Minus(a, b) >= SeqSpace
SeqGEQ(a, b) == ~SeqLT(a, b)
SeqGT(a, b) == a # b /\ SeqGEQ(a, b)
SeqLEQ(a, b) == ~SeqGT(a, b)
SeqBetween(a, b, c) == SeqGEQ(a, b) /\ SeqLEQ(a, c)

TcpLen(s) == Len(s.data) + (IF s.fin THEN 1 ELSE 0)

\* The first sequence number after the data of s, its FIN not counted.
DataEnd(s) == Plus(s.seqno, Len(s.data))

\* What a connection has received up to the SYN of its peer.
RcvPcb(irs) ==
    [rcv_nxt |-> irs, rcv_wnd |-> WndMax, rcv_ann_wnd |-> WndMax,
     rcv_ann_right_edge |-> irs, ooseq |-> <<>>, refused |-> <<>>,
     refusedFin |-> FALSE, delayAck |-> FALSE, ackNow |-> FALSE]

-----------------------------------------------------------------------------
(* Acknowledgements and the announced window *)

\* Wrong: the window is announced as it was before rcv_nxt moved.
tcp_update_rcv_ann_wnd_Stale(p) ==
    IF SeqGEQ(Plus(p.rcv_nxt, p.rcv_wnd),
              Plus(p.rcv_ann_right_edge, Min({WndMax \div 2, Mss})))
    THEN [p EXCEPT !.rcv_ann_wnd = p.rcv_wnd] ELSE p

\* The space that may be announced: the right edge moves only when it can
\* move by a worthwhile amount, and never to the left.
tcp_update_rcv_ann_wnd(p) ==
    LET edge == Plus(p.rcv_nxt, p.rcv_wnd)
        least == Plus(p.rcv_ann_right_edge, Min({WndMax \div 2, Mss}))
    IN  [p EXCEPT !.rcv_ann_wnd =
            IF SeqGEQ(edge, least) THEN p.rcv_wnd
            ELSE IF SeqGT(p.rcv_nxt, p.rcv_ann_right_edge) THEN 0
            ELSE Minus(p.rcv_ann_right_edge, p.rcv_nxt)]

\* How much an update sent now would add to what the peer knows.
Inflation(p) ==
    LET edge == Plus(p.rcv_nxt, p.rcv_wnd)
        least == Plus(p.rcv_ann_right_edge, Min({WndMax \div 2, Mss}))
    IN  IF SeqGEQ(edge, least) THEN Minus(edge, p.rcv_ann_right_edge) ELSE 0

\* Every segment that leaves carries rcv_nxt and the announced window.
Announced(p) ==
    [p EXCEPT !.rcv_ann_right_edge = Plus(p.rcv_nxt, p.rcv_ann_wnd),
              !.delayAck = FALSE, !.ackNow = FALSE]

\* tcp_ack: the second acknowledgement owed is sent at once.
tcp_ack(p) == IF p.delayAck THEN [p EXCEPT !.delayAck = FALSE, !.ackNow = TRUE]
              ELSE [p EXCEPT !.delayAck = TRUE]

tcp_ack_now(p) == [p EXCEPT !.ackNow = TRUE]

\* Wrong: the window stays closed.
tcp_recved_NoWindow(p, n) == tcp_ack_now(p)

\* The application has processed n bytes.
tcp_recved(p, n) ==
    LET more == tcp_update_rcv_ann_wnd(
                   [p EXCEPT !.rcv_wnd = Min({p.rcv_wnd + n, WndMax})])
    IN  IF Inflation([p EXCEPT !.rcv_wnd = more.rcv_wnd])
              >= Min({WndMax \div 4, 4 * Mss})
        THEN tcp_ack_now(more) ELSE more

-----------------------------------------------------------------------------
(* The out-of-sequence queue *)

\* The number of segments at the head of q whose data ends by end.
Covered(q, end) ==
    Max({k \in 0 .. Len(q) : \A i \in 1 .. k : SeqGEQ(end, DataEnd(q[i]))})

\* s without the data from sequence number end on.
CutAt(s, end) == [s EXCEPT !.data = SubSeq(@, 1, Minus(end, s.seqno))]

\* s followed by what it leaves of the segments behind it: the segments it
\* covers go (and leave it their FIN), and s is cut where the next one starts.
tcp_oos_insert_segment(s, next) ==
    LET k == Covered(next, DataEnd(s))
        rest == SubSeq(next, k + 1, Len(next))
        whole == [s EXCEPT !.fin = \E i \in 1 .. k : next[i].fin]
    IN  IF s.fin THEN <<s>>
        ELSE IF rest # <<>> /\ SeqGT(DataEnd(s), Head(rest).seqno)
        THEN <<CutAt(whole, Head(rest).seqno)>> \o rest
        ELSE <<whole>> \o rest

\* Wrong: the segment in front keeps the bytes it shares.
TrimLastNot(q, end) == q

\* q with its last segment cut where sequence number end starts.
TrimLast(q, end) ==
    IF q # <<>> /\ SeqGT(DataEnd(Last(q)), end)
    THEN Front(q) \o <<CutAt(Last(q), end)>> ELSE q

\* The part of a segment that fits into the window; the FIN is beyond it.
TrimToWindow(p, s) ==
    LET edge == Plus(p.rcv_nxt, p.rcv_wnd)
    IN  IF SeqGT(Plus(s.seqno, TcpLen(s)), edge)
        THEN [CutAt(s, edge) EXCEPT !.fin = FALSE] ELSE s

\* Where the segment s, out of sequence, goes in the queue q of p: the first
\* segment of an empty queue is stored as it is, one that goes last is cut to
\* the window, one that starts where another one does replaces it if longer.
Queued(p, q, s) ==
    LET k == Cardinality({i \in 1 .. Len(q) : SeqLT(q[i].seqno, s.seqno)})
        before == SubSeq(q, 1, k)
        after == SubSeq(q, k + 1, Len(q))
    IN  IF q = <<>> THEN <<s>>
        ELSE IF after = <<>>
        THEN IF Last(q).fin THEN q
             ELSE TrimLast(before, s.seqno) \o <<TrimToWindow(p, s)>>
        ELSE IF Head(after).seqno = s.seqno
                /\ Len(s.data) <= Len(Head(after).data) THEN q
        ELSE TrimLast(before, s.seqno) \o tcp_oos_insert_segment(s, after)

-----------------------------------------------------------------------------
(* Data that is in sequence *)

\* rcv_nxt moves over s, and the window shrinks by as much.
Advance(r, s) ==
    [r EXCEPT !.p = tcp_update_rcv_ann_wnd(
                       [r.p EXCEPT !.rcv_nxt = Plus(@, TcpLen(s)),
                                   !.rcv_wnd = @ - TcpLen(s)]),
              !.data = @ \o s.data, !.fin = @ \/ s.fin]

\* Wrong: data from the queue does not use up the window.
TakeHeadFree(r) ==
    IF r.p.ooseq # <<>> /\ Head(r.p.ooseq).seqno = r.p.rcv_nxt
    THEN LET s == Head(r.p.ooseq)
         IN  [r EXCEPT !.p.ooseq = Tail(@),
                       !.p.rcv_nxt = Plus(@, TcpLen(s)),
                       !.data = @ \o s.data, !.fin = @ \/ s.fin]
    ELSE r

\* One turn of the loop that empties the queue: its head, if it is next.
TakeHead(r) ==
    IF r.p.ooseq # <<>> /\ Head(r.p.ooseq).seqno = r.p.rcv_nxt
    THEN Advance([r EXCEPT !.p.ooseq = Tail(@)], Head(r.p.ooseq)) ELSE r

\* The loop: no more turns than there are segments.
EmptyQueue(first) ==
    LET turn[i \in 0 .. Len(first.p.ooseq)] ==
            IF i = 0 THEN first ELSE TakeHead(turn[i - 1])
    IN  turn[Len(first.p.ooseq)]

\* The queue p.ooseq against the segment s in front of it: segments that s
\* covers go, s is cut where the next one starts.
InSequence(p, s) ==
    LET in == TrimToWindow(p, s)
        k == Covered(p.ooseq, Plus(in.seqno, TcpLen(in)))
        rest == SubSeq(p.ooseq, k + 1, Len(p.ooseq))
        whole == [in EXCEPT !.fin = \E i \in 1 .. k : p.ooseq[i].fin]
        cut == IF rest # <<>> /\ SeqGT(Plus(in.seqno, TcpLen(whole)),
                                       Head(rest).seqno)
               THEN CutAt(whole, Head(rest).seqno) ELSE whole
        first == IF in.fin
                 THEN Advance([p |-> [p EXCEPT !.ooseq = <<>>],
                               data |-> <<>>, fin |-> FALSE, sent |-> FALSE], in)
                 ELSE Advance([p |-> [p EXCEPT !.ooseq = rest],
                               data |-> <<>>, fin |-> FALSE, sent |-> FALSE], cut)
        all == EmptyQueue(first)
    IN  [all EXCEPT !.p = tcp_ack(@)]

\* Wrong: the sequence number moves and the bytes stay.
TrimFrontHeader(p, s) ==
    IF SeqLT(s.seqno, p.rcv_nxt) /\ SeqLT(p.rcv_nxt, Plus(s.seqno, TcpLen(s)))
    THEN [s EXCEPT !.seqno = p.rcv_nxt] ELSE s

\* A segment that starts before rcv_nxt loses the bytes already received.
TrimFront(p, s) ==
    IF SeqBetween(p.rcv_nxt, Plus(s.seqno, 1), Plus(s.seqno, TcpLen(s) - 1))
    THEN [s EXCEPT !.seqno = p.rcv_nxt,
                   !.data = SubSeq(@, Minus(p.rcv_nxt, s.seqno) + 1, Len(@))]
    ELSE s

\* Wrong: what was received before is received again.
ReceiveOld(p, seg) == InSequence(p, [seg EXCEPT !.seqno = p.rcv_nxt])

\* tcp_receive, for the payload and the FIN of a segment: the new pcb, and
\* what goes to the application (recv_data and TF_GOT_FIN); sent: an empty
\* acknowledgement was sent at once.
Receive(p, seg) ==
    LET s == TrimFront(p, seg)
        none(q) == [p |-> q, data |-> <<>>, fin |-> FALSE, sent |-> TRUE]
    IN  IF ~SeqBetween(s.seqno, p.rcv_nxt, Plus(p.rcv_nxt, p.rcv_wnd - 1))
        THEN none(Announced(p))
        ELSE IF s.seqno = p.rcv_nxt THEN InSequence(p, s)
        ELSE none([Announced(p) EXCEPT !.ooseq = Queued(p, p.ooseq, s)])

\* A segment with neither data nor FIN is acknowledged if it is outside.
ReceiveEmpty(p, seqno) ==
    IF SeqBetween(seqno, p.rcv_nxt, Plus(p.rcv_nxt, p.rcv_wnd - 1)) THEN p
    ELSE tcp_ack_now(p)

\* The FIN takes no room: its byte of the window is given back.
FinEvent(p) == [p EXCEPT !.rcv_wnd = Min({@ + 1, WndMax})]
=============================================================================
