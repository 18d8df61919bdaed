------------------------------- MODULE TcpOut -------------------------------
(***************************************************************************)
(* The send side of lwIP's TCP (components/lwip/core/tcp_out.c, and the    *)
(* acknowledgement part of tcp_receive) as operators on a pcb.             *)
(*                                                                         *)
(* A pcb is RcvPcb of TcpIn with the fields of SndPcb.  unsent and unacked *)
(* hold segments [seqno, data, fin, syn]; what goes on the wire also has   *)
(* rst, ack, ackno and wnd.  Every byte is a full segment (Mss bytes), so  *)
(* neither Nagle's test nor the congestion window holds one back: the      *)
(* window of the peer alone does.                                          *)
(***************************************************************************)
EXTENDS TcpIn

\* A pcb that sends from sequence number iss on.
SndPcb(iss) ==
    [snd_nxt |-> iss, lastack |-> iss, snd_lbb |-> iss, snd_wnd |-> WndMax,
     snd_wl1 |-> 0, snd_wl2 |-> iss, unsent |-> <<>>, unacked |-> <<>>,
     nrtx |-> 0]

\* TCP_TCPLEN: SYN and FIN have a sequence number.
SegLen(s) == TcpLen(s) + (IF s.syn THEN 1 ELSE 0)
SegEnd(s) == Plus(s.seqno, SegLen(s))

\* tcp_write and tcp_enqueue_flags: a segment at the end of unsent.
Enqueue(p, data, fin, syn) ==
    LET s == [seqno |-> p.snd_lbb, data |-> data, fin |-> fin, syn |-> syn]
    IN  [p EXCEPT !.unsent = Append(@, s), !.snd_lbb = SegEnd(s)]

\* The FIN goes on the last unsent segment, or makes one of its own.
tcp_send_fin(p) ==
    LET n == Len(p.unsent)
    IN  IF n > 0 /\ ~p.unsent[n].syn /\ ~p.unsent[n].fin
        THEN [p EXCEPT !.unsent[n].fin = TRUE]
        ELSE Enqueue(p, <<>>, TRUE, FALSE)

\* A segment as it leaves, with the receive side's news on it.
Wire(p, s) ==
    [seqno |-> s.seqno, data |-> s.data, fin |-> s.fin, syn |-> s.syn,
     rst |-> FALSE, ack |-> p.state # "SYN_SENT", ackno |-> p.rcv_nxt,
     wnd |-> p.rcv_ann_wnd]

EmptyAck(p) ==
    [seqno |-> p.snd_nxt, data |-> <<>>, fin |-> FALSE, syn |-> FALSE,
     rst |-> FALSE, ack |-> TRUE, ackno |-> p.rcv_nxt, wnd |-> p.rcv_ann_wnd]

tcp_rst(seqno, ackno) ==
    [seqno |-> seqno, data |-> <<>>, fin |-> FALSE, syn |-> FALSE,
     rst |-> TRUE, ack |-> TRUE, ackno |-> ackno, wnd |-> WndMax]

\* Does the window of the peer let s go?  The FIN of s is not counted.
Fits(p, s) == Minus(s.seqno, p.lastack) + Len(s.data) <= p.snd_wnd

\* A list of segments with s at its place.
InsertSorted(q, s) ==
    SelectSeq(q, LAMBDA t : SeqLT(t.seqno, s.seqno)) \o <<s>>
      \o SelectSeq(q, LAMBDA t : SeqGEQ(t.seqno, s.seqno))

\* One turn of the loop of tcp_output.
SendHead(r) ==
    LET s == Head(r.p.unsent)
        end == IF SeqLT(r.p.snd_nxt, SegEnd(s)) THEN SegEnd(s) ELSE r.p.snd_nxt
    IN  IF r.p.unsent = <<>> \/ ~Fits(r.p, s) THEN r
        ELSE [p |-> [Announced(r.p) EXCEPT !.unsent = Tail(@), !.snd_nxt = end,
                                           !.unacked = InsertSorted(@, s)],
              out |-> Append(r.out, Wire(r.p, s))]

\* What can be sent is sent, and carries the acknowledgement; if nothing can
\* and one is due, it goes alone.
tcp_output(p) ==
    IF p.ackNow /\ (p.unsent = <<>> \/ ~Fits(p, Head(p.unsent)))
    THEN [p |-> Announced(p), out |-> <<EmptyAck(p)>>]
    ELSE FoldLeft(LAMBDA r, s : SendHead(r), [p |-> p, out |-> <<>>], p.unsent)

\* Wrong: it is queued, and waits for the next call of tcp_output.
tcp_rexmit_rto_Queued(p) ==
    [p |-> [p EXCEPT !.unsent = p.unacked \o @, !.unacked = <<>>], out |-> <<>>]

\* Everything outstanding is sent once more.
tcp_rexmit_rto(p) ==
    tcp_output([p EXCEPT !.unsent = p.unacked \o @, !.unacked = <<>>,
                         !.nrtx = @ + 1])

\* The first outstanding segment goes back to unsent.
tcp_rexmit(p) ==
    IF p.unacked = <<>> THEN p
    ELSE [p EXCEPT !.unsent = InsertSorted(@, Head(p.unacked)),
                   !.unacked = Tail(@), !.nrtx = @ + 1]

\* One byte, or a FIN that is alone, into a closed window.
tcp_zero_window_probe(p) ==
    LET s == Head(p.unacked \o p.unsent)
        alone == s.fin /\ s.data = <<>>
    IN  [p |-> [p EXCEPT !.rcv_ann_right_edge = Plus(p.rcv_nxt, p.rcv_ann_wnd)],
         out |-> <<[EmptyAck(p) EXCEPT !.seqno = s.seqno, !.fin = alone,
                                       !.data = IF alone THEN <<>>
                                                ELSE SubSeq(s.data, 1, 1)]>>]

-----------------------------------------------------------------------------
(* Acknowledgements that arrive *)

\* The window of the peer, from a segment that is newer than the last one
\* used, or that offers more for the same acknowledgement.
UpdateWindow(p, g) ==
    IF \/ SeqLT(p.snd_wl1, g.seqno)
       \/ p.snd_wl1 = g.seqno /\ SeqLT(p.snd_wl2, g.ackno)
       \/ p.snd_wl2 = g.ackno /\ g.wnd > p.snd_wnd
    THEN [p EXCEPT !.snd_wnd = g.wnd, !.snd_wl1 = g.seqno, !.snd_wl2 = g.ackno]
    ELSE p

\* q without the leading segments that end at ackno or before.
Unacknowledged(q, ackno) ==
    LET k == Max({i \in 0 .. Len(q) :
                    \A j \in 1 .. i : SeqLEQ(SegEnd(q[j]), ackno)})
    IN  SubSeq(q, k + 1, Len(q))

\* Wrong: an acknowledgement that was had before is taken for a new one.
AcceptAckAgain(p, g) == [p EXCEPT !.nrtx = 0, !.lastack = g.ackno, !.unacked = <<>>]

\* The acknowledgement of g: new data between lastack and snd_nxt is taken
\* off unacked; one beyond snd_nxt is answered; unsent may hold segments that
\* were sent before.
AcceptAck(p, g) ==
    LET new == SeqBetween(g.ackno, Plus(p.lastack, 1), p.snd_nxt)
        acked == IF new THEN [p EXCEPT !.nrtx = 0, !.lastack = g.ackno,
                                       !.unacked = Unacknowledged(@, g.ackno)]
                 ELSE p
    IN  IF SeqLEQ(g.ackno, p.snd_nxt)
        THEN [acked EXCEPT !.unsent = Unacknowledged(@, g.ackno)] ELSE acked

\* An acknowledgement of what was never sent is answered at once.
AckOfNothing(p, g) ==
    SeqGT(g.ackno, p.lastack) /\ SeqGT(g.ackno, p.snd_nxt)
=============================================================================
