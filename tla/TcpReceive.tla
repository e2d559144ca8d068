------------------------------ MODULE TcpReceive -----------------------------
(***************************************************************************)
(* The receiving half of a TCP connection: tcp_receive of                  *)
(* src/src/lwip/core/tcp_in.c, with the queue of out-of-sequence segments, *)
(* the window of tcp.c, and what tcp_input does with the result.  The      *)
(* application is http_client.c: its callback takes everything and calls   *)
(* tcp_recved at once.                                                     *)
(*                                                                         *)
(* The peer is any that keeps to the window: it sends a stream of bytes    *)
(* and a FIN, cut into segments as it likes, each time anew, and the       *)
(* network loses, repeats and reorders them.  A byte is its position in    *)
(* the stream, so that the data delivered tells where it came from.        *)
(* Sequence numbers are modulo SeqSpace, as those of the code are modulo   *)
(* 2^32.                                                                   *)
(***************************************************************************)
EXTENDS TcpSeq, Sequences, FiniteSets

CONSTANTS
  StreamLen,   \* how many bytes the peer sends
  Irs,         \* the sequence number of the first byte
  Wnd,         \* TCP_WND
  Mss          \* pcb->mss

ASSUME TcpReceiveAssumption ==
  /\ {StreamLen, Wnd, Mss} \subseteq Nat \ {0}
  /\ SeqSpace \in Nat /\ StreamLen + Wnd + 1 < SeqSpace \div 2
  /\ Irs \in 0 .. SeqSpace - 1

VARIABLES
  pcb,        \* the connection: what tcp_receive reads and writes of tcp_pcb
  received,   \* the bytes given to the application
  eof         \* the application was told that the peer has closed

tcpVars == <<pcb, received, eof>>

-----------------------------------------------------------------------------
After(seg) == Seq32(seg.seqno + seg.len)

\* Mutant: the length is adjusted and the data is not.
BeheadKeeps(seg, off) == [seg EXCEPT !.len = @ - off, !.seqno = Seq32(@ + off)]

\* pbuf_realloc to len, with the length of the segment; pbuf_remove_header.
Cut(seg, len) == [seg EXCEPT !.len = len, !.data = SubSeq(@, 1, len)]
Behead(seg, off) == [seg EXCEPT !.len = @ - off, !.data = SubSeq(@, off + 1, Len(@)),
                                !.seqno = Seq32(@ + off)]

\* tcp_update_rcv_ann_wnd; and how much the right edge would move.
Inflation(s) ==
  IF SeqGEQ(s.rcv_nxt + s.rcv_wnd, s.edge + Lesser(Wnd \div 2, Mss))
  THEN Seq32(s.rcv_nxt + s.rcv_wnd - s.edge) ELSE 0
\* Mutant: a small update announces no window at all.
AnnounceNothing(s) ==
  [s EXCEPT !.rcv_ann_wnd =
     IF SeqGEQ(s.rcv_nxt + s.rcv_wnd, s.edge + Lesser(Wnd \div 2, Mss))
     THEN s.rcv_wnd ELSE 0]
UpdateAnnWnd(s) ==
  [s EXCEPT !.rcv_ann_wnd =
     IF SeqGEQ(s.rcv_nxt + s.rcv_wnd, s.edge + Lesser(Wnd \div 2, Mss))
     THEN s.rcv_wnd
     ELSE IF SeqGT(s.rcv_nxt, s.edge) THEN 0
     ELSE Seq32(s.edge - s.rcv_nxt)]

\* An ACK goes out (tcp_output_control_segment): the window it announces.
SendAck(s) == [s EXCEPT !.edge = Seq32(s.rcv_nxt + s.rcv_ann_wnd), !.ack = "none"]
\* tcp_ack and tcp_ack_now.
TcpAck(s) == [s EXCEPT !.ack = IF @ = "delay" THEN "now" ELSE IF @ = "now" THEN "now"
                               ELSE "delay"]
AckNow(s) == [s EXCEPT !.ack = "now"]

-----------------------------------------------------------------------------
\* tcp_oos_insert_segment: cseg before the segments of rest, without those it
\* covers (the FIN of which it takes), and trimmed to the first that remains.
\* After a FIN nothing is kept.
RECURSIVE Cover(_, _)
Cover(cseg, rest) ==
  IF rest # << >> /\ SeqGEQ(After(cseg), After(Head(rest)))
  THEN Cover([cseg EXCEPT !.fin = @ \/ Head(rest).fin], Tail(rest))
  ELSE IF rest # << >> /\ SeqGT(After(cseg), Head(rest).seqno)
  THEN <<Cut(cseg, Seq32(Head(rest).seqno - cseg.seqno))>> \o rest
  ELSE <<cseg>> \o rest
OosInsert(cseg, rest) == IF cseg.fin THEN <<cseg>> ELSE Cover(cseg, rest)

\* Trim a segment of the queue that reaches beyond seqno.
TrimTo(seg, seqno) ==
  IF SeqGT(After(seg), seqno) THEN Cut(seg, Seq32(seqno - seg.seqno)) ELSE seg

\* A new last segment, cut to the window.
LastToWindow(s, seg) ==
  IF SeqGT(seg.seqno + TcpLen(seg), s.rcv_nxt + s.rcv_wnd)
  THEN [Cut(seg, Seq32(s.rcv_nxt + s.rcv_wnd - seg.seqno)) EXCEPT !.fin = FALSE]
  ELSE seg

\* Where an out-of-sequence segment goes in the queue q.
OosQueue(s, seg) ==
  LET q == s.ooseq
      same == {i \in DOMAIN q : q[i].seqno = seg.seqno}
      k == Cardinality({i \in DOMAIN q : SeqLT(q[i].seqno, seg.seqno)})
      n == Len(q)
  IN IF q = << >> THEN <<seg>>
     ELSE IF same # {}
     THEN IF seg.len > q[k + 1].len /\ k + 1 < n
          THEN SubSeq(q, 1, k) \o OosInsert(seg, SubSeq(q, k + 1, n))
          ELSE q
     ELSE IF k = 0 THEN OosInsert(seg, q)
     ELSE IF k < n
     THEN SubSeq(q, 1, k - 1) \o <<TrimTo(q[k], seg.seqno)>>
            \o OosInsert(seg, SubSeq(q, k + 1, n))
     ELSE IF q[n].fin THEN q
     ELSE SubSeq(q, 1, n - 1) \o <<TrimTo(q[n], seg.seqno), LastToWindow(s, seg)>>

-----------------------------------------------------------------------------
\* An in-sequence segment against the queue: segments it covers go, and their
\* FIN comes to it; it is trimmed to the first that remains.
RECURSIVE Absorb(_, _)
Absorb(seg, q) ==
  IF q # << >> /\ SeqGEQ(seg.seqno + TcpLen(seg), After(Head(q)))
  THEN Absorb([seg EXCEPT !.fin = @ \/ Head(q).fin], Tail(q))
  ELSE IF q # << >> /\ SeqGT(seg.seqno + TcpLen(seg), Head(q).seqno)
  THEN [seg |-> Cut(seg, Seq32(Head(q).seqno - seg.seqno)), ooseq |-> q]
  ELSE [seg |-> seg, ooseq |-> q]

\* Take a segment as the next in sequence.
Advance(s, seg) ==
  UpdateAnnWnd([s EXCEPT !.rcv_nxt = Seq32(@ + TcpLen(seg)),
                         !.rcv_wnd = @ - TcpLen(seg),
                         !.data = @ \o seg.data,
                         !.fin = @ \/ seg.fin])

\* The segments of the queue that are now in sequence.
RECURSIVE Dequeue(_)
Dequeue(s) ==
  IF s.ooseq # << >> /\ Head(s.ooseq).seqno = s.rcv_nxt
  THEN Dequeue([Advance(s, Head(s.ooseq)) EXCEPT !.ooseq = Tail(s.ooseq)])
  ELSE s

InSequence(s, seg) ==
  LET trimmed == IF TcpLen(seg) > s.rcv_wnd
                 THEN [Cut(seg, s.rcv_wnd) EXCEPT !.fin = FALSE] ELSE seg
      a == IF trimmed.fin THEN [seg |-> trimmed, ooseq |-> << >>]
           ELSE Absorb(trimmed, s.ooseq)
  IN TcpAck(Dequeue(Advance([s EXCEPT !.ooseq = a.ooseq], a.seg)))

\* The part of tcp_receive for a segment with data or FIN; copied says whether
\* tcp_seg_copy found memory, which it only needs for the queue.
TcpReceive(s, seg, copied) ==
  LET old == SeqLT(seg.seqno, s.rcv_nxt)
      front == SeqBetween(s.rcv_nxt, seg.seqno + 1, seg.seqno + TcpLen(seg) - 1)
      in == IF front THEN Behead(seg, Seq32(s.rcv_nxt - seg.seqno)) ELSE seg
      t == IF old /\ ~front THEN AckNow(s) ELSE s
  IN IF ~SeqBetween(in.seqno, s.rcv_nxt, s.rcv_nxt + s.rcv_wnd - 1) THEN SendAck(t)
     ELSE IF in.seqno = s.rcv_nxt THEN InSequence(s, in)
     ELSE SendAck(IF copied THEN [s EXCEPT !.ooseq = OosQueue(s, in)] ELSE s)

\* tcp_process in ESTABLISHED and CLOSE_WAIT: in the latter the text of a
\* segment is ignored.
Process(s, seg, copied) ==
  IF s.state = "ESTABLISHED"
  THEN LET t == TcpReceive(s, seg, copied)
       IN IF t.fin THEN [AckNow(t) EXCEPT !.state = "CLOSE_WAIT"] ELSE t
  ELSE IF SeqBetween(seg.seqno, s.rcv_nxt, s.rcv_nxt + s.rcv_wnd - 1) THEN s
  ELSE AckNow(s)


\* The callback of the application, which calls tcp_recved for all it got.
Recved(s) ==
  LET t == [s EXCEPT !.rcv_wnd = Lesser(@ + Len(s.data), Wnd)]
      u == UpdateAnnWnd(t)
  IN IF s.data = << >> THEN s
     ELSE IF Inflation(t) >= Lesser(Wnd \div 4, Mss * 4) THEN AckNow(u) ELSE u

\* The window gets back what the FIN took of it.
GotFin(s) == IF s.fin /\ s.rcv_wnd # Wnd THEN [s EXCEPT !.rcv_wnd = @ + 1] ELSE s

OutputAck(s) == IF s.ack = "now" THEN SendAck(s) ELSE s

\* tcp_input for bytes from .. to - 1 of the stream, and perhaps the FIN.
TcpInput(from, to, fin, copied) ==
  LET seg == [seqno |-> Seq32(Irs + from), len |-> to - from, fin |-> fin,
              data |-> [i \in 1 .. to - from |-> from + i - 1]]
      s == Process(pcb, seg, copied)
  IN /\ received' = received \o s.data
     /\ eof' = (eof \/ s.fin)
     /\ pcb' = [OutputAck(GotFin(Recved(s))) EXCEPT !.data = << >>, !.fin = FALSE]

-----------------------------------------------------------------------------
\* tcp_fasttmr: the delayed ACK.
TcpFastTmr ==
  /\ pcb.ack = "delay"
  /\ pcb' = SendAck(pcb)
  /\ UNCHANGED <<received, eof>>

\* tcp_free_ooseq: from tcp_slowtmr when the queue is too old, and from
\* sys_check_timeouts after a frame found the pool of pbufs empty.
TcpFreeOoseq ==
  /\ pcb.ooseq # << >>
  /\ pcb' = [pcb EXCEPT !.ooseq = << >>]
  /\ UNCHANGED <<received, eof>>

\* What the peer may send: within the window it was told.
MaySend(from, to, fin) ==
  /\ fin => to = StreamLen
  /\ to > from \/ fin
  /\ ~SeqGT(Irs + to + (IF fin THEN 1 ELSE 0), pcb.edge)

SegmentArrives(from, to, fin) ==
  /\ MaySend(from, to, fin)
  /\ \E copied \in BOOLEAN : TcpInput(from, to, fin, copied)

\* The position in the stream of what the receiver waits for.
Expected == Seq32(pcb.rcv_nxt - Irs)
ArriveExpected ==
  /\ pcb.state = "ESTABLISHED"
  /\ \E to \in Expected .. StreamLen, fin \in BOOLEAN : SegmentArrives(Expected, to, fin)

\* Established by tcp_process in SYN_SENT, and the ACK for the SYN sent.
TcpReceiveInit ==
  /\ pcb = [state |-> "ESTABLISHED", rcv_nxt |-> Irs, rcv_wnd |-> Wnd,
            rcv_ann_wnd |-> Wnd, edge |-> Seq32(Irs + Wnd), ack |-> "none",
            ooseq |-> << >>, data |-> << >>, fin |-> FALSE]
  /\ received = << >>
  /\ eof = FALSE

ArriveAny ==
  \E from \in 0 .. StreamLen, to \in 0 .. StreamLen, fin \in BOOLEAN :
    from <= to /\ SegmentArrives(from, to, fin)

TcpReceiveNext == ArriveAny \/ TcpFastTmr \/ TcpFreeOoseq

\* The peer retransmits what was not acknowledged while the window lets it, and
\* the network delivers some of what is sent: weak fairness of ArriveExpected,
\* with ENABLED written out.  The timer runs.
ExpectedMaySend ==
  /\ pcb.state = "ESTABLISHED"
  /\ MaySend(Expected, Lesser(Expected + 1, StreamLen), Expected = StreamLen)
TcpReceiveFairness ==
  /\ <>[]ExpectedMaySend => []<><<ArriveExpected>>_tcpVars
  /\ WF_tcpVars(TcpFastTmr)

TcpReceiveSpec ==
  TcpReceiveInit /\ [][TcpReceiveNext]_tcpVars /\ TcpReceiveFairness

-----------------------------------------------------------------------------
TcpReceiveTypeOK ==
  /\ pcb.state \in {"ESTABLISHED", "CLOSE_WAIT"}
  /\ pcb.rcv_nxt \in 0 .. SeqSpace - 1 /\ pcb.edge \in 0 .. SeqSpace - 1
  /\ pcb.rcv_wnd \in 0 .. Wnd /\ pcb.rcv_ann_wnd \in 0 .. Wnd
  /\ pcb.ack \in {"none", "delay", "now"}
  /\ eof \in BOOLEAN

\* The application gets the stream: each byte once and in order, whatever was
\* lost, repeated, reordered or cut anew; rcv_nxt counts exactly what it got;
\* and it is told of the end only after the last byte.
StreamInOrder ==
  /\ received = [i \in 1 .. Len(received) |-> i - 1]
  /\ Expected = Len(received) + (IF eof THEN 1 ELSE 0)
  /\ eof => Len(received) = StreamLen

\* The out-of-sequence queue is what the code that empties it relies on: in
\* order, without overlaps, beyond rcv_nxt and within the window (or its
\* assertions would stop the system), a FIN only in the last segment, each
\* segment's length that of its data and its data the bytes of its place.
OoseqSound ==
  LET q == pcb.ooseq IN
    \A i \in DOMAIN q :
      /\ q[i].len = Len(q[i].data)
      /\ \A j \in DOMAIN q[i].data : q[i].data[j] = Seq32(q[i].seqno - Irs) + j - 1
      /\ SeqGT(q[i].seqno, pcb.rcv_nxt)
      /\ ~SeqGT(q[i].seqno + TcpLen(q[i]), pcb.rcv_nxt + pcb.rcv_wnd)
      /\ i < Len(q) => ~SeqGT(After(q[i]), q[i + 1].seqno) /\ ~q[i].fin

\* The receiving half of a connection: the stream it hands up is in order and
\* what it holds back for later is sound (tcp_receive, tcp_oos_insert_segment).
ReceiveSound == TcpReceiveTypeOK /\ StreamInOrder /\ OoseqSound

\* The window never shrinks: the right edge that tcp_output_control_segment
\* tells the peer does not move back, whatever tcp_update_rcv_ann_wnd holds
\* back of a small opening.
EdgeAdvances == [][~SeqLT(pcb'.edge, pcb.edge)]_tcpVars

\* A peer that keeps sending what is not acknowledged gets all of it through,
\* to the end of the stream.
StreamArrives == <>(eof /\ Len(received) = StreamLen)

=============================================================================
