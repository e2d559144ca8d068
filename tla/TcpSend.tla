------------------------------- MODULE TcpSend -------------------------------
(***************************************************************************)
(* The sending half of a TCP connection: tcp_output, the retransmission    *)
(* and the zero-window probes of src/src/lwip/core/tcp_out.c, the timer of *)
(* tcp.c that drives them, and the half of tcp_receive (tcp_in.c) that     *)
(* takes acknowledgements.  The application is http_client.c: it writes    *)
(* one request when it is connected, and closes.                           *)
(*                                                                         *)
(* The peer only acknowledges.  It keeps to the protocol: it never takes   *)
(* back window that it has announced, but it may announce none and then    *)
(* acknowledge the byte of a probe all the same.  The network reorders     *)
(* segments and acknowledgements; it loses and repeats them, and the       *)
(* interface refuses them, at most MaxSendFaults times.                    *)
(***************************************************************************)
EXTENDS TcpSeq, Sequences, SequencesExt, FiniteSets

CONSTANTS
  ReqLen,      \* how many bytes the application writes
  Iss,         \* the sequence number of the first of them
  SndMss,      \* pcb->mss
  SndBuf,      \* TCP_SND_BUF
  FirstWnds,   \* the windows the peer may announce with its SYN
  PeerWnds,    \* the windows it may announce later
  MaxRtx,      \* TCP_MAXRTX
  MaxCwnd,     \* where cwnd saturates (0xFFFF)
  MaxAcks,     \* bound: acknowledgements on their way at a time
  MaxSendFaults  \* bound: faults of the network and the interface

ASSUME TcpSendAssumption ==
  /\ {ReqLen, SndMss, SndBuf, MaxRtx, MaxCwnd} \subseteq Nat \ {0}
  /\ ReqLen <= SndBuf /\ {MaxAcks, MaxSendFaults} \subseteq Nat
  /\ FirstWnds \subseteq Nat /\ PeerWnds \subseteq Nat
  /\ SeqSpace \in Nat /\ Iss \in 0 .. SeqSpace - 1
  /\ \A w \in FirstWnds \cup PeerWnds : ReqLen + 1 + w < SeqSpace \div 2

VARIABLES
  snd,      \* the connection: what the code below reads and writes of tcp_pcb
  peer,     \* the peer: what it expects next, the edge of its window, its FIN
  segments, \* the segments on their way to the peer
  acks,     \* the acknowledgements on their way back
  sendFaults  \* how many faults there have been

sendVars == <<snd, peer, segments, acks, sendFaults>>

-----------------------------------------------------------------------------
SndLbb == Seq32(Iss + ReqLen)
LastOf(seg) == Seq32(seg.seqno + TcpLen(seg))
Queued(s) == s.unacked \o s.unsent
Bytes(q) == FoldLeft(LAMBDA n, seg : n + seg.len, 0, q)
Saturate(n) == Lesser(n, MaxCwnd)

\* A segment is put where its sequence number belongs.
Insert(q, seg) == LET before == SelectSeq(q, LAMBDA x : SeqLT(x.seqno, seg.seqno))
                  IN  before \o <<seg>> \o SubSeq(q, Len(before) + 1, Len(q))

\* Does the head of unsent fit in wnd?  The difference is unsigned, and right
\* even where the head has been acknowledged in part.
Fits(s, wnd) == Seq32(Head(s.unsent).seqno - s.lastack + Head(s.unsent).len) <= wnd

\* tcp_do_output_nagle, and the flags that override it.
Nagle(s) ==
  \/ s.unacked = <<>> \/ s.infr
  \/ Len(s.unsent) > 1 \/ Head(s.unsent).len >= SndMss
  \/ Bytes(Queued(s)) = SndBuf
  \/ s.memerr \/ s.fin

\* The loop of tcp_output: seg after seg leaves, the interface takes n of them.
\* sent is what the network gets.
RECURSIVE SendLoop(_, _, _)
SendLoop(s, wnd, n) ==
  IF s.unsent = <<>> \/ ~Fits(s, wnd) \/ ~Nagle(s) THEN [s EXCEPT !.memerr = FALSE]
  ELSE IF n = 0 THEN [s EXCEPT !.memerr = TRUE, !.rtime = TRUE]
  ELSE LET seg == Head(s.unsent)
       IN  SendLoop([s EXCEPT !.unsent = Tail(@), !.sent = @ \cup {seg}, !.rtime = TRUE,
                              !.snd_nxt = IF SeqLT(@, LastOf(seg)) THEN LastOf(seg) ELSE @,
                              !.unacked = IF TcpLen(seg) > 0 THEN Insert(@, seg) ELSE @],
                    wnd, n - 1)

\* tcp_output: the persist timer starts when the head does not fit and nothing
\* is in flight, and stops when the head fits.
TcpOutput(s, n) ==
  LET wnd == Lesser(s.snd_wnd, s.cwnd)
  IN  IF s.unsent = <<>> THEN [s EXCEPT !.memerr = FALSE]
      ELSE IF Fits(s, wnd) THEN SendLoop([s EXCEPT !.persist = FALSE], wnd, n)
      ELSE IF wnd = s.snd_wnd /\ s.unacked = <<>> /\ ~s.persist
           THEN [s EXCEPT !.persist = TRUE, !.probe = 0, !.memerr = FALSE]
           ELSE [s EXCEPT !.memerr = FALSE]

-----------------------------------------------------------------------------
\* tcp_write, on an empty queue: segments of mss_local bytes.
MssLocal(wndmax) == IF Lesser(SndMss, wndmax \div 2) = 0 THEN SndMss
                    ELSE Lesser(SndMss, wndmax \div 2)
RECURSIVE Segments(_, _)
Segments(pos, mss) ==
  IF pos = ReqLen THEN <<>>
  ELSE LET len == Lesser(ReqLen - pos, mss)
       IN  <<[seqno |-> Seq32(Iss + pos), len |-> len, fin |-> FALSE]>>
           \o Segments(pos + len, mss)
TcpWrite(s) == [s EXCEPT !.state = "ESTABLISHED", !.unsent = Segments(0, MssLocal(s.snd_wnd))]

\* tcp_send_fin: on the last unsent segment, or on one of its own.
SendFin(s) ==
  [s EXCEPT !.fin = TRUE, !.state = "FIN_WAIT_1",
            !.unsent = IF @ # <<>> THEN [@ EXCEPT ![Len(@)].fin = TRUE]
                       ELSE <<[seqno |-> SndLbb, len |-> 0, fin |-> TRUE]>>]

\* tcp_split_unsent_seg: the remainder takes the FIN, and TCPH_SET_FLAG, which
\* only sets flags, leaves it on the head as well.
SplitUnsent(s, split) ==
  LET useg == Head(s.unsent)
      rest == [useg EXCEPT !.seqno = Seq32(@ + split), !.len = @ - split]
  IN  IF useg.len <= split THEN s
      ELSE [s EXCEPT !.unsent = <<[useg EXCEPT !.len = split], rest>> \o Tail(@)]

\* tcp_zero_window_probe: one byte, or the FIN, of the head of unsent.
ZeroWindowProbe(s) ==
  LET seg == Head(s.unsent)
      isFin == seg.fin /\ seg.len = 0
  IN  [s EXCEPT !.probe = @ + 1,
                !.snd_nxt = IF SeqLT(@, Seq32(seg.seqno + 1)) THEN Seq32(seg.seqno + 1) ELSE @,
                !.sent = @ \cup {[seqno |-> seg.seqno, len |-> IF isFin THEN 0 ELSE 1,
                                  fin |-> isFin]}]

-----------------------------------------------------------------------------
\* tcp_rexmit_rto_prepare: everything in flight goes back to unsent.
RtoPrepare(s) ==
  [s EXCEPT !.unsent = s.unacked \o @, !.unacked = <<>>, !.rto = TRUE,
            !.rto_end = LastOf(Last(s.unacked))]
HalfWindow(s) == LET half == Lesser(s.cwnd, s.snd_wnd) \div 2
                 IN  IF half < 2 * SndMss THEN 2 * SndMss ELSE half
\* Mutant: the retransmission is not counted.
RetransmitUncounted(s) ==
  LET p == IF s.unacked # <<>> THEN RtoPrepare(s) ELSE s
  IN  [p EXCEPT !.rtime = TRUE, !.ssthresh = HalfWindow(s), !.cwnd = SndMss,
                !.bytes_acked = 0]

\* The retransmission of tcp_slowtmr, and tcp_rexmit_rto_commit.
Retransmit(s) ==
  LET p == IF s.unacked # <<>> THEN RtoPrepare(s) ELSE s
  IN  [p EXCEPT !.rtime = TRUE, !.ssthresh = HalfWindow(s), !.cwnd = SndMss,
                !.bytes_acked = 0, !.nrtx = @ + 1]

\* tcp_rexmit_fast with tcp_rexmit: the first segment in flight goes back.
RexmitFast(s) ==
  IF s.unacked = <<>> \/ s.infr THEN s
  ELSE [s EXCEPT !.unsent = Insert(@, Head(s.unacked)), !.unacked = Tail(@),
                 !.nrtx = @ + 1, !.ssthresh = HalfWindow(s),
                 !.cwnd = Saturate(HalfWindow(s) + 3 * SndMss), !.infr = TRUE, !.rtime = TRUE]

-----------------------------------------------------------------------------
\* The window update of tcp_receive: from a newer segment, or a wider one.
UpdateWnd(s, a) ==
  IF \/ s.fresh
     \/ SeqLT(s.wl2, a.ackno)
     \/ s.wl2 = a.ackno /\ a.wnd > s.snd_wnd
  THEN [s EXCEPT !.snd_wnd = a.wnd, !.wl2 = a.ackno, !.fresh = FALSE] ELSE s

\* An acknowledgement of nothing new: the third in a row that leaves the edge
\* of the window where it was retransmits, those after it widen cwnd.
DupAck(s, edge, a) ==
  IF Seq32(s.wl2 + s.snd_wnd) = edge /\ s.rtime /\ s.lastack = a.ackno
  THEN LET d == [s EXCEPT !.dupacks = Lesser(@ + 1, 4)]
           w == IF d.dupacks > 3 THEN [d EXCEPT !.cwnd = Saturate(@ + SndMss)] ELSE d
       IN  IF w.dupacks >= 3 THEN RexmitFast(w) ELSE w
  ELSE s

\* Mutant: a segment is freed that is acknowledged in part.
RECURSIVE FreeTouched(_, _)
FreeTouched(q, ackno) == IF q # <<>> /\ SeqLT(Head(q).seqno, ackno)
                         THEN FreeTouched(Tail(q), ackno) ELSE q

\* tcp_free_acked_segments: those at the head that are acknowledged whole.
RECURSIVE FreeAcked(_, _)
FreeAcked(q, ackno) == IF q # <<>> /\ SeqLEQ(LastOf(Head(q)), ackno)
                       THEN FreeAcked(Tail(q), ackno) ELSE q

\* cwnd and bytes_acked after acked new bytes: slow start, then congestion
\* avoidance.
Grow(s, acked) ==
  LET total == Saturate(s.bytes_acked + acked)
  IN  IF s.cwnd < s.ssthresh
      THEN [s EXCEPT !.cwnd = Saturate(@ + Lesser(acked, (IF s.rto THEN 1 ELSE 2) * SndMss))]
      ELSE IF total >= s.cwnd
      THEN [s EXCEPT !.bytes_acked = total - s.cwnd, !.cwnd = Saturate(@ + SndMss)]
      ELSE [s EXCEPT !.bytes_acked = total]

\* The retransmission after a timeout is over: see the comment in the code.
RtoDone(s) ==
  IF s.unacked # <<>> THEN SeqLEQ(s.rto_end, Head(s.unacked).seqno)
  ELSE s.unsent = <<>> \/ SeqLEQ(s.rto_end, Head(s.unsent).seqno)

NewAck(s, ackno) ==
  LET r == IF s.infr THEN [s EXCEPT !.infr = FALSE, !.cwnd = s.ssthresh, !.bytes_acked = 0]
           ELSE s
      g == Grow([r EXCEPT !.nrtx = 0, !.dupacks = 0, !.lastack = ackno],
                Seq32(ackno - s.lastack))
      f == [g EXCEPT !.unacked = FreeAcked(@, ackno), !.unsent = FreeAcked(@, ackno)]
      t == [f EXCEPT !.rtime = f.unacked # <<>>]
  IN  [t EXCEPT !.rto = @ /\ ~RtoDone(t)]

\* The half of tcp_receive that takes an acknowledgement a.
TakeAck(s, a) ==
  LET u == UpdateWnd([s EXCEPT !.probe = 0], a)
  IN  IF SeqLEQ(a.ackno, s.lastack) THEN DupAck(u, Seq32(s.snd_wnd + s.wl2), a)
      ELSE IF SeqBetween(a.ackno, Seq32(s.lastack + 1), s.snd_nxt) THEN NewAck(u, a.ackno)
      ELSE u

-----------------------------------------------------------------------------
\* The connection becomes s, after cost faults; what s has sent is on its way.
SendStep(s, cost) ==
  /\ sendFaults + cost <= MaxSendFaults /\ sendFaults' = sendFaults + cost
  /\ snd' = [s EXCEPT !.sent = {}] /\ segments' = segments \cup s.sent
Alive == snd.state \in {"ESTABLISHED", "FIN_WAIT_1"}
Removed(s) == [s EXCEPT !.state = "removed", !.unsent = <<>>, !.unacked = <<>>]

\* The interface takes all that tcp_output sends, or refuses after n.
AllSent == ReqLen + 1
TcpOutputs(s) == \E n \in 0 .. Len(Queued(s)) \cup {AllSent} :
                SendStep(TcpOutput(s, n), IF TcpOutput(s, n).memerr THEN 1 ELSE 0)

\* http_connected_cb: tcp_write; tcp_input calls tcp_output when it returns.
Write == snd.state = "connected" /\ TcpOutputs(TcpWrite(snd)) /\ UNCHANGED <<peer, acks>>
\* tcp_close.
Close == snd.state = "ESTABLISHED" /\ TcpOutputs(SendFin(snd)) /\ UNCHANGED <<peer, acks>>

\* An acknowledgement arrives, for the last time or (a fault) not.
AckArrives ==
  /\ Alive
  /\ \E a \in acks, again \in BOOLEAN, n \in {0, AllSent} :
       LET s == TcpOutput(TakeAck(snd, a), n)
       IN  /\ SendStep(s, (IF again THEN 1 ELSE 0) + (IF s.memerr THEN 1 ELSE 0))
           /\ acks' = IF again THEN acks ELSE acks \ {a}
  /\ UNCHANGED peer

\* A tick of tcp_slowtmr in which the timer that runs has expired: s after it,
\* if the memory is there, no segment is held by the ARP queue and, for a
\* probe, the interface sends it.
PersistExpired(s, ok) ==
  IF s.snd_wnd = 0
  THEN IF ok THEN ZeroWindowProbe(s) ELSE [ZeroWindowProbe(s) EXCEPT !.sent = {}]
  ELSE IF ok THEN SplitUnsent(s, s.snd_wnd) ELSE s
RtoExpired(s, ok) == IF ok \/ s.unacked = <<>> THEN Retransmit(s) ELSE s

\* tcp_slowtmr: the limits of the retries, the assertions about the persist
\* timer, the timer, and the tcp_output that polling the application ends in.
\* The interface takes n segments of the first tcp_output and m of the second.
TimerExpired(s) == s.nrtx >= MaxRtx \/ s.persist \/ (s.rtime /\ Queued(s) # <<>>)
Ticked(s, ok, n, m) ==
  IF s.nrtx >= MaxRtx THEN Removed(s)
  ELSE IF s.persist /\ (s.unacked # <<>> \/ s.unsent = <<>>) THEN [s EXCEPT !.state = "halted"]
  ELSE IF s.persist /\ s.probe >= MaxRtx THEN Removed(s)
  ELSE LET t == IF s.persist THEN PersistExpired(s, ok) ELSE RtoExpired(s, ok)
       IN  TcpOutput(TcpOutput(t, n), m)
SlowTmr ==
  /\ Alive /\ TimerExpired(snd)
  /\ \E ok \in BOOLEAN, n, m \in {0, AllSent} :
       SendStep(Ticked(snd, ok, n, m), Cardinality({k \in 1 .. 3 : <<~ok, n = 0, m = 0>>[k]}))
  /\ UNCHANGED <<peer, acks>>
\* A tick in which no timer expires: only the tcp_output.
PollTick == Alive /\ snd.nrtx < MaxRtx /\ TcpOutputs(snd) /\ UNCHANGED <<peer, acks>>

-----------------------------------------------------------------------------
\* The peer: what it does with seg, and the window it announces then.
Accept(seg) ==
  IF peer.fin \/ ~SeqBetween(peer.nxt, seg.seqno, Seq32(seg.seqno + seg.len)) THEN peer
  ELSE [peer EXCEPT !.nxt = LastOf(seg), !.fin = seg.fin]
Announce(p, w) ==
  /\ SeqGEQ(Seq32(p.nxt + w), p.edge)
  /\ peer' = [p EXCEPT !.edge = Seq32(p.nxt + w)]
  /\ acks' = acks \cup {[ackno |-> p.nxt, wnd |-> w]} /\ Cardinality(acks') <= MaxAcks
  /\ LET stall == IF w = 0 /\ p.nxt = peer.nxt THEN 1 ELSE 0
     IN  sendFaults + stall <= MaxSendFaults /\ sendFaults' = sendFaults + stall
PeerRecv ==
  \E seg \in segments, w \in PeerWnds :
    /\ \/ Announce(Accept(seg), w)
       \/ SeqGT(Seq32(seg.seqno + seg.len), peer.edge) /\ Announce(peer, w)
    /\ segments' = segments \ {seg} /\ UNCHANGED snd
\* The application of the peer has read: a wider window.
PeerOpens ==
  \E w \in PeerWnds : Seq32(peer.nxt + w) # peer.edge /\ Announce(peer, w)
                      /\ UNCHANGED <<snd, segments>>
Lose ==
  /\ sendFaults < MaxSendFaults /\ sendFaults' = sendFaults + 1
  /\ \/ \E seg \in segments : segments' = segments \ {seg} /\ UNCHANGED acks
     \/ \E a \in acks : acks' = acks \ {a} /\ UNCHANGED segments
  /\ UNCHANGED <<snd, peer>>

-----------------------------------------------------------------------------
TcpSendInit ==
  /\ \E w \in FirstWnds :
       /\ snd = [state |-> "connected", unsent |-> <<>>, unacked |-> <<>>, snd_nxt |-> Iss,
                 lastack |-> Iss, snd_wnd |-> w, wl2 |-> Seq32(Iss - 1), fresh |-> TRUE,
                 cwnd |-> 4 * SndMss, ssthresh |-> SndBuf, bytes_acked |-> 0, dupacks |-> 0,
                 rtime |-> FALSE, nrtx |-> 0, persist |-> FALSE, probe |-> 0, infr |-> FALSE,
                 rto |-> FALSE, rto_end |-> Iss, memerr |-> FALSE, fin |-> FALSE, sent |-> {}]
       /\ peer = [nxt |-> Iss, edge |-> Seq32(Iss + w), fin |-> FALSE]
  /\ segments = {} /\ acks = {} /\ sendFaults = 0

TcpSendNext ==
  \/ Write \/ Close \/ AckArrives \/ SlowTmr \/ PollTick
  \/ PeerRecv \/ PeerOpens \/ Lose

\* Only the timer is fair: sys_check_timeouts calls tcp_tmr for as long as a
\* connection exists.  (Weak fairness, with its ENABLED written out.)
SlowTmrPending == Alive /\ TimerExpired(snd) /\ Ticked(snd, TRUE, AllSent, AllSent) # snd
TcpSendFairness == <>[]SlowTmrPending => []<><<SlowTmr>>_sendVars

TcpSendSpec == TcpSendInit /\ [][TcpSendNext]_sendVars /\ TcpSendFairness

-----------------------------------------------------------------------------
Distance(n) == Seq32(n - Iss)
\* Whatever the peer has not acknowledged is kept: each byte from lastack to
\* the end of the request lies in exactly one queued segment.  What is in
\* flight is in order and its timer runs; the persist timer runs only when
\* nothing is in flight (as tcp_slowtmr asserts); and what is taken for
\* acknowledged, the peer has.
SendQueuesSound ==
  Alive =>
    /\ \A i \in Distance(snd.lastack) .. ReqLen - 1 :
         \E k \in DOMAIN Queued(snd) :
           LET first(j) == Distance(Queued(snd)[j].seqno)
               holds(j) == i \in first(j) .. first(j) + Queued(snd)[j].len - 1
           IN  holds(k) /\ \A j \in DOMAIN Queued(snd) \ {k} : ~holds(j)
    /\ \A j, k \in DOMAIN snd.unacked :
         j < k => SeqLT(snd.unacked[j].seqno, snd.unacked[k].seqno)
    /\ \A j \in DOMAIN snd.unacked : SeqLEQ(LastOf(snd.unacked[j]), snd.snd_nxt)
    /\ snd.persist => snd.unacked = <<>>
    /\ snd.unacked # <<>> => snd.rtime
    /\ SeqLEQ(snd.lastack, peer.nxt)

\* Every request comes to an end: it is acknowledged whole, or the connection
\* is given up (or the assertion about the persist timer stops the system).
SendEnds == snd.state = "ESTABLISHED" ~> Queued(snd) = <<>>

\* What tcp_slowtmr asserts: the persist timer never runs with an empty queue.
PersistHasData == snd.state # "halted"
==============================================================================
