------------------------------ MODULE HttpClient ------------------------------
(***************************************************************************)
(* The HTTP client (http_client.c) on top of the resolver's promise and of *)
(* the life of a TCP pcb in lwIP (tcp.c, tcp_in.c).  All of it runs in the *)
(* main program: http_get is called by the shell, everything else is a     *)
(* callback made from lwip_poll.                                           *)
(*                                                                         *)
(* A pcb is kept with what decides who is told about it: its state, the    *)
(* callbacks registered, and the flags TF_RXCLOSED and TF_CLOSEPEND.       *)
(* inFlight says that something sent has not been acknowledged, so that    *)
(* the retransmission limit can end the connection.  Segments are          *)
(* represented by what tcp_process accepts; what it rejects or only        *)
(* acknowledges changes none of this.  http_recv_cb takes all data it is   *)
(* given, so a pcb never has unread or refused data.                       *)
(***************************************************************************)
EXTENDS Naturals, FiniteSets

CONSTANTS
    Names, Callbacks, Null, MaxRequests,   \* of the resolver
    Pcbs                      \* the pool of MEMP_NUM_TCP_PCB pcbs

ASSUME ClientAssumption == "http_dns_cb" \in Callbacks /\ Null \notin Pcbs

VARIABLES
    waiting, out,  \* the resolver
    pcbs,          \* the pcbs of the pool
    httpPcb,       \* http_pcb
    busy           \* http_busy

Resolver == INSTANCE Resolver

clientVars == <<pcbs, httpPcb, busy>>
vars == <<waiting, out, pcbs, httpPcb, busy>>

FreePcb == [state |-> "FREE", errf |-> FALSE, recv |-> FALSE, rxclosed |-> FALSE,
            closepend |-> FALSE, inFlight |-> FALSE]

Init ==
    /\ Resolver!Init
    /\ pcbs = [p \in Pcbs |-> FreePcb]
    /\ httpPcb = Null /\ busy = FALSE

In(p, states) == pcbs[p].state \in states
Active == {"SYN_SENT", "ESTABLISHED", "CLOSE_WAIT", "FIN_WAIT_1", "FIN_WAIT_2",
           "CLOSING", "LAST_ACK"}

------------------------------------------------------------------------------
(* Closing.  An operator that closes gives the set of pcbs it may leave:    *)
(* tcp_send_fin fails when memory is short, and TF_CLOSEPEND is set.        *)

\* tcp_close_shutdown_fin
SendFin(e) ==
    CASE e.state = "ESTABLISHED" ->
           {[e EXCEPT !.state = "FIN_WAIT_1", !.inFlight = TRUE], [e EXCEPT !.closepend = TRUE]}
      [] e.state = "CLOSE_WAIT" ->
           {[e EXCEPT !.state = "LAST_ACK", !.inFlight = TRUE], [e EXCEPT !.closepend = TRUE]}
      [] OTHER -> {e}

\* tcp_close
tcp_close(e) ==
    IF e.state \in {"CLOSED", "SYN_SENT"} THEN {FreePcb}
    ELSE SendFin([e EXCEPT !.rxclosed = TRUE])

\* The callbacks are taken away before the pcb is closed.  Mutant: they stay.
KeepCallbacks(e) == e
NoCallbacks(e) == [e EXCEPT !.errf = FALSE, !.recv = FALSE]

\* http_close_conn, for a pcb p that has become e
http_close_conn(p, e) ==
    /\ \E f \in tcp_close(NoCallbacks(e)) : pcbs' = [pcbs EXCEPT ![p] = f]
    /\ httpPcb' = Null
    /\ busy' = FALSE

\* The pcb is freed and its error callback, http_err_cb, is called if it is
\* still registered.  Mutant: http_err_cb forgets http_busy.
ErrKeepsBusy(p) ==
    /\ pcbs' = [pcbs EXCEPT ![p] = FreePcb]
    /\ httpPcb' = IF pcbs[p].errf THEN Null ELSE httpPcb
    /\ UNCHANGED busy
FreeAndTell(p) ==
    /\ pcbs' = [pcbs EXCEPT ![p] = FreePcb]
    /\ httpPcb' = IF pcbs[p].errf THEN Null ELSE httpPcb
    /\ busy' = IF pcbs[p].errf THEN FALSE ELSE busy

------------------------------------------------------------------------------
(* Opening.  tcp_alloc takes a free pcb; when there is none it sends the    *)
(* FINs that are pending and kills a pcb in TIME_WAIT, in LAST_ACK or in    *)
(* CLOSING (the oldest: ages are not kept).  All priorities are equal, so   *)
(* tcp_kill_prio kills nothing.                                             *)

\* What tcp_handle_closepend may leave.
AfterClosepend ==
    {ps \in [Pcbs -> UNION {SendFin([pcbs[p] EXCEPT !.closepend = FALSE]) : p \in Pcbs}
                     \cup {pcbs[p] : p \in Pcbs}] :
        \A p \in Pcbs : ps[p] \in IF pcbs[p].closepend
                                  THEN SendFin([pcbs[p] EXCEPT !.closepend = FALSE])
                                  ELSE {pcbs[p]}}

WithState(ps, s) == {p \in Pcbs : ps[p].state = s}

\* The pcbs that may be given.
Victims(ps) ==
    CASE WithState(ps, "TIME_WAIT") # {} -> WithState(ps, "TIME_WAIT")
      [] WithState(ps, "LAST_ACK") # {} -> WithState(ps, "LAST_ACK")
      [] OTHER -> WithState(ps, "CLOSING")

tcp_alloc ==
    IF WithState(pcbs, "FREE") # {}
    THEN {[ps |-> pcbs, pcb |-> p] : p \in WithState(pcbs, "FREE")}
    ELSE UNION {IF Victims(ps) = {} THEN {[ps |-> ps, pcb |-> Null]}
                ELSE {[ps |-> ps, pcb |-> p] : p \in Victims(ps)} : ps \in AfterClosepend}

\* http_dns_cb with an address: a new pcb, and tcp_connect, which may find no
\* route, no port or no memory; http_close_conn then frees the pcb again.
NewPcb == [FreePcb EXCEPT !.state = "SYN_SENT", !.errf = TRUE, !.inFlight = TRUE]

Connect ==
    \E a \in tcp_alloc :
       \/ /\ a.pcb = Null
          /\ pcbs' = a.ps /\ httpPcb' = Null /\ busy' = FALSE
       \/ /\ a.pcb # Null
          /\ pcbs' = [a.ps EXCEPT ![a.pcb] = NewPcb]
          /\ httpPcb' = a.pcb
          /\ busy' = ~a.ps[a.pcb].errf
       \/ /\ a.pcb # Null
          /\ pcbs' = [a.ps EXCEPT ![a.pcb] = FreePcb]
          /\ httpPcb' = Null /\ busy' = FALSE

NoAddress == busy' = FALSE /\ UNCHANGED <<pcbs, httpPcb>>

http_dns_cb(ans) == IF ans = Null THEN NoAddress ELSE Connect

http_is_busy == busy

\* http_get for name n.  The last disjunct of Refuse is an error of the resolver.
http_get(n) ==
    \/ http_is_busy /\ UNCHANGED vars
    \/ /\ ~http_is_busy
       /\ \/ /\ Resolver!Accept("http_dns_cb", n)
             /\ busy' = TRUE /\ UNCHANGED <<pcbs, httpPcb>>
          \/ /\ Resolver!Refuse("http_dns_cb", n)
             /\ IF out'.err = "OK" THEN http_dns_cb(out'.ans)
                ELSE busy' = FALSE /\ UNCHANGED <<pcbs, httpPcb>>

\* The resolver makes the calls it owes for n.
ResolverCalls(n) ==
    /\ Resolver!Deliver(n)
    /\ IF out'.to["http_dns_cb"] > 0 THEN http_dns_cb(out'.ans) ELSE UNCHANGED clientVars
------------------------------------------------------------------------------
(* Segments (tcp_input and tcp_process) for a pcb p that is on the list of  *)
(* active pcbs, and the timers.                                             *)

\* A SYN-ACK: the connected callback registers http_recv_cb and writes the
\* request, which may fail for want of memory.
SynAck(p) ==
    /\ In(p, {"SYN_SENT"})
    /\ LET e == [pcbs[p] EXCEPT !.state = "ESTABLISHED", !.recv = TRUE, !.errf = TRUE,
                                !.inFlight = FALSE] IN
       \/ /\ pcbs' = [pcbs EXCEPT ![p] = [e EXCEPT !.inFlight = TRUE]]
          /\ UNCHANGED <<httpPcb, busy>>
       \/ http_close_conn(p, e)

\* An acceptable RST: the error callback, then the pcb is freed.
Reset(p) == In(p, Active) /\ FreeAndTell(p)

\* Data: http_recv_cb prints it; after tcp_close it aborts the connection.
Data(p) ==
    /\ In(p, {"ESTABLISHED", "FIN_WAIT_1", "FIN_WAIT_2"})
    /\ IF pcbs[p].rxclosed THEN FreeAndTell(p) ELSE UNCHANGED clientVars

\* A FIN, which may acknowledge ours: the receive callback is called with NULL
\* and http_recv_cb closes the connection.
FinState(p, acks) ==
    CASE In(p, {"ESTABLISHED"}) -> "CLOSE_WAIT"
      [] In(p, {"FIN_WAIT_1"}) -> IF acks THEN "TIME_WAIT" ELSE "CLOSING"
      [] In(p, {"FIN_WAIT_2"}) -> "TIME_WAIT"

Fin(p) ==
    /\ In(p, {"ESTABLISHED", "FIN_WAIT_1", "FIN_WAIT_2"})
    /\ \E acks \in BOOLEAN :
         LET e == [pcbs[p] EXCEPT !.state = FinState(p, acks),
                                  !.inFlight = @ /\ ~acks] IN
         IF e.recv THEN http_close_conn(p, e)
         ELSE pcbs' = [pcbs EXCEPT ![p] = e] /\ UNCHANGED <<httpPcb, busy>>

\* Everything sent is acknowledged, our FIN included.
Ack(p) ==
    /\ In(p, {"ESTABLISHED", "CLOSE_WAIT", "FIN_WAIT_1", "CLOSING", "LAST_ACK"})
    /\ pcbs[p].inFlight
    /\ IF In(p, {"LAST_ACK"})
       THEN IF pcbs[p].rxclosed
            THEN pcbs' = [pcbs EXCEPT ![p] = FreePcb] /\ UNCHANGED <<httpPcb, busy>>
            ELSE FreeAndTell(p)
       ELSE /\ pcbs' = [pcbs EXCEPT ![p].inFlight = FALSE,
                                    ![p].state = CASE @ = "FIN_WAIT_1" -> "FIN_WAIT_2"
                                                   [] @ = "CLOSING" -> "TIME_WAIT"
                                                   [] OTHER -> @]
            /\ UNCHANGED <<httpPcb, busy>>

\* tcp_slowtmr removes p: too many retransmissions, or too long in one of the
\* last states.  Mutant: FIN_WAIT_2 is left alone.
ExpiresUnlessFinWait(p) == \/ In(p, Active) /\ pcbs[p].inFlight
                           \/ In(p, {"LAST_ACK"})
Expires(p) == \/ In(p, Active) /\ pcbs[p].inFlight
              \/ In(p, {"LAST_ACK"})
              \/ In(p, {"FIN_WAIT_2"}) /\ pcbs[p].rxclosed

SlowTmr(p) ==
    \/ Expires(p) /\ FreeAndTell(p)
    \/ /\ In(p, {"TIME_WAIT"})
       /\ pcbs' = [pcbs EXCEPT ![p] = FreePcb] /\ UNCHANGED <<httpPcb, busy>>

\* tcp_fasttmr sends a FIN that is pending, if it can.
FastTmr(p) ==
    /\ pcbs[p].closepend
    /\ \E f \in SendFin([pcbs[p] EXCEPT !.closepend = FALSE]) : pcbs' = [pcbs EXCEPT ![p] = f]
    /\ UNCHANGED <<httpPcb, busy>>

Segment(p) == SynAck(p) \/ Reset(p) \/ Data(p) \/ Fin(p) \/ Ack(p)

TcpStep == \E p \in Pcbs : Segment(p) \/ SlowTmr(p) \/ FastTmr(p)

Next ==
    \/ \E n \in Names : http_get(n) \/ ResolverCalls(n)
    \/ TcpStep /\ Resolver!Work

Spec == Init /\ [][Next]_vars

\* A server that has answered ends the connection, as "Connection: close"
\* asks it to.
ServerEnds(p) == (Fin(p) \/ Reset(p)) /\ Resolver!Work

------------------------------------------------------------------------------
TypeOK ==
    /\ pcbs \in [Pcbs -> [state : Active \cup {"FREE", "TIME_WAIT"}, errf : BOOLEAN,
                          recv : BOOLEAN, rxclosed : BOOLEAN, closepend : BOOLEAN,
                          inFlight : BOOLEAN]]
    /\ httpPcb \in Pcbs \cup {Null}
    /\ busy \in BOOLEAN
    /\ waiting \in [Callbacks \X Names -> Nat]

HttpOwed == {n \in Names : waiting[<<"http_dns_cb", n>>] > 0}

\* The client is busy exactly while one thing is bound to make it idle again:
\* one call owed by the resolver, or one pcb whose error callback it holds.
\* Otherwise `curl' would wait for nothing, or a second request would start on
\* top of the first.
BusyMeansPending ==
    /\ \A n \in Names : waiting[<<"http_dns_cb", n>>] <= 1
    /\ Cardinality(HttpOwed) + Cardinality({p \in Pcbs : pcbs[p].errf}) = IF busy THEN 1 ELSE 0

\* http_pcb is NULL or the one pcb whose callbacks are the client's, and that
\* pcb is not closed: no callback comes from a connection that was given up,
\* and http_pcb never points to a pcb that lwIP has freed.
CallbacksOwned ==
    \A p \in Pcbs :
        /\ pcbs[p].errf <=> httpPcb = p
        /\ pcbs[p].recv => pcbs[p].errf
        /\ pcbs[p].errf => In(p, {"SYN_SENT", "ESTABLISHED"}) /\ ~pcbs[p].rxclosed

\* Every pcb that was closed goes back to the pool, or is taken over by a new
\* connection: the states after http_close_conn all end.
PcbsReturn == \A p \in Pcbs : pcbs[p].rxclosed ~> ~pcbs[p].rxclosed
==============================================================================
