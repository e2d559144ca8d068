-------------------------------- MODULE Dhcp --------------------------------
(***************************************************************************)
(* The DHCP client of lwIP (src/src/lwip/core/ipv4/dhcp.c) with the        *)
(* address conflict detection it uses (acd.c), for the one interface of    *)
(* ZanOS.  Everything runs in the main loop, so a handler is one step: a   *)
(* received reply, a received ARP packet, or one of three cyclic timers.   *)
(*                                                                         *)
(* The fine timer (500 ms) and the ACD timer (100 ms) only count down      *)
(* between two events, so request_timeout, ttw and lastconflict are "is    *)
(* running" and run out at an arbitrary moment.  The coarse timer counts   *)
(* for real: lease_used, t1_renew_time and t2_rebind_time are compared     *)
(* with one another.                                                       *)
(*                                                                         *)
(* The link of ZanOS never goes down and nothing stops the client, so      *)
(* REBOOTING, INFORM and INIT are never reached.                           *)
(***************************************************************************)
EXTENDS Integers, FiniteSets

CONSTANTS
  Addr,          \* addresses a server may offer
  NoAddr,        \* IP4_ADDR_ANY, no address
  Absent,        \* an option that a message does not carry
  Infinite,      \* 0xffffffff, a lease without end, in seconds
  Leases,        \* the lease options of an ACK: records [t0, t1, t2]
  CoarseSecs,    \* DHCP_COARSE_TIMER_SECS
  MaxTimeout,    \* the largest dhcp_timeout_t
  MaxRequests,   \* REQUESTs sent before the client starts over (6)
  ProbeNum,      \* PROBE_NUM
  AnnounceNum,   \* ANNOUNCE_NUM
  MaxConflicts,  \* MAX_CONFLICTS
  MaxFaults      \* bound: NAKs, conflicts and failed allocations

ASSUME DhcpAssumption ==
  /\ NoAddr \notin Addr
  /\ {CoarseSecs, MaxTimeout, MaxRequests, ProbeNum, AnnounceNum,
      MaxConflicts} \subseteq Nat \ {0}
  /\ MaxFaults \in Nat

VARIABLES
  dhcp,    \* struct dhcp
  acd,     \* struct acd, dhcp->acd
  ip,      \* netif->ip_addr
  net,     \* what was sent under the current transaction id
  faults,  \* faults so far
  lost     \* the address went away before its lease did, and none came since

dhcpVars == <<dhcp, acd, ip, net, faults, lost>>

\* The states of a client, as far as ZanOS can reach them.
State == {"SELECTING", "REQUESTING", "CHECKING", "BACKING_OFF",
          "BOUND", "RENEWING", "REBINDING"}

\* The states in which dhcp_supplied_address answers 1.
Supplied == {"BOUND", "RENEWING", "REBINDING"}

\* The states of a conflict check, and all states of ACD.
Checks == {"PROBE_WAIT", "PROBING", "ANNOUNCE_WAIT", "ANNOUNCING"}
AcdState == {"OFF", "PROBE_WAIT", "PROBING", "ANNOUNCE_WAIT", "ANNOUNCING",
             "ONGOING", "RATE_LIMIT"}

\* The client and its ACD module after the memset of dhcp_start.
ClearedDhcp == [state |-> "OFF", tries |-> 0, timer |-> FALSE,
                offered |-> NoAddr, lease |-> 0, renew |-> 0, rebind |-> 0,
                t0 |-> 0, t2 |-> 0, t1_renew |-> 0, t2_rebind |-> 0,
                used |-> 0]
ClearedAcd == [state |-> "OFF", sent |-> 0, conflicts |-> 0,
               defending |-> FALSE, ip |-> NoAddr]

\* Nothing was sent yet under this transaction id.
NewXid == [discover |-> FALSE, asked |-> {}]

\* The state of the world that a handler works on.
World == [dhcp |-> dhcp, acd |-> acd, ip |-> ip, net |-> net]

-----------------------------------------------------------------------------
(* The helpers, each from a world to a world.                              *)

\* dhcp_set_state: a change of state clears the tries and stops the timer.
SetState(w, s) ==
  IF s = w.dhcp.state THEN w
  ELSE [w EXCEPT !.dhcp.state = s, !.dhcp.tries = 0, !.dhcp.timer = FALSE]

\* dhcp_create_msg: the first message of a transaction, other than a
\* REQUEST, draws a new transaction id; replies to the old one are dropped
\* by dhcp_recv.  Without memory (ok false) nothing happens at all.
CreateMsg(w, isRequest, ok) ==
  IF ok /\ ~isRequest /\ w.dhcp.tries = 0 THEN [w EXCEPT !.net = NewXid] ELSE w

\* The tail of every function that sends: one more try (the back-off stops
\* growing after MaxRequests of them), and the timer runs.
CountTry(w) ==
  [w EXCEPT !.dhcp.tries = IF @ < MaxRequests THEN @ + 1 ELSE @,
            !.dhcp.timer = TRUE]

\* A REQUEST for address a goes out, if there is memory for it.
SendRequest(w, a, ok) ==
  IF ok THEN [CreateMsg(w, TRUE, ok) EXCEPT !.net.asked = @ \cup {a}] ELSE w

\* dhcp_discover.
Discover(w, ok) ==
  LET s == SetState([w EXCEPT !.dhcp.offered = NoAddr], "SELECTING")
      m == CreateMsg(s, FALSE, ok)
  IN CountTry([m EXCEPT !.net.discover = @ \/ ok])

\* dhcp_select: ask for the offered address.
Select(w, ok) ==
  LET s == SetState(w, "REQUESTING")
  IN CountTry(SendRequest(s, s.dhcp.offered, ok))

\* dhcp_renew and dhcp_rebind: ask for the address of the interface.
Renew(w, ok) ==
  LET s == SetState(w, "RENEWING") IN CountTry(SendRequest(s, s.ip, ok))
Rebind(w, ok) ==
  LET s == SetState(w, "REBINDING") IN CountTry(SendRequest(s, s.ip, ok))

\* dhcp_decline: tell the server, with no timer running.
Decline(w, ok) == CreateMsg(SetState(w, "BACKING_OFF"), FALSE, ok)

\* A number of seconds in coarse ticks, rounded, at least 1 and capped.
SetTimeout(secs) ==
  LET t == (secs + CoarseSecs \div 2) \div CoarseSecs
      capped == IF t > MaxTimeout THEN MaxTimeout ELSE t
  IN IF capped = 0 THEN 1 ELSE capped

\* dhcp_bind: start the timers of the lease and configure the interface.
\* A time of 0xffffffff leaves its timer as it was.
Bind(w) ==
  LET d == w.dhcp
      timed == [d EXCEPT
        !.used = 0,
        !.t0 = IF d.lease # Infinite THEN SetTimeout(d.lease) ELSE @,
        !.t1_renew = IF d.renew # Infinite THEN SetTimeout(d.renew) ELSE @,
        !.t2 = IF d.rebind # Infinite THEN SetTimeout(d.rebind) ELSE @,
        !.t2_rebind = IF d.rebind # Infinite THEN SetTimeout(d.rebind) ELSE @]
  IN [SetState([w EXCEPT !.dhcp = timed], "BOUND") EXCEPT !.ip = d.offered]

\* dhcp_release_and_stop followed by dhcp_start, as both callers do: the
\* interface is cleared only if DHCP supplied its address; the rest goes
\* with the memset.  The UDP pcb just freed is there to be allocated again.
Restart(w, okRelease, ok) ==
  LET off == SetState(w, "OFF")
      released == IF w.dhcp.state \in Supplied
                  THEN [CreateMsg(off, FALSE, okRelease) EXCEPT !.ip = NoAddr]
                  ELSE off
  IN Discover([released EXCEPT !.dhcp = ClearedDhcp, !.acd = ClearedAcd], ok)

\* The times of an ACK (dhcp_handle_ack): a lease that is not given stays,
\* T1 and T2 default to 1/2 and 7/8 of it.
HandleAck(w, a, l) ==
  LET lease == IF l.t0 = Absent THEN w.dhcp.lease ELSE l.t0
  IN [w EXCEPT !.dhcp.lease = lease, !.dhcp.offered = a,
        !.dhcp.renew = IF l.t1 = Absent THEN lease \div 2 ELSE l.t1,
        !.dhcp.rebind = IF l.t2 = Absent
                        THEN ((lease * 7) % (Infinite + 1)) \div 8 ELSE l.t2]

\* dhcp_check and acd_start: probe for the acknowledged address.
Check(w) ==
  LET s == SetState(w, "CHECKING")
  IN [s EXCEPT !.acd.state = "PROBE_WAIT", !.acd.sent = 0,
               !.acd.defending = FALSE, !.acd.ip = s.dhcp.offered]

\* Mutant: the back-off timer is not started.
RestartNoTimer(w) == SetState([w EXCEPT !.acd.state = "OFF"], "BACKING_OFF")

\* dhcp_conflict_callback(ACD_RESTART_CLIENT), after acd_stop.
RestartClient(w) ==
  [SetState([w EXCEPT !.acd.state = "OFF"], "BACKING_OFF")
     EXCEPT !.dhcp.timer = TRUE]

\* acd_restart: give the address up, tell the server, and either wait out
\* the rate limit or let the client start again.
AcdRestart(w, ok) ==
  LET d == Decline([w EXCEPT !.acd.conflicts = @ + 1, !.ip = NoAddr], ok)
  IN IF d.acd.conflicts >= MaxConflicts
     THEN [d EXCEPT !.acd.state = "RATE_LIMIT"]
     ELSE RestartClient(d)

-----------------------------------------------------------------------------
(* The handlers.                                                           *)

Becomes(w) ==
  /\ dhcp' = w.dhcp /\ acd' = w.acd /\ ip' = w.ip /\ net' = w.net
  /\ lost' = /\ w.ip = NoAddr /\ (lost \/ ip # NoAddr)
             /\ w.dhcp.t0 + w.dhcp.t1_renew + w.dhcp.t2_rebind > 0

\* An allocation that fails counts as a fault.
Allocated(ok) ==
  /\ ok \/ faults < MaxFaults
  /\ faults' = IF ok THEN faults ELSE faults + 1

Fault ==
  /\ faults < MaxFaults
  /\ faults' = faults + 1

\* Mutant: the end of the back-off is not handled.
FineTimerWaits(ok) ==
  LET w == [World EXCEPT !.dhcp.timer = FALSE]
  IN /\ dhcp.timer
     /\ Allocated(ok)
     /\ Becomes(CASE dhcp.state = "SELECTING" -> Discover(w, ok)
                 [] dhcp.state = "REQUESTING" -> Select(w, ok)
                 [] OTHER -> w)

\* dhcp_timeout, once dhcp_fine_tmr has counted request_timeout down.
FineTimer(ok) ==
  LET w == [World EXCEPT !.dhcp.timer = FALSE]
  IN /\ dhcp.timer
     /\ Allocated(ok)
     /\ Becomes(CASE dhcp.state \in {"BACKING_OFF", "SELECTING"} ->
                      Discover(w, ok)
                 [] dhcp.state = "REQUESTING" /\ dhcp.tries < MaxRequests ->
                      Select(w, ok)
                 [] dhcp.state = "REQUESTING" /\ dhcp.tries >= MaxRequests ->
                      Restart(w, TRUE, ok)
                 [] OTHER -> w)

\* dhcp_t1_timeout and dhcp_t2_timeout: ask again, and arm the timer for
\* half of what is left until the next deadline.
T1Timeout(w, ok) ==
  LET half == (w.dhcp.t2 - w.dhcp.used) \div 2
      r == Renew(w, ok)
  IN IF w.dhcp.state \in {"REQUESTING", "BOUND", "RENEWING"}
     THEN [r EXCEPT !.dhcp.t1_renew = IF half >= 1 THEN half ELSE @]
     ELSE w
T2Timeout(w, ok) ==
  LET half == (w.dhcp.t0 - w.dhcp.used) \div 2
      r == Rebind(w, ok)
  IN IF w.dhcp.state \in {"REQUESTING", "BOUND", "RENEWING", "REBINDING"}
     THEN [r EXCEPT !.dhcp.t2_rebind = IF half >= 1 THEN half ELSE @]
     ELSE w

\* dhcp_coarse_tmr: the lease first, then T2, then T1; a timer that is
\* looked at and does not fire still counts.
CoarseTimer(okRelease, ok) ==
  LET used == IF dhcp.t0 > 0 THEN dhcp.used + 1 ELSE dhcp.used
      w0 == [World EXCEPT !.dhcp.used = used]
      w2 == [w0 EXCEPT !.dhcp.t2_rebind = IF @ > 0 THEN @ - 1 ELSE 0]
      w1 == [w2 EXCEPT !.dhcp.t1_renew = IF @ > 0 THEN @ - 1 ELSE 0]
  IN /\ dhcp.t0 + dhcp.t1_renew + dhcp.t2_rebind > 0
     /\ Allocated(ok /\ okRelease)
     /\ Becomes(CASE dhcp.t0 > 0 /\ used = dhcp.t0 ->
                      Restart(w0, okRelease, ok)
                 [] ~(dhcp.t0 > 0 /\ used = dhcp.t0) /\ dhcp.t2_rebind = 1 ->
                      T2Timeout(w2, ok)
                 [] ~(dhcp.t0 > 0 /\ used = dhcp.t0) /\ dhcp.t2_rebind # 1
                      /\ dhcp.t1_renew = 1 -> T1Timeout(w1, ok)
                 [] OTHER -> w1)

\* dhcp_recv, with a message of the current transaction.  A message without
\* the server's identifier, or one that does not fit the state, is dropped.
RecvOffer(a, ok) ==
  /\ net.discover /\ dhcp.state = "SELECTING"
  /\ Allocated(ok)
  /\ Becomes(Select([World EXCEPT !.dhcp.offered = a, !.dhcp.timer = FALSE], ok))

\* Mutant: the first ACK binds without a conflict check.
AckBinds(a, l) ==
  /\ a \in net.asked
  /\ dhcp.state \in {"REQUESTING", "REBINDING", "RENEWING"}
  /\ Becomes(Bind(HandleAck(World, a, l)))
  /\ UNCHANGED faults

RecvAck(a, l) ==
  /\ a \in net.asked
  /\ \/ /\ dhcp.state = "REQUESTING"
        /\ Becomes(Check(HandleAck(World, a, l)))
     \/ /\ dhcp.state \in {"REBINDING", "RENEWING"}
        /\ Becomes(Bind(HandleAck(World, a, l)))
  /\ UNCHANGED faults

\* Mutant: the interface keeps the refused address.
NakKeepsAddress(w, ok) == Discover(SetState(w, "BACKING_OFF"), ok)

\* dhcp_handle_nak.
HandleNak(w, ok) ==
  Discover([SetState(w, "BACKING_OFF") EXCEPT !.ip = NoAddr], ok)

RecvNak(ok) ==
  /\ net.asked # {}
  /\ dhcp.state \in {"REQUESTING", "REBINDING", "RENEWING"}
  /\ Fault
  /\ Becomes(HandleNak(World, ok))

\* acd_tmr, once ttw is 0.
AcdProbe ==
  /\ acd.state \in {"PROBE_WAIT", "PROBING"}
  /\ Becomes(IF acd.sent + 1 >= ProbeNum
            THEN [World EXCEPT !.acd.state = "ANNOUNCE_WAIT", !.acd.sent = 0]
            ELSE [World EXCEPT !.acd.state = "PROBING", !.acd.sent = @ + 1])
  /\ UNCHANGED faults

AcdAnnounce ==
  LET w == IF acd.sent = 0
           THEN [World EXCEPT !.acd.state = "ANNOUNCING", !.acd.conflicts = 0]
           ELSE World
  IN /\ acd.state \in {"ANNOUNCE_WAIT", "ANNOUNCING"}
     /\ Becomes(IF acd.sent + 1 >= AnnounceNum
               THEN Bind([w EXCEPT !.acd.state = "ONGOING", !.acd.sent = 0])
               ELSE [w EXCEPT !.acd.sent = @ + 1])
     /\ UNCHANGED faults

AcdRateLimitOver ==
  /\ acd.state = "RATE_LIMIT"
  /\ Becomes(RestartClient(World))
  /\ UNCHANGED faults

\* lastconflict runs out.
AcdDefended ==
  /\ acd.defending
  /\ Becomes([World EXCEPT !.acd.defending = FALSE])
  /\ UNCHANGED faults

\* acd_arp_reply: another host uses, or probes for, the address.
AcdArpReply(ok) ==
  /\ Fault
  /\ \/ /\ acd.state \in {"PROBE_WAIT", "PROBING", "ANNOUNCE_WAIT"}
        /\ Becomes(AcdRestart(World, ok))
     \/ /\ acd.state \in {"ANNOUNCING", "ONGOING"}
        /\ Becomes(IF acd.defending THEN AcdRestart(World, ok)
                  ELSE [World EXCEPT !.acd.defending = TRUE])

-----------------------------------------------------------------------------
\* dhcp_start at boot: there is memory, and the first DISCOVER goes out.
Started ==
  Discover([dhcp |-> ClearedDhcp, acd |-> ClearedAcd, ip |-> NoAddr,
            net |-> NewXid], TRUE)

DhcpInit ==
  /\ dhcp = Started.dhcp /\ acd = Started.acd
  /\ ip = NoAddr /\ net = Started.net
  /\ faults = 0 /\ lost = FALSE

Offered == \E a \in Addr : RecvOffer(a, TRUE)
Acked == \E a \in Addr, l \in Leases : RecvAck(a, l)
AcdTimer == AcdProbe \/ AcdAnnounce \/ AcdRateLimitOver
AnyFineTimer == \E ok \in BOOLEAN : FineTimer(ok)
AnyCoarseTimer == \E okRelease, ok \in BOOLEAN : CoarseTimer(okRelease, ok)

DhcpNext ==
  \/ AnyFineTimer
  \/ AnyCoarseTimer
  \/ \E a \in Addr, ok \in BOOLEAN : RecvOffer(a, ok)
  \/ Acked
  \/ \E ok \in BOOLEAN : RecvNak(ok)
  \/ AcdTimer
  \/ AcdDefended
  \/ \E ok \in BOOLEAN : AcdArpReply(ok)

\* When each of the fair actions is enabled and changes something.
FineTimerDue ==
  dhcp.timer /\ ~(/\ dhcp.state = "SELECTING" /\ dhcp.tries = MaxRequests
                  /\ net.discover /\ faults = MaxFaults)
CoarseTimerDue == dhcp.t0 + dhcp.t1_renew + dhcp.t2_rebind > 0
AcdTimerDue == acd.state \notin {"OFF", "ONGOING"}
OfferDue == net.discover /\ dhcp.state = "SELECTING"
AckDue == /\ net.asked \cap Addr # {}
          /\ dhcp.state \in {"REQUESTING", "REBINDING", "RENEWING"}

\* The main loop runs the timers, and a server answers a DISCOVER that is
\* repeated: weak fairness.  REQUESTs may go unanswered until the client
\* starts over; that not all of them do for ever is strong fairness.
DhcpFairness ==
  /\ <>[]FineTimerDue => []<><<AnyFineTimer>>_dhcpVars
  /\ <>[]CoarseTimerDue => []<><<AnyCoarseTimer>>_dhcpVars
  /\ <>[]AcdTimerDue => []<><<AcdTimer>>_dhcpVars
  /\ <>[]OfferDue => []<><<Offered>>_dhcpVars
  /\ []<>AckDue => []<><<Acked>>_dhcpVars

DhcpSpec == DhcpInit /\ [][DhcpNext]_dhcpVars /\ DhcpFairness

-----------------------------------------------------------------------------
Ticks == 0 .. MaxTimeout
Seconds == 0 .. Infinite

DhcpTypeOK ==
  /\ dhcp \in [state : State, tries : 0 .. MaxRequests, timer : BOOLEAN,
               offered : Addr \cup {NoAddr}, lease : Seconds, renew : Seconds,
               rebind : Seconds, t0 : Ticks, t2 : Ticks, t1_renew : Ticks,
               t2_rebind : Ticks, used : Ticks]
  /\ acd \in [state : AcdState, sent : 0 .. ProbeNum + AnnounceNum,
              conflicts : 0 .. MaxConflicts + MaxFaults,
              defending : BOOLEAN, ip : Addr \cup {NoAddr}]
  /\ ip \in Addr \cup {NoAddr}
  /\ net.discover \in BOOLEAN /\ net.asked \subseteq Addr \cup {NoAddr}
  /\ faults \in 0 .. MaxFaults
  /\ lost \in BOOLEAN

\* Every state is left by a timer that runs: no loss of a message, refusal,
\* conflict or failed allocation leaves the client waiting for nothing.  And
\* a conflict check that runs (acd_tmr) is the one the client waits for.
NeverStuck ==
  /\ DhcpTypeOK
  /\ CASE dhcp.state \in {"SELECTING", "REQUESTING"} -> dhcp.timer
       [] dhcp.state = "BACKING_OFF" -> dhcp.timer \/ acd.state = "RATE_LIMIT"
       [] dhcp.state = "CHECKING" -> acd.state \in Checks
       [] OTHER -> ip # NoAddr \/ dhcp.t0 > dhcp.used
  /\ acd.state \in Checks => dhcp.state = "CHECKING" /\ acd.ip = dhcp.offered

\* An address is on the interface only while the lease it came with lasts
\* and the client is in a state that ends with the lease (dhcp_coarse_tmr).
AddressLeased ==
  ip # NoAddr =>
    /\ dhcp.state \in Supplied
    /\ dhcp.lease # Infinite => dhcp.used < dhcp.t0

\* An interface without an address gets one only from a conflict check that
\* found nobody, unless the timers of a lost lease still run.
CheckedUnlessLost ==
  [][ip = NoAddr /\ ip' # NoAddr =>
       lost \/ (acd.state \in {"ANNOUNCE_WAIT", "ANNOUNCING"} /\ acd.ip = ip')
    ]_dhcpVars

\* dhcp_supplied_address answers 1 only if there is an address: a client that
\* renews or rebinds is "already bound to the given lease address and using
\* it" (dhcp_recv).
SuppliedMeansAddress == dhcp.state \in Supplied => ip # NoAddr

\* A client that looks for an address gets one.
GetsBound == dhcp.state = "SELECTING" ~> dhcp.state = "BOUND"

=============================================================================
