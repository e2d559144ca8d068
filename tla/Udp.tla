---------------------------------- MODULE Udp ----------------------------------
(***************************************************************************)
(* From a received IP packet to the UDP pcb or the ICMP answer it is for:  *)
(* ip4_input, udp_input and icmp_input, the list of UDP pcbs with its      *)
(* `next' pointers, and the two users of UDP that ZanOS has: DHCP with one *)
(* connected pcb, and DNS with a pcb for each query.                       *)
(*                                                                         *)
(* A DNS query takes its port and its id from LWIP_RAND, which is sys_now: *)
(* dns_alloc_random_port and dns_create_txid try again until the tick of   *)
(* SysTick has given them a number that is free.                           *)
(*                                                                         *)
(* Every pcb is bound to the address ANY and every remote address is ANY,  *)
(* so addresses are never compared with those of a pcb.  A packet is what  *)
(* the checks tell apart; one with a faulty IP header has bad = "ip", one  *)
(* with a faulty UDP or ICMP checksum bad = "data".  TCP goes to           *)
(* tcp_input, fragments to ip4_reass, and neither is repeated here.        *)
(***************************************************************************)
EXTENDS Integers, FiniteSets, FiniteSetsExt, Functions

CONSTANTS
  UdpPool,    \* MEMP_NUM_UDP_PCB pcbs
  NoUdp,      \* NULL
  PortSpan,   \* the values of a u16_t, of ports and of DNS ids
  TickMs,     \* what a tick adds to sys_ticks: 10
  FirstPort,  \* 1024, the first port DNS_PORT_ALLOWED allows
  Bootps,     \* LWIP_IANA_PORT_DHCP_SERVER
  Bootpc      \* LWIP_IANA_PORT_DHCP_CLIENT

\* The numbers that sys_now can give: with a tick of 10 the even ones.
Drawn == {(k * TickMs) % PortSpan : k \in 0 .. PortSpan - 1}

ASSUME UdpAssumption ==
  /\ IsFiniteSet(UdpPool) /\ NoUdp \notin UdpPool
  /\ {PortSpan, FirstPort, TickMs} \subseteq Nat \ {0}
  /\ Bootps # Bootpc /\ {Bootps, Bootpc} \subseteq 1 .. FirstPort - 1
  \* a port for every pcb but that of DHCP
  /\ Cardinality(Drawn \ (0 .. FirstPort - 1)) >= Cardinality(UdpPool) - 1

VARIABLES
  udp,       \* the pcbs: ports, UDP_FLAGS_CONNECTED, and the id of the DNS query
  udplist,   \* udp_pcbs and the `next' of each pcb
  dhcp_pcb,
  ip_addr,   \* netif->ip_addr: "any", or "own" while DHCP has set one
  sys_ticks, \* sys_ticks modulo 2^16
  query      \* dns_enqueue: where it is, its pcb, and whether it has tried this tick

udpVars == <<udp, udplist, dhcp_pcb, ip_addr, sys_ticks, query>>

Port == 0 .. PortSpan - 1
NoId == PortSpan
NewUdp == [used |-> FALSE, local_port |-> 0, remote_port |-> 0, connected |-> FALSE,
           txid |-> NoId]
Idle == [at |-> "idle", pcb |-> NoUdp, tried |-> FALSE]

\* main runs dhcp_start before anything is received or asked.
UdpInit ==
  /\ udp = [p \in UdpPool |-> NewUdp]
  /\ udplist = [head |-> NoUdp, next |-> [p \in UdpPool |-> NoUdp]]
  /\ dhcp_pcb = NoUdp /\ ip_addr = "any" /\ sys_ticks = 0
  /\ query = [Idle EXCEPT !.at = "boot"]

--------------------------------------------------------------------------------
(* The list.  A walk of it follows `next' from the head; where Hop repeats *)
(* a pcb, the code would not come to an end.                               *)

Hop(l) == LET h[i \in 0 .. Cardinality(UdpPool)] ==
                IF i = 0 THEN l.head
                ELSE IF h[i - 1] = NoUdp THEN NoUdp ELSE l.next[h[i - 1]]
          IN  h
Linked(l) == Range(Hop(l)) \ {NoUdp}

\* The first pcb of the list that is in the set ps.
FirstIn(l, ps) ==
  LET h == Hop(l)
      at == {i \in DOMAIN h : h[i] \in ps}
  IN  IF at = {} THEN NoUdp ELSE h[Min(at)]

Push(l, p) == [head |-> p, next |-> [l.next EXCEPT ![p] = l.head]]

\* udp_remove takes the pcb out; its memory goes back to the pool.
Unlink(l, p) ==
  IF l.head = p THEN [head |-> l.next[p], next |-> [l.next EXCEPT ![p] = NoUdp]]
  ELSE [l EXCEPT !.next = [q \in UdpPool |->
          IF q = p THEN NoUdp ELSE IF l.next[q] = p THEN l.next[p] ELSE l.next[q]]]

\* Mutant: udp_input does not take the pcb out before it puts it in front.
ToFrontKeepsLink(l, p) == IF l.head = p THEN l ELSE Push(l, p)

\* udp_input moves a pcb that matches fully to the front.
ToFront(l, p) == IF l.head = p THEN l ELSE Push(Unlink(l, p), p)

\* udp_bind finds the port taken by another pcb.
PortTaken(p, port) == \E q \in Linked(udplist) \ {p} : udp[q].local_port = port

--------------------------------------------------------------------------------
(* The users of UDP.  main starts DHCP, which fails when dhcp_discover has *)
(* no memory and then gives the pcb back.                                  *)

dhcp_start(p) ==
  /\ query.at = "boot" /\ query' = Idle
  /\ \/ /\ udp' = [udp EXCEPT ![p] = [NewUdp EXCEPT !.used = TRUE, !.connected = TRUE,
                                        !.local_port = Bootpc, !.remote_port = Bootps]]
        /\ udplist' = Push(udplist, p) /\ dhcp_pcb' = p
     \/ UNCHANGED <<udp, udplist, dhcp_pcb>>
  /\ UNCHANGED <<ip_addr, sys_ticks>>

\* DHCP gives the interface its address, or takes it away.  No pcb is bound to
\* the old one, so udp_netif_ip_addr_changed changes none.
netif_set_addr ==
  /\ query.at = "idle" /\ dhcp_pcb # NoUdp
  /\ ip_addr' = IF ip_addr = "any" THEN "own" ELSE "any"
  /\ UNCHANGED <<udp, udplist, dhcp_pcb, sys_ticks, query>>

\* A query asks for a pcb; when there is none it shares one, see Dns.  The
\* servers to ask come from DHCP.
dns_enqueue(p) ==
  /\ query.at = "idle" /\ dhcp_pcb # NoUdp /\ ~udp[p].used
  /\ udp' = [udp EXCEPT ![p] = [NewUdp EXCEPT !.used = TRUE]]
  /\ query' = [at |-> "port", pcb |-> p, tried |-> FALSE]
  /\ UNCHANGED <<udplist, dhcp_pcb, ip_addr, sys_ticks>>

\* One round of the loop in dns_alloc_random_port, and one in dns_create_txid.
dns_alloc_random_port ==
  /\ query.at = "port" /\ ~query.tried
  /\ IF sys_ticks >= FirstPort /\ ~PortTaken(query.pcb, sys_ticks)
     THEN /\ udp' = [udp EXCEPT ![query.pcb].local_port = sys_ticks]
          /\ udplist' = Push(udplist, query.pcb)
          /\ query' = [query EXCEPT !.at = "id"]
     ELSE query' = [query EXCEPT !.tried = TRUE] /\ UNCHANGED <<udp, udplist>>
  /\ UNCHANGED <<dhcp_pcb, ip_addr, sys_ticks>>

dns_create_txid ==
  /\ query.at = "id" /\ ~query.tried
  /\ IF \E q \in UdpPool : udp[q].txid = sys_ticks
     THEN query' = [query EXCEPT !.tried = TRUE] /\ UNCHANGED udp
     ELSE udp' = [udp EXCEPT ![query.pcb].txid = sys_ticks] /\ query' = Idle
  /\ UNCHANGED <<udplist, dhcp_pcb, ip_addr, sys_ticks>>

\* The query ends without an answer and dns_call_found closes its pcb.
udp_remove(p) ==
  /\ query.at = "idle" /\ udp[p].txid # NoId
  /\ udp' = [udp EXCEPT ![p] = NewUdp] /\ udplist' = Unlink(udplist, p)
  /\ UNCHANGED <<dhcp_pcb, ip_addr, sys_ticks, query>>

\* SysTick.  A loop makes many rounds in the 10 ms between two ticks, so the
\* one that waits for a number has tried the one before.
\* Mutant: the handler does not count.
TickCountsNothing ==
  /\ query.at \in {"port", "id"} => query.tried
  /\ query' = [query EXCEPT !.tried = FALSE]
  /\ UNCHANGED <<udp, udplist, dhcp_pcb, ip_addr, sys_ticks>>

systick_handler ==
  /\ query.at \in {"port", "id"} => query.tried
  /\ sys_ticks' = (sys_ticks + TickMs) % PortSpan
  /\ query' = [query EXCEPT !.tried = FALSE]
  /\ UNCHANGED <<udp, udplist, dhcp_pcb, ip_addr>>

--------------------------------------------------------------------------------
(* A packet arrives.                                                       *)

\* Only UDP has ports, those a pcb may have among them; one faulty IP header,
\* and faulty data of any one host, stand for all.
Packets ==
  {x \in [dst : {"own", "other", "broadcast", "net", "any", "multicast"},
          src : {"host", "any", "net", "multicast"},
          proto : {"udp", "echo", "unknown"},
          sport : {0, Bootps, FirstPort}, dport : Drawn \cup {Bootps, Bootpc},
          bad : {"no", "ip", "data"}] :
     /\ x.proto = "udp" \/ (x.sport = 0 /\ x.dport = 0)
     /\ x.bad # "no" => x.src = "host"
     /\ x.bad = "ip" => x.dst = "own"}

\* "net" is the broadcast address of the network the interface is in, if any.
isbroadcast(a) == a \in {"broadcast", "any"} \/ (a = "net" /\ ip_addr = "own")

ip4_input_accept(x) ==
  /\ ip_addr = "own"
  /\ x.dst = "own" \/ isbroadcast(x.dst) \/ x.dst = "multicast"

\* Mutant: DHCP messages get no exception.
NoException(x) == FALSE

\* "Pass DHCP messages regardless of destination address."
LinkLayerAddressed(x) == x.proto = "udp" /\ x.dport = Bootpc

ip4_input(x) ==
  /\ x.bad # "ip"
  /\ \/ /\ ip4_input_accept(x)
        /\ x.src = "any" \/ ~(isbroadcast(x.src) \/ x.src = "multicast")
     \/ ~ip4_input_accept(x) /\ LinkLayerAddressed(x)

\* Of the pcbs with the port: the first whose remote port is the sender's, or
\* else the first that is not connected.
SamePort(x) == {p \in Linked(udplist) : udp[p].local_port = x.dport}
Perfect(x) == FirstIn(udplist, {p \in SamePort(x) : udp[p].remote_port = x.sport})
Receiver(x) ==
  IF Perfect(x) # NoUdp THEN Perfect(x)
  ELSE FirstIn(udplist, {p \in SamePort(x) : ~udp[p].connected})

\* The pcb whose recv callback gets the packet.
Delivered(x) ==
  IF ip4_input(x) /\ x.proto = "udp" /\ x.bad = "no" THEN Receiver(x) ELSE NoUdp

\* icmp_input answers an echo request; udp_input and ip4_input answer that the
\* port or the protocol cannot be reached.
Answered(x) ==
  /\ ip4_input(x) /\ ~isbroadcast(x.dst) /\ x.dst # "multicast"
  /\ x.bad = "no" \/ x.proto = "unknown"
  /\ x.proto = "udp" => Receiver(x) = NoUdp /\ x.dst = ip_addr

\* udp_input finds the pcb before it looks at the checksum.  dns_recv may find
\* its query answered, and then closes the pcb that it was called for.
udp_input(x) ==
  /\ query.at = "idle" /\ ip4_input(x) /\ x.proto = "udp"
  /\ LET l == IF Perfect(x) = NoUdp THEN udplist ELSE ToFront(udplist, Perfect(x))
         p == Delivered(x)
     IN  \/ udplist' = l /\ UNCHANGED udp
         \/ /\ p \notin {NoUdp, dhcp_pcb}
            /\ udplist' = Unlink(l, p) /\ udp' = [udp EXCEPT ![p] = NewUdp]
  /\ UNCHANGED <<dhcp_pcb, ip_addr, sys_ticks, query>>

UdpNext ==
  \/ \E p \in UdpPool : dhcp_start(p) \/ dns_enqueue(p) \/ udp_remove(p)
  \/ netif_set_addr \/ dns_alloc_random_port \/ dns_create_txid \/ systick_handler
  \/ \E x \in Packets : udp_input(x)

UdpSpec ==
  /\ UdpInit /\ [][UdpNext]_udpVars
  /\ WF_udpVars(dns_alloc_random_port) /\ WF_udpVars(dns_create_txid)
  /\ WF_udpVars(systick_handler)

--------------------------------------------------------------------------------
UdpTypeOK ==
  /\ udp \in [UdpPool -> [used : BOOLEAN, local_port : Port, remote_port : {0, Bootps},
                          connected : BOOLEAN, txid : Port \cup {NoId}]]
  /\ udplist \in [head : UdpPool \cup {NoUdp}, next : [UdpPool -> UdpPool \cup {NoUdp}]]
  /\ dhcp_pcb \in UdpPool \cup {NoUdp} /\ ip_addr \in {"any", "own"}
  /\ sys_ticks \in Port
  /\ query \in [at : {"boot", "idle", "port", "id"}, pcb : UdpPool \cup {NoUdp},
                tried : BOOLEAN]

\* The list of UDP pcbs ends, whatever udp_input moved to its front and in
\* whatever order dns_call_found closed them, and holds each bound pcb, none
\* that went back to the pool among them.  No two have the same port, no two
\* queries the same id.
UdpSound ==
  /\ UdpTypeOK
  /\ Hop(udplist)[Cardinality(UdpPool)] = NoUdp
  /\ Linked(udplist) = {p \in UdpPool : udp[p].local_port # 0}
  /\ \A p \in Linked(udplist) : udp[p].used
  /\ \A p, q \in Linked(udplist) :
       \/ p = q
       \/ /\ udp[p].local_port # udp[q].local_port
          /\ udp[p].txid = udp[q].txid => udp[p].txid = NoId

\* The pcbs that are meant by a packet: bound to its port and, if connected,
\* connected to the port it comes from.
Owners(x) == {p \in UdpPool : /\ udp[p].local_port = x.dport /\ x.dport # 0
                              /\ udp[p].connected => udp[p].remote_port = x.sport}

\* A datagram that reaches a pcb reaches the one it is meant for, and a sound
\* one of a host does reach it, also an answer of the DHCP server while the
\* interface has no address to be reached at (ip4_input).  Nothing is answered
\* by ICMP that was not sent to the address of the interface alone.
DatagramsReachOwner ==
  \A x \in Packets :
    /\ Delivered(x) # NoUdp => Owners(x) = {Delivered(x)}
    /\ /\ x.proto = "udp" /\ x.bad = "no" /\ x.src = "host"
       /\ x.dst \in {"own", "broadcast"} /\ (ip_addr = "own" \/ x.dport = Bootpc)
       /\ Owners(x) # {}
       => Delivered(x) \in Owners(x)
    /\ Answered(x) => ip_addr = "own" /\ x.dst = "own"

\* dns_enqueue always finds a port and an id, although between two ticks every
\* round of its loops draws the same number.
QueryGoesOut == query.at \in {"port", "id"} ~> query.at = "idle"
================================================================================
