-------------------------------- MODULE Stack --------------------------------
(***************************************************************************)
(* The parts of the network stack that serve the interface, next to each   *)
(* other: the DHCP client, ARP, the heap, the packet buffers, IP           *)
(* reassembly, IP and UDP input, checksums, the two halves of a TCP        *)
(* connection and the HTTP client with the pcbs it opens.  Their modules   *)
(* share no variable, so a behaviour moves one of them, `part', and the    *)
(* others rest as they started.                                            *)
(***************************************************************************)
EXTENDS MCDhcp, Arp, Mem, Pbuf, IpReass, Udp, Chksum, TcpReceive, TcpSend

CONSTANTS Names, Callbacks, Null, ClientRequests, ClientPcbs   \* of the HTTP client

VARIABLES
  part,                                      \* the part that moves
  waiting, out, clientPcbs, httpPcb, busy    \* the HTTP client

Client == INSTANCE HttpClient WITH MaxRequests <- ClientRequests,
                                   Pcbs <- ClientPcbs, pcbs <- clientPcbs

Parts ==
  {"dhcp", "arp", "mem", "pbuf", "reass", "udp", "chksum", "receive", "send", "http"}

httpVars == <<waiting, out, clientPcbs, httpPcb, busy>>
stackVars == <<part, dhcpVars, arpVars, memVars, pbufVars,
               reassVars, udpVars, chksumVars, tcpVars, sendVars, httpVars>>

\* Where a part that rests may start in several ways, it starts in one.
StackInit ==
  /\ part \in Parts
  /\ DhcpInit /\ ArpInit /\ MemInit /\ PbufInit /\ ReassInit
  /\ UdpInit /\ ChksumInit /\ TcpReceiveInit /\ TcpSendInit /\ Client!Init
  /\ part # "send" => \A w \in FirstWnds : w <= snd.snd_wnd
  /\ part # "chksum" => ~chain[1].odd /\ chain[1].bytes[1] = 0

\* All parts but p, and the choice of the part, stay as they are.
Rest(p) ==
  /\ UNCHANGED part
  /\ p # "dhcp" => UNCHANGED dhcpVars
  /\ p # "arp" => UNCHANGED arpVars
  /\ p # "mem" => UNCHANGED memVars
  /\ p # "pbuf" => UNCHANGED pbufVars
  /\ p # "reass" => UNCHANGED reassVars
  /\ p # "udp" => UNCHANGED udpVars
  /\ p # "chksum" => UNCHANGED chksumVars
  /\ p # "receive" => UNCHANGED tcpVars
  /\ p # "send" => UNCHANGED sendVars
  /\ p # "http" => UNCHANGED httpVars

StackNext ==
  \/ part = "dhcp" /\ DhcpNext /\ Rest("dhcp")
  \/ part = "arp" /\ ArpNext /\ Rest("arp")
  \/ part = "mem" /\ MemNext /\ Rest("mem")
  \/ part = "pbuf" /\ PbufNext /\ Rest("pbuf")
  \/ part = "reass" /\ ReassNext /\ Rest("reass")
  \/ part = "udp" /\ UdpNext /\ Rest("udp")
  \/ part = "chksum" /\ ChksumNext /\ Rest("chksum")
  \/ part = "receive" /\ TcpReceiveNext /\ Rest("receive")
  \/ part = "send" /\ TcpSendNext /\ Rest("send")
  \/ part = "http" /\ Client!Next /\ Rest("http")

\* The fairness of each part, while it is the one that moves.
On(p, A) == part = p /\ A
StackFairness ==
  /\ <>[]On("dhcp", FineTimerDue) => []<><<On("dhcp", AnyFineTimer)>>_dhcpVars
  /\ <>[]On("dhcp", CoarseTimerDue) => []<><<On("dhcp", AnyCoarseTimer)>>_dhcpVars
  /\ <>[]On("dhcp", AcdTimerDue) => []<><<On("dhcp", AcdTimer)>>_dhcpVars
  /\ <>[]On("dhcp", OfferDue) => []<><<On("dhcp", Offered)>>_dhcpVars
  /\ []<>On("dhcp", AckDue) => []<><<On("dhcp", Acked)>>_dhcpVars
  /\ WF_arpVars(On("arp", Tmr))
  /\ WF_reassVars(On("reass", ReassTmr))
  /\ WF_udpVars(On("udp", dns_alloc_random_port))
  /\ WF_udpVars(On("udp", dns_create_txid))
  /\ WF_udpVars(On("udp", systick_handler))
  /\ <>[]On("receive", ExpectedMaySend) => []<><<On("receive", ArriveExpected)>>_tcpVars
  /\ WF_tcpVars(On("receive", TcpFastTmr))
  /\ <>[]On("send", SlowTmrPending) => []<><<On("send", SlowTmr)>>_sendVars

StackSpec == StackInit /\ [][StackNext]_stackVars /\ StackFairness

-----------------------------------------------------------------------------
(* What the parts promise while they move.                                 *)

\* A DHCP client that selects among offers is bound some time, whatever NAKs,
\* conflicts and failed allocations came before (dhcp_timeout, dhcp_recv).
LeaseObtained == part = "dhcp" => GetsBound

\* While UDP pcbs come and go, a datagram reaches the pcb it is meant for and
\* ICMP answers nothing that was not sent to the interface (ip4_input,
\* udp_input); at rest there is no pcb.
DatagramsServed == part = "udp" => DatagramsReachOwner

\* Messages are summed up and sent with the right checksum, echo replies too,
\* however they lie in pbufs (inet_chksum.c, icmp_input).
MessagesChecked == part = "chksum" => ChecksumsRight



\* The HTTP client is busy exactly while one thing is bound to make it idle,
\* and http_pcb is the one live pcb that calls it, while closing connections
\* fill the pool (http_close_conn, http_err_cb, tcp_alloc).
ClientSound == Client!TypeOK /\ Client!BusyMeansPending /\ Client!CallbacksOwned
==============================================================================
