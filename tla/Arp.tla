--------------------------------- MODULE Arp ---------------------------------
(***************************************************************************)
(* The ARP table of lwIP (src/src/lwip/core/ipv4/etharp.c) as ZanOS builds *)
(* it: one interface, no static entries, one queued packet per entry       *)
(* (ARP_QUEUEING 0).  Every function runs to its end in the main loop.     *)
(*                                                                         *)
(* A packet is a pbuf; refs counts the references that the table holds to  *)
(* it.  Transmission is the end of a packet here: wire is the frame that   *)
(* the last step sent, as the pair of the address it was for and the       *)
(* hardware address it went to, or nothing.                                *)
(*                                                                         *)
(* The fields of an EMPTY entry are never read, and are blank here.        *)
(***************************************************************************)
EXTENDS Naturals, FiniteSets

CONSTANTS
  Ip,            \* unicast addresses on the local network
  Mac,           \* hardware addresses
  Packet,        \* outgoing packets
  Nil,           \* NULL
  TableSize,     \* ARP_TABLE_SIZE
  ArpMaxAge,     \* ARP_MAXAGE
  UnicastAge,    \* ARP_AGE_REREQUEST_USED_UNICAST; later requests broadcast
  MaxPending     \* ARP_MAXPENDING

ASSUME ArpAssumption ==
  /\ Nil \notin Ip \cup Mac \cup Packet
  /\ {TableSize, MaxPending, UnicastAge, ArpMaxAge} \subseteq Nat \ {0}
  /\ UnicastAge < ArpMaxAge /\ MaxPending <= ArpMaxAge

VARIABLES
  arp_table,  \* the entries
  cached,     \* etharp_cached_entry
  refs,       \* references from the table to each packet
  wire,       \* the IP frame sent by the last step, if any
  claimed     \* the hardware address each host last claimed to have

arpVars == <<arp_table, cached, refs, wire, claimed>>

ArpIndex == 1 .. TableSize
Stable == {"STABLE", "REREQUESTING_1", "REREQUESTING_2"}
Empty == [state |-> "EMPTY", ip |-> Nil, mac |-> Nil, ctime |-> 0, q |-> Nil]

\* One reference to q less (pbuf_free), if there is a packet at all.
Unref(r, q) == IF q = Nil THEN r ELSE [r EXCEPT ![q] = @ - 1]

\* etharp_free_entry.
FreeEntry(t, i) == [t EXCEPT ![i] = Empty]

\* The entry that holds an address, in any state but EMPTY.
Matching(x) == {i \in ArpIndex : arp_table[i].state # "EMPTY" /\ arp_table[i].ip = x}

\* Of a set of entries the oldest, and of these the last in the table: the
\* sweep replaces its candidate by an entry at least as old.
Oldest(S) ==
  CHOOSE i \in S : \A j \in S :
    \/ arp_table[j].ctime < arp_table[i].ctime
    \/ arp_table[j].ctime = arp_table[i].ctime /\ j <= i

First(S) == CHOOSE i \in S : \A j \in S : i <= j

\* The entry etharp_find_entry recycles: the first empty one, else the oldest
\* stable one, else the oldest pending one, those without a packet first.
Victim ==
  LET empty == {i \in ArpIndex : arp_table[i].state = "EMPTY"}
      stable == {i \in ArpIndex : arp_table[i].state \in Stable}
      idle == {i \in ArpIndex : arp_table[i].state = "PENDING" /\ arp_table[i].q = Nil}
  IN IF empty # {} THEN First(empty)
     ELSE IF stable # {} THEN Oldest(stable)
     ELSE IF idle # {} THEN Oldest(idle)
     ELSE Oldest(ArpIndex)

\* etharp_find_entry with ETHARP_FLAG_TRY_HARD: the entry for x and the table
\* and references once a new one was made for it.
FindEntry(x) ==
  LET v == Victim
  IN IF Matching(x) # {}
     THEN [i |-> First(Matching(x)), table |-> arp_table, refs |-> refs]
     ELSE [i |-> v, refs |-> Unref(refs, arp_table[v].q),
           table |-> [FreeEntry(arp_table, v) EXCEPT ![v].ip = x]]

\* etharp_update_arp_entry on the entry that was found: it is stable now, and
\* the packet queued on it goes out.
UpdateEntry(f, x, m) ==
  LET q == f.table[f.i].q
  IN /\ arp_table' = [f.table EXCEPT
          ![f.i] = [state |-> "STABLE", ip |-> x, mac |-> m, ctime |-> 0, q |-> Nil]]
     /\ refs' = Unref(f.refs, q)
     /\ wire' = IF q = Nil THEN <<>> ELSE <<x, m>>

\* etharp_input: a request or reply from x.  Directed to us it makes an entry,
\* otherwise it only updates one that is there.
Input(x, m, forUs) ==
  /\ claimed' = [claimed EXCEPT ![x] = m]
  /\ IF forUs \/ Matching(x) # {} THEN UpdateEntry(FindEntry(x), x, m)
     ELSE wire' = <<>> /\ UNCHANGED <<arp_table, refs>>
  /\ UNCHANGED cached

\* etharp_output_to_arp_index: an entry that is about to expire is asked for
\* again, unless the request cannot be allocated (ok false).  The packet to x
\* goes to the hardware address of entry i.
OutputToIndex(i, x, ok) ==
  /\ arp_table' = [arp_table EXCEPT ![i].state =
       IF @ = "STABLE" /\ arp_table[i].ctime >= UnicastAge /\ ok
       THEN "REREQUESTING_1" ELSE @]
  /\ wire' = <<x, arp_table[i].mac>>
  /\ UNCHANGED <<refs, claimed>>

\* Mutant: the packet that hung on the entry is not freed.
QueryKeepsOld(x, p, taken) ==
  LET f == FindEntry(x)
  IN /\ arp_table' = [f.table EXCEPT ![f.i].state = "PENDING",
                                     ![f.i].q = IF taken THEN p ELSE @]
     /\ refs' = IF taken THEN [refs EXCEPT ![p] = @ + 1] ELSE refs
     /\ wire' = <<>>
     /\ UNCHANGED <<cached, claimed>>

\* etharp_query for an address without a stable entry: make the entry pending
\* and hang the packet on it, in place of one that hangs there.  The packet is
\* dropped if it had to be copied and could not be (taken false).
Query(x, p, taken) ==
  LET f == FindEntry(x)
      old == f.table[f.i].q
  IN /\ arp_table' = [f.table EXCEPT ![f.i].state = "PENDING",
                                     ![f.i].q = IF taken THEN p ELSE @]
     /\ refs' = IF taken THEN [Unref(f.refs, old) EXCEPT ![p] = @ + 1] ELSE f.refs
     /\ wire' = <<>>
     /\ UNCHANGED <<cached, claimed>>

\* Mutant: the cached entry is used without a look at its address.
CachedAny(x) == arp_table[cached].state \in Stable

\* etharp_output for a packet to a unicast address: the cached entry, any
\* stable entry, or a query.
HitCached(x) ==
  arp_table[cached].state \in Stable /\ arp_table[cached].ip = x
StableFor(x) == {i \in Matching(x) : arp_table[i].state \in Stable}

EtharpOutput(x, p, ok) ==
  /\ refs[p] = 0
  /\ \/ /\ HitCached(x)
        /\ OutputToIndex(cached, x, ok)
        /\ UNCHANGED cached
     \/ /\ ~HitCached(x) /\ StableFor(x) # {}
        /\ cached' = First(StableFor(x))
        /\ OutputToIndex(First(StableFor(x)), x, ok)
     \/ /\ ~HitCached(x) /\ StableFor(x) = {}
        /\ Query(x, p, ok)

\* What etharp_tmr makes of one entry: one second older, it expires, or its
\* request is due again.
ArpExpired(e) ==
  \/ e.ctime + 1 >= ArpMaxAge
  \/ e.state = "PENDING" /\ e.ctime + 1 >= MaxPending
\* Mutant: a pending entry does not age.
AgedStable(e) ==
  IF e.state \in {"EMPTY", "PENDING"} THEN e
  ELSE IF ArpExpired(e) THEN Empty
  ELSE [e EXCEPT !.ctime = @ + 1]

Aged(e) ==
  IF e.state = "EMPTY" THEN e
  ELSE IF ArpExpired(e) THEN Empty
  ELSE [e EXCEPT !.ctime = @ + 1,
                 !.state = CASE @ = "REREQUESTING_1" -> "REREQUESTING_2"
                             [] @ = "REREQUESTING_2" -> "STABLE"
                             [] OTHER -> @]

Tmr ==
  /\ arp_table' = [i \in ArpIndex |-> Aged(arp_table[i])]
  /\ refs' = [p \in Packet |->
       refs[p] - Cardinality({i \in ArpIndex : /\ arp_table[i].q = p
                                            /\ arp_table'[i].state = "EMPTY"})]
  /\ wire' = <<>>
  /\ UNCHANGED <<cached, claimed>>

ArpInit ==
  /\ arp_table = [i \in ArpIndex |-> Empty]
  /\ cached = 1
  /\ refs = [p \in Packet |-> 0]
  /\ wire = <<>>
  /\ claimed = [x \in Ip |-> Nil]

ArpNext ==
  \/ \E x \in Ip, m \in Mac, forUs \in BOOLEAN : Input(x, m, forUs)
  \/ \E x \in Ip, p \in Packet, ok \in BOOLEAN : EtharpOutput(x, p, ok)
  \/ Tmr

\* sys_check_timeouts runs the timer.
ArpFairness == WF_arpVars(Tmr)

ArpSpec == ArpInit /\ [][ArpNext]_arpVars /\ ArpFairness

-----------------------------------------------------------------------------
ArpTypeOK ==
  /\ arp_table \in [ArpIndex -> [state : {"EMPTY", "PENDING"} \cup Stable,
                              ip : Ip \cup {Nil}, mac : Mac \cup {Nil},
                              ctime : 0 .. ArpMaxAge, q : Packet \cup {Nil}]]
  /\ cached \in ArpIndex
  /\ refs \in [Packet -> 0 .. TableSize]
  /\ wire \in {<<>>} \cup (Ip \X Mac)
  /\ claimed \in [Ip -> Mac \cup {Nil}]

\* No address has two entries, only a pending entry has a packet ("no queued
\* packets should exist on stable entries"), and the table holds exactly the
\* references it counts: no packet leaks, none is freed while it is queued.
TableSound ==
  /\ ArpTypeOK
  /\ \A x \in Ip : Cardinality(Matching(x)) <= 1
  /\ \A i \in ArpIndex : arp_table[i].q # Nil => arp_table[i].state = "PENDING"
  /\ \A p \in Packet : refs[p] = Cardinality({i \in ArpIndex : arp_table[i].q = p})

\* A packet goes only to the hardware address that its next hop was last
\* heard to have, however often entries were recycled under the cached index.
SentToOwner == wire # <<>> => wire[2] = claimed[wire[1]]

\* An entry waits for an answer only so long, even if packets for its address
\* keep coming: it becomes stable or is given up, and its packet with it.
PendingEnds ==
  \A p \in Packet : refs[p] > 0 ~> refs[p] = 0

=============================================================================
