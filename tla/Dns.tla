--------------------------------- MODULE Dns ---------------------------------
(***************************************************************************)
(* The DNS client of lwIP as ZanOS builds it (dns.c; lwipopts.h keeps the  *)
(* defaults: no local host list, no mDNS, LWIP_DNS_SECURE with random      *)
(* transaction ids, one outstanding query per name and a source port for   *)
(* each query).  Everything runs in the main program: the shell calls      *)
(* dns_gethostbyname, lwip_poll runs dns_tmr once a second and hands       *)
(* received datagrams to dns_recv, and DHCP sets the servers.              *)
(*                                                                         *)
(* An address is represented by the name it was given for, so that an      *)
(* answer that reaches the wrong caller is seen.  The network may lose,    *)
(* delay, duplicate and reorder: any datagram may arrive at any time.      *)
(***************************************************************************)
EXTENDS Integers, FiniteSets, FiniteSetsExt

CONSTANTS
    Names, Callbacks, Null,
    Servers,      \* addresses of DNS servers
    NoServer,     \* 0.0.0.0
    TxIds,        \* transaction ids
    TableSize,    \* DNS_TABLE_SIZE, also DNS_MAX_REQUESTS and DNS_MAX_SOURCE_PORTS
    MaxRetries,   \* DNS_MAX_RETRIES
    TTLs,         \* times to live that servers answer
    SeqMod        \* range of the u8_t dns_seqno

ASSUME SizeAssumption ==
    /\ TableSize \in Nat \ {0}
    /\ MaxRetries \in Nat \ {0} /\ SeqMod \in Nat \ {0}
    /\ TTLs \subseteq Nat
ASSUME NullAssumption == Null \notin Names \cup Callbacks /\ NoServer \notin Servers

VARIABLES
    table,     \* dns_table
    requests,  \* dns_requests
    servers,   \* dns_servers
    pcbs,      \* the indices of dns_pcbs that are not NULL
    lastPcb,   \* dns_last_pcb_idx
    seqno,     \* dns_seqno
    tmrIdx,    \* the loop variable of dns_check_entries, TableSize outside it
    out        \* what the last step returned to or called in the application

vars == <<table, requests, servers, pcbs, lastPcb, seqno, tmrIdx, out>>

Idx == 0..(TableSize - 1)
NoPcb == TableSize

\* An entry.  Only what the code reads again is kept: an UNUSED entry keeps
\* nothing, and a DONE one its name, its address, its age and its time to live.
Entry == [state : {"UNUSED", "ASKING", "DONE"}, name : Names \cup {Null},
          ip : Names \cup {Null}, txid : TxIds \cup {Null}, server : {0, 1},
          tmr : 0..MaxRetries, retries : 0..MaxRetries, seqno : 0..(SeqMod - 1),
          pcb : 0..TableSize, ttl : Nat]

Flushed == [state |-> "UNUSED", name |-> Null, ip |-> Null, txid |-> Null,
            server |-> 0, tmr |-> 0, retries |-> 0, seqno |-> 0,
            pcb |-> NoPcb, ttl |-> 0]
Completed(e, ip, ttl) == [Flushed EXCEPT !.state = "DONE", !.name = e.name, !.ip = ip,
                                         !.seqno = e.seqno, !.ttl = ttl]

Init ==
    /\ table = [i \in Idx |-> Flushed]
    /\ requests = [r \in Idx |-> [found |-> Null, idx |-> 0]]
    /\ servers = [s \in {0, 1} |-> NoServer]
    /\ pcbs = {} /\ lastPcb = 0 /\ seqno = 0
    /\ tmrIdx = TableSize
    /\ out = [kind |-> "nothing"]

Nothing == [kind |-> "nothing"]
Returned(cb, n, err, ans) ==
    [kind |-> "returned", cb |-> cb, name |-> n, err |-> err, ans |-> ans]

Asking == {i \in Idx : table[i].state = "ASKING"}
Done == {i \in Idx : table[i].state = "DONE"}
Unused == {i \in Idx : table[i].state = "UNUSED"}
FreeRequests == {r \in Idx : requests[r].found = Null}

------------------------------------------------------------------------------
(* dns_call_found: call every callback that waits for entry i, flush the    *)
(* requests, and close the pcb of the entry unless another query uses it.   *)
(* t, q and p are the tables and the pcbs at the time of the call; the      *)
(* caller then gives the entry its final state.                             *)

WaitingFor(q, i) == {r \in Idx : q[r].found # Null /\ q[r].idx = i}

\* Mutant: the pcb is closed although another query uses it.
PcbNotShared(t, i) == FALSE

PcbShared(t, i) == \E j \in Idx \ {i} : t[j].state = "ASKING" /\ t[j].pcb = t[i].pcb

dns_call_found(t, q, p, i, ans, final) ==
    /\ requests' = [r \in Idx |-> IF r \in WaitingFor(q, i)
                                  THEN [found |-> Null, idx |-> 0] ELSE q[r]]
    /\ pcbs' = IF PcbShared(t, i) THEN p ELSE p \ {t[i].pcb}
    /\ table' = [t EXCEPT ![i] = final]
    /\ out' = [kind |-> "found", name |-> t[i].name, ans |-> ans,
               to |-> [cb \in Callbacks |->
                         Cardinality({r \in WaitingFor(q, i) : q[r].found = cb})]]

\* dns_send: the query goes out, or fails to for want of memory, which changes
\* nothing here; without a server the query ends.
dns_send(t, q, p, i, o) ==
    IF servers[t[i].server] = NoServer
    THEN dns_call_found(t, q, p, i, Null, Flushed)
    ELSE table' = t /\ requests' = q /\ pcbs' = p /\ out' = o

dns_backupserver_available(e) == e.server + 1 < 2 /\ servers[e.server + 1] # NoServer

------------------------------------------------------------------------------
(* dns_check_entry on an entry that is ASKING, with its timer about to run  *)
(* out: e is the entry with the retry counted.                              *)

\* The timer for the next retry.
BackOff(retries) == retries

NextServer(k) == k + 1

Retry(t, i) ==
    LET e == [t[i] EXCEPT !.retries = @ + 1] IN
    IF e.retries = MaxRetries
    THEN IF dns_backupserver_available(e)
         THEN dns_send([t EXCEPT ![i] = [e EXCEPT !.server = NextServer(@), !.tmr = 1,
                                                  !.retries = 0]],
                       requests, pcbs, i, Nothing)
         ELSE dns_call_found([t EXCEPT ![i] = [e EXCEPT !.tmr = 0]], requests, pcbs, i,
                             Null, Flushed)
    ELSE dns_send([t EXCEPT ![i] = [e EXCEPT !.tmr = BackOff(e.retries)]], requests, pcbs,
                  i, Nothing)

CheckAsking(i) ==
    /\ table[i].state = "ASKING"
    /\ IF table[i].tmr = 1
       THEN Retry(table, i)
       ELSE /\ table' = [table EXCEPT ![i].tmr = @ - 1]
            /\ out' = Nothing
            /\ UNCHANGED <<requests, pcbs>>

CheckDone(i) ==
    /\ table[i].state = "DONE"
    /\ table' = [table EXCEPT ![i] = IF @.ttl <= 1 THEN Flushed ELSE [@ EXCEPT !.ttl = @ - 1]]
    /\ out' = Nothing
    /\ UNCHANGED <<requests, pcbs>>

CheckUnused(i) ==
    /\ table[i].state = "UNUSED"
    /\ out' = Nothing
    /\ UNCHANGED <<table, requests, pcbs>>

\* dns_tmr and the loop of dns_check_entries.
dns_tmr ==
    /\ tmrIdx = TableSize
    /\ tmrIdx' = 0 /\ out' = Nothing
    /\ UNCHANGED <<table, requests, servers, pcbs, lastPcb, seqno>>

dns_check_entry ==
    /\ tmrIdx < TableSize
    /\ CheckAsking(tmrIdx) \/ CheckDone(tmrIdx) \/ CheckUnused(tmrIdx)
    /\ tmrIdx' = tmrIdx + 1
    /\ UNCHANGED <<servers, lastPcb, seqno>>

------------------------------------------------------------------------------
(* dns_recv: a datagram with transaction id x arrives from server s on one  *)
(* of the open ports (the code does not ask which); its question is n, and  *)
(* r is ServerError, NoRecord (no A record), or the time to live of the     *)
(* first A record.  Anything malformed is ignored, like a datagram that     *)
(* fails one of the comparisons.                                            *)

ServerError == -1
NoRecord == -2
Results == TTLs \cup {ServerError, NoRecord}

Expected(i, n, s) == s = servers[table[i].server] /\ n = table[i].name

Answered(i, n, r) ==
    \/ /\ r \in TTLs
       /\ dns_call_found(table, requests, pcbs, i, n,
                         IF r = 0 THEN Flushed ELSE Completed(table[i], n, r))
    \/ /\ r = ServerError /\ dns_backupserver_available(table[i])
       /\ Retry([table EXCEPT ![i].retries = MaxRetries - 1, ![i].tmr = 1], i)
    \/ /\ r = NoRecord \/ (r = ServerError /\ ~dns_backupserver_available(table[i]))
       /\ dns_call_found(table, requests, pcbs, i, Null, Flushed)

dns_recv(x, n, s, r) ==
    /\ tmrIdx = TableSize /\ pcbs # {}
    /\ LET match == {i \in Asking : table[i].txid = x} IN
       IF match # {} /\ Expected(Min(match), n, s)
       THEN Answered(Min(match), n, r)
       ELSE out' = Nothing /\ UNCHANGED <<table, requests, pcbs>>
    /\ UNCHANGED <<servers, lastPcb, seqno, tmrIdx>>

------------------------------------------------------------------------------
(* dns_gethostbyname.  Literal addresses, empty names and names that are    *)
(* too long are answered before any of this state is looked at.             *)

\* dns_alloc_pcb: a new pcb in the first free place, or, when none can be had,
\* the next one in use after the last one given.  The pool of UDP pcbs is
\* shared with other users: whether it has one left (free) may change.
FirstInUse == CHOOSE k \in pcbs :
    \A j \in pcbs : (k - lastPcb - 1) % TableSize <= (j - lastPcb - 1) % TableSize
dns_alloc_pcb(free) ==
    IF pcbs # Idx /\ free THEN Min(Idx \ pcbs)
    ELSE IF pcbs = {} THEN NoPcb ELSE FirstInUse

\* The place for a new entry: an unused one, or the oldest completed one.
Age(i) == (seqno - table[i].seqno) % SeqMod
\* Mutant: the state of the entry is not looked at.
OldestAny == {i \in Idx : Age(i) > 0 /\ \A j \in Idx : Age(j) <= Age(i)}
Oldest == {i \in Done : Age(i) > 0 /\ \A j \in Done : Age(j) <= Age(i)}
Slots == IF Unused # {} THEN Unused ELSE Oldest

\* The cases of dns_enqueue: join a query for the same name, start a query,
\* find a table full, or find no pcb (after the entry was taken).
Duplicates(n) == {i \in Asking : table[i].name = n}

Join(cb, n) ==
    /\ Duplicates(n) # {} /\ FreeRequests # {}
    /\ requests' = [requests EXCEPT ![Min(FreeRequests)] =
                                        [found |-> cb, idx |-> Min(Duplicates(n))]]
    /\ out' = Returned(cb, n, "INPROGRESS", Null)
    /\ UNCHANGED <<table, pcbs, lastPcb, seqno>>

TableFull(cb, n) ==
    /\ FreeRequests = {} \/ Slots = {}
    /\ out' = Returned(cb, n, "MEM", Null)
    /\ UNCHANGED <<table, requests, pcbs, lastPcb, seqno>>

NoPort(cb, n) ==
    /\ FreeRequests # {} /\ Slots # {} /\ dns_alloc_pcb(FALSE) = NoPcb
    /\ table' = [table EXCEPT ![Min(Slots)] = Flushed]
    /\ out' = Returned(cb, n, "MEM", Null)
    /\ UNCHANGED <<requests, pcbs, lastPcb, seqno>>

NewEntry(n, x, p) == [Flushed EXCEPT !.state = "ASKING", !.name = n, !.txid = x, !.tmr = 1,
                                     !.seqno = seqno, !.pcb = p]

Query(cb, n) ==
    /\ FreeRequests # {} /\ Slots # {}
    /\ \E x \in TxIds \ {table[i].txid : i \in Asking}, free \in BOOLEAN :
         LET i == Min(Slots)
             p == dns_alloc_pcb(free)
         IN  /\ p # NoPcb
             /\ dns_send([table EXCEPT ![i] = NewEntry(n, x, p)],
                         [requests EXCEPT ![Min(FreeRequests)] = [found |-> cb, idx |-> i]],
                         pcbs \cup {p}, i, Returned(cb, n, "INPROGRESS", Null))
             /\ lastPcb' = p
    /\ seqno' = (seqno + 1) % SeqMod

\* TableFull is also the end of a duplicate for which no request is free.
dns_enqueue(cb, n) ==
    \/ Join(cb, n)
    \/ Duplicates(n) # {} /\ FreeRequests = {} /\ TableFull(cb, n)
    \/ Duplicates(n) = {} /\ (TableFull(cb, n) \/ NoPort(cb, n) \/ Query(cb, n))

\* "prevent calling found callback if no server is set, return error instead".
ServerMissing == servers[0] = NoServer

dns_lookup(n) == {i \in Done : table[i].name = n}

dns_gethostbyname(cb, n) ==
    /\ tmrIdx = TableSize
    /\ \/ /\ dns_lookup(n) # {}
          /\ out' = Returned(cb, n, "OK", table[Min(dns_lookup(n))].ip)
          /\ UNCHANGED <<table, requests, pcbs, lastPcb, seqno>>
       \/ /\ dns_lookup(n) = {} /\ ServerMissing
          /\ out' = Returned(cb, n, "VAL", Null)
          /\ UNCHANGED <<table, requests, pcbs, lastPcb, seqno>>
       \/ /\ dns_lookup(n) = {} /\ ~ServerMissing
          /\ dns_enqueue(cb, n)
    /\ UNCHANGED <<servers, tmrIdx>>

\* dns_setserver, called by DHCP for the options of an acknowledgement.
dns_setserver(k, s) ==
    /\ tmrIdx = TableSize
    /\ servers' = [servers EXCEPT ![k] = s]
    /\ out' = Nothing
    /\ UNCHANGED <<table, requests, pcbs, lastPcb, seqno, tmrIdx>>

------------------------------------------------------------------------------
Timer == dns_tmr \/ dns_check_entry

Next ==
    \/ Timer
    \/ \E cb \in Callbacks, n \in Names : dns_gethostbyname(cb, n)
    \/ \E x \in TxIds, n \in Names, s \in Servers, r \in Results : dns_recv(x, n, s, r)
    \/ \E k \in {0, 1}, s \in Servers \cup {NoServer} : dns_setserver(k, s)

Spec == Init /\ [][Next]_vars

\* lwip_poll runs for ever and runs dns_tmr whenever a second has passed.
FairSpec == Spec /\ WF_vars(dns_tmr) /\ WF_vars(dns_check_entry)

------------------------------------------------------------------------------
TypeOK ==
    /\ table \in [Idx -> Entry]
    /\ requests \in [Idx -> [found : Callbacks \cup {Null}, idx : Idx]]
    /\ servers \in [{0, 1} -> Servers \cup {NoServer}]
    /\ pcbs \subseteq Idx /\ lastPcb \in Idx
    /\ seqno \in 0..(SeqMod - 1)
    /\ tmrIdx \in 0..TableSize

\* The UDP pcbs that are open are exactly those of the queries under way:
\* dns_call_found leaks none and closes none that another query shares.
PcbsExact == pcbs = {table[i].pcb : i \in Asking}

\* No two queries under way have the same transaction id, and no name has two
\* entries, so a response can match one entry only and the cache cannot answer
\* for a name that is also being asked (dns_create_txid, dns_enqueue).
EntriesDistinct ==
    \A i, j \in Idx : i # j =>
        /\ {i, j} \subseteq Asking => table[i].txid # table[j].txid
        /\ {i, j} \subseteq Asking \cup Done => table[i].name # table[j].name

\* Every request that waits, waits for a query under way, and every query has
\* a request: no callback is orphaned when entries are flushed and reused.
RequestsServed ==
    /\ \A r \in Idx : requests[r].found # Null => requests[r].idx \in Asking
    /\ \A i \in Asking : WaitingFor(requests, i) # {}

\* The two tables and the open pcbs belong together through every join, reuse,
\* flush and answer: pcbs, entries and requests as said above.
QueriesSound == TypeOK /\ PcbsExact /\ EntriesDistinct /\ RequestsServed

\* The client implements the resolver it promises: each accepted request is
\* called back exactly once, never from within the call that made it, with an
\* answer for its own name.
waiting == [q \in Callbacks \X Names |->
    Cardinality({r \in Idx : requests[r].found = q[1] /\ table[requests[r].idx].name = q[2]})]
Promise == INSTANCE Resolver WITH MaxRequests <- TableSize
ResolverImplemented == Promise!Spec

==============================================================================
