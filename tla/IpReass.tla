------------------------------- MODULE IpReass -------------------------------
(***************************************************************************)
(* Reassembly of IP fragments (ip4_reass and ip_reass_tmr of               *)
(* src/src/lwip/core/ipv4/ip4_frag.c).  Fragments arrive in any order,     *)
(* more than once, or not at all, and a datagram may have been cut in more *)
(* than one way.  A fragment is the part start .. end - 1 of its datagram; *)
(* the one that ends the datagram has MF = 0.  No identification is used   *)
(* for a second datagram while fragments of the first are about.           *)
(***************************************************************************)
EXTENDS Naturals, Sequences, FiniteSets, SequencesExt

CONSTANTS
  Ids,         \* source, destination and identification of datagrams
  DatagramLen, \* the length of every datagram
  MaxPbufs,    \* IP_REASS_MAX_PBUFS
  NumReass,    \* MEMP_NUM_REASSDATA
  ReassMaxAge, \* IP_REASS_MAXAGE
  NoDatagram   \* ip4_reass returned NULL

ASSUME ReassAssumption ==
  /\ {DatagramLen, MaxPbufs, NumReass} \subseteq Nat \ {0}
  /\ ReassMaxAge \in Nat

VARIABLES
  reassdatagrams,      \* the list of datagrams being put together
  ip_reass_pbufcount,  \* the pbufs queued in all of them
  reassembled          \* what the last call returned

reassVars == <<reassdatagrams, ip_reass_pbufcount, reassembled>>

\* What a network may deliver: any proper part of a datagram, in as many pbufs
\* as it is long.
Fragments == {f \in [start : 0 .. DatagramLen - 1, end : 1 .. DatagramLen] :
                f.start < f.end /\ f.end - f.start < DatagramLen}
IsLast(f) == f.end = DatagramLen
Clen(f) == f.end - f.start

\* pbuf_clen over a list of fragments.
Pbufs(p) == FoldSeq(LAMBDA f, n : n + Clen(f), 0, p)

\* Mutant: the count is not reduced.
FreeKeepsCount(s, i) ==
  [list |-> RemoveAt(s.list, i), count |-> s.count,
   freed |-> s.freed + Pbufs(s.list[i].p)]

\* A list of datagrams and the count, after ip_reass_free_complete_datagram.
FreeDatagram(s, i) ==
  [list |-> RemoveAt(s.list, i), count |-> s.count - Pbufs(s.list[i].p),
   freed |-> s.freed + Pbufs(s.list[i].p)]

-----------------------------------------------------------------------------
\* ip_reass_remove_oldest_datagram: free other datagrams, the oldest first and
\* of equals the last in the list, until enough pbufs are free or none is left.
Others(s, id) == {i \in DOMAIN s.list : s.list[i].id # id}
OldestOther(s, id) ==
  CHOOSE i \in Others(s, id) :
    \A j \in Others(s, id) : \/ s.list[i].timer < s.list[j].timer
                             \/ s.list[i].timer = s.list[j].timer /\ i >= j
RECURSIVE RemoveOldest(_, _, _)
RemoveOldest(s, id, needed) ==
  IF Others(s, id) = {} THEN s
  ELSE LET t == FreeDatagram(s, OldestOther(s, id))
       IN IF t.freed < needed /\ Cardinality(Others(s, id)) > 1
          THEN RemoveOldest(t, id, needed) ELSE t

\* ip_reass_enqueue_new_datagram: the list with a new entry in front; the same
\* list if there is no struct for it, and freeing did not free enough pbufs.
EnqueueNew(s, id, f) ==
  LET t == IF Len(s.list) < NumReass THEN s
           ELSE RemoveOldest([s EXCEPT !.freed = 0], id, Clen(f))
      new == [id |-> id, timer |-> ReassMaxAge, p |-> << >>, lastfrag |-> FALSE,
              len |-> 0, hdr |-> f.start]
  IN IF Len(s.list) < NumReass \/ t.freed >= Clen(f)
     THEN [t EXCEPT !.list = <<new>> \o @] ELSE t

\* ip_reass_chain_frag_into_datagram_and_validate: where the fragment goes in
\* the list, and whether it is dropped because it meets one that is there.
Place(p, f) == Cardinality({i \in DOMAIN p : p[i].start <= f.start}) + 1
Overlaps(p, f) ==
  LET k == Place(p, f) IN
    \/ k > 1 /\ (p[k - 1].start = f.start \/ f.start < p[k - 1].end)
    \/ k <= Len(p) /\ f.end > p[k].start

\* No holes, from the start of the datagram on.
Contiguous(p) ==
  /\ p[1].start = 0
  /\ \A i \in 1 .. Len(p) - 1 : p[i].end = p[i + 1].start

-----------------------------------------------------------------------------
\* ip4_reass for fragment f of datagram id, in the parts it is made of.
\* First: make room if too many pbufs are queued.
Admit(id, f) ==
  LET s == [list |-> reassdatagrams, count |-> ip_reass_pbufcount, freed |-> 0]
  IN IF s.count + Clen(f) > MaxPbufs THEN RemoveOldest(s, id, Clen(f)) ELSE s
Admitted(s, f) == s.count + Clen(f) <= MaxPbufs

Has(s, id) == \E i \in DOMAIN s.list : s.list[i].id = id
IndexOf(s, id) == CHOOSE i \in DOMAIN s.list : s.list[i].id = id

\* Mutant: every fragment starts the timer again.
EnteredRestarts(s, id, f) ==
  IF ~Has(s, id) THEN EnqueueNew(s, id, f)
  ELSE LET i == IndexOf(s, id)
       IN [s EXCEPT !.list[i] = [s.list[i] EXCEPT
             !.timer = ReassMaxAge, !.hdr = IF f.start = 0 THEN 0 ELSE @]]

\* Then: find the datagram or begin one; the header of the first fragment
\* replaces that of another.
Entered(s, id, f) ==
  IF ~Has(s, id) THEN EnqueueNew(s, id, f)
  ELSE IF f.start = 0 THEN [s EXCEPT !.list[IndexOf(s, id)].hdr = 0]
  ELSE s

\* Last: put the fragment in, and return the datagram if that completes it.
Chained(s, id, f) ==
  LET i == IndexOf(s, id)
      e == s.list[i]
      p == InsertAt(e.p, Place(e.p, f), f)
      new == [e EXCEPT !.p = p, !.lastfrag = @ \/ IsLast(f),
                       !.len = IF IsLast(f) THEN f.end ELSE @]
  IN IF Overlaps(e.p, f)
     THEN [list |-> s.list, count |-> s.count, out |-> NoDatagram]
     ELSE IF new.lastfrag /\ Contiguous(p)
     THEN [list |-> RemoveAt(s.list, i),
           count |-> s.count + Clen(f) - Pbufs(p), out |-> new]
     ELSE [list |-> [s.list EXCEPT ![i] = new],
           count |-> s.count + Clen(f), out |-> NoDatagram]

Ip4Reass(id, f) ==
  LET s == Admit(id, f)
      t == Entered(s, id, f)
      r == IF Admitted(s, f) /\ Has(t, id) THEN Chained(t, id, f)
           ELSE [list |-> IF Admitted(s, f) THEN t.list ELSE s.list,
                 count |-> IF Admitted(s, f) THEN t.count ELSE s.count,
                 out |-> NoDatagram]
  IN /\ reassdatagrams' = r.list
     /\ ip_reass_pbufcount' = r.count
     /\ reassembled' = r.out

\* ip_reass_tmr: count down; free what had reached 0.
ReassTmr ==
  LET live == SelectSeq(reassdatagrams, LAMBDA e : e.timer > 0)
      dead == SelectSeq(reassdatagrams, LAMBDA e : e.timer = 0)
  IN /\ reassdatagrams # << >>
     /\ reassdatagrams' = [i \in DOMAIN live |-> [live[i] EXCEPT !.timer = @ - 1]]
     /\ ip_reass_pbufcount' =
          ip_reass_pbufcount - FoldSeq(LAMBDA e, n : n + Pbufs(e.p), 0, dead)
     /\ reassembled' = NoDatagram

ReassInit ==
  /\ reassdatagrams = << >>
  /\ ip_reass_pbufcount = 0
  /\ reassembled = NoDatagram

FragmentArrives == \E id \in Ids, f \in Fragments : Ip4Reass(id, f)

ReassNext == FragmentArrives \/ ReassTmr

\* sys_check_timeouts runs the timer.
ReassFairness == WF_reassVars(ReassTmr)

ReassSpec == ReassInit /\ [][ReassNext]_reassVars /\ ReassFairness

-----------------------------------------------------------------------------
Datagram == [id : Ids, timer : 0 .. ReassMaxAge, p : Seq(Fragments), lastfrag : BOOLEAN,
             len : {0, DatagramLen}, hdr : 0 .. DatagramLen - 1]
ReassTypeOK ==
  /\ reassdatagrams \in Seq(Datagram) /\ Len(reassdatagrams) <= NumReass
  /\ ip_reass_pbufcount \in 0 .. MaxPbufs
  /\ reassembled \in Datagram \cup {NoDatagram}

\* What ip4_reass returns is a datagram as it was sent: every byte of it once,
\* in order, with its length, under the header of its first fragment, whatever
\* came twice, in another order or cut in another way.
ReassembledWhole ==
  reassembled # NoDatagram =>
    /\ reassembled.len = DatagramLen /\ reassembled.hdr = 0
    /\ FoldLeft(LAMBDA s, f : s \o [i \in 1 .. Clen(f) |-> f.start + i - 1],
               << >>, reassembled.p) = [i \in 1 .. DatagramLen |-> i - 1]

\* The counter that limits how many pbufs reassembly may hold is the number it
\* holds, through eviction, timeout, duplicates and completion: a count that
\* drifts up would in the end refuse every fragment.  No datagram is in the
\* list twice, and none without a fragment, and what leaves it is whole.
ReassSound ==
  /\ ReassTypeOK
  /\ ReassembledWhole
  /\ ip_reass_pbufcount =
       FoldSeq(LAMBDA e, n : n + Pbufs(e.p), 0, reassdatagrams)
  /\ \A i, j \in DOMAIN reassdatagrams :
       /\ reassdatagrams[i].id = reassdatagrams[j].id => i = j
       /\ reassdatagrams[i].p # << >>

\* Pbufs are not kept for ever for a datagram that never completes, even if
\* its fragments keep coming.
ReassEnds ==
  \A id \in Ids :
    (\E i \in DOMAIN reassdatagrams : reassdatagrams[i].id = id)
      ~> ~(\E i \in DOMAIN reassdatagrams : reassdatagrams[i].id = id)

=============================================================================
