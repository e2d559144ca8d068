------------------------------ MODULE ArpProofs ------------------------------
(***************************************************************************)
(* The safety of the ARP table of src/src/lwip/core/ipv4/etharp.c for      *)
(* every size of the table, every number of addresses, packets and         *)
(* hardware addresses and every setting of the timers: however entries are *)
(* recycled, no packet leaks and none goes to a stale hardware address.    *)
(***************************************************************************)
EXTENDS Arp, LeastNatural, TLAPS, FiniteSetTheorems

Entry == [state : {"EMPTY", "PENDING"} \cup Stable, ip : Ip \cup {Nil},
          mac : Mac \cup {Nil}, ctime : 0 .. ArpMaxAge, q : Packet \cup {Nil}]

(* A table and its references agree: a packet hangs on at most one entry,  *)
(* which is pending, and is referenced then.                               *)
Queues(t, r) ==
    /\ \A i \in ArpIndex : t[i].q # Nil => t[i].state = "PENDING"
    /\ \A i, j \in ArpIndex : t[i].q # Nil /\ t[i].q = t[j].q => i = j
    /\ \A p \in Packet : r[p] \in {0, 1} /\ (r[p] = 1 <=> \E i \in ArpIndex : t[i].q = p)

(* No two entries share an address.                                        *)
Unique(t) ==
    \A i, j \in ArpIndex :
        t[i].state # "EMPTY" /\ t[j].state # "EMPTY" /\ t[i].ip = t[j].ip => i = j

(* A stable entry has the address its host claimed last: etharp_input      *)
(* updates it on each claim, which needs Unique.                           *)
Heard(t, c) ==
    \A i \in ArpIndex : /\ t[i].state # "EMPTY" => t[i].ip \in Ip
                        /\ t[i].state \in Stable => t[i].mac \in Mac /\ t[i].mac = c[t[i].ip]

ArpInv ==
    /\ arp_table \in [ArpIndex -> Entry]
    /\ cached \in ArpIndex
    /\ refs \in [Packet -> Nat]
    /\ wire \in {<<>>} \cup (Ip \X Mac)
    /\ claimed \in [Ip -> Mac \cup {Nil}]
    /\ Queues(arp_table, refs)
    /\ Unique(arp_table)
    /\ Heard(arp_table, claimed)
    /\ SentToOwner

-----------------------------------------------------------------------------
\* The first of a set of entries is one of them (etharp_find_entry).
LEMMA FirstIn ==
    ASSUME NEW S \in SUBSET ArpIndex, S # {}
    PROVE  First(S) \in S
  <1>1. \E i \in S : \A j \in S : i <= j
    BY Smallest, ArpAssumption DEF ArpIndex
  <1> QED
    BY <1>1 DEF First

\* The oldest of a set of entries is one of them (etharp_find_entry).
LEMMA OldestIn ==
    ASSUME arp_table \in [ArpIndex -> Entry], NEW S \in SUBSET ArpIndex, S # {}
    PROVE  Oldest(S) \in S
  <1> DEFINE left(i) == ArpMaxAge - arp_table[i].ctime
  <1> DEFINE lefts == {left(i) : i \in S}
  <1>1. \A i \in S : left(i) \in Nat /\ arp_table[i].ctime \in Nat
    BY ArpAssumption DEF Entry
  <1>2. PICK n \in lefts : \A k \in lefts : n <= k
    <2>1. lefts \in SUBSET Nat /\ lefts # {}
      BY <1>1
    <2> QED
      BY <2>1, Smallest
  <1> DEFINE old == {i \in S : left(i) = n}
  <1> DEFINE backs == {TableSize - i : i \in old}
  <1>3. PICK b \in backs : \A k \in backs : b <= k
    <2>1. backs \in SUBSET Nat /\ backs # {}
      BY <1>2, ArpAssumption DEF ArpIndex
    <2> QED
      BY <2>1, Smallest
  <1>4. PICK i \in old : b = TableSize - i
    BY <1>3
  <1>5. \A j \in S : \/ arp_table[j].ctime < arp_table[i].ctime
                     \/ arp_table[j].ctime = arp_table[i].ctime /\ j <= i
    <2> SUFFICES ASSUME NEW j \in S
                 PROVE  \/ arp_table[j].ctime < arp_table[i].ctime
                        \/ arp_table[j].ctime = arp_table[i].ctime /\ j <= i
      OBVIOUS
    <2>1. left(i) = n /\ n <= left(j)
      BY <1>2, <1>4
    <2>2. CASE left(j) = n
      <3>1. TableSize - i <= TableSize - j
        BY <1>3, <1>4, <2>2
      <3>2. j <= i
        BY <3>1, ArpAssumption DEF ArpIndex
      <3> QED
        BY <1>1, <2>1, <2>2, <3>2, ArpAssumption
    <2> QED
      BY <1>1, <2>1, <2>2, ArpAssumption
  <1> QED
    BY <1>4, <1>5 DEF Oldest

\* Whatever entry is recycled, it is one of the table.
LEMMA VictimIn ==
    ASSUME arp_table \in [ArpIndex -> Entry]
    PROVE  Victim \in ArpIndex
  <1> DEFINE empty == {i \in ArpIndex : arp_table[i].state = "EMPTY"}
             stable == {i \in ArpIndex : arp_table[i].state \in Stable}
             idle == {i \in ArpIndex : arp_table[i].state = "PENDING" /\ arp_table[i].q = Nil}
  <1>1. empty # {} => First(empty) \in ArpIndex
    BY FirstIn
  <1>2. stable # {} => Oldest(stable) \in ArpIndex
    BY OldestIn
  <1>3. idle # {} => Oldest(idle) \in ArpIndex
    BY OldestIn
  <1>4. Oldest(ArpIndex) \in ArpIndex
    <2>1. 1 \in ArpIndex
      BY ArpAssumption DEF ArpIndex
    <2> QED
      BY <2>1, OldestIn
  <1> QED
    BY <1>1, <1>2, <1>3, <1>4 DEF Victim

(* Losing the reference of the one entry that holds a packet keeps table   *)
(* and references in agreement: entry n changes, its packet goes.          *)
LEMMA Dequeued ==
    ASSUME NEW t \in [ArpIndex -> Entry], NEW u \in [ArpIndex -> Entry],
           NEW r \in [Packet -> Nat], NEW n \in ArpIndex, Queues(t, r),
           u[n].q = Nil, \A j \in ArpIndex \ {n} : u[j] = t[j]
    PROVE  Unref(r, t[n].q) \in [Packet -> Nat] /\ Queues(u, Unref(r, t[n].q))
  <1> DEFINE p == t[n].q
             s == Unref(r, p)
  <1>1. \A k \in Packet : k # Nil
    BY ArpAssumption
  <1>2. CASE p = Nil
    <2>1. \A j \in ArpIndex : u[j].q = t[j].q /\ (u[j].q # Nil => u[j].state = t[j].state)
      BY <1>2
    <2> QED
      BY <1>2, <2>1 DEF Unref, Queues
  <1>3. CASE p # Nil
    <2>1. p \in Packet /\ r[p] = 1
      BY <1>3 DEF Entry, Queues
    <2>2. s = [r EXCEPT ![p] = 0]
      BY <1>3, <2>1 DEF Unref
    <2>3. \A j \in ArpIndex : u[j].q # Nil => j # n /\ u[j] = t[j] /\ u[j].q # p
      BY <1>3 DEF Queues
    <2>4. \A k \in Packet \ {p} :
            (\E i \in ArpIndex : u[i].q = k) <=> (\E i \in ArpIndex : t[i].q = k)
      BY <1>1, <2>3
    <2>5. ~\E i \in ArpIndex : u[i].q = p
      BY <1>3, <2>3
    <2>6. \A k \in Packet : s[k] = IF k = p THEN 0 ELSE r[k]
      BY <2>1, <2>2
    <2>7. s \in [Packet -> Nat]
      BY <2>1, <2>2
    <2>8. \A i \in ArpIndex : u[i].q # Nil => u[i].state = "PENDING"
      BY <2>3 DEF Queues
    <2>9. \A i, j \in ArpIndex : u[i].q # Nil /\ u[i].q = u[j].q => i = j
      BY <2>3 DEF Queues
    <2>10. \A k \in Packet :
             s[k] \in {0, 1} /\ (s[k] = 1 <=> \E i \in ArpIndex : u[i].q = k)
      BY <2>4, <2>5, <2>6 DEF Queues
    <2> QED
      BY <2>7, <2>8, <2>9, <2>10 DEF Queues
  <1> QED
    BY <1>2, <1>3

(* What etharp_find_entry returns for x: an entry for x, in a table that   *)
(* has no other one for x and in which the references still agree.  All    *)
(* other entries are as they were, and so is the one for x if it was there *)
(* before.                                                                 *)
LEMMA FindEntrySound ==
    ASSUME ArpInv, NEW x \in Ip
    PROVE  LET f == FindEntry(x) IN
             /\ f.i \in ArpIndex
             /\ f.table \in [ArpIndex -> Entry] /\ f.refs \in [Packet -> Nat]
             /\ f.table[f.i].ip = x
             /\ f.table[f.i] = arp_table[f.i] \/ f.table[f.i].state = "EMPTY"
             /\ \A j \in ArpIndex \ {f.i} :
                  /\ f.table[j] = arp_table[j]
                  /\ arp_table[j].state # "EMPTY" => arp_table[j].ip # x
             /\ Queues(f.table, f.refs)
  <1> DEFINE f == FindEntry(x)
  <1>1. CASE Matching(x) # {}
    <2>1. f = [i |-> First(Matching(x)), table |-> arp_table, refs |-> refs]
      BY <1>1 DEF FindEntry
    <2>2. First(Matching(x)) \in Matching(x)
      BY <1>1, FirstIn DEF Matching
    <2>3. \A j \in ArpIndex \ {First(Matching(x))} :
            arp_table[j].state # "EMPTY" => arp_table[j].ip # x
      BY <2>2 DEF Matching, ArpInv, Unique
    <2> QED
      BY <2>1, <2>2, <2>3 DEF Matching, ArpInv
  <1>2. CASE Matching(x) = {}
    <2> DEFINE v == Victim
               t == [FreeEntry(arp_table, v) EXCEPT ![v].ip = x]
               r == Unref(refs, arp_table[v].q)
    <2>1. f = [i |-> v, refs |-> r, table |-> t]
      BY <1>2 DEF FindEntry
    <2>2. v \in ArpIndex
      BY VictimIn DEF ArpInv
    <2> HIDE DEF v
    <2>3. /\ t[v] = [state |-> "EMPTY", ip |-> x, mac |-> Nil, ctime |-> 0, q |-> Nil]
          /\ \A j \in ArpIndex \ {v} : t[j] = arp_table[j]
          /\ t \in [ArpIndex -> Entry]
      BY <2>2, ArpAssumption DEF FreeEntry, Empty, ArpInv, Entry
    <2>4. \A j \in ArpIndex : arp_table[j].state # "EMPTY" => arp_table[j].ip # x
      BY <1>2 DEF Matching
    <2>5. r \in [Packet -> Nat] /\ Queues(t, r)
      <3> HIDE DEF t
      <3>1. t[v].q = Nil
        BY <2>3
      <3> QED
        BY <2>2, <2>3, <3>1, Dequeued DEF ArpInv
    <2> HIDE DEF t, r
    <2> QED
      BY <2>1, <2>2, <2>3, <2>4, <2>5
  <1> QED
    BY <1>1, <1>2

-----------------------------------------------------------------------------
\* The empty table of a netif that was just added satisfies the invariant.
LEMMA ArpInitInv == ArpInit => ArpInv
  <1> SUFFICES ASSUME ArpInit PROVE ArpInv
    OBVIOUS
  <1>1. arp_table \in [ArpIndex -> Entry]
    BY ArpAssumption DEF ArpInit, Entry, Empty
  <1>2. 1 \in ArpIndex
    BY ArpAssumption DEF ArpIndex
  <1>3. \A i \in ArpIndex : arp_table[i] = Empty
    BY DEF ArpInit
  <1>4. Queues(arp_table, refs)
    BY <1>3, ArpAssumption DEF ArpInit, Queues, Empty
  <1>5. Unique(arp_table) /\ Heard(arp_table, claimed)
    BY <1>3 DEF Unique, Heard, Empty, Stable
  <1> QED
    BY <1>1, <1>2, <1>4, <1>5 DEF ArpInit, ArpInv, SentToOwner

\* An ARP packet from x: the entry for x gets what x claims, and what hung on
\* it goes there.
LEMMA InputInv ==
    ASSUME ArpInv, NEW x \in Ip, NEW m \in Mac, NEW forUs \in BOOLEAN, Input(x, m, forUs)
    PROVE  ArpInv'
  <1>0. claimed' \in [Ip -> Mac \cup {Nil}] /\ claimed'[x] = m
        /\ \A y \in Ip \ {x} : claimed'[y] = claimed[y]
    BY DEF Input, ArpInv
  <1>1. CASE forUs \/ Matching(x) # {}
    <2> DEFINE f == FindEntry(x)
               e == [state |-> "STABLE", ip |-> x, mac |-> m, ctime |-> 0, q |-> Nil]
    <2>1. /\ f.i \in ArpIndex
          /\ f.table \in [ArpIndex -> Entry] /\ f.refs \in [Packet -> Nat]
          /\ \A j \in ArpIndex \ {f.i} :
               /\ f.table[j] = arp_table[j]
               /\ arp_table[j].state # "EMPTY" => arp_table[j].ip # x
          /\ Queues(f.table, f.refs)
      BY FindEntrySound
    <2>2. /\ arp_table' = [f.table EXCEPT ![f.i] = e]
          /\ refs' = Unref(f.refs, f.table[f.i].q)
          /\ wire' = <<>> \/ wire' = <<x, m>>
          /\ UNCHANGED cached
      BY <1>1 DEF Input, UpdateEntry
    <2> HIDE DEF f
    <2>3. e \in Entry
      BY ArpAssumption DEF Entry, Stable
    <2>4. /\ arp_table' \in [ArpIndex -> Entry]
          /\ arp_table'[f.i] = e
          /\ \A j \in ArpIndex \ {f.i} : arp_table'[j] = arp_table[j] /\ arp_table'[j] = f.table[j]
      BY <2>1, <2>2, <2>3
    <2>5. refs' \in [Packet -> Nat] /\ Queues(arp_table', refs')
      BY <2>1, <2>2, <2>4, Dequeued
    <2>6. Unique(arp_table')
      BY <2>1, <2>4 DEF Unique, ArpInv
    <2>7. Heard(arp_table', claimed')
      <3> SUFFICES ASSUME NEW j \in ArpIndex
                   PROVE  /\ arp_table'[j].state # "EMPTY" => arp_table'[j].ip \in Ip
                          /\ arp_table'[j].state \in Stable =>
                               /\ arp_table'[j].mac \in Mac
                               /\ arp_table'[j].mac = claimed'[arp_table'[j].ip]
        BY DEF Heard
      <3>1. CASE j = f.i
        BY <1>0, <2>4, <3>1
      <3>2. CASE j # f.i
        <4>1. arp_table'[j] = arp_table[j]
          BY <2>4, <3>2
        <4>2. arp_table[j].state # "EMPTY" => arp_table[j].ip \in Ip \ {x}
          BY <2>1, <3>2 DEF Heard, ArpInv
        <4>3. arp_table[j].state \in Stable =>
                arp_table[j].mac \in Mac /\ arp_table[j].mac = claimed[arp_table[j].ip]
          BY DEF Heard, ArpInv
        <4> QED
          BY <1>0, <4>1, <4>2, <4>3 DEF Stable
      <3> QED
        BY <3>1, <3>2
    <2>8. wire' \in {<<>>} \cup (Ip \X Mac) /\ SentToOwner'
      BY <1>0, <2>2 DEF SentToOwner
    <2> QED
      BY <1>0, <2>2, <2>4, <2>5, <2>6, <2>7, <2>8 DEF ArpInv
  <1>2. CASE ~(forUs \/ Matching(x) # {})
    <2>1. wire' = <<>> /\ UNCHANGED <<arp_table, refs, cached>>
      BY <1>2 DEF Input
    <2>2. \A j \in ArpIndex : arp_table[j].state # "EMPTY" => arp_table[j].ip # x
      BY <1>2 DEF Matching
    <2>3. Heard(arp_table', claimed')
      BY <1>0, <2>1, <2>2 DEF Heard, ArpInv, Stable
    <2> QED
      BY <1>0, <2>1, <2>3 DEF ArpInv, SentToOwner
  <1> QED
    BY <1>1, <1>2

\* A packet for x goes out through an entry for x, and the entry may be asked
\* for again.
LEMMA OutputToIndexInv ==
    ASSUME ArpInv, NEW x \in Ip, NEW i \in ArpIndex, NEW ok \in BOOLEAN,
           arp_table[i].state \in Stable, arp_table[i].ip = x,
           OutputToIndex(i, x, ok), cached' \in ArpIndex
    PROVE  ArpInv'
  <1>1. PICK st \in Stable : arp_table' = [arp_table EXCEPT ![i].state = st]
    BY DEF OutputToIndex, ArpInv, Stable
  <1>2. /\ arp_table' \in [ArpIndex -> Entry]
        /\ \A j \in ArpIndex : /\ arp_table'[j].ip = arp_table[j].ip
                               /\ arp_table'[j].mac = arp_table[j].mac
                               /\ arp_table'[j].q = arp_table[j].q
                               /\ j # i => arp_table'[j].state = arp_table[j].state
        /\ arp_table'[i].state \in Stable
    BY <1>1 DEF ArpInv, Entry
  <1>3. wire' = <<x, arp_table[i].mac>> /\ UNCHANGED <<refs, claimed>>
    BY DEF OutputToIndex
  <1>4. arp_table[i].mac \in Mac /\ arp_table[i].mac = claimed[x]
    BY DEF ArpInv, Heard
  <1>5. arp_table[i].q = Nil
    BY DEF ArpInv, Queues, Stable
  <1>6. Queues(arp_table', refs')
    BY <1>2, <1>3, <1>5 DEF ArpInv, Queues
  <1>7. Unique(arp_table')
    BY <1>2 DEF ArpInv, Unique, Stable
  <1>8. Heard(arp_table', claimed')
    BY <1>2, <1>3, <1>4 DEF ArpInv, Heard
  <1> QED
    BY <1>2, <1>3, <1>4, <1>6, <1>7, <1>8 DEF ArpInv, SentToOwner

\* A packet that no entry holds is queued on the entry for x in place of the
\* one that hung there.
LEMMA QueryInv ==
    ASSUME ArpInv, NEW x \in Ip, NEW p \in Packet, NEW ok \in BOOLEAN,
           refs[p] = 0, StableFor(x) = {}, Query(x, p, ok)
    PROVE  ArpInv'
  <1> DEFINE f == FindEntry(x)
  <1>1. /\ f.i \in ArpIndex
        /\ f.table \in [ArpIndex -> Entry] /\ f.refs \in [Packet -> Nat]
        /\ f.table[f.i].ip = x
        /\ f.table[f.i] = arp_table[f.i] \/ f.table[f.i].state = "EMPTY"
        /\ \A j \in ArpIndex \ {f.i} :
             /\ f.table[j] = arp_table[j]
             /\ arp_table[j].state # "EMPTY" => arp_table[j].ip # x
        /\ Queues(f.table, f.refs)
    BY FindEntrySound
  <1>2. /\ arp_table' = [f.table EXCEPT ![f.i].state = "PENDING",
                                        ![f.i].q = IF ok THEN p ELSE @]
        /\ refs' = IF ok THEN [Unref(f.refs, f.table[f.i].q) EXCEPT ![p] = @ + 1] ELSE f.refs
        /\ wire' = <<>>
        /\ UNCHANGED <<cached, claimed>>
    BY DEF Query
  <1>3. f.table[f.i].state \in {"EMPTY", "PENDING"}
    <2>1. CASE f.table[f.i] = arp_table[f.i]
      <3>1. arp_table[f.i].state \in Stable => f.i \in StableFor(x)
        BY <1>1, <2>1 DEF StableFor, Matching, Stable
      <3> QED
        BY <1>1, <2>1, <3>1 DEF Entry
    <2> QED
      BY <1>1, <2>1
  <1>4. ~\E j \in ArpIndex : f.table[j].q = p
    <2>1. ~\E j \in ArpIndex : arp_table[j].q = p
      BY DEF ArpInv, Queues
    <2>2. f.table[f.i].state = "EMPTY" => f.table[f.i].q = Nil
      BY <1>1 DEF Queues
    <2>3. p # Nil
      BY ArpAssumption
    <2> QED
      BY <1>1, <2>1, <2>2, <2>3
  <1> HIDE DEF f
  <1>5. /\ arp_table' \in [ArpIndex -> Entry]
        /\ arp_table'[f.i].state = "PENDING"
        /\ arp_table'[f.i].ip = x
        /\ arp_table'[f.i].q = IF ok THEN p ELSE f.table[f.i].q
        /\ \A j \in ArpIndex \ {f.i} : arp_table'[j] = f.table[j] /\ arp_table'[j] = arp_table[j]
    <2> DEFINE k == IF ok THEN p ELSE f.table[f.i].q
               e == [f.table[f.i] EXCEPT !.state = "PENDING", !.q = k]
    <2>1. arp_table' = [f.table EXCEPT ![f.i] = e]
      BY <1>1, <1>2
    <2>2. f.table[f.i] \in Entry /\ k \in Packet \cup {Nil}
      BY <1>1 DEF Entry
    <2> HIDE DEF k
    <2>3. e \in Entry /\ e.state = "PENDING" /\ e.ip = x /\ e.q = k
      BY <1>1, <2>2 DEF Entry
    <2> HIDE DEF e
    <2> QED
      BY <1>1, <2>1, <2>3 DEF k
  <1>6. refs' \in [Packet -> Nat] /\ Queues(arp_table', refs')
    <2>1. CASE ok
      <3> DEFINE u == [f.table EXCEPT ![f.i].q = Nil]
                 r == Unref(f.refs, f.table[f.i].q)
      <3>1. /\ u \in [ArpIndex -> Entry] /\ u[f.i].q = Nil
            /\ \A j \in ArpIndex \ {f.i} : u[j] = f.table[j]
        BY <1>1 DEF Entry
      <3>2. r \in [Packet -> Nat] /\ Queues(u, r)
        <4> HIDE DEF u
        <4> QED
          BY <1>1, <3>1, Dequeued
      <3> HIDE DEF u, r
      <3>3. p # Nil /\ ~\E j \in ArpIndex : u[j].q = p
        BY <1>4, <3>1, ArpAssumption
      <3>4. r[p] = 0
        BY <3>2, <3>3 DEF Queues
      <3>5. /\ refs' \in [Packet -> Nat] /\ refs'[p] = 1
            /\ \A k \in Packet \ {p} : refs'[k] = r[k]
        BY <1>2, <2>1, <3>2, <3>4 DEF r
      <3>6. \A j \in ArpIndex \ {f.i} : arp_table'[j] = u[j]
        BY <1>5, <3>1
      <3>7. arp_table'[f.i].q = p
        BY <1>5, <2>1
      <3>8. \A j \in ArpIndex : arp_table'[j].q # Nil => arp_table'[j].state = "PENDING"
        BY <1>5, <3>2, <3>6 DEF Queues
      <3>9. \A i, j \in ArpIndex :
               arp_table'[i].q # Nil /\ arp_table'[i].q = arp_table'[j].q => i = j
        BY <3>2, <3>3, <3>6, <3>7 DEF Queues
      <3>10. \A k \in Packet :
               /\ refs'[k] \in {0, 1}
               /\ refs'[k] = 1 <=> \E j \in ArpIndex : arp_table'[j].q = k
        <4> SUFFICES ASSUME NEW k \in Packet
                     PROVE  /\ refs'[k] \in {0, 1}
                            /\ refs'[k] = 1 <=> \E j \in ArpIndex : arp_table'[j].q = k
          OBVIOUS
        <4>1. k # Nil
          BY ArpAssumption
        <4>2. CASE k = p
          BY <1>1, <3>5, <3>7, <4>2
        <4>3. CASE k # p
          <5>1. (\E j \in ArpIndex : arp_table'[j].q = k) <=> (\E j \in ArpIndex : u[j].q = k)
            BY <1>1, <3>1, <3>6, <3>7, <4>1, <4>3
          <5> QED
            BY <3>2, <3>5, <4>3, <5>1 DEF Queues
        <4> QED
          BY <4>2, <4>3
      <3> QED
        BY <3>5, <3>8, <3>9, <3>10 DEF Queues
    <2>2. CASE ~ok
      <3>1. \A j \in ArpIndex : arp_table'[j].q = f.table[j].q
        BY <1>5, <2>2
      <3>2. \A j \in ArpIndex : f.table[j].q # Nil => arp_table'[j].state = "PENDING"
        BY <1>1, <1>5 DEF Queues
      <3>3. refs' = f.refs
        BY <1>2, <2>2
      <3> QED
        BY <1>1, <3>1, <3>2, <3>3 DEF Queues
    <2> QED
      BY <2>1, <2>2
  <1>7. Unique(arp_table')
    BY <1>1, <1>5 DEF ArpInv, Unique
  <1>8. Heard(arp_table', claimed')
    BY <1>2, <1>5 DEF ArpInv, Heard, Stable
  <1> QED
    BY <1>2, <1>5, <1>6, <1>7, <1>8 DEF ArpInv, SentToOwner

\* A packet to a unicast address: in all three ways of etharp_output.
LEMMA EtharpOutputInv ==
    ASSUME ArpInv, NEW x \in Ip, NEW p \in Packet, NEW ok \in BOOLEAN,
           EtharpOutput(x, p, ok)
    PROVE  ArpInv'
  <1>1. CASE HitCached(x) /\ OutputToIndex(cached, x, ok) /\ UNCHANGED cached
    <2>1. cached \in ArpIndex /\ cached' \in ArpIndex
      BY <1>1 DEF ArpInv
    <2> QED
      BY <1>1, <2>1, OutputToIndexInv DEF HitCached
  <1>2. CASE /\ StableFor(x) # {}
             /\ cached' = First(StableFor(x))
             /\ OutputToIndex(First(StableFor(x)), x, ok)
    <2>1. First(StableFor(x)) \in StableFor(x)
      BY <1>2, FirstIn DEF StableFor, Matching
    <2>2. First(StableFor(x)) \in ArpIndex
      BY <2>1 DEF StableFor, Matching
    <2> QED
      BY <1>2, <2>1, <2>2, OutputToIndexInv DEF StableFor, Matching
  <1>3. CASE StableFor(x) = {} /\ Query(x, p, ok)
    BY <1>3, QueryInv DEF EtharpOutput
  <1> QED
    BY <1>1, <1>2, <1>3 DEF EtharpOutput

\* etharp_tmr: what expires becomes empty, and its packet is freed.
LEMMA TmrInv == ASSUME ArpInv, Tmr PROVE ArpInv'
  <1>1. \A i \in ArpIndex : arp_table'[i] = Aged(arp_table[i])
    BY DEF Tmr
  <1>2. \A e \in Entry : /\ Aged(e) \in Entry
                         /\ \/ Aged(e) = Empty
                            \/ /\ Aged(e).ip = e.ip /\ Aged(e).mac = e.mac /\ Aged(e).q = e.q
                               /\ Aged(e).state = "EMPTY" <=> e.state = "EMPTY"
                               /\ Aged(e).state = "PENDING" <=> e.state = "PENDING"
                               /\ Aged(e).state \in Stable <=> e.state \in Stable
    <2> SUFFICES ASSUME NEW e \in Entry
                 PROVE  /\ Aged(e) \in Entry
                        /\ \/ Aged(e) = Empty
                           \/ /\ Aged(e).ip = e.ip /\ Aged(e).mac = e.mac /\ Aged(e).q = e.q
                              /\ Aged(e).state = "EMPTY" <=> e.state = "EMPTY"
                              /\ Aged(e).state = "PENDING" <=> e.state = "PENDING"
                              /\ Aged(e).state \in Stable <=> e.state \in Stable
      OBVIOUS
    <2>1. CASE e.state = "EMPTY"
      BY <2>1 DEF Aged
    <2>2. CASE e.state # "EMPTY" /\ ArpExpired(e)
      <3>1. Aged(e) = Empty
        BY <2>2 DEF Aged
      <3>2. Empty \in Entry
        BY ArpAssumption DEF Empty, Entry
      <3> QED
        BY <3>1, <3>2
    <2>3. CASE e.state # "EMPTY" /\ ~ArpExpired(e)
      <3> DEFINE st == CASE e.state = "REREQUESTING_1" -> "REREQUESTING_2"
                         [] e.state = "REREQUESTING_2" -> "STABLE"
                         [] OTHER -> e.state
      <3>1. e.ctime + 1 \in 0 .. ArpMaxAge
        BY <2>3, ArpAssumption DEF Entry, ArpExpired
      <3>2. Aged(e) = [e EXCEPT !.ctime = e.ctime + 1, !.state = st]
        BY <2>3 DEF Aged, Entry
      <3>3. /\ st \in {"PENDING"} \cup Stable
            /\ st = "PENDING" <=> e.state = "PENDING"
            /\ st \in Stable <=> e.state \in Stable
        BY <2>3 DEF Entry, Stable
      <3> HIDE DEF st
      <3> QED
        BY <2>3, <3>1, <3>2, <3>3 DEF Entry, Stable
    <2> QED
      BY <2>1, <2>2, <2>3
  <1>3. /\ arp_table' \in [ArpIndex -> Entry]
        /\ \A i \in ArpIndex :
             \/ arp_table'[i] = Empty
             \/ /\ arp_table'[i].ip = arp_table[i].ip
                /\ arp_table'[i].mac = arp_table[i].mac
                /\ arp_table'[i].q = arp_table[i].q
                /\ arp_table'[i].state = "EMPTY" <=> arp_table[i].state = "EMPTY"
                /\ arp_table'[i].state = "PENDING" <=> arp_table[i].state = "PENDING"
                /\ arp_table'[i].state \in Stable <=> arp_table[i].state \in Stable
    BY <1>1, <1>2 DEF Tmr, ArpInv
  <1>4. wire' = <<>> /\ UNCHANGED <<cached, claimed>>
    BY DEF Tmr
  <1>5. refs' \in [Packet -> Nat]
        /\ \A p \in Packet :
             refs'[p] \in {0, 1} /\ (refs'[p] = 1 <=> \E i \in ArpIndex : arp_table'[i].q = p)
    <2> SUFFICES ASSUME NEW p \in Packet
                 PROVE  refs'[p] \in {0, 1}
                        /\ (refs'[p] = 1 <=> \E i \in ArpIndex : arp_table'[i].q = p)
      BY DEF Tmr
    <2> DEFINE gone == {i \in ArpIndex : arp_table[i].q = p /\ arp_table'[i].state = "EMPTY"}
    <2>1. refs'[p] = refs[p] - Cardinality(gone)
      BY DEF Tmr
    <2>2. p # Nil
      BY ArpAssumption
    <2>3. CASE ~\E i \in ArpIndex : arp_table[i].q = p
      <3>1. gone = {} /\ refs[p] = 0
        BY <2>3 DEF ArpInv, Queues
      <3>2. ~\E i \in ArpIndex : arp_table'[i].q = p
        BY <1>3, <2>2, <2>3 DEF Empty
      <3> QED
        BY <2>1, <3>1, <3>2, FS_EmptySet
    <2>4. CASE \E i \in ArpIndex : arp_table[i].q = p
      <3>1. PICK i \in ArpIndex : arp_table[i].q = p
        BY <2>4
      <3>2. /\ refs[p] = 1 /\ arp_table[i].state = "PENDING"
            /\ \A j \in ArpIndex : arp_table[j].q = p => j = i
        BY <2>2, <3>1 DEF ArpInv, Queues
      <3>3. CASE arp_table'[i].state = "EMPTY"
        <4>1. gone = {i}
          BY <3>1, <3>2, <3>3
        <4>2. arp_table'[i] = Empty
          BY <1>3, <3>2, <3>3
        <4>3. ~\E j \in ArpIndex : arp_table'[j].q = p
          BY <1>3, <2>2, <3>2, <4>2 DEF Empty
        <4>4. Cardinality(gone) = 1
          BY <4>1, FS_Singleton
        <4>5. refs'[p] = 0
          BY <2>1, <3>2, <4>4
        <4> QED
          BY <4>3, <4>5
      <3>4. CASE arp_table'[i].state # "EMPTY"
        <4>1. gone = {}
          BY <3>2, <3>4
        <4>2. arp_table'[i].q = p
          BY <1>3, <3>1, <3>4 DEF Empty
        <4>3. Cardinality(gone) = 0
          BY <4>1, FS_EmptySet
        <4>4. refs'[p] = 1
          BY <2>1, <3>2, <4>3
        <4> QED
          BY <4>2, <4>4
      <3> QED
        BY <3>3, <3>4
    <2> QED
      BY <2>3, <2>4
  <1>6. Queues(arp_table', refs')
    BY <1>3, <1>5 DEF ArpInv, Queues, Empty
  <1>7. Unique(arp_table')
    BY <1>3 DEF ArpInv, Unique, Empty
  <1>8. Heard(arp_table', claimed')
    BY <1>3, <1>4 DEF ArpInv, Heard, Empty, Stable
  <1> QED
    BY <1>3, <1>4, <1>5, <1>6, <1>7, <1>8 DEF ArpInv, SentToOwner

-----------------------------------------------------------------------------
\* Every function of etharp.c keeps the invariant.
LEMMA ArpStepInv == ArpInv /\ [ArpNext]_arpVars => ArpInv'
  <1> SUFFICES ASSUME ArpInv, [ArpNext]_arpVars PROVE ArpInv'
    OBVIOUS
  <1>1. CASE \E x \in Ip, m \in Mac, forUs \in BOOLEAN : Input(x, m, forUs)
    BY <1>1, InputInv
  <1>2. CASE \E x \in Ip, p \in Packet, ok \in BOOLEAN : EtharpOutput(x, p, ok)
    BY <1>2, EtharpOutputInv
  <1>3. CASE Tmr
    BY <1>3, TmrInv
  <1>4. CASE UNCHANGED arpVars
    BY <1>4 DEF arpVars, ArpInv, Queues, Unique, Heard, SentToOwner
  <1> QED
    BY <1>1, <1>2, <1>3, <1>4 DEF ArpNext

\* The counts that TableSound speaks of follow from the invariant.
LEMMA InvTableSound == ArpInv => TableSound
  <1> SUFFICES ASSUME ArpInv PROVE TableSound
    OBVIOUS
  <1>1. \A p \in Packet : refs[p] \in 0 .. TableSize
    BY ArpAssumption DEF ArpInv, Queues
  <1>2. ArpTypeOK
    BY <1>1 DEF ArpTypeOK, ArpInv, Entry
  <1>3. ASSUME NEW x \in Ip PROVE Cardinality(Matching(x)) <= 1
    <2>1. CASE Matching(x) = {}
      BY <2>1, FS_EmptySet
    <2>2. CASE Matching(x) # {}
      <3>1. PICK i \in Matching(x) : TRUE
        BY <2>2
      <3>2. Matching(x) = {i}
        BY <3>1 DEF ArpInv, Unique, Matching
      <3>3. Cardinality({i}) = 1
        BY FS_Singleton
      <3> QED
        BY <3>2, <3>3
    <2> QED
      BY <2>1, <2>2
  <1>4. ASSUME NEW p \in Packet
        PROVE  refs[p] = Cardinality({i \in ArpIndex : arp_table[i].q = p})
    <2> DEFINE on == {i \in ArpIndex : arp_table[i].q = p}
    <2>1. CASE on = {}
      <3>1. refs[p] = 0
        BY <2>1 DEF ArpInv, Queues
      <3>2. Cardinality(on) = 0
        BY <2>1, FS_EmptySet
      <3> QED
        BY <3>1, <3>2
    <2>2. CASE on # {}
      <3>1. PICK i \in on : TRUE
        BY <2>2
      <3>2. p # Nil
        BY ArpAssumption
      <3>3. on = {i} /\ refs[p] = 1
        BY <3>1, <3>2 DEF ArpInv, Queues
      <3>4. Cardinality({i}) = 1
        BY FS_Singleton
      <3> QED
        BY <3>3, <3>4
    <2> QED
      BY <2>1, <2>2
  <1> QED
    BY <1>2, <1>3, <1>4 DEF TableSound, ArpInv, Queues

(* Through any sequence of ARP packets, outgoing packets and timer ticks,  *)
(* with a table of any size, no address has two entries and the table      *)
(* holds exactly the references to packets it counts (etharp_query,        *)
(* etharp_find_entry, etharp_free_entry).                                  *)
THEOREM TableSafe == ArpSpec => []TableSound
  <1>1. ArpInit => ArpInv
    BY ArpInitInv
  <1>2. ArpInv /\ [ArpNext]_arpVars => ArpInv'
    BY ArpStepInv
  <1>3. ArpInv => TableSound
    BY InvTableSound
  <1> QED
    BY <1>1, <1>2, <1>3, PTL DEF ArpSpec

(* A packet goes only to the hardware address its next hop claimed last,   *)
(* although etharp_output trusts the index of the entry it used last and   *)
(* etharp_find_entry may have given that entry to another address.         *)
THEOREM OwnerSafe == ArpSpec => []SentToOwner
  <1>1. ArpInv => SentToOwner
    BY DEF ArpInv
  <1> QED
    BY <1>1, ArpInitInv, ArpStepInv, PTL DEF ArpSpec
=============================================================================
