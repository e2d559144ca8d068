------------------------------ MODULE MemProofs ------------------------------
(***************************************************************************)
(* The safety of the heap of src/src/lwip/core/mem.c for every size of the *)
(* heap, of a header and of a smallest block and for every set of request  *)
(* sizes.                                                                  *)
(***************************************************************************)
EXTENDS Mem, LeastNatural, TLAPS

Header == [next : 1 .. MemSize, prev : 0 .. MemSize - 1, used : BOOLEAN]

(* The links go up from 0 to ram_end and back, without a header between.   *)
Chain(m) ==
    /\ DOMAIN m \subseteq 0 .. MemSize - 1
    /\ m \in [DOMAIN m -> Header]
    /\ 0 \in DOMAIN m /\ m[0].prev = 0
    /\ \A p \in DOMAIN m : m[p].next > p /\ (m[p].next = MemSize \/ m[p].next \in DOMAIN m)
    /\ \A p \in DOMAIN m : m[p].next # MemSize => m[m[p].next].prev = p
    /\ \A p, q \in DOMAIN m : ~(p < q /\ q < m[p].next)

(* No two free blocks touch.                                               *)
Apart(m) ==
    \A p \in DOMAIN m : m[p].next # MemSize => m[p].used \/ m[m[p].next].used

(* l is the lowest free block, or ram_end if there is none.                *)
Lowest(m, l) ==
    /\ l = MemSize \/ (l \in DOMAIN m /\ ~m[l].used)
    /\ \A i \in DOMAIN m : ~m[i].used => l <= i

(* The used blocks are those held, and large enough.                       *)
Held(m, u) ==
    /\ u \in [DOMAIN u -> Nat]
    /\ DOMAIN u = {p \in DOMAIN m : m[p].used}
    /\ \A p \in DOMAIN u : u[p] <= DataSize(m, p)

MemInv ==
    /\ Chain(mem) /\ Apart(mem) /\ Lowest(mem, lfree) /\ Held(mem, user)
    /\ asserted \in BOOLEAN

-----------------------------------------------------------------------------
\* The search for the next free block finds the lowest one, or ram_end.
LEMMA NextFreeLowest ==
    ASSUME NEW m, DOMAIN m \subseteq 0 .. MemSize - 1, NEW p \in Nat
    PROVE  LET l == NextFree(m, p) IN
             /\ l = MemSize \/ (l \in DOMAIN m /\ l >= p /\ ~m[l].used)
             /\ \A i \in DOMAIN m : i >= p /\ ~m[i].used => l <= i
  <1> DEFINE free == {i \in DOMAIN m : i >= p /\ ~m[i].used}
  <1>0. MemSize \in Nat
    BY MemAssumption
  <1>1. CASE free = {}
    <2>1. NextFree(m, p) = MemSize
      BY <1>1 DEF NextFree
    <2> QED
      BY <1>1, <2>1
  <1>2. CASE free # {}
    <2>1. free \in SUBSET Nat
      BY <1>0
    <2>2. \E i \in free : \A j \in free : i <= j
      BY <1>2, <2>1, Smallest
    <2>3. NextFree(m, p) = CHOOSE i \in free : \A j \in free : i <= j
      BY <1>2 DEF NextFree
    <2>4. NextFree(m, p) \in free /\ \A j \in free : NextFree(m, p) <= j
      BY <2>2, <2>3
    <2> QED
      BY <2>4
  <1> QED
    BY <1>1, <1>2

\* There is only one lowest free block.
LEMMA LowestIsNextFree ==
    ASSUME NEW m, DOMAIN m \subseteq 0 .. MemSize - 1, NEW l, Lowest(m, l)
    PROVE  l = NextFree(m, 0)
  <1> DEFINE k == NextFree(m, 0)
  <1>0. MemSize \in Nat /\ \A i \in DOMAIN m : i \in Nat /\ i < MemSize /\ i >= 0
    BY MemAssumption
  <1>1. /\ k = MemSize \/ (k \in DOMAIN m /\ ~m[k].used)
        /\ \A i \in DOMAIN m : ~m[i].used => k <= i
    BY <1>0, NextFreeLowest
  <1> HIDE DEF k
  <1>2. l = k
    BY <1>0, <1>1 DEF Lowest
  <1> QED
    BY <1>2 DEF k

\* The link back of a header leads to the header whose next link leads here.
LEMMA PrevIs ==
    ASSUME NEW m, Chain(m), NEW p \in DOMAIN m, p # 0
    PROVE  m[p].prev \in DOMAIN m /\ m[p].prev < p /\ m[m[p].prev].next = p
  <1>0. MemSize \in Nat /\ \A i \in DOMAIN m : i \in Nat /\ i < MemSize /\ m[i].next \in Nat
    BY MemAssumption DEF Chain, Header
  <1> DEFINE below == {b \in DOMAIN m : b < p}
             gaps == {p - b : b \in below}
  <1>1. PICK g \in gaps : \A k \in gaps : g <= k
    <2>1. 0 \in below
      BY <1>0 DEF Chain
    <2>2. gaps \in SUBSET Nat /\ gaps # {}
      BY <1>0, <2>1
    <2> QED
      BY <2>2, Smallest
  <1>2. PICK b \in below : g = p - b
    BY <1>1
  <1>3. \A c \in DOMAIN m : ~(b < c /\ c < p)
    <2> SUFFICES ASSUME NEW c \in DOMAIN m, b < c, c < p PROVE FALSE
      OBVIOUS
    <2>1. p - b <= p - c
      BY <1>1, <1>2
    <2> QED
      BY <1>0, <2>1
  <1>4. m[b].next = p
    <2>1. ~(p < m[b].next)
      BY <1>2 DEF Chain
    <2>2. m[b].next # MemSize
      BY <1>0, <1>2, <2>1
    <2>3. m[b].next \in DOMAIN m /\ m[b].next > b
      BY <1>2, <2>2 DEF Chain
    <2> QED
      BY <1>0, <1>2, <1>3, <2>1, <2>3
  <1> QED
    BY <1>0, <1>2, <1>4 DEF Chain

(* The header after p is merged into it: both halves of plug_holes.        *)
Merge(m, p) ==
    LET n == m[p].next
    IN  SetPrev(Without([m EXCEPT ![p].next = m[n].next], n), m[n].next, p)

(* k is m with the block at n merged into the one at p, header by header.  *)
MergeOf(k, m, p, n) ==
    /\ DOMAIN k = DOMAIN m \ {n} /\ k \in [DOMAIN k -> Header]
    /\ p \in DOMAIN k /\ n \in DOMAIN m /\ n > p
    /\ k[p].next = m[n].next /\ k[p].prev = m[p].prev
    /\ \A q \in DOMAIN k : k[q].used = m[q].used
    /\ \A q \in DOMAIN k \ {p} : k[q].next = m[q].next
    /\ \A q \in DOMAIN k \ {p} : k[q].prev = IF q = m[n].next THEN p ELSE m[q].prev

\* What the headers are after a merge.
LEMMA MergeValues ==
    ASSUME NEW m, Chain(m), NEW p \in DOMAIN m, m[p].next # MemSize
    PROVE  MergeOf(Merge(m, p), m, p, m[p].next)
  <1> DEFINE n == m[p].next
             o == m[n].next
             a == [m EXCEPT ![p].next = o]
             b == Without(a, n)
             k == Merge(m, p)
  <1>0. MemSize \in Nat /\ \A i \in DOMAIN m : i \in Nat /\ i < MemSize /\ m[i].next \in Nat
    BY MemAssumption DEF Chain, Header
  <1>1. n \in DOMAIN m /\ n > p /\ o > n /\ o \in 1 .. MemSize /\ (o = MemSize \/ o \in DOMAIN m)
    BY DEF Chain, Header
  <1>2. /\ DOMAIN a = DOMAIN m /\ a \in [DOMAIN m -> Header]
        /\ a[p].next = o /\ a[p].prev = m[p].prev /\ a[p].used = m[p].used
        /\ \A q \in DOMAIN m \ {p} : a[q] = m[q]
    BY <1>1 DEF Chain, Header
  <1> HIDE DEF a
  <1>3. /\ DOMAIN b = DOMAIN m \ {n} /\ b \in [DOMAIN m \ {n} -> Header]
        /\ \A q \in DOMAIN m \ {n} : b[q] = a[q]
    BY <1>2 DEF Without
  <1>4. k = SetPrev(b, o, p)
    BY DEF Merge, a
  <1> HIDE DEF b, k
  <1>5. p \in DOMAIN b /\ p \in 0 .. MemSize - 1 /\ p # n
    BY <1>0, <1>1, <1>3 DEF Chain
  <1>6. CASE o = MemSize
    <2>1. k = b
      BY <1>4, <1>6 DEF SetPrev
    <2>2. \A q \in DOMAIN k : q # o
      BY <1>0, <1>3, <1>6, <2>1
    <2> QED
      BY <1>1, <1>2, <1>3, <1>5, <2>1, <2>2 DEF k, MergeOf
  <1>7. CASE o # MemSize
    <2>1. k = [b EXCEPT ![o].prev = p]
      BY <1>4, <1>7 DEF SetPrev
    <2>2. o \in DOMAIN b /\ o # p
      BY <1>0, <1>1, <1>3, <1>7
    <2>3. /\ DOMAIN k = DOMAIN b /\ k \in [DOMAIN b -> Header]
          /\ k[o].prev = p /\ k[o].next = b[o].next /\ k[o].used = b[o].used
          /\ \A q \in DOMAIN b \ {o} : k[q] = b[q]
      BY <1>3, <1>5, <2>1, <2>2 DEF Header
    <2> QED
      BY <1>1, <1>2, <1>3, <1>5, <2>2, <2>3 DEF k, MergeOf
  <1> QED
    BY <1>6, <1>7

\* A merge keeps the links in order.
LEMMA MergeChain ==
    ASSUME NEW m, Chain(m), NEW p \in DOMAIN m, m[p].next # MemSize
    PROVE  Chain(Merge(m, p))
  <1> DEFINE n == m[p].next
             o == m[n].next
             k == Merge(m, p)
  <1>0. MemSize \in Nat /\ \A i \in DOMAIN m : i \in Nat /\ i < MemSize /\ m[i].next \in Nat
    BY MemAssumption DEF Chain, Header
  <1>1. /\ DOMAIN k = DOMAIN m \ {n} /\ k \in [DOMAIN k -> Header]
        /\ p \in DOMAIN k /\ n \in DOMAIN m /\ n > p
        /\ k[p].next = o /\ k[p].prev = m[p].prev
        /\ \A q \in DOMAIN k \ {p} : k[q].next = m[q].next
        /\ \A q \in DOMAIN k \ {p} : k[q].prev = IF q = o THEN p ELSE m[q].prev
    <2>1. MergeOf(k, m, p, n)
      BY MergeValues
    <2> QED
      BY <2>1 DEF MergeOf
  <1> HIDE DEF k
  <1>2. o > n /\ (o = MemSize \/ o \in DOMAIN m)
    BY <1>1 DEF Chain
  <1>3. \A q \in DOMAIN k \ {p} : m[q].next # n
    BY <1>1 DEF Chain
  <1>4. 0 \in DOMAIN k /\ k[0].prev = 0
    <2>1. 0 # n /\ 0 # o
      BY <1>0, <1>1, <1>2
    <2> QED
      BY <1>1, <2>1 DEF Chain
  <1>5. \A q \in DOMAIN k : k[q].next > q /\ (k[q].next = MemSize \/ k[q].next \in DOMAIN k)
    BY <1>0, <1>1, <1>2, <1>3 DEF Chain
  <1>6. ASSUME NEW q \in DOMAIN k, k[q].next # MemSize PROVE k[k[q].next].prev = q
    <2>1. CASE q = p
      BY <1>0, <1>1, <1>2, <1>6, <2>1
    <2>2. CASE q # p
      <3>1. m[q].next # MemSize /\ m[q].next # n /\ m[q].next \in DOMAIN k
        BY <1>1, <1>3, <1>6, <2>2 DEF Chain
      <3>2. m[m[q].next].prev = q /\ m[q].next # p => k[m[q].next].prev = q
        <4>1. m[q].next = o => m[o].prev = q /\ m[o].prev = n
          BY <1>1, <3>1 DEF Chain
        <4> QED
          BY <1>1, <3>1, <4>1
      <3>3. m[q].next = p => k[p].prev = q
        BY <1>1, <3>1 DEF Chain
      <3>4. m[m[q].next].prev = q
        BY <1>1, <3>1 DEF Chain
      <3> QED
        BY <1>1, <2>2, <3>2, <3>3, <3>4
    <2> QED
      BY <2>1, <2>2
  <1>7. ASSUME NEW q \in DOMAIN k, NEW r \in DOMAIN k PROVE ~(q < r /\ r < k[q].next)
    <2>1. CASE q = p
      <3>1. ~(p < r /\ r < n) /\ ~(n < r /\ r < o) /\ r # n
        BY <1>1 DEF Chain
      <3> QED
        BY <1>0, <1>1, <1>2, <2>1, <3>1
    <2>2. CASE q # p
      BY <1>1, <2>2 DEF Chain
    <2> QED
      BY <2>1, <2>2
  <1>8. DOMAIN k \subseteq 0 .. MemSize - 1
    BY <1>1 DEF Chain
  <1> QED
    BY <1>1, <1>4, <1>5, <1>6, <1>7, <1>8 DEF Chain, k

(* k is m with the block at p split at q, header by header.                *)
SplitOf(k, m, p, q) ==
    /\ DOMAIN k = DOMAIN m \cup {q} /\ k \in [DOMAIN k -> Header] /\ q \notin DOMAIN m
    /\ k[p].next = q
    /\ k[q].next = m[p].next /\ k[q].prev = p /\ k[q].used = FALSE
    /\ \A r \in DOMAIN m : k[r].used = m[r].used
    /\ \A r \in DOMAIN m \ {p} : k[r].next = m[r].next
    /\ \A r \in DOMAIN m : k[r].prev = IF r = m[p].next THEN q ELSE m[r].prev

\* What the headers are after a block was split at q.
LEMMA SplitValues ==
    ASSUME NEW m, Chain(m), NEW p \in DOMAIN m, NEW q \in Nat, p < q, q < m[p].next
    PROVE  SplitOf(Split(m, p, q, m[p].next), m, p, q)
  <1> DEFINE n == m[p].next
             h == [next |-> n, prev |-> p, used |-> FALSE]
             a == [m EXCEPT ![p].next = q]
             b == With(a, q, h)
             k == Split(m, p, q, n)
  <1>0. MemSize \in Nat /\ \A i \in DOMAIN m : i \in Nat /\ i < MemSize /\ m[i].next \in Nat
    BY MemAssumption DEF Chain, Header
  <1>1. /\ n \in 1 .. MemSize /\ n > p /\ (n = MemSize \/ n \in DOMAIN m)
        /\ q \notin DOMAIN m /\ q \in 1 .. MemSize - 1 /\ p \in 0 .. MemSize - 1 /\ p # n
    BY <1>0 DEF Chain, Header
  <1>2. /\ DOMAIN a = DOMAIN m /\ a \in [DOMAIN m -> Header]
        /\ a[p].next = q /\ a[p].prev = m[p].prev /\ a[p].used = m[p].used
        /\ \A r \in DOMAIN m \ {p} : a[r] = m[r]
    <2>1. m \in [DOMAIN m -> Header] /\ q \in 1 .. MemSize
      BY <1>0, <1>1 DEF Chain
    <2> QED
      BY <2>1 DEF Header
  <1> HIDE DEF a
  <1>3. h \in Header
    BY <1>1 DEF Header
  <1>4. /\ DOMAIN b = DOMAIN m \cup {q} /\ b \in [DOMAIN m \cup {q} -> Header]
        /\ b[q] = h
        /\ \A r \in DOMAIN m : b[r] = a[r]
    <2> HIDE DEF h
    <2> QED
      BY <1>1, <1>2, <1>3 DEF With
  <1>5. k = SetPrev(b, n, q)
    BY DEF Split, a
  <1> HIDE DEF b, k
  <1>6. CASE n = MemSize
    <2>1. k = b
      BY <1>5, <1>6 DEF SetPrev
    <2>2. \A r \in DOMAIN m : r # n
      BY <1>0, <1>6
    <2> QED
      BY <1>1, <1>2, <1>4, <2>1, <2>2 DEF k, SplitOf
  <1>7. CASE n # MemSize
    <2>1. k = [b EXCEPT ![n].prev = q]
      BY <1>5, <1>7 DEF SetPrev
    <2>2. n \in DOMAIN b /\ n # p /\ n # q /\ n \in DOMAIN m
      BY <1>0, <1>1, <1>4, <1>7
    <2>3. /\ DOMAIN k = DOMAIN b /\ k \in [DOMAIN b -> Header]
          /\ k[n].prev = q /\ k[n].next = b[n].next /\ k[n].used = b[n].used
          /\ \A r \in DOMAIN b \ {n} : k[r] = b[r]
      BY <1>1, <1>4, <2>1, <2>2 DEF Header
    <2>4. k[q] = h /\ k[p] = a[p]
      BY <1>1, <1>4, <2>2, <2>3
    <2>5. \A r \in DOMAIN m \ {p, n} : k[r] = m[r]
      BY <1>1, <1>2, <1>4, <2>3
    <2>6. k[n].prev = q /\ k[n].next = m[n].next /\ k[n].used = m[n].used
      BY <1>2, <1>4, <2>2, <2>3
    <2> QED
      BY <1>1, <1>2, <1>4, <2>2, <2>3, <2>4, <2>5, <2>6 DEF k, SplitOf
  <1> QED
    BY <1>6, <1>7

\* A split keeps the links in order.
LEMMA SplitChain ==
    ASSUME NEW m, Chain(m), NEW p \in DOMAIN m, NEW q \in Nat, p < q, q < m[p].next,
           NEW k, SplitOf(k, m, p, q)
    PROVE  Chain(k)
  <1> DEFINE n == m[p].next
  <1>0. MemSize \in Nat /\ \A i \in DOMAIN m : i \in Nat /\ i < MemSize /\ m[i].next \in Nat
    BY MemAssumption DEF Chain, Header
  <1>1. /\ DOMAIN k = DOMAIN m \cup {q} /\ k \in [DOMAIN k -> Header] /\ q \notin DOMAIN m
        /\ k[p].next = q
        /\ k[q].next = n /\ k[q].prev = p
        /\ \A r \in DOMAIN m \ {p} : k[r].next = m[r].next
        /\ \A r \in DOMAIN m : k[r].prev = IF r = n THEN q ELSE m[r].prev
    BY DEF SplitOf
  <1>2. n > p /\ (n = MemSize \/ n \in DOMAIN m) /\ n <= MemSize
    BY DEF Chain, Header
  <1>3. 0 \in DOMAIN k /\ k[0].prev = 0
    <2>1. 0 # n
      BY <1>0, <1>2
    <2> QED
      BY <1>1, <2>1 DEF Chain
  <1>4. \A r \in DOMAIN k : k[r].next > r /\ (k[r].next = MemSize \/ k[r].next \in DOMAIN k)
    BY <1>1, <1>2 DEF Chain
  <1>5. ASSUME NEW r \in DOMAIN k, k[r].next # MemSize PROVE k[k[r].next].prev = r
    <2>1. CASE r = p
      BY <1>1, <2>1
    <2>2. CASE r = q
      BY <1>1, <1>2, <1>5, <2>2
    <2>3. CASE r \in DOMAIN m \ {p}
      <3>1. m[r].next \in DOMAIN m /\ m[m[r].next].prev = r
        BY <1>1, <1>5, <2>3 DEF Chain
      <3>2. m[r].next # n
        BY <1>1, <1>2, <1>5, <2>3, <3>1 DEF Chain
      <3> QED
        BY <1>1, <2>3, <3>1, <3>2
    <2> QED
      BY <1>1, <2>1, <2>2, <2>3
  <1>6. ASSUME NEW r \in DOMAIN k, NEW s \in DOMAIN k PROVE ~(r < s /\ s < k[r].next)
    <2>1. CASE r \in DOMAIN m \ {p} /\ s = q
      <3>1. ~(r < p /\ p < m[r].next) /\ ~(p < r /\ r < n)
        BY <2>1 DEF Chain
      <3>2. r < q => r < p
        BY <1>0, <2>1, <3>1
      <3>3. q < m[r].next => p < m[r].next
        BY <1>0, <2>1
      <3> QED
        BY <1>1, <2>1, <3>1, <3>2, <3>3
    <2>2. CASE r \in DOMAIN m \ {p} /\ s \in DOMAIN m
      BY <1>1, <2>2 DEF Chain
    <2>3. CASE r \in {p, q} /\ s \in DOMAIN m
      <3>1. ~(p < s /\ s < n)
        BY <2>3 DEF Chain
      <3> QED
        BY <1>0, <1>1, <2>3, <3>1
    <2>4. CASE r \in {p, q} /\ s = q
      BY <1>1, <2>4
    <2> QED
      BY <1>1, <2>1, <2>2, <2>3, <2>4
  <1>7. DOMAIN k \subseteq 0 .. MemSize - 1
    BY <1>0, <1>1, <1>2 DEF Chain
  <1> QED
    BY <1>1, <1>3, <1>4, <1>5, <1>6, <1>7 DEF Chain

\* Marking a block used or free changes no link.
LEMMA MarkValues ==
    ASSUME NEW m, Chain(m), NEW p \in DOMAIN m, NEW b \in BOOLEAN
    PROVE  LET k == [m EXCEPT ![p].used = b] IN
             /\ DOMAIN k = DOMAIN m /\ k \in [DOMAIN m -> Header]
             /\ \A r \in DOMAIN m : k[r].next = m[r].next /\ k[r].prev = m[r].prev
             /\ k[p].used = b
             /\ \A r \in DOMAIN m \ {p} : k[r].used = m[r].used
             /\ Chain(k)
  <1> DEFINE k == [m EXCEPT ![p].used = b]
  <1>1. /\ DOMAIN k = DOMAIN m /\ k \in [DOMAIN m -> Header]
        /\ \A r \in DOMAIN m : k[r].next = m[r].next /\ k[r].prev = m[r].prev
        /\ k[p].used = b
        /\ \A r \in DOMAIN m \ {p} : k[r].used = m[r].used
    BY DEF Chain, Header
  <1> HIDE DEF k
  <1>2. Chain(k)
    BY <1>1 DEF Chain
  <1> QED
    BY <1>1, <1>2 DEF k

\* mem_malloc keeps the invariant, whether it splits the block or not.
LEMMA MallocInv ==
    ASSUME MemInv, NEW n \in Sizes, Malloc(n)
    PROVE  MemInv'
  <1> DEFINE size == AtLeastMin(n)
             fits == Fitting(size)
             p == CHOOSE i \in fits : \A j \in fits : i <= j
             taken == [mem EXCEPT ![p].used = TRUE]
             q == p + SizeofMem + size
             new == IF DataSize(mem, p) >= size + SizeofMem + MinSize
                    THEN Split(taken, p, q, mem[p].next) ELSE taken
  <1>0. /\ MemSize \in Nat /\ SizeofMem \in Nat \ {0} /\ MinSize \in Nat \ {0} /\ n \in Nat
        /\ \A i \in DOMAIN mem : i \in Nat /\ i < MemSize /\ mem[i].next \in Nat
    BY MemAssumption DEF MemInv, Chain, Header
  <1>1. size \in Nat /\ size >= n /\ size >= MinSize
    BY <1>0 DEF AtLeastMin
  <1>2. /\ fits # {} /\ mem' = new /\ UNCHANGED asserted
        /\ lfree' = IF p = lfree THEN NextFree(new, p) ELSE lfree
        /\ user' = With(user, p, n)
    BY DEF Malloc
  <1>3. p \in fits
    <2>1. fits \in SUBSET Nat
      BY <1>0 DEF Fitting
    <2> QED
      BY <1>2, <2>1, Smallest
  <1> HIDE DEF p, size
  <1>4. p \in DOMAIN mem /\ p >= lfree /\ ~mem[p].used /\ DataSize(mem, p) >= size /\ p \in Nat
    BY <1>0, <1>3 DEF Fitting
  <1>5. /\ DOMAIN taken = DOMAIN mem /\ taken \in [DOMAIN mem -> Header]
        /\ \A r \in DOMAIN mem : taken[r].next = mem[r].next /\ taken[r].prev = mem[r].prev
        /\ taken[p].used = TRUE
        /\ \A r \in DOMAIN mem \ {p} : taken[r].used = mem[r].used
        /\ Chain(taken)
    BY <1>4, MarkValues DEF MemInv
  <1>6. mem[p].next # MemSize => mem[mem[p].next].used /\ mem[p].next \in DOMAIN mem \ {p}
    BY <1>0, <1>4 DEF MemInv, Apart, Chain
  <1> HIDE DEF taken
  (* In either case the new chain differs from the old one in p only, and  *)
  (* in a free block q behind p that touches no free one.                  *)
  <1>7. /\ Chain(new) /\ p \in DOMAIN new /\ new[p].used
        /\ new[p].next - (p + SizeofMem) >= n
        /\ DOMAIN mem \subseteq DOMAIN new
        /\ \A r \in DOMAIN new : r \in DOMAIN mem \/ (r > p /\ ~new[r].used
                                  /\ (new[r].next # MemSize => new[new[r].next].used))
        /\ \A r \in DOMAIN mem \ {p} : new[r].next = mem[r].next /\ new[r].used = mem[r].used
    <2>1. CASE DataSize(mem, p) >= size + SizeofMem + MinSize
      <3>1. new = Split(taken, p, q, taken[p].next)
        BY <1>4, <1>5, <2>1
      <3>2. q \in Nat /\ p < q /\ q < taken[p].next
        BY <1>0, <1>1, <1>4, <1>5, <2>1 DEF DataSize
      <3> HIDE DEF new, q
      <3>3. SplitOf(new, taken, p, q)
        BY <1>4, <1>5, <3>1, <3>2, SplitValues
      <3>4. Chain(new)
        BY <1>4, <1>5, <3>2, <3>3, SplitChain
      <3>5. /\ DOMAIN new = DOMAIN mem \cup {q} /\ q \notin DOMAIN mem
            /\ new[p].next = q /\ new[q].next = mem[p].next /\ new[q].used = FALSE
            /\ \A r \in DOMAIN mem : new[r].used = taken[r].used
            /\ \A r \in DOMAIN mem \ {p} : new[r].next = taken[r].next
        BY <1>4, <1>5, <3>3 DEF SplitOf
      <3>6. new[p].next - (p + SizeofMem) >= n
        BY <1>0, <1>1, <1>4, <3>5 DEF q
      <3>7. new[q].next # MemSize => new[new[q].next].used
        BY <1>5, <1>6, <3>5
      <3> QED
        BY <1>4, <1>5, <3>2, <3>4, <3>5, <3>6, <3>7
    <2>2. CASE ~(DataSize(mem, p) >= size + SizeofMem + MinSize)
      <3>1. new = taken
        BY <2>2
      <3>2. mem[p].next - (p + SizeofMem) >= n
        BY <1>0, <1>1, <1>4 DEF DataSize
      <3> HIDE DEF new
      <3> QED
        BY <1>4, <1>5, <3>1, <3>2
    <2> QED
      BY <2>1, <2>2
  <1> HIDE DEF new
  <1>8. Apart(new)
    <2> SUFFICES ASSUME NEW r \in DOMAIN new, new[r].next # MemSize
                 PROVE  new[r].used \/ new[new[r].next].used
      BY DEF Apart
    <2>1. CASE r \in DOMAIN mem \ {p}
      <3>1. /\ mem[r].next # MemSize /\ mem[r].next \in DOMAIN mem
            /\ mem[r].used \/ mem[mem[r].next].used
        BY <1>7, <2>1 DEF MemInv, Apart, Chain
      <3> QED
        BY <1>7, <2>1, <3>1
    <2> QED
      BY <1>7, <2>1
  <1>9. Lowest(new, lfree')
    <2>1. /\ lfree \in DOMAIN mem /\ ~mem[lfree].used
          /\ \A i \in DOMAIN mem : ~mem[i].used => lfree <= i
      BY <1>0, <1>4 DEF MemInv, Lowest
    <2>2. CASE p = lfree
      <3> DEFINE l == NextFree(new, p)
      <3>1. /\ l = MemSize \/ (l \in DOMAIN new /\ l >= p /\ ~new[l].used)
            /\ \A i \in DOMAIN new : i >= p /\ ~new[i].used => l <= i
        BY <1>4, <1>7, NextFreeLowest DEF Chain
      <3>2. lfree' = l
        BY <1>2, <2>2
      <3> HIDE DEF l
      <3>3. \A i \in DOMAIN new : ~new[i].used => i >= p
        BY <1>0, <1>4, <1>7, <2>1, <2>2 DEF Chain
      <3> QED
        BY <3>1, <3>2, <3>3 DEF Lowest
    <2>3. CASE p # lfree
      <3>1. lfree' = lfree
        BY <1>2, <2>3
      <3>2. \A i \in DOMAIN new : ~new[i].used => lfree <= i
        <4>1. \A i \in DOMAIN new : i \in Nat
          BY <1>7 DEF Chain
        <4> QED
          BY <1>0, <1>4, <1>7, <2>1, <4>1
      <3> QED
        BY <1>7, <2>1, <2>3, <3>1, <3>2 DEF Lowest
    <2> QED
      BY <2>2, <2>3
  <1>10. Held(new, user')
    <2>1. /\ DOMAIN user' = DOMAIN user \cup {p} /\ user' \in [DOMAIN user' -> Nat]
          /\ user'[p] = n /\ \A r \in DOMAIN user \ {p} : user'[r] = user[r]
      BY <1>0, <1>2 DEF With, MemInv, Held
    <2>2. /\ DOMAIN user = {r \in DOMAIN mem : mem[r].used}
          /\ \A r \in DOMAIN user : user[r] <= DataSize(mem, r)
      BY DEF MemInv, Held
    <2>3. DOMAIN user' = {r \in DOMAIN new : new[r].used}
      BY <1>7, <2>1, <2>2
    <2>4. \A r \in DOMAIN user' : user'[r] <= DataSize(new, r)
      <3>1. \A r \in DOMAIN user : r # p /\ user'[r] <= DataSize(new, r)
        BY <1>4, <1>7, <2>1, <2>2 DEF DataSize
      <3>2. n <= DataSize(new, p)
        <4>1. new[p].next \in Nat
          BY <1>7 DEF Chain, Header
        <4> QED
          BY <1>0, <1>4, <1>7, <4>1 DEF DataSize
      <3> QED
        BY <2>1, <3>1, <3>2
    <2> QED
      BY <2>1, <2>3, <2>4 DEF Held
  <1> QED
    BY <1>2, <1>7, <1>8, <1>9, <1>10 DEF MemInv

\* Merging two free blocks moves neither lfree nor a block in use.
LEMMA MergeFree ==
    ASSUME NEW m, Chain(m), NEW p \in DOMAIN m, m[p].next # MemSize,
           ~m[p].used, ~m[m[p].next].used,
           NEW l, Lowest(m, l), NEW u, Held(m, u)
    PROVE  l # m[p].next /\ Lowest(Merge(m, p), l) /\ Held(Merge(m, p), u)
  <1> DEFINE n == m[p].next
             k == Merge(m, p)
  <1>0. MemSize \in Nat /\ \A i \in DOMAIN m : i \in Nat /\ i < MemSize
    BY MemAssumption DEF Chain
  <1>1. MergeOf(k, m, p, n)
    BY MergeValues
  <1> HIDE DEF k
  <1>2. l # n
    BY <1>0, <1>1 DEF Lowest, MergeOf
  <1>3. Lowest(k, l)
    BY <1>1, <1>2 DEF Lowest, MergeOf
  <1>4. DOMAIN u = {r \in DOMAIN k : k[r].used}
    BY <1>1 DEF Held, MergeOf
  <1>5. \A r \in DOMAIN u : u[r] <= DataSize(k, r)
    BY <1>1 DEF Held, MergeOf, DataSize
  <1> QED
    BY <1>2, <1>3, <1>4, <1>5 DEF Held, k

(* plug_holes, between its two halves: only the block freed last may still *)
(* touch a free one, and only one before it.                               *)
Plugging(s, p, u) ==
    /\ Chain(s.mem) /\ p \in DOMAIN s.mem /\ ~s.mem[p].used
    /\ Lowest(s.mem, s.lfree) /\ Held(s.mem, u)
    /\ \A r \in DOMAIN s.mem :
         s.mem[r].next # MemSize => s.mem[r].used \/ s.mem[s.mem[r].next].used \/ s.mem[r].next = p

\* The forward half of plug_holes.
LEMMA ForwardPlugs ==
    ASSUME NEW m, NEW l, NEW u, NEW p \in DOMAIN m,
           Chain(m), ~m[p].used, Lowest(m, l), Held(m, u),
           \A r \in DOMAIN m \ {p} :
             m[r].next # MemSize => m[r].used \/ m[m[r].next].used \/ m[r].next = p
    PROVE  Plugging(PlugForward([mem |-> m, lfree |-> l], p), p, u)
  <1> DEFINE n == m[p].next
             s == PlugForward([mem |-> m, lfree |-> l], p)
  <1>1. CASE n # MemSize /\ ~m[n].used
    <2>1. MergeOf(Merge(m, p), m, p, n) /\ Chain(Merge(m, p))
      BY <1>1, MergeValues, MergeChain
    <2>2. l # n /\ Lowest(Merge(m, p), l) /\ Held(Merge(m, p), u)
      BY <1>1, MergeFree
    <2>3. s = [mem |-> Merge(m, p), lfree |-> l]
      BY <1>1, <2>2 DEF PlugForward, Merge
    <2> DEFINE k == Merge(m, p)
    <2> HIDE DEF k, s
    <2>4. s.mem = k /\ s.lfree = l
      BY <2>3 DEF k
    <2>5. MergeOf(k, m, p, n) /\ Chain(k) /\ Lowest(k, l) /\ Held(k, u)
      BY <2>1, <2>2 DEF k
    <2>6. p \in DOMAIN k /\ ~k[p].used
      BY <2>5 DEF MergeOf
    <2>7. ASSUME NEW r \in DOMAIN k, k[r].next # MemSize
          PROVE  k[r].used \/ k[k[r].next].used \/ k[r].next = p
      <3>0. k[r].next \in DOMAIN k
        BY <2>5, <2>7 DEF Chain
      <3>1. CASE r = p
        <4>1. m[n].next # MemSize /\ k[p].next = m[n].next /\ n # p
          BY <2>5, <2>7, <3>1 DEF MergeOf, Chain
        <4>2. n \in DOMAIN m \ {p} /\ m[n].next # p
          <5>1. /\ n \in DOMAIN m /\ m[n].next > n /\ n > p
                /\ p \in Nat /\ n \in Nat /\ m[n].next \in Nat
            BY <2>5, MemAssumption DEF MergeOf, Chain, Header
          <5> QED
            BY <5>1
        <4>3. m[m[n].next].used
          BY <1>1, <4>1, <4>2
        <4> QED
          BY <2>5, <3>0, <3>1, <4>1, <4>3 DEF MergeOf
      <3>2. CASE r # p
        <4>1. r \in DOMAIN m \ {p} /\ k[r].next = m[r].next /\ k[r].used = m[r].used
          BY <2>5, <3>2 DEF MergeOf
        <4>2. k[k[r].next].used = m[k[r].next].used
          BY <2>5, <3>0 DEF MergeOf
        <4> QED
          BY <2>7, <4>1, <4>2
      <3> QED
        BY <3>1, <3>2
    <2> QED
      BY <2>4, <2>5, <2>6, <2>7 DEF Plugging, s
  <1>2. CASE ~(n # MemSize /\ ~m[n].used)
    <2>1. s = [mem |-> m, lfree |-> l]
      BY <1>2 DEF PlugForward
    <2> HIDE DEF s
    <2>2. s.mem = m /\ s.lfree = l
      BY <2>1
    <2> QED
      BY <1>2, <2>2 DEF Plugging, s
  <1> QED
    BY <1>1, <1>2

\* The backward half of plug_holes leaves a heap in which no free blocks touch.
LEMMA BackwardPlugs ==
    ASSUME NEW s, NEW p, NEW u, Plugging(s, p, u)
    PROVE  LET t == PlugBackward(s, p) IN
             Chain(t.mem) /\ Apart(t.mem) /\ Lowest(t.mem, t.lfree) /\ Held(t.mem, u)
  <1> DEFINE m == s.mem
             b == m[p].prev
             t == PlugBackward(s, p)
  <1>0. /\ Chain(m) /\ p \in DOMAIN m /\ ~m[p].used /\ Lowest(m, s.lfree) /\ Held(m, u)
        /\ \A r \in DOMAIN m :
             m[r].next # MemSize => m[r].used \/ m[m[r].next].used \/ m[r].next = p
    BY DEF Plugging
  <1>00. MemSize \in Nat /\ \A i \in DOMAIN m : i \in Nat /\ i < MemSize
    BY <1>0, MemAssumption DEF Chain
  <1>1. CASE b # p /\ ~m[b].used
    <2>1. p # 0
      BY <1>0, <1>1 DEF Chain
    <2>2. b \in DOMAIN m /\ b < p /\ m[b].next = p
      BY <1>0, <2>1, PrevIs
    <2>3. m[b].next # MemSize
      BY <1>0, <1>00, <2>2
    <2>4. MergeOf(Merge(m, b), m, b, p) /\ Chain(Merge(m, b))
      BY <1>0, <2>2, <2>3, MergeValues, MergeChain
    <2>5. s.lfree # p /\ Lowest(Merge(m, b), s.lfree) /\ Held(Merge(m, b), u)
      BY <1>0, <1>1, <2>2, <2>3, MergeFree
    <2>6. t = [mem |-> Merge(m, b), lfree |-> s.lfree]
      BY <1>1, <2>2, <2>5 DEF PlugBackward, Merge
    <2> DEFINE k == Merge(m, b)
    <2> HIDE DEF k, t, m
    <2>7. t.mem = k /\ t.lfree = s.lfree
      BY <2>6 DEF k
    <2>8. MergeOf(k, m, b, p) /\ Chain(k) /\ Lowest(k, s.lfree) /\ Held(k, u)
      BY <2>4, <2>5 DEF k
    <2>9. Apart(k)
      <3> SUFFICES ASSUME NEW r \in DOMAIN k, k[r].next # MemSize
                   PROVE  k[r].used \/ k[k[r].next].used
        BY DEF Apart
      <3>0. k[r].next \in DOMAIN k
        BY <2>8 DEF Chain
      <3>1. k[k[r].next].used = m[k[r].next].used /\ k[r].used = m[r].used /\ k[r].next # p
        BY <2>8, <3>0 DEF MergeOf
      <3>2. CASE r = b
        <4>1. k[r].next = m[p].next
          BY <2>8, <3>2 DEF MergeOf
        <4> QED
          BY <1>0, <3>1, <4>1
      <3>3. CASE r # b
        <4>1. k[r].next = m[r].next /\ r \in DOMAIN m
          BY <2>8, <3>3 DEF MergeOf
        <4> QED
          BY <1>0, <3>1, <4>1
      <3> QED
        BY <3>2, <3>3
    <2> QED
      BY <2>7, <2>8, <2>9 DEF t
  <1>2. CASE ~(b # p /\ ~m[b].used)
    <2>1. t = s
      BY <1>2 DEF PlugBackward
    <2>2. \A r \in DOMAIN m : m[r].next = p => m[r].used
      <3> SUFFICES ASSUME NEW r \in DOMAIN m, m[r].next = p PROVE m[r].used
        OBVIOUS
      <3>1. p # MemSize
        BY <1>0, <1>00
      <3>2. b = r /\ p > r
        BY <1>0, <3>1 DEF Chain
      <3> QED
        BY <1>0, <1>00, <1>2, <3>2
    <2>3. Apart(m)
      BY <1>0, <2>2 DEF Apart
    <2> QED
      BY <1>0, <2>1, <2>3
  <1> QED
    BY <1>1, <1>2

\* mem_free keeps the invariant.
LEMMA FreeInv ==
    ASSUME MemInv, NEW p \in DOMAIN user, Free(p)
    PROVE  MemInv'
  <1> DEFINE m == [mem EXCEPT ![p].used = FALSE]
             l == IF p < lfree THEN p ELSE lfree
             s == PlugHoles([mem |-> m, lfree |-> l], p)
  <1>0. MemSize \in Nat /\ \A i \in DOMAIN mem : i \in Nat /\ i < MemSize
    BY MemAssumption DEF MemInv, Chain
  <1>1. mem' = s.mem /\ lfree' = s.lfree /\ user' = Without(user, p) /\ UNCHANGED asserted
    BY DEF Free
  <1>2. p \in DOMAIN mem /\ mem[p].used
    BY DEF MemInv, Held
  <1>3. /\ DOMAIN m = DOMAIN mem /\ Chain(m)
        /\ \A r \in DOMAIN mem : m[r].next = mem[r].next
        /\ m[p].used = FALSE
        /\ \A r \in DOMAIN mem \ {p} : m[r].used = mem[r].used
    BY <1>2, MarkValues DEF MemInv
  <1> HIDE DEF m
  <1>4. Lowest(m, l)
    <2>1. lfree \in Nat
      BY <1>0 DEF MemInv, Lowest
    <2>2. \A i \in DOMAIN m : ~m[i].used => l <= i
      BY <1>0, <1>2, <1>3, <2>1 DEF MemInv, Lowest
    <2>3. l = MemSize \/ (l \in DOMAIN m /\ ~m[l].used)
      BY <1>0, <1>2, <1>3, <2>1 DEF MemInv, Lowest
    <2> QED
      BY <2>2, <2>3 DEF Lowest
  <1>5. Held(m, user')
    <2>1. /\ DOMAIN user' = DOMAIN user \ {p} /\ user' \in [DOMAIN user' -> Nat]
          /\ \A r \in DOMAIN user \ {p} : user'[r] = user[r]
      BY <1>1 DEF Without, MemInv, Held
    <2>2. DOMAIN user' = {r \in DOMAIN m : m[r].used}
      BY <1>2, <1>3, <2>1 DEF MemInv, Held
    <2>3. \A r \in DOMAIN user' : user'[r] <= DataSize(m, r)
      BY <1>3, <2>1 DEF MemInv, Held, DataSize
    <2> QED
      BY <2>1, <2>2, <2>3 DEF Held
  <1>6. \A r \in DOMAIN m \ {p} :
          m[r].next # MemSize => m[r].used \/ m[m[r].next].used \/ m[r].next = p
    BY <1>3 DEF MemInv, Apart, Chain
  <1>7. Plugging(PlugForward([mem |-> m, lfree |-> l], p), p, user')
    <2> HIDE DEF l
    <2> QED
      BY <1>2, <1>3, <1>4, <1>5, <1>6, ForwardPlugs
  <1>8. Chain(s.mem) /\ Apart(s.mem) /\ Lowest(s.mem, s.lfree) /\ Held(s.mem, user')
    BY <1>7, BackwardPlugs DEF PlugHoles
  <1> QED
    BY <1>1, <1>8 DEF MemInv

\* Cutting off the end of a block in front of a free one is a merge and a split.
LEMMA TrimSplit ==
    ASSUME NEW m, Chain(m), NEW p \in DOMAIN m, m[p].next # MemSize,
           NEW q \in Nat, p < q, q < m[p].next
    PROVE  LET n == m[p].next IN
             SplitOf(Split(Without(m, n), p, q, m[n].next), Merge(m, p), p, q)
  <1> DEFINE n == m[p].next
             o == m[n].next
             h == [next |-> o, prev |-> p, used |-> FALSE]
             a == Without(m, n)
             b == [a EXCEPT ![p].next = q]
             c == With(b, q, h)
             k == Split(Without(m, n), p, q, o)
             g == Merge(m, p)
  <1>0. MemSize \in Nat /\ \A i \in DOMAIN m : i \in Nat /\ i < MemSize /\ m[i].next \in Nat
    BY MemAssumption DEF Chain, Header
  <1>1. MergeOf(g, m, p, n)
    BY MergeValues
  <1>2. /\ n \in DOMAIN m /\ n > p /\ o > n /\ o \in 1 .. MemSize /\ (o = MemSize \/ o \in DOMAIN m)
        /\ q \notin DOMAIN m /\ q \in 1 .. MemSize - 1 /\ p \in 0 .. MemSize - 1
        /\ p # n /\ p # o /\ q # o /\ q # n /\ q \in 1 .. MemSize
    BY <1>0 DEF Chain, Header
  <1>3. DOMAIN a = DOMAIN m \ {n} /\ a \in [DOMAIN m \ {n} -> Header] /\ p \in DOMAIN a
        /\ \A r \in DOMAIN m \ {n} : a[r] = m[r]
    BY <1>2 DEF Without, Chain
  <1> HIDE DEF a
  <1>4. /\ DOMAIN b = DOMAIN a /\ b \in [DOMAIN a -> Header]
        /\ b[p].next = q /\ b[p].prev = m[p].prev /\ b[p].used = m[p].used
        /\ \A r \in DOMAIN a \ {p} : b[r] = m[r]
    BY <1>2, <1>3 DEF Header
  <1> HIDE DEF b
  <1>5. h \in Header /\ h.next = o /\ h.prev = p /\ h.used = FALSE
    BY <1>2 DEF Header
  <1> HIDE DEF h
  <1>6. /\ DOMAIN c = DOMAIN a \cup {q} /\ c \in [DOMAIN a \cup {q} -> Header]
        /\ c[q] = h /\ \A r \in DOMAIN a : c[r] = b[r]
    BY <1>2, <1>3, <1>4, <1>5 DEF With
  <1>7. k = SetPrev(c, o, q)
    BY DEF Split, a, b, h
  <1> HIDE DEF c, k
  <1>8. /\ DOMAIN k = DOMAIN c /\ k \in [DOMAIN c -> Header]
        /\ \A r \in DOMAIN c : /\ k[r].next = c[r].next /\ k[r].used = c[r].used
                               /\ k[r].prev = IF r = o THEN q ELSE c[r].prev
    <2>1. CASE o = MemSize
      <3>1. k = c
        BY <1>7, <2>1 DEF SetPrev
      <3>2. \A r \in DOMAIN c : r # o
        BY <1>0, <1>2, <1>3, <1>6, <2>1
      <3> QED
        BY <1>6, <3>1, <3>2
    <2>2. CASE o # MemSize
      <3>1. k = [c EXCEPT ![o].prev = q]
        BY <1>7, <2>2 DEF SetPrev
      <3>2. o \in DOMAIN c
        BY <1>0, <1>2, <1>3, <1>6, <2>2
      <3> QED
        BY <1>2, <1>6, <3>1, <3>2 DEF Header
    <2> QED
      BY <2>1, <2>2
  <1> HIDE DEF g
  <1>9. /\ DOMAIN g = DOMAIN a /\ g[p].next = o
        /\ \A r \in DOMAIN a : g[r].used = m[r].used
        /\ \A r \in DOMAIN a \ {p} : g[r].next = m[r].next
        /\ \A r \in DOMAIN a : r # o => g[r].prev = m[r].prev
    BY <1>1, <1>2, <1>3 DEF MergeOf
  <1>10. SplitOf(k, g, p, q)
    <2>1. DOMAIN k = DOMAIN g \cup {q} /\ k \in [DOMAIN k -> Header] /\ q \notin DOMAIN g
      BY <1>2, <1>3, <1>6, <1>8, <1>9
    <2>2. k[p].next = q /\ k[q].next = o /\ k[q].prev = p /\ k[q].used = FALSE
      BY <1>2, <1>3, <1>4, <1>5, <1>6, <1>8
    <2>3. \A r \in DOMAIN g : k[r].used = g[r].used
      BY <1>3, <1>4, <1>6, <1>8, <1>9
    <2>4. \A r \in DOMAIN g \ {p} : k[r].next = g[r].next
      BY <1>3, <1>4, <1>6, <1>8, <1>9
    <2>5. \A r \in DOMAIN g : k[r].prev = IF r = o THEN q ELSE g[r].prev
      BY <1>3, <1>4, <1>6, <1>8, <1>9
    <2> QED
      BY <1>9, <2>1, <2>2, <2>3, <2>4, <2>5 DEF SplitOf
  <1> QED
    BY <1>10 DEF k, g

\* mem_trim keeps the invariant in each of its cases.
LEMMA TrimInv ==
    ASSUME MemInv, NEW p \in DOMAIN user, NEW n \in Sizes, Trim(p, n)
    PROVE  MemInv'
  <1> DEFINE newsize == AtLeastMin(n)
             size == DataSize(mem, p)
             next == mem[p].next
             q == p + SizeofMem + newsize
  <1>0. /\ MemSize \in Nat /\ SizeofMem \in Nat \ {0} /\ MinSize \in Nat \ {0} /\ n \in Nat
        /\ \A i \in DOMAIN mem : i \in Nat /\ i < MemSize /\ mem[i].next \in Nat
    BY MemAssumption DEF MemInv, Chain, Header
  <1>1. newsize \in Nat /\ newsize >= n
    BY <1>0 DEF AtLeastMin
  <1>2. p \in DOMAIN mem /\ mem[p].used /\ user[p] <= size /\ user[p] \in Nat /\ p \in Nat
    BY <1>0 DEF MemInv, Held
  <1>3. /\ n < user[p] /\ user' = [user EXCEPT ![p] = n]
        /\ DOMAIN user' = DOMAIN user /\ user' \in [DOMAIN user -> Nat] /\ user'[p] = n
        /\ \A r \in DOMAIN user \ {p} : user'[r] = user[r]
    BY <1>0 DEF Trim, MemInv, Held
  <1>4. /\ next > p /\ (next = MemSize \/ next \in DOMAIN mem)
        /\ \A r \in DOMAIN mem : ~(p < r /\ r < next)
    BY <1>2 DEF MemInv, Chain
  <1>5. lfree \in Nat /\ \A i \in DOMAIN mem : ~mem[i].used => lfree <= i
    BY <1>0 DEF MemInv, Lowest
  <1> HIDE DEF newsize
  (* What both ways of making a free block at q have in common.            *)
  <1>6. ASSUME newsize < size, NEW g, Chain(g), p \in DOMAIN g,
               DOMAIN g \subseteq DOMAIN mem,
               g[p].next = MemSize \/ g[g[p].next].used, q < g[p].next,
               \A r \in DOMAIN g : g[r].used = mem[r].used,
               \A r \in DOMAIN mem \ DOMAIN g : ~mem[r].used,
               \A r \in DOMAIN g \ {p} : g[r].next = mem[r].next,
               SplitOf(mem', g, p, q)
        PROVE  Chain(mem') /\ Apart(mem') /\ Held(mem', user')
    <2>1. q \in Nat /\ p < q
      BY <1>0, <1>1, <1>2
    <2>2. Chain(mem')
      BY <1>6, <2>1, SplitChain
    <2>3. /\ DOMAIN mem' = DOMAIN g \cup {q} /\ q \notin DOMAIN g
          /\ mem'[p].next = q /\ mem'[q].next = g[p].next /\ mem'[q].used = FALSE
          /\ \A r \in DOMAIN g : mem'[r].used = mem[r].used
          /\ \A r \in DOMAIN g \ {p} : mem'[r].next = mem[r].next
      BY <1>6 DEF SplitOf
    <2>4. Apart(mem')
      <3> SUFFICES ASSUME NEW r \in DOMAIN mem', mem'[r].next # MemSize
                   PROVE  mem'[r].used \/ mem'[mem'[r].next].used
        BY DEF Apart
      <3>1. CASE r = p
        BY <1>2, <1>6, <2>3, <3>1
      <3>2. CASE r = q
        <4>1. g[p].next \in DOMAIN g
          BY <1>6, <2>3, <3>2 DEF Chain
        <4> QED
          BY <1>6, <2>3, <3>2, <4>1
      <3>3. CASE r \in DOMAIN g \ {p}
        <4>1. /\ g[r].next \in DOMAIN g /\ g[r].next = mem[r].next
              /\ mem[r].next # MemSize /\ r \in DOMAIN mem
          BY <1>6, <2>3, <3>3 DEF Chain
        <4>2. mem[r].used \/ mem[mem[r].next].used
          BY <4>1 DEF MemInv, Apart
        <4> QED
          BY <2>3, <3>3, <4>1, <4>2
      <3> QED
        BY <2>3, <3>1, <3>2, <3>3
    <2>5. DOMAIN user' = {r \in DOMAIN mem' : mem'[r].used}
      BY <1>3, <1>6, <2>3 DEF MemInv, Held
    <2>6. n <= DataSize(mem', p)
      BY <1>0, <1>1, <1>2, <2>3 DEF DataSize
    <2>7. \A r \in DOMAIN user \ {p} : user[r] <= DataSize(mem', r)
      <3>1. \A r \in DOMAIN user \ {p} : r \in DOMAIN g \ {p}
        BY <1>6 DEF MemInv, Held
      <3> QED
        BY <2>3, <3>1 DEF MemInv, Held, DataSize
    <2>8. Held(mem', user')
      BY <1>3, <2>5, <2>6, <2>7 DEF Held
    <2> QED
      BY <2>2, <2>4, <2>8
  <1>7. CASE /\ newsize < size /\ next # MemSize /\ ~mem[next].used
             /\ mem' = Split(Without(mem, next), p, q, mem[next].next)
             /\ lfree' = IF lfree = next THEN q ELSE lfree
             /\ UNCHANGED asserted
    <2> DEFINE g == Merge(mem, p)
    <2>1. q \in Nat /\ p < q /\ q < next
      BY <1>0, <1>1, <1>2, <1>7 DEF DataSize
    <2>2. MergeOf(g, mem, p, next) /\ Chain(g)
      BY <1>2, <1>7, MergeValues, MergeChain DEF MemInv
    <2>3. SplitOf(mem', g, p, q)
      <3> HIDE DEF q
      <3> QED
        BY <1>2, <1>7, <2>1, TrimSplit DEF MemInv
    <2> HIDE DEF g
    <2>4. next \in DOMAIN mem /\ mem[next].next \in Nat /\ mem[next].next > next
      BY <1>0, <1>4, <1>7 DEF MemInv, Chain
    <2>5. g[p].next = mem[next].next /\ q < g[p].next /\ p \in DOMAIN g
      BY <1>0, <2>1, <2>2, <2>4 DEF MergeOf
    <2>6. g[p].next = MemSize \/ g[g[p].next].used
      <3>1. mem[next].next # MemSize => mem[mem[next].next].used
        BY <1>7, <2>4 DEF MemInv, Apart
      <3>2. g[p].next # MemSize => g[p].next \in DOMAIN g
        BY <2>2, <2>5 DEF Chain
      <3> QED
        BY <2>2, <2>5, <3>1, <3>2 DEF MergeOf
    <2>7. /\ DOMAIN g = DOMAIN mem \ {next}
          /\ \A r \in DOMAIN g : g[r].used = mem[r].used
          /\ \A r \in DOMAIN g \ {p} : g[r].next = mem[r].next
      BY <2>2 DEF MergeOf
    <2>8. Chain(mem') /\ Apart(mem') /\ Held(mem', user')
      BY <1>6, <1>7, <2>2, <2>3, <2>5, <2>6, <2>7
    <2>9. Lowest(mem', lfree')
      <3>1. /\ DOMAIN mem' = DOMAIN g \cup {q} /\ mem'[q].used = FALSE
            /\ \A r \in DOMAIN g : mem'[r].used = mem[r].used
        BY <2>3, <2>7 DEF SplitOf
      <3>2. CASE lfree = next
        <4>1. \A i \in DOMAIN mem' : ~mem'[i].used => q <= i
          BY <1>0, <1>5, <2>1, <2>7, <3>1, <3>2
        <4> QED
          BY <1>7, <3>1, <3>2, <4>1 DEF Lowest
      <3>3. CASE lfree # next
        <4>1. lfree \in DOMAIN mem /\ ~mem[lfree].used /\ lfree < next
          BY <1>0, <1>5, <1>7, <2>4, <3>3 DEF MemInv, Lowest
        <4>2. lfree # p
          BY <1>2, <4>1
        <4>3. lfree < q
          BY <1>0, <1>2, <1>4, <2>1, <4>1, <4>2
        <4>4. \A i \in DOMAIN mem' : ~mem'[i].used => lfree <= i
          BY <1>0, <1>5, <2>1, <2>7, <3>1, <4>3
        <4>5. lfree \in DOMAIN mem' /\ ~mem'[lfree].used
          BY <2>7, <3>1, <3>3, <4>1
        <4> QED
          BY <1>7, <3>3, <4>4, <4>5 DEF Lowest
      <3> QED
        BY <3>2, <3>3
    <2> QED
      BY <1>7, <2>8, <2>9 DEF MemInv
  <1>8. CASE /\ newsize < size /\ newsize + SizeofMem + MinSize <= size
             /\ next # MemSize /\ mem[next].used
             /\ mem' = Split(mem, p, q, next)
             /\ lfree' = IF q < lfree THEN q ELSE lfree
             /\ UNCHANGED asserted
    <2>1. q \in Nat /\ p < q /\ q < next
      BY <1>0, <1>1, <1>2, <1>8 DEF DataSize
    <2>2. SplitOf(mem', mem, p, q)
      <3> HIDE DEF q
      <3> QED
        BY <1>2, <1>8, <2>1, SplitValues DEF MemInv
    <2>3. Chain(mem') /\ Apart(mem') /\ Held(mem', user')
      BY <1>2, <1>6, <1>8, <2>1, <2>2 DEF MemInv
    <2>4. Lowest(mem', lfree')
      <3>1. /\ DOMAIN mem' = DOMAIN mem \cup {q} /\ mem'[q].used = FALSE
            /\ \A r \in DOMAIN mem : mem'[r].used = mem[r].used
        BY <2>2 DEF SplitOf
      <3>2. \A i \in DOMAIN mem' : ~mem'[i].used => lfree' <= i
        BY <1>0, <1>5, <1>8, <2>1, <3>1
      <3>3. lfree' = MemSize \/ (lfree' \in DOMAIN mem' /\ ~mem'[lfree'].used)
        BY <1>8, <3>1 DEF MemInv, Lowest
      <3> QED
        BY <3>2, <3>3 DEF Lowest
    <2> QED
      BY <1>8, <2>3, <2>4 DEF MemInv
  <1>9. CASE UNCHANGED <<mem, lfree>> /\ asserted' \in BOOLEAN
    <2>1. \A r \in DOMAIN user : user'[r] <= DataSize(mem, r)
      <3>1. n <= size
        BY <1>0, <1>2, <1>3 DEF DataSize
      <3> QED
        BY <1>3, <3>1 DEF MemInv, Held
    <2>2. Held(mem', user')
      BY <1>3, <1>9, <2>1 DEF MemInv, Held, DataSize
    <2> QED
      BY <1>9, <2>2 DEF MemInv, Chain, Apart, Lowest
  <1> QED
    BY <1>4, <1>7, <1>8, <1>9 DEF Trim, MemInv, newsize

-----------------------------------------------------------------------------
\* mem_init makes one free block of the whole heap.
LEMMA MemInitInv == MemInit => MemInv
  <1> SUFFICES ASSUME MemInit PROVE MemInv
    OBVIOUS
  <1>1. MemSize \in Nat \ {0}
    BY MemAssumption
  <1>2. DOMAIN mem = {0} /\ mem[0] = [next |-> MemSize, prev |-> 0, used |-> FALSE]
    BY DEF MemInit
  <1>3. mem[0].next = MemSize /\ mem[0].prev = 0 /\ mem[0].used = FALSE /\ mem[0] \in Header
    BY <1>1, <1>2 DEF Header
  <1>4. Chain(mem)
    <2>1. mem \in [{0} -> Header]
      BY <1>3 DEF MemInit
    <2> QED
      BY <1>1, <1>2, <1>3, <2>1 DEF Chain
  <1>5. Apart(mem) /\ Lowest(mem, lfree)
    BY <1>2, <1>3 DEF Apart, Lowest, MemInit
  <1>6. Held(mem, user)
    BY <1>2, <1>3 DEF Held, MemInit
  <1> QED
    BY <1>4, <1>5, <1>6 DEF MemInv, MemInit

\* Every call keeps the invariant.
LEMMA MemStepInv == MemInv /\ [MemNext]_memVars => MemInv'
  <1> SUFFICES ASSUME MemInv, [MemNext]_memVars PROVE MemInv'
    OBVIOUS
  <1>1. CASE \E n \in Sizes : Malloc(n)
    BY <1>1, MallocInv
  <1>2. CASE \E p \in DOMAIN user : Free(p)
    BY <1>2, FreeInv
  <1>3. CASE \E p \in DOMAIN user, n \in Sizes : Trim(p, n)
    BY <1>3, TrimInv
  <1>4. CASE UNCHANGED memVars
    BY <1>4 DEF memVars, MemInv, Chain, Apart, Lowest, Held, DataSize
  <1> QED
    BY <1>1, <1>2, <1>3, <1>4 DEF MemNext

\* What mem_sanity asks for follows from the invariant.
LEMMA InvMemSound == MemInv => MemSound
  <1> SUFFICES ASSUME MemInv PROVE MemSound
    OBVIOUS
  <1>1. MemTypeOK
    BY MemAssumption DEF MemInv, MemTypeOK, Chain, Header, Lowest, Held
  <1>2. lfree = NextFree(mem, 0)
    BY LowestIsNextFree DEF MemInv, Chain
  <1>3. \A p \in DOMAIN mem :
          LET n == mem[p].next IN
            /\ n > p /\ (n = MemSize \/ n \in DOMAIN mem)
            /\ n # MemSize => mem[n].prev = p /\ (mem[p].used \/ mem[n].used)
            /\ \A q \in DOMAIN mem : ~(p < q /\ q < n)
    BY DEF MemInv, Chain, Apart
  <1>4. 0 \in DOMAIN mem /\ mem[0].prev = 0
    BY DEF MemInv, Chain
  <1>5. /\ DOMAIN user = {p \in DOMAIN mem : mem[p].used}
        /\ \A p \in DOMAIN user : user[p] <= DataSize(mem, p)
    BY DEF MemInv, Held
  <1> QED
    BY <1>1, <1>2, <1>3, <1>4, <1>5 DEF MemSound

(* The heap is sound after any sequence of mem_malloc, mem_free and        *)
(* mem_trim, for every heap size, header size, smallest block and set of   *)
(* request sizes: plug_holes, the splits and the bookkeeping of lfree keep *)
(* the list of blocks whole, and no two blocks in use overlap.             *)
THEOREM MemSafe == MemSpec => []MemSound
  <1>1. MemInit => MemInv
    BY MemInitInv
  <1>2. MemInv /\ [MemNext]_memVars => MemInv'
    BY MemStepInv
  <1>3. MemInv => MemSound
    BY InvMemSound
  <1> QED
    BY <1>1, <1>2, <1>3, PTL DEF MemSpec
=============================================================================
