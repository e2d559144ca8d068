--------------------------------- MODULE Pbuf --------------------------------
(***************************************************************************)
(* Packet buffers (src/src/lwip/core/pbuf.c) and the fixed pool they come  *)
(* from (memp.c).  A packet is a chain of pbufs; each has its own data,    *)
(* the length of the rest of the chain, and a reference count that the     *)
(* code keeps by hand: "the number of pointers that refer to the pbuf".    *)
(* The model keeps the truth beside it: who holds a pointer to which pbuf. *)
(*                                                                         *)
(* The callers are any that keep to the rules pbuf.c states: they use a    *)
(* packet through its first pbuf, and only while they hold a pointer to    *)
(* it.                                                                     *)
(***************************************************************************)
EXTENDS Naturals, Sequences, FiniteSets

CONSTANTS
  PbufPool,   \* the pbufs of MEMP_PBUF_POOL, a set of numbers
  BufSize,    \* PBUF_POOL_BUFSIZE
  Lengths,    \* the lengths of packets allocated
  MaxTotLen,  \* bound on the length of a packet
  MaxHeld     \* bound on the pointers to one pbuf

ASSUME PbufAssumption ==
  /\ PbufPool \subseteq Nat \ {0}
  /\ {BufSize, MaxTotLen, MaxHeld} \subseteq Nat \ {0}
  /\ Lengths \subseteq 1 .. MaxTotLen

NULL == 0

VARIABLES
  pbuf,    \* the pbufs: next, data, tot_len and ref
  tab,     \* the list of free pbufs of the pool, first to be taken first
  held     \* how many pointers callers hold to each pbuf

pbufVars == <<pbuf, tab, held>>

Unused == [next |-> NULL, data |-> << >>, tot_len |-> 0, ref |-> 0]

\* The pbufs of the chain that starts at p, in order.
RECURSIVE Chain(_, _)
Chain(b, p) == IF p = NULL THEN << >> ELSE <<p>> \o Chain(b, b[p].next)

\* What the chain from p holds.
RECURSIVE Content(_, _)
Content(b, p) == IF p = NULL THEN << >> ELSE b[p].data \o Content(b, b[p].next)

In(s, p) == \E i \in DOMAIN s : s[i] = p
Smaller(a, c) == IF a < c THEN a ELSE c

\* A pbuf that no other one points to: the first of its packet.
Heads == {p \in PbufPool : held[p] > 0 /\ \A q \in PbufPool : pbuf[q].next # p}

-----------------------------------------------------------------------------
\* pbuf_free and memp_free: one reference less; a pbuf that has none left goes
\* back to the pool, and the reference it held to the next one goes with it.
RECURSIVE FreeFrom(_, _)
FreeFrom(s, p) ==
  IF p = NULL THEN s
  ELSE IF s.pbuf[p].ref > 1
  THEN [s EXCEPT !.pbuf[p].ref = @ - 1]
  ELSE FreeFrom([pbuf |-> [s.pbuf EXCEPT ![p] = Unused], tab |-> <<p>> \o s.tab],
                s.pbuf[p].next)

\* The loop of pbuf_alloc for PBUF_POOL: take pbufs off the list for what
\* remains, each with tot_len for itself and those that follow.
RECURSIVE TakeChain(_, _, _)
TakeChain(s, done, rem) ==
  LET q == Head(s.tab)
      n == Smaller(rem, BufSize)
      taken == [pbuf |-> [s.pbuf EXCEPT ![q] =
                            [next |-> IF rem > n /\ Len(s.tab) > 1
                                      THEN s.tab[2] ELSE NULL,
                             data |-> [i \in 1 .. n |-> done + i],
                             tot_len |-> rem, ref |-> 1]],
                tab |-> Tail(s.tab)]
  IN IF s.tab = << >> THEN [s |-> s, ok |-> FALSE]
     ELSE IF rem > n THEN TakeChain(taken, done + n, rem - n)
     ELSE [s |-> taken, ok |-> TRUE]

\* pbuf_alloc(PBUF_RAW, n, PBUF_POOL), and the caller fills what it got (with
\* pbuf_take or byte by byte).  When the pool runs dry midway, the pbufs taken
\* so far go back.
PbufAlloc(n) ==
  LET r == TakeChain([pbuf |-> pbuf, tab |-> tab], 0, n)
      p == Head(tab)
      s == IF r.ok \/ tab = << >> THEN r.s ELSE FreeFrom(r.s, p)
  IN /\ pbuf' = s.pbuf /\ tab' = s.tab
     /\ held' = IF r.ok THEN [held EXCEPT ![p] = 1] ELSE held

PbufFree(p) ==
  LET s == FreeFrom([pbuf |-> pbuf, tab |-> tab], p)
  IN /\ pbuf' = s.pbuf /\ tab' = s.tab
     /\ held' = [held EXCEPT ![p] = @ - 1]

PbufRef(p) ==
  /\ held[p] < MaxHeld
  /\ pbuf' = [pbuf EXCEPT ![p].ref = @ + 1]
  /\ held' = [held EXCEPT ![p] = @ + 1]
  /\ UNCHANGED tab

\* pbuf_cat: the chain from t is put behind the chain from h.
Cat(b, h, t) ==
  LET hs == Chain(b, h)
  IN [p \in PbufPool |->
        IF ~In(hs, p) THEN b[p]
        ELSE [b[p] EXCEPT !.tot_len = @ + b[t].tot_len,
                          !.next = IF p = hs[Len(hs)] THEN t ELSE @]]

\* Two packets of which neither is part of the other's chain.
Apart(h, t) == \A p \in PbufPool : ~(In(Chain(pbuf, h), p) /\ In(Chain(pbuf, t), p))

\* pbuf_cat: the caller's pointer to t becomes the chain's.
PbufCat(h, t) ==
  /\ Apart(h, t) /\ pbuf[h].tot_len + pbuf[t].tot_len <= MaxTotLen
  /\ pbuf' = Cat(pbuf, h, t)
  /\ held' = [held EXCEPT ![t] = @ - 1]
  /\ UNCHANGED tab

\* Mutant: the chain takes no reference of its own.
ChainNoRef(h, t) ==
  /\ Apart(h, t) /\ pbuf[h].tot_len + pbuf[t].tot_len <= MaxTotLen
  /\ pbuf' = Cat(pbuf, h, t)
  /\ UNCHANGED <<tab, held>>

\* pbuf_chain: the caller keeps its pointer to t.
PbufChain(h, t) ==
  /\ Apart(h, t) /\ pbuf[h].tot_len + pbuf[t].tot_len <= MaxTotLen
  /\ pbuf' = [Cat(pbuf, h, t) EXCEPT ![t].ref = @ + 1]
  /\ UNCHANGED <<tab, held>>

\* pbuf_realloc: pass the pbufs that stay whole, cut the one that becomes the
\* last, free those behind it.
RECURSIVE Shrink(_, _, _, _)
Shrink(s, q, rem, shrink) ==
  IF rem > Len(s.pbuf[q].data)
  THEN Shrink([s EXCEPT !.pbuf[q].tot_len = @ - shrink], s.pbuf[q].next,
              rem - Len(s.pbuf[q].data), shrink)
  ELSE FreeFrom([s EXCEPT !.pbuf[q].data = SubSeq(@, 1, rem),
                          !.pbuf[q].tot_len = rem,
                          !.pbuf[q].next = NULL], s.pbuf[q].next)

PbufRealloc(p, n) ==
  LET s == Shrink([pbuf |-> pbuf, tab |-> tab], p, n, pbuf[p].tot_len - n)
  IN /\ n < pbuf[p].tot_len
     /\ pbuf' = s.pbuf /\ tab' = s.tab
     /\ UNCHANGED held

\* pbuf_remove_header.
RemoveHeader(b, p, n) ==
  [b EXCEPT ![p].data = SubSeq(@, n + 1, Len(@)), ![p].tot_len = @ - n]
PbufRemoveHeader(p, n) ==
  /\ n <= Len(pbuf[p].data)
  /\ pbuf' = RemoveHeader(pbuf, p, n)
  /\ UNCHANGED <<tab, held>>

-----------------------------------------------------------------------------
\* pbuf_copy_partial: n bytes of the packet from an offset on.
RECURSIVE CopyPartial(_, _, _)
CopyPartial(p, n, offset) ==
  LET d == pbuf[p].data IN
  IF n = 0 \/ p = NULL THEN << >>
  ELSE IF offset # 0 /\ offset >= Len(d)
  THEN CopyPartial(pbuf[p].next, n, offset - Len(d))
  ELSE LET m == Smaller(Len(d) - offset, n)
       IN SubSeq(d, offset + 1, offset + m) \o CopyPartial(pbuf[p].next, n - m, 0)

\* pbuf_skip: the pbuf that holds the byte at an offset, and where in it.
RECURSIVE Skip(_, _)
Skip(q, left) ==
  IF q = NULL THEN [p |-> NULL, offset |-> left]
  ELSE IF Len(pbuf[q].data) <= left
  THEN Skip(pbuf[q].next, left - Len(pbuf[q].data))
  ELSE [p |-> q, offset |-> left]

-----------------------------------------------------------------------------
PbufInit ==
  /\ pbuf = [p \in PbufPool |-> Unused]
  /\ \E order \in [1 .. Cardinality(PbufPool) -> PbufPool] :
       /\ \A i, j \in DOMAIN order : i < j => order[i] < order[j]
       /\ tab = order
  /\ held = [p \in PbufPool |-> 0]

PbufNext ==
  \/ \E n \in Lengths : PbufAlloc(n)
  \/ \E p \in PbufPool : held[p] > 0 /\ (PbufFree(p) \/ PbufRef(p))
  \/ \E h, t \in Heads : h # t /\ (PbufCat(h, t) \/ PbufChain(h, t))
  \/ \E p \in Heads, n \in 0 .. MaxTotLen : PbufRealloc(p, n)
  \/ \E p \in Heads, n \in 1 .. MaxTotLen : PbufRemoveHeader(p, n)

PbufSpec == PbufInit /\ [][PbufNext]_pbufVars

-----------------------------------------------------------------------------
PbufTypeOK ==
  /\ \A p \in PbufPool :
       /\ pbuf[p].next \in PbufPool \cup {NULL}
       /\ Len(pbuf[p].data) <= BufSize
       /\ pbuf[p].tot_len \in 0 .. MaxTotLen
       /\ pbuf[p].ref \in 0 .. MaxHeld + 1
  /\ held \in [PbufPool -> 0 .. MaxHeld]

\* Reading across pbufs is reading the packet: pbuf_copy_partial returns the
\* bytes at that offset, as many as there are, and pbuf_skip finds the byte,
\* however the packet is spread over its chain, empty pbufs included.
CopiesExact ==
  \A p \in {q \in PbufPool : held[q] > 0}, n \in 0 .. MaxTotLen, offset \in 0 .. MaxTotLen :
    LET c == Content(pbuf, p)
        s == Skip(p, offset)
    IN /\ CopyPartial(p, n, offset) = SubSeq(c, offset + 1, Smaller(offset + n, Len(c)))
       /\ IF offset < Len(c) THEN pbuf[s.p].data[s.offset + 1] = c[offset + 1]
                             ELSE s.p = NULL

\* After any legal sequence of calls the counts kept by hand are the truth:
\* ref is the number of pointers to the pbuf, those of callers and those of
\* other pbufs; tot_len is what the chain really holds; and a pbuf is on the
\* free list exactly when nobody points to it, and only once.  And so reading
\* a packet reads what was written.
PbufSound ==
  /\ PbufTypeOK
  /\ \A p \in PbufPool :
       /\ pbuf[p].ref = held[p] + Cardinality({q \in PbufPool : pbuf[q].next = p})
       /\ pbuf[p].tot_len = Len(Content(pbuf, p))
       /\ (pbuf[p].ref = 0) <=> In(tab, p)
  /\ \A i, j \in DOMAIN tab : tab[i] = tab[j] => i = j
  /\ CopiesExact

=============================================================================
