--------------------------------- MODULE Mem ---------------------------------
(***************************************************************************)
(* The heap of lwIP (src/src/lwip/core/mem.c): blocks linked both ways     *)
(* through indices into one array, a pointer to the lowest free block, and *)
(* mem_malloc, mem_trim and mem_free.  All sizes are in units of           *)
(* MEM_ALIGNMENT, so that alignment is done.  The callers free and trim    *)
(* only what they hold.                                                    *)
(*                                                                         *)
(* An LWIP_ASSERT that fails prints its message and hangs (cc.h); the      *)
(* model then takes no further step.                                       *)
(***************************************************************************)
EXTENDS Naturals

CONSTANTS
  MemSize,     \* MEM_SIZE_ALIGNED, the index of ram_end
  SizeofMem,   \* SIZEOF_STRUCT_MEM
  MinSize,     \* MIN_SIZE_ALIGNED
  Sizes        \* the sizes asked for

ASSUME MemAssumption ==
  /\ {MemSize, SizeofMem, MinSize} \subseteq Nat \ {0}
  /\ Sizes \subseteq Nat \ {0}

VARIABLES
  mem,        \* the blocks: their headers, by index
  lfree,      \* the index of the lowest free block
  user,       \* the size each holder of a block believes to have, by index
  asserted    \* an assertion failed

memVars == <<mem, lfree, user, asserted>>

\* Every data block is at least MIN_SIZE_ALIGNED long.
AtLeastMin(n) == IF n < MinSize THEN MinSize ELSE n

\* The header at p takes new values; q is no header any more; p is a new one.
Without(m, q) == [i \in DOMAIN m \ {q} |-> m[i]]
With(m, p, h) == [i \in DOMAIN m \cup {p} |-> IF i = p THEN h ELSE m[i]]

\* The block after n gets p as its predecessor, unless that is ram_end.
SetPrev(m, n, p) == IF n = MemSize THEN m ELSE [m EXCEPT ![n].prev = p]

DataSize(m, p) == m[p].next - (p + SizeofMem)

\* A free block that starts at p2, between p and what follows p.
Split(m, p, p2, next) ==
  SetPrev(With([m EXCEPT ![p].next = p2], p2,
               [next |-> next, prev |-> p, used |-> FALSE]), next, p2)

-----------------------------------------------------------------------------
\* Mutant: the block behind the merged ones keeps its link back to a header
\* that is gone.
PlugNoBackLink(s, p) ==
  LET n == s.mem[p].next
  IN IF n # MemSize /\ ~s.mem[n].used
     THEN [mem |-> Without([s.mem EXCEPT ![p].next = s.mem[n].next], n),
           lfree |-> IF s.lfree = n THEN p ELSE s.lfree]
     ELSE s

\* plug_holes: merge a free block with a free successor, then with a free
\* predecessor.
PlugForward(s, p) ==
  LET n == s.mem[p].next
  IN IF n # MemSize /\ ~s.mem[n].used
     THEN [mem |-> SetPrev(Without([s.mem EXCEPT ![p].next = s.mem[n].next], n),
                           s.mem[n].next, p),
           lfree |-> IF s.lfree = n THEN p ELSE s.lfree]
     ELSE s
PlugBackward(s, p) ==
  LET b == s.mem[p].prev
  IN IF b # p /\ ~s.mem[b].used
     THEN [mem |-> SetPrev(Without([s.mem EXCEPT ![b].next = s.mem[p].next], p),
                           s.mem[p].next, b),
           lfree |-> IF s.lfree = p THEN b ELSE s.lfree]
     ELSE s
PlugHoles(s, p) == PlugBackward(PlugForward(s, p), p)

\* The blocks the search of mem_malloc accepts, from the lowest free one on.
Fitting(size) ==
  {p \in DOMAIN mem : /\ p >= lfree /\ p + size < MemSize
                      /\ ~mem[p].used /\ DataSize(mem, p) >= size}

\* The lowest free block from p on, or ram_end.
NextFree(m, p) ==
  LET free == {i \in DOMAIN m : i >= p /\ ~m[i].used}
  IN IF free = {} THEN MemSize ELSE CHOOSE i \in free : \A j \in free : i <= j

\* mem_malloc: the first block that fits, split if what remains can be a
\* block; nothing happens if none fits.
Malloc(n) ==
  LET size == AtLeastMin(n)
      fits == Fitting(size)
      p == CHOOSE i \in fits : \A j \in fits : i <= j
      taken == [mem EXCEPT ![p].used = TRUE]
      new == IF DataSize(mem, p) >= size + SizeofMem + MinSize
             THEN Split(taken, p, p + SizeofMem + size, mem[p].next)
             ELSE taken
  IN /\ ~asserted
     /\ fits # {}
     /\ mem' = new
     /\ lfree' = IF p = lfree THEN NextFree(new, p) ELSE lfree
     /\ user' = With(user, p, n)
     /\ UNCHANGED asserted

\* mem_free.
Free(p) ==
  LET s == PlugHoles([mem |-> [mem EXCEPT ![p].used = FALSE],
                      lfree |-> IF p < lfree THEN p ELSE lfree], p)
  IN /\ ~asserted
     /\ mem' = s.mem /\ lfree' = s.lfree
     /\ user' = Without(user, p)
     /\ UNCHANGED asserted

\* mem_trim: what is cut off joins the free block behind it, or becomes one
\* if it is big enough.  Both ways assert that the block is not the last.
Trim(p, n) ==
  LET newsize == AtLeastMin(n)
      size == DataSize(mem, p)
      next == mem[p].next
      p2 == p + SizeofMem + newsize
      freeNext == next # MemSize /\ ~mem[next].used
      room == newsize + SizeofMem + MinSize <= size
  IN /\ ~asserted
     /\ n < user[p]
     /\ user' = [user EXCEPT ![p] = n]
     /\ \/ /\ newsize < size /\ freeNext
           /\ mem' = Split(Without(mem, next), p, p2, mem[next].next)
           /\ lfree' = IF lfree = next THEN p2 ELSE lfree
           /\ UNCHANGED asserted
        \/ /\ newsize < size /\ ~freeNext /\ room /\ next # MemSize
           /\ mem' = Split(mem, p, p2, next)
           /\ lfree' = IF p2 < lfree THEN p2 ELSE lfree
           /\ UNCHANGED asserted
        \/ /\ newsize < size /\ ~freeNext /\ room /\ next = MemSize
           /\ asserted' = TRUE
           /\ UNCHANGED <<mem, lfree>>
        \/ /\ newsize = size \/ (~freeNext /\ ~room)
           /\ UNCHANGED <<mem, lfree, asserted>>

\* mem_init.
MemInit ==
  /\ mem = [i \in {0} |-> [next |-> MemSize, prev |-> 0, used |-> FALSE]]
  /\ lfree = 0
  /\ user = [i \in {} |-> 0]
  /\ asserted = FALSE

MemNext ==
  \/ \E n \in Sizes : Malloc(n)
  \/ \E p \in DOMAIN user : Free(p)
  \/ \E p \in DOMAIN user, n \in Sizes : Trim(p, n)

MemSpec == MemInit /\ [][MemNext]_memVars

-----------------------------------------------------------------------------
MemTypeOK ==
  /\ DOMAIN mem \subseteq 0 .. MemSize - 1
  /\ \A p \in DOMAIN mem :
       mem[p] \in [next : 1 .. MemSize, prev : 0 .. MemSize - 1, used : BOOLEAN]
  /\ lfree \in 0 .. MemSize
  /\ DOMAIN user \subseteq DOMAIN mem
  /\ asserted \in BOOLEAN

\* The heap is what mem_sanity asks for, after any sequence of calls: the
\* links go up from 0 to ram_end and back, no two free blocks touch, lfree is
\* the lowest free block, the used blocks are those that callers hold, and
\* what a caller asked for lies inside its block.
MemSound ==
  /\ MemTypeOK
  /\ \A p \in DOMAIN mem :
       LET n == mem[p].next IN
         /\ n > p /\ (n = MemSize \/ n \in DOMAIN mem)
         /\ n # MemSize => mem[n].prev = p /\ (mem[p].used \/ mem[n].used)
         /\ \A q \in DOMAIN mem : ~(p < q /\ q < n)
  /\ 0 \in DOMAIN mem /\ mem[0].prev = 0
  /\ lfree = NextFree(mem, 0)
  /\ DOMAIN user = {p \in DOMAIN mem : mem[p].used}
  /\ \A p \in DOMAIN user : user[p] <= DataSize(mem, p)

\* mem_trim may be called for any block: its assertion "invalid next ptr"
\* never fails.
TrimNeverAsserts == ~asserted

=============================================================================
