-------------------------------- MODULE Heap --------------------------------
(***************************************************************************)
(* The kernel heap of src/src/heap.c: a bump allocator over the region     *)
(* heap_init is given.  Nothing is ever freed.  Pointers and `used' are    *)
(* words of 2^w values (Word); heap_ptr + size is computed in that width.  *)
(* `blocks' is a history variable: the regions handed out so far.          *)
(***************************************************************************)
EXTENDS Naturals, FiniteSets

CONSTANTS Word,     \* number of values of a pointer: 2^32 on the target
          Start,    \* &_sheap
          HeapSize, \* 8 * 1024 in main
          Sizes     \* the sizes the kernel asks for

(* _sheap is a non-null address, and no request reaches past the end of    *)
(* the address space: main asks for 100 and 28 bytes at 0x2000xxxx.        *)
ASSUME HeapAssumption ==
    /\ Word \in Nat /\ Start \in Nat \ {0} /\ HeapSize \in Nat /\ Sizes \subseteq Nat
    /\ Start + HeapSize < Word
    /\ \A size \in Sizes : Start + HeapSize + size < Word

VARIABLES heap_ptr, heap_end, used, blocks, ret

heapVars == <<heap_ptr, heap_end, used, blocks, ret>>

Block == [at : Nat, len : Sizes]

\* static pointers are zero before main calls heap_init.
HeapInit == /\ heap_ptr = 0 /\ heap_end = 0 /\ used = 0
            /\ blocks = {} /\ ret = 0

\* main calls heap_init once, before anything allocates.
heap_init ==
    /\ heap_end = 0
    /\ heap_ptr' = Start
    /\ heap_end' = (Start + HeapSize) % Word
    /\ used' = 0
    /\ UNCHANGED <<blocks, ret>>

Fits(size) == (heap_ptr + size) % Word < heap_end

\* Mutant: the pointer is not advanced by the whole size.
GrantShort(size) ==
    /\ ret' = heap_ptr
    /\ heap_ptr' = IF size = 0 THEN heap_ptr ELSE (heap_ptr + size - 1) % Word
    /\ used' = (used + size) % Word

Grant(size) ==
    /\ ret' = heap_ptr
    /\ heap_ptr' = (heap_ptr + size) % Word
    /\ used' = (used + size) % Word

kmalloc(size) ==
    /\ heap_end # 0
    /\ \/ /\ ~Fits(size)
          /\ ret' = 0
          /\ UNCHANGED <<heap_ptr, used, blocks>>
       \/ /\ Fits(size)
          /\ Grant(size)
          /\ blocks' = blocks \cup {[at |-> heap_ptr, len |-> size]}
    /\ UNCHANGED heap_end

HeapNext == heap_init \/ \E size \in Sizes : kmalloc(size)

HeapSpec == HeapInit /\ [][HeapNext]_heapVars
-----------------------------------------------------------------------------
\* The types of heap.c's statics; `blocks' is made of requested sizes.
HeapTypeOK ==
    /\ heap_ptr \in 0..(Word - 1) /\ heap_end \in {0, Start + HeapSize}
    /\ used \in 0..(Word - 1) /\ ret \in 0..(Word - 1)
    /\ blocks \subseteq Block

\* Every block lies inside the region heap_init was given and below heap_ptr.
BlocksInHeap ==
    \A b \in blocks : Start <= b.at /\ b.at + b.len <= heap_ptr /\ b.at + b.len < heap_end

\* No two blocks share a byte.
BlocksDisjoint ==
    \A b, c \in blocks : b = c \/ b.at + b.len <= c.at \/ c.at + c.len <= b.at

(* Whatever the sequence of sizes and refusals, the blocks kmalloc has     *)
(* returned lie in the heap and do not overlap, and what it returns next   *)
(* lies above them.                                                        *)
BlocksSound == BlocksInHeap /\ BlocksDisjoint

(* What the `diagnostic' command prints as heap used is the part of the    *)
(* heap below heap_ptr, and it never reaches the size of the heap.         *)
UsedExact ==
    heap_end # 0 => /\ Start + used = heap_ptr
                    /\ HeapSize > 0 => used < HeapSize
=============================================================================
