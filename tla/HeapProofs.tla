----------------------------- MODULE HeapProofs -----------------------------
(***************************************************************************)
(* The safety of the bump allocator of src/src/heap.c for every heap and   *)
(* every set of request sizes that stays clear of the end of the address   *)
(* space.                                                                  *)
(***************************************************************************)
EXTENDS Heap, TLAPS

(* Before heap_init nothing was handed out; after it the pointer lies in   *)
(* the heap, `used' is its distance from the start, and the blocks are     *)
(* disjoint and below it.  The bound on heap_ptr is what keeps the modular *)
(* sum in kmalloc from wrapping; it is strict except in the empty heap.    *)
Inv ==
    /\ HeapTypeOK
    /\ \/ heap_end = 0 /\ blocks = {} /\ heap_ptr = 0
       \/ /\ heap_end = Start + HeapSize
          /\ Start <= heap_ptr /\ heap_ptr <= heap_end
          /\ HeapSize > 0 => heap_ptr < heap_end
          /\ heap_ptr = Start + used
    /\ BlocksInHeap
    /\ BlocksDisjoint

(* A word below the modulus is its own remainder, so kmalloc's heap_ptr +  *)
(* size is the true sum.                                                   *)
LEMMA NoWrap == ASSUME NEW n \in Nat, NEW w \in Nat, n < w PROVE n % w = n
  OBVIOUS

\* Before main calls heap_init, the statics of heap.c satisfy Inv.
LEMMA InitInv == HeapInit => Inv
  BY HeapAssumption DEF HeapInit, Inv, HeapTypeOK, BlocksInHeap, BlocksDisjoint

\* heap_init establishes the second case of Inv.
LEMMA HeapInitInv == Inv /\ heap_init => Inv'
  <1> SUFFICES ASSUME Inv, heap_init PROVE Inv'
    OBVIOUS
  <1>1. heap_end' = Start + HeapSize
    BY HeapAssumption, NoWrap DEF heap_init
  <1>2. blocks = {}
    BY HeapAssumption DEF heap_init, Inv
  <1>3. HeapTypeOK'
    BY <1>1, HeapAssumption DEF heap_init, Inv, HeapTypeOK
  <1> QED
    BY <1>1, <1>2, <1>3, HeapAssumption DEF heap_init, Inv, BlocksInHeap, BlocksDisjoint

(* A kmalloc that is granted returns the bytes from the old heap_ptr to    *)
(* the new one, which is above every earlier block and inside the heap.    *)
LEMMA KmallocInv == ASSUME NEW size \in Sizes PROVE Inv /\ kmalloc(size) => Inv'
  <1> SUFFICES ASSUME Inv, kmalloc(size) PROVE Inv'
    OBVIOUS
  <1>0. /\ size \in Nat /\ heap_ptr \in Nat /\ heap_end = Start + HeapSize /\ used \in Nat
        /\ Start <= heap_ptr /\ heap_ptr <= heap_end /\ heap_ptr = Start + used
        /\ heap_end' = heap_end
    BY HeapAssumption DEF Inv, HeapTypeOK, kmalloc
  <1>1. CASE ~Fits(size)
    <2>1. UNCHANGED <<heap_ptr, heap_end, used, blocks>> /\ ret' = 0
      BY <1>1 DEF kmalloc
    <2>2. HeapTypeOK'
      BY <2>1, HeapAssumption DEF Inv, HeapTypeOK
    <2> QED
      BY <2>1, <2>2 DEF Inv, BlocksInHeap, BlocksDisjoint
  <1>2. CASE Fits(size)
    <2> DEFINE b0 == [at |-> heap_ptr, len |-> size]
    <2>1. (heap_ptr + size) % Word = heap_ptr + size /\ (used + size) % Word = used + size
      BY <1>0, HeapAssumption, NoWrap
    <2>2. /\ heap_ptr' = heap_ptr + size /\ used' = used + size /\ ret' = heap_ptr
          /\ blocks' = blocks \cup {b0} /\ heap_ptr + size < heap_end
      BY <1>2, <2>1 DEF kmalloc, Grant, Fits
    <2>3. HeapTypeOK'
      BY <1>0, <2>2, HeapAssumption DEF Inv, HeapTypeOK, Block
    <2>4. \A b \in blocks : b.at \in Nat /\ b.len \in Nat /\ Start <= b.at
                            /\ b.at + b.len <= heap_ptr /\ b.at + b.len < heap_end
      BY HeapAssumption DEF Inv, HeapTypeOK, Block, BlocksInHeap
    <2>5. BlocksInHeap'
      BY <1>0, <2>2, <2>4 DEF BlocksInHeap
    <2>6. BlocksDisjoint'
      BY <1>0, <2>2, <2>4 DEF BlocksDisjoint, Inv
    <2> QED
      BY <1>0, <2>2, <2>3, <2>5, <2>6, HeapAssumption DEF Inv
  <1> QED
    BY <1>1, <1>2

\* Inv is inductive.
LEMMA NextInv == Inv /\ [HeapNext]_heapVars => Inv'
  <1> SUFFICES ASSUME Inv, [HeapNext]_heapVars PROVE Inv'
    OBVIOUS
  <1>1. CASE UNCHANGED heapVars
    BY <1>1 DEF heapVars, Inv, HeapTypeOK, BlocksInHeap, BlocksDisjoint
  <1>2. CASE heap_init
    BY <1>2, HeapInitInv
  <1>3. ASSUME NEW size \in Sizes, kmalloc(size) PROVE Inv'
    BY <1>3, KmallocInv
  <1> QED
    BY <1>1, <1>2, <1>3 DEF HeapNext

\* The inductive invariant of the allocator holds in every reachable state.
LEMMA InvHolds == HeapSpec => []Inv
  BY InitInv, NextInv, PTL DEF HeapSpec

(* Two blocks kmalloc returned never share a byte and none leaves the heap *)
(* heap_init was given.                                                    *)
THEOREM BlocksSafe == HeapSpec => []BlocksSound
  <1>1. Inv => BlocksSound
    BY DEF Inv, BlocksSound
  <1> QED
    BY <1>1, InvHolds, PTL

(* What heap_used reports is the distance of heap_ptr from the start and   *)
(* stays below the size of the heap.                                       *)
THEOREM UsedSafe == HeapSpec => []UsedExact
  <1>1. Inv => UsedExact
    BY HeapAssumption DEF Inv, HeapTypeOK, UsedExact
  <1> QED
    BY <1>1, InvHolds, PTL
=============================================================================
