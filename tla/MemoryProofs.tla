---------------------------- MODULE MemoryProofs ----------------------------
(***************************************************************************)
(* memmove of src/src/strings.c is correct for every memory, every length  *)
(* and every overlap.                                                      *)
(***************************************************************************)
EXTENDS Memory, TLAPS

\* The memory after the cells lo..hi-1 of the destination were copied.
Copied(lo, hi) ==
    [a \in Addr |-> IF lo <= a /\ a < hi THEN mem0[src + (a - dest)] ELSE mem0[a]]

(* The loop invariants.  The forward loop only runs with dest < src, so    *)
(* the cell it reads is above every cell it wrote; the backward loop only  *)
(* with dest >= src, so the cell it reads is below every one it wrote.     *)
Inv ==
    /\ MemTypeOK
    /\ mpc = "compare" => d = dest /\ s = src /\ n = len /\ mem = mem0
    /\ mpc = "forward" => /\ dest < src /\ d = dest + (len - n) /\ s = src + (len - n)
                          /\ mem = Copied(dest, d)
    /\ mpc = "backward" => /\ src <= dest /\ d = dest + n /\ s = src + n
                           /\ mem = Copied(d, dest + len)
    /\ mpc = "done" => mem = Copied(dest, dest + len)

\* A call starts with nothing copied.
LEMMA InitInv == MemInit => Inv
  BY MemoryAssumption DEF MemInit, Inv, MemTypeOK

\* The comparison enters the loop whose direction is safe for the overlap.
LEMMA CompareInv == Inv /\ Compare => Inv'
  <1> SUFFICES ASSUME Inv, Compare PROVE Inv'
    OBVIOUS
  <1>1. /\ d = dest /\ s = src /\ n = len /\ mem = mem0 /\ mem \in [Addr -> Bytes]
        /\ dest \in Int /\ src \in Int /\ len \in Int
        /\ UNCHANGED <<mem, n, mem0, dest, src, len>>
    BY MemoryAssumption DEF Inv, MemTypeOK, Compare, call
  <1>2. MemTypeOK'
    BY MemoryAssumption DEF Inv, MemTypeOK, Compare, Direction, call
  <1>3. CASE d < s
    <2>1. mpc' = "forward" /\ d' = d /\ s' = s
      BY <1>3 DEF Compare, Direction
    <2>2. mem0 = Copied(dest, dest)
      BY <1>1 DEF Copied, Addr
    <2> QED
      BY <1>1, <1>2, <1>3, <2>1, <2>2 DEF Inv, Copied
  <1>4. CASE ~(d < s)
    <2>1. mpc' = "backward" /\ d' = d + n /\ s' = s + n
      BY <1>4 DEF Compare, Direction
    <2>2. mem0 = Copied(dest + len, dest + len)
      BY <1>1 DEF Copied, Addr
    <2> QED
      BY <1>1, <1>2, <1>4, <2>1, <2>2 DEF Inv, Copied
  <1> QED
    BY <1>3, <1>4

\* One turn of the forward loop: the cell it reads still holds its old byte.
LEMMA ForwardInv == Inv /\ Forward => Inv'
  <1> SUFFICES ASSUME Inv, Forward PROVE Inv'
    OBVIOUS
  <1>1. /\ dest < src /\ d = dest + (len - n) /\ s = src + (len - n) /\ mem = Copied(dest, d)
        /\ dest \in Nat /\ src \in Nat /\ len \in Nat /\ n \in 1..len
        /\ dest + len <= Size /\ src + len <= Size
        /\ mpc' = "forward" /\ d' = d + 1 /\ s' = s + 1 /\ n' = n - 1
        /\ mem' = [mem EXCEPT ![d] = mem[s]]
        /\ mem0 \in [Addr -> Bytes] /\ mem \in [Addr -> Bytes]
        /\ UNCHANGED <<mem0, dest, src, len>>
    BY MemoryAssumption DEF Inv, MemTypeOK, Forward, call
  <1>2. d \in Addr /\ s \in Addr /\ d < s
    BY <1>1, MemoryAssumption DEF Addr
  <1>3. mem[s] = mem0[s] /\ s = src + (d - dest)
    BY <1>1, <1>2 DEF Copied
  <1>4. mem' = Copied(dest, d + 1)
    <2>1. mem' = [a \in Addr |-> IF a = d THEN mem0[s] ELSE mem[a]]
      BY <1>1, <1>2, <1>3
    <2>2. \A a \in Addr : mem[a] = IF dest <= a /\ a < d
                                     THEN mem0[src + (a - dest)] ELSE mem0[a]
      BY <1>1 DEF Copied
    <2>3. \A a \in Addr : mem'[a] = IF dest <= a /\ a < d + 1
                                      THEN mem0[src + (a - dest)] ELSE mem0[a]
      <3> TAKE a \in Addr
      <3>1. a \in Int /\ d \in Int /\ dest <= d
        BY <1>1, MemoryAssumption DEF Addr
      <3>2. CASE a = d
        <4>1. dest <= a /\ a < d + 1
          BY <3>1, <3>2
        <4>2. mem'[a] = mem0[s] /\ s = src + (a - dest)
          BY <1>3, <2>1, <3>2
        <4> QED
          BY <4>1, <4>2
      <3>3. CASE a # d
        <4>1. a < d + 1 <=> a < d
          BY <3>1, <3>3
        <4> QED
          BY <2>1, <2>2, <3>3, <4>1
      <3> QED
        BY <3>2, <3>3
    <2> QED
      BY <2>1, <2>3 DEF Copied
  <1>5. MemTypeOK'
    BY <1>1, <1>2, MemoryAssumption DEF Inv, MemTypeOK
  <1>6. dest' < src' /\ d' = dest' + (len' - n') /\ s' = src' + (len' - n')
    BY <1>1
  <1>7. mem' = Copied(dest, d)'
    BY <1>1, <1>4 DEF Copied
  <1> QED
    BY <1>1, <1>5, <1>6, <1>7 DEF Inv

\* One turn of the backward loop.
LEMMA BackwardInv == Inv /\ Backward => Inv'
  <1> SUFFICES ASSUME Inv, Backward PROVE Inv'
    OBVIOUS
  <1>1. /\ src <= dest /\ d = dest + n /\ s = src + n /\ mem = Copied(d, dest + len)
        /\ dest \in Nat /\ src \in Nat /\ len \in Nat /\ n \in 1..len
        /\ dest + len <= Size /\ src + len <= Size
        /\ mpc' = "backward" /\ d' = d - 1 /\ s' = s - 1 /\ n' = n - 1
        /\ mem' = [mem EXCEPT ![d - 1] = mem[s - 1]]
        /\ mem0 \in [Addr -> Bytes] /\ mem \in [Addr -> Bytes]
        /\ UNCHANGED <<mem0, dest, src, len>>
    BY MemoryAssumption DEF Inv, MemTypeOK, Backward, call
  <1>2. d - 1 \in Addr /\ s - 1 \in Addr /\ s - 1 < d
    BY <1>1, MemoryAssumption DEF Addr
  <1>3. mem[s - 1] = mem0[s - 1] /\ s - 1 = src + ((d - 1) - dest)
    BY <1>1, <1>2 DEF Copied
  <1>4. mem' = Copied(d - 1, dest + len)
    <2>1. mem' = [a \in Addr |-> IF a = d - 1 THEN mem0[s - 1] ELSE mem[a]]
      BY <1>1, <1>2, <1>3
    <2>2. \A a \in Addr : mem[a] = IF d <= a /\ a < dest + len
                                     THEN mem0[src + (a - dest)] ELSE mem0[a]
      BY <1>1 DEF Copied
    <2>3. \A a \in Addr : mem'[a] = IF d - 1 <= a /\ a < dest + len
                                      THEN mem0[src + (a - dest)] ELSE mem0[a]
      <3> TAKE a \in Addr
      <3>1. a \in Int /\ d \in Int /\ dest + len \in Int /\ d <= dest + len
        BY <1>1, MemoryAssumption DEF Addr
      <3>2. CASE a = d - 1
        <4>1. d - 1 <= a /\ a < dest + len
          BY <3>1, <3>2
        <4>2. mem'[a] = IF a = d - 1 THEN mem0[s - 1] ELSE mem[a]
          BY <2>1
        <4>3. s - 1 = src + (a - dest)
          BY <1>1, <3>1, <3>2
        <4> QED
          BY <3>2, <4>1, <4>2, <4>3
      <3>3. CASE a # d - 1
        <4>1. d - 1 <= a <=> d <= a
          BY <3>1, <3>3
        <4> QED
          BY <2>1, <2>2, <3>3, <4>1
      <3> QED
        BY <3>2, <3>3
    <2> QED
      BY <2>1, <2>3 DEF Copied
  <1>5. MemTypeOK'
    BY <1>1, <1>2, MemoryAssumption DEF Inv, MemTypeOK
  <1>6. src' <= dest' /\ d' = dest' + n' /\ s' = src' + n'
    BY <1>1
  <1>7. mem' = Copied(d, dest + len)'
    BY <1>1, <1>4 DEF Copied
  <1> QED
    BY <1>1, <1>5, <1>6, <1>7 DEF Inv

\* A loop that has counted down to zero has copied the whole range.
LEMMA ReturnInv == Inv /\ Return => Inv'
  <1> SUFFICES ASSUME Inv, Return PROVE Inv'
    OBVIOUS
  <1>1. /\ n = 0 /\ mpc' = "done" /\ UNCHANGED <<mem, d, s, n, mem0, dest, src, len>>
        /\ dest \in Nat /\ len \in Nat
    BY MemoryAssumption DEF Inv, MemTypeOK, Return, call
  <1>2. mem = Copied(dest, dest + len)
    BY <1>1 DEF Inv, Return
  <1>3. MemTypeOK'
    BY <1>1 DEF Inv, MemTypeOK
  <1> QED
    BY <1>1, <1>2, <1>3 DEF Inv, Copied

\* The loop invariants hold throughout the call.
LEMMA InvHolds == MemSpec => []Inv
  <1>1. Inv /\ [MemNext]_memVars => Inv'
    <2>1. Inv /\ UNCHANGED memVars => Inv'
      BY DEF memVars, Inv, MemTypeOK, Copied
    <2> QED
      BY <2>1, CompareInv, ForwardInv, BackwardInv, ReturnInv DEF MemNext
  <1> QED
    BY <1>1, InitInv, PTL DEF MemSpec

\* The loops of memmove never leave the memory they were given.
THEOREM TypeCorrect == MemSpec => []MemTypeOK
  <1>1. Inv => MemTypeOK
    BY DEF Inv
  <1> QED
    BY <1>1, InvHolds, PTL

(* When memmove returns, the destination holds the old source and nothing  *)
(* else changed, for every overlap.                                        *)
THEOREM MemmoveSafe == MemSpec => []MemmoveCorrect
  <1>1. Inv => MemmoveCorrect
    BY MemoryAssumption DEF Inv, MemTypeOK, MemmoveCorrect, Copied, Addr
  <1> QED
    BY <1>1, InvHolds, PTL
=============================================================================
