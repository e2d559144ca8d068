------------------------------- MODULE Memory -------------------------------
(***************************************************************************)
(* memmove of src/src/strings.c, byte by byte, on a memory of Size cells;  *)
(* memcpy is its forward loop without the comparison.  `mem0' is the       *)
(* memory before the call, d and s the moving pointers, n the count left.  *)
(***************************************************************************)
EXTENDS Integers

CONSTANTS Size, Bytes

ASSUME MemoryAssumption == Size \in Nat

VARIABLES mpc, mem, mem0, dest, src, len, d, s, n

memVars == <<mpc, mem, mem0, dest, src, len, d, s, n>>
call == <<mem0, dest, src, len>>

Addr == 0..(Size - 1)

\* A call with both ranges inside memory, overlapping or not.
MemInit == /\ mem0 \in [Addr -> Bytes] /\ mem = mem0
           /\ len \in 0..Size /\ dest \in 0..(Size - len) /\ src \in 0..(Size - len)
           /\ d = dest /\ s = src /\ n = len
           /\ mpc = "compare"

\* Mutant: memcpy's choice, always forward.
AlwaysForward == mpc' = "forward" /\ UNCHANGED <<d, s>>

\* if (d < s): copy upwards, otherwise downwards from the ends.
Direction ==
    IF d < s THEN mpc' = "forward" /\ UNCHANGED <<d, s>>
             ELSE mpc' = "backward" /\ d' = d + n /\ s' = s + n

Compare == mpc = "compare" /\ Direction /\ UNCHANGED <<mem, n, call>>

\* while (n--) *d++ = *s++;
Forward == /\ mpc = "forward" /\ n > 0
           /\ mem' = [mem EXCEPT ![d] = mem[s]]
           /\ d' = d + 1 /\ s' = s + 1 /\ n' = n - 1
           /\ UNCHANGED <<mpc, call>>

\* while (n--) *--d = *--s;
Backward == /\ mpc = "backward" /\ n > 0
            /\ mem' = [mem EXCEPT ![d - 1] = mem[s - 1]]
            /\ d' = d - 1 /\ s' = s - 1 /\ n' = n - 1
            /\ UNCHANGED <<mpc, call>>

Return == /\ mpc \in {"forward", "backward"} /\ n = 0
          /\ mpc' = "done"
          /\ UNCHANGED <<mem, d, s, n, call>>

MemNext == Compare \/ Forward \/ Backward \/ Return

MemSpec == MemInit /\ [][MemNext]_memVars
-----------------------------------------------------------------------------
\* The loops stay inside memory: the types of the pointers and the count.
MemTypeOK ==
    /\ mpc \in {"compare", "forward", "backward", "done"}
    /\ mem0 \in [Addr -> Bytes] /\ mem \in [Addr -> Bytes]
    /\ len \in 0..Size /\ dest \in 0..(Size - len) /\ src \in 0..(Size - len)
    /\ d \in 0..Size /\ s \in 0..Size /\ n \in 0..len

(* When memmove returns, the destination holds what the source held before *)
(* the call, whatever the overlap, and every other cell is as it was.      *)
MemmoveCorrect ==
    mpc = "done" =>
        mem = [a \in Addr |-> IF a \in dest..(dest + len - 1)
                                THEN mem0[src + (a - dest)] ELSE mem0[a]]
=============================================================================
