------------------------------- MODULE Kernel -------------------------------
(***************************************************************************)
(* The kernel's own services next to each other: reset code, heap, RAM     *)
(* disk, clock, line input, memmove and uart_print_int, and the timers of  *)
(* lwIP that the superloop serves.  They share no variable, so a behaviour *)
(* moves one of them, `part', and the others rest in a state in which they *)
(* are not called.                                                         *)
(***************************************************************************)
EXTENDS MCTimeouts, Heap, RamDisk, Rtc, LineEditor, Memory, PrintInt, Boot

CONSTANTS n1, n2

VARIABLE part

kernelVars == <<part, heapVars, diskVars, clockVars, lineVars, memVars, printVars, bootVars,
                timeoutVars>>

MemIdle == /\ mem0 = [a \in Addr |-> CHOOSE b \in Bytes : TRUE] /\ mem = mem0
           /\ len = 0 /\ dest = 0 /\ src = 0 /\ d = 0 /\ s = 0 /\ n = 0 /\ mpc = "done"
PrintIdle == /\ n0 = 0 /\ rest = 0 /\ digit = 0 /\ ppc = "done"
             /\ digits = << >> /\ sent = <<0>>
BootIdle == /\ edata = 0 /\ ebss = 0 /\ r0 = 0 /\ r1 = 0 /\ bpc = "main"
            /\ flash = << >> /\ ram = [a \in Words |-> Junk]

Init == /\ HeapInit /\ DiskInit /\ ClockInit /\ LineInit /\ TimeoutsInit
        /\ \/ /\ part \in {"heap", "disk", "clock", "line", "timeouts"}
              /\ MemIdle /\ PrintIdle /\ BootIdle
           \/ part = "mem" /\ MemInit /\ PrintIdle /\ BootIdle
           \/ part = "print" /\ PrintInit /\ MemIdle /\ BootIdle
           \/ part = "boot" /\ BootInit /\ MemIdle /\ PrintIdle

Others(p) ==
    /\ UNCHANGED part
    /\ p # "heap" => UNCHANGED heapVars
    /\ p # "disk" => UNCHANGED diskVars
    /\ p # "clock" => UNCHANGED clockVars
    /\ p # "line" => UNCHANGED lineVars
    /\ p # "mem" => UNCHANGED memVars
    /\ p # "print" => UNCHANGED printVars
    /\ p # "boot" => UNCHANGED bootVars
    /\ p # "timeouts" => UNCHANGED timeoutVars

Next == \/ part = "heap" /\ HeapNext /\ Others("heap")
        \/ part = "disk" /\ DiskNext /\ Others("disk")
        \/ part = "clock" /\ ClockNext /\ Others("clock")
        \/ part = "line" /\ LineNext /\ Others("line")
        \/ part = "mem" /\ MemNext /\ Others("mem")
        \/ part = "print" /\ PrintNext /\ Others("print")
        \/ part = "boot" /\ BootNext /\ Others("boot")
        \/ part = "timeouts" /\ TimeoutsNext /\ Others("timeouts")

\* The fairness of the timers, while they are what moves.
Timed(A) == part = "timeouts" /\ A
KernelFairness ==
    /\ WF_timeoutVars(Timed(Tick))
    /\ WF_timeoutVars(Timed(CheckBegin))
    /\ WF_timeoutVars(Timed(Fire))
    /\ WF_timeoutVars(Timed(CheckEnd))
    /\ WF_timeoutVars(Timed(CyclicEnd))
    /\ WF_timeoutVars(Timed(TcpEnd))

Spec == Init /\ [][Next]_kernelVars /\ KernelFairness
-----------------------------------------------------------------------------
(* The types of all services: every index stays inside its array, every    *)
(* pointer inside its region, with the terminator of a line and of a file  *)
(* in its place.                                                           *)
KernelTypeOK ==
    /\ HeapTypeOK /\ DiskTypeOK /\ ClockTypeOK /\ LineTypeOK /\ MemTypeOK
    /\ PrintTypeOK /\ BootTypeOK


-----------------------------------------------------------------------------
\* Two short names, and a long one whose first 31 characters are the first.
KernelShort == {n1, n2}
KernelLong == {[prefix |-> n1]}
\* Around every change of the number of digits, and a negative number.
KernelInputs == {-3} \cup 0..120 \cup 990..1010
=============================================================================
