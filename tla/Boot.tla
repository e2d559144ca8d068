-------------------------------- MODULE Boot --------------------------------
(***************************************************************************)
(* reset_handler of src/boot/start.S on the sections of src/linker.ld: the *)
(* loop that copies .data from flash, the loop that clears .bss, and the   *)
(* branch to main.  RAM is counted in words: .data is [0, edata), .bss is  *)
(* [edata, ebss), and the heap and the stack follow up to RamSize.         *)
(***************************************************************************)
EXTENDS Naturals

CONSTANTS RamSize, Image, Junk

ASSUME BootAssumption == RamSize \in Nat /\ Junk \notin Image /\ 0 \notin Image

VARIABLES bpc, ram, flash, edata, ebss, r0, r1

bootVars == <<bpc, ram, flash, edata, ebss, r0, r1>>
layout == <<flash, edata, ebss>>

Words == 0..(RamSize - 1)

\* After reset RAM holds anything; the linker chose the sections and the image.
BootInit == /\ edata \in 0..RamSize /\ ebss \in edata..RamSize
            /\ flash \in [0..(edata - 1) -> Image]
            /\ ram = [a \in Words |-> Junk]
            /\ r0 = 0 /\ r1 = 0 /\ bpc = "copy_data"

MoreData == r1 < edata

copy_data ==
    /\ bpc = "copy_data" /\ MoreData
    /\ ram' = [ram EXCEPT ![r1] = flash[r0]]
    /\ r0' = r0 + 1 /\ r1' = r1 + 1
    /\ UNCHANGED <<bpc, layout>>

\* Mutant: r1 is loaded with the address after _sbss.
SkipFirst ==
    /\ bpc = "copy_data" /\ ~MoreData
    /\ r1' = edata + 1 /\ bpc' = "zero_bss"
    /\ UNCHANGED <<ram, r0, layout>>

\* Loads r1 = _sbss, which follows _edata.
end_copy_data ==
    /\ bpc = "copy_data" /\ ~MoreData
    /\ r1' = edata /\ bpc' = "zero_bss"
    /\ UNCHANGED <<ram, r0, layout>>

zero_bss ==
    /\ bpc = "zero_bss" /\ r1 < ebss
    /\ ram' = [ram EXCEPT ![r1] = 0]
    /\ r1' = r1 + 1
    /\ UNCHANGED <<bpc, r0, layout>>

\* bl main, which never returns.
end_zero_bss ==
    /\ bpc = "zero_bss" /\ ~(r1 < ebss)
    /\ bpc' = "main"
    /\ UNCHANGED <<ram, r0, r1, layout>>

BootNext == copy_data \/ end_copy_data \/ zero_bss \/ end_zero_bss

BootSpec == BootInit /\ [][BootNext]_bootVars
-----------------------------------------------------------------------------
\* The registers point into RAM or just past it.
BootTypeOK ==
    /\ bpc \in {"copy_data", "zero_bss", "main"}
    /\ edata \in 0..RamSize /\ ebss \in edata..RamSize
    /\ flash \in [0..(edata - 1) -> Image]
    /\ r0 \in 0..edata /\ r1 \in 0..ebss
    /\ ram \in [Words -> Image \cup {Junk, 0}]

(* When main is entered every initialised static has its initial value,    *)
(* every other static is zero, and the heap and the stack were not         *)
(* touched, for every size of the sections, empty ones included.           *)
StaticsReady ==
    bpc = "main" => ram = [a \in Words |-> IF a < edata THEN flash[a]
                                          ELSE IF a < ebss THEN 0 ELSE Junk]
=============================================================================
