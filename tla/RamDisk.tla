------------------------------ MODULE RamDisk ------------------------------
(***************************************************************************)
(* The RAM disk of src/src/ramdisk.c and the file counter of               *)
(* src/src/kernel_log.c: MAX_FILES slots, searched from slot 0 up.  A name *)
(* is kept as its first 31 characters (ClipName), a text is a record of    *)
(* which string it is and how many of its characters are there.  A result  *)
(* of -1 is written 1.  `out' is the last call with its result.            *)
(***************************************************************************)
EXTENDS Naturals, FiniteSets, FiniteSetsExt

CONSTANTS MAX_FILES, MAX_FILE_SIZE,
          ShortNames,  \* names of at most 31 characters
          LongNames,   \* longer ones
          Strings,     \* what may be written
          Lengths      \* how long a written text may be

(* The first 31 characters of every long name are one of the short names   *)
(* (which one is all that matters of a long name).                         *)
ASSUME DiskAssumption ==
    /\ MAX_FILES \in Nat \ {0} /\ MAX_FILE_SIZE \in Nat \ {0}
    /\ ShortNames # {} /\ Lengths \subseteq Nat
    /\ LongNames \subseteq [prefix : ShortNames]

VARIABLES files, file_count, out

diskVars == <<files, file_count, out>>

Slots == 0..(MAX_FILES - 1)
Names == ShortNames \cup LongNames
Texts == [of : Strings, len : Lengths]
\* The text of size 0: whatever its bytes, a reader gets the empty string.
Empty == [of |-> "", len |-> 0]
NoFile == [used |-> 0]

ClipName(n) == IF n \in LongNames THEN n.prefix ELSE n

\* The loop of ramdisk_write stops at the terminator or at MAX_FILE_SIZE - 1.
ClipText(t) ==
    LET len == IF t.len < MAX_FILE_SIZE - 1 THEN t.len ELSE MAX_FILE_SIZE - 1
    IN  IF len = 0 THEN Empty ELSE [t EXCEPT !.len = len]

\* Mutant: the search runs on to the last slot with the name.
LastNamed(n) ==
    {i \in Slots : /\ files[i].used = 1 /\ files[i].name = n
                   /\ \A j \in Slots : files[j].used = 1 /\ files[j].name = n => j <= i}

\* The slot the search loops of ramdisk_write and ramdisk_read stop at.
Named(n) == {i \in Slots : /\ files[i].used = 1 /\ files[i].name = n
                           /\ \A j \in 0..(i - 1) : files[j].used = 0 \/ files[j].name # n}

FirstFree == {i \in Slots : files[i].used = 0 /\ \A j \in 0..(i - 1) : files[j].used = 1}

Call(op, n, ret, text) == out' = [op |-> op, name |-> n, ret |-> ret, text |-> text]

\* diag_init and ramdisk_init, in main's order.
DiskInit == file_count = 0 /\ files = [i \in Slots |-> NoFile] /\ out = [op |-> "none"]

ramdisk_create(n) ==
    \/ \E i \in FirstFree :
          /\ files' = [files EXCEPT ![i] = [used |-> 1, name |-> ClipName(n), text |-> Empty]]
          /\ file_count' = file_count + 1   \* diag_file_created
          /\ Call("create", n, 0, Empty)
    \/ /\ FirstFree = {}
       /\ Call("create", n, 1, Empty)
       /\ UNCHANGED <<files, file_count>>

ramdisk_write(n, t) ==
    /\ \/ \E i \in Named(n) :
             /\ files' = [files EXCEPT ![i].text = ClipText(t)]
             /\ Call("write", n, 0, t)
       \/ Named(n) = {} /\ Call("write", n, 1, t) /\ UNCHANGED files
    /\ UNCHANGED file_count

ramdisk_read(n) ==
    /\ \/ \E i \in Named(n) : Call("read", n, 0, files[i].text)
       \/ Named(n) = {} /\ Call("read", n, 1, Empty)
    /\ UNCHANGED <<files, file_count>>

DiskNext == \E n \in Names : \/ ramdisk_create(n) \/ ramdisk_read(n)
                         \/ \E t \in Texts : ramdisk_write(n, t)

DiskSpec == DiskInit /\ [][DiskNext]_diskVars
-----------------------------------------------------------------------------
\* The types of the slots: the terminator of a text is inside the data array.
DiskTypeOK ==
    /\ file_count \in Nat
    /\ files \in [Slots -> {NoFile} \cup
                  [used : {1}, name : ShortNames,
                   text : {Empty} \cup [of : Strings, len : 1..(MAX_FILE_SIZE - 1)]]]

(* The number the `diagnostic' command prints for files is the number of   *)
(* slots in use, and the slots in use come first: ramdisk_ls lists them    *)
(* in the order they were made.                                            *)
CountExact ==
    /\ file_count = Cardinality({i \in Slots : files[i].used = 1})
    /\ \A i \in Slots : files[i].used = 1 <=> i < file_count

UsedNames == {files[i].name : i \in {j \in Slots : files[j].used = 1}}
Store == INSTANCE FileStore WITH
    Room <- MAX_FILES,
    content <- [n \in UsedNames |->
                  files[Min({i \in Slots : files[i].used = 1 /\ files[i].name = n})].text],
    room <- MAX_FILES - file_count

(* Seen through its calls the disk is a map from clipped names to clipped  *)
(* contents: a second file of a name never hides or changes the first, and *)
(* a call by a name of more than 31 characters finds nothing.              *)
StoreImplemented == Store!Spec
=============================================================================
