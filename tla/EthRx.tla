-------------------------------- MODULE EthRx --------------------------------
(***************************************************************************)
(* The Ethernet driver of ZanOS: eth.c, the interrupt handler of           *)
(* interrupt.c, the driver half of lwip_port.c and the polling loop of     *)
(* main.c, run against the controller they program.                        *)
(*                                                                         *)
(* Three actors share the state: the controller (frames arrive, a          *)
(* transmission completes), the interrupt service routine and the main     *)
(* program.  The ISR preempts main between any two of its steps, unless    *)
(* PRIMASK is set, and runs to its end before main continues.              *)
(*                                                                         *)
(* The controller is external.  It is modelled from what eth.c relies on:  *)
(* the receive FIFO is a stream of 32-bit words in which each frame is a   *)
(* word holding its length and two bytes of data, followed by the rest of  *)
(* the frame; the length counts its own two bytes.                         *)
(***************************************************************************)
EXTENDS Integers, Sequences, FiniteSets

CONSTANTS
    FrameLens,  \* the lengths of the frames the network delivers
    MaxLen,     \* the largest length eth_receive accepts (1522 in eth.c)
    FifoCap,    \* how many frames the receive FIFO holds
    ProtDepth,  \* how deep lwIP nests sys_arch_protect
    SlowTx      \* TRUE: a transmission may outlast the wait loop of eth_send

ASSUME LensAssumption ==
    /\ MaxLen \in Nat
    /\ FrameLens \subseteq 1..MaxLen
ASSUME BoundsAssumption ==
    /\ FifoCap \in Nat \ {0}
    /\ ProtDepth \in Nat
    /\ SlowTx \in BOOLEAN

VARIABLES
    fifo,     \* receive FIFO: the frames left, each with its words already read
    rxen,     \* MAC_RCTL_RXEN
    ris,      \* MACRIS: the pending interrupt causes
    im,       \* MACIM has MAC_INT_RX
    txBusy,   \* the controller is sending a frame
    isr,      \* program counter of ethernet_handler, "off" outside it
    status,   \* local variable status of ethernet_handler
    flag,     \* eth_rx_flag
    primask,  \* PRIMASK: 1 masks interrupts
    saved,    \* the values sys_arch_protect returned, innermost last
    pc,       \* program counter of main
    ret,      \* where eth_send returns to
    left,     \* words_to_read - i in eth_receive
    unseen    \* history: a frame arrived since main last looked at MACNPV

controller == <<fifo, rxen, txBusy>>
main == <<primask, saved, pc, ret, left>>
vars == <<controller, ris, im, isr, status, flag, main, unseen>>

Causes == {"RX", "TXEMP"}
LwipCode == {"lwip_init", "poll", "input"}
BootPcs == {"eth_init", "eth_im", "irq_off", "lwip_init"}
SendPcs == {"send", "send_wait", "send_ack"}
RecvPcs == {"clear", "npv", "len", "words"}
Pcs == BootPcs \cup LwipCode \cup SendPcs \cup RecvPcs

\* Words a frame whose length field says n takes in the FIFO.
FrameWords(n) == (n + 3) \div 4

(***************************************************************************)
(* The lengths eth_receive accepts, and the words it reads after the first *)
(* one: words_to_read, computed from bytes_to_read.                        *)
(***************************************************************************)
ValidLen(n) == n # 0 /\ n <= MaxLen
BytesToRead(n) == IF n > 2 THEN n - 2 ELSE 0
\* Mutant: one word too many.
WordsTooMany(n) == (BytesToRead(n) + 4) \div 4 + 1
WordsToRead(n) == (BytesToRead(n) + 3) \div 4

Frame == [len : FrameLens, rd : Nat]

Init ==
    /\ fifo = <<>> /\ rxen = FALSE /\ txBusy = FALSE
    /\ ris = {} /\ im = FALSE
    /\ isr = "off" /\ status = {} /\ flag = FALSE
    /\ primask = 0 /\ saved = <<>>
    /\ pc = "eth_init" /\ ret = "poll" /\ left = 0
    /\ unseen = FALSE

------------------------------------------------------------------------------
(* The controller (external) *)

Arrive ==
    /\ rxen /\ Len(fifo) < FifoCap
    /\ \E n \in FrameLens : fifo' = Append(fifo, [len |-> n, rd |-> 0])
    /\ ris' = ris \cup {"RX"}
    /\ unseen' = TRUE
    /\ UNCHANGED <<rxen, txBusy, im, isr, status, flag, main>>

TxDone ==
    /\ txBusy
    /\ txBusy' = FALSE
    /\ ris' = ris \cup {"TXEMP"}
    /\ UNCHANGED <<fifo, rxen, im, isr, status, flag, main, unseen>>

\* One read of MACDATA; reading an empty FIFO has no effect.
PopWord(f) ==
    IF f = <<>> THEN f
    ELSE IF Head(f).rd + 1 >= FrameWords(Head(f).len) THEN Tail(f)
    ELSE [f EXCEPT ![1].rd = @ + 1]

\* The lengths a read of MACDATA can yield.  Past the first word of a frame
\* the word is payload and can say anything.
LengthsRead(f) ==
    IF f # <<>> /\ Head(f).rd = 0 THEN {Head(f).len}
    ELSE FrameLens \cup {0, MaxLen + 1}

------------------------------------------------------------------------------
(* ethernet_handler *)

IsrEnter ==
    /\ isr = "off" /\ primask = 0 /\ im /\ "RX" \in ris
    /\ status' = ris
    /\ isr' = "flag"
    /\ UNCHANGED <<controller, ris, im, flag, main, unseen>>

IsrFlag ==
    /\ isr = "flag"
    /\ flag' = (flag \/ "RX" \in status)
    /\ isr' = "ack"
    /\ UNCHANGED <<controller, ris, im, status, main, unseen>>

IsrAck ==
    /\ isr = "ack"
    /\ ris' = ris \ status
    /\ isr' = "off"
    /\ UNCHANGED <<controller, im, status, flag, main, unseen>>

Isr == IsrEnter \/ IsrFlag \/ IsrAck

------------------------------------------------------------------------------
(* main: start-up *)

At(p) == isr = "off" /\ pc = p

EthInit ==
    /\ At("eth_init") /\ pc' = "eth_im"
    /\ fifo' = <<>> /\ rxen' = TRUE /\ unseen' = FALSE
    /\ UNCHANGED <<txBusy, ris, im, isr, status, flag, primask, saved, ret, left>>

EthInitIM ==
    /\ At("eth_im") /\ pc' = "irq_off"
    /\ im' = TRUE
    /\ UNCHANGED <<controller, ris, isr, status, flag, primask, saved, ret, left, unseen>>

InterruptsDisable ==
    /\ At("irq_off") /\ pc' = "lwip_init"
    /\ primask' = 1
    /\ UNCHANGED <<controller, ris, im, isr, status, flag, saved, ret, left, unseen>>

InterruptsEnable ==
    /\ At("lwip_init") /\ saved = <<>> /\ pc' = "poll"
    /\ primask' = 0
    /\ UNCHANGED <<controller, ris, im, isr, status, flag, saved, ret, left, unseen>>

------------------------------------------------------------------------------
(* main: lwIP code protects its critical sections and sends frames *)

sys_arch_protect ==
    /\ isr = "off" /\ pc \in LwipCode /\ Len(saved) < ProtDepth
    /\ saved' = Append(saved, primask)
    /\ primask' = 1
    /\ UNCHANGED <<controller, ris, im, isr, status, flag, pc, ret, left, unseen>>

\* Mutant: unprotect always enables interrupts.
UnprotectEnables ==
    /\ isr = "off" /\ saved # <<>>
    /\ primask' = 0
    /\ saved' = SubSeq(saved, 1, Len(saved) - 1)
    /\ UNCHANGED <<controller, ris, im, isr, status, flag, pc, ret, left, unseen>>

sys_arch_unprotect ==
    /\ isr = "off" /\ saved # <<>>
    /\ primask' = saved[Len(saved)]
    /\ saved' = SubSeq(saved, 1, Len(saved) - 1)
    /\ UNCHANGED <<controller, ris, im, isr, status, flag, pc, ret, left, unseen>>

\* low_level_output linearises the pbuf chain and calls eth_send.
low_level_output ==
    /\ isr = "off" /\ pc \in LwipCode /\ saved = <<>>
    /\ ret' = pc /\ pc' = "send"
    /\ UNCHANGED <<controller, ris, im, isr, status, flag, primask, saved, left, unseen>>

EthSendWrite ==
    /\ At("send") /\ pc' = "send_wait"
    /\ txBusy' = TRUE
    /\ UNCHANGED <<fifo, rxen, ris, im, isr, status, flag, primask, saved, ret, left, unseen>>

\* The wait loop ends on TXEMP or after its 1000 rounds.
EthSendWait ==
    /\ At("send_wait") /\ pc' = "send_ack"
    /\ "TXEMP" \in ris \/ SlowTx \/ ~txBusy
    /\ UNCHANGED <<controller, ris, im, isr, status, flag, primask, saved, ret, left, unseen>>

\* Mutant: every pending cause is acknowledged, as ethernet_handler does.
SendAckAll ==
    /\ At("send_ack") /\ pc' = ret
    /\ ris' = {}
    /\ UNCHANGED <<controller, im, isr, status, flag, primask, saved, ret, left, unseen>>

\* Mutant: the acknowledge is left out.
SendAckNone ==
    /\ At("send_ack") /\ pc' = ret
    /\ UNCHANGED <<controller, ris, im, isr, status, flag, primask, saved, ret, left, unseen>>

EthSendAck ==
    /\ At("send_ack") /\ pc' = ret
    /\ ris' = ris \ {"TXEMP"}
    /\ UNCHANGED <<controller, im, isr, status, flag, primask, saved, ret, left, unseen>>

------------------------------------------------------------------------------
(* main: lwip_poll, ethernetif_input and eth_receive *)

\* sys_check_timeouts has returned and the flag is tested.
CheckFlag ==
    /\ At("poll") /\ saved = <<>>
    /\ pc' = IF flag THEN "clear" ELSE "poll"
    /\ UNCHANGED <<controller, ris, im, isr, status, flag, primask, saved, ret, left, unseen>>

ClearFlag ==
    /\ At("clear") /\ pc' = "npv"
    /\ flag' = FALSE
    /\ UNCHANGED <<controller, ris, im, isr, status, primask, saved, ret, left, unseen>>

ReadNpv ==
    /\ At("npv")
    /\ unseen' = FALSE
    /\ pc' = IF fifo = <<>> THEN "poll" ELSE "len"
    /\ UNCHANGED <<controller, ris, im, isr, status, flag, primask, saved, ret, left>>

\* The first word: a length out of range resets the FIFO.
ReadLen ==
    /\ At("len")
    /\ \E n \in LengthsRead(fifo) :
          \/ /\ ValidLen(n)
             /\ fifo' = PopWord(fifo)
             /\ left' = WordsToRead(n)
             /\ pc' = "words"
             /\ UNCHANGED unseen
          \/ /\ ~ValidLen(n)
             /\ fifo' = <<>>
             /\ unseen' = FALSE
             /\ pc' = "poll"
             /\ UNCHANGED left
    /\ UNCHANGED <<rxen, txBusy, ris, im, isr, status, flag, primask, saved, ret>>

ReadWord ==
    /\ At("words") /\ left > 0
    /\ fifo' = PopWord(fifo)
    /\ left' = left - 1
    /\ UNCHANGED <<rxen, txBusy, ris, im, isr, status, flag, primask, saved, pc, ret, unseen>>

\* The bytes are in the buffer: a pbuf is allocated and handed to the stack,
\* or none is free and the frame is dropped.
ReceiveDone ==
    /\ At("words") /\ left = 0
    /\ pc' \in {"input", "poll"}
    /\ UNCHANGED <<controller, ris, im, isr, status, flag, primask, saved, ret, left, unseen>>

InputDone ==
    /\ At("input") /\ saved = <<>> /\ pc' = "poll"
    /\ UNCHANGED <<controller, ris, im, isr, status, flag, primask, saved, ret, left, unseen>>

Boot == EthInit \/ EthInitIM \/ InterruptsDisable \/ InterruptsEnable
LwipCalls == sys_arch_protect \/ low_level_output
Receive == ClearFlag \/ ReadNpv \/ ReadLen \/ ReadWord \/ ReceiveDone
Returns == sys_arch_unprotect \/ EthSendWrite \/ EthSendWait \/ EthSendAck

Main == Boot \/ LwipCalls \/ Returns \/ CheckFlag \/ Receive \/ InputDone

Next == Arrive \/ TxDone \/ Isr \/ Main

(***************************************************************************)
(* Fairness.  Hardware takes a pending interrupt once unmasked and runs the *)
(* handler to its end; a transmission completes; main never stops.  The    *)
(* lwIP code main calls makes finitely many calls into the port before it  *)
(* returns (sys_check_timeouts only runs the timers that were due when it  *)
(* started) and leaves every critical section it enters, so a return that  *)
(* is enabled over and over is taken.                                      *)
(***************************************************************************)
LeaveOutermost == Len(saved) = 1 /\ sys_arch_unprotect

Fairness ==
    /\ SF_vars(Isr) /\ WF_vars(TxDone)
    /\ WF_vars(Boot) /\ WF_vars(Returns) /\ WF_vars(Receive)
    /\ SF_vars(LeaveOutermost)
    /\ SF_vars(InterruptsEnable) /\ SF_vars(CheckFlag) /\ SF_vars(InputDone)

Spec == Init /\ [][Next]_vars
FairSpec == Spec /\ Fairness

------------------------------------------------------------------------------
(* Properties *)

\* Every variable has its type; main is outside the driver while lwIP holds a
\* critical section.
TypeOK ==
    /\ fifo \in Seq(Frame) /\ Len(fifo) <= FifoCap
    /\ rxen \in BOOLEAN /\ txBusy \in BOOLEAN /\ im \in BOOLEAN
    /\ ris \in SUBSET Causes /\ status \in SUBSET Causes
    /\ isr \in {"off", "flag", "ack"}
    /\ flag \in BOOLEAN /\ primask \in {0, 1} /\ unseen \in BOOLEAN
    /\ saved \in Seq({0, 1}) /\ Len(saved) <= ProtDepth
    /\ pc \in Pcs /\ ret \in LwipCode
    /\ left \in Nat

\* No wake-up is lost between ethernet_handler, lwip_poll and eth_send: when a
\* frame has arrived that main has not looked for, the interrupt is still
\* pending, or the handler is about to set eth_rx_flag, or the flag is set, or
\* main has just cleared the flag and reads MACNPV next.
NoLostWakeup ==
    unseen => \/ "RX" \in ris
              \/ isr = "flag" /\ "RX" \in status
              \/ flag
              \/ pc = "npv"

\* main.c:101 initialises lwIP "with interrupts disabled to prevent races": the
\* handler never runs between interrupts_disable and interrupts_enable, whatever
\* critical sections lwip_init, netif_add and dhcp_start enter and leave; and
\* outside both, interrupts are enabled again.
InInit == pc = "lwip_init" \/ (pc \in SendPcs /\ ret = "lwip_init")
MaskingCorrect ==
    /\ InInit => isr = "off"
    /\ primask = 1 <=> (InInit \/ saved # <<>>)

\* eth_send never writes the transmit FIFO while the controller still sends the
\* previous frame, although ethernet_handler may acknowledge TXEMP under the
\* wait loop; it needs a controller that is done within the loop's rounds.
TxExclusive == pc = "send" => ~txBusy

\* eth_receive starts on a frame's length word: the calls before it read their
\* frames exactly, as eth.c:82-85 computes.
FrameBoundary == pc = "len" => fifo # <<>> /\ Head(fifo).rd = 0


\* lwip_port.c:35, "called when a packet is received": every frame received is
\* taken from the FIFO, unless yet another one arrives.
FramesDrained == (fifo # <<>>) ~> (fifo = <<>> \/ unseen)
==============================================================================
