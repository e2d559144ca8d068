---------------------------- MODULE EthRxProofs ----------------------------
(***************************************************************************)
(* The safety of the driver for every set of frame lengths, FIFO size and  *)
(* depth of critical sections: type correctness, no lost wake-up, correct  *)
(* masking of interrupts and exclusive use of the transmit FIFO.           *)
(***************************************************************************)
EXTENDS EthRx, SequenceTheorems, TLAPS

\* The handler's local state agrees with what it read: once it runs it has seen
\* RX, and once it acknowledges it has set the flag; main clears only a set flag.
HandlerInv ==
    /\ isr = "flag" => "RX" \in status
    /\ isr = "ack" => flag
    /\ pc = "clear" => flag

\* A critical section is only open in lwIP code, and the values sys_arch_protect
\* returned say what holds outside: the first is the mask of main, the others
\* are nested and so 1.
SavedInv ==
    /\ saved # <<>> => pc \in LwipCode
    /\ \A i \in 1..Len(saved) : saved[i] = 1 <=> (InInit \/ i > 1)

\* TXEMP and a busy transmitter only occur in the wait loop of eth_send.
TxInv ==
    /\ txBusy => pc = "send_wait" /\ "TXEMP" \notin ris
    /\ "TXEMP" \in ris => pc \in {"send_wait", "send_ack"}

------------------------------------------------------------------------------
\* A read of MACDATA leaves a FIFO of frames, no longer than before.
LEMMA PopWordType ==
    ASSUME NEW f \in Seq(Frame)
    PROVE  PopWord(f) \in Seq(Frame) /\ Len(PopWord(f)) <= Len(f)
<1>1. CASE f = <<>>
  BY <1>1 DEF PopWord
<1>2. CASE f # <<>> /\ Head(f).rd + 1 >= FrameWords(Head(f).len)
  BY <1>2 DEF PopWord
<1>3. CASE f # <<>> /\ ~(Head(f).rd + 1 >= FrameWords(Head(f).len))
  <2>1. 1 \in 1..Len(f) /\ f[1] \in Frame
    BY <1>3
  <2>2. [f[1] EXCEPT !.rd = f[1].rd + 1] \in Frame
    BY <2>1 DEF Frame
  <2>3. PopWord(f) = [f EXCEPT ![1] = [f[1] EXCEPT !.rd = f[1].rd + 1]]
    BY <1>3 DEF PopWord
  <2> QED
    BY <2>1, <2>2, <2>3
<1> QED
  BY <1>1, <1>2, <1>3

\* words_to_read is a natural number for every length eth_receive accepts.
LEMMA WordsToReadType ==
    ASSUME NEW n \in Nat
    PROVE  WordsToRead(n) \in Nat
  BY DEF WordsToRead, BytesToRead

\* What eth_receive reads as a length is a natural number.
LEMMA LengthsReadType ==
    ASSUME NEW f \in Seq(Frame), NEW n \in LengthsRead(f)
    PROVE  n \in Nat
<1>1. CASE n \in FrameLens
  BY <1>1, LensAssumption
<1>2. CASE n \in {0, MaxLen + 1}
  BY <1>2, LensAssumption
<1>3. f # <<>> => Head(f) \in Frame
  OBVIOUS
<1>4. f # <<>> => Head(f).len \in FrameLens
  BY <1>3 DEF Frame
<1>5. n \in FrameLens \cup {0, MaxLen + 1}
  BY <1>4 DEF LengthsRead
<1> QED
  BY <1>1, <1>2, <1>5

\* The state after reset is well typed.
LEMMA TypeInit == Init => TypeOK
<1> SUFFICES ASSUME Init PROVE TypeOK
  OBVIOUS
<1>1. fifo \in Seq(Frame) /\ saved \in Seq({0, 1})
  BY DEF Init
<1>2. Len(fifo) <= FifoCap /\ Len(saved) <= ProtDepth
  BY BoundsAssumption DEF Init
<1>3. pc \in Pcs /\ ret \in LwipCode
  BY DEF Init, Pcs, LwipCode, BootPcs
<1> QED
  BY <1>1, <1>2, <1>3 DEF Init, TypeOK

\* Every step of the controller, the handler and main keeps the types.
LEMMA TypeNext == TypeOK /\ [Next]_vars => TypeOK'
<1> SUFFICES ASSUME TypeOK, [Next]_vars PROVE TypeOK'
  OBVIOUS
<1> USE DEF TypeOK
<1>1. CASE Arrive
  <2>1. PICK n \in FrameLens : fifo' = Append(fifo, [len |-> n, rd |-> 0])
    BY <1>1 DEF Arrive
  <2>2. [len |-> n, rd |-> 0] \in Frame
    BY DEF Frame
  <2>3. fifo' \in Seq(Frame) /\ Len(fifo') <= FifoCap
    BY <1>1, <2>1, <2>2, BoundsAssumption DEF Arrive
  <2> QED
    BY <1>1, <2>3 DEF Arrive, main, Causes
<1>2. CASE TxDone
  BY <1>2 DEF TxDone, main, Causes
<1>3. CASE Isr
  BY <1>3 DEF Isr, IsrEnter, IsrFlag, IsrAck, controller, main
<1>4. CASE Boot
  <2>1. CASE EthInit
    <3>1. fifo' \in Seq(Frame) /\ Len(fifo') <= FifoCap
      BY <2>1, BoundsAssumption DEF EthInit
    <3> QED
      BY <2>1, <3>1 DEF EthInit, At, Pcs, BootPcs
  <2>2. CASE EthInitIM \/ InterruptsDisable \/ InterruptsEnable
    BY <2>2 DEF EthInitIM, InterruptsDisable, InterruptsEnable, At, controller,
       Pcs, BootPcs, LwipCode
  <2> QED
    BY <1>4, <2>1, <2>2 DEF Boot
<1>5. CASE sys_arch_protect
  <2>1. saved' \in Seq({0, 1}) /\ Len(saved') <= ProtDepth
    BY <1>5, BoundsAssumption DEF sys_arch_protect
  <2> QED
    BY <1>5, <2>1 DEF sys_arch_protect, controller
<1>6. CASE sys_arch_unprotect
  <2>1. /\ saved' \in Seq({0, 1}) /\ Len(saved') <= ProtDepth
        /\ saved[Len(saved)] \in {0, 1}
    BY <1>6, BoundsAssumption DEF sys_arch_unprotect
  <2> QED
    BY <1>6, <2>1 DEF sys_arch_unprotect, controller
<1>10. CASE low_level_output \/ EthSendWrite \/ EthSendWait \/ EthSendAck
  BY <1>10 DEF low_level_output, EthSendWrite, EthSendWait, EthSendAck, At, controller,
     Pcs, SendPcs
<1>7. CASE CheckFlag \/ InputDone
  BY <1>7 DEF CheckFlag, InputDone, At, controller, main, Pcs, RecvPcs, LwipCode
<1>8. CASE Receive
  <2>1. CASE ReadLen
    <3>1. PICK n \in LengthsRead(fifo) :
            \/ ValidLen(n) /\ fifo' = PopWord(fifo) /\ left' = WordsToRead(n)
                 /\ pc' = "words" /\ UNCHANGED unseen
            \/ fifo' = <<>> /\ unseen' = FALSE /\ pc' = "poll" /\ UNCHANGED left
      BY <2>1 DEF ReadLen
    <3>2. n \in Nat
      BY LengthsReadType
    <3>3. WordsToRead(n) \in Nat
      BY <3>2, WordsToReadType
    <3>4. PopWord(fifo) \in Seq(Frame) /\ Len(PopWord(fifo)) <= Len(fifo)
      BY PopWordType
    <3>5. fifo' \in Seq(Frame) /\ Len(fifo') <= FifoCap /\ left' \in Nat
      <4>1. CASE fifo' = PopWord(fifo) /\ left' = WordsToRead(n)
        BY <4>1, <3>3, <3>4, BoundsAssumption
      <4>2. CASE fifo' = <<>> /\ UNCHANGED left
        BY <4>2, BoundsAssumption
      <4> QED
        BY <3>1, <4>1, <4>2
    <3> QED
      BY <2>1, <3>1, <3>5 DEF ReadLen, Pcs, RecvPcs, LwipCode
  <2>2. CASE ReadWord
    BY <2>2, PopWordType, BoundsAssumption DEF ReadWord
  <2>3. CASE ClearFlag \/ ReadNpv \/ ReceiveDone
    BY <2>3 DEF ClearFlag, ReadNpv, ReceiveDone, At, controller, main, Pcs, RecvPcs, LwipCode
  <2> QED
    BY <1>8, <2>1, <2>2, <2>3 DEF Receive
<1>9. CASE UNCHANGED vars
  BY <1>9 DEF vars, controller, main
<1> QED
  BY <1>1, <1>2, <1>3, <1>4, <1>5, <1>6, <1>7, <1>8, <1>9, <1>10
     DEF Next, Main, LwipCalls, Returns

\* Type correctness of the driver, for every value of the constants.
THEOREM TypeCorrect == Spec => []TypeOK
  BY TypeInit, TypeNext, PTL DEF Spec

------------------------------------------------------------------------------
\* Every step keeps HandlerInv and NoLostWakeup: an arrival makes the interrupt
\* pending, the handler passes it on to the flag before it acknowledges it, and
\* main clears the flag only right before it looks at MACNPV.
LEMMA WakeupNext ==
    TypeOK /\ HandlerInv /\ NoLostWakeup /\ [Next]_vars => (HandlerInv /\ NoLostWakeup)'
<1> SUFFICES ASSUME TypeOK, HandlerInv, NoLostWakeup, [Next]_vars
             PROVE  (HandlerInv /\ NoLostWakeup)'
  OBVIOUS
<1> USE DEF HandlerInv, NoLostWakeup
<1>1. CASE Arrive
  BY <1>1 DEF Arrive, main
<1>2. CASE TxDone
  BY <1>2 DEF TxDone, main
<1>3. CASE Isr
  BY <1>3 DEF Isr, IsrEnter, IsrFlag, IsrAck, main
<1>4. CASE Boot
  BY <1>4 DEF Boot, EthInit, EthInitIM, InterruptsDisable, InterruptsEnable, At
<1>5. CASE LwipCalls
  BY <1>5 DEF LwipCalls, sys_arch_protect, low_level_output, LwipCode
<1>6. CASE Returns
  BY <1>6 DEF Returns, sys_arch_unprotect, EthSendWrite, EthSendWait, EthSendAck, At,
     TypeOK, LwipCode
<1>7. CASE CheckFlag \/ InputDone
  BY <1>7 DEF CheckFlag, InputDone, At
<1>8. CASE Receive
  BY <1>8 DEF Receive, ClearFlag, ReadNpv, ReadLen, ReadWord, ReceiveDone, At
<1>9. CASE UNCHANGED vars
  BY <1>9 DEF vars, main
<1> QED
  BY <1>1, <1>2, <1>3, <1>4, <1>5, <1>6, <1>7, <1>8, <1>9 DEF Next, Main

\* No wake-up between ethernet_handler and lwip_poll is ever lost.
THEOREM WakeupSafe == Spec => []NoLostWakeup
<1>1. Init => HandlerInv /\ NoLostWakeup
  BY DEF Init, HandlerInv, NoLostWakeup
<1> QED
  BY <1>1, WakeupNext, TypeCorrect, PTL DEF Spec

------------------------------------------------------------------------------
\* Every step keeps SavedInv and MaskingCorrect: PRIMASK is what
\* interrupts_disable left, under the critical sections entered since.
LEMMA MaskNext ==
    TypeOK /\ SavedInv /\ MaskingCorrect /\ [Next]_vars => (SavedInv /\ MaskingCorrect)'
<1> SUFFICES ASSUME TypeOK, SavedInv, MaskingCorrect, [Next]_vars
             PROVE  (SavedInv /\ MaskingCorrect)'
  OBVIOUS
<1> USE DEF SavedInv, MaskingCorrect, InInit, LwipCode
<1>1. CASE Arrive \/ TxDone \/ UNCHANGED vars
  BY <1>1 DEF Arrive, TxDone, vars, main
<1>2. CASE Isr
  BY <1>2 DEF Isr, IsrEnter, IsrFlag, IsrAck, main, TypeOK
<1>3. CASE Boot
  BY <1>3 DEF Boot, EthInit, EthInitIM, InterruptsDisable, InterruptsEnable, At, SendPcs
<1>4. CASE sys_arch_protect
  <2>1. /\ saved' # <<>> /\ Len(saved') = Len(saved) + 1
        /\ saved'[Len(saved) + 1] = primask
        /\ \A i \in 1..Len(saved) : saved'[i] = saved[i]
    BY <1>4 DEF sys_arch_protect, TypeOK
  <2>2. saved # <<>> <=> Len(saved) > 0
    BY DEF TypeOK
  <2>3. Len(saved) \in Nat
    BY DEF TypeOK
  <2> QED
    BY <1>4, <2>1, <2>2, <2>3 DEF sys_arch_protect, SendPcs
<1>5. CASE sys_arch_unprotect
  <2>1. /\ Len(saved) \in Nat \ {0} /\ Len(saved') = Len(saved) - 1
        /\ saved' = <<>> <=> Len(saved) = 1
        /\ \A i \in 1..Len(saved') : saved'[i] = saved[i]
    <3>1. saved \in Seq({0, 1}) /\ saved # <<>>
      BY <1>5 DEF sys_arch_unprotect, TypeOK
    <3>2. saved' = SubSeq(saved, 1, Len(saved) - 1)
      BY <1>5 DEF sys_arch_unprotect
    <3>3. Len(saved) \in Nat \ {0}
      BY <3>1
    <3>4. /\ saved' \in Seq({0, 1}) /\ Len(saved') = Len(saved) - 1
          /\ \A i \in 1..Len(saved') : saved'[i] = saved[i]
      <4> DEFINE n == Len(saved) - 1
      <4>1. n \in Nat /\ \A i \in 1..n : saved[i] \in {0, 1}
        BY <3>1, <3>3
      <4>2. /\ SubSeq(saved, 1, n) \in Seq({0, 1})
            /\ Len(SubSeq(saved, 1, n)) = IF 1 <= n THEN n - 1 + 1 ELSE 0
            /\ \A i \in 1..(n - 1 + 1) : SubSeq(saved, 1, n)[i] = saved[1 + i - 1]
        BY <4>1, SubSeqProperties
      <4>3. saved' = SubSeq(saved, 1, n)
        BY <3>2
      <4> HIDE DEF n
      <4>4. Len(saved') = n
        BY <4>1, <4>2, <4>3
      <4>5. ASSUME NEW i \in 1..n PROVE saved'[i] = saved[i]
        <5>1. i \in 1..(n - 1 + 1) /\ 1 + i - 1 = i
          BY <4>1
        <5> QED
          BY <4>2, <4>3, <5>1
      <4> QED
        BY <4>2, <4>3, <4>4, <4>5 DEF n
    <3>5. saved' = <<>> <=> Len(saved') = 0
      BY <3>4
    <3> QED
      BY <3>3, <3>4, <3>5
  <2>2. primask' = 1 <=> (InInit \/ Len(saved) > 1)
    <3>1. Len(saved) \in 1..Len(saved)
      BY <2>1
    <3>2. saved[Len(saved)] = 1 <=> (InInit \/ Len(saved) > 1)
      BY <3>1
    <3> QED
      BY <1>5, <3>2 DEF sys_arch_unprotect
  <2>3. UNCHANGED <<pc, ret, isr>> /\ (InInit' <=> InInit)
    BY <1>5 DEF sys_arch_unprotect
  <2>4. \A i \in 1..Len(saved') : i \in 1..Len(saved)
    BY <2>1
  <2>5. SavedInv'
    BY <1>5, <2>1, <2>3, <2>4 DEF sys_arch_unprotect
  <2>6. MaskingCorrect'
    BY <1>5, <2>1, <2>2, <2>3 DEF sys_arch_unprotect
  <2> QED
    BY <2>5, <2>6
<1>6. CASE low_level_output \/ EthSendWrite \/ EthSendWait \/ EthSendAck
  BY <1>6 DEF low_level_output, EthSendWrite, EthSendWait, EthSendAck, At, SendPcs, TypeOK
<1>7. CASE CheckFlag \/ InputDone \/ Receive
  BY <1>7 DEF CheckFlag, InputDone, Receive, ClearFlag, ReadNpv, ReadLen, ReadWord,
     ReceiveDone, At, SendPcs
<1> QED
  BY <1>1, <1>2, <1>3, <1>4, <1>5, <1>6, <1>7 DEF Next, Main, LwipCalls, Returns

\* lwIP is initialised with the handler shut out, for every nesting of critical
\* sections, and interrupts are enabled whenever main is outside both.
THEOREM MaskingSafe == Spec => []MaskingCorrect
<1>1. Init => SavedInv /\ MaskingCorrect
  BY DEF Init, SavedInv, MaskingCorrect, InInit, SendPcs
<1> QED
  BY <1>1, MaskNext, TypeCorrect, PTL DEF Spec

------------------------------------------------------------------------------
\* When a transmission never outlasts the wait loop of eth_send, every step keeps
\* TxInv, the acknowledge of TXEMP by ethernet_handler included.
LEMMA TxNext ==
    ASSUME SlowTx = FALSE
    PROVE  TypeOK /\ TxInv /\ [Next]_vars => TxInv'
<1> SUFFICES ASSUME TypeOK, TxInv, [Next]_vars PROVE TxInv'
  OBVIOUS
<1> USE DEF TxInv
<1>1. CASE Arrive \/ TxDone \/ UNCHANGED vars
  BY <1>1 DEF Arrive, TxDone, vars, main, controller
<1>2. CASE Isr
  BY <1>2 DEF Isr, IsrEnter, IsrFlag, IsrAck, main, controller
<1>3. CASE Boot \/ LwipCalls
  BY <1>3 DEF Boot, EthInit, EthInitIM, InterruptsDisable, InterruptsEnable, At,
     LwipCalls, sys_arch_protect, low_level_output, LwipCode, controller
<1>4. CASE Returns
  BY <1>4, SlowTx = FALSE
  DEF Returns, sys_arch_unprotect, EthSendWrite, EthSendWait, EthSendAck, At, controller
<1>5. CASE CheckFlag \/ InputDone \/ Receive
  BY <1>5 DEF CheckFlag, InputDone, Receive, ClearFlag, ReadNpv, ReadLen, ReadWord,
     ReceiveDone, At, controller
<1> QED
  BY <1>1, <1>2, <1>3, <1>4, <1>5 DEF Next, Main

\* eth_send never overwrites a frame that is still being sent, provided the
\* controller is done within the rounds of its wait loop.
THEOREM TxSafe ==
    ASSUME SlowTx = FALSE
    PROVE  Spec => []TxExclusive
<1>1. Init => TxInv
  BY DEF Init, TxInv
<1>2. TypeOK /\ TxInv /\ [Next]_vars => TxInv'
  BY TxNext
<1>3. TxInv => TxExclusive
  BY DEF TxInv, TxExclusive
<1> QED
  BY <1>1, <1>2, <1>3, TypeCorrect, PTL DEF Spec
=============================================================================
