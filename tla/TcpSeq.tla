-------------------------------- MODULE TcpSeq -------------------------------
(***************************************************************************)
(* Sequence numbers of TCP (src/include/lwip/priv/tcp_priv.h): modulo      *)
(* SeqSpace, as those of the code are modulo 2^32, and compared by the     *)
(* sign of their difference.                                               *)
(***************************************************************************)
EXTENDS Integers

CONSTANT SeqSpace   \* the number of sequence numbers

Seq32(n) == n % SeqSpace
SeqLT(a, b) == Seq32(a - b) >= SeqSpace \div 2
SeqLEQ(a, b) == ~SeqLT(b, a)
SeqGT(a, b) == SeqLT(b, a)
SeqGEQ(a, b) == ~SeqLT(a, b)
SeqBetween(a, b, c) == SeqGEQ(a, b) /\ SeqLEQ(a, c)

Lesser(a, b) == IF a < b THEN a ELSE b
FinLen(seg) == IF seg.fin THEN 1 ELSE 0
TcpLen(seg) == seg.len + FinLen(seg)
==============================================================================
