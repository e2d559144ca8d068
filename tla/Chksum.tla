--------------------------------- MODULE Chksum ---------------------------------
(***************************************************************************)
(* The Internet checksum as lwIP computes it (inet_chksum.c): two bytes at *)
(* a time as a little-endian machine reads them, over chains of pbufs of   *)
(* any length that start at any address; what udp_sendto_if_src and        *)
(* tcp_output_segment put into a message; and how icmp_input changes the   *)
(* checksum of an echo request into that of the reply.                     *)
(*                                                                         *)
(* A message is <<type, code, checksum, checksum>> and data.  All headers  *)
(* have their checksum at an even offset, which is all that matters.       *)
(***************************************************************************)
EXTENDS Integers, Sequences, SequencesExt

CONSTANTS
  Byte,      \* how many values a byte has: 2^8
  EchoType,  \* ICMP_ECHO
  Octets,    \* the bytes that data is made of
  MaxData,   \* bound on the data
  Halves     \* the 16-bit halves of IP addresses

ASSUME ChksumAssumption ==
  /\ Byte \in Nat /\ EchoType \in 1 .. Byte - 1 /\ MaxData \in Nat
  /\ Octets \subseteq 0 .. Byte - 1 /\ Halves \subseteq 0 .. Byte * Byte - 1

VARIABLES
  chain,   \* the pbufs of the message: their bytes, and if they start at an odd address
  phase    \* what was done with it

chksumVars == <<chain, phase>>

Word == Byte * Byte
Flip(w) == Word - 1 - w                 \* (u16_t)~w

FOLD_U32T(u) == (u \div Word) + (u % Word)
SWAP_BYTES_IN_WORD(w) == (w % Byte) * Byte + ((w \div Byte) % Byte)

--------------------------------------------------------------------------------
(* lwip_standard_chksum, version 2.  A byte at an odd address goes to the  *)
(* upper half of t, and the sum is turned round at the end.                *)

lwip_standard_chksum(b) ==
  LET early == b.odd /\ b.bytes # << >>
      rest == IF early THEN Tail(b.bytes) ELSE b.bytes
      bulk == FoldLeftDomain(LAMBDA sum, i : sum + (IF i % 2 = 1 THEN 1 ELSE Byte) * rest[i],
                             0, rest)
      sum == bulk + (IF early THEN Byte * Head(b.bytes) ELSE 0)
      folded == FOLD_U32T(FOLD_U32T(sum))
  IN  IF b.odd THEN SWAP_BYTES_IN_WORD(folded) ELSE folded

\* The loop over a chain: after an odd number of bytes the sum is turned round.
ChainSum(ps, start) ==
  LET Add(s, b) ==
        LET acc == FOLD_U32T(s.acc + lwip_standard_chksum(b))
        IN  IF Len(b.bytes) % 2 # 0
            THEN [acc |-> SWAP_BYTES_IN_WORD(acc), swapped |-> ~s.swapped]
            ELSE [s EXCEPT !.acc = acc]
      end == FoldLeft(Add, [acc |-> start, swapped |-> FALSE], ps)
  IN  IF end.swapped THEN SWAP_BYTES_IN_WORD(end.acc) ELSE end.acc

inet_chksum_pbuf(ps) == Flip(ChainSum(ps, 0) % Word)

Flat(ps) == FlattenSeq([i \in DOMAIN ps |-> ps[i].bytes])

\* The sum of the halves of two addresses, then the chain, protocol and length.
inet_chksum_pseudo(ps, proto, a) ==
  LET start == FOLD_U32T(FOLD_U32T(a[1] + a[2] + a[3] + a[4]))
      all == ChainSum(ps, start) + SWAP_BYTES_IN_WORD(proto)
               + SWAP_BYTES_IN_WORD(Len(Flat(ps)))
  IN  Flip(FOLD_U32T(FOLD_U32T(all)) % Word)

--------------------------------------------------------------------------------
(* A message is put together, gets its checksum, and may be an echo        *)
(* request that comes back as its reply.                                   *)

Lower(w) == w % Byte
Upper(w) == w \div Byte
Field(ps) == ps[1].bytes[3] + Byte * ps[1].bytes[4]
SetField(ps, w) == [ps EXCEPT ![1].bytes[3] = Lower(w), ![1].bytes[4] = Upper(w)]

Addresses == {<<h, 0, g, h>> : h, g \in Halves}
Proto == 1

ChksumInit ==
  /\ \E odd \in BOOLEAN, type \in {0, EchoType} :
       chain = <<[odd |-> odd, bytes |-> <<type, 0, 0, 0>>]>>
  /\ phase = [at |-> "built"]

\* More data, in the last pbuf or in a new one behind it.
AddData ==
  /\ phase.at = "built" /\ Len(Flat(chain)) < 4 + MaxData
  /\ \E d \in Octets :
       \/ chain' = [chain EXCEPT ![Len(chain)].bytes = Append(@, d)]
       \/ \E odd \in BOOLEAN : chain' = Append(chain, [odd |-> odd, bytes |-> <<d>>])
  /\ UNCHANGED phase

\* A peer, or icmp_send_response, which has its message in one pbuf, sends an
\* ICMP message.
SendIcmp ==
  /\ phase.at = "built" /\ chain' = SetField(chain, inet_chksum_pbuf(chain))
  /\ phase' = [at |-> "icmp"]

\* "chksum zero must become 0xffff, as zero means 'no checksum'"
NotZero(w) == IF w = 0 THEN Word - 1 ELSE w

SendUdp ==
  /\ phase.at = "built"
  /\ \E a \in Addresses :
       /\ chain' = SetField(chain, NotZero(inet_chksum_pseudo(chain, Proto, a)))
       /\ phase' = [at |-> "udp", addr |-> a]

\* Mutant: the carry of the addition is forgotten.
AdjustNoCarry(w) == (w + EchoType) % Word

Adjust(w) == IF w > Word - 1 - EchoType THEN (w + EchoType + 1) % Word
             ELSE w + EchoType

icmp_input ==
  /\ phase.at = "icmp" /\ chain[1].bytes[1] = EchoType
  /\ inet_chksum_pbuf(chain) = 0
  /\ chain' = SetField([chain EXCEPT ![1].bytes[1] = 0], Adjust(Field(chain)))
  /\ phase' = [at |-> "reply"]

ChksumNext == AddData \/ SendIcmp \/ SendUdp \/ icmp_input
ChksumSpec == ChksumInit /\ [][ChksumNext]_chksumVars

--------------------------------------------------------------------------------
\* The ones' complement sum of RFC 1071 over the bytes in a row: 0 only if all
\* of them are 0.
Sum1071(bytes) ==
  LET s == FoldLeftDomain(LAMBDA sum, i : sum + (IF i % 2 = 1 THEN 1 ELSE Byte) * bytes[i],
                          0, bytes)
  IN  IF s = 0 THEN 0 ELSE 1 + ((s - 1) % (Word - 1))

Pseudo(a, proto, n) ==
  LET half(w) == <<Lower(w), Upper(w)>>
  IN  half(a[1]) \o half(a[2]) \o half(a[3]) \o half(a[4]) \o <<0, proto, Upper(n), Lower(n)>>

\* What the message sums up to for whoever receives it.
Received(bytes) ==
  IF phase.at = "udp" THEN Sum1071(Pseudo(phase.addr, Proto, Len(bytes)) \o bytes)
  ELSE Sum1071(bytes)

Changed(bytes) ==
  {[bytes EXCEPT ![i] = b] : i \in DOMAIN bytes, b \in 0 .. Byte - 1} \ {bytes}

ChksumTypeOK ==
  /\ chain \in Seq([odd : BOOLEAN, bytes : Seq(0 .. Byte - 1)])
  /\ phase.at \in {"built", "icmp", "udp", "reply"}

\* However its data lies in pbufs, at odd addresses and in odd lengths, a
\* message is summed up as if it were in one piece (inet_chksum_pbuf,
\* inet_cksum_pseudo_base).  So each message sent is right for its receiver,
\* an echo reply too, whose checksum was not computed but adjusted; no UDP
\* datagram goes without a checksum; and a change of any one byte shows.
ChecksumsRight ==
  LET bytes == Flat(chain) IN
  /\ ChksumTypeOK
  /\ inet_chksum_pbuf(chain) = Flip(Sum1071(bytes))
  /\ phase.at = "udp" => /\ Field(chain) # 0
                         /\ inet_chksum_pseudo(chain, Proto, phase.addr) = 0
  /\ phase.at # "built" =>
       /\ Received(bytes) = Word - 1
       /\ \A other \in Changed(bytes) : Received(other) # Word - 1
=================================================================================
