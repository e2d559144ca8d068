------------------------------- MODULE MCDhcp -------------------------------
(***************************************************************************)
(* A small instance of Dhcp for TLC.                                       *)
(***************************************************************************)
EXTENDS Dhcp

\* A lease with the default T1 and T2; one shorter than a tick; and one that
\* never ends, T1 and T2 given likewise.
MCLeases ==
  {[t0 |-> 12, t1 |-> Absent, t2 |-> Absent],
   [t0 |-> 1, t1 |-> Absent, t2 |-> Absent],
   [t0 |-> Infinite, t1 |-> Infinite, t2 |-> Infinite]}

\* The same, with ACKs that leave the lease time out.
MCAllLeases == MCLeases \cup {[t0 |-> Absent, t1 |-> Absent, t2 |-> Absent]}

=============================================================================
