----------------------------- MODULE MCTimeouts -----------------------------
(***************************************************************************)
(* Two cyclic timers and the TCP timer, for a small clock and a superloop  *)
(* that may be later than the shorter intervals are long.                  *)
(***************************************************************************)
EXTENDS Timeouts

MCInterval == [t \in Timers |-> IF t = "arp" THEN 2 ELSE 1]
=============================================================================
