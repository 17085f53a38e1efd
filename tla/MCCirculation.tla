--------------------------- MODULE MCCirculation ---------------------------
(***************************************************************************)
(* Circulation for TLC: three addresses in partitions of two, so two doTx *)
(* goroutines, the second with a single address.  txRepeatTest runs 100  *)
(* times; the from balance is 0, too small for a positive base, or ample. *)
(***************************************************************************)
EXTENDS Circulation

CONSTANTS a1, a2, a3

MCAddrs == <<a1, a2, a3>>

\* 0: early return; 200: base 0; 1000: base 4, amounts 4..7 each
MCBalances == {0, 200, 1000}
=============================================================================
