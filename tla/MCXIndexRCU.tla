---------------------------- MODULE MCXIndexRCU -----------------------------
(* Two workers and one background thread over two phases and two indexes:   *)
(* counters hold the sentinel, wrap and are carried over to the next index. *)
EXTENDS XIndexRCU
=============================================================================
