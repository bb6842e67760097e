------------------------------ MODULE MCEvents ------------------------------
(* Events on a small instance: 16-bit integers, no, short and overflowing     *)
(* timeouts.                                                                  *)
EXTENDS Events

MCTimeouts == {-1, 0, 1, 33}
===========================================================================
