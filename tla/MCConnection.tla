--------------------------- MODULE MCConnection ---------------------------
(* Connection on small instances.                                          *)
EXTENDS Connection, TLC

\* Not the processes: they differ by their non-blocking sockets.
Symmetry == Permutations(Slots) \union Permutations(Conns)

\* The safety properties say nothing of what follows a crossing.
NoCrossing == ~crossed
===========================================================================
