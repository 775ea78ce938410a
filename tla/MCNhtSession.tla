---------------------------- MODULE MCNhtSession ----------------------------
(***************************************************************************)
(* The sessions of the HTTP network driver for TLC.  Connections, sessions *)
(* and timers are interchangeable.                                         *)
(***************************************************************************)
EXTENDS NhtSession, TLC

Symmetry ==
  Permutations(Conns) \cup Permutations(Sessions) \cup Permutations(Timers)
=============================================================================
