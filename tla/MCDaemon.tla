------------------------------ MODULE MCDaemon -------------------------------
(* TLC instance of Daemon: process slots and clients are interchangeable.  *)
EXTENDS Daemon, TLC

Symmetry == Permutations(Daemons) \cup Permutations(Clients)
=============================================================================
