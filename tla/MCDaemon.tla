------------------------------ MODULE MCDaemon ------------------------------
(***************************************************************************)
(* Instances of Daemon for TLC: shells and pids are model values, and both *)
(* sets are interchangeable.                                               *)
(***************************************************************************)
EXTENDS Daemon, TLC

Symmetry == Permutations(Shells) \cup Permutations(Pids)

=============================================================================
