---------------------------- MODULE MCEmailQueue ----------------------------
(***************************************************************************)
(* Instances of EmailQueue for TLC: the emails and the controllers are     *)
(* model values, and both sets are interchangeable.                        *)
(***************************************************************************)
EXTENDS EmailQueueRefinement, TLC

Symmetry == Permutations(Emails) \cup Permutations(Controllers)

=============================================================================
