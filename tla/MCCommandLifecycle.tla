------------------------- MODULE MCCommandLifecycle -------------------------
(* Instances of CommandLifecycle.  Command ids are interchangeable. *)
EXTENDS CommandLifecycle, TLC

Symmetry == Permutations(Commands)
=============================================================================
