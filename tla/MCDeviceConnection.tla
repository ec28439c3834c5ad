------------------------- MODULE MCDeviceConnection -------------------------
(***************************************************************************)
(* Instances of DeviceConnection for TLC.                                  *)
(***************************************************************************)
EXTENDS DeviceConnection, TLC

\* Workers, handler slots and task slots are interchangeable.
Symmetry == Permutations(Workers) \cup Permutations(Handlers) \cup Permutations(Tasks)
=============================================================================
