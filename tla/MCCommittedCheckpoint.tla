------------------------- MODULE MCCommittedCheckpoint -------------------------
(***************************************************************************)
(* A value the configuration holds too, and one only the state marks.       *)
(***************************************************************************)
EXTENDS CommittedCheckpoint, TLC
==============================================================================
