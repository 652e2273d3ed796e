-------------------------- MODULE MCBoxReplacement --------------------------
(* Box identities for the bounds of the runs: a box, its replacement, those *)
(* a killed launch left, and those a stale checkpoint still names.          *)
EXTENDS BoxReplacement, TLC

BoxSet == 1..5

\* Workstations differ in nothing a safety property reads.
Interchangeable == Permutations(Workstations)
=============================================================================
