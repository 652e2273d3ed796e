------------------------------ MODULE MCSeedKit ------------------------------
(* The kit brought up, the successor, and the file of a second rotation.   *)
EXTENDS SeedKit

CONSTANTS k1, k2, k3
Kits == {k1, k2, k3}
Bare == {"all", "recovery"}
=============================================================================
