-------------------------- MODULE MCGatewayPackages --------------------------
(* Two packages of the set and two they depend on, shaped after             *)
(* systemd-container and libnss-mymachines: the second pins the first, which *)
(* pins a package the firmware ships, and needs one it does not.             *)
EXTENDS GatewayPackages

CONSTANTS container, mymachines, systemd, libseccomp

Packages == {container, mymachines, systemd, libseccomp}
FirstSet == {container}
SecondSet == {mymachines}
PinsOf == [p \in Packages |->
             IF p = container THEN {systemd} ELSE IF p = mymachines THEN {container} ELSE {}]
NeedsOf == [p \in Packages |-> IF p = container THEN {libseccomp} ELSE {}]

\* The first release ships systemd; the second ships it newer, and ships
\* libseccomp as well.
Releases == {1, 2}
Shipped ==
  [f \in Releases |->
     [p \in Packages |-> IF p = systemd THEN f ELSE IF p = libseccomp /\ f = 2 THEN 2 ELSE 0]]

\* These releases ship none of the set, and are whole by themselves.
ASSUME ReleasesAssumption == ShipsNoneOfTheSet /\ ShipsWhole
=============================================================================
