-------------------------- MODULE MCRoutingDaemon ---------------------------
\* Two configurations and two releases, the second of which refuses one.
EXTENDS RoutingDaemon

CONSTANTS c1, c2, p1, p2

Confs == {c1, c2}
Releases == {p1, p2}
SecondRefuses == {<<c2, p2>>}
=============================================================================
