-------------------------- MODULE MCGatewayMachine --------------------------
(* Instances of GatewayMachine for TLC: two images, which may be alike or  *)
(* of which the second does not stay up.                                   *)
EXTENDS GatewayMachine, TLC

CONSTANTS d1, d2

TwoDigests == {d1, d2}
OnlySecond == {d2}

\* Two good images are interchangeable.
Alike == Permutations(TwoDigests)

\* What MachineFaults tells states apart by.  Its invariants do not read the
\* two histories left out, on which no guard depends; and of an operation that
\* is over nothing is read again but, by the gate of its script, which it was.
Told ==
  <<trees, marker, stamp, machine, scripts, push, state, declared, unit, purged, bounds,
    IF push = "idle" THEN <<>> ELSE <<image, before>>,
    IF push = "idle" /\ conv["left"].pc = "idle" THEN <<>> ELSE <<op>> >>
=============================================================================
