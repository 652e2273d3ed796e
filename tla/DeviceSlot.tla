----------------------------- MODULE DeviceSlot -----------------------------
(***************************************************************************)
(* What a `DeviceFile` promises about the one path it declares, whatever   *)
(* operation, retry or lost session is under way                           *)
(* (providers/device_files/provider.py:51-84, 121-141):                    *)
(*                                                                         *)
(*   - the deployment puts a whole declared content there, except that a   *)
(*     session lost in a write may leave a cut one;                        *)
(*   - it does nothing to a path that holds something else than a file;    *)
(*   - it takes away only a file it wrote itself, except under a resource  *)
(*     with nothing recorded, which "is deleted as it stands".             *)
(*                                                                         *)
(* `DeviceFiles` implements this module.                                   *)
(***************************************************************************)
EXTENDS Naturals

CONSTANTS
  Content,  \* what a declaration can put at the path
  Cut,      \* the beginning of one, where a session was lost
  Absent,   \* nothing at the path
  Other     \* a link, a directory, a pipe

VARIABLES
  slot,     \* what is at the path
  by,       \* who put it there: "run", "hand", or "nobody"
  blank,    \* whether a resource stands that recorded no write of its own
  touches   \* how often somebody else touched the path

vars == <<slot, by, blank, touches>>

Init ==
  /\ slot \in Content \cup {Absent}
  /\ by = IF slot = Absent THEN "nobody" ELSE "run"
  /\ blank \in BOOLEAN
  /\ touches = 0

\* A write, whole.
Put(c) ==
  /\ slot # Other
  /\ slot' = c /\ by' = "run"
  /\ UNCHANGED <<blank, touches>>

\* A write whose session was lost while its bytes were on the way.
Spoil ==
  /\ slot # Other
  /\ slot' = Cut /\ by' = "run"
  /\ UNCHANGED <<blank, touches>>

\* A delete.
Withdraw ==
  /\ slot \notin {Absent, Other}
  /\ by = "run" \/ blank
  /\ slot' = Absent /\ by' = "nobody"
  /\ UNCHANGED <<blank, touches>>

\* A resource with nothing recorded takes the write that stands for its own,
\* or goes away itself.
Adopt ==
  /\ blank
  /\ by' \in {by, "run"}
  /\ blank' \in BOOLEAN
  /\ UNCHANGED <<slot, touches>>

\* Anybody else on the device does as they like.
Meddle(s) ==
  /\ slot' = s
  /\ by' = IF s = Absent THEN "nobody" ELSE "hand"
  /\ touches' = touches + 1
  /\ UNCHANGED blank

Next ==
  \/ \E c \in Content : Put(c)
  \/ Spoil
  \/ Withdraw
  \/ Adopt
  \/ \E s \in Content \cup {Absent, Other} : Meddle(s)

Spec == Init /\ [][Next]_vars
=============================================================================
