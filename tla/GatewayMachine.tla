--------------------------- MODULE GatewayMachine ---------------------------
(***************************************************************************)
(* One container machine of the gateway, as the device and the deployment  *)
(* see it: the root filesystem tree `rootfs/` with the siblings a push and *)
(* a rollback park beside it, the digest marker, the converger's stamp,    *)
(* the running unit, and what Pulumi's state records of the artifact.      *)
(*                                                                         *)
(* Covered: DeviceArtifactProvider's create / update / read / diff (the    *)
(* pull, the unpack with its two renames, the marker, the hook), the hook  *)
(* itself (40-machines.sh, the health gate, machine-rollback), the same    *)
(* converger run by a sibling machine's hook or at boot, a rollback taken  *)
(* by hand, systemd's restart policy, lost sessions and power loss; the    *)
(* artifact's delete, a replacement whose original is deleted after it,    *)
(* and the settings file that declares the machine to the device.          *)
(*                                                                         *)
(* Abstracted: a tree is the digest it was unpacked from (or Torn: neither *)
(* one image nor absent); the content stamp is the marker, the other files *)
(* of the stamped set being held fixed; path kinds (links, pipes) are not  *)
(* modelled.  A script nobody hears any more may go on on the device, and  *)
(* is taken to be over before the next push begins.  Of the files a        *)
(* machine is made of only the settings file comes and goes.               *)
(***************************************************************************)
EXTENDS Naturals

CONSTANTS
  Digest,       \* the published image digests a pin can name
  Broken,       \* the digests whose machine does not stay up
  None,         \* no tree, no marker, nothing recorded
  Torn,         \* a tree that is not exactly one image
  NoStamp,      \* no stamp file
  Siblings,     \* whether other machines' hooks run the converger meanwhile
  ByHand,       \* whether an operator runs machine-rollback by hand
  MaxActs,      \* bound: commits that pin, replacements, rollbacks by hand
  MaxMishaps,   \* bound: steps that fail and say so
  MaxFaults     \* bound: timeouts, lost sessions and power losses

ASSUME DigestAssumption ==
  /\ Broken \subseteq Digest
  /\ None \notin Digest /\ Torn \notin Digest /\ NoStamp \notin Digest
  /\ None # Torn /\ None # NoStamp
ASSUME BoundAssumption ==
  /\ MaxActs \in Nat /\ MaxMishaps \in Nat /\ MaxFaults \in Nat
  /\ Siblings \in BOOLEAN /\ ByHand \in BOOLEAN

VARIABLES
  \* On the device, kept across a power loss.
  live, staging, superseded, rejected, layout,
  marker,       \* `rootfs.digest`
  stamp,        \* what the converger last acted on
  \* On the device, lost with power.
  runs,         \* where the files the machine runs on are ("none": it is down)
  held,         \* stopped by `systemctl stop`: the restart policy keeps off
  settings,     \* the machine's `.nspawn` file, which declares it, is there
  linked,       \* the link machinectl starts it by, its unit enabled
  conv,         \* the converger runs that can be under way: the push's, the
                \* one of a script nobody hears any more, another machine's
  roll,         \* where machine-rollback is
  rollBy,       \* who runs it: the push's hook, or nobody the push waits for
  \* In the deployment.
  push, op,     \* where the provider's operation is, and which one it is
  image,        \* the digest it lands
  before,       \* history: the live tree when the operation began
  applied,      \* the digest Pulumi's state records
  mine,         \* whether the identity it records is the marker's
  orig,         \* whether a replaced original waits for its delete
  entry,        \* the record of the settings file: of the write that is there?
  declared,     \* the digest the program pins, if it declares the machine
  purged,       \* history: how far a delete got with a tree that may be there
  retired,      \* history: a retirement was answered, its stop did not fail,
                \* and no converger that had read the machine as declared
                \* went on after it
  mismarked,    \* history: the write or the removal of the marker failed after
                \* the tree was changed, and none was done since
  wreck,        \* history: a failed command left no live tree, or a torn one
                \* ("lost"), or a torn tree in the superseded place ("parked")
  \* Bounds.
  acts, mishaps, faults

trees   == <<live, staging, superseded, rejected, layout>>
machine == <<runs, held>>
scripts == <<conv, roll, rollBy>>
state   == <<applied, mine, orig>>
unit    == <<settings, entry, linked, retired>>
history == <<purged, mismarked, wreck>>
rest    == <<op, image, before, state, declared, unit, history>>
engine  == <<push, rest>>
bounds  == <<acts, mishaps, faults>>
vars    == <<trees, marker, stamp, machine, scripts, engine, bounds>>

Tree   == Digest \cup {None, Torn}
Mark   == Digest \cup {None}
Place  == {"none", "live", "superseded", "rejected", "deleted"}
Runner == {"push", "left", "other"}
ConvPc == {"idle", "read", "link", "restart", "stamp", "done", "failed"}
RollPc == {"idle", "test", "stopped", "cleared", "aside", "restored",
           "swapped", "unmarked", "done", "failed"}
PushPc == {"idle", "pull", "clearing", "fetch", "unpack", "unpacked",
           "displaced", "swapped", "marked", "converging", "rolling",
           "withdraw", "landed",
           "purge", "purging", "sweeping", "unmark", "unhooking", "settling"}

Idle == [pc |-> "idle", want |-> None]

-----------------------------------------------------------------------------
(* Helpers: what the shell does to trees, and to a machine running on one. *)

\* `mv src dst`: a destination that is already a directory takes the source
\* inside itself, and is no longer one image.
Landed(src, dst) == IF dst = None THEN src ELSE Torn

\* What `rm -rf` has done to a tree when it is cut short.
Gnawed(tree) == IF tree = None THEN None ELSE Torn

\* A machine keeps running on files that are renamed, or deleted, under it.
Follow(from, to) == IF runs = from THEN to ELSE runs

Active == runs # "none"

\* The settings file is on the device and in the state, as the tree needs.
Declared == settings /\ entry # "none"

\* No operation is under way, and no script an earlier one left behind.
Free == push = "idle" /\ roll = "idle" /\ conv["left"].pc = "idle"

\* `create` or `update` starts.
Begins(o) == push' = "pull" /\ op' = o /\ image' = declared /\ before' = live

\* One step that failed and said so, against the bound.
Mishap == mishaps < MaxMishaps /\ mishaps' = mishaps + 1

-----------------------------------------------------------------------------
(* Mutants: what a slip in the code would make of an action.  No behaviour *)
(* of the specification takes one; each breaks a property stated below.    *)

\* `diff` compares the declaration alone and never asks the device.
MutBeginPush ==
  /\ Free
  /\ declared # None /\ Declared
  /\ applied # declared
  /\ Begins("land")
  /\ UNCHANGED <<trees, marker, stamp, machine, scripts,
                 state, declared, unit, history, bounds>>

\* The space is reclaimed by deleting the live tree as well.
MutPullClears ==
  /\ push = "pull"
  /\ push' = "clearing"
  /\ layout' = None /\ staging' = None /\ live' = None
  /\ superseded' = Gnawed(superseded)
  /\ runs' = IF runs \in {"live", "superseded"} THEN "deleted" ELSE runs
  /\ UNCHANGED <<rejected, marker, stamp, held, scripts,
                 rest, bounds>>

\* A clear that stopped part way does not stop the pull.
MutPullCleared ==
  /\ push = "clearing"
  /\ push' = "fetch"
  /\ wreck' = IF wreck = "parked" THEN "no" ELSE wreck
  /\ UNCHANGED <<trees, marker, stamp, machine, scripts, op, image, before,
                 state, declared, unit, purged, mismarked, bounds>>

\* The marker is emptied rather than removed.
MutWithdraw ==
  /\ push = "withdraw"
  /\ push' = "idle"
  /\ \/ marker' = NoStamp /\ mismarked' = FALSE /\ UNCHANGED mishaps
     \/ Mishap /\ UNCHANGED <<marker, mismarked>>
  /\ UNCHANGED <<trees, stamp, machine, scripts, op, image, before, state,
                 declared, unit, purged, wreck, acts, faults>>

\* A restore rather than a swap: the rejected tree is thrown away.
MutRollSwaps ==
  /\ roll = "restored"
  /\ roll' = "swapped"
  /\ rejected' = None
  /\ runs' = Follow("rejected", "deleted")
  /\ UNCHANGED <<live, staging, superseded, layout, marker, stamp, held,
                 conv, rollBy, engine, bounds>>

\* The rollback leaves the marker beside the other tree.
MutRollUnmarks ==
  /\ roll = "swapped"
  /\ roll' = "unmarked"
  /\ mismarked' = FALSE
  /\ UNCHANGED <<trees, marker, stamp, machine, conv, rollBy, push, op, image,
                 before, state, declared, unit, purged, wreck, bounds>>

-----------------------------------------------------------------------------
(* The deployment: the pin, the recorded state, the plan.                  *)

\* A commit moves the pin, forwards or back, drops the machine, or takes it in.
Bump(d) ==
  /\ d # declared
  /\ declared' = d
  /\ IF d = None THEN UNCHANGED acts ELSE acts < MaxActs /\ acts' = acts + 1
  /\ UNCHANGED <<trees, marker, stamp, machine, scripts, push, op, image,
                 before, state, unit, history, mishaps, faults>>

\* `_tree_holds`: a directory at the root, and a marker naming the digest.
TreeHolds(d) == live # None /\ marker = d

\* A refresh records what `read` answers: the marker's digest, or gone; the
\* settings file, or gone.  An identity is carried, and a replaced original is
\* read as well.
Refresh ==
  /\ push = "idle"
  /\ applied # None \/ entry # "none"
  /\ applied' = IF applied # None /\ live # None THEN marker ELSE None
  /\ mine' = (mine /\ applied' # None)
  /\ orig' = (orig /\ applied' # None)
  /\ entry' = IF settings THEN entry ELSE "none"
  /\ UNCHANGED <<trees, marker, stamp, machine, scripts, push, op, image,
                 before, declared, settings, linked, retired, history, bounds>>

\* `diff`, then `create` or `update`: a different pin lands, and an equal one
\* only when the device disagrees with it.
BeginPush ==
  /\ Free
  /\ declared # None /\ Declared
  /\ applied # declared \/ ~TreeHolds(declared)
  /\ Begins("land")
  /\ UNCHANGED <<trees, marker, stamp, machine, scripts,
                 state, declared, unit, history, bounds>>

\* A `--replace`, a taint: created anew at the same root, and the original is
\* deleted after that.
BeginReplace ==
  /\ Free
  /\ declared # None /\ Declared /\ applied # None /\ ~orig
  /\ acts < MaxActs /\ acts' = acts + 1
  /\ Begins("replace")
  /\ UNCHANGED <<trees, marker, stamp, machine, scripts,
                 state, declared, unit, history, mishaps, faults>>

BeginDelete(o) ==
  /\ Free
  /\ IF o = "original" THEN orig ELSE declared = None /\ applied # None
  /\ push' = "purge" /\ op' = o /\ image' = None /\ before' = None
  /\ UNCHANGED <<trees, marker, stamp, machine, scripts,
                 state, declared, unit, history, bounds>>

\* The settings file lands before the tree and goes after it; the hook of both
\* converges the machine.
BeginSettings ==
  /\ Free
  /\ \/ /\ declared # None /\ ~Declared
        /\ settings' = TRUE
        /\ retired' = IF Active /\ ~linked THEN retired ELSE "no"
        /\ entry' = IF entry = "mine" THEN "other" ELSE entry
     \/ /\ declared = None /\ applied = None /\ ~orig /\ entry = "mine"
        /\ settings' = FALSE /\ UNCHANGED <<entry, retired>>
  /\ push' = "settling" /\ op' = "settings" /\ image' = None /\ before' = None
  /\ conv' = [conv EXCEPT !["push"] = [pc |-> "read", want |-> None]]
  /\ UNCHANGED <<trees, marker, stamp, machine, roll, rollBy,
                 state, declared, linked, history, bounds>>

\* The file that stands is another write's than the recorded one: it stays,
\* without a hook.
LeaveSettings ==
  /\ Free
  /\ declared = None /\ applied = None /\ ~orig /\ entry = "other"
  /\ entry' = "none"
  /\ UNCHANGED <<trees, marker, stamp, machine, scripts, push, op, image,
                 before, state, declared, settings, linked, retired, history,
                 bounds>>

-----------------------------------------------------------------------------
(* `_land`: pull_script, unpack_script, `_mark`.                           *)

\* The pull's first act deletes what the last push left; it takes a while.
PullClears ==
  /\ push = "pull"
  /\ push' = "clearing"
  /\ layout' = None /\ staging' = None
  /\ superseded' = Gnawed(superseded)
  /\ runs' = Follow("superseded", "deleted")
  /\ UNCHANGED <<live, rejected, marker, stamp, held, scripts,
                 rest, bounds>>

PullCleared ==
  /\ push = "clearing"
  /\ push' = "fetch"
  /\ superseded' = None
  /\ wreck' = IF wreck = "parked" THEN "no" ELSE wreck
  /\ UNCHANGED <<live, staging, rejected, layout, marker, stamp, machine,
                 scripts, op, image, before, state, declared, unit, purged,
                 mismarked, bounds>>

\* `rm -rf` stops part way, and the pull with it.
PullFails ==
  /\ push = "clearing"
  /\ Mishap
  /\ push' = "idle"
  /\ wreck' = IF superseded = Torn /\ wreck = "no" THEN "parked" ELSE wreck
  /\ UNCHANGED <<trees, marker, stamp, machine, scripts, op, image, before,
                 state, declared, unit, purged, mismarked, acts, faults>>

\* `skopeo copy` puts the pinned image in the layout, or fails part way.
Fetch ==
  /\ push = "fetch"
  /\ \/ layout' = image /\ push' = "unpack" /\ UNCHANGED mishaps
     \/ Mishap /\ layout' = Torn /\ push' = "idle"
  /\ UNCHANGED <<live, staging, superseded, rejected, marker, stamp, machine,
                 scripts, rest, acts, faults>>

\* `umoci raw unpack` into the staging tree, then the layout goes.
Unpack ==
  /\ push = "unpack"
  /\ \/ staging' = layout /\ layout' = None /\ push' = "unpacked"
        /\ UNCHANGED mishaps
     \/ Mishap /\ staging' = Torn /\ push' = "idle" /\ UNCHANGED layout
     \/ Mishap /\ staging' = layout /\ layout' = Torn /\ push' = "idle"
  /\ UNCHANGED <<live, superseded, rejected, marker, stamp, machine,
                 scripts, rest, acts, faults>>

\* The first rename: the live tree, if there is one, is moved aside.
Displace ==
  /\ push = "unpacked"
  /\ \/ push' = "displaced" /\ UNCHANGED mishaps
        /\ IF live = None
             THEN UNCHANGED <<live, superseded, runs>>
             ELSE /\ superseded' = Landed(live, superseded)
                  /\ live' = None
                  /\ runs' = Follow("live", "superseded")
     \/ Mishap /\ push' = "idle" /\ UNCHANGED <<live, superseded, runs>>
  /\ UNCHANGED <<staging, rejected, layout, marker, stamp, held, scripts,
                 rest, acts, faults>>

\* The second rename: the staging tree becomes the live one.
Swap ==
  /\ push = "displaced"
  /\ \/ push' = "swapped" /\ UNCHANGED <<wreck, mishaps>>
        /\ live' = Landed(staging, live) /\ staging' = None
     \/ Mishap /\ push' = "idle" /\ wreck' = "lost" /\ UNCHANGED <<live, staging>>
  /\ UNCHANGED <<superseded, rejected, layout, marker, stamp, machine,
                 scripts, op, image, before, state, declared, unit, purged,
                 mismarked, acts, faults>>

\* The write fails before the marker is replaced or after, and the operation
\* with it: it is not yet where a failure withdraws the marker.
WriteMarker ==
  /\ push = "swapped"
  /\ \/ push' = "marked" /\ marker' = image /\ UNCHANGED mishaps
     \/ Mishap /\ push' = "idle" /\ marker' \in {marker, image}
  /\ mine' = (mine /\ marker' # image)
  /\ mismarked' = (marker' # image)
  /\ UNCHANGED <<trees, stamp, machine, scripts, op, image, before, applied,
                 orig, declared, unit, purged, wreck, acts, faults>>

\* The hook starts with the converger.
RunHook ==
  /\ push = "marked"
  /\ push' = "converging"
  /\ conv' = [conv EXCEPT !["push"] = [pc |-> "read", want |-> None]]
  /\ UNCHANGED <<trees, marker, stamp, machine, roll, rollBy,
                 rest, bounds>>

-----------------------------------------------------------------------------
(* 40-machines.sh over this machine.  Starting systemd's unit boots        *)
(* whatever tree stands at `rootfs` at that moment.                        *)

\* The unit starts, or the start is refused: a missing tree or link refuses,
\* a broken image may, and any other start that fails is a mishap.  `held`
\* ends either way: systemd has been asked to run the unit.
StartOutcome(up) ==
  /\ held' = FALSE
  /\ IF up
       THEN live # None /\ linked /\ runs' = "live" /\ UNCHANGED mishaps
       ELSE /\ runs' = "none"
            /\ IF live \in Broken \cup {None, Torn} \/ ~linked
                 THEN UNCHANGED mishaps ELSE Mishap

\* A converger that has exited: nobody this machine knows of waits for another's.
Exited(r, pc) == IF r = "other" THEN Idle ELSE [pc |-> pc, want |-> None]

\* A link without a settings file: the machine is retired.  A stop that fails
\* is passed over, and its link goes all the same.
Retires ==
  IF settings \/ ~linked
    THEN UNCHANGED <<linked, machine, retired, mishaps>>
    ELSE /\ linked' = FALSE
         /\ \/ runs' = "none" /\ held' = TRUE /\ UNCHANGED <<retired, mishaps>>
            \/ Active /\ Mishap /\ retired' = "strayed" /\ UNCHANGED machine

\* With no settings file or no tree there is nothing more to do.
ConvergeReads(r) ==
  /\ conv[r].pc = "read"
  /\ Retires
  /\ conv' = [conv EXCEPT ![r] = IF settings /\ live # None
                THEN [pc |-> "link", want |-> None] ELSE Exited(r, "done")]
  /\ UNCHANGED <<trees, marker, stamp, roll, rollBy, push, op, image, before,
                 state, declared, settings, entry, history, acts, faults>>

\* The link and the unit, if they can be made; then, the stamp agrees and the
\* unit is active: nothing to do.  Otherwise it is restarted.
ConvergeLinks(r) ==
  /\ conv[r].pc = "link"
  /\ \/ linked' = TRUE /\ UNCHANGED mishaps
     \/ ~linked /\ Mishap /\ UNCHANGED linked
  /\ retired' = IF ~settings THEN "strayed" ELSE IF linked' THEN "no" ELSE retired
  /\ conv' = [conv EXCEPT ![r] =
                IF marker = stamp /\ Active
                  THEN Exited(r, "done")
                  ELSE [pc |-> "restart", want |-> marker]]
  /\ UNCHANGED <<trees, marker, stamp, machine, roll, rollBy, push, op, image,
                 before, state, declared, settings, entry, history, acts, faults>>

ConvergeRestarts(r) ==
  /\ conv[r].pc = "restart"
  /\ \E up \in BOOLEAN :
       /\ StartOutcome(up)
       /\ conv' = [conv EXCEPT ![r] = IF up
                     THEN [pc |-> "stamp", want |-> conv[r].want]
                     ELSE Exited(r, "failed")]
  /\ UNCHANGED <<trees, marker, stamp, roll, rollBy, engine, acts, faults>>

\* A stamp whose write fails is the old one, or empty.
ConvergeStamps(r) ==
  /\ conv[r].pc = "stamp"
  /\ \/ stamp' = conv[r].want /\ UNCHANGED mishaps
     \/ Mishap /\ stamp' \in {stamp, NoStamp}
  /\ conv' = [conv EXCEPT ![r] = Exited(r, "done")]
  /\ UNCHANGED <<trees, marker, machine, roll, rollBy, engine, acts, faults>>

\* Another machine's hook runs the converger, which walks every machine.
SiblingHook ==
  /\ Siblings
  /\ conv["other"].pc = "idle"
  /\ conv' = [conv EXCEPT !["other"] = [pc |-> "read", want |-> None]]
  /\ UNCHANGED <<trees, marker, stamp, machine, roll, rollBy, engine, bounds>>

-----------------------------------------------------------------------------
(* The health gate of the hook, and what the provider makes of its exit.   *)

\* A tree is there and the unit is not active: roll back, then exit 1.
GateRollsBack ==
  /\ push = "converging"
  /\ conv["push"].pc \in {"done", "failed"}
  /\ live # None /\ ~Active
  /\ push' = "rolling"
  /\ roll' = "test" /\ rollBy' = "hook"
  /\ conv' = [conv EXCEPT !["push"] = Idle]
  /\ UNCHANGED <<trees, marker, stamp, machine,
                 rest, bounds>>

\* Otherwise the hook exits with the converger's status, which another
\* machine's failed start makes non-zero too.
GateExits ==
  /\ push = "converging"
  /\ conv["push"].pc \in {"done", "failed"}
  /\ live = None \/ Active
  /\ \/ conv["push"].pc = "done" /\ push' = "landed" /\ UNCHANGED mishaps
     \/ conv["push"].pc = "failed" /\ push' = "withdraw" /\ UNCHANGED mishaps
     \/ conv["push"].pc = "done" /\ Siblings /\ Mishap /\ push' = "withdraw"
  /\ conv' = [conv EXCEPT !["push"] = Idle]
  /\ UNCHANGED <<trees, marker, stamp, machine, roll, rollBy,
                 rest, acts, faults>>

\* The gate of a script nobody hears any more: only a push's has a tree to roll
\* back, a delete's finding none and a settings file's leaving it alone.
LeftGate ==
  /\ conv["left"].pc \in {"done", "failed"}
  /\ conv' = [conv EXCEPT !["left"] = Idle]
  /\ roll' = IF op \in {"land", "replace"} /\ live # None /\ ~Active
               THEN "test" ELSE roll
  /\ UNCHANGED <<trees, marker, stamp, machine, rollBy, engine, bounds>>

RollbackExits ==
  /\ roll \in {"done", "failed"}
  /\ roll' = "idle" /\ rollBy' = "nobody"
  /\ push' = IF rollBy = "hook" THEN "withdraw" ELSE push
  /\ UNCHANGED <<trees, marker, stamp, machine, conv,
                 rest, bounds>>

\* A hook that did not succeed takes the marker back if it can, and the
\* operation fails.
Withdraw ==
  /\ push = "withdraw"
  /\ push' = "idle"
  /\ \/ marker' = None /\ mismarked' = FALSE /\ UNCHANGED mishaps
     \/ Mishap /\ UNCHANGED <<marker, mismarked>>
  /\ UNCHANGED <<trees, stamp, machine, scripts, op, image, before, state,
                 declared, unit, purged, wreck, acts, faults>>

\* The operation returns, and the engine records its outputs.
Record ==
  /\ push = "landed"
  /\ push' = "idle"
  /\ applied' = image /\ mine' = TRUE
  /\ orig' = (orig \/ op = "replace")
  /\ purged' = IF superseded = Torn THEN purged ELSE "no"
  /\ wreck' = IF superseded = Torn THEN "parked" ELSE "no"
  /\ UNCHANGED <<trees, marker, stamp, machine, scripts, op, image, before,
                 declared, unit, mismarked, bounds>>

-----------------------------------------------------------------------------
(* `_delete`: purge_script, the marker, the hook; and the settings file's. *)

\* The marker that stands is another write's than the one recorded.
Rewritten == marker # None /\ ~(op = "retire" /\ mine)

\* The engine drops what a delete is done with.
Drop == IF op = "original"
          THEN orig' = FALSE /\ UNCHANGED <<applied, mine>>
          ELSE applied' = None /\ mine' = FALSE /\ UNCHANGED orig

\* A warning, no hook, and the resource is dropped.
Leave ==
  /\ push = "purge"
  /\ Rewritten
  /\ push' = "idle"
  /\ Drop
  /\ UNCHANGED <<trees, marker, stamp, machine, scripts, op, image, before,
                 declared, unit, history, bounds>>

\* One `rm -rf` takes the tree and then its siblings, the machine running or
\* not.
Purge ==
  /\ push = "purge"
  /\ ~Rewritten
  /\ push' = "purging"
  /\ live' = Gnawed(live)
  /\ runs' = Follow("live", "deleted")
  /\ purged' = IF live = None THEN purged ELSE "partly"
  /\ UNCHANGED <<staging, superseded, rejected, layout, marker, stamp, held,
                 scripts, op, image, before, state, declared, unit, mismarked,
                 wreck, bounds>>

Sweep ==
  /\ push = "purging"
  /\ push' = "sweeping"
  /\ live' = None /\ purged' = "wholly"
  /\ staging' = Gnawed(staging) /\ layout' = Gnawed(layout)
  /\ superseded' = Gnawed(superseded)
  /\ runs' = Follow("superseded", "deleted")
  /\ UNCHANGED <<rejected, marker, stamp, held, scripts, op, image, before,
                 state, declared, unit, mismarked, wreck, bounds>>

Purged ==
  /\ push = "sweeping"
  /\ push' = "unmark"
  /\ superseded' = None /\ staging' = None /\ layout' = None
  /\ UNCHANGED <<live, rejected, marker, stamp, machine, scripts, rest, bounds>>

\* It stops part way, or the marker's removal fails: and so does the delete.
PurgeFails ==
  /\ push \in {"purging", "sweeping", "unmark"}
  /\ Mishap
  /\ push' = "idle"
  /\ UNCHANGED <<trees, marker, stamp, machine, scripts, rest, acts, faults>>

Unmark ==
  /\ push = "unmark"
  /\ push' = "unhooking"
  /\ marker' = None /\ mismarked' = FALSE
  /\ conv' = [conv EXCEPT !["push"] = [pc |-> "read", want |-> None]]
  /\ UNCHANGED <<trees, stamp, machine, roll, rollBy, op, image, before, state,
                 declared, unit, purged, wreck, bounds>>

Converged(ok) ==
  /\ conv["push"].pc \in {"done", "failed"}
  /\ ok => conv["push"].pc = "done"
  /\ IF ~ok /\ conv["push"].pc = "done" THEN Siblings /\ Mishap ELSE UNCHANGED mishaps
  /\ push' = "idle" /\ conv' = [conv EXCEPT !["push"] = Idle]

\* A hook that fails leaves the resource to be deleted again.
Deleted ==
  /\ push = "unhooking"
  /\ \E ok \in BOOLEAN : Converged(ok) /\ IF ok THEN Drop ELSE UNCHANGED state
  /\ UNCHANGED <<trees, marker, stamp, machine, roll, rollBy, op, image, before,
                 declared, unit, history, acts, faults>>

\* The gate holds a settings file that landed to a machine that is up; a write
\* or a delete whose hook fails is not recorded.
Settled ==
  /\ push = "settling"
  /\ \E ok \in BOOLEAN :
       /\ Converged(ok)
       /\ IF ok /\ (settings /\ live # None => Active)
            THEN entry' = (IF settings THEN "mine" ELSE "none")
            ELSE UNCHANGED entry
       /\ retired' = IF ok /\ ~settings /\ retired = "no" THEN "yes" ELSE retired
  /\ UNCHANGED <<trees, marker, stamp, machine, roll, rollBy, op, image, before,
                 state, declared, settings, linked, history, acts, faults>>

-----------------------------------------------------------------------------
(* machine-rollback.                                                       *)

\* An operator runs it over the LAN while no push is under way.
RollbackByHand ==
  /\ ByHand /\ acts < MaxActs
  /\ Free
  /\ roll' = "test" /\ rollBy' = "nobody"
  /\ acts' = acts + 1
  /\ UNCHANGED <<trees, marker, stamp, machine, conv, engine,
                 mishaps, faults>>

\* Nothing superseded: exit 1.  Otherwise the unit is stopped, if it can be.
RollTests ==
  /\ roll = "test"
  /\ roll' = IF superseded = None THEN "failed" ELSE "stopped"
  /\ \/ superseded = None /\ UNCHANGED <<machine, mishaps>>
     \/ superseded # None /\ runs' = "none" /\ held' = TRUE /\ UNCHANGED mishaps
     \/ superseded # None /\ Active /\ Mishap /\ UNCHANGED machine
  /\ UNCHANGED <<trees, marker, stamp, conv, rollBy, engine, acts, faults>>

RollClears ==
  /\ roll = "stopped"
  /\ roll' = "cleared"
  /\ rejected' = None
  /\ runs' = Follow("rejected", "deleted")
  /\ UNCHANGED <<live, staging, superseded, layout, marker, stamp, held,
                 conv, rollBy, engine, bounds>>

\* `set -e`: with no live tree the rename fails, and the script ends there.
RollMovesAside ==
  /\ roll = "cleared"
  /\ IF live = None
       THEN roll' = "failed" /\ UNCHANGED <<live, rejected, runs>>
       ELSE /\ roll' = "aside"
            /\ rejected' = Landed(live, rejected)
            /\ live' = None
            /\ runs' = Follow("live", "rejected")
  /\ UNCHANGED <<staging, superseded, layout, marker, stamp, held,
                 conv, rollBy, engine, bounds>>

RollRestores ==
  /\ roll = "aside"
  /\ roll' = "restored"
  /\ live' = Landed(superseded, live)
  /\ superseded' = None
  /\ runs' = Follow("superseded", "live")
  /\ wreck' = IF wreck = "parked" THEN "lost" ELSE wreck
  /\ UNCHANGED <<staging, rejected, layout, marker, stamp, held, conv, rollBy,
                 push, op, image, before, state, declared, unit, purged,
                 mismarked, bounds>>

RollSwaps ==
  /\ roll = "restored"
  /\ roll' = "swapped"
  /\ superseded' = Landed(rejected, superseded)
  /\ rejected' = None
  /\ runs' = Follow("rejected", "superseded")
  /\ UNCHANGED <<live, staging, layout, marker, stamp, held,
                 conv, rollBy, engine, bounds>>

RollUnmarks ==
  /\ roll = "swapped"
  /\ roll' = "unmarked"
  /\ marker' = None /\ mismarked' = FALSE
  /\ UNCHANGED <<trees, stamp, machine, conv, rollBy, push, op, image, before,
                 state, declared, unit, purged, wreck, bounds>>

\* `set -e`: the first command that fails ends the script where it is.
RollFails ==
  /\ roll \in {"stopped", "cleared", "aside", "restored", "swapped"}
  /\ Mishap
  /\ roll' = "failed"
  /\ rejected' = IF roll = "stopped" THEN Gnawed(rejected) ELSE rejected
  /\ wreck' = IF roll = "aside" THEN "lost" ELSE wreck
  /\ mismarked' = (mismarked \/ roll \in {"restored", "swapped"})
  /\ UNCHANGED <<live, staging, superseded, layout, marker, stamp, machine,
                 conv, rollBy, push, op, image, before, state, declared, unit,
                 purged, acts, faults>>

\* `systemctl start`, which does nothing to a unit that is already active.
RollStarts ==
  /\ roll = "unmarked"
  /\ \/ /\ Active
        /\ roll' = "done"
        /\ UNCHANGED <<machine, mishaps>>
     \/ /\ ~Active
        /\ \E up \in BOOLEAN : /\ StartOutcome(up)
                               /\ roll' = IF up THEN "done" ELSE "failed"
  /\ UNCHANGED <<trees, marker, stamp, conv, rollBy, engine, acts, faults>>

-----------------------------------------------------------------------------
(* The machine, systemd, and what interrupts everything.                   *)

\* A machine on a broken image dies by itself; any other death is a mishap.
RunningImage == IF runs = "live" THEN live
                ELSE IF runs = "superseded" THEN superseded
                ELSE IF runs = "rejected" THEN rejected ELSE Torn

Dies ==
  /\ Active
  /\ runs' = "none"
  /\ IF RunningImage \in Broken THEN UNCHANGED mishaps ELSE Mishap
  /\ UNCHANGED <<trees, marker, stamp, held, scripts, engine, acts, faults>>

\* The drop-in's `Restart=always`, and the enabled unit at boot.
AutoRestart ==
  /\ ~Active /\ ~held /\ live # None /\ linked
  /\ runs' = "live"
  /\ UNCHANGED <<trees, marker, stamp, held, scripts, engine, bounds>>

\* The device goes on with a script nobody hears any more, converger, gate and
\* rollback, or it is killed.
Abandon ==
  /\ \E on \in {conv["push"], conv["left"]} :
       conv' = [conv EXCEPT !["push"] = Idle, !["left"] = on]
  /\ roll' \in (IF rollBy = "hook" THEN {roll, "idle"} ELSE {roll})
  /\ rollBy' = "nobody"

\* The transport's timeout ends the hook: the provider withdraws the marker
\* over the same session.
HookTimesOut ==
  /\ faults < MaxFaults
  /\ push \in {"converging", "rolling"}
  /\ push' = "withdraw"
  /\ Abandon
  /\ faults' = faults + 1
  /\ UNCHANGED <<trees, marker, stamp, machine,
                 rest, acts, mishaps>>

\* The runner or its session is lost: nobody hears the rest, and nobody
\* withdraws the marker.
SessionLost ==
  /\ faults < MaxFaults
  /\ push # "idle"
  /\ push' = "idle"
  /\ Abandon
  /\ faults' = faults + 1
  /\ UNCHANGED <<trees, marker, stamp, machine,
                 rest, acts, mishaps>>

\* Power is lost: every script stops where it is, and the boot chain runs the
\* converger when power is back.
PowerLost ==
  /\ faults < MaxFaults
  /\ push' = "idle"
  /\ conv' = [conv EXCEPT !["push"] = Idle, !["left"] = Idle,
                          !["other"] = [pc |-> "read", want |-> None]]
  /\ roll' = "idle" /\ rollBy' = "nobody"
  /\ runs' = "none" /\ held' = FALSE
  /\ faults' = faults + 1
  /\ UNCHANGED <<trees, marker, stamp,
                 rest, acts, mishaps>>

-----------------------------------------------------------------------------
(* A device that has never held the machine, and a program that pins it.   *)
Init ==
  /\ live = None /\ staging = None /\ superseded = None
  /\ rejected = None /\ layout = None
  /\ marker = None /\ stamp = NoStamp
  /\ runs = "none" /\ held = FALSE
  /\ conv = [r \in Runner |-> Idle]
  /\ roll = "idle" /\ rollBy = "nobody"
  /\ settings = FALSE /\ entry = "none" /\ linked = FALSE /\ retired = "no"
  /\ push = "idle" /\ op = "land" /\ image = None /\ before = None
  /\ applied = None /\ mine = FALSE /\ orig = FALSE
  /\ purged = "no" /\ mismarked = FALSE /\ wreck = "no"
  /\ declared \in Digest
  /\ acts = 0 /\ mishaps = 0 /\ faults = 0

Deploy ==
  \/ BeginPush \/ BeginSettings \/ LeaveSettings
  \/ \E o \in {"retire", "original"} : BeginDelete(o)

Land ==
  \/ PullClears \/ PullCleared \/ PullFails \/ Fetch \/ Unpack \/ Displace \/ Swap
  \/ WriteMarker \/ RunHook \/ GateRollsBack \/ GateExits
  \/ Withdraw \/ Record
  \/ Leave \/ Purge \/ Sweep \/ Purged \/ PurgeFails \/ Unmark \/ Deleted \/ Settled

Converge(r) ==
  ConvergeReads(r) \/ ConvergeLinks(r) \/ ConvergeRestarts(r) \/ ConvergeStamps(r)

Rollback ==
  \/ RollTests \/ RollClears \/ RollMovesAside \/ RollRestores
  \/ RollSwaps \/ RollUnmarks \/ RollFails \/ RollStarts \/ RollbackExits

Next ==
  \/ \E d \in Digest \cup {None} : Bump(d)
  \/ Refresh \/ Deploy \/ BeginReplace \/ Land
  \/ \E r \in Runner : Converge(r)
  \/ SiblingHook \/ LeftGate
  \/ Rollback \/ RollbackByHand
  \/ Dies \/ AutoRestart
  \/ HookTimesOut \/ SessionLost \/ PowerLost

Spec == Init /\ [][Next]_vars

-----------------------------------------------------------------------------
(* Properties.                                                             *)

TypeOK ==
  /\ live \in Tree /\ staging \in Tree /\ superseded \in Tree
  /\ rejected \in Tree /\ layout \in Tree
  /\ marker \in Mark /\ stamp \in Mark \cup {NoStamp}
  /\ runs \in Place /\ held \in BOOLEAN
  /\ conv \in [Runner -> [pc : ConvPc, want : Mark]]
  /\ roll \in RollPc /\ rollBy \in {"hook", "nobody"}
  /\ push \in PushPc /\ image \in Mark /\ before \in Tree
  /\ settings \in BOOLEAN /\ linked \in BOOLEAN
  /\ entry \in {"none", "mine", "other"} /\ retired \in {"no", "yes", "strayed"}
  /\ op \in {"land", "replace", "retire", "original", "settings"}
  /\ applied \in Mark /\ declared \in Mark
  /\ mine \in BOOLEAN /\ orig \in BOOLEAN
  /\ purged \in {"no", "partly", "wholly"}
  /\ mismarked \in BOOLEAN /\ wreck \in {"no", "parked", "lost"}
  /\ acts \in 0 .. MaxActs /\ mishaps \in 0 .. MaxMishaps
  /\ faults \in 0 .. MaxFaults

AtRest == push = "idle" /\ roll = "idle"

(* The tree a machine boots is one image or absent, never a partial one:   *)
(* unpack_script's two renames, and the rollback's three, over whatever an *)
(* interrupted or failed push or rollback left beside the live tree.       *)
LiveWhole == live = Torn => purged = "partly"

(* A hook's rollback that ran to its end put back exactly the tree that    *)
(* was live when the push began, parked the pushed one in its place, and   *)
(* left no claim: `machine-rollback` undoes `unpack_script`.               *)
RollbackRestores ==
  push = "rolling" /\ roll = "done" =>
    /\ live = before
    /\ superseded = image
    /\ marker = None

(* What the engine is about to record is what the device holds: a tree     *)
(* from the digest, with the marker that says so, as `diff` will ask.      *)
LandedHolds == push = "landed" => live = image /\ marker = image

(* A machine whose retirement was answered, and whose stop did not fail,   *)
(* does not run, and neither a boot, the restart policy, a rollback nor a  *)
(* tree that was left brings it back; only a converger that had read it as *)
(* declared before that can (40-machines.sh).  A stop that fails is passed *)
(* over there and the link it would be tried by again goes: that machine   *)
(* runs on, and is exempted.                                               *)
RetiredIsDown == retired = "yes" => ~Active

(* An operation ends as it says: what it returns to the engine is on the   *)
(* device, a rollback it waited for is exact, and a retired machine is     *)
(* down.                                                                   *)
EndsTrue == RollbackRestores /\ LandedHolds /\ RetiredIsDown

(* With nothing under way, a marker beside a tree names the digest that    *)
(* tree was unpacked from, which is what `_tree_holds` reads it for: a     *)
(* push or a rollback that failed at any other command leaves no claim, or *)
(* a true one.  Exempt is a marker whose own write failed after the swap,  *)
(* or whose removal was not reached in a rollback that had swapped, until  *)
(* it is written or removed.                                               *)
MarkerNamesTree ==
  AtRest /\ live # None /\ marker # None /\ purged # "partly" /\ ~mismarked
    => live = marker

(* Once the machine has been applied, a whole tree is on the device: a     *)
(* pull or an unpack that fails never costs it the last one.  Exempt, until*)
(* a push is recorded again, is a device on which a rename failed with the *)
(* live tree moved aside (the next pull clears what is parked), or where a *)
(* superseded tree that a failed clear had torn was rolled back to.        *)
WholeTreeKept ==
  applied # None /\ purged = "no" /\ wreck # "lost" =>
    \E tree \in {live, staging, superseded, rejected} : tree \in Digest

(* A machine never runs on files that are gone: the superseded tree is     *)
(* cleared at the start of the next push, after the hook has restarted     *)
(* the machine off it (unpack_script).                                     *)
RunsOnKeptFiles == runs # "deleted"

(* A push that is about to be recorded has its machine on the image it     *)
(* landed: the hook's converger restarts a machine whose stamp disagrees,  *)
(* and a rollback leaves the stamp disagreeing (machine-rollback).         *)
LandedRuns == push = "landed" /\ RunningImage \in Digest => RunningImage = image

(* While nothing is lost, a deployment that is re-run ends with the pinned *)
(* image landed and recorded, unless the tree of the machine, or what it   *)
(* runs on, keeps being one that does not stay up, torn or broken: no      *)
(* failed step, rollback, converger of a sibling's or refresh may leave    *)
(* the recorded state agreeing with a device that is elsewhere.            *)
(* The step that may is the write of the marker, or its removal after a    *)
(* rollback's swap: where one failed and none was done since, it is exempt.*)
AtPin == IF declared = None
           THEN applied = None /\ entry = "none"
           ELSE applied = declared /\ TreeHolds(declared) /\ live = declared

OnBroken == Active /\ RunningImage \in Broken

Converges ==
  \/ <>[](AtPin /\ ~orig)
  \/ []<>(live \in Broken \cup {Torn} \/ OnBroken) \/ <>[]mismarked

\* The deployment is run again until nothing is left to do, and a script
\* that has begun goes on to its next command.
Fairness ==
  /\ WF_vars(Deploy) /\ WF_vars(Land)
  /\ WF_vars(Converge("push")) /\ WF_vars(Rollback)

FairSpec == Spec /\ Fairness
=============================================================================
