-------------------------- MODULE CommittedCheckpoint --------------------------
(***************************************************************************)
(* What stands between a run of a stack whose state is committed and the    *)
(* push that makes its checkpoint public: the record a command that can     *)
(* write puts down first, the checks it ends with, and the `up` that runs   *)
(* with nothing planned while a record stands (operator_stack/driver.py).   *)
(*                                                                         *)
(* Abstracted: the checkpoint is what deployment it holds and which of the  *)
(* secret properties it holds in the clear; the file is the state, so an    *)
(* export reads it.  A working copy behind main, and a conflicted file, are *)
(* refused before anything is written, and are no step here.  `checkpoint`  *)
(* is the file in the checkout, `pushed` is main's.                         *)
(***************************************************************************)
EXTENDS Naturals, FiniteSets

CONSTANTS
  Secret,     \* the properties that hold a secret value
  Known,      \* those the configuration holds too, or the engine declares:
              \* found in the clear whatever the state says of them
  MaxEdits,   \* bound: changes of the program, releases that stop marking, strays
  MaxCuts     \* bound: runs ended early

ASSUME CommittedCheckpointAssumption ==
  Known \subseteq Secret /\ MaxEdits \in Nat /\ MaxCuts \in Nat

VARIABLES
  want,        \* the deployment the program declares
  marked,      \* the properties a write records as ciphertext
  checkpoint,  \* the checkpoint in the checkout
  stray,       \* another file for the stack beside it
  record,      \* <stack>.failed-check: none, unchecked, or failed
  found,       \* the properties a failed check named
  pushed,      \* the checkpoint as pushed
  \* The command running.
  pc,          \* idle, export, write, check
  command,     \* "up", or "other" for one passed through
  started,     \* the export before the write
  \* The history and the bounds.
  lapsed,      \* the properties no marking told of when the last run began
  edits, cuts

process == <<pc, command, started>>
checkpointVars ==
  <<want, marked, checkpoint, stray, record, found, pushed, process, lapsed, edits, cuts>>

Checkpoint == [deployment : 0..MaxEdits, clear : SUBSET Secret]

CheckpointTypeOK ==
  /\ want \in 0..MaxEdits /\ marked \subseteq Secret
  /\ checkpoint \in Checkpoint /\ pushed \in Checkpoint /\ started \in Checkpoint
  /\ stray \in BOOLEAN /\ record \in {"none", "unchecked", "failed"}
  /\ found \subseteq Secret /\ (found # {} => record = "failed")
  /\ pc \in {"idle", "export", "write", "check"} /\ command \in {"up", "other"}
  /\ (pc # "idle" => record # "none")
  /\ lapsed \subseteq Secret \ Known /\ edits \in 0..MaxEdits /\ cuts \in 0..MaxCuts

-----------------------------------------------------------------------------
(* Mutants: what a plausible mistake in a definition below would make it.  *)

\* The record goes down after the command has run.
MutBegin(c) ==
  /\ pc = "idle" /\ pc' = "export" /\ command' = c
  /\ UNCHANGED <<want, marked, checkpoint, stray, record, found, pushed, started, lapsed, edits, cuts>>

\* A property that became secret is no difference.
MutSameDeployment(before, after) == before.deployment = after.deployment

\* What a run found outlives it, whatever the next one finds.
MutChecked(findings) ==
  /\ record' = IF findings = {} /\ ~stray THEN "none" ELSE "failed"
  /\ found' = found \cup findings

-----------------------------------------------------------------------------
(* A command that can write: `Run._write`.                                 *)

Begin(c) ==
  /\ pc = "idle" /\ pc' = "export" /\ command' = c
  /\ record' = IF record = "none" THEN "unchecked" ELSE record
  /\ UNCHANGED <<want, marked, checkpoint, stray, found, pushed, started, lapsed, edits, cuts>>

\* `up`: with nothing planned it runs only where a record stands.
Up == (want # checkpoint.deployment \/ record # "none") /\ Begin("up")

Passthrough == Begin("other")

\* The deployment is read, to search with what it knows for secret.
Export ==
  /\ pc = "export" /\ pc' = "write"
  /\ started' = checkpoint
  /\ lapsed' = checkpoint.clear \ Known
  /\ UNCHANGED <<want, marked, checkpoint, stray, record, found, pushed, command, edits, cuts>>

\* pulumi writes what it got to, or nothing: every property under its marking.
Write ==
  /\ pc = "write" /\ pc' = "check"
  /\ \/ checkpoint' = checkpoint
     \/ \E d \in {checkpoint.deployment} \cup (IF command = "up" THEN {want} ELSE {}) :
          checkpoint' = [deployment |-> d, clear |-> Secret \ marked]
  /\ UNCHANGED <<want, marked, stray, record, found, pushed, command, started, lapsed, edits, cuts>>

\* What the search knows for secret: the configuration's, what the engine
\* declares, and what the state marked before the command or after it.
HeldSecret(p) == p \in Known \/ p \notin started.clear \/ p \notin checkpoint.clear

SameDeployment(before, after) == before = after

\* A check that finds nothing takes the record off; one that does writes it.
Checked(findings) ==
  /\ record' = IF findings = {} /\ ~stray THEN "none" ELSE "failed"
  /\ found' = findings

Check ==
  /\ pc = "check" /\ pc' = "idle"
  /\ checkpoint' = IF SameDeployment(started, checkpoint) THEN started ELSE checkpoint
  /\ Checked({p \in checkpoint'.clear : HeldSecret(p)})
  /\ UNCHANGED <<want, marked, stray, pushed, command, started, lapsed, edits, cuts>>

\* A ^C, a query that fails, a machine gone: the record stands.
Cut ==
  /\ pc # "idle" /\ pc' = "idle" /\ cuts < MaxCuts /\ cuts' = cuts + 1
  /\ UNCHANGED <<want, marked, checkpoint, stray, record, found, pushed, command, started, lapsed, edits>>

-----------------------------------------------------------------------------
(* The program, the provider, and the operator.                            *)

Edit == edits < MaxEdits /\ edits' = edits + 1

Change ==
  /\ Edit /\ want' = want + 1
  /\ UNCHANGED <<marked, checkpoint, stray, record, found, pushed, process, lapsed, cuts>>

\* A release that stops marking a field, a resource that never did.
Unmark(p) ==
  /\ Edit /\ p \in marked /\ marked' = marked \ {p}
  /\ UNCHANGED <<want, checkpoint, stray, record, found, pushed, process, lapsed, cuts>>

\* A compressed copy, a retained one, another layout.
Straying ==
  /\ Edit /\ ~stray /\ stray' = TRUE
  /\ UNCHANGED <<want, marked, checkpoint, record, found, pushed, process, lapsed, cuts>>

\* What a failed check names is marked in the program, and strays are removed.
Mark(p) ==
  /\ pc = "idle" /\ p \in found \ marked /\ marked' = marked \cup {p}
  /\ UNCHANGED <<want, checkpoint, stray, record, found, pushed, process, lapsed, edits, cuts>>

Remove ==
  /\ pc = "idle" /\ record = "failed" /\ stray /\ stray' = FALSE
  /\ UNCHANGED <<want, marked, checkpoint, record, found, pushed, process, lapsed, edits, cuts>>

\* The checkpoint is landed once no record stands against it.
Push ==
  /\ pc = "idle" /\ record = "none" /\ pushed # checkpoint /\ pushed' = checkpoint
  /\ UNCHANGED <<want, marked, checkpoint, stray, record, found, process, lapsed, edits, cuts>>

-----------------------------------------------------------------------------
(* The specification.                                                      *)

CheckpointInit ==
  /\ want = 0 /\ marked = Secret /\ checkpoint = [deployment |-> 0, clear |-> {}] /\ pushed = checkpoint
  /\ stray = FALSE /\ record = "none" /\ found = {}
  /\ pc = "idle" /\ command = "up" /\ started = checkpoint
  /\ lapsed = {} /\ edits = 0 /\ cuts = 0

CheckpointNext ==
  \/ Up \/ Passthrough \/ Export \/ Write \/ Check \/ Cut
  \/ Change \/ Straying \/ Remove \/ Push
  \/ \E p \in Secret : Unmark(p) \/ Mark(p)

CheckpointSpec == CheckpointInit /\ [][CheckpointNext]_checkpointVars

\* A command runs to its end, and does write at times; the operator answers a
\* record as the driver says, and lands what passes.
CheckpointFairness ==
  /\ WF_checkpointVars(Export) /\ WF_checkpointVars(Check)
  /\ WF_checkpointVars(Write) /\ SF_checkpointVars(Write /\ checkpoint' # checkpoint)
  /\ SF_checkpointVars(Up) /\ SF_checkpointVars(Remove) /\ SF_checkpointVars(Push)
  /\ \A p \in Secret : SF_checkpointVars(Mark(p))

FairCheckpointSpec == CheckpointSpec /\ CheckpointFairness

-----------------------------------------------------------------------------
(* Properties.                                                             *)

\* Nothing is landed in the clear, wherever runs were stopped or failed, but a
\* value whose only marking an earlier run dropped: where a run began over that
\* file, nothing told it the value was secret.
NothingPublished == [][pushed' # pushed => pushed'.clear \subseteq lapsed]_checkpointVars

\* A record is always answered: runs stopped or failed, strays and dropped
\* markings are followed by a checkpoint that passes and is landed.
Lands ==
  []<>(/\ record = "none" /\ pushed = checkpoint
       /\ checkpoint.deployment = want /\ checkpoint.clear \subseteq lapsed)
==============================================================================
