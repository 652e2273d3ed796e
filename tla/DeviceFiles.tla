---------------------------- MODULE DeviceFiles -----------------------------
(***************************************************************************)
(* One `DeviceFile`: a path on the device, the service that reads it, what *)
(* Pulumi's state records of the file, and the deployments that bring the  *)
(* three to what the program declares.                                     *)
(*                                                                         *)
(* Covered: create, diff, update, its re-stamp, read, delete, a            *)
(* replacement the engine decides (created before its original is          *)
(* deleted, at the same path), the hook after each, the identity a write   *)
(* records and a delete compares, a change of a stamp, and a resource that *)
(* recorded no identity.  Sessions are lost and runs killed at any step; a *)
(* person edits the path between any two.                                  *)
(*                                                                         *)
(* Abstracted: mode and owner are part of the content.  A script runs      *)
(* against the path in one step, and one whose session is lost is over     *)
(* before the next operation; what a failed write staged beside the path   *)
(* the next one writes over.  An identity is compared with those still    *)
(* remembered only, so a forgotten one is used again.  The program and the *)
(* stamps change between operations.                                       *)
(***************************************************************************)
EXTENDS Naturals

CONSTANTS
  Content,     \* contents a program declares
  Cut,         \* the beginning of one
  None,        \* no content: not declared, not recorded, not there
  Other,       \* a link, a directory, a pipe
  Down,        \* what the reader acts on after a hook that failed half way
  Ids,         \* what `stat` tells writes apart by
  NoId,        \* no identity recorded
  NoOriginal,  \* no replaced resource waits for its delete
  MaxActs,     \* bound: commits, stamp changes and replacements
  MaxEdits,    \* bound: edits by hand, which taking one back counts among
  MaxFaults    \* bound: commands that fail, sessions lost, runs killed

ASSUME ContentAssumption ==
  /\ Cut \notin Content /\ None \notin Content
  /\ Other \notin Content /\ Down \notin Content
  /\ Cut \notin {None, Other} /\ None # Other
ASSUME IdAssumption ==
  /\ Ids \subseteq Nat /\ NoId \notin Ids /\ NoOriginal \notin Ids
  /\ NoId # NoOriginal
ASSUME BoundAssumption ==
  MaxActs \in Nat /\ MaxEdits \in Nat /\ MaxFaults \in Nat

VARIABLES
  path,      \* on the device: what is there, and which write put it there
  reader,    \* the content the service reading the path last acted on
  rec,       \* Pulumi's state: content, stamp and identity recorded
  orig,      \* Pulumi's state: the identity of a replaced original
  declared,  \* the content the program declares
  stamp,     \* the session and provider version `check` stamps
  run,       \* the provider's operation under way
  author,    \* history: who put there what is at the path
  lapse,     \* history: whether the reader missed something no record shows
  acts, edits, faults

device  == <<path, author>>
state   == <<rec, orig>>
program == <<declared, stamp>>
bounds  == <<acts, edits, faults>>
vars    == <<device, reader, state, program, run, lapse, bounds>>

Holdings == Content \cup {Cut, None, Other}
Empty    == [content |-> None, id |-> NoId]
NoRecord == [content |-> None, stamp |-> 0, id |-> NoId]
Rest     == [pc |-> "idle", op |-> "none", target |-> None, wrote |-> NoId]
Op       == {"none", "create", "update", "replace", "restamp",
             "retire", "original"}
Pc       == {"idle", "write", "hook", "agree", "adopt", "record",
             "remove", "unhook"}

-----------------------------------------------------------------------------
(* Helpers.                                                                *)

IsFile   == path.content \notin {None, Other}
IsOther  == path.content = Other
Recorded == rec # NoRecord

\* What a reader told to look finds.
Seen == IF IsFile THEN path.content ELSE None

\* `_drifted`: the device disagrees with a declared content.
Drifted(content) == path.content # content

\* Mutant: `diff` compares with the state alone.
MutAsks == rec.content # declared \/ rec.stamp # stamp

\* `diff`, which compares what is recorded, then the device.
Asks == \/ rec.content # declared
        \/ rec.stamp # stamp
        \/ Drifted(declared)

\* `stat -c '%i %Z'` of what has just been put at the path.
Remembered == {path.id, rec.id, orig, run.wrote}
Fresh == {i \in Ids \ Remembered : \A j \in Ids \ Remembered : i <= j}

\* The identity a delete is handed.
Claimed == IF run.op = "original" THEN orig ELSE rec.id

\* A hook fails: the reader may have acted, or not, or half way.  Where what
\* stands there is what is recorded, no later `diff` sees that it is owed.
HookGone ==
  /\ reader' \in {reader, Seen, Down}
  /\ lapse' = (lapse \/ rec.content = path.content)

\* The engine drops what a delete is done with.
Drop == IF run.op = "original"
          THEN orig' = NoOriginal /\ UNCHANGED rec
          ELSE rec' = NoRecord /\ UNCHANGED orig

Act   == acts < MaxActs /\ acts' = acts + 1 /\ UNCHANGED <<edits, faults>>
Fault == faults < MaxFaults /\ faults' = faults + 1 /\ UNCHANGED <<acts, edits>>

-----------------------------------------------------------------------------
(* Mutants: what a slip in the code would make of a definition.  No        *)
(* behaviour of the specification takes one; each breaks a property below. *)

\* A delete compares no identity.
MutRewritten == FALSE

\* A hook that fails does not raise, and the write is recorded.
MutHookFails ==
  /\ run.pc = "hook"
  /\ Fault
  /\ reader' \in {reader, Seen, Down}
  /\ run' = [run EXCEPT !.pc = "record"]
  /\ UNCHANGED <<device, state, program, lapse>>

\* A refresh that finds no file records what it could not read.
MutRefresh ==
  /\ run = Rest
  /\ Recorded
  /\ rec' = [rec EXCEPT !.content = IF IsFile THEN path.content ELSE NoId]
  /\ lapse' = (lapse \/ rec'.content # rec.content)
  /\ UNCHANGED <<device, reader, orig, program, run, bounds>>

-----------------------------------------------------------------------------
(* The program, and the plan of a deployment.                              *)

Init ==
  /\ \/ path = Empty /\ rec = NoRecord /\ author = "nobody"
     \/ \E c \in Content, i \in Ids, known \in BOOLEAN :  \* from before
          /\ path = [content |-> c, id |-> i]
          /\ rec = [content |-> c, stamp |-> 0, id |-> IF known THEN i ELSE NoId]
          /\ author = "run"
  /\ reader = path.content
  /\ orig = NoOriginal
  /\ declared = rec.content /\ stamp = 0
  /\ run = Rest /\ lapse = FALSE
  /\ acts = 0 /\ edits = 0 /\ faults = 0

\* A commit changes the content, adds the file or retires it.
Commit(c) ==
  /\ run = Rest
  /\ c # declared
  /\ Act /\ declared' = c
  /\ UNCHANGED <<device, reader, state, stamp, run, lapse>>

\* The credential is rotated, or the provider's version is bumped.
Restamp ==
  /\ run = Rest
  /\ Act /\ stamp' = stamp + 1
  /\ UNCHANGED <<device, reader, state, declared, run, lapse>>

Begin(op, pc) ==
  /\ run' = [pc |-> pc, op |-> op, target |-> declared, wrote |-> NoId]
  /\ UNCHANGED <<device, reader, state, program, lapse>>

BeginCreate ==
  /\ run = Rest
  /\ declared # None /\ ~Recorded
  /\ Begin("create", "write") /\ UNCHANGED bounds

\* `update` writes for a declared input that changed, and otherwise asks the
\* device again.
BeginUpdate ==
  /\ run = Rest
  /\ declared # None /\ Recorded /\ Asks
  /\ Begin("update", IF rec.content # declared THEN "write" ELSE "agree")
  /\ UNCHANGED bounds

\* A `--replace`, a taint, or a replacement another resource carries over.
BeginReplace ==
  /\ run = Rest
  /\ declared # None /\ Recorded /\ orig = NoOriginal
  /\ Act /\ Begin("replace", "write")

BeginRetire ==
  /\ run = Rest
  /\ declared = None /\ Recorded
  /\ Begin("retire", "remove") /\ UNCHANGED bounds

\* The engine deletes last, and again on every later run.
BeginOriginal ==
  /\ run = Rest
  /\ orig # NoOriginal
  /\ Begin("original", "remove") /\ UNCHANGED bounds

\* `read`: what the device holds is recorded, and what it lost is dropped;
\* the identity is carried.  A replaced original is read as well.
Refresh ==
  /\ run = Rest
  /\ Recorded
  /\ rec' = IF IsFile THEN [rec EXCEPT !.content = path.content] ELSE NoRecord
  /\ orig' = IF IsFile THEN orig ELSE NoOriginal
  /\ lapse' = (lapse \/ rec'.content # rec.content)
  /\ UNCHANGED <<device, reader, program, run, bounds>>

-----------------------------------------------------------------------------
(* `_apply`: the staged write, then the hook.                              *)

At(pc) == run.pc = pc

\* The script refuses a link and a wrong kind, stages, renames, and answers
\* with the identity of what it renamed.
Write ==
  /\ At("write")
  /\ ~IsOther
  /\ \E i \in Fresh :
       /\ path' = [content |-> run.target, id |-> i]
       /\ run' = [run EXCEPT !.pc = "hook", !.wrote = i]
  /\ author' = "run"
  /\ UNCHANGED <<reader, state, program, lapse, bounds>>

WriteRefuses ==
  /\ At("write")
  /\ IsOther
  /\ run' = Rest
  /\ UNCHANGED <<device, reader, state, program, lapse, bounds>>

\* A disk that is full, a `chown` to nobody: the path is as it was.
WriteFails ==
  /\ At("write")
  /\ ~IsOther
  /\ Fault /\ run' = Rest
  /\ UNCHANGED <<device, reader, state, program, lapse>>

HookRuns ==
  /\ At("hook")
  /\ reader' = Seen /\ lapse' = FALSE
  /\ run' = [run EXCEPT !.pc = "record"]
  /\ UNCHANGED <<device, state, program, bounds>>

\* `HookFailed`: nothing is recorded.
HookFails ==
  /\ At("hook")
  /\ Fault /\ HookGone
  /\ run' = Rest
  /\ UNCHANGED <<device, state, program>>

-----------------------------------------------------------------------------
(* `_restamp_only` and `_restamped`.                                       *)

Agrees ==
  /\ At("agree")
  /\ \/ Drifted(run.target) /\ run' = [run EXCEPT !.pc = "write"]
     \/ /\ ~Drifted(run.target) /\ rec.id = NoId
        /\ run' = [run EXCEPT !.pc = "adopt", !.op = "restamp"]
     \/ /\ ~Drifted(run.target) /\ rec.id # NoId
        /\ run' = [run EXCEPT !.pc = "record", !.op = "restamp", !.wrote = rec.id]
  /\ UNCHANGED <<device, reader, state, program, lapse, bounds>>

\* Another session: the identity of what is at the path, if anything is.
Adopt ==
  /\ At("adopt")
  /\ run' = [run EXCEPT !.pc = "record", !.wrote = path.id]
  /\ UNCHANGED <<device, reader, state, program, lapse, bounds>>

\* The outputs replace what was recorded.  A replaced resource stays, to be
\* deleted.
Record ==
  /\ At("record")
  /\ rec' = [content |-> run.target, stamp |-> stamp, id |-> run.wrote]
  /\ orig' = IF run.op = "replace" THEN rec.id ELSE orig
  /\ author' = IF run.op = "restamp" /\ IsFile /\ path.id = run.wrote
                  THEN "run" ELSE author
  /\ run' = Rest
  /\ UNCHANGED <<path, reader, program, lapse, bounds>>

-----------------------------------------------------------------------------
(* `_delete`: `remove`, then the hook.                                     *)

\* Another write than the one claimed stands there.
Rewritten == /\ IsFile
             /\ Claimed # NoId /\ path.id # Claimed

Remove ==
  /\ At("remove")
  /\ ~IsOther /\ ~Rewritten
  /\ path' = Empty /\ author' = "nobody"
  /\ run' = [run EXCEPT !.pc = "unhook"]
  /\ UNCHANGED <<reader, state, program, lapse, bounds>>

\* A warning, no hook, and the resource is dropped.
Leave ==
  /\ At("remove")
  /\ Rewritten
  /\ Drop /\ run' = Rest
  /\ UNCHANGED <<device, reader, program, lapse, bounds>>

\* A link, a wrong kind or a device that cannot: the resource stays.
RemoveFails ==
  /\ At("remove")
  /\ IF IsOther THEN UNCHANGED bounds ELSE Fault
  /\ run' = Rest
  /\ UNCHANGED <<device, reader, state, program, lapse>>

Unhook ==
  /\ At("unhook")
  /\ reader' = Seen
  /\ Drop /\ run' = Rest
  /\ UNCHANGED <<device, program, lapse, bounds>>

UnhookFails ==
  /\ At("unhook")
  /\ Fault /\ HookGone
  /\ run' = Rest
  /\ UNCHANGED <<device, state, program>>

-----------------------------------------------------------------------------
(* Lost sessions, killed runs, and the rest of the world.                  *)

\* What becomes of a write nobody waits for.  The device's end of the session
\* closes the input, so `cat` ends as if it had read everything, and the
\* script goes on to the rename.
WriteLost ==
  /\ At("write")
  /\ \/ UNCHANGED <<path, author, lapse>>
     \/ /\ ~IsOther
        /\ \E c \in {run.target, Cut}, i \in Fresh :
             path' = [content |-> c, id |-> i]
        /\ author' = "run"
        /\ lapse' = (lapse \/ rec.content = path'.content)
  /\ UNCHANGED reader

HookLost ==
  /\ At("hook") \/ At("unhook")
  /\ HookGone
  /\ UNCHANGED device

RemoveLost ==
  /\ At("remove")
  /\ \/ UNCHANGED <<path, author>>
     \/ ~IsOther /\ ~Rewritten /\ path' = Empty /\ author' = "nobody"
  /\ UNCHANGED <<reader, lapse>>

\* A session lost, or given up on after its timeout, or the run killed.
Interrupted ==
  /\ run # Rest
  /\ Fault
  /\ \/ WriteLost
     \/ HookLost
     \/ RemoveLost
     \/ run.pc \in {"agree", "adopt", "record"} /\ UNCHANGED <<device, reader, lapse>>
  /\ run' = Rest
  /\ UNCHANGED <<state, program>>

\* Somebody edits the path, deletes it, or puts something else there.
Edit(c) ==
  /\ edits < MaxEdits /\ edits' = edits + 1
  /\ c # path.content \/ IsFile
  /\ IF c = None
       THEN path' = Empty /\ author' = "nobody"
       ELSE /\ \E i \in Fresh : path' = [content |-> c, id |-> i]
            /\ author' = "hand"
  /\ lapse' = TRUE
  /\ UNCHANGED <<reader, state, program, run, acts, faults>>

\* What a refusal asks for: the link or the directory goes.
Remedy ==
  /\ IsOther
  /\ path' = Empty /\ author' = "nobody"
  /\ edits' = edits + 1
  /\ UNCHANGED <<reader, state, program, run, lapse, acts, faults>>

\* The service restarts, or the device boots.
Restart ==
  /\ reader # Seen \/ lapse
  /\ reader' = Seen /\ lapse' = FALSE
  /\ UNCHANGED <<device, state, program, run, bounds>>

-----------------------------------------------------------------------------
(* The specification.                                                      *)

Deploy == BeginCreate \/ BeginUpdate \/ BeginRetire \/ BeginOriginal

Operate ==
  \/ Write \/ WriteRefuses \/ HookRuns
  \/ Agrees \/ Adopt \/ Record
  \/ Remove \/ Leave \/ Unhook
  \/ RemoveFails

World ==
  \/ \E c \in Content \cup {None} : Commit(c)
  \/ Restamp \/ BeginReplace \/ Refresh
  \/ WriteFails \/ HookFails \/ UnhookFails \/ Interrupted
  \/ \E c \in Content \cup {None, Other} : Edit(c)
  \/ Restart

Next == Deploy \/ Operate \/ World \/ Remedy

Spec == Init /\ [][Next]_vars

\* An operation goes on by itself, deployments are run while there is anything
\* to do, and an operator told of a link or a directory takes it away.
FairSpec == Spec /\ WF_vars(Deploy) /\ WF_vars(Operate) /\ WF_vars(Remedy)

-----------------------------------------------------------------------------
(* Properties.                                                             *)

\* Every variable stays in its set.
TypeOK ==
  /\ path \in [content : Holdings, id : Ids \cup {NoId}]
  /\ reader \in Content \cup {Cut, None, Down}
  /\ rec \in [content : Content \cup {Cut, None}, stamp : Nat, id : Ids \cup {NoId}]
  /\ orig \in Ids \cup {NoId, NoOriginal}
  /\ declared \in Content \cup {None} /\ stamp \in Nat
  /\ run \in [pc : Pc, op : Op, target : Content \cup {None},
              wrote : Ids \cup {NoId}]
  /\ author \in {"nobody", "run", "hand"} /\ lapse \in BOOLEAN
  /\ acts \in Nat /\ edits \in Nat /\ faults \in Nat

\* The file stands as `DeviceSlot` promises: nothing but the deployment's own
\* write is ever taken away, a link or a directory is left alone, and a lost
\* session leaves a whole content or a cut one (`DeviceFileProvider`,
\* `SshTransport.write`, `SshTransport.remove`).
Slot == INSTANCE DeviceSlot WITH
          Absent <- None,
          slot   <- path.content,
          by     <- author,
          blank  <- (Recorded /\ rec.id = NoId) \/ orig = NoId,
          touches <- edits

SlotImplemented == Slot!Spec

\* Where `diff` has nothing to ask for, the service acts on what is declared,
\* whatever commits, reverts, failed hooks, replacements and lost sessions led
\* there: the hook of a write is never lost silently (`_apply`, "a failed hook
\* raises, so the resource is not recorded").  Exempt (`lapse`) are an edit by
\* hand, a refresh that recorded one, and a hook that failed over a content
\* recorded before.
QuietIsTold ==
  run = Rest /\ declared # None /\ ~Asks /\ ~lapse => reader = declared

\* Once commits, edits and faults are over, deployments come to rest with the
\* declared content in place and told, or with the file retired, and no
\* original waits for its delete.
Settled ==
  /\ run = Rest /\ orig = NoOriginal
  /\ IF declared = None THEN ~Recorded
                        ELSE Recorded /\ ~Asks /\ (lapse \/ reader = declared)
Converges == <>[]Settled

=============================================================================
