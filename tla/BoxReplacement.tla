--------------------------- MODULE BoxReplacement ---------------------------
(***************************************************************************)
(* The state-backend box and the runs that replace it: an operator's       *)
(* workstations, each with its copy of the committed checkpoint, driving   *)
(* `operator-stack state-backend`; the engine's steps over the instance,   *)
(* the reserved address and the readiness resource, with the hooks around  *)
(* them; `state-backend restore`; the box's nightly dump; and the clients  *)
(* that write stack state into the box meanwhile.                          *)
(*                                                                         *)
(* Abstracted: the state a box holds is the set of writes it acknowledged, *)
(* and it serves a stack when that set is not empty.  The instance's       *)
(* inputs, the server certificate among them, are one generation number.   *)
(* The address and the readiness resource are converged in the engine's    *)
(* dependency order; the network, the image and the dump bucket are held   *)
(* fixed.  The checks of the checkpoint file (cleartext, strays) and the   *)
(* refusal of imported resources are not in this module.                   *)
(***************************************************************************)
EXTENDS Naturals, FiniteSets

CONSTANTS
  Workstations,  \* checkouts an operator runs from
  Boxes,         \* identities of boxes; one is used again once forgotten
  Nil,           \* no box, an unassigned address
  Serial,        \* no run beside another, but a restore while one waits for its box
  MaxWrites,     \* bound: writes the clients make
  MaxChanges,    \* bound: commits that move the box's inputs
  MaxFaults      \* bound: killed runs, failed steps, silences, losses, expiries

ASSUME BoxAssumption ==
  /\ Boxes \subseteq Nat /\ Boxes # {} /\ Nil \notin Boxes
  /\ Serial \in BOOLEAN
  /\ MaxWrites \in Nat \ {0} /\ MaxChanges \in Nat /\ MaxFaults \in Nat

VARIABLES
  \* In the cloud.
  alive,     \* the boxes that exist
  booted,    \* those that finished their first boot
  ign,       \* the generation of inputs each was launched with
  address,   \* the box the reserved address points at
  \* The stacks' state, and the copies of it.
  data,      \* the writes each box holds
  clock,     \* how many writes the clients were told are stored
  dumps,     \* the encrypted dumps, nightly ones and the runs' own
  \* In the repository.
  want,      \* the generation of inputs the program declares
  expired,   \* the generations whose certificate has expired
  main,      \* the checkpoint on the forge's main
  chk,       \* each working copy's checkpoint
  dirty,     \* whether it holds a run's result that has not landed
  behind,    \* whether main moved past what it is based on
  \* The runs.
  pc, verb,
  code,      \* what `pulumi up`, or the preview, leaves the run to answer
  plain,     \* the plaintext of the dump this process took ({}: none)
  shown,     \* the box its preview found, for the property alone
  \* History, and the bound.
  answer,    \* what the run that ended in the last step answered
  strayed,   \* whether a run began before another working copy's result landed
  unknown,   \* boxes no checkpoint ever recorded or any longer records
  forgiven,  \* writes the design gives up: see NothingLost
  faults

cloud   == <<alive, booted, ign, address>>
stored  == <<data, clock, dumps>>
program == <<want, expired>>
repo    == <<main, chk, dirty, behind>>
process == <<pc, verb, code, plain, shown>>
history == <<strayed, unknown, forgiven>>
vars    == <<cloud, stored, program, repo, process, answer, history, faults>>

Writes     == 1..MaxWrites
Generation == 1..(1 + MaxChanges)
BoxOrNil   == Boxes \cup {Nil}
\* The instance, and whether the readiness resource is of that instance.
Checkpoint == [box : BoxOrNil, ready : BOOLEAN]
NoBox == [box |-> Nil, ready |-> FALSE]
Verb       == {"plan", "up", "force", "replace", "pulumi", "restore"}
Pc         == {"idle", "preview", "confirm", "up", "dump", "terminate",
               "create", "point", "ready", "restore", "load", "held",
               "settle", "feed", "blind"}

\* What a run answers: the driver's statuses, and pulumi's own.
Applied  == 0
Planned  == 1
Refused  == 2
Owed     == 3
Silent   == 4
UpFailed == 5
NoAnswer == 6

TypeOK ==
  /\ booted \subseteq alive /\ alive \subseteq Boxes /\ unknown \subseteq alive
  /\ ign \in [Boxes -> Generation \cup {0}]
  /\ address \in BoxOrNil
  /\ data \in [Boxes -> SUBSET Writes]
  /\ clock \in Writes
  /\ dumps \subseteq SUBSET Writes
  /\ want \in Generation /\ expired \subseteq Generation
  /\ main \in Checkpoint /\ chk \in [Workstations -> Checkpoint]
  /\ dirty \in [Workstations -> BOOLEAN] /\ behind \in [Workstations -> BOOLEAN]
  /\ pc \in [Workstations -> Pc] /\ verb \in [Workstations -> Verb]
  /\ code \in [Workstations -> {Applied, Planned, UpFailed}]
  /\ answer \in Applied..NoAnswer
  /\ plain \in [Workstations -> SUBSET Writes]
  /\ shown \in [Workstations -> BoxOrNil]
  /\ strayed \in BOOLEAN /\ forgiven \subseteq Writes
  /\ faults \in 0..MaxFaults

-----------------------------------------------------------------------------
(* Mutants: what a plausible mistake in a definition below would make it.  *)

\* A run asks for no permission where the engine acts.
MutGranted(w) == TRUE
\* A launch leaves the previous box's first boot on record.
MutGone(b) ==
  /\ alive' = alive \ {b}
  /\ booted' = booted
  /\ address' = IF address = b THEN Nil ELSE address
  /\ ign' = [ign EXCEPT ![b] = 0]
  /\ data' = [data EXCEPT ![b] = {}]
  /\ unknown' = unknown \ {b}
\* The driver goes on from a working copy behind main.
MutCurrent(w) == TRUE
\* A run plans on what the checkpoint says, not on what a refresh finds.
MutRefreshed(w) == chk[w].box

-----------------------------------------------------------------------------
(* What the world answers, and what a run reads off it.                    *)

\* The box behind the address accepts a verified connection.
Answers == address \in booted /\ ign[address] \notin expired
Backend == IF Answers THEN data[address] ELSE {}
Serving == Backend # {}
Empty   == Answers /\ Backend = {}

Granted(w) == verb[w] \in {"force", "replace"}
Driven(w)  == verb[w] # "pulumi"

\* The instance a refresh leaves in this checkpoint.
Refreshed(w) == IF chk[w].box \in alive THEN chk[w].box ELSE Nil

Creates(w)  == Refreshed(w) = Nil
Replaces(w) == ~Creates(w) /\ (ign[Refreshed(w)] # want \/ verb[w] = "replace")
BoxSteps(w) == Creates(w) \/ Replaces(w)
AnyPlanned(w) ==
  \/ BoxSteps(w)
  \/ address # Refreshed(w)
  \/ ~chk[w].ready

CreatesBesideHeldAddress(w) == Creates(w) /\ address # Nil

Forgotten(b) ==
  /\ b \notin alive
  /\ \A c \in {main} \cup {chk[w] : w \in Workstations} : b # c.box
Fresh == CHOOSE b \in Boxes : Forgotten(b) /\ \A o \in Boxes : Forgotten(o) => b <= o

Fault == faults < MaxFaults /\ faults' = faults + 1

-----------------------------------------------------------------------------
(* How a run moves on and ends.                                            *)

Goto(w, p) == pc' = [pc EXCEPT ![w] = p] /\ answer' = NoAnswer
Aside == UNCHANGED process /\ answer' = NoAnswer

\* The process is over: the plaintext's directory goes with it.
End(w, c) ==
  /\ pc' = [pc EXCEPT ![w] = "idle"] /\ answer' = c
  /\ verb' = [verb EXCEPT ![w] = "plan"]
  /\ code' = [code EXCEPT ![w] = Applied]
  /\ plain' = [plain EXCEPT ![w] = {}]
  /\ shown' = [shown EXCEPT ![w] = Nil]

\* `pulumi up` is over; the driver, where it started it, asks the backend.
Finish(w, bad) ==
  \/ /\ Driven(w)
     /\ Goto(w, "settle")
     /\ code' = [code EXCEPT ![w] = IF bad THEN UpFailed ELSE Applied]
     /\ UNCHANGED <<verb, plain, shown>>
  \/ /\ ~Driven(w)
     /\ End(w, IF bad THEN UpFailed ELSE Applied)

Write(w, c) ==
  /\ chk' = [chk EXCEPT ![w] = c]
  /\ dirty' = [dirty EXCEPT ![w] = @ \/ c # chk[w]]
  /\ UNCHANGED <<main, behind>>

\* A box goes, and what it held with it.
Gone(b) ==
  /\ alive' = alive \ {b}
  /\ booted' = booted \ {b}
  /\ address' = IF address = b THEN Nil ELSE address
  /\ ign' = [ign EXCEPT ![b] = 0]
  /\ data' = [data EXCEPT ![b] = {}]
  /\ unknown' = unknown \ {b}

\* A box is launched with the inputs the program declares now.
Launch(b) ==
  /\ b \in Boxes /\ Forgotten(b)
  /\ alive' = alive \cup {b}
  /\ ign' = [ign EXCEPT ![b] = want]
  /\ UNCHANGED <<booted, address>>

-----------------------------------------------------------------------------
(* The driver, up to the `pulumi up` it starts.                            *)

Others(w) == Workstations \ {w}
MayStart(w) ==
  /\ pc[w] = "idle"
  /\ Serial => \A v \in Others(w) : pc[v] = "idle"

\* `require_current`: behind main, the run is refused before anything else.
Current(w) == ~behind[w]

Start(w, v) ==
  /\ MayStart(w) /\ Current(w)
  /\ verb' = [verb EXCEPT ![w] = v]
  /\ Goto(w, IF v = "pulumi" THEN "up" ELSE "preview")
  /\ strayed' = (strayed \/ \E u \in Others(w) : dirty[u])
  /\ UNCHANGED <<cloud, stored, program, repo, code, plain, shown, unknown, forgiven, faults>>

\* `plan`: what is planned, and then what the backend answers.
PlanOnly(w) ==
  /\ pc[w] = "preview" /\ verb[w] = "plan"
  /\ Goto(w, "settle")
  /\ code' = [code EXCEPT ![w] = IF AnyPlanned(w) THEN Planned ELSE Applied]
  /\ UNCHANGED <<cloud, stored, program, repo, verb, plain, shown, history, faults>>

Previewed(w) == pc[w] = "preview" /\ verb[w] # "plan"

RefuseBeside(w) ==
  /\ Previewed(w) /\ CreatesBesideHeldAddress(w)
  /\ End(w, Refused)
  /\ UNCHANGED <<cloud, stored, program, repo, history, faults>>

HoldForForce(w) ==
  /\ Previewed(w) /\ ~CreatesBesideHeldAddress(w)
  /\ BoxSteps(w) /\ ~Granted(w)
  /\ End(w, Planned)
  /\ UNCHANGED <<cloud, stored, program, repo, history, faults>>

NothingToApply(w) ==
  /\ Previewed(w) /\ ~AnyPlanned(w)
  /\ Goto(w, "settle")
  /\ UNCHANGED <<cloud, stored, program, repo, verb, code, plain, shown, history, faults>>

Ask(w) ==
  /\ Previewed(w) /\ ~CreatesBesideHeldAddress(w)
  /\ AnyPlanned(w) /\ (BoxSteps(w) => Granted(w))
  /\ Goto(w, "confirm")
  /\ shown' = [shown EXCEPT ![w] = Refreshed(w)]
  /\ UNCHANGED <<cloud, stored, program, repo, verb, code, plain, history, faults>>

Decline(w) ==
  /\ pc[w] = "confirm"
  /\ End(w, Planned)
  /\ UNCHANGED <<cloud, stored, program, repo, history, faults>>

Confirm(w) ==
  /\ pc[w] = "confirm"
  /\ Goto(w, "up")
  /\ UNCHANGED <<cloud, stored, program, repo, verb, code, plain, shown, history, faults>>

\* Mutant: a backend that answers is one that serves.
MutSettle(w) ==
  /\ pc[w] = "settle"
  /\ End(w, IF Answers \/ code[w] = UpFailed THEN code[w] ELSE Silent)
  /\ UNCHANGED <<cloud, stored, program, repo, history, faults>>

\* `_settle`: EMPTY is 3 whatever the run did; SILENT stands in for 0 and 1.
Settle(w) ==
  /\ pc[w] = "settle"
  /\ \/ Serving /\ End(w, code[w]) /\ UNCHANGED faults
     \/ Empty /\ End(w, Owed) /\ UNCHANGED faults
     \/ /\ \/ ~Answers /\ UNCHANGED faults
           \/ Answers /\ Fault
        /\ End(w, IF code[w] \in {Applied, Planned} THEN Silent ELSE code[w])
  /\ UNCHANGED <<cloud, stored, program, repo, history>>

-----------------------------------------------------------------------------
(* The engine's steps, old box first, and the hooks it runs around them.   *)

StepFails(w) ==
  /\ Finish(w, TRUE)
  /\ UNCHANGED <<cloud, stored, program, repo, history>>

\* `up --refresh`: the plan is made again, from the world as it is now.  Of a
\* box to replace, the readiness resource goes first, before its delete hook.
Refresh(w) ==
  /\ pc[w] = "up"
  /\ Goto(w, IF Creates(w) THEN "create" ELSE IF Replaces(w) THEN "dump" ELSE "point")
  /\ Write(w, IF Creates(w) THEN NoBox
              ELSE [chk[w] EXCEPT !.ready = @ /\ ~Replaces(w)])
  /\ UNCHANGED <<cloud, stored, program, verb, code, plain, shown, history, faults>>

\* An archive with no stack checkpoint in it is not a dump.
Verified(d) == d # {}

\* Mutant: the hook keeps the plaintext it restores from, and no dump.
MutDumpHook(w) ==
  /\ pc[w] = "dump" /\ Granted(w) /\ Answers
  /\ Verified(Backend)
  /\ plain' = [plain EXCEPT ![w] = Backend]
  /\ Goto(w, "terminate")
  /\ UNCHANGED <<cloud, stored, program, repo, verb, code, shown, history, faults>>

\* `dump`, before the delete: through the address, as the permission allows.
DumpHook(w) ==
  /\ pc[w] = "dump" /\ Granted(w) /\ Answers
  /\ Verified(Backend)
  /\ plain' = [plain EXCEPT ![w] = Backend]
  /\ dumps' = dumps \cup {Backend}
  /\ Goto(w, "terminate")
  /\ UNCHANGED <<cloud, data, clock, program, repo, verb, code, shown, history, faults>>

DumpHookRefuses(w) ==
  /\ pc[w] = "dump"
  /\ ~Granted(w) \/ ~Answers \/ ~Verified(Backend)
  /\ StepFails(w) /\ UNCHANGED faults

Terminate(w) ==
  /\ pc[w] = "terminate"
  /\ LET b == chk[w].box
     IN  IF b \in alive THEN Gone(b)
         ELSE UNCHANGED <<alive, booted, address, ign, data, unknown>>
  /\ Write(w, NoBox)
  /\ Goto(w, "create")
  /\ UNCHANGED <<clock, dumps, program, verb, code, plain, shown, strayed, forgiven, faults>>

\* `permit`, then the create.
Create(w) ==
  /\ pc[w] = "create" /\ Granted(w)
  /\ Launch(Fresh)
  /\ Write(w, [box |-> Fresh, ready |-> FALSE])
  /\ Goto(w, "point")
  /\ UNCHANGED <<stored, program, verb, code, plain, shown, history, faults>>

PermitRefuses(w) ==
  /\ pc[w] = "create" /\ ~Granted(w)
  /\ StepFails(w) /\ UNCHANGED faults

Point(w) ==
  /\ pc[w] = "point" /\ chk[w].box \in alive
  /\ address' = chk[w].box
  /\ Goto(w, "ready")
  /\ UNCHANGED <<alive, booted, ign, stored, program, repo, verb, code, plain, shown,
                 history, faults>>

\* The readiness resource: as it was, or created once the address answers.
AlreadyReady(w) ==
  /\ pc[w] = "ready" /\ chk[w].ready
  /\ Finish(w, FALSE)
  /\ UNCHANGED <<cloud, stored, program, repo, history, faults>>

Ready(w) ==
  /\ pc[w] = "ready" /\ ~chk[w].ready /\ Answers
  /\ Write(w, [chk[w] EXCEPT !.ready = TRUE])
  /\ Goto(w, IF plain[w] # {} THEN "restore" ELSE "held")
  /\ UNCHANGED <<cloud, stored, program, verb, code, plain, shown, history, faults>>

\* A wrong certificate is refused at once; a box that never answers, given up on.
NotReady(w) ==
  /\ pc[w] = "ready" /\ ~chk[w].ready /\ ~Answers
  /\ StepFails(w) /\ UNCHANGED faults

PointFails(w) ==
  /\ pc[w] = "point" /\ chk[w].box \notin alive
  /\ StepFails(w) /\ UNCHANGED faults

\* `restore`, with a dump of its own: never over a backend heard to serve.
RestoreHook(w) ==
  /\ pc[w] = "restore"
  /\ \/ ~Serving /\ UNCHANGED faults
     \/ Serving /\ Fault
  /\ Goto(w, "load")
  /\ UNCHANGED <<cloud, stored, program, repo, verb, code, plain, shown, history>>

AlreadyServing(w) ==
  /\ pc[w] = "restore" /\ Serving
  /\ StepFails(w) /\ UNCHANGED faults

\* One transaction: what the backend held is dropped for what the archive holds.
Load(w) ==
  /\ pc[w] = "load" /\ Answers
  /\ data' = [data EXCEPT ![address] = plain[w]]
  /\ Goto(w, "held")
  /\ UNCHANGED <<cloud, clock, dumps, program, repo, verb, code, plain, shown,
                 history, faults>>

LoadFails(w) ==
  /\ pc[w] = "load" /\ ~Answers
  /\ StepFails(w) /\ UNCHANGED faults

\* The last question, with or without a dump: does the backend serve a stack?
Held(w) ==
  /\ pc[w] = "held"
  /\ Finish(w, ~Serving)
  /\ UNCHANGED <<cloud, stored, program, repo, history, faults>>

-----------------------------------------------------------------------------
(* `state-backend restore <file>`.                                         *)

RestoreAsk(w, d) ==
  /\ pc[w] = "idle" /\ Verified(d)
  /\ Serial => \A v \in Others(w) : pc[v] \in {"idle", "ready"}
  /\ \/ Empty /\ Goto(w, "feed") /\ UNCHANGED faults
     \/ ~Answers /\ Goto(w, "blind") /\ UNCHANGED faults
     \/ Serving /\ Goto(w, "blind") /\ Fault
  /\ verb' = [verb EXCEPT ![w] = "restore"]
  /\ plain' = [plain EXCEPT ![w] = d]
  /\ UNCHANGED <<cloud, stored, program, repo, code, shown, history>>

Feed(w) ==
  /\ pc[w] \in {"feed", "blind"} /\ Answers
  /\ data' = [data EXCEPT ![address] = plain[w]]
  /\ forgiven' = IF pc[w] = "blind" THEN forgiven \cup (data[address] \ plain[w])
                 ELSE forgiven
  /\ End(w, NoAnswer)
  /\ UNCHANGED <<cloud, clock, dumps, program, repo, strayed, unknown, faults>>

FeedFails(w) ==
  /\ pc[w] \in {"feed", "blind"} /\ ~Answers
  /\ End(w, NoAnswer)
  /\ UNCHANGED <<cloud, stored, program, repo, history, faults>>

-----------------------------------------------------------------------------
(* What goes wrong by itself.                                              *)

\* A step of the engine, or of a hook, fails where it could have succeeded.
StepErrs(w) ==
  /\ pc[w] \in {"up", "dump", "terminate", "create", "point", "ready", "load", "held"}
  /\ Fault /\ StepFails(w)

PreviewFails(w) ==
  /\ pc[w] = "preview" /\ Fault
  /\ End(w, Refused)
  /\ UNCHANGED <<cloud, stored, program, repo, history>>

Killed(w) ==
  /\ pc[w] # "idle" /\ Fault
  /\ End(w, NoAnswer)
  /\ UNCHANGED <<cloud, stored, program, repo, history>>

\* Killed after the launch and before the checkpoint names the box.
KilledLaunching(w) ==
  /\ pc[w] = "create" /\ Granted(w) /\ Fault
  /\ Launch(Fresh)
  /\ unknown' = unknown \cup {Fresh}
  /\ End(w, NoAnswer)
  /\ UNCHANGED <<stored, program, repo, strayed, forgiven>>

LoseBox(b) ==
  /\ b \in alive /\ Fault
  /\ Gone(b)
  /\ forgiven' = forgiven \cup data[b]
  /\ Aside
  /\ UNCHANGED <<clock, dumps, program, repo, strayed>>

-----------------------------------------------------------------------------
(* The box, its clients, and the repository.                               *)

Boot(b) ==
  /\ b \in alive \ booted
  /\ booted' = booted \cup {b}
  /\ Aside
  /\ UNCHANGED <<alive, ign, address, stored, program, repo, history, faults>>

\* The box counts the stacks itself before it uploads.
CountsStacks(d) == d # {}

Nightly(b) ==
  /\ b \in booted /\ CountsStacks(data[b])
  /\ dumps' = dumps \cup {data[b]}
  /\ Aside
  /\ UNCHANGED <<cloud, data, clock, program, repo, history, faults>>

\* A client's write is stored.  One stored between a run's dump and the
\* delete that follows is in no copy of the state.
Commit ==
  /\ Serving /\ clock < MaxWrites
  /\ clock' = clock + 1
  /\ data' = [data EXCEPT ![address] = @ \cup {clock'}]
  /\ forgiven' = IF \E w \in Workstations : pc[w] = "terminate" /\ chk[w].box = address
                 THEN forgiven \cup {clock'} ELSE forgiven
  /\ Aside
  /\ UNCHANGED <<cloud, dumps, program, repo, strayed, unknown, faults>>

Change ==
  /\ want <= MaxChanges
  /\ want' = want + 1
  /\ Aside
  /\ UNCHANGED <<cloud, stored, expired, repo, history, faults>>

Expire(g) ==
  /\ g <= want /\ g <= MaxChanges /\ g \notin expired /\ Fault
  /\ expired' = expired \cup {g}
  /\ Aside
  /\ UNCHANGED <<cloud, stored, want, repo, history>>

\* The operator's part: a checkpoint lands, and a working copy is rebased
\* (where both sides wrote the file, `main`'s is kept).  With a single
\* workstation nothing reads main, and landing is left out.
Land(w) ==
  /\ pc[w] = "idle" /\ dirty[w] /\ ~behind[w] /\ Others(w) # {}
  /\ main' = chk[w]
  /\ dirty' = [dirty EXCEPT ![w] = FALSE]
  /\ behind' = [v \in Workstations |-> v # w]
  /\ Aside
  /\ UNCHANGED <<cloud, stored, program, chk, history, faults>>

Rebase(w) ==
  /\ pc[w] = "idle" /\ behind[w]
  /\ chk' = [chk EXCEPT ![w] = main]
  /\ dirty' = [dirty EXCEPT ![w] = FALSE]
  /\ behind' = [behind EXCEPT ![w] = FALSE]
  /\ unknown' = unknown \cup {b \in alive : /\ b = chk[w].box /\ b # main.box
                                            /\ \A v \in Others(w) : b # chk[v].box}
  /\ Aside
  /\ UNCHANGED <<cloud, stored, program, main, strayed, forgiven, faults>>

-----------------------------------------------------------------------------
Init ==
  \E b \in Boxes :
    /\ \A o \in Boxes : b <= o
    /\ alive = {b} /\ booted = {b} /\ address = b
    /\ ign = [o \in Boxes |-> IF o = b THEN 1 ELSE 0]
    /\ data = [o \in Boxes |-> IF o = b THEN {1} ELSE {}]
    /\ clock = 1 /\ dumps = {} /\ want = 1 /\ expired = {}
    /\ main = [box |-> b, ready |-> TRUE]
    /\ chk = [w \in Workstations |-> main]
    /\ dirty = [w \in Workstations |-> FALSE]
    /\ behind = [w \in Workstations |-> FALSE]
    /\ pc = [w \in Workstations |-> "idle"]
    /\ verb = [w \in Workstations |-> "plan"]
    /\ code = [w \in Workstations |-> Applied] /\ answer = NoAnswer
    /\ plain = [w \in Workstations |-> {}]
    /\ shown = [w \in Workstations |-> Nil]
    /\ strayed = FALSE /\ unknown = {} /\ forgiven = {} /\ faults = 0

Driver(w) ==
  \/ PlanOnly(w) \/ RefuseBeside(w) \/ HoldForForce(w) \/ NothingToApply(w)
  \/ Ask(w) \/ Settle(w)

Engine(w) ==
  \/ Refresh(w) \/ DumpHook(w) \/ DumpHookRefuses(w) \/ Terminate(w)
  \/ Create(w) \/ PermitRefuses(w) \/ Point(w) \/ PointFails(w)
  \/ AlreadyReady(w) \/ Ready(w) \/ NotReady(w)
  \/ RestoreHook(w) \/ AlreadyServing(w) \/ Load(w) \/ LoadFails(w) \/ Held(w)

Restore(w) == Feed(w) \/ FeedFails(w)

Trouble(w) == StepErrs(w) \/ PreviewFails(w) \/ Killed(w) \/ KilledLaunching(w)

Next ==
  \/ \E w \in Workstations :
       \/ \E v \in Verb \ {"restore"} : Start(w, v)
       \/ Confirm(w) \/ Decline(w)
       \/ Driver(w) \/ Engine(w) \/ Restore(w) \/ Trouble(w)
       \/ \E d \in dumps : RestoreAsk(w, d)
       \/ Land(w) \/ Rebase(w)
  \/ \E b \in Boxes : Boot(b) \/ Nightly(b) \/ LoseBox(b)
  \/ Commit \/ Change
  \/ \E g \in Generation : Expire(g)

Spec == Init /\ [][Next]_vars

\* A run that was started goes on by itself.  The rest is the operator at the
\* playbook: `up --force` again and again and sometimes confirmed, a restore
\* where a run says one is owed, checkpoints landed and working copies
\* rebased, an expired certificate issued again.
Progress(w) == Driver(w) \/ Engine(w) \/ Restore(w)
Reissue == want \in expired /\ Change
FairSpec ==
  /\ Spec
  /\ \A w \in Workstations :
       /\ WF_vars(Progress(w)) /\ WF_vars(Confirm(w) \/ Decline(w))
       /\ SF_vars(Start(w, "force")) /\ SF_vars(verb[w] = "force" /\ Confirm(w))
       /\ SF_vars(\E d \in dumps : RestoreAsk(w, d))
       /\ WF_vars(Land(w)) /\ WF_vars(Rebase(w))
  /\ WF_vars(Reissue)
  /\ \A b \in Boxes : WF_vars(Boot(b)) /\ WF_vars(Nightly(b))

-----------------------------------------------------------------------------
(* Properties.                                                             *)

\* Whatever is killed or fails and wherever, no write a client was told is
\* stored is gone from every copy: it is on a box that exists or in an
\* encrypted dump.  Given up by the design, and recorded in `forgiven`: a
\* write stored between the dump and the delete, one on a box lost outright,
\* and one under a restore that went on because the backend did not answer.
\* And every dump, the nightly ones and the runs', holds a stack, also while a
\* replaced box waits for its restore: the newest is what a recovery takes.
NothingLost ==
  /\ 1..clock \subseteq (UNION ({data[b] : b \in alive} \cup dumps)) \cup forgiven
  /\ {} \notin dumps

\* Where every run's checkpoint landed before the next working copy's run
\* began, there are never two boxes, but for one a killed launch left behind:
\* neither a stale checkpoint nor a run resumed half way launches another.
OneBox == ~strayed => Cardinality(alive \ unknown) <= 1

\* A box comes or goes in a run the operator forced, and in no other: the plan
\* may move between the preview and the `up`, and the hooks still hold.  And no
\* run whose preview found no box launches one while another holds the address:
\* a checkpoint that knows nothing of the box is not repaired by a second one.
\* (A box lost between the preview and the `up` is not its doing.)
HeldUnlessForced ==
  [][\A w \in Workstations :
       pc'[w] # pc[w] /\ alive' # alive =>
         /\ verb[w] \in {"force", "replace"}
         /\ pc[w] = "create" /\ shown[w] = Nil => address = Nil]_vars

\* A run that answers 0 leaves a backend serving, and where it dumped the old
\* box, serving everything that dump holds.
ZeroIsServing ==
  [][\A w \in Workstations :
       pc[w] # "idle" /\ pc'[w] = "idle" /\ answer' = Applied /\ Driven(w)
         => Serving /\ plain[w] \subseteq Backend]_vars

\* A run that ends over a backend that answers and serves no stack answers 3,
\* whatever else it did: only a refusal keeps its own answer.
OwedIsSaid ==
  [][\A w \in Workstations :
       (/\ pc[w] # "idle" /\ pc'[w] = "idle" /\ Driven(w)
        /\ answer' \notin {Refused, NoAnswer} /\ Empty /\ faults' = faults)
       => answer' = Owed]_vars

\* Interruptions stop, the operator keeps at the playbook, and the stacks are
\* served again, with three exceptions.
BoxExpired == address \in Boxes /\ ign[address] \in expired
LostUndumped == dumps = {}
\* A run ended before it pointed the address at the box it launched, and the
\* program moved: the next run dumps through the address before it repairs it.
Stranded == address = Nil /\ alive \ unknown # {}
Recovers ==
  []<>Serving \/ <>[]BoxExpired \/ <>[]LostUndumped \/ <>[]Stranded
=============================================================================
