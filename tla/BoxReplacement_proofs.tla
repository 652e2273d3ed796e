----------------------- MODULE BoxReplacement_proofs -----------------------
(***************************************************************************)
(* For any number of workstations, boxes, writes, changes and faults: the  *)
(* types.  Where runs come one after another: that there is one box, and   *)
(* that a run no one forced touches none.  From one workstation: that no   *)
(* acknowledged write is lost, and that an answer of 0 is a backend that   *)
(* serves what was dumped.                                                 *)
(***************************************************************************)
EXTENDS BoxReplacement, FiniteSetTheorems, TLAPS

\* The address is at a box there is; a box that is gone holds nothing.
World ==
  /\ address \in alive \cup {Nil}
  /\ \A b \in Boxes \ alive : data[b] = {}

\* What a process has in hand, by where it is.
Running(w) == pc[w] \notin {"idle", "feed", "blind"}
Hands ==
  \A w \in Workstations :
    /\ pc[w] \in {"feed", "blind"} <=> verb[w] = "restore"
    /\ pc[w] \in {"idle", "preview", "confirm", "up", "dump"} => plain[w] = {}
    /\ pc[w] \in {"restore", "load"} => plain[w] # {}
    /\ pc[w] = "terminate" => Granted(w)
    /\ pc[w] = "create" => chk[w].box = Nil

IInv == TypeOK /\ World /\ Hands

-----------------------------------------------------------------------------
(* Runs one after another.                                                 *)

\* One run at a time, and the address where its preview found it: nowhere, if
\* the preview found no box.
InTurn ==
  \A w \in Workstations :
    /\ Running(w) => \A u \in Others(w) : ~Running(u)
    /\ /\ pc[w] \in {"confirm", "up", "dump", "terminate", "create"}
       /\ Granted(w) /\ shown[w] = Nil
       => address = Nil

\* Every result landed before the next run began: one checkpoint is ahead of
\* the others, and it names the only box there is, but for strays.
Ahead ==
  ~strayed =>
    /\ \A w \in Workstations :
         /\ ~dirty[w] /\ ~behind[w] => chk[w] = main
         /\ dirty[w] => ~behind[w]
         /\ dirty[w] \/ Running(w) => \A u \in Others(w) : ~dirty[u]
         /\ Running(w) => ~behind[w]
    /\ \A b \in alive \ unknown :
         \/ \E w \in Workstations : dirty[w] /\ chk[w].box = b
         \/ (\A w \in Workstations : ~dirty[w]) /\ main.box = b

SerialInv == IInv /\ InTurn /\ Ahead

-----------------------------------------------------------------------------
(* One workstation.                                                        *)

\* Its checkpoint names the box the address is at, which is the only one to
\* hold anything.
Follows ==
  \A w \in Workstations :
    /\ ~behind[w] /\ address \in {chk[w].box, Nil}
    /\ \A b \in Boxes : data[b] # {} => b = address

\* Where a box is about to go, its state is in a dump or given up; from there
\* to the end of the restore there is no state but the dump the run took.
Blank   == \A b \in Boxes : data[b] = {}
Secured == \A b \in Boxes : data[b] \subseteq (UNION dumps) \cup forgiven
Carries ==
  \A w \in Workstations :
    /\ pc[w] = "terminate" => Secured
    /\ pc[w] \in {"create", "point", "ready", "restore", "load"} /\ plain[w] # {}
         => Blank /\ (pc[w] \in {"create", "point", "ready"} => ~chk[w].ready)
    /\ pc[w] = "feed" => Blank
    /\ pc[w] = "held" \/ (pc[w] = "settle" /\ code[w] = Applied) =>
         plain[w] = {} \/ address = Nil \/ plain[w] \subseteq data[address]

SoleInv == IInv /\ Follows /\ Carries /\ NothingLost

-----------------------------------------------------------------------------
(* Which step writes what.                                                 *)

Moves(w) ==
  \/ \E v \in Verb \ {"restore"} : Start(w, v)
  \/ Confirm(w) \/ Decline(w)
  \/ Driver(w) \/ Engine(w) \/ Restore(w) \/ Trouble(w)
  \/ \E d \in dumps : RestoreAsk(w, d)
Elsewhere ==
  \/ \E w \in Workstations : Land(w) \/ Rebase(w)
  \/ \E b \in Boxes : Boot(b) \/ Nightly(b) \/ LoseBox(b)
  \/ Commit \/ Change
  \/ \E g \in Generation : Expire(g)

LEMMA NextMoves == Next <=> (\E w \in Workstations : Moves(w)) \/ Elsewhere
BY DEF Next, Moves, Elsewhere

\* No process is touched by what is not a run's.
LEMMA ElsewhereAside ==
  ASSUME Elsewhere
  PROVE  UNCHANGED process /\ answer' = NoAnswer
BY DEF Elsewhere, Land, Rebase, Boot, Nightly, LoseBox, Commit, Change, Expire, Aside

\* A run's step moves that run.
LEMMA MovesOne ==
  ASSUME TypeOK, NEW w \in Workstations, Moves(w)
  PROVE  /\ \E p \in Pc : pc' = [pc EXCEPT ![w] = p]
         /\ \E v \in Verb : verb' = [verb EXCEPT ![w] = v]
         /\ \E c \in {Applied, Planned, UpFailed} : code' = [code EXCEPT ![w] = c]
         /\ \E d \in SUBSET Writes : plain' = [plain EXCEPT ![w] = d]
         /\ \E s \in BoxOrNil : shown' = [shown EXCEPT ![w] = s]
         /\ answer' \in Applied..NoAnswer
<1>0. /\ pc \in [Workstations -> Pc] /\ verb \in [Workstations -> Verb]
      /\ code \in [Workstations -> {Applied, Planned, UpFailed}]
      /\ plain \in [Workstations -> SUBSET Writes] /\ shown \in [Workstations -> BoxOrNil]
      /\ dumps \subseteq SUBSET Writes /\ Backend \in SUBSET Writes /\ Refreshed(w) \in BoxOrNil
      /\ pc = [pc EXCEPT ![w] = pc[w]] /\ verb = [verb EXCEPT ![w] = verb[w]]
      /\ code = [code EXCEPT ![w] = code[w]] /\ plain = [plain EXCEPT ![w] = plain[w]]
      /\ shown = [shown EXCEPT ![w] = shown[w]]
  BY DEF TypeOK, Backend, Answers, Refreshed, BoxOrNil, Checkpoint
<1>1. \E p \in Pc : pc' = [pc EXCEPT ![w] = p]
  BY DEF Moves, Start, Confirm, Decline, Driver, PlanOnly, RefuseBeside, HoldForForce, NothingToApply,
     Ask, Settle, Engine, Refresh, DumpHook, DumpHookRefuses, Terminate, Create, PermitRefuses,
     Point, PointFails, AlreadyReady, Ready, NotReady, RestoreHook, AlreadyServing, Load,
     LoadFails, Held, Restore, Feed, FeedFails, Trouble, StepErrs, PreviewFails, Killed,
     KilledLaunching, RestoreAsk, StepFails, Finish, Goto, End, Pc
<1>2. \E v \in Verb : verb' = [verb EXCEPT ![w] = v]
  BY <1>0 DEF Moves, Start, Confirm, Decline, Driver, PlanOnly, RefuseBeside, HoldForForce, NothingToApply,
     Ask, Settle, Engine, Refresh, DumpHook, DumpHookRefuses, Terminate, Create, PermitRefuses,
     Point, PointFails, AlreadyReady, Ready, NotReady, RestoreHook, AlreadyServing, Load,
     LoadFails, Held, Restore, Feed, FeedFails, Trouble, StepErrs, PreviewFails, Killed,
     KilledLaunching, RestoreAsk, StepFails, Finish, End, Verb
<1>3. \E c \in {Applied, Planned, UpFailed} : code' = [code EXCEPT ![w] = c]
  BY <1>0 DEF Moves, Start, Confirm, Decline, Driver, PlanOnly, RefuseBeside, HoldForForce, NothingToApply,
     Ask, Settle, Engine, Refresh, DumpHook, DumpHookRefuses, Terminate, Create, PermitRefuses,
     Point, PointFails, AlreadyReady, Ready, NotReady, RestoreHook, AlreadyServing, Load,
     LoadFails, Held, Restore, Feed, FeedFails, Trouble, StepErrs, PreviewFails, Killed,
     KilledLaunching, RestoreAsk, StepFails, Finish, End
<1>4. \E d \in SUBSET Writes : plain' = [plain EXCEPT ![w] = d]
  BY <1>0 DEF Moves, Start, Confirm, Decline, Driver, PlanOnly, RefuseBeside, HoldForForce, NothingToApply,
     Ask, Settle, Engine, Refresh, DumpHook, DumpHookRefuses, Terminate, Create, PermitRefuses,
     Point, PointFails, AlreadyReady, Ready, NotReady, RestoreHook, AlreadyServing, Load,
     LoadFails, Held, Restore, Feed, FeedFails, Trouble, StepErrs, PreviewFails, Killed,
     KilledLaunching, RestoreAsk, StepFails, Finish, End
<1>5. \E s \in BoxOrNil : shown' = [shown EXCEPT ![w] = s]
  BY <1>0 DEF Moves, Start, Confirm, Decline, Driver, PlanOnly, RefuseBeside, HoldForForce, NothingToApply,
     Ask, Settle, Engine, Refresh, DumpHook, DumpHookRefuses, Terminate, Create, PermitRefuses,
     Point, PointFails, AlreadyReady, Ready, NotReady, RestoreHook, AlreadyServing, Load,
     LoadFails, Held, Restore, Feed, FeedFails, Trouble, StepErrs, PreviewFails, Killed,
     KilledLaunching, RestoreAsk, StepFails, Finish, End, BoxOrNil
<1>6. answer' \in Applied..NoAnswer
  BY <1>0 DEF Moves, Start, Confirm, Decline, Driver, PlanOnly, RefuseBeside, HoldForForce, NothingToApply,
     Ask, Settle, Engine, Refresh, DumpHook, DumpHookRefuses, Terminate, Create, PermitRefuses,
     Point, PointFails, AlreadyReady, Ready, NotReady, RestoreHook, AlreadyServing, Load,
     LoadFails, Held, Restore, Feed, FeedFails, Trouble, StepErrs, PreviewFails, Killed,
     KilledLaunching, RestoreAsk, StepFails, Finish, Goto, End,
     Applied, Planned, Refused, Owed, Silent, UpFailed, NoAnswer
<1> QED  BY <1>1, <1>2, <1>3, <1>4, <1>5, <1>6

\* What a run's step leaves alone but in the steps named.
LEMMA MovesCloud ==
  ASSUME NEW w \in Workstations, Moves(w)
  PROVE  /\ UNCHANGED <<alive, ign, unknown>> \/ Terminate(w) \/ Create(w) \/ KilledLaunching(w)
         /\ UNCHANGED booted \/ Terminate(w)
         /\ UNCHANGED address \/ Terminate(w) \/ Point(w)
         /\ UNCHANGED data \/ Terminate(w) \/ Load(w) \/ Feed(w)
         /\ UNCHANGED dumps \/ DumpHook(w)
         /\ UNCHANGED <<clock, want, expired, main, behind>>
         /\ UNCHANGED <<chk, dirty>> \/ Refresh(w) \/ Terminate(w) \/ Create(w) \/ Ready(w)
         /\ UNCHANGED strayed \/ \E v \in Verb \ {"restore"} : Start(w, v)
         /\ UNCHANGED forgiven \/ Feed(w)
         /\ faults' = faults \/ Fault
<1>1. CASE (\E v \in Verb \ {"restore"} : Start(w, v)) \/ Confirm(w) \/ Decline(w) \/ Driver(w)
           \/ (\E d \in dumps : RestoreAsk(w, d)) \/ Restore(w)
  BY <1>1 DEF Start, Confirm, Decline, Driver, PlanOnly, RefuseBeside, HoldForForce, NothingToApply,
     Ask, Settle, RestoreAsk, Restore, Feed, FeedFails, cloud, stored, program, repo, history
<1>2. CASE Engine(w)
  BY <1>2 DEF Engine, Refresh, DumpHook, DumpHookRefuses, Terminate, Create, PermitRefuses,
     Point, PointFails, AlreadyReady, Ready, NotReady, RestoreHook, AlreadyServing, Load,
     LoadFails, Held, StepFails, Write, Launch, cloud, stored, program, repo, history
<1>3. CASE Trouble(w)
  BY <1>3 DEF Trouble, StepErrs, PreviewFails, Killed, KilledLaunching, Launch, StepFails,
     cloud, stored, program, repo, history
<1> QED  BY <1>1, <1>2, <1>3 DEF Moves

\* And what goes on without a run.
LEMMA ElsewhereCloud ==
  ASSUME Elsewhere
  PROVE  /\ UNCHANGED <<alive, ign, address>> \/ \E b \in Boxes : LoseBox(b)
         /\ UNCHANGED booted \/ \E b \in Boxes : LoseBox(b) \/ Boot(b)
         /\ UNCHANGED data \/ (\E b \in Boxes : LoseBox(b)) \/ Commit
         /\ UNCHANGED clock \/ Commit
         /\ UNCHANGED dumps \/ \E b \in Boxes : Nightly(b)
         /\ UNCHANGED want \/ Change
         /\ UNCHANGED expired \/ \E g \in Generation : Expire(g)
         /\ UNCHANGED <<main, dirty, behind, chk, unknown>>
            \/ (\E b \in Boxes : LoseBox(b)) \/ \E w \in Workstations : Land(w) \/ Rebase(w)
         /\ UNCHANGED <<main, dirty, behind, chk>> \/ \E w \in Workstations : Land(w) \/ Rebase(w)
         /\ UNCHANGED forgiven \/ (\E b \in Boxes : LoseBox(b)) \/ Commit
         /\ UNCHANGED strayed
         /\ faults' = faults \/ Fault
BY DEF Elsewhere, Land, Rebase, Boot, Nightly, LoseBox, Commit, Change, Expire,
   cloud, stored, program, repo, history

-----------------------------------------------------------------------------
(* The types.                                                              *)

LEMMA GoneType ==
  ASSUME TypeOK, NEW b, Gone(b)
  PROVE  /\ (booted \subseteq alive /\ alive \subseteq Boxes /\ unknown \subseteq alive)'
         /\ (ign \in [Boxes -> Generation \cup {0}])' /\ (address \in BoxOrNil)'
         /\ (data \in [Boxes -> SUBSET Writes])'
BY DEF Gone, TypeOK, BoxOrNil

LEMMA WriteType ==
  ASSUME TypeOK, NEW w \in Workstations, NEW c \in Checkpoint, Write(w, c)
  PROVE  /\ (main \in Checkpoint /\ chk \in [Workstations -> Checkpoint])'
         /\ (dirty \in [Workstations -> BOOLEAN] /\ behind \in [Workstations -> BOOLEAN])'
<1>1. (main \in Checkpoint /\ chk \in [Workstations -> Checkpoint])'
  BY DEF Write, TypeOK
<1>2. dirty' = [dirty EXCEPT ![w] = dirty[w] \/ c # chk[w]] /\ behind' = behind
  BY DEF Write
<1>3. (dirty[w] \/ c # chk[w]) \in BOOLEAN
  OBVIOUS
<1>4. dirty \in [Workstations -> BOOLEAN] /\ behind \in [Workstations -> BOOLEAN]
  BY DEF TypeOK
<1>5. (dirty \in [Workstations -> BOOLEAN])'
  BY <1>2, <1>3, <1>4, Zenon
<1> QED  BY <1>1, <1>2, <1>4, <1>5

\* What each step of a run writes to the checkpoint.
LEMMA MovesCheckpoint ==
  ASSUME TypeOK, NEW w \in Workstations, Moves(w)
  PROVE  \/ UNCHANGED repo
         \/ \E c \in Checkpoint : Write(w, c)
<1>1. chk[w] \in [box : BoxOrNil, ready : BOOLEAN]
  BY DEF TypeOK, Checkpoint
<1>2. CASE Refresh(w)
  <2>1. NoBox \in Checkpoint
    BY DEF NoBox, Checkpoint, BoxOrNil
  <2>2. [chk[w] EXCEPT !.ready = chk[w].ready /\ ~Replaces(w)] \in Checkpoint
    <3>1. (chk[w].ready /\ ~Replaces(w)) \in BOOLEAN
      OBVIOUS
    <3> QED  BY <1>1, <3>1, Zenon DEF Checkpoint
  <2> QED  BY <1>2, <2>1, <2>2 DEF Refresh
<1>3. CASE Terminate(w)
  BY <1>3 DEF Terminate, NoBox, Checkpoint, BoxOrNil
<1>4. CASE Create(w)
  BY <1>4 DEF Create, Launch, Checkpoint, BoxOrNil
<1>5. CASE Ready(w)
  <2>1. [chk[w] EXCEPT !.ready = TRUE] \in Checkpoint
    BY <1>1 DEF Checkpoint
  <2> QED  BY <1>5, <2>1 DEF Ready
<1> QED  BY <1>2, <1>3, <1>4, <1>5, MovesCloud DEF repo

LEMMA FreshBox ==
  ASSUME TypeOK, NEW b, Launch(b)
  PROVE  /\ b \in Boxes /\ b \notin alive /\ b # main.box
         /\ \A w \in Workstations : b # chk[w].box
         /\ b # Nil
BY BoxAssumption DEF Launch, Forgotten

LEMMA LaunchType ==
  ASSUME TypeOK, NEW b, Launch(b), unknown' \subseteq unknown \cup {b}
  PROVE  /\ (booted \subseteq alive /\ alive \subseteq Boxes /\ unknown \subseteq alive)'
         /\ (ign \in [Boxes -> Generation \cup {0}])' /\ (address \in BoxOrNil)'
BY DEF Launch, TypeOK, Forgotten

LEMMA MovesType ==
  ASSUME TypeOK, NEW w \in Workstations, Moves(w)
  PROVE  TypeOK'
<1>1. /\ (pc \in [Workstations -> Pc] /\ verb \in [Workstations -> Verb])'
      /\ (code \in [Workstations -> {Applied, Planned, UpFailed}])'
      /\ (plain \in [Workstations -> SUBSET Writes] /\ shown \in [Workstations -> BoxOrNil])'
      /\ (answer \in Applied..NoAnswer)'
  <2>1. /\ pc \in [Workstations -> Pc] /\ verb \in [Workstations -> Verb]
        /\ code \in [Workstations -> {Applied, Planned, UpFailed}]
        /\ plain \in [Workstations -> SUBSET Writes] /\ shown \in [Workstations -> BoxOrNil]
    BY DEF TypeOK
  <2> QED  BY <2>1, MovesOne
<1>2. /\ (main \in Checkpoint /\ chk \in [Workstations -> Checkpoint])'
      /\ (dirty \in [Workstations -> BOOLEAN] /\ behind \in [Workstations -> BOOLEAN])'
  <2>1. CASE UNCHANGED repo
    BY <2>1 DEF repo, TypeOK
  <2>2. CASE \E c \in Checkpoint : Write(w, c)
    BY <2>2, WriteType
  <2> QED  BY <2>1, <2>2, MovesCheckpoint
<1>3. /\ (clock \in Writes /\ want \in Generation /\ expired \subseteq Generation)'
  BY MovesCloud DEF TypeOK
<1>4. (strayed \in BOOLEAN)'
  <2>1. CASE \E v \in Verb \ {"restore"} : Start(w, v)
    BY <2>1 DEF Start
  <2>2. CASE UNCHANGED strayed
    BY <2>2 DEF TypeOK
  <2> QED  BY <2>1, <2>2, MovesCloud
<1>5. (forgiven \subseteq Writes)'
  <2>1. CASE Feed(w)
    BY <2>1 DEF Feed, TypeOK, Answers
  <2>2. CASE UNCHANGED forgiven
    BY <2>2 DEF TypeOK
  <2> QED  BY <2>1, <2>2, MovesCloud
<1>6. (faults \in 0..MaxFaults)'
  BY MovesCloud, BoxAssumption DEF TypeOK, Fault
<1>7. (dumps \subseteq SUBSET Writes)'
  <2>1. CASE DumpHook(w)
    BY <2>1 DEF DumpHook, TypeOK, Backend, Answers
  <2>2. CASE UNCHANGED dumps
    BY <2>2 DEF TypeOK
  <2> QED  BY <2>1, <2>2, MovesCloud
<1>8. /\ (booted \subseteq alive /\ alive \subseteq Boxes /\ unknown \subseteq alive)'
      /\ (ign \in [Boxes -> Generation \cup {0}])' /\ (address \in BoxOrNil)'
      /\ (data \in [Boxes -> SUBSET Writes])'
  <2>1. CASE Terminate(w)
    <3>1. CASE chk[w].box \in alive
      BY <2>1, <3>1, GoneType DEF Terminate
    <3>2. CASE chk[w].box \notin alive
      BY <2>1, <3>2 DEF Terminate, TypeOK
    <3> QED  BY <3>1, <3>2
  <2>2. CASE Create(w)
    <3>1. Launch(Fresh) /\ UNCHANGED <<data, unknown>>
      BY <2>2 DEF Create, stored, history
    <3>2. (data \in [Boxes -> SUBSET Writes])'
      BY <3>1 DEF TypeOK
    <3> HIDE DEF Fresh
    <3> QED  BY <3>1, <3>2, LaunchType
  <2>3. CASE KilledLaunching(w)
    <3>1. Launch(Fresh) /\ UNCHANGED data /\ unknown' = unknown \cup {Fresh}
      BY <2>3 DEF KilledLaunching, stored
    <3>2. (data \in [Boxes -> SUBSET Writes])'
      BY <3>1 DEF TypeOK
    <3> HIDE DEF Fresh
    <3> QED  BY <3>1, <3>2, LaunchType
  <2>4. CASE ~Terminate(w) /\ ~Create(w) /\ ~KilledLaunching(w)
    <3>1. UNCHANGED <<alive, ign, unknown, booted>>
      BY <2>4, MovesCloud
    <3>2. (address \in BoxOrNil)'
      <4>1. CASE Point(w)
        BY <4>1 DEF Point, TypeOK, Checkpoint
      <4> QED  BY <4>1, <2>4, MovesCloud DEF TypeOK
    <3>3. (data \in [Boxes -> SUBSET Writes])'
      <4>1. CASE Load(w) \/ Feed(w)
        BY <4>1 DEF Load, Feed, TypeOK
      <4> QED  BY <4>1, <2>4, MovesCloud DEF TypeOK
    <3> QED  BY <3>1, <3>2, <3>3 DEF TypeOK
  <2> QED  BY <2>1, <2>2, <2>3, <2>4
<1> QED  BY <1>1, <1>2, <1>3, <1>4, <1>5, <1>6, <1>7, <1>8 DEF TypeOK

LEMMA ElsewhereType ==
  ASSUME TypeOK, Elsewhere
  PROVE  TypeOK'
<1>1. /\ (pc \in [Workstations -> Pc] /\ verb \in [Workstations -> Verb])'
      /\ (code \in [Workstations -> {Applied, Planned, UpFailed}])'
      /\ (plain \in [Workstations -> SUBSET Writes] /\ shown \in [Workstations -> BoxOrNil])'
      /\ (strayed \in BOOLEAN)'
  BY ElsewhereAside, ElsewhereCloud DEF TypeOK, process
<1>2. (answer \in Applied..NoAnswer)'
  BY ElsewhereAside DEF Applied, NoAnswer
<1>3. (faults \in 0..MaxFaults)'
  BY ElsewhereCloud, BoxAssumption DEF TypeOK, Fault
<1>4. (clock \in Writes /\ want \in Generation /\ expired \subseteq Generation)'
  <2>1. (clock \in Writes)'
    BY ElsewhereCloud, BoxAssumption DEF TypeOK, Commit, Writes
  <2>2. (want \in Generation)'
    BY ElsewhereCloud, BoxAssumption DEF TypeOK, Change, Generation
  <2>3. (expired \subseteq Generation)'
    BY ElsewhereCloud DEF TypeOK, Expire
  <2> QED  BY <2>1, <2>2, <2>3
<1>5. (dumps \subseteq SUBSET Writes)'
  BY ElsewhereCloud DEF TypeOK, Nightly
<1>6. /\ (booted \subseteq alive /\ alive \subseteq Boxes /\ unknown \subseteq alive)'
      /\ (ign \in [Boxes -> Generation \cup {0}])' /\ (address \in BoxOrNil)'
      /\ (data \in [Boxes -> SUBSET Writes] /\ forgiven \subseteq Writes)'
  <2>1. CASE \E b \in Boxes : LoseBox(b)
    BY <2>1, GoneType DEF LoseBox, TypeOK
  <2>2. CASE Commit
    <3>1. address \in Boxes
      BY <2>2 DEF Commit, Serving, Backend, Answers, TypeOK
    <3>2. clock' \in Writes
      BY <2>2, BoxAssumption DEF Commit, TypeOK, Writes
    <3>3. data[address] \cup {clock'} \in SUBSET Writes
      BY <3>1, <3>2 DEF TypeOK
    <3> QED  BY <2>2, <3>1, <3>2, <3>3 DEF Commit, TypeOK, cloud
  <2>3. CASE ~(\E b \in Boxes : LoseBox(b)) /\ ~Commit
    <3>1. UNCHANGED <<alive, ign, address, data, forgiven>>
      BY <2>3, ElsewhereCloud
    <3>2. (booted \subseteq alive)'
      BY <2>3, <3>1, ElsewhereCloud DEF Boot, TypeOK
    <3>3. (unknown \subseteq alive)'
      BY <2>3, <3>1, ElsewhereCloud DEF Land, Rebase, TypeOK, history
    <3> QED  BY <3>1, <3>2, <3>3 DEF TypeOK
  <2> QED  BY <2>1, <2>2, <2>3
<1>7. /\ (main \in Checkpoint /\ chk \in [Workstations -> Checkpoint])'
      /\ (dirty \in [Workstations -> BOOLEAN] /\ behind \in [Workstations -> BOOLEAN])'
  <2>1. CASE UNCHANGED <<main, dirty, behind, chk>>
    BY <2>1 DEF TypeOK
  <2>2. ASSUME NEW w \in Workstations, Land(w)
        PROVE  /\ (main \in Checkpoint /\ chk \in [Workstations -> Checkpoint])'
               /\ (dirty \in [Workstations -> BOOLEAN] /\ behind \in [Workstations -> BOOLEAN])'
    <3>1. \A v \in Workstations : (v # w) \in BOOLEAN
      OBVIOUS
    <3>2. (behind \in [Workstations -> BOOLEAN])'
      BY <2>2, <3>1, Zenon DEF Land
    <3>3. /\ (main \in Checkpoint /\ chk \in [Workstations -> Checkpoint])'
          /\ (dirty \in [Workstations -> BOOLEAN])'
      BY <2>2 DEF Land, TypeOK
    <3> QED  BY <3>2, <3>3
  <2>3. ASSUME NEW w \in Workstations, Rebase(w)
        PROVE  /\ (main \in Checkpoint /\ chk \in [Workstations -> Checkpoint])'
               /\ (dirty \in [Workstations -> BOOLEAN] /\ behind \in [Workstations -> BOOLEAN])'
    BY <2>3 DEF Rebase, TypeOK
  <2> QED  BY <2>1, <2>2, <2>3, ElsewhereCloud
<1> QED  BY <1>1, <1>2, <1>3, <1>4, <1>5, <1>6, <1>7 DEF TypeOK

LEMMA InitTypes == Init => TypeOK
<1> SUFFICES ASSUME Init PROVE TypeOK
  OBVIOUS
<1>1. /\ \A w \in Workstations : FALSE \in BOOLEAN
      /\ dirty = [w \in Workstations |-> FALSE] /\ behind = [w \in Workstations |-> FALSE]
      /\ strayed = FALSE
  BY DEF Init
<1>2. /\ dirty \in [Workstations -> BOOLEAN] /\ behind \in [Workstations -> BOOLEAN]
      /\ strayed \in BOOLEAN
  BY <1>1, Zenon
<1>3. main \in Checkpoint /\ chk \in [Workstations -> Checkpoint]
  BY DEF Init, Checkpoint, BoxOrNil
<1>4. /\ booted \subseteq alive /\ alive \subseteq Boxes /\ unknown \subseteq alive
      /\ ign \in [Boxes -> Generation \cup {0}] /\ address \in BoxOrNil
      /\ data \in [Boxes -> SUBSET Writes] /\ clock \in Writes /\ dumps \subseteq SUBSET Writes
      /\ want \in Generation /\ expired \subseteq Generation
  BY BoxAssumption DEF Init, BoxOrNil, Generation, Writes
<1>5. /\ pc \in [Workstations -> Pc] /\ verb \in [Workstations -> Verb]
      /\ code \in [Workstations -> {Applied, Planned, UpFailed}]
      /\ answer \in Applied..NoAnswer
      /\ plain \in [Workstations -> SUBSET Writes]
      /\ shown \in [Workstations -> BoxOrNil]
      /\ forgiven \subseteq Writes /\ faults \in 0..MaxFaults
  BY BoxAssumption DEF Init, Pc, Verb, Applied, NoAnswer, BoxOrNil
<1> QED  BY <1>2, <1>3, <1>4, <1>5 DEF TypeOK

LEMMA TypeStep ==
  ASSUME TypeOK, [Next]_vars
  PROVE  TypeOK'
<1>1. CASE Next
  BY <1>1, NextMoves, MovesType, ElsewhereType
<1>2. CASE UNCHANGED vars
  BY <1>2 DEF vars, cloud, stored, program, repo, process, history, TypeOK
<1> QED  BY <1>1, <1>2

\* Over every step of the runs, the box, its clients and the operator, also
\* where a run is killed between a launch and its record: every value stays of
\* its kind, no box has booted that does not exist, and none that no
\* checkpoint names is one already gone.
THEOREM TypeCorrect == Spec => []TypeOK
<1>1. TypeOK /\ [Next]_vars => TypeOK'
  BY TypeStep
<1> QED  BY <1>1, InitTypes, PTL DEF Spec

-----------------------------------------------------------------------------
(* The world, and what a process has in hand.                              *)

LEMMA MovesWorld ==
  ASSUME TypeOK, World, NEW w \in Workstations, Moves(w)
  PROVE  World'
<1>1. CASE Terminate(w)
  <2>1. CASE chk[w].box \in alive
    BY <1>1, <2>1 DEF Terminate, Gone, World, TypeOK
  <2>2. CASE chk[w].box \notin alive
    BY <1>1, <2>2 DEF Terminate, World
  <2> QED  BY <2>1, <2>2
<1>2. CASE Create(w) \/ KilledLaunching(w)
  BY <1>2 DEF Create, KilledLaunching, Launch, stored, World
<1>3. CASE Point(w)
  BY <1>3 DEF Point, stored, World
<1>4. CASE Load(w) \/ Feed(w)
  BY <1>4 DEF Load, Feed, Answers, cloud, World, TypeOK
<1> QED  BY <1>1, <1>2, <1>3, <1>4, MovesCloud DEF World

LEMMA ElsewhereWorld ==
  ASSUME TypeOK, World, Elsewhere
  PROVE  World'
<1>1. CASE \E b \in Boxes : LoseBox(b)
  BY <1>1 DEF LoseBox, Gone, World, TypeOK
<1>2. CASE Commit
  BY <1>2 DEF Commit, Serving, Backend, Answers, cloud, World, TypeOK
<1> QED  BY <1>1, <1>2, ElsewhereCloud DEF World

\* What a process has in hand, said of one.
Hand(w) ==
  /\ pc[w] \in {"feed", "blind"} <=> verb[w] = "restore"
  /\ pc[w] \in {"idle", "preview", "confirm", "up", "dump"} => plain[w] = {}
  /\ pc[w] \in {"restore", "load"} => plain[w] # {}
  /\ pc[w] = "terminate" => Granted(w)
  /\ pc[w] = "create" => chk[w].box = Nil

\* How a run goes on: to its next step, to the driver's last question, or out.
LEMMA FinishHand ==
  ASSUME TypeOK, NEW w \in Workstations, Hand(w), NEW bad \in BOOLEAN, Finish(w, bad),
         pc[w] \notin {"feed", "blind"}
  PROVE  Hand(w)'
<1>1. pc \in [Workstations -> Pc] /\ verb \in [Workstations -> Verb]
      /\ plain \in [Workstations -> SUBSET Writes]
  BY DEF TypeOK
<1> QED  BY <1>1 DEF Finish, Goto, End, Hand, Granted

LEMMA EndHand ==
  ASSUME TypeOK, NEW w \in Workstations, NEW c, End(w, c)
  PROVE  Hand(w)' /\ pc'[w] = "idle"
<1>1. pc \in [Workstations -> Pc] /\ verb \in [Workstations -> Verb]
      /\ plain \in [Workstations -> SUBSET Writes]
  BY DEF TypeOK
<1> QED  BY <1>1 DEF End, Hand, Granted

LEMMA MovesHands ==
  ASSUME TypeOK, Hands, NEW w \in Workstations, Moves(w)
  PROVE  Hands'
<1>0. /\ pc \in [Workstations -> Pc] /\ verb \in [Workstations -> Verb]
      /\ plain \in [Workstations -> SUBSET Writes] /\ chk \in [Workstations -> Checkpoint]
  BY DEF TypeOK
<1>1. ASSUME NEW u \in Workstations, u # w
      PROVE  Hand(u)'
  <2>1. /\ pc'[u] = pc[u] /\ verb'[u] = verb[u] /\ plain'[u] = plain[u]
    BY <1>0, <1>1, MovesOne
  <2>2. chk'[u] = chk[u]
    BY <1>0, <1>1, MovesCheckpoint DEF Write, repo
  <2> QED  BY <2>1, <2>2 DEF Hands, Hand, Granted
<1>2. Hand(w)
  BY DEF Hands, Hand
<1>3. Hand(w)'
  <2>1. CASE \E v \in Verb \ {"restore"} : Start(w, v)
    BY <1>0, <1>2, <2>1 DEF Start, MayStart, Goto, Hand, Granted, repo
  <2>2. CASE Confirm(w) \/ PlanOnly(w) \/ NothingToApply(w) \/ Ask(w)
    BY <1>0, <1>2, <2>2 DEF Confirm, PlanOnly, NothingToApply, Ask, Previewed, Goto, Hand, Granted, repo
  <2>3. CASE Decline(w) \/ RefuseBeside(w) \/ HoldForForce(w) \/ Settle(w) \/ Restore(w)
             \/ PreviewFails(w) \/ Killed(w) \/ KilledLaunching(w)
    BY <2>3, EndHand DEF Decline, RefuseBeside, HoldForForce, Settle, Restore, Feed, FeedFails,
       PreviewFails, Killed, KilledLaunching
  <2>4. CASE DumpHookRefuses(w) \/ PermitRefuses(w) \/ PointFails(w) \/ NotReady(w)
             \/ AlreadyServing(w) \/ LoadFails(w) \/ StepErrs(w) \/ AlreadyReady(w)
    BY <1>2, <2>4, FinishHand DEF DumpHookRefuses, PermitRefuses, PointFails, NotReady,
       AlreadyServing, LoadFails, StepErrs, AlreadyReady, StepFails
  <2>5. CASE Held(w)
    <3>1. (~Serving) \in BOOLEAN
      BY DEF Serving
    <3> QED  BY <1>2, <2>5, <3>1, FinishHand DEF Held
  <2>6. CASE Refresh(w)
    <3>1. CASE Creates(w)
      BY <1>0, <1>2, <2>6, <3>1 DEF Refresh, Write, Goto, NoBox, Hand, Granted
    <3>2. CASE ~Creates(w)
      BY <1>0, <1>2, <2>6, <3>2 DEF Refresh, Write, Goto, Hand, Granted
    <3> QED  BY <3>1, <3>2
  <2>7. CASE DumpHook(w) \/ Point(w) \/ RestoreHook(w) \/ Load(w)
    <3>1. CASE DumpHook(w)
      BY <1>0, <1>2, <3>1 DEF DumpHook, Goto, Hand, Granted, repo
    <3>2. CASE Point(w) \/ RestoreHook(w) \/ Load(w)
      BY <1>0, <1>2, <3>2 DEF Point, RestoreHook, Load, Goto, Hand, Granted, repo
    <3> QED  BY <2>7, <3>1, <3>2
  <2>8. CASE Terminate(w) \/ Create(w)
    <3>1. CASE Terminate(w)
      BY <1>0, <1>2, <3>1 DEF Terminate, Write, Goto, NoBox, Hand, Granted
    <3>2. CASE Create(w)
      BY <1>0, <1>2, <3>2 DEF Create, Write, Goto, Hand, Granted
    <3> QED  BY <2>8, <3>1, <3>2
  <2>9. CASE Ready(w)
    BY <1>0, <1>2, <2>9 DEF Ready, Write, Goto, Hand, Granted
  <2>10. CASE \E d \in dumps : RestoreAsk(w, d)
    BY <1>0, <1>2, <2>10 DEF RestoreAsk, Goto, Hand, Granted, repo, TypeOK
  <2> QED  BY <2>1, <2>2, <2>3, <2>4, <2>5, <2>6, <2>7, <2>8, <2>9, <2>10
           DEF Moves, Driver, Engine, Trouble
<1> QED  BY <1>1, <1>3 DEF Hands, Hand

LEMMA ElsewhereHands ==
  ASSUME TypeOK, Hands, Elsewhere
  PROVE  Hands'
<1>1. UNCHANGED <<pc, verb, plain>>
  BY ElsewhereAside DEF process
<1>2. \A w \in Workstations : chk'[w] = chk[w] \/ pc[w] = "idle"
  BY ElsewhereCloud DEF TypeOK, Land, Rebase
<1> QED  BY <1>1, <1>2 DEF Hands, Granted

LEMMA InitBase == Init => IInv
BY InitTypes DEF Init, IInv, World, Hands, Granted, TypeOK

LEMMA BaseStep ==
  ASSUME IInv, [Next]_vars
  PROVE  IInv'
<1>1. CASE Next
  BY <1>1, NextMoves, TypeStep, MovesWorld, MovesHands, ElsewhereWorld, ElsewhereHands DEF IInv
<1>2. CASE UNCHANGED vars
  BY <1>2, TypeStep DEF vars, cloud, stored, program, repo, process, history, IInv, World, Hands, Granted
<1> QED  BY <1>1, <1>2

-----------------------------------------------------------------------------
(* Runs one after another: no run but a forced one touches a box.          *)

\* A box comes or goes in a run's step only where the operator forced the run:
\* in its delete, its launch, or a launch it was killed in.
LEMMA BoxStepIsForced ==
  ASSUME IInv, NEW w \in Workstations, Next, pc'[w] # pc[w], alive' # alive
  PROVE  Granted(w) /\ (Terminate(w) \/ Create(w) \/ KilledLaunching(w))
<1>1. Moves(w)
  <2>1. PICK u \in Workstations : Moves(u)
    BY NextMoves, ElsewhereAside DEF process
  <2>2. pc \in [Workstations -> Pc]
    BY DEF IInv, TypeOK
  <2> QED  BY <2>1, <2>2, MovesOne DEF IInv
<1>2. Terminate(w) \/ Create(w) \/ KilledLaunching(w)
  BY <1>1, MovesCloud
<1>3. CASE Terminate(w)
  BY <1>3 DEF Terminate, IInv, Hands
<1>4. CASE Create(w) \/ KilledLaunching(w)
  BY <1>4 DEF Create, KilledLaunching
<1> QED  BY <1>2, <1>3, <1>4

\* One process of InTurn.
Sighted(w) ==
  pc[w] \in {"confirm", "up", "dump", "terminate", "create"} /\ Granted(w) /\ shown[w] = Nil
    => address = Nil

\* A run begins where the others are idle.
LEMMA RunningBegins ==
  ASSUME TypeOK, Serial, NEW w \in Workstations, Moves(w), Running(w)'
  PROVE  Running(w) \/ \A u \in Others(w) : pc[u] = "idle"
<1>1. pc \in [Workstations -> Pc]
  BY DEF TypeOK
<1> QED
  BY <1>1 DEF Moves, Start, MayStart, Confirm, Decline, Driver, PlanOnly, RefuseBeside,
     HoldForForce, NothingToApply, Previewed, Ask, Settle, Engine, Refresh, DumpHook,
     DumpHookRefuses, Terminate, Create, PermitRefuses, Point, PointFails, AlreadyReady, Ready,
     NotReady, RestoreHook, AlreadyServing, Load, LoadFails, Held, Restore, Feed, FeedFails,
     Trouble, StepErrs, PreviewFails, Killed, KilledLaunching, RestoreAsk, StepFails, Finish,
     Goto, End, Running

LEMMA MovesSighted ==
  ASSUME TypeOK, NEW w \in Workstations, Moves(w), Sighted(w)
  PROVE  Sighted(w)'
<1>0. /\ pc \in [Workstations -> Pc] /\ verb \in [Workstations -> Verb]
      /\ shown \in [Workstations -> BoxOrNil]
  BY DEF TypeOK
<1>1. CASE Ask(w)
  <2>1. pc'[w] = "confirm" /\ verb' = verb /\ shown'[w] = Refreshed(w) /\ address' = address
    BY <1>0, <1>1 DEF Ask, Goto, cloud
  <2>2. Refreshed(w) = Nil => address = Nil
    BY <1>1 DEF Ask, CreatesBesideHeldAddress, Creates
  <2> QED  BY <2>1, <2>2 DEF Sighted
<1>2. CASE Terminate(w)
  BY <1>0, <1>2 DEF Terminate, Goto, Gone, Sighted, Granted
<1>3. CASE Confirm(w) \/ Refresh(w) \/ DumpHook(w)
  BY <1>0, <1>3 DEF Confirm, Refresh, DumpHook, Goto, cloud, Sighted, Granted
<1>4. CASE \E v \in Verb \ {"restore"} : Start(w, v)
  BY <1>0, <1>4 DEF Start, Goto, Sighted, Granted
<1>5. ASSUME ~Ask(w), ~Terminate(w), ~Confirm(w), ~Refresh(w), ~DumpHook(w),
             ~\E v \in Verb \ {"restore"} : Start(w, v)
      PROVE  pc'[w] \notin {"confirm", "up", "dump", "terminate", "create"}
  BY <1>0, <1>5 DEF Moves, Decline, Driver, PlanOnly, RefuseBeside,
     HoldForForce, NothingToApply, Settle, Engine,
     DumpHookRefuses, Create, PermitRefuses, Point, PointFails, AlreadyReady, Ready,
     NotReady, RestoreHook, AlreadyServing, Load, LoadFails, Held, Restore, Feed, FeedFails,
     Trouble, StepErrs, PreviewFails, Killed, KilledLaunching, RestoreAsk, StepFails, Finish,
     Goto, End
<1> QED  BY <1>1, <1>2, <1>3, <1>4, <1>5 DEF Sighted

LEMMA InTurnStep ==
  ASSUME IInv, Serial, InTurn, [Next]_vars
  PROVE  InTurn'
<1>0. /\ pc \in [Workstations -> Pc] /\ verb \in [Workstations -> Verb]
      /\ shown \in [Workstations -> BoxOrNil] /\ TypeOK
  BY DEF IInv, TypeOK
<1>1. ASSUME NEW w \in Workstations, Moves(w)
      PROVE  InTurn'
  <2>1. ASSUME NEW u \in Workstations, u # w
        PROVE  pc'[u] = pc[u] /\ verb'[u] = verb[u] /\ shown'[u] = shown[u]
    BY <1>0, <1>1, <2>1, MovesOne
  <2>2. Sighted(w)'
    BY <1>0, <1>1, MovesSighted DEF InTurn, Sighted
  <2>3. ASSUME NEW u \in Workstations, u # w
        PROVE  Sighted(u)'
    <3>1. CASE Running(u)
      <4>1. ~Running(w)
        BY <3>1, <2>3 DEF InTurn, Others
      <4>2. address' = address
        BY <1>1, <4>1, MovesCloud DEF Terminate, Point, Running
      <4> QED  BY <2>1, <2>3, <4>2 DEF InTurn, Sighted, Granted
    <3>2. CASE ~Running(u)
      BY <2>1, <2>3, <3>2 DEF Running, Sighted
    <3> QED  BY <3>1, <3>2
  <2>4. ASSUME NEW u \in Workstations, Running(u)', NEW v \in Workstations, v # u
        PROVE  ~Running(v)'
    <3>1. CASE u = w
      BY <1>0, <1>1, <2>1, <2>4, <3>1, RunningBegins DEF InTurn, Others, Running
    <3>2. CASE u # w
      <4>1. Running(u)
        BY <2>1, <2>4, <3>2 DEF Running
      <4>2. CASE v = w
        BY <1>0, <1>1, <2>4, <3>2, <4>1, <4>2, RunningBegins DEF InTurn, Others, Running
      <4>3. CASE v # w
        BY <2>1, <2>4, <4>1, <4>3 DEF InTurn, Others, Running
      <4> QED  BY <4>2, <4>3
    <3> QED  BY <3>1, <3>2
  <2> QED  BY <2>2, <2>3, <2>4 DEF InTurn, Sighted, Others
<1>2. CASE Elsewhere
  <2>1. UNCHANGED process
    BY <1>2, ElsewhereAside
  <2>2. address = Nil => address' = Nil
    BY <1>2, ElsewhereCloud DEF LoseBox, Gone
  <2> QED  BY <2>1, <2>2 DEF process, InTurn, Running, Granted
<1>3. CASE UNCHANGED vars
  BY <1>3 DEF vars, cloud, process, InTurn, Running, Granted
<1> QED  BY <1>1, <1>2, <1>3, NextMoves

LEMMA InitInTurn == Init => InTurn
BY DEF Init, InTurn, Running

\* For any number of workstations whose runs come one after another: a box
\* comes or goes in a run the operator forced and in no other, however the plan
\* moved between the preview and the `up`; and a run whose preview found no box
\* launches none while another holds the address.
THEOREM OnlyForcedRunsTouchABox ==
  ASSUME Serial
  PROVE  Spec => HeldUnlessForced
<1>1. IInv /\ InTurn /\ [Next]_vars => (IInv /\ InTurn)'
  BY BaseStep, InTurnStep
<1>2. IInv /\ InTurn /\ [Next]_vars
        => [\A w \in Workstations :
              pc'[w] # pc[w] /\ alive' # alive =>
                /\ verb[w] \in {"force", "replace"}
                /\ pc[w] = "create" /\ shown[w] = Nil => address = Nil]_vars
  <2> SUFFICES ASSUME IInv, InTurn, Next, NEW w \in Workstations,
                      pc'[w] # pc[w], alive' # alive
               PROVE  /\ verb[w] \in {"force", "replace"}
                      /\ pc[w] = "create" /\ shown[w] = Nil => address = Nil
    OBVIOUS
  <2>1. Granted(w)
    BY BoxStepIsForced
  <2> QED  BY <2>1 DEF InTurn, Granted
<1>3. Init => IInv /\ InTurn
  BY InitBase, InitInTurn
<1> QED  BY <1>1, <1>2, <1>3, PTL DEF Spec, HeldUnlessForced

-----------------------------------------------------------------------------
(* Runs one after another: one box.                                        *)

\* Ahead, where it is not given up.
Landed ==
  \A w \in Workstations :
    /\ ~dirty[w] /\ ~behind[w] => chk[w] = main
    /\ dirty[w] => ~behind[w]
    /\ dirty[w] \/ Running(w) => \A u \in Others(w) : ~dirty[u]
    /\ Running(w) => ~behind[w]
Named(b) ==
  \/ \E w \in Workstations : dirty[w] /\ chk[w].box = b
  \/ (\A w \in Workstations : ~dirty[w]) /\ main.box = b

LEMMA AheadParts == Ahead <=> (~strayed => Landed /\ \A b \in alive \ unknown : Named(b))
BY DEF Ahead, Landed, Named

\* A run that goes on is at the checkpoint that names the box.
LEMMA RunKnowsTheBox ==
  ASSUME Landed, NEW w \in Workstations, Running(w), NEW b, Named(b)
  PROVE  b = chk[w].box
BY DEF Landed, Named, Others

LEMMA OnlyStartRuns ==
  ASSUME TypeOK, NEW w \in Workstations, Moves(w), Running(w)'
  PROVE  Running(w) \/ \E v \in Verb \ {"restore"} : Start(w, v)
<1>1. pc \in [Workstations -> Pc]
  BY DEF TypeOK
<1> QED
  BY <1>1 DEF Moves, Confirm, Decline, Driver, PlanOnly, RefuseBeside,
     HoldForForce, NothingToApply, Previewed, Ask, Settle, Engine, Refresh, DumpHook,
     DumpHookRefuses, Terminate, Create, PermitRefuses, Point, PointFails, AlreadyReady, Ready,
     NotReady, RestoreHook, AlreadyServing, Load, LoadFails, Held, Restore, Feed, FeedFails,
     Trouble, StepErrs, PreviewFails, Killed, KilledLaunching, RestoreAsk, StepFails, Finish,
     Goto, End, Running

\* A run's write moves its own checkpoint ahead of the others, none of which is.
LEMMA WriteLanded ==
  ASSUME TypeOK, Serial, InTurn, Landed, NEW w \in Workstations, Moves(w), Running(w),
         NEW c \in Checkpoint, Write(w, c)
  PROVE  /\ Landed'
         /\ chk'[w] = c
         /\ c # chk[w] => dirty'[w]
         /\ \A b : Named(b) /\ c.box = b => Named(b)'
<1>0. /\ chk \in [Workstations -> Checkpoint] /\ dirty \in [Workstations -> BOOLEAN]
      /\ pc \in [Workstations -> Pc]
  BY DEF TypeOK
<1>1. /\ chk' = [chk EXCEPT ![w] = c] /\ dirty' = [dirty EXCEPT ![w] = dirty[w] \/ c # chk[w]]
      /\ main' = main /\ behind' = behind
  BY DEF Write
<1>2. /\ chk'[w] = c
      /\ dirty'[w] <=> dirty[w] \/ c # chk[w]
      /\ \A u \in Workstations : u # w => chk'[u] = chk[u] /\ dirty'[u] = dirty[u]
  BY <1>0, <1>1, Zenon
<1>3. \A u \in Workstations : u # w => ~dirty[u] /\ ~Running(u)
  BY DEF Landed, InTurn, Others
<1>4. \A u \in Workstations : u # w => ~Running(u)'
  BY <1>0, <1>3, MovesOne DEF Running
<1>5. Landed'
  BY <1>1, <1>2, <1>3, <1>4 DEF Landed, Others
<1>6. ASSUME NEW b, Named(b), c.box = b
      PROVE  Named(b)'
  <2>1. chk[w].box = b
    BY <1>6, RunKnowsTheBox
  <2>2. CASE dirty'[w]
    BY <1>2, <1>6, <2>2 DEF Named
  <2>3. CASE ~dirty'[w]
    <3>1. \A u \in Workstations : ~dirty'[u]
      BY <1>2, <1>3, <2>3
    <3>2. main'.box = b
      BY <1>1, <1>2, <2>1, <2>3 DEF Landed
    <3> QED  BY <3>1, <3>2 DEF Named
  <2> QED  BY <2>2, <2>3
<1> QED  BY <1>2, <1>5, <1>6

LEMMA MovesAhead ==
  ASSUME IInv, Serial, InTurn, Ahead, ~strayed', NEW w \in Workstations, Moves(w)
  PROVE  Landed' /\ \A b \in (alive \ unknown)' : Named(b)'
<1>0. /\ TypeOK /\ pc \in [Workstations -> Pc] /\ chk \in [Workstations -> Checkpoint]
      /\ alive \subseteq Boxes
  BY DEF IInv, TypeOK
<1>1. ~strayed
  BY MovesCloud DEF Start
<1>2. Landed /\ \A b \in alive \ unknown : Named(b)
  BY <1>1, AheadParts
<1>3. \A u \in Workstations : u # w => (Running(u)' <=> Running(u))
  BY <1>0, MovesOne DEF Running
<1>4. CASE \E v \in Verb \ {"restore"} : Start(w, v)
  <2>1. UNCHANGED <<main, chk, dirty, behind, alive, unknown>>
    BY <1>4 DEF Start, cloud, repo
  <2>2. /\ ~behind[w] /\ \A u \in Others(w) : ~dirty[u]
    BY <1>4 DEF Start, Current
  <2>3. \A u \in Workstations : u # w => ~Running(u)
    BY <1>4 DEF Start, MayStart, Others, Running
  <2> QED  BY <1>2, <1>3, <2>1, <2>2, <2>3 DEF Landed, Named
<1>5. CASE Refresh(w)
  <2>1. Running(w)
    BY <1>5 DEF Refresh, Running
  <2> DEFINE c == IF Creates(w) THEN NoBox ELSE [chk[w] EXCEPT !.ready = @ /\ ~Replaces(w)]
  <2>2. Write(w, c) /\ UNCHANGED <<alive, unknown>>
    BY <1>5 DEF Refresh, cloud, history
  <2>3. c \in Checkpoint
    <3>1. NoBox \in Checkpoint
      BY DEF NoBox, Checkpoint, BoxOrNil
    <3>2. chk[w] \in [box : BoxOrNil, ready : BOOLEAN] /\ (chk[w].ready /\ ~Replaces(w)) \in BOOLEAN
      BY <1>0 DEF Checkpoint
    <3>3. [chk[w] EXCEPT !.ready = chk[w].ready /\ ~Replaces(w)] \in Checkpoint
      BY <3>2, Zenon DEF Checkpoint
    <3> QED  BY <3>1, <3>3
  <2>4. ASSUME NEW b \in alive \ unknown
        PROVE  c.box = b
    <3>1. chk[w].box = b
      BY <1>2, <2>1, RunKnowsTheBox
    <3>2. ~Creates(w)
      BY <1>0, <3>1, BoxAssumption DEF Creates, Refreshed
    <3> QED  BY <1>0, <3>1, <3>2 DEF Checkpoint
  <2> HIDE DEF c
  <2> QED  BY <1>0, <1>2, <2>1, <2>2, <2>3, <2>4, WriteLanded
<1>6. CASE Ready(w)
  <2>1. Running(w)
    BY <1>6 DEF Ready, Running
  <2> DEFINE c == [chk[w] EXCEPT !.ready = TRUE]
  <2>2. Write(w, c) /\ UNCHANGED <<alive, unknown>>
    BY <1>6 DEF Ready, cloud, history
  <2>3. c \in Checkpoint /\ c.box = chk[w].box
    BY <1>0 DEF Checkpoint
  <2>4. \A b \in alive \ unknown : c.box = b
    BY <1>2, <2>1, <2>3, RunKnowsTheBox
  <2> HIDE DEF c
  <2> QED  BY <1>0, <1>2, <2>1, <2>2, <2>3, <2>4, WriteLanded
<1>7. CASE Terminate(w)
  <2>1. Running(w)
    BY <1>7 DEF Terminate, Running
  <2>2. NoBox \in Checkpoint
    BY DEF NoBox, Checkpoint, BoxOrNil
  <2>3. \A b \in alive \ unknown : b = chk[w].box
    BY <1>2, <2>1, RunKnowsTheBox
  <2>4. (alive \ unknown)' = {}
    BY <1>7, <2>3 DEF Terminate, Gone
  <2>5. Landed'
    BY <1>0, <1>2, <1>7, <2>1, <2>2, WriteLanded DEF Terminate
  <2> QED  BY <2>4, <2>5
<1>8. CASE Create(w)
  <2>1. Running(w) /\ chk[w].box = Nil
    BY <1>8 DEF Create, Running, IInv, Hands
  <2>2. alive \ unknown = {}
    BY <1>0, <1>2, <2>1, RunKnowsTheBox, BoxAssumption
  <2>3. PICK f : /\ Launch(f) /\ unknown' = unknown
                 /\ Write(w, [box |-> f, ready |-> FALSE])
    BY <1>8 DEF Create, history
  <2>4. f \in Boxes /\ f # chk[w].box /\ alive' = alive \cup {f}
    BY <1>0, <2>3, FreshBox DEF Launch
  <2>5. [box |-> f, ready |-> FALSE] \in Checkpoint /\ [box |-> f, ready |-> FALSE] # chk[w]
    BY <2>4 DEF Checkpoint, BoxOrNil
  <2>6. Landed' /\ chk'[w] = [box |-> f, ready |-> FALSE] /\ dirty'[w]
    <3> DEFINE c == [box |-> f, ready |-> FALSE]
    <3>1. c \in Checkpoint /\ c # chk[w] /\ Write(w, c)
      BY <2>3, <2>5
    <3> HIDE DEF c
    <3>2. Landed' /\ chk'[w] = c /\ dirty'[w]
      BY <1>0, <1>2, <2>1, <3>1, WriteLanded
    <3> QED  BY <3>2 DEF c
  <2>7. Named(f)'
    BY <2>6 DEF Named
  <2>8. (alive \ unknown)' \subseteq {f}
    BY <2>2, <2>3, <2>4
  <2> QED  BY <2>6, <2>7, <2>8
<1>9. CASE /\ ~Refresh(w) /\ ~Ready(w) /\ ~Terminate(w) /\ ~Create(w)
           /\ ~\E v \in Verb \ {"restore"} : Start(w, v)
  <2>1. UNCHANGED <<main, chk, dirty, behind>>
    BY <1>9, MovesCloud
  <2>2. (alive \ unknown)' \subseteq alive \ unknown
    <3>1. CASE KilledLaunching(w)
      BY <3>1 DEF KilledLaunching, Launch
    <3> QED  BY <1>9, <3>1, MovesCloud
  <2>3. Running(w)' => Running(w)
    BY <1>0, <1>9, OnlyStartRuns
  <2> QED  BY <1>2, <1>3, <2>1, <2>2, <2>3 DEF Landed, Named
<1> QED  BY <1>4, <1>5, <1>6, <1>7, <1>8, <1>9

LEMMA ElsewhereAhead ==
  ASSUME IInv, Ahead, ~strayed', Elsewhere
  PROVE  Landed' /\ \A b \in (alive \ unknown)' : Named(b)'
<1>0. /\ chk \in [Workstations -> Checkpoint] /\ dirty \in [Workstations -> BOOLEAN]
      /\ behind \in [Workstations -> BOOLEAN] /\ pc' = pc
  BY ElsewhereAside DEF IInv, TypeOK, process
<1>1. Landed /\ \A b \in alive \ unknown : Named(b)
  BY ElsewhereCloud, AheadParts
<1>2. ASSUME NEW w \in Workstations, Land(w)
      PROVE  Landed' /\ \A b \in (alive \ unknown)' : Named(b)'
  <2>1. /\ main' = chk[w] /\ chk' = chk /\ UNCHANGED <<alive, unknown>>
        /\ pc[w] = "idle" /\ dirty[w]
    BY <1>2 DEF Land, cloud, history
  <2>2. \A u \in Workstations : ~dirty'[u] /\ ~Running(u)'
    BY <1>0, <1>1, <1>2, <2>1 DEF Land, Landed, Running, Others
  <2>3. \A u \in Workstations : ~behind'[u] => u = w
    BY <1>2 DEF Land
  <2>4. Landed'
    BY <2>1, <2>2, <2>3 DEF Landed
  <2>5. \A b \in alive \ unknown : chk[w].box = b
    BY <1>1, <2>1 DEF Landed, Named, Others
  <2> QED  BY <2>1, <2>2, <2>4, <2>5 DEF Named
<1>3. ASSUME NEW w \in Workstations, Rebase(w)
      PROVE  Landed' /\ \A b \in (alive \ unknown)' : Named(b)'
  <2>1. /\ main' = main /\ alive' = alive /\ unknown \subseteq unknown'
        /\ pc[w] = "idle" /\ behind[w]
    BY <1>3 DEF Rebase, cloud
  <2>2. ~dirty[w]
    BY <1>1, <2>1 DEF Landed
  <2>3. /\ chk'[w] = main /\ ~dirty'[w] /\ ~behind'[w]
        /\ \A u \in Workstations : u # w =>
             chk'[u] = chk[u] /\ dirty'[u] = dirty[u] /\ behind'[u] = behind[u]
    BY <1>0, <1>3 DEF Rebase
  <2>4. \A u \in Workstations : Running(u)' <=> Running(u)
    BY <1>0 DEF Running
  <2>5. Landed'
    BY <1>1, <2>1, <2>2, <2>3, <2>4 DEF Landed, Others
  <2>6. \A b : Named(b) => Named(b)'
    BY <2>1, <2>2, <2>3 DEF Named
  <2> QED  BY <1>1, <2>1, <2>5, <2>6
<1>4. CASE ~\E w \in Workstations : Land(w) \/ Rebase(w)
  <2>1. UNCHANGED <<main, dirty, behind, chk>>
    BY <1>4, ElsewhereCloud
  <2>2. (alive \ unknown)' \subseteq alive \ unknown
    BY <1>4, ElsewhereCloud DEF LoseBox, Gone
  <2> QED  BY <1>0, <1>1, <2>1, <2>2 DEF Landed, Named, Running
<1> QED  BY <1>2, <1>3, <1>4

LEMMA SerialStep ==
  ASSUME SerialInv, Serial, [Next]_vars
  PROVE  SerialInv'
<1>0. IInv /\ InTurn /\ Ahead
  BY DEF SerialInv
<1>1. IInv' /\ InTurn'
  BY <1>0, BaseStep, InTurnStep
<1>2. CASE Next
  <2>1. ~strayed' => Landed' /\ \A b \in (alive \ unknown)' : Named(b)'
    BY <1>0, <1>2, NextMoves, MovesAhead, ElsewhereAhead
  <2>2. Ahead'
    BY <2>1 DEF Ahead, Landed, Named
  <2> QED  BY <1>1, <2>2 DEF SerialInv
<1>3. CASE UNCHANGED vars
  <2>1. Ahead'
    BY <1>0, <1>3 DEF vars, cloud, repo, process, history, Ahead, Running
  <2> QED  BY <1>1, <2>1 DEF SerialInv
<1> QED  BY <1>2, <1>3

LEMMA InitSerial == Init => SerialInv
<1> SUFFICES ASSUME Init PROVE SerialInv
  OBVIOUS
<1>1. Ahead
  <2>1. /\ \A w \in Workstations : chk[w] = main /\ ~dirty[w] /\ ~behind[w] /\ ~Running(w)
        /\ alive = {main.box}
    BY DEF Init, Running
  <2> QED  BY <2>1 DEF Ahead
<1> QED  BY <1>1, InitBase, InitInTurn DEF SerialInv

\* At most one box is on record, or on the way to it.
LEMMA AheadOneBox ==
  ASSUME Ahead
  PROVE  OneBox
<1> SUFFICES ASSUME ~strayed PROVE Cardinality(alive \ unknown) <= 1
  BY DEF OneBox
<1>1. Landed /\ \A b \in alive \ unknown : Named(b)
  BY AheadParts
<1>2. ASSUME NEW b \in alive \ unknown, NEW c \in alive \ unknown
      PROVE  b = c
  BY <1>1, <1>2 DEF Landed, Named, Others
<1>3. CASE alive \ unknown = {}
  BY <1>3, FS_EmptySet
<1>4. CASE alive \ unknown # {}
  <2>1. PICK b \in alive \ unknown : TRUE
    BY <1>4
  <2>2. alive \ unknown = {b}
    BY <1>2, <2>1
  <2> QED  BY <2>2, FS_Singleton
<1> QED  BY <1>3, <1>4

\* For any number of workstations whose runs come one after another, boxes,
\* changes and faults: as long as every run's checkpoint landed before the next
\* working copy's run began, there are never two boxes, but for one that a
\* killed launch left behind.
THEOREM NeverTwoBoxes ==
  ASSUME Serial
  PROVE  Spec => []OneBox
<1>1. SerialInv /\ [Next]_vars => SerialInv'
  BY SerialStep
<1>2. SerialInv => OneBox
  BY AheadOneBox DEF SerialInv
<1> QED  BY <1>1, <1>2, InitSerial, PTL DEF Spec

-----------------------------------------------------------------------------
(* One workstation: no acknowledged write is lost.                         *)

\* Where a write is kept.
Kept(n) ==
  \/ \E b \in alive : n \in data[b]
  \/ \E d \in dumps : n \in d
  \/ n \in forgiven
LEMMA NothingLostIsKept == NothingLost <=> (\A n \in 1..clock : Kept(n)) /\ {} \notin dumps
<1> DEFINE held == UNION ({data[b] : b \in alive} \cup dumps)
<1>1. ASSUME NEW n
      PROVE  n \in held \/ n \in forgiven <=> Kept(n)
  <2>1. n \in held <=> \E d \in {data[b] : b \in alive} \cup dumps : n \in d
    BY Zenon
  <2>2. (\E d \in {data[b] : b \in alive} \cup dumps : n \in d)
          <=> (\E b \in alive : n \in data[b]) \/ (\E d \in dumps : n \in d)
    OBVIOUS
  <2> QED  BY <2>1, <2>2 DEF Kept
<1>2. NothingLost <=> (\A n \in 1..clock : n \in held \/ n \in forgiven) /\ {} \notin dumps
  <2>1. NothingLost <=> (1..clock \subseteq held \cup forgiven) /\ {} \notin dumps
    BY DEF NothingLost
  <2> HIDE DEF held
  <2>2. (1..clock \subseteq held \cup forgiven)
          <=> \A n \in 1..clock : n \in held \/ n \in forgiven
    OBVIOUS
  <2> QED  BY <2>1, <2>2
<1> HIDE DEF held
<1> QED  BY <1>1, <1>2, Zenon

LEMMA KeptIsNothingLost ==
  ASSUME {} \notin dumps', \A n \in 1..clock' : Kept(n)'
  PROVE  NothingLost'
<1>1. (NothingLost <=> (\A n \in 1..clock : Kept(n)) /\ {} \notin dumps)'
  BY NothingLostIsKept, PTL
<1>2. ((\A n \in 1..clock : Kept(n)) /\ {} \notin dumps)'
  BY DEF Kept
<1> QED  BY <1>1, <1>2

LEMMA MovesKept ==
  ASSUME IInv, Carries, NothingLost, NEW w \in Workstations, Moves(w)
  PROVE  NothingLost'
<1>0. /\ TypeOK /\ World /\ data \in [Boxes -> SUBSET Writes] /\ booted \subseteq alive
      /\ alive \subseteq Boxes /\ plain[w] \in SUBSET Writes
  BY DEF IInv, TypeOK
<1>1. (\A n \in 1..clock : Kept(n)) /\ {} \notin dumps /\ clock' = clock
  BY NothingLostIsKept, MovesCloud
<1>2. {} \notin dumps'
  <2>1. CASE DumpHook(w)
    BY <1>1, <2>1 DEF DumpHook, Verified
  <2> QED  BY <1>1, <2>1, MovesCloud
<1>3. ASSUME NEW n \in 1..clock
      PROVE  Kept(n)'
  <2>1. Kept(n)
    BY <1>1
  <2>2. CASE Terminate(w)
    <3>1. Secured /\ UNCHANGED <<dumps, forgiven>>
      BY <2>2 DEF Terminate, Carries
    <3> DEFINE inDumps == UNION dumps
    <3>2. \A b \in alive : n \in data[b] => n \in inDumps \/ n \in forgiven
      <4>1. \A b \in Boxes : data[b] \subseteq inDumps \cup forgiven
        BY <3>1 DEF Secured
      <4> HIDE DEF inDumps
      <4> QED  BY <1>0, <4>1
    <3>3. n \in inDumps => \E d \in dumps : n \in d
      BY Zenon
    <3>4. (\E d \in dumps : n \in d) \/ n \in forgiven
      BY <2>1, <3>2, <3>3 DEF Kept
    <3> QED  BY <3>1, <3>4 DEF Kept
  <2>3. CASE Load(w)
    <3>1. Blank /\ UNCHANGED <<dumps, forgiven>>
      BY <2>3 DEF Load, Carries, IInv, Hands, history
    <3>2. (\E d \in dumps : n \in d) \/ n \in forgiven
      BY <1>0, <2>1, <3>1 DEF Kept, Blank
    <3> QED  BY <3>1, <3>2 DEF Kept
  <2>4. CASE Feed(w)
    <3>1. /\ UNCHANGED <<dumps, alive>> /\ address \in alive
          /\ data' = [data EXCEPT ![address] = plain[w]]
      BY <1>0, <2>4 DEF Feed, Answers, cloud
    <3>2. CASE pc[w] = "feed"
      <4>1. Blank /\ forgiven' = forgiven
        BY <2>4, <3>2 DEF Feed, Carries
      <4> QED  BY <1>0, <2>1, <3>1, <4>1 DEF Kept, Blank
    <3>3. CASE pc[w] = "blind"
      <4>1. forgiven' = forgiven \cup (data[address] \ plain[w])
        BY <2>4, <3>3 DEF Feed
      <4>2. ASSUME NEW b \in alive, n \in data[b], n \notin forgiven'
            PROVE  n \in data'[b]
        BY <1>0, <3>1, <4>1, <4>2
      <4> QED  BY <1>0, <2>1, <3>1, <4>1, <4>2 DEF Kept
    <3> QED  BY <2>4, <3>2, <3>3 DEF Feed
  <2>5. CASE ~Terminate(w) /\ ~Load(w) /\ ~Feed(w)
    <3>1. UNCHANGED <<data, forgiven>>
      BY <2>5, MovesCloud
    <3>2. alive \subseteq alive'
      <4>1. CASE Create(w) \/ KilledLaunching(w)
        BY <4>1 DEF Create, KilledLaunching, Launch
      <4> QED  BY <2>5, <4>1, MovesCloud
    <3>3. dumps \subseteq dumps'
      <4>1. CASE DumpHook(w)
        BY <4>1 DEF DumpHook
      <4> QED  BY <4>1, MovesCloud
    <3> QED  BY <2>1, <3>1, <3>2, <3>3 DEF Kept
  <2> QED  BY <2>2, <2>3, <2>4, <2>5
<1> QED  BY <1>1, <1>2, <1>3, KeptIsNothingLost

LEMMA ElsewhereKept ==
  ASSUME IInv, NothingLost, Elsewhere
  PROVE  NothingLost'
<1>0. /\ data \in [Boxes -> SUBSET Writes] /\ booted \subseteq alive /\ alive \subseteq Boxes
      /\ clock \in Nat
  BY DEF IInv, TypeOK, Writes
<1>1. (\A n \in 1..clock : Kept(n)) /\ {} \notin dumps
  BY NothingLostIsKept
<1>2. {} \notin dumps'
  BY <1>1, ElsewhereCloud DEF Nightly, CountsStacks
<1>3. ASSUME NEW n \in 1..clock'
      PROVE  Kept(n)'
  <2>1. CASE \E b \in Boxes : LoseBox(b)
    <3>1. PICK b \in Boxes : LoseBox(b)
      BY <2>1
    <3>2. /\ forgiven' = forgiven \cup data[b] /\ UNCHANGED <<dumps, clock>>
          /\ alive' = alive \ {b} /\ \A o \in Boxes : o # b => data'[o] = data[o]
      BY <1>0, <3>1 DEF LoseBox, Gone
    <3>3. Kept(n)
      BY <1>1, <3>2
    <3> QED  BY <1>0, <3>2, <3>3 DEF Kept
  <2>2. CASE Commit
    <3>1. /\ UNCHANGED <<dumps, alive>> /\ address \in alive /\ clock' = clock + 1
          /\ data' = [data EXCEPT ![address] = data[address] \cup {clock'}]
          /\ forgiven \subseteq forgiven'
      BY <1>0, <2>2 DEF Commit, Serving, Backend, Answers, cloud
    <3>2. \A b \in alive : data[b] \subseteq data'[b]
      BY <1>0, <3>1
    <3>3. CASE n = clock'
      <4>1. n \in data'[address]
        BY <1>0, <3>1, <3>3
      <4> QED  BY <3>1, <4>1 DEF Kept
    <3>4. CASE n # clock'
      <4>1. Kept(n)
        BY <1>0, <1>1, <3>1, <3>4
      <4> QED  BY <3>1, <3>2, <4>1 DEF Kept
    <3> QED  BY <3>3, <3>4
  <2>3. CASE ~(\E b \in Boxes : LoseBox(b)) /\ ~Commit
    <3>1. UNCHANGED <<alive, data, clock, forgiven>>
      BY <2>3, ElsewhereCloud
    <3>2. dumps \subseteq dumps'
      BY ElsewhereCloud DEF Nightly
    <3> QED  BY <1>1, <3>1, <3>2 DEF Kept
  <2> QED  BY <2>1, <2>2, <2>3
<1> QED  BY <1>2, <1>3, KeptIsNothingLost

LEMMA MovesFollows ==
  ASSUME IInv, Follows, NEW w, Workstations = {w}, Moves(w)
  PROVE  Follows'
<1>0. /\ TypeOK /\ World /\ Hands /\ w \in Workstations /\ chk \in [Workstations -> Checkpoint]
      /\ data \in [Boxes -> SUBSET Writes] /\ alive \subseteq Boxes /\ booted \subseteq alive
      /\ behind' = behind /\ ~behind[w]
  BY MovesCloud DEF IInv, TypeOK, Follows
<1>1. address \in {chk[w].box, Nil} /\ \A b \in Boxes : data[b] # {} => b = address
  BY <1>0 DEF Follows
<1>2. ASSUME UNCHANGED <<address, data>>, chk'[w].box = chk[w].box \/ address = Nil
      PROVE  Follows'
  BY <1>0, <1>1, <1>2 DEF Follows
<1>3. CASE Refresh(w)
  <2>1. UNCHANGED <<address, data>>
    BY <1>3 DEF Refresh, cloud, stored
  <2>2. CASE Creates(w)
    <3>1. chk[w].box \notin alive
      BY <1>0, <2>2, BoxAssumption DEF Creates, Refreshed
    <3>2. address = Nil
      BY <1>0, <1>1, <3>1 DEF World
    <3> QED  BY <1>2, <2>1, <3>2
  <2>3. CASE ~Creates(w)
    <3>1. chk'[w].box = chk[w].box
      BY <1>0, <1>3, <2>3 DEF Refresh, Write, Checkpoint
    <3> QED  BY <1>2, <2>1, <3>1
  <2> QED  BY <2>2, <2>3
<1>4. CASE Terminate(w)
  <2>1. CASE chk[w].box \in alive
    <3>1. address' = Nil /\ \A b \in Boxes : data'[b] = {}
      BY <1>0, <1>1, <1>4, <2>1, BoxAssumption DEF Terminate, Gone
    <3> QED  BY <1>0, <3>1 DEF Follows
  <2>2. CASE chk[w].box \notin alive
    <3>1. address = Nil /\ UNCHANGED <<address, data>>
      BY <1>0, <1>1, <1>4, <2>2 DEF Terminate, World
    <3> QED  BY <1>2, <3>1
  <2> QED  BY <2>1, <2>2
<1>5. CASE Create(w)
  <2>1. UNCHANGED <<address, data>> /\ address = Nil
    BY <1>0, <1>1, <1>5 DEF Create, Launch, stored, Hands
  <2> QED  BY <1>2, <2>1
<1>6. CASE Ready(w)
  <2>1. UNCHANGED <<address, data>>
    BY <1>6 DEF Ready, cloud, stored
  <2>2. chk'[w].box = chk[w].box
    BY <1>0, <1>6 DEF Ready, Write, Checkpoint
  <2> QED  BY <1>2, <2>1, <2>2
<1>7. CASE Point(w)
  <2>1. address' = chk[w].box /\ chk' = chk /\ data' = data
    BY <1>7 DEF Point, repo, stored
  <2>2. \A b \in Boxes : data[b] # {} => b = chk[w].box
    BY <1>1, BoxAssumption
  <2> QED  BY <1>0, <2>1, <2>2 DEF Follows
<1>8. CASE Load(w) \/ Feed(w)
  <2>1. /\ UNCHANGED <<address, chk>> /\ \E d : data' = [data EXCEPT ![address] = d]
    BY <1>8 DEF Load, Feed, cloud, repo
  <2> QED  BY <1>0, <1>1, <2>1 DEF Follows
<1>9. CASE /\ ~Refresh(w) /\ ~Ready(w) /\ ~Terminate(w) /\ ~Create(w)
           /\ ~Point(w) /\ ~Load(w) /\ ~Feed(w)
  BY <1>2, <1>9, <1>0, MovesCloud
<1> QED  BY <1>3, <1>4, <1>5, <1>6, <1>7, <1>8, <1>9

LEMMA ElsewhereFollows ==
  ASSUME IInv, Follows, NEW w, Workstations = {w}, Elsewhere
  PROVE  Follows' /\ UNCHANGED <<chk, behind>>
<1>0. /\ TypeOK /\ World /\ w \in Workstations
      /\ data \in [Boxes -> SUBSET Writes] /\ alive \subseteq Boxes /\ booted \subseteq alive
      /\ ~behind[w]
  BY DEF IInv, TypeOK, Follows
<1>1. address \in {chk[w].box, Nil} /\ \A b \in Boxes : data[b] # {} => b = address
  BY <1>0 DEF Follows
<1>2. UNCHANGED <<chk, behind>>
  <2>1. ~\E u \in Workstations : Land(u) \/ Rebase(u)
    BY <1>0 DEF Land, Rebase, Others
  <2> QED  BY <2>1, ElsewhereCloud
<1>3. CASE \E b \in Boxes : LoseBox(b)
  BY <1>0, <1>1, <1>2, <1>3 DEF LoseBox, Gone, Follows
<1>4. CASE Commit
  BY <1>0, <1>1, <1>2, <1>4 DEF Commit, cloud, Follows
<1>5. CASE ~(\E b \in Boxes : LoseBox(b)) /\ ~Commit
  BY <1>0, <1>1, <1>2, <1>5, ElsewhereCloud DEF Follows
<1> QED  BY <1>2, <1>3, <1>4, <1>5

\* Carries, of the one process.
Hopeful(w) ==
  /\ pc[w] = "terminate" => Secured
  /\ pc[w] \in {"create", "point", "ready", "restore", "load"} /\ plain[w] # {}
       => Blank /\ (pc[w] \in {"create", "point", "ready"} => ~chk[w].ready)
  /\ pc[w] = "feed" => Blank
  /\ pc[w] = "held" \/ (pc[w] = "settle" /\ code[w] = Applied) =>
       plain[w] = {} \/ address = Nil \/ plain[w] \subseteq data[address]

\* A run that is over, or that failed, promises nothing.
LEMMA EndHopeful ==
  ASSUME TypeOK, NEW w \in Workstations,
         (\E c : End(w, c)) \/ Finish(w, TRUE)
  PROVE  Hopeful(w)'
<1>1. pc \in [Workstations -> Pc] /\ code \in [Workstations -> {Applied, Planned, UpFailed}]
  BY DEF TypeOK
<1> QED  BY <1>1 DEF End, Finish, Goto, Hopeful, Applied, UpFailed

LEMMA MovesHopeful ==
  ASSUME IInv, Follows, NEW w, Workstations = {w}, Hopeful(w), Moves(w)
  PROVE  Hopeful(w)'
<1>0. /\ TypeOK /\ World /\ Hand(w) /\ w \in Workstations /\ chk \in [Workstations -> Checkpoint]
      /\ data \in [Boxes -> SUBSET Writes] /\ alive \subseteq Boxes /\ booted \subseteq alive
      /\ pc \in [Workstations -> Pc] /\ code \in [Workstations -> {Applied, Planned, UpFailed}]
      /\ plain \in [Workstations -> SUBSET Writes] /\ Nil \notin Boxes
  BY BoxAssumption DEF IInv, TypeOK, Hands, Hand
<1>1. address \in {chk[w].box, Nil} /\ \A b \in Boxes : data[b] # {} => b = address
  BY <1>0 DEF Follows
<1>2. CASE \/ Decline(w) \/ RefuseBeside(w) \/ HoldForForce(w) \/ Settle(w) \/ Restore(w)
           \/ PreviewFails(w) \/ Killed(w) \/ KilledLaunching(w)
           \/ DumpHookRefuses(w) \/ PermitRefuses(w) \/ PointFails(w) \/ NotReady(w)
           \/ AlreadyServing(w) \/ LoadFails(w) \/ StepErrs(w)
  BY <1>0, <1>2, EndHopeful DEF Decline, RefuseBeside, HoldForForce, Settle, Restore, Feed,
     FeedFails, PreviewFails, Killed, KilledLaunching, DumpHookRefuses, PermitRefuses,
     PointFails, NotReady, AlreadyServing, LoadFails, StepErrs, StepFails
<1>3. CASE \E v \in Verb \ {"restore"} : Start(w, v)
  BY <1>0, <1>3 DEF Start, Goto, Hopeful
<1>4. CASE Confirm(w) \/ PlanOnly(w) \/ NothingToApply(w) \/ Ask(w)
  <2>1. plain[w] = {} /\ plain' = plain /\ pc'[w] \in {"up", "settle", "confirm"}
    BY <1>0, <1>4 DEF Confirm, PlanOnly, NothingToApply, Ask, Previewed, Goto, Hand
  <2> QED  BY <2>1 DEF Hopeful
<1>5. CASE Refresh(w)
  <2>1. plain'[w] = {} /\ pc'[w] \in {"create", "dump", "point"}
    BY <1>0, <1>5 DEF Refresh, Goto, Hand
  <2> QED  BY <2>1 DEF Hopeful
<1>6. CASE DumpHook(w)
  <2>1. /\ pc'[w] = "terminate" /\ data' = data /\ forgiven' = forgiven
        /\ dumps' = dumps \cup {data[address]}
    BY <1>0, <1>6 DEF DumpHook, Goto, Backend, history
  <2>2. ASSUME NEW b \in Boxes
        PROVE  data[b] \subseteq (UNION dumps') \cup forgiven
    <3>1. data[b] = {} \/ data[b] \in dumps'
      BY <1>1, <2>1
    <3>2. data[b] \in dumps' => data[b] \subseteq UNION dumps'
      BY Zenon
    <3> DEFINE inDumps == UNION dumps'
    <3>3. data[b] = {} \/ data[b] \subseteq inDumps
      BY <3>1, <3>2
    <3> HIDE DEF inDumps
    <3>4. data[b] \subseteq inDumps \cup forgiven
      BY <3>3
    <3> QED  BY <3>4 DEF inDumps
  <2>3. Secured'
    BY <2>1, <2>2 DEF Secured
  <2> QED  BY <2>1, <2>3 DEF Hopeful
<1>7. CASE Terminate(w)
  <2>1. pc'[w] = "create" /\ ~chk'[w].ready
    BY <1>0, <1>7 DEF Terminate, Goto, Write, NoBox
  <2>2. Blank'
    <3>1. CASE chk[w].box \in alive
      BY <1>0, <1>1, <1>7, <3>1 DEF Terminate, Gone, Blank
    <3>2. CASE chk[w].box \notin alive
      BY <1>0, <1>1, <1>7, <3>2 DEF Terminate, World, Blank
    <3> QED  BY <3>1, <3>2
  <2> QED  BY <2>1, <2>2 DEF Hopeful
<1>8. CASE Create(w)
  <2>1. pc[w] = "create" /\ pc'[w] = "point" /\ ~chk'[w].ready /\ UNCHANGED <<plain, data>>
    BY <1>0, <1>8 DEF Create, Goto, Write, stored
  <2> QED  BY <2>1 DEF Hopeful, Blank
<1>9. CASE Point(w)
  <2>1. pc[w] = "point" /\ pc'[w] = "ready" /\ UNCHANGED <<plain, data, chk>>
    BY <1>0, <1>9 DEF Point, Goto, stored, repo
  <2> QED  BY <2>1 DEF Hopeful, Blank
<1>10. CASE AlreadyReady(w)
  <2>1. plain[w] = {} /\ plain'[w] = {} /\ pc'[w] \in {"settle", "idle"}
    BY <1>0, <1>10 DEF AlreadyReady, Finish, End, Goto, Hopeful
  <2> QED  BY <2>1 DEF Hopeful
<1>11. CASE Ready(w)
  <2>1. /\ pc[w] = "ready" /\ UNCHANGED <<plain, data>>
        /\ pc'[w] = IF plain[w] # {} THEN "restore" ELSE "held"
    BY <1>0, <1>11 DEF Ready, Goto, stored
  <2> QED  BY <2>1 DEF Hopeful, Blank
<1>12. CASE RestoreHook(w)
  <2>1. pc[w] = "restore" /\ pc'[w] = "load" /\ UNCHANGED <<plain, data>>
    BY <1>0, <1>12 DEF RestoreHook, Goto, stored
  <2> QED  BY <2>1 DEF Hopeful, Blank
<1>13. CASE Load(w)
  <2>1. /\ pc'[w] = "held" /\ UNCHANGED <<plain, address>>
        /\ data' = [data EXCEPT ![address] = plain[w]] /\ address \in Boxes
    BY <1>0, <1>13 DEF Load, Goto, cloud, Answers
  <2>2. data'[address'] = plain'[w]
    BY <1>0, <2>1
  <2> QED  BY <2>1, <2>2 DEF Hopeful
<1>14. CASE Held(w)
  <2>1. /\ pc[w] = "held" /\ UNCHANGED <<data, address>>
        /\ \/ pc'[w] = "settle" /\ plain' = plain
           \/ pc'[w] = "idle"
    BY <1>0, <1>14 DEF Held, Finish, End, Goto, cloud, stored
  <2> QED  BY <2>1 DEF Hopeful
<1>15. CASE \E d \in dumps : RestoreAsk(w, d)
  <2>1. UNCHANGED data /\ (pc'[w] = "blind" \/ (pc'[w] = "feed" /\ Empty))
    BY <1>0, <1>15 DEF RestoreAsk, Goto, stored
  <2>2. Empty => Blank
    BY <1>1 DEF Empty, Backend, Blank
  <2> QED  BY <2>1, <2>2 DEF Hopeful, Blank
<1> QED
  BY <1>2, <1>3, <1>4, <1>5, <1>6, <1>7, <1>8, <1>9, <1>10, <1>11, <1>12, <1>13, <1>14, <1>15
  DEF Moves, Driver, Engine, Trouble

\* The box, its clients and the operator do not take back what a run counts on.
LEMMA ElsewhereHopeful ==
  ASSUME IInv, Follows, NEW w, Workstations = {w}, Hopeful(w), Elsewhere
  PROVE  Hopeful(w)'
<1>0. /\ TypeOK /\ World /\ w \in Workstations /\ Nil \notin Boxes
      /\ data \in [Boxes -> SUBSET Writes] /\ alive \subseteq Boxes /\ booted \subseteq alive
      /\ address \in {chk[w].box, Nil}
  BY BoxAssumption DEF IInv, TypeOK, Follows
<1>1. UNCHANGED <<pc, code, plain, chk>>
  BY ElsewhereAside, ElsewhereFollows DEF process
<1> DEFINE inDumps == UNION dumps
<1>2. dumps \subseteq dumps'
  BY ElsewhereCloud DEF Nightly
<1>3. inDumps \subseteq inDumps'
  BY <1>2
<1>4. ASSUME \A b \in Boxes : data'[b] \subseteq data[b] \cup forgiven', forgiven \subseteq forgiven'
      PROVE  Secured => Secured'
  <2>1. Secured <=> \A b \in Boxes : data[b] \subseteq inDumps \cup forgiven
    BY DEF Secured
  <2>2. Secured' <=> \A b \in Boxes : data'[b] \subseteq inDumps' \cup forgiven'
    BY DEF Secured
  <2> HIDE DEF inDumps
  <2> QED  BY <1>3, <1>4, <2>1, <2>2
<1>5. CASE \E b \in Boxes : LoseBox(b)
  <2>1. PICK b \in Boxes : LoseBox(b)
    BY <1>5
  <2>2. /\ data' = [data EXCEPT ![b] = {}] /\ forgiven' = forgiven \cup data[b]
        /\ address' = IF address = b THEN Nil ELSE address
    BY <2>1 DEF LoseBox, Gone
  <2>3. Secured => Secured'
    BY <1>0, <1>4, <2>2
  <2>4. Blank => Blank'
    BY <1>0, <2>2 DEF Blank
  <2>5. address' = Nil \/ (address' = address /\ data'[address] = data[address])
    BY <1>0, <2>2
  <2> QED  BY <1>1, <2>3, <2>4, <2>5 DEF Hopeful
<1>6. CASE Commit
  <2>1. /\ Serving /\ address \in Boxes /\ address' = address /\ dumps' = dumps
        /\ data' = [data EXCEPT ![address] = data[address] \cup {clock'}]
        /\ forgiven' = IF \E u \in Workstations : pc[u] = "terminate" /\ chk[u].box = address
                       THEN forgiven \cup {clock'} ELSE forgiven
    BY <1>0, <1>6 DEF Commit, Serving, Backend, Answers, cloud
  <2>2. ~Blank
    BY <2>1 DEF Blank, Serving, Backend
  <2>3. data'[address] = data[address] \cup {clock'}
    BY <1>0, <2>1
  <2>4. pc[w] = "terminate" => Secured'
    <3>1. pc[w] = "terminate" => forgiven' = forgiven \cup {clock'}
      BY <1>0, <2>1
    <3>2. pc[w] = "terminate" => \A b \in Boxes : data'[b] \subseteq data[b] \cup forgiven'
      BY <1>0, <2>1, <3>1
    <3> QED  BY <1>4, <3>1, <3>2 DEF Hopeful
  <2> QED  BY <1>1, <2>1, <2>2, <2>3, <2>4 DEF Hopeful
<1>7. CASE ~(\E b \in Boxes : LoseBox(b)) /\ ~Commit
  <2>1. UNCHANGED <<data, address, forgiven>>
    BY <1>7, ElsewhereCloud
  <2>2. Secured => Secured'
    BY <1>4, <2>1
  <2> QED  BY <1>1, <2>1, <2>2 DEF Hopeful, Blank
<1> QED  BY <1>5, <1>6, <1>7

LEMMA SoleStep ==
  ASSUME SoleInv, NEW w, Workstations = {w}, [Next]_vars
  PROVE  SoleInv'
<1>0. IInv /\ Follows /\ Carries /\ NothingLost
  BY DEF SoleInv
<1>1. IInv'
  BY <1>0, BaseStep
<1>2. Carries <=> Hopeful(w)
  BY DEF Carries, Hopeful
<1>3. Carries' <=> Hopeful(w)'
  BY DEF Carries, Hopeful
<1>4. CASE Moves(w)
  <2>1. Follows' /\ NothingLost'
    BY <1>0, <1>4, MovesFollows, MovesKept
  <2>2. Hopeful(w)'
    BY <1>0, <1>2, <1>4, MovesHopeful
  <2> QED  BY <1>1, <1>3, <2>1, <2>2 DEF SoleInv
<1>5. CASE Elsewhere
  <2>1. Follows' /\ NothingLost'
    BY <1>0, <1>5, ElsewhereFollows, ElsewhereKept
  <2>2. Hopeful(w)'
    BY <1>0, <1>2, <1>5, ElsewhereHopeful
  <2> QED  BY <1>1, <1>3, <2>1, <2>2 DEF SoleInv
<1>6. CASE UNCHANGED vars
  <2>1. Follows' /\ NothingLost'
    BY <1>0, <1>6 DEF vars, cloud, stored, repo, history, Follows, NothingLost
  <2>2. Carries'
    BY <1>0, <1>6 DEF vars, cloud, stored, repo, process, history, Carries, Secured, Blank
  <2> QED  BY <1>1, <2>1, <2>2 DEF SoleInv
<1> QED  BY <1>4, <1>5, <1>6, NextMoves

LEMMA InitSole == Init => SoleInv
<1> SUFFICES ASSUME Init PROVE SoleInv
  OBVIOUS
<1>1. Follows /\ Carries
  BY DEF Init, Follows, Carries
<1>2. NothingLost
  <2>1. clock = 1 /\ dumps = {} /\ \E b \in alive : data[b] = {1}
    BY DEF Init
  <2>2. \A n \in 1..clock : n = 1
    BY <2>1
  <2>3. Kept(1)
    BY <2>1 DEF Kept
  <2> QED  BY <2>1, <2>2, <2>3, NothingLostIsKept
<1> QED  BY <1>1, <1>2, InitBase DEF SoleInv

\* From one workstation, for any number of boxes, writes, changes and faults:
\* no write a client was told is stored is gone from every copy, whatever is
\* killed or fails and wherever in the replacement, but those the design gives
\* up; and no dump is empty.
THEOREM NoWriteIsLost ==
  ASSUME NEW w, Workstations = {w}
  PROVE  Spec => []NothingLost
<1>1. SoleInv /\ [Next]_vars => SoleInv'
  BY SoleStep
<1>2. SoleInv => NothingLost
  BY DEF SoleInv
<1> QED  BY <1>1, <1>2, InitSole, PTL DEF Spec

\* From one workstation: a driver's run that answers 0 leaves a backend that
\* serves, and where it dumped the old box, one that serves all of that dump.
THEOREM ZeroMeansServing ==
  ASSUME NEW me, Workstations = {me}
  PROVE  Spec => ZeroIsServing
<1>1. SoleInv /\ [Next]_vars => SoleInv'
  BY SoleStep
<1>2. SoleInv /\ [Next]_vars
        => [\A w \in Workstations :
              pc[w] # "idle" /\ pc'[w] = "idle" /\ answer' = Applied /\ Driven(w)
                => Serving /\ plain[w] \subseteq Backend]_vars
  <2> SUFFICES ASSUME SoleInv, Next, pc[me] # "idle", pc'[me] = "idle", answer' = Applied, Driven(me)
               PROVE  Serving /\ plain[me] \subseteq Backend
    OBVIOUS
  <2>0. /\ TypeOK /\ me \in Workstations /\ pc \in [Workstations -> Pc]
        /\ code \in [Workstations -> {Applied, Planned, UpFailed}]
        /\ Hopeful(me) /\ booted \subseteq Boxes /\ Nil \notin Boxes
    BY BoxAssumption DEF SoleInv, IInv, TypeOK, Carries, Hopeful
  <2>1. Moves(me)
    BY NextMoves, ElsewhereAside DEF process
  <2>2. Settle(me)
    BY <2>0, <2>1 DEF Moves, Start, Confirm, Decline, Driver, PlanOnly, RefuseBeside,
     HoldForForce, NothingToApply, Previewed, Ask, Engine, Refresh, DumpHook,
     DumpHookRefuses, Terminate, Create, PermitRefuses, Point, PointFails, AlreadyReady, Ready,
     NotReady, RestoreHook, AlreadyServing, Load, LoadFails, Held, Restore, Feed, FeedFails,
     Trouble, StepErrs, PreviewFails, Killed, KilledLaunching, RestoreAsk, StepFails, Finish,
     Goto, End, Driven, Applied, Planned, Refused, Owed, Silent, UpFailed, NoAnswer
  <2>3. pc[me] = "settle" /\ Serving /\ code[me] = Applied
    BY <2>0, <2>2 DEF Settle, End, Applied, Planned, Owed, Silent, UpFailed
  <2>4. address # Nil /\ Backend = data[address]
    BY <2>0, <2>3 DEF Serving, Backend, Answers
  <2> QED  BY <2>0, <2>3, <2>4 DEF Hopeful
<1> QED  BY <1>1, <1>2, InitSole, PTL DEF Spec, ZeroIsServing, Driven

=============================================================================
