--------------------------- MODULE RoutingDaemon ----------------------------
(***************************************************************************)
(* The gateway's routing daemon, the converger `frr-config.sh` that gives  *)
(* it the declared configuration and switches its protocol on, the unit    *)
(* that runs the converger at boot, and the deployment whose hook runs it  *)
(* again.                                                                  *)
(*                                                                         *)
(* Covered: every command of the converger as a step of its own, a run at  *)
(* boot beside a run from a push, failing commands, killed runs, lost      *)
(* sessions and power losses between any two, firmware updates that put    *)
(* any of the files off /data back or carry them across, a replaced        *)
(* parser, and an operator who writes out what the running daemon holds.   *)
(*                                                                         *)
(* Abstracted: the release and the parser's checksum are one value.  The   *)
(* source is put in place whole (`DeviceFiles` models how), and a hook     *)
(* whose session was lost is over before the next push.  What the          *)
(* supervisor does with the file after its unit has started is not seen.   *)
(***************************************************************************)
EXTENDS Naturals

CONSTANTS
  Conf,        \* configurations the program declares
  Parser,      \* firmware releases, with the parser each brings
  Shipped,     \* the release the device starts on
  Rejects,     \* pairs of a configuration and a parser that refuses it
  None,        \* no configuration
  Stock,       \* what a firmware ships in its place
  ByHand,      \* what an operator had the daemon write out
  NoStamp,
  Down,        \* the daemon is not running
  MaxCommits,  \* bound: changes of the declaration
  MaxUpdates,  \* bound: firmware updates, replaced parsers, and
               \* configurations written out by hand
  MaxFaults    \* bound: failing commands, kills, lost sessions, power losses

ASSUME ValueAssumption ==
  /\ None \notin Conf /\ Stock \notin Conf /\ ByHand \notin Conf
  /\ Shipped \in Parser /\ Rejects \subseteq Conf \X Parser
ASSUME MarkAssumption ==
  /\ NoStamp \notin [conf : Conf, parser : Parser]
  /\ Down \notin [conf : Conf \cup {None, Stock, ByHand}, bgp : BOOLEAN]
ASSUME BoundAssumption ==
  MaxCommits \in Nat /\ MaxUpdates \in Nat /\ MaxFaults \in Nat

VARIABLES
  declared,  \* the configuration the program declares
  recorded,  \* the one Pulumi's state holds
  source,    \* on /data: the configuration as desired state
  live,      \* in /etc: the daemon's copy
  list,      \* in /etc: the protocol's line in the daemon list
  stamp,     \* in /etc: what the daemon was last restarted onto
  parser,    \* the release the device runs
  daemon,    \* what the running daemon was started on
  conv,      \* the converger, run by the unit and by a push
  pushing,   \* whether a deployment waits for its hook
  missed,    \* history: a stamp stands that outlived a restart never made
  crossed,   \* history: the stamp's run had its source or parser replaced
  unseen,    \* history: a difference no diff and no reading shows
  commits, updates, faults

etc     == <<live, list, stamp>>
intent  == <<declared, recorded, source>>
history == <<missed, crossed, unseen>>
bounds  == <<commits, updates, faults>>
vars    == <<intent, etc, parser, daemon, conv, pushing, history, bounds>>

Runner == {"unit", "push"}
Active == {"begin", "compare", "check", "install", "restart", "stamp"}
Held   == Conf \cup {None, Stock, ByHand}
Mark   == [conf : Conf, parser : Parser]
Start  == [pc |-> "begin", conf |-> None, parser |-> Shipped,
           toggled |-> FALSE, crossed |-> FALSE]
Idle   == [Start EXCEPT !.pc = "idle"]

-----------------------------------------------------------------------------
(* Helpers.                                                                *)

Free(r) == conv[r].pc \notin Active

\* What a daemon that starts now is started on.
Loaded == [conf |-> live, bgp |-> list = "yes"]

\* Mutant: the stamp records the source alone.
MutWant(r) == conv[r].conf

\* What a run has found the stamp has to say.
Want(r) == [conf |-> conv[r].conf, parser |-> conv[r].parser]

\* A run has changed what the daemon reads, and not restarted it.
Wrote(r) == \/ conv[r].pc = "restart"
            \/ conv[r].pc \in {"compare", "check", "install"} /\ conv[r].toggled

\* A stamp stands, or another run is about to write one.
Vouched(r) == stamp # NoStamp \/ \E o \in Runner \ {r} : conv[o].pc = "stamp"

\* Runs under way whose source or parser has just been replaced.
Crossing(c) ==
  [r \in Runner |-> [c[r] EXCEPT
     !.crossed = @ \/ c[r].pc \in {"compare", "check", "install"}]]

\* Mutant: the line switched on is no reason to restart.
MutDone(r) == stamp = [conf |-> source, parser |-> conv[r].parser]
              /\ live = source

\* A run finds nothing to do.
Done(r) == ~conv[r].toggled
           /\ stamp = [conf |-> source, parser |-> conv[r].parser]
           /\ live = source

Goes(r, pc) == conv' = [conv EXCEPT ![r].pc = pc]
Ends(r, pc) == conv' = [conv EXCEPT ![r] = [Idle EXCEPT !.pc = pc]]

\* A command fails: `set -e`.
Stops(r) == /\ Ends(r, "failed")
            /\ missed' = (missed \/ (Wrote(r) /\ Vouched(r)))

Fault == faults < MaxFaults /\ faults' = faults + 1
         /\ UNCHANGED <<commits, updates>>
Update == updates < MaxUpdates /\ updates' = updates + 1
          /\ UNCHANGED <<commits, faults>>

-----------------------------------------------------------------------------
(* Mutants: what a slip in the code would make of a definition.  No        *)
(* behaviour of the specification takes one; each breaks a property below. *)

\* A run that has nothing to install fails.
MutBegins(r) ==
  /\ conv[r].pc = "begin"
  /\ IF source = None \/ list = "odd"
       THEN Ends(r, "failed") /\ UNCHANGED list
       ELSE /\ list' = "yes"
            /\ conv' = [conv EXCEPT ![r].pc = "compare", ![r].parser = parser,
                                    ![r].toggled = list = "no"]
  /\ UNCHANGED <<intent, live, stamp, parser, daemon, pushing, history, bounds>>

-----------------------------------------------------------------------------
(* The converger.                                                          *)

Init ==
  /\ \/ /\ declared = None /\ live = Stock /\ list = "no" /\ stamp = NoStamp
        /\ daemon = Down /\ conv = [r \in Runner |-> Idle]
     \/ \E c \in Conf :   \* from before
          /\ <<c, Shipped>> \notin Rejects
          /\ declared = c /\ live = c /\ list = "yes"
          /\ stamp = [conf |-> c, parser |-> Shipped]
          /\ daemon = [conf |-> c, bgp |-> TRUE]
          /\ conv = [r \in Runner |-> [Idle EXCEPT !.pc = "done"]]
  /\ recorded = declared /\ source = declared
  /\ parser = Shipped /\ pushing = FALSE
  /\ missed = FALSE /\ crossed = FALSE /\ unseen = FALSE
  /\ commits = 0 /\ updates = 0 /\ faults = 0

\* Up to the daemon list: no source is no work, the release and the parser
\* are read, the line is switched on, and has to be there.
Begins(r) ==
  /\ conv[r].pc = "begin"
  /\ \/ source = None /\ Ends(r, "done") /\ UNCHANGED list
     \/ source # None /\ list = "odd" /\ Ends(r, "failed") /\ UNCHANGED list
     \/ /\ source # None /\ list # "odd"
        /\ list' = "yes"
        /\ conv' = [conv EXCEPT ![r].pc = "compare", ![r].parser = parser,
                                ![r].toggled = list = "no"]
  /\ UNCHANGED <<intent, live, stamp, parser, daemon, pushing, history, bounds>>

Compares(r) ==
  /\ conv[r].pc = "compare"
  /\ source # None
  /\ IF Done(r) THEN Ends(r, "done") /\ unseen' = FALSE
                ELSE /\ conv' = [conv EXCEPT ![r].pc = "check", ![r].conf = source]
                     /\ UNCHANGED unseen
  /\ UNCHANGED <<intent, etc, parser, daemon, pushing, missed, crossed, bounds>>

\* `vtysh -C -f`, on the source as it is by now.
Checks(r) ==
  /\ conv[r].pc = "check"
  /\ source # None /\ <<source, parser>> \notin Rejects
  /\ Goes(r, "install")
  /\ UNCHANGED <<intent, etc, parser, daemon, pushing, history, bounds>>

Installs(r) ==
  /\ conv[r].pc = "install"
  /\ source # None
  /\ live' = source
  /\ conv' = [conv EXCEPT ![r].pc = "restart", ![r].toggled = FALSE]
  /\ UNCHANGED <<intent, list, stamp, parser, daemon, pushing, history, bounds>>

\* A source that was taken away meanwhile, or that the parser refuses.
Refuses(r) ==
  /\ \/ conv[r].pc \in {"compare", "check", "install"} /\ source = None
     \/ conv[r].pc = "check" /\ <<source, parser>> \in Rejects
  /\ Stops(r)
  /\ UNCHANGED <<intent, etc, parser, daemon, pushing, crossed, unseen, bounds>>

Restarts(r) ==
  /\ conv[r].pc = "restart"
  /\ daemon' = Loaded /\ missed' = FALSE
  /\ unseen' = (unseen /\ live # source)
  /\ Goes(r, "stamp")
  /\ UNCHANGED <<intent, etc, parser, pushing, crossed, bounds>>

Stamps(r) ==
  /\ conv[r].pc = "stamp"
  /\ stamp' = Want(r) /\ crossed' = conv[r].crossed
  /\ Ends(r, "done")
  /\ UNCHANGED <<intent, live, list, parser, daemon, pushing, missed, unseen, bounds>>

\* A command fails or the run is killed; a restart may have got anywhere.
Cut(r) ==
  /\ ~Free(r)
  /\ Fault
  /\ Stops(r)
  /\ daemon' \in IF conv[r].pc = "restart" THEN {daemon, Down, Loaded} ELSE {daemon}
  /\ UNCHANGED <<intent, etc, parser, pushing, crossed, unseen>>

-----------------------------------------------------------------------------
(* The deployment and the unit.                                            *)

\* A commit changes the configuration, or takes it out of the program.
Commit(c) ==
  /\ c # declared /\ ~pushing
  /\ commits < MaxCommits /\ commits' = commits + 1
  /\ declared' = c
  /\ UNCHANGED <<recorded, source, etc, parser, daemon, conv, pushing, history,
                 updates, faults>>

\* The file is written, or deleted after its unit, and its hook is run.
Push ==
  /\ ~pushing /\ Free("push")
  /\ recorded # declared \/ source # declared
  /\ declared = None => Free("unit")
  /\ source' = declared /\ pushing' = TRUE
  /\ conv' = [Crossing(conv) EXCEPT
       !["push"] = Start,
       !["unit"] = IF declared = None THEN Idle ELSE @]
  /\ UNCHANGED <<declared, recorded, etc, parser, daemon, history, bounds>>

\* A hook that exits 0 is what lets the engine record the file.
Pushed ==
  /\ pushing /\ Free("push")
  /\ pushing' = FALSE
  /\ IF conv["push"].pc = "done"
       THEN recorded' = declared /\ UNCHANGED unseen
       ELSE unseen' = (unseen \/ recorded = source) /\ UNCHANGED recorded
  /\ UNCHANGED <<declared, source, etc, parser, daemon, conv, missed, crossed, bounds>>

\* The transport gives the hook up, which goes on.
PushLost ==
  /\ pushing /\ ~Free("push")
  /\ Fault
  /\ pushing' = FALSE
  /\ unseen' = (unseen \/ recorded = source)
  /\ UNCHANGED <<intent, etc, parser, daemon, conv, missed, crossed>>

\* The unit is started where it is not active, and restarted where the daemon
\* is not running: `Wants=` starts the daemon first.
StartUnit ==
  /\ Free("unit")
  /\ IF conv["unit"].pc = "idle" THEN recorded # None
                                 ELSE daemon = Down \/ conv["unit"].pc = "failed"
  /\ conv' = [conv EXCEPT !["unit"] = Start]
  /\ daemon' = IF daemon = Down THEN Loaded ELSE daemon
  /\ missed' = (missed /\ daemon # Down)
  /\ UNCHANGED <<intent, etc, parser, pushing, crossed, unseen, bounds>>

-----------------------------------------------------------------------------
(* The device.                                                             *)

\* The device boots: nothing but the unit starts the daemon.
Boots ==
  /\ conv' = [r \in Runner |->
       IF r = "unit" /\ conv[r].pc # "idle" THEN Start ELSE Idle]
  /\ daemon' = IF conv["unit"].pc = "idle" THEN Down
                 ELSE [conf |-> live', bgp |-> list' = "yes"]
  /\ pushing' = FALSE /\ missed' = FALSE
  /\ UNCHANGED <<intent, crossed, unseen>>

PowerLost ==
  /\ Fault
  /\ UNCHANGED <<etc, parser>>
  /\ Boots

\* An update puts back what it ships of /etc, or carries it across.
Firmware(p) ==
  /\ Update
  /\ parser' = p
  /\ live' \in {live, Stock} /\ list' \in {list, "no", "odd"}
  /\ stamp' \in {stamp, NoStamp}
  /\ Boots

\* A parser installed beside the image.
Replace(p) ==
  /\ p # parser
  /\ Update
  /\ parser' = p /\ conv' = Crossing(conv)
  /\ UNCHANGED <<intent, etc, daemon, pushing, history>>

\* An operator configures the running daemon and has it write that out.
WriteOut ==
  /\ daemon # Down
  /\ Update
  /\ live' = ByHand /\ daemon' = [daemon EXCEPT !.conf = ByHand]
  /\ unseen' = TRUE
  /\ UNCHANGED <<intent, list, stamp, parser, conv, pushing, missed, crossed>>

Dies ==
  /\ daemon # Down
  /\ Fault
  /\ daemon' = Down
  /\ UNCHANGED <<intent, etc, parser, conv, pushing, history>>

-----------------------------------------------------------------------------
(* The specification.                                                      *)

Step(r) ==
  \/ Begins(r) \/ Compares(r) \/ Checks(r) \/ Installs(r)
  \/ Refuses(r) \/ Restarts(r) \/ Stamps(r)

Deploy == Push \/ Pushed

Next ==
  \/ \E r \in Runner : Step(r) \/ Cut(r)
  \/ Deploy \/ StartUnit
  \/ \E c \in Conf \cup {None} : Commit(c)
  \/ PushLost \/ PowerLost \/ WriteOut \/ Dies
  \/ \E p \in Parser : Firmware(p) \/ Replace(p)

Spec == Init /\ [][Next]_vars

\* A script that has begun goes on, deployments are run while there is
\* anything to do, and an operator follows the daily reading's playbooks.  A
\* unit started over and over does not hold off the deployment that retires it.
FairSpec ==
  /\ Spec
  /\ SF_vars(Push) /\ WF_vars(Pushed) /\ WF_vars(StartUnit)
  /\ \A r \in Runner : WF_vars(Step(r))

-----------------------------------------------------------------------------
(* Properties.                                                             *)

\* Every variable stays in its set.
TypeOK ==
  /\ declared \in Conf \cup {None} /\ recorded \in Conf \cup {None}
  /\ source \in Conf \cup {None}
  /\ live \in Held /\ list \in {"no", "yes", "odd"}
  /\ stamp \in Mark \cup {NoStamp} /\ parser \in Parser
  /\ daemon \in [conf : Held, bgp : BOOLEAN] \cup {Down}
  /\ conv \in [Runner -> [pc : Active \cup {"idle", "done", "failed"},
                          conf : Conf \cup {None}, parser : Parser,
                          toggled : BOOLEAN, crossed : BOOLEAN]]
  /\ pushing \in BOOLEAN
  /\ missed \in BOOLEAN /\ crossed \in BOOLEAN /\ unseen \in BOOLEAN
  /\ commits \in Nat /\ updates \in Nat /\ faults \in Nat

\* Where the next run would find nothing to do, a daemon that runs was started
\* on the declared configuration with the protocol on, and the device's parser
\* accepts it: "already done" is never said of a restart that was not made or
\* of a parser that never read the file (`frr-config.sh`), whatever an update
\* put back or carried across.  Exempt are a stamp that stood from before while
\* a run changed the files and never restarted (`missed`), and one whose source
\* or parser was replaced under the run that wrote it (`crossed`).
WouldSkip ==
  /\ source # None /\ list = "yes" /\ live = source
  /\ stamp = [conf |-> source, parser |-> parser]

Holds == daemon = [conf |-> source, bgp |-> TRUE]

QuietIsRunning ==
  WouldSkip /\ (\A r \in Runner : Free(r)) /\ ~missed /\ ~crossed
    => (daemon = Down \/ Holds) /\ <<source, parser>> \notin Rejects

\* Once commits, updates and faults are over, the daemon runs what is declared
\* and the state says so, unless the parser refuses it, the daemon list cannot
\* be read, or the difference is one nothing reads: an operator's own
\* configuration or a failed hook over recorded content, until the next boot,
\* and the stamp of a restart never made.
Landed == /\ recorded = declared /\ source = declared
          /\ declared # None => Holds

Refused == <<declared, parser>> \in Rejects \/ list = "odd"

Converges == <>[]Landed \/ <>[]Refused \/ <>[](missed \/ unseen)

=============================================================================
