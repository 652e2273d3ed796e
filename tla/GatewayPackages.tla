--------------------------- MODULE GatewayPackages ---------------------------
(***************************************************************************)
(* `10-packages.sh`: the boot-chain script that reinstalls, on the gateway, *)
(* the packages a firmware update wipes, and keeps an offline cache of      *)
(* their debs, resolved against the dpkg database the firmware shipped.     *)
(*                                                                         *)
(* Abstracted: a version is a number, and the archive holds every package  *)
(* at one version at a time.  A directory of debs is the version it holds  *)
(* of each package, 0 for none, and the release it was resolved against.   *)
(* apt's resolver is the least set of packages that meets the dependencies *)
(* of what it was asked for.  One script runs at a time, and nobody else   *)
(* installs anything.                                                      *)
(***************************************************************************)
EXTENDS Naturals, FiniteSets

CONSTANTS
  Package,      \* the set's packages and what they depend on
  Declared,     \* what the set holds at first
  Later,        \* what a later push adds to it
  Pins,         \* of each package, those it needs at its own version
  Needs,        \* of each package, those it needs at any version
  Firmware,     \* the releases the device can run, in order
  Ships,        \* of each release, the version it ships of each package
  None,         \* no release, no directory, no base
  MaxArchive,   \* bound: versions the archive publishes
  MaxUpdates,   \* bound: firmware updates
  MaxFaults     \* bound: runs cut short, commands failing on the device

Version == 0..MaxArchive
Debs    == [Package -> Version]
NoDebs  == [p \in Package |-> 0]
Dir     == [debs : Debs, of : Firmware \cup {None}]

ASSUME PackagesAssumption ==
  /\ Declared \subseteq Package /\ Declared # {} /\ Later \subseteq Package
  /\ Pins \in [Package -> SUBSET Package] /\ Needs \in [Package -> SUBSET Package]
  /\ Ships \in [Firmware -> Debs]
  /\ Firmware \subseteq Nat /\ Firmware # {}
  /\ None \notin Firmware \cup Debs \cup Dir
  /\ MaxArchive \in Nat \ {0} /\ MaxUpdates \in Nat /\ MaxFaults \in Nat

\* What the firmware may be, where more is said of it.

\* The firmware ships nothing of the set: its updates wipe that.
ShipsNoneOfTheSet ==
  \A f \in Firmware : \A p \in Declared \cup Later : Ships[f][p] = 0

\* What a firmware ships is whole by itself: each package with those it needs,
\* and those it pins at its own version, which do not go on without it.
ShipsWhole ==
  \A f \in Firmware : \A q \in Package : Ships[f][q] # 0 =>
    /\ \A r \in Needs[q] : Ships[f][r] # 0
    /\ \A r \in Pins[q] : Ships[f][r] = Ships[f][q] /\ q \in Pins[r]

VARIABLES
  \* The device under the firmware: lost in an update.
  release,   \* the firmware's
  live,      \* the version dpkg holds of each package, unpacked or installed
  up,        \* the packages it holds installed
  lists,     \* the archive's version as of the last `apt-get update` (0: none)
  \* On /data, which an update keeps.
  cache, new,    \* the directories $CACHE and $CACHE.new
  base, baseOf,  \* the saved database, and the release saved with it
  packages,      \* the set the delivered script names
  \* The run of the script.
  pc,
  mode,      \* "boot" or "refresh"
  download,  \* what $CACHE.download holds
  lost,      \* history: debs of the cache failed to reach what replaces it
  \* The world, the history and the bounds.
  archive, online, updates, faults,
  remade,    \* whether a deployment made the cache directory in a swap's gap
  missed,    \* whether a recording of the base failed
  short      \* whether the cache a run reads lacks debs of the download it was filled from

device  == <<release, live, up, lists>>
data    == <<cache, new, base, baseOf, packages>>
process == <<pc, mode, download, lost>>
world   == <<archive, online, updates, faults, remade, missed, short>>
vars    == <<device, data, process, world>>

Pc      == {"idle", "record", "stamp", "update", "install", "fallback",
            "refresh", "carry", "fill", "swap", "promote"}

TypeOK ==
  /\ release \in Firmware /\ live \in Debs /\ lists \in Version
  /\ up \subseteq {p \in Package : live[p] # 0}
  /\ cache \in Dir \cup {None} /\ new \in Dir \cup {None}
  /\ base \in Debs \cup {None} /\ baseOf \in Firmware \cup {None}
  /\ baseOf # None => base # None
  /\ packages \subseteq Package
  /\ pc \in Pc /\ mode \in {"boot", "refresh"} /\ download \in Debs
  /\ archive \in Version /\ updates \in 0..MaxUpdates /\ faults \in 0..MaxFaults
  /\ online \in BOOLEAN /\ remade \in BOOLEAN /\ missed \in BOOLEAN
  /\ lost \in BOOLEAN /\ short \in BOOLEAN

-----------------------------------------------------------------------------
(* Mutants: what a plausible mistake in a definition below would make it.  *)

\* Whatever finds none of the set takes the database for the firmware's.
MutNewRelease == TRUE
\* dpkg is handed everything the cache holds.
MutHeldBack(p) == FALSE
\* The swap cut short is left as it was found.
MutFound == <<cache, new>>
\* The refresh resolves against the running system.
MutResolvedAgainst == live
\* The new cache is not labelled with its base.
MutLabel == None

-----------------------------------------------------------------------------
(* apt and dpkg.                                                           *)

\* What of T dpkg can configure: what has its dependencies configured too.
Configured(v, T) ==
  UNION {S \in SUBSET {p \in T : v[p] # 0} :
           \A p \in S : /\ Needs[p] \cup Pins[p] \subseteq S
                        /\ \A q \in Pins[p] : v[q] = v[p]}

\* What apt, at version a, has to bring over a database holding v, for S.
Meets(v, a, P) ==
  \A p \in P : /\ \A q \in Pins[p] : v[q] # a => q \in P
               /\ \A q \in Needs[p] : v[q] = 0 => q \in P
Wanted(v, S, a) ==
  {p \in Package : \A P \in SUBSET Package : S \subseteq P /\ Meets(v, a, P) => p \in P}

\* apt takes no package down a version.
Resolvable(v, S, a) == a # 0 /\ \A p \in Wanted(v, S, a) : v[p] <= a

Fetched(v, S, a, again) ==
  [p \in Package |-> IF p \in Wanted(v, S, a) /\ (v[p] # a \/ p \in again)
                     THEN a ELSE 0]

\* The packages d holds a deb of, and d without any but those of S.
DebsOf(d)  == {p \in Package : d[p] # 0}
Only(d, S) == [p \in Package |-> IF p \in S THEN d[p] ELSE 0]

\* d over c: of each package the deb of d, where it holds one.
Over(d, c) == [p \in Package |-> IF d[p] # 0 THEN d[p] ELSE c[p]]

Installed(S)     == S \subseteq up
NoneInstalled(S) == S \cap up = {}

\* dpkg reached only some of what a run handed it, and configured none of that.
CutShort(d) ==
  \E S \in SUBSET DebsOf(d) :
    /\ live' = [p \in Package |-> IF p \in S THEN d[p] ELSE live[p]]
    /\ up' = up \ S

Fault == faults < MaxFaults /\ faults' = faults + 1

-----------------------------------------------------------------------------
(* Steps of a run.                                                         *)

Goto(p) == pc' = p
\* The trap takes the download directory with the run.
Exit == pc' = "idle" /\ mode' = "boot" /\ download' = NoDebs /\ lost' = FALSE

\* The cache a run begins on: the new half of a swap cut between its renames
\* is put in place first.
Found == IF cache = None /\ new # None THEN <<new, None>> ELSE <<cache, new>>
CacheDebs == IF cache = None THEN NoDebs ELSE cache.debs

\* A rename that fails leaves both as they are, and a run that goes on has no
\* cache.
Finds ==
  \/ cache' = Found[1] /\ new' = Found[2] /\ lost' = FALSE /\ UNCHANGED faults
  \/ /\ Found # <<cache, new>> /\ Fault
     /\ lost' = (pc' # "idle") /\ UNCHANGED <<cache, new>>

NewRelease == baseOf # release

BeginBoot ==
  /\ pc = "idle"
  /\ Goto(IF Installed(packages) THEN "idle"
          ELSE IF NoneInstalled(packages) /\ NewRelease THEN "record" ELSE "update")
  /\ mode' = "boot" /\ download' = NoDebs
  /\ Finds
  /\ UNCHANGED <<device, base, baseOf, packages, archive, online, updates, remade,
                 missed, short>>

BeginRefresh ==
  /\ pc = "idle"
  /\ Goto(IF Installed(packages) THEN "update" ELSE "idle")
  /\ mode' = IF Installed(packages) THEN "refresh" ELSE "boot"
  /\ download' = NoDebs
  /\ Finds
  /\ UNCHANGED <<device, base, baseOf, packages, archive, online, updates, remade,
                 missed, short>>

\* The base is the database before anything is installed; its release last.
RecordBase ==
  /\ pc = "record"
  /\ base' = live
  /\ Goto("stamp")
  /\ UNCHANGED <<device, cache, new, baseOf, packages, mode, download, lost, world>>

RecordRelease ==
  /\ pc = "stamp"
  /\ baseOf' = release
  /\ Goto("update")
  /\ UNCHANGED <<device, cache, new, base, packages, mode, download, lost, world>>

\* Mutant: the release is copied whether or not the database was.
MutRecordFails ==
  /\ pc \in {"record", "stamp"} /\ Fault
  /\ missed' = TRUE
  /\ Goto(IF pc = "record" THEN "stamp" ELSE "update")
  /\ UNCHANGED <<device, data, mode, download, lost, archive, online, updates, remade, short>>

\* Either copy fails, and the run goes on with the base as it is.
RecordFails ==
  /\ pc \in {"record", "stamp"} /\ Fault
  /\ missed' = TRUE
  /\ Goto("update")
  /\ UNCHANGED <<device, data, mode, download, lost, archive, online, updates, remade, short>>

AfterUpdate == Goto(IF mode = "boot" THEN "install" ELSE "refresh")

UpdateLists ==
  /\ pc = "update" /\ online
  /\ lists' = archive
  /\ AfterUpdate
  /\ UNCHANGED <<release, live, up, data, mode, download, lost, world>>

\* Its own failure stops nothing: the lists stay as they are.
UpdateFails ==
  /\ pc = "update" /\ ~online
  /\ AfterUpdate
  /\ UNCHANGED <<device, data, mode, download, lost, world>>

AptInstalls ==
  /\ pc = "install" /\ online /\ Resolvable(live, packages, lists)
  /\ download' = Fetched(live, packages, lists, {})
  /\ live' = Over(download', live)
  /\ up' = Configured(live', Package)
  /\ Goto("refresh")
  /\ UNCHANGED <<release, lists, data, mode, lost, world>>

\* apt fetched nothing, or a maintainer script failed half way through.
AptFails ==
  /\ pc = "install"
  /\ \/ ~(online /\ Resolvable(live, packages, lists)) /\ UNCHANGED <<live, up, faults>>
     \/ /\ online /\ Resolvable(live, packages, lists) /\ Fault
        /\ CutShort(Fetched(live, packages, lists, {}))
  /\ Goto("fallback")
  /\ UNCHANGED <<release, lists, data, mode, download, lost, archive, online, updates,
                 remade, missed, short>>

\* The firmware ships this package newer than the cache holds it.
HeldBack(p) == base # None /\ base[p] > CacheDebs[p]
Handed == [p \in Package |-> IF HeldBack(p) THEN 0 ELSE CacheDebs[p]]

\* One `dpkg -i` of the cache, which configures nothing it is not handed; what
\* cannot be configured is left unpacked.
Fallback ==
  /\ pc = "fallback"
  /\ live' = Over(Handed, live)
  /\ up' = Configured(live', up \cup {p \in Package : Handed[p] # 0})
  /\ Exit
  /\ UNCHANGED <<release, lists, data, world>>

\* The database a refresh resolves against, where a base was ever saved.
ResolvedAgainst == base

Reference == IF base # None THEN ResolvedAgainst ELSE live

DownloadSet ==
  /\ pc = "refresh" /\ online /\ Resolvable(Reference, packages, lists)
  /\ download' = IF base # None THEN Fetched(Reference, packages, lists, {})
                 ELSE Over(Fetched(Reference, packages, lists, packages), download)
  /\ Goto("carry")
  /\ UNCHANGED <<device, data, mode, lost, world>>

DownloadFails ==
  /\ pc = "refresh" /\ ~(online /\ Resolvable(Reference, packages, lists))
  /\ Exit
  /\ UNCHANGED <<device, data, world>>

Carried(p) == download[p] # 0

\* Without a base: what only the old cache holds is kept, at the version
\* installed where one is.
Kept(p) ==
  IF p \in up THEN live[p] ELSE CacheDebs[p]

\* Versions the cache does not hold are downloaded by name.
Fetching == {p \in Package : /\ base = None /\ ~Carried(p) /\ CacheDebs[p] # 0
                             /\ Kept(p) # CacheDebs[p]}

\* apt downloads by name only what its lists hold.
Fetchable == \A p \in Fetching : online /\ live[p] = lists

\* The old cache's debs that are copied, at the version it holds.
Copied == {p \in Package : /\ base = None /\ ~Carried(p) /\ CacheDebs[p] # 0
                           /\ p \notin Fetching}

\* The download with the old cache's debs beside it, but those not copied.
Beside(S) ==
  IF base # None THEN download
  ELSE [p \in Package |-> IF p \in S THEN 0
                          ELSE IF Carried(p) \/ CacheDebs[p] = 0 THEN download[p]
                          ELSE Kept(p)]

CarryOver ==
  /\ pc = "carry" /\ \A p \in packages : Carried(p)
  /\ Fetchable
  /\ download' = Beside({})
  /\ Goto("fill")
  /\ UNCHANGED <<device, data, mode, lost, world>>

\* A copy that fails stops nothing.
CarryLoses ==
  /\ pc = "carry" /\ \A p \in packages : Carried(p)
  /\ Fetchable
  /\ \E S \in SUBSET Copied : S # {} /\ download' = Beside(S)
  /\ Fault /\ lost' = TRUE
  /\ Goto("fill")
  /\ UNCHANGED <<device, data, mode, archive, online, updates, remade, missed, short>>

CarryRefuses ==
  /\ pc = "carry"
  /\ (\E p \in packages : ~Carried(p)) \/ ~Fetchable
  /\ Exit
  /\ UNCHANGED <<device, data, world>>

Label == IF base # None THEN baseOf ELSE None

\* $CACHE.new, from nothing: the debs, and then the release of the base.
Fill ==
  /\ pc = "fill"
  /\ new' = [debs |-> download, of |-> Label]
  /\ Goto("swap")
  /\ UNCHANGED <<device, cache, base, baseOf, packages, mode, download, lost, world>>

\* Without a base neither the making of the directory nor the move of the debs
\* is asked about, with one only the directory has to be there.
FillLoses ==
  /\ pc = "fill" /\ Fault
  /\ \/ Label = None /\ new' = None
     \/ \E S \in SUBSET DebsOf(download) :
          S # DebsOf(download) /\ new' = [debs |-> Only(download, S), of |-> Label]
  /\ lost' = TRUE /\ short' = (short \/ cache = None)
  /\ Goto("swap")
  /\ UNCHANGED <<device, cache, base, baseOf, packages, mode, download, archive, online,
                 updates, remade, missed>>

\* The copy of the release fails, as it does where there is no directory.
LabelFails ==
  /\ pc = "fill" /\ Label # None /\ Fault
  /\ new' = None
  /\ Exit
  /\ UNCHANGED <<device, cache, base, baseOf, packages, archive, online, updates, remade,
                 missed, short>>

\* The first rename: the old cache out of the way.
SwapOut ==
  /\ pc = "swap"
  /\ cache' = None
  /\ short' = (new # None /\ new.debs # download)
  /\ Goto("promote")
  /\ UNCHANGED <<device, new, base, baseOf, packages, mode, download, lost,
                 archive, online, updates, faults, remade, missed>>

\* It fails, and the run goes on to the second.
SwapFails ==
  /\ pc = "swap" /\ cache # None /\ Fault
  /\ Goto("promote")
  /\ UNCHANGED <<device, data, mode, download, lost, archive, online, updates, remade,
                 missed, short>>

\* The second: into a directory that is there, it lands inside it.
Promote ==
  /\ pc = "promote"
  /\ cache' = IF cache = None THEN new ELSE cache
  /\ new' = None
  /\ Exit
  /\ UNCHANGED <<device, base, baseOf, packages, world>>

PromoteFails ==
  /\ pc = "promote" /\ Fault
  /\ Exit
  /\ UNCHANGED <<device, data, archive, online, updates, remade, missed, short>>

-----------------------------------------------------------------------------
(* Around the runs.                                                        *)

\* A run is killed, or the power goes, before its next step or in it.
Cut ==
  /\ pc # "idle" /\ Fault
  /\ \/ pc = "install" /\ online /\ Resolvable(live, packages, lists)
        /\ CutShort(Fetched(live, packages, lists, {})) /\ UNCHANGED new
     \/ pc = "fallback" /\ CutShort(Handed) /\ UNCHANGED new
     \/ /\ pc = "fill" /\ UNCHANGED <<live, up>>
        /\ \E S \in SUBSET DebsOf(download) :
             new' = [debs |-> Only(download, S), of |-> None]
     \/ pc \notin {"install", "fallback", "fill"} /\ UNCHANGED <<live, up, new>>
  /\ Exit
  /\ UNCHANGED <<release, lists, cache, base, baseOf, packages, archive, online, updates,
                 remade, missed, short>>

\* A firmware update wipes what was installed, the records and the lists.  It
\* is to a later release, or puts the same one on again.
UpdateFirmware(f) ==
  /\ pc = "idle" /\ updates < MaxUpdates /\ f >= release
  /\ updates' = updates + 1
  /\ release' = f
  /\ live' = Ships[f] /\ up' = Configured(Ships[f], Package) /\ lists' = 0
  /\ UNCHANGED <<data, process, archive, online, faults, remade, missed, short>>

\* (Read when the lists are updated, so between runs is as good as in one.)
Publish ==
  /\ pc = "idle" /\ archive < MaxArchive
  /\ archive' = archive + 1
  /\ UNCHANGED <<device, data, process, online, updates, faults, remade, missed, short>>

Network ==
  /\ online' = ~online
  /\ UNCHANGED <<device, data, process, archive, updates, faults, remade, missed, short>>

\* A push grows the set; the script it lands runs as its own hook.
Grow ==
  /\ pc = "idle" /\ ~(Later \subseteq packages)
  /\ packages' = packages \cup Later
  /\ UNCHANGED <<device, cache, new, base, baseOf, process, world>>

\* A deployment finds the cache directory missing and makes it again, empty
\* (bound: once).
Redeploy ==
  /\ cache = None /\ ~remade
  /\ cache' = [debs |-> NoDebs, of |-> None]
  /\ remade' = TRUE
  /\ UNCHANGED <<device, new, base, baseOf, packages, process, archive, online, updates,
                 faults, missed, short>>

Init ==
  /\ release \in Firmware
  /\ live = Ships[release] /\ up = Configured(live, Package) /\ lists = 0
  /\ cache = [debs |-> NoDebs, of |-> None] /\ new = None
  /\ base = None /\ baseOf = None /\ packages = Declared
  /\ pc = "idle" /\ mode = "boot" /\ download = NoDebs
  /\ archive = 1 /\ online = TRUE /\ updates = 0 /\ faults = 0 /\ remade = FALSE
  /\ missed = FALSE /\ lost = FALSE /\ short = FALSE

Script ==
  \/ RecordBase \/ RecordRelease \/ RecordFails
  \/ UpdateLists \/ UpdateFails \/ AptInstalls \/ AptFails \/ Fallback
  \/ DownloadSet \/ DownloadFails \/ CarryOver \/ CarryLoses \/ CarryRefuses
  \/ Fill \/ FillLoses \/ LabelFails \/ SwapOut \/ SwapFails \/ Promote \/ PromoteFails

Next ==
  \/ BeginBoot \/ BeginRefresh \/ Script \/ Cut
  \/ \E f \in Firmware : UpdateFirmware(f)
  \/ Publish \/ Network \/ Grow \/ Redeploy

Spec == Init /\ [][Next]_vars

-----------------------------------------------------------------------------
(* `--check`, and properties.                                              *)

\* The directory the next run would read.
Readable == IF Found[1] = None THEN [debs |-> NoDebs, of |-> None] ELSE Found[1]

CheckPasses ==
  /\ \A p \in packages : Readable.debs[p] # 0
  /\ baseOf # None => Readable.of = baseOf

\* The device is rebooted while the set is not installed, and the operator
\* refreshes while the check finds a reason to.
FairSpec ==
  /\ Spec
  /\ WF_vars(Script)
  /\ WF_vars(~Installed(packages) /\ BeginBoot)
  /\ WF_vars(~CheckPasses /\ BeginRefresh)

\* A saved base is what some firmware shipped: neither the set nor what an
\* install cut short left behind is taken for the firmware's, unless the
\* recording failed on the one boot that could have made it.
BaseIsFirmwares == missed \/ base = None \/ \E f \in Firmware : base = Ships[f]

\* No run takes a package below the version the firmware ships it at, where
\* the base recorded is that firmware's.
NeverDowngrades ==
  [][\A p \in Package :
       baseOf = release /\ ~missed /\ release' = release /\ live'[p] < live[p]
         => live'[p] >= Ships[release][p]]_vars

\* What an offline boot makes of the cache, after an update to the release it
\* runs already.
OfflineBoot ==
  LET c == Readable.debs
      s == Ships[release]
  IN  Configured(Over([p \in Package |-> IF s[p] > c[p] THEN 0 ELSE c[p]], s), Package)

\* Where the check finds nothing to say, and the base is the running
\* firmware's, the cache carries an offline boot of that firmware, unless the
\* run that filled it went on over a command that lost debs.
CheckCarries ==
  CheckPasses /\ baseOf = release /\ ~missed /\ ~short => packages \subseteq OfflineBoot

\* A package of the set the cache holds is never without a deb again, whatever
\* is cut short; with no base yet, nor is anything else the cache holds.  Exempt
\* is what a run does after a command the script does not ask about lost debs:
\* a copy, the making of the directory, a move, or the rename that completes
\* a swap cut short.
KeepsDebs ==
  \A p \in Package :
    (p \in packages \/ base = None) /\ Readable.debs[p] # 0 => Readable'.debs[p] # 0
CacheKept == [][remade' \/ lost \/ KeepsDebs]_vars

\* With the archive reachable in the end, the set is installed and the cache
\* is one the check has nothing to say of, unless the archive's version is
\* behind what the firmware ships, or a recording of the base failed.
Behind == \E p \in Package : Ships[release][p] > archive \/ (base # None /\ base[p] > archive)
Settles ==
  <>[]online => <>[](Installed(packages) /\ CheckPasses) \/ <>[](Behind \/ missed)
=============================================================================
