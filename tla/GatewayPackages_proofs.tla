----------------------- MODULE GatewayPackages_proofs -----------------------
(***************************************************************************)
(* For any packages, dependencies, releases and archive: the types, and    *)
(* that no step leaves a cached package without a deb, but those of a run  *)
(* that went on over a command the script does not ask about.  Where the   *)
(* firmware ships none of the set, which is why the script is there: that a*)
(* base saved is the firmware's, and no package taken below it.  And where *)
(* besides what a firmware ships is whole by itself: that a cache the check*)
(* passes carries an offline boot.                                         *)
(***************************************************************************)
EXTENDS GatewayPackages, TLAPS

\* What a run that lost nothing has prepared, by where it is.  Before the swap
\* it found the cache there is; in the swap there is a successor.
Prepared ==
  /\ ~lost /\ pc \notin {"idle", "swap", "promote"} => cache # None \/ new = None
  /\ ~lost /\ pc \in {"swap", "promote"} => new # None
  /\ pc = "stamp" => base # None

IInv == TypeOK /\ Prepared

\* What is about to replace the cache holds a deb of each package of the set,
\* and without a base one of all that the cache holds, where no command lost one.
Succeeds(d) ==
  \A p \in Package :
    p \in packages \/ (base = None /\ CacheDebs[p] # 0) => d[p] # 0
Swapped ==
  /\ ~lost /\ pc = "fill" => Succeeds(download)
  /\ ~lost /\ pc = "swap" => Succeeds(new.debs)

\* What the record of the base says, as long as each recording succeeded: of
\* the running release, its database; of an earlier one, that nothing was
\* installed since the update.
Recorded ==
  /\ Declared \subseteq packages /\ packages \subseteq Declared \cup Later
  /\ baseOf # None => baseOf <= release
  /\ pc \in {"record", "stamp"} => baseOf # release
  /\ ~missed =>
       /\ baseOf = release => base = Ships[release]
       /\ baseOf # release => live = Ships[release] /\ pc \in {"idle", "record", "stamp"}
       /\ pc = "stamp" => base = Ships[release]
       /\ base = None \/ \E f \in Firmware : base = Ships[f]

\* A resolution of some set against what release f ships.
Resolved(d, f) ==
  \E S \in SUBSET Package : \E a \in Version :
    Resolvable(Ships[f], S, a) /\ d = Fetched(Ships[f], S, a, {})

\* What is labelled with a release, or about to be, is resolved against it, but
\* for what was filled with less than the download.
Labelled ==
  ~missed =>
    /\ ~short /\ cache # None /\ cache.of # None => Resolved(cache.debs, cache.of)
    /\ ~short /\ cache = None /\ new # None /\ new.of # None => Resolved(new.debs, new.of)
    /\ pc \in {"carry", "fill", "swap"} /\ base # None => Resolved(download, release)
    /\ pc = "swap" /\ new # None /\ new.of # None => base # None /\ new.of = release

-----------------------------------------------------------------------------
(* Directories of debs, and apt.                                           *)

LEMMA OverType ==
  ASSUME NEW d \in Debs, NEW c \in Debs
  PROVE  /\ Over(d, c) \in Debs
         /\ \A p \in Package : Over(d, c)[p] = IF d[p] # 0 THEN d[p] ELSE c[p]
BY DEF Over, Debs

LEMMA FetchedType ==
  ASSUME NEW v \in Debs, NEW S, NEW a \in Version, NEW again
  PROVE  /\ Fetched(v, S, a, again) \in Debs
         /\ \A p \in Package : Fetched(v, S, a, again)[p] =
              IF p \in Wanted(v, S, a) /\ (v[p] # a \/ p \in again) THEN a ELSE 0
<1>1. 0 \in Version /\ a \in Version
  BY PackagesAssumption DEF Version
<1> HIDE DEF Wanted
<1> QED  BY <1>1 DEF Fetched, Debs

LEMMA FetchedBare ==
  ASSUME NEW v, NEW S, NEW a, NEW p \in Package
  PROVE  Fetched(v, S, a, {})[p] = IF p \in Wanted(v, S, a) /\ v[p] # a THEN a ELSE 0
BY DEF Fetched

LEMMA ConfiguredUnpacked ==
  ASSUME NEW v, NEW T
  PROVE  Configured(v, T) \subseteq {p \in T : v[p] # 0}
BY DEF Configured

\* A set of packages dpkg can configure together, it configures.
LEMMA ConfiguredHolds ==
  ASSUME NEW v, NEW T, NEW S \in SUBSET {p \in T : v[p] # 0},
         \A p \in S : /\ Needs[p] \cup Pins[p] \subseteq S
                      /\ \A q \in Pins[p] : v[q] = v[p]
  PROVE  S \subseteq Configured(v, T)
<1> DEFINE R == {Q \in SUBSET {p \in T : v[p] # 0} :
                   \A p \in Q : /\ Needs[p] \cup Pins[p] \subseteq Q
                                /\ \A q \in Pins[p] : v[q] = v[p]}
<1>1. S \in R
  OBVIOUS
<1>2. Configured(v, T) = UNION R
  BY DEF Configured
<1> HIDE DEF R
<1>3. S \subseteq UNION R
  BY <1>1, Zenon
<1> QED  BY <1>2, <1>3

\* What apt has to bring is closed under what it brings.
LEMMA WantedCloses ==
  ASSUME NEW v \in Debs, NEW S \in SUBSET Package, NEW a \in Version
  PROVE  /\ S \subseteq Wanted(v, S, a) /\ Wanted(v, S, a) \subseteq Package
         /\ Meets(v, a, Wanted(v, S, a))
<1>1. \A p \in Package : p \in Wanted(v, S, a)
        <=> \A P \in SUBSET Package : S \subseteq P /\ Meets(v, a, P) => p \in P
  BY DEF Wanted
<1>2. S \subseteq Wanted(v, S, a) /\ Wanted(v, S, a) \subseteq Package
  <2>1. Wanted(v, S, a) \subseteq Package
    BY DEF Wanted
  <2> HIDE DEF Wanted
  <2> QED  BY <1>1, <2>1
<1> HIDE DEF Wanted
<1>3. ASSUME NEW p \in Wanted(v, S, a), NEW q \in Pins[p], v[q] # a
      PROVE  q \in Wanted(v, S, a)
  <2>1. q \in Package
    BY <1>2, <1>3, PackagesAssumption
  <2>2. ASSUME NEW P \in SUBSET Package, S \subseteq P, Meets(v, a, P)
        PROVE  q \in P
    <3>1. p \in P
      BY <1>1, <1>2, <2>2
    <3> QED  BY <1>3, <2>2, <3>1 DEF Meets
  <2> QED  BY <1>1, <2>1, <2>2
<1>4. ASSUME NEW p \in Wanted(v, S, a), NEW q \in Needs[p], v[q] = 0
      PROVE  q \in Wanted(v, S, a)
  <2>1. q \in Package
    BY <1>2, <1>4, PackagesAssumption
  <2>2. ASSUME NEW P \in SUBSET Package, S \subseteq P, Meets(v, a, P)
        PROVE  q \in P
    <3>1. p \in P
      BY <1>1, <1>2, <2>2
    <3> QED  BY <1>4, <2>2, <3>1 DEF Meets
  <2> QED  BY <1>1, <2>1, <2>2
<1> QED  BY <1>2, <1>3, <1>4 DEF Meets

LEMMA CacheType ==
  ASSUME TypeOK
  PROVE  /\ CacheDebs \in Debs /\ Handed \in Debs /\ NoDebs \in Debs
         /\ \A p \in Package : Handed[p] = IF HeldBack(p) THEN 0 ELSE CacheDebs[p]
<1>1. 0 \in Version
  BY PackagesAssumption DEF Version
<1>2. NoDebs \in Debs
  BY <1>1 DEF NoDebs, Debs
<1>3. CacheDebs \in Debs
  BY <1>2 DEF CacheDebs, TypeOK, Dir
<1> HIDE DEF CacheDebs
<1> QED  BY <1>1, <1>2, <1>3 DEF Handed, Debs

LEMMA CutShortType ==
  ASSUME TypeOK, NEW d \in Debs, CutShort(d)
  PROVE  /\ live' \in Debs /\ up' \subseteq {p \in Package : live'[p] # 0}
         /\ \A p \in Package : live'[p] = live[p] \/ (d[p] # 0 /\ live'[p] = d[p])
<1>1. PICK S \in SUBSET {p \in Package : d[p] # 0} :
        /\ live' = [p \in Package |-> IF p \in S THEN d[p] ELSE live[p]]
        /\ up' = up \ S
  BY DEF CutShort, DebsOf
<1>2. live \in Debs /\ up \subseteq {p \in Package : live[p] # 0}
  BY DEF TypeOK
<1> QED  BY <1>1, <1>2 DEF Debs

-----------------------------------------------------------------------------
(* Which step writes what.                                                 *)

LEMMA WritesDevice ==
  ASSUME Next
  PROVE  /\ UNCHANGED release \/ \E f \in Firmware : UpdateFirmware(f)
         /\ \/ UNCHANGED <<live, up>>
            \/ AptInstalls \/ Fallback
            \/ pc = "install" /\ CutShort(Fetched(live, packages, lists, {}))
            \/ pc = "fallback" /\ CutShort(Handed)
            \/ \E f \in Firmware : UpdateFirmware(f)
         /\ UNCHANGED lists \/ UpdateLists \/ \E f \in Firmware : UpdateFirmware(f)
BY DEF Next, BeginBoot, BeginRefresh, Script, RecordBase, RecordRelease, RecordFails,
   UpdateLists, UpdateFails, AptInstalls, AptFails, Fallback, DownloadSet, DownloadFails,
   CarryOver, CarryLoses, CarryRefuses, Fill, FillLoses, LabelFails, SwapOut, SwapFails,
   Promote, PromoteFails, Cut, Publish, Network,
   Grow, Redeploy, UpdateFirmware, device, data, world

\* What a run finds, where it begins.
LEMMA FindsOrNot ==
  ASSUME Finds
  PROVE  \/ cache' = Found[1] /\ new' = Found[2] /\ lost' = FALSE
         \/ UNCHANGED <<cache, new>> /\ lost' = (pc' # "idle")
BY DEF Finds

LEMMA WritesData ==
  ASSUME Next
  PROVE  /\ \/ UNCHANGED cache
            \/ BeginBoot \/ BeginRefresh \/ SwapOut \/ Promote \/ Redeploy
         /\ \/ UNCHANGED new
            \/ BeginBoot \/ BeginRefresh \/ Fill \/ FillLoses \/ LabelFails \/ Promote
            \/ (Cut /\ pc = "fill")
         /\ UNCHANGED base \/ RecordBase
         /\ UNCHANGED baseOf \/ RecordRelease
         /\ UNCHANGED packages \/ Grow
         /\ \/ UNCHANGED <<pc, mode>> \/ BeginBoot \/ BeginRefresh \/ Script \/ Cut
         /\ \/ UNCHANGED download
            \/ AptInstalls \/ DownloadSet \/ CarryOver \/ CarryLoses \/ download' = NoDebs
         /\ \/ UNCHANGED lost
            \/ BeginBoot \/ BeginRefresh \/ CarryLoses \/ FillLoses \/ (lost' = FALSE /\ pc' = "idle")
         /\ UNCHANGED short \/ FillLoses \/ SwapOut
         /\ UNCHANGED remade \/ Redeploy
         /\ UNCHANGED missed \/ RecordFails
         /\ faults' = faults \/ Fault
         /\ UNCHANGED archive \/ Publish
         /\ UNCHANGED online \/ Network
         /\ UNCHANGED updates \/ \E f \in Firmware : UpdateFirmware(f)
BY DEF Next, BeginBoot, BeginRefresh, Script, RecordBase, RecordRelease, RecordFails,
   UpdateLists, UpdateFails, AptInstalls, AptFails, Fallback, DownloadSet, DownloadFails,
   CarryOver, CarryLoses, CarryRefuses, Fill, FillLoses, LabelFails, SwapOut, SwapFails,
   Promote, PromoteFails, Cut, Publish, Network,
   Grow, Redeploy, UpdateFirmware, Exit, Finds, device, data, process, world

-----------------------------------------------------------------------------
(* The types.                                                              *)

LEMMA DeviceType ==
  ASSUME TypeOK, Next
  PROVE  (release \in Firmware /\ live \in Debs /\ lists \in Version
          /\ up \subseteq {p \in Package : live[p] # 0})'
<1>0. /\ release \in Firmware /\ live \in Debs /\ lists \in Version
      /\ up \subseteq {p \in Package : live[p] # 0} /\ packages \in SUBSET Package
      /\ archive \in Version /\ 0 \in Version
      /\ \A f \in Firmware : Ships[f] \in Debs
  BY PackagesAssumption DEF TypeOK, Version, Debs
<1>1. CASE \E f \in Firmware : UpdateFirmware(f)
  BY <1>0, <1>1, ConfiguredUnpacked DEF UpdateFirmware
<1>2. CASE ~\E f \in Firmware : UpdateFirmware(f)
  <2>1. release' \in Firmware /\ lists' \in Version
    BY <1>0, <1>2, WritesDevice DEF UpdateLists
  <2>2. CASE AptInstalls
    <3>1. /\ download' \in Debs /\ live' = Over(download', live)
          /\ up' = Configured(live', Package)
      BY <1>0, <2>2, FetchedType DEF AptInstalls
    <3> QED  BY <1>0, <2>1, <3>1, OverType, ConfiguredUnpacked
  <2>3. CASE Fallback
    <3>1. /\ live' = Over(Handed, live) /\ Handed \in Debs
          /\ up' = Configured(live', up \cup {p \in Package : Handed[p] # 0})
      BY <2>3, CacheType DEF Fallback
    <3>2. up \cup {p \in Package : Handed[p] # 0} \subseteq Package
      BY <1>0
    <3> HIDE DEF Handed
    <3>3. live' \in Debs
      BY <1>0, <3>1, OverType
    <3>4. up' \subseteq {p \in up \cup {p \in Package : Handed[p] # 0} : live'[p] # 0}
      BY <3>1, ConfiguredUnpacked
    <3> QED  BY <2>1, <3>2, <3>3, <3>4
  <2>4. CASE CutShort(Fetched(live, packages, lists, {}))
    <3> DEFINE d == Fetched(live, packages, lists, {})
    <3>1. d \in Debs /\ CutShort(d)
      BY <1>0, <2>4, FetchedType
    <3> HIDE DEF d
    <3> QED  BY <2>1, <3>1, CutShortType
  <2>5. CASE CutShort(Handed)
    BY <2>1, <2>5, CacheType, CutShortType
  <2>6. CASE UNCHANGED <<live, up>>
    BY <1>0, <2>1, <2>6
  <2> QED  BY <1>2, <2>2, <2>3, <2>4, <2>5, <2>6, WritesDevice
<1> QED  BY <1>1, <1>2

LEMMA BesideType ==
  ASSUME TypeOK, NEW S
  PROVE  Beside(S) \in Debs
<1>0. download \in Debs /\ live \in Debs /\ CacheDebs \in Debs /\ 0 \in Version
  BY CacheType, PackagesAssumption DEF TypeOK, Version
<1> HIDE DEF CacheDebs
<1>1. \A p \in Package : Kept(p) \in Version
  BY <1>0 DEF Kept, Debs
<1> HIDE DEF Kept, Carried
<1> QED  BY <1>0, <1>1 DEF Beside, Debs

LEMMA OnlyType ==
  ASSUME TypeOK, NEW S
  PROVE  Only(download, S) \in Debs
BY PackagesAssumption DEF TypeOK, Only, Debs, Version

LEMMA LabelType ==
  ASSUME TypeOK
  PROVE  Label \in Firmware \cup {None}
BY DEF TypeOK, Label

LEMMA DownloadType ==
  ASSUME TypeOK, Next
  PROVE  (download \in Debs)'
<1>0. /\ download \in Debs /\ live \in Debs /\ packages \in SUBSET Package /\ lists \in Version
      /\ (base # None => base \in Debs)
  BY DEF TypeOK
<1>1. CASE AptInstalls
  BY <1>0, <1>1, FetchedType DEF AptInstalls
<1>2. CASE DownloadSet
  <2>1. Reference \in Debs
    BY <1>0 DEF Reference, ResolvedAgainst
  <2> HIDE DEF Reference
  <2>2. /\ Fetched(Reference, packages, lists, {}) \in Debs
        /\ Fetched(Reference, packages, lists, packages) \in Debs
    BY <1>0, <2>1, FetchedType
  <2> QED  BY <1>0, <1>2, <2>2, OverType DEF DownloadSet
<1>3. CASE CarryOver \/ CarryLoses
  <2>1. PICK S : download' = Beside(S)
    BY <1>3 DEF CarryOver, CarryLoses
  <2> QED  BY <1>0, <2>1, BesideType
<1>4. CASE download' = NoDebs
  BY <1>4, CacheType
<1> QED  BY <1>0, <1>1, <1>2, <1>3, <1>4, WritesData

LEMMA FoundType ==
  ASSUME TypeOK
  PROVE  /\ Found[1] \in Dir \cup {None} /\ Found[2] \in Dir \cup {None}
         /\ Found[1] = (IF cache = None THEN new ELSE cache)
         /\ Found[2] = (IF cache = None THEN None ELSE new)
BY DEF Found, TypeOK

LEMMA DirsType ==
  ASSUME TypeOK, Next
  PROVE  (cache \in Dir \cup {None} /\ new \in Dir \cup {None})'
<1>0. cache \in Dir \cup {None} /\ new \in Dir \cup {None} /\ download \in Debs
  BY DEF TypeOK
<1>1. CASE BeginBoot \/ BeginRefresh
  <2>1. Finds
    BY <1>1 DEF BeginBoot, BeginRefresh
  <2> QED  BY <1>0, <2>1, FindsOrNot, FoundType
<1>2. CASE Fill \/ FillLoses \/ LabelFails \/ (Cut /\ pc = "fill")
  <2>1. cache' = cache
    BY <1>2 DEF Fill, FillLoses, LabelFails, Cut
  <2>2. \/ new' = None \/ new' = [debs |-> download, of |-> Label]
        \/ \E S : new' = [debs |-> Only(download, S), of |-> Label]
        \/ \E S : new' = [debs |-> Only(download, S), of |-> None]
    BY <1>2 DEF Fill, FillLoses, LabelFails, Cut
  <2>3. Label \in Firmware \cup {None} /\ \A S : Only(download, S) \in Debs
    BY LabelType, OnlyType
  <2> HIDE DEF Label, Only
  <2> QED  BY <1>0, <2>1, <2>2, <2>3 DEF Dir
<1>3. CASE SwapOut \/ Promote
  BY <1>0, <1>3 DEF SwapOut, Promote
<1>4. CASE Redeploy
  BY <1>0, <1>4, CacheType DEF Redeploy, Dir
<1> QED  BY <1>0, <1>1, <1>2, <1>3, <1>4, WritesData

LEMMA TypeStep ==
  ASSUME TypeOK, Prepared, Next
  PROVE  TypeOK'
<1>1. (base \in Debs \cup {None} /\ baseOf \in Firmware \cup {None}
       /\ (baseOf # None => base # None))'
  <2>1. base' \in Debs \cup {None}
    BY WritesData DEF RecordBase, TypeOK
  <2>2. baseOf' \in Firmware \cup {None}
    BY WritesData DEF RecordRelease, TypeOK
  <2>3. CASE RecordBase
    <3>1. live \in Debs /\ base' = live /\ None \notin Debs
      BY <2>3, PackagesAssumption DEF RecordBase, TypeOK
    <3> QED  BY <2>1, <2>2, <3>1
  <2>4. CASE RecordRelease
    BY <2>1, <2>2, <2>4 DEF RecordRelease, Prepared
  <2> QED  BY <2>1, <2>2, <2>3, <2>4, WritesData DEF TypeOK
<1>2. (packages \subseteq Package)'
  BY WritesData, PackagesAssumption DEF Grow, TypeOK
<1>3. (pc \in Pc /\ mode \in {"boot", "refresh"})'
  <2>1. CASE UNCHANGED <<pc, mode>>
    BY <2>1 DEF TypeOK
  <2>2. CASE BeginBoot \/ BeginRefresh \/ Cut
    BY <2>2 DEF BeginBoot, BeginRefresh, Cut, Exit, Goto, Pc
  <2>3. CASE Script
    BY <2>3 DEF Script, RecordBase, RecordRelease, RecordFails,
       UpdateLists, UpdateFails, AptInstalls, AptFails, Fallback, DownloadSet, DownloadFails,
       CarryOver, CarryLoses, CarryRefuses, Fill, FillLoses, LabelFails, SwapOut, SwapFails,
   Promote, PromoteFails, Exit, Goto, AfterUpdate, Pc,
       TypeOK
  <2> QED  BY <2>1, <2>2, <2>3, WritesData
<1>4. (archive \in Version /\ updates \in 0..MaxUpdates /\ faults \in 0..MaxFaults)'
  BY WritesData, PackagesAssumption DEF Publish, UpdateFirmware, Fault, TypeOK, Version
<1>5. (online \in BOOLEAN)'
  BY WritesData DEF Network, TypeOK
<1>6. (remade \in BOOLEAN)'
  BY WritesData DEF Redeploy, TypeOK
<1>7. (missed \in BOOLEAN)'
  BY WritesData DEF RecordFails, TypeOK
<1>8. (lost \in BOOLEAN /\ short \in BOOLEAN)'
  <2>1. (BeginBoot \/ BeginRefresh) => lost' \in BOOLEAN
    BY FindsOrNot DEF BeginBoot, BeginRefresh
  <2> QED  BY <2>1, WritesData DEF CarryLoses, FillLoses, SwapOut, TypeOK
<1> QED  BY <1>1, <1>2, <1>3, <1>4, <1>5, <1>6, <1>7, <1>8, DeviceType, DownloadType, DirsType DEF TypeOK

\* Where a step of the script leads.
LEMMA ScriptGoes ==
  ASSUME TypeOK, Next
  PROVE  /\ pc' = "stamp" => pc = "stamp" \/ RecordBase
         /\ pc' = "fill" => pc = "fill" \/ CarryOver \/ CarryLoses
         /\ pc' = "swap" => pc = "swap" \/ Fill \/ FillLoses
         /\ pc' = "promote" => pc = "promote" \/ SwapOut \/ SwapFails
         /\ pc' = "record" => pc = "record" \/ BeginBoot
         /\ pc' = "carry" => pc = "carry" \/ DownloadSet
         /\ pc' \notin {"idle", "swap", "promote"}
              => pc \notin {"idle", "swap", "promote"} \/ BeginBoot \/ BeginRefresh
         /\ pc = "promote" => pc' = "promote" \/ pc' = "idle"
BY DEF Next, BeginBoot, BeginRefresh, Script, RecordBase, RecordRelease, RecordFails,
   UpdateLists, UpdateFails, AptInstalls, AptFails, Fallback, DownloadSet, DownloadFails,
   CarryOver, CarryLoses, CarryRefuses, Fill, FillLoses, LabelFails, SwapOut, SwapFails,
   Promote, PromoteFails, Cut, Publish, Network,
   Grow, Redeploy, UpdateFirmware, Exit, Goto, AfterUpdate, process

LEMMA PreparedStep ==
  ASSUME TypeOK, Prepared, Next
  PROVE  Prepared'
<1>0. None \notin Dir /\ None \notin Debs
  BY PackagesAssumption
<1>1. ~lost' /\ pc' \notin {"idle", "swap", "promote"} => cache' # None \/ new' = None
  <2> SUFFICES ASSUME ~lost', pc' \notin {"idle", "swap", "promote"}
               PROVE  cache' # None \/ new' = None
    OBVIOUS
  <2>1. CASE BeginBoot \/ BeginRefresh
    <3>1. cache' = Found[1] /\ new' = Found[2]
      BY <2>1, FindsOrNot DEF BeginBoot, BeginRefresh
    <3> QED  BY <3>1, FoundType
  <2>2. CASE Redeploy
    BY <1>0, <2>2, CacheType DEF Redeploy, Dir
  <2>3. CASE ~BeginBoot /\ ~BeginRefresh /\ ~Redeploy
    <3>1. pc \notin {"idle", "swap", "promote"}
      BY <2>3, ScriptGoes
    <3>2. UNCHANGED cache
      BY <2>3, <3>1, WritesData DEF SwapOut, Promote
    <3>3. UNCHANGED new
      BY <2>3, <3>1, WritesData DEF Fill, FillLoses, LabelFails, Promote, Cut, Exit, Goto
    <3>4. ~lost
      BY <2>3, WritesData DEF CarryLoses, FillLoses
    <3> QED  BY <3>1, <3>2, <3>3, <3>4 DEF Prepared
  <2> QED  BY <2>1, <2>2, <2>3
<1>2. ~lost' /\ pc' \in {"swap", "promote"} => new' # None
  <2> SUFFICES ASSUME ~lost', pc' \in {"swap", "promote"} PROVE new' # None
    OBVIOUS
  <2>1. CASE Fill
    BY <1>0, <2>1, LabelType DEF Fill, Dir, TypeOK
  <2>2. CASE ~Fill
    <3>1. ~FillLoses
      BY DEF FillLoses
    <3>2. pc \in {"swap", "promote"}
      BY <2>2, <3>1, ScriptGoes DEF SwapOut, SwapFails
    <3>3. ~lost
      BY <3>1, <3>2, WritesData DEF BeginBoot, BeginRefresh, CarryLoses
    <3>4. UNCHANGED new
      BY <2>2, <3>1, <3>2, WritesData DEF BeginBoot, BeginRefresh, LabelFails, Promote, Exit
    <3> QED  BY <3>2, <3>3, <3>4 DEF Prepared
  <2> QED  BY <2>1, <2>2
<1>3. pc' = "stamp" => base' # None
  <2>1. CASE RecordBase
    BY <1>0, <2>1 DEF RecordBase, TypeOK
  <2>2. CASE ~RecordBase
    BY <2>2, ScriptGoes, WritesData DEF Prepared
  <2> QED  BY <2>1, <2>2
<1> QED  BY <1>1, <1>2, <1>3 DEF Prepared

LEMMA InitBase == Init => IInv
<1> SUFFICES ASSUME Init PROVE IInv
  OBVIOUS
<1>0. /\ 0 \in Version /\ NoDebs \in Debs /\ [debs |-> NoDebs, of |-> None] \in Dir
      /\ None \notin Dir /\ Ships[release] \in Debs
  BY PackagesAssumption DEF Init, Version, NoDebs, Debs, Dir
<1>1. live \in Debs /\ up \subseteq {p \in Package : live[p] # 0}
  BY <1>0, ConfiguredUnpacked DEF Init
<1>2. /\ online \in BOOLEAN /\ remade \in BOOLEAN /\ missed \in BOOLEAN
      /\ lost \in BOOLEAN /\ short \in BOOLEAN
  BY DEF Init
<1>3. TypeOK
  BY <1>0, <1>1, <1>2, PackagesAssumption DEF Init, TypeOK, Version, Pc
<1> QED  BY <1>3 DEF IInv, Init, Prepared

LEMMA BaseStep ==
  ASSUME IInv, [Next]_vars
  PROVE  IInv'
<1>1. CASE Next
  BY <1>1, TypeStep, PreparedStep DEF IInv
<1>2. CASE UNCHANGED vars
  <2>1. TypeOK'
    BY <1>2 DEF vars, device, data, process, world, IInv, TypeOK
  <2>2. Prepared'
    BY <1>2 DEF vars, device, data, process, world, IInv, Prepared
  <2> QED  BY <2>1, <2>2 DEF IInv
<1> QED  BY <1>1, <1>2

\* Over every step of the script, cut short wherever it is, and of what goes on
\* around it: every value stays of its kind, what is installed is unpacked, and
\* no release is on record without the database that was recorded with it.
THEOREM TypeCorrect == Spec => []TypeOK
<1>1. IInv /\ [Next]_vars => IInv'
  BY BaseStep
<1>2. IInv => TypeOK
  BY DEF IInv
<1> QED  BY <1>1, <1>2, InitBase, PTL DEF Spec

-----------------------------------------------------------------------------
(* The cache.                                                              *)

\* What the run is about to put in the cache's place stays a successor of it.
LEMMA SwappedStep ==
  ASSUME IInv, Swapped, Next
  PROVE  Swapped'
<1>0. /\ TypeOK /\ Prepared /\ download \in Debs /\ live \in Debs /\ None \notin Dir
      /\ up \subseteq {p \in Package : live[p] # 0}
  BY PackagesAssumption DEF IInv, TypeOK
<1>1. Redeploy => CacheDebs' = CacheDebs
  BY <1>0, CacheType DEF Redeploy, CacheDebs, Dir
<1>2. ~lost' /\ pc' = "fill" => Succeeds(download)'
  <2>1. CASE CarryOver
    <3>1. /\ UNCHANGED <<cache, base, packages>> /\ \A p \in packages : download[p] # 0
          /\ download' = Beside({})
      BY <2>1 DEF CarryOver, Carried, data
    <3>2. CacheDebs' = CacheDebs
      BY <3>1 DEF CacheDebs
    <3>3. \A p \in Package : CacheDebs[p] # 0 => Kept(p) # 0
      BY <1>0 DEF Kept
    <3> HIDE DEF CacheDebs, Kept
    <3>4. \A p \in Package : p \in packages \/ (base = None /\ CacheDebs[p] # 0) => download'[p] # 0
      BY <1>0, <3>1, <3>3 DEF Beside, Carried, Debs
    <3> QED  BY <3>1, <3>2, <3>4 DEF Succeeds
  <2>2. ASSUME ~lost', pc' = "fill", ~CarryOver
        PROVE  Succeeds(download)'
    <3>1. pc = "fill" /\ ~CarryLoses
      BY <1>0, <2>2, ScriptGoes DEF CarryLoses
    <3>2. ~lost
      BY <2>2, <3>1, WritesData DEF BeginBoot, BeginRefresh, FillLoses
    <3>3. UNCHANGED <<base, packages>> /\ (UNCHANGED cache \/ Redeploy)
      BY <3>1, WritesData DEF BeginBoot, BeginRefresh, SwapOut, Promote, RecordBase, Grow
    <3>4. download' = download
      <4>1. ~AptInstalls /\ ~DownloadSet
        BY <3>1 DEF AptInstalls, DownloadSet
      <4>2. ~Fill /\ ~FillLoses /\ ~LabelFails /\ ~Cut
        BY <2>2 DEF Fill, FillLoses, LabelFails, Cut, Goto, Exit
      <4> QED  BY <2>2, <3>1, <4>1, <4>2 DEF Next, BeginBoot, BeginRefresh, Script,
           RecordBase, RecordRelease, RecordFails, UpdateLists, UpdateFails, AptInstalls, AptFails,
           Fallback, DownloadSet, DownloadFails, CarryRefuses, SwapOut, SwapFails, Promote,
           PromoteFails, Publish, Network, Grow, Redeploy, UpdateFirmware, process
    <3>5. CacheDebs' = CacheDebs
      BY <1>1, <3>3 DEF CacheDebs
    <3> HIDE DEF CacheDebs
    <3> QED  BY <3>1, <3>2, <3>3, <3>4, <3>5 DEF Swapped, Succeeds
  <2> QED  BY <2>1, <2>2
<1>3. ~lost' /\ pc' = "swap" => Succeeds(new.debs)'
  <2>1. CASE Fill
    <3>1. /\ UNCHANGED <<cache, base, packages, lost>> /\ new'.debs = download /\ pc = "fill"
      BY <2>1 DEF Fill
    <3>2. CacheDebs' = CacheDebs
      BY <3>1 DEF CacheDebs
    <3> HIDE DEF CacheDebs
    <3> QED  BY <3>1, <3>2 DEF Swapped, Succeeds
  <2>2. ASSUME ~lost', pc' = "swap", ~Fill
        PROVE  Succeeds(new.debs)'
    <3>1. pc = "swap" /\ ~FillLoses
      BY <1>0, <2>2, ScriptGoes DEF FillLoses
    <3>2. ~SwapOut
      BY <2>2 DEF SwapOut, Goto
    <3>3. ~lost
      BY <2>2, <3>1, WritesData DEF BeginBoot, BeginRefresh, CarryLoses
    <3>4. UNCHANGED <<base, packages, new>> /\ (UNCHANGED cache \/ Redeploy)
      BY <3>1, <3>2, WritesData DEF BeginBoot, BeginRefresh, Promote,
         RecordBase, Grow, Fill, LabelFails
    <3>5. CacheDebs' = CacheDebs
      BY <1>1, <3>4 DEF CacheDebs
    <3> HIDE DEF CacheDebs
    <3> QED  BY <3>1, <3>3, <3>4, <3>5 DEF Swapped, Succeeds
  <2> QED  BY <2>1, <2>2
<1> QED  BY <1>2, <1>3 DEF Swapped

LEMMA ReadableIs ==
  ASSUME TypeOK
  PROVE  /\ Readable \in Dir
         /\ cache # None => Readable = cache
         /\ cache = None /\ new # None => Readable = new
         /\ cache = None /\ new = None => Readable = [debs |-> NoDebs, of |-> None]
<1>1. [debs |-> NoDebs, of |-> None] \in Dir
  BY CacheType DEF Dir
<1> QED  BY <1>1, FoundType DEF Readable, TypeOK

\* What the next run would read, but for a deployment in the gap of the swap and
\* a run that lost something: what there was, unless there was nothing.
LEMMA ReadableStep ==
  ASSUME IInv, Next, ~remade', ~lost
  PROVE  Readable' = Readable \/ SwapOut \/ (cache = None /\ new = None)
<1>0. TypeOK /\ Prepared /\ None \notin Dir
  BY PackagesAssumption DEF IInv
<1>1. /\ cache # None => Readable = cache
      /\ cache = None /\ new # None => Readable = new
      /\ cache = None /\ new = None => Readable = [debs |-> NoDebs, of |-> None]
  BY <1>0, ReadableIs
<1>2. /\ cache' # None => Readable' = cache'
      /\ cache' = None /\ new' # None => Readable' = new'
  BY DEF Readable, Found
<1> HIDE DEF Readable
<1>3. CASE BeginBoot \/ BeginRefresh
  <2>1. \/ cache' = Found[1] /\ new' = Found[2]
        \/ UNCHANGED <<cache, new>>
    BY <1>3, FindsOrNot DEF BeginBoot, BeginRefresh
  <2> QED  BY <1>0, <1>1, <1>2, <2>1, FoundType
<1>4. CASE Fill \/ FillLoses \/ LabelFails \/ (Cut /\ pc = "fill")
  <2>1. cache' = cache /\ (cache # None \/ new = None)
    BY <1>0, <1>4 DEF Fill, FillLoses, LabelFails, Cut, Prepared
  <2> QED  BY <1>1, <1>2, <2>1
<1>5. CASE Promote
  <2>1. new # None /\ cache' = (IF cache = None THEN new ELSE cache)
    BY <1>0, <1>5 DEF Promote, Prepared
  <2> QED  BY <1>1, <1>2, <2>1
<1>6. ~Redeploy
  BY DEF Redeploy
<1>7. CASE UNCHANGED <<cache, new>>
  BY <1>1, <1>2, <1>7
<1> QED  BY <1>3, <1>4, <1>5, <1>6, <1>7, WritesData

LEMMA KeepsDebsStep ==
  ASSUME IInv, Swapped, Next, ~remade', ~lost
  PROVE  KeepsDebs
<1>0. TypeOK
  BY DEF IInv
<1>1. CASE SwapOut
  <2>1. /\ pc = "swap" /\ new # None /\ cache' = None /\ new' = new
    BY <1>1 DEF SwapOut, IInv, Prepared
  <2>2. Readable' = new
    BY <2>1 DEF Readable, Found
  <2>3. CASE cache = None
    <3>1. Readable = new
      BY <2>1, <2>3 DEF Readable, Found
    <3> QED  BY <2>2, <3>1 DEF KeepsDebs
  <2>4. CASE cache # None
    <3>1. Readable = cache /\ CacheDebs = cache.debs
      BY <2>1, <2>4 DEF Readable, Found, CacheDebs
    <3>2. Succeeds(new.debs)
      BY <2>1 DEF Swapped
    <3> HIDE DEF Readable, CacheDebs
    <3> QED  BY <2>2, <3>1, <3>2 DEF KeepsDebs, Succeeds
  <2> QED  BY <2>3, <2>4
<1>2. CASE Readable' = Readable
  BY <1>2 DEF KeepsDebs
<1>3. CASE cache = None /\ new = None
  <2>1. Readable.debs = NoDebs
    BY <1>0, <1>3, ReadableIs
  <2> HIDE DEF Readable
  <2> QED  BY <2>1 DEF KeepsDebs, NoDebs
<1> QED  BY <1>1, <1>2, <1>3, ReadableStep

LEMMA InitSwapped == Init => Swapped
BY DEF Init, Swapped

\* Whatever the packages, wherever the script is cut short, and whatever command
\* it asks about fails: a package of the set the cache holds is never without a
\* deb again, and with no base yet nor is anything else the cache holds, unless a
\* deployment made the directory in the gap of a swap.  Exempt is the rest of a
\* run in which a command it does not ask about lost debs: a copy, the making of
\* a directory, a move, the rename that completes a swap cut short.
THEOREM CacheNeverShrinks == Spec => CacheKept
<1>1. IInv /\ Swapped /\ [Next]_vars => (IInv /\ Swapped)'
  <2> SUFFICES ASSUME IInv, Swapped, [Next]_vars PROVE IInv' /\ Swapped'
    OBVIOUS
  <2>1. CASE Next
    BY <2>1, BaseStep, SwappedStep
  <2>2. CASE UNCHANGED vars
    <3>1. Swapped'
      BY <2>2 DEF vars, data, process, world, Swapped, Succeeds, CacheDebs
    <3> QED  BY <3>1, BaseStep
  <2> QED  BY <2>1, <2>2
<1>2. IInv /\ Swapped /\ [Next]_vars => [remade' \/ lost \/ KeepsDebs]_vars
  BY KeepsDebsStep
<1>3. Init => IInv /\ Swapped
  BY InitBase, InitSwapped
<1> QED  BY <1>1, <1>2, <1>3, PTL DEF Spec, CacheKept

-----------------------------------------------------------------------------
(* The base.                                                               *)

\* Where the run of a boot goes first.
LEMMA SetIsGone ==
  ASSUME TypeOK, ShipsNoneOfTheSet, Declared \subseteq packages,
         packages \subseteq Declared \cup Later, live = Ships[release]
  PROVE  NoneInstalled(packages) /\ ~Installed(packages)
<1>1. \A p \in packages : live[p] = 0
  BY DEF ShipsNoneOfTheSet, TypeOK
<1>2. \A p \in up : live[p] # 0
  BY DEF TypeOK
<1>3. packages # {}
  BY PackagesAssumption
<1> QED  BY <1>1, <1>2, <1>3 DEF NoneInstalled, Installed

\* A recording that did not fail, and nothing installed before it.
Clean ==
  ~missed =>
    /\ baseOf = release => base = Ships[release]
    /\ baseOf # release => live = Ships[release] /\ pc \in {"idle", "record", "stamp"}
    /\ pc = "stamp" => base = Ships[release]
    /\ base = None \/ \E f \in Firmware : base = Ships[f]

LEMMA RecordedStep ==
  ASSUME IInv, ShipsNoneOfTheSet, Recorded, Next
  PROVE  Recorded'
<1>0. /\ TypeOK /\ Prepared /\ release \in Firmware /\ release \in Nat /\ None \notin Firmware
      /\ baseOf \in Firmware \cup {None} /\ Firmware \subseteq Nat
  BY PackagesAssumption DEF IInv, TypeOK
<1>1. (Declared \subseteq packages /\ packages \subseteq Declared \cup Later)'
  BY WritesData DEF Grow, Recorded
<1>2. /\ release' \in Firmware /\ release <= release'
      /\ release' # release => \E f \in Firmware : UpdateFirmware(f)
  <2>1. CASE \E f \in Firmware : UpdateFirmware(f)
    BY <1>0, <2>1 DEF UpdateFirmware
  <2>2. CASE release' = release
    BY <1>0, <2>2
  <2> QED  BY <2>1, <2>2, WritesDevice
<1>3. (baseOf # None => baseOf <= release)'
  <2>1. CASE RecordRelease
    BY <1>0, <2>1 DEF RecordRelease, device
  <2>2. CASE baseOf' = baseOf
    BY <1>0, <1>2, <2>2 DEF Recorded
  <2> QED  BY <2>1, <2>2, WritesData
<1>4. (pc \in {"record", "stamp"} => baseOf # release)'
  <2> SUFFICES ASSUME pc' \in {"record", "stamp"} PROVE baseOf' # release'
    OBVIOUS
  <2>1. CASE BeginBoot
    BY <2>1 DEF BeginBoot, Goto, NewRelease, device
  <2>2. CASE pc \in {"record", "stamp"}
    <3>1. baseOf' = baseOf
      BY <2>2, WritesData DEF RecordRelease, Goto
    <3>2. release' = release
      BY <1>2, <2>2 DEF UpdateFirmware
    <3> QED  BY <2>2, <3>1, <3>2 DEF Recorded
  <2>3. CASE RecordBase
    BY <2>2, <2>3 DEF RecordBase
  <2> QED  BY <1>0, <2>1, <2>2, <2>3, ScriptGoes
<1>5. Clean'
  <2> SUFFICES ASSUME ~missed' PROVE Clean'
    BY DEF Clean
  <2>0. ~missed /\ Clean
    <3>1. ~missed
      BY WritesData DEF RecordFails
    <3>2. Clean
      BY DEF Recorded, Clean
    <3> QED  BY <3>1, <3>2
  <2>1. CASE \E f \in Firmware : UpdateFirmware(f)
    <3>1. PICK f \in Firmware : UpdateFirmware(f)
      BY <2>1
    <3>2. /\ release' = f /\ release <= f /\ live' = Ships[f] /\ pc = "idle"
          /\ UNCHANGED <<base, baseOf, pc>>
      BY <1>0, <3>1 DEF UpdateFirmware, data, process
    <3>3. baseOf = f => baseOf = release
      BY <1>0, <3>2 DEF Recorded
    <3> QED  BY <2>0, <3>2, <3>3 DEF Clean
  <2>2. CASE BeginBoot \/ BeginRefresh
    <3>1. UNCHANGED <<live, release, base, baseOf>> /\ pc = "idle" /\ pc' # "stamp"
      BY <2>2 DEF BeginBoot, BeginRefresh, Goto, device
    <3>2. baseOf # release => pc' \in {"idle", "record"}
      BY <1>0, <2>0, <2>2, SetIsGone DEF BeginBoot, BeginRefresh, Goto, NewRelease, Clean, Recorded
    <3> QED  BY <2>0, <3>1, <3>2 DEF Clean
  <2>3. CASE RecordBase
    <3>1. /\ base' = live /\ pc' = "stamp" /\ UNCHANGED <<live, release, baseOf>>
          /\ pc = "record"
      BY <2>3 DEF RecordBase, Goto, device
    <3>2. baseOf # release /\ live = Ships[release]
      BY <2>0, <3>1 DEF Recorded, Clean
    <3> QED  BY <1>0, <3>1, <3>2 DEF Clean
  <2>4. CASE RecordRelease
    <3>1. /\ baseOf' = release /\ pc' = "update" /\ UNCHANGED <<release, base>> /\ pc = "stamp"
      BY <2>4 DEF RecordRelease, Goto, device
    <3> QED  BY <2>0, <3>1 DEF Clean
  <2>5. CASE ~RecordBase /\ ~RecordRelease /\ ~BeginBoot /\ ~BeginRefresh
             /\ ~\E f \in Firmware : UpdateFirmware(f)
    <3>1. UNCHANGED <<release, base, baseOf>>
      BY <2>5, WritesData, WritesDevice
    <3>2. pc' = "stamp" => pc = "stamp"
      BY <1>0, <2>5, ScriptGoes
    <3>3. baseOf # release => live' = live /\ pc' \in {"idle", "record", "stamp"}
      <4> SUFFICES ASSUME baseOf # release
                   PROVE  live' = live /\ pc' \in {"idle", "record", "stamp"}
        OBVIOUS
      <4>1. pc \in {"idle", "record", "stamp"}
        BY <2>0 DEF Clean
      <4>2. live' = live
        BY <2>5, <4>1, WritesDevice DEF AptInstalls, Fallback
      <4>3. pc' = pc \/ pc' = "idle"
        BY <2>5, <4>1, WritesData DEF Script, RecordFails, UpdateLists, UpdateFails, AptInstalls,
           AptFails, Fallback, DownloadSet, DownloadFails, CarryOver, CarryLoses,
           CarryRefuses, Fill, FillLoses, LabelFails, SwapOut, SwapFails, Promote, PromoteFails,
           Cut, Exit
      <4> QED  BY <4>1, <4>2, <4>3
    <3> QED  BY <2>0, <3>1, <3>2, <3>3 DEF Clean
  <2> QED  BY <2>1, <2>2, <2>3, <2>4, <2>5
<1> QED  BY <1>1, <1>3, <1>4, <1>5 DEF Recorded, Clean

LEMMA InitRecorded == Init => Recorded
<1> SUFFICES ASSUME Init PROVE Recorded
  OBVIOUS
<1>1. release \in Firmware /\ None \notin Firmware
  BY PackagesAssumption DEF Init
<1> QED  BY <1>1 DEF Init, Recorded

LEMMA BaseInvStep ==
  ASSUME ShipsNoneOfTheSet, IInv, Recorded, [Next]_vars
  PROVE  IInv' /\ Recorded'
<1>1. CASE Next
  BY <1>1, BaseStep, RecordedStep
<1>2. CASE UNCHANGED vars
  <2>1. Recorded'
    BY <1>2 DEF vars, device, data, process, world, Recorded
  <2> QED  BY <2>1, BaseStep
<1> QED  BY <1>1, <1>2

\* Where the firmware ships none of the set: a saved base is what some firmware
\* shipped, wherever a boot or an install was cut short, unless the recording
\* failed on the one boot that could have made it.
THEOREM SavedBaseIsAFirmwares ==
  ASSUME ShipsNoneOfTheSet
  PROVE  Spec => []BaseIsFirmwares
<1>1. IInv /\ Recorded /\ [Next]_vars => (IInv /\ Recorded)'
  BY BaseInvStep
<1>2. IInv /\ Recorded => BaseIsFirmwares
  BY DEF Recorded, BaseIsFirmwares
<1>3. Init => IInv /\ Recorded
  BY InitBase, InitRecorded
<1> QED  BY <1>1, <1>2, <1>3, PTL DEF Spec

\* What dpkg is handed of the cache is no older than what the firmware ships.
LEMMA NoDowngradeStep ==
  ASSUME IInv, Recorded, Next, NEW p \in Package,
         baseOf = release, ~missed, release' = release, live'[p] < live[p]
  PROVE  live'[p] >= Ships[release][p]
<1>0. /\ TypeOK /\ live \in Debs /\ packages \in SUBSET Package /\ lists \in Version
      /\ release \in Firmware /\ Ships[release] \in Debs /\ base = Ships[release]
      /\ None \notin Debs /\ live[p] \in Nat /\ lists \in Nat
  BY PackagesAssumption DEF IInv, TypeOK, Recorded, Debs, Version
<1>1. ASSUME Resolvable(live, packages, lists)
      PROVE  /\ Fetched(live, packages, lists, {}) \in Debs
             /\ Fetched(live, packages, lists, {})[p] # 0
                  => Fetched(live, packages, lists, {})[p] >= live[p]
  <2> DEFINE d == Fetched(live, packages, lists, {})
             W == Wanted(live, packages, lists)
  <2>1. d \in Debs /\ d[p] = IF p \in W /\ live[p] # lists THEN lists ELSE 0
    BY <1>0, FetchedType, FetchedBare
  <2>2. p \in W => live[p] <= lists
    BY <1>1, Zenon DEF Resolvable
  <2> HIDE DEF d, W
  <2>3. d[p] # 0 => d[p] >= live[p]
    BY <1>0, <2>1, <2>2
  <2> QED  BY <2>1, <2>3 DEF d
<1>2. Handed \in Debs /\ (Handed[p] # 0 => Handed[p] >= Ships[release][p])
  <2>1. Handed \in Debs /\ CacheDebs \in Debs
        /\ Handed[p] = IF HeldBack(p) THEN 0 ELSE CacheDebs[p]
    BY <1>0, CacheType
  <2>2. HeldBack(p) <=> Ships[release][p] > CacheDebs[p]
    BY <1>0 DEF HeldBack
  <2> HIDE DEF Handed, CacheDebs, HeldBack
  <2>3. CacheDebs[p] \in Nat /\ Ships[release][p] \in Nat
    BY <1>0, <2>1 DEF Debs, Version
  <2> QED  BY <2>1, <2>2, <2>3
<1>3. CASE AptInstalls
  <2> DEFINE d == Fetched(live, packages, lists, {})
  <2>1. d \in Debs /\ live' = Over(d, live) /\ (d[p] # 0 => d[p] >= live[p])
    BY <1>1, <1>3 DEF AptInstalls
  <2> HIDE DEF d
  <2>2. live'[p] = IF d[p] # 0 THEN d[p] ELSE live[p]
    BY <1>0, <2>1, OverType
  <2>3. d[p] \in Nat
    BY <2>1 DEF Debs, Version
  <2> QED  BY <1>0, <2>1, <2>2, <2>3
<1>4. CASE pc = "install" /\ CutShort(Fetched(live, packages, lists, {}))
  <2> DEFINE d == Fetched(live, packages, lists, {})
  <2>1. CASE Resolvable(live, packages, lists)
    <3>1. d \in Debs /\ CutShort(d) /\ (d[p] # 0 => d[p] >= live[p])
      BY <1>1, <1>4, <2>1
    <3> HIDE DEF d
    <3>2. d[p] \in Nat
      BY <3>1 DEF Debs, Version
    <3>3. live'[p] = live[p] \/ (d[p] # 0 /\ live'[p] = d[p])
      BY <1>0, <3>1, CutShortType
    <3> QED  BY <1>0, <3>1, <3>2, <3>3
  <2>2. CASE ~Resolvable(live, packages, lists)
    <3>1. live' = live \/ \E f \in Firmware : UpdateFirmware(f)
      BY <1>4, <2>2 DEF Next, BeginBoot, BeginRefresh, Script, RecordBase, RecordRelease, RecordFails,
         UpdateLists, UpdateFails, AptInstalls, AptFails, Fallback, DownloadSet, DownloadFails,
         CarryOver, CarryLoses, CarryRefuses, Fill, FillLoses, LabelFails, SwapOut, SwapFails,
   Promote, PromoteFails, Cut, Publish, Network,
         Grow, Redeploy, UpdateFirmware, device
    <3> QED  BY <1>0, <1>4, <3>1 DEF UpdateFirmware
  <2> QED  BY <2>1, <2>2
<1>5. CASE Fallback \/ (pc = "fallback" /\ CutShort(Handed))
  <2>1. CASE Fallback
    <3>1. live' = Over(Handed, live)
      BY <2>1 DEF Fallback
    <3> HIDE DEF Handed
    <3>2. live'[p] = IF Handed[p] # 0 THEN Handed[p] ELSE live[p]
      BY <1>0, <1>2, <3>1, OverType
    <3> QED  BY <1>0, <1>2, <3>2
  <2>2. CASE CutShort(Handed)
    <3> HIDE DEF Handed
    <3>1. live'[p] = live[p] \/ (Handed[p] # 0 /\ live'[p] = Handed[p])
      BY <1>0, <1>2, <2>2, CutShortType
    <3> QED  BY <1>0, <1>2, <3>1
  <2> QED  BY <1>5, <2>1, <2>2
<1>6. CASE \E f \in Firmware : UpdateFirmware(f)
  <2>1. live' = Ships[release]
    BY <1>6 DEF UpdateFirmware
  <2>2. Ships[release][p] \in Nat
    BY <1>0 DEF Debs, Version
  <2> QED  BY <2>1, <2>2
<1>7. CASE UNCHANGED live
  BY <1>0, <1>7
<1> QED  BY <1>3, <1>4, <1>5, <1>6, <1>7, WritesDevice

\* Where the firmware ships none of the set: no run takes a package below the
\* version the firmware ships it at, neither by an install or a fallback nor by
\* one cut short, where the base recorded is that firmware's.
THEOREM FirmwareIsTheFloor ==
  ASSUME ShipsNoneOfTheSet
  PROVE  Spec => NeverDowngrades
<1>1. IInv /\ Recorded /\ [Next]_vars => (IInv /\ Recorded)'
  BY BaseInvStep
<1>2. IInv /\ Recorded /\ [Next]_vars
        => [\A p \in Package :
              baseOf = release /\ ~missed /\ release' = release /\ live'[p] < live[p]
                => live'[p] >= Ships[release][p]]_vars
  BY NoDowngradeStep
<1>3. Init => IInv /\ Recorded
  BY InitBase, InitRecorded
<1> QED  BY <1>1, <1>2, <1>3, PTL DEF Spec, NeverDowngrades

-----------------------------------------------------------------------------
(* The cache, and an offline boot of it.                                   *)

\* A cache resolved against a whole firmware is one dpkg can configure over it.
LEMMA ResolvedCarries ==
  ASSUME ShipsWhole, NEW f \in Firmware, NEW c \in Debs, Resolved(c, f),
         NEW T \in SUBSET Package, \A p \in T : c[p] # 0
  PROVE  T \subseteq Configured(
           Over([p \in Package |-> IF Ships[f][p] > c[p] THEN 0 ELSE c[p]], Ships[f]), Package)
<1> DEFINE s == Ships[f]
           handed == [p \in Package |-> IF s[p] > c[p] THEN 0 ELSE c[p]]
           v == Over(handed, s)
<1>1. s \in Debs /\ \A p \in Package : s[p] \in Nat /\ c[p] \in Nat
  BY PackagesAssumption DEF Debs, Version
<1>2. PICK S \in SUBSET Package, a \in Version : Resolvable(s, S, a) /\ c = Fetched(s, S, a, {})
  BY DEF Resolved
<1> DEFINE W == Wanted(s, S, a)
           Q == W \cup {p \in Package : s[p] # 0}
<1>3. a \in Nat /\ a # 0 /\ \A p \in W : s[p] <= a
  <2>1. a # 0 /\ \A p \in Wanted(s, S, a) : s[p] <= a
    BY <1>2 DEF Resolvable
  <2> QED  BY <2>1 DEF Version
<1>4. \A p \in Package : c[p] = IF p \in W /\ s[p] # a THEN a ELSE 0
  BY <1>2, FetchedBare
<1>5. W \subseteq Package /\ Meets(s, a, W)
  BY <1>1, WantedCloses
<1>6. handed \in Debs /\ \A p \in Package : handed[p] = IF s[p] > c[p] THEN 0 ELSE c[p]
  <2>1. 0 \in Version /\ \A p \in Package : c[p] \in Version
    BY PackagesAssumption DEF Version, Debs
  <2> HIDE DEF s
  <2> QED  BY <2>1 DEF Debs
<1> HIDE DEF handed
<1>7. \A p \in Package : v[p] = IF handed[p] # 0 THEN handed[p] ELSE s[p]
  BY <1>1, <1>6, OverType
<1> HIDE DEF v, W, s
<1>8. \A p \in Package : p \in W => v[p] = a
  <2> SUFFICES ASSUME NEW p \in Package, p \in W PROVE v[p] = a
    OBVIOUS
  <2>1. s[p] \in Nat /\ s[p] <= a
    BY <1>1, <1>3
  <2>2. CASE s[p] = a
    BY <1>3, <1>4, <1>6, <1>7, <2>2
  <2>3. CASE s[p] # a
    <3>1. c[p] = a /\ ~(s[p] > a)
      BY <1>3, <1>4, <2>1, <2>3
    <3>2. handed[p] = a
      BY <1>6, <3>1
    <3> QED  BY <1>3, <1>7, <3>2
  <2> QED  BY <2>2, <2>3
<1>9. \A p \in Package : p \notin W => v[p] = s[p]
  <2> SUFFICES ASSUME NEW p \in Package, p \notin W PROVE v[p] = s[p]
    OBVIOUS
  <2>1. c[p] = 0
    BY <1>4
  <2> QED  BY <1>1, <1>6, <1>7, <2>1
<1>10. \A p \in Package : p \in Q <=> p \in W \/ s[p] # 0
  OBVIOUS
<1>11. Q \subseteq {p \in Package : v[p] # 0}
  BY <1>3, <1>5, <1>8, <1>9
<1>12. ASSUME NEW p \in Q
       PROVE  Needs[p] \cup Pins[p] \subseteq Q /\ \A q \in Pins[p] : v[q] = v[p]
  <2>0. p \in Package /\ Needs[p] \subseteq Package /\ Pins[p] \subseteq Package
    BY <1>5, PackagesAssumption
  <2>1. CASE p \in W
    <3>1. ASSUME NEW q \in Needs[p] PROVE q \in Q
      BY <1>5, <2>0, <2>1, <3>1 DEF Meets
    <3>2. ASSUME NEW q \in Pins[p] PROVE q \in Q /\ v[q] = v[p]
      <4>1. q \in Package /\ (q \in W \/ s[q] = a)
        BY <1>5, <2>0, <2>1 DEF Meets
      <4> QED  BY <1>3, <1>8, <1>9, <2>0, <2>1, <4>1
    <3> QED  BY <3>1, <3>2
  <2>2. CASE p \notin W
    <3>0. s[p] # 0
      BY <2>2
    <3>1. /\ \A r \in Needs[p] : s[r] # 0
          /\ \A r \in Pins[p] : s[r] = s[p] /\ p \in Pins[r]
      BY <2>0, <3>0 DEF ShipsWhole, s
    <3>2. ASSUME NEW q \in Pins[p] PROVE q \in Q /\ v[q] = v[p]
      <4>1. q \in Package /\ s[q] = s[p] /\ p \in Pins[q]
        BY <2>0, <3>1
      <4>2. q \in W => s[p] = a
        BY <1>5, <2>2, <4>1 DEF Meets
      <4> QED  BY <1>8, <1>9, <2>0, <2>2, <3>0, <4>1, <4>2
    <3> QED  BY <2>0, <3>1, <3>2
  <2> QED  BY <2>1, <2>2
<1>13. Q \subseteq Configured(v, Package)
  <2> HIDE DEF Q
  <2> QED  BY <1>11, <1>12, ConfiguredHolds
<1>14. T \subseteq Q
  BY <1>4
<1>15. T \subseteq Configured(v, Package)
  BY <1>13, <1>14
<1> QED  BY <1>15 DEF v, handed, s

LEMMA LabelledStep ==
  ASSUME IInv, Recorded, Labelled, Next
  PROVE  Labelled'
<1> SUFFICES ASSUME ~missed' PROVE Labelled'
  BY DEF Labelled
<1>0. /\ TypeOK /\ Prepared /\ None \notin Dir /\ None \notin Debs
      /\ packages \in SUBSET Package /\ lists \in Version
  BY PackagesAssumption DEF IInv, TypeOK
<1>1. ~missed
  BY WritesData DEF RecordFails
<1>2. /\ ~short /\ cache # None /\ cache.of # None => Resolved(cache.debs, cache.of)
      /\ ~short /\ cache = None /\ new # None /\ new.of # None => Resolved(new.debs, new.of)
      /\ pc \in {"carry", "fill", "swap"} /\ base # None => Resolved(download, release)
      /\ pc = "swap" /\ new # None /\ new.of # None => base # None /\ new.of = release
  BY <1>1 DEF Labelled
<1>3. pc \notin {"idle", "record", "stamp"} => baseOf = release /\ base = Ships[release]
  BY <1>1 DEF Recorded
<1>4. ~short' => ~short \/ SwapOut
  BY WritesData DEF FillLoses
<1>5. ~short' /\ cache' # None /\ cache'.of # None => Resolved(cache'.debs, cache'.of)
  <2> SUFFICES ASSUME ~short', cache' # None, cache'.of # None
               PROVE  Resolved(cache'.debs, cache'.of)
    OBVIOUS
  <2>1. ~short
    BY <1>4 DEF SwapOut
  <2>2. CASE BeginBoot \/ BeginRefresh
    <3>1. cache' = Found[1] \/ cache' = cache
      BY <2>2, FindsOrNot DEF BeginBoot, BeginRefresh
    <3> QED  BY <1>0, <1>2, <2>1, <3>1, FoundType
  <2>3. CASE SwapOut \/ Promote
    BY <1>2, <2>1, <2>3 DEF SwapOut, Promote
  <2>4. CASE Redeploy
    BY <2>4 DEF Redeploy
  <2> QED  BY <1>2, <2>1, <2>2, <2>3, <2>4, WritesData
<1>6. ~short' /\ cache' = None /\ new' # None /\ new'.of # None => Resolved(new'.debs, new'.of)
  <2> SUFFICES ASSUME ~short', cache' = None, new' # None, new'.of # None
               PROVE  Resolved(new'.debs, new'.of)
    OBVIOUS
  <2>1. CASE SwapOut
    <3>1. new' = new /\ new.debs = download /\ pc = "swap"
      BY <2>1 DEF SwapOut
    <3> QED  BY <1>2, <3>1
  <2>2. CASE BeginBoot \/ BeginRefresh
    <3>1. (cache' = Found[1] /\ new' = Found[2]) \/ (cache' = cache /\ new' = new)
      BY <2>2, FindsOrNot DEF BeginBoot, BeginRefresh
    <3>2. ~short
      BY <1>4, <2>2 DEF BeginBoot, BeginRefresh, SwapOut, Goto
    <3> QED  BY <1>0, <1>2, <3>1, <3>2, FoundType
  <2>3. CASE Fill
    <3>1. new'.debs = download /\ new'.of = Label /\ pc = "fill"
      BY <2>3 DEF Fill
    <3>2. Label # None => base # None /\ Label = release
      BY <1>3, <3>1 DEF Label
    <3> QED  BY <1>2, <3>1, <3>2
  <2>4. CASE FillLoses
    BY <2>4 DEF FillLoses
  <2>5. CASE LabelFails \/ Promote
    BY <2>5 DEF LabelFails, Promote
  <2>6. CASE Cut /\ pc = "fill"
    BY <2>6 DEF Cut
  <2>7. CASE UNCHANGED new /\ ~SwapOut /\ ~BeginBoot /\ ~BeginRefresh /\ ~Promote
    <3>1. ~Redeploy
      BY <1>0, CacheType DEF Redeploy, Dir
    <3>2. cache = None /\ ~short
      BY <1>4, <2>7, <3>1, WritesData
    <3> QED  BY <1>2, <2>7, <3>2
  <2> QED  BY <2>1, <2>2, <2>3, <2>4, <2>5, <2>6, <2>7, WritesData
<1>7. ASSUME pc' \in {"carry", "fill", "swap"}, base' # None
      PROVE  Resolved(download', release')
  <2>1. CASE DownloadSet
    <3>1. /\ pc = "refresh" /\ base' = base /\ release' = release
          /\ Resolvable(base, packages, lists) /\ download' = Fetched(base, packages, lists, {})
      BY <1>7, <2>1 DEF DownloadSet, Reference, ResolvedAgainst, data, device
    <3>2. base = Ships[release]
      BY <1>3, <3>1
    <3> QED  BY <1>0, <3>1, <3>2 DEF Resolved
  <2>2. CASE CarryOver \/ CarryLoses
    <3>1. pc = "carry" /\ base' = base /\ release' = release /\ download' = download
      BY <1>7, <2>2 DEF CarryOver, CarryLoses, Beside, data, device
    <3> QED  BY <1>2, <1>7, <3>1
  <2>3. CASE ~DownloadSet /\ ~CarryOver /\ ~CarryLoses
    <3>1. pc \in {"carry", "fill", "swap"}
      BY <1>0, <1>7, <2>3, ScriptGoes DEF Fill, FillLoses
    <3>2. base' = base /\ release' = release
      BY <3>1, WritesData, WritesDevice DEF RecordBase, UpdateFirmware
    <3>3. download' = download
      BY <1>7, <2>3, <3>1 DEF Next, BeginBoot, BeginRefresh, Script, RecordBase, RecordRelease,
         RecordFails, UpdateLists, UpdateFails, AptInstalls, AptFails, Fallback, DownloadFails,
         CarryRefuses, Fill, FillLoses, LabelFails, SwapOut, SwapFails, Promote, PromoteFails, Cut,
         Publish, Network, Grow, Redeploy, UpdateFirmware, Exit, Goto, process
    <3> QED  BY <1>2, <1>7, <3>1, <3>2, <3>3
  <2> QED  BY <2>1, <2>2, <2>3
<1>8. ASSUME pc' = "swap", new' # None, new'.of # None
      PROVE  base' # None /\ new'.of = release'
  <2>1. CASE Fill \/ FillLoses
    <3>1. UNCHANGED <<base, release>> /\ new'.of = Label /\ pc = "fill"
      BY <1>8, <2>1 DEF Fill, FillLoses, device
    <3> QED  BY <1>3, <1>8, <3>1 DEF Label
  <2>2. CASE ~Fill /\ ~FillLoses
    <3>1. pc = "swap"
      BY <1>0, <1>8, <2>2, ScriptGoes
    <3>2. UNCHANGED <<base, release, new>>
      BY <1>8, <2>2, <3>1, WritesData, WritesDevice DEF RecordBase, UpdateFirmware, BeginBoot,
         BeginRefresh, LabelFails, Promote, Exit
    <3> QED  BY <1>2, <1>8, <3>1, <3>2
  <2> QED  BY <2>1, <2>2
<1> QED  BY <1>5, <1>6, <1>7, <1>8 DEF Labelled, Resolved

LEMMA LabelledCarries ==
  ASSUME ShipsWhole, IInv, Labelled
  PROVE  CheckCarries
<1> SUFFICES ASSUME CheckPasses, baseOf = release, ~missed, ~short PROVE packages \subseteq OfflineBoot
  BY DEF CheckCarries
<1>0. /\ TypeOK /\ release \in Firmware /\ None \notin Firmware /\ packages \in SUBSET Package
      /\ cache \in Dir \cup {None} /\ new \in Dir \cup {None} /\ None \notin Dir
  BY PackagesAssumption DEF IInv, TypeOK
<1>1. /\ Readable \in Dir
      /\ cache # None => Readable = cache
      /\ cache = None /\ new # None => Readable = new
      /\ cache = None /\ new = None => Readable = [debs |-> NoDebs, of |-> None]
  BY <1>0, ReadableIs
<1>2. Readable.of = release /\ \A p \in packages : Readable.debs[p] # 0
  BY <1>0 DEF CheckPasses
<1>3. Resolved(Readable.debs, release)
  BY <1>0, <1>1, <1>2 DEF Labelled
<1>4. Readable.debs \in Debs
  BY <1>1 DEF Dir
<1> HIDE DEF Readable
<1> DEFINE c == Readable.debs
<1>5. packages \subseteq Configured(
        Over([p \in Package |-> IF Ships[release][p] > c[p] THEN 0 ELSE c[p]], Ships[release]), Package)
  BY <1>0, <1>2, <1>3, <1>4, ResolvedCarries
<1> QED  BY <1>5 DEF OfflineBoot

LEMMA InitLabelled == Init => Labelled
BY DEF Init, Labelled

\* Where the firmware ships none of the set, and what it ships is whole by
\* itself: while `--check` finds nothing to say and the base is the running
\* firmware's, the cache carries an offline boot of that firmware, whatever was
\* cut short or failed before, however the set grew and the archive moved on.
\* Exempt is a cache filled with less than its download, by a move of the debs
\* that failed and that the script does not ask about.
THEOREM CheckedCacheCarries ==
  ASSUME ShipsNoneOfTheSet, ShipsWhole
  PROVE  Spec => []CheckCarries
<1>1. IInv /\ Recorded /\ Labelled /\ [Next]_vars => (IInv /\ Recorded /\ Labelled)'
  <2> SUFFICES ASSUME IInv, Recorded, Labelled, [Next]_vars
               PROVE  IInv' /\ Recorded' /\ Labelled'
    OBVIOUS
  <2>1. IInv' /\ Recorded'
    BY BaseInvStep
  <2>2. CASE Next
    BY <2>1, <2>2, LabelledStep
  <2>3. CASE UNCHANGED vars
    <3>1. Labelled'
      BY <2>3 DEF vars, device, data, process, world, Labelled, Resolved
    <3> QED  BY <2>1, <3>1
  <2> QED  BY <2>2, <2>3
<1>2. IInv /\ Recorded /\ Labelled => CheckCarries
  BY LabelledCarries
<1>3. Init => IInv /\ Recorded /\ Labelled
  BY InitBase, InitRecorded, InitLabelled
<1> QED  BY <1>1, <1>2, <1>3, PTL DEF Spec

=============================================================================
