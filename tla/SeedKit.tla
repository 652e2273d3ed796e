------------------------------- MODULE SeedKit -------------------------------
(***************************************************************************)
(* The seed kit: `credentials kit bootstrap`, `kit rotate`, `seed <member>  *)
(* create`, and the escrow registry whose ciphertexts open with the kit's   *)
(* recovery key.  A kit is a database file with one row per seed: the       *)
(* recovery key, the OCI seed's API key, the Cloudflare seed token and the  *)
(* B2 seed key.  A rotation writes a new file, row by row, and each row     *)
(* retires its predecessor at its platform.                                 *)
(*                                                                         *)
(* Abstracted: a key is a number, and a number no row holds and no platform *)
(* accepts is free again.  Every account is the recorded one.  A ciphertext *)
(* is the recovery key it opens with.  One command runs at a time, and a    *)
(* refusal that changes nothing is no step.                                 *)
(***************************************************************************)
EXTENDS Naturals, FiniteSets

CONSTANTS
  Kit,         \* the database files there may be
  First,       \* the kit the installation is brought up with
  Only,        \* bound: the rows --only is given, and "all" for no --only
  MaxKey,      \* bound: keys in being at once
  MaxFile,     \* bound: generations escrowed
  Quota,       \* KEY_QUOTA: API keys an OCI user may hold
  MaxCuts,     \* bound: runs ended early
  MaxRefused,  \* bound: deletions refused
  None         \* no recipients file

ASSUME SeedKitAssumption ==
  /\ First \in Kit /\ None \notin Nat /\ Quota \in Nat \ {0, 1}
  /\ Kit \cap {"absent", "unmarked", "none"} = {}
  /\ "all" \in Only /\ Only \subseteq {"all", "recovery", "oci", "cloudflare", "b2"}
  /\ MaxKey \in Nat \ {0} /\ MaxFile \in Nat /\ MaxCuts \in Nat /\ MaxRefused \in Nat

VARIABLES
  \* The database files.
  file,        \* absent, unmarked, or the kit it is marked the successor of
  recovery,    \* the recovery key each holds (0: none)
  oci,         \* the OCI row: the entry, the key attached, the tenancy written
  cloudflare,  \* whether each holds a token
  b2,          \* the B2 key each holds (0: none)
  \* The platforms.
  ociKeys, b2Keys,
  \* The checkout.
  sealed,      \* the key each generation opens with (0: not filed)
  recipients,  \* the key escrow/RECIPIENTS names (0: a file naming none)
  \* The command running.
  pc, cmd,     \* cmd: "rotate", "bootstrap" or "create"
  kit, into,   \* the kit in hand, and the one written
  only,        \* the one row asked for, or "all"
  hand,        \* the key it minted or signs as
  left,        \* what a re-wrap or a retirement has still to reach
  \* The operator, the history and the bound.
  service,     \* the kit in service
  full,        \* the key to keep, where the last run met a full user (0: unknown)
  retired,     \* the kits a complete rotation replaced
  stuck,       \* the keys whose deletion was refused until the deadline
  cuts, refused

kits     == <<file, recovery, oci, cloudflare, b2>>
platform == <<ociKeys, b2Keys>>
checkout == <<sealed, recipients>>
command  == <<cmd, kit, into, only>>
process  == <<pc, command, hand, left>>
operator == <<service, full, retired, stuck, cuts, refused>>
vars     == <<kits, platform, checkout, process, operator>>

Key    == 1..MaxKey
Member == {"recovery", "oci", "cloudflare", "b2"}
Pc     == {"idle", "make", "mark", "done"} \cup Member
          \cup {"announce", "open", "write", "recipients"}
          \cup {"clear", "room", "put", "attach", "tenancy", "sweep"} \cup {"store", "retire"}

TypeOK ==
  /\ file \in [Kit -> Kit \cup {"absent", "unmarked"}]
  /\ recovery \in [Kit -> Key \cup {0}] /\ b2 \in [Kit -> Key \cup {0}]
  /\ oci \in [Kit -> [entry : BOOLEAN, key : Key \cup {0}, tenancy : BOOLEAN]]
  /\ cloudflare \in [Kit -> BOOLEAN]
  /\ \A k \in Kit :
       /\ file[k] = "absent" => recovery[k] = 0 /\ ~oci[k].entry /\ ~cloudflare[k] /\ b2[k] = 0
       /\ oci[k].tenancy => oci[k].key # 0
       /\ oci[k].key # 0 => oci[k].entry
  /\ ociKeys \subseteq Key /\ b2Keys \subseteq Key /\ Cardinality(ociKeys) <= Quota
  /\ sealed \in [1..MaxFile -> Key \cup {0}]
  /\ recipients \in Key \cup {0, None}
  /\ pc \in Pc /\ cmd \in {"rotate", "bootstrap", "create"}
  /\ kit \in Kit /\ into \in Kit /\ only \in Member \cup {"all"}
  /\ hand \in Key \cup {0} /\ left \subseteq Key \cup 1..MaxFile
  /\ service \in Kit /\ full \in Key \cup {0, None}
  /\ retired \subseteq Kit /\ stuck \subseteq ociKeys /\ cuts \in 0..MaxCuts /\ refused \in 0..MaxRefused

-----------------------------------------------------------------------------
(* What a kit holds.                                                       *)

Has(k, m) ==
  CASE m = "recovery"   -> recovery[k] # 0
    [] m = "oci"        -> oci[k].entry
    [] m = "cloudflare" -> cloudflare[k]
    [] m = "b2"         -> b2[k] # 0

\* A complete row: its own reader would succeed on it.
Holds(k, m) == IF m = "oci" THEN oci[k].key # 0 /\ oci[k].tenancy ELSE Has(k, m)

Works(k, m) ==
  Holds(k, m) /\ (m = "oci" => oci[k].key \in ociKeys) /\ (m = "b2" => b2[k] \in b2Keys)

Whole(k) == (\A m \in Member : Holds(k, m)) /\ recipients = recovery[k]

Filed == {f \in 1..MaxFile : sealed[f] # 0}

\* The keys something is left of; a new one is none of them (where there is no
\* number left for it, the bound, nothing is minted).
RecoveryInUse == {recovery[k] : k \in Kit} \cup {sealed[f] : f \in Filed} \cup {recipients}
OciInUse      == {oci[k].key : k \in Kit} \cup ociKeys
B2InUse       == {b2[k] : k \in Kit} \cup b2Keys
Fresh(used)   == CHOOSE n \in Key : n \notin used
FreshRecovery == Fresh(RecoveryInUse)
FreshOci      == Fresh(OciInUse)
FreshB2       == Fresh(B2InUse)
Mintable(used) == \E n \in Key : n \notin used

-----------------------------------------------------------------------------
(* Mutants: what a plausible mistake in a definition below would make it.  *)

\* Any file that exists is resumed into.
MutRequireSuccessor(k, i) == i # k
\* The pre-flight reads the kit in hand's row alone.
MutLive(k, i, m) == k
\* A re-run draws the recovery key again.
MutSuccessorKey == FreshRecovery
\* The quota is not looked at.
MutRoomForOneMore == TRUE
\* The first sweep keeps the row written and not the one that signs.
MutSuperseded(k) == ociKeys \ {oci[into].key}

-----------------------------------------------------------------------------
(* Commands begin and end.                                                 *)

Idle ==
  /\ pc' = "idle" /\ hand' = 0 /\ left' = {}
  /\ cmd' = "rotate" /\ kit' = First /\ into' = First /\ only' = "all"

Begin(c, k, i, m, at) ==
  /\ pc = "idle"
  /\ pc' = at /\ cmd' = c /\ kit' = k /\ into' = i /\ only' = m
  /\ full' = None
  /\ UNCHANGED <<kits, platform, checkout, hand, left, service, retired, stuck, cuts, refused>>

\* The arm a walk comes to after that of m.
After(m) ==
  IF only # "all" THEN "done"
  ELSE CASE m = "recovery" -> "oci" [] m = "oci" -> "cloudflare"
         [] m = "cloudflare" -> "b2" [] m = "b2" -> "done"

Walk(m) == IF m = "all" THEN "recovery" ELSE m

Goto(p) == pc' = p /\ UNCHANGED <<command, hand, left>>

\* A file that is there is resumed into only as this kit's own successor.
RequireSuccessor(k, i) == file[i] \in {"absent", k}

\* Of the names no file has yet, one stands for all.
NewFile == CHOOSE k \in Kit : file[k] = "absent"

\* Whose row is the live credential.
Live(k, i, m) == IF Holds(i, m) THEN i ELSE k

\* The account checks before the walk: OCI's reads the row, B2's authorizes.
ProveAccount(k, i, m) ==
  CASE m = "oci" -> Holds(Live(k, i, m), m)
    [] m = "b2"  -> Works(Live(k, i, m), m)
    [] OTHER     -> TRUE

\* `kit rotate --into i [--only m]` with the kit in service.
Rotate(i, m) ==
  /\ i # service /\ RequireSuccessor(service, i) /\ (file[i] = "absent" => i = NewFile)
  /\ \A n \in Member : m \in {"all", n} => ProveAccount(service, i, n)
  /\ Begin("rotate", service, i, m, IF file[i] = "absent" THEN "make" ELSE Walk(m))

\* `seed oci rotate` and `seed b2 rotate`: in the kit itself.
RotateRow(m) == Works(service, m) /\ Begin("rotate", service, service, m, m)

\* `kit bootstrap [--only m]`, where there is a row for it to create.
Bootstrap(m) ==
  /\ \E n \in Member : m \in {"all", n} /\ ~Has(First, n)
  /\ service = First
  /\ Begin("bootstrap", First, First, m, Walk(m))

\* `seed <m> create`, the repair of a row whose key is dead or not there: of a
\* successor's row a rotation refuses to sign as, and else of the kit in
\* service where nothing else signs as the seed.
Create(k, m) ==
  /\ Has(k, m) /\ ~Works(k, m)
  /\ \/ file[k] = service /\ Holds(k, m)
     \/ k = service /\ ~\E j \in Kit : Works(j, m)
  /\ Begin("create", k, k, m, IF m = "oci" THEN "room" ELSE m)

\* A row `bootstrap` finds there is left alone.
Skip ==
  /\ pc \in Member /\ cmd = "bootstrap" /\ Has(into, pc)
  /\ Goto(After(pc))
  /\ UNCHANGED <<kits, platform, checkout, operator>>

\* The database file of a successor is made, and then marked.
Make ==
  /\ pc = "make" /\ file' = [file EXCEPT ![into] = "unmarked"]
  /\ Goto("mark")
  /\ UNCHANGED <<recovery, oci, cloudflare, b2, platform, checkout, operator>>

Mark ==
  /\ pc = "mark" /\ file' = [file EXCEPT ![into] = kit]
  /\ Goto(Walk(only))
  /\ UNCHANGED <<recovery, oci, cloudflare, b2, platform, checkout, operator>>

\* The end: after a whole rotation the new kit is the one in service.
Done ==
  /\ pc = "done" /\ Idle
  /\ IF cmd = "rotate" /\ only = "all"
     THEN service' = into /\ retired' = retired \cup {kit}
     ELSE UNCHANGED <<service, retired>>
  /\ UNCHANGED <<kits, platform, checkout, full, stuck, cuts, refused>>

\* A refusal inside the walk.
Refuse == Idle /\ UNCHANGED <<kits, platform, checkout, operator>>

-----------------------------------------------------------------------------
(* The recovery row.                                                       *)

\* bootstrap: the key goes into the kit, and then its recipient into the
\* checkout.
InitRecovery ==
  /\ pc = "recovery" /\ cmd = "bootstrap" /\ ~Has(into, "recovery") /\ recipients = None
  /\ Mintable(RecoveryInUse)
  /\ recovery' = [recovery EXCEPT ![into] = FreshRecovery]
  /\ Goto("announce")
  /\ UNCHANGED <<file, oci, cloudflare, b2, platform, checkout, operator>>

SetRecipients ==
  /\ pc \in {"announce", "recipients"}
  /\ recipients' = recovery[into]
  /\ Goto(After("recovery"))
  /\ UNCHANGED <<kits, platform, sealed, operator>>

\* A key the successor holds is the one to re-wrap to.
SuccessorKey == IF Holds(into, "recovery") THEN recovery[into] ELSE FreshRecovery

RotateRecovery ==
  /\ pc = "recovery" /\ cmd = "rotate" /\ Holds(kit, "recovery")
  /\ Mintable(RecoveryInUse)
  /\ recovery' = [recovery EXCEPT ![into] = SuccessorKey]
  /\ Goto("open")
  /\ UNCHANGED <<file, oci, cloudflare, b2, platform, checkout, operator>>

\* Every ciphertext is opened, with either key, before one is written.
Opens == \A f \in Filed : sealed[f] \in {recovery[into], recovery[kit]}

Open ==
  /\ pc = "open" /\ Opens
  /\ left' = Filed /\ pc' = "write"
  /\ UNCHANGED <<kits, platform, checkout, command, hand, operator>>

RecoveryRefuses ==
  \/ pc = "recovery" /\ cmd = "rotate" /\ ~Holds(kit, "recovery") /\ Refuse
  \/ pc = "open" /\ ~Opens /\ Refuse

Write ==
  /\ pc = "write"
  /\ IF left = {}
     THEN pc' = "recipients" /\ UNCHANGED <<sealed, left>>
     ELSE LET f == CHOOSE n \in left : \A o \in left : n <= o
          IN  sealed' = [sealed EXCEPT ![f] = recovery[into]] /\ left' = left \ {f} /\ pc' = pc
  /\ UNCHANGED <<kits, platform, recipients, command, hand, operator>>

-----------------------------------------------------------------------------
(* The OCI row.                                                            *)

\* Every key on the user but the one that signs.
Superseded(k) == ociKeys \ {oci[k].key}

\* A successor that holds the row is finished; else the kit's key signs.
Signer(m) == Live(kit, into, m)

SignOci ==
  /\ pc = "oci" /\ cmd = "rotate" /\ Works(Signer("oci"), "oci")
  /\ pc' = IF Signer("oci") = kit THEN "clear" ELSE "sweep"
  /\ left' = Superseded(Signer("oci"))
  /\ UNCHANGED <<kits, platform, checkout, command, hand, operator>>

\* A key the platform no longer accepts, here and at the B2 row.
SignRefused ==
  /\ pc \in {"oci", "b2"} /\ cmd = "rotate" /\ ~Works(Signer(pc), pc)
  /\ Refuse

\* bootstrap: the account root signs, and there is no key to keep.
RootOci ==
  /\ pc = "oci" /\ cmd = "bootstrap" /\ ~Has(into, "oci")
  /\ Goto("room")
  /\ UNCHANGED <<kits, platform, checkout, operator>>

RetireOci(x) ==
  /\ pc \in {"clear", "sweep"} /\ x \in left
  /\ ociKeys' = ociKeys \ {x} /\ left' = left \ {x} /\ stuck' = stuck \ {x}
  /\ UNCHANGED <<kits, b2Keys, checkout, pc, command, hand, service, full, retired, cuts, refused>>

\* A deletion refused until the deadline: a console errand.
RetireRefused(x) ==
  /\ pc \in {"clear", "sweep"} /\ x \in left /\ refused < MaxRefused /\ refused' = refused + 1
  /\ left' = left \ {x} /\ stuck' = stuck \cup {x}
  /\ UNCHANGED <<kits, platform, checkout, pc, command, hand, service, full, retired, cuts>>

Swept ==
  /\ pc \in {"clear", "sweep"} /\ left = {}
  /\ Goto(IF pc = "clear" THEN "room" ELSE After("oci"))
  /\ UNCHANGED <<kits, platform, checkout, operator>>

RoomForOneMore == Cardinality(ociKeys) < Quota

MintOci ==
  /\ pc = "room" /\ RoomForOneMore /\ Mintable(OciInUse)
  /\ hand' = FreshOci /\ ociKeys' = ociKeys \cup {FreshOci}
  /\ pc' = "put"
  /\ UNCHANGED <<kits, b2Keys, checkout, command, left, operator>>

QuotaFull ==
  /\ pc = "room" /\ ~RoomForOneMore /\ Idle
  /\ full' = IF cmd = "rotate" THEN oci[kit].key ELSE 0
  /\ UNCHANGED <<kits, platform, checkout, service, retired, stuck, cuts, refused>>

\* _store: the entry, the key and the tenancy are saves of their own.
PutOci ==
  /\ pc = "put" /\ oci' = [oci EXCEPT ![into].entry = TRUE]
  /\ Goto("attach")
  /\ UNCHANGED <<file, recovery, cloudflare, b2, platform, checkout, operator>>

AttachOci ==
  /\ pc = "attach" /\ oci' = [oci EXCEPT ![into].key = hand]
  /\ Goto("tenancy")
  /\ UNCHANGED <<file, recovery, cloudflare, b2, platform, checkout, operator>>

TenancyOci ==
  /\ pc = "tenancy" /\ oci' = [oci EXCEPT ![into].tenancy = TRUE]
  /\ pc' = "sweep" /\ hand' = 0 /\ left' = ociKeys \ {hand}
  /\ UNCHANGED <<file, recovery, cloudflare, b2, platform, checkout, command, operator>>

-----------------------------------------------------------------------------
(* The Cloudflare and B2 rows.                                             *)

\* A token the successor holds is verified and written back; else one pasted.
Cloudflare ==
  /\ pc = "cloudflare" /\ (cmd = "bootstrap" => ~Has(into, "cloudflare"))
  /\ cloudflare' = [cloudflare EXCEPT ![into] = TRUE]
  /\ Goto(After("cloudflare"))
  /\ UNCHANGED <<file, recovery, oci, b2, platform, checkout, operator>>

\* A successor that holds the row is finished.
ResumeB2 ==
  /\ pc = "b2" /\ cmd = "rotate" /\ Signer("b2") # kit /\ Works(Signer("b2"), "b2")
  /\ left' = b2Keys \ {b2[into]} /\ pc' = "retire"
  /\ UNCHANGED <<kits, platform, checkout, command, hand, operator>>

\* The kit's key signs the mint, or the account root for a create.
MintB2 ==
  /\ pc = "b2"
  /\ \/ cmd = "rotate" /\ Signer("b2") = kit /\ Works(kit, "b2")
     \/ cmd = "bootstrap" /\ ~Has(into, "b2")
     \/ cmd = "create"
  /\ Mintable(B2InUse)
  /\ hand' = FreshB2 /\ b2Keys' = b2Keys \cup {FreshB2} /\ pc' = "store"
  /\ UNCHANGED <<kits, ociKeys, checkout, command, left, operator>>

StoreB2 ==
  /\ pc = "store" /\ b2' = [b2 EXCEPT ![into] = hand]
  /\ pc' = "retire" /\ hand' = 0 /\ left' = b2Keys \ {hand}
  /\ UNCHANGED <<file, recovery, oci, cloudflare, platform, checkout, command, operator>>

RetireB2 ==
  /\ pc = "retire"
  /\ \/ \E x \in left : b2Keys' = b2Keys \ {x} /\ left' = left \ {x} /\ pc' = pc
     \/ left = {} /\ pc' = After("b2") /\ UNCHANGED <<b2Keys, left>>
  /\ UNCHANGED <<kits, ociKeys, checkout, command, hand, operator>>

-----------------------------------------------------------------------------
(* Around the commands.                                                    *)

\* A run killed, a call that fails, a paste stopped.  The recipients file is
\* truncated before it is written.
Cut ==
  /\ pc # "idle" /\ cuts < MaxCuts /\ cuts' = cuts + 1 /\ Idle
  /\ recipients' \in {recipients} \cup IF pc \in {"announce", "recipients"} THEN {0} ELSE {}
  /\ UNCHANGED <<kits, platform, sealed, service, full, retired, stuck, refused>>

\* A successor that died before its marker shows no row, and is deleted.
Discard(i) ==
  /\ pc = "idle" /\ i # First /\ file[i] = "unmarked"
  /\ file' = [file EXCEPT ![i] = "absent"]
  /\ UNCHANGED <<recovery, oci, cloudflare, b2, platform, checkout, process, operator>>

\* The remedy of QuotaFull: in the console, all but the key to keep.
ClearQuota ==
  /\ pc = "idle" /\ full # None
  /\ ociKeys' = ociKeys \cap {full} /\ stuck' = stuck \cap {full} /\ full' = None
  /\ UNCHANGED <<kits, b2Keys, checkout, process, service, retired, cuts, refused>>

\* A write goes only where the kit in hand opens it.
Anchored(k, r) == Holds(k, "recovery") /\ r = recovery[k]

\* What the recipients file names here, or in a clone of any age.
Clones == {recipients} \cup {recovery[k] : k \in retired}

\* `derived <row> generate`, here or in a clone, the file merged.
Generate(k, r) ==
  LET free == 1..MaxFile \ Filed
  IN  /\ pc = "idle" /\ k \notin retired /\ Anchored(k, r) /\ free # {}
      /\ sealed' = [sealed EXCEPT ![CHOOSE n \in free : \A o \in free : n <= o] = r]
      /\ UNCHANGED <<kits, platform, recipients, process, operator>>

NoOci == [entry |-> FALSE, key |-> 0, tenancy |-> FALSE]

Init ==
  /\ file = [k \in Kit |-> IF k = First THEN "unmarked" ELSE "absent"]
  /\ recovery = [k \in Kit |-> 0] /\ b2 = [k \in Kit |-> 0]
  /\ oci = [k \in Kit |-> NoOci] /\ cloudflare = [k \in Kit |-> FALSE]
  /\ ociKeys = {} /\ b2Keys = {}
  /\ sealed = [f \in 1..MaxFile |-> 0] /\ recipients = None
  /\ pc = "idle" /\ cmd = "rotate" /\ kit = First /\ into = First /\ only = "all"
  /\ hand = 0 /\ left = {}
  /\ service = First /\ full = None /\ retired = {} /\ stuck = {} /\ cuts = 0 /\ refused = 0

Step ==
  \/ Skip \/ Make \/ Mark \/ Done
  \/ InitRecovery \/ SetRecipients \/ RotateRecovery \/ Open \/ RecoveryRefuses \/ Write
  \/ SignOci \/ SignRefused \/ RootOci \/ (\E x \in Key : RetireOci(x)) \/ Swept
  \/ MintOci \/ QuotaFull \/ PutOci \/ AttachOci \/ TenancyOci
  \/ Cloudflare \/ ResumeB2 \/ MintB2 \/ StoreB2 \/ RetireB2

Next ==
  \/ \E i \in Kit, m \in Only : Rotate(i, m)
  \/ \E m \in {"oci", "b2"} : RotateRow(m) \/ \E k \in Kit : Create(k, m)
  \/ \E m \in Only : Bootstrap(m)
  \/ Step \/ Cut \/ \E x \in Key : RetireRefused(x)
  \/ (\E i \in Kit : Discard(i)) \/ ClearQuota
  \/ \E k \in Kit, r \in Clones : Generate(k, r)

Spec == Init /\ [][Next]_vars

\* A command goes on until it ends, and the operator re-runs the rotation, and
\* does what a refusal names.
FairSpec ==
  /\ Spec
  /\ WF_vars(Step)
  /\ SF_vars(\E i \in Kit : Rotate(i, "all"))
  /\ SF_vars(\E k \in Kit, m \in {"oci", "b2"} : Create(k, m))
  /\ SF_vars(ClearQuota \/ \E i \in Kit : Discard(i))

-----------------------------------------------------------------------------
(* Properties.                                                             *)

\* The OCI and B2 seeds are never lost: while a kit's row signs, no step of a
\* rotation, a resumption or a repair, cut anywhere, leaves none that does.
\* (A create refused for a full user says to delete every key, and mints.)
SeedsSurvive ==
  [][\/ full = 0 /\ full' = None
     \/ \A m \in {"oci", "b2"} : (\E k \in Kit : Works(k, m)) => (\E k \in Kit : Works(k, m))']_vars

\* Every ciphertext opens with a recovery key some kit holds, part way through
\* a re-wrap as after one.
EscrowOpens == \A f \in Filed : \E k \in Kit : recovery[k] = sealed[f]

\* A retired kit opens nothing: no ciphertext, whichever checkout wrote it, and
\* at the platforms no key but one whose deletion was refused.
RetiredIsDead ==
  \A k \in retired :
    /\ \A f \in Filed : sealed[f] # recovery[k]
    /\ recipients # recovery[k] /\ b2[k] \notin b2Keys /\ oci[k].key \notin ociKeys \ stuck

\* A rotation of a whole kit that is cut short is finished by running it again,
\* unless the operator began a second one into another file.
Split == \E i, j \in Kit : i # j /\ file[i] = First /\ file[j] = First
Completes == Whole(First) ~> (First \in retired \/ Split)
=============================================================================
