--------------------------- MODULE SeedKit_proofs ---------------------------
(***************************************************************************)
(* For any number of kits, generations, cuts and refusals, and any quota:  *)
(* the types, with the user's API keys within their quota; that a retired  *)
(* kit opens nothing; that every ciphertext opens; and that no step of a   *)
(* command loses a seed.                                                   *)
(***************************************************************************)
EXTENDS SeedKit, FiniteSetTheorems, TLAPS

\* A file that is not a kit yet holds no row; the first kit names no predecessor.
Empty(k) == recovery[k] = 0 /\ ~oci[k].entry /\ ~cloudflare[k] /\ b2[k] = 0
Rows ==
  /\ file[First] = "unmarked"
  /\ \A k \in Kit : file[k] = "absent" \/ (file[k] = "unmarked" /\ k # First) => Empty(k)

\* The kits in service followed one another, none of them twice.
Lineage ==
  /\ service \notin retired
  /\ \A k \in retired \cup {service} : k = First \/ file[k] \in retired

\* No two kits share a key.
Distinct ==
  \A j, k \in Kit : j # k =>
    /\ recovery[j] = recovery[k] => recovery[j] = 0
    /\ oci[j].key = oci[k].key => oci[j].key = 0
    /\ b2[j] = b2[k] => b2[j] = 0

\* A command works on kits that are not retired, and a rotation goes from the
\* kit in service to a successor of it, or stays in it.
WholeRotation == cmd = "rotate" /\ only = "all"
Hands ==
  pc # "idle" =>
    /\ kit \notin retired /\ into \notin retired /\ full = None
    /\ cmd = "rotate" => kit = service
    /\ pc \in {"make", "mark"} =>
         /\ cmd = "rotate" /\ into # First
         /\ file[into] = IF pc = "make" THEN "absent" ELSE "unmarked"
    /\ pc \notin {"make", "mark"} => into = First \/ file[into] \in Kit
    /\ WholeRotation => into # kit /\ (pc \notin {"make", "mark"} => file[into] = kit)

\* How far a rotation of the whole kit has come: the ciphertexts, the OCI user
\* and the B2 keys.
PastRecovery == {"oci", "clear", "room", "put", "attach", "tenancy", "sweep"}
PastOci      == {"cloudflare", "b2", "store", "retire", "done"}
Walked ==
  /\ pc \in {"open", "write", "recipients"} =>
       cmd = "rotate" /\ recovery[into] # 0 /\ recovery[kit] # 0
  /\ pc = "announce" => cmd = "bootstrap"
  /\ pc = "write" => \A f \in Filed \ left : sealed[f] = recovery[into]
  /\ pc = "recipients" => \A f \in Filed : sealed[f] = recovery[into]
  /\ WholeRotation /\ pc \in PastRecovery \cup PastOci =>
       /\ recovery[into] # 0 /\ recovery[kit] # 0 /\ recipients = recovery[into]
       /\ \A f \in Filed : sealed[f] = recovery[into]
  /\ WholeRotation /\ pc \in PastOci => ociKeys \subseteq {oci[into].key} \cup stuck
  /\ WholeRotation /\ pc = "done" => b2Keys \subseteq {b2[into]}

\* What the OCI row of a command rests on, at each of its steps: the key that
\* signs until the new one is stored, the new one afterwards.
Signs(k) == oci[k].key \in ociKeys /\ oci[k].tenancy
OciArm ==
  /\ pc = "clear" => cmd = "rotate" /\ Signs(kit) /\ left \subseteq ociKeys \ {oci[kit].key}
  /\ pc = "room" /\ cmd = "rotate" => Signs(kit)
  /\ pc \in {"put", "attach"} => \A k \in Kit : oci[k].key # hand
  /\ pc \in {"put", "attach", "tenancy"} => hand \in ociKeys
  /\ pc \in {"attach", "tenancy"} => oci[into].entry
  /\ pc = "tenancy" => oci[into].key = hand
  /\ pc = "sweep" =>
       /\ Signs(into) /\ left \subseteq ociKeys \ {oci[into].key}
       /\ ociKeys \subseteq {oci[into].key} \cup left \cup stuck
  /\ full \in Key => \E k \in Kit : Signs(k) /\ oci[k].key = full

\* The same of its B2 row.
B2Arm ==
  /\ pc = "store" => hand \in b2Keys /\ \A k \in Kit : b2[k] # hand
  /\ pc = "retire" =>
       /\ b2[into] \in b2Keys /\ left \subseteq b2Keys \ {b2[into]}
       /\ b2Keys \subseteq {b2[into]} \cup left

\* A retired kit had a recovery key.
Dead == RetiredIsDead /\ \A k \in retired : recovery[k] # 0

IInv == TypeOK /\ Rows /\ Lineage /\ Distinct /\ Hands /\ Walked /\ OciArm /\ B2Arm /\ Dead
-----------------------------------------------------------------------------
(* The model's operators, and which step writes what.                      *)

LEMMA FreshKey ==
  ASSUME NEW used, Mintable(used)
  PROVE  Fresh(used) \in Key /\ Fresh(used) \notin used
BY DEF Mintable, Fresh

LEMMA Keys ==
  /\ IsFiniteSet(Key) /\ 0 \notin Key /\ None \notin Key /\ None # 0
  /\ \A k \in Kit : k # "absent" /\ k # "unmarked" /\ k # "none"
BY FS_Interval, SeedKitAssumption DEF SeedKitAssumption, Key

Begins ==
  \/ \E i \in Kit, m \in Only : Rotate(i, m)
  \/ \E m \in {"oci", "b2"} : RotateRow(m) \/ \E k \in Kit : Create(k, m)
  \/ \E m \in Only : Bootstrap(m)

\* A command begins with nothing written and nothing remembered.
LEMMA BeginsQuietly ==
  ASSUME Begins
  PROVE  /\ pc = "idle" /\ full' = None
         /\ UNCHANGED <<kits, platform, checkout, hand, left, service, retired, stuck, cuts, refused>>
BY DEF Begins, Rotate, RotateRow, Create, Bootstrap, Begin

LEMMA WritesKits ==
  ASSUME Next
  PROVE  /\ file' = file \/ Make \/ Mark \/ \E i \in Kit : Discard(i)
         /\ recovery' = recovery \/ InitRecovery \/ RotateRecovery
         /\ oci' = oci \/ PutOci \/ AttachOci \/ TenancyOci
         /\ cloudflare' = cloudflare \/ Cloudflare
         /\ b2' = b2 \/ StoreB2
<1>1. CASE Begins
  BY <1>1, BeginsQuietly DEF kits
<1>2. CASE Step
  BY <1>2 DEF Step, Skip, Make, Mark, Done, InitRecovery, SetRecipients,
     RotateRecovery, Open, RecoveryRefuses, Refuse, Write, SignOci, SignRefused, RootOci,
     RetireOci, Swept, MintOci, QuotaFull, PutOci, AttachOci, TenancyOci, Cloudflare,
     ResumeB2, MintB2, StoreB2, RetireB2, kits
<1>3. CASE Cut \/ (\E x \in Key : RetireRefused(x)) \/ (\E i \in Kit : Discard(i)) \/ ClearQuota
           \/ \E k \in Kit, r \in Clones : Generate(k, r)
  BY <1>3 DEF Cut, RetireRefused, Discard, ClearQuota, Generate, kits
<1> QED  BY <1>1, <1>2, <1>3 DEF Next, Begins

LEMMA WritesPlatform ==
  ASSUME Next
  PROVE  /\ ociKeys' = ociKeys \/ MintOci \/ ClearQuota \/ \E x \in Key : RetireOci(x)
         /\ b2Keys' = b2Keys \/ MintB2 \/ RetireB2
         /\ sealed' = sealed \/ Write \/ \E k \in Kit, r \in Clones : Generate(k, r)
         /\ recipients' = recipients \/ SetRecipients \/ Cut
         /\ UNCHANGED <<service, retired>> \/ Done
         /\ stuck' = stuck \/ ClearQuota \/ \E x \in Key : RetireOci(x) \/ RetireRefused(x)
<1>1. CASE Begins
  BY <1>1, BeginsQuietly DEF platform, checkout
<1>2. CASE Step
  BY <1>2 DEF Step, Skip, Make, Mark, Done, InitRecovery, SetRecipients,
     RotateRecovery, Open, RecoveryRefuses, Refuse, Write, SignOci, SignRefused, RootOci,
     RetireOci, Swept, MintOci, QuotaFull, PutOci, AttachOci, TenancyOci, Cloudflare,
     ResumeB2, MintB2, StoreB2, RetireB2, platform, checkout, operator
<1>3. CASE Cut \/ (\E x \in Key : RetireRefused(x)) \/ (\E i \in Kit : Discard(i)) \/ ClearQuota
           \/ \E k \in Kit, r \in Clones : Generate(k, r)
  BY <1>3 DEF Cut, RetireRefused, Discard, ClearQuota, Generate, platform, checkout, operator
<1> QED  BY <1>1, <1>2, <1>3 DEF Next, Begins

-----------------------------------------------------------------------------
(* The types.                                                              *)

LEMMA TypeInit ==
  ASSUME Init
  PROVE  TypeOK
<1>1. Cardinality(ociKeys) <= Quota /\ IsFiniteSet(ociKeys)
  BY FS_EmptySet, SeedKitAssumption DEF Init, SeedKitAssumption
<1>2. oci \in [Kit -> [entry : BOOLEAN, key : Key \cup {0}, tenancy : BOOLEAN]]
  BY DEF Init, NoOci
<1>3. \A k \in Kit : ~oci[k].entry /\ ~oci[k].tenancy /\ oci[k].key = 0
  BY DEF Init, NoOci
<1>4. only \in Member \cup {"all"} /\ pc \in Pc
  BY DEF Init, Pc
<1>5. cloudflare \in [Kit -> BOOLEAN] /\ \A k \in Kit : ~cloudflare[k]
  BY DEF Init
<1> QED  BY <1>1, <1>2, <1>3, <1>4, <1>5, SeedKitAssumption DEF Init, TypeOK, SeedKitAssumption

LEMMA FileType ==
  ASSUME IInv, Next
  PROVE  (file \in [Kit -> Kit \cup {"absent", "unmarked"}])'
BY WritesKits DEF IInv, TypeOK, Make, Mark, Discard

LEMMA RecoveryType ==
  ASSUME IInv, Next
  PROVE  (recovery \in [Kit -> Key \cup {0}])'
<1>1. CASE InitRecovery \/ RotateRecovery
  <2>1. Mintable(RecoveryInUse)
    BY <1>1 DEF InitRecovery, RotateRecovery
  <2>2. FreshRecovery \in Key
    BY <2>1, FreshKey DEF FreshRecovery
  <2> QED  BY <1>1, <2>2 DEF IInv, TypeOK, InitRecovery, RotateRecovery, SuccessorKey
<1> QED  BY <1>1, WritesKits DEF IInv, TypeOK

LEMMA OciType ==
  ASSUME IInv, Next
  PROVE  /\ (oci \in [Kit -> [entry : BOOLEAN, key : Key \cup {0}, tenancy : BOOLEAN]])'
         /\ \A k \in Kit : /\ oci'[k].tenancy => oci'[k].key # 0
                           /\ oci'[k].key # 0 => oci'[k].entry
<1> DEFINE Row == [entry : BOOLEAN, key : Key \cup {0}, tenancy : BOOLEAN]
<1>1. into \in Kit /\ oci \in [Kit -> Row] /\ hand \in Key \cup {0}
  BY DEF IInv, TypeOK
<1>2. \A k \in Kit : /\ oci[k].tenancy => oci[k].key # 0
                     /\ oci[k].key # 0 => oci[k].entry
  BY DEF IInv, TypeOK
<1>3. CASE PutOci
  <2>1. oci' = [oci EXCEPT ![into] = [oci[into] EXCEPT !.entry = TRUE]]
    BY <1>3, <1>1 DEF PutOci
  <2>2. [oci[into] EXCEPT !.entry = TRUE] \in Row
    BY <1>1
  <2> QED  BY <2>1, <2>2, <1>1, <1>2
<1>4. CASE AttachOci
  <2>1. oci' = [oci EXCEPT ![into] = [oci[into] EXCEPT !.key = hand]]
    BY <1>4, <1>1 DEF AttachOci
  <2>2. [oci[into] EXCEPT !.key = hand] \in Row
    BY <1>1
  <2>3. hand # 0 /\ oci[into].entry
    BY <1>4, Keys DEF IInv, OciArm, AttachOci, TypeOK
  <2> QED  BY <2>1, <2>2, <2>3, <1>1, <1>2
<1>5. CASE TenancyOci
  <2>1. oci' = [oci EXCEPT ![into] = [oci[into] EXCEPT !.tenancy = TRUE]]
    BY <1>5, <1>1 DEF TenancyOci
  <2>2. [oci[into] EXCEPT !.tenancy = TRUE] \in Row
    BY <1>1
  <2>3. oci[into].key # 0
    BY <1>5, Keys DEF IInv, OciArm, TenancyOci, TypeOK
  <2> QED  BY <2>1, <2>2, <2>3, <1>1, <1>2
<1>6. CASE oci' = oci
  BY <1>6, <1>1, <1>2
<1> QED  BY <1>3, <1>4, <1>5, <1>6, WritesKits

LEMMA B2Type ==
  ASSUME IInv, Next
  PROVE  (b2 \in [Kit -> Key \cup {0}])' /\ (cloudflare \in [Kit -> BOOLEAN])'
<1>1. (b2 \in [Kit -> Key \cup {0}])'
  BY WritesKits DEF IInv, TypeOK, StoreB2
<1>2. (cloudflare \in [Kit -> BOOLEAN])'
  BY WritesKits DEF IInv, TypeOK, Cloudflare
<1> QED  BY <1>1, <1>2

\* A deletion takes nothing in; a mint is one more where the quota leaves room.
LEMMA PlatformType ==
  ASSUME IInv, Next
  PROVE  /\ (ociKeys \subseteq Key /\ b2Keys \subseteq Key)'
         /\ (Cardinality(ociKeys) <= Quota)'
<1>1. IsFiniteSet(ociKeys) /\ Cardinality(ociKeys) \in Nat /\ Cardinality(ociKeys) <= Quota
  BY Keys, FS_Subset, FS_CardinalityType DEF IInv, TypeOK
<1>2. CASE MintOci
  <2>1. Cardinality(ociKeys) < Quota /\ ociKeys' = ociKeys \cup {FreshOci} /\ b2Keys' = b2Keys
    BY <1>2 DEF MintOci, RoomForOneMore
  <2>2. FreshOci \in Key /\ FreshOci \notin ociKeys
    BY <1>2, FreshKey DEF MintOci, FreshOci, OciInUse
  <2>3. Cardinality(ociKeys \cup {FreshOci}) = Cardinality(ociKeys) + 1
    BY <1>1, <2>2, FS_AddElement
  <2>4. Cardinality(ociKeys') <= Quota
    BY <1>1, <2>1, <2>3, SeedKitAssumption DEF SeedKitAssumption
  <2> QED  BY <2>1, <2>2, <2>4 DEF IInv, TypeOK
<1>3. CASE ociKeys' \subseteq ociKeys
  <2>1. Cardinality(ociKeys') <= Cardinality(ociKeys) /\ Cardinality(ociKeys') \in Nat
    BY <1>1, <1>3, FS_Subset, FS_CardinalityType
  <2>2. (b2Keys \subseteq Key)'
    <3>1. CASE MintB2
      BY <3>1, FreshKey DEF MintB2, FreshB2, IInv, TypeOK
    <3>2. CASE b2Keys' \subseteq b2Keys
      BY <3>2 DEF IInv, TypeOK
    <3> QED  BY <3>1, <3>2, WritesPlatform DEF RetireB2
  <2> QED  BY <1>1, <1>3, <2>1, <2>2, SeedKitAssumption DEF IInv, TypeOK, SeedKitAssumption
<1> QED  BY <1>2, <1>3, WritesPlatform DEF ClearQuota, RetireOci

LEMMA CheckoutType ==
  ASSUME IInv, Next
  PROVE  /\ (sealed \in [1..MaxFile -> Key \cup {0}])'
         /\ (recipients \in Key \cup {0, None})'
<1>1. \A k \in Kit : recovery[k] \in Key \cup {0}
  BY DEF IInv, TypeOK
<1>2. into \in Kit /\ sealed \in [1..MaxFile -> Key \cup {0}] /\ recipients \in Key \cup {0, None}
  BY DEF IInv, TypeOK
<1>3. (sealed \in [1..MaxFile -> Key \cup {0}])'
  <2>1. ASSUME NEW k \in Kit, NEW r \in Clones, Generate(k, r)
        PROVE  r \in Key \cup {0}
    BY <2>1, <1>1 DEF Generate, Anchored
  <2>2. CASE Write
    BY <2>2, <1>1, <1>2 DEF Write
  <2> QED  BY <2>1, <2>2, <1>2, WritesPlatform DEF Generate
<1>4. (recipients \in Key \cup {0, None})'
  BY <1>1, <1>2, WritesPlatform DEF SetRecipients, Cut
<1> QED  BY <1>3, <1>4

\* The arm after each of the walk's is one of its own.
LEMMA AfterType ==
  ASSUME NEW m \in Member
  PROVE  After(m) \in Member \cup {"done"}
BY DEF After, Member

LEMMA WalkType ==
  ASSUME NEW m \in Only
  PROVE  Walk(m) \in Member /\ m \in Member \cup {"all"}
BY SeedKitAssumption DEF Walk, Member, SeedKitAssumption

LEMMA BeginType ==
  ASSUME IInv, Begins
  PROVE  /\ (pc \in Pc /\ cmd \in {"rotate", "bootstrap", "create"})'
         /\ (kit \in Kit /\ into \in Kit /\ only \in Member \cup {"all"})'
<1>1. ASSUME NEW i \in Kit, NEW m \in Only, Rotate(i, m)
      PROVE  /\ pc' \in {"make"} \cup Member /\ cmd' = "rotate" /\ kit' = service /\ into' = i
             /\ only' = m /\ m \in Member \cup {"all"}
  BY <1>1, WalkType DEF Rotate, Begin
<1>2. ASSUME NEW m \in Only, Bootstrap(m)
      PROVE  /\ pc' \in Member /\ cmd' = "bootstrap" /\ kit' = First /\ into' = First
             /\ only' = m /\ m \in Member \cup {"all"}
  BY <1>2, WalkType DEF Bootstrap, Begin
<1>3. service \in Kit /\ First \in Kit
  BY SeedKitAssumption DEF IInv, TypeOK, SeedKitAssumption
<1> QED  BY <1>1, <1>2, <1>3 DEF Begins, RotateRow, Create, Begin, Pc, Member

LEMMA ProcessType ==
  ASSUME IInv, Next
  PROVE  /\ (pc \in Pc /\ cmd \in {"rotate", "bootstrap", "create"})'
         /\ (kit \in Kit /\ into \in Kit /\ only \in Member \cup {"all"})'
         /\ (hand \in Key \cup {0} /\ left \subseteq Key \cup 1..MaxFile)'
<1>1. CASE Begins
  BY <1>1, BeginType, BeginsQuietly DEF IInv, TypeOK
<1>2. CASE Step
  <2>1. /\ "done" \in Pc /\ \A m \in Member : After(m) \in Pc /\ (pc = m => m \in Pc)
        /\ Walk(only) \in Pc
    BY AfterType DEF Pc, Member, Walk, IInv, TypeOK
  <2>2. hand' \in Key \cup {0}
    <3>1. CASE MintOci
      BY <3>1, FreshKey DEF MintOci, FreshOci
    <3>2. CASE MintB2
      BY <3>2, FreshKey DEF MintB2, FreshB2
    <3>3. CASE hand' \in {hand, 0}
      BY <3>3 DEF IInv, TypeOK
    <3> QED  BY <1>2, <3>1, <3>2, <3>3 DEF Step, Skip, Make, Mark, Done, Goto, Idle, InitRecovery, SetRecipients,
         RotateRecovery, Open, RecoveryRefuses, Refuse, Write, SignOci, SignRefused, RootOci,
         RetireOci, Swept, QuotaFull, PutOci, AttachOci, TenancyOci, Cloudflare,
         ResumeB2, StoreB2, RetireB2
  <2>3. left' \subseteq Key \cup 1..MaxFile
    <3>1. left \subseteq Key \cup 1..MaxFile /\ ociKeys \subseteq Key /\ b2Keys \subseteq Key
      BY DEF IInv, TypeOK
    <3>2. left' \subseteq left \cup ociKeys \cup b2Keys \cup Filed
      BY <1>2 DEF Step, Skip, Make, Mark, Done, Goto, Idle, InitRecovery, SetRecipients,
         RotateRecovery, Open, RecoveryRefuses, Refuse, Write, SignOci, SignRefused, RootOci, Superseded,
         RetireOci, Swept, MintOci, MintB2, QuotaFull, PutOci, AttachOci, TenancyOci, Cloudflare,
         ResumeB2, StoreB2, RetireB2
    <3> QED  BY <3>1, <3>2 DEF Filed
  <2>4. (pc \in Pc)'
    BY <1>2, <2>1 DEF Step, Skip, Make, Mark, Done, Goto, Idle, InitRecovery, SetRecipients,
       RotateRecovery, Open, RecoveryRefuses, Refuse, Write, SignOci, SignRefused, RootOci,
       RetireOci, Swept, MintOci, MintB2, QuotaFull, PutOci, AttachOci, TenancyOci, Cloudflare,
       ResumeB2, StoreB2, RetireB2, Pc, Member
  <2>5. UNCHANGED command \/ Idle
    BY <1>2 DEF Step, Skip, Make, Mark, Done, Goto, InitRecovery, SetRecipients,
       RotateRecovery, Open, RecoveryRefuses, Refuse, Write, SignOci, SignRefused, RootOci,
       RetireOci, Swept, MintOci, MintB2, QuotaFull, PutOci, AttachOci, TenancyOci, Cloudflare,
       ResumeB2, StoreB2, RetireB2
  <2> QED  BY <2>2, <2>3, <2>4, <2>5, SeedKitAssumption DEF command, Idle, IInv, TypeOK, SeedKitAssumption
<1>3. CASE Cut \/ (\E x \in Key : RetireRefused(x)) \/ (\E i \in Kit : Discard(i)) \/ ClearQuota
           \/ \E k \in Kit, r \in Clones : Generate(k, r)
  BY <1>3, SeedKitAssumption DEF Cut, Idle, RetireRefused, Discard, ClearQuota, Generate, process, command,
     Pc, IInv, TypeOK, SeedKitAssumption
<1> QED  BY <1>1, <1>2, <1>3 DEF Next, Begins

LEMMA OperatorType ==
  ASSUME IInv, Next
  PROVE  /\ (service \in Kit /\ full \in Key \cup {0, None})'
         /\ (retired \subseteq Kit /\ stuck \subseteq ociKeys)'
         /\ (cuts \in 0..MaxCuts /\ refused \in 0..MaxRefused)'
<1>1. CASE Begins
  BY <1>1, BeginsQuietly DEF platform, IInv, TypeOK
<1>2. CASE Step
  <2>1. full' \in Key \cup {0, None}
    <3>1. oci[kit].key \in Key \cup {0}
      BY DEF IInv, TypeOK
    <3>2. full' = full \/ QuotaFull
      BY <1>2 DEF Step, Skip, Make, Mark, Done, InitRecovery, SetRecipients,
         RotateRecovery, Open, RecoveryRefuses, Refuse, Write, SignOci, SignRefused, RootOci,
         RetireOci, Swept, MintOci, MintB2, PutOci, AttachOci, TenancyOci, Cloudflare,
         ResumeB2, StoreB2, RetireB2, operator
    <3> QED  BY <3>1, <3>2 DEF QuotaFull, IInv, TypeOK
  <2>2. UNCHANGED <<cuts, refused>>
    BY <1>2 DEF Step, Skip, Make, Mark, Done, InitRecovery, SetRecipients,
       RotateRecovery, Open, RecoveryRefuses, Refuse, Write, SignOci, SignRefused, RootOci,
       RetireOci, Swept, MintOci, MintB2, QuotaFull, PutOci, AttachOci, TenancyOci, Cloudflare,
       ResumeB2, StoreB2, RetireB2, operator
  <2>3. (service \in Kit /\ retired \subseteq Kit)'
    BY <1>2, WritesPlatform DEF Next, Done, IInv, TypeOK
  <2>4. (stuck \subseteq ociKeys)'
    <3>1. stuck \subseteq ociKeys
      BY DEF IInv, TypeOK
    <3>2. (stuck' = stuck /\ ociKeys \subseteq ociKeys') \/ \E x \in Key : RetireOci(x)
      BY <1>2 DEF Step, Skip, Make, Mark, Done, InitRecovery, SetRecipients,
         RotateRecovery, Open, RecoveryRefuses, Refuse, Write, SignOci, SignRefused, RootOci,
         Swept, MintOci, MintB2, QuotaFull, PutOci, AttachOci, TenancyOci, Cloudflare,
         ResumeB2, StoreB2, RetireB2, operator, platform
    <3> QED  BY <3>1, <3>2 DEF RetireOci
  <2> QED  BY <2>1, <2>2, <2>3, <2>4 DEF IInv, TypeOK
<1>3. CASE Cut
  BY <1>3, SeedKitAssumption DEF Cut, platform, IInv, TypeOK, SeedKitAssumption
<1>4. ASSUME NEW x \in Key, RetireRefused(x)
      PROVE  /\ (service \in Kit /\ full \in Key \cup {0, None})'
             /\ (retired \subseteq Kit /\ stuck \subseteq ociKeys)'
             /\ (cuts \in 0..MaxCuts /\ refused \in 0..MaxRefused)'
  <2>1. left \subseteq ociKeys
    BY <1>4 DEF RetireRefused, IInv, OciArm
  <2> QED  BY <1>4, <2>1, SeedKitAssumption DEF RetireRefused, platform, IInv, TypeOK, SeedKitAssumption
<1>5. CASE (\E i \in Kit : Discard(i)) \/ ClearQuota \/ \E k \in Kit, r \in Clones : Generate(k, r)
  BY <1>5 DEF Discard, ClearQuota, Generate, platform, operator, IInv, TypeOK
<1> QED  BY <1>1, <1>2, <1>3, <1>4, <1>5 DEF Next, Begins

-----------------------------------------------------------------------------
(* Where the rows are written: a kit that is one, in service or to be.     *)

\* A row is written in the arms of the walk alone.
LEMMA WritesRows ==
  ASSUME IInv, Next, ~UNCHANGED <<recovery, oci, cloudflare, b2>>
  PROVE  /\ into \in Kit /\ into \notin retired /\ file' = file
         /\ into = First \/ file[into] \in Kit
         /\ \A k \in Kit \ {into} : /\ recovery'[k] = recovery[k] /\ oci'[k] = oci[k]
                                    /\ cloudflare'[k] = cloudflare[k] /\ b2'[k] = b2[k]
<1>1. InitRecovery \/ RotateRecovery \/ PutOci \/ AttachOci \/ TenancyOci \/ Cloudflare \/ StoreB2
  BY WritesKits
<1>2. pc \notin {"idle", "make", "mark"} /\ file' = file
  BY <1>1 DEF InitRecovery, RotateRecovery, PutOci, AttachOci, TenancyOci, Cloudflare, StoreB2
<1>3. /\ into \in Kit
      /\ DOMAIN recovery = Kit /\ DOMAIN oci = Kit /\ DOMAIN cloudflare = Kit /\ DOMAIN b2 = Kit
  BY DEF IInv, TypeOK
<1>4. \A k \in Kit \ {into} : /\ recovery'[k] = recovery[k] /\ oci'[k] = oci[k] /\ b2'[k] = b2[k]
  BY <1>1, <1>3 DEF InitRecovery, RotateRecovery, PutOci, AttachOci, TenancyOci, Cloudflare, StoreB2
<1>5. \A k \in Kit \ {into} : cloudflare'[k] = cloudflare[k]
  BY <1>1, <1>3 DEF InitRecovery, RotateRecovery, PutOci, AttachOci, TenancyOci, Cloudflare, StoreB2
<1> QED  BY <1>2, <1>3, <1>4, <1>5 DEF IInv, Hands

LEMMA RowsStep ==
  ASSUME IInv, Next
  PROVE  Rows'
<1>0. First \in Kit /\ service \in Kit
  BY SeedKitAssumption DEF SeedKitAssumption, IInv, TypeOK
<1>1. CASE UNCHANGED <<recovery, oci, cloudflare, b2>>
  <2>1. CASE file' = file
    BY <1>1, <2>1 DEF IInv, Rows, Empty
  <2>2. CASE Make
    BY <1>0, <1>1, <2>2 DEF IInv, TypeOK, Hands, Rows, Empty, Make
  <2>3. CASE Mark
    BY <1>0, <1>1, <2>3, Keys DEF IInv, TypeOK, Hands, Rows, Empty, Mark
  <2>4. CASE \E i \in Kit : Discard(i)
    BY <1>0, <1>1, <2>4 DEF IInv, TypeOK, Rows, Empty, Discard
  <2> QED  BY <2>1, <2>2, <2>3, <2>4, WritesKits
<1>2. CASE ~UNCHANGED <<recovery, oci, cloudflare, b2>>
  BY <1>0, <1>2, WritesRows, Keys DEF IInv, Rows, Empty
<1> QED  BY <1>1, <1>2

LEMMA TypeStep ==
  ASSUME IInv, Next
  PROVE  TypeOK'
<1>1. \A k \in Kit : file'[k] = "absent" =>
        recovery'[k] = 0 /\ ~oci'[k].entry /\ ~cloudflare'[k] /\ b2'[k] = 0
  BY RowsStep, SeedKitAssumption DEF Rows, Empty, SeedKitAssumption
<1> QED  BY <1>1, FileType, RecoveryType, OciType, B2Type, PlatformType, CheckoutType,
            ProcessType, OperatorType DEF TypeOK

LEMMA LineageStep ==
  ASSUME IInv, Next
  PROVE  Lineage'
<1>0. /\ service \in Kit /\ retired \subseteq Kit /\ into \in Kit /\ kit \in Kit
      /\ file \in [Kit -> Kit \cup {"absent", "unmarked"}]
  BY DEF IInv, TypeOK
<1>1. CASE Done
  BY <1>0, <1>1 DEF Done, IInv, Lineage, Hands, WholeRotation, kits
<1>2. CASE service' = service /\ retired' = retired
  <2>1. CASE file' = file
    BY <1>2, <2>1 DEF IInv, Lineage
  <2>2. CASE Make \/ Mark
    <3>1. into # First /\ file[into] \in {"absent", "unmarked"}
      BY <2>2 DEF Make, Mark, IInv, Hands
    <3>2. into \notin retired \cup {service}
      BY <1>0, <3>1, Keys DEF IInv, Lineage
    <3> QED  BY <1>0, <1>2, <2>2, <3>2 DEF Make, Mark, IInv, Lineage
  <2>3. ASSUME NEW i \in Kit, Discard(i)
        PROVE  Lineage'
    <3>1. i \notin retired \cup {service}
      BY <1>0, <2>3, Keys DEF Discard, IInv, Lineage
    <3> QED  BY <1>0, <1>2, <2>3, <3>1 DEF Discard, IInv, Lineage
  <2> QED  BY <2>1, <2>2, <2>3, WritesKits
<1> QED  BY <1>1, <1>2, WritesPlatform

LEMMA DistinctStep ==
  ASSUME IInv, Next
  PROVE  Distinct'
<1>0. /\ into \in Kit
      /\ DOMAIN recovery = Kit /\ DOMAIN oci = Kit /\ DOMAIN b2 = Kit
  BY DEF IInv, TypeOK
<1>1. \A j, k \in Kit : j # k => (recovery'[j] = recovery'[k] => recovery'[j] = 0)
  <2>1. CASE InitRecovery \/ RotateRecovery
    <3>1. Mintable(RecoveryInUse)
      BY <2>1 DEF InitRecovery, RotateRecovery
    <3>2. \A k \in Kit : FreshRecovery # recovery[k]
      BY <3>1, FreshKey DEF FreshRecovery, RecoveryInUse
    <3>3. recovery' = [recovery EXCEPT ![into] = recovery'[into]] /\ recovery'[into] \in {recovery[into], FreshRecovery}
      BY <1>0, <2>1 DEF InitRecovery, RotateRecovery, SuccessorKey
    <3> QED  BY <1>0, <3>2, <3>3 DEF IInv, Distinct
  <2> QED  BY <2>1, WritesKits DEF IInv, Distinct
<1>2. \A j, k \in Kit : j # k => (oci'[j].key = oci'[k].key => oci'[j].key = 0)
  <2>1. CASE AttachOci
    <3>1. \A k \in Kit : oci[k].key # hand
      BY <2>1 DEF AttachOci, IInv, OciArm
    <3>2. \A k \in Kit : oci'[k].key = IF k = into THEN hand ELSE oci[k].key
      BY <2>1, <1>0, WritesRows DEF AttachOci, IInv, TypeOK
    <3> QED  BY <3>1, <3>2 DEF IInv, Distinct
  <2>2. CASE \A k \in Kit : oci'[k].key = oci[k].key
    BY <2>2 DEF IInv, Distinct
  <2>3. PutOci \/ TenancyOci => \A k \in Kit : oci'[k].key = oci[k].key
    BY <1>0 DEF PutOci, TenancyOci, IInv, TypeOK
  <2> QED  BY <2>1, <2>2, <2>3, WritesKits
<1>3. \A j, k \in Kit : j # k => (b2'[j] = b2'[k] => b2'[j] = 0)
  <2>1. CASE StoreB2
    BY <2>1, <1>0 DEF StoreB2, IInv, B2Arm, Distinct
  <2> QED  BY <2>1, WritesKits DEF IInv, Distinct
<1> QED  BY <1>1, <1>2, <1>3 DEF Distinct

-----------------------------------------------------------------------------
(* The command: what it works on, and how far it has come.                 *)

LEMMA BeginHands ==
  ASSUME IInv, Begins
  PROVE  Hands'
<1>0. /\ service \in Kit /\ First \in Kit /\ retired \subseteq Kit
      /\ service \notin retired /\ file[First] = "unmarked"
      /\ \A k \in retired \cup {service} : k = First \/ file[k] \in retired
      /\ file \in [Kit -> Kit \cup {"absent", "unmarked"}]
  BY SeedKitAssumption DEF IInv, TypeOK, Lineage, Rows, SeedKitAssumption
<1>1. full' = None /\ retired' = retired /\ service' = service /\ file' = file
  BY BeginsQuietly DEF kits
<1>2. ASSUME NEW i \in Kit, NEW m \in Only, Rotate(i, m)
      PROVE  Hands'
  <2>1. /\ i # service /\ file[i] \in {"absent", service}
        /\ pc' = IF file[i] = "absent" THEN "make" ELSE Walk(m)
        /\ cmd' = "rotate" /\ kit' = service /\ into' = i /\ only' = m
    BY <1>2 DEF Rotate, RequireSuccessor, Begin
  <2>2. i \notin retired
    BY <1>0, <2>1, Keys
  <2>3. i # First \/ file[i] # "absent"
    BY <1>0
  <2>4. Walk(m) \notin {"make", "mark"}
    BY WalkType DEF Member
  <2> QED  BY <1>0, <1>1, <2>1, <2>2, <2>3, <2>4, Keys DEF Hands, WholeRotation
<1>3. ASSUME NEW m \in {"oci", "b2"}, RotateRow(m)
      PROVE  Hands'
  BY <1>0, <1>1, <1>3 DEF RotateRow, Begin, Hands, WholeRotation
<1>4. ASSUME NEW k \in Kit, NEW m \in {"oci", "b2"}, Create(k, m)
      PROVE  Hands'
  <2>1. file[k] = service \/ k = service
    BY <1>4 DEF Create
  <2>2. k \notin retired /\ (k = First \/ file[k] \in Kit)
    BY <1>0, <2>1, Keys
  <2> QED  BY <1>0, <1>1, <1>4, <2>2 DEF Create, Begin, Hands, WholeRotation
<1>5. ASSUME NEW m \in Only, Bootstrap(m)
      PROVE  Hands'
  <2>1. Walk(m) \notin {"make", "mark"}
    BY WalkType DEF Member
  <2> QED  BY <1>0, <1>1, <1>5, <2>1 DEF Bootstrap, Begin, Hands, WholeRotation
<1> QED  BY <1>2, <1>3, <1>4, <1>5 DEF Begins

\* Within the walk a command keeps what it has in hand, or is over.
LEMMA StepHands ==
  ASSUME IInv, Step \/ Cut \/ \E x \in Key : RetireRefused(x)
  PROVE  \/ pc' = "idle"
         \/ /\ UNCHANGED <<command, full, service, retired>> /\ pc # "idle"
            /\ \/ pc = "make" /\ Make
               \/ pc = "mark" /\ Mark
               \/ pc \notin {"make", "mark"} /\ pc' \notin {"make", "mark"} /\ file' = file
<1>1. \A m \in Member : After(m) \notin {"make", "mark"}
  BY AfterType DEF Member
<1>2. CASE Make \/ Mark
  <2>1. Make => pc = "make" /\ UNCHANGED <<command, full, service, retired>>
    BY DEF Make, Goto, operator
  <2>2. Mark => pc = "mark" /\ UNCHANGED <<command, full, service, retired>>
    BY DEF Mark, Goto, operator
  <2> QED  BY <1>2, <2>1, <2>2
<1>3. CASE Step /\ ~(Make \/ Mark)
  BY <1>1, <1>3 DEF Step, Skip, Done, Goto, Idle, InitRecovery, SetRecipients, kits, operator,
     RotateRecovery, Open, RecoveryRefuses, Refuse, Write, SignOci, SignRefused, RootOci, Member,
     RetireOci, Swept, MintOci, MintB2, QuotaFull, PutOci, AttachOci, TenancyOci, Cloudflare,
     ResumeB2, StoreB2, RetireB2
<1>4. CASE Cut \/ \E x \in Key : RetireRefused(x)
  BY <1>4 DEF Cut, Idle, RetireRefused, kits
<1> QED  BY <1>2, <1>3, <1>4

LEMMA HandsStep ==
  ASSUME IInv, Next
  PROVE  Hands'
<1>1. CASE Begins
  BY <1>1, BeginHands
<1>2. CASE Step \/ Cut \/ \E x \in Key : RetireRefused(x)
  <2>0. /\ into \in Kit /\ kit \in Kit /\ service \in Kit /\ only \in Member \cup {"all"}
        /\ file \in [Kit -> Kit \cup {"absent", "unmarked"}]
    BY DEF IInv, TypeOK
  <2>1. CASE pc' = "idle"
    BY <2>1 DEF Hands
  <2>2. CASE UNCHANGED <<command, full, service, retired>> /\ pc = "make" /\ Make
    BY <2>0, <2>2 DEF Make, Goto, command, IInv, Hands, WholeRotation
  <2>3. CASE UNCHANGED <<command, full, service, retired>> /\ pc = "mark" /\ Mark
    <3>1. Walk(only) \notin {"idle", "make", "mark"}
      BY <2>0 DEF Walk, Member
    <3> QED  BY <2>0, <2>3, <3>1 DEF Mark, Goto, command, IInv, Hands, WholeRotation
  <2>4. CASE /\ UNCHANGED <<command, full, service, retired>> /\ pc # "idle"
             /\ pc \notin {"make", "mark"} /\ pc' \notin {"make", "mark"} /\ file' = file
    BY <2>4 DEF command, IInv, Hands, WholeRotation
  <2> QED  BY <1>2, <2>1, <2>2, <2>3, <2>4, StepHands
<1>3. CASE (\E i \in Kit : Discard(i)) \/ ClearQuota \/ \E k \in Kit, r \in Clones : Generate(k, r)
  BY <1>3 DEF Discard, ClearQuota, Generate, process, Hands
<1> QED  BY <1>1, <1>2, <1>3 DEF Next, Begins

LEMMA AfterArm ==
  /\ only # "all" => \A m \in Member : After(m) = "done"
  /\ only = "all" => /\ After("recovery") = "oci" /\ After("oci") = "cloudflare"
                     /\ After("cloudflare") = "b2" /\ After("b2") = "done"
BY DEF After

LEMMA WalkedBegins ==
  ASSUME IInv, Begins
  PROVE  Walked'
<1>1. ASSUME NEW i \in Kit, NEW m \in Only, Rotate(i, m)
      PROVE  Walked'
  <2>1. (pc' = "make" \/ pc' = Walk(m)) /\ only' = m
    BY <1>1 DEF Rotate, Begin
  <2>2. Walk(m) \in Member /\ (m = "all" => Walk(m) = "recovery")
    BY WalkType DEF Walk
  <2> QED  BY <2>1, <2>2 DEF Walked, WholeRotation, PastRecovery, PastOci, Member
<1>2. ASSUME NEW m \in {"oci", "b2"}, RotateRow(m)
      PROVE  Walked'
  BY <1>2 DEF RotateRow, Begin, Walked, WholeRotation
<1>3. ASSUME NEW m \in {"oci", "b2"}, NEW k \in Kit, Create(k, m)
      PROVE  Walked'
  BY <1>3 DEF Create, Begin, Walked, WholeRotation
<1>4. ASSUME NEW m \in Only, Bootstrap(m)
      PROVE  Walked'
  <2>1. pc' \in Member /\ cmd' = "bootstrap"
    BY <1>4, WalkType DEF Bootstrap, Begin
  <2> QED  BY <2>1 DEF Walked, WholeRotation, Member
<1> QED  BY <1>1, <1>2, <1>3, <1>4 DEF Begins

LEMMA WalkedRecovery ==
  ASSUME IInv, InitRecovery \/ SetRecipients \/ RotateRecovery \/ Open \/ Write
  PROVE  Walked'
<1>0. /\ into \in Kit /\ kit \in Kit /\ DOMAIN recovery = Kit /\ only \in Member \cup {"all"}
      /\ sealed \in [1..MaxFile -> Key \cup {0}]
  BY DEF IInv, TypeOK
<1>1. CASE InitRecovery
  BY <1>1 DEF InitRecovery, Goto, command, Walked, WholeRotation, PastRecovery, PastOci
<1>2. CASE SetRecipients
  <2>1. /\ pc \in {"announce", "recipients"} /\ pc' = After("recovery") /\ recipients' = recovery[into]
        /\ UNCHANGED <<cmd, kit, into, only, recovery, sealed>>
    BY <1>2 DEF SetRecipients, Goto, command, kits
  <2>2. pc' = "oci" \/ (pc' = "done" /\ only # "all")
    BY <1>0, <2>1, AfterArm DEF Member
  <2> QED  BY <2>1, <2>2 DEF IInv, Walked, WholeRotation, PastRecovery, PastOci, Filed
<1>3. CASE RotateRecovery
  <2>1. FreshRecovery \in Key
    BY <1>3, FreshKey DEF RotateRecovery, FreshRecovery
  <2>2. pc' = "open" /\ cmd' = "rotate" /\ into' = into /\ kit' = kit
    BY <1>3 DEF RotateRecovery, Goto, command
  <2>3. recovery[kit] # 0 /\ recovery' = [recovery EXCEPT ![into] = SuccessorKey]
    BY <1>3 DEF RotateRecovery, Holds, Has
  <2>4. SuccessorKey # 0
    BY <2>1, Keys DEF SuccessorKey, Holds, Has
  <2>5. recovery'[into] # 0 /\ recovery'[kit] # 0
    BY <1>0, <2>3, <2>4
  <2> QED  BY <2>2, <2>5 DEF Walked, PastRecovery, PastOci
<1>4. CASE Open
  BY <1>4 DEF Open, kits, checkout, command, IInv, Walked, WholeRotation, PastRecovery, PastOci, Filed
<1>5. CASE Write
  <2>1. pc = "write" /\ pc' \in {"write", "recipients"} /\ UNCHANGED <<cmd, kit, into, only, recovery>>
    BY <1>5 DEF Write, kits, command
  <2>2. CASE left = {}
    BY <1>5, <2>1, <2>2 DEF Write, IInv, Walked, WholeRotation, PastRecovery, PastOci, Filed
  <2>3. CASE left # {}
    <3>1. PICK f : /\ sealed' = [sealed EXCEPT ![f] = recovery[into]] /\ left' = left \ {f}
                   /\ pc' = "write"
      BY <1>5, <2>3, <2>1 DEF Write
    <3>2. \A g \in Filed' \ left' : sealed'[g] = recovery[into]
      BY <1>0, <2>1, <3>1 DEF IInv, Walked, Filed
    <3> QED  BY <2>1, <3>1, <3>2 DEF IInv, Walked, PastRecovery, PastOci
  <2> QED  BY <2>2, <2>3
<1> QED  BY <1>1, <1>2, <1>3, <1>4, <1>5

\* Beyond the recovery row the checkout is left alone.
LEMMA WalkedOci ==
  ASSUME IInv, \/ SignOci \/ RootOci \/ (\E x \in Key : RetireOci(x) \/ RetireRefused(x)) \/ Swept
               \/ MintOci \/ PutOci \/ AttachOci \/ TenancyOci
  PROVE  Walked'
<1>1. /\ UNCHANGED <<cmd, kit, into, only, recovery, sealed, recipients>>
      /\ pc \in PastRecovery
  BY DEF SignOci, RootOci, RetireOci, RetireRefused, Swept, MintOci, PutOci, AttachOci,
     TenancyOci, Goto, command, kits, checkout, PastRecovery
<1>2. CASE Swept /\ pc = "sweep"
  <2>1. pc' = After("oci") /\ left = {} /\ UNCHANGED <<ociKeys, oci, stuck>>
    BY <1>2 DEF Swept, Goto, kits, platform, operator
  <2>2. only \in Member \cup {"all"}
    BY DEF IInv, TypeOK
  <2>3. pc' = "cloudflare" \/ (pc' = "done" /\ only # "all")
    BY <2>1, <2>2, AfterArm DEF Member
  <2>4. ociKeys \subseteq {oci[into].key} \cup stuck
    BY <1>2, <2>1 DEF IInv, OciArm
  <2> QED  BY <1>1, <2>1, <2>3, <2>4 DEF IInv, Walked, WholeRotation, PastRecovery, PastOci, Filed
<1>3. CASE pc' \in PastRecovery
  BY <1>1, <1>3 DEF IInv, Walked, WholeRotation, PastRecovery, PastOci, Filed
<1> QED  BY <1>2, <1>3 DEF SignOci, RootOci, RetireOci, RetireRefused, Swept, MintOci, PutOci, AttachOci,
     TenancyOci, Goto, PastRecovery

LEMMA WalkedTail ==
  ASSUME IInv, Cloudflare \/ ResumeB2 \/ MintB2 \/ StoreB2 \/ RetireB2
  PROVE  Walked'
<1>0. only \in Member \cup {"all"}
  BY DEF IInv, TypeOK
<1>1. /\ UNCHANGED <<cmd, kit, into, only, recovery, sealed, recipients, oci, ociKeys, stuck>>
      /\ pc \in PastOci
  BY DEF Cloudflare, ResumeB2, MintB2, StoreB2, RetireB2, Goto, command, kits, checkout, platform,
     operator, PastOci
<1>2. CASE RetireB2 /\ left = {}
  <2>1. pc' = "done" /\ UNCHANGED <<b2, b2Keys>>
    BY <1>0, <1>2, AfterArm DEF RetireB2, Member, kits
  <2>2. b2Keys \subseteq {b2[into]}
    BY <1>2 DEF IInv, B2Arm, RetireB2
  <2> QED  BY <1>1, <2>1, <2>2 DEF IInv, Walked, WholeRotation, PastRecovery, PastOci, Filed
<1>3. CASE Cloudflare
  <2>1. pc' = "b2" \/ (pc' = "done" /\ only # "all")
    BY <1>0, <1>3, AfterArm DEF Cloudflare, Goto, Member
  <2> QED  BY <1>1, <2>1 DEF IInv, Walked, WholeRotation, PastRecovery, PastOci, Filed
<1>4. CASE pc' \in {"store", "retire"}
  BY <1>1, <1>4 DEF IInv, Walked, WholeRotation, PastRecovery, PastOci, Filed
<1> QED  BY <1>2, <1>3, <1>4 DEF ResumeB2, MintB2, StoreB2, RetireB2

LEMMA WalkedStep ==
  ASSUME IInv, Next
  PROVE  Walked'
<1>1. CASE pc' = "idle"
  BY <1>1 DEF Walked, PastRecovery, PastOci
<1>2. CASE Make \/ Mark
  <2>1. only \in Member \cup {"all"} /\ "recovery" \in Member
    BY DEF IInv, TypeOK, Member
  <2>2. /\ pc' = "mark" \/ (pc' = Walk(only) /\ Walk(only) \in Member)
        /\ UNCHANGED <<cmd, only>> /\ (only = "all" => Walk(only) = "recovery")
    BY <1>2, <2>1 DEF Make, Mark, Goto, command, Walk
  <2> QED  BY <2>2 DEF Walked, WholeRotation, PastRecovery, PastOci, Member
<1>3. CASE Skip
  <2>1. pc' \in Member \cup {"done"} /\ cmd' = "bootstrap"
    BY <1>3, AfterType DEF Skip, Goto, command
  <2> QED  BY <2>1 DEF Walked, WholeRotation, PastRecovery, PastOci, Member
<1>4. CASE Done \/ RecoveryRefuses \/ SignRefused \/ QuotaFull \/ Cut
  BY <1>1, <1>4 DEF Done, RecoveryRefuses, SignRefused, Refuse, QuotaFull, Cut, Idle
<1>5. CASE (\E i \in Kit : Discard(i)) \/ ClearQuota \/ \E k \in Kit, r \in Clones : Generate(k, r)
  BY <1>1, <1>5 DEF Discard, ClearQuota, Generate, process
<1> QED  BY <1>2, <1>3, <1>4, <1>5, WalkedBegins, WalkedRecovery, WalkedOci, WalkedTail
         DEF Next, Step, Begins

-----------------------------------------------------------------------------
(* The two rows whose keys are minted and deleted.                         *)

\* A command whose row can sign has a key, and a key that signs is a row's.
LEMMA WorksSigns ==
  ASSUME TypeOK, NEW k \in Kit
  PROVE  /\ Works(k, "oci") <=> Signs(k)
         /\ Works(k, "b2") <=> b2[k] \in b2Keys
BY Keys DEF TypeOK, Works, Holds, Has, Signs

\* Away from the OCI arm, what a step leaves alone says all of it.
LEMMA OciQuiet ==
  ASSUME IInv, UNCHANGED <<oci, ociKeys, stuck>>,
         pc' \notin {"clear", "room", "put", "attach", "tenancy", "sweep"},
         full' = full \/ full' \notin Key
  PROVE  OciArm'
BY DEF IInv, OciArm, Signs

LEMMA OciBegins ==
  ASSUME IInv, Begins
  PROVE  OciArm'
<1>1. full' = None /\ None \notin Key
  BY BeginsQuietly, Keys
<1>2. pc' \in {"make", "recovery", "oci", "cloudflare", "b2"} \/ (pc' = "room" /\ cmd' = "create")
  <2>1. ASSUME NEW i \in Kit, NEW m \in Only, Rotate(i, m)
        PROVE  pc' \in {"make"} \cup Member
    BY <2>1, WalkType DEF Rotate, Begin
  <2>2. ASSUME NEW m \in Only, Bootstrap(m)
        PROVE  pc' \in Member
    BY <2>2, WalkType DEF Bootstrap, Begin
  <2> QED  BY <2>1, <2>2 DEF Begins, RotateRow, Create, Begin, Member
<1> QED  BY <1>1, <1>2 DEF OciArm

\* The keys are retired round the one that signs.
LEMMA OciRetires ==
  ASSUME IInv, NEW x \in Key, RetireOci(x) \/ RetireRefused(x)
  PROVE  OciArm'
<1>1. /\ pc \in {"clear", "sweep"} /\ x \in left /\ left' = left \ {x}
      /\ UNCHANGED <<pc, cmd, kit, into, oci, full>>
      /\ \/ ociKeys' = ociKeys \ {x} /\ stuck' = stuck \ {x}
         \/ ociKeys' = ociKeys /\ stuck' = stuck \cup {x}
  BY DEF RetireOci, RetireRefused, command, kits, platform
<1>2. full = None /\ None \notin Key
  BY <1>1, Keys DEF IInv, Hands
<1> QED  BY <1>1, <1>2 DEF IInv, OciArm, Signs

LEMMA OciMints ==
  ASSUME IInv, MintOci
  PROVE  OciArm'
<1>1. /\ pc' = "put" /\ hand' = FreshOci /\ ociKeys' = ociKeys \cup {FreshOci}
      /\ UNCHANGED <<oci, full>> /\ pc = "room"
  BY DEF MintOci, kits, operator
<1>2. \A k \in Kit : oci[k].key # FreshOci
  BY FreshKey DEF MintOci, FreshOci, OciInUse
<1>3. full = None /\ None \notin Key
  BY <1>1, Keys DEF IInv, Hands
<1> QED  BY <1>1, <1>2, <1>3 DEF OciArm

\* The row: the entry, the key that was minted, the tenancy.
LEMMA OciStores ==
  ASSUME IInv, PutOci \/ AttachOci \/ TenancyOci
  PROVE  OciArm'
<1>0. into \in Kit /\ DOMAIN oci = Kit
      /\ oci[into] \in [entry : BOOLEAN, key : Key \cup {0}, tenancy : BOOLEAN]
      /\ oci'[into] \in [entry : BOOLEAN, key : Key \cup {0}, tenancy : BOOLEAN]
  BY OciType DEF IInv, TypeOK, Next, Step
<1>1. full' = None /\ None \notin Key
  BY Keys DEF IInv, Hands, PutOci, AttachOci, TenancyOci, operator
<1>2. CASE PutOci
  <2>1. /\ pc = "put" /\ pc' = "attach" /\ UNCHANGED <<hand, into, ociKeys>>
        /\ oci'[into].entry /\ \A k \in Kit : oci'[k].key = oci[k].key
    BY <1>0, <1>2 DEF PutOci, Goto, command, platform
  <2> QED  BY <1>1, <2>1 DEF IInv, OciArm
<1>3. CASE AttachOci
  <2>1. /\ pc = "attach" /\ pc' = "tenancy" /\ UNCHANGED <<hand, into, ociKeys>>
        /\ oci'[into].key = hand /\ oci'[into].entry = oci[into].entry
    BY <1>0, <1>3 DEF AttachOci, Goto, command, platform
  <2> QED  BY <1>1, <2>1 DEF IInv, OciArm
<1>4. CASE TenancyOci
  <2>1. /\ pc = "tenancy" /\ pc' = "sweep" /\ UNCHANGED <<into, ociKeys, stuck>> /\ left' = ociKeys \ {hand}
        /\ oci'[into].key = oci[into].key /\ oci'[into].tenancy
    BY <1>0, <1>4 DEF TenancyOci, command, platform, operator
  <2> QED  BY <1>1, <2>1 DEF IInv, OciArm, Signs
<1> QED  BY <1>2, <1>3, <1>4

LEMMA OciStep ==
  ASSUME IInv, Next
  PROVE  OciArm'
<1>0. None \notin Key /\ kit \in Kit /\ into \in Kit
  BY Keys DEF IInv, TypeOK
<1>1. CASE SignOci
  <2>1. /\ Signer("oci") \in {kit, into} /\ pc' = IF Signer("oci") = kit THEN "clear" ELSE "sweep"
        /\ left' = ociKeys \ {oci[Signer("oci")].key} /\ Works(Signer("oci"), "oci") /\ pc = "oci" /\ cmd = "rotate"
        /\ UNCHANGED <<cmd, kit, into, oci, ociKeys, stuck, full>>
    BY <1>1 DEF SignOci, Signer, Live, Superseded, kits, platform, command, operator
  <2>2. full = None
    BY <2>1 DEF IInv, Hands
  <2>3. Signs(Signer("oci"))
    BY <1>0, <2>1, WorksSigns DEF IInv
  <2> QED  BY <1>0, <2>1, <2>2, <2>3 DEF OciArm, Signs
<1>2. CASE RootOci
  BY <1>0, <1>2 DEF RootOci, Goto, command, IInv, Hands, OciArm, operator
<1>3. CASE Swept
  <2>1. pc' = (IF pc = "clear" THEN "room" ELSE After("oci")) /\ pc \in {"clear", "sweep"}
        /\ UNCHANGED <<cmd, kit, into, oci, ociKeys, stuck, full>>
    BY <1>3 DEF Swept, Goto, kits, platform, command, operator
  <2>2. After("oci") \in Member \cup {"done"} /\ full = None
    BY <2>1, AfterType DEF Member, IInv, Hands
  <2> QED  BY <1>0, <2>1, <2>2 DEF IInv, OciArm, Signs, Member
<1>4. CASE QuotaFull
  <2>1. /\ pc = "room" /\ pc' = "idle" /\ full' = IF cmd = "rotate" THEN oci[kit].key ELSE 0
        /\ UNCHANGED <<oci, ociKeys>>
    BY <1>4 DEF QuotaFull, Idle, kits, platform
  <2> QED  BY <1>0, <2>1, Keys DEF IInv, OciArm, Signs
<1>5. CASE ClearQuota
  BY <1>0, <1>5 DEF ClearQuota, kits, process, OciArm
<1>6. CASE Done \/ RecoveryRefuses \/ SignRefused \/ Cut
           \/ (\E i \in Kit : Discard(i)) \/ \E k \in Kit, r \in Clones : Generate(k, r)
  BY <1>6, OciQuiet DEF Done, RecoveryRefuses, SignRefused, Refuse, Cut, Idle, Discard, Generate, process,
     kits, platform, operator
<1>7. CASE Skip \/ Make \/ Mark \/ InitRecovery \/ SetRecipients \/ RotateRecovery \/ Open \/ Write
           \/ Cloudflare \/ ResumeB2 \/ MintB2 \/ StoreB2 \/ RetireB2
  <2>1. pc' \in {"mark", "announce", "open", "write", "recipients", "store", "retire", "done"} \cup Member
    <3>1. (\A m \in Member : After(m) \in Member \cup {"done"}) /\ Walk(only) \in Member
      BY AfterType DEF Walk, Member, IInv, TypeOK
    <3> QED  BY <1>7, <3>1 DEF Skip, Make, Mark, InitRecovery, SetRecipients, RotateRecovery, Open,
         Write, Cloudflare, ResumeB2, MintB2, StoreB2, RetireB2, Goto, Member
  <2>2. UNCHANGED <<oci, ociKeys, stuck, full>>
    BY <1>7 DEF Skip, Make, Mark, InitRecovery, SetRecipients, RotateRecovery, Open,
       Write, Cloudflare, ResumeB2, MintB2, StoreB2, RetireB2, kits, platform, operator
  <2> QED  BY <2>1, <2>2, OciQuiet DEF Member
<1> QED  BY <1>1, <1>2, <1>3, <1>4, <1>5, <1>6, <1>7, OciBegins, OciRetires, OciMints, OciStores
         DEF Next, Step, Begins

LEMMA B2Step ==
  ASSUME IInv, Next
  PROVE  B2Arm'
<1>0. into \in Kit /\ DOMAIN b2 = Kit
  BY DEF IInv, TypeOK
<1>1. CASE MintB2
  <2>1. \A k \in Kit : b2[k] # FreshB2
    BY <1>1, FreshKey DEF MintB2, FreshB2, B2InUse
  <2> QED  BY <1>1, <2>1 DEF MintB2, kits, B2Arm
<1>2. CASE StoreB2
  <2>1. /\ pc = "store" /\ pc' = "retire" /\ b2' = [b2 EXCEPT ![into] = hand]
        /\ left' = b2Keys \ {hand} /\ UNCHANGED <<into, b2Keys>>
    BY <1>2 DEF StoreB2, command, platform
  <2> QED  BY <1>0, <2>1 DEF IInv, B2Arm
<1>3. CASE ResumeB2
  <2>1. /\ Signer("b2") = into /\ b2[into] \in b2Keys
    <3>1. Signer("b2") = into /\ Works(Signer("b2"), "b2")
      BY <1>3 DEF ResumeB2, Signer, Live
    <3> QED  BY <1>0, <3>1, WorksSigns DEF IInv
  <2> QED  BY <1>3, <2>1 DEF ResumeB2, kits, platform, command, B2Arm
<1>4. CASE RetireB2
  <2>1. /\ pc = "retire" /\ UNCHANGED <<into, b2>>
        /\ \/ \E x \in left : b2Keys' = b2Keys \ {x} /\ left' = left \ {x} /\ pc' = pc
           \/ pc' = After("b2")
    BY <1>4 DEF RetireB2, kits, command
  <2>2. After("b2") \in Member \cup {"done"}
    BY AfterType DEF Member
  <2> QED  BY <2>1, <2>2 DEF IInv, B2Arm, Member
<1>5. CASE pc' \notin {"store", "retire"}
  BY <1>5 DEF B2Arm
<1>6. CASE Begins
  <2>1. ASSUME NEW i \in Kit, NEW m \in Only, Rotate(i, m)
        PROVE  pc' \in {"make"} \cup Member
    BY <2>1, WalkType DEF Rotate, Begin
  <2>2. ASSUME NEW m \in Only, Bootstrap(m)
        PROVE  pc' \in Member
    BY <2>2, WalkType DEF Bootstrap, Begin
  <2>3. pc' \in {"make", "room"} \cup Member
    BY <1>6, <2>1, <2>2 DEF Begins, RotateRow, Create, Begin, Member
  <2> QED  BY <2>3, <1>5 DEF Member
<1>7. CASE Step /\ ~(MintB2 \/ StoreB2 \/ ResumeB2 \/ RetireB2)
  <2>1. (\A m \in Member : After(m) \in Member \cup {"done"}) /\ Walk(only) \in Member
    BY AfterType DEF Walk, Member, IInv, TypeOK
  <2>2. pc' \notin {"store", "retire"}
    BY <1>7, <2>1 DEF Step, Skip, Make, Mark, Done, Goto, Idle, InitRecovery, SetRecipients,
       RotateRecovery, Open, RecoveryRefuses, Refuse, Write, SignOci, SignRefused, RootOci,
       RetireOci, Swept, MintOci, QuotaFull, PutOci, AttachOci, TenancyOci, Cloudflare, Member
  <2> QED  BY <2>2, <1>5
<1>8. CASE Cut \/ (\E x \in Key : RetireRefused(x)) \/ (\E i \in Kit : Discard(i)) \/ ClearQuota
           \/ \E k \in Kit, r \in Clones : Generate(k, r)
  <2>1. pc' \in {"idle", "clear", "sweep"}
    BY <1>8 DEF Cut, Idle, RetireRefused, Discard, ClearQuota, Generate, process
  <2> QED  BY <2>1, <1>5
<1> QED  BY <1>1, <1>2, <1>3, <1>4, <1>6, <1>7, <1>8 DEF Next, Begins

-----------------------------------------------------------------------------
(* The retired kits.                                                       *)

\* A whole rotation ends with nothing left that the old kit opens.
LEMMA DoneRetires ==
  ASSUME IInv, Done
  PROVE  Dead'
<1>0. /\ into \in Kit /\ kit \in Kit /\ b2Keys \subseteq Key /\ ociKeys \subseteq Key
  BY DEF IInv, TypeOK
<1>1. UNCHANGED <<recovery, oci, b2, ociKeys, b2Keys, sealed, recipients, stuck>> /\ pc = "done"
  BY DEF Done, kits, platform, checkout
<1>2. CASE ~WholeRotation
  BY <1>1, <1>2 DEF Done, WholeRotation, IInv, Dead, RetiredIsDead, Filed
<1>3. CASE WholeRotation
  <2>1. into # kit /\ retired' = retired \cup {kit}
    BY <1>1, <1>3 DEF Done, WholeRotation, IInv, Hands
  <2>2. /\ recovery[into] # 0 /\ recovery[kit] # 0 /\ recipients = recovery[into]
        /\ \A f \in Filed : sealed[f] = recovery[into]
        /\ ociKeys \subseteq {oci[into].key} \cup stuck /\ b2Keys \subseteq {b2[into]}
    BY <1>1, <1>3 DEF IInv, Walked, PastRecovery, PastOci
  <2>3. /\ recovery[kit] # recovery[into]
        /\ b2[kit] \notin b2Keys /\ oci[kit].key \notin ociKeys \ stuck
    BY <1>0, <2>1, <2>2, Keys DEF IInv, Distinct
  <2> QED  BY <1>1, <2>1, <2>2, <2>3 DEF IInv, Dead, RetiredIsDead, Filed
<1> QED  BY <1>2, <1>3

\* A kit in hand is not retired, and shares no key with one that is.
LEMMA DeadStep ==
  ASSUME IInv, Next
  PROVE  Dead'
<1>0. /\ into \in Kit /\ kit \in Kit /\ retired \subseteq Kit /\ DOMAIN b2 = Kit
      /\ sealed \in [1..MaxFile -> Key \cup {0}] /\ b2Keys \subseteq Key /\ ociKeys \subseteq Key
  BY DEF IInv, TypeOK
<1>1. CASE Done
  BY <1>1, DoneRetires
<1>2. CASE retired' = retired
  <2>1. \A k \in retired : recovery'[k] # 0 /\ recovery'[k] = recovery[k]
    <3>1. CASE recovery' = recovery
      BY <3>1 DEF IInv, Dead
    <3>2. CASE recovery' # recovery
      BY <3>2, <1>0, WritesRows DEF IInv, Dead
    <3> QED  BY <3>1, <3>2
  <2>2. \A k \in retired : \A f \in Filed' : sealed'[f] # recovery[k]
    <3>1. CASE Write
      <4>1. into \notin retired
        BY <3>1 DEF Write, IInv, Hands
      <4>2. \A k \in retired : recovery[k] # recovery[into]
        BY <1>0, <4>1 DEF IInv, Distinct, Dead
      <4>3. \A f \in Filed' : sealed'[f] = recovery[into] \/ (f \in Filed /\ sealed'[f] = sealed[f])
        BY <1>0, <3>1 DEF Write, Filed
      <4> QED  BY <4>2, <4>3 DEF IInv, Dead, RetiredIsDead
    <3>2. ASSUME NEW j \in Kit, NEW r \in Clones, Generate(j, r)
          PROVE  \A k \in retired : \A f \in Filed' : sealed'[f] # recovery[k]
      <4>1. j \notin retired /\ r = recovery[j]
        BY <3>2 DEF Generate, Anchored
      <4>2. \A k \in retired : recovery[k] # r
        BY <1>0, <4>1 DEF IInv, Distinct, Dead
      <4>3. \A f \in Filed' : sealed'[f] = r \/ (f \in Filed /\ sealed'[f] = sealed[f])
        BY <1>0, <3>2 DEF Generate, Filed
      <4> QED  BY <4>2, <4>3 DEF IInv, Dead, RetiredIsDead
    <3>3. CASE sealed' = sealed
      BY <3>3 DEF Filed, IInv, Dead, RetiredIsDead
    <3> QED  BY <3>1, <3>2, <3>3, WritesPlatform
  <2>3. \A k \in retired : recipients' # recovery[k]
    <3>1. CASE SetRecipients
      <4>1. into \notin retired /\ recipients' = recovery[into]
        BY <3>1 DEF SetRecipients, IInv, Hands
      <4> QED  BY <1>0, <4>1 DEF IInv, Distinct, Dead
    <3>2. CASE Cut
      BY <3>2 DEF Cut, IInv, Dead, RetiredIsDead
    <3> QED  BY <3>1, <3>2, WritesPlatform DEF IInv, Dead, RetiredIsDead
  <2>4. \A k \in retired : b2'[k] \notin b2Keys'
    <3>1. \A k \in retired : b2'[k] = b2[k]
      BY <1>0, WritesRows
    <3>2. CASE MintB2
      <4>1. \A k \in Kit : b2[k] # FreshB2
        BY <3>2, FreshKey DEF MintB2, FreshB2, B2InUse
      <4> QED  BY <1>0, <3>1, <3>2, <4>1 DEF MintB2, IInv, Dead, RetiredIsDead
    <3>3. CASE b2Keys' \subseteq b2Keys
      BY <3>1, <3>3 DEF IInv, Dead, RetiredIsDead
    <3> QED  BY <3>2, <3>3, WritesPlatform DEF RetireB2
  <2>5. \A k \in retired : oci'[k].key \notin ociKeys' \ stuck'
    <3>1. \A k \in retired : oci'[k] = oci[k]
      BY <1>0, WritesRows
    <3>2. CASE MintOci
      <4>1. \A k \in Kit : oci[k].key # FreshOci
        BY <3>2, FreshKey DEF MintOci, FreshOci, OciInUse
      <4> QED  BY <1>0, <3>1, <3>2, <4>1 DEF MintOci, operator, IInv, Dead, RetiredIsDead
    <3>3. CASE ociKeys' \ stuck' \subseteq ociKeys \ stuck
      BY <3>1, <3>3 DEF IInv, Dead, RetiredIsDead
    <3>4. ~MintOci => ociKeys' \ stuck' \subseteq ociKeys \ stuck
      <4>1. (\E x \in Key : RetireOci(x) \/ RetireRefused(x)) \/ ClearQuota
              => ociKeys' \ stuck' \subseteq ociKeys \ stuck
        BY DEF RetireOci, RetireRefused, ClearQuota, platform
      <4> QED  BY <4>1, WritesPlatform
    <3> QED  BY <3>2, <3>3, <3>4
  <2> QED  BY <1>2, <2>1, <2>2, <2>3, <2>4, <2>5 DEF Dead, RetiredIsDead
<1> QED  BY <1>1, <1>2, WritesPlatform

-----------------------------------------------------------------------------
(* The theorems.                                                           *)

LEMMA Inductive == Spec => []IInv
<1>1. Init => IInv
  <2> SUFFICES ASSUME Init
               PROVE  IInv
    OBVIOUS
  <2>1. First \in Kit /\ None \notin Key /\ TypeOK
    BY SeedKitAssumption, TypeInit, Keys DEF SeedKitAssumption
  <2>2. Rows /\ Lineage /\ Distinct /\ Hands
    BY <2>1, SeedKitAssumption
       DEF Init, NoOci, Rows, Empty, Lineage, Distinct, Hands, SeedKitAssumption
  <2>3. Walked /\ OciArm /\ B2Arm /\ Dead
    BY <2>1 DEF Init, Walked, PastRecovery, PastOci, OciArm, B2Arm, Dead, RetiredIsDead
  <2> QED  BY <2>1, <2>2, <2>3 DEF IInv
<1>2. IInv /\ [Next]_vars => IInv'
  <2>1. IInv /\ Next => IInv'
    BY TypeStep, RowsStep, LineageStep, DistinctStep, HandsStep, WalkedStep, OciStep, B2Step,
       DeadStep DEF IInv
  <2>2. IInv /\ UNCHANGED vars => IInv'
    BY DEF IInv, vars, kits, platform, checkout, process, command, operator, TypeOK, Pc, Member, Rows, Empty,
       Lineage, Distinct, Hands, WholeRotation, Walked, PastRecovery, PastOci, Filed, OciArm,
       Signs, B2Arm, Dead, RetiredIsDead
  <2> QED  BY <2>1, <2>2
<1> QED  BY <1>1, <1>2, PTL DEF Spec

\* Types, for every number of kits and keys, and at most KEY_QUOTA API keys on
\* the OCI user however many mints were cut before their sweep
\* (oci_iam.py `_room_for_one_more`).
THEOREM TypeCorrect == Spec => []TypeOK
<1>1. IInv => TypeOK
  BY DEF IInv
<1> QED  BY <1>1, Inductive, PTL

\* A kit a complete rotation replaced opens nothing: it takes the invariant
\* that no two kits share a key, that the kits in service never recur, and how
\* much of the old kit each arm of the walk has left (lifecycle.py `rotate`).
THEOREM RetiredKitIsDead == Spec => []RetiredIsDead
<1>1. IInv => RetiredIsDead
  BY DEF IInv, Dead
<1> QED  BY <1>1, Inductive, PTL

\* Every ciphertext of the escrow opens with the recovery key some kit holds,
\* wherever a re-wrap was cut (escrow.py `rewrap`).
THEOREM EscrowAlwaysOpens == Spec => []EscrowOpens
<1>1. Init => EscrowOpens
  BY DEF Init, EscrowOpens, Filed
<1>2. IInv /\ EscrowOpens /\ [Next]_vars => EscrowOpens'
  <2> SUFFICES ASSUME IInv, EscrowOpens, [Next]_vars
               PROVE  EscrowOpens'
    OBVIOUS
  <2>0. /\ into \in Kit /\ kit \in Kit /\ DOMAIN recovery = Kit
        /\ sealed \in [1..MaxFile -> Key \cup {0}]
    BY DEF IInv, TypeOK
  <2>1. CASE Write
    <3>1. \A f \in Filed' : sealed'[f] = recovery[into] \/ (f \in Filed /\ sealed'[f] = sealed[f])
      BY <2>0, <2>1 DEF Write, Filed
    <3> QED  BY <2>0, <2>1, <3>1 DEF Write, kits, EscrowOpens
  <2>2. ASSUME NEW k \in Kit, NEW r \in Clones, Generate(k, r)
        PROVE  EscrowOpens'
    <3>1. \A f \in Filed' : sealed'[f] = recovery[k] \/ (f \in Filed /\ sealed'[f] = sealed[f])
      BY <2>0, <2>2 DEF Generate, Anchored, Filed
    <3> QED  BY <2>2, <3>1 DEF Generate, kits, EscrowOpens
  <2>3. CASE sealed' = sealed /\ (InitRecovery \/ RotateRecovery)
    <3>1. recovery[into] # 0 => recovery'[into] = recovery[into]
      BY <2>0, <2>3 DEF InitRecovery, RotateRecovery, SuccessorKey, Holds, Has
    <3>2. \A k \in Kit \ {into} : recovery'[k] = recovery[k]
      BY <2>0, <2>3 DEF InitRecovery, RotateRecovery
    <3> QED  BY <2>0, <2>3, <3>1, <3>2 DEF EscrowOpens, Filed
  <2>4. CASE sealed' = sealed /\ recovery' = recovery
    BY <2>4 DEF EscrowOpens, Filed
  <2> QED  BY <2>1, <2>2, <2>3, <2>4, WritesKits, WritesPlatform DEF vars, kits, checkout
<1> QED  BY <1>1, <1>2, Inductive, PTL DEF Spec

\* What a command signs with next is there before anything it replaces goes.
LEMMA OciSurvives ==
  ASSUME IInv, Next, ~(full = 0 /\ full' = None), NEW s \in Kit, Works(s, "oci")
  PROVE  \E k \in Kit : Works(k, "oci")'
<1>0. /\ into \in Kit /\ kit \in Kit /\ DOMAIN oci = Kit /\ Signs(s)
      /\ oci[into] \in [entry : BOOLEAN, key : Key \cup {0}, tenancy : BOOLEAN]
  BY WorksSigns DEF IInv, TypeOK
<1>1. ASSUME NEW k \in Kit, Signs(k)'
      PROVE  \E j \in Kit : Works(j, "oci")'
  BY <1>1, TypeStep, Keys DEF TypeOK, Works, Holds, Signs
<1>2. CASE oci' = oci /\ ociKeys \subseteq ociKeys'
  BY <1>0, <1>1, <1>2 DEF Signs
<1>3. ASSUME NEW x \in Key, RetireOci(x)
      PROVE  \E k \in Kit : Signs(k)'
  BY <1>0, <1>3 DEF RetireOci, kits, IInv, OciArm, Signs
<1>4. CASE ClearQuota
  <2>1. full \in Key
    BY <1>4 DEF ClearQuota, IInv, TypeOK
  <2> QED  BY <1>1, <1>4, <2>1 DEF ClearQuota, kits, IInv, OciArm, Signs
<1>5. CASE PutOci
  BY <1>0, <1>1, <1>5 DEF PutOci, platform, Signs
<1>6. CASE AttachOci
  <2>1. \A k \in Kit : oci'[k].tenancy = oci[k].tenancy /\ oci'[k].key = IF k = into THEN hand ELSE oci[k].key
    BY <1>6, <1>0, WritesRows DEF AttachOci
  <2> QED  BY <1>0, <1>1, <1>6, <2>1 DEF AttachOci, platform, IInv, OciArm, Signs
<1>7. CASE TenancyOci
  <2>1. pc' = "sweep" /\ into' = into
    BY <1>7 DEF TenancyOci, command
  <2> QED  BY <1>0, <1>1, <2>1, OciStep DEF OciArm
<1> QED  BY <1>1, <1>2, <1>3, <1>4, <1>5, <1>6, <1>7, WritesKits, WritesPlatform DEF MintOci

LEMMA B2Survives ==
  ASSUME IInv, Next, NEW s \in Kit, Works(s, "b2")
  PROVE  \E k \in Kit : Works(k, "b2")'
<1>0. into \in Kit /\ DOMAIN b2 = Kit /\ b2[s] \in b2Keys
  BY WorksSigns DEF IInv, TypeOK
<1>1. ASSUME NEW k \in Kit, b2'[k] \in b2Keys'
      PROVE  \E j \in Kit : Works(j, "b2")'
  BY <1>1, TypeStep, Keys DEF TypeOK, Works, Holds, Has
<1>2. CASE b2' = b2 /\ b2Keys \subseteq b2Keys'
  BY <1>0, <1>1, <1>2
<1>3. CASE RetireB2
  BY <1>0, <1>1, <1>3 DEF RetireB2, kits, IInv, B2Arm
<1>4. CASE StoreB2
  BY <1>0, <1>1, <1>4 DEF StoreB2, platform, IInv, B2Arm
<1> QED  BY <1>2, <1>3, <1>4, WritesKits, WritesPlatform DEF MintB2, StoreB2, kits

\* While a row of some kit signs, no step leaves none that does, at OCI and at
\* B2: the new key is minted, stored and complete before an old one goes
\* (oci_iam.py `rotate_seed`, b2.py `rotate_seed`).
THEOREM SeedsAlwaysSurvive == Spec => SeedsSurvive
<1>1. IInv /\ [Next]_vars =>
        [\/ full = 0 /\ full' = None
         \/ \A m \in {"oci", "b2"} :
              (\E k \in Kit : Works(k, m)) => (\E k \in Kit : Works(k, m))']_vars
  <2> SUFFICES ASSUME IInv, Next, ~(full = 0 /\ full' = None),
                      NEW m \in {"oci", "b2"}, NEW s \in Kit, Works(s, m)
               PROVE  (\E k \in Kit : Works(k, m))'
    OBVIOUS
  <2>1. CASE m = "oci"
    BY <2>1, OciSurvives
  <2>2. CASE m = "b2"
    BY <2>2, B2Survives
  <2> QED  BY <2>1, <2>2
<1> QED  BY <1>1, Inductive, PTL DEF Spec, SeedsSurvive

=============================================================================
