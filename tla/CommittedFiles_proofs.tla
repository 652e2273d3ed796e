------------------------- MODULE CommittedFiles_proofs -------------------------
(***************************************************************************)
(* What a stack commits: its configuration, and its state's checkpoint.     *)
(*                                                                         *)
(* Of the configuration (StackSlots), for every census of stacks, every     *)
(* row, quota and bound, and any number of mints at once: the types, and    *)
(* that no slot of the checkout holds a deleted credential but where an     *)
(* operator or a second mint made it so (`SlotsLive`).                      *)
(*                                                                         *)
(* Of the checkpoint (CommittedCheckpoint), for every set of secrets and    *)
(* every bound: the types, and that nothing a run could know for secret is  *)
(* landed in the clear (`NothingPublished`).                                *)
(*                                                                         *)
(* The two share no name and no state: each has an invariant of its own.    *)
(***************************************************************************)
EXTENDS StackSlots, CommittedCheckpoint, FiniteSetTheorems, TLAPS

-----------------------------------------------------------------------------
(* The configuration: the invariant.                                       *)

\* The files of one checkout or branch: one for each stack.
Configs(files) ==
  files = [s \in Stack |-> files[s]] /\ \A s \in Stack : files[s] \in File(s)

Platform == row \in Rows /\ live \subseteq Cred /\ Cardinality(live) <= row.quota
Files    == Configs(work) /\ Configs(main) /\ Configs(before)

Hands ==
  /\ at \in [Run -> {"idle", "mint", "set", "check", "list", "sweep"}]
  /\ hand \in [Run -> 0..Dead] /\ slot \in [Run -> Slot]
  /\ doomed \in [Run -> SUBSET (Cred \cup {0})] /\ alone \in [Run -> BOOLEAN]

Generations ==
  /\ newest \in Gen /\ env \in 1..newest
  /\ state \in [Stack -> Gen \cup {0}]
  /\ step \in {"idle", "look", "salt", "ciphers", "state", "test"}
  /\ which \in DOMAIN Stacks /\ from \in Gen /\ failed \in BOOLEAN

Operator ==
  /\ said \in [Stack -> {"well", "rerun", "checkout", "either"}]
  /\ full \in BOOLEAN /\ owed \in BOOLEAN
  /\ excuse \subseteq {"overlap", "restored", "cleared"}
  /\ faults \in 0..MaxFaults

Types == Platform /\ Files /\ Hands /\ Generations /\ Operator

\* A run that nothing is at work beside.
Alone == \A r \in Run : alone[r] => at[r] # "idle" /\ \A q \in Run : q # r => at[q] = "idle"

\* Such a run holds a credential of its own, has it in every slot it is past,
\* and will not delete it.
Owns ==
  /\ \A r \in Run : at[r] \in {"idle", "mint"} => slot[r] = 1
  /\ \A r \in Run : alone[r] =>
       /\ at[r] \in {"set", "check", "list", "sweep"} => hand[r] \in Cred
       /\ at[r] = "sweep" => hand[r] \notin doomed[r]
       /\ at[r] \in {"set", "check"} =>
            \A i \in Slot : i < slot[r] => work[row.on[i]].held[i] = hand[r]
       /\ at[r] \in {"list", "sweep"} => \A i \in Slot : work[row.on[i]].held[i] = hand[r]

\* With nothing to excuse it, no slot is dead, and every run is alone.
Unexcused ==
  excuse = {} =>
    /\ \A r \in Run : at[r] # "idle" => alone[r]
    /\ \A s \in Stack : \A i \in On(s) : work[s].held[i] # Dead

IInv == Types /\ Alone /\ Owns /\ Unexcused

-----------------------------------------------------------------------------
(* The data.                                                               *)

LEMMA RowType ==
  ASSUME row \in Rows
  PROVE  /\ Len(row.on) \in Nat \ {0} /\ Slot = 1..Len(row.on)
         /\ \A i \in Slot : row.on[i] \in Stack /\ i \in On(row.on[i])
         /\ \A s \in Stack : \A i \in On(s) : i \in Slot /\ row.on[i] = s
         /\ row.quota \in Cred /\ row.itself \in BOOLEAN
<1>1. /\ row.on \in Seq(Stack) /\ row.on # <<>>
      /\ row.quota \in Cred /\ row.itself \in BOOLEAN
  BY StackSlotsAssumption DEF StackSlotsAssumption
<1>2. Len(row.on) \in Nat \ {0} /\ \A i \in 1..Len(row.on) : row.on[i] \in Stack
  BY <1>1
<1> QED  BY <1>1, <1>2 DEF Slot, On

LEMMA HereType ==
  ASSUME which \in DOMAIN Stacks
  PROVE  Here \in Stack
BY DEF Here, Stack

\* The quota leaves a credential to name.
LEMMA FreshType ==
  ASSUME Platform, Cardinality(live) < row.quota
  PROVE  /\ Fresh \in Cred /\ Fresh \notin live /\ IsFiniteSet(live)
         /\ Cardinality(live \cup {Fresh}) <= row.quota
<1>1. IsFiniteSet(Cred) /\ Cardinality(Cred) = MaxCred
  BY FS_Interval, StackSlotsAssumption DEF Cred, StackSlotsAssumption
<1>2. IsFiniteSet(live) /\ Cardinality(live) \in Nat
  BY <1>1, FS_Subset, FS_CardinalityType DEF Platform
<1>3. row.quota \in Nat /\ row.quota <= MaxCred
  BY RowType DEF Platform, Cred
<1>4. live # Cred
  BY <1>1, <1>2, <1>3
<1>5. \E c \in Cred : c \notin live
  BY <1>4 DEF Platform
<1>6. Fresh \in Cred /\ Fresh \notin live
  BY <1>5 DEF Fresh
<1>7. Cardinality(live \cup {Fresh}) = Cardinality(live) + 1
  BY <1>2, <1>6, FS_AddElement
<1> QED  BY <1>2, <1>3, <1>6, <1>7

LEMMA FewerType ==
  ASSUME Platform, NEW C
  PROVE  live \ C \subseteq Cred /\ Cardinality(live \ C) <= row.quota
<1>1. IsFiniteSet(Cred) /\ row.quota \in Nat
  BY FS_Interval, RowType, StackSlotsAssumption DEF Platform, Cred, StackSlotsAssumption
<1>2. IsFiniteSet(live)
  BY <1>1, FS_Subset DEF Platform
<1>3. live \ C \in SUBSET live
  OBVIOUS
<1>4. /\ Cardinality(live \ C) <= Cardinality(live)
      /\ Cardinality(live) \in Nat /\ Cardinality(live \ C) \in Nat
  BY <1>2, <1>3, FS_Subset, FS_CardinalityType
<1> QED  BY <1>1, <1>4 DEF Platform

\* What a deletion leaves in the files.
LEMMA BuriedType ==
  ASSUME NEW files, Configs(files), NEW C
  PROVE  /\ Configs(Buried(files, C))
         /\ \A s \in Stack : \A i \in On(s) :
              Buried(files, C)[s].held[i] = IF files[s].held[i] \in C THEN Dead ELSE files[s].held[i]
<1>1. ASSUME NEW s \in Stack
      PROVE  /\ Buried(files, C)[s] \in File(s)
             /\ \A i \in On(s) : Buried(files, C)[s].held[i]
                                 = IF files[s].held[i] \in C THEN Dead ELSE files[s].held[i]
  <2>1. files[s] \in File(s)
    BY DEF Configs
  <2>2. DOMAIN files[s].held = On(s)
    BY <2>1 DEF File
  <2>3. Buried(files, C)[s]
        = [files[s] EXCEPT !.held = [i \in On(s) |-> IF files[s].held[i] \in C THEN Dead ELSE files[s].held[i]]]
    BY <2>2 DEF Buried
  <2> DEFINE held == [i \in On(s) |-> IF files[s].held[i] \in C THEN Dead ELSE files[s].held[i]]
  <2>4. Dead \in 0..Dead
    BY StackSlotsAssumption DEF StackSlotsAssumption, Dead
  <2>5. files[s].held \in [On(s) -> 0..Dead]
    BY <2>1 DEF File
  <2>6. held \in [On(s) -> 0..Dead]
    BY <2>4, <2>5
  <2>7. [files[s] EXCEPT !.held = held] \in File(s) /\ [files[s] EXCEPT !.held = held].held = held
    <3> HIDE DEF held
    <3>1. files[s] \in [salt : Gen, rest : Gen \cup {0}, held : [On(s) -> 0..Dead], under : [On(s) -> Gen \cup {0}]]
      BY <2>1 DEF File
    <3>2. [files[s] EXCEPT !.held = held].held = held
      BY <3>1
    <3> QED  BY <3>1, <3>2, <2>6 DEF File
  <2>8. Buried(files, C)[s] = [files[s] EXCEPT !.held = held]
    BY <2>3
  <2>9. Buried(files, C)[s] \in File(s) /\ Buried(files, C)[s].held = held
    BY <2>7, <2>8
  <2> QED  BY <2>9
<1>2. Buried(files, C) = [s \in Stack |-> Buried(files, C)[s]]
  BY DEF Buried
<1> QED  BY <1>1, <1>2 DEF Configs

\* A file with a slot filled.
LEMMA SlotType ==
  ASSUME NEW s \in Stack, NEW f \in File(s), NEW i \in On(s), NEW c \in 0..Dead, newest \in Gen
  PROVE  /\ Filled(f, i, c) \in File(s)
         /\ Filled(f, i, c).held[i] = c
         /\ \A j \in On(s) : j # i => Filled(f, i, c).held[j] = f.held[j]
<1> DEFINE h == [f.held EXCEPT ![i] = c]
           u == [f.under EXCEPT ![i] = newest]
<1>1. f.held \in [On(s) -> 0..Dead] /\ f.under \in [On(s) -> Gen \cup {0}]
  BY DEF File
<1>2. h \in [On(s) -> 0..Dead] /\ u \in [On(s) -> Gen \cup {0}]
  BY <1>1
<1>3. h[i] = c /\ \A j \in On(s) : j # i => h[j] = f.held[j]
  BY <1>1
<1>4. Filled(f, i, c) = [f EXCEPT !.held = h, !.under = u]
  BY DEF File, Filled
<1>5. Filled(f, i, c) \in File(s) /\ Filled(f, i, c).held = h
  <2> HIDE DEF h, u
  <2>1. f \in [salt : Gen, rest : Gen \cup {0}, held : [On(s) -> 0..Dead], under : [On(s) -> Gen \cup {0}]]
    BY DEF File
  <2>2. /\ [f EXCEPT !.held = h, !.under = u]
             \in [salt : Gen, rest : Gen \cup {0}, held : [On(s) -> 0..Dead], under : [On(s) -> Gen \cup {0}]]
        /\ [f EXCEPT !.held = h, !.under = u].held = h
    BY <1>2, <2>1
  <2> QED  BY <1>4, <2>2 DEF File
<1> QED  BY <1>3, <1>5

\* A file put in the place of another.
LEMMA PutType ==
  ASSUME NEW files, Configs(files), NEW s \in Stack, NEW f \in File(s),
         NEW put, put = [files EXCEPT ![s] = f]
  PROVE  /\ Configs(put) /\ put[s] = f
         /\ \A t \in Stack : t # s => put[t] = files[t]
BY DEF Configs

LEMMA SaltType ==
  ASSUME NEW s \in Stack, NEW f \in File(s), NEW g \in Gen
  PROVE  [f EXCEPT !.salt = g] \in File(s) /\ [f EXCEPT !.salt = g].held = f.held
BY DEF File

LEMMA MovedType ==
  ASSUME NEW s \in Stack, NEW f \in File(s), newest \in Gen
  PROVE  Moved(f) \in File(s) /\ Moved(f).held = f.held
<1>1. DOMAIN f.under = On(s)
  BY DEF File
<1> QED  BY <1>1 DEF File, Moved

-----------------------------------------------------------------------------
(* The types, part by part.                                                *)

LEMMA PlatformStep ==
  ASSUME Types, [Next]_vars
  PROVE  Platform' /\ row' = row
<1> USE DEF Types, Platform
<1>1. ASSUME NEW r \in Run, Mint(r)
      PROVE Platform' /\ row' = row
  <2>1. row' = row /\ live' = live \cup {Fresh} /\ Cardinality(live) < row.quota
    BY <1>1 DEF Mint
  <2> QED  BY <2>1, FreshType
<1>2. ASSUME NEW r \in Run, Sweep(r)
      PROVE Platform' /\ row' = row
  <2>1. PICK c \in doomed[r] \ {0} : live' = live \ {c} /\ row' = row
    BY <1>2 DEF Sweep, Delete
  <2> QED  BY <2>1, FewerType
<1>3. CASE Clear
  <2>1. PICK C : live' = live \ C /\ row' = row
    BY <1>3 DEF Clear, Delete
  <2> QED  BY <2>1, FewerType
<1>4. ASSUME NEW r \in Run, BeginMint(r) \/ NoRoom(r) \/ Set(r) \/
       SetRefused(r) \/ ReadBack(r) \/ ReadBackRefused(r) \/ List(r) \/
       SweepRefused(r) \/ Delivered(r) \/ Stray(r) \/ MintCut(r)
      PROVE Platform' /\ row' = row
  BY <1>4 DEF BeginMint, NoRoom, Set, SetRefused, ReadBack, ReadBackRefused,
       List, SweepRefused, Delivered, Stray, MintCut, Busy, Fault, End,
       Ended, file, passwd, mint, move, operator
<1>5. CASE BeginMove \/ Look \/ SaveSalt \/ SaveCiphers \/ ImportState \/
       MoveFails \/ Test \/ MoveCut \/ Generate \/ Publish \/ Sync
  BY <1>5 DEF BeginMove, Look, SaveSalt, SaveCiphers, ImportState,
       MoveFails, Test, MoveCut, Generate, Publish, Sync, Moving, Rest, Say,
       Onward, Fault, file, passwd, mint, move, operator
<1>6. ASSUME NEW s \in Stack, Checkout(s) \/ Restore(s) \/ Lose(s) \/
       JobApplies(s)
      PROVE Platform' /\ row' = row
  BY <1>6 DEF Checkout, Restore, Lose, JobApplies, Restored, Say, Fault,
       file, passwd, mint, move, operator
<1>7. CASE UNCHANGED vars
  BY <1>7 DEF vars, file, passwd, mint, move, operator
<1> QED
  BY <1>1, <1>2, <1>3, <1>4, <1>5, <1>6, <1>7 DEF Next, MintStep, MoveStep

LEMMA FileSame ==
  ASSUME row' = row
  PROVE  /\ \A s \in Stack : File(s)' = File(s) /\ On(s)' = On(s)
         /\ Slot' = Slot
BY DEF File, On, Slot

\* What a step does to the files.
Kept == Configs(work') /\ Configs(main') /\ Configs(before')

LEMMA KeptStep ==
  ASSUME Types, [Next]_vars
  PROVE  Kept
<1> USE DEF Types, Files, Kept
<1>1. ASSUME NEW r \in Run, Set(r)
      PROVE Kept
  <2> DEFINE i == slot[r]
             s == row.on[i]
             f == Filled(work[s], i, hand[r])
  <2>1. s \in Stack /\ i \in On(s)
    BY RowType DEF Platform, Hands
  <2>2. hand[r] \in 0..Dead /\ newest \in Gen /\ work[s] \in File(s)
    BY <2>1 DEF Hands, Generations, Configs
  <2>3. work' = [work EXCEPT ![s] = f] /\ main' = main /\ before' = before
    BY <1>1 DEF Set, file
  <2>4. f \in File(s)
    BY <2>1, <2>2, SlotType
  <2> HIDE DEF i, s, f
  <2> QED  BY <2>1, <2>3, <2>4, PutType
<1>2. ASSUME NEW r \in Run, Sweep(r)
      PROVE Kept
  <2>1. PICK c \in doomed[r] \ {0} : Delete({c})
    BY <1>2 DEF Sweep
  <2> QED  BY <2>1, BuriedType DEF Delete
<1>3. CASE Clear
  <2>1. PICK C : Delete(C)
    BY <1>3 DEF Clear
  <2> QED  BY <2>1, BuriedType DEF Delete
<1>4. CASE SaveSalt
  <2>1. Here \in Stack /\ newest \in Gen /\ work[Here] \in File(Here)
    BY HereType DEF Generations, Configs
  <2>2. /\ work' = [work EXCEPT ![Here] = [work[Here] EXCEPT !.salt = newest]]
        /\ main' = main /\ before' = before
    BY <1>4 DEF SaveSalt
  <2>3. [work[Here] EXCEPT !.salt = newest] \in File(Here)
    BY <2>1, SaltType
  <2> QED  BY <2>1, <2>2, <2>3, PutType
<1>5. CASE SaveCiphers
  <2>1. Here \in Stack /\ newest \in Gen /\ work[Here] \in File(Here)
    BY HereType DEF Generations, Configs
  <2>2. /\ work' = [work EXCEPT ![Here] = Moved(work[Here])]
        /\ main' = main /\ before' = before
    BY <1>5 DEF SaveCiphers
  <2>3. Moved(work[Here]) \in File(Here)
    BY <2>1, MovedType
  <2> QED  BY <2>1, <2>2, <2>3, PutType
<1>6. CASE Publish
  <2>1. work' = work /\ main' = work
    BY <1>6 DEF Publish
  <2>2. before' = [s \in Stack |-> IF work[s].salt = main[s].salt THEN before[s] ELSE main[s]]
    BY <1>6 DEF Publish
  <2>3. Configs(before')
    BY <2>2 DEF Configs
  <2> QED  BY <2>1, <2>3
<1>7. ASSUME NEW s \in Stack, Checkout(s) \/ Restore(s) \/ Lose(s)
      PROVE Kept
  <2>1. PICK f \in File(s) : work' = [work EXCEPT ![s] = f]
    BY <1>7 DEF Checkout, Restore, Lose, Restored, Configs
  <2>2. main' = main /\ before' = before
    BY <1>7 DEF Checkout, Restore, Lose, Restored
  <2> QED  BY <2>1, <2>2, PutType
<1>8. ASSUME NEW r \in Run, BeginMint(r) \/ Mint(r) \/ NoRoom(r) \/
       SetRefused(r) \/ ReadBack(r) \/ ReadBackRefused(r) \/ List(r) \/
       SweepRefused(r) \/ Delivered(r) \/ Stray(r) \/ MintCut(r)
      PROVE Kept
  BY <1>8 DEF BeginMint, Mint, NoRoom, SetRefused, ReadBack,
       ReadBackRefused, List, SweepRefused, Delivered, Stray, MintCut, Busy,
       Fault, End, Ended, file, passwd, mint, move, operator
<1>9. CASE BeginMove \/ Look \/ ImportState \/ MoveFails \/ Test \/ MoveCut
       \/ Generate \/ Sync
  BY <1>9 DEF BeginMove, Look, ImportState, MoveFails, Test, MoveCut,
       Generate, Sync, Moving, Rest, Say, Onward, Fault, file, passwd, mint,
       move, operator
<1>10. ASSUME NEW s \in Stack, JobApplies(s)
      PROVE Kept
  BY <1>10 DEF JobApplies, file, passwd, mint, move, operator
<1>11. CASE UNCHANGED vars
  BY <1>11 DEF vars, file, passwd, mint, move, operator
<1> QED
  BY <1>1, <1>2, <1>3, <1>4, <1>5, <1>6, <1>7, <1>8, <1>9, <1>10, <1>11 DEF
       Next, MintStep, MoveStep

LEMMA FilesStep ==
  ASSUME Types, [Next]_vars
  PROVE  Files'
<1>1. \A s \in Stack : File(s)' = File(s)
  BY PlatformStep, FileSame
<1> QED  BY <1>1, KeptStep DEF Kept, Files, Configs

LEMMA HandsStep ==
  ASSUME Types, [Next]_vars
  PROVE  Hands'
<1>0. row' = row /\ Slot' = Slot
  BY PlatformStep, FileSame
<1> USE <1>0 DEF Types, Hands
<1>1. ASSUME NEW r \in Run, BeginMint(r)
      PROVE Hands'
  BY <1>1 DEF BeginMint, Busy, Fault, file, passwd, mint, move, operator
<1>2. ASSUME NEW r \in Run, NoRoom(r) \/ SetRefused(r) \/ ReadBackRefused(r)
       \/ SweepRefused(r) \/ Delivered(r) \/ MintCut(r)
      PROVE Hands'
  <2>1. 1 \in Slot
    BY RowType DEF Platform
  <2>2. End(r)
    BY <1>2 DEF NoRoom, SetRefused, ReadBackRefused, SweepRefused, Delivered, MintCut
  <2>3. 0 \in 0..Dead
    BY StackSlotsAssumption DEF StackSlotsAssumption, Dead
  <2> QED  BY <2>1, <2>2, <2>3 DEF End, Ended
<1>3. ASSUME NEW r \in Run, Mint(r)
      PROVE Hands'
  <2>1. Fresh \in Cred
    BY <1>3, FreshType DEF Mint
  <2>2. Fresh \in 0..Dead
    BY <2>1, StackSlotsAssumption DEF StackSlotsAssumption, Cred, Dead
  <2>3. /\ hand' = [hand EXCEPT ![r] = Fresh] /\ at' = [at EXCEPT ![r] = "set"]
        /\ UNCHANGED <<slot, doomed, alone>>
    BY <1>3 DEF Mint
  <2> QED  BY <2>2, <2>3
<1>4. ASSUME NEW r \in Run, Set(r)
      PROVE Hands'
  BY <1>4 DEF Set, file, passwd, mint, move, operator
<1>5. ASSUME NEW r \in Run, ReadBack(r)
      PROVE Hands'
  <2>1. slot[r] \in Slot /\ (slot[r] < Len(row.on) => slot[r] + 1 \in Slot)
    BY RowType DEF Platform
  <2> QED  BY <1>5, <2>1 DEF ReadBack
<1>6. ASSUME NEW r \in Run, List(r)
      PROVE Hands'
  <2>1. live \ {hand[r]} \in SUBSET (Cred \cup {0})
    BY DEF Platform
  <2> QED  BY <1>6, <2>1 DEF List
<1>7. ASSUME NEW r \in Run, Sweep(r)
      PROVE Hands'
  <2>1. PICK c \in doomed[r] \ {0} :
          /\ hand' = [q \in Run |-> IF hand[q] = c THEN Dead ELSE hand[q]]
          /\ doomed' = [q \in Run |-> IF q = r THEN doomed[q] \ {c}
                                      ELSE {IF d = c THEN 0 ELSE d : d \in doomed[q]}]
    BY <1>7 DEF Sweep
  <2>2. at' = at /\ slot' = slot /\ alone' = alone
    BY <1>7 DEF Sweep
  <2>3. Dead \in 0..Dead
    BY StackSlotsAssumption DEF StackSlotsAssumption, Dead
  <2>4. hand' \in [Run -> 0..Dead]
    BY <2>1, <2>3
  <2>5. \A q \in Run : {IF d = c THEN 0 ELSE d : d \in doomed[q]} \subseteq Cred \cup {0}
    OBVIOUS
  <2>6. doomed' \in [Run -> SUBSET (Cred \cup {0})]
    BY <2>1, <2>5
  <2> QED  BY <2>2, <2>4, <2>6
<1>8. ASSUME NEW r \in Run, Stray(r)
      PROVE Hands'
  <2>1. PICK c \in doomed[r] : doomed' = [doomed EXCEPT ![r] = @ \ {c}]
    BY <1>8 DEF Stray
  <2>2. doomed' \in [Run -> SUBSET (Cred \cup {0})]
    BY <2>1
  <2>3. UNCHANGED <<at, hand, slot, alone>>
    BY <1>8 DEF Stray
  <2> QED  BY <2>2, <2>3
<1>9. CASE BeginMove \/ Look \/ SaveSalt \/ SaveCiphers \/ ImportState \/
       MoveFails \/ Test \/ MoveCut \/ Generate \/ Publish \/ Sync \/ Clear
  BY <1>9 DEF BeginMove, Look, SaveSalt, SaveCiphers, ImportState,
       MoveFails, Test, MoveCut, Generate, Publish, Sync, Clear, Moving,
       Rest, Say, Onward, Fault, Delete, file, passwd, mint, move, operator
<1>10. ASSUME NEW s \in Stack, Checkout(s) \/ Restore(s) \/ Lose(s) \/
       JobApplies(s)
      PROVE Hands'
  BY <1>10 DEF Checkout, Restore, Lose, JobApplies, Restored, Say, Fault,
       file, passwd, mint, move, operator
<1>11. CASE UNCHANGED vars
  BY <1>11 DEF vars, file, passwd, mint, move, operator
<1> QED
  BY <1>1, <1>2, <1>3, <1>4, <1>5, <1>6, <1>7, <1>8, <1>9, <1>10, <1>11 DEF
       Next, MintStep, MoveStep

LEMMA GenerationsStep ==
  ASSUME Types, [Next]_vars
  PROVE  Generations'
<1> USE DEF Generations
<1>0. /\ Here \in Stack /\ 1 \in DOMAIN Stacks /\ 1 \in Gen /\ newest \in Nat
      /\ which < Len(Stacks) => which + 1 \in DOMAIN Stacks
      /\ \A s \in Stack : work[s].salt \in Gen /\ main[s].salt \in Gen /\ before[s].salt \in Gen
      /\ Generations
  <2>1. 1 \in DOMAIN Stacks /\ 1 \in Gen /\ Gen \subseteq Nat
        /\ \A w \in DOMAIN Stacks : w < Len(Stacks) => w + 1 \in DOMAIN Stacks
    <3>1. Stacks \in Seq(Stack) /\ Stacks # <<>> /\ MaxGen \in Nat \ {0}
      BY StackSlotsAssumption DEF StackSlotsAssumption
    <3>2. Len(Stacks) \in Nat \ {0} /\ DOMAIN Stacks = 1..Len(Stacks)
      BY <3>1
    <3> QED  BY <3>1, <3>2 DEF Gen
  <2>2. \A s \in Stack : work[s].salt \in Gen /\ main[s].salt \in Gen /\ before[s].salt \in Gen
    BY DEF Types, Files, Configs, File
  <2> QED  BY <2>1, <2>2, HereType DEF Types
<1>1. CASE BeginMove \/ MoveFails \/ MoveCut
  BY <1>1, <1>0 DEF BeginMove, MoveFails, MoveCut, Moving, Fault, Rest, Say,
       file, passwd, mint, move, operator
<1>2. CASE Look
  <2>1. UNCHANGED <<newest, env, state>>
    BY <1>2 DEF Look, passwd
  <2>2. /\ step' \in {"idle", "look", "salt", "ciphers", "state", "test"}
        /\ which' \in DOMAIN Stacks /\ from' \in Gen /\ failed' \in BOOLEAN
    BY <1>2, <1>0 DEF Look, Rest, Onward
  <2> QED  BY <1>0, <2>1, <2>2
<1>3. CASE SaveSalt \/ SaveCiphers \/ Publish \/ Clear
  BY <1>3, <1>0 DEF SaveSalt, SaveCiphers, Publish, Clear, Moving, Delete,
       file, passwd, mint, move, operator
<1>4. CASE ImportState
  <2>1. state' \in [Stack -> Gen \cup {0}]
    BY <1>4, <1>0 DEF ImportState
  <2> QED  BY <1>4, <1>0, <2>1 DEF ImportState, Moving, passwd
<1>5. CASE Test
  <2>1. UNCHANGED <<newest, env, state>>
    BY <1>5 DEF Test, passwd
  <2>2. /\ step' \in {"idle", "look", "salt", "ciphers", "state", "test"}
        /\ which' \in DOMAIN Stacks /\ from' \in Gen /\ failed' \in BOOLEAN
    BY <1>5, <1>0 DEF Test, Rest, Onward
  <2> QED  BY <1>0, <2>1, <2>2
<1>6. CASE Generate
  <2>1. newest' \in Gen /\ env' \in 1..newest'
    BY <1>6, <1>0, StackSlotsAssumption DEF Generate, Gen, StackSlotsAssumption
  <2> QED  BY <1>6, <1>0, <2>1 DEF Generate, move
<1>7. CASE Sync
  <2>1. newest' \in Gen /\ env' \in 1..newest'
    BY <1>7, <1>0 DEF Sync, Gen
  <2> QED  BY <1>7, <1>0, <2>1 DEF Sync, move
<1>8. ASSUME NEW s \in Stack, JobApplies(s)
      PROVE Generations'
  <2>1. state' \in [Stack -> Gen \cup {0}]
    BY <1>8, <1>0 DEF JobApplies
  <2> QED  BY <1>8, <1>0, <2>1 DEF JobApplies, move, passwd
<1>9. ASSUME NEW r \in Run, BeginMint(r) \/ Mint(r) \/ NoRoom(r) \/ Set(r)
       \/ SetRefused(r) \/ ReadBack(r) \/ ReadBackRefused(r) \/ List(r) \/
       Sweep(r) \/ SweepRefused(r) \/ Delivered(r) \/ Stray(r) \/ MintCut(r)
      PROVE Generations'
  BY <1>9, <1>0 DEF BeginMint, Mint, NoRoom, Set, SetRefused, ReadBack,
       ReadBackRefused, List, Sweep, SweepRefused, Delivered, Stray,
       MintCut, Busy, Fault, End, Ended, Delete, file, passwd, mint, move,
       operator
<1>10. ASSUME NEW s \in Stack, Checkout(s) \/ Restore(s) \/ Lose(s)
      PROVE Generations'
  BY <1>10, <1>0 DEF Checkout, Restore, Lose, Restored, Say, Fault, file,
       passwd, mint, move, operator
<1>11. CASE UNCHANGED vars
  BY <1>11, <1>0 DEF vars, file, passwd, mint, move, operator
<1> QED
  BY <1>1, <1>2, <1>3, <1>4, <1>5, <1>6, <1>7, <1>8, <1>9, <1>10, <1>11 DEF
       Next, MintStep, MoveStep

LEMMA OperatorStep ==
  ASSUME Types, [Next]_vars
  PROVE  Operator'
<1> USE DEF Operator
<1>0. Operator /\ MaxFaults \in Nat /\ Here \in Stack
  BY HereType, StackSlotsAssumption DEF Types, Generations, StackSlotsAssumption
<1>a. Fault => faults' \in 0..MaxFaults
  BY <1>0 DEF Fault
<1>1. ASSUME NEW r \in Run, BeginMint(r)
      PROVE Operator'
  BY <1>1, <1>0 DEF BeginMint, Busy, Fault, file, passwd, mint, move,
       operator
<1>2. ASSUME NEW r \in Run, NoRoom(r) \/ Stray(r) \/ MintCut(r)
      PROVE Operator'
  <2>1. faults' \in 0..MaxFaults
    BY <1>2, <1>a, <1>0 DEF NoRoom, Stray, MintCut
  <2>2. UNCHANGED <<said, owed, excuse>> /\ full' \in {full, TRUE}
    BY <1>2 DEF NoRoom, Stray, MintCut
  <2> QED  BY <1>0, <2>1, <2>2
<1>3. ASSUME NEW r \in Run, Delivered(r)
      PROVE Operator'
  <2>1. owed' \in BOOLEAN
    BY <1>3 DEF Delivered
  <2>2. excuse' \subseteq {"overlap", "restored", "cleared"}
    BY <1>3, <1>0 DEF Delivered
  <2> QED  BY <1>3, <1>0, <2>1, <2>2 DEF Delivered
<1>4. CASE Look
  BY <1>4, <1>0 DEF Look, Rest, Say, Onward, file, passwd, mint, move,
       operator
<1>5. CASE MoveFails \/ MoveCut
  <2>1. faults' \in 0..MaxFaults
    BY <1>5, <1>a, <1>0 DEF MoveFails, MoveCut
  <2>2. UNCHANGED <<full, owed, excuse>> /\ (said' = said \/ Say(Here, "rerun"))
    BY <1>5 DEF MoveFails, MoveCut
  <2> QED  BY <1>0, <2>1, <2>2 DEF Say
<1>6. CASE Test
  BY <1>6, <1>0 DEF Test, Rest, Say, Onward, file, passwd, mint, move,
       operator
<1>7. CASE Clear
  BY <1>7, <1>0 DEF Clear, Delete, file, passwd, mint, move, operator
<1>8. ASSUME NEW s \in Stack, Checkout(s) \/ Restore(s) \/ Lose(s)
      PROVE Operator'
  <2>1. faults' \in 0..MaxFaults
    BY <1>8, <1>a, <1>0 DEF Checkout, Restore, Lose
  <2>2. PICK f : Restored(s, f)
    BY <1>8 DEF Checkout, Restore, Lose
  <2>3. said' = [said EXCEPT ![s] = "rerun"] /\ full' = full
    BY <2>2 DEF Restored, Say
  <2>4. owed' \in {owed, TRUE} /\ excuse' \in {excuse, excuse \cup {"restored"}}
    BY <2>2 DEF Restored
  <2> QED  BY <1>0, <2>1, <2>3, <2>4
<1>9. ASSUME NEW r \in Run, Mint(r) \/ Set(r) \/ SetRefused(r) \/
       ReadBack(r) \/ ReadBackRefused(r) \/ List(r) \/ Sweep(r) \/
       SweepRefused(r)
      PROVE Operator'
  BY <1>9, <1>0 DEF Mint, Set, SetRefused, ReadBack, ReadBackRefused, List,
       Sweep, SweepRefused, End, Ended, Delete, file, passwd, mint, move,
       operator
<1>10. CASE BeginMove \/ SaveSalt \/ SaveCiphers \/ ImportState \/ Generate
       \/ Publish \/ Sync
  BY <1>10, <1>0 DEF BeginMove, SaveSalt, SaveCiphers, ImportState,
       Generate, Publish, Sync, Moving, file, passwd, mint, move, operator
<1>11. ASSUME NEW s \in Stack, JobApplies(s)
      PROVE Operator'
  BY <1>11, <1>0 DEF JobApplies, file, passwd, mint, move, operator
<1>12. CASE UNCHANGED vars
  BY <1>12, <1>0 DEF vars, file, passwd, mint, move, operator
<1> QED
  BY <1>1, <1>2, <1>3, <1>4, <1>5, <1>6, <1>7, <1>8, <1>9, <1>10, <1>11,
       <1>12 DEF Next, MintStep, MoveStep

-----------------------------------------------------------------------------
(* Runs beside each other, and what a slot is left holding.               *)

LEMMA AloneStep ==
  ASSUME Types, Alone, [Next]_vars
  PROVE  Alone'
<1> USE DEF Alone
<1>0. at \in [Run -> {"idle", "mint", "set", "check", "list", "sweep"}] /\ alone \in [Run -> BOOLEAN]
  BY DEF Types, Hands
<1>1. ASSUME NEW r \in Run, BeginMint(r)
      PROVE Alone'
  <2>1. /\ at' = [at EXCEPT ![r] = "mint"]
        /\ alone' = [q \in Run |-> IF q = r THEN ~Busy ELSE FALSE]
    BY <1>1 DEF BeginMint
  <2> QED  BY <1>0, <2>1 DEF Busy
<1>2. ASSUME NEW r \in Run, NoRoom(r) \/ SetRefused(r) \/ ReadBackRefused(r)
       \/ SweepRefused(r) \/ MintCut(r) \/ Delivered(r)
      PROVE Alone'
  <2>1. End(r)
    BY <1>2 DEF NoRoom, SetRefused, ReadBackRefused, SweepRefused, Delivered, MintCut
  <2> QED  BY <1>0, <2>1 DEF End, Ended
<1>3. ASSUME NEW r \in Run, Mint(r) \/ Set(r) \/ ReadBack(r) \/ List(r)
      PROVE Alone'
  <2>1. alone' = alone /\ at[r] # "idle"
    BY <1>3 DEF Mint, Set, ReadBack, List
  <2>2. PICK next \in {"set", "check", "list", "sweep"} : at' = [at EXCEPT ![r] = next]
    BY <1>3 DEF Mint, Set, ReadBack, List
  <2> QED  BY <1>0, <2>1, <2>2
<1>4. ASSUME NEW r \in Run, Sweep(r) \/ Stray(r)
      PROVE Alone'
  <2>1. UNCHANGED <<alone, at>>
    BY <1>4 DEF Sweep, Stray
  <2> QED  BY <2>1
<1>5. CASE BeginMove \/ Look \/ SaveSalt \/ SaveCiphers \/ ImportState \/
       MoveFails \/ Test \/ MoveCut \/ Generate \/ Publish \/ Sync \/ Clear
  BY <1>5, <1>0 DEF BeginMove, Look, SaveSalt, SaveCiphers, ImportState,
       MoveFails, Test, MoveCut, Generate, Publish, Sync, Clear, Moving,
       Rest, Say, Onward, Fault, Delete, file, passwd, mint, move, operator
<1>6. ASSUME NEW s \in Stack, Checkout(s) \/ Restore(s) \/ Lose(s) \/
       JobApplies(s)
      PROVE Alone'
  BY <1>6, <1>0 DEF Checkout, Restore, Lose, JobApplies, Restored, Say,
       Fault, file, passwd, mint, move, operator
<1>7. CASE UNCHANGED vars
  BY <1>7, <1>0 DEF vars, file, passwd, mint, move, operator
<1> QED
  BY <1>1, <1>2, <1>3, <1>4, <1>5, <1>6, <1>7 DEF Next, MintStep, MoveStep

\* A move leaves in a slot what it held.
LEMMA MoveHolds ==
  ASSUME Types, SaveSalt \/ SaveCiphers
  PROVE  \A s \in Stack : \A i \in On(s) : work'[s].held[i] = work[s].held[i]
<1>1. Here \in Stack /\ newest \in Gen /\ Configs(work) /\ work[Here] \in File(Here)
  BY HereType DEF Types, Files, Generations, Configs
<1>2. PICK f \in File(Here) : work' = [work EXCEPT ![Here] = f] /\ f.held = work[Here].held
  <2>1. CASE SaveSalt
    BY <1>1, <2>1, SaltType DEF SaveSalt
  <2>2. CASE SaveCiphers
    BY <1>1, <2>2, MovedType DEF SaveCiphers
  <2> QED  BY <2>1, <2>2
<1> QED  BY <1>1, <1>2, PutType

\* What a fill and a sweep leave in the checkout.
LEMMA SetHolds ==
  ASSUME Types, NEW r \in Run, Set(r)
  PROVE  \A s \in Stack : \A i \in On(s) :
           work'[s].held[i] = IF i = slot[r] /\ s = row.on[slot[r]] THEN hand[r] ELSE work[s].held[i]
<1> DEFINE i == slot[r]
           s == row.on[i]
           f == Filled(work[s], i, hand[r])
<1>1. s \in Stack /\ i \in On(s)
  BY RowType DEF Types, Platform, Hands
<1>2. hand[r] \in 0..Dead /\ newest \in Gen /\ work[s] \in File(s) /\ Configs(work)
  BY <1>1 DEF Types, Files, Hands, Generations, Configs
<1>3. work' = [work EXCEPT ![s] = f]
  BY DEF Set
<1>4. f \in File(s) /\ f.held[i] = hand[r] /\ \A j \in On(s) : j # i => f.held[j] = work[s].held[j]
  BY <1>1, <1>2, SlotType
<1>5. work'[s] = f /\ \A t \in Stack : t # s => work'[t] = work[t]
  <2> HIDE DEF i, s, f
  <2> QED  BY <1>1, <1>2, <1>3, <1>4, PutType
<1>6. \A t \in Stack : \A j \in On(t) :
        work'[t].held[j] = IF j = i /\ t = s THEN hand[r] ELSE work[t].held[j]
  <2> HIDE DEF i, s, f
  <2> QED  BY <1>4, <1>5
<1> QED  BY <1>6

LEMMA SweepHolds ==
  ASSUME Types, Owns, NEW r \in Run, alone[r], Sweep(r)
  PROVE  /\ hand'[r] = hand[r] /\ doomed'[r] \subseteq doomed[r]
         /\ \A s \in Stack : \A i \in On(s) : work'[s].held[i] = work[s].held[i]
<1>1. PICK c \in doomed[r] \ {0} :
        /\ work' = Buried(work, {c})
        /\ hand' = [q \in Run |-> IF hand[q] = c THEN Dead ELSE hand[q]]
        /\ doomed'[r] = doomed[r] \ {c}
  BY DEF Sweep, Delete
<1>2. hand[r] # c
  BY <1>1 DEF Sweep, Owns
<1>3. \A s \in Stack : \A i \in On(s) : work[s].held[i] = hand[r]
  BY RowType DEF Sweep, Owns, Types, Platform
<1>4. \A s \in Stack : \A i \in On(s) : work'[s].held[i] = work[s].held[i]
  BY <1>1, <1>2, <1>3, BuriedType DEF Types, Files
<1> QED  BY <1>1, <1>2, <1>4

LEMMA OwnsStep ==
  ASSUME Types, Alone, Owns, [Next]_vars
  PROVE  Owns'
<1> USE DEF Owns
<1>0. /\ row' = row /\ Slot' = Slot /\ Slot \subseteq Nat
      /\ \A i \in Slot : row.on[i] \in Stack /\ i \in On(row.on[i])
      /\ Hands
  BY PlatformStep, FileSame, RowType DEF Types, Platform
<1>1. ASSUME NEW r \in Run, BeginMint(r)
      PROVE Owns'
  <2>1. /\ at' = [at EXCEPT ![r] = "mint"] /\ at[r] = "idle"
        /\ alone' = [q \in Run |-> IF q = r THEN ~Busy ELSE FALSE]
        /\ UNCHANGED <<hand, slot, doomed, work>>
    BY <1>1 DEF BeginMint, file
  <2>2. \A q \in Run : alone'[q] => at'[q] = "mint"
    BY <1>0, <2>1 DEF Hands
  <2>3. \A q \in Run : at'[q] \in {"idle", "mint"} => slot[q] = 1
    BY <1>0, <2>1 DEF Hands
  <2> QED  BY <2>1, <2>2, <2>3
<1>2. ASSUME NEW r \in Run, NoRoom(r) \/ SetRefused(r) \/ ReadBackRefused(r)
       \/ SweepRefused(r) \/ MintCut(r) \/ Delivered(r)
      PROVE Owns'
  <2>1. End(r) /\ work' = work
    BY <1>2 DEF NoRoom, SetRefused, ReadBackRefused, SweepRefused, Delivered, MintCut, file
  <2>2. at'[r] = "idle" /\ slot'[r] = 1 /\ ~alone'[r]
    BY <1>0, <2>1 DEF End, Ended, Hands
  <2>3. \A q \in Run : q # r =>
          /\ at'[q] = at[q] /\ slot'[q] = slot[q] /\ alone'[q] = alone[q]
          /\ hand'[q] = hand[q] /\ doomed'[q] = doomed[q]
    BY <1>0, <2>1 DEF End, Ended, Hands
  <2> QED  BY <1>0, <2>1, <2>2, <2>3
<1>3. ASSUME NEW r \in Run, Mint(r)
      PROVE Owns'
  <2>1. /\ at' = [at EXCEPT ![r] = "set"] /\ hand' = [hand EXCEPT ![r] = Fresh]
        /\ at[r] = "mint" /\ UNCHANGED <<slot, doomed, alone, work>>
    BY <1>3 DEF Mint, file
  <2>2. Fresh \in Cred /\ slot[r] = 1 /\ \A i \in Slot : ~(i < 1)
    BY <1>3, <1>0, <2>1, FreshType DEF Mint, Types, Slot
  <2>3. \A q \in Run : q # r => at'[q] = at[q] /\ hand'[q] = hand[q]
    BY <1>0, <2>1 DEF Hands
  <2>4. at'[r] = "set" /\ hand'[r] = Fresh
    BY <1>0, <2>1 DEF Hands
  <2> QED  BY <1>0, <2>1, <2>2, <2>3, <2>4
<1>4. ASSUME NEW r \in Run, Set(r)
      PROVE Owns'
  <2>1. /\ at' = [at EXCEPT ![r] = "check"] /\ at[r] = "set"
        /\ UNCHANGED <<hand, slot, doomed, alone>>
    BY <1>4 DEF Set
  <2>2. \A q \in Run : alone[q] => q = r
    BY <2>1 DEF Alone
  <2>3. \A i \in Slot : i < slot[r] => work'[row.on[i]].held[i] = work[row.on[i]].held[i]
    <3>1. \A i \in Slot : i < slot[r] => i # slot[r]
      BY <1>0 DEF Hands
    <3>2. \A s \in Stack : \A i \in On(s) : i # slot[r] => work'[s].held[i] = work[s].held[i]
      BY <1>4, SetHolds
    <3> QED  BY <1>0, <3>1, <3>2
  <2>4. at'[r] = "check" /\ \A q \in Run : q # r => at'[q] = at[q]
    BY <1>0, <2>1 DEF Hands
  <2> QED  BY <1>0, <2>1, <2>2, <2>3, <2>4
<1>5. ASSUME NEW r \in Run, ReadBack(r)
      PROVE Owns'
  <2>1. /\ at[r] = "check" /\ work[row.on[slot[r]]].held[slot[r]] = hand[r]
        /\ UNCHANGED <<hand, doomed, alone, work>>
    BY <1>5 DEF ReadBack, file
  <2>2. \A q \in Run : alone[q] => q = r
    BY <2>1 DEF Alone
  <2>3. \A q \in Run : q # r => at'[q] = at[q] /\ slot'[q] = slot[q]
    BY <1>5, <1>0 DEF ReadBack, Hands
  <2>4. \/ at'[r] = "set" /\ slot'[r] = slot[r] + 1
        \/ at'[r] = "list" /\ slot'[r] = slot[r] /\ slot[r] = Len(row.on)
    BY <1>5, <1>0 DEF ReadBack, Hands
  <2>5. \A i \in Slot : (i < slot[r] + 1 => i < slot[r] \/ i = slot[r])
                        /\ (slot[r] = Len(row.on) => i < slot[r] \/ i = slot[r])
    BY <1>0, RowType DEF Hands, Types, Platform
  <2>6. alone[r] => \A i \in Slot : i < slot[r] \/ i = slot[r] => work[row.on[i]].held[i] = hand[r]
    BY <2>1
  <2> QED  BY <1>0, <2>1, <2>2, <2>3, <2>4, <2>5, <2>6
<1>6. ASSUME NEW r \in Run, List(r)
      PROVE Owns'
  <2>1. /\ at' = [at EXCEPT ![r] = "sweep"] /\ at[r] = "list"
        /\ doomed' = [doomed EXCEPT ![r] = live \ {hand[r]}]
        /\ UNCHANGED <<hand, slot, alone, work>>
    BY <1>6 DEF List, file
  <2>2. \A q \in Run : q # r => at'[q] = at[q] /\ doomed'[q] = doomed[q]
    BY <1>0, <2>1 DEF Hands
  <2>3. at'[r] = "sweep" /\ hand[r] \notin doomed'[r]
    BY <1>0, <2>1 DEF Hands
  <2> QED  BY <1>0, <2>1, <2>2, <2>3
<1>7. ASSUME NEW r \in Run, Sweep(r)
      PROVE Owns'
  <2>1. at[r] = "sweep" /\ UNCHANGED <<at, slot, alone>>
    BY <1>7 DEF Sweep
  <2>2. \A q \in Run : alone[q] => q = r
    BY <2>1 DEF Alone
  <2>3. alone[r] => /\ hand'[r] = hand[r] /\ doomed'[r] \subseteq doomed[r]
                    /\ \A i \in Slot : work'[row.on[i]].held[i] = work[row.on[i]].held[i]
    BY <1>7, <1>0, SweepHolds
  <2> QED  BY <1>0, <2>1, <2>2, <2>3
<1>8. ASSUME NEW r \in Run, Stray(r)
      PROVE Owns'
  <2>1. UNCHANGED <<at, hand, slot, alone, work>>
    BY <1>8 DEF Stray, file
  <2>2. \A q \in Run : doomed'[q] \subseteq doomed[q]
    BY <1>8, <1>0 DEF Stray, Hands
  <2> QED  BY <1>0, <2>1, <2>2
<1>9. CASE SaveSalt \/ SaveCiphers
  <2>1. \A i \in Slot : work'[row.on[i]].held[i] = work[row.on[i]].held[i]
    BY <1>0, <1>9, MoveHolds
  <2>2. UNCHANGED <<at, hand, slot, doomed, alone>>
    BY <1>9 DEF SaveSalt, SaveCiphers, mint
  <2> QED  BY <1>0, <2>1, <2>2
<1>10. CASE Clear
  <2>1. UNCHANGED <<at, hand, slot, doomed, alone>> /\ \A q \in Run : at[q] = "idle"
    BY <1>10 DEF Checkout, Restore, Lose, Restored, Clear, Quiet, Busy, mint
  <2>2. \A q \in Run : ~alone[q]
    BY <2>1 DEF Alone
  <2> QED  BY <1>0, <2>1, <2>2
<1>11. ASSUME NEW s \in Stack, Checkout(s) \/ Restore(s) \/ Lose(s)
      PROVE Owns'
  <2>1. UNCHANGED <<at, hand, slot, doomed, alone>> /\ \A q \in Run : at[q] = "idle"
    BY <1>11 DEF Checkout, Restore, Lose, Restored, Clear, Quiet, Busy, mint
  <2>2. \A q \in Run : ~alone[q]
    BY <2>1 DEF Alone
  <2> QED  BY <1>0, <2>1, <2>2
<1>12. ASSUME NEW s \in Stack, JobApplies(s)
      PROVE Owns'
  <2>1. UNCHANGED <<work, at, hand, slot, doomed, alone, excuse>>
    BY <1>12 DEF JobApplies, file, mint, operator
  <2> QED  BY <1>0, <2>1
<1>13. CASE BeginMove \/ Look \/ ImportState \/ MoveFails \/ Test \/ MoveCut
       \/ Generate \/ Publish \/ Sync
  BY <1>13, <1>0 DEF BeginMove, Look, ImportState, MoveFails, Test, MoveCut,
       Generate, Publish, Sync, Moving, Rest, Say, Onward, Fault, file,
       passwd, mint, move, operator
<1>14. CASE UNCHANGED vars
  <2>1. UNCHANGED <<work, at, hand, slot, doomed, alone, excuse>>
    BY <1>14 DEF vars, file, mint, operator
  <2> QED  BY <1>0, <2>1
<1> QED
  BY <1>1, <1>2, <1>3, <1>4, <1>5, <1>6, <1>7, <1>8, <1>9, <1>10, <1>11,
       <1>12, <1>13, <1>14 DEF Next, MintStep, MoveStep

LEMMA UnexcusedStep ==
  ASSUME Types, Alone, Owns, Unexcused, [Next]_vars
  PROVE  Unexcused'
<1> USE DEF Unexcused
<1>0. /\ \A s \in Stack : On(s)' = On(s)
      /\ \A s \in Stack : \A i \in On(s) : i \in Slot /\ row.on[i] = s
      /\ Dead \notin Cred /\ Hands
  BY PlatformStep, FileSame, RowType, StackSlotsAssumption
     DEF Types, Platform, StackSlotsAssumption, Dead, Cred
<1>1. ASSUME NEW r \in Run, BeginMint(r)
      PROVE Unexcused'
  <2>1. /\ at' = [at EXCEPT ![r] = "mint"] /\ work' = work
        /\ alone' = [q \in Run |-> IF q = r THEN ~Busy ELSE FALSE]
        /\ excuse' = IF Busy THEN excuse \cup {"overlap"} ELSE excuse
    BY <1>1 DEF BeginMint, file
  <2>2. CASE Busy
    BY <2>1, <2>2
  <2>3. CASE ~Busy
    <3>1. \A q \in Run : at'[q] # "idle" => q = r
      BY <1>0, <2>1, <2>3 DEF Busy, Hands
    <3>2. alone'[r]
      BY <2>1, <2>3
    <3> QED  BY <1>0, <2>1, <2>3, <3>1, <3>2
  <2> QED  BY <2>2, <2>3
<1>2. ASSUME NEW r \in Run, NoRoom(r) \/ SetRefused(r) \/ ReadBackRefused(r)
       \/ SweepRefused(r) \/ MintCut(r)
      PROVE Unexcused'
  <2>1. End(r) /\ work' = work /\ excuse' = excuse
    BY <1>2 DEF NoRoom, SetRefused, ReadBackRefused, SweepRefused, MintCut, file, operator
  <2>2. \A q \in Run : at'[q] # "idle" => at[q] # "idle" /\ alone'[q] = alone[q]
    BY <1>0, <2>1 DEF End, Ended, Hands
  <2> QED  BY <1>0, <2>1, <2>2
<1>3. ASSUME NEW r \in Run, Delivered(r)
      PROVE Unexcused'
  <2>1. /\ Ended(r) /\ work' = work /\ at[r] = "sweep"
        /\ excuse' = IF alone[r] THEN {} ELSE excuse
    BY <1>3 DEF Delivered, End, file
  <2>2. \A q \in Run : at'[q] # "idle" => at[q] # "idle" /\ alone'[q] = alone[q] /\ q # r
    BY <1>0, <2>1 DEF Ended, Hands
  <2>3. CASE alone[r]
    <3>1. \A q \in Run : at'[q] = "idle"
      BY <2>2, <2>3 DEF Alone
    <3>2. hand[r] # Dead /\ \A s \in Stack : \A i \in On(s) : work[s].held[i] = hand[r]
      BY <1>0, <2>1, <2>3 DEF Owns
    <3> QED  BY <1>0, <2>1, <3>1, <3>2
  <2>4. CASE ~alone[r]
    BY <2>1, <2>4
  <2> QED  BY <2>3, <2>4
<1>4. ASSUME NEW r \in Run, Mint(r) \/ ReadBack(r) \/ List(r)
      PROVE Unexcused'
  <2>1. at[r] # "idle" /\ UNCHANGED <<work, alone, excuse>>
    BY <1>4 DEF Mint, ReadBack, List, file, operator
  <2>2. \A q \in Run : q # r => at'[q] = at[q]
    BY <1>4, <1>0 DEF Mint, ReadBack, List, Hands
  <2> QED  BY <1>0, <2>1, <2>2
<1>5. ASSUME NEW r \in Run, Stray(r)
      PROVE Unexcused'
  <2>1. UNCHANGED <<work, at, alone, excuse>>
    BY <1>5 DEF Stray, file
  <2> QED  BY <1>0, <2>1
<1>6. ASSUME NEW r \in Run, Set(r)
      PROVE Unexcused'
  <2>1. at[r] = "set" /\ UNCHANGED <<alone, excuse>>
    BY <1>6 DEF Set, operator
  <2>2. \A q \in Run : q # r => at'[q] = at[q]
    BY <1>6, <1>0 DEF Set, Hands
  <2>3. alone[r] => hand[r] # Dead
    BY <1>0, <2>1 DEF Owns
  <2>4. \A s \in Stack : \A i \in On(s) : work'[s].held[i] \in {hand[r], work[s].held[i]}
    BY <1>6, SetHolds
  <2> QED  BY <1>0, <2>1, <2>2, <2>3, <2>4
<1>7. ASSUME NEW r \in Run, Sweep(r)
      PROVE Unexcused'
  <2>1. at[r] = "sweep" /\ UNCHANGED <<at, alone, excuse>>
    BY <1>7 DEF Sweep, operator
  <2>2. alone[r] => \A s \in Stack : \A i \in On(s) : work'[s].held[i] = work[s].held[i]
    BY <1>7, SweepHolds
  <2> QED  BY <1>0, <2>1, <2>2
<1>8. CASE SaveSalt \/ SaveCiphers
  <2>1. \A s \in Stack : \A i \in On(s) : work'[s].held[i] = work[s].held[i]
    BY <1>8, MoveHolds
  <2>2. UNCHANGED <<at, alone, excuse>>
    BY <1>8 DEF SaveSalt, SaveCiphers, mint, operator
  <2> QED  BY <1>0, <2>1, <2>2
<1>9. CASE Clear
  <2>1. excuse' # {}
    BY <1>9 DEF Clear
  <2> QED  BY <2>1
<1>10. ASSUME NEW s \in Stack, Checkout(s) \/ Restore(s) \/ Lose(s)
      PROVE Unexcused'
  <2>1. PICK f : Restored(s, f)
    BY <1>10 DEF Checkout, Restore, Lose
  <2>2. UNCHANGED <<at, alone>> /\ work' = [work EXCEPT ![s] = f]
    BY <2>1 DEF Restored, mint
  <2>3. excuse' = {} => excuse = {} /\ f.held = work[s].held
    BY <2>1 DEF Restored
  <2>4. f.held = work[s].held => \A t \in Stack : work'[t].held = work[t].held
    BY <2>2 DEF Types, Files, Configs
  <2> QED  BY <1>0, <2>2, <2>3, <2>4
<1>11. ASSUME NEW s \in Stack, JobApplies(s)
      PROVE Unexcused'
  <2>1. UNCHANGED <<work, at, hand, slot, doomed, alone, excuse>>
    BY <1>11 DEF JobApplies, file, mint, operator
  <2> QED  BY <1>0, <2>1
<1>12. CASE BeginMove \/ Look \/ ImportState \/ MoveFails \/ Test \/ MoveCut
       \/ Generate \/ Publish \/ Sync
  BY <1>12, <1>0 DEF BeginMove, Look, ImportState, MoveFails, Test, MoveCut,
       Generate, Publish, Sync, Moving, Rest, Say, Onward, Fault, file,
       passwd, mint, move, operator
<1>13. CASE UNCHANGED vars
  BY <1>13, <1>0 DEF vars, file, passwd, mint, move, operator
<1> QED
  BY <1>1, <1>2, <1>3, <1>4, <1>5, <1>6, <1>7, <1>8, <1>9, <1>10, <1>11,
       <1>12, <1>13 DEF Next, MintStep, MoveStep

-----------------------------------------------------------------------------
(* The theorems.                                                           *)

LEMMA Start ==
  ASSUME Init
  PROVE  IInv
<1>1. Platform
  <2>1. row.quota \in Cred \ {1} /\ MaxCred \in Nat
    BY StackSlotsAssumption DEF Init, StackSlotsAssumption
  <2>2. Cardinality({1, 2}) = 2
    <3>1. IsFiniteSet({1}) /\ Cardinality({1}) = 1 /\ 2 \notin {1}
      BY FS_Singleton
    <3>2. Cardinality({1} \cup {2}) = 2
      BY <3>1, FS_AddElement
    <3>3. {1} \cup {2} = {1, 2}
      OBVIOUS
    <3> QED  BY <3>2, <3>3
  <2>3. live = {1, 2} /\ row \in Rows
    BY DEF Init
  <2> QED  BY <2>1, <2>2, <2>3 DEF Platform, Cred
<1>2. 1 \in Gen /\ 1 \in 0..Dead /\ 0 \in 0..Dead /\ 1 # Dead
  BY StackSlotsAssumption DEF StackSlotsAssumption, Gen, Dead
<1>3. PICK rest \in {0, 1}, secret \in {0, 1} :
        /\ work = [s \in Stack |-> [salt |-> 1, rest |-> rest,
                                    held |-> [i \in On(s) |-> 1], under |-> [i \in On(s) |-> 1]]]
        /\ state = [s \in Stack |-> secret]
  BY DEF Init
<1>4. Configs(work)
  <2>1. \A s \in Stack : [i \in On(s) |-> 1] \in [On(s) -> 0..Dead] /\ [i \in On(s) |-> 1] \in [On(s) -> Gen \cup {0}]
    BY <1>2
  <2>2. \A s \in Stack : work[s] \in File(s)
    BY <1>2, <1>3, <2>1 DEF File
  <2> QED  BY <1>3, <2>2 DEF Configs
<1>5. Files
  BY <1>4 DEF Init, Files
<1>6. Hands
  BY <1>1, <1>2, RowType DEF Init, Hands, Platform
<1>7. Generations
  <2>1. 1 \in DOMAIN Stacks
    BY StackSlotsAssumption DEF StackSlotsAssumption
  <2>2. state \in [Stack -> Gen \cup {0}]
    BY <1>2, <1>3
  <2>3. newest \in Gen /\ env \in 1..newest
    BY <1>2 DEF Init
  <2>4. step \in {"idle", "look", "salt", "ciphers", "state", "test"} /\ failed \in BOOLEAN
    BY DEF Init
  <2>5. which \in DOMAIN Stacks /\ from \in Gen
    BY <1>2, <2>1 DEF Init
  <2> QED  BY <2>2, <2>3, <2>4, <2>5 DEF Generations
<1>8. Operator
  <2>1. said \in [Stack -> {"well", "rerun", "checkout", "either"}]
    BY DEF Init
  <2>2. full \in BOOLEAN /\ owed \in BOOLEAN
    BY DEF Init
  <2>3. excuse \subseteq {"overlap", "restored", "cleared"} /\ faults \in 0..MaxFaults
    BY StackSlotsAssumption DEF Init, StackSlotsAssumption
  <2> QED  BY <2>1, <2>2, <2>3 DEF Operator
<1>9. Alone /\ Owns
  BY DEF Init, Alone, Owns
<1>10. Unexcused
  BY <1>2, <1>3 DEF Init, Unexcused
<1> QED  BY <1>1, <1>5, <1>6, <1>7, <1>8, <1>9, <1>10 DEF IInv, Types

THEOREM Invariance == Spec => []IInv
<1>1. Init => IInv
  BY Start
<1>2. IInv /\ [Next]_vars => IInv'
  BY PlatformStep, FilesStep, HandsStep, GenerationsStep, OperatorStep,
     AloneStep, OwnsStep, UnexcusedStep DEF IInv, Types
<1> QED  BY <1>1, <1>2, PTL DEF Spec

\* A credential, a file, a passphrase and what a run is told are always of
\* their kinds, and the provider's quota is never passed.
THEOREM TypeCorrect == Spec => []TypeOK
<1>1. IInv => TypeOK
  BY DEF IInv, Types, Platform, Files, Hands, Generations, Operator, Configs, TypeOK
<1> QED  BY <1>1, Invariance, PTL

\* A slot that holds a deleted credential is one that a second mint beside the
\* first, a file restored or a user cleared has left so, and no mint has run
\* alone to its end since: `Delivery.deliver` retires last, however it is cut.
THEOREM NoSlotIsDead == Spec => []SlotsLive
<1>1. IInv => SlotsLive
  BY DEF IInv, Unexcused, SlotsLive
<1> QED  BY <1>1, Invariance, PTL

-----------------------------------------------------------------------------
(* The checkpoint.                                                         *)
(*                                                                         *)
(* `NothingPublished` speaks of a push, and a push looks at the record      *)
(* alone.  What carries it is `Guarded`: where no record stands, the file   *)
(* is as the last check left it; and `Searched`: while a command runs, the  *)
(* values nothing told of are those the export before it read in the clear. *)
(* `Counted` is what the types rest on: every deployment is an edit's.      *)

Guarded  == pc = "idle" /\ record = "none" => checkpoint.clear \subseteq lapsed
Searched == pc \in {"write", "check"} => lapsed = started.clear \ Known
Counted  == want <= edits

CheckpointInv == CheckpointTypeOK /\ Guarded /\ Searched /\ Counted

USE CommittedCheckpointAssumption DEF CommittedCheckpointAssumption

\* A check that finds nothing leaves in the clear only what no marking told of
\* when its run began.
LEMMA CheckGuards ==
  ASSUME CheckpointInv, Check
  PROVE  Guarded'
<1>1. CASE record' = "none"
  <2>1. {p \in checkpoint'.clear : HeldSecret(p)} = {}
    BY <1>1 DEF Check, Checked
  <2>2. checkpoint'.clear \subseteq checkpoint.clear
    BY DEF Check, SameDeployment
  <2>3. ASSUME NEW p \in checkpoint'.clear  PROVE p \in started.clear \ Known
    BY <2>1, <2>2 DEF HeldSecret
  <2> QED  BY <2>3 DEF CheckpointInv, Searched, Guarded, Check
<1>2. CASE record' # "none"
  BY <1>2 DEF Guarded
<1> QED  BY <1>1, <1>2

\* A step keeps the types.
LEMMA CheckpointTypingStep ==
  ASSUME CheckpointTypeOK, Counted, [CheckpointNext]_checkpointVars
  PROVE  CheckpointTypeOK' /\ Counted'
<1> USE DEF CheckpointTypeOK, Checkpoint, Counted
<1>1. CASE Up
  BY <1>1 DEF Up, Begin
<1>2. CASE Passthrough
  BY <1>2 DEF Passthrough, Begin
<1>3. CASE Export
  BY <1>3 DEF Export
<1>4. CASE Write
  BY <1>4 DEF Write
<1>5. CASE Check
  <2>1. /\ checkpoint' \in Checkpoint
        /\ {p \in checkpoint'.clear : HeldSecret(p)} \subseteq Secret
    BY <1>5 DEF Check, SameDeployment
  <2> QED  BY <1>5, <2>1 DEF Check, Checked
<1>6. CASE Cut
  BY <1>6 DEF Cut, process
<1>7. CASE Change
  BY <1>7 DEF Change, Edit, process
<1>8. CASE Straying
  BY <1>8 DEF Straying, Edit, process
<1>9. CASE Remove
  BY <1>9 DEF Remove, process
<1>10. CASE Push
  BY <1>10 DEF Push, process
<1>11. ASSUME NEW p \in Secret, Unmark(p)  PROVE CheckpointTypeOK' /\ Counted'
  BY <1>11 DEF Unmark, Edit, process
<1>12. ASSUME NEW p \in Secret, Mark(p)  PROVE CheckpointTypeOK' /\ Counted'
  BY <1>12 DEF Mark, process
<1>13. CASE UNCHANGED checkpointVars
  BY <1>13 DEF checkpointVars, process
<1> QED
  BY <1>1, <1>2, <1>3, <1>4, <1>5, <1>6, <1>7, <1>8, <1>9, <1>10, <1>11,
     <1>12, <1>13 DEF CheckpointNext

\* A step keeps what carries the property.
LEMMA GuardStep ==
  ASSUME CheckpointInv, [CheckpointNext]_checkpointVars
  PROVE  Guarded' /\ Searched'
<1> USE DEF CheckpointInv, CheckpointTypeOK, Guarded, Searched
<1>1. CASE Up \/ Passthrough
  BY <1>1 DEF Up, Passthrough, Begin
<1>2. CASE Export
  BY <1>2 DEF Export
<1>3. CASE Write
  BY <1>3 DEF Write
<1>4. CASE Check
  <2>1. Guarded'
    BY <1>4, CheckGuards
  <2>2. Searched'
    BY <1>4 DEF Check
  <2> QED  BY <2>1, <2>2
<1>5. CASE Cut
  BY <1>5 DEF Cut, process
<1>6. CASE Change \/ Straying \/ Remove \/ Push
  BY <1>6 DEF Change, Straying, Remove, Push, process
<1>7. ASSUME NEW p \in Secret, Unmark(p) \/ Mark(p)  PROVE Guarded' /\ Searched'
  BY <1>7 DEF Unmark, Mark, process
<1>8. CASE UNCHANGED checkpointVars
  BY <1>8 DEF checkpointVars, process
<1> QED
  BY <1>1, <1>2, <1>3, <1>4, <1>5, <1>6, <1>7, <1>8 DEF CheckpointNext

THEOREM CheckpointInvariance == CheckpointSpec => []CheckpointInv
<1>1. CheckpointInit => CheckpointInv
  <2> SUFFICES ASSUME CheckpointInit PROVE CheckpointInv
    OBVIOUS
  <2>1. checkpoint \in Checkpoint /\ pushed \in Checkpoint /\ started \in Checkpoint
    BY DEF CheckpointInit, Checkpoint
  <2>2. stray \in BOOLEAN /\ record \in {"none", "unchecked", "failed"}
    BY DEF CheckpointInit
  <2>3. want \in 0..MaxEdits /\ edits \in 0..MaxEdits /\ cuts \in 0..MaxCuts
    BY DEF CheckpointInit
  <2>4. marked \subseteq Secret /\ found = {} /\ lapsed \subseteq Secret \ Known
    BY DEF CheckpointInit
  <2>5. pc = "idle" /\ command = "up"
    BY DEF CheckpointInit
  <2>6. CheckpointTypeOK
    BY <2>1, <2>2, <2>3, <2>4, <2>5 DEF CheckpointTypeOK
  <2> QED  BY <2>6 DEF CheckpointInit, CheckpointInv, Guarded, Searched, Counted
<1>2. CheckpointInv /\ [CheckpointNext]_checkpointVars => CheckpointInv'
  BY CheckpointTypingStep, GuardStep DEF CheckpointInv
<1> QED  BY <1>1, <1>2, PTL DEF CheckpointSpec

\* Every variable stays in its set, and a command at work has a record standing.
THEOREM CheckpointTypeCorrect == CheckpointSpec => []CheckpointTypeOK
<1>1. CheckpointInv => CheckpointTypeOK
  BY DEF CheckpointInv
<1> QED  BY <1>1, CheckpointInvariance, PTL

\* A push moves main to what the file holds, and only where no record stands.
LEMMA PushStep ==
  ASSUME CheckpointInv, [CheckpointNext]_checkpointVars, pushed' # pushed
  PROVE  pushed'.clear \subseteq lapsed
<1>1. Push
  BY DEF CheckpointNext, checkpointVars, process, Up, Passthrough, Begin, Export, Write,
         Check, Cut, Change, Straying, Remove, Unmark, Mark
<1> QED  BY <1>1 DEF Push, CheckpointInv, Guarded

\* Nothing is landed in the clear, wherever runs were stopped or failed, but a
\* value no marking told of when the last run began.
THEOREM NothingIsPublished == CheckpointSpec => NothingPublished
<1>1. CheckpointInv /\ [CheckpointNext]_checkpointVars
        => [pushed' # pushed => pushed'.clear \subseteq lapsed]_checkpointVars
  BY PushStep
<1> QED  BY <1>1, CheckpointInvariance, PTL DEF CheckpointSpec, NothingPublished
================================================================================
