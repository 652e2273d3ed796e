------------------------------ MODULE StackSlots ------------------------------
(***************************************************************************)
(* Two commands that write a stack's committed configuration, composed over *)
(* the file they share.  A derived row's mint (`credentials derived ...`)   *)
(* creates a credential at its provider, pushes it into the row's slots and *)
(* only then retires what it supersedes; `re-encrypt` moves the files and   *)
(* the states onto the newest generation of their passphrase.  Around them, *)
(* the operator, who commits, restores and runs again, and the jobs that    *)
(* apply what main holds.                                                   *)
(*                                                                         *)
(* Abstracted: a credential is a number, free again once deleted, and what  *)
(* a file still holds of a deleted one is Dead.  A ciphertext is the        *)
(* generation it opens under.  A file holds one secret beside its slots, or *)
(* none.  A refusal that changes nothing, and tells the operator nothing to *)
(* do, is no step.                                                          *)
(***************************************************************************)
EXTENDS Naturals, Sequences, FiniteSets

CONSTANTS
  Stacks,     \* ON_STACK_PASSPHRASE, a sequence
  Rows,       \* the rows there may be: the stack of each slot in the order
              \* filled, the provider's quota, and whether a sweep runs as the
              \* credential just minted
  Run,        \* the mints that may be at work in the checkout at once
  MaxCred,    \* bound: credentials of the row's name at once
  MaxGen,     \* bound: generations filed
  MaxFaults   \* bound: failures, cuts and runs out of place

Stack == {Stacks[i] : i \in DOMAIN Stacks}
Gen   == 1..MaxGen
Cred  == 1..MaxCred
Dead  == MaxCred + 1

ASSUME StackSlotsAssumption ==
  /\ Stacks \in Seq(Stack) /\ Stacks # <<>>
  /\ \A r \in Rows : r.on \in Seq(Stack) /\ r.on # <<>> /\ r.quota \in Cred \ {1} /\ r.itself \in BOOLEAN
  /\ MaxCred \in Nat \ {0} /\ MaxGen \in Nat \ {0} /\ MaxFaults \in Nat

VARIABLES
  row,      \* the row minted
  live,     \* the credentials of its name at the provider
  work,     \* Pulumi.<stack>.yaml in the checkout
  main,     \* ... as main has it
  before,   \* ... as main had it before its last move
  state,    \* the generation each state is encrypted under (0: nothing is)
  newest,   \* the newest generation filed
  env,      \* the generation the Environments hold
  \* The mints.
  at,       \* idle, mint, set, check, list, sweep
  hand,     \* the credential each run minted (0: none)
  slot,     \* the slot it is at
  doomed,   \* what its sweep has still to delete (0: one deleted since)
  alone,    \* no other run was at work beside it
  \* The move.
  step,     \* idle, look, salt, ciphers, state, test
  which,    \* the stack it is at
  from,     \* the passphrase it opened that stack with
  failed,   \* whether change-secrets-provider failed
  \* The operator.
  said,     \* what the last move of each stack ended in
  full,     \* the last mint met the quota
  owed,     \* a mint has to be run, or run again
  excuse,   \* what may have left a slot dead
  faults

file     == <<work, main, before>>
passwd   == <<newest, env>>
mint     == <<at, hand, slot, doomed, alone>>
move     == <<step, which, from, failed>>
operator == <<said, full, owed, excuse, faults>>
vars     == <<row, live, file, state, passwd, mint, move, operator>>

Slot  == 1..Len(row.on)
On(s) == {i \in Slot : row.on[i] = s}

\* A file: its salt, its other secret, and what its slots hold and under what.
File(s) == [salt : Gen, rest : Gen \cup {0}, held : [On(s) -> 0..Dead], under : [On(s) -> Gen \cup {0}]]

TypeOK ==
  /\ row \in Rows /\ live \subseteq Cred /\ Cardinality(live) <= row.quota
  /\ \A s \in Stack : work[s] \in File(s) /\ main[s] \in File(s) /\ before[s] \in File(s)
  /\ state \in [Stack -> Gen \cup {0}]
  /\ newest \in Gen /\ env \in 1..newest
  /\ at \in [Run -> {"idle", "mint", "set", "check", "list", "sweep"}]
  /\ hand \in [Run -> 0..Dead] /\ slot \in [Run -> Slot]
  /\ doomed \in [Run -> SUBSET (Cred \cup {0})] /\ alone \in [Run -> BOOLEAN]
  /\ step \in {"idle", "look", "salt", "ciphers", "state", "test"}
  /\ which \in DOMAIN Stacks /\ from \in Gen /\ failed \in BOOLEAN
  /\ said \in [Stack -> {"well", "rerun", "checkout", "either"}]
  /\ full \in BOOLEAN /\ owed \in BOOLEAN
  /\ excuse \subseteq {"overlap", "restored", "cleared"}
  /\ faults \in 0..MaxFaults

-----------------------------------------------------------------------------
(* What opens, and what a deletion leaves.                                 *)

\* Every secret of a file is under its salt's own generation.
Whole(f) == f.rest \in {0, f.salt} /\ \A i \in DOMAIN f.under : f.under[i] \in {0, f.salt}

StateOpens(s, g) == state[s] \in {0, g}

Fresh == CHOOSE c \in Cred : c \notin live

Buried(files, C) ==
  [s \in Stack |-> [files[s] EXCEPT !.held = [i \in DOMAIN @ |-> IF @[i] \in C THEN Dead ELSE @[i]]]]

Delete(C) ==
  /\ live' = live \ C
  /\ work' = Buried(work, C) /\ main' = Buried(main, C) /\ before' = Buried(before, C)

-----------------------------------------------------------------------------
(* Mutants: what a plausible mistake in a definition below would make it.  *)

\* Each slot is retired for as soon as it is filled: a run per stack.
MutReadBack(r) ==
  LET i == slot[r] IN
  /\ at[r] = "check" /\ work[row.on[i]].held[i] = hand[r]
  /\ slot' = slot /\ at' = [at EXCEPT ![r] = "list"]
  /\ UNCHANGED <<row, live, file, state, passwd, hand, doomed, alone, move, operator>>

\* The last place in the quota is taken for room and one more.
MutMint(r) ==
  /\ at[r] = "mint" /\ Cardinality(live) <= row.quota
  /\ live' = live \cup {Fresh} /\ hand' = [hand EXCEPT ![r] = Fresh]
  /\ at' = [at EXCEPT ![r] = "set"]
  /\ UNCHANGED <<row, file, state, passwd, slot, doomed, alone, move, operator>>

-----------------------------------------------------------------------------
(* A mint: `_mint_verified`, the push, the retirement.                     *)

Busy  == \E r \in Run : at[r] # "idle"
Quiet == ~Busy /\ step = "idle"
Fault == faults < MaxFaults /\ faults' = faults + 1

\* The row's command is run, and run again until a run ends well.  A fault is a
\* run beside another, or one before its stacks have been moved.
BeginMint(r) ==
  /\ at[r] = "idle" /\ step = "idle" /\ owed /\ ~full
  /\ \/ ~Busy /\ (\A i \in Slot : work[row.on[i]].salt = newest) /\ faults' = faults
     \/ (Busy \/ \E i \in Slot : work[row.on[i]].salt # newest) /\ Fault
  /\ at' = [at EXCEPT ![r] = "mint"]
  /\ alone' = [q \in Run |-> IF q = r THEN ~Busy ELSE FALSE]
  /\ excuse' = IF Busy THEN excuse \cup {"overlap"} ELSE excuse
  /\ UNCHANGED <<row, live, file, state, passwd, hand, slot, doomed, move, said, full, owed>>

\* The run ends, and r holds nothing any more.
Ended(r) ==
  /\ at' = [at EXCEPT ![r] = "idle"] /\ slot' = [slot EXCEPT ![r] = 1]
  /\ alone' = [alone EXCEPT ![r] = FALSE]

End(r) == Ended(r) /\ hand' = [hand EXCEPT ![r] = 0] /\ doomed' = [doomed EXCEPT ![r] = {}]

Mint(r) ==
  /\ at[r] = "mint" /\ Cardinality(live) < row.quota
  /\ live' = live \cup {Fresh} /\ hand' = [hand EXCEPT ![r] = Fresh]
  /\ at' = [at EXCEPT ![r] = "set"]
  /\ UNCHANGED <<row, file, state, passwd, slot, doomed, alone, move, operator>>

NoRoom(r) ==
  /\ at[r] = "mint" /\ Cardinality(live) >= row.quota
  /\ End(r) /\ full' = TRUE
  /\ UNCHANGED <<row, live, file, state, passwd, move, said, owed, excuse, faults>>

\* `set_secret`: the CLI encrypts under the newest generation, which the salt
\* has to verify.
Filled(f, i, c) == [f EXCEPT !.held[i] = c, !.under[i] = newest]

Set(r) ==
  LET i == slot[r] s == row.on[i] IN
  /\ at[r] = "set" /\ work[s].salt = newest
  /\ work' = [work EXCEPT ![s] = Filled(@, i, hand[r])]
  /\ at' = [at EXCEPT ![r] = "check"]
  /\ UNCHANGED <<row, live, main, before, state, passwd, hand, slot, doomed, alone, move, operator>>

SetRefused(r) ==
  /\ at[r] = "set" /\ work[row.on[slot[r]]].salt # newest
  /\ End(r)
  /\ UNCHANGED <<row, live, file, state, passwd, move, operator>>

\* ... and reads it back.
ReadBack(r) ==
  LET i == slot[r] IN
  /\ at[r] = "check" /\ work[row.on[i]].held[i] = hand[r]
  /\ \/ i < Len(row.on) /\ slot' = [slot EXCEPT ![r] = i + 1] /\ at' = [at EXCEPT ![r] = "set"]
     \/ i = Len(row.on) /\ slot' = slot /\ at' = [at EXCEPT ![r] = "list"]
  /\ UNCHANGED <<row, live, file, state, passwd, hand, doomed, alone, move, operator>>

ReadBackRefused(r) ==
  /\ at[r] = "check" /\ work[row.on[slot[r]]].held[slot[r]] # hand[r]
  /\ End(r)
  /\ UNCHANGED <<row, live, file, state, passwd, move, operator>>

\* The retirement lists what bears the row's name.
List(r) ==
  /\ at[r] = "list" /\ (row.itself => hand[r] # Dead)
  /\ doomed' = [doomed EXCEPT ![r] = live \ {hand[r]}]
  /\ at' = [at EXCEPT ![r] = "sweep"]
  /\ UNCHANGED <<row, live, file, state, passwd, hand, slot, alone, move, operator>>

Sweep(r) ==
  /\ at[r] = "sweep" /\ (row.itself => hand[r] # Dead)
  /\ \E c \in doomed[r] \ {0} :
       /\ Delete({c})
       /\ hand' = [q \in Run |-> IF hand[q] = c THEN Dead ELSE hand[q]]
       /\ doomed' = [q \in Run |-> IF q = r THEN doomed[q] \ {c}
                                   ELSE {IF d = c THEN 0 ELSE d : d \in doomed[q]}]
  /\ UNCHANGED <<row, state, passwd, at, slot, alone, move, operator>>

\* A key that cannot be deleted does not stop an OCI sweep: it is a warning.  A
\* key deleted since is one, and all are to a session signing with one.
Stray(r) ==
  /\ at[r] = "sweep" /\ row.itself
  /\ \E c \in doomed[r] :
       /\ IF c = 0 \/ hand[r] = Dead THEN faults' = faults ELSE Fault
       /\ doomed' = [doomed EXCEPT ![r] = @ \ {c}]
  /\ UNCHANGED <<row, live, file, state, passwd, at, hand, slot, alone, move, said, full, owed, excuse>>

\* The platform refuses: to delete a key deleted since, which ends only a sweep
\* that is not OCI's; or to list, to a session signing with a deleted key.
SweepRefused(r) ==
  /\ \/ at[r] = "sweep" /\ ~row.itself /\ 0 \in doomed[r]
     \/ at[r] = "list" /\ row.itself /\ hand[r] = Dead
  /\ End(r)
  /\ UNCHANGED <<row, live, file, state, passwd, move, operator>>

\* Delivered.  What a run alone leaves behind it is the whole of the row.
Delivered(r) ==
  /\ at[r] = "sweep" /\ doomed[r] = {}
  /\ owed' = (live # {hand[r]} \/ ~alone[r])
  /\ excuse' = IF alone[r] THEN {} ELSE excuse
  /\ End(r)
  /\ UNCHANGED <<row, live, file, state, passwd, move, said, full, faults>>

\* The provider, the CLI or the machine ends the run anywhere.
MintCut(r) ==
  /\ at[r] # "idle" /\ Fault /\ End(r)
  /\ UNCHANGED <<row, live, file, state, passwd, move, said, full, owed, excuse>>

-----------------------------------------------------------------------------
(* The move: `re_encrypt_on_stack_passphrase`, one stack after another.    *)

Here == Stacks[which]

Say(s, what) == said' = [said EXCEPT ![s] = what]

Rest == step' = "idle" /\ which' = 1 /\ from' = 1 /\ failed' = FALSE

Moving(next) == step' = next /\ UNCHANGED <<which, from, failed>>

\* This stack is done: on to the one after it.
Onward ==
  IF which < Len(Stacks)
  THEN step' = "look" /\ which' = which + 1 /\ from' = 1 /\ failed' = FALSE
  ELSE Rest

\* Run while a stack is not moved, or its state does not open -- a job refuses
\* it -- and once what a refusal asks for is done: before, it is the same one.
BeginMove ==
  /\ Quiet /\ \A s \in Stack : said[s] \in {"well", "rerun"}
  /\ \E s \in Stack : said[s] # "well" \/ work[s].salt # newest \/ ~StateOpens(s, newest)
  /\ Moving("look")
  /\ UNCHANGED <<row, live, file, state, passwd, mint, operator>>

\* Mutant of Look: a stack whose file opens under its own is taken for moved.
MutLook ==
  LET f == work[Here] IN
  /\ step = "look"
  /\ \/ f.salt # newest /\ step' = "salt" /\ from' = f.salt /\ failed' = FALSE /\ which' = which /\ said' = said
     \/ f.salt = newest /\ ~Whole(f) /\ Say(Here, "checkout") /\ Rest
     \/ f.salt = newest /\ Whole(f) /\ Say(Here, "well") /\ Onward
  /\ UNCHANGED <<row, live, file, state, passwd, mint, full, owed, excuse, faults>>

\* Which passphrase the stack is under is read off its salt.
Look ==
  LET f == work[Here] IN
  /\ step = "look"
  /\ \/ f.salt # newest /\ step' = "salt" /\ from' = f.salt /\ failed' = FALSE /\ which' = which /\ said' = said
     \/ f.salt = newest /\ ~Whole(f) /\ Say(Here, "checkout") /\ Rest
     \/ f.salt = newest /\ Whole(f) /\ ~StateOpens(Here, newest) /\ Say(Here, "either") /\ Rest
     \/ f.salt = newest /\ Whole(f) /\ StateOpens(Here, newest) /\ Say(Here, "well") /\ Onward
  /\ UNCHANGED <<row, live, file, state, passwd, mint, full, owed, excuse, faults>>

\* change-secrets-provider: it opens the file, saves the new salt, saves the
\* ciphertexts, and imports the state again.
SaveSalt ==
  /\ step = "salt" /\ Whole(work[Here])
  /\ work' = [work EXCEPT ![Here] = [@ EXCEPT !.salt = newest]]
  /\ Moving("ciphers")
  /\ UNCHANGED <<row, live, main, before, state, passwd, mint, operator>>

Moved(f) ==
  [f EXCEPT !.rest = IF @ = 0 THEN 0 ELSE newest,
            !.under = [i \in DOMAIN @ |-> IF @[i] = 0 THEN 0 ELSE newest]]

SaveCiphers ==
  /\ step = "ciphers"
  /\ work' = [work EXCEPT ![Here] = Moved(@)]
  /\ Moving("state")
  /\ UNCHANGED <<row, live, main, before, state, passwd, mint, operator>>

ImportState ==
  /\ step = "state" /\ StateOpens(Here, from)
  /\ state' = [state EXCEPT ![Here] = IF @ = 0 THEN 0 ELSE newest]
  /\ Moving("test")
  /\ UNCHANGED <<row, live, file, passwd, mint, operator>>

\* It stops short: at what does not open, or for any reason at all.
MoveFails ==
  /\ step \in {"salt", "ciphers", "state"}
  /\ IF (step = "salt" /\ ~Whole(work[Here])) \/ (step = "state" /\ ~StateOpens(Here, from))
     THEN faults' = faults ELSE Fault
  /\ step' = "test" /\ failed' = TRUE /\ UNCHANGED <<which, from>>
  /\ UNCHANGED <<row, live, file, state, passwd, mint, said, full, owed, excuse>>

\* Moved is a new salt, and both halves open under the stack's own.
Test ==
  LET f == work[Here] IN
  /\ step = "test"
  /\ \/ f.salt = newest /\ Whole(f) /\ StateOpens(Here, newest) /\ Say(Here, "well") /\ Onward
     \/ f.salt = newest /\ Whole(f) /\ ~StateOpens(Here, newest)
        /\ Say(Here, IF failed THEN "checkout" ELSE "rerun") /\ Rest
     \/ (f.salt # newest \/ ~Whole(f)) /\ Say(Here, "rerun") /\ Rest
  /\ UNCHANGED <<row, live, file, state, passwd, mint, full, owed, excuse, faults>>

MoveCut ==
  /\ step # "idle" /\ Fault /\ Say(Here, "rerun") /\ Rest
  /\ UNCHANGED <<row, live, file, state, passwd, mint, full, owed, excuse>>

-----------------------------------------------------------------------------
(* The operator, and the jobs.                                             *)

\* A next generation is filed; nothing is re-encrypted.
Generate ==
  /\ Quiet /\ newest < MaxGen /\ newest' = newest + 1
  /\ UNCHANGED <<row, live, file, state, env, mint, move, operator>>

\* `git checkout` of the file main holds, or of the one it held before.
Restored(s, f) ==
  /\ work' = [work EXCEPT ![s] = f]
  /\ Say(s, "rerun")
  /\ IF f.held = work[s].held THEN UNCHANGED <<excuse, owed>>
     ELSE excuse' = excuse \cup {"restored"} /\ owed' = TRUE
  /\ UNCHANGED <<row, live, main, before, state, passwd, mint, move, full>>

Checkout(s) ==
  /\ Quiet /\ (said[s] = "checkout" \/ (said[s] = "either" /\ main[s].salt # newest))
  /\ Restored(s, main[s]) /\ faults' = faults

Restore(s) ==
  /\ Quiet /\ said[s] = "either" /\ main[s].salt = newest
  /\ Restored(s, before[s]) /\ faults' = faults

\* What was not committed yet is lost: another checkout, another machine.
Lose(s) == Quiet /\ work[s] # main[s] /\ Restored(s, main[s]) /\ Fault

\* The files are committed, and merged as one, once what rewrote them ended well.
Publish ==
  /\ Quiet /\ (\A s \in Stack : said[s] = "well") /\ main # work
  /\ main' = work
  /\ before' = [s \in Stack |-> IF work[s].salt = main[s].salt THEN before[s] ELSE main[s]]
  /\ UNCHANGED <<row, live, work, state, passwd, mint, move, operator>>

\* `derived sync` pushes the newest generation to the Environments.
Sync ==
  /\ Quiet /\ env # newest /\ env' = newest
  /\ UNCHANGED <<row, live, file, state, newest, mint, move, operator>>

\* The console, after a refusal for the quota: all but one go, or all of them.
Clear ==
  /\ Quiet /\ full
  /\ \E keep \in {{}} \cup {{c} : c \in live} : Delete(live \ keep)
  /\ full' = FALSE /\ owed' = TRUE /\ excuse' = excuse \cup {"cleared"}
  /\ UNCHANGED <<row, state, passwd, mint, move, said, faults>>

\* A job applies what main holds, or what it held when the job began, under
\* the passphrase the Environments had then.  A state that holds no secret yet
\* opens under anything, and the first is written under the job's generation.
JobApplies(s) ==
  /\ ~Busy /\ state[s] = 0
  /\ \E f \in {main[s], before[s]} :
       Whole(f) /\ f.salt <= env /\ state' = [state EXCEPT ![s] = f.salt]
  /\ UNCHANGED <<row, live, file, passwd, mint, move, operator>>

-----------------------------------------------------------------------------
(* The specification.                                                      *)

\* One generation, published everywhere, and beside the credential in use one
\* a run that was lost left behind.  The states hold secrets, or only the files
\* do, or these hold none but their slots.
Init ==
  /\ row \in Rows /\ live = {1, 2}
  /\ \E rest \in {0, 1}, secret \in {0, 1} :
       /\ secret <= rest
       /\ work = [s \in Stack |-> [salt |-> 1, rest |-> rest,
                                   held |-> [i \in On(s) |-> 1], under |-> [i \in On(s) |-> 1]]]
       /\ state = [s \in Stack |-> secret]
  /\ main = work /\ before = work
  /\ newest = 1 /\ env = 1
  /\ at = [r \in Run |-> "idle"] /\ hand = [r \in Run |-> 0] /\ slot = [r \in Run |-> 1]
  /\ doomed = [r \in Run |-> {}] /\ alone = [r \in Run |-> FALSE]
  /\ step = "idle" /\ which = 1 /\ from = 1 /\ failed = FALSE
  /\ said = [s \in Stack |-> "well"] /\ full = FALSE /\ owed = TRUE /\ excuse = {}
  /\ faults = 0

MintStep(r) ==
  \/ Mint(r) \/ NoRoom(r) \/ Set(r) \/ SetRefused(r) \/ ReadBack(r) \/ ReadBackRefused(r)
  \/ List(r) \/ Sweep(r) \/ SweepRefused(r) \/ Delivered(r)

MoveStep == Look \/ SaveSalt \/ SaveCiphers \/ ImportState \/ MoveFails \/ Test

Next ==
  \/ \E r \in Run : BeginMint(r) \/ MintStep(r) \/ Stray(r) \/ MintCut(r)
  \/ BeginMove \/ MoveStep \/ MoveCut
  \/ Generate \/ Publish \/ Sync \/ Clear
  \/ \E s \in Stack : Checkout(s) \/ Restore(s) \/ Lose(s) \/ JobApplies(s)

Spec == Init /\ [][Next]_vars

\* What a refusal asks the operator for, and what ended well has still to reach.
Duty ==
  \/ BeginMove \/ Publish \/ Sync \/ Clear
  \/ \E r \in Run : BeginMint(r)
  \/ \E s \in Stack : Checkout(s) \/ Restore(s)

\* A command runs to its end, and the operator is never done before all is.
Fairness ==
  /\ WF_vars(MoveStep) /\ \A r \in Run : WF_vars(MintStep(r) \/ Stray(r))
  /\ WF_vars(Duty)

FairSpec == Spec /\ Fairness

-----------------------------------------------------------------------------
(* Properties.                                                             *)

\* No slot of the checkout holds a credential its provider has deleted,
\* however a mint or a move was cut, failed or refused -- but for a mint run
\* beside another, a file restored, and a user cleared for the quota: what
\* `Delivery.deliver` retires last for, and what a mint run alone makes good.
SlotsLive ==
  (\E s \in Stack : \E i \in On(s) : work[s].held[i] = Dead) => excuse # {}

\* Everything settles: every file, state and Environment at the newest
\* generation, one credential alive, and every slot holding it.
Settled ==
  /\ env = newest /\ \E c \in Cred : live = {c} /\ \A i \in Slot : work[row.on[i]].held[i] = c
  /\ \A s \in Stack : Whole(work[s]) /\ work[s].salt = newest /\ StateOpens(s, newest) /\ main[s] = work[s]

Converges == <>[]Settled
==============================================================================
