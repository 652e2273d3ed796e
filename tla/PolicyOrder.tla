----------------------------- MODULE PolicyOrder -----------------------------
(***************************************************************************)
(* The policies of one zone pair on the UniFi controller and the resource  *)
(* that ranks them (`ZonePolicyOrder`), under the deployment that creates, *)
(* replaces and drops policies around it.                                  *)
(*                                                                         *)
(* A run is `pulumi up --refresh`: the policies and the order are read,    *)
(* the census's policies created or replaced, the order updated if it      *)
(* differs, and only then are dropped policies and replaced originals      *)
(* deleted.  A step that fails ends the run, and the rest is not done.     *)
(* Between any two requests the console may add, move or delete a policy.  *)
(*                                                                         *)
(* Abstracted: a policy is its id, and the indexes the controller gives    *)
(* are the order they stand for; an edit of a policy is one that needs a   *)
(* replacement; the stamps and the address, whose update sends nothing;    *)
(* the pair always holds a predefined policy and is always in the census.  *)
(***************************************************************************)
EXTENDS Naturals, SequencesExt

CONSTANTS
  Row,          \* the policies a census can declare, by key
  Censuses,     \* the lists of rows a commit may declare
  Hand,         \* policies made in the console
  Predefined,   \* where the pair's predefined policies start
  NoPolicy,     \* a row with no resource in the state
  Copies,       \* bound: policies of one row in use at once, their ids used again
  MaxCommits,   \* bound: commits
  MaxEdits,     \* bound: edits in the console that no refusal asked for
  MaxFaults     \* bound: requests that fail, or runs cut short

Made == Row \X (1 .. Copies)
Ids  == Made \cup Hand

ASSUME CensusAssumption ==
  \A c \in Censuses : c \in Seq(Row) /\ IsInjective(c)
ASSUME IdAssumption ==
  Made \cap Hand = {} /\ Predefined \notin Ids /\ NoPolicy \notin Ids
ASSUME BoundAssumption ==
  {Copies, MaxCommits, MaxEdits, MaxFaults} \subseteq Nat

VARIABLES
  pair,         \* the controller's: <<a, b>> where a ranks ahead of b, each a custom
                \* policy of the pair or Predefined
  declared,     \* the program's: the census, by rank
  stale,        \* rows edited since their policy was made
  held,         \* the state's: the policy of each row
  doomed,       \* the state's: replaced originals not deleted yet
  listed,       \* the state's: the order's `policy_ids`, or NoOrder
  drift,        \* the state's: whether `drift` is not empty
  pc,           \* where the run is
  read,         \* the pair as `_send` read it, until its batch is answered
  refused,      \* the policies the last run's order refused as foreign
  ranked,       \* history: <<a, b>> where the last list the controller took names a
                \* before b, less what a remedy deleted
  commits, edits, faults        \* bounds

program == <<declared, stale>>
state   == <<held, doomed, listed, drift>>
order   == <<read, refused, ranked>>
bounds  == <<commits, edits, faults>>
vars    == <<pair, program, state, pc, order, bounds>>

NoOrder == <<NoPolicy>>
Nothing == {}
Stage   == {"idle", "refresh", "policies", "get", "put", "again", "putAgain",
            "check", "delete"}

-----------------------------------------------------------------------------
(* The controller: what it answers, and how it places and ranks policies.  *)

OnPair(p)  == {x \in Ids : <<x, Predefined>> \in p \/ <<Predefined, x>> \in p}
Present(p) == OnPair(p) \cup {Predefined}

\* The places a policy can have on a pair: what is ahead of it.
Places(p) ==
  {ahead \in SUBSET Present(p) : \A q \in p : q[2] \in ahead => q[1] \in ahead}

Inserted(p, id, ahead) ==
  p \cup (ahead \X {id}) \cup ({id} \X (Present(p) \ ahead))

\* A new policy goes behind the pair's other custom policies, and ahead of the
\* predefined ones where those all are.
Placed(id) ==
  Inserted(pair, id, IF \A x \in OnPair(pair) : <<x, Predefined>> \in pair
                       THEN OnPair(pair) ELSE Present(pair))

Without(id) == {q \in pair : q[1] # id /\ q[2] # id}

-----------------------------------------------------------------------------
(* What the order reads of a pair, and what it sends.  A definition whose  *)
(* name begins with Mut is what a slip in the code would make of the one   *)
(* it is named after: no behaviour uses it, and each breaks a property.    *)

Names == [i \in DOMAIN declared |-> held[declared[i]]]
Previous == IF listed = NoOrder THEN {} ELSE ToSet(listed)

Ordered(list) ==
  {q \in ToSet(list) \X ToSet(list) :
     \E i, j \in DOMAIN list : i < j /\ q = <<list[i], list[j]>>}

\* What the list names is carried as well, and ranked twice.
MutCarried(p, list, previous) == OnPair(p) \cap previous

Carried(p, list, previous) == (OnPair(p) \cap previous) \ ToSet(list)

\* What is on its way out is sent ahead of the list.
MutBatch(p, list, previous) ==
  LET carried == Carried(p, list, previous)
  IN  Ordered(list) \cup (carried \X ToSet(list)) \cup (p \cap (carried \X carried))
        \cup ((ToSet(list) \cup carried) \X {Predefined})

\* The list, and behind it what is carried as it ranks now, all of it ahead of
\* the predefined policies.
Batch(p, list, previous) ==
  LET carried == Carried(p, list, previous)
  IN  Ordered(list) \cup (ToSet(list) \X carried) \cup (p \cap (carried \X carried))
        \cup ((ToSet(list) \cup carried) \X {Predefined})

Foreign(p, list, previous) == OnPair(p) \ (ToSet(list) \cup previous)
Absent(p, list) == ToSet(list) \ OnPair(p)
Unusable(p, list, previous) ==
  Foreign(p, list, previous) # {} \/ Absent(p, list) # {}

\* The list is not the pair's first custom policies, in order, ahead of the
\* predefined ones.
Misplaced(p, list) ==
  \E i \in DOMAIN list :
    \/ <<list[i], Predefined>> \notin p
    \/ {x \in OnPair(p) : <<x, list[i]>> \in p} # {list[j] : j \in 1 .. i - 1}

\* A refresh writes the list it found into the state.
MutReadOrder ==
  /\ pc = "refresh"
  /\ pc' = "policies"
  /\ IF listed = NoOrder
       THEN UNCHANGED <<listed, drift>>
       ELSE /\ listed' = SetToSortSeq(OnPair(pair), LAMBDA x, y : <<x, y>> \in pair)
            /\ drift' = (listed' # listed)
  /\ UNCHANGED <<pair, program, held, doomed, order, bounds>>

\* `diff` compares the declaration alone.
MutOrderDiffers == listed = NoOrder \/ Names # listed

-----------------------------------------------------------------------------
(* The program and the console.                                            *)

\* A commit changes the census, or edits one of its policies.
Commit ==
  /\ pc = "idle"
  /\ commits < MaxCommits
  /\ commits' = commits + 1
  /\ \/ /\ declared' \in Censuses \ {declared}
        /\ UNCHANGED stale
     \/ /\ \E r \in Row : /\ held[r] # NoPolicy
                         /\ stale' = stale \cup {r}
        /\ UNCHANGED declared
  /\ UNCHANGED <<pair, state, pc, order, edits, faults>>

Edit == edits < MaxEdits /\ edits' = edits + 1

ConsoleAdds ==
  /\ Edit
  /\ \E h \in Hand \ OnPair(pair), ahead \in Places(pair) :
       pair' = Inserted(pair, h, ahead)
  /\ UNCHANGED <<program, state, pc, order, commits, faults>>

ConsoleMoves ==
  /\ Edit
  /\ \E id \in OnPair(pair) : \E ahead \in Places(Without(id)) :
       pair' = Inserted(Without(id), id, ahead)
  /\ UNCHANGED <<program, state, pc, order, commits, faults>>

ConsoleDeletes ==
  /\ Edit
  /\ \E id \in OnPair(pair) : pair' = Without(id)
  /\ UNCHANGED <<program, state, pc, order, commits, faults>>

\* The operator deletes in the console a policy the order refused by name.
Remedy ==
  /\ pc = "idle" /\ refused # {}
  /\ \E id \in refused :
       /\ pair' = Without(id)
       /\ refused' = refused \ {id}
       /\ ranked' = {q \in ranked : q[1] # id /\ q[2] # id}
  /\ UNCHANGED <<program, state, pc, read, bounds>>

-----------------------------------------------------------------------------
(* A run.                                                                  *)

\* The refresh drops from the state what the controller no longer holds.
Refresh ==
  /\ pc = "idle"
  /\ pc' = "refresh"
  /\ refused' = {}
  /\ held' = [r \in Row |-> IF held[r] \in OnPair(pair) THEN held[r]
                                                      ELSE NoPolicy]
  /\ doomed' = doomed \cap OnPair(pair)
  /\ UNCHANGED <<pair, program, listed, drift, read, ranked, bounds>>

\* `read` keeps the declared list as it stands, and takes no previous one.
ReadOrder ==
  /\ pc = "refresh"
  /\ pc' = "policies"
  /\ drift' = /\ listed # NoOrder
              /\ Unusable(pair, listed, {}) \/ Misplaced(pair, listed)
  /\ UNCHANGED <<pair, program, held, doomed, listed, order, bounds>>

\* The ids something still speaks of: the controller gives one that is free.
Used ==
  OnPair(pair) \cup OnPair(read) \cup Previous \cup doomed \cup {held[q] : q \in Row}
    \cup {q[1] : q \in ranked} \cup {q[2] : q \in ranked}
Free(r)  == ({r} \X (1 .. Copies)) \ Used
Fresh(r) == CHOOSE id \in Free(r) : TRUE

Wanting == {r \in ToSet(declared) : held[r] = NoPolicy \/ r \in stale}

\* A policy is created, or replaced: the original is deleted later.
MakePolicy ==
  /\ pc = "policies"
  /\ \E r \in Wanting :
       /\ Free(r) # {}
       /\ pair' = Placed(Fresh(r))
       /\ held' = [held EXCEPT ![r] = Fresh(r)]
       /\ doomed' = doomed \cup ({held[r]} \ {NoPolicy})
       /\ stale' = stale \ {r}
  /\ UNCHANGED <<declared, listed, drift, pc, order, bounds>>

\* `diff`.
OrderDiffers == listed = NoOrder \/ Names # listed \/ drift

PoliciesMade ==
  /\ pc = "policies" /\ Wanting = {}
  /\ pc' = IF OrderDiffers THEN "get" ELSE "delete"
  /\ UNCHANGED <<pair, program, state, order, bounds>>

\* `_send`, its read: a list no batch can rank is refused.
Get ==
  /\ pc \in {"get", "again"}
  /\ IF Unusable(pair, Names, Previous)
       THEN /\ pc' = "idle"
            /\ refused' = Foreign(pair, Names, Previous)
            /\ UNCHANGED read
       ELSE /\ pc' = IF pc = "get" THEN "put" ELSE "putAgain"
            /\ read' = pair
            /\ UNCHANGED refused
  /\ UNCHANGED <<pair, program, state, ranked, bounds>>

\* The controller takes a batch that names the pair's custom policies, every
\* one and no other.
Takes(batch) == OnPair(batch) = OnPair(pair)

Ranks ==
  LET batch == Batch(read, Names, Previous)
  IN  /\ Takes(batch)
      /\ pair' = batch
      /\ ranked' = Ordered(Names)

Put ==
  /\ pc \in {"put", "putAgain"}
  /\ Ranks
  /\ pc' = "check" /\ read' = Nothing
  /\ UNCHANGED <<program, state, refused, bounds>>

\* A refused batch is retried once, from a fresh read.
BatchRefused ==
  /\ pc \in {"put", "putAgain"}
  /\ ~Takes(Batch(read, Names, Previous))
  /\ pc' = IF pc = "put" THEN "again" ELSE "idle"
  /\ read' = Nothing
  /\ UNCHANGED <<pair, program, state, refused, ranked, bounds>>

\* `_rank` reads the pair back, and `update` answers with the new outputs.
ReadBack ==
  /\ pc = "check"
  /\ IF Misplaced(pair, Names)
       THEN pc' = "idle" /\ UNCHANGED <<listed, drift>>
       ELSE pc' = "delete" /\ listed' = Names /\ drift' = FALSE
  /\ UNCHANGED <<pair, program, held, doomed, order, bounds>>

\* What the program no longer declares is deleted last.
Dropped == {r \in Row \ ToSet(declared) : held[r] # NoPolicy}

Delete ==
  /\ pc = "delete"
  /\ \/ \E r \in Dropped : /\ pair' = Without(held[r])
                           /\ held' = [held EXCEPT ![r] = NoPolicy]
                           /\ UNCHANGED doomed
     \/ \E id \in doomed : /\ pair' = Without(id)
                           /\ doomed' = doomed \ {id}
                           /\ UNCHANGED held
  /\ UNCHANGED <<program, listed, drift, pc, order, bounds>>

Finish ==
  /\ pc = "delete" /\ Dropped = {} /\ doomed = {}
  /\ pc' = "idle"
  /\ UNCHANGED <<pair, program, state, order, bounds>>

\* A request fails or the run is cut short: of what it asked last, a policy
\* may have been made, or a batch taken, with nobody told.
Fails ==
  /\ pc # "idle" /\ faults < MaxFaults
  /\ faults' = faults + 1
  /\ pc' = "idle" /\ read' = Nothing
  /\ \/ UNCHANGED <<pair, ranked>>
     \/ /\ pc = "policies"
        /\ \E r \in Wanting : Free(r) # {} /\ pair' = Placed(Fresh(r))
        /\ UNCHANGED ranked
     \/ pc \in {"put", "putAgain"} /\ Ranks
  /\ UNCHANGED <<program, state, refused, commits, edits>>

-----------------------------------------------------------------------------
Init ==
  /\ pair = Nothing
  /\ declared \in Censuses /\ stale = {}
  /\ held = [r \in Row |-> NoPolicy] /\ doomed = {}
  /\ listed = NoOrder /\ drift = FALSE
  /\ pc = "idle" /\ read = Nothing /\ refused = {} /\ ranked = {}
  /\ commits = 0 /\ edits = 0 /\ faults = 0

Run == \/ Refresh \/ ReadOrder \/ MakePolicy \/ PoliciesMade \/ Get \/ Put
       \/ BatchRefused \/ ReadBack \/ Delete \/ Finish

Console == ConsoleAdds \/ ConsoleMoves \/ ConsoleDeletes

Next == Commit \/ Console \/ Remedy \/ Run \/ Fails

Spec == Init /\ [][Next]_vars

\* The run is made again until nothing is left to do, and between two runs an
\* operator who is told to delete a policy sooner or later does.
FairSpec == Spec /\ WF_vars(Run) /\ SF_vars(Remedy)

-----------------------------------------------------------------------------
(* Properties.                                                             *)

\* Of any two of the pair's policies one ranks ahead, and none ahead of itself.
Ranking(p) ==
  /\ p \subseteq Present(p) \X Present(p)
  /\ \A x \in Present(p) : <<x, x>> \notin p
  /\ \A x, y \in Present(p) : x = y \/ <<x, y>> \in p \/ <<y, x>> \in p
  /\ \A x, y, z \in Present(p) : <<x, y>> \in p /\ <<y, z>> \in p => <<x, z>> \in p

TypeOK ==
  /\ Ranking(pair) /\ Ranking(read)
  /\ declared \in Censuses /\ stale \subseteq Row
  /\ held \in [Row -> Made \cup {NoPolicy}] /\ doomed \subseteq Made
  /\ listed = NoOrder \/ listed \in Seq(Made)
  /\ drift \in BOOLEAN /\ pc \in Stage
  /\ refused \subseteq Ids /\ ranked \subseteq Made \X Made
  /\ commits \in 0 .. MaxCommits
  /\ edits \in 0 .. MaxEdits /\ faults \in 0 .. MaxFaults

Of(r) == {id \in OnPair(pair) \cap Made : id[1] = r}

(* The position is the rule: of two rows the controller was told to rank,  *)
(* the first always has a policy ahead of every policy of the second,      *)
(* through a replacement, a drop, a failed run and what it leaves behind,  *)
(* as long as only the deployment touches the pair (docs/physical/         *)
(* gateway.md, on a pair holding both a drop and an allow).                *)
PositionIsRule ==
  edits = 0 =>
    \A q \in ranked : \E id \in Of(q[1][1]) :
      \A other \in Of(q[2][1]) : <<id, other>> \in pair

(* The order never adopts a policy made in the console, moves past it or   *)
(* deletes it: while one is on the pair no batch is taken, and none leaves *)
(* the pair but by the console (ZonePolicyOrder's docstring).              *)
HandUntouched ==
  [][/\ \A h \in Hand \cap OnPair(pair) :
          h \notin OnPair(pair') => edits' # edits \/ h \in refused
     /\ pc \in {"put", "putAgain"} /\ pair' # pair /\ edits' = edits
          => Hand \cap OnPair(pair) = {}]_vars

(* Run again, a deployment ends with the pair holding the census's         *)
(* policies in their order, nothing else ahead of them or behind, and the  *)
(* state saying so, whatever was cut, lost or edited on the way.           *)
Settled ==
  /\ pair = Ordered(Names) \cup (ToSet(Names) \X {Predefined})
  /\ listed = Names /\ ~drift

Settles == <>[]Settled
=============================================================================
