-------------------------- MODULE PolicyOrder_proofs --------------------------
(***************************************************************************)
(* For every census, any number of policies and every bound: the pair is    *)
(* always ranked (`TypeOK`), a policy made in the console is never moved    *)
(* past or deleted (`HandUntouched`), and the position of a row is its rule *)
(* (`PositionIsRule`).                                                      *)
(*                                                                         *)
(* The rule is carried by `Ruled`, which names the witness: the policy the  *)
(* controller was told to rank first stays on the pair, ahead of every      *)
(* policy of the other row.  A policy made later goes behind it, a batch    *)
(* that is taken ranks what it carries behind its list, and `Kept` says     *)
(* that the deletes come when nothing ranked is on its way out.  A run that *)
(* finds no difference reaches them with no batch of its own: that it finds *)
(* the pair then holding its own list and nothing else is `Accounted`.      *)
(***************************************************************************)
EXTENDS PolicyOrder, TLAPS

\* A row holds a policy of its own, and none that waits to be deleted.
Owned ==
  /\ \A r \in Row : held[r] = NoPolicy \/ held[r] \in {r} \X (1 .. Copies)
  /\ \A r \in Row : held[r] \notin doomed

\* The order goes after its policies.
Complete ==
  pc \in {"get", "put", "again", "putAgain", "check", "delete"} =>
    \A r \in ToSet(declared) : held[r] # NoPolicy

\* With no console, the pair is as the order read it.
Undisturbed == edits = 0 /\ pc \in {"put", "putAgain"} => read = pair

\* An order that reads as ranked holds nothing but its list and what the run
\* has made since.
Accounted ==
  edits = 0 /\ pc = "policies" /\ listed # NoOrder /\ ~drift =>
    OnPair(pair) \subseteq Previous \cup {held[r] : r \in ToSet(declared) \ stale}

\* Nothing ranked is on its way out once the deletes begin.
Kept ==
  edits = 0 /\ pc \in {"check", "delete"} =>
    \A q \in ranked : q[1] \in ToSet(Names) /\ q[2] \in ToSet(Names)

\* What was ranked first is on the pair, ahead of every policy of the other row.
Ruled ==
  edits = 0 =>
    \A q \in ranked : /\ q[1] \in OnPair(pair) /\ q[2] \in OnPair(pair)
                      /\ \A x \in Of(q[2][1]) : <<q[1], x>> \in pair

IInv == TypeOK /\ Owned /\ Complete /\ Undisturbed /\ Accounted /\ Kept /\ Ruled

-----------------------------------------------------------------------------
(* The pair.                                                               *)

\* A policy is the pair's, or it is where the predefined ones start.
LEMMA Apart ==
  /\ \A p : OnPair(p) \subseteq Ids /\ Predefined \notin OnPair(p)
  /\ Made \subseteq Ids /\ Predefined \notin Ids /\ NoPolicy \notin Ids
BY IdAssumption DEF OnPair, Ids

\* A policy put somewhere on a pair is ranked there, and all else as it was.
LEMMA InsertedRanks ==
  ASSUME NEW p, Ranking(p), NEW id \in Ids \ OnPair(p), NEW ahead \in Places(p)
  PROVE  /\ Ranking(Inserted(p, id, ahead))
         /\ OnPair(Inserted(p, id, ahead)) = OnPair(p) \cup {id}
<1> DEFINE P == Present(p)
           N == Inserted(p, id, ahead)
<1>1. id \notin P /\ Predefined \in P /\ P \subseteq Ids \cup {Predefined}
  BY Apart DEF Present
<1>2. ahead \subseteq P /\ \A x, y \in P : <<x, y>> \in p /\ y \in ahead => x \in ahead
  BY DEF Places
<1>3. \A x, y : <<x, y>> \in N <=> \/ <<x, y>> \in p
                                   \/ x \in ahead /\ y = id
                                   \/ x = id /\ y \in P /\ y \notin ahead
  BY DEF Inserted
<1>4. p \subseteq P \X P
  BY DEF Ranking
<1>5. OnPair(N) = OnPair(p) \cup {id}
  <2>1. \A x \in OnPair(p) : x \in OnPair(N)
    BY <1>3 DEF OnPair
  <2>2. id \in OnPair(N)
    BY <1>1, <1>3 DEF OnPair
  <2>3. ASSUME NEW x \in OnPair(N)  PROVE x \in OnPair(p) \cup {id}
    <3>1. x \in Ids /\ (<<x, Predefined>> \in N \/ <<Predefined, x>> \in N)
      BY DEF OnPair
    <3>2. Predefined # id /\ x # Predefined
      BY <3>1, Apart
    <3> QED  BY <1>3, <3>1, <3>2 DEF OnPair
  <2> QED  BY <2>1, <2>2, <2>3
<1>6. Present(N) = P \cup {id}
  BY <1>5 DEF Present
<1>7. N \subseteq (P \cup {id}) \X (P \cup {id})
  BY <1>2, <1>4 DEF Inserted
<1>8. /\ \A x \in P : <<x, x>> \notin p
      /\ \A x, y \in P : x = y \/ <<x, y>> \in p \/ <<y, x>> \in p
      /\ \A x, y, z \in P : <<x, y>> \in p /\ <<y, z>> \in p => <<x, z>> \in p
      /\ \A x, y : <<x, y>> \in p => x \in P /\ y \in P
  BY <1>4 DEF Ranking
<1> HIDE DEF P, N
<1>9. \A x \in P \cup {id} : <<x, x>> \notin N
  BY <1>1, <1>2, <1>3, <1>8
<1>10. \A x, y \in P \cup {id} : x = y \/ <<x, y>> \in N \/ <<y, x>> \in N
  BY <1>1, <1>2, <1>3, <1>8
<1>11. ASSUME NEW x \in P \cup {id}, NEW y \in P \cup {id}, NEW z \in P \cup {id},
              <<x, y>> \in N, <<y, z>> \in N
       PROVE  <<x, z>> \in N
  <2>1. CASE x = id
    BY <2>1, <1>1, <1>2, <1>3, <1>8, <1>11
  <2>2. CASE y = id
    BY <2>2, <1>1, <1>2, <1>3, <1>8, <1>11
  <2>3. CASE x \in P /\ y \in P
    BY <2>3, <1>1, <1>2, <1>3, <1>8, <1>11
  <2> QED  BY <2>1, <2>2, <2>3
<1>12. Ranking(N)
  BY <1>6, <1>7, <1>9, <1>10, <1>11 DEF Ranking
<1> QED  BY <1>5, <1>12 DEF N

\* A policy taken off leaves the others ranked as they were.
LEMMA WithoutRanks ==
  ASSUME Ranking(pair), NEW id \in Ids
  PROVE  Ranking(Without(id)) /\ OnPair(Without(id)) = OnPair(pair) \ {id}
<1>1. \A x, y : <<x, y>> \in Without(id) <=> <<x, y>> \in pair /\ x # id /\ y # id
  BY DEF Without
<1>2. Predefined # id
  BY Apart
<1>3. pair \subseteq Present(pair) \X Present(pair)
  BY DEF Ranking
<1>4. OnPair(Without(id)) = OnPair(pair) \ {id}
  BY <1>1, <1>2 DEF OnPair
<1>5. Present(Without(id)) = Present(pair) \ {id}
  BY <1>2, <1>4 DEF Present
<1>6. Without(id) \subseteq Present(Without(id)) \X Present(Without(id))
  BY <1>3, <1>5 DEF Without
<1> QED  BY <1>1, <1>4, <1>5, <1>6 DEF Ranking

\* A new policy goes behind every other: none that is there moves.
LEMMA PlacedRanks ==
  ASSUME Ranking(pair), NEW id \in Ids \ OnPair(pair)
  PROVE  /\ Ranking(Placed(id)) /\ OnPair(Placed(id)) = OnPair(pair) \cup {id}
         /\ pair \subseteq Placed(id)
         /\ \A x \in OnPair(pair) : <<x, id>> \in Placed(id)
<1>1. PICK ahead \in {OnPair(pair), Present(pair)} :
        ahead \in Places(pair) /\ Placed(id) = Inserted(pair, id, ahead)
  <2>1. CASE \A x \in OnPair(pair) : <<x, Predefined>> \in pair
    <3>1. ASSUME NEW q \in pair, q[2] \in OnPair(pair)  PROVE q[1] \in OnPair(pair)
      <4>1. q \in Present(pair) \X Present(pair)
        BY DEF Ranking
      <4>2. PICK x \in Present(pair), y \in Present(pair) : q = <<x, y>>
        BY <4>1
      <4>3. CASE x = Predefined
        <5>1. <<y, x>> \in pair /\ <<x, y>> \in pair
          BY <2>1, <3>1, <4>2, <4>3
        <5>2. <<x, x>> \in pair
          BY <5>1, <4>2 DEF Ranking
        <5> QED  BY <5>2, <4>2 DEF Ranking
      <4> QED  BY <4>2, <4>3 DEF Present
    <3>2. OnPair(pair) \in Places(pair)
      BY <3>1 DEF Places, Present
    <3> QED  BY <2>1, <3>2 DEF Placed
  <2>2. CASE ~\A x \in OnPair(pair) : <<x, Predefined>> \in pair
    <3>1. Present(pair) \in Places(pair)
      BY DEF Places, Ranking
    <3>2. Placed(id) = Inserted(pair, id, Present(pair))
      BY <2>2 DEF Placed
    <3> QED  BY <3>1, <3>2
  <2> QED  BY <2>1, <2>2
<1>2. OnPair(pair) \subseteq ahead
  BY <1>1 DEF Present
<1> QED  BY <1>1, <1>2, InsertedRanks DEF Inserted

-----------------------------------------------------------------------------
(* The batch.                                                              *)

\* A list without repetition puts its members in a strict order.
LEMMA OrderedRanks ==
  ASSUME NEW S, NEW list \in Seq(S), IsInjective(list)
  PROVE  /\ Ordered(list) \subseteq ToSet(list) \X ToSet(list)
         /\ \A x : <<x, x>> \notin Ordered(list)
         /\ \A x, y \in ToSet(list) :
              x = y \/ <<x, y>> \in Ordered(list) \/ <<y, x>> \in Ordered(list)
         /\ \A x, y, z : <<x, y>> \in Ordered(list) /\ <<y, z>> \in Ordered(list)
                           => <<x, z>> \in Ordered(list)
<1>1. \A i, j \in DOMAIN list : list[i] = list[j] => i = j
  BY DEF IsInjective
<1>2. \A i \in DOMAIN list : i \in Nat
  OBVIOUS
<1>3. \A x, y : <<x, y>> \in Ordered(list) <=>
        \E i, j \in DOMAIN list : i < j /\ x = list[i] /\ y = list[j]
  BY DEF Ordered, ToSet
<1>4. Ordered(list) \subseteq ToSet(list) \X ToSet(list)
  BY DEF Ordered
<1>5. \A x : <<x, x>> \notin Ordered(list)
  BY <1>1, <1>2, <1>3
<1>6. ASSUME NEW x \in ToSet(list), NEW y \in ToSet(list)
      PROVE  x = y \/ <<x, y>> \in Ordered(list) \/ <<y, x>> \in Ordered(list)
  <2>1. PICK i \in DOMAIN list, j \in DOMAIN list : x = list[i] /\ y = list[j]
    BY DEF ToSet
  <2>2. i < j \/ j < i \/ i = j
    BY <1>2
  <2> QED  BY <1>3, <2>1, <2>2
<1>7. ASSUME NEW x, NEW y, NEW z, <<x, y>> \in Ordered(list), <<y, z>> \in Ordered(list)
      PROVE  <<x, z>> \in Ordered(list)
  <2>1. PICK i \in DOMAIN list, j \in DOMAIN list : i < j /\ x = list[i] /\ y = list[j]
    BY <1>3, <1>7
  <2>2. PICK k \in DOMAIN list, l \in DOMAIN list : k < l /\ y = list[k] /\ z = list[l]
    BY <1>3, <1>7
  <2>3. j = k
    BY <1>1, <2>1, <2>2
  <2>4. i < l
    BY <1>2, <2>1, <2>2, <2>3
  <2> QED  BY <1>3, <2>1, <2>2, <2>4
<1> QED  BY <1>4, <1>5, <1>6, <1>7

\* A batch ranks what it names: its list, and behind it what it carries, each
\* in its order.
LEMMA BatchRanks ==
  ASSUME NEW p, Ranking(p), NEW list \in Seq(Ids), IsInjective(list), NEW previous
  PROVE  /\ Ranking(Batch(p, list, previous))
         /\ OnPair(Batch(p, list, previous)) = ToSet(list) \cup Carried(p, list, previous)
         /\ Ordered(list) \subseteq Batch(p, list, previous)
         /\ \A x \in ToSet(list), y \in Carried(p, list, previous) :
              <<x, y>> \in Batch(p, list, previous)
<1> DEFINE L == ToSet(list)
           C == Carried(p, list, previous)
           O == Ordered(list)
           B == Batch(p, list, previous)
           Q == L \cup C \cup {Predefined}
<1>1. L \subseteq Ids
  BY DEF ToSet
<1>2. C \subseteq OnPair(p) /\ C \subseteq Ids /\ L \cap C = {}
  BY Apart DEF Carried
<1>3. /\ O \subseteq L \X L
      /\ \A x : <<x, x>> \notin O
      /\ \A x, y \in L : x = y \/ <<x, y>> \in O \/ <<y, x>> \in O
      /\ \A x, y, z : <<x, y>> \in O /\ <<y, z>> \in O => <<x, z>> \in O
  BY OrderedRanks
<1>4. /\ \A x \in C : <<x, x>> \notin p
      /\ \A x, y \in C : x = y \/ <<x, y>> \in p \/ <<y, x>> \in p
      /\ \A x, y, z \in C : <<x, y>> \in p /\ <<y, z>> \in p => <<x, z>> \in p
  BY <1>2 DEF Ranking, Present
<1>5. \A x, y : <<x, y>> \in B <=> \/ <<x, y>> \in O
                                   \/ x \in L /\ y \in C
                                   \/ x \in C /\ y \in C /\ <<x, y>> \in p
                                   \/ x \in L \cup C /\ y = Predefined
  BY DEF Batch
<1>6. Predefined \notin L \cup C
  BY <1>1, <1>2, Apart
<1>7. \A x, y : <<x, y>> \in O => x \in L /\ y \in L
  BY <1>3
<1>8. OnPair(B) = L \cup C
  <2>1. \A x \in L \cup C : x \in Ids /\ <<x, Predefined>> \in B
    BY <1>1, <1>2, <1>5
  <2>2. ASSUME NEW x, <<x, Predefined>> \in B \/ <<Predefined, x>> \in B
        PROVE  x \in L \cup C
    BY <1>5, <1>6, <1>7, <2>2
  <2> QED  BY <2>1, <2>2 DEF OnPair
<1>9. Present(B) = Q
  BY <1>8 DEF Present
<1>10. B \subseteq Q \X Q
  BY <1>3 DEF Batch
<1> HIDE DEF L, C, O, B
<1>11. \A x \in Q : <<x, x>> \notin B
  BY <1>2, <1>3, <1>4, <1>5, <1>6
<1>12. \A x, y \in Q : x = y \/ <<x, y>> \in B \/ <<y, x>> \in B
  BY <1>2, <1>3, <1>4, <1>5, <1>6
<1>13. ASSUME NEW x \in Q, NEW y \in Q, NEW z \in Q, <<x, y>> \in B, <<y, z>> \in B
       PROVE  <<x, z>> \in B
  <2>1. y # Predefined /\ x # Predefined
    BY <1>5, <1>6, <1>7, <1>13
  <2>2. CASE z = Predefined
    BY <1>5, <2>1, <2>2
  <2>3. CASE z # Predefined /\ x \in L
    <3>1. z \in L \/ z \in C
      BY <2>3
    <3>2. CASE z \in C
      BY <1>5, <2>3, <3>2
    <3>3. CASE z \in L
      <4>1. <<y, z>> \in O
        BY <1>2, <1>5, <1>13, <2>3, <3>3
      <4>2. <<x, y>> \in O
        BY <1>2, <1>5, <1>7, <1>13, <2>1, <2>3, <4>1
      <4> QED  BY <1>3, <1>5, <4>1, <4>2
    <3> QED  BY <3>1, <3>2, <3>3
  <2>4. CASE z # Predefined /\ x \in C
    <3>1. y \in C /\ <<x, y>> \in p
      BY <1>2, <1>5, <1>7, <1>13, <2>1, <2>4
    <3>2. z \in C /\ <<y, z>> \in p
      BY <1>2, <1>5, <1>7, <1>13, <2>4, <3>1
    <3> QED  BY <1>4, <1>5, <2>4, <3>1, <3>2
  <2> QED  BY <2>1, <2>2, <2>3, <2>4
<1>14. Ranking(B)
  BY <1>9, <1>10, <1>11, <1>12, <1>13 DEF Ranking
<1>15. O \subseteq B /\ \A x \in L, y \in C : <<x, y>> \in B
  BY <1>5, <1>10 DEF O, B, Batch
<1> QED  BY <1>8, <1>14, <1>15 DEF L, C, O, B

-----------------------------------------------------------------------------
(* What the order names, and what a row is given.                          *)

LEMMA DeclaredList ==
  ASSUME TypeOK
  PROVE  declared \in Seq(Row) /\ IsInjective(declared) /\ ToSet(declared) \subseteq Row
BY CensusAssumption DEF TypeOK, ToSet

\* Each row declared has the one place in the list that the census gives it.
LEMMA NamedOnce ==
  ASSUME TypeOK, Owned, \A r \in ToSet(declared) : held[r] # NoPolicy
  PROVE  /\ Names \in Seq(Made) /\ Names \in Seq(Ids) /\ IsInjective(Names)
         /\ ToSet(Names) = {held[r] : r \in ToSet(declared)}
         /\ ToSet(Names) \subseteq Made /\ ToSet(Names) \cap doomed = {}
         /\ \A x, y \in ToSet(Names) : x[1] = y[1] => x = y
<1>1. declared \in Seq(Row) /\ ToSet(declared) \subseteq Row
  BY DeclaredList
<1>2. \A r \in ToSet(declared) : held[r] \in {r} \X (1 .. Copies) /\ held[r] \in Made
  BY <1>1 DEF Owned, Made
<1>3. \A i \in DOMAIN declared : declared[i] \in ToSet(declared)
  BY DEF ToSet
<1>4. Names \in Seq(Made)
  BY <1>1, <1>2, <1>3 DEF Names
<1>5. Names \in Seq(Ids)
  BY <1>1, <1>2, <1>3 DEF Names, Ids
<1>6. ToSet(Names) = {held[r] : r \in ToSet(declared)}
  BY DEF Names, ToSet
<1>7. \A i \in DOMAIN declared : Names[i] = held[declared[i]]
  BY DEF Names
<1>8. \A r, q \in ToSet(declared) : held[r][1] = held[q][1] => r = q
  BY <1>2
<1>9. \A i, j \in DOMAIN declared : declared[i] = declared[j] => i = j
  BY DeclaredList DEF IsInjective
<1>10. \A i, j \in DOMAIN declared : Names[i] = Names[j] => i = j
  BY <1>3, <1>7, <1>8, <1>9
<1>11. DOMAIN Names = DOMAIN declared
  BY DEF Names
<1>12. IsInjective(Names)
  BY <1>10, <1>11 DEF IsInjective
<1>13. \A x, y \in ToSet(Names) : x[1] = y[1] => x = y
  BY <1>6, <1>8
<1>14. ToSet(Names) \subseteq Made /\ ToSet(Names) \cap doomed = {}
  BY <1>1, <1>2, <1>6 DEF Owned
<1> QED  BY <1>4, <1>5, <1>6, <1>12, <1>13, <1>14

\* The list follows its rows and nothing else.
LEMMA NamesStay ==
  ASSUME declared' = declared, \A r \in ToSet(declared) : held'[r] = held[r]
  PROVE  Names' = Names
<1>1. \A i \in DOMAIN declared : declared[i] \in ToSet(declared)
  BY DEF ToSet
<1> QED  BY <1>1 DEF Names

\* The id a new policy is given is its row's, and nothing speaks of it.
LEMMA FreshIsFree ==
  ASSUME NEW r \in Row, Free(r) # {}
  PROVE  /\ Fresh(r) \in {r} \X (1 .. Copies) /\ Fresh(r) \in Made
         /\ Fresh(r) \notin OnPair(pair) /\ Fresh(r) \notin Previous
         /\ Fresh(r) \notin doomed /\ \A q \in Row : held[q] # Fresh(r)
<1>1. Fresh(r) \in Free(r)
  BY DEF Fresh
<1> QED  BY <1>1 DEF Free, Used, Made

\* A batch that is taken ranks what the pair holds, behind the list and none
\* of it made in the console.
LEMMA RanksTheList ==
  ASSUME TypeOK, Owned, Complete, pc \in {"put", "putAgain"}, Ranks
  PROVE  /\ Ranking(pair') /\ OnPair(pair') = OnPair(pair)
         /\ OnPair(pair) = ToSet(Names) \cup Carried(read, Names, Previous)
         /\ OnPair(pair) \subseteq Made
         /\ ranked' = Ordered(Names) /\ Ordered(Names) \subseteq pair'
         /\ \A x \in ToSet(Names), y \in Carried(read, Names, Previous) : <<x, y>> \in pair'
<1>1. \A r \in ToSet(declared) : held[r] # NoPolicy
  BY DEF Complete
<1>2. Names \in Seq(Ids) /\ IsInjective(Names) /\ ToSet(Names) \subseteq Made
  BY <1>1, NamedOnce
<1>3. Ranking(read)
  BY DEF TypeOK
<1>4. /\ pair' = Batch(read, Names, Previous) /\ ranked' = Ordered(Names)
      /\ OnPair(Batch(read, Names, Previous)) = OnPair(pair)
  BY DEF Ranks, Takes
<1>5. Previous \subseteq Made
  BY DEF Previous, TypeOK, ToSet
<1>6. Carried(read, Names, Previous) \subseteq Made
  BY <1>5 DEF Carried
<1> QED  BY <1>2, <1>3, <1>4, <1>6, BatchRanks

-----------------------------------------------------------------------------
(* The steps.                                                              *)

\* The console's steps are counted, and no other.
LEMMA EditsStep ==
  ASSUME [Next]_vars
  PROVE  /\ Console => edits' = edits + 1
         /\ ~Console => edits' = edits
<1>1. Console => edits' = edits + 1
  BY DEF Console, ConsoleAdds, ConsoleMoves, ConsoleDeletes, Edit
<1>2. Commit \/ Remedy \/ Refresh \/ ReadOrder \/ MakePolicy \/ PoliciesMade \/ Get \/ Put
        \/ BatchRefused \/ ReadBack \/ Delete \/ Finish \/ Fails => edits' = edits
  BY DEF program, state, order, bounds, Commit, Remedy, Refresh, ReadOrder, MakePolicy,
     PoliciesMade, Get, Put, BatchRefused, ReadBack, Delete, Finish, Fails
<1>3. UNCHANGED vars => edits' = edits
  BY DEF vars, bounds
<1> QED  BY <1>1, <1>2, <1>3 DEF Next, Run

\* How a step that is not the console's can change the pair.
LEMMA PairStep ==
  ASSUME IInv, [Next]_vars, edits' = edits
  PROVE  \/ UNCHANGED <<pair, ranked>>
         \/ /\ pc = "policies" /\ ranked' = ranked
            /\ \E r \in Wanting : Free(r) # {} /\ pair' = Placed(Fresh(r))
         \/ pc \in {"put", "putAgain"} /\ Ranks
         \/ /\ Remedy
            /\ \E id \in refused : /\ pair' = Without(id)
                                   /\ ranked' = {q \in ranked : q[1] # id /\ q[2] # id}
         \/ /\ pc = "delete" /\ ranked' = ranked
            /\ \E id \in Made \ ToSet(Names) : pair' = Without(id)
<1> USE DEF program, state, order, bounds
<1>1. CASE Console
  <2>1. edits \in Nat
    BY BoundAssumption DEF IInv, TypeOK
  <2> QED  BY <1>1, <2>1 DEF Console, ConsoleAdds, ConsoleMoves, ConsoleDeletes, Edit
<1>2. CASE Delete
  <2>1. \A r \in ToSet(declared) : held[r] # NoPolicy
    BY <1>2 DEF Delete, IInv, Complete
  <2>2. ToSet(Names) = {held[r] : r \in ToSet(declared)} /\ ToSet(Names) \cap doomed = {}
    BY <2>1, NamedOnce DEF IInv
  <2>3. ASSUME NEW r \in Dropped  PROVE held[r] \in Made \ ToSet(Names)
    <3>1. r \in Row /\ r \notin ToSet(declared) /\ held[r] \in {r} \X (1 .. Copies)
      BY DEF Dropped, IInv, Owned
    <3>2. \A q \in ToSet(declared) : held[q] \in {q} \X (1 .. Copies)
      BY <2>1, DeclaredList DEF IInv, Owned
    <3>3. \A q \in ToSet(declared) : held[q][1] = q
      BY <3>2
    <3>4. held[r][1] = r
      BY <3>1
    <3> QED  BY <2>2, <3>1, <3>3, <3>4 DEF Made
  <2>4. ASSUME NEW id \in doomed  PROVE id \in Made \ ToSet(Names)
    BY <2>2 DEF IInv, TypeOK
  <2> QED  BY <1>2, <2>3, <2>4 DEF Delete
<1>3. CASE Remedy
  BY <1>3 DEF Remedy
<1>4. CASE MakePolicy
  BY <1>4 DEF MakePolicy
<1>5. CASE Put
  BY <1>5 DEF Put
<1>6. CASE Fails
  BY <1>6 DEF Fails
<1>7. CASE Commit \/ Refresh \/ ReadOrder \/ PoliciesMade \/ Get \/ BatchRefused
           \/ ReadBack \/ Finish
  BY <1>7 DEF Commit, Refresh, ReadOrder, PoliciesMade, Get, BatchRefused, ReadBack, Finish
<1>8. CASE UNCHANGED vars
  BY <1>8 DEF vars
<1> QED
  BY <1>1, <1>2, <1>3, <1>4, <1>5, <1>6, <1>7, <1>8 DEF Next, Run

\* A policy that is wanted is a row's.
LEMMA WantingRows ==
  ASSUME TypeOK
  PROVE  Wanting \subseteq Row /\ Wanting \subseteq ToSet(declared)
BY DeclaredList DEF Wanting

\* The pair stays ranked, whoever changes it.
LEMMA RankingStep ==
  ASSUME IInv, [Next]_vars
  PROVE  Ranking(pair')
<1>1. Ranking(pair) /\ refused \subseteq Ids
  BY DEF IInv, TypeOK
<1>2. CASE Console
  <2>1. CASE ConsoleAdds
    <3>1. PICK h \in Hand \ OnPair(pair), ahead \in Places(pair) :
            pair' = Inserted(pair, h, ahead)
      BY <2>1 DEF ConsoleAdds
    <3>2. h \in Ids \ OnPair(pair)
      BY DEF Ids
    <3> QED  BY <1>1, <3>1, <3>2, InsertedRanks
  <2>2. CASE ConsoleMoves
    <3>1. PICK id \in OnPair(pair) : \E ahead \in Places(Without(id)) :
            pair' = Inserted(Without(id), id, ahead)
      BY <2>2 DEF ConsoleMoves
    <3>2. PICK ahead \in Places(Without(id)) : pair' = Inserted(Without(id), id, ahead)
      BY <3>1
    <3>3. Ranking(Without(id)) /\ id \in Ids \ OnPair(Without(id))
      BY <1>1, WithoutRanks, Apart
    <3> QED  BY <3>2, <3>3, InsertedRanks
  <2>3. CASE ConsoleDeletes
    BY <1>1, <2>3, WithoutRanks, Apart DEF ConsoleDeletes
  <2> QED  BY <1>2, <2>1, <2>2, <2>3 DEF Console
<1>3. CASE edits' = edits
  <2>1. CASE \E r \in Wanting : Free(r) # {} /\ pair' = Placed(Fresh(r))
    <3>1. PICK r \in Wanting : Free(r) # {} /\ pair' = Placed(Fresh(r))
      BY <2>1
    <3>2. Fresh(r) \in Ids \ OnPair(pair)
      BY <3>1, WantingRows, FreshIsFree, Apart DEF IInv
    <3> QED  BY <1>1, <3>1, <3>2, PlacedRanks
  <2>2. CASE pc \in {"put", "putAgain"} /\ Ranks
    BY <2>2, RanksTheList DEF IInv
  <2>3. CASE \E id \in Ids : pair' = Without(id)
    BY <1>1, <2>3, WithoutRanks
  <2> QED  BY <1>1, <1>3, <2>1, <2>2, <2>3, PairStep, Apart
<1>4. CASE ~Console
  BY <1>3, <1>4, EditsStep
<1> QED  BY <1>2, <1>4

\* The other variables stay in their sets.
LEMMA TypesStep ==
  ASSUME IInv, [Next]_vars
  PROVE  TypeOK'
<1> USE DEF program, state, order, bounds
<1>1. Ranking(pair')
  BY RankingStep
<1>2. Ranking(Nothing)
  BY Apart DEF Ranking, Present, OnPair, Nothing
<1> DEFINE Rest ==
      /\ Ranking(read)
      /\ declared \in Censuses /\ stale \subseteq Row
      /\ held \in [Row -> Made \cup {NoPolicy}] /\ doomed \subseteq Made
      /\ listed = NoOrder \/ listed \in Seq(Made)
      /\ drift \in BOOLEAN /\ pc \in Stage
      /\ refused \subseteq Ids /\ ranked \subseteq Made \X Made
      /\ commits \in 0 .. MaxCommits
      /\ edits \in 0 .. MaxEdits /\ faults \in 0 .. MaxFaults
<1>3. Rest /\ Ranking(pair)
  BY DEF IInv, TypeOK
<1>4. MaxCommits \in Nat /\ MaxEdits \in Nat /\ MaxFaults \in Nat
  BY BoundAssumption
<1> SUFFICES Rest'
  BY <1>1 DEF TypeOK
<1>5. CASE Commit
  BY <1>3, <1>4, <1>5 DEF Commit, Stage
<1>6. CASE Console
  BY <1>3, <1>4, <1>6 DEF Console, ConsoleAdds, ConsoleMoves, ConsoleDeletes, Edit
<1>7. CASE Remedy
  BY <1>3, <1>7 DEF Remedy
<1>8. CASE Refresh
  BY <1>3, <1>8 DEF Refresh, Stage
<1>9. CASE ReadOrder
  <2>1. drift' \in BOOLEAN
    BY <1>9 DEF ReadOrder
  <2> QED  BY <1>3, <1>9, <2>1 DEF ReadOrder, Stage
<1>10. CASE MakePolicy
  <2>1. PICK r \in Wanting : /\ Free(r) # {}
                             /\ held' = [held EXCEPT ![r] = Fresh(r)]
                             /\ doomed' = doomed \cup ({held[r]} \ {NoPolicy})
                             /\ stale' = stale \ {r}
    BY <1>10 DEF MakePolicy
  <2>2. r \in Row /\ Fresh(r) \in Made
    BY <2>1, WantingRows, FreshIsFree DEF IInv
  <2>3. held' \in [Row -> Made \cup {NoPolicy}] /\ doomed' \subseteq Made /\ stale' \subseteq Row
    BY <1>3, <2>1, <2>2
  <2> QED  BY <1>3, <1>10, <2>3 DEF MakePolicy
<1>11. CASE PoliciesMade
  BY <1>3, <1>11 DEF PoliciesMade, Stage
<1>12. CASE Get
  BY <1>3, <1>12, Apart DEF Get, Stage, Foreign
<1>13. CASE Put
  <2>1. ranked' \subseteq Made \X Made
    <3>1. \A r \in ToSet(declared) : held[r] # NoPolicy
      BY <1>13 DEF Put, IInv, Complete
    <3>2. ToSet(Names) \subseteq Made
      BY <3>1, NamedOnce DEF IInv
    <3> QED  BY <1>13, <3>2 DEF Put, Ranks, Ordered
  <2> QED  BY <1>2, <1>3, <1>13, <2>1 DEF Put, Stage
<1>14. CASE BatchRefused
  BY <1>2, <1>3, <1>14 DEF BatchRefused, Stage
<1>15. CASE ReadBack
  <2>1. Names \in Seq(Made)
    BY <1>15, NamedOnce DEF ReadBack, IInv, Complete
  <2> QED  BY <1>3, <1>15, <2>1 DEF ReadBack, Stage
<1>16. CASE Delete
  BY <1>3, <1>16 DEF Delete, Dropped
<1>17. CASE Finish
  BY <1>3, <1>17 DEF Finish, Stage
<1>18. CASE Fails
  <2>1. ranked' \subseteq Made \X Made
    <3>1. CASE pc \in {"put", "putAgain"} /\ Ranks
      <4>1. \A r \in ToSet(declared) : held[r] # NoPolicy
        BY <3>1 DEF IInv, Complete
      <4>2. ToSet(Names) \subseteq Made
        BY <4>1, NamedOnce DEF IInv
      <4> QED  BY <3>1, <4>2 DEF Ranks, Ordered
    <3> QED  BY <1>3, <1>18, <3>1 DEF Fails
  <2> QED  BY <1>2, <1>3, <1>4, <1>18, <2>1 DEF Fails, Stage
<1>19. CASE UNCHANGED vars
  BY <1>3, <1>19 DEF vars
<1> QED
  BY <1>5, <1>6, <1>7, <1>8, <1>9, <1>10, <1>11, <1>12, <1>13, <1>14, <1>15,
     <1>16, <1>17, <1>18, <1>19 DEF Next, Run

\* A row keeps a policy of its own, and what was its original is another's to
\* delete.
LEMMA OwnedStep ==
  ASSUME IInv, [Next]_vars
  PROVE  Owned'
<1> USE DEF program, state, order, bounds
<1>1. Owned /\ held \in [Row -> Made \cup {NoPolicy}] /\ doomed \subseteq Made
  BY DEF IInv, TypeOK
<1>2. NoPolicy \notin doomed
  BY <1>1, Apart
<1>3. CASE MakePolicy
  <2>1. PICK r \in Wanting : /\ Free(r) # {}
                             /\ held' = [held EXCEPT ![r] = Fresh(r)]
                             /\ doomed' = doomed \cup ({held[r]} \ {NoPolicy})
    BY <1>3 DEF MakePolicy
  <2>2. /\ r \in Row /\ Fresh(r) \in {r} \X (1 .. Copies) /\ Fresh(r) \notin doomed
        /\ Fresh(r) # held[r]
    BY <2>1, WantingRows, FreshIsFree DEF IInv
  <2>3. ASSUME NEW q \in Row, q # r, held[q] # NoPolicy  PROVE held[q] # held[r]
    <3>1. held[q] \in {q} \X (1 .. Copies)
      BY <1>1, <2>3 DEF Owned
    <3>2. held[r] = NoPolicy \/ held[r] \in {r} \X (1 .. Copies)
      BY <1>1, <2>2 DEF Owned
    <3>3. held[q][1] = q /\ (held[r] = NoPolicy \/ held[r][1] = r)
      BY <3>1, <3>2
    <3> QED  BY <2>3, <3>3
  <2> QED  BY <1>1, <1>2, <2>1, <2>2, <2>3 DEF Owned
<1>4. CASE Refresh
  BY <1>1, <1>2, <1>4 DEF Refresh, Owned
<1>5. CASE Delete
  BY <1>1, <1>2, <1>5 DEF Delete, Owned, Dropped
<1>6. CASE UNCHANGED <<held, doomed>>
  BY <1>1, <1>6 DEF Owned
<1>7. CASE UNCHANGED vars
  BY <1>6, <1>7 DEF vars
<1> QED
  BY <1>3, <1>4, <1>5, <1>6, <1>7 DEF Next, Run, Console, Commit, ConsoleAdds,
     ConsoleMoves, ConsoleDeletes, Remedy, ReadOrder, PoliciesMade, Get, Put, BatchRefused,
     ReadBack, Finish, Fails

\* The policies an order goes after are there until the run ends.
LEMMA CompleteStep ==
  ASSUME IInv, [Next]_vars
  PROVE  Complete'
<1> USE DEF program, state, order, bounds
<1>1. Complete
  BY DEF IInv
<1>2. CASE PoliciesMade
  BY <1>2 DEF PoliciesMade, Wanting, Complete
<1>3. CASE Delete
  <2>1. held \in [Row -> Made \cup {NoPolicy}] /\ ToSet(declared) \subseteq Row
    BY DeclaredList DEF IInv, TypeOK
  <2>2. \A r \in ToSet(declared) : held[r] # NoPolicy
    BY <1>1, <1>3 DEF Delete, Complete
  <2> QED  BY <1>3, <2>1, <2>2 DEF Delete, Dropped, Complete
<1>4. CASE pc' \in {"idle", "refresh", "policies"}
  BY <1>4 DEF Complete
<1>5. CASE Get \/ Put \/ BatchRefused \/ ReadBack
  BY <1>1, <1>5 DEF Get, Put, BatchRefused, ReadBack, Complete
<1>6. CASE Console
  BY <1>1, <1>6 DEF Console, ConsoleAdds, ConsoleMoves, ConsoleDeletes, Complete
<1>7. CASE UNCHANGED vars
  BY <1>1, <1>7 DEF vars, Complete
<1>8. CASE Commit \/ Remedy \/ Refresh \/ ReadOrder \/ MakePolicy \/ Finish \/ Fails
  BY <1>4, <1>8 DEF Commit, Remedy, Refresh, ReadOrder, MakePolicy, Finish, Fails
<1> QED
  BY <1>2, <1>3, <1>5, <1>6, <1>7, <1>8 DEF Next, Run

\* Between the read and the batch only the console moves a policy.
LEMMA UndisturbedStep ==
  ASSUME IInv, [Next]_vars
  PROVE  Undisturbed'
<1> USE DEF program, state, order, bounds
<1>1. Undisturbed /\ edits \in Nat
  BY BoundAssumption DEF IInv, TypeOK
<1>2. CASE Get
  BY <1>2 DEF Get, Undisturbed
<1>3. CASE pc' \in {"idle", "refresh", "policies", "get", "again", "check", "delete"}
  BY <1>3 DEF Undisturbed
<1>4. CASE Console
  <2>1. edits' # 0
    BY <1>1, <1>4 DEF Console, ConsoleAdds, ConsoleMoves, ConsoleDeletes, Edit
  <2> QED  BY <2>1 DEF Undisturbed
<1>5. CASE UNCHANGED vars
  BY <1>1, <1>5 DEF vars, Undisturbed
<1>6. CASE Commit \/ Remedy \/ Refresh \/ ReadOrder \/ MakePolicy \/ PoliciesMade \/ Put
           \/ BatchRefused \/ ReadBack \/ Delete \/ Finish \/ Fails
  BY <1>3, <1>6 DEF Commit, Remedy, Refresh, ReadOrder, MakePolicy, PoliciesMade, Put,
     BatchRefused, ReadBack, Delete, Finish, Fails
<1> QED  BY <1>2, <1>4, <1>5, <1>6 DEF Next, Run

\* What an order read as ranked, and what the run has made, is all there is.
LEMMA AccountedStep ==
  ASSUME IInv, [Next]_vars
  PROVE  Accounted'
<1> USE DEF program, state, order, bounds
<1>1. Accounted /\ edits \in Nat
  BY BoundAssumption DEF IInv, TypeOK
<1>2. CASE ReadOrder
  <2>1. ASSUME listed # NoOrder, ~drift'  PROVE OnPair(pair) \subseteq ToSet(listed)
    BY <1>2, <2>1 DEF ReadOrder, Unusable, Foreign
  <2> QED  BY <1>2, <2>1 DEF ReadOrder, Accounted, Previous
<1>3. CASE MakePolicy
  <2>1. PICK r \in Wanting : /\ Free(r) # {} /\ pair' = Placed(Fresh(r))
                             /\ held' = [held EXCEPT ![r] = Fresh(r)]
                             /\ stale' = stale \ {r}
    BY <1>3 DEF MakePolicy
  <2>2. r \in Row /\ r \in ToSet(declared) /\ ToSet(declared) \subseteq Row
    BY <2>1, WantingRows, DeclaredList DEF IInv
  <2>3. OnPair(pair') = OnPair(pair) \cup {Fresh(r)}
    BY <2>1, <2>2, FreshIsFree, PlacedRanks, Apart DEF IInv, TypeOK
  <2>4. UNCHANGED <<declared, listed, drift, edits, pc>> /\ pc = "policies"
    BY <1>3 DEF MakePolicy
  <2>5. held'[r] = Fresh(r) /\ \A q \in Row : q # r => held'[q] = held[q]
    BY <2>1, <2>2 DEF IInv, TypeOK
  <2>6. ASSUME edits = 0, listed # NoOrder, ~drift, NEW x \in OnPair(pair')
        PROVE  x \in Previous \cup {held'[q] : q \in ToSet(declared) \ stale'}
    <3>1. CASE x = Fresh(r)
      BY <2>1, <2>2, <2>5, <3>1
    <3>2. CASE x \in OnPair(pair)
      <4>1. CASE x \in Previous
        BY <4>1
      <4>2. ASSUME NEW q \in ToSet(declared) \ stale, x = held[q]
            PROVE  x \in Previous \cup {held'[p] : p \in ToSet(declared) \ stale'}
        <5>1. CASE q = r
          <6>1. held[q] = NoPolicy
            BY <2>1, <4>2, <5>1 DEF Wanting
          <6> QED  BY <3>2, <4>2, <6>1, Apart
        <5>2. CASE q # r
          BY <2>1, <2>2, <2>5, <4>2, <5>2
        <5> QED  BY <5>1, <5>2
      <4> QED  BY <1>1, <2>4, <2>6, <3>2, <4>1, <4>2 DEF Accounted
    <3> QED  BY <2>3, <2>6, <3>1, <3>2
  <2>7. Previous' = Previous
    BY <2>4 DEF Previous
  <2> QED  BY <2>4, <2>6, <2>7 DEF Accounted
<1>4. CASE pc' # "policies"
  BY <1>4 DEF Accounted
<1>5. CASE Console
  <2>1. edits' # 0
    BY <1>1, <1>5 DEF Console, ConsoleAdds, ConsoleMoves, ConsoleDeletes, Edit
  <2> QED  BY <2>1 DEF Accounted
<1>6. CASE UNCHANGED vars
  BY <1>1, <1>6 DEF vars, Accounted, Previous
<1>7. CASE Commit \/ Remedy \/ Refresh \/ PoliciesMade \/ Get \/ Put \/ BatchRefused
           \/ ReadBack \/ Delete \/ Finish \/ Fails
  BY <1>4, <1>7 DEF Commit, Remedy, Refresh, PoliciesMade, Get, Put, BatchRefused,
     ReadBack, Delete, Finish, Fails
<1> QED  BY <1>2, <1>3, <1>5, <1>6, <1>7 DEF Next, Run

\* The deletes begin with nothing ranked among what they take.
LEMMA KeptStep ==
  ASSUME IInv, [Next]_vars
  PROVE  Kept'
<1> USE DEF program, state, order, bounds
<1>1. Kept /\ Ruled /\ edits \in Nat
  BY BoundAssumption DEF IInv, TypeOK
<1>2. ASSUME edits = 0, PoliciesMade, pc' = "delete"
      PROVE  OnPair(pair) \subseteq ToSet(Names)
  <2>1. listed # NoOrder /\ Names = listed /\ ~drift /\ Wanting = {} /\ pc = "policies"
    BY <1>2 DEF PoliciesMade, OrderDiffers
  <2>2. OnPair(pair) \subseteq Previous \cup {held[r] : r \in ToSet(declared) \ stale}
    BY <1>2, <2>1 DEF IInv, Accounted
  <2>3. Previous = ToSet(Names)
    BY <2>1 DEF Previous
  <2>4. \A r \in ToSet(declared) : held[r] # NoPolicy
    BY <2>1 DEF Wanting
  <2>5. ToSet(Names) = {held[r] : r \in ToSet(declared)}
    BY <2>4, NamedOnce DEF IInv
  <2> QED  BY <2>2, <2>3, <2>5
<1>3. CASE PoliciesMade
  <2>1. Names' = Names /\ UNCHANGED <<edits, ranked>>
    BY <1>3 DEF PoliciesMade, Names
  <2>2. ASSUME edits = 0, pc' = "delete", NEW q \in ranked
        PROVE  q[1] \in ToSet(Names) /\ q[2] \in ToSet(Names)
    BY <1>1, <1>2, <1>3, <2>2 DEF Ruled
  <2>3. pc' # "check"
    BY <1>3 DEF PoliciesMade
  <2> QED  BY <2>1, <2>2, <2>3 DEF Kept
<1>4. CASE Put
  <2>1. ranked' = Ordered(Names) /\ Names' = Names
    BY <1>4 DEF Put, Ranks, Names
  <2>2. \A q \in Ordered(Names) : q[1] \in ToSet(Names) /\ q[2] \in ToSet(Names)
    BY DEF Ordered
  <2> QED  BY <2>1, <2>2 DEF Kept
<1>5. CASE ReadBack
  <2>1. Names' = Names /\ UNCHANGED <<edits, ranked>>
    BY <1>5 DEF ReadBack, Names
  <2> QED  BY <1>1, <1>5, <2>1 DEF ReadBack, Kept
<1>6. CASE Delete
  <2>1. held \in [Row -> Made \cup {NoPolicy}] /\ ToSet(declared) \subseteq Row
    BY DeclaredList DEF IInv, TypeOK
  <2>2. declared' = declared /\ \A r \in ToSet(declared) : held'[r] = held[r]
    BY <1>6, <2>1 DEF Delete, Dropped
  <2>3. Names' = Names
    BY <2>2, NamesStay
  <2>4. UNCHANGED <<edits, pc, ranked>>
    BY <1>6 DEF Delete
  <2> QED  BY <1>1, <2>3, <2>4 DEF Kept
<1>7. CASE pc' \notin {"check", "delete"}
  BY <1>7 DEF Kept
<1>8. CASE Console
  <2>1. edits' # 0
    BY <1>1, <1>8 DEF Console, ConsoleAdds, ConsoleMoves, ConsoleDeletes, Edit
  <2> QED  BY <2>1 DEF Kept
<1>9. CASE UNCHANGED vars
  <2>1. Names' = Names
    BY <1>9 DEF vars, Names
  <2> QED  BY <1>1, <1>9, <2>1 DEF vars, Kept
<1>10. CASE Commit \/ Remedy \/ Refresh \/ ReadOrder \/ MakePolicy \/ Get \/ BatchRefused
            \/ Finish \/ Fails
  BY <1>7, <1>10 DEF Commit, Remedy, Refresh, ReadOrder, MakePolicy, Get, BatchRefused,
     Finish, Fails
<1> QED  BY <1>3, <1>4, <1>5, <1>6, <1>8, <1>9, <1>10 DEF Next, Run

\* What was ranked first stays ahead of every policy of the other row.
LEMMA RuledStep ==
  ASSUME IInv, [Next]_vars
  PROVE  Ruled'
<1>1. /\ Ruled /\ Ranking(pair) /\ edits \in Nat /\ edits' \in Nat
      /\ ranked \subseteq Made \X Made /\ refused \subseteq Ids
  BY TypesStep, BoundAssumption DEF IInv, TypeOK
<1>2. CASE edits' # 0
  BY <1>2 DEF Ruled
<1>3. ASSUME edits' = 0  PROVE edits' = edits
  BY <1>1, <1>3, EditsStep
<1> SUFFICES ASSUME edits' = 0, edits = 0, NEW q \in ranked'
             PROVE  /\ q[1] \in OnPair(pair') /\ q[2] \in OnPair(pair')
                    /\ \A x \in OnPair(pair') \cap Made :
                         x[1] = q[2][1] /\ x # q[2] => <<q[1], x>> \in pair'
                    /\ <<q[1], q[2]>> \in pair'
  BY <1>2, <1>3 DEF Ruled, Of
<1>4. ASSUME q \in ranked
      PROVE  /\ q[1] \in OnPair(pair) /\ q[2] \in OnPair(pair)
             /\ q[1] \in Made /\ q[2] \in Made
             /\ <<q[1], q[2]>> \in pair
             /\ \A x \in OnPair(pair) \cap Made : x[1] = q[2][1] => <<q[1], x>> \in pair
  <2>1. q[1] \in Made /\ q[2] \in Made
    BY <1>1, <1>4
  <2>2. /\ q[1] \in OnPair(pair) /\ q[2] \in OnPair(pair)
        /\ \A x \in OnPair(pair) \cap Made : x[1] = q[2][1] => <<q[1], x>> \in pair
    BY <1>1, <1>4 DEF Ruled, Of
  <2> QED  BY <2>1, <2>2
<1>5. CASE UNCHANGED <<pair, ranked>>
  BY <1>4, <1>5
<1>6. CASE ranked' = ranked /\ \E r \in Wanting : Free(r) # {} /\ pair' = Placed(Fresh(r))
  <2>1. PICK r \in Wanting : Free(r) # {} /\ pair' = Placed(Fresh(r))
    BY <1>6
  <2>2. Fresh(r) \in Ids \ OnPair(pair)
    BY <2>1, WantingRows, FreshIsFree, Apart DEF IInv
  <2>3. /\ OnPair(pair') = OnPair(pair) \cup {Fresh(r)} /\ pair \subseteq pair'
        /\ \A x \in OnPair(pair) : <<x, Fresh(r)>> \in pair'
    BY <1>1, <2>1, <2>2, PlacedRanks
  <2> QED  BY <1>4, <1>6, <2>3
<1>7. CASE pc \in {"put", "putAgain"} /\ Ranks
  <2>1. read = pair /\ \A r \in ToSet(declared) : held[r] # NoPolicy
    BY <1>7 DEF IInv, Undisturbed, Complete
  <2>2. \A x, y \in ToSet(Names) : x[1] = y[1] => x = y
    BY <2>1, NamedOnce DEF IInv
  <2>3. /\ OnPair(pair') = ToSet(Names) \cup Carried(read, Names, Previous)
        /\ ranked' = Ordered(Names) /\ Ordered(Names) \subseteq pair'
        /\ \A x \in ToSet(Names), y \in Carried(read, Names, Previous) : <<x, y>> \in pair'
    BY <1>7, RanksTheList DEF IInv
  <2>4. PICK a \in ToSet(Names), b \in ToSet(Names) : q = <<a, b>>
    BY <2>3 DEF Ordered
  <2>5. q[1] = a /\ q[2] = b /\ <<a, b>> \in pair'
    BY <2>3, <2>4
  <2>6. ASSUME NEW x \in OnPair(pair'), x[1] = b[1], x # b  PROVE <<a, x>> \in pair'
    BY <2>2, <2>3, <2>4, <2>6
  <2> QED  BY <2>3, <2>5, <2>6
<1>8. ASSUME NEW id \in Ids, pair' = Without(id), q \in ranked, q[1] # id, q[2] # id
      PROVE  /\ q[1] \in OnPair(pair') /\ q[2] \in OnPair(pair')
             /\ <<q[1], q[2]>> \in pair'
             /\ \A x \in OnPair(pair') \cap Made : x[1] = q[2][1] => <<q[1], x>> \in pair'
  <2>1. OnPair(pair') = OnPair(pair) \ {id}
    BY <1>1, <1>8, WithoutRanks
  <2>2. \A x, y : <<x, y>> \in pair /\ x # id /\ y # id => <<x, y>> \in pair'
    BY <1>8 DEF Without
  <2> QED  BY <1>4, <1>8, <2>1, <2>2
<1>9. CASE \E id \in refused : /\ pair' = Without(id)
                               /\ ranked' = {p \in ranked : p[1] # id /\ p[2] # id}
  BY <1>1, <1>8, <1>9
<1>10. CASE /\ pc = "delete" /\ ranked' = ranked
            /\ \E id \in Made \ ToSet(Names) : pair' = Without(id)
  <2>1. q[1] \in ToSet(Names) /\ q[2] \in ToSet(Names)
    BY <1>10 DEF IInv, Kept
  <2> QED  BY <1>8, <1>10, <2>1, Apart
<1> QED  BY <1>5, <1>6, <1>7, <1>9, <1>10, PairStep

THEOREM Invariance == Spec => []IInv
<1>1. Init => IInv
  <2> SUFFICES ASSUME Init  PROVE IInv
    OBVIOUS
  <2>1. Ranking(Nothing)
    BY Apart DEF Ranking, Present, OnPair, Nothing
  <2>2. pc \in Stage /\ ranked = {} /\ refused = {} /\ doomed = {} /\ stale = {} /\ pc = "idle"
    BY DEF Init, Stage
  <2>3. commits \in 0 .. MaxCommits /\ edits \in 0 .. MaxEdits /\ faults \in 0 .. MaxFaults
    BY BoundAssumption DEF Init
  <2>4. held \in [Row -> Made \cup {NoPolicy}] /\ declared \in Censuses
    BY DEF Init
  <2>5. TypeOK
    BY <2>1, <2>2, <2>3, <2>4 DEF Init, TypeOK
  <2>6. Owned
    BY DEF Init, Owned
  <2>7. Complete /\ Undisturbed /\ Accounted /\ Kept /\ Ruled
    BY <2>2 DEF Complete, Undisturbed, Accounted, Kept, Ruled
  <2> QED  BY <2>5, <2>6, <2>7 DEF IInv
<1>2. IInv /\ [Next]_vars => IInv'
  BY TypesStep, OwnedStep, CompleteStep, UndisturbedStep, AccountedStep, KeptStep, RuledStep
     DEF IInv
<1> QED  BY <1>1, <1>2, PTL DEF Spec

\* Of any two policies the controller always ranks one ahead, in the pair and in
\* what the order read of it, and no batch names a policy twice.
THEOREM TypeCorrect == Spec => []TypeOK
<1>1. IInv => TypeOK
  BY DEF IInv
<1> QED  BY <1>1, Invariance, PTL

\* Of two rows the controller was told to rank, the first always has a policy
\* ahead of every policy of the second, whatever is replaced, dropped, cut
\* short or left behind, as long as only the deployment touches the pair.
THEOREM ThePositionIsTheRule == Spec => []PositionIsRule
<1>1. ASSUME IInv  PROVE PositionIsRule
  <2> SUFFICES ASSUME edits = 0, NEW q \in ranked
               PROVE  \E id \in Of(q[1][1]) : \A other \in Of(q[2][1]) : <<id, other>> \in pair
    BY DEF PositionIsRule
  <2>1. q[1] \in OnPair(pair) /\ \A x \in Of(q[2][1]) : <<q[1], x>> \in pair
    BY <1>1 DEF IInv, Ruled
  <2>2. q[1] \in Made
    BY <1>1 DEF IInv, TypeOK
  <2>3. q[1] \in Of(q[1][1])
    BY <2>1, <2>2 DEF Of
  <2> QED  BY <2>1, <2>3
<1> QED  BY <1>1, Invariance, PTL

\* A step that takes a console policy off the pair is the console's or follows
\* a refusal that named it, and a batch is taken only where there is none.
LEMMA HandStep ==
  ASSUME IInv, [Next]_vars
  PROVE  /\ \A h \in Hand \cap OnPair(pair) :
              h \notin OnPair(pair') => edits' # edits \/ h \in refused
         /\ pc \in {"put", "putAgain"} /\ pair' # pair /\ edits' = edits
              => Hand \cap OnPair(pair) = {}
<1>1. Ranking(pair) /\ refused \subseteq Ids
  BY DEF IInv, TypeOK
<1>2. CASE edits' # edits
  BY <1>2
<1>3. CASE edits' = edits /\ UNCHANGED <<pair, ranked>>
  BY <1>3
<1>4. CASE pc = "policies" /\ \E r \in Wanting : Free(r) # {} /\ pair' = Placed(Fresh(r))
  <2>1. PICK r \in Wanting : Free(r) # {} /\ pair' = Placed(Fresh(r))
    BY <1>4
  <2>2. Fresh(r) \in Ids \ OnPair(pair)
    BY <2>1, WantingRows, FreshIsFree, Apart DEF IInv
  <2>3. OnPair(pair) \subseteq OnPair(pair')
    BY <1>1, <2>1, <2>2, PlacedRanks
  <2> QED  BY <1>4, <2>3
<1>5. CASE pc \in {"put", "putAgain"} /\ Ranks
  <2>1. OnPair(pair') = OnPair(pair) /\ OnPair(pair) \subseteq Made
    BY <1>5, RanksTheList DEF IInv
  <2> QED  BY <2>1, IdAssumption
<1>6. CASE pc = "delete" /\ \E id \in Made \ ToSet(Names) : pair' = Without(id)
  <2>1. PICK id \in Made : pair' = Without(id)
    BY <1>6
  <2>2. OnPair(pair') = OnPair(pair) \ {id} /\ id \notin Hand
    BY <1>1, <2>1, WithoutRanks, Apart, IdAssumption
  <2> QED  BY <1>6, <2>2
<1>7. CASE Remedy
  <2>1. PICK id \in refused : pair' = Without(id)
    BY <1>7 DEF Remedy
  <2>2. OnPair(pair') = OnPair(pair) \ {id}
    BY <1>1, <2>1, WithoutRanks
  <2>3. pc \notin {"put", "putAgain"}
    BY <1>7 DEF Remedy
  <2> QED  BY <2>1, <2>2, <2>3
<1> QED  BY <1>2, <1>3, <1>4, <1>5, <1>6, <1>7, PairStep

\* The order never adopts a policy made in the console, moves past it or
\* deletes it: `_unusable` refuses by name, and no batch that omits it is taken.
THEOREM TheConsoleIsLeftAlone == Spec => HandUntouched
<1>1. IInv /\ [Next]_vars =>
        [/\ \A h \in Hand \cap OnPair(pair) :
              h \notin OnPair(pair') => edits' # edits \/ h \in refused
         /\ pc \in {"put", "putAgain"} /\ pair' # pair /\ edits' = edits
              => Hand \cap OnPair(pair) = {}]_vars
  BY HandStep
<1> QED  BY <1>1, Invariance, PTL DEF Spec, HandUntouched

=============================================================================
