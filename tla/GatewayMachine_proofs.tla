------------------------ MODULE GatewayMachine_proofs ------------------------
(***************************************************************************)
(* Theorems about GatewayMachine, for every set of digests, broken or not, *)
(* with or without siblings, and for every bound.                          *)
(*                                                                         *)
(* The argument: from its first command to its last a push knows where the *)
(* two trees it handles are (PushShape), a hook's rollback starts from the *)
(* shape the push left and permutes it (RollShape), and nothing else moves *)
(* a tree while either is under way (Alone).  What the device held before  *)
(* the push plays no part, which is why a lost session or a power loss in  *)
(* any earlier run does not disturb the result.  A script nobody hears any *)
(* more is still at the shape its push left, and its gate rolls back from  *)
(* there (LeftShape).  A machine that runs has the link it was started by, *)
(* unless the retirement failed to stop it, and one whose retirement was   *)
(* answered has none (Unlinked).  A second invariant is about what holds   *)
(* until a session, a hook or the power is lost (Undisturbed).             *)
(***************************************************************************)
EXTENDS GatewayMachine, TLAPS

Pulling   == {"pull", "clearing", "fetch", "unpack", "unpacked"}
HookPcs   == {"marked", "converging", "landed"}
Pushing   == Pulling \cup {"displaced", "swapped"} \cup HookPcs
Landing   == Pushing \cup {"rolling", "withdraw"}
Deleting  == {"purge", "purging", "sweeping", "unmark", "unhooking", "settling"}

(* One thing handles the trees at a time.                                  *)
Alone ==
  /\ push \in Pushing \cup Deleting => roll = "idle"
  /\ push = "rolling" <=> rollBy = "hook"
  /\ roll = "idle" => rollBy = "nobody"
  /\ conv["left"].pc # "idle" => roll = "idle" /\ push \in {"idle", "withdraw"}
  /\ conv["push"].pc # "idle" => push \in {"converging", "unhooking", "settling"}
  /\ push \in Deleting => op \notin {"land", "replace"}

(* Where the push has put the tree it found and the tree it brings.        *)
PushShape ==
  /\ push \in Landing => image \in Digest
  /\ push \in Pulling => live = before
  /\ push \in {"fetch", "unpack", "unpacked"} => superseded = None
  /\ push = "unpack" => layout = image
  /\ push \in {"unpacked", "displaced"} => staging = image
  /\ push = "displaced" => live = None
  /\ push \in {"displaced", "swapped"} \cup HookPcs => superseded = before
  /\ push \in {"swapped"} \cup HookPcs => live = image
  /\ push \in HookPcs => marker = image

(* Where a rollback that followed a push has put the same two trees.       *)
RollShape ==
  /\ roll # "idle" => image \in Digest
  /\ roll \in {"test", "stopped", "cleared"} => live = image
  /\ roll \in {"test", "stopped", "cleared", "aside"} => superseded = before
  /\ roll = "cleared" => rejected = None
  /\ roll = "aside" => live = None
  /\ roll \in {"aside", "restored"} => rejected = image
  /\ roll = "restored" => superseded = None
  /\ roll \in {"restored", "swapped", "unmarked", "done"} => live = before
  /\ roll \in {"swapped", "unmarked", "done"} => superseded = image
  /\ roll \in {"unmarked", "done"} => marker = None

(* A push's script nobody hears any more has its gate before it.           *)
Gated == conv["left"].pc # "idle" /\ op \in {"land", "replace"}

LeftShape == Gated => image \in Digest /\ live = image /\ superseded = before

(* Without a rollback by hand every rollback followed a push, one that the *)
(* push no longer waits for included, and no tree it handles is torn but by *)
(* a delete that was cut.                                                  *)
Shape ==
  /\ Alone
  /\ PushShape
  /\ LeftShape
  /\ rollBy = "hook" \/ ~ByHand => RollShape
  /\ ~ByHand /\ purged # "partly" => live # Torn
  /\ ~ByHand /\ purged # "partly" /\ (push \in Landing \/ roll # "idle" \/ Gated)
       => before # Torn

(* A unit is started by its link, which the retirement takes away; only a  *)
(* stop that failed leaves it running without one.                         *)
Unlinked ==
  /\ Active => linked \/ retired = "strayed"
  /\ retired = "yes" => ~settings /\ ~linked
  /\ push = "settling" /\ ~settings =>
       /\ conv["push"].pc \in {"read", "done"}
       /\ conv["push"].pc = "done" /\ retired = "no" => ~linked

IInv == TypeOK /\ Shape /\ Unlinked

(* A rollback, by hand too, clears the place it next moves a tree into.    *)
RollRoom ==
  /\ roll = "cleared" => rejected = None
  /\ roll = "aside" => live = None
  /\ roll = "restored" => superseded = None

(* The marker and the live tree part only between a rename and the write   *)
(* or the removal of the marker, unless that fails.                        *)
Named ==
  faults = 0 /\ ~mismarked /\ push # "swapped" /\ roll \notin {"restored", "swapped"}
    => (live # None /\ marker # None /\ purged # "partly" => live = marker)

(* The live tree of an applied machine is whole but between two renames,   *)
(* and there the one that was moved aside is; only a clear that failed     *)
(* leaves a torn one beside it.                                            *)
Whole ==
  faults = 0 /\ purged = "no" /\ wreck # "lost" =>
    /\ live # Torn
    /\ superseded = Torn => push = "clearing" \/ wreck = "parked"
    /\ roll \in {"stopped", "cleared", "aside"} => superseded # None
    /\ roll \in {"aside", "restored"} => rejected \in Digest
    /\ applied # None /\ push = "displaced" => superseded \in Digest
    /\ applied # None /\ push # "displaced" /\ roll # "aside" => live \in Digest

(* No rollback, by hand too, puts a torn tree in the live place: a tree    *)
(* torn by anything but a delete, or a clear that failed, is never parked  *)
(* beside a live one.                                                      *)
Sound ==
  faults = 0 /\ purged # "partly" /\ wreck # "lost" =>
    /\ live # Torn
    /\ superseded = Torn =>
         \/ push = "clearing" \/ wreck = "parked"
         \/ live = None /\ push # "displaced" /\ roll # "aside"
    /\ roll \in {"aside", "restored"} => rejected # Torn

Undisturbed == RollRoom /\ Named /\ Whole /\ Sound

-----------------------------------------------------------------------------
(* A step keeps every variable in its set.                                 *)
LEMMA TypingStep == TypeOK /\ [Next]_vars => TypeOK'
<1> SUFFICES ASSUME TypeOK, [Next]_vars PROVE TypeOK'
  OBVIOUS
<1> USE DigestAssumption, BoundAssumption
<1> USE DEF TypeOK, Tree, Mark, Place, Runner, ConvPc, RollPc, PushPc, Idle,
            trees, machine, scripts, state, unit, history, rest, engine, bounds

<1>1. ASSUME NEW d \in Digest \cup {None}, Bump(d) PROVE TypeOK'
  BY <1>1 DEF Bump

<1>2. CASE Refresh
  BY <1>2 DEF Refresh

<1>3. CASE BeginPush
  BY <1>3 DEF BeginPush, Begins

<1>4. CASE PullClears
  BY <1>4 DEF PullClears, Gnawed, Follow

<1>5. CASE PullCleared
  BY <1>5 DEF PullCleared

<1>6. CASE Fetch
  BY <1>6 DEF Fetch, Mishap

<1>7. CASE Unpack
  BY <1>7 DEF Unpack, Mishap

<1>8. CASE Displace
  BY <1>8 DEF Displace, Landed, Follow, Mishap

<1>9. CASE Swap
  BY <1>9 DEF Swap, Landed, Mishap

<1>10. CASE WriteMarker
  <2>1. mine' \in BOOLEAN /\ mismarked' \in BOOLEAN
    BY <1>10 DEF WriteMarker
  <2> QED
    BY <1>10, <2>1 DEF WriteMarker, Mishap

<1>11. CASE RunHook
  BY <1>11 DEF RunHook

<1>12. CASE GateRollsBack
  BY <1>12 DEF GateRollsBack

<1>13. CASE GateExits
  BY <1>13 DEF GateExits, Mishap

<1>14. CASE Withdraw
  <2>1. mismarked' \in BOOLEAN
    BY <1>14 DEF Withdraw
  <2> QED
    BY <1>14, <2>1 DEF Withdraw, Mishap

<1>15. CASE Record
  BY <1>15 DEF Record

<1>16. CASE SiblingHook
  BY <1>16 DEF SiblingHook

<1>17. CASE LeftGate
  BY <1>17 DEF LeftGate

<1>18. CASE RollTests
  <2>1. held' \in BOOLEAN
    BY <1>18 DEF RollTests
  <2> QED
    BY <1>18, <2>1 DEF RollTests, Mishap

<1>19. CASE RollClears
  BY <1>19 DEF RollClears, Follow

<1>20. CASE RollMovesAside
  BY <1>20 DEF RollMovesAside, Landed, Follow

<1>21. CASE RollRestores
  BY <1>21 DEF RollRestores, Landed, Follow

<1>22. CASE RollSwaps
  BY <1>22 DEF RollSwaps, Landed, Follow

<1>23. CASE RollUnmarks
  <2>1. mismarked' \in BOOLEAN
    BY <1>23 DEF RollUnmarks
  <2> QED
    BY <1>23, <2>1 DEF RollUnmarks

<1>24. CASE RollStarts
  <2>1. held' \in BOOLEAN
    BY <1>24 DEF RollStarts, StartOutcome
  <2> QED
    BY <1>24, <2>1 DEF RollStarts, StartOutcome, Mishap, Active

<1>25. CASE RollbackExits
  BY <1>25 DEF RollbackExits

<1>26. CASE RollbackByHand
  BY <1>26 DEF RollbackByHand

<1>27. CASE Dies
  BY <1>27 DEF Dies, Mishap, Active

<1>28. CASE AutoRestart
  BY <1>28 DEF AutoRestart, Active

<1>29. CASE HookTimesOut
  BY <1>29 DEF HookTimesOut, Abandon

<1>30. CASE SessionLost
  BY <1>30 DEF SessionLost, Abandon

<1>31. CASE PowerLost
  <2>1. held' \in BOOLEAN
    BY <1>31 DEF PowerLost
  <2>2. conv' \in [Runner -> [pc : ConvPc, want : Mark]]
    BY <1>31 DEF PowerLost
  <2> QED
    BY <1>31, <2>1, <2>2 DEF PowerLost

<1>32. ASSUME NEW r \in Runner, ConvergeReads(r) PROVE TypeOK'
  <2>1. linked' \in BOOLEAN /\ held' \in BOOLEAN
    BY <1>32 DEF ConvergeReads, Retires
  <2>2. /\ runs' \in Place /\ mishaps' \in 0 .. MaxMishaps
        /\ retired' \in {"no", "yes", "strayed"}
    BY <1>32 DEF ConvergeReads, Retires, Mishap
  <2>3. conv' \in [Runner -> [pc : ConvPc, want : Mark]]
    BY <1>32 DEF ConvergeReads, Exited
  <2> QED
    BY <1>32, <2>1, <2>2, <2>3 DEF ConvergeReads

<1>33. ASSUME NEW r \in Runner, ConvergeRestarts(r) PROVE TypeOK'
  <2>1. held' \in BOOLEAN
    BY <1>33 DEF ConvergeRestarts, StartOutcome
  <2>2. runs' \in Place /\ mishaps' \in 0 .. MaxMishaps
    BY <1>33 DEF ConvergeRestarts, StartOutcome, Mishap
  <2>3. conv' \in [Runner -> [pc : ConvPc, want : Mark]]
    BY <1>33 DEF ConvergeRestarts, Exited
  <2> QED
    BY <1>33, <2>1, <2>2, <2>3 DEF ConvergeRestarts

<1>34. ASSUME NEW r \in Runner, ConvergeStamps(r) PROVE TypeOK'
  BY <1>34 DEF ConvergeStamps, Exited, Mishap

<1>35. CASE UNCHANGED vars
  BY <1>35 DEF vars

<1>36. CASE BeginReplace
  BY <1>36 DEF BeginReplace, Begins

<1>38. CASE BeginSettings
  <2>1. settings' \in BOOLEAN
    BY <1>38 DEF BeginSettings
  <2>2. retired' \in {"no", "yes", "strayed"}
    BY <1>38 DEF BeginSettings
  <2> QED
    BY <1>38, <2>1, <2>2 DEF BeginSettings

<1>39. CASE LeaveSettings
  BY <1>39 DEF LeaveSettings

<1>40. CASE Leave
  <2>1. mine' \in BOOLEAN /\ orig' \in BOOLEAN
    BY <1>40 DEF Leave, Drop
  <2> QED
    BY <1>40, <2>1 DEF Leave, Drop

<1>41. CASE Purge
  BY <1>41 DEF Purge, Gnawed, Follow

<1>42. CASE Sweep
  BY <1>42 DEF Sweep, Gnawed, Follow

<1>43. CASE Purged
  BY <1>43 DEF Purged

<1>44. CASE PurgeFails
  BY <1>44 DEF PurgeFails, Mishap

<1>45. CASE Unmark
  <2>1. mismarked' \in BOOLEAN
    BY <1>45 DEF Unmark
  <2> QED
    BY <1>45, <2>1 DEF Unmark

<1>46. CASE Deleted
  <2>1. mine' \in BOOLEAN /\ orig' \in BOOLEAN
    BY <1>46 DEF Deleted, Drop
  <2>2. applied' \in Mark
    BY <1>46 DEF Deleted, Drop
  <2>3. push' \in PushPc /\ mishaps' \in 0 .. MaxMishaps
    BY <1>46 DEF Deleted, Converged, Mishap
  <2>4. conv' \in [Runner -> [pc : ConvPc, want : Mark]]
    BY <1>46 DEF Deleted, Converged
  <2> QED
    BY <1>46, <2>1, <2>2, <2>3, <2>4 DEF Deleted

<1>47. CASE Settled
  BY <1>47 DEF Settled, Converged, Mishap

<1>37. ASSUME NEW o \in {"retire", "original"}, BeginDelete(o) PROVE TypeOK'
  BY <1>37 DEF BeginDelete

<1>48. ASSUME NEW r \in Runner, ConvergeLinks(r) PROVE TypeOK'
  <2>1. linked' \in BOOLEAN
    BY <1>48 DEF ConvergeLinks
  <2>2. retired' \in {"no", "yes", "strayed"} /\ mishaps' \in 0 .. MaxMishaps
    BY <1>48 DEF ConvergeLinks, Mishap
  <2>3. conv' \in [Runner -> [pc : ConvPc, want : Mark]]
    BY <1>48 DEF ConvergeLinks, Exited
  <2> QED
    BY <1>48, <2>1, <2>2, <2>3 DEF ConvergeLinks

<1>49. CASE PullFails
  BY <1>49 DEF PullFails, Mishap

<1>50. CASE RollFails
  <2>1. mismarked' \in BOOLEAN
    BY <1>50 DEF RollFails
  <2> QED
    BY <1>50, <2>1 DEF RollFails, Gnawed, Mishap

<1> QED
  BY <1>1, <1>2, <1>3, <1>4, <1>5, <1>6, <1>7, <1>8, <1>9, <1>10, <1>11, <1>12, <1>13, <1>14, <1>15, <1>16, <1>17, <1>18, <1>19, <1>20, <1>21, <1>22, <1>23, <1>24, <1>25, <1>26, <1>27, <1>28, <1>29, <1>30, <1>31, <1>32, <1>33, <1>34, <1>35, <1>36, <1>37, <1>38, <1>39, <1>40, <1>41, <1>42, <1>43, <1>44, <1>45, <1>46, <1>47, <1>48, <1>49, <1>50
     DEF Next, Deploy, Land, Converge, Rollback
-----------------------------------------------------------------------------
(* What the shape does not depend on may change freely.                    *)
LEMMA ShapeQuiet ==
  ASSUME Shape, UNCHANGED <<trees, marker, roll, rollBy, push, op, image,
                            before, purged>>,
         \A r \in {"push", "left"} : conv'[r].pc # "idle" => conv[r].pc # "idle"
  PROVE  Shape'
BY DEF Shape, Alone, PushShape, LeftShape, Gated, RollShape, Pulling, HookPcs,
       Pushing, Landing, Deleting, trees

(* A step leaves the two trees where the push and the rollback know them.  *)
LEMMA ShapeStep == IInv /\ [Next]_vars => Shape'
<1> SUFFICES ASSUME TypeOK, Shape, [Next]_vars PROVE Shape'
  BY DEF IInv
<1> USE DigestAssumption
<1> USE DEF TypeOK, Tree, Mark, RollPc, PushPc, Shape, Alone, PushShape,
            RollShape, LeftShape, Gated, Pulling, HookPcs, Pushing, Runner,
            Idle, Free, trees, machine, scripts, state, unit, history, rest, engine, bounds,
            Landing, Deleting

<1>1. CASE BeginPush
  BY <1>1 DEF BeginPush, Begins

<1>2. CASE PullClears
  BY <1>2 DEF PullClears, Gnawed

<1>3. CASE PullCleared
  BY <1>3 DEF PullCleared

<1>4. CASE Fetch
  BY <1>4 DEF Fetch

<1>5. CASE Unpack
  BY <1>5 DEF Unpack

<1>6. CASE Displace
  BY <1>6 DEF Displace, Landed

<1>7. CASE Swap
  BY <1>7 DEF Swap, Landed

<1>8. CASE WriteMarker
  BY <1>8 DEF WriteMarker

<1>9. CASE RunHook
  BY <1>9 DEF RunHook

<1>10. CASE GateRollsBack
  BY <1>10 DEF GateRollsBack

<1>11. CASE GateExits
  BY <1>11 DEF GateExits

<1>12. CASE Withdraw
  BY <1>12 DEF Withdraw

<1>13. CASE Record
  BY <1>13 DEF Record

<1>14. CASE RollTests
  BY <1>14 DEF RollTests

<1>15. CASE RollClears
  BY <1>15 DEF RollClears

<1>16. CASE RollMovesAside
  BY <1>16 DEF RollMovesAside, Landed

<1>17. CASE RollRestores
  BY <1>17 DEF RollRestores, Landed

<1>18. CASE RollSwaps
  BY <1>18 DEF RollSwaps, Landed

<1>19. CASE RollUnmarks
  BY <1>19 DEF RollUnmarks

<1>20. CASE RollStarts
  BY <1>20 DEF RollStarts

<1>21. CASE RollbackExits
  BY <1>21 DEF RollbackExits

<1>22. CASE RollbackByHand
  BY <1>22 DEF RollbackByHand

<1>23. CASE HookTimesOut
  BY <1>23 DEF HookTimesOut, Abandon

<1>24. CASE SessionLost
  BY <1>24 DEF SessionLost, Abandon

<1>25. CASE PowerLost
  BY <1>25 DEF PowerLost

<1>26. ASSUME NEW d \in Digest \cup {None}, Bump(d) PROVE Shape'
  BY <1>26, ShapeQuiet DEF Bump

<1>27. CASE Refresh
  BY <1>27, ShapeQuiet DEF Refresh

<1>28. CASE SiblingHook
  BY <1>28, ShapeQuiet DEF SiblingHook

<1>29. CASE LeftGate
  BY <1>29 DEF LeftGate

<1>30. CASE Dies
  BY <1>30, ShapeQuiet DEF Dies

<1>31. CASE AutoRestart
  BY <1>31, ShapeQuiet DEF AutoRestart

<1>32. ASSUME NEW r \in Runner, Converge(r) PROVE Shape'
  <2>1. UNCHANGED <<trees, marker, roll, rollBy, push, op, image, before, purged>>
    BY <1>32 DEF Converge, ConvergeReads, ConvergeLinks, ConvergeRestarts,
                 ConvergeStamps
  <2>2. ASSUME NEW q \in {"push", "left"} PROVE conv'[q].pc # "idle" => conv[q].pc # "idle"
    BY <1>32 DEF Converge, ConvergeReads, ConvergeLinks, ConvergeRestarts,
                 ConvergeStamps, Exited
  <2> QED
    BY <2>1, <2>2, ShapeQuiet

<1>33. CASE UNCHANGED vars
  BY <1>33, ShapeQuiet DEF vars

<1>34. CASE BeginReplace
  BY <1>34 DEF BeginReplace, Begins

<1>36. CASE BeginSettings
  BY <1>36 DEF BeginSettings

<1>37. CASE Leave
  BY <1>37 DEF Leave

<1>38. CASE Purge
  BY <1>38 DEF Purge, Gnawed

<1>39. CASE Sweep
  BY <1>39 DEF Sweep

<1>40. CASE Purged
  BY <1>40 DEF Purged

<1>41. CASE PurgeFails
  BY <1>41 DEF PurgeFails

<1>42. CASE Unmark
  BY <1>42 DEF Unmark

<1>43. CASE Deleted
  BY <1>43 DEF Deleted, Converged

<1>44. CASE Settled
  BY <1>44 DEF Settled, Converged

<1>35. ASSUME NEW o \in {"retire", "original"}, BeginDelete(o) PROVE Shape'
  BY <1>35 DEF BeginDelete

<1>46. CASE PullFails
  BY <1>46 DEF PullFails

<1>47. CASE RollFails
  BY <1>47 DEF RollFails

<1>45. CASE LeaveSettings
  BY <1>45, ShapeQuiet DEF LeaveSettings

<1> QED
  BY <1>1, <1>2, <1>3, <1>4, <1>5, <1>6, <1>7, <1>8, <1>9, <1>10, <1>11, <1>12, <1>13, <1>14, <1>15, <1>16, <1>17, <1>18, <1>19, <1>20, <1>21, <1>22, <1>23, <1>24, <1>25, <1>26, <1>27, <1>28, <1>29, <1>30, <1>31, <1>32, <1>33, <1>34, <1>35, <1>36, <1>37, <1>38, <1>39, <1>40, <1>41, <1>42, <1>43, <1>44, <1>45, <1>46, <1>47
     DEF Next, Deploy, Land, Rollback

-----------------------------------------------------------------------------
(* A step neither starts a unit that has no link, nor lets a retirement    *)
(* whose stop did not fail be answered while there is one.                 *)
LEMMA UnlinkedStep == IInv /\ [Next]_vars => Unlinked'
<1> SUFFICES ASSUME TypeOK, Shape, Unlinked, [Next]_vars PROVE Unlinked'
  BY DEF IInv
<1> USE DEF TypeOK, Unlinked, Active, Runner, Idle,
            Free, trees, machine, scripts, state, unit, history, rest, engine, bounds

<1>1. ASSUME push' # "settling", UNCHANGED <<settings, linked, retired>>,
             runs' # "none" => linked \/ retired = "strayed"
      PROVE  Unlinked'
  BY <1>1

<1>2. ASSUME UNCHANGED <<settings, linked, retired, push, conv>>,
             runs' # "none" => linked \/ retired = "strayed"
      PROVE  Unlinked'
  BY <1>2

<1>3. CASE BeginSettings
  BY <1>3 DEF BeginSettings

<1>4. CASE Settled
  <2>1. UNCHANGED <<settings, linked, runs>> /\ push' = "idle"
    BY <1>4 DEF Settled, Converged
  <2>2. CASE retired' = retired
    BY <2>1, <2>2
  <2>3. CASE retired' # retired
    BY <1>4, <2>1, <2>3 DEF Settled, Converged
  <2> QED
    BY <2>2, <2>3

<1>5. ASSUME NEW r \in Runner, ConvergeReads(r) PROVE Unlinked'
  BY <1>5 DEF ConvergeReads, Retires, Exited

<1>6. ASSUME NEW r \in Runner, ConvergeLinks(r) PROVE Unlinked'
  BY <1>6 DEF ConvergeLinks, Exited

<1>7. ASSUME NEW r \in Runner, ConvergeRestarts(r) PROVE Unlinked'
  BY <1>7 DEF ConvergeRestarts, StartOutcome, Exited

<1>8. ASSUME NEW r \in Runner, ConvergeStamps(r) PROVE Unlinked'
  BY <1>8 DEF ConvergeStamps, Exited

<1>9. CASE SiblingHook
  BY <1>9 DEF SiblingHook

<1>10. CASE LeftGate
  BY <1>10 DEF LeftGate

<1>11. CASE BeginPush \/ BeginReplace
          \/ \E o \in {"retire", "original"} : BeginDelete(o)
  BY <1>1, <1>11 DEF BeginPush, BeginReplace, BeginDelete, Begins

<1>12. CASE PullClears \/ PullCleared \/ PullFails \/ Fetch \/ Unpack \/ Displace \/ Swap
  BY <1>1, <1>12
     DEF PullClears, PullCleared, PullFails, Fetch, Unpack, Displace, Swap, Follow

<1>13. CASE WriteMarker \/ RunHook \/ GateRollsBack \/ GateExits \/ Withdraw \/ Record
  BY <1>1, <1>13
     DEF WriteMarker, RunHook, GateRollsBack, GateExits, Withdraw, Record

<1>14. CASE Leave \/ Purge \/ Sweep \/ Purged \/ PurgeFails \/ Unmark \/ Deleted
  BY <1>1, <1>14
     DEF Leave, Purge, Sweep, Purged, PurgeFails, Unmark, Deleted, Converged, Follow

<1>15. CASE RollTests \/ RollClears \/ RollMovesAside \/ RollRestores
          \/ RollSwaps \/ RollUnmarks \/ RollFails \/ RollbackByHand
  BY <1>2, <1>15
     DEF RollTests, RollClears, RollMovesAside, RollRestores, RollSwaps,
         RollUnmarks, RollFails, RollbackByHand, Follow

<1>16. CASE RollStarts
  BY <1>2, <1>16 DEF RollStarts, StartOutcome

<1>17. CASE RollbackExits
  <2>1. CASE rollBy = "hook"
    BY <1>1, <1>17, <2>1 DEF RollbackExits
  <2>2. CASE rollBy # "hook"
    BY <1>2, <1>17, <2>2 DEF RollbackExits
  <2> QED
    BY <2>1, <2>2

<1>18. CASE Refresh \/ LeaveSettings \/ \E d \in Digest \cup {None} : Bump(d)
  BY <1>2, <1>18 DEF Refresh, LeaveSettings, Bump

<1>19. CASE Dies \/ AutoRestart
  BY <1>2, <1>19 DEF Dies, AutoRestart

<1>20. CASE HookTimesOut \/ SessionLost \/ PowerLost
  BY <1>1, <1>20 DEF HookTimesOut, SessionLost, PowerLost, Abandon

<1>21. CASE UNCHANGED vars
  BY <1>2, <1>21 DEF vars

<1> QED
  BY <1>3, <1>4, <1>5, <1>6, <1>7, <1>8, <1>9, <1>10, <1>11, <1>12, <1>13,
     <1>14, <1>15, <1>16, <1>17, <1>18, <1>19, <1>20, <1>21
     DEF Next, Deploy, Land, Converge, Rollback

-----------------------------------------------------------------------------
(* The inductive invariant, from which the safety theorems follow.         *)
LEMMA Invariance == Spec => []IInv
<1>1. Init => TypeOK
  <2> SUFFICES ASSUME Init PROVE TypeOK
    OBVIOUS
  <2>1. /\ held \in BOOLEAN /\ settings \in BOOLEAN /\ linked \in BOOLEAN
        /\ mine \in BOOLEAN /\ orig \in BOOLEAN /\ mismarked \in BOOLEAN
    BY DEF Init
  <2>2. conv \in [Runner -> [pc : ConvPc, want : Mark]]
    BY DEF Init, Idle, ConvPc, Mark
  <2> QED
    BY <2>1, <2>2, BoundAssumption
       DEF Init, TypeOK, Tree, Mark, Place, RollPc, PushPc
<1>2. Init => Shape
  BY DigestAssumption
     DEF Init, Shape, Alone, PushShape, LeftShape, Gated, RollShape, Runner,
         Idle, Pulling, HookPcs, Pushing, Landing, Deleting
<1>3. Init => Unlinked
  BY DEF Init, Unlinked, Active
<1>4. IInv /\ [Next]_vars => IInv'
  BY TypingStep, ShapeStep, UnlinkedStep DEF IInv
<1> QED
  BY <1>1, <1>2, <1>3, <1>4, PTL DEF Spec, IInv

(* Every variable stays in its set.                                        *)
THEOREM TypeCorrect == Spec => []TypeOK
<1>1. IInv => TypeOK
  BY DEF IInv
<1> QED
  BY <1>1, Invariance, PTL

(* A rollback the hook waited for has put back the tree the push found,    *)
(* whatever earlier pushes, faults and rollbacks left on the device.       *)
THEOREM RollbackIsExact == Spec => []RollbackRestores
<1>1. IInv => RollbackRestores
  BY DEF IInv, Shape, Alone, RollShape, RollbackRestores
<1> QED
  BY <1>1, Invariance, PTL

(* What a push returns to the engine is what the device holds.             *)
THEOREM RecordIsTrue == Spec => []LandedHolds
<1>1. IInv => LandedHolds
  BY DEF IInv, Shape, PushShape, HookPcs, LandedHolds
<1> QED
  BY <1>1, Invariance, PTL

(* A machine whose retirement was answered, and whose stop did not fail,   *)
(* stays down, unless a converger that had read it as declared went on     *)
(* after that.                                                             *)
THEOREM RetirementHolds == Spec => []RetiredIsDown
<1>1. IInv => RetiredIsDown
  BY DEF IInv, Unlinked, RetiredIsDown
<1> QED
  BY <1>1, Invariance, PTL

(* An operation ends as it says: landed, rolled back, or retired.          *)
THEOREM EndsTruly == Spec => []EndsTrue
<1>1. RollbackRestores /\ LandedHolds /\ RetiredIsDown => EndsTrue
  BY DEF EndsTrue
<1> QED
  BY <1>1, RollbackIsExact, RecordIsTrue, RetirementHolds, PTL

-----------------------------------------------------------------------------
(* A step that fails, a rollback and a delete that stops part way leave    *)
(* the marker and the live tree as they have to be: what no session, hook  *)
(* or power was lost in.                                                   *)
LEMMA UndisturbedStep == IInv /\ Undisturbed /\ [Next]_vars => Undisturbed'
<1> SUFFICES ASSUME TypeOK, Alone, PushShape, Undisturbed, [Next]_vars
             PROVE  Undisturbed'
  BY DEF IInv, Shape
<1> USE DigestAssumption
<1> USE DEF TypeOK, Tree, Mark, RollPc, PushPc, Alone, PushShape,
            Pulling, HookPcs, Pushing, Landing, Deleting,
            Undisturbed, RollRoom, Named, Whole, Sound, Free,
            trees, machine, scripts, state, unit, history, rest, engine, bounds

<1>1. ASSUME UNCHANGED <<trees, marker, roll, push, history, faults>>,
             applied' # None => applied # None
      PROVE  Undisturbed'
  BY <1>1

<1>2. CASE BeginPush \/ BeginReplace
          \/ \E o \in {"retire", "original"} : BeginDelete(o)
  BY <1>2 DEF BeginPush, BeginReplace, BeginDelete, Begins

<1>3. CASE BeginSettings
  BY <1>3 DEF BeginSettings

<1>4. CASE Refresh \/ LeaveSettings \/ \E d \in Digest \cup {None} : Bump(d)
  <2>1. UNCHANGED <<trees, marker, roll, push, history, faults>>
    BY <1>4 DEF Refresh, LeaveSettings, Bump
  <2>2. applied' # None => applied # None
    BY <1>4 DEF Refresh, LeaveSettings, Bump
  <2> QED
    BY <1>1, <2>1, <2>2

<1>5. CASE PullClears
  BY <1>5 DEF PullClears, Gnawed

<1>6. CASE PullCleared
  BY <1>6 DEF PullCleared

<1>7. CASE Fetch
  BY <1>7 DEF Fetch

<1>8. CASE Unpack
  BY <1>8 DEF Unpack

<1>9. CASE Displace
  BY <1>9 DEF Displace, Landed

<1>10. CASE Swap
  BY <1>10 DEF Swap, Landed

<1>11. CASE WriteMarker
  BY <1>11 DEF WriteMarker

<1>12. CASE RunHook
  BY <1>12 DEF RunHook

<1>13. CASE GateRollsBack
  BY <1>13 DEF GateRollsBack

<1>14. CASE GateExits
  BY <1>14 DEF GateExits

<1>15. CASE Withdraw
  BY <1>15 DEF Withdraw

<1>16. CASE Record
  BY <1>16 DEF Record

<1>17. CASE Leave
  BY <1>17 DEF Leave, Drop

<1>18. CASE Purge
  BY <1>18 DEF Purge, Gnawed

<1>19. CASE Sweep
  BY <1>19 DEF Sweep

<1>20. CASE Purged
  BY <1>20 DEF Purged

<1>21. CASE PurgeFails
  BY <1>21 DEF PurgeFails

<1>22. CASE Unmark
  BY <1>22 DEF Unmark

<1>23. CASE Deleted
  <2>1. /\ UNCHANGED <<trees, marker, roll, history, faults>>
        /\ push = "unhooking" /\ push' = "idle"
    BY <1>23 DEF Deleted, Converged
  <2>2. applied' # None => applied # None
    BY <1>23 DEF Deleted, Drop
  <2> QED
    BY <2>1, <2>2

<1>24. CASE Settled
  <2>1. /\ UNCHANGED <<trees, marker, roll, history, faults, applied>>
        /\ push = "settling" /\ push' = "idle"
    BY <1>24 DEF Settled, Converged
  <2> QED
    BY <2>1

<1>25. CASE RollbackByHand
  BY <1>25 DEF RollbackByHand

<1>26. CASE RollTests
  BY <1>26 DEF RollTests

<1>27. CASE RollClears
  BY <1>27 DEF RollClears

<1>28. CASE RollMovesAside
  BY <1>28 DEF RollMovesAside, Landed

<1>29. CASE RollRestores
  BY <1>29 DEF RollRestores, Landed

<1>30. CASE RollSwaps
  BY <1>30 DEF RollSwaps, Landed

<1>31. CASE RollUnmarks
  BY <1>31 DEF RollUnmarks

<1>32. CASE RollStarts
  <2>1. /\ UNCHANGED <<trees, marker, push, history, faults, applied>>
        /\ roll = "unmarked" /\ roll' \in {"done", "failed"}
    BY <1>32 DEF RollStarts
  <2> QED
    BY <2>1

<1>33. CASE RollbackExits
  BY <1>33 DEF RollbackExits

<1>34. CASE HookTimesOut \/ SessionLost \/ PowerLost
  <2>1. UNCHANGED trees /\ faults' = faults + 1 /\ roll' \in {roll, "idle"}
    BY <1>34 DEF HookTimesOut, SessionLost, PowerLost, Abandon
  <2>2. faults' # 0
    BY <2>1
  <2> QED
    BY <2>1, <2>2

<1>35. CASE SiblingHook \/ Dies \/ AutoRestart
  BY <1>1, <1>35 DEF SiblingHook, Dies, AutoRestart

<1>36. ASSUME NEW r \in Runner, Converge(r) PROVE Undisturbed'
  BY <1>1, <1>36 DEF Converge, ConvergeReads, ConvergeLinks,
                     ConvergeRestarts, ConvergeStamps

<1>38. CASE LeftGate
  BY <1>38 DEF LeftGate

<1>39. CASE PullFails
  BY <1>39 DEF PullFails

<1>40. CASE RollFails
  BY <1>40 DEF RollFails

<1>37. CASE UNCHANGED vars
  BY <1>1, <1>37 DEF vars

<1> QED
  BY <1>2, <1>3, <1>4, <1>5, <1>6, <1>7, <1>8, <1>9, <1>10, <1>11, <1>12,
     <1>13, <1>14, <1>15, <1>16, <1>17, <1>18, <1>19, <1>20, <1>21, <1>22,
     <1>23, <1>24, <1>25, <1>26, <1>27, <1>28, <1>29, <1>30, <1>31, <1>32,
     <1>33, <1>34, <1>35, <1>36, <1>37, <1>38, <1>39, <1>40
     DEF Next, Deploy, Land, Rollback

(* The second inductive invariant, over the first.                         *)
LEMMA Undisturbance == Spec => []Undisturbed
<1>1. Init => Undisturbed
  BY DigestAssumption DEF Init, Undisturbed, RollRoom, Named, Whole, Sound
<1> QED
  BY <1>1, UndisturbedStep, Invariance, PTL DEF Spec

(* No fault of the session, of the power or of a command makes the machine *)
(* boot a partial tree as long as nobody rolls it back by hand, and no     *)
(* rollback by hand does before such a fault, unless it takes up what a    *)
(* failed clear or a failed rename left: only a delete that was cut leaves *)
(* one.                                                                    *)
THEOREM TreeIsWhole ==
  Spec => [](~ByHand \/ (faults = 0 /\ wreck # "lost") => LiveWhole)
<1>1. IInv /\ Undisturbed => (~ByHand \/ (faults = 0 /\ wreck # "lost") => LiveWhole)
  BY DEF IInv, Shape, Undisturbed, Sound, LiveWhole
<1> QED
  BY <1>1, Invariance, Undisturbance, PTL

(* Until a session, a hook or the power is lost, a marker that stands      *)
(* beside a tree when nothing is under way names the digest the tree was   *)
(* unpacked from, whatever command of a push, a delete or a rollback by    *)
(* hand fails but two: the marker's own write after a swap, and, in a      *)
(* rollback that has swapped, what comes before its removal or that.       *)
THEOREM MarkerIsTheTrees == Spec => [](faults = 0 => MarkerNamesTree)
<1>1. Undisturbed => (faults = 0 => MarkerNamesTree)
  BY DEF Undisturbed, Named, MarkerNamesTree, AtRest
<1> QED
  BY <1>1, Undisturbance, PTL

(* Until a session, a hook or the power is lost, an applied machine that   *)
(* no delete has touched keeps a whole tree on the device, in the middle   *)
(* of every push and rollback too, whatever command of theirs fails but    *)
(* the rename that follows the one that moved the live tree aside.         *)
THEOREM WholeTreeSurvives == Spec => [](faults = 0 => WholeTreeKept)
<1>1. Undisturbed => (faults = 0 => WholeTreeKept)
  BY DEF Undisturbed, Whole, WholeTreeKept
<1> QED
  BY <1>1, Undisturbance, PTL

=============================================================================
