------------------------- MODULE DeviceFiles_proofs -------------------------
(***************************************************************************)
(* What holds of `DeviceFiles` for every set of contents and identities    *)
(* and for every bound: the types, that a hook is never lost silently, and *)
(* that the file implements `DeviceSlot`.                                  *)
(*                                                                         *)
(* The inductive invariant has three parts beside the types.  `Shape` says *)
(* what an operation under way knows of the state it began in.  `Claims`   *)
(* says that an identity anybody would delete by belongs to a write of the *)
(* deployment's own, which is the reason a delete may go by it.  `Told`    *)
(* says what the reader acts on while no hook is in hand.                  *)
(***************************************************************************)
EXTENDS DeviceFiles, TLAPS

Shape ==
  /\ run.pc = "idle" => run = Rest
  /\ run.pc \in {"write", "agree", "adopt", "remove", "unhook"} => run.wrote = NoId
  /\ run.pc \in {"write", "hook"} => run.op \in {"create", "update", "replace"}
  /\ run.pc = "agree" => run.op = "update"
  /\ run.pc = "adopt" => run.op = "restamp" /\ rec.id = NoId
  /\ run.pc = "record" => run.op \in {"create", "update", "replace", "restamp"}
  /\ run.pc \in {"remove", "unhook"} => run.op \in {"retire", "original"}
  /\ run.pc \in {"write", "hook", "agree", "adopt", "record"} => run.target \in Content
  /\ run.pc = "hook" => run.wrote \in Ids
  /\ run.pc = "record" /\ run.op # "restamp" => run.wrote \in Ids
  /\ run.pc = "record" /\ run.op = "restamp" => rec.id = NoId \/ run.wrote = rec.id
  /\ run.pc \in {"agree", "adopt"} => run.target = rec.content
  /\ run.pc = "record" /\ run.op = "restamp" => run.target = rec.content
  /\ run.op \in {"update", "replace", "restamp", "retire"} => Recorded
  /\ run.op = "create" => ~Recorded
  /\ run.op = "replace" => orig = NoOriginal
  /\ run.op = "original" => orig # NoOriginal

Claims ==
  /\ path.content = None => author = "nobody"
  /\ IsFile /\ rec.id \in Ids /\ rec.id = path.id => author = "run"
  /\ IsFile /\ orig \in Ids /\ orig = path.id => author = "run"
  /\ IsFile /\ run.op # "restamp" /\ run.wrote \in Ids /\ run.wrote = path.id
       => author = "run"

Told ==
  /\ IsFile /\ ~lapse /\ path.content = rec.content /\ run.pc # "hook"
       => reader = path.content
  /\ IsFile /\ ~lapse /\ run.pc = "record" /\ run.op # "restamp"
     /\ path.content = run.target
       => reader = path.content

IInv == TypeOK /\ Shape /\ Claims /\ Told

USE ContentAssumption, IdAssumption, BoundAssumption

\* What a reader finds at the path is a content, or nothing.
LEMMA SeenType ==
  ASSUME TypeOK
  PROVE  Seen \in Content \cup {Cut, None}
BY DEF TypeOK, Holdings, Seen, IsFile

\* A step keeps the types.
LEMMA TypingStep ==
  ASSUME TypeOK, Shape, [Next]_vars
  PROVE  TypeOK'
<1> USE DEF Holdings, Empty, NoRecord, Rest, Op, Pc, IsFile, IsOther,
            Recorded, device, state, program, bounds, TypeOK, Shape
<1>1. CASE BeginCreate
  BY <1>1 DEF BeginCreate, Begin
<1>2. CASE BeginUpdate
  BY <1>2 DEF BeginUpdate, Begin, Asks, Drifted
<1>3. CASE BeginRetire
  BY <1>3 DEF BeginRetire, Begin
<1>4. CASE BeginOriginal
  BY <1>4 DEF BeginOriginal, Begin
<1>5. CASE Write
  <2>1. PICK i \in Ids : /\ path' = [content |-> run.target, id |-> i]
                         /\ run' = [run EXCEPT !.pc = "hook", !.wrote = i]
    BY <1>5 DEF Write, Fresh
  <2> QED  BY <1>5, <2>1 DEF Write, At
<1>6. CASE WriteRefuses
  BY <1>6 DEF WriteRefuses, At
<1>7. CASE HookRuns
  BY <1>7, SeenType DEF HookRuns, At
<1>8. CASE Agrees
  <2>1. run.pc = "agree" /\ UNCHANGED <<path, reader, author, rec, orig, declared,
                                       stamp, lapse, acts, edits, faults>>
    BY <1>8 DEF Agrees, At
  <2>2. CASE run' = [run EXCEPT !.pc = "write"]
    BY <2>1, <2>2
  <2>3. CASE rec.id = NoId /\ run' = [run EXCEPT !.pc = "adopt", !.op = "restamp"]
    <3>1. run' \in [pc : Pc, op : Op, target : Content \cup {None},
                    wrote : Ids \cup {NoId}]
      BY <2>3
    <3> QED  BY <2>1, <3>1
  <2>4. CASE run' = [run EXCEPT !.pc = "record", !.op = "restamp", !.wrote = rec.id]
    <3>1. rec.id \in Ids \cup {NoId}
      OBVIOUS
    <3>2. run' \in [pc : Pc, op : Op, target : Content \cup {None},
                   wrote : Ids \cup {NoId}]
      BY <2>4, <3>1
    <3> QED  BY <2>1, <3>2
  <2> QED  BY <1>8, <2>2, <2>3, <2>4 DEF Agrees
<1>9. CASE Adopt
  BY <1>9 DEF Adopt, At
<1>10. CASE Record
  BY <1>10 DEF Record, At
<1>11. CASE Remove
  BY <1>11 DEF Remove, At, Rewritten, Claimed
<1>12. CASE Leave
  BY <1>12 DEF Leave, At, Drop
<1>13. CASE Unhook
  BY <1>13 DEF Unhook, At, Drop, Seen
<1>14. CASE RemoveFails
  BY <1>14 DEF RemoveFails, At, Fault
<1>15. CASE \E c \in Content \cup {None} : Commit(c)
  BY <1>15 DEF Commit, Act
<1>16. CASE Restamp
  BY <1>16 DEF Restamp, Act
<1>17. CASE BeginReplace
  BY <1>17 DEF BeginReplace, Begin, Act
<1>18. CASE Refresh
  BY <1>18 DEF Refresh
<1>19. CASE WriteFails
  BY <1>19 DEF WriteFails, At, Fault
<1>20. CASE HookFails
  BY <1>20 DEF HookFails, At, Fault, HookGone, Seen
<1>21. CASE UnhookFails
  BY <1>21 DEF UnhookFails, At, Fault, HookGone, Seen
<1>22. CASE Interrupted
  <2> USE DEF At, Fault
  <2>1. CASE WriteLost
    <3>1. CASE UNCHANGED <<path, author, lapse>>
      BY <1>22, <2>1, <3>1 DEF Interrupted, WriteLost
    <3>2. CASE \E c \in {run.target, Cut}, i \in Fresh :
                 path' = [content |-> c, id |-> i]
      <4>1. PICK c \in {run.target, Cut}, i \in Ids :
                 path' = [content |-> c, id |-> i]
        BY <3>2 DEF Fresh
      <4>2. path' \in [content : Holdings, id : Ids \cup {NoId}]
        BY <4>1
      <4>3. /\ UNCHANGED <<reader, rec, orig, declared, stamp, acts, edits>>
            /\ author' \in {author, "run"} /\ run' = Rest /\ faults' = faults + 1
        BY <1>22, <2>1 DEF Interrupted, WriteLost
      <4>4. lapse' \in BOOLEAN
        BY <2>1 DEF WriteLost
      <4> QED  BY <4>2, <4>3, <4>4
    <3> QED  BY <2>1, <3>1, <3>2 DEF WriteLost
  <2>2. CASE HookLost
    BY <1>22, <2>2 DEF Interrupted, HookLost, HookGone, Seen
  <2>3. CASE RemoveLost
    BY <1>22, <2>3 DEF Interrupted, RemoveLost
  <2>4. CASE UNCHANGED <<device, reader, lapse>>
    BY <1>22, <2>4 DEF Interrupted
  <2> QED  BY <1>22, <2>1, <2>2, <2>3, <2>4 DEF Interrupted
<1>23. CASE \E c \in Content \cup {None, Other} : Edit(c)
  <2>1. PICK c \in Content \cup {None, Other} : Edit(c)
    BY <1>23
  <2>2. \/ path' = Empty
        \/ \E i \in Ids : path' = [content |-> c, id |-> i]
    BY <2>1 DEF Edit, Fresh
  <2>3. path' \in [content : Holdings, id : Ids \cup {NoId}]
    BY <2>2
  <2>4. /\ UNCHANGED <<reader, rec, orig, declared, stamp, run, acts, faults>>
        /\ author' \in {"nobody", "hand"} /\ lapse' = TRUE
        /\ edits' = edits + 1
    BY <2>1 DEF Edit
  <2> QED  BY <2>3, <2>4
<1>24. CASE Restart
  <2>1. /\ reader' = Seen /\ lapse' = FALSE
        /\ UNCHANGED <<path, author, rec, orig, declared, stamp, run,
                       acts, edits, faults>>
    BY <1>24 DEF Restart
  <2>2. reader' \in Content \cup {Cut, None, Down}
    BY <2>1, SeenType
  <2>3. lapse' \in BOOLEAN
    BY <2>1
  <2>4. UNCHANGED <<path, author, rec, orig, declared, stamp, run,
                    acts, edits, faults>>
    BY <2>1
  <2> QED  BY <2>2, <2>3, <2>4
<1>25. CASE Remedy
  BY <1>25 DEF Remedy
<1>26. CASE UNCHANGED vars
  BY <1>26 DEF vars
<1> QED
  BY <1>1, <1>2, <1>3, <1>4, <1>5, <1>6, <1>7, <1>8, <1>9, <1>10, <1>11,
       <1>12, <1>13, <1>14, <1>15, <1>16, <1>17, <1>18, <1>19, <1>20, <1>21,
       <1>22, <1>23, <1>24, <1>25, <1>26 DEF Next, Deploy, Operate, World

\* A step keeps what an operation knows.
LEMMA ShapeStep ==
  ASSUME TypeOK, Shape, [Next]_vars
  PROVE  Shape'
<1> USE DEF Holdings, Empty, NoRecord, Rest, Op, Pc, IsFile, IsOther,
            Recorded, device, state, program, bounds, TypeOK, Shape
<1>1. CASE BeginCreate
  BY <1>1 DEF BeginCreate, Begin
<1>2. CASE BeginUpdate
  BY <1>2 DEF BeginUpdate, Begin, Asks, Drifted
<1>3. CASE BeginRetire
  BY <1>3 DEF BeginRetire, Begin
<1>4. CASE BeginOriginal
  BY <1>4 DEF BeginOriginal, Begin
<1>5. CASE Write
  BY <1>5 DEF Write, At, Fresh, Remembered
<1>6. CASE WriteRefuses
  BY <1>6 DEF WriteRefuses, At
<1>7. CASE HookRuns
  BY <1>7 DEF HookRuns, At, Seen
<1>8. CASE Agrees
  <2>1. run.pc = "agree" /\ UNCHANGED <<path, reader, author, rec, orig, declared,
                                       stamp, lapse, acts, edits, faults>>
    BY <1>8 DEF Agrees, At
  <2>2. CASE run' = [run EXCEPT !.pc = "write"]
    BY <2>1, <2>2
  <2>3. CASE rec.id = NoId /\ run' = [run EXCEPT !.pc = "adopt", !.op = "restamp"]
    BY <2>1, <2>3
  <2>4. CASE run' = [run EXCEPT !.pc = "record", !.op = "restamp", !.wrote = rec.id]
    BY <2>1, <2>4
  <2> QED  BY <1>8, <2>2, <2>3, <2>4 DEF Agrees
<1>9. CASE Adopt
  BY <1>9 DEF Adopt, At
<1>10. CASE Record
  BY <1>10 DEF Record, At
<1>11. CASE Remove
  BY <1>11 DEF Remove, At, Rewritten, Claimed
<1>12. CASE Leave
  BY <1>12 DEF Leave, At, Drop
<1>13. CASE Unhook
  BY <1>13 DEF Unhook, At, Drop, Seen
<1>14. CASE RemoveFails
  BY <1>14 DEF RemoveFails, At, Fault
<1>15. CASE \E c \in Content \cup {None} : Commit(c)
  BY <1>15 DEF Commit, Act
<1>16. CASE Restamp
  BY <1>16 DEF Restamp, Act
<1>17. CASE BeginReplace
  BY <1>17 DEF BeginReplace, Begin, Act
<1>18. CASE Refresh
  BY <1>18 DEF Refresh
<1>19. CASE WriteFails
  BY <1>19 DEF WriteFails, At, Fault
<1>20. CASE HookFails
  BY <1>20 DEF HookFails, At, Fault, HookGone, Seen
<1>21. CASE UnhookFails
  BY <1>21 DEF UnhookFails, At, Fault, HookGone, Seen
<1>22. CASE Interrupted
  BY <1>22 DEF Interrupted, At, Fault, WriteLost, HookLost, RemoveLost,
       HookGone, Seen, Fresh, Remembered, Rewritten, Claimed
<1>23. CASE \E c \in Content \cup {None, Other} : Edit(c)
  BY <1>23 DEF Edit, Fresh, Remembered
<1>24. CASE Restart
  BY <1>24 DEF Restart, Seen
<1>25. CASE Remedy
  BY <1>25 DEF Remedy
<1>26. CASE UNCHANGED vars
  BY <1>26 DEF vars
<1> QED
  BY <1>1, <1>2, <1>3, <1>4, <1>5, <1>6, <1>7, <1>8, <1>9, <1>10, <1>11,
       <1>12, <1>13, <1>14, <1>15, <1>16, <1>17, <1>18, <1>19, <1>20, <1>21,
       <1>22, <1>23, <1>24, <1>25, <1>26 DEF Next, Deploy, Operate, World

\* A step keeps the identities the deployment's own.
LEMMA ClaimsStep ==
  ASSUME TypeOK, Shape, Claims, [Next]_vars
  PROVE  Claims'
<1> USE DEF Holdings, Empty, NoRecord, Rest, Op, Pc, IsFile, IsOther,
            Recorded, device, state, program, bounds, TypeOK, Shape, Claims
<1>1. CASE BeginCreate
  BY <1>1 DEF BeginCreate, Begin
<1>2. CASE BeginUpdate
  BY <1>2 DEF BeginUpdate, Begin, Asks, Drifted
<1>3. CASE BeginRetire
  BY <1>3 DEF BeginRetire, Begin
<1>4. CASE BeginOriginal
  BY <1>4 DEF BeginOriginal, Begin
<1>5. CASE Write
  BY <1>5 DEF Write, At, Fresh, Remembered
<1>6. CASE WriteRefuses
  BY <1>6 DEF WriteRefuses, At
<1>7. CASE HookRuns
  BY <1>7 DEF HookRuns, At, Seen
<1>8. CASE Agrees
  BY <1>8 DEF Agrees, At, Drifted
<1>9. CASE Adopt
  BY <1>9 DEF Adopt, At
<1>10. CASE Record
  BY <1>10 DEF Record, At
<1>11. CASE Remove
  BY <1>11 DEF Remove, At, Rewritten, Claimed
<1>12. CASE Leave
  BY <1>12 DEF Leave, At, Drop
<1>13. CASE Unhook
  BY <1>13 DEF Unhook, At, Drop, Seen
<1>14. CASE RemoveFails
  BY <1>14 DEF RemoveFails, At, Fault
<1>15. CASE \E c \in Content \cup {None} : Commit(c)
  BY <1>15 DEF Commit, Act
<1>16. CASE Restamp
  BY <1>16 DEF Restamp, Act
<1>17. CASE BeginReplace
  BY <1>17 DEF BeginReplace, Begin, Act
<1>18. CASE Refresh
  BY <1>18 DEF Refresh
<1>19. CASE WriteFails
  BY <1>19 DEF WriteFails, At, Fault
<1>20. CASE HookFails
  BY <1>20 DEF HookFails, At, Fault, HookGone, Seen
<1>21. CASE UnhookFails
  BY <1>21 DEF UnhookFails, At, Fault, HookGone, Seen
<1>22. CASE Interrupted
  BY <1>22 DEF Interrupted, At, Fault, WriteLost, HookLost, RemoveLost,
       HookGone, Seen, Fresh, Remembered, Rewritten, Claimed
<1>23. CASE \E c \in Content \cup {None, Other} : Edit(c)
  BY <1>23 DEF Edit, Fresh, Remembered
<1>24. CASE Restart
  BY <1>24 DEF Restart, Seen
<1>25. CASE Remedy
  BY <1>25 DEF Remedy
<1>26. CASE UNCHANGED vars
  BY <1>26 DEF vars
<1> QED
  BY <1>1, <1>2, <1>3, <1>4, <1>5, <1>6, <1>7, <1>8, <1>9, <1>10, <1>11,
       <1>12, <1>13, <1>14, <1>15, <1>16, <1>17, <1>18, <1>19, <1>20, <1>21,
       <1>22, <1>23, <1>24, <1>25, <1>26 DEF Next, Deploy, Operate, World

\* A step keeps the reader told.
LEMMA ToldStep ==
  ASSUME TypeOK, Shape, Told, [Next]_vars
  PROVE  Told'
<1> USE DEF Holdings, Empty, NoRecord, Rest, Op, Pc, IsFile, IsOther,
            Recorded, device, state, program, bounds, TypeOK, Shape, Told
<1>1. CASE BeginCreate
  BY <1>1 DEF BeginCreate, Begin
<1>2. CASE BeginUpdate
  BY <1>2 DEF BeginUpdate, Begin, Asks, Drifted
<1>3. CASE BeginRetire
  BY <1>3 DEF BeginRetire, Begin
<1>4. CASE BeginOriginal
  BY <1>4 DEF BeginOriginal, Begin
<1>5. CASE Write
  BY <1>5 DEF Write, At, Fresh, Remembered
<1>6. CASE WriteRefuses
  BY <1>6 DEF WriteRefuses, At
<1>7. CASE HookRuns
  BY <1>7 DEF HookRuns, At, Seen
<1>8. CASE Agrees
  BY <1>8 DEF Agrees, At, Drifted
<1>9. CASE Adopt
  BY <1>9 DEF Adopt, At
<1>10. CASE Record
  BY <1>10 DEF Record, At
<1>11. CASE Remove
  BY <1>11 DEF Remove, At, Rewritten, Claimed
<1>12. CASE Leave
  BY <1>12 DEF Leave, At, Drop
<1>13. CASE Unhook
  BY <1>13 DEF Unhook, At, Drop, Seen
<1>14. CASE RemoveFails
  BY <1>14 DEF RemoveFails, At, Fault
<1>15. CASE \E c \in Content \cup {None} : Commit(c)
  BY <1>15 DEF Commit, Act
<1>16. CASE Restamp
  BY <1>16 DEF Restamp, Act
<1>17. CASE BeginReplace
  BY <1>17 DEF BeginReplace, Begin, Act
<1>18. CASE Refresh
  BY <1>18 DEF Refresh
<1>19. CASE WriteFails
  BY <1>19 DEF WriteFails, At, Fault
<1>20. CASE HookFails
  BY <1>20 DEF HookFails, At, Fault, HookGone, Seen
<1>21. CASE UnhookFails
  BY <1>21 DEF UnhookFails, At, Fault, HookGone, Seen
<1>22. CASE Interrupted
  <2> USE DEF At, Fault
  <2>1. CASE WriteLost
    BY <1>22, <2>1 DEF Interrupted, WriteLost
  <2>2. CASE HookLost
    BY <1>22, <2>2 DEF Interrupted, HookLost, HookGone, Seen
  <2>3. CASE RemoveLost
    BY <1>22, <2>3 DEF Interrupted, RemoveLost
  <2>4. CASE run.pc \in {"agree", "adopt", "record"} /\ UNCHANGED <<device, reader, lapse>>
    BY <1>22, <2>4 DEF Interrupted
  <2> QED  BY <1>22, <2>1, <2>2, <2>3, <2>4 DEF Interrupted
<1>23. CASE \E c \in Content \cup {None, Other} : Edit(c)
  BY <1>23 DEF Edit, Fresh, Remembered
<1>24. CASE Restart
  BY <1>24 DEF Restart, Seen
<1>25. CASE Remedy
  BY <1>25 DEF Remedy
<1>26. CASE UNCHANGED vars
  BY <1>26 DEF vars
<1> QED
  BY <1>1, <1>2, <1>3, <1>4, <1>5, <1>6, <1>7, <1>8, <1>9, <1>10, <1>11,
       <1>12, <1>13, <1>14, <1>15, <1>16, <1>17, <1>18, <1>19, <1>20, <1>21,
       <1>22, <1>23, <1>24, <1>25, <1>26 DEF Next, Deploy, Operate, World

LEMMA Invariance == Spec => []IInv
<1>1. Init => IInv
  <2> SUFFICES ASSUME Init PROVE IInv
    OBVIOUS
  <2> USE DEF Holdings, Empty, NoRecord, Rest, Op, Pc, IsFile, Recorded
  <2>1. CASE path = Empty /\ rec = NoRecord /\ author = "nobody"
    BY <2>1 DEF Init, IInv, TypeOK, Shape, Claims, Told
  <2>2. CASE \E c \in Content, i \in Ids, known \in BOOLEAN :
               /\ path = [content |-> c, id |-> i]
               /\ rec = [content |-> c, stamp |-> 0,
                         id |-> IF known THEN i ELSE NoId]
               /\ author = "run"
    <3>1. PICK c \in Content, i \in Ids, j \in Ids \cup {NoId} :
            /\ path = [content |-> c, id |-> i]
            /\ rec = [content |-> c, stamp |-> 0, id |-> j]
            /\ author = "run"
      BY <2>2
    <3>2. TypeOK
      BY <3>1 DEF Init, TypeOK
    <3>3. Shape /\ Claims /\ Told
      BY <3>1 DEF Init, Shape, Claims, Told
    <3> QED  BY <3>2, <3>3 DEF IInv
  <2> QED  BY <2>1, <2>2 DEF Init
<1>2. IInv /\ [Next]_vars => IInv'
  BY TypingStep, ShapeStep, ClaimsStep, ToldStep DEF IInv
<1> QED  BY <1>1, <1>2, PTL DEF Spec

\* Every variable stays in its set.
THEOREM TypeCorrect == Spec => []TypeOK
<1>1. IInv => TypeOK  BY DEF IInv
<1> QED  BY <1>1, Invariance, PTL

\* Where a deployment has nothing to do, the service acts on what is declared:
\* no order of commits, failed hooks, lost sessions and replacements loses one
\* silently, but for the lapses `QuietIsTold` names.
THEOREM HookNotLost == Spec => []QuietIsTold
<1>1. IInv => QuietIsTold
  BY DEF IInv, TypeOK, Told, QuietIsTold, Asks, Drifted, IsFile, Rest
<1> QED  BY <1>1, Invariance, PTL

-----------------------------------------------------------------------------
(* The refinement: every step of the provider, the engine and the world is *)
(* a step of `DeviceSlot`, or none.                                        *)

LEMMA StartRefines == Init => Slot!Init
BY DEF Init, Empty, NoRecord, Recorded, Slot!Init

LEMMA StepRefines ==
  ASSUME TypeOK, Shape, Claims, [Next]_vars
  PROVE  [Slot!Next]_(Slot!vars)
<1> USE DEF Holdings, Empty, NoRecord, Rest, IsFile, IsOther, Recorded,
            device, state, program, bounds, TypeOK, Shape, Claims,
            Slot!Next, Slot!vars
<1>1. CASE BeginCreate
  BY <1>1 DEF BeginCreate, Begin
<1>2. CASE BeginUpdate
  BY <1>2 DEF BeginUpdate, Begin, Asks, Drifted
<1>3. CASE BeginRetire
  BY <1>3 DEF BeginRetire, Begin
<1>4. CASE BeginOriginal
  BY <1>4 DEF BeginOriginal, Begin
<1>5. CASE Write
  BY <1>5 DEF Write, At, Fresh, Remembered, Slot!Put
<1>6. CASE WriteRefuses
  BY <1>6 DEF WriteRefuses, At
<1>7. CASE HookRuns
  BY <1>7 DEF HookRuns, At, Seen
<1>8. CASE Agrees
  BY <1>8 DEF Agrees, At, Drifted
<1>9. CASE Adopt
  BY <1>9 DEF Adopt, At
<1>10. CASE Record
  BY <1>10 DEF Record, At, Slot!Adopt
<1>11. CASE Remove
  BY <1>11 DEF Remove, At, Rewritten, Claimed, Slot!Withdraw
<1>12. CASE Leave
  BY <1>12 DEF Leave, At, Drop, Slot!Adopt
<1>13. CASE Unhook
  BY <1>13 DEF Unhook, At, Drop, Seen, Slot!Adopt
<1>14. CASE RemoveFails
  BY <1>14 DEF RemoveFails, At, Fault
<1>15. CASE \E c \in Content \cup {None} : Commit(c)
  BY <1>15 DEF Commit, Act
<1>16. CASE Restamp
  BY <1>16 DEF Restamp, Act
<1>17. CASE BeginReplace
  BY <1>17 DEF BeginReplace, Begin, Act
<1>18. CASE Refresh
  BY <1>18 DEF Refresh, Slot!Adopt
<1>19. CASE WriteFails
  BY <1>19 DEF WriteFails, At, Fault
<1>20. CASE HookFails
  BY <1>20 DEF HookFails, At, Fault, HookGone, Seen
<1>21. CASE UnhookFails
  BY <1>21 DEF UnhookFails, At, Fault, HookGone, Seen
<1>22. CASE Interrupted
  BY <1>22 DEF Interrupted, At, Fault, WriteLost, HookLost, RemoveLost,
       HookGone, Seen, Fresh, Remembered, Rewritten, Claimed, Slot!Put,
       Slot!Spoil, Slot!Withdraw
<1>23. CASE \E c \in Content \cup {None, Other} : Edit(c)
  BY <1>23 DEF Edit, Fresh, Remembered, Slot!Meddle
<1>24. CASE Restart
  BY <1>24 DEF Restart, Seen
<1>25. CASE Remedy
  BY <1>25 DEF Remedy, Slot!Meddle
<1>26. CASE UNCHANGED vars
  BY <1>26 DEF vars
<1> QED
  BY <1>1, <1>2, <1>3, <1>4, <1>5, <1>6, <1>7, <1>8, <1>9, <1>10, <1>11,
       <1>12, <1>13, <1>14, <1>15, <1>16, <1>17, <1>18, <1>19, <1>20, <1>21,
       <1>22, <1>23, <1>24, <1>25, <1>26 DEF Next, Deploy, Operate, World

\* The file implements `DeviceSlot`: nothing but a write of the deployment's own
\* is ever taken away, and nothing but a file is ever written over.
THEOREM Implements == Spec => SlotImplemented
<1>1. Init => Slot!Init
  BY StartRefines
<1>2. IInv /\ [Next]_vars => [Slot!Next]_(Slot!vars)
  BY StepRefines DEF IInv
<1> QED  BY <1>1, <1>2, Invariance, PTL DEF Spec, SlotImplemented, Slot!Spec
=============================================================================
