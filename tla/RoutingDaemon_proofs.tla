----------------------- MODULE RoutingDaemon_proofs -------------------------
(***************************************************************************)
(* For every set of configurations and releases and every bound: the       *)
(* variables of `RoutingDaemon` stay in their sets, and where a run would  *)
(* find nothing to do, the daemon runs what is declared.                   *)
(*                                                                         *)
(* `QuietIsRunning` is not inductive: what makes a run skip is the stamp,  *)
(* and what the daemon reads changes two steps before its restart.  So     *)
(* `Fresh` says of every state in which no run owes a restart that the     *)
(* daemon runs what lies in /etc, and `Vetted` follows the pair of a       *)
(* source and a parser from the comparison through the check to the stamp. *)
(***************************************************************************)
EXTENDS RoutingDaemon, TLAPS

Run == [pc : Active \cup {"idle", "done", "failed"},
        conf : Conf \cup {None}, parser : Parser,
        toggled : BOOLEAN, crossed : BOOLEAN]

\* A run that has compared has a configuration to name in its stamp.
Named ==
  \A r \in Runner :
    conv[r].pc \in {"check", "install", "restart", "stamp"} => conv[r].conf \in Conf

\* A stamp stands or is about to be written.
Standing == stamp # NoStamp \/ \E r \in Runner : conv[r].pc = "stamp"

\* With no restart owed, the daemon runs what lies in /etc.
Fresh ==
  ~missed /\ (\A r \in Runner : ~Wrote(r)) /\ Standing => daemon \in {Down, Loaded}

\* What a run whose source and parser stood still has found of them.
Vets(r) ==
  conv[r].crossed = FALSE =>
    /\ conv[r].pc \in {"compare", "check"} => conv[r].parser = parser
    /\ conv[r].pc = "check" => conv[r].conf = source
    /\ conv[r].pc \in {"install", "restart", "stamp"} =>
         <<conv[r].conf, conv[r].parser>> \notin Rejects

\* And what its stamp says.
Vetted ==
  /\ \A r \in Runner : Vets(r)
  /\ ~crossed /\ stamp # NoStamp => <<stamp.conf, stamp.parser>> \notin Rejects

IInv == TypeOK /\ Named /\ Fresh /\ Vetted

-----------------------------------------------------------------------------
(* What the helpers of the steps return.                                   *)

LEMMA Records ==
  /\ Start \in Run /\ Start.pc = "begin"
  /\ Idle \in Run /\ Idle.pc = "idle"
BY ValueAssumption DEF Start, Idle, Run, Active

LEMMA LoadedType ==
  ASSUME TypeOK PROVE Loaded \in [conf : Held, bgp : BOOLEAN]
BY DEF TypeOK, Loaded

\* A run that is over leaves the others as they are.
LEMMA EndsType ==
  ASSUME TypeOK, NEW r \in Runner, NEW pc \in {"idle", "done", "failed"}, Ends(r, pc)
  PROVE  /\ conv' \in [Runner -> Run]
         /\ conv'[r].pc = pc
         /\ \A o \in Runner \ {r} : conv'[o] = conv[o]
  <1>1. [Idle EXCEPT !.pc = pc] \in Run /\ [Idle EXCEPT !.pc = pc].pc = pc
    BY Records DEF Run
  <1> QED  BY <1>1 DEF TypeOK, Ends, Run

LEMMA GoesType ==
  ASSUME TypeOK, NEW r \in Runner, NEW pc \in Active, Goes(r, pc)
  PROVE  /\ conv' \in [Runner -> Run]
         /\ conv'[r] = [conv[r] EXCEPT !.pc = pc]
         /\ conv'[r].pc = pc
         /\ \A o \in Runner \ {r} : conv'[o] = conv[o]
BY DEF TypeOK, Goes, Run

\* A crossing marks runs and changes nothing else of them.
LEMMA CrossingType ==
  ASSUME TypeOK, NEW r \in Runner
  PROVE  /\ Crossing(conv) \in [Runner -> Run]
         /\ Crossing(conv)[r].pc = conv[r].pc
         /\ Crossing(conv)[r].conf = conv[r].conf
         /\ Crossing(conv)[r].parser = conv[r].parser
         /\ Crossing(conv)[r].toggled = conv[r].toggled
         /\ Crossing(conv)[r].crossed =
              (conv[r].crossed \/ conv[r].pc \in {"compare", "check", "install"})
BY DEF TypeOK, Crossing, Run

-----------------------------------------------------------------------------
(* Typing.                                                                 *)

\* The two beginnings: a device nothing was declared on, and a settled one.
LEMMA Beginnings ==
  Init => \/ stamp = NoStamp /\ daemon = Down
          \/ \E c \in Conf : /\ <<c, Shipped>> \notin Rejects
                            /\ stamp = [conf |-> c, parser |-> Shipped]
                            /\ daemon = [conf |-> c, bgp |-> TRUE]
BY DEF Init

LEMMA InitTypes == Init => TypeOK /\ Named
  <1> SUFFICES ASSUME Init PROVE TypeOK /\ Named
    OBVIOUS
  <1>1. [Idle EXCEPT !.pc = "done"] \in Run
    BY Records DEF Run
  <1>2. conv \in [Runner -> Run]
    BY <1>1, Records DEF Init
  <1>3. Named
    BY DEF Init, Named, Idle, Start
  <1>4. /\ declared \in Conf \cup {None} /\ live \in Held
        /\ list \in {"no", "yes", "odd"}
    BY DEF Init, Held
  <1>5. stamp \in Mark \cup {NoStamp} /\ daemon \in [conf : Held, bgp : BOOLEAN] \cup {Down}
    <2>1. CASE stamp = NoStamp /\ daemon = Down
      BY <2>1
    <2>2. ASSUME NEW c \in Conf, stamp = [conf |-> c, parser |-> Shipped],
                 daemon = [conf |-> c, bgp |-> TRUE]
          PROVE  stamp \in Mark /\ daemon \in [conf : Held, bgp : BOOLEAN]
      BY <2>2, ValueAssumption DEF Mark, Held
    <2> QED  BY <2>1, <2>2, Beginnings
  <1> QED
    BY <1>2, <1>3, <1>4, <1>5, ValueAssumption DEF Init, TypeOK, Run

LEMMA TypeStep == IInv /\ [Next]_vars => TypeOK' /\ Named'
  <1> SUFFICES ASSUME IInv, [Next]_vars PROVE TypeOK' /\ Named'
    OBVIOUS
  <1> USE DEF Runner
  <1>0. TypeOK /\ Named
    BY DEF IInv
  <1>1. ASSUME NEW r \in Runner, Begins(r) PROVE TypeOK' /\ Named'
    <2>1. UNCHANGED <<intent, live, stamp, parser, daemon, pushing, history, bounds>>
      BY <1>1 DEF Begins
    <2>2. CASE Ends(r, "done") /\ UNCHANGED list
      <3>1. conv' \in [Runner -> Run] /\ conv'[r].pc = "done"
            /\ \A o \in Runner \ {r} : conv'[o] = conv[o]
        BY <2>2, <1>0, EndsType
      <3> QED  BY <2>1, <2>2, <3>1, <1>0 DEF TypeOK, Named, Run, intent, history, bounds
    <2>3. CASE Ends(r, "failed") /\ UNCHANGED list
      <3>1. conv' \in [Runner -> Run] /\ conv'[r].pc = "failed"
            /\ \A o \in Runner \ {r} : conv'[o] = conv[o]
        BY <2>3, <1>0, EndsType
      <3> QED  BY <2>1, <2>3, <3>1, <1>0 DEF TypeOK, Named, Run, intent, history, bounds
    <2>4. CASE /\ list' = "yes"
               /\ conv' = [conv EXCEPT ![r].pc = "compare", ![r].parser = parser,
                                       ![r].toggled = list = "no"]
      <3>1. conv' \in [Runner -> Run] /\ conv'[r].pc = "compare"
            /\ \A o \in Runner \ {r} : conv'[o] = conv[o]
        BY <2>4, <1>0 DEF TypeOK, Run, Active
      <3> QED  BY <2>1, <2>4, <3>1, <1>0 DEF TypeOK, Named, Run, intent, history, bounds
    <2> QED  BY <1>1, <2>2, <2>3, <2>4 DEF Begins
  <1>2. ASSUME NEW r \in Runner, Compares(r) PROVE TypeOK' /\ Named'
    <2>1. /\ UNCHANGED <<intent, etc, parser, daemon, pushing, missed, crossed, bounds>>
          /\ source # None /\ unseen' \in BOOLEAN
      BY <1>2, <1>0 DEF Compares, TypeOK
    <2>2. CASE Ends(r, "done")
      <3>1. conv' \in [Runner -> Run] /\ conv'[r].pc = "done"
            /\ \A o \in Runner \ {r} : conv'[o] = conv[o]
        BY <2>2, <1>0, EndsType
      <3> QED  BY <2>1, <3>1, <1>0 DEF TypeOK, Named, Run, intent, etc, bounds
    <2>3. CASE conv' = [conv EXCEPT ![r].pc = "check", ![r].conf = source]
      <3>1. conv' \in [Runner -> Run] /\ conv'[r].conf \in Conf
            /\ \A o \in Runner \ {r} : conv'[o] = conv[o]
        BY <2>3, <2>1, <1>0 DEF TypeOK, Run, Active
      <3> QED  BY <2>1, <3>1, <1>0 DEF TypeOK, Named, Run, intent, etc, bounds
    <2> QED  BY <1>2, <2>2, <2>3 DEF Compares
  <1>3. ASSUME NEW r \in Runner, Checks(r) PROVE TypeOK' /\ Named'
    <2>1. conv' \in [Runner -> Run] /\ conv'[r].conf = conv[r].conf
          /\ \A o \in Runner \ {r} : conv'[o] = conv[o]
      BY <1>3, <1>0, GoesType DEF Checks, Active, TypeOK
    <2> QED  BY <1>3, <2>1, <1>0 DEF Checks, TypeOK, Named, Run, intent, etc, history, bounds
  <1>4. ASSUME NEW r \in Runner, Installs(r) PROVE TypeOK' /\ Named'
    <2>1. conv' \in [Runner -> Run] /\ conv'[r].conf = conv[r].conf
          /\ \A o \in Runner \ {r} : conv'[o] = conv[o]
      BY <1>4, <1>0 DEF Installs, Active, TypeOK, Run
    <2>2. source \in Conf
      BY <1>4, <1>0 DEF Installs, TypeOK
    <2> QED  BY <1>4, <2>1, <2>2, <1>0 DEF Installs, TypeOK, Named, Run, Held, intent, history, bounds
  <1>5. ASSUME NEW r \in Runner, Refuses(r) PROVE TypeOK' /\ Named'
    <2>1. conv' \in [Runner -> Run] /\ conv'[r].pc = "failed"
          /\ \A o \in Runner \ {r} : conv'[o] = conv[o]
      BY <1>5, <1>0, EndsType DEF Refuses, Stops
    <2>2. missed' \in BOOLEAN
      BY <1>5 DEF Refuses, Stops
    <2> QED  BY <1>5, <2>1, <2>2, <1>0 DEF Refuses, TypeOK, Named, Run, intent, etc, bounds
  <1>6. ASSUME NEW r \in Runner, Restarts(r) PROVE TypeOK' /\ Named'
    <2>1. conv' \in [Runner -> Run] /\ conv'[r].conf = conv[r].conf
          /\ \A o \in Runner \ {r} : conv'[o] = conv[o]
      BY <1>6, <1>0, GoesType DEF Restarts, Active, TypeOK
    <2>2. daemon' \in [conf : Held, bgp : BOOLEAN] /\ missed' \in BOOLEAN /\ unseen' \in BOOLEAN
      BY <1>6, <1>0, LoadedType DEF Restarts
    <2> QED  BY <1>6, <2>1, <2>2, <1>0 DEF Restarts, TypeOK, Named, Run, intent, etc, bounds
  <1>7. ASSUME NEW r \in Runner, Stamps(r) PROVE TypeOK' /\ Named'
    <2>1. conv' \in [Runner -> Run] /\ conv'[r].pc = "done"
          /\ \A o \in Runner \ {r} : conv'[o] = conv[o]
      BY <1>7, <1>0, EndsType DEF Stamps
    <2>2. stamp' \in Mark /\ crossed' \in BOOLEAN
      BY <1>7, <1>0 DEF Stamps, Want, Mark, TypeOK, Named
    <2> QED  BY <1>7, <2>1, <2>2, <1>0 DEF Stamps, TypeOK, Named, Run, intent, bounds
  <1>8. ASSUME NEW r \in Runner, Cut(r) PROVE TypeOK' /\ Named'
    <2>1. conv' \in [Runner -> Run] /\ conv'[r].pc = "failed"
          /\ \A o \in Runner \ {r} : conv'[o] = conv[o]
      BY <1>8, <1>0, EndsType DEF Cut, Stops
    <2>2. missed' \in BOOLEAN /\ daemon' \in {daemon, Down, Loaded}
      BY <1>8 DEF Cut, Stops
    <2>3. commits' \in Nat /\ updates' \in Nat /\ faults' \in Nat
      BY <1>8, <1>0 DEF Cut, Fault, TypeOK
    <2> QED  BY <1>8, <2>1, <2>2, <2>3, <1>0, LoadedType DEF Cut, TypeOK, Named, Run, intent, etc
  <1>9. ASSUME NEW c \in Conf \cup {None}, Commit(c) PROVE TypeOK' /\ Named'
    BY <1>9, <1>0 DEF Commit, TypeOK, Named, etc, history
  <1>10. CASE Push
    <2>1. conv' \in [Runner -> Run]
      BY <1>10, <1>0, CrossingType, Records DEF Push
    <2>2. conv'["push"].pc = "begin"
      BY <1>10, <1>0, CrossingType, Records DEF Push
    <2>3. conv'["unit"] \in {Idle, Crossing(conv)["unit"]}
      BY <1>10, <1>0, CrossingType DEF Push
    <2>4. Named'
      BY <2>2, <2>3, <1>0, CrossingType, Records DEF Named
    <2> QED  BY <1>10, <2>1, <2>4, <1>0 DEF Push, TypeOK, Run, etc, history, bounds
  <1>11. CASE Pushed
    <2>1. recorded' \in Conf \cup {None} /\ unseen' \in BOOLEAN
      BY <1>11, <1>0 DEF Pushed, TypeOK
    <2> QED  BY <1>11, <2>1, <1>0 DEF Pushed, TypeOK, Named, etc, bounds
  <1>12. CASE PushLost
    <2>1. commits' \in Nat /\ updates' \in Nat /\ faults' \in Nat
      BY <1>12, <1>0 DEF PushLost, Fault, TypeOK
    <2> QED  BY <1>12, <2>1, <1>0 DEF PushLost, TypeOK, Named, intent, etc
  <1>13. CASE StartUnit
    <2>1. conv' \in [Runner -> Run] /\ conv'["unit"].pc = "begin" /\ conv'["push"] = conv["push"]
      BY <1>13, <1>0, Records DEF StartUnit, TypeOK, Run
    <2>2. daemon' \in {daemon, Loaded} /\ missed' \in BOOLEAN
      BY <1>13, <1>0 DEF StartUnit, TypeOK
    <2> QED  BY <1>13, <2>1, <2>2, <1>0, LoadedType DEF StartUnit, TypeOK, Named, Run, intent, etc, bounds
  <1>14. ASSUME Boots, live' \in Held, list' \in {"no", "yes", "odd"},
                stamp' \in Mark \cup {NoStamp}, parser' \in Parser,
                commits' \in Nat, updates' \in Nat, faults' \in Nat
         PROVE  TypeOK' /\ Named'
    <2>1. \A r \in Runner : conv'[r] \in {Start, Idle}
      BY <1>14 DEF Boots
    <2>2. conv' \in [Runner -> Run]
      BY <1>14, Records DEF Boots
    <2>3. Named'
      BY <2>1, Records DEF Named
    <2>4. daemon' \in [conf : Held, bgp : BOOLEAN] \cup {Down}
      BY <1>14 DEF Boots
    <2> QED  BY <1>14, <2>2, <2>3, <2>4, <1>0 DEF Boots, TypeOK, Run, intent
  <1>15. CASE PowerLost
    BY <1>15, <1>14, <1>0 DEF PowerLost, Fault, TypeOK, etc
  <1>16. ASSUME NEW p \in Parser, Firmware(p) PROVE TypeOK' /\ Named'
    BY <1>16, <1>14, <1>0 DEF Firmware, Update, TypeOK, Held
  <1>17. ASSUME NEW p \in Parser, Replace(p) PROVE TypeOK' /\ Named'
    <2>1. conv' \in [Runner -> Run]
      BY <1>17, <1>0, CrossingType DEF Replace
    <2>2. Named'
      BY <1>17, <1>0, CrossingType DEF Replace, Named
    <2>3. commits' \in Nat /\ updates' \in Nat /\ faults' \in Nat
      BY <1>17, <1>0 DEF Replace, Update, TypeOK
    <2> QED  BY <1>17, <2>1, <2>2, <2>3, <1>0 DEF Replace, TypeOK, Run, intent, etc, history
  <1>18. CASE WriteOut
    <2>1. daemon' \in [conf : Held, bgp : BOOLEAN]
      BY <1>18, <1>0 DEF WriteOut, TypeOK, Held
    <2>2. commits' \in Nat /\ updates' \in Nat /\ faults' \in Nat
      BY <1>18, <1>0 DEF WriteOut, Update, TypeOK
    <2> QED  BY <1>18, <2>1, <2>2, <1>0 DEF WriteOut, TypeOK, Named, Held, intent
  <1>19. CASE Dies
    <2>1. commits' \in Nat /\ updates' \in Nat /\ faults' \in Nat
      BY <1>19, <1>0 DEF Dies, Fault, TypeOK
    <2> QED  BY <1>19, <2>1, <1>0 DEF Dies, TypeOK, Named, intent, etc, history
  <1>20. CASE UNCHANGED vars
    BY <1>20, <1>0 DEF TypeOK, Named, vars, intent, etc, history, bounds
  <1> QED
    BY <1>1, <1>2, <1>3, <1>4, <1>5, <1>6, <1>7, <1>8, <1>9, <1>10, <1>11, <1>12,
       <1>13, <1>15, <1>16, <1>17, <1>18, <1>19, <1>20 DEF Next, Step, Deploy

-----------------------------------------------------------------------------
(* No restart is owed and the daemon is elsewhere: never.                  *)

LEMMA InitFresh == Init => Fresh /\ Vetted
  <1> SUFFICES ASSUME Init PROVE Fresh /\ Vetted
    OBVIOUS
  <1>1. \A r \in Runner : conv[r].pc \in {"idle", "done"}
    BY DEF Init, Idle, Start
  <1>2. Fresh
    BY <1>1 DEF Init, Fresh, Standing, Loaded
  <1>3. stamp # NoStamp => <<stamp.conf, stamp.parser>> \notin Rejects
    <2>1. ASSUME NEW c \in Conf, <<c, Shipped>> \notin Rejects,
                 stamp = [conf |-> c, parser |-> Shipped]
          PROVE  <<stamp.conf, stamp.parser>> \notin Rejects
      BY <2>1
    <2> QED  BY <2>1, Beginnings
  <1> QED  BY <1>1, <1>2, <1>3 DEF Vetted, Vets

\* A step that leaves /etc and the daemon alone, and in which no run that owes
\* a restart ends without a trace, keeps `Fresh`.
LEMMA FreshKept ==
  ASSUME Fresh, UNCHANGED <<live, list, daemon>>,
         missed => missed',
         Standing' => Standing,
         \A r \in Runner : Wrote(r) => Wrote(r)' \/ missed' \/ ~Standing'
  PROVE  Fresh'
BY DEF Fresh, Loaded

LEMMA FreshStep == IInv /\ [Next]_vars => Fresh'
  <1> SUFFICES ASSUME IInv, [Next]_vars PROVE Fresh'
    OBVIOUS
  <1>0. TypeOK /\ Named /\ Fresh
    BY DEF IInv
  <1> USE DEF Runner
  <1>1. ASSUME NEW r \in Runner, Begins(r) PROVE Fresh'
    <2>1. /\ conv[r].pc = "begin" /\ ~Wrote(r)
          /\ UNCHANGED <<live, stamp, daemon, missed>>
      BY <1>1 DEF Begins, history, Wrote
    <2>2. ASSUME NEW pc \in {"done", "failed"}, Ends(r, pc), UNCHANGED list
          PROVE  Fresh'
      <3>1. conv'[r].pc = pc /\ \A o \in Runner \ {r} : conv'[o] = conv[o]
        BY <2>2, <1>0, EndsType
      <3> QED  BY <2>1, <2>2, <3>1, <1>0, FreshKept DEF Wrote, Standing
    <2>3. CASE /\ list # "odd" /\ list' = "yes"
               /\ conv' = [conv EXCEPT ![r].pc = "compare", ![r].parser = parser,
                                       ![r].toggled = list = "no"]
      <3>1. /\ conv'[r].pc = "compare" /\ conv'[r].toggled = (list = "no")
            /\ \A o \in Runner \ {r} : conv'[o] = conv[o]
        BY <2>3, <1>0 DEF TypeOK
      <3>2. CASE list = "no"
        BY <3>1, <3>2 DEF Wrote, Fresh
      <3>3. CASE list = "yes"
        BY <2>1, <2>3, <3>1, <3>3, <1>0, FreshKept DEF Wrote, Standing
      <3> QED  BY <2>3, <3>2, <3>3, <1>0 DEF TypeOK
    <2> QED  BY <1>1, <2>2, <2>3 DEF Begins
  <1>2. ASSUME NEW r \in Runner, Compares(r) PROVE Fresh'
    <2>1. conv[r].pc = "compare" /\ UNCHANGED <<etc, daemon, missed>>
      BY <1>2 DEF Compares
    <2>2. CASE Done(r) /\ Ends(r, "done")
      <3>1. conv'[r].pc = "done" /\ \A o \in Runner \ {r} : conv'[o] = conv[o]
        BY <2>2, <1>0, EndsType
      <3>2. ~Wrote(r)
        BY <2>1, <2>2 DEF Done, Wrote
      <3> QED  BY <2>1, <3>1, <3>2, <1>0, FreshKept DEF Wrote, Standing, etc
    <2>3. CASE conv' = [conv EXCEPT ![r].pc = "check", ![r].conf = source]
      <3>1. /\ conv'[r].pc = "check" /\ conv'[r].toggled = conv[r].toggled
            /\ \A o \in Runner \ {r} : conv'[o] = conv[o]
        BY <2>3, <1>0 DEF TypeOK
      <3> QED  BY <2>1, <3>1, <1>0, FreshKept DEF Wrote, Standing, etc
    <2> QED  BY <1>2, <2>2, <2>3 DEF Compares
  <1>3. ASSUME NEW r \in Runner, Checks(r) PROVE Fresh'
    <2>1. conv[r].pc = "check" /\ UNCHANGED <<etc, daemon, missed>>
      BY <1>3 DEF Checks, history
    <2>2. /\ conv'[r].pc = "install" /\ conv'[r].toggled = conv[r].toggled
          /\ \A o \in Runner \ {r} : conv'[o] = conv[o]
      BY <1>3, <1>0 DEF Checks, Goes, TypeOK
    <2> QED  BY <2>1, <2>2, <1>0, FreshKept DEF Wrote, Standing, etc
  <1>4. ASSUME NEW r \in Runner, Installs(r) PROVE Fresh'
    <2>1. conv'[r].pc = "restart"
      BY <1>4, <1>0 DEF Installs, TypeOK
    <2> QED  BY <2>1 DEF Fresh, Wrote
  \* A run that ends without its restart: the stamp that stands is recorded.
  <1>5. ASSUME NEW r \in Runner, conv[r].pc # "stamp" \/ ~Wrote(r), Stops(r),
               UNCHANGED <<live, list, stamp>>,
               daemon' = daemon \/ conv[r].pc = "restart"
        PROVE  Fresh'
    <2>1. conv'[r].pc = "failed" /\ \A o \in Runner \ {r} : conv'[o] = conv[o]
      BY <1>5, <1>0, EndsType DEF Stops
    <2>2. \A o \in Runner \ {r} : Wrote(o)' = Wrote(o)
      BY <2>1 DEF Wrote
    <2>3. ~Wrote(r)'
      BY <2>1 DEF Wrote
    <2>4. Standing' => Vouched(r) /\ Standing
      BY <1>5, <2>1 DEF Standing, Vouched
    <2>5. CASE Wrote(r)
      BY <1>5, <2>4, <2>5 DEF Stops, Fresh
    <2>6. CASE ~Wrote(r)
      <3>1. UNCHANGED <<live, list, daemon>>
        BY <1>5, <2>6 DEF Wrote
      <3>2. missed => missed'
        BY <1>5 DEF Stops
      <3> QED  BY <2>2, <2>4, <2>6, <3>1, <3>2, <1>0, FreshKept
    <2> QED  BY <2>5, <2>6
  <1>6. ASSUME NEW r \in Runner, Refuses(r) PROVE Fresh'
    BY <1>6, <1>5 DEF Refuses, etc
  <1>7. ASSUME NEW r \in Runner, Restarts(r) PROVE Fresh'
    <2>1. daemon' = Loaded /\ UNCHANGED <<live, list>>
      BY <1>7 DEF Restarts, etc
    <2> QED  BY <2>1 DEF Fresh, Loaded
  <1>8. ASSUME NEW r \in Runner, Stamps(r) PROVE Fresh'
    <2>1. conv[r].pc = "stamp" /\ UNCHANGED <<live, list, daemon, missed>>
      BY <1>8 DEF Stamps
    <2>2. conv'[r].pc = "done" /\ \A o \in Runner \ {r} : conv'[o] = conv[o]
      BY <1>8, <1>0, EndsType DEF Stamps
    <2>3. Standing /\ ~Wrote(r)
      BY <2>1 DEF Standing, Wrote
    <2> QED  BY <2>1, <2>2, <2>3, <1>0, FreshKept DEF Wrote
  <1>9. ASSUME NEW r \in Runner, Cut(r) PROVE Fresh'
    <2>1. conv[r].pc # "stamp" \/ ~Wrote(r)
      BY DEF Wrote
    <2> QED  BY <1>9, <1>5, <2>1 DEF Cut, etc
  <1>10. ASSUME NEW c \in Conf \cup {None}, Commit(c) PROVE Fresh'
    BY <1>10, <1>0 DEF Commit, Fresh, Loaded, Standing, Wrote, etc, history
  <1>11. CASE Push
    <2>1. UNCHANGED <<live, list, stamp, daemon, missed>>
      BY <1>11 DEF Push, etc, history
    <2>2. ~Wrote("push") /\ conv'["push"].pc = "begin"
      BY <1>11, <1>0, CrossingType, Records DEF Push, Free, Active, Wrote
    <2>3. \/ /\ conv'["unit"].pc = conv["unit"].pc
             /\ conv'["unit"].toggled = conv["unit"].toggled
          \/ ~Wrote("unit") /\ conv'["unit"].pc = "idle"
      <3>1. CASE declared = None
        BY <1>11, <1>0, <3>1, CrossingType, Records DEF Push, Free, Active, Wrote
      <3>2. CASE declared # None
        BY <1>11, <1>0, <3>2, CrossingType DEF Push
      <3> QED  BY <3>1, <3>2
    <2> QED  BY <2>1, <2>2, <2>3, <1>0, FreshKept DEF Wrote, Standing
  <1>12. CASE Pushed
    BY <1>12, <1>0 DEF Pushed, Fresh, Loaded, Standing, Wrote, etc
  <1>13. CASE PushLost
    BY <1>13, <1>0 DEF PushLost, Fresh, Loaded, Standing, Wrote, etc
  <1>14. CASE StartUnit
    <2>1. UNCHANGED <<live, list, stamp>>
      BY <1>14 DEF StartUnit, etc
    <2>2. CASE daemon = Down
      BY <1>14, <2>1, <2>2 DEF StartUnit, Fresh, Loaded
    <2>3. CASE daemon # Down
      <3>1. UNCHANGED <<daemon, missed>>
        BY <1>14, <1>0, <2>3 DEF StartUnit, TypeOK
      <3>2. ~Wrote("unit") /\ conv'["unit"].pc = "begin" /\ conv'["push"] = conv["push"]
        BY <1>14, <1>0, Records DEF StartUnit, TypeOK, Free, Active, Wrote
      <3> QED  BY <2>1, <3>1, <3>2, <1>0, FreshKept DEF Wrote, Standing
    <2> QED  BY <2>2, <2>3
  <1>15. ASSUME Boots PROVE Fresh'
    <2>1. daemon' \in {Down, [conf |-> live', bgp |-> list' = "yes"]}
      BY <1>15 DEF Boots
    <2> QED  BY <2>1 DEF Fresh, Loaded
  <1>16. CASE PowerLost
    BY <1>16, <1>15 DEF PowerLost
  <1>17. ASSUME NEW p \in Parser, Firmware(p) PROVE Fresh'
    BY <1>17, <1>15 DEF Firmware
  <1>18. ASSUME NEW p \in Parser, Replace(p) PROVE Fresh'
    <2>1. \A r \in Runner : conv'[r].pc = conv[r].pc /\ conv'[r].toggled = conv[r].toggled
      BY <1>18, <1>0, CrossingType DEF Replace
    <2> QED  BY <1>18, <2>1, <1>0, FreshKept DEF Replace, Wrote, Standing, etc, history
  <1>19. CASE WriteOut
    <2>1. /\ daemon # Down /\ live' = ByHand /\ daemon' = [daemon EXCEPT !.conf = ByHand]
          /\ UNCHANGED <<list, stamp, conv, missed>>
      BY <1>19 DEF WriteOut
    <2>2. daemon = Loaded => daemon' = [conf |-> ByHand, bgp |-> list = "yes"]
      BY <2>1 DEF Loaded
    <2> QED  BY <2>1, <2>2, <1>0 DEF Fresh, Loaded, Standing, Wrote
  <1>20. CASE Dies
    <2>1. daemon' = Down
      BY <1>20 DEF Dies
    <2> QED  BY <2>1 DEF Fresh
  <1>21. CASE UNCHANGED vars
    BY <1>21, <1>0 DEF Fresh, Loaded, Standing, Wrote, vars, intent, etc, history
  <1> QED
    BY <1>1, <1>2, <1>3, <1>4, <1>6, <1>7, <1>8, <1>9, <1>10, <1>11, <1>12, <1>13,
       <1>14, <1>16, <1>17, <1>18, <1>19, <1>20, <1>21 DEF Next, Step, Deploy

-----------------------------------------------------------------------------
(* A stamp names a source and the parser that accepted it.                 *)

\* A step that leaves the source, the parser and the stamp alone, and one run's
\* own progress, keeps `Vetted`.
LEMMA VettedKept ==
  ASSUME Vetted, NEW r \in Runner,
         UNCHANGED <<source, parser, stamp, crossed>>,
         \A o \in Runner \ {r} : conv'[o] = conv[o],
         Vets(r)'
  PROVE  Vetted'
BY DEF Vetted, Vets

\* A run that is marked has no claim to keep, and one past its check keeps it.
LEMMA CrossingVets ==
  ASSUME TypeOK, Vetted, NEW r \in Runner, conv'[r] = Crossing(conv)[r]
  PROVE  Vets(r)'
  <1>1. CASE conv[r].pc \in {"compare", "check", "install"}
    <2>1. conv'[r].crossed # FALSE
      BY <1>1, CrossingType
    <2> QED  BY <2>1 DEF Vets
  <1>2. CASE conv[r].pc \notin {"compare", "check", "install"}
    <2>1. /\ conv'[r].pc = conv[r].pc /\ conv'[r].conf = conv[r].conf
          /\ conv'[r].parser = conv[r].parser
      BY CrossingType
    <2>2. conv'[r].crossed = FALSE => conv[r].crossed = FALSE
      <3>1. conv[r].crossed \in BOOLEAN
        BY DEF TypeOK
      <3> QED  BY <3>1, <1>2, CrossingType
    <2> QED  BY <1>2, <2>1, <2>2 DEF Vets, Vetted
  <1> QED  BY <1>1, <1>2

LEMMA VettedStep == IInv /\ [Next]_vars => Vetted'
  <1> SUFFICES ASSUME IInv, [Next]_vars PROVE Vetted'
    OBVIOUS
  <1>0. TypeOK /\ Named /\ Vetted
    BY DEF IInv
  <1> USE DEF Runner
  <1>1. ASSUME NEW r \in Runner, NEW pc \in {"idle", "done", "failed"}, Ends(r, pc),
               UNCHANGED <<source, parser, stamp, crossed>>
        PROVE  Vetted'
    <2>1. conv'[r].pc = pc /\ \A o \in Runner \ {r} : conv'[o] = conv[o]
      BY <1>1, <1>0, EndsType
    <2>2. Vets(r)'
      BY <2>1 DEF Vets
    <2> QED  BY <1>1, <2>1, <2>2, <1>0, VettedKept
  <1>2. ASSUME NEW r \in Runner, Begins(r) PROVE Vetted'
    <2>1. UNCHANGED <<source, parser, stamp, crossed>>
      BY <1>2 DEF Begins, intent, history
    <2>2. CASE conv' = [conv EXCEPT ![r].pc = "compare", ![r].parser = parser,
                                    ![r].toggled = list = "no"]
      <3>1. /\ conv'[r].pc = "compare" /\ conv'[r].parser = parser
            /\ \A o \in Runner \ {r} : conv'[o] = conv[o]
        BY <2>2, <1>0 DEF TypeOK
      <3>2. Vets(r)'
        BY <2>1, <3>1 DEF Vets
      <3> QED  BY <2>1, <3>1, <3>2, <1>0, VettedKept
    <2> QED  BY <1>2, <1>1, <2>1, <2>2 DEF Begins
  <1>3. ASSUME NEW r \in Runner, Compares(r) PROVE Vetted'
    <2>1. conv[r].pc = "compare" /\ UNCHANGED <<source, parser, stamp, crossed>>
      BY <1>3 DEF Compares, intent, etc
    <2>2. CASE conv' = [conv EXCEPT ![r].pc = "check", ![r].conf = source]
      <3>1. /\ conv'[r].pc = "check" /\ conv'[r].conf = source
            /\ conv'[r].parser = conv[r].parser /\ conv'[r].crossed = conv[r].crossed
            /\ \A o \in Runner \ {r} : conv'[o] = conv[o]
        BY <2>2, <1>0 DEF TypeOK
      <3>2. Vets(r)'
        BY <2>1, <3>1, <1>0 DEF Vets, Vetted
      <3> QED  BY <2>1, <3>1, <3>2, <1>0, VettedKept
    <2> QED  BY <1>3, <1>1, <2>1, <2>2 DEF Compares
  <1>4. ASSUME NEW r \in Runner, Checks(r) PROVE Vetted'
    <2>1. /\ conv[r].pc = "check" /\ <<source, parser>> \notin Rejects
          /\ UNCHANGED <<source, parser, stamp, crossed>>
      BY <1>4 DEF Checks, intent, etc, history
    <2>2. conv'[r] = [conv[r] EXCEPT !.pc = "install"]
          /\ \A o \in Runner \ {r} : conv'[o] = conv[o]
      BY <1>4, <1>0, GoesType DEF Checks, Active
    <2>3. /\ conv'[r].pc = "install" /\ conv'[r].conf = conv[r].conf
          /\ conv'[r].parser = conv[r].parser /\ conv'[r].crossed = conv[r].crossed
      BY <2>2, <1>0 DEF TypeOK
    <2>4. Vets(r)'
      BY <2>1, <2>3, <1>0 DEF Vets, Vetted
    <2> QED  BY <2>1, <2>2, <2>4, <1>0, VettedKept
  <1>5. ASSUME NEW r \in Runner, Installs(r) PROVE Vetted'
    <2>1. conv[r].pc = "install" /\ UNCHANGED <<source, parser, stamp, crossed>>
      BY <1>5 DEF Installs, intent, history
    <2>2. /\ conv'[r].pc = "restart" /\ conv'[r].conf = conv[r].conf
          /\ conv'[r].parser = conv[r].parser /\ conv'[r].crossed = conv[r].crossed
          /\ \A o \in Runner \ {r} : conv'[o] = conv[o]
      BY <1>5, <1>0 DEF Installs, TypeOK
    <2>3. Vets(r)'
      BY <2>1, <2>2, <1>0 DEF Vets, Vetted
    <2> QED  BY <2>1, <2>2, <2>3, <1>0, VettedKept
  <1>6. ASSUME NEW r \in Runner, Refuses(r) PROVE Vetted'
    BY <1>6, <1>1 DEF Refuses, Stops, intent, etc
  <1>7. ASSUME NEW r \in Runner, Restarts(r) PROVE Vetted'
    <2>1. conv[r].pc = "restart" /\ UNCHANGED <<source, parser, stamp, crossed>>
      BY <1>7 DEF Restarts, intent, etc
    <2>2. conv'[r] = [conv[r] EXCEPT !.pc = "stamp"]
          /\ \A o \in Runner \ {r} : conv'[o] = conv[o]
      BY <1>7, <1>0, GoesType DEF Restarts, Active
    <2>3. /\ conv'[r].pc = "stamp" /\ conv'[r].conf = conv[r].conf
          /\ conv'[r].parser = conv[r].parser /\ conv'[r].crossed = conv[r].crossed
      BY <2>2, <1>0 DEF TypeOK
    <2>4. Vets(r)'
      BY <2>1, <2>3, <1>0 DEF Vets, Vetted
    <2> QED  BY <2>1, <2>2, <2>4, <1>0, VettedKept
  <1>8. ASSUME NEW r \in Runner, Stamps(r) PROVE Vetted'
    <2>1. /\ conv[r].pc = "stamp" /\ stamp' = Want(r) /\ crossed' = conv[r].crossed
          /\ UNCHANGED <<source, parser>>
      BY <1>8 DEF Stamps, intent
    <2>2. conv'[r].pc = "done" /\ \A o \in Runner \ {r} : conv'[o] = conv[o]
      BY <1>8, <1>0, EndsType DEF Stamps
    <2>3. \A o \in Runner : Vets(o)'
      BY <2>1, <2>2, <1>0 DEF Vets, Vetted
    <2>4. ~crossed' => <<stamp'.conf, stamp'.parser>> \notin Rejects
      <3>1. stamp'.conf = conv[r].conf /\ stamp'.parser = conv[r].parser
        BY <2>1 DEF Want
      <3>2. conv[r].crossed = FALSE => <<conv[r].conf, conv[r].parser>> \notin Rejects
        BY <2>1, <1>0 DEF Vets, Vetted
      <3>3. conv[r].crossed \in BOOLEAN
        BY <1>0 DEF TypeOK
      <3> QED  BY <2>1, <3>1, <3>2, <3>3
    <2> QED  BY <2>3, <2>4 DEF Vetted
  <1>9. ASSUME NEW r \in Runner, Cut(r) PROVE Vetted'
    BY <1>9, <1>1 DEF Cut, Stops, intent, etc
  <1>10. ASSUME UNCHANGED <<source, parser, stamp, crossed, conv>> PROVE Vetted'
    BY <1>10, <1>0 DEF Vetted, Vets
  <1>11. ASSUME NEW c \in Conf \cup {None}, Commit(c) PROVE Vetted'
    BY <1>11, <1>10 DEF Commit, etc, history
  \* The source is replaced under runs that are marked for it.
  <1>12. CASE Push
    <2>1. UNCHANGED <<parser, stamp, crossed>>
      BY <1>12 DEF Push, etc, history
    <2>2. conv'["push"] = Start
      BY <1>12, <1>0, CrossingType DEF Push
    <2>3. conv'["unit"] \in {Idle, Crossing(conv)["unit"]}
      BY <1>12, <1>0, CrossingType DEF Push
    <2>4. Vets("push")'
      BY <2>2, Records DEF Vets
    <2>5. CASE conv'["unit"] = Idle
      <3>1. Vets("unit")'
        BY <2>5, Records DEF Vets
      <3> QED  BY <2>1, <2>4, <3>1, <1>0 DEF Vetted
    <2>6. CASE conv'["unit"] = Crossing(conv)["unit"]
      <3>1. Vets("unit")'
        BY <2>6, <1>0, CrossingVets
      <3> QED  BY <2>1, <2>4, <3>1, <1>0 DEF Vetted
    <2> QED  BY <2>3, <2>5, <2>6
  <1>13. CASE Pushed
    BY <1>13, <1>10 DEF Pushed, etc
  <1>14. CASE PushLost
    BY <1>14, <1>10 DEF PushLost, intent, etc
  <1>15. CASE StartUnit
    <2>1. UNCHANGED <<source, parser, stamp, crossed>>
      BY <1>15 DEF StartUnit, intent, etc
    <2>2. conv'["unit"].pc = "begin" /\ conv'["push"] = conv["push"]
      BY <1>15, <1>0, Records DEF StartUnit, TypeOK
    <2>3. Vets("unit")'
      BY <2>2 DEF Vets
    <2> QED  BY <2>1, <2>2, <2>3, <1>0, VettedKept
  <1>16. ASSUME Boots, stamp' \in {stamp, NoStamp} PROVE Vetted'
    <2>1. \A r \in Runner : conv'[r].pc \in {"begin", "idle"}
      BY <1>16, Records DEF Boots
    <2>2. \A r \in Runner : Vets(r)'
      BY <2>1 DEF Vets
    <2>3. crossed' = crossed
      BY <1>16 DEF Boots
    <2> QED  BY <1>16, <2>2, <2>3, <1>0 DEF Vetted
  <1>17. CASE PowerLost
    BY <1>17, <1>16 DEF PowerLost, etc
  <1>18. ASSUME NEW p \in Parser, Firmware(p) PROVE Vetted'
    BY <1>18, <1>16 DEF Firmware
  <1>19. ASSUME NEW p \in Parser, Replace(p) PROVE Vetted'
    <2>1. conv' = Crossing(conv) /\ UNCHANGED <<source, stamp, crossed>>
      BY <1>19 DEF Replace, intent, etc, history
    <2>2. ASSUME NEW r \in Runner PROVE Vets(r)'
      BY <2>1, <1>0, CrossingVets
    <2> QED  BY <2>1, <2>2, <1>0 DEF Vetted
  <1>20. CASE WriteOut
    BY <1>20, <1>10 DEF WriteOut, intent
  <1>21. CASE Dies
    BY <1>21, <1>10 DEF Dies, intent, etc, history
  <1>22. CASE UNCHANGED vars
    BY <1>22, <1>10 DEF vars, intent, etc, history
  <1> QED
    BY <1>2, <1>3, <1>4, <1>5, <1>6, <1>7, <1>8, <1>9, <1>11, <1>12, <1>13, <1>14,
       <1>15, <1>17, <1>18, <1>19, <1>20, <1>21, <1>22 DEF Next, Step, Deploy

-----------------------------------------------------------------------------
(* The theorems.                                                           *)

\* The strengthening holds from the beginning and every step keeps it.
THEOREM Invariance == Spec => []IInv
  <1>1. Init => IInv
    BY InitTypes, InitFresh DEF IInv
  <1>2. IInv /\ [Next]_vars => IInv'
    BY TypeStep, FreshStep, VettedStep DEF IInv
  <1> QED  BY <1>1, <1>2, PTL DEF Spec

\* Every variable of the routing daemon's model stays in its set.
THEOREM TypeCorrect == Spec => []TypeOK
  <1>1. IInv => TypeOK
    BY DEF IInv
  <1> QED  BY <1>1, Invariance, PTL

\* Where `frr-config.sh` would find nothing to do, a running daemon was started
\* on the declared configuration with the protocol on, and the present parser
\* accepts it, but for the two exemptions `QuietIsRunning` names.
THEOREM SkipsNothing == Spec => []QuietIsRunning
  <1>1. IInv => QuietIsRunning
    <2> SUFFICES ASSUME IInv, WouldSkip, \A r \in Runner : Free(r), ~missed, ~crossed
                 PROVE  (daemon = Down \/ Holds) /\ <<source, parser>> \notin Rejects
      BY DEF QuietIsRunning
    <2>1. \A r \in Runner : ~Wrote(r)
      BY DEF Free, Wrote, Active
    <2>2. stamp # NoStamp
      BY MarkAssumption DEF IInv, TypeOK, WouldSkip
    <2>3. daemon \in {Down, Loaded}
      BY <2>1, <2>2 DEF IInv, Fresh, Standing
    <2>4. Loaded = [conf |-> source, bgp |-> TRUE]
      BY DEF Loaded, WouldSkip
    <2>5. <<stamp.conf, stamp.parser>> \notin Rejects
      BY <2>2 DEF IInv, Vetted
    <2>6. stamp.conf = source /\ stamp.parser = parser
      BY DEF WouldSkip
    <2> QED  BY <2>3, <2>4, <2>5, <2>6 DEF Holds
  <1> QED  BY <1>1, Invariance, PTL
=============================================================================
