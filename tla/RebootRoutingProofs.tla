-------------------------- MODULE RebootRoutingProofs --------------------------
(***************************************************************************)
(* Where a maintenance run sends each pending reboot, for every inventory, *)
(* any number of runs, retries and upgrades.                               *)
(***************************************************************************)
EXTENDS RebootRouting, TLAPS

(* The hosts that are still ahead.                                         *)
Left == {todo[i] : i \in 1..Len(todo)}

(* What the lookup said, if anything, is where the run executes or nothing.*)
Located ==
    /\ pc = "idle" => asked = NotAsked /\ runner = Nobody
    /\ asked.ok => asked.node \in {runner, Nobody}
    /\ pc \in {"lookup", "act", "clear"} => todo # << >>

(* Only hosts that come back with everything on them have a timer, as far  *)
(* as their marks are those it was armed on.                               *)
TimersSafe ==
    \A h \in timer \ remarked : h \in safe /\ ~HostRunsEtcdServer(h) /\ HostVmsAutostart(h)

(* A host once found to need a reboot needs it still, and is armed,        *)
(* published, or ahead of this run; a host at its last task is one of the  *)
(* first two for good.                                                     *)
Followed ==
    /\ seen \subseteq needs
    /\ pc \in {"lookup", "act"} => required
    /\ outcome = "ok" => todo = << >>
    /\ pc # "idle" \/ outcome = "ok" => seen \subseteq timer \cup metric \cup Left
    /\ pc = "clear" /\ Target \in seen =>
           Target \in timer \/ (Target \in metric /\ required /\ RebootAction(Target) = "defer")

(* The inductive invariant.                                                *)
Inv == TypeOK /\ Located /\ TimersSafe /\ Followed

(* What the code knows of the inventory.                                   *)
LEMMA Inventory == Hosts \in Seq(HostSet) /\ Retries \in Nat /\ Nobody \notin Nodes /\ Nobody \notin Known
BY InventoryAssumption

LEMMA NoneLeft == << >> \in Seq(HostSet)
OBVIOUS

(* The answers of a lookup have their type.                                *)
LEMMA Answers ==
    /\ NotAsked \in [ok : BOOLEAN, node : Nodes \cup {Nobody}] /\ ~NotAsked.ok
    /\ \A n \in Nodes \cup {Nobody} : [ok |-> TRUE, node |-> n] \in [ok : BOOLEAN, node : Nodes \cup {Nobody}]
BY DEF NotAsked

(* Inv holds at the start.                                                 *)
LEMMA InvInit == ASSUME Init PROVE Inv
<1>1. todo \in Seq(HostSet) /\ asked \in [ok : BOOLEAN, node : Nodes \cup {Nobody}] /\ tries \in 0..Retries /\ ~asked.ok
  BY Inventory, NoneLeft, Answers DEF Init
<1>2. TypeOK
  BY <1>1, InventoryAssumption DEF Init, TypeOK
<1>3. Located /\ TimersSafe /\ Followed
  BY <1>1 DEF Init, Located, TimersSafe, Followed
<1>4. QED
  BY <1>2, <1>3 DEF Inv

(* The host at hand, and the others ahead.                                 *)
LEMMA TodoParts ==
    ASSUME TypeOK, todo # << >>
    PROVE  /\ Target \in HostSet /\ Tail(todo) \in Seq(HostSet)
           /\ Left \subseteq {Target} \cup {Tail(todo)[i] : i \in 1..Len(Tail(todo))}
<1>1. todo \in Seq(HostSet) /\ Len(todo) \in Nat \ {0}
  BY DEF TypeOK
<1>2. Target = todo[1] /\ Target \in HostSet /\ Tail(todo) \in Seq(HostSet) /\ Len(Tail(todo)) = Len(todo) - 1
  BY <1>1 DEF Target
<1>3. ASSUME NEW i \in 1..Len(todo), i # 1
      PROVE  i - 1 \in 1..Len(Tail(todo)) /\ Tail(todo)[i - 1] = todo[i]
  BY <1>1, <1>2, <1>3
<1>4. QED
  BY <1>1, <1>2, <1>3 DEF Left

(* The end of a run keeps the types.                                       *)
LEMMA EndRunTyped ==
    ASSUME TypeOK, NEW how \in {"ok", "failed"}, EndRun(how)
    PROVE  /\ pc' \in {"idle", "detect", "lookup", "act", "clear"} /\ outcome' \in {"none", "ok", "failed"}
           /\ todo' \in Seq(HostSet) /\ asked' \in [ok : BOOLEAN, node : Nodes \cup {Nobody}]
           /\ tries' \in 0..Retries /\ runner' \in Nodes \cup {Nobody} /\ runs' \in Nat
           /\ named' \in BOOLEAN /\ required' \in BOOLEAN
<1>1. pc' \in {"idle", "detect", "lookup", "act", "clear"} /\ outcome' \in {"none", "ok", "failed"}
  BY DEF EndRun
<1>2. todo' \in Seq(HostSet)
  BY NoneLeft DEF EndRun
<1>3. asked' \in [ok : BOOLEAN, node : Nodes \cup {Nobody}]
  BY Answers DEF EndRun
<1>4. tries' \in 0..Retries /\ runner' \in Nodes \cup {Nobody} /\ runs' \in Nat
  BY Inventory DEF EndRun, TypeOK
<1>5. named' \in BOOLEAN /\ required' \in BOOLEAN
  BY DEF EndRun
<1>6. QED
  BY <1>1, <1>2, <1>3, <1>4, <1>5

(* One part of the invariant after the other: types,                       *)
LEMMA TypeKeeps == ASSUME TypeOK, Located, [Next]_vars PROVE TypeOK'
<1> USE DEF TypeOK, Located, inventory, world, job, facts, Reboots
<1>1. CASE StartRun
  <2>1. runs' \in Nat /\ runner' \in Nodes \cup {Nobody} /\ todo' \in Seq(HostSet)
    BY <1>1, Inventory DEF StartRun
  <2>2. named' \in BOOLEAN
    BY <1>1 DEF StartRun
  <2>3. QED
    BY <1>1, <2>1, <2>2 DEF StartRun
<1>2. CASE RunEnds
  BY <1>2, EndRunTyped DEF RunEnds
<1>3. CASE Detect
  BY <1>3, TodoParts, Inventory, NoneLeft, Answers DEF Detect
<1>4. CASE RunFails
  BY <1>4, EndRunTyped DEF RunFails
<1>5. CASE LookupAnswers
  BY <1>5, Inventory, NoneLeft, Answers DEF LookupAnswers
<1>6. CASE LookupFails
  BY <1>6, Inventory, NoneLeft, Answers DEF LookupFails, RetriesLeft
<1>7. CASE Synchronous
  BY <1>7, Inventory, NoneLeft, Answers DEF Synchronous
<1>8. CASE SynchronousFails
  BY <1>8, EndRunTyped DEF SynchronousFails
<1>9. CASE Detached \/ DetachedFails
  <2>1. CASE Detached
    BY <2>1, TodoParts, Inventory, NoneLeft, Answers DEF Detached
  <2>2. CASE DetachedFails
    BY <2>2, TodoParts, EndRunTyped DEF DetachedFails
  <2>3. QED
    BY <1>9, <2>1, <2>2
<1>10. CASE Defer
  BY <1>10, TodoParts, Inventory, NoneLeft, Answers DEF Defer, Surface
<1>11. CASE ClearMetric \/ ClearMetricFails
  BY <1>11, TodoParts, Inventory, NoneLeft, Answers DEF ClearMetric, ClearMetricFails, NextHost
<1>12. CASE \E h \in HostSet : TimerFires(h)
  BY <1>12, EndRunTyped DEF TimerFires
<1>13. CASE \E h \in HostSet : OperatorReboots(h)
  BY <1>13, Inventory, NoneLeft, Answers DEF OperatorReboots
<1>14. CASE \E h \in HostSet : PackagesUpgraded(h)
  BY <1>14, Inventory, NoneLeft, Answers DEF PackagesUpgraded
<1>15. CASE MarkChanges
  <2>1. safe' \subseteq HostSet /\ autostart' \subseteq Nodes /\ marks' \in Nat
    BY <1>15, InventoryAssumption DEF MarkChanges, Toggle
  <2>2. remarked' \subseteq HostSet
    BY <1>15 DEF MarkChanges
  <2>3. QED
    BY <1>15, <2>1, <2>2 DEF MarkChanges
<1>16. CASE UNCHANGED vars
  BY <1>16, Inventory, NoneLeft, Answers DEF vars
<1>17. QED
  BY <1>1, <1>2, <1>3, <1>4, <1>5, <1>6, <1>7, <1>8, <1>9, <1>10, <1>11, <1>12, <1>13, <1>14, <1>15, <1>16 DEF Next, Step

(* where the run executes,                                                 *)
LEMMA LocatedKeeps == ASSUME TypeOK, Located, [Next]_vars PROVE Located'
<1> USE DEF Located, world, job, facts
<1>1. CASE Detect
  BY <1>1, Answers DEF Detect
<1>2. CASE LookupAnswers
  BY <1>2 DEF LookupAnswers
<1>3. CASE RunEnds \/ RunFails \/ SynchronousFails \/ DetachedFails \/ \E h \in HostSet : TimerFires(h)
  BY <1>3, Answers DEF RunEnds, RunFails, SynchronousFails, DetachedFails, TimerFires, EndRun
<1>4. CASE StartRun
  BY <1>4, Answers DEF StartRun
<1>5. CASE LookupFails \/ Synchronous \/ Detached \/ Defer \/ ClearMetric \/ ClearMetricFails
  BY <1>5 DEF LookupFails, Synchronous, Detached, Defer, ClearMetric, ClearMetricFails, NextHost
<1>6. CASE MarkChanges \/ \E h \in HostSet : OperatorReboots(h) \/ PackagesUpgraded(h)
  BY <1>6 DEF MarkChanges, OperatorReboots, PackagesUpgraded
<1>7. CASE UNCHANGED vars
  BY <1>7 DEF vars
<1>8. QED
  BY <1>1, <1>2, <1>3, <1>4, <1>5, <1>6, <1>7 DEF Next, Step

(* the timers,                                                             *)
LEMMA TimersKeep == ASSUME TypeOK, TimersSafe, [Next]_vars PROVE TimersSafe'
<1> USE DEF TimersSafe, inventory, world, HostRunsEtcdServer, HostVmsAutostart, OnHost
<1>1. CASE Detached \/ DetachedFails
  <2>1. RebootAction(Target) = "detached" /\ UNCHANGED <<safe, autostart>>
    BY <1>1 DEF Detached, DetachedFails
  <2>2. timer' \subseteq timer \cup {Target} /\ remarked' = remarked \ {Target}
    BY <1>1 DEF Detached, DetachedFails
  <2>3. Target \in safe /\ ~HostRunsEtcdServer(Target) /\ HostVmsAutostart(Target)
    BY <2>1 DEF RebootAction
  <2>4. QED
    BY <2>1, <2>2, <2>3
<1>2. CASE Synchronous \/ SynchronousFails \/ \E h \in HostSet : TimerFires(h) \/ OperatorReboots(h)
  <2>1. PICK h : Reboots(h) /\ UNCHANGED <<safe, autostart>>
    BY <1>2 DEF Synchronous, SynchronousFails, TimerFires, OperatorReboots
  <2>2. timer' = timer \ {h} /\ remarked' = remarked \ {h}
    BY <2>1 DEF Reboots
  <2>3. QED
    BY <2>1, <2>2
<1>3. CASE MarkChanges
  <2>1. timer' = timer
    BY <1>3 DEF MarkChanges
  <2>2. CASE \E h \in HostSet :
            safe' = Toggle(safe, h) /\ remarked' = remarked \cup ({h} \cap timer) /\ UNCHANGED autostart
    <3>1. PICK h \in HostSet :
            safe' = Toggle(safe, h) /\ remarked' = remarked \cup ({h} \cap timer) /\ UNCHANGED autostart
      BY <2>2
    <3>2. \A g \in timer \ remarked' : g \in timer \ remarked /\ g # h
      BY <3>1
    <3>3. \A g \in safe : g # h => g \in safe'
      BY <3>1 DEF Toggle
    <3>4. QED
      BY <2>1, <3>1, <3>2, <3>3
  <2>3. CASE \E n \in Known :
            autostart' = Toggle(autostart, n) /\ remarked' = remarked \cup ({HostOf[n]} \cap timer) /\ UNCHANGED safe
    <3>1. PICK n \in Known :
            autostart' = Toggle(autostart, n) /\ remarked' = remarked \cup ({HostOf[n]} \cap timer) /\ UNCHANGED safe
      BY <2>3
    <3>2. \A g \in timer \ remarked' : g \in timer \ remarked /\ g # HostOf[n]
      BY <3>1
    <3>3. \A k \in autostart : k # n => k \in autostart'
      BY <3>1 DEF Toggle
    <3>4. ASSUME NEW g \in timer \ remarked' PROVE OnHost(g) \subseteq autostart'
      BY <3>2, <3>3
    <3>5. QED
      BY <2>1, <3>1, <3>2, <3>4
  <2>4. QED
    BY <1>3, <2>2, <2>3 DEF MarkChanges
<1>4. CASE UNCHANGED <<safe, autostart, timer, remarked>>
  BY <1>4
<1>5. QED
  <2>1. ASSUME \/ StartRun \/ RunEnds \/ RunFails \/ Detect \/ LookupAnswers \/ LookupFails \/ Defer
               \/ ClearMetric \/ ClearMetricFails \/ (\E h \in HostSet : PackagesUpgraded(h)) \/ UNCHANGED vars
        PROVE  UNCHANGED <<safe, autostart, timer, remarked>>
    BY <2>1 DEF StartRun, RunEnds, RunFails, Detect, LookupAnswers, LookupFails, Defer,
                ClearMetric, ClearMetricFails, NextHost, PackagesUpgraded, vars
  <2>2. QED
    BY <1>1, <1>2, <1>3, <1>4, <2>1 DEF Next, Step

(* and the hosts that need a reboot.                                       *)
LEMMA FollowedKeeps == ASSUME Inv, [Next]_vars PROVE Followed'
<1> USE DEF Inv, Followed, inventory, world, job, facts
<1>1. CASE StartRun
  <2>1. Left' = HostSet
    BY <1>1 DEF StartRun, Left, HostSet
  <2>2. QED
    BY <1>1, <2>1 DEF StartRun, TypeOK
<1>2. CASE RunEnds
  <2>1. Left = {}
    BY <1>2 DEF RunEnds, Left
  <2>2. QED
    BY <1>2, <2>1 DEF RunEnds, EndRun
<1>3. CASE Detect
  <2>1. Left' = Left /\ Target' = Target /\ Target \in Left
    BY <1>3 DEF Detect, Left, Target, TypeOK
  <2>2. (required' <=> Target \in needs) /\ seen' = (IF required' THEN seen \cup {Target} ELSE seen) /\ needs' = needs
    BY <1>3 DEF Detect
  <2>3. pc' = "clear" => ~required'
    BY <1>3 DEF Detect
  <2>4. UNCHANGED <<timer, metric, todo, outcome>> /\ pc = "detect"
    BY <1>3 DEF Detect
  <2>5. pc' \in {"lookup", "act"} => required'
    BY <1>3 DEF Detect
  <2>6. QED
    BY <2>1, <2>2, <2>3, <2>4, <2>5
<1>4. CASE RunFails \/ SynchronousFails \/ DetachedFails
  BY <1>4 DEF RunFails, SynchronousFails, DetachedFails, Reboots, EndRun
<1>5. CASE LookupAnswers \/ LookupFails
  <2>1. Left' = Left
    BY <1>5 DEF LookupAnswers, LookupFails, Left
  <2>2. QED
    BY <1>5, <2>1 DEF LookupAnswers, LookupFails
<1>6. CASE Synchronous
  <2>1. Left' = Left /\ Target' = Target
    BY <1>6 DEF Synchronous, Left, Target
  <2>2. QED
    BY <1>6, <2>1 DEF Synchronous, Reboots
<1>7. CASE Detached
  <2>1. Left' = Left /\ Target' = Target
    BY <1>7 DEF Detached, Left, Target
  <2>2. QED
    BY <1>7, <2>1 DEF Detached
<1>8. CASE Defer
  <2>1. Left' = Left /\ Target' = Target
    BY <1>8 DEF Defer, Left, Target
  <2>2. RebootAction(Target)' = RebootAction(Target)
    BY <1>8, <2>1 DEF Defer, RebootAction, CiDetectionFailed, InK8s, IsCiSelfHost, HostRunsEtcdServer, HostVmsAutostart, OnHost
  <2>3. QED
    BY <1>8, <2>1, <2>2 DEF Defer, Surface
<1>9. CASE ClearMetric \/ ClearMetricFails
  <2> USE DEF NextHost
  <2>1. Left \subseteq {Target} \cup Left'
    BY <1>9, TodoParts DEF ClearMetric, ClearMetricFails, Left, Located
  <2>2. Target \in seen => Target \in timer \cup metric'
    BY <1>9 DEF ClearMetric, ClearMetricFails, Stale, NotDeferred
  <2>3. metric \subseteq metric' \cup {Target}
    BY <1>9 DEF ClearMetric, ClearMetricFails
  <2>4. UNCHANGED <<needs, timer, seen, outcome>> /\ pc = "clear" /\ pc' = "detect" /\ outcome # "ok"
    BY <1>9 DEF ClearMetric, ClearMetricFails, Located
  <2>5. QED
    BY <2>1, <2>2, <2>3, <2>4
<1>10. CASE \E h \in HostSet : TimerFires(h)
  <2>1. PICK h \in HostSet : TimerFires(h)
    BY <1>10
  <2>2. CASE Kills(h)
    BY <2>1, <2>2 DEF TimerFires, EndRun, Reboots
  <2>3. CASE ~Kills(h)
    <3>1. Left' = Left /\ Target' = Target /\ RebootAction(Target)' = RebootAction(Target)
      BY <2>1, <2>3 DEF TimerFires, Left, Target, RebootAction, CiDetectionFailed, InK8s, IsCiSelfHost, HostRunsEtcdServer, HostVmsAutostart, OnHost
    <3>2. QED
      BY <2>1, <2>3, <3>1 DEF TimerFires, Reboots
  <2>4. QED
    BY <2>2, <2>3
<1>11. CASE \E h \in HostSet : OperatorReboots(h)
  <2>1. Left' = Left
    BY <1>11 DEF OperatorReboots, Left
  <2>2. QED
    BY <1>11, <2>1 DEF OperatorReboots, Reboots
<1>12. CASE (\E h \in HostSet : PackagesUpgraded(h)) \/ UNCHANGED vars
  <2>1. Left' = Left /\ Target' = Target /\ RebootAction(Target)' = RebootAction(Target)
    BY <1>12 DEF PackagesUpgraded, vars, Left, Target, RebootAction, CiDetectionFailed, InK8s, IsCiSelfHost, HostRunsEtcdServer, HostVmsAutostart, OnHost
  <2>2. QED
    BY <1>12, <2>1 DEF PackagesUpgraded, vars
<1>13. CASE MarkChanges
  <2>1. Left' = Left
    BY <1>13 DEF MarkChanges, Left
  <2>2. QED
    BY <1>13, <2>1 DEF MarkChanges
<1>14. QED
  BY <1>1, <1>2, <1>3, <1>4, <1>5, <1>6, <1>7, <1>8, <1>9, <1>10, <1>11, <1>12, <1>13 DEF Next, Step

(* Inv is an invariant.                                                    *)
LEMMA Invariant == Spec => []Inv
<1>1. Inv /\ [Next]_vars => Inv'
  BY TypeKeeps, LocatedKeeps, TimersKeep, FollowedKeeps DEF Inv
<1>2. QED
  BY InvInit, <1>1, PTL DEF Spec

(* The facts of _reboot-if-needed.yml keep their shapes.                   *)
THEOREM TypeCorrect == Spec => []TypeOK
<1>1. Inv => TypeOK
  BY DEF Inv
<1>2. QED
  BY Invariant, <1>1, PTL

(* After a run that ended well, every reboot a run has found pending has   *)
(* happened, is armed, or is published: no host drops out between the      *)
(* routes, whatever failed in earlier runs.                                *)
THEOREM NoRebootDropped == Spec => []NothingSilent
<1>1. Inv => NothingSilent
  <2>1. SUFFICES ASSUME Inv, outcome = "ok" PROVE seen \subseteq timer \cup metric
    BY DEF NothingSilent
  <2>2. QED
    <3>1. Left = {}
      BY <2>1 DEF Inv, Followed, Left
    <3>2. QED
      BY <2>1, <3>1 DEF Inv, Followed
<1>2. QED
  BY Invariant, <1>1, PTL

(* A run never reboots in place the host that carries its own executor:    *)
(* what the lookup answers is the executor's node or nothing, and nothing  *)
(* defers.  Of the detached timer, which may end a run, it says nothing.   *)
THEOREM OwnJobSurvives == Spec => NeverKillsOwnJob
<1>1. Inv /\ [Next]_vars => [Synchronous => ~Kills(Target)]_vars
  <2>1. SUFFICES ASSUME Inv, Synchronous PROVE ~Kills(Target)
    OBVIOUS
  <2>2. RebootAction(Target) = "synchronous"
    BY <2>1 DEF Synchronous
  <2>3. ~CiDetectionFailed /\ ~IsCiSelfHost(Target)
    BY <2>2 DEF RebootAction
  <2>4. InK8s => asked.ok /\ asked.node \in Known
    BY <2>3 DEF CiDetectionFailed
  <2>5. InK8s => asked.node = runner /\ runner \in Known
    BY <2>1, <2>4, Inventory DEF Inv, Located
  <2>6. QED
    BY <2>3, <2>5 DEF Kills, IsCiSelfHost, OnHost
<1>2. QED
  BY Invariant, <1>1, PTL DEF Spec, NeverKillsOwnJob

(* A run reboots in place only a host marked safe; a timer takes down only *)
(* a host that is marked safe, carries no etcd member and whose nodes all  *)
(* start by themselves, unless a mark of it was changed under the timer.   *)
THEOREM UnattendedStaysSafe == Spec => UnattendedIsSafe
<1> DEFINE A ==
        /\ Synchronous => Target \in safe
        /\ \A h \in HostSet \ remarked :
             TimerFires(h) => h \in safe /\ ~HostRunsEtcdServer(h) /\ HostVmsAutostart(h)
<1>1. Inv /\ [Next]_vars => [A]_vars
  <2>1. Synchronous => Target \in safe
    BY DEF Synchronous, RebootAction
  <2>2. ASSUME Inv, NEW h \in HostSet \ remarked, TimerFires(h)
        PROVE  h \in safe /\ ~HostRunsEtcdServer(h) /\ HostVmsAutostart(h)
    BY <2>2 DEF TimerFires, Inv, TimersSafe
  <2>3. QED
    BY <2>1, <2>2
<1>2. QED
  BY Invariant, <1>1, PTL DEF Spec, UnattendedIsSafe

(* The two together.                                                       *)
THEOREM RebootsStaySafe == Spec => RebootsAreSafe
BY OwnJobSurvives, UnattendedStaysSafe DEF RebootsAreSafe

(* Of the hosts the run is done with, those it deferred are published, and *)
(* of the others only those whose metric it failed to remove; the ones     *)
(* ahead are not deferred yet, except the one whose last task is next.     *)
Members(s) == {s[i] : i \in 1..Len(s)}
Once(s) == \A i, j \in 1..Len(s) : s[i] = s[j] => i = j

(* The last task of a host that was deferred is next.                      *)
Waiting == pc = "clear" /\ required /\ RebootAction(Target) = "defer"

Published ==
    /\ \A h \in HostSet \ Left : (h \in deferred => h \in metric) /\ (h \in metric => h \in deferred \cup stuck)
    /\ \A h \in deferred \cap Left : h = Target /\ Waiting
    /\ Waiting => Target \in metric /\ Target \in deferred

(* The inductive invariant of the metric.                                  *)
MetricInv ==
    /\ Once(todo)
    /\ pc # "idle" \/ outcome = "ok" => Published

(* A sequence without repetition, and its tail.                            *)
LEMMA OnceTail ==
    ASSUME NEW s \in Seq(HostSet), s # << >>, Once(s)
    PROVE  /\ Once(Tail(s))
           /\ Members(s) = {Head(s)} \cup Members(Tail(s))
           /\ Head(s) \notin Members(Tail(s))
<1>1. Len(s) \in Nat \ {0} /\ Len(Tail(s)) = Len(s) - 1 /\ Head(s) = s[1]
  OBVIOUS
<1>2. ASSUME NEW i \in 1..Len(Tail(s)) PROVE i + 1 \in 1..Len(s) /\ Tail(s)[i] = s[i + 1] /\ i + 1 # 1
  BY <1>1
<1>3. ASSUME NEW i \in 1..Len(s), i # 1 PROVE i - 1 \in 1..Len(Tail(s)) /\ Tail(s)[i - 1] = s[i]
  BY <1>1, <1>3
<1>4. Once(Tail(s))
  <2>1. SUFFICES ASSUME NEW i \in 1..Len(Tail(s)), NEW j \in 1..Len(Tail(s)), Tail(s)[i] = Tail(s)[j] PROVE i = j
    BY DEF Once
  <2>2. i + 1 = j + 1
    BY <1>2, <2>1 DEF Once
  <2>3. QED
    BY <2>2, <1>1
<1>5. Head(s) \notin Members(Tail(s))
  <2>1. SUFFICES ASSUME NEW i \in 1..Len(Tail(s)), s[1] = s[i + 1] PROVE FALSE
    BY <1>1, <1>2 DEF Members
  <2>2. 1 \in 1..Len(s)
    BY <1>1
  <2>3. QED
    BY <1>2, <2>1, <2>2 DEF Once
<1>6. Members(s) = {Head(s)} \cup Members(Tail(s))
  <2>1. Members(Tail(s)) \subseteq Members(s)
    BY <1>2 DEF Members
  <2>2. Head(s) \in Members(s)
    BY <1>1 DEF Members
  <2>3. Members(s) \subseteq {Head(s)} \cup Members(Tail(s))
    BY <1>1, <1>3 DEF Members
  <2>4. QED
    BY <2>1, <2>2, <2>3
<1>7. QED
  BY <1>4, <1>5, <1>6

(* The routing of the host at hand is decided by the lookup and by where   *)
(* the run executes.                                                       *)
LEMMA ActionStands ==
    ASSUME UNCHANGED <<todo, asked, runner, named, safe, autostart>>
    PROVE  Target' = Target /\ RebootAction(Target)' = RebootAction(Target)
BY DEF Target, RebootAction, CiDetectionFailed, InK8s, IsCiSelfHost, HostRunsEtcdServer, HostVmsAutostart, OnHost

(* MetricInv holds at the start,                                           *)
LEMMA MetricInit == ASSUME Init PROVE MetricInv
BY DEF Init, MetricInv, Once

(* at the end of a run,                                                    *)
LEMMA MetricIdle ==
    ASSUME NEW how, EndRun(how), how = "ok" => Published' PROVE MetricInv'
BY DEF EndRun, MetricInv, Once

(* and after every step.                                                   *)
LEMMA MetricKeeps ==
    ASSUME Inv, MetricInv, HostSet \subseteq Cleared, [Next]_vars PROVE MetricInv'
<1> USE DEF inventory, world, job, facts
<1>0. TypeOK /\ Located
  BY DEF Inv
<1>1. CASE StartRun
  <2>1. Left' = HostSet /\ Once(todo)' /\ pc' = "detect" /\ deferred' = {}
    BY <1>1, InventoryAssumption DEF StartRun, Left, HostSet, Once
  <2>2. QED
    BY <2>1 DEF MetricInv, Published, Waiting
<1>2. CASE RunEnds
  <2>1. Left = {} /\ Left' = {} /\ pc' = "idle" /\ Published
    BY <1>2 DEF RunEnds, EndRun, Left, MetricInv
  <2>2. UNCHANGED <<metric, deferred, stuck>>
    BY <1>2 DEF RunEnds
  <2>3. Published'
    BY <2>1, <2>2 DEF Published, Waiting
  <2>4. QED
    BY <1>2, <2>3, MetricIdle DEF RunEnds
<1>3. CASE RunFails \/ SynchronousFails \/ DetachedFails
  BY <1>3, MetricIdle DEF RunFails, SynchronousFails, DetachedFails
<1>4. CASE Detect
  <2>1. Left' = Left /\ Target' = Target /\ UNCHANGED <<metric, deferred, stuck, todo, outcome>> /\ pc = "detect"
    BY <1>4 DEF Detect, Left, Target
  <2>2. ~Waiting /\ ~Waiting'
    BY <1>4 DEF Waiting, Detect
  <2>3. QED
    BY <2>1, <2>2 DEF MetricInv, Published, Once
<1>5. CASE LookupAnswers \/ LookupFails \/ Synchronous \/ Detached
  <2>1. Left' = Left /\ Target' = Target /\ UNCHANGED <<metric, deferred, stuck, todo, outcome>> /\ pc \in {"lookup", "act"}
    BY <1>5 DEF LookupAnswers, LookupFails, Synchronous, Detached, Left, Target
  <2>2. ~Waiting
    BY <2>1 DEF Waiting
  <2>3. CASE LookupAnswers \/ LookupFails
    BY <2>1, <2>2, <2>3 DEF MetricInv, Published, Once, Waiting, LookupAnswers, LookupFails
  <2>4. CASE Synchronous \/ Detached
    <3>1. RebootAction(Target)' = RebootAction(Target) /\ RebootAction(Target) # "defer"
      BY <2>4, ActionStands DEF Synchronous, Detached
    <3>2. ~Waiting'
      BY <3>1 DEF Waiting
    <3>3. QED
      BY <2>1, <2>2, <3>2 DEF MetricInv, Published, Once
  <2>5. QED
    BY <1>5, <2>3, <2>4
<1>6. CASE Defer
  <2>1. Target' = Target /\ RebootAction(Target)' = "defer" /\ Left' = Left
    BY <1>6, ActionStands DEF Defer, Left
  <2>2. required /\ Target \in Left /\ Published /\ pc = "act"
    BY <1>6, <1>0 DEF Defer, Inv, Followed, Located, TypeOK, Left, Target, MetricInv
  <2>3. metric' = metric \cup {Target} /\ deferred' = deferred \cup {Target} /\ pc' = "clear" /\ required' /\ UNCHANGED <<todo, stuck>>
    BY <1>6, <2>2 DEF Defer, Surface
  <2>4. Waiting' /\ ~Waiting
    BY <2>1, <2>2, <2>3 DEF Waiting
  <2>5. Published'
    BY <2>1, <2>2, <2>3, <2>4 DEF Published
  <2>6. QED
    BY <2>3, <2>5 DEF MetricInv, Once
<1>7. CASE ClearMetric \/ ClearMetricFails
  <2> USE DEF NextHost
  <2>1. todo # << >> /\ todo \in Seq(HostSet) /\ Once(todo) /\ Published /\ Target \in HostSet /\ Target = Head(todo)
    BY <1>7, <1>0, TodoParts DEF ClearMetric, ClearMetricFails, Located, TypeOK, MetricInv, Target
  <2>2. todo' = Tail(todo) /\ pc' = "detect" /\ UNCHANGED deferred
    BY <1>7 DEF ClearMetric, ClearMetricFails
  <2>3. Once(todo)' /\ Left = {Target} \cup Left' /\ Target \notin Left'
    <3>1. Once(todo)'
      BY <2>1, <2>2, OnceTail DEF Once
    <3>2. Members(todo) = {Target} \cup Members(todo') /\ Target \notin Members(todo')
      BY <2>1, <2>2, OnceTail
    <3>3. Left = Members(todo) /\ Left' = Members(todo')
      BY DEF Left, Members
    <3>4. QED
      BY <3>1, <3>2, <3>3
  <2>4. Waiting <=> ~NotDeferred
    BY <1>7 DEF ClearMetric, ClearMetricFails, Waiting, NotDeferred
  <2>5. \/ metric' = (IF Waiting THEN metric ELSE metric \ {Target}) /\ stuck' = stuck
        \/ ~Waiting /\ metric' = metric /\ stuck' = stuck \cup {Target}
    <3>1. ClearMetric => metric' = (IF Waiting THEN metric ELSE metric \ {Target}) /\ stuck' = stuck
      BY <2>1, <2>4 DEF ClearMetric, Stale
    <3>2. ClearMetricFails => ~Waiting /\ metric' = metric /\ stuck' = stuck \cup {Target}
      BY <2>4 DEF ClearMetricFails, Stale
    <3>3. QED
      BY <1>7, <3>1, <3>2
  <2>6. ~Waiting'
    BY <2>2 DEF Waiting
  <2>7. (Target \in deferred => Target \in metric') /\ (Target \in metric' => Target \in deferred \cup stuck')
    BY <2>1, <2>3, <2>5 DEF Published
  <2>8. \A h \in HostSet \ Left : (h \in deferred => h \in metric') /\ (h \in metric' => h \in deferred \cup stuck')
    BY <2>1, <2>3, <2>5 DEF Published
  <2>9. deferred \cap Left' = {}
    BY <2>1, <2>3 DEF Published
  <2>10. Published'
    BY <2>2, <2>3, <2>6, <2>7, <2>8, <2>9 DEF Published
  <2>11. QED
    BY <2>3, <2>10 DEF MetricInv
<1>8. CASE \E h \in HostSet : TimerFires(h)
  <2>1. PICK h \in HostSet : TimerFires(h)
    BY <1>8
  <2>2. CASE Kills(h)
    BY <2>1, <2>2, MetricIdle DEF TimerFires
  <2>3. CASE ~Kills(h)
    <3>1. UNCHANGED <<inventory, job, pc, todo, facts, outcome, metric, deferred, stuck>>
      BY <2>1, <2>3 DEF TimerFires
    <3>2. Left' = Left /\ Target' = Target /\ Waiting' = Waiting
      BY <3>1, ActionStands DEF Left, Waiting
    <3>3. QED
      BY <3>1, <3>2 DEF MetricInv, Published, Once
  <2>4. QED
    BY <2>2, <2>3
<1>9. CASE (\E h \in HostSet : OperatorReboots(h) \/ PackagesUpgraded(h)) \/ UNCHANGED vars
  <2>1. UNCHANGED <<inventory, job, pc, todo, facts, outcome, metric, deferred, stuck>>
    BY <1>9 DEF OperatorReboots, PackagesUpgraded, vars
  <2>2. Left' = Left /\ Target' = Target /\ Waiting' = Waiting
    BY <2>1, ActionStands DEF Left, Waiting
  <2>3. QED
    BY <2>1, <2>2 DEF MetricInv, Published, Once
<1>10. CASE MarkChanges
  <2>1. UNCHANGED <<todo, pc, outcome, metric, deferred, stuck>> /\ pc = "idle"
    BY <1>10 DEF MarkChanges
  <2>2. Left' = Left /\ ~Waiting /\ ~Waiting'
    BY <2>1 DEF Left, Waiting
  <2>3. QED
    BY <2>1, <2>2 DEF MetricInv, Published, Once
<1>11. QED
  BY <1>1, <1>2, <1>3, <1>4, <1>5, <1>6, <1>7, <1>8, <1>9, <1>10 DEF Next, Step

(* Where every host of the play is in base_managed or app_servers (the     *)
(* update plays run on base_managed), a run that ended well leaves every   *)
(* host it deferred published, and of the others at most those whose       *)
(* metric it tried to remove and could not: no maintenance_reboot_deferred *)
(* outlives the run that found its cause gone but for that one failure,    *)
(* which the play swallows.                                                *)
THEOREM MetricIsTrue ==
    ASSUME HostSet \subseteq Cleared PROVE Spec => []MetricIsOfThisRun
<1>1. Init => MetricInv
  BY MetricInit
<1>2. Inv /\ MetricInv /\ [Next]_vars => MetricInv'
  BY MetricKeeps
<1>3. Inv /\ MetricInv => MetricIsOfThisRun
  <2>1. SUFFICES ASSUME Inv, MetricInv, outcome = "ok"
                 PROVE  deferred \subseteq metric /\ metric \ deferred \subseteq stuck
    BY DEF MetricIsOfThisRun
  <2>2. Left = {} /\ metric \subseteq HostSet /\ deferred \subseteq HostSet
    BY <2>1 DEF Inv, Followed, Left, TypeOK
  <2>3. QED
    BY <2>1, <2>2 DEF MetricInv, Published
<1>4. QED
  BY Invariant, <1>1, <1>2, <1>3, PTL DEF Spec
=============================================================================
