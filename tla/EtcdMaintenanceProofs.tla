------------------------ MODULE EtcdMaintenanceProofs ------------------------
(***************************************************************************)
(* kured beside one maintenance play, for any number of servers, passes of *)
(* the guard and flagged reboots.  A second play may start from what the   *)
(* first one left behind, so most of this speaks of plays <= 1.            *)
(***************************************************************************)
EXTENDS EtcdMaintenance, TLAPS

BadEnds == {"failed", "stuck", "unreachable"}

(* A play is at one of its own tasks, with a server at hand from its first *)
(* one on, and has no outcome yet.                                         *)
Shape ==
    /\ play = "none" <=> pc = "idle"
    /\ play = "none" => todo = << >>
    /\ play = "upgrade" => pc \in UpgradePcs
    /\ play = "hosts" => pc \in HostPcs
    /\ pc \notin {"idle", "select"} => todo # << >>
    /\ play # "none" => plays > 0 /\ outcome = "none"
    /\ plays = 0 => outcome = "none"
    /\ plays <= MaxPlays

(* The lock has a holder from which the annotation does not leave; what is *)
(* remembered as under way is the holder's reboot.                         *)
Locked ==
    /\ phase = "free" <=> lock = None
    /\ lock # None => lock \in annotated
    /\ phase = "down" => lock \notin up
    /\ ongoing # None => ongoing = lock /\ phase \in {"drain", "down"}

(* Down is the lock's holder, or the play's target at the tasks that see   *)
(* to it.                                                                  *)
Accounted ==
    plays <= 1 /\ outcome \notin BadEnds =>
        \A s \in Servers \ up :
            \/ Holds(s, "down")
            \/ pc \in {"readyz", "uncordon", "waitReady", "rejoin"} /\ s = Target

(* Unschedulable is the lock's holder, or the target between its cordon    *)
(* and its uncordon.                                                       *)
Cordons ==
    plays <= 1 /\ outcome \notin {"stuck", "unreachable"} =>
        \A s \in cordoned :
            \/ lock = s /\ phase \in {"drain", "down", "back"}
            \/ pc \in {"install", "guard2", "restart", "readyz", "uncordon"} /\ s = Target

(* Before the first upgrade nobody takes kured's cordon away, so that a    *)
(* reboot under way is seen when its server is read, and is among those    *)
(* still to be read till then.                                             *)
NoUpgradeYet == plays = 0 \/ (plays = 1 /\ play = "hosts")
Ahead == {unread[i] : i \in 1..Len(unread)}
Seen ==
    NoUpgradeYet =>
        /\ phase \in {"drain", "down"} =>
               lock \in cordoned \/ (pc = "rejoin" /\ phase = "down" /\ lock = Target)
        /\ pc = "guard" /\ ongoing # None => ongoing \in Ahead
        /\ pc = "reboot" => ongoing = None

(* A server that has the new binary runs it, the target between install    *)
(* and restart and a failed block excepted, and whoever does not run it is *)
(* still ahead.                                                            *)
Left == {todo[i] : i \in 1..Len(todo)}
Upgraded ==
    /\ plays = 0 => binary = {}
    /\ plays = 1 /\ play = "upgrade" =>
        /\ Servers \subseteq running \cup Left
        /\ pc \in {"select", "guard1", "cordon", "install", "readyz"} => binary \subseteq running
        /\ pc \in {"guard2", "restart"} => binary \subseteq running \cup {Target}
        /\ pc = "readyz" => Target \in running
        /\ pc \in {"uncordon", "waitReady"} /\ ~failed => binary \subseteq running /\ Target \in running
    /\ plays <= 1 /\ outcome = "upgraded" => running = Servers

Inv == TypeOK /\ Shape /\ Locked /\ Accounted /\ Cordons /\ Seen /\ Upgraded

(* What the assumptions on the constants say.                              *)
LEMMA Sound ==
    /\ Order \in Seq(Servers) /\ Order # << >> /\ Servers = {Order[i] : i \in 1..Len(Order)}
    /\ None \notin Servers /\ MaxTries \in Nat \ {0} /\ Plays \subseteq {"upgrade", "hosts"} /\ MaxPlays \in Nat
BY OrderAssumption, BoundsAssumption DEF Servers

(* The assumptions, one by one.                                            *)
LEMMA OrderTyped == Order \in Seq(Servers)
BY OrderAssumption

LEMMA Tries == MaxTries \in Nat \ {0}
BY BoundsAssumption

LEMMA ZeroTries == 0 \in 0..(MaxTries - 1)
BY BoundsAssumption

LEMMA NoneLeft == << >> \in Seq(Servers)
OBVIOUS

(* What is left after the first of some servers.                           *)
LEMMA Parts ==
    ASSUME NEW q \in Seq(Servers), q # << >>
    PROVE  /\ Head(q) \in Servers /\ Tail(q) \in Seq(Servers)
           /\ \A i \in 1..Len(q) : q[i] = Head(q) \/ \E j \in 1..Len(Tail(q)) : Tail(q)[j] = q[i]
<1>1. Len(q) \in Nat \ {0} /\ Head(q) = q[1] /\ Head(q) \in Servers /\ Tail(q) \in Seq(Servers) /\ Len(Tail(q)) = Len(q) - 1
  OBVIOUS
<1>2. ASSUME NEW i \in 1..Len(q), i # 1
      PROVE  i - 1 \in 1..Len(Tail(q)) /\ Tail(q)[i - 1] = q[i]
  BY <1>1, <1>2
<1>3. QED
  BY <1>1, <1>2

LEMMA TodoParts ==
    ASSUME TypeOK, todo # << >>
    PROVE  Target \in Servers /\ Tail(todo) \in Seq(Servers)
           /\ Left \subseteq {Target} \cup {Tail(todo)[i] : i \in 1..Len(Tail(todo))}
<1>1. todo \in Seq(Servers)
  BY DEF TypeOK
<1>2. QED
  BY <1>1, Parts DEF Target, Left

LEMMA UnreadParts ==
    ASSUME TypeOK, unread # << >>
    PROVE  Head(unread) \in Servers /\ Tail(unread) \in Seq(Servers)
           /\ Ahead \subseteq {Head(unread)} \cup {Tail(unread)[i] : i \in 1..Len(Tail(unread))}
<1>1. unread \in Seq(Servers)
  BY DEF TypeOK
<1>2. QED
  BY <1>1, Parts DEF Ahead

(* A reboot under way is some server's.                                    *)
LEMMA UnderWay == ASSUME TypeOK PROVE MidReboot \in Servers \cup {None}
BY DEF TypeOK, MidReboot

(* A play starts with every server ahead of it.                            *)
LEMMA OrderLeft == ASSUME todo' = Order PROVE Servers \subseteq Left'
BY Sound DEF Left

(* The ends a play may come to.                                            *)
LEMMA EndPlayTyped == ASSUME TypeOK, Shape, NEW how \in {"ok", "upgraded"} \cup BadEnds, EndPlay(how) PROVE TypeOK'
<1>1. todo' \in Seq(Servers) /\ unread' \in Seq(Servers)
  BY NoneLeft DEF EndPlay
<1>2. tries' \in 0..(MaxTries - 1)
  BY ZeroTries DEF EndPlay
<1>3. outcome' \in {"none", "ok", "upgraded", "failed", "stuck", "unreachable"}
  BY DEF EndPlay, BadEnds
<1>4. QED
  BY <1>1, <1>2, <1>3 DEF EndPlay, TypeOK, nodes, kured

(* A failed task ends a host's play and sends the block to its uncordon.   *)
LEMMA FailTaskTyped == ASSUME TypeOK, Shape, FailTask PROVE TypeOK'
<1>1. CASE play = "hosts"
  BY <1>1, EndPlayTyped DEF FailTask, BadEnds
<1>2. CASE play # "hosts"
  <2>1. unread' \in Seq(Servers) /\ tries' \in 0..(MaxTries - 1) /\ pc' \in UpgradePcs
    BY <1>2, NoneLeft, ZeroTries DEF FailTask, UpgradePcs
  <2>2. QED
    BY <1>2, <2>1 DEF FailTask, TypeOK, nodes, kured, plan
<1>3. QED
  BY <1>1, <1>2

(* A pass of the guard reads the inventory's servers.                      *)
LEMMA StartPassTyped ==
    ASSUME TypeOK, StartPass
    PROVE  unread' \in Seq(Servers) /\ ongoing' \in Servers \cup {None}
BY OrderTyped, UnderWay DEF StartPass

(* Every step keeps the types.                                             *)
LEMMA TypeKeeps ==
    ASSUME TypeOK, Shape, [Next]_vars
    PROVE  TypeOK'
<1> USE DEF TypeOK, Shape, nodes, kured, guard, plan, GuardPcs, UpgradePcs, HostPcs
<1>1. ASSUME NEW p \in Plays, StartPlay(p) PROVE TypeOK'
  <2>1. todo' \in Seq(Servers)
    BY <1>1, OrderTyped DEF StartPlay
  <2>2. play' \in {"none", "upgrade", "hosts"} /\ plays' \in Nat
    BY <1>1, Sound DEF StartPlay
  <2>3. QED
    BY <1>1, <2>1, <2>2 DEF StartPlay
<1>2. ASSUME NEW s \in Servers, Flag(s) PROVE TypeOK'
  BY <1>2 DEF Flag
<1>3. ASSUME NEW s \in Servers, KuredAnnotate(s) PROVE TypeOK'
  BY <1>3 DEF KuredAnnotate
<1>4. ASSUME NEW s \in Servers, KuredLock(s) PROVE TypeOK'
  BY <1>4 DEF KuredLock, LockFree
<1>5. ASSUME NEW s \in Servers, KuredCordon(s) PROVE TypeOK'
  BY <1>5 DEF KuredCordon, Holds
<1>6. ASSUME NEW s \in Servers, KuredDrainFails(s) PROVE TypeOK'
  BY <1>6 DEF KuredDrainFails, Holds, ReleaseLock
<1>7. ASSUME NEW s \in Servers, KuredReboot(s) PROVE TypeOK'
  BY <1>7 DEF KuredReboot, Holds, GoesDown
<1>8. ASSUME NEW s \in Servers, Rejoin(s) PROVE TypeOK'
  BY <1>8 DEF Rejoin, Holds
<1>9. ASSUME NEW s \in Servers, KuredFinish(s) PROVE TypeOK'
  BY <1>9 DEF KuredFinish, Holds, ReleaseLock
<1>10. CASE Finished
  BY <1>10, EndPlayTyped DEF Finished, BadEnds
<1>11. CASE Skip
  BY <1>11, TodoParts DEF Skip, NextTarget
<1>12. CASE TakeOn
  <2>1. unread' \in Seq(Servers) /\ ongoing' \in Servers \cup {None} /\ tries' \in 0..(MaxTries - 1)
    BY <1>12, StartPassTyped, ZeroTries DEF TakeOn, EnterGuard
  <2>2. QED
    BY <1>12, <2>1 DEF TakeOn, EnterGuard
<1>13. CASE GuardReadsClear
  BY <1>13, UnreadParts DEF GuardReadsClear
<1>14. CASE GuardPassFails
  <2>1. CASE OutOfTries /\ FailTask
    BY <2>1, FailTaskTyped
  <2>2. CASE ~(OutOfTries /\ FailTask)
    <3>1. unread' \in Seq(Servers) /\ ongoing' \in Servers \cup {None}
      BY <1>14, <2>2, StartPassTyped DEF GuardPassFails
    <3>2. tries' \in 0..(MaxTries - 1)
      BY <1>14, <2>2, Tries DEF GuardPassFails, CountTry, OutOfTries
    <3>3. QED
      BY <1>14, <2>2, <3>1, <3>2 DEF GuardPassFails
  <2>3. QED
    BY <2>1, <2>2
<1>15. CASE GuardClear
  BY <1>15 DEF GuardClear, AfterGuard
<1>16. CASE Cordon
  BY <1>16, TodoParts DEF Cordon, TaskRuns
<1>17. CASE Install
  <2>1. unread' \in Seq(Servers) /\ ongoing' \in Servers \cup {None} /\ tries' \in 0..(MaxTries - 1)
    BY <1>17, StartPassTyped, ZeroTries DEF Install, EnterGuard
  <2>2. Target \in Servers
    BY <1>17, TodoParts DEF Install, TaskRuns
  <2>3. QED
    BY <1>17, <2>1, <2>2 DEF Install, EnterGuard
<1>18. CASE Restart
  BY <1>18, TodoParts DEF Restart, TaskRuns
<1>19. CASE TaskFails
  BY <1>19, FailTaskTyped DEF TaskFails
<1>20. CASE ReadyzPasses
  BY <1>20 DEF ReadyzPasses, Serving
<1>21. CASE ReadyzExhausted
  BY <1>21, FailTaskTyped DEF ReadyzExhausted
<1>22. CASE Uncordon
  BY <1>22 DEF Uncordon, TaskRuns
<1>23. CASE UncordonExhausted
  BY <1>23, EndPlayTyped DEF UncordonExhausted, BadEnds
<1>24. CASE WaitReady
  <2>1. CASE EndPlay("failed")
    BY <2>1, EndPlayTyped DEF BadEnds
  <2>2. CASE ~EndPlay("failed")
    BY <1>24, <2>2, TodoParts DEF WaitReady, NextTarget
  <2>3. QED
    BY <2>1, <2>2
<1>25. CASE HostReboot
  BY <1>25, TodoParts DEF HostReboot, GoesDown
<1>26. CASE Rejoined
  BY <1>26, TodoParts DEF Rejoined, NextTarget, Serving
<1>27. CASE RejoinExhausted
  BY <1>27, FailTaskTyped DEF RejoinExhausted
<1>28. CASE Unreachable
  BY <1>28, EndPlayTyped DEF Unreachable, BadEnds
<1>29. CASE UNCHANGED vars
  BY <1>29 DEF vars
<1>30. QED
  BY <1>1, <1>2, <1>3, <1>4, <1>5, <1>6, <1>7, <1>8, <1>9, <1>10, <1>11, <1>12, <1>13, <1>14, <1>15, <1>16, <1>17, <1>18, <1>19, <1>20, <1>21, <1>22, <1>23, <1>24, <1>25, <1>26, <1>27, <1>28, <1>29 DEF Next, PlayStep, Kured

(* Every step keeps a play at its own tasks.                               *)
LEMMA ShapeKeeps ==
    ASSUME TypeOK, Shape, [Next]_vars
    PROVE  Shape'
<1> USE DEF TypeOK, Shape, nodes, kured, guard, plan, GuardPcs, UpgradePcs, HostPcs
<1>1. ASSUME NEW p \in Plays, StartPlay(p) PROVE Shape'
  BY <1>1, Sound DEF StartPlay
<1>2. ASSUME NEW s \in Servers, Flag(s) PROVE Shape'
  BY <1>2 DEF Flag
<1>3. ASSUME NEW s \in Servers, KuredAnnotate(s) PROVE Shape'
  BY <1>3 DEF KuredAnnotate
<1>4. ASSUME NEW s \in Servers, KuredLock(s) PROVE Shape'
  BY <1>4 DEF KuredLock, LockFree
<1>5. ASSUME NEW s \in Servers, KuredCordon(s) PROVE Shape'
  BY <1>5 DEF KuredCordon, Holds
<1>6. ASSUME NEW s \in Servers, KuredDrainFails(s) PROVE Shape'
  BY <1>6 DEF KuredDrainFails, Holds, ReleaseLock
<1>7. ASSUME NEW s \in Servers, KuredReboot(s) PROVE Shape'
  BY <1>7 DEF KuredReboot, Holds, GoesDown
<1>8. ASSUME NEW s \in Servers, Rejoin(s) PROVE Shape'
  BY <1>8 DEF Rejoin, Holds
<1>9. ASSUME NEW s \in Servers, KuredFinish(s) PROVE Shape'
  BY <1>9 DEF KuredFinish, Holds, ReleaseLock
<1>10. CASE Finished
  BY <1>10 DEF Finished, EndPlay
<1>11. CASE Skip
  BY <1>11 DEF Skip, NextTarget
<1>12. CASE TakeOn
  BY <1>12 DEF TakeOn, EnterGuard, StartPass
<1>13. CASE GuardReadsClear
  BY <1>13 DEF GuardReadsClear
<1>14. CASE GuardPassFails
  BY <1>14 DEF GuardPassFails, FailTask, EndPlay, StartPass, CountTry, OutOfTries
<1>15. CASE GuardClear
  BY <1>15 DEF GuardClear, AfterGuard
<1>16. CASE Cordon
  BY <1>16 DEF Cordon, TaskRuns
<1>17. CASE Install
  BY <1>17 DEF Install, TaskRuns, EnterGuard, StartPass
<1>18. CASE Restart
  BY <1>18 DEF Restart, TaskRuns
<1>19. CASE TaskFails
  BY <1>19 DEF TaskFails, FailTask, EndPlay
<1>20. CASE ReadyzPasses
  BY <1>20 DEF ReadyzPasses, Serving
<1>21. CASE ReadyzExhausted
  BY <1>21 DEF ReadyzExhausted, FailTask, EndPlay
<1>22. CASE Uncordon
  BY <1>22 DEF Uncordon, TaskRuns
<1>23. CASE UncordonExhausted
  BY <1>23 DEF UncordonExhausted, EndPlay
<1>24. CASE WaitReady
  BY <1>24 DEF WaitReady, EndPlay, NextTarget, BlockFailed
<1>25. CASE HostReboot
  BY <1>25 DEF HostReboot, GoesDown
<1>26. CASE Rejoined
  BY <1>26 DEF Rejoined, NextTarget, Serving
<1>27. CASE RejoinExhausted
  BY <1>27 DEF RejoinExhausted, FailTask, EndPlay
<1>28. CASE Unreachable
  BY <1>28 DEF Unreachable, EndPlay
<1>29. CASE UNCHANGED vars
  BY <1>29 DEF vars
<1>30. QED
  BY <1>1, <1>2, <1>3, <1>4, <1>5, <1>6, <1>7, <1>8, <1>9, <1>10, <1>11, <1>12, <1>13, <1>14, <1>15, <1>16, <1>17, <1>18, <1>19, <1>20, <1>21, <1>22, <1>23, <1>24, <1>25, <1>26, <1>27, <1>28, <1>29 DEF Next, PlayStep, Kured

(* Every step keeps lock, annotation and the reboot under way together.    *)
LEMMA LockedKeeps ==
    ASSUME TypeOK, Shape, Locked, [Next]_vars
    PROVE  Locked'
<1> USE DEF Locked, TypeOK, nodes, kured, guard, plan, GuardPcs, UpgradePcs, HostPcs
<1>1. ASSUME NEW p \in Plays, StartPlay(p) PROVE Locked'
  BY <1>1 DEF StartPlay
<1>2. ASSUME NEW s \in Servers, Flag(s) PROVE Locked'
  BY <1>2 DEF Flag
<1>3. ASSUME NEW s \in Servers, KuredAnnotate(s) PROVE Locked'
  BY <1>3 DEF KuredAnnotate
<1>4. ASSUME NEW s \in Servers, KuredLock(s) PROVE Locked'
  BY <1>4, Sound DEF KuredLock, LockFree
<1>5. ASSUME NEW s \in Servers, KuredCordon(s) PROVE Locked'
  BY <1>5 DEF KuredCordon, Holds
<1>6. ASSUME NEW s \in Servers, KuredDrainFails(s) PROVE Locked'
  BY <1>6, Sound DEF KuredDrainFails, Holds, ReleaseLock
<1>7. ASSUME NEW s \in Servers, KuredReboot(s) PROVE Locked'
  BY <1>7 DEF KuredReboot, Holds, GoesDown
<1>8. ASSUME NEW s \in Servers, Rejoin(s) PROVE Locked'
  BY <1>8 DEF Rejoin, Holds
<1>9. ASSUME NEW s \in Servers, KuredFinish(s) PROVE Locked'
  BY <1>9, Sound DEF KuredFinish, Holds, ReleaseLock
<1>10. CASE Finished
  BY <1>10 DEF Finished, EndPlay
<1>11. CASE Skip
  BY <1>11 DEF Skip, NextTarget
<1>12. CASE TakeOn
  BY <1>12 DEF TakeOn, EnterGuard, StartPass, MidReboot
<1>13. CASE GuardReadsClear
  BY <1>13 DEF GuardReadsClear
<1>14. CASE GuardPassFails
  BY <1>14 DEF GuardPassFails, FailTask, EndPlay, StartPass, CountTry, OutOfTries, MidReboot
<1>15. CASE GuardClear
  BY <1>15 DEF GuardClear, AfterGuard
<1>16. CASE Cordon
  BY <1>16 DEF Cordon, TaskRuns
<1>17. CASE Install
  BY <1>17 DEF Install, TaskRuns, EnterGuard, StartPass, MidReboot
<1>18. CASE Restart
  BY <1>18 DEF Restart, TaskRuns
<1>19. CASE TaskFails
  BY <1>19 DEF TaskFails, FailTask, EndPlay
<1>20. CASE ReadyzPasses
  BY <1>20 DEF ReadyzPasses, Serving
<1>21. CASE ReadyzExhausted
  BY <1>21 DEF ReadyzExhausted, FailTask, EndPlay
<1>22. CASE Uncordon
  BY <1>22 DEF Uncordon, TaskRuns
<1>23. CASE UncordonExhausted
  BY <1>23 DEF UncordonExhausted, EndPlay
<1>24. CASE WaitReady
  BY <1>24 DEF WaitReady, EndPlay, NextTarget, BlockFailed
<1>25. CASE HostReboot
  BY <1>25, Sound, TodoParts DEF HostReboot, GoesDown, Shape
<1>26. CASE Rejoined
  BY <1>26 DEF Rejoined, NextTarget, Serving
<1>27. CASE RejoinExhausted
  BY <1>27 DEF RejoinExhausted, FailTask, EndPlay
<1>28. CASE Unreachable
  BY <1>28 DEF Unreachable, EndPlay
<1>29. CASE UNCHANGED vars
  BY <1>29 DEF vars
<1>30. QED
  BY <1>1, <1>2, <1>3, <1>4, <1>5, <1>6, <1>7, <1>8, <1>9, <1>10, <1>11, <1>12, <1>13, <1>14, <1>15, <1>16, <1>17, <1>18, <1>19, <1>20, <1>21, <1>22, <1>23, <1>24, <1>25, <1>26, <1>27, <1>28, <1>29 DEF Next, PlayStep, Kured

(* A member goes down by the lock's holder or at the task of its own play, *)
(* and the play goes on only when it serves again.                         *)
LEMMA AccountedKeeps ==
    ASSUME TypeOK, Shape, Locked, Accounted, [Next]_vars
    PROVE  Accounted'
<1> USE DEF Accounted, Target, Holds, TypeOK, Shape, Locked, BadEnds, nodes, kured, guard, plan, GuardPcs, UpgradePcs, HostPcs
<1>1. ASSUME NEW p \in Plays, StartPlay(p) PROVE Accounted'
  BY <1>1 DEF StartPlay
<1>2. ASSUME NEW s \in Servers, Flag(s) PROVE Accounted'
  BY <1>2 DEF Flag
<1>3. ASSUME NEW s \in Servers, KuredAnnotate(s) PROVE Accounted'
  BY <1>3 DEF KuredAnnotate
<1>4. ASSUME NEW s \in Servers, KuredLock(s) PROVE Accounted'
  BY <1>4, Sound DEF KuredLock, LockFree
<1>5. ASSUME NEW s \in Servers, KuredCordon(s) PROVE Accounted'
  BY <1>5 DEF KuredCordon, Holds
<1>6. ASSUME NEW s \in Servers, KuredDrainFails(s) PROVE Accounted'
  BY <1>6, Sound DEF KuredDrainFails, Holds, ReleaseLock
<1>7. ASSUME NEW s \in Servers, KuredReboot(s) PROVE Accounted'
  BY <1>7, Sound DEF KuredReboot, Holds, GoesDown
<1>8. ASSUME NEW s \in Servers, Rejoin(s) PROVE Accounted'
  BY <1>8 DEF Rejoin, Holds
<1>9. ASSUME NEW s \in Servers, KuredFinish(s) PROVE Accounted'
  BY <1>9, Sound DEF KuredFinish, Holds, ReleaseLock
<1>10. CASE Finished
  BY <1>10 DEF Finished, EndPlay
<1>11. CASE Skip
  BY <1>11 DEF Skip, NextTarget
<1>12. CASE TakeOn
  BY <1>12 DEF TakeOn, EnterGuard, StartPass
<1>13. CASE GuardReadsClear
  BY <1>13 DEF GuardReadsClear
<1>14. CASE GuardPassFails
  BY <1>14 DEF GuardPassFails, FailTask, EndPlay, StartPass, CountTry, OutOfTries
<1>15. CASE GuardClear
  BY <1>15 DEF GuardClear, AfterGuard
<1>16. CASE Cordon
  BY <1>16 DEF Cordon, TaskRuns
<1>17. CASE Install
  BY <1>17 DEF Install, TaskRuns, EnterGuard, StartPass
<1>18. CASE Restart
  BY <1>18 DEF Restart, TaskRuns
<1>19. CASE TaskFails
  BY <1>19 DEF TaskFails, FailTask, EndPlay
<1>20. CASE ReadyzPasses
  BY <1>20 DEF ReadyzPasses, Serving
<1>21. CASE ReadyzExhausted
  BY <1>21 DEF ReadyzExhausted, FailTask, EndPlay
<1>22. CASE Uncordon
  BY <1>22 DEF Uncordon, TaskRuns
<1>23. CASE UncordonExhausted
  BY <1>23 DEF UncordonExhausted, EndPlay
<1>24. CASE WaitReady
  BY <1>24 DEF WaitReady, EndPlay, NextTarget, BlockFailed
<1>25. CASE HostReboot
  BY <1>25 DEF HostReboot, GoesDown
<1>26. CASE Rejoined
  BY <1>26 DEF Rejoined, NextTarget, Serving
<1>27. CASE RejoinExhausted
  BY <1>27 DEF RejoinExhausted, FailTask, EndPlay
<1>28. CASE Unreachable
  BY <1>28 DEF Unreachable, EndPlay
<1>29. CASE UNCHANGED vars
  BY <1>29 DEF vars
<1>30. QED
  BY <1>1, <1>2, <1>3, <1>4, <1>5, <1>6, <1>7, <1>8, <1>9, <1>10, <1>11, <1>12, <1>13, <1>14, <1>15, <1>16, <1>17, <1>18, <1>19, <1>20, <1>21, <1>22, <1>23, <1>24, <1>25, <1>26, <1>27, <1>28, <1>29 DEF Next, PlayStep, Kured

(* A cordon is made by the lock's holder or the play's task, and each      *)
(* takes its own back.                                                     *)
LEMMA CordonsKeep ==
    ASSUME TypeOK, Shape, Locked, Cordons, [Next]_vars
    PROVE  Cordons'
<1> USE DEF Cordons, Target, TypeOK, Shape, Locked, nodes, kured, guard, plan, GuardPcs, UpgradePcs, HostPcs
<1>1. ASSUME NEW p \in Plays, StartPlay(p) PROVE Cordons'
  BY <1>1 DEF StartPlay
<1>2. ASSUME NEW s \in Servers, Flag(s) PROVE Cordons'
  BY <1>2 DEF Flag
<1>3. ASSUME NEW s \in Servers, KuredAnnotate(s) PROVE Cordons'
  BY <1>3 DEF KuredAnnotate
<1>4. ASSUME NEW s \in Servers, KuredLock(s) PROVE Cordons'
  BY <1>4, Sound DEF KuredLock, LockFree
<1>5. ASSUME NEW s \in Servers, KuredCordon(s) PROVE Cordons'
  BY <1>5, Sound DEF KuredCordon, Holds
<1>6. ASSUME NEW s \in Servers, KuredDrainFails(s) PROVE Cordons'
  BY <1>6, Sound DEF KuredDrainFails, Holds, ReleaseLock
<1>7. ASSUME NEW s \in Servers, KuredReboot(s) PROVE Cordons'
  BY <1>7, Sound DEF KuredReboot, Holds, GoesDown
<1>8. ASSUME NEW s \in Servers, Rejoin(s) PROVE Cordons'
  BY <1>8 DEF Rejoin, Holds
<1>9. ASSUME NEW s \in Servers, KuredFinish(s) PROVE Cordons'
  BY <1>9, Sound DEF KuredFinish, Holds, ReleaseLock
<1>10. CASE Finished
  BY <1>10 DEF Finished, EndPlay
<1>11. CASE Skip
  BY <1>11 DEF Skip, NextTarget
<1>12. CASE TakeOn
  BY <1>12 DEF TakeOn, EnterGuard, StartPass
<1>13. CASE GuardReadsClear
  BY <1>13 DEF GuardReadsClear
<1>14. CASE GuardPassFails
  BY <1>14 DEF GuardPassFails, FailTask, EndPlay, StartPass, CountTry, OutOfTries
<1>15. CASE GuardClear
  BY <1>15 DEF GuardClear, AfterGuard
<1>16. CASE Cordon
  BY <1>16 DEF Cordon, TaskRuns
<1>17. CASE Install
  BY <1>17 DEF Install, TaskRuns, EnterGuard, StartPass
<1>18. CASE Restart
  BY <1>18 DEF Restart, TaskRuns
<1>19. CASE TaskFails
  BY <1>19 DEF TaskFails, FailTask, EndPlay
<1>20. CASE ReadyzPasses
  BY <1>20 DEF ReadyzPasses, Serving
<1>21. CASE ReadyzExhausted
  BY <1>21 DEF ReadyzExhausted, FailTask, EndPlay
<1>22. CASE Uncordon
  BY <1>22 DEF Uncordon, TaskRuns
<1>23. CASE UncordonExhausted
  BY <1>23 DEF UncordonExhausted, EndPlay
<1>24. CASE WaitReady
  BY <1>24 DEF WaitReady, EndPlay, NextTarget, BlockFailed
<1>25. CASE HostReboot
  BY <1>25 DEF HostReboot, GoesDown
<1>26. CASE Rejoined
  BY <1>26 DEF Rejoined, NextTarget, Serving
<1>27. CASE RejoinExhausted
  BY <1>27 DEF RejoinExhausted, FailTask, EndPlay
<1>28. CASE Unreachable
  BY <1>28 DEF Unreachable, EndPlay
<1>29. CASE UNCHANGED vars
  BY <1>29 DEF vars
<1>30. QED
  BY <1>1, <1>2, <1>3, <1>4, <1>5, <1>6, <1>7, <1>8, <1>9, <1>10, <1>11, <1>12, <1>13, <1>14, <1>15, <1>16, <1>17, <1>18, <1>19, <1>20, <1>21, <1>22, <1>23, <1>24, <1>25, <1>26, <1>27, <1>28, <1>29 DEF Next, PlayStep, Kured

(* A server leaves the list of an upgrade when it runs the binary.         *)
LEMMA UpgradedKeeps ==
    ASSUME TypeOK, Shape, Upgraded, [Next]_vars
    PROVE  Upgraded'
<1> USE DEF Upgraded, TypeOK, Shape, nodes, kured, guard, plan, GuardPcs, UpgradePcs, HostPcs
<1>1. ASSUME NEW p \in Plays, StartPlay(p) PROVE Upgraded'
  BY <1>1, OrderLeft DEF StartPlay
<1>2. ASSUME NEW s \in Servers, Flag(s) PROVE Upgraded'
  BY <1>2 DEF Flag, Left, Target
<1>3. ASSUME NEW s \in Servers, KuredAnnotate(s) PROVE Upgraded'
  BY <1>3 DEF KuredAnnotate, Left, Target
<1>4. ASSUME NEW s \in Servers, KuredLock(s) PROVE Upgraded'
  BY <1>4 DEF KuredLock, LockFree, Left, Target
<1>5. ASSUME NEW s \in Servers, KuredCordon(s) PROVE Upgraded'
  BY <1>5 DEF KuredCordon, Holds, Left, Target
<1>6. ASSUME NEW s \in Servers, KuredDrainFails(s) PROVE Upgraded'
  BY <1>6 DEF KuredDrainFails, Holds, ReleaseLock, Left, Target
<1>7. ASSUME NEW s \in Servers, KuredReboot(s) PROVE Upgraded'
  BY <1>7 DEF KuredReboot, Holds, GoesDown, Left, Target
<1>8. ASSUME NEW s \in Servers, Rejoin(s) PROVE Upgraded'
  BY <1>8 DEF Rejoin, Holds, Left, Target
<1>9. ASSUME NEW s \in Servers, KuredFinish(s) PROVE Upgraded'
  BY <1>9 DEF KuredFinish, Holds, ReleaseLock, Left, Target
<1>10. CASE Finished
  BY <1>10 DEF Finished, EndPlay, Left
<1>11. CASE Skip
  BY <1>11, TodoParts DEF Skip, NextTarget, Left
<1>12. CASE TakeOn
  BY <1>12 DEF TakeOn, EnterGuard, StartPass, Left, Target
<1>13. CASE GuardReadsClear
  BY <1>13 DEF GuardReadsClear, Left, Target
<1>14. CASE GuardPassFails
  BY <1>14 DEF GuardPassFails, FailTask, EndPlay, StartPass, CountTry, OutOfTries, Left, Target
<1>15. CASE GuardClear
  BY <1>15 DEF GuardClear, AfterGuard, Left, Target
<1>16. CASE Cordon
  BY <1>16 DEF Cordon, TaskRuns, Left, Target
<1>17. CASE Install
  BY <1>17 DEF Install, TaskRuns, EnterGuard, StartPass, Left, Target
<1>18. CASE Restart
  BY <1>18 DEF Restart, TaskRuns, Left, Target
<1>19. CASE TaskFails
  BY <1>19 DEF TaskFails, FailTask, EndPlay, Left, Target
<1>20. CASE ReadyzPasses
  BY <1>20 DEF ReadyzPasses, Serving, Left, Target
<1>21. CASE ReadyzExhausted
  BY <1>21 DEF ReadyzExhausted, FailTask, EndPlay, Left, Target
<1>22. CASE Uncordon
  BY <1>22 DEF Uncordon, TaskRuns, Left, Target
<1>23. CASE UncordonExhausted
  BY <1>23 DEF UncordonExhausted, EndPlay
<1>24. CASE WaitReady
  BY <1>24, TodoParts DEF WaitReady, EndPlay, NextTarget, BlockFailed, Left
<1>25. CASE HostReboot
  BY <1>25 DEF HostReboot, GoesDown, Left, Target
<1>26. CASE Rejoined
  BY <1>26 DEF Rejoined, NextTarget, Serving
<1>27. CASE RejoinExhausted
  BY <1>27 DEF RejoinExhausted, FailTask, EndPlay
<1>28. CASE Unreachable
  BY <1>28 DEF Unreachable, EndPlay
<1>29. CASE UNCHANGED vars
  BY <1>29 DEF vars, Left, Target
<1>30. QED
  BY <1>1, <1>2, <1>3, <1>4, <1>5, <1>6, <1>7, <1>8, <1>9, <1>10, <1>11, <1>12, <1>13, <1>14, <1>15, <1>16, <1>17, <1>18, <1>19, <1>20, <1>21, <1>22, <1>23, <1>24, <1>25, <1>26, <1>27, <1>28, <1>29 DEF Next, PlayStep, Kured

(* A reboot under way since a pass began is read in it, or over.           *)
LEMMA SeenKeeps ==
    ASSUME TypeOK, Shape, Locked, Seen, [Next]_vars
    PROVE  Seen'
<1> USE DEF Seen, NoUpgradeYet, TypeOK, Shape, Locked, nodes, kured, guard, plan, GuardPcs, UpgradePcs, HostPcs
<1>1. ASSUME NEW p \in Plays, StartPlay(p) PROVE Seen'
  BY <1>1 DEF StartPlay
<1>2. ASSUME NEW s \in Servers, Flag(s) PROVE Seen'
  BY <1>2, Sound DEF Flag, Ahead, Target
<1>3. ASSUME NEW s \in Servers, KuredAnnotate(s) PROVE Seen'
  BY <1>3, Sound DEF KuredAnnotate, Ahead, Target
<1>4. ASSUME NEW s \in Servers, KuredLock(s) PROVE Seen'
  BY <1>4, Sound DEF KuredLock, LockFree, Ahead, Target
<1>5. ASSUME NEW s \in Servers, KuredCordon(s) PROVE Seen'
  BY <1>5, Sound DEF KuredCordon, Holds, Ahead, Target
<1>6. ASSUME NEW s \in Servers, KuredDrainFails(s) PROVE Seen'
  BY <1>6, Sound DEF KuredDrainFails, Holds, ReleaseLock, Ahead, Target
<1>7. ASSUME NEW s \in Servers, KuredReboot(s) PROVE Seen'
  BY <1>7, Sound DEF KuredReboot, Holds, GoesDown, Ahead, Target
<1>8. ASSUME NEW s \in Servers, Rejoin(s) PROVE Seen'
  BY <1>8, Sound DEF Rejoin, Holds, Ahead, Target
<1>9. ASSUME NEW s \in Servers, KuredFinish(s) PROVE Seen'
  BY <1>9, Sound DEF KuredFinish, Holds, ReleaseLock, Ahead, Target
<1>10. CASE Finished
  BY <1>10 DEF Finished, EndPlay
<1>11. CASE Skip
  BY <1>11 DEF Skip, NextTarget
<1>12. CASE TakeOn
  BY <1>12, Sound DEF TakeOn, EnterGuard, StartPass, Ahead, MidReboot
<1>13. CASE GuardReadsClear
  BY <1>13, UnreadParts DEF GuardReadsClear, Ahead, SeenRebooting
<1>14. CASE GuardPassFails
  BY <1>14, Sound DEF GuardPassFails, FailTask, EndPlay, StartPass, CountTry, OutOfTries, Ahead, MidReboot
<1>15. CASE GuardClear
  BY <1>15 DEF GuardClear, AfterGuard, Ahead
<1>16. CASE Cordon
  BY <1>16 DEF Cordon, TaskRuns
<1>17. CASE Install
  BY <1>17 DEF Install, TaskRuns, EnterGuard, StartPass
<1>18. CASE Restart
  BY <1>18 DEF Restart, TaskRuns
<1>19. CASE TaskFails
  BY <1>19 DEF TaskFails, FailTask, EndPlay
<1>20. CASE ReadyzPasses
  BY <1>20 DEF ReadyzPasses, Serving
<1>21. CASE ReadyzExhausted
  BY <1>21 DEF ReadyzExhausted, FailTask, EndPlay
<1>22. CASE Uncordon
  BY <1>22 DEF Uncordon, TaskRuns
<1>23. CASE UncordonExhausted
  BY <1>23 DEF UncordonExhausted, EndPlay
<1>24. CASE WaitReady
  BY <1>24 DEF WaitReady, EndPlay, NextTarget, BlockFailed
<1>25. CASE HostReboot
  BY <1>25 DEF HostReboot, GoesDown, Ahead, Target
<1>26. CASE Rejoined
  BY <1>26 DEF Rejoined, NextTarget, Serving
<1>27. CASE RejoinExhausted
  BY <1>27 DEF RejoinExhausted, FailTask, EndPlay
<1>28. CASE Unreachable
  BY <1>28 DEF Unreachable, EndPlay
<1>29. CASE UNCHANGED vars
  BY <1>29 DEF vars, Ahead, Target
<1>30. QED
  BY <1>1, <1>2, <1>3, <1>4, <1>5, <1>6, <1>7, <1>8, <1>9, <1>10, <1>11, <1>12, <1>13, <1>14, <1>15, <1>16, <1>17, <1>18, <1>19, <1>20, <1>21, <1>22, <1>23, <1>24, <1>25, <1>26, <1>27, <1>28, <1>29 DEF Next, PlayStep, Kured

(* The cluster starts whole.                                               *)
LEMMA InvInit == ASSUME Init PROVE Inv
<1>1. TypeOK
  BY NoneLeft, ZeroTries DEF Init, TypeOK
<1>2. Shape /\ Locked /\ Accounted /\ Cordons /\ Seen /\ Upgraded
  BY Sound DEF Init, Shape, Locked, Accounted, Cordons, Seen, Upgraded, UpgradePcs, HostPcs
<1>3. QED
  BY <1>1, <1>2 DEF Inv

(* The conjuncts rest on each other as the lemmas say.                     *)
LEMMA InvKeeps == ASSUME Inv, [Next]_vars PROVE Inv'
BY TypeKeeps, ShapeKeeps, LockedKeeps, AccountedKeeps, CordonsKeep, SeenKeeps, UpgradedKeeps DEF Inv

LEMMA Invariance == Spec => []Inv
<1>1. Init => Inv
  BY InvInit
<1>2. Inv /\ [Next]_vars => Inv'
  BY InvKeeps
<1>3. QED
  BY <1>1, <1>2, PTL DEF Spec

(* A server that does not serve is the kured lock's holder in its reboot   *)
(* or the play's target, unless an earlier play has failed: for any number *)
(* of servers and plays.                                                   *)
THEOREM DownAccounted == Spec => []DownIsAccountedFor
<1>1. Inv => DownIsAccountedFor
  BY DEF Inv, TypeOK, Shape, Accounted, DownIsAccountedFor, BadEnds
<1>2. QED
  BY <1>1, Invariance, PTL

(* What one play leaves behind, however often kured reboots servers beside *)
(* it and whatever task fails: no node is left unschedulable unreported,   *)
(* and an upgrade that ends well has upgraded every server.                *)
THEOREM NothingLeftHalfDone == ASSUME MaxPlays <= 1 PROVE Spec => []NothingHalfDone
<1>1. Inv => plays <= 1
  BY Sound DEF Inv, TypeOK, Shape
<1>2. Inv => NothingStranded
  BY <1>1 DEF Inv, Shape, Locked, Cordons, NothingStranded, Idle
<1>3. Inv => NothingHalfDone
  BY <1>1, <1>2 DEF Inv, Upgraded, UpgradedWhenOk, NothingHalfDone
<1>4. QED
  BY <1>3, Invariance, PTL

(* The guard of a host reboot misses no reboot by kured that was under way *)
(* when its last pass began.                                               *)
THEOREM GuardSeesKured == ASSUME MaxPlays <= 1 PROVE Spec => HostRebootSeesKured
<1>1. Inv /\ HostReboot => ongoing = None
  BY Sound DEF Inv, TypeOK, Shape, Seen, NoUpgradeYet, HostReboot, UpgradePcs
<1>2. Inv /\ [Next]_vars => [HostReboot => ongoing \in {None, Target}]_vars
  BY <1>1
<1>3. QED
  BY <1>2, Invariance, PTL DEF Spec, HostRebootSeesKured
=============================================================================
