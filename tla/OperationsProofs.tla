-------------------------- MODULE OperationsProofs --------------------------
(***************************************************************************)
(* What the small machines of MCOperations promise, for every value of the *)
(* constants.  Each section takes one machine: the inductive invariant of  *)
(* its own next-state relation, one lemma per action, and then the lift:   *)
(* of a behaviour of the composition, the steps of the machine that runs   *)
(* are steps of its relation, and the other machines' are not.             *)
(***************************************************************************)
EXTENDS MCOperations, FiniteSetTheorems, TLAPS

-----------------------------------------------------------------------------
(* The rotation of the database password. *)

(* The fields of a run's record. *)
RunFields == {"step", "fresh", "unread", "alone", "exit"}

(* The item keeps its history, and a run that alters the database has      *)
(* edited the item before.                                                 *)
HeldInv ==
    /\ DOMAIN runs = Rotations /\ \A r \in Rotations : DOMAIN runs[r] = RunFields
    /\ \A r \in Rotations : runs[r].step = "alter" => r \in history
    /\ db \in history

(* Only the edit is followed by the alteration. *)
LEMMA AlterFollowsEdit ==
    \A step \in {"waiting", "alter", "read", "poll", "ready", "server", "app"} : Rotation!Following(step) # "alter"
BY DEF Rotation!Following, Rotation!After

(* At the start no run has begun. *)
LEMMA HeldBegins == ASSUME Rotation!RotationInit PROVE HeldInv
BY DEF Rotation!RotationInit, Rotation!Waiting, HeldInv, RunFields

(* A step of run r that neither edits nor comes to the alteration.         *)
LEMMA HarmlessStep ==
    ASSUME HeldInv, NEW r \in Rotations, history' = history, db' \in history,
           DOMAIN runs' = Rotations, DOMAIN runs'[r] = RunFields, runs'[r].step # "alter",
           \A q \in Rotations \ {r} : runs'[q] = runs[q]
    PROVE  HeldInv'
BY DEF HeldInv

(* A step of run r that goes on or fails, from anywhere but the edit. *)
LEMMA OnwardStep ==
    ASSUME HeldInv, NEW r \in Rotations,
           runs[r].step \in {"waiting", "alter", "read", "poll", "ready", "server", "app"},
           history' = history, db' \in history,
           runs' \in {Rotation!Goes(r), Rotation!Fails(r)}
    PROVE  HeldInv'
<1>1. DOMAIN runs = Rotations /\ DOMAIN runs[r] = RunFields
  BY DEF HeldInv
<1>2. CASE runs' = Rotation!Goes(r)
  <2>1. runs'[r].step = Rotation!Following(runs[r].step) /\ DOMAIN runs'[r] = RunFields
    BY <1>1, <1>2 DEF Rotation!Goes, RunFields
  <2>2. DOMAIN runs' = Rotations /\ \A q \in Rotations \ {r} : runs'[q] = runs[q]
    BY <1>1, <1>2 DEF Rotation!Goes
  <2> QED
    BY <2>1, <2>2, HarmlessStep, AlterFollowsEdit
<1>3. CASE runs' = Rotation!Fails(r)
  <2>1. runs'[r].step = "ended" /\ DOMAIN runs'[r] = RunFields
    BY <1>1, <1>3 DEF Rotation!Fails, RunFields
  <2>2. DOMAIN runs' = Rotations /\ \A q \in Rotations \ {r} : runs'[q] = runs[q]
    BY <1>1, <1>3 DEF Rotation!Fails
  <2> QED
    BY <2>1, <2>2, HarmlessStep
<1> QED
  BY <1>2, <1>3

(* A step that only looks may note what it saw. *)
LEMMA NotesStep ==
    ASSUME HeldInv, NEW r \in Rotations, runs[r].step \in {"read", "poll"},
           UNCHANGED <<history, db>>,
           NEW f \in BOOLEAN, NEW u \in BOOLEAN,
           \/ runs' = [Rotation!Goes(r) EXCEPT ![r].fresh = f]
           \/ runs' = [Rotation!Goes(r) EXCEPT ![r].fresh = f, ![r].unread = u]
           \/ runs' = [Rotation!Goes(r) EXCEPT ![r].unread = u]
    PROVE  HeldInv'
<1>1. DOMAIN runs = Rotations /\ DOMAIN runs[r] = RunFields /\ db \in history
  BY DEF HeldInv
<1>2. Rotation!Goes(r)[r].step = Rotation!Following(runs[r].step) /\ DOMAIN Rotation!Goes(r)[r] = RunFields
  BY <1>1 DEF Rotation!Goes, RunFields
<1>3. DOMAIN Rotation!Goes(r) = Rotations /\ \A q \in Rotations \ {r} : Rotation!Goes(r)[q] = runs[q]
  BY <1>1 DEF Rotation!Goes
<1>4. runs'[r].step = Rotation!Following(runs[r].step) /\ DOMAIN runs'[r] = RunFields
  BY <1>2, <1>3 DEF RunFields
<1>5. DOMAIN runs' = Rotations /\ \A q \in Rotations \ {r} : runs'[q] = runs[q]
  BY <1>3
<1> QED
  BY <1>1, <1>4, <1>5, HarmlessStep, AlterFollowsEdit

(* The first step of a run, which the runs under way take note of. *)
LEMMA StartHolds == ASSUME HeldInv, NEW r \in Rotations, Rotation!Start(r) PROVE HeldInv'
<1>1. DOMAIN runs = Rotations /\ \A q \in Rotations : DOMAIN runs[q] = RunFields
  BY DEF HeldInv
<1>2. UNCHANGED <<history, db>> /\ DOMAIN runs' = Rotations
  BY DEF Rotation!Start
<1>3. runs'[r].step = "edit" /\ DOMAIN runs'[r] = RunFields
  <2>1. runs'[r] = [runs[r] EXCEPT !.step = Rotation!Following("waiting"), !.alone = (Rotation!Active = {})]
    BY DEF Rotation!Start
  <2>2. Rotation!Following("waiting") = "edit"
    BY DEF Rotation!Following, Rotation!After
  <2> QED
    BY <1>1, <2>1, <2>2 DEF RunFields
<1>4. ASSUME NEW q \in Rotations \ {r}
      PROVE  runs'[q].step = runs[q].step /\ DOMAIN runs'[q] = RunFields
  <2>1. runs'[q] = [runs[q] EXCEPT !.alone = FALSE] \/ runs'[q] = runs[q]
    BY DEF Rotation!Start
  <2> QED
    BY <1>1, <2>1 DEF RunFields
<1> QED
  BY <1>2, <1>3, <1>4 DEF HeldInv

(* What comes to the alteration has put its value into the item. *)
LEMMA EditHolds == ASSUME HeldInv, NEW r \in Rotations, Rotation!Edit(r) PROVE HeldInv'
<1>1. DOMAIN runs = Rotations /\ \A q \in Rotations : DOMAIN runs[q] = RunFields
  BY DEF HeldInv
<1>2. \/ history' = history \cup {r} /\ runs' \in {Rotation!Goes(r), Rotation!Fails(r)}
      \/ history' = history /\ runs' = Rotation!Fails(r)
  BY DEF Rotation!Edit
<1>3. CASE runs' = Rotation!Goes(r)
  <2>1. DOMAIN runs' = Rotations /\ DOMAIN runs'[r] = RunFields /\ \A q \in Rotations \ {r} : runs'[q] = runs[q]
    BY <1>1, <1>3 DEF Rotation!Goes, RunFields
  <2>2. runs'[r].step # "ended"
    <3>1. runs'[r].step = Rotation!Following("edit")
      BY <1>1, <1>3 DEF Rotation!Edit, Rotation!Goes, RunFields
    <3> QED
      BY <3>1 DEF Rotation!Following, Rotation!After
  <2>3. Rotation!Fails(r)[r].step = "ended"
    BY <1>1 DEF Rotation!Fails, RunFields
  <2>4. history' = history \cup {r} /\ db' = db
    BY <1>2, <1>3, <2>2, <2>3 DEF Rotation!Edit
  <2> QED
    BY <2>1, <2>4 DEF HeldInv
<1>4. CASE runs' = Rotation!Fails(r)
  <2>1. DOMAIN runs' = Rotations /\ DOMAIN runs'[r] = RunFields /\ runs'[r].step = "ended"
    BY <1>1, <1>4 DEF Rotation!Fails, RunFields
  <2>2. \A q \in Rotations \ {r} : runs'[q] = runs[q]
    BY <1>1, <1>4 DEF Rotation!Fails
  <2>3. history \subseteq history' /\ db' = db
    BY <1>2 DEF Rotation!Edit
  <2> QED
    BY <2>1, <2>2, <2>3 DEF HeldInv
<1> QED
  BY <1>2, <1>3, <1>4

(* The refresh marks the runs that wait for one. *)
LEMMA RefreshHolds == ASSUME HeldInv, Rotation!Refresh PROVE HeldInv'
<1>1. DOMAIN runs = Rotations /\ \A q \in Rotations : DOMAIN runs[q] = RunFields
  BY DEF HeldInv
<1>2. UNCHANGED <<history, db>> /\ DOMAIN runs' = Rotations
  BY DEF Rotation!Refresh
<1>3. ASSUME NEW q \in Rotations
      PROVE  runs'[q].step = runs[q].step /\ DOMAIN runs'[q] = RunFields
  <2>1. runs'[q] = [runs[q] EXCEPT !.fresh = TRUE] \/ runs'[q] = runs[q]
    BY DEF Rotation!Refresh
  <2> QED
    BY <1>1, <2>1 DEF RunFields
<1> QED
  BY <1>2, <1>3 DEF HeldInv

(* Every step keeps HeldInv. *)
LEMMA HeldInductive == ASSUME HeldInv, [Rotation!RotationNext]_Rotation!rotationVars PROVE HeldInv'
<1>1. CASE UNCHANGED Rotation!rotationVars
  BY <1>1 DEF HeldInv, Rotation!rotationVars
<1>2. ASSUME NEW r \in Rotations, Rotation!Start(r) PROVE HeldInv'
  BY <1>2, StartHolds
<1>3. ASSUME NEW r \in Rotations, Rotation!Edit(r) PROVE HeldInv'
  BY <1>3, EditHolds
<1>4. ASSUME NEW r \in Rotations, Rotation!Alter(r) PROVE HeldInv'
  <2>1. runs[r].step = "alter" /\ history' = history /\ db' \in {r, db} /\ runs' \in {Rotation!Goes(r), Rotation!Fails(r)}
    BY <1>4 DEF Rotation!Alter
  <2>2. db' \in history
    BY <2>1 DEF HeldInv
  <2> QED
    BY <2>1, <2>2, OnwardStep
<1>5. ASSUME NEW r \in Rotations, Rotation!ReadBefore(r) PROVE HeldInv'
  <2>1. runs[r].step = "read" /\ UNCHANGED <<history, db>> /\ db \in history
    BY <1>5 DEF Rotation!ReadBefore, HeldInv
  <2>2. CASE runs' = Rotation!Fails(r)
    BY <2>1, <2>2, OnwardStep
  <2>3. CASE runs' = [Rotation!Goes(r) EXCEPT ![r].fresh = FALSE]
    BY <2>1, <2>3, NotesStep
  <2>4. CASE runs' = [Rotation!Goes(r) EXCEPT ![r].fresh = TRUE, ![r].unread = TRUE]
    BY <2>1, <2>4, NotesStep
  <2> QED
    BY <1>5, <2>2, <2>3, <2>4 DEF Rotation!ReadBefore
<1>6. ASSUME NEW r \in Rotations, Rotation!Poll(r) PROVE HeldInv'
  <2>1. runs[r].step = "poll" /\ UNCHANGED <<history, db>> /\ db \in history
    BY <1>6 DEF Rotation!Poll, HeldInv
  <2>2. CASE runs' \in {Rotation!Goes(r), Rotation!Fails(r)}
    BY <2>1, <2>2, OnwardStep
  <2>3. CASE runs' = [Rotation!Goes(r) EXCEPT ![r].unread = TRUE]
    BY <2>1, <2>3, NotesStep
  <2> QED
    BY <1>6, <2>2, <2>3 DEF Rotation!Poll
<1>7. ASSUME NEW r \in Rotations, Rotation!WaitReady(r) \/ Rotation!Restart(r) PROVE HeldInv'
  <2>1. runs[r].step \in {"ready", "server", "app"} /\ UNCHANGED <<history, db>> /\ runs' \in {Rotation!Goes(r), Rotation!Fails(r)}
    BY <1>7 DEF Rotation!WaitReady, Rotation!Restart
  <2>2. db \in history
    BY DEF HeldInv
  <2> QED
    BY <2>1, <2>2, OnwardStep
<1>8. ASSUME Rotation!Refresh PROVE HeldInv'
  BY <1>8, RefreshHolds
<1>9. ASSUME Rotation!Remount \/ Rotation!AppRestarts PROVE HeldInv'
  BY <1>9 DEF Rotation!Remount, Rotation!AppRestarts, HeldInv
<1> QED
  BY <1>1, <1>2, <1>3, <1>4, <1>5, <1>6, <1>7, <1>8, <1>9 DEF Rotation!RotationNext

(* The password the database accepts is always one the item has or has had. *)
THEOREM NothingIsLostEver == Rotation!Spec => []Rotation!NothingIsLost
<1>1. Rotation!RotationInit => HeldInv
  BY HeldBegins
<1>2. HeldInv /\ [Rotation!RotationNext]_Rotation!rotationVars => HeldInv'
  BY HeldInductive
<1>3. HeldInv => Rotation!NothingIsLost
  BY DEF HeldInv, Rotation!NothingIsLost
<1> QED
  BY <1>1, <1>2, <1>3, PTL DEF Rotation!Spec
-----------------------------------------------------------------------------
(* What a rotation that ends well leaves behind. *)

(* The steps of a run, and what is kept of one. *)
RotationSteps == {"waiting", "edit", "alter", "read", "poll", "ready", "server", "app", "ended"}
RunRecords == [step : RotationSteps, fresh : BOOLEAN, unread : BOOLEAN, alone : BOOLEAN, exit : {0, 1}]

(* A run that started alone started after the end of those before it.      *)
StartedAlone(r) ==
    runs[r].alone /\ runs[r].step # "waiting" =>
        \A q \in Rotations : q < r => runs[q].step = "ended"

(* Nothing has failed it, nor overlapped or followed it yet.               *)
Last(r) ==
    /\ runs[r].step # "waiting" /\ runs[r].alone /\ runs[r].exit = 0
    /\ \A q \in Rotations : q > r => runs[q].step = "waiting"

(* How far its password has come with each step of it.                     *)
Reached(r) ==
    /\ runs[r].step \in {"alter", "read", "poll", "ready", "server", "app", "ended"} => item = r
    /\ runs[r].step \in {"read", "poll", "ready", "server", "app", "ended"} => db = r
    /\ ~runs[r].unread =>
        /\ runs[r].step = "poll" /\ runs[r].fresh => secret = r
        /\ runs[r].step \in {"ready", "server", "app", "ended"} => secret = r
        /\ runs[r].step \in {"app", "ended"} => file = r
        /\ runs[r].step = "ended" => app = r

(* The last run, alone, has brought its password as far as its step says. *)
UsableInv ==
    /\ runs \in [Rotations -> RunRecords]
    /\ \A r \in Rotations : StartedAlone(r)
    /\ \A r \in Rotations : Last(r) => Reached(r)

(* At the start no run has begun. *)
LEMMA UsableBegins == ASSUME Rotation!RotationInit PROVE UsableInv
BY DEF Rotation!RotationInit, Rotation!Waiting, UsableInv, RunRecords, RotationSteps, StartedAlone, Last, Reached

(* A step of an active run: no other run is the last, and this one was.    *)
LEMMA ActiveStep ==
    ASSUME Rotations \subseteq Int, UsableInv, NEW r \in Rotations, runs[r].step \notin {"waiting", "ended"},
           NEW x \in RunRecords, x.step # "waiting", x.alone = runs[r].alone,
           x.exit = 0 => runs[r].exit = 0 /\ (Last(r) /\ Reached(r) => Reached(r)'),
           runs' = [runs EXCEPT ![r] = x]
    PROVE  UsableInv'
<1>1. runs \in [Rotations -> RunRecords]
  BY DEF UsableInv
<1>2. runs' \in [Rotations -> RunRecords]
  BY <1>1
<1>3. runs'[r] = x /\ \A q \in Rotations : q # r => runs'[q] = runs[q]
  BY <1>1
<1>4. ASSUME NEW p \in Rotations PROVE StartedAlone(p)'
  <2>1. StartedAlone(p)
    BY DEF UsableInv
  <2>2. CASE p = r
    BY <1>3, <2>1, <2>2 DEF StartedAlone
  <2>3. CASE p # r
    <3>1. SUFFICES ASSUME runs[p].alone, runs[p].step # "waiting", NEW q \in Rotations, q < p PROVE runs'[q].step = "ended"
      BY <1>3, <2>3 DEF StartedAlone
    <3>2. runs[q].step = "ended"
      BY <2>1, <3>1 DEF StartedAlone
    <3>3. QED
      BY <1>3, <3>2
  <2>4. QED
    BY <2>2, <2>3
<1>5. ASSUME NEW p \in Rotations, Last(p)' PROVE Reached(p)'
  <2>1. p = r
    <3>1. SUFFICES ASSUME p # r PROVE FALSE
      OBVIOUS
    <3>2. runs'[p] = runs[p] /\ runs[p].alone /\ runs[p].step # "waiting" /\ runs'[r].step # "waiting"
      BY <1>3, <1>5, <3>1 DEF Last
    <3>3. ~(r > p)
      BY <1>5, <3>2 DEF Last
    <3>4. r < p
      BY <3>1, <3>3
    <3>5. runs[r].step = "ended"
      BY <3>2, <3>4 DEF UsableInv, StartedAlone
    <3>6. QED
      BY <3>5
  <2>2. x.exit = 0 /\ Last(r)
    <3>1. \A q \in Rotations : q > r => q # r
      OBVIOUS
    <3>2. x.exit = 0 /\ x.alone /\ \A q \in Rotations : q > r => runs[q].step = "waiting"
      BY <1>3, <1>5, <2>1, <3>1 DEF Last
    <3>3. QED
      BY <3>2 DEF Last
  <2>3. Reached(r)
    BY <2>2 DEF UsableInv
  <2>4. QED
    BY <2>1, <2>2, <2>3
<1>6. QED
  BY <1>2, <1>4, <1>5 DEF UsableInv

(* What a step of set -e makes of a run's record.                          *)
LEMMA OnwardRecord ==
    ASSUME UsableInv, NEW r \in Rotations, runs[r].step \notin {"waiting", "ended"}
    PROVE  /\ Rotation!Goes(r) = [runs EXCEPT ![r] = [runs[r] EXCEPT !.step = Rotation!Following(runs[r].step)]]
           /\ Rotation!Fails(r) = [runs EXCEPT ![r] = [runs[r] EXCEPT !.step = "ended", !.exit = 1]]
           /\ [runs[r] EXCEPT !.step = Rotation!Following(runs[r].step)] \in RunRecords
           /\ [runs[r] EXCEPT !.step = "ended", !.exit = 1] \in RunRecords
           /\ Rotation!Following(runs[r].step) # "waiting"
<1>1. runs \in [Rotations -> RunRecords] /\ runs[r] \in RunRecords
  BY DEF UsableInv
<1>2. Rotation!Following(runs[r].step) \in RotationSteps \ {"waiting"}
  BY <1>1 DEF RunRecords, RotationSteps, Rotation!Following, Rotation!After
<1>3. /\ Rotation!Goes(r) = [runs EXCEPT ![r] = [runs[r] EXCEPT !.step = Rotation!Following(runs[r].step)]]
      /\ Rotation!Fails(r) = [runs EXCEPT ![r] = [runs[r] EXCEPT !.step = "ended", !.exit = 1]]
  BY <1>1 DEF Rotation!Goes, Rotation!Fails
<1>4. [runs[r] EXCEPT !.step = Rotation!Following(runs[r].step)] \in RunRecords
  BY <1>1, <1>2 DEF RunRecords
<1>5. [runs[r] EXCEPT !.step = "ended", !.exit = 1] \in RunRecords
  BY <1>1 DEF RunRecords, RotationSteps
<1>6. QED
  BY <1>2, <1>3, <1>4, <1>5

(* A failure ends the run with status 1, whatever else the call did.       *)
LEMMA FailedStep ==
    ASSUME Rotations \subseteq Int, UsableInv, NEW r \in Rotations, runs[r].step \notin {"waiting", "ended"},
           runs' = Rotation!Fails(r)
    PROVE  UsableInv'
<1>1. PICK x : x = [runs[r] EXCEPT !.step = "ended", !.exit = 1]
  OBVIOUS
<1>2. x \in RunRecords /\ runs' = [runs EXCEPT ![r] = x]
  BY <1>1, OnwardRecord
<1>3. runs[r] \in RunRecords
  BY DEF UsableInv
<1>4. x.step = "ended" /\ x.exit = 1 /\ x.alone = runs[r].alone
  BY <1>1, <1>3 DEF RunRecords
<1>5. x.step # "waiting" /\ x.exit # 0
  BY <1>4
<1>6. QED
  BY <1>2, <1>4, <1>5, ActiveStep

(* A success goes on, with what it saw of refreshTime.                     *)
LEMMA GoneStep ==
    ASSUME Rotations \subseteq Int, UsableInv, NEW r \in Rotations, runs[r].step \notin {"waiting", "ended"},
           NEW f \in BOOLEAN, NEW u \in BOOLEAN,
           NEW x, x = [runs[r] EXCEPT !.step = Rotation!Following(runs[r].step), !.fresh = f, !.unread = u],
           runs' = [runs EXCEPT ![r] = x],
           Last(r) /\ Reached(r) => Reached(r)'
    PROVE  UsableInv'
<1>1. runs[r] \in RunRecords
  BY DEF UsableInv
<1>2. Rotation!Following(runs[r].step) \in RotationSteps \ {"waiting"}
  BY <1>1 DEF RunRecords, RotationSteps, Rotation!Following, Rotation!After
<1>3. x \in RunRecords /\ x.step # "waiting" /\ x.exit = runs[r].exit /\ x.alone = runs[r].alone
  BY <1>1, <1>2 DEF RunRecords
<1>4. QED
  BY <1>3, ActiveStep

(* Start takes note of the runs under way, and they of it.                 *)
LEMMA StartUsable ==
    ASSUME Rotations \subseteq Int, UsableInv, NEW r \in Rotations, Rotation!Start(r) PROVE UsableInv'
<1>1. runs \in [Rotations -> RunRecords]
  BY DEF UsableInv
<1>2. runs[r].step = "waiting" /\ \A q \in Rotations : q < r => runs[q].step # "waiting"
  BY DEF Rotation!Start
<1>3. runs' = [q \in Rotations |-> IF q = r THEN [runs[q] EXCEPT !.step = Rotation!Following("waiting"), !.alone = (Rotation!Active = {})]
                                   ELSE IF q \in Rotation!Active THEN [runs[q] EXCEPT !.alone = FALSE] ELSE runs[q]]
  BY DEF Rotation!Start
<1>4. Rotation!Following("waiting") = "edit"
  BY DEF Rotation!Following, Rotation!After
<1>5. /\ runs'[r] \in RunRecords /\ runs'[r].step = "edit"
      /\ runs'[r].alone => Rotation!Active = {}
  BY <1>1, <1>3, <1>4 DEF RunRecords, RotationSteps
<1>6. ASSUME NEW q \in Rotations, q # r
      PROVE  /\ runs'[q] \in RunRecords /\ runs'[q].step = runs[q].step
             /\ runs'[q].alone => runs[q].alone
  <2>1. runs'[q] = [runs[q] EXCEPT !.alone = FALSE] \/ runs'[q] = runs[q]
    BY <1>3, <1>6
  <2>2. QED
    BY <1>1, <2>1 DEF RunRecords
<1>7. runs' \in [Rotations -> RunRecords]
  BY <1>3, <1>5, <1>6
<1>8. ASSUME NEW p \in Rotations PROVE StartedAlone(p)'
  <2>1. CASE p = r
    <3>1. SUFFICES ASSUME Rotation!Active = {}, NEW q \in Rotations, q < r PROVE runs'[q].step = "ended"
      BY <1>5, <2>1 DEF StartedAlone
    <3>2. runs[q].step = "ended" /\ q # r
      BY <1>2, <3>1 DEF Rotation!Active
    <3>3. QED
      BY <1>6, <3>2
  <2>2. CASE p # r
    <3>1. SUFFICES ASSUME runs'[p].alone, runs'[p].step # "waiting", NEW q \in Rotations, q < p PROVE runs'[q].step = "ended"
      BY DEF StartedAlone
    <3>2. runs[p].alone /\ runs[p].step # "waiting"
      BY <1>6, <2>2, <3>1
    <3>3. runs[q].step = "ended"
      BY <3>1, <3>2 DEF UsableInv, StartedAlone
    <3>4. QED
      BY <1>2, <1>6, <3>3
  <2>3. QED
    BY <2>1, <2>2
<1>9. ASSUME NEW p \in Rotations, Last(p)' PROVE Reached(p)'
  <2>1. p = r
    <3>1. SUFFICES ASSUME p # r PROVE FALSE
      OBVIOUS
    <3>2. runs[p].alone /\ runs[p].step # "waiting"
      BY <1>6, <1>9, <3>1 DEF Last
    <3>3. ~(r > p)
      BY <1>5, <1>9 DEF Last
    <3>4. r < p
      BY <3>1, <3>3
    <3>5. runs[r].step = "ended"
      BY <3>2, <3>4 DEF UsableInv, StartedAlone
    <3>6. QED
      BY <1>2, <3>5
  <2>2. QED
    BY <1>5, <2>1 DEF Reached
<1>10. QED
  BY <1>7, <1>8, <1>9 DEF UsableInv

(* A success that goes on, in the forms the steps write it.                *)
LEMMA GoesOn ==
    ASSUME Rotations \subseteq Int, UsableInv, NEW r \in Rotations, runs[r].step \notin {"waiting", "ended"},
           \/ runs' = Rotation!Goes(r)
           \/ \E f \in BOOLEAN : runs' = [Rotation!Goes(r) EXCEPT ![r].fresh = f]
           \/ \E f, u \in BOOLEAN : runs' = [Rotation!Goes(r) EXCEPT ![r].fresh = f, ![r].unread = u]
           \/ \E u \in BOOLEAN : runs' = [Rotation!Goes(r) EXCEPT ![r].unread = u],
           Last(r) /\ Reached(r) => Reached(r)'
    PROVE  UsableInv'
<1>1. runs[r] \in RunRecords /\ runs \in [Rotations -> RunRecords]
  BY DEF UsableInv
<1>2. PICK y : y = [runs[r] EXCEPT !.step = Rotation!Following(runs[r].step)]
  OBVIOUS
<1>3. Rotation!Goes(r) = [runs EXCEPT ![r] = y] /\ y \in RunRecords
  BY <1>2, OnwardRecord
<1>4. y.fresh = runs[r].fresh /\ y.unread = runs[r].unread
  BY <1>1, <1>2 DEF RunRecords
<1>5. \E f, u \in BOOLEAN : runs' = [runs EXCEPT ![r] = [y EXCEPT !.fresh = f, !.unread = u]]
  <2>1. y.fresh \in BOOLEAN /\ y.unread \in BOOLEAN
    BY <1>3 DEF RunRecords
  <2>2. /\ y = [y EXCEPT !.fresh = y.fresh, !.unread = y.unread]
        /\ \A f : [y EXCEPT !.fresh = f] = [y EXCEPT !.fresh = f, !.unread = y.unread]
        /\ \A u : [y EXCEPT !.unread = u] = [y EXCEPT !.fresh = y.fresh, !.unread = u]
    BY <1>3 DEF RunRecords
  <2>3. /\ \A f : [Rotation!Goes(r) EXCEPT ![r].fresh = f] = [runs EXCEPT ![r] = [y EXCEPT !.fresh = f]]
        /\ \A u : [Rotation!Goes(r) EXCEPT ![r].unread = u] = [runs EXCEPT ![r] = [y EXCEPT !.unread = u]]
    BY <1>1, <1>3
  <2>4. CASE runs' = Rotation!Goes(r)
    BY <1>3, <2>1, <2>2, <2>4
  <2>5. CASE \E f \in BOOLEAN : runs' = [Rotation!Goes(r) EXCEPT ![r].fresh = f]
    <3>1. PICK f \in BOOLEAN : runs' = [Rotation!Goes(r) EXCEPT ![r].fresh = f]
      BY <2>5
    <3>2. runs' = [runs EXCEPT ![r] = [y EXCEPT !.fresh = f, !.unread = y.unread]]
      BY <2>2, <2>3, <3>1
    <3>3. QED
      BY <2>1, <3>2
  <2>6. CASE \E f, u \in BOOLEAN : runs' = [Rotation!Goes(r) EXCEPT ![r].fresh = f, ![r].unread = u]
    <3>1. PICK f \in BOOLEAN, u \in BOOLEAN : runs' = [Rotation!Goes(r) EXCEPT ![r].fresh = f, ![r].unread = u]
      BY <2>6
    <3>2. runs' = [runs EXCEPT ![r] = [y EXCEPT !.fresh = f, !.unread = u]]
      BY <1>1, <1>3, <3>1
    <3>3. QED
      BY <3>2
  <2>7. CASE \E u \in BOOLEAN : runs' = [Rotation!Goes(r) EXCEPT ![r].unread = u]
    <3>1. PICK u \in BOOLEAN : runs' = [Rotation!Goes(r) EXCEPT ![r].unread = u]
      BY <2>7
    <3>2. runs' = [runs EXCEPT ![r] = [y EXCEPT !.fresh = y.fresh, !.unread = u]]
      BY <2>2, <2>3, <3>1
    <3>3. QED
      BY <2>1, <3>2
  <2>8. QED
    BY <2>4, <2>5, <2>6, <2>7
<1>6. PICK f, u \in BOOLEAN : runs' = [runs EXCEPT ![r] = [y EXCEPT !.fresh = f, !.unread = u]]
  BY <1>5
<1>7. PICK x : x = [runs[r] EXCEPT !.step = Rotation!Following(runs[r].step), !.fresh = f, !.unread = u]
  OBVIOUS
<1>8. x = [y EXCEPT !.fresh = f, !.unread = u]
  BY <1>1, <1>2, <1>7 DEF RunRecords
<1>9. QED
  BY <1>6, <1>7, <1>8, GoneStep

(* The values of a run's record after a success, and before.               *)
LEMMA GoesValues ==
    ASSUME UsableInv, NEW r \in Rotations, runs' = Rotation!Goes(r)
    PROVE  /\ runs'[r].step = Rotation!Following(runs[r].step)
           /\ runs'[r].fresh = runs[r].fresh /\ runs'[r].unread = runs[r].unread
BY DEF UsableInv, RunRecords, Rotation!Goes

(* Edit: the item has the password of the last run from here on.           *)
LEMMA EditUsable ==
    ASSUME Rotations \subseteq Int, UsableInv, NEW r \in Rotations, Rotation!Edit(r) PROVE UsableInv'
<1>1. runs[r].step = "edit" /\ runs' \in {Rotation!Goes(r), Rotation!Fails(r)}
  BY DEF Rotation!Edit
<1>2. CASE runs' = Rotation!Goes(r) /\ item' = r
  <2>1. runs'[r].step = "alter"
    <3>1. runs'[r].step = Rotation!Following("edit")
      BY <1>1, <1>2, GoesValues
    <3>2. QED
      BY <3>1 DEF Rotation!Following, Rotation!After
  <2>2. Reached(r)'
    BY <1>2, <2>1 DEF Reached
  <2>3. QED
    BY <1>1, <1>2, <2>2, GoesOn
<1>3. CASE runs' = Rotation!Fails(r)
  BY <1>1, <1>3, FailedStep
<1>4. QED
  BY <1>1, <1>2, <1>3 DEF Rotation!Edit

(* Alter: and the database.                                                *)
LEMMA AlterUsable ==
    ASSUME Rotations \subseteq Int, UsableInv, NEW r \in Rotations, Rotation!Alter(r) PROVE UsableInv'
<1>1. runs[r].step = "alter" /\ runs' \in {Rotation!Goes(r), Rotation!Fails(r)} /\ item' = item
  BY DEF Rotation!Alter
<1>2. CASE runs' = Rotation!Goes(r) /\ db' = r
  <2>1. runs'[r].step = "read"
    BY <1>1, <1>2, GoesValues DEF Rotation!Following, Rotation!After
  <2>2. Last(r) /\ Reached(r) => Reached(r)'
    BY <1>1, <1>2, <2>1 DEF Reached
  <2>3. QED
    BY <1>1, <1>2, <2>2, GoesOn
<1>3. CASE runs' = Rotation!Fails(r)
  BY <1>1, <1>3, FailedStep
<1>4. QED
  BY <1>1, <1>2, <1>3 DEF Rotation!Alter

(* The read before the annotation: a first answer that failed is a run     *)
(* whose reads were not all answered.                                      *)
LEMMA ReadUsable ==
    ASSUME Rotations \subseteq Int, UsableInv, NEW r \in Rotations, Rotation!ReadBefore(r) PROVE UsableInv'
<1>1. runs[r].step = "read" /\ item' = item /\ db' = db
  BY DEF Rotation!ReadBefore
<1>2. runs[r] \in RunRecords /\ runs \in [Rotations -> RunRecords]
  BY DEF UsableInv
<1>3. CASE runs' = [Rotation!Goes(r) EXCEPT ![r].fresh = FALSE]
  <2>1. runs'[r].step = "poll" /\ ~runs'[r].fresh
    BY <1>1, <1>2, <1>3 DEF RunRecords, Rotation!Goes, Rotation!Following, Rotation!After
  <2>2. Last(r) /\ Reached(r) => Reached(r)'
    BY <1>1, <2>1 DEF Reached
  <2>3. QED
    BY <1>1, <1>3, <2>2, GoesOn
<1>4. CASE runs' = [Rotation!Goes(r) EXCEPT ![r].fresh = TRUE, ![r].unread = TRUE]
  <2>1. runs'[r].step = "poll" /\ runs'[r].unread
    BY <1>1, <1>2, <1>4 DEF RunRecords, Rotation!Goes, Rotation!Following, Rotation!After
  <2>2. Last(r) /\ Reached(r) => Reached(r)'
    BY <1>1, <2>1 DEF Reached
  <2>3. QED
    BY <1>1, <1>4, <2>2, GoesOn
<1>5. CASE runs' = Rotation!Fails(r)
  BY <1>1, <1>5, FailedStep
<1>6. QED
  BY <1>3, <1>4, <1>5 DEF Rotation!ReadBefore

(* The poll: left with a new refreshTime, or with a read unanswered.       *)
LEMMA PollUsable ==
    ASSUME Rotations \subseteq Int, UsableInv, NEW r \in Rotations, Rotation!Poll(r) PROVE UsableInv'
<1>1. runs[r].step = "poll" /\ item' = item /\ db' = db /\ secret' = secret
  BY DEF Rotation!Poll
<1>2. runs[r] \in RunRecords /\ runs \in [Rotations -> RunRecords]
  BY DEF UsableInv
<1>3. CASE runs[r].fresh /\ runs' = Rotation!Goes(r)
  <2>1. runs'[r].step = "ready" /\ runs'[r].unread = runs[r].unread
    BY <1>1, <1>3, GoesValues DEF Rotation!Following, Rotation!After
  <2>2. Last(r) /\ Reached(r) => Reached(r)'
    BY <1>1, <1>3, <2>1 DEF Reached
  <2>3. QED
    BY <1>1, <1>3, <2>2, GoesOn
<1>4. CASE runs' = [Rotation!Goes(r) EXCEPT ![r].unread = TRUE]
  <2>1. runs'[r].step = "ready" /\ runs'[r].unread
    BY <1>1, <1>2, <1>4 DEF RunRecords, Rotation!Goes, Rotation!Following, Rotation!After
  <2>2. Last(r) /\ Reached(r) => Reached(r)'
    BY <1>1, <2>1 DEF Reached
  <2>3. QED
    BY <1>1, <1>4, <2>2, GoesOn
<1>5. CASE runs' = Rotation!Fails(r)
  BY <1>1, <1>5, FailedStep
<1>6. QED
  BY <1>3, <1>4, <1>5 DEF Rotation!Poll

(* The wait for Ready changes nothing.                                     *)
LEMMA ReadyUsable ==
    ASSUME Rotations \subseteq Int, UsableInv, NEW r \in Rotations, Rotation!WaitReady(r) PROVE UsableInv'
<1>1. runs[r].step = "ready" /\ item' = item /\ db' = db /\ secret' = secret
  BY DEF Rotation!WaitReady
<1>2. CASE runs' = Rotation!Goes(r)
  <2>1. runs'[r].step = "server" /\ runs'[r].unread = runs[r].unread
    BY <1>1, <1>2, GoesValues DEF Rotation!Following, Rotation!After
  <2>2. Last(r) /\ Reached(r) => Reached(r)'
    BY <1>1, <2>1 DEF Reached
  <2>3. QED
    BY <1>1, <1>2, <2>2, GoesOn
<1>3. CASE runs' = Rotation!Fails(r)
  BY <1>1, <1>3, FailedStep
<1>4. QED
  BY <1>2, <1>3 DEF Rotation!WaitReady

(* The restarts: each pod starts with what the Secret holds.               *)
LEMMA RestartUsable ==
    ASSUME Rotations \subseteq Int, UsableInv, NEW r \in Rotations, Rotation!Restart(r) PROVE UsableInv'
<1>1. runs[r].step \in {"server", "app"} /\ item' = item /\ db' = db /\ secret' = secret
  BY DEF Rotation!Restart
<1>2. CASE runs' = Rotation!Goes(r)
  <2>1. /\ runs[r].step = "server" => runs'[r].step = "app"
        /\ runs[r].step = "app" => runs'[r].step = "ended"
        /\ runs'[r].unread = runs[r].unread
    BY <1>1, <1>2, GoesValues DEF Rotation!Following, Rotation!After
  <2>2. CASE runs[r].step = "server" /\ file' = secret
    <3>1. Last(r) /\ Reached(r) => Reached(r)'
      BY <1>1, <2>1, <2>2 DEF Reached
    <3>2. QED
      BY <1>1, <1>2, <3>1, GoesOn
  <2>3. CASE runs[r].step = "app" /\ app' = secret /\ file' = file
    <3>1. Last(r) /\ Reached(r) => Reached(r)'
      BY <1>1, <2>1, <2>3 DEF Reached
    <3>2. QED
      BY <1>1, <1>2, <3>1, GoesOn
  <2>4. QED
    BY <2>2, <2>3 DEF Rotation!Restart
<1>3. CASE runs' = Rotation!Fails(r)
  BY <1>1, <1>3, FailedStep
<1>4. QED
  BY <1>2, <1>3 DEF Rotation!Restart

(* The operator's refresh: what a waiting run sees of it is the item.      *)
LEMMA RefreshUsable == ASSUME UsableInv, Rotation!Refresh PROVE UsableInv'
<1>1. runs \in [Rotations -> RunRecords]
  BY DEF UsableInv
<1>2. runs' = [r \in Rotations |-> IF runs[r].step = "poll" THEN [runs[r] EXCEPT !.fresh = TRUE] ELSE runs[r]]
  BY DEF Rotation!Refresh
<1>3. ASSUME NEW r \in Rotations
      PROVE  /\ runs'[r] \in RunRecords
             /\ runs'[r].step = runs[r].step /\ runs'[r].alone = runs[r].alone
             /\ runs'[r].exit = runs[r].exit /\ runs'[r].unread = runs[r].unread
             /\ runs[r].step # "poll" => runs'[r].fresh = runs[r].fresh
  <2>1. runs[r] \in RunRecords
    BY <1>1
  <2>2. runs'[r] = IF runs[r].step = "poll" THEN [runs[r] EXCEPT !.fresh = TRUE] ELSE runs[r]
    BY <1>2
  <2>3. QED
    BY <2>1, <2>2 DEF RunRecords
<1>4. runs' \in [Rotations -> RunRecords]
  BY <1>2, <1>3
<1>5. ASSUME NEW r \in Rotations PROVE StartedAlone(r)'
  BY <1>3 DEF UsableInv, StartedAlone
<1>6. ASSUME NEW r \in Rotations, Last(r)' PROVE Reached(r)'
  <2>1. Last(r) /\ Reached(r)
    BY <1>3, <1>6 DEF UsableInv, Last
  <2>2. secret' = item /\ item' = item /\ db' = db /\ file' = file /\ app' = app
    BY DEF Rotation!Refresh
  <2>3. runs[r].step \in {"poll", "ready", "server", "app", "ended"} => secret' = r
    BY <2>1, <2>2 DEF Reached
  <2>4. QED
    BY <1>3, <2>1, <2>2, <2>3 DEF Reached
<1>7. QED
  BY <1>4, <1>5, <1>6 DEF UsableInv

(* A pod that restarts or a mount that is renewed reads the same Secret.   *)
LEMMA PodsUsable ==
    ASSUME UsableInv, Rotation!Remount \/ Rotation!AppRestarts \/ UNCHANGED rotationVars PROVE UsableInv'
<1>1. /\ item' = item /\ db' = db /\ secret' = secret /\ runs' = runs
      /\ file' \in {file, secret} /\ app' \in {app, secret}
  BY DEF Rotation!Remount, Rotation!AppRestarts, rotationVars
<1>2. ASSUME NEW r \in Rotations PROVE StartedAlone(r)'
  BY <1>1 DEF UsableInv, StartedAlone
<1>3. ASSUME NEW r \in Rotations, Last(r)' PROVE Reached(r)'
  <2>1. Last(r) /\ Reached(r)
    BY <1>1, <1>3 DEF UsableInv, Last
  <2>2. QED
    BY <1>1, <2>1 DEF Reached
<1>4. QED
  BY <1>1, <1>2, <1>3 DEF UsableInv

(* Every step keeps UsableInv, of numbered runs. *)
LEMMA UsableInductive ==
    ASSUME Rotations \subseteq Int, UsableInv, Rotation!RotationNext \/ UNCHANGED rotationVars PROVE UsableInv'
<1>1. CASE \E r \in Rotations : \/ Rotation!Start(r) \/ Rotation!Edit(r) \/ Rotation!Alter(r) \/ Rotation!ReadBefore(r)
                                \/ Rotation!Poll(r) \/ Rotation!WaitReady(r) \/ Rotation!Restart(r)
  BY <1>1, StartUsable, EditUsable, AlterUsable, ReadUsable, PollUsable, ReadyUsable, RestartUsable
<1>2. QED
  BY <1>1, RefreshUsable, PodsUsable DEF Rotation!RotationNext

(* A rotation that ends well leaves everything at its password.            *)
LEMMA UsableSuffices == ASSUME UsableInv PROVE Rotation!OkMeansUsable
<1>1. SUFFICES ASSUME NEW r \in Rotations, Rotation!LastAlone(r), ~runs[r].unread PROVE Rotation!AllAt(r)
  BY DEF Rotation!OkMeansUsable
<1>2. Last(r)
  BY <1>1 DEF Rotation!LastAlone, Last
<1>3. Reached(r) /\ runs[r].step = "ended"
  BY <1>1, <1>2 DEF UsableInv, Rotation!LastAlone
<1>4. QED
  BY <1>1, <1>3 DEF Reached, Rotation!AllAt

(* The same in the composition: when the rotations are the machine.        *)
Rotating == job = "rotation" => HeldInv /\ UsableInv

(* A behaviour of rotations begins as the rotation does. *)
LEMMA RotatingBegins == ASSUME OperationsInit PROVE Rotating
<1>1. job = "rotation" => Rotation!RotationInit
  BY DEF OperationsInit
<1>2. QED
  BY <1>1, HeldBegins, UsableBegins DEF Rotating

(* Its steps are steps of the rotation. *)
LEMMA RotatingKeeps ==
    ASSUME Rotations \subseteq Int, Rotating, [OperationsNext]_operationVars PROVE Rotating'
<1>1. SUFFICES ASSUME job' = "rotation" PROVE HeldInv' /\ UsableInv'
  BY DEF Rotating
<1>2. job = "rotation"
  BY <1>1 DEF OperationsNext, operationVars
<1>3. Rotation!RotationNext \/ UNCHANGED rotationVars
  BY <1>2 DEF OperationsNext, operationVars
<1>4. [Rotation!RotationNext]_(Rotation!rotationVars)
  BY <1>3 DEF rotationVars, Rotation!rotationVars
<1>5. QED
  BY <1>2, <1>3, <1>4, HeldInductive, UsableInductive DEF Rotating

(* Whatever fails and whichever runs overlap, the password the database    *)
(* accepts is one the item has or has had, and a rotation that ends well,  *)
(* undisturbed and with its reads answered, leaves the item, the database, *)
(* the Secret and the pods at its password: flux-rotate-db-password.sh,    *)
(* for every number of runs.                                               *)
THEOREM RotationStaysUsable == ASSUME Rotations \subseteq Int PROVE Operations => []RotationIsUsable
<1>1. OperationsInit => Rotating
  BY RotatingBegins
<1>2. Rotating /\ [OperationsNext]_operationVars => Rotating'
  BY RotatingKeeps
<1>3. Rotating => RotationIsUsable
  BY UsableSuffices DEF Rotating, HeldInv, Rotation!NothingIsLost, RotationIsUsable
<1>4. QED
  BY <1>1, <1>2, <1>3, PTL DEF Operations

-----------------------------------------------------------------------------
(* The dynamic DNS job. *)

(* What a record of the zone, a declaration and a run may hold. *)
DnsRecords == [content : Addresses, proxied : BOOLEAN, note : Notes \cup {None}]
Decorations == [proxied : BOOLEAN, note : Notes]
Syncs ==
    [phase : {"idle", "query", "write", "done"}, addr : Addresses \cup {None}, at : Nat, read : SUBSET DnsRecords,
     ok : BOOLEAN, failed : SUBSET Names, exit : {0, 1}]

(* Finitely many addresses, and lists that are sequences.                  *)
ListsAreSequences ==
    /\ IsFiniteSet(Addresses)
    /\ \A list \in EntryLists : Len(list) \in Nat /\ DOMAIN list = 1..Len(list)

(* The variables have their types. *)
DnsTypes ==
    /\ entries \in EntryLists /\ site \in Addresses /\ wanted \in [Names -> Decorations]
    /\ zone \in [Names -> SUBSET DnsRecords] /\ sync \in Syncs

(* Duplicates of a name are decorated alike.                               *)
Alike(records) == \A r, s \in records : r.proxied = s.proxied /\ r.note = s.note
ZoneAlike == Alike(sync.read) /\ \A n \in Names : Alike(zone[n]) /\ IsFiniteSet(zone[n])

(* A run that is under way was not refused.                                *)
UnderWay ==
    /\ sync.phase \in {"query", "write"} => sync.addr \in Addresses /\ sync.at \in 1..Len(entries)
    /\ sync.at > 0 => ~Dns!Refused

(* The one record of a name is at an address.                              *)
At(n, addr) == \E r \in DnsRecords : zone[n] = {r} /\ r.content = addr
(* An entry of the list is settled: its record failed or is right. *)
Accounts(i) == entries[i].name \in sync.failed \/ At(entries[i].name, sync.addr)

(* What a run has gone through is settled, and its flag and its status say *)
(* so.                                                                     *)
Progress ==
    /\ sync.ok <=> sync.failed = {}
    /\ sync.phase \in {"query", "write"} => \A i \in 1..(sync.at - 1) : Accounts(i)
    /\ sync.phase = "done" /\ sync.at > 0 => (\A i \in DOMAIN entries : Accounts(i)) /\ (sync.exit = 0 <=> sync.failed = {})

(* The inductive invariant of the job. *)
DnsInv == DnsTypes /\ ZoneAlike /\ UnderWay /\ Progress

(* What is made of the members of a finite set, one by one, is finite.     *)
LEMMA ImageIsFinite ==
    ASSUME NEW S, IsFiniteSet(S), NEW f, DOMAIN f = S, f = [x \in S |-> f[x]]
    PROVE  IsFiniteSet({f[x] : x \in S})
<1>1. f \in Surjection(S, {f[x] : x \in S})
  BY DEF Surjection
<1>2. QED
  BY <1>1, FS_Surjection

(* It holds at the start. *)
LEMMA DnsBegins == ASSUME ListsAreSequences, Dns!DdnsInit PROVE DnsInv
<1>1. /\ entries \in EntryLists /\ site \in Addresses /\ wanted \in [Names -> Decorations]
      /\ sync = [phase |-> "idle", addr |-> None, at |-> 0, read |-> {}, ok |-> TRUE, failed |-> {}, exit |-> 0]
  BY DEF Dns!DdnsInit, Dns!Idle, Decorations
<1>2. PICK a \in Addresses : a = CHOOSE x \in Addresses : TRUE
  BY <1>1
<1> DEFINE one == {[content |-> a, proxied |-> FALSE, note |-> None]}
           all == {[content |-> x, proxied |-> TRUE, note |-> None] : x \in Addresses}
<1>3. zone \in [Names -> {{}, one} \cup {all}]
  BY <1>2 DEF Dns!DdnsInit
<1>4. IsFiniteSet({}) /\ IsFiniteSet(one) /\ IsFiniteSet(all)
  <2>1. PICK f : f = [x \in Addresses |-> [content |-> x, proxied |-> TRUE, note |-> None]]
    OBVIOUS
  <2>2. all = {f[x] : x \in Addresses} /\ DOMAIN f = Addresses /\ f = [x \in Addresses |-> f[x]]
    BY <2>1
  <2>3. IsFiniteSet(all)
    BY <2>2, ImageIsFinite DEF ListsAreSequences
  <2>4. IsFiniteSet({}) /\ IsFiniteSet(one)
    BY FS_EmptySet, FS_Singleton
  <2>5. QED
    BY <2>3, <2>4
<1>5. Alike({}) /\ Alike(one) /\ Alike(all)
  <2>1. \A r \in all : r.proxied = TRUE /\ r.note = None
    OBVIOUS
  <2>2. \A r \in one : r.proxied = FALSE /\ r.note = None
    OBVIOUS
  <2>3. QED
    BY <2>1, <2>2 DEF Alike
<1>6. one \subseteq DnsRecords /\ all \subseteq DnsRecords
  <2>1. \A x \in Addresses, b \in BOOLEAN : [content |-> x, proxied |-> b, note |-> None] \in DnsRecords
    BY DEF DnsRecords
  <2>2. QED
    BY <1>2, <2>1
<1> HIDE DEF one, all
<1>7. sync \in Syncs
  BY <1>1 DEF Syncs
<1>8. zone \in [Names -> SUBSET DnsRecords]
  BY <1>3, <1>6
<1>9. ZoneAlike
  BY <1>1, <1>3, <1>4, <1>5 DEF ZoneAlike
<1>10. UnderWay /\ Progress
  BY <1>1 DEF UnderWay, Progress
<1>11. QED
  BY <1>1, <1>7, <1>8, <1>9, <1>10 DEF DnsInv, DnsTypes

(* What is left of the invariant when the run's entry is settled: it is    *)
(* counted as failed, or its record is at the address of the run.          *)
LEMMA AdvanceKeeps ==
    ASSUME ListsAreSequences, DnsInv, sync.phase \in {"query", "write"}, NEW ok \in BOOLEAN, Dns!Advance(ok),
           UNCHANGED <<entries, site, wanted>>, zone' \in [Names -> SUBSET DnsRecords],
           \A m \in Names : Alike(zone'[m]) /\ IsFiniteSet(zone'[m]),
           \A m \in Names : m # Dns!Entry.name => zone'[m] = zone[m],
           NEW n \in Names, n = Dns!Entry.name, ok => At(n, sync.addr)'
    PROVE  DnsInv'
<1>1. /\ sync \in Syncs /\ sync.at \in 1..Len(entries) /\ sync.addr \in Addresses /\ Len(entries) \in Nat
      /\ DOMAIN entries = 1..Len(entries) /\ sync.ok \in BOOLEAN /\ sync.failed \in SUBSET Names /\ ~Dns!Refused
  BY DEF DnsInv, DnsTypes, UnderWay, Syncs, ListsAreSequences
<1>2. Dns!Entry = entries[sync.at] /\ Dns!Entry.name \in Names
  BY <1>1 DEF Dns!Entry, Dns!Refused
<1> DEFINE failed == IF ok THEN sync.failed ELSE sync.failed \cup {Dns!Entry.name}
           good == sync.ok /\ ok
           last == sync.at = Len(entries)
<1>3. failed \in SUBSET Names /\ good \in BOOLEAN /\ (good <=> failed = {})
  BY <1>1, <1>2 DEF DnsInv, Progress
<1>4. sync' = IF last THEN [phase |-> "done", addr |-> sync.addr, at |-> sync.at, read |-> {}, ok |-> good, failed |-> failed,
                            exit |-> IF good THEN 0 ELSE 1]
              ELSE [phase |-> "query", addr |-> sync.addr, at |-> sync.at + 1, read |-> {}, ok |-> good, failed |-> failed,
                    exit |-> sync.exit]
  <2>1. PICK now : now = [sync EXCEPT !.ok = good, !.failed = failed, !.read = {}]
    OBVIOUS
  <2>2. sync' = IF now.at = Len(entries) THEN [now EXCEPT !.phase = "done", !.exit = IF now.ok THEN 0 ELSE 1]
                ELSE [now EXCEPT !.phase = "query", !.at = now.at + 1]
    <3>1. now = [sync EXCEPT !.ok = @ /\ ok, !.failed = IF ok THEN @ ELSE @ \cup {Dns!Entry.name}, !.read = {}]
      BY <2>1
    <3>2. QED
      BY <3>1 DEF Dns!Advance
  <2> HIDE DEF good, failed
  <2>3. now = [phase |-> sync.phase, addr |-> sync.addr, at |-> sync.at, read |-> {}, ok |-> good, failed |-> failed, exit |-> sync.exit]
    BY <1>1, <2>1 DEF Syncs
  <2>4. now.at = sync.at /\ now.ok = good
    BY <2>3
  <2>5. CASE last
    <3>1. PICK status : status = IF good THEN 0 ELSE 1
      OBVIOUS
    <3>2. sync' = [now EXCEPT !.phase = "done", !.exit = status]
      BY <2>2, <2>4, <2>5, <3>1
    <3>3. sync' = [phase |-> "done", addr |-> sync.addr, at |-> sync.at, read |-> {}, ok |-> good, failed |-> failed, exit |-> status]
      BY <2>3, <3>2
    <3>4. QED
      BY <2>5, <3>1, <3>3
  <2>6. CASE ~last
    <3>1. PICK next : next = sync.at + 1
      OBVIOUS
    <3>2. sync' = [now EXCEPT !.phase = "query", !.at = next]
      BY <2>2, <2>4, <2>6, <3>1
    <3>3. sync' = [phase |-> "query", addr |-> sync.addr, at |-> next, read |-> {}, ok |-> good, failed |-> failed, exit |-> sync.exit]
      BY <2>3, <3>2
    <3>4. QED
      BY <2>6, <3>1, <3>3
  <2>7. QED
    BY <2>5, <2>6
<1>5. sync.exit \in {0, 1} /\ sync.at \in Nat /\ sync.at + 1 \in Nat
  BY <1>1 DEF Syncs
<1> HIDE DEF failed, good
<1>6. /\ sync'.read = {} /\ sync'.failed = failed /\ sync'.ok = good /\ sync'.addr = sync.addr
      /\ last => sync'.phase = "done" /\ sync'.at = sync.at /\ (sync'.exit = 0 <=> good)
      /\ ~last => sync'.phase = "query" /\ sync'.at = sync.at + 1
  BY <1>3, <1>4
<1>7. sync' \in Syncs
  BY <1>1, <1>3, <1>4, <1>5 DEF Syncs
<1>8. ASSUME NEW i \in 1..sync.at PROVE Accounts(i)'
  <2>1. entries' = entries /\ sync'.addr = sync.addr /\ sync'.failed = failed /\ sync.failed \subseteq failed
    BY <1>6 DEF failed
  <2>2. CASE entries[i].name = n
    <3>1. ~ok => n \in failed
      BY DEF failed
    <3>2. ok => At(n, sync.addr)'
      OBVIOUS
    <3>3. entries'[i].name = n
      BY <2>1, <2>2
    <3>4. QED
      BY <2>1, <3>1, <3>2, <3>3 DEF Accounts
  <2>3. CASE entries[i].name # n
    <3>1. i \in 1..(sync.at - 1) /\ i \in 1..Len(entries) /\ entries[i].name \in Names
      BY <1>1, <1>2, <2>3 DEF Dns!Refused
    <3>2. Accounts(i) /\ zone'[entries[i].name] = zone[entries[i].name]
      BY <2>3, <3>1 DEF DnsInv, Progress
    <3>3. QED
      BY <2>1, <3>2 DEF Accounts, At, DnsRecords
  <2>4. QED
    BY <2>2, <2>3
<1>9. DnsTypes'
  BY <1>7 DEF DnsInv, DnsTypes, DnsRecords, Decorations, Syncs
<1>10. ZoneAlike'
  BY <1>6 DEF ZoneAlike, Alike
<1>11. UnderWay'
  <2>1. Dns!Refused' = Dns!Refused
    BY DEF Dns!Refused
  <2>2. ~last => sync.at + 1 \in 1..Len(entries)
    BY <1>1
  <2>3. QED
    BY <1>1, <1>6, <2>1, <2>2 DEF UnderWay
<1>12. Progress'
  <2>1. CASE last
    BY <1>1, <1>3, <1>6, <1>8, <2>1 DEF Progress
  <2>2. CASE ~last
    <3>1. sync'.at - 1 = sync.at
      BY <1>1, <1>6, <2>2
    <3>2. QED
      BY <1>3, <1>6, <1>8, <2>2, <3>1 DEF Progress
  <2>3. QED
    BY <2>1, <2>2
<1>13. QED
  BY <1>9, <1>10, <1>11, <1>12 DEF DnsInv

(* A step of the run that leaves the zone alone and settles nothing.       *)
LEMMA SyncKeeps ==
    ASSUME DnsInv, UNCHANGED <<zone, entries, site, wanted>>, sync' \in Syncs, Alike(sync'.read), UnderWay', Progress'
    PROVE  DnsInv'
<1>1. DnsTypes'
  BY DEF DnsInv, DnsTypes, DnsRecords, Decorations, Syncs
<1>2. ZoneAlike'
  BY DEF DnsInv, ZoneAlike, Alike
<1>3. QED
  BY <1>1, <1>2 DEF DnsInv

(* The actions, one by one. *)
LEMMA StartSyncs == ASSUME ListsAreSequences, DnsInv, Dns!Start PROVE DnsInv'
<1>1. UNCHANGED <<zone, entries, site, wanted>> /\ sync \in Syncs /\ site \in Addresses
  BY DEF Dns!Start, DnsInv, DnsTypes
<1>2. CASE Dns!Refused /\ Dns!Ends(1)
  <2>1. sync' = [sync EXCEPT !.phase = "done", !.exit = 1, !.read = {}] /\ sync.at = 0
    BY <1>1, <1>2 DEF Dns!Ends, DnsInv, UnderWay, Syncs
  <2>2. sync' \in Syncs /\ sync'.read = {} /\ sync'.phase = "done" /\ sync'.at = 0 /\ sync'.ok = sync.ok /\ sync'.failed = sync.failed
    BY <1>1, <2>1 DEF Syncs
  <2>3. UnderWay' /\ Progress'
    BY <2>2 DEF DnsInv, UnderWay, Progress
  <2>4. Alike(sync'.read)
    BY <2>2 DEF Alike
  <2>5. QED
    BY <1>1, <2>2, <2>3, <2>4, SyncKeeps
<1>3. CASE sync' = [Dns!Idle EXCEPT !.phase = "done", !.exit = 1]
  <2>1. sync' = [phase |-> "done", addr |-> None, at |-> 0, read |-> {}, ok |-> TRUE, failed |-> {}, exit |-> 1]
    BY <1>3 DEF Dns!Idle
  <2>2. sync' \in Syncs /\ sync'.read = {} /\ sync'.phase = "done" /\ sync'.at = 0 /\ sync'.ok = TRUE /\ sync'.failed = {}
    BY <2>1 DEF Syncs
  <2>3. UnderWay' /\ Progress'
    BY <2>2 DEF UnderWay, Progress
  <2>4. Alike(sync'.read)
    BY <2>2 DEF Alike
  <2>5. QED
    BY <1>1, <2>2, <2>3, <2>4, SyncKeeps
<1>4. CASE ~Dns!Refused /\ sync' = [Dns!Idle EXCEPT !.phase = "query", !.addr = Dns!Current, !.at = 1]
  <2>1. sync' = [phase |-> "query", addr |-> site, at |-> 1, read |-> {}, ok |-> TRUE, failed |-> {}, exit |-> 0]
    BY <1>4 DEF Dns!Idle, Dns!Current
  <2>2. /\ sync' \in Syncs /\ sync'.read = {} /\ sync'.phase = "query" /\ sync'.at = 1 /\ sync'.ok = TRUE /\ sync'.failed = {}
        /\ sync'.addr \in Addresses
    BY <1>1, <2>1 DEF Syncs
  <2>3. 1 \in 1..Len(entries) /\ ~Dns!Refused'
    <3>1. Len(entries) \in Nat /\ DOMAIN entries = 1..Len(entries)
      BY DEF DnsInv, DnsTypes, ListsAreSequences
    <3>2. entries # <<>>
      BY <1>4 DEF Dns!Refused
    <3>3. Len(entries) # 0
      BY <3>1, <3>2
    <3>4. ~Dns!Refused'
      BY <1>1, <1>4 DEF Dns!Refused
    <3>5. QED
      BY <3>1, <3>3, <3>4
  <2>4. UnderWay' /\ Progress'
    BY <1>1, <2>2, <2>3 DEF UnderWay, Progress
  <2>5. Alike(sync'.read)
    BY <2>2 DEF Alike
  <2>6. QED
    BY <1>1, <2>2, <2>4, <2>5, SyncKeeps
<1>5. QED
  BY <1>2, <1>3, <1>4 DEF Dns!Start

(* The instance counts as its module does.                                 *)
LEMMA SameCardinality == ASSUME NEW S PROVE Dns!Cardinality(S) = Cardinality(S)
BY DEF Cardinality, Dns!Cardinality

(* A query reads the records of one name. *)
LEMMA QuerySyncs == ASSUME ListsAreSequences, DnsInv, Dns!Query PROVE DnsInv'
<1>1. /\ sync.phase = "query" /\ UNCHANGED <<zone, entries, site, wanted>> /\ sync \in Syncs
      /\ zone' \in [Names -> SUBSET DnsRecords] /\ \A n \in Names : Alike(zone'[n]) /\ IsFiniteSet(zone'[n])
  BY DEF Dns!Query, DnsInv, DnsTypes, ZoneAlike
<1>2. PICK n \in Names : n = Dns!Entry.name
  <2>1. sync.at \in DOMAIN entries /\ ~Dns!Refused
    BY <1>1 DEF DnsInv, DnsTypes, UnderWay, ListsAreSequences
  <2>2. Dns!Entry.name \in Names
    BY <2>1 DEF Dns!Entry, Dns!Refused
  <2>3. QED
    BY <2>2
<1> DEFINE found == zone[n]
<1>3. Alike(found) /\ IsFiniteSet(found) /\ found \in SUBSET DnsRecords
  BY <1>2 DEF DnsInv, ZoneAlike, DnsTypes
<1>4. CASE Dns!Advance(FALSE)
  BY <1>1, <1>2, <1>4, AdvanceKeeps
<1>5. CASE Dns!Advance(TRUE) /\ ~(Cardinality(found) > 1) /\ \E r \in found : r.content = sync.addr
  <2>1. PICK r \in found : r.content = sync.addr
    BY <1>5
  <2>2. Cardinality(found) \in Nat /\ Cardinality(found) # 0
    BY <1>3, <2>1, FS_CardinalityType, FS_EmptySet
  <2>3. Cardinality(found) = 1
    BY <1>5, <2>2
  <2>4. found = {r}
    BY <1>3, <2>1, <2>3, FS_Singleton
  <2>5. At(n, sync.addr)'
    <3>1. Dns!Advance(TRUE) => sync'.addr = sync.addr
      BY <1>1 DEF Dns!Advance, Syncs
    <3>2. QED
      BY <1>1, <1>3, <1>5, <2>1, <2>4, <3>1 DEF At, DnsRecords
  <2>6. QED
    BY <1>1, <1>2, <1>5, <2>5, AdvanceKeeps
<1>6. CASE sync' = [sync EXCEPT !.phase = "write", !.read = found]
  <2>1. /\ sync' \in Syncs /\ sync'.read = found /\ sync'.phase = "write" /\ sync'.at = sync.at /\ sync'.ok = sync.ok
        /\ sync'.failed = sync.failed /\ sync'.addr = sync.addr
    BY <1>1, <1>3, <1>6 DEF Syncs
  <2>2. Dns!Refused' = Dns!Refused
    BY <1>1 DEF Dns!Refused
  <2>3. \A i : Accounts(i)' = Accounts(i)
    BY <1>1, <2>1 DEF Accounts, At, DnsRecords
  <2>4. UnderWay'
    BY <1>1, <2>1, <2>2 DEF DnsInv, UnderWay
  <2>5. Progress'
    BY <1>1, <2>1, <2>3 DEF DnsInv, Progress
  <2>6. QED
    BY <1>1, <1>3, <2>1, <2>4, <2>5, SyncKeeps
<1>7. \/ Dns!Advance(FALSE)
      \/ Dns!Advance(TRUE) /\ ~(Cardinality(found) > 1) /\ \E r \in found : r.content = sync.addr
      \/ sync' = [sync EXCEPT !.phase = "write", !.read = found]
  <2>1. \/ Dns!Advance(FALSE)
        \/ IF Cardinality(found) > 1 THEN Dns!Advance(FALSE)
           ELSE IF \E r \in found : r.content = sync.addr THEN Dns!Advance(TRUE)
           ELSE sync' = [sync EXCEPT !.phase = "write", !.read = found]
    <3>1. \/ Dns!Spend /\ Dns!Advance(FALSE)
          \/ UNCHANGED changes /\ IF Dns!Cardinality(zone[Dns!Entry.name]) > 1 THEN Dns!Advance(FALSE)
                                   ELSE IF \E r \in zone[Dns!Entry.name] : r.content = sync.addr THEN Dns!Advance(TRUE)
                                   ELSE sync' = [sync EXCEPT !.phase = "write", !.read = zone[Dns!Entry.name]]
      BY Zenon DEF Dns!Query
    <3>2. zone[Dns!Entry.name] = found
      BY <1>2
    <3>3. Dns!Cardinality(found) = Cardinality(found)
      BY SameCardinality
    <3>4. QED
      BY <3>1, <3>2, <3>3
  <2>2. QED
    BY <2>1
<1>8. QED
  BY <1>4, <1>5, <1>6, <1>7

(* What a write sends: a record at the address of the run, decorated as    *)
(* the record that was read.                                               *)
LEMMA PayloadOf ==
    ASSUME DnsInv, sync.addr \in Addresses, NEW p, p = Dns!Payload(sync.read)
    PROVE  /\ p \in DnsRecords /\ p.content = sync.addr
           /\ \A r \in sync.read : r.proxied = p.proxied /\ r.note = p.note
<1>1. sync.read \in SUBSET DnsRecords /\ Alike(sync.read)
  BY DEF DnsInv, DnsTypes, ZoneAlike, Syncs
<1>2. CASE sync.read = {}
  <2>1. PICK flag \in BOOLEAN : flag = (Dns!Entry.flag # "false")
    OBVIOUS
  <2>2. p = [content |-> sync.addr, proxied |-> flag, note |-> None]
    BY <1>2, <2>1 DEF Dns!Payload
  <2>3. QED
    BY <1>2, <2>2 DEF DnsRecords
<1>3. CASE sync.read # {}
  <2>1. PICK r \in sync.read : r = CHOOSE x \in sync.read : TRUE
    BY <1>3
  <2>2. p = [r EXCEPT !.content = sync.addr]
    BY <1>3, <2>1 DEF Dns!Payload
  <2>3. r \in DnsRecords
    BY <1>1
  <2>4. p \in DnsRecords /\ p.content = sync.addr /\ p.proxied = r.proxied /\ p.note = r.note
    BY <2>2, <2>3 DEF DnsRecords
  <2>5. QED
    BY <1>1, <2>4 DEF Alike
<1>4. QED
  BY <1>2, <1>3

(* A write makes one record of those that were read, or none on a failure. *)
LEMMA WriteSyncs == ASSUME ListsAreSequences, DnsInv, Dns!Write PROVE DnsInv'
<1>1. sync.phase = "write" /\ UNCHANGED <<entries, site, wanted>> /\ zone \in [Names -> SUBSET DnsRecords] /\ sync.addr \in Addresses
  BY DEF Dns!Write, DnsInv, DnsTypes, UnderWay
<1>2. PICK n \in Names : n = Dns!Entry.name
  <2>1. sync.at \in DOMAIN entries /\ ~Dns!Refused
    BY <1>1 DEF DnsInv, DnsTypes, UnderWay, ListsAreSequences
  <2>2. Dns!Entry.name \in Names
    BY <2>1 DEF Dns!Entry, Dns!Refused
  <2>3. QED
    BY <2>2
<1>3. PICK p : p = Dns!Payload(sync.read)
  OBVIOUS
<1>4. p \in DnsRecords /\ p.content = sync.addr
  BY <1>1, <1>3, PayloadOf
<1>5. CASE zone' = [zone EXCEPT ![n] = {p}]
  <2>1. zone' \in [Names -> SUBSET DnsRecords] /\ zone'[n] = {p} /\ \A m \in Names : m # n => zone'[m] = zone[m]
    BY <1>1, <1>4, <1>5
  <2>2. \A m \in Names : Alike(zone'[m]) /\ IsFiniteSet(zone'[m])
    <3>1. Alike({p}) /\ IsFiniteSet({p})
      BY FS_Singleton DEF Alike
    <3>2. QED
      BY <2>1, <3>1 DEF DnsInv, ZoneAlike
  <2>3. CASE Dns!Advance(FALSE)
    BY <1>1, <1>2, <2>1, <2>2, <2>3, AdvanceKeeps
  <2>4. CASE Dns!Advance(TRUE)
    <3>1. sync'.addr = sync.addr
      BY <2>4 DEF Dns!Advance, DnsInv, DnsTypes, Syncs
    <3>2. At(n, sync.addr)'
      BY <1>4, <2>1, <3>1 DEF At, DnsRecords
    <3>3. QED
      BY <1>1, <1>2, <2>1, <2>2, <2>4, <3>2, AdvanceKeeps
  <2>5. QED
    BY <2>3, <2>4 DEF Dns!Write
<1>6. CASE zone' = zone /\ Dns!Advance(FALSE)
  <2>1. zone' \in [Names -> SUBSET DnsRecords] /\ \A m \in Names : Alike(zone'[m]) /\ IsFiniteSet(zone'[m])
    BY <1>1, <1>6 DEF DnsInv, ZoneAlike
  <2>2. \A m \in Names : m # n => zone'[m] = zone[m]
    BY <1>6
  <2>3. QED
    BY <1>1, <1>2, <1>6, <2>1, <2>2, AdvanceKeeps
<1>7. QED
  BY <1>2, <1>3, <1>5, <1>6 DEF Dns!Write

(* A killed run leaves the zone as it is. *)
LEMMA KilledSyncs == ASSUME DnsInv, Dns!Killed PROVE DnsInv'
<1>1. UNCHANGED <<zone, entries, site, wanted>>
  BY DEF Dns!Killed
<1>2. sync' = [phase |-> "done", addr |-> None, at |-> 0, read |-> {}, ok |-> TRUE, failed |-> {}, exit |-> 1]
  BY DEF Dns!Killed, Dns!Idle
<1>3. sync' \in Syncs /\ sync'.read = {} /\ sync'.phase = "done" /\ sync'.at = 0 /\ sync'.ok = TRUE /\ sync'.failed = {}
  BY <1>2 DEF Syncs
<1>4. UnderWay' /\ Progress' /\ Alike(sync'.read)
  BY <1>3 DEF UnderWay, Progress, Alike
<1>5. QED
  BY <1>1, <1>3, <1>4, SyncKeeps

(* What acts beside the job decorates records and moves none.              *)
LEMMA BesideKeeps ==
    ASSUME DnsInv, UNCHANGED <<entries, sync>>, site' \in Addresses, wanted' \in [Names -> Decorations],
           zone' \in [Names -> SUBSET DnsRecords], \A n \in Names : Alike(zone'[n]) /\ IsFiniteSet(zone'[n]),
           \A n, addr : At(n, addr) => At(n, addr)'
    PROVE  DnsInv'
<1>1. DnsTypes'
  BY DEF DnsInv, DnsTypes, DnsRecords, Decorations, Syncs
<1>2. ZoneAlike'
  BY DEF DnsInv, ZoneAlike, Alike
<1>3. UnderWay'
  BY DEF DnsInv, UnderWay, Dns!Refused
<1>4. \A i : Accounts(i) => Accounts(i)'
  <2>1. TAKE i
  <2>2. HAVE Accounts(i)
  <2>3. CASE entries[i].name \in sync.failed
    BY <2>3 DEF Accounts
  <2>4. CASE At(entries[i].name, sync.addr)
    <3>1. PICK n, addr : n = entries[i].name /\ addr = sync.addr
      OBVIOUS
    <3>2. At(n, addr)'
      BY <2>4, <3>1
    <3>3. n = entries'[i].name /\ addr = sync'.addr
      BY <3>1
    <3>4. QED
      BY <3>2, <3>3 DEF Accounts
  <2>5. QED
    BY <2>2, <2>3, <2>4 DEF Accounts
<1>5. Progress'
  BY <1>4 DEF DnsInv, Progress
<1>6. QED
  BY <1>1, <1>2, <1>3, <1>5 DEF DnsInv

(* A step of the surroundings leaves the run alone. *)
LEMMA QuietBeside ==
    ASSUME DnsInv, UNCHANGED <<entries, sync, zone>>, site' \in Addresses, wanted' \in [Names -> Decorations] PROVE DnsInv'
<1>1. zone' \in [Names -> SUBSET DnsRecords] /\ \A n \in Names : Alike(zone'[n]) /\ IsFiniteSet(zone'[n])
  BY DEF DnsInv, DnsTypes, ZoneAlike
<1>2. \A n, addr : At(n, addr) => At(n, addr)'
  BY DEF At, DnsRecords
<1>3. QED
  BY <1>1, <1>2, BesideKeeps

(* Terraform changes what the records declare, not where they point. *)
LEMMA TerraformKeeps == ASSUME DnsInv, Dns!TerraformApplies PROVE DnsInv'
<1>1. PICK n \in Names : zone' = [zone EXCEPT ![n] = Dns!Decorated(n)]
  BY DEF Dns!TerraformApplies
<1>2. UNCHANGED <<entries, site, wanted, sync>> /\ zone \in [Names -> SUBSET DnsRecords] /\ wanted[n] \in Decorations
  BY DEF Dns!TerraformApplies, DnsInv, DnsTypes
<1>3. PICK b \in BOOLEAN, x \in Notes : b = wanted[n].proxied /\ x = wanted[n].note
  BY <1>2 DEF Decorations
<1> DEFINE decorated == {[content |-> r.content, proxied |-> b, note |-> x] : r \in zone[n]}
<1>4. Dns!Decorated(n) = decorated
  BY <1>3 DEF Dns!Decorated
<1>5. decorated \in SUBSET DnsRecords
  <2>1. \A r \in zone[n] : r.content \in Addresses
    BY <1>2 DEF DnsRecords
  <2>2. QED
    BY <1>3, <2>1 DEF DnsRecords
<1>6. Alike(decorated)
  <2>1. \A s \in decorated : s.proxied = b /\ s.note = x
    OBVIOUS
  <2>2. QED
    BY <2>1 DEF Alike
<1>7. IsFiniteSet(decorated)
  <2>1. PICK f : f = [r \in zone[n] |-> [content |-> r.content, proxied |-> b, note |-> x]]
    OBVIOUS
  <2>2. decorated = {f[r] : r \in zone[n]} /\ DOMAIN f = zone[n] /\ f = [r \in zone[n] |-> f[r]]
    BY <2>1
  <2>3. PICK S : S = zone[n] /\ IsFiniteSet(S)
    BY DEF DnsInv, ZoneAlike
  <2>4. DOMAIN f = S /\ f = [r \in S |-> f[r]] /\ decorated = {f[r] : r \in S}
    BY <2>2, <2>3
  <2>5. IsFiniteSet({f[r] : r \in S})
    BY <2>3, <2>4, ImageIsFinite
  <2>6. QED
    BY <2>4, <2>5
<1>8. ASSUME NEW r, zone[n] = {r} PROVE decorated = {[content |-> r.content, proxied |-> b, note |-> x]}
  BY <1>8
<1> HIDE DEF decorated
<1>9. zone' \in [Names -> SUBSET DnsRecords] /\ zone'[n] = decorated /\ \A m : m # n => zone'[m] = zone[m]
  BY <1>1, <1>2, <1>4, <1>5
<1>10. \A m \in Names : Alike(zone'[m]) /\ IsFiniteSet(zone'[m])
  BY <1>6, <1>7, <1>9 DEF DnsInv, ZoneAlike
<1>11. ASSUME NEW m, NEW addr, At(m, addr) PROVE At(m, addr)'
  <2>1. PICK r \in DnsRecords : zone[m] = {r} /\ r.content = addr
    BY <1>11 DEF At
  <2>2. CASE m = n
    <3>1. zone'[m] = {[content |-> r.content, proxied |-> b, note |-> x]}
      BY <1>8, <1>9, <2>1, <2>2
    <3>2. r.content \in Addresses
      BY <2>1 DEF DnsRecords
    <3>3. [content |-> r.content, proxied |-> b, note |-> x] \in DnsRecords
      BY <1>3, <3>2 DEF DnsRecords
    <3>4. QED
      BY <2>1, <3>1, <3>3 DEF At, DnsRecords
  <2>3. CASE m # n
    BY <1>9, <2>1, <2>3 DEF At, DnsRecords
  <2>4. QED
    BY <2>2, <2>3
<1>12. site' \in Addresses /\ wanted' \in [Names -> Decorations]
  BY <1>2 DEF DnsInv, DnsTypes
<1>13. QED
  BY <1>2, <1>9, <1>10, <1>11, <1>12, BesideKeeps

(* Every step keeps DnsInv. *)
LEMMA DnsInductive ==
    ASSUME ListsAreSequences, DnsInv, Dns!DdnsNext \/ UNCHANGED ddnsVars PROVE DnsInv'
<1>1. CASE Dns!Start \/ Dns!Query \/ Dns!Write \/ Dns!Killed
  BY <1>1, StartSyncs, QuerySyncs, WriteSyncs, KilledSyncs
<1>2. CASE Dns!Moves
  <2>1. UNCHANGED <<entries, sync, zone>> /\ site' \in Addresses /\ wanted' \in [Names -> Decorations]
    BY <1>2 DEF Dns!Moves, DnsInv, DnsTypes
  <2>2. QED
    BY <2>1, QuietBeside
<1>3. CASE Dns!Declares
  <2>1. UNCHANGED <<entries, sync, zone>> /\ site' \in Addresses /\ wanted' \in [Names -> Decorations]
    BY <1>3 DEF Dns!Declares, DnsInv, DnsTypes, Decorations
  <2>2. QED
    BY <2>1, QuietBeside
<1>4. CASE Dns!TerraformApplies
  BY <1>4, TerraformKeeps
<1>5. CASE UNCHANGED ddnsVars
  <2>1. UNCHANGED <<entries, sync, zone>> /\ site' \in Addresses /\ wanted' \in [Names -> Decorations]
    BY <1>5 DEF ddnsVars, DnsInv, DnsTypes
  <2>2. QED
    BY <2>1, QuietBeside
<1>6. QED
  BY <1>1, <1>2, <1>3, <1>4, <1>5 DEF Dns!DdnsNext, Dns!Job

(* The two promises, of a state and of a write.                            *)
LEMMA RecordsAccounted == ASSUME ListsAreSequences, DnsInv PROVE Dns!EveryRecordAccounted
<1>1. SUFFICES ASSUME sync.phase = "done", sync.at > 0, NEW i \in DOMAIN entries, At(entries[i].name, sync.addr)
               PROVE  Dns!PointsAt(entries[i].name, sync.addr)
  BY DEF DnsInv, Progress, Accounts, Dns!EveryRecordAccounted
<1>2. PICK r \in DnsRecords : zone[entries[i].name] = {r} /\ r.content = sync.addr
  BY <1>1 DEF At
<1>3. Dns!Cardinality({r}) = 1
  BY FS_Singleton, SameCardinality
<1>4. QED
  BY <1>2, <1>3 DEF Dns!PointsAt

(* A write sends the decorations that were read. *)
LEMMA WriteKeepsDecorations == ASSUME DnsInv PROVE Dns!DecorationsKept
<1>1. SUFFICES ASSUME Dns!Write, NEW m \in Names, NEW r \in zone[m], NEW s \in zone'[m], r \in sync.read
               PROVE  r.proxied = s.proxied /\ r.note = s.note
  BY DEF Dns!DecorationsKept
<1>2. zone \in [Names -> SUBSET DnsRecords] /\ Alike(zone[m]) /\ sync.addr \in Addresses
  BY <1>1 DEF Dns!Write, DnsInv, DnsTypes, ZoneAlike, UnderWay
<1>3. PICK p, n : p = Dns!Payload(sync.read) /\ n = Dns!Entry.name
  OBVIOUS
<1>4. zone' = [zone EXCEPT ![n] = {p}] \/ zone' = zone
  BY <1>1, <1>3 DEF Dns!Write
<1>5. s \in zone[m] \/ s = p
  BY <1>1, <1>2, <1>4
<1>6. CASE s \in zone[m]
  BY <1>1, <1>2, <1>6 DEF Alike
<1>7. CASE s = p
  BY <1>1, <1>2, <1>3, <1>7, PayloadOf
<1>8. QED
  BY <1>5, <1>6, <1>7

(* The same in the composition: when the job is the machine, and when it   *)
(* rests.                                                                  *)
Resolving == (job = "dns" => DnsInv) /\ (job # "dns" => sync.phase = "idle")

(* A behaviour of the job begins as the job does. *)
LEMMA ResolvingBegins == ASSUME ListsAreSequences, OperationsInit PROVE Resolving
<1>1. job = "dns" => Dns!DdnsInit
  BY DEF OperationsInit
<1>2. job # "dns" => sync = Dns!Idle
  BY DEF OperationsInit, OthersRest, DnsRests
<1>3. sync = Dns!Idle => sync.phase = "idle"
  BY DEF Dns!Idle
<1>4. QED
  BY <1>1, <1>2, <1>3, DnsBegins DEF Resolving

(* Its steps are steps of the job. *)
LEMMA ResolvingKeeps ==
    ASSUME ListsAreSequences, Resolving, [OperationsNext]_operationVars PROVE Resolving'
<1>1. job' = job
  BY DEF OperationsNext, operationVars
<1>2. CASE job = "dns"
  <2>1. Dns!DdnsNext \/ UNCHANGED ddnsVars
    BY <1>2 DEF OperationsNext, operationVars
  <2>2. QED
    BY <1>1, <1>2, <2>1, DnsInductive DEF Resolving
<1>3. CASE job # "dns"
  <2>1. UNCHANGED ddnsVars
    BY <1>3 DEF OperationsNext, operationVars
  <2>2. sync' = sync
    BY <2>1 DEF ddnsVars
  <2>3. QED
    BY <1>1, <1>3, <2>2 DEF Resolving
<1>4. QED
  BY <1>2, <1>3

(* A run of the dynamic DNS job that went through its list leaves each     *)
(* record at the site's address or counted as failed, and exits 0 exactly  *)
(* if none failed; and no write of it changes the decorations it read:     *)
(* cloudflare-ddns.py, beside Terraform, for every list, zone and number   *)
(* of moves and faults.                                                    *)
THEOREM DnsStaysRight == ASSUME ListsAreSequences PROVE Operations => DnsWritesRight
<1>1. OperationsInit => Resolving
  BY ResolvingBegins
<1>2. Resolving /\ [OperationsNext]_operationVars => Resolving'
  BY ResolvingKeeps
<1>3. Resolving => Dns!DecorationsKept
  <2>1. CASE job = "dns"
    BY <2>1, WriteKeepsDecorations DEF Resolving
  <2>2. CASE job # "dns"
    BY <2>2 DEF Resolving, Dns!DecorationsKept, Dns!Write
  <2>3. QED
    BY <2>1, <2>2
<1>4. Resolving => (job = "dns" => Dns!EveryRecordAccounted)
  BY RecordsAccounted DEF Resolving
<1>5. QED
  BY <1>1, <1>2, <1>3, <1>4, PTL DEF Operations, DnsWritesRight

-----------------------------------------------------------------------------
(* The verification after maintenance. *)

(* What may be broken, and what is kept of a verification. *)
Anything == Maintenance!NodeItems \cup Items
Verifications ==
    [check : {"nodes", "pods", "deployments", "jobs", "dns", "done"}, step : Nat \ {0}, listed : SUBSET Anything,
     kured : SUBSET Nodes, known : BOOLEAN, errors : {0, 1}, due : SUBSET Anything]

(* Where each check lists, and where it asks which nodes kured reboots.    *)
ListsAt == [nodes |-> 1, pods |-> 1, deployments |-> 2, jobs |-> 2]
AsksAt == [nodes |-> 2, pods |-> 3, deployments |-> 1, jobs |-> 1]
(* A check that reads the cluster. *)
Looking == verify.check \in {"nodes", "pods", "deployments", "jobs"}

(* What the items of the instances are; Reported reads the name of a node. *)
ItemsAreNoNodes == \A i \in Items : i.check # "nodes"

(* The variables have their types. *)
VerifyTypes == verify \in Verifications /\ broken \subseteq Anything

(* No excuse is older than its check: the nodes a check excuses by are     *)
(* among those that were rebooting at some moment of it.                   *)
ExcusesAreNew ==
    /\ Maintenance!Rebooting \subseteq around
    /\ Looking /\ verify.step > AsksAt[verify.check] => verify.kured \subseteq around

(* What is broken stays in the list, once it was read.                     *)
BrokenStaysListed ==
    Looking /\ verify.step > ListsAt[verify.check] /\ verify.errors = 0 =>
        {i \in broken : i.check = verify.check} \subseteq verify.listed

(* What was due is an error by now. *)
DueIsReported == verify.due # {} => verify.errors = 1

(* The inductive invariant of a verification. *)
VerifyInv == VerifyTypes /\ ExcusesAreNew /\ BrokenStaysListed /\ DueIsReported

(* It holds at the start. *)
LEMMA VerifyBegins == ASSUME Maintenance!VerifyInit PROVE VerifyInv
<1>1. /\ verify = [check |-> "nodes", step |-> 1, listed |-> {}, kured |-> {}, known |-> TRUE, errors |-> 0, due |-> {}]
      /\ around = {}
  BY DEF Maintenance!VerifyInit, Maintenance!At
<1>2. broken \subseteq Anything
  BY DEF Maintenance!VerifyInit, Anything
<1>3. Maintenance!Rebooting = {}
  BY DEF Maintenance!VerifyInit, Maintenance!Rebooting
<1>4. VerifyTypes
  BY <1>1, <1>2 DEF VerifyTypes, Verifications
<1>5. ExcusesAreNew /\ BrokenStaysListed /\ DueIsReported
  BY <1>1, <1>3 DEF ExcusesAreNew, BrokenStaysListed, DueIsReported, Looking, AsksAt, ListsAt
<1>6. QED
  BY <1>4, <1>5 DEF VerifyInv

(* Lists of calls, place by place. *)
LEMMA FourCalls ==
    ASSUME NEW a, NEW b, NEW c, NEW d, NEW calls, calls = <<a, b, c, d>>
    PROVE  DOMAIN calls = 1..4 /\ calls[1] = a /\ calls[2] = b /\ calls[3] = c /\ calls[4] = d
OBVIOUS

(* Three of them. *)
LEMMA ThreeCalls ==
    ASSUME NEW a, NEW b, NEW c, NEW calls, calls = <<a, b, c>>
    PROVE  DOMAIN calls = 1..3 /\ calls[1] = a /\ calls[2] = b /\ calls[3] = c
OBVIOUS

(* Which call a step of a check is.                                        *)
CallMeans(check, step, lists, asks, call) ==
    /\ call # "none" => Looking
    /\ call = "list" => step = lists /\ step # asks
    /\ call \in {"kured", "reask"} => step # lists
    /\ call \in {"relist", "lookup"} => step > lists /\ step # asks
    /\ call = "relist" => check \in {"nodes", "pods", "deployments"}
    /\ call = "relist" /\ check = "nodes" => step > asks
    /\ Looking /\ call = "none" => step > lists /\ step > asks

(* What each check calls, and in which order. *)
LEMMA CallsOfChecks ==
    ASSUME VerifyTypes
    PROVE  CallMeans(verify.check, verify.step, ListsAt[verify.check], AsksAt[verify.check], Maintenance!Call)
<1> DEFINE check == verify.check
           step == verify.step
           lists == ListsAt[verify.check]
           asks == AsksAt[verify.check]
           calls == Maintenance!Calls[verify.check]
<1>1. check \in {"nodes", "pods", "deployments", "jobs", "dns", "done"} /\ step \in Nat \ {0}
  BY DEF VerifyTypes, Verifications
<1>2. Maintenance!Call = IF check \in DOMAIN Maintenance!Calls /\ step \in DOMAIN calls THEN calls[step] ELSE "none"
  BY DEF Maintenance!Call
<1>0. SUFFICES CallMeans(check, step, lists, asks, Maintenance!Call)
  OBVIOUS
<1> HIDE DEF check, step, lists, asks, calls
<1>3. CASE check = "nodes"
  <2>1. check \in DOMAIN Maintenance!Calls /\ calls = <<"list", "kured", "relist", "reask">>
    BY <1>3 DEF Maintenance!Calls, calls, check
  <2>2. DOMAIN calls = 1..4 /\ calls[1] = "list" /\ calls[2] = "kured" /\ calls[3] = "relist" /\ calls[4] = "reask"
    BY <2>1, FourCalls
  <2>3. Looking /\ lists = 1 /\ asks = 2
    BY <1>3 DEF check, Looking, ListsAt, AsksAt, lists, asks
  <2>4. Maintenance!Call = IF step \in 1..4 THEN calls[step] ELSE "none"
    BY <1>2, <2>1, <2>2
  <2>5. CASE step = 1
    BY <1>3, <2>1, <2>2, <2>3, <2>4, <2>5 DEF CallMeans
  <2>6. CASE step = 2
    BY <1>3, <2>1, <2>2, <2>3, <2>4, <2>6 DEF CallMeans
  <2>7. CASE step = 3
    BY <1>3, <2>1, <2>2, <2>3, <2>4, <2>7 DEF CallMeans
  <2>8. CASE step = 4
    BY <1>3, <2>1, <2>2, <2>3, <2>4, <2>8 DEF CallMeans
  <2>9. CASE step > 4
    <3>1. Maintenance!Call = "none"
      BY <2>4, <2>9
    <3>2. QED
      BY <1>1, <2>3, <2>9, <3>1 DEF CallMeans
  <2>10. QED
    BY <1>1, <2>5, <2>6, <2>7, <2>8, <2>9
<1>4. CASE check = "pods"
  <2>1. check \in DOMAIN Maintenance!Calls /\ calls = <<"list", "relist", "kured", "lookup">>
    BY <1>4 DEF Maintenance!Calls, calls, check
  <2>2. DOMAIN calls = 1..4 /\ calls[1] = "list" /\ calls[2] = "relist" /\ calls[3] = "kured" /\ calls[4] = "lookup"
    BY <2>1, FourCalls
  <2>3. Looking /\ lists = 1 /\ asks = 3
    BY <1>4 DEF check, Looking, ListsAt, AsksAt, lists, asks
  <2>4. Maintenance!Call = IF step \in 1..4 THEN calls[step] ELSE "none"
    BY <1>2, <2>1, <2>2
  <2>5. CASE step = 1
    BY <1>4, <2>1, <2>2, <2>3, <2>4, <2>5 DEF CallMeans
  <2>6. CASE step = 2
    BY <1>4, <2>1, <2>2, <2>3, <2>4, <2>6 DEF CallMeans
  <2>7. CASE step = 3
    BY <1>4, <2>1, <2>2, <2>3, <2>4, <2>7 DEF CallMeans
  <2>8. CASE step = 4
    BY <1>4, <2>1, <2>2, <2>3, <2>4, <2>8 DEF CallMeans
  <2>9. CASE step > 4
    <3>1. Maintenance!Call = "none"
      BY <2>4, <2>9
    <3>2. QED
      BY <1>1, <2>3, <2>9, <3>1 DEF CallMeans
  <2>10. QED
    BY <1>1, <2>5, <2>6, <2>7, <2>8, <2>9
<1>5. CASE check = "deployments"
  <2>1. check \in DOMAIN Maintenance!Calls /\ calls = <<"kured", "list", "lookup", "relist">>
    BY <1>5 DEF Maintenance!Calls, calls, check
  <2>2. DOMAIN calls = 1..4 /\ calls[1] = "kured" /\ calls[2] = "list" /\ calls[3] = "lookup" /\ calls[4] = "relist"
    BY <2>1, FourCalls
  <2>3. Looking /\ lists = 2 /\ asks = 1
    BY <1>5 DEF check, Looking, ListsAt, AsksAt, lists, asks
  <2>4. Maintenance!Call = IF step \in 1..4 THEN calls[step] ELSE "none"
    BY <1>2, <2>1, <2>2
  <2>5. CASE step = 1
    BY <1>5, <2>1, <2>2, <2>3, <2>4, <2>5 DEF CallMeans
  <2>6. CASE step = 2
    BY <1>5, <2>1, <2>2, <2>3, <2>4, <2>6 DEF CallMeans
  <2>7. CASE step = 3
    BY <1>5, <2>1, <2>2, <2>3, <2>4, <2>7 DEF CallMeans
  <2>8. CASE step = 4
    BY <1>5, <2>1, <2>2, <2>3, <2>4, <2>8 DEF CallMeans
  <2>9. CASE step > 4
    <3>1. Maintenance!Call = "none"
      BY <2>4, <2>9
    <3>2. QED
      BY <1>1, <2>3, <2>9, <3>1 DEF CallMeans
  <2>10. QED
    BY <1>1, <2>5, <2>6, <2>7, <2>8, <2>9
<1>6. CASE check = "jobs"
  <2>1. check \in DOMAIN Maintenance!Calls /\ calls = <<"kured", "list", "lookup">>
    BY <1>6 DEF Maintenance!Calls, calls, check
  <2>2. DOMAIN calls = 1..3 /\ calls[1] = "kured" /\ calls[2] = "list" /\ calls[3] = "lookup"
    BY <2>1, ThreeCalls
  <2>3. Looking /\ lists = 2 /\ asks = 1
    BY <1>6 DEF check, Looking, ListsAt, AsksAt, lists, asks
  <2>4. Maintenance!Call = IF step \in 1..3 THEN calls[step] ELSE "none"
    BY <1>2, <2>1, <2>2
  <2>5. CASE step = 1
    BY <1>6, <2>1, <2>2, <2>3, <2>4, <2>5 DEF CallMeans
  <2>6. CASE step = 2
    BY <1>6, <2>1, <2>2, <2>3, <2>4, <2>6 DEF CallMeans
  <2>7. CASE step = 3
    BY <1>6, <2>1, <2>2, <2>3, <2>4, <2>7 DEF CallMeans
  <2>8. CASE step > 3
    <3>1. Maintenance!Call = "none"
      BY <2>4, <2>8
    <3>2. QED
      BY <1>1, <2>3, <2>8, <3>1 DEF CallMeans
  <2>9. QED
    BY <1>1, <2>5, <2>6, <2>7, <2>8
<1>7. CASE check \in {"dns", "done"}
  <2>1. Maintenance!Call = "none"
    BY <1>2, <1>7 DEF Maintenance!Calls
  <2>2. ~Looking
    BY <1>7 DEF check, Looking
  <2>3. QED
    BY <2>1, <2>2 DEF CallMeans
<1>8. QED
  BY <1>1, <1>3, <1>4, <1>5, <1>6, <1>7

(* What is broken is unhealthy, so every list of its check has it.         *)
LEMMA BrokenIsBad ==
    ASSUME VerifyTypes PROVE {i \in broken : i.check = verify.check} \subseteq Maintenance!Bad(verify.check)
BY DEF VerifyTypes, Anything, Maintenance!Bad, Maintenance!Unhealthy

(* A call goes on to a later step: what it read has to be right.           *)
LEMMA CallStep ==
    ASSUME VerifyInv, NEW s \in Nat \ {0}, NEW l \in SUBSET Anything, NEW k \in SUBSET Nodes, NEW e \in {0, 1}, NEW b \in BOOLEAN,
           Looking,
           verify' = [verify EXCEPT !.step = s, !.listed = l, !.kured = k, !.known = b, !.errors = e],
           UNCHANGED <<nodes, broken, around>>,
           e = 0 => verify.errors = 0,
           s > AsksAt[verify.check] => k \subseteq around,
           s > ListsAt[verify.check] /\ e = 0 => {i \in broken : i.check = verify.check} \subseteq l
    PROVE  VerifyInv'
<1>1. verify \in Verifications /\ broken \subseteq Anything
  BY DEF VerifyInv, VerifyTypes
<1>2. verify' \in Verifications
  BY <1>1 DEF Verifications
<1>3. /\ verify'.check = verify.check /\ verify'.step = s /\ verify'.listed = l /\ verify'.kured = k
      /\ verify'.errors = e /\ verify'.due = verify.due
  BY <1>1 DEF Verifications
<1>4. VerifyTypes'
  BY <1>1, <1>2 DEF VerifyTypes, Anything, Maintenance!NodeItems, Verifications
<1>5. ExcusesAreNew'
  <2>1. Maintenance!Rebooting' = Maintenance!Rebooting
    BY DEF Maintenance!Rebooting
  <2>2. QED
    BY <1>3, <2>1 DEF VerifyInv, ExcusesAreNew, Looking
<1>6. BrokenStaysListed'
  BY <1>3 DEF BrokenStaysListed, Looking
<1>7. DueIsReported'
  BY <1>3 DEF VerifyInv, DueIsReported
<1>8. QED
  BY <1>4, <1>5, <1>6, <1>7 DEF VerifyInv

(* The calls, one by one: lists.                                           *)
LEMMA ListKeeps == ASSUME VerifyInv, Maintenance!List PROVE VerifyInv'
<1> DEFINE bad == Maintenance!Bad(verify.check)
<1>1. /\ VerifyTypes /\ verify.step \in Nat \ {0} /\ verify.kured \in SUBSET Nodes /\ verify.errors \in {0, 1}
      /\ verify.known \in BOOLEAN /\ verify \in Verifications
  BY DEF VerifyInv, VerifyTypes, Verifications
<1>2. Looking /\ verify.step = ListsAt[verify.check] /\ verify.step # AsksAt[verify.check]
  BY <1>1, CallsOfChecks DEF Maintenance!List, CallMeans
<1>3. UNCHANGED <<nodes, broken, around>>
  BY DEF Maintenance!List, Maintenance!Goes
<1>4. bad \in SUBSET Anything /\ {i \in broken : i.check = verify.check} \subseteq bad
  BY <1>1, BrokenIsBad DEF Maintenance!Bad, Anything
<1>5. verify.step + 1 \in Nat \ {0} /\ (verify.step + 1 > AsksAt[verify.check] => verify.kured \subseteq around)
  <2>1. AsksAt[verify.check] \in Nat
    BY <1>2 DEF Looking, AsksAt
  <2>2. verify.step + 1 > AsksAt[verify.check] => verify.step > AsksAt[verify.check]
    BY <1>1, <1>2, <2>1
  <2>3. QED
    BY <1>1, <1>2, <2>2 DEF VerifyInv, ExcusesAreNew
<1> HIDE DEF bad
<1>6. CASE verify' = [[verify EXCEPT !.listed = bad] EXCEPT !.step = @ + 1]
  <2>1. verify' = [verify EXCEPT !.step = verify.step + 1, !.listed = bad, !.kured = verify.kured, !.known = verify.known,
                                 !.errors = verify.errors]
    BY <1>1, <1>6 DEF Verifications
  <2>2. QED
    BY <1>1, <1>2, <1>3, <1>4, <1>5, <2>1, CallStep
<1>7. CASE verify' = [[Maintenance!Alarm(verify) EXCEPT !.listed = {}] EXCEPT !.step = @ + 1]
  <2>1. verify' = [verify EXCEPT !.step = verify.step + 1, !.listed = {}, !.kured = verify.kured, !.known = verify.known, !.errors = 1]
    BY <1>1, <1>7 DEF Verifications, Maintenance!Alarm
  <2>2. PICK e \in {0, 1}, l \in SUBSET Anything : e = 1 /\ l = {}
    OBVIOUS
  <2>3. verify' = [verify EXCEPT !.step = verify.step + 1, !.listed = l, !.kured = verify.kured, !.known = verify.known, !.errors = e]
    BY <2>1, <2>2
  <2>4. e # 0
    BY <2>2
  <2>5. QED
    BY <1>1, <1>2, <1>3, <1>5, <2>3, <2>4, CallStep
<1>8. QED
  BY <1>6, <1>7 DEF Maintenance!List, Maintenance!Goes, bad

(* kured's nodes, or none for a call that failed.                          *)
LEMMA KuredKeeps == ASSUME VerifyInv, Maintenance!Kured PROVE VerifyInv'
<1>1. /\ VerifyTypes /\ verify.step \in Nat \ {0} /\ verify.listed \in SUBSET Anything /\ verify.errors \in {0, 1}
      /\ verify.known \in BOOLEAN /\ verify \in Verifications
  BY DEF VerifyInv, VerifyTypes, Verifications
<1>2. Looking /\ verify.step # ListsAt[verify.check]
  BY <1>1, CallsOfChecks DEF Maintenance!Kured, CallMeans
<1>3. PICK k \in {Maintenance!Rebooting, {}} : verify' = [[verify EXCEPT !.kured = k] EXCEPT !.step = @ + 1]
  BY DEF Maintenance!Kured, Maintenance!Goes
<1>4. UNCHANGED <<nodes, broken, around>>
  BY DEF Maintenance!Kured, Maintenance!Goes
<1>5. k \in SUBSET Nodes /\ k \subseteq around
  BY DEF VerifyInv, ExcusesAreNew, Maintenance!Rebooting
<1>6. verify' = [verify EXCEPT !.step = verify.step + 1, !.listed = verify.listed, !.kured = k, !.known = verify.known,
                               !.errors = verify.errors]
  BY <1>1, <1>3 DEF Verifications
<1>7. /\ verify.step + 1 \in Nat \ {0}
      /\ verify.step + 1 > ListsAt[verify.check] /\ verify.errors = 0 => {i \in broken : i.check = verify.check} \subseteq verify.listed
  <2>1. ListsAt[verify.check] \in Nat
    BY <1>2 DEF Looking, ListsAt
  <2>2. verify.step + 1 > ListsAt[verify.check] => verify.step > ListsAt[verify.check]
    BY <1>1, <1>2, <2>1
  <2>3. QED
    BY <1>1, <1>2, <2>2 DEF VerifyInv, BrokenStaysListed
<1>8. QED
  BY <1>1, <1>2, <1>4, <1>5, <1>6, <1>7, CallStep

(* What a call after the list finds in the invariant.                      *)
LEMMA AfterList ==
    ASSUME VerifyInv, Maintenance!Call \in {"relist", "lookup"}
    PROVE  /\ verify.errors = 0 => {i \in broken : i.check = verify.check} \subseteq verify.listed
           /\ verify.step + 1 > AsksAt[verify.check] => verify.kured \subseteq around
<1>1. Looking /\ verify.step > ListsAt[verify.check] /\ verify.step # AsksAt[verify.check]
  BY CallsOfChecks DEF VerifyInv, CallMeans
<1>2. AsksAt[verify.check] \in Nat /\ verify.step \in Nat
  BY <1>1 DEF Looking, AsksAt, VerifyInv, VerifyTypes, Verifications
<1>3. verify.step + 1 > AsksAt[verify.check] => verify.step > AsksAt[verify.check]
  BY <1>1, <1>2
<1>4. QED
  BY <1>1, <1>3 DEF VerifyInv, BrokenStaysListed, ExcusesAreNew

(* A call that reads something keeps VerifyInv. *)
LEMMA LookupKeeps == ASSUME VerifyInv, Maintenance!Lookup PROVE VerifyInv'
<1>1. /\ VerifyTypes /\ verify.step \in Nat \ {0} /\ verify.listed \in SUBSET Anything /\ verify.errors \in {0, 1}
      /\ verify.kured \in SUBSET Nodes /\ verify \in Verifications
  BY DEF VerifyInv, VerifyTypes, Verifications
<1>2. PICK known \in BOOLEAN : verify' = [[verify EXCEPT !.known = known] EXCEPT !.step = @ + 1]
  BY DEF Maintenance!Lookup, Maintenance!Goes
<1>3. UNCHANGED <<nodes, broken, around>> /\ Maintenance!Call = "lookup"
  BY DEF Maintenance!Lookup, Maintenance!Goes
<1>4. verify' = [verify EXCEPT !.step = verify.step + 1, !.listed = verify.listed, !.kured = verify.kured, !.known = known,
                               !.errors = verify.errors]
  BY <1>1, <1>2 DEF Verifications
<1>5. Looking
  BY <1>1, <1>3, CallsOfChecks DEF CallMeans
<1>6. verify.step + 1 \in Nat \ {0}
  BY <1>1
<1>7. QED
  BY <1>1, <1>3, <1>4, <1>5, <1>6, AfterList, CallStep

(* After the grace: what is broken is neither excused away nor mended, so  *)
(* it is in whatever list the second look leaves.                          *)
LEMMA RelistKeeps == ASSUME VerifyInv, Maintenance!ListAgain PROVE VerifyInv'
<1> DEFINE bad == Maintenance!Bad(verify.check)
           errors == Maintenance!Errors
           still == IF verify.check = "deployments" THEN (verify.listed \ errors) \cup (errors \cap bad) ELSE bad
           skips == IF verify.check = "nodes" THEN 1 ELSE 0
           ours == {i \in broken : i.check = verify.check}
<1>1. /\ VerifyTypes /\ verify.step \in Nat \ {0} /\ verify.listed \in SUBSET Anything /\ verify.errors \in {0, 1}
      /\ verify.kured \in SUBSET Nodes /\ verify.known \in BOOLEAN /\ verify \in Verifications
  BY DEF VerifyInv, VerifyTypes, Verifications
<1>2. Maintenance!Call = "relist"
  BY DEF Maintenance!ListAgain
<1>3. Looking /\ (verify.check = "nodes" => verify.step > AsksAt[verify.check])
  BY <1>1, <1>2, CallsOfChecks DEF CallMeans
<1>4. bad \in SUBSET Anything /\ ours \subseteq bad
  BY <1>1, BrokenIsBad DEF Maintenance!Bad, Anything
<1>5. UNCHANGED <<nodes, broken, around>>
  BY DEF Maintenance!ListAgain, Maintenance!Goes
<1>6. still \in SUBSET Anything /\ (verify.errors = 0 => ours \subseteq still)
  <2>1. verify.errors = 0 => ours \subseteq verify.listed
    BY <1>2, AfterList
  <2>2. QED
    BY <1>1, <1>4, <2>1
<1>7. \/ verify' = [[verify EXCEPT !.step = @ + skips] EXCEPT !.step = @ + 1]
      \/ verify' = [[verify EXCEPT !.listed = still] EXCEPT !.step = @ + 1]
      \/ verify' = [[Maintenance!Alarm(verify) EXCEPT !.step = @ + skips] EXCEPT !.step = @ + 1]
  BY DEF Maintenance!ListAgain, Maintenance!Goes
<1> HIDE DEF bad, errors, still, skips, ours
<1>8. PICK more \in {0, 1} : more = skips
  BY DEF skips
<1>9. verify.step + 1 > AsksAt[verify.check] => verify.kured \subseteq around
  BY <1>2, AfterList
<1>10. verify.step + more + 1 \in Nat \ {0} /\ (verify.step + more + 1 > AsksAt[verify.check] => verify.kured \subseteq around)
  <2>1. CASE verify.check = "nodes"
    BY <1>1, <1>3, <2>1 DEF VerifyInv, ExcusesAreNew
  <2>2. CASE verify.check # "nodes"
    <3>1. more = 0
      BY <1>8, <2>2 DEF skips
    <3>2. QED
      BY <1>1, <1>9, <3>1
  <2>3. QED
    BY <2>1, <2>2
<1>11. CASE verify' = [[verify EXCEPT !.step = @ + skips] EXCEPT !.step = @ + 1]
  <2>1. verify' = [verify EXCEPT !.step = verify.step + more + 1, !.listed = verify.listed, !.kured = verify.kured,
                                 !.known = verify.known, !.errors = verify.errors]
    BY <1>1, <1>8, <1>11 DEF Verifications
  <2>2. verify.errors = 0 => {i \in broken : i.check = verify.check} \subseteq verify.listed
    BY <1>2, AfterList
  <2>3. PICK s \in Nat \ {0} : s = verify.step + more + 1
    BY <1>10
  <2>4. /\ verify' = [verify EXCEPT !.step = s, !.listed = verify.listed, !.kured = verify.kured,
                                    !.known = verify.known, !.errors = verify.errors]
        /\ s > AsksAt[verify.check] => verify.kured \subseteq around
    BY <1>10, <2>1, <2>3
  <2>5. QED
    BY <1>1, <1>3, <1>5, <2>2, <2>4, CallStep
<1>12. CASE verify' = [[verify EXCEPT !.listed = still] EXCEPT !.step = @ + 1]
  <2>1. verify' = [verify EXCEPT !.step = verify.step + 1, !.listed = still, !.kured = verify.kured,
                                 !.known = verify.known, !.errors = verify.errors]
    BY <1>1, <1>12 DEF Verifications
  <2>2. verify.step + 1 \in Nat \ {0}
    BY <1>1
  <2>3. verify.errors = 0 => {i \in broken : i.check = verify.check} \subseteq still
    BY <1>6 DEF ours
  <2>4. still \in SUBSET Anything
    BY <1>6
  <2>5. QED
    BY <1>1, <1>3, <1>5, <1>9, <2>1, <2>2, <2>3, <2>4, CallStep
<1>13. CASE verify' = [[Maintenance!Alarm(verify) EXCEPT !.step = @ + skips] EXCEPT !.step = @ + 1]
  <2>1. PICK e \in {0, 1} : e = 1
    OBVIOUS
  <2>2. verify' = [verify EXCEPT !.step = verify.step + more + 1, !.listed = verify.listed, !.kured = verify.kured,
                                 !.known = verify.known, !.errors = e]
    BY <1>1, <1>8, <1>13, <2>1 DEF Verifications, Maintenance!Alarm
  <2>3. e # 0
    BY <2>1
  <2>4. QED
    BY <1>1, <1>3, <1>5, <1>10, <2>2, <2>3, CallStep
<1>14. QED
  BY <1>7, <1>11, <1>12, <1>13

(* What is due is reported: an excuse of this check explains it, or it is  *)
(* among the errors.                                                       *)
LEMMA DueIsAnError ==
    ASSUME VerifyInv, ItemsAreNoNodes, Looking, Maintenance!Call = "none", verify.errors = 0, NEW i \in Maintenance!Due
    PROVE  i \in Maintenance!Errors
<1>1. verify.kured \subseteq around /\ i \in verify.listed /\ i.check = verify.check /\ i \in Anything /\ ~Maintenance!Explained(i)
  <2>1. verify.step > ListsAt[verify.check] /\ verify.step > AsksAt[verify.check]
    BY CallsOfChecks DEF VerifyInv, CallMeans
  <2>2. i \in broken /\ i.check = verify.check /\ ~Maintenance!Explained(i)
    BY DEF Maintenance!Due
  <2>3. QED
    BY <2>1, <2>2 DEF VerifyInv, VerifyTypes, ExcusesAreNew, BrokenStaysListed
<1>2. CASE verify.check = "nodes"
  <2>1. PICK n \in Nodes : i = [check |-> "nodes", name |-> n, on |-> {n}]
    BY <1>1, <1>2 DEF Anything, Maintenance!NodeItems, ItemsAreNoNodes
  <2>2. i.name = n /\ i.on = {n}
    BY <2>1
  <2>3. n \notin verify.kured
    BY <1>1, <1>2, <2>2 DEF Maintenance!Explained
  <2>4. Maintenance!Errors = {x \in verify.listed : x.name \notin verify.kured}
    BY <1>2 DEF Maintenance!Errors, Maintenance!Reported
  <2>5. QED
    BY <1>1, <2>2, <2>3, <2>4
<1>3. CASE verify.check = "jobs"
  <2>1. Maintenance!Errors = {x \in verify.listed : verify.kured = {} \/ ~verify.known \/ ~(x.on \subseteq verify.kured \cup {Nowhere})}
    BY <1>3 DEF Maintenance!Errors, Maintenance!Reported
  <2>2. around = {} \/ ~(i.on \subseteq around \cup {Nowhere})
    BY <1>1, <1>3 DEF Maintenance!Explained
  <2>3. QED
    BY <1>1, <2>1, <2>2
<1>4. CASE verify.check \in {"pods", "deployments"}
  <2>1. Maintenance!Errors = {x \in verify.listed : \/ verify.kured = {}
                                                    \/ verify.known /\ Nowhere \notin x.on /\ x.on \cap verify.kured = {}}
    BY <1>4 DEF Maintenance!Errors, Maintenance!Reported, Maintenance!ReportedPods
  <2>2. around = {} \/ (i.on \cap (around \cup {Nowhere}) = {} /\ verify.known)
    BY <1>1, <1>4 DEF Maintenance!Explained
  <2>3. QED
    BY <1>1, <2>1, <2>2
<1>5. QED
  BY <1>2, <1>3, <1>4 DEF Looking

(* The check that follows begins afresh. *)
LEMMA ChecksGoOn ==
    ASSUME Looking
    PROVE  Maintenance!Checks[1 + CHOOSE c \in DOMAIN Maintenance!Checks : Maintenance!Checks[c] = verify.check]
               \in {"nodes", "pods", "deployments", "jobs", "dns", "done"}
<1> DEFINE c == CHOOSE x \in DOMAIN Maintenance!Checks : Maintenance!Checks[x] = verify.check
<1>1. DOMAIN Maintenance!Checks = 1..6
  BY DEF Maintenance!Checks
<1>2. /\ Maintenance!Checks[1] = "nodes" /\ Maintenance!Checks[2] = "pods" /\ Maintenance!Checks[3] = "deployments"
      /\ Maintenance!Checks[4] = "jobs" /\ Maintenance!Checks[5] = "dns" /\ Maintenance!Checks[6] = "done"
  BY DEF Maintenance!Checks
<1>3. \E x \in DOMAIN Maintenance!Checks : Maintenance!Checks[x] = verify.check
  BY <1>1, <1>2 DEF Looking
<1>4. c \in 1..6 /\ Maintenance!Checks[c] = verify.check
  BY <1>1, <1>3
<1> HIDE DEF c
<1>5. c # 6
  BY <1>2, <1>4 DEF Looking
<1>6. 1 + c \in {2, 3, 4, 5, 6}
  BY <1>4, <1>5
<1>7. Maintenance!Checks[1 + c] \in {"nodes", "pods", "deployments", "jobs", "dns", "done"}
  BY <1>2, <1>6
<1>8. QED
  BY <1>7 DEF c

(* The end of a check reports what is due. *)
LEMMA ConcludeKeeps == ASSUME VerifyInv, ItemsAreNoNodes, Maintenance!Conclude PROVE VerifyInv'
<1>1. /\ verify.errors \in {0, 1} /\ verify.due \in SUBSET Anything /\ verify.kured \in SUBSET Nodes /\ verify \in Verifications
      /\ broken \subseteq Anything
  BY DEF VerifyInv, VerifyTypes, Verifications
<1>2. Looking /\ Maintenance!Call = "none"
  BY <1>1 DEF Maintenance!Conclude, Looking, Verifications
<1>3. PICK next \in {"nodes", "pods", "deployments", "jobs", "dns", "done"} :
        verify' = [Maintenance!At(next) EXCEPT !.errors = IF Maintenance!Errors # {} THEN 1 ELSE verify.errors,
                                               !.due = verify.due \cup Maintenance!Due, !.kured = verify.kured]
  BY <1>2, ChecksGoOn DEF Maintenance!Conclude
<1>4. PICK e \in {0, 1} : e = IF Maintenance!Errors # {} THEN 1 ELSE verify.errors
  BY <1>1
<1>5. Maintenance!Due \in SUBSET Anything
  BY <1>1 DEF Maintenance!Due
<1>6. verify' = [check |-> next, step |-> 1, listed |-> {}, kured |-> verify.kured, known |-> TRUE, errors |-> e,
                 due |-> verify.due \cup Maintenance!Due]
  BY <1>3, <1>4 DEF Maintenance!At
<1>7. /\ verify'.step = 1 /\ verify'.errors = e /\ verify'.due = verify.due \cup Maintenance!Due /\ verify'.check = next
      /\ verify' \in Verifications
  BY <1>1, <1>5, <1>6 DEF Verifications
<1>8. around' = Maintenance!Rebooting /\ UNCHANGED <<nodes, broken>>
  BY DEF Maintenance!Conclude, Maintenance!Rebooting
<1>9. VerifyTypes'
  BY <1>1, <1>7, <1>8 DEF VerifyTypes, Anything, Maintenance!NodeItems, Verifications
<1>10. ExcusesAreNew'
  <2>1. Maintenance!Rebooting' \subseteq around'
    BY <1>8 DEF Maintenance!Rebooting
  <2>2. Looking' => ~(verify'.step > AsksAt[verify'.check])
    BY <1>7 DEF Looking, AsksAt
  <2>3. QED
    BY <2>1, <2>2 DEF ExcusesAreNew
<1>11. BrokenStaysListed'
  <2>1. Looking' => ~(verify'.step > ListsAt[verify'.check])
    BY <1>7 DEF Looking, ListsAt
  <2>2. QED
    BY <2>1 DEF BrokenStaysListed
<1>12. DueIsReported'
  <2>1. SUFFICES ASSUME verify.due \cup Maintenance!Due # {} PROVE e = 1
    BY <1>7 DEF DueIsReported
  <2>2. CASE verify.errors = 1
    BY <1>4, <2>2
  <2>3. CASE verify.errors # 1
    <3>1. verify.errors = 0 /\ Maintenance!Due # {}
      BY <1>1, <2>1, <2>3 DEF VerifyInv, DueIsReported
    <3>2. Maintenance!Errors # {}
      BY <1>2, <3>1, DueIsAnError
    <3>3. QED
      BY <1>4, <3>2
  <2>4. QED
    BY <2>2, <2>3
<1>13. QED
  BY <1>9, <1>10, <1>11, <1>12 DEF VerifyInv

(* The DNS check has no excuse. *)
LEMMA ProbeKeeps == ASSUME VerifyInv, Maintenance!ProbeDns PROVE VerifyInv'
<1>1. verify \in Verifications /\ verify.errors \in {0, 1} /\ broken \subseteq Anything
  BY DEF VerifyInv, VerifyTypes, Verifications
<1>2. PICK errors \in {verify.errors, 1} : verify' = [verify EXCEPT !.check = "done", !.errors = errors]
  BY DEF Maintenance!ProbeDns
<1>3. errors \in {0, 1} /\ (verify.errors = 1 => errors = 1)
  BY <1>1
<1>4. verify'.check = "done" /\ verify'.errors = errors /\ verify'.due = verify.due /\ verify' \in Verifications
  BY <1>1, <1>2, <1>3 DEF Verifications
<1>5. UNCHANGED <<nodes, broken, around>>
  BY DEF Maintenance!ProbeDns
<1>6. VerifyTypes'
  BY <1>1, <1>4, <1>5 DEF VerifyTypes, Anything, Maintenance!NodeItems, Verifications
<1>7. ExcusesAreNew' /\ BrokenStaysListed'
  <2>1. ~Looking' /\ Maintenance!Rebooting' \subseteq around'
    BY <1>4, <1>5 DEF Looking, VerifyInv, ExcusesAreNew, Maintenance!Rebooting
  <2>2. QED
    BY <2>1 DEF ExcusesAreNew, BrokenStaysListed
<1>8. DueIsReported'
  BY <1>3, <1>4 DEF VerifyInv, DueIsReported
<1>9. QED
  BY <1>6, <1>7, <1>8 DEF VerifyInv

(* kured: a node it begins to reboot is noted in around.                   *)
LEMMA KuredMoves ==
    ASSUME VerifyInv, NEW n \in Nodes, NEW state, Maintenance!Becomes(n, state) PROVE VerifyInv'
<1>1. UNCHANGED <<broken, verify>> /\ around \subseteq around'
  BY DEF Maintenance!Becomes
<1>2. Maintenance!Rebooting' \subseteq around'
  <2>1. SUFFICES ASSUME NEW m \in Nodes, nodes'[m].annotated, nodes'[m].cordoned PROVE m \in around'
    BY DEF Maintenance!Rebooting
  <2>2. nodes' = [nodes EXCEPT ![n] = state]
    BY DEF Maintenance!Becomes
  <2>3. CASE nodes'[m] = nodes[m]
    BY <1>1, <2>1, <2>3 DEF VerifyInv, ExcusesAreNew, Maintenance!Rebooting
  <2>4. CASE m = n /\ nodes'[m] = state
    BY <2>1, <2>4 DEF Maintenance!Becomes
  <2>5. QED
    BY <2>2, <2>3, <2>4
<1>3. ExcusesAreNew'
  BY <1>1, <1>2 DEF VerifyInv, ExcusesAreNew, Looking
<1>4. VerifyTypes'
  BY <1>1 DEF VerifyInv, VerifyTypes, Anything, Maintenance!NodeItems, Verifications
<1>5. BrokenStaysListed' /\ DueIsReported'
  BY <1>1 DEF VerifyInv, BrokenStaysListed, DueIsReported, Looking
<1>6. QED
  BY <1>3, <1>4, <1>5 DEF VerifyInv

(* Every step keeps VerifyInv. *)
LEMMA VerifyInductive ==
    ASSUME ItemsAreNoNodes, VerifyInv, Maintenance!VerifyNext \/ UNCHANGED verifyVars PROVE VerifyInv'
<1>1. CASE \/ Maintenance!List \/ Maintenance!Kured \/ Maintenance!ListAgain \/ Maintenance!Lookup
           \/ Maintenance!Conclude \/ Maintenance!ProbeDns
  BY <1>1, ListKeeps, KuredKeeps, RelistKeeps, LookupKeeps, ConcludeKeeps, ProbeKeeps
<1>2. CASE \E n \in Nodes : \/ Maintenance!Annotates(n) \/ Maintenance!Cordons(n) \/ Maintenance!GoesDown(n) \/ Maintenance!ComesBack(n)
  <2>1. PICK n \in Nodes : \E state : Maintenance!Becomes(n, state)
    BY <1>2 DEF Maintenance!Annotates, Maintenance!Cordons, Maintenance!GoesDown, Maintenance!ComesBack
  <2>2. PICK state : Maintenance!Becomes(n, state)
    BY <2>1
  <2>3. QED
    BY <2>2, KuredMoves
<1>3. CASE UNCHANGED verifyVars
  <2>1. verify' = verify /\ nodes' = nodes /\ broken' = broken /\ around' = around
    BY <1>3 DEF verifyVars
  <2>2. VerifyTypes' /\ ExcusesAreNew'
    BY <2>1 DEF VerifyInv, VerifyTypes, Anything, Maintenance!NodeItems, Verifications, ExcusesAreNew,
         Looking, Maintenance!Rebooting
  <2>3. BrokenStaysListed' /\ DueIsReported'
    BY <2>1 DEF VerifyInv, BrokenStaysListed, DueIsReported, Looking
  <2>4. QED
    BY <2>2, <2>3 DEF VerifyInv
<1>4. QED
  BY <1>1, <1>2, <1>3 DEF Maintenance!VerifyNext

(* The same in the composition: when the verification is the machine.      *)
Verifying == job = "maintenance" => VerifyInv

(* A behaviour of the verification begins as the verification does. *)
LEMMA VerifyingBegins == ASSUME OperationsInit PROVE Verifying
<1>1. job = "maintenance" => Maintenance!VerifyInit
  BY DEF OperationsInit
<1>2. QED
  BY <1>1, VerifyBegins DEF Verifying

(* Its steps are steps of the verification. *)
LEMMA VerifyingKeeps ==
    ASSUME ItemsAreNoNodes, Verifying, [OperationsNext]_operationVars PROVE Verifying'
<1>1. SUFFICES ASSUME job' = "maintenance" PROVE VerifyInv'
  BY DEF Verifying
<1>2. job = "maintenance"
  BY <1>1 DEF OperationsNext, operationVars
<1>3. Maintenance!VerifyNext \/ UNCHANGED verifyVars
  BY <1>2 DEF OperationsNext, operationVars
<1>4. QED
  BY <1>2, <1>3, VerifyInductive DEF Verifying

(* What is broken all the time and explained by no reboot that goes on     *)
(* while its check runs fails the verification, whichever of its calls     *)
(* fail and whichever nodes kured reboots meanwhile:                       *)
(* post-maintenance-verify.sh, for every cluster.                          *)
THEOREM BrokenIsAlwaysReported == ASSUME ItemsAreNoNodes PROVE Operations => []BrokenIsReported
<1>1. OperationsInit => Verifying
  BY VerifyingBegins
<1>2. Verifying /\ [OperationsNext]_operationVars => Verifying'
  BY VerifyingKeeps
<1>3. Verifying => BrokenIsReported
  <2>1. VerifyInv => Maintenance!BrokenIsReported
    BY DEF VerifyInv, DueIsReported, Maintenance!BrokenIsReported
  <2>2. QED
    BY <2>1 DEF Verifying, BrokenIsReported
<1>4. QED
  BY <1>1, <1>2, <1>3, PTL DEF Operations

-----------------------------------------------------------------------------
(* The library's pins. *)

(* Repositories whose refs and file names are from a set T, with any       *)
(* number of sites.                                                        *)
PinsOver(T) == [ref : T, reach : BOOLEAN]
PipelinesOver(T) ==
    [parses : BOOLEAN, header : {"absent", "undefaulted", "block", "flow", "spread"}, declared : T,
     includes : SUBSET PinsOver(T), variable : PinsOver(T), anchored : BOOLEAN]
RequirementsOver(T) == [exists : BOOLEAN, installs : {"library", "git", "none"}, pin : PinsOver(T)]
SitesOver(T) == [file : T, entry : {"ok", "bad", "link"}, refs : SUBSET T, sticks : BOOLEAN]
RepositoriesOver(T) == [ci : PipelinesOver(T), requirements : RequirementsOver(T), sites : Seq(SitesOver(T))]

(* T has the tags, the text that reads the input and the mark of no ref,   *)
(* which is neither.                                                       *)
RefTexts(T) == Tags \subseteq T /\ Marker \in T /\ None \in T /\ None \notin Tags /\ Marker # None

(* What a plan that is not refused says of the repository.                 *)
Accepted(b, t) ==
    /\ t \in Tags /\ b.ci.parses /\ b.ci.header # "undefaulted" /\ ~b.ci.anchored
    /\ Pins!DeclaredRef(Pins!Pipeline(b.ci, t)) = t /\ ~Pins!PipelineProblem(Pins!Pipeline(b.ci, t))
    /\ Pins!RequirementsRefused(b.requirements, t) = 0 /\ Pins!SitesRefused(b.sites, t) = 0
    /\ Pins!OneWritePerFile(Pins!Writes(b, t))

(* A pipeline file that was rewritten is as a second rewrite leaves it.    *)
LEMMA PinTwice ==
    ASSUME NEW T, RefTexts(T), NEW p \in PinsOver(T)
    PROVE  /\ Pins!Rewritten(p, Marker) \in PinsOver(T)
           /\ Pins!Rewritten(Pins!Rewritten(p, Marker), Marker) = Pins!Rewritten(p, Marker)
BY DEF RefTexts, PinsOver, Pins!Rewritten

(* The rewrite of a pipeline file, field by field. *)
LEMMA PipelineParts ==
    ASSUME NEW T, RefTexts(T), NEW c \in PipelinesOver(T), NEW t \in Tags, NEW new, new = Pins!Pipeline(c, t)
    PROVE  /\ new \in PipelinesOver(T)
           /\ new.includes = {Pins!Rewritten(p, Marker) : p \in c.includes}
           /\ new.variable = Pins!Rewritten(c.variable, Marker)
           /\ new.header = IF c.header = "absent" THEN "block" ELSE c.header
           /\ new.declared = IF c.header = "spread" THEN c.declared ELSE t
           /\ new.parses = c.parses /\ new.anchored = c.anchored
<1>1. /\ new.includes = {Pins!Rewritten(p, Marker) : p \in c.includes}
      /\ new.variable = Pins!Rewritten(c.variable, Marker)
      /\ new.header = IF c.header = "absent" THEN "block" ELSE c.header
      /\ new.declared = IF c.header = "spread" THEN c.declared ELSE t
      /\ new.parses = c.parses /\ new.anchored = c.anchored
  BY DEF Pins!Pipeline, PipelinesOver
<1>2. new = [parses |-> new.parses, header |-> new.header, declared |-> new.declared, includes |-> new.includes,
             variable |-> new.variable, anchored |-> new.anchored]
  BY DEF Pins!Pipeline, PipelinesOver
<1>3. c.includes \subseteq PinsOver(T) /\ c.variable \in PinsOver(T) /\ c.declared \in T /\ t \in T
      /\ c.parses \in BOOLEAN /\ c.anchored \in BOOLEAN /\ c.header \in {"absent", "undefaulted", "block", "flow", "spread"}
  BY DEF PipelinesOver, RefTexts
<1>4. new.includes \in SUBSET PinsOver(T) /\ new.variable \in PinsOver(T)
  BY <1>1, <1>3, PinTwice
<1>5. new.header \in {"absent", "undefaulted", "block", "flow", "spread"} /\ new.declared \in T
  BY <1>1, <1>3
<1>6. new \in PipelinesOver(T)
  BY <1>1, <1>2, <1>3, <1>4, <1>5 DEF PipelinesOver
<1>7. QED
  BY <1>1, <1>6

(* A rewritten file stays as it is under a second rewrite. *)
LEMMA PipelineTwice ==
    ASSUME NEW T, RefTexts(T), NEW c \in PipelinesOver(T), NEW t \in Tags
    PROVE  Pins!Pipeline(Pins!Pipeline(c, t), t) = Pins!Pipeline(c, t)
<1>1. PICK new \in PipelinesOver(T) : new = Pins!Pipeline(c, t)
  BY PipelineParts
<1>2. PICK twice \in PipelinesOver(T) : twice = Pins!Pipeline(new, t)
  BY <1>1, PipelineParts
<1>3. /\ new.includes = {Pins!Rewritten(p, Marker) : p \in c.includes}
      /\ twice.includes = {Pins!Rewritten(p, Marker) : p \in new.includes}
  BY <1>1, <1>2, PipelineParts
<1>4. c.includes \subseteq PinsOver(T)
  BY DEF PipelinesOver
<1>5. twice.includes = new.includes
  BY <1>3, <1>4, PinTwice
<1>6. twice.variable = new.variable
  <2>1. c.variable \in PinsOver(T)
    BY DEF PipelinesOver
  <2>2. new.variable = Pins!Rewritten(c.variable, Marker) /\ twice.variable = Pins!Rewritten(new.variable, Marker)
    BY <1>1, <1>2, PipelineParts
  <2>3. QED
    BY <2>1, <2>2, PinTwice
<1>7. /\ twice.header = new.header /\ twice.declared = new.declared
      /\ twice.parses = new.parses /\ twice.anchored = new.anchored
  <2>1. /\ new.header = IF c.header = "absent" THEN "block" ELSE c.header
        /\ new.declared = IF c.header = "spread" THEN c.declared ELSE t
    BY <1>1, PipelineParts
  <2>2. /\ twice.header = IF new.header = "absent" THEN "block" ELSE new.header
        /\ twice.declared = IF new.header = "spread" THEN new.declared ELSE t
        /\ twice.parses = new.parses /\ twice.anchored = new.anchored
    BY <1>2, PipelineParts
  <2>3. QED
    BY <2>1, <2>2
<1>8. twice = new
  BY <1>5, <1>6, <1>7 DEF PipelinesOver
<1>9. QED
  BY <1>1, <1>2, <1>8

(* A plan that is not refused is accepted.                                 *)
LEMMA PlanAccepted ==
    ASSUME NEW b, NEW want, Pins!PlanRefused(b, want) = 0
    PROVE  Accepted(b, Pins!Target(b.ci, want))
<1> DEFINE t == Pins!Target(b.ci, want)
           new == Pins!Pipeline(b.ci, t)
<1>1. Pins!PlanFixRefused(b.ci, want) = 0
  BY DEF Pins!PlanRefused
<1>2. /\ Pins!RequirementsRefused(b.requirements, t) = 0 /\ Pins!SitesRefused(b.sites, t) = 0
      /\ Pins!OneWritePerFile(Pins!Writes(b, t))
  BY <1>1 DEF Pins!PlanRefused
<1>3. /\ t \in Tags /\ b.ci.parses /\ b.ci.header # "undefaulted" /\ ~b.ci.anchored
      /\ Pins!DeclaredRef(new) = t
      /\ new = b.ci => ~Pins!PipelineProblem(b.ci)
      /\ new # b.ci => new.includes # {} /\ ~\E p \in new.includes \cup {new.variable} : p.ref # Marker
  BY <1>1 DEF Pins!PlanFixRefused
<1>4. ~Pins!PipelineProblem(new)
  <2>1. CASE new = b.ci
    BY <1>3, <2>1
  <2>2. CASE new # b.ci
    BY <1>3, <2>2 DEF Pins!PipelineProblem
  <2>3. QED
    BY <2>1, <2>2
<1>5. QED
  BY <1>2, <1>3, <1>4 DEF Accepted

(* An accepted repository whose pipeline file is rewritten is not refused  *)
(* by a --fix without arguments, which goes to the same tag.               *)
LEMMA AcceptedPasses ==
    ASSUME NEW T, RefTexts(T), NEW f, NEW t, Accepted(f, t), f.ci = Pins!Pipeline(f.ci, t)
    PROVE  Pins!PlanRefused(f, None) = 0 /\ Pins!Target(f.ci, None) = t
<1>1. Pins!DeclaredRef(f.ci) = t /\ t # None
  BY DEF Accepted, RefTexts
<1>2. Pins!Target(f.ci, None) = t
  BY <1>1 DEF Pins!Target
<1>3. Pins!PlanFixRefused(f.ci, None) = 0
  BY <1>1, <1>2 DEF Pins!PlanFixRefused, Accepted
<1>4. QED
  BY <1>2, <1>3 DEF Pins!PlanRefused, Accepted

(* What is on disk of a repository b while the writes P of a plan for t    *)
(* are to come.                                                            *)
RequirementsAt(req, t) == IF Pins!RequirementsToFix(req, t) THEN [req EXCEPT !.pin.ref = t] ELSE req
SiteAt(ref, t) == IF Pins!SiteToFix(ref, t) THEN [ref EXCEPT !.refs = {t}] ELSE ref
Surfaces(f, b, P, t) ==
    /\ P \subseteq Pins!Writes(b, t)
    /\ Pins!CiWrite \in P => f = b
    /\ f.ci = IF Pins!CiWrite \in P THEN b.ci ELSE Pins!Pipeline(b.ci, t)
    /\ f.requirements = IF Pins!RequirementsWrite \in P THEN b.requirements ELSE RequirementsAt(b.requirements, t)
    /\ DOMAIN f.sites = DOMAIN b.sites
    /\ \A i \in DOMAIN b.sites :
          f.sites[i] = IF Pins!SiteWrite(b.sites, i) \in P THEN b.sites[i] ELSE SiteAt(b.sites[i], t)

(* Which writes are in a plan.                                             *)
LEMMA WritesAre ==
    ASSUME NEW T, NEW b \in RepositoriesOver(T), NEW t
    PROVE  /\ Pins!CiWrite \in Pins!Writes(b, t) <=> Pins!Pipeline(b.ci, t) # b.ci
           /\ Pins!RequirementsWrite \in Pins!Writes(b, t) <=> Pins!RequirementsToFix(b.requirements, t)
           /\ \A i \in DOMAIN b.sites :
                 Pins!SiteWrite(b.sites, i) \in Pins!Writes(b, t) <=> Pins!SiteToFix(b.sites[i], t)
<1>1. \A i \in DOMAIN b.sites : i \in Nat \ {0}
  BY DEF RepositoriesOver
<1>2. Pins!CiWrite.at = -1 /\ Pins!RequirementsWrite.at = 0 /\ \A i \in DOMAIN b.sites : Pins!SiteWrite(b.sites, i).at = i
  BY DEF Pins!CiWrite, Pins!RequirementsWrite, Pins!SiteWrite
<1>3. Pins!CiWrite # Pins!RequirementsWrite
  BY <1>2
<1>4. \A i \in DOMAIN b.sites : Pins!SiteWrite(b.sites, i) # Pins!CiWrite /\ Pins!SiteWrite(b.sites, i) # Pins!RequirementsWrite
  BY <1>1, <1>2
<1>5. \A i, j \in DOMAIN b.sites : Pins!SiteWrite(b.sites, i) = Pins!SiteWrite(b.sites, j) => i = j
  BY <1>2
<1>6. \A w : w \in Pins!Writes(b, t) <=>
         \/ w = Pins!CiWrite /\ Pins!Pipeline(b.ci, t) # b.ci
         \/ w = Pins!RequirementsWrite /\ Pins!RequirementsToFix(b.requirements, t)
         \/ \E j \in DOMAIN b.sites : Pins!SiteToFix(b.sites[j], t) /\ w = Pins!SiteWrite(b.sites, j)
  BY DEF Pins!Writes
<1>7. QED
  BY <1>3, <1>4, <1>5, <1>6

(* Before the first write everything is as it was.                         *)
LEMMA SurfacesBegin ==
    ASSUME NEW T, NEW b \in RepositoriesOver(T), NEW t
    PROVE  Surfaces(b, b, Pins!Writes(b, t), t)
<1>1. b.ci = IF Pins!CiWrite \in Pins!Writes(b, t) THEN b.ci ELSE Pins!Pipeline(b.ci, t)
  BY WritesAre
<1>2. b.requirements = IF Pins!RequirementsWrite \in Pins!Writes(b, t) THEN b.requirements ELSE RequirementsAt(b.requirements, t)
  BY WritesAre DEF RequirementsAt
<1>3. \A i \in DOMAIN b.sites :
         b.sites[i] = IF Pins!SiteWrite(b.sites, i) \in Pins!Writes(b, t) THEN b.sites[i] ELSE SiteAt(b.sites[i], t)
  BY WritesAre DEF SiteAt
<1>4. QED
  BY <1>1, <1>2, <1>3 DEF Surfaces

(* A rewritten surface has its type. *)
LEMMA RequirementsAtType ==
    ASSUME NEW T, RefTexts(T), NEW req \in RequirementsOver(T), NEW t \in Tags
    PROVE  RequirementsAt(req, t) \in RequirementsOver(T)
BY DEF RefTexts, RequirementsOver, PinsOver, RequirementsAt

(* A rewritten site has its type, and only other refs. *)
LEMMA SiteAtType ==
    ASSUME NEW T, RefTexts(T), NEW ref \in SitesOver(T), NEW t \in Tags
    PROVE  /\ SiteAt(ref, t) \in SitesOver(T) /\ SiteAt(ref, t).file = ref.file
           /\ SiteAt(ref, t).entry = ref.entry /\ SiteAt(ref, t).sticks = ref.sticks
           /\ SiteAt(ref, t).refs = IF Pins!SiteToFix(ref, t) THEN {t} ELSE ref.refs
BY DEF RefTexts, SitesOver, SiteAt

(* A repository under a rewrite still is one.                              *)
LEMMA SurfacesType ==
    ASSUME NEW T, RefTexts(T), NEW b \in RepositoriesOver(T), NEW t \in Tags, NEW P, NEW f, Surfaces(f, b, P, t),
           f = [ci |-> f.ci, requirements |-> f.requirements, sites |-> f.sites], f.sites = [i \in 1..Len(b.sites) |-> f.sites[i]]
    PROVE  f \in RepositoriesOver(T)
<1>1. b.ci \in PipelinesOver(T) /\ b.requirements \in RequirementsOver(T) /\ b.sites \in Seq(SitesOver(T))
  BY DEF RepositoriesOver
<1>2. f.ci \in PipelinesOver(T)
  BY <1>1, PipelineParts DEF Surfaces
<1>3. f.requirements \in RequirementsOver(T)
  BY <1>1, RequirementsAtType DEF Surfaces
<1>4. \A i \in 1..Len(b.sites) : f.sites[i] \in SitesOver(T)
  <2>1. TAKE i \in 1..Len(b.sites)
  <2>2. b.sites[i] \in SitesOver(T) /\ i \in DOMAIN b.sites
    BY <1>1
  <2>3. SiteAt(b.sites[i], t) \in SitesOver(T)
    BY <2>2, SiteAtType
  <2>4. QED
    BY <2>2, <2>3 DEF Surfaces
<1>5. f.sites \in Seq(SitesOver(T))
  BY <1>1, <1>4
<1>6. QED
  BY <1>2, <1>3, <1>5 DEF RepositoriesOver

(* After the pipeline file, whatever is left to write, the repository is   *)
(* accepted as the first plan accepted it.                                 *)
LEMMA HalfWritten ==
    ASSUME NEW T, RefTexts(T), NEW b \in RepositoriesOver(T), NEW t, Accepted(b, t), NEW P, NEW f \in RepositoriesOver(T),
           Surfaces(f, b, P, t), Pins!CiWrite \notin P
    PROVE  Accepted(f, t) /\ f.ci = Pins!Pipeline(f.ci, t)
<1>1. /\ b.ci \in PipelinesOver(T) /\ b.requirements \in RequirementsOver(T) /\ b.sites \in Seq(SitesOver(T))
      /\ t \in Tags
  BY DEF RepositoriesOver, Accepted
<1>2. f.ci = Pins!Pipeline(b.ci, t)
  BY DEF Surfaces
<1>3. f.ci = Pins!Pipeline(f.ci, t)
  BY <1>1, <1>2, PipelineTwice
<1>4. /\ t \in Tags /\ f.ci.parses /\ f.ci.header # "undefaulted" /\ ~f.ci.anchored
      /\ Pins!DeclaredRef(Pins!Pipeline(f.ci, t)) = t /\ ~Pins!PipelineProblem(Pins!Pipeline(f.ci, t))
  <2>1. f.ci.parses = b.ci.parses /\ f.ci.anchored = b.ci.anchored /\ f.ci.header = IF b.ci.header = "absent" THEN "block" ELSE b.ci.header
    BY <1>1, <1>2, PipelineParts
  <2>2. /\ b.ci.parses /\ b.ci.header # "undefaulted" /\ ~b.ci.anchored
        /\ Pins!DeclaredRef(f.ci) = t /\ ~Pins!PipelineProblem(f.ci)
    BY <1>2 DEF Accepted
  <2>3. QED
    BY <1>1, <1>3, <2>1, <2>2
<1>5. /\ Pins!RequirementsRefused(f.requirements, t) = 0
      /\ Pins!RequirementsToFix(f.requirements, t) => Pins!RequirementsToFix(b.requirements, t)
  <2>1. CASE f.requirements = b.requirements
    BY <2>1 DEF Accepted
  <2>2. CASE f.requirements # b.requirements
    <3>1. f.requirements = [b.requirements EXCEPT !.pin.ref = t]
      BY <2>2 DEF Surfaces, RequirementsAt
    <3>2. f.requirements.pin.ref = t
      BY <1>1, <3>1 DEF RequirementsOver, PinsOver
    <3>3. QED
      BY <3>2 DEF Pins!RequirementsToFix, Pins!RequirementsRefused
  <2>3. QED
    BY <2>1, <2>2
<1>6. \A i \in DOMAIN b.sites :
         /\ f.sites[i].file = b.sites[i].file /\ f.sites[i].entry = b.sites[i].entry /\ f.sites[i].sticks = b.sites[i].sticks
         /\ f.sites[i].refs \in {{t}, b.sites[i].refs}
  <2>1. TAKE i \in DOMAIN b.sites
  <2>2. b.sites[i] \in SitesOver(T) /\ f.sites[i] \in {b.sites[i], SiteAt(b.sites[i], t)}
    BY <1>1 DEF Surfaces
  <2>3. PICK ref \in SitesOver(T) : ref = b.sites[i]
    BY <2>2
  <2>4. /\ SiteAt(ref, t).file = ref.file /\ SiteAt(ref, t).entry = ref.entry /\ SiteAt(ref, t).sticks = ref.sticks
        /\ SiteAt(ref, t).refs = IF Pins!SiteToFix(ref, t) THEN {t} ELSE ref.refs
    BY <1>1, SiteAtType
  <2>5. QED
    BY <2>2, <2>3, <2>4
<1>7. DOMAIN f.sites = DOMAIN b.sites
  BY DEF Surfaces
<1>8. \A i \in DOMAIN f.sites : Pins!SiteToFix(f.sites[i], t) => Pins!SiteToFix(b.sites[i], t)
  BY <1>6, <1>7 DEF Pins!SiteToFix
<1>9. Pins!SitesRefused(f.sites, t) = 0
  <2>1. \A i \in DOMAIN b.sites : /\ b.sites[i].entry = "ok" /\ b.sites[i].refs # {}
                                  /\ Pins!SiteToFix(b.sites[i], t) => b.sites[i].sticks
    BY DEF Accepted, Pins!SitesRefused, Pins!SitesUnusable
  <2>2. \A i \in DOMAIN f.sites : /\ f.sites[i].entry = "ok" /\ f.sites[i].refs # {}
                                  /\ Pins!SiteToFix(f.sites[i], t) => f.sites[i].sticks
    BY <1>6, <1>7, <1>8, <2>1
  <2>3. QED
    BY <2>2 DEF Pins!SitesRefused, Pins!SitesUnusable
<1>10. Pins!Writes(f, t) \subseteq Pins!Writes(b, t)
  <2>1. \A i \in DOMAIN f.sites : Pins!SiteWrite(f.sites, i) = Pins!SiteWrite(b.sites, i)
    BY <1>6, <1>7 DEF Pins!SiteWrite
  <2>2. QED
    BY <1>3, <1>5, <1>7, <1>8, <2>1 DEF Pins!Writes
<1>11. Pins!OneWritePerFile(Pins!Writes(f, t))
  BY <1>10 DEF Accepted, Pins!OneWritePerFile
<1>12. QED
  BY <1>3, <1>4, <1>5, <1>9, <1>11 DEF Accepted

(* When all is written, every pin there is has the tag.                    *)
LEMMA AllWritten ==
    ASSUME NEW T, RefTexts(T), NEW b \in RepositoriesOver(T), NEW t, Accepted(b, t), NEW f \in RepositoriesOver(T), Surfaces(f, b, {}, t)
    PROVE  /\ Pins!DeclaredRef(f.ci) = t /\ ~Pins!PipelineProblem(f.ci)
           /\ ~Pins!RequirementsToFix(f.requirements, t) /\ ~Pins!SitesProblem(f.sites, t)
<1>1. f.ci = Pins!Pipeline(b.ci, t) /\ f.requirements = RequirementsAt(b.requirements, t)
  BY DEF Surfaces
<1>2. b.requirements \in RequirementsOver(T) /\ b.sites \in Seq(SitesOver(T)) /\ t \in Tags
  BY DEF RepositoriesOver, Accepted
<1>3. ~Pins!RequirementsToFix(f.requirements, t)
  <2>1. CASE Pins!RequirementsToFix(b.requirements, t)
    <3>1. f.requirements = [b.requirements EXCEPT !.pin.ref = t]
      BY <1>1, <2>1 DEF RequirementsAt
    <3>2. f.requirements.pin.ref = t
      BY <1>2, <3>1 DEF RequirementsOver, PinsOver
    <3>3. QED
      BY <3>2 DEF Pins!RequirementsToFix
  <2>2. CASE ~Pins!RequirementsToFix(b.requirements, t)
    BY <1>1, <2>2 DEF RequirementsAt
  <2>3. QED
    BY <2>1, <2>2
<1>4. ASSUME NEW i \in DOMAIN f.sites PROVE f.sites[i].refs = {t}
  <2>1. i \in DOMAIN b.sites /\ f.sites[i] = SiteAt(b.sites[i], t) /\ b.sites[i] \in SitesOver(T)
    BY <1>2 DEF Surfaces
  <2>2. b.sites[i].refs # {}
    BY <2>1 DEF Accepted, Pins!SitesRefused
  <2>3. f.sites[i].refs = IF Pins!SiteToFix(b.sites[i], t) THEN {t} ELSE b.sites[i].refs
    BY <1>2, <2>1, SiteAtType
  <2>4. QED
    BY <2>2, <2>3 DEF Pins!SiteToFix
<1>5. QED
  BY <1>1, <1>3, <1>4 DEF Accepted, Pins!SitesProblem

(* A write goes to its own surface.                                        *)
LEMMA AppliedCi ==
    ASSUME NEW T, NEW f \in RepositoriesOver(T), NEW t, NEW g, g = Pins!Applied(f, Pins!CiWrite, t)
    PROVE  /\ g = [ci |-> Pins!Pipeline(f.ci, t), requirements |-> f.requirements, sites |-> f.sites]
BY DEF RepositoriesOver, Pins!Applied, Pins!CiWrite

(* The collection's write. *)
LEMMA AppliedRequirements ==
    ASSUME NEW T, NEW f \in RepositoriesOver(T), NEW t, NEW g, g = Pins!Applied(f, Pins!RequirementsWrite, t)
    PROVE  g = [ci |-> f.ci, requirements |-> [f.requirements EXCEPT !.pin.ref = t], sites |-> f.sites]
BY DEF RepositoriesOver, RequirementsOver, PinsOver, Pins!Applied, Pins!RequirementsWrite

(* A sequence with one element replaced. *)
LEMMA OneReplaced ==
    ASSUME NEW S, NEW s \in Seq(S), NEW k, NEW v
    PROVE  [s EXCEPT ![k] = v] = [i \in 1..Len(s) |-> IF i = k THEN v ELSE s[i]]
OBVIOUS

(* A site's write. *)
LEMMA AppliedSite ==
    ASSUME NEW T, NEW f \in RepositoriesOver(T), NEW t, NEW w, w.at \in Nat \ {0}, w.at \in DOMAIN f.sites,
           f.sites[w.at].sticks, NEW g, g = Pins!Applied(f, w, t)
    PROVE  g = [ci |-> f.ci, requirements |-> f.requirements,
                sites |-> [i \in 1..Len(f.sites) |-> IF i = w.at THEN [f.sites[w.at] EXCEPT !.refs = {t}] ELSE f.sites[i]]]
<1>1. g = [f EXCEPT !.sites[w.at].refs = {t}]
  BY DEF Pins!Applied
<1>2. f.sites \in Seq(SitesOver(T))
  BY DEF RepositoriesOver
<1>3. g = [f EXCEPT !.sites = [f.sites EXCEPT ![w.at] = [f.sites[w.at] EXCEPT !.refs = {t}]]]
  BY <1>1
<1>4. [f.sites EXCEPT ![w.at] = [f.sites[w.at] EXCEPT !.refs = {t}]]
        = [i \in 1..Len(f.sites) |-> IF i = w.at THEN [f.sites[w.at] EXCEPT !.refs = {t}] ELSE f.sites[i]]
  BY <1>2, OneReplaced
<1>5. QED
  BY <1>3, <1>4 DEF RepositoriesOver

(* After a write the others are to come, and the pipeline file's, which is *)
(* the first, is not among them.                                           *)
LEMMA WriteGoesOn ==
    ASSUME NEW T, RefTexts(T), NEW b \in RepositoriesOver(T), NEW t, Accepted(b, t), NEW P, NEW f \in RepositoriesOver(T),
           Surfaces(f, b, P, t), NEW w \in P, \A v \in P : w.at <= v.at, NEW g, g = Pins!Applied(f, w, t)
    PROVE  g \in RepositoriesOver(T) /\ Surfaces(g, b, P \ {w}, t) /\ Pins!CiWrite \notin P \ {w}
<1> DEFINE Q == P \ {w}
<1>1. /\ b.ci \in PipelinesOver(T) /\ b.requirements \in RequirementsOver(T) /\ b.sites \in Seq(SitesOver(T))
      /\ f.sites \in Seq(SitesOver(T)) /\ t \in Tags
  BY DEF RepositoriesOver, Accepted
<1>2. /\ Pins!CiWrite.at = -1 /\ Pins!RequirementsWrite.at = 0
      /\ \A i \in DOMAIN b.sites : Pins!SiteWrite(b.sites, i).at = i /\ i \in Nat \ {0}
  BY <1>1 DEF Pins!CiWrite, Pins!RequirementsWrite, Pins!SiteWrite
<1>3. \/ w = Pins!CiWrite
      \/ w = Pins!RequirementsWrite /\ Pins!RequirementsToFix(b.requirements, t)
      \/ \E j \in DOMAIN b.sites : Pins!SiteToFix(b.sites[j], t) /\ w = Pins!SiteWrite(b.sites, j)
  BY DEF Surfaces, Pins!Writes
<1>4. w # Pins!CiWrite => Pins!CiWrite \notin P
  BY <1>2, <1>3
<1>5. Pins!CiWrite \notin Q /\ Q \subseteq Pins!Writes(b, t)
  BY <1>4 DEF Surfaces
<1>6. DOMAIN f.sites = 1..Len(b.sites) /\ DOMAIN b.sites = 1..Len(b.sites)
  BY <1>1 DEF Surfaces
<1>7. SUFFICES /\ g = [ci |-> g.ci, requirements |-> g.requirements, sites |-> g.sites]
               /\ g.sites = [i \in 1..Len(b.sites) |-> g.sites[i]]
               /\ Surfaces(g, b, Q, t)
  BY <1>5, SurfacesType DEF Accepted
<1>8. CASE w = Pins!CiWrite
  <2>1. f = b /\ g = [ci |-> Pins!Pipeline(b.ci, t), requirements |-> b.requirements, sites |-> b.sites]
    BY <1>8, AppliedCi DEF Surfaces
  <2>2. \A v : v # Pins!CiWrite => (v \in Q <=> v \in P)
    BY <1>8
  <2>3. b.requirements = IF Pins!RequirementsWrite \in Q THEN b.requirements ELSE RequirementsAt(b.requirements, t)
    BY <1>2, <2>1, <2>2 DEF Surfaces
  <2>4. \A i \in DOMAIN b.sites : b.sites[i] = IF Pins!SiteWrite(b.sites, i) \in Q THEN b.sites[i] ELSE SiteAt(b.sites[i], t)
    <3>1. TAKE i \in DOMAIN b.sites
    <3>2. Pins!SiteWrite(b.sites, i) # Pins!CiWrite
      BY <1>2
    <3>3. QED
      BY <2>1, <2>2, <3>2 DEF Surfaces
  <2>5. Surfaces(g, b, Q, t)
    BY <1>5, <2>1, <2>3, <2>4 DEF Surfaces
  <2>6. QED
    BY <1>1, <2>1, <2>5
<1>9. CASE w = Pins!RequirementsWrite /\ Pins!RequirementsToFix(b.requirements, t)
  <2>1. Pins!CiWrite \notin P
    BY <1>2, <1>4, <1>9
  <2>2. f.requirements = b.requirements /\ f.ci = Pins!Pipeline(b.ci, t)
    BY <1>9, <2>1 DEF Surfaces
  <2>3. g = [ci |-> f.ci, requirements |-> [b.requirements EXCEPT !.pin.ref = t], sites |-> f.sites]
    BY <1>9, <2>2, AppliedRequirements
  <2>4. g.requirements = RequirementsAt(b.requirements, t)
    BY <1>9, <2>3 DEF RequirementsAt
  <2>5. \A i \in DOMAIN b.sites : f.sites[i] = IF Pins!SiteWrite(b.sites, i) \in Q THEN b.sites[i] ELSE SiteAt(b.sites[i], t)
    <3>1. TAKE i \in DOMAIN b.sites
    <3>2. Pins!SiteWrite(b.sites, i) # w
      BY <1>2, <1>9
    <3>3. QED
      BY <3>2 DEF Surfaces
  <2>6. Surfaces(g, b, Q, t)
    BY <1>5, <1>6, <1>9, <2>2, <2>3, <2>4, <2>5 DEF Surfaces
  <2>7. QED
    BY <1>1, <1>6, <2>3, <2>6
<1>10. CASE \E j \in DOMAIN b.sites : Pins!SiteToFix(b.sites[j], t) /\ w = Pins!SiteWrite(b.sites, j)
  <2>1. PICK j \in DOMAIN b.sites : Pins!SiteToFix(b.sites[j], t) /\ w = Pins!SiteWrite(b.sites, j)
    BY <1>10
  <2>2. w.at = j /\ j \in Nat \ {0} /\ j \in DOMAIN f.sites
    BY <1>2, <1>6, <2>1
  <2>3. Pins!CiWrite \notin P /\ f.ci = Pins!Pipeline(b.ci, t)
    BY <1>2, <1>4, <2>2 DEF Surfaces
  <2>4. f.sites[j] = b.sites[j] /\ b.sites[j].sticks
    BY <2>1 DEF Surfaces, Accepted, Pins!SitesRefused
  <2>5. g = [ci |-> f.ci, requirements |-> f.requirements,
             sites |-> [i \in 1..Len(f.sites) |-> IF i = j THEN [f.sites[j] EXCEPT !.refs = {t}] ELSE f.sites[i]]]
    BY <2>2, <2>4, AppliedSite
  <2>6. Len(f.sites) = Len(b.sites)
    BY <1>1, <1>6
  <2>7. ASSUME NEW i \in DOMAIN b.sites
        PROVE  g.sites[i] = IF Pins!SiteWrite(b.sites, i) \in Q THEN b.sites[i] ELSE SiteAt(b.sites[i], t)
    <3>1. g.sites[i] = IF i = j THEN [b.sites[j] EXCEPT !.refs = {t}] ELSE f.sites[i]
      <4>1. g.sites = [k \in 1..Len(f.sites) |-> IF k = j THEN [f.sites[j] EXCEPT !.refs = {t}] ELSE f.sites[k]]
        BY <2>5
      <4>2. i \in 1..Len(f.sites)
        BY <1>6, <2>6
      <4>3. QED
        BY <2>4, <4>1, <4>2
    <3>2. CASE i = j
      BY <2>1, <3>1, <3>2 DEF SiteAt
    <3>3. CASE i # j
      <4>1. Pins!SiteWrite(b.sites, i) # w
        BY <1>2, <2>2, <3>3
      <4>2. QED
        BY <3>1, <3>3, <4>1 DEF Surfaces
    <3>4. QED
      BY <3>2, <3>3
  <2>8. g.requirements = IF Pins!RequirementsWrite \in Q THEN b.requirements ELSE RequirementsAt(b.requirements, t)
    <3>1. Pins!RequirementsWrite # w
      BY <1>2, <2>2
    <3>2. QED
      BY <2>5, <3>1 DEF Surfaces
  <2>9. DOMAIN g.sites = DOMAIN b.sites
    BY <1>6, <2>5, <2>6
  <2>10. Surfaces(g, b, Q, t)
    <3>1. g.ci = Pins!Pipeline(b.ci, t)
      BY <2>3, <2>5
    <3>2. QED
      BY <1>5, <2>7, <2>8, <2>9, <3>1 DEF Surfaces
  <2>11. QED
    BY <2>5, <2>6, <2>10
<1>11. QED
  BY <1>3, <1>8, <1>9, <1>10

(* A verdict of 0 for the declared ref leaves no other ref in use.         *)
LEMMA GreenVerdict ==
    ASSUME NEW T, RefTexts(T), NEW f \in RepositoriesOver(T), NEW want, want = Pins!DeclaredRef(f.ci), Pins!CheckVerdict(f, want) = 0
    PROVE  want \in Tags /\ Pins!RefsInUse(f) = {want}
<1>1. ~Pins!PipelineProblem(f.ci)
  BY DEF Pins!CheckVerdict
<1>2. want \in Tags /\ want # None
  BY <1>1 DEF Pins!PipelineProblem, RefTexts
<1>3. ~Pins!RequirementsProblem(f.requirements, want) /\ ~Pins!SitesProblem(f.sites, want)
  BY <1>2 DEF Pins!CheckVerdict
<1>4. f.ci.includes # {} /\ f.ci.variable.ref = Marker /\ \A i \in f.ci.includes : i.ref = Marker
  BY <1>1 DEF Pins!PipelineProblem
<1>5. f.requirements.exists /\ f.requirements.installs = "library" => f.requirements.pin.ref = want
  BY <1>3 DEF Pins!RequirementsProblem
<1>6. \A i \in DOMAIN f.sites : f.sites[i].refs = {want}
  BY <1>3 DEF Pins!SitesProblem
<1>7. Pins!RefsInUse(f) = {want}
  <2> DEFINE Resolved(ref) == IF ref = Marker THEN Pins!DeclaredRef(f.ci) ELSE ref
             included == {Resolved(i.ref) : i \in f.ci.includes}
             installed == IF f.requirements.exists /\ f.requirements.installs = "library" THEN {f.requirements.pin.ref} ELSE {}
             repeated == UNION {f.sites[i].refs : i \in DOMAIN f.sites}
  <2>1. included = {want}
    BY <1>4
  <2>2. Resolved(f.ci.variable.ref) = want
    BY <1>4
  <2>3. installed \subseteq {want}
    BY <1>5
  <2>4. repeated \subseteq {want}
    BY <1>6
  <2>5. Pins!RefsInUse(f) = included \cup {Resolved(f.ci.variable.ref)} \cup installed \cup repeated
    BY DEF Pins!RefsInUse
  <2> HIDE DEF Resolved, included, installed, repeated
  <2>6. QED
    BY <2>1, <2>2, <2>3, <2>4, <2>5
<1>8. QED
  BY <1>2, <1>7

(* A run: the plan that is under way was accepted, and what of it is on    *)
(* disk is what it has done.                                               *)
PinInv(T) ==
    /\ files \in RepositoriesOver(T) /\ before \in RepositoriesOver(T)
    /\ DOMAIN run = {"job", "phase", "plan", "target", "exit"}
    /\ run.phase \in {"idle", "writing", "done", "crashed"}
    /\ run.phase = "idle" => files = before
    /\ run.phase = "writing" =>
          Accepted(before, run.target) /\ Surfaces(files, before, run.plan, run.target)
    /\ Pins!GreenIsOneTag /\ Pins!FailureIsAllOrNothing /\ Pins!CrashIsRepairable

(* The start of a run, in a repository of those texts. *)
PinsBegin(T) == files \in RepositoriesOver(T) /\ before = files /\ run = Pins!Idle

(* The start satisfies PinInv. *)
LEMMA PinsBeginInv == ASSUME NEW T, PinsBegin(T) PROVE PinInv(T)
BY DEF PinsBegin, PinInv, Pins!Idle, Pins!GreenIsOneTag, Pins!FailureIsAllOrNothing, Pins!CrashIsRepairable

(* A run that ends without a write: its status says whether all is well.   *)
LEMMA EndsKeeps ==
    ASSUME NEW T, PinInv(T), run.phase = "idle", NEW name, NEW status, Pins!Ends(name, status),
           status = 0 /\ name # "print" => Pins!DeclaredRef(files.ci) \in Tags /\ Pins!RefsInUse(files) = {Pins!DeclaredRef(files.ci)}
    PROVE  PinInv(T)'
<1>1. /\ run' = [job |-> name, phase |-> "done", plan |-> {}, target |-> None, exit |-> status]
      /\ files' = files /\ before' = before /\ files = before
  BY DEF PinInv, Pins!Ends, Pins!Idle
<1>2. Pins!GreenIsOneTag'
  BY <1>1 DEF Pins!GreenIsOneTag
<1>3. Pins!FailureIsAllOrNothing' /\ Pins!CrashIsRepairable'
  BY <1>1 DEF Pins!FailureIsAllOrNothing, Pins!CrashIsRepairable
<1>4. QED
  BY <1>1, <1>2, <1>3 DEF PinInv

(* The actions, one by one: a check, *)
LEMMA CheckPins == ASSUME NEW T, RefTexts(T), PinInv(T), Pins!Check PROVE PinInv(T)'
<1>1. run.phase = "idle" /\ Pins!Ends("check", Pins!CheckVerdict(files, Pins!DeclaredRef(files.ci)))
  BY DEF Pins!Check
<1>2. files \in RepositoriesOver(T)
  BY DEF PinInv
<1>3. QED
  BY <1>1, <1>2, EndsKeeps, GreenVerdict

(* --print, *)
LEMMA PrintPins == ASSUME NEW T, PinInv(T), Pins!PrintRef PROVE PinInv(T)'
<1>1. run.phase = "idle" /\ Pins!Ends("print", IF Pins!PrintDeclaredRef(files.ci) = None THEN 2 ELSE 0)
  BY DEF Pins!PrintRef
<1>2. QED
  BY <1>1, EndsKeeps

(* a plan that is refused or accepted, *)
LEMMA FixPins ==
    ASSUME NEW T, PinInv(T), NEW want, Pins!Fix(want) PROVE PinInv(T)'
<1>1. run.phase = "idle" /\ files = before /\ files \in RepositoriesOver(T)
  BY DEF Pins!Fix, PinInv
<1>2. CASE want \notin Tags \cup {None}
  <2>1. Pins!Ends("fix", 2)
    BY <1>2 DEF Pins!Fix
  <2>2. QED
    BY <1>1, <2>1, EndsKeeps
<1>3. CASE want \in Tags \cup {None} /\ Pins!PlanRefused(files, want) # 0
  <2>1. Pins!Ends("fix", Pins!PlanRefused(files, want))
    BY <1>3 DEF Pins!Fix
  <2>2. QED
    BY <1>1, <1>3, <2>1, EndsKeeps
<1>4. CASE want \in Tags \cup {None} /\ Pins!PlanRefused(files, want) = 0
  <2>1. PICK t : t = Pins!Target(files.ci, want)
    OBVIOUS
  <2>2. /\ run' = [job |-> "fix", phase |-> "writing", plan |-> Pins!Writes(files, t), target |-> t, exit |-> 0]
        /\ files' = files /\ before' = before
    BY <1>4, <2>1 DEF Pins!Fix
  <2>3. Accepted(before, t) /\ Surfaces(before, before, Pins!Writes(before, t), t)
    BY <1>1, <1>4, <2>1, PlanAccepted, SurfacesBegin
  <2>4. Accepted(before', run'.target) /\ Surfaces(files', before', run'.plan, run'.target)
    BY <1>1, <2>2, <2>3
  <2>5. Pins!GreenIsOneTag' /\ Pins!FailureIsAllOrNothing' /\ Pins!CrashIsRepairable'
    BY <2>2 DEF Pins!GreenIsOneTag, Pins!FailureIsAllOrNothing, Pins!CrashIsRepairable
  <2>6. QED
    BY <1>1, <2>2, <2>4, <2>5 DEF PinInv
<1>5. QED
  BY <1>2, <1>3, <1>4

(* one write of it, *)
LEMMA WritePins == ASSUME NEW T, RefTexts(T), PinInv(T), Pins!Write PROVE PinInv(T)'
<1>1. PICK w \in run.plan : /\ \A v \in run.plan : w.at <= v.at
                            /\ files' = Pins!Applied(files, w, run.target)
                            /\ run' = [run EXCEPT !.plan = @ \ {w}]
  BY DEF Pins!Write
<1>2. /\ run'.phase = "writing" /\ run'.plan = run.plan \ {w} /\ run'.target = run.target /\ before' = before
      /\ DOMAIN run' = {"job", "phase", "plan", "target", "exit"}
  BY <1>1 DEF Pins!Write, PinInv
<1>3. /\ files \in RepositoriesOver(T) /\ before \in RepositoriesOver(T)
      /\ Accepted(before, run.target) /\ Surfaces(files, before, run.plan, run.target)
  BY DEF Pins!Write, PinInv
<1>4. files' \in RepositoriesOver(T) /\ Surfaces(files', before, run.plan \ {w}, run.target)
  BY <1>1, <1>3, WriteGoesOn
<1>5. Accepted(before', run'.target) /\ Surfaces(files', before', run'.plan, run'.target)
  BY <1>2, <1>3, <1>4
<1>6. Pins!GreenIsOneTag' /\ Pins!FailureIsAllOrNothing' /\ Pins!CrashIsRepairable'
  BY <1>2 DEF Pins!GreenIsOneTag, Pins!FailureIsAllOrNothing, Pins!CrashIsRepairable
<1>7. QED
  BY <1>2, <1>3, <1>4, <1>5, <1>6 DEF PinInv

(* the check after the last write, *)
LEMMA VerifyPins == ASSUME NEW T, RefTexts(T), PinInv(T), Pins!Verify PROVE PinInv(T)'
<1>1. /\ run.phase = "writing" /\ run.plan = {} /\ files' = files /\ before' = before
      /\ run' = [run EXCEPT !.phase = "done", !.exit = Pins!CheckVerdict(files, run.target)]
  BY DEF Pins!Verify
<1>2. /\ run'.phase = "done" /\ run'.exit = Pins!CheckVerdict(files, run.target) /\ run'.target = run.target
      /\ DOMAIN run' = {"job", "phase", "plan", "target", "exit"}
  BY <1>1 DEF PinInv
<1>3. /\ files \in RepositoriesOver(T) /\ before \in RepositoriesOver(T)
      /\ Accepted(before, run.target) /\ Surfaces(files, before, {}, run.target)
  BY <1>1 DEF PinInv
<1>4. /\ Pins!DeclaredRef(files.ci) = run.target /\ ~Pins!PipelineProblem(files.ci)
      /\ ~Pins!RequirementsToFix(files.requirements, run.target) /\ ~Pins!SitesProblem(files.sites, run.target)
  BY <1>3, AllWritten
<1>5. Pins!FailureIsAllOrNothing'
  BY <1>1, <1>2, <1>4 DEF Pins!FailureIsAllOrNothing
<1>6. Pins!GreenIsOneTag'
  <2>1. run'.exit = 0 => Pins!DeclaredRef(files.ci) \in Tags /\ Pins!RefsInUse(files) = {Pins!DeclaredRef(files.ci)}
    BY <1>2, <1>3, <1>4, GreenVerdict
  <2>2. QED
    BY <1>1, <2>1 DEF Pins!GreenIsOneTag
<1>7. Pins!CrashIsRepairable'
  BY <1>2 DEF Pins!CrashIsRepairable
<1>8. QED
  BY <1>1, <1>2, <1>3, <1>5, <1>6, <1>7 DEF PinInv

(* and a kill between two. *)
LEMMA CrashPins == ASSUME NEW T, RefTexts(T), PinInv(T), Pins!Crash PROVE PinInv(T)'
<1>1. /\ run.phase = "writing" /\ files' = files /\ before' = before
      /\ run' = [run EXCEPT !.phase = "crashed", !.plan = {}]
  BY DEF Pins!Crash
<1>2. /\ run'.phase = "crashed" /\ run'.target = run.target
      /\ DOMAIN run' = {"job", "phase", "plan", "target", "exit"}
  BY <1>1 DEF PinInv
<1>3. /\ files \in RepositoriesOver(T) /\ before \in RepositoriesOver(T)
      /\ Accepted(before, run.target) /\ Surfaces(files, before, run.plan, run.target)
  BY <1>1 DEF PinInv
<1>4. files # before => Pins!PlanRefused(files, None) = 0 /\ Pins!Target(files.ci, None) = run.target
  <2>1. files # before => Pins!CiWrite \notin run.plan
    BY <1>3 DEF Surfaces
  <2>2. files # before => Accepted(files, run.target) /\ files.ci = Pins!Pipeline(files.ci, run.target)
    BY <1>3, <2>1, HalfWritten
  <2>3. QED
    BY <1>3, <2>2, AcceptedPasses
<1>5. Pins!CrashIsRepairable'
  BY <1>1, <1>2, <1>4 DEF Pins!CrashIsRepairable
<1>6. Pins!GreenIsOneTag' /\ Pins!FailureIsAllOrNothing'
  BY <1>2 DEF Pins!GreenIsOneTag, Pins!FailureIsAllOrNothing
<1>7. QED
  BY <1>1, <1>2, <1>3, <1>5, <1>6 DEF PinInv

(* Every step keeps PinInv. *)
LEMMA PinsInductive ==
    ASSUME NEW T, RefTexts(T), PinInv(T), [Pins!LibPinsNext]_(Pins!vars) PROVE PinInv(T)'
<1>1. CASE Pins!Check \/ Pins!PrintRef
  BY <1>1, CheckPins, PrintPins
<1>2. CASE \E want \in Tags \cup {None, Branch} : Pins!Fix(want)
  BY <1>2, FixPins
<1>3. CASE Pins!Write
  BY <1>3, WritePins
<1>4. CASE Pins!Verify \/ Pins!Crash
  BY <1>4, VerifyPins, CrashPins
<1>5. CASE UNCHANGED Pins!vars
  BY <1>5 DEF Pins!vars, PinInv, Pins!GreenIsOneTag, Pins!FailureIsAllOrNothing, Pins!CrashIsRepairable
<1>6. QED
  BY <1>1, <1>2, <1>3, <1>4, <1>5 DEF Pins!LibPinsNext

(* For a repository of any size and refs: a check or rewrite that ends     *)
(* well leaves every use of the library at the declared release tag, one   *)
(* that fails has changed nothing or set every pin there is, and one that  *)
(* was killed half way is taken up by the next: check-lib-pins.py.         *)
THEOREM PinsStayTogether ==
    ASSUME NEW T, RefTexts(T)
    PROVE  PinsBegin(T) /\ [][Pins!LibPinsNext]_(Pins!vars)
             => [](Pins!GreenIsOneTag /\ Pins!FailureIsAllOrNothing /\ Pins!CrashIsRepairable)
<1>1. PinsBegin(T) => PinInv(T)
  BY PinsBeginInv
<1>2. PinInv(T) /\ [Pins!LibPinsNext]_(Pins!vars) => PinInv(T)'
  BY PinsInductive
<1>3. PinInv(T) => Pins!GreenIsOneTag /\ Pins!FailureIsAllOrNothing /\ Pins!CrashIsRepairable
  BY DEF PinInv
<1>4. QED
  BY <1>1, <1>2, <1>3, PTL

(* The repositories of MCOperations are such repositories.                 *)
InstanceTexts ==
    {"t1", "t2", "main", "marker", "none"} \cup Tags \cup {Marker, None} \cup {"README.md", "guide.md", ".gitlab-ci.yml"}

(* Sequences of up to two. *)
LEMMA ShortSequences == ASSUME NEW S PROVE <<>> \in Seq(S) /\ \A a \in S : <<a>> \in Seq(S) /\ \A b \in S : <<a, b>> \in Seq(S)
OBVIOUS

(* The pipeline files of MCOperations, *)
LEMMA InstancePipelines == CiFiles \subseteq PipelinesOver(InstanceTexts)
<1>1. /\ Pinned \subseteq PinsOver(InstanceTexts) /\ Pin("marker", TRUE) \in PinsOver(InstanceTexts)
      /\ [ref : Refs \cup {"none"}, reach : BOOLEAN] \subseteq PinsOver(InstanceTexts)
  BY DEF Pinned, Refs, Pin, PinsOver, InstanceTexts
<1>2. Includes \subseteq SUBSET PinsOver(InstanceTexts)
  BY <1>1 DEF Includes
<1>3. {"t1", "main", "none"} \subseteq InstanceTexts
  BY DEF InstanceTexts
<1>4. QED
  BY <1>1, <1>2, <1>3 DEF CiFiles, PipelinesOver

(* and its repositories, are over InstanceTexts. *)
LEMMA InstanceRepositories == Repositories \subseteq RepositoriesOver(InstanceTexts)
<1>1. PlainRequirements \in RequirementsOver(InstanceTexts) /\ Requirements \subseteq RequirementsOver(InstanceTexts)
  BY DEF PlainRequirements, Pin, Requirements, RequirementsOver, PinsOver, InstanceTexts
<1>2. PlainSites \in Seq(SitesOver(InstanceTexts))
  <2>1. Site("README.md", "ok", {"t1"}, TRUE) \in SitesOver(InstanceTexts)
    BY DEF Site, SitesOver, InstanceTexts
  <2>2. QED
    BY <2>1, ShortSequences DEF PlainSites
<1>3. SiteLists \subseteq Seq(SitesOver(InstanceTexts))
  <2>1. AnySites \subseteq SitesOver(InstanceTexts) /\ GoodSites \subseteq SitesOver(InstanceTexts)
    BY DEF AnySites, GoodSites, SitesOver, InstanceTexts
  <2>2. \A x \in AnySites \X GoodSites : \E a \in AnySites, b \in GoodSites : x = <<a, b>>
    OBVIOUS
  <2>3. \A x \in AnySites \X GoodSites : x \in Seq(SitesOver(InstanceTexts))
    BY <2>1, <2>2, ShortSequences
  <2>4. QED
    BY <2>3, ShortSequences DEF SiteLists
<1>4. \A t \in {"t1", "t2"} : GoodCi(t) \in PipelinesOver(InstanceTexts)
  BY DEF GoodCi, Pin, PipelinesOver, PinsOver, InstanceTexts
<1>5. QED
  BY <1>1, <1>2, <1>3, <1>4, InstancePipelines DEF Repositories, RepositoriesOver

(* The same in the composition.                                            *)
Pinning == job = "pins" => PinInv(InstanceTexts)

(* A behaviour of the pins begins as a run does. *)
LEMMA PinningBegins == ASSUME OperationsInit PROVE Pinning
<1>1. job = "pins" => files \in Repositories /\ before = files /\ run = Pins!Idle
  BY DEF OperationsInit
<1>2. QED
  BY <1>1, InstanceRepositories, PinsBeginInv DEF Pinning, PinsBegin

(* Its steps are steps of a run. *)
LEMMA PinningKeeps ==
    ASSUME None \notin Tags, Marker # None, Pinning, [OperationsNext]_operationVars PROVE Pinning'
<1>1. SUFFICES ASSUME job' = "pins" PROVE PinInv(InstanceTexts)'
  BY DEF Pinning
<1>2. job = "pins"
  BY <1>1 DEF OperationsNext, operationVars
<1>3. [Pins!LibPinsNext]_(Pins!vars)
  BY <1>2 DEF OperationsNext, operationVars, pinVars, Pins!vars
<1>4. RefTexts(InstanceTexts)
  BY DEF RefTexts, InstanceTexts
<1>5. QED
  BY <1>2, <1>3, <1>4, PinsInductive DEF Pinning

(* The library stays at one release tag, whatever a run of                 *)
(* check-lib-pins.py meets on its way.                                     *)
THEOREM LibraryStaysOneTag ==
    ASSUME None \notin Tags, Marker # None PROVE Operations => []LibraryIsOneTag
<1>1. OperationsInit => Pinning
  BY PinningBegins
<1>2. Pinning /\ [OperationsNext]_operationVars => Pinning'
  BY PinningKeeps
<1>3. Pinning => LibraryIsOneTag
  BY DEF Pinning, PinInv, LibraryIsOneTag
<1>4. QED
  BY <1>1, <1>2, <1>3, PTL DEF Operations

-----------------------------------------------------------------------------
(* The runs of the site playbooks. *)

(* The NAS is a Proxmox host, and the primary a DNS host, in the           *)
(* inventory.                                                              *)
Nested == Groups.nas \subseteq Groups.proxmox /\ Groups.primary \subseteq Groups.dns

(* The phases of a run. *)
Phases == {"probe", "next", "play", "report", "gate", "over"}

(* The variables have their types. *)
SiteShape ==
    /\ DOMAIN deploy = {"book", "limit", "absent", "phase", "at", "waiting", "skipped", "removed", "done",
                        "reported", "tripped", "red", "flips"}
    /\ DOMAIN fates = {"missing", "back"}
    /\ deploy.book \in Deployment!Playbooks /\ deploy.at \in 0..Len(deploy.book)
    /\ deploy.phase \in Phases /\ deploy.red \in BOOLEAN

(* What the control of a run rests on. *)
Course ==
    /\ deploy.phase = "probe" => deploy.at = 0 /\ deploy.done = {} /\ deploy.skipped = {}
    /\ deploy.phase = "play" => deploy.waiting # {} /\ deploy.at > 0
    /\ deploy.phase = "report" => deploy.at > 0
    /\ deploy.phase = "gate" => deploy.at = Len(deploy.book)
    /\ deploy.removed # {} => deploy.red

(* The first half of the ledger: a skipped host of base_managed is still   *)
(* down and got nothing, or came back.                                     *)
Ledger ==
    /\ deploy.skipped \subseteq Deployment!Managed \cap deploy.limit
    /\ deploy.phase # "over" => \A h \in deploy.skipped : h \in fates.back \/ h \notin up
    /\ \A d \in deploy.done : d.host \in deploy.skipped => d.host \in fates.back

(* Why a host may still lack what play i owed it. *)
Excused(i, h) ==
    \/ h \in fates.back \/ h \in deploy.skipped \/ deploy.red
    \/ h \in Deployment!Managed /\ h \notin up
    \/ h \notin Deployment!Managed /\ [at |-> i, host |-> h] \in deploy.reported
    \/ i = deploy.at /\ deploy.phase = "play" /\ h \in deploy.waiting
    \/ i = deploy.at /\ deploy.phase = "report" /\ h \notin up

(* What a play has passed over is done or excused. *)
Accounted ==
    deploy.phase # "over" =>
        \A i \in 1..deploy.at : \A h \in deploy.book[i].hosts \cap deploy.limit :
            [at |-> i, host |-> h] \in deploy.done \/ Excused(i, h)

(* The inductive invariant of a run. *)
SiteInv == SiteShape /\ Course /\ Ledger /\ Accounted /\ Deployment!NothingMissedSilently

(* Only a play that reports, and is not serial, may reach beyond           *)
(* base_managed.                                                           *)
Fenced(play) == play.hosts \subseteq Deployment!Managed \/ (play.reports /\ ~play.serial)

(* Every kind of play is fenced: *)
LEMMA WideFenced == ASSUME NEW H \in SUBSET Deployment!Managed PROVE Fenced(Deployment!Wide(H)) /\ Deployment!Wide(H).hosts = H
BY DEF Fenced, Deployment!Wide

(* one batch after the other, *)
LEMMA SerialFenced == ASSUME NEW H \in SUBSET Deployment!Managed PROVE Fenced(Deployment!Serial(H))
BY DEF Fenced, Deployment!Serial, Deployment!Wide

(* a single host, *)
LEMMA SingleFenced == ASSUME NEW H \in SUBSET Deployment!Managed PROVE Fenced(Deployment!Single(H))
BY DEF Fenced, Deployment!Single, Deployment!Wide

(* and the plays that report. *)
LEMMA ReportingFenced == ASSUME NEW H PROVE Fenced(Deployment!Reporting(H))
BY DEF Fenced, Deployment!Reporting, Deployment!Wide

(* So is every play of every playbook. *)
LEMMA Books ==
    ASSUME Nested, NEW book \in Deployment!Playbooks
    PROVE  Len(book) \in Nat /\ \A i \in 1..Len(book) : Fenced(book[i])
<1> DEFINE M1 == Groups.proxmox \cup Groups.dns \cup Groups.mail \cup Groups.apps \cup Groups.k3s_servers
           M2 == Deployment!Managed \cup Groups.apps \cup Groups.k3s
<1>0. /\ Deployment!Managed \subseteq Deployment!Managed /\ Groups.proxmox \subseteq Deployment!Managed /\ Groups.dns \subseteq Deployment!Managed
      /\ Groups.nas \subseteq Deployment!Managed /\ Groups.mail \subseteq Deployment!Managed /\ Groups.primary \subseteq Deployment!Managed
  BY DEF Nested, Deployment!Managed
<1>1. /\ Fenced(Deployment!Wide(Deployment!Managed)) /\ Fenced(Deployment!Wide(Groups.proxmox)) /\ Fenced(Deployment!Wide(Groups.dns))
      /\ Fenced(Deployment!Serial(Groups.dns)) /\ Fenced(Deployment!Single(Groups.nas)) /\ Fenced(Deployment!Single(Groups.mail))
      /\ Fenced(Deployment!Reporting(M1)) /\ Fenced(Deployment!Reporting(M2))
  BY <1>0, WideFenced, SerialFenced, SingleFenced, ReportingFenced
<1>2. Fenced([Deployment!Wide(Groups.primary) EXCEPT !.skips = FALSE])
  BY <1>0 DEF Fenced, Deployment!Wide
<1>3. CASE book = Deployment!Site
  <2>1. Len(book) = 10
    BY <1>3 DEF Deployment!Site
  <2>2. /\ book[1] = Deployment!Wide(Deployment!Managed) /\ book[2] = Deployment!Wide(Groups.proxmox) /\ book[3] = Deployment!Serial(Groups.dns)
        /\ book[4] = Deployment!Serial(Groups.dns) /\ book[5] = Deployment!Single(Groups.nas) /\ book[6] = Deployment!Wide(Groups.dns)
        /\ book[7] = Deployment!Single(Groups.mail) /\ book[8] = Deployment!Single(Groups.mail)
        /\ book[9] = Deployment!Reporting(M1) /\ book[10] = Deployment!Reporting(M2)
    BY <1>3 DEF Deployment!Site
  <2>3. \A i \in 1..10 : i \in {1, 2, 3, 4, 5, 6, 7, 8, 9, 10}
    OBVIOUS
  <2>4. /\ Fenced(book[1]) /\ Fenced(book[2]) /\ Fenced(book[3]) /\ Fenced(book[4]) /\ Fenced(book[5])
        /\ Fenced(book[6]) /\ Fenced(book[7]) /\ Fenced(book[8]) /\ Fenced(book[9]) /\ Fenced(book[10])
    BY <1>1, <2>2
  <2>5. QED
    BY <2>1, <2>3, <2>4
<1>4. CASE book = Deployment!Base
  <2>1. Len(book) = 2
    BY <1>4 DEF Deployment!Base
  <2>2. book[1] = Deployment!Wide(Deployment!Managed) /\ book[2] = [Deployment!Wide(Groups.primary) EXCEPT !.skips = FALSE]
    BY <1>4 DEF Deployment!Base
  <2>3. Fenced(book[1]) /\ Fenced(book[2])
    BY <1>1, <1>2, <2>2
  <2>4. QED
    BY <2>1, <2>3
<1>5. QED
  BY <1>3, <1>4 DEF Deployment!Playbooks

(* SiteInv holds at the start. *)
LEMMA SiteBegins == ASSUME Nested, Deployment!ReachabilityInit PROVE SiteInv
<1>1. PICK book \in Deployment!Playbooks, limit \in Limits, absent \in Absences : deploy = Deployment!Begin(book, limit, absent)
  BY DEF Deployment!ReachabilityInit
<1>2. Len(book) \in Nat
  BY Books
<1>3. fates = [missing |-> Deployment!Hosts \ up, back |-> {}]
  BY DEF Deployment!ReachabilityInit
<1>4. SiteShape
  BY <1>1, <1>2, <1>3 DEF Deployment!Begin, SiteShape, Phases
<1>5. Course /\ Ledger /\ Deployment!NothingMissedSilently
  BY <1>1 DEF Deployment!Begin, Course, Ledger, Deployment!NothingMissedSilently
<1>6. Accounted
  BY <1>1 DEF Deployment!Begin, Accounted
<1>7. QED
  BY <1>4, <1>5, <1>6 DEF SiteInv

(* The actions, one by one. *)
LEMMA SiteProbeKeeps == ASSUME SiteInv, Deployment!Probe PROVE SiteInv'
<1>1. /\ deploy.phase = "probe" /\ deploy.at = 0 /\ deploy.done = {}
      /\ deploy' = [deploy EXCEPT !.phase = "next", !.skipped = (Deployment!Managed \cap deploy.limit) \ up]
      /\ UNCHANGED <<up, fates>>
  BY DEF Deployment!Probe, Deployment!Goes, SiteInv, Course
<1>2. SiteShape'
  BY <1>1 DEF SiteInv, SiteShape, Phases
<1>3. Course' /\ Ledger' /\ Deployment!NothingMissedSilently'
  BY <1>1 DEF SiteInv, SiteShape, Course, Ledger, Deployment!NothingMissedSilently, Deployment!Managed
<1>4. Accounted'
  BY <1>1 DEF SiteInv, SiteShape, Accounted
<1>5. QED
  BY <1>2, <1>3, <1>4 DEF SiteInv

(* A host goes down or comes back. *)
LEMMA SiteFlipKeeps == ASSUME SiteInv, Deployment!Flip PROVE SiteInv'
<1>1. PICK h \in deploy.limit : Deployment!Falls(h) \/ Deployment!Returns(h)
  BY DEF Deployment!Flip
<1>2. deploy' = [deploy EXCEPT !.flips = @ + 1] /\ deploy.phase # "over"
  BY DEF Deployment!Flip
<1>3. /\ fates.back \subseteq fates'.back /\ DOMAIN fates' = DOMAIN fates
      /\ \A g : g \notin up => g \notin up' \/ g \in fates'.back
  BY <1>1 DEF Deployment!Falls, Deployment!Returns, SiteInv, SiteShape
<1>4. SiteShape' /\ Course' /\ Deployment!NothingMissedSilently'
  BY <1>2, <1>3 DEF SiteInv, SiteShape, Course, Deployment!NothingMissedSilently
<1>5. Ledger'
  BY <1>2, <1>3 DEF SiteInv, SiteShape, Ledger, Deployment!Managed
<1>6. Accounted'
  <2>1. /\ deploy'.phase = deploy.phase /\ deploy'.at = deploy.at /\ deploy'.book = deploy.book /\ deploy'.limit = deploy.limit
        /\ deploy'.done = deploy.done /\ deploy'.skipped = deploy.skipped /\ deploy'.red = deploy.red
        /\ deploy'.reported = deploy.reported /\ deploy'.waiting = deploy.waiting
    BY <1>2 DEF SiteInv, SiteShape
  <2>2. ASSUME NEW i \in 1..deploy.at, NEW g, Excused(i, g)
        PROVE  Excused(i, g)'
    BY <1>3, <2>1, <2>2 DEF Excused, Deployment!Managed
  <2>3. QED
    BY <1>2, <2>1, <2>2 DEF SiteInv, Accounted
<1>7. QED
  BY <1>4, <1>5, <1>6 DEF SiteInv

(* The hosts of a play that starts wait for their batch, are skipped, or   *)
(* have left a run that is red.                                            *)
LEMMA SiteNextPlayKeeps == ASSUME Nested, SiteInv, Deployment!NextPlay PROVE SiteInv'
<1>1. deploy.phase = "next" /\ UNCHANGED <<up, fates>> /\ Len(deploy.book) \in Nat
  BY Books DEF Deployment!NextPlay, Deployment!Goes, SiteInv, SiteShape
<1>2. CASE deploy.at = Len(deploy.book)
  <2>1. deploy' = [deploy EXCEPT !.phase = "gate"]
    BY <1>2 DEF Deployment!NextPlay, Deployment!Goes
  <2>2. SiteShape' /\ Course' /\ Ledger' /\ Deployment!NothingMissedSilently'
    BY <1>1, <1>2, <2>1 DEF SiteInv, SiteShape, Phases, Course, Ledger, Deployment!NothingMissedSilently,
         Deployment!Managed
  <2>3. /\ deploy'.phase = "gate" /\ deploy'.at = deploy.at /\ deploy'.book = deploy.book /\ deploy'.limit = deploy.limit
        /\ deploy'.done = deploy.done /\ deploy'.skipped = deploy.skipped /\ deploy'.red = deploy.red
        /\ deploy'.reported = deploy.reported
    BY <2>1 DEF SiteInv, SiteShape
  <2>4. ASSUME NEW i \in 1..deploy.at, NEW g, Excused(i, g)
        PROVE  Excused(i, g)'
    BY <1>1, <2>3, <2>4 DEF Excused
  <2>5. deploy.phase # "over"
    BY <1>1
  <2>6. Accounted'
    BY <2>3, <2>4, <2>5 DEF SiteInv, Accounted
  <2>7. QED
    BY <2>2, <2>6 DEF SiteInv
<1>3. CASE deploy.at # Len(deploy.book)
  <2> DEFINE targets == Deployment!Targets(deploy.book[deploy.at + 1])
             phase == IF targets = {} THEN "next" ELSE "play"
  <2>1. deploy' = [deploy EXCEPT !.at = @ + 1, !.waiting = targets, !.phase = phase]
    BY <1>3 DEF Deployment!NextPlay, Deployment!Goes
  <2> HIDE DEF targets
  <2>2. /\ deploy'.at = deploy.at + 1 /\ deploy'.waiting = targets /\ deploy'.phase = phase
        /\ deploy'.book = deploy.book /\ deploy'.limit = deploy.limit /\ deploy'.done = deploy.done
        /\ deploy'.skipped = deploy.skipped /\ deploy'.red = deploy.red /\ deploy'.reported = deploy.reported
        /\ deploy'.removed = deploy.removed /\ DOMAIN deploy' = DOMAIN deploy
    BY <2>1 DEF SiteInv, SiteShape
  <2>3. SiteShape' /\ Course' /\ Ledger' /\ Deployment!NothingMissedSilently'
    BY <1>1, <1>3, <2>2 DEF SiteInv, SiteShape, Phases, Course, Ledger, Deployment!NothingMissedSilently,
         Deployment!Managed
  <2>4. Accounted'
    <3>1. SUFFICES ASSUME NEW i \in 1..(deploy.at + 1), NEW h \in deploy.book[i].hosts \cap deploy.limit,
                          [at |-> i, host |-> h] \notin deploy.done
                   PROVE  Excused(i, h)'
      BY <2>2 DEF Accounted
    <3>2. CASE i = deploy.at + 1
      <4>1. h \in targets \/ h \in deploy.removed \/ h \in deploy.skipped
        BY <3>2 DEF targets, Deployment!Targets
      <4>2. QED
        BY <3>2, <4>1, <2>2 DEF Excused, SiteInv, Course
    <3>3. CASE i # deploy.at + 1
      <4>1. i \in 1..deploy.at
        BY <3>3 DEF SiteInv, SiteShape
      <4>2. Excused(i, h)
        BY <1>1, <3>1, <4>1 DEF SiteInv, Accounted
      <4>3. QED
        BY <1>1, <2>2, <4>2 DEF Excused, Deployment!Managed
    <3>4. QED
      BY <3>2, <3>3
  <2>5. QED
    BY <2>3, <2>4 DEF SiteInv
<1>4. QED
  BY <1>2, <1>3

(* A batch reaches its hosts, or is excused: by a red run, by the second   *)
(* probe that is still to come, or by the report of the play.              *)
LEMMA BatchKeeps ==
    ASSUME Nested, SiteInv, deploy.phase = "play", NEW batch \in SUBSET deploy.waiting, batch # {},
           Deployment!Play.serial \/ batch = deploy.waiting, Deployment!Batch(batch)
    PROVE  SiteInv'
<1>1. PICK tripped \in SUBSET {h \in batch \ up : Deployment!Play.ignores /\ \A d \in deploy.done : d.host # h} :
        LET failed == IF Deployment!Play.ignores THEN tripped ELSE batch \ up
            rest == deploy.waiting \ batch
        IN  Deployment!Goes([deploy EXCEPT
                !.done = @ \cup {[at |-> deploy.at, host |-> h] : h \in batch \cap up},
                !.removed = @ \cup failed, !.tripped = @ \/ tripped # {}, !.red = @ \/ failed # {},
                !.waiting = rest,
                !.phase = IF failed = batch THEN "over" ELSE IF rest # {} THEN "play" ELSE IF Deployment!Play.reports THEN "report" ELSE "next"])
  BY DEF Deployment!Batch
<1> DEFINE failed == IF Deployment!Play.ignores THEN tripped ELSE batch \ up
           rest == deploy.waiting \ batch
           reached == {[at |-> deploy.at, host |-> h] : h \in batch \cap up}
           phase == IF failed = batch THEN "over" ELSE IF rest # {} THEN "play" ELSE IF Deployment!Play.reports THEN "report" ELSE "next"
<1>2. /\ deploy' = [deploy EXCEPT !.done = @ \cup reached, !.removed = @ \cup failed, !.tripped = @ \/ tripped # {},
                                  !.red = @ \/ failed # {}, !.waiting = rest, !.phase = phase]
      /\ UNCHANGED <<up, fates>>
  BY <1>1 DEF Deployment!Goes
<1> HIDE DEF failed, phase
<1>3. /\ deploy'.at = deploy.at /\ deploy'.waiting = rest /\ deploy'.phase = phase
      /\ deploy'.book = deploy.book /\ deploy'.limit = deploy.limit /\ deploy'.done = deploy.done \cup reached
      /\ deploy'.skipped = deploy.skipped /\ deploy'.reported = deploy.reported
      /\ deploy'.removed = deploy.removed \cup failed /\ DOMAIN deploy' = DOMAIN deploy
  BY <1>2 DEF SiteInv, SiteShape
<1>4. deploy'.red = (deploy.red \/ failed # {})
  BY <1>2 DEF SiteInv, SiteShape
<1>5. phase \in {"over", "play", "report", "next"} /\ (phase = "over" => deploy'.red) /\ (phase = "play" => rest # {})
  BY <1>4 DEF phase
<1>6. SiteShape' /\ Course' /\ Deployment!NothingMissedSilently'
  BY <1>3, <1>4, <1>5, <1>2 DEF SiteInv, SiteShape, Phases, Course, Deployment!NothingMissedSilently
<1>7. Ledger'
  BY <1>3, <1>2 DEF SiteInv, Ledger, Deployment!Managed
<1>8. Accounted'
  <2>1. SUFFICES ASSUME phase # "over", NEW i \in 1..deploy.at, NEW h \in deploy.book[i].hosts \cap deploy.limit,
                        [at |-> i, host |-> h] \notin deploy.done \cup reached
                 PROVE  Excused(i, h)'
    BY <1>3 DEF Accounted
  <2>2. Excused(i, h)
    BY <2>1 DEF SiteInv, Accounted
  <2>3. CASE i = deploy.at /\ h \in batch
    <3>1. h \notin up
      BY <2>1, <2>3
    <3>2. CASE h \in Deployment!Managed
      BY <1>2, <3>1, <3>2 DEF Excused, Deployment!Managed
    <3>3. CASE h \notin Deployment!Managed
      <4>1. Deployment!Play.reports /\ ~Deployment!Play.serial
        BY <2>3, <3>3, Books DEF SiteInv, SiteShape, Fenced, Deployment!Play
      <4>2. phase = "report"
        BY <2>1, <4>1 DEF phase
      <4>3. QED
        BY <1>2, <1>3, <2>3, <3>1, <4>2 DEF Excused
    <3>4. QED
      BY <3>2, <3>3
  <2>4. CASE ~(i = deploy.at /\ h \in batch)
    <3>1. i = deploy.at /\ h \in deploy.waiting => phase = "play" /\ h \in rest
      BY <2>1, <2>4 DEF phase
    <3>2. QED
      BY <1>2, <1>3, <1>4, <2>2, <3>1 DEF Excused, Deployment!Managed
  <2>5. QED
    BY <2>3, <2>4
<1>9. QED
  BY <1>6, <1>7, <1>8 DEF SiteInv

(* A batch of a play is converged. *)
LEMMA ConvergeKeeps == ASSUME Nested, SiteInv, Deployment!Converge PROVE SiteInv'
<1>1. deploy.phase = "play" /\ deploy.waiting # {}
  BY DEF Deployment!Converge, SiteInv, Course
<1>2. CASE Deployment!Play.serial
  <2>1. PICK h \in deploy.waiting : Deployment!Batch({h})
    BY <1>2 DEF Deployment!Converge
  <2>2. {h} \in SUBSET deploy.waiting /\ {h} # {}
    OBVIOUS
  <2>3. QED
    BY <1>1, <1>2, <2>1, <2>2, BatchKeeps
<1>3. CASE ~Deployment!Play.serial
  <2>1. Deployment!Batch(deploy.waiting)
    BY <1>3 DEF Deployment!Converge
  <2>2. QED
    BY <1>1, <2>1, BatchKeeps
<1>4. QED
  BY <1>2, <1>3

(* A play that lost its hosts reports. *)
LEMMA SiteReportKeeps == ASSUME SiteInv, Deployment!Report PROVE SiteInv'
<1> DEFINE missed == {[at |-> deploy.at, host |-> h] : h \in Deployment!Targets(Deployment!Play) \ up}
<1>1. /\ deploy.phase = "report" /\ UNCHANGED <<up, fates>>
      /\ deploy' = [deploy EXCEPT !.phase = "next", !.reported = @ \cup missed]
  BY DEF Deployment!Report, Deployment!Goes
<1>2. /\ deploy'.at = deploy.at /\ deploy'.waiting = deploy.waiting /\ deploy'.phase = "next"
      /\ deploy'.book = deploy.book /\ deploy'.limit = deploy.limit /\ deploy'.done = deploy.done
      /\ deploy'.skipped = deploy.skipped /\ deploy'.red = deploy.red /\ deploy'.reported = deploy.reported \cup missed
      /\ deploy'.removed = deploy.removed /\ DOMAIN deploy' = DOMAIN deploy
  BY <1>1 DEF SiteInv, SiteShape
<1>3. SiteShape' /\ Course' /\ Ledger' /\ Deployment!NothingMissedSilently'
  BY <1>1, <1>2 DEF SiteInv, SiteShape, Phases, Course, Ledger, Deployment!NothingMissedSilently, Deployment!Managed
<1>4. Accounted'
  <2>1. SUFFICES ASSUME NEW i \in 1..deploy.at, NEW h \in deploy.book[i].hosts \cap deploy.limit,
                        [at |-> i, host |-> h] \notin deploy.done
                 PROVE  Excused(i, h)'
    BY <1>2 DEF Accounted
  <2>2. Excused(i, h)
    BY <1>1, <2>1 DEF SiteInv, Accounted
  <2>3. CASE i = deploy.at /\ h \notin up /\ h \notin Deployment!Managed
    <3>1. h \in deploy.removed \/ h \in deploy.skipped \/ h \in Deployment!Targets(Deployment!Play)
      BY <2>3 DEF Deployment!Targets, Deployment!Play
    <3>2. QED
      BY <1>1, <1>2, <2>3, <3>1 DEF Excused, SiteInv, Course, Deployment!Managed
  <2>4. CASE ~(i = deploy.at /\ h \notin up /\ h \notin Deployment!Managed)
    BY <1>1, <1>2, <2>2, <2>4 DEF Excused, Deployment!Managed
  <2>5. QED
    BY <2>3, <2>4
<1>5. QED
  BY <1>3, <1>4 DEF SiteInv

(* The second probe finds a host of base_managed that is still missing; an *)
(* absence that was declared covers a host that got nothing.               *)
LEMMA SiteGateKeeps == ASSUME SiteInv, Deployment!Gate PROVE SiteInv'
<1> DEFINE fails == Deployment!GateHosts # {} /\ (deploy.skipped \ deploy.absent # {} \/ Deployment!Lost # {})
<1>1. /\ deploy.phase = "gate" /\ deploy.at = Len(deploy.book) /\ UNCHANGED <<up, fates>>
      /\ deploy' = [deploy EXCEPT !.phase = "over", !.red = @ \/ fails]
  BY DEF Deployment!Gate, Deployment!Goes, SiteInv, Course
<1> HIDE DEF fails
<1>2. /\ deploy'.at = deploy.at /\ deploy'.phase = "over" /\ deploy'.book = deploy.book /\ deploy'.limit = deploy.limit
      /\ deploy'.done = deploy.done /\ deploy'.skipped = deploy.skipped /\ deploy'.reported = deploy.reported
      /\ deploy'.removed = deploy.removed /\ deploy'.absent = deploy.absent /\ DOMAIN deploy' = DOMAIN deploy
  BY <1>1 DEF SiteInv, SiteShape
<1>3. deploy'.red = (deploy.red \/ fails)
  BY <1>1 DEF SiteInv, SiteShape
<1>4. SiteShape' /\ Course' /\ Ledger' /\ Accounted'
  BY <1>1, <1>2, <1>3 DEF SiteInv, SiteShape, Phases, Course, Ledger, Accounted, Deployment!Managed
<1>5. Deployment!NothingMissedSilently'
  <2>1. SUFFICES ASSUME ~deploy.red, ~fails, NEW d \in Deployment!Owed', d \notin deploy.done
                 PROVE  \/ d.host \in fates.back
                        \/ d.host \in deploy.absent \cap deploy.skipped /\ \A e \in deploy.done : e.host # d.host
                        \/ d.host \notin Deployment!Managed /\ d \in deploy.reported
    BY <1>1, <1>2, <1>3 DEF Deployment!NothingMissedSilently, Deployment!Managed
  <2>2. PICK i \in DOMAIN deploy.book, h \in deploy.limit : d = [at |-> i, host |-> h] /\ h \in deploy.book[i].hosts
    BY <1>2, <2>1 DEF Deployment!Owed
  <2>3. i \in 1..deploy.at /\ d.host = h
    BY <1>1, <2>2 DEF SiteInv, SiteShape, Deployment!Playbooks, Deployment!Site, Deployment!Base
  <2>4. Excused(i, h)
    BY <1>1, <2>1, <2>2, <2>3 DEF SiteInv, Accounted
  <2>5. deploy.removed = {} /\ Deployment!GateHosts = Deployment!Managed \cap deploy.limit
    BY <2>1 DEF SiteInv, Course, Deployment!GateHosts
  <2>6. CASE h \in deploy.skipped
    <3>1. h \in Deployment!GateHosts
      BY <2>5, <2>6 DEF SiteInv, Ledger
    <3>2. h \in deploy.absent
      BY <2>1, <2>6, <3>1 DEF fails
    <3>3. QED
      BY <2>3, <2>6, <3>2 DEF SiteInv, Ledger
  <2>7. CASE h \notin deploy.skipped
    <3>1. ~(h \in Deployment!Managed /\ h \notin up)
      BY <2>1, <2>5, <2>7 DEF fails, Deployment!Lost
    <3>2. QED
      BY <1>1, <2>1, <2>2, <2>3, <2>4, <2>7, <3>1 DEF Excused
  <2>8. QED
    BY <2>6, <2>7
<1>6. QED
  BY <1>4, <1>5 DEF SiteInv

(* Every step keeps SiteInv. *)
LEMMA SiteInductive == ASSUME Nested, SiteInv, [Deployment!ReachabilityNext]_Deployment!vars PROVE SiteInv'
<1>1. CASE Deployment!ReachabilityNext
  BY <1>1, SiteProbeKeeps, SiteNextPlayKeeps, ConvergeKeeps, SiteReportKeeps, SiteGateKeeps,
       SiteFlipKeeps DEF Deployment!ReachabilityNext
<1>2. CASE UNCHANGED Deployment!vars
  <2>1. up' = up /\ fates' = fates /\ deploy' = deploy
    BY <1>2 DEF Deployment!vars
  <2>2. SiteShape' /\ Course' /\ Ledger' /\ Accounted'
    BY <2>1 DEF SiteInv, SiteShape, Course, Ledger, Accounted, Excused, Deployment!Managed
  <2>3. Deployment!NothingMissedSilently'
    BY <2>1 DEF SiteInv, Deployment!NothingMissedSilently, Deployment!Owed, Deployment!Managed
  <2>4. QED
    BY <2>2, <2>3 DEF SiteInv
<1>3. QED
  BY <1>1, <1>2

(* A run of site.yml or base.yml that ends green converged all it owed to  *)
(* every host that did not come back meanwhile, whatever the inventory,    *)
(* --limit, the declared absences and the number of hosts that come and    *)
(* go; a declared absence and a report outside the ledger excepted.        *)
THEOREM GreenMissedNothing == ASSUME Nested PROVE Deployment!Spec => []Deployment!NothingMissedSilently
<1>1. Deployment!ReachabilityInit => SiteInv
  BY SiteBegins
<1>2. SiteInv /\ [Deployment!ReachabilityNext]_Deployment!vars => SiteInv'
  BY SiteInductive
<1>3. SiteInv => Deployment!NothingMissedSilently
  BY DEF SiteInv
<1>4. QED
  BY <1>1, <1>2, <1>3, PTL DEF Deployment!Spec
-----------------------------------------------------------------------------
(* The other half: a host that is down takes nothing from one that answers.*)

(* The groups of the inventory nest: k3s has k3s_servers as a child.       *)
NestedGroups == Nested /\ Groups.k3s_servers \subseteq Groups.k3s

(* No task has failed for good, and no single-host play has lost its host. *)
Undisturbed ==
    ~deploy.tripped /\ fates.missing \cap deploy.limit \cap (Groups.nas \cup Groups.mail) = {}

(* Whoever is down has been missing. *)
MissingIsNoted == Deployment!Hosts \ up \subseteq fates.missing

(* The hosts that wait are hosts of the play. *)
WaitingForPlay == deploy.phase = "play" => deploy.at > 0 /\ deploy.waiting \subseteq Deployment!Play.hosts \cap deploy.limit

(* What a play owes to a host that is left to it.                          *)
ServedOrMissing(i, h) ==
    \/ h \in fates.missing \/ [at |-> i, host |-> h] \in deploy.done
    \/ i = deploy.at /\ deploy.phase = "play" /\ h \in deploy.waiting

(* An undisturbed run has served every host that was never missing. *)
Served ==
    Undisturbed =>
        /\ deploy.removed \subseteq fates.missing /\ deploy.skipped \subseteq fates.missing
        /\ deploy.phase = "over" => deploy.at = Len(deploy.book)
        /\ \A i \in 1..deploy.at : \A h \in deploy.book[i].hosts \cap deploy.limit : ServedOrMissing(i, h)

(* The inductive invariant of this half. *)
ServedInv == SiteInv /\ deploy.tripped \in BOOLEAN /\ MissingIsNoted /\ WaitingForPlay /\ Served

(* The plays reach hosts of the inventory, and only the single-host plays  *)
(* fail when their host is missing.                                        *)
SingleIfFatal(play) ==
    play.hosts \subseteq Deployment!Hosts /\ (play.ignores \/ play.hosts \subseteq Groups.nas \cup Groups.mail)

(* All plays of all playbooks are so. *)
LEMMA PlaysOfBooks ==
    ASSUME NestedGroups, NEW book \in Deployment!Playbooks, NEW i \in 1..Len(book)
    PROVE  SingleIfFatal(book[i])
<1> DEFINE M1 == Groups.proxmox \cup Groups.dns \cup Groups.mail \cup Groups.apps \cup Groups.k3s_servers
           M2 == Deployment!Managed \cup Groups.apps \cup Groups.k3s
<1>1. /\ Groups.proxmox \subseteq Deployment!Hosts /\ Groups.dns \subseteq Deployment!Hosts /\ Groups.nas \subseteq Deployment!Hosts
      /\ Groups.mail \subseteq Deployment!Hosts /\ Groups.primary \subseteq Deployment!Hosts /\ Deployment!Managed \subseteq Deployment!Hosts
      /\ M1 \subseteq Deployment!Hosts /\ M2 \subseteq Deployment!Hosts
  BY DEF NestedGroups, Nested, Deployment!Hosts, Deployment!Managed
<1>2. \A H : H \subseteq Deployment!Hosts =>
          /\ SingleIfFatal(Deployment!Wide(H)) /\ SingleIfFatal(Deployment!Serial(H)) /\ SingleIfFatal(Deployment!Reporting(H))
          /\ SingleIfFatal([Deployment!Wide(H) EXCEPT !.skips = FALSE])
  BY DEF SingleIfFatal, Deployment!Wide, Deployment!Serial, Deployment!Reporting
<1>3. SingleIfFatal(Deployment!Single(Groups.nas)) /\ SingleIfFatal(Deployment!Single(Groups.mail))
  BY <1>1 DEF SingleIfFatal, Deployment!Wide, Deployment!Single
<1> HIDE DEF M1, M2
<1>4. CASE book = Deployment!Site
  <2>1. i \in {1, 2, 3, 4, 5, 6, 7, 8, 9, 10}
    <3>1. Len(book) = 10
      BY <1>4 DEF Deployment!Site
    <3>2. QED
      BY <3>1
  <2>2. /\ book[1] = Deployment!Wide(Deployment!Managed) /\ book[2] = Deployment!Wide(Groups.proxmox)
        /\ book[3] = Deployment!Serial(Groups.dns) /\ book[4] = Deployment!Serial(Groups.dns)
        /\ book[5] = Deployment!Single(Groups.nas) /\ book[6] = Deployment!Wide(Groups.dns)
        /\ book[7] = Deployment!Single(Groups.mail) /\ book[8] = Deployment!Single(Groups.mail)
        /\ book[9] = Deployment!Reporting(M1) /\ book[10] = Deployment!Reporting(M2)
    BY <1>4 DEF Deployment!Site, M1, M2
  <2>3. /\ SingleIfFatal(book[1]) /\ SingleIfFatal(book[2]) /\ SingleIfFatal(book[3]) /\ SingleIfFatal(book[4])
        /\ SingleIfFatal(book[6]) /\ SingleIfFatal(book[9]) /\ SingleIfFatal(book[10])
    BY <1>1, <1>2, <2>2
  <2>4. SingleIfFatal(book[5]) /\ SingleIfFatal(book[7]) /\ SingleIfFatal(book[8])
    BY <1>3, <2>2
  <2>5. QED
    BY <2>1, <2>3, <2>4
<1>5. CASE book = Deployment!Base
  <2>1. i \in {1, 2}
    <3>1. Len(book) = 2
      BY <1>5 DEF Deployment!Base
    <3>2. QED
      BY <3>1
  <2>2. book[1] = Deployment!Wide(Deployment!Managed) /\ book[2] = [Deployment!Wide(Groups.primary) EXCEPT !.skips = FALSE]
    BY <1>5 DEF Deployment!Base
  <2>3. SingleIfFatal(book[1]) /\ SingleIfFatal(book[2])
    BY <1>1, <1>2, <2>2
  <2>4. QED
    BY <2>1, <2>3
<1>6. QED
  BY <1>4, <1>5 DEF Deployment!Playbooks

(* ServedInv holds at the start. *)
LEMMA ServedBegins == ASSUME Nested, Deployment!ReachabilityInit PROVE ServedInv
<1>1. PICK book \in Deployment!Playbooks, limit \in Limits, absent \in Absences : deploy = Deployment!Begin(book, limit, absent)
  BY DEF Deployment!ReachabilityInit
<1>2. /\ deploy.phase = "probe" /\ deploy.at = 0 /\ deploy.removed = {} /\ deploy.skipped = {} /\ deploy.tripped = FALSE
  BY <1>1 DEF Deployment!Begin
<1>3. fates.missing = Deployment!Hosts \ up
  BY DEF Deployment!ReachabilityInit
<1>4. SiteInv
  BY SiteBegins
<1>5. MissingIsNoted /\ WaitingForPlay
  BY <1>2, <1>3 DEF MissingIsNoted, WaitingForPlay
<1>6. Served
  BY <1>2 DEF Served
<1>7. QED
  BY <1>2, <1>4, <1>5, <1>6 DEF ServedInv

(* The actions, one by one. *)
LEMMA ProbeServes == ASSUME ServedInv, Deployment!Probe, SiteInv' PROVE ServedInv'
<1>1. /\ deploy.phase = "probe" /\ deploy.at = 0 /\ UNCHANGED <<up, fates>>
      /\ deploy' = [deploy EXCEPT !.phase = "next", !.skipped = (Deployment!Managed \cap deploy.limit) \ up]
  BY DEF Deployment!Probe, Deployment!Goes, ServedInv, SiteInv, Course
<1>2. /\ deploy'.phase = "next" /\ deploy'.at = 0 /\ deploy'.skipped = (Deployment!Managed \cap deploy.limit) \ up
      /\ deploy'.removed = deploy.removed /\ deploy'.limit = deploy.limit /\ deploy'.tripped = deploy.tripped
  BY <1>1 DEF ServedInv, SiteInv, SiteShape
<1>3. deploy'.skipped \subseteq fates.missing
  BY <1>2 DEF ServedInv, MissingIsNoted, Deployment!Hosts
<1>4. Served'
  BY <1>1, <1>2, <1>3 DEF ServedInv, Served, Undisturbed
<1>5. MissingIsNoted' /\ WaitingForPlay'
  BY <1>1, <1>2 DEF ServedInv, MissingIsNoted, WaitingForPlay, Deployment!Hosts, Deployment!Managed
<1>6. QED
  BY <1>2, <1>4, <1>5 DEF ServedInv

(* The next play takes up its hosts. *)
LEMMA NextPlayServes == ASSUME ServedInv, Deployment!NextPlay, SiteInv' PROVE ServedInv'
<1>1. deploy.phase = "next" /\ UNCHANGED <<up, fates>> /\ deploy.at \in Nat
  BY DEF Deployment!NextPlay, Deployment!Goes, ServedInv, SiteInv, SiteShape
<1>2. MissingIsNoted'
  BY <1>1 DEF ServedInv, MissingIsNoted, Deployment!Hosts, Deployment!Managed
<1>3. CASE deploy.at = Len(deploy.book)
  <2>1. deploy' = [deploy EXCEPT !.phase = "gate"]
    BY <1>3 DEF Deployment!NextPlay, Deployment!Goes
  <2>2. /\ deploy'.phase = "gate" /\ deploy'.at = deploy.at /\ deploy'.book = deploy.book /\ deploy'.limit = deploy.limit
        /\ deploy'.done = deploy.done /\ deploy'.skipped = deploy.skipped /\ deploy'.removed = deploy.removed
        /\ deploy'.tripped = deploy.tripped
    BY <2>1 DEF ServedInv, SiteInv, SiteShape
  <2>3. ASSUME NEW i, NEW h, ServedOrMissing(i, h) PROVE ServedOrMissing(i, h)'
    BY <1>1, <2>2, <2>3 DEF ServedOrMissing
  <2>4. Served' /\ WaitingForPlay'
    BY <1>1, <2>2, <2>3 DEF ServedInv, Served, Undisturbed, WaitingForPlay
  <2>5. QED
    BY <1>2, <2>2, <2>4 DEF ServedInv
<1>4. CASE deploy.at # Len(deploy.book)
  <2> DEFINE targets == Deployment!Targets(deploy.book[deploy.at + 1])
             phase == IF targets = {} THEN "next" ELSE "play"
  <2>1. deploy' = [deploy EXCEPT !.at = @ + 1, !.waiting = targets, !.phase = phase]
    BY <1>4 DEF Deployment!NextPlay, Deployment!Goes
  <2>2. targets \subseteq deploy.book[deploy.at + 1].hosts \cap deploy.limit
    BY DEF Deployment!Targets
  <2>3. \A h \in deploy.book[deploy.at + 1].hosts \cap deploy.limit : h \in targets \/ h \in deploy.removed \/ h \in deploy.skipped
    BY DEF Deployment!Targets
  <2> HIDE DEF targets
  <2>4. /\ deploy'.at = deploy.at + 1 /\ deploy'.waiting = targets /\ deploy'.phase = phase
        /\ deploy'.book = deploy.book /\ deploy'.limit = deploy.limit /\ deploy'.done = deploy.done
        /\ deploy'.skipped = deploy.skipped /\ deploy'.removed = deploy.removed /\ deploy'.tripped = deploy.tripped
    BY <2>1 DEF ServedInv, SiteInv, SiteShape
  <2>5. WaitingForPlay'
    BY <1>1, <2>2, <2>4 DEF WaitingForPlay, Deployment!Play
  <2>6. Served'
    <3>1. SUFFICES ASSUME Undisturbed
                   PROVE  /\ deploy.removed \subseteq fates.missing /\ deploy.skipped \subseteq fates.missing
                          /\ \A i \in 1..(deploy.at + 1) : \A h \in deploy.book[i].hosts \cap deploy.limit : ServedOrMissing(i, h)'
      BY <1>1, <2>4 DEF Served, Undisturbed
    <3>2. /\ deploy.removed \subseteq fates.missing /\ deploy.skipped \subseteq fates.missing
          /\ \A i \in 1..deploy.at : \A h \in deploy.book[i].hosts \cap deploy.limit : ServedOrMissing(i, h)
      BY <3>1 DEF ServedInv, Served
    <3>3. ASSUME NEW i \in 1..(deploy.at + 1), NEW h \in deploy.book[i].hosts \cap deploy.limit PROVE ServedOrMissing(i, h)'
      <4>1. CASE i = deploy.at + 1
        <5>1. h \in targets \/ h \in fates.missing
          BY <2>3, <3>2, <3>3, <4>1
        <5>2. QED
          BY <1>1, <2>4, <4>1, <5>1 DEF ServedOrMissing
      <4>2. CASE i # deploy.at + 1
        <5>1. i \in 1..deploy.at
          BY <1>1, <3>3, <4>2
        <5>2. h \in fates.missing \/ [at |-> i, host |-> h] \in deploy.done
          BY <1>1, <3>2, <3>3, <5>1 DEF ServedOrMissing
        <5>3. QED
          BY <1>1, <2>4, <5>2 DEF ServedOrMissing
      <4>3. QED
        BY <4>1, <4>2
    <3>4. QED
      BY <3>2, <3>3
  <2>7. QED
    BY <1>2, <2>4, <2>5, <2>6 DEF ServedInv
<1>5. QED
  BY <1>3, <1>4

(* A batch of missing hosts ends the run only for a single-host play, or   *)
(* after a task has failed for good.                                       *)
LEMMA BatchServes ==
    ASSUME NestedGroups, ServedInv, deploy.phase = "play", NEW batch \in SUBSET deploy.waiting, batch # {},
           Deployment!Batch(batch), SiteInv'
    PROVE  ServedInv'
<1>1. PICK tripped \in SUBSET {h \in batch \ up : Deployment!Play.ignores /\ \A d \in deploy.done : d.host # h} :
        LET failed == IF Deployment!Play.ignores THEN tripped ELSE batch \ up
            rest == deploy.waiting \ batch
        IN  Deployment!Goes([deploy EXCEPT
                !.done = @ \cup {[at |-> deploy.at, host |-> h] : h \in batch \cap up},
                !.removed = @ \cup failed, !.tripped = @ \/ tripped # {}, !.red = @ \/ failed # {},
                !.waiting = rest,
                !.phase = IF failed = batch THEN "over" ELSE IF rest # {} THEN "play" ELSE IF Deployment!Play.reports THEN "report" ELSE "next"])
  BY DEF Deployment!Batch
<1> DEFINE failed == IF Deployment!Play.ignores THEN tripped ELSE batch \ up
           rest == deploy.waiting \ batch
           reached == {[at |-> deploy.at, host |-> h] : h \in batch \cap up}
           phase == IF failed = batch THEN "over" ELSE IF rest # {} THEN "play" ELSE IF Deployment!Play.reports THEN "report" ELSE "next"
<1>2. /\ deploy' = [deploy EXCEPT !.done = @ \cup reached, !.removed = @ \cup failed, !.tripped = @ \/ tripped # {},
                                  !.red = @ \/ failed # {}, !.waiting = rest, !.phase = phase]
      /\ UNCHANGED <<up, fates>>
  BY <1>1 DEF Deployment!Goes
<1>3. failed \subseteq batch /\ (Deployment!Play.ignores => failed = tripped) /\ (~Deployment!Play.ignores => failed = batch \ up)
  BY <1>1
<1>4. /\ phase = "over" => failed = batch
      /\ rest # {} /\ phase # "over" => phase = "play"
      /\ phase = "play" => rest # {}
  OBVIOUS
<1> HIDE DEF failed, phase
<1>5. /\ deploy'.at = deploy.at /\ deploy'.waiting = rest /\ deploy'.phase = phase
      /\ deploy'.book = deploy.book /\ deploy'.limit = deploy.limit /\ deploy'.done = deploy.done \cup reached
      /\ deploy'.skipped = deploy.skipped /\ deploy'.removed = deploy.removed \cup failed
  BY <1>2 DEF ServedInv, SiteInv, SiteShape
<1>6. deploy'.tripped = (deploy.tripped \/ tripped # {}) /\ deploy'.tripped \in BOOLEAN
  BY <1>2 DEF ServedInv, SiteInv, SiteShape
<1>7. /\ deploy.at \in 1..Len(deploy.book) /\ Deployment!Play = deploy.book[deploy.at]
      /\ deploy.waiting \subseteq Deployment!Play.hosts \cap deploy.limit
  BY Books DEF ServedInv, WaitingForPlay, SiteInv, SiteShape, Deployment!Play, NestedGroups
<1>8. SingleIfFatal(Deployment!Play)
  BY <1>7, PlaysOfBooks DEF ServedInv, SiteInv, SiteShape
<1>9. batch \ up \subseteq fates.missing
  BY <1>7, <1>8 DEF SingleIfFatal, ServedInv, MissingIsNoted
<1>10. ASSUME Undisturbed' PROVE Undisturbed /\ failed = {}
  <2>1. Undisturbed /\ tripped = {}
    BY <1>2, <1>5, <1>6, <1>10 DEF Undisturbed
  <2>2. CASE ~Deployment!Play.ignores
    BY <1>3, <1>7, <1>8, <1>9, <2>1, <2>2 DEF SingleIfFatal, Undisturbed
  <2>3. QED
    BY <1>3, <2>1, <2>2
<1>11. Served'
  <2>1. SUFFICES ASSUME Undisturbed, failed = {}
                 PROVE  /\ deploy'.removed \subseteq fates.missing /\ deploy'.skipped \subseteq fates.missing
                        /\ deploy'.phase # "over"
                        /\ \A i \in 1..deploy.at : \A h \in deploy.book[i].hosts \cap deploy.limit : ServedOrMissing(i, h)'
    BY <1>2, <1>5, <1>10 DEF Served
  <2>2. /\ deploy.removed \subseteq fates.missing /\ deploy.skipped \subseteq fates.missing
        /\ \A i \in 1..deploy.at : \A h \in deploy.book[i].hosts \cap deploy.limit : ServedOrMissing(i, h)
    BY <2>1 DEF ServedInv, Served
  <2>3. phase # "over"
    BY <1>4, <2>1
  <2>4. ASSUME NEW i \in 1..deploy.at, NEW h \in deploy.book[i].hosts \cap deploy.limit PROVE ServedOrMissing(i, h)'
    <3>1. ServedOrMissing(i, h)
      BY <2>2, <2>4
    <3>2. CASE i = deploy.at /\ h \in batch
      <4>1. CASE h \in up
        BY <1>5, <3>2, <4>1 DEF ServedOrMissing
      <4>2. CASE h \notin up
        BY <1>2, <1>9, <3>2, <4>2 DEF ServedOrMissing
      <4>3. QED
        BY <4>1, <4>2
    <3>3. CASE i = deploy.at /\ h \in deploy.waiting /\ h \notin batch
      <4>1. h \in rest /\ phase = "play"
        BY <1>4, <2>3, <3>3
      <4>2. QED
        BY <1>5, <3>3, <4>1 DEF ServedOrMissing
    <3>4. CASE h \in fates.missing \/ [at |-> i, host |-> h] \in deploy.done
      BY <1>2, <1>5, <3>4 DEF ServedOrMissing
    <3>5. QED
      BY <3>1, <3>2, <3>3, <3>4 DEF ServedOrMissing
  <2>5. QED
    BY <1>5, <2>1, <2>2, <2>3, <2>4
<1>12. WaitingForPlay'
  <2>1. Deployment!Play' = Deployment!Play
    BY <1>5 DEF Deployment!Play
  <2>2. QED
    BY <1>5, <1>7, <2>1 DEF WaitingForPlay
<1>13. MissingIsNoted'
  BY <1>2 DEF ServedInv, MissingIsNoted, Deployment!Hosts, Deployment!Managed
<1>14. QED
  BY <1>6, <1>11, <1>12, <1>13 DEF ServedInv

(* A batch of a play, served or missing. *)
LEMMA ConvergeServes == ASSUME NestedGroups, ServedInv, Deployment!Converge, SiteInv' PROVE ServedInv'
<1>1. deploy.phase = "play" /\ deploy.waiting # {}
  BY DEF Deployment!Converge, ServedInv, SiteInv, Course
<1>2. PICK batch \in SUBSET deploy.waiting : batch # {} /\ Deployment!Batch(batch)
  <2>1. CASE Deployment!Play.serial
    <3>1. PICK h \in deploy.waiting : Deployment!Batch({h})
      BY <2>1 DEF Deployment!Converge
    <3>2. {h} \in SUBSET deploy.waiting /\ {h} # {}
      OBVIOUS
    <3>3. QED
      BY <3>1, <3>2
  <2>2. CASE ~Deployment!Play.serial
    BY <1>1, <2>2 DEF Deployment!Converge
  <2>3. QED
    BY <2>1, <2>2
<1>3. QED
  BY <1>1, <1>2, BatchServes

(* The report and the gate settle nothing of this half.                    *)
LEMMA QuietServes ==
    ASSUME ServedInv, SiteInv', UNCHANGED <<up, fates>>,
           deploy'.phase \notin {"play", "probe"}, deploy'.at = deploy.at, deploy'.book = deploy.book, deploy'.limit = deploy.limit,
           deploy'.done = deploy.done, deploy'.skipped = deploy.skipped, deploy'.removed = deploy.removed,
           deploy'.tripped = deploy.tripped, deploy.phase # "play",
           deploy'.phase = "over" => deploy.at = Len(deploy.book)
    PROVE  ServedInv'
<1>1. ASSUME NEW i, NEW h, ServedOrMissing(i, h) PROVE ServedOrMissing(i, h)'
  BY <1>1 DEF ServedOrMissing
<1>2. Undisturbed' => Undisturbed
  BY DEF Undisturbed
<1>3. Served'
  BY <1>1, <1>2 DEF ServedInv, Served
<1>4. MissingIsNoted' /\ WaitingForPlay'
  BY DEF ServedInv, MissingIsNoted, WaitingForPlay, Deployment!Hosts, Deployment!Managed
<1>5. QED
  BY <1>3, <1>4 DEF ServedInv

(* A report, *)
LEMMA ReportServes == ASSUME ServedInv, Deployment!Report, SiteInv' PROVE ServedInv'
<1> DEFINE missed == {[at |-> deploy.at, host |-> h] : h \in Deployment!Targets(Deployment!Play) \ up}
<1>1. /\ deploy.phase = "report" /\ UNCHANGED <<up, fates>>
      /\ deploy' = [deploy EXCEPT !.phase = "next", !.reported = @ \cup missed]
  BY DEF Deployment!Report, Deployment!Goes
<1> HIDE DEF missed
<1>2. /\ deploy'.phase = "next" /\ deploy'.at = deploy.at /\ deploy'.book = deploy.book /\ deploy'.limit = deploy.limit
      /\ deploy'.done = deploy.done /\ deploy'.skipped = deploy.skipped /\ deploy'.removed = deploy.removed
      /\ deploy'.tripped = deploy.tripped
  BY <1>1 DEF ServedInv, SiteInv, SiteShape
<1>3. QED
  BY <1>1, <1>2, QuietServes

(* the gate, *)
LEMMA GateServes == ASSUME ServedInv, Deployment!Gate, SiteInv' PROVE ServedInv'
<1> DEFINE fails == Deployment!GateHosts # {} /\ (deploy.skipped \ deploy.absent # {} \/ Deployment!Lost # {})
<1>1. /\ deploy.phase = "gate" /\ deploy.at = Len(deploy.book) /\ UNCHANGED <<up, fates>>
      /\ deploy' = [deploy EXCEPT !.phase = "over", !.red = @ \/ fails]
  BY DEF Deployment!Gate, Deployment!Goes, ServedInv, SiteInv, Course
<1> HIDE DEF fails
<1>2. /\ deploy'.phase = "over" /\ deploy'.at = deploy.at /\ deploy'.book = deploy.book /\ deploy'.limit = deploy.limit
      /\ deploy'.done = deploy.done /\ deploy'.skipped = deploy.skipped /\ deploy'.removed = deploy.removed
      /\ deploy'.tripped = deploy.tripped
  BY <1>1 DEF ServedInv, SiteInv, SiteShape
<1>3. QED
  BY <1>1, <1>2, QuietServes

(* and a host that goes or comes. *)
LEMMA FlipServes == ASSUME ServedInv, Deployment!Flip, SiteInv' PROVE ServedInv'
<1>1. PICK h \in deploy.limit : Deployment!Falls(h) \/ Deployment!Returns(h)
  BY DEF Deployment!Flip
<1>2. deploy' = [deploy EXCEPT !.flips = @ + 1] /\ deploy.phase # "over"
  BY DEF Deployment!Flip
<1>3. /\ deploy'.phase = deploy.phase /\ deploy'.at = deploy.at /\ deploy'.book = deploy.book /\ deploy'.limit = deploy.limit
      /\ deploy'.done = deploy.done /\ deploy'.skipped = deploy.skipped /\ deploy'.removed = deploy.removed
      /\ deploy'.tripped = deploy.tripped /\ deploy'.waiting = deploy.waiting
  BY <1>2 DEF ServedInv, SiteInv, SiteShape
<1>4. fates.missing \subseteq fates'.missing /\ Deployment!Hosts' \ up' \subseteq fates'.missing
  <2>1. Deployment!Hosts' = Deployment!Hosts
    BY DEF Deployment!Hosts, Deployment!Managed
  <2>2. CASE Deployment!Falls(h)
    BY <2>1, <2>2 DEF Deployment!Falls, ServedInv, MissingIsNoted, SiteInv, SiteShape
  <2>3. CASE Deployment!Returns(h)
    BY <2>1, <2>3 DEF Deployment!Returns, ServedInv, MissingIsNoted, SiteInv, SiteShape
  <2>4. QED
    BY <1>1, <2>2, <2>3
<1>5. ASSUME NEW i, NEW g, ServedOrMissing(i, g) PROVE ServedOrMissing(i, g)'
  BY <1>3, <1>4, <1>5 DEF ServedOrMissing
<1>6. Undisturbed' => Undisturbed
  BY <1>3, <1>4 DEF Undisturbed
<1>7. Served'
  BY <1>3, <1>4, <1>5, <1>6 DEF ServedInv, Served
<1>8. MissingIsNoted' /\ WaitingForPlay'
  BY <1>3, <1>4 DEF ServedInv, MissingIsNoted, WaitingForPlay, Deployment!Play
<1>9. QED
  BY <1>3, <1>7, <1>8 DEF ServedInv

(* Every step keeps ServedInv. *)
LEMMA ServedInductive ==
    ASSUME NestedGroups, ServedInv, Deployment!ReachabilityNext \/ UNCHANGED deployVars PROVE ServedInv'
<1>1. SiteInv'
  BY SiteInductive DEF ServedInv, NestedGroups, deployVars, Deployment!vars
<1>2. CASE Deployment!ReachabilityNext
  BY <1>1, <1>2, ProbeServes, NextPlayServes, ConvergeServes, ReportServes, GateServes,
       FlipServes DEF Deployment!ReachabilityNext
<1>3. CASE UNCHANGED deployVars
  <2>1. up' = up /\ fates' = fates /\ deploy' = deploy
    BY <1>3 DEF deployVars
  <2>2. MissingIsNoted' /\ WaitingForPlay' /\ deploy'.tripped \in BOOLEAN
    BY <2>1 DEF ServedInv, MissingIsNoted, WaitingForPlay, Deployment!Play, Deployment!Hosts, Deployment!Managed
  <2>3. Served'
    BY <2>1 DEF ServedInv, Served, Undisturbed, ServedOrMissing
  <2>4. QED
    BY <1>1, <2>2, <2>3 DEF ServedInv
<1>4. QED
  BY <1>2, <1>3

(* A run that is over has served them all. *)
LEMMA ServedSuffices == ASSUME ServedInv PROVE Deployment!OneHostStopsNoOther
<1>1. SUFFICES ASSUME deploy.phase = "over", Undisturbed, NEW d \in Deployment!Owed
               PROVE  d.host \in fates.missing \/ d \in deploy.done
  BY DEF Deployment!OneHostStopsNoOther, Undisturbed
<1>2. PICK i \in DOMAIN deploy.book, h \in deploy.limit : d = [at |-> i, host |-> h] /\ h \in deploy.book[i].hosts
  BY DEF Deployment!Owed
<1>3. i \in 1..deploy.at /\ d.host = h
  BY <1>1, <1>2 DEF ServedInv, Served, SiteInv, SiteShape, Deployment!Playbooks, Deployment!Site, Deployment!Base
<1>4. ServedOrMissing(i, h)
  BY <1>1, <1>2, <1>3 DEF ServedInv, Served
<1>5. QED
  BY <1>1, <1>2, <1>3, <1>4 DEF ServedOrMissing

(* The same in the composition: when a site playbook is the machine.       *)
Deploying == job = "deploy" => ServedInv

(* A behaviour of the site begins as a run does. *)
LEMMA DeployingBegins == ASSUME NestedGroups, OperationsInit PROVE Deploying
<1>1. job = "deploy" => Deployment!ReachabilityInit
  BY DEF OperationsInit
<1>2. QED
  BY <1>1, ServedBegins DEF Deploying, NestedGroups

(* Its steps are steps of a run. *)
LEMMA DeployingKeeps ==
    ASSUME NestedGroups, Deploying, [OperationsNext]_operationVars PROVE Deploying'
<1>1. SUFFICES ASSUME job' = "deploy" PROVE ServedInv'
  BY DEF Deploying
<1>2. job = "deploy"
  BY <1>1 DEF OperationsNext, operationVars
<1>3. Deployment!ReachabilityNext \/ UNCHANGED deployVars
  BY <1>2 DEF OperationsNext, operationVars
<1>4. QED
  BY <1>2, <1>3, ServedInductive DEF Deploying

(* A site run that ends green converged all it owed to every host that did *)
(* not come back meanwhile, a declared absence and a report excepted; and  *)
(* a host that is down takes no deployment from one that answers: site.yml *)
(* and base.yml with the probe and the gate, for every inventory of nested *)
(* groups, every --limit, and any number of hosts that come and go.        *)
THEOREM SiteRunsStayHonest == ASSUME NestedGroups PROVE Operations => []SiteRunsAreHonest
<1>1. OperationsInit => Deploying
  BY DeployingBegins
<1>2. Deploying /\ [OperationsNext]_operationVars => Deploying'
  BY DeployingKeeps
<1>3. Deploying => SiteRunsAreHonest
  BY ServedSuffices DEF Deploying, ServedInv, SiteInv, SiteRunsAreHonest
<1>4. QED
  BY <1>1, <1>2, <1>3, PTL DEF Operations

-----------------------------------------------------------------------------
(* The fetcher of the pinned tools. *)

(* The steps of a run. *)
FetchSteps == {"idle", "obtain", "unpack", "keep", "check", "place", "stamp", "done", "refused", "stopped"}

(* The variables have their types. *)
FetchShape ==
    /\ cache \in [asset : Tools!Files, binary : Tools!Files, stamp : Tools!Stamps]
    /\ pin \in ToolPins
    /\ fetch \in [at : FetchSteps, asset : ToolPins \cup {"none"}, downloaded : BOOLEAN, force : BOOLEAN, status : {0, 2}]
    /\ past.good \in ToolPins \cup {"none"}
    /\ DOMAIN past = {"cache", "good", "changes"}

(* From the download on, a run has the pin's archive in hand; it is kept   *)
(* before the executable is looked at, and the stamp comes last.           *)
FetchInHand ==
    /\ fetch.at \in {"unpack", "keep", "check", "place", "stamp"} => fetch.asset = pin
    /\ fetch.at \in {"unpack", "keep"} /\ ~fetch.downloaded => cache.asset = pin
    /\ fetch.at \in {"check", "place", "stamp"} => cache.asset = pin
    /\ fetch.at = "stamp" => cache.binary = pin

(* Before the first rename nothing has changed. *)
FetchUntouched == fetch.at \in {"obtain", "unpack", "keep", "refused"} => cache = past.cache

(* What a good run left is there as long as nobody changes cache or pin.   *)
FetchGoodStays ==
    /\ past.good = pin => cache.asset = pin
    /\ fetch.downloaded /\ fetch.at # "done" => past.good # pin
    /\ fetch.at \in {"idle", "obtain"} => ~fetch.downloaded

(* The inductive invariant of a run. *)
FetchInv == FetchShape /\ FetchInHand /\ Tools!OkMeansPinned /\ FetchUntouched /\ Tools!RefusalLeavesAll /\ FetchGoodStays

(* It holds at the start. *)
LEMMA FetchBegins == ASSUME "none" \notin ToolPins, Tools!CacheInit PROVE FetchInv
BY DEF Tools!CacheInit, FetchInv, FetchShape, FetchInHand, Tools!OkMeansPinned, FetchUntouched,
     Tools!RefusalLeavesAll, FetchGoodStays, Tools!At, Tools!Idle, Tools!Files, Tools!Held, Tools!Stamps,
     FetchSteps

(* The actions, one by one. *)
LEMMA FetchBeginKeeps == ASSUME FetchInv, NEW force \in BOOLEAN, Tools!Begin(force) PROVE FetchInv'
BY DEF Tools!At, Tools!Goes, Tools!Moves, Tools!Following, FetchSteps, Tools!Begin, FetchInv, FetchShape,
     FetchInHand, Tools!OkMeansPinned, FetchUntouched, Tools!RefusalLeavesAll, FetchGoodStays, Tools!Idle

(* The archive is cached, downloaded or refused. *)
LEMMA FetchObtainKeeps == ASSUME FetchInv, Tools!Obtain PROVE FetchInv'
<1>1. fetch.at = "obtain" /\ UNCHANGED <<cache, pin, past>>
  BY DEF Tools!At, Tools!Goes, Tools!Moves, Tools!Following, FetchSteps, Tools!Obtain, Tools!Refused
<1>2. \/ fetch' = [fetch EXCEPT !.at = "refused", !.status = 2]
      \/ cache.asset = pin /\ fetch' = [fetch EXCEPT !.at = "unpack", !.asset = pin]
      \/ cache.asset # pin /\ fetch' = [fetch EXCEPT !.at = "unpack", !.asset = pin, !.downloaded = TRUE]
  BY <1>1 DEF Tools!At, Tools!Goes, Tools!Moves, Tools!Following, FetchSteps, Tools!Obtain, Tools!Refused,
       Tools!Cached
<1>3. CASE fetch' = [fetch EXCEPT !.at = "refused", !.status = 2]
  BY <1>1, <1>3 DEF Tools!At, Tools!Goes, Tools!Moves, Tools!Following, FetchSteps, FetchInv, FetchShape,
       FetchInHand, Tools!OkMeansPinned, FetchUntouched, Tools!RefusalLeavesAll, FetchGoodStays
<1>4. CASE cache.asset = pin /\ fetch' = [fetch EXCEPT !.at = "unpack", !.asset = pin]
  BY <1>1, <1>4 DEF Tools!At, Tools!Goes, Tools!Moves, Tools!Following, FetchSteps, FetchInv, FetchShape,
       FetchInHand, Tools!OkMeansPinned, FetchUntouched, Tools!RefusalLeavesAll, FetchGoodStays
<1>5. CASE cache.asset # pin /\ fetch' = [fetch EXCEPT !.at = "unpack", !.asset = pin, !.downloaded = TRUE]
  BY <1>1, <1>5 DEF Tools!At, Tools!Goes, Tools!Moves, Tools!Following, FetchSteps, FetchInv, FetchShape,
       FetchInHand, Tools!OkMeansPinned, FetchUntouched, Tools!RefusalLeavesAll, FetchGoodStays
<1>6. QED
  BY <1>2, <1>3, <1>4, <1>5

(* It is unusable, or unpacked. *)
LEMMA FetchUnpackKeeps == ASSUME FetchInv, Tools!Unpack PROVE FetchInv'
<1>1. fetch.at = "unpack" /\ UNCHANGED <<cache, pin, past>>
  BY DEF Tools!At, Tools!Goes, Tools!Moves, Tools!Unpack, Tools!Refused
<1>2. \/ fetch' = [fetch EXCEPT !.at = "refused", !.status = 2]
      \/ fetch' = [fetch EXCEPT !.at = "keep"]
  BY <1>1 DEF Tools!At, Tools!Goes, Tools!Moves, Tools!Following, Tools!Unpack, Tools!Refused
<1>3. CASE fetch' = [fetch EXCEPT !.at = "refused", !.status = 2]
  BY <1>1, <1>3 DEF Tools!At, FetchSteps, FetchInv, FetchShape, FetchInHand, Tools!OkMeansPinned,
       FetchUntouched, Tools!RefusalLeavesAll, FetchGoodStays
<1>4. CASE fetch' = [fetch EXCEPT !.at = "keep"]
  BY <1>1, <1>4 DEF Tools!At, FetchSteps, FetchInv, FetchShape, FetchInHand, Tools!OkMeansPinned,
       FetchUntouched, Tools!RefusalLeavesAll, FetchGoodStays
<1>5. QED
  BY <1>2, <1>3, <1>4

(* A download is kept. *)
LEMMA FetchKeepKeeps == ASSUME FetchInv, Tools!Keep PROVE FetchInv'
BY DEF Tools!At, Tools!Goes, Tools!Moves, Tools!Following, FetchSteps, Tools!Keep, Tools!Kept, Tools!Files,
     Tools!Held, FetchInv, FetchShape, FetchInHand, Tools!OkMeansPinned, FetchUntouched,
     Tools!RefusalLeavesAll, FetchGoodStays

(* What is installed may do. *)
LEMMA FetchCheckKeeps == ASSUME FetchInv, Tools!Check PROVE FetchInv'
BY DEF Tools!At, Tools!Goes, Tools!Moves, Tools!Following, FetchSteps, Tools!Check, Tools!Installed,
     Tools!EndsWell, FetchInv, FetchShape, FetchInHand, Tools!OkMeansPinned, FetchUntouched,
     Tools!RefusalLeavesAll, FetchGoodStays

(* The executable is placed, *)
LEMMA FetchPlaceKeeps == ASSUME FetchInv, Tools!Place PROVE FetchInv'
BY DEF Tools!At, Tools!Goes, Tools!Moves, Tools!Following, FetchSteps, Tools!Place, Tools!Files, Tools!Held,
     FetchInv, FetchShape, FetchInHand, Tools!OkMeansPinned, FetchUntouched, Tools!RefusalLeavesAll,
     FetchGoodStays

(* and stamped. *)
LEMMA FetchStampKeeps == ASSUME FetchInv, Tools!Stamp PROVE FetchInv'
BY DEF Tools!At, Tools!Goes, Tools!Moves, Tools!Following, FetchSteps, Tools!Stamp, Tools!EndsWell,
     Tools!Stamps, Tools!Held, FetchInv, FetchShape, FetchInHand, Tools!OkMeansPinned, FetchUntouched,
     Tools!RefusalLeavesAll, FetchGoodStays

(* The run may stop at any of these steps. *)
LEMMA FetchStopsKeeps == ASSUME FetchInv, Tools!Stops PROVE FetchInv'
BY DEF Tools!At, Tools!Goes, Tools!Moves, Tools!Following, FetchSteps, Tools!Stops, Tools!Files, FetchInv,
     FetchShape, FetchInHand, Tools!OkMeansPinned, FetchUntouched, Tools!RefusalLeavesAll, FetchGoodStays

(* The next run starts. *)
LEMMA FetchAgainKeeps == ASSUME FetchInv, Tools!Again PROVE FetchInv'
BY DEF Tools!At, Tools!Goes, Tools!Moves, Tools!Following, FetchSteps, Tools!Again, Tools!Idle, FetchInv,
     FetchShape, FetchInHand, Tools!OkMeansPinned, FetchUntouched, Tools!RefusalLeavesAll, FetchGoodStays

(* Somebody changes the cache or the pin. *)
LEMMA FetchChangesKeep == ASSUME "none" \notin ToolPins, FetchInv, Tools!Changes PROVE FetchInv'
BY DEF Tools!At, Tools!Goes, Tools!Moves, Tools!Following, FetchSteps, Tools!Changes, FetchInv, FetchShape,
     FetchInHand, Tools!OkMeansPinned, FetchUntouched, Tools!RefusalLeavesAll, FetchGoodStays

(* Every step keeps FetchInv. *)
LEMMA FetchInductive == ASSUME "none" \notin ToolPins, FetchInv, [Tools!CacheNext]_Tools!vars PROVE FetchInv'
<1>1. CASE \E force \in BOOLEAN : Tools!Begin(force)
  BY <1>1, FetchBeginKeeps
<1>2. CASE Tools!Obtain
  BY <1>2, FetchObtainKeeps
<1>3. CASE Tools!Unpack
  BY <1>3, FetchUnpackKeeps
<1>4. CASE Tools!Keep
  BY <1>4, FetchKeepKeeps
<1>5. CASE Tools!Check
  BY <1>5, FetchCheckKeeps
<1>6. CASE Tools!Place
  BY <1>6, FetchPlaceKeeps
<1>7. CASE Tools!Stamp
  BY <1>7, FetchStampKeeps
<1>8. CASE Tools!Stops
  BY <1>8, FetchStopsKeeps
<1>9. CASE Tools!Again
  BY <1>9, FetchAgainKeeps
<1>10. CASE Tools!Changes
  BY <1>10, FetchChangesKeep
<1>11. CASE UNCHANGED Tools!vars
  BY <1>11 DEF Tools!At, Tools!vars, FetchInv, FetchShape, FetchInHand, Tools!OkMeansPinned, FetchUntouched,
       Tools!RefusalLeavesAll, FetchGoodStays
<1>12. QED
  BY <1>1, <1>2, <1>3, <1>4, <1>5, <1>6, <1>7, <1>8, <1>9, <1>10, <1>11 DEF Tools!CacheNext

(* Whatever the cache held and however often it was changed, a run that    *)
(* ends well leaves the pinned executable, its stamp and its download; a   *)
(* run that is refused leaves everything as it was; and what a good run    *)
(* left is not downloaded again: install_tool.                             *)
THEOREM FetcherCorrect ==
    ASSUME "none" \notin ToolPins
    PROVE  Tools!Spec => [](Tools!OkMeansPinned /\ Tools!RefusalLeavesAll /\ Tools!NoNeedlessDownload)
<1>1. Tools!CacheInit => FetchInv
  BY FetchBegins
<1>2. FetchInv /\ [Tools!CacheNext]_Tools!vars => FetchInv'
  BY FetchInductive
<1>3. FetchInv => Tools!OkMeansPinned /\ Tools!RefusalLeavesAll /\ Tools!NoNeedlessDownload
  BY DEF FetchInv, FetchGoodStays, Tools!NoNeedlessDownload
<1>4. QED
  BY <1>1, <1>2, <1>3, PTL DEF Tools!Spec
(* The same in the composition: when the fetcher is the machine that runs. *)
Fetching == job = "tools" => FetchInv

(* A behaviour of the fetcher begins as a run does. *)
LEMMA FetchingBegins == ASSUME "none" \notin ToolPins, OperationsInit PROVE Fetching
<1>1. job = "tools" => Tools!CacheInit
  BY DEF OperationsInit
<1>2. QED
  BY <1>1, FetchBegins DEF Fetching

(* Its steps are steps of a run. *)
LEMMA FetchingKeeps ==
    ASSUME "none" \notin ToolPins, Fetching, [OperationsNext]_operationVars PROVE Fetching'
<1>1. SUFFICES ASSUME job' = "tools" PROVE FetchInv'
  BY DEF Fetching
<1>2. job = "tools"
  BY <1>1 DEF OperationsNext, operationVars
<1>3. [Tools!CacheNext]_(Tools!vars)
  BY <1>2 DEF OperationsNext, operationVars, cacheVars, Tools!vars
<1>4. QED
  BY <1>2, <1>3, FetchInductive DEF Fetching

(* Whatever the cache held and however often it changes, a fetch that ends *)
(* well leaves the pinned tool, its stamp and its download, one that is    *)
(* refused leaves the install directory as it was, and what a good fetch   *)
(* left is not downloaded again: ci-fetch-tools.py, for all sets of pins.  *)
THEOREM FetcherStaysSound == ASSUME "none" \notin ToolPins PROVE Operations => []FetcherIsSound
<1>1. OperationsInit => Fetching
  BY FetchingBegins
<1>2. Fetching /\ [OperationsNext]_operationVars => Fetching'
  BY FetchingKeeps
<1>3. Fetching => FetcherIsSound
  BY DEF Fetching, FetchInv, FetchGoodStays, Tools!NoNeedlessDownload, FetcherIsSound
<1>4. QED
  BY <1>1, <1>2, <1>3, PTL DEF Operations

=============================================================================
