--------------------------- MODULE PasswordRotation ---------------------------
(***************************************************************************)
(* The rotation of an in-cluster database password                         *)
(* (flux-rotate-db-password.sh, then the tasks rotate-secret and           *)
(* refresh-secret): the 1Password item first, then the role, then the      *)
(* Secret that the External Secrets operator makes of the item, and the    *)
(* pods.  The roles change in one transaction and count as one; value r    *)
(* is what run r generates, 0 what was there before.                       *)
(***************************************************************************)
EXTENDS Integers, Sequences

CONSTANT Rotations   \* the runs, as 1..n; they may overlap

VARIABLES
    item,    \* the password of the 1Password item
    history, \* every value it has had
    db,      \* the password the database accepts
    secret,  \* the Secret in the cluster
    file,    \* the copy in the database pod, which psql logs in with
    app,     \* the copy the application started with
    runs     \* run -> [step, fresh, unread, alone, exit]

rotationVars == <<item, history, db, secret, file, app, runs>>

Waiting == [step |-> "waiting", fresh |-> FALSE, unread |-> FALSE, alone |-> TRUE, exit |-> 0]
RotationInit ==
    /\ item = 0 /\ history = {0} /\ db = 0 /\ secret = 0 /\ file = 0 /\ app = 0
    /\ runs = [r \in Rotations |-> Waiting]

Active == {r \in Rotations : runs[r].step \notin {"waiting", "ended"}}

(* Broken variant: the role comes first. *)
AfterAlterFirst ==
    [waiting |-> "alter", alter |-> "edit", edit |-> "read", read |-> "poll", poll |-> "ready",
     ready |-> "server", server |-> "app", app |-> "ended"]

(* set -e: each step follows a success of the one before it. *)
After ==
    [waiting |-> "edit", edit |-> "alter", alter |-> "read", read |-> "poll", poll |-> "ready",
     ready |-> "server", server |-> "app", app |-> "ended"]
Following(step) == After[step]

Goes(r) == [runs EXCEPT ![r].step = Following(@)]

Fails(r) == [runs EXCEPT ![r] = [@ EXCEPT !.step = "ended", !.exit = 1]]

Start(r) ==
    /\ runs[r].step = "waiting" /\ \A q \in Rotations : q < r => runs[q].step # "waiting"
    /\ runs' = [q \in Rotations |-> IF q = r THEN [runs[q] EXCEPT !.step = Following("waiting"), !.alone = (Active = {})]
                                    ELSE IF q \in Active THEN [runs[q] EXCEPT !.alone = FALSE] ELSE runs[q]]
    /\ UNCHANGED <<item, history, db, secret, file, app>>

(* op item edit: done, failed, or done with its answer lost. *)
Edit(r) ==
    /\ runs[r].step = "edit"
    /\ \/ item' = r /\ history' = history \cup {r} /\ runs' \in {Goes(r), Fails(r)}
       \/ UNCHANGED <<item, history>> /\ runs' = Fails(r)
    /\ UNCHANGED <<db, secret, file, app>>

(* ALTER USER in one transaction, after a login with the pod's own copy.   *)
Alter(r) ==
    /\ runs[r].step = "alter"
    /\ \/ file = db /\ db' = r /\ runs' \in {Goes(r), Fails(r)}
       \/ UNCHANGED db /\ runs' = Fails(r)
    /\ UNCHANGED <<item, history, secret, file, app>>

(* refresh-secret: refreshTime as it is before, which may go unread, and   *)
(* the annotation; or no consumer is found, and the run ends.              *)
ReadBefore(r) ==
    /\ runs[r].step = "read"
    /\ \/ runs' = [Goes(r) EXCEPT ![r].fresh = FALSE]
       \/ runs' = [Goes(r) EXCEPT ![r].fresh = TRUE, ![r].unread = TRUE]
       \/ runs' = Fails(r)
    /\ UNCHANGED <<item, history, db, secret, file, app>>

(* The loop ends when a read differs from the one before, or after sixty   *)
(* reads; what is compared then is the last one, whether it was answered   *)
(* or not.  A first read that failed differs from any that is answered.    *)
Poll(r) ==
    /\ runs[r].step = "poll"
    /\ \/ runs[r].fresh /\ runs' = Goes(r)
       \/ ~runs[r].fresh /\ runs' = [Goes(r) EXCEPT ![r].unread = TRUE]
       \/ runs' = Fails(r)
    /\ UNCHANGED <<item, history, db, secret, file, app>>

(* kubectl wait: the ExternalSecret is Ready, or the run ends. *)
WaitReady(r) ==
    /\ runs[r].step = "ready" /\ runs' \in {Goes(r), Fails(r)}
    /\ UNCHANGED <<item, history, db, secret, file, app>>

(* One consumer after the other: the database's pod and the application's. *)
Restart(r) ==
    /\ \/ runs[r].step = "server" /\ file' = secret /\ UNCHANGED app
       \/ runs[r].step = "app" /\ app' = secret /\ UNCHANGED file
    /\ runs' \in {Goes(r), Fails(r)}
    /\ UNCHANGED <<item, history, db, secret>>

(* The External Secrets operator fetches the item, by itself or for the    *)
(* annotation; the kubelet renews a mounted copy; pods restart.            *)
Refresh ==
    /\ secret' = item /\ runs' = [r \in Rotations |-> IF runs[r].step = "poll" THEN [runs[r] EXCEPT !.fresh = TRUE] ELSE runs[r]]
    /\ UNCHANGED <<item, history, db, file, app>>
Remount == file' = secret /\ UNCHANGED <<item, history, db, secret, app, runs>>
AppRestarts == app' = secret /\ UNCHANGED <<item, history, db, secret, file, runs>>

RotationNext ==
    \/ \E r \in Rotations : Start(r) \/ Edit(r) \/ Alter(r) \/ ReadBefore(r) \/ Poll(r) \/ WaitReady(r) \/ Restart(r)
    \/ Refresh \/ Remount \/ AppRestarts

Spec == RotationInit /\ [][RotationNext]_rotationVars

(***************************************************************************)
(* Properties.                                                             *)
(***************************************************************************)
(* Whatever fails and whichever runs overlap, the password the database    *)
(* accepts is one the item has or has had: nobody is locked out of it.     *)
NothingIsLost == db \in history

LastAlone(r) == runs[r].step = "ended" /\ runs[r].exit = 0 /\ runs[r].alone /\ \A q \in Rotations : q > r => runs[q].step = "waiting"
AllAt(r) == item = r /\ db = r /\ secret = r /\ file = r /\ app = r

(* A run that ends well, that no other overlapped or followed, and whose   *)
(* reads of refreshTime were answered leaves item, database, Secret and    *)
(* pods at its password, also when earlier runs stopped half way.          *)
OkMeansUsable == \A r \in Rotations : LastAlone(r) /\ ~runs[r].unread => AllAt(r)

(* The same of every such run, answered or not: the wait is there so that  *)
(* no consumer restarts against the old value.                             *)
OkMeansRefreshed == \A r \in Rotations : LastAlone(r) => AllAt(r)
=============================================================================
