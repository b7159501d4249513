---------------------------- MODULE VersionBumpMr ----------------------------
(***************************************************************************)
(* version-bump-mr.py: the job that keeps one bot merge request in sync    *)
(* with the version bumps its clone of main calls for.  Any of its calls   *)
(* may fail and end it; main, upstream and the merge request go on         *)
(* changing while it runs, and a second job may run beside it.             *)
(***************************************************************************)
EXTENDS Naturals, FiniteSets

CONSTANTS
    Jobs,       \* the bot jobs that may run at once
    None,       \* no branch
    MaxBase,    \* bound: merges to main besides the bot's
    MaxPin      \* bound: releases upstream

ASSUME BumpAssumption ==
    /\ IsFiniteSet(Jobs) /\ MaxBase \in Nat /\ MaxPin \in Nat

\* What a checkout holds: the version pins, and the rest.
Contents == [base : 0..MaxBase, pins : 0..MaxPin]
ASSUME NoneAssumption == None \notin Contents

\* The merge requests that can be told apart: one per job that remembers one,
\* and the latest.
Iids == 1..(Cardinality(Jobs) + 1)
NoMr == 0

VARIABLES
    target,     \* what is on main, the target branch
    newest,     \* the newest version upstream
    branch,     \* the bot branch
    request,    \* the latest bot merge request, and the tree its text describes
    job,        \* the bot jobs
    calm        \* history: the jobs beside which nothing has happened

bumpVars == <<target, newest, branch, request, job, calm>>

NoRun == [pc |-> "idle", tree |-> [base |-> 0, pins |-> 0], changed |-> FALSE, openMr |-> NoMr]

BumpInit ==
    /\ target = [base |-> 0, pins |-> 0] /\ newest = 0
    /\ branch = None
    /\ request = [iid |-> NoMr, open |-> FALSE, text |-> target]
    /\ job = [j \in Jobs |-> NoRun]
    /\ calm = {}

-----------------------------------------------------------------------------
(* The job. *)

Goto(j, pc) == job' = [job EXCEPT ![j].pc = pc]
End(j) == job' = [job EXCEPT ![j] = NoRun]

\* The clone, with every pin rewritten to the newest version.
Start(j) ==
    /\ job[j].pc = "idle"
    /\ job' = [job EXCEPT ![j] = [pc |-> "list", tree |-> [target EXCEPT !.pins = newest],
                  changed |-> target.pins # newest, openMr |-> NoMr]]
    /\ calm' = {j}
    /\ UNCHANGED <<target, newest, branch, request>>

OpenMr == IF request.open THEN request.iid ELSE NoMr

\* List the open merge requests; without bumps only a stale one is left to do.
List(j) ==
    /\ job[j].pc = "list"
    /\ job' = [job EXCEPT ![j] =
           IF ~job[j].changed /\ ~request.open THEN NoRun
           ELSE [@ EXCEPT !.openMr = OpenMr, !.pc = IF job[j].changed THEN "fetch" ELSE "close"]]
    /\ calm' = calm \cap {j}
    /\ UNCHANGED <<target, newest, branch, request>>

\* The PUT of a merge request closed or merged since changes nothing that counts.
Close(j) ==
    /\ job[j].pc = "close"
    /\ request' = [request EXCEPT !.open = @ /\ request.iid # job[j].openMr]
    /\ End(j) /\ calm' = {}
    /\ UNCHANGED <<target, newest, branch>>

\* Broken variant: the pins are compared, the rest of the tree is not.
SamePins(j) == branch # None /\ branch.pins = job[j].tree.pins
BranchIsCurrent(j) == branch = job[j].tree

\* Broken variant: a merge request is taken to exist.
NothingToDoYet(j) == BranchIsCurrent(j)
NothingToDo(j) == BranchIsCurrent(j) /\ job[j].openMr # NoMr

\* An absent ref reads as no branch, any other failure ends the job.
Fetch(j) ==
    /\ job[j].pc = "fetch"
    /\ IF NothingToDo(j) THEN End(j)
       ELSE Goto(j, IF BranchIsCurrent(j) THEN "create" ELSE "push")
    /\ calm' = calm \cap {j}
    /\ UNCHANGED <<target, newest, branch, request>>

AfterPush(j) == IF job[j].openMr # NoMr THEN "refresh" ELSE "create"

\* Force-push: whatever is on the branch goes.
Push(j) ==
    /\ job[j].pc = "push"
    /\ branch' = job[j].tree
    /\ Goto(j, AfterPush(j))
    /\ calm' = calm \cap {j}
    /\ UNCHANGED <<target, newest, request>>

Refresh(j) ==
    /\ job[j].pc = "refresh"
    /\ request' = [request EXCEPT !.text = IF request.iid = job[j].openMr THEN job[j].tree ELSE @]
    /\ End(j) /\ calm' = {}
    /\ UNCHANGED <<target, newest, branch>>

\* The POST is refused while the branch has an open merge request, or is gone.
Create(j) ==
    /\ job[j].pc = "create" /\ ~request.open /\ branch # None
    /\ \E iid \in Iids \ {job[k].openMr : k \in Jobs} :
        request' = [iid |-> iid, open |-> TRUE, text |-> job[j].tree]
    /\ End(j) /\ calm' = {}
    /\ UNCHANGED <<target, newest, branch>>

\* A call fails: the job ends where it is.  A call whose answer is lost is one that
\* succeeded and another that fails.
Fails(j) ==
    /\ job[j].pc # "idle"
    /\ End(j) /\ calm' = {}
    /\ UNCHANGED <<target, newest, branch, request>>

-----------------------------------------------------------------------------
(* The others. *)

UpstreamReleases ==
    /\ newest < MaxPin
    /\ newest' = newest + 1 /\ calm' = {}
    /\ UNCHANGED <<target, branch, request, job>>

MainMoves ==
    /\ target.base < MaxBase
    /\ target' = [target EXCEPT !.base = @ + 1] /\ calm' = {}
    /\ UNCHANGED <<newest, branch, request, job>>

\* task maintenance:update-all-versions, merged on its own.
BumpedByHand ==
    /\ target.pins # newest
    /\ target' = [target EXCEPT !.pins = newest] /\ calm' = {}
    /\ UNCHANGED <<newest, branch, request, job>>

\* The source branch is removed, unless whoever merges keeps it.  Bumps older
\* than main's would conflict.
MergedByHand ==
    /\ request.open /\ branch # None /\ branch.pins > target.pins
    /\ target' = [target EXCEPT !.pins = branch.pins]
    /\ request' = [request EXCEPT !.open = FALSE]
    /\ branch' \in {branch, None} /\ calm' = {}
    /\ UNCHANGED <<newest, job>>

ClosedByHand ==
    /\ request.open
    /\ request' = [request EXCEPT !.open = FALSE] /\ calm' = {}
    /\ UNCHANGED <<target, newest, branch, job>>

-----------------------------------------------------------------------------
Works(j) ==
    List(j) \/ Close(j) \/ Fetch(j) \/ Push(j) \/ Refresh(j) \/ Create(j)

BumpNext ==
    \/ \E j \in Jobs : Start(j) \/ Works(j) \/ Fails(j)
    \/ UpstreamReleases \/ MainMoves \/ BumpedByHand \/ MergedByHand \/ ClosedByHand

\* The schedule starts the job again and again, a job ends (its pipeline times
\* out), and no call fails every time.
BumpFairness ==
    /\ \A j \in Jobs : WF_bumpVars(Works(j) \/ Fails(j))
    /\ WF_bumpVars(\E j \in Jobs : Start(j))
    /\ SF_bumpVars(\E j \in Jobs : List(j))
    /\ SF_bumpVars(\E j \in Jobs : Close(j))
    /\ SF_bumpVars(\E j \in Jobs : Fetch(j))
    /\ SF_bumpVars(\E j \in Jobs : Push(j))
    /\ SF_bumpVars(\E j \in Jobs : Create(j))

BumpSpec == BumpInit /\ [][BumpNext]_bumpVars /\ BumpFairness

-----------------------------------------------------------------------------
(* Properties. *)

EndsOk(j) == Works(j) /\ job'[j].pc = "idle"

InSync ==
    IF target.pins = newest THEN ~request.open
    ELSE request.open /\ branch = [target EXCEPT !.pins = newest]

\* A run that ends ok, and beside which nothing happened, leaves the bot branch
\* with main's bumps under an open merge request, or none open if there are no
\* bumps, whatever interrupted, failed or overlapping runs it started from
\* (the module's docstring).
OkMeansInSync ==
    [][\A j \in Jobs : j \in calm /\ EndsOk(j) => InSync']_bumpVars

\* However runs overlap and people interfere, the merge request is in sync again
\* and again.
SyncReturns == []<>InSync
=============================================================================
