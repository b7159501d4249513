-------------------------- MODULE VersionPinsProofs --------------------------
(***************************************************************************)
(* The bot's two programs, proved about one after the other.  They share   *)
(* no state: VersionBumpMr has BumpSpec, VersionPins has Spec.             *)
(*                                                                         *)
(* VersionBumpMr: a good run of the bot, beside which nothing happened,    *)
(* leaves the merge request in sync, for any number of jobs and any        *)
(* history before it.                                                      *)
(*                                                                         *)
(* VersionPins: for every registry, however often upstreams publish and    *)
(* lookups fail, what stands beside a pin on main is of its version, and   *)
(* no pin on main goes back.                                               *)
(*                                                                         *)
(* main is only changed by three-way merges, so the invariant speaks of    *)
(* all three trees of every checkout: the base was main once and matches   *)
(* in full, the pins of the tree only rise above the base, and the shas of *)
(* the tree match as far as the run has got (BotInv, OpInv, RequestInv).   *)
(***************************************************************************)
EXTENDS VersionPins, VersionBumpMr, TLAPS

(* The bot's merge request. *)

Steps == {"idle", "list", "close", "fetch", "push", "refresh", "create"}

\* A job's record.
Runs == [pc : Steps, tree : Contents, changed : BOOLEAN, openMr : {NoMr} \cup Iids]

BumpTypeOK ==
    /\ target \in Contents /\ newest \in 0..MaxPin
    /\ branch \in Contents \cup {None}
    /\ request \in [iid : {NoMr} \cup Iids, open : BOOLEAN, text : Contents]
    /\ job \in [Jobs -> Runs]
    /\ calm \subseteq Jobs

\* What a run beside which nothing happened knows, by its step: the tree it made is
\* still what main's bumps are, and what it listed is still there.
Knows(j) ==
    /\ job[j].tree = [target EXCEPT !.pins = newest]
    /\ job[j].changed <=> target.pins # newest
    /\ job[j].pc = "close" => ~job[j].changed /\ request.open /\ job[j].openMr = request.iid
    /\ job[j].pc \in {"fetch", "push", "refresh", "create"} =>
           job[j].changed /\ job[j].openMr = OpenMr
    /\ job[j].pc = "refresh" => job[j].openMr # NoMr
    /\ job[j].pc \in {"refresh", "create"} => branch = job[j].tree

CalmInv == \A j \in calm : job[j].pc # "idle" => Knows(j)
BumpInv == BumpTypeOK /\ CalmInv

-----------------------------------------------------------------------------

LEMMA InitHolds == BumpInit => BumpInv
  <1> SUFFICES ASSUME BumpInit PROVE BumpInv
    OBVIOUS
  <1>1. /\ [base |-> 0, pins |-> 0] \in Contents
        /\ NoMr \in {NoMr} \cup Iids
        /\ NoRun \in Runs
    BY BumpAssumption DEF Contents, NoRun, Runs, Steps
  <1>2. BumpTypeOK
    BY <1>1, BumpAssumption DEF BumpTypeOK, BumpInit
  <1> QED
    BY <1>2 DEF BumpInv, CalmInv, BumpInit

\* The tree of a clone in which every pin is rewritten.
LEMMA Rewritten ==
    ASSUME NEW m \in Contents, NEW u \in 0..MaxPin
    PROVE  /\ [m EXCEPT !.pins = u] \in Contents
           /\ [m EXCEPT !.pins = u].pins = u
  BY DEF Contents

-----------------------------------------------------------------------------
(* One lemma per step of the job: the invariant is kept, and a good end is in sync. *)

Good(j) == j \in calm /\ EndsOk(j) => InSync'

LEMMA Worked ==
    ASSUME NEW j \in Jobs, EndsOk(j)
    PROVE  job[j].pc # "idle" /\ job'[j].pc = "idle"
  BY DEF EndsOk, Works, List, Close, Fetch, Push, Refresh, Create

LEMMA IdleFits == NoRun \in Runs /\ NoRun.pc = "idle"
  BY BumpAssumption DEF NoRun, Runs, Steps, Contents

LEMMA StartKeeps ==
    ASSUME BumpInv, NEW k \in Jobs, Start(k)
    PROVE  BumpInv'
  <1> DEFINE r == [pc |-> "list", tree |-> [target EXCEPT !.pins = newest],
                   changed |-> target.pins # newest, openMr |-> NoMr]
  <1>1. target \in Contents /\ newest \in 0..MaxPin /\ job \in [Jobs -> Runs]
    BY DEF BumpInv, BumpTypeOK
  <1>2. r \in Runs
    BY <1>1, Rewritten DEF Runs, Steps
  <1>3. job' = [job EXCEPT ![k] = r] /\ calm' = {k} /\ UNCHANGED <<target, newest, branch, request>>
    BY DEF Start
  <1>4. job' \in [Jobs -> Runs] /\ job'[k] = r
    BY <1>1, <1>2, <1>3
  <1>5. BumpTypeOK'
    BY <1>3, <1>4 DEF BumpInv, BumpTypeOK
  <1>6. Knows(k)'
    BY <1>3, <1>4 DEF Knows, OpenMr
  <1> QED
    BY <1>3, <1>5, <1>6 DEF BumpInv, CalmInv

LEMMA ListKeeps ==
    ASSUME BumpInv, NEW k \in Jobs, List(k)
    PROVE  BumpInv' /\ \A j \in Jobs : Good(j)
  <1> DEFINE r == IF ~job[k].changed /\ ~request.open THEN NoRun
                  ELSE [job[k] EXCEPT !.openMr = OpenMr,
                                      !.pc = IF job[k].changed THEN "fetch" ELSE "close"]
  <1>1. /\ job \in [Jobs -> Runs] /\ job[k] \in Runs
        /\ request \in [iid : {NoMr} \cup Iids, open : BOOLEAN, text : Contents]
        /\ target \in Contents /\ newest \in 0..MaxPin
    BY DEF BumpInv, BumpTypeOK
  <1>2. OpenMr \in {NoMr} \cup Iids
    BY <1>1 DEF OpenMr
  <1>3. r \in Runs
    BY <1>1, <1>2, IdleFits DEF Runs, Steps
  <1>4. /\ job' = [job EXCEPT ![k] = r] /\ calm' = calm \cap {k}
        /\ UNCHANGED <<target, newest, branch, request>> /\ job[k].pc = "list"
    BY DEF List
  <1>5. job' \in [Jobs -> Runs] /\ job'[k] = r /\ \A j \in Jobs \ {k} : job'[j] = job[j]
    BY <1>1, <1>3, <1>4
  <1>6. BumpTypeOK'
    BY <1>4, <1>5 DEF BumpInv, BumpTypeOK
  <1>7. ASSUME k \in calm, job'[k].pc # "idle" PROVE Knows(k)'
    <2>1. Knows(k)
      BY <1>4, <1>7 DEF BumpInv, CalmInv
    <2>2. r # NoRun
      BY <1>5, <1>7, IdleFits
    <2>3. /\ r.tree = job[k].tree /\ r.changed = job[k].changed /\ r.openMr = OpenMr
          /\ r.pc = IF job[k].changed THEN "fetch" ELSE "close"
          /\ job[k].changed \/ request.open
      BY <2>2, <1>1 DEF Runs
    <2> HIDE DEF r
    <2> QED
      BY <2>1, <2>3, <1>4, <1>5 DEF Knows, OpenMr
  <1>8. ASSUME k \in calm, job'[k].pc = "idle" PROVE InSync'
    <2>1. Knows(k)
      BY <1>4, <1>8 DEF BumpInv, CalmInv
    <2>2. ~job[k].changed /\ ~request.open
      BY <1>1, <1>5, <1>8 DEF Runs
    <2> QED
      BY <2>1, <2>2, <1>4 DEF Knows, InSync
  <1>9. \A j \in Jobs : Good(j)
    <2> SUFFICES ASSUME NEW j \in Jobs, j \in calm, EndsOk(j) PROVE InSync'
      BY DEF Good
    <2> QED
      BY Worked, <1>5, <1>8
  <1> QED
    BY <1>4, <1>6, <1>7, <1>9 DEF BumpInv, CalmInv

\* What the other steps of a job have in common: they end it, or move it on to `pc`.
LEMMA EndFits ==
    ASSUME BumpTypeOK, NEW k \in Jobs, End(k)
    PROVE  /\ job' \in [Jobs -> Runs] /\ job'[k].pc = "idle"
           /\ \A j \in Jobs \ {k} : job'[j] = job[j]
  BY IdleFits DEF BumpTypeOK, End

LEMMA GotoFits ==
    ASSUME BumpTypeOK, NEW k \in Jobs, NEW pc \in Steps, Goto(k, pc)
    PROVE  /\ job' \in [Jobs -> Runs] /\ job'[k] = [job[k] EXCEPT !.pc = pc]
           /\ \A j \in Jobs \ {k} : job'[j] = job[j]
  <1>1. job \in [Jobs -> Runs] /\ job[k] \in Runs
    BY DEF BumpTypeOK
  <1>2. [job[k] EXCEPT !.pc = pc] \in Runs
    BY <1>1 DEF Runs
  <1>3. job' = [job EXCEPT ![k] = [job[k] EXCEPT !.pc = pc]]
    BY <1>1 DEF Goto
  <1> QED
    BY <1>1, <1>2, <1>3

\* Only the job of this step may end in it.
LEMMA OnlyOneEnds ==
    ASSUME NEW k \in Jobs, \A j \in Jobs \ {k} : job'[j] = job[j],
           k \in calm /\ job'[k].pc = "idle" => InSync'
    PROVE  \A j \in Jobs : Good(j)
  BY Worked DEF Good

\* A step after which no job counts as calm.
LEMMA DisturbingKeeps ==
    ASSUME BumpTypeOK', calm' = {}
    PROVE  BumpInv'
  BY DEF BumpInv, CalmInv

LEMMA CloseKeeps ==
    ASSUME BumpInv, NEW k \in Jobs, Close(k)
    PROVE  BumpInv' /\ \A j \in Jobs : Good(j)
  <1>1. BumpTypeOK /\ (k \in calm => Knows(k))
    BY DEF BumpInv, CalmInv, Close
  <1>2. /\ job[k].pc = "close" /\ End(k) /\ calm' = {}
        /\ request' = [request EXCEPT !.open = @ /\ request.iid # job[k].openMr]
        /\ UNCHANGED <<target, newest, branch>>
    BY DEF Close
  <1>3. BumpTypeOK'
    BY <1>1, <1>2, EndFits DEF BumpTypeOK
  <1>4. k \in calm => InSync'
    BY <1>1, <1>2 DEF Knows, InSync, BumpTypeOK
  <1> QED
    BY <1>1, <1>2, <1>3, <1>4, EndFits, OnlyOneEnds, DisturbingKeeps

LEMMA FetchKeeps ==
    ASSUME BumpInv, NEW k \in Jobs, Fetch(k)
    PROVE  BumpInv' /\ \A j \in Jobs : Good(j)
  <1>1. BumpTypeOK /\ (k \in calm => Knows(k))
    BY DEF BumpInv, CalmInv, Fetch
  <1>2. /\ job[k].pc = "fetch" /\ calm' = calm \cap {k}
        /\ UNCHANGED <<target, newest, branch, request>>
    BY DEF Fetch
  <1>3. CASE NothingToDo(k)
    <2>1. End(k)
      BY <1>3 DEF Fetch
    <2>2. BumpTypeOK'
      BY <1>1, <1>2, <2>1, EndFits DEF BumpTypeOK
    <2>3. BumpInv'
      BY <1>1, <1>2, <2>1, <2>2, EndFits DEF BumpInv, CalmInv
    <2>4. k \in calm => InSync'
      BY <1>1, <1>2, <1>3 DEF Knows, InSync, NothingToDo, BranchIsCurrent, OpenMr, BumpTypeOK
    <2> QED
      BY <1>1, <2>1, <2>3, <2>4, EndFits, OnlyOneEnds
  <1>4. CASE ~NothingToDo(k)
    <2>1. PICK pc \in Steps : /\ pc = IF BranchIsCurrent(k) THEN "create" ELSE "push"
                              /\ Goto(k, pc)
      BY <1>4 DEF Fetch, Steps
    <2>2. BumpTypeOK'
      BY <1>1, <1>2, <2>1, GotoFits DEF BumpTypeOK
    <2>3. job'[k] = [job[k] EXCEPT !.pc = pc] /\ job[k] \in Runs
      BY <1>1, <2>1, GotoFits DEF BumpTypeOK
    <2>4. ASSUME k \in calm PROVE Knows(k)'
      <3>1. /\ job'[k].pc = pc /\ job'[k].tree = job[k].tree
            /\ job'[k].changed = job[k].changed /\ job'[k].openMr = job[k].openMr
        BY <2>3 DEF Runs
      <3> QED
        BY <1>1, <1>2, <2>1, <2>4, <3>1 DEF Knows, OpenMr, BranchIsCurrent
    <2>5. job'[k].pc # "idle"
      BY <2>1, <2>3 DEF Runs
    <2>6. \A j \in Jobs : Good(j)
      BY <1>1, <2>1, <2>5, GotoFits, OnlyOneEnds
    <2> QED
      BY <1>2, <2>2, <2>4, <2>6 DEF BumpInv, CalmInv
  <1> QED
    BY <1>3, <1>4

LEMMA PushKeeps ==
    ASSUME BumpInv, NEW k \in Jobs, Push(k)
    PROVE  BumpInv' /\ \A j \in Jobs : Good(j)
  <1>1. BumpTypeOK /\ (k \in calm => Knows(k))
    BY DEF BumpInv, CalmInv, Push
  <1>2. /\ job[k].pc = "push" /\ calm' = calm \cap {k} /\ branch' = job[k].tree
        /\ UNCHANGED <<target, newest, request>>
    BY DEF Push
  <1>3. PICK pc \in Steps : pc = AfterPush(k) /\ Goto(k, pc)
    BY DEF Push, AfterPush, Steps
  <1>4. job'[k] = [job[k] EXCEPT !.pc = pc] /\ job[k] \in Runs
    BY <1>1, <1>3, GotoFits DEF BumpTypeOK
  <1>5. BumpTypeOK'
    BY <1>1, <1>2, <1>3, <1>4, GotoFits DEF BumpTypeOK, Runs
  <1>6. ASSUME k \in calm PROVE Knows(k)'
    <2>1. /\ job'[k].pc = pc /\ job'[k].tree = job[k].tree
          /\ job'[k].changed = job[k].changed /\ job'[k].openMr = job[k].openMr
      BY <1>4 DEF Runs
    <2> QED
      BY <1>1, <1>2, <1>3, <1>6, <2>1 DEF Knows, OpenMr, AfterPush
  <1>7. job'[k].pc # "idle"
    BY <1>3, <1>4 DEF Runs, AfterPush
  <1>8. \A j \in Jobs : Good(j)
    BY <1>1, <1>3, <1>7, GotoFits, OnlyOneEnds
  <1> QED
    BY <1>2, <1>5, <1>6, <1>8 DEF BumpInv, CalmInv

LEMMA RefreshKeeps ==
    ASSUME BumpInv, NEW k \in Jobs, Refresh(k)
    PROVE  BumpInv' /\ \A j \in Jobs : Good(j)
  <1>1. BumpTypeOK /\ (k \in calm => Knows(k)) /\ job[k] \in Runs
    BY DEF BumpInv, CalmInv, Refresh, BumpTypeOK
  <1>2. /\ job[k].pc = "refresh" /\ End(k) /\ calm' = {}
        /\ request' = [request EXCEPT
                           !.text = IF request.iid = job[k].openMr THEN job[k].tree ELSE @]
        /\ UNCHANGED <<target, newest, branch>>
    BY DEF Refresh
  <1>3. /\ request' \in [iid : {NoMr} \cup Iids, open : BOOLEAN, text : Contents]
        /\ request'.open = request.open
    BY <1>1, <1>2 DEF BumpTypeOK, Runs
  <1>4. BumpTypeOK'
    BY <1>1, <1>2, <1>3, EndFits DEF BumpTypeOK
  <1>5. k \in calm => InSync'
    BY <1>1, <1>2, <1>3 DEF Knows, InSync, OpenMr
  <1> QED
    BY <1>1, <1>2, <1>4, <1>5, EndFits, OnlyOneEnds, DisturbingKeeps

LEMMA CreateKeeps ==
    ASSUME BumpInv, NEW k \in Jobs, Create(k)
    PROVE  BumpInv' /\ \A j \in Jobs : Good(j)
  <1>1. BumpTypeOK /\ (k \in calm => Knows(k)) /\ job[k] \in Runs
    BY DEF BumpInv, CalmInv, Create, BumpTypeOK
  <1>2. /\ job[k].pc = "create" /\ End(k) /\ calm' = {}
        /\ UNCHANGED <<target, newest, branch>>
    BY DEF Create
  <1>3. PICK iid \in Iids : request' = [iid |-> iid, open |-> TRUE, text |-> job[k].tree]
    BY DEF Create
  <1>4. BumpTypeOK'
    BY <1>1, <1>2, <1>3, EndFits DEF BumpTypeOK, Runs
  <1>5. k \in calm => InSync'
    BY <1>1, <1>2, <1>3 DEF Knows, InSync
  <1> QED
    BY <1>1, <1>2, <1>4, <1>5, EndFits, OnlyOneEnds, DisturbingKeeps

-----------------------------------------------------------------------------
(* The others leave the jobs alone, and none of them calm. *)

Others == UpstreamReleases \/ MainMoves \/ BumpedByHand \/ MergedByHand \/ ClosedByHand

LEMMA OthersKeep ==
    ASSUME BumpInv, Others
    PROVE  BumpInv' /\ \A j \in Jobs : Good(j)
  <1>1. BumpTypeOK
    BY DEF BumpInv
  <1>2. calm' = {} /\ UNCHANGED job
    BY DEF Others, UpstreamReleases, MainMoves, BumpedByHand, MergedByHand, ClosedByHand
  <1>3. \A j \in Jobs : Good(j)
    BY <1>2, Worked DEF Good
  <1>4. BumpTypeOK'
    <2>1. CASE UpstreamReleases
      BY <1>1, <2>1, BumpAssumption DEF UpstreamReleases, BumpTypeOK
    <2>2. CASE MainMoves
      BY <1>1, <2>2, BumpAssumption DEF MainMoves, BumpTypeOK, Contents
    <2>3. CASE BumpedByHand
      BY <1>1, <2>3, Rewritten DEF BumpedByHand, BumpTypeOK
    <2>4. CASE MergedByHand
      <3>1. branch \in Contents
        BY <1>1, <2>4 DEF BumpTypeOK, MergedByHand
      <3>2. target' \in Contents
        BY <1>1, <2>4, <3>1 DEF BumpTypeOK, MergedByHand, Contents
      <3> QED
        BY <1>1, <2>4, <3>2 DEF BumpTypeOK, MergedByHand
    <2>5. CASE ClosedByHand
      BY <1>1, <2>5 DEF ClosedByHand, BumpTypeOK
    <2> QED
      BY <2>1, <2>2, <2>3, <2>4, <2>5 DEF Others
  <1> QED
    BY <1>2, <1>3, <1>4, DisturbingKeeps

LEMMA FailsKeeps ==
    ASSUME BumpInv, NEW k \in Jobs, Fails(k)
    PROVE  BumpInv'
  <1>1. BumpTypeOK /\ End(k) /\ calm' = {} /\ UNCHANGED <<target, newest, branch, request>>
    BY DEF BumpInv, Fails
  <1>2. BumpTypeOK'
    BY <1>1, EndFits DEF BumpTypeOK
  <1> QED
    BY <1>1, <1>2, DisturbingKeeps

-----------------------------------------------------------------------------

LEMMA WorksKeeps ==
    ASSUME BumpInv, NEW k \in Jobs, Works(k)
    PROVE  BumpInv' /\ \A j \in Jobs : Good(j)
  BY ListKeeps, CloseKeeps, FetchKeeps, PushKeeps, RefreshKeeps, CreateKeeps DEF Works

LEMMA StepKeeps ==
    ASSUME BumpInv, [BumpNext]_bumpVars
    PROVE  BumpInv' /\ [\A j \in Jobs : Good(j)]_bumpVars
  <1>1. CASE UNCHANGED bumpVars
    <2>1. BumpInv'
      BY <1>1 DEF bumpVars, BumpInv, BumpTypeOK, CalmInv, Knows, OpenMr
    <2> QED
      BY <1>1, <2>1
  <1>2. CASE Others
    BY <1>2, OthersKeep
  <1>3. ASSUME NEW k \in Jobs, Start(k) \/ Works(k) \/ Fails(k)
        PROVE  BumpInv' /\ \A j \in Jobs : Good(j)
    <2>1. CASE Works(k)
      BY <2>1, WorksKeeps
    <2>2. CASE Start(k)
      <3>1. job' = [job EXCEPT ![k] = job'[k]] /\ job'[k].pc # "idle"
        BY <2>2 DEF Start, BumpInv, BumpTypeOK
      <3>2. \A j \in Jobs \ {k} : job'[j] = job[j]
        BY <2>2 DEF Start, BumpInv, BumpTypeOK
      <3> QED
        BY <2>2, <3>1, <3>2, StartKeeps, OnlyOneEnds
    <2>3. CASE Fails(k) /\ ~Works(k)
      <3>1. /\ \A j \in Jobs \ {k} : job'[j] = job[j]
        BY <2>3, EndFits DEF Fails, BumpInv
      <3>2. ~EndsOk(k)
        BY <2>3 DEF EndsOk
      <3>3. \A j \in Jobs : Good(j)
        BY <3>1, <3>2, Worked DEF Good
      <3> QED
        BY <2>3, <3>3, FailsKeeps
    <2> QED
      BY <1>3, <2>1, <2>2, <2>3
  <1> QED
    BY <1>1, <1>2, <1>3 DEF BumpNext, Others

\* Whatever failed, overlapped or interfered before: a run beside which nothing
\* happens, and which ends ok, has left the merge request as main's bumps want it.
THEOREM GoodRunsLeaveItInSync == BumpSpec => OkMeansInSync
  <1>1. BumpInit => BumpInv
    BY InitHolds
  <1>2. BumpInv /\ [BumpNext]_bumpVars => BumpInv'
    BY StepKeeps
  <1>3. BumpInv /\ [BumpNext]_bumpVars =>
            [\A j \in Jobs : j \in calm /\ EndsOk(j) => InSync']_bumpVars
    BY StepKeeps DEF Good
  <1> QED
    BY <1>1, <1>2, <1>3, PTL DEF BumpSpec, OkMeansInSync

-----------------------------------------------------------------------------
(* The pins. *)

USE ServicesAssumption, BoundsAssumption

-----------------------------------------------------------------------------
(* Types. *)

BotStates == [phase : {"idle", "fetch", "write", "companion"}, todo : 0..Len(Order),
              found : [Services -> 0..Max], failed : SUBSET {"lookup", "write"},
              tree : Trees, base : Trees]
Requests == [tree : Trees, base : Trees]
Checkouts == [phase : {"idle", "companion", "ok", "failed"}, service : Services,
              tree : Trees, base : Trees]

-----------------------------------------------------------------------------
(* Trees. *)

\* If the operator drops what a failed command leaves, the shas of a tree are
\* those of its pins, but for the services in S.
ShasBut(tree, S) == Discards => \A s \in Computed \ S : tree.sha[s] = tree.pin[s]
\* All shas match; with the checksums, all that stands beside a pin.
ShasMatch(tree) == ShasBut(tree, {})
Matches(tree) == ShasMatch(tree) /\ ChecksumsHold(tree)
\* No pin of a tree is below its base's.
Rises(tree, base) == \A s \in Services : tree.pin[s] >= base.pin[s]

\* A pin that moves: only it changes, and a sha beside it is left behind.
LEMMA PinMoves ==
    ASSUME NEW t \in Trees, NEW s \in Services, NEW v \in 0..Max
    PROVE  LET u == [t EXCEPT !.pin[s] = v]
           IN  /\ u \in Trees /\ u.sha = t.sha /\ u.checksum = t.checksum
               /\ u.pin[s] = v /\ \A r \in Services : r # s => u.pin[r] = t.pin[r]
BY DEF Trees

\* A sha that is recomputed.
LEMMA ShaMoves ==
    ASSUME NEW t \in Trees, NEW s \in Computed
    PROVE  LET u == [t EXCEPT !.sha[s] = t.pin[s]]
           IN  /\ u \in Trees /\ u.pin = t.pin /\ u.checksum = t.checksum
               /\ u.sha[s] = u.pin[s] /\ \A r \in Computed : r # s => u.sha[r] = t.sha[r]
BY DEF Trees

\* A checksum that is recomputed.
LEMMA ChecksumMoves ==
    ASSUME NEW t \in Trees, NEW s \in Hashed
    PROVE  LET u == [t EXCEPT !.checksum[s] = t.pin[s]]
           IN  u \in Trees /\ u.pin = t.pin /\ u.sha = t.sha
BY DEF Trees

\* The trees begin in order.
LEMMA FirstMatches == First \in Trees /\ Matches(First)
BY DEF First, Trees, Matches, ShasMatch, ShasBut, ChecksumsHold

\* Git's merge: a tree of the same kind; what matched on all three sides
\* matches in the result; what rose above the base does not fall below main.
LEMMA MergedTree ==
    ASSUME NEW t \in Trees, NEW b \in Trees, main \in Trees
    PROVE  /\ Merged(t, b) \in Trees
           /\ \A s \in Services : Merged(t, b).pin[s] =
                  IF t.pin[s] = b.pin[s] THEN main.pin[s] ELSE t.pin[s]
           /\ \A s \in Computed : Merged(t, b).sha[s] =
                  IF t.sha[s] = b.sha[s] THEN main.sha[s] ELSE t.sha[s]
           /\ \A s \in Hashed : Merged(t, b).checksum[s] =
                  IF t.checksum[s] = b.checksum[s] THEN main.checksum[s] ELSE t.checksum[s]
<1>1. /\ DOMAIN t.pin = Services /\ DOMAIN t.sha = Computed /\ DOMAIN t.checksum = Hashed
  BY DEF Trees
<1> DEFINE P == [s \in Services |-> IF t.pin[s] = b.pin[s] THEN main.pin[s] ELSE t.pin[s]]
           S == [s \in Computed |-> IF t.sha[s] = b.sha[s] THEN main.sha[s] ELSE t.sha[s]]
           C == [s \in Hashed |-> IF t.checksum[s] = b.checksum[s] THEN main.checksum[s]
                                                                   ELSE t.checksum[s]]
<1>2. Merged(t, b) = [pin |-> P, sha |-> S, checksum |-> C]
  BY <1>1 DEF Merged
<1>3. P \in [Services -> 0..Max] /\ S \in [Computed -> 0..Max] /\ C \in [Hashed -> 0..Max]
  BY DEF Trees
<1> QED
  BY <1>2, <1>3 DEF Trees

\* A merge of trees in order is in order.
LEMMA MergeMatches ==
    ASSUME NEW t \in Trees, NEW b \in Trees, main \in Trees,
           Matches(t), Matches(b), Matches(main)
    PROVE  Matches(Merged(t, b))
BY MergedTree DEF Matches, ShasMatch, ShasBut, ChecksumsHold

\* A merge that applies takes no pin back.
LEMMA MergeRises ==
    ASSUME NEW t \in Trees, NEW b \in Trees, main \in Trees,
           Rises(t, b), ~Conflict(t, b), NEW s \in Services
    PROVE  Merged(t, b).pin[s] >= main.pin[s]
<1>1. ~(t.pin[s] # b.pin[s] /\ main.pin[s] # b.pin[s] /\ t.pin[s] # main.pin[s])
  BY DEF Conflict, Trees
<1>2. t.pin[s] \in Nat /\ b.pin[s] \in Nat /\ main.pin[s] \in Nat /\ t.pin[s] >= b.pin[s]
  BY DEF Trees, Rises
<1>3. Merged(t, b).pin[s] = IF t.pin[s] = b.pin[s] THEN main.pin[s] ELSE t.pin[s]
  BY MergedTree
<1> QED
  BY <1>1, <1>2, <1>3

-----------------------------------------------------------------------------
(* The bot, one service after the other. *)

\* A sha is behind only where it is being resolved, or after a failure that
\* keeps the run from going on; no pin is below that of the checkout's base.
BotInv(b) ==
    /\ b \in BotStates
    /\ b.phase \in {"fetch", "companion"} => b.todo # 0
    /\ b.phase = "companion" => Order[b.todo] \in Computed
    /\ Matches(b.base) /\ Rises(b.tree, b.base)
    /\ b.phase = "fetch" => ShasMatch(b.tree)
    /\ b.phase = "write" => ShasMatch(b.tree) \/ "write" \in b.failed
    /\ b.phase = "companion" =>
          ShasBut(b.tree, {Order[b.todo]}) \/ "write" \in b.failed

\* On to the next service, or from looking up to writing.
LEMMA AdvanceKeeps ==
    ASSUME NEW b \in BotStates, b.phase \in {"fetch", "write"}, b.todo # 0
    PROVE  LET a == Advance(b)
           IN  /\ a \in BotStates
               /\ a.tree = b.tree /\ a.base = b.base /\ a.failed = b.failed
               /\ a.phase \in {"fetch", "write"}
               /\ b.phase = "write" => a.phase = "write"
               /\ a.phase = "fetch" => a.todo # 0
<1>1. Len(Order) \in Nat \ {0} /\ b.todo \in 1..Len(Order)
  BY DEF BotStates
<1>2. CASE b.todo < Len(Order)
  <2> DEFINE td == b.todo + 1
  <2>1. Advance(b) = [b EXCEPT !.todo = td]
    BY <1>2 DEF Advance
  <2>2. td \in 0..Len(Order) /\ td # 0
    BY <1>1, <1>2
  <2> HIDE DEF td
  <2> QED
    BY <2>1, <2>2 DEF BotStates
<1>3. CASE ~(b.todo < Len(Order))
  <2>1. Advance(b) = [b EXCEPT !.phase = IF @ = "fetch" THEN "write" ELSE @,
                               !.todo = IF b.phase = "fetch" THEN 1 ELSE 0]
    BY <1>3 DEF Advance
  <2>2. 0 \in 0..Len(Order) /\ 1 \in 0..Len(Order)
    BY <1>1
  <2> DEFINE ph == IF b.phase = "fetch" THEN "write" ELSE b.phase
             td == IF b.phase = "fetch" THEN 1 ELSE 0
  <2>3. Advance(b) = [b EXCEPT !.phase = ph, !.todo = td]
    BY <2>1
  <2>4. ph = "write" /\ td \in 0..Len(Order)
    BY <2>2
  <2> HIDE DEF ph, td
  <2> QED
    BY <2>3, <2>4 DEF BotStates
<1> QED
  BY <1>2, <1>3

\* What holds of the bot still does when it goes on.
LEMMA AdvanceInv ==
    ASSUME NEW b, BotInv(b), b.phase \in {"fetch", "write"}, b.todo # 0
    PROVE  BotInv(Advance(b))
BY AdvanceKeeps DEF BotInv

\* The service a run is at.
LEMMA CurrentService ==
    ASSUME bot \in BotStates, bot.todo # 0
    PROVE  Current \in Services
BY DEF Current, BotStates, Services

\* The actions of the bot, one by one: a lookup,
LEMMA FetchInv ==
    ASSUME BotInv(bot), upstream \in [Services -> 1..Max], BotFetch
    PROVE  BotInv(bot')
<1>1. bot.phase = "fetch" /\ bot.todo # 0 /\ bot \in BotStates /\ Current \in Services
  BY CurrentService DEF BotFetch, BotInv
<1>2. ASSUME NEW v \in 0..Max PROVE BotInv(Advance([bot EXCEPT !.found[Current] = v]))
  <2> DEFINE b == [bot EXCEPT !.found[Current] = v]
  <2>1. /\ b \in BotStates /\ b.phase = bot.phase /\ b.todo = bot.todo
        /\ b.tree = bot.tree /\ b.base = bot.base /\ b.failed = bot.failed
    BY <1>1 DEF BotStates
  <2> HIDE DEF b
  <2>2. BotInv(b)
    BY <2>1 DEF BotInv
  <2> QED
    BY <1>1, <2>1, <2>2, AdvanceInv DEF b
<1>3. BotInv(Advance([bot EXCEPT !.failed = @ \cup {"lookup"}]))
  <2> DEFINE b == [bot EXCEPT !.failed = @ \cup {"lookup"}]
  <2>1. /\ b \in BotStates /\ b.phase = bot.phase /\ b.todo = bot.todo
        /\ b.tree = bot.tree /\ b.base = bot.base
    BY <1>1 DEF BotStates
  <2> HIDE DEF b
  <2>2. BotInv(b)
    BY <1>1, <2>1 DEF BotInv
  <2> QED
    BY <1>1, <2>1, <2>2, AdvanceInv DEF b
<1>4. upstream[Current] \in 0..Max /\ \A older \in 1..upstream[Current] - 1 : older \in 0..Max
  BY <1>1
<1> QED
  BY <1>2, <1>3, <1>4 DEF BotFetch

\* a pin that is written,
LEMMA WriteInv ==
    ASSUME BotInv(bot), BotWrite
    PROVE  BotInv(bot')
<1> DEFINE latest == bot.found[Current]
           seen == [bot EXCEPT !.found[Current] = Unknown]
           failed == [seen EXCEPT !.failed = @ \cup {"write"}]
           written == [seen EXCEPT !.tree.pin[Current] = latest]
           waiting == [written EXCEPT !.phase = "companion"]
<1>1. bot.phase = "write" /\ bot.todo # 0 /\ bot \in BotStates /\ Current \in Services
  BY CurrentService DEF BotWrite, BotInv, BotStates
<1>2. bot' = IF ~IsActionable(bot.tree, Current, latest) THEN Advance(seen)
             ELSE IF Current \in Digest THEN Advance(failed)
             ELSE IF Current \in Computed THEN waiting ELSE Advance(written)
  BY DEF BotWrite
<1>3. latest \in 0..Max /\ bot.tree \in Trees /\ bot.base \in Trees
  BY <1>1 DEF BotStates
<1>4. /\ seen \in BotStates /\ seen.phase = bot.phase /\ seen.todo = bot.todo
      /\ seen.tree = bot.tree /\ seen.base = bot.base /\ seen.failed = bot.failed
  <2>1. Unknown \in 0..Max
    BY DEF Unknown
  <2> QED
    BY <1>1, <2>1 DEF BotStates
<1>5. BotInv(seen)
  BY <1>4 DEF BotInv
<1>6. BotInv(failed) /\ failed.phase = "write" /\ failed.todo # 0
  <2> HIDE DEF seen
  <2>1. /\ failed \in BotStates /\ failed.phase = bot.phase /\ failed.todo = bot.todo
        /\ failed.tree = bot.tree /\ failed.base = bot.base /\ "write" \in failed.failed
    BY <1>4 DEF BotStates
  <2> HIDE DEF failed
  <2> QED
    BY <1>1, <2>1 DEF BotInv
<1> DEFINE moved == [bot.tree EXCEPT !.pin[Current] = latest]
<1>7. /\ moved \in Trees /\ moved.sha = bot.tree.sha /\ moved.checksum = bot.tree.checksum
      /\ moved.pin[Current] = latest
      /\ \A r \in Services : r # Current => moved.pin[r] = bot.tree.pin[r]
  <2> HIDE DEF latest
  <2> QED
    BY <1>1, <1>3, PinMoves
<1>8. /\ written \in BotStates /\ written.phase = bot.phase /\ written.todo = bot.todo
      /\ written.tree = moved /\ written.base = bot.base /\ written.failed = bot.failed
  <2>1. written = [seen EXCEPT !.tree = moved]
    BY <1>4 DEF BotStates
  <2> HIDE DEF seen, moved, written
  <2> QED
    BY <1>4, <1>7, <2>1 DEF BotStates
<1>9. /\ waiting \in BotStates /\ waiting.phase = "companion" /\ waiting.todo = bot.todo
      /\ waiting.tree = moved /\ waiting.base = bot.base /\ waiting.failed = bot.failed
  <2> HIDE DEF moved, written
  <2> QED
    BY <1>8 DEF BotStates
<1>10. ASSUME IsActionable(bot.tree, Current, latest) PROVE Rises(moved, bot.base)
  <2>1. latest > bot.tree.pin[Current]
    BY <1>10 DEF IsActionable, UpdateAvailable
  <2>2. \A s \in Services : bot.tree.pin[s] \in Nat /\ bot.base.pin[s] \in Nat
    BY <1>3 DEF Trees
  <2>3. \A s \in Services : bot.tree.pin[s] >= bot.base.pin[s]
    BY DEF BotInv, Rises
  <2> HIDE DEF moved, latest
  <2> QED
    BY <1>1, <1>3, <1>7, <2>1, <2>2, <2>3 DEF Rises
<1> HIDE DEF latest, seen, failed, written, waiting, moved
<1>11. CASE ~IsActionable(bot.tree, Current, latest)
  BY <1>1, <1>2, <1>4, <1>5, <1>11, AdvanceInv
<1>12. CASE IsActionable(bot.tree, Current, latest) /\ Current \in Digest
  BY <1>2, <1>6, <1>12, AdvanceInv
<1>13. CASE IsActionable(bot.tree, Current, latest) /\ Current \notin Digest /\ Current \in Computed
  <2>1. \/ "write" \in waiting.failed
        \/ ShasBut(waiting.tree, {Order[waiting.todo]})
    BY <1>1, <1>7, <1>9 DEF BotInv, ShasMatch, ShasBut, Current
  <2>2. BotInv(waiting)
    BY <1>1, <1>9, <1>10, <1>13, <2>1 DEF BotInv, Current
  <2> QED
    BY <1>2, <1>13, <2>2
<1>14. CASE IsActionable(bot.tree, Current, latest) /\ Current \notin Digest /\ Current \notin Computed
  <2>1. ShasMatch(moved) \/ "write" \in written.failed
    BY <1>1, <1>7, <1>8, <1>14 DEF BotInv, ShasMatch, ShasBut
  <2>2. BotInv(written)
    BY <1>1, <1>8, <1>10, <1>14, <2>1 DEF BotInv
  <2> QED
    BY <1>1, <1>2, <1>8, <1>14, <2>2, AdvanceInv
<1> QED
  BY <1>11, <1>12, <1>13, <1>14

\* and what stands beside it.
LEMMA CompanionInv ==
    ASSUME BotInv(bot), BotCompanion
    PROVE  BotInv(bot')
<1> DEFINE resolved == [bot EXCEPT !.phase = "write", !.tree.sha[Current] = bot.tree.pin[Current]]
           failed == [bot EXCEPT !.phase = "write", !.failed = @ \cup {"write"}]
<1>1. /\ bot.phase = "companion" /\ bot.todo # 0 /\ bot \in BotStates
      /\ Current \in Computed /\ bot.tree \in Trees
  BY DEF BotCompanion, BotInv, Current, BotStates
<1>2. bot' = Advance(resolved) \/ bot' = Advance(failed)
  BY DEF BotCompanion
<1>3. BotInv(failed) /\ failed.phase = "write" /\ failed.todo # 0
  <2>1. /\ failed \in BotStates /\ failed.phase = "write" /\ failed.todo = bot.todo
        /\ failed.tree = bot.tree /\ failed.base = bot.base /\ "write" \in failed.failed
    BY <1>1 DEF BotStates
  <2> HIDE DEF failed
  <2> QED
    BY <1>1, <2>1 DEF BotInv
<1>4. BotInv(resolved) /\ resolved.phase = "write" /\ resolved.todo # 0
  <2> DEFINE moved == [bot.tree EXCEPT !.sha[Current] = bot.tree.pin[Current]]
  <2>1. /\ moved \in Trees /\ moved.pin = bot.tree.pin
        /\ moved.sha[Current] = moved.pin[Current]
        /\ \A r \in Computed : r # Current => moved.sha[r] = bot.tree.sha[r]
    BY <1>1, ShaMoves
  <2>2. /\ resolved \in BotStates /\ resolved.phase = "write" /\ resolved.todo = bot.todo
        /\ resolved.tree = moved /\ resolved.base = bot.base /\ resolved.failed = bot.failed
    <3>1. resolved = [bot EXCEPT !.phase = "write", !.tree = moved]
      BY <1>1 DEF BotStates
    <3> HIDE DEF moved, resolved
    <3> QED
      BY <1>1, <2>1, <3>1 DEF BotStates
  <2> HIDE DEF moved, resolved
  <2>3. ShasMatch(moved) \/ "write" \in resolved.failed
    BY <1>1, <2>1, <2>2 DEF BotInv, ShasMatch, ShasBut, Current
  <2> QED
    BY <1>1, <2>1, <2>2, <2>3 DEF BotInv, Rises
<1> HIDE DEF resolved, failed
<1> QED
  BY <1>2, <1>3, <1>4, AdvanceInv

\* A bot that rests holds nothing that is out of order.
LEMMA IdleInv == BotInv(Idle)
<1>1. Idle \in BotStates
  BY FirstMatches DEF Idle, BotStates, Unknown
<1>2. Rises(First, First)
  BY DEF Rises, First
<1> QED
  BY <1>1, <1>2, FirstMatches DEF BotInv, Idle

-----------------------------------------------------------------------------
(* The invariant. *)

\* The operator's checkout: the same, with no failure passed on.
OpInv(o) ==
    /\ o \in Checkouts
    /\ o.phase = "companion" => o.service \in Computed
    /\ Matches(o.base) /\ Rises(o.tree, o.base)
    /\ o.phase \in {"idle", "ok"} => ShasMatch(o.tree)
    /\ o.phase = "companion" => ShasBut(o.tree, {o.service})

\* A request: the shas of its tree match; a person sees to its checksums.
RequestInv(m) ==
    /\ m \in Requests
    /\ Matches(m.base) /\ Rises(m.tree, m.base)
    /\ ShasMatch(m.tree)

\* The inductive invariant.
Inv ==
    /\ upstream \in [Services -> 1..Max] /\ faults \in 0..MaxFaults
    /\ main \in Trees /\ Matches(main)
    /\ BotInv(bot)
    /\ OpInv(op)
    /\ \A m \in mr : RequestInv(m)

\* It holds at the start.
LEMMA InitInv == Init => Inv
<1> SUFFICES ASSUME Init PROVE Inv
  OBVIOUS
<1>1. Rises(First, First)
  BY DEF Rises, First
<1>2. Order[1] \in Services
  BY DEF Services
<1>3. OpInv(op)
  BY <1>1, <1>2, FirstMatches DEF Init, OpInv, Checkouts, Matches
<1>4. upstream \in [Services -> 1..Max] /\ faults \in 0..MaxFaults
  BY DEF Init
<1> QED
  BY <1>3, <1>4, IdleInv, FirstMatches DEF Init, Inv

\* A tree that only rises rises above itself least of all.
LEMMA SameRises == ASSUME NEW t \in Trees PROVE Rises(t, t)
BY DEF Rises, Trees

\* Every step of the bot keeps it.
LEMMA BotStepInv == ASSUME Inv, BotStep PROVE Inv'
<1> SUFFICES BotInv(bot') /\ (\A m \in mr' : RequestInv(m)) /\ faults' \in 0..MaxFaults
             /\ UNCHANGED <<upstream, main, op>>
  BY DEF Inv
<1>1. CASE BotStart
  <2>1. bot' = [phase |-> "fetch", todo |-> 1, found |-> [s \in Services |-> Unknown],
                failed |-> {}, tree |-> main, base |-> main]
    BY <1>1 DEF BotStart
  <2>2. Len(Order) \in Nat \ {0} /\ main \in Trees /\ Matches(main)
    BY DEF Inv
  <2>3. bot' \in BotStates
    <3>1. 1 \in 0..Len(Order) /\ [s \in Services |-> Unknown] \in [Services -> 0..Max]
      BY <2>2 DEF Unknown
    <3> HIDE DEF Unknown
    <3> QED
      BY <2>1, <2>2, <3>1 DEF BotStates
  <2>4. BotInv(bot')
    BY <2>1, <2>2, <2>3, SameRises DEF BotInv, Matches
  <2> QED
    BY <1>1, <2>4 DEF BotStart, Inv
<1>2. CASE BotFetch
  <2>1. BotInv(bot')
    BY <1>2, FetchInv DEF Inv
  <2>2. faults' \in 0..MaxFaults
    BY <1>2 DEF BotFetch, Inv
  <2> QED
    BY <1>2, <2>1, <2>2 DEF BotFetch, Inv
<1>3. CASE BotWrite
  BY <1>3, WriteInv DEF BotWrite, Inv
<1>4. CASE BotCompanion
  <2>1. BotInv(bot')
    BY <1>4, CompanionInv DEF Inv
  <2>2. faults' \in 0..MaxFaults
    BY <1>4 DEF BotCompanion, Inv
  <2> QED
    BY <1>4, <2>1, <2>2 DEF BotCompanion, Inv
<1>5. CASE BotFinish
  <2>1. /\ bot.phase = "write" /\ bot' = Idle
        /\ mr' = IF UpdateAllFailed(bot) THEN mr
                 ELSE IF bot.tree = bot.base THEN {} ELSE {[tree |-> bot.tree, base |-> bot.base]}
    BY <1>5 DEF BotFinish
  <2>2. ASSUME ~UpdateAllFailed(bot) PROVE RequestInv([tree |-> bot.tree, base |-> bot.base])
    <3>1. bot.failed = {}
      BY <2>2 DEF UpdateAllFailed
    <3> QED
      BY <2>1, <3>1 DEF Inv, BotInv, BotStates, RequestInv, Requests
  <2>3. \A m \in mr' : RequestInv(m)
    BY <2>1, <2>2 DEF Inv
  <2> QED
    BY <1>5, <2>1, <2>3, IdleInv DEF BotFinish, Inv
<1> QED
  BY <1>1, <1>2, <1>3, <1>4, <1>5 DEF BotStep

\* The operator's command is the bot's, for one service.
LEMMA OpUpdateInv == ASSUME Inv, NEW s \in Services, OpUpdate(s) PROVE OpInv(op')
<1>1. /\ op \in Checkouts /\ op.tree \in Trees /\ op.base \in Trees
      /\ op.phase \in {"idle", "ok"} \cup (IF Discards THEN {} ELSE {"failed"})
      /\ OpInv(op) /\ upstream[s] \in 0..Max
  BY DEF OpUpdate, Ready, Inv, OpInv, Checkouts
<1>2. Matches(op.base) /\ Rises(op.tree, op.base) /\ ShasMatch(op.tree)
  BY <1>1 DEF OpInv, ShasMatch, ShasBut
<1>3. PICK latest \in {Unknown, upstream[s]} :
        op' = IF latest = Unknown THEN [op EXCEPT !.phase = "failed"]
              ELSE IF ~IsActionable(op.tree, s, latest) THEN [op EXCEPT !.phase = "ok"]
              ELSE IF s \in Digest THEN [op EXCEPT !.phase = "failed"]
              ELSE [op EXCEPT !.tree.pin[s] = latest, !.service = IF s \in Computed THEN s ELSE @,
                              !.phase = IF s \in Computed THEN "companion" ELSE "ok"]
  BY DEF OpUpdate
<1>4. ASSUME NEW ph \in {"ok", "failed"}, op' = [op EXCEPT !.phase = ph] PROVE OpInv(op')
  <2>1. /\ op' \in Checkouts /\ op'.phase = ph /\ op'.tree = op.tree /\ op'.base = op.base
    BY <1>1, <1>4 DEF Checkouts
  <2> QED
    BY <1>2, <2>1 DEF OpInv
<1>5. CASE latest # Unknown /\ IsActionable(op.tree, s, latest) /\ s \notin Digest
  <2> DEFINE moved == [op.tree EXCEPT !.pin[s] = latest]
             sv == IF s \in Computed THEN s ELSE op.service
             ph == IF s \in Computed THEN "companion" ELSE "ok"
  <2>1. latest \in 0..Max
    BY <1>1 DEF Unknown
  <2>2. /\ moved \in Trees /\ moved.sha = op.tree.sha /\ moved.pin[s] = latest
        /\ \A r \in Services : r # s => moved.pin[r] = op.tree.pin[r]
    BY <1>1, <2>1, PinMoves
  <2>3. op' = [op EXCEPT !.tree = moved, !.service = sv, !.phase = ph]
    BY <1>1, <1>3, <1>5 DEF Checkouts
  <2>4. sv \in Services /\ ph \in {"companion", "ok"}
        /\ (ph = "companion" => sv = s /\ s \in Computed) /\ (ph = "ok" => s \notin Computed)
    BY <1>1 DEF Checkouts
  <2>5. Rises(moved, op.base)
    <3>1. latest > op.tree.pin[s]
      BY <1>5 DEF IsActionable, UpdateAvailable
    <3>2. \A r \in Services : op.tree.pin[r] \in Nat /\ op.base.pin[r] \in Nat
      BY <1>1 DEF Trees
    <3> HIDE DEF moved
    <3> QED
      BY <1>2, <2>1, <2>2, <3>1, <3>2 DEF Rises
  <2> HIDE DEF moved, sv, ph
  <2>6. /\ op' \in Checkouts /\ op'.phase = ph /\ op'.tree = moved /\ op'.base = op.base
        /\ op'.service = sv
    BY <1>1, <2>2, <2>3, <2>4 DEF Checkouts
  <2>7. /\ ph = "ok" => ShasMatch(moved)
        /\ ph = "companion" => ShasBut(moved, {s})
    BY <1>2, <2>2, <2>4 DEF ShasMatch, ShasBut
  <2> QED
    BY <1>2, <2>4, <2>5, <2>6, <2>7 DEF OpInv
<1> QED
  BY <1>3, <1>4, <1>5

\* The operator recomputes a sha,
LEMMA OpCompanionInv == ASSUME Inv, OpCompanion PROVE OpInv(op')
<1>1. /\ op \in Checkouts /\ op.tree \in Trees /\ op.base \in Trees
      /\ op.phase = "companion" /\ op.service \in Computed /\ OpInv(op)
  BY DEF OpCompanion, Inv, OpInv, Checkouts
<1>2. Order[1] \in Services
  BY DEF Services
<1> DEFINE moved == [op.tree EXCEPT !.sha[op.service] = op.tree.pin[op.service]]
<1>3. /\ moved \in Trees /\ moved.pin = op.tree.pin
      /\ moved.sha[op.service] = moved.pin[op.service]
      /\ \A r \in Computed : r # op.service => moved.sha[r] = op.tree.sha[r]
  BY <1>1, ShaMoves
<1>4. CASE op' = [op EXCEPT !.phase = "ok", !.tree.sha[op.service] = op.tree.pin[op.service],
                            !.service = Order[1]]
  <2>1. op' = [op EXCEPT !.phase = "ok", !.tree = moved, !.service = Order[1]]
    BY <1>1, <1>4 DEF Checkouts
  <2> HIDE DEF moved
  <2>2. /\ op' \in Checkouts /\ op'.phase = "ok" /\ op'.tree = moved /\ op'.base = op.base
    BY <1>1, <1>2, <1>3, <2>1 DEF Checkouts
  <2>3. ShasMatch(moved) /\ Rises(moved, op.base)
    BY <1>1, <1>3 DEF OpInv, ShasMatch, ShasBut, Rises
  <2> QED
    BY <1>1, <2>2, <2>3 DEF OpInv
<1>5. CASE op' = [op EXCEPT !.phase = "failed", !.service = Order[1]]
  <2>1. /\ op' \in Checkouts /\ op'.phase = "failed" /\ op'.tree = op.tree /\ op'.base = op.base
    BY <1>1, <1>2, <1>5 DEF Checkouts
  <2> QED
    BY <1>1, <2>1 DEF OpInv
<1> QED
  BY <1>4, <1>5 DEF OpCompanion

\* or a checksum.
LEMMA OpChecksumInv == ASSUME Inv, NEW s \in Hashed, OpChecksum(s) PROVE OpInv(op')
<1>1. /\ op \in Checkouts /\ op.tree \in Trees /\ op.phase = "ok" /\ OpInv(op)
      /\ op' = [op EXCEPT !.tree.checksum[s] = op.tree.pin[s]]
  BY DEF OpChecksum, Inv, OpInv, Checkouts
<1> DEFINE moved == [op.tree EXCEPT !.checksum[s] = op.tree.pin[s]]
<1>2. moved \in Trees /\ moved.pin = op.tree.pin /\ moved.sha = op.tree.sha
  BY <1>1, ChecksumMoves
<1>3. op' = [op EXCEPT !.tree = moved]
  BY <1>1 DEF Checkouts
<1> HIDE DEF moved
<1>4. op' \in Checkouts /\ op'.phase = "ok" /\ op'.tree = moved /\ op'.base = op.base
  BY <1>1, <1>2, <1>3 DEF Checkouts
<1> QED
  BY <1>1, <1>2, <1>4 DEF OpInv, ShasMatch, ShasBut, Rises

\* A checkout of the present main.
LEMMA FreshCheckout ==
    ASSUME NEW t \in Trees, Matches(t), OpInv(op), op' = [op EXCEPT !.phase = "idle", !.tree = t, !.base = t]
    PROVE  OpInv(op')
<1>1. op' \in Checkouts /\ op'.phase = "idle" /\ op'.tree = t /\ op'.base = t
  BY DEF OpInv, Checkouts
<1> QED
  BY <1>1, SameRises DEF OpInv, Matches

\* Upstreams, humans and merges keep it.
LEMMA OtherStepInv ==
    ASSUME Inv, \/ Merge \/ OpMerge \/ OpPull
                \/ \E s \in Services : Publish(s)
                \/ \E s \in Hashed : FixChecksum(s)
                \/ \E s \in Digest : RewriteDigest(s)
    PROVE  Inv'
<1>1. /\ main \in Trees /\ Matches(main) /\ OpInv(op) /\ upstream \in [Services -> 1..Max]
      /\ \A m \in mr : m.tree \in Trees /\ m.base \in Trees /\ RequestInv(m)
  BY DEF Inv, RequestInv, Requests
<1>2. CASE Merge
  <2>1. PICK m \in mr : Mergeable(m.tree, m.base) /\ main' = Merged(m.tree, m.base)
    BY <1>2 DEF Merge
  <2>2. Matches(m.tree)
    BY <1>1, <2>1 DEF Mergeable, RequestInv, Matches
  <2>3. main' \in Trees /\ Matches(main')
    BY <1>1, <2>1, <2>2, MergedTree, MergeMatches DEF RequestInv
  <2> QED
    BY <1>2, <2>3 DEF Merge, Inv
<1>3. CASE OpMerge
  <2>1. /\ op.phase = "ok" /\ Mergeable(op.tree, op.base) /\ main' = Merged(op.tree, op.base)
        /\ op' = [op EXCEPT !.phase = "idle", !.tree = main', !.base = main']
    BY <1>3 DEF OpMerge
  <2>2. op.tree \in Trees /\ op.base \in Trees /\ Matches(op.tree) /\ Matches(op.base)
    BY <1>1, <2>1 DEF Mergeable, OpInv, Checkouts, Matches
  <2>3. main' \in Trees /\ Matches(main')
    BY <1>1, <2>1, <2>2, MergedTree, MergeMatches
  <2>4. OpInv(op')
    BY <1>1, <2>1, <2>3, FreshCheckout
  <2> QED
    BY <1>3, <2>3, <2>4 DEF OpMerge, Inv
<1>4. CASE OpPull
  <2>1. OpInv(op')
    BY <1>1, <1>4, FreshCheckout DEF OpPull
  <2> QED
    BY <1>4, <2>1 DEF OpPull, Inv
<1>5. ASSUME NEW s \in Services, Publish(s) PROVE Inv'
  <2>1. upstream' \in [Services -> 1..Max]
    BY <1>1, <1>5 DEF Publish
  <2> QED
    BY <1>5, <2>1 DEF Publish, Inv
<1>6. ASSUME NEW s \in Hashed, FixChecksum(s) PROVE Inv'
  <2>1. PICK m \in mr : mr' = {[m EXCEPT !.tree.checksum[s] = m.tree.pin[s]]}
    BY <1>6 DEF FixChecksum
  <2> DEFINE moved == [m.tree EXCEPT !.checksum[s] = m.tree.pin[s]]
             fixed == [m EXCEPT !.tree.checksum[s] = m.tree.pin[s]]
  <2>2. moved \in Trees /\ moved.pin = m.tree.pin /\ moved.sha = m.tree.sha
    BY <1>1, ChecksumMoves
  <2>3. fixed = [m EXCEPT !.tree = moved] /\ m \in Requests
    BY <1>1 DEF RequestInv, Requests
  <2>4. fixed \in Requests /\ fixed.tree = moved /\ fixed.base = m.base
    <3> HIDE DEF moved, fixed
    <3> QED
      BY <2>2, <2>3 DEF Requests
  <2> HIDE DEF moved
  <2>5. RequestInv(fixed)
    <3> HIDE DEF fixed
    <3> QED
      BY <1>1, <2>2, <2>4 DEF RequestInv, ShasMatch, ShasBut, Rises
  <2> QED
    BY <1>6, <2>1, <2>5 DEF FixChecksum, Inv
<1>7. ASSUME NEW s \in Digest, RewriteDigest(s) PROVE Inv'
  <2>1. main' = [main EXCEPT !.pin[s] = upstream[s]] /\ s \in Services /\ upstream[s] \in 0..Max
    BY <1>1, <1>7 DEF RewriteDigest
  <2>2. /\ main' \in Trees /\ main'.sha = main.sha /\ main'.checksum = main.checksum
        /\ \A r \in Services : r # s => main'.pin[r] = main.pin[r]
    BY <1>1, <2>1, PinMoves
  <2>3. Matches(main')
    BY <1>1, <1>7, <2>2 DEF Matches, ShasMatch, ShasBut, ChecksumsHold
  <2> QED
    BY <1>7, <2>2, <2>3 DEF RewriteDigest, Inv
<1> QED
  BY <1>2, <1>3, <1>4, <1>5, <1>6, <1>7

\* Inv is an invariant.
LEMMA Invariance == Spec => []Inv
<1>1. Inv /\ [Next]_vars => Inv'
  <2> SUFFICES ASSUME Inv, [Next]_vars PROVE Inv'
    OBVIOUS
  <2>1. CASE BotStep
    BY <2>1, BotStepInv
  <2>2. ASSUME NEW s \in Services, OpUpdate(s) PROVE Inv'
    BY <2>2, OpUpdateInv DEF OpUpdate, Inv
  <2>3. CASE OpCompanion
    BY <2>3, OpCompanionInv DEF OpCompanion, Inv
  <2>4. ASSUME NEW s \in Hashed, OpChecksum(s) PROVE Inv'
    BY <2>4, OpChecksumInv DEF OpChecksum, Inv
  <2>5. CASE UNCHANGED vars
    BY <2>5 DEF vars, Inv
  <2> QED
    BY <2>1, <2>2, <2>3, <2>4, <2>5, OtherStepInv DEF Next
<1> QED
  BY <1>1, InitInv, PTL DEF Spec

-----------------------------------------------------------------------------

\* Every pin, digest, sha and checksum is a version, in every state.
THEOREM TypeCorrect == Spec => []TypeOK
<1>1. Inv => TypeOK
  <2> SUFFICES ASSUME Inv PROVE TypeOK
    OBVIOUS
  <2>1. /\ bot.phase \in {"idle", "fetch", "write", "companion"} /\ bot.todo \in 0..Len(Order)
        /\ bot.found \in [Services -> 0..Max] /\ bot.failed \subseteq {"lookup", "write"}
        /\ bot.tree \in Trees /\ bot.base \in Trees
    BY DEF Inv, BotInv, BotStates
  <2>2. \A m \in mr : m.tree \in Trees /\ m.base \in Trees
    BY DEF Inv, RequestInv, Requests
  <2>3. /\ op.phase \in {"idle", "companion", "ok", "failed"}
        /\ op.tree \in Trees /\ op.base \in Trees
    BY DEF Inv, OpInv, Checkouts
  <2> QED
    BY <2>1, <2>2, <2>3 DEF Inv, TypeOK
<1> QED
  BY <1>1, Invariance, PTL

\* The gate sees each side of a merge and never its result, which is in order
\* all the same, whatever the operator does with a failed command.
THEOREM ChecksumsStay == Spec => []ChecksumsMatch
<1>1. Inv => ChecksumsMatch
  BY DEF Inv, Matches, ChecksumsMatch
<1> QED
  BY <1>1, Invariance, PTL

\* What stands beside a pin on main is of its version, if the operator drops
\* what a failed command leaves behind.
THEOREM MainStaysInOrder ==
    ASSUME Discards
    PROVE  Spec => []MainMatches
<1>1. Inv => CompanionsMatch
  BY DEF Inv, Matches, ShasMatch, ShasBut, CompanionsMatch
<1>2. Spec => []CompanionsMatch
  BY <1>1, Invariance, PTL
<1> QED
  BY <1>2, TypeCorrect, ChecksumsStay, PTL DEF MainMatches

\* No pin on main goes back, whatever the mirrors answer and whoever merges
\* first.
THEOREM PinsRise == Spec => PinsOnlyRise
<1>1. Inv /\ [Next]_vars => [\A s \in Services : main.pin[s]' >= main.pin[s]]_main
  <2> SUFFICES ASSUME Inv, Next, main' # main, NEW s \in Services
               PROVE  main'.pin[s] >= main.pin[s]
    BY DEF vars
  <2>1. main \in Trees /\ main.pin[s] \in Nat
    BY DEF Inv, Trees
  <2>2. CASE Merge
    <3>1. PICK m \in mr : Mergeable(m.tree, m.base) /\ main' = Merged(m.tree, m.base)
      BY <2>2 DEF Merge
    <3> QED
      BY <2>1, <3>1, MergeRises DEF Inv, RequestInv, Requests, Mergeable
  <2>3. CASE OpMerge
    BY <2>1, <2>3, MergeRises DEF OpMerge, Inv, OpInv, Checkouts, Mergeable
  <2>4. ASSUME NEW r \in Digest, RewriteDigest(r) PROVE main'.pin[s] >= main.pin[s]
    <3>1. main' = [main EXCEPT !.pin[r] = upstream[r]] /\ upstream[r] > main.pin[r]
      BY <2>4 DEF RewriteDigest
    <3>2. r \in Services /\ upstream[r] \in 0..Max /\ main.pin[r] \in Nat
      BY <2>1 DEF Inv, Trees
    <3>3. main.pin \in [Services -> 0..Max]
      BY <2>1 DEF Trees
    <3>4. main'.pin = [main.pin EXCEPT ![r] = upstream[r]]
      BY <2>1, <3>1 DEF Trees
    <3>5. main'.pin[r] = upstream[r] /\ (s # r => main'.pin[s] = main.pin[s])
      BY <3>2, <3>3, <3>4
    <3> QED
      BY <2>1, <3>1, <3>2, <3>5
  <2> QED
    BY <2>2, <2>3, <2>4
    DEF Next, BotStep, BotStart, BotFetch, BotWrite, BotCompanion, BotFinish, OpUpdate,
        OpCompanion, OpPull, OpChecksum, Publish, FixChecksum
<1> QED
  BY <1>1, Invariance, PTL DEF Spec, PinsOnlyRise
=============================================================================
