---------------------------- MODULE RunnerReaper ----------------------------
(***************************************************************************)
(* The GitLab runner reaper: a CronJob that deletes leaked executor pods   *)
(* and their per-job dockercfg Secrets while the runner managers keep      *)
(* starting, finishing and cleaning up jobs.                               *)
(*                                                                         *)
(* Reaper and managers share only the Kubernetes API.  A list is one       *)
(* consistent snapshot read page by page; everything decided from it may   *)
(* be stale by the time a DELETE is sent.  Times are minutes.              *)
(***************************************************************************)
EXTENDS NamespaceRotation, FiniteSets

CONSTANTS
    Names,          \* names pods and Secrets go by (ordered, as lists are)
    JobNames,       \* the names runner managers give to jobs
    ExecNames,      \* the names of executor shape (is_executor_name)
    Labelled,       \* the names whose pods carry the runner-class label
    Namespaces,     \* the sequence NAMESPACES of the CronJob
    NsOf,           \* the namespace each name lives in
    MaxAge,         \* MAX_AGE_MINUTES
    MaxSecretAge,   \* MAX_SECRET_AGE_MINUTES
    RotatePeriod,   \* ROTATE_PERIOD_SECONDS, in minutes
    Budget,         \* BUDGET_SECONDS, in units of CallCosts
    CallCosts,      \* what one API call may take, up to API_TIMEOUT_SECONDS
    PageSize,       \* PAGE_LIMIT
    MaxPrep,        \* longest time between creating a Secret and its pod
    MaxSkew,        \* reaper clock against the clocks that stamp objects
    MaxClock,       \* bound: the last instant explored
    MaxGen,         \* bound: how often a name is used
    ElapsedCap      \* bound: elapsed time is not counted beyond it

ASSUME NamesAssumption ==
    /\ Names \subseteq Nat
    /\ ExecNames \subseteq Names /\ Labelled \subseteq Names
    /\ JobNames = ExecNames \cap Labelled
    /\ NsOf \in [Names -> {Namespaces[i] : i \in 1..Len(Namespaces)}]
    /\ Namespaces \in Seq(STRING) /\ Namespaces # << >>   \* load_config refuses none

ASSUME TimesAssumption ==
    /\ MaxAge \in Nat \ {0} /\ MaxSecretAge \in Nat \ {0}
    /\ RotatePeriod \in Nat \ {0} /\ PageSize \in Nat \ {0}
    /\ Budget \in Nat /\ CallCosts \subseteq Nat
    /\ MaxPrep \in Nat /\ MaxSkew \in Nat /\ MaxGen \in Nat \ {0}
    /\ MaxClock \in Nat /\ ElapsedCap \in Nat

\* The floor of MAX_SECRET_AGE_MINUTES: no job prepares for that long.
ASSUME GraceAssumption == MaxPrep + MaxSkew < MaxSecretAge

VARIABLES
    clock,      \* true time
    job,        \* job[n]: what the manager is doing under name n
    gen,        \* gen[n]: how many jobs have used name n
    pods,       \* the pods in the cluster
    secrets,    \* the dockercfg Secrets in the cluster
    pc,         \* "idle", "list" (a GET comes next) or "items" (in a page)
    now,        \* datetime.now() taken once, when the run starts
    todo,       \* the namespaces left, the current one first
    stage,      \* which list of the namespace is being worked on
    first,      \* the next GET carries no continue token
    rest,       \* the part of the listed snapshot not paged in yet
    page,       \* the items of the current page still to be looked at
    refs,       \* live_pod_refs so far: uids and pull-secret names
    elapsed,    \* time.monotonic() - start
    errs,       \* had_errors
    report,     \* how the last run ended
    due         \* history: what was reapable when the run started

cluster == <<clock, job, gen, pods, secrets>>
cursor == <<todo, stage, first, rest, page, refs>>
vars == <<cluster, pc, now, cursor, elapsed, errs, report, due>>

TerminalPhases == {"Succeeded", "Failed"}
Stages == {"Succeeded", "Failed", "refs", "secrets"}

\* A pod: its containers' known finishedAt stamps, whether a started
\* container has none that parses, and whether it pulls with its Secret.
Pod == [name : Names, uid : Nat, phase : {"Running"} \cup TerminalPhases,
        ends : SUBSET Nat, lost : BOOLEAN, pulls : BOOLEAN]
\* A Secret; owner is the uid of the pod in its ownerReferences, 0 for none.
Secret == [name : Names, uid : Nat, created : Nat, owner : Nat]

Foreign == Names \ JobNames

TypeOK ==
    /\ clock \in Nat
    /\ job \in [JobNames -> {"none", "preparing", "running"}]
    /\ gen \in [JobNames -> Nat]
    /\ pods \subseteq Pod
    /\ secrets \subseteq Secret
    /\ pc \in {"idle", "list", "items"}
    /\ now \in Int
    /\ todo \in Seq(STRING)
    /\ pc # "idle" => todo # << >>
    /\ stage \in Stages
    /\ first \in BOOLEAN
    /\ rest \subseteq Pod \cup Secret
    /\ page \subseteq Pod \cup Secret
    /\ refs \in [uids : SUBSET (Names \X Nat), pulls : SUBSET Names]
    /\ elapsed \in Nat
    /\ errs \in BOOLEAN
    /\ report \in {"none", "clean", "partial", "failed"}

-----------------------------------------------------------------------------
(* Guards of the program. *)

\* terminal_age_minutes(pod, now) >= MAX_AGE_MINUTES; None keeps the pod.
TerminalLongEnough(p, t) ==
    /\ ~p.lost
    /\ p.ends # {}
    /\ \A e \in p.ends : t - e >= MaxAge

OldEnough(s, t) == t - s.created >= MaxSecretAge

PodEligible(p, t) == p.name \in ExecNames /\ TerminalLongEnough(p, t)

\* secret_referenced
Referenced(s, r) == s.name \in r.pulls \/ <<s.name, s.owner>> \in r.uids

SecretEligible(s, r, t) ==
    /\ s.name \in ExecNames
    /\ ~Referenced(s, r)
    /\ OldEnough(s, t)

\* What live_pod_refs collects from the pods P.
RefsOf(P) == [uids |-> {<<p.name, p.uid>> : p \in P},
              pulls |-> {p.name : p \in {q \in P : q.pulls}}]
NoRefs == [uids |-> {}, pulls |-> {}]
MergeRefs(a, b) == [uids |-> a.uids \cup b.uids, pulls |-> a.pulls \cup b.pulls]

OverBudget == elapsed > Budget

\* Broken variant: no label selector.
ListedWithoutLabel(ns, st) ==
    IF st = "secrets" THEN {s \in secrets : NsOf[s.name] = ns}
    ELSE {p \in pods : NsOf[p.name] = ns /\ (st # "refs" => p.phase = st)}

\* The objects a list of the current stage selects on the server.
Listed(ns, st) ==
    IF st = "secrets" THEN {s \in secrets : NsOf[s.name] = ns}
    ELSE {p \in pods : /\ NsOf[p.name] = ns
                       /\ st # "refs" => p.name \in Labelled /\ p.phase = st}

\* The next page of a snapshot: lists are ordered by name.
PageOf(S) == {x \in S : Cardinality({y \in S : y.name < x.name}) < PageSize}

-----------------------------------------------------------------------------
(* Runner managers and the cluster (external). *)

\* Foreign names hold a long-finished pod and an unreferenced Secret: manager
\* pods, hand-made objects, whatever else lives in a runner namespace.
Init ==
    /\ clock = 0
    /\ job = [n \in JobNames |-> "none"]
    /\ gen = [n \in JobNames |-> 0]
    /\ pods = {[name |-> n, uid |-> 1, phase |-> "Succeeded", ends |-> {0},
                lost |-> FALSE, pulls |-> FALSE] : n \in Foreign}
    /\ secrets = {[name |-> n, uid |-> 1, created |-> 0, owner |-> 0] : n \in Foreign}
    /\ pc = "idle" /\ now = 0
    /\ todo = << >> /\ stage = "Succeeded" /\ first = TRUE
    /\ rest = {} /\ page = {} /\ refs = NoRefs
    /\ elapsed = 0 /\ errs = FALSE /\ report = "none" /\ due = {}

reaper == <<pc, now, cursor, elapsed, errs, report, due>>

\* Time passes; a manager that prepares a job has created the pod, or has
\* given up, before MaxPrep is over.
Tick ==
    /\ clock < MaxClock
    /\ \A n \in JobNames, s \in secrets :
          job[n] = "preparing" /\ s.name = n => clock < s.created + MaxPrep
    /\ clock' = clock + 1
    /\ UNCHANGED <<job, gen, pods, secrets, reaper>>

CreateSecret(n) ==
    /\ job[n] = "none" /\ gen[n] < MaxGen
    /\ \A x \in pods \cup secrets : x.name # n
    /\ gen' = [gen EXCEPT ![n] = @ + 1]
    /\ job' = [job EXCEPT ![n] = "preparing"]
    /\ secrets' = secrets \cup
          {[name |-> n, uid |-> gen[n] + 1, created |-> clock, owner |-> 0]}
    /\ UNCHANGED <<clock, pods, reaper>>

\* The pod uses the Secret through imagePullSecrets, or owns it.
CreatePod(n) ==
    /\ job[n] = "preparing"
    /\ job' = [job EXCEPT ![n] = "running"]
    /\ \E pulls \in BOOLEAN :
          /\ pods' = pods \cup
                {[name |-> n, uid |-> gen[n], phase |-> "Running", ends |-> {},
                  lost |-> FALSE, pulls |-> pulls]}
          /\ secrets' = {IF s.name = n /\ ~pulls THEN [s EXCEPT !.owner = gen[n]]
                                                 ELSE s : s \in secrets}
    /\ UNCHANGED <<clock, gen, reaper>>

\* The manager gives up, or dies: the Secret is left behind.
AbandonJob(n) ==
    /\ job[n] = "preparing"
    /\ job' = [job EXCEPT ![n] = "none"]
    /\ UNCHANGED <<clock, gen, pods, secrets, reaper>>

\* A container ends while others run on (at most one such stamp is kept).
ContainerEnds(p) ==
    /\ p.phase = "Running" /\ p.ends = {} /\ ~p.lost
    /\ \E q \in {[p EXCEPT !.ends = {clock}], [p EXCEPT !.lost = TRUE]} :
          pods' = (pods \ {p}) \cup {q}
    /\ UNCHANGED <<clock, job, gen, secrets, reaper>>

\* The pod reaches a terminal phase: its last container ends now, or never
\* started and leaves no stamp.
JobEnds(p) ==
    /\ p.phase = "Running" /\ p.name \in JobNames
    /\ \E phase \in TerminalPhases, ends \in {p.ends, p.ends \cup {clock}} :
          pods' = (pods \ {p}) \cup {[p EXCEPT !.phase = phase, !.ends = ends]}
    /\ job' = [job EXCEPT ![p.name] = "none"]
    /\ UNCHANGED <<clock, gen, secrets, reaper>>

\* Manager cleanup, eviction or garbage collection removes a job's pod; a
\* running job is lost with it.
PodRemoved(p) ==
    /\ p.name \in JobNames
    /\ pods' = pods \ {p}
    /\ job' = [job EXCEPT ![p.name] = IF p.phase = "Running" THEN "none" ELSE @]
    /\ UNCHANGED <<clock, gen, secrets, reaper>>

\* Manager cleanup or owner garbage collection removes a finished job's Secret.
SecretRemoved(s) ==
    /\ s.name \in JobNames /\ job[s.name] = "none"
    /\ secrets' = secrets \ {s}
    /\ UNCHANGED <<clock, job, gen, pods, reaper>>

Environment ==
    \/ Tick
    \/ \E n \in JobNames : CreateSecret(n) \/ CreatePod(n) \/ AbandonJob(n)
    \/ \E p \in pods : ContainerEnds(p) \/ JobEnds(p) \/ PodRemoved(p)
    \/ \E s \in secrets : SecretRemoved(s)

-----------------------------------------------------------------------------
(* The reaper. *)

\* An API call that takes c; a clock that has passed ElapsedCap stops there.
Spend ==
    \E c \in CallCosts :
        elapsed' = IF elapsed + c > ElapsedCap THEN ElapsedCap ELSE elapsed + c

\* What a sweep that starts at t has every reason to delete: labelled executor
\* pods long finished, old executor Secrets that no pod refers to.
ReapableAt(t) ==
    {<<"pod", p.name, p.uid>> :
        p \in {q \in pods : /\ q.phase \in TerminalPhases
                            /\ q.name \in Labelled
                            /\ PodEligible(q, t)}}
    \cup
    {<<"secret", s.name, s.uid>> :
        s \in {z \in secrets : /\ SecretEligible(z, RefsOf(pods), t)
                               /\ z.name \in JobNames => job[z.name] = "none"}}

\* concurrencyPolicy Forbid: one run at a time.  backoffLimit retries a failed
\* Job at once, so a run may start at any time after the last one ended.
StartRun ==
    /\ pc = "idle"
    /\ \E skew \in (-MaxSkew)..MaxSkew :
          /\ now' = clock + skew
          /\ todo' = RotateNamespaces(Namespaces, clock + skew, RotatePeriod)
          /\ due' = ReapableAt(clock + skew)
    /\ pc' = "list" /\ stage' = "Succeeded" /\ first' = TRUE
    /\ rest' = {} /\ page' = {} /\ refs' = NoRefs
    /\ elapsed' = 0 /\ errs' = FALSE /\ report' = "none"
    /\ UNCHANGED cluster

\* The exit of run(): 1 if anything failed; 0 on a clean or a budget stop.
EndRun(failed, partial) ==
    /\ pc' = "idle"
    /\ report' = IF failed THEN "failed" ELSE IF partial THEN "partial" ELSE "clean"
    /\ now' = 0 /\ todo' = << >> /\ stage' = "Succeeded" /\ first' = TRUE
    /\ rest' = {} /\ page' = {} /\ refs' = NoRefs /\ errs' = FALSE

\* On to the first GET of stage st of the current namespace.
GoToStage(st, r) ==
    /\ pc' = "list" /\ stage' = st /\ first' = TRUE
    /\ rest' = {} /\ page' = {} /\ refs' = r
    /\ UNCHANGED <<now, todo, report>>

NextNamespace(failed) ==
    IF Len(todo) = 1
    THEN EndRun(failed, FALSE)
    ELSE /\ pc' = "list" /\ stage' = "Succeeded" /\ first' = TRUE
         /\ rest' = {} /\ page' = {} /\ refs' = NoRefs
         /\ todo' = Tail(todo) /\ errs' = failed
         /\ UNCHANGED <<now, report>>

\* Broken variant: a failed list of live pods is taken for a complete one.
NextStagePartialRefs(failed) ==
    \/ stage = "Succeeded" /\ GoToStage("Failed", NoRefs) /\ errs' = failed
    \/ stage = "Failed" /\ GoToStage("refs", NoRefs) /\ errs' = failed
    \/ stage = "refs" /\ GoToStage("secrets", refs) /\ errs' = failed
    \/ stage = "secrets" /\ NextNamespace(failed)

\* The list of this stage is over, with or without an error.
NextStage(failed) ==
    \/ stage = "Succeeded" /\ GoToStage("Failed", NoRefs) /\ errs' = failed
    \/ stage = "Failed" /\ GoToStage("refs", NoRefs) /\ errs' = failed
    \/ stage \in {"refs", "secrets"} /\ NextNamespace(failed)

Snapshot == IF first THEN Listed(Head(todo), stage) ELSE rest

\* One page of terminal pods or of Secrets, items not looked at yet.
GetPage ==
    /\ pc = "list" /\ stage # "refs"
    /\ page' = PageOf(Snapshot) /\ rest' = Snapshot \ page'
    /\ pc' = "items" /\ first' = FALSE
    /\ Spend
    /\ UNCHANGED <<cluster, now, todo, stage, refs, errs, report, due>>

\* One page of live_pod_refs.  With pages unread and the budget spent, the run
\* stops: a partial set never feeds deletions.
GetRefsPage ==
    /\ pc = "list" /\ stage = "refs"
    /\ Spend
    /\ LET some == PageOf(Snapshot)
           more == Snapshot \ some
           seen == MergeRefs(refs, RefsOf(some))
       IN  \/ /\ more = {}
              /\ GoToStage("secrets", seen) /\ UNCHANGED errs
           \/ /\ more # {} /\ elapsed' > Budget
              /\ EndRun(errs, TRUE)
           \/ /\ more # {} /\ elapsed' <= Budget
              /\ refs' = seen /\ rest' = more /\ first' = FALSE
              /\ UNCHANGED <<pc, now, todo, stage, page, errs, report>>
    /\ UNCHANGED <<cluster, due>>

\* Broken variant: the error is not counted.
ListFailsSilently ==
    /\ pc = "list"
    /\ Spend
    /\ NextStage(errs)
    /\ UNCHANGED <<cluster, due>>

\* A URLError from a list or a later page: counted, and the list is given up.
ListFails ==
    /\ pc = "list"
    /\ Spend
    /\ NextStage(TRUE)
    /\ UNCHANGED <<cluster, due>>

\* The generator asks for the next page, or the list is exhausted.
PageDone ==
    /\ pc = "items" /\ page = {}
    /\ \/ /\ rest # {}
          /\ pc' = "list"
          /\ UNCHANGED <<now, cursor, errs, report>>
       \/ /\ rest = {}
          /\ NextStage(errs)
    /\ UNCHANGED <<cluster, elapsed, due>>

\* Looked at before every item.
BudgetStop ==
    /\ pc = "items" /\ page # {} /\ OverBudget
    /\ EndRun(errs, TRUE)
    /\ UNCHANGED <<cluster, elapsed, due>>

\* Broken variant: no look at the clock.
ItemUnbudgeted(x) == pc = "items" /\ \A y \in page : x.name <= y.name

\* The items of a page are taken in list order.
Item(x) == pc = "items" /\ ~OverBudget /\ \A y \in page : x.name <= y.name

Eligible(x) == IF stage = "secrets" THEN SecretEligible(x, refs, now)
                                    ELSE PodEligible(x, now)

\* SKIP and KEEP.
KeepItem(x) ==
    /\ Item(x) /\ ~Eligible(x)
    /\ page' = page \ {x}
    /\ UNCHANGED <<cluster, pc, now, todo, stage, first, rest, refs,
                   elapsed, errs, report, due>>

\* Broken variant: the object of that name, whichever it is.
SameName(x, y) == y.name = x.name

\* The API deletes the object of that name if it has the uid in preconditions;
\* 404 and 409 leave everything as it is.
Precondition(x, y) == y.name = x.name /\ y.uid = x.uid

RemoveItem(x) ==
    IF stage = "secrets"
    THEN /\ secrets' = {s \in secrets : ~Precondition(x, s)}
         /\ UNCHANGED pods
    ELSE /\ pods' = {p \in pods : ~Precondition(x, p)}
         /\ UNCHANGED secrets

\* DELETE and GONE.
DeleteItem(x) ==
    /\ Item(x) /\ Eligible(x)
    /\ RemoveItem(x)
    /\ page' = page \ {x}
    /\ Spend
    /\ UNCHANGED <<clock, job, gen, pc, now, todo, stage, first, rest, refs,
                   errs, report, due>>

\* Another HTTP status, or a URLError: the object may be gone all the same.
DeleteFails(x) ==
    /\ Item(x) /\ Eligible(x)
    /\ RemoveItem(x) \/ UNCHANGED <<pods, secrets>>
    /\ page' = page \ {x}
    /\ Spend
    /\ errs' = TRUE
    /\ UNCHANGED <<clock, job, gen, pc, now, todo, stage, first, rest, refs,
                   report, due>>

\* A raw TimeoutError or undecodable body, the deadline kill, a node failure.
Abort ==
    /\ pc # "idle"
    /\ EndRun(TRUE, FALSE)
    /\ UNCHANGED <<cluster, elapsed, due>>

Reaper ==
    \/ StartRun \/ GetPage \/ GetRefsPage \/ ListFails \/ PageDone \/ BudgetStop \/ Abort
    \/ \E x \in page : KeepItem(x) \/ DeleteItem(x) \/ DeleteFails(x)

Next == Environment \/ Reaper

Spec == Init /\ [][Next]_vars

-----------------------------------------------------------------------------
(* Properties. *)

\* The Secret of a job in flight is in the cluster, from before the pod is
\* created until the job is over: the sweep never takes the credentials of a
\* preparing or a running job, whatever it read and however stale that is
\* (README "structurally protects any in-flight job's Secret and closes the
\* create-Secret-then-create-pod race").
InFlightKeepsSecret ==
    \A n \in JobNames : job[n] # "none" =>
        \E s \in secrets : s.name = n /\ s.uid = gen[n]

\* A pod the sweep removes had ended, was an executor's, and none of its
\* containers ended within the grace period: a new pod under the name of one
\* listed earlier is never taken, nor is the pod of a long job that just ended.
SweepStep == pc # "idle" /\ page' # page
ReapsOnlyStalePods ==
    [][SweepStep => \A p \in pods \ pods' :
          /\ p.name \in JobNames
          /\ p.phase \in TerminalPhases
          /\ \A e \in p.ends : clock - e >= MaxAge - MaxSkew]_vars

\* A run that exits 0 without a budget stop left nothing behind that it had
\* to delete when it started: no list, page or delete error, and no item
\* passed over, hides behind a clean report.
CleanSweepLeavesNoLeak ==
    report = "clean" =>
        /\ \A p \in pods : <<"pod", p.name, p.uid>> \notin due
        /\ \A s \in secrets : <<"secret", s.name, s.uid>> \notin due

\* How late the soft stop may be: not by the one API timeout cronjob.yaml counts
\* on.  Lists that return nothing never look at the clock, and a run in which
\* they all do makes four of them per namespace; and the DELETE that reaches the
\* budget may empty its page, after which the next page and all later lists are
\* still fetched: one call more.  T is the longest call.
SoftStopBound ==
    \A T \in CallCosts : (\A c \in CallCosts : c <= T) =>
        elapsed <= Budget + (4 * Len(Namespaces) + 1) * T

-----------------------------------------------------------------------------
(* The reaper implements LeakCollector. *)

LiveObjects ==
    {<<"pod", p.name, p.uid>> :
        p \in {q \in pods : q.name \in Foreign \/ q.phase = "Running"}}
    \cup
    {<<"secret", s.name, s.uid>> :
        s \in {z \in secrets : IF z.name \in JobNames
                               THEN job[z.name] # "none"
                               ELSE z.name \notin ExecNames}}

AllObjects ==
    {<<"pod", p.name, p.uid>> : p \in pods} \cup
    {<<"secret", s.name, s.uid>> : s \in secrets}

Collector == INSTANCE LeakCollector WITH
    live    <- LiveObjects,
    leaked  <- AllObjects \ LiveObjects,
    Objects <- {"pod", "secret"} \X Names \X (1..MaxGen),
    Initial <- {<<"pod", n, 1>> : n \in Foreign} \cup
               {<<"secret", n, 1>> : n \in Foreign \ ExecNames}

\* Runner managers, cluster and reaper together create, release, lose and
\* collect as LeakCollector allows: nothing in use is ever collected, and
\* nothing that belongs to no job is touched.
CollectsOnlyLeaks == Collector!Spec

=============================================================================
