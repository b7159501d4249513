---------------------------- MODULE RebootRouting ----------------------------
(***************************************************************************)
(* How a maintenance run routes the pending reboot of each Proxmox host:   *)
(* in place, by a detached timer, or deferred to an operator.  The run may *)
(* itself be a CI job whose executor pod lives on one of those hosts, and  *)
(* finds out where only by asking the cluster.                             *)
(***************************************************************************)
EXTENDS Naturals, Sequences, FiniteSets

CONSTANTS
    Hosts,      \* the hosts of the play, in inventory order
    Nodes,      \* the k3s nodes
    HostOf,     \* the host each node's VM runs on
    Known,      \* the nodes whose proxmox_host the inventory gives
    EtcdNodes,  \* the nodes in k3s_servers
    Autostart,  \* the nodes with proxmox_autostart_enabled, at first
    Safe,       \* the hosts with proxmox_self_reboot_safe, at first
    Cleared,    \* the hosts in base_managed or app_servers
    Nobody,     \* no node
    Retries,    \* of the executor's lookup (3)
    MaxRuns,    \* bound: maintenance runs
    MaxNeeds,   \* bound: package upgrades that need a reboot
    MaxMarks    \* bound: changes of the two marks above

HostSet == {Hosts[i] : i \in 1..Len(Hosts)}

ASSUME InventoryAssumption ==
    /\ Hosts \in Seq(HostSet)
    /\ \A i, j \in 1..Len(Hosts) : Hosts[i] = Hosts[j] => i = j
    /\ HostOf \in [Nodes -> HostSet]
    /\ Known \subseteq Nodes /\ EtcdNodes \subseteq Known
    /\ Autostart \subseteq Nodes /\ Safe \subseteq HostSet /\ Cleared \subseteq HostSet
    /\ Nobody \notin Nodes
    /\ Retries \in Nat /\ MaxRuns \in Nat /\ MaxNeeds \in Nat /\ MaxMarks \in Nat

VARIABLES
    safe,       \* the hosts marked proxmox_self_reboot_safe
    autostart,  \* the nodes marked proxmox_autostart_enabled
    marks,      \* how often a mark was changed
    needs,      \* the hosts with a new kernel or /var/run/reboot-required
    upgrades,   \* how often a host came to need a reboot
    timer,      \* the hosts with maintenance-self-reboot.timer armed
    metric,     \* the hosts that publish maintenance_reboot_deferred
    runs,       \* runs started
    runner,     \* where the run executes: the node of its pod, or Nobody
    named,      \* HOSTNAME looks like an executor pod's name
    pc,         \* the next task for the current host
    todo,       \* the hosts left, the current one first
    required,   \* reboot_required of the current host
    tries,      \* lookups that failed
    asked,      \* rc = 0, and the nodeName the lookup printed
    outcome,    \* how the last run ended
    seen,       \* history: hosts found to need a reboot and not rebooted since
    deferred,   \* history: the hosts this run deferred
    stuck,      \* history: the hosts whose metric this run failed to remove
    remarked    \* history: the hosts whose marks changed under an armed timer

inventory == <<safe, autostart, marks>>
world == <<needs, upgrades, timer, metric>>
job == <<runs, runner, named>>
facts == <<required, tries, asked>>
vars == <<inventory, world, job, pc, todo, facts, outcome, seen, deferred, stuck, remarked>>

InK8s == runner # Nobody
Target == Head(todo)
NotAsked == [ok |-> FALSE, node |-> Nobody]

TypeOK ==
    /\ safe \subseteq HostSet /\ autostart \subseteq Nodes /\ marks \in Nat
    /\ needs \subseteq HostSet /\ timer \subseteq HostSet /\ metric \subseteq HostSet
    /\ upgrades \in Nat /\ runs \in Nat
    /\ runner \in Nodes \cup {Nobody} /\ named \in BOOLEAN
    /\ pc \in {"idle", "detect", "lookup", "act", "clear"}
    /\ todo \in Seq(HostSet)
    /\ required \in BOOLEAN /\ tries \in 0..Retries
    /\ asked \in [ok : BOOLEAN, node : Nodes \cup {Nobody}]
    /\ outcome \in {"none", "ok", "failed"}
    /\ seen \subseteq HostSet /\ deferred \subseteq HostSet
    /\ stuck \subseteq HostSet /\ remarked \subseteq HostSet

Init ==
    /\ safe = Safe /\ autostart = Autostart /\ marks = 0
    /\ needs = {} /\ upgrades = 0 /\ timer = {} /\ metric = {}
    /\ runs = 0 /\ runner = Nobody /\ named = FALSE
    /\ pc = "idle" /\ todo = << >>
    /\ required = FALSE /\ tries = 0 /\ asked = NotAsked
    /\ outcome = "none" /\ seen = {} /\ deferred = {} /\ stuck = {} /\ remarked = {}

-----------------------------------------------------------------------------
(* The routing facts. *)

OnHost(h) == {n \in Known : HostOf[n] = h}
HostRunsEtcdServer(h) == OnHost(h) \cap EtcdNodes # {}
HostVmsAutostart(h) == OnHost(h) \subseteq autostart
IsCiSelfHost(h) == asked.node \in OnHost(h)

\* Broken variant: only the lookup's own failure counts.
LookupFailed == InK8s /\ ~asked.ok
\* In the cluster, and the executor's host not proven.
CiDetectionFailed ==
    InK8s /\ (~named \/ ~asked.ok \/ asked.node \notin Known)

RebootAction(h) ==
    IF \/ h \notin safe
       \/ CiDetectionFailed
       \/ IsCiSelfHost(h) /\ HostRunsEtcdServer(h)
       \/ IsCiSelfHost(h) /\ ~HostVmsAutostart(h)
    THEN "defer"
    ELSE IF IsCiSelfHost(h) THEN "detached" ELSE "synchronous"

-----------------------------------------------------------------------------
(* A run, host after host. *)

\* By hand, or as a CI job; HOSTNAME may also be overridden in the pod.
StartRun ==
    /\ pc = "idle" /\ runs < MaxRuns
    /\ runs' = runs + 1
    /\ runner' \in Nodes \cup {Nobody}
    /\ named' \in {FALSE} \cup {x \in BOOLEAN : runner' # Nobody}
    /\ pc' = "detect" /\ todo' = Hosts
    /\ outcome' = "none" /\ deferred' = {} /\ stuck' = {}
    /\ UNCHANGED <<inventory, world, facts, seen, remarked>>

EndRun(how) ==
    /\ pc' = "idle" /\ todo' = << >> /\ outcome' = how
    /\ required' = FALSE /\ tries' = 0 /\ asked' = NotAsked
    /\ runner' = Nobody /\ named' = FALSE
    /\ UNCHANGED runs

RunEnds ==
    /\ pc = "detect" /\ todo = << >>
    /\ EndRun("ok")
    /\ UNCHANGED <<inventory, world, seen, deferred, stuck, remarked>>

Detect ==
    /\ pc = "detect" /\ todo # << >>
    /\ required' = (Target \in needs)
    /\ asked' = NotAsked /\ tries' = 0
    /\ seen' = IF required' THEN seen \cup {Target} ELSE seen
    /\ pc' = IF ~required' THEN "clear" ELSE IF named THEN "lookup" ELSE "act"
    /\ UNCHANGED <<inventory, world, job, todo, outcome, deferred, stuck, remarked>>

\* A task fails before it changed anything: the installed kernel cannot be
\* told, the operator aborts at the pause, kured is not clear in time, the
\* metric cannot be written, the host is not reached.
RunFails ==
    /\ pc # "idle" /\ todo # << >>
    /\ EndRun("failed")
    /\ UNCHANGED <<inventory, world, seen, deferred, stuck, remarked>>

LookupAnswers ==
    /\ pc = "lookup"
    /\ asked' \in {[ok |-> TRUE, node |-> n] : n \in {runner, Nobody}}
    /\ pc' = "act"
    /\ UNCHANGED <<inventory, world, job, todo, required, tries, outcome, seen, deferred, stuck, remarked>>

RetriesLeft == tries < Retries

LookupFails ==
    /\ pc = "lookup"
    /\ IF RetriesLeft
       THEN tries' = tries + 1 /\ UNCHANGED pc
       ELSE pc' = "act" /\ UNCHANGED tries
    /\ UNCHANGED <<inventory, world, job, todo, required, asked, outcome, seen, deferred, stuck, remarked>>

\* Transient units do not survive a boot.
Reboots(h) ==
    /\ needs' = needs \ {h} /\ timer' = timer \ {h} /\ seen' = seen \ {h}
    /\ remarked' = remarked \ {h}

Synchronous ==
    /\ pc = "act" /\ RebootAction(Target) = "synchronous"
    /\ Reboots(Target)
    /\ pc' = "clear"
    /\ UNCHANGED <<inventory, upgrades, metric, job, todo, facts, outcome, deferred, stuck>>

\* Rebooted, and not back in time, or its etcd member not rejoined.
SynchronousFails ==
    /\ pc = "act" /\ RebootAction(Target) = "synchronous"
    /\ Reboots(Target)
    /\ EndRun("failed")
    /\ UNCHANGED <<inventory, upgrades, metric, deferred, stuck>>

\* The pending unit is cleared, then armed anew.
Detached ==
    /\ pc = "act" /\ RebootAction(Target) = "detached"
    /\ timer' = timer \cup {Target} /\ remarked' = remarked \ {Target}
    /\ pc' = "clear"
    /\ UNCHANGED <<inventory, needs, upgrades, metric, job, todo, facts, outcome, seen, deferred, stuck>>

\* Cleared and not armed anew, or armed and not recorded.
DetachedFails ==
    /\ pc = "act" /\ RebootAction(Target) = "detached"
    /\ timer' \in {timer \ {Target}, timer \cup {Target}} /\ remarked' = remarked \ {Target}
    /\ EndRun("failed")
    /\ UNCHANGED <<inventory, needs, upgrades, metric, seen, deferred, stuck>>

\* Broken variant: the deferral is only printed.
OnlyPrint == UNCHANGED metric
Surface == metric' = metric \cup {Target}

Defer ==
    /\ pc = "act" /\ RebootAction(Target) = "defer"
    /\ Surface
    /\ deferred' = deferred \cup {Target}
    /\ pc' = "clear"
    /\ UNCHANGED <<inventory, needs, upgrades, timer, job, todo, facts, outcome, seen, stuck, remarked>>

\* Broken variant: only a run that rebooted clears the metric.
Rebooted == required /\ RebootAction(Target) # "defer"
NotDeferred == ~required \/ RebootAction(Target) # "defer"

\* The metric is to be absent from this host.
Stale == NotDeferred /\ Target \in Cleared

NextHost ==
    /\ pc' = "detect" /\ todo' = Tail(todo)
    /\ UNCHANGED <<inventory, needs, upgrades, timer, job, facts, outcome, seen, deferred, remarked>>

ClearMetric ==
    /\ pc = "clear"
    /\ metric' = IF Stale THEN metric \ {Target} ELSE metric
    /\ NextHost
    /\ UNCHANGED stuck

\* failed_when: false, so a file that cannot be removed stays, and the run goes
\* on as if it were gone.
ClearMetricFails ==
    /\ pc = "clear" /\ Stale /\ Target \in metric
    /\ stuck' = stuck \cup {Target}
    /\ NextHost
    /\ UNCHANGED metric

\* The host with the executor's VM going down ends the run.
Kills(h) == pc # "idle" /\ InK8s /\ HostOf[runner] = h

TimerFires(h) ==
    /\ h \in timer
    /\ Reboots(h)
    /\ IF Kills(h) THEN EndRun("failed")
       ELSE UNCHANGED <<job, pc, todo, facts, outcome>>
    /\ UNCHANGED <<inventory, upgrades, metric, deferred, stuck>>

OperatorReboots(h) ==
    /\ h \in metric /\ pc = "idle"
    /\ Reboots(h)
    /\ UNCHANGED <<inventory, upgrades, metric, job, pc, todo, facts, outcome, deferred, stuck>>

PackagesUpgraded(h) ==
    /\ upgrades < MaxNeeds
    /\ upgrades' = upgrades + 1
    /\ needs' = needs \cup {h}
    /\ UNCHANGED <<inventory, timer, metric, job, pc, todo, facts, outcome, seen, deferred, stuck, remarked>>

Toggle(S, x) == (S \cup {x}) \ (S \cap {x})

\* Someone commits another mark.  A run reads the inventory when it starts, so a
\* change made meanwhile counts as made after it; nothing disarms a timer.
MarkChanges ==
    /\ pc = "idle" /\ marks < MaxMarks
    /\ marks' = marks + 1
    /\ \/ \E h \in HostSet :
            safe' = Toggle(safe, h) /\ remarked' = remarked \cup ({h} \cap timer) /\ UNCHANGED autostart
       \/ \E n \in Known :
            autostart' = Toggle(autostart, n) /\ remarked' = remarked \cup ({HostOf[n]} \cap timer) /\ UNCHANGED safe
    /\ UNCHANGED <<world, job, pc, todo, facts, outcome, seen, deferred, stuck>>

Step ==
    \/ StartRun \/ RunEnds \/ RunFails \/ Detect
    \/ LookupAnswers \/ LookupFails
    \/ Synchronous \/ SynchronousFails \/ Detached \/ DetachedFails \/ Defer
    \/ ClearMetric \/ ClearMetricFails

Next ==
    \/ Step \/ MarkChanges
    \/ \E h \in HostSet : TimerFires(h) \/ OperatorReboots(h) \/ PackagesUpgraded(h)

Spec == Init /\ [][Next]_vars

-----------------------------------------------------------------------------
(* Properties. *)

\* A run never reboots, in place, the host that carries its own executor,
\* whatever the lookup answers and whatever the inventory leaves out.  The
\* detached timer may end a run: that of the run itself, if it takes longer than
\* the delay, or that of an earlier one.
NeverKillsOwnJob == [][Synchronous => ~Kills(Target)]_vars

\* After a run that ended well, every reboot it found pending has happened, is
\* armed, or is published for the alert.
NothingSilent == outcome = "ok" => seen \subseteq timer \cup metric

\* After a run that ended well, every host it deferred is published; and no
\* alert outlives the run that found its cause gone, unless that run's own
\* removal failed, which the play does not report.
MetricIsOfThisRun ==
    outcome = "ok" => deferred \subseteq metric /\ metric \ deferred \subseteq stuck

\* A run reboots in place only a host marked safe.  A timer takes down only a
\* host that is marked safe, carries no etcd member and whose nodes all start by
\* themselves, however long after and during whatever run it fires, unless a
\* mark of that host was changed under the armed timer.
UnattendedIsSafe ==
    [][/\ Synchronous => Target \in safe
       /\ \A h \in HostSet \ remarked :
            TimerFires(h) => h \in safe /\ ~HostRunsEtcdServer(h) /\ HostVmsAutostart(h)]_vars

\* The two together: what an in-place reboot and what a timer may take down.
RebootsAreSafe == NeverKillsOwnJob /\ UnattendedIsSafe
=============================================================================
