----------------------------- MODULE Reachability -----------------------------
(***************************************************************************)
(* site.yml and base.yml between the reachability probe and its gate: the  *)
(* plays swallow what they cannot reach, and the ledger has to make up for *)
(* it.                                                                     *)
(*                                                                         *)
(* A host answers or not; it may stop or begin to answer between any two   *)
(* batches, MaxFlips times in a run.  A play reaches a host or misses it.  *)
(* The plays that act through a Proxmox host only are left out.            *)
(***************************************************************************)
EXTENDS Integers, Sequences

CONSTANTS
    Groups,    \* [proxmox, nas, dns, primary, mail, apps, k3s_servers, k3s]
    Limits,    \* what --limit may leave of the inventory
    Absences,  \* values of deploy_expected_absent_hosts
    MaxFlips

VARIABLES
    up,       \* the hosts that answer
    fates,    \* [missing, back]: those that did not at some time, and those that answer again
    deploy    \* the run

vars == <<up, fates, deploy>>

Managed == Groups.proxmox \cup Groups.dns \cup Groups.mail   \* base_managed
Hosts == Managed \cup Groups.apps \cup Groups.k3s

(***************************************************************************)
(* The plays.  skips: `:!deploy_skipped`; ignores: ignore_unreachable;     *)
(* serial: one host after the other; reports: post_tasks name the misses.  *)
(***************************************************************************)
Wide(hosts) == [hosts |-> hosts, skips |-> TRUE, ignores |-> TRUE, serial |-> FALSE, reports |-> FALSE]

Serial(hosts) == [Wide(hosts) EXCEPT !.serial = TRUE]
Single(hosts) == [Wide(hosts) EXCEPT !.skips = FALSE, !.ignores = FALSE]
Reporting(hosts) == [Wide(hosts) EXCEPT !.reports = TRUE]

Site ==
    << Wide(Managed), Wide(Groups.proxmox), Serial(Groups.dns), Serial(Groups.dns), Single(Groups.nas), Wide(Groups.dns),
       Single(Groups.mail), Single(Groups.mail),
       Reporting(Groups.proxmox \cup Groups.dns \cup Groups.mail \cup Groups.apps \cup Groups.k3s_servers),
       Reporting(Managed \cup Groups.apps \cup Groups.k3s) >>
Base == << Wide(Managed), [Wide(Groups.primary) EXCEPT !.skips = FALSE] >>
Playbooks == {Site, Base}

Play == deploy.book[deploy.at]

(* A play's hosts are settled when it starts. *)
Targets(play) == ((play.hosts \cap deploy.limit) \ deploy.removed) \ (IF play.skips THEN deploy.skipped ELSE {})

(***************************************************************************)
(* The run.                                                                *)
(***************************************************************************)
Begin(book, limit, absent) ==
    [book |-> book, limit |-> limit, absent |-> absent, phase |-> "probe", at |-> 0, waiting |-> {},
     skipped |-> {}, removed |-> {}, done |-> {}, reported |-> {}, tripped |-> FALSE, red |-> FALSE, flips |-> 0]

ReachabilityInit ==
    /\ up \in SUBSET Hosts
    /\ fates = [missing |-> Hosts \ up, back |-> {}]
    /\ \E book \in Playbooks, limit \in Limits, absent \in Absences : deploy = Begin(book, limit, absent)

Goes(next) == deploy' = next /\ UNCHANGED <<up, fates>>

Probe ==
    /\ deploy.phase = "probe"
    /\ Goes([deploy EXCEPT !.phase = "next", !.skipped = (Managed \cap deploy.limit) \ up])

(* A play whose pattern matches nothing runs no task. *)
NextPlay ==
    /\ deploy.phase = "next"
    /\ IF deploy.at = Len(deploy.book) THEN Goes([deploy EXCEPT !.phase = "gate"])
       ELSE LET targets == Targets(deploy.book[deploy.at + 1])
            IN  Goes([deploy EXCEPT !.at = @ + 1, !.waiting = targets, !.phase = IF targets = {} THEN "next" ELSE "play"])

(* A swallowed miss may yet fail the host: a task templates a fact that    *)
(* was never gathered.  A failed or unreachable host leaves the run, and a *)
(* batch of such hosts ends it.                                            *)
Batch(batch) ==
    \E tripped \in SUBSET {h \in batch \ up : Play.ignores /\ \A d \in deploy.done : d.host # h} :
        LET failed == IF Play.ignores THEN tripped ELSE batch \ up
            left == deploy.waiting \ batch
        IN  Goes([deploy EXCEPT
                !.done = @ \cup {[at |-> deploy.at, host |-> h] : h \in batch \cap up},
                !.removed = @ \cup failed, !.tripped = @ \/ tripped # {}, !.red = @ \/ failed # {},
                !.waiting = left,
                !.phase = IF failed = batch THEN "over" ELSE IF left # {} THEN "play" ELSE IF Play.reports THEN "report" ELSE "next"])

Converge ==
    /\ deploy.phase = "play"
    /\ IF Play.serial THEN \E h \in deploy.waiting : Batch({h}) ELSE Batch(deploy.waiting)

Report ==
    /\ deploy.phase = "report"
    /\ Goes([deploy EXCEPT !.phase = "next",
                           !.reported = @ \cup {[at |-> deploy.at, host |-> h] : h \in Targets(Play) \ up}])

(* Broken variant: the gate is no play of a skipped host. *)
GateHostsReached == ((Managed \cap deploy.limit) \ deploy.removed) \ deploy.skipped

GateHosts == (Managed \cap deploy.limit) \ deploy.removed

(* The second probe. *)
Lost == (GateHosts \ deploy.skipped) \ up

(* A declared absence excuses no host that was lost. *)
Gate ==
    /\ deploy.phase = "gate"
    /\ Goes([deploy EXCEPT !.phase = "over",
                           !.red = @ \/ (GateHosts # {} /\ (deploy.skipped \ deploy.absent # {} \/ Lost # {}))])

(***************************************************************************)
(* The hosts.                                                              *)
(***************************************************************************)
Falls(h) ==
    /\ h \in up
    /\ up' = up \ {h} /\ fates' = [fates EXCEPT !.missing = @ \cup {h}]
Returns(h) ==
    /\ h \notin up
    /\ up' = up \cup {h} /\ fates' = [fates EXCEPT !.back = @ \cup {h}]
Flip ==
    /\ deploy.phase # "over" /\ deploy.flips < MaxFlips
    /\ \E h \in deploy.limit : Falls(h) \/ Returns(h)
    /\ deploy' = [deploy EXCEPT !.flips = @ + 1]

ReachabilityNext == Probe \/ NextPlay \/ Converge \/ Report \/ Gate \/ Flip

Spec == ReachabilityInit /\ [][ReachabilityNext]_vars

(***************************************************************************)
(* What the pair promises.                                                 *)
(***************************************************************************)
Owed == {[at |-> i, host |-> h] : i \in DOMAIN deploy.book, h \in deploy.limit}
    \cap UNION {{[at |-> i, host |-> h] : h \in deploy.book[i].hosts} : i \in DOMAIN deploy.book}

(* A green run has converged all it owed to every host that did not come   *)
(* back meanwhile, except a host declared absent, which got nothing, and   *)
(* what a play outside the ledger has reported.                            *)
NothingMissedSilently ==
    deploy.phase = "over" /\ ~deploy.red =>
        \A d \in Owed \ deploy.done :
            \/ d.host \in fates.back
            \/ d.host \in deploy.absent \cap deploy.skipped /\ \A e \in deploy.done : e.host # d.host
            \/ d.host \notin Managed /\ d \in deploy.reported

(* A host that is down stops no other: one that answers all the time gets  *)
(* all it is owed, unless a task failed for good or the missing host is    *)
(* the one of a single-host play.                                          *)
OneHostStopsNoOther ==
    deploy.phase = "over" /\ ~deploy.tripped /\ fates.missing \cap deploy.limit \cap (Groups.nas \cup Groups.mail) = {} =>
        \A d \in Owed : d.host \in fates.missing \/ d \in deploy.done
=============================================================================
