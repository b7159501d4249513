--------------------------- MODULE EtcdMaintenance ---------------------------
(***************************************************************************)
(* Who may take an etcd member down.  kured reboots a flagged k3s server   *)
(* under a cluster-wide lock; the maintenance plays restart k3s on one     *)
(* server after another, or reboot the Proxmox hosts the servers run on,   *)
(* each behind the same guard: read every server's kured annotation and    *)
(* its schedulable bit, one kubectl call per server.                       *)
(*                                                                         *)
(* The inventory puts every server on a host of its own, so a host is      *)
(* named by its server.  kured is not part of the repository: its steps    *)
(* are those its configured values and the guard's comments rely on.       *)
(***************************************************************************)
EXTENDS Naturals, Sequences, FiniteSets

CONSTANTS
    Order,      \* the group k3s_servers, in inventory order
    None,       \* no server
    Plays,      \* the plays that are run: a subset of {"upgrade", "hosts"}
    MaxTries,   \* passes of the guard before it gives up (48 retries)
    MaxPlays,   \* bound: plays started
    MaxFlags    \* bound: how often a server is flagged for a reboot

Servers == {Order[i] : i \in 1..Len(Order)}

ASSUME OrderAssumption ==
    /\ Order \in Seq(Servers) /\ Order # << >>
    /\ \A i, j \in 1..Len(Order) : Order[i] = Order[j] => i = j
    /\ None \notin Servers
ASSUME BoundsAssumption ==
    /\ Plays \subseteq {"upgrade", "hosts"}
    /\ MaxTries \in Nat \ {0} /\ MaxPlays \in Nat /\ MaxFlags \in Nat

VARIABLES
    up,         \* the servers whose etcd member serves
    binary,     \* the servers the pinned k3s binary is installed on
    running,    \* the servers whose k3s process is the pinned version
    sentinel,   \* the servers with /var/run/reboot-required
    annotated,  \* the nodes kured annotated reboot-in-progress
    cordoned,   \* the unschedulable nodes
    lock,       \* who holds the kured lock
    phase,      \* how far the holder is
    flags,      \* how often a server was flagged
    play,       \* the play that runs, if any
    pc,         \* its next task
    todo,       \* the servers (hosts) left, the current one first
    unread,     \* the servers this pass of the guard has not read
    tries,      \* passes of this guard that failed
    failed,     \* a task of the current block failed
    outcome,    \* how the last play ended
    plays,      \* how many plays were started
    ongoing     \* history: the reboot under way ever since this pass began

nodes == <<up, binary, running, sentinel, annotated, cordoned>>
kured == <<lock, phase>>
guard == <<unread, tries>>
plan == <<play, todo, plays>>
vars == <<nodes, kured, flags, plan, pc, guard, failed, outcome, ongoing>>

GuardPcs == {"guard", "guard1", "guard2"}
UpgradePcs == {"select", "guard1", "cordon", "install", "guard2", "restart",
               "readyz", "uncordon", "waitReady"}
HostPcs == {"select", "guard", "reboot", "rejoin"}

TypeOK ==
    /\ up \subseteq Servers /\ binary \subseteq Servers /\ running \subseteq Servers
    /\ sentinel \subseteq Servers /\ annotated \subseteq Servers
    /\ cordoned \subseteq Servers
    /\ lock \in Servers \cup {None}
    /\ phase \in {"free", "locked", "drain", "down", "back"}
    /\ flags \in Nat
    /\ play \in {"none", "upgrade", "hosts"}
    /\ pc \in {"idle"} \cup UpgradePcs \cup HostPcs
    /\ todo \in Seq(Servers)
    /\ unread \in Seq(Servers)
    /\ tries \in 0..(MaxTries - 1)
    /\ failed \in BOOLEAN
    /\ outcome \in {"none", "ok", "upgraded", "failed", "stuck", "unreachable"}
    /\ plays \in Nat
    /\ ongoing \in Servers \cup {None}

Init ==
    /\ up = Servers
    /\ binary = {} /\ running = {} /\ sentinel = {}
    /\ annotated = {} /\ cordoned = {}
    /\ lock = None /\ phase = "free" /\ flags = 0
    /\ play = "none" /\ pc = "idle" /\ todo = << >> /\ plays = 0
    /\ unread = << >> /\ tries = 0
    /\ failed = FALSE /\ outcome = "none" /\ ongoing = None

\* The API answers while a majority of the members serves.
HasQuorum == 2 * Cardinality(up) > Cardinality(Servers)

-----------------------------------------------------------------------------
(* kured, one agent per node. *)

Holds(s, ph) == lock = s /\ phase = ph
\* The holder, from its cordon until its member serves again.
MidReboot == IF phase \in {"drain", "down"} THEN lock ELSE None

\* A package upgrade, or update-packages.yml, touches the sentinel.
Flag(s) ==
    /\ flags < MaxFlags
    /\ flags' = flags + 1
    /\ sentinel' = sentinel \cup {s}
    /\ UNCHANGED <<up, binary, running, annotated, cordoned, kured, plan, pc,
                   guard, failed, outcome, ongoing>>

\* annotateNodes: the annotation comes first and stays while kured waits for
\* the lock or for a blocking CI pod to leave.
KuredAnnotate(s) ==
    /\ s \in sentinel \cap up /\ s \notin annotated /\ HasQuorum
    /\ annotated' = annotated \cup {s}
    /\ UNCHANGED <<up, binary, running, sentinel, cordoned, kured, flags, plan,
                   pc, guard, failed, outcome, ongoing>>

\* Broken variant: a lock that expires under its holder.
LockStealable == phase # "drain"
\* concurrency 1, lockTtl 0: only a free lock is taken.
LockFree == lock = None

KuredLock(s) ==
    /\ s \in annotated \cap sentinel \cap up /\ LockFree /\ HasQuorum
    /\ lock' = s /\ phase' = "locked"
    /\ UNCHANGED <<nodes, flags, plan, pc, guard, failed, outcome, ongoing>>

KuredCordon(s) ==
    /\ Holds(s, "locked") /\ s \in up /\ HasQuorum
    /\ cordoned' = cordoned \cup {s}
    /\ phase' = "drain"
    /\ UNCHANGED <<up, binary, running, sentinel, annotated, lock, flags, plan,
                   pc, guard, failed, outcome, ongoing>>

\* Broken variant: the lock is not given back.
KeepLock == UNCHANGED kured
ReleaseLock == lock' = None /\ phase' = "free"

\* forceReboot false: the node is given back, the sentinel stays for a retry.
KuredDrainFails(s) ==
    /\ Holds(s, "drain") /\ s \in up /\ HasQuorum
    /\ cordoned' = cordoned \ {s}
    /\ ReleaseLock
    /\ ongoing' = None
    /\ UNCHANGED <<up, binary, running, sentinel, annotated, flags, plan, pc,
                   guard, failed, outcome>>

\* A boot starts the installed binary; /run is a tmpfs.
GoesDown(s) ==
    /\ up' = up \ {s}
    /\ sentinel' = sentinel \ {s}
    /\ running' = IF s \in binary THEN running \cup {s} ELSE running

KuredReboot(s) ==
    /\ Holds(s, "drain") /\ s \in up
    /\ GoesDown(s)
    /\ phase' = "down"
    /\ UNCHANGED <<binary, annotated, cordoned, lock, flags, plan, pc, guard,
                   failed, outcome, ongoing>>

\* A member that was down, whoever took it down, serves again.
Rejoin(s) ==
    /\ s \notin up
    /\ up' = up \cup {s}
    /\ phase' = IF Holds(s, "down") THEN "back" ELSE phase
    /\ ongoing' = IF Holds(s, "down") THEN None ELSE ongoing
    /\ UNCHANGED <<binary, running, sentinel, annotated, cordoned, lock, flags,
                   plan, pc, guard, failed, outcome>>

KuredFinish(s) ==
    /\ Holds(s, "back") /\ s \in up /\ HasQuorum
    /\ cordoned' = cordoned \ {s}
    /\ annotated' = annotated \ {s}
    /\ ReleaseLock
    /\ UNCHANGED <<up, binary, running, sentinel, flags, plan, pc, guard,
                   failed, outcome, ongoing>>

Kured(s) ==
    \/ KuredAnnotate(s) \/ KuredLock(s) \/ KuredCordon(s)
    \/ KuredDrainFails(s) \/ KuredReboot(s) \/ KuredFinish(s)

-----------------------------------------------------------------------------
(* The maintenance plays: serial 1, one server (host) at a time. *)

Target == Head(todo)

\* k3s_delegate_server, reboot_delegate_server: the first server but this one.
Delegate(s) ==
    LET others == SelectSeq(Order, LAMBDA t : t # s)
    IN  IF others = << >> THEN Order[1] ELSE Head(others)

\* Where the next task runs: kubectl calls are delegated.
Executor == IF pc \in {"install", "restart", "readyz"} THEN Target
            ELSE Delegate(Target)

\* A node that kured is booting takes no ssh connection.
Reachable(s) == ~Holds(s, "down")
TaskRuns == todo # << >> /\ Reachable(Executor)

StartPlay(p) ==
    /\ play = "none" /\ plays < MaxPlays
    /\ play' = p /\ plays' = plays + 1
    /\ todo' = Order /\ pc' = "select" /\ failed' = FALSE /\ outcome' = "none"
    /\ UNCHANGED <<nodes, kured, flags, guard, ongoing>>

EndPlay(how) ==
    /\ play' = "none" /\ pc' = "idle" /\ todo' = << >> /\ outcome' = how
    /\ failed' = FALSE /\ unread' = << >> /\ tries' = 0 /\ ongoing' = None
    /\ UNCHANGED <<nodes, kured, flags, plays>>

StartPass ==
    /\ unread' = Order
    /\ ongoing' = MidReboot

EnterGuard(g) ==
    /\ pc' = g /\ tries' = 0
    /\ StartPass

NextTarget == todo' = Tail(todo) /\ pc' = "select"

\* The last play of the file asserts that every node is Ready.
Finished ==
    /\ pc = "select" /\ todo = << >>
    /\ EndPlay(IF play = "hosts" THEN "ok" ELSE IF up = Servers THEN "upgraded" ELSE "failed")

\* The pinned version is installed, or the host needs no synchronous reboot.
Skip ==
    /\ pc = "select" /\ todo # << >>
    /\ play = "upgrade" => Target \in binary
    /\ NextTarget
    /\ UNCHANGED <<nodes, kured, flags, play, plays, guard, failed, outcome, ongoing>>

TakeOn ==
    /\ pc = "select" /\ todo # << >>
    /\ play = "upgrade" => Target \notin binary
    /\ EnterGuard(IF play = "upgrade" THEN "guard1" ELSE "guard")
    /\ UNCHANGED <<nodes, kured, flags, plan, failed, outcome>>

\* Broken variant: no `always:`.
FailPlay == EndPlay("failed")
\* A task of the block failed: `always:` comes next.  Outside it: the play ends.
FailTask ==
    IF play = "hosts" THEN EndPlay("failed")
    ELSE /\ failed' = TRUE /\ pc' = "uncordon" /\ unread' = << >> /\ tries' = 0
         /\ ongoing' = None
         /\ UNCHANGED <<nodes, kured, flags, plan, outcome>>

\* Broken variant: a node that is only cordoned.
SeenOddlyCordoned(n) == n \in cordoned \ annotated
SeenRebooting(n) == n \in annotated \cap cordoned

GuardReadsClear ==
    /\ pc \in GuardPcs /\ unread # << >> /\ TaskRuns /\ HasQuorum
    /\ ~SeenRebooting(Head(unread))
    /\ unread' = Tail(unread)
    /\ UNCHANGED <<nodes, kured, flags, plan, pc, tries, failed, outcome, ongoing>>

\* Broken variant: the passes are not counted.
UncountedTry == UNCHANGED tries
CountTry == tries' = tries + 1

OutOfTries == tries + 1 >= MaxTries

\* A server is mid-reboot, or kubectl failed (any call may).
GuardPassFails ==
    /\ pc \in GuardPcs /\ unread # << >> /\ TaskRuns
    /\ \/ OutOfTries /\ FailTask
       \/ /\ ~OutOfTries
          /\ CountTry
          /\ StartPass
          /\ UNCHANGED <<nodes, kured, flags, plan, pc, failed, outcome>>

AfterGuard == [guard |-> "reboot", guard1 |-> "cordon", guard2 |-> "restart"]

GuardClear ==
    /\ pc \in GuardPcs /\ unread = << >>
    /\ pc' = AfterGuard[pc]
    /\ UNCHANGED <<nodes, kured, flags, plan, guard, failed, outcome, ongoing>>

Cordon ==
    /\ pc = "cordon" /\ TaskRuns /\ HasQuorum
    /\ cordoned' = cordoned \cup {Target}
    /\ pc' = "install"
    /\ UNCHANGED <<up, binary, running, sentinel, annotated, kured, flags, plan,
                   guard, failed, outcome, ongoing>>

\* INSTALL_K3S_SKIP_START: the running process is not touched.
Install ==
    /\ pc = "install" /\ TaskRuns
    /\ binary' = binary \cup {Target}
    /\ EnterGuard("guard2")
    /\ UNCHANGED <<up, running, sentinel, annotated, cordoned, kured, flags,
                   plan, failed, outcome>>

Restart ==
    /\ pc = "restart" /\ TaskRuns
    /\ up' = up \ {Target}
    /\ running' = running \cup {Target}
    /\ pc' = "readyz"
    /\ UNCHANGED <<binary, sentinel, annotated, cordoned, kured, flags, plan,
                   guard, failed, outcome, ongoing>>

TaskFails ==
    /\ pc \in {"cordon", "install", "restart"} /\ TaskRuns
    /\ FailTask

Serving == Target \in up

ReadyzPasses ==
    /\ pc = "readyz" /\ TaskRuns /\ Serving
    /\ pc' = "uncordon"
    /\ UNCHANGED <<nodes, kured, flags, plan, guard, failed, outcome, ongoing>>

ReadyzExhausted ==
    /\ pc = "readyz" /\ TaskRuns /\ Target \notin up
    /\ FailTask

Uncordon ==
    /\ pc = "uncordon" /\ TaskRuns /\ HasQuorum
    /\ cordoned' = cordoned \ {Target}
    /\ pc' = "waitReady"
    /\ UNCHANGED <<up, binary, running, sentinel, annotated, kured, flags, plan,
                   guard, failed, outcome, ongoing>>

\* Every retry failed: the play says so, the node stays unschedulable.
UncordonExhausted ==
    /\ pc = "uncordon" /\ TaskRuns
    /\ EndPlay("stuck")

BlockFailed == failed

WaitReady ==
    /\ pc = "waitReady" /\ TaskRuns
    /\ \/ Target \notin up /\ EndPlay("failed")
       \/ Target \in up /\ BlockFailed /\ EndPlay("failed")
       \/ /\ Target \in up /\ ~BlockFailed
          /\ NextTarget
          /\ failed' = FALSE
          /\ UNCHANGED <<nodes, kured, flags, play, plays, guard, outcome, ongoing>>

\* A synchronous reboot takes the server VM down with its host.
HostReboot ==
    /\ pc = "reboot"
    /\ GoesDown(Target)
    /\ phase' = IF lock = Target THEN "down" ELSE phase
    /\ pc' = "rejoin"
    /\ UNCHANGED <<binary, annotated, cordoned, lock, flags, plan, guard,
                   failed, outcome, ongoing>>

Rejoined ==
    /\ pc = "rejoin" /\ TaskRuns /\ HasQuorum /\ Serving
    /\ NextTarget
    /\ UNCHANGED <<nodes, kured, flags, play, plays, guard, failed, outcome, ongoing>>

RejoinExhausted ==
    /\ pc = "rejoin" /\ TaskRuns
    /\ FailTask

\* An unreachable executor drops the host from the play: no retry, no `always:`.
Unreachable ==
    /\ pc \in (UpgradePcs \cup HostPcs) \ {"select", "reboot"}
    /\ pc \in GuardPcs => unread # << >>
    /\ todo # << >> /\ ~Reachable(Executor)
    /\ EndPlay("unreachable")

PlayStep ==
    \/ Finished \/ Skip \/ TakeOn
    \/ GuardReadsClear \/ GuardPassFails \/ GuardClear
    \/ Cordon \/ Install \/ Restart \/ TaskFails
    \/ ReadyzPasses \/ ReadyzExhausted
    \/ Uncordon \/ UncordonExhausted \/ WaitReady
    \/ HostReboot \/ Rejoined \/ RejoinExhausted
    \/ Unreachable

Next ==
    \/ \E p \in Plays : StartPlay(p)
    \/ PlayStep
    \/ \E s \in Servers : Flag(s) \/ Kured(s) \/ Rejoin(s)

\* A play runs on until it ends; members come back; kured retries every period,
\* blocking pods leave and drains succeed in the end.  The last three steps of
\* kured are the lock holder's.
PlayFairness == WF_vars(PlayStep)
KuredFairness ==
    /\ WF_vars(\E s \in Servers : KuredAnnotate(s) \/ Rejoin(s))
    /\ \A s \in Servers : SF_vars(KuredLock(s))
    /\ WF_vars(\E s \in Servers : KuredCordon(s) \/ KuredFinish(s))
    /\ SF_vars(\E s \in Servers : KuredReboot(s))

Spec == Init /\ [][Next]_vars
FairPlays == Spec /\ PlayFairness
FairAll == Spec /\ PlayFairness /\ KuredFairness

-----------------------------------------------------------------------------
(* Properties. *)

\* Only the kured lock and the one play take members down: whoever is down is
\* the holder in its reboot, the play's target, or what a failed play left.
\* Never more than two, then, and a majority whenever only one of them acts.
DownIsAccountedFor ==
    \A s \in Servers \ up :
        \/ Holds(s, "down")
        \/ todo # << >> /\ s = Target
        \/ outcome \in {"failed", "stuck", "unreachable"}
        \/ plays > 1

\* The guard before a host reboot is sound up to its window: no host is rebooted
\* beside a kured reboot of another server that was under way before the last
\* pass of the guard began.
HostRebootSeesKured ==
    [][HostReboot => ongoing \in {None, Target}]_vars

\* When no play and no kured reboot is under way, no node is unschedulable,
\* but for the uncordon that the last play reported as failed.
Idle == play = "none" /\ lock = None
NothingStranded == Idle /\ outcome \notin {"stuck", "unreachable"} => cordoned = {}

\* An upgrade that ends well leaves every server running the pinned version.
UpgradedWhenOk ==
    outcome = "upgraded" => running = Servers

\* What a play leaves behind is well formed, whole or reported: the two above.
NothingHalfDone == TypeOK /\ NothingStranded /\ UpgradedWhenOk

\* A play comes to an end, whatever kured does meanwhile: no guard waits for ever.
PlayEnds == play # "none" ~> play = "none"

\* Every flagged server is rebooted, however often drains fail and whatever
\* play runs meanwhile: no way through a reboot keeps the lock.
FlaggedReboots == \A s \in Servers : s \in sentinel ~> s \notin up
=============================================================================
