--------------------------- MODULE ReaperSchedule ---------------------------
(***************************************************************************)
(* The runs of the runner reaper over time: every SchedulePeriod minutes    *)
(* the CronJob starts one, which works through the namespaces in rotated    *)
(* order until its budget is spent, while managers leak new objects.        *)
(* A run is one step here; RunnerReaper models what happens inside it.      *)
(***************************************************************************)
EXTENDS NamespaceRotation, FiniteSets

CONSTANTS
    Namespaces,         \* NAMESPACES
    SchedulePeriod,     \* the period of the CronJob's schedule
    RotatePeriod,       \* ROTATE_PERIOD_SECONDS
    PerRun,             \* how many objects one run's budget suffices for
    MaxBacklog          \* bound: leaked objects counted per namespace

N == Len(Namespaces)
Ns == {Namespaces[i] : i \in 1..N}

\* Wall-clock time wraps where both the schedule and the rotation do.
Horizon == SchedulePeriod * RotatePeriod * N

ASSUME ScheduleAssumption ==
    /\ N > 0 /\ SchedulePeriod > 0 /\ RotatePeriod > 0
    /\ PerRun > 0 /\ MaxBacklog > 0

VARIABLES
    time,       \* the schedule slot's start
    ended,      \* this slot's Job is over
    backlog,    \* leaked objects per namespace
    served      \* the namespaces from which the last run deleted something

vars == <<time, ended, backlog, served>>

TypeOK ==
    /\ time \in 0..(Horizon - 1)
    /\ ended \in BOOLEAN
    /\ backlog \in [Ns -> 0..MaxBacklog]
    /\ served \subseteq Ns

Init ==
    /\ time = 0 /\ ended = FALSE
    /\ backlog \in [Ns -> 0..MaxBacklog]
    /\ served = {}

\* A manager dies in its cleanup.
Leak(ns) ==
    /\ backlog[ns] < MaxBacklog
    /\ backlog' = [backlog EXCEPT ![ns] = @ + 1]
    /\ UNCHANGED <<time, ended, served>>

Order == RotateNamespaces(Namespaces, time, RotatePeriod)

\* What is left of the budget when the i-th namespace's turn comes.
left[i \in 1..N] ==
    IF i = 1 THEN PerRun
    ELSE LET used == backlog[Order[i - 1]]
         IN  IF used >= left[i - 1] THEN 0 ELSE left[i - 1] - used

\* A run that works: each namespace in turn gets what is left of the budget,
\* and the budget stop leaves the others for the next run.
Run ==
    /\ ~ended
    /\ LET Turn(ns) == CHOOSE i \in 1..N : Order[i] = ns
           Taken(ns) == IF backlog[ns] < left[Turn(ns)] THEN backlog[ns] ELSE left[Turn(ns)]
       IN  /\ backlog' = [ns \in Ns |-> backlog[ns] - Taken(ns)]
           /\ served' = {ns \in Ns : Taken(ns) > 0}
    /\ ended' = TRUE
    /\ UNCHANGED time

\* Every attempt of the slot's Job fails (API outage): nothing is deleted.
RunFails ==
    /\ ~ended
    /\ ended' = TRUE /\ served' = {}
    /\ UNCHANGED <<time, backlog>>

\* The next slot.  activeDeadlineSeconds ends a Job within its slot, so
\* concurrencyPolicy Forbid never skips one.
NextSlot ==
    /\ ended
    /\ time' = (time + SchedulePeriod) % Horizon
    /\ ended' = FALSE
    /\ UNCHANGED <<backlog, served>>

Next == Run \/ RunFails \/ NextSlot \/ \E ns \in Ns : Leak(ns)

\* The CronJob controller starts a Job in every slot, and the API is not down
\* in every one of a namespace's own slots.
Fairness ==
    /\ WF_vars(NextSlot)
    /\ WF_vars(Run \/ RunFails)
    /\ \A ns \in Ns : SF_vars(Run /\ Order[1] = ns)

Spec == Init /\ [][Next]_vars /\ Fairness

-----------------------------------------------------------------------------

\* A namespace with leaked objects gets some deleted, however the others fill
\* up in the meantime (README: "a standing backlog in the first one cannot
\* starve the second").
NoNamespaceStarves ==
    \A ns \in Ns : backlog[ns] > 0 ~> ns \in served
=============================================================================
