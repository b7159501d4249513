------------------------- MODULE RunnerReaperProofs -------------------------
(***************************************************************************)
(* For every choice of namespaces, ages, budgets and page sizes:            *)
(*   1. rotate_namespaces leaves no namespace out;                          *)
(*   2. the sweep never takes the Secret of a job in flight, and no pod but *)
(*      one that ended long ago (IInv);                                     *)
(*   3. managers, cluster and reaper together implement LeakCollector       *)
(*      (IInv and UidInv, then one lemma per action);                       *)
(*   4. the run ends a bounded number of calls after its budget (BudgetInv); *)
(*   5. a clean report leaves no leak behind (CleanInv).                    *)
(*                                                                         *)
(* InFlightKeepsSecret is not inductive: a DELETE is sent on the strength   *)
(* of two lists read earlier.  What makes it safe is an agreement between   *)
(* what was read and what is in the cluster that only holds for Secrets     *)
(* old by the time the run started: their job, if any, had its pod before   *)
(* the first list, so the pod is among the references (RefsComplete,        *)
(* RefsEnough), and the Secret has not changed since it was listed          *)
(* (ItemsFresh).                                                            *)
(***************************************************************************)
EXTENDS RunnerReaper, TLAPS, SequenceTheorems, FiniteSetTheorems, WellFoundedInduction

-----------------------------------------------------------------------------
(* rotate_namespaces: every run visits every namespace exactly once. *)

\* An offset is a position.
LEMMA OffsetIsPosition ==
    ASSUME NEW n \in Nat \ {0}, NEW t \in Int, NEW period \in Nat \ {0}
    PROVE  RotationOffset(n, t, period) \in 0..(n - 1)
BY SMT DEF RotationOffset

\* The order of a run is a sequence of namespaces, as many as configured.
THEOREM RotationIsOrder ==
    ASSUME NEW S, NEW namespaces \in Seq(S), namespaces # << >>,
           NEW t \in Int, NEW period \in Nat \ {0}
    PROVE  /\ RotateNamespaces(namespaces, t, period) \in Seq(S)
           /\ Len(RotateNamespaces(namespaces, t, period)) = Len(namespaces)
<1> DEFINE n == Len(namespaces)
           o == RotationOffset(n, t, period)
<1>1. n \in Nat \ {0}
  OBVIOUS
<1>2. o \in 0..(n - 1)
  BY <1>1, OffsetIsPosition
<1>3. \A i \in 1..n : ((i - 1 + o) % n) + 1 \in 1..n
  BY <1>1, <1>2, SMT
<1>4. \A i \in 1..n : namespaces[((i - 1 + o) % n) + 1] \in S
  BY <1>3
<1>5. RotateNamespaces(namespaces, t, period)
        = [i \in 1..n |-> namespaces[((i - 1 + o) % n) + 1]]
  BY DEF RotateNamespaces
<1> HIDE DEF o
<1>6. [i \in 1..n |-> namespaces[((i - 1 + o) % n) + 1]] \in Seq(S)
  BY <1>1, <1>4
<1>7. Len([i \in 1..n |-> namespaces[((i - 1 + o) % n) + 1]]) = n
  BY <1>1, <1>4
<1> QED
  BY <1>5, <1>6, <1>7

\* No namespace is left out: rotate_namespaces reorders the list it is given
\* and drops nothing (a namespace missing from the order would never be swept).
THEOREM RotationCovers ==
    ASSUME NEW S, NEW namespaces \in Seq(S),
           NEW t \in Int, NEW period \in Nat \ {0},
           NEW k \in 1..Len(namespaces)
    PROVE  \E i \in 1..Len(namespaces) :
              RotateNamespaces(namespaces, t, period)[i] = namespaces[k]
<1> DEFINE n == Len(namespaces)
           o == RotationOffset(n, t, period)
           i == IF k > o THEN k - o ELSE k - o + n
<1>1. n \in Nat \ {0} /\ k \in 1..n
  OBVIOUS
<1>2. o \in 0..(n - 1)
  BY <1>1, OffsetIsPosition
<1>3. RotateNamespaces(namespaces, t, period)
        = [j \in 1..n |-> namespaces[((j - 1 + o) % n) + 1]]
  BY DEF RotateNamespaces
<1> HIDE DEF o, n
<1>4. i \in 1..n
  BY <1>1, <1>2, SMT
<1>5. (i - 1 + o) % n = k - 1
  <2>1. CASE k > o
    <3>1. i - 1 + o = k - 1
      BY <2>1, <1>1, <1>2
    <3> QED
      BY <3>1, <1>1, SMT
  <2>2. CASE ~(k > o)
    <3>1. i - 1 + o = (k - 1) + n
      BY <2>2, <1>1, <1>2
    <3>2. ((k - 1) + n) % n = k - 1
      BY <1>1, SMT
    <3> QED
      BY <3>1, <3>2
  <2> QED
    BY <2>1, <2>2
<1>6. RotateNamespaces(namespaces, t, period)[i] = namespaces[k]
  BY <1>1, <1>3, <1>4, <1>5
<1> QED
  BY <1>4, <1>6 DEF n

-----------------------------------------------------------------------------
(* The inductive invariant. *)

\* What is being listed has the type of the stage.
CursorType ==
    /\ stage # "secrets" => rest \cup page \subseteq Pod
    /\ stage = "secrets" => rest \cup page \subseteq Secret
    /\ stage = "refs" => page = {}

\* Types.
TypeInv == TypeOK /\ CursorType

\* Names are unique among pods and among Secrets.
UniqueNames ==
    /\ \A p, q \in pods : p.name = q.name => p = q
    /\ \A s, z \in secrets : s.name = z.name => s = z

\* A uid is never handed out again.
UsedUids ==
    /\ \A o \in pods \cup secrets : o.name \in JobNames => o.uid <= gen[o.name]
    /\ stage \in TerminalPhases \cup {"secrets"} =>
          \A x \in page \cup rest : x.name \in JobNames => x.uid <= gen[x.name]

\* A job that prepares has a young Secret and no pod.
PreparingIsYoung ==
    \A n \in JobNames : job[n] = "preparing" =>
        /\ \A s \in secrets : s.name = n => clock <= s.created + MaxPrep
        /\ \A p \in pods : p.name # n

\* A running job's pod is there and refers to the Secret.
RunningIsLinked ==
    \A n \in JobNames : job[n] = "running" =>
        \E p \in pods :
            /\ p.name = n /\ p.phase = "Running"
            /\ \A s \in secrets : s.name = n => p.pulls \/ s.owner = p.uid

\* The sweep's clock is one reading, taken in the past.
NowIsPast ==
    /\ pc # "idle" => now <= clock + MaxSkew
    /\ pc = "idle" => stage = "Succeeded"

\* A Secret of a running job of this namespace, old for this run.
OldAndRunning(s) ==
    /\ s.name \in JobNames /\ job[s.name] = "running"
    /\ NsOf[s.name] = Head(todo)
    /\ OldEnough(s, now)

\* Once listing began, what was read and what is still to be read of the
\* live pods refers to all of them.
RefsComplete ==
    stage = "refs" /\ ~first => \A s \in secrets :
        OldAndRunning(s) => Referenced(s, MergeRefs(refs, RefsOf(rest)))

\* So does what was read, once the Secrets are listed.
RefsEnough ==
    stage = "secrets" => \A s \in secrets : OldAndRunning(s) => Referenced(s, refs)

\* A listed Secret that still exists is as it was listed, its owner too if
\* the job was running long enough.
ItemsFresh ==
    stage = "secrets" => \A x \in page \cup rest :
        /\ NsOf[x.name] = Head(todo)
        /\ \A s \in secrets : s.name = x.name /\ s.uid = x.uid =>
              /\ s.created = x.created
              /\ OldAndRunning(s) => s.owner = x.owner

\* A listed pod that still exists is as it was listed, and no pod to come has
\* its uid.
PodItemsFresh ==
    stage \in TerminalPhases => \A x \in page \cup rest :
        /\ x.phase \in TerminalPhases /\ x.name \in Labelled
        /\ x.name \in JobNames /\ job[x.name] = "preparing" => x.uid < gen[x.name]
        /\ \A p \in pods : p.name = x.name /\ p.uid = x.uid => p = x

\* What a sweep knows is enough,
SweepInv == NowIsPast /\ RefsComplete /\ RefsEnough /\ ItemsFresh /\ PodItemsFresh

\* the cluster is what the runner's managers make of it,
ClusterInv ==
    /\ UniqueNames /\ UsedUids /\ PreparingIsYoung /\ RunningIsLinked
    /\ InFlightKeepsSecret

\* and all of it together is inductive.
IInv == TypeInv /\ ClusterInv /\ SweepInv

-----------------------------------------------------------------------------
(* Operators. *)

LEMMA PageIsPart == \A S : PageOf(S) \subseteq S
BY DEF PageOf

\* References, and what they are made of.
LEMMA RefsType ==
    ASSUME NEW P \in SUBSET Pod
    PROVE  RefsOf(P) \in [uids : SUBSET (Names \X Nat), pulls : SUBSET Names]
BY DEF RefsOf, Pod

LEMMA MergeType ==
    ASSUME NEW a \in [uids : SUBSET (Names \X Nat), pulls : SUBSET Names],
           NEW b \in [uids : SUBSET (Names \X Nat), pulls : SUBSET Names]
    PROVE  MergeRefs(a, b) \in [uids : SUBSET (Names \X Nat), pulls : SUBSET Names]
BY DEF MergeRefs

LEMMA NoRefsType == NoRefs \in [uids : SUBSET (Names \X Nat), pulls : SUBSET Names]
BY DEF NoRefs

LEMMA OrderType ==
    ASSUME NEW t \in Int
    PROVE  /\ RotateNamespaces(Namespaces, t, RotatePeriod) \in Seq(STRING)
           /\ RotateNamespaces(Namespaces, t, RotatePeriod) # << >>
<1>1. Len(Namespaces) # 0
  BY NamesAssumption
<1>2. /\ RotateNamespaces(Namespaces, t, RotatePeriod) \in Seq(STRING)
      /\ Len(RotateNamespaces(Namespaces, t, RotatePeriod)) = Len(Namespaces)
  BY NamesAssumption, TimesAssumption, RotationIsOrder
<1> QED
  BY <1>1, <1>2

\* What a GET returns has the type of the stage.
LEMMA SnapshotType ==
    ASSUME TypeInv, pc # "idle"
    PROVE  /\ stage # "secrets" => Snapshot \subseteq Pod
           /\ stage = "secrets" => Snapshot \subseteq Secret
<1>1. stage # "secrets" => Listed(Head(todo), stage) \subseteq pods
  BY DEF Listed
<1>2. stage = "secrets" => Listed(Head(todo), stage) \subseteq secrets
  BY DEF Listed
<1>3. pods \subseteq Pod /\ secrets \subseteq Secret /\ stage \in Stages /\ CursorType
  BY DEF TypeInv, TypeOK
<1> QED
  BY <1>1, <1>2, <1>3 DEF Snapshot, CursorType, Stages

\* Changes of one field.
LEMMA WithOwnerType ==
    ASSUME NEW s \in Secret, NEW u \in Nat
    PROVE  /\ [s EXCEPT !.owner = u] \in Secret
           /\ [s EXCEPT !.owner = u].name = s.name
           /\ [s EXCEPT !.owner = u].uid = s.uid
           /\ [s EXCEPT !.owner = u].created = s.created
           /\ [s EXCEPT !.owner = u].owner = u
BY DEF Secret

LEMMA ContainerEndsType ==
    ASSUME NEW p \in Pod, NEW t \in Nat
    PROVE  /\ [p EXCEPT !.ends = {t}] \in Pod
           /\ [p EXCEPT !.lost = TRUE] \in Pod
BY DEF Pod

LEMMA JobEndsType ==
    ASSUME NEW p \in Pod, NEW phase \in TerminalPhases, NEW ends \in SUBSET Nat
    PROVE  [p EXCEPT !.phase = phase, !.ends = ends] \in Pod
BY DEF Pod

-----------------------------------------------------------------------------
(* Types. *)

LEMMA InitType == Init => TypeInv
<1> SUFFICES ASSUME Init PROVE TypeInv
  OBVIOUS
<1>1. pods \subseteq Pod
  <2>1. \A n \in Names : [name |-> n, uid |-> 1, phase |-> "Succeeded", ends |-> {0},
                           lost |-> FALSE, pulls |-> FALSE] \in Pod
    BY DEF Pod, TerminalPhases
  <2> QED
    BY <2>1 DEF Init, Foreign
<1>2. secrets \subseteq Secret
  BY DEF Init, Secret, Foreign
<1>3. refs \in [uids : SUBSET (Names \X Nat), pulls : SUBSET Names]
  BY NoRefsType DEF Init
<1>4. todo \in Seq(STRING)
  BY DEF Init
<1>5. job \in [JobNames -> {"none", "preparing", "running"}] /\ gen \in [JobNames -> Nat]
  BY DEF Init
<1>6. /\ clock \in Nat /\ now \in Int /\ elapsed \in Nat
      /\ stage \in Stages /\ rest = {} /\ page = {}
      /\ pc = "idle" /\ report = "none"
  BY DEF Init, Stages
<1>7. first \in BOOLEAN /\ errs \in BOOLEAN
  BY DEF Init
<1> QED
  BY <1>1, <1>2, <1>3, <1>4, <1>5, <1>6, <1>7 DEF TypeInv, TypeOK, CursorType

LEMMA EnvironmentType ==
    ASSUME TypeInv, Environment
    PROVE  TypeInv'
<1> USE DEF TypeInv, TypeOK, reaper, cursor, CursorType
<1>1. CASE Tick
  BY <1>1 DEF Tick
<1>2. ASSUME NEW n \in JobNames, CreateSecret(n) PROVE TypeInv'
  <2>1. [name |-> n, uid |-> gen[n] + 1, created |-> clock, owner |-> 0] \in Secret
    BY <1>2, NamesAssumption DEF Secret
  <2> QED
    BY <1>2, <2>1 DEF CreateSecret
<1>3. ASSUME NEW n \in JobNames, CreatePod(n) PROVE TypeInv'
  <2>1. PICK pulls \in BOOLEAN :
          /\ pods' = pods \cup
                {[name |-> n, uid |-> gen[n], phase |-> "Running", ends |-> {},
                  lost |-> FALSE, pulls |-> pulls]}
          /\ secrets' = {IF s.name = n /\ ~pulls THEN [s EXCEPT !.owner = gen[n]]
                                                 ELSE s : s \in secrets}
    BY <1>3 DEF CreatePod
  <2>2. [name |-> n, uid |-> gen[n], phase |-> "Running", ends |-> {},
         lost |-> FALSE, pulls |-> pulls] \in Pod
    BY NamesAssumption DEF Pod
  <2>3. \A s \in secrets : [s EXCEPT !.owner = gen[n]] \in Secret
    BY WithOwnerType
  <2>4. pods' \subseteq Pod /\ secrets' \subseteq Secret
    BY <2>1, <2>2, <2>3
  <2> QED
    BY <1>3, <2>4 DEF CreatePod
<1>4. ASSUME NEW n \in JobNames, AbandonJob(n) PROVE TypeInv'
  BY <1>4 DEF AbandonJob
<1>5. ASSUME NEW p \in pods, ContainerEnds(p) PROVE TypeInv'
  <2>1. [p EXCEPT !.ends = {clock}] \in Pod /\ [p EXCEPT !.lost = TRUE] \in Pod
    BY ContainerEndsType
  <2>2. pods' \subseteq Pod
    BY <1>5, <2>1 DEF ContainerEnds
  <2> QED
    BY <1>5, <2>2 DEF ContainerEnds
<1>6. ASSUME NEW p \in pods, JobEnds(p) PROVE TypeInv'
  <2>1. \A phase \in TerminalPhases, ends \in {p.ends, p.ends \cup {clock}} :
          [p EXCEPT !.phase = phase, !.ends = ends] \in Pod
    <3>1. p \in Pod /\ p.ends \in SUBSET Nat /\ clock \in Nat
      BY DEF Pod
    <3> QED
      BY <3>1, JobEndsType
  <2>2. pods' \subseteq Pod
    BY <1>6, <2>1 DEF JobEnds
  <2>3. job' \in [JobNames -> {"none", "preparing", "running"}]
    BY <1>6 DEF JobEnds
  <2> QED
    BY <1>6, <2>2, <2>3 DEF JobEnds
<1>7. ASSUME NEW p \in pods, PodRemoved(p) PROVE TypeInv'
  BY <1>7 DEF PodRemoved
<1>8. ASSUME NEW s \in secrets, SecretRemoved(s) PROVE TypeInv'
  BY <1>8 DEF SecretRemoved
<1> QED
  BY <1>1, <1>2, <1>3, <1>4, <1>5, <1>6, <1>7, <1>8 DEF Environment

\* The part of TypeInv a sweep writes.
SweepTyped ==
    /\ pc \in {"idle", "list", "items"} /\ now \in Int
    /\ todo \in Seq(STRING) /\ (pc # "idle" => todo # << >>)
    /\ stage \in Stages /\ first \in BOOLEAN
    /\ rest \subseteq Pod \cup Secret /\ page \subseteq Pod \cup Secret
    /\ refs \in [uids : SUBSET (Names \X Nat), pulls : SUBSET Names]
    /\ errs \in BOOLEAN /\ report \in {"none", "clean", "partial", "failed"}
    /\ CursorType

ClusterTyped ==
    /\ clock \in Nat
    /\ job \in [JobNames -> {"none", "preparing", "running"}]
    /\ gen \in [JobNames -> Nat]
    /\ pods \subseteq Pod /\ secrets \subseteq Secret

LEMMA TypeParts == TypeInv <=> ClusterTyped /\ SweepTyped /\ elapsed \in Nat
BY DEF TypeInv, TypeOK, ClusterTyped, SweepTyped, CursorType

LEMMA EndRunType ==
    ASSUME NEW failed, NEW partial, EndRun(failed, partial)
    PROVE  SweepTyped'
<1>1. report' \in {"none", "clean", "partial", "failed"}
  BY DEF EndRun
<1>2. first' \in BOOLEAN /\ errs' \in BOOLEAN
  BY DEF EndRun
<1>3. /\ pc' = "idle" /\ now' = 0 /\ todo' = << >> /\ stage' = "Succeeded"
      /\ rest' = {} /\ page' = {} /\ refs' = NoRefs
  BY DEF EndRun
<1> QED
  BY <1>1, <1>2, <1>3, NoRefsType DEF SweepTyped, CursorType, Stages

LEMMA GoToStageType ==
    ASSUME SweepTyped, pc # "idle", NEW st \in Stages,
           NEW r \in [uids : SUBSET (Names \X Nat), pulls : SUBSET Names],
           GoToStage(st, r), errs' \in BOOLEAN
    PROVE  SweepTyped'
BY DEF GoToStage, SweepTyped, CursorType

LEMMA NextNamespaceType ==
    ASSUME SweepTyped, pc # "idle", NEW failed \in BOOLEAN, NextNamespace(failed)
    PROVE  SweepTyped'
<1>1. CASE Len(todo) = 1
  BY <1>1, EndRunType DEF NextNamespace
<1>2. CASE Len(todo) # 1
  <2>1. Tail(todo) \in Seq(STRING) /\ Tail(todo) # << >>
    <3>1. todo \in Seq(STRING) /\ Len(todo) > 1
      <4>1. todo \in Seq(STRING) /\ todo # << >>
        BY DEF SweepTyped
      <4>2. Len(todo) \in Nat \ {0}
        BY <4>1, EmptySeq
      <4>3. \A k \in Nat \ {0} : k # 1 => k > 1
        OBVIOUS
      <4>4. Len(todo) > 1
        BY <1>2, <4>2, <4>3, Zenon
      <4> QED
        BY <4>1, <4>4, Zenon
    <3>2. Tail(todo) \in Seq(STRING) /\ Len(Tail(todo)) = Len(todo) - 1
      BY <3>1
    <3>3. Len(Tail(todo)) # 0
      <4>1. Len(todo) \in Int /\ Len(todo) > 1 /\ Len(Tail(todo)) = Len(todo) - 1
        BY <3>1, <3>2
      <4>2. \A k \in Int : k > 1 => k - 1 # 0
        OBVIOUS
      <4> QED
        BY <4>1, <4>2
    <3> QED
      BY <3>2, <3>3, EmptySeq
  <2> QED
    BY <1>2, <2>1, NoRefsType DEF NextNamespace, SweepTyped, CursorType, Stages
<1> QED
  BY <1>1, <1>2

LEMMA NextStageType ==
    ASSUME SweepTyped, pc # "idle", NEW failed \in BOOLEAN, NextStage(failed)
    PROVE  SweepTyped'
<1>1. CASE stage = "Succeeded" /\ GoToStage("Failed", NoRefs) /\ errs' = failed
  BY <1>1, GoToStageType, NoRefsType DEF Stages
<1>2. CASE stage = "Failed" /\ GoToStage("refs", NoRefs) /\ errs' = failed
  BY <1>2, GoToStageType, NoRefsType DEF Stages
<1>3. CASE stage \in {"refs", "secrets"} /\ NextNamespace(failed)
  BY <1>3, NextNamespaceType
<1> QED
  BY <1>1, <1>2, <1>3 DEF NextStage

LEMMA SpendType == ASSUME elapsed \in Nat, Spend PROVE elapsed' \in Nat
BY TimesAssumption DEF Spend

\* The only thing the sweep does to the cluster is to remove objects.
LEMMA SweepOnlyRemoves ==
    ASSUME Reaper
    PROVE  /\ UNCHANGED <<clock, job, gen>>
           /\ pods' \subseteq pods /\ secrets' \subseteq secrets
<1> USE DEF cluster
<1>1. CASE StartRun \/ GetPage \/ GetRefsPage \/ ListFails \/ PageDone \/ BudgetStop \/ Abort
  BY <1>1 DEF StartRun, GetPage, GetRefsPage, ListFails, PageDone, BudgetStop, Abort
<1>2. ASSUME NEW x \in page, KeepItem(x) \/ DeleteItem(x) \/ DeleteFails(x)
      PROVE  /\ UNCHANGED <<clock, job, gen>>
             /\ pods' \subseteq pods /\ secrets' \subseteq secrets
  BY <1>2 DEF KeepItem, DeleteItem, DeleteFails, RemoveItem
<1> QED
  BY <1>1, <1>2 DEF Reaper

LEMMA ReaperType ==
    ASSUME TypeInv, Reaper
    PROVE  TypeInv'
<1>1. ClusterTyped /\ SweepTyped /\ elapsed \in Nat
  BY TypeParts
<1>2. ClusterTyped'
  BY <1>1, SweepOnlyRemoves DEF ClusterTyped
<1> SUFFICES SweepTyped' /\ elapsed' \in Nat
  BY <1>2 DEF TypeInv, TypeOK, ClusterTyped, SweepTyped, CursorType
<1>3. CASE StartRun
  <2>1. PICK skew \in (-MaxSkew)..MaxSkew :
          /\ now' = clock + skew
          /\ todo' = RotateNamespaces(Namespaces, clock + skew, RotatePeriod)
    BY <1>3 DEF StartRun
  <2>2. clock + skew \in Int
    BY <1>1 DEF ClusterTyped
  <2>3. todo' \in Seq(STRING) /\ todo' # << >>
    BY <2>1, <2>2, OrderType
  <2> QED
    BY <1>3, <2>1, <2>2, <2>3, NoRefsType DEF StartRun, SweepTyped, CursorType, Stages
<1>4. CASE GetPage
  <2>1. page' \subseteq Snapshot /\ rest' \subseteq Snapshot
    BY <1>4, PageIsPart DEF GetPage
  <2> QED
    BY <1>1, <1>4, <2>1, SnapshotType, SpendType DEF GetPage, SweepTyped, CursorType
<1>5. CASE GetRefsPage
  <2>1. Snapshot \subseteq Pod /\ pc # "idle"
    BY <1>5, SnapshotType DEF GetRefsPage
  <2> DEFINE some == PageOf(Snapshot)
             more == Snapshot \ some
             seen == MergeRefs(refs, RefsOf(some))
  <2>2. some \subseteq Pod /\ more \subseteq Pod
    BY <2>1, PageIsPart
  <2>3. seen \in [uids : SUBSET (Names \X Nat), pulls : SUBSET Names]
    BY <1>1, <2>2, RefsType, MergeType DEF SweepTyped
  <2>4. elapsed' \in Nat
    BY <1>1, <1>5, SpendType DEF GetRefsPage
  <2>5. \/ GoToStage("secrets", seen) /\ UNCHANGED errs
        \/ EndRun(errs, TRUE)
        \/ /\ refs' = seen /\ rest' = more /\ first' = FALSE
           /\ UNCHANGED <<pc, now, todo, stage, page, errs, report>>
    BY <1>5 DEF GetRefsPage
  <2> HIDE DEF some, more, seen
  <2>6. CASE GoToStage("secrets", seen) /\ UNCHANGED errs
    <3>1. errs' \in BOOLEAN
      BY <1>1, <2>6 DEF SweepTyped
    <3> QED
      BY <1>1, <2>1, <2>3, <2>4, <2>6, <3>1, GoToStageType DEF Stages
  <2>7. CASE EndRun(errs, TRUE)
    BY <2>4, <2>7, EndRunType
  <2>8. CASE /\ refs' = seen /\ rest' = more /\ first' = FALSE
             /\ UNCHANGED <<pc, now, todo, stage, page, errs, report>>
    <3>1. stage = "refs"
      BY <1>5 DEF GetRefsPage
    <3> QED
      BY <1>1, <2>2, <2>3, <2>4, <2>8, <3>1 DEF SweepTyped, CursorType
  <2> QED
    BY <2>5, <2>6, <2>7, <2>8
<1>6. CASE ListFails
  BY <1>1, <1>6, NextStageType, SpendType DEF ListFails
<1>7. CASE PageDone
  <2>1. elapsed' \in Nat /\ pc # "idle" /\ errs \in BOOLEAN
    BY <1>1, <1>7 DEF PageDone, SweepTyped
  <2>2. CASE pc' = "list" /\ UNCHANGED <<now, cursor, errs, report>>
    BY <1>1, <2>1, <2>2 DEF SweepTyped, CursorType, cursor
  <2>3. CASE NextStage(errs)
    BY <1>1, <2>1, <2>3, NextStageType
  <2> QED
    BY <1>7, <2>1, <2>2, <2>3 DEF PageDone
<1>8. CASE BudgetStop \/ Abort
  BY <1>1, <1>8, EndRunType DEF BudgetStop, Abort
<1>9. ASSUME NEW x \in page, KeepItem(x) \/ DeleteItem(x) \/ DeleteFails(x)
      PROVE  SweepTyped' /\ elapsed' \in Nat
  <2>1. elapsed' \in Nat
    BY <1>1, <1>9, SpendType DEF KeepItem, DeleteItem, DeleteFails
  <2>2. /\ page' \subseteq page /\ errs' \in BOOLEAN
        /\ UNCHANGED <<pc, now, todo, stage, first, rest, refs, report>>
    BY <1>1, <1>9 DEF KeepItem, DeleteItem, DeleteFails, SweepTyped
  <2> QED
    BY <1>1, <2>1, <2>2 DEF SweepTyped, CursorType
<1> QED
  BY <1>3, <1>4, <1>5, <1>6, <1>7, <1>8, <1>9 DEF Reaper

\* The types hold in every reachable state.
THEOREM TypeCorrect == Spec => []TypeOK
<1>1. Init => TypeInv
  BY InitType
<1>2. TypeInv /\ [Next]_vars => TypeInv'
  <2> SUFFICES ASSUME TypeInv, [Next]_vars PROVE TypeInv'
    OBVIOUS
  <2>1. CASE UNCHANGED vars
    BY <2>1 DEF vars, cluster, cursor, TypeInv, TypeOK, CursorType
  <2> QED
    BY <2>1, EnvironmentType, ReaperType DEF Next
<1>3. TypeInv => TypeOK
  BY DEF TypeInv
<1> QED
  BY <1>1, <1>2, <1>3, PTL DEF Spec

-----------------------------------------------------------------------------
(* The cluster side of the invariant under the environment. *)

LEMMA InitCluster == Init => ClusterInv /\ SweepInv
<1> SUFFICES ASSUME Init PROVE ClusterInv /\ SweepInv
  OBVIOUS
<1>1. \A p \in pods : p.name \in Foreign
  BY DEF Init
<1>2. \A s \in secrets : s.name \in Foreign
  BY DEF Init
<1>3. UniqueNames
  <2>1. \A p \in pods : p = [name |-> p.name, uid |-> 1, phase |-> "Succeeded",
                            ends |-> {0}, lost |-> FALSE, pulls |-> FALSE]
    BY DEF Init
  <2>2. \A s \in secrets : s = [name |-> s.name, uid |-> 1, created |-> 0, owner |-> 0]
    BY DEF Init
  <2> QED
    BY <2>1, <2>2 DEF UniqueNames
<1>4. UsedUids
  BY <1>1, <1>2 DEF Init, UsedUids, Foreign
<1>5. PreparingIsYoung /\ RunningIsLinked /\ InFlightKeepsSecret
  BY DEF Init, PreparingIsYoung, RunningIsLinked, InFlightKeepsSecret
<1>6. SweepInv
  BY DEF Init, SweepInv, NowIsPast, RefsComplete, RefsEnough, ItemsFresh, PodItemsFresh
<1> QED
  BY <1>3, <1>4, <1>5, <1>6 DEF ClusterInv

\* A Secret whose job still prepares is not old for the run in progress.
LEMMA PreparingIsNotOld ==
    ASSUME IInv, pc # "idle", NEW s \in secrets, s.name \in JobNames,
           job[s.name] = "preparing"
    PROVE  ~OldEnough(s, now)
<1>1. clock <= s.created + MaxPrep
  BY DEF IInv, ClusterInv, PreparingIsYoung
<1>2. now <= clock + MaxSkew
  BY DEF IInv, SweepInv, NowIsPast
<1>3. s.created \in Nat /\ clock \in Nat /\ now \in Int
  BY DEF IInv, TypeInv, TypeOK, Secret
<1> QED
  BY <1>1, <1>2, <1>3, GraceAssumption, TimesAssumption DEF OldEnough

LEMMA TickInv == ASSUME IInv, Tick PROVE ClusterInv' /\ SweepInv'
<1>1. /\ clock' = clock + 1 /\ clock \in Nat /\ now \in Int
      /\ \A s \in secrets : s.created \in Nat
      /\ UNCHANGED <<job, gen, pods, secrets, pc, now, todo, stage, first, rest, page, refs>>
  BY DEF Tick, reaper, cursor, IInv, TypeInv, TypeOK, Secret
<1>2. PreparingIsYoung'
  BY <1>1, TimesAssumption DEF Tick, IInv, ClusterInv, PreparingIsYoung
<1>3. NowIsPast'
  BY <1>1, TimesAssumption DEF IInv, SweepInv, NowIsPast
<1>4. (UniqueNames /\ UsedUids /\ RunningIsLinked /\ InFlightKeepsSecret)'
  BY <1>1 DEF IInv, ClusterInv, UniqueNames, UsedUids, RunningIsLinked, InFlightKeepsSecret
<1>5. (RefsComplete /\ RefsEnough /\ ItemsFresh /\ PodItemsFresh)'
  BY <1>1 DEF IInv, SweepInv, RefsComplete, RefsEnough, ItemsFresh, PodItemsFresh,
              OldAndRunning, OldEnough, Referenced, MergeRefs, RefsOf
<1> QED
  BY <1>2, <1>3, <1>4, <1>5 DEF ClusterInv, SweepInv

LEMMA CreateSecretInv ==
    ASSUME IInv, NEW n \in JobNames, CreateSecret(n)
    PROVE  ClusterInv' /\ SweepInv'
<1> DEFINE r == [name |-> n, uid |-> gen[n] + 1, created |-> clock, owner |-> 0]
<1>1. /\ \A x \in pods \cup secrets : x.name # n
      /\ gen' = [gen EXCEPT ![n] = gen[n] + 1]
      /\ job' = [job EXCEPT ![n] = "preparing"]
      /\ secrets' = secrets \cup {r}
      /\ UNCHANGED <<clock, pods, pc, now, todo, stage, first, rest, page, refs>>
  BY DEF CreateSecret, reaper, cursor
<1>2. /\ clock \in Nat /\ gen \in [JobNames -> Nat]
      /\ job \in [JobNames -> {"none", "preparing", "running"}]
      /\ secrets \subseteq Secret /\ page \cup rest \subseteq Pod \cup Secret
  BY DEF IInv, TypeInv, TypeOK
<1>3. r.name = n /\ r.uid = gen[n] + 1 /\ r.created = clock
  OBVIOUS
<1>4. \A m \in JobNames : gen[m] <= gen'[m]
  BY <1>1, <1>2
<1> HIDE DEF r
<1>5. UniqueNames'
  BY <1>1, <1>3 DEF IInv, ClusterInv, UniqueNames
<1>6. UsedUids'
  <2>1. \A x \in Pod \cup Secret : x.uid \in Nat
    BY DEF Pod, Secret
  <2>2. gen' \in [JobNames -> Nat] /\ r.uid <= gen'[n]
    BY <1>1, <1>2, <1>3
  <2> QED
    BY <1>1, <1>2, <1>3, <1>4, <2>1, <2>2 DEF IInv, ClusterInv, UsedUids
<1>7. PreparingIsYoung'
  BY <1>1, <1>2, <1>3, TimesAssumption DEF IInv, ClusterInv, PreparingIsYoung
<1>8. RunningIsLinked'
  BY <1>1, <1>2, <1>3 DEF IInv, ClusterInv, RunningIsLinked
<1>9. InFlightKeepsSecret'
  BY <1>1, <1>2, <1>3 DEF IInv, ClusterInv, InFlightKeepsSecret
<1>10. NowIsPast'
  BY <1>1 DEF IInv, SweepInv, NowIsPast
<1>11. \A s \in secrets' : OldAndRunning(s)' => s \in secrets /\ OldAndRunning(s)
  BY <1>1, <1>2, <1>3 DEF OldAndRunning, OldEnough
<1>12. (RefsComplete /\ RefsEnough)'
  BY <1>1, <1>11 DEF IInv, SweepInv, RefsComplete, RefsEnough,
                     Referenced, MergeRefs, RefsOf
<1>13. ItemsFresh'
  <2>1. stage = "secrets" => \A x \in page \cup rest : x.name = n => x.uid # r.uid
    <3>1. \A x \in page \cup rest : x.uid \in Nat
      BY <1>2 DEF Pod, Secret
    <3>2. stage = "secrets" => \A x \in page \cup rest : x.name = n => x.uid <= gen[n]
      BY DEF IInv, ClusterInv, UsedUids
    <3> QED
      BY <1>2, <1>3, <3>1, <3>2
  <2> QED
    BY <1>1, <1>3, <1>11, <2>1 DEF IInv, SweepInv, ItemsFresh
<1>14. PodItemsFresh'
  <2>1. stage \in TerminalPhases =>
          \A x \in page \cup rest : x.name = n => x.uid < gen'[n]
    <3>1. \A x \in page \cup rest : x.uid \in Nat
      BY <1>2 DEF Pod, Secret
    <3>2. stage \in TerminalPhases =>
            \A x \in page \cup rest : x.name = n => x.uid <= gen[n]
      BY DEF IInv, ClusterInv, UsedUids
    <3> QED
      BY <1>1, <1>2, <3>1, <3>2
  <2> QED
    BY <1>1, <1>2, <2>1 DEF IInv, SweepInv, PodItemsFresh
<1> QED
  BY <1>5, <1>6, <1>7, <1>8, <1>9, <1>10, <1>12, <1>13, <1>14 DEF ClusterInv, SweepInv

LEMMA CreatePodInv ==
    ASSUME IInv, NEW n \in JobNames, CreatePod(n)
    PROVE  ClusterInv' /\ SweepInv'
<1>1. PICK pulls \in BOOLEAN :
        /\ pods' = pods \cup
              {[name |-> n, uid |-> gen[n], phase |-> "Running", ends |-> {},
                lost |-> FALSE, pulls |-> pulls]}
        /\ secrets' = {IF s.name = n /\ ~pulls THEN [s EXCEPT !.owner = gen[n]]
                                               ELSE s : s \in secrets}
  BY DEF CreatePod
<1>2. /\ job[n] = "preparing" /\ job' = [job EXCEPT ![n] = "running"]
      /\ UNCHANGED <<clock, gen, pc, now, todo, stage, first, rest, page, refs>>
  BY DEF CreatePod, reaper, cursor
<1>3. /\ gen \in [JobNames -> Nat] /\ job \in [JobNames -> {"none", "preparing", "running"}]
      /\ secrets \subseteq Secret
  BY DEF IInv, TypeInv, TypeOK
<1>4. PICK w \in pods' :
        /\ w.name = n /\ w.uid = gen[n] /\ w.phase = "Running" /\ w.pulls = pulls
        /\ pods' = pods \cup {w}
  BY <1>1
<1>5. \A z \in secrets' : \E s \in secrets :
        /\ z.name = s.name /\ z.uid = s.uid /\ z.created = s.created
        /\ z.name # n => z = s
        /\ z.name = n => pulls \/ z.owner = gen[n]
  <2>1. \A s \in secrets : LET z == [s EXCEPT !.owner = gen[n]] IN
          z.name = s.name /\ z.uid = s.uid /\ z.created = s.created /\ z.owner = gen[n]
    BY <1>3, WithOwnerType
  <2> QED
    BY <1>1, <2>1
<1>6. \A s \in secrets : \E z \in secrets' : z.name = s.name /\ z.uid = s.uid
  <2>1. \A s \in secrets : LET z == [s EXCEPT !.owner = gen[n]] IN
          z.name = s.name /\ z.uid = s.uid
    BY <1>3, WithOwnerType
  <2> QED
    BY <1>1, <2>1
<1>7. UniqueNames'
  <2>1. \A p, q \in pods' : p.name = q.name => p = q
    BY <1>2, <1>4 DEF IInv, ClusterInv, UniqueNames, PreparingIsYoung
  <2>2. \A s, z \in secrets' : s.name = z.name => s = z
    <3> DEFINE F(s) == IF s.name = n /\ ~pulls THEN [s EXCEPT !.owner = gen[n]] ELSE s
    <3>1. secrets' = {F(s) : s \in secrets}
      BY <1>1
    <3>2. \A s \in secrets : F(s).name = s.name
      BY <1>3, WithOwnerType
    <3>3. \A s, z \in secrets : s.name = z.name => s = z
      BY DEF IInv, ClusterInv, UniqueNames
    <3> HIDE DEF F
    <3> QED
      BY <3>1, <3>2, <3>3
  <2> QED
    BY <2>1, <2>2 DEF UniqueNames
<1>8. UsedUids'
  BY <1>2, <1>3, <1>4, <1>5 DEF IInv, ClusterInv, UsedUids
<1>9. PreparingIsYoung'
  BY <1>2, <1>3, <1>4, <1>5 DEF IInv, ClusterInv, PreparingIsYoung
<1>10. RunningIsLinked'
  <2> SUFFICES ASSUME NEW m \in JobNames, job'[m] = "running"
               PROVE  \E p \in pods' :
                        /\ p.name = m /\ p.phase = "Running"
                        /\ \A s \in secrets' : s.name = m => p.pulls \/ s.owner = p.uid
    BY DEF RunningIsLinked
  <2>1. CASE m = n
    BY <1>4, <1>5, <2>1
  <2>2. CASE m # n
    <3>1. job[m] = "running"
      BY <1>2, <1>3, <2>2
    <3>2. PICK p \in pods : /\ p.name = m /\ p.phase = "Running"
                            /\ \A s \in secrets : s.name = m => p.pulls \/ s.owner = p.uid
      BY <3>1 DEF IInv, ClusterInv, RunningIsLinked
    <3> QED
      BY <1>4, <1>5, <2>2, <3>2
  <2> QED
    BY <2>1, <2>2
<1>11. InFlightKeepsSecret'
  <2>1. \A m \in JobNames : job'[m] # "none" => job[m] # "none"
    BY <1>2, <1>3
  <2>2. \A m \in JobNames : job'[m] # "none" =>
          \E s \in secrets : s.name = m /\ s.uid = gen'[m]
    BY <1>2, <2>1 DEF IInv, ClusterInv, InFlightKeepsSecret
  <2> HIDE DEF InFlightKeepsSecret
  <2>3. \A m \in JobNames : job'[m] # "none" =>
          \E z \in secrets' : z.name = m /\ z.uid = gen'[m]
    BY <1>6, <2>2
  <2> QED
    BY <2>3 DEF InFlightKeepsSecret
<1>12. NowIsPast'
  BY <1>2 DEF IInv, SweepInv, NowIsPast
<1>13. ASSUME stage # "Succeeded", NEW z \in secrets', OldAndRunning(z)'
       PROVE  z.name # n /\ z \in secrets /\ OldAndRunning(z)
  <2>1. PICK s \in secrets : /\ z.name = s.name /\ z.created = s.created
                             /\ z.name # n => z = s
    BY <1>5
  <2>2. OldEnough(s, now)
    BY <1>2, <1>13, <2>1 DEF OldAndRunning, OldEnough
  <2>3. pc # "idle"
    BY <1>13 DEF IInv, SweepInv, NowIsPast
  <2>4. z.name # n
    BY <1>2, <2>1, <2>2, <2>3, PreparingIsNotOld
  <2> QED
    BY <1>2, <1>3, <1>13, <2>1, <2>4 DEF OldAndRunning, OldEnough
<1>14. (RefsComplete /\ RefsEnough)'
  BY <1>2, <1>13 DEF IInv, SweepInv, RefsComplete, RefsEnough,
                     Referenced, MergeRefs, RefsOf
<1>15. ItemsFresh'
  <2> SUFFICES ASSUME stage = "secrets", NEW x \in page \cup rest
               PROVE  /\ NsOf[x.name] = Head(todo)
                      /\ \A z \in secrets' : z.name = x.name /\ z.uid = x.uid =>
                            /\ z.created = x.created
                            /\ OldAndRunning(z)' => z.owner = x.owner
    BY <1>2 DEF ItemsFresh
  <2>1. NsOf[x.name] = Head(todo)
    BY DEF IInv, SweepInv, ItemsFresh
  <2>2. ASSUME NEW z \in secrets', z.name = x.name, z.uid = x.uid
        PROVE  z.created = x.created /\ (OldAndRunning(z)' => z.owner = x.owner)
    <3>1. PICK s \in secrets : z.name = s.name /\ z.uid = s.uid /\ z.created = s.created
      BY <1>5
    <3>2. s.created = x.created
      BY <2>2, <3>1 DEF IInv, SweepInv, ItemsFresh
    <3>3. OldAndRunning(z)' => z.owner = x.owner
      BY <1>13, <2>2 DEF IInv, SweepInv, ItemsFresh
    <3> QED
      BY <3>1, <3>2, <3>3
  <2> QED
    BY <2>1, <2>2
<1>16. PodItemsFresh'
  <2>1. stage \in TerminalPhases =>
          \A x \in page \cup rest : x.name = n => x.uid < gen[n]
    BY <1>2 DEF IInv, SweepInv, PodItemsFresh
  <2>2. stage \in TerminalPhases =>
          \A x \in page \cup rest : ~(w.name = x.name /\ w.uid = x.uid)
    BY <1>3, <1>4, <2>1
  <2> QED
    BY <1>2, <1>3, <1>4, <2>2 DEF IInv, SweepInv, PodItemsFresh
<1> QED
  BY <1>7, <1>8, <1>9, <1>10, <1>11, <1>12, <1>14, <1>15, <1>16 DEF ClusterInv, SweepInv

\* The other steps of a job: it ends, or leaves something behind, or what it
\* left behind is removed.
LEMMA JobOverInv ==
    ASSUME IInv,
           pods' \subseteq pods, secrets' \subseteq secrets,
           job' \in [JobNames -> {"none", "preparing", "running"}],
           \A n \in JobNames : job'[n] # "none" => job'[n] = job[n],
           \A n \in JobNames : job'[n] = "running" => \A p \in pods :
                p.name = n /\ p.phase = "Running" => p \in pods',
           \A n \in JobNames : job'[n] # "none" => \A s \in secrets :
                s.name = n => s \in secrets',
           UNCHANGED <<clock, gen, reaper>>
    PROVE  ClusterInv' /\ SweepInv'
<1>1. UNCHANGED <<pc, now, todo, stage, first, rest, page, refs>>
  BY DEF reaper, cursor
<1>2. (UniqueNames /\ UsedUids)'
  BY <1>1 DEF IInv, ClusterInv, UniqueNames, UsedUids
<1>3. PreparingIsYoung'
  BY <1>1 DEF IInv, ClusterInv, PreparingIsYoung
<1>4. RunningIsLinked'
  BY <1>1 DEF IInv, ClusterInv, RunningIsLinked
<1>5. InFlightKeepsSecret'
  BY <1>1 DEF IInv, ClusterInv, InFlightKeepsSecret
<1>6. \A s \in secrets' : OldAndRunning(s)' => OldAndRunning(s)
  BY <1>1 DEF OldAndRunning, OldEnough
<1>7. (NowIsPast /\ RefsComplete /\ RefsEnough)'
  BY <1>1, <1>6 DEF IInv, SweepInv, NowIsPast, RefsComplete, RefsEnough,
                    Referenced, MergeRefs, RefsOf
<1>8. ItemsFresh'
  BY <1>1, <1>6 DEF IInv, SweepInv, ItemsFresh
<1>9. PodItemsFresh'
  BY <1>1 DEF IInv, SweepInv, PodItemsFresh
<1> QED
  BY <1>2, <1>3, <1>4, <1>5, <1>7, <1>8, <1>9 DEF ClusterInv, SweepInv

\* A pod changes but keeps its name and its reference to the Secret.
LEMMA PodChangesInv ==
    ASSUME IInv, NEW p \in pods, NEW q,
           p.phase = "Running", q.name = p.name, q.uid = p.uid, q.pulls = p.pulls,
           pods' = (pods \ {p}) \cup {q},
           job' \in [JobNames -> {"none", "preparing", "running"}],
           \A n \in JobNames : job'[n] # "none" => job'[n] = job[n],
           p.name \in JobNames /\ job'[p.name] = "running" => q.phase = p.phase,
           UNCHANGED <<clock, gen, secrets, reaper>>
    PROVE  ClusterInv' /\ SweepInv'
<1>1. UNCHANGED <<pc, now, todo, stage, first, rest, page, refs>>
  BY DEF reaper, cursor
<1>2. UniqueNames'
  BY DEF IInv, ClusterInv, UniqueNames
<1>3. UsedUids'
  BY <1>1 DEF IInv, ClusterInv, UsedUids
<1>4. PreparingIsYoung'
  BY <1>1 DEF IInv, ClusterInv, PreparingIsYoung
<1>5. RunningIsLinked'
  <2> SUFFICES ASSUME NEW m \in JobNames, job'[m] = "running"
               PROVE  \E w \in pods' :
                        /\ w.name = m /\ w.phase = "Running"
                        /\ \A s \in secrets : s.name = m => w.pulls \/ s.owner = w.uid
    BY DEF RunningIsLinked
  <2>1. PICK w \in pods : /\ w.name = m /\ w.phase = "Running"
                          /\ \A s \in secrets : s.name = m => w.pulls \/ s.owner = w.uid
    BY DEF IInv, ClusterInv, RunningIsLinked
  <2>2. CASE w = p
    <3>1. q \in pods' /\ q.name = m /\ q.phase = "Running" /\ q.pulls = w.pulls /\ q.uid = w.uid
      BY <2>1, <2>2
    <3> QED
      BY <2>1, <3>1
  <2>3. CASE w # p
    BY <2>1, <2>3
  <2> QED
    BY <2>2, <2>3
<1>6. InFlightKeepsSecret'
  BY <1>1 DEF IInv, ClusterInv, InFlightKeepsSecret
<1>7. \A s \in secrets' : OldAndRunning(s)' => OldAndRunning(s)
  BY <1>1 DEF OldAndRunning, OldEnough
<1>8. (NowIsPast /\ RefsComplete /\ RefsEnough /\ ItemsFresh)'
  BY <1>1, <1>7 DEF IInv, SweepInv, NowIsPast, RefsComplete, RefsEnough, ItemsFresh,
                    Referenced, MergeRefs, RefsOf
<1>9. PodItemsFresh'
  <2> SUFFICES ASSUME stage \in TerminalPhases, NEW x \in page \cup rest
               PROVE  /\ x.phase \in TerminalPhases /\ x.name \in Labelled
                      /\ x.name \in JobNames /\ job'[x.name] = "preparing" =>
                            x.uid < gen[x.name]
                      /\ \A w \in pods' : w.name = x.name /\ w.uid = x.uid => w = x
    BY <1>1 DEF PodItemsFresh
  <2>1. /\ x.phase \in TerminalPhases /\ x.name \in Labelled
        /\ x.name \in JobNames /\ job[x.name] = "preparing" => x.uid < gen[x.name]
        /\ \A w \in pods : w.name = x.name /\ w.uid = x.uid => w = x
    BY DEF IInv, SweepInv, PodItemsFresh
  <2>2. ~(p.name = x.name /\ p.uid = x.uid)
    BY <2>1 DEF TerminalPhases
  <2> QED
    BY <2>1, <2>2
<1> QED
  BY <1>2, <1>3, <1>4, <1>5, <1>6, <1>8, <1>9 DEF ClusterInv, SweepInv

LEMMA EnvironmentInv ==
    ASSUME IInv, Environment
    PROVE  ClusterInv' /\ SweepInv'
<1>0. /\ job \in [JobNames -> {"none", "preparing", "running"}]
      /\ pods \subseteq Pod /\ clock \in Nat
  BY DEF IInv, TypeInv, TypeOK
<1>1. CASE Tick
  BY <1>1, TickInv
<1>2. ASSUME NEW n \in JobNames, CreateSecret(n) PROVE ClusterInv' /\ SweepInv'
  BY <1>2, CreateSecretInv
<1>3. ASSUME NEW n \in JobNames, CreatePod(n) PROVE ClusterInv' /\ SweepInv'
  BY <1>3, CreatePodInv
<1>4. ASSUME NEW n \in JobNames, AbandonJob(n) PROVE ClusterInv' /\ SweepInv'
  BY <1>0, <1>4, JobOverInv DEF AbandonJob
<1>5. ASSUME NEW p \in pods, ContainerEnds(p) PROVE ClusterInv' /\ SweepInv'
  <2>1. PICK q \in {[p EXCEPT !.ends = {clock}], [p EXCEPT !.lost = TRUE]} :
          pods' = (pods \ {p}) \cup {q}
    BY <1>5 DEF ContainerEnds
  <2>2. q.name = p.name /\ q.uid = p.uid /\ q.pulls = p.pulls /\ q.phase = p.phase
    BY <1>0, <2>1 DEF Pod
  <2>3. UNCHANGED <<clock, job, gen, secrets, reaper>>
    BY <1>5 DEF ContainerEnds
  <2> QED
    BY <1>0, <1>5, <2>1, <2>2, <2>3, PodChangesInv DEF ContainerEnds
<1>6. ASSUME NEW p \in pods, JobEnds(p) PROVE ClusterInv' /\ SweepInv'
  <2>1. PICK phase \in TerminalPhases, ends \in {p.ends, p.ends \cup {clock}} :
          pods' = (pods \ {p}) \cup {[p EXCEPT !.phase = phase, !.ends = ends]}
    BY <1>6 DEF JobEnds
  <2> DEFINE q == [p EXCEPT !.phase = phase, !.ends = ends]
  <2>2. q.name = p.name /\ q.uid = p.uid /\ q.pulls = p.pulls
    BY <1>0 DEF Pod
  <2>3. /\ p.name \in JobNames
        /\ job' = [job EXCEPT ![p.name] = "none"]
        /\ p.phase = "Running"
        /\ UNCHANGED <<clock, gen, secrets, reaper>>
    BY <1>6 DEF JobEnds
  <2>4. /\ job' \in [JobNames -> {"none", "preparing", "running"}]
        /\ \A n \in JobNames : job'[n] # "none" => job'[n] = job[n]
        /\ job'[p.name] # "running"
    BY <1>0, <2>3
  <2> HIDE DEF q
  <2> QED
    BY <2>1, <2>2, <2>3, <2>4, PodChangesInv DEF q
<1>7. ASSUME NEW p \in pods, PodRemoved(p) PROVE ClusterInv' /\ SweepInv'
  <2>1. /\ p.name \in JobNames /\ pods' = pods \ {p}
        /\ job' = [job EXCEPT ![p.name] = IF p.phase = "Running" THEN "none" ELSE job[p.name]]
        /\ UNCHANGED <<clock, gen, secrets, reaper>>
    BY <1>7 DEF PodRemoved
  <2>2. /\ job' \in [JobNames -> {"none", "preparing", "running"}]
        /\ \A n \in JobNames : job'[n] # "none" => job'[n] = job[n]
    BY <1>0, <2>1
  <2>3. \A n \in JobNames : job'[n] = "running" => \A w \in pods :
                w.name = n /\ w.phase = "Running" => w \in pods'
    BY <1>0, <2>1
  <2> QED
    BY <2>1, <2>2, <2>3, JobOverInv
<1>8. ASSUME NEW s \in secrets, SecretRemoved(s) PROVE ClusterInv' /\ SweepInv'
  BY <1>0, <1>8, JobOverInv DEF SecretRemoved
<1> QED
  BY <1>1, <1>2, <1>3, <1>4, <1>5, <1>6, <1>7, <1>8 DEF Environment

-----------------------------------------------------------------------------
(* The invariant under the steps of the sweep. *)

\* A list that is over, or not begun, says nothing yet.
LEMMA FreshStageInv ==
    ASSUME IInv, UNCHANGED cluster, page' = {}, rest' = {},
           \/ stage' \in TerminalPhases
           \/ stage' = "refs" /\ first',
           pc' = "idle" => stage' = "Succeeded",
           pc' # "idle" => (pc # "idle" /\ now' = now) \/ now' <= clock + MaxSkew
    PROVE  ClusterInv' /\ SweepInv'
<1>1. UNCHANGED <<clock, job, gen, pods, secrets>>
  BY DEF cluster
<1>2. ClusterInv'
  BY <1>1 DEF IInv, ClusterInv, UniqueNames, UsedUids, PreparingIsYoung,
              RunningIsLinked, InFlightKeepsSecret
<1>3. NowIsPast'
  BY <1>1 DEF IInv, SweepInv, NowIsPast
<1>4. (RefsComplete /\ RefsEnough /\ ItemsFresh)'
  BY DEF RefsComplete, RefsEnough, ItemsFresh, TerminalPhases
<1>5. PodItemsFresh'
  BY DEF PodItemsFresh
<1> QED
  BY <1>2, <1>3, <1>4, <1>5 DEF SweepInv

LEMMA EndRunInv ==
    ASSUME IInv, UNCHANGED cluster, NEW failed, NEW partial, EndRun(failed, partial)
    PROVE  ClusterInv' /\ SweepInv'
BY FreshStageInv DEF EndRun, TerminalPhases

LEMMA NextNamespaceInv ==
    ASSUME IInv, UNCHANGED cluster, pc # "idle", NEW failed, NextNamespace(failed)
    PROVE  ClusterInv' /\ SweepInv'
<1>1. CASE EndRun(failed, FALSE)
  BY <1>1, EndRunInv
<1>2. CASE /\ pc' = "list" /\ stage' = "Succeeded" /\ page' = {} /\ rest' = {}
           /\ now' = now
  BY <1>2, FreshStageInv DEF TerminalPhases
<1> QED
  BY <1>1, <1>2 DEF NextNamespace

LEMMA NextStageInv ==
    ASSUME IInv, UNCHANGED cluster, pc # "idle", NEW failed, NextStage(failed)
    PROVE  ClusterInv' /\ SweepInv'
<1>1. CASE GoToStage("Failed", NoRefs)
  BY <1>1, FreshStageInv DEF GoToStage, TerminalPhases
<1>2. CASE GoToStage("refs", NoRefs)
  BY <1>2, FreshStageInv DEF GoToStage
<1>3. CASE NextNamespace(failed)
  BY <1>3, NextNamespaceInv
<1> QED
  BY <1>1, <1>2, <1>3 DEF NextStage

\* References only grow as pages are read.
LEMMA RefsOfParts ==
    ASSUME NEW A, NEW B, NEW r, NEW s,
           Referenced(s, MergeRefs(r, RefsOf(A \cup B)))
    PROVE  Referenced(s, MergeRefs(MergeRefs(r, RefsOf(A)), RefsOf(B)))
BY DEF Referenced, MergeRefs, RefsOf

\* The first page belongs to a list of all pods; an old Secret's running job
\* has its pod on it.
LEMMA SnapshotRefers ==
    ASSUME IInv, pc = "list", stage = "refs", NEW s \in secrets, OldAndRunning(s)
    PROVE  Referenced(s, MergeRefs(refs, RefsOf(Snapshot)))
<1>1. CASE ~first
  BY <1>1 DEF IInv, SweepInv, RefsComplete, Snapshot
<1>2. CASE first
  <2>1. PICK p \in pods : p.name = s.name /\ (p.pulls \/ s.owner = p.uid)
    BY DEF IInv, ClusterInv, RunningIsLinked, OldAndRunning
  <2>2. p \in Snapshot
    BY <1>2, <2>1 DEF Snapshot, Listed, OldAndRunning
  <2>3. <<p.name, p.uid>> \in RefsOf(Snapshot).uids
    BY <2>2 DEF RefsOf
  <2>4. p.pulls => p.name \in RefsOf(Snapshot).pulls
    BY <2>2 DEF RefsOf
  <2> QED
    BY <2>1, <2>3, <2>4 DEF Referenced, MergeRefs
<1> QED
  BY <1>1, <1>2

LEMMA StartRunInv == ASSUME IInv, StartRun PROVE ClusterInv' /\ SweepInv'
<1>1. PICK skew \in (-MaxSkew)..MaxSkew : now' = clock + skew
  BY DEF StartRun
<1>2. clock \in Nat
  BY DEF IInv, TypeInv, TypeOK
<1>3. now' <= clock + MaxSkew
  BY <1>1, <1>2, TimesAssumption
<1>4. /\ UNCHANGED cluster /\ page' = {} /\ rest' = {}
      /\ stage' = "Succeeded" /\ pc' = "list"
  BY DEF StartRun
<1> QED
  BY <1>3, <1>4, FreshStageInv DEF TerminalPhases

LEMMA GetPageInv == ASSUME IInv, GetPage PROVE ClusterInv' /\ SweepInv'
<1>1. /\ UNCHANGED <<clock, job, gen, pods, secrets, now, todo, stage, refs>>
      /\ pc = "list" /\ pc' = "items" /\ stage # "refs"
      /\ page' \cup rest' \subseteq Snapshot
  BY PageIsPart DEF GetPage, cluster
<1>2. stage \in TerminalPhases \/ stage = "secrets"
  BY <1>1 DEF IInv, TypeInv, TypeOK, Stages, TerminalPhases
<1>3. (UniqueNames /\ PreparingIsYoung /\ RunningIsLinked /\ InFlightKeepsSecret)'
  BY <1>1 DEF IInv, ClusterInv, UniqueNames, PreparingIsYoung,
              RunningIsLinked, InFlightKeepsSecret
<1>4. UsedUids'
  <2>1. \A x \in Snapshot : x.name \in JobNames => x.uid <= gen[x.name]
    BY <1>2 DEF IInv, ClusterInv, UsedUids, Snapshot, Listed
  <2> QED
    BY <1>1, <2>1 DEF IInv, ClusterInv, UsedUids
<1>5. (NowIsPast /\ RefsComplete /\ RefsEnough)'
  BY <1>1 DEF IInv, SweepInv, NowIsPast, RefsComplete, RefsEnough, OldAndRunning,
              OldEnough, Referenced
<1>6. ItemsFresh'
  <2> SUFFICES ASSUME stage = "secrets", NEW x \in Snapshot
               PROVE  /\ NsOf[x.name] = Head(todo)
                      /\ \A s \in secrets : s.name = x.name /\ s.uid = x.uid =>
                            /\ s.created = x.created
                            /\ OldAndRunning(s) => s.owner = x.owner
    BY <1>1 DEF ItemsFresh, OldAndRunning, OldEnough
  <2>1. CASE first
    <3>1. x \in secrets /\ NsOf[x.name] = Head(todo)
      BY <2>1 DEF Snapshot, Listed
    <3> QED
      BY <3>1 DEF IInv, ClusterInv, UniqueNames
  <2>2. CASE ~first
    BY <2>2 DEF IInv, SweepInv, ItemsFresh, Snapshot
  <2> QED
    BY <2>1, <2>2
<1>7. PodItemsFresh'
  <2> SUFFICES ASSUME stage \in TerminalPhases, NEW x \in Snapshot
               PROVE  /\ x.phase \in TerminalPhases /\ x.name \in Labelled
                      /\ x.name \in JobNames /\ job[x.name] = "preparing" =>
                            x.uid < gen[x.name]
                      /\ \A p \in pods : p.name = x.name /\ p.uid = x.uid => p = x
    BY <1>1 DEF PodItemsFresh
  <2>1. CASE first
    <3>1. x \in pods /\ x.phase = stage /\ x.name \in Labelled
      BY <1>1, <2>1 DEF Snapshot, Listed, TerminalPhases
    <3> QED
      BY <3>1 DEF IInv, ClusterInv, UniqueNames, PreparingIsYoung
  <2>2. CASE ~first
    BY <2>2 DEF IInv, SweepInv, PodItemsFresh, Snapshot
  <2> QED
    BY <2>1, <2>2
<1> QED
  BY <1>3, <1>4, <1>5, <1>6, <1>7 DEF ClusterInv, SweepInv

LEMMA GetRefsPageInv == ASSUME IInv, GetRefsPage PROVE ClusterInv' /\ SweepInv'
<1> DEFINE some == PageOf(Snapshot)
           more == Snapshot \ some
           seen == MergeRefs(refs, RefsOf(some))
<1>1. /\ UNCHANGED <<clock, job, gen, pods, secrets>>
      /\ pc = "list" /\ stage = "refs"
  BY DEF GetRefsPage, cluster
<1>2. \/ more = {} /\ GoToStage("secrets", seen)
      \/ EndRun(errs, TRUE)
      \/ /\ refs' = seen /\ rest' = more /\ first' = FALSE
         /\ UNCHANGED <<pc, now, todo, stage, page, errs, report>>
  BY DEF GetRefsPage
<1>3. \A s \in secrets : OldAndRunning(s) => Referenced(s, MergeRefs(seen, RefsOf(more)))
  <2>1. Snapshot = some \cup more
    BY PageIsPart
  <2>2. \A s \in secrets : OldAndRunning(s) =>
          Referenced(s, MergeRefs(refs, RefsOf(some \cup more)))
    BY <1>1, <2>1, SnapshotRefers
  <2> HIDE DEF some, more
  <2> QED
    BY <2>2, RefsOfParts
<1> HIDE DEF some, more, seen
<1>4. CASE more = {} /\ GoToStage("secrets", seen)
  <2>1. /\ pc' = "list" /\ stage' = "secrets" /\ page' = {} /\ rest' = {}
        /\ refs' = seen /\ UNCHANGED <<now, todo>>
    BY <1>4 DEF GoToStage
  <2>2. ClusterInv'
    BY <1>1, <2>1 DEF IInv, ClusterInv, UniqueNames, UsedUids, PreparingIsYoung,
                      RunningIsLinked, InFlightKeepsSecret
  <2>3. NowIsPast'
    BY <1>1, <2>1 DEF IInv, SweepInv, NowIsPast
  <2>4. RefsEnough'
    <3>1. \A s \in secrets : OldAndRunning(s) => Referenced(s, seen)
      BY <1>3, <1>4 DEF Referenced, MergeRefs, RefsOf
    <3> QED
      BY <1>1, <2>1, <3>1 DEF RefsEnough, OldAndRunning, OldEnough, Referenced
  <2>5. (RefsComplete /\ ItemsFresh /\ PodItemsFresh)'
    BY <2>1 DEF RefsComplete, ItemsFresh, PodItemsFresh, TerminalPhases
  <2> QED
    BY <2>2, <2>3, <2>4, <2>5 DEF SweepInv
<1>5. CASE EndRun(errs, TRUE)
  BY <1>1, <1>5, EndRunInv DEF cluster
<1>6. CASE /\ refs' = seen /\ rest' = more /\ first' = FALSE
           /\ UNCHANGED <<pc, now, todo, stage, page, errs, report>>
  <2>1. ClusterInv'
    BY <1>1, <1>6 DEF IInv, ClusterInv, UniqueNames, UsedUids, PreparingIsYoung,
                      RunningIsLinked, InFlightKeepsSecret, TerminalPhases
  <2>2. NowIsPast'
    BY <1>1, <1>6 DEF IInv, SweepInv, NowIsPast
  <2>3. RefsComplete'
    BY <1>1, <1>3, <1>6 DEF RefsComplete, OldAndRunning, OldEnough, Referenced,
                            MergeRefs, RefsOf
  <2>4. (RefsEnough /\ ItemsFresh /\ PodItemsFresh)'
    BY <1>1, <1>6 DEF RefsEnough, ItemsFresh, PodItemsFresh, TerminalPhases
  <2> QED
    BY <2>1, <2>2, <2>3, <2>4 DEF SweepInv
<1> QED
  BY <1>2, <1>4, <1>5, <1>6

\* Looking at an item, whatever comes of it, leaves the cursor as it is.
ItemStep(x) ==
    /\ page' = page \ {x}
    /\ UNCHANGED <<clock, job, gen, pc, now, todo, stage, first, rest, refs>>

\* The heart of the matter: a Secret the sweep decides on is no job's.
LEMMA EligibleIsLeaked ==
    ASSUME IInv, pc = "items", stage = "secrets", NEW x \in page, Eligible(x),
           NEW s \in secrets, Precondition(x, s), s.name \in JobNames
    PROVE  job[s.name] = "none"
<1>1. s.name = x.name /\ s.uid = x.uid
  BY DEF Precondition
<1>2. /\ NsOf[s.name] = Head(todo)
      /\ s.created = x.created
      /\ OldAndRunning(s) => s.owner = x.owner
  BY <1>1 DEF IInv, SweepInv, ItemsFresh
<1>3. OldEnough(s, now) /\ ~Referenced(x, refs)
  BY <1>2 DEF Eligible, SecretEligible, OldEnough
<1>4. job[s.name] # "preparing"
  BY <1>3, PreparingIsNotOld
<1>5. job[s.name] # "running"
  <2> SUFFICES ASSUME job[s.name] = "running" PROVE FALSE
    OBVIOUS
  <2>1. OldAndRunning(s)
    BY <1>2, <1>3 DEF OldAndRunning
  <2>2. Referenced(s, refs)
    BY <2>1 DEF IInv, SweepInv, RefsEnough
  <2> QED
    BY <1>1, <1>2, <1>3, <2>1, <2>2 DEF Referenced
<1>6. job[s.name] \in {"none", "preparing", "running"}
  BY DEF IInv, TypeInv, TypeOK
<1> QED
  BY <1>4, <1>5, <1>6

\* A pod the sweep decides on has ended, and long ago.
LEMMA EligibleIsStale ==
    ASSUME IInv, pc = "items", stage # "secrets", NEW x \in page, Eligible(x),
           NEW p \in pods, Precondition(x, p)
    PROVE  /\ p.name \in JobNames /\ p.phase \in TerminalPhases
           /\ \A e \in p.ends : clock - e >= MaxAge - MaxSkew
<1>1. stage \in TerminalPhases
  BY DEF IInv, TypeInv, TypeOK, CursorType, Stages, TerminalPhases
<1>2. x.name \in ExecNames /\ TerminalLongEnough(x, now)
  BY DEF Eligible, PodEligible
<1>3. p = x /\ x.phase \in TerminalPhases /\ x.name \in Labelled
  BY <1>1 DEF IInv, SweepInv, PodItemsFresh, Precondition
<1>4. p.name \in JobNames
  BY <1>2, <1>3, NamesAssumption
<1>5. now <= clock + MaxSkew /\ now \in Int /\ clock \in Nat /\ p.ends \subseteq Nat
  BY DEF IInv, SweepInv, NowIsPast, TypeInv, TypeOK, Pod
<1>6. \A e \in p.ends : now - e >= MaxAge
  BY <1>2, <1>3 DEF TerminalLongEnough
<1>7. \A e \in p.ends : clock - e >= MaxAge - MaxSkew
  BY <1>5, <1>6, TimesAssumption
<1> QED
  BY <1>3, <1>4, <1>7

LEMMA ItemInv ==
    ASSUME IInv, pc = "items", NEW x \in page, ItemStep(x),
           \/ UNCHANGED <<pods, secrets>>
           \/ Eligible(x) /\ RemoveItem(x)
    PROVE  ClusterInv' /\ SweepInv'
<1>1. /\ page' \subseteq page /\ pods' \subseteq pods /\ secrets' \subseteq secrets
      /\ UNCHANGED <<clock, job, gen, pc, now, todo, stage, first, rest, refs>>
  BY DEF ItemStep, RemoveItem
<1>2. \A s \in secrets : s.name \in JobNames /\ job[s.name] # "none" => s \in secrets'
  BY EligibleIsLeaked DEF RemoveItem
<1>3. \A p \in pods : p.phase = "Running" => p \in pods'
  BY EligibleIsStale DEF RemoveItem, TerminalPhases
<1>4. (UniqueNames /\ UsedUids)'
  BY <1>1 DEF IInv, ClusterInv, UniqueNames, UsedUids
<1>5. (PreparingIsYoung /\ RunningIsLinked)'
  BY <1>1, <1>3 DEF IInv, ClusterInv, PreparingIsYoung, RunningIsLinked
<1>6. InFlightKeepsSecret'
  BY <1>1, <1>2 DEF IInv, ClusterInv, InFlightKeepsSecret
<1>7. \A s \in secrets' : OldAndRunning(s)' => OldAndRunning(s)
  BY <1>1 DEF OldAndRunning, OldEnough
<1>8. (NowIsPast /\ RefsComplete /\ RefsEnough /\ ItemsFresh /\ PodItemsFresh)'
  BY <1>1, <1>7 DEF IInv, SweepInv, NowIsPast, RefsComplete, RefsEnough, ItemsFresh,
                    PodItemsFresh, Referenced, MergeRefs, RefsOf
<1> QED
  BY <1>4, <1>5, <1>6, <1>8 DEF ClusterInv, SweepInv

LEMMA ReaperInv ==
    ASSUME IInv, Reaper
    PROVE  ClusterInv' /\ SweepInv'
<1>1. CASE StartRun
  BY <1>1, StartRunInv
<1>2. CASE GetPage
  BY <1>2, GetPageInv
<1>3. CASE GetRefsPage
  BY <1>3, GetRefsPageInv
<1>4. CASE ListFails
  BY <1>4, NextStageInv DEF ListFails
<1>5. CASE PageDone
  <2>1. UNCHANGED cluster /\ pc = "items"
    BY <1>5 DEF PageDone
  <2>2. CASE pc' = "list" /\ UNCHANGED <<now, cursor, errs, report>>
    <3>1. UNCHANGED <<clock, job, gen, pods, secrets, now, todo, stage, first, rest, page, refs>>
      BY <2>1, <2>2 DEF cluster, cursor
    <3>2. ClusterInv'
      BY <3>1 DEF IInv, ClusterInv, UniqueNames, UsedUids, PreparingIsYoung,
                  RunningIsLinked, InFlightKeepsSecret
    <3>3. SweepInv'
      BY <2>1, <2>2, <3>1 DEF IInv, SweepInv, NowIsPast, RefsComplete, RefsEnough,
              ItemsFresh, PodItemsFresh, OldAndRunning, OldEnough, Referenced, MergeRefs, RefsOf
    <3> QED
      BY <3>2, <3>3
  <2>3. CASE NextStage(errs)
    BY <2>1, <2>3, NextStageInv
  <2> QED
    BY <1>5, <2>2, <2>3 DEF PageDone
<1>6. CASE BudgetStop \/ Abort
  BY <1>6, EndRunInv DEF BudgetStop, Abort
<1>7. ASSUME NEW x \in page, KeepItem(x) \/ DeleteItem(x) \/ DeleteFails(x)
      PROVE  ClusterInv' /\ SweepInv'
  <2>1. pc = "items" /\ ItemStep(x)
    BY <1>7 DEF KeepItem, DeleteItem, DeleteFails, Item, ItemStep, cluster
  <2>2. UNCHANGED <<pods, secrets>> \/ (Eligible(x) /\ RemoveItem(x))
    BY <1>7 DEF KeepItem, DeleteItem, DeleteFails, cluster
  <2> QED
    BY <2>1, <2>2, ItemInv
<1> QED
  BY <1>1, <1>2, <1>3, <1>4, <1>5, <1>6, <1>7 DEF Reaper

LEMMA Invariance == Spec => []IInv
<1>1. Init => IInv
  BY InitType, InitCluster DEF IInv
<1>2. IInv /\ [Next]_vars => IInv'
  <2> SUFFICES ASSUME IInv, [Next]_vars PROVE IInv'
    OBVIOUS
  <2>1. CASE Environment
    BY <2>1, EnvironmentType, EnvironmentInv DEF IInv
  <2>2. CASE Reaper
    BY <2>2, ReaperType, ReaperInv DEF IInv
  <2>3. CASE UNCHANGED vars
    <3>1. TypeInv'
      BY <2>3 DEF vars, cluster, cursor, IInv, TypeInv, TypeOK, CursorType
    <3>2. ClusterInv'
      BY <2>3 DEF vars, cluster, cursor, IInv, ClusterInv, UniqueNames, UsedUids,
                  PreparingIsYoung, RunningIsLinked, InFlightKeepsSecret
    <3>3. SweepInv'
      BY <2>3 DEF vars, cluster, cursor, IInv, SweepInv, NowIsPast, RefsComplete, RefsEnough,
              ItemsFresh, PodItemsFresh, OldAndRunning, OldEnough, Referenced, MergeRefs, RefsOf
    <3> QED
      BY <3>1, <3>2, <3>3 DEF IInv
  <2> QED
    BY <2>1, <2>2, <2>3 DEF Next
<1> QED
  BY <1>1, <1>2, PTL DEF Spec

-----------------------------------------------------------------------------

\* The Secret of a job in flight stays, for every number of namespaces and
\* jobs, every page size and budget, and every floor above MaxPrep + MaxSkew.
THEOREM InFlightSecretSafe == Spec => []InFlightKeepsSecret
<1>1. IInv => InFlightKeepsSecret
  BY DEF IInv, ClusterInv
<1> QED
  BY <1>1, Invariance, PTL

\* The sweep takes no pod but a job's that ended, none of whose containers
\* ended within the grace period, clocks that disagree by MaxSkew included.
THEOREM StalePodsOnly == Spec => ReapsOnlyStalePods
<1>1. IInv /\ [Next]_vars =>
        [SweepStep => \A p \in pods \ pods' :
            /\ p.name \in JobNames
            /\ p.phase \in TerminalPhases
            /\ \A e \in p.ends : clock - e >= MaxAge - MaxSkew]_vars
  <2> SUFFICES ASSUME IInv, Next, SweepStep, NEW p \in pods \ pods'
               PROVE  /\ p.name \in JobNames
                      /\ p.phase \in TerminalPhases
                      /\ \A e \in p.ends : clock - e >= MaxAge - MaxSkew
    OBVIOUS
  <2>1. CASE Environment
    <3>1. page' = page
      BY <2>1 DEF Environment, Tick, CreateSecret, CreatePod, AbandonJob, ContainerEnds,
                  JobEnds, PodRemoved, SecretRemoved, reaper, cursor
    <3> QED
      BY <3>1 DEF SweepStep
  <2>2. CASE StartRun \/ GetPage \/ GetRefsPage \/ ListFails \/ PageDone \/ BudgetStop \/ Abort
    <3>1. UNCHANGED pods
      BY <2>2 DEF StartRun, GetPage, GetRefsPage, ListFails, PageDone, BudgetStop, Abort, cluster
    <3> QED
      BY <3>1
  <2>3. ASSUME NEW x \in page, KeepItem(x) \/ DeleteItem(x) \/ DeleteFails(x)
        PROVE  /\ p.name \in JobNames
               /\ p.phase \in TerminalPhases
               /\ \A e \in p.ends : clock - e >= MaxAge - MaxSkew
    <3>1. pc = "items" /\ Eligible(x) /\ RemoveItem(x)
      BY <2>3 DEF KeepItem, DeleteItem, DeleteFails, Item, cluster
    <3>2. stage # "secrets" /\ Precondition(x, p)
      BY <3>1 DEF RemoveItem
    <3> QED
      BY <3>1, <3>2, EligibleIsStale
  <2> QED
    BY <2>1, <2>2, <2>3 DEF Next, Reaper
<1> QED
  BY <1>1, Invariance, PTL DEF Spec, ReapsOnlyStalePods

-----------------------------------------------------------------------------
(* The reaper implements LeakCollector. *)

\* Uids are counted from 1.
UidsInRange ==
    /\ \A n \in JobNames : gen[n] \in 0..MaxGen
    /\ \A o \in pods \cup secrets : o.uid \in 1..MaxGen

\* A pod that runs is that of its name's present job.
RunningIsCurrent ==
    \A p \in pods : p.phase = "Running" =>
        p.name \in JobNames /\ job[p.name] = "running" /\ p.uid = gen[p.name]

\* Beside IInv, what keeps the objects of two lives of a name apart.
UidInv == UidsInRange /\ RunningIsCurrent

\* The objects of LeakCollector, and which of them are live.
PodObject(p) == <<"pod", p.name, p.uid>>
SecretObject(s) == <<"secret", s.name, s.uid>>
InUse(p) == p.name \in Foreign \/ p.phase = "Running"
Needed(s) == IF s.name \in JobNames THEN job[s.name] # "none" ELSE s.name \notin ExecNames

\* What is live and what is leaked, kind by kind.
LivePods == {PodObject(p) : p \in {q \in pods : InUse(q)}}
DeadPods == {PodObject(p) : p \in {q \in pods : ~InUse(q)}}
LiveSecrets == {SecretObject(s) : s \in {z \in secrets : Needed(z)}}
DeadSecrets == {SecretObject(s) : s \in {z \in secrets : ~Needed(z)}}
LeakedObjects == AllObjects \ LiveObjects

\* Together they are the collector's sets.
ByKind ==
    /\ LiveObjects = LivePods \cup LiveSecrets
    /\ LeakedObjects = DeadPods \cup DeadSecrets

LEMMA KindsOfObjects == IInv => ByKind
<1> SUFFICES ASSUME IInv PROVE ByKind
  OBVIOUS
<1>1. LiveObjects = LivePods \cup LiveSecrets
  BY DEF LiveObjects, LivePods, LiveSecrets, InUse, Needed, PodObject, SecretObject
<1>2. AllObjects = LivePods \cup DeadPods \cup LiveSecrets \cup DeadSecrets
  BY DEF AllObjects, LivePods, LiveSecrets, DeadPods, DeadSecrets, PodObject, SecretObject
<1>3. LivePods \cap DeadPods = {}
  BY DEF LivePods, DeadPods, PodObject, IInv, ClusterInv, UniqueNames
<1>4. LiveSecrets \cap DeadSecrets = {}
  BY DEF LiveSecrets, DeadSecrets, SecretObject, IInv, ClusterInv, UniqueNames
<1>5. /\ LivePods \cap (LiveSecrets \cup DeadSecrets) = {}
      /\ LiveSecrets \cap (LivePods \cup DeadPods) = {}
  BY DEF LivePods, LiveSecrets, DeadPods, DeadSecrets, PodObject, SecretObject
<1> QED
  BY <1>1, <1>2, <1>3, <1>4, <1>5 DEF ByKind, LeakedObjects

\* Before and after a step.
LEMMA KindsInStep == IInv /\ IInv' => ByKind /\ ByKind'
BY KindsOfObjects, PTL

\* What a step that leaves the pods, or the Secrets and the jobs, alone shows.
LEMMA SamePods == UNCHANGED pods => UNCHANGED <<LivePods, DeadPods>>
BY DEF LivePods, DeadPods, InUse, PodObject

\* The same for the Secrets.
LEMMA SameSecrets == UNCHANGED <<secrets, job>> => UNCHANGED <<LiveSecrets, DeadSecrets>>
BY DEF LiveSecrets, DeadSecrets, Needed, SecretObject

\* A step of the model under the mapping.
Mapped == Collector!Next \/ UNCHANGED <<LiveObjects, LeakedObjects>>

\* A leaked pod goes.
LEMMA PodCollected ==
    ASSUME IInv, IInv', UidInv, NEW p \in pods, ~InUse(p), pods' = pods \ {p},
           UNCHANGED <<secrets, job>>
    PROVE  Mapped
<1> DEFINE o == PodObject(p)
<1>1. LivePods' = LivePods /\ DeadPods' = DeadPods \ {o} /\ o \in DeadPods
  BY DEF LivePods, DeadPods, PodObject, InUse, IInv, ClusterInv, UniqueNames
<1>2. o \notin LiveSecrets \cup DeadSecrets
  BY DEF LiveSecrets, DeadSecrets, PodObject, SecretObject
<1>3. LiveSecrets' = LiveSecrets /\ DeadSecrets' = DeadSecrets
  BY SameSecrets
<1>4. o \in {"pod", "secret"} \X Names \X (1..MaxGen)
  BY DEF PodObject, IInv, TypeInv, TypeOK, Pod, UidInv, UidsInRange
<1> HIDE DEF o
<1>5. /\ o \in LeakedObjects /\ LeakedObjects' = LeakedObjects \ {o}
      /\ LiveObjects' = LiveObjects
  BY <1>1, <1>2, <1>3, KindsInStep DEF ByKind
<1>6. Collector!Collect(o)
  BY <1>5 DEF Collector!Collect, LeakedObjects
<1> QED
  BY <1>4, <1>6 DEF Mapped, Collector!Next

\* A leaked Secret goes.
LEMMA SecretCollected ==
    ASSUME IInv, IInv', UidInv, NEW s \in secrets, ~Needed(s), secrets' = secrets \ {s},
           UNCHANGED <<pods, job>>
    PROVE  Mapped
<1> DEFINE o == SecretObject(s)
<1>1. LiveSecrets' = LiveSecrets /\ DeadSecrets' = DeadSecrets \ {o} /\ o \in DeadSecrets
  BY DEF LiveSecrets, DeadSecrets, SecretObject, Needed, IInv, ClusterInv, UniqueNames
<1>2. o \notin LivePods \cup DeadPods
  BY DEF LivePods, DeadPods, PodObject, SecretObject
<1>3. LivePods' = LivePods /\ DeadPods' = DeadPods
  BY SamePods
<1>4. o \in {"pod", "secret"} \X Names \X (1..MaxGen)
  BY DEF SecretObject, IInv, TypeInv, TypeOK, Secret, UidInv, UidsInRange
<1> HIDE DEF o
<1>5. /\ o \in LeakedObjects /\ LeakedObjects' = LeakedObjects \ {o}
      /\ LiveObjects' = LiveObjects
  BY <1>1, <1>2, <1>3, KindsInStep DEF ByKind
<1>6. Collector!Collect(o)
  BY <1>5 DEF Collector!Collect, LeakedObjects
<1> QED
  BY <1>4, <1>6 DEF Mapped, Collector!Next

\* No job's object is there from the start.
LEMMA JobsAreNotInitial ==
    ASSUME NEW k, NEW n \in JobNames, NEW u
    PROVE  <<k, n, u>> \notin {<<"pod", m, 1>> : m \in Foreign} \cup
                              {<<"secret", m, 1>> : m \in Foreign \ ExecNames}
BY DEF Foreign

\* Both parts hold from the start and after every step.
LEMMA InitUid == Init => UidInv
<1> SUFFICES ASSUME Init PROVE UidInv
  OBVIOUS
<1>1. \A o \in pods \cup secrets : o.uid = 1
  BY DEF Init
<1>2. \A p \in pods : p.phase # "Running"
  BY DEF Init
<1>3. \A n \in JobNames : gen[n] = 0
  BY DEF Init
<1>4. 0 \in 0..MaxGen /\ 1 \in 1..MaxGen
  BY TimesAssumption
<1> QED
  BY <1>1, <1>2, <1>3, <1>4 DEF UidInv, UidsInRange, RunningIsCurrent

\* Managers and cluster hand out uids in order.
LEMMA EnvironmentUid == ASSUME IInv, UidInv, Environment PROVE UidInv'
<1>1. /\ \A n \in JobNames : gen[n] \in 0..MaxGen
      /\ \A o \in pods \cup secrets : o.uid \in 1..MaxGen
      /\ \A p \in pods : p.phase = "Running" =>
            p.name \in JobNames /\ job[p.name] = "running" /\ p.uid = gen[p.name]
  BY DEF UidInv, UidsInRange, RunningIsCurrent
<1>2. /\ \A p, q \in pods : p.name = q.name => p = q
      /\ \A n \in JobNames : job[n] = "preparing" => \A p \in pods : p.name # n
      /\ \A n \in JobNames : job[n] # "none" => \E s \in secrets : s.name = n /\ s.uid = gen[n]
  BY DEF IInv, ClusterInv, UniqueNames, PreparingIsYoung, InFlightKeepsSecret
<1>3. /\ job \in [JobNames -> {"none", "preparing", "running"}] /\ gen \in [JobNames -> Nat]
      /\ pods \subseteq Pod /\ secrets \subseteq Secret
  BY DEF IInv, TypeInv, TypeOK
<1> USE DEF UidInv, UidsInRange, RunningIsCurrent
<1>4. CASE Tick
  BY <1>1, <1>4 DEF Tick
<1>5. ASSUME NEW n \in JobNames, CreateSecret(n) PROVE UidInv'
  <2>1. /\ gen' = [gen EXCEPT ![n] = @ + 1] /\ job' = [job EXCEPT ![n] = "preparing"]
        /\ pods' = pods /\ \A p \in pods : p.name # n
        /\ secrets' = secrets \cup
              {[name |-> n, uid |-> gen[n] + 1, created |-> clock, owner |-> 0]}
        /\ gen[n] < MaxGen
    BY <1>5 DEF CreateSecret
  <2>2. gen[n] + 1 \in 1..MaxGen /\ gen[n] + 1 \in 0..MaxGen
    BY <1>1, <2>1, TimesAssumption
  <2>3. \A m \in JobNames : gen'[m] \in 0..MaxGen
    BY <1>1, <1>3, <2>1, <2>2
  <2>4. \A o \in pods' \cup secrets' : o.uid \in 1..MaxGen
    BY <1>1, <2>1, <2>2
  <2>5. \A p \in pods' : p.phase = "Running" =>
            p.name \in JobNames /\ job'[p.name] = "running" /\ p.uid = gen'[p.name]
    BY <1>1, <1>3, <2>1
  <2> QED
    BY <2>3, <2>4, <2>5
<1>6. ASSUME NEW n \in JobNames, CreatePod(n) PROVE UidInv'
  <2>1. PICK pulls \in BOOLEAN :
          /\ pods' = pods \cup
                {[name |-> n, uid |-> gen[n], phase |-> "Running", ends |-> {},
                  lost |-> FALSE, pulls |-> pulls]}
          /\ secrets' = {IF s.name = n /\ ~pulls THEN [s EXCEPT !.owner = gen[n]]
                                                 ELSE s : s \in secrets}
    BY <1>6 DEF CreatePod
  <2>2. job[n] = "preparing" /\ job' = [job EXCEPT ![n] = "running"] /\ gen' = gen
    BY <1>6 DEF CreatePod
  <2>3. gen[n] \in 1..MaxGen
    BY <1>1, <1>2, <2>2
  <2>4. \A s \in secrets : [s EXCEPT !.owner = gen[n]].uid = s.uid
    BY <1>3, WithOwnerType
  <2>5. \A o \in pods' \cup secrets' : o.uid \in 1..MaxGen
    <3>1. \A s \in secrets : (IF s.name = n /\ ~pulls THEN [s EXCEPT !.owner = gen[n]] ELSE s).uid = s.uid
      BY <2>4
    <3>3. \A o \in secrets' : \E s \in secrets : o.uid = s.uid
      BY <2>1, <3>1
    <3>4. \A o \in secrets' : o.uid \in 1..MaxGen
      BY <1>1, <3>3
    <3>2. \A o \in pods' : o.uid \in 1..MaxGen
      BY <1>1, <2>1, <2>3
    <3> QED
      BY <3>2, <3>4
  <2>6. \A p \in pods' : p.phase = "Running" =>
            p.name \in JobNames /\ job'[p.name] = "running" /\ p.uid = gen'[p.name]
    <3>1. \A p \in pods : p.name # n
      BY <1>2, <2>2
    <3> QED
      BY <1>1, <1>3, <2>1, <2>2, <3>1
  <2> QED
    BY <1>1, <2>2, <2>5, <2>6
<1>7. ASSUME NEW n \in JobNames, AbandonJob(n) PROVE UidInv'
  BY <1>1, <1>2, <1>3, <1>7 DEF AbandonJob
<1>8. ASSUME NEW p \in pods, ContainerEnds(p) PROVE UidInv'
  <2>1. /\ UNCHANGED <<job, gen, secrets>>
        /\ \E q \in {[p EXCEPT !.ends = {clock}], [p EXCEPT !.lost = TRUE]} :
              pods' = (pods \ {p}) \cup {q}
    BY <1>8 DEF ContainerEnds
  <2>2. \A q \in {[p EXCEPT !.ends = {clock}], [p EXCEPT !.lost = TRUE]} :
            q.name = p.name /\ q.uid = p.uid /\ q.phase = p.phase
    BY <1>3 DEF Pod
  <2> QED
    BY <1>1, <2>1, <2>2
<1>9. ASSUME NEW p \in pods, JobEnds(p) PROVE UidInv'
  <2>1. /\ UNCHANGED <<gen, secrets>> /\ job' = [job EXCEPT ![p.name] = "none"]
        /\ \E phase \in TerminalPhases, ends \in {p.ends, p.ends \cup {clock}} :
              pods' = (pods \ {p}) \cup {[p EXCEPT !.phase = phase, !.ends = ends]}
    BY <1>9 DEF JobEnds
  <2>2. \A phase \in TerminalPhases, ends \in {p.ends, p.ends \cup {clock}} :
            LET q == [p EXCEPT !.phase = phase, !.ends = ends]
            IN  q.name = p.name /\ q.uid = p.uid /\ q.phase # "Running"
    BY <1>3 DEF Pod, TerminalPhases
  <2>3. \A q \in pods \ {p} : q.name # p.name
    BY <1>2
  <2>4. \A q \in pods' : q \in pods \ {p} \/ (q.phase # "Running" /\ q.uid = p.uid)
    <3>1. PICK phase \in TerminalPhases, ends \in {p.ends, p.ends \cup {clock}} :
              pods' = (pods \ {p}) \cup {[p EXCEPT !.phase = phase, !.ends = ends]}
      BY <2>1
    <3>2. /\ [p EXCEPT !.phase = phase, !.ends = ends].phase # "Running"
          /\ [p EXCEPT !.phase = phase, !.ends = ends].uid = p.uid
      BY <2>2
    <3> QED
      BY <3>1, <3>2
  <2>5. \A q \in pods \ {p} : q.phase = "Running" =>
            q.name \in JobNames /\ job'[q.name] = "running" /\ q.uid = gen'[q.name]
    BY <1>1, <1>3, <2>1, <2>3
  <2> QED
    BY <1>1, <2>1, <2>4, <2>5
<1>10. ASSUME NEW p \in pods, PodRemoved(p) PROVE UidInv'
  <2>1. /\ UNCHANGED <<gen, secrets>> /\ pods' = pods \ {p}
        /\ job' = [job EXCEPT ![p.name] = IF p.phase = "Running" THEN "none" ELSE @]
    BY <1>10 DEF PodRemoved
  <2>2. \A q \in pods \ {p} : q.name # p.name
    BY <1>2
  <2>3. \A q \in pods \ {p} : q.phase = "Running" =>
            q.name \in JobNames /\ job'[q.name] = "running" /\ q.uid = gen'[q.name]
    BY <1>1, <1>3, <2>1, <2>2
  <2> QED
    BY <1>1, <2>1, <2>3
<1>11. ASSUME NEW s \in secrets, SecretRemoved(s) PROVE UidInv'
  BY <1>1, <1>11 DEF SecretRemoved
<1> QED
  BY <1>4, <1>5, <1>6, <1>7, <1>8, <1>9, <1>10, <1>11 DEF Environment

\* UidInv rests on IInv: a job in flight has its Secret, so gen is at least 1.
LEMMA UidInvariance == Spec => [](IInv /\ UidInv)
<1>1. IInv /\ UidInv /\ [Next]_vars => UidInv'
  <2> SUFFICES ASSUME IInv, UidInv, [Next]_vars PROVE UidInv'
    OBVIOUS
  <2>1. CASE Environment
    BY <2>1, EnvironmentUid
  <2>2. CASE Reaper
    BY <2>2, SweepOnlyRemoves DEF UidInv, UidsInRange, RunningIsCurrent
  <2>3. CASE UNCHANGED vars
    BY <2>3 DEF vars, cluster, UidInv, UidsInRange, RunningIsCurrent
  <2> QED
    BY <2>1, <2>2, <2>3 DEF Next
<1> QED
  BY <1>1, InitUid, Invariance, PTL DEF Spec

\* What is there from the start and stays.
InitialObjects == {<<"pod", n, 1>> : n \in Foreign} \cup
                  {<<"secret", n, 1>> : n \in Foreign \ ExecNames}

\* Needed once the step is taken.
NeededNext(s) == IF s.name \in JobNames THEN job'[s.name] # "none" ELSE s.name \notin ExecNames

\* The Secrets after a step, by what is needed then.
LEMMA SecretsNext ==
    /\ LiveSecrets' = {SecretObject(s) : s \in {z \in secrets' : NeededNext(z)}}
    /\ DeadSecrets' = {SecretObject(s) : s \in {z \in secrets' : ~NeededNext(z)}}
BY DEF LiveSecrets, DeadSecrets, Needed, NeededNext, SecretObject

\* A new Secret is a new object, live from the start.
LEMMA CreateSecretMapped ==
    ASSUME IInv, IInv', UidInv, UidInv', NEW n \in JobNames, CreateSecret(n)
    PROVE  Mapped
<1> DEFINE o == <<"secret", n, gen[n] + 1>>
           z == [name |-> n, uid |-> gen[n] + 1, created |-> clock, owner |-> 0]
<1>1. /\ job[n] = "none" /\ job' = [job EXCEPT ![n] = "preparing"]
      /\ \A x \in pods \cup secrets : x.name # n
      /\ secrets' = secrets \cup {z} /\ UNCHANGED pods
  BY DEF CreateSecret
<1>2. job \in [JobNames -> {"none", "preparing", "running"}] /\ n \in Names
  BY NamesAssumption DEF IInv, TypeInv, TypeOK
<1>3. NeededNext(z) /\ SecretObject(z) = o
  BY <1>1, <1>2 DEF NeededNext, SecretObject
<1>4. \A s \in secrets : NeededNext(s) <=> Needed(s)
  BY <1>1, <1>2 DEF Needed, NeededNext
<1>5. o \notin LivePods \cup DeadPods
  BY DEF LivePods, DeadPods, PodObject
<1>6. o \notin LiveSecrets \cup DeadSecrets
  BY <1>1 DEF LiveSecrets, DeadSecrets, SecretObject
<1>7. gen[n] + 1 \in 1..MaxGen
  <2>1. z \in secrets' /\ z.uid = gen[n] + 1
    BY <1>1
  <2> QED
    BY <2>1 DEF UidInv, UidsInRange
<1> HIDE DEF z
<1>8. LiveSecrets' = LiveSecrets \cup {o} /\ DeadSecrets' = DeadSecrets
  <2> HIDE DEF o
  <2>1. LiveSecrets' = LiveSecrets \cup {o}
    BY <1>1, <1>3, <1>4, SecretsNext DEF LiveSecrets
  <2>2. DeadSecrets' = DeadSecrets
    BY <1>1, <1>3, <1>4, SecretsNext DEF DeadSecrets
  <2> QED
    BY <2>1, <2>2
<1>9. LivePods' = LivePods /\ DeadPods' = DeadPods
  BY <1>1, SamePods
<1>10. o \in {"pod", "secret"} \X Names \X (1..MaxGen)
  BY <1>2, <1>7
<1> HIDE DEF o
<1>11. /\ o \notin LiveObjects \cup LeakedObjects
       /\ LiveObjects' = LiveObjects \cup {o} /\ LeakedObjects' = LeakedObjects
  BY <1>5, <1>6, <1>8, <1>9, KindsInStep DEF ByKind
<1>12. Collector!Create(o)
  BY <1>11 DEF Collector!Create, LeakedObjects
<1> QED
  BY <1>10, <1>12 DEF Mapped, Collector!Next

\* A new pod is a new object; its Secret stays live, owned or not.
LEMMA CreatePodMapped ==
    ASSUME IInv, IInv', UidInv, UidInv', NEW n \in JobNames, CreatePod(n)
    PROVE  Mapped
<1> DEFINE o == <<"pod", n, gen[n]>>
<1>1. PICK pulls \in BOOLEAN :
          /\ pods' = pods \cup
                {[name |-> n, uid |-> gen[n], phase |-> "Running", ends |-> {},
                  lost |-> FALSE, pulls |-> pulls]}
          /\ secrets' = {IF s.name = n /\ ~pulls THEN [s EXCEPT !.owner = gen[n]]
                                                 ELSE s : s \in secrets}
  BY DEF CreatePod
<1> DEFINE z == [name |-> n, uid |-> gen[n], phase |-> "Running", ends |-> {},
                 lost |-> FALSE, pulls |-> pulls]
           Owned(s) == IF s.name = n /\ ~pulls THEN [s EXCEPT !.owner = gen[n]] ELSE s
<1>2. job[n] = "preparing" /\ job' = [job EXCEPT ![n] = "running"]
  BY DEF CreatePod
<1>3. /\ job \in [JobNames -> {"none", "preparing", "running"}] /\ n \in Names
      /\ secrets \subseteq Secret /\ gen[n] \in Nat
  BY NamesAssumption DEF IInv, TypeInv, TypeOK
<1>4. \A s \in secrets : Owned(s).name = s.name /\ Owned(s).uid = s.uid
  BY <1>3, WithOwnerType
<1>5. secrets' = {Owned(s) : s \in secrets}
  BY <1>1
<1>6. \A p \in pods : p.name # n
  BY <1>2 DEF IInv, ClusterInv, PreparingIsYoung
<1>7. o \notin LiveSecrets \cup DeadSecrets
  BY DEF LiveSecrets, DeadSecrets, SecretObject
<1>8. o \notin LivePods \cup DeadPods
  BY <1>6 DEF LivePods, DeadPods, PodObject
<1>9. InUse(z) /\ PodObject(z) = o /\ pods' = pods \cup {z}
  BY <1>1 DEF InUse, PodObject
<1>10. gen[n] \in 1..MaxGen
  <2>1. z \in pods' /\ z.uid = gen[n]
    BY <1>9
  <2> QED
    BY <2>1 DEF UidInv, UidsInRange
<1> HIDE DEF z, Owned
<1>11. LivePods' = LivePods \cup {o} /\ DeadPods' = DeadPods
  BY <1>9 DEF LivePods, DeadPods, InUse, PodObject
<1>12. LiveSecrets' = LiveSecrets /\ DeadSecrets' = DeadSecrets
  <2>1. \A s \in secrets : SecretObject(Owned(s)) = SecretObject(s)
    BY <1>4 DEF SecretObject
  <2>2. \A s \in secrets : NeededNext(Owned(s)) <=> Needed(s)
    BY <1>2, <1>3, <1>4 DEF Needed, NeededNext
  <2>3. LiveSecrets' = LiveSecrets
    BY <2>1, <2>2, <1>5, SecretsNext DEF LiveSecrets
  <2>4. DeadSecrets' = DeadSecrets
    BY <2>1, <2>2, <1>5, SecretsNext DEF DeadSecrets
  <2> QED
    BY <2>3, <2>4
<1>13. o \in {"pod", "secret"} \X Names \X (1..MaxGen)
  BY <1>3, <1>10
<1> HIDE DEF o
<1>14. /\ o \notin LiveObjects \cup LeakedObjects
       /\ LiveObjects' = LiveObjects \cup {o} /\ LeakedObjects' = LeakedObjects
  BY <1>7, <1>8, <1>11, <1>12, KindsInStep DEF ByKind
<1>15. Collector!Create(o)
  BY <1>14 DEF Collector!Create, LeakedObjects
<1> QED
  BY <1>13, <1>15 DEF Mapped, Collector!Next

\* The Secret of a job that ends is let go of.
LEMMA JobOver ==
    ASSUME IInv, NEW n \in JobNames, job[n] # "none",
           job' = [job EXCEPT ![n] = "none"], UNCHANGED secrets
    PROVE  LET o == <<"secret", n, gen[n]>>
           IN  /\ o \in LiveSecrets
               /\ LiveSecrets' = LiveSecrets \ {o}
               /\ DeadSecrets' = DeadSecrets \cup {o}
<1> DEFINE o == <<"secret", n, gen[n]>>
<1>1. PICK z \in secrets : z.name = n /\ z.uid = gen[n]
  BY DEF IInv, ClusterInv, InFlightKeepsSecret
<1>2. job \in [JobNames -> {"none", "preparing", "running"}]
  BY DEF IInv, TypeInv, TypeOK
<1>3. \A s \in secrets : s.name = n => s = z
  BY <1>1 DEF IInv, ClusterInv, UniqueNames
<1>4. Needed(z) /\ ~Needed(z)' /\ SecretObject(z) = o
  BY <1>1, <1>2 DEF Needed, SecretObject
<1>5. \A s \in secrets : s # z => (Needed(s)' <=> Needed(s)) /\ SecretObject(s) # o
  BY <1>2, <1>3 DEF Needed, SecretObject
<1> HIDE DEF o
<1>6. LiveSecrets' = {SecretObject(s) : s \in {y \in secrets : Needed(y)'}}
  BY DEF LiveSecrets, SecretObject
<1>7. DeadSecrets' = {SecretObject(s) : s \in {y \in secrets : ~Needed(y)'}}
  BY DEF DeadSecrets, SecretObject
<1>8. o \in LiveSecrets
  BY <1>1, <1>4 DEF LiveSecrets
<1>9. LiveSecrets' = LiveSecrets \ {o}
  BY <1>1, <1>4, <1>5, <1>6 DEF LiveSecrets
<1>10. DeadSecrets' = DeadSecrets \cup {o}
  BY <1>1, <1>4, <1>5, <1>7 DEF DeadSecrets
<1> QED
  BY <1>8, <1>9, <1>10 DEF o

\* What a job lets go of was not there from the start.
LEMMA ReleasedStep ==
    ASSUME NEW S, S # {}, S \subseteq LiveObjects, S \cap InitialObjects = {},
           LiveObjects' = LiveObjects \ S, LeakedObjects' = LeakedObjects \cup S
    PROVE  Mapped
<1>1. Collector!Release(S)
  BY DEF Collector!Release, LeakedObjects, InitialObjects
<1> QED
  BY <1>1 DEF Mapped, Collector!Next

\* A job that is given up lets go of its Secret.
LEMMA AbandonMapped ==
    ASSUME IInv, IInv', NEW n \in JobNames, AbandonJob(n)
    PROVE  Mapped
<1> DEFINE o == <<"secret", n, gen[n]>>
<1>1. job[n] # "none" /\ job' = [job EXCEPT ![n] = "none"] /\ UNCHANGED <<pods, secrets>>
  BY DEF AbandonJob
<1>2. /\ o \in LiveSecrets /\ LiveSecrets' = LiveSecrets \ {o}
      /\ DeadSecrets' = DeadSecrets \cup {o}
  BY <1>1, JobOver
<1>3. LivePods' = LivePods /\ DeadPods' = DeadPods
  BY <1>1, SamePods
<1>4. o \notin InitialObjects
  BY JobsAreNotInitial DEF InitialObjects
<1>5. o \notin LivePods
  BY DEF LivePods, PodObject
<1> HIDE DEF o
<1>6. /\ o \in LiveObjects /\ LiveObjects' = LiveObjects \ {o}
      /\ LeakedObjects' = LeakedObjects \cup {o}
  BY <1>2, <1>3, <1>5, KindsInStep DEF ByKind
<1> DEFINE S == {o}
<1>7. S # {} /\ S \subseteq LiveObjects /\ S \cap InitialObjects = {}
  BY <1>4, <1>6
<1>8. LiveObjects' = LiveObjects \ S /\ LeakedObjects' = LeakedObjects \cup S
  BY <1>6
<1> HIDE DEF S
<1> QED
  BY <1>7, <1>8, ReleasedStep

\* A pod that runs is needed, and so is the Secret of the same job.
LEMMA RunningPod ==
    ASSUME IInv, UidInv, NEW p \in pods, p.phase = "Running"
    PROVE  /\ p.name \in JobNames /\ job[p.name] # "none" /\ p.uid = gen[p.name]
           /\ PodObject(p) \in LivePods
           /\ \A q \in pods : q # p => q.name # p.name
<1>1. p.name \in JobNames /\ job[p.name] = "running" /\ p.uid = gen[p.name]
  BY DEF UidInv, RunningIsCurrent
<1>2. \A q \in pods : q # p => q.name # p.name
  BY DEF IInv, ClusterInv, UniqueNames
<1>3. PodObject(p) \in LivePods
  BY DEF LivePods, InUse
<1> QED
  BY <1>1, <1>2, <1>3

\* A job that ends lets go of its pod and its Secret at once.
LEMMA JobEndsMapped ==
    ASSUME IInv, IInv', UidInv, NEW p \in pods, JobEnds(p)
    PROVE  Mapped
<1> DEFINE n == p.name
           o == <<"secret", n, gen[n]>>
           d == PodObject(p)
<1>1. /\ p.phase = "Running" /\ job' = [job EXCEPT ![n] = "none"] /\ UNCHANGED secrets
  BY DEF JobEnds
<1>2. /\ n \in JobNames /\ job[n] # "none" /\ p.uid = gen[n] /\ d \in LivePods
      /\ \A q \in pods : q # p => q.name # n
  BY <1>1, RunningPod
<1>3. /\ o \in LiveSecrets /\ LiveSecrets' = LiveSecrets \ {o}
      /\ DeadSecrets' = DeadSecrets \cup {o}
  BY <1>1, <1>2, JobOver
<1>4. PICK phase \in TerminalPhases, ends \in {p.ends, p.ends \cup {clock}} :
          pods' = (pods \ {p}) \cup {[p EXCEPT !.phase = phase, !.ends = ends]}
  BY DEF JobEnds
<1> DEFINE q == [p EXCEPT !.phase = phase, !.ends = ends]
<1>5. q.name = n /\ q.uid = p.uid /\ q.phase # "Running"
  <2>1. p \in Pod
    BY DEF IInv, TypeInv, TypeOK
  <2> QED
    BY <2>1 DEF Pod, TerminalPhases
<1>6. pods' = (pods \ {p}) \cup {q}
  BY <1>4
<1> HIDE DEF q
<1>7. PodObject(q) = d /\ ~InUse(q) /\ InUse(p)
  BY <1>1, <1>2, <1>5 DEF PodObject, InUse, Foreign
<1>8. LivePods' = LivePods \ {d} /\ DeadPods' = DeadPods \cup {d}
  <2>1. \A r \in pods : r # p => PodObject(r) # d
    BY <1>2 DEF PodObject
  <2> HIDE DEF d, n
  <2>2. LivePods' = {PodObject(r) : r \in {y \in pods' : InUse(y)}}
    BY DEF LivePods, PodObject, InUse
  <2>3. DeadPods' = {PodObject(r) : r \in {y \in pods' : ~InUse(y)}}
    BY DEF DeadPods, PodObject, InUse
  <2>4. PodObject(p) = d
    BY DEF d
  <2>5. LivePods' = LivePods \ {d}
    BY <2>1, <2>2, <2>4, <1>6, <1>7 DEF LivePods
  <2>6. DeadPods' = DeadPods \cup {d}
    BY <2>3, <1>6, <1>7 DEF DeadPods
  <2> QED
    BY <2>5, <2>6
<1>9. d \notin LiveSecrets \cup DeadSecrets /\ o \notin LivePods \cup DeadPods
  BY DEF LivePods, DeadPods, LiveSecrets, DeadSecrets, PodObject, SecretObject
<1>10. o \notin InitialObjects /\ d \notin InitialObjects
  BY <1>2, JobsAreNotInitial DEF InitialObjects, PodObject
<1> DEFINE S == {d, o}
<1> HIDE DEF d, o, n
<1>11. S # {} /\ S \subseteq LiveObjects /\ S \cap InitialObjects = {}
  BY <1>2, <1>3, <1>10, KindsInStep DEF ByKind
<1>12. LiveObjects' = LiveObjects \ S /\ LeakedObjects' = LeakedObjects \cup S
  BY <1>3, <1>8, <1>9, KindsInStep DEF ByKind
<1> HIDE DEF S
<1> QED
  BY <1>11, <1>12, ReleasedStep

\* A running pod is lost with its job; a finished one is collected.
LEMMA PodRemovedMapped ==
    ASSUME IInv, IInv', UidInv, NEW p \in pods, PodRemoved(p)
    PROVE  Mapped
<1> DEFINE n == p.name
           o == <<"secret", n, gen[n]>>
           d == PodObject(p)
<1>1. /\ p.name \in JobNames /\ pods' = pods \ {p} /\ UNCHANGED secrets
      /\ job' = [job EXCEPT ![p.name] = IF p.phase = "Running" THEN "none" ELSE @]
      /\ job \in [JobNames -> {"none", "preparing", "running"}]
  BY DEF PodRemoved, IInv, TypeInv, TypeOK
<1>2. CASE p.phase # "Running"
  <2>1. job' = job /\ ~InUse(p)
    BY <1>1, <1>2 DEF InUse, Foreign
  <2> QED
    BY <1>1, <2>1, PodCollected
<1>3. CASE p.phase = "Running"
  <2>1. job' = [job EXCEPT ![n] = "none"]
    BY <1>1, <1>3
  <2>2. /\ n \in JobNames /\ job[n] # "none" /\ p.uid = gen[n] /\ d \in LivePods
        /\ \A q \in pods : q # p => q.name # n
    BY <1>3, RunningPod
  <2>3. /\ o \in LiveSecrets /\ LiveSecrets' = LiveSecrets \ {o}
        /\ DeadSecrets' = DeadSecrets \cup {o}
    BY <1>1, <2>1, <2>2, JobOver
  <2>4. InUse(p) /\ \A r \in pods : r # p => PodObject(r) # d
    BY <1>3, <2>2 DEF PodObject, InUse
  <2>5. LivePods' = LivePods \ {d} /\ DeadPods' = DeadPods
    <3> HIDE DEF d
    <3>1. PodObject(p) = d
      BY DEF d
    <3>2. LivePods' = {PodObject(r) : r \in {y \in pods' : InUse(y)}}
      BY DEF LivePods, PodObject, InUse
    <3>3. DeadPods' = {PodObject(r) : r \in {y \in pods' : ~InUse(y)}}
      BY DEF DeadPods, PodObject, InUse
    <3> QED
      BY <3>1, <3>2, <3>3, <2>4, <1>1 DEF LivePods, DeadPods
  <2>6. d \notin LiveSecrets \cup DeadSecrets /\ o \notin LivePods \cup DeadPods /\ d # o
    BY DEF LivePods, DeadPods, LiveSecrets, DeadSecrets, PodObject, SecretObject
  <2>7. d \notin InitialObjects
    BY <2>2, JobsAreNotInitial DEF InitialObjects, PodObject
  <2>8. /\ Collector!CredentialOf(d) = o /\ d[1] = "pod"
    BY <2>2 DEF Collector!CredentialOf, PodObject
  <2>9. d \in {"pod", "secret"} \X Names \X (1..MaxGen)
    BY DEF PodObject, IInv, TypeInv, TypeOK, Pod, UidInv, UidsInRange
  <2> HIDE DEF d, o, n
  <2>10. d \in LiveObjects /\ o \in LiveObjects
    BY <2>2, <2>3, KindsInStep DEF ByKind
  <2>11. /\ LiveObjects' = LiveObjects \ {d, o}
         /\ LeakedObjects' = LeakedObjects \cup {o}
    BY <2>3, <2>5, <2>6, KindsInStep DEF ByKind
  <2>12. Collector!Lose(d)
    BY <2>7, <2>8, <2>10, <2>11 DEF Collector!Lose, LeakedObjects, InitialObjects
  <2> QED
    BY <2>9, <2>12 DEF Mapped, Collector!Next
<1> QED
  BY <1>2, <1>3

\* What touches neither objects nor jobs is a stutter.
LEMMA NothingMapped ==
    ASSUME IInv, IInv', UNCHANGED <<pods, secrets, job>>
    PROVE  Mapped
BY SamePods, SameSecrets, KindsInStep DEF ByKind, Mapped

\* A container that ends leaves the pod in use.
LEMMA ContainerEndsMapped ==
    ASSUME IInv, IInv', NEW p \in pods, ContainerEnds(p)
    PROVE  Mapped
<1>1. p.phase = "Running" /\ UNCHANGED <<job, secrets>> /\ p \in Pod
  BY DEF ContainerEnds, IInv, TypeInv, TypeOK
<1>2. PICK q \in {[p EXCEPT !.ends = {clock}], [p EXCEPT !.lost = TRUE]} :
          pods' = (pods \ {p}) \cup {q}
  BY DEF ContainerEnds
<1>3. q.name = p.name /\ q.uid = p.uid /\ q.phase = "Running"
  BY <1>1 DEF Pod
<1>4. PodObject(q) = PodObject(p) /\ InUse(q) /\ InUse(p)
  BY <1>1, <1>3 DEF PodObject, InUse
<1> HIDE DEF InUse, PodObject
<1>5. LivePods' = LivePods /\ DeadPods' = DeadPods
  <2>1. LivePods' = {PodObject(r) : r \in {y \in pods' : InUse(y)}}
    BY DEF LivePods, PodObject, InUse
  <2>2. DeadPods' = {PodObject(r) : r \in {y \in pods' : ~InUse(y)}}
    BY DEF DeadPods, PodObject, InUse
  <2>3. LivePods' = LivePods
    BY <2>1, <1>2, <1>4 DEF LivePods
  <2>4. DeadPods' = DeadPods
    BY <2>2, <1>2, <1>4 DEF DeadPods
  <2> QED
    BY <2>3, <2>4
<1> QED
  BY <1>1, <1>5, SameSecrets, KindsInStep DEF ByKind, Mapped

\* The late cleanup of the cluster collects what was let go of.
LEMMA SecretRemovedMapped ==
    ASSUME IInv, IInv', UidInv, NEW s \in secrets, SecretRemoved(s)
    PROVE  Mapped
BY SecretCollected DEF SecretRemoved, Needed

\* What a DELETE takes is one object that has leaked, or nothing.
LEMMA RemoveMapped ==
    ASSUME IInv, IInv', UidInv, pc = "items", NEW x \in page, Eligible(x), RemoveItem(x),
           UNCHANGED job
    PROVE  Mapped
<1>1. CASE stage = "secrets"
  <2>1. secrets' = {s \in secrets : ~Precondition(x, s)} /\ UNCHANGED pods
    BY <1>1 DEF RemoveItem
  <2>2. CASE \E s \in secrets : Precondition(x, s)
    <3>1. PICK s \in secrets : Precondition(x, s)
      BY <2>2
    <3>2. \A z \in secrets : Precondition(x, z) => z = s
      BY <3>1 DEF Precondition, IInv, ClusterInv, UniqueNames
    <3>3. secrets' = secrets \ {s}
      BY <2>1, <3>1, <3>2
    <3>4. s.name \in ExecNames
      BY <1>1, <3>1 DEF Eligible, SecretEligible, Precondition
    <3>5. s.name \in JobNames => job[s.name] = "none"
      BY <1>1, <3>1, EligibleIsLeaked
    <3>6. ~Needed(s)
      BY <3>4, <3>5 DEF Needed
    <3> QED
      BY <2>1, <3>3, <3>6, SecretCollected
  <2>3. CASE ~\E s \in secrets : Precondition(x, s)
    BY <2>1, <2>3, NothingMapped
  <2> QED
    BY <2>2, <2>3
<1>2. CASE stage # "secrets"
  <2>1. pods' = {p \in pods : ~Precondition(x, p)} /\ UNCHANGED secrets
    BY <1>2 DEF RemoveItem
  <2>2. CASE \E p \in pods : Precondition(x, p)
    <3>1. PICK p \in pods : Precondition(x, p)
      BY <2>2
    <3>2. \A q \in pods : Precondition(x, q) => q = p
      BY <3>1 DEF Precondition, IInv, ClusterInv, UniqueNames
    <3>3. pods' = pods \ {p}
      BY <2>1, <3>1, <3>2
    <3>4. p.name \in JobNames /\ p.phase \in TerminalPhases
      BY <1>2, <3>1, EligibleIsStale
    <3>5. ~InUse(p)
      BY <3>4 DEF InUse, Foreign, TerminalPhases
    <3> QED
      BY <2>1, <3>3, <3>5, PodCollected
  <2>3. CASE ~\E p \in pods : Precondition(x, p)
    BY <2>1, <2>3, NothingMapped
  <2> QED
    BY <2>2, <2>3
<1> QED
  BY <1>1, <1>2

\* Every step of managers, cluster and reaper is one of the collector, or none.
LEMMA StepMapped ==
    ASSUME IInv, IInv', UidInv, UidInv', [Next]_vars
    PROVE  Mapped
<1>1. CASE Environment
  <2>1. CASE Tick
    BY <2>1, NothingMapped DEF Tick
  <2>2. ASSUME NEW n \in JobNames, CreateSecret(n) \/ CreatePod(n) \/ AbandonJob(n) PROVE Mapped
    BY <2>2, CreateSecretMapped, CreatePodMapped, AbandonMapped
  <2>3. ASSUME NEW p \in pods, ContainerEnds(p) \/ JobEnds(p) \/ PodRemoved(p) PROVE Mapped
    BY <2>3, ContainerEndsMapped, JobEndsMapped, PodRemovedMapped
  <2>4. ASSUME NEW s \in secrets, SecretRemoved(s) PROVE Mapped
    BY <2>4, SecretRemovedMapped
  <2> QED
    BY <1>1, <2>1, <2>2, <2>3, <2>4 DEF Environment
<1>2. CASE StartRun \/ GetPage \/ GetRefsPage \/ ListFails \/ PageDone \/ BudgetStop \/ Abort
  <2>1. UNCHANGED <<pods, secrets, job>>
    BY <1>2 DEF StartRun, GetPage, GetRefsPage, ListFails, PageDone, BudgetStop, Abort, cluster
  <2> QED
    BY <2>1, NothingMapped
<1>3. ASSUME NEW x \in page, KeepItem(x) \/ DeleteItem(x) \/ DeleteFails(x) PROVE Mapped
  <2>1. CASE UNCHANGED <<pods, secrets>>
    <3>1. UNCHANGED job
      BY <1>3 DEF KeepItem, DeleteItem, DeleteFails, cluster
    <3> QED
      BY <2>1, <3>1, NothingMapped
  <2>2. CASE ~UNCHANGED <<pods, secrets>>
    <3>1. pc = "items" /\ Eligible(x) /\ RemoveItem(x) /\ UNCHANGED job
      BY <1>3, <2>2 DEF KeepItem, DeleteItem, DeleteFails, Item, cluster
    <3> QED
      BY <3>1, RemoveMapped
  <2> QED
    BY <2>1, <2>2
<1>4. CASE UNCHANGED vars
  <2>1. UNCHANGED <<pods, secrets, job>>
    BY <1>4 DEF vars, cluster
  <2> QED
    BY <2>1, NothingMapped
<1> QED
  BY <1>1, <1>2, <1>3, <1>4 DEF Next, Reaper

\* What no job owns is live from the start, or leaked.
LEMMA InitMapped == ASSUME Init PROVE Collector!Init
<1>1. /\ pods = {[name |-> n, uid |-> 1, phase |-> "Succeeded", ends |-> {0},
                lost |-> FALSE, pulls |-> FALSE] : n \in Foreign}
      /\ secrets = {[name |-> n, uid |-> 1, created |-> 0, owner |-> 0] : n \in Foreign}
      /\ job = [n \in JobNames |-> "none"]
  BY DEF Init
<1>2. /\ \A p \in pods : p.name \in Foreign /\ p.uid = 1
      /\ \A n \in Foreign : \E p \in pods : p.name = n /\ p.uid = 1
      /\ \A s \in secrets : s.name \in Foreign /\ s.uid = 1
      /\ \A n \in Foreign : \E s \in secrets : s.name = n /\ s.uid = 1
  <2> DEFINE OldPod(n) == [name |-> n, uid |-> 1, phase |-> "Succeeded", ends |-> {0},
                           lost |-> FALSE, pulls |-> FALSE]
             OldSecret(n) == [name |-> n, uid |-> 1, created |-> 0, owner |-> 0]
  <2>1. \A n : OldPod(n).name = n /\ OldPod(n).uid = 1
    OBVIOUS
  <2>2. \A n : OldSecret(n).name = n /\ OldSecret(n).uid = 1
    OBVIOUS
  <2>3. pods = {OldPod(n) : n \in Foreign} /\ secrets = {OldSecret(n) : n \in Foreign}
    BY <1>1
  <2> HIDE DEF OldPod, OldSecret
  <2>4. /\ \A p \in pods : p.name \in Foreign /\ p.uid = 1
        /\ \A n \in Foreign : \E p \in pods : p.name = n /\ p.uid = 1
    BY <2>1, <2>3
  <2>5. /\ \A s \in secrets : s.name \in Foreign /\ s.uid = 1
        /\ \A n \in Foreign : \E s \in secrets : s.name = n /\ s.uid = 1
    BY <2>2, <2>3
  <2> QED
    BY <2>4, <2>5
<1>3. LivePods = {<<"pod", n, 1>> : n \in Foreign}
  BY <1>2 DEF LivePods, InUse, PodObject
<1>4. LiveSecrets = {<<"secret", n, 1>> : n \in Foreign \ ExecNames}
  BY <1>2 DEF LiveSecrets, Needed, SecretObject, Foreign
<1>5. AllObjects \subseteq {"pod", "secret"} \X Names \X (1..MaxGen)
  <2>1. Foreign \subseteq Names /\ 1 \in 1..MaxGen
    BY TimesAssumption DEF Foreign
  <2> QED
    BY <1>2, <2>1 DEF AllObjects
<1>6. LiveObjects = InitialObjects
  <2>1. LiveObjects = LivePods \cup LiveSecrets
    BY DEF LiveObjects, LivePods, LiveSecrets, InUse, Needed, PodObject, SecretObject
  <2> QED
    BY <2>1, <1>3, <1>4 DEF InitialObjects
<1> QED
  BY <1>5, <1>6 DEF Collector!Init, InitialObjects

\* Managers, cluster and reaper together do what a collector of leaks may do:
\* an object is created once, released by its job or lost with its pod, and
\* only then collected; what belongs to no job is never touched.
THEOREM OnlyLeaksAreCollected == Spec => CollectsOnlyLeaks
<1>1. (IInv /\ UidInv) /\ (IInv /\ UidInv)' /\ [Next]_vars =>
          [Collector!Next]_<<LiveObjects, AllObjects \ LiveObjects>>
  BY StepMapped DEF Mapped, LeakedObjects
<1> QED
  BY <1>1, InitMapped, UidInvariance, PTL DEF Spec, CollectsOnlyLeaks, Collector!Spec

-----------------------------------------------------------------------------
(* Pages. *)

\* The next page of a list that has something left is not empty.
LEMMA PageNotEmpty ==
    ASSUME NEW S \in SUBSET (Pod \cup Secret), S # {}
    PROVE  PageOf(S) # {}
<1> DEFINE T == {x.name : x \in S}
<1>1. T \subseteq Nat /\ T # {}
  BY NamesAssumption DEF Pod, Secret
<1>2. PICK m \in T : \A k \in T : ~(<<k, m>> \in OpToRel(<, Nat))
  BY <1>1, NatLessThanWellFounded, WFMin
<1>3. \A k \in T : ~(k < m)
  BY <1>1, <1>2 DEF OpToRel
<1>4. PICK x \in S : x.name = m
  OBVIOUS
<1>5. {y \in S : y.name < x.name} = {}
  BY <1>3, <1>4
<1>6. Cardinality({y \in S : y.name < x.name}) < PageSize
  BY <1>5, FS_EmptySet, TimesAssumption
<1> QED
  BY <1>6 DEF PageOf

-----------------------------------------------------------------------------
(* How late the soft stop may be. *)

Ns == Len(Namespaces)

\* The lists of this run that came before the present one.
StageIndex(st) == IF st = "Succeeded" THEN 0
                  ELSE IF st = "Failed" THEN 1 ELSE IF st = "refs" THEN 2 ELSE 3
Lists == 4 * (Ns - Len(todo)) + StageIndex(stage)

\* No more than k calls past the budget.
Within(e, k) ==
    \A T \in CallCosts : (\A c \in CallCosts : c <= T) => e <= Budget + k * T

\* A list is made whatever the time; an item is looked at within the budget
\* only, so that its DELETE and the next GET are the calls that may overrun it.
BudgetInv ==
    /\ pc = "idle" => Within(elapsed, 4 * Ns + 1)
    /\ pc # "idle" => Len(todo) \in 1..Ns
    /\ pc = "list" /\ first => Within(elapsed, Lists + 1)
    /\ pc = "list" /\ ~first => Within(elapsed, 1) /\ rest # {}
    /\ pc = "items" => Within(elapsed, Lists + 2) /\ ~first
    /\ pc = "items" /\ page = {} /\ rest # {} => Within(elapsed, 1)

\* There is a namespace.
LEMMA NsType == Ns \in Nat \ {0}
BY NamesAssumption DEF Ns

\* More calls are a wider bound.
LEMMA WithinMore ==
    ASSUME NEW e \in Nat, NEW k \in Nat, NEW m \in Nat, k <= m, Within(e, k)
    PROVE  Within(e, m)
<1> SUFFICES ASSUME NEW T \in CallCosts, \A c \in CallCosts : c <= T PROVE e <= Budget + m * T
  BY DEF Within
<1>1. e <= Budget + k * T /\ T \in Nat /\ Budget \in Nat
  BY TimesAssumption DEF Within
<1>2. k * T <= m * T /\ k * T \in Nat /\ m * T \in Nat
  BY <1>1, SMT
<1> QED
  BY <1>1, <1>2

\* Within the budget is no call past it.
LEMMA WithinBudget == ASSUME NEW e \in Nat, e <= Budget PROVE Within(e, 0)
<1>1. \A T \in CallCosts : 0 * T = 0
  BY TimesAssumption
<1> QED
  BY <1>1, TimesAssumption DEF Within

\* A call costs one more.
LEMMA WithinOneMore ==
    ASSUME elapsed \in Nat, Spend, NEW k \in Nat, Within(elapsed, k)
    PROVE  elapsed' \in Nat /\ Within(elapsed', k + 1)
<1>1. PICK c \in CallCosts :
        elapsed' = IF elapsed + c > ElapsedCap THEN ElapsedCap ELSE elapsed + c
  BY DEF Spend
<1>2. c \in Nat /\ elapsed' \in Nat /\ elapsed' <= elapsed + c
  BY <1>1, TimesAssumption
<1>3. ASSUME NEW T \in CallCosts, \A d \in CallCosts : d <= T
      PROVE  elapsed' <= Budget + (k + 1) * T
  <2>1. elapsed <= Budget + k * T /\ c <= T
    BY <1>3 DEF Within
  <2>2. T \in Nat /\ Budget \in Nat
    BY TimesAssumption
  <2>3. (k + 1) * T = k * T + T /\ k * T \in Nat
    BY <2>2, SMT
  <2> QED
    BY <1>2, <2>1, <2>2, <2>3
<1> QED
  BY <1>2, <1>3 DEF Within

\* Lists counted from the start of the run, four for every namespace.
LEMMA ListsType ==
    ASSUME stage \in Stages, Len(todo) \in 1..Ns
    PROVE  Lists \in 0..(4 * Ns - 1)
BY NsType DEF Lists, StageIndex, Stages

\* Whatever follows a list, another list or the end of the run, comes later.
LEMMA AfterList ==
    ASSUME TypeInv, pc # "idle", Len(todo) \in 1..Ns, NEW failed \in BOOLEAN,
           NextStage(failed), NEW e \in Nat, e = elapsed', Within(e, Lists + 2)
    PROVE  BudgetInv'
<1>1. stage \in Stages /\ todo \in Seq(STRING) /\ Lists \in 0..(4 * Ns - 1)
  BY ListsType DEF TypeInv, TypeOK
<1>2. ASSUME pc' = "list", first', Lists' \in Nat, Lists' >= Lists + 1, Len(todo') \in 1..Ns
      PROVE  BudgetInv'
  <2>1. Within(e, Lists' + 1)
    BY <1>1, <1>2, WithinMore
  <2> QED
    BY <1>2, <2>1 DEF BudgetInv, Within
<1>3. ASSUME pc' = "idle" PROVE BudgetInv'
  <2>1. Within(e, 4 * Ns + 1)
    BY <1>1, NsType, WithinMore
  <2> QED
    BY <1>3, <2>1 DEF BudgetInv, Within, Ns
<1>4. CASE stage = "Succeeded" /\ GoToStage("Failed", NoRefs)
  BY <1>1, <1>2, <1>4, NsType DEF GoToStage, Lists, StageIndex
<1>5. CASE stage = "Failed" /\ GoToStage("refs", NoRefs)
  BY <1>1, <1>2, <1>5, NsType DEF GoToStage, Lists, StageIndex
<1>6. CASE stage \in {"refs", "secrets"} /\ NextNamespace(failed)
  <2>1. CASE Len(todo) = 1
    BY <1>3, <1>6, <2>1 DEF NextNamespace, EndRun
  <2>2. CASE Len(todo) # 1
    <3>1. Len(Tail(todo)) = Len(todo) - 1
      BY <1>1, <2>2
    <3>2. pc' = "list" /\ first' /\ stage' = "Succeeded" /\ todo' = Tail(todo)
      BY <1>6, <2>2 DEF NextNamespace
    <3>3. Len(todo') \in 1..Ns /\ Lists' \in Nat /\ Lists' >= Lists + 1
      <4>0. Ns' = Ns
        BY DEF Ns
      <4>1. Len(todo') = Len(todo) - 1 /\ Len(todo) \in 2..Ns /\ Ns' = Ns /\ Ns \in Nat
        <5>1. Len(todo') = Len(todo) - 1
          BY <3>1, <3>2, Zenon
        <5>2. Len(todo) \in 1..Ns /\ Len(todo) # 1 /\ Ns \in Nat
          BY <2>2, NsType
        <5>3. \A k : k \in 1..Ns /\ k # 1 /\ Ns \in Nat => k \in 2..Ns
          OBVIOUS
        <5> QED
          BY <4>0, <5>1, <5>2, <5>3
      <4>2. Lists' = 4 * (Ns - Len(todo'))
        BY <3>2, <4>1 DEF Lists, StageIndex
      <4>3. Lists <= 4 * (Ns - Len(todo)) + 3
        BY <1>6, <4>1 DEF Lists, StageIndex
      <4> QED
        BY <1>1, <4>1, <4>2, <4>3
    <3> QED
      BY <1>2, <3>2, <3>3
  <2> QED
    BY <2>1, <2>2
<1> QED
  BY <1>4, <1>5, <1>6 DEF NextStage

\* A run that stops early stops within the bound.
LEMMA EndWithin ==
    ASSUME TypeInv, pc # "idle", Len(todo) \in 1..Ns, elapsed' \in Nat,
           Within(elapsed', Lists + 2), pc' = "idle"
    PROVE  BudgetInv'
<1>1. Lists + 2 \in Nat /\ 4 * Ns + 1 \in Nat /\ Lists + 2 <= 4 * Ns + 1
  BY ListsType, NsType DEF TypeInv, TypeOK
<1>2. Within(elapsed', 4 * Ns + 1)
  BY <1>1, WithinMore
<1> QED
  BY <1>2 DEF BudgetInv, Within, Ns

\* The bounds hold after every step of the sweep.
LEMMA ReaperBudget ==
    ASSUME IInv, BudgetInv, Reaper
    PROVE  BudgetInv'
<1>1. /\ elapsed \in Nat /\ stage \in Stages /\ todo \in Seq(STRING)
      /\ errs \in BOOLEAN /\ first \in BOOLEAN /\ TypeInv
      /\ rest \in SUBSET (Pod \cup Secret) /\ page \in SUBSET (Pod \cup Secret)
  BY DEF IInv, TypeInv, TypeOK
<1>2. pc # "idle" => Len(todo) \in 1..Ns /\ Lists \in 0..(4 * Ns - 1)
  BY <1>1, ListsType DEF BudgetInv
<1>3. CASE StartRun
  <2>1. elapsed' = 0 /\ pc' = "list" /\ first' /\ stage' = "Succeeded"
    BY <1>3 DEF StartRun
  <2>2. Len(todo') = Ns
    <3>1. PICK t \in Int : todo' = RotateNamespaces(Namespaces, t, RotatePeriod)
      BY <1>3, TimesAssumption DEF StartRun, IInv, TypeInv, TypeOK
    <3> QED
      BY <3>1, NamesAssumption, TimesAssumption, RotationIsOrder DEF Ns
  <2>3. Lists' = 0
    BY <2>1, <2>2, NsType DEF Lists, StageIndex, Ns
  <2>4. Within(elapsed', Lists' + 1)
    BY <2>1, <2>3, WithinBudget, WithinMore, TimesAssumption
  <2>5. Len(todo') \in 1..Ns
    BY <2>2, NsType
  <2> QED
    BY <2>1, <2>4, <2>5 DEF BudgetInv, Within, Ns
\* A call at the head of a list.
<1>4. ASSUME pc = "list", Spend PROVE Within(elapsed', Lists + 2) /\ elapsed' \in Nat
  <2>1. Within(elapsed, Lists + 1)
    BY <1>1, <1>2, <1>4, WithinMore DEF BudgetInv
  <2> QED
    BY <1>1, <1>2, <1>4, <2>1, WithinOneMore
<1>5. pc = "list" => (PageOf(Snapshot) = {} => Snapshot = {})
  <2>1. pc = "list" => Snapshot \in SUBSET (Pod \cup Secret)
    BY <1>1, SnapshotType
  <2> QED
    BY <2>1, PageNotEmpty
<1>6. CASE GetPage
  <2>1. /\ pc = "list" /\ page' = PageOf(Snapshot) /\ rest' = Snapshot \ page'
        /\ pc' = "items" /\ first' = FALSE /\ Spend /\ UNCHANGED <<todo, stage>>
    BY <1>6 DEF GetPage
  <2>2. Within(elapsed', Lists + 2) /\ Lists' = Lists
    BY <1>4, <2>1 DEF Lists
  <2>3. ~(page' = {} /\ rest' # {})
    BY <1>5, <2>1
  <2> QED
    BY <1>2, <2>1, <2>2, <2>3 DEF BudgetInv, Within, Ns
<1>7. CASE GetRefsPage
  <2> DEFINE some == PageOf(Snapshot)
             more == Snapshot \ some
             seen == MergeRefs(refs, RefsOf(some))
  <2>1. pc = "list" /\ stage = "refs" /\ Spend
    BY <1>7 DEF GetRefsPage
  <2>2. \/ more = {} /\ GoToStage("secrets", seen) /\ UNCHANGED errs
        \/ more # {} /\ elapsed' > Budget /\ EndRun(errs, TRUE)
        \/ /\ more # {} /\ elapsed' <= Budget
           /\ refs' = seen /\ rest' = more /\ first' = FALSE
           /\ UNCHANGED <<pc, now, todo, stage, page, errs, report>>
    BY <1>7 DEF GetRefsPage
  <2> HIDE DEF more, seen
  <2>3. Within(elapsed', Lists + 2) /\ elapsed' \in Nat
    BY <1>4, <2>1
  <2>4. CASE GoToStage("secrets", seen)
    <3>1. pc' = "list" /\ first' /\ stage' = "secrets" /\ todo' = todo
      BY <2>4 DEF GoToStage
    <3>2. Lists' = Lists + 1
      BY <1>2, <2>1, <3>1, NsType DEF Lists, StageIndex, Ns
    <3>3. Within(elapsed', Lists' + 1)
      <4>1. Lists' + 1 = Lists + 2
        BY <1>2, <2>1, <3>2
      <4> QED
        BY <2>3, <4>1
    <3> QED
      BY <1>2, <2>1, <3>1, <3>3 DEF BudgetInv, Within, Ns
  <2>5. CASE EndRun(errs, TRUE)
    BY <1>1, <1>2, <2>1, <2>3, <2>5, EndWithin DEF EndRun
  <2>6. CASE /\ more # {} /\ elapsed' <= Budget
             /\ refs' = seen /\ rest' = more /\ first' = FALSE
             /\ UNCHANGED <<pc, now, todo, stage, page, errs, report>>
    <3>1. Within(elapsed', 1)
      BY <2>3, <2>6, WithinBudget, WithinMore
    <3> QED
      BY <1>2, <2>1, <2>6, <3>1 DEF BudgetInv, Within, Ns
  <2> QED
    BY <2>2, <2>4, <2>5, <2>6
<1>8. CASE ListFails
  BY <1>1, <1>2, <1>4, <1>8, AfterList DEF ListFails
<1>9. CASE PageDone
  <2>1. pc = "items" /\ page = {} /\ elapsed' = elapsed
    BY <1>9 DEF PageDone
  <2>2. CASE rest # {} /\ pc' = "list" /\ UNCHANGED <<now, cursor, errs, report>>
    <3>1. UNCHANGED <<rest, first, todo, stage>>
      BY <2>2 DEF cursor
    <3>2. Within(elapsed, 1) /\ ~first
      BY <2>1, <2>2 DEF BudgetInv
    <3> QED
      BY <1>2, <2>1, <2>2, <3>1, <3>2 DEF BudgetInv, Within, Ns
  <2>3. CASE NextStage(errs)
    <3>1. Within(elapsed, Lists + 2)
      BY <2>1 DEF BudgetInv
    <3> QED
      BY <1>1, <1>2, <2>1, <2>3, <3>1, AfterList
  <2> QED
    BY <1>9, <2>2, <2>3 DEF PageDone
<1>10. CASE BudgetStop \/ Abort
  <2>1. pc # "idle" /\ elapsed' = elapsed /\ pc' = "idle"
    BY <1>10 DEF BudgetStop, Abort, EndRun
  <2>2. Within(elapsed, Lists + 2)
    <3>1. CASE pc = "items"
      BY <3>1 DEF BudgetInv
    <3>2. CASE pc = "list"
      BY <1>1, <1>2, <3>2, WithinMore DEF BudgetInv
    <3> QED
      BY <2>1, <3>1, <3>2 DEF IInv, TypeInv, TypeOK
  <2> QED
    BY <1>1, <1>2, <2>1, <2>2, EndWithin
<1>11. ASSUME NEW x \in page, KeepItem(x) \/ DeleteItem(x) \/ DeleteFails(x)
       PROVE  BudgetInv'
  <2>1. /\ pc = "items" /\ ~OverBudget
        /\ UNCHANGED <<pc, todo, stage, first, rest>>
        /\ elapsed' = elapsed \/ Spend
    BY <1>11 DEF KeepItem, DeleteItem, DeleteFails, Item
  <2>2. Within(elapsed, 0)
    BY <1>1, <2>1, WithinBudget, TimesAssumption DEF OverBudget
  <2>3. Within(elapsed', 1) /\ elapsed' \in Nat
    <3>1. CASE Spend
      BY <1>1, <2>2, <3>1, WithinOneMore
    <3>2. CASE elapsed' = elapsed
      BY <1>1, <2>2, <3>2, WithinMore
    <3> QED
      BY <2>1, <3>1, <3>2
  <2>4. Within(elapsed', Lists + 2) /\ Lists' = Lists
    BY <1>2, <2>1, <2>3, WithinMore DEF Lists
  <2>5. ~first
    BY <2>1 DEF BudgetInv
  <2> QED
    BY <1>2, <2>1, <2>3, <2>4, <2>5 DEF BudgetInv, Within, Ns
<1> QED
  BY <1>3, <1>6, <1>7, <1>8, <1>9, <1>10, <1>11 DEF Reaper

\* However late the calls come, the run ends at most four calls per namespace
\* and one more after its budget, the longest call taken for each.
THEOREM BudgetKept == Spec => []SoftStopBound
<1>1. Init => BudgetInv
  <2>1. Within(0, 4 * Ns + 1)
    BY WithinBudget, WithinMore, NsType, TimesAssumption
  <2> QED
    BY <2>1 DEF Init, BudgetInv
<1>2. IInv /\ BudgetInv /\ [Next]_vars => BudgetInv'
  <2> SUFFICES ASSUME IInv, BudgetInv, [Next]_vars PROVE BudgetInv'
    OBVIOUS
  <2>1. CASE Environment \/ UNCHANGED vars
    <3>1. UNCHANGED <<pc, todo, stage, first, rest, page, elapsed>>
      BY <2>1 DEF Environment, Tick, CreateSecret, CreatePod, AbandonJob, ContainerEnds,
                  JobEnds, PodRemoved, SecretRemoved, reaper, cursor, vars
    <3> QED
      BY <3>1 DEF BudgetInv, Within, Lists, Ns
  <2>2. CASE Reaper
    BY <2>2, ReaperBudget
  <2> QED
    BY <2>1, <2>2 DEF Next
<1>3. IInv /\ BudgetInv => SoftStopBound
  <2> SUFFICES ASSUME IInv, BudgetInv PROVE Within(elapsed, 4 * Ns + 1)
    BY DEF Within, SoftStopBound, Ns
  <2>1. elapsed \in Nat /\ pc \in {"idle", "list", "items"} /\ stage \in Stages
    BY DEF IInv, TypeInv, TypeOK
  <2>2. CASE pc = "idle"
    BY <2>2 DEF BudgetInv
  <2>3. CASE pc # "idle"
    <3>1. Lists \in 0..(4 * Ns - 1)
      BY <2>1, <2>3, ListsType DEF BudgetInv
    <3>2. \E k \in {1, Lists + 1, Lists + 2} : Within(elapsed, k)
      BY <2>1, <2>3 DEF BudgetInv
    <3> QED
      BY <2>1, <3>1, <3>2, WithinMore, NsType
  <2> QED
    BY <2>2, <2>3
<1> QED
  BY <1>1, <1>2, <1>3, Invariance, PTL DEF Spec

-----------------------------------------------------------------------------
(* What a clean report says. *)

\* The pods and the Secrets that were due when the run began.
DuePod(p) == <<"pod", p.name, p.uid>> \in due
DueSecret(s) == <<"secret", s.name, s.uid>> \in due

\* No object to come has the uid of one that was due.
DueIsOld ==
    \A n \in JobNames, u \in Nat :
        /\ <<"pod", n, u>> \in due => u <= gen[n] /\ (job[n] = "preparing" => u < gen[n])
        /\ <<"secret", n, u>> \in due => u <= gen[n]

\* The run still comes by x, which the list of stage st selects.
Ahead(x, st) ==
    \/ \E i \in 2..Len(todo) : todo[i] = NsOf[x.name]
    \/ /\ NsOf[x.name] = Head(todo)
       /\ \/ StageIndex(stage) < StageIndex(st)
          \/ stage = st /\ (first \/ x \in page \cup rest)

\* A pod that is still due is eligible, and the run still comes by it.
PodStaysDue(p) ==
    /\ p.phase \in TerminalPhases /\ p.name \in Labelled
    /\ PodEligible(p, now)
    /\ Ahead(p, p.phase)

\* While no call failed, that is true of every due pod there is,
DuePodsAhead ==
    pc # "idle" /\ ~errs => \A p \in pods : DuePod(p) => PodStaysDue(p)

\* No pod refers to a due Secret, none that was read and none that is there.
SecretStaysDue(s) ==
    /\ SecretEligible(s, RefsOf(pods), now)
    /\ s.name \in JobNames => job[s.name] = "none"
    /\ ~Referenced(s, refs)
    /\ stage = "refs" => ~Referenced(s, RefsOf(rest))
    /\ Ahead(s, "secrets")

\* and of every due Secret.
DueSecretsAhead ==
    pc # "idle" /\ ~errs => \A s \in secrets : DueSecret(s) => SecretStaysDue(s)

\* What the stages of the loop rest on.
Shape ==
    /\ pc = "items" => ~first /\ stage # "refs"
    /\ pc = "list" => page = {}
    /\ pc # "idle" => report = "none"

\* The inductive invariant of a clean report.
CleanInv ==
    /\ Shape /\ DueIsOld /\ DuePodsAhead /\ DueSecretsAhead
    /\ CleanSweepLeavesNoLeak

-----------------------------------------------------------------------------
(* The environment brings nothing due back. *)

\* Managers and cluster leave the sweep alone.
LEMMA EnvironmentReaper == Environment => UNCHANGED reaper
BY DEF Environment, Tick, CreateSecret, CreatePod, AbandonJob, ContainerEnds, JobEnds,
       PodRemoved, SecretRemoved, reaper

\* A name's count only grows, and grows before its next pod is created.
LEMMA EnvironmentDueIsOld ==
    ASSUME IInv, DueIsOld, Environment
    PROVE  DueIsOld'
<1>1. /\ job \in [JobNames -> {"none", "preparing", "running"}] /\ gen \in [JobNames -> Nat]
      /\ due' = due
  BY EnvironmentReaper DEF IInv, TypeInv, TypeOK, reaper
<1>2. CASE UNCHANGED <<job, gen>>
  BY <1>1, <1>2 DEF DueIsOld
<1>3. ASSUME NEW n \in JobNames, CreateSecret(n) PROVE DueIsOld'
  <2>1. gen' = [gen EXCEPT ![n] = @ + 1] /\ job' = [job EXCEPT ![n] = "preparing"]
    BY <1>3 DEF CreateSecret
  <2>2. \A m \in JobNames : m # n => gen'[m] = gen[m] /\ job'[m] = job[m]
    BY <1>1, <2>1
  <2>3. gen'[n] = gen[n] + 1 /\ gen[n] \in Nat
    BY <1>1, <2>1
  <2>4. \A u \in Nat : u <= gen[n] => u <= gen'[n] /\ u < gen'[n]
    BY <2>3
  <2> QED
    BY <1>1, <2>2, <2>4 DEF DueIsOld
<1>4. ASSUME NEW n \in JobNames, gen' = gen, job'[n] # "preparing",
             \A m \in JobNames : m # n => job'[m] = job[m]
      PROVE DueIsOld'
  BY <1>1, <1>4 DEF DueIsOld
<1>5. ASSUME NEW n \in JobNames, CreatePod(n) \/ AbandonJob(n) PROVE DueIsOld'
  <2>1. gen' = gen /\ job'[n] # "preparing" /\ \A m \in JobNames : m # n => job'[m] = job[m]
    BY <1>1, <1>5 DEF CreatePod, AbandonJob
  <2> QED
    BY <2>1, <1>4
<1>6. ASSUME NEW p \in pods, JobEnds(p) PROVE DueIsOld'
  <2>1. /\ p.name \in JobNames /\ gen' = gen /\ job'[p.name] # "preparing"
        /\ \A m \in JobNames : m # p.name => job'[m] = job[m]
    BY <1>1, <1>6 DEF JobEnds
  <2> QED
    BY <2>1, <1>4
<1>7. ASSUME NEW p \in pods, PodRemoved(p) PROVE DueIsOld'
  <2>1. p.name \in JobNames /\ gen' = gen /\ \A m \in JobNames : m # p.name => job'[m] = job[m]
    BY <1>1, <1>7 DEF PodRemoved
  <2>2. job[p.name] # "preparing"
    BY <2>1 DEF IInv, ClusterInv, PreparingIsYoung
  <2>3. job'[p.name] # "preparing"
    BY <1>1, <1>7, <2>1, <2>2 DEF PodRemoved
  <2> QED
    BY <2>1, <2>3, <1>4
<1>8. CASE Tick \/ (\E p \in pods : ContainerEnds(p)) \/ (\E s \in secrets : SecretRemoved(s))
  BY <1>2, <1>8 DEF Tick, ContainerEnds, SecretRemoved
<1> QED
  BY <1>3, <1>5, <1>6, <1>7, <1>8 DEF Environment

\* A pod that is there after a step of the environment was there before, or
\* still ran before, or is new and not due.
LEMMA EnvironmentPods ==
    ASSUME IInv, DueIsOld, Environment, NEW p \in pods', DuePod(p)
    PROVE  \/ p \in pods
           \/ \E q \in pods : q.phase = "Running" /\ q.name = p.name /\ q.uid = p.uid
<1>1. pods \subseteq Pod /\ gen \in [JobNames -> Nat]
  BY DEF IInv, TypeInv, TypeOK
<1>2. CASE UNCHANGED pods
  BY <1>2
<1>3. ASSUME NEW n \in JobNames, CreatePod(n), p \notin pods PROVE FALSE
  <2>1. p.name = n /\ p.uid = gen[n] /\ job[n] = "preparing" /\ gen[n] \in Nat
    BY <1>1, <1>3 DEF CreatePod
  <2>2. gen[n] < gen[n]
    BY <2>1 DEF DuePod, DueIsOld
  <2> QED
    BY <2>1, <2>2
<1>4. ASSUME NEW q \in pods, ContainerEnds(q), p \notin pods
      PROVE  q.phase = "Running" /\ q.name = p.name /\ q.uid = p.uid
  <2>1. p = [q EXCEPT !.ends = {clock}] \/ p = [q EXCEPT !.lost = TRUE]
    BY <1>4 DEF ContainerEnds
  <2> QED
    BY <1>1, <1>4, <2>1 DEF ContainerEnds, Pod
<1>5. ASSUME NEW q \in pods, JobEnds(q), p \notin pods
      PROVE  q.phase = "Running" /\ q.name = p.name /\ q.uid = p.uid
  <2>1. PICK phase \in TerminalPhases, ends \in {q.ends, q.ends \cup {clock}} :
            p = [q EXCEPT !.phase = phase, !.ends = ends]
    BY <1>5 DEF JobEnds
  <2> QED
    BY <1>1, <1>5, <2>1 DEF JobEnds, Pod
<1>6. ASSUME NEW q \in pods, PodRemoved(q) PROVE p \in pods
  BY <1>6 DEF PodRemoved
<1> QED
  BY <1>2, <1>3, <1>4, <1>5, <1>6
  DEF Environment, Tick, CreateSecret, AbandonJob, SecretRemoved

\* A due Secret that is there after a step of the environment was there before,
\* and as it was if its name has no job.
LEMMA EnvironmentSecrets ==
    ASSUME IInv, DueIsOld, Environment, NEW s \in secrets', DueSecret(s)
    PROVE  \/ s \in secrets
           \/ \E z \in secrets : z.name = s.name /\ z.uid = s.uid
                                 /\ z.name \in JobNames /\ job[z.name] # "none"
<1>1. secrets \subseteq Secret /\ gen \in [JobNames -> Nat]
  BY DEF IInv, TypeInv, TypeOK
<1>2. ASSUME NEW n \in JobNames, CreateSecret(n), s \notin secrets PROVE FALSE
  <2>1. s.name = n /\ s.uid = gen[n] + 1 /\ gen[n] \in Nat
    BY <1>1, <1>2 DEF CreateSecret
  <2>2. <<"secret", n, gen[n] + 1>> \in due /\ gen[n] + 1 \in Nat
    BY <2>1 DEF DueSecret
  <2>3. gen[n] + 1 <= gen[n]
    BY <2>2 DEF DueIsOld
  <2> QED
    BY <2>1, <2>3
<1>3. ASSUME NEW n \in JobNames, CreatePod(n), s \notin secrets
      PROVE  \E z \in secrets : z.name = s.name /\ z.uid = s.uid
                                /\ z.name \in JobNames /\ job[z.name] # "none"
  <2>1. PICK z \in secrets, pulls \in BOOLEAN :
            s = IF z.name = n /\ ~pulls THEN [z EXCEPT !.owner = gen[n]] ELSE z
    BY <1>3 DEF CreatePod
  <2>2. z.name = n /\ s = [z EXCEPT !.owner = gen[n]]
    BY <1>3, <2>1
  <2>3. s.name = z.name /\ s.uid = z.uid
    BY <1>1, <2>2, WithOwnerType
  <2>4. job[n] # "none"
    BY <1>3 DEF CreatePod
  <2> QED
    BY <2>2, <2>3, <2>4
<1>4. ASSUME NEW z \in secrets, SecretRemoved(z) PROVE s \in secrets
  BY <1>4 DEF SecretRemoved
<1> QED
  BY <1>2, <1>3, <1>4
  DEF Environment, Tick, AbandonJob, ContainerEnds, JobEnds, PodRemoved

\* No pod comes to refer to a Secret whose name has no job.
LEMMA EnvironmentRefs ==
    ASSUME IInv, Environment, NEW s \in secrets, s.name \in JobNames => job[s.name] = "none",
           s \in secrets', ~Referenced(s, RefsOf(pods))
    PROVE  ~Referenced(s, RefsOf(pods))' /\ (s.name \in JobNames => job'[s.name] = "none")
<1> DEFINE Refers(p) == p.name = s.name /\ (p.pulls \/ p.uid = s.owner)
<1>1. /\ pods \subseteq Pod
      /\ job \in [JobNames -> {"none", "preparing", "running"}]
  BY DEF IInv, TypeInv, TypeOK
<1>2. Referenced(s, RefsOf(pods)) <=> \E p \in pods : Refers(p)
  BY DEF Referenced, RefsOf
<1>3. Referenced(s, RefsOf(pods))' <=> \E p \in pods' : Refers(p)
  BY DEF Referenced, RefsOf
<1>4. CASE UNCHANGED <<pods, job>>
  BY <1>2, <1>3, <1>4
<1>5. ASSUME NEW n \in JobNames, CreateSecret(n) PROVE s.name # n /\ UNCHANGED pods
  BY <1>5 DEF CreateSecret
<1>6. ASSUME NEW n \in JobNames, CreatePod(n)
      PROVE  s.name # n /\ \A p \in pods' : p \in pods \/ p.name = n
  BY <1>6 DEF CreatePod
<1>7. ASSUME NEW n \in JobNames, CreateSecret(n) \/ CreatePod(n) \/ AbandonJob(n)
      PROVE  /\ s.name \in JobNames => job'[s.name] = "none"
             /\ \A p \in pods' : Refers(p) => p \in pods
  <2>1. \E v : job' = [job EXCEPT ![n] = v] /\ (s.name = n => v = "none")
    BY <1>5, <1>6, <1>7 DEF CreateSecret, CreatePod, AbandonJob
  <2>2. s.name \in JobNames => job'[s.name] = "none"
    BY <1>1, <2>1
  <2>3. \A p \in pods' : Refers(p) => p \in pods
    BY <1>5, <1>6, <1>7 DEF AbandonJob
  <2> QED
    BY <2>2, <2>3
<1>8. ASSUME NEW q \in pods, ContainerEnds(q) \/ JobEnds(q) \/ PodRemoved(q)
      PROVE  \A p \in pods' : \E r \in pods : r.name = p.name /\ r.uid = p.uid /\ r.pulls = p.pulls
  <2>1. CASE ContainerEnds(q)
    <3>1. PICK r \in {[q EXCEPT !.ends = {clock}], [q EXCEPT !.lost = TRUE]} :
              pods' = (pods \ {q}) \cup {r}
      BY <2>1 DEF ContainerEnds
    <3>2. r.name = q.name /\ r.uid = q.uid /\ r.pulls = q.pulls
      BY <1>1 DEF Pod
    <3> QED
      BY <3>1, <3>2
  <2>2. CASE JobEnds(q)
    <3>1. PICK phase \in TerminalPhases, ends \in {q.ends, q.ends \cup {clock}} :
              pods' = (pods \ {q}) \cup {[q EXCEPT !.phase = phase, !.ends = ends]}
      BY <2>2 DEF JobEnds
    <3> DEFINE r == [q EXCEPT !.phase = phase, !.ends = ends]
    <3>2. r.name = q.name /\ r.uid = q.uid /\ r.pulls = q.pulls
      BY <1>1 DEF Pod
    <3> HIDE DEF r
    <3>3. pods' = (pods \ {q}) \cup {r}
      BY <3>1 DEF r
    <3> QED
      BY <3>2, <3>3
  <2>3. CASE PodRemoved(q)
    BY <2>3 DEF PodRemoved
  <2> QED
    BY <1>8, <2>1, <2>2, <2>3
<1>9. ASSUME NEW q \in pods, ContainerEnds(q) \/ JobEnds(q) \/ PodRemoved(q)
      PROVE  s.name \in JobNames => job'[s.name] = "none"
  BY <1>1, <1>9 DEF ContainerEnds, JobEnds, PodRemoved
<1>10. ASSUME NEW z \in secrets, SecretRemoved(z) PROVE UNCHANGED <<pods, job>>
  BY <1>10 DEF SecretRemoved
<1>11. CASE Tick
  BY <1>4, <1>11 DEF Tick
<1> QED
  BY <1>2, <1>3, <1>4, <1>7, <1>8, <1>9, <1>10, <1>11 DEF Environment

\* Managers and cluster do not invalidate what the sweep has settled.
LEMMA EnvironmentClean ==
    ASSUME IInv, CleanInv, Environment
    PROVE  CleanInv'
<1>1. /\ UNCHANGED <<pc, now, todo, stage, first, rest, page, refs, errs, report, due>>
      /\ Shape /\ DueIsOld
  BY EnvironmentReaper DEF reaper, cursor, CleanInv
<1>2. Shape' /\ DueIsOld'
  BY <1>1, EnvironmentDueIsOld DEF Shape
<1>3. DuePodsAhead'
  <2> SUFFICES ASSUME pc # "idle", ~errs, NEW p \in pods', DuePod(p)
               PROVE  PodStaysDue(p)'
    BY <1>1 DEF DuePodsAhead, DuePod
  <2>1. p \in pods
    <3>1. \A q \in pods : DuePod(q) => q.phase # "Running"
      BY DEF CleanInv, DuePodsAhead, PodStaysDue, TerminalPhases
    <3> QED
      BY <3>1, <1>1, EnvironmentPods DEF DuePod
  <2>2. PodStaysDue(p)
    BY <2>1 DEF CleanInv, DuePodsAhead
  <2> QED
    BY <1>1, <2>2 DEF PodStaysDue, Ahead
<1>4. DueSecretsAhead'
  <2> SUFFICES ASSUME pc # "idle", ~errs, NEW s \in secrets', DueSecret(s)
               PROVE  SecretStaysDue(s)'
    BY <1>1 DEF DueSecretsAhead, DueSecret
  <2>1. s \in secrets
    <3>1. \A z \in secrets : DueSecret(z) /\ z.name \in JobNames => job[z.name] = "none"
      BY DEF CleanInv, DueSecretsAhead, SecretStaysDue
    <3> QED
      BY <3>1, <1>1, EnvironmentSecrets DEF DueSecret
  <2>2. SecretStaysDue(s)
    BY <2>1 DEF CleanInv, DueSecretsAhead
  <2>3. ~Referenced(s, RefsOf(pods))' /\ (s.name \in JobNames => job'[s.name] = "none")
    BY <2>1, <2>2, EnvironmentRefs DEF SecretStaysDue, SecretEligible
  <2> QED
    BY <1>1, <2>2, <2>3 DEF SecretStaysDue, SecretEligible, Ahead, Referenced, RefsOf, OldEnough
<1>5. CleanSweepLeavesNoLeak'
  <2> SUFFICES ASSUME report = "clean"
               PROVE  /\ \A p \in pods' : ~DuePod(p)
                      /\ \A s \in secrets' : ~DueSecret(s)
    BY <1>1 DEF CleanSweepLeavesNoLeak, DuePod, DueSecret
  <2>1. (\A p \in pods : ~DuePod(p)) /\ (\A s \in secrets : ~DueSecret(s))
    BY DEF CleanInv, CleanSweepLeavesNoLeak, DuePod, DueSecret
  <2>2. \A p \in pods' : ~DuePod(p)
    BY <1>1, <2>1, EnvironmentPods DEF DuePod
  <2>3. \A s \in secrets' : ~DueSecret(s)
    BY <1>1, <2>1, EnvironmentSecrets DEF DueSecret
  <2> QED
    BY <2>2, <2>3
<1> QED
  BY <1>2, <1>3, <1>4, <1>5 DEF CleanInv

\* An end that is not clean, of a run that has not reported yet.
LEMMA NotCleanEnd ==
    ASSUME IInv, CleanInv, UNCHANGED <<job, gen, due>>, pc' = "idle", report' # "clean"
    PROVE  CleanInv'
BY DEF CleanInv, Shape, DueIsOld, DuePodsAhead, DueSecretsAhead, CleanSweepLeavesNoLeak

\* A run with an error to report owes nothing.
LEMMA ErrorIsReported ==
    ASSUME IInv, CleanInv, UNCHANGED <<job, gen, due>>, Shape', report' # "clean",
           errs'
    PROVE  CleanInv'
BY DEF CleanInv, DueIsOld, DuePodsAhead, DueSecretsAhead, CleanSweepLeavesNoLeak

\* What a sweep decides about x is right if x is due.
LEMMA DueIsEligible ==
    ASSUME IInv, CleanInv, pc = "items", ~errs, NEW x \in page
    PROVE  /\ stage # "secrets" => \A p \in pods : DuePod(p) /\ p = x => Eligible(x)
           /\ stage = "secrets" => \A s \in secrets : DueSecret(s) /\ s = x => Eligible(x)
<1>1. ASSUME stage # "secrets", NEW p \in pods, DuePod(p), p = x PROVE Eligible(x)
  BY <1>1 DEF CleanInv, DuePodsAhead, PodStaysDue, Eligible
<1>2. ASSUME stage = "secrets", NEW s \in secrets, DueSecret(s), s = x PROVE Eligible(x)
  BY <1>2 DEF CleanInv, DueSecretsAhead, SecretStaysDue, SecretEligible, Eligible
<1> QED
  BY <1>1, <1>2

\* An item that was looked at is gone, or was not due.
LEMMA ItemClean ==
    ASSUME IInv, CleanInv, NEW x \in page, KeepItem(x) \/ DeleteItem(x)
    PROVE  CleanInv'
<1>1. /\ pc = "items" /\ page' = page \ {x} /\ pods' \subseteq pods /\ secrets' \subseteq secrets
      /\ UNCHANGED <<clock, job, gen, pc, now, todo, stage, first, rest, refs, errs, report, due>>
  BY DEF KeepItem, DeleteItem, Item, cluster, RemoveItem
<1>2. Shape' /\ DueIsOld'
  BY <1>1 DEF CleanInv, Shape, DueIsOld
<1>3. stage # "secrets" /\ ~errs => \A p \in pods' : DuePod(p) => p # x
  <2>1. CASE KeepItem(x)
    BY <1>1, <2>1, DueIsEligible DEF KeepItem, cluster
  <2>2. CASE DeleteItem(x)
    BY <2>2 DEF DeleteItem, RemoveItem, Precondition
  <2> QED
    BY <2>1, <2>2
<1>4. stage = "secrets" /\ ~errs => \A s \in secrets' : DueSecret(s) => s # x
  <2>1. CASE KeepItem(x)
    BY <1>1, <2>1, DueIsEligible DEF KeepItem, cluster
  <2>2. CASE DeleteItem(x)
    BY <2>2 DEF DeleteItem, RemoveItem, Precondition
  <2> QED
    BY <2>1, <2>2
<1>5. DuePodsAhead'
  <2> SUFFICES ASSUME ~errs, NEW p \in pods', DuePod(p) PROVE PodStaysDue(p)'
    BY <1>1 DEF DuePodsAhead, DuePod
  <2>1. p \in pods /\ PodStaysDue(p)
    BY <1>1 DEF CleanInv, DuePodsAhead
  <2>2. p.phase = stage => p # x
    BY <1>3, <2>1 DEF PodStaysDue, TerminalPhases
  <2> QED
    BY <1>1, <2>1, <2>2 DEF PodStaysDue, Ahead
<1>6. DueSecretsAhead'
  <2> SUFFICES ASSUME ~errs, NEW s \in secrets', DueSecret(s) PROVE SecretStaysDue(s)'
    BY <1>1 DEF DueSecretsAhead, DueSecret
  <2>1. s \in secrets /\ SecretStaysDue(s)
    BY <1>1 DEF CleanInv, DueSecretsAhead
  <2>2. SecretEligible(s, RefsOf(pods'), now)
    BY <1>1, <2>1 DEF SecretStaysDue, SecretEligible, Referenced, RefsOf
  <2>3. Ahead(s, "secrets")'
    BY <1>1, <1>4, <2>1 DEF SecretStaysDue, Ahead
  <2> QED
    BY <1>1, <2>1, <2>2, <2>3 DEF SecretStaysDue, Referenced, RefsOf, SecretEligible, OldEnough
<1>7. CleanSweepLeavesNoLeak'
  BY <1>1 DEF CleanInv, Shape, CleanSweepLeavesNoLeak
<1> QED
  BY <1>2, <1>5, <1>6, <1>7 DEF CleanInv

\* The list of this stage is exhausted without an error.
LEMMA ListOver ==
    ASSUME IInv, CleanInv, pc # "idle", ~errs, NextStage(errs),
           ~first, page = {}, rest = {}, stage # "refs",
           UNCHANGED <<clock, job, gen, pods, secrets, due>>
    PROVE  CleanInv'
<1>1. /\ stage \in Stages /\ todo \in Seq(STRING) /\ todo # << >>
      /\ DueIsOld' /\ report = "none"
  BY DEF IInv, TypeInv, TypeOK, CleanInv, Shape, DueIsOld
<1> DEFINE Later(x, st) == \/ \E i \in 2..Len(todo) : todo[i] = NsOf[x.name]
                           \/ /\ NsOf[x.name] = Head(todo)
                              /\ StageIndex(stage) < StageIndex(st)
<1>2. \A p \in pods : DuePod(p) => PodStaysDue(p) /\ Later(p, p.phase)
  BY DEF CleanInv, DuePodsAhead, PodStaysDue, Ahead
<1>3. \A s \in secrets : DueSecret(s) => SecretStaysDue(s) /\ Later(s, "secrets")
  BY DEF CleanInv, DueSecretsAhead, SecretStaysDue, Ahead
<1>4. ASSUME NEW st \in Stages, GoToStage(st, NoRefs), errs' = errs,
             StageIndex(st) = StageIndex(stage) + 1
      PROVE  CleanInv'
  <2>1. /\ pc' = "list" /\ stage' = st /\ first' /\ rest' = {} /\ page' = {} /\ refs' = NoRefs
        /\ UNCHANGED <<now, todo, report>>
    BY <1>4 DEF GoToStage
  <2>2. \A x, y : Later(x, y) /\ y \in Stages => Ahead(x, y)'
    BY <1>1, <1>4, <2>1 DEF Ahead, StageIndex, Stages
  <2>3. DuePodsAhead'
    BY <1>2, <2>1, <2>2 DEF DuePodsAhead, PodStaysDue, DuePod, TerminalPhases, Stages
  <2>4. DueSecretsAhead'
    <3>1. \A s : ~Referenced(s, refs)' /\ ~Referenced(s, RefsOf(rest))'
      BY <2>1 DEF Referenced, RefsOf, NoRefs
    <3> QED
      BY <1>3, <2>1, <2>2, <3>1 DEF DueSecretsAhead, SecretStaysDue, DueSecret, Stages,
              SecretEligible, Referenced, RefsOf, OldEnough
  <2>5. Shape' /\ CleanSweepLeavesNoLeak'
    BY <1>1, <2>1 DEF Shape, CleanSweepLeavesNoLeak
  <2> QED
    BY <1>1, <2>3, <2>4, <2>5 DEF CleanInv
<1>5. CASE stage = "Succeeded" /\ GoToStage("Failed", NoRefs) /\ errs' = errs
  BY <1>4, <1>5 DEF Stages, StageIndex
<1>6. CASE stage = "Failed" /\ GoToStage("refs", NoRefs) /\ errs' = errs
  BY <1>4, <1>6 DEF Stages, StageIndex
<1>7. CASE stage = "secrets" /\ NextNamespace(errs)
  <2>1. \A x : ~(StageIndex(stage) < StageIndex(x))
    BY <1>7 DEF StageIndex
  <2>2. \A x, y : Later(x, y) => \E i \in 2..Len(todo) : todo[i] = NsOf[x.name]
    BY <2>1
  <2> HIDE DEF Later
  <2>3. CASE Len(todo) = 1
    <3>1. \A x, y : ~Later(x, y)
      BY <2>2, <2>3
    <3>2. pc' = "idle"
      BY <1>7, <2>3 DEF NextNamespace, EndRun
    <3> QED
      BY <1>1, <1>2, <1>3, <3>1, <3>2 DEF CleanInv, Shape, DuePodsAhead, DueSecretsAhead,
             CleanSweepLeavesNoLeak, DuePod, DueSecret
  <2>4. CASE Len(todo) # 1
    <3>1. /\ pc' = "list" /\ stage' = "Succeeded" /\ first' /\ rest' = {} /\ page' = {}
          /\ refs' = NoRefs /\ todo' = Tail(todo) /\ errs' = errs /\ UNCHANGED <<now, report>>
      BY <1>7, <2>4 DEF NextNamespace
    <3>2. ASSUME NEW x, NEW i \in 2..Len(todo), todo[i] = NsOf[x.name], NEW st \in Stages, st # "refs"
          PROVE  Ahead(x, st)'
      <4>1. /\ Len(Tail(todo)) = Len(todo) - 1 /\ Tail(todo)[i - 1] = todo[i]
            /\ Tail(todo) # << >>
        <5>1. todo \in Seq(STRING) /\ i \in 2..Len(todo) /\ Len(todo) \in Nat
          BY <1>1, <3>2
        <5>2. Tail(todo) \in Seq(STRING) /\ Len(Tail(todo)) = Len(todo) - 1
          BY <5>1
        <5>3. Tail(todo)[i - 1] = todo[i]
          BY <5>1
        <5>4. Len(Tail(todo)) # 0
          BY <5>1, <5>2
        <5> QED
          BY <5>2, <5>3, <5>4, EmptySeq
      <4>2. CASE i = 2
        <5>1. Head(Tail(todo)) = todo[i]
          BY <1>1, <4>1, <4>2
        <5>2. StageIndex("Succeeded") < StageIndex(st) \/ st = "Succeeded"
          BY DEF StageIndex, Stages
        <5> QED
          BY <3>1, <3>2, <5>1, <5>2 DEF Ahead
      <4>3. CASE i # 2
        <5>1. i - 1 \in 2..Len(todo') /\ todo'[i - 1] = NsOf[x.name]
          BY <1>1, <3>1, <3>2, <4>1, <4>3
        <5> QED
          BY <5>1 DEF Ahead
      <4> QED
        BY <4>2, <4>3
    <3>3. \A x : \A st \in Stages : Later(x, st) /\ st # "refs" => Ahead(x, st)'
      BY <2>2, <3>2
    <3>4. DuePodsAhead'
      BY <1>2, <3>1, <3>3 DEF DuePodsAhead, PodStaysDue, DuePod, TerminalPhases, Stages
    <3>5. DueSecretsAhead'
      <4>1. \A s : ~Referenced(s, refs)' /\ ~Referenced(s, RefsOf(rest))'
        BY <3>1 DEF Referenced, RefsOf, NoRefs
      <4> QED
        BY <1>3, <3>1, <3>3, <4>1 DEF DueSecretsAhead, SecretStaysDue, DueSecret, Stages,
              SecretEligible, Referenced, RefsOf, OldEnough
    <3>6. Shape' /\ CleanSweepLeavesNoLeak'
      BY <1>1, <3>1 DEF Shape, CleanSweepLeavesNoLeak
    <3> QED
      BY <1>1, <3>4, <3>5, <3>6 DEF CleanInv
  <2> QED
    BY <2>3, <2>4
<1> QED
  BY <1>5, <1>6, <1>7 DEF NextStage

\* An end or an error of the list, once reported, owes nothing.
LEMMA NextStageShape ==
    ASSUME NEW failed \in BOOLEAN, NextStage(failed), report = "none"
    PROVE  /\ Shape'
           /\ failed => report' # "clean" /\ (pc' = "idle" \/ errs')
BY DEF NextStage, GoToStage, NextNamespace, EndRun, Shape

\* The list of a stage holds every due object of its kind and namespace.
LEMMA SnapshotIsDue ==
    ASSUME IInv, CleanInv, pc = "list", ~errs
    PROVE  /\ \A p \in pods : DuePod(p) /\ p.phase = stage /\ NsOf[p.name] = Head(todo)
                /\ ~(\E i \in 2..Len(todo) : todo[i] = NsOf[p.name]) => p \in Snapshot
           /\ stage = "secrets" => \A s \in secrets : DueSecret(s) /\ NsOf[s.name] = Head(todo)
                /\ ~(\E i \in 2..Len(todo) : todo[i] = NsOf[s.name]) => s \in Snapshot
<1>1. page = {} /\ first \in BOOLEAN
  BY DEF CleanInv, Shape, IInv, TypeInv, TypeOK
<1>2. \A p \in pods : DuePod(p) => PodStaysDue(p)
  BY DEF CleanInv, DuePodsAhead
<1>3. \A s \in secrets : DueSecret(s) => SecretStaysDue(s)
  BY DEF CleanInv, DueSecretsAhead
<1>4. \A st : ~(StageIndex(st) < StageIndex(st))
  BY DEF StageIndex
<1>5. ASSUME NEW p \in pods, DuePod(p), p.phase = stage, NsOf[p.name] = Head(todo),
             ~(\E i \in 2..Len(todo) : todo[i] = NsOf[p.name])
      PROVE  p \in Snapshot
  <2>1. p.name \in Labelled /\ p.phase \in TerminalPhases /\ (first \/ p \in rest)
    BY <1>1, <1>2, <1>4, <1>5 DEF PodStaysDue, Ahead
  <2> QED
    BY <1>5, <2>1 DEF Snapshot, Listed, TerminalPhases
<1>6. ASSUME stage = "secrets", NEW s \in secrets, DueSecret(s), NsOf[s.name] = Head(todo),
             ~(\E i \in 2..Len(todo) : todo[i] = NsOf[s.name])
      PROVE  s \in Snapshot
  <2>1. first \/ s \in rest
    BY <1>1, <1>3, <1>4, <1>6 DEF SecretStaysDue, Ahead
  <2> QED
    BY <1>6, <2>1 DEF Snapshot, Listed
<1> QED
  BY <1>5, <1>6

\* A page takes nothing due out of sight.
LEMMA GetPageClean == ASSUME IInv, CleanInv, GetPage PROVE CleanInv'
<1>1. /\ pc = "list" /\ stage # "refs" /\ pc' = "items" /\ first' = FALSE
      /\ page' \cup rest' = Snapshot
      /\ UNCHANGED <<clock, job, gen, pods, secrets, now, todo, stage, refs, errs, report, due>>
  BY PageIsPart DEF GetPage, cluster
<1>2. Shape' /\ DueIsOld' /\ CleanSweepLeavesNoLeak'
  BY <1>1 DEF CleanInv, Shape, DueIsOld, CleanSweepLeavesNoLeak
<1>3. DuePodsAhead'
  <2> SUFFICES ASSUME ~errs, NEW p \in pods, DuePod(p) PROVE PodStaysDue(p)'
    BY <1>1 DEF DuePodsAhead, DuePod
  <2>1. PodStaysDue(p)
    BY <1>1 DEF CleanInv, DuePodsAhead
  <2>2. Ahead(p, p.phase)'
    BY <1>1, <2>1, SnapshotIsDue DEF PodStaysDue, Ahead
  <2> QED
    BY <1>1, <2>1, <2>2 DEF PodStaysDue
<1>4. DueSecretsAhead'
  <2> SUFFICES ASSUME ~errs, NEW s \in secrets, DueSecret(s) PROVE SecretStaysDue(s)'
    BY <1>1 DEF DueSecretsAhead, DueSecret
  <2>1. SecretStaysDue(s)
    BY <1>1 DEF CleanInv, DueSecretsAhead
  <2>2. Ahead(s, "secrets")'
    BY <1>1, <2>1, SnapshotIsDue DEF SecretStaysDue, Ahead
  <2> QED
    BY <1>1, <2>1, <2>2 DEF SecretStaysDue, SecretEligible, Referenced, RefsOf, OldEnough
<1> QED
  BY <1>2, <1>3, <1>4 DEF CleanInv

\* The references never cover a due Secret.
LEMMA GetRefsPageClean == ASSUME IInv, CleanInv, GetRefsPage PROVE CleanInv'
<1> DEFINE some == PageOf(Snapshot)
           more == Snapshot \ some
           seen == MergeRefs(refs, RefsOf(some))
<1>1. /\ pc = "list" /\ stage = "refs" /\ report = "none" /\ page = {}
      /\ UNCHANGED <<clock, job, gen, pods, secrets, due>>
  BY DEF GetRefsPage, cluster, CleanInv, Shape
<1>2. \/ more = {} /\ GoToStage("secrets", seen) /\ UNCHANGED errs
      \/ EndRun(errs, TRUE)
      \/ /\ refs' = seen /\ rest' = more /\ first' = FALSE
         /\ UNCHANGED <<pc, now, todo, stage, page, errs, report>>
  BY DEF GetRefsPage
\* No pod of the page, or of those to come, refers to a due Secret.
<1>3. ASSUME ~errs, NEW s \in secrets, DueSecret(s)
      PROVE  SecretStaysDue(s) /\ ~Referenced(s, seen) /\ ~Referenced(s, RefsOf(more))
  <2>1. SecretStaysDue(s)
    BY <1>1, <1>3 DEF CleanInv, DueSecretsAhead
  <2>2. ~Referenced(s, refs) /\ ~Referenced(s, RefsOf(rest)) /\ ~Referenced(s, RefsOf(pods))
    BY <1>1, <2>1 DEF SecretStaysDue, SecretEligible
  <2>3. Snapshot \subseteq pods \/ Snapshot = rest
    BY <1>1 DEF Snapshot, Listed
  <2>4. ~Referenced(s, RefsOf(Snapshot))
    BY <2>2, <2>3 DEF Referenced, RefsOf
  <2>5. some \subseteq Snapshot /\ more \subseteq Snapshot
    BY PageIsPart
  <2> HIDE DEF some, more
  <2>6. \A P : P \subseteq Snapshot => ~Referenced(s, RefsOf(P))
    BY <2>4 DEF Referenced, RefsOf
  <2>7. ~Referenced(s, RefsOf(some)) /\ ~Referenced(s, RefsOf(more))
    BY <2>5, <2>6
  <2> QED
    BY <2>1, <2>2, <2>7 DEF Referenced, MergeRefs
\* Due pods are in later namespaces.
<1>4. ASSUME ~errs, NEW p \in pods, DuePod(p)
      PROVE  PodStaysDue(p) /\ \E i \in 2..Len(todo) : todo[i] = NsOf[p.name]
  <2>1. PodStaysDue(p)
    BY <1>1, <1>4 DEF CleanInv, DuePodsAhead
  <2> QED
    BY <1>1, <2>1 DEF PodStaysDue, Ahead, StageIndex, TerminalPhases
<1>5. DueIsOld'
  BY <1>1 DEF CleanInv, DueIsOld
<1> HIDE DEF some, more, seen
<1>6. CASE GoToStage("secrets", seen) /\ UNCHANGED errs
  <2>1. /\ pc' = "list" /\ stage' = "secrets" /\ first' /\ rest' = {} /\ page' = {} /\ refs' = seen
        /\ UNCHANGED <<now, todo, report, errs>>
    BY <1>6 DEF GoToStage
  <2>2. DuePodsAhead'
    BY <1>1, <1>4, <2>1 DEF DuePodsAhead, DuePod, PodStaysDue, Ahead
  <2>3. DueSecretsAhead'
    <3> SUFFICES ASSUME ~errs, NEW s \in secrets, DueSecret(s) PROVE SecretStaysDue(s)'
      BY <1>1, <2>1 DEF DueSecretsAhead, DueSecret
    <3>1. SecretStaysDue(s) /\ ~Referenced(s, seen)
      BY <1>3
    <3>2. Ahead(s, "secrets")'
      BY <1>1, <2>1, <3>1 DEF SecretStaysDue, Ahead
    <3> QED
      BY <1>1, <2>1, <3>1, <3>2 DEF SecretStaysDue, SecretEligible, Referenced, RefsOf, OldEnough
  <2>4. Shape' /\ CleanSweepLeavesNoLeak'
    BY <1>1, <2>1 DEF Shape, CleanSweepLeavesNoLeak
  <2> QED
    BY <1>5, <2>2, <2>3, <2>4 DEF CleanInv
<1>7. CASE EndRun(errs, TRUE)
  BY <1>1, <1>7, NotCleanEnd DEF EndRun
<1>8. CASE /\ refs' = seen /\ rest' = more /\ first' = FALSE
           /\ UNCHANGED <<pc, now, todo, stage, page, errs, report>>
  <2>1. DuePodsAhead'
    BY <1>1, <1>4, <1>8 DEF DuePodsAhead, DuePod, PodStaysDue, Ahead
  <2>2. DueSecretsAhead'
    <3> SUFFICES ASSUME ~errs, NEW s \in secrets, DueSecret(s) PROVE SecretStaysDue(s)'
      BY <1>1, <1>8 DEF DueSecretsAhead, DueSecret
    <3>1. SecretStaysDue(s) /\ ~Referenced(s, seen) /\ ~Referenced(s, RefsOf(more))
      BY <1>3
    <3>2. Ahead(s, "secrets")'
      BY <1>1, <1>8, <3>1 DEF SecretStaysDue, Ahead
    <3> QED
      BY <1>1, <1>8, <3>1, <3>2 DEF SecretStaysDue, SecretEligible, Referenced, RefsOf, OldEnough
  <2>3. Shape' /\ CleanSweepLeavesNoLeak'
    BY <1>1, <1>8 DEF CleanInv, Shape, CleanSweepLeavesNoLeak
  <2> QED
    BY <1>5, <2>1, <2>2, <2>3 DEF CleanInv
<1> QED
  BY <1>2, <1>6, <1>7, <1>8

\* At the start everything due is still to come.
LEMMA StartRunClean == ASSUME IInv, CleanInv, StartRun PROVE CleanInv'
<1>1. PICK skew \in (-MaxSkew)..MaxSkew :
          /\ now' = clock + skew
          /\ todo' = RotateNamespaces(Namespaces, clock + skew, RotatePeriod)
          /\ due' = ReapableAt(clock + skew)
  BY DEF StartRun
<1>2. /\ pc' = "list" /\ stage' = "Succeeded" /\ first'
      /\ rest' = {} /\ page' = {} /\ refs' = NoRefs /\ ~errs' /\ report' = "none"
      /\ UNCHANGED <<clock, job, gen, pods, secrets>>
  BY DEF StartRun, cluster
<1>3. clock + skew \in Int /\ pods \subseteq Pod /\ secrets \subseteq Secret
  BY TimesAssumption DEF IInv, TypeInv, TypeOK
\* Every namespace will be visited, and nothing of it has been listed yet.
<1>4. ASSUME NEW x, x.name \in Names, NEW st \in Stages PROVE Ahead(x, st)'
  <2>1. PICK k \in 1..Len(Namespaces) : NsOf[x.name] = Namespaces[k]
    BY <1>4, NamesAssumption
  <2>2. PICK i \in 1..Len(Namespaces) : todo'[i] = NsOf[x.name]
    BY <1>1, <1>3, <2>1, NamesAssumption, TimesAssumption, RotationCovers
  <2>3. todo' \in Seq(STRING) /\ todo' # << >> /\ Len(todo') = Len(Namespaces)
    BY <1>1, <1>3, OrderType, NamesAssumption, TimesAssumption, RotationIsOrder
  <2>4. CASE i = 1
    <3>1. Head(todo') = NsOf[x.name]
      BY <2>2, <2>3, <2>4
    <3>2. StageIndex("Succeeded") < StageIndex(st) \/ st = "Succeeded"
      BY DEF StageIndex, Stages
    <3> QED
      BY <1>2, <3>1, <3>2 DEF Ahead
  <2>5. CASE i # 1
    <3>1. i \in 2..Len(todo')
      BY <2>3, <2>5
    <3> QED
      BY <2>2, <3>1 DEF Ahead
  <2> QED
    BY <2>4, <2>5
<1>5. \A p \in pods : <<"pod", p.name, p.uid>> \in due' =>
        /\ p.phase \in TerminalPhases /\ p.name \in Labelled /\ PodEligible(p, clock + skew)
  BY <1>1 DEF ReapableAt, IInv, ClusterInv, UniqueNames
<1>6. \A s \in secrets : <<"secret", s.name, s.uid>> \in due' =>
        /\ SecretEligible(s, RefsOf(pods), clock + skew)
        /\ s.name \in JobNames => job[s.name] = "none"
  BY <1>1 DEF ReapableAt, IInv, ClusterInv, UniqueNames
<1>7. DuePodsAhead'
  <2>1. \A p \in pods : Ahead(p, p.phase)' \/ p.phase \notin TerminalPhases
    BY <1>3, <1>4 DEF Pod, Stages, TerminalPhases
  <2> QED
    BY <1>1, <1>2, <1>5, <2>1 DEF DuePodsAhead, DuePod, PodStaysDue
<1>8. DueSecretsAhead'
  <2>1. \A s \in secrets : Ahead(s, "secrets")'
    BY <1>3, <1>4 DEF Secret, Stages
  <2>2. \A s : ~Referenced(s, refs)'
    BY <1>2 DEF Referenced, NoRefs
  <2> QED
    BY <1>1, <1>2, <1>6, <2>1, <2>2 DEF DueSecretsAhead, DueSecret, SecretStaysDue,
            SecretEligible, Referenced, RefsOf, OldEnough
<1>9. DueIsOld'
  <2> SUFFICES ASSUME NEW n \in JobNames, NEW u \in Nat
               PROVE  /\ <<"pod", n, u>> \in due' => u <= gen[n] /\ (job[n] = "preparing" => u < gen[n])
                      /\ <<"secret", n, u>> \in due' => u <= gen[n]
    BY <1>2 DEF DueIsOld
  <2>1. <<"pod", n, u>> \in due' => \E p \in pods : p.name = n /\ p.uid = u
    BY <1>1 DEF ReapableAt
  <2>2. <<"secret", n, u>> \in due' => \E s \in secrets : s.name = n /\ s.uid = u
    BY <1>1 DEF ReapableAt
  <2>3. \A o \in pods \cup secrets : o.name = n => o.uid <= gen[n]
    BY DEF IInv, ClusterInv, UsedUids
  <2>4. job[n] = "preparing" => \A p \in pods : p.name # n
    BY DEF IInv, ClusterInv, PreparingIsYoung
  <2> QED
    BY <2>1, <2>2, <2>3, <2>4
<1>10. Shape' /\ CleanSweepLeavesNoLeak'
  BY <1>2 DEF Shape, CleanSweepLeavesNoLeak
<1> QED
  BY <1>7, <1>8, <1>9, <1>10 DEF CleanInv

\* The sweep loses sight of something due only with an error to report.
LEMMA ReaperClean == ASSUME IInv, CleanInv, Reaper PROVE CleanInv'
<1>1. CASE StartRun
  BY <1>1, StartRunClean
<1>2. CASE GetPage
  BY <1>2, GetPageClean
<1>3. CASE GetRefsPage
  BY <1>3, GetRefsPageClean
<1>4. /\ report = "none" \/ pc = "idle"
      /\ errs \in BOOLEAN
  BY DEF CleanInv, Shape, IInv, TypeInv, TypeOK
<1>5. ASSUME NextStage(TRUE), pc # "idle", UNCHANGED <<job, gen, due>> PROVE CleanInv'
  <2>1. Shape' /\ report' # "clean" /\ (pc' = "idle" \/ errs')
    BY <1>4, <1>5, NextStageShape
  <2> QED
    BY <1>5, <2>1, NotCleanEnd, ErrorIsReported
<1>6. CASE ListFails
  BY <1>5, <1>6 DEF ListFails, cluster
<1>7. CASE PageDone
  <2>1. /\ pc = "items" /\ page = {} /\ UNCHANGED <<clock, job, gen, pods, secrets, due>>
        /\ ~first /\ stage # "refs"
    BY <1>7 DEF PageDone, cluster, CleanInv, Shape
  <2>2. CASE rest # {} /\ pc' = "list" /\ UNCHANGED <<now, cursor, errs, report>>
    <3>1. UNCHANGED <<clock, job, gen, pods, secrets, due, now, todo, stage, first, rest, page,
                      refs, errs, report>>
      BY <2>1, <2>2 DEF cursor
    <3>2. Shape' /\ DueIsOld' /\ CleanSweepLeavesNoLeak'
      BY <2>1, <2>2, <3>1 DEF CleanInv, Shape, DueIsOld, CleanSweepLeavesNoLeak
    <3>3. DuePodsAhead'
      BY <2>1, <2>2, <3>1 DEF CleanInv, DuePodsAhead, DuePod, PodStaysDue, Ahead
    <3>4. DueSecretsAhead'
      BY <2>1, <2>2, <3>1 DEF CleanInv, DueSecretsAhead, DueSecret, SecretStaysDue, Ahead,
              SecretEligible, Referenced, RefsOf, OldEnough
    <3> QED
      BY <3>2, <3>3, <3>4 DEF CleanInv
  <2>3. CASE rest = {} /\ NextStage(errs)
    <3>1. CASE errs
      BY <1>5, <2>1, <2>3, <3>1
    <3>2. CASE ~errs
      BY <2>1, <2>3, <3>2, ListOver
    <3> QED
      BY <3>1, <3>2
  <2> QED
    BY <1>7, <2>2, <2>3 DEF PageDone
<1>8. CASE BudgetStop \/ Abort
  <2>1. pc' = "idle" /\ report' # "clean" /\ UNCHANGED <<job, gen, due>>
    BY <1>8 DEF BudgetStop, Abort, EndRun, cluster
  <2> QED
    BY <2>1, NotCleanEnd
<1>9. ASSUME NEW x \in page, KeepItem(x) \/ DeleteItem(x) PROVE CleanInv'
  BY <1>9, ItemClean
<1>10. ASSUME NEW x \in page, DeleteFails(x) PROVE CleanInv'
  <2>1. /\ pc = "items" /\ UNCHANGED <<job, gen, due, pc, first, stage, report>> /\ errs'
    BY <1>10 DEF DeleteFails, Item
  <2>2. Shape' /\ report' # "clean"
    BY <2>1 DEF CleanInv, Shape
  <2> QED
    BY <2>1, <2>2, ErrorIsReported
<1> QED
  BY <1>1, <1>2, <1>3, <1>6, <1>7, <1>8, <1>9, <1>10 DEF Reaper

\* A clean report is to be believed: whatever had to go when the run started
\* is gone when it ends, whoever removed it, and does not come back.
THEOREM CleanReportIsTrue == Spec => []CleanSweepLeavesNoLeak
<1>1. Init => CleanInv
  BY DEF Init, CleanInv, Shape, DueIsOld, DuePodsAhead, DueSecretsAhead, CleanSweepLeavesNoLeak
<1>2. IInv /\ CleanInv /\ [Next]_vars => CleanInv'
  <2> SUFFICES ASSUME IInv, CleanInv, [Next]_vars PROVE CleanInv'
    OBVIOUS
  <2>1. CASE UNCHANGED vars
    <3>1. UNCHANGED <<clock, job, gen, pods, secrets, due, pc, now, todo, stage, first, rest,
                      page, refs, errs, report>>
      BY <2>1 DEF vars, cluster, cursor
    <3>2. Shape' /\ DueIsOld' /\ CleanSweepLeavesNoLeak'
      BY <3>1 DEF CleanInv, Shape, DueIsOld, CleanSweepLeavesNoLeak
    <3>3. DuePodsAhead'
      BY <3>1 DEF CleanInv, DuePodsAhead, DuePod, PodStaysDue, Ahead
    <3>4. DueSecretsAhead'
      BY <3>1 DEF CleanInv, DueSecretsAhead, DueSecret, SecretStaysDue, Ahead,
              SecretEligible, Referenced, RefsOf, OldEnough
    <3> QED
      BY <3>2, <3>3, <3>4 DEF CleanInv
  <2> QED
    BY <2>1, EnvironmentClean, ReaperClean DEF Next
<1>3. CleanInv => CleanSweepLeavesNoLeak
  BY DEF CleanInv
<1> QED
  BY <1>1, <1>2, <1>3, Invariance, PTL DEF Spec
=============================================================================
