--------------------------- MODULE SemanticRelease ---------------------------
(***************************************************************************)
(* semantic-release.py: the release job of a pipeline on main.  It reads   *)
(* the tags its clone can reach, decides the next version from the commits *)
(* since the newest, repairs that tag's Release if it has none, and cuts   *)
(* tag and Release with one call, of which a part may happen and whose     *)
(* answer may be lost.  Pipelines of several commits may run at once, late *)
(* or again.                                                               *)
(***************************************************************************)
EXTENDS Naturals, Sequences, FiniteSets

CONSTANTS
    Jobs,           \* the release jobs that may run at once
    InitialVersion, \* --initial-version
    MajorOnZero,    \* --major-on-zero
    MaxCommits      \* bound: commits merged to main

\* BUMP_BY_TYPE, in LEVEL_RANK's order; 0 is a type that releases nothing.
Levels == 0..3
Patch == 1
Minor == 2
Major == 3

\* MAJOR, MINOR, PATCH.
Versions == Nat \X Nat \X Nat

ASSUME ReleaseAssumption ==
    /\ InitialVersion \in Versions /\ MajorOnZero \in BOOLEAN /\ MaxCommits \in Nat

VARIABLES
    history,    \* the level of each conventional commit of main, oldest first
    tagged,     \* the commit each version tag is on
    notes,      \* the commits each Release lists
    job,        \* the release jobs
    newest,     \* history: the commit of the last job, while they run in order
    overlapped, \* history: jobs ran at once or out of order
    blind       \* history: a probe failed, while they run in order

vars == <<history, tagged, notes, job, newest, overlapped, blind>>

Commits == 1..Len(history)
Tags == DOMAIN tagged
Releases == DOMAIN notes
Published == UNION {notes[v] : v \in Releases}

Less(v, w) ==
    \/ v[1] < w[1]
    \/ v[1] = w[1] /\ v[2] < w[2]
    \/ v[1] = w[1] /\ v[2] = w[2] /\ v[3] < w[3]

-----------------------------------------------------------------------------
(* The decision. *)

\* latest_version_tag.
Latest(tags) == CHOOSE v \in tags : \A w \in tags \ {v} : Less(w, v)

\* Where the log range starts: after the newest tag, or with the first commit.
Since(tags) == IF tags = {} THEN 0 ELSE tagged[Latest(tags)]

\* Broken variant: the head itself is left out.
LogRangeShort(from, to) == {c \in Commits : from < c /\ c < to}
LogRange(from, to) == {c \in Commits : from < c /\ c <= to}

\* bump_level; 0 when no commit is releasable.
BumpLevel(commits) ==
    CHOOSE l \in Levels :
        /\ l = 0 \/ \E c \in commits : history[c] = l
        /\ \A c \in commits : history[c] <= l

\* A breaking change stays MINOR on 0.x.
AppliedLevel(level, v) ==
    IF level = Major /\ ~MajorOnZero /\ v[1] = 0 THEN Minor ELSE level

\* Broken variant: a MINOR bump keeps the patch number.
BumpNoReset(v, level) ==
    IF level = Major THEN <<v[1] + 1, 0, 0>>
    ELSE IF level = Minor THEN <<v[1], v[2] + 1, v[3]>>
    ELSE <<v[1], v[2], v[3] + 1>>

Bump(v, level) ==
    IF level = Major THEN <<v[1] + 1, 0, 0>>
    ELSE IF level = Minor THEN <<v[1], v[2] + 1, 0>>
    ELSE <<v[1], v[2], v[3] + 1>>

NextVersion(tags, level) ==
    IF tags = {} THEN InitialVersion
    ELSE Bump(Latest(tags), AppliedLevel(level, Latest(tags)))

\* git tag --list --merged HEAD
MergedTags(head) == {v \in Tags : tagged[v] <= head}

\* plan_release, for the commit checked out and the tags reachable from it.
NewCommits(j) == LogRange(Since(job[j].tags), job[j].head)
Releasable(j) == BumpLevel(NewCommits(j)) # 0
NewTag(j) == NextVersion(job[j].tags, BumpLevel(NewCommits(j)))

\* plan_existing_tag.
Previous(j) == Latest(job[j].tags)
\* Broken variant: everything up to the tag.
RecoveryWholeLog(j) == LogRange(0, tagged[Previous(j)])
RecoveryNotes(j) ==
    LogRange(Since(job[j].tags \ {Previous(j)}), tagged[Previous(j)])

-----------------------------------------------------------------------------
Idle == [pc |-> "idle", head |-> 0, tags |-> {}]

TypeOK ==
    /\ history \in Seq(Levels)
    /\ Tags \subseteq Versions /\ tagged \in [Tags -> Commits]
    /\ Releases \subseteq Tags /\ notes \in [Releases -> SUBSET Commits]
    /\ DOMAIN job = Jobs
    /\ \A j \in Jobs :
        /\ job[j].pc \in {"idle", "probe", "backfill", "create"}
        /\ job[j].head \in 0..Len(history)
        /\ job[j].tags \subseteq MergedTags(job[j].head)
        /\ job[j].pc = "backfill" => job[j].tags # {}
        /\ job[j].pc = "create" => Releasable(j)
    /\ newest \in 0..Len(history)
    /\ overlapped \in BOOLEAN /\ blind \in BOOLEAN

Init ==
    /\ history = << >> /\ tagged = << >> /\ notes = << >>
    /\ job = [j \in Jobs |-> Idle]
    /\ newest = 0 /\ overlapped = FALSE /\ blind = FALSE

\* A merge.
Push(level) ==
    /\ Len(history) < MaxCommits
    /\ history' = Append(history, level)
    /\ UNCHANGED <<tagged, notes, job, newest, overlapped, blind>>

Running(j) == job[j].pc # "idle"

\* The job ends.
End(j) == job' = [job EXCEPT ![j] = Idle]

\* It goes on with the new tag, or ends ok with nothing to release.
Proceed(j) ==
    IF Releasable(j) THEN job' = [job EXCEPT ![j].pc = "create"] ELSE End(j)

\* The job of a commit's pipeline starts, or is started again.
Start(j, c) ==
    /\ ~Running(j)
    /\ job' = [job EXCEPT ![j] =
           [pc |-> "probe", head |-> c, tags |-> MergedTags(c)]]
    /\ overlapped' = (overlapped \/ c < newest \/ \E k \in Jobs : Running(k))
    /\ newest' = IF overlapped' THEN 0 ELSE c
    /\ blind' = (blind /\ ~overlapped')
    /\ UNCHANGED <<history, tagged, notes>>

\* Broken variant: only a run with something new looks for an orphan.
OrphanUnderNew(j) == Previous(j) \notin Releases /\ Releasable(j)
\* get_release: 404.
Orphan(j) == Previous(j) \notin Releases

ProbeAnswered(j) ==
    /\ job[j].pc = "probe" /\ job[j].tags # {}
    /\ IF Orphan(j)
       THEN job' = [job EXCEPT ![j].pc = "backfill"]
       ELSE Proceed(j)
    /\ UNCHANGED <<history, tagged, notes, newest, overlapped, blind>>

\* Without a tag there is nothing to probe.
NoProbe(j) ==
    /\ job[j].pc = "probe" /\ job[j].tags = {}
    /\ Proceed(j)
    /\ UNCHANGED <<history, tagged, notes, newest, overlapped, blind>>

\* Unknown means assume healthy.
ProbeFails(j) ==
    /\ job[j].pc = "probe" /\ job[j].tags # {}
    /\ Proceed(j)
    /\ blind' = ~overlapped
    /\ UNCHANGED <<history, tagged, notes, newest, overlapped>>

Settles(j) == ProbeAnswered(j) \/ NoProbe(j) \/ ProbeFails(j)

-----------------------------------------------------------------------------
(* create_release: one POST, for the orphan or for the new tag. *)

Posting(j) == job[j].pc \in {"backfill", "create"}
PostTag(j) == IF job[j].pc = "backfill" THEN Previous(j) ELSE NewTag(j)
PostNotes(j) == IF job[j].pc = "backfill" THEN RecoveryNotes(j) ELSE NewCommits(j)

\* The forge ignores the ref when the tag exists.
TagCreated(j) ==
    tagged' = [v \in Tags \cup {PostTag(j)} |->
                  IF v \in Tags THEN tagged[v] ELSE job[j].head]
ReleaseCreated(j) ==
    /\ PostTag(j) \notin Releases
    /\ TagCreated(j)
    /\ notes' = [v \in Releases \cup {PostTag(j)} |->
                    IF v \in Releases THEN notes[v] ELSE PostNotes(j)]

\* After a backfill comes the new tag, if any; after the new tag nothing.
PostSucceeds(j) ==
    /\ Posting(j)
    /\ ReleaseCreated(j)
    /\ IF job[j].pc = "backfill" THEN Proceed(j) ELSE End(j)
    /\ UNCHANGED <<history, newest, overlapped, blind>>

\* The run fails: the call was refused or never arrived ...
PostFails(j) ==
    /\ Posting(j)
    /\ End(j)
    /\ UNCHANGED <<history, tagged, notes, newest, overlapped, blind>>

\* ... or was carried out and its answer lost ...
AnswerLost(j) ==
    /\ Posting(j)
    /\ ReleaseCreated(j)
    /\ End(j)
    /\ UNCHANGED <<history, newest, overlapped, blind>>

\* ... or stopped after the tag.
TagOnly(j) ==
    /\ Posting(j) /\ PostTag(j) \notin Tags
    /\ TagCreated(j)
    /\ End(j)
    /\ UNCHANGED <<history, notes, newest, overlapped, blind>>

Next ==
    \/ \E l \in Levels : Push(l)
    \/ \E j \in Jobs :
        \/ \E c \in Commits : Start(j, c)
        \/ Settles(j)
        \/ PostSucceeds(j) \/ PostFails(j) \/ AnswerLost(j) \/ TagOnly(j)

\* A started job goes on; while it fails, the newest commit's job is started
\* again, and not every call fails.
Fairness ==
    /\ WF_vars(\E j \in Jobs : Settles(j))
    /\ SF_vars(\E j \in Jobs : Commits # {} /\ Start(j, Len(history)))
    /\ SF_vars(\E j \in Jobs : PostSucceeds(j) \/ AnswerLost(j))

Spec == Init /\ [][Next]_vars /\ Fairness

-----------------------------------------------------------------------------
(* Properties. *)

\* Versions grow along the history, and no commit carries two: whatever jobs
\* run at once, late or again, none cuts a tag below one on an older commit or
\* above one on a newer (docs/CI.md: `copier update` resolves to the latest).
VersionsFollowHistory ==
    \A v, w \in Tags : v # w /\ tagged[v] <= tagged[w] => Less(v, w)

\* Jobs have run one after the other, each for a commit no older than the last.
InOrder == ~overlapped

\* Each commit appears in exactly one set of notes: a Release, backfilled or
\* not, lists the commits after the tag below its own, up to its own.
NotesCoverOwnRange ==
    InOrder => \A v \in Releases :
        notes[v] = LogRange(Since({w \in Tags : Less(w, v)}), tagged[v])

\* The records of all jobs, tags and notes, and the ranges they cover.
Ordered == TypeOK /\ NotesCoverOwnRange

Ends(j) == Running(j) /\ job'[j].pc = "idle"

\* A run that ends ok leaves every releasable commit up to its own in the notes
\* of some Release, half-failed runs before it included, as long as no probe
\* failed.
OkMeansPublished ==
    [][\A j \in Jobs : InOrder /\ ~blind' /\ Ends(j) /\ (Settles(j) \/ PostSucceeds(j)) =>
          \A c \in 1..job[j].head : history[c] = 0 \/ c \in Published']_vars

\* Crash recovery: a run whose probe is answered and that ends ok leaves no tag
\* it can reach without a Release ("If %s is missing its Release, re-run this job.")
RerunRepairs ==
    [][\A j \in Jobs : InOrder /\ Ends(j) /\ ProbeAnswered(j) =>
          MergedTags(job[j].head) \subseteq Releases]_vars

\* Every releasable commit gets published in the end: again and again none is
\* left, as long as jobs run in order and no probe fails.
EverythingPublished ==
    []<>(overlapped \/ blind \/ \A c \in Commits : history[c] = 0 \/ c \in Published)
=============================================================================
