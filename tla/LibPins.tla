------------------------------- MODULE LibPins -------------------------------
(***************************************************************************)
(* check-lib-pins.py: the library is pinned to one release tag, declared   *)
(* in the header of the pipeline file; its include refs and a variable     *)
(* read it as an input, and requirements.yml and the files of a site list  *)
(* repeat it.  --fix and --bump plan every rewrite before the first write. *)
(*                                                                         *)
(* A pin is [ref, reach]: None if there is no such key, and reach says     *)
(* whether the line rewriter can set it.  A site is [file, entry, refs,    *)
(* sticks]: its entry is "ok", "bad" or "link" (it matches a symlink), and *)
(* sticks says whether its pattern still matches what it rewrote.          *)
(***************************************************************************)
EXTENDS Integers, Sequences

CONSTANTS
    Tags,    \* release tags
    Branch,  \* a ref that is none
    Marker,  \* "$[[ inputs.lib_ref ]]"
    None

VARIABLES
    files,   \* [ci, requirements, sites]
    before,  \* what they were when the run began
    run      \* [job, phase, plan, target, exit]

vars == <<files, before, run>>

(***************************************************************************)
(* The pipeline file.                                                      *)
(***************************************************************************)
(* header: "absent", "undefaulted" (with no default), a default in "block"  *)
(* or in one-line "flow" style, or one that the rewriter cannot reach      *)
(* ("spread").                                                             *)
DeclaredRef(ci) == IF ci.header \in {"absent", "undefaulted"} THEN None ELSE ci.declared

(* --print scans the header line by line and knows the block style only.   *)
PrintDeclaredRef(ci) == IF ci.header = "block" /\ ci.declared \in Tags THEN ci.declared ELSE None

PipelineProblem(ci) ==
    \/ ci.includes = {} \/ DeclaredRef(ci) \notin Tags
    \/ \E i \in ci.includes : i.ref # Marker
    \/ ci.variable.ref # Marker

Rewritten(pin, to) == IF pin.reach /\ pin.ref # None THEN [pin EXCEPT !.ref = to] ELSE pin

(* The rewrite of the file for a target; a header is added if it has none. *)
Pipeline(ci, target) ==
    [ci EXCEPT !.includes = {Rewritten(i, Marker) : i \in @}, !.variable = Rewritten(@, Marker),
               !.header = IF @ = "absent" THEN "block" ELSE @,
               !.declared = IF ci.header = "spread" THEN @ ELSE target]

Target(ci, want) ==
    IF want # None THEN want ELSE IF DeclaredRef(ci) # None THEN DeclaredRef(ci) ELSE ci.variable.ref

(* plan_fix: the exit status it refuses with, 0 if it does not.  Anchors   *)
(* in the include block, or two such blocks, are not touched; a rewrite    *)
(* has to be there when the new text is parsed.                            *)
PlanFixRefused(ci, want) ==
    LET target == Target(ci, want)
        new == Pipeline(ci, target)
    IN  IF ~ci.parses THEN 2
        ELSE IF target \notin Tags \/ ci.header = "undefaulted" \/ ci.anchored THEN 1
        ELSE IF DeclaredRef(new) # target THEN 2
        ELSE IF new = ci THEN (IF PipelineProblem(ci) THEN 1 ELSE 0)
        ELSE IF new.includes = {} THEN 2
        ELSE IF \E p \in new.includes \cup {new.variable} : p.ref # Marker THEN 1 ELSE 0

(***************************************************************************)
(* ansible/requirements.yml: [exists, installs, pin]; it installs the      *)
(* "library", another "git" collection only, or "none".                    *)
(***************************************************************************)
RequirementsProblem(req, want) ==
    req.exists /\ \/ req.installs = "library" /\ req.pin.ref # want
                  \/ req.installs = "git"

RequirementsToFix(req, want) == req.exists /\ req.installs = "library" /\ req.pin.ref \notin {None, want}
RequirementsRefused(req, want) == IF RequirementsToFix(req, want) /\ ~req.pin.reach THEN 1 ELSE 0

(***************************************************************************)
(* The sites.                                                              *)
(***************************************************************************)
SitesUnusable(sites) == \E i \in DOMAIN sites : sites[i].entry # "ok"
SitesProblem(sites, want) == \E i \in DOMAIN sites : sites[i].refs # {want}

SiteToFix(site, want) == \E r \in site.refs : r # want

(* Broken variant: what became of the captures is not looked at. *)
SitesRefusedBlind(sites, want) ==
    IF SitesUnusable(sites) \/ (\E i \in DOMAIN sites : sites[i].refs = {}) THEN 2 ELSE 0

SitesRefused(sites, want) ==
    IF SitesUnusable(sites) \/ \E i \in DOMAIN sites : \/ sites[i].refs = {}
                                                       \/ SiteToFix(sites[i], want) /\ ~sites[i].sticks
    THEN 2 ELSE 0

(***************************************************************************)
(* The whole rewrite as one plan, and the check.                           *)
(***************************************************************************)
CiWrite == [at |-> -1, file |-> ".gitlab-ci.yml"]
RequirementsWrite == [at |-> 0, file |-> "requirements.yml"]
SiteWrite(sites, i) == [at |-> i, file |-> sites[i].file]

(* A plan: its writes go to disk in the order of their numbers.            *)
Writes(f, target) ==
    {w \in {CiWrite} : Pipeline(f.ci, target) # f.ci}
    \cup {w \in {RequirementsWrite} : RequirementsToFix(f.requirements, target)}
    \cup {SiteWrite(f.sites, i) : i \in {j \in DOMAIN f.sites : SiteToFix(f.sites[j], target)}}

OneWritePerFile(writes) == \A v, w \in writes : v.file = w.file => v = w

PlanRefused(f, want) ==
    LET target == Target(f.ci, want)
    IN  IF PlanFixRefused(f.ci, want) # 0 THEN PlanFixRefused(f.ci, want)
        ELSE IF RequirementsRefused(f.requirements, target) # 0 THEN RequirementsRefused(f.requirements, target)
        ELSE IF SitesRefused(f.sites, target) # 0 THEN SitesRefused(f.sites, target)
        ELSE IF OneWritePerFile(Writes(f, target)) THEN 0 ELSE 2

Applied(f, write, target) ==
    IF write.at = -1 THEN [f EXCEPT !.ci = Pipeline(@, target)]
    ELSE IF write.at = 0 THEN [f EXCEPT !.requirements.pin.ref = target]
    ELSE [f EXCEPT !.sites[write.at].refs = IF f.sites[write.at].sticks THEN {target} ELSE {}]

(* The sites and the collection are held against the declared ref, if any. *)
CheckVerdict(f, want) ==
    IF ~f.ci.parses \/ (want # None /\ SitesUnusable(f.sites)) THEN 2
    ELSE IF \/ PipelineProblem(f.ci)
            \/ want # None /\ (RequirementsProblem(f.requirements, want) \/ SitesProblem(f.sites, want)) THEN 1
    ELSE 0

(***************************************************************************)
(* A run, and what may interrupt it.                                       *)
(***************************************************************************)
Idle == [job |-> "none", phase |-> "idle", plan |-> {}, target |-> None, exit |-> 0]
Ends(job, status) == run' = [Idle EXCEPT !.job = job, !.phase = "done", !.exit = status] /\ UNCHANGED <<files, before>>

Check == run.phase = "idle" /\ Ends("check", CheckVerdict(files, DeclaredRef(files.ci)))
PrintRef == run.phase = "idle" /\ Ends("print", IF PrintDeclaredRef(files.ci) = None THEN 2 ELSE 0)

Fix(want) ==
    /\ run.phase = "idle"
    /\ IF want \notin Tags \cup {None} THEN Ends("fix", 2)
       ELSE IF PlanRefused(files, want) # 0 THEN Ends("fix", PlanRefused(files, want))
       ELSE LET target == Target(files.ci, want)
            IN  /\ run' = [job |-> "fix", phase |-> "writing", plan |-> Writes(files, target), target |-> target, exit |-> 0]
                /\ UNCHANGED <<files, before>>

Write ==
    /\ run.phase = "writing" /\ run.plan # {}
    /\ \E w \in run.plan :
           /\ \A v \in run.plan : w.at <= v.at
           /\ files' = Applied(files, w, run.target)
           /\ run' = [run EXCEPT !.plan = @ \ {w}]
    /\ UNCHANGED before

Verify ==
    /\ run.phase = "writing" /\ run.plan = {}
    /\ run' = [run EXCEPT !.phase = "done", !.exit = CheckVerdict(files, run.target)]
    /\ UNCHANGED <<files, before>>

(* The process dies between two writes. *)
Crash ==
    /\ run.phase = "writing" /\ run.plan # {}
    /\ run' = [run EXCEPT !.phase = "crashed", !.plan = {}]
    /\ UNCHANGED <<files, before>>

LibPinsNext == Check \/ PrintRef \/ (\E want \in Tags \cup {None, Branch} : Fix(want)) \/ Write \/ Verify \/ Crash

(***************************************************************************)
(* Properties.                                                             *)
(***************************************************************************)
(* Every ref that resolves to something: what an include reads, what the   *)
(* collection installs, what a site says.                                  *)
RefsInUse(f) ==
    LET Resolved(ref) == IF ref = Marker THEN DeclaredRef(f.ci) ELSE ref
    IN  {Resolved(i.ref) : i \in f.ci.includes} \cup {Resolved(f.ci.variable.ref)}
        \cup (IF f.requirements.exists /\ f.requirements.installs = "library" THEN {f.requirements.pin.ref} ELSE {})
        \cup UNION {f.sites[i].refs : i \in DOMAIN f.sites}

(* A run that ends well, checking or rewriting, leaves every use of the    *)
(* library at the declared release tag.                                    *)
GreenIsOneTag ==
    run.phase = "done" /\ run.exit = 0 /\ run.job # "print" =>
        DeclaredRef(files.ci) \in Tags /\ RefsInUse(files) = {DeclaredRef(files.ci)}

(* A run that fails but was not killed has left every file as it was, or   *)
(* has set every pin there is (it cannot pin what has no pin): no surface  *)
(* is left behind for one that refuses.                                    *)
FailureIsAllOrNothing ==
    run.phase = "done" /\ run.exit # 0 =>
        \/ files = before
        \/ /\ DeclaredRef(files.ci) = run.target /\ ~PipelineProblem(files.ci)
           /\ ~RequirementsToFix(files.requirements, run.target) /\ ~SitesProblem(files.sites, run.target)

(* If it was killed after its first write, --fix without arguments goes on *)
(* to the tag that was being written, and is not refused.                  *)
CrashIsRepairable ==
    run.phase = "crashed" /\ files # before =>
        /\ PlanRefused(files, None) = 0
        /\ Target(files.ci, None) = run.target
=============================================================================
