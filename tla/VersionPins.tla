----------------------------- MODULE VersionPins -----------------------------
(***************************************************************************)
(* The life of the pins (check-versions.py --update and --update-all): the *)
(* weekly bot checks every service, writes the pins that may move with     *)
(* what it computes beside them and opens a merge request; an operator     *)
(* moves one pin in a checkout of their own; a human sees to digests and   *)
(* checksums, and merges what the gate of check-version-checksums.py lets  *)
(* through.                                                                *)
(*                                                                         *)
(* Versions are numbers in the order VersionScheme gives them, 0 an        *)
(* unknown one.  A tree is [pin, sha, checksum]: sha and checksum hold the *)
(* version whose commit, or artefact's hash, is in the file.               *)
(***************************************************************************)
EXTENDS Integers, Sequences, FiniteSets

CONSTANTS
    Order,      \* the registry's services, in its order
    Held,       \* reported, not to be moved
    Digest,     \* pinned with a digest in another file, never rewritten
    Computed,   \* with a git sha the script resolves
    Hashed,     \* with a checksum a human must recompute
    Max,        \* bound: the newest version an upstream ever publishes
    MaxFaults,  \* bound: how often a lookup of the bot fails
    Discards    \* the operator drops a checkout in which a command failed

VARIABLES
    upstream,   \* service |-> what its fetcher answers now
    main,       \* the tree on the main branch
    bot,        \* the bot job
    mr,         \* its merge request: {} or {[tree, base]}
    op,         \* the operator's checkout: [phase, service, tree, base]
    faults      \* failed lookups of the bot so far

vars == <<upstream, main, bot, mr, op, faults>>

Services == {Order[i] : i \in DOMAIN Order}
Unknown == 0

\* A digest pin has no companion that a script or a human rewrites alone.
ASSUME ServicesAssumption ==
    /\ Order \in Seq(Services) /\ Order # << >>
    /\ Held \cup Digest \cup Computed \cup Hashed \subseteq Services
    /\ Digest \cap (Computed \cup Hashed) = {}

ASSUME BoundsAssumption == Max \in Nat \ {0} /\ MaxFaults \in Nat /\ Discards \in BOOLEAN

Trees == [pin : [Services -> 0..Max], sha : [Computed -> 0..Max], checksum : [Hashed -> 0..Max]]

TypeOK ==
    /\ upstream \in [Services -> 1..Max]
    /\ main \in Trees
    /\ bot.phase \in {"idle", "fetch", "write", "companion"} /\ bot.todo \in 0..Len(Order)
    /\ bot.found \in [Services -> 0..Max] /\ bot.failed \subseteq {"lookup", "write"}
    /\ bot.tree \in Trees /\ bot.base \in Trees
    /\ \A m \in mr : m.tree \in Trees /\ m.base \in Trees
    /\ op.phase \in {"idle", "companion", "ok", "failed"} /\ op.tree \in Trees /\ op.base \in Trees
    /\ faults \in 0..MaxFaults

First == [pin |-> [s \in Services |-> 1], sha |-> [s \in Computed |-> 1], checksum |-> [s \in Hashed |-> 1]]

(* A job that is not running has no checkout. *)
Idle == [phase |-> "idle", todo |-> 0, found |-> [s \in Services |-> Unknown], failed |-> {}, tree |-> First, base |-> First]

Init ==
    /\ upstream = [s \in Services |-> 1]
    /\ main = First
    /\ bot = Idle
    /\ mr = {}
    /\ op = [phase |-> "idle", service |-> Order[1], tree |-> First, base |-> First]
    /\ faults = 0

(***************************************************************************)
(* What a check makes of an answer.                                        *)
(***************************************************************************)
UpdateAvailable(tree, s, latest) == latest # Unknown /\ latest > tree.pin[s]

(* Broken variant: whatever differs from the pin is an update. *)
IsActionableDifferent(tree, s, latest) == latest # Unknown /\ latest # tree.pin[s] /\ s \notin Held

IsActionable(tree, s, latest) == UpdateAvailable(tree, s, latest) /\ s \notin Held

(* The version-checksums job: every artefact has the pinned hash. *)
ChecksumsHold(tree) == \A s \in Hashed : tree.checksum[s] = tree.pin[s]

(* Git's merge of what tree changed since base; a value that both sides    *)
(* changed differently is a conflict.                                      *)
Merged(tree, base) ==
    LET Field(mine, old, theirs) == [s \in DOMAIN mine |-> IF mine[s] = old[s] THEN theirs[s] ELSE mine[s]]
    IN  [pin |-> Field(tree.pin, base.pin, main.pin), sha |-> Field(tree.sha, base.sha, main.sha),
         checksum |-> Field(tree.checksum, base.checksum, main.checksum)]
Conflict(tree, base) ==
    LET Both(mine, old, theirs) == \E s \in DOMAIN mine : mine[s] # old[s] /\ theirs[s] # old[s] /\ mine[s] # theirs[s]
    IN  \/ Both(tree.pin, base.pin, main.pin) \/ Both(tree.sha, base.sha, main.sha)
        \/ Both(tree.checksum, base.checksum, main.checksum)

(* Broken variant: the job that hashes the artefacts is missing. *)
MergeableUnhashed(tree, base) == ~Conflict(tree, base)

(* The pipeline of a merge request runs on its branch, not on the merge. *)
Mergeable(tree, base) == ~Conflict(tree, base) /\ ChecksumsHold(tree)

(***************************************************************************)
(* The bot: --update-all, which looks every service up before it writes.   *)
(***************************************************************************)
BotStart ==
    /\ bot.phase = "idle"
    /\ bot' = [phase |-> "fetch", todo |-> 1, found |-> [s \in Services |-> Unknown], failed |-> {},
               tree |-> main, base |-> main]
    /\ UNCHANGED <<upstream, main, mr, op, faults>>

Current == Order[bot.todo]

Advance(b) == IF b.todo < Len(Order) THEN [b EXCEPT !.todo = @ + 1]
              ELSE [b EXCEPT !.phase = IF @ = "fetch" THEN "write" ELSE @, !.todo = IF b.phase = "fetch" THEN 1 ELSE 0]

(* check_service without the cache: what the upstream has now; or, as a   *)
(* fault, an error or an older release, by a mirror that is behind.        *)
BotFetch ==
    /\ bot.phase = "fetch"
    /\ \/ bot' = Advance([bot EXCEPT !.found[Current] = upstream[Current]]) /\ UNCHANGED faults
       \/ /\ faults < MaxFaults /\ faults' = faults + 1
          /\ \/ bot' = Advance([bot EXCEPT !.failed = @ \cup {"lookup"}])
             \/ \E older \in 1..upstream[Current] - 1 : bot' = Advance([bot EXCEPT !.found[Current] = older])
    /\ UNCHANGED <<upstream, main, mr, op>>

(* A pin that is not in the vars file counts as one that could not be      *)
(* written; a computed companion is resolved once the version is written.  *)
BotWrite ==
    /\ bot.phase = "write" /\ bot.todo > 0
    /\ LET latest == bot.found[Current]
           seen == [bot EXCEPT !.found[Current] = Unknown]
           written == [seen EXCEPT !.tree.pin[Current] = latest]
       IN  bot' = IF ~IsActionable(bot.tree, Current, latest) THEN Advance(seen)
                  ELSE IF Current \in Digest THEN Advance([seen EXCEPT !.failed = @ \cup {"write"}])
                  ELSE IF Current \in Computed THEN [written EXCEPT !.phase = "companion"] ELSE Advance(written)
    /\ UNCHANGED <<upstream, main, mr, op, faults>>

(* git ls-remote: the commit of the tag just written, or an error. *)
BotCompanion ==
    /\ bot.phase = "companion"
    /\ \/ bot' = Advance([bot EXCEPT !.phase = "write", !.tree.sha[Current] = bot.tree.pin[Current]]) /\ UNCHANGED faults
       \/ /\ faults < MaxFaults /\ faults' = faults + 1
          /\ bot' = Advance([bot EXCEPT !.phase = "write", !.failed = @ \cup {"write"}])
    /\ UNCHANGED <<upstream, main, mr, op>>

(* Broken variant: an update that is held back fails the run. *)
UpdateAllFailedHeld(b) == b.failed # {} \/ \E s \in Held : upstream[s] > b.tree.pin[s]

(* The exit status: 2 if a lookup or a write failed. *)
UpdateAllFailed(b) == b.failed # {}

(* The bot goes on only after exit 0: it brings its one merge request in   *)
(* line with the tree, and closes it if there is nothing to bump.          *)
BotFinish ==
    /\ bot.phase = "write" /\ bot.todo = 0
    /\ bot' = Idle
    /\ mr' = IF UpdateAllFailed(bot) THEN mr
             ELSE IF bot.tree = bot.base THEN {} ELSE {[tree |-> bot.tree, base |-> bot.base]}
    /\ UNCHANGED <<upstream, main, op, faults>>

BotStep == BotStart \/ BotFetch \/ BotWrite \/ BotCompanion \/ BotFinish

(***************************************************************************)
(* The operator: --update of one service, again and again if they like, in *)
(* a checkout that is merged after a run that succeeded.                   *)
(***************************************************************************)
Ready == op.phase \in {"idle", "ok"} \cup (IF Discards THEN {} ELSE {"failed"})

OpUpdate(s) ==
    /\ Ready
    /\ \E latest \in {Unknown, upstream[s]} :
        op' = IF latest = Unknown THEN [op EXCEPT !.phase = "failed"]
              ELSE IF ~IsActionable(op.tree, s, latest) THEN [op EXCEPT !.phase = "ok"]
              ELSE IF s \in Digest THEN [op EXCEPT !.phase = "failed"]
              ELSE [op EXCEPT !.tree.pin[s] = latest, !.service = IF s \in Computed THEN s ELSE @,
                              !.phase = IF s \in Computed THEN "companion" ELSE "ok"]
    /\ UNCHANGED <<upstream, main, bot, mr, faults>>

OpCompanion ==
    /\ op.phase = "companion"
    /\ \/ op' = [op EXCEPT !.phase = "ok", !.tree.sha[op.service] = op.tree.pin[op.service], !.service = Order[1]]
       \/ op' = [op EXCEPT !.phase = "failed", !.service = Order[1]]
    /\ UNCHANGED <<upstream, main, bot, mr, faults>>

OpChecksum(s) ==
    /\ op.phase = "ok" /\ op.tree.checksum[s] # op.tree.pin[s]
    /\ op' = [op EXCEPT !.tree.checksum[s] = op.tree.pin[s]]
    /\ UNCHANGED <<upstream, main, bot, mr, faults>>

OpMerge ==
    /\ op.phase = "ok" /\ op.tree # op.base /\ Mergeable(op.tree, op.base)
    /\ main' = Merged(op.tree, op.base)
    /\ op' = [op EXCEPT !.phase = "idle", !.tree = main', !.base = main']
    /\ UNCHANGED <<upstream, bot, mr, faults>>

OpPull ==
    /\ op.phase # "companion" /\ <<op.phase, op.tree, op.base>> # <<"idle", main, main>>
    /\ op' = [op EXCEPT !.phase = "idle", !.tree = main, !.base = main]
    /\ UNCHANGED <<upstream, main, bot, mr, faults>>

(***************************************************************************)
(* The upstreams and the humans.                                           *)
(***************************************************************************)
Publish(s) == upstream[s] < Max /\ upstream' = [upstream EXCEPT ![s] = @ + 1] /\ UNCHANGED <<main, bot, mr, op, faults>>

(* A digest pin is rewritten by hand, tag and digest in one change. *)
RewriteDigest(s) ==
    /\ upstream[s] > main.pin[s]
    /\ main' = [main EXCEPT !.pin[s] = upstream[s]]
    /\ UNCHANGED <<upstream, bot, mr, op, faults>>

(* The value a pin is coupled with, edited on the branch of the request.   *)
FixChecksum(s) ==
    /\ \E m \in mr : m.tree.checksum[s] # m.tree.pin[s]
                     /\ mr' = {[m EXCEPT !.tree.checksum[s] = m.tree.pin[s]]}
    /\ UNCHANGED <<upstream, main, bot, op, faults>>

Merge ==
    /\ \E m \in mr : Mergeable(m.tree, m.base) /\ main' = Merged(m.tree, m.base)
    /\ mr' = {}
    /\ UNCHANGED <<upstream, bot, op, faults>>

Next ==
    \/ BotStep \/ Merge \/ OpCompanion \/ OpMerge \/ OpPull
    \/ \E s \in Services : Publish(s) \/ OpUpdate(s)
    \/ \E s \in Hashed : FixChecksum(s) \/ OpChecksum(s)
    \/ \E s \in Digest : RewriteDigest(s)

(* The schedule goes on, and the humans see to a request that stands: it   *)
(* is merged and its coupled values are recomputed, even if the bot goes   *)
(* over it in between.                                                     *)
Fairness == /\ WF_vars(BotStep) /\ SF_vars(Merge)
            /\ \A s \in Hashed : SF_vars(FixChecksum(s))
            /\ \A s \in Digest : SF_vars(RewriteDigest(s))

Spec == Init /\ [][Next]_vars /\ Fairness

(***************************************************************************)
(* Properties.                                                             *)
(***************************************************************************)
(* A git sha on main is that of the version pinned beside it: no run that  *)
(* wrote one without the other is merged.                                  *)
CompanionsMatch == \A s \in Computed : main.sha[s] = main.pin[s]

(* No pin on main ever goes back, even if a mirror answers with an older   *)
(* release or the bot and the operator work from different states of main. *)
PinsOnlyRise == [][\A s \in Services : main.pin[s]' >= main.pin[s]]_main

(* A checksum on main is that of the version pinned beside it, though the  *)
(* gate saw each side of a merge and never its result.                     *)
ChecksumsMatch == ChecksumsHold(main)

(* What stands beside a pin on main is of its version, sha and checksum.   *)
MainMatches == TypeOK /\ CompanionsMatch /\ ChecksumsMatch

(* If an upstream has a newer release for good, its pin on main gets at    *)
(* least there.                                                            *)
NothingStaysOutdated ==
    \A s \in Services \ (Held \cup Digest) : \A n \in 1..Max : <>[](upstream[s] >= n) => <>[](main.pin[s] >= n)
=============================================================================
