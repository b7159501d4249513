------------------------------- MODULE ToolCache -------------------------------
(***************************************************************************)
(* ci-fetch-tools.py and one tool of its install directory, which jobs     *)
(* keep in a cache: the verified download, the executable taken out of it, *)
(* and the stamp that says which pin it came from.                         *)
(*                                                                         *)
(* A file is "none", "dir", "link", or what it holds: the release of a     *)
(* pin, or "other".  An archive and its executable are one value.          *)
(***************************************************************************)
EXTENDS Integers

CONSTANTS
    ToolPins,   \* the values the pin takes
    Unusable,   \* pins whose archive lacks the member
    MaxChanges  \* changes of the cache or of the pin between runs

VARIABLES
    cache,   \* [asset, binary, stamp]
    pin,     \* the version and checksum in force
    fetch,   \* the run
    past     \* [cache, good, changes]: the cache when the run began; the pin of the last good run

vars == <<cache, pin, fetch, past>>

Held == ToolPins \cup {"other"}
Stamps == {[of |-> p, binary |-> b] : p \in ToolPins, b \in Held} \cup {[of |-> k, binary |-> "none"] : k \in {"none", "dir", "link"}}
Files == Held \cup {"none", "dir", "link"}

Idle == [at |-> "idle", asset |-> "none", downloaded |-> FALSE, force |-> FALSE, status |-> 0]

CacheInit ==
    /\ cache = [asset |-> "none", binary |-> "none", stamp |-> [of |-> "none", binary |-> "none"]]
    /\ pin \in ToolPins /\ fetch = Idle /\ past = [cache |-> cache, good |-> "none", changes |-> 0]

(* Broken variant: the download is kept at once. *)
FollowingKept(at) ==
    CASE at = "obtain" -> "keep" [] at = "keep" -> "unpack" [] at = "unpack" -> "check" [] at = "check" -> "place" [] at = "place" -> "stamp"

Following(at) ==
    CASE at = "obtain" -> "unpack" [] at = "unpack" -> "keep" [] at = "keep" -> "check" [] at = "check" -> "place" [] at = "place" -> "stamp"

At(step) == fetch.at = step
Goes(next) == fetch' = next /\ UNCHANGED <<pin, past>>
Moves == Goes([fetch EXCEPT !.at = Following(@)])

(* A FetchError, with status 2 and the install directory as it is. *)
Refused == Goes([fetch EXCEPT !.at = "refused", !.status = 2]) /\ UNCHANGED cache

(* A version that is overridden without its checksum, or a stamp that is a *)
(* link, ends the run at once.                                             *)
Begin(force) ==
    /\ At("idle") /\ UNCHANGED <<cache, pin>>
    /\ fetch' \in {[Idle EXCEPT !.at = "refused", !.status = 2]}
                  \cup IF cache.stamp.of = "link" THEN {} ELSE {[Idle EXCEPT !.at = "obtain", !.force = force]}
    /\ past' = [past EXCEPT !.cache = cache]

Cached == cache.asset = pin

Obtain ==
    /\ At("obtain")
    /\ IF cache.asset = "link" THEN Refused
       ELSE IF Cached THEN Goes([fetch EXCEPT !.at = Following(@), !.asset = cache.asset]) /\ UNCHANGED cache
       ELSE \/ Goes([fetch EXCEPT !.at = Following(@), !.asset = pin, !.downloaded = TRUE]) /\ UNCHANGED cache
            \/ Refused   \* no answer, or one of another checksum

Unpack ==
    /\ At("unpack")
    /\ IF fetch.asset \in Unusable THEN Refused ELSE Moves /\ UNCHANGED cache

Kept == fetch.asset

Keep ==
    /\ At("keep") /\ Moves
    /\ cache' = IF fetch.downloaded THEN [cache EXCEPT !.asset = Kept] ELSE cache

Installed == cache.binary = fetch.asset /\ cache.stamp = [of |-> pin, binary |-> fetch.asset]

EndsWell == fetch' = [fetch EXCEPT !.at = "done"] /\ past' = [past EXCEPT !.good = pin] /\ UNCHANGED pin

Check ==
    /\ At("check") /\ UNCHANGED cache
    /\ IF Installed /\ ~fetch.force THEN EndsWell ELSE Moves

Place == At("place") /\ Moves /\ cache' = [cache EXCEPT !.binary = fetch.asset]

(* No rename replaces a directory, and none is cleared here. *)
Stamp == At("stamp") /\ cache.stamp.of # "dir" /\ EndsWell /\ cache' = [cache EXCEPT !.stamp = [of |-> pin, binary |-> fetch.asset]]

(* The run is killed, or a write fails: clear_path may have removed the    *)
(* directory that the next rename was to replace.                          *)
Stops ==
    /\ fetch.at \notin {"idle", "done", "refused", "stopped"}
    /\ Goes([fetch EXCEPT !.at = "stopped", !.status = 2])
    /\ \/ UNCHANGED cache
       \/ At("keep") /\ fetch.downloaded /\ cache.asset = "dir" /\ cache' = [cache EXCEPT !.asset = "none"]
       \/ At("place") /\ cache.binary = "dir" /\ cache' = [cache EXCEPT !.binary = "none"]

Again == fetch.at \in {"done", "refused", "stopped"} /\ Goes(Idle) /\ UNCHANGED cache

(* Between two runs the job's cache may come back changed, or the pin move. *)
Changes ==
    /\ At("idle") /\ past.changes < MaxChanges /\ UNCHANGED fetch
    /\ past' = [past EXCEPT !.changes = @ + 1, !.good = "none"]
    /\ \/ UNCHANGED pin /\ \/ \E f \in Files : cache' = [cache EXCEPT !.asset = f]
                           \/ \E f \in Files : cache' = [cache EXCEPT !.binary = f]
                           \/ \E s \in Stamps : cache' = [cache EXCEPT !.stamp = s]
       \/ pin' \in ToolPins /\ UNCHANGED cache

CacheNext == (\E force \in BOOLEAN : Begin(force)) \/ Obtain \/ Unpack \/ Keep \/ Check \/ Place \/ Stamp \/ Stops \/ Again \/ Changes

Spec == CacheInit /\ [][CacheNext]_vars

(***************************************************************************)
(* What the fetcher promises.                                              *)
(***************************************************************************)
(* Whatever the cache held, a run that ends well leaves the pin's          *)
(* executable, stamped, beside its download.                               *)
OkMeansPinned ==
    At("done") => cache = [asset |-> pin, binary |-> pin, stamp |-> [of |-> pin, binary |-> pin]]

(* A download or an archive that cannot be used leaves everything as it    *)
(* was, a good install of another pin included.                            *)
RefusalLeavesAll == At("refused") => cache = past.cache

(* A cache that a good run left needs no download, whatever was killed     *)
(* since.                                                                  *)
NoNeedlessDownload == fetch.downloaded /\ fetch.at # "done" => past.good # pin
=============================================================================
