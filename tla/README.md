# Formal models of the cluster template

The repository is a Copier template for a home cluster: Proxmox hosts, a k3s
cluster with embedded etcd, Flux, a self-hosted or hosted forge, and the scripts,
CronJobs and playbooks that keep it running. Most of it is declarations. What is
kept here is a formal development of the parts that *act* or *judge*: programs that
read a state other programs are changing, take several steps and may be stopped
between any two of them; and gates with an algorithm of their own, whose green
verdict is a promise about a cluster they never see.

* TLA+ modules model these programs, one module per program, with the systems
  they act on as explicit environments;
* TLC checks each on a small instance (the `.cfg` files, with the `MC*` modules
  that give constants their values);
* TLAPS proves every safety property of the programs, for every value of the
  constants, and every promise of the gates and of the updater's fetchers for inputs of
  any size (the `*Proofs` modules); liveness is TLC's.

`PROJECT.json` links all of it: definitions to source lines, runs to properties,
hazards to the properties that watch them, findings, theorems.

Running: `tlc -workers 2 -config ReaperSweep.cfg MCRunnerReaper`,
`tlapm RunnerReaperProofs.tla`.

Paths below omit the leading `src/`, and `template/` where it is obvious; the
reaper lives in
`template/kubernetes/apps/{% if git_backend == 'gitlab_selfhosted' %}gitlab-runner-reaper{% endif %}/`,
the dynamic DNS job in
`template/kubernetes/infrastructure/configs/{% if dns_backend == 'cloudflare' %}cloudflare-ddns{% endif %}/`.

## 1. Inventory

### 1.1 Programs that act

| Component | State it reads and changes | Operations | Beside it acts | Correct means |
|---|---|---|---|---|
| **Runner reaper** (`gitlab-runner-reaper.py`, its CronJob) | pods and dockercfg Secrets of the runner namespaces; in memory: the reference set, the counters, the clock at start | list pages, decide an item, delete with a uid precondition, stop on budget, fail | runner managers that create a Secret before its pod, finish jobs, delete their own objects, die in the middle, and reuse names | nothing a job needs is removed; what is leaked is removed; no namespace is passed over for ever |
| **etcd maintenance** (`update-k3s-nodes.yml`, `_wait-no-kured-server-reboot.yml`, `_uncordon-and-wait-ready.yml`, the synchronous path of `_reboot-if-needed.yml`; kured's values) | etcd members, node annotations and schedulable bits, the installed and the running k3s binary, kured's lock | the guard (one kubectl read per server), cordon, install, restart, readyz, uncordon, host reboot, rejoin | kured, one agent per node | a member goes down for one reason at a time; the guard sees the reboots it is there for; the play ends and strands no node |
| **Reboot routing** (`_reboot-if-needed.yml`, `_apt-upgrade-and-reboot.yml`, `update-full.yml`) | which hosts need a reboot, armed timers, the deferral metric | detect, look up the executor's host, reboot in place / arm a timer / defer, clear the metric | timers that fire, operators, package upgrades; the run may be a CI pod on one of the hosts | the run does not reboot in place the host below itself; no pending reboot is forgotten; nothing unsafe is rebooted unattended |
| **Site runs** (`site.yml`, `base.yml`, `_reachability-probe.yml`, `_reachability-gate.yml`) | which hosts answer, which plays they got, the skip ledger | probe, plays in batches that swallow what they cannot reach, the report, the gate | hosts that stop and begin to answer | green misses nothing silently; a host that is down costs no other its deployment |
| **Semantic release** (`scripts/semantic-release.py`, the same file in the template) | version tags and Releases of the forge | decide, probe the newest tag's Release, backfill, create tag and Release | jobs of other commits, late, at once or run again; merges | versions grow along `main`; every releasable commit is in exactly one Release's notes |
| **Version-bump bot** (`version-bump-mr.py`) | the bot branch and its one merge request | list, fetch, push, refresh, create, close | a second run, people, `main`, upstream releases | one open merge request that offers what the bumps are; none when there are none |
| **Version updater** (`check-versions.py`, `check-version-checksums.py`) | the pins of the vars file, their companions and checksums | fetch the latest version, compare, write a pin and its companion, check coverage, partners and checksums | an operator's checkout, merges, upstreams and lookups that fail or answer with older releases | pins only rise and match what stands beside them; every pin is watched |
| **Library pins** (`check-lib-pins.py`) | the library's release tag in the pipeline file, the collection and the sites | check, print, rewrite (`--fix`, `--bump`) | a kill between two writes | green is one tag everywhere; a failed rewrite is all or nothing |
| **Dynamic DNS job** (`cloudflare-ddns.py`, its CronJob) | the A records of a zone | read the address; per record a GET and a PUT of the whole record | the provider that moves the address; Terraform, which owns everything else in a record | failures show; decorations survive; the zone comes to the address |
| **Password rotation** (`flux-rotate-db-password.sh`, the tasks `rotate-secret` and `refresh-secret`) | one password in five places: 1Password item, database, Secret, the database pod's file, the application | edit the item, alter the role, refresh, wait, restart | another rotation, the External Secrets operator, the kubelet, restarting pods | nobody is locked out; a rotation that ends well left all five at its password |
| **Tool fetcher** (`ci-fetch-tools.py`) | the cached download, executable and stamp of a tool | obtain, unpack, keep, check, place, stamp | a CI cache that comes back changed, a kill at any step | a good run leaves exactly the pin; a refused one leaves all as it was |
| **Post-maintenance verification** (`post-maintenance-verify.sh`, `maintenance-lib.sh.jinja`) | reads nodes, pods, deployments, Jobs and kured's annotations, call by call | the four checks and the DNS probe | kured, going on | what no reboot explains is an error |
| **Post-deployment verification**, **molecule wrapper** | the readiness before and after a reconcile; the attempts of a test | settle steady state, judge; run, retry | | a steady cluster is held to full health; a verdict is never retried |

### 1.2 Gates

| Gates | They read | A green verdict promises |
|---|---|---|
| **Network policies** (`check-netpol-except-parity.py`, `check-default-deny-coverage.py`, `check-scrape-netpol.py`, `check-scrape-wiring.py`, parts of `gate_common.py`) | policies, workloads, Services, monitors | no rule opens the fenced ranges; every namespace with workloads is closed; the scraper gets through where it scrapes, on the port it scrapes |
| **Autoscalers and charts** (`check-hpa-vpa-invariant.py`, `validate-helm-values.py`) | HPAs, VPAs, workloads, budgets; what helm renders | no resource has two drivers; caps bind and leave headroom; nodes drain |
| **Alerting** (`check-alertmanager-behaviour.py`) | routes, inhibit rules, alert rules | one page per escalation; no alert muted whatever it is about |
| **Role inputs and comment blocks** (`check-role-inputs.py`, `check-comment-length.py`) | playbooks, inventory, roles; every file's lines | roles find what they assert; no block is over its limit |

### 1.3 Not modelled

| Component | Why |
|---|---|
| Gates that compare one list with another; readers and helpers the gates share | one pass over the files and the difference of two sets: the model would be the set difference itself |
| Generators | text in, text out, no state and no order of events |
| State collection and diagnosis, supervised apply guard, host bootstrap, imports | reading and formatting, or interactive one-shot sequences |
| Kubernetes manifests, Flux stages, Terraform resources, Ansible provisioning outside maintenance | declarations that other programs reconcile; the values that settle *who may act when* (kured's, the CronJobs') are in the models |
| The Copier template itself | text generation, covered by render tests |

### 1.4 How the parts interact

The playbooks and kured share the nodes: annotation, cordon and etcd membership are
all they see of each other, and the guard is the only thing between them
(`EtcdMaintenance` has both in one module for that reason). Routing decides *whether*
a host is rebooted, etcd maintenance models *what happens* when the answer is
"in place", the post-maintenance verification judges what is left. The reaper and the
runner managers share the pods and Secrets. The updater writes the pins the bot
offers: `VersionPins` has the bot's working copy, the operator's and `main` in one
module, `VersionBumpMr` what becomes of the merge request. The release job and the bot
share only `main`: a merged bump is one more commit. `validate-helm-values.py` calls
the autoscaler gate's policies, as `HelmValues` does `AutoscalerGate`'s operators. The
other programs of 1.1 share no state.

### 1.5 What is hard

* **Stale reads.** The reaper's references are older than its list of Secrets; the
  guard reads servers one after the other; the release job's tags are those of its
  clone; the bot's list of merge requests is older than its push; the DNS job writes
  back a record it read before; the verification excuses one read by another.
* **Several steps, any of which may be the last.** Budget stops and aborts of the
  reaper; a task of the upgrade that fails, exhausts its retries or loses its
  delegate; a forge call that did half its work or whose answer was lost; a rotation
  that stops between two of five copies; a rewrite killed between two files.
* **Swallowed failures.** A site play drops what it cannot reach, a lookup that fails
  is a string that differs, a count that fails is a number: each has to come out
  somewhere.
* **Identity.** Names are reused: by retried jobs (the reaper answers with uids), by
  merge requests on the same branch.
* **Self-reference.** The play's own cordon looks like kured's; the run's own pod
  lives on the host it is to reboot.
* **Additive semantics.** Policies, VPA container policies and inhibit rules combine:
  a gate that judges them one by one may bless a set that means something else.
* **Eventually.** Rotation must reach every namespace, a flagged server must be
  rebooted whatever drains fail, the merge request, the records and the pins must
  come back in sync.

`PROJECT.json` lists the hazards one by one, at the lines where they bite.

## 2. Modules

| Module | What it is |
|---|---|
| `LeakCollector` | abstract: objects appear, come into use, leave use; only what is not in use is collected |
| `NamespaceRotation` | `rotate_namespaces` as operators, shared by the next two |
| `RunnerReaper` | one sweep, call by call, against runner managers; implements `LeakCollector` |
| `ReaperSchedule` | the runs over time, one run per step |
| `EtcdMaintenance` | kured, the server upgrade and the host reboots |
| `RebootRouting` | detection, lookup, decision, and the three ways to reboot |
| `Reachability` | the plays of `site.yml` and `base.yml` between probe and gate |
| `MaintenanceVerify`, `DeployVerify`, `MoleculeRetry` | the two verifications and the molecule wrapper |
| `SemanticRelease` | the release job |
| `VersionBumpMr` | the bot's merge request |
| `VersionScheme`, `PinFile`, `VersionPins` | the updater: orders and fetchers; reading, writing and covering pins; their life on `main` |
| `LibPins` | the library's pins |
| `Ddns`, `PasswordRotation`, `ToolCache` | the dynamic DNS job, the password rotation, the tool fetcher |
| `NetPolicy` | what the network gates share: policy types, selectors, CIDR blocks and their subtraction |
| `EgressFence`, `DefaultDeny`, `ScrapeNetpol`, `ScrapeWiring` | the network gates |
| `AutoscalerGate`, `HelmValues`, `AlertInhibits`, `RoleInputs`, `CommentBlocks` | the other gates |
| `RunnerReaperProofs`, `EtcdMaintenanceProofs`, `RebootRoutingProofs`, `SemanticReleaseProofs` | theorems about these programs, and their proofs |
| `VersionPinsProofs` | the same for `VersionPins` and `VersionBumpMr`, which share no names |
| `OperationsProofs` | the same for the machines `MCOperations` puts side by side: one section each |
| `ManifestGateProofs` | what the gates over manifests, charts and alerts promise: lemmas about their verdicts |
| `GateProofs` | the same for the other gates, the fetchers and the vars file; the theorems about all of them |
| `MCNetworkGates`, `MCManifestGates`, `MCGates` (each extends the one before) | every gate run once on each input of a bounded set |
| `MCOperations` | the small machines side by side, one per behaviour |
| other `MC...` | constants for TLC |

Definitions named "Broken variant" are the plausible mistakes the properties are
measured against: each property is violated when the definition that follows is
replaced by its variant. No specification uses them.

### 2.1 RunnerReaper

`pods` and `secrets` of the cluster carry a name, a uid, and the times the decisions
look at; `job` and `gen` are the managers' side. A sweep is `StartRun`, then for each namespace of the rotated
order the stages `Succeeded`, `Failed`, `refs`, `secrets`, and `EndRun`. A stage is
`GetPage` / `GetRefsPage` (one list call; a later page is cut from the snapshot of
the first, as a continue token promises), then one `KeepItem`, `DeleteItem` or
`DeleteFails` per item, then `PageDone`. `ListFails` ends a stage as the code's
`except` clauses do (for `refs` the Secrets of that namespace are skipped, see
`NextStage`), `BudgetStop` stops between items, `Abort` is the Job's deadline, an
eviction or an error nobody catches. `Precondition` is the uid in the DELETE body.

The environment is what runner managers do: `CreateSecret` then `CreatePod` (the
Secret is first, owned by nothing until its pod exists; the pod then pulls with it or
owns it), `ContainerEnds`, `JobEnds`, their own cleanup `PodRemoved` / `SecretRemoved`,
and `AbandonJob`, a manager that gives up or dies and leaks. Time is in whole minutes;
`Tick` lets no job prepare longer than `MaxPrep`. The reaper reads its clock once per
run, up to `MaxSkew` off either way.

The whole implements `LeakCollector` under the mapping at the module's end
(`CollectsOnlyLeaks`): an object's life is created, live, leaked, gone; only leaked
objects are taken by the sweep, and what belongs to no job is never touched.

### 2.2 ReaperSchedule

Slots of `SchedulePeriod` minutes; in each a run that serves the namespaces in
rotated order until its budget `PerRun` is spent, or a run that fails whole. The
wall clock wraps at a multiple of both periods, so nothing is cut off. Fairness:
every slot has a run (`CronJob`, `Forbid`, with a deadline shorter than the slot),
and not every slot in which a given namespace is first falls into an API outage.

### 2.3 EtcdMaintenance

kured per server: annotate, take the lock (concurrency 1, `lockTtl: "0"`), cordon,
drain or give up (`forceReboot: false`), reboot, rejoin, uncordon and release. It is
an external program, modelled from its values and from what the guard's comments
rely on, and marked external in the map.

The plays run tasks one at a time (`pc`), on servers one at a time (`todo`,
`serial: 1`). The guard is a *sequence* of reads (`unread`), each a step, so kured may
move between them; a pass that reads a server both annotated and cordoned, or whose
kubectl fails, is repeated up to `MaxTries`. `FailTask` is a task of the block that
fails: `always:` runs next. `Unreachable` is the other way to lose a host, which runs
no `always:`. `BlockFailed` keeps the block's failure for the end.
`ongoing` is a history variable: the reboot that was already under way when the
current pass of the guard began, as long as it lasts. It states the guard's promise
without asking the impossible: a reboot that begins after its read is in a window
the comments admit.

### 2.4 RebootRouting

Per host: `Detect`, `LookupAnswers` / `LookupFails` (the lookup may succeed and print
nothing, or a node the inventory does not know), then exactly one of `Synchronous`,
`Detached`, `Defer` by `RebootAction`, then `ClearMetric`, or `ClearMetricFails`: the
removal has `failed_when: false`, so a file that stays changes nothing for the run. Any
other task may fail and end the run (`RunFails`, and `SynchronousFails` and
`DetachedFails` where something was done before). Between runs an operator changes the
marks of the inventory (`MarkChanges`); nothing disarms a timer armed on the old ones.
`seen`, `deferred`, `stuck` and `remarked` are history variables: pending reboots found,
hosts deferred by this run, hosts whose metric this run failed to remove, and hosts
whose marks changed under an armed timer. A timer that fires may end a run, its own or a
later one: the code counts on the delay, and no property says otherwise.

### 2.5 SemanticRelease

A commit is its release level and a Release is the set of commits in its notes; the
tag → commit map is `tagged`. A job takes the tags its head can reach at `Start`
(`MergedTags`), and keeps them. `ProbeAnswered` / `NoProbe` / `ProbeFails` are the three
ways through crash recovery, `PostSucceeds` / `PostFails` / `AnswerLost` / `TagOnly` the
four fates of the one POST. Two properties are about jobs that run in order; the
history variables `newest`, `overlapped` and `blind` say when they do.

### 2.6 VersionBumpMr

`target` is what is on `main`, `request` the latest bot merge request, `newest` what
upstream has; its specification is `BumpSpec`, as `VersionPins`, which is proved about
in the same module, has `Spec`.
A tree is two numbers, the pins and everything else, which is what equality of trees
tells apart. A job is the sequence `List`, then `Close`, or `Fetch`, `Push`, `Refresh` or
`Create`; each may fail instead. A merge request has an identity because a job
remembers one across calls and may refresh or close one merged since. `calm` is a
history variable: the jobs beside which nothing else happened.

### 2.7 Reachability

A playbook is a sequence of plays (`Site`, `Base`), each a record of its targets and of
how it treats a host it cannot reach: `Wide` skips what the probe found down and
ignores what it loses later, `Serial` does so one host at a time, `Single` tolerates
nothing, `Reporting` is a play outside the ledger that lists what did not answer.
`Probe` fills the ledger (`skipped`), `NextPlay` opens a play, `Converge` is one batch
with its failures, `Report` the listing, `Gate` the second probe and the verdict.
`Flip` lets a host stop or begin to answer between any two of these. What a role does
to a host is one step.

### 2.8 Ddns

One run at a time: `Start` (refuses a bad list, or finds no address or no zone), per
entry `Query` and `Write` (each may fail; a write may be carried out and its answer
lost), and `Killed` at the deadline. Beside it the address `Moves`, an operator
`Declares` new decorations, `TerraformApplies` them. A record is its address and its
decorations; a name may have several records.

### 2.9 PasswordRotation

Five copies of one password: `item` (with its `history`), `db`, `secret`, `file` (in
the database pod, used to log in), `app`. A run is `Start`, `Edit`, `Alter`,
`ReadBefore`, `Poll`, `WaitReady`, and `Restart` of the server and of the application;
each may fail, or be done with its answer lost. Beside it `Refresh` (the External
Secrets operator), `Remount` (the kubelet), `AppRestarts`. `fresh` and `unread` are
history variables of a run: a refresh since its annotation, a read of `refreshTime`
that failed.

### 2.10 ToolCache and LibPins

`ToolCache` is one tool: `Begin`, `Obtain`, `Unpack`, `Keep`, `Check`, `Place`, `Stamp`;
`Stops` may come at any step, and between runs `Changes` replaces anything in the cache
(by another file, a directory, a link, nothing) or moves the pin.
`LibPins` reads every surface, plans the rewrite as a set of numbered writes (pipeline
file, collection, sites in order), then carries out the lowest number left, one file per
step (`Write`), verifies (`Verify`), or dies between two writes (`Crash`). A file is the shapes the
rewriter tells apart: does it parse, which header style, can a pin be reached.

### 2.11 VersionPins, VersionScheme, PinFile

`VersionScheme` has the orders (release tuples, Debian versions) and one operator per
fetcher; `PinFile` reads, writes and covers the lines of the vars file. `VersionPins` is
their life over time on abstract versions: the bot (`BotStart`, `BotFetch`, `BotWrite`,
`BotCompanion`, `BotFinish`), the operator (`OpUpdate`, `OpCompanion`, `OpChecksum`,
`OpMerge`, `OpPull`), upstreams (`Publish`) and the people who rewrite digests, fix
checksums and merge. Merging is git's: by field, against the common base, with
conflicts; the checksum gate sees each side and never the result.

### 2.12 MaintenanceVerify

The verification as four sequences of calls (`List`, `Kured`, `ListAgain`, `Lookup`, then
`Conclude`), each call a step that may fail as the shell's `|| true` makes it fail, and
`ProbeDns`. Kured annotates, cordons and reboots between any two. `around` is a
history variable, the nodes rebooting at any moment of the current check: the most a
verification that reads call by call can be allowed to excuse.

### 2.13 Gates

A gate module has no state of its own: it is operators over documents, with a `Verdict`
(the exit status, 0, 1 or 2, with the order in which errors and violations decide it).
`MCNetworkGates`, `MCManifestGates` and `MCGates` run each gate once on every input of
a bounded set and compare the verdict with a *reference definition* that knows nothing
of the gate's algorithm: address by address where the gate subtracts blocks, pod by
pod where it compares selectors, position by position where it sorts keys. A passing
verdict is the premise, what the cluster would do is the conclusion. The same frame runs
`DeployVerify` (the tri-state verdict) and `MoleculeRetry` (which attempts are repeated).

### 2.14 Small machines side by side

`MCOperations` puts seven small machines behind one variable `job`: a behaviour is of one
of them and the others rest. They share no state in the program either; the module only
saves a configuration for each. Fairness applies to whichever machine runs.

## 3. Runs

| Run | Asks | Instance |
|---|---|---|
| `ReaperSweep` | does a sweep, whatever it meets, take only what is leaked, and does a clean exit leave none of the leaks it began with | 3 names (a job's; a foreign pod under the runner-class label whose name is not an executor's; an executor's name outside the label), 2 generations of each name, clock to 3, pages of 2, Secret age floor 2 with preparation time 1 (the least `GraceAssumption` allows), budget 0 with calls that cost 0 or 1, so that it is spent at any point or never |
| `ReaperBudget` | by how much may the soft budget be overrun | 2 namespaces, pages of 1, calls that cost 0 or 1, budget 1, so that a DELETE can spend it between two pages: the bound is reached |
| `EtcdPlays` | both plays against kured: who is down and why, what the guard sees, what is left behind, does it end, is every flagged server rebooted | 3 servers, one play, 2 flags, 2 guard passes |
| `RebootRoutes` | routing over runs by hand and from any node | 4 hosts (etcd; autostarting, with a node the inventory does not know; not autostarting; not marked safe), 3 runs, so that a timer outlives a run that deferred its host, 2 upgrades, 2 changes of a mark |
| `Release` | version order under any overlap; notes, success and liveness in order | 2 jobs, 3 commits of every level, initial version 0.1.1 so that each level shows |
| `BumpMr` | does an undisturbed good run leave the merge request in sync, and does it come back in sync | 2 jobs, one other merge, 2 upstream releases |
| `VersionPins` | what the bot, an operator and merges make of the pins on `main` | 3 services: one with a sha and a checksum beside it, one pinned by digest, one held; 2 versions each, one fault |
| `Operations` | reaper schedule, dynamic DNS, rotation, verification, library pins, site runs, tool fetcher | 3 namespaces with backlogs to 2 and budget for 2 objects a run; 2 names, 2 addresses, 2 changes; 2 rotations; 2 nodes, 6 items; every shape of pipeline file and of its surroundings, 2 tags; 4 hosts that flip twice; 3 tool pins, one of them unusable, 2 changes |
| `Gates` | is a passing verdict true of the cluster | 3-bit addresses in both families; one and two policies, rules, peers; sequences to 3 or 4 lines or versions |
| `EtcdRerun`, `ReleaseOrphan`, `RotationUnread` | findings, section 5 | the same, smaller |

**Why the bounds are enough.** Two generations of a name are what confusing an object
with its successor takes; a page smaller than the list is what continue tokens take;
ages matter only as below, at or above a floor. Three servers are the smallest etcd
that has a majority to lose, and the guard then reads servers before and after the
one that moves. Two passes let a guard fail and succeed, and exhaust. Two release
jobs overlap in every order, and three commits give a tag below, at and above any
job's head. Two bots are a read that is stale by another's whole run; two rotations are
the same for passwords. Two DNS changes are one the job reads and one it does not; two
flips are a host that goes and comes back around a probe. Three-bit addresses hold a fence, an
exception inside it, and a block that overlaps both. A counter that is capped stops the
event it counts, and nothing else.

**Deadlock.** `CHECK_DEADLOCK FALSE` stands where the system really stops: the clock and
the generations of the reaper's two runs, plays and flags of the etcd runs, runs, needs and
marks of the routing, rotations that are over, a gate that has judged, the small machines after
their run. `Release`, `ReleaseOrphan`, `BumpMr` and `VersionPins` never stop and are
checked for deadlock.

**Fairness.**
* `EtcdPlays`: a play's next task is run (`PlayFairness`); downed members come back,
  kured goes on (weak fairness of each step), gets the lock in the end, and a drain
  does not fail for ever (strong fairness of lock and reboot: it retries each period
  and CI pods end).
* `Release`: a started job goes on; the newest commit's job is started again while it
  fails; calls do not fail for ever. Strong fairness is needed because overlapping
  jobs and failures disable what they retry.
* `BumpMr`: the schedule starts jobs again and again, each ends, and no kind of call
  fails every time.
* `VersionPins`: the weekly schedule runs the bot (weak); people see to a merge request
  that stands, recompute its checksums and rewrite digest pins (strong, since the bot
  may go over the request in between). Lookups that fail are bounded by `MaxFaults`.
* `Operations`: every slot of the reaper has a run (`CronJob`, `Forbid`, a deadline
  shorter than the slot), and not every slot in which a given namespace is first falls
  into an outage (strong); the DNS job's CronJob and Terraform's reconciliation go on
  (weak). The other machines need none.

**What the properties say.**

| Property | Says | Depends on |
|---|---|---|
| `InFlightKeepsSecret`, `ReapsOnlyStalePods`, `CollectsOnlyLeaks` | the reaper takes nothing in use (the last one as a refinement of `LeakCollector`) | references read *before* Secrets, partial references discarded, an age floor above the time a job prepares, uids |
| `CleanSweepLeavesNoLeak` | exit code 0 means something | every failure path counted |
| `SoftStopBound` | the budget is overrun by at most four list calls per namespace and one DELETE, not the single in-flight call that `cronjob.yaml:17-19` and `gitlab-runner-reaper.py:36-37` count on | where the stages look at the budget |
| `NoNamespaceStarves` | every namespace with leaks is served | the rotation, its period against the schedule's |
| `DownIsAccountedFor`, `HostRebootSeesKured`, `NothingHalfDone`, `PlayEnds`, `FlaggedReboots` | one member down for one reason; the guard sees what was under way; nothing is left cordoned or unupgraded unreported; the play ends; flagged servers are rebooted | cordon, two guards, `always:`, the order of the tasks |
| `NothingSilent`, `MetricIsOfThisRun`, `RebootsAreSafe` | no pending reboot is forgotten; the metric is this run's, failed removals apart; no reboot *in place* ends its own job or takes an unsafe host, and no timer takes one that is unsafe by the marks it has now, unless they changed under it | lookup of the executor, order of clear and defer |
| `VersionsFollowHistory`, `Ordered`, `OkMeansPublished`, `EverythingPublished` | versions grow along `main`; in-order jobs announce each commit once; success means a Release; everything is announced in the end | tags of the clone, recovery of the newest tag |
| `OkMeansInSync`, `SyncReturns` | the bot leaves its merge request in sync and repairs what an interrupted run left | the order of push, refresh and create |
| `MainMatches`, `PinsOnlyRise`, `NothingStaysOutdated` | pins on `main` match what stands beside them, never go back, and reach the upstream | exit status 2 stops the bot; the checksum gate; git's conflicts |
| `DnsWritesRight`, `Converges` | each record is tried and accounted for, and comes to rest at the address with its decorations | read-modify-write of whole records |
| `RotationIsUsable` | nobody is locked out; a good run leaves all five copies equal | the item is written first |
| `BrokenIsReported` | what no reboot explains fails the verification | kured is read inside each check |
| `LibraryIsOneTag` | green is one tag; failure is all or nothing; a kill is repairable | plan before the first write; the order of the writes |
| `SiteRunsAreHonest` | a green run owes nothing it did not report; a missing host costs no other anything | ledger, second probe, swallowing plays |
| `FetcherIsSound` | good is exactly the pin, refused is unchanged, nothing needless is downloaded | check of binary *and* stamp; place before stamp |
| `TheLanIsFenced`, `DeniedByDefault`, `ScrapesArrive` | network policies do what the gates say of them | blocks summed over a rule, additive policies |
| `AutoscalersAgree`, `AlertsArrive` | no two drivers, caps, drains; escalations page once, nothing is muted for ever | wildcards in VPAs, labels of inhibit rules |
| `GreenIsGrounded` | a manifest or alerting gate that could not read a part it needs, or lacks what it cannot do without, is not green; where the wiring gate passes without a monitor, or the autoscaler gate, with the flags that require them, without a limit or a target, no manifest asked for one | exit 2 before exit 0, the vacuity refusals |
| `LatestIsLatest`, `PinsAreWatched` | the newest release is found; a write moves one pin; no pin escapes the checks | pages, windows, tildes and epochs; keys in several mappings |
| `FilesAreInOrder`, `VerdictsStand` | comment limits and role inputs; a steady cluster is held to full health, as far as its HelmReleases could be classified, and a scenario's failure is not retried | the tri-state verdict; the two banners |

Excuses in a property are stated in it, never in the model: `SiteRunsAreHonest` excuses
hosts that *came back* between probe and gate, `RotationIsUsable` runs whose reads of
`refreshTime` failed (the finding), `TopLevelPartnersFollow` covers only the pins the partner
check reads, `DownIsAccountedFor` excepts what a failed play left and later plays,
`MetricIsOfThisRun` a removal that failed unnoticed, `UnattendedIsSafe` hosts whose marks
changed under an armed timer, and `SteadyStaysHealthy` HelmReleases whose names jq could
not read.

## 4. Proofs

Constants are arbitrary within the named assumptions; TLC evaluates these on the
instances. A hypothesis in the third column is one the theorem states besides them.

| Theorem | For all | Hypothesis |
|---|---|---|
| **`RunnerReaperProofs`** `RotationCovers`, `RotationIsOrder` | slots, periods, namespaces | |
| `TypeCorrect`, `InFlightSecretSafe`, `StalePodsOnly`, `OnlyLeaksAreCollected`, `BudgetKept`, `CleanReportIsTrue` | namespaces, names, ages, page sizes, budgets, call costs, skew, lengths of the behaviour | |
| **`EtcdMaintenanceProofs`** `DownAccounted` | servers, plays, guard passes, flags | |
| `NothingLeftHalfDone`, `GuardSeesKured` | the same, of the first play | `MaxPlays <= 1` |
| **`RebootRoutingProofs`** `TypeCorrect`, `NoRebootDropped`, `OwnJobSurvives`, `UnattendedStaysSafe`, `RebootsStaySafe` | inventories, changes of the marks, placements of runs, answers of the lookups | |
| `MetricIsTrue` | the same | every host is in the groups the metric is cleared for |
| **`SemanticReleaseProofs`** `VersionsGrow`, `NotesTileHistory`, `OkRunsPublish` | numbers of jobs, initial versions, histories, overlaps | |
| **`VersionPinsProofs`** `TypeCorrect`, `ChecksumsStay`, `PinsRise` | registries, releases, faults, merges | |
| `MainStaysInOrder` | the same | the operator drops a failed checkout (`Discards`) |
| `GoodRunsLeaveItInSync` | numbers of jobs, merges, releases | |
| **`OperationsProofs`** `NothingIsLostEver`, `RotationStaysUsable` | rotations, overlapping and stopping anywhere | rotations are numbered |
| `DnsStaysRight` | names, addresses, decorations, lists | the lists are sequences of names |
| `BrokenIsAlwaysReported` | nodes, items, lookups | no item is called like a node |
| `PinsStayTogether`, `LibraryStaysOneTag` | numbers of includes and of sites, refs | the refs are texts; "no tag" and the marker are no tags |
| `GreenMissedNothing`, `SiteRunsStayHonest` | inventories, limits, absences, flips | the groups are nested as in `hosts.yml` |
| `FetcherCorrect`, `FetcherStaysSound` | pins, unusable archives, changes of the cache | no pin is called `"none"` |
| **`GateProofs`** `GreenIsAlwaysGrounded`, `LanStaysFenced`, `NamespacesStayClosed`, `AutoscalersAlwaysAgree`, `PinsAreAlwaysWatched`, `VerdictsAlwaysStand`, `BoundedIsAny` | numbers of documents, blocks, excepts, containers, releases, lines of a vars file, attempts; widths of an address from 3 bits on | `BoundedIsAny` alone: the keys the modules name are among `Keys` |
| `FilesStayInOrder` | lengths of files, docstrings and fences, numbers of roles | |
| `LatestStaysLatest` | lengths of versions, lists and indexes, page sizes, horizons, windows, indentations | |
| `AlertsStillArrive`, `ScrapesAlwaysArrive` | numbers of rules, matchers, escalations, monitors, endpoints, Services, pods, policies, namespaces | |

Each proof has the same outline: an inductive invariant as a conjunction of named
parts, a lemma per action or group of like actions, and the property as a consequence.
What the parts are, and why the property alone is not inductive:

**The reaper: nothing in use is taken.** `GraceAssumption` is the one assumption that
matters: `MaxPrep + MaxSkew < MaxSecretAge`. "No job in flight loses its Secret" is not
inductive: a delete is right because of what was read several steps ago. The inductive
invariant `IInv` therefore relates memory to the present. `ClusterInv` is about the
cluster alone: names are unique among the living, uids are used once, a job that still
prepares is young and has no pod yet, a running job's Secret is tied to its pod, and
`InFlightKeepsSecret` itself. `SweepInv` relates the sweep's memory to the cluster
*now*: the clock it holds is past (up to the skew); while references are paged in, those
read and those still to be read refer to every Secret of a running job that is old by
this clock (`RefsComplete`: such a job had its pod before the run began), and in the
`secrets` stage those read do (`RefsEnough`); each listed item is as it was listed, or
is gone (`ItemsFresh`, `PodItemsFresh`). `TypeInv` is `TypeOK` and what the cursor may
be. `EligibleIsLeaked`, about what may be deleted, is where the parts meet.
`OnlyLeaksAreCollected` is the refinement of `LeakCollector`: `InitMapped`, and
`StepMapped` action by action. It needs `UidInv` besides: a uid is held by one object
only, so a step that touches one moves the life of one.

**The reaper: budget and report.** `BudgetKept` counts. `Within(e, k)` says the run is
past its budget by no more than `k` calls of the highest cost, and `BudgetInv` gives the
`k` for each point of the run: four list calls per namespace begun, as each stage
fetches its first page before it looks at the budget. The bound is one call above
that: a DELETE that spends the budget may empty the page, and the next page, like all
later first pages, is still fetched. `CleanReportIsTrue` is about what the run
*had* to delete when it began. `CleanInv` says of every such object, as long as no call
has failed, that it is gone or the run still comes by it (`DuePodsAhead`,
`DueSecretsAhead`: on the current page, on a later page of the snapshot, in a later
stage or namespace), and that nothing makes it ineligible before (`DueIsOld`).

**etcd maintenance.** `Inv` is `TypeOK` and six parts. `Shape` ties `pc`, `todo` and the
outcome to the play. `Locked`: the annotation stays with the lock's holder, and what is
remembered as under way is the holder's reboot. `Accounted` and `Cordons` say by `pc` who
may be down and whose cordon a schedulable bit is: the holder's, or the target's between
the two tasks concerned. `Seen`: before the first upgrade a reboot under way has its
cordon, and its server is among those the guard has still to read. `Upgraded`: whoever does
not run the new binary is still ahead, the target between install and restart and
a failed block excepted. All but `Shape` and `Locked` speak of the first play only: a later one
starts from whatever the first left, and an upgrade may have taken kured's cordon away.
`NothingLeftHalfDone` and `GuardSeesKured` therefore assume `MaxPlays <= 1` (with two
plays TLC finds the second guard missing a reboot); `DownAccounted` needs no assumption,
because the property itself is about the first play and excepts one that has failed.

**Routing.** `Inv` is `TypeOK`, `Located` (where the run's pod is, and what the lookup
has established of it), `TimersSafe` (an armed timer's host is one the code's own rules let
it be armed on, unless its marks changed since) and `Followed` (a host found to need a reboot is armed, published, or still
ahead of the run). `MetricInv` adds that the hosts ahead are listed once, and that of
those done with the deferred ones are published, and besides them at most those whose
removal failed. Its hypothesis is the
inventory's: the update plays run on groups whose metric the play's end clears; the
comment at `_reboot-if-needed.yml:319` warns of the host for which that is not so.

**The release job.** "Versions grow along `main`" is not inductive, because a job's
decision rests on tags read before others were cut. `Inv` adds: adjacent tags are
*exact*, the newer being the older bumped by the highest level between them; the
first tag is the initial version; and each running job is *safe*: any tag it may still
create equals the tag nearest below its head **now**, bumped by the level of the
commits between, however stale its reading — so it either already exists, or fits.
The key lemma is `UpAbsorbs`: a bump by a higher level absorbs one by a lower level
made in between (0.1.1 → 0.1.2 → 0.2.0 is 0.1.1 → 0.2.0), which is why a tag cut
in between by another job does not spoil the decision. For jobs in order, `RunInv` says
what a run knows at each step: one job runs at a time and its reading is current
(`OneByOne`), every Release there is covers its own range (`NotesCoverOwnRange`), and a
tag without a Release can only be the newest (`OrphanOnTop`), which is why probing the
newest is enough.

**Pins.** A merge joins two trees by field against their common base, so what holds of
both sides need not hold of the result. `Inv` speaks of all three trees of a checkout —
base, tree and `main`: the base was `main` once and is in order in full; the tree's pins
only rise above it; its companions are right as far as the run has come (`BotInv`,
`OpInv`, `RequestInv`). `MergeMatches` and `MergeRises` then carry order and direction
over the merge. `MainStaysInOrder` is false if the operator keeps a failed checkout
(section 5), hence its hypothesis.

**The bot's merge request.** `CalmInv` is, step by step, what a run knows beside which
nothing happened (`Knows`): its tree is `main` with the pins of
upstream, the request it listed is the open one, the branch its tree once pushed.

**Rotation.** A run that is at `alter` has its password in the item's history (`HeldInv`):
this is what the order of the two writes buys, and with it the database's password
stays in the history under any interleaving. `UsableInv` follows the one password of a
run that is alone through the five copies.

**DNS, verification, site runs, tool fetcher.** `DnsInv`: the records of
one name are decorated alike (`ZoneAlike`), a run that is under way was not refused and has an
address (`UnderWay`), and every entry it has gone through failed or its one record is
at that address (`Progress`).
`VerifyInv`: an excuse is a node that was rebooting *during* this check (`ExcusesAreNew`),
and what is broken all along stays listed until it is reported. `Accounted` of the site runs gives every play so far and every host
it owes something one of: done, skipped, back, still down (so the gate will see it),
reported, at hand, or the run is red already; `ServedInv` adds, for a run
whose single-host plays all found their host, that every host of a play so far had that
play, waits in it, or was missing at some time of the run. The hypothesis is the inventory's
(`template/ansible/inventories/prod/hosts.yml.jinja:304-307`); without it a play could
target a host the ledger never looks at. The fetcher's `Inv` adds to its three promises
what a run has in hand at each step (`InHand`: the pin's archive, kept before the
executable is looked at, the stamp last), the cache `Untouched` until it is kept, and
`GoodStays`: what a good run left is there until somebody else changes it, however many
runs are killed.

**Library pins.** `PinsStayTogether` is about a repository of any number of files with
any texts in it, of which the bounded repositories of `LibraryStaysOneTag` are an
instance. `PinInv` says a plan was accepted only if it leads to one tag, and describes each
surface while the writes go on: those before the next write read the new tag, those after
it are as they were.

**Gates.** A gate answers in one step, so its theorems are about operators, not about
invariants over time. `OnAnyInput` is `Spec` with the bounds off: documents, releases,
vars files and attempts of any number, of the shapes a cluster, a chart or the
repository gives (`GoodDocs`, `GoodRelease`, `VarsFile`, `Outcomes`); `BoundedIsAny` says
that every behaviour TLC explores is among its behaviours, for the sets TLC runs the gates
on have only members of those shapes (`BoundedStep`). The lemmas take a verdict
apart (`NoResourceHasTwoDrivers`, `CapIsBelowTheLimit`, `RequestStaysOffTheLimit`,
`LastPodMayGo`, `WriteMovesOnePin`, `CoverageOverlooksNothing`, `PartnersFollow`, ...);
`GatesAnswer` says the result is that verdict. `GoodDocs` has a policy without a
container's name, which an API server refuses, only beside containers without memory
limits. `KeysAreRead` (in `MCGates`, evaluated there) is a fact about the names of keys:
`check-versions.py:1236` takes what ends in `_version`, which `helm_chart_versions`
does not.

**Address blocks.** The gates of the network policies subtract CIDRs, and what a
subtraction leaves is defined by recursion over the list of excepts, its arithmetic by
recursion over the length of a prefix. `RecursionExists` shows once, by the least
counterexample (`LeastOf`), that a recursion over the numbers has a solution;
`PowersOfTwo` and `ExclusionUnrolls` are its two uses. From there an address is in a block
if its prefix is the block's (`InBlock`), prefixes of prefixes are prefixes
(`PrefixOfPrefix`), cutting one block out of another keeps every address outside the cut
(`WithoutCutKeeps`), and so does the whole list (`ExclusionKeeps`, again by the least
place at which an address gets lost). `ReachedIsReported` and `OpenPeerIsSeen` conclude
that the gates see what a peer admits. `EgressOf` and `DenyOf` are the shape of the
inputs: blocks and excepts are CIDRs or texts that do not parse, and fences have an index
within their length.

**Scrapes.** Two gates, three promises. `ScrapesAreAdmitted`: a policy the first gate
counts as an admission selects the pods whatever further labels they have, and one of its
peers lets Prometheus in whatever else is in its namespace (`MatchesAnyway`,
`ObservabilityIsLetIn`). `ServicesHavePorts` is the same gate's lookup of an endpoint's
port. `PodsAreReached` is the second gate's: an endpoint that passes was given targets
(`EndpointGives`), each of a pod some Service the monitor selects leads to, and the
policies of that pod's namespace open the number *this* pod gives the port
(`PolicyConnects`, `MonitorPasses`). Its lemmas walk the gate's own selectors, which work
on the labels it read, and the cluster's, which work on the pod's, and show they agree
(`SelectsIsMatches`, `MatchesIsSelects`). `EndpointIsServed` and `MeantIsMonitored` are
the converse: nothing that is meant to be scraped passes without a target
(`ScraperIsAllowed`, `MeantIsReached`).

**A green gate.** `GreenIsAlwaysGrounded` takes each gate's verdict apart for what makes it
2 (`EgressReads` to `InhibitReads`: `PartsAreRead`), and for the two gates that may pass
with nothing to judge shows that nothing was asked for (`MeantIsJudged`).

**Alerts.** `AlertsReachSomeone` has two halves. The pair a rule file declares, or the
names show, is looked at (`EscalationsAreLookedAt`), and of an inhibit rule the gate accepts for
it each side selects an alert of that name as some rule labels it, unless the side
contradicts itself (`AnInstanceIsSelected`, `EscalationsPageOnce`); and an inhibit rule that goes
by the equality of labels an alert has none of is reported (`NoneIsMutedForever`). The paths of the
routing tree are amtool's, an outcome of the run, and not part of this.

**Comments and role inputs.** The comment gate's scans are recursions over the lines of a
file. `ScanUnrolls`, `BlocksUnroll` and `FencesUnroll` turn each into facts about one line
and the next (upwards by `RecursionExists`, downwards by `DescentExists`). From there
`GatheredSoFar` says what the run of a scan holds after a line, `RunsAreFound` that a
maximal run of comment lines is recorded as one block, `BlocksAreFound` that a delimited
comment is reached whatever the scan skipped before it: the least line the scan passes
over wrongly would have to lie inside another block, and a block with an opener in it is
text. `OpenFencesAreRead` is the same for fences, where the scan jumps from an opener to
its end (`FenceStaysOpen`, `SnippetIsBody`). `RolesFindTheirInputs` needs no recursion:
what the gate looks up in a role's context is one of the values the role sees
(`LookupIsSeen`), so an assertion sure to be reached is one the gate holds to be reachable
(`SureIsReachable`).

**The latest release.** Two things are recursive: the order, and what is kept of a list.
For the order, `Before(f, g, R)` compares two endless sequences at the first place they
differ in. A version is one of them with the key of its end in every later place
(`KeysOf`), a Debian part one of chunks, a chunk's text one of characters; that the
code's comparison of finite tuples says the same is `GreaterIsBefore` and its
counterparts for texts, parts and versions. It is irreflexive and transitive because the
order of the keys is (`BeforeIsStrict`), and nothing else of a version matters after
that. For the list, `BestUnrolls` (by `RecursionExists`) and the least place at which it
would fail show that what the fetchers keep while they go through a list is wanted and
not beaten by any wanted one, given such an order (`BestIsBest`). The rest is which
places are wanted: `PagesAreOneList` says that reading pages until one is short sees the
list up to the horizon whatever the page size; a window has no tag below the pin or of
another major to give (`NotBelowThePin`); `NewestOfIndex` is an apt index without the
excluded versions; `SectionIs` and `VersionsAre` find in the lines of a Helm index those
of the chart's own entries, by column, whatever stands before and after.

**The shapes of their inputs.** `InhibitOf`, `ScrapeOf` and `WiringOf` say what these
gates are fed: an alert or a selector gives a label one value; a container port has a
number; the ports of one Service have names of their own; a port range does not end
before it begins; the `/0` block has one spelling; at most one further corpus of rules.
`GoodVersion` and `GoodDebian`: a segment is a number or a word, words numbered below 0
by their alphabetical order; no character has the order 0, that of the end of a text.
`GithubOf` is about entries with a tag filter (the others ask GitHub for its latest
release) and pages of at least one entry; `ChartsOf` about indexes as helm writes them: the
chart named once below `entries`, its entries in one column that begins with a dash.
`CommentsOf`: lines are a sequence, Python has a comment marker, limits are integers.
`RolesOf`: a condition is negated or it is not.
All are what the API server, Prometheus, the parsers or the model's own abstraction admits.

**Only model-checked.** Liveness (`NoNamespaceStarves`, `PlayEnds`, `FlaggedReboots`,
`EverythingPublished`, `SyncReturns`, `NothingStaysOutdated`, `Converges`) is out of the
prover's reach here, as is `ENABLED` and with it fairness. Every other property of a
passing run is stated by a theorem. What the theorems about the gates and fetchers assume
of their inputs stands above; that the inputs TLC runs them on are among these is itself
proved (`BoundedIsAny`).

## 5. Findings

Disagreements between the code and what its comments say, each shown by a run that
ends in a counterexample:

1. `EtcdRerun`: the binary is installed before the second guard and the restart; after a
   failure between them a re-run finds the version matching (`update-k3s-nodes.yml:43`),
   skips the server and ends well with the old process.
2. `ReleaseOrphan`: after a failed probe the same run may cut the next tag; the re-run the
   warning asks for (`semantic-release.py:605`) probes only the newest tag.
3. `RotationUnread`: the wait for `refreshTime` to change takes a *failed* read for a
   change (`taskfiles/flux.yml.jinja:251-260`); consumers restart against the old Secret
   and the rotation ends with status 0.

Seen while modelling, without a run of their own:

*Maintenance*
* The upgrade uncordons its server at the end whoever cordoned it
  (`update-k3s-nodes.yml:104`), so a kured reboot begun meanwhile reads "annotated but
  schedulable", which the next server's guard passes. The second guard (`:73`) reads
  the server the play has just cordoned: if that one merely waits for kured's lock, it
  reads as mid-reboot until the retries are exhausted.
* A host reboot has the window between the guard's last read and the reboot, against
  "Never reboot an etcd-carrying host while kured is mid-reboot"
  (`_reboot-if-needed.yml:205-206`).
* If the delegate is the server kured is booting, the play ends as unreachable and
  `always:` does not run: the node stays cordoned, against
  `_uncordon-and-wait-ready.yml:2-3`. `NothingHalfDone` excepts this outcome by name.
* A second play on a degraded etcd can lose the majority
  (`_reboot-if-needed.yml:219-221` makes the first one fail, nothing stops the second).
* A deferred-reboot metric that cannot be removed stays, and the run is green
  (`failed_when: false`, `_reboot-if-needed.yml:325`), though the comment above it
  (318-320) warns of an alert that latches for ever. `MetricIsOfThisRun` excepts it by
  name.
* An armed timer is disarmed by nothing but a run that arms it anew or a boot: not by a
  host becoming `proxmox_self_reboot_safe: false`, nor by a later run that defers it. It
  may also fire while a run is under way on the host it takes down.
* Pods still starting after kured cleared its annotation are reported by the
  post-maintenance verification once the grace is over; a failed query of kured's nodes
  reads as "no reboot".

*Site runs*
* A `base_managed` host that is down only between probe and gate converges nothing, or
  part, and the run is green, though `base.yml:5-6` says the pair stops "a host this
  playbook configured NOTHING on from exiting 0".
* A declared-absent NAS or relay still fails the run at its single-host play; one that
  comes back after the probe gets its plays though the message says "Nothing was
  deployed".

*Releases and pins*
* An older commit's pipeline run after a newer one may put commits into a second
  Release, against docs/VERSIONING.md. `Ordered` is about jobs in order.
* A bot run that fails between push and refresh leaves the old description; the next
  finds branch and merge request in place and touches nothing
  (`version-bump-mr.py:368-377`).
* A digest-pinned entry with a pending update makes `update_version_in_file` return
  false (`check-versions.py:1288-1299`), `--update-all` exit 2, and the pipeline's
  `|| exit 2` stop the whole bot until a person rewrites the digest.
* `--update` whose companion lookup fails leaves the new pin in the checkout; run again
  there, it sees no update and exits 0 with the old companion. `VersionPins` assumes the
  operator discards such a checkout (`Discards = TRUE`).
* `_top_level_pins` (`:218-232`) reads only first-column keys, so the partner of a pin
  under `helm_chart_versions` is never asked for; no job runs `--check-partner-pins`.

*Rotation, DNS*
* Two overlapping rotations can both end well with the item and the database of
  different runs. After two failed runs the database's password is neither the current
  nor the previous value of the item, though the script's message (70-72) says so.
* The DNS job refuses a name with several A records for ever, until a person removes one.

*Verification after a deployment*
* Inside `wait_for`, a condition, errexit is off: if jq counts the HelmReleases and then
  fails on their names, the list is empty and they pass for ready
  (`deploy-verify.sh:406-407`), against "an empty list cannot pass for a clean one"
  (`deploy-verify-lib.sh:12-15`). It is `"unnamed"` in `DeployVerify`, and
  `SteadyStaysHealthy` says no more than that.

*Gates* — what a green verdict does not promise, by the operators:
* `check-scrape-wiring.py:1003-1009` is green without a monitor unless some policy admits
  the scraper, `check-hpa-vpa-invariant.py:915` without any HPA or VPA. A VPA's cap
  on a container without a limit counts as judged if another container of the target
  has one.
* `validate-helm-values.py:234-235` passes over a file beside a release that does not
  parse, and `check-netpol-except-parity.py` over a JSON file it only walked onto that does not look
  like a manifest.
* `check-scrape-netpol.py` credits a peer whose labels and expressions contradict each
  other; `check-default-deny-coverage.py` does not add up two half-open blocks or rules
  with ports.
* `check-hpa-vpa-invariant.py`: `minReplicas: null` skips the budget arm.
  `check-alertmanager-behaviour.py`: contradictory matchers on `alertname` read as
  unpinned.
* `check-role-inputs.py` does not see invocations inside blocks;
  `check-comment-length.py` lets a long block escape behind a nested opener.

## 6. Abstractions

* **Reaper.** One label selector, one phase per list; the log, the token file, TLS and
  the parsing of times are left out (an unparseable time reads as "not eligible", as in
  the code). `load_config` is the assumptions on the constants.
* **etcd.** "The API answers" is a majority of members; a quorum read is atomic per
  server. A server sits on a host of its own. The agent half of the upgrade touches no
  member and is left out, so the component counts as partly modelled.
* **Routing.** What a synchronous reboot waits for is `EtcdMaintenance`'s; here it
  happens or fails.
* **Site runs.** A role is one step per batch. Plays that act through a Proxmox host
  only, and `postflight.yml`, are left out.
* **Release.** Non-writing runs (no token, `--dry-run`) change nothing and are left out;
  payloads and URLs of the two forges are one call.
* **Bot.** Which paths are staged, the description's wording, redaction, the askpass
  shim and `--dry-run` are left out.
* **Versions.** In `VersionPins` a version is its place in the order; `VersionScheme`
  has the order. The updater's cache, reports and output formats are left out.
* **Rotation.** The two roles change in one transaction and count as one; a workload is
  the database server or "the application".
* **Verifications.** The DNS probe's pods are its outcome; the checks `DeployVerify` makes
  in either state are one input.
* **Gates.** Manifests are taken as parsed documents, with each malformed shape the gates
  tell apart as a value; helm, kubeconform, amtool and the downloads are their outcomes.
  A role's Jinja is rendered to one level, as the gate renders it; PromQL is its
  by-clauses and label selectors.

## 7. Plan

1. The bot's merge request and `VersionPins` composed: `VersionBumpMr`'s tree as the pins
   of `VersionPins`, the one refining what the other abstracts to two numbers.
2. `RotationIsUsable` without its exception for failed reads, should the wait take a
   failed read for what it is.
3. The agent half of `update-k3s-nodes.yml` and the wrapper of the post-maintenance
   verification.
4. The health classifiers of the state collection as operators, beside `DeployVerify`.
