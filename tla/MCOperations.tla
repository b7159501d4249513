----------------------------- MODULE MCOperations -----------------------------
(***************************************************************************)
(* The small machines, each alone: a behaviour is one of the reaper's      *)
(* schedule, of the dynamic DNS job, of password rotations, of a           *)
(* verification after maintenance, of check-lib-pins.py, of a site         *)
(* playbook, or of ci-fetch-tools.py.  The others rest in a state that     *)
(* asks nothing of them.                                                   *)
(***************************************************************************)
EXTENDS ReaperSchedule

CONSTANTS Names, Addresses, Notes, None, EntryLists, MaxChanges,
          Rotations,
          Nodes, Items, Nowhere,
          Tags, Branch, Marker,
          Groups, Limits, Absences, MaxFlips,
          ToolPins, Unusable, MaxCacheChanges

VARIABLES job,
          zone, entries, site, wanted, sync, changes,
          item, history, db, secret, file, app, runs,
          nodes, broken, verify, around,
          files, before, run,
          up, fates, deploy,
          cache, pin, fetch, past

ddnsVars == <<zone, entries, site, wanted, sync, changes>>
rotationVars == <<item, history, db, secret, file, app, runs>>
verifyVars == <<nodes, broken, verify, around>>
pinVars == <<files, before, run>>
deployVars == <<up, fates, deploy>>
cacheVars == <<cache, pin, fetch, past>>
operationVars == <<vars, ddnsVars, rotationVars, verifyVars, pinVars, deployVars, cacheVars, job>>

Dns == INSTANCE Ddns
Rotation == INSTANCE PasswordRotation
Maintenance == INSTANCE MaintenanceVerify
Pins == INSTANCE LibPins
Deployment == INSTANCE Reachability
Tools == INSTANCE ToolCache WITH MaxChanges <- MaxCacheChanges

(***************************************************************************)
(* The instance.                                                           *)
(***************************************************************************)
ThreeNs == <<"a", "b", "c">>
TwoNames == {"www", "vpn"}
Entry(name, flag) == [name |-> name, flag |-> flag]
TwoLists == {<<Entry("www", "none"), Entry("vpn", "false")>>, <<Entry("vpn", "other")>>}

Item(check, name, on) == [check |-> check, name |-> name, on |-> on]
SixItems == {Item("pods", "on one", {"one"}), Item("pods", "unscheduled", {"nowhere"}),
             Item("deployments", "on one", {"one"}), Item("deployments", "half scheduled", {"one", "nowhere"}),
             Item("jobs", "on both", {"one", "two"}), Item("jobs", "gone", {})}

(* Pipeline files of every shape with plain surroundings, and two good     *)
(* ones with every shape of surroundings.                                  *)
Pin(ref, reach) == [ref |-> ref, reach |-> reach]
Refs == {"t1", "t2", "main", "marker"}
Pinned == [ref : Refs, reach : BOOLEAN]
Includes == {{}} \cup {{p, Pin("marker", TRUE)} : p \in Pinned}
CiFiles == [parses : BOOLEAN, header : {"absent", "undefaulted", "block", "flow", "spread"}, declared : {"t1", "main", "none"},
            includes : Includes, variable : [ref : Refs \cup {"none"}, reach : BOOLEAN], anchored : BOOLEAN]
GoodCi(tag) == [parses |-> TRUE, header |-> "block", declared |-> tag, includes |-> {Pin("marker", TRUE)},
                variable |-> Pin("marker", TRUE), anchored |-> FALSE]
Requirements == [exists : BOOLEAN, installs : {"library", "git", "none"}, pin : [ref : {"t1", "t2", "none"}, reach : BOOLEAN]]
PlainRequirements == [exists |-> TRUE, installs |-> "library", pin |-> Pin("t1", TRUE)]
Site(path, entry, refs, sticks) == [file |-> path, entry |-> entry, refs |-> refs, sticks |-> sticks]
PlainSites == <<Site("README.md", "ok", {"t1"}, TRUE)>>
AnySites == [file : {"README.md"}, entry : {"ok", "bad", "link"}, refs : SUBSET {"t1", "t2"}, sticks : BOOLEAN]
GoodSites == [file : {"README.md", "guide.md", ".gitlab-ci.yml"}, entry : {"ok"}, refs : {{"t1"}}, sticks : {TRUE}]
SiteLists == {<<>>} \cup (AnySites \X GoodSites)
Repositories ==
    {[ci |-> c, requirements |-> PlainRequirements, sites |-> PlainSites] :
        c \in {x \in CiFiles : x.header \in {"absent", "undefaulted"} => x.declared = "none"}}
    \cup {[ci |-> GoodCi(t), requirements |-> r, sites |-> s] : t \in {"t1", "t2"}, r \in Requirements, s \in SiteLists}

(* The NAS n is the only Proxmox host; the relay's plays, of one host like *)
(* the NAS's, match nothing.                                               *)
Inventory == [proxmox |-> {"n"}, nas |-> {"n"}, dns |-> {"d", "e"}, primary |-> {"d"}, mail |-> {},
              apps |-> {"a"}, k3s_servers |-> {}, k3s |-> {}]
LimitsOfRuns == {{"n", "d", "e", "a"}, {"d"}}
AbsencesDeclared == {{}, {"d"}, {"n"}}

(***************************************************************************)
(* One machine runs, the others rest.                                      *)
(***************************************************************************)
ReaperRests == time = 0 /\ ended = FALSE /\ backlog = [ns \in Ns |-> 0] /\ served = {}
DnsRests == /\ zone = [n \in Names |-> {}] /\ entries = <<>> /\ site = None
            /\ wanted = [n \in Names |-> None] /\ sync = Dns!Idle /\ changes = 0
RotationRests == Rotation!RotationInit
MaintenanceRests == nodes = [n \in Nodes |-> None] /\ broken = {} /\ verify = Maintenance!At("nodes") /\ around = {}
PinsRest == files = None /\ before = None /\ run = Pins!Idle
DeployRests == up = {} /\ fates = [missing |-> {}, back |-> {}] /\ deploy = Deployment!Begin(<<>>, {}, {})
ToolsRest == cache = [asset |-> "none"] /\ pin = "none" /\ fetch = Tools!Idle /\ past = [good |-> "none"]

(* All but those two rest, or all. *)
OthersRest == ReaperRests /\ DnsRests /\ RotationRests /\ MaintenanceRests /\ PinsRest
PlannedRest == DeployRests /\ ToolsRest

OperationsInit ==
    \/ job = "reaper" /\ Init /\ DnsRests /\ RotationRests /\ MaintenanceRests /\ PinsRest /\ PlannedRest
    \/ job = "dns" /\ ReaperRests /\ Dns!DdnsInit /\ RotationRests /\ MaintenanceRests /\ PinsRest /\ PlannedRest
    \/ job = "rotation" /\ ReaperRests /\ DnsRests /\ Rotation!RotationInit /\ MaintenanceRests /\ PinsRest /\ PlannedRest
    \/ job = "maintenance" /\ ReaperRests /\ DnsRests /\ RotationRests /\ Maintenance!VerifyInit /\ PinsRest /\ PlannedRest
    \/ /\ job = "pins" /\ ReaperRests /\ DnsRests /\ RotationRests /\ MaintenanceRests /\ PlannedRest
       /\ files \in Repositories /\ before = files /\ run = Pins!Idle
    \/ job = "deploy" /\ OthersRest /\ Deployment!ReachabilityInit /\ ToolsRest
    \/ job = "tools" /\ OthersRest /\ DeployRests /\ Tools!CacheInit

OperationsNext ==
    /\ UNCHANGED job
    /\ \/ job = "reaper" /\ Next /\ UNCHANGED <<ddnsVars, rotationVars, verifyVars, pinVars, deployVars, cacheVars>>
       \/ job = "dns" /\ Dns!DdnsNext /\ UNCHANGED <<vars, rotationVars, verifyVars, pinVars, deployVars, cacheVars>>
       \/ job = "rotation" /\ Rotation!RotationNext /\ UNCHANGED <<vars, ddnsVars, verifyVars, pinVars, deployVars, cacheVars>>
       \/ job = "maintenance" /\ Maintenance!VerifyNext /\ UNCHANGED <<vars, ddnsVars, rotationVars, pinVars, deployVars, cacheVars>>
       \/ job = "pins" /\ Pins!LibPinsNext /\ UNCHANGED <<vars, ddnsVars, rotationVars, verifyVars, deployVars, cacheVars>>
       \/ job = "deploy" /\ Deployment!ReachabilityNext /\ UNCHANGED <<vars, ddnsVars, rotationVars, verifyVars, pinVars, cacheVars>>
       \/ job = "tools" /\ Tools!CacheNext /\ UNCHANGED <<vars, ddnsVars, rotationVars, verifyVars, pinVars, deployVars>>

(* The fairness of ReaperSchedule and of the dynamic DNS job, for whichever *)
(* of them runs.                                                           *)
Operations ==
    /\ OperationsInit /\ [][OperationsNext]_operationVars
    /\ WF_vars(job = "reaper" /\ NextSlot)
    /\ WF_vars(job = "reaper" /\ (Run \/ RunFails))
    /\ \A ns \in Ns : SF_vars(job = "reaper" /\ Run /\ Order[1] = ns)
    /\ WF_ddnsVars(job = "dns" /\ Dns!Job)
    /\ WF_ddnsVars(job = "dns" /\ Dns!TerraformApplies)

(***************************************************************************)
(* What each machine promises, besides NoNamespaceStarves: the properties  *)
(* of the modules, one for each of them here.                              *)
(***************************************************************************)
(* A run of the dynamic DNS job that went through its list has tried every *)
(* record, and exits 0 exactly if none failed; and it changes a record's   *)
(* decorations only if they changed since it read them.                    *)
DnsWritesRight == [][Dns!DecorationsKept /\ (job = "dns" => Dns!EveryRecordAccounted)']_ddnsVars

(* When all is quiet the records rest at the site's address, decorated as  *)
(* Terraform declares.                                                     *)
Converges == Dns!Converges

(* Whatever fails in a rotation, the password the database accepts is one  *)
(* the 1Password item has or has had; a rotation that ends well, alone and *)
(* with its reads answered, leaves item, database, Secret and pods at it.  *)
RotationIsUsable == job = "rotation" => Rotation!NothingIsLost /\ Rotation!OkMeansUsable

(* What is broken and explained by no reboot of its check's time fails the *)
(* verification after maintenance.                                         *)
BrokenIsReported == job = "maintenance" => Maintenance!BrokenIsReported

(* A check or rewrite of the library's pins that ends well leaves every    *)
(* use of the library at the declared release tag; one that fails has      *)
(* changed nothing, or set every pin there is; one that was killed half    *)
(* way is taken up by the next.                                            *)
LibraryIsOneTag ==
    job = "pins" => Pins!GreenIsOneTag /\ Pins!FailureIsAllOrNothing /\ Pins!CrashIsRepairable

(* A green site run converged all it owed to every host that did not come  *)
(* back meanwhile, an absence declared and a report excepted; and a host   *)
(* that is down takes no deployment from one that answers.                 *)
SiteRunsAreHonest ==
    job = "deploy" => Deployment!NothingMissedSilently /\ Deployment!OneHostStopsNoOther

(* Whatever the cache held, a fetch that ends well leaves the pinned tool, *)
(* one that is refused leaves the install directory as it was, and what a  *)
(* good fetch left is not downloaded again.                                *)
FetcherIsSound ==
    job = "tools" => Tools!OkMeansPinned /\ Tools!RefusalLeavesAll /\ Tools!NoNeedlessDownload
=============================================================================
