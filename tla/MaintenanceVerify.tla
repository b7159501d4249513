--------------------------- MODULE MaintenanceVerify ---------------------------
(***************************************************************************)
(* The check after a maintenance (post-maintenance-verify.sh with          *)
(* maintenance-lib.sh): nodes, pods, deployments and Jobs, each read with  *)
(* several calls while kured goes on rebooting node after node, then the   *)
(* cluster's DNS.  What a reboot explains is excused, all else an error.   *)
(***************************************************************************)
EXTENDS Integers, Sequences, FiniteSets

CONSTANTS
    Nodes,
    Items,   \* the pods, deployments and Jobs: [check, name, on]; on is the
             \* set of the nodes of its pods, Nowhere for an unscheduled one
    Nowhere

VARIABLES
    nodes,   \* node -> [up, annotated, cordoned]
    broken,  \* what is broken whatever kured does: a node or an item
    verify,  \* the run
    around   \* nodes that were rebooting at some moment of the current check

verifyVars == <<nodes, broken, verify, around>>

Checks == <<"nodes", "pods", "deployments", "jobs", "dns", "done">>
NodeItems == {[check |-> "nodes", name |-> n, on |-> {n}] : n \in Nodes}
At(check) == [check |-> check, step |-> 1, listed |-> {}, kured |-> {}, known |-> TRUE, errors |-> 0, due |-> {}]

VerifyInit ==
    /\ nodes \in [Nodes -> [up : {TRUE}, annotated : {FALSE}, cordoned : BOOLEAN]]
    /\ broken \in {{}} \cup {{i} : i \in NodeItems \cup Items}
    /\ verify = At("nodes") /\ around = {}

(***************************************************************************)
(* What the calls return.                                                  *)
(***************************************************************************)
(* The annotation alone is not enough: kured sets it while it waits.       *)
Rebooting == {n \in Nodes : nodes[n].annotated /\ nodes[n].cordoned}

(* A pod is unhealthy with its node, a deployment with one of its pods, a  *)
(* Job has failed for good.                                                *)
Unhealthy(i) == i \in broken \/ (i.check # "jobs" /\ \E n \in i.on : n # Nowhere /\ ~nodes[n].up)
Bad(check) == {i \in NodeItems \cup Items : i.check = check /\ Unhealthy(i)}

(* What of a list is an error, given the nodes kured reboots and whether   *)
(* the nodes of the pods are known.                                        *)
ReportedPods(listed, kured, known) ==
    {i \in listed : kured = {} \/ (known /\ Nowhere \notin i.on /\ i.on \cap kured = {})}
Reported(check, listed, kured, known) ==
    CASE check = "nodes" -> {i \in listed : i.name \notin kured}
      [] check = "jobs"  -> {i \in listed : kured = {} \/ ~known \/ ~(i.on \subseteq kured \cup {Nowhere})}
      [] OTHER           -> ReportedPods(listed, kured, known)
Errors == Reported(verify.check, verify.listed, verify.kured, verify.known)

(***************************************************************************)
(* The run, a call at a time.                                              *)
(***************************************************************************)
(* Broken variant: one snapshot of kured's nodes serves the whole run. *)
CallsOneSnapshot ==
    [nodes |-> <<"list", "kured", "relist", "reask">>, pods |-> <<"list", "relist", "lookup">>,
     deployments |-> <<"list", "lookup", "relist">>, jobs |-> <<"list", "lookup">>]

Calls ==
    [nodes |-> <<"list", "kured", "relist", "reask">>, pods |-> <<"list", "relist", "kured", "lookup">>,
     deployments |-> <<"kured", "list", "lookup", "relist">>, jobs |-> <<"kured", "list", "lookup">>]
Call == IF verify.check \in DOMAIN Calls /\ verify.step \in DOMAIN Calls[verify.check] THEN Calls[verify.check][verify.step] ELSE "none"
Goes(now) == verify' = [now EXCEPT !.step = @ + 1] /\ UNCHANGED <<nodes, broken, around>>
Alarm(now) == [now EXCEPT !.errors = 1]

(* A list that fails is an error, and the check has nothing to look at. *)
List ==
    /\ Call = "list"
    /\ \/ Goes([verify EXCEPT !.listed = Bad(verify.check)])
       \/ Goes([Alarm(verify) EXCEPT !.listed = {}])

(* kubectl ... || true: a call that fails reads as no reboot at all. *)
Kured == Call \in {"kured", "reask"} /\ \E k \in {Rebooting, {}} : Goes([verify EXCEPT !.kured = k])

(* After a grace.  A node that is not excused is looked at once more, with *)
(* kured's nodes, if the call succeeds; of the pods, whatever is unhealthy *)
(* still; of the deployments, what is not excused and still short.         *)
ListAgain ==
    /\ Call = "relist"
    /\ LET still == IF verify.check = "deployments" THEN (verify.listed \ Errors) \cup (Errors \cap Bad(verify.check))
                    ELSE Bad(verify.check)
           needed == IF verify.check = "pods" THEN verify.listed # {} ELSE Errors # {}
           skips == IF verify.check = "nodes" THEN 1 ELSE 0
       IN  \/ ~needed /\ Goes([verify EXCEPT !.step = @ + skips])
           \/ needed /\ Goes([verify EXCEPT !.listed = still])
           \/ needed /\ Goes([(IF verify.check = "pods" THEN Alarm(verify) ELSE verify) EXCEPT !.step = @ + skips])

Lookup == Call = "lookup" /\ \E known \in BOOLEAN : Goes([verify EXCEPT !.known = known])

(* The end of a check, and what it ought to report: what is broken itself  *)
(* and no reboot explains that went on at some moment of the check.  A     *)
(* pod or deployment whose nodes are not found counts as explained.        *)
Explained(i) ==
    /\ around # {}
    /\ IF i.check = "jobs" THEN i.on \subseteq around \cup {Nowhere}
       ELSE i.on \cap (around \cup {Nowhere}) # {} \/ ~verify.known
Due == {i \in broken : i.check = verify.check /\ ~Explained(i)}
Conclude ==
    /\ verify.check \notin {"dns", "done"} /\ Call = "none"
    /\ LET next == Checks[1 + CHOOSE c \in DOMAIN Checks : Checks[c] = verify.check]
       IN  verify' = [At(next) EXCEPT !.errors = IF Errors # {} THEN 1 ELSE verify.errors, !.due = verify.due \cup Due,
                                      !.kured = verify.kured]
    /\ around' = {n \in Nodes : nodes[n].annotated /\ nodes[n].cordoned} /\ UNCHANGED <<nodes, broken>>

(* Up to five probe pods: one has to come back with an answer. *)
ProbeDns ==
    /\ verify.check = "dns"
    /\ \E errors \in {verify.errors, 1} : verify' = [verify EXCEPT !.check = "done", !.errors = errors]
    /\ UNCHANGED <<nodes, broken, around>>

(***************************************************************************)
(* kured, one node at a time: it annotates, waits, cordons and reboots.    *)
(***************************************************************************)
Becomes(n, state) ==
    /\ nodes' = [nodes EXCEPT ![n] = state]
    /\ around' = IF state.annotated /\ state.cordoned THEN around \cup {n} ELSE around
    /\ UNCHANGED <<broken, verify>>
Annotates(n) == (\A m \in Nodes : ~nodes[m].annotated) /\ Becomes(n, [nodes[n] EXCEPT !.annotated = TRUE])
Cordons(n)   == nodes[n].annotated /\ nodes[n].up /\ ~nodes[n].cordoned /\ Becomes(n, [nodes[n] EXCEPT !.cordoned = TRUE])
GoesDown(n)  == nodes[n].annotated /\ nodes[n].cordoned /\ nodes[n].up /\ Becomes(n, [nodes[n] EXCEPT !.up = FALSE])
ComesBack(n) == ~nodes[n].up /\ \E c \in BOOLEAN : Becomes(n, [up |-> TRUE, annotated |-> FALSE, cordoned |-> c])

VerifyNext ==
    \/ List \/ Kured \/ ListAgain \/ Lookup \/ Conclude \/ ProbeDns
    \/ \E n \in Nodes : Annotates(n) \/ Cordons(n) \/ GoesDown(n) \/ ComesBack(n)

(***************************************************************************)
(* Properties.                                                             *)
(***************************************************************************)
(* What is broken all the time and not explained by a reboot that goes on  *)
(* while its check runs fails the verification, whichever calls fail: no   *)
(* excuse is older than the check that grants it, and none is an answer    *)
(* that never came.                                                        *)
BrokenIsReported == verify.check = "done" /\ verify.due # {} => verify.errors > 0
=============================================================================
