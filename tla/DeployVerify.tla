----------------------------- MODULE DeployVerify -----------------------------
(***************************************************************************)
(* The verification after a deployment (deploy-verify.sh with              *)
(* deploy-verify-lib.sh).  A cluster whose Kustomizations were all Ready   *)
(* before the reconcile has to be healthy in full afterwards; one that was *)
(* being set up or repaired may still be getting there.                    *)
(*                                                                         *)
(* An input has whether some Kustomization is not Ready beforehand, how    *)
(* counting them comes out, and what each check sees when its wait is      *)
(* over: "ready" if it succeeded within the wait, "late" if only then,     *)
(* "unnamed" if jq counted the HelmReleases and then could not name those  *)
(* that are not ready.                                                     *)
(***************************************************************************)

Failures == {"no-list", "no-count"}   \* kubectl, or jq, failed

PreFails(in) == in.counting \in Failures

(* A count that failed is taken for zero: the strict arm. *)
SteadyState(in) == PreFails(in) \/ (in.counting = "counted" /\ ~in.unready)

(* The arms that only a steady cluster is held to. *)
ExternalSecretsFail(es, steady) == es \in Failures \/ (steady /\ es \in {"not-ready", "late"})
VipsFail(vips, steady) == vips = "no-config" \/ (steady /\ vips = "not-announced")

(* Of the pods a failing state is an error in either case; unready ones    *)
(* are looked for only if all of them run.                                 *)
PodsFail(pods, steady) == pods \in {"no-list", "failing"} \/ (steady /\ pods \in {"none", "pending", "unready"})

(* Waiting for the HelmReleases takes an empty list of names for "all      *)
(* ready", and the list is empty as well when jq fails on it, since        *)
(* errexit is off in a condition: "unnamed" is no failure.                 *)
HelmReleasesFail(hrs, steady) == hrs \in Failures \cup {"failing"} \/ (steady /\ hrs \in {"none", "reconciling", "late"})

(* Nothing of nodes and dry run, reconcile and controllers, Flux resources *)
(* and stages is tolerated in either case: in.strict says they are fine.   *)
Verdict(in) ==
    LET steady == SteadyState(in)
    IN  IF \/ ~in.strict \/ PreFails(in)
           \/ ExternalSecretsFail(in.es, steady) \/ PodsFail(in.pods, steady)
           \/ HelmReleasesFail(in.hrs, steady) \/ VipsFail(in.vips, steady)
        THEN 1 ELSE 0
=============================================================================
