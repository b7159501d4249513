------------------------------ MODULE HelmValues ------------------------------
(***************************************************************************)
(* validate-helm-values.py: every listed release is rendered as Flux would *)
(* install it, and the rendered pods obey the cpu-limit and memory-cap     *)
(* policies of check-hpa-vpa-invariant.py, whose operators it calls.       *)
(*                                                                         *)
(* A text holds ${key} placeholders (keys), maybe forms that the gate does *)
(* not evaluate (unsupported), and parses or not once it is substituted.   *)
(* A call of helm or kubeconform ends "ok", "fails" or "timeout".          *)
(***************************************************************************)
EXTENDS FiniteSets

Hpa == INSTANCE AutoscalerGate   \* _hpa

(* The names each HelmRepository file under the sources directory gives.   *)
HelmRepositories(files) == UNION {f.names : f \in {x \in files : x.parses}}
Unreadable(files) == \E f \in files : ~f.parses

MissingKeys(text, versions) == text.keys \ versions

(* The first HelmRelease of a manifest, if it parses and has one. *)
HasRelease(rel) == rel.text.parses /\ rel.release

(* A pair of overrides wins; else the release's sourceRef must be known. *)
RepoResolves(rel, repos) == rel.override \/ (HasRelease(rel) /\ rel.source \in repos)

(* The namespace an object lands in: its own, or the release's. *)
Namespace(rel) == IF rel.targetNamespace # "" THEN rel.targetNamespace
                  ELSE IF rel.namespace # "" THEN rel.namespace ELSE "default"
Stamp(rel, key) == IF key[1] = "" THEN <<Namespace(rel), key[2], key[3]>> ELSE key

Stamped(rel, docs) ==
    {LET moved == [d EXCEPT !.key = Stamp(rel, @)]
     IN  IF d.kind = "VPA" THEN [moved EXCEPT !.target = Stamp(rel, @)] ELSE moved : d \in docs}

(* The VPAs beside the manifest; files that do not parse are passed over.  *)
ReleaseVpas(rel) ==
    Stamped(rel, Hpa!Kind(UNION {f.docs : f \in {x \in rel.beside : x.parses}}, "VPA"))

(* validate_release: nothing is rendered that Flux would substitute        *)
(* otherwise, and what helm renders obeys the policies.  Limits declared   *)
(* in the policy file and caps without a limit play no part here.          *)
ReleaseIsValid(rel, in) ==
    LET docs == Stamped(rel, rel.rendered)
    IN  /\ ~rel.text.unsupported /\ MissingKeys(rel.text, in.versions) = {}
        /\ HasRelease(rel) /\ ~rel.valuesFrom /\ rel.version
        /\ rel.template = "ok"
        /\ ~Hpa!CpuLimitViolation(docs, Hpa!Keys(in.policy.cpuLimit))
        /\ ~Hpa!CapViolation(docs \cup ReleaseVpas(rel), Hpa!Keys(in.policy.cap), {})
        /\ in.conform => rel.kubeconform = "ok"

(* load_releases: a non-empty list whose entries have their three keys. *)
ReleasesRefused(in) == in.releases = {} \/ \E rel \in in.releases : ~rel.keys

(* in is [tools, conform, policy, versions, sources, update, releases].    *)
(* Every failure, an exception included, ends with 1.                      *)
Ready(in) ==
    /\ "helm" \in in.tools /\ (in.conform => "kubeconform" \in in.tools)
    /\ ~ReleasesRefused(in) /\ ~Hpa!PolicyRefused(in.policy) /\ in.versions # {}
    /\ ~Unreadable(in.sources)
    /\ \A rel \in in.releases : rel.readable /\ RepoResolves(rel, HelmRepositories(in.sources))
    /\ \A rel \in in.releases : rel.add = "ok"
    /\ in.update = "ok"

Verdict(in) == IF Ready(in) /\ \A rel \in in.releases : ReleaseIsValid(rel, in) THEN 0 ELSE 1
=============================================================================
