----------------------------- MODULE DefaultDeny -----------------------------
(***************************************************************************)
(* check-default-deny-coverage.py: every namespace that owns a workload    *)
(* carries a policy for all its pods that denies ingress by default, and   *)
(* every namespace named by --require-egress one that denies egress.       *)
(*                                                                         *)
(* A document is a workload or HelmRelease [kind, ns, target] or a policy  *)
(* [kind, ns, pods, types, rules], where rules maps each direction to its  *)
(* rules [shape, ports, peers].                                            *)
(***************************************************************************)
EXTENDS NetPolicy

Directions == {"Ingress", "Egress"}

(* A rule without ports that has no peer, or one that narrows nothing.  A  *)
(* rule that names ports still narrows the surface.                        *)
AllowsAll(policy, direction) ==
    \E r \in policy.rules[direction] :
        /\ r.shape = "map" /\ ~r.ports
        /\ r.peers = {} \/ \E p \in r.peers : PeerSelectsEverything(p)

(* The namespaces that own a workload: a HelmRelease deploys to its target. *)
WorkloadNamespaces(docs) ==
    {DocNamespace(d.ns) : d \in {x \in docs : x.kind = "Workload"}}
    \cup {IF d.target # "" THEN d.target ELSE DocNamespace(d.ns)
             : d \in {x \in docs : x.kind = "HelmRelease"}}

(* The policies that select every pod of their namespace: spec.podSelector *)
(* is required, so an absent one is no selector of all pods.               *)
NamespaceWide(docs) ==
    {d \in docs : d.kind = "NetworkPolicy" /\ d.pods.given /\ SelectsAllPods(d.pods)}

Restricts(policy, direction) ==
    direction \in PolicyTypes(policy.types, policy.rules["Egress"] # {})

(* Broken variant: one policy that denies is enough, whatever another allows. *)
FencedOnce(docs, direction) ==
    {DocNamespace(p.ns) : p \in {q \in NamespaceWide(docs) :
        Restricts(q, direction) /\ ~AllowsAll(q, direction)}}

(* Policies add up, so one wide-open allow reopens the namespace. *)
Fenced(docs, direction) ==
    LET wide == {p \in NamespaceWide(docs) : Restricts(p, direction)}
        open == {p \in wide : AllowsAll(p, direction)}
    IN  {DocNamespace(p.ns) : p \in wide \ open} \ {DocNamespace(p.ns) : p \in open}

Exempt(in) == {"flux-system"} \cup {e.ns : e \in in.exempt}

Verdict(in) ==
    LET owners == WorkloadNamespaces(in.corpus.docs)
        fenced == [d \in Directions |-> Fenced(in.corpus.docs, d)]
    IN  IF ExemptRefused(in.exempt) \/ CorpusUnusable(in.corpus) \/ owners = {} THEN 2
        ELSE IF \/ ~(owners \subseteq fenced["Ingress"] \cup Exempt(in))
                \/ ~(in.requireEgress \subseteq fenced["Egress"]) THEN 1
        ELSE 0
=============================================================================
