---------------------------- MODULE ScrapeNetpol ----------------------------
(***************************************************************************)
(* check-scrape-netpol.py: a namespace that is scraped and restricts its   *)
(* ingress admits Prometheus, and the port of every monitor endpoint is    *)
(* declared by what the monitor selects.                                   *)
(*                                                                         *)
(* Here a label selector is kept in full: labels are pairs <<key, value>>, *)
(* expressions [key, op, values, fields] (fields: only the known ones), and *)
(* shape is "ok", "typo" (an unknown key) or "invalid" (a term of the      *)
(* wrong type).  Absent is the selector that is not given.                 *)
(***************************************************************************)
EXTENDS NetPolicy

CONSTANTS NameLabel,    \* kubernetes.io/metadata.name
          Observability \* the namespace Prometheus runs in

Absent == [given |-> FALSE, shape |-> "ok", labels |-> {}, exprs |-> {}]
SelectsAll(s) == s.shape = "ok" /\ s.labels = {} /\ s.exprs = {}

BadText == "!"   \* a label key or value the API server refuses
Operators == {"In", "NotIn", "Exists", "DoesNotExist"}

ExprIsValid(e) ==
    /\ e.fields /\ e.key # BadText /\ e.op \in Operators
    /\ e.op \in {"In", "NotIn"} => e.values # {} /\ BadText \notin e.values
    /\ e.op \in {"Exists", "DoesNotExist"} => e.values = {}

LabelSelectorIsApiValid(s) ==
    /\ s.shape = "ok"
    /\ \A l \in s.labels : BadText \notin {l[1], l[2]}
    /\ \A e \in s.exprs : ExprIsValid(e)

Values(labels, key) == {l[2] : l \in {m \in labels : m[1] = key}}

SelectorMatches(s, labels) ==
    /\ s.given
    /\ s.labels \subseteq labels
    /\ \A e \in s.exprs :
        LET present == Values(labels, e.key) # {}
            inValues == Values(labels, e.key) \cap e.values # {}
        IN  CASE e.op = "In" -> inValues
              [] e.op = "NotIn" -> ~inValues
              [] e.op = "Exists" -> present
              [] e.op = "DoesNotExist" -> ~present
              [] OTHER -> TRUE

(* scraper: the labels declared with --prometheus-pod-label, {} for none. *)
AdmitsScraper(pods, scraper) ==
    \/ SelectsAll(pods)
    \/ scraper # {} /\ LabelSelectorIsApiValid(pods) /\ SelectorMatches(pods, scraper)

(* A from peer that provably matches the observability namespace. *)
SelectsObservability(peer, scraper) ==
    LET ns == peer.namespaces
        Names(e) == e.fields /\ e.key = NameLabel /\ e.op = "In" /\ Observability \in e.values
        named == <<NameLabel, Observability>> \in ns.labels \/ \E e \in ns.exprs : Names(e)
        extra == (\E l \in ns.labels : l[1] # NameLabel) \/ \E e \in ns.exprs : ~Names(e)
    IN  /\ peer.kind = "pods" /\ ns.given /\ ns.shape = "ok"
        /\ IF SelectsAll(ns) THEN AdmitsScraper(peer.pods, scraper)
           ELSE ~extra /\ named /\ (scraper = {} \/ AdmitsScraper(peer.pods, scraper))

(* The /0 blocks of a rule without except list span both families, and no  *)
(* peer of the rule has a shape the API refuses.                           *)
RuleIpBlocksCoverBothFamilies(peers) ==
    /\ \A p \in peers :
        \/ p.kind = "pods" /\ \A s \in {p.namespaces, p.pods} : LabelSelectorIsApiValid(s)
        \/ p.kind = "ipBlock" /\ p.except \in {"none", "some"} /\ Parses(p.cidr)
    /\ Families \subseteq {p.cidr.v : p \in {q \in peers :
            q.kind = "ipBlock" /\ q.except = "none" /\ ZeroPrefix(q.cidr)}}

(* The namespaces a monitor selects; an any: selector names none. *)
KnownNamespaces(monitor) == monitor.matchNames # {} \/ ~monitor.any
MonitorNamespaces(monitor) ==
    IF monitor.matchNames # {} THEN monitor.matchNames
    ELSE IF monitor.any THEN {} ELSE {DocNamespace(monitor.ns)}

Kind(docs, kind) == {d \in docs : d.kind \in kind}
MonitorKinds == {"ServiceMonitor", "PodMonitor"}

(* A HelmRelease scrapes its target if a monitor toggle of its values is   *)
(* true, in whatever case and however deep the toggle is spelt.            *)
Scraped(docs) ==
    (UNION {MonitorNamespaces(m) : m \in Kind(docs, MonitorKinds)})
    \cup {IF h.target # "" THEN h.target ELSE DocNamespace(h.ns)
             : h \in {x \in Kind(docs, {"HelmRelease"}) : x.toggle}}

IngressPolicies(docs) ==
    {p \in Kind(docs, {"NetworkPolicy"}) : "Ingress" \in PolicyTypes(p.types, p.hasEgress)}
NamespaceWide(p) == p.pods.given /\ SelectsAll(p.pods)

Restricted(docs) == {DocNamespace(p.ns) : p \in {q \in IngressPolicies(docs) : NamespaceWide(q)}}

AdmitsScrape(policy, rule, scraper) ==
    /\ rule.shape = "ok"
    /\ \/ rule.peers = {} /\ NamespaceWide(policy)
       \/ RuleIpBlocksCoverBothFamilies(rule.peers)
       \/ \E peer \in rule.peers : SelectsObservability(peer, scraper)

Allowed(docs, scraper) ==
    {DocNamespace(p.ns) : p \in {q \in IngressPolicies(docs) :
        \E r \in q.rules : AdmitsScrape(q, r, scraper)}}

(***************************************************************************)
(* The ports.  A port is [named, id]; NoPort where a field has no value.   *)
(***************************************************************************)
NoPort == [named |-> FALSE, id |-> "none"]

(* matchLabels, if the gate can model the selector at all. *)
Modelled(s) == ~s.given \/ (s.shape = "ok" /\ s.exprs = {})
Selected(entries, labels) == {e \in entries : labels \subseteq e.labels}

WorkloadsIn(docs, ns) == {w \in Kind(docs, {"Workload"}) : DocNamespace(w.ns) = ns}
ServicesIn(docs, ns) == {s \in Kind(docs, {"Service"}) : DocNamespace(s.ns) = ns}

(* The first field of an endpoint that has a value, and whether it is      *)
(* targetPort.  portNumber is a field of PodMonitor endpoints only.        *)
EndpointPort(e, kind) ==
    IF e.port # NoPort THEN [direct |-> FALSE, port |-> e.port]
    ELSE IF kind = "PodMonitor" /\ e.portNumber # NoPort
         THEN [direct |-> FALSE, port |-> e.portNumber]
    ELSE [direct |-> TRUE, port |-> e.targetPort]

(* Whether pods that a selector picks lack a port; no selector and no      *)
(* matched workload prove nothing.                                         *)
PodsLack(port, selector, workloads) ==
    LET matched == Selected(workloads, selector)
    IN  selector # {} /\ matched # {} /\ \A w \in matched : port \notin w.ports

(* A port of a Service whose named targetPort no pod declares. *)
ServiceHopFails(port, services, workloads) ==
    \E s \in services : \E p \in s.ports :
        p.name = port /\ p.target.named /\ PodsLack(p.target, s.selector, workloads)

EndpointFails(docs, monitor, ns, endpoint) ==
    LET field == EndpointPort(endpoint, monitor.kind)
        matched == Selected(ServicesIn(docs, ns), monitor.selector.labels)
        pods == WorkloadsIn(docs, ns)
    IN  /\ field.port # NoPort
        /\ IF monitor.kind = "PodMonitor"
           THEN PodsLack(field.port, monitor.selector.labels, pods)
           ELSE /\ matched # {}
                /\ IF field.direct
                   THEN \E s \in matched : PodsLack(field.port, s.selector, pods)
                   ELSE \/ ~\E s \in matched : \E p \in s.ports : p.name = field.port
                        \/ ServiceHopFails(field.port, matched, pods)

PortViolation(docs) ==
    \E m \in Kind(docs, MonitorKinds) :
        Modelled(m.selector) /\ \E ns \in MonitorNamespaces(m), e \in m.endpoints :
            EndpointFails(docs, m, ns, e)

(* in is [exempt, badLabel, scraper, corpus]. *)
Verdict(in) ==
    LET docs == in.corpus.docs
        judged == (Scraped(docs) \cap Restricted(docs)) \ {e.ns : e \in in.exempt}
    IN  IF ExemptRefused(in.exempt) \/ in.badLabel \/ CorpusUnusable(in.corpus) THEN 2
        ELSE IF ~(judged \subseteq Allowed(docs, in.scraper)) \/ PortViolation(docs) THEN 1
        ELSE IF Scraped(docs) = {} THEN 2
        ELSE 0
=============================================================================
