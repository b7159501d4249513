---------------------------- MODULE ScrapeWiring ----------------------------
(***************************************************************************)
(* check-scrape-wiring.py: every pod a monitor scrapes is admitted from    *)
(* the observability namespace, on the port that is scraped, by a policy   *)
(* of the pod's own namespace.  It judges the manifests of one namespace   *)
(* (a tree) or a rendered corpus of them all.                              *)
(*                                                                         *)
(* Selectors are as in ScrapeNetpol.  A port is [name, number], one of the *)
(* two being empty (NoName, NoNumber); a container port may have both.  A  *)
(* step that raises is its exit status: 1 for Violation, 2 for GateError.  *)
(* Where both kinds of problem exist, which one is raised depends on the   *)
(* order of the documents; here it is the GateError.                       *)
(***************************************************************************)
EXTENDS Integers, Sequences, FiniteSets, FiniteSetsExt

CONSTANTS NameLabel, Observability

NoName == ""
NoNumber == 0
NoPort == [name |-> NoName, number |-> NoNumber]
Ok == 0
Violation == 1
GateError == 2

Operators == {"In", "NotIn", "Exists", "DoesNotExist"}

(* Whether the gate can evaluate a selector at all. *)
SelectorProblem(s) ==
    \/ s.shape # "ok"
    \/ \E e \in s.exprs : \/ ~e.fields \/ e.op \notin Operators
                          \/ (e.values = {}) # (e.op \in {"Exists", "DoesNotExist"})

Term(e, labels) ==
    LET present == \E l \in labels : l[1] = e.key
        listed == \E l \in labels : l[1] = e.key /\ l[2] \in e.values
    IN  \/ e.op = "In" /\ listed
        \/ e.op = "NotIn" /\ ~listed
        \/ e.op = "Exists" /\ present
        \/ e.op = "DoesNotExist" /\ ~present

SelectorMatches(s, labels) ==
    ~SelectorProblem(s) /\ s.labels \subseteq labels /\ \A e \in s.exprs : Term(e, labels)

ByLabels(labels) == [given |-> TRUE, shape |-> "ok", labels |-> labels, exprs |-> {}]
Narrows(s) == s.labels # {} \/ s.exprs # {}

OfKind(docs, kinds) == {d \in docs : d.kind \in kinds}
SelectedWorkloads(docs, pods) == {w \in OfKind(docs, {"Workload"}) : SelectorMatches(pods, w.labels)}

(***************************************************************************)
(* From an endpoint to the pods it scrapes.                                *)
(***************************************************************************)
(* The container ports of a workload a port spelling stands for. *)
Declares(w, port) == {p \in w.ports : IF port.name # NoName THEN p.name = port.name ELSE p.number = port.number}

Spellings(w, number) == {p \in w.ports : p.number = number}

(* One target per selected workload that declares the port; none is a      *)
(* violation, and so is a port that says nothing.                          *)
ResolveTarget(docs, pods, port) ==
    LET ws == SelectedWorkloads(docs, pods)
        targets == UNION {{[labels |-> w.labels, number |-> p.number, ports |-> Spellings(w, p.number)]
                              : p \in Declares(w, port)} : w \in ws}
    IN  IF port = NoPort \/ targets = {} THEN [status |-> Violation, targets |-> {}]
        ELSE [status |-> Ok, targets |-> targets]

ServicesFor(docs, selector) == {s \in OfKind(docs, {"Service"}) : SelectorMatches(selector, s.labels)}
EndpointsByHand(docs, service) == {e \in OfKind(docs, {"Endpoints"}) : e.service = service.name}

(* Whether hand-written endpoints hold an address on the scraped port: by  *)
(* name for port:, by name or number for targetPort:.  A substitution is   *)
(* credited unread.                                                        *)
EndpointServes(e, endpoint) ==
    \/ e.state = "substitution"
    \/ \E s \in e.subsets :
        /\ s.addresses > 0
        /\ \E p \in s.ports :
            IF endpoint.port.name # NoName THEN p.name = endpoint.port.name
            ELSE \/ p.number = NoNumber
                 \/ endpoint.targetPort.number = p.number
                 \/ endpoint.targetPort.name # NoName /\ endpoint.targetPort.name = p.name

(* What one selected Service adds: [status, targets, byHand]. *)
ServiceTargets(docs, service, endpoint) ==
    LET byHand == EndpointsByHand(docs, service)
        Add(r) == [status |-> r.status, targets |-> r.targets, byHand |-> FALSE]
        Nothing(status, hand) == [status |-> status, targets |-> {}, byHand |-> hand]
        ports == {p \in service.ports : p.name = endpoint.port.name}
    IN  IF service.selector = {}
        THEN IF \E e \in byHand : e.state = "unreadable" THEN Nothing(GateError, FALSE)
             ELSE IF \E e \in byHand : EndpointServes(e, endpoint) THEN Nothing(Ok, TRUE)
             ELSE Nothing(Violation, FALSE)
        ELSE IF endpoint.port = NoPort
             THEN Add(ResolveTarget(docs, ByLabels(service.selector), endpoint.targetPort))
        ELSE IF ports = {} THEN Nothing(Ok, FALSE)
        ELSE Add(ResolveTarget(docs, ByLabels(service.selector), (CHOOSE p \in ports : TRUE).target))

(* The targets of one endpoint in one namespace. *)
PodPort(docs, monitor, endpoint) ==
    LET direct == IF endpoint.port # NoPort THEN endpoint.port
                  ELSE IF endpoint.portNumber # NoPort THEN endpoint.portNumber ELSE endpoint.targetPort
        own == ResolveTarget(docs, monitor.selector, direct)
        each == {ServiceTargets(docs, s, endpoint) : s \in ServicesFor(docs, monitor.selector)}
        targets == UNION {r.targets : r \in each}
        byHand == \E r \in each : r.byHand
    IN  IF monitor.kind = "PodMonitor"
        THEN [status |-> IF direct = NoPort THEN GateError ELSE own.status, targets |-> own.targets, byHand |-> FALSE]
        ELSE [status |-> IF endpoint.port = NoPort /\ endpoint.targetPort = NoPort THEN GateError
                         ELSE IF \E r \in each : r.status # Ok THEN Max({r.status : r \in each})
                         ELSE IF targets = {} /\ ~byHand THEN Violation ELSE Ok,
              targets |-> targets, byHand |-> byHand]

(***************************************************************************)
(* Whether a policy lets Prometheus in.                                    *)
(***************************************************************************)
(* What a namespaceSelector says of the scrape namespace, of which only    *)
(* the name label is known.                                                *)
NamespaceTerms(s) ==
    LET onName(e) == e.key = NameLabel
        reduced == [given |-> TRUE, shape |-> s.shape,
                    labels |-> {l \in s.labels : l[1] = NameLabel}, exprs |-> {e \in s.exprs : onName(e)}]
    IN  [selects |-> ~SelectorProblem(s) /\ SelectorMatches(reduced, {<<NameLabel, Observability>>}),
         narrowing |-> \/ \E l \in s.labels : l[1] # NameLabel
                       \/ \E e \in s.exprs : ~onName(e),
         named |-> (\E l \in s.labels : l[1] = NameLabel) \/ \E e \in s.exprs : onName(e)]

(* The selector {}; one that spells out empty terms is not modelled. *)
EmptySelector(s) == s.shape = "ok" /\ ~Narrows(s)

(* The podSelector of a peer that names the namespace, against the labels  *)
(* declared for the scraper: an absent label proves nothing.               *)
PodsAdmitScraper(pods, scraper) ==
    /\ ~SelectorProblem(pods)
    /\ Narrows(pods) =>
        /\ scraper # {}
        /\ \A e \in pods.exprs : e.op \in {"NotIn", "DoesNotExist"} => \E l \in scraper : l[1] = e.key
        /\ SelectorMatches(pods, scraper)

PeerAdmits(peer, scraper) ==
    LET terms == NamespaceTerms(peer.namespaces)
    IN  /\ peer.kind = "pods" /\ peer.namespaces.given
        /\ IF EmptySelector(peer.namespaces) THEN ~peer.pods.given \/ EmptySelector(peer.pods)
           ELSE terms.selects /\ ~terms.narrowing /\ PodsAdmitScraper(peer.pods, scraper)

(* Broken variant: the range is taken to go on past its endPort. *)
PortAdmitsRange(entry, target) ==
    /\ entry.protocol = "TCP"
    /\ \/ entry.port = NoPort
       \/ entry.port.number = target.number
       \/ entry.port.name # NoName /\ \E p \in target.ports : p.name = entry.port.name
       \/ entry.port.name = NoName /\ entry.endPort # NoNumber /\ target.number >= entry.port.number

(* ports of a rule: [protocol, port, endPort], port = NoPort for every     *)
(* port.  A number with an endPort is the low end of a range.              *)
PortAdmits(entry, target) ==
    /\ entry.protocol = "TCP"
    /\ \/ entry.port = NoPort
       \/ entry.port.number = target.number
       \/ entry.port.name # NoName /\ \E p \in target.ports : p.name = entry.port.name
       \/ entry.port.name = NoName /\ entry.endPort # NoNumber
              /\ target.number \in entry.port.number .. entry.endPort

Admits(policy, target, scraper) ==
    /\ IF policy.types # {} THEN "Ingress" \in policy.types ELSE policy.rules # {}
    /\ SelectorMatches(policy.pods, target.labels)
    /\ \E r \in policy.rules :
        /\ r.peers = {} \/ \E p \in r.peers : PeerAdmits(p, scraper)
        /\ r.ports = {} \/ \E e \in r.ports : PortAdmits(e, target)

(* A policy that names the scrape namespace: somebody meant a scrape. *)
ScrapeAllow(docs) ==
    \E p \in OfKind(docs, {"NetworkPolicy"}) : \E r \in p.rules : \E q \in r.peers :
        /\ q.kind = "pods" /\ q.namespaces.given
        /\ NamespaceTerms(q.namespaces).selects /\ NamespaceTerms(q.namespaces).named

(***************************************************************************)
(* Namespaces: a document's own, else the one given or the only one.       *)
(***************************************************************************)
NoNamespace == ""
MonitorKinds == {"ServiceMonitor", "PodMonitor"}
Namespaced(docs) == {d \in docs : d.kind # "Unnamespaced"}
Stated(docs) == {d.ns : d \in Namespaced(docs)} \ {NoNamespace}

(* The one Namespace manifest of a tree. *)
TreeNamespace(docs) ==
    LET named == {d.name : d \in {x \in docs : x.kind = "Unnamespaced" /\ x.namespace}} \ {NoName}
    IN  IF Cardinality(named) = 1 THEN CHOOSE n \in named : TRUE ELSE NoNamespace

EffectiveNamespace(d, docs, namespace) ==
    IF d.ns # NoNamespace THEN d.ns
    ELSE IF namespace # NoNamespace THEN namespace
    ELSE IF Cardinality(Stated(docs)) = 1 THEN CHOOSE n \in Stated(docs) : TRUE
    ELSE NoNamespace

(* groups: the documents of each namespace. *)
GroupByNamespace(docs, namespace) ==
    LET home == [d \in Namespaced(docs) |-> EffectiveNamespace(d, docs, namespace)]
    IN  [n \in {home[d] : d \in DOMAIN home} |-> {d \in DOMAIN home : home[d] = n}]

(* [status, namespaces]: a wider scope than the tree is refused in a tree, *)
(* and a name the corpus does not hold in a corpus.                        *)
MonitorScope(monitor, home, groups, corpus) ==
    LET names == monitor.matchNames
        scope(status, nss) == [status |-> status, namespaces |-> nss]
    IN  IF monitor.unknownScope THEN scope(GateError, {})
        ELSE IF corpus
        THEN IF monitor.any THEN scope(Ok, DOMAIN groups)
             ELSE IF names = {} THEN scope(Ok, {home})
             ELSE scope(IF names \subseteq DOMAIN groups THEN Ok ELSE GateError, names)
        ELSE scope(IF monitor.any \/ (names # {} /\ names # {home}) THEN GateError ELSE Ok, {home})

(* One endpoint of a monitor over the namespaces of its scope.  Where a    *)
(* namespace has no target: a corpus namespace that renders no workload    *)
(* and nothing the monitor selects says nothing (a chart's pods); a        *)
(* namespace that is alone or holds something selected is a violation.     *)
CheckEndpoint(monitor, endpoint, namespaces, groups, corpus, scraper) ==
    LET result == [n \in namespaces |-> PodPort(groups[n], monitor, endpoint)]
        chosen(n) == IF monitor.kind = "PodMonitor" THEN SelectedWorkloads(groups[n], monitor.selector)
                     ELSE ServicesFor(groups[n], monitor.selector)
        failed == {n \in namespaces : result[n].status = Violation}
        unrendered == {n \in failed : corpus /\ OfKind(groups[n], {"Workload"}) = {} /\ chosen(n) = {}}
        found == namespaces \ failed
        served == \E n \in found : result[n].targets # {} \/ result[n].byHand
        admitted(n) == \A t \in result[n].targets :
            \E p \in OfKind(groups[n], {"NetworkPolicy"}) : Admits(p, t, scraper)
    IN  IF \E n \in namespaces : result[n].status = GateError THEN GateError
        ELSE IF \E n \in failed \ unrendered : Cardinality(namespaces) = 1 \/ chosen(n) # {} THEN Violation
        ELSE IF ~served THEN IF unrendered = namespaces THEN Ok ELSE Violation
        ELSE IF \A n \in found : admitted(n) THEN Ok ELSE Violation

CheckMonitor(monitor, namespaces, groups, corpus, scraper) ==
    IF SelectorProblem(monitor.selector) \/ ~Narrows(monitor.selector) \/ monitor.endpoints = {}
    THEN GateError
    ELSE Max({CheckEndpoint(monitor, e, namespaces, groups, corpus, scraper) : e \in monitor.endpoints})

(* A namespace that admits the scrape while no monitor targets it. *)
RefuseVacuous(groups, targeted) == \E n \in DOMAIN groups \ targeted : ScrapeAllow(groups[n])

Check(docs, namespace, corpus, scraper) ==
    LET groups == GroupByNamespace(docs, namespace)
        monitors == UNION {{<<n, m>> : m \in OfKind(groups[n], MonitorKinds)} : n \in DOMAIN groups}
        scope == [x \in monitors |-> MonitorScope(x[2], x[1], groups, corpus)]
        targeted == UNION {scope[x].namespaces : x \in monitors}
        outcome == {IF scope[x].status # Ok THEN scope[x].status
                    ELSE CheckMonitor(x[2], scope[x].namespaces, groups, corpus, scraper) : x \in monitors}
    IN  IF \/ namespace # NoNamespace /\ ~(Stated(docs) \subseteq {namespace})
           \/ NoNamespace \in DOMAIN groups /\ Cardinality(DOMAIN groups) > 1
        THEN GateError
        ELSE IF monitors = {} THEN IF RefuseVacuous(groups, {}) THEN GateError ELSE Ok
        ELSE IF \E o \in outcome : o # Ok THEN Max(outcome)
        ELSE IF ~corpus /\ RefuseVacuous(groups, targeted) THEN GateError
        ELSE Ok

(* in is [usage, unreadable, corpus, docs, namespace, fromTree, scraper]:  *)
(* usage "ok", "both-given" or "no-such-directory".                        *)
Verdict(in) ==
    IF in.usage # "ok" \/ in.unreadable \/ in.docs = {} THEN GateError
    ELSE Check(in.docs, IF in.fromTree THEN TreeNamespace(in.docs) ELSE in.namespace, in.corpus, in.scraper)
=============================================================================
