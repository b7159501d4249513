--------------------------- MODULE MCNetworkGates ---------------------------
(***************************************************************************)
(* The gates over NetworkPolicies and scrapes, each run once on one input  *)
(* of a bounded set.  A property compares the exit status with what the    *)
(* API server and the CNI would make of the same documents.                *)
(***************************************************************************)
EXTENDS Integers, Sequences, FiniteSets

CONSTANTS Width, NameLabel, Observability

ASSUME WidthAssumption == Width \in Nat /\ Width >= 3   \* the longest prefix below
ASSUME LabelAssumption == NameLabel # "team"   \* the one other label of a namespace below

VARIABLES gate,    \* the gate or function that ran, "none" before
          input,   \* what it read
          result   \* its exit status, or what it returned

vars == <<gate, input, result>>

Init == gate = "none" /\ input = <<>> /\ result = 0

Runs(name, in, out) == gate' = name /\ input' = in /\ result' = out

Listed(s) == {s[i] : i \in DOMAIN s}

Egress == INSTANCE EgressFence
Deny   == INSTANCE DefaultDeny
Scrape == INSTANCE ScrapeNetpol
Wiring == INSTANCE ScrapeWiring

Cidr(v, len, idx) == [v |-> v, len |-> len, idx |-> idx]
Everything(v) == Cidr(v, 0, 0)
Garbage(len) == Cidr(Egress!Unparseable, len, 0)

(***************************************************************************)
(* check-netpol-except-parity.py                                           *)
(***************************************************************************)
Lan  == Cidr(4, 2, 1)   \* the v4 fence; the v6 one is the upper half
Fences == {Lan, Cidr(6, 1, 1)}
LanFence == <<Lan>>
Reserved == <<Lan, Cidr(4, 3, 7)>>
Builtin == [lists |-> {LanFence, Reserved}, fences |-> Fences]

Block(cidr, except) == [kind |-> "ipBlock", cidr |-> cidr, except |-> except]
Peer(kind) == [kind |-> kind, cidr |-> Garbage(Width), except |-> <<>>]

V4Blocks == {Everything(4), Cidr(4, 1, 0), Cidr(4, 1, 1), Lan, Cidr(4, 3, 2), Cidr(4, 3, 3)}
V4Excepts == {<<>>, LanFence, Reserved, <<Cidr(4, 3, 7), Lan>>, <<Cidr(4, 3, 7)>>, <<Cidr(4, 3, 2)>>,
              <<Cidr(4, 3, 2), Cidr(4, 3, 3)>>}
V6Blocks == {Everything(6), Cidr(6, 1, 1), Cidr(6, 2, 2)}
V6Excepts == {<<>>, LanFence, <<Cidr(6, 1, 1)>>, <<Cidr(6, 3, 5)>>}
NoBlocks == {Garbage(0), Garbage(Width), Cidr(Egress!Placeholder, 0, 0)}
EgressPeers ==
    {Block(c, e) : c \in V4Blocks, e \in V4Excepts} \cup {Block(c, e) : c \in V6Blocks, e \in V6Excepts}
    \cup {Block(c, <<>>) : c \in NoBlocks} \cup {Peer(kind) : kind \in {"selector", "empty", "not-a-mapping"}}

EgressRule(peers) == [shape |-> "map", peers |-> peers]
EgressRules == {EgressRule(ps) : ps \in {<<>>} \cup {<<p>> : p \in EgressPeers} \cup (EgressPeers \X EgressPeers)}
Shut == EgressRule(<<Peer("selector")>>)
NoRule == [shape |-> "not-a-mapping", peers |-> <<>>]

Policy(types, rules) == [kind |-> "NetworkPolicy", key |-> "a/p", types |-> types,
                         egress |-> rules, ingress |-> <<>>]
Stream(state, docs, rendered) == [state |-> state, docs |-> docs, rendered |-> rendered,
                                  pointedAt |-> FALSE, looksLikeManifest |-> FALSE]
NoConfig == [bad |-> FALSE, lists |-> {}, fences |-> {}, allow |-> {}]
Allow(reason) == [NoConfig EXCEPT !.allow = {[key |-> "a/p", reason |-> reason]}]

Configs == {NoConfig, Allow(TRUE), Allow(FALSE), [NoConfig EXCEPT !.bad = TRUE],
            [NoConfig EXCEPT !.lists = {<<Cidr(4, 3, 2)>>}], [NoConfig EXCEPT !.fences = {Cidr(4, 3, 2)}]}
Judging(config, streams) == [config |-> config, streams |-> streams]
Alone(r) == {Stream("read", {Policy({"Egress"}, <<r>>)}, FALSE)}
AfterShut(types, r, rendered) == {Stream("read", {Policy(types, <<Shut, r>>)}, rendered)}
Misread == [state : {"missing", "unreadable", "bad-yaml", "bad-json", "read"}, docs : {{}},
            rendered : {FALSE}, pointedAt : BOOLEAN, looksLikeManifest : BOOLEAN]
ReadBeside == {Stream("read", {}, TRUE), Stream("read", {Policy({}, <<Shut>>)}, TRUE)}

JudgedAlone == {Judging(NoConfig, Alone(r)) : r \in EgressRules}
JudgedAfterShut ==
    {Judging(c, AfterShut(t, r, rendered)) : c \in Configs, t \in {{}, {"Ingress"}, {"Egress"}},
        rendered \in BOOLEAN, r \in {q \in EgressRules : Len(q.peers) < 2} \cup {NoRule}}
JudgedMisread == {Judging(NoConfig, {s, t}) : s \in Misread, t \in ReadBeside}
EgressInputs == JudgedAlone \cup JudgedAfterShut \cup JudgedMisread

EgressFenceRuns == gate = "none" /\ \E in \in EgressInputs : Runs("egress", in, Egress!Verdict(in, Builtin))

Span(cidr) == IF Egress!Parses(cidr) THEN Egress!Addresses(cidr) ELSE {}
Admitted(block) == Span(block.cidr) \ UNION {Span(block.except[i]) : i \in DOMAIN block.except}
PoliciesRead == {d \in UNION {s.docs : s \in input.streams} : d.kind = "NetworkPolicy"}

(* If the egress gate passes, no egress rule of a policy that is not       *)
(* declared unrestricted admits every destination, or all the addresses of *)
(* a fenced range, counted address by address over all its blocks.         *)
EgressIsFenced ==
    gate = "egress" /\ result = 0 =>
        \A p \in PoliciesRead :
            ("Egress" \in p.types \/ p.types = {}) /\ ~(\E e \in input.config.allow : e.key = p.key) =>
            \A r \in Listed(p.egress) :
                /\ r.peers # <<>> /\ \A peer \in Listed(r.peers) : peer.kind # "empty"
                /\ \A f \in IF input.config.fences = {} THEN Fences ELSE input.config.fences :
                    ~(Span(f) \subseteq UNION {Admitted(peer) : peer \in Listed(r.peers)})

(* If it passes with the built-in lists, no IPv4 default route of any      *)
(* policy admits a single address of the fence, even if the policy is      *)
(* declared unrestricted or does not restrict egress at all.               *)
DefaultRouteKeepsOffTheLan ==
    gate = "egress" /\ result = 0 /\ input.config.lists = {} =>
        \A p \in PoliciesRead : \A r \in Listed(p.egress) : \A peer \in Listed(r.peers) :
            peer.kind = "ipBlock" /\ peer.cidr = Everything(4) => Admitted(peer) \cap Span(Lan) = {}

(***************************************************************************)
(* check-default-deny-coverage.py                                          *)
(***************************************************************************)
Selector(labels) == [given |-> TRUE, typo |-> FALSE, labels |-> labels, exprs |-> "absent"]
Typo == [Selector("empty") EXCEPT !.typo = TRUE]
Selectors == {Deny!NoSelector, Selector("empty"), Selector("some"), Selector("invalid"), Typo}

IpPeer(cidr, except) == [kind |-> "ipBlock", cidr |-> cidr, except |-> except]
PodPeer(namespaces, pods) == [kind |-> "pods", namespaces |-> namespaces, pods |-> pods]
DenyBlocks == {Everything(4), Cidr(4, 1, 0), Garbage(0)}
DenyExcepts == {<<>>, <<Everything(4)>>, <<Lan>>, <<Cidr(4, 1, 0), Cidr(4, 1, 1)>>, <<Cidr(6, 1, 0), Cidr(4, 1, 1)>>,
                <<Cidr(4, 1, 1), Cidr(4, 2, 1), Cidr(4, 2, 0)>>}
DenyPeers == {PodPeer(n, p) : n \in Selectors, p \in Selectors}
             \cup {IpPeer(c, e) : c \in DenyBlocks, e \in DenyExcepts}

Rule(ports, peers) == [shape |-> "map", ports |-> ports, peers |-> peers]
DenyRules == {Rule(ports, {p}) : ports \in BOOLEAN, p \in DenyPeers} \cup {Rule(TRUE, {}), Rule(FALSE, {})}
RuleSets == {{}} \cup {{r} : r \in DenyRules}

DenyPolicy(pods, types, in, out) == [kind |-> "NetworkPolicy", ns |-> "a", pods |-> pods, types |-> types,
                                     rules |-> [Ingress |-> in, Egress |-> out]]
DenyPolicies == {DenyPolicy(s, t, i, {}) : s \in Selectors, t \in SUBSET Deny!Directions, i \in RuleSets}
                \cup {DenyPolicy(Selector("empty"), t, {}, o) : t \in SUBSET Deny!Directions, o \in RuleSets}
Workload(ns) == [kind |-> "Workload", ns |-> ns]
Release(ns, target) == [kind |-> "HelmRelease", ns |-> ns, target |-> target]
Reads(docs) == [unparseable |-> FALSE, docs |-> docs]
NoDocs == [unparseable |-> TRUE, docs |-> {}]

ClosesAll == DenyPolicy(Selector("empty"), Deny!Directions, {}, {})
Demanding(e, p, beside) == [exempt |-> {}, requireEgress |-> e, corpus |-> Reads({Workload("a"), p} \cup beside)]
Excepting(x, corpus) == [exempt |-> x, requireEgress |-> {}, corpus |-> corpus]
Owning == {Workload(""), Workload("flux-system"), Release("a", "b"), Release("a", ""),
           DenyPolicy(Selector("empty"), {}, {}, {})}

Demands == {Demanding(e, p, b) : e \in {{}, {"a"}}, p \in DenyPolicies, b \in {{}, {ClosesAll}}}
Exceptions == {Excepting(x, c) : x \in {{}, {[ns |-> "b", reason |-> TRUE]}, {[ns |-> "b", reason |-> FALSE]}},
                                 c \in {NoDocs} \cup {Reads(d) : d \in SUBSET Owning}}
DenyInputs == Demands \cup Exceptions

DefaultDenyRuns == gate = "none" /\ \E in \in DenyInputs : Runs("deny", in, Deny!Verdict(in))

(* What a portless rule lets in, by what its peers mean: anyone, or the    *)
(* pods of any namespace, or a whole address family but for its excepts.   *)
Anyone(s) == ~s.typo /\ {s.labels, s.exprs} \subseteq {"absent", "empty"}
LetsAllIn(peer) ==
    \/ peer.kind = "pods" /\ Anyone(peer.namespaces) /\ Anyone(peer.pods) /\ (peer.namespaces.given \/ ~peer.pods.given)
    \/ /\ peer.kind = "ipBlock" /\ \E v \in {4, 6} : Span(peer.cidr) = Span(Everything(v))
       /\ ~(Span(peer.cidr) \subseteq UNION {Span(c) : c \in Listed(peer.except) \ {peer.cidr}})

Judged(in) == {d \in in.corpus.docs : d.kind = "NetworkPolicy"}
Isolates(p, dir) == /\ p.pods.given /\ Anyone(p.pods)
                    /\ dir \in p.types \/ (p.types = {} /\ (dir = "Ingress" \/ p.rules["Egress"] # {}))

(* If the default-deny gate passes, the pods of every namespace that runs  *)
(* a workload and is not exempt are isolated, and no policy for all of     *)
(* them lets everyone back in: policies add up, so one such rule is enough *)
(* to undo the rest.  The same holds for the egress of the namespaces that *)
(* --require-egress names.  A rule that is no mapping is no rule: the API  *)
(* server refuses it.                                                      *)
DeniedByDefault ==
    gate = "deny" /\ result = 0 =>
        LET Denied(ns, dir) ==
                /\ \E p \in Judged(input) : Deny!DocNamespace(p.ns) = ns /\ Isolates(p, dir)
                /\ \A p \in Judged(input) : Deny!DocNamespace(p.ns) = ns /\ Isolates(p, dir) =>
                    \A r \in p.rules[dir] : r.shape = "map" /\ ~r.ports =>
                        r.peers # {} /\ \A q \in r.peers : ~LetsAllIn(q)
            Owners == {Deny!DocNamespace(d.ns) : d \in {x \in input.corpus.docs : x.kind = "Workload"}}
                      \cup {IF d.target = "" THEN Deny!DocNamespace(d.ns) ELSE d.target :
                               d \in {x \in input.corpus.docs : x.kind = "HelmRelease"}}
            Known == {e.ns : e \in input.exempt} \cup {"flux-system"}
        IN  /\ \A ns \in Owners \ Known : Denied(ns, "Ingress")
            /\ \A ns \in input.requireEgress : Denied(ns, "Egress")

(***************************************************************************)
(* check-scrape-netpol.py                                                  *)
(***************************************************************************)
Labels(labels) == [given |-> TRUE, shape |-> "ok", labels |-> labels, exprs |-> {}]
Expr(key, op, values) == [key |-> key, op |-> op, values |-> values, fields |-> TRUE]
Both(labels, es) == [given |-> TRUE, shape |-> "ok", labels |-> labels, exprs |-> es]
Exprs(es) == [given |-> TRUE, shape |-> "ok", labels |-> {}, exprs |-> es]
OneExpr(key, op, values) == Exprs({Expr(key, op, values)})
Misspelt == [given |-> TRUE, shape |-> "typo", labels |-> {}, exprs |-> {}]

NsName(ns) == <<NameLabel, ns>>
NsLabels == {{NsName(Observability)}, {NsName("x")}, {<<"team", "t">>}, {NsName(Observability), <<"team", "t">>}}
NsMixed == {Exprs({Expr(NameLabel, "In", {Observability}), Expr("team", "Exists", {})}),
            Exprs({[Expr(NameLabel, "In", {Observability}) EXCEPT !.fields = FALSE]}),
            Both({NsName("x")}, {Expr(NameLabel, "In", {Observability})})}
NsSelectors ==
    {Scrape!Absent, Misspelt, Labels({})} \cup NsMixed \cup {Labels(l) : l \in NsLabels}
    \cup {OneExpr(NameLabel, op, v) : op \in {"In", "NotIn"}, v \in {{Observability}, {"x"}, {Observability, "x"}}}
Prometheus == {<<"app", "prometheus">>}
PodSelectors ==
    {Scrape!Absent, Misspelt, Labels({}), Labels(Prometheus), Labels({<<"app", "x">>})}
    \cup {OneExpr("app", op, v) : op \in Scrape!Operators, v \in {{}, {"prometheus"}}}

ScrapeIp(v, len, except) == [kind |-> "ipBlock", cidr |-> Cidr(v, len, 0), except |-> except]
ScrapePeers == [kind : {"pods"}, namespaces : NsSelectors, pods : PodSelectors]
IpPeers == {ScrapeIp(v, len, e) : v \in {4, 6, Egress!Unparseable}, len \in {0, 1}, e \in {"none", "some", "invalid"}}
           \cup {[kind |-> "invalid"]}
IpMates == IpPeers \cup {[kind |-> "pods", namespaces |-> n, pods |-> Labels({<<"app", "x">>})] :
                            n \in {Misspelt, Scrape!Absent, Labels({NsName("x")})}}

ScrapePolicy(pods, types, rules) == [kind |-> "NetworkPolicy", ns |-> "a", pods |-> pods, types |-> types,
                                     hasEgress |-> FALSE, rules |-> rules]
ScrapeRule(peers) == [shape |-> "ok", peers |-> peers]
Closed == ScrapePolicy(Labels({}), {}, {})
NoPort == Scrape!NoPort
Name(id) == [named |-> TRUE, id |-> id]
Number(id) == [named |-> FALSE, id |-> id]
Endpoint(port, number, target) == [port |-> port, portNumber |-> number, targetPort |-> target]
Monitor(kind, names, any, selector, endpoints) ==
    [kind |-> kind, ns |-> "a", matchNames |-> names, any |-> any, selector |-> selector, endpoints |-> endpoints]
Plain == Monitor("ServiceMonitor", {}, FALSE, Scrape!Absent, {})
ScrapeInput(exempt, scraper, docs) == [exempt |-> exempt, badLabel |-> FALSE, scraper |-> scraper, corpus |-> Reads(docs)]

Web == {<<"app", "web">>}
Services == {[kind |-> "Service", ns |-> "a", labels |-> Web, selector |-> s,
              ports |-> {[name |-> Name("http"), target |-> t]}] :
                s \in {{}, Web, Prometheus}, t \in {Name("metrics"), Number("9090")}}
Pods == {[kind |-> "Workload", ns |-> "a", labels |-> Web, ports |-> p] :
            p \in {{}, {Name("metrics"), Number("9090")}, {Name("http"), Number("80")}}}
Endpoints == {Endpoint(p, n, t) : p \in {NoPort, Name("http"), Name("metrics")}, n \in {NoPort, Number("9090")},
                                  t \in {NoPort, Name("metrics"), Number("80")}}

Letting(scraper, wide, peers) == ScrapeInput({}, scraper, {Plain, Closed, ScrapePolicy(wide, {}, {ScrapeRule(peers)})})
PeerSets == {{}} \cup {{p} : p \in ScrapePeers} \cup {{p, q} : p, q \in IpMates}
PeerInputs == {Letting(s, w, ps) : s \in {{}, Prometheus}, w \in {Labels({}), Labels(Web)}, ps \in PeerSets}
Exempting(exempt, m, target, toggle) ==
    ScrapeInput(exempt, {}, {m, Closed, [kind |-> "HelmRelease", ns |-> "a", target |-> target, toggle |-> toggle]})
PodMonitor(n, any) == Monitor("PodMonitor", n, any, Scrape!Absent, {})
Beside == {Closed} \cup {PodMonitor(n, any) : n \in {{}, {"a"}, {"b"}}, any \in BOOLEAN}
Exemptions == {{}, {[ns |-> "a", reason |-> TRUE]}, {[ns |-> "a", reason |-> FALSE]}}
Elsewhere == {"", "b"}
ToggleInputs == {Exempting(x, m, t, g) : x \in Exemptions, m \in Beside, t \in Elsewhere, g \in BOOLEAN}
Scraping(kind, selector, endpoint, services, pods) ==
    ScrapeInput({}, {}, {Monitor(kind, {}, FALSE, selector, {endpoint})} \cup services \cup pods)
UpToTwoServices == {{}} \cup {{x} : x \in Services} \cup {{x, y} : x, y \in Services}
UpToOnePod == {{}} \cup {{x} : x \in Pods}
PortInputs ==
    {Scraping(k, l, e, s, w) :
        k \in Scrape!MonitorKinds, l \in {Scrape!Absent, Labels(Web), Exprs({Expr("app", "Exists", {})})},
        e \in Endpoints, s \in UpToTwoServices, w \in UpToOnePod}
ScrapeInputs == PeerInputs \cup ToggleInputs \cup PortInputs

ScrapeNetpolRuns == gate = "none" /\ \E in \in ScrapeInputs : Runs("scrape", in, Scrape!Verdict(in))

(* A selector as the API server reads it: every requirement must hold, and *)
(* a selector it refuses matches nothing.                                  *)
Holds(labels, key, op, values) ==
    LET own == {l[2] : l \in {m \in labels : m[1] = key}}
    IN  \/ op = "In" /\ own \cap values # {}
        \/ op = "NotIn" /\ own \cap values = {}
        \/ op = "Exists" /\ own # {}
        \/ op = "DoesNotExist" /\ own = {}
Matches(s, labels) == /\ s.shape = "ok"
                      /\ \A l \in s.labels : Holds(labels, l[1], "In", {l[2]})
                      /\ \A e \in s.exprs : e.fields /\ Holds(labels, e.key, e.op, e.values)

(* What else an object may be labelled of which some labels are known. *)
More(known) == {more \in {{}, {<<"team", "t">>}, {<<"team", "u">>}, {<<"tier", "t">>}} :
                    \A l \in more, k \in known : l[1] # k[1]}
MatchesAnyway(s, known) == \A more \in More(known) : Matches(s, known \cup more)
ScrapeNs == {NsName(Observability)}

(* Whether a peer lets in the scraper, of which only the namespace's name  *)
(* and the declared labels are known; any labels may come on top, and if   *)
(* none are declared its pod selector is taken to be meant for it.         *)
LetsScraperIn(peer, scraper) ==
    /\ peer.kind = "pods" /\ peer.namespaces.given /\ MatchesAnyway(peer.namespaces, ScrapeNs)
    /\ (peer.pods # Labels({}) /\ peer.pods.given) =>
        \/ scraper = {} /\ peer.namespaces # Labels({})
        \/ Matches(peer.pods, scraper)

TwoNames(peer) == peer.kind = "pods" /\ \E l \in peer.namespaces.labels : l[1] = NameLabel /\ peer.namespaces.exprs # {}

(* Where Flux puts a document, and which namespaces are scraped: those     *)
(* that a monitor names, and those of the charts that bring monitors.      *)
OfCorpus(kinds) == {d \in input.corpus.docs : d.kind \in kinds}
PutIn(d) == IF d.ns = "" THEN "default" ELSE d.ns
Watched(m) == IF m.matchNames # {} THEN m.matchNames ELSE IF m.any THEN {} ELSE {PutIn(m)}
Monitored ==
    (UNION {Watched(m) : m \in OfCorpus({"ServiceMonitor", "PodMonitor"})})
    \cup {IF h.target # "" THEN h.target ELSE PutIn(h) : h \in {x \in OfCorpus({"HelmRelease"}) : x.toggle}}
Shuts(p) == p.pods = Labels({}) /\ (p.types = {} \/ "Ingress" \in p.types)

(* If the scrape gate passes, every namespace that is scraped, closed by a *)
(* policy for all its pods and not exempt has a rule that lets Prometheus  *)
(* in: one without sources, one whose address blocks leave out nobody, or  *)
(* one with a peer that matches the scraper whatever else it is labelled.  *)
(* Selectors that name the namespace twice are left out here.              *)
ScrapeIsAdmitted ==
    gate = "scrape" /\ result = 0 =>
        \A ns \in (Monitored \cap {PutIn(p) : p \in {q \in Judged(input) : Shuts(q)}}) \ {e.ns : e \in input.exempt} :
            \E p \in Judged(input) : PutIn(p) = ns /\ \E r \in p.rules :
                \/ r.peers = {} /\ p.pods = Labels({})
                \/ \A v \in {4, 6} : ScrapeIp(v, 0, "none") \in r.peers
                \/ \E peer \in r.peers : LetsScraperIn(peer, input.scraper) \/ TwoNames(peer)

(* If it passes, a ServiceMonitor endpoint whose Service is in the corpus  *)
(* reaches a port some pod opens: a Service it selects has the port, and a *)
(* named targetPort behind it is declared by a workload the Service        *)
(* selects, as far as the corpus has one.                                  *)
EndpointsResolve ==
    gate = "scrape" /\ result = 0 =>
        \A m \in OfCorpus({"ServiceMonitor"}), s \in OfCorpus({"Service"}) :
            /\ PutIn(s) \in Watched(m) /\ m.selector.labels \subseteq s.labels
            /\ m.selector.shape = "ok" /\ m.selector.exprs = {}
            => \A e \in m.endpoints : e.port # NoPort =>
                /\ \E t \in OfCorpus({"Service"}) : /\ PutIn(t) = PutIn(s) /\ m.selector.labels \subseteq t.labels
                                                     /\ \E p \in t.ports : p.name = e.port
                /\ \A p \in s.ports : p.name = e.port /\ p.target.named /\ s.selector # {} =>
                    LET pods == {w \in OfCorpus({"Workload"}) : PutIn(w) = PutIn(s) /\ s.selector \subseteq w.labels}
                    IN  pods # {} => p.target \in UNION {w.ports : w \in pods}

(***************************************************************************)
(* check-scrape-wiring.py                                                  *)
(***************************************************************************)
Port(name, number) == [name |-> name, number |-> number]
ByName(name) == Port(name, Wiring!NoNumber)
ByNumber(number) == Port(Wiring!NoName, number)
Nowhere == Wiring!NoPort

WiredPod(ns, labels, ports) == [kind |-> "Workload", ns |-> ns, labels |-> labels, ports |-> ports]
WiredService(ns, selector, ports) == [kind |-> "Service", ns |-> ns, name |-> "s", labels |-> Web,
                                      selector |-> selector, ports |-> ports]
ServicePort(name, target) == [name |-> name, target |-> target]
WiredMonitor(kind, names, any, endpoints) ==
    [kind |-> kind, ns |-> "a", matchNames |-> names, any |-> any, unknownScope |-> FALSE,
     selector |-> Labels(Web), endpoints |-> endpoints]
WiredPolicy(ns, pods, peers, ports) == [kind |-> "NetworkPolicy", ns |-> ns, pods |-> pods, types |-> {},
                                        rules |-> {[peers |-> peers, ports |-> ports]}]
Entry(protocol, port, end) == [protocol |-> protocol, port |-> port, endPort |-> end]
WiredEndpoint(port, number, target) == [port |-> port, portNumber |-> number, targetPort |-> target]
Tree(docs, scraper) == [usage |-> "ok", unreadable |-> FALSE, corpus |-> FALSE, docs |-> docs, namespace |-> "a",
                        fromTree |-> FALSE, scraper |-> scraper]
Corpus(docs) == [Tree(docs, {}) EXCEPT !.corpus = TRUE, !.namespace = Wiring!NoNamespace]

PodA == WiredPod("a", Web, {Port("metrics", 5)})
PodB == WiredPod("a", {<<"app", "web">>, <<"tier", "t">>}, {Port("metrics", 6), Port("", 5)})
ServiceA == WiredService("a", Web, {ServicePort("http", ByName("metrics"))})
ScraperNs == [kind |-> "pods", namespaces |-> Labels({NsName(Observability)}), pods |-> Scrape!Absent]
AllowAll == WiredPolicy("a", Labels({}), {ScraperNs}, {})
Watch(e) == WiredMonitor("ServiceMonitor", {}, FALSE, {e})
ViaHttp == WiredEndpoint(ByName("http"), Nowhere, Nowhere)

WiringPeers == {[kind |-> "pods", namespaces |-> n, pods |-> p] :
                   n \in NsSelectors, p \in {q \in PodSelectors : q.given => Cardinality(q.exprs) < 2}
                        \cup {Exprs({Expr("tier", "DoesNotExist", {})})}}
               \cup {[kind |-> "ipBlock", namespaces |-> Scrape!Absent, pods |-> Scrape!Absent]}
Entries == {Entry(pr, po, e) : pr \in {"TCP", "UDP"}, po \in {Nowhere, ByNumber(4), ByNumber(5), ByName("metrics"), ByName("http")},
                               e \in {Wiring!NoNumber, 5, 6}}
WiredEndpoints == {WiredEndpoint(p, n, t) : p \in {Nowhere, ByName("http"), ByName("metrics")},
                       n \in {Nowhere, ByNumber(6)}, t \in {Nowhere, ByNumber(5), ByName("metrics")}}
HandWritten == {[kind |-> "Endpoints", ns |-> "a", service |-> "s", state |-> st, subsets |-> {[addresses |-> n, ports |-> {p}]}] :
                   st \in {"list", "substitution", "unreadable"}, n \in {0, 1}, p \in {ByName("http"), ByNumber(5), Nowhere}}
Homes == {Wiring!NoNamespace, "a", "b"}

Guarding(pods, scraper, policies) == Tree({Watch(ViaHttp), ServiceA} \cup pods \cup policies, scraper)
Admitting(q, s) == Guarding({PodA}, s, {WiredPolicy("a", Labels({}), {q}, {})})
AdmittingInputs == {Admitting(q, s) : q \in WiringPeers, s \in {{}, Prometheus}}
Opening(l, e) == WiredPolicy("a", l, {ScraperNs}, {e})
OpeningTwice(l, e, f) == Guarding({PodA, PodB}, {}, {Opening(l, e), Opening(l, f)})
OpeningInputs == {OpeningTwice(l, e, f) : l \in {Labels({}), Labels(Web), Labels({<<"tier", "t">>})},
                                          e \in Entries, f \in Entries}
Exposing(services, pods, kind, endpoint) ==
    Tree({WiredMonitor(kind, {}, FALSE, {endpoint}), AllowAll} \cup services \cup pods, {})
OneService(l, t) == {WiredService("a", l, {ServicePort("http", t)})}
TwoServices(l) == {ServiceA, WiredService("a", l, {ServicePort("metrics", ByNumber(5))})}
Exposed == {{}} \cup {OneService(l, t) : l \in {{}, Web, Prometheus}, t \in {Nowhere, ByNumber(6), ByName("metrics")}}
           \cup {TwoServices(l) : l \in {{}, Web, Prometheus}}
ExposingInputs == {Exposing(s, d, k, e) : s \in Exposed, d \in SUBSET {PodA, PodB}, k \in Wiring!MonitorKinds, e \in WiredEndpoints}
Serving(e, h) == Tree({Watch(e), WiredService("a", {}, {}), h}, {})
ByHandInputs == {Serving(e, h) : e \in WiredEndpoints, h \in HandWritten}
PlacedDocs(x, y) == {[kind |-> "Unnamespaced", name |-> "a", ns |-> Wiring!NoNamespace, namespace |-> TRUE],
                     WiredService(x, Web, {ServicePort("http", ByNumber(5))}), WiredPod(x, Web, {ByNumber(5)}),
                     WiredPolicy(y, Labels({}), {ScraperNs}, {})}
InScope(kind, names, any) == {WiredMonitor(kind, names, any, {ViaHttp})}
ScopedMonitors == {{}} \cup {InScope("ServiceMonitor", k, any) : k \in {{}, {"a"}, {"b"}}, any \in BOOLEAN}
Placing(x, y, m, n) == [Tree(PlacedDocs(x, y) \cup m, {}) EXCEPT !.namespace = n, !.fromTree = (n = "tree")]
PlacingInputs == {Placing(x, y, m, n) : x \in Homes, y \in Homes, m \in ScopedMonitors, n \in {Wiring!NoNamespace, "a", "tree"}}
CorpusDocs == {ServiceA, PodA, AllowAll, WiredService("b", Web, {ServicePort("http", ByNumber(5))}),
               WiredPod("b", Web, {Port("http", 5)}), WiredPolicy("b", Labels({}), {}, {})}
Rendering(k, n, any, d) == Corpus(InScope(k, n, any) \cup d)
CorpusInputs == {Rendering(k, n, any, d) : k \in Wiring!MonitorKinds, n \in SUBSET {"a", "b"}, any \in BOOLEAN,
                                           d \in SUBSET CorpusDocs}
Using(u, r, d) == [Tree(d, {}) EXCEPT !.usage = u, !.unreadable = r]
UsageInputs == {Using(u, r, d) : u \in {"ok", "both-given", "no-such-directory"}, r \in BOOLEAN, d \in {{}, {AllowAll}}}
WiringInputs == AdmittingInputs \cup OpeningInputs \cup ExposingInputs \cup ByHandInputs \cup PlacingInputs
                \cup CorpusInputs \cup UsageInputs

ScrapeWiringRuns == gate = "none" /\ \E in \in WiringInputs : Runs("wiring", in, Wiring!Verdict(in))

(* The namespace a document is deployed to, and what Prometheus scrapes of *)
(* a monitor's endpoint: the pods behind every Service it selects that has *)
(* the port, or that it selects itself, with the number each one gives it. *)
Docs(kinds) == {d \in input.docs : d.kind \in kinds}
Placed == {d \in input.docs : d.kind # "Unnamespaced"}
TheOne(names) == IF Cardinality(names) = 1 THEN CHOOSE n \in names : TRUE ELSE ""
Given == IF input.fromTree THEN TheOne({d.name : d \in {x \in Docs({"Unnamespaced"}) : x.namespace}} \ {""}) ELSE input.namespace
HomeOf(d) == IF d.ns # "" THEN d.ns ELSE IF Given # "" THEN Given ELSE TheOne({x.ns : x \in Placed} \ {""})
Reached(m) == IF m.any THEN {HomeOf(d) : d \in Placed} ELSE IF m.matchNames # {} THEN m.matchNames ELSE {HomeOf(m)}
Opens(pod, port) == {p.number : p \in {q \in pod.ports : IF port.name # "" THEN q.name = port.name ELSE q.number = port.number}}
OwnPort(e) == IF e.port # Nowhere THEN e.port ELSE IF e.portNumber # Nowhere THEN e.portNumber ELSE e.targetPort
Behind(s, e, pod) == IF e.port = Nowhere THEN Opens(pod, e.targetPort)
                     ELSE UNION {Opens(pod, p.target) : p \in {q \in s.ports : q.name = e.port.name}}
Between(m, pod) == {s \in Docs({"Service"}) : /\ HomeOf(s) = HomeOf(pod) /\ Matches(m.selector, s.labels)
                                              /\ s.selector # {} /\ s.selector \subseteq pod.labels}
Scrapes(m, e, pod) ==
    IF m.kind = "PodMonitor" THEN IF Matches(m.selector, pod.labels) THEN Opens(pod, OwnPort(e)) ELSE {}
    ELSE UNION {Behind(s, e, pod) : s \in Between(m, pod)}

(* Whether the network lets the scraper, whatever else it is labelled,     *)
(* into a pod on a port number, by the sum of the policies there are.      *)
LetsIn(peer) ==
    /\ peer.kind = "pods" /\ peer.namespaces.given /\ MatchesAnyway(peer.namespaces, ScrapeNs)
    /\ peer.pods.given => MatchesAnyway(peer.pods, input.scraper)
Opened(entry, pod, number) ==
    /\ entry.protocol = "TCP"
    /\ \/ entry.port = Nowhere
       \/ \E p \in pod.ports : p.name # "" /\ p.name = entry.port.name /\ p.number = number
       \/ entry.port.number # 0 /\ number >= entry.port.number
              /\ number <= IF entry.endPort = 0 THEN entry.port.number ELSE entry.endPort
Connects(pod, number) ==
    \E p \in Docs({"NetworkPolicy"}) :
        /\ HomeOf(p) = HomeOf(pod) /\ Matches(p.pods, pod.labels)
        /\ \E r \in p.rules : /\ r.peers = {} \/ \E q \in r.peers : LetsIn(q)
                              /\ r.ports = {} \/ \E e \in r.ports : Opened(e, pod, number)

(* If the wiring gate passes, Prometheus gets through to every pod that a  *)
(* monitor scrapes, on the number this pod gives the port, through a       *)
(* policy of the pod's own namespace.                                      *)
ScrapedPodsAreReached ==
    gate = "wiring" /\ result = 0 =>
        \A m \in Docs(Wiring!MonitorKinds), pod \in Docs({"Workload"}) : HomeOf(pod) \in Reached(m) =>
            \A e \in m.endpoints : \A n \in Scrapes(m, e, pod) : Connects(pod, n)

(* If it passes on a tree, every endpoint has something to scrape: a pod   *)
(* that opens the port or an address written by hand; and no policy of the *)
(* tree still admits the scraper after the last monitor is gone.           *)
EndpointsHaveTargets ==
    gate = "wiring" /\ result = 0 /\ ~input.corpus =>
        /\ \A m \in Docs(Wiring!MonitorKinds) : \A e \in m.endpoints :
            \/ \E pod \in Docs({"Workload"}) : Scrapes(m, e, pod) # {}
            \/ \E h \in Docs({"Endpoints"}) : h.state = "substitution" \/ \E s \in h.subsets : s.addresses > 0
        /\ (\E p \in Docs({"NetworkPolicy"}) : \E r \in p.rules : ScraperNs \in r.peers)
            => Docs(Wiring!MonitorKinds) # {}
=============================================================================
