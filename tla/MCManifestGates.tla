--------------------------- MODULE MCManifestGates ---------------------------
(***************************************************************************)
(* Every gate over rendered manifests: those of MCNetworkGates, and those  *)
(* over autoscalers, Helm releases and Alertmanager's inhibit rules.       *)
(***************************************************************************)
EXTENDS MCNetworkGates

Hpa     == INSTANCE AutoscalerGate
Helm    == INSTANCE HelmValues
Inhibit == INSTANCE AlertInhibits

(***************************************************************************)
(* check-hpa-vpa-invariant.py                                              *)
(***************************************************************************)
Web1 == <<"a", "Deployment", "web">>
Q(n) == [n |-> n, suffix |-> "Mi"]
Odd == [n |-> 6, suffix |-> "weird"]
Needs(cpu, memory) == [cpu |-> cpu, memory |-> memory]
Container(name, requests, limits) == [name |-> name, requests |-> requests, limits |-> limits]
Deployment(key, containers) == [kind |-> "Workload", key |-> key, labels |-> Web, containers |-> containers]
Scaler(metrics, floor) == [kind |-> "HPA", key |-> <<"a", "HPA", "web">>, target |-> Web1,
                           metrics |-> metrics, floor |-> floor]
Metric(name, type) == [name |-> name, type |-> type]
Rightsizer(key, off, policies) == [kind |-> "VPA", key |-> key, target |-> Web1, off |-> off, policies |-> policies]
VpaKey == <<"a", "VPA", "web">>
Budget(exprs, labels, min, max) == [kind |-> "PDB", key |-> <<"a", "PDB", "web">>,
                     selector |-> [exprs |-> exprs, labels |-> labels], minAvailable |-> min, maxUnavailable |-> max]
ScaledBy(key, limit) == [kind |-> "HelmRelease", key |-> key, setsCpuLimit |-> limit]

(* Two containers, so that a policy may name one and miss the other. *)
Free == Needs(Hpa!Missing, Hpa!Missing)
Two(requests, limits) == Deployment(Web1, {Container("c1", requests, limits), Container("c2", Free, limits)})
(* The API server takes no policy without a container name: those only     *)
(* come with the clashes, where such a policy is not a catch-all either.   *)
ContainerPolicies(names, resources, values, caps) ==
    [container : names, off : BOOLEAN, resources : resources, values : values, cap : caps]
UpToTwo(S) == {<<>>} \cup {<<p>> : p \in S} \cup (S \X S)

NoPolicy == [malformed |-> FALSE, cpuLimit |-> {}, memoryRatio |-> {}, cap |-> {}, declared |-> {}, chartNative |-> {}]
Scan(docs) == [requireChartNative |-> TRUE, requireTargets |-> FALSE, allowUnjudged |-> FALSE,
               policy |-> NoPolicy, unparseable |-> FALSE, docs |-> docs]
Excuse(key, reason) == [key |-> key, reason |-> reason]

Amounts == {[type |-> "absent", n |-> 0]} \cup [type : {"int"}, n : 0..2] \cup [type : {"percent"}, n : {0, 50, 100}]
Resizes == {"RequestsAndLimits", "RequestsOnly"}
Clashing(metrics, off, ps) == Scan({Two(Free, Free), Scaler(metrics, 2), Rightsizer(VpaKey, off, ps)})
ClashInputs ==
    {Clashing(metrics, off, ps) :
        metrics \in {{}, {Metric("cpu", "Resource")}, {Metric("memory", "ContainerResource")}, {Metric("cpu", "External")}},
        off \in BOOLEAN, ps \in UpToTwo(ContainerPolicies({"*", "", "c1"}, {Hpa!Unset, {"cpu"}, {"memory"}}, {"RequestsOnly"}, {Hpa!Missing}))}

Limiting(limit, request, ps) == Scan({Two(Needs(Hpa!Missing, request), Needs(Hpa!Missing, limit)), Rightsizer(VpaKey, FALSE, ps)})
CapInputs ==
    {Limiting(limit, Hpa!Missing, ps) :
        limit \in {Q(6), Odd, Hpa!Missing},
        ps \in UpToTwo(ContainerPolicies({"*", "c1"}, {Hpa!Unset}, Resizes, {Hpa!Missing, Q(5), Q(6), Q(7)}))}
RatioInputs ==
    {Limiting(Q(6), request, ps) :
        request \in {Q(5), Q(6), [n |-> 6144, suffix |-> "Ki"]},
        ps \in UpToTwo(ContainerPolicies({"*", "c1"}, {Hpa!Unset, {"cpu"}}, Resizes, {Hpa!Missing}))}

Guarded(floor, budget) == Scan({Two(Free, Free), Scaler({}, floor), budget})
Budgets == {Budget(exprs, labels, min, max) : exprs \in BOOLEAN, labels \in {{}, Web}, min \in Amounts, max \in Amounts}
BudgetInputs == {Guarded(floor, budget) : floor \in 1..2, budget \in Budgets}

Targeted(cpu) == Scan({Two(Free, Needs(cpu, Q(6))), Rightsizer(VpaKey, FALSE, <<>>), ScaledBy(<<"a", "Other", "r">>, cpu = Q(1))})
Excuses ==
    {[NoPolicy EXCEPT !.cpuLimit = x, !.chartNative = n, !.cap = v] :
        x \in {{}, {Excuse(Web1, TRUE), Excuse(<<"a", "Other", "r">>, TRUE)}, {Excuse(Web1, FALSE)}},
        n \in SUBSET {Web1}, v \in {{}, {Excuse(VpaKey, TRUE)}, {Excuse(Web1, TRUE)}}}
Required(in, targets, native, p) == [in EXCEPT !.requireTargets = targets, !.requireChartNative = native, !.policy = p]
ExcuseInputs == {Required(Targeted(cpu), t, c, p) : cpu \in {Hpa!Missing, Q(1)}, t \in BOOLEAN, c \in BOOLEAN, p \in Excuses}

Lonely == Rightsizer(VpaKey, FALSE, <<[container |-> "*", off |-> FALSE, resources |-> {"memory"}, values |-> "RequestsOnly", cap |-> Q(6)]>>)
Declarations ==
    {[NoPolicy EXCEPT !.declared = d, !.malformed = m] :
        m \in BOOLEAN, d \in {{}} \cup {{[target |-> Web1, container |-> "c1", limit |-> l]} : l \in {Q(5), Q(7), Odd}}}
Untargeted(unjudged, bad, p) ==
    [Scan({Lonely}) EXCEPT !.requireTargets = TRUE, !.allowUnjudged = unjudged, !.unparseable = bad, !.policy = p]
DeclaredInputs == {Untargeted(u, bad, p) : u \in BOOLEAN, bad \in BOOLEAN, p \in Declarations}

HpaInputs == ClashInputs \cup CapInputs \cup RatioInputs \cup BudgetInputs \cup ExcuseInputs \cup DeclaredInputs

AutoscalerGateRuns == gate = "none" /\ \E in \in HpaInputs : Runs("autoscaler", in, Hpa!Verdict(in))

(* What a VPA does to a container: the policy that names it decides, else  *)
(* the first catch-all, else both resources and the limits are moved.      *)
Everywhere == [container |-> "*", off |-> FALSE, resources |-> Hpa!Resources, values |-> "RequestsAndLimits", cap |-> Hpa!Missing]
Effective(v, c) ==
    LET Nth(names) == {i \in DOMAIN v.policies : v.policies[i].container \in names}
        Pick(I) == v.policies[CHOOSE i \in I : \A j \in I : i <= j]
    IN  IF Nth({c.name}) # {} THEN Pick(Nth({c.name}))
        ELSE IF Nth({"*"}) # {} THEN Pick(Nth({"*"})) ELSE Everywhere
Moves(v, c, resource) ==
    LET p == Effective(v, c)
    IN  ~v.off /\ ~p.off /\ resource \in (IF p.resources = Hpa!Unset THEN Hpa!Resources ELSE p.resources)
MovesLimit(v, c) == Moves(v, c, "memory") /\ Effective(v, c).values # "RequestsOnly"
Scanned(kind) == {d \in input.docs : d.kind = kind}
ContainersOf(target) == UNION {w.containers : w \in {x \in Scanned("Workload") : x.key = target}}
Scales(h) == IF h.metrics = {} THEN {"cpu"} ELSE {m.name : m \in {x \in h.metrics : x.type # "External"}}

(* If the autoscaler gate passes, no HPA scales on a resource that a VPA   *)
(* moves in any container of the same workload.                            *)
NoTugOfWar ==
    gate = "autoscaler" /\ result = 0 =>
        \A h \in Scanned("HPA"), v \in Scanned("VPA") : h.target = v.target =>
            \A c \in ContainersOf(v.target), r \in Scales(h) : ~Moves(v, c, r)

(* The cap keeps what the VPA asks for within the container's limit, and   *)
(* below it where the VPA takes the limit along.                           *)
CapBinds(v, c) ==
    LET cap == Effective(v, c).cap
        limit == c.limits.memory
    IN  Moves(v, c, "memory") /\ cap.suffix = "Mi" /\ limit.suffix = "Mi" =>
            cap.n <= limit.n /\ (MovesLimit(v, c) => cap.n < limit.n)

(* If the gate passes with its chart-native checks, every cap of a VPA     *)
(* that is not excused binds against the container it applies to.          *)
CapsBind ==
    gate = "autoscaler" /\ result = 0 /\ input.requireChartNative =>
        \A v \in Scanned("VPA") : ~(\E e \in input.policy.cap : e.key = v.key) =>
            \A c \in ContainersOf(v.target) : CapBinds(v, c)

(* If it passes so, no container whose memory limit a VPA moves, of no     *)
(* excused workload, starts with its request at the limit: it would never  *)
(* gain headroom.                                                          *)
HeadroomRemains ==
    gate = "autoscaler" /\ result = 0 /\ input.requireChartNative =>
        \A v \in Scanned("VPA") : ~(\E e \in input.policy.memoryRatio : e.key = v.target) => \A c \in ContainersOf(v.target) :
            MovesLimit(v, c) /\ Hpa!Readable(c.limits.memory) /\ Hpa!Readable(c.requests.memory) =>
                Hpa!Quantity(c.requests.memory) # Hpa!Quantity(c.limits.memory)

(* A budget for the pods of a workload, found by its labels alone. *)
Guards(b, w) == ~b.selector.exprs /\ b.selector.labels # {} /\ b.selector.labels \subseteq w.labels /\ b.key[1] = w.key[1]

(* If the gate passes, the pods of an HPA at its floor can be evicted, one *)
(* at least, by what the API server grants: it rounds percentages up.      *)
NodesDrain ==
    gate = "autoscaler" /\ result = 0 =>
        \A h \in Scanned("HPA"), b \in Scanned("PDB") :
            h.floor < 2 /\ (\E w \in Scanned("Workload") : w.key = h.target /\ Guards(b, w)) =>
                LET Up(a) == IF a.type = "int" THEN a.n ELSE (h.floor * a.n + 99) \div 100
                IN  /\ b.minAvailable.type # "absent" => Up(b.minAvailable) < h.floor
                    /\ b.maxUnavailable.type # "absent" => Up(b.maxUnavailable) > 0

(***************************************************************************)
(* validate-helm-values.py                                                 *)
(***************************************************************************)
Key(ns, kind) == <<ns, kind, "web">>
Rendered(ns, cpu) == [Deployment(Key(ns, "Deployment"), {Container("c1", Free, Needs(cpu, Q(6)))}) EXCEPT !.labels = {}]
Capped(ns, cap, values) == [Rightsizer(Key(ns, "VPA"), FALSE,
    <<[container |-> "*", off |-> FALSE, resources |-> Hpa!Unset, values |-> values, cap |-> cap]>>)
    EXCEPT !.target = Key(ns, "Deployment")]
Text(keys, unsupported, parses) == [keys |-> keys, unsupported |-> unsupported, parses |-> parses]
Chart(target, own, rendered, beside) ==
    [text |-> Text({"chart_version"}, FALSE, TRUE), keys |-> TRUE, readable |-> TRUE, release |-> TRUE,
     override |-> FALSE, source |-> "repo", targetNamespace |-> target, namespace |-> own,
     valuesFrom |-> FALSE, version |-> TRUE, add |-> "ok", template |-> "ok", kubeconform |-> "ok",
     rendered |-> rendered, beside |-> {[parses |-> TRUE, docs |-> beside]}]
Renders(releases) == [tools |-> {"helm", "kubeconform"}, conform |-> TRUE, policy |-> NoPolicy,
                      versions |-> {"chart_version"}, sources |-> {[parses |-> TRUE, names |-> {"repo"}]},
                      update |-> "ok", releases |-> releases]
Ends == {"ok", "fails", "timeout"}
Sound == Chart("", "a", {Rendered("", Hpa!Missing)}, {Capped("a", Q(5), "RequestsAndLimits")})
Reading(t) == [Sound EXCEPT !.text = t]
Ending(add, template, kubeconform) == [Sound EXCEPT !.add = add, !.template = template, !.kubeconform = kubeconform]
Sourced(source, override, release) == [Sound EXCEPT !.source = source, !.override = override, !.release = release]
Holding(valuesFrom, version, keys, readable) ==
    [Sound EXCEPT !.valuesFrom = valuesFrom, !.version = version, !.keys = keys, !.readable = readable]
Ailing ==
    {Reading(t) : t \in [keys : SUBSET {"chart_version", "gone"}, unsupported : BOOLEAN, parses : BOOLEAN]}
    \cup {Ending(a, t, k) : a \in Ends, t \in Ends, k \in Ends}
    \cup {Sourced(s, o, r) : s \in {"repo", "lost"}, o \in BOOLEAN, r \in BOOLEAN}
    \cup {Holding(f, v, k, x) : f \in BOOLEAN, v \in BOOLEAN, k \in BOOLEAN, x \in BOOLEAN}
Placings == {"", "a", "b", "default"}
Targets == {"", "a"}
Owners == {"", "b"}
Apps == {Rendered(ns, cpu) : ns \in Targets, cpu \in {Hpa!Missing, Q(1)}}
Vpas == {Capped(ns, cap, values) : ns \in Placings, cap \in {Hpa!Missing, Q(5), Q(6), Q(7)}, values \in Resizes}
Charting(target, own, app, vpa) == Chart(target, own, {app}, {vpa})
Charts == {Charting(t, o, app, vpa) : t \in Targets, o \in Owners, app \in Apps, vpa \in Vpas}
Excused(key) == SUBSET {Excuse(key, TRUE)}
Excusing(rel, cpuLimit, cap) == [Renders({rel}) EXCEPT !.policy.cpuLimit = cpuLimit, !.policy.cap = cap]
Equipped(tools, conform, update, versions, sources) ==
    [Renders({Sound}) EXCEPT !.tools = tools, !.conform = conform, !.update = update, !.versions = versions, !.sources = sources]
ReleaseInputs ==
    {Excusing(rel, x, y) : rel \in Charts, x \in Excused(Web1), y \in Excused(VpaKey)}
ToolInputs ==
    {Equipped(t, c, u, v, s) :
        t \in SUBSET {"helm", "kubeconform"}, c \in BOOLEAN, u \in Ends, v \in SUBSET {"chart_version"},
        s \in SUBSET {[parses |-> TRUE, names |-> {"repo"}], [parses |-> FALSE, names |-> {}]}}
FailingInputs == {Renders({Sound, r}) : r \in Ailing}
HelmInputs == ReleaseInputs \cup FailingInputs \cup ToolInputs \cup {Renders({})}

HelmValuesRuns == gate = "none" /\ \E in \in HelmInputs : Runs("helm", in, Helm!Verdict(in))

(* Where Flux puts an object of a release: the namespace it states, else   *)
(* the target namespace, else the HelmRelease's own.                       *)
Lands(rel, key) ==
    LET homes == <<key[1], rel.targetNamespace, rel.namespace, "default">>
        home == CHOOSE i \in 1..4 : homes[i] # "" /\ \A j \in 1..i - 1 : homes[j] = ""
    IN  <<homes[home], key[2], key[3]>>

(* If the release gate passes, then in what Flux installs no container has *)
(* a CPU limit that is not excused for the workload's real namespace, and  *)
(* every cap of a VPA kept beside the release binds against the limits the *)
(* chart renders.                                                          *)
InstalledCapsBind ==
    gate = "helm" /\ result = 0 =>
        \A rel \in input.releases :
            LET installed == {w \in rel.rendered : w.kind = "Workload"} IN
            /\ \A w \in installed : ~(\E e \in input.policy.cpuLimit : e.key = Lands(rel, w.key)) =>
                    \A c \in w.containers : c.limits.cpu = Hpa!Missing
            /\ \A f \in rel.beside : \A v \in {d \in f.docs : d.kind = "VPA" /\ f.parses} : ~(\E e \in input.policy.cap : e.key = Lands(rel, v.key)) =>
                    \A w \in installed : Lands(rel, w.key) = Lands(rel, v.target) => \A c \in w.containers : CapBinds(v, c)

(***************************************************************************)
(* check-alertmanager-behaviour.py                                         *)
(***************************************************************************)
M(label, op, vals, form) == [label |-> label, op |-> op, vals |-> vals, form |-> form]
Warn == <<"Disk">>
Crit == <<"Disk", "Critical">>
Oth  == <<"Job", "Slow">>
OthCrit == <<"Job", "Critical", "Slow">>
Matchers == {M("alertname", "=", {Crit}, "exact"), M("alertname", "=", {Warn}, "exact"),
             M("alertname", "=~", {Crit, OthCrit}, "plain"), M("alertname", "=~", {Warn, Oth}, "plain"),
             M("alertname", "!=", {Warn}, "exact"), M("alertname", "=~", {Warn}, "regex"),
             M("severity", "=", {<<"critical">>}, "exact"), M("severity", "!=", {<<"info">>}, "exact"),
             M("team", "=~", {<<"disk">>}, "regex"), M("team", "=", {}, "broken")}
Sides == {{m} : m \in Matchers} \cup {{m, n} : m \in Matchers, n \in Matchers}
Silences(source, target, equal) == [source |-> source, target |-> target, equal |-> equal]
AlertRule(alert, labels, by) == [alert |-> alert, labels |-> labels, expr |-> [by |-> by, selects |-> {}]]
Sev(s) == <<"severity", <<s>>>>
Corpora == {<<AlertRule(Warn, {Sev("warning")}, {}), AlertRule(Crit, {Sev("critical")}, {})>>,
            <<AlertRule(Warn, {Sev("warning"), <<"team", <<"disk">>>>}, {{"ns"}}), AlertRule(Crit, {Sev("critical")}, {}),
              AlertRule(Oth, {}, {{"job"}})>>,
            <<AlertRule(Oth, {Sev("warning")}, {{"ns", "job"}}), AlertRule(OthCrit, {Sev("critical")}, {{"job"}})>>}
Case1 == [want |-> "pager", labels |-> TRUE, names |-> {}, resolved |-> <<"pager">>]
Escalations == [malformed |-> FALSE, cases |-> {Case1}, equal |-> {"ns"}, suffixes |-> {"Critical"}, markers |-> {"Slow"},
                pairs |-> {}, exceptions |-> {}, upstream |-> {Warn, Crit}, synthetic |-> {}, parity |-> {}, corpora |-> {}]
Extracted(rules, inhibits) == [ready |-> TRUE, config |-> Escalations, extracted |-> TRUE, rules |-> rules, inhibits |-> inhibits]
Pair(c, w, equal) == [critical |-> c, warning |-> w, equal |-> equal]
ByName1 == Silences({M("alertname", "=", {Crit}, "exact")}, {M("alertname", "=", {Warn}, "exact")}, {"ns"})
Configured(p, x, u, k) == [Escalations EXCEPT !.pairs = p, !.exceptions = x, !.upstream = u, !.cases = k]
Paired(rules, is, p, x, u, k) == [Extracted(rules, is) EXCEPT !.config = Configured(p, x, u, k)]
PairChoices == {{}, {Pair(Crit, Warn, {})}, {Pair(Crit, Warn, {"job"})}, {Pair(Crit, Oth, {})}}
ExceptionChoices == {{}, {Pair(Crit, Warn, {})}, {Pair(OthCrit, Oth, {})}}
CaseChoices == {{}, {Case1}, {[Case1 EXCEPT !.resolved = <<"mail">>]}, {[Case1 EXCEPT !.resolved = <<"fails">>]},
                {[Case1 EXCEPT !.names = {Warn}]}}
SilenceInputs ==
    {Extracted(rules, {Silences(source, target, equal)}) :
        rules \in Corpora, source \in Sides, target \in Sides, equal \in {{"ns"}, {"job", "ns"}}}
Critical == {M("severity", "=", {<<"critical">>}, "exact")}
Scoped(rules, target, equal) == Extracted(rules, {ByName1, Silences(Critical, target, equal)})
ScopeInputs ==
    {Scoped(rules, target, equal) :
        rules \in Corpora, target \in Sides, equal \in {{}, {"job"}, {"ns"}, {"alertname", "ns"}, {"severity"}}}
PairInputs ==
    {Paired(rules, is, p, x, u, k) :
        rules \in Corpora, is \in {{}, {ByName1}}, p \in PairChoices, x \in ExceptionChoices,
        u \in {{}, {Warn, Crit}}, k \in CaseChoices}
InhibitInputs == SilenceInputs \cup ScopeInputs \cup PairInputs

AlertInhibitsRuns == gate = "none" /\ \E in \in InhibitInputs : Runs("inhibits", in, Inhibit!Verdict(in))

(* A matcher set as Alertmanager reads it: ANDed, anchored, and a label    *)
(* the alert lacks is the empty value.                                     *)
Labelled(name, labels) == labels \cup {<<"alertname", name>>}
Satisfies(labels, m) ==
    LET found == {p[2] : p \in {q \in labels : q[1] = m.label}} \cup IF \E q \in labels : q[1] = m.label THEN {} ELSE {<<>>}
    IN  m.form # "broken" /\ (found \subseteq m.vals <=> m.op \in {"=", "=~"})
Selects(side, labels) == \A m \in side : Satisfies(labels, m)
AllRules == Listed(input.rules) \cup UNION {Listed(c.rules) : c \in input.config.corpora}
Instances(name) == LET rs == {r \in AllRules : r.alert = name}
                   IN  {Labelled(name, r.labels) : r \in rs} \cup IF rs = {} THEN {Labelled(name, {})} ELSE {}
Severity(name, s) == \E r \in AllRules : r.alert = name /\ Sev(s) \in r.labels

(* A side that names alerts, none of which satisfies all it says of names. *)
Contradicts(side) ==
    LET naming == {m \in side : m.label = "alertname"}
        pins == {m \in naming : m.op \in {"=", "=~"}}
    IN  pins # {} /\ \A n \in UNION {m.vals : m \in pins} : ~Selects(naming, Labelled(n, {}))

(* What follows what: a name that has a suffix more than the other, maybe  *)
(* in the place of the marker that ends the other or before it.            *)
Follows(c, w) ==
    \E s \in input.config.suffixes :
        \/ c = Append(w, s)
        \/ /\ Len(w) > 1 /\ w[Len(w)] \in input.config.markers
           /\ Len(c) \in {Len(w), Len(w) + 1}
           /\ c[Len(w)] = s /\ \A k \in 1..Len(w) - 1 : c[k] = w[k]
           /\ Len(c) > Len(w) => c[Len(c)] = w[Len(w)]

(* The escalations: those the configuration declares, and the others that  *)
(* the names and the severities show.                                      *)
Declared == {Pair(p.critical, p.warning, IF p.equal = {} THEN input.config.equal ELSE p.equal) : p \in input.config.pairs}
Shown ==
    LET known == {r.alert : r \in AllRules} \ {<<>>}
    IN  {p \in [critical : known, warning : known, equal : {input.config.equal}] :
            /\ p.critical # p.warning /\ Follows(p.critical, p.warning)
            /\ Severity(p.critical, "critical") /\ Severity(p.warning, "warning")
            /\ \A q \in Declared : <<q.critical, q.warning>> # <<p.critical, p.warning>>}

(* If the inhibit gate passes, then for every escalation that is not       *)
(* excepted one inhibit rule lets the critical alert mute its warning, and *)
(* only where they agree on the labels that name the object: nobody is     *)
(* paged twice.  Sides that contradict themselves are left out.            *)
PagesOnce ==
    gate = "inhibits" /\ result = 0 =>
        \A p \in {q \in Declared \cup Shown : \A x \in input.config.exceptions :
                                             <<x.critical, x.warning>> # <<q.critical, q.warning>>} :
            \E i \in input.inhibits :
                \/ Contradicts(i.source) \/ Contradicts(i.target)
                \/ /\ "alertname" \notin i.equal /\ p.equal \subseteq i.equal
                   /\ \E l \in Instances(p.critical) : Selects(i.source, l)
                   /\ \E l \in Instances(p.warning) : Selects(i.target, l)

(* If it passes, no alert of the corpus that a rule without a name in its  *)
(* target mutes lacks all the labels it is to agree on: two absent labels  *)
(* are equal, so every source would mute it, whatever object it is about.  *)
NothingMutedForever ==
    gate = "inhibits" /\ result = 0 =>
        \A i \in input.inhibits, r \in Listed(input.rules) :
            /\ r.alert # <<>> /\ i.equal # {} /\ \A m \in i.target : m.label = "alertname" => m.op \in {"!=", "!~"}
            /\ Selects(i.target, Labelled(r.alert, r.labels))
            => \E l \in i.equal : \/ l = "alertname" \/ \E p \in r.labels : p[1] = l
                                  \/ r.expr.by = {} \/ \E g \in r.expr.by : l \in g

(***************************************************************************)
(* What green does not rest on.                                            *)
(***************************************************************************)
StreamsAreRead ==
    /\ \A s \in input.streams : /\ s.state \notin {"missing", "unreadable", "bad-yaml"}
                                 /\ s.state = "bad-json" => ~s.pointedAt /\ ~s.looksLikeManifest
    /\ \E p \in UNION {s.docs : s \in {x \in input.streams : x.state = "read"}} : p.kind = "NetworkPolicy"

(* No gate passes over a part of its input it could not read, or over an   *)
(* input that lacks what it cannot do without: a policy for the egress     *)
(* gate, a workload or a release for the default-deny gate, a monitor or a *)
(* chart that brings one for the scrape gate, a release that renders, a    *)
(* routing case and an inhibit rule, and for the wiring and the autoscaler *)
(* gates any document at all.  Two things are passed over on purpose: a    *)
(* JSON file that was only walked onto and does not look like a manifest,  *)
(* and a file beside a release that does not parse.                        *)
PartsAreRead ==
    gate \in {"egress", "deny", "scrape", "wiring", "autoscaler", "helm", "inhibits"} /\ result = 0 =>
        /\ gate = "egress" => StreamsAreRead
        /\ gate \in {"deny", "scrape"} => ~input.corpus.unparseable
        /\ gate = "deny" => \E d \in input.corpus.docs : d.kind \in {"Workload", "HelmRelease"}
        /\ gate = "scrape" => \E d \in input.corpus.docs :
                                  (d.kind \in {"ServiceMonitor", "PodMonitor"} \/ (d.kind = "HelmRelease" /\ d.toggle))
        /\ gate = "wiring" => ~input.unreadable /\ input.docs # {}
        /\ gate = "autoscaler" => ~input.unparseable /\ input.docs # {}
        /\ gate = "helm" => input.releases # {} /\ \A rel \in input.releases : rel.template = "ok" /\ ~rel.text.unsupported
        /\ gate = "inhibits" => input.config.cases # {} /\ input.inhibits # {}

Bounded(target) == \/ \E c \in ContainersOf(target) : c.limits.memory # Hpa!Missing
                   \/ \E x \in input.policy.declared : x.target = target

(* The wiring gate passes without a monitor, and the autoscaler gate       *)
(* without an autoscaler, only where the manifests ask for neither.  A     *)
(* policy that names the scraper's namespace needs a monitor somewhere,    *)
(* and in a tree one that reaches its own namespace.  With the flags that  *)
(* require it, a VPA's memory cap that is not excused needs a limit to be  *)
(* held against, rendered or declared for its target, and an autoscaler's  *)
(* target has to be rendered or listed; a target with a limit for another  *)
(* of its containers only counts as judged.                                *)
MeantIsJudged ==
    /\ gate = "wiring" /\ result = 0 =>
        \A p \in {x \in Docs({"NetworkPolicy"}) : \E r \in x.rules : ScraperNs \in r.peers} :
            \E m \in Docs(Wiring!MonitorKinds) : input.corpus \/ HomeOf(p) \in Reached(m)
    /\ gate = "autoscaler" /\ result = 0 /\ input.requireChartNative /\ ~input.allowUnjudged =>
        \A v \in Scanned("VPA") :
            (\E i \in DOMAIN v.policies : Hpa!Readable(v.policies[i].cap)) /\ ~(\E e \in input.policy.cap : e.key = v.key)
            => Bounded(v.target)
    /\ gate = "autoscaler" /\ result = 0 /\ input.requireTargets =>
        \A d \in Scanned("HPA") \cup Scanned("VPA") : d.target[2] # "Other" =>
            \/ \E w \in Scanned("Workload") : w.key = d.target
            \/ d.target \in input.policy.chartNative
            \/ \E x \in input.policy.declared : x.target = d.target

(* The two together. *)
GreenIsGrounded == PartsAreRead /\ MeantIsJudged
=============================================================================
