-------------------------- MODULE ManifestGateProofs --------------------------
(***************************************************************************)
(* What the gates over rendered manifests, charts and alerting rules       *)
(* promise, for every input: their verdicts taken apart by the lemmas      *)
(* named for what they promise.  GateProofs builds its theorems on them.   *)
(***************************************************************************)
EXTENDS MCManifestGates, TLAPS, WellFoundedInduction, FiniteSetTheorems

LEMMA LeastOf ==
    ASSUME NEW S \in SUBSET Nat, S # {}
    PROVE  \E i \in S : \A j \in S : i <= j
  <1>1. PICK i \in S : \A j \in S : ~(<<j, i>> \in OpToRel(<, Nat))
    BY NatLessThanWellFounded, WFMin
  <1>2. \A j \in S : ~(j < i)
    BY <1>1 DEF OpToRel
  <1> QED
    BY <1>2

-----------------------------------------------------------------------------
(* No part that could not be read is green. *)

LEMMA EgressReads ==
    ASSUME NEW in, Egress!Verdict(in, Builtin) = 0
    PROVE  /\ \A s \in in.streams : /\ s.state \notin {"missing", "unreadable", "bad-yaml"}
                                     /\ s.state = "bad-json" => ~s.pointedAt /\ ~s.looksLikeManifest
           /\ \E p \in UNION {s.docs : s \in {x \in in.streams : x.state = "read"}} : p.kind = "NetworkPolicy"
  <1> DEFINE Held(s) == IF s.state = "read" THEN s.docs ELSE {}
  <1>1. /\ \A s \in in.streams : ~Egress!StreamError(s)
        /\ \E s \in in.streams : Egress!Policies(Held(s)) # {}
    BY DEF Egress!Verdict
  <1>2. PICK s \in in.streams : Egress!Policies(Held(s)) # {}
    BY <1>1
  <1>3. PICK p \in Held(s) : p.kind = "NetworkPolicy"
    BY <1>2 DEF Egress!Policies
  <1>4. s.state = "read" /\ p \in s.docs
    BY <1>3
  <1> QED
    BY <1>1, <1>3, <1>4 DEF Egress!StreamError

LEMMA DenyReads ==
    ASSUME NEW in, Deny!Verdict(in) = 0
    PROVE  ~in.corpus.unparseable /\ \E d \in in.corpus.docs : d.kind \in {"Workload", "HelmRelease"}
  <1>1. ~Deny!CorpusUnusable(in.corpus) /\ Deny!WorkloadNamespaces(in.corpus.docs) # {}
    BY DEF Deny!Verdict
  <1>2. \E d \in in.corpus.docs : d.kind \in {"Workload", "HelmRelease"}
    BY <1>1 DEF Deny!WorkloadNamespaces
  <1> QED
    BY <1>1, <1>2 DEF Deny!CorpusUnusable

LEMMA ScrapeReads ==
    ASSUME NEW in, Scrape!Verdict(in) = 0
    PROVE  /\ ~in.corpus.unparseable
           /\ \E d \in in.corpus.docs :
                 d.kind \in {"ServiceMonitor", "PodMonitor"} \/ (d.kind = "HelmRelease" /\ d.toggle)
  <1>1. ~Scrape!CorpusUnusable(in.corpus) /\ Scrape!Scraped(in.corpus.docs) # {}
    BY DEF Scrape!Verdict
  <1> QED
    BY <1>1 DEF Scrape!CorpusUnusable, Scrape!Scraped, Scrape!Kind, Scrape!MonitorKinds

LEMMA WiringReads ==
    ASSUME NEW in, Wiring!Verdict(in) = 0
    PROVE  ~in.unreadable /\ in.docs # {}
  BY DEF Wiring!Verdict, Wiring!GateError

LEMMA AutoscalerReads ==
    ASSUME NEW in, Hpa!Verdict(in) = 0
    PROVE  ~in.unparseable /\ in.docs # {} /\ ~Hpa!Failed(in)
  BY DEF Hpa!Verdict

LEMMA HelmReads ==
    ASSUME NEW in, Helm!Verdict(in) = 0
    PROVE  /\ in.releases # {} /\ \A rel \in in.releases : Helm!ReleaseIsValid(rel, in)
           /\ \A rel \in in.releases : rel.template = "ok" /\ ~rel.text.unsupported
  <1>1. Helm!Ready(in) /\ \A rel \in in.releases : Helm!ReleaseIsValid(rel, in)
    BY DEF Helm!Verdict
  <1> QED
    BY <1>1 DEF Helm!Ready, Helm!ReleasesRefused, Helm!ReleaseIsValid

LEMMA InhibitReads ==
    ASSUME NEW in, Inhibit!Verdict(in) = 0
    PROVE  in.config.cases # {} /\ in.inhibits # {}
  <1> DEFINE known == Inhibit!KnownAlertnames(Inhibit!WithCorpora(in.rules, in.config.corpora))
  <1>1. ~Inhibit!ConfigRefused(in.config) /\ ~Inhibit!InhibitProblem(in.inhibits, known \cup in.config.upstream)
    BY DEF Inhibit!Verdict
  <1> HIDE DEF known
  <1> QED
    BY <1>1 DEF Inhibit!ConfigRefused, Inhibit!InhibitProblem

-----------------------------------------------------------------------------
(* check-hpa-vpa-invariant.py. *)

GoodScaler(h) ==
    /\ Hpa!Named(h.target) /\ h.floor \in Nat
    /\ \A m \in h.metrics : /\ m.type \in {"Resource", "ContainerResource", "External"}
                            /\ m.type = "External" \/ m.name \in Hpa!Resources
GoodVpa(v) ==
    /\ Hpa!Named(v.target)
    /\ \E n \in Nat : DOMAIN v.policies = 1..n /\ \A i \in 1..n : v.policies[i].cap.n \in Nat
GoodContainer(c) ==
    c.name \notin {"", "*"} /\ (Hpa!Readable(c.limits.memory) => c.limits.memory.n \in Nat \ {0})
GoodAmount(a) == a.type \in {"absent", "int", "percent"} /\ a.n \in Nat
GoodBudget(b) == GoodAmount(b.minAvailable) /\ GoodAmount(b.maxUnavailable)

\* What a cluster can hold; a policy without a container name, which the API server
\* refuses, only beside containers without memory limits.
GoodDocs(docs) ==
    /\ \A d \in docs : /\ d.kind = "HPA" => GoodScaler(d)
                       /\ d.kind = "VPA" => GoodVpa(d)
                       /\ d.kind = "PDB" => GoodBudget(d)
                       /\ d.kind = "Workload" => \A c \in d.containers : GoodContainer(c)
    /\ \/ \A v \in docs : v.kind = "VPA" => \A i \in DOMAIN v.policies : v.policies[i].container # ""
       \/ \A w \in docs : w.kind = "Workload" => \A c \in w.containers : ~Hpa!Readable(c.limits.memory)

\* The policy that holds for a container: the first that names it, else the first
\* catch-all, else the default.
NthFor(v, name) == {i \in DOMAIN v.policies : v.policies[i].container \in {name}}

FirstPolicy(v, name, p) ==
    \E k \in DOMAIN v.policies : /\ p = v.policies[k] /\ p.container = name /\ p.cap.n \in Nat
                                 /\ \A j \in 1..k - 1 : v.policies[j].container # name

LEMMA FirstOf ==
    ASSUME NEW v, GoodVpa(v), NEW name, NthFor(v, name) # {}
    PROVE  FirstPolicy(v, name, v.policies[CHOOSE i \in NthFor(v, name) : \A j \in NthFor(v, name) : i <= j])
  <1>1. PICK n \in Nat : DOMAIN v.policies = 1..n /\ \A i \in 1..n : v.policies[i].cap.n \in Nat
    BY DEF GoodVpa
  <1>2. NthFor(v, name) \in SUBSET Nat
    BY <1>1 DEF NthFor
  <1>3. \E i \in NthFor(v, name) : \A j \in NthFor(v, name) : i <= j
    BY <1>2, LeastOf
  <1> DEFINE k == CHOOSE i \in NthFor(v, name) : \A j \in NthFor(v, name) : i <= j
  <1>4. k \in NthFor(v, name) /\ \A j \in NthFor(v, name) : k <= j
    BY <1>3
  <1> HIDE DEF k
  <1>5. k \in 1..n /\ v.policies[k].container = name
    BY <1>1, <1>4 DEF NthFor
  <1>6. \A j \in 1..k - 1 : j \in DOMAIN v.policies /\ ~(k <= j)
    BY <1>1, <1>5
  <1>7. \A j \in 1..k - 1 : v.policies[j].container # name
    BY <1>4, <1>6 DEF NthFor
  <1>8. FirstPolicy(v, name, v.policies[k])
    BY <1>1, <1>5, <1>7 DEF FirstPolicy
  <1> QED
    BY <1>8 DEF k

LEMMA EffectiveIsFirst ==
    ASSUME NEW v, GoodVpa(v), NEW c
    PROVE  \/ FirstPolicy(v, c.name, Effective(v, c))
           \/ NthFor(v, c.name) = {} /\ FirstPolicy(v, "*", Effective(v, c))
           \/ NthFor(v, c.name) = {} /\ NthFor(v, "*") = {} /\ Effective(v, c) = Everywhere
  <1> DEFINE Least(name) == CHOOSE i \in NthFor(v, name) : \A j \in NthFor(v, name) : i <= j
  <1>1. Effective(v, c) = IF NthFor(v, c.name) # {} THEN v.policies[Least(c.name)]
                          ELSE IF NthFor(v, "*") # {} THEN v.policies[Least("*")] ELSE Everywhere
    BY DEF Effective, NthFor
  <1>2. ASSUME NEW name, NthFor(v, name) # {} PROVE FirstPolicy(v, name, v.policies[Least(name)])
    BY <1>2, FirstOf
  <1> HIDE DEF Least
  <1> QED
    BY <1>1, <1>2

LEMMA MovedIsDriven ==
    ASSUME NEW v, GoodVpa(v), NEW c, NEW r, Moves(v, c, r)
    PROVE  ~v.off /\ r \in Hpa!VpaResources(v)
  <1> DEFINE p == Effective(v, c)
  <1>1. ~v.off /\ ~p.off /\ r \in (IF p.resources = Hpa!Unset THEN Hpa!Resources ELSE p.resources)
    BY DEF Moves
  <1>2. CASE \E k \in DOMAIN v.policies : p = v.policies[k]
    BY <1>1, <1>2 DEF Hpa!VpaResources, Hpa!Controlled
  <1>3. CASE NthFor(v, "*") = {} /\ p = Everywhere
    <2>1. r \in Hpa!Resources
      BY <1>1, <1>3 DEF Everywhere
    <2>2. ~\E i \in DOMAIN v.policies : v.policies[i].container = "*"
      BY <1>3 DEF NthFor
    <2>3. r \in Hpa!VpaResources(v)
      <3> DEFINE A == UNION {IF v.policies[i].off THEN {} ELSE Hpa!Controlled(v.policies[i]) : i \in DOMAIN v.policies}
      <3>1. Hpa!VpaResources(v) =
                A \cup (IF \E i \in DOMAIN v.policies : v.policies[i].container = "*" THEN {} ELSE Hpa!Resources)
        BY DEF Hpa!VpaResources
      <3> HIDE DEF A
      <3> QED
        BY <2>1, <2>2, <3>1
    <2> QED
      BY <1>1, <2>3
  <1> QED
    BY <1>2, <1>3, EffectiveIsFirst DEF FirstPolicy

LEMMA NoResourceHasTwoDrivers ==
    ASSUME NEW docs, GoodDocs(docs), ~Hpa!Clash(docs),
           NEW h \in docs, h.kind = "HPA", NEW v \in docs, v.kind = "VPA", h.target = v.target,
           NEW c, NEW r \in Scales(h)
    PROVE  ~Moves(v, c, r)
  <1> SUFFICES ASSUME Moves(v, c, r) PROVE FALSE
    OBVIOUS
  <1>1. GoodScaler(h) /\ GoodVpa(v)
    BY DEF GoodDocs
  <1>2. ~v.off /\ r \in Hpa!VpaResources(v)
    BY <1>1, MovedIsDriven
  <1>3. r \in Hpa!HpaMetrics(h)
    BY <1>1 DEF Scales, GoodScaler, Hpa!HpaMetrics, Hpa!Resources
  <1>4. h \in Hpa!Hpas(docs) /\ v \in Hpa!Mutating(docs)
    BY <1>1, <1>2 DEF GoodScaler, GoodVpa, Hpa!Hpas, Hpa!Mutating, Hpa!Vpas, Hpa!Kind
  <1>5. r \in Hpa!HpaDrives(docs, h.target) /\ r \in Hpa!VpaDrives(docs, h.target)
    BY <1>2, <1>3, <1>4 DEF Hpa!HpaDrives, Hpa!VpaDrives
  <1> QED
    BY <1>4, <1>5 DEF Hpa!Clash

LEMMA QuantityIsPositive ==
    ASSUME NEW q, Hpa!Readable(q), q.n \in Nat \ {0}
    PROVE  Hpa!Quantity(q) > 0
  <1>1. q.suffix \in {"b", "k", "Ki", "M", "Mi"}
    BY DEF Hpa!Readable, Hpa!Factors
  <1>2. \E f \in {1, 1000, 1024, 1000000, 1048576} : Hpa!Factors[q.suffix] = f
    BY <1>1 DEF Hpa!Factors
  <1> QED
    BY <1>2 DEF Hpa!Quantity

LEMMA CapIsBelowTheLimit ==
    ASSUME NEW docs, NEW allowed, NEW declared, ~Hpa!CapViolation(docs, allowed, declared),
           NEW v \in docs, v.kind = "VPA", GoodVpa(v), v.key \notin allowed,
           NEW w \in docs, w.kind = "Workload", w.key = v.target,
           NEW c \in w.containers, GoodContainer(c)
    PROVE  CapBinds(v, c)
  <1> DEFINE p == Effective(v, c)
             l == [container |-> c.name, limit |-> c.limits.memory]
             limits == Hpa!MemoryLimits(docs, v.target, declared)
  <1> SUFFICES ASSUME Moves(v, c, "memory"), p.cap.suffix = "Mi", c.limits.memory.suffix = "Mi"
               PROVE  p.cap.n <= c.limits.memory.n /\ (MovesLimit(v, c) => p.cap.n < c.limits.memory.n)
    BY DEF CapBinds
  <1>1. ~v.off /\ ~p.off
    BY DEF Moves
  <1>2. Hpa!Readable(p.cap) /\ Hpa!Readable(c.limits.memory)
    BY DEF Hpa!Readable, Hpa!Factors
  <1>3. c.limits.memory.n \in Nat \ {0}
    BY <1>2 DEF GoodContainer
  <1>4. p # Everywhere
    BY DEF Everywhere, Hpa!Missing
  <1>5. p.cap.n \in Nat /\ p \in Hpa!Range(v.policies)
        /\ (p.container = c.name \/ (p.container = "*" /\ NthFor(v, c.name) = {}))
    <2>1. FirstPolicy(v, c.name, p) \/ (NthFor(v, c.name) = {} /\ FirstPolicy(v, "*", p))
      BY <1>4, EffectiveIsFirst
    <2>2. ASSUME NEW name, FirstPolicy(v, name, p)
          PROVE  p.cap.n \in Nat /\ p \in Hpa!Range(v.policies) /\ p.container = name
      BY <2>2 DEF FirstPolicy, Hpa!Range
    <2> HIDE DEF p
    <2>3. CASE FirstPolicy(v, c.name, p)
      BY <2>2, <2>3
    <2>4. CASE NthFor(v, c.name) = {} /\ FirstPolicy(v, "*", p)
      BY <2>2, <2>4
    <2> QED
      BY <2>1, <2>3, <2>4
  <1>6. v \in Hpa!Vpas(docs)
    BY DEF Hpa!Vpas, Hpa!Kind, GoodVpa
  <1>7. l \in limits
    <2>1. w \in Hpa!WorkloadAt(docs, v.target)
      BY DEF Hpa!WorkloadAt, Hpa!Workloads, Hpa!Kind, GoodVpa
    <2>2. c.limits.memory # Hpa!Missing
      BY DEF Hpa!Missing
    <2> QED
      BY <2>1, <2>2 DEF Hpa!MemoryLimits
  <1>8. l \in Hpa!CapTargets(v, p, limits)
    <2>1. l.container = c.name
      OBVIOUS
    <2> HIDE DEF l, limits, p
    <2>2. CASE p.container = c.name
      <3>1. ~Hpa!Wildcard(p)
        BY <2>2 DEF Hpa!Wildcard, GoodContainer
      <3> QED
        BY <1>7, <2>1, <2>2, <3>1 DEF Hpa!CapTargets
    <2>3. CASE p.container = "*" /\ NthFor(v, c.name) = {}
      <3>1. \A q \in Hpa!Range(v.policies) : q.container # c.name
        BY <2>3 DEF NthFor, Hpa!Range
      <3> QED
        BY <1>7, <2>1, <2>3, <3>1 DEF Hpa!CapTargets, Hpa!Wildcard
    <2> QED
      BY <1>5, <2>2, <2>3
  <1>9. Hpa!Quantity(p.cap) = p.cap.n * 1048576 /\ Hpa!Quantity(c.limits.memory) = c.limits.memory.n * 1048576
    BY DEF Hpa!Quantity, Hpa!Factors
  <1>10. l.limit = c.limits.memory
    OBVIOUS
  <1> HIDE DEF l, p, limits
  <1>11. ~(/\ Hpa!Readable(p.cap) /\ Hpa!Readable(l.limit) /\ Hpa!Quantity(l.limit) > 0
           /\ Hpa!CapTooHigh(v, p, l.limit))
    BY <1>5, <1>6, <1>8 DEF Hpa!CapViolation, limits
  <1>12. ~Hpa!CapTooHigh(v, p, l.limit)
    <2>1. Hpa!Quantity(c.limits.memory) > 0
      BY <1>2, <1>3, QuantityIsPositive
    <2> QED
      BY <1>2, <1>10, <1>11, <2>1
  <1>13. ~(p.cap.n > c.limits.memory.n) /\ (Hpa!ControlsLimits(p) => p.cap.n # c.limits.memory.n)
    <2>1. /\ ~(Hpa!Quantity(p.cap) > Hpa!Quantity(c.limits.memory))
          /\ ~(Hpa!ControlsLimits(p) /\ Hpa!Quantity(p.cap) = Hpa!Quantity(c.limits.memory))
      BY <1>1, <1>10, <1>12 DEF Hpa!CapTooHigh, p
    <2>2. ~(p.cap.n > c.limits.memory.n)
      BY <1>3, <1>5, <1>9, <2>1
    <2>3. p.cap.n = c.limits.memory.n => ~Hpa!ControlsLimits(p)
      BY <1>9, <2>1
    <2> QED
      BY <2>2, <2>3
  <1>14. MovesLimit(v, c) => Hpa!ControlsLimits(p)
    BY DEF MovesLimit, Hpa!ControlsLimits, p
  <1>15. p.cap.n <= c.limits.memory.n
    BY <1>3, <1>5, <1>13
  <1>16. Hpa!ControlsLimits(p) => p.cap.n < c.limits.memory.n
    BY <1>3, <1>5, <1>13, <1>15
  <1> QED
    BY <1>14, <1>15, <1>16 DEF p

LEMMA RequestStaysOffTheLimit ==
    ASSUME NEW docs, GoodDocs(docs), NEW allowed, ~Hpa!MemoryRatioViolation(docs, allowed),
           NEW v \in docs, v.kind = "VPA", v.target \notin allowed,
           NEW w \in docs, w.kind = "Workload", w.key = v.target, NEW c \in w.containers,
           MovesLimit(v, c), Hpa!Readable(c.limits.memory), Hpa!Readable(c.requests.memory)
    PROVE  Hpa!Quantity(c.requests.memory) # Hpa!Quantity(c.limits.memory)
  <1> DEFINE p == Effective(v, c)
  <1>1. GoodVpa(v) /\ GoodContainer(c) /\ \A i \in DOMAIN v.policies : v.policies[i].container # ""
    BY DEF GoodDocs
  <1>2. ~v.off /\ ~p.off /\ "memory" \in Hpa!Controlled(p) /\ Hpa!ControlsLimits(p)
    BY DEF MovesLimit, Moves, Hpa!Controlled, Hpa!ControlsLimits
  <1>3. Hpa!Quantity(c.limits.memory) > 0
    BY <1>1, QuantityIsPositive DEF GoodContainer
  <1>4. v \in Hpa!Mutating(docs) /\ w \in Hpa!Workloads(docs)
    BY <1>1, <1>2 DEF Hpa!Mutating, Hpa!Vpas, Hpa!Workloads, Hpa!Kind, GoodVpa
  <1> HIDE DEF p
  <1>5. \A q \in Hpa!ContainerPolicyFor(v.policies, c.name) : q = p
    <2> SUFFICES ASSUME NEW q \in Hpa!ContainerPolicyFor(v.policies, c.name) PROVE q = p
      OBVIOUS
    <2> DEFINE ps == v.policies
               Own == {ps[i] : i \in {j \in DOMAIN ps : ps[j].container = c.name
                                                        /\ \A k \in 1..j - 1 : ~(ps[k].container = c.name)}}
               Wild == {ps[i] : i \in {j \in DOMAIN ps : Hpa!Wildcard(ps[j])
                                                         /\ \A k \in 1..j - 1 : ~Hpa!Wildcard(ps[k])}}
    <2>1. q \in (IF Own # {} THEN Own ELSE Wild)
      BY DEF Hpa!ContainerPolicyFor
    <2>2. PICK n \in Nat : DOMAIN ps = 1..n
      BY <1>1 DEF GoodVpa
    <2>3. \A j \in DOMAIN ps : \A k \in 1..j - 1 : k \in DOMAIN ps
      BY <2>2
    <2>4. ASSUME NEW name, NEW x, NEW y, FirstPolicy(v, name, x), FirstPolicy(v, name, y) PROVE x = y
      <3>1. PICK i \in 1..n : x = ps[i] /\ ps[i].container = name /\ \A j \in 1..i - 1 : ps[j].container # name
        BY <2>2, <2>4 DEF FirstPolicy
      <3>2. PICK k \in 1..n : y = ps[k] /\ ps[k].container = name /\ \A j \in 1..k - 1 : ps[j].container # name
        BY <2>2, <2>4 DEF FirstPolicy
      <3>3. ~(i < k) /\ ~(k < i)
        BY <3>1, <3>2
      <3>4. i = k
        BY <3>3
      <3> QED
        BY <3>1, <3>2, <3>4
    <2>5. \A i \in DOMAIN ps : ps[i].cap.n \in Nat /\ (Hpa!Wildcard(ps[i]) <=> ps[i].container = "*")
      BY <1>1 DEF GoodVpa, Hpa!Wildcard
    <2>6. Own = {} => NthFor(v, c.name) = {}
      <3> SUFFICES ASSUME NthFor(v, c.name) # {} PROVE Own # {}
        OBVIOUS
      <3>1. PICK q2 : FirstPolicy(v, c.name, q2)
        BY <1>1, FirstOf
      <3>2. PICK k \in DOMAIN ps : ps[k].container = c.name /\ \A j \in 1..k - 1 : ps[j].container # c.name
        BY <3>1 DEF FirstPolicy
      <3>3. ps[k] \in Own
        BY <3>2
      <3> QED
        BY <3>3
    <2>7. CASE Own # {}
      <3>1. FirstPolicy(v, c.name, q)
        BY <2>1, <2>5, <2>7 DEF FirstPolicy
      <3>2. NthFor(v, c.name) # {}
        BY <3>1 DEF FirstPolicy, NthFor
      <3> QED
        BY <1>1, <2>4, <3>1, <3>2, EffectiveIsFirst DEF p
    <2>8. CASE Own = {}
      <3>1. FirstPolicy(v, "*", q)
        <4>1. PICK i \in DOMAIN ps : q = ps[i] /\ Hpa!Wildcard(ps[i]) /\ \A k \in 1..i - 1 : ~Hpa!Wildcard(ps[k])
          BY <2>1, <2>8
        <4> QED
          BY <2>3, <2>5, <4>1 DEF FirstPolicy
      <3>2. NthFor(v, "*") # {}
        BY <3>1 DEF FirstPolicy, NthFor
      <3>3. ~FirstPolicy(v, c.name, p)
        BY <2>6, <2>8 DEF FirstPolicy, NthFor
      <3> QED
        BY <1>1, <2>4, <3>1, <3>2, <3>3, EffectiveIsFirst DEF p
    <2> QED
      BY <2>7, <2>8
  <1>6. Hpa!RewritesMemoryLimit(v.policies, c.name)
    BY <1>2, <1>5 DEF Hpa!RewritesMemoryLimit
  <1> QED
    BY <1>3, <1>4, <1>6 DEF Hpa!MemoryRatioViolation

LEMMA LastPodMayGo ==
    ASSUME NEW docs, GoodDocs(docs), ~Hpa!PdbFloorViolation(docs),
           NEW h \in docs, h.kind = "HPA", NEW b \in docs, b.kind = "PDB", h.floor < 2,
           NEW w \in docs, w.kind = "Workload", w.key = h.target, Guards(b, w)
    PROVE  LET Up(a) == IF a.type = "int" THEN a.n ELSE (h.floor * a.n + 99) \div 100
           IN  /\ b.minAvailable.type # "absent" => Up(b.minAvailable) < h.floor
               /\ b.maxUnavailable.type # "absent" => Up(b.maxUnavailable) > 0
  <1>1. GoodScaler(h) /\ GoodBudget(b)
    BY DEF GoodDocs
  <1>2. h \in Hpa!Hpas(docs) /\ w \in Hpa!Workloads(docs) /\ b \in Hpa!Kind(docs, "PDB")
    BY <1>1 DEF GoodScaler, Hpa!Hpas, Hpa!Workloads, Hpa!Kind, Hpa!Named
  <1>3. Hpa!SelectorMatches(b.selector, w.labels) /\ b.key[1] = h.target[1]
    BY DEF Guards, Hpa!SelectorMatches
  <1>4. ~Hpa!BlocksLastEviction(b, h.floor)
    BY <1>2, <1>3 DEF Hpa!PdbFloorViolation
  <1>5. h.floor \in {0, 1}
    BY <1>1 DEF GoodScaler
  <1>6. /\ b.minAvailable.type \in {"absent", "int", "percent"} /\ b.minAvailable.n \in Nat
        /\ b.maxUnavailable.type \in {"absent", "int", "percent"} /\ b.maxUnavailable.n \in Nat
    BY <1>1 DEF GoodBudget, GoodAmount
  <1> QED
    BY <1>4, <1>5, <1>6 DEF Hpa!BlocksLastEviction

-----------------------------------------------------------------------------
(* validate-helm-values.py calls the operators of check-hpa-vpa-invariant.py. *)

LEMMA SameCpuCheck ==
    ASSUME NEW docs, NEW allowed
    PROVE  Helm!Hpa!CpuLimitViolation(docs, allowed) = Hpa!CpuLimitViolation(docs, allowed)
  BY DEF Helm!Hpa!CpuLimitViolation, Helm!Hpa!Kind, Helm!Hpa!Missing, Hpa!CpuLimitViolation, Hpa!Kind, Hpa!Missing

LEMMA SameCapCheck ==
    ASSUME NEW docs, NEW allowed, NEW declared
    PROVE  Helm!Hpa!CapViolation(docs, allowed, declared) = Hpa!CapViolation(docs, allowed, declared)
  <1>1. Helm!Hpa!Vpas(docs) = Hpa!Vpas(docs)
    BY DEF Helm!Hpa!Vpas, Helm!Hpa!Kind, Helm!Hpa!Named, Hpa!Vpas, Hpa!Kind, Hpa!Named
  <1>2. \A target : Helm!Hpa!WorkloadAt(docs, target) = Hpa!WorkloadAt(docs, target)
    BY DEF Helm!Hpa!WorkloadAt, Helm!Hpa!Workloads, Helm!Hpa!Kind, Helm!Hpa!Named,
           Hpa!WorkloadAt, Hpa!Workloads, Hpa!Kind, Hpa!Named
  <1>3. \A target : Helm!Hpa!MemoryLimits(docs, target, declared) = Hpa!MemoryLimits(docs, target, declared)
    BY <1>2 DEF Helm!Hpa!MemoryLimits, Helm!Hpa!Missing, Hpa!MemoryLimits, Hpa!Missing
  <1>4. \A q : Helm!Hpa!Readable(q) = Hpa!Readable(q) /\ Helm!Hpa!Quantity(q) = Hpa!Quantity(q)
    BY DEF Helm!Hpa!Readable, Helm!Hpa!Quantity, Helm!Hpa!Factors, Hpa!Readable, Hpa!Quantity, Hpa!Factors
  <1>5. \A s : Helm!Hpa!Range(s) = Hpa!Range(s)
    BY DEF Helm!Hpa!Range, Hpa!Range
  <1>6. \A v, p, limits : Helm!Hpa!CapTargets(v, p, limits) = Hpa!CapTargets(v, p, limits)
    BY DEF Helm!Hpa!CapTargets, Helm!Hpa!Wildcard, Helm!Hpa!Range, Hpa!CapTargets, Hpa!Wildcard, Hpa!Range
  <1>7. \A v, p, l : Helm!Hpa!CapTooHigh(v, p, l) = Hpa!CapTooHigh(v, p, l)
    BY DEF Helm!Hpa!CapTooHigh, Helm!Hpa!ControlsLimits, Helm!Hpa!Quantity, Helm!Hpa!Factors,
           Hpa!CapTooHigh, Hpa!ControlsLimits, Hpa!Quantity, Hpa!Factors
  <1> QED
    BY <1>1, <1>3, <1>4, <1>5, <1>6, <1>7 DEF Helm!Hpa!CapViolation, Hpa!CapViolation

Triple(key) == key = <<key[1], key[2], key[3]>>
GoodRelease(rel) ==
    /\ \A w \in rel.rendered : w.kind = "Workload" =>
          /\ w = [kind |-> "Workload", key |-> w.key, labels |-> w.labels, containers |-> w.containers]
          /\ Triple(w.key) /\ Hpa!Named(w.key) /\ \A c \in w.containers : GoodContainer(c)
    /\ \A f \in rel.beside : \A v \in f.docs : v.kind = "VPA" =>
          /\ v = [kind |-> "VPA", key |-> v.key, target |-> v.target, off |-> v.off, policies |-> v.policies]
          /\ Triple(v.key) /\ Triple(v.target) /\ GoodVpa(v)

LEMMA FirstNonEmpty ==
    ASSUME NEW none, NEW a, NEW b, NEW c, NEW d, d # none
    PROVE  LET homes == <<a, b, c, d>>
               home == CHOOSE i \in 1..4 : homes[i] # none /\ \A j \in 1..i - 1 : homes[j] = none
           IN  homes[home] = IF a # none THEN a ELSE IF b # none THEN b ELSE IF c # none THEN c ELSE d
  <1> DEFINE homes == <<a, b, c, d>>
             First(i) == homes[i] # none /\ \A j \in 1..i - 1 : homes[j] = none
             home == CHOOSE i \in 1..4 : First(i)
  <1>1. homes[1] = a /\ homes[2] = b /\ homes[3] = c /\ homes[4] = d
    OBVIOUS
  <1> HIDE DEF homes
  <1>2. \E i \in 1..4 : First(i)
    BY <1>1
  <1>3. home \in 1..4 /\ First(home)
    BY <1>2
  <1> HIDE DEF home
  <1>4. homes[home] # none /\ \A j \in 1..home - 1 : homes[j] = none
    BY <1>3
  <1>5. /\ home = 1 => a # none
        /\ home = 2 => a = none /\ b # none
        /\ home = 3 => a = none /\ b = none /\ c # none
        /\ home = 4 => a = none /\ b = none /\ c = none
    BY <1>1, <1>4
  <1>6. homes[home] = IF a # none THEN a ELSE IF b # none THEN b ELSE IF c # none THEN c ELSE d
    BY <1>1, <1>3, <1>5
  <1> QED
    BY <1>6 DEF home, homes

\* The namespace that the gate stamps on an object is the one it lands in.
LEMMA StampIsLands ==
    ASSUME NEW rel, NEW key, Triple(key)
    PROVE  Helm!Stamp(rel, key) = Lands(rel, key)
  <1> DEFINE homes == <<key[1], rel.targetNamespace, rel.namespace, "default">>
             home(none) == CHOOSE i \in 1..4 : homes[i] # none /\ \A j \in 1..i - 1 : homes[j] = none
             placed(none) == IF key[1] # none THEN key[1] ELSE IF rel.targetNamespace # none THEN rel.targetNamespace
                             ELSE IF rel.namespace # none THEN rel.namespace ELSE "default"
             place == placed("")
  <1>1. homes[home("")] = place
    <2>1. ASSUME NEW none, "default" # none PROVE homes[home(none)] = placed(none)
      BY <2>1, FirstNonEmpty
    <2>2. "default" # ""
      BY Zenon
    <2> HIDE DEF homes, home, placed
    <2> QED
      BY <2>1, <2>2, Zenon
  <1>2. Lands(rel, key) = <<place, key[2], key[3]>>
    BY <1>1, Zenon DEF Lands
  <1>3. key[1] # "" => Helm!Stamp(rel, key) = key /\ place = key[1]
    BY Zenon DEF Helm!Stamp
  <1>4. key[1] = "" => Helm!Stamp(rel, key) = <<place, key[2], key[3]>>
    BY Zenon DEF Helm!Stamp, Helm!Namespace
  <1> HIDE DEF place
  <1> QED
    BY <1>2, <1>3, <1>4, Zenon DEF Triple

\* What a green release check says of the objects as they are installed.
LEMMA ReleaseObeysPolicies ==
    ASSUME NEW in, NEW rel, GoodRelease(rel), Helm!ReleaseIsValid(rel, in)
    PROVE  LET installed == {w \in rel.rendered : w.kind = "Workload"} IN
           /\ \A w \in installed : ~(\E e \in in.policy.cpuLimit : e.key = Lands(rel, w.key)) =>
                  \A c \in w.containers : c.limits.cpu = Hpa!Missing
           /\ \A f \in rel.beside : \A v \in {d \in f.docs : d.kind = "VPA" /\ f.parses} :
                  ~(\E e \in in.policy.cap : e.key = Lands(rel, v.key)) =>
                  \A w \in installed : Lands(rel, w.key) = Lands(rel, v.target) => \A c \in w.containers : CapBinds(v, c)
  <1> DEFINE docs == Helm!Stamped(rel, rel.rendered)
             Moved_(w) == [kind |-> "Workload", key |-> Lands(rel, w.key), labels |-> w.labels, containers |-> w.containers]
             Put(v) == [kind |-> "VPA", key |-> Lands(rel, v.key), target |-> Lands(rel, v.target), off |-> v.off,
                        policies |-> v.policies]
  <1>1. /\ ~Helm!Hpa!CpuLimitViolation(docs, Helm!Hpa!Keys(in.policy.cpuLimit))
        /\ ~Helm!Hpa!CapViolation(docs \cup Helm!ReleaseVpas(rel), Helm!Hpa!Keys(in.policy.cap), {})
    BY DEF Helm!ReleaseIsValid
  <1>2. ASSUME NEW w \in rel.rendered, w.kind = "Workload" PROVE Moved_(w) \in docs
    <2>1. w = [kind |-> "Workload", key |-> w.key, labels |-> w.labels, containers |-> w.containers] /\ Triple(w.key)
      BY <1>2 DEF GoodRelease
    <2>2. [w EXCEPT !.key = Helm!Stamp(rel, @)] \in docs
      BY <1>2 DEF Helm!Stamped
    <2>3. Helm!Stamp(rel, w.key) = Lands(rel, w.key)
      BY <2>1, StampIsLands
    <2>4. [w EXCEPT !.key = Lands(rel, w.key)] = Moved_(w)
      BY <2>1
    <2> QED
      BY <2>2, <2>3, <2>4
  <1>3. ASSUME NEW f \in rel.beside, f.parses, NEW v \in f.docs, v.kind = "VPA" PROVE Put(v) \in Helm!ReleaseVpas(rel)
    <2>1. /\ v = [kind |-> "VPA", key |-> v.key, target |-> v.target, off |-> v.off, policies |-> v.policies]
          /\ Triple(v.key) /\ Triple(v.target)
      BY <1>3 DEF GoodRelease
    <2> DEFINE vpas == Helm!Hpa!Kind(UNION {x.docs : x \in {y \in rel.beside : y.parses}}, "VPA")
    <2>2. v \in vpas
      BY <1>3 DEF Helm!Hpa!Kind
    <2> HIDE DEF vpas
    <2> DEFINE moved == [v EXCEPT !.key = Helm!Stamp(rel, @)]
    <2>3. [moved EXCEPT !.target = Helm!Stamp(rel, @)] \in Helm!Stamped(rel, vpas)
      BY <1>3, <2>2 DEF Helm!Stamped
    <2>4. Helm!Stamp(rel, v.key) = Lands(rel, v.key) /\ Helm!Stamp(rel, v.target) = Lands(rel, v.target)
      BY <2>1, StampIsLands
    <2>5. moved = [kind |-> "VPA", key |-> Lands(rel, v.key), target |-> v.target, off |-> v.off,
                   policies |-> v.policies]
      BY <2>1, <2>4
    <2> HIDE DEF moved
    <2>6. [moved EXCEPT !.target = Helm!Stamp(rel, @)] = Put(v)
      BY <2>4, <2>5
    <2>7. Helm!ReleaseVpas(rel) = Helm!Stamped(rel, vpas)
      BY DEF Helm!ReleaseVpas, vpas
    <2> QED
      BY <2>3, <2>6, <2>7
  <1> HIDE DEF docs
  <1>4. ASSUME NEW w \in rel.rendered, w.kind = "Workload",
               ~(\E e \in in.policy.cpuLimit : e.key = Lands(rel, w.key)), NEW c \in w.containers
        PROVE  c.limits.cpu = Hpa!Missing
    <2>1. Moved_(w) \in docs /\ Moved_(w).kind = "Workload" /\ Moved_(w).key = Lands(rel, w.key)
          /\ Moved_(w).containers = w.containers
      BY <1>2, <1>4
    <2>2. Lands(rel, w.key) \notin Helm!Hpa!Keys(in.policy.cpuLimit)
      BY <1>4 DEF Helm!Hpa!Keys
    <2>3. ~Hpa!CpuLimitViolation(docs, Helm!Hpa!Keys(in.policy.cpuLimit))
      BY <1>1, SameCpuCheck
    <2> HIDE DEF Moved_
    <2> QED
      BY <1>4, <2>1, <2>2, <2>3 DEF Hpa!CpuLimitViolation, Hpa!Kind
  <1>5. ASSUME NEW f \in rel.beside, f.parses, NEW v \in f.docs, v.kind = "VPA",
               ~(\E e \in in.policy.cap : e.key = Lands(rel, v.key)),
               NEW w \in rel.rendered, w.kind = "Workload", Lands(rel, w.key) = Lands(rel, v.target),
               NEW c \in w.containers
        PROVE  CapBinds(v, c)
    <2> DEFINE all == docs \cup Helm!ReleaseVpas(rel)
    <2>1. ~Hpa!CapViolation(all, Helm!Hpa!Keys(in.policy.cap), {})
      BY <1>1, SameCapCheck
    <2>2. Put(v) \in all /\ Moved_(w) \in all
      BY <1>2, <1>3, <1>5
    <2>3. GoodVpa(v) /\ Triple(v.target) /\ GoodContainer(c)
      BY <1>5 DEF GoodRelease
    <2>4. Lands(rel, v.target)[3] = v.target[3]
      BY DEF Lands
    <2>5. GoodVpa(Put(v))
      BY <2>3, <2>4 DEF GoodVpa, Hpa!Named
    <2>6. Put(v).key \notin Helm!Hpa!Keys(in.policy.cap)
      BY <1>5 DEF Helm!Hpa!Keys
    <2>7. Put(v).kind = "VPA" /\ Moved_(w).kind = "Workload" /\ Moved_(w).key = Put(v).target
          /\ c \in Moved_(w).containers
      BY <1>5
    <2> HIDE DEF all, Put, Moved_
    <2>8. CapBinds(Put(v), c)
      BY <2>1, <2>2, <2>3, <2>5, <2>6, <2>7, CapIsBelowTheLimit
    <2>9. Put(v).policies = v.policies /\ Put(v).off = v.off
      BY DEF Put
    <2>10. \A r : Moves(Put(v), c, r) = Moves(v, c, r) /\ Effective(Put(v), c) = Effective(v, c)
      BY <2>9 DEF Moves, Effective
    <2> QED
      BY <2>8, <2>10 DEF CapBinds, MovesLimit
  <1> QED
    BY <1>4, <1>5

-----------------------------------------------------------------------------
(* Recursion over the numbers: what begins with base and goes on with next *)
(* exists, so a recursive function is what its definition says.            *)

Unrolls(f, n, base, next) == f[0] = base /\ \A i \in 0..n - 1 : f[i + 1] = next[i][f[i]]

Iterates(f, D, base, next) ==
    f \in [Nat -> D] /\ f[0] = base /\ \A i \in Nat : f[i + 1] = next[i][f[i]]

LEMMA RecursionExists ==
    ASSUME NEW D, NEW base \in D, NEW next \in [Nat -> [D -> D]]
    PROVE  \E f : Iterates(f, D, base, next)
  <1> DEFINE Good(n, f) == f \in [0..n -> D] /\ Unrolls(f, n, base, next)
             Without == {n \in Nat : ~\E f : Good(n, f)}
  <1>1. \A n \in Nat : \E f : Good(n, f)
    <2> SUFFICES ASSUME Without # {} PROVE FALSE
      OBVIOUS
    <2>1. PICK n \in Without : \A m \in Without : n <= m
      BY LeastOf
    <2>2. n # 0
      <3> DEFINE f == [i \in 0..0 |-> base]
      <3>1. Good(0, f)
        BY DEF Unrolls
      <3> QED
        BY <2>1, <3>1
    <2>3. n - 1 \in Nat /\ n - 1 \notin Without
      BY <2>1, <2>2
    <2>4. PICK g : Good(n - 1, g)
      BY <2>3
    <2> DEFINE f == [i \in 0..n |-> IF i = n THEN next[n - 1][g[n - 1]] ELSE g[i]]
    <2>5. g[n - 1] \in D /\ next[n - 1] \in [D -> D]
      BY <2>3, <2>4
    <2>6. f \in [0..n -> D]
      BY <2>3, <2>4, <2>5
    <2>7. f[0] = base
      BY <2>2, <2>1, <2>4 DEF Unrolls
    <2>8. \A i \in 0..n - 1 : f[i + 1] = next[i][f[i]]
      <3> SUFFICES ASSUME NEW i \in 0..n - 1 PROVE f[i + 1] = next[i][f[i]]
        OBVIOUS
      <3>1. CASE i = n - 1
        BY <3>1, <2>3
      <3>2. CASE i # n - 1
        <4>1. i \in 0..n - 2 /\ i + 1 \in 0..n /\ i + 1 # n /\ i # n /\ i \in 0..n
          BY <3>2, <2>3
        <4>2. g[i + 1] = next[i][g[i]]
          BY <4>1, <2>4, <2>3 DEF Unrolls
        <4> QED
          BY <4>1, <4>2
      <3> QED
        BY <3>1, <3>2
    <2>9. Good(n, f)
      BY <2>6, <2>7, <2>8 DEF Unrolls
    <2> QED
      BY <2>1, <2>9
  <1>2. ASSUME NEW n \in Nat, NEW m \in Nat, NEW f, NEW g, Good(n, f), Good(m, g),
               NEW k \in 0..n, k \in 0..m
        PROVE  f[k] = g[k]
    <2> DEFINE Off == {i \in 0..k : f[i] # g[i]}
    <2> SUFFICES ASSUME Off # {} PROVE FALSE
      BY <1>2
    <2>1. PICK i \in Off : \A j \in Off : i <= j
      BY LeastOf, Off \in SUBSET Nat
    <2>2. i # 0
      BY <1>2, <2>1 DEF Unrolls
    <2>3. i - 1 \in 0..n - 1 /\ i - 1 \in 0..m - 1 /\ i - 1 \in 0..k /\ (i - 1) + 1 = i
      BY <1>2, <2>1, <2>2
    <2>4. f[i - 1] = g[i - 1]
      BY <2>1, <2>3
    <2> QED
      BY <1>2, <2>1, <2>3, <2>4 DEF Unrolls
  <1> DEFINE Of(n) == CHOOSE f : Good(n, f)
             F == [n \in Nat |-> Of(n)[n]]
  <1>3. \A n \in Nat : Good(n, Of(n))
    BY <1>1
  <1> HIDE DEF Of
  <1>4. F \in [Nat -> D]
    <2>1. ASSUME NEW n \in Nat PROVE Of(n)[n] \in D
      BY <1>3, n \in 0..n
    <2> QED
      BY <2>1
  <1>5. F[0] = base
    BY <1>3 DEF Unrolls
  <1>6. ASSUME NEW i \in Nat PROVE F[i + 1] = next[i][F[i]]
    <2>1. Good(i + 1, Of(i + 1)) /\ Good(i, Of(i)) /\ i \in 0..i /\ i \in 0..i + 1 /\ i \in 0..(i + 1) - 1
      BY <1>3
    <2>2. Of(i + 1)[i] = Of(i)[i]
      BY <1>2, <2>1
    <2>3. Of(i + 1)[i + 1] = next[i][Of(i + 1)[i]]
      BY <2>1 DEF Unrolls
    <2> QED
      BY <2>2, <2>3
  <1> QED
    BY <1>4, <1>5, <1>6 DEF Iterates

LEMMA PowersOfTwo ==
    /\ Egress!Pow2 \in [Nat -> Nat \ {0}] /\ Egress!Pow2[0] = 1
    /\ \A n \in Nat : Egress!Pow2[n + 1] = 2 * Egress!Pow2[n]
  <1> DEFINE D == Nat \ {0}
             next == [i \in Nat |-> [x \in D |-> 2 * x]]
  <1>1. next \in [Nat -> [D -> D]]
    OBVIOUS
  <1>2. PICK f : Iterates(f, D, 1, next)
    <2>1. 1 \in D
      OBVIOUS
    <2> HIDE DEF D, next
    <2> QED
      BY <1>1, <2>1, RecursionExists
  <1>3. \A i \in Nat : f[i + 1] = 2 * f[i]
    BY <1>2 DEF Iterates
  <1> DEFINE P == Egress!Pow2
  <1>4. f = [n \in Nat |-> IF n = 0 THEN 1 ELSE 2 * f[n - 1]]
    <2>1. ASSUME NEW n \in Nat PROVE f[n] = IF n = 0 THEN 1 ELSE 2 * f[n - 1]
      <3>1. CASE n # 0
        BY <1>3, <3>1, n - 1 \in Nat, (n - 1) + 1 = n
      <3> QED
        BY <1>2, <3>1 DEF Iterates
    <2>2. f = [n \in Nat |-> f[n]]
      BY <1>2 DEF Iterates
    <2> QED
      BY <2>1, <2>2
  <1>5. P = [n \in Nat |-> IF n = 0 THEN 1 ELSE 2 * P[n - 1]]
    BY <1>4, Zenon DEF Egress!Pow2
  <1> HIDE DEF P
  <1>6. P[0] = 1 /\ \A n \in Nat : P[n + 1] = 2 * P[n]
    BY <1>5
  <1>7. \A n \in Nat : P[n] \in D
    <2> DEFINE Off == {n \in Nat : P[n] \notin D}
    <2> SUFFICES ASSUME Off # {} PROVE FALSE
      OBVIOUS
    <2>1. PICK n \in Off : \A m \in Off : n <= m
      BY LeastOf, Off \in SUBSET Nat
    <2>2. n - 1 \in Nat /\ (n - 1) + 1 = n
      BY <1>6, <2>1
    <2>3. P[n - 1] \in D
      BY <2>1, <2>2
    <2> QED
      BY <1>6, <2>1, <2>2, <2>3
  <1>8. P \in [Nat -> D]
    BY <1>5, <1>7
  <1> QED
    BY <1>6, <1>8 DEF P

-----------------------------------------------------------------------------
(* Address blocks.  The prefix of an address is its quotient.              *)

LEMMA Quotient ==
    ASSUME NEW a \in Nat, NEW s \in Nat \ {0}
    PROVE  /\ a \div s \in Nat
           /\ (a \div s) * s <= a /\ a < (a \div s) * s + s
           /\ \A q \in Nat : q * s <= a /\ a < q * s + s => q = a \div s
  <1>1. a \div s \in Nat /\ (a \div s) * s <= a /\ a < (a \div s) * s + s
    OBVIOUS
  <1>2. ASSUME NEW q \in Nat, NEW p \in Nat, q * s <= a, a < q * s + s, p * s <= a, a < p * s + s
        PROVE  ~(p < q)
    <2> SUFFICES ASSUME p < q PROVE FALSE
      OBVIOUS
    <2>1. PICK d \in Nat : q = p + 1 + d
      <3>1. q - p - 1 \in Nat /\ q = p + 1 + (q - p - 1)
        OBVIOUS
      <3> QED
        BY <3>1
    <2>2. q * s = p * s + s + d * s /\ d * s \in Nat /\ p * s \in Nat
      BY <2>1
    <2> QED
      BY <1>2, <2>2
  <1> QED
    BY <1>1, <1>2

LEMMA HalfQuotient ==
    ASSUME NEW a \in Nat, NEW s \in Nat \ {0}
    PROVE  (a \div s) \div 2 = a \div (2 * s)
  <1> DEFINE q == a \div s
             h == q \div 2
  <1>1. q \in Nat /\ q * s <= a /\ a < q * s + s
    BY Quotient
  <1> HIDE DEF q
  <1>2. h \in Nat /\ (q = 2 * h \/ q = 2 * h + 1)
    BY <1>1
  <1> HIDE DEF h
  <1>3. h * (2 * s) = 2 * (h * s) /\ h * s \in Nat /\ 2 * s \in Nat \ {0}
    BY <1>2
  <1>4. q * s = 2 * (h * s) \/ q * s = 2 * (h * s) + s
    BY <1>2
  <1>5. q * s \in Nat
    BY <1>1
  <1>6. h * (2 * s) <= a /\ a < h * (2 * s) + 2 * s
    BY <1>1, <1>3, <1>4, <1>5
  <1> QED
    BY <1>2, <1>3, <1>6, Quotient DEF q, h

IsNet(b) == b.len \in 0..Width /\ b.idx \in Nat
Prefix(a, l) == a \div Egress!Pow2[Width - l]

LEMMA InBlock ==
    ASSUME NEW b, IsNet(b), NEW v, NEW a
    PROVE  <<v, a>> \in Egress!Addresses(b) <=> v = b.v /\ a \in Nat /\ Prefix(a, b.len) = b.idx
  <1> DEFINE size == Egress!Pow2[Width - b.len]
  <1>1. Width - b.len \in Nat /\ b.idx \in Nat
    BY WidthAssumption DEF IsNet
  <1>2. size \in Nat \ {0}
    BY <1>1, PowersOfTwo
  <1>3. <<v, a>> \in Egress!Addresses(b) <=> v = b.v /\ a \in b.idx * size..(b.idx + 1) * size - 1
    BY DEF Egress!Addresses
  <1>4. Prefix(a, b.len) = a \div size
    BY DEF Prefix
  <1> HIDE DEF size
  <1>5. b.idx * size \in Nat /\ (b.idx + 1) * size = b.idx * size + size
    BY <1>1, <1>2
  <1>6. a \in b.idx * size..(b.idx + 1) * size - 1 <=>
            a \in Nat /\ b.idx * size <= a /\ a < b.idx * size + size
    BY <1>2, <1>5
  <1>7. a \in Nat => (b.idx * size <= a /\ a < b.idx * size + size <=> a \div size = b.idx)
    BY <1>1, <1>2, Quotient
  <1> QED
    BY <1>3, <1>4, <1>6, <1>7

LEMMA HalfPower ==
    ASSUME NEW x \in Nat, NEW k \in Nat
    PROVE  /\ x \div Egress!Pow2[k] \in Nat
           /\ (x \div Egress!Pow2[k]) \div 2 = x \div Egress!Pow2[k + 1]
  <1>1. Egress!Pow2[k] \in Nat \ {0} /\ Egress!Pow2[k + 1] = 2 * Egress!Pow2[k]
    BY PowersOfTwo
  <1> QED
    BY <1>1, Quotient, HalfQuotient

LEMMA ShorterPrefix ==
    ASSUME NEW a \in Nat, NEW l \in 1..Width
    PROVE  /\ Prefix(a, l) \in Nat /\ Prefix(a, l - 1) \in Nat
           /\ Prefix(a, l - 1) = Prefix(a, l) \div 2
  <1>1. Width - l \in Nat /\ Width - (l - 1) = (Width - l) + 1
    BY WidthAssumption
  <1>2. (Width - l) + 1 \in Nat
    BY <1>1
  <1> QED
    BY <1>1, <1>2, HalfPower DEF Prefix

LEMMA PrefixOfPrefix ==
    ASSUME NEW a \in Nat, NEW l \in 0..Width, NEW k \in 0..l
    PROVE  Prefix(a, l - k) = Prefix(a, l) \div Egress!Pow2[k]
  <1> DEFINE Off == {i \in 0..l : Prefix(a, l - i) # Prefix(a, l) \div Egress!Pow2[i]}
  <1> SUFFICES ASSUME Off # {} PROVE FALSE
    OBVIOUS
  <1>1. PICK i \in Off : \A j \in Off : i <= j
    BY LeastOf, Off \in SUBSET Nat
  <1>2. Prefix(a, l) \in Nat
    BY WidthAssumption, HalfPower, Width - l \in Nat DEF Prefix
  <1>3. i # 0
    BY <1>1, <1>2, PowersOfTwo
  <1>4. i - 1 \in Nat /\ (i - 1) + 1 = i /\ i - 1 \in 0..l
    BY <1>1, <1>3
  <1>5. Prefix(a, l - (i - 1)) = Prefix(a, l) \div Egress!Pow2[i - 1]
    BY <1>1, <1>4
  <1>6. l - (i - 1) \in 1..Width /\ (l - (i - 1)) - 1 = l - i
    BY <1>1, <1>3, WidthAssumption
  <1>7. Prefix(a, l - i) = Prefix(a, l - (i - 1)) \div 2
    BY <1>6, ShorterPrefix
  <1>8. (Prefix(a, l) \div Egress!Pow2[i - 1]) \div 2 = Prefix(a, l) \div Egress!Pow2[i]
    BY <1>2, <1>4, HalfPower
  <1> QED
    BY <1>1, <1>5, <1>7, <1>8

LEMMA WithoutCutKeeps ==
    ASSUME NEW part, IsNet(part), NEW cut, IsNet(cut), NEW v, NEW a,
           <<v, a>> \in Egress!Addresses(part), <<v, a>> \notin Egress!Addresses(cut)
    PROVE  \E n \in Egress!WithoutCut(part, cut) : IsNet(n) /\ <<v, a>> \in Egress!Addresses(n)
  <1>1. v = part.v /\ a \in Nat /\ Prefix(a, part.len) = part.idx
    BY InBlock
  <1>2. v # cut.v \/ Prefix(a, cut.len) # cut.idx
    BY <1>1, InBlock
  <1>3. part.len \in 0..Width /\ cut.len \in 0..Width /\ part.idx \in Nat /\ cut.idx \in Nat
    BY DEF IsNet
  <1>4. ~Egress!SubnetOf(part, cut)
    <2> SUFFICES ASSUME Egress!SubnetOf(part, cut) PROVE FALSE
      OBVIOUS
    <2>1. part.v = cut.v /\ part.len >= cut.len /\ part.idx \div Egress!Pow2[part.len - cut.len] = cut.idx
      BY DEF Egress!SubnetOf
    <2>2. part.len - cut.len \in 0..part.len /\ part.len - (part.len - cut.len) = cut.len
      BY <1>3, <2>1
    <2> QED
      BY <1>1, <1>2, <1>3, <2>1, <2>2, PrefixOfPrefix
  <1>5. CASE ~Egress!SubnetOf(cut, part)
    BY <1>4, <1>5 DEF Egress!WithoutCut
  <1>6. CASE Egress!SubnetOf(cut, part)
    <2>1. part.v = cut.v /\ cut.len >= part.len /\ cut.idx \div Egress!Pow2[cut.len - part.len] = part.idx
      BY <1>6 DEF Egress!SubnetOf
    <2> DEFINE Cut(l) == cut.idx \div Egress!Pow2[cut.len - l]
               Levels == part.len + 1..cut.len
               Apart == {l \in Levels : Prefix(a, l) # Cut(l)}
    <2>2. Cut(cut.len) = cut.idx
      BY <1>3, PowersOfTwo, cut.len - cut.len = 0
    <2>3. cut.len \in Apart
      BY <1>1, <1>2, <1>3, <2>1, <2>2
    <2>4. PICK l \in Apart : \A j \in Apart : l <= j
      BY <1>3, <2>3, LeastOf, Apart \in SUBSET Nat
    <2>5. l \in 1..Width /\ l - 1 \in Nat /\ cut.len - l \in Nat /\ cut.len - (l - 1) = (cut.len - l) + 1
      <3>1. l \in part.len + 1..cut.len
        BY <2>4
      <3> QED
        BY <1>3, <3>1, WidthAssumption
    <2>6. Prefix(a, l - 1) = Cut(l - 1)
      <3>1. CASE l - 1 = part.len
        BY <1>1, <2>1, <3>1
      <3>2. CASE l - 1 # part.len
        <4>1. l - 1 \in Levels /\ ~(l <= l - 1)
          BY <1>3, <2>4, <3>2
        <4> QED
          BY <2>4, <4>1
      <3> QED
        BY <3>1, <3>2
    <2>7. Prefix(a, l - 1) = Prefix(a, l) \div 2 /\ Prefix(a, l) \in Nat
      BY <1>1, <2>5, ShorterPrefix
    <2>8. Cut(l - 1) = Cut(l) \div 2 /\ Cut(l) \in Nat
      BY <1>3, <2>5, HalfPower
    <2>9. Prefix(a, l) # Cut(l)
      BY <2>4
    <2> DEFINE prefix == Cut(l)
               n == [v |-> cut.v, len |-> l, idx |-> IF prefix % 2 = 0 THEN prefix + 1 ELSE prefix - 1]
    <2>10. n \in Egress!AddressExclude(part, cut)
      BY <2>4 DEF Egress!AddressExclude
    <2> HIDE DEF Cut, Apart, Levels
    <2>11. Prefix(a, l) = n.idx
      BY <2>6, <2>7, <2>8, <2>9
    <2>12. IsNet(n)
      BY <2>5, <2>7, <2>11 DEF IsNet
    <2>13. n.v = v /\ n.len = l
      BY <1>1, <2>1
    <2>14. <<v, a>> \in Egress!Addresses(n)
      <3> HIDE DEF n
      <3> QED
        BY <1>1, <2>11, <2>12, <2>13, InBlock
    <2> QED
      BY <1>4, <1>6, <2>10, <2>12, <2>14 DEF Egress!WithoutCut
  <1> QED
    BY <1>5, <1>6

Subtracts(g, nets, cuts, valid) ==
    /\ g[0] = nets /\ Egress!ExcludeNets(nets, cuts, valid) = g[Len(cuts)]
    /\ \A i \in 1..Len(cuts) : g[i] = IF cuts[i] \in valid
                                     THEN UNION {Egress!WithoutCut(p, cuts[i]) : p \in g[i - 1]}
                                     ELSE g[i - 1]

LEMMA ExclusionUnrolls ==
    ASSUME NEW nets, \A n \in nets : IsNet(n), NEW valid, \A c \in valid : IsNet(c),
           NEW cuts, Len(cuts) \in Nat
    PROVE  \E g : Subtracts(g, nets, cuts, valid)
  <1> DEFINE last == Len(cuts)
  <1> DEFINE U == nets \cup [v : {c.v : c \in valid}, len : 0..Width, idx : Nat]
             Step(R, i) == IF cuts[i] \in valid THEN UNION {Egress!WithoutCut(p, cuts[i]) : p \in R} ELSE R
             next == [i \in Nat |-> [R \in SUBSET U |-> Step(R, i + 1)]]
  <1>1. \A n \in U : IsNet(n)
    BY DEF IsNet
  <1>2. ASSUME NEW p \in U, NEW c \in valid PROVE Egress!WithoutCut(p, c) \subseteq U
    <2>1. IsNet(p) /\ IsNet(c)
      BY <1>1
    <2>2. ASSUME NEW l \in p.len + 1..c.len, NEW prefix, prefix = c.idx \div Egress!Pow2[c.len - l]
          PROVE  [v |-> c.v, len |-> l, idx |-> IF prefix % 2 = 0 THEN prefix + 1 ELSE prefix - 1] \in U
      <3>1. l \in 0..Width /\ c.len - l \in Nat /\ c.idx \in Nat
        BY <2>1, WidthAssumption DEF IsNet
      <3>2. prefix \in Nat
        BY <2>2, <3>1, HalfPower
      <3>3. (IF prefix % 2 = 0 THEN prefix + 1 ELSE prefix - 1) \in Nat
        BY <3>2
      <3> QED
        BY <3>1, <3>3
    <2>3. Egress!AddressExclude(p, c) \subseteq U
      <3> HIDE DEF U
      <3> QED
        BY <2>2 DEF Egress!AddressExclude
    <2> QED
      BY <2>3 DEF Egress!WithoutCut
  <1>3. ASSUME NEW R \in SUBSET U, NEW i \in Nat PROVE Step(R, i) \in SUBSET U
    <2> HIDE DEF U
    <2> QED
      BY <1>2
  <1>4. next \in [Nat -> [SUBSET U -> SUBSET U]]
    <2> HIDE DEF Step, U
    <2> QED
      BY <1>3
  <1>5. PICK f : Iterates(f, SUBSET U, nets, next)
    <2>1. nets \in SUBSET U
      OBVIOUS
    <2> HIDE DEF U, next
    <2> QED
      BY <1>4, <2>1, RecursionExists
  <1> HIDE DEF U
  <1>6. f[0] = nets /\ \A i \in Nat : f[i] \in SUBSET U /\ f[i + 1] = Step(f[i], i + 1)
    <2> HIDE DEF Step
    <2> QED
      BY <1>5 DEF Iterates
  <1> HIDE DEF next
  <1> DEFINE Body(g, i) == IF i = 0 THEN nets
                           ELSE IF cuts[i] \in valid THEN UNION {Egress!WithoutCut(p, cuts[i]) : p \in g[i - 1]}
                           ELSE g[i - 1]
             h == [i \in 0..last |-> f[i]]
  <1>7. h = [i \in 0..last |-> Body(h, i)]
    <2>1. ASSUME NEW i \in 0..last PROVE f[i] = Body(h, i)
      <3>1. CASE i # 0
        <4>1. i - 1 \in Nat /\ i - 1 \in 0..last /\ (i - 1) + 1 = i
          BY <3>1
        <4>2. f[(i - 1) + 1] = Step(f[i - 1], (i - 1) + 1)
          <5> HIDE DEF Step
          <5> QED
            BY <1>6, <4>1
        <4>3. f[i] = Step(f[i - 1], i)
          <5> HIDE DEF Step
          <5> QED
            BY <4>1, <4>2
        <4>4. h[i - 1] = f[i - 1]
          BY <4>1
        <4> QED
          BY <3>1, <4>3, <4>4
      <3> QED
        BY <1>6, <3>1
    <2> HIDE DEF Body
    <2> QED
      BY <2>1
  <1> DEFINE g == CHOOSE x : x = [i \in 0..last |-> Body(x, i)]
  <1>8. g = [i \in 0..last |-> Body(g, i)]
    <2> HIDE DEF Body, h
    <2> QED
      BY <1>7
  <1>9. Egress!ExcludeNets(nets, cuts, valid) = g[last]
    BY Zenon DEF Egress!ExcludeNets
  <1> HIDE DEF g
  <1>10. g[0] = nets /\ \A i \in 1..last : g[i] = IF cuts[i] \in valid
                                               THEN UNION {Egress!WithoutCut(p, cuts[i]) : p \in g[i - 1]}
                                               ELSE g[i - 1]
    <2>1. \A i \in 0..last : g[i] = Body(g, i)
      <3> HIDE DEF Body
      <3> QED
        BY <1>8
    <2>2. 0 \in 0..last /\ \A i \in 1..last : i \in 0..last /\ i # 0
      OBVIOUS
    <2> QED
      BY <2>1, <2>2
  <1> QED
    BY <1>9, <1>10 DEF Subtracts

LEMMA ExclusionKeeps ==
    ASSUME NEW nets, \A n \in nets : IsNet(n), NEW valid, \A c \in valid : IsNet(c),
           NEW cuts, Len(cuts) \in Nat, NEW v, NEW a,
           NEW b \in nets, <<v, a>> \in Egress!Addresses(b),
           \A i \in 1..Len(cuts) : cuts[i] \in valid => <<v, a>> \notin Egress!Addresses(cuts[i])
    PROVE  \E n \in Egress!ExcludeNets(nets, cuts, valid) : IsNet(n) /\ <<v, a>> \in Egress!Addresses(n)
  <1> DEFINE last == Len(cuts)
  <1>1. PICK g : Subtracts(g, nets, cuts, valid)
    BY ExclusionUnrolls
  <1> DEFINE Kept(i) == \E n \in g[i] : IsNet(n) /\ <<v, a>> \in Egress!Addresses(n)
             Lost == {i \in 0..last : ~Kept(i)}
  <1> SUFFICES ASSUME Lost # {} PROVE FALSE
    <2>1. last \in 0..last
      OBVIOUS
    <2> QED
      BY <1>1, <2>1 DEF Subtracts
  <1>2. PICK i \in Lost : \A j \in Lost : i <= j
    BY LeastOf, Lost \in SUBSET Nat
  <1>3. i # 0
    BY <1>1, <1>2 DEF Subtracts
  <1>4. i \in 1..last /\ i - 1 \in 0..last /\ ~(i <= i - 1)
    BY <1>2, <1>3
  <1>5. PICK p \in g[i - 1] : IsNet(p) /\ <<v, a>> \in Egress!Addresses(p)
    BY <1>2, <1>4
  <1>6. CASE cuts[i] \notin valid
    BY <1>1, <1>2, <1>4, <1>5, <1>6 DEF Subtracts
  <1>7. CASE cuts[i] \in valid
    <2>1. \E n \in Egress!WithoutCut(p, cuts[i]) : IsNet(n) /\ <<v, a>> \in Egress!Addresses(n)
      BY <1>4, <1>5, <1>7, WithoutCutKeeps
    <2>2. Egress!WithoutCut(p, cuts[i]) \subseteq g[i]
      BY <1>1, <1>4, <1>5, <1>7 DEF Subtracts
    <2> QED
      BY <1>2, <2>1, <2>2
  <1> QED
    BY <1>6, <1>7

-----------------------------------------------------------------------------
(* check-netpol-except-parity.py. *)

Written(c) == Egress!Parses(c) => IsNet(c)
Ranges == UNION {[v : {4, 6}, len : {l}, idx : 0..Egress!Pow2[l] - 1] : l \in 0..Width}

\* A peer as the API server takes it: blocks are CIDRs, excepts are lists of them.
GoodPeer(q) ==
    /\ Written(q.cidr) /\ (q.kind # "ipBlock" => ~Egress!Parses(q.cidr))
    /\ Len(q.except) \in Nat /\ DOMAIN q.except = 1..Len(q.except)
    /\ \A i \in DOMAIN q.except : Written(q.except[i])

\* The policies and fences a tree or a corpus holds.
EgressOf(in) ==
    /\ in.config.fences \subseteq Ranges
    /\ \A s \in in.streams : s.state # "read" => s.docs = {}
    /\ \A s \in in.streams : \A p \in s.docs : p.kind = "NetworkPolicy" =>
          \A r \in Listed(p.egress) : \A q \in Listed(r.peers) : GoodPeer(q)

LEMMA RangeIsNet ==
    ASSUME NEW f \in Ranges
    PROVE  Egress!Parses(f) /\ IsNet(f) /\ Egress!SubnetOf(f, f)
           /\ f \in UNION {[v : Egress!Families, len : {l}, idx : 0..Egress!Pow2[l] - 1] : l \in 0..Width}
  <1>1. PICK l \in 0..Width : f \in [v : {4, 6}, len : {l}, idx : 0..Egress!Pow2[l] - 1]
    BY DEF Ranges
  <1>2. Egress!Parses(f) /\ IsNet(f)
    BY <1>1 DEF Egress!Parses, Egress!Families, IsNet
  <1>3. f.len - f.len = 0 /\ f.idx \div 1 = f.idx
    BY <1>2, WidthAssumption DEF IsNet
  <1>4. Egress!SubnetOf(f, f)
    BY <1>2, <1>3, PowersOfTwo, WidthAssumption DEF Egress!SubnetOf, IsNet
  <1> QED
    BY <1>1, <1>2, <1>4 DEF Egress!Families

\* What a peer admits is still there when the gate has cut its excepts out.
LEMMA AdmittedIsLeft ==
    ASSUME NEW q, GoodPeer(q), NEW e \in Admitted(q)
    PROVE  q.kind = "ipBlock"
           /\ \E n \in Egress!ExcludeNets(Egress!Nets({q.cidr}), q.except, Egress!Nets(Egress!Entries(q.except))) :
                 e \in Egress!Addresses(n)
  <1>1. e \in Span(q.cidr) /\ \A i \in DOMAIN q.except : e \notin Span(q.except[i])
    BY DEF Admitted
  <1>2. Egress!Parses(q.cidr) /\ e \in Egress!Addresses(q.cidr)
    BY <1>1 DEF Span
  <1>3. IsNet(q.cidr) /\ q.kind = "ipBlock"
    BY <1>2 DEF GoodPeer, Written
  <1>4. PICK v, a : e = <<v, a>>
    BY <1>2 DEF Egress!Addresses
  <1> DEFINE nets == Egress!Nets({q.cidr})
             valid == Egress!Nets(Egress!Entries(q.except))
  <1>5. q.cidr \in nets /\ \A n \in nets : IsNet(n)
    BY <1>2, <1>3 DEF Egress!Nets
  <1>6. \A c \in valid : IsNet(c)
    BY DEF Egress!Nets, Egress!Entries, GoodPeer, Written
  <1>7. \A i \in 1..Len(q.except) : q.except[i] \in valid => <<v, a>> \notin Egress!Addresses(q.except[i])
    BY <1>1, <1>4 DEF GoodPeer, Span, Egress!Nets
  <1> HIDE DEF nets, valid
  <1>8. \E n \in Egress!ExcludeNets(nets, q.except, valid) : IsNet(n) /\ <<v, a>> \in Egress!Addresses(n)
    BY <1>2, <1>4, <1>5, <1>6, <1>7, ExclusionKeeps DEF GoodPeer
  <1> QED
    BY <1>3, <1>4, <1>8 DEF nets, valid

\* A fence that the peers of a rule admit together is reported as reached.
LEMMA ReachedIsReported ==
    ASSUME NEW peers, \A q \in Listed(peers) : GoodPeer(q),
           NEW fences, NEW f \in fences, f \in Ranges,
           Span(f) \subseteq UNION {Admitted(q) : q \in Listed(peers)}
    PROVE  f \in Egress!UnfencedReach(Egress!IpBlocks(peers), fences)
  <1> DEFINE Left(b) == Egress!ExcludeNets(Egress!Nets({b.cidr}), b.except, Egress!Nets(Egress!Entries(b.except)))
             nets == UNION {Left(b) : b \in Egress!IpBlocks(peers)}
  <1>1. \A e \in Egress!Addresses(f) : \E n \in nets : e \in Egress!Addresses(n)
    <2> SUFFICES ASSUME NEW e \in Egress!Addresses(f) PROVE \E n \in nets : e \in Egress!Addresses(n)
      OBVIOUS
    <2>1. e \in Span(f)
      BY RangeIsNet DEF Span
    <2>2. PICK q \in Listed(peers) : e \in Admitted(q)
      BY <2>1
    <2>3. q \in Egress!IpBlocks(peers) /\ \E n \in Left(q) : e \in Egress!Addresses(n)
      BY <2>2, AdmittedIsLeft DEF Egress!IpBlocks, Egress!Entries, Listed
    <2> HIDE DEF Left
    <2> QED
      BY <2>3
  <1> HIDE DEF nets
  <1>2. f \in Egress!Collapse(nets)
    BY <1>1, RangeIsNet DEF Egress!Collapse
  <1> QED
    BY <1>2, RangeIsNet DEF Egress!UnfencedReach, nets

LEMMA ScanFindsNothing ==
    ASSUME NEW in, Egress!Verdict(in, Builtin) = 0, NEW s \in in.streams, s.state = "read"
    PROVE  ~Egress!ScanViolates(s.docs, Egress!LoadConfig(in.config, Builtin)) /\ ~Egress!ScanErrors(s.docs, s.rendered)
  BY DEF Egress!Verdict

LEMMA GreenIsFenced ==
    ASSUME NEW in, EgressOf(in), Egress!Verdict(in, Builtin) = 0,
           NEW s \in in.streams, NEW p \in s.docs, p.kind = "NetworkPolicy",
           "Egress" \in p.types \/ p.types = {}, ~(\E e \in in.config.allow : e.key = p.key),
           NEW r \in Listed(p.egress)
    PROVE  /\ r.peers # <<>> /\ \A q \in Listed(r.peers) : q.kind # "empty"
           /\ \A f \in IF in.config.fences = {} THEN Fences ELSE in.config.fences :
                 ~(Span(f) \subseteq UNION {Admitted(q) : q \in Listed(r.peers)})
  <1> DEFINE cfg == Egress!LoadConfig(in.config, Builtin)
             blocks == Egress!IpBlocks(r.peers)
             fences == IF in.config.fences = {} THEN Fences ELSE in.config.fences
  <1>1. s.state = "read"
    BY DEF EgressOf
  <1>2. ~Egress!ScanViolates(s.docs, cfg) /\ ~Egress!ScanErrors(s.docs, s.rendered)
    BY <1>1, ScanFindsNothing
  <1>3. p \in Egress!Policies(s.docs)
    BY DEF Egress!Policies
  <1>4. ~Egress!MalformedRules(p)
    BY <1>2, <1>3 DEF Egress!ScanErrors
  <1>5. r \in Egress!Entries(p.egress) /\ r.shape = "map" /\ p.egress # <<>>
    BY <1>4 DEF Egress!MalformedRules, Egress!Entries, Listed
  <1>6. r \in Egress!RulesOf(p) /\ Egress!HasEgress(p)
    BY <1>5 DEF Egress!RulesOf, Egress!HasEgress, Egress!PolicyTypes
  <1>7. ~Egress!RuleViolates(p, r, cfg)
    BY <1>2, <1>3, <1>6 DEF Egress!ScanViolates
  <1>8. \A b \in blocks : ~Egress!BlockViolates(b, cfg.lists)
    BY <1>2, <1>3, <1>6 DEF Egress!ScanViolates, Egress!BlocksOf
  <1>9. p.key \notin cfg.allowed /\ cfg.fences = fences
    BY DEF Egress!LoadConfig, Builtin
  <1>10. ~Egress!PeerlessEgress(r) /\ Egress!UnfencedReach(blocks, fences) = {}
    <2> HIDE DEF cfg, blocks, fences
    <2> QED
      BY <1>7, <1>8, <1>9 DEF Egress!RuleViolates, Egress!BlockViolates, blocks
  <1>11. fences \subseteq Ranges
    <2>1. 2 * 2 = 4 /\ Egress!Pow2[0] = 1 /\ Egress!Pow2[1] = 2 /\ Egress!Pow2[2] = 4
      <3>1. Egress!Pow2[0 + 1] = 2 * Egress!Pow2[0] /\ Egress!Pow2[1 + 1] = 2 * Egress!Pow2[1]
        BY PowersOfTwo
      <3> QED
        BY <3>1, PowersOfTwo
    <2>2. 2 \in 0..Width /\ 1 \in 0..Width
      BY WidthAssumption
    <2>3. Lan \in [v : {4, 6}, len : {2}, idx : 0..Egress!Pow2[2] - 1]
      BY <2>1 DEF Lan, Cidr
    <2>4. Cidr(6, 1, 1) \in [v : {4, 6}, len : {1}, idx : 0..Egress!Pow2[1] - 1]
      BY <2>1 DEF Cidr
    <2>5. Fences \subseteq Ranges
      BY <2>2, <2>3, <2>4 DEF Fences, Ranges
    <2> QED
      BY <2>5 DEF EgressOf
  <1>12. \A q \in Listed(r.peers) : GoodPeer(q)
    BY DEF EgressOf
  <1>13. \A f \in fences : ~(Span(f) \subseteq UNION {Admitted(q) : q \in Listed(r.peers)})
    <2> HIDE DEF fences
    <2> QED
      BY <1>10, <1>11, <1>12, ReachedIsReported
  <1>14. r.peers # <<>> /\ \A q \in Listed(r.peers) : q.kind # "empty"
    BY <1>5, <1>10 DEF Egress!PeerlessEgress, Egress!Entries, Listed
  <1> QED
    BY <1>13, <1>14

LEMMA DefaultRouteIsFenced ==
    ASSUME NEW in, Egress!Verdict(in, Builtin) = 0, in.config.lists = {}, EgressOf(in),
           NEW s \in in.streams, NEW p \in s.docs, p.kind = "NetworkPolicy",
           NEW r \in Listed(p.egress), NEW q \in Listed(r.peers), q.kind = "ipBlock", q.cidr = Everything(4)
    PROVE  Admitted(q) \cap Span(Lan) = {}
  <1> DEFINE cfg == Egress!LoadConfig(in.config, Builtin)
  <1>1. s.state = "read"
    BY DEF EgressOf
  <1>2. ~Egress!ScanViolates(s.docs, cfg) /\ ~Egress!ScanErrors(s.docs, s.rendered)
    BY <1>1, ScanFindsNothing
  <1>3. p \in Egress!Policies(s.docs)
    BY DEF Egress!Policies
  <1>4. r \in Egress!RulesOf(p)
    BY <1>2, <1>3 DEF Egress!ScanErrors, Egress!MalformedRules, Egress!Entries, Egress!RulesOf, Listed
  <1>5. q \in Egress!IpBlocks(r.peers)
    BY DEF Egress!IpBlocks, Egress!Entries, Listed
  <1>6. ~Egress!BlockViolates(q, cfg.lists)
    BY <1>2, <1>3, <1>4, <1>5 DEF Egress!ScanViolates, Egress!BlocksOf
  <1>7. cfg.lists = {LanFence, Reserved}
    BY DEF Egress!LoadConfig, Builtin
  <1>8. q.cidr.len = 0
    BY DEF Everything, Cidr
  <1>9. q.except \in {LanFence, Reserved}
    BY <1>6, <1>7, <1>8 DEF Egress!BlockViolates, Egress!ZeroPrefix, Egress!Classified
  <1>10. 1 \in DOMAIN q.except /\ q.except[1] = Lan
    BY <1>9 DEF LanFence, Reserved
  <1> QED
    BY <1>10 DEF Admitted

\* The bounded inputs are such inputs.
LEMMA SmallPowers ==
    /\ Egress!Pow2[0] = 1 /\ Egress!Pow2[1] = 2 /\ Egress!Pow2[2] = 4 /\ Egress!Pow2[3] = 8
  <1>1. /\ Egress!Pow2[0 + 1] = 2 * Egress!Pow2[0] /\ Egress!Pow2[1 + 1] = 2 * Egress!Pow2[1]
        /\ Egress!Pow2[2 + 1] = 2 * Egress!Pow2[2]
    BY PowersOfTwo
  <1> QED
    BY <1>1, PowersOfTwo

LEMMA CidrIsNet ==
    ASSUME NEW v \in {4, 6}, NEW l \in 0..3, NEW i \in 0..Egress!Pow2[l] - 1
    PROVE  IsNet(Cidr(v, l, i)) /\ Cidr(v, l, i) \in Ranges
  <1>1. l \in 0..Width /\ l \in Nat /\ Egress!Pow2[l] \in Nat
    BY WidthAssumption, PowersOfTwo
  <1>2. Cidr(v, l, i) \in [v : {4, 6}, len : {l}, idx : 0..Egress!Pow2[l] - 1]
    BY DEF Cidr
  <1> QED
    BY <1>1, <1>2 DEF IsNet, Ranges, Cidr

LEMMA WrittenBlocks ==
    /\ \A c \in V4Blocks \cup V6Blocks \cup NoBlocks : Written(c)
    /\ \A e \in V4Excepts \cup V6Excepts : /\ Len(e) \in Nat /\ DOMAIN e = 1..Len(e)
                                           /\ \A i \in DOMAIN e : Written(e[i])
  <1> USE SmallPowers, CidrIsNet
  <1>1. /\ IsNet(Everything(4)) /\ IsNet(Everything(6)) /\ IsNet(Cidr(4, 1, 0)) /\ IsNet(Cidr(4, 1, 1))
        /\ IsNet(Cidr(6, 1, 1))
    BY DEF Everything
  <1>2. IsNet(Lan) /\ IsNet(Cidr(6, 2, 2))
    BY DEF Lan
  <1>3. IsNet(Cidr(4, 3, 2)) /\ IsNet(Cidr(4, 3, 3)) /\ IsNet(Cidr(4, 3, 7)) /\ IsNet(Cidr(6, 3, 5))
    OBVIOUS
  <1>4. \A c \in NoBlocks : ~Egress!Parses(c)
    BY DEF NoBlocks, Garbage, Cidr, Egress!Parses, Egress!Families, Egress!Unparseable, Egress!Placeholder
  <1>5. \A c \in V4Blocks \cup V6Blocks \cup NoBlocks : Written(c)
    BY <1>1, <1>2, <1>3, <1>4 DEF V4Blocks, V6Blocks, Written
  <1>6. \A e \in V4Excepts \cup V6Excepts : /\ Len(e) \in Nat /\ DOMAIN e = 1..Len(e)
                                            /\ \A i \in DOMAIN e : IsNet(e[i])
    BY <1>1, <1>2, <1>3 DEF V4Excepts, V6Excepts, LanFence, Reserved
  <1> QED
    BY <1>5, <1>6 DEF Written

LEMMA PeersAreGood == \A q \in EgressPeers : GoodPeer(q)
  <1> SUFFICES ASSUME NEW q \in EgressPeers PROVE GoodPeer(q)
    OBVIOUS
  <1>1. ASSUME NEW c \in V4Blocks \cup V6Blocks \cup NoBlocks, NEW e \in V4Excepts \cup V6Excepts \cup {<<>>},
               q = Block(c, e)
        PROVE  GoodPeer(q)
    <2>1. q.cidr = c /\ q.except = e /\ q.kind = "ipBlock"
      BY <1>1 DEF Block
    <2>2. Len(e) \in Nat /\ DOMAIN e = 1..Len(e) /\ \A i \in DOMAIN e : Written(e[i])
      BY WrittenBlocks
    <2> QED
      BY <2>1, <2>2, WrittenBlocks DEF GoodPeer
  <1>2. ASSUME NEW kind, q = Peer(kind) PROVE GoodPeer(q)
    BY <1>2 DEF GoodPeer, Peer, Written, Garbage, Cidr, Egress!Parses, Egress!Families, Egress!Unparseable
  <1> QED
    BY <1>1, <1>2 DEF EgressPeers

LEMMA RulesAreGood ==
    \A r \in EgressRules \cup {Shut, NoRule} : \A q \in Listed(r.peers) : GoodPeer(q)
  <1>1. \A kind : GoodPeer(Peer(kind))
    BY DEF GoodPeer, Peer, Written, Garbage, Cidr, Egress!Parses, Egress!Families, Egress!Unparseable
  <1>2. \A p \in EgressPeers : Listed(<<p>>) = {p}
    BY DEF Listed
  <1>3. \A p \in EgressPeers \X EgressPeers : Listed(p) \subseteq EgressPeers
    BY DEF Listed
  <1>4. Listed(<<>>) = {} /\ Listed(<<Peer("selector")>>) = {Peer("selector")}
    BY DEF Listed
  <1> QED
    BY <1>1, <1>2, <1>3, <1>4, PeersAreGood DEF EgressRules, EgressRule, Shut, NoRule

LEMMA BoundedEgress == \A in \in EgressInputs : EgressOf(in)
  <1> SUFFICES ASSUME NEW in \in EgressInputs PROVE EgressOf(in)
    OBVIOUS
  <1> DEFINE Fair(p) == \A r \in Listed(p.egress) : \A q \in Listed(r.peers) : GoodPeer(q)
  <1>1. \A c \in Configs : c.fences \subseteq Ranges
    BY CidrIsNet, SmallPowers DEF Configs, NoConfig, Allow
  <1>2. NoConfig \in Configs
    BY DEF Configs
  <1>3. \A t : \A r \in EgressRules : Fair(Policy(t, <<r>>))
    BY RulesAreGood DEF Policy, Listed
  <1>4. \A t : \A r \in EgressRules \cup {NoRule} : Fair(Policy(t, <<Shut, r>>))
    BY RulesAreGood DEF Policy, Listed
  <1>5. \A t : Fair(Policy(t, <<Shut>>))
    BY RulesAreGood DEF Policy, Listed
  <1>6. ASSUME NEW c \in Configs, NEW streams,
               \A s \in streams : s.state # "read" => s.docs = {},
               \A s \in streams : \A p \in s.docs : Fair(p),
               in = Judging(c, streams)
        PROVE  EgressOf(in)
    BY <1>6, <1>1 DEF EgressOf, Judging
  <1> HIDE DEF Fair
  <1>7. CASE in \in JudgedAlone
    <2>1. PICK r \in EgressRules : in = Judging(NoConfig, Alone(r))
      BY <1>7 DEF JudgedAlone
    <2>2. \A s \in Alone(r) : s.state = "read" /\ s.docs = {Policy({"Egress"}, <<r>>)}
      BY DEF Alone, Stream
    <2> QED
      BY <2>1, <2>2, <1>2, <1>3, <1>6
  <1>8. CASE in \in JudgedAfterShut
    <2>1. PICK c \in Configs, t \in {{}, {"Ingress"}, {"Egress"}}, rendered \in BOOLEAN,
                r \in {q \in EgressRules : Len(q.peers) < 2} \cup {NoRule} :
                in = Judging(c, AfterShut(t, r, rendered))
      BY <1>8 DEF JudgedAfterShut
    <2>2. \A s \in AfterShut(t, r, rendered) : s.state = "read" /\ s.docs = {Policy(t, <<Shut, r>>)}
      BY DEF AfterShut, Stream
    <2> QED
      BY <2>1, <2>2, <1>4, <1>6
  <1>9. CASE in \in JudgedMisread
    <2>1. PICK s \in Misread, t \in ReadBeside : in = Judging(NoConfig, {s, t})
      BY <1>9 DEF JudgedMisread
    <2>2. s.docs = {} /\ t.state = "read" /\ \A p \in t.docs : Fair(p)
      BY <1>5 DEF Misread, ReadBeside, Stream
    <2> QED
      BY <2>1, <2>2, <1>2, <1>6
  <1> QED
    BY <1>7, <1>8, <1>9 DEF EgressInputs

-----------------------------------------------------------------------------
\* The default-deny gate has its copy of the address arithmetic.
LEMMA SameSubtraction ==
    /\ \A nets, cuts, valid : Deny!ExcludeNets(nets, cuts, valid) = Egress!ExcludeNets(nets, cuts, valid)
    /\ \A c : Deny!Parses(c) <=> Egress!Parses(c)
    /\ \A s : Deny!Entries(s) = Egress!Entries(s)
  <1>1. \A nets, cuts, valid : Deny!ExcludeNets(nets, cuts, valid) = Egress!ExcludeNets(nets, cuts, valid)
    BY Zenon DEF Deny!ExcludeNets, Egress!ExcludeNets, Deny!WithoutCut, Egress!WithoutCut,
                 Deny!AddressExclude, Egress!AddressExclude, Deny!SubnetOf, Egress!SubnetOf,
                 Deny!Pow2, Egress!Pow2
  <1> QED
    BY <1>1, Zenon DEF Deny!Parses, Egress!Parses, Deny!Families, Egress!Families, Deny!Entries, Egress!Entries

\* A block that holds every address of a family has an empty prefix.
LEMMA WholeFamily ==
    ASSUME NEW c, Written(c), NEW v \in {4, 6}, Span(c) = Span(Everything(v))
    PROVE  Egress!Parses(c) /\ IsNet(c) /\ c.len = 0
  <1>1. IsNet(Everything(v)) /\ Egress!Parses(Everything(v)) /\ Everything(v).len = 0
        /\ Everything(v).idx = 0 /\ Everything(v).v = v
    BY WidthAssumption DEF Everything, Cidr, IsNet, Egress!Parses, Egress!Families
  <1>2. Span(Everything(v)) = Egress!Addresses(Everything(v))
    BY <1>1 DEF Span
  <1>3. \A a : <<v, a>> \in Span(c) <=> a \in Nat /\ Prefix(a, 0) = 0
    BY <1>1, <1>2, InBlock
  <1>4. Egress!Pow2[Width] \in Nat \ {0} /\ 0 \div Egress!Pow2[Width] = 0
    BY PowersOfTwo, WidthAssumption
  <1>5. Prefix(0, 0) = 0
    BY <1>4, WidthAssumption DEF Prefix
  <1>6. Egress!Parses(c) /\ IsNet(c)
    BY <1>3, <1>5 DEF Span, Written
  <1>7. \A a : a \in Nat /\ Prefix(a, 0) = 0 => Prefix(a, c.len) = c.idx
    BY <1>3, <1>6, InBlock DEF Span
  <1>8. c.len \in 0..Width /\ Width - c.len \in Nat
    BY <1>6, WidthAssumption DEF IsNet
  <1> DEFINE s == Egress!Pow2[Width - c.len]
  <1>9. s \in Nat \ {0} /\ 0 \div s = 0 /\ s \div s = 1
    BY <1>8, PowersOfTwo
  <1>10. Prefix(0, c.len) = 0 /\ Prefix(s, c.len) = 1
    BY <1>9 DEF Prefix
  <1>11. ASSUME c.len # 0 PROVE FALSE
    <2>1. c.len - 1 \in Nat /\ (c.len - 1) + 1 = c.len
      BY <1>8, <1>11
    <2>2. Egress!Pow2[c.len] = 2 * Egress!Pow2[c.len - 1] /\ Egress!Pow2[c.len - 1] \in Nat \ {0}
      BY <2>1, PowersOfTwo
    <2>3. Egress!Pow2[c.len] \in Nat /\ Egress!Pow2[c.len] >= 2
      BY <2>2
    <2>4. 1 \div Egress!Pow2[c.len] = 0
      BY <2>3
    <2>5. Prefix(s, c.len - c.len) = Prefix(s, c.len) \div Egress!Pow2[c.len]
      BY <1>8, <1>9, PrefixOfPrefix
    <2>6. Prefix(s, 0) = 0
      BY <2>4, <2>5, <1>8, <1>10
    <2> QED
      BY <1>7, <1>5, <1>9, <1>10, <2>6
  <1> QED
    BY <1>6, <1>11

\* The policies a corpus holds, as the API server takes them.
DenyOf(in) ==
    \A p \in Judged(in) : \A dir \in Deny!Directions : \A r \in p.rules[dir] :
        \A q \in r.peers : q.kind = "ipBlock" => GoodPeer(q)

\* The gate reports a peer that lets everyone in.
LEMMA OpenPeerIsSeen ==
    ASSUME NEW q, q.kind = "ipBlock" => GoodPeer(q), LetsAllIn(q)
    PROVE  Deny!PeerSelectsEverything(q)
  <1>1. CASE q.kind = "pods"
    BY <1>1 DEF LetsAllIn, Anyone, Deny!PeerSelectsEverything, Deny!SelectsAllPods
  <1>2. CASE q.kind = "ipBlock"
    <2>1. GoodPeer(q) /\ Written(q.cidr)
      BY <1>2 DEF GoodPeer
    <2>2. PICK v \in {4, 6} : Span(q.cidr) = Span(Everything(v))
      BY <1>2 DEF LetsAllIn
    <2>3. PICK e \in Span(q.cidr) : \A c \in Listed(q.except) \ {q.cidr} : e \notin Span(c)
      BY <1>2 DEF LetsAllIn
    <2>4. Egress!Parses(q.cidr) /\ IsNet(q.cidr) /\ q.cidr.len = 0
      BY <2>1, <2>2, WholeFamily
    <2> DEFINE valid == {c \in Deny!Entries(q.except) : Deny!Parses(c) /\ c # q.cidr /\ Deny!SubnetOf(c, q.cidr)}
    <2>5. \A c \in valid : Egress!Parses(c) /\ c # q.cidr
      BY SameSubtraction
    <2>6. \A c \in valid : IsNet(c)
      BY <2>1, <2>5 DEF Deny!Entries, GoodPeer, Written
    <2>7. e \in Egress!Addresses(q.cidr)
      BY <2>4 DEF Span
    <2>8. PICK w, a : e = <<w, a>>
      BY <2>7 DEF Egress!Addresses
    <2>9. \A i \in 1..Len(q.except) : q.except[i] \in valid => <<w, a>> \notin Egress!Addresses(q.except[i])
      <3> SUFFICES ASSUME NEW i \in 1..Len(q.except), q.except[i] \in valid
                   PROVE  <<w, a>> \notin Egress!Addresses(q.except[i])
        OBVIOUS
      <3>1. q.except[i] \in Listed(q.except) \ {q.cidr}
        BY <2>1, <2>5 DEF GoodPeer, Listed
      <3>2. e \notin Span(q.except[i]) /\ Egress!Parses(q.except[i])
        BY <3>1, <2>3, <2>5
      <3> QED
        BY <3>2, <2>8 DEF Span
    <2> HIDE DEF valid
    <2>10. Egress!ExcludeNets({q.cidr}, q.except, valid) # {}
      <3>1. q.cidr \in {q.cidr} /\ (\A n \in {q.cidr} : IsNet(n)) /\ Len(q.except) \in Nat
        BY <2>1, <2>4 DEF GoodPeer
      <3> QED
        BY <3>1, <2>6, <2>7, <2>8, <2>9, ExclusionKeeps
    <2>11. ~Deny!ExceptsCoverCidr(q.except, q.cidr)
      BY <2>10, SameSubtraction DEF Deny!ExceptsCoverCidr, valid
    <2> QED
      BY <1>2, <2>4, <2>11 DEF Deny!PeerSelectsEverything, Deny!ZeroPrefix
  <1> QED
    BY <1>1, <1>2 DEF LetsAllIn

Denied(in, ns, dir) ==
    /\ \E p \in Judged(in) : Deny!DocNamespace(p.ns) = ns /\ Isolates(p, dir)
    /\ \A p \in Judged(in) : Deny!DocNamespace(p.ns) = ns /\ Isolates(p, dir) =>
        \A r \in p.rules[dir] : r.shape = "map" /\ ~r.ports =>
            r.peers # {} /\ \A q \in r.peers : ~LetsAllIn(q)

LEMMA FencedIsDenied ==
    ASSUME NEW in, DenyOf(in), NEW dir \in Deny!Directions, NEW ns \in Deny!Fenced(in.corpus.docs, dir)
    PROVE  Denied(in, ns, dir)
  <1> DEFINE wide == {p \in Deny!NamespaceWide(in.corpus.docs) : Deny!Restricts(p, dir)}
             open == {p \in wide : Deny!AllowsAll(p, dir)}
  <1>1. /\ \E p \in wide : Deny!DocNamespace(p.ns) = ns
        /\ \A p \in wide : Deny!DocNamespace(p.ns) = ns => ~Deny!AllowsAll(p, dir)
    BY DEF Deny!Fenced
  <1>2. \A p : p \in wide <=> p \in Judged(in) /\ Isolates(p, dir)
    <2> SUFFICES ASSUME NEW p PROVE p \in wide <=> p \in Judged(in) /\ Isolates(p, dir)
      OBVIOUS
    <2>1. Deny!SelectsAllPods(p.pods) <=> Anyone(p.pods)
      BY DEF Deny!SelectsAllPods, Anyone
    <2>2. Deny!Restricts(p, dir) <=> dir \in p.types \/ (p.types = {} /\ (dir = "Ingress" \/ p.rules["Egress"] # {}))
      BY DEF Deny!Restricts, Deny!PolicyTypes, Deny!Directions
    <2> QED
      BY <2>1, <2>2 DEF Deny!NamespaceWide, Judged, Isolates
  <1> HIDE DEF wide
  <1>3. ASSUME NEW p \in Judged(in), Deny!DocNamespace(p.ns) = ns, Isolates(p, dir), NEW r \in p.rules[dir],
               r.shape = "map", ~r.ports
        PROVE  r.peers # {} /\ \A q \in r.peers : ~LetsAllIn(q)
    <2>1. ~Deny!AllowsAll(p, dir)
      BY <1>1, <1>2, <1>3
    <2>2. \A q \in r.peers : q.kind = "ipBlock" => GoodPeer(q)
      BY DEF DenyOf
    <2>3. r.peers # {} /\ \A q \in r.peers : ~Deny!PeerSelectsEverything(q)
      BY <1>3, <2>1, <2>2 DEF Deny!AllowsAll
    <2> QED
      BY <2>2, <2>3, OpenPeerIsSeen
  <1> QED
    BY <1>1, <1>2, <1>3 DEF Denied

LEMMA GreenIsClosed ==
    ASSUME NEW in, DenyOf(in), Deny!Verdict(in) = 0
    PROVE  /\ \A ns \in Deny!WorkloadNamespaces(in.corpus.docs) \ ({e.ns : e \in in.exempt} \cup {"flux-system"}) :
                  Denied(in, ns, "Ingress")
           /\ \A ns \in in.requireEgress : Denied(in, ns, "Egress")
  <1>1. /\ Deny!WorkloadNamespaces(in.corpus.docs) \subseteq
             Deny!Fenced(in.corpus.docs, "Ingress") \cup Deny!Exempt(in)
        /\ in.requireEgress \subseteq Deny!Fenced(in.corpus.docs, "Egress")
    BY DEF Deny!Verdict, Deny!Directions
  <1>2. "Ingress" \in Deny!Directions /\ "Egress" \in Deny!Directions
    BY DEF Deny!Directions
  <1> QED
    BY <1>1, <1>2, FencedIsDenied DEF Deny!Exempt

LEMMA WrittenDeny ==
    /\ \A c \in DenyBlocks : Written(c)
    /\ \A e \in DenyExcepts : Len(e) \in Nat /\ DOMAIN e = 1..Len(e) /\ \A i \in DOMAIN e : Written(e[i])
  <1> USE SmallPowers, CidrIsNet
  <1>1. IsNet(Everything(4)) /\ IsNet(Cidr(4, 1, 0)) /\ IsNet(Cidr(4, 1, 1)) /\ IsNet(Cidr(6, 1, 0))
    BY DEF Everything
  <1>2. IsNet(Lan) /\ IsNet(Cidr(4, 2, 1)) /\ IsNet(Cidr(4, 2, 0))
    BY DEF Lan
  <1>3. ~Egress!Parses(Garbage(0))
    BY DEF Garbage, Cidr, Egress!Parses, Egress!Families, Egress!Unparseable
  <1>4. \A e \in DenyExcepts : Len(e) \in Nat /\ DOMAIN e = 1..Len(e) /\ \A i \in DOMAIN e : IsNet(e[i])
    BY <1>1, <1>2 DEF DenyExcepts
  <1> QED
    BY <1>1, <1>3, <1>4 DEF DenyBlocks, Written

Tidy(p) == \A dir \in Deny!Directions : \A r \in p.rules[dir] :
               \A q \in r.peers : q.kind = "ipBlock" => GoodPeer(q)

LEMMA PoliciesAreTidy ==
    ASSUME NEW p, p \in DenyPolicies \/ p = ClosesAll \/ p = DenyPolicy(Selector("empty"), {}, {}, {})
    PROVE  Tidy(p)
  <1>1. \A q \in DenyPeers : q.kind = "ipBlock" => GoodPeer(q)
    <2>1. \A c \in DenyBlocks, e \in DenyExcepts : GoodPeer(IpPeer(c, e))
      BY WrittenDeny DEF GoodPeer, IpPeer
    <2>2. \A n, m : PodPeer(n, m).kind # "ipBlock"
      BY DEF PodPeer
    <2> QED
      BY <2>1, <2>2 DEF DenyPeers
  <1>2. \A r \in DenyRules : \A q \in r.peers : q.kind = "ipBlock" => GoodPeer(q)
    BY <1>1 DEF DenyRules, Rule
  <1>3. \A s \in RuleSets : s \subseteq DenyRules
    BY DEF RuleSets
  <1>4. ASSUME NEW pods, NEW types, NEW i \in RuleSets, NEW o \in RuleSets
        PROVE  Tidy(DenyPolicy(pods, types, i, o))
    BY <1>2, <1>3 DEF DenyPolicy, Tidy, Deny!Directions
  <1>5. {} \in RuleSets
    BY DEF RuleSets
  <1> QED
    BY <1>4, <1>5 DEF DenyPolicies, ClosesAll

LEMMA BoundedDeny == \A in \in DenyInputs : DenyOf(in)
  <1> SUFFICES ASSUME NEW in \in DenyInputs PROVE DenyOf(in)
    OBVIOUS
  <1>1. ASSUME \A p \in in.corpus.docs : p.kind = "NetworkPolicy" => Tidy(p)
        PROVE  DenyOf(in)
    BY <1>1 DEF DenyOf, Judged, Tidy
  <1>2. CASE in \in Demands
    <2>1. PICK e \in {{}, {"a"}}, p \in DenyPolicies, b \in {{}, {ClosesAll}} : in = Demanding(e, p, b)
      BY <1>2 DEF Demands
    <2>2. in.corpus.docs = {Workload("a"), p} \cup b
      BY <2>1 DEF Demanding, Reads
    <2>3. Workload("a").kind # "NetworkPolicy"
      BY DEF Workload
    <2> QED
      BY <2>2, <2>3, <1>1, PoliciesAreTidy
  <1>3. CASE in \in Exceptions
    <2>1. PICK x \in {{}, {[ns |-> "b", reason |-> TRUE]}, {[ns |-> "b", reason |-> FALSE]}},
               c \in {NoDocs} \cup {Reads(d) : d \in SUBSET Owning} : in = Excepting(x, c)
      BY <1>3 DEF Exceptions
    <2>2. in.corpus.docs \subseteq Owning
      BY <2>1 DEF Excepting, NoDocs, Reads
    <2>3. \A d \in Owning : d.kind = "NetworkPolicy" => d = DenyPolicy(Selector("empty"), {}, {}, {})
      <3>1. /\ \A ns : Workload(ns).kind # "NetworkPolicy"
            /\ \A ns, target : Release(ns, target).kind # "NetworkPolicy"
        BY DEF Workload, Release
      <3> QED
        BY <3>1, Zenon DEF Owning
    <2> QED
      BY <2>2, <2>3, <1>1, PoliciesAreTidy
  <1> QED
    BY <1>2, <1>3 DEF DenyInputs

-----------------------------------------------------------------------------
(* What the inhibit gate looks at, and what Alertmanager does with it. *)

\* Rule files and matchers of the shapes Prometheus and Alertmanager take: a label has one
\* value, a name is no label of a rule, a matcher that is no regex is not a broken one.
Sequenced(w) == w \in Seq(Listed(w))
GoodAlert(r) == /\ Sequenced(r.alert)
                /\ \A p \in r.labels : p[1] # "alertname"
                /\ \A p, q \in r.labels : p[1] = q[1] => p[2] = q[2]
GoodMatcher(m) == /\ m.op \in {"=", "=~", "!=", "!~"}
                  /\ m.label = "alertname" /\ m.op \in {"=", "!="} => m.form # "broken"
RulesOf(in) == Listed(in.rules) \cup UNION {Listed(c.rules) : c \in in.config.corpora}
InhibitOf(in) ==
    /\ Sequenced(in.rules) /\ \A c \in in.config.corpora : Sequenced(c.rules)
    /\ \A c, d \in in.config.corpora : c.rules = d.rules
    /\ \A r \in RulesOf(in) : GoodAlert(r)
    /\ \A p \in in.config.pairs : p = Pair(p.critical, p.warning, p.equal)
    /\ \A i \in in.inhibits : \A m \in i.source \cup i.target : GoodMatcher(m)

Gathered(in) == Inhibit!WithCorpora(in.rules, in.config.corpora)

LEMMA BothAreListed ==
    ASSUME NEW T, NEW a \in Seq(T), NEW b \in Seq(T)
    PROVE  Inhibit!Range(a \o b) = Listed(a) \cup Listed(b)
  <1>1. Len(a) \in Nat /\ Len(b) \in Nat /\ DOMAIN a = 1..Len(a) /\ DOMAIN b = 1..Len(b)
        /\ DOMAIN (a \o b) = 1..Len(a) + Len(b)
    OBVIOUS
  <1>2. \A k \in 1..Len(a) + Len(b) : (a \o b)[k] = IF k <= Len(a) THEN a[k] ELSE b[k - Len(a)]
    OBVIOUS
  <1>3. \A x : x \in Listed(a) => \E k \in 1..Len(a) + Len(b) : (a \o b)[k] = x
    BY <1>1, <1>2 DEF Listed
  <1>4. ASSUME NEW x \in Listed(b) PROVE \E k \in 1..Len(a) + Len(b) : (a \o b)[k] = x
    <2>1. PICK k \in 1..Len(b) : b[k] = x
      BY <1>1 DEF Listed
    <2>2. Len(a) + k \in 1..Len(a) + Len(b) /\ ~(Len(a) + k <= Len(a)) /\ (Len(a) + k) - Len(a) = k
      BY <1>1
    <2> QED
      BY <1>2, <2>1, <2>2
  <1>5. \A k \in 1..Len(a) + Len(b) : (a \o b)[k] \in Listed(a) \cup Listed(b)
    <2> SUFFICES ASSUME NEW k \in 1..Len(a) + Len(b) PROVE (a \o b)[k] \in Listed(a) \cup Listed(b)
      OBVIOUS
    <2>1. k \in 1..Len(a) \/ k - Len(a) \in 1..Len(b)
      BY <1>1
    <2>2. (a \o b)[k] = IF k <= Len(a) THEN a[k] ELSE b[k - Len(a)]
      BY <1>2
    <2> HIDE DEF Listed
    <2>3. CASE k <= Len(a)
      BY <1>1, <2>2, <2>3 DEF Listed
    <2>4. CASE ~(k <= Len(a))
      BY <1>1, <2>1, <2>2, <2>4 DEF Listed
    <2> QED
      BY <2>3, <2>4
  <1> QED
    BY <1>1, <1>3, <1>4, <1>5 DEF Inhibit!Range

LEMMA CorpusIsAll ==
    ASSUME NEW in, InhibitOf(in)
    PROVE  Inhibit!Range(Gathered(in)) = RulesOf(in)
  <1> DEFINE S == {c.rules : c \in in.config.corpora}
  <1>1. CASE S = {}
    <2>1. Gathered(in) = in.rules
      BY <1>1 DEF Gathered, Inhibit!WithCorpora
    <2>2. RulesOf(in) = Listed(in.rules)
      BY <1>1 DEF RulesOf
    <2> QED
      BY <2>1, <2>2 DEF Inhibit!Range, Listed
  <1>2. CASE S # {}
    <2>1. PICK c \in in.config.corpora : TRUE
      BY <1>2
    <2>2. \A d \in in.config.corpora : d.rules = c.rules
      BY <2>1 DEF InhibitOf
    <2>3. S = {c.rules}
      BY <2>1, <2>2
    <2>4. (CHOOSE r \in S : TRUE) = c.rules
      BY <2>3
    <2>5. Gathered(in) = in.rules \o c.rules
      BY <1>2, <2>4 DEF Gathered, Inhibit!WithCorpora
    <2>6. RulesOf(in) = Listed(in.rules) \cup Listed(c.rules)
      BY <2>1, <2>2 DEF RulesOf
    <2> DEFINE a == in.rules
               b == c.rules
               T == Listed(a) \cup Listed(b)
    <2>7. a \in Seq(T) /\ b \in Seq(T)
      BY <2>1 DEF InhibitOf, Sequenced
    <2>8. Inhibit!Range(a \o b) = Listed(a) \cup Listed(b)
      BY <2>7, BothAreListed
    <2> QED
      BY <2>5, <2>6, <2>8
  <1> QED
    BY <1>1, <1>2

\* What the name of an alert has to satisfy, and what its labels.
LEMMA NameSatisfies ==
    ASSUME NEW m, m.label = "alertname", m.form # "broken",
           NEW n, NEW labels, \A p \in labels : p[1] # "alertname"
    PROVE  Satisfies(Labelled(n, labels), m) <=> (n \in m.vals <=> m.op \in {"=", "=~"})
  <1> DEFINE all == Labelled(n, labels)
             found == {p[2] : p \in {q \in all : q[1] = m.label}} \cup
                          IF \E q \in all : q[1] = m.label THEN {} ELSE {<<>>}
  <1>1. <<"alertname", n>> \in all /\ \A q \in all : q[1] = "alertname" => q = <<"alertname", n>>
    BY DEF Labelled
  <1>2. found = {n}
    BY <1>1
  <1> HIDE DEF found
  <1> QED
    BY <1>2 DEF Satisfies, found

LEMMA LabelSatisfies ==
    ASSUME NEW r, GoodAlert(r), NEW m, m.label # "alertname"
    PROVE  Satisfies(Labelled(r.alert, r.labels), m) <=>
               m.form # "broken" /\ (Inhibit!Value(r, m.label) \in m.vals <=> m.op \in {"=", "=~"})
  <1> DEFINE all == Labelled(r.alert, r.labels)
             found == {p[2] : p \in {q \in all : q[1] = m.label}} \cup
                          IF \E q \in all : q[1] = m.label THEN {} ELSE {<<>>}
  <1>1. \A q : q \in all /\ q[1] = m.label <=> q \in r.labels /\ q[1] = m.label
    BY DEF Labelled
  <1>2. CASE \E p \in r.labels : p[1] = m.label
    <2>1. PICK p \in r.labels : p = (CHOOSE q \in r.labels : q[1] = m.label) /\ p[1] = m.label
      BY <1>2
    <2>2. Inhibit!Value(r, m.label) = p[2]
      BY <1>2, <2>1 DEF Inhibit!Value, Inhibit!Declares
    <2>3. \A q \in r.labels : q[1] = m.label => q[2] = p[2]
      BY <2>1 DEF GoodAlert
    <2>4. found = {p[2]}
      BY <1>1, <2>1, <2>3
    <2> HIDE DEF found
    <2> QED
      BY <2>2, <2>4 DEF Satisfies, found
  <1>3. CASE ~\E p \in r.labels : p[1] = m.label
    <2>1. Inhibit!Value(r, m.label) = <<>>
      BY <1>3 DEF Inhibit!Value, Inhibit!Declares, Inhibit!Nothing
    <2>2. found = {<<>>}
      BY <1>1, <1>3
    <2> HIDE DEF found
    <2> QED
      BY <2>1, <2>2 DEF Satisfies, found
  <1> QED
    BY <1>2, <1>3

\* A side that the gate lets bind a name selects one of the alerts of this name, or names
\* none at all.
LEMMA AdmittedIsSelected ==
    ASSUME NEW in, InhibitOf(in), NEW side, \A m \in side : GoodMatcher(m),
           NEW name, Inhibit!SideAdmits(side, name, Gathered(in)), ~Contradicts(side)
    PROVE  \/ \E r \in RulesOf(in) : r.alert = name /\ Selects(side, Labelled(name, r.labels))
           \/ \A labels : (\A p \in labels : p[1] # "alertname") => Selects(side, Labelled(name, labels))
  <1> DEFINE Pos == Inhibit!Positive(side)
             Neg == Inhibit!Negative(side)
             pinned == Inhibit!ExactAlertnames(side)
             others == {m \in side : m.label # "alertname"}
  <1>1. \A m : m \in Pos <=> m \in side /\ m.label = "alertname" /\ m.op \in {"=", "=~"}
    BY DEF Inhibit!Positive, Inhibit!MatchersFor
  <1>2. \A m : m \in Neg <=> m \in side /\ m.label = "alertname" /\ m.op \in {"!=", "!~"}
    BY DEF Inhibit!Negative, Inhibit!MatchersFor
  <1>3. \A m \in Pos \cup Neg : m.op \in {"=~", "!~"} => m.form = "plain"
    BY DEF Inhibit!SideAdmits, Inhibit!NotAnAlternation
  <1>4. \A m \in side : m.label = "alertname" => m.form # "broken" /\ (m \in Pos \/ m \in Neg)
    BY <1>1, <1>2, <1>3 DEF GoodMatcher
  <1>5. pinned = {n \in UNION {m.vals : m \in Pos} : \A m \in Pos : n \in m.vals}
    BY <1>3 DEF Inhibit!ExactAlertnames, Inhibit!NotAnAlternation
  <1>6. \A m \in Neg : name \notin m.vals
    <2>1. Inhibit!NegatedAlertnames(side) = UNION {m.vals : m \in Neg}
      BY <1>3 DEF Inhibit!NegatedAlertnames, Inhibit!NotAnAlternation
    <2> QED
      BY <2>1 DEF Inhibit!SideAdmits
  <1>7. pinned = {} \/ name \in pinned
    BY DEF Inhibit!SideAdmits
  <1> HIDE DEF Pos, Neg, pinned
  <1>8. \A m \in Pos : name \in m.vals
    <2>1. CASE Pos = {}
      BY <2>1
    <2>2. CASE pinned # {}
      BY <2>2, <1>5, <1>7
    <2>3. CASE Pos # {} /\ pinned = {}
      <3> DEFINE naming == {m \in side : m.label = "alertname"}
                 pins == {m \in naming : m.op \in {"=", "=~"}}
      <3>1. pins = Pos
        BY <1>1
      <3>2. ASSUME NEW n \in UNION {m.vals : m \in pins} PROVE ~Selects(naming, Labelled(n, {}))
        <4>1. PICK m \in Pos : n \notin m.vals
          BY <2>3, <3>1, <3>2, <1>5
        <4>2. m \in naming /\ m.label = "alertname" /\ m.form # "broken" /\ m.op \in {"=", "=~"}
          BY <4>1, <1>1, <1>4
        <4>3. ~Satisfies(Labelled(n, {}), m)
          BY <4>1, <4>2, NameSatisfies
        <4> QED
          BY <4>2, <4>3 DEF Selects
      <3>3. Contradicts(side)
        BY <2>3, <3>1, <3>2 DEF Contradicts
      <3> QED
        BY <3>3
    <2> QED
      BY <2>1, <2>2, <2>3
  <1>9. ASSUME NEW m \in side, m.label = "alertname",
               NEW labels, \A p \in labels : p[1] # "alertname"
        PROVE  Satisfies(Labelled(name, labels), m)
    <2>1. name \in m.vals <=> m.op \in {"=", "=~"}
      BY <1>1, <1>2, <1>4, <1>6, <1>8, <1>9
    <2> QED
      BY <1>4, <1>9, <2>1, NameSatisfies
  <1>10. CASE pinned # {} /\ others = {}
    <2>1. \A m \in side : m.label = "alertname"
      BY <1>10
    <2> QED
      BY <1>9, <2>1 DEF Selects
  <1>11. CASE \E r \in Inhibit!AlertRules(Gathered(in), name) : Inhibit!MatchesLabels(r, others)
    <2>1. PICK r \in Inhibit!AlertRules(Gathered(in), name) : Inhibit!MatchesLabels(r, others)
      BY <1>11
    <2>2. r \in RulesOf(in) /\ r.alert = name /\ GoodAlert(r)
      BY <2>1, CorpusIsAll DEF Inhibit!AlertRules, InhibitOf
    <2>3. ASSUME NEW m \in side, m.label # "alertname" PROVE Satisfies(Labelled(name, r.labels), m)
      BY <2>1, <2>2, <2>3, LabelSatisfies DEF Inhibit!MatchesLabels
    <2>4. Selects(side, Labelled(name, r.labels))
      BY <1>9, <2>2, <2>3 DEF Selects, GoodAlert
    <2> QED
      BY <2>2, <2>4
  <1> QED
    BY <1>10, <1>11 DEF Inhibit!SideAdmits, pinned

\* A name that follows another is one that the gate tries.
LEMMA SameSequence ==
    ASSUME NEW S, NEW a \in Seq(S), NEW b \in Seq(S), Len(a) = Len(b), \A k \in 1..Len(a) : a[k] = b[k]
    PROVE  a = b
  OBVIOUS

LEMMA CandidateOf ==
    ASSUME NEW w, NEW markers, NEW suffixes, NEW s \in suffixes,
           NEW c \in Inhibit!WithSuffix(w, s, markers), c # w
    PROVE  c \in Inhibit!EscalationCandidates(w, suffixes, markers)
  <1> DEFINE With(t) == Inhibit!WithSuffix(w, t, markers)
             all == {With(t) : t \in suffixes}
  <1>1. Inhibit!EscalationCandidates(w, suffixes, markers) = (UNION all) \ {w}
    BY Zenon DEF Inhibit!EscalationCandidates
  <1>2. With(s) \in all /\ c \in With(s)
    OBVIOUS
  <1> HIDE DEF all, With
  <1>3. c \in UNION all
    BY <1>2
  <1> QED
    BY <1>1, <1>3

LEMMA TriedNames ==
    ASSUME NEW w, Sequenced(w), NEW c, Sequenced(c), NEW s, NEW suffixes, s \in suffixes, NEW markers, c # w,
           \/ c = Append(w, s)
           \/ /\ Len(w) > 1 /\ w[Len(w)] \in markers
              /\ Len(c) \in {Len(w), Len(w) + 1}
              /\ c[Len(w)] = s /\ \A k \in 1..Len(w) - 1 : c[k] = w[k]
              /\ Len(c) > Len(w) => c[Len(c)] = w[Len(w)]
    PROVE  c \in Inhibit!EscalationCandidates(w, suffixes, markers)
  <1> SUFFICES c \in Inhibit!WithSuffix(w, s, markers)
    BY CandidateOf
  <1> DEFINE S == Listed(w) \cup Listed(c) \cup {s}
             n == Len(w)
             stem == SubSeq(w, 1, n - 1)
             marker == w[n]
             Marked == n > 1 /\ marker \in markers
  <1>1. w \in Seq(S) /\ c \in Seq(S) /\ s \in S /\ n \in Nat
    BY DEF Sequenced
  <1>2. CASE c = Append(w, s)
    <2>1. c = w \o <<s>>
      BY <1>1, <1>2
    <2> QED
      BY <2>1 DEF Inhibit!WithSuffix
  <1>3. CASE c # Append(w, s)
    <2>1. /\ n > 1 /\ marker \in markers /\ Len(c) \in {n, n + 1}
          /\ c[n] = s /\ \A k \in 1..n - 1 : c[k] = w[k]
          /\ Len(c) > n => c[Len(c)] = marker
      BY <1>3
    <2>2. marker \in S
      BY <1>1, <2>1
    <2> HIDE DEF S, n, marker, Marked
    <2>3. stem \in Seq(S) /\ Len(stem) = n - 1 /\ \A k \in 1..n - 1 : stem[k] = w[k]
      BY <1>1, <2>1 DEF n
    <2> HIDE DEF stem
    <2>4. CASE Len(c) = n
      <3>1. stem \o <<s>> \in Seq(S) /\ Len(stem \o <<s>>) = n
        BY <1>1, <2>1, <2>3
      <3>2. \A k \in 1..n : (stem \o <<s>>)[k] = IF k = n THEN s ELSE stem[k]
        BY <1>1, <2>1, <2>3
      <3>3. \A k \in 1..n : c[k] = (stem \o <<s>>)[k]
        BY <1>1, <2>1, <2>3, <3>2
      <3>4. c = stem \o <<s>>
        BY <1>1, <2>4, <3>1, <3>3, SameSequence
      <3> QED
        BY <2>1, <3>4 DEF Marked, Inhibit!WithSuffix, stem, marker, n
    <2>5. CASE Len(c) = n + 1
      <3>1. stem \o <<s, marker>> \in Seq(S) /\ Len(stem \o <<s, marker>>) = n + 1
        BY <1>1, <2>1, <2>2, <2>3
      <3>2. \A k \in 1..n + 1 : (stem \o <<s, marker>>)[k] =
                IF k = n + 1 THEN marker ELSE IF k = n THEN s ELSE stem[k]
        BY <1>1, <2>1, <2>2, <2>3
      <3>3. \A k \in 1..n + 1 : c[k] = (stem \o <<s, marker>>)[k]
        BY <1>1, <2>1, <2>3, <2>5, <3>2
      <3>4. c = stem \o <<s, marker>>
        BY <1>1, <2>5, <3>1, <3>3, SameSequence
      <3> QED
        BY <2>1, <3>4 DEF Marked, Inhibit!WithSuffix, stem, marker, n
    <2> QED
      BY <2>1, <2>4, <2>5
  <1> QED
    BY <1>2, <1>3

\* The escalations of an input, and that the gate looks at them.
LEMMA SeverityIsRead ==
    ASSUME InhibitOf(input), NEW name, NEW s, Severity(name, s)
    PROVE  <<s>> \in Inhibit!Severities(Gathered(input), name)
           /\ (name # <<>> => name \in Inhibit!KnownAlertnames(Gathered(input)))
  <1>1. PICK r \in RulesOf(input) : r.alert = name /\ Sev(s) \in r.labels
    BY DEF Severity, AllRules, RulesOf
  <1>2. GoodAlert(r) /\ Sev(s)[1] = "severity" /\ Sev(s)[2] = <<s>>
    BY DEF InhibitOf, Sev
  <1>3. Inhibit!Value(r, "severity") = <<s>>
    BY <1>1, <1>2 DEF GoodAlert, Inhibit!Value, Inhibit!Declares
  <1>4. r \in Inhibit!Range(Gathered(input))
    BY <1>1, CorpusIsAll
  <1> QED
    BY <1>1, <1>3, <1>4 DEF Inhibit!Severities, Inhibit!AlertRules, Inhibit!KnownAlertnames, Inhibit!Nothing

LEMMA EscalationsAreLookedAt ==
    ASSUME InhibitOf(input), NEW p \in Declared \cup Shown,
           \A x \in input.config.exceptions : <<x.critical, x.warning>> # <<p.critical, p.warning>>
    PROVE  p \in Inhibit!EscalationPairs(Gathered(input), input.config)
  <1> DEFINE config == input.config
             Filled(q) == [q EXCEPT !.equal = IF @ = {} THEN config.equal ELSE @]
             declared == Inhibit!DeclaredPairs(config)
             derived == {q \in Inhibit!DeriveEscalationPairs(Gathered(input), config) :
                             \A d \in declared : ~Inhibit!Same(q, d)}
  <1>1. Declared = declared
    <2>1. ASSUME NEW q \in config.pairs
          PROVE  Filled(q) = Pair(q.critical, q.warning, IF q.equal = {} THEN config.equal ELSE q.equal)
      BY DEF InhibitOf, Pair
    <2>2. declared = {Filled(q) : q \in config.pairs}
      BY DEF Inhibit!DeclaredPairs
    <2> HIDE DEF Filled
    <2> QED
      BY <2>1, <2>2 DEF Declared
  <1>2. ASSUME p \in Shown PROVE p \in derived
    <2>1. /\ p = [critical |-> p.critical, warning |-> p.warning, equal |-> config.equal]
          /\ p.critical # <<>> /\ p.warning # <<>>
          /\ p.critical # p.warning /\ Follows(p.critical, p.warning)
          /\ Severity(p.critical, "critical") /\ Severity(p.warning, "warning")
          /\ \A q \in Declared : <<q.critical, q.warning>> # <<p.critical, p.warning>>
      BY <1>2 DEF Shown
    <2>2. Sequenced(p.critical) /\ Sequenced(p.warning)
      BY <2>1 DEF Severity, AllRules, RulesOf, InhibitOf, GoodAlert
    <2>3. p.critical \in Inhibit!EscalationCandidates(p.warning, config.suffixes, config.markers)
      BY <2>1, <2>2, TriedNames DEF Follows
    <2>4. /\ <<"critical">> \in Inhibit!Severities(Gathered(input), p.critical)
          /\ <<"warning">> \in Inhibit!Severities(Gathered(input), p.warning)
          /\ p.critical \in Inhibit!KnownAlertnames(Gathered(input))
          /\ p.warning \in Inhibit!KnownAlertnames(Gathered(input))
      BY <2>1, SeverityIsRead
    <2>5. p \in Inhibit!DeriveEscalationPairs(Gathered(input), config)
      <3> DEFINE q == <<p.critical, p.warning>>
      <3>1. q \in Inhibit!KnownAlertnames(Gathered(input)) \X Inhibit!KnownAlertnames(Gathered(input))
            /\ q[1] = p.critical /\ q[2] = p.warning
        BY <2>4
      <3>2. p = [critical |-> q[1], warning |-> q[2], equal |-> config.equal]
        BY <2>1
      <3> HIDE DEF q
      <3> QED
        BY <2>3, <2>4, <3>1, <3>2 DEF Inhibit!DeriveEscalationPairs
    <2> QED
      BY <1>1, <2>1, <2>5 DEF Inhibit!Same
  <1>3. p \in declared \cup derived
    BY <1>1, <1>2
  <1>4. \A x \in config.exceptions : ~Inhibit!Same(p, x)
    BY DEF Inhibit!Same
  <1> QED
    BY <1>3, <1>4 DEF Inhibit!EscalationPairs, Inhibit!Same

\* What a verdict of the inhibit gate rules out.
LEMMA NoProblemIsLeft ==
    ASSUME NEW in, Inhibit!Verdict(in) = 0
    PROVE  /\ ~Inhibit!EscalationProblem(in.inhibits, Gathered(in), in.config)
           /\ ~Inhibit!EqualScopeProblem(in.inhibits, in.rules)
           /\ \A i \in in.inhibits :
                  /\ Inhibit!ParseMatchers(i.source) = i.source /\ Inhibit!ParseMatchers(i.target) = i.target
                  /\ i.target # {}
                  /\ ~Inhibit!NotAnAlternation(Inhibit!Positive(i.target) \cup Inhibit!Negative(i.target))
  <1> DEFINE known == Inhibit!KnownAlertnames(Gathered(in)) \cup in.config.upstream
  <1>1. /\ ~Inhibit!InhibitProblem(in.inhibits, known)
        /\ ~Inhibit!EscalationProblem(in.inhibits, Gathered(in), in.config)
        /\ ~Inhibit!EqualScopeProblem(in.inhibits, in.rules)
    BY DEF Inhibit!Verdict, Gathered
  <1> HIDE DEF known
  <1> QED
    BY <1>1 DEF Inhibit!InhibitProblem

LEMMA AnInstanceIsSelected ==
    ASSUME InhibitOf(input), NEW side, \A m \in side : GoodMatcher(m),
           NEW name, Inhibit!SideAdmits(side, name, Gathered(input)), ~Contradicts(side)
    PROVE  \E l \in Instances(name) : Selects(side, l)
  <1> DEFINE rs == {r \in AllRules : r.alert = name}
  <1>1. AllRules = RulesOf(input)
    BY DEF AllRules, RulesOf
  <1>2. \A r \in rs : Labelled(name, r.labels) \in Instances(name)
    BY DEF Instances
  <1>3. rs = {} => Labelled(name, {}) \in Instances(name)
    BY DEF Instances
  <1>4. \A r \in rs : \A p \in r.labels : p[1] # "alertname"
    BY <1>1 DEF InhibitOf, GoodAlert
  <1>5. \A r : r \in rs <=> r \in RulesOf(input) /\ r.alert = name
    BY <1>1
  <1> HIDE DEF rs
  <1>6. \/ \E r \in rs : Selects(side, Labelled(name, r.labels))
        \/ \A labels : (\A p \in labels : p[1] # "alertname") => Selects(side, Labelled(name, labels))
    BY <1>5, AdmittedIsSelected
  <1>7. CASE \E r \in rs : Selects(side, Labelled(name, r.labels))
    BY <1>2, <1>7
  <1>8. CASE \A labels : (\A p \in labels : p[1] # "alertname") => Selects(side, Labelled(name, labels))
    <2>1. CASE rs = {}
      <3>1. Selects(side, Labelled(name, {}))
        BY <1>8
      <3> QED
        BY <1>3, <2>1, <3>1
    <2>2. CASE rs # {}
      BY <1>2, <1>4, <1>8, <2>2
    <2> QED
      BY <2>1, <2>2
  <1> QED
    BY <1>6, <1>7, <1>8

LEMMA EscalationsPageOnce ==
    ASSUME InhibitOf(input), Inhibit!Verdict(input) = 0,
           NEW p \in Declared \cup Shown,
           \A x \in input.config.exceptions : <<x.critical, x.warning>> # <<p.critical, p.warning>>
    PROVE  \E i \in input.inhibits :
               \/ Contradicts(i.source) \/ Contradicts(i.target)
               \/ /\ "alertname" \notin i.equal /\ p.equal \subseteq i.equal
                  /\ \E l \in Instances(p.critical) : Selects(i.source, l)
                  /\ \E l \in Instances(p.warning) : Selects(i.target, l)
  <1>1. p \in Inhibit!EscalationPairs(Gathered(input), input.config)
    BY EscalationsAreLookedAt
  <1>2. PICK i \in input.inhibits : Inhibit!Binds(i, p, Gathered(input))
    BY <1>1, NoProblemIsLeft DEF Inhibit!EscalationProblem
  <1>3. /\ "alertname" \notin i.equal /\ p.equal \subseteq i.equal
        /\ Inhibit!SideAdmits(i.source, p.critical, Gathered(input))
        /\ Inhibit!SideAdmits(i.target, p.warning, Gathered(input))
    BY <1>2, NoProblemIsLeft DEF Inhibit!Binds
  <1>4. \A m \in i.source \cup i.target : GoodMatcher(m)
    BY <1>2 DEF InhibitOf
  <1>5. ~Contradicts(i.source) => \E l \in Instances(p.critical) : Selects(i.source, l)
    BY <1>3, <1>4, AnInstanceIsSelected
  <1>6. ~Contradicts(i.target) => \E l \in Instances(p.warning) : Selects(i.target, l)
    BY <1>3, <1>4, AnInstanceIsSelected
  <1> QED
    BY <1>2, <1>3, <1>5, <1>6

LEMMA NoneIsMutedForever ==
    ASSUME InhibitOf(input), Inhibit!Verdict(input) = 0,
           NEW i \in input.inhibits, NEW r \in Listed(input.rules), r.alert # <<>>, i.equal # {},
           \A m \in i.target : m.label = "alertname" => m.op \in {"!=", "!~"},
           Selects(i.target, Labelled(r.alert, r.labels))
    PROVE  \E l \in i.equal : \/ l = "alertname" \/ \E p \in r.labels : p[1] = l
                              \/ r.expr.by = {} \/ \E g \in r.expr.by : l \in g
  <1> DEFINE tgt == i.target
             Neg == Inhibit!Negative(tgt)
  <1>1. /\ Inhibit!ParseMatchers(i.target) = tgt /\ tgt # {}
        /\ ~Inhibit!NotAnAlternation(Inhibit!Positive(tgt) \cup Neg)
        /\ ~Inhibit!EqualScopeProblem(input.inhibits, input.rules)
    BY NoProblemIsLeft
  <1>2. Inhibit!Positive(tgt) = {}
    BY DEF Inhibit!Positive, Inhibit!MatchersFor
  <1>3. Inhibit!ExactAlertnames(tgt) = {}
    BY <1>2 DEF Inhibit!ExactAlertnames
  <1>4. ~Inhibit!NotAnAlternation(Neg)
    BY <1>1, <1>2
  <1>5. GoodAlert(r)
    BY DEF InhibitOf, RulesOf
  <1>6. \A m \in Neg : m \in tgt /\ m.label = "alertname" /\ m.op \in {"!=", "!~"} /\ m.form # "broken"
    BY <1>4 DEF InhibitOf, GoodMatcher, Inhibit!NotAnAlternation, Inhibit!Negative, Inhibit!MatchersFor
  <1> HIDE DEF Neg
  <1>7. \A m \in Neg : r.alert \notin m.vals
    <2> SUFFICES ASSUME NEW m \in Neg PROVE r.alert \notin m.vals
      OBVIOUS
    <2>1. Satisfies(Labelled(r.alert, r.labels), m)
      BY <1>6 DEF Selects
    <2>2. Satisfies(Labelled(r.alert, r.labels), m) <=> (r.alert \in m.vals <=> m.op \in {"=", "=~"})
      BY <1>5, <1>6, NameSatisfies DEF GoodAlert
    <2>3. m.op \notin {"=", "=~"}
      BY <1>6
    <2> QED
      BY <2>1, <2>2, <2>3
  <1>8. r.alert \notin Inhibit!NegatedAlertnames(tgt) \cup {Inhibit!Nothing}
    BY <1>4, <1>7 DEF Inhibit!NegatedAlertnames, Inhibit!Nothing, Neg
  <1>9. Inhibit!MatchesLabels(r, tgt)
    <2> SUFFICES ASSUME NEW m \in tgt, m.label # "alertname"
                 PROVE  m.form # "broken" /\ (Inhibit!Value(r, m.label) \in m.vals <=> m.op \in {"=", "=~"})
      BY DEF Inhibit!MatchesLabels
    <2> QED
      BY <1>5, LabelSatisfies DEF Selects
  <1>10. r \in Inhibit!Range(input.rules)
    BY DEF Inhibit!Range, Listed
  <1>11. "alertname" \notin i.equal => ~\A l \in i.equal : ~Inhibit!Declares(r, l) /\ Inhibit!AggregatesAway(r.expr, l)
    BY <1>1, <1>3, <1>4, <1>8, <1>9, <1>10 DEF Inhibit!EqualScopeProblem, Neg
  <1> QED
    BY <1>11 DEF Inhibit!Declares, Inhibit!AggregatesAway

LEMMA AlertsReachSomeone ==
    ASSUME gate = "inhibits" => InhibitOf(input) /\ result = Inhibit!Verdict(input)
    PROVE  PagesOnce /\ NothingMutedForever
  <1> SUFFICES ASSUME gate = "inhibits", result = 0 PROVE PagesOnce /\ NothingMutedForever
    BY DEF PagesOnce, NothingMutedForever
  <1>1. InhibitOf(input) /\ Inhibit!Verdict(input) = 0
    OBVIOUS
  <1>2. PagesOnce
    BY <1>1, EscalationsPageOnce DEF PagesOnce
  <1>3. NothingMutedForever
    BY <1>1, NoneIsMutedForever DEF NothingMutedForever
  <1> QED
    BY <1>2, <1>3

LEMMA BoundedMatchers == \A m \in Matchers : GoodMatcher(m)
  <1>1. ASSUME NEW label, NEW op \in {"=", "=~", "!=", "!~"}, NEW vals, NEW form,
               label # "alertname" \/ form # "broken"
        PROVE  GoodMatcher(M(label, op, vals, form))
    BY <1>1 DEF GoodMatcher, M
  <1> QED
    BY <1>1, Zenon DEF Matchers

LEMMA BoundedRules == \A rules \in Corpora : Sequenced(rules) /\ \A r \in Listed(rules) : GoodAlert(r)
  <1>1. Sequenced(Warn) /\ Sequenced(Crit) /\ Sequenced(Oth) /\ Sequenced(OthCrit)
    BY DEF Sequenced, Listed, Warn, Crit, Oth, OthCrit
  <1>2. ASSUME NEW name, Sequenced(name), NEW labels, NEW by,
               \A p \in labels : p[1] # "alertname", \A p, q \in labels : p[1] = q[1] => p[2] = q[2]
        PROVE  GoodAlert(AlertRule(name, labels, by))
    BY <1>2 DEF GoodAlert, AlertRule
  <1>3. \A s : Sev(s)[1] = "severity"
    BY DEF Sev
  <1>4. \A s, by : \A n \in {Warn, Crit, Oth, OthCrit} : GoodAlert(AlertRule(n, {Sev(s)}, by))
    BY <1>1, <1>2, <1>3
  <1>5. \A by : GoodAlert(AlertRule(Oth, {}, by))
    BY <1>1, <1>2
  <1>6. \A s, by : GoodAlert(AlertRule(Warn, {Sev(s), <<"team", <<"disk">>>>}, by))
    BY <1>1, <1>2, <1>3
  <1>7. \A a, b : /\ Sequenced(<<a, b>>) /\ Listed(<<a, b>>) = {a, b}
    BY DEF Sequenced, Listed
  <1>8. \A a, b, c : /\ Sequenced(<<a, b, c>>) /\ Listed(<<a, b, c>>) = {a, b, c}
    BY DEF Sequenced, Listed
  <1> HIDE DEF Warn, Crit, Oth, OthCrit
  <1> SUFFICES ASSUME NEW rules \in Corpora PROVE Sequenced(rules) /\ \A r \in Listed(rules) : GoodAlert(r)
    OBVIOUS
  <1>9. CASE rules = <<AlertRule(Warn, {Sev("warning")}, {}), AlertRule(Crit, {Sev("critical")}, {})>>
    BY <1>4, <1>7, <1>9
  <1>10. CASE rules = <<AlertRule(Warn, {Sev("warning"), <<"team", <<"disk">>>>}, {{"ns"}}),
                        AlertRule(Crit, {Sev("critical")}, {}), AlertRule(Oth, {}, {{"job"}})>>
    BY <1>4, <1>5, <1>6, <1>8, <1>10
  <1>11. CASE rules = <<AlertRule(Oth, {Sev("warning")}, {{"ns", "job"}}), AlertRule(OthCrit, {Sev("critical")}, {{"job"}})>>
    BY <1>4, <1>7, <1>11
  <1> QED
    BY <1>9, <1>10, <1>11, Zenon DEF Corpora

LEMMA BoundedInhibits == \A in \in InhibitInputs : InhibitOf(in)
  <1>1. ASSUME NEW in, in.rules \in Corpora, in.config.corpora = {},
               \A p \in in.config.pairs : p = Pair(p.critical, p.warning, p.equal),
               \A i \in in.inhibits : \A m \in i.source \cup i.target : GoodMatcher(m)
        PROVE  InhibitOf(in)
    BY <1>1, BoundedRules DEF InhibitOf, RulesOf
  <1>2. \A rules, is : Extracted(rules, is).rules = rules /\ Extracted(rules, is).inhibits = is
                        /\ Extracted(rules, is).config = Escalations
    BY DEF Extracted
  <1>3. Escalations.corpora = {} /\ Escalations.pairs = {}
    BY DEF Escalations
  <1>4. \A s \in Sides : \A m \in s : GoodMatcher(m)
    BY BoundedMatchers DEF Sides
  <1>5. \A s, t, e : Silences(s, t, e).source = s /\ Silences(s, t, e).target = t
    BY DEF Silences
  <1>6. /\ GoodMatcher(M("severity", "=", {<<"critical">>}, "exact"))
        /\ GoodMatcher(M("alertname", "=", {Crit}, "exact")) /\ GoodMatcher(M("alertname", "=", {Warn}, "exact"))
    BY DEF GoodMatcher, M
  <1> DEFINE ofCrit == {M("alertname", "=", {Crit}, "exact")}
             ofWarn == {M("alertname", "=", {Warn}, "exact")}
  <1>7. \A m \in ByName1.source \cup ByName1.target : GoodMatcher(m)
    <2>1. \A m \in ofCrit \cup ofWarn : GoodMatcher(m)
      BY <1>6
    <2>2. ByName1 = Silences(ofCrit, ofWarn, {"ns"})
      BY DEF ByName1
    <2> HIDE DEF ofCrit, ofWarn
    <2> QED
      BY <1>5, <2>1, <2>2
  <1> HIDE DEF ofCrit, ofWarn
  <1> SUFFICES ASSUME NEW in \in InhibitInputs PROVE InhibitOf(in)
    OBVIOUS
  <1>8. CASE in \in SilenceInputs
    <2>1. PICK rules \in Corpora, source \in Sides, target \in Sides, equal \in {{"ns"}, {"job", "ns"}} :
                   in = Extracted(rules, {Silences(source, target, equal)})
      BY <1>8 DEF SilenceInputs
    <2> QED
      BY <1>1, <1>2, <1>3, <1>4, <1>5, <2>1
  <1>9. CASE in \in ScopeInputs
    <2>1. PICK rules \in Corpora, target \in Sides,
               equal \in {{}, {"job"}, {"ns"}, {"alertname", "ns"}, {"severity"}} : in = Scoped(rules, target, equal)
      BY <1>9 DEF ScopeInputs
    <2>2. \A m \in Critical : GoodMatcher(m)
      BY <1>6 DEF Critical
    <2>3. in.rules = rules /\ in.inhibits = {ByName1, Silences(Critical, target, equal)} /\ in.config = Escalations
      BY <1>2, <2>1 DEF Scoped
    <2> QED
      BY <1>1, <1>3, <1>4, <1>5, <1>7, <2>2, <2>3
  <1>10. ASSUME NEW rules \in Corpora, NEW is \in {{}, {ByName1}}, NEW p \in PairChoices, NEW x, NEW u, NEW k
         PROVE  InhibitOf(Paired(rules, is, p, x, u, k))
    <2> DEFINE it == Paired(rules, is, p, x, u, k)
    <2>1. Configured(p, x, u, k).corpora = {} /\ Configured(p, x, u, k).pairs = p
      BY DEF Configured, Escalations
    <2>2. it.rules = rules /\ it.inhibits = is /\ it.config = Configured(p, x, u, k)
      BY DEF Paired, Extracted
    <2>3. \A c, w, e : Pair(c, w, e) = Pair(Pair(c, w, e).critical, Pair(c, w, e).warning, Pair(c, w, e).equal)
      BY DEF Pair
    <2>4. \A q \in p : q = Pair(q.critical, q.warning, q.equal)
      BY <2>3 DEF PairChoices
    <2> HIDE DEF it
    <2>5. InhibitOf(it)
      BY <1>1, <1>7, <2>1, <2>2, <2>4
    <2> QED
      BY <2>5 DEF it
  <1>11. CASE in \in PairInputs
    BY <1>10, <1>11 DEF PairInputs
  <1> QED
    BY <1>8, <1>9, <1>11 DEF InhibitInputs

-----------------------------------------------------------------------------
(* check-scrape-netpol.py. *)

\* Selectors as the API server admits them: a label has one value.
GoodSelector(s) ==
    /\ s = [given |-> s.given, shape |-> s.shape, labels |-> s.labels, exprs |-> s.exprs]
    /\ s.given \in BOOLEAN
    /\ \A k, l \in s.labels : k[1] = l[1] => k = l
GoodSource(q) ==
    /\ q.kind = "pods" => GoodSelector(q.namespaces) /\ GoodSelector(q.pods)
    /\ q.kind = "ipBlock" /\ q.except = "none" /\ Scrape!Parses(q.cidr) /\ q.cidr.len = 0 => q = ScrapeIp(q.cidr.v, 0, "none")
ScrapeOf(in) ==
    \A p \in Judged(in) : GoodSelector(p.pods) /\ \A r \in p.rules : \A q \in r.peers : GoodSource(q)

LEMMA NameIsEnough ==
    ASSUME NEW s, GoodSelector(s), s.shape = "ok", \A l \in s.labels : l[1] = NameLabel,
           \A e \in s.exprs : e.fields /\ e.key = NameLabel /\ e.op = "In" /\ Observability \in e.values,
           s.exprs = {} => NsName(Observability) \in s.labels,
           \A l \in s.labels : s.exprs = {}
    PROVE  MatchesAnyway(s, ScrapeNs)
  <1> SUFFICES ASSUME NEW more, \A l \in more, k \in ScrapeNs : l[1] # k[1] PROVE Matches(s, ScrapeNs \cup more)
    BY DEF MatchesAnyway, More
  <1> DEFINE all == ScrapeNs \cup more
  <1>1. NsName(Observability) \in all /\ NsName(Observability)[1] = NameLabel /\ NsName(Observability)[2] = Observability
    BY DEF ScrapeNs, NsName
  <1> HIDE DEF all
  <1>2. \A l \in s.labels : l = NsName(Observability)
    BY <1>1 DEF GoodSelector
  <1>3. \A values : Observability \in values => Holds(all, NameLabel, "In", values)
    BY <1>1 DEF Holds
  <1>4. \A l \in s.labels : Holds(all, l[1], "In", {l[2]})
    BY <1>1, <1>2, <1>3
  <1>5. \A e \in s.exprs : e.fields /\ Holds(all, e.key, e.op, e.values)
    BY <1>3
  <1> QED
    BY <1>4, <1>5 DEF Matches, all

\* The selector {} matches whatever there is.
LEMMA AllMatch ==
    ASSUME NEW s, s.shape = "ok", s.labels = {}, s.exprs = {}
    PROVE  \A labels : Matches(s, labels)
  BY DEF Matches

LEMMA PodsMatch ==
    ASSUME NEW pods, GoodSelector(pods), NEW scraper, Scrape!AdmitsScraper(pods, scraper),
           pods # Labels({}), pods.given
    PROVE  Matches(pods, scraper)
  <1>1. ~Scrape!SelectsAll(pods)
    BY DEF Scrape!SelectsAll, GoodSelector, Labels
  <1>2. Scrape!LabelSelectorIsApiValid(pods) /\ Scrape!SelectorMatches(pods, scraper)
    BY <1>1 DEF Scrape!AdmitsScraper
  <1>3. \A l \in pods.labels : Holds(scraper, l[1], "In", {l[2]})
    BY <1>2 DEF Scrape!SelectorMatches, Holds
  <1>4. ASSUME NEW e \in pods.exprs PROVE e.fields /\ Holds(scraper, e.key, e.op, e.values)
    <2>1. e.fields /\ e.op \in {"In", "NotIn", "Exists", "DoesNotExist"}
      BY <1>2 DEF Scrape!LabelSelectorIsApiValid, Scrape!ExprIsValid, Scrape!Operators
    <2> DEFINE own == Scrape!Values(scraper, e.key)
    <2>2. /\ e.op = "In" => own \cap e.values # {}
          /\ e.op = "NotIn" => own \cap e.values = {}
          /\ e.op = "Exists" => own # {}
          /\ e.op = "DoesNotExist" => own = {}
      BY <1>2 DEF Scrape!SelectorMatches
    <2>3. own = {l[2] : l \in {m \in scraper : m[1] = e.key}}
      BY DEF Scrape!Values
    <2> HIDE DEF own
    <2> QED
      BY <2>1, <2>2, <2>3 DEF Holds
  <1>5. pods.shape = "ok"
    BY <1>2 DEF Scrape!LabelSelectorIsApiValid
  <1> QED
    BY <1>3, <1>4, <1>5 DEF Matches

LEMMA ObservabilityIsLetIn ==
    ASSUME NEW peer, GoodSource(peer), NEW scraper, Scrape!SelectsObservability(peer, scraper)
    PROVE  LetsScraperIn(peer, scraper) \/ TwoNames(peer)
  <1> DEFINE ns == peer.namespaces
             Names(e) == e.fields /\ e.key = NameLabel /\ e.op = "In" /\ Observability \in e.values
  <1>1. peer.kind = "pods" /\ ns.given /\ ns.shape = "ok" /\ GoodSelector(ns) /\ GoodSelector(peer.pods)
    BY DEF Scrape!SelectsObservability, GoodSource
  <1>2. CASE Scrape!SelectsAll(ns)
    <2>1. Scrape!AdmitsScraper(peer.pods, scraper)
      BY <1>2 DEF Scrape!SelectsObservability
    <2>2. MatchesAnyway(ns, ScrapeNs)
      BY <1>2, AllMatch DEF MatchesAnyway, Scrape!SelectsAll
    <2> QED
      BY <1>1, <2>1, <2>2, PodsMatch DEF LetsScraperIn
  <1>3. CASE ~Scrape!SelectsAll(ns) /\ ~TwoNames(peer)
    <2>1. /\ \A l \in ns.labels : l[1] = NameLabel
          /\ \A e \in ns.exprs : Names(e)
          /\ <<NameLabel, Observability>> \in ns.labels \/ \E e \in ns.exprs : Names(e)
          /\ scraper = {} \/ Scrape!AdmitsScraper(peer.pods, scraper)
      BY <1>3 DEF Scrape!SelectsObservability
    <2>2. \A l \in ns.labels : ns.exprs = {}
      BY <1>1, <1>3, <2>1 DEF TwoNames
    <2>3. MatchesAnyway(ns, ScrapeNs)
      BY <1>1, <2>1, <2>2, NameIsEnough DEF NsName
    <2>4. ns # Labels({})
      BY <1>3 DEF Labels, Scrape!SelectsAll
    <2>5. peer.pods # Labels({}) /\ peer.pods.given => scraper = {} \/ Matches(peer.pods, scraper)
      BY <1>1, <2>1, PodsMatch
    <2> QED
      BY <1>1, <2>3, <2>4, <2>5 DEF LetsScraperIn
  <1> QED
    BY <1>2, <1>3

LEMMA ScrapesAreAdmitted ==
    ASSUME ScrapeOf(input), Scrape!Verdict(input) = 0,
           NEW ns \in (Monitored \cap {PutIn(p) : p \in {q \in Judged(input) : Shuts(q)}}) \ {e.ns : e \in input.exempt}
    PROVE  \E p \in Judged(input) : PutIn(p) = ns /\ \E r \in p.rules :
               \/ r.peers = {} /\ p.pods = Labels({})
               \/ \A v \in {4, 6} : ScrapeIp(v, 0, "none") \in r.peers
               \/ \E peer \in r.peers : LetsScraperIn(peer, input.scraper) \/ TwoNames(peer)
  <1> DEFINE docs == input.corpus.docs
  <1>1. \A d : PutIn(d) = Scrape!DocNamespace(d.ns)
    BY DEF PutIn, Scrape!DocNamespace
  <1>2. \A m : Watched(m) = Scrape!MonitorNamespaces(m)
    BY <1>1 DEF Watched, Scrape!MonitorNamespaces
  <1>3. ns \in Scrape!Scraped(docs)
    <2> DEFINE monitors == OfCorpus({"ServiceMonitor", "PodMonitor"})
               charts == {x \in OfCorpus({"HelmRelease"}) : x.toggle}
               theirs == Scrape!Kind(docs, Scrape!MonitorKinds)
               brought == {x \in Scrape!Kind(docs, {"HelmRelease"}) : x.toggle}
    <2>1. monitors = theirs /\ charts = brought
      BY DEF OfCorpus, Scrape!Kind, Scrape!MonitorKinds
    <2>2. Scrape!Scraped(docs) = (UNION {Scrape!MonitorNamespaces(m) : m \in theirs})
              \cup {IF h.target # "" THEN h.target ELSE Scrape!DocNamespace(h.ns) : h \in brought}
      BY DEF Scrape!Scraped
    <2>3. Monitored = (UNION {Watched(m) : m \in monitors}) \cup {IF h.target # "" THEN h.target ELSE PutIn(h) : h \in charts}
      BY DEF Monitored
    <2>4. ns \in Monitored
      OBVIOUS
    <2> HIDE DEF monitors, charts, theirs, brought
    <2>5. CASE \E m \in monitors : ns \in Watched(m)
      <3>1. PICK m \in theirs : ns \in Scrape!MonitorNamespaces(m)
        BY <1>2, <2>1, <2>5
      <3> QED
        BY <2>2, <3>1
    <2>6. CASE \E h \in charts : ns = IF h.target # "" THEN h.target ELSE PutIn(h)
      BY <1>1, <2>1, <2>2, <2>6
    <2> QED
      BY <2>3, <2>4, <2>5, <2>6
  <1>4. ASSUME NEW p \in Judged(input), Shuts(p), PutIn(p) = ns PROVE ns \in Scrape!Restricted(docs)
    <2>1. Scrape!NamespaceWide(p)
      BY <1>4 DEF Shuts, Labels, Scrape!NamespaceWide, Scrape!SelectsAll
    <2>2. "Ingress" \in Scrape!PolicyTypes(p.types, p.hasEgress)
      BY <1>4 DEF Shuts, Scrape!PolicyTypes
    <2>3. p \in Scrape!IngressPolicies(docs)
      BY <2>2 DEF Scrape!IngressPolicies, Scrape!Kind, Judged
    <2> QED
      BY <1>1, <1>4, <2>1, <2>3 DEF Scrape!Restricted
  <1>5. Scrape!Scraped(docs) \cap Scrape!Restricted(docs) \subseteq Scrape!Allowed(docs, input.scraper) \cup {e.ns : e \in input.exempt}
    BY DEF Scrape!Verdict
  <1>6. ns \in Scrape!Allowed(docs, input.scraper)
    BY <1>3, <1>4, <1>5
  <1>7. PICK p \in Scrape!IngressPolicies(docs) :
             Scrape!DocNamespace(p.ns) = ns /\ \E r \in p.rules : Scrape!AdmitsScrape(p, r, input.scraper)
    BY <1>6 DEF Scrape!Allowed
  <1>8. PICK r \in p.rules : Scrape!AdmitsScrape(p, r, input.scraper)
    BY <1>7
  <1>9. p \in Judged(input) /\ GoodSelector(p.pods) /\ \A q \in r.peers : GoodSource(q)
    BY <1>8 DEF Scrape!IngressPolicies, Scrape!Kind, Judged, ScrapeOf
  <1>10. CASE r.peers = {} /\ Scrape!NamespaceWide(p)
    <2>1. p.pods = Labels({})
      BY <1>9, <1>10 DEF Scrape!NamespaceWide, Scrape!SelectsAll, GoodSelector, Labels
    <2> QED
      BY <1>1, <1>7, <1>8, <1>9, <1>10, <2>1
  <1>11. CASE Scrape!RuleIpBlocksCoverBothFamilies(r.peers)
    <2>1. ASSUME NEW v \in {4, 6} PROVE ScrapeIp(v, 0, "none") \in r.peers
      <3>1. PICK q \in r.peers : q.kind = "ipBlock" /\ q.except = "none" /\ Scrape!ZeroPrefix(q.cidr) /\ q.cidr.v = v
        BY <1>11 DEF Scrape!RuleIpBlocksCoverBothFamilies, Scrape!Families
      <3> QED
        BY <1>9, <3>1 DEF GoodSource, Scrape!ZeroPrefix, Scrape!Parses, Scrape!Families
    <2> QED
      BY <1>1, <1>7, <1>8, <1>9, <2>1
  <1>12. CASE \E peer \in r.peers : Scrape!SelectsObservability(peer, input.scraper)
    BY <1>1, <1>7, <1>8, <1>9, <1>12, ObservabilityIsLetIn
  <1> QED
    BY <1>8, <1>10, <1>11, <1>12 DEF Scrape!AdmitsScrape

LEMMA ServicesHavePorts ==
    ASSUME Scrape!Verdict(input) = 0,
           NEW m \in OfCorpus({"ServiceMonitor"}), NEW s \in OfCorpus({"Service"}),
           PutIn(s) \in Watched(m), m.selector.labels \subseteq s.labels,
           m.selector.shape = "ok", m.selector.exprs = {},
           NEW e \in m.endpoints, e.port # NoPort
    PROVE  /\ \E t \in OfCorpus({"Service"}) : /\ PutIn(t) = PutIn(s) /\ m.selector.labels \subseteq t.labels
                                              /\ \E p \in t.ports : p.name = e.port
           /\ \A p \in s.ports : p.name = e.port /\ p.target.named /\ s.selector # {} =>
               LET pods == {w \in OfCorpus({"Workload"}) : PutIn(w) = PutIn(s) /\ s.selector \subseteq w.labels}
               IN  pods # {} => p.target \in UNION {w.ports : w \in pods}
  <1> DEFINE docs == input.corpus.docs
             ns == PutIn(s)
             matched == Scrape!Selected(Scrape!ServicesIn(docs, ns), m.selector.labels)
             pods == Scrape!WorkloadsIn(docs, ns)
  <1>1. \A d : PutIn(d) = Scrape!DocNamespace(d.ns)
    BY DEF PutIn, Scrape!DocNamespace
  <1>2. ns \in Scrape!MonitorNamespaces(m)
    BY <1>1 DEF Watched, Scrape!MonitorNamespaces
  <1>3. ~Scrape!EndpointFails(docs, m, ns, e)
    <2>1. ~Scrape!PortViolation(docs)
      BY DEF Scrape!Verdict
    <2>2. m \in Scrape!Kind(docs, Scrape!MonitorKinds) /\ Scrape!Modelled(m.selector)
      BY DEF OfCorpus, Scrape!Kind, Scrape!MonitorKinds, Scrape!Modelled
    <2> QED
      BY <1>2, <2>1, <2>2 DEF Scrape!PortViolation
  <1>4. m.kind = "ServiceMonitor" /\ Scrape!EndpointPort(e, m.kind) = [direct |-> FALSE, port |-> e.port]
    BY DEF OfCorpus, Scrape!EndpointPort, NoPort
  <1>5. /\ \A t : t \in matched <=> t \in OfCorpus({"Service"}) /\ PutIn(t) = ns /\ m.selector.labels \subseteq t.labels
        /\ \A w : w \in pods <=> w \in OfCorpus({"Workload"}) /\ PutIn(w) = ns
    BY <1>1 DEF OfCorpus, Scrape!Selected, Scrape!ServicesIn, Scrape!WorkloadsIn, Scrape!Kind
  <1>6. s \in matched
    BY <1>5
  <1>7. /\ \E t \in matched : \E p \in t.ports : p.name = e.port
        /\ ~Scrape!ServiceHopFails(e.port, matched, pods)
    <2> HIDE DEF matched, pods
    <2> QED
      BY <1>3, <1>4, <1>6 DEF Scrape!EndpointFails, NoPort, matched, pods
  <1> HIDE DEF matched, pods
  <1>8. ASSUME NEW p \in s.ports, p.name = e.port, p.target.named, s.selector # {},
               NEW own, own = {w \in OfCorpus({"Workload"}) : PutIn(w) = ns /\ s.selector \subseteq w.labels}, own # {}
        PROVE  p.target \in UNION {w.ports : w \in own}
    <2>1. ~Scrape!PodsLack(p.target, s.selector, pods)
      BY <1>6, <1>7, <1>8 DEF Scrape!ServiceHopFails
    <2>2. Scrape!Selected(pods, s.selector) = own
      BY <1>5, <1>8 DEF Scrape!Selected
    <2> QED
      BY <1>8, <2>1, <2>2 DEF Scrape!PodsLack
  <1> QED
    BY <1>5, <1>7, <1>8

\* The bounded inputs have this shape.
LEMMA ShapesAreGood ==
    /\ \A labels : (\A k, l \in labels : k[1] = l[1] => k = l) => GoodSelector(Labels(labels))
    /\ \A es : GoodSelector(Exprs(es))
    /\ GoodSelector(Scrape!Absent) /\ GoodSelector(Misspelt)
  <1>1. \A labels : (\A k, l \in labels : k[1] = l[1] => k = l) => GoodSelector(Labels(labels))
    BY DEF GoodSelector, Labels
  <1>2. \A es : GoodSelector(Exprs(es))
    BY DEF GoodSelector, Exprs
  <1>3. GoodSelector(Scrape!Absent) /\ GoodSelector(Misspelt)
    <2>1. GoodSelector(Misspelt)
      BY DEF GoodSelector, Misspelt
    <2> QED
      BY <2>1 DEF GoodSelector, Scrape!Absent
  <1> QED
    BY <1>1, <1>2, <1>3

LEMMA BoundedSelectors ==
    /\ \A s \in NsSelectors : GoodSelector(s)
    /\ \A s \in PodSelectors : GoodSelector(s)
    /\ GoodSelector(Labels({})) /\ GoodSelector(Labels(Web))
  <1>1. \A l : GoodSelector(Labels({l}))
    BY ShapesAreGood
  <1>2. GoodSelector(Labels({}))
    BY ShapesAreGood
  <1>3. GoodSelector(Labels({NsName(Observability), <<"team", "t">>}))
    <2> DEFINE name == NsName(Observability)
               team == <<"team", "t">>
    <2>1. name[1] # team[1]
      BY LabelAssumption DEF NsName
    <2> HIDE DEF name, team
    <2>2. \A k, l \in {name, team} : k[1] = l[1] => k = l
      BY <2>1
    <2> QED
      BY <2>2, ShapesAreGood DEF name, team
  <1>4. \A l, es : GoodSelector(Both({l}, es))
    BY DEF GoodSelector, Both
  <1>5. \A s \in NsSelectors : GoodSelector(s)
    <2>1. \A l \in NsLabels : GoodSelector(Labels(l))
      BY <1>1, <1>3 DEF NsLabels
    <2>2. \A key, op, v : GoodSelector(OneExpr(key, op, v))
      BY ShapesAreGood DEF OneExpr
    <2>3. \A s \in NsMixed : GoodSelector(s)
      BY <1>4, ShapesAreGood DEF NsMixed
    <2>4. \A s \in {Scrape!Absent, Misspelt, Labels({})} : GoodSelector(s)
      BY <1>2, ShapesAreGood
    <2> QED
      BY <2>1, <2>2, <2>3, <2>4 DEF NsSelectors
  <1>6. \A s \in PodSelectors : GoodSelector(s)
    <2>1. \A s \in {Scrape!Absent, Misspelt, Labels({}), Labels(Prometheus), Labels({<<"app", "x">>})} : GoodSelector(s)
      BY <1>1, <1>2, ShapesAreGood DEF Prometheus
    <2>2. \A op, v : GoodSelector(OneExpr("app", op, v))
      BY ShapesAreGood DEF OneExpr
    <2> QED
      BY <2>1, <2>2 DEF PodSelectors
  <1> QED
    BY <1>1, <1>2, <1>5, <1>6 DEF Web

LEMMA BoundedPeers ==
    /\ \A q \in ScrapePeers : GoodSource(q)
    /\ \A q \in IpMates : GoodSource(q)
  <1>1. \A q \in ScrapePeers : GoodSource(q)
    <2>1. ASSUME NEW q \in ScrapePeers
          PROVE  q.kind = "pods" /\ q.namespaces \in NsSelectors /\ q.pods \in PodSelectors
      BY DEF ScrapePeers
    <2> QED
      BY <2>1, BoundedSelectors DEF GoodSource
  <1>2. \A v, len, e : GoodSource(ScrapeIp(v, len, e))
    BY DEF GoodSource, ScrapeIp, Cidr
  <1>3. \A n \in {Misspelt, Scrape!Absent, Labels({NsName("x")})} :
            GoodSource([kind |-> "pods", namespaces |-> n, pods |-> Labels({<<"app", "x">>})])
    BY ShapesAreGood DEF GoodSource
  <1>4. GoodSource([kind |-> "invalid"])
    BY DEF GoodSource
  <1>5. \A q \in IpPeers : GoodSource(q)
    BY <1>2, <1>4 DEF IpPeers
  <1> QED
    BY <1>1, <1>3, <1>5 DEF IpMates

LEMMA BoundedScrape == \A in \in ScrapeInputs : ScrapeOf(in)
  <1>1. \A exempt, scraper, docs :
            (\A p \in docs : p.kind = "NetworkPolicy" =>
                GoodSelector(p.pods) /\ \A r \in p.rules : \A q \in r.peers : GoodSource(q))
            => ScrapeOf(ScrapeInput(exempt, scraper, docs))
    BY DEF ScrapeOf, Judged, ScrapeInput, Reads
  <1>2. GoodSelector(Closed.pods) /\ Closed.rules = {}
    BY BoundedSelectors DEF Closed, ScrapePolicy
  <1>3. ASSUME NEW s, NEW w \in {Labels({}), Labels(Web)},
               NEW ps \in PeerSets
        PROVE  ScrapeOf(Letting(s, w, ps))
    <2>1. \A q \in ps : GoodSource(q)
      BY BoundedPeers DEF PeerSets
    <2> DEFINE mine == ScrapePolicy(w, {}, {ScrapeRule(ps)})
    <2>2. GoodSelector(mine.pods) /\ \A r \in mine.rules : \A q \in r.peers : GoodSource(q)
      BY <2>1, BoundedSelectors DEF ScrapePolicy, ScrapeRule
    <2>3. Plain.kind # "NetworkPolicy"
      BY DEF Plain, Monitor
    <2> HIDE DEF mine
    <2>4. ScrapeOf(ScrapeInput({}, s, {Plain, Closed, mine}))
      BY <1>1, <1>2, <2>2, <2>3
    <2> QED
      BY <2>4 DEF Letting, mine
  <1>5. \A m \in Beside : m = Closed \/ m.kind = "PodMonitor"
    BY DEF Beside, PodMonitor, Monitor
  <1>4. ASSUME NEW x, NEW m \in Beside, NEW t, NEW g
        PROVE  ScrapeOf(Exempting(x, m, t, g))
    <2> DEFINE chart == [kind |-> "HelmRelease", ns |-> "a", target |-> t, toggle |-> g]
    <2>1. chart.kind # "NetworkPolicy"
      OBVIOUS
    <2> HIDE DEF chart
    <2>2. ScrapeOf(ScrapeInput(x, {}, {m, Closed, chart}))
      BY <1>1, <1>2, <1>5, <2>1
    <2> QED
      BY <2>2 DEF Exempting, chart
  <1>6. ASSUME NEW k \in Scrape!MonitorKinds, NEW l, NEW e,
               NEW s \in UpToTwoServices, NEW w \in UpToOnePod
        PROVE  ScrapeOf(Scraping(k, l, e, s, w))
    <2> DEFINE mine == Monitor(k, {}, FALSE, l, {e})
    <2>1. \A d \in s : d.kind = "Service"
      <3>1. \A d \in Services : d.kind = "Service"
        BY DEF Services
      <3> QED
        BY <3>1 DEF UpToTwoServices
    <2>2. \A d \in w : d.kind = "Workload"
      <3>1. \A d \in Pods : d.kind = "Workload"
        BY DEF Pods
      <3> QED
        BY <3>1 DEF UpToOnePod
    <2>3. mine.kind \in {"ServiceMonitor", "PodMonitor"}
      BY DEF Monitor, Scrape!MonitorKinds
    <2> HIDE DEF mine
    <2>4. \A d \in {mine} \cup s \cup w : d.kind # "NetworkPolicy"
      BY <2>1, <2>2, <2>3
    <2>5. ScrapeOf(ScrapeInput({}, {}, {mine} \cup s \cup w))
      BY <1>1, <2>4
    <2> QED
      BY <2>5 DEF Scraping, mine
  <1>7. \A in \in PeerInputs : ScrapeOf(in)
    BY <1>3 DEF PeerInputs
  <1>8. \A in \in ToggleInputs : ScrapeOf(in)
    BY <1>4 DEF ToggleInputs
  <1>9. \A in \in PortInputs : ScrapeOf(in)
    BY <1>6 DEF PortInputs
  <1> QED
    BY <1>7, <1>8, <1>9 DEF ScrapeInputs

-----------------------------------------------------------------------------
(* check-scrape-wiring.py. *)

\* Documents as the API server admits them: a container port has a number, a Service's
\* ports have names of their own, a port range does not end before it begins.
GoodPort(p) == p = Port(p.name, p.number) /\ p.number \in Nat
GoodEntry(e) == GoodPort(e.port) /\ e.endPort \in Nat /\ (e.endPort = 0 \/ e.port.number <= e.endPort)
GoodLabels(labels) == \A l \in labels : l = <<l[1], l[2]>>
GoodObject(d) ==
    /\ d.kind \in Wiring!MonitorKinds => GoodLabels(d.selector.labels)
    /\ d.kind \in {"Workload", "Service"} => GoodLabels(d.labels)
    /\ d.kind = "Workload" => \A p \in d.ports : p.number \in Nat \ {0}
    /\ d.kind = "Service" => \A p, q \in d.ports : p.name = q.name => p = q
    /\ d.kind = "NetworkPolicy" => \A r \in d.rules : \A e \in r.ports : GoodEntry(e)
WiringOf(in) == \A d \in in.docs : GoodObject(d)

\* Selectors.
LEMMA HoldsIsTerm ==
    ASSUME NEW labels, NEW e, e.op \in Wiring!Operators
    PROVE  Holds(labels, e.key, e.op, e.values) <=> Wiring!Term(e, labels)
  <1> DEFINE own == {l[2] : l \in {m \in labels : m[1] = e.key}}
             present == \E l \in labels : l[1] = e.key
             listed == \E l \in labels : l[1] = e.key /\ l[2] \in e.values
  <1>1. (own # {} <=> present) /\ (own \cap e.values # {} <=> listed)
    OBVIOUS
  <1>2. Holds(labels, e.key, e.op, e.values) <=>
            \/ e.op = "In" /\ own \cap e.values # {}
            \/ e.op = "NotIn" /\ own \cap e.values = {}
            \/ e.op = "Exists" /\ own # {}
            \/ e.op = "DoesNotExist" /\ own = {}
    BY DEF Holds
  <1>3. Wiring!Term(e, labels) <=>
            \/ e.op = "In" /\ listed
            \/ e.op = "NotIn" /\ ~listed
            \/ e.op = "Exists" /\ present
            \/ e.op = "DoesNotExist" /\ ~present
    BY DEF Wiring!Term
  <1> HIDE DEF own, present, listed
  <1> QED
    BY <1>1, <1>2, <1>3

LEMMA LabelHolds ==
    ASSUME NEW labels, NEW key, NEW value
    PROVE  Holds(labels, key, "In", {value}) <=> \E l \in labels : l[1] = key /\ l[2] = value
  BY DEF Holds

LEMMA SelectsIsMatches ==
    ASSUME NEW s, NEW labels, Wiring!SelectorMatches(s, labels)
    PROVE  Matches(s, labels)
  <1>1. s.shape = "ok" /\ \A e \in s.exprs : e.fields /\ e.op \in Wiring!Operators /\ Wiring!Term(e, labels)
    BY DEF Wiring!SelectorMatches, Wiring!SelectorProblem
  <1>2. \A l \in s.labels : Holds(labels, l[1], "In", {l[2]})
    BY LabelHolds DEF Wiring!SelectorMatches
  <1>3. \A e \in s.exprs : Holds(labels, e.key, e.op, e.values)
    BY <1>1, HoldsIsTerm
  <1> QED
    BY <1>1, <1>2, <1>3 DEF Matches

LEMMA MatchesIsSelects ==
    ASSUME NEW s, ~Wiring!SelectorProblem(s), NEW labels, GoodLabels(labels), GoodLabels(s.labels), Matches(s, labels)
    PROVE  Wiring!SelectorMatches(s, labels)
  <1>1. \A e \in s.exprs : e.op \in Wiring!Operators
    BY DEF Wiring!SelectorProblem
  <1>2. ASSUME NEW l \in s.labels PROVE l \in labels
    <2>1. Holds(labels, l[1], "In", {l[2]})
      BY DEF Matches
    <2>2. PICK k \in labels : k[1] = l[1] /\ k[2] = l[2]
      BY <2>1 DEF Holds
    <2>3. k = <<k[1], k[2]>> /\ l = <<l[1], l[2]>>
      BY DEF GoodLabels
    <2>4. k = l
      BY <2>2, <2>3
    <2> QED
      BY <2>2, <2>4
  <1>3. \A e \in s.exprs : Wiring!Term(e, labels)
    BY <1>1, HoldsIsTerm DEF Matches
  <1> QED
    BY <1>2, <1>3 DEF Wiring!SelectorMatches

LEMMA MoreIsFresh ==
    ASSUME NEW known, NEW op, NEW more, \A l \in more, k \in known : l[1] # k[1],
           NEW key, NEW values, (\E k \in known : k[1] = key) \/ op \in {"In", "Exists"}
    PROVE  Holds(known, key, op, values) => Holds(known \cup more, key, op, values)
  <1> DEFINE own == {l[2] : l \in {m \in known : m[1] = key}}
             all == {l[2] : l \in {m \in known \cup more : m[1] = key}}
  <1>1. own \subseteq all /\ ((\E k \in known : k[1] = key) => own = all)
    OBVIOUS
  <1>2. Holds(known, key, op, values) <=>
            \/ op = "In" /\ own \cap values # {}
            \/ op = "NotIn" /\ own \cap values = {}
            \/ op = "Exists" /\ own # {}
            \/ op = "DoesNotExist" /\ own = {}
    BY DEF Holds
  <1>3. Holds(known \cup more, key, op, values) <=>
            \/ op = "In" /\ all \cap values # {}
            \/ op = "NotIn" /\ all \cap values = {}
            \/ op = "Exists" /\ all # {}
            \/ op = "DoesNotExist" /\ all = {}
    BY DEF Holds
  <1> HIDE DEF own, all
  <1> QED
    BY <1>1, <1>2, <1>3

\* What a policy lets in.
LEMMA NamedIsLetIn ==
    ASSUME NEW s, Wiring!EmptySelector(s) \/ (Wiring!NamespaceTerms(s).selects /\ ~Wiring!NamespaceTerms(s).narrowing)
    PROVE  MatchesAnyway(s, ScrapeNs)
  <1> SUFFICES ASSUME NEW more, \A l \in more, k \in ScrapeNs : l[1] # k[1] PROVE Matches(s, ScrapeNs \cup more)
    BY DEF MatchesAnyway, More
  <1>1. CASE Wiring!EmptySelector(s)
    BY <1>1 DEF Wiring!EmptySelector, Wiring!Narrows, Matches
  <1>2. CASE Wiring!NamespaceTerms(s).selects /\ ~Wiring!NamespaceTerms(s).narrowing
    <2> DEFINE reduced == [given |-> TRUE, shape |-> s.shape,
                           labels |-> {l \in s.labels : l[1] = NameLabel}, exprs |-> {e \in s.exprs : e.key = NameLabel}]
    <2>1. /\ \A l \in s.labels : l[1] = NameLabel
          /\ \A e \in s.exprs : e.key = NameLabel
          /\ ~Wiring!SelectorProblem(s)
          /\ Wiring!SelectorMatches(reduced, {<<NameLabel, Observability>>})
      BY <1>2 DEF Wiring!NamespaceTerms
    <2>2. s.labels = reduced.labels /\ s.exprs = reduced.exprs
      BY <2>1
    <2>3. s.labels \subseteq ScrapeNs /\ \A e \in s.exprs : Wiring!Term(e, ScrapeNs)
      <3> HIDE DEF reduced
      <3> QED
        BY <2>1, <2>2 DEF Wiring!SelectorMatches, ScrapeNs, NsName
    <2>4. s.shape = "ok" /\ \A e \in s.exprs : e.fields /\ e.op \in Wiring!Operators
      BY <2>1 DEF Wiring!SelectorProblem
    <2>5. NsName(Observability) \in ScrapeNs /\ NsName(Observability)[1] = NameLabel
      BY DEF ScrapeNs, NsName
    <2>6. \A l \in s.labels : Holds(ScrapeNs \cup more, l[1], "In", {l[2]})
      BY <2>3, LabelHolds
    <2>7. ASSUME NEW e \in s.exprs PROVE Holds(ScrapeNs \cup more, e.key, e.op, e.values)
      <3>1. Holds(ScrapeNs, e.key, e.op, e.values)
        BY <2>3, <2>4, HoldsIsTerm
      <3>2. \E k \in ScrapeNs : k[1] = e.key
        BY <2>1, <2>5
      <3> QED
        BY <3>1, <3>2, MoreIsFresh
    <2> QED
      BY <2>4, <2>6, <2>7 DEF Matches
  <1> QED
    BY <1>1, <1>2

LEMMA DeclaredIsLetIn ==
    ASSUME NEW s, NEW scraper, Wiring!EmptySelector(s) \/ Wiring!PodsAdmitScraper(s, scraper)
    PROVE  MatchesAnyway(s, scraper)
  <1> SUFFICES ASSUME NEW more, \A l \in more, k \in scraper : l[1] # k[1] PROVE Matches(s, scraper \cup more)
    BY DEF MatchesAnyway, More
  <1>1. CASE Wiring!EmptySelector(s)
    BY <1>1 DEF Wiring!EmptySelector, Wiring!Narrows, Matches
  <1>2. CASE ~Wiring!Narrows(s) /\ ~Wiring!SelectorProblem(s)
    BY <1>2 DEF Wiring!Narrows, Wiring!SelectorProblem, Matches
  <1>3. CASE Wiring!Narrows(s) /\ Wiring!PodsAdmitScraper(s, scraper)
    <2>1. /\ Wiring!SelectorMatches(s, scraper)
          /\ \A e \in s.exprs : e.op \in {"NotIn", "DoesNotExist"} => \E l \in scraper : l[1] = e.key
          /\ \A e \in s.exprs : e.op \in Wiring!Operators
      BY <1>3 DEF Wiring!PodsAdmitScraper, Wiring!SelectorProblem
    <2>2. Matches(s, scraper)
      BY <2>1, SelectsIsMatches
    <2>3. \A l \in s.labels : Holds(scraper \cup more, l[1], "In", {l[2]})
      BY <2>2, MoreIsFresh DEF Matches
    <2>4. \A e \in s.exprs : Holds(scraper \cup more, e.key, e.op, e.values)
      BY <2>1, <2>2, MoreIsFresh DEF Matches, Wiring!Operators
    <2> QED
      BY <2>2, <2>3, <2>4 DEF Matches
  <1> QED
    BY <1>1, <1>2, <1>3 DEF Wiring!PodsAdmitScraper

LEMMA PeerIsLetIn ==
    ASSUME NEW peer, Wiring!PeerAdmits(peer, input.scraper)
    PROVE  LetsIn(peer)
  <1>1. MatchesAnyway(peer.namespaces, ScrapeNs)
    BY NamedIsLetIn DEF Wiring!PeerAdmits
  <1>2. peer.pods.given => MatchesAnyway(peer.pods, input.scraper)
    BY DeclaredIsLetIn DEF Wiring!PeerAdmits
  <1> QED
    BY <1>1, <1>2 DEF LetsIn, Wiring!PeerAdmits

LEMMA PortIsOpened ==
    ASSUME NEW entry, GoodEntry(entry), NEW pod, NEW n \in Nat \ {0},
           Wiring!PortAdmits(entry, [labels |-> pod.labels, number |-> n, ports |-> Wiring!Spellings(pod, n)])
    PROVE  Opened(entry, pod, n)
  <1> DEFINE name == entry.port.name
             low == entry.port.number
             high == entry.endPort
  <1>1. entry.port = Port(name, low) /\ low \in Nat /\ high \in Nat /\ (high = 0 \/ low <= high)
    BY DEF GoodEntry, GoodPort
  <1>2. entry.protocol = "TCP"
    BY DEF Wiring!PortAdmits
  <1>3. \A p : p \in Wiring!Spellings(pod, n) <=> p \in pod.ports /\ p.number = n
    BY DEF Wiring!Spellings
  <1>4. \/ entry.port = Nowhere
        \/ low = n
        \/ name # "" /\ \E p \in Wiring!Spellings(pod, n) : p.name = name
        \/ name = "" /\ high # 0 /\ n \in low .. high
    BY DEF Wiring!PortAdmits, Nowhere, Wiring!NoName, Wiring!NoNumber
  <1>5. name = "" /\ low = 0 => entry.port = Nowhere
    BY <1>1 DEF Port, Nowhere, Wiring!NoPort, Wiring!NoName, Wiring!NoNumber
  <1> HIDE DEF name, low, high
  <1>6. \/ entry.port = Nowhere
        \/ \E p \in pod.ports : p.name # "" /\ p.name = name /\ p.number = n
        \/ low # 0 /\ n >= low /\ n <= IF high = 0 THEN low ELSE high
    <2> DEFINE top == IF high = 0 THEN low ELSE high
    <2>4. low \in Nat /\ high \in Nat /\ top \in Nat /\ low <= top /\ (high # 0 => top = high)
      BY <1>1
    <2> HIDE DEF top
    <2>1. CASE low = n
      <3>1. low # 0 /\ n >= low /\ n <= top
        BY <2>1, <2>4
      <3> QED
        BY <3>1 DEF top
    <2>2. CASE name # "" /\ \E p \in Wiring!Spellings(pod, n) : p.name = name
      BY <1>3, <2>2
    <2>3. CASE name = "" /\ high # 0 /\ n \in low .. high
      <3>1. CASE low = 0
        BY <1>5, <2>3, <3>1
      <3>2. CASE low # 0
        <4>2. n \in low .. high /\ high # 0
          BY <2>3
        <4>1. n >= low /\ n <= top
          BY <2>4, <4>2
        <4> QED
          BY <3>2, <4>1 DEF top
      <3> QED
        BY <3>1, <3>2
    <2> QED
      BY <1>4, <2>1, <2>2, <2>3
  <1> QED
    BY <1>2, <1>6 DEF Opened, name, low, high

LEMMA PolicyConnects ==
    ASSUME WiringOf(input), NEW pod, NEW n \in Nat \ {0}, NEW p \in Docs({"NetworkPolicy"}), HomeOf(p) = HomeOf(pod),
           Wiring!Admits(p, [labels |-> pod.labels, number |-> n, ports |-> Wiring!Spellings(pod, n)], input.scraper)
    PROVE  Connects(pod, n)
  <1> DEFINE target == [labels |-> pod.labels, number |-> n, ports |-> Wiring!Spellings(pod, n)]
  <1>1. Matches(p.pods, pod.labels)
    BY SelectsIsMatches DEF Wiring!Admits
  <1>2. PICK r \in p.rules : /\ r.peers = {} \/ \E q \in r.peers : Wiring!PeerAdmits(q, input.scraper)
                             /\ r.ports = {} \/ \E e \in r.ports : Wiring!PortAdmits(e, target)
    BY DEF Wiring!Admits
  <1>3. r.peers = {} \/ \E q \in r.peers : LetsIn(q)
    BY <1>2, PeerIsLetIn
  <1>4. \A e \in r.ports : GoodEntry(e)
    BY <1>2 DEF WiringOf, GoodObject, Docs
  <1>5. r.ports = {} \/ \E e \in r.ports : Opened(e, pod, n)
    BY <1>2, <1>4, PortIsOpened
  <1> QED
    BY <1>1, <1>2, <1>3, <1>5 DEF Connects

\* From an endpoint to its targets.
Target(pod, n) == [labels |-> pod.labels, number |-> n, ports |-> Wiring!Spellings(pod, n)]

LEMMA OpenPortsAreDeclared ==
    ASSUME NEW pod, NEW port
    PROVE  Opens(pod, port) = {p.number : p \in Wiring!Declares(pod, port)}
  BY DEF Opens, Wiring!Declares, Wiring!NoName

LEMMA ResolvedTargets ==
    ASSUME NEW docs, NEW pods, NEW port, NEW t
    PROVE  t \in Wiring!ResolveTarget(docs, pods, port).targets <=>
               port # Wiring!NoPort /\ \E w \in Wiring!SelectedWorkloads(docs, pods) : \E n \in Opens(w, port) : t = Target(w, n)
  <1> DEFINE ws == Wiring!SelectedWorkloads(docs, pods)
             Of(w) == {[labels |-> w.labels, number |-> p.number, ports |-> Wiring!Spellings(w, p.number)]
                           : p \in Wiring!Declares(w, port)}
             targets == UNION {Of(w) : w \in ws}
  <1>1. Wiring!ResolveTarget(docs, pods, port).targets = IF port = Wiring!NoPort THEN {} ELSE targets
    BY DEF Wiring!ResolveTarget
  <1>2. \A w : t \in Of(w) <=> \E n \in Opens(w, port) : t = Target(w, n)
    BY OpenPortsAreDeclared DEF Target
  <1> HIDE DEF Of
  <1>3. t \in targets <=> \E w \in ws : t \in Of(w)
    OBVIOUS
  <1> HIDE DEF targets, ws
  <1>4. t \in targets <=> \E w \in ws : \E n \in Opens(w, port) : t = Target(w, n)
    BY <1>2, <1>3
  <1> QED
    BY <1>1, <1>4 DEF ws

\* Where documents are, and the group of a namespace.
Asked == IF input.fromTree THEN Wiring!TreeNamespace(input.docs) ELSE input.namespace
Groups == Wiring!GroupByNamespace(input.docs, Asked)
At(n) == {d \in Placed : HomeOf(d) = n}

LEMMA WiringCardinality == ASSUME NEW S PROVE Wiring!Cardinality(S) = Cardinality(S)
  BY DEF Wiring!Cardinality, Cardinality

LEMMA TheOneIs == ASSUME NEW S PROVE TheOne(S) = IF Wiring!Cardinality(S) = 1 THEN CHOOSE n \in S : TRUE ELSE ""
  <1> DEFINE c == Cardinality(S)
             w == Wiring!Cardinality(S)
             one == CHOOSE n \in S : TRUE
  <1>1. c = w
    BY WiringCardinality
  <1>2. TheOne(S) = IF c = 1 THEN one ELSE ""
    BY DEF TheOne
  <1> HIDE DEF c, w, one
  <1>3. TheOne(S) = IF w = 1 THEN one ELSE ""
    BY <1>1, <1>2
  <1> QED
    BY <1>3 DEF w, one

LEMMA HomeIsEffective == \A d : HomeOf(d) = Wiring!EffectiveNamespace(d, input.docs, Asked)
  <1>1. Given = Asked
    <2> DEFINE known == {d.name : d \in {x \in Docs({"Unnamespaced"}) : x.namespace}} \ {""}
               named == {d.name : d \in {x \in input.docs : x.kind = "Unnamespaced" /\ x.namespace}} \ {Wiring!NoName}
    <2>1. known = named
      BY DEF Docs, Wiring!NoName
    <2>2. Given = IF input.fromTree THEN TheOne(known) ELSE input.namespace
      BY DEF Given
    <2>3. Wiring!TreeNamespace(input.docs) = IF Wiring!Cardinality(named) = 1 THEN CHOOSE n \in named : TRUE ELSE ""
      BY DEF Wiring!TreeNamespace, Wiring!NoNamespace
    <2> HIDE DEF known, named
    <2>4. Wiring!TreeNamespace(input.docs) = TheOne(named)
      BY <2>3, TheOneIs
    <2> QED
      BY <2>1, <2>2, <2>4 DEF Asked
  <1> DEFINE lone == {x.ns : x \in Placed} \ {""}
             stated == {d.ns : d \in {x \in input.docs : x.kind # "Unnamespaced"}} \ {Wiring!NoNamespace}
  <1>2. lone = stated
    BY DEF Placed, Wiring!NoNamespace
  <1>3. Wiring!Stated(input.docs) = stated
    BY DEF Wiring!Stated, Wiring!Namespaced
  <1>4. \A d : HomeOf(d) = IF d.ns # "" THEN d.ns ELSE IF Given # "" THEN Given ELSE TheOne(lone)
    BY DEF HomeOf
  <1> HIDE DEF lone, stated
  <1>5. \A d : Wiring!EffectiveNamespace(d, input.docs, Asked) =
                  IF d.ns # "" THEN d.ns ELSE IF Asked # "" THEN Asked
                  ELSE IF Wiring!Cardinality(stated) = 1 THEN CHOOSE n \in stated : TRUE ELSE ""
    BY <1>3 DEF Wiring!EffectiveNamespace, Wiring!NoNamespace
  <1>6. TheOne(stated) = IF Wiring!Cardinality(stated) = 1 THEN CHOOSE n \in stated : TRUE ELSE ""
    BY TheOneIs
  <1> QED
    BY <1>1, <1>2, <1>4, <1>5, <1>6

LEMMA GroupIsAt ==
    /\ DOMAIN Groups = {HomeOf(d) : d \in Placed}
    /\ \A n \in DOMAIN Groups : Groups[n] = At(n)
  <1> DEFINE home == [d \in Placed |-> HomeOf(d)]
  <1>1. [d \in Wiring!Namespaced(input.docs) |-> Wiring!EffectiveNamespace(d, input.docs, Asked)] = home
    BY HomeIsEffective DEF Wiring!Namespaced, Placed
  <1>2. DOMAIN home = Placed /\ \A d \in Placed : home[d] = HomeOf(d)
    OBVIOUS
  <1> HIDE DEF home
  <1>3. Groups = [n \in {home[d] : d \in DOMAIN home} |-> {d \in DOMAIN home : home[d] = n}]
    BY <1>1 DEF Groups, Wiring!GroupByNamespace
  <1> QED
    BY <1>2, <1>3 DEF At

LEMMA SelectedAt ==
    ASSUME NEW n
    PROVE  /\ \A l, w : w \in Wiring!SelectedWorkloads(At(n), Wiring!ByLabels(l)) <=>
                          w \in Docs({"Workload"}) /\ HomeOf(w) = n /\ l \subseteq w.labels
           /\ \A s, w : w \in Wiring!SelectedWorkloads(At(n), s) <=>
                          w \in Docs({"Workload"}) /\ HomeOf(w) = n /\ Wiring!SelectorMatches(s, w.labels)
           /\ \A s, x : x \in Wiring!ServicesFor(At(n), s) <=>
                          x \in Docs({"Service"}) /\ HomeOf(x) = n /\ Wiring!SelectorMatches(s, x.labels)
  <1>1. \A s, w : w \in Wiring!SelectedWorkloads(At(n), s) <=>
                  w \in Docs({"Workload"}) /\ HomeOf(w) = n /\ Wiring!SelectorMatches(s, w.labels)
    BY DEF Wiring!SelectedWorkloads, Wiring!OfKind, At, Placed, Docs
  <1>2. \A s, x : x \in Wiring!ServicesFor(At(n), s) <=>
                  x \in Docs({"Service"}) /\ HomeOf(x) = n /\ Wiring!SelectorMatches(s, x.labels)
    BY DEF Wiring!ServicesFor, Wiring!OfKind, At, Placed, Docs
  <1>3. \A l, labels : Wiring!SelectorMatches(Wiring!ByLabels(l), labels) <=> l \subseteq labels
    BY DEF Wiring!SelectorMatches, Wiring!SelectorProblem, Wiring!ByLabels
  <1> QED
    BY <1>1, <1>2, <1>3

LEMMA NowhereOpensNothing ==
    ASSUME WiringOf(input), NEW pod \in Docs({"Workload"})
    PROVE  /\ Opens(pod, Nowhere) = {}
           /\ \A port : Opens(pod, port) \subseteq Nat \ {0}
  <1>1. \A p \in pod.ports : p.number \in Nat \ {0}
    BY DEF WiringOf, GoodObject, Docs
  <1>2. Nowhere.name = "" /\ Nowhere.number = 0
    BY DEF Nowhere, Wiring!NoPort, Wiring!NoName, Wiring!NoNumber
  <1> QED
    BY <1>1, <1>2 DEF Opens

LEMMA ServiceGives ==
    ASSUME WiringOf(input), NEW n, NEW s \in Docs({"Service"}), NEW e, NEW t
    PROVE  t \in Wiring!ServiceTargets(At(n), s, e).targets <=>
               s.selector # {} /\ \E pod \in Docs({"Workload"}) :
                   HomeOf(pod) = n /\ s.selector \subseteq pod.labels /\ \E k \in Behind(s, e, pod) : t = Target(pod, k)
  <1> DEFINE D == At(n)
             ports == {p \in s.ports : p.name = e.port.name}
             Resolved(port) == Wiring!ResolveTarget(D, Wiring!ByLabels(s.selector), port).targets
             given == Wiring!ServiceTargets(D, s, e).targets
  <1>1. given = IF s.selector = {} THEN {}
                 ELSE IF e.port = Wiring!NoPort THEN Resolved(e.targetPort)
                 ELSE IF ports = {} THEN {} ELSE Resolved((CHOOSE p \in ports : TRUE).target)
    BY DEF Wiring!ServiceTargets
  <1>2. ASSUME NEW port
        PROVE  t \in Resolved(port) <=>
                   \E pod \in Docs({"Workload"}) : HomeOf(pod) = n /\ s.selector \subseteq pod.labels
                                                   /\ \E k \in Opens(pod, port) : t = Target(pod, k)
    BY SelectedAt, ResolvedTargets, NowhereOpensNothing DEF Nowhere
  <1>3. \A p, q \in ports : p = q
    BY DEF WiringOf, GoodObject, Docs
  <1> HIDE DEF D, ports, Resolved, given
  <1>4. CASE e.port = Nowhere
    BY <1>1, <1>2, <1>4 DEF Behind, Nowhere, given, D
  <1>5. CASE e.port # Nowhere /\ ports = {}
    BY <1>1, <1>5 DEF Behind, Nowhere, given, ports, D
  <1>6. CASE e.port # Nowhere /\ ports # {}
    <2>1. PICK p \in ports : p = (CHOOSE q \in ports : TRUE)
      BY <1>6
    <2>2. ports = {p}
      BY <1>3, <2>1
    <2>3. \A pod : Behind(s, e, pod) = Opens(pod, p.target)
      BY <1>6, <2>2 DEF Behind, ports
    <2> QED
      BY <1>1, <1>2, <1>6, <2>1, <2>3 DEF Nowhere, given, D
  <1> QED
    BY <1>4, <1>5, <1>6

LEMMA SelectsExactly ==
    ASSUME WiringOf(input), NEW m \in Docs(Wiring!MonitorKinds), ~Wiring!SelectorProblem(m.selector),
           NEW x \in Docs({"Workload", "Service"})
    PROVE  Wiring!SelectorMatches(m.selector, x.labels) <=> Matches(m.selector, x.labels)
  <1>1. GoodLabels(m.selector.labels) /\ GoodLabels(x.labels)
    BY DEF WiringOf, GoodObject, Docs
  <1> QED
    BY <1>1, SelectsIsMatches, MatchesIsSelects

LEMMA EndpointGives ==
    ASSUME WiringOf(input), NEW n, NEW m \in Docs(Wiring!MonitorKinds), ~Wiring!SelectorProblem(m.selector),
           NEW e, NEW t
    PROVE  t \in Wiring!PodPort(At(n), m, e).targets <=>
               \E pod \in Docs({"Workload"}) : HomeOf(pod) = n /\ \E k \in Scrapes(m, e, pod) : t = Target(pod, k)
  <1> DEFINE D == At(n)
  <1>1. \A w : w \in Docs({"Workload"}) => w \in Docs({"Workload", "Service"})
    BY DEF Docs
  <1>2. \A w : w \in Docs({"Service"}) => w \in Docs({"Workload", "Service"})
    BY DEF Docs
  <1>3. CASE m.kind = "PodMonitor"
    <2>1. Wiring!PodPort(D, m, e).targets = Wiring!ResolveTarget(D, m.selector, OwnPort(e)).targets
      BY <1>3 DEF Wiring!PodPort, OwnPort, Nowhere
    <2>2. \A pod \in Docs({"Workload"}) : HomeOf(pod) = n =>
              (pod \in Wiring!SelectedWorkloads(D, m.selector) <=> Matches(m.selector, pod.labels))
      BY <1>1, SelectedAt, SelectsExactly
    <2>3. \A pod : Scrapes(m, e, pod) = IF Matches(m.selector, pod.labels) THEN Opens(pod, OwnPort(e)) ELSE {}
      BY <1>3 DEF Scrapes
    <2>4. \A pod \in Docs({"Workload"}) : OwnPort(e) = Wiring!NoPort => Opens(pod, OwnPort(e)) = {}
      BY NowhereOpensNothing DEF Nowhere
    <2>5. \A pod : pod \in Wiring!SelectedWorkloads(D, m.selector) => pod \in Docs({"Workload"}) /\ HomeOf(pod) = n
      BY SelectedAt
    <2> HIDE DEF D
    <2>6. t \in Wiring!PodPort(D, m, e).targets <=>
              OwnPort(e) # Wiring!NoPort /\ \E w \in Wiring!SelectedWorkloads(D, m.selector) :
                                            \E k \in Opens(w, OwnPort(e)) : t = Target(w, k)
      BY <2>1, ResolvedTargets
    <2> QED
      BY <2>2, <2>3, <2>4, <2>5, <2>6 DEF D
  <1>4. CASE m.kind # "PodMonitor"
    <2> DEFINE theirs == Wiring!ServicesFor(D, m.selector)
               Gives(s) == Wiring!ServiceTargets(D, s, e)
               each == {Gives(s) : s \in theirs}
    <2>1. Wiring!PodPort(D, m, e).targets = UNION {r.targets : r \in each}
      BY <1>4 DEF Wiring!PodPort
    <2>2. \A s : s \in theirs <=> s \in Docs({"Service"}) /\ HomeOf(s) = n /\ Matches(m.selector, s.labels)
      BY <1>2, SelectedAt, SelectsExactly
    <2>3. \A s \in Docs({"Service"}) : t \in Gives(s).targets <=>
               s.selector # {} /\ \E pod \in Docs({"Workload"}) :
                   HomeOf(pod) = n /\ s.selector \subseteq pod.labels /\ \E k \in Behind(s, e, pod) : t = Target(pod, k)
      BY ServiceGives
    <2> HIDE DEF Gives, theirs
    <2>4. t \in Wiring!PodPort(D, m, e).targets <=> \E s \in theirs : t \in Gives(s).targets
      BY <2>1
    <2>5. \A pod : HomeOf(pod) = n => \A s : s \in Between(m, pod) <=>
               s \in theirs /\ s.selector # {} /\ s.selector \subseteq pod.labels
      BY <2>2 DEF Between
    <2>6. \A pod : \A k : k \in Scrapes(m, e, pod) <=> \E s \in Between(m, pod) : k \in Behind(s, e, pod)
      BY <1>4 DEF Scrapes
    <2>7. ASSUME t \in Wiring!PodPort(D, m, e).targets
          PROVE  \E pod \in Docs({"Workload"}) : HomeOf(pod) = n /\ \E k \in Scrapes(m, e, pod) : t = Target(pod, k)
      <3>1. PICK s \in theirs : t \in Gives(s).targets
        BY <2>4, <2>7
      <3>2. PICK pod \in Docs({"Workload"}) :
                HomeOf(pod) = n /\ s.selector # {} /\ s.selector \subseteq pod.labels
                /\ \E k \in Behind(s, e, pod) : t = Target(pod, k)
        BY <2>2, <2>3, <3>1
      <3> QED
        BY <2>5, <2>6, <3>1, <3>2
    <2>8. ASSUME NEW pod \in Docs({"Workload"}), HomeOf(pod) = n, NEW k \in Scrapes(m, e, pod), t = Target(pod, k)
          PROVE  t \in Wiring!PodPort(D, m, e).targets
      <3>1. PICK s \in Between(m, pod) : k \in Behind(s, e, pod)
        BY <2>6, <2>8
      <3>2. s \in theirs /\ s.selector # {} /\ s.selector \subseteq pod.labels /\ s \in Docs({"Service"})
        BY <2>2, <2>5, <2>8, <3>1
      <3> QED
        BY <2>3, <2>4, <2>8, <3>1, <3>2
    <2> QED
      BY <2>7, <2>8
  <1> QED
    BY <1>3, <1>4

LEMMA ScrapedIsChosen ==
    ASSUME WiringOf(input), NEW m \in Docs(Wiring!MonitorKinds), ~Wiring!SelectorProblem(m.selector),
           NEW e, NEW pod \in Docs({"Workload"}), Scrapes(m, e, pod) # {}
    PROVE  IF m.kind = "PodMonitor" THEN Wiring!SelectedWorkloads(At(HomeOf(pod)), m.selector) # {}
           ELSE Wiring!ServicesFor(At(HomeOf(pod)), m.selector) # {}
  <1>1. pod \in Docs({"Workload", "Service"}) /\ \A s : s \in Docs({"Service"}) => s \in Docs({"Workload", "Service"})
    BY DEF Docs
  <1>2. CASE m.kind = "PodMonitor"
    <2>1. Matches(m.selector, pod.labels)
      BY <1>2 DEF Scrapes
    <2> QED
      BY <1>1, <1>2, <2>1, SelectedAt, SelectsExactly
  <1>3. CASE m.kind # "PodMonitor"
    <2>1. PICK s \in Between(m, pod) : TRUE
      BY <1>3 DEF Scrapes
    <2>2. s \in Docs({"Service"}) /\ HomeOf(s) = HomeOf(pod) /\ Matches(m.selector, s.labels)
      BY <2>1 DEF Between
    <2> QED
      BY <1>1, <1>3, <2>2, SelectedAt, SelectsExactly
  <1> QED
    BY <1>2, <1>3

LEMMA ByHandIsServed ==
    ASSUME NEW n, NEW m, NEW e, Wiring!PodPort(At(n), m, e).byHand
    PROVE  \E h \in Docs({"Endpoints"}) : h.state = "substitution" \/ \E s \in h.subsets : s.addresses > 0
  <1> DEFINE Gives(s) == Wiring!ServiceTargets(At(n), s, e)
  <1>1. PICK s \in Wiring!ServicesFor(At(n), m.selector) : Gives(s).byHand
    <2> DEFINE each == {Gives(s) : s \in Wiring!ServicesFor(At(n), m.selector)}
    <2>1. m.kind # "PodMonitor" /\ \E r \in each : r.byHand
      BY DEF Wiring!PodPort
    <2> HIDE DEF Gives
    <2> QED
      BY <2>1
  <1>2. \E h \in Wiring!EndpointsByHand(At(n), s) : Wiring!EndpointServes(h, e)
    BY <1>1 DEF Wiring!ServiceTargets
  <1> QED
    BY <1>2 DEF Wiring!EndpointsByHand, Wiring!EndpointServes, Wiring!OfKind, At, Placed, Docs

\* What a passing check of an endpoint, of a monitor and of them all rules out.
LEMMA EndpointPasses ==
    ASSUME NEW m, NEW e, NEW nss, NEW groups, NEW corpus, NEW scraper,
           Wiring!CheckEndpoint(m, e, nss, groups, corpus, scraper) = 0,
           NEW n \in nss, NEW found, found = Wiring!PodPort(groups[n], m, e)
    PROVE  /\ found.targets # {} /\ found.status # Wiring!Violation =>
                  \A t \in found.targets : \E p \in Wiring!OfKind(groups[n], {"NetworkPolicy"}) : Wiring!Admits(p, t, scraper)
           /\ found.status = Wiring!Violation =>
                  /\ (IF m.kind = "PodMonitor" THEN Wiring!SelectedWorkloads(groups[n], m.selector)
                      ELSE Wiring!ServicesFor(groups[n], m.selector)) = {}
                     \/ (corpus /\ Wiring!OfKind(groups[n], {"Workload"}) = {})
                  /\ corpus \/ Wiring!Cardinality(nss) # 1
           /\ nss = {n} /\ ~corpus => found.targets # {} \/ found.byHand
  <1> DEFINE resolved == [x \in nss |-> Wiring!PodPort(groups[x], m, e)]
             chosen(x) == IF m.kind = "PodMonitor" THEN Wiring!SelectedWorkloads(groups[x], m.selector)
                          ELSE Wiring!ServicesFor(groups[x], m.selector)
             failed == {x \in nss : resolved[x].status = Wiring!Violation}
             unrendered == {x \in failed : corpus /\ Wiring!OfKind(groups[x], {"Workload"}) = {} /\ chosen(x) = {}}
             good == nss \ failed
             served == \E x \in good : resolved[x].targets # {} \/ resolved[x].byHand
             admitted(x) == \A t \in resolved[x].targets :
                 \E p \in Wiring!OfKind(groups[x], {"NetworkPolicy"}) : Wiring!Admits(p, t, scraper)
  <1>1. Wiring!CheckEndpoint(m, e, nss, groups, corpus, scraper) =
            IF \E x \in nss : resolved[x].status = Wiring!GateError THEN Wiring!GateError
            ELSE IF \E x \in failed \ unrendered : Wiring!Cardinality(nss) = 1 \/ chosen(x) # {} THEN Wiring!Violation
            ELSE IF ~served THEN IF unrendered = nss THEN Wiring!Ok ELSE Wiring!Violation
            ELSE IF \A x \in good : admitted(x) THEN Wiring!Ok ELSE Wiring!Violation
    BY DEF Wiring!CheckEndpoint
  <1>2. resolved[n] = found
    OBVIOUS
  <1>3. n \in failed <=> found.status = Wiring!Violation
    BY <1>2
  <1>4. n \in unrendered <=> n \in failed /\ corpus /\ Wiring!OfKind(groups[n], {"Workload"}) = {} /\ chosen(n) = {}
    OBVIOUS
  <1>5. n \in good <=> n \notin failed
    OBVIOUS
  <1>6. n \in good /\ found.targets # {} => served
    BY <1>2
  <1>7. nss = {n} /\ served => n \in good /\ (found.targets # {} \/ found.byHand)
    BY <1>2
  <1>8. admitted(n) <=> \A t \in found.targets : \E p \in Wiring!OfKind(groups[n], {"NetworkPolicy"}) : Wiring!Admits(p, t, scraper)
    BY <1>2
  <1>9. unrendered \subseteq failed /\ (unrendered # {} => corpus)
    OBVIOUS
  <1> HIDE DEF resolved, failed, unrendered, good, served, admitted, chosen
  <1>10. /\ ~\E x \in failed \ unrendered : Wiring!Cardinality(nss) = 1 \/ chosen(x) # {}
         /\ ~served => unrendered = nss
         /\ served => \A x \in good : admitted(x)
    BY <1>1 DEF Wiring!GateError, Wiring!Violation, Wiring!Ok
  <1>11. found.targets # {} /\ found.status # Wiring!Violation => admitted(n)
    BY <1>3, <1>5, <1>6, <1>10
  <1>12. found.status = Wiring!Violation => /\ chosen(n) = {} \/ (corpus /\ Wiring!OfKind(groups[n], {"Workload"}) = {})
                                            /\ corpus \/ Wiring!Cardinality(nss) # 1
    BY <1>3, <1>4, <1>10
  <1>13. nss = {n} /\ ~corpus => found.targets # {} \/ found.byHand
    BY <1>7, <1>9, <1>10
  <1> QED
    BY <1>8, <1>11, <1>12, <1>13 DEF chosen

LEMMA MaxIsOk ==
    ASSUME NEW S, S \subseteq {0, 1, 2}, S # {}
    PROVE  Wiring!Max(S) \in S /\ (Wiring!Max(S) = 0 => S = {0})
  <1>1. \E x \in S : \A y \in S : x >= y
    <2>1. CASE 2 \in S
      BY <2>1
    <2>2. CASE 2 \notin S /\ 1 \in S
      BY <2>2
    <2>3. CASE S = {0}
      BY <2>3
    <2> QED
      BY <2>1, <2>2, <2>3
  <1> DEFINE most == Wiring!Max(S)
  <1>2. most \in S /\ \A y \in S : most >= y
    BY <1>1 DEF Wiring!Max
  <1> HIDE DEF most
  <1>3. ASSUME most = 0, NEW y \in S PROVE y = 0
    <2>1. y \in {0, 1, 2} /\ 0 >= y
      BY <1>2, <1>3
    <2> QED
      BY <2>1
  <1>4. most = 0 => S = {0}
    BY <1>2, <1>3
  <1> QED
    BY <1>2, <1>4 DEF most

LEMMA MonitorPasses ==
    ASSUME NEW m, NEW nss, NEW groups, NEW corpus, NEW scraper
    PROVE  /\ Wiring!CheckMonitor(m, nss, groups, corpus, scraper) \in {0, 1, 2}
           /\ Wiring!CheckMonitor(m, nss, groups, corpus, scraper) = 0 =>
                 /\ ~Wiring!SelectorProblem(m.selector)
                 /\ \A e \in m.endpoints : Wiring!CheckEndpoint(m, e, nss, groups, corpus, scraper) = 0
  <1> DEFINE Of(e) == Wiring!CheckEndpoint(m, e, nss, groups, corpus, scraper)
             all == {Of(e) : e \in m.endpoints}
  <1>1. \A e : Of(e) \in {0, 1, 2}
    BY DEF Wiring!CheckEndpoint, Wiring!Ok, Wiring!Violation, Wiring!GateError
  <1>2. Wiring!CheckMonitor(m, nss, groups, corpus, scraper) =
            IF Wiring!SelectorProblem(m.selector) \/ ~Wiring!Narrows(m.selector) \/ m.endpoints = {} THEN 2
            ELSE Wiring!Max(all)
    BY DEF Wiring!CheckMonitor, Wiring!GateError
  <1> HIDE DEF Of
  <1>3. all \subseteq {0, 1, 2} /\ (m.endpoints # {} => all # {})
    BY <1>1
  <1>4. m.endpoints # {} => Wiring!Max(all) \in {0, 1, 2} /\ (Wiring!Max(all) = 0 => \A e \in m.endpoints : Of(e) = 0)
    BY <1>3, MaxIsOk
  <1> HIDE DEF all
  <1> QED
    BY <1>2, <1>4 DEF Of

LEMMA ScopeIsReach ==
    ASSUME NEW m \in Docs(Wiring!MonitorKinds),
           Wiring!MonitorScope(m, HomeOf(m), Groups, input.corpus).status = 0
    PROVE  Wiring!MonitorScope(m, HomeOf(m), Groups, input.corpus).namespaces = Reached(m)
  <1>1. DOMAIN Groups = {HomeOf(d) : d \in Placed}
    BY GroupIsAt
  <1> QED
    BY <1>1 DEF Wiring!MonitorScope, Wiring!Ok, Wiring!GateError, Reached

LEMMA EveryMonitorPasses ==
    ASSUME Wiring!Verdict(input) = 0, NEW m \in Docs(Wiring!MonitorKinds)
    PROVE  LET scope == Wiring!MonitorScope(m, HomeOf(m), Groups, input.corpus)
           IN  scope.status = 0 /\ Wiring!CheckMonitor(m, scope.namespaces, Groups, input.corpus, input.scraper) = 0
  <1> DEFINE monitors == UNION {{<<n, d>> : d \in Wiring!OfKind(Groups[n], Wiring!MonitorKinds)} : n \in DOMAIN Groups}
             scope == [x \in monitors |-> Wiring!MonitorScope(x[2], x[1], Groups, input.corpus)]
             Of(x) == IF scope[x].status # 0 THEN scope[x].status
                      ELSE Wiring!CheckMonitor(x[2], scope[x].namespaces, Groups, input.corpus, input.scraper)
             outcome == {Of(x) : x \in monitors}
             mine == <<HomeOf(m), m>>
  <1>1. HomeOf(m) \in DOMAIN Groups /\ m \in Wiring!OfKind(Groups[HomeOf(m)], Wiring!MonitorKinds)
    <2>1. m \in Placed
      BY DEF Docs, Placed, Wiring!MonitorKinds
    <2> QED
      BY <2>1, GroupIsAt DEF At, Wiring!OfKind, Docs
  <1>2. mine \in monitors
    BY <1>1
  <1>3. ~(\E o \in outcome : o # 0) \/ Wiring!Max(outcome) = 0
    <2> DEFINE misplaced == \/ Asked # "" /\ ~(Wiring!Stated(input.docs) \subseteq {Asked})
                            \/ "" \in DOMAIN Groups /\ Wiring!Cardinality(DOMAIN Groups) > 1
               targeted == UNION {scope[x].namespaces : x \in monitors}
    <2>1. Wiring!Check(input.docs, Asked, input.corpus, input.scraper) = 0
      BY DEF Wiring!Verdict, Asked, Wiring!GateError
    <2>2. Wiring!Check(input.docs, Asked, input.corpus, input.scraper) =
              IF misplaced THEN 2
              ELSE IF monitors = {} THEN IF Wiring!RefuseVacuous(Groups, {}) THEN 2 ELSE 0
              ELSE IF \E o \in outcome : o # 0 THEN Wiring!Max(outcome)
              ELSE IF ~input.corpus /\ Wiring!RefuseVacuous(Groups, targeted) THEN 2
              ELSE 0
      BY DEF Wiring!Check, Groups, Wiring!Ok, Wiring!GateError, Wiring!NoNamespace
    <2>3. monitors # {}
      BY <1>2
    <2> HIDE DEF monitors, outcome, misplaced, targeted
    <2> QED
      BY <2>1, <2>2, <2>3
  <1>4. scope[mine] = Wiring!MonitorScope(m, HomeOf(m), Groups, input.corpus)
    BY <1>2
  <1>5. \A x \in monitors : Of(x) \in {0, 1, 2}
    <2>1. \A x \in monitors : scope[x].status \in {0, 2}
      BY DEF Wiring!MonitorScope, Wiring!Ok, Wiring!GateError
    <2> HIDE DEF monitors, scope
    <2> QED
      BY <2>1, MonitorPasses
  <1> HIDE DEF monitors, scope, Of
  <1>6. outcome \subseteq {0, 1, 2} /\ Of(mine) \in outcome
    BY <1>2, <1>5
  <1> HIDE DEF outcome
  <1>7. Of(mine) = 0
    BY <1>3, <1>6, MaxIsOk
  <1> QED
    BY <1>4, <1>7 DEF Of

LEMMA NoneIsVacuous ==
    ASSUME Wiring!Verdict(input) = 0, Docs(Wiring!MonitorKinds) = {}, NEW n \in DOMAIN Groups
    PROVE  ~Wiring!ScrapeAllow(Groups[n])
  <1> DEFINE monitors == UNION {{<<x, d>> : d \in Wiring!OfKind(Groups[x], Wiring!MonitorKinds)} : x \in DOMAIN Groups}
  <1>1. \A x \in DOMAIN Groups : Wiring!OfKind(Groups[x], Wiring!MonitorKinds) = {}
    BY GroupIsAt DEF At, Placed, Docs, Wiring!OfKind
  <1>2. monitors = {}
    BY <1>1
  <1>3. ~Wiring!RefuseVacuous(Groups, {})
    BY <1>2 DEF Wiring!Verdict, Wiring!Check, Groups, Asked, Wiring!Ok, Wiring!GateError
  <1> QED
    BY <1>3 DEF Wiring!RefuseVacuous

LEMMA PodsAreReached ==
    ASSUME WiringOf(input), Wiring!Verdict(input) = 0,
           NEW m \in Docs(Wiring!MonitorKinds), NEW pod \in Docs({"Workload"}), HomeOf(pod) \in Reached(m),
           NEW e \in m.endpoints, NEW k \in Scrapes(m, e, pod)
    PROVE  Connects(pod, k)
  <1> DEFINE n == HomeOf(pod)
             nss == Reached(m)
             found == Wiring!PodPort(At(n), m, e)
  <1>1. /\ ~Wiring!SelectorProblem(m.selector)
        /\ Wiring!CheckEndpoint(m, e, nss, Groups, input.corpus, input.scraper) = 0
    BY EveryMonitorPasses, ScopeIsReach, MonitorPasses
  <1>2. Groups[n] = At(n)
    <2>1. pod \in Placed
      BY DEF Docs, Placed
    <2> QED
      BY <2>1, GroupIsAt
  <1>3. k \in Nat \ {0}
    <2>1. CASE m.kind = "PodMonitor"
      BY <2>1, NowhereOpensNothing DEF Scrapes
    <2>2. CASE m.kind # "PodMonitor"
      <3>1. PICK s \in Between(m, pod) : k \in Behind(s, e, pod)
        BY <2>2 DEF Scrapes
      <3>2. \E port : k \in Opens(pod, port)
        BY <3>1 DEF Behind
      <3> QED
        BY <3>2, NowhereOpensNothing
    <2> QED
      BY <2>1, <2>2
  <1>4. Target(pod, k) \in found.targets
    BY <1>1, EndpointGives
  <1>5. (IF m.kind = "PodMonitor" THEN Wiring!SelectedWorkloads(At(n), m.selector)
         ELSE Wiring!ServicesFor(At(n), m.selector)) # {}
    BY <1>1, ScrapedIsChosen
  <1>6. pod \in Wiring!OfKind(At(n), {"Workload"})
    BY DEF Wiring!OfKind, At, Placed, Docs
  <1> HIDE DEF found, nss
  <1>7. found.status # Wiring!Violation
    BY <1>1, <1>2, <1>5, <1>6, EndpointPasses DEF found, nss
  <1>8. PICK p \in Wiring!OfKind(At(n), {"NetworkPolicy"}) : Wiring!Admits(p, Target(pod, k), input.scraper)
    BY <1>1, <1>2, <1>4, <1>7, EndpointPasses DEF found, nss
  <1>9. p \in Docs({"NetworkPolicy"}) /\ HomeOf(p) = HomeOf(pod)
    BY <1>8 DEF Wiring!OfKind, At, Placed, Docs
  <1> QED
    BY <1>3, <1>8, <1>9, PolicyConnects DEF Target

LEMMA EndpointIsServed ==
    ASSUME WiringOf(input), Wiring!Verdict(input) = 0, ~input.corpus,
           NEW m \in Docs(Wiring!MonitorKinds), NEW e \in m.endpoints
    PROVE  \/ \E pod \in Docs({"Workload"}) : Scrapes(m, e, pod) # {}
           \/ \E h \in Docs({"Endpoints"}) : h.state = "substitution" \/ \E s \in h.subsets : s.addresses > 0
  <1> DEFINE n == HomeOf(m)
             found == Wiring!PodPort(At(n), m, e)
             nss == Wiring!MonitorScope(m, n, Groups, input.corpus).namespaces
  <1>1. nss = {n}
    <2>1. Wiring!MonitorScope(m, n, Groups, input.corpus).status = 0
      BY EveryMonitorPasses
    <2> QED
      BY <2>1 DEF Wiring!MonitorScope, Wiring!Ok, Wiring!GateError
  <1>2. /\ ~Wiring!SelectorProblem(m.selector)
        /\ Wiring!CheckEndpoint(m, e, nss, Groups, input.corpus, input.scraper) = 0
    BY EveryMonitorPasses, MonitorPasses
  <1>3. Groups[n] = At(n)
    <2>1. m \in Placed
      BY DEF Docs, Placed, Wiring!MonitorKinds
    <2> QED
      BY <2>1, GroupIsAt
  <1> HIDE DEF nss
  <1>4. found.targets # {} \/ found.byHand
    BY <1>1, <1>2, <1>3, EndpointPasses
  <1>5. found.targets # {} => \E pod \in Docs({"Workload"}) : Scrapes(m, e, pod) # {}
    BY <1>2, EndpointGives
  <1> QED
    BY <1>4, <1>5, ByHandIsServed

LEMMA ScraperIsAllowed ==
    ASSUME NEW docs, NEW p \in Wiring!OfKind(docs, {"NetworkPolicy"}), NEW r \in p.rules, ScraperNs \in r.peers
    PROVE  Wiring!ScrapeAllow(docs)
  <1> DEFINE s == Labels({NsName(Observability)})
  <1>3. ScraperNs.kind = "pods" /\ ScraperNs.namespaces = s /\ s.given
    BY DEF ScraperNs, Labels
  <1>4. /\ s.shape = "ok" /\ s.exprs = {} /\ s.labels = {<<NameLabel, Observability>>}
    BY DEF Labels, NsName
  <1> HIDE DEF s
  <1>5. ~Wiring!SelectorProblem(s)
    BY <1>4 DEF Wiring!SelectorProblem
  <1>6. Wiring!NamespaceTerms(s).selects /\ Wiring!NamespaceTerms(s).named
    <2> DEFINE reduced == [given |-> TRUE, shape |-> s.shape,
                           labels |-> {l \in s.labels : l[1] = NameLabel}, exprs |-> {x \in s.exprs : x.key = NameLabel}]
    <2>1. reduced.labels = {<<NameLabel, Observability>>} /\ reduced.exprs = {} /\ reduced.shape = "ok"
      BY <1>4
    <2>2. Wiring!SelectorMatches(reduced, {<<NameLabel, Observability>>})
      <3> HIDE DEF reduced
      <3> QED
        BY <2>1 DEF Wiring!SelectorMatches, Wiring!SelectorProblem
    <2>3. Wiring!NamespaceTerms(s).selects
      BY <1>5, <2>2 DEF Wiring!NamespaceTerms
    <2>4. \E l \in s.labels : l[1] = NameLabel
      BY <1>4
    <2> QED
      BY <2>3, <2>4 DEF Wiring!NamespaceTerms
  <1> QED
    BY <1>3, <1>6 DEF Wiring!ScrapeAllow

LEMMA MeantIsMonitored ==
    ASSUME Wiring!Verdict(input) = 0,
           NEW p \in Docs({"NetworkPolicy"}), NEW r \in p.rules, ScraperNs \in r.peers
    PROVE  Docs(Wiring!MonitorKinds) # {}
  <1>1. p \in Placed
    BY DEF Docs, Placed
  <1>2. p \in Wiring!OfKind(Groups[HomeOf(p)], {"NetworkPolicy"}) /\ HomeOf(p) \in DOMAIN Groups
    BY <1>1, GroupIsAt DEF At, Docs, Wiring!OfKind
  <1> QED
    BY <1>2, ScraperIsAllowed, NoneIsVacuous

\* In a tree, a monitor that reaches the very namespace.
LEMMA MeantIsReached ==
    ASSUME Wiring!Verdict(input) = 0, ~input.corpus,
           NEW p \in Docs({"NetworkPolicy"}), NEW r \in p.rules, ScraperNs \in r.peers
    PROVE  \E m \in Docs(Wiring!MonitorKinds) : HomeOf(p) \in Reached(m)
  <1> DEFINE monitors == UNION {{<<n, d>> : d \in Wiring!OfKind(Groups[n], Wiring!MonitorKinds)} : n \in DOMAIN Groups}
             scope == [x \in monitors |-> Wiring!MonitorScope(x[2], x[1], Groups, input.corpus)]
             Of(x) == IF scope[x].status # 0 THEN scope[x].status
                      ELSE Wiring!CheckMonitor(x[2], scope[x].namespaces, Groups, input.corpus, input.scraper)
             outcome == {Of(x) : x \in monitors}
             targeted == UNION {scope[x].namespaces : x \in monitors}
  <1>1. \A x \in monitors : /\ x[2] \in Docs(Wiring!MonitorKinds) /\ x[1] = HomeOf(x[2])
                            /\ scope[x].status = 0 /\ Of(x) = 0 /\ scope[x].namespaces = Reached(x[2])
    <2> SUFFICES ASSUME NEW n \in DOMAIN Groups, NEW d \in Wiring!OfKind(Groups[n], Wiring!MonitorKinds)
                 PROVE  LET sc == Wiring!MonitorScope(d, n, Groups, input.corpus)
                        IN  /\ d \in Docs(Wiring!MonitorKinds) /\ n = HomeOf(d)
                            /\ sc.status = 0 /\ sc.namespaces = Reached(d)
                            /\ Wiring!CheckMonitor(d, sc.namespaces, Groups, input.corpus, input.scraper) = 0
      OBVIOUS
    <2>1. d \in Docs(Wiring!MonitorKinds) /\ n = HomeOf(d)
      BY GroupIsAt DEF At, Placed, Docs, Wiring!OfKind
    <2> QED
      BY <2>1, EveryMonitorPasses, ScopeIsReach
  <1>2. ~(\E o \in outcome : o # 0)
    BY <1>1
  <1>3. monitors # {}
    <2>1. PICK m \in Docs(Wiring!MonitorKinds) : TRUE
      BY MeantIsMonitored
    <2>2. m \in Placed
      BY DEF Docs, Placed, Wiring!MonitorKinds
    <2>3. HomeOf(m) \in DOMAIN Groups /\ m \in Wiring!OfKind(Groups[HomeOf(m)], Wiring!MonitorKinds)
      BY <2>1, <2>2, GroupIsAt DEF At, Wiring!OfKind, Docs
    <2>4. <<HomeOf(m), m>> \in monitors
      BY <2>3
    <2> QED
      BY <2>4
  <1>4. ~Wiring!RefuseVacuous(Groups, targeted)
    <2> DEFINE misplaced == \/ Asked # "" /\ ~(Wiring!Stated(input.docs) \subseteq {Asked})
                            \/ "" \in DOMAIN Groups /\ Wiring!Cardinality(DOMAIN Groups) > 1
    <2>1. Wiring!Check(input.docs, Asked, input.corpus, input.scraper) = 0
      BY DEF Wiring!Verdict, Asked, Wiring!GateError
    <2>2. Wiring!Check(input.docs, Asked, input.corpus, input.scraper) =
              IF misplaced THEN 2
              ELSE IF monitors = {} THEN IF Wiring!RefuseVacuous(Groups, {}) THEN 2 ELSE 0
              ELSE IF \E o \in outcome : o # 0 THEN Wiring!Max(outcome)
              ELSE IF ~input.corpus /\ Wiring!RefuseVacuous(Groups, targeted) THEN 2
              ELSE 0
      BY DEF Wiring!Check, Groups, Wiring!Ok, Wiring!GateError, Wiring!NoNamespace
    <2> HIDE DEF monitors, outcome, misplaced, targeted
    <2> QED
      BY <2>1, <2>2, <1>2, <1>3
  <1>5. p \in Wiring!OfKind(Groups[HomeOf(p)], {"NetworkPolicy"}) /\ HomeOf(p) \in DOMAIN Groups
    <2>1. p \in Placed
      BY DEF Docs, Placed
    <2> QED
      BY <2>1, GroupIsAt DEF At, Docs, Wiring!OfKind
  <1>6. HomeOf(p) \in targeted
    <2> HIDE DEF targeted
    <2> QED
      BY <1>4, <1>5, ScraperIsAllowed DEF Wiring!RefuseVacuous
  <1> QED
    BY <1>1, <1>6

LEMMA GoodObjects ==
    /\ \A ns, labels, ports : GoodLabels(labels) /\ (\A p \in ports : p.number \in Nat \ {0})
                              => GoodObject(WiredPod(ns, labels, ports))
    /\ \A ns, selector, ports : (\A p, q \in ports : p.name = q.name => p = q)
                                => GoodObject(WiredService(ns, selector, ports))
    /\ \A ns, pods, peers, ports : (\A e \in ports : GoodEntry(e)) => GoodObject(WiredPolicy(ns, pods, peers, ports))
    /\ \A d : d.kind \in {"Unnamespaced", "Endpoints"} => GoodObject(d)
  <1>1. GoodLabels(Web) /\ GoodLabels({})
    BY DEF GoodLabels, Web
  <1>2. \A ns, labels, ports : GoodLabels(labels) /\ (\A p \in ports : p.number \in Nat \ {0})
                               => GoodObject(WiredPod(ns, labels, ports))
    BY DEF GoodObject, WiredPod, Wiring!MonitorKinds
  <1>3. \A ns, selector, ports : (\A p, q \in ports : p.name = q.name => p = q)
                                => GoodObject(WiredService(ns, selector, ports))
    BY <1>1 DEF GoodObject, WiredService, Wiring!MonitorKinds
  <1>4. \A ns, pods, peers, ports : (\A e \in ports : GoodEntry(e)) => GoodObject(WiredPolicy(ns, pods, peers, ports))
    BY DEF GoodObject, WiredPolicy, Wiring!MonitorKinds
  <1>6. \A d : d.kind \in {"Unnamespaced", "Endpoints"} => GoodObject(d)
    BY DEF GoodObject, Wiring!MonitorKinds
  <1> QED
    BY <1>2, <1>3, <1>4, <1>6

LEMMA GoodMonitors ==
    ASSUME NEW kind \in Wiring!MonitorKinds, NEW names, NEW any, NEW endpoints
    PROVE  GoodObject(WiredMonitor(kind, names, any, endpoints))
  <1>1. GoodLabels(Web)
    BY DEF GoodLabels, Web
  <1> QED
    BY <1>1 DEF GoodObject, WiredMonitor, Wiring!MonitorKinds, Labels

LEMMA BoundedObjects ==
    /\ GoodObject(PodA) /\ GoodObject(PodB) /\ GoodObject(ServiceA) /\ GoodObject(AllowAll)
    /\ \A e : GoodObject(Watch(e))
    /\ \A ns, l, port : GoodObject(WiredService(ns, l, {port}))
    /\ \A e \in Entries : GoodEntry(e)
    /\ \A d \in CorpusDocs : GoodObject(d)
  <1>1. \A ns, l, port : GoodObject(WiredService(ns, l, {port}))
    BY GoodObjects
  <1>2. \A ns, pods, peers : GoodObject(WiredPolicy(ns, pods, peers, {}))
    BY GoodObjects
  <1>3. GoodObject(PodA) /\ GoodObject(WiredPod("b", Web, {Port("http", 5)}))
    <2>1. GoodLabels(Web)
      BY DEF GoodLabels, Web
    <2> QED
      BY <2>1, GoodObjects DEF PodA, Port
  <1>4. GoodObject(PodB)
    <2> DEFINE labels == {<<"app", "web">>, <<"tier", "t">>}
               ports == {Port("metrics", 6), Port("", 5)}
    <2>1. GoodLabels(labels)
      BY DEF GoodLabels
    <2>2. \A p \in ports : p.number \in Nat \ {0}
      <3> DEFINE p == Port("metrics", 6)
                 q == Port("", 5)
      <3>1. p.number = 6 /\ q.number = 5
        BY DEF Port
      <3>2. ports = {p, q}
        OBVIOUS
      <3> HIDE DEF ports, p, q
      <3> QED
        BY <3>1, <3>2
    <2>3. PodB = WiredPod("a", labels, ports)
      BY DEF PodB
    <2> HIDE DEF labels, ports
    <2> QED
      BY <2>1, <2>2, <2>3, GoodObjects
  <1>5. \A e : GoodObject(Watch(e))
    <2>1. "ServiceMonitor" \in Wiring!MonitorKinds
      BY DEF Wiring!MonitorKinds
    <2> QED
      BY <2>1, GoodMonitors DEF Watch
  <1>6. \A e \in Entries : GoodEntry(e)
    <2> DEFINE ports == {Nowhere, ByNumber(4), ByNumber(5), ByName("metrics"), ByName("http")}
    <2>1. ASSUME NEW po \in ports PROVE po = Port(po.name, po.number) /\ po.number \in {0, 4, 5}
      <3>1. \A name, n : Port(name, n).name = name /\ Port(name, n).number = n
        BY DEF Port
      <3>2. Nowhere = Port("", 0)
        BY DEF Port, Nowhere, Wiring!NoPort, Wiring!NoName, Wiring!NoNumber
      <3>3. /\ \A n : ByNumber(n) = Port("", n)
            /\ \A name : ByName(name) = Port(name, 0)
        BY DEF ByNumber, ByName, Wiring!NoName, Wiring!NoNumber
      <3>4. \E name : \E n \in {0, 4, 5} : po = Port(name, n)
        BY <3>2, <3>3
      <3> QED
        BY <3>1, <3>4
    <2> HIDE DEF ports
    <2>2. ASSUME NEW e \in Entries PROVE e.port \in ports /\ e.endPort \in {0, 5, 6}
      BY DEF Entries, Entry, Wiring!NoNumber, ports
    <2>3. ASSUME NEW e \in Entries PROVE GoodEntry(e)
      <3>1. e.port = Port(e.port.name, e.port.number)
        BY <2>1, <2>2
      <3>2. e.port.number \in Nat /\ e.endPort \in Nat /\ (e.endPort = 0 \/ e.port.number <= e.endPort)
        BY <2>1, <2>2
      <3> QED
        BY <3>1, <3>2 DEF GoodEntry, GoodPort
    <2> QED
      BY <2>3
  <1>7. \A d \in CorpusDocs : GoodObject(d)
    BY <1>1, <1>2, <1>3 DEF CorpusDocs, ServiceA, AllowAll
  <1> QED
    BY <1>1, <1>2, <1>3, <1>4, <1>5, <1>6, <1>7 DEF ServiceA, AllowAll

LEMMA BoundedWiring == \A in \in WiringInputs : WiringOf(in)
  <1>1. \A docs, scraper : (\A d \in docs : GoodObject(d)) =>
            /\ WiringOf(Tree(docs, scraper)) /\ WiringOf(Corpus(docs))
            /\ \A n, from : WiringOf([Tree(docs, scraper) EXCEPT !.namespace = n, !.fromTree = from])
            /\ \A u, x : WiringOf([Tree(docs, scraper) EXCEPT !.usage = u, !.unreadable = x])
    BY DEF WiringOf, Tree, Corpus
  <1>2. ASSUME NEW pods \in SUBSET {PodA, PodB}, NEW s, NEW policies, \A p \in policies : GoodObject(p)
        PROVE  WiringOf(Guarding(pods, s, policies))
    <2>1. \A d \in {Watch(ViaHttp), ServiceA} \cup pods \cup policies : GoodObject(d)
      BY <1>2, BoundedObjects
    <2> QED
      BY <1>1, <2>1 DEF Guarding
  <1>3. \A in \in AdmittingInputs : WiringOf(in)
    <2>1. ASSUME NEW q, NEW s PROVE WiringOf(Admitting(q, s))
      <3>1. GoodObject(WiredPolicy("a", Labels({}), {q}, {}))
        BY GoodObjects
      <3> QED
        BY <1>2, <3>1 DEF Admitting
    <2> QED
      BY <2>1 DEF AdmittingInputs
  <1>4. \A in \in OpeningInputs : WiringOf(in)
    <2>1. \A l : \A e \in Entries : GoodObject(Opening(l, e))
      BY GoodObjects, BoundedObjects DEF Opening
    <2>2. ASSUME NEW l, NEW e \in Entries, NEW f \in Entries
          PROVE  WiringOf(OpeningTwice(l, e, f))
      BY <1>2, <2>1 DEF OpeningTwice
    <2> QED
      BY <2>2 DEF OpeningInputs
  <1>5. \A in \in ExposingInputs : WiringOf(in)
    <2>1. \A s \in Exposed : \A d \in s : GoodObject(d)
      <3>1. \A l, t : \A d \in OneService(l, t) : GoodObject(d)
        BY BoundedObjects DEF OneService
      <3>2. \A l : \A d \in TwoServices(l) : GoodObject(d)
        BY BoundedObjects DEF TwoServices
      <3> QED
        BY <3>1, <3>2 DEF Exposed
    <2>2. ASSUME NEW s \in Exposed, NEW pods \in SUBSET {PodA, PodB}, NEW k \in Wiring!MonitorKinds, NEW e
          PROVE  WiringOf(Exposing(s, pods, k, e))
      <3> DEFINE m == WiredMonitor(k, {}, FALSE, {e})
      <3>1. GoodObject(m)
        BY GoodMonitors
      <3> HIDE DEF m
      <3>2. \A d \in {m, AllowAll} \cup s \cup pods : GoodObject(d)
        BY <2>1, <3>1, BoundedObjects
      <3>3. WiringOf(Tree({m, AllowAll} \cup s \cup pods, {}))
        BY <1>1, <3>2
      <3> QED
        BY <3>3 DEF Exposing, m
    <2> QED
      BY <2>2 DEF ExposingInputs
  <1>6. \A in \in ByHandInputs : WiringOf(in)
    <2>1. \A h \in HandWritten : GoodObject(h)
      <3>1. \A h \in HandWritten : h.kind = "Endpoints"
        BY DEF HandWritten
      <3> QED
        BY <3>1, GoodObjects
    <2>2. ASSUME NEW e, NEW h \in HandWritten
          PROVE  WiringOf(Serving(e, h))
      <3>1. \A d \in {Watch(e), WiredService("a", {}, {}), h} : GoodObject(d)
        BY <2>1, BoundedObjects, GoodObjects
      <3> QED
        BY <1>1, <3>1 DEF Serving
    <2> QED
      BY <2>2 DEF ByHandInputs
  <1>10. \A k \in Wiring!MonitorKinds : \A n, any : \A d \in InScope(k, n, any) : GoodObject(d)
    BY GoodMonitors DEF InScope
  <1>7. \A in \in PlacingInputs : WiringOf(in)
    <2>1. \A x, y : \A d \in PlacedDocs(x, y) : GoodObject(d)
      <3>1. GoodLabels(Web) /\ \A p \in {ByNumber(5)} : p.number \in Nat \ {0}
        BY DEF GoodLabels, Web, ByNumber, Port
      <3>2. \A x, y : /\ GoodObject(WiredPod(x, Web, {ByNumber(5)}))
                      /\ GoodObject(WiredPolicy(y, Labels({}), {ScraperNs}, {}))
        BY <3>1, GoodObjects
      <3>3. GoodObject([kind |-> "Unnamespaced", name |-> "a", ns |-> Wiring!NoNamespace, namespace |-> TRUE])
        BY GoodObjects
      <3> QED
        BY <3>2, <3>3, BoundedObjects DEF PlacedDocs
    <2>2. \A m \in ScopedMonitors : \A d \in m : GoodObject(d)
      BY <1>10 DEF ScopedMonitors, Wiring!MonitorKinds
    <2>3. ASSUME NEW x, NEW y, NEW m \in ScopedMonitors, NEW n
          PROVE  WiringOf(Placing(x, y, m, n))
      <3>1. \A d \in PlacedDocs(x, y) \cup m : GoodObject(d)
        BY <2>1, <2>2
      <3> QED
        BY <1>1, <3>1 DEF Placing
    <2> QED
      BY <2>3 DEF PlacingInputs
  <1>8. \A in \in CorpusInputs : WiringOf(in)
    <2>1. ASSUME NEW k \in Wiring!MonitorKinds, NEW n, NEW any, NEW d \in SUBSET CorpusDocs
          PROVE  WiringOf(Rendering(k, n, any, d))
      <3>1. \A x \in InScope(k, n, any) \cup d : GoodObject(x)
        BY <1>10, BoundedObjects
      <3> QED
        BY <1>1, <3>1 DEF Rendering
    <2> QED
      BY <2>1 DEF CorpusInputs
  <1>9. \A in \in UsageInputs : WiringOf(in)
    <2>1. ASSUME NEW d \in {{}, {AllowAll}}, NEW u, NEW x
          PROVE  WiringOf(Using(u, x, d))
      BY <1>1, BoundedObjects DEF Using
    <2> QED
      BY <2>1 DEF UsageInputs
  <1> QED
    BY <1>3, <1>4, <1>5, <1>6, <1>7, <1>8, <1>9 DEF WiringInputs

=============================================================================
