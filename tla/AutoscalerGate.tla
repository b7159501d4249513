---------------------------- MODULE AutoscalerGate ----------------------------
(***************************************************************************)
(* check-hpa-vpa-invariant.py: no resource of a workload is driven by both *)
(* an HPA and a VPA, memory caps can bind, a node drains at an HPA's floor *)
(* and an autoscaler has a target.                                         *)
(*                                                                         *)
(* An object's key is <<namespace, kind, name>>; a target is such a key,   *)
(* with no name ("") where the reference has none.  A quantity is          *)
(* [n, suffix]; Missing stands for an absent or empty one.                 *)
(***************************************************************************)
EXTENDS Integers, Sequences, FiniteSets

Resources == {"cpu", "memory"}
Named(target) == target[3] # ""

(***************************************************************************)
(* Which resources each side drives.                                       *)
(***************************************************************************)
HpaMetrics(hpa) ==
    IF hpa.metrics = {} THEN {"cpu"}
    ELSE {m.name : m \in {x \in hpa.metrics : x.type \in {"Resource", "ContainerResource"}}} \cap Resources

Unset == {"unset"}   \* controlledResources not given
Controlled(p) == IF p.resources = Unset THEN Resources ELSE p.resources

(* Broken variant: containers no policy names are taken to be left alone. *)
VpaResourcesNamed(vpa) ==
    IF vpa.policies = <<>> THEN Resources
    ELSE UNION {IF vpa.policies[i].off THEN {} ELSE Controlled(vpa.policies[i]) : i \in DOMAIN vpa.policies}

(* What a VPA may change in any container: without a catch-all policy the  *)
(* containers no policy names keep the default control.                    *)
VpaResources(vpa) ==
    LET ps == vpa.policies
    IN  (UNION {IF ps[i].off THEN {} ELSE Controlled(ps[i]) : i \in DOMAIN ps})
        \cup (IF \E i \in DOMAIN ps : ps[i].container = "*" THEN {} ELSE Resources)

Kind(docs, kind) == {d \in docs : d.kind = kind}
Hpas(docs) == {h \in Kind(docs, "HPA") : Named(h.target)}
Vpas(docs) == {v \in Kind(docs, "VPA") : Named(v.target)}
Mutating(docs) == {v \in Vpas(docs) : ~v.off}

(* Several HPAs or VPAs may have one target: their resources add up. *)
HpaDrives(docs, target) == UNION {HpaMetrics(h) : h \in {x \in Hpas(docs) : x.target = target}}
VpaDrives(docs, target) == UNION {VpaResources(v) : v \in {x \in Mutating(docs) : x.target = target}}

Clash(docs) == \E h \in Hpas(docs) : HpaDrives(docs, h.target) \cap VpaDrives(docs, h.target) # {}

(* A chart's HPA is not in the corpus; its target needs a VPA that changes *)
(* something, and not the cpu.                                             *)
ChartNativeViolation(docs, targets) ==
    \E t \in targets : LET drives == VpaDrives(docs, t) IN drives = {} \/ "cpu" \in drives

(***************************************************************************)
(* Quantities, and what the containers of a workload set.                  *)
(***************************************************************************)
Missing == [n |-> 0, suffix |-> "missing"]
Factors == [b |-> 1, k |-> 1000, Ki |-> 1024, M |-> 1000000, Mi |-> 1048576]
Readable(q) == q.suffix \in DOMAIN Factors
Quantity(q) == q.n * Factors[q.suffix]

Workloads(docs) == {w \in Kind(docs, "Workload") : Named(w.key)}
WorkloadAt(docs, key) == {w \in Workloads(docs) : w.key = key}

CpuLimitViolation(docs, allowed) ==
    \E d \in Kind(docs, "Workload") \cup Kind(docs, "HelmRelease") :
        d.key \notin allowed /\ \/ d.kind = "HelmRelease" /\ d.setsCpuLimit
                                \/ d.kind = "Workload" /\ \E c \in d.containers : c.limits.cpu # Missing

(* container |-> memory limit: the rendered ones, and declared ones where  *)
(* the corpus has none.                                                    *)
MemoryLimits(docs, target, declared) ==
    LET given == {d \in declared : d.target = target}
        rendered == {c \in UNION {w.containers : w \in WorkloadAt(docs, target)} : c.limits.memory # Missing}
        names == {c.name : c \in rendered}
    IN  {[container |-> c.name, limit |-> c.limits.memory] : c \in rendered}
        \cup {[container |-> d.container, limit |-> d.limit] : d \in {x \in given : x.container \notin names}}

Range(s) == {s[i] : i \in DOMAIN s}
Wildcard(p) == p.container \in {"", "*"}
ControlsLimits(p) == p.values # "RequestsOnly"

(* The limits a policy's cap is held against: its own container's, or for  *)
(* a wildcard those of every container without a policy of its own.        *)
CapTargets(vpa, p, limits) ==
    LET explicit == {q.container : q \in {x \in Range(vpa.policies) : ~Wildcard(x)}}
    IN  IF Wildcard(p) THEN {l \in limits : l.container \notin explicit}
        ELSE {l \in limits : l.container = p.container}

CapTooHigh(vpa, p, limit) ==
    /\ ~vpa.off /\ ~p.off
    /\ \/ Quantity(p.cap) > Quantity(limit)
       \/ ControlsLimits(p) /\ Quantity(p.cap) = Quantity(limit)

CapViolation(docs, allowed, declared) ==
    \E v \in Vpas(docs) : v.key \notin allowed /\
        LET limits == MemoryLimits(docs, v.target, declared)
        IN  \E p \in Range(v.policies) : Readable(p.cap) /\ \E l \in CapTargets(v, p, limits) :
                Readable(l.limit) /\ Quantity(l.limit) > 0 /\ CapTooHigh(v, p, l.limit)

(* The caps reported as not judged: those of a target without any limit. *)
CapUnjudged(docs, allowed, declared) ==
    \E v \in Vpas(docs) : /\ v.key \notin allowed /\ MemoryLimits(docs, v.target, declared) = {}
                          /\ \E p \in Range(v.policies) : Readable(p.cap)

(* The policy a VPA applies to a container: the first that names it, else  *)
(* the first wildcard; {} for the defaults.                                *)
ContainerPolicyFor(policies, container) ==
    LET First(Q(_)) == {policies[i] : i \in {j \in DOMAIN policies :
                           Q(policies[j]) /\ \A k \in 1..j - 1 : ~Q(policies[k])}}
        own == First(LAMBDA p : p.container = container)
    IN  IF own # {} THEN own ELSE First(Wildcard)

RewritesMemoryLimit(policies, container) ==
    \A p \in ContainerPolicyFor(policies, container) :
        ~p.off /\ "memory" \in Controlled(p) /\ ControlsLimits(p)

(* The request equals the limit while a VPA moves both: no headroom, ever. *)
MemoryRatioViolation(docs, allowed) ==
    \E w \in Workloads(docs) : w.key \notin allowed /\ \E c \in w.containers, v \in Mutating(docs) :
        /\ v.target = w.key
        /\ Readable(c.requests.memory) /\ Readable(c.limits.memory) /\ Quantity(c.limits.memory) > 0
        /\ Quantity(c.requests.memory) = Quantity(c.limits.memory)
        /\ RewritesMemoryLimit(v.policies, c.name)

RequestAboveLimitViolation(docs) ==
    \E w \in Workloads(docs) : \E c \in w.containers, r \in Resources :
        /\ Readable(c.requests[r]) /\ Readable(c.limits[r])
        /\ Quantity(c.requests[r]) > Quantity(c.limits[r])

(***************************************************************************)
(* Disruption budgets: [type, n], type "int", "percent" or another.        *)
(***************************************************************************)

(* minAvailable is rounded up and maxUnavailable down. *)
BlocksLastEviction(pdb, replicas) ==
    LET Up(v) == IF v.type = "int" THEN v.n ELSE (replicas * v.n + 99) \div 100
        Down(v) == IF v.type = "int" THEN v.n ELSE (replicas * v.n) \div 100
    IN  \/ pdb.minAvailable.type \in {"int", "percent"} /\ Up(pdb.minAvailable) >= replicas
        \/ pdb.maxUnavailable.type \in {"int", "percent"} /\ Down(pdb.maxUnavailable) <= 0

(* A selector with expressions is not modelled and matches nothing here. *)
SelectorMatches(selector, labels) ==
    ~selector.exprs /\ selector.labels # {} /\ selector.labels \subseteq labels

PdbFloorViolation(docs) ==
    \E h \in Hpas(docs), w \in Workloads(docs), b \in Kind(docs, "PDB") :
        /\ w.key = h.target /\ h.floor < 2 /\ b.key[1] = h.target[1]
        /\ SelectorMatches(b.selector, w.labels) /\ BlocksLastEviction(b, h.floor)

DanglingTargetViolation(docs, exempt) ==
    \E d \in Hpas(docs) \cup Vpas(docs) :
        d.target[2] # "Other" /\ WorkloadAt(docs, d.target) = {} /\ d.target \notin exempt

(***************************************************************************)
(* --policy-config: allowlist entries are [key, reason]; a reason, a key   *)
(* of three parts and, for caps, the VPA kind are demanded.                *)
(***************************************************************************)
AllowlistRefused(entries, kinds) == \E e \in entries : ~e.reason \/ e.key[2] \notin kinds \/ ~Named(e.key)
PolicyRefused(policy) ==
    \/ policy.malformed
    \/ \E a \in {policy.cpuLimit, policy.memoryRatio} : AllowlistRefused(a, {"Deployment", "VPA", "Other"})
    \/ AllowlistRefused(policy.cap, {"VPA"})
    \/ \E d \in policy.declared : ~Readable(d.limit)
Keys(entries) == {e.key : e \in entries}

(* in is [requireChartNative, requireTargets, allowUnjudged, policy,       *)
(* unparseable, docs].                                                     *)
Failed(in) ==
    LET docs == in.docs
        p == in.policy
    IN  \/ Clash(docs) \/ PdbFloorViolation(docs) \/ RequestAboveLimitViolation(docs)
        \/ in.requireChartNative /\ \/ ChartNativeViolation(docs, p.chartNative)
                                    \/ CpuLimitViolation(docs, Keys(p.cpuLimit))
                                    \/ CapViolation(docs, Keys(p.cap), p.declared)
                                    \/ CapUnjudged(docs, Keys(p.cap), p.declared) /\ ~in.allowUnjudged
                                    \/ MemoryRatioViolation(docs, Keys(p.memoryRatio))
        \/ /\ in.requireTargets
           /\ DanglingTargetViolation(docs, p.chartNative \cup {d.target : d \in p.declared})

Verdict(in) ==
    IF PolicyRefused(in.policy) \/ in.unparseable \/ in.docs = {} THEN 2
    ELSE IF Failed(in) THEN 1 ELSE 0
=============================================================================
