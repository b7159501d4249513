------------------------------ MODULE NetPolicy ------------------------------
(***************************************************************************)
(* What the NetworkPolicy gates share (gate_common.py): the policy types a *)
(* policy really has, label selectors, CIDR blocks and their subtraction.  *)
(* A CIDR string is [v, len, idx]: the idx-th block of prefix length len   *)
(* of the address space of family v.  A string that does not parse keeps   *)
(* only what its text shows, the prefix length after the last slash.       *)
(***************************************************************************)
EXTENDS Integers, Sequences

CONSTANT Width   \* bound: the bits of an address, of either family

Unparseable == 0
Placeholder == 1   \* the text holds ${name}
Families == {4, 6}

Parses(cidr) == cidr.v \in Families

(* How many values n bits tell apart. *)
Pow2[n \in Nat] == IF n = 0 THEN 1 ELSE 2 * Pow2[n - 1]

(* The addresses of a block: what its text means. *)
Addresses(net) ==
    LET size == Pow2[Width - net.len]
    IN  {<<net.v, a>> : a \in net.idx * size .. (net.idx + 1) * size - 1}

SubnetOf(a, b) == a.v = b.v /\ a.len >= b.len /\ a.idx \div Pow2[a.len - b.len] = b.idx

(* The blocks left of part around cut: the sibling of each prefix of cut. *)
AddressExclude(part, cut) ==
    {LET prefix == cut.idx \div Pow2[cut.len - l]
     IN  [v |-> cut.v, len |-> l, idx |-> IF prefix % 2 = 0 THEN prefix + 1 ELSE prefix - 1]
        : l \in part.len + 1 .. cut.len}

(* collapse_addresses: the blocks that several adjacent ones add up to. *)
Collapse(nets) ==
    LET covered == UNION {Addresses(n) : n \in nets}
        all == UNION {[v : Families, len : {l}, idx : 0 .. Pow2[l] - 1] : l \in 0 .. Width}
    IN  {b \in all : Addresses(b) \subseteq covered}

WithoutCut(part, cut) ==
    IF SubnetOf(part, cut) THEN {}
    ELSE IF SubnetOf(cut, part) THEN AddressExclude(part, cut)
    ELSE {part}

(* The parts of nets that no entry of the list cuts covers, of which only  *)
(* those in valid are cut out.                                             *)
ExcludeNets(nets, cuts, valid) ==
    LET remaining[i \in 0 .. Len(cuts)] ==
            IF i = 0 THEN nets
            ELSE IF cuts[i] \in valid THEN UNION {WithoutCut(p, cuts[i]) : p \in remaining[i - 1]}
            ELSE remaining[i - 1]
    IN  remaining[Len(cuts)]

ZeroPrefix(cidr) == cidr.len = 0

Entries(s) == {s[i] : i \in DOMAIN s}

ExceptsCoverCidr(excepts, cidr) ==
    /\ Parses(cidr)
    /\ LET valid == {e \in Entries(excepts) : Parses(e) /\ e # cidr /\ SubnetOf(e, cidr)}
       IN  ExcludeNets({cidr}, excepts, valid) = {}

(***************************************************************************)
(* A label selector: its keys other than the two known ones, and what      *)
(* matchLabels and matchExpressions hold: "absent", "empty", "some" or     *)
(* "invalid" (not a mapping, not a list).  NoSelector is an absent one.    *)
(***************************************************************************)
NoSelector == [given |-> FALSE, typo |-> FALSE, labels |-> "absent", exprs |-> "absent"]

SelectsAllPods(s) == /\ ~s.typo
                     /\ s.labels \in {"absent", "empty"} /\ s.exprs \in {"absent", "empty"}

(* A peer: kind is "ipBlock", "pods" (selectors) or "invalid". *)
PeerSelectsEverything(p) ==
    \/ p.kind = "ipBlock" /\ ZeroPrefix(p.cidr) /\ ~ExceptsCoverCidr(p.except, p.cidr)
    \/ /\ p.kind = "pods"
       /\ ~(~p.namespaces.given /\ p.pods.given)
       /\ SelectsAllPods(p.namespaces) /\ SelectsAllPods(p.pods)

(* The types an absent or empty policyTypes stands for. *)
PolicyTypes(types, hasEgressRules) ==
    IF types # {} THEN types
    ELSE {"Ingress"} \cup (IF hasEgressRules THEN {"Egress"} ELSE {})

DocNamespace(ns) == IF ns = "" THEN "default" ELSE ns

(* load_corpus: no parse and no document both end the gate with 2. *)
CorpusUnusable(corpus) == corpus.unparseable \/ corpus.docs = {}

(* An --exempt argument is refused when it carries no reason. *)
ExemptRefused(exempt) == \E e \in exempt : ~e.reason
=============================================================================
