----------------------------- MODULE EgressFence -----------------------------
(***************************************************************************)
(* check-netpol-except-parity.py: no egress rule of a NetworkPolicy may    *)
(* admit every destination or a whole fenced range, and every /0 egress    *)
(* block carries one of the canonical except lists, entry for entry.       *)
(*                                                                         *)
(* An input is [config, streams]: what --config holds, and the files and   *)
(* corpora read.  A rule is [shape, peers]; a peer is an ipBlock with its  *)
(* cidr and except list, a selector, the empty peer, or no mapping at all. *)
(***************************************************************************)
EXTENDS NetPolicy

(* --config: canonical lists and fences replace the built-in ones if any   *)
(* are given; "bad" stands for a file that is malformed or unreadable.     *)
LoadConfig(config, builtin) ==
    [lists   |-> IF config.lists = {} THEN builtin.lists ELSE config.lists,
     fences  |-> IF config.fences = {} THEN builtin.fences ELSE config.fences,
     allowed |-> {e.key : e \in config.allow}]

ConfigError(config) == config.bad \/ \E e \in config.allow : ~e.reason

HasEgress(policy) == "Egress" \in PolicyTypes(policy.types, policy.egress # <<>>)

(* The CIDRs that are judged, and the ones that are errors. *)
Nets(cidrs) == {c \in cidrs : Parses(c)}
BadNets(cidrs, rendered) ==
    {c \in Entries(cidrs) : c.v = Unparseable \/ (rendered /\ c.v = Placeholder)}

IpBlocks(peers) == {p \in Entries(peers) : p.kind = "ipBlock"}

(* Broken variant: each peer is judged by itself, so two halves pass. *)
UnfencedReachEach(blocks, fences) ==
    LET Left(b) == ExcludeNets(Nets({b.cidr}), b.except, Nets(Entries(b.except)))
    IN  {f \in fences : \E b \in blocks : \E n \in Left(b) : SubnetOf(f, n)}

UnfencedReach(blocks, fences) ==
    LET Left(b) == ExcludeNets(Nets({b.cidr}), b.except, Nets(Entries(b.except)))
        collapsed == Collapse(UNION {Left(b) : b \in blocks})
    IN  {f \in fences : \E n \in collapsed : SubnetOf(f, n)}

MalformedRules(policy) == \E r \in Entries(policy.egress) : r.shape # "map"

PeerlessEgress(rule) == \/ rule.shape = "map" /\ rule.peers = <<>>
                        \/ \E p \in Entries(rule.peers) : p.kind = "empty"

Classified(except, lists) == except \in lists

(* The arms of scan_docs that judge a rule: (a) it admits everything, (b)  *)
(* its peers together reach a whole fence.  (b) is left to the arm below   *)
(* when every peer is a /0 and one has a list of its own.                  *)
RuleViolates(policy, rule, cfg) ==
    LET blocks == IpBlocks(rule.peers)
        perPeerReports == /\ blocks # {}
                          /\ \A b \in blocks : ZeroPrefix(b.cidr)
                          /\ \E b \in blocks : ~Classified(b.except, cfg.lists)
    IN  /\ policy.key \notin cfg.allowed
        /\ \/ PeerlessEgress(rule)
           \/ ~perPeerReports /\ UnfencedReach(blocks, cfg.fences) # {}

(* The per-peer arm judges every egress ipBlock, whatever the policy types *)
(* say and whatever is exempt.                                             *)
BlockViolates(b, lists) ==
    ZeroPrefix(b.cidr) /\ (b.except = <<>> \/ ~Classified(b.except, lists))

RulesOf(policy) == {r \in Entries(policy.egress) : r.shape = "map"}
BlocksOf(policy) == UNION {IpBlocks(r.peers) : r \in RulesOf(policy)}

Policies(docs) == {d \in docs : d.kind = "NetworkPolicy"}

ScanViolates(docs, cfg) ==
    \E p \in Policies(docs) :
        \/ HasEgress(p) /\ \E r \in RulesOf(p) : RuleViolates(p, r, cfg)
        \/ \E b \in BlocksOf(p) : BlockViolates(b, cfg.lists)

ScanErrors(docs, rendered) ==
    \E p \in Policies(docs) :
        \/ MalformedRules(p)
        \/ \E b \in BlocksOf(p) \cup Entries(p.ingress) :
               BadNets(<<b.cidr>> \o b.except, rendered) # {}

(* A file that yields no document is an error, except a JSON file that was *)
(* only walked onto and whose text does not look like a manifest.          *)
StreamError(s) ==
    \/ s.state \in {"missing", "unreadable", "bad-yaml"}
    \/ s.state = "bad-json" /\ (s.pointedAt \/ s.looksLikeManifest)

(* Broken variant: a run that found no policy reports success. *)
VerdictVacuous(in, builtin) ==
    LET cfg == LoadConfig(in.config, builtin)
        Docs(s) == IF s.state = "read" THEN s.docs ELSE {}
    IN  IF ConfigError(in.config) THEN 2
        ELSE IF \E s \in in.streams : StreamError(s) \/ ScanErrors(Docs(s), s.rendered) THEN 2
        ELSE IF \E s \in in.streams : ScanViolates(Docs(s), cfg) THEN 1 ELSE 0

(* The exit status: 2 wins over 1, and 2 again if nothing was scanned. *)
Verdict(in, builtin) ==
    LET cfg == LoadConfig(in.config, builtin)
        Docs(s) == IF s.state = "read" THEN s.docs ELSE {}
    IN  IF ConfigError(in.config) THEN 2
        ELSE IF \E s \in in.streams : StreamError(s) \/ ScanErrors(Docs(s), s.rendered) THEN 2
        ELSE IF \E s \in in.streams : ScanViolates(Docs(s), cfg) THEN 1
        ELSE IF \A s \in in.streams : Policies(Docs(s)) = {} THEN 2
        ELSE 0
=============================================================================
