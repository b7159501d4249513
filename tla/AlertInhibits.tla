---------------------------- MODULE AlertInhibits ----------------------------
(***************************************************************************)
(* check-alertmanager-behaviour.py: the routes resolve as the cases say,   *)
(* and the inhibit rules pair the alerts that exist, once and per object.  *)
(*                                                                         *)
(* An alert's name is a sequence of words, and so is every label value; an *)
(* absent label reads as <<>>.  A matcher is [label, op, vals, form]: vals *)
(* are the values it names or its regex matches, form is "exact", "plain"  *)
(* (an alternation of names), "regex", "broken" (no regex) or "unreadable" *)
(* (no matcher).  A rule of the corpus is [alert, labels, expr]; an expr   *)
(* has its by-clauses, and its selectors [label, negative, vals].          *)
(***************************************************************************)
EXTENDS Sequences, Integers, FiniteSets

Range(s) == {s[i] : i \in DOMAIN s}
Nothing == <<>>

(***************************************************************************)
(* Matchers.                                                               *)
(***************************************************************************)
ParseMatchers(side) == {m \in side : m.form # "unreadable"}
MatchersFor(parsed, label) == {m \in parsed : m.label = label}

Positive(parsed) == {m \in MatchersFor(parsed, "alertname") : m.op \in {"=", "=~"}}
Negative(parsed) == {m \in MatchersFor(parsed, "alertname") : m.op \in {"!=", "!~"}}
NotAnAlternation(ms) == \E m \in ms : m.op \in {"=~", "!~"} /\ m.form # "plain"

(* Matchers are ANDed: each positive one narrows what the set pins, each   *)
(* negative one adds to what it exempts.  {} also if it cannot be read.    *)
ExactAlertnames(parsed) ==
    IF NotAnAlternation(Positive(parsed)) THEN {}
    ELSE {n \in UNION {m.vals : m \in Positive(parsed)} : \A m \in Positive(parsed) : n \in m.vals}
NegatedAlertnames(parsed) ==
    IF NotAnAlternation(Negative(parsed)) THEN {} ELSE UNION {m.vals : m \in Negative(parsed)}
CoveredAlertnames(parsed) ==
    IF NotAnAlternation(Positive(parsed) \cup Negative(parsed)) THEN {}
    ELSE ExactAlertnames(parsed) \ NegatedAlertnames(parsed)

Declares(rule, label) == \E p \in rule.labels : p[1] = label
Value(rule, label) == IF Declares(rule, label) THEN (CHOOSE p \in rule.labels : p[1] = label)[2] ELSE Nothing

(* Broken variant: a label that the rule does not set satisfies nothing. *)
MatchesLabelsSet(rule, parsed) ==
    \A m \in parsed : m.label # "alertname" =>
        m.form # "broken" /\ Declares(rule, m.label) /\ ((Value(rule, m.label) \in m.vals) <=> (m.op \in {"=", "=~"}))

MatchesLabels(rule, parsed) ==
    \A m \in parsed : m.label # "alertname" =>
        m.form # "broken" /\ ((Value(rule, m.label) \in m.vals) <=> (m.op \in {"=", "=~"}))

(***************************************************************************)
(* Escalations: a warning and the critical alert that follows it.          *)
(***************************************************************************)
KnownAlertnames(rules) == {r.alert : r \in {x \in Range(rules) : x.alert # Nothing}}
AlertRules(rules, name) == {r \in Range(rules) : r.alert = name}
Severities(rules, name) == {Value(r, "severity") : r \in AlertRules(rules, name)}

(* A suffix is appended, or replaces the marker that the name ends in, or  *)
(* comes before it.                                                        *)
WithSuffix(name, suffix, markers) ==
    LET stem == SubSeq(name, 1, Len(name) - 1)
        marker == name[Len(name)]
    IN  {name \o <<suffix>>}
        \cup IF Len(name) > 1 /\ marker \in markers THEN {stem \o <<suffix>>, stem \o <<suffix, marker>>} ELSE {}
EscalationCandidates(name, suffixes, markers) == (UNION {WithSuffix(name, s, markers) : s \in suffixes}) \ {name}

DeriveEscalationPairs(rules, config) ==
    {[critical |-> q[1], warning |-> q[2], equal |-> config.equal] :
        q \in {p \in KnownAlertnames(rules) \X KnownAlertnames(rules) :
                        /\ p[1] \in EscalationCandidates(p[2], config.suffixes, config.markers)
                        /\ <<"warning">> \in Severities(rules, p[2]) /\ <<"critical">> \in Severities(rules, p[1])}}

Same(p, q) == p.critical = q.critical /\ p.warning = q.warning

(* A declared pair goes before a derived one; without labels of its own it *)
(* takes the common ones.                                                  *)
DeclaredPairs(config) == {[p EXCEPT !.equal = IF @ = {} THEN config.equal ELSE @] : p \in config.pairs}
EscalationPairs(rules, config) ==
    LET derived == {p \in DeriveEscalationPairs(rules, config) : \A q \in DeclaredPairs(config) : ~Same(p, q)}
    IN  {p \in DeclaredPairs(config) \cup derived : \A x \in config.exceptions : ~Same(p, x)}

(* A name that is pinned without other matchers need not be declared. *)
SideAdmits(parsed, name, rules) ==
    LET pinned == ExactAlertnames(parsed)
        others == {m \in parsed : m.label # "alertname"}
    IN  /\ ~NotAnAlternation(Positive(parsed) \cup Negative(parsed))
        /\ name \notin NegatedAlertnames(parsed)
        /\ pinned = {} \/ name \in pinned
        /\ (pinned # {} /\ others = {}) \/ \E r \in AlertRules(rules, name) : MatchesLabels(r, others)

(* One inhibit rule has to bind the pair and carry every wanted label. *)
Binds(inhibit, p, rules) ==
    /\ "alertname" \notin inhibit.equal /\ p.equal \subseteq inhibit.equal
    /\ SideAdmits(ParseMatchers(inhibit.source), p.critical, rules)
    /\ SideAdmits(ParseMatchers(inhibit.target), p.warning, rules)
EscalationProblem(inhibits, rules, config) ==
    \E p \in EscalationPairs(rules, config) : \A i \in inhibits : ~Binds(i, p, rules)

(***************************************************************************)
(* The inhibit rules themselves.                                           *)
(***************************************************************************)
(* A label that both sides pin to one value dedups nothing, and a name on  *)
(* either side, exempt or not, has to be of some alert.                    *)
InhibitProblem(inhibits, known) ==
    \/ inhibits = {}
    \/ \E i \in inhibits :
        LET src == ParseMatchers(i.source)
            tgt == ParseMatchers(i.target)
            Pins(parsed, l) == UNION {m.vals : m \in {x \in MatchersFor(parsed, l) : x.op = "="}}
        IN  \/ src # i.source \/ tgt # i.target \/ src = {} \/ tgt = {}
            \/ \E l \in i.equal : Pins(src, l) \cap Pins(tgt, l) # {}
            \/ \E parsed \in {src, tgt} :
                \/ NotAnAlternation(Positive(parsed) \cup Negative(parsed))
                \/ ~(ExactAlertnames(parsed) \cup NegatedAlertnames(parsed) \subseteq known)

AggregatesAway(expr, label) == expr.by # {} /\ \A g \in expr.by : label \notin g

(* An alert without any of the equal labels is muted by every source. *)
EqualScopeProblem(inhibits, rules) ==
    \E i \in inhibits : LET tgt == ParseMatchers(i.target) IN
        /\ i.equal # {} /\ "alertname" \notin i.equal
        /\ tgt # {} /\ ExactAlertnames(tgt) = {} /\ ~NotAnAlternation(Negative(tgt))
        /\ \E r \in Range(rules) : /\ r.alert \notin NegatedAlertnames(tgt) \cup {Nothing} /\ MatchesLabels(r, tgt)
                                   /\ \A l \in i.equal : ~Declares(r, l) /\ AggregatesAway(r.expr, l)

(* The last declaration of a name is the one whose expression counts. *)
LastExpr(rules, name) ==
    rules[CHOOSE n \in DOMAIN rules : rules[n].alert = name /\ \A k \in n + 1..Len(rules) : rules[k].alert # name].expr

(* A source that leaves out objects must not mute them. *)
TargetScopeProblem(inhibits, rules) ==
    \E i \in inhibits : LET names == CoveredAlertnames(ParseMatchers(i.source)) IN
        /\ Cardinality(names) = 1 /\ names \subseteq KnownAlertnames(rules)
        /\ \E name \in names : \E s \in LastExpr(rules, name).selects :
            LET ops == {m.op : m \in MatchersFor(ParseMatchers(i.target), s.label)}
            IN  s.negative /\ ops \cap {"=", "=~"} # {} /\ ops \cap {"!=", "!~"} = {}

(* A regex that mirrors a selector of its alert has to be that selector. *)
ParityProblem(inhibits, rules, labels) ==
    \E i \in inhibits : \E side \in {i.source, i.target} : \E label \in labels :
        LET parsed == ParseMatchers(side)
        IN  \E name \in CoveredAlertnames(parsed) \cap KnownAlertnames(rules), m \in MatchersFor(parsed, label) :
                /\ m.op \in {"=~", "!~"} /\ m.vals # {}
                /\ \A r \in AlertRules(rules, name) : \A s \in r.expr.selects : s.label = label => s.vals # m.vals

(***************************************************************************)
(* Routes: a case is [want, labels, names, resolved], resolved what amtool *)
(* prints of it, "fails" as the first word if it fails.                    *)
(***************************************************************************)
AmtoolFails(case) == case.resolved = <<"fails">>
Misrouted(case) == case.resolved = <<>> \/ Head(case.resolved) # case.want
UnknownCaseName(case, known, config) == ~(case.names \subseteq known \cup config.upstream \cup config.synthetic)

ConfigRefused(config) ==
    \/ config.malformed \/ config.cases = {} \/ \E c \in config.cases : c.want = "" \/ ~c.labels
    \/ \E p \in config.pairs \cup config.exceptions : Nothing \in {p.critical, p.warning}

(* Other rule trees; each has to declare an alert. *)
CorpusRefused(corpora) == \E c \in corpora : ~c.exists \/ KnownAlertnames(c.rules) = {}
WithCorpora(rules, corpora) == LET S == {c.rules : c \in corpora}
                               IN  IF S = {} THEN rules ELSE rules \o (CHOOSE r \in S : TRUE)   \* at most one

(* in is [ready, config, extracted, rules, inhibits]. *)
Verdict(in) ==
    LET c == in.config
        corpus == WithCorpora(in.rules, c.corpora)
        known == KnownAlertnames(corpus)
    IN  IF ~in.ready \/ ConfigRefused(c) \/ CorpusRefused(c.corpora) \/ ~in.extracted
           \/ (\E case \in c.cases : AmtoolFails(case)) THEN 2
        ELSE IF \/ \E case \in c.cases : Misrouted(case) \/ UnknownCaseName(case, known, c)
                \/ InhibitProblem(in.inhibits, known \cup c.upstream)
                \/ EscalationProblem(in.inhibits, corpus, c)
                \/ EqualScopeProblem(in.inhibits, in.rules)
                \/ TargetScopeProblem(in.inhibits, in.rules)
                \/ ParityProblem(in.inhibits, in.rules, c.parity) THEN 1
        ELSE 0
=============================================================================
