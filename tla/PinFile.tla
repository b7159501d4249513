------------------------------- MODULE PinFile -------------------------------
(***************************************************************************)
(* check-versions.py: how pins are read from and written into the vars     *)
(* file, line by line, and the two offline checks over that file.          *)
(*                                                                         *)
(* A line is [indent, key, spaced, val, quoted, note]: key is Blank or     *)
(* Comment for a line without one, spaced says that a space stands before  *)
(* the colon, note is the version a "Currently deployed" comment names.    *)
(* A variable is [chart, key], chart for a key of helm_chart_versions.     *)
(***************************************************************************)
EXTENDS Integers, Sequences, FiniteSets

CONSTANTS VersionKeys,    \* the keys that end in _version
          VersionLike     \* the keys that hold _version anywhere

Blank == ""
Comment == "#"
Helm == "helm_chart_versions"
NoVal == 0   \* nothing after the colon

Chart(key) == [chart |-> TRUE, key |-> key]
Top(key) == [chart |-> FALSE, key |-> key]

Says(l) == l.key \notin {Blank, Comment}
Header(l) == l.key = Helm /\ l.val = NoVal

Least(S) == CHOOSE i \in S : \A j \in S : i <= j
Greatest(S) == CHOOSE i \in S : \A j \in S : j <= i

(***************************************************************************)
(* Reading.  A chart's line stands in the section a header opens, before   *)
(* the next line in the first column.                                      *)
(***************************************************************************)
InHelm(lines, i) ==
    \E h \in 1..i - 1 : Header(lines[h]) /\ \A j \in h + 1..i : Says(lines[j]) => Header(lines[j]) \/ lines[j].indent > 0

(* The registered keys that break the _version convention. *)
ExtraKeys(registry) ==
    {s.var.key : s \in {x \in registry : x.files = <<>> /\ ~x.var.chart /\ x.var.key \notin VersionLike}}

VarLines(lines, extra) ==
    {i \in DOMAIN lines : Says(lines[i]) /\ ~Header(lines[i])
                          /\ \/ InHelm(lines, i) /\ lines[i].indent >= 2
                             \/ lines[i].indent = 0 /\ lines[i].key \in VersionKeys \cup extra}
VarAt(lines, i) == [chart |-> InHelm(lines, i), key |-> lines[i].key]

(* The last line of a variable counts. *)
ReadVars(lines, extra) ==
    LET at == VarLines(lines, extra)
    IN  [v \in {VarAt(lines, i) : i \in at} |-> lines[Greatest({i \in at : VarAt(lines, i) = v})].val]

(* Pins outside the vars file: the tag each readable file gives.  No tag   *)
(* leaves the pin unresolved, and two tags are an error.                   *)
PinnedTags(svc) == {svc.files[i].tag : i \in {j \in DOMAIN svc.files : svc.files[j].readable /\ svc.files[j].tag # NoVal}}
Unresolved(registry) == {s.var : s \in {x \in registry : x.files # <<>> /\ PinnedTags(x) = {} /\ ~x.unreadable}}

PinsDiverge(registry) == \E s \in registry : Cardinality(PinnedTags(s)) > 1
ReadPinnedImageVersions(registry) ==
    LET pinned == {s \in registry : PinnedTags(s) # {}}
        First(s) == s.files[Least({i \in DOMAIN s.files : s.files[i].readable /\ s.files[i].tag # NoVal})].tag
    IN  [v \in {s.var : s \in pinned} |-> First(CHOOSE s \in pinned : s.var = v)]

ReadCurrentVersions(lines, registry) ==
    LET vars == ReadVars(lines, ExtraKeys(registry))
        pinned == ReadPinnedImageVersions(registry)
    IN  [v \in DOMAIN vars \cup DOMAIN pinned |-> IF v \in DOMAIN pinned THEN pinned[v] ELSE vars[v]]

(***************************************************************************)
(* Writing: the first line of the variable, with its comment brought up to *)
(* date; a pin kept in another file is left to a human.                    *)
(***************************************************************************)
RewritePinLine(line, new, alwaysQuote) ==
    [line EXCEPT !.val = new, !.quoted = @ \/ alwaysQuote, !.spaced = FALSE, !.note = IF @ = NoVal THEN @ ELSE new]

(* Broken variant: the first line with the key, in whatever column. *)
TargetLinesAnyColumn(lines, var) ==
    IF var.chart THEN {i \in DOMAIN lines : InHelm(lines, i) /\ lines[i].indent >= 2 /\ lines[i].key = var.key}
    ELSE {i \in DOMAIN lines : lines[i].key = var.key /\ ~lines[i].spaced}

TargetLines(lines, var) ==
    IF var.chart THEN {i \in DOMAIN lines : InHelm(lines, i) /\ lines[i].indent >= 2 /\ lines[i].key = var.key /\ ~lines[i].spaced}
    ELSE {i \in DOMAIN lines : lines[i].indent = 0 /\ lines[i].key = var.key /\ ~lines[i].spaced}

Writable(lines, var, registry) ==
    (\A s \in registry : s.var = var => s.files = <<>>) /\ TargetLines(lines, var) # {}

UpdateVersionInFile(lines, var, new, registry) ==
    IF Writable(lines, var, registry)
    THEN [lines EXCEPT ![Least(TargetLines(lines, var))] = RewritePinLine(@, new, var.chart)]
    ELSE lines

(***************************************************************************)
(* --check-coverage: a pin nobody tracks is never reported.                *)
(***************************************************************************)
Tracked(registry) == UNION {{s.var} \cup s.companions : s \in registry}
MissingRegistryEntries(lines, registry, allowlist) ==
    {v \in DOMAIN ReadCurrentVersions(lines, registry) : v.chart \/ v.key \in VersionKeys}
        \ (Tracked(registry) \cup allowlist)

CheckCoverage(in) ==
    IF PinsDiverge(in.registry) \/ MissingRegistryEntries(in.lines, in.registry, in.allowlist) # {} THEN 1 ELSE 0

(***************************************************************************)
(* --check-partner-pins: no pin moved against the base while a value that  *)
(* goes with it stayed.  Only keys in the first column are looked at.      *)
(***************************************************************************)
TopLevelPins(lines) ==
    LET at == {i \in DOMAIN lines : Says(lines[i]) /\ lines[i].indent = 0}
    IN  [v \in {Top(lines[i].key) : i \in at} |-> lines[Greatest({i \in at : Top(lines[i].key) = v})].val]

StalePartnerPins(base, head, registry) ==
    LET b == TopLevelPins(base)
        h == TopLevelPins(head)
        both == DOMAIN b \cap DOMAIN h
    IN  {s.var : s \in {x \in registry : /\ x.var \in both /\ b[x.var] # h[x.var]
                                         /\ \E c \in x.coupled : c \in both /\ b[c] = h[c]}}

CheckPartnerPins(in) ==
    IF ~in.baseReadable THEN 2 ELSE IF StalePartnerPins(in.base, in.head, in.registry) # {} THEN 1 ELSE 0
=============================================================================
