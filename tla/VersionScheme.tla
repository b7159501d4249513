---------------------------- MODULE VersionScheme ----------------------------
(***************************************************************************)
(* check-versions.py: how versions are compared, and what each fetcher     *)
(* takes for the latest release of an upstream.                            *)
(*                                                                         *)
(* A version is the tuple of its segments: [rank, val], rank 0 for a       *)
(* number and 1 for a word, words numbered in their alphabetical order.    *)
(* A tag is [prefix, text, version]: several texts may have one version.   *)
(* A fetcher returns a tag, or Failed for any exception.                   *)
(***************************************************************************)
EXTENDS Integers, Sequences, FiniteSets

Least(S) == CHOOSE i \in S : \A j \in S : i <= j

Failed == [prefix |-> "", text |-> "failed", version |-> <<>>]

(* The end of a tuple sorts after a word and before a number. *)
NumberRank == 0
WordRank == 1

VersionTupleGreater(a, b) ==
    LET shorter == IF Len(a) < Len(b) THEN Len(a) ELSE Len(b)
        differ == {i \in 1..shorter : a[i] # b[i]}
    IN  IF differ # {}
        THEN LET i == Least(differ)
             IN  IF a[i].rank = b[i].rank THEN a[i].val > b[i].val ELSE a[i].rank < b[i].rank
        ELSE \/ Len(a) > Len(b) /\ a[shorter + 1].rank = NumberRank
             \/ Len(a) < Len(b) /\ b[shorter + 1].rank # NumberRank

(* The best of the wanted places of a list of n, taken in turn: of two that *)
(* are equal the first, 0 if none is wanted.                               *)
Best(n, wanted, better) ==
    LET best[i \in 0..n] ==
            IF i = 0 THEN 0
            ELSE IF i \in wanted /\ (best[i - 1] = 0 \/ <<i, best[i - 1]>> \in better) THEN i
            ELSE best[i - 1]
    IN  best[n]

HighestVersion(tags, wanted) ==
    LET greater == {p \in wanted \X wanted : VersionTupleGreater(tags[p[1]].version, tags[p[2]].version)}
        best == Best(Len(tags), wanted, greater)
    IN  IF best = 0 THEN Failed ELSE tags[best]

(***************************************************************************)
(* Debian versions: [epoch, upstream, revision], each part a sequence of   *)
(* chunks [text, num], text a sequence of character orders (Tilde, then 0  *)
(* for the end, then letters, then the rest).  An epoch that is no         *)
(* unsigned integer is BadEpoch.                                           *)
(***************************************************************************)
Tilde == -1
BadEpoch == -1

At(s, i, default) == IF i \in DOMAIN s THEN s[i] ELSE default

Longer(s, t) == IF Len(s) > Len(t) THEN Len(s) ELSE Len(t)

TextLess(s, t) ==
    LET differ == {k \in 1..Longer(s, t) : At(s, k, 0) # At(t, k, 0)}
    IN  differ # {} /\ At(s, Least(differ), 0) < At(t, Least(differ), 0)

DebianPartLess(a, b) ==
    LET Chunk(p, i) == At(p, i, [text |-> <<>>, num |-> 0])
        differ == {k \in 1..Longer(a, b) : Chunk(a, k) # Chunk(b, k)}
        x == Chunk(a, Least(differ))
        y == Chunk(b, Least(differ))
    IN  differ # {} /\ IF x.text # y.text THEN TextLess(x.text, y.text) ELSE x.num < y.num

DebianLess(a, b) ==
    \/ a.epoch < b.epoch
    \/ /\ a.epoch = b.epoch
       /\ \/ DebianPartLess(a.upstream, b.upstream)
          \/ ~DebianPartLess(b.upstream, a.upstream) /\ DebianPartLess(a.revision, b.revision)

(***************************************************************************)
(* HTTP: an attempt is "ok" or fails; only a transient failure is tried    *)
(* again, RetryAttempts times in all.                                      *)
(***************************************************************************)
RetryAttempts == 3
Transient == {"5xx", "unreachable", "truncated"}

UrlopenWithRetry(attempts) ==
    LET final == {i \in 1..RetryAttempts : i = RetryAttempts \/ attempts[i] \notin Transient}
    IN  attempts[Least(final)]

(* The versions in one Packages index, <<>> if there is none: the payload, *)
(* or the .gz beside it if what came back is no index.                     *)
FetchPackagesIndex(url) ==
    IF UrlopenWithRetry(url.attempts) # "ok" THEN <<>>
    ELSE IF url.body # <<>> \/ url.isGz THEN url.body ELSE url.gz

NotFound == [epoch |-> BadEpoch, upstream |-> <<>>, revision |-> <<>>]

(* The first URL whose index has a version of the package that the entry   *)
(* does not exclude, and there the highest by Debian's rules.  A body cut  *)
(* short in every attempt is the one failure no further URL makes good.    *)
FetchAptRepoVersion(urls, excluded) ==
    LET Kept(index) == {i \in DOMAIN index : index[i] \notin excluded}
        ends == {i \in DOMAIN urls : \/ Kept(FetchPackagesIndex(urls[i])) # {}
                                     \/ UrlopenWithRetry(urls[i].attempts) = "truncated"}
        index == FetchPackagesIndex(urls[Least(ends)])
        versions == Kept(index)
        later == {p \in versions \X versions : DebianLess(index[p[2]], index[p[1]])}
    IN  IF ends = {} \/ versions = {} THEN NotFound
        ELSE IF (\E i, j \in versions : i # j) /\ \E i \in versions : index[i].epoch = BadEpoch THEN NotFound
        ELSE index[Best(Len(index), versions, later)]

(***************************************************************************)
(* GitHub.  A release is [kind, tag, matches]; with a tag filter the pages *)
(* of the list, newest first, are scanned up to a horizon.  What is seen   *)
(* of a list is the set of its places.                                     *)
(***************************************************************************)
Page(count, perPage, page) == {i \in 1..count : (page - 1) * perPage < i /\ i <= page * perPage}
Pages(perPage, horizon) == {page \in 1..horizon : (page - 1) * perPage < horizon}

(* Broken variant: the last page counts in full, and a short page does not *)
(* take the horizon into account.                                          *)
ScannedWholePages(count, perPage, horizon) == UNION {Page(count, perPage, page) : page \in Pages(perPage, horizon)}

(* What is seen before an empty or a short page ends the scan. *)
Scanned(count, perPage, horizon) ==
    LET Seen(page) == {i \in Page(count, perPage, page) : i <= horizon}
        Read(page) == \A p \in 1..page - 1 : Cardinality(Seen(p)) = perPage
    IN  UNION {Seen(page) : page \in {p \in Pages(perPage, horizon) : Read(p)}}

Tags(items) == [i \in DOMAIN items |-> items[i].tag]

FetchGithubRelease(svc, releases, latest) ==
    IF svc.tagFilter
    THEN HighestVersion(Tags(releases), {i \in Scanned(Len(releases), svc.perPage, svc.horizon) :
                                            releases[i].kind = "release" /\ releases[i].matches})
    ELSE latest   \* releases/latest, Failed without a tag_name

(***************************************************************************)
(* Docker Hub lists tags by last push, and only a window of them is read.  *)
(* A tag's version is what the entry's regex captures; Unread stands for a *)
(* tag or a pin that the regex does not match.                             *)
(***************************************************************************)
Unread == <<>>
Major(version) == IF version # Unread /\ version[1].rank = NumberRank THEN {version[1].val} ELSE {}

DockerhubBestTag(svc, tags, pin) ==
    LET Wanted(t) == /\ t.version # Unread
                     /\ t.prefix \in svc.prefixes
                     /\ (svc.pinMajor /\ Major(pin.version) # {}) => Major(t.version) = Major(pin.version)
    IN  HighestVersion(tags, {i \in DOMAIN tags : i <= svc.window /\ Wanted(tags[i])})

(* The window must have reached the pin: a best tag below it is no answer. *)
FetchDockerhubVersion(svc, tags, pin) ==
    LET best == DockerhubBestTag(svc, tags, pin)
    IN  IF best = Failed THEN Failed
        ELSE IF pin.version # Unread /\ VersionTupleGreater(pin.version, best.version) THEN Failed
        ELSE best

(* LinuxServer.io: the same, with the pin written as the tag it would be. *)
FetchLsioVersion(svc, tags, pin) ==
    FetchDockerhubVersion([window |-> svc.window, prefixes |-> svc.prefixes, pinMajor |-> FALSE], tags, pin)

FetchGhcrVersion(tokenGiven, tags) ==
    IF ~tokenGiven THEN Failed ELSE HighestVersion(tags, {i \in DOMAIN tags : tags[i].version # Unread})

(***************************************************************************)
(* A Helm index, read line by line: [indent, dash, key, tag].  The chart's *)
(* versions are the "version" keys in the column of its entries' first key,*)
(* which is known from the first dash on.                                  *)
(***************************************************************************)
KeyIndent(line) == IF line.dash THEN line.indent + 2 ELSE line.indent

(* The places of the chart's lines. *)
HelmSection(lines, chart) ==
    LET heads == {i \in DOMAIN lines : lines[i].key = chart /\ ~lines[i].dash
                                       /\ \E j \in 1..i - 1 : lines[j].key = "entries"}
        head == Least(heads)
        Ends(i) == lines[i].indent <= lines[head].indent /\ ~lines[i].dash
    IN  IF heads = {} THEN {} ELSE {i \in head + 1..Len(lines) : \A j \in head + 1..i : ~Ends(j)}

HelmVersions(lines, chart) ==
    LET section == HelmSection(lines, chart)
        dashes == {i \in section : lines[i].dash}
        Own(i) == (\E j \in dashes : j <= i) => KeyIndent(lines[i]) = KeyIndent(lines[Least(dashes)])
    IN  {i \in section : lines[i].key = "version" /\ ~lines[i].tag.pre /\ Own(i)}

FetchHelmVersion(lines, chart) == HighestVersion(Tags(lines), HelmVersions(lines, chart))

(* The commit a tag stands for: the peeled object of an annotated tag; ""  *)
(* is an error.                                                            *)
ResolveTagSha(refs) == IF refs.peeled # "" THEN refs.peeled ELSE refs.plain
=============================================================================
