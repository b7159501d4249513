------------------------------- MODULE MCGates -------------------------------
(***************************************************************************)
(* Any gate, once, on any input of its set: those of the modules extended  *)
(* here, the version checker's pure parts and the checks over its pins,    *)
(* the gates over the repository's own files, comments and role inputs,    *)
(* and two scripts that decide in one go.                                  *)
(***************************************************************************)
EXTENDS MCManifestGates

CONSTANTS VersionKeys, VersionLike

Scheme == INSTANCE VersionScheme
File   == INSTANCE PinFile

UpTo(n, S) == UNION {[1..k -> S] : k \in 0..n}

(***************************************************************************)
(* check-versions.py: orders and fetchers                                  *)
(***************************************************************************)
N(n) == [rank |-> Scheme!NumberRank, val |-> n]
W(n) == [rank |-> Scheme!WordRank, val |-> n]   \* words are numbered below 0
Versions == UpTo(3, {N(1), N(2), W(-2), W(-1)})

(* The same order by position keys: words, then the end, then numbers.     *)
(* Keys of one length come in the order of the first place they differ in. *)
Precedes(f, g) == \E i \in DOMAIN f : f[i] < g[i] /\ \A j \in 1..i - 1 : f[j] = g[j]
KeyAt(v, i) == IF i > Len(v) THEN 0 ELSE IF v[i].rank = Scheme!NumberRank THEN v[i].val + 1 ELSE v[i].val
VersionKeysOf(v, n) == [i \in 1..n |-> KeyAt(v, i)]
Older(a, b) == Precedes(VersionKeysOf(a, Len(a) + Len(b)), VersionKeysOf(b, Len(a) + Len(b)))

CompareRuns == gate = "none" /\ \E a, b \in Versions : Runs("compare", <<a, b>>, Scheme!VersionTupleGreater(a, b))

(* One tuple is newer than another exactly if it comes later in the order  *)
(* that goes position by position, a word before the end and the end       *)
(* before a number: a total order, so 17-alpha < 17 < 17.1-rc < 17.1.      *)
ReleaseOrder == gate = "compare" => result = Older(input[2], input[1])

Tag(prefix, text, version) == [prefix |-> prefix, text |-> text, version |-> version]
Numbered(n) == Tag("", "t", <<N(n)>>)
Tagged(kind, n, matches) == [kind |-> kind, tag |-> Numbered(n), matches |-> matches]
Releases == {Tagged("release", 1, TRUE), Tagged("release", 2, TRUE), Tagged("release", 3, FALSE), Tagged("draft", 4, TRUE)}
Filtered(perPage, horizon) == [tagFilter |-> TRUE, perPage |-> perPage, horizon |-> horizon]
ReleasesRead(in) == Runs("github", in, Scheme!FetchGithubRelease(in.svc, in.releases, Scheme!Failed))
GithubRuns == gate = "none" /\ \E rs \in UpTo(5, Releases), p \in 1..3, h \in 3..4 :
                                  ReleasesRead([svc |-> Filtered(p, h), releases |-> rs])

(* Whatever the page size, the answer is the newest published release that *)
(* matches among the first ones up to the horizon.                         *)
PageSizeDoesNotMatter ==
    gate = "github" =>
        LET seen == {input.releases[i] : i \in {j \in DOMAIN input.releases : j <= input.svc.horizon}}
            good == {r.tag : r \in {x \in seen : x.kind = "release" /\ x.matches}}
        IN  IF good = {} THEN result = Scheme!Failed
            ELSE result \in good /\ \A t \in good : ~Older(result.version, t.version)

HubTags == {Tag(p, "t", v) : p \in {"v1", "v2"}, v \in {<<N(1), N(1)>>, <<N(1), N(2)>>, <<N(2)>>}}
               \cup {Tag("v1", "latest", Scheme!Unread)}
Window(size, major, prefixes) == [window |-> size, pinMajor |-> major, prefixes |-> prefixes]
HubRead(in) == Runs("hub", in, Scheme!FetchDockerhubVersion(in.svc, in.tags, in.pin))
LsioRead(in) == Runs("lsio", in, Scheme!FetchLsioVersion(in.svc, in.tags, in.pin))
HubRuns == gate = "none" /\ \E ts \in UpTo(3, HubTags), pin \in HubTags, w \in 1..3, major \in BOOLEAN, ps \in {{"v1"}, {"v1", "v2"}} :
    LET in == [svc |-> Window(w, major, ps), tags |-> ts, pin |-> pin]
    IN  HubRead(in) \/ (~major /\ LsioRead(in))

(* A tag list read only in part never yields a version below the pin, nor  *)
(* one of another major for an entry that holds its major.                 *)
NoAnswerBelowThePin ==
    gate \in {"hub", "lsio"} /\ result # Scheme!Failed =>
        LET pinned == input.pin.version
        IN  /\ result \in Listed(input.tags)
            /\ pinned # Scheme!Unread => ~Older(result.version, pinned)
            /\ gate = "hub" /\ input.svc.pinMajor /\ pinned # Scheme!Unread /\ pinned[1].rank = Scheme!NumberRank =>
                   result.version[1] = pinned[1]

(* Debian: chunk orders as numbers, the end of a text before a letter.     *)
Chunk(text, num) == [text |-> text, num |-> num]
Parts == UpTo(2, {Chunk(t, n) : t \in {<<>>, <<Scheme!Tilde>>, <<1>>, <<257>>, <<Scheme!Tilde, 1>>}, n \in 0..1})
Debian(epoch, up, rev) == [epoch |-> epoch, upstream |-> up, revision |-> rev]
DebianVersions == {Debian(0, p, <<>>) : p \in Parts}
                  \cup {Debian(e, <<Chunk(<<>>, n)>>, <<Chunk(<<>>, r)>>) : e \in {Scheme!BadEpoch, 0, 1}, n \in 0..1, r \in 0..1}

(* Debian's order again: a version goes on for ever, with chunks of no     *)
(* text and the number 0, and a text with the order of its end; the first  *)
(* place in which two differ decides.                                      *)
CharAt(text, k) == IF k > Len(text) THEN 0 ELSE text[k]
TextKeys(text, n) == [k \in 1..n |-> CharAt(text, k)]
ChunkAt(part, c) == IF c > Len(part) THEN Chunk(<<>>, 0) ELSE part[c]
ChunkOlder(x, y) ==
    \/ Precedes(TextKeys(x.text, Len(x.text) + Len(y.text)), TextKeys(y.text, Len(x.text) + Len(y.text)))
    \/ x.text = y.text /\ x.num < y.num
SameUpTo(p, q, n) == \A c \in 1..n : ChunkAt(p, c) = ChunkAt(q, c)
PartOlder(p, q) ==
    \E c \in 1..Len(p) + Len(q) : ChunkOlder(ChunkAt(p, c), ChunkAt(q, c)) /\ SameUpTo(p, q, c - 1)
DebianOlder(a, b) ==
    \/ a.epoch < b.epoch
    \/ a.epoch = b.epoch /\ PartOlder(a.upstream, b.upstream)
    \/ /\ a.epoch = b.epoch /\ SameUpTo(a.upstream, b.upstream, Len(a.upstream) + Len(b.upstream))
       /\ PartOlder(a.revision, b.revision)

Url(attempts, body, isGz, gz) == [attempts |-> attempts, body |-> body, isGz |-> isGz, gz |-> gz]
AllReached == <<"ok", "ok", "ok">>
Shipped == Debian(0, <<Chunk(<<>>, 1)>>, <<>>)
Backport == Debian(1, <<Chunk(<<>>, 0)>>, <<>>)
AptUrls == [attempts : {<<"5xx", "unreachable", a>> : a \in {"ok", "truncated", "5xx"}}, body : {<<>>, <<Shipped>>},
            isGz : BOOLEAN, gz : {<<>>, <<Backport>>}] \cup {Url(<<"4xx", "ok", "ok">>, <<>>, FALSE, <<>>)}
Served(a, b) == Url(AllReached, <<a, b, Shipped>>, FALSE, <<>>)
OneIndex   == {<<Served(a, b)>> : a \in DebianVersions, b \in DebianVersions}
TwoIndexes == {<<u, v>> : u \in AptUrls, v \in AptUrls}
AptInputs  == [urls : OneIndex \cup TwoIndexes, excluded : {{}, {Shipped}}]
AptRuns == gate = "none" /\ \E in \in AptInputs : Runs("apt", in, Scheme!FetchAptRepoVersion(in.urls, in.excluded))

(* The version of an apt package is the newest of one index by Debian's    *)
(* order, tildes, epochs and revisions counted, and no excluded one.       *)
AptIsNewest ==
    gate = "apt" /\ result # Scheme!NotFound =>
        \E i \in DOMAIN input.urls : \E text \in {input.urls[i].body, input.urls[i].gz} :
            /\ result \in Listed(text) \ input.excluded
            /\ \A v \in Listed(text) \ input.excluded : ~DebianOlder(result, v)

(* A Helm index: a chart with others before and after it, its entries in   *)
(* either indentation, the first with a dependency that has a version of   *)
(* its own.  A line is own if its key is one of the entry itself.          *)
Line(indent, dash, key, n, pre, own) ==
    [indent |-> indent, dash |-> dash, key |-> key, tag |-> [version |-> <<N(n)>>, pre |-> pre], own |-> own]
KeyLine(indent, key) == Line(indent, FALSE, key, 0, FALSE, TRUE)
Dependency(col, dep) ==
    IF dep = 0 THEN <<>>
    ELSE <<KeyLine(col + 2, "dependencies"), Line(col + 2, TRUE, "name", 0, FALSE, FALSE),
           Line(col + 4, FALSE, "version", dep, FALSE, FALSE)>>
ChartEntry(col, n, pre, dep) ==
    <<Line(col, TRUE, "apiVersion", 0, FALSE, TRUE)>> \o Dependency(col, dep)
    \o <<Line(col + 2, FALSE, "appVersion", 9, FALSE, TRUE), Line(col + 2, FALSE, "version", n, pre, TRUE)>>
Index(in) == in.before \o <<in.head>> \o in.block \o in.after
Indexed(col, first, second, pre, dep) ==
    [before |-> <<KeyLine(0, "entries"), KeyLine(2, "other")>> \o ChartEntry(col, 7, FALSE, 0),
     head   |-> KeyLine(2, "chart"),
     block  |-> ChartEntry(col, first, pre, dep) \o ChartEntry(col, second, FALSE, 0),
     after  |-> <<KeyLine(2, "zeta")>> \o ChartEntry(col, 8, FALSE, 0)]
ChartRead(in) == Runs("charts", in, Scheme!FetchHelmVersion(Index(in), "chart"))
HelmRuns == gate = "none" /\ \E col \in {2, 4}, first, second \in 1..3, pre \in BOOLEAN, dep \in {0, 2, 6} :
                                ChartRead(Indexed(col, first, second, pre, dep))

(* A chart's version is the newest release of that chart: never one of its *)
(* dependencies', of its neighbours' or a pre-release.                     *)
ChartVersionIsItsOwn ==
    gate = "charts" =>
        LET good == {l.tag : l \in {x \in Listed(input.block) : x.own /\ x.key = "version" /\ ~x.tag.pre}}
        IN  IF good = {} THEN result = Scheme!Failed
            ELSE result \in good /\ \A t \in good : ~Older(result.version, t.version)

(***************************************************************************)
(* check-versions.py: the vars file                                        *)
(***************************************************************************)
PinLine(indent, key, val) == [indent |-> indent, key |-> key, spaced |-> FALSE, val |-> val, quoted |-> FALSE, note |-> File!NoVal]
VarsLines == {PinLine(0, File!Helm, File!NoVal), PinLine(0, "other", File!NoVal), PinLine(0, File!Comment, File!NoVal),
              PinLine(2, "a_version", 1), PinLine(0, "a_version", 2), PinLine(0, "b_version", 1), PinLine(2, "chart", 1),
              [PinLine(2, "b_version", 3) EXCEPT !.note = 3], [PinLine(0, "a_version", 1) EXCEPT !.spaced = TRUE], PinLine(0, "url", 1)}

(* The file as YAML: an indented line belongs to the last key in the first *)
(* column, and no mapping has a key twice.                                 *)
Owner(lines, i) == LET heads == {j \in 1..i - 1 : lines[j].indent = 0 /\ lines[j].key # File!Comment}
                   IN  IF heads = {} THEN "" ELSE lines[CHOOSE j \in heads : \A k \in heads : k <= j].key
PathAt(lines, i) == IF lines[i].indent = 0 THEN <<lines[i].key>> ELSE <<Owner(lines, i), lines[i].key>>
KeyLines(lines) == {i \in DOMAIN lines : lines[i].key # File!Comment}
Proper(lines) ==
    /\ \A i, j \in KeyLines(lines) : PathAt(lines, i) = PathAt(lines, j) => i = j
    /\ \A i \in KeyLines(lines) : lines[i].indent > 0 => Owner(lines, i) \in {File!Helm, "other"}
Yaml(lines) == [p \in {PathAt(lines, i) : i \in KeyLines(lines)} |->
                   lines[CHOOSE i \in KeyLines(lines) : PathAt(lines, i) = p].val]
PathOf(var) == IF var.chart THEN <<File!Helm, var.key>> ELSE <<var.key>>

File_(readable, tag) == [readable |-> readable, tag |-> tag]
Service(var, files, coupled, companions) ==
    [var |-> var, files |-> files, unreadable |-> FALSE, coupled |-> coupled, companions |-> companions]
PlainPin(var) == Service(var, <<>>, {}, {})
TrackedVars == {File!Top("a_version"), File!Top("url"), File!Chart("b_version"), File!Chart("chart")}
Registry == {PlainPin(v) : v \in TrackedVars}

(* A registered key that is read by its name ends in _version, or does not *)
(* hold it; the section of the charts ends in _versions.                   *)
ASSUME KeysAreRead ==
    /\ File!Helm \notin VersionKeys
    /\ \A v \in TrackedVars : v.chart \/ v.key \in VersionKeys \/ v.key \notin VersionLike
VarsFiles == {f \in UpTo(4, VarsLines) : Proper(f)}

UpdateRuns == gate = "none" /\ \E f \in VarsFiles, v \in TrackedVars :
    Runs("update", [lines |-> f, var |-> v], File!UpdateVersionInFile(f, v, 9, Registry))

(* Writing a pin changes this one value of the file and no other, whatever *)
(* other mapping has the same key, and the checker then reads the new one; *)
(* it leaves the file alone only if the pin is not there or is written     *)
(* with a space before its colon.                                          *)
UpdateMovesOnePin ==
    gate = "update" =>
        LET before == Yaml(input.lines)
            path == PathOf(input.var)
            there == \E i \in KeyLines(input.lines) : PathAt(input.lines, i) = path /\ ~input.lines[i].spaced
        IN  IF there THEN /\ Yaml(result) = [before EXCEPT ![path] = 9]
                          /\ File!ReadCurrentVersions(result, Registry)[input.var] = 9
            ELSE result = input.lines

TagFiles == UpTo(2, {File_(r, t) : r \in BOOLEAN, t \in 0..2})
Allowlists == {{}, {File!Top("b_version")}}
CoverageInputs ==
    {[lines |-> f, registry |-> {PlainPin(v) : v \in vs}, allowlist |-> x] :
        f \in {g \in VarsFiles : Len(g) < 4}, vs \in SUBSET {File!Top("a_version"), File!Chart("chart"), File!Top("url")}, x \in Allowlists}
    \cup {[lines |-> <<PinLine(0, "a_version", 1), PinLine(0, "b_version", 1)>>, allowlist |-> x,
           registry |-> {Service(File!Top("a_version"), <<>>, {}, c), Service(File!Top("image_version"), fs, {}, {})}] :
        fs \in TagFiles, c \in {{}, {File!Top("b_version")}}, x \in Allowlists}
CoverageRuns == gate = "none" /\ \E in \in CoverageInputs : Runs("coverage", in, File!CheckCoverage(in))

(* If the coverage check passes, every pin of the file by its name or its  *)
(* section is an entry's, a companion of one or allowlisted, and no pin    *)
(* kept in several other files has two values.                             *)
NoPinIsOverlooked ==
    gate = "coverage" /\ result = 0 =>
        /\ \A i \in KeyLines(input.lines) :
            LET path == PathAt(input.lines, i)
            IN  (path[1] = File!Helm /\ Len(path) = 2) \/ (Len(path) = 1 /\ path[1] \in VersionKeys)
                => \/ \E s \in input.registry : path = PathOf(s.var) \/ \E c \in s.companions : path = PathOf(c)
                   \/ \E v \in input.allowlist : path = PathOf(v)
        /\ \A s \in input.registry : \A f, g \in Listed(s.files) :
            f.readable /\ g.readable /\ f.tag # File!NoVal /\ g.tag # File!NoVal => f.tag = g.tag

Sum(key) == PinLine(0, key, 1)
Moved(l) == [l EXCEPT !.val = 5]
PartnerLines == <<PinLine(0, "a_version", 2), Sum("sum"), Sum("sha"), PinLine(0, File!Helm, File!NoVal), PinLine(2, "chart", 1), PinLine(2, "crds", 1)>>
Edited(which) == [i \in DOMAIN PartnerLines |-> IF i \in which THEN Moved(PartnerLines[i]) ELSE PartnerLines[i]]
PartnerInputs ==
    {[baseReadable |-> b, base |-> PartnerLines, head |-> Edited(w),
      registry |-> {Service(File!Top("a_version"), <<>>, c, {}), Service(File!Chart("chart"), <<>>, d, {})}] :
        b \in BOOLEAN, w \in SUBSET {1, 2, 3, 5, 6}, c \in SUBSET {File!Top("sum"), File!Top("sha")},
        d \in SUBSET {File!Top("sum"), File!Chart("crds")}}
PartnerRuns == gate = "none" /\ \E in \in PartnerInputs : Runs("partner", in, File!CheckPartnerPins(in))

(* If the partner check passes, every coupled value has moved with a pin   *)
(* that stands in the first column of the vars file.                       *)
TopLevelPartnersFollow ==
    gate = "partner" /\ result = 0 =>
        \A s \in {t \in input.registry : ~t.var.chart} :
            LET Changes(v) == Yaml(input.base)[PathOf(v)] # Yaml(input.head)[PathOf(v)]
            IN  Changes(s.var) => \A c \in s.coupled : Changes(c)

Comments == INSTANCE CommentBlocks
Inputs   == INSTANCE RoleInputs
Deploy   == INSTANCE DeployVerify
Molecule == INSTANCE MoleculeRetry

(***************************************************************************)
(* check-comment-length.py: one line of content, two after "CRITICAL:"     *)
(***************************************************************************)
Limits == [plain |-> 1, critical |-> 2]
NoFence == [char |-> "", len |-> 0, lang |-> ""]
SourceLine(shape, text) == [shape |-> shape, text |-> text, opens |-> {}, closes |-> {}, fence |-> NoFence]
Delimited(text, opens, closes) == [SourceLine("code", text) EXCEPT !.opens = opens, !.closes = closes]
Fence(char, len, lang) == [SourceLine("code", "words") EXCEPT !.fence = [char |-> char, len |-> len, lang |-> lang]]
Language(name, markers, delimiters, directives) ==
    [name |-> name, markers |-> markers, delimiters |-> delimiters, directives |-> directives]
Shell    == Language("shell", TRUE, {}, FALSE)
Docker   == Language("dockerfile", TRUE, {}, TRUE)
Python   == Language("python", TRUE, {}, FALSE)
Html     == Language("html", FALSE, {"<!--"}, FALSE)
Markdown == Language("markdown", FALSE, {"<!--"}, FALSE)
SourceFile(language, lines) == [language |-> language, template |-> FALSE, readable |-> TRUE, excluded |-> FALSE,
                                included |-> TRUE, lines |-> lines, docstrings |-> {}, parses |-> "yes"]
Scans(files) == [usable |-> TRUE, limits |-> Limits, fenced |-> TRUE, strictJinja |-> FALSE, include |-> FALSE,
                 languages |-> {Shell, Docker, Python, Html}, files |-> files]
LinesUpTo(n, S) == UNION {[1..k -> S] : k \in 1..n}

PlainLines == {SourceLine(s, "words") : s \in {"blank", "code", "comment", "shebang", "directive", "tag"}}
              \cup {SourceLine("comment", ""), SourceLine("comment", "CRITICAL:")}
BlockLines == {Delimited("words", {}, {}), Delimited("CRITICAL:", {"<!--"}, {}), Delimited("words", {"<!--"}, {}),
               Delimited("", {}, {"<!--"}), Delimited("words", {"<!--"}, {"<!--"})}
FenceLines == {Fence("tick", 3, "shell"), Fence("tick", 4, "shell"), Fence("tick", 3, ""), Fence("tilde", 3, ""),
               SourceLine("comment", "words"), SourceLine("code", "words")}
Module(docstrings, parses, template, readable, excluded) ==
    [SourceFile(Python, <<SourceLine("code", "words")>>) EXCEPT !.docstrings = docstrings, !.parses = parses,
                            !.template = template, !.readable = readable, !.excluded = excluded]
Script(included) == [SourceFile(Shell, <<SourceLine("comment", "words"), SourceLine("comment", "words")>>)
                     EXCEPT !.included = included]
CommentsRead(in) == Runs("comments", in, Comments!Verdict(in))
CommentBlocksRuns ==
    gate = "none" /\
        \/ \E l \in {Shell, Docker}, lines \in LinesUpTo(4, PlainLines) : CommentsRead(Scans({SourceFile(l, lines)}))
        \/ \E lines \in LinesUpTo(5, BlockLines) : CommentsRead(Scans({SourceFile(Html, lines)}))
        \/ \E lines \in LinesUpTo(5, FenceLines) : CommentsRead(Scans({SourceFile(Markdown, lines)}))
        \/ \E d \in SUBSET {<<"words">>, <<"words", "">>, <<"words", "words">>, <<"CRITICAL:", "words">>},
              p \in {"yes", "neutralized", "no"}, t \in BOOLEAN, r \in BOOLEAN, x \in BOOLEAN, j \in BOOLEAN :
                CommentsRead([Scans({Module(d, p, t, r, x)}) EXCEPT !.strictJinja = j])
        \/ \E i \in BOOLEAN, u \in BOOLEAN, n \in BOOLEAN, c \in 0..2 :
                CommentsRead([Scans({Script(i)}) EXCEPT !.usable = u, !.include = n, !.limits = [plain |-> 1, critical |-> c]])

FilesRead == {f \in input.files : ~f.excluded /\ (input.include => f.included)}
Counted(lines, i, j) == {k \in i..j : lines[k].text # ""}
Short(lines, i, j) ==
    LET counted == Counted(lines, i, j)
    IN  counted # {} => Cardinality(counted) <=
            IF lines[CHOOSE k \in counted : \A m \in counted : k <= m].text = "CRITICAL:" THEN input.limits.critical
            ELSE input.limits.plain
RunsAreShort(lines, Comment(_)) ==
    \A i \in DOMAIN lines : \A j \in i..Len(lines) :
        /\ \A k \in i..j : Comment(k)
        /\ i = 1 \/ ~Comment(i - 1)
        /\ j = Len(lines) \/ ~Comment(j + 1)
        => Short(lines, i, j)
BlocksAreShort(lines, d) ==
    \A i \in DOMAIN lines : \A j \in i..Len(lines) :
        /\ d \in lines[i].opens /\ d \in lines[j].closes
        /\ \A k \in i + 1..j : d \notin lines[k].opens /\ d \notin lines[k - 1].closes
        => Short(lines, i, j)

(* The head of a Dockerfile is its directives; a first line of a script,   *)
(* after blank lines and tags at most, is its shebang.                     *)
InHead(lines, directives, k) == directives /\ \A m \in 1..k : lines[m].shape = "directive"
IsComment(lines, directives, k) ==
    \/ lines[k].shape = "comment"
    \/ lines[k].shape = "directive" /\ ~InHead(lines, directives, k)
    \/ /\ lines[k].shape = "shebang"
       /\ \E m \in 1..k - 1 : lines[m].shape \notin {"blank", "tag"} /\ ~InHead(lines, directives, m)

(* If the gate passes, no maximal run of comment lines, no delimited       *)
(* comment without another opener in it and no docstring of a scanned file *)
(* that parses has more content lines than its limit.                      *)
CommentsAreShort ==
    gate = "comments" /\ result = 0 => \A f \in FilesRead :
        /\ f.language.markers => RunsAreShort(f.lines, LAMBDA k : IsComment(f.lines, f.language.directives, k))
        /\ \A d \in f.language.delimiters : BlocksAreShort(f.lines, d)
        /\ f.language.name = "python" /\ f.parses # "no" => \A body \in f.docstrings :
            LET doc == [k \in DOMAIN body |-> SourceLine("code", body[k])] IN Short(doc, 1, Len(doc))

(* The fence that is open after line k, 0 for none: one of its character   *)
(* and at least its length closes it, whatever stands after it.            *)
OpenFence(lines) ==
    LET open[k \in 0..Len(lines)] ==
            IF k = 0 THEN 0
            ELSE LET was == open[k - 1]
                     f == lines[k].fence
                 IN  IF f.char = "" THEN was
                     ELSE IF was = 0 THEN k
                     ELSE IF f.char = lines[was].fence.char /\ f.len >= lines[was].fence.len THEN 0 ELSE was
    IN  open

(* The lines of a fence are those after its own until it is closed; those  *)
(* of a snippet are read as if they were a file, one without directives.   *)
Inside(lines, n) == LET open == OpenFence(lines)
                    IN  IF open[n] # n THEN {} ELSE {k \in n + 1..Len(lines) : \A m \in n..k : open[m] = n}
Snippet(lines, n) == [k \in 1..Cardinality(Inside(lines, n)) |-> lines[n + k]]

(* If the gate passes with fences looked into, no run of comment lines and *)
(* no delimited comment in a fenced snippet is over its limit by the rules *)
(* of the snippet's language, whatever else is fenced.                     *)
SnippetsAreShort ==
    gate = "comments" /\ result = 0 /\ input.fenced =>
        \A f \in FilesRead : f.language.name = "markdown" =>
            \A n \in DOMAIN f.lines, l \in input.languages : l.name = f.lines[n].fence.lang =>
                LET body == Snippet(f.lines, n)
                IN  /\ l.markers => RunsAreShort(body, LAMBDA k : IsComment(body, FALSE, k))
                    /\ \A d \in l.delimiters : BlocksAreShort(body, d)

(***************************************************************************)
(* check-role-inputs.py                                                    *)
(***************************************************************************)
Role == <<"web">>
Token == <<"web", "token">>
Enabled == Inputs!Flag(Role)
Site == <<"site", "token">>
Val(kind) == [kind |-> kind, ref |-> <<>>]
Ref(name) == [kind |-> "ref", ref |-> name]
OneOf(name, values) == {{}} \cup {{<<name, v>>} : v \in values}
Assert(var, conditions) == [vars |-> {var, Site}, conditions |-> conditions]
Cond(negated, modelled) == [var |-> Enabled, negated |-> negated, modelled |-> modelled]
RoleFiles(defaults, asserts, group, extra, plays) ==
    [directories |-> TRUE, skip |-> {}, allowEmpty |-> TRUE, allowDisabled |-> {}, allowUnknown |-> {}, parses |-> TRUE,
     roles |-> {[name |-> Role, defaults |-> defaults, asserts |-> asserts],
                [name |-> <<"opt">>, defaults |-> {<<<<"opt", "enabled">>, Val("false")>>}, asserts |-> {}]},
     plays |-> plays, groupVars |-> group, assigned |-> group \cup {<<n, Val("opaque")>> : n \in extra},
     sources |-> TRUE, text |-> {Token, Enabled}]
Invocation(block, when) == [role |-> Role, block |-> block, when |-> when]

Asserting(defaults, conditions, group, extra, block) ==
    RoleFiles(defaults, {Assert(Token, conditions)}, group, extra, {Invocation(block, {Enabled})})
Declaring(group, when, skip, empty, disabled, unknown, parses) ==
    [RoleFiles({<<Enabled, Val("false")>>}, {}, group, {}, {Invocation(FALSE, when)})
     EXCEPT !.skip = skip, !.allowEmpty = empty, !.allowDisabled = disabled, !.allowUnknown = unknown, !.parses = parses]
Waived(name, reasons) == {{}} \cup {{[name |-> name, reason |-> r]} : r \in reasons}
RolesRead(in) == Runs("roles", in, Inputs!Verdict(in))
RoleInputsRuns ==
    gate = "none" /\
        \/ \E t \in OneOf(Token, {Val("empty"), Val("set"), Val("opaque"), Ref(Site), Ref(Token)}),
              e \in OneOf(Enabled, {Val("false"), Val("set")}), s \in OneOf(Site, {Val("empty"), Val("set"), Ref(Enabled)}),
              g \in OneOf(Enabled, {Val("set")}), v \in OneOf(Token, {Val("set")}), x \in SUBSET {Token, Site},
              cs \in {{}, {Cond(FALSE, TRUE)}, {Cond(TRUE, TRUE)}, {Cond(FALSE, FALSE)}}, b \in BOOLEAN :
                RolesRead(Asserting(t \cup e, cs, s \cup g \cup v, x, b))
        \/ \E g \in {{}, {<<Enabled, Val("set")>>}, {<<<<"web", "typo">>, Val("set")>>}}, w \in {{}, {Enabled}},
              k \in SUBSET Inputs!Arms, m \in BOOLEAN, p \in BOOLEAN,
              a \in Waived(Role, BOOLEAN), u \in Waived(<<"web", "typo">>, {TRUE}) :
                RolesRead(Declaring(g, w, k, m, a, u, p))

(* What the role sees by default, the inventory's group variables first.   *)
Seen(role, name) ==
    LET group == {p[2] : p \in {q \in input.groupVars : q[1] = name}}
    IN  IF group # {} THEN group ELSE {p[2] : p \in {q \in role.defaults : q[1] = name}}
Surely(role, c) == c.modelled /\ IF c.negated THEN Seen(role, c.var) \subseteq {Val("false"), Val("empty")}
                                 ELSE Seen(role, c.var) = {Val("set")}
Provided(role, value) ==
    /\ value.kind # "empty"
    /\ value.kind = "ref" =>
           LET behind == Seen(role, value.ref)
           IN  IF behind = {} THEN value.ref \in Inputs!Names(input.assigned) ELSE behind # {Val("empty")}

(* If the gate passes with its required inputs, every assertion that a     *)
(* role invoked outside a block is sure to reach finds its own variables:  *)
(* assigned somewhere in the inventory, or with a default that is not      *)
(* empty once rendered.                                                    *)
RoleAssertsHold ==
    gate = "roles" /\ result = 0 /\ "required-inputs" \notin input.skip =>
        \A role \in input.roles : (\E i \in input.plays : i.role = role.name /\ ~i.block) =>
            \A a \in role.asserts : (\A c \in a.conditions : Surely(role, c)) =>
                \A v \in a.vars : Inputs!StartsWith(v, role.name) =>
                    \/ v \in Inputs!Names(input.assigned)
                    \/ \E p \in role.defaults : p[1] = v /\ Provided(role, p[2])

(***************************************************************************)
(* deploy-verify.sh                                                        *)
(***************************************************************************)
Deployments ==
    [unready : BOOLEAN, counting : {"counted", "no-list", "no-count"}, strict : BOOLEAN,
     es : {"ready", "late", "not-ready", "no-list", "no-count"},
     pods : {"ready", "late", "none", "pending", "unready", "failing", "no-list"},
     hrs : {"ready", "unnamed", "late", "none", "reconciling", "failing", "no-list", "no-count"},
     vips : {"ready", "not-announced", "no-config"}]
DeployVerifyRuns == gate = "none" /\ \E in \in Deployments : Runs("deploy", in, Deploy!Verdict(in))

(* A deployment that passes is healthy in full, pods that came late apart, *)
(* if the cluster was beforehand, whether that could be counted or not.    *)
(* Of its HelmReleases that says less than deploy-verify-lib.sh:12-15 asks *)
(* for: a list that jq could not classify passes for a clean one.          *)
SteadyStaysHealthy ==
    gate = "deploy" /\ result = 0 /\ ~input.unready =>
        input.strict /\ input.es = "ready" /\ input.hrs \in {"ready", "unnamed"} /\ input.vips = "ready" /\ input.pods \in {"ready", "late"}

(***************************************************************************)
(* molecule-retry.sh, MOL_MAX = 4                                          *)
(***************************************************************************)
Attempts == [rc : 0..2, banners : SUBSET {"setup", "test"}]
MoleculeRetryRuns == gate = "none" /\ \E n \in 1..4 : \E outcomes \in [1..n -> Attempts] : Runs("molecule", outcomes, Molecule!Run(outcomes))

(* The exit status is that of the last attempt, and every attempt before   *)
(* it failed in its setup, in so many words: no verdict of a scenario, and *)
(* no failure the script cannot read, is ever tried again.                 *)
VerdictIsNeverRetried ==
    gate = "molecule" =>
        /\ result.exit = input[result.attempts].rc
        /\ \A k \in 1..result.attempts - 1 : input[k].rc # 0 /\ input[k].banners = {"setup"}

(***************************************************************************)
(* What the gates promise together, besides DeniedByDefault and            *)
(* GreenIsGrounded: one property for each subject.                         *)
(***************************************************************************)
(* If the egress gate passes, neither single rules nor default routes open *)
(* the fenced ranges.                                                      *)
TheLanIsFenced == EgressIsFenced /\ DefaultRouteKeepsOffTheLan

(* If the scrape gates pass, Prometheus is let in wherever it scrapes, and *)
(* every endpoint leads to a port that a pod opens.                        *)
ScrapesArrive == ScrapeIsAdmitted /\ EndpointsResolve /\ ScrapedPodsAreReached /\ EndpointsHaveTargets

(* If the autoscaler and chart gates pass, no resource has two drivers,    *)
(* caps bind and leave headroom, in what charts install too, and a node    *)
(* drains at an HPA's floor.                                               *)
AutoscalersAgree == NoTugOfWar /\ CapsBind /\ HeadroomRemains /\ NodesDrain /\ InstalledCapsBind

(* If the inhibit gate passes, an escalation pages once, and nothing is    *)
(* muted whatever it is about.                                             *)
AlertsArrive == PagesOnce /\ NothingMutedForever

(* What the version checker takes for the latest release is the latest of  *)
(* its kind: in the order of versions, over pages, windows, Debian's       *)
(* revisions and the charts of one index.                                  *)
LatestIsLatest ==
    ReleaseOrder /\ PageSizeDoesNotMatter /\ NoAnswerBelowThePin /\ AptIsNewest /\ ChartVersionIsItsOwn

(* A write moves the one pin it is for, and no pin, copy of a pin or       *)
(* coupled value escapes the checks.                                       *)
PinsAreWatched == UpdateMovesOnePin /\ NoPinIsOverlooked /\ TopLevelPartnersFollow

(* If they pass, comments are within their limits and roles find the       *)
(* inputs they assert.                                                     *)
FilesAreInOrder == CommentsAreShort /\ SnippetsAreShort /\ RoleAssertsHold

(* A cluster that was healthy is held to full health, as far as its        *)
(* HelmReleases could be classified, and a scenario's failure stays one.   *)
VerdictsStand == SteadyStaysHealthy /\ VerdictIsNeverRetried

Next == \/ EgressFenceRuns \/ DefaultDenyRuns \/ ScrapeNetpolRuns \/ ScrapeWiringRuns
        \/ AutoscalerGateRuns \/ HelmValuesRuns \/ AlertInhibitsRuns
        \/ CompareRuns \/ GithubRuns \/ HubRuns \/ AptRuns \/ HelmRuns
        \/ UpdateRuns \/ CoverageRuns \/ PartnerRuns
        \/ CommentBlocksRuns \/ RoleInputsRuns \/ DeployVerifyRuns \/ MoleculeRetryRuns

Spec == Init /\ [][Next]_vars
=============================================================================
