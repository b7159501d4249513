----------------------------- MODULE GateProofs -----------------------------
(***************************************************************************)
(* What the gates promise, for every input.  Spec runs each gate once on   *)
(* an input of a bounded set; OnAnyInput on documents, releases, vars      *)
(* files and attempts of any number that have the shape a cluster, a chart *)
(* or the repository gives them, and BoundedIsAny shows that the bounded   *)
(* sets' members have that shape.  A gate's verdict is taken apart by the  *)
(* lemmas named for what it promises; GatesAnswer says that the result is  *)
(* that verdict, and the theorems at the end put the two together.         *)
(*                                                                         *)
(* Keys are the keys a vars file may have.  They are a constant because    *)
(* the provers do not show that a literal is in STRING; BoundedIsAny       *)
(* assumes that the keys this module names are among them.                 *)
(***************************************************************************)
EXTENDS MCGates, ManifestGateProofs

CONSTANT Keys   \* the keys of vars files

-----------------------------------------------------------------------------
(* deploy-verify.sh and molecule-retry.sh. *)

LEMMA SteadyIsHeldToFullHealth ==
    ASSUME NEW in \in Deployments, ~in.unready, Deploy!Verdict(in) = 0
    PROVE  in.strict /\ in.es = "ready" /\ in.hrs \in {"ready", "unnamed"} /\ in.vips = "ready"
           /\ in.pods \in {"ready", "late"}
  <1>1. in.strict /\ ~Deploy!PreFails(in) /\ Deploy!SteadyState(in)
    BY DEF Deploy!Verdict, Deploy!SteadyState, Deploy!PreFails, Deploy!Failures, Deployments
  <1>2. /\ ~Deploy!ExternalSecretsFail(in.es, TRUE) /\ ~Deploy!PodsFail(in.pods, TRUE)
        /\ ~Deploy!HelmReleasesFail(in.hrs, TRUE) /\ ~Deploy!VipsFail(in.vips, TRUE)
    BY <1>1 DEF Deploy!Verdict, Deploy!ExternalSecretsFail, Deploy!PodsFail,
                Deploy!HelmReleasesFail, Deploy!VipsFail
  <1> QED
    BY <1>1, <1>2 DEF Deployments, Deploy!ExternalSecretsFail, Deploy!PodsFail,
                      Deploy!HelmReleasesFail, Deploy!VipsFail, Deploy!Failures

Attempt == [rc : Nat, banners : SUBSET {"setup", "test"}]
Outcomes == Seq(Attempt) \ {<<>>}

\* However many attempts there may be, the wrapper stops at the first one that is not
\* to be retried, or at the last.
LEMMA EarlierAttemptsFailedInSetup ==
    ASSUME NEW outcomes \in Outcomes,
           NEW run, run = Molecule!Run(outcomes)
    PROVE  /\ run.attempts \in DOMAIN outcomes
           /\ run.exit = outcomes[run.attempts].rc
           /\ \A k \in 1..run.attempts - 1 : outcomes[k].rc # 0 /\ outcomes[k].banners = {"setup"}
  <1> DEFINE Stops(k) == ~Molecule!Retries(outcomes[k]) \/ k = Len(outcomes)
             last == CHOOSE k \in DOMAIN outcomes :
                         Stops(k) /\ \A j \in 1..k - 1 : Molecule!Retries(outcomes[j])
             S == {k \in DOMAIN outcomes : Stops(k)}
  <1>1. DOMAIN outcomes = 1..Len(outcomes) /\ Len(outcomes) \in Nat \ {0}
    BY DEF Outcomes
  <1>2. Len(outcomes) \in S /\ S \in SUBSET Nat
    BY <1>1
  <1>3. PICK k \in S : \A j \in S : k <= j
    BY <1>2, LeastOf
  <1>4. \A j \in 1..k - 1 : j \in DOMAIN outcomes /\ ~(k <= j)
    BY <1>1, <1>3
  <1>5. \A j \in 1..k - 1 : Molecule!Retries(outcomes[j])
    BY <1>3, <1>4
  <1>6. last \in DOMAIN outcomes /\ \A j \in 1..last - 1 : Molecule!Retries(outcomes[j])
    BY <1>3, <1>5
  <1>7. run = [attempts |-> last, exit |-> outcomes[last].rc]
    BY DEF Molecule!Run
  <1>8. \A j \in 1..last - 1 : outcomes[j].rc # 0 /\ outcomes[j].banners = {"setup"}
    <2> SUFFICES ASSUME NEW j \in 1..last - 1
                 PROVE  outcomes[j].rc # 0 /\ outcomes[j].banners = {"setup"}
      OBVIOUS
    <2>1. j \in DOMAIN outcomes /\ Molecule!Retries(outcomes[j])
      BY <1>1, <1>6
    <2>2. outcomes[j] \in Attempt
      BY <1>1, <2>1 DEF Outcomes
    <2> QED
      BY <2>1, <2>2 DEF Molecule!Retries, Attempt
  <1> HIDE DEF last
  <1> QED
    BY <1>6, <1>7, <1>8

-----------------------------------------------------------------------------
(* check-versions.py: the vars file. *)

VarsLine == [indent : Nat, key : Keys, spaced : BOOLEAN, val : Nat, quoted : BOOLEAN, note : Nat]

\* A proper vars file of any length, its empty lines read as comments; the section of
\* the charts is a key of the first column.
VarsFile(lines) ==
    /\ lines \in Seq(VarsLine) /\ Proper(lines)
    /\ \A i \in DOMAIN lines :
        /\ lines[i].indent # 1 /\ lines[i].key # File!Blank
        /\ lines[i].key = File!Helm => lines[i].indent = 0 /\ lines[i].val = File!NoVal

Vars == [chart : BOOLEAN, key : Keys \ {File!Blank, File!Comment, File!Helm}]

LEMMA GreatestOf ==
    ASSUME NEW n \in Nat, NEW S \in SUBSET (1..n), S # {}
    PROVE  \E i \in S : \A j \in S : j <= i
  <1> DEFINE T == {n - i : i \in S}
  <1>1. T \in SUBSET Nat /\ T # {}
    <2>1. \A i \in S : n - i \in Nat
      OBVIOUS
    <2> QED
      BY <2>1
  <1>2. PICK t \in T : \A u \in T : t <= u
    BY <1>1, LeastOf
  <1>3. PICK i \in S : t = n - i
    OBVIOUS
  <1>4. \A j \in S : n - i <= n - j
    BY <1>2, <1>3
  <1> QED
    BY <1>4

LEMMA LinesAreLines ==
    ASSUME NEW lines, VarsFile(lines)
    PROVE  /\ Len(lines) \in Nat /\ DOMAIN lines = 1..Len(lines)
           /\ \A i \in DOMAIN lines : lines[i] \in VarsLine
  BY DEF VarsFile

\* The section that the code takes a line to be in is its owner in the file.
LEMMA HelmIsOwner ==
    ASSUME NEW lines, VarsFile(lines), NEW i \in KeyLines(lines)
    PROVE  /\ lines[i].indent > 0 => (File!InHelm(lines, i) <=> Owner(lines, i) = File!Helm)
           /\ lines[i].indent = 0 /\ ~File!Header(lines[i]) => ~File!InHelm(lines, i)
  <1> DEFINE heads == {j \in 1..i - 1 : lines[j].indent = 0 /\ lines[j].key # File!Comment}
  <1>1. i \in DOMAIN lines /\ Len(lines) \in Nat /\ DOMAIN lines = 1..Len(lines)
    BY LinesAreLines DEF KeyLines
  <1>2. \A j \in DOMAIN lines : /\ lines[j].indent \in Nat /\ lines[j].key # File!Blank
                                /\ lines[j].key = File!Helm => lines[j].indent = 0 /\ File!Header(lines[j])
    BY LinesAreLines DEF VarsFile, VarsLine, File!Header
  <1>3. \A j \in 1..i : j \in DOMAIN lines
    BY <1>1
  <1>4. File!Says(lines[i]) /\ i \in i..i
    BY <1>1, <1>2 DEF File!Says, KeyLines
  <1>5. ASSUME lines[i].indent = 0, ~File!Header(lines[i]), File!InHelm(lines, i) PROVE FALSE
    <2>1. PICK h \in 1..i - 1 :
              \A j \in h + 1..i : File!Says(lines[j]) => File!Header(lines[j]) \/ lines[j].indent > 0
      BY <1>5 DEF File!InHelm
    <2>2. i \in h + 1..i
      BY <1>1
    <2> QED
      BY <1>4, <1>5, <2>1, <2>2
  <1>6. ASSUME lines[i].indent > 0, File!InHelm(lines, i) PROVE Owner(lines, i) = File!Helm
    <2>1. PICK h \in 1..i - 1 :
              /\ File!Header(lines[h])
              /\ \A j \in h + 1..i : File!Says(lines[j]) => File!Header(lines[j]) \/ lines[j].indent > 0
      BY <1>6 DEF File!InHelm
    <2>2. h \in heads
      BY <1>1, <1>2, <1>3, <2>1 DEF File!Header, File!Helm, File!Comment
    <2>3. heads \in SUBSET (1..i - 1) /\ i - 1 \in Nat
      BY <1>1
    <2>4. \E g \in heads : \A k \in heads : k <= g
      BY <2>2, <2>3, GreatestOf
    <2> DEFINE g == CHOOSE j \in heads : \A k \in heads : k <= j
    <2>5. g \in heads /\ h <= g
      BY <2>2, <2>4
    <2>6. Owner(lines, i) = lines[g].key
      BY <2>2 DEF Owner
    <2> HIDE DEF g
    <2>7. lines[g].key = File!Helm
      <3>1. CASE g = h
        BY <2>1, <3>1 DEF File!Header
      <3>2. CASE g # h
        <4>1. g \in h + 1..i /\ g \in DOMAIN lines
          BY <1>1, <2>5, <3>2
        <4>2. File!Says(lines[g]) /\ ~(lines[g].indent > 0)
          BY <1>2, <2>5, <4>1 DEF File!Says
        <4> QED
          BY <2>1, <4>1, <4>2 DEF File!Header
      <3> QED
        BY <3>1, <3>2
    <2> QED
      BY <2>6, <2>7
  <1>7. ASSUME lines[i].indent > 0, Owner(lines, i) = File!Helm PROVE File!InHelm(lines, i)
    <2>1. heads # {}
      BY <1>7 DEF Owner, File!Helm
    <2>2. heads \in SUBSET (1..i - 1) /\ i - 1 \in Nat
      BY <1>1
    <2>3. \E g \in heads : \A k \in heads : k <= g
      BY <2>1, <2>2, GreatestOf
    <2> DEFINE g == CHOOSE j \in heads : \A k \in heads : k <= j
    <2>4. g \in heads /\ \A k \in heads : k <= g
      BY <2>3
    <2>5. Owner(lines, i) = lines[g].key
      BY <2>1 DEF Owner
    <2> HIDE DEF g
    <2>6. g \in 1..i - 1 /\ File!Header(lines[g])
      BY <1>1, <1>2, <1>3, <1>7, <2>4, <2>5
    <2>7. \A j \in g + 1..i : File!Says(lines[j]) => File!Header(lines[j]) \/ lines[j].indent > 0
      <3> SUFFICES ASSUME NEW j \in g + 1..i, File!Says(lines[j]) PROVE lines[j].indent > 0
        OBVIOUS
      <3>1. j \in DOMAIN lines /\ lines[j].indent \in Nat
        BY <1>1, <1>2, <2>6
      <3>2. CASE j = i
        BY <1>7, <3>2
      <3>3. CASE j # i
        <4>1. j \in 1..i - 1 /\ ~(j <= g)
          BY <1>1, <2>6, <3>3
        <4>2. j \notin heads
          BY <2>4, <4>1
        <4> QED
          BY <3>1, <4>1, <4>2 DEF File!Says
      <3> QED
        BY <3>2, <3>3
    <2> QED
      BY <2>6, <2>7 DEF File!InHelm
  <1> QED
    BY <1>5, <1>6, <1>7

\* The code's line of a variable is the line at the variable's path.
LEMMA AtPath ==
    ASSUME NEW lines, VarsFile(lines), NEW var \in Vars, NEW i \in KeyLines(lines)
    PROVE  /\ PathAt(lines, i) = PathOf(var) <=>
                /\ lines[i].key = var.key
                /\ IF var.chart THEN File!InHelm(lines, i) /\ lines[i].indent >= 2
                   ELSE lines[i].indent = 0
           /\ PathAt(lines, i) = PathOf(var) => (File!InHelm(lines, i) <=> var.chart)
  <1>1. lines[i].indent \in Nat /\ lines[i].indent # 1
    BY LinesAreLines DEF KeyLines, VarsFile, VarsLine
  <1>2. var.key # File!Helm
    BY DEF Vars
  <1>3. lines[i].key = var.key => ~File!Header(lines[i])
    BY <1>2 DEF File!Header
  <1>4. CASE lines[i].indent = 0
    <2>1. PathAt(lines, i) = <<lines[i].key>>
      BY <1>4 DEF PathAt
    <2>2. PathAt(lines, i) = PathOf(var) <=> lines[i].key = var.key /\ ~var.chart
      BY <2>1 DEF PathOf
    <2> QED
      BY <1>3, <1>4, <2>2, HelmIsOwner
  <1>5. CASE lines[i].indent # 0
    <2>1. PathAt(lines, i) = <<Owner(lines, i), lines[i].key>>
      BY <1>5 DEF PathAt
    <2>2. PathAt(lines, i) = PathOf(var) <=>
              Owner(lines, i) = File!Helm /\ lines[i].key = var.key /\ var.chart
      BY <2>1 DEF PathOf
    <2>3. lines[i].indent >= 2 /\ lines[i].indent > 0
      BY <1>1, <1>5
    <2> QED
      BY <1>5, <2>2, <2>3, HelmIsOwner
  <1> QED
    BY <1>4, <1>5

\* No two lines have one path: the file as a mapping has at each path the line's value.
LEMMA YamlAt ==
    ASSUME NEW lines, VarsFile(lines)
    PROVE  /\ DOMAIN Yaml(lines) = {PathAt(lines, i) : i \in KeyLines(lines)}
           /\ \A i \in KeyLines(lines) : Yaml(lines)[PathAt(lines, i)] = lines[i].val
           /\ Yaml(lines) = [p \in DOMAIN Yaml(lines) |-> Yaml(lines)[p]]
  <1>1. \A i, j \in KeyLines(lines) : PathAt(lines, i) = PathAt(lines, j) => i = j
    BY DEF VarsFile, Proper
  <1>2. \A i \in KeyLines(lines) :
            (CHOOSE j \in KeyLines(lines) : PathAt(lines, j) = PathAt(lines, i)) = i
    BY <1>1
  <1> DEFINE P == {PathAt(lines, i) : i \in KeyLines(lines)}
             ValAt(p) == lines[CHOOSE i \in KeyLines(lines) : PathAt(lines, i) = p].val
  <1>3. Yaml(lines) = [p \in P |-> ValAt(p)]
    BY DEF Yaml
  <1>4. \A i \in KeyLines(lines) : PathAt(lines, i) \in P /\ ValAt(PathAt(lines, i)) = lines[i].val
    BY <1>2
  <1> HIDE DEF ValAt, P
  <1>5. DOMAIN Yaml(lines) = P /\ \A p \in P : Yaml(lines)[p] = ValAt(p)
    BY <1>3
  <1> QED
    BY <1>3, <1>4, <1>5 DEF P

\* The line of a variable is one at most.
LEMMA OneLine ==
    ASSUME NEW lines, VarsFile(lines), NEW var \in Vars, NEW k \in KeyLines(lines),
           PathAt(lines, k) = PathOf(var)
    PROVE  File!TargetLines(lines, var) = IF lines[k].spaced THEN {} ELSE {k}
  <1>1. \A i \in DOMAIN lines : lines[i].key = var.key => i \in KeyLines(lines)
    BY DEF KeyLines, Vars
  <1>2. \A i \in KeyLines(lines) : PathAt(lines, i) = PathOf(var) => i = k
    BY DEF VarsFile, Proper
  <1>3. k \in DOMAIN lines
    BY DEF KeyLines
  <1>4. \A i \in DOMAIN lines :
            i \in File!TargetLines(lines, var) <=>
            i \in KeyLines(lines) /\ PathAt(lines, i) = PathOf(var) /\ ~lines[i].spaced
    BY <1>1, AtPath DEF File!TargetLines
  <1>5. File!TargetLines(lines, var) \subseteq DOMAIN lines
    BY DEF File!TargetLines
  <1> QED
    BY <1>2, <1>3, <1>4, <1>5

LEMMA NoLine ==
    ASSUME NEW lines, VarsFile(lines), NEW var \in Vars,
           \A i \in KeyLines(lines) : PathAt(lines, i) = PathOf(var) => lines[i].spaced
    PROVE  File!TargetLines(lines, var) = {}
  <1>1. \A i \in DOMAIN lines : lines[i].key = var.key => i \in KeyLines(lines)
    BY DEF KeyLines, Vars
  <1> QED
    BY <1>1, AtPath DEF File!TargetLines

\* A file in which one line of a variable is another.
Rewrites(res, lines, k, r) ==
    /\ VarsFile(lines) /\ k \in KeyLines(lines) /\ lines[k].key # File!Helm
    /\ r \in VarsLine /\ r.indent = lines[k].indent /\ r.key = lines[k].key
    /\ res = [lines EXCEPT ![k] = r]

LEMMA RewrittenFile ==
    ASSUME NEW res, NEW lines, NEW k, NEW r, Rewrites(res, lines, k, r)
    PROVE  /\ VarsFile(res) /\ KeyLines(res) = KeyLines(lines)
           /\ \A i \in KeyLines(lines) :
                 /\ PathAt(res, i) = PathAt(lines, i)
                 /\ res[i].val = IF i = k THEN r.val ELSE lines[i].val
  <1>0. /\ VarsFile(lines) /\ k \in KeyLines(lines) /\ lines[k].key # File!Helm
        /\ r \in VarsLine /\ r.indent = lines[k].indent /\ r.key = lines[k].key
        /\ res = [lines EXCEPT ![k] = r]
    BY DEF Rewrites
  <1>1. /\ Len(lines) \in Nat /\ DOMAIN lines = 1..Len(lines)
        /\ \A i \in DOMAIN lines : lines[i] \in VarsLine
    BY <1>0, LinesAreLines
  <1>2. k \in DOMAIN lines
    BY <1>0 DEF KeyLines
  <1>4. /\ res \in Seq(VarsLine) /\ DOMAIN res = DOMAIN lines
        /\ res[k] = r /\ \A i \in DOMAIN lines \ {k} : res[i] = lines[i]
    BY <1>0, <1>1, <1>2 DEF VarsFile
  <1>5. \A i \in DOMAIN lines : /\ res[i].indent = lines[i].indent /\ res[i].key = lines[i].key
                                /\ i # k => res[i].val = lines[i].val
    BY <1>0, <1>4
  <1>6. KeyLines(res) = KeyLines(lines)
    BY <1>4, <1>5 DEF KeyLines
  <1>7. \A i \in KeyLines(lines) : Owner(res, i) = Owner(lines, i)
    <2> SUFFICES ASSUME NEW i \in KeyLines(lines) PROVE Owner(res, i) = Owner(lines, i)
      OBVIOUS
    <2> DEFINE H(f) == {j \in 1..i - 1 : f[j].indent = 0 /\ f[j].key # File!Comment}
    <2>1. \A j \in 1..i - 1 : j \in DOMAIN lines
      BY <1>1 DEF KeyLines
    <2>2. H(res) = H(lines)
      BY <1>5, <2>1
    <2>3. CASE H(lines) = {}
      BY <2>2, <2>3 DEF Owner
    <2>4. CASE H(lines) # {}
      <3> DEFINE g == CHOOSE j \in H(lines) : \A m \in H(lines) : m <= j
      <3>1. H(lines) \in SUBSET (1..i - 1) /\ i - 1 \in Nat
        BY <1>1 DEF KeyLines
      <3>2. \E j \in H(lines) : \A m \in H(lines) : m <= j
        BY <2>4, <3>1, GreatestOf
      <3>3. g \in 1..i - 1
        BY <3>2
      <3>4. Owner(lines, i) = lines[g].key /\ Owner(res, i) = res[g].key
        BY <2>2, <2>4 DEF Owner
      <3> HIDE DEF g
      <3> QED
        BY <1>5, <2>1, <3>3, <3>4
    <2> QED
      BY <2>3, <2>4
  <1>8. \A i \in KeyLines(lines) : PathAt(res, i) = PathAt(lines, i)
    BY <1>5, <1>7 DEF PathAt, KeyLines
  <1>9. Proper(res)
    <2>1. /\ \A i, j \in KeyLines(lines) : PathAt(lines, i) = PathAt(lines, j) => i = j
          /\ \A i \in KeyLines(lines) : lines[i].indent > 0 => Owner(lines, i) \in {File!Helm, "other"}
      BY <1>0 DEF Proper, VarsFile
    <2>2. \A i \in KeyLines(lines) : res[i].indent = lines[i].indent
      BY <1>5 DEF KeyLines
    <2> QED
      BY <1>6, <1>7, <1>8, <2>1, <2>2 DEF Proper
  <1>10. VarsFile(res)
    BY <1>0, <1>4, <1>5, <1>9 DEF VarsFile
  <1> QED
    BY <1>0, <1>2, <1>4, <1>5, <1>6, <1>8, <1>10 DEF KeyLines

\* What is registered for a pin of the vars file: no file of its own, and a key that is
\* read: one that ends in _version, or does not hold it.
Registered(var, registry) ==
    /\ \A s \in registry : s.var = var => s.files = <<>>
    /\ \E s \in registry : s.var = var
    /\ var.chart \/ var.key \in VersionKeys \/ var.key \notin VersionLike

LEMMA PinIsRead ==
    ASSUME NEW lines, VarsFile(lines), NEW var \in Vars, NEW registry, Registered(var, registry),
           NEW k \in KeyLines(lines), PathAt(lines, k) = PathOf(var)
    PROVE  File!ReadCurrentVersions(lines, registry)[var] = lines[k].val
  <1> DEFINE extra == File!ExtraKeys(registry)
             at == File!VarLines(lines, extra)
             Mine == {i \in at : File!VarAt(lines, i) = var}
  <1>1. \A i \in KeyLines(lines) : PathAt(lines, i) = PathOf(var) => i = k
    BY DEF VarsFile, Proper
  <1>2. var.key # File!Helm /\ var.key # File!Comment /\ var.key # File!Blank
        /\ var = [chart |-> var.chart, key |-> var.key] /\ var.chart \in BOOLEAN
    BY DEF Vars
  <1>3. ~var.chart /\ var.key \notin VersionKeys => var.key \in extra
    BY DEF Registered, File!ExtraKeys
  <1>4. /\ lines[k].key = var.key
        /\ IF var.chart THEN File!InHelm(lines, k) /\ lines[k].indent >= 2 ELSE lines[k].indent = 0
        /\ File!InHelm(lines, k) <=> var.chart
    BY AtPath
  <1> HIDE DEF extra
  <1>5. k \in at
    BY <1>2, <1>3, <1>4 DEF File!VarLines, KeyLines, File!Says, File!Header
  <1>6. File!VarAt(lines, k) = var
    <2>1. File!InHelm(lines, k) \in BOOLEAN
      BY DEF File!InHelm
    <2>2. File!InHelm(lines, k) = var.chart
      BY <1>2, <1>4, <2>1
    <2> QED
      BY <1>2, <1>4, <2>2 DEF File!VarAt
  <1>7. ASSUME NEW i \in at, File!VarAt(lines, i) = var PROVE i = k
    <2>1. lines[i].key = var.key /\ (File!InHelm(lines, i) <=> var.chart)
      <3>1. /\ [chart |-> File!InHelm(lines, i), key |-> lines[i].key].key = var.key
            /\ [chart |-> File!InHelm(lines, i), key |-> lines[i].key].chart = var.chart
        BY <1>7 DEF File!VarAt
      <3>2. lines[i].key = var.key /\ File!InHelm(lines, i) = var.chart
        BY <3>1
      <3> QED
        BY <3>2
    <2>2. i \in KeyLines(lines) /\ ~File!Header(lines[i])
      BY <2>1, <1>2 DEF File!VarLines, KeyLines, File!Header
    <2>3. IF var.chart THEN File!InHelm(lines, i) /\ lines[i].indent >= 2 ELSE lines[i].indent = 0
      BY <2>1, <2>2, HelmIsOwner DEF File!VarLines
    <2> QED
      BY <1>1, <2>1, <2>2, <2>3, AtPath
  <1> HIDE DEF at
  <1>8. Mine = {k}
    BY <1>5, <1>6, <1>7
  <1>9. k \in Nat
    BY LinesAreLines DEF KeyLines
  <1>10. File!Greatest({k}) = k
    BY <1>9 DEF File!Greatest
  <1> DEFINE vs == File!ReadVars(lines, extra)
  <1>11. var \in DOMAIN vs /\ vs[var] = lines[k].val
    <2> DEFINE V == {File!VarAt(lines, i) : i \in at}
    <2>1. vs = [v \in V |-> lines[File!Greatest({i \in at : File!VarAt(lines, i) = v})].val]
      BY DEF File!ReadVars, at
    <2>2. var \in V
      BY <1>5, <1>6
    <2> HIDE DEF vs, V
    <2>3. DOMAIN vs = V /\ vs[var] = lines[File!Greatest(Mine)].val
      BY <2>1, <2>2
    <2> HIDE DEF Mine
    <2> QED
      BY <2>2, <2>3, <1>8, <1>10
  <1> DEFINE pinned == File!ReadPinnedImageVersions(registry)
  <1>12. var \notin DOMAIN pinned
    <2>1. \A s \in registry : s.var = var => File!PinnedTags(s) = {}
      BY DEF Registered, File!PinnedTags
    <2>2. DOMAIN pinned = {s.var : s \in {t \in registry : File!PinnedTags(t) # {}}}
      BY DEF File!ReadPinnedImageVersions
    <2> QED
      BY <2>1, <2>2
  <1>13. File!ReadCurrentVersions(lines, registry) =
            [v \in DOMAIN vs \cup DOMAIN pinned |-> IF v \in DOMAIN pinned THEN pinned[v] ELSE vs[v]]
    BY DEF File!ReadCurrentVersions, extra
  <1> HIDE DEF vs, pinned
  <1> QED
    BY <1>11, <1>12, <1>13

LEMMA RewriteMovesOnePin ==
    ASSUME NEW var \in Vars, NEW registry, Registered(var, registry),
           NEW res, NEW lines, NEW k, NEW r, Rewrites(res, lines, k, r),
           PathAt(lines, k) = PathOf(var)
    PROVE  /\ Yaml(res) = [Yaml(lines) EXCEPT ![PathOf(var)] = r.val]
           /\ File!ReadCurrentVersions(res, registry)[var] = r.val
  <1>1. VarsFile(lines) /\ k \in KeyLines(lines)
    BY DEF Rewrites
  <1>2. VarsFile(res)
    BY RewrittenFile
  <1>3. /\ KeyLines(res) = KeyLines(lines)
        /\ \A i \in KeyLines(lines) :
              /\ PathAt(res, i) = PathAt(lines, i)
              /\ res[i].val = IF i = k THEN r.val ELSE lines[i].val
    BY RewrittenFile
  <1>4. File!ReadCurrentVersions(res, registry)[var] = r.val
    BY <1>1, <1>2, <1>3, PinIsRead
  <1>5. \A i \in KeyLines(lines) : PathAt(lines, i) = PathOf(var) => i = k
    BY <1>1 DEF VarsFile, Proper
  <1>6. /\ DOMAIN Yaml(lines) = {PathAt(lines, i) : i \in KeyLines(lines)}
        /\ \A i \in KeyLines(lines) : Yaml(lines)[PathAt(lines, i)] = lines[i].val
        /\ Yaml(lines) = [p \in DOMAIN Yaml(lines) |-> Yaml(lines)[p]]
    BY <1>1, YamlAt
  <1>7. /\ DOMAIN Yaml(res) = {PathAt(res, i) : i \in KeyLines(res)}
        /\ \A i \in KeyLines(res) : Yaml(res)[PathAt(res, i)] = res[i].val
        /\ Yaml(res) = [p \in DOMAIN Yaml(res) |-> Yaml(res)[p]]
    BY <1>2, YamlAt
  <1>8. DOMAIN Yaml(res) = DOMAIN Yaml(lines)
    BY <1>3, <1>6, <1>7
  <1>9. \A i \in KeyLines(lines) :
            Yaml(res)[PathAt(lines, i)] =
                IF PathAt(lines, i) = PathOf(var) THEN r.val ELSE Yaml(lines)[PathAt(lines, i)]
    BY <1>3, <1>5, <1>6, <1>7
  <1>10. \A p \in DOMAIN Yaml(lines) : Yaml(res)[p] = IF p = PathOf(var) THEN r.val ELSE Yaml(lines)[p]
    BY <1>6, <1>9
  <1>11. Yaml(res) = [Yaml(lines) EXCEPT ![PathOf(var)] = r.val]
    <2> DEFINE y == Yaml(lines)
               z == Yaml(res)
    <2>1. /\ DOMAIN z = DOMAIN y /\ z = [p \in DOMAIN z |-> z[p]] /\ y = [p \in DOMAIN y |-> y[p]]
          /\ \A p \in DOMAIN y : z[p] = IF p = PathOf(var) THEN r.val ELSE y[p]
      BY <1>6, <1>7, <1>8, <1>10
    <2> HIDE DEF y, z
    <2> QED
      BY <2>1 DEF y, z
  <1> QED
    BY <1>4, <1>11

\* A write changes the value at its path, no other, and what is read afterwards is the
\* new one; without a line of its own in the file it changes nothing.
LEMMA WriteMovesOnePin ==
    ASSUME NEW lines, VarsFile(lines), NEW var \in Vars, NEW registry, Registered(var, registry),
           NEW new \in Nat
    PROVE  LET res == File!UpdateVersionInFile(lines, var, new, registry)
           IN  IF \E i \in KeyLines(lines) : PathAt(lines, i) = PathOf(var) /\ ~lines[i].spaced
               THEN /\ Yaml(res) = [Yaml(lines) EXCEPT ![PathOf(var)] = new]
                    /\ File!ReadCurrentVersions(res, registry)[var] = new
               ELSE res = lines
  <1> DEFINE res == File!UpdateVersionInFile(lines, var, new, registry)
  <1>1. ASSUME ~\E i \in KeyLines(lines) : PathAt(lines, i) = PathOf(var) /\ ~lines[i].spaced
        PROVE  res = lines
    BY <1>1, NoLine DEF File!UpdateVersionInFile, File!Writable
  <1>2. ASSUME NEW k \in KeyLines(lines), PathAt(lines, k) = PathOf(var), ~lines[k].spaced
        PROVE  /\ Yaml(res) = [Yaml(lines) EXCEPT ![PathOf(var)] = new]
               /\ File!ReadCurrentVersions(res, registry)[var] = new
    <2>1. File!TargetLines(lines, var) = {k}
      BY <1>2, OneLine
    <2>2. k \in Nat /\ k \in DOMAIN lines
      BY LinesAreLines DEF KeyLines
    <2>3. File!Least({k}) = k
      BY <2>2 DEF File!Least
    <2>4. File!Writable(lines, var, registry)
      BY <2>1 DEF File!Writable, Registered
    <2> DEFINE r == File!RewritePinLine(lines[k], new, var.chart)
    <2>5. res = [lines EXCEPT ![k] = r]
      BY <2>1, <2>3, <2>4 DEF File!UpdateVersionInFile
    <2>6. lines[k].key # File!Helm /\ lines[k] \in VarsLine /\ var.chart \in BOOLEAN
      BY <1>2, <2>2, AtPath, LinesAreLines DEF Vars
    <2>7. r \in VarsLine /\ r.indent = lines[k].indent /\ r.key = lines[k].key /\ r.val = new
      BY <2>6 DEF File!RewritePinLine, VarsLine
    <2> HIDE DEF r, res
    <2>8. Rewrites(res, lines, k, r)
      BY <1>2, <2>5, <2>6, <2>7 DEF Rewrites
    <2> QED
      BY <1>2, <2>7, <2>8, RewriteMovesOnePin
  <1> QED
    BY <1>1, <1>2

LEMMA OneAtMost ==
    ASSUME NEW S, IsFiniteSet(S), ~(Cardinality(S) > 1), NEW a \in S, NEW b \in S
    PROVE  a = b
  <1> SUFFICES ASSUME a # b PROVE FALSE
    OBVIOUS
  <1>1. IsFiniteSet({a}) /\ Cardinality({a}) = 1
    BY FS_Singleton
  <1>2. IsFiniteSet({a} \cup {b}) /\ Cardinality({a} \cup {b}) = 2
    <2>1. b \notin {a}
      OBVIOUS
    <2>2. IsFiniteSet({a} \cup {b})
      BY <1>1, FS_AddElement
    <2>3. Cardinality({a} \cup {b}) = Cardinality({a}) + 1
      BY <1>1, <2>1, FS_AddElement
    <2> QED
      BY <1>1, <2>2, <2>3
  <1>3. Cardinality({a} \cup {b}) <= Cardinality(S) /\ Cardinality(S) \in Nat
    BY FS_Subset, FS_CardinalityType
  <1> QED
    BY <1>2, <1>3

LEMMA FileCardinality == ASSUME NEW S PROVE File!Cardinality(S) = Cardinality(S)
  BY DEF File!Cardinality, Cardinality

\* An entry of the registry: the files it is kept in, each with the tag it gives.
FileTag == [readable : BOOLEAN, tag : Nat]

LEMMA TagsAreFinite ==
    ASSUME NEW s, s.files \in Seq(FileTag)
    PROVE  IsFiniteSet(File!PinnedTags(s))
  <1> DEFINE I == {j \in DOMAIN s.files : s.files[j].readable /\ s.files[j].tag # File!NoVal}
             T == {s.files[i].tag : i \in I}
             f == [i \in I |-> s.files[i].tag]
  <1>1. Len(s.files) \in Nat /\ DOMAIN s.files = 1..Len(s.files)
    OBVIOUS
  <1>2. IsFiniteSet(I)
    <2>1. IsFiniteSet(DOMAIN s.files)
      BY <1>1, FS_Interval
    <2>2. I \in SUBSET DOMAIN s.files
      OBVIOUS
    <2> HIDE DEF I
    <2> QED
      BY <2>1, <2>2, FS_Subset
  <1>3. f \in Surjection(I, T)
    BY DEF Surjection
  <1>4. IsFiniteSet(T)
    BY <1>2, <1>3, FS_Surjection
  <1> QED
    BY <1>4 DEF File!PinnedTags

\* A green coverage check of any vars file and registry.
LEMMA CoverageOverlooksNothing ==
    ASSUME NEW in, VarsFile(in.lines), File!Helm \notin VersionKeys,
           \A s \in in.registry : s.files \in Seq(FileTag),
           File!CheckCoverage(in) = 0
    PROVE  /\ \A i \in KeyLines(in.lines) :
                LET path == PathAt(in.lines, i)
                IN  (path[1] = File!Helm /\ Len(path) = 2) \/ (Len(path) = 1 /\ path[1] \in VersionKeys)
                    => \/ \E s \in in.registry : path = PathOf(s.var) \/ \E c \in s.companions : path = PathOf(c)
                       \/ \E v \in in.allowlist : path = PathOf(v)
           /\ \A s \in in.registry : \A f, g \in Listed(s.files) :
                f.readable /\ g.readable /\ f.tag # File!NoVal /\ g.tag # File!NoVal => f.tag = g.tag
  <1> DEFINE lines == in.lines
             Covered(path) ==
                 \/ \E s \in in.registry : path = PathOf(s.var) \/ \E c \in s.companions : path = PathOf(c)
                 \/ \E v \in in.allowlist : path = PathOf(v)
  <1>1. ~File!PinsDiverge(in.registry) /\ File!MissingRegistryEntries(lines, in.registry, in.allowlist) = {}
    BY DEF File!CheckCoverage
  <1>2. ASSUME NEW s \in in.registry, NEW f \in Listed(s.files), NEW g \in Listed(s.files),
               f.readable, g.readable, f.tag # File!NoVal, g.tag # File!NoVal
        PROVE  f.tag = g.tag
    <2>1. f.tag \in File!PinnedTags(s) /\ g.tag \in File!PinnedTags(s)
      BY <1>2 DEF Listed, File!PinnedTags
    <2>2. IsFiniteSet(File!PinnedTags(s))
      BY <1>2, TagsAreFinite
    <2>3. ~(File!Cardinality(File!PinnedTags(s)) > 1)
      BY <1>1, <1>2 DEF File!PinsDiverge
    <2>4. ~(Cardinality(File!PinnedTags(s)) > 1)
      BY <2>3, FileCardinality
    <2> QED
      BY <2>1, <2>2, <2>4, OneAtMost
  <1>3. ASSUME NEW v, v \in DOMAIN File!ReadCurrentVersions(lines, in.registry),
               v.chart \/ v.key \in VersionKeys
        PROVE  Covered(PathOf(v))
    <2>1. v \in File!Tracked(in.registry) \cup in.allowlist
      BY <1>1, <1>3 DEF File!MissingRegistryEntries
    <2> QED
      BY <2>1 DEF File!Tracked
  <1>4. ASSUME NEW i \in File!VarLines(lines, File!ExtraKeys(in.registry))
        PROVE  File!VarAt(lines, i) \in DOMAIN File!ReadCurrentVersions(lines, in.registry)
    BY <1>4 DEF File!ReadCurrentVersions, File!ReadVars
  <1>5. ASSUME NEW i \in KeyLines(lines),
               LET path == PathAt(lines, i)
               IN  (path[1] = File!Helm /\ Len(path) = 2) \/ (Len(path) = 1 /\ path[1] \in VersionKeys)
        PROVE  Covered(PathAt(lines, i))
    <2>1. /\ i \in DOMAIN lines /\ lines[i] \in VarsLine /\ lines[i].indent # 1
          /\ File!Says(lines[i]) /\ (lines[i].key = File!Helm => lines[i].indent = 0)
      BY <1>5, LinesAreLines DEF KeyLines, VarsFile, File!Says
    <2>2. CASE lines[i].indent = 0
      <3>1. PathAt(lines, i) = <<lines[i].key>>
        BY <2>2 DEF PathAt
      <3>2. lines[i].key \in VersionKeys
        BY <1>5, <3>1
      <3>3. ~File!Header(lines[i]) /\ ~File!InHelm(lines, i)
        BY <1>5, <2>2, <3>2, HelmIsOwner DEF File!Header
      <3>4. i \in File!VarLines(lines, File!ExtraKeys(in.registry))
        BY <2>1, <2>2, <3>2, <3>3 DEF File!VarLines
      <3> DEFINE v == File!VarAt(lines, i)
      <3>5. v.key = lines[i].key /\ ~v.chart
        BY <3>3 DEF File!VarAt
      <3>6. PathOf(v) = <<lines[i].key>>
        BY <3>5 DEF PathOf
      <3> HIDE DEF v
      <3> QED
        BY <1>3, <1>4, <3>1, <3>2, <3>4, <3>5, <3>6 DEF v
    <2>3. CASE lines[i].indent # 0
      <3>1. PathAt(lines, i) = <<Owner(lines, i), lines[i].key>>
        BY <2>3 DEF PathAt
      <3>2. Owner(lines, i) = File!Helm /\ lines[i].indent >= 2 /\ lines[i].indent > 0
        BY <1>5, <2>1, <2>3, <3>1 DEF VarsLine
      <3>3. File!InHelm(lines, i) /\ ~File!Header(lines[i])
        BY <1>5, <2>1, <2>3, <3>2, HelmIsOwner DEF File!Header
      <3>4. i \in File!VarLines(lines, File!ExtraKeys(in.registry))
        BY <2>1, <3>2, <3>3 DEF File!VarLines
      <3> DEFINE v == File!VarAt(lines, i)
      <3>5. v.key = lines[i].key /\ v.chart
        BY <3>3 DEF File!VarAt
      <3>6. PathOf(v) = <<File!Helm, lines[i].key>>
        BY <3>5 DEF PathOf
      <3> HIDE DEF v
      <3> QED
        BY <1>3, <1>4, <3>1, <3>2, <3>4, <3>5, <3>6 DEF v
    <2> QED
      BY <2>2, <2>3
  <1> QED
    BY <1>2, <1>5

\* The partner check reads a key of the first column as the file has it.
LEMMA TopLevelIsYaml ==
    ASSUME NEW lines, VarsFile(lines), NEW k \in KeyLines(lines), lines[k].indent = 0
    PROVE  /\ File!Top(lines[k].key) \in DOMAIN File!TopLevelPins(lines)
           /\ File!TopLevelPins(lines)[File!Top(lines[k].key)] = Yaml(lines)[<<lines[k].key>>]
  <1> DEFINE at == {i \in DOMAIN lines : File!Says(lines[i]) /\ lines[i].indent = 0}
             P == {File!Top(lines[i].key) : i \in at}
             Mine == {i \in at : File!Top(lines[i].key) = File!Top(lines[k].key)}
  <1>1. k \in at
    BY DEF KeyLines, VarsFile, File!Says
  <1>2. \A i \in at : i \in KeyLines(lines) /\ PathAt(lines, i) = <<lines[i].key>>
    BY DEF KeyLines, File!Says, PathAt
  <1>3. \A i \in KeyLines(lines) : PathAt(lines, i) = PathAt(lines, k) => i = k
    BY DEF VarsFile, Proper
  <1>4. Mine = {k}
    BY <1>1, <1>2, <1>3 DEF File!Top
  <1>5. k \in Nat
    BY LinesAreLines DEF KeyLines
  <1>6. File!Greatest({k}) = k
    BY <1>5 DEF File!Greatest
  <1>7. File!TopLevelPins(lines) =
            [v \in P |-> lines[File!Greatest({i \in at : File!Top(lines[i].key) = v})].val]
    BY DEF File!TopLevelPins
  <1>8. File!Top(lines[k].key) \in P
    BY <1>1
  <1> HIDE DEF P, at
  <1>9. /\ DOMAIN File!TopLevelPins(lines) = P
        /\ File!TopLevelPins(lines)[File!Top(lines[k].key)] = lines[File!Greatest(Mine)].val
    BY <1>7, <1>8
  <1>10. Yaml(lines)[PathAt(lines, k)] = lines[k].val
    BY YamlAt
  <1> HIDE DEF Mine
  <1> QED
    BY <1>1, <1>2, <1>4, <1>6, <1>8, <1>9, <1>10

\* A variable of the first column that stands in a file.
Standing(v, lines) == \E k \in KeyLines(lines) : lines[k].indent = 0 /\ v = File!Top(lines[k].key)

LEMMA StandingIsRead ==
    ASSUME NEW lines, VarsFile(lines), NEW v, Standing(v, lines)
    PROVE  /\ v \in DOMAIN File!TopLevelPins(lines)
           /\ File!TopLevelPins(lines)[v] = Yaml(lines)[PathOf(v)]
  <1>1. PICK k \in KeyLines(lines) : lines[k].indent = 0 /\ v = File!Top(lines[k].key)
    BY DEF Standing
  <1>2. PathOf(v) = <<lines[k].key>>
    BY <1>1 DEF PathOf, File!Top
  <1> QED
    BY <1>1, <1>2, TopLevelIsYaml

\* Two vars files; what goes with a pin of the first column stands, as the pin does, in
\* the first column of both.
PartnerOf(in) ==
    /\ VarsFile(in.base) /\ VarsFile(in.head)
    /\ \A s \in in.registry : ~s.var.chart =>
          \A v \in {s.var} \cup s.coupled : Standing(v, in.base) /\ Standing(v, in.head)

LEMMA PartnersFollow ==
    ASSUME NEW in, PartnerOf(in), File!CheckPartnerPins(in) = 0,
           NEW s \in in.registry, ~s.var.chart,
           Yaml(in.base)[PathOf(s.var)] # Yaml(in.head)[PathOf(s.var)],
           NEW c \in s.coupled
    PROVE  Yaml(in.base)[PathOf(c)] # Yaml(in.head)[PathOf(c)]
  <1> DEFINE b == File!TopLevelPins(in.base)
             h == File!TopLevelPins(in.head)
             both == DOMAIN b \cap DOMAIN h
  <1>1. \A v \in {s.var} \cup s.coupled :
            v \in both /\ b[v] = Yaml(in.base)[PathOf(v)] /\ h[v] = Yaml(in.head)[PathOf(v)]
    BY StandingIsRead DEF PartnerOf
  <1>2. File!StalePartnerPins(in.base, in.head, in.registry) = {}
    BY DEF File!CheckPartnerPins
  <1>3. ~(s.var \in both /\ b[s.var] # h[s.var] /\ \E d \in s.coupled : d \in both /\ b[d] = h[d])
    BY <1>2 DEF File!StalePartnerPins
  <1> HIDE DEF b, h, both
  <1> QED
    BY <1>1, <1>3

-----------------------------------------------------------------------------
(* check-comment-length.py: the scans, unrolled line by line. *)

\* Recursion that goes down from a number: where it is true is a set that says so of itself.
LEMMA DescentExists ==
    ASSUME NEW last \in Nat, NEW next \in [0..last -> [SUBSET Nat -> BOOLEAN]]
    PROVE  \E T \in SUBSET (0..last) : \A n \in 0..last : n \in T <=> next[n][{m \in T : m > n}]
  <1> DEFINE Step(i, A) == IF i \in 0..last /\ next[last - i][A] THEN A \cup {last - i} ELSE A
             step == [i \in Nat |-> [A \in SUBSET Nat |-> Step(i, A)]]
  <1>1. step \in [Nat -> [SUBSET Nat -> SUBSET Nat]]
    <2>1. ASSUME NEW i \in Nat, NEW A \in SUBSET Nat PROVE Step(i, A) \in SUBSET Nat
      OBVIOUS
    <2> HIDE DEF Step
    <2> QED
      BY <2>1
  <1>2. PICK g : Iterates(g, SUBSET Nat, {}, step)
    <2> HIDE DEF step
    <2> QED
      BY <1>1, RecursionExists
  <1>3. g[0] = {} /\ \A i \in Nat : g[i] \in SUBSET Nat /\ g[i + 1] = Step(i, g[i])
    <2> HIDE DEF Step
    <2> QED
      BY <1>2 DEF Iterates
  <1> HIDE DEF step
  <1>4. \A i \in 0..last : /\ \A m \in Nat : m # last - i => (m \in g[i + 1] <=> m \in g[i])
                           /\ last - i \in g[i + 1] <=> (last - i \in g[i] \/ next[last - i][g[i]])
    <2> SUFFICES ASSUME NEW i \in 0..last
                 PROVE  /\ \A m \in Nat : m # last - i => (m \in g[i + 1] <=> m \in g[i])
                        /\ last - i \in g[i + 1] <=> (last - i \in g[i] \/ next[last - i][g[i]])
      OBVIOUS
    <2>1. i \in Nat /\ g[i + 1] = Step(i, g[i])
      <3> HIDE DEF Step
      <3> QED
        BY <1>3
    <2>2. g[i + 1] = IF next[last - i][g[i]] THEN g[i] \cup {last - i} ELSE g[i]
      BY <2>1
    <2> QED
      BY <2>2
  <1> HIDE DEF Step
  <1>5. \A i \in 0..last + 1 : \A m \in g[i] : m > last - i /\ m <= last
    <2> DEFINE Off == {i \in 0..last + 1 : ~\A m \in g[i] : m > last - i /\ m <= last}
    <2> SUFFICES ASSUME Off # {} PROVE FALSE
      OBVIOUS
    <2>1. PICK i \in Off : \A j \in Off : i <= j
      BY LeastOf, Off \in SUBSET Nat
    <2>2. i # 0
      BY <1>3, <2>1
    <2>3. i - 1 \in 0..last /\ (i - 1) + 1 = i /\ i - 1 \notin Off
      BY <2>1, <2>2
    <2>4. \A m \in g[i - 1] : m > last - (i - 1) /\ m <= last
      BY <2>3
    <2>5. \A m \in Nat : m # last - (i - 1) => (m \in g[(i - 1) + 1] <=> m \in g[i - 1])
      BY <1>4, <2>3
    <2>6. g[i] \in SUBSET Nat
      <3>1. i \in Nat
        BY <2>1
      <3> HIDE DEF Off
      <3> QED
        BY <1>3, <3>1
    <2> QED
      BY <2>1, <2>3, <2>4, <2>5, <2>6
  <1>6. ASSUME NEW i \in 0..last + 1 PROVE \A m \in Nat : m > last - i => (m \in g[last + 1] <=> m \in g[i])
    <2> DEFINE Off == {j \in i..last + 1 : ~\A m \in Nat : m > last - i => (m \in g[j] <=> m \in g[i])}
    <2>1. Off = {}
      <3> SUFFICES ASSUME Off # {} PROVE FALSE
        OBVIOUS
      <3>1. PICK j \in Off : \A k \in Off : j <= k
        BY LeastOf, Off \in SUBSET Nat
      <3>2. j # i
        BY <3>1
      <3>3. j - 1 \in 0..last /\ j - 1 \in i..last + 1 /\ (j - 1) + 1 = j /\ j - 1 \notin Off
        BY <3>1, <3>2
      <3>4. \A m \in Nat : m > last - i => (m \in g[j - 1] <=> m \in g[i])
        BY <3>3
      <3>5. \A m \in Nat : m # last - (j - 1) => (m \in g[j] <=> m \in g[j - 1])
        BY <1>4, <3>3
      <3>6. j \in Nat /\ j - 1 >= i /\ i \in Nat
        BY <3>3
      <3>7. \A m \in Nat : m > last - i => m # last - (j - 1)
        BY <3>6
      <3>8. \A m \in Nat : m > last - i => (m \in g[j] <=> m \in g[i])
        BY <3>4, <3>5, <3>7, Zenon
      <3> QED
        BY <3>1, <3>8, Zenon
    <2> QED
      BY <2>1
  <1> DEFINE T == {n \in 0..last : n \in g[last + 1]}
  <1>7. ASSUME NEW n \in 0..last PROVE n \in T <=> next[n][{m \in T : m > n}]
    <2> DEFINE i == last - n
    <2>1. i \in 0..last /\ i + 1 \in 0..last + 1 /\ last - i = n /\ i \in Nat
      OBVIOUS
    <2>2. {m \in T : m > n} = g[i]
      <3>1. \A m \in Nat : m > n => (m \in g[last + 1] <=> m \in g[i])
        BY <1>6, <2>1
      <3>2. \A m \in g[i] : m \in Nat /\ m > n /\ m <= last
        BY <1>3, <1>5, <2>1
      <3> HIDE DEF i
      <3> QED
        BY <3>1, <3>2
    <2>3. n \in g[last + 1] <=> n \in g[i + 1]
      BY <1>6, <2>1
    <2>4. n \notin g[i]
      <3>1. \A m \in g[i] : m > last - i
        BY <1>5, <2>1
      <3> HIDE DEF i
      <3> QED
        BY <2>1, <3>1
    <2>5. n \in g[i + 1] <=> next[n][g[i]]
      BY <1>4, <2>1, <2>4
    <2> HIDE DEF i
    <2> QED
      BY <2>2, <2>3, <2>5
  <1>8. T \in SUBSET (0..last)
    OBVIOUS
  <1> HIDE DEF T
  <1> QED
    BY <1>7, <1>8

-----------------------------------------------------------------------------
(* check-comment-length.py. *)

LEMMA CommentsCardinality == ASSUME NEW S PROVE Comments!Cardinality(S) = Cardinality(S)
  BY DEF Comments!Cardinality, Cardinality

\* A set moved along the numbers: as many elements, and its least one moved as far.
LeastIn(S) == CHOOSE k \in S : \A m \in S : k <= m

LEMMA MovedAlong ==
    ASSUME NEW i \in Nat \ {0}, NEW n \in Nat, NEW A \in SUBSET (1..n), NEW B, B = {i + k - 1 : k \in A}
    PROVE  /\ IsFiniteSet(A) /\ Cardinality(A) = Cardinality(B)
           /\ A # {} => LeastIn(A) \in A /\ LeastIn(B) = i + LeastIn(A) - 1
  <1> DEFINE f == [k \in A |-> i + k - 1]
             first == LeastIn(A)
  <1>1. IsFiniteSet(A)
    <2>1. IsFiniteSet(1..n)
      BY FS_Interval
    <2> QED
      BY <2>1, FS_Subset
  <1>2. f \in Bijection(A, B)
    <2>1. f \in [A -> B]
      OBVIOUS
    <2>2. \A a, b \in A : f[a] = f[b] => a = b
      OBVIOUS
    <2>3. \A m \in B : \E k \in A : f[k] = m
      OBVIOUS
    <2> HIDE DEF f
    <2> QED
      BY <2>1, <2>2, <2>3 DEF Bijection, Injection, Surjection, IsInjective
  <1>3. Cardinality(A) = Cardinality(B)
    <2> HIDE DEF f
    <2>1. ExistsBijection(A, B)
      BY <1>2 DEF ExistsBijection
    <2> QED
      BY <1>1, <2>1, FS_Bijection
  <1>4. ASSUME A # {} PROVE first \in A /\ LeastIn(B) = i + first - 1
    <2>1. A \in SUBSET Nat
      OBVIOUS
    <2>2. \E k \in A : \A m \in A : k <= m
      BY <1>4, <2>1, LeastOf
    <2>3. first \in A /\ \A m \in A : first <= m
      BY <2>2 DEF LeastIn
    <2> HIDE DEF first
    <2>4. i + first - 1 \in B /\ \A m \in B : m \in Int /\ i + first - 1 <= m
      BY <2>3
    <2> QED
      BY <2>3, <2>4 DEF LeastIn
  <1> QED
    BY <1>1, <1>3, <1>4

\* The lines from i to j are short if their texts, taken as one block, are.
LEMMA ShortEnough ==
    ASSUME NEW lines, NEW i \in Nat \ {0}, NEW j \in Nat, i <= j,
           input.limits.plain \in Nat, input.limits.critical \in Nat,
           ~Comments!TooLong(Comments!Texts(lines, i, j), input.limits)
    PROVE  Short(lines, i, j)
  <1> DEFINE Says(k) == lines[k].text # ""
             body == Comments!Texts(lines, i, j)
             content == {k \in DOMAIN body : body[k] # ""}
             counted == Counted(lines, i, j)
             first == LeastIn(content)
             head == LeastIn(counted)
             n == j - i + 1
  <1>1. DOMAIN body = 1..n /\ \A k \in 1..n : body[k] = lines[i + k - 1].text
    BY DEF Comments!Texts
  <1>2. content = {k \in 1..n : Says(i + k - 1)}
    BY <1>1
  <1>3. counted = {k \in i..j : Says(k)}
    BY DEF Counted
  <1>4. n \in Nat
    OBVIOUS
  <1> SUFFICES ASSUME counted # {}
               PROVE  Cardinality(counted) <=
                         IF lines[head].text = "CRITICAL:" THEN input.limits.critical ELSE input.limits.plain
    BY DEF Short, LeastIn
  <1>5. ~(content # {} /\ Cardinality(content) > Comments!Allowed(body[first], input.limits))
    BY CommentsCardinality DEF Comments!TooLong, LeastIn
  <1>6. ASSUME NEW first_ \in 1..n, NEW head_, head_ = i + first_ - 1 PROVE body[first_] = lines[head_].text
    BY <1>1, <1>6
  <1> HIDE DEF body, content, counted, Says
  <1>7. counted = {i + k - 1 : k \in content}
    <2>1. \A m \in i..j : m - i + 1 \in 1..n /\ i + (m - i + 1) - 1 = m
      OBVIOUS
    <2>2. \A k \in 1..n : i + k - 1 \in i..j
      OBVIOUS
    <2> HIDE DEF n
    <2> QED
      BY <1>2, <1>3, <2>1, <2>2
  <1> HIDE DEF n
  <1>8. content \in SUBSET (1..n)
    BY <1>2
  <1>9. content # {}
    BY <1>7
  <1>10. /\ IsFiniteSet(content) /\ Cardinality(content) = Cardinality(counted)
         /\ first \in content /\ head = i + first - 1
    <2>1. i \in Nat \ {0} /\ n \in Nat
      BY <1>4
    <2> HIDE DEF first, head
    <2>2. \A B : B = {i + k - 1 : k \in content} =>
              /\ IsFiniteSet(content) /\ Cardinality(content) = Cardinality(B)
              /\ content # {} => LeastIn(content) \in content /\ LeastIn(B) = i + LeastIn(content) - 1
      BY <1>8, <2>1, MovedAlong
    <2>3. /\ IsFiniteSet(content) /\ Cardinality(content) = Cardinality(counted)
          /\ LeastIn(content) \in content /\ LeastIn(counted) = i + LeastIn(content) - 1
      BY <1>7, <1>9, <2>2
    <2> QED
      BY <2>3 DEF first, head
  <1>11. Cardinality(content) \in Nat
    BY <1>10, FS_CardinalityType
  <1> HIDE DEF first, head
  <1>12. body[first] = lines[head].text
    BY <1>6, <1>8, <1>10
  <1>13. Comments!Allowed(lines[head].text, input.limits) \in Nat
    BY DEF Comments!Allowed
  <1>14. Cardinality(counted) <= Comments!Allowed(lines[head].text, input.limits)
    BY <1>5, <1>9, <1>10, <1>11, <1>12, <1>13
  <1> QED
    BY <1>14 DEF Comments!Allowed

ScanStates(a, lines, directives, limits) ==
    /\ a[0] = Comments!Scanning(directives)
    /\ \A k \in 1..Len(lines) : a[k] = Comments!ScanLine(a[k - 1], lines[k], limits)
    /\ Comments!LineCommentFindings(lines, directives, limits) <=>
           a[Len(lines)].over \/ Comments!TooLong(a[Len(lines)].run, limits)

LEMMA ScanUnrolls ==
    ASSUME NEW lines, Len(lines) \in Nat, NEW directives \in BOOLEAN, NEW limits
    PROVE  \E a : ScanStates(a, lines, directives, limits)
  <1> DEFINE last == Len(lines)
             D == [run : Seq({lines[k].text : k \in 1..last}), preamble : BOOLEAN, beforeBody : BOOLEAN, over : BOOLEAN]
             Step(st, i) == IF i < last THEN Comments!ScanLine(st, lines[i + 1], limits) ELSE st
             next == [i \in Nat |-> [st \in D |-> Step(st, i)]]
  <1>1. Comments!Scanning(directives) \in D
    BY DEF Comments!Scanning
  <1>2. ASSUME NEW st \in D, NEW i \in Nat PROVE Step(st, i) \in D
    <2>1. CASE i < last
      <3>1. lines[i + 1].text \in {lines[k].text : k \in 1..last}
        <4>1. i + 1 \in 1..last
          BY <2>1
        <4> QED
          BY <4>1
      <3>2. Append(st.run, lines[i + 1].text) \in Seq({lines[k].text : k \in 1..last})
        BY <3>1
      <3>3. \A b : (st.over \/ b) \in BOOLEAN
        OBVIOUS
      <3>4. Comments!ScanLine(st, lines[i + 1], limits) \in D
        BY <3>2 DEF Comments!ScanLine
      <3> QED
        BY <2>1, <3>4
    <2>2. CASE ~(i < last)
      BY <2>2
    <2> QED
      BY <2>1, <2>2
  <1>3. next \in [Nat -> [D -> D]]
    <2> HIDE DEF Step, D
    <2> QED
      BY <1>2
  <1>4. PICK f : Iterates(f, D, Comments!Scanning(directives), next)
    <2> HIDE DEF D, next
    <2> QED
      BY <1>1, <1>3, RecursionExists
  <1> HIDE DEF D
  <1>5. f[0] = Comments!Scanning(directives) /\ \A i \in Nat : f[i] \in D /\ f[i + 1] = Step(f[i], i)
    <2> HIDE DEF Step
    <2> QED
      BY <1>4 DEF Iterates
  <1> HIDE DEF next
  <1> DEFINE Body(g, k) == IF k = 0 THEN Comments!Scanning(directives) ELSE Comments!ScanLine(g[k - 1], lines[k], limits)
             h == [k \in 0..last |-> f[k]]
  <1>6. h = [k \in 0..last |-> Body(h, k)]
    <2>1. ASSUME NEW k \in 0..last PROVE f[k] = Body(h, k)
      <3>1. CASE k # 0
        <4>1. k - 1 \in Nat /\ k - 1 \in 0..last /\ (k - 1) + 1 = k /\ k - 1 < last
          BY <3>1
        <4>2. f[(k - 1) + 1] = Step(f[k - 1], k - 1)
          <5> HIDE DEF Step
          <5> QED
            BY <1>5, <4>1
        <4>3. f[k] = Comments!ScanLine(f[k - 1], lines[k], limits)
          BY <4>1, <4>2
        <4>4. h[k - 1] = f[k - 1]
          BY <4>1
        <4> QED
          BY <3>1, <4>3, <4>4
      <3> QED
        BY <1>5, <3>1
    <2> HIDE DEF Body
    <2> QED
      BY <2>1
  <1> DEFINE g == CHOOSE x : x = [k \in 0..last |-> Body(x, k)]
  <1>7. g = [k \in 0..last |-> Body(g, k)]
    <2> HIDE DEF Body, h
    <2> QED
      BY <1>6
  <1>8. Comments!LineCommentFindings(lines, directives, limits) <=> g[last].over \/ Comments!TooLong(g[last].run, limits)
    BY Zenon DEF Comments!LineCommentFindings
  <1> HIDE DEF g
  <1>9. \A k \in 0..last : g[k] = Body(g, k)
    <2> HIDE DEF Body
    <2> QED
      BY <1>7
  <1>10. 0 \in 0..last /\ \A k \in 1..last : k \in 0..last /\ k # 0
    OBVIOUS
  <1>11. g[0] = Comments!Scanning(directives)
    BY <1>9, <1>10
  <1>12. \A k \in 1..last : g[k] = Comments!ScanLine(g[k - 1], lines[k], limits)
    BY <1>9, <1>10
  <1> QED
    BY <1>8, <1>11, <1>12 DEF ScanStates

\* What the gate takes for a comment, and the block it has gathered after each line.
LEMMA GatheredSoFar ==
    ASSUME NEW lines, Len(lines) \in Nat, NEW directives \in BOOLEAN, NEW limits,
           NEW a, ScanStates(a, lines, directives, limits)
    PROVE  \A k \in 0..Len(lines) :
               /\ a[k].preamble <=> InHead(lines, directives, k)
               /\ a[k].beforeBody <=> \A m \in 1..k : lines[m].shape \in {"blank", "tag"} \/ InHead(lines, directives, m)
               /\ InHead(lines, directives, k) => a[k].run = <<>>
               /\ a[k].run \in Seq({lines[m].text : m \in 1..Len(lines)})
  <1> DEFINE HeadAt(k) == InHead(lines, directives, k)
             Texts_ == {lines[m].text : m \in 1..Len(lines)}
             Good(k) == /\ a[k].preamble <=> HeadAt(k)
                        /\ a[k].beforeBody <=> \A m \in 1..k : lines[m].shape \in {"blank", "tag"} \/ HeadAt(m)
                        /\ HeadAt(k) => a[k].run = <<>>
                        /\ a[k].run \in Seq(Texts_)
             Off == {k \in 0..Len(lines) : ~Good(k)}
  <1>1. Good(0)
    <2>1. a[0].preamble = directives /\ a[0].beforeBody = TRUE /\ a[0].run = <<>>
      BY DEF ScanStates, Comments!Scanning
    <2>2. HeadAt(0) <=> directives
      BY DEF InHead
    <2> QED
      BY <2>1, <2>2
  <1>2. ASSUME NEW k \in 1..Len(lines), Good(k - 1) PROVE Good(k)
    <2> DEFINE line == lines[k]
               was == a[k - 1]
    <2>1. a[k] = Comments!ScanLine(was, line, limits)
      BY DEF ScanStates
    <2>2. HeadAt(k) <=> HeadAt(k - 1) /\ line.shape = "directive"
      <3>1. \A m : m \in 1..k <=> m \in 1..k - 1 \/ m = k
        OBVIOUS
      <3> QED
        BY <3>1 DEF InHead
    <2>3. /\ was.preamble <=> HeadAt(k - 1)
          /\ was.beforeBody <=> \A m \in 1..k - 1 : lines[m].shape \in {"blank", "tag"} \/ HeadAt(m)
          /\ HeadAt(k - 1) => was.run = <<>>
          /\ was.run \in Seq(Texts_)
      BY <1>2
    <2> HIDE DEF HeadAt, was
    <2>4. CASE HeadAt(k)
      <3>1. a[k] = was
        BY <2>1, <2>2, <2>3, <2>4 DEF Comments!ScanLine
      <3>2. \A m : m \in 1..k <=> m \in 1..k - 1 \/ m = k
        OBVIOUS
      <3>3. (\A m \in 1..k : lines[m].shape \in {"blank", "tag"} \/ HeadAt(m)) <=>
            (\A m \in 1..k - 1 : lines[m].shape \in {"blank", "tag"} \/ HeadAt(m))
        BY <2>4, <3>2
      <3> QED
        BY <2>2, <2>3, <2>4, <3>1, <3>3
    <2>5. CASE ~HeadAt(k)
      <3>1. ~(was.preamble /\ line.shape = "directive")
        BY <2>2, <2>3, <2>5
      <3>2. /\ a[k].preamble = FALSE
            /\ a[k].beforeBody = (was.beforeBody /\ line.shape \in {"blank", "tag"})
            /\ a[k].run = <<>> \/ a[k].run = Append(was.run, line.text)
        BY <2>1, <3>1 DEF Comments!ScanLine
      <3>3. \A m : m \in 1..k <=> m \in 1..k - 1 \/ m = k
        OBVIOUS
      <3>4. (\A m \in 1..k : lines[m].shape \in {"blank", "tag"} \/ HeadAt(m)) <=>
            (\A m \in 1..k - 1 : lines[m].shape \in {"blank", "tag"} \/ HeadAt(m)) /\ line.shape \in {"blank", "tag"}
        BY <2>5, <3>3
      <3>5. a[k].run \in Seq(Texts_)
        <4>1. line.text \in Texts_
          OBVIOUS
        <4> HIDE DEF Texts_, line
        <4>2. Append(was.run, line.text) \in Seq(Texts_)
          BY <2>3, <4>1
        <4>3. <<>> \in Seq(Texts_)
          OBVIOUS
        <4> QED
          BY <3>2, <4>2, <4>3
      <3> QED
        BY <2>3, <2>5, <3>2, <3>4, <3>5
    <2> QED
      BY <2>4, <2>5
  <1>3. Off = {}
    <2> SUFFICES ASSUME Off # {} PROVE FALSE
      OBVIOUS
    <2>1. PICK k \in Off : \A m \in Off : k <= m
      <3> HIDE DEF Good
      <3>1. Off \in SUBSET Nat
        OBVIOUS
      <3> QED
        BY <3>1, LeastOf
    <2> HIDE DEF Good
    <2>2. k \in 0..Len(lines) /\ ~Good(k) /\ k # 0
      BY <1>1, <2>1
    <2>3. k \in 1..Len(lines) /\ k - 1 \in 0..Len(lines) /\ ~(k <= k - 1)
      BY <2>2
    <2>4. Good(k - 1)
      BY <2>1, <2>3
    <2> QED
      BY <1>2, <2>2, <2>3, <2>4
  <1>4. \A k \in 0..Len(lines) : Good(k)
    <2> HIDE DEF Good
    <2> QED
      BY <1>3
  <1> QED
    BY <1>4

LEMMA EmptyIsShort == ASSUME NEW limits PROVE ~Comments!TooLong(<<>>, limits)
  <1>1. DOMAIN <<>> = {}
    OBVIOUS
  <1> QED
    BY <1>1 DEF Comments!TooLong

LEMMA BlockGathers ==
    ASSUME NEW lines, Len(lines) \in Nat, NEW directives \in BOOLEAN, NEW limits,
           NEW a, ScanStates(a, lines, directives, limits), NEW k \in 1..Len(lines)
    PROVE  /\ a[k].run = IF IsComment(lines, directives, k) THEN Append(a[k - 1].run, lines[k].text) ELSE <<>>
           /\ a[k].over <=> a[k - 1].over \/ (~IsComment(lines, directives, k) /\ Comments!TooLong(a[k - 1].run, limits))
  <1> DEFINE HeadAt(m) == InHead(lines, directives, m)
             line == lines[k]
             was == a[k - 1]
             is == IsComment(lines, directives, k)
  <1>1. a[k] = Comments!ScanLine(was, line, limits)
    BY DEF ScanStates
  <1>2. k - 1 \in 0..Len(lines)
    OBVIOUS
  <1>3. /\ was.preamble <=> HeadAt(k - 1)
        /\ was.beforeBody <=> \A m \in 1..k - 1 : lines[m].shape \in {"blank", "tag"} \/ HeadAt(m)
        /\ HeadAt(k - 1) => was.run = <<>>
    BY <1>2, GatheredSoFar
  <1>4. HeadAt(k) <=> HeadAt(k - 1) /\ line.shape = "directive"
    <2>1. \A m : m \in 1..k <=> m \in 1..k - 1 \/ m = k
      OBVIOUS
    <2> QED
      BY <2>1 DEF InHead
  <1>5. is <=> \/ line.shape = "comment"
               \/ line.shape = "directive" /\ ~HeadAt(k)
               \/ line.shape = "shebang" /\ ~was.beforeBody
    <2>1. was.beforeBody <=> ~\E m \in 1..k - 1 : lines[m].shape \notin {"blank", "tag"} /\ ~HeadAt(m)
      BY <1>3
    <2> QED
      BY <2>1 DEF IsComment
  <1> HIDE DEF HeadAt, was, is, line
  <1>6. CASE HeadAt(k)
    <2>1. line.shape = "directive" /\ ~is /\ was.run = <<>> /\ was.preamble
      BY <1>3, <1>4, <1>5, <1>6
    <2>2. a[k] = was
      BY <1>1, <2>1 DEF Comments!ScanLine
    <2>3. ~Comments!TooLong(was.run, limits)
      BY <2>1, EmptyIsShort
    <2> QED
      BY <2>1, <2>2, <2>3 DEF was, is
  <1>7. CASE ~HeadAt(k)
    <2>1. ~(was.preamble /\ line.shape = "directive")
      BY <1>3, <1>4, <1>7
    <2>2. is <=> line.shape \in {"comment", "directive"} \/ (line.shape = "shebang" /\ ~was.beforeBody)
      BY <1>5, <1>7
    <2> DEFINE c == line.shape \in {"comment", "directive"} \/ (line.shape = "shebang" /\ ~was.beforeBody)
    <2>3. /\ a[k].run = IF c THEN Append(was.run, line.text) ELSE <<>>
          /\ a[k].over = (was.over \/ (~c /\ Comments!TooLong(was.run, limits)))
      BY <1>1, <2>1 DEF Comments!ScanLine
    <2> HIDE DEF c
    <2>4. is <=> c
      BY <2>2 DEF c
    <2> QED
      BY <2>3, <2>4 DEF was, is, line
  <1> QED
    BY <1>6, <1>7

IsRun(lines, directives, i, j) ==
    /\ \A k \in i..j : IsComment(lines, directives, k)
    /\ i = 1 \/ ~IsComment(lines, directives, i - 1)
    /\ j = Len(lines) \/ ~IsComment(lines, directives, j + 1)

\* Each run of comment lines is one block of the scan.
LEMMA RunsAreFound ==
    ASSUME NEW lines, Len(lines) \in Nat, NEW directives \in BOOLEAN,
           input.limits.plain \in Nat, input.limits.critical \in Nat,
           ~Comments!LineCommentFindings(lines, directives, input.limits),
           NEW i \in 1..Len(lines), NEW j \in i..Len(lines), IsRun(lines, directives, i, j)
    PROVE  Short(lines, i, j)
  <1> DEFINE limits == input.limits
             last == Len(lines)
             Is(k) == IsComment(lines, directives, k)
             BlockAt(k) == Comments!Texts(lines, i, k)
  <1>1. PICK a : ScanStates(a, lines, directives, limits)
    BY ScanUnrolls
  <1>2. \A k \in 1..last : /\ a[k].run = IF Is(k) THEN Append(a[k - 1].run, lines[k].text) ELSE <<>>
                           /\ a[k].over <=> a[k - 1].over \/ (~Is(k) /\ Comments!TooLong(a[k - 1].run, limits))
    BY <1>1, BlockGathers
  <1>3. ~(a[last].over \/ Comments!TooLong(a[last].run, limits))
    BY <1>1 DEF ScanStates
  <1>4. a[i - 1].run = <<>>
    <2>1. CASE i = 1
      BY <1>1, <2>1 DEF ScanStates, Comments!Scanning
    <2>2. CASE i # 1
      <3>1. i - 1 \in 1..last
        BY <2>2
      <3>2. ~Is(i - 1)
        BY <2>2 DEF IsRun
      <3> HIDE DEF Is
      <3> QED
        BY <1>2, <3>1, <3>2
    <2> QED
      BY <2>1, <2>2
  <1> HIDE DEF Is, limits
  <1>5. \A k \in i..j : Is(k)
    BY DEF Is, IsRun
  <1>6. BlockAt(i - 1) = <<>> /\ \A k \in i..j : BlockAt(k) = Append(BlockAt(k - 1), lines[k].text)
    <2>1. BlockAt(i - 1) = <<>>
      <3>1. 1..(i - 1) - i + 1 = {}
        OBVIOUS
      <3> QED
        BY <3>1 DEF Comments!Texts
    <2>2. ASSUME NEW k \in i..j PROVE BlockAt(k) = Append(BlockAt(k - 1), lines[k].text)
      <3> DEFINE n == k - i
                 T == {lines[m].text : m \in 1..last}
                 s == BlockAt(k - 1)
                 t == BlockAt(k)
      <3>1. n \in Nat /\ k - i + 1 = n + 1 /\ (k - 1) - i + 1 = n /\ i + (n + 1) - 1 = k
        OBVIOUS
      <3>2. s = [m \in 1..n |-> lines[i + m - 1].text] /\ t = [m \in 1..n + 1 |-> lines[i + m - 1].text]
        BY <3>1 DEF Comments!Texts
      <3>3. \A m \in 1..n + 1 : lines[i + m - 1].text \in T
        <4>1. \A m \in 1..n + 1 : i + m - 1 \in 1..last
          OBVIOUS
        <4> QED
          BY <4>1
      <3>4. \A m \in 1..n : m \in 1..n + 1
        BY <3>1
      <3> HIDE DEF T, n
      <3>5. s \in Seq(T) /\ t \in Seq(T) /\ Len(s) = n /\ Len(t) = n + 1
        <4>1. s \in [1..n -> T] /\ t \in [1..n + 1 -> T]
          BY <3>2, <3>3, <3>4
        <4> HIDE DEF s, t
        <4> QED
          BY <3>1, <4>1
      <3>6. t[n + 1] = lines[k].text /\ \A m \in 1..n : t[m] = s[m]
        <4>1. n + 1 \in 1..n + 1
          BY <3>1
        <4> HIDE DEF s, t
        <4> QED
          BY <3>1, <3>2, <3>4, <4>1
      <3>7. lines[k].text \in T
        BY DEF T
      <3> HIDE DEF s, t
      <3>8. t = Append(s, lines[k].text)
        <4> DEFINE e == lines[k].text
                   u == Append(s, e)
        <4> HIDE DEF e
        <4>1. e \in T
          BY <3>7 DEF e
        <4>2. u \in Seq(T) /\ Len(u) = n + 1 /\ u[n + 1] = e /\ \A m \in 1..n : u[m] = s[m]
          BY <3>1, <3>5, <4>1
        <4> HIDE DEF u
        <4>3. \A m \in 1..n + 1 : m = n + 1 \/ m \in 1..n
          BY <3>1
        <4>4. \A m \in 1..n + 1 : u[m] = t[m]
          BY <3>6, <4>2, <4>3 DEF e
        <4>5. u = t
          BY <3>5, <4>2, <4>4
        <4> QED
          BY <4>5 DEF u, e
      <3> QED
        BY <3>8 DEF s, t
    <2> QED
      BY <2>1, <2>2
  <1> HIDE DEF BlockAt
  <1>7. \A k \in i - 1..j : a[k].run = BlockAt(k)
    <2> DEFINE Off == {k \in i - 1..j : a[k].run # BlockAt(k)}
    <2>1. Off = {}
      <3> SUFFICES ASSUME Off # {} PROVE FALSE
        OBVIOUS
      <3>1. PICK k \in Off : \A m \in Off : k <= m
        BY LeastOf, Off \in SUBSET Nat
      <3>2. k # i - 1
        BY <1>4, <1>6, <3>1
      <3>3. k \in i..j /\ k - 1 \in i - 1..j /\ k \in 1..last /\ ~(k <= k - 1)
        BY <3>1, <3>2
      <3>4. a[k - 1].run = BlockAt(k - 1)
        BY <3>1, <3>3
      <3> QED
        BY <1>2, <1>5, <1>6, <3>1, <3>3, <3>4
    <2> QED
      BY <2>1
  <1>8. ~Comments!TooLong(BlockAt(j), limits)
    <2>1. CASE j = last
      BY <1>3, <1>7, <2>1
    <2>2. CASE j # last
      <3>0. ~Is(j + 1)
        BY <2>2 DEF Is, IsRun
      <3>1. j + 1 \in 1..last /\ ~Is(j + 1) /\ (j + 1) - 1 = j
        BY <2>2, <3>0
      <3> SUFFICES ASSUME Comments!TooLong(BlockAt(j), limits) PROVE FALSE
        OBVIOUS
      <3>2. a[j + 1].over
        BY <1>2, <1>7, <3>1
      <3> DEFINE Off == {k \in j + 1..last : ~a[k].over}
      <3>3. last \in Off
        BY <1>3, <3>1
      <3>4. PICK k \in Off : \A m \in Off : k <= m
        BY <3>3, LeastOf, Off \in SUBSET Nat
      <3>5. k - 1 \in j + 1..last /\ k \in 1..last /\ ~(k <= k - 1)
        BY <3>1, <3>2, <3>4
      <3>6. a[k - 1].over
        BY <3>4, <3>5
      <3> QED
        BY <1>2, <3>4, <3>5, <3>6
    <2> QED
      BY <2>1, <2>2
  <1>9. i \in Nat \ {0} /\ j \in Nat /\ i <= j
    OBVIOUS
  <1> QED
    BY <1>8, <1>9, ShortEnough DEF BlockAt, limits

BlocksFrom(T, lines, d, limits) ==
    /\ Len(lines) + 1 \notin T
    /\ \A s \in 1..Len(lines) :
           s \in T <=> IF d \notin lines[s].opens \/ Comments!Closers(lines, s, d) = {} THEN s + 1 \in T
                       ELSE \E e \in Comments!Closers(lines, s, d) :
                               Comments!TooLong(Comments!Texts(lines, s, e), limits) \/ e + 1 \in T
    /\ Comments!BlockCommentFindings(lines, d, limits) <=> 1 \in T

LEMMA BlocksUnroll ==
    ASSUME NEW lines, Len(lines) \in Nat, NEW d, NEW limits
    PROVE  \E T : BlocksFrom(T, lines, d, limits)
  <1> DEFINE last == Len(lines)
             OpensAt(s) == ~(d \notin lines[s].opens \/ Comments!Closers(lines, s, d) = {})
             Long(s, e) == Comments!TooLong(Comments!Texts(lines, s, e), limits)
             EndsAt(s) == Comments!Closers(lines, s, d)
             Now(s, A) == s \in 1..last /\ IF ~OpensAt(s) THEN s + 1 \in A ELSE \E e \in EndsAt(s) : Long(s, e) \/ e + 1 \in A
             next == [s \in 0..last + 1 |-> [A \in SUBSET Nat |-> Now(s, A)]]
  <1>1. \A s \in 1..last : \A e \in EndsAt(s) : e \in s..last
    BY DEF Comments!Closers
  <1>2. last + 1 \in Nat /\ next \in [0..last + 1 -> [SUBSET Nat -> BOOLEAN]]
    <2>1. \A s, A : Now(s, A) \in BOOLEAN
      OBVIOUS
    <2> HIDE DEF Now
    <2> QED
      BY <2>1
  <1> HIDE DEF EndsAt, Long, OpensAt
  <1>3. PICK T \in SUBSET (0..last + 1) : \A s \in 0..last + 1 : s \in T <=> next[s][{m \in T : m > s}]
    <2> HIDE DEF next
    <2> QED
      BY <1>2, DescentExists
  <1>4. \A s \in 0..last + 1 : s \in T <=> Now(s, {m \in T : m > s})
    <2> HIDE DEF Now
    <2>1. \A s \in 0..last + 1 : {m \in T : m > s} \in SUBSET Nat
      <3>1. T \in SUBSET (0..last + 1)
        OBVIOUS
      <3>2. T \in SUBSET Nat
        BY <3>1
      <3> QED
        BY <3>2
    <2> QED
      BY <1>3, <2>1
  <1>5. last + 1 \notin T
    BY <1>4
  <1>6. \A s \in 1..last : s \in T <=> IF ~OpensAt(s) THEN s + 1 \in T ELSE \E e \in EndsAt(s) : Long(s, e) \/ e + 1 \in T
    <2> SUFFICES ASSUME NEW s \in 1..last
                 PROVE  s \in T <=> IF ~OpensAt(s) THEN s + 1 \in T ELSE \E e \in EndsAt(s) : Long(s, e) \/ e + 1 \in T
      OBVIOUS
    <2> DEFINE A == {m \in T : m > s}
    <2>1. s \in T <=> Now(s, A)
      BY <1>4
    <2>2. s + 1 \in A <=> s + 1 \in T
      OBVIOUS
    <2>3. \A e \in EndsAt(s) : e + 1 \in A <=> e + 1 \in T
      BY <1>1
    <2> HIDE DEF A
    <2> QED
      BY <2>1, <2>2, <2>3
  <1> HIDE DEF next, Now
  <1> DEFINE Body(g, s) == IF s > last THEN FALSE
                           ELSE IF d \notin lines[s].opens \/ Comments!Closers(lines, s, d) = {} THEN g[s + 1]
                           ELSE \E e \in Comments!Closers(lines, s, d) :
                                   Comments!TooLong(Comments!Texts(lines, s, e), limits) \/ g[e + 1]
             h == [s \in 1..last + 1 |-> s \in T]
             g == CHOOSE x : x = [s \in 1..last + 1 |-> Body(x, s)]
  <1>7. h = [s \in 1..last + 1 |-> Body(h, s)]
    <2>1. ASSUME NEW s \in 1..last + 1 PROVE (s \in T) = Body(h, s)
      <3>1. CASE s = last + 1
        <4>1. s > last /\ s \notin T
          BY <1>5, <3>1
        <4>2. Body(h, s) = FALSE
          BY <4>1
        <4> HIDE DEF Body, h
        <4>3. (s \in T) = FALSE
          BY <4>1
        <4> QED
          BY <4>2, <4>3, Zenon
      <3>2. CASE s # last + 1
        <4>1. s \in 1..last /\ ~(s > last) /\ s + 1 \in 1..last + 1 /\ h[s + 1] = (s + 1 \in T)
          BY <3>2
        <4>2. \A e \in EndsAt(s) : h[e + 1] = (e + 1 \in T)
          <5>1. \A e \in EndsAt(s) : e + 1 \in 1..last + 1
            BY <1>1, <4>1
          <5> QED
            BY <5>1
        <4> HIDE DEF h
        <4>3. Body(h, s) <=> IF ~OpensAt(s) THEN s + 1 \in T ELSE \E e \in EndsAt(s) : Long(s, e) \/ e + 1 \in T
          BY <4>1, <4>2 DEF OpensAt, EndsAt, Long
        <4>4. Body(h, s) \in BOOLEAN
          <5>1. h[s + 1] \in BOOLEAN
            BY <4>1
          <5> QED
            BY <4>1, <5>1
        <4> HIDE DEF Body
        <4> QED
          BY <1>6, <4>1, <4>3, <4>4
      <3> QED
        BY <3>1, <3>2
    <2> HIDE DEF Body
    <2> QED
      BY <2>1
  <1>8. g = [s \in 1..last + 1 |-> Body(g, s)]
    <2> HIDE DEF Body, h
    <2> QED
      BY <1>7
  <1>9. Comments!BlockCommentFindings(lines, d, limits) <=> g[1]
    BY Zenon DEF Comments!BlockCommentFindings
  <1> DEFINE U == {s \in 1..last + 1 : g[s]}
  <1> HIDE DEF g, h
  <1>10. \A s \in 1..last + 1 : g[s] = Body(g, s)
    <2> HIDE DEF Body
    <2> QED
      BY <1>8
  <1>11. last + 1 \notin U
    <2>1. last + 1 \in 1..last + 1 /\ last + 1 > last
      OBVIOUS
    <2>2. g[last + 1] = Body(g, last + 1)
      <3> HIDE DEF Body
      <3> QED
        BY <1>10, <2>1
    <2>3. Body(g, last + 1) = FALSE
      BY <2>1
    <2> HIDE DEF Body
    <2> QED
      BY <2>2, <2>3
  <1>12. \A s \in 1..last : s \in U <=> IF ~OpensAt(s) THEN s + 1 \in U ELSE \E e \in EndsAt(s) : Long(s, e) \/ e + 1 \in U
    <2> SUFFICES ASSUME NEW s \in 1..last
                 PROVE  s \in U <=> IF ~OpensAt(s) THEN s + 1 \in U ELSE \E e \in EndsAt(s) : Long(s, e) \/ e + 1 \in U
      OBVIOUS
    <2>1. s \in 1..last + 1 /\ s + 1 \in 1..last + 1 /\ ~(s > last) /\ \A e \in EndsAt(s) : e + 1 \in 1..last + 1
      BY <1>1
    <2>2. g[s] = Body(g, s)
      <3> HIDE DEF Body
      <3> QED
        BY <1>10, <2>1
    <2> QED
      BY <2>1, <2>2 DEF OpensAt, EndsAt, Long
  <1>13. 1 \in U <=> g[1]
    OBVIOUS
  <1> HIDE DEF U
  <1> QED
    BY <1>9, <1>11, <1>12, <1>13 DEF BlocksFrom, OpensAt, EndsAt, Long

LEMMA BlocksAreFound ==
    ASSUME NEW lines, Len(lines) \in Nat, NEW d,
           input.limits.plain \in Nat, input.limits.critical \in Nat,
           ~Comments!BlockCommentFindings(lines, d, input.limits),
           NEW i \in 1..Len(lines), NEW j \in i..Len(lines),
           d \in lines[i].opens, d \in lines[j].closes,
           \A k \in i + 1..j : d \notin lines[k].opens /\ d \notin lines[k - 1].closes
    PROVE  Short(lines, i, j)
  <1> DEFINE last == Len(lines)
             limits == input.limits
  <1>1. PICK T : BlocksFrom(T, lines, d, limits)
    BY BlocksUnroll
  <1>2. /\ 1 \notin T
        /\ \A s \in 1..last : s \in T <=> IF d \notin lines[s].opens \/ Comments!Closers(lines, s, d) = {} THEN s + 1 \in T
                                         ELSE \E e \in Comments!Closers(lines, s, d) :
                                                 Comments!TooLong(Comments!Texts(lines, s, e), limits) \/ e + 1 \in T
    BY <1>1 DEF BlocksFrom
  <1>3. j \in Comments!Closers(lines, i, d)
    <2>1. \A k \in i..j - 1 : k + 1 \in i + 1..j /\ (k + 1) - 1 = k
      OBVIOUS
    <2>2. \A k \in i..j - 1 : d \notin lines[k].closes
      BY <2>1
    <2> QED
      BY <2>2 DEF Comments!Closers
  <1>4. \A s \in 1..last : \A e \in Comments!Closers(lines, s, d) : e \in s..last /\ (s < i => e < i)
    <2> SUFFICES ASSUME NEW s \in 1..last, NEW e \in Comments!Closers(lines, s, d)
                 PROVE  e \in s..last /\ (s < i => e < i)
      OBVIOUS
    <2>1. e \in s..last /\ \A k \in s + 1..e : d \notin lines[k].opens
      BY DEF Comments!Closers
    <2>2. s < i /\ i <= e => i \in s + 1..e
      BY <2>1
    <2> QED
      BY <2>1, <2>2
  <1>5. i \notin T
    <2> DEFINE Off == {m \in Nat : i - m \in 1..i /\ i - m \notin T}
    <2>1. i - 1 \in Off
      BY <1>2
    <2>2. PICK m \in Off : \A n \in Off : m <= n
      BY <2>1, LeastOf, Off \in SUBSET Nat
    <2>3. CASE m = 0
      BY <2>2, <2>3
    <2>4. CASE m # 0
      <3> DEFINE s == i - m
      <3>1. s \in 1..last /\ s < i /\ s \notin T
        BY <2>2, <2>4
      <3>2. \E t \in s + 1..i : t \notin T
        <4>1. CASE d \notin lines[s].opens \/ Comments!Closers(lines, s, d) = {}
          <5>1. s + 1 \notin T
            BY <1>2, <3>1, <4>1
          <5>2. s + 1 \in s + 1..i
            BY <3>1
          <5> QED
            BY <5>1, <5>2
        <4>2. CASE ~(d \notin lines[s].opens \/ Comments!Closers(lines, s, d) = {})
          <5>1. PICK e \in Comments!Closers(lines, s, d) : e + 1 \notin T
            BY <1>2, <3>1, <4>2
          <5>2. e + 1 \in s + 1..i
            BY <1>4, <3>1, <5>1
          <5> QED
            BY <5>1, <5>2
        <4> QED
          BY <4>1, <4>2
      <3>3. PICK t \in s + 1..i : t \notin T
        BY <3>2
      <3>4. i - t \in Off /\ ~(m <= i - t)
        BY <3>1, <3>3
      <3> QED
        BY <2>2, <3>4
    <2> QED
      BY <2>3, <2>4
  <1>6. ~Comments!TooLong(Comments!Texts(lines, i, j), limits)
    BY <1>2, <1>3, <1>5
  <1>7. i \in Nat \ {0} /\ j \in Nat /\ i <= j
    OBVIOUS
  <1> QED
    BY <1>6, <1>7, ShortEnough

\* The fence that is open, line by line.
Marks(line) == line.fence.char # ""

Fenced(open, lines) ==
    /\ open[0] = 0
    /\ \A k \in 1..Len(lines) :
           open[k] = IF lines[k].fence.char = "" THEN open[k - 1]
                     ELSE IF open[k - 1] = 0 THEN k
                     ELSE IF /\ lines[k].fence.char = lines[open[k - 1]].fence.char
                             /\ lines[k].fence.len >= lines[open[k - 1]].fence.len THEN 0
                     ELSE open[k - 1]

LEMMA FencesUnroll ==
    ASSUME NEW lines, Len(lines) \in Nat
    PROVE  Fenced(OpenFence(lines), lines)
  <1> DEFINE last == Len(lines)
             Turn(was, k) == LET f == lines[k].fence
                             IN  IF f.char = "" THEN was
                                 ELSE IF was = 0 THEN k
                                 ELSE IF f.char = lines[was].fence.char /\ f.len >= lines[was].fence.len THEN 0 ELSE was
             next == [i \in Nat |-> [was \in Nat |-> Turn(was, i + 1)]]
  <1>1. \A was \in Nat, i \in Nat : Turn(was, i + 1) \in Nat
    <2>1. \A was, k : Turn(was, k) \in {was, k, 0}
      BY Zenon
    <2> HIDE DEF Turn
    <2>2. \A i \in Nat : i + 1 \in Nat
      OBVIOUS
    <2> QED
      BY <2>1, <2>2
  <1>2. next \in [Nat -> [Nat -> Nat]]
    <2> HIDE DEF Turn
    <2> QED
      BY <1>1
  <1>3. PICK f : Iterates(f, Nat, 0, next)
    <2> HIDE DEF next
    <2> QED
      BY <1>2, RecursionExists
  <1> HIDE DEF Turn
  <1>4. f[0] = 0 /\ \A i \in Nat : f[i] \in Nat /\ f[i + 1] = Turn(f[i], i + 1)
    BY <1>3 DEF Iterates
  <1> HIDE DEF next
  <1> DEFINE Body(g, k) == IF k = 0 THEN 0 ELSE Turn(g[k - 1], k)
             h == [k \in 0..last |-> f[k]]
             g == CHOOSE x : x = [k \in 0..last |-> Body(x, k)]
  <1>5. h = [k \in 0..last |-> Body(h, k)]
    <2>1. ASSUME NEW k \in 0..last PROVE f[k] = Body(h, k)
      <3>1. CASE k # 0
        <4>1. k - 1 \in Nat /\ k - 1 \in 0..last /\ (k - 1) + 1 = k
          BY <3>1
        <4>2. f[(k - 1) + 1] = Turn(f[k - 1], (k - 1) + 1)
          BY <1>4, <4>1
        <4>3. f[k] = Turn(f[k - 1], k)
          BY <4>1, <4>2
        <4>4. h[k - 1] = f[k - 1]
          BY <4>1
        <4> QED
          BY <3>1, <4>3, <4>4
      <3> QED
        BY <1>4, <3>1
    <2> HIDE DEF Body
    <2> QED
      BY <2>1
  <1>6. g = [k \in 0..last |-> Body(g, k)]
    <2> HIDE DEF Body, h
    <2> QED
      BY <1>5
  <1>7. OpenFence(lines) = g
    BY Zenon DEF OpenFence, Turn
  <1> HIDE DEF g
  <1>8. \A k \in 0..last : g[k] = Body(g, k)
    <2> HIDE DEF Body
    <2> QED
      BY <1>6
  <1>9. 0 \in 0..last /\ \A k \in 1..last : k \in 0..last /\ k # 0
    OBVIOUS
  <1>10. g[0] = 0 /\ \A k \in 1..last : g[k] = Turn(g[k - 1], k)
    BY <1>8, <1>9
  <1> QED
    BY <1>7, <1>10 DEF Fenced, Turn

\* A fence that opens stays open up to its end, and is closed there.
LEMMA FenceStaysOpen ==
    ASSUME NEW lines, Len(lines) \in Nat, NEW open, Fenced(open, lines),
           NEW n \in 1..Len(lines), open[n] = n, Marks(lines[n])
    PROVE  LET end == Comments!FenceEnd(lines, n)
           IN  /\ end \in n + 1..Len(lines) + 1
               /\ \A k \in n..end - 1 : open[k] = n
               /\ end <= Len(lines) => open[end] = 0
  <1> DEFINE last == Len(lines)
             end == Comments!FenceEnd(lines, n)
             Closes(k) == Comments!ClosesFence(lines[k], lines[n])
             ends == {k \in n + 1..last : Closes(k)}
  <1>1. end = IF ends = {} THEN last + 1 ELSE CHOOSE k \in ends : \A j \in ends : k <= j
    BY DEF Comments!FenceEnd
  <1> HIDE DEF Closes, end
  <1>2. /\ end \in n + 1..last + 1
        /\ end <= last => Closes(end)
        /\ \A k \in n + 1..end - 1 : k \in 1..last /\ ~Closes(k)
    <2>1. CASE ends = {}
      <3>1. end = last + 1
        BY <1>1, <2>1
      <3> QED
        BY <2>1, <3>1
    <2>2. CASE ends # {}
      <3>1. \E k \in ends : \A j \in ends : k <= j
        BY <2>2, LeastOf, ends \in SUBSET Nat
      <3>2. end \in ends /\ \A j \in ends : end <= j
        BY <1>1, <2>2, <3>1
      <3> QED
        BY <3>2
    <2> QED
      BY <2>1, <2>2
  <1>3. \A k \in 1..last : Closes(k) <=> lines[k].fence.char = lines[n].fence.char /\ lines[k].fence.len >= lines[n].fence.len
    BY DEF Closes, Comments!ClosesFence
  <1>4. \A k \in n + 1..last : open[k - 1] = n => open[k] = IF Closes(k) THEN 0 ELSE n
    <2> SUFFICES ASSUME NEW k \in n + 1..last, open[k - 1] = n PROVE open[k] = IF Closes(k) THEN 0 ELSE n
      OBVIOUS
    <2>1. k \in 1..last /\ n # 0
      OBVIOUS
    <2>2. open[k] = IF lines[k].fence.char = "" THEN n
                    ELSE IF lines[k].fence.char = lines[n].fence.char /\ lines[k].fence.len >= lines[n].fence.len THEN 0
                    ELSE n
      BY <2>1, Zenon DEF Fenced, Marks
    <2>3. Closes(k) <=> lines[k].fence.char = lines[n].fence.char /\ lines[k].fence.len >= lines[n].fence.len
      BY <1>3, <2>1
    <2>4. CASE Closes(k)
      <3>1. lines[k].fence.char # ""
        BY <2>3, <2>4, Zenon DEF Marks
      <3> QED
        BY <2>2, <2>3, <2>4, <3>1, Zenon
    <2>5. CASE ~Closes(k)
      <3>1. open[k] = n
        BY <2>2, <2>3, <2>5, Zenon
      <3> QED
        BY <2>5, <3>1, Zenon
    <2> QED
      BY <2>4, <2>5, Zenon
  <1>5. \A k \in n..end - 1 : open[k] = n
    <2> DEFINE Off == {k \in n..end - 1 : open[k] # n}
    <2> SUFFICES ASSUME Off # {} PROVE FALSE
      OBVIOUS
    <2>1. PICK k \in Off : \A m \in Off : k <= m
      <3>1. Off \in SUBSET Nat
        BY <1>2
      <3> HIDE DEF Off
      <3> QED
        BY <3>1, LeastOf
    <2>2. k \in n..end - 1 /\ k # n
      BY <2>1
    <2>3. k \in n + 1..end - 1 /\ k \in n + 1..last /\ k - 1 \in n..end - 1 /\ ~(k <= k - 1)
      BY <1>2, <2>2
    <2>4. open[k - 1] = n
      BY <2>1, <2>3
    <2> QED
      BY <1>2, <1>4, <2>1, <2>3, <2>4
  <1>6. ASSUME end <= last PROVE open[end] = 0
    <2>1. end \in n + 1..last /\ end - 1 \in n..end - 1
      BY <1>2, <1>6
    <2> QED
      BY <1>2, <1>4, <1>5, <1>6, <2>1
  <1> QED
    BY <1>2, <1>5, <1>6 DEF end

\* What opens a fence.
LEMMA FenceOpens ==
    ASSUME NEW lines, Len(lines) \in Nat, NEW open, Fenced(open, lines)
    PROVE  /\ \A k \in 0..Len(lines) : open[k] \in 0..k
           /\ \A n \in 1..Len(lines) : open[n] = n <=> Marks(lines[n]) /\ open[n - 1] = 0
           /\ \A n \in 1..Len(lines) : ~Marks(lines[n]) => open[n] = open[n - 1]
  <1> DEFINE last == Len(lines)
             Mark(k) == Marks(lines[k])
  <1>1. open[0] = 0
    BY DEF Fenced
  <1>2. \A k \in 1..last : /\ ~Mark(k) => open[k] = open[k - 1]
                           /\ Mark(k) /\ open[k - 1] = 0 => open[k] = k
                           /\ Mark(k) /\ open[k - 1] # 0 => open[k] \in {0, open[k - 1]}
    BY DEF Fenced, Marks
  <1> HIDE DEF Mark
  <1>3. \A k \in 0..last : open[k] \in 0..k
    <2> DEFINE Off == {k \in 0..last : open[k] \notin 0..k}
    <2> SUFFICES ASSUME Off # {} PROVE FALSE
      OBVIOUS
    <2>1. PICK k \in Off : \A m \in Off : k <= m
      BY LeastOf, Off \in SUBSET Nat
    <2>2. k # 0
      BY <1>1, <2>1
    <2>3. k \in 1..last /\ k - 1 \in 0..last /\ ~(k <= k - 1)
      BY <2>1, <2>2
    <2>4. open[k - 1] \in 0..k - 1
      BY <2>1, <2>3
    <2>5. open[k] \in {0, k, open[k - 1]}
      BY <1>2, <2>3
    <2> QED
      BY <2>1, <2>3, <2>4, <2>5
  <1>4. \A n \in 1..last : open[n] = n <=> Mark(n) /\ open[n - 1] = 0
    <2> SUFFICES ASSUME NEW n \in 1..last PROVE open[n] = n <=> Mark(n) /\ open[n - 1] = 0
      OBVIOUS
    <2>1. open[n - 1] \in 0..n - 1
      BY <1>3
    <2> QED
      BY <1>2, <2>1
  <1> QED
    BY <1>2, <1>3, <1>4 DEF Mark

\* The findings in the fence that line n opens.
FencedBody(lines, n) == SubSeq(lines, n + 1, Comments!FenceEnd(lines, n) - 1)
FoundIn(lines, n, languages, limits) ==
    \E l \in languages :
        /\ l.name = lines[n].fence.lang
        /\ \/ l.markers /\ Comments!LineCommentFindings(FencedBody(lines, n), FALSE, limits)
           \/ \E d \in l.delimiters : Comments!BlockCommentFindings(FencedBody(lines, n), d, limits)
FencesFrom(T, lines, languages, limits) ==
    \A n \in 1..Len(lines) :
        n \in T <=> IF ~Marks(lines[n]) THEN n + 1 \in T
                    ELSE Comments!FenceEnd(lines, n) + 1 \in T \/ FoundIn(lines, n, languages, limits)

LEMMA EndIsBeyond ==
    ASSUME NEW lines, Len(lines) \in Nat, NEW n \in 1..Len(lines)
    PROVE  Comments!FenceEnd(lines, n) \in n + 1..Len(lines) + 1
  <1> DEFINE last == Len(lines)
             Closes(k) == Comments!ClosesFence(lines[k], lines[n])
             ends == {k \in n + 1..last : Closes(k)}
             end == Comments!FenceEnd(lines, n)
  <1>1. end = IF ends = {} THEN last + 1 ELSE CHOOSE k \in ends : \A j \in ends : k <= j
    BY DEF Comments!FenceEnd
  <1> HIDE DEF Closes, end
  <1>2. CASE ends = {}
    <2>1. end = last + 1
      BY <1>1, <1>2
    <2> QED
      BY <2>1 DEF end
  <1>3. CASE ends # {}
    <2>1. \E k \in ends : \A j \in ends : k <= j
      BY <1>3, LeastOf, ends \in SUBSET Nat
    <2>2. end \in ends
      BY <1>1, <1>3, <2>1
    <2> QED
      BY <2>2 DEF end
  <1> QED
    BY <1>2, <1>3

LEMMA FencesDescend ==
    ASSUME NEW lines, Len(lines) \in Nat, NEW languages, NEW limits,
           ~Comments!FencedFindings(lines, languages, limits)
    PROVE  \E T : FencesFrom(T, lines, languages, limits) /\ 1 \notin T
  <1> DEFINE last == Len(lines)
             Mark(n) == Marks(lines[n])
             End(n) == Comments!FenceEnd(lines, n)
             Found(n) == FoundIn(lines, n, languages, limits)
             Now(n, A) == n \in 1..last /\ IF ~Mark(n) THEN n + 1 \in A ELSE End(n) + 1 \in A \/ Found(n)
             next == [n \in 0..last + 2 |-> [A \in SUBSET Nat |-> Now(n, A)]]
  <1>1. \A n \in 1..last : End(n) \in n + 1..last + 1
    BY EndIsBeyond
  <1>2. last + 2 \in Nat /\ next \in [0..last + 2 -> [SUBSET Nat -> BOOLEAN]]
    <2>1. \A n, A : Now(n, A) \in BOOLEAN
      OBVIOUS
    <2> HIDE DEF Now
    <2> QED
      BY <2>1
  <1> HIDE DEF Mark, End, Found
  <1>3. PICK T \in SUBSET (0..last + 2) : \A n \in 0..last + 2 : n \in T <=> next[n][{m \in T : m > n}]
    <2> HIDE DEF next
    <2> QED
      BY <1>2, DescentExists
  <1>4. \A n \in 0..last + 2 : n \in T <=> Now(n, {m \in T : m > n})
    <2> HIDE DEF Now
    <2>1. \A n \in 0..last + 2 : {m \in T : m > n} \in SUBSET Nat
      <3>1. T \in SUBSET (0..last + 2)
        OBVIOUS
      <3>2. T \in SUBSET Nat
        BY <3>1
      <3> QED
        BY <3>2
    <2> QED
      BY <1>3, <2>1
  <1>5. last + 1 \notin T /\ last + 2 \notin T
    BY <1>4
  <1>6. \A n \in 1..last : n \in T <=> IF ~Mark(n) THEN n + 1 \in T ELSE End(n) + 1 \in T \/ Found(n)
    <2> SUFFICES ASSUME NEW n \in 1..last
                 PROVE  n \in T <=> IF ~Mark(n) THEN n + 1 \in T ELSE End(n) + 1 \in T \/ Found(n)
      OBVIOUS
    <2> DEFINE A == {m \in T : m > n}
    <2>1. n \in T <=> Now(n, A)
      BY <1>4
    <2>2. n + 1 \in A <=> n + 1 \in T
      OBVIOUS
    <2>3. End(n) + 1 \in A <=> End(n) + 1 \in T
      BY <1>1
    <2> HIDE DEF A
    <2> QED
      BY <2>1, <2>2, <2>3
  <1> HIDE DEF next, Now
  <1> DEFINE Step(g, n) == IF n > last THEN FALSE
                           ELSE IF lines[n].fence.char = "" THEN g[n + 1]
                           ELSE LET end == Comments!FenceEnd(lines, n)
                                    body == SubSeq(lines, n + 1, end - 1)
                                IN  \/ g[end + 1]
                                    \/ \E l \in languages :
                                           /\ l.name = lines[n].fence.lang
                                           /\ \/ l.markers /\ Comments!LineCommentFindings(body, FALSE, limits)
                                              \/ \E d \in l.delimiters : Comments!BlockCommentFindings(body, d, limits)
             Small(g, n) == IF n > last THEN FALSE ELSE IF ~Mark(n) THEN g[n + 1] ELSE g[End(n) + 1] \/ Found(n)
             h == [n \in 1..last + 2 |-> n \in T]
             g == CHOOSE x : x = [n \in 1..last + 2 |-> Step(x, n)]
  <1>7. \A x, n : Step(x, n) = Small(x, n)
    BY Zenon DEF Mark, Marks, End, Found, FoundIn, FencedBody
  <1> HIDE DEF Step
  <1>8. h = [n \in 1..last + 2 |-> Step(h, n)]
    <2>1. ASSUME NEW n \in 1..last + 2 PROVE (n \in T) = Small(h, n)
      <3>1. CASE n > last
        <4>1. n \notin T
          BY <1>5, <3>1
        <4>2. Small(h, n) = FALSE
          BY <3>1
        <4> HIDE DEF Small, h
        <4>3. (n \in T) = FALSE
          BY <4>1
        <4> QED
          BY <4>2, <4>3, Zenon
      <3>2. CASE ~(n > last)
        <4>1. n \in 1..last /\ n + 1 \in 1..last + 2 /\ h[n + 1] = (n + 1 \in T)
          BY <3>2
        <4>2. h[End(n) + 1] = (End(n) + 1 \in T)
          BY <1>1, <4>1
        <4> HIDE DEF h
        <4>3. Small(h, n) <=> IF ~Mark(n) THEN n + 1 \in T ELSE End(n) + 1 \in T \/ Found(n)
          BY <3>2, <4>1, <4>2
        <4>4. Small(h, n) \in BOOLEAN
          <5>1. h[n + 1] \in BOOLEAN
            BY <4>1
          <5> QED
            BY <3>2, <5>1
        <4> HIDE DEF Small
        <4> QED
          BY <1>6, <4>1, <4>3, <4>4
      <3> QED
        BY <3>1, <3>2
    <2> HIDE DEF Small
    <2> QED
      BY <1>7, <2>1
  <1>9. g = [n \in 1..last + 2 |-> Step(g, n)]
    <2> HIDE DEF h
    <2> QED
      BY <1>8
  <1>10. ~g[1]
    BY Zenon DEF Comments!FencedFindings, Step
  <1> HIDE DEF g, h
  <1>11. \A n \in 1..last + 2 : g[n] = Small(g, n)
    <2> HIDE DEF Small
    <2> QED
      BY <1>7, <1>9
  <1> DEFINE U == {n \in 1..last + 2 : g[n]}
  <1>12. \A n \in 1..last : n \in U <=> IF ~Mark(n) THEN n + 1 \in U ELSE End(n) + 1 \in U \/ Found(n)
    <2> SUFFICES ASSUME NEW n \in 1..last
                 PROVE  n \in U <=> IF ~Mark(n) THEN n + 1 \in U ELSE End(n) + 1 \in U \/ Found(n)
      OBVIOUS
    <2>1. n \in 1..last + 2 /\ n + 1 \in 1..last + 2 /\ ~(n > last) /\ End(n) + 1 \in 1..last + 2
      BY <1>1
    <2>2. g[n] = Small(g, n)
      <3> HIDE DEF Small
      <3> QED
        BY <1>11, <2>1
    <2> QED
      BY <2>1, <2>2
  <1>13. 1 \notin U
    BY <1>10
  <1> HIDE DEF U
  <1>14. FencesFrom(U, lines, languages, limits)
    BY <1>12 DEF FencesFrom, Mark, End, Found
  <1> QED
    BY <1>13, <1>14

LEMMA OpenFencesAreRead ==
    ASSUME NEW lines, Len(lines) \in Nat, NEW open, Fenced(open, lines), NEW languages, NEW limits,
           ~Comments!FencedFindings(lines, languages, limits),
           NEW n \in 1..Len(lines), open[n] = n
    PROVE  ~FoundIn(lines, n, languages, limits)
  <1> DEFINE last == Len(lines)
             Mark(k) == Marks(lines[k])
             End(k) == Comments!FenceEnd(lines, k)
             Found(k) == FoundIn(lines, k, languages, limits)
  <1>1. PICK T : FencesFrom(T, lines, languages, limits) /\ 1 \notin T
    BY FencesDescend
  <1>2. \A k \in 1..last : k \in T <=> IF ~Mark(k) THEN k + 1 \in T ELSE End(k) + 1 \in T \/ Found(k)
    BY <1>1 DEF FencesFrom
  <1>3. /\ open[0] = 0
        /\ \A k \in 0..last : open[k] \in 0..k
        /\ \A k \in 1..last : open[k] = k <=> Mark(k) /\ open[k - 1] = 0
        /\ \A k \in 1..last : ~Mark(k) => open[k] = open[k - 1]
    <2>1. open[0] = 0
      BY DEF Fenced
    <2> QED
      BY <2>1, FenceOpens
  <1>4. \A k \in 1..last : open[k] = k => /\ End(k) \in k + 1..last + 1
                                          /\ \A m \in k..End(k) - 1 : open[m] = k
                                          /\ End(k) <= last => open[End(k)] = 0
    <2> SUFFICES ASSUME NEW k \in 1..last, open[k] = k
                 PROVE  /\ End(k) \in k + 1..last + 1
                        /\ \A m \in k..End(k) - 1 : open[m] = k
                        /\ End(k) <= last => open[End(k)] = 0
      OBVIOUS
    <2>1. Mark(k)
      BY <1>3
    <2> QED
      BY <2>1, FenceStaysOpen
  <1> HIDE DEF Mark, End, Found
  <1> DEFINE Off == {m \in Nat : n - m \in 1..n /\ n - m \notin T /\ open[(n - m) - 1] = 0}
  <1>5. n \notin T
    <2>1. n - 1 \in Off
      <3>1. n - 1 \in Nat /\ n - (n - 1) = 1 /\ 1 \in 1..n /\ 1 - 1 = 0
        OBVIOUS
      <3> QED
        BY <1>1, <1>3, <3>1
    <2>2. PICK m \in Off : \A k \in Off : m <= k
      BY <2>1, LeastOf, Off \in SUBSET Nat
    <2>3. CASE m = 0
      BY <2>2, <2>3
    <2>4. CASE m # 0
      <3> DEFINE s == n - m
      <3>1. s \in 1..last /\ s < n /\ s \notin T /\ open[s - 1] = 0
        BY <2>2, <2>4
      <3>2. \E t \in s + 1..n : t \notin T /\ open[t - 1] = 0
        <4>1. CASE ~Mark(s)
          <5>1. s + 1 \in s + 1..n /\ (s + 1) - 1 = s
            BY <3>1
          <5>2. s + 1 \notin T /\ open[s] = 0
            BY <1>2, <1>3, <3>1, <4>1
          <5> QED
            BY <5>1, <5>2
        <4>2. CASE Mark(s)
          <5>1. open[s] = s
            BY <1>3, <3>1, <4>2
          <5>2. End(s) + 1 \notin T
            BY <1>2, <3>1, <4>2
          <5>3. /\ End(s) \in s + 1..last + 1
                /\ \A k \in s..End(s) - 1 : open[k] = s
                /\ End(s) <= last => open[End(s)] = 0
            BY <1>4, <3>1, <5>1
          <5>4. ~(n <= End(s) - 1)
            <6> SUFFICES ASSUME n <= End(s) - 1 PROVE FALSE
              OBVIOUS
            <6>1. n \in s..End(s) - 1
              BY <3>1, <5>3
            <6>2. open[n] = s
              BY <5>3, <6>1
            <6> QED
              BY <3>1, <6>2
          <5>5. n # End(s)
            BY <5>3
          <5>6. End(s) + 1 \in s + 1..n /\ (End(s) + 1) - 1 = End(s) /\ End(s) <= last
            BY <3>1, <5>3, <5>4, <5>5
          <5>7. open[(End(s) + 1) - 1] = 0
            BY <5>3, <5>6
          <5> QED
            BY <5>2, <5>6, <5>7
        <4> QED
          BY <4>1, <4>2
      <3>3. PICK t \in s + 1..n : t \notin T /\ open[t - 1] = 0
        BY <3>2
      <3>4. n - t \in Nat /\ n - (n - t) = t /\ t \in 1..n /\ ~(m <= n - t)
        BY <3>1, <3>3
      <3>5. n - t \in Off
        BY <3>3, <3>4
      <3> QED
        BY <2>2, <3>4, <3>5
    <2> QED
      BY <2>3, <2>4
  <1>6. Mark(n)
    BY <1>3
  <1>7. ~Found(n)
    BY <1>2, <1>5, <1>6
  <1> QED
    BY <1>7 DEF Found

\* A snippet is what stands between a fence and its end.
LEMMA SnippetIsBody ==
    ASSUME NEW lines, Sequenced(lines), NEW n \in 1..Len(lines)
    PROVE  /\ Len(Snippet(lines, n)) \in Nat
           /\ IF OpenFence(lines)[n] = n THEN Snippet(lines, n) = FencedBody(lines, n) ELSE Len(Snippet(lines, n)) = 0
  <1> DEFINE last == Len(lines)
             open == OpenFence(lines)
             end == Comments!FenceEnd(lines, n)
             inside == Inside(lines, n)
             s == Snippet(lines, n)
  <1>1. last \in Nat /\ lines \in Seq(Listed(lines)) /\ DOMAIN lines = 1..last
    BY DEF Sequenced
  <1>2. inside = IF open[n] # n THEN {} ELSE {k \in n + 1..last : \A m \in n..k : open[m] = n}
    BY DEF Inside
  <1>3. s = [k \in 1..Cardinality(inside) |-> lines[n + k]]
    BY DEF Snippet
  <1>4. CASE open[n] # n
    <2>1. Cardinality(inside) = 0
      BY <1>2, <1>4, FS_EmptySet
    <2>2. s = <<>>
      <3>1. 1..0 = {}
        OBVIOUS
      <3> QED
        BY <1>3, <2>1, <3>1
    <2> QED
      BY <1>4, <2>2
  <1>5. CASE open[n] = n
    <2>1. Fenced(open, lines)
      BY <1>1, FencesUnroll
    <2>2. Marks(lines[n])
      BY <1>1, <1>5, <2>1, FenceOpens
    <2>3. /\ end \in n + 1..last + 1
          /\ \A k \in n..end - 1 : open[k] = n
          /\ end <= last => open[end] = 0
      BY <1>1, <1>5, <2>1, <2>2, FenceStaysOpen
    <2> HIDE DEF end, open
    <2>4. inside = n + 1..end - 1
      <3>1. inside = {k \in n + 1..last : \A m \in n..k : open[m] = n}
        BY <1>2, <1>5
      <3>2. \A k \in n + 1..end - 1 : k \in n + 1..last /\ \A m \in n..k : m \in n..end - 1
        BY <2>3
      <3>3. ASSUME NEW k \in n + 1..last, \A m \in n..k : open[m] = n PROVE k \in n + 1..end - 1
        <4>1. CASE k < end
          BY <2>3, <4>1
        <4>2. CASE ~(k < end)
          <5>1. end \in n..k /\ end <= last
            BY <2>3, <4>2
          <5>2. open[end] = n
            BY <3>3, <5>1
          <5> QED
            BY <2>3, <5>1, <5>2
        <4> QED
          BY <4>1, <4>2
      <3> HIDE DEF inside
      <3> QED
        BY <2>3, <3>1, <3>2, <3>3
    <2> DEFINE size == (end - 1) - (n + 1) + 1
    <2>5. Cardinality(inside) = size /\ size \in Nat /\ size = (end - 1) - n
      <3>1. n + 1 \in Int /\ end - 1 \in Int /\ size \in Nat /\ size = (end - 1) - n
        BY <2>3
      <3>2. Cardinality(n + 1..end - 1) = IF n + 1 > end - 1 THEN 0 ELSE size
        BY <3>1, FS_Interval
      <3>3. n + 1 > end - 1 => size = 0
        BY <2>3
      <3> HIDE DEF inside, size
      <3> QED
        BY <2>4, <3>1, <3>2, <3>3
    <2> HIDE DEF inside
    <2> DEFINE body == SubSeq(lines, n + 1, end - 1)
               T == Listed(lines)
    <2>6. \A k \in 1..size : n + k \in 1..last
      BY <2>3, <2>5
    <2>7. s \in [1..size -> T]
      <3>1. \A k \in 1..size : lines[n + k] \in T
        BY <1>1, <2>6 DEF Listed
      <3> HIDE DEF T, size, s
      <3> QED
        BY <1>3, <2>5, <3>1
    <2>8. s \in Seq(T) /\ Len(s) = size
      <3> HIDE DEF T, size, s
      <3> QED
        BY <2>5, <2>7
    <2>9. body \in Seq(T) /\ Len(body) = size /\ \A k \in 1..size : body[k] = lines[n + k]
      <3>1. n + 1 \in 1..last + 1 /\ end - 1 \in n..last
        BY <2>3
      <3>2. lines \in Seq(T)
        BY <1>1
      <3> HIDE DEF T
      <3>3. body \in Seq(T) /\ Len(body) = size
        BY <2>3, <2>5, <3>1, <3>2
      <3>4. \A k \in 1..size : body[k] = lines[(n + 1) + k - 1] /\ (n + 1) + k - 1 = n + k
        BY <2>3, <2>5, <3>1, <3>2
      <3> QED
        BY <3>3, <3>4
    <2>10. \A k \in 1..size : s[k] = body[k]
      <3> HIDE DEF size, s, body
      <3> QED
        BY <1>3, <2>5, <2>9
    <2>11. s = body
      <3> HIDE DEF size, s, body, T
      <3> QED
        BY <2>8, <2>9, <2>10, SameSequence
    <2>12. Len(s) \in Nat
      <3> HIDE DEF size, s
      <3> QED
        BY <2>5, <2>8
    <2> QED
      BY <1>5, <2>11, <2>12 DEF FencedBody, end, open
  <1> QED
    BY <1>4, <1>5

\* A scanned file: lines in a sequence, docstrings of lines, a verdict on its syntax.
GoodScanned(f) ==
    /\ Sequenced(f.lines) /\ f.language.directives \in BOOLEAN
    /\ f.language.name = "python" => f.language.markers
    /\ f.parses \in {"yes", "neutralized", "no"}
    /\ \A body \in f.docstrings : Sequenced(body)
CommentsOf(in) ==
    /\ in.limits.plain \in Int /\ in.limits.critical \in Int
    /\ \A f \in in.files : GoodScanned(f)

LEMMA SequenceHasLength == ASSUME NEW w, Sequenced(w) PROVE Len(w) \in Nat /\ DOMAIN w = 1..Len(w)
  BY DEF Sequenced

LEMMA ScanIsClean ==
    ASSUME CommentsOf(input), Comments!Verdict(input) = 0
    PROVE  /\ input.limits.plain \in Nat /\ input.limits.critical \in Nat
           /\ \A f \in Comments!Collect(input) : ~Comments!CheckFile(f, input)
           /\ ~Comments!Unparsable(input)
  <1>1. /\ ~(input.limits.plain < 1) /\ ~(input.limits.critical < input.limits.plain)
        /\ ~Comments!Unparsable(input)
        /\ ~\E f \in Comments!Collect(input) : Comments!CheckFile(f, input)
    BY DEF Comments!Verdict
  <1>2. input.limits.plain \in Int /\ input.limits.critical \in Int
    BY DEF CommentsOf
  <1>3. input.limits.plain \in Nat /\ input.limits.critical \in Nat
    BY <1>1, <1>2
  <1> QED
    BY <1>1, <1>3

LEMMA ReadIsCollected ==
    ASSUME NEW f \in FilesRead,
           f.language.markers \/ f.language.delimiters # {} \/ (input.fenced /\ f.language.name = "markdown")
    PROVE  f \in Comments!Collect(input)
  BY DEF FilesRead, Comments!Collect, Comments!Fenced

\* The runs and the blocks of lines that are found to be clean are short.
LEMMA RunsStayShort ==
    ASSUME NEW lines, Len(lines) \in Nat, DOMAIN lines = 1..Len(lines), NEW directives \in BOOLEAN,
           input.limits.plain \in Nat, input.limits.critical \in Nat,
           ~Comments!LineCommentFindings(lines, directives, input.limits)
    PROVE  \A i \in DOMAIN lines : \A j \in i..Len(lines) : IsRun(lines, directives, i, j) => Short(lines, i, j)
  BY RunsAreFound

LEMMA BlocksStayShort ==
    ASSUME NEW lines, Len(lines) \in Nat, DOMAIN lines = 1..Len(lines), NEW d,
           input.limits.plain \in Nat, input.limits.critical \in Nat,
           ~Comments!BlockCommentFindings(lines, d, input.limits)
    PROVE  BlocksAreShort(lines, d)
  <1> SUFFICES ASSUME NEW i \in 1..Len(lines), NEW j \in i..Len(lines),
                      d \in lines[i].opens, d \in lines[j].closes,
                      \A k \in i + 1..j : d \notin lines[k].opens /\ d \notin lines[k - 1].closes
               PROVE  Short(lines, i, j)
    BY Zenon DEF BlocksAreShort
  <1> QED
    BY BlocksAreFound

LEMMA DocstringIsShort ==
    ASSUME NEW body, Sequenced(body), input.limits.plain \in Nat, input.limits.critical \in Nat,
           ~Comments!TooLong(body, input.limits)
    PROVE  LET doc == [k \in DOMAIN body |-> SourceLine("code", body[k])] IN Short(doc, 1, Len(doc))
  <1> DEFINE doc == [k \in DOMAIN body |-> SourceLine("code", body[k])]
             n == Len(body)
             texts == Comments!Texts(doc, 1, n)
  <1>1. n \in Nat /\ DOMAIN body = 1..n
    BY SequenceHasLength
  <1>2. DOMAIN doc = 1..n /\ \A k \in 1..n : doc[k].text = body[k]
    BY <1>1 DEF SourceLine
  <1>3. Len(doc) = n
    <2>1. doc = [k \in 1..n |-> SourceLine("code", body[k])]
      BY <1>1
    <2> QED
      BY <1>1, <2>1
  <1> HIDE DEF doc
  <1>4. CASE n = 0
    <2>1. Counted(doc, 1, n) = {}
      BY <1>4 DEF Counted
    <2> QED
      BY <1>3, <2>1 DEF Short, doc
  <1>5. CASE n # 0
    <2>1. texts = body
      <3>1. texts = [k \in 1..n - 1 + 1 |-> doc[1 + k - 1].text]
        BY DEF Comments!Texts
      <3>2. n - 1 + 1 = n /\ \A k \in 1..n : 1 + k - 1 = k
        BY <1>1
      <3>3. texts = [k \in 1..n |-> body[k]]
        BY <1>2, <3>1, <3>2
      <3>4. body \in Seq(Listed(body))
        BY DEF Sequenced
      <3>5. body = [k \in 1..n |-> body[k]]
        BY <3>4
      <3> QED
        BY <3>3, <3>5
    <2>2. Short(doc, 1, n)
      <3>1. 1 \in Nat \ {0} /\ n \in Nat /\ 1 <= n
        BY <1>1, <1>5
      <3> QED
        BY <2>1, <3>1, ShortEnough
    <2> QED
      BY <1>3, <2>2 DEF doc
  <1> QED
    BY <1>4, <1>5

LEMMA CommentsStayShort ==
    ASSUME CommentsOf(input), Comments!Verdict(input) = 0
    PROVE  CommentsAreShort
  <1> SUFFICES ASSUME NEW f \in FilesRead
               PROVE  /\ f.language.markers =>
                             RunsAreShort(f.lines, LAMBDA k : IsComment(f.lines, f.language.directives, k))
                      /\ \A d \in f.language.delimiters : BlocksAreShort(f.lines, d)
                      /\ f.language.name = "python" /\ f.parses # "no" => \A body \in f.docstrings :
                             LET doc == [k \in DOMAIN body |-> SourceLine("code", body[k])] IN Short(doc, 1, Len(doc))
    BY Zenon DEF CommentsAreShort
  <1>1. GoodScanned(f)
    BY DEF FilesRead, CommentsOf
  <1>2. Len(f.lines) \in Nat /\ DOMAIN f.lines = 1..Len(f.lines) /\ f.language.directives \in BOOLEAN
    BY <1>1, SequenceHasLength DEF GoodScanned
  <1>3. input.limits.plain \in Nat /\ input.limits.critical \in Nat
    BY ScanIsClean
  <1>4. f.language.markers => RunsAreShort(f.lines, LAMBDA k : IsComment(f.lines, f.language.directives, k))
    <2> SUFFICES ASSUME f.language.markers
                 PROVE  RunsAreShort(f.lines, LAMBDA k : IsComment(f.lines, f.language.directives, k))
      OBVIOUS
    <2>1. ~Comments!CheckFile(f, input)
      BY ReadIsCollected, ScanIsClean
    <2>2. ~Comments!LineCommentFindings(f.lines, f.language.directives, input.limits)
      BY <2>1 DEF Comments!CheckFile
    <2> DEFINE lines == f.lines
               directives == f.language.directives
    <2>3. Len(lines) \in Nat /\ DOMAIN lines = 1..Len(lines) /\ directives \in BOOLEAN
      BY <1>2
    <2>4. ~Comments!LineCommentFindings(lines, directives, input.limits)
      BY <2>2
    <2> HIDE DEF lines, directives
    <2>5. \A i \in DOMAIN lines : \A j \in i..Len(lines) : IsRun(lines, directives, i, j) => Short(lines, i, j)
      BY <1>3, <2>3, <2>4, RunsStayShort
    <2> QED
      BY <2>5, Zenon DEF lines, directives, RunsAreShort, IsRun
  <1>5. ASSUME NEW d \in f.language.delimiters PROVE BlocksAreShort(f.lines, d)
    <2>1. ~Comments!CheckFile(f, input)
      BY ReadIsCollected, ScanIsClean
    <2>2. ~Comments!BlockCommentFindings(f.lines, d, input.limits)
      BY <2>1 DEF Comments!CheckFile, Comments!Delimiters
    <2> QED
      BY <1>2, <1>3, <2>2, BlocksStayShort
  <1>6. ASSUME f.language.name = "python", f.parses # "no", NEW body \in f.docstrings
        PROVE  LET doc == [k \in DOMAIN body |-> SourceLine("code", body[k])] IN Short(doc, 1, Len(doc))
    <2>1. f.language.markers /\ f.parses \in {"yes", "neutralized"} /\ Sequenced(body)
      BY <1>1, <1>6 DEF GoodScanned
    <2>2. f \in Comments!Collect(input)
      BY <2>1, ReadIsCollected
    <2>3. ~Comments!CheckFile(f, input) /\ ~Comments!Unparsable(input)
      BY <2>2, ScanIsClean
    <2>4. Comments!ParsesAsPython(f)
      BY <1>6, <2>1, <2>2, <2>3 DEF Comments!Unparsable, Comments!ParsesAsPython
    <2>5. ~Comments!TooLong(body, input.limits)
      BY <1>6, <2>3, <2>4 DEF Comments!CheckFile, Comments!DocstringFindings
    <2> QED
      BY <1>3, <2>1, <2>5, DocstringIsShort
  <1> QED
    BY <1>4, <1>5, <1>6

LEMMA SnippetIsListed ==
    ASSUME NEW lines, Sequenced(lines), NEW n \in 1..Len(lines)
    PROVE  DOMAIN Snippet(lines, n) = 1..Len(Snippet(lines, n))
  <1> DEFINE s == Snippet(lines, n)
  <1> DEFINE size == Cardinality(Inside(lines, n))
  <1>1. size \in Nat
    <2>1. Len(lines) \in Nat /\ n + 1 \in Int
      BY SequenceHasLength
    <2>2. IsFiniteSet(n + 1..Len(lines)) /\ IsFiniteSet({})
      BY <2>1, FS_Interval, FS_EmptySet
    <2>3. Inside(lines, n) \subseteq n + 1..Len(lines)
      BY DEF Inside
    <2>4. IsFiniteSet(Inside(lines, n))
      BY <2>2, <2>3, FS_Subset
    <2> QED
      BY <2>4, FS_CardinalityType
  <1>2. s = [k \in 1..size |-> lines[n + k]]
    BY DEF Snippet
  <1> HIDE DEF size, s
  <1>3. Len(s) = size /\ DOMAIN s = 1..size
    BY <1>1, <1>2
  <1> QED
    BY <1>3 DEF s

LEMMA SnippetsStayShort ==
    ASSUME CommentsOf(input), Comments!Verdict(input) = 0, input.fenced
    PROVE  SnippetsAreShort
  <1> SUFFICES ASSUME NEW f \in FilesRead, f.language.name = "markdown",
                      NEW n \in DOMAIN f.lines, NEW l \in input.languages, l.name = f.lines[n].fence.lang
               PROVE  LET body == Snippet(f.lines, n)
                      IN  /\ l.markers => RunsAreShort(body, LAMBDA k : IsComment(body, FALSE, k))
                          /\ \A d \in l.delimiters : BlocksAreShort(body, d)
    BY Zenon DEF SnippetsAreShort
  <1> DEFINE lines == f.lines
             body == Snippet(lines, n)
             open == OpenFence(lines)
  <1>1. Sequenced(lines)
    BY DEF FilesRead, CommentsOf, GoodScanned
  <1>2. Len(lines) \in Nat /\ n \in 1..Len(lines)
    BY <1>1, SequenceHasLength
  <1>3. input.limits.plain \in Nat /\ input.limits.critical \in Nat
    BY ScanIsClean
  <1>4. ~Comments!FencedFindings(lines, input.languages, input.limits)
    <2>1. ~Comments!CheckFile(f, input)
      BY ReadIsCollected, ScanIsClean
    <2> QED
      BY <2>1 DEF Comments!CheckFile, Comments!Fenced
  <1>5. Fenced(open, lines)
    BY <1>2, FencesUnroll
  <1>6. /\ Len(body) \in Nat /\ DOMAIN body = 1..Len(body)
        /\ IF open[n] = n THEN body = FencedBody(lines, n) ELSE Len(body) = 0
    <2>1. /\ Len(body) \in Nat
          /\ IF open[n] = n THEN body = FencedBody(lines, n) ELSE Len(body) = 0
      BY <1>1, <1>2, SnippetIsBody
    <2>2. DOMAIN body = 1..Len(body)
      BY <1>1, <1>2, SnippetIsListed
    <2> QED
      BY <2>1, <2>2
  <1> HIDE DEF body, open
  <1>7. CASE open[n] # n
    <2>1. Len(body) = 0 /\ DOMAIN body = 1..0
      BY <1>6, <1>7
    <2>2. RunsAreShort(body, LAMBDA k : IsComment(body, FALSE, k)) /\ \A d : BlocksAreShort(body, d)
      <3>1. DOMAIN body = {}
        BY <2>1
      <3> QED
        BY <3>1, Zenon DEF RunsAreShort, BlocksAreShort
    <2> QED
      BY <2>2 DEF body
  <1>8. CASE open[n] = n
    <2>1. ~FoundIn(lines, n, input.languages, input.limits)
      BY <1>2, <1>4, <1>5, <1>8, OpenFencesAreRead
    <2>2. body = FencedBody(lines, n)
      BY <1>6, <1>8
    <2>3. /\ l.markers => ~Comments!LineCommentFindings(body, FALSE, input.limits)
          /\ \A d \in l.delimiters : ~Comments!BlockCommentFindings(body, d, input.limits)
      BY <2>1, <2>2 DEF FoundIn
    <2>4. l.markers => RunsAreShort(body, LAMBDA k : IsComment(body, FALSE, k))
      <3>1. l.markers => \A i \in DOMAIN body : \A j \in i..Len(body) : IsRun(body, FALSE, i, j) => Short(body, i, j)
        BY <1>3, <1>6, <2>3, RunsStayShort
      <3> QED
        BY <3>1, Zenon DEF RunsAreShort, IsRun
    <2>5. \A d \in l.delimiters : BlocksAreShort(body, d)
      BY <1>3, <1>6, <2>3, BlocksStayShort
    <2> QED
      BY <2>4, <2>5 DEF body
  <1> QED
    BY <1>7, <1>8

-----------------------------------------------------------------------------
(* check-role-inputs.py *)

\* A condition of an assertion is negated or it is not.
GoodAsserts(role) == \A a \in role.asserts : \A c \in a.conditions : c.negated \in BOOLEAN
RolesOf(in) == \A role \in in.roles : GoodAsserts(role)

\* What the gate looks up for a role is one of the values that the role sees.
Context(role) == Inputs!Over(input.groupVars, role.defaults)

LEMMA LookupIsSeen ==
    ASSUME NEW role, NEW name
    PROVE  /\ name \in Inputs!Names(Context(role)) => Inputs!Lookup(Context(role), name) \in Seen(role, name)
           /\ name \notin Inputs!Names(Context(role)) => Seen(role, name) = {}
  <1> DEFINE context == Context(role)
             group == {p[2] : p \in {q \in input.groupVars : q[1] = name}}
             defaults == {p[2] : p \in {q \in role.defaults : q[1] = name}}
  <1>1. Seen(role, name) = IF group # {} THEN group ELSE defaults
    BY DEF Seen
  <1>2. context = input.groupVars \cup {p \in role.defaults : p[1] \notin Inputs!Names(input.groupVars)}
    BY DEF Context, Inputs!Over
  <1>3. name \in Inputs!Names(input.groupVars) <=> group # {}
    BY DEF Inputs!Names
  <1>4. ASSUME NEW p \in context, p[1] = name PROVE p[2] \in Seen(role, name)
    <2>1. CASE p \in input.groupVars
      BY <1>1, <1>4, <2>1
    <2>2. CASE p \notin input.groupVars
      BY <1>1, <1>2, <1>3, <1>4, <2>2
    <2> QED
      BY <2>1, <2>2
  <1>5. ASSUME name \in Inputs!Names(context) PROVE Inputs!Lookup(context, name) \in Seen(role, name)
    <2>1. \E p \in context : p[1] = name
      BY <1>5 DEF Inputs!Names
    <2> HIDE DEF context
    <2>2. \E p \in context : p[1] = name /\ Inputs!Lookup(context, name) = p[2]
      BY <2>1 DEF Inputs!Lookup
    <2> QED
      BY <1>4, <2>2
  <1>6. ASSUME name \notin Inputs!Names(context) PROVE Seen(role, name) = {}
    <2>1. \A p \in context : p[1] # name
      BY <1>6 DEF Inputs!Names
    <2>2. group = {}
      BY <1>2, <2>1
    <2>3. defaults = {}
      BY <1>2, <1>3, <2>1, <2>2
    <2> QED
      BY <1>1, <2>2, <2>3
  <1> QED
    BY <1>5, <1>6

LEMMA SureIsReachable ==
    ASSUME NEW role, NEW conditions, \A c \in conditions : c.negated \in BOOLEAN /\ Surely(role, c)
    PROVE  Inputs!ReachableByDefault(conditions, Context(role))
  <1> SUFFICES ASSUME NEW c \in conditions
               PROVE  c.modelled /\ (Inputs!Truthy(Context(role), c.var) <=> ~c.negated)
    BY DEF Inputs!ReachableByDefault
  <1>1. c.modelled /\ c.negated \in BOOLEAN
    BY DEF Surely
  <1> DEFINE value == Inputs!Lookup(Context(role), c.var)
             named == c.var \in Inputs!Names(Context(role))
  <1>2. Inputs!Truthy(Context(role), c.var) <=> named /\ value.kind \in {"set", "ref", "opaque"}
    BY DEF Inputs!Truthy
  <1>3. (named => value \in Seen(role, c.var)) /\ (~named => Seen(role, c.var) = {})
    BY LookupIsSeen
  <1> HIDE DEF value, named
  <1>4. Val("false").kind = "false" /\ Val("empty").kind = "empty" /\ Val("set").kind = "set"
    BY DEF Val
  <1>5. CASE c.negated
    <2>1. Seen(role, c.var) \subseteq {Val("false"), Val("empty")}
      BY <1>5 DEF Surely
    <2> QED
      BY <1>1, <1>2, <1>3, <1>4, <1>5, <2>1
  <1>6. CASE ~c.negated
    <2>1. Seen(role, c.var) = {Val("set")}
      BY <1>6 DEF Surely
    <2>2. named /\ value = Val("set")
      BY <1>3, <2>1
    <2> QED
      BY <1>1, <1>2, <1>4, <1>6, <2>2
  <1> QED
    BY <1>5, <1>6

LEMMA DefaultIsProvided ==
    ASSUME NEW role, NEW v, ~Inputs!DefaultGap(role.defaults, v, Context(role), input.assigned)
    PROVE  \E p \in role.defaults : p[1] = v /\ Provided(role, p[2])
  <1> DEFINE value == Inputs!Lookup(role.defaults, v)
             context == Context(role)
             behind == Inputs!Lookup(context, value.ref)
  <1>1. v \in Inputs!Names(role.defaults)
    BY DEF Inputs!DefaultGap
  <1>2. \/ ~Inputs!RendersEmpty(value, context)
        \/ value.kind = "ref" /\ value.ref \in Inputs!Names(input.assigned) \ Inputs!Names(context)
    BY DEF Inputs!DefaultGap
  <1>3. PICK p \in role.defaults : p[1] = v /\ p[2] = value
    BY <1>1 DEF Inputs!Names, Inputs!Lookup
  <1>4. /\ value.ref \in Inputs!Names(context) => behind \in Seen(role, value.ref)
        /\ value.ref \notin Inputs!Names(context) => Seen(role, value.ref) = {}
    BY LookupIsSeen
  <1>5. Val("empty").kind = "empty"
    BY DEF Val
  <1> HIDE DEF value, context, behind
  <1>6. Provided(role, value)
    <2>1. CASE value.kind = "ref" /\ value.ref \in Inputs!Names(input.assigned) \ Inputs!Names(context)
      BY <1>4, <2>1 DEF Provided
    <2>2. CASE ~Inputs!RendersEmpty(value, context)
      <3>1. value.kind # "empty"
        BY <2>2 DEF Inputs!RendersEmpty
      <3>2. value.kind = "ref" => value.ref \in Inputs!Names(context) /\ behind.kind # "empty"
        BY <2>2 DEF Inputs!RendersEmpty, behind
      <3>3. value.kind = "ref" => Seen(role, value.ref) \notin {{}, {Val("empty")}}
        BY <1>4, <1>5, <3>2
      <3> QED
        BY <3>1, <3>3 DEF Provided
    <2> QED
      BY <1>2, <2>1, <2>2
  <1> QED
    BY <1>3, <1>6

LEMMA RolesFindTheirInputs ==
    ASSUME RolesOf(input), Inputs!Verdict(input) = 0, "required-inputs" \notin input.skip
    PROVE  RoleAssertsHold
  <1> SUFFICES ASSUME NEW role \in input.roles, \E i \in input.plays : i.role = role.name /\ ~i.block,
                      NEW a \in role.asserts, \A c \in a.conditions : Surely(role, c),
                      NEW v \in a.vars, Inputs!StartsWith(v, role.name)
               PROVE  \/ v \in Inputs!Names(input.assigned)
                      \/ \E p \in role.defaults : p[1] = v /\ Provided(role, p[2])
    BY Zenon DEF RoleAssertsHold
  <1>1. ~Inputs!RequiredProblem(input)
    <2>1. "required-inputs" \in Inputs!Arms \ input.skip
      BY DEF Inputs!Arms
    <2>2. ~Inputs!Problem(input, "required-inputs")
      BY <2>1 DEF Inputs!Verdict
    <2> QED
      BY <2>2 DEF Inputs!Problem
  <1>2. role \in Inputs!Invoked(input)
    BY DEF Inputs!Invoked, Inputs!RoleInvocations
  <1>3. v \in Inputs!AssertedInputs(role, Context(role))
    <2>1. Inputs!ReachableByDefault(a.conditions, Context(role))
      BY SureIsReachable DEF RolesOf, GoodAsserts
    <2> QED
      BY <2>1 DEF Inputs!AssertedInputs
  <1>4. CASE Inputs!DefaultGap(role.defaults, v, Context(role), input.assigned)
    <2> DEFINE p == <<role, v>>
    <2>1. p \in {role} \X Inputs!AssertedInputs(role, Context(role))
      BY <1>3
    <2>2. p \in UNION {{r} \X Inputs!AssertedInputs(r, Inputs!Over(input.groupVars, r.defaults)) :
                          r \in Inputs!Invoked(input)}
      BY <1>2, <2>1 DEF Context
    <2>3. p[1] = role /\ p[2] = v
      OBVIOUS
    <2> HIDE DEF p
    <2>4. p \in Inputs!Required(input)
      BY <1>4, <2>2, <2>3 DEF Inputs!Required, Context
    <2> QED
      BY <1>1, <2>3, <2>4 DEF Inputs!RequiredProblem
  <1>5. CASE ~Inputs!DefaultGap(role.defaults, v, Context(role), input.assigned)
    BY <1>5, DefaultIsProvided
  <1> QED
    BY <1>4, <1>5

-----------------------------------------------------------------------------
(* check-versions.py: orders of versions.  A version is read as the keys of *)
(* its places, of which there is no last, and a set R of pairs orders keys. *)

Place == Nat \ {0}
Irreflexive(R) == \A x : <<x, x>> \notin R
Transitive(R) == \A x, y, z : <<x, y>> \in R /\ <<y, z>> \in R => <<x, z>> \in R
Before(f, g, R) == \E i \in Place : <<f[i], g[i]>> \in R /\ \A j \in 1..i - 1 : f[j] = g[j]

\* The first place in which two lists of keys differ decides.
LEMMA FirstDecides ==
    ASSUME NEW f, NEW g, NEW R, Irreflexive(R), NEW i \in Place,
           \A j \in 1..i - 1 : f[j] = g[j], f[i] # g[i]
    PROVE  Before(f, g, R) <=> <<f[i], g[i]>> \in R
  <1>1. ASSUME NEW k \in Place, <<f[k], g[k]>> \in R, \A j \in 1..k - 1 : f[j] = g[j]
        PROVE  k = i
    <2>1. f[k] # g[k]
      BY <1>1 DEF Irreflexive
    <2>2. ~(k \in 1..i - 1) /\ ~(i \in 1..k - 1)
      BY <1>1, <2>1
    <2> QED
      BY <2>2 DEF Place
  <1> QED
    BY <1>1 DEF Before

LEMMA SameIsNotBefore ==
    ASSUME NEW f, NEW g, NEW R, Irreflexive(R), \A i \in Place : f[i] = g[i]
    PROVE  ~Before(f, g, R)
  BY DEF Before, Irreflexive

LEMMA BeforeIsStrict ==
    ASSUME NEW R, Irreflexive(R), Transitive(R), NEW f, NEW g, NEW h
    PROVE  ~Before(f, f, R) /\ (Before(f, g, R) /\ Before(g, h, R) => Before(f, h, R))
  <1>1. ~Before(f, f, R)
    BY DEF Before, Irreflexive
  <1>2. ASSUME NEW i \in Place, <<f[i], g[i]>> \in R, \A j \in 1..i - 1 : f[j] = g[j],
               NEW k \in Place, <<g[k], h[k]>> \in R, \A j \in 1..k - 1 : g[j] = h[j]
        PROVE  Before(f, h, R)
    <2>1. CASE i < k
      <3>1. i \in 1..k - 1 /\ \A j \in 1..i - 1 : j \in 1..k - 1
        BY <2>1 DEF Place
      <3>2. g[i] = h[i] /\ \A j \in 1..i - 1 : f[j] = h[j]
        BY <1>2, <3>1
      <3> QED
        BY <1>2, <3>2 DEF Before
    <2>2. CASE k < i
      <3>1. k \in 1..i - 1 /\ \A j \in 1..k - 1 : j \in 1..i - 1
        BY <2>2 DEF Place
      <3>2. f[k] = g[k] /\ \A j \in 1..k - 1 : f[j] = h[j]
        BY <1>2, <3>1
      <3> QED
        BY <1>2, <3>2 DEF Before
    <2>3. CASE i = k
      <3>1. <<f[i], h[i]>> \in R
        BY <1>2, <2>3 DEF Transitive
      <3>2. \A j \in 1..i - 1 : f[j] = h[j]
        BY <1>2, <2>3
      <3> QED
        BY <3>1, <3>2 DEF Before
    <2> QED
      BY <2>1, <2>2, <2>3 DEF Place
  <1> QED
    BY <1>1, <1>2 DEF Before

\* Of keys that differ somewhere there is a first place where they do.
LEMMA SomePlaceIsFirst ==
    ASSUME NEW f, NEW g, NEW k \in Place, f[k] # g[k]
    PROVE  \E i \in 1..k : f[i] # g[i] /\ \A j \in 1..i - 1 : f[j] = g[j]
  <1> DEFINE Off == {i \in 1..k : f[i] # g[i]}
  <1>1. k \in Off /\ Off \in SUBSET Nat
    BY DEF Place
  <1>2. PICK i \in Off : \A j \in Off : i <= j
    BY <1>1, LeastOf
  <1>3. \A j \in 1..i - 1 : j \in 1..k /\ ~(i <= j)
    BY <1>2 DEF Place
  <1> QED
    BY <1>2, <1>3

\* Best is the best of the wanted places, whatever their number and order.
BestIn(b, wanted, better) == b \in wanted /\ \A i \in wanted : <<i, b>> \notin better

Chooses(g, n, wanted, better) ==
    /\ g[0] = 0 /\ \A i \in 0..n : g[i] \in Nat
    /\ \A i \in 1..n : g[i] = IF i \in wanted /\ (g[i - 1] = 0 \/ <<i, g[i - 1]>> \in better) THEN i ELSE g[i - 1]

LEMMA BestUnrolls ==
    ASSUME NEW n \in Nat, NEW wanted, NEW better
    PROVE  \E g : Chooses(g, n, wanted, better) /\ Scheme!Best(n, wanted, better) = g[n]
  <1> DEFINE Step(x, i) == IF i \in wanted /\ (x = 0 \/ <<i, x>> \in better) THEN i ELSE x
             next == [i \in Nat |-> [x \in Nat |-> Step(x, i + 1)]]
  <1>1. next \in [Nat -> [Nat -> Nat]]
    OBVIOUS
  <1>2. PICK f : Iterates(f, Nat, 0, next)
    <2> HIDE DEF next
    <2> QED
      BY <1>1, RecursionExists
  <1>3. f[0] = 0 /\ \A i \in Nat : f[i] \in Nat /\ f[i + 1] = Step(f[i], i + 1)
    <2> HIDE DEF Step
    <2> QED
      BY <1>2 DEF Iterates
  <1> HIDE DEF next
  <1> DEFINE Body(g, i) == IF i = 0 THEN 0
                           ELSE IF i \in wanted /\ (g[i - 1] = 0 \/ <<i, g[i - 1]>> \in better) THEN i
                           ELSE g[i - 1]
             h == [i \in 0..n |-> f[i]]
  <1>4. h = [i \in 0..n |-> Body(h, i)]
    <2>1. ASSUME NEW i \in 0..n PROVE f[i] = Body(h, i)
      <3>1. CASE i # 0
        <4>1. i - 1 \in Nat /\ i - 1 \in 0..n /\ (i - 1) + 1 = i
          BY <3>1
        <4>2. f[(i - 1) + 1] = Step(f[i - 1], (i - 1) + 1)
          <5> HIDE DEF Step
          <5> QED
            BY <1>3, <4>1
        <4>3. h[i - 1] = f[i - 1] /\ f[i] = Step(f[i - 1], i)
          <5> HIDE DEF Step
          <5> QED
            BY <4>1, <4>2
        <4> QED
          BY <3>1, <4>3
      <3> QED
        BY <1>3, <3>1
    <2> HIDE DEF Body
    <2> QED
      BY <2>1
  <1> DEFINE g == CHOOSE x : x = [i \in 0..n |-> Body(x, i)]
  <1>5. g = [i \in 0..n |-> Body(g, i)]
    <2> HIDE DEF Body, h
    <2> QED
      BY <1>4
  <1>6. Scheme!Best(n, wanted, better) = g[n]
    BY Zenon DEF Scheme!Best
  <1> HIDE DEF g
  <1>7. \A i \in 0..n : g[i] = Body(g, i)
    <2> HIDE DEF Body
    <2> QED
      BY <1>5
  <1>8. g[0] = 0 /\ \A i \in 1..n : g[i] = Step(g[i - 1], i)
    <2>1. 0 \in 0..n /\ \A i \in 1..n : i \in 0..n /\ i # 0
      OBVIOUS
    <2> QED
      BY <1>7, <2>1
  <1>9. \A i \in 0..n : g[i] \in Nat
    <2> DEFINE Off == {i \in 0..n : g[i] \notin Nat}
    <2> SUFFICES ASSUME Off # {} PROVE FALSE
      OBVIOUS
    <2>1. PICK i \in Off : \A j \in Off : i <= j
      BY LeastOf, Off \in SUBSET Nat
    <2>2. i # 0 /\ i \in 1..n
      BY <1>8, <2>1
    <2>3. i - 1 \in 0..n /\ i - 1 \notin Off
      BY <2>1, <2>2
    <2>4. g[i - 1] \in Nat /\ g[i] \notin Nat
      BY <2>1, <2>3
    <2>5. g[i] = i \/ g[i] = g[i - 1]
      BY <1>8, <2>2
    <2> QED
      BY <2>2, <2>4, <2>5
  <1> QED
    BY <1>6, <1>8, <1>9 DEF Chooses

LEMMA BestIsBest ==
    ASSUME NEW n \in Nat, NEW wanted \in SUBSET (1..n), NEW better, Irreflexive(better), Transitive(better)
    PROVE  LET b == Scheme!Best(n, wanted, better)
           IN  IF wanted = {} THEN b = 0 ELSE BestIn(b, wanted, better)
  <1>0. PICK g : Chooses(g, n, wanted, better) /\ Scheme!Best(n, wanted, better) = g[n]
    BY BestUnrolls
  <1>1. /\ g[0] = 0 /\ Scheme!Best(n, wanted, better) = g[n]
        /\ \A i \in 1..n : g[i] = IF i \in wanted /\ (g[i - 1] = 0 \/ <<i, g[i - 1]>> \in better)
                                  THEN i ELSE g[i - 1]
    BY <1>0 DEF Chooses
  <1>7. \A i \in wanted : i \in Nat /\ ~(i <= 0) /\ i <= n
    <2>1. \A i \in wanted : i \in 1..n
      OBVIOUS
    <2>2. \A i \in 1..n : i \in Nat /\ ~(i <= 0) /\ i <= n
      OBVIOUS
    <2> QED
      BY <2>1, <2>2, Zenon
  <1> DEFINE Sought(k) == {i \in wanted : i <= k}
             Right(k) == IF Sought(k) = {} THEN g[k] = 0 ELSE BestIn(g[k], Sought(k), better)
             Off == {k \in 0..n : ~Right(k)}
  <1>5. Right(0) /\ \A k \in 1..n : Sought(k) = IF k \in wanted THEN Sought(k - 1) \cup {k} ELSE Sought(k - 1)
    <2>1. Sought(0) = {}
      BY <1>7, Zenon
    <2>2. \A k \in 1..n : Sought(k) = IF k \in wanted THEN Sought(k - 1) \cup {k} ELSE Sought(k - 1)
      <3> SUFFICES ASSUME NEW k \in 1..n PROVE Sought(k) = IF k \in wanted THEN Sought(k - 1) \cup {k} ELSE Sought(k - 1)
        OBVIOUS
      <3>1. \A i \in wanted : i \in Nat /\ (i <= k <=> i <= k - 1 \/ i = k)
        OBVIOUS
      <3> QED
        BY <3>1
    <2> QED
      BY <1>1, <2>1, <2>2
  <1>6. \A k : \A i \in Sought(k) : i # 0
    OBVIOUS
  <1>4. Sought(n) = wanted
    BY <1>7, Zenon
  <1> HIDE DEF Sought
  <1>2. Off = {}
    <2> HIDE DEF Right
    <2> SUFFICES ASSUME Off # {} PROVE FALSE
      OBVIOUS
    <2>1. PICK k \in Off : \A j \in Off : k <= j
      BY LeastOf, Off \in SUBSET Nat
    <2>2. k # 0 /\ k \in 1..n
      BY <1>5, <2>1
    <2>3. k - 1 \in 0..n /\ k - 1 \notin Off
      BY <2>1, <2>2
    <2>4. Right(k - 1)
      BY <2>3
    <2>5. g[k] = IF k \in wanted /\ (g[k - 1] = 0 \/ <<k, g[k - 1]>> \in better) THEN k ELSE g[k - 1]
      BY <1>1, <2>2
    <2>6. Sought(k) = IF k \in wanted THEN Sought(k - 1) \cup {k} ELSE Sought(k - 1)
      BY <1>5, <2>2
    <2>7. \A i \in Sought(k - 1) : i # 0
      BY <1>6
    <2>8. ~Right(k)
      BY <2>1
    <2> USE DEF Right
    <2>9. CASE k \notin wanted
      BY <2>4, <2>5, <2>6, <2>8, <2>9
    <2>10. CASE k \in wanted /\ Sought(k - 1) = {}
      <3>1. g[k] = k /\ Sought(k) = {k}
        BY <2>4, <2>5, <2>6, <2>10
      <3> QED
        BY <2>8, <3>1 DEF BestIn, Irreflexive
    <2>11. CASE k \in wanted /\ Sought(k - 1) # {}
      <3>1. BestIn(g[k - 1], Sought(k - 1), better) /\ g[k - 1] # 0
        BY <2>4, <2>7, <2>11 DEF BestIn
      <3>2. Sought(k) = Sought(k - 1) \cup {k}
        BY <2>6, <2>11
      <3>3. CASE <<k, g[k - 1]>> \in better
        <4>1. g[k] = k
          BY <2>5, <2>11, <3>3
        <4>2. \A i \in Sought(k - 1) : <<i, k>> \notin better
          BY <3>1, <3>3 DEF BestIn, Transitive
        <4>3. BestIn(k, Sought(k), better)
          BY <3>2, <4>2 DEF BestIn, Irreflexive
        <4> QED
          BY <2>8, <3>2, <4>1, <4>3
      <3>4. CASE <<k, g[k - 1]>> \notin better
        <4>1. g[k] = g[k - 1]
          BY <2>5, <3>1, <3>4
        <4>2. BestIn(g[k - 1], Sought(k), better)
          BY <3>1, <3>2, <3>4 DEF BestIn
        <4> QED
          BY <2>8, <3>2, <4>1, <4>2
      <3> QED
        BY <3>3, <3>4
    <2> QED
      BY <2>9, <2>10, <2>11
  <1>3. Right(n)
    <2> HIDE DEF Right
    <2> QED
      BY <1>2
  <1> QED
    BY <1>1, <1>3, <1>4

LessThan == {p \in Int \X Int : p[1] < p[2]}

LEMMA LessThanIsStrict ==
    /\ Irreflexive(LessThan) /\ Transitive(LessThan)
    /\ \A x, y \in Int : <<x, y>> \in LessThan <=> x < y
  <1>1. \A x, y : <<x, y>> \in LessThan <=> x \in Int /\ y \in Int /\ x < y
    BY DEF LessThan
  <1> QED
    BY <1>1 DEF Irreflexive, Transitive

\* Versions as they are written: numbers, and words by their place below 0.
Segments == [rank : {Scheme!NumberRank}, val : Nat] \cup [rank : {Scheme!WordRank}, val : {n \in Int : n < 0}]
GoodVersion(v) == v \in Seq(Segments)
KeysOf(v) == [i \in Place |-> KeyAt(v, i)]

LEMMA SegmentsDiffer ==
    ASSUME NEW x \in Segments, NEW y \in Segments
    PROVE  /\ x.val \in Int /\ x.rank \in {0, 1} /\ (x.rank = 0 => x.val >= 0) /\ (x.rank = 1 => x.val < 0)
           /\ x.rank = y.rank /\ x.val = y.val => x = y
  BY DEF Segments, Scheme!NumberRank, Scheme!WordRank

LEMMA KeyIsInt ==
    ASSUME NEW v, GoodVersion(v), NEW i \in Place
    PROVE  /\ Len(v) \in Nat /\ KeyAt(v, i) \in Int /\ KeysOf(v)[i] = KeyAt(v, i)
           /\ i <= Len(v) => /\ v[i] \in Segments /\ KeyAt(v, i) # 0
                             /\ KeyAt(v, i) > 0 <=> v[i].rank = 0
                             /\ KeyAt(v, i) = IF v[i].rank = 0 THEN v[i].val + 1 ELSE v[i].val
           /\ ~(i <= Len(v)) => KeyAt(v, i) = 0
  <1>1. Len(v) \in Nat /\ i \in Nat /\ i > 0
    BY DEF GoodVersion, Place
  <1>2. KeysOf(v)[i] = KeyAt(v, i)
    BY DEF KeysOf
  <1>3. CASE i <= Len(v)
    <2>1. v[i] \in Segments
      BY <1>1, <1>3 DEF GoodVersion
    <2>2. KeyAt(v, i) = IF v[i].rank = 0 THEN v[i].val + 1 ELSE v[i].val
      BY <1>1, <1>3 DEF KeyAt, Scheme!NumberRank
    <2> QED
      BY <1>1, <1>2, <1>3, <2>1, <2>2, SegmentsDiffer
  <1>4. CASE ~(i <= Len(v))
    BY <1>1, <1>2, <1>4 DEF KeyAt
  <1> QED
    BY <1>3, <1>4

\* What the reference order says is that one list of keys is before the other.
LEMMA OlderIsBefore ==
    ASSUME NEW a, GoodVersion(a), NEW b, GoodVersion(b)
    PROVE  Older(a, b) <=> Before(KeysOf(a), KeysOf(b), LessThan)
  <1> DEFINE n == Len(a) + Len(b)
  <1>1. n \in Nat
    BY DEF GoodVersion
  <1>2. Older(a, b) <=> \E i \in 1..n : KeyAt(a, i) < KeyAt(b, i) /\ \A j \in 1..i - 1 : KeyAt(a, j) = KeyAt(b, j)
    <2>1. Older(a, b) <=> \E i \in 1..n : /\ VersionKeysOf(a, n)[i] < VersionKeysOf(b, n)[i]
                                          /\ \A j \in 1..i - 1 : VersionKeysOf(a, n)[j] = VersionKeysOf(b, n)[j]
      BY DEF Older, Precedes, VersionKeysOf
    <2>2. \A v : \A i \in 1..n : VersionKeysOf(v, n)[i] = KeyAt(v, i)
      BY DEF VersionKeysOf
    <2>3. \A i \in 1..n : \A j \in 1..i - 1 : j \in 1..n
      BY <1>1
    <2> HIDE DEF n
    <2> QED
      BY <2>1, <2>2, <2>3
  <1>3. \A i \in Place : /\ KeysOf(a)[i] = KeyAt(a, i) /\ KeysOf(b)[i] = KeyAt(b, i)
                         /\ KeyAt(a, i) \in Int /\ KeyAt(b, i) \in Int
                         /\ i > n => KeyAt(a, i) = 0 /\ KeyAt(b, i) = 0
    <2> SUFFICES ASSUME NEW i \in Place
                 PROVE  /\ KeysOf(a)[i] = KeyAt(a, i) /\ KeysOf(b)[i] = KeyAt(b, i)
                        /\ KeyAt(a, i) \in Int /\ KeyAt(b, i) \in Int
                        /\ i > n => KeyAt(a, i) = 0 /\ KeyAt(b, i) = 0
      OBVIOUS
    <2>1. Len(a) \in Nat /\ Len(b) \in Nat /\ i \in Nat
      BY DEF GoodVersion, Place
    <2>2. i > n => ~(i <= Len(a)) /\ ~(i <= Len(b))
      BY <2>1
    <2> QED
      BY <2>2, KeyIsInt
  <1> HIDE DEF n
  <1>4. \A i \in 1..n : i \in Place /\ \A j \in 1..i - 1 : j \in Place
    BY <1>1 DEF Place
  <1>5. ASSUME Older(a, b) PROVE Before(KeysOf(a), KeysOf(b), LessThan)
    <2>1. PICK i \in 1..n : KeyAt(a, i) < KeyAt(b, i) /\ \A j \in 1..i - 1 : KeyAt(a, j) = KeyAt(b, j)
      BY <1>2, <1>5
    <2>2. <<KeysOf(a)[i], KeysOf(b)[i]>> \in LessThan
      BY <1>3, <1>4, <2>1, LessThanIsStrict
    <2>3. \A j \in 1..i - 1 : KeysOf(a)[j] = KeysOf(b)[j]
      BY <1>3, <1>4, <2>1
    <2> QED
      BY <1>4, <2>2, <2>3 DEF Before
  <1>6. ASSUME Before(KeysOf(a), KeysOf(b), LessThan) PROVE Older(a, b)
    <2>1. PICK i \in Place : <<KeysOf(a)[i], KeysOf(b)[i]>> \in LessThan /\ \A j \in 1..i - 1 : KeysOf(a)[j] = KeysOf(b)[j]
      BY <1>6 DEF Before
    <2>2. KeyAt(a, i) < KeyAt(b, i)
      BY <1>3, <2>1, LessThanIsStrict
    <2>3. i \in 1..n
      BY <1>1, <1>3, <2>2 DEF Place
    <2>4. \A j \in 1..i - 1 : KeyAt(a, j) = KeyAt(b, j)
      BY <1>3, <1>4, <2>1, <2>3
    <2> QED
      BY <1>2, <2>2, <2>3, <2>4
  <1> QED
    BY <1>5, <1>6

\* Both sides of the comparison are truth values.
LEMMA ComparesToTruth ==
    ASSUME NEW a, NEW b
    PROVE  Scheme!VersionTupleGreater(a, b) \in BOOLEAN /\ Older(a, b) \in BOOLEAN
  <1> DEFINE shorter == IF Len(a) < Len(b) THEN Len(a) ELSE Len(b)
             differ == {i \in 1..shorter : a[i] # b[i]}
             k == CHOOSE i \in differ : \A j \in differ : i <= j
  <1>1. Scheme!VersionTupleGreater(a, b) =
            IF differ # {}
            THEN IF a[k].rank = b[k].rank THEN a[k].val > b[k].val ELSE a[k].rank < b[k].rank
            ELSE \/ Len(a) > Len(b) /\ a[shorter + 1].rank = 0
                 \/ Len(a) < Len(b) /\ b[shorter + 1].rank # 0
    BY DEF Scheme!VersionTupleGreater, Scheme!Least, Scheme!NumberRank
  <1>5. Older(a, b) \in BOOLEAN
    BY DEF Older, Precedes
  <1> HIDE DEF k, differ, shorter
  <1>2. \A x, y : (x > y) \in BOOLEAN /\ (x < y) \in BOOLEAN
    OBVIOUS
  <1>3. (IF a[k].rank = b[k].rank THEN a[k].val > b[k].val ELSE a[k].rank < b[k].rank) \in BOOLEAN
    BY <1>2, Zenon
  <1>4. (\/ Len(a) > Len(b) /\ a[shorter + 1].rank = 0
         \/ Len(a) < Len(b) /\ b[shorter + 1].rank # 0) \in BOOLEAN
    BY Zenon
  <1> QED
    BY <1>1, <1>3, <1>4, <1>5, Zenon

LEMMA GreaterIsBefore ==
    ASSUME NEW a, GoodVersion(a), NEW b, GoodVersion(b)
    PROVE  Scheme!VersionTupleGreater(a, b) <=> Before(KeysOf(b), KeysOf(a), LessThan)
  <1> DEFINE shorter == IF Len(a) < Len(b) THEN Len(a) ELSE Len(b)
             differ == {i \in 1..shorter : a[i] # b[i]}
             k == CHOOSE i \in differ : \A j \in differ : i <= j
             first == IF differ # {} THEN k ELSE shorter + 1
  <1>1. /\ Len(a) \in Nat /\ Len(b) \in Nat /\ shorter \in Nat
        /\ \A i \in 1..shorter : i \in Place /\ i <= Len(a) /\ i <= Len(b)
        /\ shorter + 1 \in Place
    BY DEF GoodVersion, Place
  <1>2. Scheme!VersionTupleGreater(a, b) =
            IF differ # {}
            THEN IF a[k].rank = b[k].rank THEN a[k].val > b[k].val ELSE a[k].rank < b[k].rank
            ELSE \/ Len(a) > Len(b) /\ a[shorter + 1].rank = 0
                 \/ Len(a) < Len(b) /\ b[shorter + 1].rank # 0
    BY DEF Scheme!VersionTupleGreater, Scheme!Least, Scheme!NumberRank
  <1>3. differ # {} => k \in differ /\ \A j \in 1..k - 1 : j \notin differ
    <2> SUFFICES ASSUME differ # {} PROVE k \in differ /\ \A j \in 1..k - 1 : j \notin differ
      OBVIOUS
    <2>1. differ \in SUBSET Nat
      BY <1>1 DEF Place
    <2>2. \E i \in differ : \A j \in differ : i <= j
      <3> HIDE DEF differ
      <3> QED
        BY <2>1, LeastOf
    <2>3. k \in differ /\ \A j \in differ : k <= j
      <3> HIDE DEF differ
      <3> QED
        BY <2>2
    <2> HIDE DEF k, differ
    <2>4. k \in Nat /\ \A j \in 1..k - 1 : ~(k <= j)
      BY <2>1, <2>3
    <2> QED
      BY <2>3, <2>4
  <1>4. first \in Place /\ \A j \in 1..first - 1 : j \in 1..shorter /\ j \notin differ
    <2>1. CASE differ # {}
      <3> HIDE DEF k
      <3>1. first = k /\ k \in 1..shorter
        BY <1>3, <2>1
      <3>2. \A j \in 1..k - 1 : j \in 1..shorter
        BY <1>1, <3>1
      <3> QED
        BY <1>1, <1>3, <2>1, <3>1, <3>2
    <2>2. CASE differ = {}
      <3>1. first = shorter + 1 /\ \A j \in 1..first - 1 : j \in 1..shorter
        BY <1>1, <2>2
      <3> HIDE DEF differ, first, shorter
      <3> QED
        BY <1>1, <2>2, <3>1
    <2> QED
      BY <2>1, <2>2
  <1>5. \A j \in 1..first - 1 : KeysOf(b)[j] = KeysOf(a)[j]
    <2> SUFFICES ASSUME NEW j \in 1..first - 1 PROVE KeysOf(b)[j] = KeysOf(a)[j]
      OBVIOUS
    <2>1. j \in Place /\ j <= Len(a) /\ j <= Len(b) /\ a[j] = b[j]
      <3> HIDE DEF first, shorter
      <3> QED
        BY <1>1, <1>4
    <2> QED
      BY <2>1, KeyIsInt
  <1>6. first \in Place /\ KeysOf(a)[first] = KeyAt(a, first) /\ KeysOf(b)[first] = KeyAt(b, first)
        /\ KeyAt(a, first) \in Int /\ KeyAt(b, first) \in Int
    <2> HIDE DEF first
    <2> QED
      BY <1>4, KeyIsInt
  <1>7. <<KeysOf(b)[first], KeysOf(a)[first]>> \in LessThan <=> KeyAt(b, first) < KeyAt(a, first)
    <2> HIDE DEF first
    <2> QED
      BY <1>6, LessThanIsStrict
  <1>8. CASE KeyAt(a, first) # KeyAt(b, first)
    <2>1. Before(KeysOf(b), KeysOf(a), LessThan) <=> KeyAt(b, first) < KeyAt(a, first)
      <3> HIDE DEF first
      <3> QED
        BY <1>5, <1>6, <1>7, <1>8, FirstDecides, LessThanIsStrict
    <2>2. CASE differ # {}
      <3>1. first = k /\ k \in Place /\ k <= Len(a) /\ k <= Len(b) /\ a[k] # b[k]
        <4> HIDE DEF k
        <4> QED
          BY <1>1, <1>3, <2>2
      <3> HIDE DEF k, differ, first, shorter
      <3>2. /\ KeyAt(a, k) = IF a[k].rank = 0 THEN a[k].val + 1 ELSE a[k].val
            /\ KeyAt(b, k) = IF b[k].rank = 0 THEN b[k].val + 1 ELSE b[k].val
            /\ a[k] \in Segments /\ b[k] \in Segments
        BY <3>1, KeyIsInt
      <3>3. /\ a[k].val \in Int /\ a[k].rank \in {0, 1} /\ (a[k].rank = 0 => a[k].val >= 0) /\ (a[k].rank = 1 => a[k].val < 0)
            /\ b[k].val \in Int /\ b[k].rank \in {0, 1} /\ (b[k].rank = 0 => b[k].val >= 0) /\ (b[k].rank = 1 => b[k].val < 0)
        BY <3>2, SegmentsDiffer
      <3>4. KeyAt(b, k) < KeyAt(a, k) <=> IF a[k].rank = b[k].rank THEN a[k].val > b[k].val ELSE a[k].rank < b[k].rank
        BY <3>2, <3>3
      <3> QED
        BY <1>2, <2>1, <2>2, <3>1, <3>4
    <2>3. CASE differ = {}
      <3>1. first = shorter + 1
        BY <2>3
      <3>2. Scheme!VersionTupleGreater(a, b) <=> \/ Len(a) > Len(b) /\ a[first].rank = 0
                                                 \/ Len(a) < Len(b) /\ b[first].rank # 0
        <4> HIDE DEF k, differ
        <4> QED
          BY <1>2, <2>3, <3>1
      <3>3. Len(a) > Len(b) => first <= Len(a) /\ ~(first <= Len(b))
        BY <1>1, <3>1
      <3>4. Len(a) < Len(b) => first <= Len(b) /\ ~(first <= Len(a))
        BY <1>1, <3>1
      <3>5. Len(a) = Len(b) => ~(first <= Len(b)) /\ ~(first <= Len(a))
        BY <1>1, <3>1
      <3> HIDE DEF k, differ, first, shorter
      <3>6. /\ first <= Len(a) => (KeyAt(a, first) > 0 <=> a[first].rank = 0)
            /\ first <= Len(b) => (KeyAt(b, first) > 0 <=> b[first].rank = 0)
            /\ ~(first <= Len(a)) => KeyAt(a, first) = 0
            /\ ~(first <= Len(b)) => KeyAt(b, first) = 0
        BY <1>6, KeyIsInt
      <3> QED
        BY <1>1, <1>6, <1>8, <2>1, <3>2, <3>3, <3>4, <3>5, <3>6
    <2> QED
      BY <2>2, <2>3
  <1>9. CASE KeyAt(a, first) = KeyAt(b, first)
    <2>1. differ = {}
      <3> SUFFICES ASSUME differ # {} PROVE FALSE
        OBVIOUS
      <3>1. first = k /\ k \in Place /\ k <= Len(a) /\ k <= Len(b) /\ a[k] # b[k]
        <4> HIDE DEF k
        <4> QED
          BY <1>1, <1>3
      <3> HIDE DEF k, differ, first, shorter
      <3>2. /\ KeyAt(a, k) = IF a[k].rank = 0 THEN a[k].val + 1 ELSE a[k].val
            /\ KeyAt(b, k) = IF b[k].rank = 0 THEN b[k].val + 1 ELSE b[k].val
            /\ a[k] \in Segments /\ b[k] \in Segments
        BY <3>1, KeyIsInt
      <3>3. /\ a[k].val \in Int /\ a[k].rank \in {0, 1} /\ (a[k].rank = 0 => a[k].val >= 0) /\ (a[k].rank = 1 => a[k].val < 0)
            /\ b[k].val \in Int /\ b[k].rank \in {0, 1} /\ (b[k].rank = 0 => b[k].val >= 0) /\ (b[k].rank = 1 => b[k].val < 0)
        BY <3>2, SegmentsDiffer
      <3>4. a[k].rank = b[k].rank /\ a[k].val = b[k].val
        BY <1>9, <3>1, <3>2, <3>3
      <3> QED
        BY <3>1, <3>2, <3>4, SegmentsDiffer
    <2>2. first = shorter + 1
      BY <2>1
    <2>3. Len(a) = Len(b)
      <3>1. Len(a) > Len(b) => first <= Len(a) /\ ~(first <= Len(b))
        BY <1>1, <2>2
      <3>2. Len(a) < Len(b) => first <= Len(b) /\ ~(first <= Len(a))
        BY <1>1, <2>2
      <3> HIDE DEF k, differ, first, shorter
      <3>3. /\ first <= Len(a) => KeyAt(a, first) # 0
            /\ first <= Len(b) => KeyAt(b, first) # 0
            /\ ~(first <= Len(a)) => KeyAt(a, first) = 0
            /\ ~(first <= Len(b)) => KeyAt(b, first) = 0
        BY <1>6, KeyIsInt
      <3> QED
        BY <1>1, <1>9, <3>1, <3>2, <3>3
    <2>4. ~Scheme!VersionTupleGreater(a, b)
      <3> HIDE DEF k, differ
      <3> QED
        BY <1>1, <1>2, <2>1, <2>3
    <2>5. shorter = Len(a) /\ shorter = Len(b)
      BY <1>1, <2>3
    <2>6. \A i \in Place : KeysOf(b)[i] = KeysOf(a)[i]
      <3> SUFFICES ASSUME NEW i \in Place PROVE KeysOf(b)[i] = KeysOf(a)[i]
        OBVIOUS
      <3>1. CASE i <= Len(a)
        <4>0. first = Len(a) + 1
          BY <2>2, <2>5
        <4> HIDE DEF first, shorter, differ, k
        <4>1. i \in 1..first - 1
          BY <1>1, <3>1, <4>0 DEF Place
        <4> QED
          BY <1>5, <4>1
      <3>2. CASE ~(i <= Len(a))
        <4>1. ~(i <= Len(b))
          BY <2>3, <3>2
        <4> HIDE DEF first
        <4> QED
          BY <3>2, <4>1, KeyIsInt
      <3> QED
        BY <3>1, <3>2
    <2> QED
      BY <2>4, <2>6, LessThanIsStrict, SameIsNotBefore
  <1> QED
    BY <1>8, <1>9

\* The highest of the wanted tags is newer than none of them, whatever their number and order.
LEMMA HighestIsNewest ==
    ASSUME NEW tags, Len(tags) \in Nat, NEW wanted \in SUBSET (1..Len(tags)),
           \A i \in wanted : GoodVersion(tags[i].version)
    PROVE  IF wanted = {} THEN Scheme!HighestVersion(tags, wanted) = Scheme!Failed
           ELSE \E b \in wanted : /\ Scheme!HighestVersion(tags, wanted) = tags[b]
                                  /\ \A i \in wanted : ~Older(tags[b].version, tags[i].version)
  <1> DEFINE Greater(x, y) == Scheme!VersionTupleGreater(tags[x].version, tags[y].version)
             greater == {p \in wanted \X wanted : Greater(p[1], p[2])}
             b == Scheme!Best(Len(tags), wanted, greater)
             K(x) == KeysOf(tags[x].version)
  <1>1. Scheme!HighestVersion(tags, wanted) = IF b = 0 THEN Scheme!Failed ELSE tags[b]
    BY DEF Scheme!HighestVersion
  <1>2. \A x, y \in wanted : Greater(x, y) <=> Before(K(y), K(x), LessThan)
    BY GreaterIsBefore
  <1>3. \A x, y \in wanted : Older(tags[x].version, tags[y].version) <=> Before(K(x), K(y), LessThan)
    BY OlderIsBefore
  <1> HIDE DEF Greater
  <1>4. \A x, y : <<x, y>> \in greater <=> x \in wanted /\ y \in wanted /\ Greater(x, y)
    OBVIOUS
  <1>5. \A x, y : <<x, y>> \in greater <=> x \in wanted /\ y \in wanted /\ Before(K(y), K(x), LessThan)
    BY <1>2, <1>4, Zenon
  <1> HIDE DEF greater, K
  <1>6. Irreflexive(greater)
    BY <1>5, BeforeIsStrict, LessThanIsStrict DEF Irreflexive
  <1>7. Transitive(greater)
    <2> SUFFICES ASSUME NEW x, NEW y, NEW z, <<x, y>> \in greater, <<y, z>> \in greater PROVE <<x, z>> \in greater
      BY DEF Transitive
    <2>1. Before(K(z), K(x), LessThan)
      BY <1>5, BeforeIsStrict, LessThanIsStrict
    <2> QED
      BY <1>5, <2>1
  <1>8. IF wanted = {} THEN b = 0 ELSE BestIn(b, wanted, greater)
    BY <1>6, <1>7, BestIsBest
  <1> HIDE DEF b
  <1>9. CASE wanted # {}
    <2>1. b \in wanted /\ \A i \in wanted : <<i, b>> \notin greater
      BY <1>8, <1>9 DEF BestIn
    <2>2. b # 0
      BY <2>1
    <2>3. \A i \in wanted : ~Older(tags[b].version, tags[i].version)
      BY <1>3, <1>5, <2>1
    <2> QED
      BY <1>1, <1>9, <2>1, <2>2, <2>3
  <1> QED
    BY <1>1, <1>8, <1>9

-----------------------------------------------------------------------------
(* check-versions.py: the pages of a list of releases. *)

LEMMA SchemeCardinality == ASSUME NEW S PROVE Scheme!Cardinality(S) = Cardinality(S)
  BY DEF Scheme!Cardinality, Cardinality

LEMMA PageOf ==
    ASSUME NEW size \in Nat \ {0}, NEW i \in Nat \ {0}
    PROVE  \E p \in Nat \ {0} : (p - 1) * size < i /\ i <= p * size /\ p - 1 <= (p - 1) * size
  <1> DEFINE S == {p \in Nat : i <= p * size}
  <1>1. i \in S
    OBVIOUS
  <1>2. PICK p \in S : \A q \in S : p <= q
    BY <1>1, LeastOf, S \in SUBSET Nat
  <1>3. p # 0
    BY <1>2
  <1>4. p - 1 \in Nat /\ p - 1 \notin S
    BY <1>2, <1>3
  <1>5. (p - 1) * size \in Int /\ ~(i <= (p - 1) * size)
    BY <1>4
  <1>6. p - 1 <= (p - 1) * size
    BY <1>4
  <1> QED
    BY <1>2, <1>3, <1>5, <1>6

\* The pages are read as if they were one list that ends at the horizon.
LEMMA PagesAreOneList ==
    ASSUME NEW count \in Nat, NEW size \in Nat \ {0}, NEW horizon \in Nat
    PROVE  Scheme!Scanned(count, size, horizon) = {i \in 1..count : i <= horizon}
  <1> DEFINE OnPage(p) == {i \in Scheme!Page(count, size, p) : i <= horizon}
             Read(p) == \A q \in 1..p - 1 : Scheme!Cardinality(OnPage(q)) = size
             read == {p \in Scheme!Pages(size, horizon) : Read(p)}
             all == {OnPage(p) : p \in read}
  <1>1. Scheme!Scanned(count, size, horizon) = UNION all
    BY Zenon DEF Scheme!Scanned
  <1>2. \A p : \A i \in OnPage(p) : i \in 1..count /\ i <= horizon
    BY DEF Scheme!Page
  <1>3. ASSUME NEW i \in 1..count, i <= horizon PROVE i \in UNION all
    <2>0. i \in Nat \ {0} /\ i <= count
      OBVIOUS
    <2>1. PICK p \in Nat \ {0} : (p - 1) * size < i /\ i <= p * size /\ p - 1 <= (p - 1) * size
      BY <2>0, PageOf, Zenon
    <2>2. (p - 1) * size \in Nat
      OBVIOUS
    <2>3. p \in 1..horizon /\ (p - 1) * size < horizon
      BY <1>3, <2>1, <2>2
    <2>4. p \in Scheme!Pages(size, horizon)
      BY <2>3 DEF Scheme!Pages
    <2>5. Read(p)
      <3> SUFFICES ASSUME NEW q \in 1..p - 1 PROVE Scheme!Cardinality(OnPage(q)) = size
        OBVIOUS
      <3>1. q * size \in Nat /\ (q - 1) * size \in Nat /\ (q - 1) * size = q * size - size
        OBVIOUS
      <3>2. q * size <= (p - 1) * size
        OBVIOUS
      <3> DEFINE low == (q - 1) * size
                 high == q * size
      <3>3. low \in Nat /\ high \in Nat /\ high = low + size /\ high < i
        BY <2>0, <2>1, <2>2, <3>1, <3>2
      <3>4. Scheme!Page(count, size, q) = {j \in 1..count : low < j /\ j <= high}
        BY DEF Scheme!Page
      <3> HIDE DEF low, high
      <3>5. OnPage(q) = (low + 1)..high
        BY <1>3, <2>0, <3>3, <3>4
      <3>6. Cardinality((low + 1)..high) = high - (low + 1) + 1
        BY <3>3, FS_Interval
      <3>7. high - (low + 1) + 1 = size
        BY <3>3
      <3> HIDE DEF OnPage
      <3> QED
        BY <3>5, <3>6, <3>7, SchemeCardinality
    <2>6. i \in OnPage(p)
      BY <1>3, <2>1 DEF Scheme!Page
    <2> HIDE DEF Read
    <2>7. p \in read
      BY <2>4, <2>5
    <2> HIDE DEF read
    <2>8. OnPage(p) \in all
      BY <2>7
    <2> HIDE DEF OnPage, all
    <2> QED
      BY <2>6, <2>8
  <1>4. ASSUME NEW i \in UNION all PROVE i \in 1..count /\ i <= horizon
    <2> HIDE DEF OnPage, read
    <2>1. PICK p \in read : i \in OnPage(p)
      OBVIOUS
    <2> QED
      BY <1>2, <2>1
  <1> HIDE DEF all
  <1>5. \A i : i \in UNION all <=> i \in {j \in 1..count : j <= horizon}
    BY <1>3, <1>4
  <1> QED
    BY <1>1, <1>5

-----------------------------------------------------------------------------
(* check-versions.py: fetchers that take the highest of what they see. *)

\* A list of releases, entries of any page size and any horizon.
GithubOf(in) == /\ in.svc.tagFilter /\ in.svc.perPage \in Nat \ {0} /\ in.svc.horizon \in Nat
                /\ Sequenced(in.releases) /\ \A r \in Listed(in.releases) : GoodVersion(r.tag.version)
\* A window of tags, which the entry's regex reads or not.
HubOf(in) == /\ in.svc.window \in Nat /\ GoodVersion(in.pin.version)
             /\ Sequenced(in.tags) /\ \A t \in Listed(in.tags) : GoodVersion(t.version)

AnyReleases == gate = "none" /\ \E in : GithubOf(in) /\ ReleasesRead(in)
AnyHub == gate = "none" /\ \E in : HubOf(in) /\ HubRead(in)
AnyLsio == gate = "none" /\ \E in : HubOf(in) /\ LsioRead(in)

LEMMA ListedAre ==
    ASSUME NEW s, Sequenced(s)
    PROVE  /\ Len(s) \in Nat /\ DOMAIN s = 1..Len(s)
           /\ Listed(s) = {s[i] : i \in 1..Len(s)}
  BY DEF Sequenced, Listed

LEMMA TagsOf ==
    ASSUME NEW s, Sequenced(s)
    PROVE  /\ Len(Scheme!Tags(s)) = Len(s) /\ \A i \in 1..Len(s) : Scheme!Tags(s)[i] = s[i].tag
  <1> DEFINE T == {s[i].tag : i \in 1..Len(s)}
  <1>1. Len(s) \in Nat /\ DOMAIN s = 1..Len(s)
    BY ListedAre
  <1>2. Scheme!Tags(s) = [i \in 1..Len(s) |-> s[i].tag]
    BY <1>1 DEF Scheme!Tags
  <1>3. [i \in 1..Len(s) |-> s[i].tag] \in [1..Len(s) -> T]
    OBVIOUS
  <1> HIDE DEF T
  <1>4. Scheme!Tags(s) \in Seq(T) /\ DOMAIN Scheme!Tags(s) = 1..Len(s)
    BY <1>1, <1>2, <1>3
  <1>5. Len(Scheme!Tags(s)) = Len(s)
    BY <1>1, <1>4
  <1> QED
    BY <1>2, <1>5

\* The answer is the newest published release up to the horizon.
LEMMA NewestRelease ==
    ASSUME NEW in, GithubOf(in), NEW res, res = Scheme!FetchGithubRelease(in.svc, in.releases, Scheme!Failed)
    PROVE  LET seen == {in.releases[i] : i \in {j \in DOMAIN in.releases : j <= in.svc.horizon}}
               good == {r.tag : r \in {x \in seen : x.kind = "release" /\ x.matches}}
           IN  IF good = {} THEN res = Scheme!Failed
               ELSE res \in good /\ \A t \in good : ~Older(res.version, t.version)
  <1> DEFINE rs == in.releases
             n == Len(rs)
             tags == Scheme!Tags(rs)
             Out(r) == r.kind = "release" /\ r.matches
             scanned == Scheme!Scanned(n, in.svc.perPage, in.svc.horizon)
             wanted == {i \in scanned : Out(rs[i])}
             seen == {rs[i] : i \in {j \in DOMAIN rs : j <= in.svc.horizon}}
             good == {r.tag : r \in {x \in seen : Out(x)}}
  <1>1. /\ n \in Nat /\ DOMAIN rs = 1..n /\ Len(tags) = n /\ \A i \in 1..n : tags[i] = rs[i].tag
        /\ \A i \in 1..n : GoodVersion(rs[i].tag.version)
    BY ListedAre, TagsOf DEF GithubOf
  <1>2. res = Scheme!HighestVersion(tags, wanted)
    BY DEF Scheme!FetchGithubRelease, GithubOf
  <1>3. scanned = {i \in 1..n : i <= in.svc.horizon}
    BY <1>1, PagesAreOneList DEF GithubOf
  <1> HIDE DEF rs, n, tags, Out, scanned
  <1>4. wanted \in SUBSET (1..Len(tags)) /\ \A i \in wanted : GoodVersion(tags[i].version)
    BY <1>1, <1>3
  <1>5. \A t : t \in good <=> \E i \in wanted : t = tags[i]
    <2>1. \A x : x \in seen <=> \E i \in 1..n : i <= in.svc.horizon /\ x = rs[i]
      BY <1>1
    <2>2. \A i : i \in wanted <=> i \in 1..n /\ i <= in.svc.horizon /\ Out(rs[i])
      BY <1>3
    <2>3. \A t : t \in good <=> \E x \in seen : Out(x) /\ t = x.tag
      OBVIOUS
    <2> HIDE DEF seen, good, wanted
    <2> QED
      BY <1>1, <2>1, <2>2, <2>3
  <1>6. IF wanted = {} THEN res = Scheme!Failed
        ELSE \E b \in wanted : res = tags[b] /\ \A i \in wanted : ~Older(tags[b].version, tags[i].version)
    <2> HIDE DEF wanted
    <2> QED
      BY <1>1, <1>2, <1>4, HighestIsNewest
  <1>7. IF good = {} THEN res = Scheme!Failed
        ELSE res \in good /\ \A t \in good : ~Older(res.version, t.version)
    <2> HIDE DEF good, wanted
    <2> QED
      BY <1>5, <1>6
  <1> QED
    BY <1>7 DEF rs, Out

\* What a tag list yields is of the list, and, with its major, at least the pin.
LEMMA NotBelowThePin ==
    ASSUME NEW svc, NEW tags, Sequenced(tags), \A t \in Listed(tags) : GoodVersion(t.version),
           NEW pin, GoodVersion(pin.version), svc.window \in Nat,
           NEW res, res = Scheme!FetchDockerhubVersion(svc, tags, pin), res # Scheme!Failed
    PROVE  /\ res \in Listed(tags)
           /\ pin.version # Scheme!Unread => ~Older(res.version, pin.version)
           /\ svc.pinMajor /\ pin.version # Scheme!Unread /\ pin.version[1].rank = Scheme!NumberRank =>
                  res.version[1] = pin.version[1]
  <1> DEFINE Wanted(t) == /\ t.version # Scheme!Unread
                          /\ t.prefix \in svc.prefixes
                          /\ (svc.pinMajor /\ Scheme!Major(pin.version) # {}) => Scheme!Major(t.version) = Scheme!Major(pin.version)
             wanted == {i \in DOMAIN tags : i <= svc.window /\ Wanted(tags[i])}
             best == Scheme!HighestVersion(tags, wanted)
  <1>1. Scheme!DockerhubBestTag(svc, tags, pin) = best
    BY DEF Scheme!DockerhubBestTag
  <1>2. /\ res = best
        /\ pin.version # Scheme!Unread => ~Scheme!VersionTupleGreater(pin.version, best.version)
    <2> HIDE DEF best
    <2> QED
      BY <1>1 DEF Scheme!FetchDockerhubVersion
  <1>3. Len(tags) \in Nat /\ DOMAIN tags = 1..Len(tags) /\ Listed(tags) = {tags[i] : i \in 1..Len(tags)}
    BY ListedAre
  <1> HIDE DEF Wanted
  <1>4. wanted \in SUBSET (1..Len(tags)) /\ \A i \in wanted : GoodVersion(tags[i].version) /\ Wanted(tags[i]) /\ tags[i] \in Listed(tags)
    BY <1>3
  <1> HIDE DEF wanted
  <1>5. PICK b \in wanted : best = tags[b]
    <2>1. wanted # {}
      BY <1>2, <1>3, <1>4, HighestIsNewest
    <2> QED
      BY <1>3, <1>4, <2>1, HighestIsNewest
  <1> HIDE DEF best
  <1>6. res \in Listed(tags) /\ GoodVersion(res.version) /\ Wanted(res)
    BY <1>2, <1>4, <1>5
  <1>7. pin.version # Scheme!Unread => ~Older(res.version, pin.version)
    BY <1>2, <1>6, GreaterIsBefore, OlderIsBefore
  <1>8. ASSUME svc.pinMajor, pin.version # Scheme!Unread, pin.version[1].rank = Scheme!NumberRank
        PROVE  res.version[1] = pin.version[1]
    <2>1. Scheme!Major(pin.version) = {pin.version[1].val}
      BY <1>8 DEF Scheme!Major
    <2>2. Scheme!Major(res.version) = {pin.version[1].val}
      BY <1>6, <1>8, <2>1 DEF Wanted
    <2>3. /\ res.version # Scheme!Unread /\ res.version[1].rank = Scheme!NumberRank
          /\ {res.version[1].val} = {pin.version[1].val}
      BY <2>2 DEF Scheme!Major
    <2>4. \A v : GoodVersion(v) /\ v # Scheme!Unread => v[1] \in Segments
      BY DEF GoodVersion, Scheme!Unread
    <2>5. res.version[1] \in Segments /\ pin.version[1] \in Segments
      BY <1>6, <1>8, <2>3, <2>4
    <2>6. res.version[1].val = pin.version[1].val /\ res.version[1].rank = pin.version[1].rank
      BY <1>8, <2>3
    <2> QED
      BY <2>5, <2>6, SegmentsDiffer
  <1> QED
    BY <1>6, <1>7, <1>8

-----------------------------------------------------------------------------
(* check-versions.py: the order of Debian versions. *)

\* Chunks as they are split: a text of orders other than that of its end, and a number.
Texts == Seq(Int \ {0})
Chunks == [text : Texts, num : Nat]
GoodDebian(v) == v.epoch \in Int /\ v.upstream \in Seq(Chunks) /\ v.revision \in Seq(Chunks)

CharsOf(t) == [k \in Place |-> CharAt(t, k)]
ChunksOf(p) == [c \in Place |-> ChunkAt(p, c)]
TextBefore(x, y) == Before(CharsOf(x.text), CharsOf(y.text), LessThan)
NumBefore(x, y) == x.text = y.text /\ x.num < y.num
ChunkFirst(x, y) == TextBefore(x, y) \/ NumBefore(x, y)
ChunkBefore == {p \in Chunks \X Chunks : ChunkFirst(p[1], p[2])}

LEMMA CharIs ==
    ASSUME NEW t \in Texts, NEW k \in Place
    PROVE  /\ Len(t) \in Nat /\ CharAt(t, k) \in Int /\ CharsOf(t)[k] = CharAt(t, k)
           /\ CharAt(t, k) # 0 <=> k <= Len(t)
           /\ k <= Len(t) => CharAt(t, k) = t[k]
           /\ Scheme!At(t, k, 0) = CharAt(t, k)
  <1>1. Len(t) \in Nat /\ k \in Nat /\ k > 0 /\ DOMAIN t = 1..Len(t)
    BY DEF Texts, Place
  <1>2. CharsOf(t)[k] = CharAt(t, k)
    BY DEF CharsOf
  <1>3. CASE k <= Len(t)
    <2>1. t[k] \in Int \ {0} /\ k \in DOMAIN t
      BY <1>1, <1>3 DEF Texts
    <2> QED
      BY <1>1, <1>2, <1>3, <2>1 DEF CharAt, Scheme!At
  <1>4. CASE ~(k <= Len(t))
    BY <1>1, <1>2, <1>4 DEF CharAt, Scheme!At
  <1> QED
    BY <1>3, <1>4

LEMMA TextsAreTheirChars ==
    ASSUME NEW s \in Texts, NEW t \in Texts, \A k \in Place : CharsOf(s)[k] = CharsOf(t)[k]
    PROVE  s = t
  <1>1. Len(s) \in Nat /\ Len(t) \in Nat /\ s \in Seq(Int) /\ t \in Seq(Int)
    BY DEF Texts
  <1>2. \A k \in Place : (k <= Len(s) <=> k <= Len(t)) /\ (k <= Len(s) => s[k] = t[k])
    BY CharIs
  <1>3. Len(s) = Len(t)
    <2>1. CASE Len(s) > Len(t)
      <3>1. Len(s) \in Place /\ ~(Len(s) <= Len(t))
        BY <1>1, <2>1 DEF Place
      <3> QED
        BY <1>1, <1>2, <3>1
    <2>2. CASE Len(t) > Len(s)
      <3>1. Len(t) \in Place /\ ~(Len(t) <= Len(s))
        BY <1>1, <2>2 DEF Place
      <3> QED
        BY <1>1, <1>2, <3>1
    <2> QED
      BY <1>1, <2>1, <2>2
  <1>4. \A k \in 1..Len(s) : s[k] = t[k]
    BY <1>1, <1>2 DEF Place
  <1> QED
    BY <1>1, <1>3, <1>4, SameSequence

LEMMA TextPrecedes ==
    ASSUME NEW s \in Texts, NEW t \in Texts
    PROVE  Precedes(TextKeys(s, Len(s) + Len(t)), TextKeys(t, Len(s) + Len(t))) <=> Before(CharsOf(s), CharsOf(t), LessThan)
  <1> DEFINE n == Len(s) + Len(t)
             Goes == Precedes(TextKeys(s, n), TextKeys(t, n))
  <1>1. n \in Nat /\ Len(s) \in Nat /\ Len(t) \in Nat
    BY DEF Texts
  <1>2. Goes <=> \E i \in 1..n : CharAt(s, i) < CharAt(t, i) /\ \A j \in 1..i - 1 : CharAt(s, j) = CharAt(t, j)
    <2>1. Goes <=> \E i \in 1..n : /\ TextKeys(s, n)[i] < TextKeys(t, n)[i]
                                   /\ \A j \in 1..i - 1 : TextKeys(s, n)[j] = TextKeys(t, n)[j]
      BY DEF Precedes, TextKeys
    <2>2. \A v : \A i \in 1..n : TextKeys(v, n)[i] = CharAt(v, i)
      BY DEF TextKeys
    <2>3. \A i \in 1..n : \A j \in 1..i - 1 : j \in 1..n
      BY <1>1
    <2> HIDE DEF n
    <2> QED
      BY <2>1, <2>2, <2>3
  <1>3. \A i \in Place : /\ CharsOf(s)[i] = CharAt(s, i) /\ CharsOf(t)[i] = CharAt(t, i)
                         /\ CharAt(s, i) \in Int /\ CharAt(t, i) \in Int
                         /\ i > n => CharAt(s, i) = 0 /\ CharAt(t, i) = 0
    <2> SUFFICES ASSUME NEW i \in Place
                 PROVE  /\ CharsOf(s)[i] = CharAt(s, i) /\ CharsOf(t)[i] = CharAt(t, i)
                        /\ CharAt(s, i) \in Int /\ CharAt(t, i) \in Int
                        /\ i > n => CharAt(s, i) = 0 /\ CharAt(t, i) = 0
      OBVIOUS
    <2>1. i > n => ~(i <= Len(s)) /\ ~(i <= Len(t))
      BY <1>1 DEF Place
    <2> QED
      BY <2>1, CharIs
  <1> HIDE DEF n, Goes
  <1>4. \A i \in 1..n : i \in Place /\ \A j \in 1..i - 1 : j \in Place
    BY <1>1 DEF Place
  <1>5. ASSUME Goes PROVE Before(CharsOf(s), CharsOf(t), LessThan)
    <2>1. PICK i \in 1..n : CharAt(s, i) < CharAt(t, i) /\ \A j \in 1..i - 1 : CharAt(s, j) = CharAt(t, j)
      BY <1>2, <1>5
    <2>2. <<CharsOf(s)[i], CharsOf(t)[i]>> \in LessThan
      BY <1>3, <1>4, <2>1, LessThanIsStrict
    <2>3. \A j \in 1..i - 1 : CharsOf(s)[j] = CharsOf(t)[j]
      BY <1>3, <1>4, <2>1
    <2> QED
      BY <1>4, <2>2, <2>3 DEF Before
  <1>6. ASSUME Before(CharsOf(s), CharsOf(t), LessThan) PROVE Goes
    <2>1. PICK i \in Place : <<CharsOf(s)[i], CharsOf(t)[i]>> \in LessThan /\ \A j \in 1..i - 1 : CharsOf(s)[j] = CharsOf(t)[j]
      BY <1>6 DEF Before
    <2>2. CharAt(s, i) < CharAt(t, i)
      BY <1>3, <2>1, LessThanIsStrict
    <2>3. i \in 1..n
      BY <1>1, <1>3, <2>2 DEF Place
    <2>4. \A j \in 1..i - 1 : CharAt(s, j) = CharAt(t, j)
      BY <1>3, <1>4, <2>1, <2>3
    <2> QED
      BY <1>2, <2>2, <2>3, <2>4
  <1> QED
    BY <1>5, <1>6 DEF Goes, n

\* The least of a set of places: those before it are not in the set.
LEMMA LeastIsFirst ==
    ASSUME NEW S \in SUBSET Nat, S # {}
    PROVE  Scheme!Least(S) \in S /\ \A j \in 1..Scheme!Least(S) - 1 : j \notin S
  <1>1. \E i \in S : \A j \in S : i <= j
    BY LeastOf
  <1> DEFINE k == CHOOSE i \in S : \A j \in S : i <= j
  <1>2. k \in S /\ \A j \in S : k <= j
    BY <1>1
  <1>3. Scheme!Least(S) = k
    BY DEF Scheme!Least
  <1> HIDE DEF k
  <1>4. \A j \in 1..k - 1 : ~(k <= j)
    BY <1>2
  <1> QED
    BY <1>2, <1>3, <1>4

LEMMA TextIsBefore ==
    ASSUME NEW s \in Texts, NEW t \in Texts
    PROVE  Scheme!TextLess(s, t) <=> Before(CharsOf(s), CharsOf(t), LessThan)
  <1> DEFINE n == Scheme!Longer(s, t)
             differ == {k \in 1..n : Scheme!At(s, k, 0) # Scheme!At(t, k, 0)}
             k == Scheme!Least(differ)
  <1>1. n \in Nat /\ Len(s) <= n /\ Len(t) <= n /\ Len(s) \in Nat /\ Len(t) \in Nat
    BY DEF Scheme!Longer, Texts
  <1>2. Scheme!TextLess(s, t) <=> differ # {} /\ Scheme!At(s, k, 0) < Scheme!At(t, k, 0)
    BY DEF Scheme!TextLess
  <1> HIDE DEF n
  <1>3. \A i \in Place : /\ Scheme!At(s, i, 0) = CharsOf(s)[i] /\ Scheme!At(t, i, 0) = CharsOf(t)[i]
                         /\ CharsOf(s)[i] \in Int /\ CharsOf(t)[i] \in Int
                         /\ ~(i <= Len(s)) => CharsOf(s)[i] = 0
                         /\ ~(i <= Len(t)) => CharsOf(t)[i] = 0
    BY CharIs
  <1>4. differ \in SUBSET Nat
    OBVIOUS
  <1>5. \A i \in 1..n : i \in Place
    BY DEF Place
  <1>6. CASE differ # {}
    <2>1. k \in differ /\ \A j \in 1..k - 1 : j \notin differ
      <3> HIDE DEF differ
      <3> QED
        BY <1>4, <1>6, LeastIsFirst
    <2> HIDE DEF k
    <2>2. k \in 1..n /\ \A j \in 1..k - 1 : j \in 1..n
      BY <1>1, <2>1
    <2>3. k \in Place /\ CharsOf(s)[k] # CharsOf(t)[k]
      BY <1>3, <1>5, <2>1, <2>2
    <2>4. \A j \in 1..k - 1 : CharsOf(s)[j] = CharsOf(t)[j]
      BY <1>3, <1>5, <2>1, <2>2
    <2>5. Before(CharsOf(s), CharsOf(t), LessThan) <=> <<CharsOf(s)[k], CharsOf(t)[k]>> \in LessThan
      BY <2>3, <2>4, FirstDecides, LessThanIsStrict
    <2>6. <<CharsOf(s)[k], CharsOf(t)[k]>> \in LessThan <=> CharsOf(s)[k] < CharsOf(t)[k]
      BY <1>3, <2>3, LessThanIsStrict
    <2> HIDE DEF differ
    <2> QED
      BY <1>2, <1>3, <1>6, <2>3, <2>5, <2>6
  <1>7. CASE differ = {}
    <2>1. \A i \in Place : CharsOf(s)[i] = CharsOf(t)[i]
      <3> SUFFICES ASSUME NEW i \in Place PROVE CharsOf(s)[i] = CharsOf(t)[i]
        OBVIOUS
      <3>1. CASE i \in 1..n
        BY <1>3, <1>7, <3>1
      <3>2. CASE i \notin 1..n
        <4>1. ~(i <= Len(s)) /\ ~(i <= Len(t))
          BY <1>1, <3>2 DEF Place
        <4> QED
          BY <1>3, <4>1
      <3> QED
        BY <3>1, <3>2
    <2> HIDE DEF differ
    <2> QED
      BY <1>2, <1>7, <2>1, SameIsNotBefore, LessThanIsStrict
  <1> QED
    BY <1>6, <1>7

LEMMA TextsCompare ==
    ASSUME NEW s \in Texts, NEW t \in Texts
    PROVE  s = t \/ Before(CharsOf(s), CharsOf(t), LessThan) \/ Before(CharsOf(t), CharsOf(s), LessThan)
  <1> SUFFICES ASSUME s # t
               PROVE  Before(CharsOf(s), CharsOf(t), LessThan) \/ Before(CharsOf(t), CharsOf(s), LessThan)
    OBVIOUS
  <1>1. PICK k \in Place : CharsOf(s)[k] # CharsOf(t)[k]
    BY TextsAreTheirChars
  <1>2. PICK i \in 1..k : CharsOf(s)[i] # CharsOf(t)[i] /\ \A j \in 1..i - 1 : CharsOf(s)[j] = CharsOf(t)[j]
    BY <1>1, SomePlaceIsFirst
  <1>3. i \in Place
    BY DEF Place
  <1>4. CharsOf(s)[i] \in Int /\ CharsOf(t)[i] \in Int
    BY <1>3, CharIs
  <1>5. <<CharsOf(s)[i], CharsOf(t)[i]>> \in LessThan \/ <<CharsOf(t)[i], CharsOf(s)[i]>> \in LessThan
    BY <1>2, <1>4, LessThanIsStrict
  <1> QED
    BY <1>2, <1>3, <1>5 DEF Before

LEMMA ChunkBeforeIsStrict ==
    /\ Irreflexive(ChunkBefore) /\ Transitive(ChunkBefore)
    /\ \A x, y \in Chunks : x = y \/ <<x, y>> \in ChunkBefore \/ <<y, x>> \in ChunkBefore
  <1>1. \A x, y : <<x, y>> \in ChunkBefore <=> x \in Chunks /\ y \in Chunks /\ (TextBefore(x, y) \/ NumBefore(x, y))
    <2>1. \A x, y : <<x, y>> \in ChunkBefore <=> x \in Chunks /\ y \in Chunks /\ ChunkFirst(x, y)
      BY DEF ChunkBefore
    <2> QED
      BY <2>1, Zenon DEF ChunkFirst
  <1>2. \A x : ~TextBefore(x, x)
    BY BeforeIsStrict, LessThanIsStrict DEF TextBefore
  <1>3. \A x, y, z : TextBefore(x, y) /\ TextBefore(y, z) => TextBefore(x, z)
    BY BeforeIsStrict, LessThanIsStrict DEF TextBefore
  <1>4. \A x, y, z : /\ NumBefore(x, y) /\ TextBefore(y, z) => TextBefore(x, z)
                     /\ TextBefore(x, y) /\ NumBefore(y, z) => TextBefore(x, z)
    BY DEF TextBefore, NumBefore
  <1>5. \A x, y \in Chunks : x.text = y.text \/ TextBefore(x, y) \/ TextBefore(y, x)
    BY TextsCompare DEF Chunks, TextBefore
  <1>6. \A x \in Chunks : x.num \in Nat /\ x = [text |-> x.text, num |-> x.num]
    BY DEF Chunks
  <1>a. \A x \in Chunks : ~NumBefore(x, x)
    BY <1>6 DEF NumBefore
  <1>b. \A x, y, z \in Chunks : NumBefore(x, y) /\ NumBefore(y, z) => NumBefore(x, z)
    BY <1>6 DEF NumBefore
  <1>7. Irreflexive(ChunkBefore)
    BY <1>1, <1>2, <1>a, Zenon DEF Irreflexive
  <1>8. Transitive(ChunkBefore)
    BY <1>1, <1>3, <1>4, <1>b, Zenon DEF Transitive
  <1>9. ASSUME NEW x \in Chunks, NEW y \in Chunks
        PROVE  x = y \/ <<x, y>> \in ChunkBefore \/ <<y, x>> \in ChunkBefore
    <2>1. CASE x.text = y.text
      <3>1. x.num = y.num \/ x.num < y.num \/ y.num < x.num
        BY <1>6
      <3> QED
        BY <1>1, <1>6, <2>1, <3>1 DEF NumBefore
    <2> QED
      BY <1>1, <1>5, <2>1
  <1> QED
    BY <1>7, <1>8, <1>9

NoChunk == Chunk(<<>>, 0)

LEMMA ChunkIs ==
    ASSUME NEW p \in Seq(Chunks), NEW c \in Place
    PROVE  /\ Len(p) \in Nat /\ ChunkAt(p, c) \in Chunks /\ ChunksOf(p)[c] = ChunkAt(p, c)
           /\ ~(c <= Len(p)) => ChunkAt(p, c) = NoChunk
           /\ Scheme!At(p, c, NoChunk) = ChunkAt(p, c)
  <1>1. Len(p) \in Nat /\ c \in Nat /\ c > 0 /\ DOMAIN p = 1..Len(p)
    BY DEF Place
  <1>2. ChunksOf(p)[c] = ChunkAt(p, c)
    BY DEF ChunksOf
  <1>3. NoChunk \in Chunks
    BY DEF NoChunk, Chunk, Chunks, Texts
  <1>4. CASE c <= Len(p)
    BY <1>1, <1>2, <1>4 DEF ChunkAt, Scheme!At
  <1>5. CASE ~(c <= Len(p))
    BY <1>1, <1>2, <1>3, <1>5 DEF ChunkAt, Scheme!At, NoChunk
  <1> QED
    BY <1>4, <1>5

LEMMA ChunksDecide ==
    ASSUME NEW x \in Chunks, NEW y \in Chunks
    PROVE  /\ ChunkOlder(x, y) <=> <<x, y>> \in ChunkBefore
           /\ (IF x.text # y.text THEN Scheme!TextLess(x.text, y.text) ELSE x.num < y.num) <=> <<x, y>> \in ChunkBefore
  <1>1. x.text \in Texts /\ y.text \in Texts
    BY DEF Chunks
  <1>2. <<x, y>> \in ChunkBefore <=> TextBefore(x, y) \/ NumBefore(x, y)
    BY DEF ChunkBefore, ChunkFirst
  <1>3. ChunkOlder(x, y) <=> TextBefore(x, y) \/ NumBefore(x, y)
    BY <1>1, TextPrecedes DEF ChunkOlder, TextBefore, NumBefore
  <1>4. TextBefore(x, y) <=> Scheme!TextLess(x.text, y.text)
    BY <1>1, TextIsBefore DEF TextBefore
  <1>5. x.text = y.text => ~TextBefore(x, y)
    BY BeforeIsStrict, LessThanIsStrict DEF TextBefore
  <1> QED
    BY <1>2, <1>3, <1>4, <1>5 DEF NumBefore

\* The checker's comparison of two parts is the order of their chunks.
LEMMA PartLessIsBefore ==
    ASSUME NEW a \in Seq(Chunks), NEW b \in Seq(Chunks)
    PROVE  Scheme!DebianPartLess(a, b) <=> Before(ChunksOf(a), ChunksOf(b), ChunkBefore)
  <1> DEFINE n == Scheme!Longer(a, b)
             differ == {k \in 1..n : Scheme!At(a, k, NoChunk) # Scheme!At(b, k, NoChunk)}
             k == Scheme!Least(differ)
             x == Scheme!At(a, k, NoChunk)
             y == Scheme!At(b, k, NoChunk)
  <1>1. n \in Nat /\ Len(a) <= n /\ Len(b) <= n /\ Len(a) \in Nat /\ Len(b) \in Nat
    BY DEF Scheme!Longer
  <1>2. Scheme!DebianPartLess(a, b) <=> differ # {} /\ IF x.text # y.text THEN Scheme!TextLess(x.text, y.text) ELSE x.num < y.num
    BY DEF Scheme!DebianPartLess, NoChunk, Chunk
  <1> HIDE DEF n
  <1>3. \A i \in Place : /\ Scheme!At(a, i, NoChunk) = ChunksOf(a)[i] /\ Scheme!At(b, i, NoChunk) = ChunksOf(b)[i]
                         /\ ChunksOf(a)[i] \in Chunks /\ ChunksOf(b)[i] \in Chunks
                         /\ ~(i <= Len(a)) => ChunksOf(a)[i] = NoChunk
                         /\ ~(i <= Len(b)) => ChunksOf(b)[i] = NoChunk
    BY ChunkIs
  <1>4. differ \in SUBSET Nat
    OBVIOUS
  <1>5. \A i \in 1..n : i \in Place
    BY DEF Place
  <1>6. CASE differ # {}
    <2>1. k \in differ /\ \A j \in 1..k - 1 : j \notin differ
      <3> HIDE DEF differ
      <3> QED
        BY <1>4, <1>6, LeastIsFirst
    <2> HIDE DEF k
    <2>2. k \in 1..n /\ \A j \in 1..k - 1 : j \in 1..n
      BY <1>1, <2>1
    <2>3. k \in Place /\ ChunksOf(a)[k] # ChunksOf(b)[k] /\ x = ChunksOf(a)[k] /\ y = ChunksOf(b)[k]
      BY <1>3, <1>5, <2>1, <2>2
    <2>4. \A j \in 1..k - 1 : ChunksOf(a)[j] = ChunksOf(b)[j]
      BY <1>3, <1>5, <2>1, <2>2
    <2>5. Before(ChunksOf(a), ChunksOf(b), ChunkBefore) <=> <<ChunksOf(a)[k], ChunksOf(b)[k]>> \in ChunkBefore
      BY <2>3, <2>4, FirstDecides, ChunkBeforeIsStrict
    <2>6. x \in Chunks /\ y \in Chunks
      BY <1>3, <2>3
    <2> HIDE DEF differ, x, y
    <2> QED
      BY <1>2, <1>6, <2>3, <2>5, <2>6, ChunksDecide
  <1>7. CASE differ = {}
    <2>1. \A i \in Place : ChunksOf(a)[i] = ChunksOf(b)[i]
      <3> SUFFICES ASSUME NEW i \in Place PROVE ChunksOf(a)[i] = ChunksOf(b)[i]
        OBVIOUS
      <3>1. CASE i \in 1..n
        BY <1>3, <1>7, <3>1
      <3>2. CASE i \notin 1..n
        <4>1. ~(i <= Len(a)) /\ ~(i <= Len(b))
          BY <1>1, <3>2 DEF Place
        <4> QED
          BY <1>3, <4>1
      <3> QED
        BY <3>1, <3>2
    <2> HIDE DEF differ, x, y
    <2> QED
      BY <1>2, <1>7, <2>1, SameIsNotBefore, ChunkBeforeIsStrict
  <1> QED
    BY <1>6, <1>7

\* The reference order of two parts is that order, too.
LEMMA PartOlderIsBefore ==
    ASSUME NEW p \in Seq(Chunks), NEW q \in Seq(Chunks)
    PROVE  /\ PartOlder(p, q) <=> Before(ChunksOf(p), ChunksOf(q), ChunkBefore)
           /\ SameUpTo(p, q, Len(p) + Len(q)) <=> \A c \in Place : ChunksOf(p)[c] = ChunksOf(q)[c]
  <1> DEFINE n == Len(p) + Len(q)
  <1>1. n \in Nat /\ Len(p) \in Nat /\ Len(q) \in Nat
    OBVIOUS
  <1>2. PartOlder(p, q) <=> \E c \in 1..n : /\ ChunkOlder(ChunkAt(p, c), ChunkAt(q, c))
                                            /\ \A j \in 1..c - 1 : ChunkAt(p, j) = ChunkAt(q, j)
    BY DEF PartOlder, SameUpTo
  <1>3. \A c \in Place : /\ ChunksOf(p)[c] = ChunkAt(p, c) /\ ChunksOf(q)[c] = ChunkAt(q, c)
                         /\ ChunkAt(p, c) \in Chunks /\ ChunkAt(q, c) \in Chunks
                         /\ c > n => ChunkAt(p, c) = NoChunk /\ ChunkAt(q, c) = NoChunk
    <2> SUFFICES ASSUME NEW c \in Place
                 PROVE  /\ ChunksOf(p)[c] = ChunkAt(p, c) /\ ChunksOf(q)[c] = ChunkAt(q, c)
                        /\ ChunkAt(p, c) \in Chunks /\ ChunkAt(q, c) \in Chunks
                        /\ c > n => ChunkAt(p, c) = NoChunk /\ ChunkAt(q, c) = NoChunk
      OBVIOUS
    <2>1. c > n => ~(c <= Len(p)) /\ ~(c <= Len(q))
      BY <1>1 DEF Place
    <2> QED
      BY <2>1, ChunkIs
  <1>a. SameUpTo(p, q, n) <=> \A c \in 1..n : ChunkAt(p, c) = ChunkAt(q, c)
    BY DEF SameUpTo
  <1> HIDE DEF n
  <1>4. \A i \in 1..n : i \in Place /\ \A j \in 1..i - 1 : j \in Place
    BY <1>1 DEF Place
  <1>b. \A c \in Place : c \in 1..n \/ c > n
    BY <1>1 DEF Place
  <1>5. ASSUME PartOlder(p, q) PROVE Before(ChunksOf(p), ChunksOf(q), ChunkBefore)
    <2>1. PICK c \in 1..n : ChunkOlder(ChunkAt(p, c), ChunkAt(q, c)) /\ \A j \in 1..c - 1 : ChunkAt(p, j) = ChunkAt(q, j)
      BY <1>2, <1>5
    <2>2. <<ChunksOf(p)[c], ChunksOf(q)[c]>> \in ChunkBefore
      BY <1>3, <1>4, <2>1, ChunksDecide
    <2>3. \A j \in 1..c - 1 : ChunksOf(p)[j] = ChunksOf(q)[j]
      BY <1>3, <1>4, <2>1
    <2> QED
      BY <1>4, <2>2, <2>3 DEF Before
  <1>6. ASSUME Before(ChunksOf(p), ChunksOf(q), ChunkBefore) PROVE PartOlder(p, q)
    <2>1. PICK c \in Place : <<ChunksOf(p)[c], ChunksOf(q)[c]>> \in ChunkBefore /\ \A j \in 1..c - 1 : ChunksOf(p)[j] = ChunksOf(q)[j]
      BY <1>6 DEF Before
    <2>2. ChunkOlder(ChunkAt(p, c), ChunkAt(q, c))
      BY <1>3, <2>1, ChunksDecide
    <2>3. ChunksOf(p)[c] # ChunksOf(q)[c]
      BY <2>1, ChunkBeforeIsStrict DEF Irreflexive
    <2>4. c \in 1..n
      BY <1>3, <1>b, <2>3
    <2>5. \A j \in 1..c - 1 : ChunkAt(p, j) = ChunkAt(q, j)
      BY <1>3, <1>4, <2>1, <2>4
    <2> QED
      BY <1>2, <2>2, <2>4, <2>5
  <1>7. SameUpTo(p, q, n) <=> \A c \in Place : ChunksOf(p)[c] = ChunksOf(q)[c]
    BY <1>3, <1>4, <1>a, <1>b
  <1> QED
    BY <1>5, <1>6, <1>7 DEF n

LEMMA ListsCompare ==
    ASSUME NEW f, NEW g, \A c \in Place : f[c] \in Chunks /\ g[c] \in Chunks
    PROVE  (\A c \in Place : f[c] = g[c]) \/ Before(f, g, ChunkBefore) \/ Before(g, f, ChunkBefore)
  <1>1. ASSUME NEW k \in Place, f[k] # g[k] PROVE Before(f, g, ChunkBefore) \/ Before(g, f, ChunkBefore)
    <2>1. PICK i \in 1..k : f[i] # g[i] /\ \A j \in 1..i - 1 : f[j] = g[j]
      BY <1>1, SomePlaceIsFirst
    <2>2. i \in Place
      BY DEF Place
    <2>3. <<f[i], g[i]>> \in ChunkBefore \/ <<g[i], f[i]>> \in ChunkBefore
      BY <2>1, <2>2, ChunkBeforeIsStrict
    <2> QED
      BY <2>1, <2>2, <2>3 DEF Before
  <1> QED
    BY <1>1

LEMMA PartsCompare ==
    ASSUME NEW p \in Seq(Chunks), NEW q \in Seq(Chunks)
    PROVE  \/ \A c \in Place : ChunksOf(p)[c] = ChunksOf(q)[c]
           \/ Before(ChunksOf(p), ChunksOf(q), ChunkBefore)
           \/ Before(ChunksOf(q), ChunksOf(p), ChunkBefore)
  <1>1. \A c \in Place : ChunksOf(p)[c] \in Chunks /\ ChunksOf(q)[c] \in Chunks
    BY ChunkIs
  <1> QED
    BY <1>1, ListsCompare, ChunkBeforeIsStrict

PartBefore(p, q) == Before(ChunksOf(p), ChunksOf(q), ChunkBefore)
SamePart(p, q) == \A c \in Place : ChunksOf(p)[c] = ChunksOf(q)[c]

LEMMA PartsAreOrdered ==
    /\ \A p, q, r : /\ ~PartBefore(p, p) /\ SamePart(p, p)
                    /\ PartBefore(p, q) /\ PartBefore(q, r) => PartBefore(p, r)
                    /\ SamePart(p, q) /\ SamePart(q, r) => SamePart(p, r)
                    /\ SamePart(p, q) /\ PartBefore(q, r) => PartBefore(p, r)
                    /\ PartBefore(p, q) /\ SamePart(q, r) => PartBefore(p, r)
                    /\ SamePart(p, q) => ~PartBefore(p, q) /\ ~PartBefore(q, p)
    /\ \A p, q \in Seq(Chunks) : SamePart(p, q) \/ PartBefore(p, q) \/ PartBefore(q, p)
  <1>1. \A p, q, r : ~PartBefore(p, p) /\ (PartBefore(p, q) /\ PartBefore(q, r) => PartBefore(p, r))
    BY BeforeIsStrict, ChunkBeforeIsStrict DEF PartBefore
  <1>2. \A p, q, r : SamePart(p, p) /\ (SamePart(p, q) /\ SamePart(q, r) => SamePart(p, r))
    BY DEF SamePart
  <1>3. \A i \in Place : \A j \in 1..i - 1 : j \in Place
    BY DEF Place
  <1>4. \A p, q, r : SamePart(p, q) /\ PartBefore(q, r) => PartBefore(p, r)
    BY <1>3 DEF SamePart, PartBefore, Before
  <1>5. \A p, q, r : PartBefore(p, q) /\ SamePart(q, r) => PartBefore(p, r)
    BY <1>3 DEF SamePart, PartBefore, Before
  <1>6. \A p, q : SamePart(p, q) => ~PartBefore(p, q) /\ ~PartBefore(q, p)
    BY SameIsNotBefore, ChunkBeforeIsStrict DEF SamePart, PartBefore
  <1>7. \A p, q \in Seq(Chunks) : SamePart(p, q) \/ PartBefore(p, q) \/ PartBefore(q, p)
    BY PartsCompare DEF SamePart, PartBefore
  <1> QED
    BY <1>1, <1>2, <1>4, <1>5, <1>6, <1>7

\* Epoch, then upstream version, then revision.
VersionBefore(a, b) ==
    \/ a.epoch < b.epoch
    \/ a.epoch = b.epoch /\ PartBefore(a.upstream, b.upstream)
    \/ a.epoch = b.epoch /\ SamePart(a.upstream, b.upstream) /\ PartBefore(a.revision, b.revision)

LEMMA DebianIsVersionBefore ==
    ASSUME NEW a, GoodDebian(a), NEW b, GoodDebian(b)
    PROVE  /\ Scheme!DebianLess(a, b) <=> VersionBefore(a, b)
           /\ DebianOlder(a, b) <=> VersionBefore(a, b)
  <1> DEFINE Up(x) == x.upstream
             Rev(x) == x.revision
  <1>1. \A x, y \in {a, b} : /\ Scheme!DebianPartLess(Up(x), Up(y)) <=> PartBefore(Up(x), Up(y))
                             /\ Scheme!DebianPartLess(Rev(x), Rev(y)) <=> PartBefore(Rev(x), Rev(y))
    BY PartLessIsBefore DEF GoodDebian, PartBefore
  <1>2. /\ PartOlder(Up(a), Up(b)) <=> PartBefore(Up(a), Up(b))
        /\ PartOlder(Rev(a), Rev(b)) <=> PartBefore(Rev(a), Rev(b))
        /\ SameUpTo(Up(a), Up(b), Len(Up(a)) + Len(Up(b))) <=> SamePart(Up(a), Up(b))
    BY PartOlderIsBefore DEF GoodDebian, PartBefore, SamePart
  <1>3. SamePart(Up(a), Up(b)) \/ PartBefore(Up(a), Up(b)) \/ PartBefore(Up(b), Up(a))
    BY PartsAreOrdered DEF GoodDebian
  <1>4. /\ SamePart(Up(a), Up(b)) => ~PartBefore(Up(b), Up(a))
        /\ PartBefore(Up(a), Up(b)) \/ ~PartBefore(Up(a), Up(b))
    BY PartsAreOrdered
  <1>5. DebianOlder(a, b) <=> VersionBefore(a, b)
    BY <1>2 DEF DebianOlder, VersionBefore
  <1>6. Scheme!DebianLess(a, b) <=> VersionBefore(a, b)
    <2>1. Scheme!DebianLess(a, b) <=>
              \/ a.epoch < b.epoch
              \/ a.epoch = b.epoch /\ (PartBefore(Up(a), Up(b)) \/ (~PartBefore(Up(b), Up(a)) /\ PartBefore(Rev(a), Rev(b))))
      BY <1>1 DEF Scheme!DebianLess
    <2> QED
      BY <1>3, <1>4, <2>1 DEF VersionBefore
  <1> QED
    BY <1>5, <1>6

LEMMA VersionsAreOrdered ==
    ASSUME NEW a, GoodDebian(a), NEW b, GoodDebian(b), NEW c, GoodDebian(c)
    PROVE  ~VersionBefore(a, a) /\ (VersionBefore(a, b) /\ VersionBefore(b, c) => VersionBefore(a, c))
  <1>1. a.epoch \in Int /\ b.epoch \in Int /\ c.epoch \in Int
    BY DEF GoodDebian
  <1>2. ~VersionBefore(a, a)
    BY <1>1, PartsAreOrdered DEF VersionBefore
  <1>3. ASSUME VersionBefore(a, b), VersionBefore(b, c) PROVE VersionBefore(a, c)
    <2>1. CASE a.epoch < b.epoch \/ b.epoch < c.epoch
      <3>1. a.epoch < c.epoch
        <4>1. a.epoch <= b.epoch /\ b.epoch <= c.epoch
          BY <1>1, <1>3 DEF VersionBefore
        <4> QED
          BY <1>1, <2>1, <4>1
      <3> QED
        BY <3>1 DEF VersionBefore
    <2>2. CASE ~(a.epoch < b.epoch) /\ ~(b.epoch < c.epoch)
      <3>1. /\ a.epoch = b.epoch /\ b.epoch = c.epoch
            /\ PartBefore(a.upstream, b.upstream) \/ (SamePart(a.upstream, b.upstream) /\ PartBefore(a.revision, b.revision))
            /\ PartBefore(b.upstream, c.upstream) \/ (SamePart(b.upstream, c.upstream) /\ PartBefore(b.revision, c.revision))
        BY <1>3, <2>2 DEF VersionBefore
      <3>2. PartBefore(a.upstream, c.upstream) \/ (SamePart(a.upstream, c.upstream) /\ PartBefore(a.revision, c.revision))
        BY <3>1, PartsAreOrdered
      <3> QED
        BY <3>1, <3>2 DEF VersionBefore
    <2> QED
      BY <2>1, <2>2
  <1> QED
    BY <1>2, <1>3

\* Package indexes of any number and length.
AptOf(in) == /\ Sequenced(in.urls)
             /\ \A u \in Listed(in.urls) : \A text \in {u.body, u.gz} :
                    Sequenced(text) /\ \A v \in Listed(text) : GoodDebian(v)
AnyApt == gate = "none" /\ \E in : AptOf(in) /\ Runs("apt", in, Scheme!FetchAptRepoVersion(in.urls, in.excluded))

\* What is taken from an index is the newest of its versions that are not excluded.
LEMMA NewestOfIndex ==
    ASSUME NEW index, Sequenced(index), \A v \in Listed(index) : GoodDebian(v), NEW excluded,
           NEW versions, versions = {i \in DOMAIN index : index[i] \notin excluded}, versions # {},
           NEW later, later = {p \in versions \X versions : Scheme!DebianLess(index[p[2]], index[p[1]])},
           NEW res, res = index[Scheme!Best(Len(index), versions, later)]
    PROVE  /\ res \in Listed(index) \ excluded
           /\ \A v \in Listed(index) \ excluded : ~DebianOlder(res, v)
  <1>1. /\ Len(index) \in Nat /\ DOMAIN index = 1..Len(index) /\ Listed(index) = {index[i] : i \in 1..Len(index)}
        /\ \A i \in 1..Len(index) : GoodDebian(index[i])
    BY ListedAre
  <1> DEFINE b == Scheme!Best(Len(index), versions, later)
             V(x, y) == VersionBefore(index[x], index[y])
  <1>2. versions \in SUBSET (1..Len(index)) /\ \A i \in versions : i \in 1..Len(index) /\ GoodDebian(index[i])
    BY <1>1
  <1>3. \A x, y : <<x, y>> \in later <=> x \in versions /\ y \in versions /\ V(y, x)
    <2>1. \A x, y : <<x, y>> \in later <=> x \in versions /\ y \in versions /\ Scheme!DebianLess(index[y], index[x])
      OBVIOUS
    <2> QED
      BY <1>2, <2>1, DebianIsVersionBefore
  <1>4. \A x, y, z \in versions : ~V(x, x) /\ (V(x, y) /\ V(y, z) => V(x, z))
    BY <1>2, VersionsAreOrdered
  <1>5. \A x, y \in versions : DebianOlder(index[x], index[y]) <=> V(x, y)
    BY <1>2, DebianIsVersionBefore
  <1> HIDE DEF V
  <1>6. Irreflexive(later) /\ Transitive(later)
    BY <1>3, <1>4, Zenon DEF Irreflexive, Transitive
  <1>7. BestIn(b, versions, later)
    BY <1>1, <1>2, <1>6, BestIsBest
  <1>8. res = index[b]
    OBVIOUS
  <1> HIDE DEF b
  <1>9. b \in versions /\ \A i \in versions : ~DebianOlder(index[b], index[i])
    BY <1>3, <1>5, <1>7 DEF BestIn
  <1>10. \A v : v \in Listed(index) \ excluded <=> \E i \in versions : v = index[i]
    BY <1>1
  <1> QED
    BY <1>8, <1>9, <1>10

LEMMA NewestPackage ==
    ASSUME NEW in, AptOf(in), NEW res, res = Scheme!FetchAptRepoVersion(in.urls, in.excluded), res # Scheme!NotFound
    PROVE  \E i \in DOMAIN in.urls : \E text \in {in.urls[i].body, in.urls[i].gz} :
               /\ res \in Listed(text) \ in.excluded
               /\ \A v \in Listed(text) \ in.excluded : ~DebianOlder(res, v)
  <1> DEFINE urls == in.urls
             Kept(index) == {i \in DOMAIN index : index[i] \notin in.excluded}
             ends == {i \in DOMAIN urls : \/ Kept(Scheme!FetchPackagesIndex(urls[i])) # {}
                                          \/ Scheme!UrlopenWithRetry(urls[i].attempts) = "truncated"}
             e == Scheme!Least(ends)
             index == Scheme!FetchPackagesIndex(urls[e])
             versions == Kept(index)
             later == {p \in versions \X versions : Scheme!DebianLess(index[p[2]], index[p[1]])}
             best == index[Scheme!Best(Len(index), versions, later)]
             torn == (\E i, j \in versions : i # j) /\ \E i \in versions : index[i].epoch = Scheme!BadEpoch
  <1>1. res = IF ends = {} \/ versions = {} THEN Scheme!NotFound ELSE IF torn THEN Scheme!NotFound ELSE best
    BY DEF Scheme!FetchAptRepoVersion
  <1>2. ends \in SUBSET Nat /\ ends \subseteq DOMAIN urls /\ \A i \in DOMAIN urls : urls[i] \in Listed(urls)
    <2>1. DOMAIN urls = 1..Len(urls) /\ Len(urls) \in Nat /\ Listed(urls) = {urls[i] : i \in 1..Len(urls)}
      BY ListedAre DEF AptOf
    <2> HIDE DEF urls, Kept
    <2> QED
      BY <2>1
  <1>3. ends # {} /\ versions # {} /\ res = best
    <2> HIDE DEF ends, versions, torn, best
    <2> QED
      BY <1>1
  <1>4. e \in DOMAIN urls
    <2> HIDE DEF ends
    <2> QED
      BY <1>2, <1>3, LeastIsFirst
  <1> HIDE DEF ends, e
  <1>5. index \in {<<>>, urls[e].body, urls[e].gz}
    BY DEF Scheme!FetchPackagesIndex
  <1> HIDE DEF index
  <1>6. index # <<>>
    BY <1>3
  <1>7. index \in {urls[e].body, urls[e].gz} /\ Sequenced(index) /\ \A v \in Listed(index) : GoodDebian(v)
    <2> HIDE DEF versions
    <2>1. index \in {urls[e].body, urls[e].gz}
      BY <1>5, <1>6
    <2> QED
      BY <1>2, <1>4, <2>1 DEF AptOf
  <1>8. res \in Listed(index) \ in.excluded /\ \A v \in Listed(index) \ in.excluded : ~DebianOlder(res, v)
    <2> DEFINE ex == in.excluded
    <2>1. versions = {i \in DOMAIN index : index[i] \notin ex}
      OBVIOUS
    <2> HIDE DEF versions
    <2>2. later = {p \in versions \X versions : Scheme!DebianLess(index[p[2]], index[p[1]])}
      OBVIOUS
    <2> HIDE DEF later, ex
    <2>3. res = index[Scheme!Best(Len(index), versions, later)]
      BY <1>3
    <2>4. res \in Listed(index) \ ex /\ \A v \in Listed(index) \ ex : ~DebianOlder(res, v)
      BY <1>3, <1>7, <2>1, <2>2, <2>3, NewestOfIndex
    <2> QED
      BY <2>4 DEF ex
  <1> QED
    BY <1>4, <1>7, <1>8

-----------------------------------------------------------------------------
(* check-versions.py: a Helm index. *)

Continues(j, s, t) == \A i \in 1..Len(t) : j[Len(s) + i] = t[i]

LEMMA Joined ==
    ASSUME NEW s, Sequenced(s), NEW t, Sequenced(t)
    PROVE  /\ Sequenced(s \o t) /\ Len(s \o t) = Len(s) + Len(t) /\ Len(s) \in Nat /\ Len(t) \in Nat
           /\ \A i \in 1..Len(s) : (s \o t)[i] = s[i]
           /\ Continues(s \o t, s, t)
  <1> DEFINE U == Listed(s) \cup Listed(t)
             j == s \o t
  <1>1. s \in Seq(U) /\ t \in Seq(U) /\ s \in Seq(Listed(s)) /\ t \in Seq(Listed(t))
    BY DEF Sequenced
  <1>2. /\ Len(s) \in Nat /\ DOMAIN s = 1..Len(s) /\ Listed(s) = {s[i] : i \in 1..Len(s)}
        /\ Len(t) \in Nat /\ DOMAIN t = 1..Len(t) /\ Listed(t) = {t[i] : i \in 1..Len(t)}
    BY ListedAre
  <1> HIDE DEF U
  <1>3. /\ j \in Seq(U) /\ Len(j) = Len(s) + Len(t) /\ DOMAIN j = 1..Len(s) + Len(t)
        /\ \A i \in 1..Len(s) : j[i] = s[i]
        /\ \A i \in 1..Len(t) : j[Len(s) + i] = t[i]
    BY <1>1, <1>2
  <1> HIDE DEF j
  <1>4. Listed(j) = U
    <2>1. \A i \in 1..Len(s) + Len(t) : i \in 1..Len(s) \/ (i - Len(s) \in 1..Len(t) /\ i = Len(s) + (i - Len(s)))
      BY <1>2
    <2>2. \A i \in 1..Len(s) + Len(t) : j[i] \in U
      BY <1>2, <1>3, <2>1 DEF U
    <2>3. \A i \in 1..Len(s) : i \in DOMAIN j
      BY <1>2, <1>3
    <2>4. \A i \in 1..Len(t) : Len(s) + i \in DOMAIN j
      BY <1>2, <1>3
    <2>5. \A x \in U : \E i \in DOMAIN j : x = j[i]
      BY <1>2, <1>3, <2>3, <2>4 DEF U
    <2> QED
      BY <1>3, <2>2, <2>5 DEF Listed
  <1> QED
    BY <1>2, <1>3, <1>4 DEF j, U, Sequenced, Continues

\* The keys that a section, and a version in it, are recognised by.
Heads(l, chart) == l.key = chart /\ ~l.dash
OpensEntries(l) == l.key = "entries"
Released(l) == l.key = "version" /\ ~l.tag.pre
ClosesSection(l, head) == l.indent <= head.indent /\ ~l.dash

\* A chart's section is what stands below its head, up to the next key that is no deeper.
LEMMA SectionIs ==
    ASSUME NEW lines, Sequenced(lines), NEW chart, NEW h \in 1..Len(lines), NEW e \in h..Len(lines),
           Heads(lines[h], chart), \E j \in 1..h - 1 : OpensEntries(lines[j]), \A j \in 1..h - 1 : ~Heads(lines[j], chart),
           \A i \in h + 1..e : ~ClosesSection(lines[i], lines[h]), e < Len(lines) => ClosesSection(lines[e + 1], lines[h])
    PROVE  Scheme!HelmSection(lines, chart) = h + 1..e
  <1> DEFINE heads == {i \in DOMAIN lines : lines[i].key = chart /\ ~lines[i].dash /\ \E j \in 1..i - 1 : lines[j].key = "entries"}
             head == Scheme!Least(heads)
             Beyond(i) == lines[i].indent <= lines[head].indent /\ ~lines[i].dash
  <1>1. Scheme!HelmSection(lines, chart) =
            IF heads = {} THEN {} ELSE {i \in head + 1..Len(lines) : \A j \in head + 1..i : ~Beyond(j)}
    BY DEF Scheme!HelmSection
  <1>2. heads = {i \in DOMAIN lines : Heads(lines[i], chart) /\ \E j \in 1..i - 1 : OpensEntries(lines[j])}
    BY DEF Heads, OpensEntries
  <1>3. \A i : Beyond(i) <=> ClosesSection(lines[i], lines[head])
    BY DEF ClosesSection
  <1> HIDE DEF heads, Beyond
  <1>4. Len(lines) \in Nat /\ DOMAIN lines = 1..Len(lines)
    BY ListedAre
  <1>5. heads \in SUBSET Nat /\ h \in heads /\ \A j \in 1..h - 1 : j \notin heads
    BY <1>2, <1>4
  <1>6. head \in heads /\ \A j \in 1..head - 1 : j \notin heads
    BY <1>5, LeastIsFirst
  <1> HIDE DEF head
  <1>7. head = h
    BY <1>2, <1>4, <1>5, <1>6
  <1>8. {i \in h + 1..Len(lines) : \A j \in h + 1..i : ~ClosesSection(lines[j], lines[h])} = h + 1..e
    BY <1>4
  <1> QED
    BY <1>1, <1>3, <1>5, <1>7, <1>8

\* In a section, the keys of one column are the chart's own, and its first line is one.
InColumn(l, c) == l.own <=> Scheme!KeyIndent(l) = c
OwnLines(lines, h, e, c) == /\ \A i \in h + 1..e : InColumn(lines[i], c)
                            /\ h < e => lines[h + 1].dash /\ lines[h + 1].own
OwnVersions(lines, h, e) == {i \in h + 1..e : Released(lines[i]) /\ lines[i].own}

\* The chart's versions are the version keys of its own column.
LEMMA VersionsAre ==
    ASSUME NEW lines, NEW chart, NEW h \in Nat, NEW e \in Nat, h <= e, Scheme!HelmSection(lines, chart) = h + 1..e,
           NEW c, OwnLines(lines, h, e, c)
    PROVE  Scheme!HelmVersions(lines, chart) = OwnVersions(lines, h, e)
  <1> DEFINE section == Scheme!HelmSection(lines, chart)
             dashes == {i \in section : lines[i].dash}
             first == Scheme!Least(dashes)
             Own(i) == (\E j \in dashes : j <= i) => Scheme!KeyIndent(lines[i]) = Scheme!KeyIndent(lines[first])
             versions == Scheme!HelmVersions(lines, chart)
  <1>1. versions = {i \in section : lines[i].key = "version" /\ ~lines[i].tag.pre /\ Own(i)}
    BY DEF Scheme!HelmVersions
  <1>2. versions = {i \in section : Released(lines[i]) /\ Own(i)}
    BY <1>1 DEF Released
  <1> HIDE DEF versions
  <1>0. /\ \A i \in h + 1..e : lines[i].own <=> Scheme!KeyIndent(lines[i]) = c
        /\ h < e => lines[h + 1].dash /\ lines[h + 1].own
    BY DEF OwnLines, InColumn
  <1>3. CASE h = e
    <2>1. section = {}
      BY <1>3
    <2>2. h + 1..e = {}
      BY <1>3
    <2> HIDE DEF section
    <2>3. versions = {}
      BY <1>2, <2>1
    <2> QED
      BY <2>2, <2>3 DEF versions, OwnVersions
  <1>4. CASE h < e
    <2>1. dashes \in SUBSET Nat /\ h + 1 \in dashes /\ \A j \in dashes : h + 1 <= j
      BY <1>0, <1>4
    <2>2. first \in dashes /\ \A j \in 1..first - 1 : j \notin dashes
      <3> HIDE DEF dashes
      <3> QED
        BY <2>1, LeastIsFirst
    <2> HIDE DEF first, dashes
    <2>3. first = h + 1
      <3>1. h + 1 <= first /\ first \in Nat
        BY <2>1, <2>2
      <3> QED
        BY <2>1, <2>2, <3>1
    <2>4. Scheme!KeyIndent(lines[first]) = c
      BY <1>0, <1>4, <2>3
    <2>5. \A i \in section : Own(i) <=> lines[i].own
      BY <1>0, <2>1, <2>4
    <2> HIDE DEF Own
    <2>6. versions = {i \in section : Released(lines[i]) /\ lines[i].own}
      BY <1>2, <2>5
    <2> QED
      BY <2>6 DEF versions, OwnVersions
  <1> QED
    BY <1>3, <1>4 DEF versions

\* An index as helm writes it: entries, charts before and after, in any indentation.
BlockOf(in, c) == /\ Sequenced(in.block) /\ \A l \in Listed(in.block) : ~ClosesSection(l, in.head) /\ InColumn(l, c)
                  /\ in.block # <<>> => in.block[1].dash /\ in.block[1].own
ChartsOf(in) == /\ Sequenced(in.before) /\ Sequenced(in.after)
                /\ (\E l \in Listed(in.before) : OpensEntries(l)) /\ \A l \in Listed(in.before) : ~Heads(l, "chart")
                /\ Heads(in.head, "chart")
                /\ \E c : BlockOf(in, c)
                /\ in.after # <<>> => ClosesSection(in.after[1], in.head)
                /\ \A l \in Listed(in.block) : GoodVersion(l.tag.version)
AnyCharts == gate = "none" /\ \E in : ChartsOf(in) /\ ChartRead(in)

LEMMA IndexIs ==
    ASSUME NEW in, ChartsOf(in)
    PROVE  LET n == Len(in.before)
               m == Len(in.block)
               k == Len(in.after)
               lines == Index(in)
           IN  /\ n \in Nat /\ m \in Nat /\ k \in Nat /\ Sequenced(lines) /\ Len(lines) = n + 1 + m + k
               /\ \A i \in 1..n : lines[i] = in.before[i]
               /\ lines[n + 1] = in.head
               /\ \A i \in 1..m : lines[n + 1 + i] = in.block[i]
               /\ \A i \in 1..k : lines[n + 1 + m + i] = in.after[i]
  <1> DEFINE b == in.before
             h == in.head
             bl == in.block
             a == in.after
             one == <<h>>
  <1>1. Sequenced(b) /\ Sequenced(bl) /\ Sequenced(a)
    BY DEF ChartsOf, BlockOf
  <1>2. Sequenced(one) /\ Len(one) = 1 /\ one[1] = h
    BY DEF Sequenced, Listed
  <1>3. Index(in) = ((b \o one) \o bl) \o a
    BY DEF Index
  <1> HIDE DEF b, h, bl, a, one
  <1> DEFINE x == b \o one
             y == x \o bl
             z == y \o a
  <1>4. /\ Sequenced(x) /\ Len(x) = Len(b) + 1 /\ Len(b) \in Nat
        /\ \A i \in 1..Len(b) : x[i] = b[i]
        /\ x[Len(b) + 1] = h
    <2>1. Sequenced(x) /\ Len(x) = Len(b) + Len(one) /\ Len(b) \in Nat /\ \A i \in 1..Len(b) : x[i] = b[i]
      BY <1>1, <1>2, Joined, Zenon
    <2>2. Continues(x, b, one)
      BY <1>1, <1>2, Joined, Zenon
    <2> HIDE DEF x
    <2> QED
      BY <1>2, <2>1, <2>2 DEF Continues
  <1> HIDE DEF x
  <1>5. /\ Sequenced(y) /\ Len(y) = Len(x) + Len(bl) /\ Len(bl) \in Nat
        /\ \A i \in 1..Len(x) : y[i] = x[i]
        /\ \A i \in 1..Len(bl) : y[Len(x) + i] = bl[i]
    <2>1. Sequenced(y) /\ Len(y) = Len(x) + Len(bl) /\ Len(bl) \in Nat /\ \A i \in 1..Len(x) : y[i] = x[i]
      BY <1>1, <1>4, Joined, Zenon
    <2>2. Continues(y, x, bl)
      BY <1>1, <1>4, Joined, Zenon
    <2> HIDE DEF y
    <2> QED
      BY <2>1, <2>2 DEF Continues
  <1> HIDE DEF y
  <1>6. /\ Sequenced(z) /\ Len(z) = Len(y) + Len(a) /\ Len(a) \in Nat
        /\ \A i \in 1..Len(y) : z[i] = y[i]
        /\ \A i \in 1..Len(a) : z[Len(y) + i] = a[i]
    <2>1. Sequenced(z) /\ Len(z) = Len(y) + Len(a) /\ Len(a) \in Nat /\ \A i \in 1..Len(y) : z[i] = y[i]
      BY <1>1, <1>5, Joined, Zenon
    <2>2. Continues(z, y, a)
      BY <1>1, <1>5, Joined, Zenon
    <2> HIDE DEF z
    <2> QED
      BY <2>1, <2>2 DEF Continues
  <1> HIDE DEF z
  <1>7. /\ Sequenced(z) /\ Len(z) = Len(b) + 1 + Len(bl) + Len(a)
        /\ \A i \in 1..Len(b) : z[i] = b[i]
        /\ z[Len(b) + 1] = h
        /\ \A i \in 1..Len(bl) : z[Len(b) + 1 + i] = bl[i]
        /\ \A i \in 1..Len(a) : z[Len(b) + 1 + Len(bl) + i] = a[i]
    BY <1>4, <1>5, <1>6
  <1> QED
    BY <1>3, <1>4, <1>5, <1>6, <1>7 DEF b, h, bl, a, x, y, z

\* The chart's version is the newest of its own that is no pre-release.
LEMMA NewestOfChart ==
    ASSUME NEW in, ChartsOf(in), NEW res, res = Scheme!FetchHelmVersion(Index(in), "chart")
    PROVE  LET good == {l.tag : l \in {x \in Listed(in.block) : x.own /\ x.key = "version" /\ ~x.tag.pre}}
           IN  IF good = {} THEN res = Scheme!Failed
               ELSE res \in good /\ \A t \in good : ~Older(res.version, t.version)
  <1> DEFINE n == Len(in.before)
             m == Len(in.block)
             k == Len(in.after)
             lines == Index(in)
             head == in.head
             block == in.block
             tags == Scheme!Tags(lines)
             h == n + 1
             e == n + 1 + m
             Own(x) == x.own
             wanted == Scheme!HelmVersions(lines, "chart")
             good == {l.tag : l \in {x \in Listed(block) : Own(x) /\ x.key = "version" /\ ~x.tag.pre}}
  <1>1. good = {l.tag : l \in {x \in Listed(block) : Own(x) /\ Released(x)}}
    BY DEF Released
  <1> HIDE DEF good
  <1>2. res = Scheme!HighestVersion(tags, wanted)
    BY DEF Scheme!FetchHelmVersion
  <1>3. /\ n \in Nat /\ m \in Nat /\ k \in Nat /\ Sequenced(lines) /\ Len(lines) = n + 1 + m + k
        /\ \A i \in 1..n : lines[i] = in.before[i]
        /\ lines[h] = head
        /\ \A i \in 1..m : lines[h + i] = block[i]
        /\ \A i \in 1..k : lines[e + i] = in.after[i]
    BY IndexIs
  <1>0. n \in Nat /\ m \in Nat /\ k \in Nat /\ Len(lines) = e + k
    BY <1>3
  <1>4. /\ Listed(in.before) = {in.before[i] : i \in 1..n} /\ Listed(block) = {block[i] : i \in 1..m}
        /\ DOMAIN in.after = 1..k
    BY ListedAre DEF ChartsOf, BlockOf
  <1>5. PICK c : BlockOf(in, c)
    BY DEF ChartsOf
  <1>6. /\ Heads(lines[h], "chart") /\ (\E j \in 1..h - 1 : OpensEntries(lines[j])) /\ \A j \in 1..h - 1 : ~Heads(lines[j], "chart")
    <2>1. h - 1 = n
      BY <1>3
    <2> HIDE DEF h, lines
    <2>2. Heads(head, "chart") /\ (\E j \in 1..n : OpensEntries(in.before[j])) /\ \A j \in 1..n : ~Heads(in.before[j], "chart")
      BY <1>4, Zenon DEF ChartsOf
    <2> QED
      BY <1>3, <2>1, <2>2, Zenon
  <1>7. \A i \in h + 1..e : /\ i - h \in 1..m /\ lines[i] = block[i - h] /\ block[i - h] \in Listed(block)
    <2> HIDE DEF lines, block
    <2>1. \A i \in h + 1..e : i - h \in 1..m /\ i = h + (i - h)
      <3> HIDE DEF n, m
      <3> QED
        BY <1>0
    <2> QED
      BY <1>3, <1>4, <2>1
  <1>8. \A i \in h + 1..e : ~ClosesSection(lines[i], lines[h]) /\ (Own(lines[i]) <=> Scheme!KeyIndent(lines[i]) = c)
                            /\ GoodVersion(lines[i].tag.version)
    <2>1. \A l \in Listed(block) : ~ClosesSection(l, head) /\ (Own(l) <=> Scheme!KeyIndent(l) = c) /\ GoodVersion(l.tag.version)
      BY <1>5 DEF BlockOf, ChartsOf, InColumn
    <2> HIDE DEF lines, block, h, e, head, Own
    <2> QED
      BY <1>3, <1>7, <2>1
  <1>9. e < Len(lines) => ClosesSection(lines[e + 1], lines[h])
    <2> SUFFICES ASSUME e < Len(lines) PROVE ClosesSection(lines[e + 1], lines[h])
      OBVIOUS
    <2>1. k > 0
      <3> HIDE DEF n, m, k, lines
      <3> QED
        BY <1>0
    <2>2. in.after # <<>> /\ lines[e + 1] = in.after[1]
      <3>1. 1 \in 1..k
        BY <1>3, <2>1
      <3>2. in.after # <<>>
        BY <1>4, <3>1
      <3> QED
        BY <1>3, <3>1, <3>2
    <2>3. ClosesSection(in.after[1], head)
      BY <2>2 DEF ChartsOf
    <2> QED
      BY <1>3, <2>2, <2>3
  <1>10. h < e => lines[h + 1].dash /\ lines[h + 1].own
    <2> SUFFICES ASSUME h < e PROVE lines[h + 1].dash /\ lines[h + 1].own
      OBVIOUS
    <2>1. 1 \in 1..m
      <3> HIDE DEF n, m
      <3> QED
        BY <1>0
    <2>2. lines[h + 1] = block[1]
      BY <1>3, <2>1
    <2>3. block # <<>>
      BY <2>1
    <2>4. block[1].dash /\ block[1].own
      BY <1>5, <2>3 DEF BlockOf
    <2> QED
      BY <2>2, <2>4
  <1>11. h \in 1..Len(lines) /\ e \in h..Len(lines) /\ h \in Nat /\ e \in Nat /\ h <= e /\ Len(lines) \in Nat
    <2> HIDE DEF n, m, k, lines
    <2> QED
      BY <1>0
  <1>12. Len(tags) = Len(lines) /\ \A i \in 1..Len(lines) : tags[i] = lines[i].tag
    BY <1>3, TagsOf
  <1> HIDE DEF lines, block, h, e, head, tags
  <1>13. Scheme!HelmSection(lines, "chart") = h + 1..e
    <2>1. Sequenced(lines) /\ Heads(lines[h], "chart") /\ (\E j \in 1..h - 1 : OpensEntries(lines[j]))
          /\ (\A j \in 1..h - 1 : ~Heads(lines[j], "chart")) /\ \A i \in h + 1..e : ~ClosesSection(lines[i], lines[h])
      BY <1>3, <1>6, <1>8
    <2> QED
      BY <1>9, <1>11, <2>1, SectionIs, SMT
  <1>14. wanted = {i \in h + 1..e : Released(lines[i]) /\ Own(lines[i])}
    <2>1. OwnLines(lines, h, e, c)
      BY <1>8, <1>10 DEF Own, OwnLines, InColumn
    <2>2. wanted = OwnVersions(lines, h, e)
      BY <1>11, <1>13, <2>1, VersionsAre, Zenon
    <2> HIDE DEF wanted
    <2> QED
      BY <2>2 DEF Own, OwnVersions
  <1> HIDE DEF wanted, Own
  <1>15. wanted \in SUBSET (1..Len(tags)) /\ \A i \in wanted : GoodVersion(tags[i].version)
    <2>1. \A i \in wanted : i \in h + 1..e /\ i \in 1..Len(lines)
      BY <1>11, <1>14
    <2> QED
      BY <1>8, <1>12, <1>14, <2>1
  <1>16. \A t : t \in good <=> \E i \in wanted : t = tags[i]
    <2>1. \A i \in wanted : lines[i] \in Listed(block) /\ tags[i] = lines[i].tag
      BY <1>7, <1>11, <1>12, <1>14
    <2>2. \A l \in Listed(block) : \E i \in h + 1..e : l = lines[i]
      <3> SUFFICES ASSUME NEW j \in 1..m PROVE \E i \in h + 1..e : block[j] = lines[i]
        BY <1>4
      <3>1. h + j \in h + 1..e
        <4> HIDE DEF n, m
        <4> QED
          BY <1>0 DEF e, h
      <3> QED
        BY <1>3, <3>1
    <2> QED
      BY <1>1, <1>12, <1>14, <1>15, <2>1, <2>2
  <1>17. IF wanted = {} THEN res = Scheme!Failed
         ELSE \E x \in wanted : res = tags[x] /\ \A i \in wanted : ~Older(tags[x].version, tags[i].version)
    <2>1. Len(tags) \in Nat /\ \A i \in wanted : GoodVersion(tags[i].version)
      BY <1>11, <1>12, <1>15
    <2> QED
      BY <1>2, <1>15, <2>1, HighestIsNewest
  <1>18. IF good = {} THEN res = Scheme!Failed
         ELSE res \in good /\ \A t \in good : ~Older(res.version, t.version)
    BY <1>16, <1>17
  <1> QED
    BY <1>18 DEF good, Own, block

-----------------------------------------------------------------------------
(* check-versions.py: the bounded orders and fetchers are of any. *)

AnyCompare == gate = "none" /\ \E a, b : GoodVersion(a) /\ GoodVersion(b)
                                         /\ Runs("compare", <<a, b>>, Scheme!VersionTupleGreater(a, b))

LEMMA UpToAreSequences ==
    ASSUME NEW n \in Nat, NEW S, NEW s \in UpTo(n, S)
    PROVE  s \in Seq(S) /\ Sequenced(s) /\ \A x \in Listed(s) : x \in S
  <1>1. PICK k \in 0..n : s \in [1..k -> S]
    BY DEF UpTo
  <1>2. k \in Nat
    OBVIOUS
  <1>3. s \in Seq(S) /\ DOMAIN s = 1..k /\ \A x \in Listed(s) : x \in S
    BY <1>1, <1>2 DEF Listed
  <1>4. s \in [1..k -> Listed(s)]
    BY <1>1 DEF Listed
  <1> QED
    BY <1>2, <1>3, <1>4 DEF Sequenced

LEMMA BoundedSegments ==
    /\ \A n \in Nat : N(n) \in Segments
    /\ W(-1) \in Segments /\ W(-2) \in Segments
    /\ \A n \in Nat : GoodVersion(<<N(n)>>)
    /\ \A n, m \in Nat : GoodVersion(<<N(n), N(m)>>)
    /\ GoodVersion(<<>>)
  <1>1. \A n \in Nat : N(n) \in Segments
    BY DEF N, Segments
  <1>2. W(-1) \in Segments /\ W(-2) \in Segments
    BY DEF W, Segments
  <1> QED
    BY <1>1, <1>2 DEF GoodVersion

LEMMA BoundedVersions == \A v \in Versions : GoodVersion(v)
  <1> SUFFICES ASSUME NEW v \in Versions PROVE GoodVersion(v)
    OBVIOUS
  <1> DEFINE S == {N(1), N(2), W(-2), W(-1)}
  <1>1. v \in UpTo(3, S)
    BY DEF Versions
  <1>2. S \subseteq Segments
    BY BoundedSegments
  <1> HIDE DEF S
  <1>3. v \in Seq(S)
    BY <1>1, UpToAreSequences, 3 \in Nat
  <1> QED
    BY <1>2, <1>3 DEF GoodVersion

LEMMA BoundedCompare == CompareRuns => AnyCompare
  BY BoundedVersions, Zenon DEF CompareRuns, AnyCompare

LEMMA BoundedReleases ==
    ASSUME NEW rs \in UpTo(5, Releases), NEW p \in 1..3, NEW h \in 3..4
    PROVE  GithubOf([svc |-> Filtered(p, h), releases |-> rs])
  <1>1. \A r \in Releases : GoodVersion(r.tag.version)
    <2>1. \A kind, matches : \A n \in Nat : GoodVersion(Tagged(kind, n, matches).tag.version)
      BY BoundedSegments DEF Tagged, Numbered, Tag
    <2> QED
      BY <2>1 DEF Releases
  <1>2. Sequenced(rs) /\ \A x \in Listed(rs) : x \in Releases
    BY UpToAreSequences, 5 \in Nat
  <1> DEFINE in == [svc |-> Filtered(p, h), releases |-> rs]
  <1>3. in.svc.tagFilter /\ in.svc.perPage = p /\ in.svc.horizon = h /\ in.releases = rs
    BY DEF Filtered
  <1> HIDE DEF in
  <1>4. GithubOf(in)
    BY <1>1, <1>2, <1>3 DEF GithubOf
  <1> QED
    BY <1>4 DEF in

LEMMA BoundedGithub == GithubRuns => AnyReleases
  <1> SUFFICES ASSUME GithubRuns PROVE AnyReleases
    OBVIOUS
  <1>1. gate = "none" /\ \E rs \in UpTo(5, Releases), p \in 1..3, h \in 3..4 :
                             ReleasesRead([svc |-> Filtered(p, h), releases |-> rs])
    BY DEF GithubRuns
  <1>2. PICK rs \in UpTo(5, Releases), p \in 1..3, h \in 3..4 : ReleasesRead([svc |-> Filtered(p, h), releases |-> rs])
    BY <1>1, Zenon
  <1> QED
    BY <1>1, <1>2, BoundedReleases, Zenon DEF AnyReleases

LEMMA BoundedTags == \A t \in HubTags : GoodVersion(t.version)
  <1>1. \A p : /\ GoodVersion(Tag(p, "t", <<N(1), N(1)>>).version) /\ GoodVersion(Tag(p, "t", <<N(1), N(2)>>).version)
               /\ GoodVersion(Tag(p, "t", <<N(2)>>).version)
    BY BoundedSegments DEF Tag
  <1>2. GoodVersion(Tag("v1", "latest", Scheme!Unread).version)
    BY BoundedSegments DEF Tag, Scheme!Unread
  <1>3. \A t \in HubTags : t = Tag("v1", "latest", Scheme!Unread) \/
            \E p \in {"v1", "v2"} : \E v \in {<<N(1), N(1)>>, <<N(1), N(2)>>, <<N(2)>>} : t = Tag(p, "t", v)
    BY DEF HubTags
  <1> QED
    BY <1>1, <1>2, <1>3

LEMMA BoundedHub == HubRuns => AnyHub \/ AnyLsio
  <1> SUFFICES ASSUME HubRuns PROVE AnyHub \/ AnyLsio
    OBVIOUS
  <1> DEFINE In(ts, pin, w, major, ps) == [svc |-> Window(w, major, ps), tags |-> ts, pin |-> pin]
  <1>1. gate = "none" /\ \E ts \in UpTo(3, HubTags), pin \in HubTags, w \in 1..3, major \in BOOLEAN, ps \in {{"v1"}, {"v1", "v2"}} :
                             HubRead(In(ts, pin, w, major, ps)) \/ (~major /\ LsioRead(In(ts, pin, w, major, ps)))
    BY Zenon DEF HubRuns
  <1> HIDE DEF In
  <1>2. PICK ts \in UpTo(3, HubTags), pin \in HubTags, w \in 1..3, major \in BOOLEAN, ps \in {{"v1"}, {"v1", "v2"}} :
                 HubRead(In(ts, pin, w, major, ps)) \/ (~major /\ LsioRead(In(ts, pin, w, major, ps)))
    BY <1>1, Zenon
  <1> DEFINE in == In(ts, pin, w, major, ps)
  <1>3. in.svc.window = w /\ in.tags = ts /\ in.pin = pin
    BY DEF In, Window
  <1>4. Sequenced(ts) /\ \A x \in Listed(ts) : x \in HubTags
    BY UpToAreSequences, 3 \in Nat
  <1> HIDE DEF in
  <1>5. HubOf(in)
    BY <1>3, <1>4, BoundedTags DEF HubOf
  <1> QED
    BY <1>1, <1>2, <1>5, Zenon DEF in, AnyHub, AnyLsio

LEMMA BoundedDebian ==
    /\ \A v \in DebianVersions : GoodDebian(v)
    /\ GoodDebian(Shipped) /\ GoodDebian(Backport)
  <1>1. <<>> \in Texts /\ <<Scheme!Tilde>> \in Texts /\ <<1>> \in Texts /\ <<257>> \in Texts /\ <<Scheme!Tilde, 1>> \in Texts
    BY DEF Texts, Scheme!Tilde
  <1>2. \A t \in Texts : \A n \in Nat : Chunk(t, n) \in Chunks
    BY DEF Chunk, Chunks
  <1>3. \A e \in Int : \A p, q \in Seq(Chunks) : GoodDebian(Debian(e, p, q))
    BY DEF GoodDebian, Debian
  <1>4. \A n \in Nat : <<Chunk(<<>>, n)>> \in Seq(Chunks)
    BY <1>1, <1>2
  <1>5. <<>> \in Seq(Chunks)
    OBVIOUS
  <1>6. \A p \in Parts : p \in Seq(Chunks)
    <2> SUFFICES ASSUME NEW p \in Parts PROVE p \in Seq(Chunks)
      OBVIOUS
    <2> DEFINE T == {<<>>, <<Scheme!Tilde>>, <<1>>, <<257>>, <<Scheme!Tilde, 1>>}
               C == {Chunk(t, n) : t \in T, n \in 0..1}
    <2>1. T \subseteq Texts
      BY <1>1
    <2>2. p \in UpTo(2, C)
      BY DEF Parts
    <2> HIDE DEF T
    <2>3. C \subseteq Chunks
      BY <1>2, <2>1
    <2> HIDE DEF C
    <2>4. p \in Seq(C)
      BY <2>2, UpToAreSequences, 2 \in Nat
    <2> QED
      BY <2>3, <2>4
  <1>7. GoodDebian(Shipped) /\ GoodDebian(Backport)
    <2>1. 0 \in Int /\ 1 \in Int /\ 0 \in Nat /\ 1 \in Nat
      OBVIOUS
    <2> QED
      BY <1>3, <1>4, <1>5, <2>1, Zenon DEF Shipped, Backport
  <1>8. ASSUME NEW v \in DebianVersions PROVE GoodDebian(v)
    <2>1. CASE \E p \in Parts : v = Debian(0, p, <<>>)
      <3>1. 0 \in Int
        OBVIOUS
      <3> QED
        BY <1>3, <1>5, <1>6, <2>1, <3>1, Zenon
    <2>2. CASE \E e \in {Scheme!BadEpoch, 0, 1} : \E n, r \in 0..1 : v = Debian(e, <<Chunk(<<>>, n)>>, <<Chunk(<<>>, r)>>)
      <3>1. {Scheme!BadEpoch, 0, 1} \subseteq Int
        BY DEF Scheme!BadEpoch
      <3>2. \A n \in 0..1 : n \in Nat
        OBVIOUS
      <3> QED
        BY <1>3, <1>4, <2>2, <3>1, <3>2, Zenon
    <2> QED
      BY <2>1, <2>2 DEF DebianVersions
  <1> QED
    BY <1>7, <1>8

LEMMA BoundedApt == \A in \in AptInputs : AptOf(in)
  <1> DEFINE Fair(s) == Sequenced(s) /\ \A v \in Listed(s) : GoodDebian(v)
             Usable(u) == Fair(u.body) /\ Fair(u.gz)
  <1>1. Fair(<<>>) /\ \A v : GoodDebian(v) => Fair(<<v>>)
    BY DEF Sequenced, Listed
  <1>2. \A a, b, c : GoodDebian(a) /\ GoodDebian(b) /\ GoodDebian(c) => Fair(<<a, b, c>>)
    BY DEF Sequenced, Listed
  <1> HIDE DEF Fair
  <1>3. \A attempts, body, isGz, gz : Fair(body) /\ Fair(gz) => Usable(Url(attempts, body, isGz, gz))
    BY DEF Url
  <1>4. \A in : Sequenced(in.urls) /\ (\A u \in Listed(in.urls) : Usable(u)) => AptOf(in)
    BY DEF AptOf, Fair
  <1> HIDE DEF Usable
  <1>5. ASSUME NEW u \in AptUrls PROVE Usable(u)
    <2>1. Fair(<<>>) /\ Fair(<<Shipped>>) /\ Fair(<<Backport>>)
      BY <1>1, BoundedDebian
    <2>3. CASE u = Url(<<"4xx", "ok", "ok">>, <<>>, FALSE, <<>>)
      BY <1>1, <1>3, <2>3
    <2>4. CASE u # Url(<<"4xx", "ok", "ok">>, <<>>, FALSE, <<>>)
      <3>1. u.body \in {<<>>, <<Shipped>>} /\ u.gz \in {<<>>, <<Backport>>}
        BY <2>4 DEF AptUrls
      <3> QED
        BY <2>1, <3>1 DEF Usable
    <2> QED
      BY <2>3, <2>4
  <1>6. ASSUME NEW urls \in OneIndex \cup TwoIndexes PROVE Sequenced(urls) /\ \A u \in Listed(urls) : Usable(u)
    <2>1. \A u, v : /\ Sequenced(<<u, v>>) /\ Listed(<<u, v>>) = {u, v}
                    /\ Sequenced(<<u>>) /\ Listed(<<u>>) = {u}
      BY DEF Sequenced, Listed
    <2>2. \A a, b \in DebianVersions : Usable(Served(a, b))
      BY <1>1, <1>2, <1>3, BoundedDebian DEF Served
    <2>3. ASSUME NEW u, Usable(u), urls = <<u>> PROVE Sequenced(urls) /\ \A x \in Listed(urls) : Usable(x)
      <3>1. Sequenced(urls) /\ Listed(urls) = {u}
        BY <2>1, <2>3, Zenon
      <3> QED
        BY <2>3, <3>1
    <2>4. ASSUME NEW u, NEW v, Usable(u), Usable(v), urls = <<u, v>> PROVE Sequenced(urls) /\ \A x \in Listed(urls) : Usable(x)
      <3>1. Sequenced(urls) /\ Listed(urls) = {u, v}
        BY <2>1, <2>4, Zenon
      <3> QED
        BY <2>4, <3>1
    <2>6. CASE urls \in OneIndex
      <3>1. PICK a \in DebianVersions, b \in DebianVersions : urls = <<Served(a, b)>>
        BY <2>6 DEF OneIndex
      <3> DEFINE u == Served(a, b)
      <3>2. Usable(u) /\ urls = <<u>>
        BY <2>2, <3>1
      <3> HIDE DEF u
      <3> QED
        BY <2>3, <3>2
    <2>7. CASE urls \in TwoIndexes
      <3>1. PICK u \in AptUrls, v \in AptUrls : urls = <<u, v>>
        BY <2>7 DEF TwoIndexes
      <3> QED
        BY <1>5, <2>4, <3>1
    <2> QED
      BY <2>6, <2>7
  <1> SUFFICES ASSUME NEW in \in AptInputs PROVE AptOf(in)
    OBVIOUS
  <1>7. in.urls \in OneIndex \cup TwoIndexes
    BY DEF AptInputs
  <1> QED
    BY <1>4, <1>6, <1>7

LEMMA BoundedPackages == AptRuns => AnyApt
  BY BoundedApt, Zenon DEF AptRuns, AnyApt

LEMMA JoinedLists ==
    ASSUME NEW s, Sequenced(s), NEW t, Sequenced(t)
    PROVE  \A x \in Listed(s \o t) : x \in Listed(s) \/ x \in Listed(t)
  <1> DEFINE j == s \o t
  <1>1. /\ Len(j) = Len(s) + Len(t) /\ Len(s) \in Nat /\ Len(t) \in Nat /\ Sequenced(j)
        /\ \A i \in 1..Len(s) : j[i] = s[i]
        /\ Continues(j, s, t)
    BY Joined, Zenon
  <1> HIDE DEF j
  <1>2. Listed(j) = {j[i] : i \in 1..Len(j)} /\ Listed(s) = {s[i] : i \in 1..Len(s)} /\ Listed(t) = {t[i] : i \in 1..Len(t)}
    BY <1>1, ListedAre
  <1>3. \A i \in 1..Len(j) : i \in 1..Len(s) \/ (i - Len(s) \in 1..Len(t) /\ i = Len(s) + (i - Len(s)))
    BY <1>1
  <1>4. ASSUME NEW i \in 1..Len(j) PROVE j[i] \in Listed(s) \/ j[i] \in Listed(t)
    <2>1. CASE i \in 1..Len(s)
      BY <1>1, <1>2, <2>1
    <2>2. CASE i \notin 1..Len(s)
      <3> DEFINE k == i - Len(s)
      <3>1. k \in 1..Len(t) /\ i = Len(s) + k
        BY <1>3, <2>2
      <3> HIDE DEF k
      <3>2. j[i] = t[k]
        BY <1>1, <3>1 DEF Continues
      <3> QED
        BY <1>2, <3>1, <3>2
    <2> QED
      BY <2>1, <2>2
  <1> QED
    BY <1>2, <1>4 DEF j

LEMMA LineIs ==
    ASSUME NEW indent \in Nat, NEW dash \in BOOLEAN, NEW key, NEW n \in Nat, NEW pre, NEW own, NEW c
    PROVE  LET l == Line(indent, dash, key, n, pre, own)
           IN  /\ l.key = key /\ l.dash = dash /\ l.indent = indent /\ l.own = own /\ GoodVersion(l.tag.version)
               /\ Scheme!KeyIndent(l) = IF dash THEN indent + 2 ELSE indent
  BY BoundedSegments DEF Line, Scheme!KeyIndent

\* A line of an entry: in the section, of its column or deeper, and no chart's name.
EntryLine(l, col) == /\ ~ClosesSection(l, KeyLine(2, "chart")) /\ InColumn(l, col + 2) /\ GoodVersion(l.tag.version)
                     /\ ~Heads(l, "chart")

LEMMA EntryLines ==
    ASSUME NEW col \in {2, 4}, NEW n \in Nat, NEW pre, NEW key, key # "chart"
    PROVE  /\ EntryLine(Line(col, TRUE, key, n, pre, TRUE), col)
           /\ EntryLine(Line(col + 2, FALSE, key, n, pre, TRUE), col)
           /\ EntryLine(Line(col + 2, TRUE, key, n, pre, FALSE), col)
           /\ EntryLine(Line(col + 4, FALSE, key, n, pre, FALSE), col)
           /\ Line(col, TRUE, key, n, pre, TRUE).dash /\ Line(col, TRUE, key, n, pre, TRUE).own
  <1> DEFINE head == KeyLine(2, "chart")
  <1>1. head.indent = 2
    BY DEF KeyLine, Line
  <1>2. col \in Nat /\ col + 2 \in Nat /\ col + 4 \in Nat /\ col + 2 > 2 /\ col + 4 > 2 /\ col + 2 + 2 # col + 2 /\ col + 4 # col + 2
    OBVIOUS
  <1> HIDE DEF head
  <1>3. ASSUME NEW indent \in Nat, NEW dash \in BOOLEAN, NEW own \in BOOLEAN, dash \/ indent > 2,
               own <=> (IF dash THEN indent + 2 ELSE indent) = col + 2
        PROVE  EntryLine(Line(indent, dash, key, n, pre, own), col)
    <2> DEFINE l == Line(indent, dash, key, n, pre, own)
    <2>1. /\ l.key = key /\ l.dash = dash /\ l.indent = indent /\ l.own = own /\ GoodVersion(l.tag.version)
          /\ Scheme!KeyIndent(l) = IF dash THEN indent + 2 ELSE indent
      BY LineIs
    <2> HIDE DEF l
    <2>2. ~Heads(l, "chart")
      BY <2>1 DEF Heads
    <2>3. ~ClosesSection(l, head)
      BY <1>1, <1>3, <2>1 DEF ClosesSection
    <2>4. InColumn(l, col + 2)
      BY <1>3, <2>1 DEF InColumn
    <2> QED
      BY <2>1, <2>2, <2>3, <2>4 DEF l, head, EntryLine
  <1>4. EntryLine(Line(col, TRUE, key, n, pre, TRUE), col)
    BY <1>2, <1>3
  <1>5. EntryLine(Line(col + 2, FALSE, key, n, pre, TRUE), col)
    BY <1>2, <1>3
  <1>6. EntryLine(Line(col + 2, TRUE, key, n, pre, FALSE), col)
    BY <1>2, <1>3
  <1>7. EntryLine(Line(col + 4, FALSE, key, n, pre, FALSE), col)
    BY <1>2, <1>3
  <1>8. Line(col, TRUE, key, n, pre, TRUE).dash /\ Line(col, TRUE, key, n, pre, TRUE).own
    BY DEF Line
  <1> QED
    BY <1>4, <1>5, <1>6, <1>7, <1>8

LEMMA TuplesAreListed ==
    /\ Sequenced(<<>>) /\ Listed(<<>>) = {}
    /\ \A a : Sequenced(<<a>>) /\ Listed(<<a>>) = {a} /\ <<a>> # <<>> /\ <<a>>[1] = a
    /\ \A a, b : Sequenced(<<a, b>>) /\ Listed(<<a, b>>) = {a, b}
    /\ \A a, b, c : Sequenced(<<a, b, c>>) /\ Listed(<<a, b, c>>) = {a, b, c}
  BY DEF Sequenced, Listed

EntryIs(s, col) == Sequenced(s) /\ \A l \in Listed(s) : EntryLine(l, col)
Starts(s) == s # <<>> /\ s[1].dash /\ s[1].own

LEMMA EntriesJoin ==
    ASSUME NEW col, NEW s, EntryIs(s, col), NEW t, EntryIs(t, col)
    PROVE  EntryIs(s \o t, col) /\ (Starts(s) => Starts(s \o t))
  <1>1. Sequenced(s) /\ Sequenced(t)
    BY DEF EntryIs
  <1>2. EntryIs(s \o t, col)
    BY <1>1, Joined, JoinedLists, Zenon DEF EntryIs
  <1> DEFINE j == s \o t
  <1>3. /\ Len(j) = Len(s) + Len(t) /\ Len(s) \in Nat /\ Len(t) \in Nat /\ Sequenced(j)
        /\ \A i \in 1..Len(s) : j[i] = s[i]
    BY <1>1, Joined, Zenon
  <1> HIDE DEF j
  <1>4. ASSUME Starts(s) PROVE Starts(j)
    <2>1. Len(s) # 0
      BY <1>1, <1>4 DEF Starts, Sequenced
    <2>2. 1 \in 1..Len(s)
      BY <1>3, <2>1
    <2>3. Len(j) # 0
      BY <1>3, <2>2
    <2>4. j # <<>>
      BY <2>3
    <2> QED
      BY <1>3, <1>4, <2>2, <2>4 DEF Starts
  <1> QED
    BY <1>2, <1>4 DEF j

LEMMA EntryIsAnEntry ==
    ASSUME NEW col \in {2, 4}, NEW n \in Nat, NEW pre, NEW dep \in Nat
    PROVE  EntryIs(ChartEntry(col, n, pre, dep), col) /\ Starts(ChartEntry(col, n, pre, dep))
  <1> DEFINE first == Line(col, TRUE, "apiVersion", 0, FALSE, TRUE)
             app == Line(col + 2, FALSE, "appVersion", 9, FALSE, TRUE)
             version == Line(col + 2, FALSE, "version", n, pre, TRUE)
             deps == Line(col + 2, FALSE, "dependencies", 0, FALSE, TRUE)
             name == Line(col + 2, TRUE, "name", 0, FALSE, FALSE)
             its == Line(col + 4, FALSE, "version", dep, FALSE, FALSE)
  <1>1. /\ EntryLine(first, col) /\ EntryLine(app, col) /\ EntryLine(version, col)
        /\ EntryLine(deps, col) /\ EntryLine(name, col) /\ EntryLine(its, col)
        /\ first.dash /\ first.own
    <2>1. 0 \in Nat /\ 9 \in Nat
      OBVIOUS
    <2>2. "apiVersion" # "chart" /\ "appVersion" # "chart" /\ "version" # "chart" /\ "dependencies" # "chart" /\ "name" # "chart"
      OBVIOUS
    <2> QED
      BY <2>1, <2>2, EntryLines, Zenon
  <1>2. ChartEntry(col, n, pre, dep) = <<first>> \o Dependency(col, dep) \o <<app, version>>
    BY DEF ChartEntry
  <1>3. Dependency(col, dep) = <<>> \/ Dependency(col, dep) = <<deps, name, its>>
    BY DEF Dependency, KeyLine
  <1> HIDE DEF first, app, version, deps, name, its
  <1>4. EntryIs(<<first>>, col) /\ EntryIs(<<app, version>>, col) /\ EntryIs(<<>>, col) /\ EntryIs(<<deps, name, its>>, col)
    BY <1>1, TuplesAreListed DEF EntryIs
  <1>5. Starts(<<first>>)
    BY <1>1, TuplesAreListed DEF Starts
  <1>6. EntryIs(Dependency(col, dep), col)
    BY <1>3, <1>4, Zenon
  <1>7. EntryIs(<<first>> \o Dependency(col, dep), col) /\ Starts(<<first>> \o Dependency(col, dep))
    BY <1>4, <1>5, <1>6, EntriesJoin, Zenon
  <1> QED
    BY <1>2, <1>4, <1>7, EntriesJoin, Zenon

LEMMA BoundedIndex ==
    ASSUME NEW col \in {2, 4}, NEW first \in 1..3, NEW second \in 1..3, NEW pre \in BOOLEAN, NEW dep \in {0, 2, 6}
    PROVE  ChartsOf(Indexed(col, first, second, pre, dep))
  <1> DEFINE in == Indexed(col, first, second, pre, dep)
             opening == KeyLine(0, "entries")
             other == KeyLine(2, "other")
             zeta == KeyLine(2, "zeta")
             head == KeyLine(2, "chart")
             heads == <<opening, other>>
             one == ChartEntry(col, 7, FALSE, 0)
             two == ChartEntry(col, first, pre, dep)
             three == ChartEntry(col, second, FALSE, 0)
             four == ChartEntry(col, 8, FALSE, 0)
  <1>1. in.before = heads \o one /\ in.head = head /\ in.block = two \o three /\ in.after = <<zeta>> \o four
    BY DEF Indexed
  <1>2. /\ EntryIs(one, col) /\ EntryIs(two, col) /\ EntryIs(three, col) /\ EntryIs(four, col)
        /\ Starts(two)
    <2>1. 7 \in Nat /\ 8 \in Nat /\ 0 \in Nat /\ first \in Nat /\ second \in Nat /\ dep \in Nat
      OBVIOUS
    <2> QED
      BY <2>1, EntryIsAnEntry, Zenon
  <1>3. opening.key = "entries" /\ other.key = "other" /\ zeta.key = "zeta" /\ head.key = "chart"
    BY DEF KeyLine, Line
  <1>4. zeta.indent = 2 /\ head.indent = 2 /\ ~zeta.dash /\ ~head.dash
    BY DEF KeyLine, Line
  <1>5. OpensEntries(opening) /\ ~Heads(opening, "chart") /\ ~Heads(other, "chart") /\ Heads(head, "chart")
    BY <1>3, <1>4 DEF OpensEntries, Heads
  <1>6. ClosesSection(zeta, head)
    BY <1>4 DEF ClosesSection
  <1>7. /\ \A l : EntryLine(l, col) => ~ClosesSection(l, head) /\ InColumn(l, col + 2) /\ GoodVersion(l.tag.version) /\ ~Heads(l, "chart")
    BY DEF EntryLine
  <1> HIDE DEF in, opening, other, zeta, head, one, two, three, four
  <1>8. Sequenced(heads) /\ Listed(heads) = {opening, other} /\ Sequenced(<<zeta>>)
    BY TuplesAreListed
  <1> HIDE DEF heads
  <1>9. Sequenced(one) /\ Sequenced(four) /\ \A l \in Listed(one) : ~Heads(l, "chart")
    BY <1>2, <1>7 DEF EntryIs
  <1>10. /\ Sequenced(in.before) /\ \A l \in Listed(in.before) : l \in Listed(heads) \/ l \in Listed(one)
    <2>1. Sequenced(heads \o one) /\ \A l \in Listed(heads \o one) : l \in Listed(heads) \/ l \in Listed(one)
      BY <1>8, <1>9, Joined, JoinedLists, Zenon
    <2> QED
      BY <1>1, <2>1, Zenon
  <1>11. \A l \in Listed(in.before) : ~Heads(l, "chart")
    BY <1>5, <1>8, <1>9, <1>10
  <1>12. \E l \in Listed(in.before) : OpensEntries(l)
    <2>1. Len(heads) = 2 /\ heads[1] = opening
      BY DEF heads
    <2> DEFINE all == heads \o one
    <2>2. /\ Len(all) = Len(heads) + Len(one) /\ Len(one) \in Nat
          /\ \A i \in 1..Len(heads) : all[i] = heads[i]
      BY <1>8, <1>9, Joined, Zenon
    <2> HIDE DEF all
    <2>3. in.before[1] = opening /\ 1 \in 1..Len(in.before)
      <3>1. all[1] = opening /\ 1 \in 1..Len(all)
        BY <2>1, <2>2
      <3> QED
        BY <1>1, <3>1, Zenon DEF all
    <2>4. opening \in Listed(in.before)
      BY <1>10, <2>3, ListedAre
    <2> QED
      BY <1>5, <2>4
  <1>13. EntryIs(in.block, col) /\ Starts(in.block)
    BY <1>1, <1>2, EntriesJoin, Zenon
  <1>14. BlockOf(in, col + 2) /\ \A l \in Listed(in.block) : GoodVersion(l.tag.version)
    <2>1. Sequenced(in.block) /\ \A l \in Listed(in.block) : EntryLine(l, col)
      BY <1>13 DEF EntryIs
    <2> QED
      BY <1>1, <1>7, <1>13, <2>1, Zenon DEF BlockOf, Starts
  <1>15. Sequenced(in.after) /\ ClosesSection(in.after[1], in.head)
    <2>1. Len(<<zeta>>) = 1 /\ <<zeta>>[1] = zeta /\ 1 \in 1..1
      OBVIOUS
    <2> DEFINE z == <<zeta>>
    <2>2. Len(z) = 1 /\ z[1] = zeta /\ 1 \in 1..Len(z) /\ Sequenced(z) /\ in.after = z \o four
      BY <1>1, <1>8, <2>1
    <2> HIDE DEF z
    <2>3. Sequenced(z \o four) /\ \A i \in 1..Len(z) : (z \o four)[i] = z[i]
      BY <1>9, <2>2, Joined, Zenon
    <2>4. Sequenced(in.after) /\ in.after[1] = zeta
      <3>1. (z \o four)[1] = zeta
        BY <2>2, <2>3
      <3> QED
        BY <2>2, <2>3, <3>1
    <2> QED
      BY <1>1, <1>6, <2>4
  <1>16. ChartsOf(in)
    BY <1>1, <1>5, <1>10, <1>11, <1>12, <1>14, <1>15, Zenon DEF ChartsOf
  <1> QED
    BY <1>16 DEF in

LEMMA BoundedCharts == HelmRuns => AnyCharts
  <1> SUFFICES ASSUME HelmRuns PROVE AnyCharts
    OBVIOUS
  <1>1. gate = "none" /\ \E col \in {2, 4}, first, second \in 1..3, pre \in BOOLEAN, dep \in {0, 2, 6} :
                             ChartRead(Indexed(col, first, second, pre, dep))
    BY DEF HelmRuns
  <1>2. PICK col \in {2, 4}, first \in 1..3, second \in 1..3, pre \in BOOLEAN, dep \in {0, 2, 6} :
                 ChartRead(Indexed(col, first, second, pre, dep))
    BY <1>1, Zenon
  <1> QED
    BY <1>1, <1>2, BoundedIndex, Zenon DEF AnyCharts

-----------------------------------------------------------------------------
(* The gates over any input, with the runs of the bounded ones. *)

UpdateOf(in) == VarsFile(in.lines) /\ in.var \in Vars /\ Registered(in.var, Registry)
CoverageOf(in) == VarsFile(in.lines) /\ \A s \in in.registry : s.files \in Seq(FileTag)

AnyUpdate == gate = "none" /\ \E in :
    UpdateOf(in) /\ Runs("update", in, File!UpdateVersionInFile(in.lines, in.var, 9, Registry))
AnyCoverage == gate = "none" /\ \E in : CoverageOf(in) /\ Runs("coverage", in, File!CheckCoverage(in))
AnyPartner == gate = "none" /\ \E in : PartnerOf(in) /\ Runs("partner", in, File!CheckPartnerPins(in))
AnyDeploy == gate = "none" /\ \E in \in Deployments : Runs("deploy", in, Deploy!Verdict(in))
AnyMolecule == gate = "none" /\ \E in \in Outcomes : Runs("molecule", in, Molecule!Run(in))

AnyEgress == gate = "none" /\ \E in : EgressOf(in) /\ Runs("egress", in, Egress!Verdict(in, Builtin))
AnyDeny == gate = "none" /\ \E in : DenyOf(in) /\ Runs("deny", in, Deny!Verdict(in))
AnyScrape == gate = "none" /\ \E in : ScrapeOf(in) /\ Runs("scrape", in, Scrape!Verdict(in))
AnyWiring == gate = "none" /\ \E in : WiringOf(in) /\ Runs("wiring", in, Wiring!Verdict(in))
AnyInhibits == gate = "none" /\ \E in : InhibitOf(in) /\ Runs("inhibits", in, Inhibit!Verdict(in))
AnyAutoscaler == gate = "none" /\ \E in : GoodDocs(in.docs) /\ Runs("autoscaler", in, Hpa!Verdict(in))
AnyHelm == gate = "none" /\ \E in : (\A rel \in in.releases : GoodRelease(rel)) /\ Runs("helm", in, Helm!Verdict(in))
AnyComments == gate = "none" /\ \E in : CommentsOf(in) /\ Runs("comments", in, Comments!Verdict(in))
AnyRoles == gate = "none" /\ \E in : RolesOf(in) /\ Runs("roles", in, Inputs!Verdict(in))

NextOnAny == \/ AnyEgress \/ AnyDeny \/ AnyScrape \/ AnyWiring \/ AnyInhibits \/ AnyAutoscaler \/ AnyHelm
             \/ AnyUpdate \/ AnyCoverage \/ AnyPartner \/ AnyDeploy \/ AnyMolecule \/ AnyComments \/ AnyRoles
             \/ AnyCompare \/ AnyReleases \/ AnyHub \/ AnyLsio \/ AnyApt \/ AnyCharts
OnAnyInput == Init /\ [][NextOnAny]_vars

KeysInUse == {File!Helm, File!Comment, "other", "a_version", "b_version", "chart", "url", "sum", "sha", "crds"}

\* A file of at most n lines is a proper one, if its lines are.
GoodLine(l) == l \in VarsLine /\ l.indent # 1 /\ l.key # File!Blank
               /\ (l.key = File!Helm => l.indent = 0 /\ l.val = File!NoVal)

LEMMA GoodLinesMakeAFile ==
    ASSUME NEW k \in Nat, NEW f, f = [i \in 1..k |-> f[i]], \A i \in 1..k : GoodLine(f[i]), Proper(f)
    PROVE  VarsFile(f)
  <1>1. \A i \in 1..k : f[i] \in VarsLine
    BY DEF GoodLine
  <1>2. f \in [1..k -> VarsLine]
    BY <1>1
  <1>3. f \in Seq(VarsLine) /\ DOMAIN f = 1..k
    BY <1>2
  <1> QED
    BY <1>3 DEF VarsFile, GoodLine

LEMMA PinLinesAreGood ==
    ASSUME KeysInUse \subseteq Keys, NEW key \in KeysInUse, key # File!Helm, NEW val \in Nat,
           NEW indent \in {0, 2}
    PROVE  GoodLine(PinLine(indent, key, val))
  <1>1. key \in Keys /\ key # File!Blank
    BY DEF KeysInUse, File!Blank, File!Helm, File!Comment
  <1>2. PinLine(indent, key, val) \in VarsLine
    BY <1>1 DEF PinLine, VarsLine, File!NoVal
  <1>3. PinLine(indent, key, val).key = key /\ PinLine(indent, key, val).indent = indent
    BY DEF PinLine
  <1> QED
    BY <1>1, <1>2, <1>3 DEF GoodLine

LEMMA HelmLineIsGood ==
    ASSUME KeysInUse \subseteq Keys
    PROVE  GoodLine(PinLine(0, File!Helm, File!NoVal))
  BY DEF GoodLine, PinLine, VarsLine, KeysInUse, File!NoVal, File!Blank, File!Helm

LEMMA BoundedLinesAreGood ==
    ASSUME KeysInUse \subseteq Keys, NEW l \in VarsLines
    PROVE  GoodLine(l)
  <1>1. /\ GoodLine(PinLine(0, File!Helm, File!NoVal)) /\ GoodLine(PinLine(0, "other", File!NoVal))
        /\ GoodLine(PinLine(0, File!Comment, File!NoVal)) /\ GoodLine(PinLine(2, "a_version", 1))
        /\ GoodLine(PinLine(0, "a_version", 2)) /\ GoodLine(PinLine(0, "b_version", 1))
        /\ GoodLine(PinLine(2, "chart", 1)) /\ GoodLine(PinLine(2, "b_version", 3))
        /\ GoodLine(PinLine(0, "a_version", 1)) /\ GoodLine(PinLine(0, "url", 1))
    BY PinLinesAreGood, HelmLineIsGood DEF KeysInUse, File!NoVal, File!Helm, File!Comment
  <1>2. GoodLine([PinLine(2, "b_version", 3) EXCEPT !.note = 3])
    BY <1>1 DEF GoodLine, VarsLine
  <1>3. GoodLine([PinLine(0, "a_version", 1) EXCEPT !.spaced = TRUE])
    BY <1>1 DEF GoodLine, VarsLine
  <1> QED
    BY <1>1, <1>2, <1>3 DEF VarsLines

LEMMA BoundedFilesAreFiles ==
    ASSUME KeysInUse \subseteq Keys, NEW f \in VarsFiles
    PROVE  VarsFile(f)
  <1>1. Proper(f) /\ f \in UpTo(4, VarsLines)
    BY DEF VarsFiles
  <1>2. PICK k \in 0..4 : f \in [1..k -> VarsLines]
    BY <1>1 DEF UpTo
  <1>3. \A i \in 1..k : GoodLine(f[i])
    BY <1>2, BoundedLinesAreGood
  <1>4. f = [i \in 1..k |-> f[i]]
    BY <1>2
  <1> QED
    BY <1>1, <1>3, <1>4, GoodLinesMakeAFile

LEMMA BoundedTagsAreTags == \A fs \in TagFiles : fs \in Seq(FileTag)
  <1> SUFFICES ASSUME NEW fs \in TagFiles PROVE fs \in Seq(FileTag)
    OBVIOUS
  <1> DEFINE T == {File_(r, t) : r \in BOOLEAN, t \in 0..2}
  <1>1. PICK k \in 0..2 : fs \in [1..k -> T]
    BY DEF TagFiles, UpTo
  <1>2. T \subseteq FileTag
    BY DEF File_, FileTag
  <1> HIDE DEF T
  <1> QED
    BY <1>1, <1>2

LEMMA BoundedCoverage ==
    ASSUME KeysInUse \subseteq Keys, NEW in \in CoverageInputs
    PROVE  CoverageOf(in)
  <1>1. ASSUME NEW f \in {g \in VarsFiles : Len(g) < 4}, NEW vs, NEW x,
               in = [lines |-> f, registry |-> {PlainPin(v) : v \in vs}, allowlist |-> x]
        PROVE  CoverageOf(in)
    <2>1. \A s \in in.registry : s.files = <<>>
      BY <1>1 DEF PlainPin, Service
    <2>2. <<>> \in Seq(FileTag)
      OBVIOUS
    <2>3. VarsFile(in.lines)
      BY <1>1, BoundedFilesAreFiles
    <2> QED
      BY <2>1, <2>2, <2>3 DEF CoverageOf
  <1>2. ASSUME NEW c, NEW x, NEW fs \in TagFiles,
               in = [lines |-> <<PinLine(0, "a_version", 1), PinLine(0, "b_version", 1)>>, allowlist |-> x,
                     registry |-> {Service(File!Top("a_version"), <<>>, {}, c),
                                   Service(File!Top("image_version"), fs, {}, {})}]
        PROVE  CoverageOf(in)
    <2> DEFINE f == <<PinLine(0, "a_version", 1), PinLine(0, "b_version", 1)>>
    <2>1. GoodLine(f[1]) /\ GoodLine(f[2])
      BY PinLinesAreGood DEF KeysInUse, File!Helm
    <2>2. f = [i \in 1..2 |-> f[i]]
      OBVIOUS
    <2>3. Proper(f)
      <3>1. /\ DOMAIN f = 1..2 /\ f[1].key = "a_version" /\ f[2].key = "b_version"
            /\ f[1].indent = 0 /\ f[2].indent = 0
        BY DEF PinLine
      <3> HIDE DEF f
      <3>2. PathAt(f, 1) = <<"a_version">> /\ PathAt(f, 2) = <<"b_version">>
        BY <3>1 DEF PathAt
      <3> QED
        BY <3>1, <3>2 DEF Proper, KeyLines
    <2>4. VarsFile(f)
      <3>1. \A i \in 1..2 : GoodLine(f[i])
        BY <2>1
      <3> HIDE DEF f
      <3>2. \E k \in Nat : f = [i \in 1..k |-> f[i]] /\ \A i \in 1..k : GoodLine(f[i])
        BY <2>2, <3>1
      <3> QED
        BY <2>3, <3>2, GoodLinesMakeAFile
    <2>5. \A s \in in.registry : s.files \in Seq(FileTag)
      <3>1. \A s \in in.registry : s.files = <<>> \/ s.files = fs
        BY <1>2 DEF Service
      <3>2. <<>> \in Seq(FileTag) /\ fs \in Seq(FileTag)
        BY BoundedTagsAreTags
      <3> QED
        BY <3>1, <3>2
    <2> QED
      BY <1>2, <2>4, <2>5 DEF CoverageOf
  <1> QED
    BY <1>1, <1>2 DEF CoverageInputs

LEMMA BoundedPartner ==
    ASSUME KeysInUse \subseteq Keys, NEW in \in PartnerInputs
    PROVE  PartnerOf(in)
  <1> DEFINE keys == <<"a_version", "sum", "sha", File!Helm, "chart", "crds">>
             indents == <<0, 0, 0, 0, 2, 2>>
             Like(f) == /\ f = [i \in 1..6 |-> f[i]] /\ \A i \in 1..6 : GoodLine(f[i])
                        /\ \A i \in 1..6 : f[i].key = keys[i] /\ f[i].indent = indents[i]
  <1>1. Like(PartnerLines)
    <2>1. PartnerLines = [i \in 1..6 |-> PartnerLines[i]]
      BY DEF PartnerLines
    <2>2. /\ PartnerLines[1] = PinLine(0, "a_version", 2) /\ PartnerLines[2] = PinLine(0, "sum", 1)
          /\ PartnerLines[3] = PinLine(0, "sha", 1) /\ PartnerLines[4] = PinLine(0, File!Helm, File!NoVal)
          /\ PartnerLines[5] = PinLine(2, "chart", 1) /\ PartnerLines[6] = PinLine(2, "crds", 1)
      BY DEF PartnerLines, Sum
    <2>3. /\ GoodLine(PinLine(0, "a_version", 2)) /\ GoodLine(PinLine(0, "sum", 1)) /\ GoodLine(PinLine(0, "sha", 1))
          /\ GoodLine(PinLine(0, File!Helm, File!NoVal)) /\ GoodLine(PinLine(2, "chart", 1))
          /\ GoodLine(PinLine(2, "crds", 1))
      BY PinLinesAreGood, HelmLineIsGood DEF KeysInUse, File!Helm
    <2>4. \A i \in 1..6 : GoodLine(PartnerLines[i])
      BY <2>2, <2>3
    <2>5. \A i \in 1..6 : PartnerLines[i].key = keys[i] /\ PartnerLines[i].indent = indents[i]
      BY <2>2 DEF PinLine
    <2> QED
      BY <2>1, <2>4, <2>5
  <1>2. ASSUME NEW w \in SUBSET {1, 2, 3, 5, 6} PROVE Like(Edited(w))
    <2>1. Edited(w) = [i \in 1..6 |-> IF i \in w THEN Moved(PartnerLines[i]) ELSE PartnerLines[i]]
      BY <1>1 DEF Edited
    <2>2. ASSUME NEW i \in w PROVE /\ GoodLine(Moved(PartnerLines[i])) /\ i \in 1..6
                                   /\ Moved(PartnerLines[i]).key = keys[i] /\ Moved(PartnerLines[i]).indent = indents[i]
      <3>1. i \in 1..6 /\ i # 4
        BY <1>2
      <3>2. GoodLine(PartnerLines[i]) /\ PartnerLines[i].key = keys[i] /\ PartnerLines[i].indent = indents[i]
        BY <1>1, <3>1
      <3>3. keys[i] # File!Helm
        BY <3>1 DEF File!Helm
      <3> HIDE DEF keys, indents
      <3> QED
        BY <3>1, <3>2, <3>3 DEF GoodLine, Moved, VarsLine
    <2> HIDE DEF keys, indents
    <2> QED
      BY <1>1, <2>1, <2>2
  <1>3. ASSUME NEW f, Like(f)
        PROVE  VarsFile(f) /\ \A key \in {"a_version", "sum", "sha"} : Standing(File!Top(key), f)
    <2>1. /\ f[1].key = "a_version" /\ f[2].key = "sum" /\ f[3].key = "sha" /\ f[4].key = File!Helm
          /\ f[5].key = "chart" /\ f[6].key = "crds" /\ f[5].indent = 2 /\ f[6].indent = 2
          /\ f[1].indent = 0 /\ f[2].indent = 0 /\ f[3].indent = 0 /\ f[4].indent = 0
      BY <1>3
    <2>2. DOMAIN f = 1..6 /\ f = [i \in 1..6 |-> f[i]] /\ \A i \in 1..6 : GoodLine(f[i])
      BY <1>3
    <2> HIDE DEF Like
    <2>3. KeyLines(f) = 1..6
      BY <2>1, <2>2 DEF KeyLines, File!Comment, File!Helm
    <2>4. Owner(f, 5) = File!Helm /\ Owner(f, 6) = File!Helm
      <3>1. ASSUME NEW i \in {5, 6} PROVE Owner(f, i) = File!Helm
        <4> DEFINE heads == {j \in 1..i - 1 : f[j].indent = 0 /\ f[j].key # File!Comment}
        <4>1. heads = 1..4
          <5>1. \A j \in 1..i - 1 : j \in 1..4 \/ j = 5
            BY <3>1
          <5>2. \A j \in 1..4 : j \in 1..i - 1 /\ f[j].indent = 0 /\ f[j].key # File!Comment
            BY <2>1, <3>1 DEF File!Comment, File!Helm
          <5> QED
            BY <2>1, <5>1, <5>2
        <4> DEFINE g == CHOOSE j \in heads : \A k \in heads : k <= j
        <4>2. 4 \in heads /\ \A k \in heads : k <= 4
          BY <4>1
        <4>3. g \in heads /\ \A k \in heads : k <= g
          BY <4>2
        <4>4. Owner(f, i) = IF heads = {} THEN "" ELSE f[g].key
          BY DEF Owner
        <4> HIDE DEF heads, g
        <4>5. g = 4
          BY <4>1, <4>2, <4>3
        <4> QED
          BY <2>1, <4>2, <4>4, <4>5
      <3> QED
        BY <3>1
    <2>5. /\ PathAt(f, 1) = <<"a_version">> /\ PathAt(f, 2) = <<"sum">> /\ PathAt(f, 3) = <<"sha">>
          /\ PathAt(f, 4) = <<File!Helm>> /\ PathAt(f, 5) = <<File!Helm, "chart">> /\ PathAt(f, 6) = <<File!Helm, "crds">>
      BY <2>1, <2>4 DEF PathAt
    <2>6. \A i, j \in 1..6 : PathAt(f, i) = PathAt(f, j) => i = j
      BY <2>5 DEF File!Helm
    <2>7. \A i \in 1..6 : f[i].indent > 0 => Owner(f, i) \in {File!Helm, "other"}
      BY <2>1, <2>4
    <2>8. Proper(f)
      BY <2>3, <2>6, <2>7 DEF Proper
    <2>9. VarsFile(f)
      BY <2>2, <2>8, GoodLinesMakeAFile
    <2> QED
      BY <2>1, <2>3, <2>9 DEF Standing
  <1>4. PICK b \in BOOLEAN, w \in SUBSET {1, 2, 3, 5, 6}, c \in SUBSET {File!Top("sum"), File!Top("sha")},
             d \in SUBSET {File!Top("sum"), File!Chart("crds")} :
          in = [baseReadable |-> b, base |-> PartnerLines, head |-> Edited(w),
                registry |-> {Service(File!Top("a_version"), <<>>, c, {}), Service(File!Chart("chart"), <<>>, d, {})}]
    BY DEF PartnerInputs
  <1>5. Like(in.base) /\ Like(in.head)
    BY <1>1, <1>2, <1>4
  <1> HIDE DEF Like
  <1>6. ASSUME NEW s \in in.registry, ~s.var.chart, NEW v \in {s.var} \cup s.coupled
        PROVE  \E key \in {"a_version", "sum", "sha"} : v = File!Top(key)
    <2>1. \/ s = Service(File!Top("a_version"), <<>>, c, {})
          \/ s = Service(File!Chart("chart"), <<>>, d, {})
      BY <1>4, <1>6
    <2>2. s # Service(File!Chart("chart"), <<>>, d, {})
      BY <1>6 DEF Service, File!Chart
    <2>3. s.var = File!Top("a_version") /\ s.coupled = c
      BY <2>1, <2>2 DEF Service
    <2> QED
      BY <1>6, <2>3
  <1> QED
    BY <1>3, <1>5, <1>6 DEF PartnerOf

LEMMA BoundedOutcomes == \A n \in 1..4 : [1..n -> Attempts] \subseteq Outcomes
  <1> SUFFICES ASSUME NEW n \in 1..4, NEW f \in [1..n -> Attempts] PROVE f \in Outcomes
    OBVIOUS
  <1>1. Attempts \subseteq Attempt
    BY DEF Attempts, Attempt
  <1>2. f \in [1..n -> Attempt]
    BY <1>1
  <1>3. f \in Seq(Attempt) /\ f # <<>>
    BY <1>2
  <1> QED
    BY <1>3 DEF Outcomes

\* The bounded inputs of the autoscaler and release gates are such inputs.
LEMMA NamesAreNamed == Hpa!Named(Web1) /\ \A ns : Triple(Key(ns, "Deployment")) /\ Hpa!Named(Key(ns, "Deployment"))
                                                  /\ Triple(Key(ns, "VPA"))
  <1>1. "web" # ""
    BY Zenon
  <1>2. Web1[3] = "web" /\ \A ns, kind : Key(ns, kind) = <<ns, kind, "web">>
    BY DEF Web1, Key
  <1> QED
    BY <1>1, <1>2 DEF Triple, Hpa!Named

LEMMA TwoAreGood ==
    ASSUME NEW requests, NEW limits, Hpa!Readable(limits.memory) => limits.memory.n \in Nat \ {0}
    PROVE  /\ Two(requests, limits).kind = "Workload"
           /\ \A c \in Two(requests, limits).containers : GoodContainer(c) /\ c.limits = limits
  <1>1. "c1" \notin {"", "*"} /\ "c2" \notin {"", "*"}
    BY Zenon
  <1>2. /\ Two(requests, limits).kind = "Workload"
        /\ Two(requests, limits).containers = {Container("c1", requests, limits), Container("c2", Free, limits)}
    BY DEF Two, Deployment
  <1>3. \A name, r : Container(name, r, limits).name = name /\ Container(name, r, limits).limits = limits
    BY DEF Container
  <1>4. ASSUME NEW c \in Two(requests, limits).containers PROVE c.limits = limits /\ c.name \in {"c1", "c2"}
    BY <1>2, <1>3
  <1>5. ASSUME NEW c \in Two(requests, limits).containers PROVE c.name \notin {"", "*"}
    BY <1>1, <1>4, Zenon
  <1> QED
    BY <1>2, <1>4, <1>5 DEF GoodContainer

LEMMA PoliciesAreGood ==
    ASSUME NEW S, \A p \in S : p.cap.n \in Nat, NEW key, NEW off, NEW ps \in UpToTwo(S)
    PROVE  /\ Rightsizer(key, off, ps).kind = "VPA" /\ GoodVpa(Rightsizer(key, off, ps))
           /\ \A i \in DOMAIN Rightsizer(key, off, ps).policies : Rightsizer(key, off, ps).policies[i] \in S
  <1>1. \E n \in Nat : DOMAIN ps = 1..n /\ \A i \in 1..n : ps[i] \in S
    <2>1. CASE ps = <<>>
      BY <2>1
    <2>2. CASE \E p \in S : ps = <<p>>
      BY <2>2
    <2>3. CASE ps \in S \X S
      <3>1. PICK p \in S, q \in S : ps = <<p, q>>
        BY <2>3
      <3> QED
        BY <3>1
    <2> QED
      BY <2>1, <2>2, <2>3 DEF UpToTwo
  <1>2. /\ Rightsizer(key, off, ps).kind = "VPA" /\ Rightsizer(key, off, ps).target = Web1
        /\ Rightsizer(key, off, ps).policies = ps
    BY DEF Rightsizer
  <1> QED
    BY <1>1, <1>2, NamesAreNamed DEF GoodVpa

\* Documents of which each is of its kind's shape are good ones, if no container has a
\* limit or every policy names its container.
GoodDoc(d) ==
    \/ d.kind = "HPA" /\ GoodScaler(d)
    \/ d.kind = "VPA" /\ GoodVpa(d)
    \/ d.kind = "PDB" /\ GoodBudget(d)
    \/ d.kind = "Workload" /\ \A c \in d.containers : GoodContainer(c)
    \/ d.kind = "HelmRelease"
Nameless(d) == d.kind = "VPA" /\ \E i \in DOMAIN d.policies : d.policies[i].container = ""
Limited(d) == d.kind = "Workload" /\ \E c \in d.containers : Hpa!Readable(c.limits.memory)

LEMMA DocsAreGood ==
    ASSUME NEW docs, \A d \in docs : GoodDoc(d), (\A d \in docs : ~Nameless(d)) \/ (\A d \in docs : ~Limited(d))
    PROVE  GoodDocs(docs)
  <1>1. ASSUME NEW d \in docs
        PROVE  /\ d.kind = "HPA" => GoodScaler(d)
               /\ d.kind = "VPA" => GoodVpa(d)
               /\ d.kind = "PDB" => GoodBudget(d)
               /\ d.kind = "Workload" => \A c \in d.containers : GoodContainer(c)
    BY <1>1 DEF GoodDoc
  <1>2. \/ \A v \in docs : v.kind = "VPA" => \A i \in DOMAIN v.policies : v.policies[i].container # ""
        \/ \A w \in docs : w.kind = "Workload" => \A c \in w.containers : ~Hpa!Readable(c.limits.memory)
    BY DEF Nameless, Limited
  <1> QED
    BY <1>1, <1>2 DEF GoodDocs

LEMMA BoundedAutoscaler ==
    ASSUME NEW in \in HpaInputs
    PROVE  GoodDocs(in.docs)
  <1>1. ~Hpa!Readable(Hpa!Missing) /\ ~Hpa!Readable(Odd) /\ Hpa!Missing.n \in Nat
        /\ \A n \in Nat : Q(n).n = n
    BY DEF Hpa!Readable, Hpa!Factors, Hpa!Missing, Odd, Q
  <1>2. \A cpu, memory : Needs(cpu, memory).memory = memory
    BY DEF Needs
  <1>3. \A ms, floor : floor \in Nat /\ ms \in {{}, {Metric("cpu", "Resource")}, {Metric("memory", "ContainerResource")},
                                                {Metric("cpu", "External")}}
                       => GoodDoc(Scaler(ms, floor)) /\ Scaler(ms, floor).kind = "HPA"
    BY NamesAreNamed DEF GoodDoc, Scaler, GoodScaler, Metric, Hpa!Resources
  <1>4. ASSUME NEW requests, NEW limits, limits.memory \in {Hpa!Missing, Odd, Q(6)}
        PROVE  /\ GoodDoc(Two(requests, limits)) /\ ~Nameless(Two(requests, limits))
               /\ ~Hpa!Readable(limits.memory) => ~Limited(Two(requests, limits))
    <2>1. Hpa!Readable(limits.memory) => limits.memory.n \in Nat \ {0}
      BY <1>1, <1>4
    <2>2. /\ Two(requests, limits).kind = "Workload"
          /\ \A c \in Two(requests, limits).containers : GoodContainer(c) /\ c.limits = limits
      BY <2>1, TwoAreGood
    <2> QED
      BY <2>2 DEF GoodDoc, Nameless, Limited
  <1>5. ASSUME NEW names, NEW rs, NEW vs, NEW caps, \A q \in caps : q.n \in Nat, NEW key, NEW off,
               NEW ps \in UpToTwo(ContainerPolicies(names, rs, vs, caps))
        PROVE  /\ GoodDoc(Rightsizer(key, off, ps)) /\ ~Limited(Rightsizer(key, off, ps))
               /\ "" \notin names => ~Nameless(Rightsizer(key, off, ps))
    <2> DEFINE S == ContainerPolicies(names, rs, vs, caps)
    <2>1. \A p \in S : p.cap \in caps /\ p.container \in names
      BY DEF ContainerPolicies
    <2>2. \A p \in S : p.cap.n \in Nat
      BY <1>5, <2>1
    <2> HIDE DEF S
    <2>3. /\ Rightsizer(key, off, ps).kind = "VPA" /\ GoodVpa(Rightsizer(key, off, ps))
          /\ \A i \in DOMAIN Rightsizer(key, off, ps).policies : Rightsizer(key, off, ps).policies[i] \in S
      BY <1>5, <2>2, PoliciesAreGood DEF S
    <2> QED
      BY <2>1, <2>3 DEF GoodDoc, Limited, Nameless
  <1>6. \A d : d.kind = "HPA" => ~Nameless(d) /\ ~Limited(d)
    BY DEF Nameless, Limited
  <1>7. \A docs : Scan(docs).docs = docs
    BY DEF Scan
  <1>8. Free.memory \in {Hpa!Missing, Odd, Q(6)} /\ ~Hpa!Readable(Free.memory)
    BY <1>1, <1>2 DEF Free
  <1>9. GoodDoc(Two(Free, Free)) /\ ~Limited(Two(Free, Free))
    BY <1>4, <1>8
  <1>10. CASE in \in ClashInputs
    <2> DEFINE Ms == {{}, {Metric("cpu", "Resource")}, {Metric("memory", "ContainerResource")}, {Metric("cpu", "External")}}
               Ps == UpToTwo(ContainerPolicies({"*", "", "c1"}, {Hpa!Unset, {"cpu"}, {"memory"}}, {"RequestsOnly"}, {Hpa!Missing}))
    <2>1. PICK ms \in Ms, off \in BOOLEAN, ps \in Ps : in = Clashing(ms, off, ps)
      <3>1. ClashInputs = {Clashing(ms, off, ps) : ms \in Ms, off \in BOOLEAN, ps \in Ps}
        BY DEF ClashInputs
      <3> HIDE DEF Ms, Ps
      <3> QED
        BY <1>10, <3>1
    <2>2. GoodDoc(Rightsizer(VpaKey, off, ps)) /\ ~Limited(Rightsizer(VpaKey, off, ps))
      BY <1>1, <1>5
    <2>3. GoodDoc(Scaler(ms, 2)) /\ ~Limited(Scaler(ms, 2))
      BY <1>3, <1>6
    <2> HIDE DEF Ms, Ps
    <2>4. in.docs = {Two(Free, Free), Scaler(ms, 2), Rightsizer(VpaKey, off, ps)}
      BY <1>7, <2>1 DEF Clashing
    <2> QED
      BY <1>9, <2>2, <2>3, <2>4, DocsAreGood
  <1>11. ASSUME NEW request, NEW limit \in {Hpa!Missing, Odd, Q(6)}, NEW rs, NEW caps,
                caps \subseteq {Hpa!Missing, Q(5), Q(6), Q(7)},
                NEW ps \in UpToTwo(ContainerPolicies({"*", "c1"}, rs, Resizes, caps)),
                in = Limiting(limit, request, ps)
        PROVE  GoodDocs(in.docs)
    <2> DEFINE w == Two(Needs(Hpa!Missing, request), Needs(Hpa!Missing, limit))
               v == Rightsizer(VpaKey, FALSE, ps)
    <2>1. Needs(Hpa!Missing, limit).memory \in {Hpa!Missing, Odd, Q(6)}
      BY <1>2
    <2>2. GoodDoc(w) /\ ~Nameless(w)
      BY <1>4, <2>1
    <2>3. \A q \in {Hpa!Missing, Q(5), Q(6), Q(7)} : q.n \in Nat
      BY <1>1
    <2>4. \A q \in caps : q.n \in Nat
      BY <1>11, <2>3
    <2>5. "" \notin {"*", "c1"}
      BY Zenon
    <2>6. GoodDoc(v) /\ ~Nameless(v)
      BY <1>5, <1>11, <2>4, <2>5
    <2>7. in.docs = {w, v}
      BY <1>7, <1>11 DEF Limiting
    <2> HIDE DEF w, v
    <2> QED
      BY <2>2, <2>6, <2>7, DocsAreGood
  <1>12. CASE in \in CapInputs
    <2> DEFINE Caps == {Hpa!Missing, Q(5), Q(6), Q(7)}
               Ps == UpToTwo(ContainerPolicies({"*", "c1"}, {Hpa!Unset}, Resizes, Caps))
    <2>1. PICK limit \in {Q(6), Odd, Hpa!Missing}, ps \in Ps : in = Limiting(limit, Hpa!Missing, ps)
      BY <1>12 DEF CapInputs
    <2>2. Caps \subseteq {Hpa!Missing, Q(5), Q(6), Q(7)}
      OBVIOUS
    <2> HIDE DEF Caps
    <2> QED
      BY <1>11, <2>1, <2>2
  <1>13. CASE in \in RatioInputs
    <2> DEFINE Requests == {Q(5), Q(6), [n |-> 6144, suffix |-> "Ki"]}
               Rs == {Hpa!Unset, {"cpu"}}
               Caps == {Hpa!Missing}
               Ps == UpToTwo(ContainerPolicies({"*", "c1"}, Rs, Resizes, Caps))
    <2>1. PICK request \in Requests, ps \in Ps : in = Limiting(Q(6), request, ps)
      <3>1. RatioInputs = {Limiting(Q(6), request, ps) : request \in Requests, ps \in Ps}
        BY DEF RatioInputs
      <3> HIDE DEF Requests, Ps
      <3> QED
        BY <1>13, <3>1
    <2>2. Caps \subseteq {Hpa!Missing, Q(5), Q(6), Q(7)}
      OBVIOUS
    <2> HIDE DEF Caps, Rs
    <2> QED
      BY <1>11, <2>1, <2>2
  <1>14. CASE in \in BudgetInputs
    <2>1. PICK floor \in 1..2, budget \in Budgets : in = Guarded(floor, budget)
      BY <1>14 DEF BudgetInputs
    <2>2. PICK e \in BOOLEAN, l \in {{}, Web}, min \in Amounts, max \in Amounts : budget = Budget(e, l, min, max)
      BY DEF Budgets
    <2>3. GoodAmount(min) /\ GoodAmount(max)
      BY DEF Amounts, GoodAmount
    <2>4. GoodDoc(budget) /\ ~Limited(budget)
      BY <2>2, <2>3 DEF GoodDoc, GoodBudget, Budget, Limited
    <2>5. GoodDoc(Scaler({}, floor)) /\ ~Limited(Scaler({}, floor))
      BY <1>3, <1>6
    <2>6. in.docs = {Two(Free, Free), Scaler({}, floor), budget}
      BY <1>7, <2>1 DEF Guarded
    <2> QED
      BY <1>9, <2>4, <2>5, <2>6, DocsAreGood
  <1>15. CASE in \in ExcuseInputs
    <2>1. PICK cpu \in {Hpa!Missing, Q(1)}, t \in BOOLEAN, c \in BOOLEAN, p \in Excuses :
                  in = Required(Targeted(cpu), t, c, p)
      BY <1>15 DEF ExcuseInputs
    <2> DEFINE w == Two(Free, Needs(cpu, Q(6)))
               v == Rightsizer(VpaKey, FALSE, <<>>)
               h == ScaledBy(<<"a", "Other", "r">>, cpu = Q(1))
    <2>2. \A docs, x, y, z : Required(Scan(docs), x, y, z).docs = docs
      BY DEF Scan, Required
    <2>3. Needs(cpu, Q(6)).memory \in {Hpa!Missing, Odd, Q(6)}
      BY <1>2
    <2>4. GoodDoc(w) /\ ~Nameless(w)
      BY <1>4, <2>3
    <2>5. GoodDoc(v) /\ ~Nameless(v)
      <3>1. <<>> \in UpToTwo({})
        BY DEF UpToTwo
      <3>2. v.kind = "VPA" /\ GoodVpa(v)
        BY <3>1, PoliciesAreGood
      <3>3. v.policies = <<>>
        BY DEF Rightsizer
      <3> HIDE DEF v
      <3>4. \A i \in DOMAIN v.policies : FALSE
        BY <3>3
      <3> QED
        BY <3>2, <3>4 DEF GoodDoc, Nameless
    <2>6. h.kind = "HelmRelease"
      BY DEF ScaledBy
    <2> HIDE DEF w, v, h
    <2>7. GoodDoc(h) /\ ~Nameless(h)
      BY <2>6 DEF GoodDoc, Nameless
    <2>8. in.docs = {w, v, h}
      <3>1. Targeted(cpu) = Scan({w, v, h})
        BY DEF Targeted, w, v, h
      <3> QED
        BY <2>1, <2>2, <3>1
    <2> QED
      BY <2>4, <2>5, <2>7, <2>8, DocsAreGood
  <1>16. CASE in \in DeclaredInputs
    <2>1. PICK u \in BOOLEAN, bad \in BOOLEAN, p \in Declarations : in = Untargeted(u, bad, p)
      BY <1>16 DEF DeclaredInputs
    <2> DEFINE p1 == [container |-> "*", off |-> FALSE, resources |-> {"memory"}, values |-> "RequestsOnly", cap |-> Q(6)]
    <2>2. p1.cap.n \in Nat /\ Lonely = Rightsizer(VpaKey, FALSE, <<p1>>)
      BY <1>1 DEF Lonely
    <2> HIDE DEF p1
    <2>3. <<p1>> \in UpToTwo({p1})
      BY DEF UpToTwo
    <2>4. Lonely.kind = "VPA" /\ GoodVpa(Lonely)
      BY <2>2, <2>3, PoliciesAreGood
    <2>5. GoodDoc(Lonely) /\ ~Limited(Lonely)
      BY <2>4 DEF GoodDoc, Limited
    <2>6. in.docs = {Lonely}
      BY <2>1 DEF Untargeted, Scan
    <2> QED
      BY <2>5, <2>6, DocsAreGood
  <1> QED
    BY <1>10, <1>12, <1>13, <1>14, <1>15, <1>16 DEF HpaInputs

LEMMA BoundedHelm ==
    ASSUME NEW in \in HelmInputs
    PROVE  \A rel \in in.releases : GoodRelease(rel)
  <1>1. ASSUME NEW cap, cap.n \in Nat, NEW ns, NEW cpu, NEW vns, NEW values, NEW t, NEW o
        PROVE  GoodRelease(Chart(t, o, {Rendered(ns, cpu)}, {Capped(vns, cap, values)}))
    <2> DEFINE w == Rendered(ns, cpu)
               v == Capped(vns, cap, values)
               c1 == Container("c1", Free, Needs(cpu, Q(6)))
               rel == Chart(t, o, {w}, {v})
    <2>1. w = [kind |-> "Workload", key |-> Key(ns, "Deployment"), labels |-> {}, containers |-> {c1}]
      BY DEF Rendered, Deployment
    <2>2. GoodContainer(c1)
      <3>1. "c1" \notin {"", "*"}
        BY Zenon
      <3>2. c1.limits.memory = Q(6) /\ c1.name = "c1" /\ Q(6).n = 6
        BY DEF Container, Needs, Q
      <3> HIDE DEF c1
      <3>3. c1.name \notin {"", "*"}
        BY <3>1, <3>2, Zenon
      <3> QED
        BY <3>2, <3>3 DEF GoodContainer
    <2> HIDE DEF c1
    <2> DEFINE p == [container |-> "*", off |-> FALSE, resources |-> Hpa!Unset, values |-> values, cap |-> cap]
               u == Rightsizer(Key(vns, "VPA"), FALSE, <<p>>)
    <2>a. v = [u EXCEPT !.target = Key(vns, "Deployment")] /\ p.cap = cap
      BY DEF Capped
    <2> HIDE DEF p
    <2>b. u = [kind |-> "VPA", key |-> Key(vns, "VPA"), target |-> Web1, off |-> FALSE, policies |-> <<p>>]
      BY DEF Rightsizer
    <2> HIDE DEF v, u
    <2>3. v = [kind |-> "VPA", key |-> Key(vns, "VPA"), target |-> Key(vns, "Deployment"), off |-> FALSE,
               policies |-> <<p>>]
      BY <2>a, <2>b
    <2>4. rel.rendered = {w} /\ rel.beside = {[parses |-> TRUE, docs |-> {v}]}
      BY DEF Chart
    <2> HIDE DEF w, v, rel
    <2>5. GoodVpa(v)
      <3>1. v.target = Key(vns, "Deployment") /\ v.policies = <<p>>
        BY <2>3
      <3>2. p.cap.n \in Nat
        BY <1>1, <2>a
      <3> QED
        BY <3>1, <3>2, NamesAreNamed DEF GoodVpa
    <2>6. /\ w = [kind |-> "Workload", key |-> w.key, labels |-> w.labels, containers |-> w.containers]
          /\ Triple(w.key) /\ Hpa!Named(w.key) /\ \A c \in w.containers : GoodContainer(c)
      BY <2>1, <2>2, NamesAreNamed
    <2>7. /\ v = [kind |-> "VPA", key |-> v.key, target |-> v.target, off |-> v.off, policies |-> v.policies]
          /\ Triple(v.key) /\ Triple(v.target)
      BY <2>3, NamesAreNamed
    <2>8. GoodRelease(rel)
      BY <2>4, <2>5, <2>6, <2>7 DEF GoodRelease
    <2> QED
      BY <2>8 DEF rel, w, v
  <1>2. Hpa!Missing.n \in Nat /\ \A n \in Nat : Q(n).n \in Nat
    BY DEF Hpa!Missing, Q
  <1>3. GoodRelease(Sound)
    BY <1>1, <1>2 DEF Sound
  <1>4. \A rel \in Charts : GoodRelease(rel)
    <2> SUFFICES ASSUME NEW rel \in Charts PROVE GoodRelease(rel)
      OBVIOUS
    <2>1. PICK t \in Targets, o \in Owners, app \in Apps, vpa \in Vpas : rel = Charting(t, o, app, vpa)
      BY DEF Charts
    <2>2. PICK ns \in Targets, cpu \in {Hpa!Missing, Q(1)} : app = Rendered(ns, cpu)
      BY DEF Apps
    <2>3. PICK vns \in Placings, cap \in {Hpa!Missing, Q(5), Q(6), Q(7)}, values \in Resizes : vpa = Capped(vns, cap, values)
      BY DEF Vpas
    <2>4. cap.n \in Nat
      BY <1>2
    <2> QED
      BY <1>1, <2>1, <2>2, <2>3, <2>4 DEF Charting
  <1>5. \A rel \in Ailing : GoodRelease(rel)
    <2> SUFFICES ASSUME NEW rel \in Ailing PROVE GoodRelease(rel)
      OBVIOUS
    <2>1. \A t : Reading(t).rendered = Sound.rendered /\ Reading(t).beside = Sound.beside
      BY DEF Reading, Sound, Chart
    <2>2. \A a, t, k : Ending(a, t, k).rendered = Sound.rendered /\ Ending(a, t, k).beside = Sound.beside
      BY DEF Ending, Sound, Chart
    <2>3. \A s, o, r : Sourced(s, o, r).rendered = Sound.rendered /\ Sourced(s, o, r).beside = Sound.beside
      BY DEF Sourced, Sound, Chart
    <2>4. \A f, v, k, x : Holding(f, v, k, x).rendered = Sound.rendered /\ Holding(f, v, k, x).beside = Sound.beside
      BY DEF Holding, Sound, Chart
    <2>5. rel.rendered = Sound.rendered /\ rel.beside = Sound.beside
      BY <2>1, <2>2, <2>3, <2>4 DEF Ailing
    <2> QED
      BY <1>3, <2>5 DEF GoodRelease
  <1>6. \A rels : Renders(rels).releases = rels
    BY DEF Renders
  <1>7. \A rel, x, y : Excusing(rel, x, y).releases = {rel}
    BY DEF Renders, Excusing
  <1>8. \A t, c, u, v, s : Equipped(t, c, u, v, s).releases = {Sound}
    BY DEF Renders, Equipped
  <1>9. CASE in \in ReleaseInputs
    <2>1. PICK rel \in Charts, x \in Excused(Web1), y \in Excused(VpaKey) : in = Excusing(rel, x, y)
      BY <1>9 DEF ReleaseInputs
    <2> QED
      BY <1>4, <1>7, <2>1
  <1>10. CASE in \in FailingInputs
    <2>1. PICK rel \in Ailing : in = Renders({Sound, rel})
      BY <1>10 DEF FailingInputs
    <2>2. in.releases = {Sound, rel}
      BY <1>6, <2>1, Zenon
    <2>3. GoodRelease(Sound) /\ GoodRelease(rel)
      BY <1>3, <1>5
    <2> QED
      BY <2>2, <2>3, Zenon
  <1>11. CASE in \in ToolInputs
    BY <1>3, <1>8, <1>11 DEF ToolInputs
  <1>12. CASE in = Renders({})
    BY <1>6, <1>12
  <1> QED
    BY <1>9, <1>10, <1>11, <1>12, Zenon DEF HelmInputs

LEMMA BoundedComments == ASSUME CommentBlocksRuns PROVE AnyComments
  <1>1. \A n, S : \A lines \in LinesUpTo(n, S) : Sequenced(lines)
    <2> SUFFICES ASSUME NEW n, NEW S, NEW k \in 1..n, NEW lines \in [1..k -> S] PROVE Sequenced(lines)
      BY DEF LinesUpTo
    <2>1. k \in Nat
      OBVIOUS
    <2>2. \A i \in 1..k : lines[i] \in Listed(lines)
      BY DEF Listed
    <2>3. lines \in [1..k -> Listed(lines)]
      BY <2>2
    <2>4. lines \in Seq(Listed(lines))
      <3> DEFINE T == Listed(lines)
      <3> HIDE DEF T
      <3>1. lines \in [1..k -> T]
        BY <2>3 DEF T
      <3>2. lines \in Seq(T)
        BY <2>1, <3>1
      <3> QED
        BY <3>2 DEF T
    <2> QED
      BY <2>4 DEF Sequenced
  <1>2. ASSUME NEW l \in {Shell, Docker, Html, Markdown, Python} PROVE l.directives \in BOOLEAN /\ (l.name = "python" => l.markers)
    <2>1. Shell.name = "shell" /\ Shell.markers = TRUE /\ Shell.directives = FALSE
      BY DEF Shell, Language
    <2>2. Docker.name = "dockerfile" /\ Docker.markers = TRUE /\ Docker.directives = TRUE
      BY DEF Docker, Language
    <2>3. Python.name = "python" /\ Python.markers = TRUE /\ Python.directives = FALSE
      BY DEF Python, Language
    <2>4. Html.name = "html" /\ Html.markers = FALSE /\ Html.directives = FALSE
      BY DEF Html, Language
    <2>5. Markdown.name = "markdown" /\ Markdown.markers = FALSE /\ Markdown.directives = FALSE
      BY DEF Markdown, Language
    <2> QED
      BY <1>2, <2>1, <2>2, <2>3, <2>4, <2>5
  <1>3. ASSUME NEW l \in {Shell, Docker, Html, Markdown, Python}, NEW lines, Sequenced(lines)
        PROVE  GoodScanned(SourceFile(l, lines))
    <2> DEFINE f == SourceFile(l, lines)
    <2>1. f.language = l /\ f.lines = lines /\ f.docstrings = {} /\ f.parses = "yes"
      BY DEF SourceFile
    <2> HIDE DEF f
    <2> QED
      BY <1>2, <1>3, <2>1 DEF GoodScanned, f
  <1>4. \A x, y : Sequenced(<<x>>) /\ Sequenced(<<x, y>>)
    <2> SUFFICES ASSUME NEW x, NEW y PROVE Sequenced(<<x>>) /\ Sequenced(<<x, y>>)
      OBVIOUS
    <2>1. Listed(<<x>>) = {x} /\ Listed(<<x, y>>) = {x, y}
      BY DEF Listed
    <2> QED
      BY <2>1 DEF Sequenced
  <1>5. ASSUME NEW d \in SUBSET {<<"words">>, <<"words", "">>, <<"words", "words">>, <<"CRITICAL:", "words">>},
               NEW p \in {"yes", "neutralized", "no"}, NEW t, NEW r, NEW x
        PROVE  GoodScanned(Module(d, p, t, r, x))
    <2> DEFINE was == SourceFile(Python, <<SourceLine("code", "words")>>)
               f == Module(d, p, t, r, x)
    <2>1. was.language = Python /\ was.lines = <<SourceLine("code", "words")>>
      BY DEF SourceFile
    <2>2. was = [y \in DOMAIN was |-> was[y]] /\ {"docstrings", "parses", "language", "lines"} \subseteq DOMAIN was
      BY DEF SourceFile
    <2>3. f = [was EXCEPT !.docstrings = d, !.parses = p, !.template = t, !.readable = r, !.excluded = x]
      BY DEF Module
    <2> HIDE DEF was, f
    <2>4. f.language = Python /\ f.lines = was.lines /\ f.docstrings = d /\ f.parses = p
      BY <2>1, <2>2, <2>3
    <2>5. Sequenced(f.lines) /\ \A body \in f.docstrings : Sequenced(body)
      BY <1>4, <2>1, <2>4
    <2> QED
      BY <1>2, <2>4, <2>5 DEF GoodScanned, f
  <1>6. \A i : GoodScanned(Script(i))
    <2> SUFFICES ASSUME NEW i PROVE GoodScanned(Script(i))
      OBVIOUS
    <2> DEFINE was == SourceFile(Shell, <<SourceLine("comment", "words"), SourceLine("comment", "words")>>)
               f == Script(i)
    <2>1. was.language = Shell /\ Sequenced(was.lines) /\ was.docstrings = {} /\ was.parses = "yes"
      BY <1>4 DEF SourceFile
    <2>2. f = [was EXCEPT !.included = i] /\ {"docstrings", "parses", "language", "lines"} \subseteq DOMAIN was
      BY DEF Script, SourceFile
    <2> HIDE DEF was, f
    <2>3. f.language = was.language /\ f.lines = was.lines /\ f.docstrings = was.docstrings /\ f.parses = was.parses
      BY <2>2
    <2> QED
      BY <1>2, <2>1, <2>3 DEF GoodScanned, f
  <1>7. \A f : GoodScanned(f) =>
            /\ CommentsOf(Scans({f}))
            /\ \A j : CommentsOf([Scans({f}) EXCEPT !.strictJinja = j])
            /\ \A u, n : \A c \in 0..2 :
                   CommentsOf([Scans({f}) EXCEPT !.usable = u, !.include = n, !.limits = [plain |-> 1, critical |-> c]])
    <2> SUFFICES ASSUME NEW f, GoodScanned(f)
                 PROVE  /\ CommentsOf(Scans({f}))
                        /\ \A j : CommentsOf([Scans({f}) EXCEPT !.strictJinja = j])
                        /\ \A u, n : \A c \in 0..2 :
                               CommentsOf([Scans({f}) EXCEPT !.usable = u, !.include = n, !.limits = [plain |-> 1, critical |-> c]])
      OBVIOUS
    <2> DEFINE was == Scans({f})
    <2>1. was.files = {f} /\ was.limits = Limits /\ {"files", "limits"} \subseteq DOMAIN was
      BY DEF Scans
    <2>2. Limits.plain = 1 /\ Limits.critical = 2
      BY DEF Limits
    <2> HIDE DEF was
    <2>3. \A in : in.files = was.files /\ in.limits.plain \in Int /\ in.limits.critical \in Int => CommentsOf(in)
      BY <2>1 DEF CommentsOf
    <2>4. CommentsOf(was)
      BY <2>1, <2>2, <2>3
    <2>5. ASSUME NEW j PROVE CommentsOf([was EXCEPT !.strictJinja = j])
      <3> DEFINE now == [was EXCEPT !.strictJinja = j]
      <3>1. now.files = was.files /\ now.limits = was.limits
        BY <2>1
      <3> HIDE DEF now
      <3>2. CommentsOf(now)
        BY <2>1, <2>2, <2>3, <3>1
      <3> QED
        BY <3>2 DEF now
    <2>6. ASSUME NEW u, NEW n, NEW c \in 0..2
          PROVE  CommentsOf([was EXCEPT !.usable = u, !.include = n, !.limits = [plain |-> 1, critical |-> c]])
      <3> DEFINE limits == [plain |-> 1, critical |-> c]
                 now == [was EXCEPT !.usable = u, !.include = n, !.limits = limits]
      <3>1. limits.plain = 1 /\ limits.critical = c
        OBVIOUS
      <3> HIDE DEF limits
      <3>2. now.files = was.files /\ now.limits = limits
        BY <2>1
      <3> HIDE DEF now
      <3>3. CommentsOf(now)
        BY <2>3, <3>1, <3>2
      <3> QED
        BY <3>3 DEF now, limits
    <2> QED
      BY <2>4, <2>5, <2>6 DEF was
  <1>8. gate = "none"
    BY DEF CommentBlocksRuns
  <1>9. \E in : CommentsOf(in) /\ CommentsRead(in)
    <2>1. ASSUME NEW l \in {Shell, Docker}, NEW lines \in LinesUpTo(4, PlainLines), CommentsRead(Scans({SourceFile(l, lines)}))
          PROVE  \E in : CommentsOf(in) /\ CommentsRead(in)
      <3> DEFINE f == SourceFile(l, lines)
      <3>1. GoodScanned(f)
        BY <1>1, <1>3
      <3>2. CommentsRead(Scans({f}))
        BY <2>1
      <3> HIDE DEF f
      <3>3. CommentsOf(Scans({f}))
        BY <3>1, <1>7
      <3> QED
        BY <3>2, <3>3
    <2>2. ASSUME NEW lines \in LinesUpTo(5, BlockLines), CommentsRead(Scans({SourceFile(Html, lines)}))
          PROVE  \E in : CommentsOf(in) /\ CommentsRead(in)
      <3> DEFINE f == SourceFile(Html, lines)
      <3>1. GoodScanned(f)
        BY <1>1, <1>3
      <3>2. CommentsRead(Scans({f}))
        BY <2>2
      <3> HIDE DEF f
      <3>3. CommentsOf(Scans({f}))
        BY <3>1, <1>7
      <3> QED
        BY <3>2, <3>3
    <2>3. ASSUME NEW lines \in LinesUpTo(5, FenceLines), CommentsRead(Scans({SourceFile(Markdown, lines)}))
          PROVE  \E in : CommentsOf(in) /\ CommentsRead(in)
      <3> DEFINE f == SourceFile(Markdown, lines)
      <3>1. GoodScanned(f)
        BY <1>1, <1>3
      <3>2. CommentsRead(Scans({f}))
        BY <2>3
      <3> HIDE DEF f
      <3>3. CommentsOf(Scans({f}))
        BY <3>1, <1>7
      <3> QED
        BY <3>2, <3>3
    <2>4. ASSUME NEW d \in SUBSET {<<"words">>, <<"words", "">>, <<"words", "words">>, <<"CRITICAL:", "words">>},
                 NEW p \in {"yes", "neutralized", "no"}, NEW t \in BOOLEAN, NEW r \in BOOLEAN, NEW x \in BOOLEAN,
                 NEW j \in BOOLEAN, CommentsRead([Scans({Module(d, p, t, r, x)}) EXCEPT !.strictJinja = j])
          PROVE  \E in : CommentsOf(in) /\ CommentsRead(in)
      <3> DEFINE f == Module(d, p, t, r, x)
      <3>1. GoodScanned(f)
        BY <1>5
      <3>2. CommentsRead([Scans({f}) EXCEPT !.strictJinja = j])
        BY <2>4
      <3> HIDE DEF f
      <3>3. CommentsOf([Scans({f}) EXCEPT !.strictJinja = j])
        BY <3>1, <1>7
      <3> QED
        BY <3>2, <3>3
    <2>5. ASSUME NEW i \in BOOLEAN, NEW u \in BOOLEAN, NEW n \in BOOLEAN, NEW c \in 0..2,
                 CommentsRead([Scans({Script(i)}) EXCEPT !.usable = u, !.include = n, !.limits = [plain |-> 1, critical |-> c]])
          PROVE  \E in : CommentsOf(in) /\ CommentsRead(in)
      BY <1>6, <1>7, <2>5
    <2> QED
      BY <2>1, <2>2, <2>3, <2>4, <2>5, Zenon DEF CommentBlocksRuns
  <1> QED
    BY <1>8, <1>9 DEF AnyComments, CommentsRead

LEMMA BoundedRoles == ASSUME RoleInputsRuns PROVE AnyRoles
  <1>1. ASSUME NEW d, NEW cs, NEW g, NEW x, NEW b, \A c \in cs : c.negated \in BOOLEAN
        PROVE  RolesOf(Asserting(d, cs, g, x, b))
    <2> DEFINE web == [name |-> Role, defaults |-> d, asserts |-> {Assert(Token, cs)}]
               opt == [name |-> <<"opt">>, defaults |-> {<<<<"opt", "enabled">>, Val("false")>>}, asserts |-> {}]
    <2>1. Asserting(d, cs, g, x, b).roles = {web, opt}
      BY DEF RoleFiles, Asserting
    <2>2. Assert(Token, cs).conditions = cs
      BY DEF Assert
    <2>3. web.asserts = {Assert(Token, cs)} /\ opt.asserts = {}
      OBVIOUS
    <2> HIDE DEF web, opt
    <2> QED
      BY <1>1, <2>1, <2>2, <2>3 DEF RolesOf, GoodAsserts
  <1>2. \A n, m : n \in BOOLEAN => Cond(n, m).negated \in BOOLEAN
    BY DEF Cond
  <1>3. \A cs \in {{}, {Cond(FALSE, TRUE)}, {Cond(TRUE, TRUE)}, {Cond(FALSE, FALSE)}} : \A c \in cs : c.negated \in BOOLEAN
    BY <1>2
  <1>4. ASSUME NEW g, NEW w, NEW k, NEW m, NEW a, NEW u, NEW p
        PROVE  RolesOf(Declaring(g, w, k, m, a, u, p))
    <2> DEFINE d == {<<Enabled, Val("false")>>}
               was == RoleFiles(d, {}, g, {}, {Invocation(FALSE, w)})
               now == [was EXCEPT !.skip = k, !.allowEmpty = m, !.allowDisabled = a, !.allowUnknown = u, !.parses = p]
               web == [name |-> Role, defaults |-> d, asserts |-> {}]
               opt == [name |-> <<"opt">>, defaults |-> {<<<<"opt", "enabled">>, Val("false")>>}, asserts |-> {}]
    <2>1. was.roles = {web, opt} /\ "roles" \in DOMAIN was
      BY DEF RoleFiles
    <2>2. web.asserts = {} /\ opt.asserts = {}
      OBVIOUS
    <2>3. Declaring(g, w, k, m, a, u, p) = now
      BY DEF Declaring
    <2> HIDE DEF was, web, opt
    <2>4. now.roles = was.roles
      BY <2>1
    <2> HIDE DEF now
    <2> QED
      BY <2>1, <2>2, <2>3, <2>4 DEF RolesOf, GoodAsserts
  <1>5. gate = "none"
    BY DEF RoleInputsRuns
  <1>6. \E in : RolesOf(in) /\ RolesRead(in)
    <2>1. CASE \E t \in OneOf(Token, {Val("empty"), Val("set"), Val("opaque"), Ref(Site), Ref(Token)}),
                  e \in OneOf(Enabled, {Val("false"), Val("set")}),
                  s \in OneOf(Site, {Val("empty"), Val("set"), Ref(Enabled)}),
                  g \in OneOf(Enabled, {Val("set")}), v \in OneOf(Token, {Val("set")}), x \in SUBSET {Token, Site},
                  cs \in {{}, {Cond(FALSE, TRUE)}, {Cond(TRUE, TRUE)}, {Cond(FALSE, FALSE)}}, b \in BOOLEAN :
                    RolesRead(Asserting(t \cup e, cs, s \cup g \cup v, x, b))
      <3>1. PICK t \in OneOf(Token, {Val("empty"), Val("set"), Val("opaque"), Ref(Site), Ref(Token)}),
                     e \in OneOf(Enabled, {Val("false"), Val("set")}),
                     s \in OneOf(Site, {Val("empty"), Val("set"), Ref(Enabled)}),
                     g \in OneOf(Enabled, {Val("set")}), v \in OneOf(Token, {Val("set")}), x \in SUBSET {Token, Site},
                     cs \in {{}, {Cond(FALSE, TRUE)}, {Cond(TRUE, TRUE)}, {Cond(FALSE, FALSE)}}, b \in BOOLEAN :
                RolesRead(Asserting(t \cup e, cs, s \cup g \cup v, x, b))
        BY <2>1, Zenon
      <3>2. RolesOf(Asserting(t \cup e, cs, s \cup g \cup v, x, b))
        BY <1>1, <1>3
      <3> QED
        BY <3>1, <3>2
    <2>2. CASE \E g \in {{}, {<<Enabled, Val("set")>>}, {<<<<"web", "typo">>, Val("set")>>}}, w \in {{}, {Enabled}},
                  k \in SUBSET Inputs!Arms, m \in BOOLEAN, p \in BOOLEAN,
                  a \in Waived(Role, BOOLEAN), u \in Waived(<<"web", "typo">>, {TRUE}) :
                    RolesRead(Declaring(g, w, k, m, a, u, p))
      BY <1>4, <2>2, Zenon
    <2> QED
      BY <2>1, <2>2, Zenon DEF RoleInputsRuns
  <1> QED
    BY <1>5, <1>6 DEF AnyRoles, RolesRead

\* What was read is of its gate's shape, and the result is the gate's.
Answered ==
    /\ gate = "egress" => EgressOf(input) /\ result = Egress!Verdict(input, Builtin)
    /\ gate = "deny" => DenyOf(input) /\ result = Deny!Verdict(input)
    /\ gate = "scrape" => ScrapeOf(input) /\ result = Scrape!Verdict(input)
    /\ gate = "wiring" => WiringOf(input) /\ result = Wiring!Verdict(input)
    /\ gate = "inhibits" => InhibitOf(input) /\ result = Inhibit!Verdict(input)
    /\ gate = "autoscaler" => GoodDocs(input.docs) /\ result = Hpa!Verdict(input)
    /\ gate = "helm" => (\A rel \in input.releases : GoodRelease(rel)) /\ result = Helm!Verdict(input)
    /\ gate = "update" => UpdateOf(input) /\ result = File!UpdateVersionInFile(input.lines, input.var, 9, Registry)
    /\ gate = "coverage" => CoverageOf(input) /\ result = File!CheckCoverage(input)
    /\ gate = "partner" => PartnerOf(input) /\ result = File!CheckPartnerPins(input)
    /\ gate = "deploy" => input \in Deployments /\ result = Deploy!Verdict(input)
    /\ gate = "molecule" => input \in Outcomes /\ result = Molecule!Run(input)
    /\ gate = "comments" => CommentsOf(input) /\ result = Comments!Verdict(input)
    /\ gate = "roles" => RolesOf(input) /\ result = Inputs!Verdict(input)
    /\ gate = "compare" => /\ GoodVersion(input[1]) /\ GoodVersion(input[2])
                           /\ result = Scheme!VersionTupleGreater(input[1], input[2])
    /\ gate = "github" => GithubOf(input) /\ result = Scheme!FetchGithubRelease(input.svc, input.releases, Scheme!Failed)
    /\ gate = "hub" => HubOf(input) /\ result = Scheme!FetchDockerhubVersion(input.svc, input.tags, input.pin)
    /\ gate = "lsio" => HubOf(input) /\ result = Scheme!FetchLsioVersion(input.svc, input.tags, input.pin)
    /\ gate = "apt" => AptOf(input) /\ result = Scheme!FetchAptRepoVersion(input.urls, input.excluded)
    /\ gate = "charts" => ChartsOf(input) /\ result = Scheme!FetchHelmVersion(Index(input), "chart")

LEMMA GatesAnswer == OnAnyInput => []Answered
  <1>1. Init => Answered
    BY DEF Init, Answered
  <1>2. Answered /\ [NextOnAny]_vars => Answered'
    <2> SUFFICES ASSUME Answered, [NextOnAny]_vars PROVE Answered'
      OBVIOUS
    <2>1. CASE UNCHANGED vars
      BY <2>1 DEF vars, Answered
    <2>2. CASE AnyCoverage
      <3>1. PICK in : CoverageOf(in) /\ Runs("coverage", in, File!CheckCoverage(in))
        BY <2>2 DEF AnyCoverage
      <3> QED
        BY <3>1 DEF Answered, Runs
    <2>3. CASE AnyPartner
      <3>1. PICK in : PartnerOf(in) /\ Runs("partner", in, File!CheckPartnerPins(in))
        BY <2>3 DEF AnyPartner
      <3> QED
        BY <3>1 DEF Answered, Runs
    <2>4. CASE AnyUpdate
      <3>1. PICK in : UpdateOf(in) /\ Runs("update", in, File!UpdateVersionInFile(in.lines, in.var, 9, Registry))
        BY <2>4 DEF AnyUpdate
      <3> QED
        BY <3>1 DEF Answered, Runs
    <2>5. CASE AnyDeploy
      <3>1. PICK in \in Deployments : Runs("deploy", in, Deploy!Verdict(in))
        BY <2>5 DEF AnyDeploy
      <3> QED
        BY <3>1 DEF Answered, Runs
    <2>6. CASE AnyMolecule
      <3>1. PICK in \in Outcomes : Runs("molecule", in, Molecule!Run(in))
        BY <2>6 DEF AnyMolecule
      <3> QED
        BY <3>1 DEF Answered, Runs
    <2>7. CASE AnyEgress
      <3>1. PICK in : EgressOf(in) /\ Runs("egress", in, Egress!Verdict(in, Builtin))
        BY <2>7 DEF AnyEgress
      <3> QED
        BY <3>1 DEF Answered, Runs
    <2>8. CASE AnyDeny
      <3>1. PICK in : DenyOf(in) /\ Runs("deny", in, Deny!Verdict(in))
        BY <2>8 DEF AnyDeny
      <3> QED
        BY <3>1 DEF Answered, Runs
    <2>9. CASE AnyScrape
      <3>1. PICK in : ScrapeOf(in) /\ Runs("scrape", in, Scrape!Verdict(in))
        BY <2>9 DEF AnyScrape
      <3> QED
        BY <3>1 DEF Answered, Runs
    <2>10. CASE AnyWiring
      <3>1. PICK in : WiringOf(in) /\ Runs("wiring", in, Wiring!Verdict(in))
        BY <2>10 DEF AnyWiring
      <3> QED
        BY <3>1 DEF Answered, Runs
    <2>11. CASE AnyInhibits
      <3>1. PICK in : InhibitOf(in) /\ Runs("inhibits", in, Inhibit!Verdict(in))
        BY <2>11 DEF AnyInhibits
      <3> QED
        BY <3>1 DEF Answered, Runs
    <2>12. CASE AnyAutoscaler
      <3>1. PICK in : GoodDocs(in.docs) /\ Runs("autoscaler", in, Hpa!Verdict(in))
        BY <2>12 DEF AnyAutoscaler
      <3> QED
        BY <3>1 DEF Answered, Runs
    <2>13. CASE AnyHelm
      <3>1. PICK in : (\A rel \in in.releases : GoodRelease(rel)) /\ Runs("helm", in, Helm!Verdict(in))
        BY <2>13 DEF AnyHelm
      <3> QED
        BY <3>1 DEF Answered, Runs
    <2>14. CASE AnyComments
      <3>1. PICK in : CommentsOf(in) /\ Runs("comments", in, Comments!Verdict(in))
        BY <2>14 DEF AnyComments
      <3> QED
        BY <3>1 DEF Answered, Runs
    <2>15. CASE AnyRoles
      <3>1. PICK in : RolesOf(in) /\ Runs("roles", in, Inputs!Verdict(in))
        BY <2>15 DEF AnyRoles
      <3> QED
        BY <3>1 DEF Answered, Runs
    <2>16. CASE AnyReleases
      <3>1. PICK in : GithubOf(in) /\ ReleasesRead(in)
        BY <2>16 DEF AnyReleases
      <3> QED
        BY <3>1 DEF Answered, ReleasesRead, Runs
    <2>17. CASE AnyHub
      <3>1. PICK in : HubOf(in) /\ HubRead(in)
        BY <2>17 DEF AnyHub
      <3> QED
        BY <3>1 DEF Answered, HubRead, Runs
    <2>18. CASE AnyLsio
      <3>1. PICK in : HubOf(in) /\ LsioRead(in)
        BY <2>18 DEF AnyLsio
      <3> QED
        BY <3>1 DEF Answered, LsioRead, Runs
    <2>19. CASE AnyApt
      <3>1. PICK in : AptOf(in) /\ Runs("apt", in, Scheme!FetchAptRepoVersion(in.urls, in.excluded))
        BY <2>19 DEF AnyApt
      <3> QED
        BY <3>1 DEF Answered, Runs
    <2>20. CASE AnyCharts
      <3>1. PICK in : ChartsOf(in) /\ ChartRead(in)
        BY <2>20 DEF AnyCharts
      <3> QED
        BY <3>1 DEF Answered, ChartRead, Runs
    <2>21. CASE AnyCompare
      <3>1. PICK a, b : GoodVersion(a) /\ GoodVersion(b) /\ Runs("compare", <<a, b>>, Scheme!VersionTupleGreater(a, b))
        BY <2>21, Zenon DEF AnyCompare
      <3>2. input'[1] = a /\ input'[2] = b
        BY <3>1 DEF Runs
      <3> QED
        BY <3>1, <3>2 DEF Answered, Runs
    <2> QED
      BY <2>1, <2>2, <2>3, <2>4, <2>5, <2>6, <2>7, <2>8, <2>9, <2>10,
         <2>11, <2>12, <2>13, <2>14, <2>15, <2>16, <2>17, <2>18, <2>19, <2>20, <2>21, Zenon DEF NextOnAny
  <1> QED
    BY <1>1, <1>2, PTL DEF OnAnyInput

LEMMA TrackedPins ==
    ASSUME KeysInUse \subseteq Keys, NEW var \in TrackedVars
    PROVE  var \in Vars /\ Registered(var, Registry)
  <1>1. var \in Vars
    <2>1. {"a_version", "url", "b_version", "chart"} \subseteq Keys \ {File!Blank, File!Comment, File!Helm}
      BY DEF KeysInUse, File!Blank, File!Comment, File!Helm
    <2>2. \E c \in BOOLEAN, k \in {"a_version", "url", "b_version", "chart"} : var = [chart |-> c, key |-> k]
      BY DEF TrackedVars, File!Top, File!Chart
    <2> QED
      BY <2>1, <2>2 DEF Vars
  <1>2. \A s \in Registry : s.files = <<>>
    BY DEF Registry, PlainPin, Service
  <1>3. PlainPin(var) \in Registry /\ PlainPin(var).var = var
    BY DEF Registry, PlainPin, Service
  <1>4. var.chart \/ var.key \in VersionKeys \/ var.key \notin VersionLike
    BY KeysAreRead
  <1> QED
    BY <1>1, <1>2, <1>3, <1>4 DEF Registered

\* What a run takes at its bounds, it takes at any size: each gate's inputs of MCGates are
\* of the shape the repository gives it.
LEMMA BoundedStep ==
    ASSUME KeysInUse \subseteq Keys
    PROVE  Next => NextOnAny
  <1>1. EgressFenceRuns => AnyEgress
    BY BoundedEgress DEF EgressFenceRuns, AnyEgress
  <1>2. DefaultDenyRuns => AnyDeny
    BY BoundedDeny DEF DefaultDenyRuns, AnyDeny
  <1>3. ScrapeNetpolRuns => AnyScrape
    BY BoundedScrape DEF ScrapeNetpolRuns, AnyScrape
  <1>4. ScrapeWiringRuns => AnyWiring
    BY BoundedWiring DEF ScrapeWiringRuns, AnyWiring
  <1>5. AlertInhibitsRuns => AnyInhibits
    BY BoundedInhibits DEF AlertInhibitsRuns, AnyInhibits
  <1>6. AutoscalerGateRuns => AnyAutoscaler
    BY BoundedAutoscaler DEF AutoscalerGateRuns, AnyAutoscaler
  <1>7. HelmValuesRuns => AnyHelm
    BY BoundedHelm DEF HelmValuesRuns, AnyHelm
  <1>8. CoverageRuns => AnyCoverage
    BY BoundedCoverage DEF CoverageRuns, AnyCoverage
  <1>9. PartnerRuns => AnyPartner
    BY BoundedPartner DEF PartnerRuns, AnyPartner
  <1>10. MoleculeRetryRuns => AnyMolecule
    BY BoundedOutcomes DEF MoleculeRetryRuns, AnyMolecule
  <1>11. DeployVerifyRuns => AnyDeploy
    BY Zenon DEF DeployVerifyRuns, AnyDeploy
  <1>12. UpdateRuns => AnyUpdate
    <2> SUFFICES ASSUME UpdateRuns PROVE AnyUpdate
      OBVIOUS
    <2>1. gate = "none"
      BY DEF UpdateRuns
    <2>2. PICK f \in VarsFiles, v \in TrackedVars :
              Runs("update", [lines |-> f, var |-> v], File!UpdateVersionInFile(f, v, 9, Registry))
      BY DEF UpdateRuns
    <2> DEFINE in == [lines |-> f, var |-> v]
    <2>3. in.lines = f /\ in.var = v
      OBVIOUS
    <2>4. UpdateOf(in)
      BY <2>3, BoundedFilesAreFiles, TrackedPins DEF UpdateOf
    <2> HIDE DEF in
    <2>5. Runs("update", in, File!UpdateVersionInFile(in.lines, in.var, 9, Registry))
      BY <2>2, <2>3 DEF in
    <2> QED
      BY <2>1, <2>4, <2>5 DEF AnyUpdate
  <1> QED
    BY <1>1, <1>2, <1>3, <1>4, <1>5, <1>6, <1>7, <1>8, <1>9, <1>10, <1>11, <1>12,
       BoundedCompare, BoundedGithub, BoundedHub, BoundedPackages, BoundedCharts, BoundedComments, BoundedRoles, Zenon
       DEF Next, NextOnAny

\* Spec is OnAnyInput at the runs' bounds (MCGates), so what is proved of any input includes
\* what TLC checks: every bounded input has the shape the repository gives such a file.
THEOREM BoundedIsAny ==
    ASSUME KeysInUse \subseteq Keys
    PROVE  Spec => OnAnyInput
  <1>1. [Next]_vars => [NextOnAny]_vars
    BY BoundedStep
  <1> QED
    BY <1>1, PTL DEF Spec, OnAnyInput

\* A deployment (deploy-verify.sh) to a healthy cluster passes only in full health, or when
\* jq could not name the HelmReleases that are not ready; and however many attempts molecule
\* is allowed (molecule-retry.sh), the exit status is the last one's and those before it
\* failed in their setup.
THEOREM VerdictsAlwaysStand ==
    OnAnyInput => []VerdictsStand
  <1>1. Answered => SteadyStaysHealthy
    BY SteadyIsHeldToFullHealth DEF Answered, SteadyStaysHealthy
  <1>2. Answered => VerdictIsNeverRetried
    BY EarlierAttemptsFailedInSetup DEF Answered, VerdictIsNeverRetried
  <1> QED
    BY <1>1, <1>2, GatesAnswer, PTL DEF VerdictsStand

\* The egress fence (check-netpol-except-parity.py): if the gate passes, then whatever the
\* policies, the width of an address and the lengths of the prefixes, no rule that is not
\* declared unrestricted reaches a whole fence, by blocks that add up or through the
\* excepts, and no IPv4 default route reaches an address of the LAN.
THEOREM LanStaysFenced ==
    OnAnyInput => []TheLanIsFenced
  <1>1. Answered => EgressIsFenced
    <2> SUFFICES ASSUME Answered, gate = "egress", result = 0 PROVE EgressIsFenced
      BY DEF EgressIsFenced
    <2>1. EgressOf(input) /\ Egress!Verdict(input, Builtin) = 0
      BY DEF Answered
    <2> QED
      BY <2>1, GreenIsFenced DEF EgressIsFenced, PoliciesRead
  <1>2. Answered => DefaultRouteKeepsOffTheLan
    <2> SUFFICES ASSUME Answered, gate = "egress", result = 0, input.config.lists = {}
                 PROVE  DefaultRouteKeepsOffTheLan
      BY DEF DefaultRouteKeepsOffTheLan
    <2>1. EgressOf(input) /\ Egress!Verdict(input, Builtin) = 0
      BY DEF Answered
    <2> QED
      BY <2>1, DefaultRouteIsFenced DEF DefaultRouteKeepsOffTheLan, PoliciesRead
  <1> QED
    BY <1>1, <1>2, GatesAnswer, PTL DEF TheLanIsFenced

\* Default deny (check-default-deny-coverage.py): if the gate passes, the pods of every
\* namespace with a workload that is not exempt are isolated, and no policy for all of them
\* lets everyone back in, whether by its selectors or by a whole address family of which the
\* excepts leave an address.
THEOREM NamespacesStayClosed ==
    OnAnyInput => []DeniedByDefault
  <1>1. Answered => DeniedByDefault
    <2> SUFFICES ASSUME Answered, gate = "deny", result = 0 PROVE DeniedByDefault
      BY DEF DeniedByDefault
    <2>1. DenyOf(input) /\ Deny!Verdict(input) = 0
      BY DEF Answered
    <2>2. Deny!WorkloadNamespaces(input.corpus.docs) =
              {Deny!DocNamespace(d.ns) : d \in {x \in input.corpus.docs : x.kind = "Workload"}}
              \cup {IF d.target = "" THEN Deny!DocNamespace(d.ns) ELSE d.target :
                       d \in {x \in input.corpus.docs : x.kind = "HelmRelease"}}
      BY DEF Deny!WorkloadNamespaces
    <2> QED
      BY <2>1, <2>2, GreenIsClosed DEF DeniedByDefault, Denied
  <1> QED
    BY <1>1, GatesAnswer, PTL

\* The inhibit gate (check-alertmanager-behaviour.py): if it passes, then whatever the rules,
\* the matchers and the escalations, declared or shown by the names, some inhibit rule lets
\* every critical alert mute its warning where they name one object, and no alert is muted
\* because it lacks all the labels it is to agree on.
THEOREM AlertsStillArrive ==
    OnAnyInput => []AlertsArrive
  <1>1. Answered => AlertsArrive
    BY AlertsReachSomeone DEF Answered, AlertsArrive
  <1> QED
    BY <1>1, GatesAnswer, PTL

\* The scrape gates (check-scrape-netpol.py, check-scrape-wiring.py): if they pass, then
\* however many monitors, Services, pods and policies there are, in however many namespaces,
\* a namespace that is scraped and closed lets Prometheus in, the port of an endpoint is one
\* a Service and a pod have, and each pod an endpoint leads to is open to Prometheus on the
\* number this pod gives the port.
THEOREM ScrapesAlwaysArrive ==
    OnAnyInput => []ScrapesArrive
  <1>1. Answered => ScrapeIsAdmitted
    <2> SUFFICES ASSUME Answered, gate = "scrape", result = 0 PROVE ScrapeIsAdmitted
      BY DEF ScrapeIsAdmitted
    <2>1. ScrapeOf(input) /\ Scrape!Verdict(input) = 0
      BY DEF Answered
    <2> QED
      BY <2>1, ScrapesAreAdmitted DEF ScrapeIsAdmitted
  <1>2. Answered => EndpointsResolve
    <2> SUFFICES ASSUME Answered, gate = "scrape", result = 0 PROVE EndpointsResolve
      BY DEF EndpointsResolve
    <2>1. Scrape!Verdict(input) = 0
      BY DEF Answered
    <2> QED
      BY <2>1, ServicesHavePorts DEF EndpointsResolve
  <1>3. Answered => ScrapedPodsAreReached
    <2> SUFFICES ASSUME Answered, gate = "wiring", result = 0 PROVE ScrapedPodsAreReached
      BY DEF ScrapedPodsAreReached
    <2>1. WiringOf(input) /\ Wiring!Verdict(input) = 0
      BY DEF Answered
    <2> QED
      BY <2>1, PodsAreReached DEF ScrapedPodsAreReached
  <1>4. Answered => EndpointsHaveTargets
    <2> SUFFICES ASSUME Answered, gate = "wiring", result = 0, ~input.corpus PROVE EndpointsHaveTargets
      BY DEF EndpointsHaveTargets
    <2>1. WiringOf(input) /\ Wiring!Verdict(input) = 0
      BY DEF Answered
    <2> QED
      BY <2>1, EndpointIsServed, MeantIsMonitored DEF EndpointsHaveTargets
  <1> QED
    BY <1>1, <1>2, <1>3, <1>4, GatesAnswer, PTL DEF ScrapesArrive

\* No manifest or alerting gate passes over a part of its input it could not read, or over
\* one without what it cannot do without; and where the wiring gate passes without a monitor,
\* or the autoscaler gate, with the flags that require them, without a limit or a target to
\* judge by, no policy, cap or autoscaler asked for one.  Whatever the input.
THEOREM GreenIsAlwaysGrounded ==
    OnAnyInput => []GreenIsGrounded
  <1>1. Answered => PartsAreRead
    <2> SUFFICES ASSUME Answered, result = 0 PROVE PartsAreRead
      BY DEF PartsAreRead
    <2>1. CASE gate = "egress"
      <3>1. Egress!Verdict(input, Builtin) = 0
        BY <2>1 DEF Answered
      <3>2. StreamsAreRead
        BY <3>1, EgressReads, Zenon DEF StreamsAreRead
      <3> QED
        BY <2>1, <3>2 DEF PartsAreRead
    <2>2. CASE gate = "deny"
      <3>1. Deny!Verdict(input) = 0
        BY <2>2 DEF Answered
      <3> QED
        BY <2>2, <3>1, DenyReads DEF PartsAreRead
    <2>3. CASE gate = "scrape"
      <3>1. Scrape!Verdict(input) = 0
        BY <2>3 DEF Answered
      <3> QED
        BY <2>3, <3>1, ScrapeReads DEF PartsAreRead
    <2>4. CASE gate = "wiring"
      <3>1. Wiring!Verdict(input) = 0
        BY <2>4 DEF Answered
      <3> QED
        BY <2>4, <3>1, WiringReads DEF PartsAreRead
    <2>5. CASE gate = "autoscaler"
      <3>1. Hpa!Verdict(input) = 0
        BY <2>5 DEF Answered
      <3> QED
        BY <2>5, <3>1, AutoscalerReads DEF PartsAreRead
    <2>6. CASE gate = "helm"
      <3>1. Helm!Verdict(input) = 0
        BY <2>6 DEF Answered
      <3> QED
        BY <2>6, <3>1, HelmReads DEF PartsAreRead
    <2>7. CASE gate = "inhibits"
      <3>1. Inhibit!Verdict(input) = 0
        BY <2>7 DEF Answered
      <3> QED
        BY <2>7, <3>1, InhibitReads DEF PartsAreRead
    <2> QED
      BY <2>1, <2>2, <2>3, <2>4, <2>5, <2>6, <2>7 DEF PartsAreRead
  <1>2. ASSUME Answered, gate = "wiring", result = 0,
               NEW p \in Docs({"NetworkPolicy"}), NEW r \in p.rules, ScraperNs \in r.peers
        PROVE  \E m \in Docs(Wiring!MonitorKinds) : input.corpus \/ HomeOf(p) \in Reached(m)
    <2>1. Wiring!Verdict(input) = 0
      BY <1>2 DEF Answered
    <2>2. CASE input.corpus
      BY <1>2, <2>1, <2>2, MeantIsMonitored
    <2>3. CASE ~input.corpus
      BY <1>2, <2>1, <2>3, MeantIsReached
    <2> QED
      BY <2>2, <2>3
  <1>3. ASSUME Answered, gate = "autoscaler", result = 0
        PROVE  GoodDocs(input.docs) /\ ~Hpa!Failed(input)
    <2>1. GoodDocs(input.docs) /\ Hpa!Verdict(input) = 0
      BY <1>3 DEF Answered
    <2> QED
      BY <2>1, AutoscalerReads
  <1>4. ASSUME Answered, gate = "autoscaler", result = 0, input.requireChartNative, ~input.allowUnjudged,
               NEW v \in Scanned("VPA"), NEW i \in DOMAIN v.policies, Hpa!Readable(v.policies[i].cap),
               ~(\E e \in input.policy.cap : e.key = v.key)
        PROVE  Bounded(v.target)
    <2>1. ~Hpa!CapUnjudged(input.docs, Hpa!Keys(input.policy.cap), input.policy.declared)
      BY <1>3, <1>4 DEF Hpa!Failed
    <2>2. v \in Hpa!Vpas(input.docs) /\ v.key \notin Hpa!Keys(input.policy.cap) /\ Hpa!Named(v.target)
      BY <1>3, <1>4 DEF Scanned, Hpa!Vpas, Hpa!Kind, Hpa!Keys, GoodDocs, GoodVpa
    <2>3. v.policies[i] \in Hpa!Range(v.policies)
      BY DEF Hpa!Range
    <2>4. Hpa!MemoryLimits(input.docs, v.target, input.policy.declared) # {}
      BY <1>4, <2>1, <2>2, <2>3 DEF Hpa!CapUnjudged
    <2> QED
      BY <2>4 DEF Hpa!MemoryLimits, Hpa!WorkloadAt, Hpa!Workloads, Hpa!Kind, Bounded, ContainersOf, Scanned
  <1>5. ASSUME Answered, gate = "autoscaler", result = 0, input.requireTargets,
               NEW d \in Scanned("HPA") \cup Scanned("VPA"), d.target[2] # "Other"
        PROVE  \/ \E w \in Scanned("Workload") : w.key = d.target
               \/ d.target \in input.policy.chartNative
               \/ \E x \in input.policy.declared : x.target = d.target
    <2>1. ~Hpa!DanglingTargetViolation(input.docs, input.policy.chartNative \cup {x.target : x \in input.policy.declared})
      BY <1>3, <1>5 DEF Hpa!Failed
    <2>2. d \in Hpa!Hpas(input.docs) \cup Hpa!Vpas(input.docs)
      BY <1>3, <1>5 DEF Scanned, Hpa!Hpas, Hpa!Vpas, Hpa!Kind, GoodDocs, GoodScaler, GoodVpa
    <2> QED
      BY <1>5, <2>1, <2>2 DEF Hpa!DanglingTargetViolation, Hpa!WorkloadAt, Hpa!Workloads, Hpa!Kind, Scanned
  <1>6. Answered => MeantIsJudged
    BY <1>2, <1>4, <1>5 DEF MeantIsJudged
  <1> QED
    BY <1>1, <1>6, GatesAnswer, PTL DEF GreenIsGrounded

\* check-hpa-vpa-invariant.py and validate-helm-values.py on documents of any number: if
\* they pass, no HPA and VPA pull at one resource, every cap that is not excused binds, a
\* container keeps headroom, the last pod can be evicted, and the same holds of what Flux
\* would install.
THEOREM AutoscalersAlwaysAgree ==
    OnAnyInput => []AutoscalersAgree
  <1>1. ASSUME Answered, gate = "autoscaler", result = 0
        PROVE  GoodDocs(input.docs) /\ ~Hpa!Clash(input.docs) /\ ~Hpa!PdbFloorViolation(input.docs)
               /\ (input.requireChartNative =>
                      /\ ~Hpa!CapViolation(input.docs, Hpa!Keys(input.policy.cap), input.policy.declared)
                      /\ ~Hpa!MemoryRatioViolation(input.docs, Hpa!Keys(input.policy.memoryRatio)))
    <2>1. GoodDocs(input.docs) /\ Hpa!Verdict(input) = 0
      BY <1>1 DEF Answered
    <2>2. ~Hpa!Failed(input)
      BY <2>1, AutoscalerReads
    <2> QED
      BY <2>1, <2>2 DEF Hpa!Failed
  <1>2. \A target : \A c \in ContainersOf(target) :
            \E w \in input.docs : w.kind = "Workload" /\ w.key = target /\ c \in w.containers
    BY DEF ContainersOf, Scanned
  <1>3. Answered => NoTugOfWar
    <2> SUFFICES ASSUME Answered, gate = "autoscaler", result = 0,
                        NEW h \in Scanned("HPA"), NEW v \in Scanned("VPA"), h.target = v.target,
                        NEW c \in ContainersOf(v.target), NEW r \in Scales(h)
                 PROVE  ~Moves(v, c, r)
      BY DEF NoTugOfWar
    <2>1. h \in input.docs /\ h.kind = "HPA" /\ v \in input.docs /\ v.kind = "VPA"
      BY DEF Scanned
    <2> QED
      BY <1>1, <2>1, NoResourceHasTwoDrivers
  <1>4. Answered => CapsBind
    <2> SUFFICES ASSUME Answered, gate = "autoscaler", result = 0, input.requireChartNative,
                        NEW v \in Scanned("VPA"), ~(\E e \in input.policy.cap : e.key = v.key),
                        NEW c \in ContainersOf(v.target)
                 PROVE  CapBinds(v, c)
      BY DEF CapsBind
    <2>1. v \in input.docs /\ v.kind = "VPA"
      BY DEF Scanned
    <2>2. PICK w \in input.docs : w.kind = "Workload" /\ w.key = v.target /\ c \in w.containers
      BY <1>2
    <2>3. GoodVpa(v) /\ GoodContainer(c)
      BY <1>1, <2>1, <2>2 DEF GoodDocs
    <2>4. v.key \notin Hpa!Keys(input.policy.cap)
      BY DEF Hpa!Keys
    <2> QED
      BY <1>1, <2>1, <2>2, <2>3, <2>4, CapIsBelowTheLimit
  <1>5. Answered => HeadroomRemains
    <2> SUFFICES ASSUME Answered, gate = "autoscaler", result = 0, input.requireChartNative,
                        NEW v \in Scanned("VPA"), ~(\E e \in input.policy.memoryRatio : e.key = v.target),
                        NEW c \in ContainersOf(v.target), MovesLimit(v, c),
                        Hpa!Readable(c.limits.memory), Hpa!Readable(c.requests.memory)
                 PROVE  Hpa!Quantity(c.requests.memory) # Hpa!Quantity(c.limits.memory)
      BY DEF HeadroomRemains
    <2>1. v \in input.docs /\ v.kind = "VPA"
      BY DEF Scanned
    <2>2. PICK w \in input.docs : w.kind = "Workload" /\ w.key = v.target /\ c \in w.containers
      BY <1>2
    <2>3. v.target \notin Hpa!Keys(input.policy.memoryRatio)
      BY DEF Hpa!Keys
    <2> QED
      BY <1>1, <2>1, <2>2, <2>3, RequestStaysOffTheLimit
  <1>6. Answered => NodesDrain
    <2> SUFFICES ASSUME Answered, gate = "autoscaler", result = 0,
                        NEW h \in Scanned("HPA"), NEW b \in Scanned("PDB"), h.floor < 2,
                        NEW w \in Scanned("Workload"), w.key = h.target, Guards(b, w)
                 PROVE  LET Up(a) == IF a.type = "int" THEN a.n ELSE (h.floor * a.n + 99) \div 100
                        IN  /\ b.minAvailable.type # "absent" => Up(b.minAvailable) < h.floor
                            /\ b.maxUnavailable.type # "absent" => Up(b.maxUnavailable) > 0
      BY DEF NodesDrain
    <2>1. /\ h \in input.docs /\ h.kind = "HPA" /\ b \in input.docs /\ b.kind = "PDB"
          /\ w \in input.docs /\ w.kind = "Workload"
      BY DEF Scanned
    <2> QED
      BY <1>1, <2>1, LastPodMayGo
  <1>7. Answered => InstalledCapsBind
    <2> SUFFICES ASSUME Answered, gate = "helm", result = 0 PROVE InstalledCapsBind
      BY DEF InstalledCapsBind
    <2>1. (\A rel \in input.releases : GoodRelease(rel)) /\ Helm!Verdict(input) = 0
      BY DEF Answered
    <2>2. \A rel \in input.releases : Helm!ReleaseIsValid(rel, input)
      BY <2>1, HelmReads
    <2> QED
      BY <2>1, <2>2, ReleaseObeysPolicies DEF InstalledCapsBind
  <1> QED
    BY <1>3, <1>4, <1>5, <1>6, <1>7, GatesAnswer, PTL DEF AutoscalersAgree

\* check-versions.py on vars files of any length: a write moves the one pin it is for and
\* the checker then reads it back, a green coverage check has overlooked no pin and no two
\* copies that differ, and a green partner check has let no coupled value stay behind.
THEOREM PinsAreAlwaysWatched ==
    OnAnyInput => []PinsAreWatched
  <1>1. Answered => UpdateMovesOnePin
    <2> SUFFICES ASSUME Answered, gate = "update" PROVE UpdateMovesOnePin
      BY DEF UpdateMovesOnePin
    <2>1. VarsFile(input.lines) /\ input.var \in Vars /\ Registered(input.var, Registry)
      BY DEF Answered, UpdateOf
    <2>2. result = File!UpdateVersionInFile(input.lines, input.var, 9, Registry)
      BY DEF Answered
    <2> DEFINE lines == input.lines
               var == input.var
               res == File!UpdateVersionInFile(lines, var, 9, Registry)
    <2>3. IF \E i \in KeyLines(lines) : PathAt(lines, i) = PathOf(var) /\ ~lines[i].spaced
          THEN /\ Yaml(res) = [Yaml(lines) EXCEPT ![PathOf(var)] = 9]
               /\ File!ReadCurrentVersions(res, Registry)[var] = 9
          ELSE res = lines
      BY <2>1, WriteMovesOnePin
    <2> QED
      BY <2>2, <2>3 DEF UpdateMovesOnePin
  <1>2. Answered => NoPinIsOverlooked
    <2> SUFFICES ASSUME Answered, gate = "coverage", result = 0 PROVE NoPinIsOverlooked
      BY DEF NoPinIsOverlooked
    <2>1. /\ VarsFile(input.lines) /\ \A s \in input.registry : s.files \in Seq(FileTag)
          /\ File!CheckCoverage(input) = 0
      BY DEF Answered, CoverageOf
    <2> QED
      BY <2>1, KeysAreRead, CoverageOverlooksNothing DEF NoPinIsOverlooked
  <1>3. Answered => TopLevelPartnersFollow
    BY PartnersFollow DEF Answered, TopLevelPartnersFollow
  <1> QED
    BY <1>1, <1>2, <1>3, GatesAnswer, PTL DEF PinsAreWatched

\* check-comment-length.py and check-role-inputs.py on files of any length and roles of any
\* number: if they pass, no run of comment lines, no delimited comment, no docstring and no
\* comment of a fenced snippet is over its limit, and each assertion that a role is sure to
\* reach finds its variables assigned or with a default that renders to something.
THEOREM FilesStayInOrder ==
    OnAnyInput => []FilesAreInOrder
  <1>1. Answered => CommentsAreShort
    <2> SUFFICES ASSUME Answered, gate = "comments", result = 0 PROVE CommentsAreShort
      BY DEF CommentsAreShort
    <2>1. CommentsOf(input) /\ Comments!Verdict(input) = 0
      BY DEF Answered
    <2> QED
      BY <2>1, CommentsStayShort
  <1>2. Answered => SnippetsAreShort
    <2> SUFFICES ASSUME Answered, gate = "comments", result = 0, input.fenced PROVE SnippetsAreShort
      BY DEF SnippetsAreShort
    <2>1. CommentsOf(input) /\ Comments!Verdict(input) = 0
      BY DEF Answered
    <2> QED
      BY <2>1, SnippetsStayShort
  <1>3. Answered => RoleAssertsHold
    <2> SUFFICES ASSUME Answered, gate = "roles", result = 0, "required-inputs" \notin input.skip
                 PROVE  RoleAssertsHold
      BY DEF RoleAssertsHold
    <2>1. RolesOf(input) /\ Inputs!Verdict(input) = 0
      BY DEF Answered
    <2> QED
      BY <2>1, RolesFindTheirInputs
  <1> QED
    BY <1>1, <1>2, <1>3, GatesAnswer, PTL DEF FilesAreInOrder

\* check-versions.py on lists and indexes of any length: one version counts as newer than
\* another exactly in the order in which a word comes before the end and the end before a
\* number; what is taken from pages of releases, whatever their size, is the newest that
\* matches; a window of tags yields none below the pin or of another major; an apt package
\* is the newest by Debian's order; and a chart's version is the newest of that chart's own.
THEOREM LatestStaysLatest ==
    OnAnyInput => []LatestIsLatest
  <1>1. Answered => ReleaseOrder
    <2> SUFFICES ASSUME Answered, gate = "compare" PROVE result = Older(input[2], input[1])
      BY DEF ReleaseOrder
    <2>1. /\ GoodVersion(input[1]) /\ GoodVersion(input[2])
          /\ result = Scheme!VersionTupleGreater(input[1], input[2])
      BY DEF Answered
    <2>2. /\ result <=> Before(KeysOf(input[2]), KeysOf(input[1]), LessThan)
          /\ Older(input[2], input[1]) <=> Before(KeysOf(input[2]), KeysOf(input[1]), LessThan)
      BY <2>1, GreaterIsBefore, OlderIsBefore, Zenon
    <2>3. result \in BOOLEAN /\ Older(input[2], input[1]) \in BOOLEAN
      BY <2>1, ComparesToTruth
    <2> QED
      BY <2>2, <2>3
  <1>2. Answered => PageSizeDoesNotMatter
    BY NewestRelease DEF Answered, PageSizeDoesNotMatter
  <1>3. Answered => NoAnswerBelowThePin
    <2> SUFFICES ASSUME Answered, gate \in {"hub", "lsio"}, result # Scheme!Failed PROVE NoAnswerBelowThePin
      BY DEF NoAnswerBelowThePin
    <2>1. CASE gate = "hub"
      <3>1. HubOf(input) /\ result = Scheme!FetchDockerhubVersion(input.svc, input.tags, input.pin)
        BY <2>1 DEF Answered
      <3> QED
        BY <2>1, <3>1, NotBelowThePin DEF HubOf, NoAnswerBelowThePin
    <2>2. CASE gate = "lsio"
      <3> DEFINE svc == [window |-> input.svc.window, prefixes |-> input.svc.prefixes, pinMajor |-> FALSE]
      <3>1. HubOf(input) /\ result = Scheme!FetchDockerhubVersion(svc, input.tags, input.pin)
        BY <2>2 DEF Answered, Scheme!FetchLsioVersion
      <3>2. svc.window = input.svc.window
        OBVIOUS
      <3> HIDE DEF svc
      <3> QED
        BY <2>2, <3>1, <3>2, NotBelowThePin DEF HubOf, NoAnswerBelowThePin
    <2> QED
      BY <2>1, <2>2
  <1>4. Answered => AptIsNewest
    BY NewestPackage DEF Answered, AptIsNewest
  <1>5. Answered => ChartVersionIsItsOwn
    BY NewestOfChart DEF Answered, ChartVersionIsItsOwn
  <1> QED
    BY <1>1, <1>2, <1>3, <1>4, <1>5, GatesAnswer, PTL DEF LatestIsLatest
=============================================================================
