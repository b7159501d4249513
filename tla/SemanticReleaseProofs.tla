------------------------ MODULE SemanticReleaseProofs ------------------------
(***************************************************************************)
(* Proof that versions follow the history, for any number of release jobs  *)
(* that overlap in any way, and that notes tile it and nothing releasable  *)
(* stays unpublished while the jobs run in order.                          *)
(***************************************************************************)
EXTENDS SemanticRelease, SequenceTheorems, TLAPS

\* A version bumped, and the order of versions with equality.
Up(v, level) == Bump(v, AppliedLevel(level, v))
AtMost(v, w) == v = w \/ Less(v, w)

-----------------------------------------------------------------------------
(* The order of versions, and what a bump does to it. *)

\* Versions are totally ordered.
LEMMA LessOrder ==
    ASSUME NEW u \in Versions, NEW v \in Versions, NEW w \in Versions
    PROVE  /\ ~Less(v, v)
           /\ Less(u, v) /\ Less(v, w) => Less(u, w)
           /\ Less(v, w) => ~Less(w, v)
           /\ v = w \/ Less(v, w) \/ Less(w, v)
BY DEF Versions, Less

\* A bump is a version above the one bumped.
LEMMA UpAbove ==
    ASSUME NEW v \in Versions, NEW l \in 1..3
    PROVE  Up(v, l) \in Versions /\ Less(v, Up(v, l))
BY DEF Versions, Less, Up, Bump, AppliedLevel, Major, Minor

\* A bump that goes further than another absorbs it: it leads to the same
\* version from before the other and from after.
LEMMA UpAbsorbs ==
    ASSUME NEW v \in Versions, NEW l \in 1..3, NEW m \in 1..3, l < m,
           Up(v, l) # Up(v, m)
    PROVE  Up(Up(v, l), m) = Up(v, m)
BY DEF Versions, Up, Bump, AppliedLevel, Major, Minor

-----------------------------------------------------------------------------
(* The level of a range of commits, in a history h. *)

RangeOf(h, a, b) == {c \in 1..Len(h) : a < c /\ c <= b}
\* The highest level of a range.
IsLevel(l, h, a, b) ==
    /\ l = 0 \/ \E c \in RangeOf(h, a, b) : h[c] = l
    /\ \A c \in RangeOf(h, a, b) : h[c] <= l
LevelIn(h, S) ==
    CHOOSE l \in Levels : /\ l = 0 \/ \E c \in S : h[c] = l
                          /\ \A c \in S : h[c] <= l
LevelOf(h, a, b) == LevelIn(h, RangeOf(h, a, b))

\* The code's bump level of a log range.
LEMMA LevelIsBumpLevel == \A a, b : BumpLevel(LogRange(a, b)) = LevelOf(history, a, b)
<1>1. \A S : BumpLevel(S) = LevelIn(history, S)
  BY DEF BumpLevel, LevelIn
<1>2. \A a, b : LogRange(a, b) = RangeOf(history, a, b)
  BY DEF LogRange, Commits, RangeOf
<1> QED
  BY <1>1, <1>2 DEF LevelOf

\* It is the highest level there is.
LEMMA LevelHighest ==
    ASSUME NEW h \in Seq(Levels), NEW a \in Nat, NEW b \in Nat
    PROVE  /\ LevelOf(h, a, b) \in Levels
           /\ IsLevel(LevelOf(h, a, b), h, a, b)
           /\ \A l \in Levels : IsLevel(l, h, a, b) => l = LevelOf(h, a, b)
<1> DEFINE S == RangeOf(h, a, b)
<1>1. \A c \in S : h[c] \in Levels
  BY DEF RangeOf
<1> HIDE DEF S
<1>2. \E l \in Levels : /\ l = 0 \/ \E c \in S : h[c] = l
                        /\ \A c \in S : h[c] <= l
  <2>1. CASE \E c \in S : h[c] = 3
    BY <1>1, <2>1 DEF Levels
  <2>2. CASE (\A c \in S : h[c] # 3) /\ \E c \in S : h[c] = 2
    <3>1. \A c \in S : h[c] <= 2
      BY <1>1, <2>2 DEF Levels
    <3> QED
      BY <3>1, <2>2 DEF Levels
  <2>3. CASE (\A c \in S : h[c] # 3 /\ h[c] # 2) /\ \E c \in S : h[c] = 1
    <3>1. \A c \in S : h[c] <= 1
      BY <1>1, <2>3 DEF Levels
    <3> QED
      BY <3>1, <2>3 DEF Levels
  <2>4. CASE \A c \in S : h[c] # 3 /\ h[c] # 2 /\ h[c] # 1
    <3>1. \A c \in S : h[c] <= 0
      BY <1>1, <2>4 DEF Levels
    <3> QED
      BY <3>1 DEF Levels
  <2> QED
    BY <2>1, <2>2, <2>3, <2>4
<1>3. \E l \in Levels : IsLevel(l, h, a, b)
  BY <1>2 DEF IsLevel, S
<1>4. LevelOf(h, a, b) \in Levels /\ IsLevel(LevelOf(h, a, b), h, a, b)
  BY <1>3 DEF LevelOf, LevelIn, IsLevel
<1>5. ASSUME NEW l \in Levels, NEW m \in Levels,
             IsLevel(l, h, a, b), IsLevel(m, h, a, b), l < m
      PROVE  FALSE
  <2>1. PICK c \in RangeOf(h, a, b) : h[c] = m
    BY <1>5 DEF IsLevel, Levels
  <2>2. h[c] <= l
    BY <1>5 DEF IsLevel
  <2> QED
    BY <2>1, <2>2, <1>5 DEF Levels
<1> QED
  BY <1>4, <1>5 DEF Levels

\* The level of two ranges together is the higher of theirs.
LEMMA LevelJoin ==
    ASSUME NEW h \in Seq(Levels), NEW a \in Nat, NEW b \in Nat, NEW c \in Nat,
           a <= b, b <= c
    PROVE  LevelOf(h, a, c) =
               IF LevelOf(h, a, b) < LevelOf(h, b, c) THEN LevelOf(h, b, c) ELSE LevelOf(h, a, b)
<1> DEFINE l == LevelOf(h, a, b)
           m == LevelOf(h, b, c)
           n == IF l < m THEN m ELSE l
<1>1. l \in Levels /\ m \in Levels /\ IsLevel(l, h, a, b) /\ IsLevel(m, h, b, c)
  BY LevelHighest
<1>2. RangeOf(h, a, c) = RangeOf(h, a, b) \cup RangeOf(h, b, c)
  BY DEF RangeOf
<1>3. \A k \in RangeOf(h, a, c) : h[k] \in Levels
  BY DEF RangeOf
<1> HIDE DEF l, m
<1>4. n \in Levels /\ IsLevel(n, h, a, c)
  BY <1>1, <1>2, <1>3 DEF IsLevel, Levels
<1> QED
  BY <1>4, LevelHighest DEF l, m

\* A merge does not change the level of what was there.
LEMMA LevelOfPast ==
    ASSUME NEW h \in Seq(Levels), NEW l \in Levels,
           NEW a \in Nat, NEW b \in Nat, b <= Len(h)
    PROVE  LevelOf(Append(h, l), a, b) = LevelOf(h, a, b)
<1>1. Append(h, l) \in Seq(Levels) /\ Len(Append(h, l)) = Len(h) + 1
  OBVIOUS
<1>2. RangeOf(Append(h, l), a, b) = RangeOf(h, a, b)
  BY <1>1 DEF RangeOf
<1>3. \A c \in RangeOf(h, a, b) : Append(h, l)[c] = h[c]
  BY DEF RangeOf
<1>4. IsLevel(LevelOf(h, a, b), Append(h, l), a, b)
  <2>1. LevelOf(h, a, b) \in Levels /\ IsLevel(LevelOf(h, a, b), h, a, b)
    BY LevelHighest
  <2> QED
    BY <1>2, <1>3, <2>1 DEF IsLevel
<1>5. LevelOf(h, a, b) \in Levels
  BY LevelHighest
<1> QED
  BY <1>1, <1>4, <1>5, LevelHighest

\* A range that calls for a release is not empty.
LEMMA LevelOfNothing ==
    ASSUME NEW h \in Seq(Levels), NEW a \in Nat, NEW b \in Nat, LevelOf(h, a, b) # 0
    PROVE  a < b /\ LevelOf(h, a, b) \in 1..3
<1>1. LevelOf(h, a, b) \in Levels /\ IsLevel(LevelOf(h, a, b), h, a, b)
  BY LevelHighest
<1> QED
  BY <1>1 DEF IsLevel, RangeOf, Levels

\* Two versions made of the same one by the commits up to c and up to b, c <= b,
\* are the same, or the second is made of the first by those between.
LEMMA Between ==
    ASSUME NEW h \in Seq(Levels), NEW a \in Nat, NEW c \in Nat, NEW b \in Nat,
           a <= c, c <= b, NEW p \in Versions,
           LevelOf(h, a, c) \in 1..3, LevelOf(h, a, b) \in 1..3,
           Up(p, LevelOf(h, a, c)) # Up(p, LevelOf(h, a, b))
    PROVE  /\ LevelOf(h, a, c) < LevelOf(h, c, b)
           /\ LevelOf(h, c, b) \in 1..3
           /\ Up(p, LevelOf(h, a, b)) = Up(Up(p, LevelOf(h, a, c)), LevelOf(h, c, b))
<1> DEFINE l == LevelOf(h, a, c)
           m == LevelOf(h, c, b)
           n == LevelOf(h, a, b)
<1>1. m \in Levels
  BY LevelHighest
<1>2. n = IF l < m THEN m ELSE l
  BY LevelJoin
<1>3. l \in 1..3 /\ n \in 1..3 /\ Up(p, l) # Up(p, n)
  OBVIOUS
<1> HIDE DEF l, m, n
<1>4. l < m /\ n = m
  BY <1>1, <1>2, <1>3 DEF Levels
<1>5. Up(Up(p, l), m) = Up(p, m)
  BY <1>3, <1>4, UpAbsorbs
<1> QED
  BY <1>3, <1>4, <1>5 DEF l, m, n

-----------------------------------------------------------------------------
(* The inductive invariant. *)

TypeInv ==
    /\ history \in Seq(Levels)
    /\ Tags \subseteq Versions /\ tagged \in [Tags -> Commits]
    /\ job \in [Jobs -> [pc : {"idle", "probe", "backfill", "create"},
                         head : 0..Len(history), tags : SUBSET Tags]]

\* The newest tag up to a commit, and the oldest after it.
Top(p, c) ==
    tagged[p] <= c /\ \A u \in Tags : tagged[u] <= c => tagged[u] <= tagged[p]
Bottom(q, c) ==
    c < tagged[q] /\ \A u \in Tags : c < tagged[u] => tagged[q] <= tagged[u]

\* There is one wherever there is any.
Neighbours ==
    \A c \in Nat :
        /\ (\E u \in Tags : tagged[u] <= c) => \E p \in Tags : Top(p, c)
        /\ (\E u \in Tags : c < tagged[u]) => \E q \in Tags : Bottom(q, c)

\* The first version is tagged before any other.
First == Tags # {} => InitialVersion \in Tags

\* w is the version that the commits between v's and its own make of v.
Follows(v, a, w, b) ==
    LevelOf(history, a, b) \in 1..3 /\ w = Up(v, LevelOf(history, a, b))

\* Each tag follows the one before it.
Exact ==
    \A v, w \in Tags :
        Bottom(w, tagged[v]) => Follows(v, tagged[v], w, tagged[w])

\* A version a job may still cut fits in where its commit is, however long ago
\* the job read its tags.
Pending(j) ==
    Releasable(j) /\ NewTag(j) \notin Tags =>
        IF Tags = {} THEN NewTag(j) = InitialVersion
        ELSE \E p \in Tags : /\ Top(p, job[j].head)
                             /\ Follows(p, tagged[p], NewTag(j), job[j].head)

\* What a job that runs has read and decided.
JobInv(j) ==
    /\ job[j].tags # {} => Latest(job[j].tags) \in job[j].tags
    /\ job[j].pc = "create" => Releasable(j)
    /\ job[j].pc = "backfill" => job[j].tags # {}
    /\ Pending(j)

\* The inductive invariant.
Inv ==
    /\ TypeInv
    /\ Neighbours /\ First /\ VersionsFollowHistory /\ Exact
    /\ \A j \in Jobs : Running(j) => JobInv(j)

-----------------------------------------------------------------------------
(* What a step may do to the tags: nothing, or add one a job had pending. *)

\* What a job decides depends on what it read only.
LEMMA DecisionStays ==
    ASSUME TypeInv, NEW j \in Jobs,
           job[j].tags # {} => Latest(job[j].tags) \in job[j].tags,
           job'[j].tags = job[j].tags, job'[j].head = job[j].head,
           \A v \in Tags : tagged'[v] = tagged[v],
           history' = history \/ \E l \in Levels : history' = Append(history, l)
    PROVE  NewTag(j)' = NewTag(j) /\ Releasable(j)' = Releasable(j)
<1> DEFINE a == Since(job[j].tags)
           b == job[j].head
<1>1. a \in Nat /\ Since(job[j].tags)' = a
  BY DEF TypeInv, Since, Commits
<1>2. b \in 0..Len(history)
  BY DEF TypeInv
<1>3. BumpLevel(NewCommits(j)) = LevelOf(history, a, b)
  BY LevelIsBumpLevel DEF NewCommits
<1>4. BumpLevel(NewCommits(j))' = LevelOf(history', a, b)
  <2>1. NewCommits(j)' = RangeOf(history', a, b)
    BY <1>1 DEF NewCommits, LogRange, Commits, RangeOf
  <2>2. BumpLevel(NewCommits(j))' = LevelIn(history', NewCommits(j)')
    BY DEF BumpLevel, LevelIn
  <2> QED
    BY <2>1, <2>2 DEF LevelOf
<1>5. LevelOf(history', a, b) = LevelOf(history, a, b)
  <2>1. history \in Seq(Levels) /\ b \in Nat /\ b <= Len(history)
    BY <1>2 DEF TypeInv
  <2>2. CASE \E l \in Levels : history' = Append(history, l)
    BY <1>1, <2>1, <2>2, LevelOfPast
  <2> QED
    BY <2>2
<1>6. BumpLevel(NewCommits(j))' = BumpLevel(NewCommits(j))
  BY <1>3, <1>4, <1>5
<1> QED
  BY <1>6 DEF NewTag, Releasable, NextVersion

\* Then so does where it fits in, as long as no tag comes.
LEMMA PendingStays ==
    ASSUME Inv, NEW j \in Jobs, Running(j),
           job'[j].tags = job[j].tags, job'[j].head = job[j].head,
           tagged' = tagged,
           history' = history \/ \E l \in Levels : history' = Append(history, l)
    PROVE  Pending(j)'
<1>1. NewTag(j)' = NewTag(j) /\ Releasable(j)' = Releasable(j)
  BY DecisionStays DEF Inv, JobInv, TypeInv
<1>2. SUFFICES ASSUME Releasable(j), NewTag(j) \notin Tags, Tags # {}
               PROVE  \E p \in Tags : /\ Top(p, job[j].head)'
                                      /\ Follows(p, tagged[p], NewTag(j), job[j].head)'
  BY <1>1 DEF Pending, Inv, JobInv, Tags
<1>3. PICK p \in Tags : /\ Top(p, job[j].head)
                        /\ Follows(p, tagged[p], NewTag(j), job[j].head)
  BY <1>2 DEF Inv, JobInv, Pending
<1>4. Top(p, job[j].head)'
  BY <1>3 DEF Top, Tags
<1>5. LevelOf(history', tagged[p], job[j].head) = LevelOf(history, tagged[p], job[j].head)
  <2>1. tagged[p] \in Nat
    BY <1>3 DEF Inv, TypeInv, Commits
  <2>2. job[j].head \in Nat /\ job[j].head <= Len(history)
    BY DEF Inv, TypeInv
  <2>3. CASE \E l \in Levels : history' = Append(history, l)
    BY <2>1, <2>2, <2>3, LevelOfPast DEF Inv, TypeInv
  <2> QED
    BY <2>3
<1>6. Follows(p, tagged[p], NewTag(j), job[j].head)'
  BY <1>1, <1>3, <1>5 DEF Follows
<1> QED
  BY <1>4, <1>6

-----------------------------------------------------------------------------
(* The step that cuts a tag. *)

\* Between which tags the new one comes.
LEMMA TagBetween ==
    ASSUME Inv, NEW j \in Jobs, Running(j), Releasable(j), NewTag(j) \notin Tags,
           Tags # {}
    PROVE  \E p \in Tags :
        /\ Top(p, job[j].head) /\ tagged[p] < job[j].head
        /\ Follows(p, tagged[p], NewTag(j), job[j].head)
        /\ \A q \in Tags : Bottom(q, job[j].head) =>
              /\ Follows(NewTag(j), job[j].head, q, tagged[q])
              /\ LevelOf(history, tagged[p], job[j].head) < LevelOf(history, job[j].head, tagged[q])
<1> DEFINE c == job[j].head
           x == NewTag(j)
<1>1. PICK p \in Tags : Top(p, c) /\ Follows(p, tagged[p], x, c)
  BY DEF Inv, JobInv, Pending
<1>2. p \in Versions /\ tagged[p] \in Nat /\ c \in Nat /\ history \in Seq(Levels)
  BY DEF Inv, TypeInv, Commits
<1>3. tagged[p] < c
  BY <1>1, <1>2, LevelOfNothing DEF Follows
<1>4. ASSUME NEW q \in Tags, Bottom(q, c)
      PROVE  /\ Follows(x, c, q, tagged[q])
             /\ LevelOf(history, tagged[p], c) < LevelOf(history, c, tagged[q])
  <2>1. tagged[q] \in Nat /\ c <= tagged[q]
    BY <1>2, <1>4 DEF Inv, TypeInv, Commits, Bottom
  <2>2. Bottom(q, tagged[p])
    <3>1. \A u \in Tags : tagged[u] \in Nat
      BY DEF Inv, TypeInv, Commits
    <3> QED
      BY <1>1, <1>2, <1>3, <1>4, <3>1 DEF Top, Bottom
  <2>3. Follows(p, tagged[p], q, tagged[q])
    BY <2>2 DEF Inv, Exact
  <2>4. x # q
    OBVIOUS
  <2> HIDE DEF c, x
  <2>5. /\ LevelOf(history, tagged[p], c) \in 1..3 /\ x = Up(p, LevelOf(history, tagged[p], c))
        /\ LevelOf(history, tagged[p], tagged[q]) \in 1..3 /\ q = Up(p, LevelOf(history, tagged[p], tagged[q]))
    BY <1>1, <2>3 DEF Follows
  <2>6. /\ LevelOf(history, tagged[p], c) < LevelOf(history, c, tagged[q])
        /\ LevelOf(history, c, tagged[q]) \in 1..3
        /\ q = Up(x, LevelOf(history, c, tagged[q]))
    BY <1>2, <1>3, <2>1, <2>4, <2>5, Between
  <2> QED
    BY <2>6 DEF Follows
<1> QED
  BY <1>1, <1>3, <1>4

\* All of the invariant that speaks of tags stands the new one.
LEMMA TagAdded ==
    ASSUME Inv, NEW j \in Jobs, Running(j), Releasable(j), NewTag(j) \notin Tags,
           NEW x, x = NewTag(j), NEW c, c = job[j].head,
           Tags' = Tags \cup {x}, tagged'[x] = c,
           \A v \in Tags : tagged'[v] = tagged[v],
           history' = history
    PROVE  /\ x \in Versions /\ c \in Commits
           /\ Neighbours' /\ First' /\ VersionsFollowHistory' /\ Exact'
           /\ \A k \in Jobs :
                Running(k) /\ job'[k].tags = job[k].tags /\ job'[k].head = job[k].head
                    => Pending(k)'
<1>1. /\ history \in Seq(Levels) /\ Tags \subseteq Versions /\ tagged \in [Tags -> Commits]
      /\ \A v \in Tags : tagged[v] \in Nat
      /\ c \in Nat /\ c <= Len(history)
  BY DEF Inv, TypeInv, Commits
<1>2. c \in Commits
  <2>1. Since(job[j].tags) \in Nat
    BY DEF Inv, JobInv, TypeInv, Since, Commits
  <2>2. LevelOf(history, Since(job[j].tags), c) # 0
    BY LevelIsBumpLevel DEF Releasable, NewCommits
  <2> QED
    BY <1>1, <2>1, <2>2, LevelOfNothing DEF Commits
<1>3. \A k \in Jobs : Running(k) /\ job'[k].tags = job[k].tags /\ job'[k].head = job[k].head
          => NewTag(k)' = NewTag(k) /\ Releasable(k)' = Releasable(k)
  BY DecisionStays DEF Inv, JobInv
<1>4. CASE Tags = {}
  <2>1. x = InitialVersion /\ Tags' = {x} /\ tagged'[x] = c
    BY <1>4 DEF Inv, JobInv, Pending
  <2>2. Neighbours'
    BY <1>1, <2>1 DEF Neighbours, Top, Bottom
  <2>3. First' /\ VersionsFollowHistory'
    BY <2>1 DEF First, VersionsFollowHistory
  <2>4. Exact'
    BY <1>1, <2>1 DEF Exact, Bottom
  <2>5. ASSUME NEW k \in Jobs, Running(k), job'[k].tags = job[k].tags, job'[k].head = job[k].head
        PROVE  Pending(k)'
    <3>1. Releasable(k) /\ NewTag(k) \notin Tags => NewTag(k) = InitialVersion
      BY <1>4, <2>5 DEF Inv, JobInv, Pending
    <3> QED
      BY <1>3, <1>4, <2>1, <2>5, <3>1 DEF Pending
  <2> QED
    BY <1>2, <2>1, <2>2, <2>3, <2>4, <2>5, ReleaseAssumption
<1>5. CASE Tags # {}
  <2>1. PICK p \in Tags :
          /\ Top(p, c) /\ tagged[p] < c
          /\ Follows(p, tagged[p], x, c)
          /\ \A q \in Tags : Bottom(q, c) => Follows(x, c, q, tagged[q])
    BY <1>5, TagBetween
  <2>2. x \in Versions /\ Less(p, x)
    BY <1>1, <2>1, UpAbove DEF Follows
  <2>3. \A v \in Tags : tagged[v] <= c => tagged[v] <= tagged[p]
    BY <2>1 DEF Top
  <2>4. Neighbours'
    <3>1. ASSUME NEW d \in Nat, NEW u \in Tags', tagged'[u] <= d
          PROVE  \E t \in Tags' : Top(t, d)'
      <4>1. CASE \E t \in Tags : Top(t, d) /\ (d < c \/ c <= tagged[t])
        BY <1>1, <4>1 DEF Top
      <4>2. CASE ~\E t \in Tags : Top(t, d) /\ (d < c \/ c <= tagged[t])
        <5>1. \A t \in Tags : Top(t, d) => c <= d /\ tagged[t] < c
          BY <1>1, <4>2
        <5>2. \A t \in Tags : tagged[t] <= d => \E m \in Tags : Top(m, d)
          BY <3>1 DEF Inv, Neighbours
        <5>3. u = x \/ (u \in Tags /\ tagged[u] <= d)
          BY <3>1
        <5>4. c <= d
          BY <3>1, <5>1, <5>2, <5>3
        <5>5. \A t \in Tags : tagged[t] <= d => tagged[t] <= c
          BY <1>1, <5>1, <5>2 DEF Top
        <5>6. Top(x, d)'
          BY <1>1, <5>4, <5>5 DEF Top
        <5> QED
          BY <5>6
      <4> QED
        BY <4>1, <4>2
    <3>2. ASSUME NEW d \in Nat, NEW u \in Tags', d < tagged'[u]
          PROVE  \E t \in Tags' : Bottom(t, d)'
      <4>1. CASE \E t \in Tags : Bottom(t, d) /\ (c <= d \/ tagged[t] <= c)
        BY <1>1, <4>1 DEF Bottom
      <4>2. CASE ~\E t \in Tags : Bottom(t, d) /\ (c <= d \/ tagged[t] <= c)
        <5>1. \A t \in Tags : Bottom(t, d) => d < c /\ c < tagged[t]
          BY <1>1, <4>2
        <5>2. \A t \in Tags : d < tagged[t] => \E m \in Tags : Bottom(m, d)
          BY <3>2 DEF Inv, Neighbours
        <5>3. u = x \/ (u \in Tags /\ d < tagged[u])
          BY <3>2
        <5>4. d < c
          BY <3>2, <5>1, <5>2, <5>3
        <5>5. \A t \in Tags : d < tagged[t] => c <= tagged[t]
          BY <1>1, <5>1, <5>2 DEF Bottom
        <5>6. Bottom(x, d)'
          BY <1>1, <5>4, <5>5 DEF Bottom
        <5> QED
          BY <5>6
      <4> QED
        BY <4>1, <4>2
    <3> QED
      BY <3>1, <3>2 DEF Neighbours
  <2>5. First'
    BY <1>5 DEF Inv, First
  <2>6. ASSUME NEW v \in Tags, tagged[v] <= c
        PROVE  Less(v, x)
    <3>1. v = p \/ Less(v, p)
      BY <2>3, <2>6 DEF Inv, VersionsFollowHistory
    <3> QED
      BY <1>1, <2>2, <3>1, LessOrder
  <2>7. ASSUME NEW w \in Tags, c <= tagged[w]
        PROVE  Less(x, w)
    <3>1. c < tagged[w]
      BY <1>1, <2>1, <2>3, <2>7
    <3>2. PICK q \in Tags : Bottom(q, c)
      BY <1>1, <3>1 DEF Inv, Neighbours
    <3>3. Less(x, q)
      BY <2>1, <2>2, <3>2, UpAbove DEF Follows
    <3>4. q = w \/ Less(q, w)
      BY <3>1, <3>2 DEF Bottom, Inv, VersionsFollowHistory
    <3> QED
      BY <1>1, <2>2, <3>3, <3>4, LessOrder
  <2>8. VersionsFollowHistory'
    BY <2>6, <2>7 DEF Inv, VersionsFollowHistory
  <2>9. \A v \in Tags : tagged[v] = tagged[p] => v = p
    BY <1>1, <2>1, LessOrder DEF Inv, VersionsFollowHistory
  <2>10. Exact'
    <3>1. ASSUME NEW v \in Tags', NEW w \in Tags', Bottom(w, tagged[v])'
          PROVE  Follows(v, tagged[v], w, tagged[w])'
      <4>1. CASE v \in Tags /\ w \in Tags
        BY <3>1, <4>1 DEF Inv, Exact, Bottom, Follows
      <4>2. CASE v = x /\ w \in Tags
        BY <2>1, <3>1, <4>2 DEF Bottom, Follows
      <4>3. CASE v \in Tags /\ w = x
        <5>1. v = p
          BY <1>1, <2>1, <2>3, <2>9, <3>1, <4>3 DEF Bottom
        <5> QED
          BY <2>1, <4>3, <5>1 DEF Follows
      <4>4. CASE v = x /\ w = x
        BY <1>1, <3>1, <4>4 DEF Bottom
      <4> QED
        BY <4>1, <4>2, <4>3, <4>4
    <3> QED
      BY <3>1 DEF Exact
  <2>11. ASSUME NEW k \in Jobs, Running(k), job'[k].tags = job[k].tags, job'[k].head = job[k].head
         PROVE  Pending(k)'
    <3> DEFINE b == job[k].head
               y == NewTag(k)
    <3>1. SUFFICES ASSUME Releasable(k), y \notin Tags, y # x
                   PROVE  \E t \in Tags' : /\ Top(t, b)'
                                           /\ Follows(t, tagged[t], y, b)'
      BY <1>3, <2>11 DEF Pending
    <3>2. PICK t \in Tags : Top(t, b) /\ Follows(t, tagged[t], y, b)
      BY <1>5, <2>11, <3>1 DEF Inv, JobInv, Pending
    <3>3. b \in Nat
      BY DEF Inv, TypeInv
    <3>4. CASE b < c \/ c <= tagged[t]
      <4>1. Top(t, b)'
        BY <1>1, <2>11, <3>2, <3>3, <3>4 DEF Top
      <4> QED
        BY <1>3, <2>11, <3>2, <4>1 DEF Follows
    <3>5. CASE c <= b /\ tagged[t] < c
      <4>1. t = p
        <5>1. tagged[t] <= tagged[p]
          BY <1>1, <2>3, <3>2, <3>5
        <5>2. tagged[p] <= tagged[t]
          BY <1>1, <2>1, <3>2, <3>3, <3>5 DEF Top
        <5> QED
          BY <1>1, <2>9, <5>1, <5>2
      <4>2. \A v \in Tags : tagged[v] <= b => tagged[v] <= c
        BY <1>1, <3>2, <3>5 DEF Top
      <4>3. Top(x, b)'
        BY <1>1, <2>11, <3>3, <3>5, <4>2 DEF Top
      <4>4. Follows(x, c, y, b)
        <5>1. x = Up(p, LevelOf(history, tagged[p], c)) /\ LevelOf(history, tagged[p], c) \in 1..3
          BY <2>1 DEF Follows
        <5>2. y = Up(p, LevelOf(history, tagged[p], b)) /\ LevelOf(history, tagged[p], b) \in 1..3
          BY <3>2, <4>1 DEF Follows
        <5>3. p \in Versions /\ tagged[p] \in Nat /\ tagged[p] <= c /\ c <= b
          BY <1>1, <2>1, <3>5
        <5>4. x # y
          BY <3>1
        <5> HIDE DEF y, b
        <5> QED
          BY <1>1, <3>3, <5>1, <5>2, <5>3, <5>4, Between DEF Follows
      <4>5. Follows(x, tagged[x], y, b)'
        BY <1>3, <2>11, <4>4 DEF Follows
      <4>6. x \in Tags'
        OBVIOUS
      <4> QED
        BY <4>3, <4>5, <4>6
    <3> QED
      BY <1>1, <3>3, <3>4, <3>5
  <2> QED
    BY <1>2, <2>2, <2>4, <2>5, <2>8, <2>10, <2>11
<1> QED
  BY <1>4, <1>5

-----------------------------------------------------------------------------
(* The steps, one by one. *)

\* The history grows at its end only.
Grows == history' = history \/ \E l \in Levels : history' = Append(history, l)

\* What the invariant says of a running job stands a step in which the job
\* decides nothing, or what it may.
LEMMA JobKept ==
    ASSUME Inv, NEW k \in Jobs, Running(k), Grows,
           \A v \in Tags : tagged'[v] = tagged[v],
           job'[k].tags = job[k].tags, job'[k].head = job[k].head,
           job'[k].pc = "create" => Releasable(k),
           job'[k].pc = "backfill" => job[k].tags # {},
           Pending(k)'
    PROVE  JobInv(k)'
<1>1. JobInv(k)
  BY DEF Inv
<1>2. Releasable(k)' = Releasable(k)
  BY <1>1, DecisionStays DEF Inv, JobInv, Grows
<1>3. Latest(job[k].tags)' = Latest(job[k].tags)
  BY DEF Latest, Less
<1> QED
  BY <1>1, <1>2, <1>3 DEF JobInv

\* A step that leaves the tags alone.
LEMMA TagsStay ==
    ASSUME Inv, tagged' = tagged, Grows
    PROVE  Neighbours' /\ First' /\ VersionsFollowHistory' /\ Exact'
<1>1. Neighbours' /\ First' /\ VersionsFollowHistory'
  BY DEF Inv, Neighbours, Top, Bottom, First, VersionsFollowHistory, Tags, Less
<1>2. Exact'
  <2>1. ASSUME NEW v \in Tags, NEW w \in Tags, Bottom(w, tagged[v])
        PROVE  LevelOf(history', tagged[v], tagged[w]) = LevelOf(history, tagged[v], tagged[w])
    <3>1. /\ tagged[v] \in Nat /\ tagged[w] \in Nat /\ tagged[w] <= Len(history)
          /\ history \in Seq(Levels)
      BY DEF Inv, TypeInv, Commits
    <3>2. CASE \E l \in Levels : history' = Append(history, l)
      BY <3>1, <3>2, LevelOfPast
    <3> QED
      BY <3>2 DEF Grows
  <2> QED
    BY <2>1 DEF Inv, Exact, Follows, Bottom, Tags
<1> QED
  BY <1>1, <1>2

\* Then the invariant holds if it does of the jobs.
LEMMA QuietStep ==
    ASSUME Inv, tagged' = tagged, Grows,
           job' \in [Jobs -> [pc : {"idle", "probe", "backfill", "create"},
                              head : 0..Len(history'), tags : SUBSET Tags]],
           \A k \in Jobs : Running(k)' => JobInv(k)'
    PROVE  Inv'
<1>1. history' \in Seq(Levels) /\ Len(history) <= Len(history')
  <2>1. history \in Seq(Levels) /\ Len(history) \in Nat
    BY DEF Inv, TypeInv
  <2>2. CASE \E l \in Levels : history' = Append(history, l)
    BY <2>1, <2>2
  <2> QED
    BY <2>1, <2>2 DEF Grows
<1>2. Tags' = Tags
  BY DEF Tags
<1>3. tagged' \in [Tags' -> Commits']
  BY <1>1, <1>2 DEF Inv, TypeInv, Commits
<1>4. TypeInv'
  BY <1>1, <1>2, <1>3 DEF Inv, TypeInv
<1> QED
  BY <1>4, TagsStay DEF Inv

\* A merge.
LEMMA PushStep ==
    ASSUME Inv, NEW l \in Levels, Push(l)
    PROVE  Inv'
<1>1. Grows /\ tagged' = tagged /\ job' = job
  BY DEF Push, Grows
<1>2. job' \in [Jobs -> [pc : {"idle", "probe", "backfill", "create"},
                         head : 0..Len(history'), tags : SUBSET Tags]]
  <2>1. Len(history') = Len(history) + 1 /\ Len(history) \in Nat
    BY DEF Push, Inv, TypeInv
  <2>2. 0..Len(history) \subseteq 0..Len(history')
    BY <2>1
  <2> QED
    BY <1>1, <2>2 DEF Inv, TypeInv
<1>3. ASSUME NEW k \in Jobs, Running(k)'
      PROVE  JobInv(k)'
  <2>1. Running(k) /\ JobInv(k)
    BY <1>1, <1>3 DEF Running, Inv
  <2>2. Pending(k)'
    BY <1>1, <2>1, PendingStays DEF Grows
  <2> QED
    BY <1>1, <2>1, <2>2, JobKept DEF JobInv
<1> QED
  BY <1>1, <1>2, <1>3, QuietStep

\* The newest tag up to a commit is the newest of those it can reach.
LEMMA LatestIsTop ==
    ASSUME Inv, NEW c \in Nat, NEW p \in Tags, Top(p, c)
    PROVE  p \in MergedTags(c) /\ Latest(MergedTags(c)) = p
<1> DEFINE S == MergedTags(c)
<1>1. p \in S /\ S \subseteq Tags /\ S \subseteq Versions
  BY DEF MergedTags, Top, Inv, TypeInv
<1>2. \A w \in S \ {p} : Less(w, p)
  BY DEF MergedTags, Top, Inv, VersionsFollowHistory
<1> HIDE DEF S
<1>3. Latest(S) \in S /\ \A w \in S \ {Latest(S)} : Less(w, Latest(S))
  BY <1>1, <1>2 DEF Latest
<1>4. Latest(S) = p
  BY <1>1, <1>2, <1>3, LessOrder
<1> QED
  BY <1>1, <1>4 DEF S

\* A job that starts reads the tags of its commit.
LEMMA StartStep ==
    ASSUME Inv, NEW j \in Jobs, NEW c \in Commits, Start(j, c)
    PROVE  Inv'
<1> DEFINE S == MergedTags(c)
           r == [pc |-> "probe", head |-> c, tags |-> S]
<1>1. history' = history /\ tagged' = tagged /\ job' = [job EXCEPT ![j] = r]
  BY DEF Start
<1>2. /\ job \in [Jobs -> [pc : {"idle", "probe", "backfill", "create"},
                           head : 0..Len(history), tags : SUBSET Tags]]
      /\ c \in 0..Len(history) /\ S \subseteq Tags
  BY DEF Inv, TypeInv, Commits, MergedTags
<1>3. history \in Seq(Levels) /\ c \in Nat /\ \A v \in Tags : tagged[v] \in Nat
  BY DEF Inv, TypeInv, Commits
<1>4. r \in [pc : {"idle", "probe", "backfill", "create"},
             head : 0..Len(history), tags : SUBSET Tags]
  BY <1>2
<1>5. job'[j] = r /\ \A k \in Jobs \ {j} : job'[k] = job[k]
  BY <1>1, <1>2
<1>6. job' \in [Jobs -> [pc : {"idle", "probe", "backfill", "create"},
                         head : 0..Len(history'), tags : SUBSET Tags]]
  BY <1>1, <1>2, <1>4
<1>7. S # {} => \E p \in Tags : Top(p, c) /\ p \in S /\ Latest(S) = p
  <2>1. SUFFICES ASSUME S # {}
                 PROVE  \E p \in Tags : Top(p, c) /\ p \in S /\ Latest(S) = p
    OBVIOUS
  <2>2. PICK p \in Tags : Top(p, c)
    BY <1>3, <2>1 DEF MergedTags, Inv, Neighbours
  <2> QED
    BY <1>3, <2>2, LatestIsTop
<1>8. JobInv(j)'
  <2>1. job'[j].tags = S /\ job'[j].head = c /\ job'[j].pc = "probe"
    BY <1>5
  <2> DEFINE L == LevelOf(history, Since(S), c)
  <2>2. BumpLevel(NewCommits(j))' = L
    <3>1. NewCommits(j)' = RangeOf(history, Since(S), c)
      BY <1>1, <2>1 DEF NewCommits, LogRange, Since, Commits, RangeOf
    <3>2. BumpLevel(NewCommits(j))' = LevelIn(history', NewCommits(j)')
      BY DEF BumpLevel, LevelIn
    <3> QED
      BY <1>1, <3>1, <3>2 DEF LevelOf
  <2>3. NewTag(j)' = NextVersion(S, L) /\ (Releasable(j)' <=> L # 0)
    BY <2>1, <2>2 DEF NewTag, NextVersion, Releasable
  <2>4. ASSUME L # 0, NextVersion(S, L) \notin Tags
        PROVE  IF Tags = {} THEN NextVersion(S, L) = InitialVersion
               ELSE \E p \in Tags : Top(p, c) /\ Follows(p, tagged[p], NextVersion(S, L), c)
    <3>1. CASE S = {}
      BY <2>4, <3>1 DEF NextVersion, Inv, First
    <3>2. CASE S # {}
      <4>1. PICK p \in Tags : Top(p, c) /\ p \in S /\ Latest(S) = p
        BY <1>7, <3>2
      <4>2. L = LevelOf(history, tagged[p], c)
        BY <3>2, <4>1 DEF Since
      <4>3. L \in 1..3
        BY <1>3, <2>4, <4>2, LevelOfNothing
      <4>4. NextVersion(S, L) = Up(p, L)
        BY <3>2, <4>1 DEF NextVersion, Up
      <4> QED
        BY <4>1, <4>2, <4>3, <4>4 DEF Follows
    <3> QED
      BY <3>1, <3>2
  <2>5. Pending(j)'
    BY <1>1, <2>1, <2>3, <2>4 DEF Pending, Top, Follows, Tags
  <2>6. S # {} => Latest(S) \in S
    BY <1>7
  <2> QED
    BY <2>1, <2>5, <2>6 DEF JobInv
<1>9. ASSUME NEW k \in Jobs \ {j}, Running(k)'
      PROVE  JobInv(k)'
  <2>1. Running(k) /\ JobInv(k)
    BY <1>5, <1>9 DEF Running, Inv
  <2>2. Pending(k)'
    BY <1>1, <1>5, <2>1, PendingStays
  <2> QED
    BY <1>1, <1>5, <2>1, <2>2, JobKept DEF JobInv, Grows
<1> QED
  BY <1>1, <1>6, <1>8, <1>9, QuietStep DEF Grows

\* What becomes of a job that goes on with the orphan, with the new tag, or ends.
Decided(j) ==
    \/ End(j)
    \/ job[j].tags # {} /\ job' = [job EXCEPT ![j].pc = "backfill"]
    \/ Releasable(j) /\ job' = [job EXCEPT ![j].pc = "create"]

\* A decision, or a call that changes no tag.
LEMMA DecisionStep ==
    ASSUME Inv, NEW j \in Jobs, Running(j), Decided(j), tagged' = tagged, history' = history
    PROVE  Inv'
<1>1. job \in [Jobs -> [pc : {"idle", "probe", "backfill", "create"},
                        head : 0..Len(history), tags : SUBSET Tags]]
  BY DEF Inv, TypeInv
<1>2. Idle \in [pc : {"idle", "probe", "backfill", "create"},
                head : 0..Len(history), tags : SUBSET Tags]
  <2>1. Len(history) \in Nat
    BY DEF Inv, TypeInv
  <2> QED
    BY <2>1 DEF Idle
<1>3. job' \in [Jobs -> [pc : {"idle", "probe", "backfill", "create"},
                         head : 0..Len(history'), tags : SUBSET Tags]]
  BY <1>1, <1>2 DEF Decided, End
<1>4. ASSUME NEW k \in Jobs, Running(k)'
      PROVE  JobInv(k)'
  <2>1. /\ Running(k)
        /\ job'[k].tags = job[k].tags /\ job'[k].head = job[k].head
        /\ job'[k].pc = job[k].pc
           \/ (job'[k].pc = "create" /\ Releasable(k))
           \/ (job'[k].pc = "backfill" /\ job[k].tags # {})
    <3>1. CASE k = j
      BY <1>1, <1>4, <3>1 DEF Decided, End, Idle, Running
    <3>2. CASE k # j
      BY <1>1, <1>4, <3>2 DEF Decided, End, Running
    <3> QED
      BY <3>1, <3>2
  <2>2. JobInv(k)
    BY <2>1 DEF Inv
  <2>3. Pending(k)'
    BY <2>1, PendingStays
  <2> QED
    BY <2>1, <2>2, <2>3, JobKept DEF JobInv, Grows
<1> QED
  BY <1>3, <1>4, QuietStep DEF Grows

\* The probe, answered, failed or not needed.
LEMMA SettlesStep ==
    ASSUME Inv, NEW j \in Jobs, Settles(j)
    PROVE  Inv'
<1>1. Running(j) /\ tagged' = tagged /\ history' = history
  BY DEF Settles, ProbeAnswered, NoProbe, ProbeFails, Running
<1>2. Decided(j)
  BY DEF Settles, ProbeAnswered, NoProbe, ProbeFails, Proceed, Decided
<1> QED
  BY <1>1, <1>2, DecisionStep

\* A post that creates the tag, after which the job ends, or finds it there.
LEMMA PostStep ==
    ASSUME Inv, NEW j \in Jobs, Posting(j), TagCreated(j), history' = history,
           \/ End(j)
           \/ job[j].pc = "backfill" /\ Proceed(j)
    PROVE  Inv'
<1> DEFINE x == PostTag(j)
<1>1. Running(j) /\ JobInv(j)
  BY DEF Posting, Running, Inv
<1>2. Decided(j)
  BY DEF Proceed, Decided
<1>3. CASE x \in Tags
  <2>1. tagged' = tagged
    BY <1>3 DEF TagCreated, Inv, TypeInv
  <2> QED
    BY <1>1, <1>2, <2>1, DecisionStep
<1>4. CASE x \notin Tags
  <2>1. job[j].tags \subseteq Tags
    BY DEF Inv, TypeInv
  <2>2. job[j].pc = "create"
    BY <1>1, <1>4, <2>1 DEF Posting, PostTag, Previous, JobInv
  <2>3. x = NewTag(j) /\ Releasable(j) /\ End(j)
    BY <1>1, <2>2 DEF PostTag, JobInv
  <2>4. PICK y, c : y = NewTag(j) /\ c = job[j].head
    OBVIOUS
  <2>5. /\ Tags' = Tags \cup {y} /\ tagged'[y] = c
        /\ \A v \in Tags : tagged'[v] = tagged[v]
    BY <1>4, <2>3, <2>4 DEF TagCreated, Tags
  <2>6. /\ y \in Versions /\ c \in Commits
        /\ Neighbours' /\ First' /\ VersionsFollowHistory' /\ Exact'
        /\ \A k \in Jobs :
             Running(k) /\ job'[k].tags = job[k].tags /\ job'[k].head = job[k].head
                 => Pending(k)'
    BY <1>1, <1>4, <2>3, <2>4, <2>5, TagAdded
  <2>7. TypeInv'
    <3>1. /\ history \in Seq(Levels) /\ Len(history) \in Nat
          /\ Tags \subseteq Versions /\ tagged \in [Tags -> Commits]
      BY DEF Inv, TypeInv
    <3>2. job \in [Jobs -> [pc : {"idle", "probe", "backfill", "create"},
                            head : 0..Len(history), tags : SUBSET Tags]]
      BY DEF Inv, TypeInv
    <3>3. Idle \in [pc : {"idle", "probe", "backfill", "create"},
                    head : 0..Len(history), tags : SUBSET Tags']
      BY <3>1 DEF Idle
    <3>4. job' \in [Jobs -> [pc : {"idle", "probe", "backfill", "create"},
                             head : 0..Len(history), tags : SUBSET Tags']]
      BY <2>3, <2>5, <3>2, <3>3 DEF End
    <3>5. tagged' \in [Tags' -> Commits]
      BY <2>4, <2>3, <2>5, <2>6, <3>1 DEF TagCreated, Tags
    <3>6. history' \in Seq(Levels) /\ Commits' = Commits /\ Tags' \subseteq Versions
      BY <2>5, <2>6, <3>1 DEF Commits
    <3> QED
      BY <3>4, <3>5, <3>6 DEF TypeInv
  <2>8. ASSUME NEW k \in Jobs, Running(k)'
        PROVE  JobInv(k)'
    <3>1. job \in [Jobs -> [pc : {"idle", "probe", "backfill", "create"},
                            head : 0..Len(history), tags : SUBSET Tags]]
      BY DEF Inv, TypeInv
    <3>2. k # j /\ job'[k] = job[k]
      BY <2>3, <2>8, <3>1 DEF End, Idle, Running
    <3>3. Running(k) /\ JobInv(k)
      BY <2>8, <3>2 DEF Running, Inv
    <3>4. Pending(k)'
      BY <2>6, <3>2, <3>3
    <3> QED
      BY <2>5, <3>2, <3>3, <3>4, JobKept DEF JobInv, Grows
  <2> QED
    BY <2>6, <2>7, <2>8 DEF Inv
<1> QED
  BY <1>3, <1>4

-----------------------------------------------------------------------------
(* The theorem. *)

LEMMA InitInv == Init => Inv
<1> SUFFICES ASSUME Init
             PROVE  Inv
  OBVIOUS
<1>1. history = << >> /\ Len(history) = 0 /\ Tags = {}
  BY EmptySeq DEF Init, Tags
<1>2. history \in Seq(Levels)
  BY <1>1
<1>3. tagged \in [Tags -> Commits]
  BY <1>1 DEF Init
<1>4. job \in [Jobs -> [pc : {"idle", "probe", "backfill", "create"},
                        head : 0..Len(history), tags : SUBSET Tags]]
  BY <1>1 DEF Init, Idle
<1>5. TypeInv
  BY <1>1, <1>2, <1>3, <1>4 DEF TypeInv
<1>6. Neighbours /\ First /\ VersionsFollowHistory /\ Exact
  BY <1>1 DEF Neighbours, First, VersionsFollowHistory, Exact
<1>7. \A j \in Jobs : ~Running(j)
  BY DEF Init, Idle, Running
<1> QED
  BY <1>5, <1>6, <1>7 DEF Inv

\* Every step keeps Inv.
LEMMA NextInv == Inv /\ [Next]_vars => Inv'
<1> SUFFICES ASSUME Inv, [Next]_vars
             PROVE  Inv'
  OBVIOUS
<1>1. CASE UNCHANGED vars
  <2>1. history' = history /\ tagged' = tagged /\ job' = job
    BY <1>1 DEF vars
  <2>2. job' \in [Jobs -> [pc : {"idle", "probe", "backfill", "create"},
                           head : 0..Len(history'), tags : SUBSET Tags]]
    BY <2>1 DEF Inv, TypeInv
  <2>3. ASSUME NEW k \in Jobs, Running(k)'
        PROVE  JobInv(k)'
    <3>1. Running(k) /\ JobInv(k)
      BY <2>1, <2>3 DEF Running, Inv
    <3>2. Pending(k)'
      BY <2>1, <3>1, PendingStays
    <3> QED
      BY <2>1, <3>1, <3>2, JobKept DEF JobInv, Grows
  <2> QED
    BY <2>1, <2>2, <2>3, QuietStep DEF Grows
<1>2. ASSUME NEW l \in Levels, Push(l)
      PROVE  Inv'
  BY <1>2, PushStep
<1>3. ASSUME NEW j \in Jobs, NEW c \in Commits, Start(j, c)
      PROVE  Inv'
  BY <1>3, StartStep
<1>4. ASSUME NEW j \in Jobs, Settles(j)
      PROVE  Inv'
  BY <1>4, SettlesStep
<1>5. ASSUME NEW j \in Jobs, PostSucceeds(j) \/ AnswerLost(j) \/ TagOnly(j)
      PROVE  Inv'
  <2>1. Posting(j) /\ TagCreated(j) /\ history' = history
    BY <1>5 DEF PostSucceeds, AnswerLost, TagOnly, ReleaseCreated
  <2>2. End(j) \/ (job[j].pc = "backfill" /\ Proceed(j))
    BY <1>5 DEF PostSucceeds, AnswerLost, TagOnly
  <2> QED
    BY <2>1, <2>2, PostStep
<1>6. ASSUME NEW j \in Jobs, PostFails(j)
      PROVE  Inv'
  BY <1>6, DecisionStep DEF PostFails, Posting, Running, Decided
<1> QED
  BY <1>1, <1>2, <1>3, <1>4, <1>5, <1>6 DEF Next

\* Versions grow along the history, and no commit carries two, whatever jobs run
\* at once, late or again, and whatever comes of their calls.
THEOREM VersionsGrow == Spec => []VersionsFollowHistory
<1>1. Inv => VersionsFollowHistory
  BY DEF Inv
<1> QED
  BY <1>1, InitInv, NextInv, PTL DEF Spec

-----------------------------------------------------------------------------
(* What the Releases list, while jobs run in order. *)

\* Every record of a job, a tag or a Release points at what is there.
NoteTypes ==
    /\ Releases \subseteq Tags /\ notes \in [Releases -> SUBSET Commits]
    /\ \A j \in Jobs : job[j].tags \subseteq MergedTags(job[j].head)
    /\ newest \in 0..Len(history) /\ overlapped \in BOOLEAN /\ blind \in BOOLEAN

\* One job runs, for the newest commit any job ran for, and knows every tag.
OneByOne ==
    InOrder =>
        /\ \A v \in Tags : tagged[v] <= newest
        /\ \A j \in Jobs : Running(j) => job[j].head = newest /\ job[j].tags = Tags
        /\ \A j, k \in Jobs : Running(j) /\ Running(k) => j = k

\* Only the highest tag lacks a Release, and none does once the job goes on to
\* cut the next.
OrphanOnTop ==
    InOrder /\ ~blind =>
        /\ \A v \in Tags : v \in Releases \/ \A w \in Tags \ {v} : Less(w, v)
        /\ \A j \in Jobs : job[j].pc = "create" => Tags \subseteq Releases

\* The inductive invariant of the notes.
RunInv == NoteTypes /\ OneByOne /\ NotesCoverOwnRange /\ OrphanOnTop

\* The tags below one are those on the commits before its own, of which the
\* highest is the newest.
LEMMA BelowTag ==
    ASSUME Inv, NEW v \in Tags
    PROVE  LET S == {w \in Tags : Less(w, v)}
           IN  /\ S = MergedTags(tagged[v] - 1)
               /\ S # {} => Latest(S) \in S
               /\ Since(S) \in Nat
<1> DEFINE S == {w \in Tags : Less(w, v)}
           c == tagged[v] - 1
<1>1. /\ Tags \subseteq Versions /\ c \in Nat
      /\ \A w \in Tags : tagged[w] \in Nat
  BY DEF Inv, TypeInv, Commits
<1>2. ASSUME NEW w \in Tags PROVE Less(w, v) <=> tagged[w] <= c
  <2>1. CASE w = v
    BY <1>1, <2>1, LessOrder
  <2>2. CASE w # v /\ tagged[w] <= tagged[v]
    <3>1. Less(w, v) /\ ~Less(v, w)
      BY <1>1, <2>2, LessOrder DEF Inv, VersionsFollowHistory
    <3>2. ~(tagged[v] <= tagged[w])
      BY <2>2, <3>1 DEF Inv, VersionsFollowHistory
    <3>3. QED
      BY <1>1, <3>1, <3>2
  <2>3. CASE w # v /\ ~(tagged[w] <= tagged[v])
    <3>1. tagged[v] <= tagged[w]
      BY <1>1, <2>3
    <3>2. Less(v, w)
      BY <2>3, <3>1 DEF Inv, VersionsFollowHistory
    <3>3. QED
      BY <1>1, <2>3, <3>2, LessOrder
  <2>4. QED
    BY <2>1, <2>2, <2>3
<1>3. S = MergedTags(c)
  BY <1>2 DEF MergedTags
<1>4. ASSUME S # {} PROVE Latest(S) \in S
  <2>1. \E u \in Tags : tagged[u] <= c
    BY <1>2, <1>4
  <2>2. PICK p \in Tags : Top(p, c)
    BY <1>1, <2>1 DEF Inv, Neighbours
  <2>3. QED
    BY <1>1, <1>3, <2>2, LatestIsTop
<1>5. Since(S) \in Nat
  BY <1>1, <1>4 DEF Since
<1>6. QED
  BY <1>3, <1>4, <1>5

\* A Release's range stands a step that adds no tag below its own.
LEMMA RangeStays ==
    ASSUME Inv, NEW v \in Tags, Grows,
           \A u \in Tags : u \in Tags' /\ tagged'[u] = tagged[u],
           \A u \in Tags' \ Tags : ~Less(u, v)
    PROVE  LogRange(Since({w \in Tags : Less(w, v)}), tagged[v])'
               = LogRange(Since({w \in Tags : Less(w, v)}), tagged[v])
<1> DEFINE S == {w \in Tags : Less(w, v)}
<1>1. {w \in Tags' : Less(w, v)} = S
  OBVIOUS
<1>2. (S # {} => Latest(S) \in S) /\ Since(S) \in Nat
  BY BelowTag
<1>3. (IF S = {} THEN 0 ELSE tagged'[Latest(S)]) = Since(S)
  BY <1>2 DEF Since
<1>4. Since({w \in Tags : Less(w, v)})' = Since(S)
  BY <1>1, <1>3 DEF Since, Latest, Less
<1>5. /\ tagged[v] \in Nat /\ tagged[v] <= Len(history) /\ tagged'[v] = tagged[v]
      /\ Len(history) \in Nat /\ (Len(history') = Len(history) \/ Len(history') = Len(history) + 1)
  BY DEF Inv, TypeInv, Commits, Grows
<1> DEFINE a == Since(S)
<1>6. \A c \in Nat : c <= tagged[v] => (c \in 1..Len(history') <=> c \in 1..Len(history))
  BY <1>5
<1>7. {c \in 1..Len(history') : a < c /\ c <= tagged[v]} = {c \in 1..Len(history) : a < c /\ c <= tagged[v]}
  BY <1>5, <1>6
<1>8. QED
  BY <1>4, <1>5, <1>7 DEF LogRange, Commits

\* No tag goes, and none moves.
TagsKept == \A u \in Tags : u \in Tags' /\ tagged'[u] = tagged[u]

\* What each kind of step leaves alone.
LEMMA Kinds ==
    ASSUME Inv, [Next]_vars
    PROVE  /\ Grows /\ TagsKept
           /\ \/ /\ UNCHANGED <<tagged, notes, newest, overlapped, blind>>
                 /\ job' = job
              \/ \E j \in Jobs, c \in Commits : Start(j, c)
              \/ \E j \in Jobs : /\ Running(j) /\ Decided(j)
                                 /\ Settles(j) \/ PostFails(j)
                                 /\ UNCHANGED <<history, tagged, notes, newest, overlapped>>
              \/ \E j \in Jobs : /\ Posting(j) /\ TagCreated(j) /\ Decided(j)
                                 /\ PostSucceeds(j) \/ AnswerLost(j) \/ TagOnly(j)
                                 /\ UNCHANGED <<history, newest, overlapped, blind>>
<1>1. CASE UNCHANGED vars
  BY <1>1 DEF vars, Grows, TagsKept, Tags
<1>2. ASSUME NEW l \in Levels, Push(l)
      PROVE  Grows /\ TagsKept /\ UNCHANGED <<tagged, notes, newest, overlapped, blind>> /\ job' = job
  BY <1>2 DEF Push, Grows, TagsKept, Tags
<1>3. ASSUME NEW j \in Jobs, NEW c \in Commits, Start(j, c)
      PROVE  Grows /\ TagsKept
  BY <1>3 DEF Start, Grows, TagsKept, Tags
<1>4. ASSUME NEW j \in Jobs, Settles(j) \/ PostFails(j)
      PROVE  /\ Grows /\ TagsKept /\ Running(j) /\ Decided(j)
             /\ UNCHANGED <<history, tagged, notes, newest, overlapped>>
  <2>1. /\ Running(j) /\ Decided(j)
        /\ UNCHANGED <<history, tagged, notes, newest, overlapped>>
    BY <1>4 DEF Settles, ProbeAnswered, NoProbe, ProbeFails, PostFails, Proceed, Decided, Posting, Running
  <2>2. QED
    BY <2>1 DEF Grows, TagsKept, Tags
<1>5. ASSUME NEW j \in Jobs, PostSucceeds(j) \/ AnswerLost(j) \/ TagOnly(j)
      PROVE  /\ Grows /\ TagsKept /\ Posting(j) /\ TagCreated(j) /\ Decided(j)
             /\ UNCHANGED <<history, newest, overlapped, blind>>
  <2>1. Posting(j) /\ TagCreated(j) /\ UNCHANGED <<history, newest, overlapped, blind>>
    BY <1>5 DEF PostSucceeds, AnswerLost, TagOnly, ReleaseCreated
  <2>2. Decided(j)
    BY <1>5 DEF PostSucceeds, AnswerLost, TagOnly, Proceed, Decided
  <2>3. TagsKept
    BY <2>1 DEF TagCreated, TagsKept, Tags
  <2>4. QED
    BY <2>1, <2>2, <2>3 DEF Grows
<1>6. QED
  BY <1>1, <1>2, <1>3, <1>4, <1>5 DEF Next

\* What a decision does to the records of the jobs.
LEMMA DecidedJobs ==
    ASSUME Inv, NEW j \in Jobs, Decided(j), NEW k \in Jobs
    PROVE  \/ k = j /\ job'[k] = Idle
           \/ /\ job'[k].tags = job[k].tags /\ job'[k].head = job[k].head
              /\ job'[k].pc \in {"backfill", "create"} \/ job'[k] = job[k]
              /\ k # j => job'[k] = job[k]
<1>1. job \in [Jobs -> [pc : {"idle", "probe", "backfill", "create"},
                        head : 0..Len(history), tags : SUBSET Tags]]
  BY DEF Inv, TypeInv
<1>2. CASE End(j)
  BY <1>1, <1>2 DEF End
<1>3. CASE job' = [job EXCEPT ![j].pc = "backfill"] \/ job' = [job EXCEPT ![j].pc = "create"]
  BY <1>1, <1>3
<1>4. QED
  BY <1>2, <1>3 DEF Decided

\* One part of it after the other: types,
LEMMA NoteTypesKeep == ASSUME Inv, NoteTypes, [Next]_vars PROVE NoteTypes'
<1>1. Grows /\ TagsKept
  BY Kinds
<1>2. Len(history) \in Nat /\ Len(history') \in Nat /\ Len(history) <= Len(history') /\ Commits \subseteq Commits'
  <2>1. history \in Seq(Levels) /\ (Len(history') = Len(history) \/ Len(history') = Len(history) + 1)
    BY <1>1 DEF Inv, TypeInv, Grows
  <2>2. QED
    BY <2>1 DEF Commits
<1>3. \A h : MergedTags(h) \subseteq MergedTags(h)'
  BY <1>1 DEF MergedTags, TagsKept
<1>4. Releases' \subseteq Tags' /\ notes' \in [Releases' -> SUBSET Commits']
  <2>1. CASE notes' = notes
    <3>1. Releases' = Releases /\ Releases \subseteq Tags'
      BY <1>1, <2>1 DEF Releases, TagsKept, NoteTypes
    <3>2. QED
      BY <1>2, <2>1, <3>1 DEF NoteTypes
  <2>2. ASSUME NEW j \in Jobs, ReleaseCreated(j) PROVE Releases' \subseteq Tags' /\ notes' \in [Releases' -> SUBSET Commits']
    <3> DEFINE x == PostTag(j)
               n == PostNotes(j)
    <3>1. n \subseteq Commits
      BY DEF PostNotes, RecoveryNotes, NewCommits, LogRange
    <3>2. tagged' = [v \in Tags \cup {x} |-> IF v \in Tags THEN tagged[v] ELSE job[j].head]
      BY <2>2 DEF ReleaseCreated, TagCreated
    <3>3. notes' = [v \in Releases \cup {x} |-> IF v \in Releases THEN notes[v] ELSE n]
      BY <2>2 DEF ReleaseCreated
    <3> HIDE DEF x, n
    <3>4. Tags' = Tags \cup {x} /\ Releases' = Releases \cup {x}
      BY <3>2, <3>3 DEF Tags, Releases
    <3>5. notes \in [Releases -> SUBSET Commits] /\ Releases \subseteq Tags
      BY DEF NoteTypes
    <3>6. \A v \in Releases \cup {x} : notes'[v] \in SUBSET Commits'
      BY <3>1, <3>3, <3>5, <1>2
    <3>7. QED
      BY <3>3, <3>4, <3>5, <3>6
  <2>3. QED
    BY <2>1, <2>2 DEF Next, vars, Push, Start, Settles, ProbeAnswered, NoProbe, ProbeFails, PostFails, PostSucceeds, AnswerLost, TagOnly
<1>5. ASSUME NEW k \in Jobs PROVE (job[k].tags \subseteq MergedTags(job[k].head))'
  <2>1. CASE job'[k].tags = job[k].tags /\ job'[k].head = job[k].head
    BY <1>3, <2>1 DEF NoteTypes
  <2>2. CASE job'[k] = Idle
    BY <2>2 DEF Idle
  <2>3. ASSUME NEW c \in Commits, Start(k, c) PROVE (job[k].tags \subseteq MergedTags(job[k].head))'
    <3>1. job' = [job EXCEPT ![k] = [pc |-> "probe", head |-> c, tags |-> MergedTags(c)]]
      BY <2>3 DEF Start
    <3>2. job'[k].tags = MergedTags(c) /\ job'[k].head = c
      BY <3>1 DEF Inv, TypeInv
    <3>3. QED
      BY <1>3, <3>2
  <2>4. ASSUME NEW j \in Jobs, NEW c \in Commits, Start(j, c), j # k PROVE job'[k] = job[k]
    BY <2>4 DEF Start, Inv, TypeInv
  <2>5. QED
    BY <2>1, <2>2, <2>3, <2>4, Kinds, DecidedJobs
<1>6. newest' \in 0..Len(history') /\ overlapped' \in BOOLEAN /\ blind' \in BOOLEAN
  <2>1. newest \in 0..Len(history) /\ overlapped \in BOOLEAN /\ blind \in BOOLEAN
    BY DEF NoteTypes
  <2>2. CASE UNCHANGED <<newest, overlapped>> /\ (blind' = blind \/ blind' = ~overlapped)
    <3>1. newest' \in 0..Len(history')
      BY <1>2, <2>1, <2>2
    <3>2. overlapped' \in BOOLEAN /\ blind' \in BOOLEAN
      BY <2>1, <2>2
    <3>3. QED
      BY <3>1, <3>2
  <2>3. ASSUME NEW j \in Jobs, NEW c \in Commits, Start(j, c) PROVE newest' \in 0..Len(history') /\ overlapped' \in BOOLEAN /\ blind' \in BOOLEAN
    BY <1>2, <2>1, <2>3 DEF Start, Commits
  <2>4. QED
    BY <2>2, <2>3 DEF Next, vars, Push, Settles, ProbeAnswered, NoProbe, ProbeFails, PostFails, PostSucceeds, AnswerLost, TagOnly
<1>7. QED
  BY <1>4, <1>5, <1>6 DEF NoteTypes

\* The newest tag of all is above all others.
LEMMA LatestOfAll ==
    ASSUME Inv, Tags # {}
    PROVE  Latest(Tags) \in Tags /\ \A w \in Tags \ {Latest(Tags)} : Less(w, Latest(Tags))
<1> DEFINE n == Len(history)
<1>1. n \in Nat /\ \A u \in Tags : tagged[u] <= n
  BY DEF Inv, TypeInv, Commits
<1>2. PICK p \in Tags : Top(p, n)
  BY <1>1 DEF Inv, Neighbours
<1>3. MergedTags(n) = Tags
  BY <1>1 DEF MergedTags
<1>4. Latest(Tags) = p
  BY <1>1, <1>2, <1>3, LatestIsTop
<1>5. \A w \in Tags \ {p} : Less(w, p)
  BY <1>1, <1>2 DEF Top, Inv, VersionsFollowHistory
<1>6. QED
  BY <1>4, <1>5

\* The tag a job cuts that knows all others is above them all.
LEMMA NewOnTop ==
    ASSUME Inv, NEW j \in Jobs, job[j].tags = Tags, Releasable(j)
    PROVE  NewTag(j) \notin Tags /\ NewTag(j) \in Versions /\ \A w \in Tags : Less(w, NewTag(j))
<1>1. Tags \subseteq Versions
  BY DEF Inv, TypeInv
<1>2. CASE Tags = {}
  BY <1>2, ReleaseAssumption DEF NewTag, NextVersion
<1>3. CASE Tags # {}
  <2> DEFINE t == Latest(Tags)
             l == BumpLevel(NewCommits(j))
  <2>1. t \in Tags /\ \A w \in Tags \ {t} : Less(w, t)
    BY <1>3, LatestOfAll
  <2>2. l \in 1..3
    <3>1. Since(Tags) \in Nat /\ job[j].head \in Nat /\ history \in Seq(Levels)
      BY <2>1 DEF Inv, TypeInv, Since, Commits
    <3>2. l = LevelOf(history, Since(Tags), job[j].head) /\ l # 0
      BY LevelIsBumpLevel DEF NewCommits, Releasable
    <3>3. QED
      BY <3>1, <3>2, LevelOfNothing
  <2>3. NewTag(j) = Up(t, l)
    BY <1>3 DEF NewTag, NextVersion, Up
  <2>4. NewTag(j) \in Versions /\ Less(t, NewTag(j))
    BY <1>1, <2>1, <2>2, <2>3, UpAbove
  <2> HIDE DEF t
  <2>5. \A w \in Tags : Less(w, NewTag(j))
    BY <1>1, <2>1, <2>4, LessOrder
  <2>6. QED
    BY <1>1, <2>4, <2>5, LessOrder
<1>4. QED
  BY <1>2, <1>3

\* What a post does to the tags: the orphan's Release leaves them alone, the
\* new tag comes with the job's end.
LEMMA PostTags ==
    ASSUME Inv, NEW j \in Jobs, Posting(j), TagCreated(j), PostSucceeds(j) \/ AnswerLost(j) \/ TagOnly(j)
    PROVE  /\ job[j].pc = "backfill" => PostTag(j) \in Tags /\ PostTag(j) = Latest(job[j].tags) /\ tagged' = tagged
           /\ job[j].pc = "create" =>
                /\ End(j) /\ Releasable(j) /\ PostTag(j) = NewTag(j)
                /\ Tags' = Tags \cup {NewTag(j)}
                /\ NewTag(j) \notin Tags => tagged'[NewTag(j)] = job[j].head
<1>1. JobInv(j) /\ job[j].tags \subseteq Tags
  BY DEF Inv, TypeInv, Posting, Running
<1>2. tagged' = [v \in Tags \cup {PostTag(j)} |-> IF v \in Tags THEN tagged[v] ELSE job[j].head]
  BY DEF TagCreated
<1>3. CASE job[j].pc = "backfill"
  <2>1. PostTag(j) \in Tags /\ PostTag(j) = Latest(job[j].tags)
    BY <1>1, <1>3 DEF PostTag, Previous, JobInv
  <2>2. tagged' = tagged
    BY <1>2, <2>1 DEF Inv, TypeInv
  <2>3. QED
    BY <1>3, <2>1, <2>2
<1>4. CASE job[j].pc = "create"
  <2>1. PostTag(j) = NewTag(j) /\ Releasable(j)
    BY <1>1, <1>4 DEF PostTag, JobInv
  <2>2. End(j)
    BY <1>4 DEF PostSucceeds, AnswerLost, TagOnly
  <2>3. Tags' = Tags \cup {PostTag(j)} /\ (PostTag(j) \notin Tags => tagged'[PostTag(j)] = job[j].head)
    BY <1>2 DEF Tags
  <2>4. QED
    BY <1>4, <2>1, <2>2, <2>3
<1>5. QED
  BY <1>3, <1>4

\* A decision starts no job.
LEMMA DecidedRuns ==
    ASSUME Inv, NEW j \in Jobs, Running(j), Decided(j), NEW k \in Jobs, Running(k)'
    PROVE  Running(k) /\ job'[k].tags = job[k].tags /\ job'[k].head = job[k].head
BY DecidedJobs DEF Running, Idle

\* jobs one by one,
LEMMA OneByOneKeeps == ASSUME Inv, NoteTypes, OneByOne, [Next]_vars PROVE OneByOne'
<1>1. SUFFICES ASSUME InOrder'
               PROVE  /\ \A v \in Tags' : tagged'[v] <= newest'
                      /\ \A k \in Jobs : Running(k)' => job'[k].head = newest' /\ job'[k].tags = Tags'
                      /\ \A k, l \in Jobs : Running(k)' /\ Running(l)' => k = l
  BY DEF OneByOne, Tags
<1>2. InOrder
  BY <1>1, Kinds DEF InOrder, Start
<1>3. /\ \A v \in Tags : tagged[v] <= newest
      /\ \A k \in Jobs : Running(k) => job[k].head = newest /\ job[k].tags = Tags
      /\ \A k, l \in Jobs : Running(k) /\ Running(l) => k = l
  BY <1>2 DEF OneByOne
<1>4. CASE UNCHANGED <<tagged, newest>> /\ job' = job
  BY <1>3, <1>4 DEF Tags, Running
<1>5. ASSUME NEW j \in Jobs, NEW c \in Commits, Start(j, c)
      PROVE  /\ \A v \in Tags' : tagged'[v] <= newest'
             /\ \A k \in Jobs : Running(k)' => job'[k].head = newest' /\ job'[k].tags = Tags'
             /\ \A k, l \in Jobs : Running(k)' /\ Running(l)' => k = l
  <2>1. ~(c < newest) /\ (\A k \in Jobs : ~Running(k)) /\ newest' = c
    BY <1>1, <1>5 DEF Start, InOrder
  <2>2. tagged' = tagged /\ Tags' = Tags
    BY <1>5 DEF Start, Tags
  <2>3. newest \in Nat /\ c \in Nat /\ \A v \in Tags : tagged[v] \in Nat
    BY DEF NoteTypes, Inv, TypeInv, Commits
  <2>4. \A v \in Tags : tagged[v] <= c
    BY <1>3, <2>1, <2>3
  <2>5. MergedTags(c) = Tags
    BY <2>4 DEF MergedTags
  <2>6. /\ job' = [job EXCEPT ![j] = [pc |-> "probe", head |-> c, tags |-> MergedTags(c)]]
        /\ \A k \in Jobs : k # j => job'[k] = job[k]
    BY <1>5 DEF Start, Inv, TypeInv
  <2>7. \A k \in Jobs : Running(k)' => k = j
    BY <2>1, <2>6 DEF Running
  <2>8. job'[j].head = c /\ job'[j].tags = Tags
    BY <2>5, <2>6 DEF Inv, TypeInv
  <2>9. QED
    BY <2>1, <2>2, <2>4, <2>7, <2>8
<1>6. ASSUME NEW j \in Jobs, Running(j), Decided(j), UNCHANGED <<tagged, newest>>
      PROVE  /\ \A v \in Tags' : tagged'[v] <= newest'
             /\ \A k \in Jobs : Running(k)' => job'[k].head = newest' /\ job'[k].tags = Tags'
             /\ \A k, l \in Jobs : Running(k)' /\ Running(l)' => k = l
  BY <1>3, <1>6, DecidedRuns DEF Tags
<1>7. ASSUME NEW j \in Jobs, Posting(j), TagCreated(j), Decided(j), UNCHANGED newest,
             PostSucceeds(j) \/ AnswerLost(j) \/ TagOnly(j)
      PROVE  /\ \A v \in Tags' : tagged'[v] <= newest'
             /\ \A k \in Jobs : Running(k)' => job'[k].head = newest' /\ job'[k].tags = Tags'
             /\ \A k, l \in Jobs : Running(k)' /\ Running(l)' => k = l
  <2>1. Running(j)
    BY <1>7 DEF Posting, Running
  <2>2. CASE job[j].pc = "backfill"
    BY <1>6, <1>7, <2>1, <2>2, PostTags
  <2>3. CASE job[j].pc = "create"
    <3>1. /\ job' = [job EXCEPT ![j] = Idle] /\ Tags' = Tags \cup {NewTag(j)}
          /\ NewTag(j) \notin Tags => tagged'[NewTag(j)] = job[j].head
      BY <1>7, <2>3, PostTags DEF End
    <3>2. \A k \in Jobs : ~Running(k)'
      BY <1>3, <2>1, <3>1, DecidedRuns, <1>7 DEF Running, Idle, Inv, TypeInv
    <3>3. TagsKept
      BY Kinds
    <3>4. newest \in Nat /\ job[j].head = newest
      BY <1>3, <2>1 DEF NoteTypes
    <3>5. \A v \in Tags' : tagged'[v] <= newest
      BY <1>3, <3>1, <3>3, <3>4 DEF TagsKept
    <3>6. QED
      BY <1>7, <3>2, <3>5
  <2>4. QED
    BY <1>7, <2>2, <2>3 DEF Posting
<1>8. QED
  BY <1>4, <1>5, <1>6, <1>7, Kinds

\* While jobs run in order, a tag that comes is above all there are.
LEMMA TagsComeOnTop ==
    ASSUME Inv, OneByOne, InOrder, [Next]_vars, NEW u \in Tags' \ Tags, NEW w \in Tags
    PROVE  Less(w, u) /\ ~Less(u, w)
<1>1. PICK j \in Jobs : Posting(j) /\ TagCreated(j) /\ (PostSucceeds(j) \/ AnswerLost(j) \/ TagOnly(j))
  BY Kinds DEF Start, Tags
<1>2. job[j].pc = "create" /\ Running(j)
  BY <1>1, PostTags DEF Posting, Running, Tags
<1>3. u = NewTag(j) /\ Releasable(j) /\ job[j].tags = Tags
  BY <1>1, <1>2, PostTags DEF OneByOne
<1>4. Less(w, u) /\ u \in Versions /\ w \in Versions
  BY <1>3, NewOnTop DEF Inv, TypeInv
<1>5. QED
  BY <1>4, LessOrder

\* A step publishes nothing, or the Release of a post.
LEMMA NotesMove ==
    ASSUME Inv, [Next]_vars
    PROVE  \/ notes' = notes
           \/ \E j \in Jobs :
                /\ ReleaseCreated(j) /\ Posting(j) /\ (PostSucceeds(j) \/ AnswerLost(j))
                /\ PostTag(j) \notin Releases /\ Releases' = Releases \cup {PostTag(j)}
                /\ notes'[PostTag(j)] = PostNotes(j)
                /\ \A v \in Releases : notes'[v] = notes[v]
<1>1. ASSUME NEW j \in Jobs, ReleaseCreated(j)
      PROVE  /\ PostTag(j) \notin Releases /\ Releases' = Releases \cup {PostTag(j)}
             /\ notes'[PostTag(j)] = PostNotes(j)
             /\ \A v \in Releases : notes'[v] = notes[v]
  BY <1>1 DEF ReleaseCreated, Releases
<1>2. ASSUME NEW j \in Jobs, PostSucceeds(j) \/ AnswerLost(j)
      PROVE  ReleaseCreated(j) /\ Posting(j)
  BY <1>2 DEF PostSucceeds, AnswerLost
<1>3. notes' = notes \/ \E j \in Jobs : PostSucceeds(j) \/ AnswerLost(j)
  BY DEF Next, vars, Push, Start, Settles, ProbeAnswered, NoProbe, ProbeFails, PostFails, TagOnly
<1>4. QED
  BY <1>1, <1>2, <1>3

\* A Release that comes lists what its own tag stands for.
LEMMA NewNotes ==
    ASSUME Inv, OneByOne, InOrder, [Next]_vars, NEW j \in Jobs, ReleaseCreated(j), Posting(j),
           PostSucceeds(j) \/ AnswerLost(j), NEW v, v = PostTag(j)
    PROVE  PostNotes(j) = LogRange(Since({w \in Tags : Less(w, v)}), tagged[v])'
<1>1. TagCreated(j) /\ history' = history /\ Running(j) /\ job[j].tags = Tags /\ Tags \subseteq Versions
  BY DEF ReleaseCreated, PostSucceeds, AnswerLost, Posting, Running, OneByOne, Inv, TypeInv
<1>2. CASE job[j].pc = "backfill"
  <2>1. v \in Tags /\ v = Latest(Tags) /\ tagged' = tagged
    BY <1>1, <1>2, PostTags
  <2>2. PostNotes(j) = LogRange(Since(Tags \ {v}), tagged[v])
    BY <1>1, <1>2, <2>1 DEF PostNotes, RecoveryNotes, Previous
  <2>3. \A w \in Tags \ {v} : Less(w, v)
    BY <2>1, LatestOfAll
  <2>4. {w \in Tags : Less(w, v)} = Tags \ {v}
    BY <1>1, <2>1, <2>3, LessOrder
  <2>5. LogRange(Since({w \in Tags : Less(w, v)}), tagged[v])' = LogRange(Since({w \in Tags : Less(w, v)}), tagged[v])
    BY <1>1, <2>1, RangeStays DEF Grows, Tags
  <2>6. QED
    BY <2>2, <2>4, <2>5
<1>3. CASE job[j].pc = "create"
  <2>1. v = NewTag(j) /\ Releasable(j) /\ Tags' = Tags \cup {v}
    BY <1>1, <1>3, PostTags
  <2>2. v \notin Tags /\ v \in Versions /\ \A w \in Tags : Less(w, v)
    BY <1>1, <2>1, NewOnTop
  <2>3. tagged'[v] = job[j].head
    BY <1>1, <1>3, <2>1, <2>2, PostTags
  <2>4. PostNotes(j) = LogRange(Since(Tags), job[j].head)
    BY <1>1, <1>3 DEF PostNotes, NewCommits
  <2>5. {w \in Tags' : Less(w, v)} = Tags
    BY <2>1, <2>2, LessOrder
  <2>6. Tags # {} => Latest(Tags) \in Tags /\ tagged'[Latest(Tags)] = tagged[Latest(Tags)]
    BY LatestOfAll, Kinds DEF TagsKept
  <2>7. (IF Tags = {} THEN 0 ELSE tagged'[Latest(Tags)]) = Since(Tags)
    BY <2>6 DEF Since
  <2>8. Since({w \in Tags : Less(w, v)})' = Since(Tags)
    BY <2>5, <2>7 DEF Since, Latest, Less
  <2>9. LogRange(Since({w \in Tags : Less(w, v)}), tagged[v])' = LogRange(Since(Tags), job[j].head)
    BY <1>1, <2>3, <2>8 DEF LogRange, Commits
  <2>10. QED
    BY <2>4, <2>9
<1>4. QED
  BY <1>2, <1>3 DEF Posting

\* notes,
LEMMA NotesKeep ==
    ASSUME Inv, NoteTypes, OneByOne, NotesCoverOwnRange, [Next]_vars PROVE NotesCoverOwnRange'
<1>1. SUFFICES ASSUME InOrder', NEW v \in Releases'
               PROVE  notes'[v] = LogRange(Since({w \in Tags : Less(w, v)}), tagged[v])'
  BY DEF NotesCoverOwnRange
<1>2. InOrder
  BY <1>1, Kinds DEF InOrder, Start
<1>3. CASE v \in Releases /\ notes'[v] = notes[v]
  <2>1. v \in Tags /\ notes[v] = LogRange(Since({w \in Tags : Less(w, v)}), tagged[v])
    BY <1>2, <1>3 DEF NoteTypes, NotesCoverOwnRange
  <2>2. \A u \in Tags' \ Tags : ~Less(u, v)
    BY <1>2, <2>1, TagsComeOnTop
  <2>3. Grows /\ \A u \in Tags : u \in Tags' /\ tagged'[u] = tagged[u]
    BY Kinds DEF TagsKept
  <2>4. LogRange(Since({w \in Tags : Less(w, v)}), tagged[v])' = LogRange(Since({w \in Tags : Less(w, v)}), tagged[v])
    BY <2>1, <2>2, <2>3, RangeStays
  <2>5. QED
    BY <1>3, <2>1, <2>4
<1>4. CASE ~(v \in Releases /\ notes'[v] = notes[v])
  <2>1. PICK j \in Jobs : /\ ReleaseCreated(j) /\ Posting(j) /\ (PostSucceeds(j) \/ AnswerLost(j))
                          /\ v = PostTag(j) /\ notes'[PostTag(j)] = PostNotes(j)
    BY <1>1, <1>4, NotesMove DEF Releases
  <2>2. QED
    BY <1>2, <2>1, NewNotes
<1>5. QED
  BY <1>3, <1>4

\* A probe that is answered and finds nothing amiss, or an orphan repaired,
\* leaves every tag with a Release.
LEMMA TopRepaired ==
    ASSUME Inv, OrphanOnTop, InOrder, ~blind, Tags # {}, NEW R, Releases \subseteq R, Latest(Tags) \in R
    PROVE  Tags \subseteq R
<1>1. Tags \subseteq Versions
  BY DEF Inv, TypeInv
<1>2. ASSUME NEW v \in Tags, v \notin R PROVE FALSE
  <2>1. v # Latest(Tags) /\ Less(v, Latest(Tags)) /\ Latest(Tags) \in Tags
    BY <1>2, LatestOfAll
  <2>2. Less(Latest(Tags), v)
    BY <1>2, <2>1 DEF OrphanOnTop
  <2>3. QED
    BY <1>1, <2>1, <2>2, LessOrder
<1>3. QED
  BY <1>2

\* and the orphan.
LEMMA OrphanKeeps ==
    ASSUME Inv, NoteTypes, OneByOne, OrphanOnTop, [Next]_vars PROVE OrphanOnTop'
<1>1. SUFFICES ASSUME InOrder', ~blind'
               PROVE  /\ \A v \in Tags' : v \in Releases' \/ \A w \in Tags' \ {v} : Less(w, v)
                      /\ \A k \in Jobs : job'[k].pc = "create" => Tags' \subseteq Releases'
  BY DEF OrphanOnTop, Less
<1>2. InOrder
  BY <1>1, Kinds DEF InOrder, Start
<1>3. ~blind
  BY <1>1, <1>2 DEF InOrder, Next, vars, Push, Start, Settles, ProbeAnswered, NoProbe, ProbeFails, PostFails,
                    PostSucceeds, AnswerLost, TagOnly
<1>4. /\ \A v \in Tags : v \in Releases \/ \A w \in Tags \ {v} : Less(w, v)
      /\ \A k \in Jobs : job[k].pc = "create" => Tags \subseteq Releases
  BY <1>2, <1>3 DEF OrphanOnTop
<1>5. Releases \subseteq Releases'
  BY NotesMove DEF Releases
<1>6. ASSUME UNCHANGED <<tagged, notes>>,
             \A k \in Jobs : job'[k].pc = "create" => job[k].pc = "create" \/ Tags \subseteq Releases
      PROVE  /\ \A v \in Tags' : v \in Releases' \/ \A w \in Tags' \ {v} : Less(w, v)
             /\ \A k \in Jobs : job'[k].pc = "create" => Tags' \subseteq Releases'
  BY <1>4, <1>6 DEF Tags, Releases
<1>7. ASSUME NEW j \in Jobs, NEW c \in Commits, Start(j, c)
      PROVE  UNCHANGED <<tagged, notes>> /\ \A k \in Jobs : job'[k].pc = "create" => job[k].pc = "create"
  BY <1>7 DEF Start, Inv, TypeInv
<1>8. ASSUME NEW j \in Jobs, Decided(j), End(j), NEW k \in Jobs, job'[k].pc = "create"
      PROVE  job[k].pc = "create"
  BY <1>8 DEF End, Idle, Inv, TypeInv
<1>9. ASSUME NEW j \in Jobs, Settles(j), Decided(j), Running(j), NEW k \in Jobs, job'[k].pc = "create"
      PROVE  job[k].pc = "create" \/ Tags \subseteq Releases
  <2>1. CASE k # j
    BY <1>9, <2>1, DecidedJobs
  <2>2. CASE k = j
    <3>1. job[j].tags = Tags
      BY <1>2, <1>9 DEF OneByOne
    <3>2. CASE NoProbe(j)
      BY <3>1, <3>2 DEF NoProbe
    <3>3. CASE ProbeAnswered(j)
      <4>1. ~Orphan(j)
        BY <1>9, <2>2, <3>3 DEF ProbeAnswered, Inv, TypeInv
      <4>2. Tags # {} /\ Latest(Tags) \in Releases
        BY <3>1, <3>3, <4>1 DEF ProbeAnswered, Orphan, Previous
      <4>3. QED
        BY <1>2, <1>3, <4>2, TopRepaired
    <3>4. CASE ProbeFails(j)
      BY <1>1, <1>2, <3>4 DEF ProbeFails, InOrder
    <3>5. QED
      BY <1>9, <3>2, <3>3, <3>4 DEF Settles
  <2>3. QED
    BY <2>1, <2>2
<1>10. ASSUME NEW j \in Jobs, Posting(j), TagCreated(j), Decided(j), PostSucceeds(j) \/ AnswerLost(j) \/ TagOnly(j)
       PROVE  /\ \A v \in Tags' : v \in Releases' \/ \A w \in Tags' \ {v} : Less(w, v)
              /\ \A k \in Jobs : job'[k].pc = "create" => Tags' \subseteq Releases'
  <2>1. job[j].tags = Tags /\ Running(j) /\ \A k \in Jobs : Running(k) => k = j
    BY <1>2, <1>10 DEF OneByOne, Posting, Running
  <2>2. CASE job[j].pc = "create"
    <3> DEFINE x == NewTag(j)
    <3>1. Tags' = Tags \cup {x} /\ End(j) /\ Releasable(j)
      BY <1>10, <2>2, PostTags
    <3>2. Tags \subseteq Releases'
      BY <1>4, <1>5, <2>2
    <3>3. \A w \in Tags : Less(w, x)
      BY <2>1, <3>1, NewOnTop
    <3>4. \A k \in Jobs : job'[k].pc # "create"
      BY <2>1, <3>1 DEF Running, End, Idle, Inv, TypeInv
    <3> HIDE DEF x
    <3>5. QED
      BY <3>1, <3>2, <3>3, <3>4
  <2>3. CASE job[j].pc = "backfill"
    <3>1. PostTag(j) = Latest(Tags) /\ Latest(Tags) \in Tags /\ tagged' = tagged
      BY <1>10, <2>1, <2>3, PostTags
    <3>2. ReleaseCreated(j)
      BY <1>10, <3>1 DEF PostSucceeds, AnswerLost, TagOnly
    <3>3. Latest(Tags) \in Releases'
      BY <3>1, <3>2 DEF ReleaseCreated, Releases
    <3>4. Tags \subseteq Releases'
      BY <1>2, <1>3, <1>5, <3>1, <3>3, TopRepaired
    <3>5. QED
      BY <3>1, <3>4 DEF Tags
  <2>4. QED
    BY <1>10, <2>2, <2>3 DEF Posting
<1>11. CASE UNCHANGED <<tagged, notes>> /\ job' = job
  BY <1>6, <1>11
<1>12. ASSUME NEW j \in Jobs, Settles(j) \/ PostFails(j), Running(j), Decided(j), UNCHANGED <<tagged, notes>>
       PROVE  /\ \A v \in Tags' : v \in Releases' \/ \A w \in Tags' \ {v} : Less(w, v)
              /\ \A k \in Jobs : job'[k].pc = "create" => Tags' \subseteq Releases'
  BY <1>6, <1>8, <1>9, <1>12 DEF PostFails
<1>13. QED
  BY <1>6, <1>7, <1>10, <1>11, <1>12, Kinds

\* Where every tag has its Release, every commit up to the newest tag's is in
\* one of them: the ranges leave no gap.
AllCovered ==
    InOrder /\ Tags \subseteq Releases =>
        \A c \in Commits : c <= Since(Tags) => c \in Published

\* Notes that cover their own ranges leave no gap.
LEMMA NoGap == Inv /\ NotesCoverOwnRange => AllCovered
<1>1. SUFFICES ASSUME Inv, NotesCoverOwnRange, InOrder, Tags \subseteq Releases, NEW c \in Commits, c <= Since(Tags)
               PROVE  c \in Published
  BY DEF AllCovered
<1>2. c \in Nat \ {0} /\ c - 1 \in Nat /\ \A u \in Tags : tagged[u] \in Nat
  BY <1>1 DEF Inv, TypeInv, Commits
<1>3. Tags # {} /\ Latest(Tags) \in Tags /\ c <= tagged[Latest(Tags)]
  BY <1>1, <1>2, LatestOfAll DEF Since
<1>4. c - 1 < tagged[Latest(Tags)]
  BY <1>2, <1>3
<1>5. PICK q \in Tags : Bottom(q, c - 1)
  BY <1>1, <1>2, <1>3, <1>4 DEF Inv, Neighbours
<1> DEFINE S == {w \in Tags : Less(w, q)}
<1>6. c <= tagged[q]
  BY <1>2, <1>5 DEF Bottom
<1>7. Since(S) < c
  <2>1. CASE S = {}
    BY <1>2, <2>1 DEF Since
  <2>2. CASE S # {}
    <3>1. Latest(S) \in Tags /\ tagged[Latest(S)] <= tagged[q] - 1
      BY <1>1, <2>2, BelowTag DEF MergedTags
    <3>2. ~(c - 1 < tagged[Latest(S)])
      BY <1>2, <1>5, <3>1 DEF Bottom
    <3>3. tagged[Latest(S)] < c
      BY <1>2, <3>1, <3>2
    <3>4. QED
      BY <2>2, <3>3 DEF Since
  <2>3. QED
    BY <2>1, <2>2
<1>8. c \in notes[q]
  BY <1>1, <1>6, <1>7 DEF NotesCoverOwnRange, LogRange
<1>9. QED
  BY <1>1, <1>8 DEF Published

\* What the notes hold, all together.
LEMMA RunInvInit == Init => RunInv
<1> SUFFICES ASSUME Init
             PROVE  RunInv
  OBVIOUS
<1>1. /\ history = << >> /\ Len(history) = 0 /\ Commits = {}
      /\ Tags = {} /\ Releases = {} /\ notes = << >>
  BY EmptySeq DEF Init, Tags, Releases, Commits
<1>2. \A j \in Jobs : job[j] = Idle /\ ~Running(j)
  BY DEF Init, Idle, Running
<1>3. notes \in [Releases -> SUBSET Commits]
  BY <1>1 DEF Init
<1>4. newest \in 0..Len(history) /\ overlapped \in BOOLEAN /\ blind \in BOOLEAN
  <2>1. newest = 0 /\ overlapped = FALSE /\ blind = FALSE
    BY DEF Init
  <2>2. newest \in 0..Len(history)
    BY <1>1, <2>1
  <2>3. QED
    BY <2>1, <2>2
<1>5. NoteTypes
  BY <1>1, <1>2, <1>3, <1>4 DEF NoteTypes, Idle
<1>6. OneByOne /\ NotesCoverOwnRange /\ OrphanOnTop
  BY <1>1, <1>2 DEF OneByOne, NotesCoverOwnRange, OrphanOnTop, Idle
<1>7. QED
  BY <1>5, <1>6 DEF RunInv

\* Both are invariants.
LEMMA RunInvariant == Spec => [](Inv /\ RunInv)
<1>1. Inv /\ RunInv /\ [Next]_vars => RunInv'
  BY NoteTypesKeep, OneByOneKeeps, NotesKeep, OrphanKeeps DEF RunInv
<1>2. QED
  BY <1>1, InitInv, NextInv, RunInvInit, PTL DEF Spec

\* The records of all jobs, tags and notes are sound whatever the jobs do; and
\* while they run in order, each Release, backfilled or not, lists exactly the
\* commits after the tag below its own, up to its own: no commit is listed twice.
THEOREM NotesTileHistory == Spec => []Ordered
<1>1. Inv /\ RunInv => Ordered
  <2>1. SUFFICES ASSUME Inv, RunInv PROVE TypeOK /\ NotesCoverOwnRange
    BY DEF Ordered
  <2>2. /\ history \in Seq(Levels)
        /\ Tags \subseteq Versions /\ tagged \in [Tags -> Commits]
        /\ Releases \subseteq Tags /\ notes \in [Releases -> SUBSET Commits]
    BY <2>1 DEF Inv, TypeInv, RunInv, NoteTypes
  <2>3. newest \in 0..Len(history) /\ overlapped \in BOOLEAN /\ blind \in BOOLEAN
    BY <2>1 DEF RunInv, NoteTypes
  <2>4. DOMAIN job = Jobs
    BY <2>1 DEF Inv, TypeInv
  <2>5. ASSUME NEW j \in Jobs
        PROVE  /\ job[j].pc \in {"idle", "probe", "backfill", "create"}
               /\ job[j].head \in 0..Len(history)
               /\ job[j].tags \subseteq MergedTags(job[j].head)
               /\ job[j].pc = "backfill" => job[j].tags # {}
               /\ job[j].pc = "create" => Releasable(j)
    <3>1. job[j].pc \in {"idle", "probe", "backfill", "create"} /\ job[j].head \in 0..Len(history)
      BY <2>1 DEF Inv, TypeInv
    <3>2. job[j].tags \subseteq MergedTags(job[j].head)
      BY <2>1 DEF RunInv, NoteTypes
    <3>3. Running(j) => JobInv(j)
      BY <2>1 DEF Inv
    <3>4. QED
      BY <3>1, <3>2, <3>3 DEF Running, JobInv
  <2>6. TypeOK
    BY <2>2, <2>3, <2>4, <2>5 DEF TypeOK
  <2>7. QED
    BY <2>1, <2>6 DEF RunInv
<1>2. QED
  BY <1>1, RunInvariant, PTL

\* Nothing of a range that calls for no release is releasable.
LEMMA NothingNew ==
    ASSUME Inv, NEW j \in Jobs, ~Releasable(j), job[j].tags = Tags,
           NEW c \in 1..job[j].head, ~(c <= Since(Tags))
    PROVE  history[c] = 0
<1> DEFINE a == Since(Tags)
           b == job[j].head
<1>1. a \in Nat /\ b \in Nat /\ b <= Len(history) /\ history \in Seq(Levels)
  BY LatestOfAll DEF Inv, TypeInv, Since, Commits
<1>2. LevelOf(history, a, b) = 0
  BY LevelIsBumpLevel DEF NewCommits, Releasable
<1> HIDE DEF a, b
<1>3. IsLevel(0, history, a, b)
  BY <1>1, <1>2, LevelHighest
<1>4. c \in RangeOf(history, a, b) /\ history[c] \in Levels
  BY <1>1 DEF RangeOf, a, b
<1>5. history[c] <= 0
  BY <1>3, <1>4 DEF IsLevel
<1>6. QED
  BY <1>4, <1>5 DEF Levels

\* What a job that ends well has published.
OkStep ==
    \A j \in Jobs : InOrder /\ ~blind' /\ Ends(j) /\ (Settles(j) \/ PostSucceeds(j)) =>
        \A c \in 1..job[j].head : history[c] = 0 \/ c \in Published'

\* It has, at every step.
LEMMA OkStepHolds ==
    ASSUME Inv, RunInv, [Next]_vars, AllCovered, AllCovered' PROVE OkStep
<1>1. SUFFICES ASSUME NEW j \in Jobs, InOrder, ~blind', Ends(j), Settles(j) \/ PostSucceeds(j),
                      NEW c \in 1..job[j].head, history[c] # 0
               PROVE  c \in Published'
  BY DEF OkStep
<1>2. Running(j) /\ job[j].tags = Tags /\ job[j].head \in 0..Len(history) /\ job'[j].pc = "idle"
  BY <1>1 DEF Ends, RunInv, OneByOne, Inv, TypeInv
<1>3. c \in Commits
  BY <1>2 DEF Commits, Inv, TypeInv
<1>4. Proceed(j) => ~Releasable(j)
  BY <1>2 DEF Proceed, Inv, TypeInv
<1>5. Published \subseteq Published'
  BY NotesMove DEF Published, Releases
<1>6. CASE Settles(j)
  <2>1. Tags \subseteq Releases
    <3>1. CASE NoProbe(j)
      BY <1>2, <3>1 DEF NoProbe
    <3>2. CASE ProbeAnswered(j)
      <4>1. ~Orphan(j) /\ Tags # {} /\ ~blind
        BY <1>1, <1>2, <3>2 DEF ProbeAnswered, Inv, TypeInv
      <4>2. Latest(Tags) \in Releases
        BY <1>2, <4>1 DEF Orphan, Previous
      <4>3. QED
        BY <1>1, <4>1, <4>2, TopRepaired DEF RunInv
    <3>3. CASE ProbeFails(j)
      BY <1>1, <3>3 DEF ProbeFails, InOrder
    <3>4. QED
      BY <1>6, <3>1, <3>2, <3>3 DEF Settles
  <2>2. c <= Since(Tags) => c \in Published
    BY <1>1, <1>3, <2>1 DEF AllCovered
  <2>3. ~Releasable(j)
    <3>1. CASE ProbeAnswered(j)
      BY <1>2, <1>4, <3>1 DEF ProbeAnswered, Inv, TypeInv
    <3>2. QED
      BY <1>4, <1>6, <3>1 DEF Settles, NoProbe, ProbeFails
  <2>4. QED
    BY <1>1, <1>2, <1>5, <2>2, <2>3, NothingNew
<1>7. CASE PostSucceeds(j)
  <2>1. /\ Posting(j) /\ TagCreated(j) /\ ReleaseCreated(j) /\ ~blind
        /\ Releases' = Releases \cup {PostTag(j)} /\ notes'[PostTag(j)] = PostNotes(j)
        /\ UNCHANGED <<history, overlapped>>
    BY <1>1, <1>7 DEF PostSucceeds, ReleaseCreated, Releases
  <2>2. CASE job[j].pc = "backfill"
    <3>1. PostTag(j) = Latest(Tags) /\ tagged' = tagged /\ Tags # {}
      BY <1>2, <1>7, <2>1, <2>2, PostTags
    <3>2. Tags \subseteq Releases'
      BY <1>1, <2>1, <3>1, TopRepaired DEF RunInv
    <3>3. Since(Tags)' = Since(Tags) /\ Commits' = Commits /\ InOrder'
      BY <1>1, <2>1, <3>1 DEF Since, Tags, Latest, Less, Commits, InOrder
    <3>4. c <= Since(Tags) => c \in Published'
      BY <1>3, <3>1, <3>2, <3>3 DEF AllCovered, Tags
    <3>5. ~Releasable(j)
      BY <1>4, <1>7, <2>2 DEF PostSucceeds
    <3>6. QED
      BY <1>1, <1>2, <3>4, <3>5, NothingNew
  <2>3. CASE job[j].pc = "create"
    <3>1. Tags \subseteq Releases
      BY <1>1, <2>1, <2>3 DEF RunInv, OrphanOnTop
    <3>2. c <= Since(Tags) => c \in Published
      BY <1>1, <1>3, <3>1 DEF AllCovered
    <3>3. ~(c <= Since(Tags)) => c \in PostNotes(j)
      <4>1. Since(Tags) \in Nat /\ c \in Nat /\ c <= job[j].head
        BY <1>2, LatestOfAll DEF Inv, TypeInv, Since, Commits
      <4>2. PostNotes(j) = LogRange(Since(Tags), job[j].head)
        BY <1>2, <2>3 DEF PostNotes, NewCommits
      <4>3. QED
        BY <1>3, <4>1, <4>2 DEF LogRange
    <3>4. PostNotes(j) \subseteq Published'
      BY <2>1 DEF Published
    <3>5. QED
      BY <1>5, <3>2, <3>3, <3>4
  <2>4. QED
    BY <2>1, <2>2, <2>3 DEF Posting
<1>8. QED
  BY <1>1, <1>6, <1>7

\* While jobs run in order and no probe has failed, a run that ends ok leaves
\* every releasable commit up to its own in the notes of some Release, whatever
\* calls failed, half happened or lost their answer in the runs before.
THEOREM OkRunsPublish == Spec => OkMeansPublished
<1>1. Inv /\ RunInv => AllCovered
  BY NoGap DEF RunInv
<1>2. Inv /\ RunInv /\ AllCovered /\ AllCovered' /\ [Next]_vars => [OkStep]_vars
  BY OkStepHolds
<1>3. Spec => [][OkStep]_vars
  BY <1>1, <1>2, RunInvariant, PTL DEF Spec
<1>4. QED
  BY <1>3 DEF OkMeansPublished, OkStep
=============================================================================
