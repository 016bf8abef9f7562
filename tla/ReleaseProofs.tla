--------------------------- MODULE ReleaseProofs ---------------------------
(***************************************************************************)
(* The release policy: that a tag and what is published from it are built  *)
(* from the commit they name, and that from each tag to the next the       *)
(* version goes up by exactly what the commits between them require; for   *)
(* every history of main and every order of the runs.                      *)
(***************************************************************************)
EXTENDS Release, Facts

Triples == Nat \X Nat \X Nat
AllKinds == {"docs", "fix", "feat", "breaking"}
Commits == [kind : AllKinds, version : Triples, section : BOOLEAN]
Jobs == {"released", "plan", "tag", "push", "publish", "over"}

\* Every variable has its type.
ReleaseTypeOK ==
  /\ main \in Seq(Commits) /\ main # <<>>
  /\ head \in Seq(Commits) /\ Len(head) <= 1
  /\ job \in Seq(Jobs) /\ Len(job) = Len(main)
  /\ tags \in SUBSET DOMAIN main /\ created \in SUBSET tags
  /\ pypi \in SUBSET DOMAIN main /\ passed \in SUBSET DOMAIN main
  /\ byHand \in SUBSET DOMAIN main

\* Why Provenance is inductive: a job gets past the plan only with a section, CI and the
\* build behind it, and says created=true only then.
Planned ==
  /\ \A n \in DOMAIN main :
       job[n] \in {"tag", "push"} => HasSection(main[n]) /\ n \in passed
  /\ created \subseteq passed

-----------------------------------------------------------------------------
(* Versions and what a set of commits requires.                            *)

Highest(K) == Max({Rank[k] : k \in K})

\* The greatest rank among some commits.
LEMMA HighestRank ==
  ASSUME NEW K \in SUBSET AllKinds, K # {}
  PROVE  /\ Highest(K) \in 0 .. 3
         /\ \A k \in K : Rank[k] <= Highest(K)
         /\ \E k \in K : Rank[k] = Highest(K)
<1> DEFINE R == {Rank[k] : k \in K}
<1>1. R \in SUBSET (0 .. 3) /\ R # {}
  <2>1. \A k \in AllKinds : Rank[k] \in 0 .. 3
    BY DEF Rank, AllKinds
  <2> QED BY <2>1
<1>2. Max(R) \in R /\ \A r \in R : r <= Max(R)
  <2>1. R \in SUBSET Nat /\ \A r \in R : r <= 3
    BY <1>1
  <2> HIDE DEF R
  <2>2. \E n \in R : \A m \in R : m <= n
    BY <1>1, <2>1, GreatestNumber
  <2> QED BY <2>1, <2>2 DEF Max
<1>3. Highest(K) = Max(R)
  BY DEF Highest
<1> QED BY <1>1, <1>2, <1>3

LEMMA HighestOfBoth ==
  ASSUME NEW K \in SUBSET AllKinds, K # {}, NEW M \in SUBSET AllKinds, M # {}
  PROVE  Highest(K \cup M) = IF Highest(K) < Highest(M) THEN Highest(M) ELSE Highest(K)
<1>1. /\ Highest(K) \in 0 .. 3 /\ \A k \in K : Rank[k] <= Highest(K)
      /\ \E k \in K : Rank[k] = Highest(K)
  BY HighestRank
<1>2. /\ Highest(M) \in 0 .. 3 /\ \A k \in M : Rank[k] <= Highest(M)
      /\ \E k \in M : Rank[k] = Highest(M)
  BY HighestRank
<1>3. /\ Highest(K \cup M) \in 0 .. 3 /\ \A k \in K \cup M : Rank[k] <= Highest(K \cup M)
      /\ \E k \in K \cup M : Rank[k] = Highest(K \cup M)
  BY HighestRank
<1> QED BY <1>1, <1>2, <1>3

LEMMA BumpRange ==
  ASSUME NEW K \in SUBSET AllKinds, K # {}, NEW v
  PROVE  /\ Bump(K, v) = IF v[1] = 0 /\ Highest(K) = 3 THEN 2 ELSE Highest(K)
         /\ Bump(K, v) \in 0 .. 3
<1>1. Bump(K, v) = IF v[1] = 0 /\ Highest(K) = 3 THEN 2 ELSE Highest(K)
  BY DEF Bump, Highest
<1> QED BY <1>1, HighestRank

LEMMA NextIsVersion ==
  ASSUME NEW v \in Triples, NEW r \in 0 .. 3
  PROVE  NextVersion(v, r) \in Triples
BY DEF Triples, NextVersion

\* A version goes up, and not at all only if nothing is required.
LEMMA NextIsHigher ==
  ASSUME NEW v \in Triples, NEW r \in 0 .. 3, NextVersion(v, r) # v
  PROVE  Less(v, NextVersion(v, r))
BY DEF Triples, NextVersion, Less

LEMMA LessOrder ==
  ASSUME NEW u \in Triples, NEW v \in Triples, NEW w \in Triples, Less(u, v)
  PROVE  /\ Less(v, w) => Less(u, w)
         /\ u # v /\ ~ Less(v, u)
BY DEF Triples, Less

\* A smaller bump on the way to a greater one does not show.
LEMMA NextOfNext ==
  ASSUME NEW v \in Triples, NEW a \in 0 .. 2, NEW b \in 0 .. 3, a < b
  PROVE  NextVersion(NextVersion(v, a), b) = NextVersion(v, b)
         /\ NextVersion(v, a)[1] = v[1]
BY DEF Triples, NextVersion

\* With more commits the next version is the same or, seen from it, the next one.
LEMMA Rebase ==
  ASSUME NEW v \in Triples, NEW K \in SUBSET AllKinds, K # {}, NEW M \in SUBSET AllKinds, M # {},
         NEW w, w = NextVersion(v, Bump(K, v))
  PROVE  NextVersion(v, Bump(K \cup M, v)) \in {w, NextVersion(w, Bump(M, w))}
<1> DEFINE a == Bump(K, v)
           b == Bump(K \cup M, v)
<1>1. a \in 0 .. 3 /\ a = IF v[1] = 0 /\ Highest(K) = 3 THEN 2 ELSE Highest(K)
  BY BumpRange
<1>2. b \in 0 .. 3 /\ b = IF v[1] = 0 /\ Highest(K \cup M) = 3 THEN 2 ELSE Highest(K \cup M)
  BY BumpRange
<1>3. Bump(M, w) = IF w[1] = 0 /\ Highest(M) = 3 THEN 2 ELSE Highest(M)
  BY BumpRange
<1>4. Highest(K) \in 0 .. 3 /\ Highest(M) \in 0 .. 3
  BY HighestRank
<1>5. Highest(K \cup M) = IF Highest(K) < Highest(M) THEN Highest(M) ELSE Highest(K)
  BY HighestOfBoth
<1> HIDE DEF a, b
<1>6. a = b \/ (a < b /\ b = IF v[1] = 0 /\ Highest(M) = 3 THEN 2 ELSE Highest(M))
  BY <1>1, <1>2, <1>4, <1>5
<1>7. CASE a = b
  BY <1>7 DEF a, b
<1>8. CASE a < b /\ b = IF v[1] = 0 /\ Highest(M) = 3 THEN 2 ELSE Highest(M)
  <2>1. a \in 0 .. 2
    BY <1>1, <1>2, <1>8
  <2>2. NextVersion(w, b) = NextVersion(v, b) /\ w[1] = v[1]
    BY <1>2, <1>8, <2>1, NextOfNext DEF a
  <2>3. Bump(M, w) = b
    BY <1>3, <1>8, <2>2
  <2> QED BY <2>2, <2>3 DEF b
<1> QED BY <1>6, <1>7, <1>8

-----------------------------------------------------------------------------
(* Merging moves a commit from the pull request to main: the history that  *)
(* has been checked is full, and only a new pull request changes it.       *)

full == main \o head
Declared(n) == full[n].version
KindsIn(f, j, n) == {f[i].kind : i \in j + 1 .. n}

FullShape ==
  /\ Len(main) \in Nat /\ Len(main) >= 1 /\ Len(head) \in {0, 1}
  /\ full \in Seq(Commits) /\ Len(full) = Len(main) + Len(head)
  /\ DOMAIN full = 1 .. Len(main) + Len(head)
  /\ DOMAIN main = 1 .. Len(main) /\ DOMAIN job = 1 .. Len(main)
  /\ \A i \in 1 .. Len(main) : full[i] = main[i] /\ main[i] \in Commits
  /\ \A i \in 1 .. Len(full) : full[i] \in Commits
  /\ head # <<>> => full[Len(main) + 1] = head[1]

LEMMA FullPositions == ReleaseTypeOK => FullShape
<1> SUFFICES ASSUME ReleaseTypeOK PROVE FullShape
  OBVIOUS
<1>1. main \in Seq(Commits) /\ head \in Seq(Commits) /\ main # <<>> /\ Len(head) <= 1
      /\ job \in Seq(Jobs) /\ Len(job) = Len(main)
  BY DEF ReleaseTypeOK
<1>2. Len(main) \in Nat /\ Len(main) >= 1 /\ Len(head) \in {0, 1}
      /\ DOMAIN main = 1 .. Len(main) /\ DOMAIN job = 1 .. Len(main)
  <2>1. Len(main) \in Nat /\ Len(head) \in Nat /\ Len(main) # 0
    BY <1>1
  <2>2. DOMAIN main = 1 .. Len(main) /\ DOMAIN job = 1 .. Len(job)
    BY <1>1
  <2>3. Len(main) >= 1
    BY <2>1
  <2>4. Len(head) = 0 \/ Len(head) = 1
    <3>1. \A a \in Nat : a <= 1 => a = 0 \/ a = 1
      OBVIOUS
    <3> QED BY <1>1, <2>1, <3>1
  <2> QED BY <1>1, <2>1, <2>2, <2>3, <2>4
<1>3. full \in Seq(Commits) /\ Len(full) = Len(main) + Len(head)
  BY <1>1 DEF full
<1>4. DOMAIN full = 1 .. Len(main) + Len(head) /\ \A i \in 1 .. Len(full) : full[i] \in Commits
  BY <1>3
<1>5. \A i \in 1 .. Len(main) : full[i] = main[i] /\ main[i] \in Commits
  BY <1>1 DEF full
<1>6. head # <<>> => full[Len(main) + 1] = head[1]
  BY <1>1, <1>2 DEF full
<1> QED BY <1>2, <1>3, <1>4, <1>5, <1>6 DEF FullShape

LEMMA FullPositionsNext == ReleaseTypeOK' => FullShape'
BY FullPositions, PTL

USE DEF FullShape

\* Where the highest version is tagged, if the tags rise.
Rising == \A k, n \in tags : k < n => Less(Version(k), Version(n))

LEMMA LatestIsLast ==
  ASSUME ReleaseTypeOK, Rising, tags # {}
  PROVE  Latest \in tags /\ \A k \in tags : k <= Latest
<1>1. tags \in SUBSET Nat /\ Len(main) \in Nat /\ (\A n \in tags : n <= Len(main))
      /\ \A n \in tags : Version(n) \in Triples
  BY FullPositions DEF ReleaseTypeOK, Version, Commits
<1>2. PICK m \in tags : \A k \in tags : k <= m
  BY <1>1, GreatestNumber
<1>3. \A k \in tags : k # m => Less(Version(k), Version(m))
  BY <1>1, <1>2 DEF Rising
<1>4. \A k \in tags : ~ Less(Version(m), Version(k))
  <2>1. ASSUME NEW k \in tags PROVE ~ Less(Version(m), Version(k))
    <3>1. CASE k = m
      <4>1. ~ Less(Version(m), Version(m))
        BY <1>1 DEF Less, Triples
      <4> QED BY <3>1, <4>1
    <3>2. CASE k # m
      BY <1>1, <1>3, <3>2, LessOrder
    <3> QED BY <3>1, <3>2
  <2> QED BY <2>1
<1>5. Latest \in tags /\ \A k \in tags : ~ Less(Version(Latest), Version(k))
  BY <1>2, <1>4 DEF Latest
<1>6. Latest = m
  BY <1>2, <1>3, <1>5
<1> QED BY <1>2, <1>6

-----------------------------------------------------------------------------
(* Types.                                                                  *)

LEMMA InitTyped == Init => ReleaseTypeOK
<1> SUFFICES ASSUME Init PROVE ReleaseTypeOK
  OBVIOUS
<1>1. PICK v \in Firsts, s \in BOOLEAN : main = <<[kind |-> "docs", version |-> v, section |-> s]>>
  BY DEF Init
<1>2. [kind |-> "docs", version |-> v, section |-> s] \in Commits
  BY <1>1, ReleaseAssumption DEF Commits, AllKinds, Triples
<1>3. main \in Seq(Commits) /\ Len(main) = 1 /\ DOMAIN main = {1} /\ main # <<>>
  BY <1>1, <1>2
<1>4. head = <<>> /\ head \in Seq(Commits) /\ Len(head) = 0
  BY DEF Init
<1>5. job \in Seq(Jobs) /\ Len(job) = 1
  <2>1. job \in {<<"released">>, <<"plan">>}
    BY DEF Init
  <2>2. "released" \in Jobs /\ "plan" \in Jobs
    BY DEF Jobs
  <2> QED BY <2>1, <2>2
<1> QED BY <1>3, <1>4, <1>5 DEF Init, ReleaseTypeOK

\* What the policy expects of a pull request is a version.
LEMMA ExpectedIsVersion ==
  ASSUME ReleaseTypeOK, Rising, NEW k \in AllKinds
  PROVE  /\ Expected(k) \in Triples
         /\ tags # {} => Since(Latest, k) \in SUBSET AllKinds /\ Since(Latest, k) # {}
<1>1. \A i \in 1 .. Len(main) : main[i].version \in Triples /\ main[i].kind \in AllKinds
  BY FullPositions DEF Commits
<1>2. CASE tags = {}
  <2>1. Len(main) \in 1 .. Len(main)
    BY FullPositions
  <2> QED BY <1>1, <1>2, <2>1 DEF Expected, Version
<1>3. CASE tags # {}
  <2>1. Latest \in 1 .. Len(main)
    BY <1>3, LatestIsLast, FullPositions DEF ReleaseTypeOK
  <2>2. Version(Latest) \in Triples
    BY <1>1, <2>1 DEF Version
  <2>3. Since(Latest, k) \in SUBSET AllKinds /\ Since(Latest, k) # {}
    <3>1. \A i \in Latest + 1 .. Len(main) : i \in 1 .. Len(main)
      BY <2>1, FullPositions
    <3> QED BY <1>1, <3>1 DEF Since
  <2>4. Bump(Since(Latest, k), Version(Latest)) \in 0 .. 3
    BY <2>3, BumpRange
  <2>5. NextVersion(Version(Latest), Bump(Since(Latest, k), Version(Latest))) \in Triples
    BY <2>2, <2>4, NextIsVersion
  <2> QED BY <1>3, <2>3, <2>5 DEF Expected
<1> QED BY <1>2, <1>3

LEMMA TypeKept ==
  ASSUME ReleaseTypeOK, Rising, [Next]_vars
  PROVE  ReleaseTypeOK'
<1>1. /\ main \in Seq(Commits) /\ main # <<>> /\ head \in Seq(Commits) /\ Len(head) <= 1
      /\ job \in Seq(Jobs) /\ Len(job) = Len(main)
      /\ tags \in SUBSET DOMAIN main /\ created \in SUBSET tags
      /\ pypi \in SUBSET DOMAIN main /\ passed \in SUBSET DOMAIN main
      /\ byHand \in SUBSET DOMAIN main
  BY DEF ReleaseTypeOK
<1>2. CASE VersionCheck
  <2>1. PICK k \in Kinds, s \in BOOLEAN :
          head' = <<[kind |-> k, version |-> Expected(k), section |-> s]>>
    BY <1>2 DEF VersionCheck
  <2>2. [kind |-> k, version |-> Expected(k), section |-> s] \in Commits
    BY ReleaseAssumption, ExpectedIsVersion DEF Commits, AllKinds
  <2>3. head' \in Seq(Commits) /\ Len(head') = 1
    BY <2>1, <2>2
  <2>4. UNCHANGED <<main, tags, job, created, pypi, passed, byHand>>
    BY <1>2 DEF VersionCheck
  <2> QED BY <1>1, <2>3, <2>4 DEF ReleaseTypeOK
<1>3. CASE Merge
  <2>1. /\ main' = main \o head /\ head # <<>> /\ head' = <<>> /\ job' = Append(job, "plan")
        /\ UNCHANGED <<tags, created, pypi, passed, byHand>>
    BY <1>3 DEF Merge
  <2>2. full' = full
    BY <1>1, <2>1 DEF full
  <2>3. main' = full /\ Len(head) = 1
    BY <1>1, <2>1, FullPositions DEF full
  <2>4. main' \in Seq(Commits) /\ main' # <<>> /\ Len(main') = Len(main) + 1
        /\ DOMAIN main \subseteq DOMAIN main'
    BY <2>3, FullPositions
  <2>5. job' \in Seq(Jobs) /\ Len(job') = Len(main) + 1
    BY <1>1, <2>1 DEF Jobs
  <2>6. head' \in Seq(Commits) /\ Len(head') = 0
    BY <2>1
  <2> QED BY <1>1, <2>1, <2>4, <2>5, <2>6 DEF ReleaseTypeOK
<1>4. ASSUME NEW n \in DOMAIN main,
             \/ Plan(n) \/ Look(n) \/ PushTag(n) \/ PushRefused(n) \/ Publish(n)
             \/ PushByHand(n) \/ Dispatch(n)
      PROVE  ReleaseTypeOK'
  <2>1. UNCHANGED <<main, head>>
    BY <1>4 DEF Plan, Look, PushTag, PushRefused, Publish, PushByHand, Dispatch
  <2>2. job' = job \/ \E to \in Jobs : job' = [job EXCEPT ![n] = to]
    BY <1>4 DEF Plan, Look, PushTag, PushRefused, Publish, PushByHand, Dispatch, Goes, Jobs
  <2>3. job' \in Seq(Jobs) /\ Len(job') = Len(job)
    BY <1>1, <2>2
  <2>4. /\ tags' \in SUBSET DOMAIN main /\ created' \in SUBSET tags'
        /\ pypi' \in SUBSET DOMAIN main /\ passed' \in SUBSET DOMAIN main
        /\ byHand' \in SUBSET DOMAIN main
    BY <1>1, <1>4 DEF Plan, Look, PushTag, PushRefused, Publish, PushByHand, Dispatch, Upload
  <2> QED BY <1>1, <2>1, <2>3, <2>4 DEF ReleaseTypeOK
<1>5. CASE UNCHANGED vars
  BY <1>1, <1>5 DEF ReleaseTypeOK, vars
<1> QED BY <1>2, <1>3, <1>4, <1>5 DEF Next

-----------------------------------------------------------------------------
(* What a tag names and what is published.                                 *)

LEMMA ProvenanceKept ==
  ASSUME ReleaseTypeOK, Planned, Provenance, [Next]_vars
  PROVE  Planned' /\ Provenance'
<1>1. /\ tags \in SUBSET DOMAIN main /\ created \in SUBSET tags
      /\ DOMAIN main = 1 .. Len(main) /\ DOMAIN job = DOMAIN main /\ Len(main) \in Nat
  BY FullPositions DEF ReleaseTypeOK
<1>2. CASE VersionCheck
  BY <1>2 DEF VersionCheck, Planned, Provenance, Version
<1>3. CASE Merge
  <2>1. /\ main' = main \o head /\ head # <<>> /\ job' = Append(job, "plan")
        /\ UNCHANGED <<tags, created, pypi, passed, byHand>>
    BY <1>3 DEF Merge
  <2>2. /\ \A n \in DOMAIN main : main'[n] = main[n] /\ job'[n] = job[n]
        /\ \A n \in DOMAIN main' : n \in DOMAIN main \/ job'[n] = "plan"
    <3>1. main' = full /\ DOMAIN main' = 1 .. Len(main) + 1
      BY <2>1, FullPositions DEF full, ReleaseTypeOK
    <3>2. \A n \in DOMAIN main : main'[n] = main[n]
      BY <1>1, <3>1, FullPositions
    <3>3. job \in Seq(Jobs) /\ Len(job) = Len(main)
      BY DEF ReleaseTypeOK
    <3>4. (\A n \in 1 .. Len(main) : job'[n] = job[n]) /\ job'[Len(main) + 1] = "plan"
      BY <2>1, <3>3
    <3>5. \A n \in 1 .. Len(main) + 1 : n \in 1 .. Len(main) \/ n = Len(main) + 1
      BY <1>1
    <3> QED BY <1>1, <3>1, <3>2, <3>4, <3>5
  <2>3. Planned'
    BY <2>1, <2>2 DEF Planned, HasSection
  <2>4. Provenance'
    BY <1>1, <2>1, <2>2 DEF Provenance, Version, HasSection
  <2> QED BY <2>3, <2>4
<1>4. ASSUME NEW n \in DOMAIN main,
             \/ Plan(n) \/ Look(n) \/ PushTag(n) \/ PushRefused(n) \/ Publish(n)
             \/ PushByHand(n) \/ Dispatch(n)
      PROVE  Planned' /\ Provenance'
  <2>1. main' = main /\ \A k \in DOMAIN main : k # n => job'[k] = job[k]
    BY <1>1, <1>4 DEF Plan, Look, PushTag, PushRefused, Publish, PushByHand, Dispatch, Goes
  <2>2. passed \subseteq passed'
    BY <1>4 DEF Plan, Look, PushTag, PushRefused, Publish, PushByHand, Dispatch
  <2>3. job'[n] \in {"tag", "push"} => HasSection(main[n]) /\ n \in passed'
    BY <1>1, <1>4 DEF Plan, Look, PushTag, PushRefused, Publish, PushByHand, Dispatch, Goes, Planned
  <2>4. Planned'
    <3>1. created' \subseteq created \cup {n} /\ (created' # created => job[n] = "push")
      BY <1>4 DEF Plan, Look, PushTag, PushRefused, Publish, PushByHand, Dispatch, Goes
    <3>2. created' \subseteq passed'
      BY <2>2, <3>1 DEF Planned
    <3> QED BY <2>1, <2>2, <2>3, <3>2 DEF Planned, HasSection
  <2>5. CASE PushTag(n) \/ PushByHand(n)
    <3>1. /\ ~ Tagged(n) /\ tags' = tags \cup {n} /\ UNCHANGED <<pypi, passed>>
          /\ HasSection(main[n]) /\ byHand \subseteq byHand' /\ n \in passed \cup byHand'
      BY <2>5 DEF PushTag, PushByHand, Goes, Planned
    <3> QED BY <2>1, <2>4, <3>1 DEF Provenance, Tagged, Version, HasSection
  <2>6. CASE ~ (PushTag(n) \/ PushByHand(n))
    <3>1. tags' = tags /\ byHand' = byHand
      BY <1>4, <2>6 DEF Plan, Look, PushRefused, Publish, Dispatch
    <3>2. pypi' \subseteq pypi \cup (tags \cap passed')
      BY <1>1, <1>4, <2>6
      DEF Plan, Look, PushRefused, Publish, Dispatch, Upload, MayPublish, Planned
    <3> QED BY <2>1, <2>2, <2>4, <3>1, <3>2 DEF Provenance, Version, HasSection
  <2> QED BY <2>5, <2>6
<1>5. CASE UNCHANGED vars
  BY <1>5 DEF vars, Planned, Provenance, Version
<1> QED BY <1>2, <1>3, <1>4, <1>5 DEF Next

-----------------------------------------------------------------------------
(* Why SemVer is inductive.                                                *)

\* Position n declares the next version, seen from position j.
Follows(n, j) ==
  Declared(n) = NextVersion(Declared(j), Bump(KindsIn(full, j, n), Declared(j)))

\* Another tag has the version of position j, so it can never be tagged.
Shadowed(j) == \E k \in tags : k # j /\ Version(k) = Declared(j)
NoTagBetween(j, n) == \A t \in tags : ~ (j < t /\ t < n)

\* Seen from a position that has or may get a tag, every later one has its version or the
\* next one, as far as there is no tag between.
Stepwise == \A n \in DOMAIN full : \A j \in 1 .. n - 1 :
  NoTagBetween(j, n) /\ ~ Shadowed(j) => Declared(n) = Declared(j) \/ Follows(n, j)

\* Without a tag before it, a position has the version that main began with.
Rooted == \A n \in DOMAIN full : Declared(n) = Declared(1) \/ \E t \in tags : t < n

\* The commits up to n are those up to j and those behind j.
LEMMA KindsSplit ==
  ASSUME NEW f, NEW b \in Nat, \A i \in 1 .. b : f[i] \in Commits,
         NEW l \in Nat, NEW j \in Nat, NEW n \in Nat, l < j, j < n, n <= b
  PROVE  /\ KindsIn(f, l, n) = KindsIn(f, l, j) \cup KindsIn(f, j, n)
         /\ KindsIn(f, l, j) \in SUBSET AllKinds /\ KindsIn(f, l, j) # {}
         /\ KindsIn(f, j, n) \in SUBSET AllKinds /\ KindsIn(f, j, n) # {}
<1>1. \A i \in l + 1 .. n : i \in l + 1 .. j \/ i \in j + 1 .. n
  OBVIOUS
<1>2. /\ \A i \in l + 1 .. j : i \in l + 1 .. n /\ i \in 1 .. b
      /\ \A i \in j + 1 .. n : i \in l + 1 .. n /\ i \in 1 .. b
      /\ j \in l + 1 .. j /\ n \in j + 1 .. n
  OBVIOUS
<1>3. \A i \in 1 .. b : f[i].kind \in AllKinds
  BY DEF Commits
<1>4. KindsIn(f, l, n) = KindsIn(f, l, j) \cup KindsIn(f, j, n)
  BY <1>1, <1>2 DEF KindsIn
<1>5. /\ KindsIn(f, l, j) \in SUBSET AllKinds /\ KindsIn(f, l, j) # {}
      /\ KindsIn(f, j, n) \in SUBSET AllKinds /\ KindsIn(f, j, n) # {}
  BY <1>2, <1>3 DEF KindsIn
<1> QED BY <1>4, <1>5

LEMMA KindsBetween ==
  ASSUME ReleaseTypeOK, NEW n \in DOMAIN full, NEW j \in 1 .. n - 1
  PROVE  /\ KindsIn(full, j, n) \in SUBSET AllKinds /\ KindsIn(full, j, n) # {}
         /\ Declared(j) \in Triples /\ Declared(n) \in Triples
<1>1. /\ n \in Nat /\ j \in Nat /\ n \in 1 .. Len(full) /\ j \in 1 .. Len(full)
      /\ \A i \in j + 1 .. n : i \in 1 .. Len(full)
      /\ n \in j + 1 .. n
  BY FullPositions
<1>2. \A i \in 1 .. Len(full) : full[i].kind \in AllKinds /\ full[i].version \in Triples
  BY FullPositions DEF Commits
<1>3. KindsIn(full, j, n) \in SUBSET AllKinds /\ KindsIn(full, j, n) # {}
  BY <1>1, <1>2 DEF KindsIn
<1> QED BY <1>1, <1>2, <1>3 DEF Declared

\* A tag is shadowed by none.
LEMMA TagsStandOut ==
  ASSUME ReleaseTypeOK, Provenance, NEW k \in tags
  PROVE  /\ k \in DOMAIN full /\ k \in Nat /\ k >= 1 /\ Declared(k) = Version(k)
         /\ Declared(k) \in Triples /\ ~ Shadowed(k)
<1>1. k \in DOMAIN full /\ k \in Nat /\ k >= 1 /\ Declared(k) = Version(k) /\ Declared(k) \in Triples
  <2>1. k \in 1 .. Len(main)
    BY FullPositions DEF ReleaseTypeOK
  <2>2. k \in 1 .. Len(main) + Len(head)
    BY <2>1, FullPositions
  <2>3. main[k] \in Commits /\ full[k] = main[k]
    BY <2>1, FullPositions
  <2> QED BY <2>1, <2>2, <2>3, FullPositions DEF Declared, Version, Commits
<1> QED BY <1>1 DEF Shadowed, Provenance

LEMMA StepUp ==
  ASSUME ReleaseTypeOK, Stepwise, NEW n \in DOMAIN full, NEW j \in 1 .. n - 1,
         NoTagBetween(j, n), ~ Shadowed(j), Declared(n) # Declared(j)
  PROVE  Follows(n, j) /\ Less(Declared(j), Declared(n))
<1>1. Follows(n, j)
  BY DEF Stepwise
<1>2. Declared(j) \in Triples /\ Bump(KindsIn(full, j, n), Declared(j)) \in 0 .. 3
  BY KindsBetween, BumpRange
<1> QED BY <1>1, <1>2, NextIsHigher DEF Follows

History == Stepwise /\ Rooted /\ Rising

\* A pull request that is let pass: it is checked against the last tag, behind which there
\* is none, or before the first.
LEMMA CheckKeepsHistory ==
  ASSUME ReleaseTypeOK, ReleaseTypeOK', Provenance, History, VersionCheck
  PROVE  History'
<1> USE DEF History
<1>1. PICK kind \in Kinds : \E s \in BOOLEAN :
        head' = <<[kind |-> kind, version |-> Expected(kind), section |-> s]>>
  BY DEF VersionCheck
<1>2. UNCHANGED <<main, tags>>
  BY DEF VersionCheck
<1>3. PICK last \in Nat : last = Len(main) /\ last >= 1
  BY FullPositions
<1>4. /\ head' # <<>> /\ Len(head') = 1
      /\ head'[1].kind = kind /\ head'[1].version = Expected(kind)
  BY <1>1
<1>5. /\ DOMAIN full' = 1 .. last + 1
      /\ \A i \in 1 .. last : full'[i] = main[i]
      /\ full'[last + 1].kind = kind /\ full'[last + 1].version = Expected(kind)
      /\ \A i \in 1 .. last + 1 : full'[i] \in Commits
  <2>1. /\ DOMAIN full' = 1 .. Len(main') + Len(head')
        /\ \A i \in 1 .. Len(main') : full'[i] = main'[i]
        /\ \A i \in 1 .. Len(full') : full'[i] \in Commits
        /\ Len(full') = Len(main') + Len(head')
        /\ head' # <<>> => full'[Len(main') + 1] = head'[1]
    BY FullPositionsNext
  <2> QED BY <1>2, <1>3, <1>4, <2>1
<1>6. \A i \in 1 .. last : i \in DOMAIN full /\ full[i] = main[i]
  BY <1>3, FullPositions
<1>7. \A i \in 1 .. last : Declared(i)' = Declared(i) /\ Declared(i) = Version(i)
  BY <1>5, <1>6 DEF Declared, Version
<1>8. \A t \in tags : t \in 1 .. last
  BY <1>3, FullPositions DEF ReleaseTypeOK
<1>9. tags = {} => \A i \in 1 .. last + 1 : Declared(i)' = Version(1)
  <2> SUFFICES ASSUME tags = {}, NEW i \in 1 .. last + 1 PROVE Declared(i)' = Version(1)
    OBVIOUS
  <2>1. \A j \in 1 .. last : Version(j) = Version(1)
    BY <1>3, <1>6, <1>7 DEF Rooted
  <2>2. Declared(last + 1)' = Version(last)
    BY <1>3, <1>5 DEF Declared, Expected
  <2>3. i \in 1 .. last \/ i = last + 1
    BY <1>3
  <2>4. last \in 1 .. last
    BY <1>3
  <2> QED BY <1>7, <2>1, <2>2, <2>3, <2>4
<1>10. Rooted'
  <2>1. CASE tags = {}
    <3>1. 1 \in 1 .. last + 1
      BY <1>3
    <3> QED BY <1>5, <1>9, <2>1, <3>1 DEF Rooted
  <2>2. CASE tags # {}
    <3>1. \A n \in 1 .. last + 1 : n \in 1 .. last \/ \E t \in tags : t < n
      BY <1>3, <1>8, <2>2
    <3>2. 1 \in 1 .. last
      BY <1>3
    <3> QED BY <1>2, <1>5, <1>6, <1>7, <3>1, <3>2 DEF Rooted
  <2> QED BY <2>1, <2>2
<1>11. Rising'
  BY <1>2 DEF Rising, Version
<1>12. ASSUME NEW n \in 1 .. last + 1, NEW j \in 1 .. n - 1, NoTagBetween(j, n)', ~ Shadowed(j)'
       PROVE  Declared(n)' = Declared(j)' \/ Follows(n, j)'
  <2>1. /\ j \in 1 .. last /\ j \in Nat /\ n \in Nat /\ j < n
        /\ NoTagBetween(j, n) /\ ~ Shadowed(j)
    <3>1. j \in 1 .. last /\ j \in Nat /\ n \in Nat /\ j < n
      BY <1>3
    <3>2. NoTagBetween(j, n) /\ ~ Shadowed(j)
      BY <1>2, <1>7, <1>12, <3>1 DEF NoTagBetween, Shadowed, Version
    <3> QED BY <3>1, <3>2
  <2>2. CASE n \in 1 .. last
    <3>1. Declared(n) = Declared(j) \/ Follows(n, j)
      BY <1>6, <2>1, <2>2 DEF Stepwise
    <3>2. \A i \in j + 1 .. n : i \in 1 .. last
      BY <1>3, <2>1, <2>2
    <3>3. KindsIn(full', j, n) = KindsIn(full, j, n)
      BY <1>5, <1>6, <3>2 DEF KindsIn
    <3> QED BY <1>7, <2>1, <2>2, <3>1, <3>3 DEF Follows
  <2>3. CASE n = last + 1 /\ tags = {}
    BY <1>9, <2>1, <2>3
  <2>4. CASE n = last + 1 /\ tags # {}
    <3>1. PICK l \in tags : l = Latest /\ \A t \in tags : t <= l
      BY <2>4, LatestIsLast
    <3>2. l \in 1 .. last /\ l \in Nat
      BY <1>8, <3>1
    <3>3. l <= j
      BY <2>1, <2>4, <3>1, <3>2 DEF NoTagBetween
    <3>4. KindsIn(full', l, n) = Since(l, kind)
      <4>1. \A i \in l + 1 .. n : i \in l + 1 .. last \/ i = n
        BY <1>3, <2>4, <3>2
      <4>2. \A i \in l + 1 .. last : i \in l + 1 .. n /\ i \in 1 .. last
        BY <1>3, <2>4, <3>2
      <4>3. n \in l + 1 .. n
        BY <1>3, <2>4, <3>2
      <4>4. \A i \in l + 1 .. last : full'[i].kind = main[i].kind
        BY <1>5, <4>2
      <4>5. full'[n].kind = kind
        BY <1>5, <2>4
      <4> QED BY <1>3, <4>1, <4>2, <4>3, <4>4, <4>5 DEF KindsIn, Since
    <3>5. Declared(n)' = NextVersion(Version(l), Bump(KindsIn(full', l, n), Version(l)))
      BY <1>5, <2>4, <3>1, <3>4 DEF Declared, Expected
    <3>6. CASE j = l
      BY <1>7, <3>2, <3>5, <3>6 DEF Follows
    <3>7. CASE l < j
      <4>1. Declared(l) = Version(l) /\ Version(l) \in Triples /\ ~ Shadowed(l)
        BY TagsStandOut
      <4>2. NoTagBetween(l, j) /\ l \in 1 .. j - 1 /\ j \in DOMAIN full
        <5>1. \A t \in tags : t \in Nat /\ t <= l
          BY <1>8, <3>1
        <5>2. NoTagBetween(l, j)
          BY <3>2, <5>1 DEF NoTagBetween
        <5>3. j \in Nat /\ l \in 1 .. j - 1
          BY <1>3, <2>1, <3>2, <3>7
        <5>4. j \in DOMAIN full
          BY <1>6, <1>8, <2>1, <2>4
        <5> QED BY <5>2, <5>3, <5>4
      <4>3. Declared(j) # Declared(l)
        BY <2>1, <3>7, <4>1 DEF Shadowed
      <4>4. Declared(j) = NextVersion(Version(l), Bump(KindsIn(full, l, j), Version(l)))
        BY <4>1, <4>2, <4>3 DEF Stepwise, Follows
      <4>5. KindsIn(full, l, j) = KindsIn(full', l, j)
        <5>1. \A i \in l + 1 .. j : i \in 1 .. last
          BY <1>3, <2>1, <3>2
        <5> QED BY <1>5, <1>6, <5>1 DEF KindsIn
      <4>6. /\ KindsIn(full', l, n) = KindsIn(full', l, j) \cup KindsIn(full', j, n)
            /\ KindsIn(full', l, j) \in SUBSET AllKinds /\ KindsIn(full', l, j) # {}
            /\ KindsIn(full', j, n) \in SUBSET AllKinds /\ KindsIn(full', j, n) # {}
        <5>1. last + 1 \in Nat /\ n <= last + 1
          BY <1>3, <2>4
        <5> QED BY <1>5, <2>1, <3>2, <3>7, <5>1, KindsSplit
      <4>7. Declared(n)' \in {Declared(j), NextVersion(Declared(j), Bump(KindsIn(full', j, n), Declared(j)))}
        <5> DEFINE f == full'
        <5>1. /\ KindsIn(f, l, n) = KindsIn(f, l, j) \cup KindsIn(f, j, n)
              /\ KindsIn(f, l, j) \in SUBSET AllKinds /\ KindsIn(f, l, j) # {}
              /\ KindsIn(f, j, n) \in SUBSET AllKinds /\ KindsIn(f, j, n) # {}
          BY <4>6
        <5>2. Declared(j) = NextVersion(Version(l), Bump(KindsIn(f, l, j), Version(l)))
          BY <4>4, <4>5
        <5>3. Declared(n)' = NextVersion(Version(l), Bump(KindsIn(f, l, j) \cup KindsIn(f, j, n), Version(l)))
          BY <3>5, <5>1
        <5> HIDE DEF f
        <5>4. NextVersion(Version(l), Bump(KindsIn(f, l, j) \cup KindsIn(f, j, n), Version(l)))
              \in {Declared(j), NextVersion(Declared(j), Bump(KindsIn(f, j, n), Declared(j)))}
          BY <4>1, <5>1, <5>2, Rebase
        <5> QED BY <5>3, <5>4 DEF f
      <4> QED BY <1>7, <2>1, <4>7 DEF Follows
    <3> QED BY <2>1, <3>2, <3>3, <3>6, <3>7
  <2> QED BY <1>3, <2>2, <2>3, <2>4
<1> QED BY <1>5, <1>10, <1>11, <1>12 DEF Stepwise

\* A merge changes what is on main, not what has been checked.
LEMMA MergeKeepsHistory ==
  ASSUME ReleaseTypeOK, ReleaseTypeOK', History, Merge
  PROVE  History'
<1>1. /\ main' = full /\ head' = <<>> /\ tags' = tags
  BY DEF Merge, full
<1>2. full' = full
  BY <1>1 DEF full, ReleaseTypeOK
<1>3. \A k \in tags : Version(k)' = Version(k)
  BY <1>1, FullPositions DEF Version, ReleaseTypeOK
<1> QED BY <1>1, <1>2, <1>3
        DEF History, Stepwise, Rooted, Rising, Declared, Follows, Shadowed, NoTagBetween

\* A new tag is higher than the one before it and lower than the one behind it.
LEMMA TagKeepsHistory ==
  ASSUME ReleaseTypeOK, Provenance, History, NEW n \in DOMAIN main,
         PushTag(n) \/ PushByHand(n)
  PROVE  History'
<1> USE DEF History
<1>1. UNCHANGED <<main, head, full>> /\ tags' = tags \cup {n} /\ ~ Tagged(n)
  BY DEF PushTag, PushByHand, full
<1>2. Stepwise'
  BY <1>1 DEF Stepwise, Declared, Follows, Shadowed, NoTagBetween, Version
<1>3. Rooted'
  BY <1>1 DEF Rooted, Declared
<1>4. n \in Nat /\ n \in DOMAIN full /\ Declared(n) = Version(n) /\ Declared(n) \in Triples
  <2>1. n \in 1 .. Len(main) /\ n \in 1 .. Len(main) + Len(head) /\ n \in Nat
    BY FullPositions
  <2> QED BY <2>1, FullPositions DEF Declared, Version, Commits
<1>5. /\ tags \in SUBSET Nat
      /\ \A k \in tags : /\ k \in DOMAIN full /\ k >= 1 /\ Declared(k) = Version(k)
                         /\ Declared(k) \in Triples /\ ~ Shadowed(k) /\ Declared(k) # Declared(n)
  BY <1>1, <1>4, TagsStandOut DEF Tagged
<1>6. ~ Shadowed(n)
  BY <1>1, <1>4 DEF Shadowed, Tagged
<1>7. ASSUME NEW k \in tags, k < n PROVE Less(Version(k), Version(n))
  <2> DEFINE older == {t \in tags : t < n}
  <2>1. PICK p \in older : \A t \in older : t <= p
    <3>1. older \in SUBSET Nat /\ older # {} /\ \A t \in older : t <= n
      <4>1. \A t \in older : t \in Nat /\ t < n
        BY <1>5
      <4>2. \A t \in Nat : t < n => t <= n
        BY <1>4
      <4>3. k \in older
        BY <1>7
      <4> QED BY <4>1, <4>2, <4>3
    <3> HIDE DEF older
    <3> QED BY <1>4, <3>1, GreatestNumber
  <2>2. NoTagBetween(p, n) /\ p \in 1 .. n - 1
    BY <1>4, <1>5, <2>1 DEF NoTagBetween
  <2>3. Less(Declared(p), Declared(n))
    BY <1>4, <1>5, <2>1, <2>2, StepUp
  <2>4. k = p \/ Less(Version(k), Version(p))
    BY <1>5, <1>7, <2>1 DEF Rising
  <2> QED BY <1>4, <1>5, <2>1, <2>3, <2>4, LessOrder
<1>8. ASSUME NEW k \in tags, n < k PROVE Less(Version(n), Version(k))
  <2> DEFINE newer == {t \in tags : n < t}
  <2>1. PICK p \in newer : \A t \in newer : p <= t
    <3>1. newer \in SUBSET Nat /\ newer # {}
      BY <1>5, <1>8
    <3> HIDE DEF newer
    <3> QED BY <3>1, LeastNumber
  <2>2. NoTagBetween(n, p) /\ n \in 1 .. p - 1
    BY <1>4, <1>5, <2>1, FullPositions DEF NoTagBetween
  <2>3. Less(Declared(n), Declared(p))
    BY <1>4, <1>5, <1>6, <2>1, <2>2, StepUp
  <2>4. k = p \/ Less(Version(p), Version(k))
    BY <1>5, <1>8, <2>1 DEF Rising
  <2> QED BY <1>4, <1>5, <2>1, <2>3, <2>4, LessOrder
<1>9. Rising'
  BY <1>1, <1>4, <1>5, <1>7, <1>8 DEF Rising, Version
<1> QED BY <1>2, <1>3, <1>9

LEMMA HistoryKept ==
  ASSUME ReleaseTypeOK, ReleaseTypeOK', Provenance, History, [Next]_vars
  PROVE  History'
<1>1. ASSUME UNCHANGED <<main, head, tags>> PROVE History'
  <2>1. full' = full
    BY <1>1 DEF full
  <2> QED BY <1>1, <2>1 DEF History, Stepwise, Rooted, Rising, Declared, Follows, Shadowed,
                            NoTagBetween, Version
<1>2. ASSUME NEW n \in DOMAIN main,
             Plan(n) \/ Look(n) \/ PushRefused(n) \/ Publish(n) \/ Dispatch(n)
      PROVE  History'
  BY <1>1, <1>2 DEF Plan, Look, PushRefused, Publish, Dispatch
<1>3. CASE UNCHANGED vars
  BY <1>1, <1>3 DEF vars
<1> QED BY <1>2, <1>3, CheckKeepsHistory, MergeKeepsHistory, TagKeepsHistory DEF Next

-----------------------------------------------------------------------------
Kept == ReleaseTypeOK /\ Planned /\ Provenance /\ History

LEMMA InitKept == Init => Kept
<1> SUFFICES ASSUME Init PROVE Planned /\ Provenance /\ History
  BY InitTyped DEF Kept
<1>1. ReleaseTypeOK /\ Len(main) = 1 /\ head = <<>>
  BY InitTyped DEF Init
<1>2. DOMAIN main = {1} /\ DOMAIN full = {1} /\ tags \subseteq {1} /\ Len(head) = 0
  BY <1>1, FullPositions DEF ReleaseTypeOK
<1>3. Planned
  BY <1>2 DEF Init, Planned
<1>4. Provenance
  BY <1>2 DEF Init, Provenance
<1>5. 1 .. 1 - 1 = {}
  OBVIOUS
<1>6. Stepwise
  BY <1>2, <1>5 DEF Stepwise
<1>7. Rooted /\ Rising
  BY <1>2 DEF Rooted, Rising
<1> QED BY <1>3, <1>4, <1>6, <1>7 DEF History

LEMMA AlwaysKept == Spec => []Kept
<1>1. Kept /\ [Next]_vars => Kept'
  <2> SUFFICES ASSUME ReleaseTypeOK, Planned, Provenance, History, [Next]_vars PROVE Kept'
    BY DEF Kept
  <2>1. ReleaseTypeOK'
    BY TypeKept DEF History
  <2> QED BY <2>1, ProvenanceKept, HistoryKept DEF Kept
<1> QED BY <1>1, InitKept, PTL DEF Spec

\* PRV-002, PRV-006: whatever is merged, in whatever order the runs go on, fail and are
\* repeated, and whatever tags a maintainer pushes as RELEASING.md has it, a tag names a
\* commit that declares its version, alone, with its section; one that tag.yml has pushed
\* passed before; and only what has a tag and has passed is published.
THEOREM TagsAreProven == Spec => []Provenance
<1>1. Kept => Provenance
  BY DEF Kept
<1> QED BY <1>1, AlwaysKept, PTL

\* Of two tags the one of the later commit has the higher version.
THEOREM VersionsRise == Spec => []Rising
<1>1. Kept => Rising
  BY DEF Kept, History
<1> QED BY <1>1, AlwaysKept, PTL

\* PRV-005: from each tag to the next the version goes up by exactly the highest level
\* that the commits between them require.
THEOREM SemanticVersions == Spec => []SemVer
<1>1. Kept => SemVer
  <2> SUFFICES ASSUME ReleaseTypeOK, Provenance, Stepwise, Rooted, NEW n \in tags
               PROVE  LET older == {j \in tags : j < n}
                          k == Max(older)
                      IN IF older = {} THEN Version(n) = Version(1)
                         ELSE Version(n) = NextVersion(Version(k),
                                Bump({main[j].kind : j \in k + 1 .. n}, Version(k)))
    BY DEF Kept, History, SemVer
  <2> DEFINE older == {j \in tags : j < n}
             k == Max(older)
  <2>1. /\ n \in DOMAIN full /\ n \in Nat /\ Declared(n) = Version(n)
        /\ \A t \in tags : t \in Nat /\ t >= 1 /\ Declared(t) = Version(t) /\ ~ Shadowed(t)
    BY TagsStandOut
  <2>2. n \in 1 .. Len(main) /\ \A i \in 1 .. Len(main) : full[i] = main[i]
    BY FullPositions DEF ReleaseTypeOK
  <2>3. CASE older = {}
    <3>1. Declared(1) = Version(1)
      BY <2>2, FullPositions DEF Declared, Version
    <3>2. Declared(n) = Declared(1)
      BY <2>1, <2>3 DEF Rooted
    <3> QED BY <2>1, <2>3, <3>1, <3>2
  <2>4. CASE older # {}
    <3>1. k \in older /\ \A t \in older : t <= k
      <4>1. older \in SUBSET Nat /\ \A t \in older : t <= n
        BY <2>1
      <4> HIDE DEF older
      <4>2. \E p \in older : \A t \in older : t <= p
        <5>1. n \in Nat
          BY <2>1
        <5>2. older # {}
          BY <2>4
        <5> QED BY <4>1, <5>1, <5>2, GreatestNumber
      <4> QED BY <4>1, <4>2 DEF Max
    <3> HIDE DEF k
    <3>2. NoTagBetween(k, n) /\ k \in 1 .. n - 1
      BY <2>1, <3>1 DEF NoTagBetween
    <3>3. Declared(n) # Declared(k)
      BY <2>1, <3>1 DEF Provenance
    <3>4. Follows(n, k)
      BY <2>1, <3>1, <3>2, <3>3 DEF Stepwise
    <3>5. KindsIn(full, k, n) = {main[j].kind : j \in k + 1 .. n}
      <4>1. \A j \in k + 1 .. n : j \in 1 .. Len(main)
        BY <2>1, <2>2, <3>1, FullPositions
      <4> QED BY <2>2, <4>1 DEF KindsIn
    <3>6. Version(n) = NextVersion(Version(k), Bump({main[j].kind : j \in k + 1 .. n}, Version(k)))
      BY <2>1, <3>1, <3>4, <3>5 DEF Follows
    <3> QED BY <2>4, <3>6 DEF k
  <2> QED BY <2>3, <2>4
<1> QED BY <1>1, AlwaysKept, PTL
=============================================================================
