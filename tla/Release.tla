------------------------------ MODULE Release ------------------------------
(***************************************************************************)
(* tools/release_policy.py and the workflows around it: a pull request is  *)
(* checked against the last release and merged, and each merge starts a    *)
(* run of tag.yml that tags and publishes the version main declares there. *)
(* Commits are named for what they require, versions are triples.          *)
(***************************************************************************)
EXTENDS Integers, Sequences, FiniteSets, FiniteSetsExt

CONSTANTS
  Kinds,     \* of commits with a conventional subject; no other passes
  Firsts,    \* versions that position 1 of main may declare, released or not
  MaxRuns,   \* bound on the runs of tag.yml
  MaxByHand  \* bound on the tags pushed by hand

ASSUME ReleaseAssumption ==
  /\ Kinds \subseteq {"docs", "fix", "feat", "breaking"}
  /\ Firsts \subseteq Nat \X Nat \X Nat /\ MaxRuns \in Nat /\ MaxByHand \in Nat

VARIABLES
  main,      \* commits: [kind, version, section]; section: of its version, in CHANGELOG.md
  head,      \* a pull request on top of main that version-check.yml let pass, or none
  tags,      \* positions of main with a release tag
  job,       \* the job that the run of a position has come to
  created,   \* positions whose tag job has said created=true
  pypi,      \* positions of which a build is published
  passed,    \* history: positions that have passed CI and the build in a run
  byHand     \* history: positions whose tag a maintainer has pushed

vars == <<main, head, tags, job, created, pypi, passed, byHand>>

-----------------------------------------------------------------------------
Version(n) == main[n].version

Less(v, w) == \/ v[1] < w[1]
              \/ v[1] = w[1] /\ v[2] < w[2]
              \/ v[1] = w[1] /\ v[2] = w[2] /\ v[3] < w[3]

\* RELEASE_TYPES, _LEVEL_RANK
Rank == [docs |-> 0, fix |-> 1, feat |-> 2, breaking |-> 3]

NextVersion(v, rank) ==
  CASE rank = 3 -> <<v[1] + 1, 0, 0>>
    [] rank = 2 -> <<v[1], v[2] + 1, 0>>
    [] rank = 1 -> <<v[1], v[2], v[3] + 1>>
    [] rank = 0 -> v

\* required_bump: the highest level; in major version 0 a breaking change is minor.
Bump(kinds, v) ==
  LET rank == Max({Rank[k] : k \in kinds}) IN IF v[1] = 0 /\ rank = 3 THEN 2 ELSE rank

\* latest_release: the highest version, here the position its tag names.
Latest == CHOOSE n \in tags : \A k \in tags : ~ Less(Version(n), Version(k))

\* git log <its tag>..HEAD
WrongSince(n, kind) == {kind}
Since(n, kind) == {main[k].kind : k \in n + 1 .. Len(main)} \cup {kind}

\* changelog_section: of the version that a commit declares.
HasSection(commit) == commit.section

\* check_pr: the version is the expected one, before the first release the base's, and
\* has its section unless it is released.
Expected(kind) ==
  IF tags = {} THEN Version(Len(main))
  ELSE NextVersion(Version(Latest), Bump(Since(Latest, kind), Version(Latest)))
CheckPr(commit) == tags = {} \/ commit.version # Version(Latest) => HasSection(commit)

-----------------------------------------------------------------------------
Init ==
  /\ \E v \in Firsts, s \in BOOLEAN : main = <<[kind |-> "docs", version |-> v, section |-> s]>>
  /\ \/ HasSection(main[1]) /\ tags = {1} /\ job = <<"released">>
     \/ tags = {} /\ job = <<"plan">>
  /\ head = <<>> /\ created = tags /\ pypi = tags /\ passed = tags /\ byHand = {}

\* A head is pushed on top of main and version-check.yml lets it pass, as only one with
\* the expected version does.  It does not look again when a tag is pushed.  Heads behind
\* the last run are left out.
VersionCheck ==
  /\ Cardinality({n \in DOMAIN job : job[n] # "released"}) < MaxRuns
  /\ \E k \in Kinds, s \in BOOLEAN :
       LET commit == [kind |-> k, version |-> Expected(k), section |-> s] IN
       CheckPr(commit) /\ head' = <<commit>>
  /\ UNCHANGED <<main, tags, job, created, pypi, passed, byHand>>

\* Branches have to be up to date, as RELEASING.md has it, so no other merge came between.
Merge ==
  /\ head # <<>>
  /\ main' = main \o head
  /\ head' = <<>>
  /\ job' = Append(job, "plan")
  /\ UNCHANGED <<tags, created, pypi, passed, byHand>>

\* The run of position n.  A job that fails may be run again: it stays where it is.
Tagged(n) == \E k \in tags : Version(k) = Version(n)
Goes(n, from, to) == job[n] = from /\ job' = [job EXCEPT ![n] = to]

\* tag_info needs the section also where the tag exists.  If it does not, ci.yml,
\* verify-tag and uv build follow, which look at nothing but the commit.
Plan(n) ==
  /\ HasSection(main[n])
  /\ Goes(n, "plan", IF Tagged(n) THEN "over" ELSE "tag")
  /\ passed' = IF Tagged(n) THEN passed ELSE passed \cup {n}
  /\ UNCHANGED <<main, head, tags, created, pypi, byHand>>

\* git ls-remote, in the concurrency group release-tag.
Look(n) ==
  /\ \A k \in DOMAIN job : job[k] # "push"
  /\ Goes(n, "tag", IF Tagged(n) THEN "publish" ELSE "push")
  /\ UNCHANGED <<main, head, tags, created, pypi, passed, byHand>>

\* git push; the runner may be lost before it can say so, and the job is run again.
PushTag(n) ==
  /\ ~ Tagged(n)
  /\ \/ Goes(n, "push", "publish") /\ created' = created \cup {n}
     \/ Goes(n, "push", "tag") /\ UNCHANGED created
  /\ tags' = tags \cup {n}
  /\ UNCHANGED <<main, head, pypi, passed, byHand>>

\* The tag was pushed by hand between Look and git push, which fails.
PushRefused(n) ==
  /\ Tagged(n)
  /\ Goes(n, "push", "tag")
  /\ UNCHANGED <<main, head, tags, created, pypi, passed, byHand>>

\* A maintainer pushes the missing tag of a version to a commit that declares it and has
\* its section, as RELEASING.md has it, whatever the run of that commit has come to.
PushByHand(n) ==
  /\ Cardinality(byHand) < MaxByHand
  /\ HasSection(main[n]) /\ ~ Tagged(n)
  /\ tags' = tags \cup {n}
  /\ byHand' = byHand \cup {n}
  /\ UNCHANGED <<main, head, job, created, pypi, passed>>

\* PyPI takes a version once.
Upload(n) ==
  /\ \A k \in pypi : Version(k) # Version(n)
  /\ pypi' = pypi \cup {n}

\* if: created == 'true', and a maintainer approves.
WrongMayPublish(n) == TRUE
MayPublish(n) == n \in created

Publish(n) ==
  /\ Goes(n, "publish", "over")
  /\ IF MayPublish(n) THEN Upload(n) ELSE UNCHANGED pypi
  /\ UNCHANGED <<main, head, tags, created, passed, byHand>>

\* release.yml, which a tag pushed by a person starts, and a person for any tag, at any
\* time: CI, verify-tag and the build of the tag's commit, then a maintainer approves (what
\* nobody approves leaves nothing behind).
Dispatch(n) ==
  /\ n \in tags /\ HasSection(main[n])
  /\ passed' = passed \cup {n}
  /\ Upload(n)
  /\ UNCHANGED <<main, head, tags, job, created, byHand>>

Next ==
  \/ VersionCheck \/ Merge
  \/ \E n \in DOMAIN main :
       \/ Plan(n) \/ Look(n) \/ PushTag(n) \/ PushRefused(n) \/ Publish(n)
       \/ PushByHand(n) \/ Dispatch(n)

Spec == Init /\ [][Next]_vars
-----------------------------------------------------------------------------
\* PRV-002, PRV-006: a tag names a commit that declares its version, alone among the tags,
\* with its section; one that tag.yml has pushed passed CI and the build before.  What is
\* published was built from the commit of its tag and passed, whoever pushed the tag, also
\* when runs overlap, are cut off or meet a tag pushed by hand.
Provenance ==
  /\ \A n \in tags :
       /\ HasSection(main[n]) /\ n \in passed \cup byHand
       /\ \A k \in tags : Version(k) = Version(n) => k = n
  /\ pypi \subseteq tags \cap passed

\* PRV-005: the first tag has the version that main began with, and from each tag to the
\* next the version goes up by exactly the highest level that the commits between them
\* require, in whatever order the runs push their tags and however old the release is that
\* a pull request was checked against.
SemVer ==
  \A n \in tags :
    LET older == {j \in tags : j < n}
        k == Max(older)
    IN IF older = {} THEN Version(n) = Version(1)
       ELSE Version(n) = NextVersion(Version(k),
                                     Bump({main[j].kind : j \in k + 1 .. n}, Version(k)))
=============================================================================
