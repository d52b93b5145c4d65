--------------------------- MODULE ArtifactGraph ---------------------------
(***************************************************************************)
(* The artifact graph of impact2/graph/artifact_graph.py and semantic.py:  *)
(* which edges the tables of Phase 1 give, of which tier, under which      *)
(* guards, and which of them may join pull requests.                       *)
(*                                                                         *)
(* The tables are one record t. Numbers stand for names: pull requests,    *)
(* paths and issues are natural numbers, whose order is the order in which *)
(* the code sorts them. Strengths are in thousandths.                      *)
(***************************************************************************)
EXTENDS Integers, Sequences, FiniteSetsExt

CONSTANTS
  PRs, Paths, Issues,
  Mechanical,              \* paths that are generated, vendored or locked
  FlagTierA, FlagMax,      \* a flag of more pull requests is demoted, excluded
  IssueTierA, IssueMax,    \* so is an issue that more of them close
  NameMax,                 \* a name in more titles means nothing
  MigrationMax,            \* nor does a directory of more migrations
  AdoptersMax,             \* a module adopted by more joins nothing
  SpanMax,                 \* days a structural join may span
  MinSimilarity, MaxCandidates

ASSUME NumbersAssumption ==
  /\ PRs \subseteq Nat /\ IsFiniteSet(PRs) /\ PRs # {}
  /\ Paths \subseteq Nat /\ IsFiniteSet(Paths)
  /\ Issues \subseteq Nat /\ IsFiniteSet(Issues)

\* f, and what g says where f says nothing.
Extended(f, g) ==
  [x \in DOMAIN f \union DOMAIN g |-> IF x \in DOMAIN f THEN f[x] ELSE g[x]]

-----------------------------------------------------------------------------
(* The tables.  A day is when a pull request was merged, 0 that it was not.  *)

Never == 0

Tables == [
  merged     : [PRs -> Nat],
  eligible   : SUBSET PRs,                 \* ranking_eligible
  generic    : SUBSET PRs,                 \* a title of generic maintenance
  references : SUBSET [source : ({"pull_request"} \X PRs) \union ({"issue"} \X Issues),
                       how : {"api", "timeline", "closing", "mention"},
                       target : PRs \union Issues],
  phrases    : SUBSET (PRs \X STRING),     \* in the text of each
  links      : SUBSET [type : STRING, source : PRs, target : PRs \union Issues],
                                           \* derived, see Features
  flags      : Seq(SUBSET PRs),            \* who touches each flag
  migrations : Seq(SUBSET PRs),            \* ... each directory of migrations
  names      : Seq(SUBSET PRs),            \* ... each name in the titles
  stacked    : SUBSET (PRs \X PRs),        \* base_ref is the head_ref of
  files      : SUBSET (PRs \X Paths),
  added      : SUBSET (PRs \X Paths),      \* ... with change_status A
  imports    : SUBSET (Paths \X Paths),    \* importer, imported
  docs       : SUBSET PRs,
  threads    : SUBSET PRs,                 \* a review followed by a change
  commits    : SUBSET PRs,
  similarity : [SUBSET PRs -> Nat],        \* cosine of the texts of a pair,
                                           \* 0 when too far apart or disjoint
  fixes      : SUBSET PRs,                 \* a title of a fix
  retitled   : SUBSET (PRs \X PRs),        \* "revert" and the title of
  deleted    : SUBSET (PRs \X Paths),
  gated      : SUBSET PRs,                 \* adds a flag
  ungated    : SUBSET PRs,                 \* removes a flag
  completed  : SUBSET Issues]              \* closed, as completed

PullRequest(n) == <<"pull_request", n>>

Base == [A |-> 1000, B |-> 700, C |-> 350]

Multiplier(type) ==
  CASE type = "timeline_connected"  -> 95
    [] type = "review_thread_change" -> 90
    [] type = "changelog_link"      -> 90
    [] type = "shared_feature_flag" -> 85
    [] type = "direct_mention"      -> 60
    [] type = "migration_dependency" -> 85
    [] type = "follow_up"           -> 95
    [] type = "depends_on"          -> 90
    [] type = "shared_named_entity" -> 80
    [] OTHER                        -> 100

Strength(e) == (Base[e.tier] * Multiplier(e.type)) \div 100

\* via is what the edge came from, in the order of the code's loops. A guard
\* that says "demoted" makes the edge unusable, whatever the caller wanted.
MakeEdge(source, target, type, tier, guard, wanted, via) ==
  [source |-> source, target |-> target, type |-> type, tier |-> tier,
   guard |-> guard, usable |-> wanted /\ guard # "demoted", via |-> via]

Joined(a, b, type, tier, guard, wanted, via) ==
  MakeEdge(PullRequest(a), PullRequest(b), type, tier, guard, wanted, via)

InOrder(S) == {p \in S \X S : p[1] < p[2]}

-----------------------------------------------------------------------------
(* Tier A: what something in the data literally states.                      *)

TierAFromPhase1 == [closes_issue |-> "closes_issue",
  timeline_connected |-> "timeline_connected", reverts |-> "reverts",
  reapplies |-> "reapplies", supersedes |-> "supersedes",
  references_pr |-> "direct_mention"]

TierBFromPhase1 == [follow_up |-> "follow_up", part_of |-> "part_of",
                    stacked_on |-> "depends_on"]

Phase1Edges(t) ==
  LET tierA(l) == l.type \in DOMAIN TierAFromPhase1
      type(l)  == IF tierA(l) THEN TierAFromPhase1[l.type]
                  ELSE TierBFromPhase1[l.type]
      generic(l) == /\ l.target \in PRs
                    /\ {l.source, l.target} \intersect t.generic # {}
                    /\ type(l) \in {"direct_mention", "follow_up"}
      target(l) == IF l.target \in PRs THEN PullRequest(l.target)
                   ELSE <<"issue", l.target>>
  IN  {MakeEdge(PullRequest(l.source), target(l), type(l),
                IF tierA(l) THEN "A" ELSE "B",
                IF generic(l) THEN "demoted" ELSE "none", ~generic(l), 0)
       : l \in {k \in t.links : k.type \in DOMAIN TierAFromPhase1
                                           \union DOMAIN TierBFromPhase1}}

\* What many share is infrastructure, not an initiative.
FanOut(S, most, limit) ==
  CASE Cardinality(S) <= most  -> [tier |-> "A", guard |-> "none"]
    [] Cardinality(S) \in (most + 1)..limit -> [tier |-> "B", guard |-> "demoted"]
    [] OTHER                   -> [tier |-> "C", guard |-> "excluded"]

Shared(sharers, type, most, limit) ==
  UNION {{LET f == FanOut(sharers[k], most, limit)
          IN  Joined(p[1], p[2], type, f.tier, f.guard, f.guard # "excluded", k)
          : p \in InOrder(sharers[k])} : k \in DOMAIN sharers}

FlagEdges(t) ==
  Shared(t.flags, "shared_feature_flag", FlagTierA, FlagMax)
  \union UNION {{MakeEdge(PullRequest(n), <<"feature_flag", k>>,
                          "shared_feature_flag",
                          FanOut(t.flags[k], FlagTierA, FlagMax).tier,
                          "none", FALSE, k) : n \in t.flags[k]}
                : k \in {j \in DOMAIN t.flags : Cardinality(t.flags[j]) >= 2}}

\* Read off the links again, so an issue nobody shares has no edge of its own.
IssueEdges(t) ==
  Shared([i \in Issues |-> {l.source : l \in {k \in t.links :
            k.type = "closes_issue" /\ k.target = i}}],
         "closes_issue", IssueTierA, IssueMax)

EvidenceEdges(t) ==
  {MakeEdge(PullRequest(n), <<"commit", n>>, "commit_membership",
            "A", "none", FALSE, 0) : n \in t.commits}
  \union {MakeEdge(PullRequest(n), <<"doc", n>>, "changelog_link",
            "A", "none", FALSE, 0) : n \in t.docs}
  \union {MakeEdge(<<"review_thread", n>>, PullRequest(n),
            "review_thread_change", "A", "none", FALSE, 0) : n \in t.threads}

TierA(t) ==
  Phase1Edges(t) \union FlagEdges(t) \union IssueEdges(t) \union EvidenceEdges(t)

-----------------------------------------------------------------------------
(* Tier B: structure, not statement.                                         *)

StackedBranches(t) ==
  {Joined(s[1], s[2], "stacked_branch", "B", "none", TRUE, 0)
   : s \in {p \in t.stacked : p[1] # p[2]}}

Adders(t, path) ==
  {n \in PRs : <<n, path>> \in t.added /\ t.merged[n] # Never /\ path \notin Mechanical}

\* The first to merge the path; a path added again later is another fact.
Introducer(t, path) ==
  CHOOSE n \in Adders(t, path) : \A m \in Adders(t, path) :
    t.merged[n] < t.merged[m] \/ (t.merged[n] = t.merged[m] /\ n <= m)

Later(t, n, m) == t.merged[m] # Never /\ t.merged[m] > t.merged[n]

\* Later pull requests that changed a file that imports the path.
Adopters(t, path) ==
  {n \in PRs \ {Introducer(t, path)} :
     /\ \E i \in Paths : <<i, path>> \in t.imports /\ <<n, i>> \in t.files
     /\ Later(t, Introducer(t, path), n)}

SymbolDownstream(t) ==
  UNION {LET many == Cardinality(Adopters(t, path)) > AdoptersMax
         IN  {Joined(n, Introducer(t, path), "symbol_downstream", "B",
                     IF many THEN "demoted" ELSE "none", ~many, path)
              : n \in Adopters(t, path)}
         : path \in {q \in Paths : Adders(t, q) # {}}}

Apart(t, a, b) ==
  IF t.merged[a] > t.merged[b] THEN t.merged[a] - t.merged[b]
  ELSE t.merged[b] - t.merged[a]

Dated(t, a, b) == Never \notin {t.merged[a], t.merged[b]}

\* From the later to the earlier.
MigrationDependency(t) ==
  UNION {{Joined(p[1], p[2], "migration_dependency", "B", "none", TRUE, d)
          : p \in {q \in t.migrations[d] \X t.migrations[d] :
                     /\ q[1] # q[2] /\ Dated(t, q[1], q[2])
                     /\ Apart(t, q[1], q[2]) <= SpanMax
                     /\ \/ t.merged[q[1]] > t.merged[q[2]]
                        \/ t.merged[q[1]] = t.merged[q[2]] /\ q[1] > q[2]}}
         : d \in {j \in DOMAIN t.migrations :
                    Cardinality(t.migrations[j]) \in 2..MigrationMax}}

NamedEntities(t) ==
  UNION {{Joined(p[1], p[2], "shared_named_entity", "B", "none", TRUE, k)
          : p \in InOrder(t.names[k])}
         : k \in {j \in DOMAIN t.names :
                    /\ Cardinality(t.names[j]) \in 2..NameMax
                    /\ ~ t.names[j] \subseteq t.generic}}

TierB(t) ==
  StackedBranches(t) \union SymbolDownstream(t)
  \union MigrationDependency(t) \union NamedEntities(t)

-----------------------------------------------------------------------------
(* One edge of a type between two artifacts: the best tier, and of one tier  *)
(* (hence of one strength) the first. An unusable edge hides a usable one.   *)

SameKey(e, f) == e.source = f.source /\ e.target = f.target /\ e.type = f.type

Deduplicate(E) ==
  LET rank(e) == CASE e.tier = "A" -> 0 [] e.tier = "B" -> 1 [] e.tier = "C" -> 2
      before(e, f) == rank(e) < rank(f) \/ (rank(e) = rank(f) /\ e.via <= f.via)
  IN  {e \in E : \A f \in E : SameKey(e, f) => before(e, f)}

\* The edges between two pull requests, in either direction.
Between(E, a, b) ==
  {e \in E : {e.source, e.target} = {PullRequest(a), PullRequest(b)}}

Corroborated(E, pair) == \E a, b \in pair : a # b /\ Between(E, a, b) # {}

\* Number by number, the most similar it has not been paired with yet.
SemanticPairs(t) ==
  LET candidates(n, seen) == {m \in t.eligible \ {n} :
        {n, m} \notin seen /\ t.similarity[{n, m}] >= MinSimilarity}
      before(n, k, m) == \/ t.similarity[{n, k}] > t.similarity[{n, m}]
                         \/ t.similarity[{n, k}] = t.similarity[{n, m}] /\ k < m
      best(n, seen) == {m \in candidates(n, seen) :
        Cardinality({k \in candidates(n, seen) : before(n, k, m)}) < MaxCandidates}
      seen[n \in Nat] ==
        IF n = 0 THEN {}
        ELSE IF n \notin t.eligible THEN seen[n - 1]
        ELSE seen[n - 1] \union {{n, m} : m \in best(n, seen[n - 1])}
  IN  seen[Max(PRs)]

\* Tier C: a question, and evidence only where another edge corroborates it.
SemanticEdges(t, E) ==
  {LET sure == Corroborated(E, pair)
   IN  Joined(Min(pair), Max(pair), "semantic_similarity", "C",
              IF sure THEN "none" ELSE "uncorroborated", sure, 0)
   : pair \in SemanticPairs(t)}

GraphOf(t) ==
  LET certain == TierA(t) \union TierB(t)
  IN  Deduplicate(certain \union SemanticEdges(t, Deduplicate(certain)))
=============================================================================
