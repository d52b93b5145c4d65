------------------------------ MODULE Features ------------------------------
(***************************************************************************)
(* The evidence that impact/features derives from the tables t of Phase 1  *)
(* for each pull request (features/build.py): what its references claim    *)
(* about others (episodes.py), how far its change reaches                  *)
(* (blast_radius.py) and which comments on it may have changed something   *)
(* (review_intervention.py). Regression has the rest.                      *)
(***************************************************************************)
EXTENDS Regression, Identity

CONSTANTS
  author, component,       \* of a pull request, of a path
  NoAuthor,                \* of one whose account is gone
  directory,
  NoComponent,             \* that of a path no rule of the mapping knows
  Products,                \* the components that are products
  GraphNodes,              \* paths with a node in the dependency graph
  Unparsed,                \* ... in a language nobody parses the imports of
  SharedSurface,           \* paths of a shared library or of a platform surface
  HubFanIn,                \* a node of so many importers is a hub
  ReachDepth, PlatformProducts,
  FlagPRs, IssuePRs        \* more that share one are no candidates

ASSUME AuthorsAssumption ==
  author \in [PRs -> Keys \union {NoAuthor}] /\ NoAuthor \notin Keys

-----------------------------------------------------------------------------
(* Links.                                                                    *)

PhraseTypes == {"follow_up", "part_of", "stacked_on", "reverts", "reapplies", "supersedes"}

\* A phrase anywhere in a pull request types each of its mentions.
TypesOf(t, r) ==
  LET phrases == {x \in PhraseTypes : <<r.source[2], x>> \in t.phrases}
  IN  CASE r.how \in {"api", "closing"}            -> {"closes_issue"}
        [] r.how = "timeline"                      -> {"timeline_connected"}
        [] r.how = "mention" /\ phrases # {}       -> phrases
        [] OTHER                                   -> {"references_pr"}

LinkOf(type, source, target) == [type |-> type, source |-> source, target |-> target]

\* What an issue refers to is no claim of a pull request.
StatedLinks(t) ==
  UNION {{LinkOf(type, r.source[2], r.target) : type \in TypesOf(t, r)}
         : r \in {x \in t.references : x.source[1] = "pull_request" /\ x.source[2] # x.target}}

Cooccurring(sharers, type, most) ==
  UNION {{LinkOf(type, p[1], p[2]) : p \in InOrder(sharers[k])}
         : k \in {j \in DOMAIN sharers : Cardinality(sharers[j]) \in 2..most}}

BuildEdges(t) ==
  LET stated == StatedLinks(t)
      closers(x) == {l.source : l \in {k \in stated : k.type = "closes_issue" /\ k.target = x}}
  IN  stated
      \union Cooccurring(t.flags, "shared_feature_flag", FlagPRs)
      \union Cooccurring([x \in Issues \union PRs |-> closers(x)], "shared_issue", IssuePRs)

-----------------------------------------------------------------------------
(* Reach.  Unknown is no reach, not a small one.                             *)

UnknownReach == 0
LocalReach == 1
ComponentReach == 2
ProductReach == 3
PlatformReach == 4

Importing(t, p) == {i \in Paths \ {p} : <<i, p>> \in t.imports}

Hubs(t, most) == {p \in GraphNodes : Cardinality(Importing(t, p)) > most}

Changed(t, n) == {p \in Paths : <<n, p>> \in t.files}

\* Who would notice if these paths broke, a bounded number of imports away.
Dependents(t, S) ==
  LET seen[d \in Nat] == IF d = 0 THEN S
                         ELSE LET so == seen[d - 1]
                              IN  so \union UNION {Importing(t, p) : p \in so}
  IN  seen[ReachDepth] \ S

ComponentsOf(S) == {component[p] : p \in S} \ {NoComponent}

\* By the breadth that is observed, a shared surface needing some behind it.
ObservedReach(t, own) ==
  LET dependents == Dependents(t, own)
      below  == ComponentsOf(dependents \intersect GraphNodes) \intersect Products
      parts  == ComponentsOf(own)
      hubs   == own \intersect Hubs(t, HubFanIn - 1)
      shared == own \intersect SharedSurface # {}
                /\ (Cardinality(below) >= 2 \/ hubs # {})
  IN  IF Cardinality(below) >= PlatformProducts \/ shared THEN PlatformReach
      ELSE IF Cardinality(parts \intersect Products) >= 2 \/ Cardinality(below) >= 2
      THEN ProductReach
      ELSE IF Cardinality(parts) > 1 THEN ComponentReach
      ELSE IF parts = {} THEN UnknownReach
      ELSE IF Cardinality({directory[p] : p \in own}) = 1 /\ dependents = {}
      THEN LocalReach ELSE ComponentReach

\* A path of an unparsed language has a node all the same, so that a change of
\* nothing else is not known to be unmeasured.
BlastRadius(t, n) ==
  LET own   == Changed(t, n)
      known == own \intersect GraphNodes
      band  == ObservedReach(t, own)
      blind == \/ own = {}
               \/ band \in {LocalReach, ComponentReach} /\ own \intersect Unparsed # {}
                  /\ known = {}
               \/ ComponentsOf(own) = {} /\ 2 * Cardinality(known) < Cardinality(own)
  IN  IF blind THEN UnknownReach ELSE band

-----------------------------------------------------------------------------
(* Review comments.  Of one without a path the thread's is taken.            *)

CommentClass(c) ==
  CASE IsBot(c.by)                         -> "bot"
    [] ~IsBot(c.by) /\ c.body = "empty"    -> "empty"
    [] ~IsBot(c.by) /\ c.body \in {"acknowledgement", "nit", "short"} -> c.body
    [] OTHER                               -> "substantive"

OwnComment(c) == c.by = author[c.pr]

\* What is merged is one commit, dated later than any comment before the merge,
\* and its files are those of the whole pull request.
Followed(t, c) ==
  /\ c.pr \in t.commits /\ t.merged[c.pr] > c.at
  /\ <<c.pr, c.path>> \in t.files

ReviewCandidates(t, comments) ==
  {[pr |-> c.pr, by |-> c.by, concerns |-> c.concerns, long |-> c.long,
    outdated |-> c.outdated, resolved |-> c.resolved,
    component |-> IF c.path \in Paths THEN component[c.path] ELSE NoComponent,
    followed  |-> Followed(t, c),
    replied   |-> author[c.pr] \in c.participants /\ ~OwnComment(c)]
   : c \in {x \in comments : CommentClass(x) = "substantive" /\ ~OwnComment(x)}}
=============================================================================
