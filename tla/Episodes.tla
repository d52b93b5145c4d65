------------------------------ MODULE Episodes ------------------------------
(***************************************************************************)
(* From a cluster to the record of an episode: what came to depend on it   *)
(* (analytics/propagation.py), what became of it (episodes/status.py) and  *)
(* whether a human must look at it (episodes/build.py). The code does this *)
(* to every cluster in turn, and none reads another's: here it is done to  *)
(* one, the subject.                                                       *)
(***************************************************************************)
EXTENDS Clustering, Features

CONSTANTS
  FanInCut,            \* paths of more importers tell nothing
  SourceWeight,        \* of what is introduced or modified, by its importers
  MaxPaths,            \* sources of an episode
  MaxAdoptions,        \* ... and adoptions, at which the walk stops
  MaxFrontier,         \* paths kept of those reached at a depth
  MaxRecorded,         \* adoptions of which there is a record
  MaxDepth,
  Recent,              \* an adoption since then shows persistence
  MinPersistence,
  MechanicalShare,     \* hundredths of the files that make it maintenance
  ReviewBelow          \* the confidence that needs no review

ASSUME WalkAssumption ==
  {MaxPaths, MaxAdoptions, MaxFrontier, MaxRecorded} \subseteq Nat \ {0}

VARIABLES
  subject,         \* the pull requests of the episode followed
  frontier, todo,  \* paths and when they became available; those to visit
  nextFrontier,
  depth,
  reached,         \* who has adopted what, at which depth
  episode          \* its record

walkVars == <<subject, frontier, todo, nextFrontier, depth, reached, episode>>

NoEpisode == [status |-> "none"]

-----------------------------------------------------------------------------
(* Propagation.                                                              *)

Merged(S) == {n \in S : tables.merged[n] # Never}

EpisodeEnd(S) == IF Merged(S) = {} THEN WindowEnd
                 ELSE Max({tables.merged[n] : n \in Merged(S)})

Changers(S, path) == {n \in S : <<n, path>> \in tables.files}

IntroducedBy(S, path) == {n \in Changers(S, path) : <<n, path>> \in tables.added}

Weight(S, path) ==
  LET fanIn == IF path \in GraphNodes THEN Cardinality(Importing(tables, path)) ELSE 0
  IN  SourceWeight[IF IntroducedBy(S, path) # {} THEN "introduced" ELSE "modified"][fanIn]

\* The heaviest of what the episode changed.
Sources(S) ==
  LET specific == {p \in Paths \ (Mechanical \union Hubs(tables, FanInCut)) :
                     Changers(S, p) # {}}
      heavier(q, p) == \/ Weight(S, q) > Weight(S, p)
                       \/ Weight(S, q) = Weight(S, p) /\ q < p
  IN  {p \in specific : Cardinality({q \in specific : heavier(q, p)}) < MaxPaths}

\* Who introduced the path weighs more than who modified it; of equals the first.
SourcePR(S, path) ==
  IF IntroducedBy(S, path) # {} THEN Min(IntroducedBy(S, path)) ELSE Min(Changers(S, path))

Available(S, path) ==
  LET day == tables.merged[SourcePR(S, path)]
  IN  IF day # Never THEN day ELSE EpisodeEnd(S)

Follow ==
  /\ phase = "clustered"
  /\ \E S \in clusters :
       /\ subject' = S
       /\ frontier' = [p \in Sources(S) |-> Available(S, p)]
       /\ todo' = Sources(S)
  /\ nextFrontier' = <<>>
  /\ depth' = 1 /\ reached' = {}
  /\ phase' = "walk"
  /\ UNCHANGED <<tables, edges, weights, nodes, adj, loops, community, membership,
                 queue, moved, improved, sweeps, passes, clusters, episode>>

SeenPRs == subject \union {a.pr : a \in reached}

SeenPaths == Sources(subject) \union {a.path : a \in reached}

Importers(n, path) == {i \in Paths : <<i, path>> \in tables.imports /\ <<n, i>> \in tables.files}

\* Mutation: on the same day is later.
NewerOrSame(path) ==
  {n \in PRs \ SeenPRs : Importers(n, path) # {} /\ tables.merged[n] >= frontier[path]}

\* Who imports the path and was merged strictly after it became available.
Newer(path) ==
  {n \in PRs \ SeenPRs : Importers(n, path) # {} /\ tables.merged[n] > frontier[path]}

Sooner(m, n) ==
  tables.merged[m] < tables.merged[n] \/ (tables.merged[m] = tables.merged[n] /\ m < n)

\* Each pull request adopts once, by the first path it imports this one from, and
\* as many as there is room for.
AdoptersFrom(path) ==
  {n \in Newer(path) :
     Cardinality({m \in Newer(path) : Sooner(m, n)}) + Cardinality(reached) < MaxAdoptions}

Stopped == Cardinality(reached) >= MaxAdoptions

Visit ==
  /\ phase = "walk" /\ todo # {} /\ ~Stopped
  /\ LET path == Min(todo)
         by(n) == Min(Importers(n, path))
         fresh == {by(n) : n \in AdoptersFrom(path)} \ SeenPaths
     IN  /\ todo' = todo \ {path}
         /\ reached' = reached \union
              {[pr |-> n, path |-> by(n), from |-> path, depth |-> depth]
                : n \in AdoptersFrom(path)}
         /\ nextFrontier' = Extended(nextFrontier, [i \in fresh |->
              Min({tables.merged[n] : n \in {m \in AdoptersFrom(path) : by(m) = i}})])
  /\ UNCHANGED <<clusterVars, subject, frontier, depth, episode>>

\* Which paths carry most is up to weights that decay with time: any may.
Deepen ==
  /\ phase = "walk" /\ todo = {} /\ ~Stopped /\ DOMAIN nextFrontier # {} /\ depth < MaxDepth
  /\ \E strongest \in kSubset(Min({MaxFrontier, Cardinality(DOMAIN nextFrontier)}),
                               DOMAIN nextFrontier) :
       /\ frontier' = [p \in strongest |-> nextFrontier[p]]
       /\ todo' = strongest
  /\ nextFrontier' = <<>> /\ depth' = depth + 1
  /\ UNCHANGED <<clusterVars, subject, reached, episode>>

WalkOver ==
  phase = "walk" /\ (Stopped \/ (todo = {} /\ (DOMAIN nextFrontier = {} \/ depth = MaxDepth)))

Penetrated == ComponentsOf({a.path : a \in reached})

\* What the bands are read from.
Propagation ==
  [components |-> Cardinality(Penetrated),
   authors    |-> Cardinality({author[a.pr] : a \in reached} \ {NoAuthor}),
   files      |-> Cardinality({a.path : a \in reached}),
   prs        |-> Cardinality(reached),
   depth      |-> IF reached = {} THEN 0 ELSE Max({a.depth : a \in reached}),
   persistent |-> Cardinality({a \in reached : tables.merged[a.pr] >= Recent})
                    >= MinPersistence]

\* The first in the order of the walk.
Recorded ==
  LET before(b, a) == \/ b.depth < a.depth
                      \/ b.depth = a.depth /\ b.from < a.from
                      \/ b.depth = a.depth /\ b.from = a.from /\ Sooner(b.pr, a.pr)
  IN  {a \in reached : Cardinality({b \in reached : before(b, a)}) < MaxRecorded}

-----------------------------------------------------------------------------
(* Status.                                                                   *)

LinkedIssues ==
  {i \in Issues : \E e \in edges : e.type = "closes_issue" /\ e.target = <<"issue", i>>
                                   /\ \E n \in subject : e.source = PullRequest(n)}

\* An edge of the type points at the episode, from wherever.
PointedAt(type) ==
  \E e \in edges, n \in subject :
    /\ e.type = type /\ e.target = PullRequest(n) /\ e.source[1] = "pull_request"

FileRows == {r \in tables.files : r[1] \in subject}

MostlyMechanical ==
  /\ FileRows # {}
  /\ 100 * Cardinality({r \in FileRows : r[2] \in Mechanical})
       >= MechanicalShare * Cardinality(FileRows)

Corroboration ==
  \/ subject \intersect tables.docs # {}
  \/ subject \intersect tables.ungated # {}
  \/ reached # {}
  \/ LinkedIssues \intersect tables.completed # {}

StillGated == subject \intersect tables.gated # {} /\ subject \intersect tables.ungated = {}

\* Of the first that applies.
Status ==
  IF (\E n \in subject : WasReverted(tables, n)) /\ ~PointedAt("reapplies") THEN "reverted"
  ELSE IF PointedAt("supersedes") THEN "superseded"
  ELSE IF Merged(subject) = {} THEN "exploratory"
  ELSE IF MostlyMechanical THEN "maintenance"
  ELSE IF StillGated THEN "partial_or_behind_flag"
  ELSE "shipped_observable"

\* Only the last two look for evidence of a release.
ReleaseCorroborated ==
  Status \in {"partial_or_behind_flag", "shipped_observable"} /\ Corroboration

Ranked(status) == status # "exploratory"

Reviewed(S) ==
  ClusterConfidence(S) < ReviewBelow \/ Cardinality(S) > SplitThreshold

\* Episodes of one group are not independent evidence of one engineer's work.
Group ==
  IF LinkedIssues # {} THEN <<"issue", Min(LinkedIssues)>>
  ELSE IF Penetrated # {} /\ Propagation.depth >= 2 THEN <<"lineage", Min(Penetrated)>>
  ELSE <<"episode", Min(subject)>>

Record ==
  /\ WalkOver
  /\ episode' = [
       status       |-> Status,
       corroborated |-> ReleaseCorroborated,
       doubtful     |-> ClusterConfidence(subject) < ReviewBelow,
       review       |-> Reviewed(subject),
       reach        |-> Propagation,
       group        |-> Group,
       size         |-> Cardinality(subject),
       issues       |-> LinkedIssues,
       blast        |-> Max({BlastRadius(tables, n) : n \in subject}),
       blinded      |-> \E n \in subject : BlastRadius(tables, n) = UnknownReach,
       flagged      |-> \E k \in DOMAIN tables.flags : tables.flags[k] \intersect subject # {},
       documented   |-> subject \intersect tables.docs # {},
       components   |-> Cardinality({component[r[2]] : r \in FileRows}),
       changes      |-> CASE FileRows = {} -> "nothing known"
                          [] FileRows # {} /\ FileRows \subseteq subject \X Mechanical -> "mechanical"
                          [] OTHER -> "production"]
  /\ phase' = "recorded"
  /\ UNCHANGED <<tables, edges, weights, nodes, adj, loops, community, membership,
                 queue, moved, improved, sweeps, passes, clusters,
                 subject, frontier, todo, nextFrontier, depth, reached>>
=============================================================================
