------------------------------ MODULE Analysis ------------------------------
(***************************************************************************)
(* The features of Phase 1, the stages of Phase 2 (impact2/pipeline.py)    *)
(* one after the other, and what has to hold between them. A behaviour     *)
(* takes the tables of one repository through features, graph and          *)
(* episodes, and one of the episodes through analytics, attribution and    *)
(* one dimension into the portfolio of one of its participants; or it      *)
(* ranks engineers with whatever portfolios they have. The code does the   *)
(* same to every episode, dimension and engineer, and none of them reads   *)
(* what is made of another before the portfolios.                          *)
(*                                                                         *)
(* What no later stage reads is cleared.                                   *)
(***************************************************************************)
EXTENDS Portfolio, CrossCheck

CONSTANTS
  Repositories,        \* the tables that Phase 1 may have written
  ReviewSets,          \* the comments on their pull requests
  Casts,               \* who else took part: facts for the attribution
  Facts,               \* Facts[d]: facts for the evaluator of a dimension
  Decays,
  OtherEntries,        \* what other episodes gave the engineer
  OtherKnown           \* ... and the confidence of his other dimensions

ASSUME RepositoriesAssumption == \A t \in Repositories : Extended(t, [links |-> {}]) \in Tables

\* The episode of the behaviour has the number 1.
ASSUME EntriesAssumption ==
  /\ Decays \subseteq Nat
  /\ \A E \in OtherEntries : AreEntries(E) /\ \A e \in E : e.id # 1

VARIABLES
  participants,        \* of the episode
  assessment,          \* of the episode in one dimension, for one of them
  portfolio

stageVars == <<participants, assessment, portfolio>>

vars == <<clusterVars, walkVars, stageVars, rankVars>>

Cleared == <<>>

NoGraph ==
  /\ edges = {} /\ weights = Cleared /\ nodes = {}
  /\ adj = Cleared /\ loops = Cleared /\ community = Cleared /\ membership = Cleared
  /\ queue = {} /\ moved = FALSE /\ improved = FALSE /\ sweeps = 0 /\ passes = 0
  /\ clusters = {}
  /\ subject = {} /\ frontier = Cleared /\ todo = {} /\ nextFrontier = Cleared
  /\ depth = 0 /\ reached = {}

ClearGraph ==
  /\ tables' = Cleared /\ edges' = {} /\ weights' = Cleared /\ nodes' = {}
  /\ adj' = Cleared /\ loops' = Cleared /\ community' = Cleared /\ membership' = Cleared
  /\ queue' = {} /\ moved' = FALSE /\ improved' = FALSE /\ sweeps' = 0 /\ passes' = 0
  /\ clusters' = {}
  /\ subject' = {} /\ frontier' = Cleared /\ todo' = {} /\ nextFrontier' = Cleared
  /\ depth' = 0 /\ reached' = {}

NoRanking == portfolios = Cleared /\ cred = Cleared /\ Start

Init ==
  /\ NoGraph
  /\ episode = NoEpisode /\ participants = Cleared
  /\ assessment = Cleared /\ portfolio = Cleared
  /\ \/ tables \in Repositories /\ phase = "features" /\ NoRanking
     \/ tables = Cleared /\ phase = "rank" /\ RunScenario

-----------------------------------------------------------------------------
\* The rest of what Phase 1 derives is read off the tables where it is used.
StageFeatures ==
  /\ phase = "features"
  /\ tables' = Extended(tables, [links |-> BuildEdges(tables)])
  /\ phase' = "graph"
  /\ UNCHANGED <<edges, weights, nodes, adj, loops, community, membership,
                 queue, moved, improved, sweeps, passes, clusters>>

StageGraph ==
  /\ phase = "graph"
  /\ edges' = GraphOf(tables)
  /\ phase' = "weigh"
  /\ UNCHANGED <<tables, weights, nodes, adj, loops, community, membership,
                 queue, moved, improved, sweeps, passes, clusters>>

StageEpisodes ==
  \/ Cluster /\ UNCHANGED walkVars
  \/ Follow \/ Visit \/ Deepen \/ Record

SurvivalOf(S) ==
  LET known == {n \in S : Measured(tables, n)}
      survival(n) == Survival(tables, n)
  IN  [measured   |-> known # {},
       whole      |-> known # {} /\ MapThenSumSet(survival, known) >= 99 * Cardinality(known),
       introduced |-> \E n \in S : Introduced(tables, n) # {},
       reasons    |-> known # S,
       unmeasured |-> \E n \in S \ known : Introduced(tables, n) # {}]

\* R are the comments on the pull requests of the tables.
Analytics(R) ==
  LET comments == {i \in ReviewCandidates(tables, R) : i.pr \in subject}
  IN  [corrective     |-> Corrective,
       interventions  |-> {Assessed(i) : i \in comments},
       reviewed       |-> comments # {},
       simplification |-> Simplifies(subject, TRUE),
       resolvable     |-> Sources(subject) # {},
       fixing         |-> subject \intersect tables.fixes # {},
       migrating      |-> \E k \in DOMAIN tables.migrations :
                            tables.migrations[k] \intersect subject # {},
       unconfirmed    |-> \E n \in subject : RequiresHuman(tables, n),
       survival       |-> SurvivalOf(subject)]

StageAnalytics ==
  /\ phase = "recorded"
  /\ \E R \in ReviewSets : episode' = Extended(episode, Analytics(R))
  /\ phase' = "analysed"
  /\ UNCHANGED <<tables, edges, weights, nodes, adj, loops, community, membership,
                 queue, moved, improved, sweeps, passes, clusters,
                 subject, frontier, todo, nextFrontier, depth, reached, stageVars>>

StageAttribute ==
  /\ phase = "analysed"
  /\ \E f \in Casts : participants' = Participants(f)
  /\ phase' = "attributed"
  /\ ClearGraph
  /\ UNCHANGED <<episode, assessment, portfolio>>

StageDimensions ==
  /\ phase = "attributed"
  /\ \E who \in DOMAIN participants, d \in Dimensions : \E f \in Facts[d] :
       assessment' = Extended(Evaluate(d, episode, f), [
         dimension    |-> d,
         status       |-> episode.status,
         corroborated |-> episode.corroborated,
         doubtful     |-> episode.doubtful,
         confirmed    |-> episode.corrective.confirmed,
         group        |-> episode.group,
         category     |-> participants[who].category,
         factor       |-> participants[who].factors[d]])
  /\ phase' = "assessed"
  /\ episode' = NoEpisode /\ participants' = Cleared
  /\ UNCHANGED <<tables, edges, weights, nodes, adj, loops, community, membership,
                 queue, moved, improved, sweeps, passes, clusters,
                 subject, frontier, todo, nextFrontier, depth, reached, portfolio>>

\* The episode as an entry; in another dimension it may have reached a higher band.
EntryOf(decay, higher) ==
  [id |-> 1, decay |-> decay,
   peak |-> Max({higher} \union ({assessment.band} \ {Unknown})),
   band |-> assessment.band, confidence |-> assessment.confidence,
   factor |-> assessment.factor, group |-> assessment.group,
   status |-> assessment.status, category |-> assessment.category,
   confirmed |-> assessment.confirmed]

PortfolioOf(E, known) ==
  LET here(c) == IF Independent(E) = {} THEN known
                 ELSE Extended([d \in {assessment.dimension} |-> c], known)
  IN  [entries  |-> E,
       rankable |-> \E c \in Dominant(E) \union Given("low", Independent(E) = {}) :
                      Rankable(Cardinality(E), here(c)),
       severe   |-> \E e \in E : Severe(e)]

StagePortfolios ==
  /\ phase = "assessed"
  /\ \E decay \in Decays, others \in OtherEntries, known \in OtherKnown :
     \E higher \in {0, SevereBand} :
       portfolio' = PortfolioOf({EntryOf(decay, higher)} \union others, known)
  /\ phase' = "portfolio"
  /\ assessment' = Cleared
  /\ UNCHANGED <<tables, edges, weights, nodes, adj, loops, community, membership,
                 queue, moved, improved, sweeps, passes, clusters,
                 subject, frontier, todo, nextFrontier, depth, reached,
                 episode, participants>>

StageRank ==
  phase = "rank" /\ FinalRanking /\ UNCHANGED <<clusterVars, walkVars, stageVars>>

Next ==
  \/ StageFeatures /\ UNCHANGED <<walkVars, stageVars, rankVars>>
  \/ StageGraph /\ UNCHANGED <<walkVars, stageVars, rankVars>>
  \/ StageEpisodes /\ UNCHANGED <<stageVars, rankVars>>
  \/ StageAnalytics /\ UNCHANGED rankVars
  \/ StageAttribute /\ UNCHANGED rankVars
  \/ StageDimensions /\ UNCHANGED rankVars
  \/ StagePortfolios /\ UNCHANGED rankVars
  \/ StageRank

Spec == Init /\ [][Next]_vars

-----------------------------------------------------------------------------
(* Properties of the episodes.                                               *)

\* Every analysable pull request is in exactly one episode, however often the
\* communities were aggregated and the clusters taken apart.
EpisodesPartition ==
  phase \in {"clustered", "walk", "recorded", "analysed"} =>
    /\ UNION clusters = Members
    /\ \A S, T \in clusters : S = T \/ S \intersect T = {}
    /\ {} \notin clusters

\* Who is in an episode with others is held there by an edge of tier A or B that
\* no guard demoted: neither the moves of the others nor the splits leave a pull
\* request in the company of strangers, and likeness alone holds nobody.
EveryMemberIsHeld ==
  \A S \in clusters : Cardinality(S) > 1 =>
    \A n \in S : \E m \in S \ {n} : \E e \in edges :
      /\ {e.source, e.target} = {PullRequest(n), PullRequest(m)}
      /\ e.usable /\ e.tier \in {"A", "B"}

\* A level of Louvain's method ends with a sweep that moves nobody, and is not cut
\* off at MaxSweeps.
LevelsEnd == [][Aggregate => ~moved]_vars

Class(n) == community[membership[n]]

\* How strongly each pull request is joined, and each class of them.
Weighted == [n \in Members |->
  Total([e \in DOMAIN weights |-> IF n \in e THEN weights[e] ELSE 0], DOMAIN weights)]

WeightOf(c) == Total(Weighted, {n \in Members : Class(n) = c})

Inside == {e \in DOMAIN weights : \A a, b \in e : Class(a) = Class(b)}

Quality ==
  LET whole   == 2 * Total(weights, DOMAIN weights)
      classes == {Class(n) : n \in Members}
  IN  2 * Total(weights, Inside) * whole
      - Total([c \in classes |-> WeightOf(c) * WeightOf(c)], classes)

\* No move and no aggregation lowers the modularity of the whole partition,
\* measured on the pull requests themselves whatever the level.
MovesNeverLoseModularity == [][phase = "sweep" /\ phase' = "sweep" => Quality' >= Quality]_vars

\* Which paths may carry what the episode introduced after so many steps, and
\* from which day.
Carriers[d \in Nat] ==
  IF d = 0 THEN {<<s, Available(subject, s)>> : s \in Sources(subject)}
  ELSE LET so == Carriers[d - 1]
       IN  {<<by[1], tables.merged[by[2]]>> : by \in {x \in Paths \X (PRs \ subject) :
              \E c \in so : x[1] \in Importers(x[2], c[1]) /\ tables.merged[x[2]] > c[2]}}

\* Every adoption ends a chain of imports back to the episode in which each link
\* was merged after the one before, and nobody adopts twice.
AdoptionIsAChain ==
  /\ \A a \in reached : <<a.path, tables.merged[a.pr]>> \in Carriers[a.depth]
  /\ \A a, b \in reached : a.pr = b.pr => a = b

-----------------------------------------------------------------------------
(* Properties of what is made of them.                                       *)

\* The status, read from the edges of the graph, and the counterevidence, read
\* from the first signals of the rows of Phase 1, agree on which work was reverted
\* for good: counterevidence is never wrong about it, and misses it only where
\* each reverted pull request has more signals than are classed.
RevertsAgree ==
  phase = "analysed" =>
    /\ episode.corrective.confirmed => episode.status = "reverted"
    /\ episode.status = "reverted" /\ ~episode.corrective.confirmed =>
         \A n \in subject : WasReverted(tables, n) =>
           Cardinality(Explicit(tables, n)) > MaxSignals

\* A broad band has independent artifacts behind it; a transformative one has a
\* marker too and nothing that casts a doubt, the clustering included. Product
\* outcomes above 2 were released, and what was reverted is neither that nor
\* durable.
HighBandsAreEarned ==
  phase = "assessed" /\ assessment.band # Unknown =>
    /\ assessment.band >= 3 => Cardinality(assessment.classes) >= Band3Classes
    /\ assessment.band = 4 => /\ Cardinality(assessment.classes) >= Band4Classes
                              /\ assessment.marker /\ ~assessment.doubtful
    /\ assessment.dimension = "product_outcome" /\ assessment.band > 2 =>
         assessment.corroborated
    /\ assessment.confirmed =>
         /\ assessment.dimension = "propagation_durability" => assessment.band <= 1
         /\ assessment.dimension = "product_outcome" => assessment.band <= 2

\* The shares of the people in P of an episode of the authors. Where the shares
\* were scaled, each may be half a grain too large.
SharedAmong(P, authors) ==
  LET large     == {c \in DOMAIN P : P[c].category \in {"primary", "material"}}
      factor(d) == [c \in DOMAIN P |-> P[c].factors[d]]
  IN  /\ authors \intersect (Bots \union {NoAuthor}) = {} => authors \intersect large # {}
      /\ \A d \in Dimensions :
           2 * SumOver(factor(d), DOMAIN P) <= 2 * MaxTotal + Cardinality(DOMAIN P)
      /\ \A c \in authors \intersect DOMAIN P :
           {"decision_shaper", "risk_preventer"} \intersect P[c].roles = {}

\* Every episode whose authors are known and no bots has somebody with a large
\* share, all shares together are worth no more than the limit and what rounding
\* adds to each, and who wrote a part of it has no credit for having reviewed it.
CreditIsShared ==
  [][phase = "analysed" /\ phase' = "attributed" =>
       SharedAmong(participants', {Who(n) : n \in subject})]_vars

\* One episode more never lowers a value, also where it is of the same issue as
\* a stronger one; corroboration adds no more than the headroom to the strongest
\* episode; and the value lies in its interval.
MoreEvidenceNeverHurts ==
  phase = "portfolio" =>
    LET E    == portfolio.entries
        all  == DimensionValue(E)
        less(e) == DimensionValue(E \ {e})
    IN  all.value # Unknown =>
          /\ \A e \in E : less(e).value = Unknown \/ less(e).value <= all.value
          /\ \E e \in Independent(E) : all.value <= ValueOf(e) + Headroom
          /\ all.low <= all.value /\ all.value <= all.high
=============================================================================
