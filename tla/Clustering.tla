----------------------------- MODULE Clustering -----------------------------
(***************************************************************************)
(* The clustering of impact2/graph/clustering.py: the pairs of pull        *)
(* requests that may be joined and how strongly, the weighted Louvain      *)
(* method over them, node by node, and the constraints on the size of what *)
(* it finds.                                                               *)
(*                                                                         *)
(* A community is named by the smallest node it began with. The code       *)
(* renumbers the communities after every level; the order is the same.     *)
(***************************************************************************)
EXTENDS ArtifactGraph

CONSTANTS
  MinPair,                  \* the least strength that joins a pair
  SplitThreshold, HardMax,  \* sizes beyond which a cluster is taken apart
  MaxSweeps, MaxPasses,
  LongSpan, LargeArc        \* days and pull requests that lower the confidence

ASSUME StrengthAssumption == MinPair \in Nat \ {0}

VARIABLES
  tables,      \* what Phase 1 recorded
  edges,       \* the artifact graph
  phase,
  weights,     \* the strength of each pair
  nodes,       \* of this level
  adj, loops,  \* weights between the nodes, and within each
  community,   \* of a node
  membership,  \* the node that a pull request has become
  queue,       \* the nodes this sweep has yet to visit
  moved,       \* this sweep, improved: this level
  improved, sweeps, passes,
  clusters     \* the episodes' pull requests

clusterVars == <<tables, edges, phase, weights, nodes, adj, loops, community,
                 membership, queue, moved, improved, sweeps, passes, clusters>>

Members == tables.eligible

Pairs(S) == {p \in SUBSET S : Cardinality(p) = 2}

-----------------------------------------------------------------------------
(* Which pairs may be joined.                                                *)

\* What joins the two, in either direction.
Joining(pair) == {e \in edges : {e.source, e.target} = {PullRequest(n) : n \in pair}}

\* Mutation: what the guards have taken out counts as well.
UsableUnguarded(pair) == Joining(pair)

Usable(pair) == {e \in Joining(pair) : e.usable}

\* Each edge takes its share of what the others have left.
Combine(E) == LET or(e, x) == x + Strength(e) - (x * Strength(e)) \div 1000
              IN  FoldSet(or, 0, E)

\* Tier C alone does not join, nor does structure over too long a time.
MayJoin(pair) ==
  LET tiers == {e.tier : e \in Usable(pair)}
      a == Min(pair)  b == Max(pair)
  IN  /\ tiers \notin {{}, {"C"}}
      /\ "A" \in tiers \/ ~Dated(tables, a, b) \/ Apart(tables, a, b) <= SpanMax
      /\ Combine(Usable(pair)) >= MinPair

PairWeights ==
  [pair \in {p \in Pairs(Members) : MayJoin(p)} |-> Combine(Usable(pair))]

-----------------------------------------------------------------------------
(* Louvain.                                                                  *)

Total(f, S) == MapThenSumSet(LAMBDA x : f[x], S)

Degrees == [n \in nodes |-> Total(adj[n], nodes) + 2 * loops[n]]

Mass == Total(Degrees, nodes)

\* Mutation: only what attracts counts, not what it would be by chance.
GainByStrength(n, c) ==
  Total(adj[n], {m \in nodes \ {n} : community[m] = c})

\* What n adds to community c, times Mass.
Gain(n, c) ==
  LET others == {m \in nodes \ {n} : community[m] = c}
  IN  Total(adj[n], others) * Mass - Total(Degrees, others) * Degrees[n]

\* The best of its own and its neighbours' communities; of equals the first.
Best(n) ==
  LET reach == {community[n]} \union {community[m] : m \in {k \in nodes : adj[n][k] > 0}}
      gain  == [c \in reach |-> Gain(n, c)]
  IN  Min({c \in reach : \A d \in reach : gain[c] >= gain[d]})

StartLevel(ns) ==
  /\ nodes' = ns /\ queue' = ns /\ community' = [n \in ns |-> n]
  /\ moved' = FALSE /\ improved' = FALSE /\ sweeps' = 1

\* Every analysable pull request is a node, joined to another or not.
Weigh ==
  /\ phase = "weigh"
  /\ weights' = PairWeights
  /\ StartLevel(Members)
  /\ adj' = [a \in Members |-> [b \in Members |->
        IF {a, b} \in DOMAIN weights' THEN weights'[{a, b}] ELSE 0]]
  /\ loops' = [a \in Members |-> 0]
  /\ membership' = [n \in Members |-> n]
  /\ passes' = 0
  /\ phase' = "sweep"
  /\ UNCHANGED <<tables, edges, clusters>>

MoveNode ==
  /\ phase = "sweep" /\ queue # {} /\ Mass > 0
  /\ LET n == Min(queue)
         best == Best(n)
     IN  /\ queue' = queue \ {n}
         /\ community' = [community EXCEPT ![n] = best]
         /\ moved' = (moved \/ best # community[n])
         /\ improved' = (improved \/ best # community[n])
  /\ UNCHANGED <<tables, edges, phase, weights, nodes, adj, loops, membership,
                 sweeps, passes, clusters>>

SweepAgain ==
  /\ phase = "sweep" /\ queue = {} /\ moved /\ sweeps < MaxSweeps
  /\ queue' = nodes /\ moved' = FALSE /\ sweeps' = sweeps + 1
  /\ UNCHANGED <<tables, edges, phase, weights, nodes, adj, loops, community,
                 membership, improved, passes, clusters>>

LevelOver == phase = "sweep" /\ queue = {} /\ (~moved \/ sweeps = MaxSweeps)

\* One node for each community, and the weight within it a loop.
Aggregate ==
  /\ LevelOver /\ improved
  /\ LET names == {community[n] : n \in nodes}
         of(c) == {n \in nodes : community[n] = c}
         between(c, d) == Total([n \in nodes |-> Total(adj[n], of(d))], of(c))
     IN  /\ StartLevel(names)
         /\ adj' = [c \in names |-> [d \in names |->
                      IF c = d THEN 0 ELSE between(c, d)]]
         /\ loops' = [c \in names |-> Total(loops, of(c)) + between(c, c) \div 2]
  /\ membership' = [n \in Members |-> community[membership[n]]]
  /\ passes' = passes + 1
  /\ phase' = IF passes + 1 = MaxPasses THEN "constrain" ELSE "sweep"
  /\ UNCHANGED <<tables, edges, weights, clusters>>

Converge ==
  /\ phase = "sweep"
  /\ Mass = 0 \/ (LevelOver /\ ~improved)
  /\ phase' = "constrain"
  /\ UNCHANGED <<tables, edges, weights, nodes, adj, loops, community,
                 membership, queue, moved, improved, sweeps, passes, clusters>>

-----------------------------------------------------------------------------
(* Constraints.                                                              *)

\* What n is connected to within S by the pairs of P.
Component(n, S, P) ==
  {m \in S : \A C \in SUBSET S :
     n \in C /\ (\A p \in P : p \subseteq S /\ p \intersect C # {} => p \subseteq C)
     => m \in C}

Components(S, P) == {Component(n, S, P) : n \in S}

\* The pairs that usable edges of these tiers join, weighed or not.
TierPairs(tiers) == {p \in Pairs(Members) : \E e \in Usable(p) : e.tier \in tiers}

Proposed == {{n \in Members : membership[n] = c} : c \in {membership[n] : n \in Members}}

\* Mutation: what stays too large is dropped, not kept for review.
PartsBelowLimit(S) ==
  IF Cardinality(S) <= SplitThreshold THEN {S}
  ELSE UNION {IF Cardinality(part) <= HardMax THEN {part}
              ELSE {p \in Components(part, TierPairs({"A"})) : Cardinality(p) <= HardMax}
              : part \in Components(S, TierPairs({"A", "B"}))}

\* A catch-all cluster falls into what tiers A and B connect, and that, where
\* it is still too large, into what tier A connects.
Parts(S) ==
  IF Cardinality(S) <= SplitThreshold THEN {S}
  ELSE UNION {IF Cardinality(part) <= HardMax THEN {part}
              ELSE Components(part, TierPairs({"A"}))
              : part \in Components(S, TierPairs({"A", "B"}))}

Constrain ==
  /\ phase = "constrain"
  /\ clusters' = UNION {Parts(S) : S \in Proposed}
  /\ phase' = "clustered"
  /\ UNCHANGED <<tables, edges, weights, nodes, adj, loops, community,
                 membership, queue, moved, improved, sweeps, passes>>

Cluster == Weigh \/ MoveNode \/ SweepAgain \/ Aggregate \/ Converge \/ Constrain

-----------------------------------------------------------------------------
(* How far to trust an episode, in hundredths: by the kind of the evidence   *)
(* that holds it together, never by its size.                                *)

ClusterConfidence(S) ==
  LET inner == UNION {Usable(p) : p \in Pairs(S)}
      sure  == {e \in inner : e.tier = "A"}
      whole == Cardinality(Components(S, TierPairs({"A", "B"}))) = 1
      long  == \E a, b \in S : Dated(tables, a, b) /\ Apart(tables, a, b) > LongSpan
  IN  CASE Cardinality(S) = 1 -> 100
        [] Cardinality(S) > 1 /\ inner = {} -> 25
        [] OTHER -> 35 + (45 * Cardinality(sure)) \div Cardinality(inner)
                    + (IF whole THEN 20 ELSE 0) - (IF long THEN 15 ELSE 0)
                    - (IF Cardinality(S) > LargeArc THEN 10 ELSE 0)
=============================================================================
