--------------------------- MODULE Analysis_proofs ---------------------------
(***************************************************************************)
(* Proofs about the features of Phase 1 and the stages of Phase 2.         *)
(***************************************************************************)
EXTENDS Analysis, Ranking_proofs, FiniteSetTheorems, WellFoundedInduction, TLAPS

-----------------------------------------------------------------------------
(* What is recursive over the numbers.                                       *)

\* Every set of numbers has a least.
LEMMA LeastNat ==
  ASSUME NEW F, F \subseteq Nat, F # {}
  PROVE  \E n \in F : \A m \in F : n <= m
<1> DEFINE R == OpToRel(<, Nat)
<1>1. IsWellFoundedOn(R, Nat)
  BY NatLessThanWellFounded, Zenon
<1>2. \A m, n \in Nat : <<m, n>> \in R <=> m < n
  BY DEF OpToRel
<1> HIDE DEF R
<1>3. PICK n \in F : \A m \in F : <<m, n>> \notin R
  BY <1>1, WFMin
<1>4. \A m \in F : ~(m < n)
  BY <1>2, <1>3
<1> QED
  BY <1>4

Iterates(g, x0, st) ==
  /\ g[0] = x0
  /\ \A n \in Nat : n # 0 => g[n] = st[g[n - 1]]

\* A step repeated makes a sequence: no step is without the next.
LEMMA NatIteration ==
  ASSUME NEW V, NEW x0 \in V, NEW st \in [V -> V]
  PROVE  \E g \in [Nat -> V] : Iterates(g, x0, st)
<1> DEFINE P(n, g) == /\ g \in [0 .. n -> V] /\ g[0] = x0
                      /\ \A k \in 1 .. n : g[k] = st[g[k - 1]]
<1>1. \A n \in Nat : \E g : P(n, g)
  <2> DEFINE F == {n \in Nat : ~\E g : P(n, g)}
  <2> SUFFICES ASSUME F # {} PROVE FALSE
    OBVIOUS
  <2>1. PICK n \in F : \A m \in F : n <= m
    BY LeastNat
  <2>2. n # 0
    <3>1. P(0, [k \in 0 .. 0 |-> x0])
      OBVIOUS
    <3> QED
      BY <3>1
  <2>3. n - 1 \in Nat /\ n - 1 \notin F
    <3>1. n \in Nat
      BY <2>1
    <3> HIDE DEF F
    <3>2. n - 1 \in Nat /\ ~(n <= n - 1)
      BY <2>2, <3>1
    <3> QED
      BY <2>1, <3>2
  <2>4. PICK g : P(n - 1, g)
    BY <2>3
  <2> DEFINE h == [k \in 0 .. n |-> IF k = n THEN st[g[n - 1]] ELSE g[k]]
  <2>5. P(n, h)
    <3>1. g[n - 1] \in V
      BY <2>3, <2>4
    <3>2. h \in [0 .. n -> V]
      BY <2>1, <2>4, <3>1
    <3>3. h[0] = x0
      BY <2>1, <2>2, <2>4
    <3>4. ASSUME NEW k \in 1 .. n PROVE h[k] = st[h[k - 1]]
      BY <2>1, <2>2, <2>4
    <3> QED
      BY <3>2, <3>3, <3>4
  <2> QED
    BY <2>1, <2>5
<1>2. ASSUME NEW n \in Nat, NEW m \in Nat, NEW g, NEW h, P(n, g), P(m, h)
      PROVE  \A k \in Nat : k <= n /\ k <= m => g[k] = h[k]
  <2> DEFINE F == {k \in Nat : k <= n /\ k <= m /\ g[k] # h[k]}
  <2> SUFFICES ASSUME F # {} PROVE FALSE
    OBVIOUS
  <2>1. PICK k \in F : \A j \in F : k <= j
    BY LeastNat
  <2>2. k # 0
    BY <1>2, <2>1
  <2>3. k - 1 \in Nat /\ k - 1 \notin F
    BY <2>1, <2>2
  <2>4. g[k - 1] = h[k - 1]
    BY <2>1, <2>3
  <2>5. g[k] = st[g[k - 1]] /\ h[k] = st[h[k - 1]]
    BY <1>2, <2>1, <2>2
  <2> QED
    BY <2>1, <2>4, <2>5
<1> DEFINE at(n) == CHOOSE g : P(n, g)
           G == [n \in Nat |-> at(n)[n]]
<1>3. \A n \in Nat : P(n, at(n))
  BY <1>1
<1> HIDE DEF at
<1>4. G[0] = x0
  BY <1>3
<1>5. ASSUME NEW n \in Nat, n # 0 PROVE G[n] = st[G[n - 1]]
  <2>1. P(n, at(n)) /\ P(n - 1, at(n - 1)) /\ n - 1 \in Nat
    BY <1>3, <1>5
  <2>2. at(n)[n - 1] = at(n - 1)[n - 1]
    BY <1>2, <2>1
  <2>3. at(n)[n] = st[at(n)[n - 1]]
    BY <2>1, <1>5
  <2> QED
    BY <2>1, <2>2, <2>3
<1>6. Iterates(G, x0, st)
  BY <1>4, <1>5 DEF Iterates
<1>7. G \in [Nat -> V]
  BY <1>3
<1> QED
  BY <1>6, <1>7

-----------------------------------------------------------------------------
(* Identity: what gathering the keys by their addresses can come to.         *)

\* An address decides the key of whoever signs with it, whatever the name.
LEMMA AddressDecidesKey ==
  ASSUME NEW s \in Signatures, NEW r \in Signatures,
         s.email = r.email, s.email # Nobody
  PROVE  KeyOf(s) = KeyOf(r)
BY DEF KeyOf

\* The union-find of actors.py never joins two records: whatever accounts and
\* signatures a repository has, no address is found under two keys. Who commits
\* under an address of his own stays another person than his account.
THEOREM NobodyIsGathered ==
  ASSUME NEW i \in Keys, NEW j \in Keys, SameAddress(i, j)
  PROVE  i = j
<1>1. PICK e \in Emails(i) \intersect Emails(j) : ~RoleAddress(e)
  BY DEF SameAddress
<1>2. e # Nobody
  BY <1>1, BlankIsNoAddress DEF Emails
<1>3. PICK s \in Signatures : KeyOf(s) = i /\ s.email = e
  BY <1>1 DEF Emails
<1>4. PICK r \in Signatures : KeyOf(r) = j /\ r.email = e
  BY <1>1 DEF Emails
<1> QED
  BY <1>2, <1>3, <1>4, AddressDecidesKey

-----------------------------------------------------------------------------
(* The parts that a cluster falls into.                                      *)

Closed(C, S, P) ==
  C \in SUBSET S /\ \A p \in P : p \subseteq S /\ p \intersect C # {} => p \subseteq C

LEMMA ComponentDef ==
  ASSUME NEW n, NEW m, NEW S, NEW P
  PROVE  m \in Component(n, S, P) <=>
           m \in S /\ \A C \in SUBSET S : n \in C /\ Closed(C, S, P) => m \in C
BY DEF Component, Closed

\* What no pair of P leaves, no pair of P enters.
LEMMA ClosedOutside ==
  ASSUME NEW S, NEW P, NEW C, Closed(C, S, P)
  PROVE  Closed(S \ C, S, P)
BY DEF Closed

LEMMA ComponentReflexive ==
  ASSUME NEW S, NEW P, NEW n \in S
  PROVE  n \in Component(n, S, P)
BY ComponentDef

LEMMA ComponentSame ==
  ASSUME NEW S, NEW P, NEW n \in S, NEW m \in Component(n, S, P)
  PROVE  Component(m, S, P) = Component(n, S, P)
<1>1. m \in S /\ \A C \in SUBSET S : n \in C /\ Closed(C, S, P) => m \in C
  BY ComponentDef
<1>2. \A C \in SUBSET S : m \in C /\ Closed(C, S, P) => n \in C
  <2> SUFFICES ASSUME NEW C \in SUBSET S, m \in C, Closed(C, S, P), n \notin C
               PROVE  FALSE
    OBVIOUS
  <2>1. Closed(S \ C, S, P)
    BY ClosedOutside
  <2> QED
    BY <1>1, <2>1
<1>3. \A x : x \in Component(m, S, P) <=> x \in Component(n, S, P)
  BY <1>1, <1>2, ComponentDef
<1> QED
  BY <1>3

IsPartition(K, S) ==
  /\ UNION K = S
  /\ \A A, B \in K : A = B \/ A \intersect B = {}
  /\ {} \notin K

LEMMA ComponentsPartition ==
  ASSUME NEW S, NEW P
  PROVE  IsPartition(Components(S, P), S)
<1>1. \A n \in S : n \in Component(n, S, P) /\ Component(n, S, P) \subseteq S
  BY ComponentReflexive, ComponentDef
<1>2. UNION Components(S, P) = S /\ {} \notin Components(S, P)
  BY <1>1 DEF Components
<1>3. ASSUME NEW A \in Components(S, P), NEW B \in Components(S, P), NEW x \in A \intersect B
      PROVE  A = B
  <2>1. PICK a \in S : A = Component(a, S, P)
    BY DEF Components
  <2>2. PICK b \in S : B = Component(b, S, P)
    BY DEF Components
  <2> QED
    BY <2>1, <2>2, <1>3, ComponentSame
<1> QED
  BY <1>2, <1>3 DEF IsPartition

\* Each block of a partition is partitioned in turn.
LEMMA BlockByBlock ==
  ASSUME NEW K, NEW S, IsPartition(K, S),
         NEW parts, \A A \in K : IsPartition(parts[A], A)
  PROVE  IsPartition(UNION {parts[A] : A \in K}, S)
<1> DEFINE L == UNION {parts[A] : A \in K}
<1>1. UNION L = S
  BY DEF IsPartition
<1>2. {} \notin L
  BY DEF IsPartition
<1>3. ASSUME NEW B \in L, NEW C \in L, B \intersect C # {}
      PROVE  B = C
  <2>1. PICK A \in K : B \in parts[A]
    OBVIOUS
  <2>2. PICK D \in K : C \in parts[D]
    OBVIOUS
  <2>3. B \subseteq A /\ C \subseteq D
    BY <2>1, <2>2 DEF IsPartition
  <2>4. A = D
    BY <2>3, <1>3 DEF IsPartition
  <2> QED
    BY <2>1, <2>2, <2>4, <1>3 DEF IsPartition
<1> QED
  BY <1>1, <1>2, <1>3 DEF IsPartition

LEMMA PartsPartition ==
  ASSUME NEW S, S # {}
  PROVE  IsPartition(Parts(S), S)
<1>1. CASE Cardinality(S) <= SplitThreshold
  BY <1>1 DEF Parts, IsPartition
<1>2. CASE ~(Cardinality(S) <= SplitThreshold)
  <2> DEFINE K == Components(S, TierPairs({"A", "B"}))
             parts == [A \in K |-> IF Cardinality(A) <= HardMax THEN {A}
                                   ELSE Components(A, TierPairs({"A"}))]
  <2>1. IsPartition(K, S)
    BY ComponentsPartition
  <2>2. ASSUME NEW A \in K
        PROVE  IsPartition(parts[A], A)
    <3>1. A # {}
      BY <2>1 DEF IsPartition
    <3>2. IsPartition({A}, A)
      BY <3>1 DEF IsPartition
    <3>3. IsPartition(Components(A, TierPairs({"A"})), A)
      BY ComponentsPartition
    <3> QED
      BY <3>2, <3>3
  <2>3. IsPartition(UNION {parts[A] : A \in K}, S)
    <3> HIDE DEF K, parts
    <3> QED
      BY <2>1, <2>2, BlockByBlock
  <2>4. Parts(S) = UNION {parts[A] : A \in K}
    BY <1>2 DEF Parts
  <2> QED
    BY <2>3, <2>4
<1> QED
  BY <1>1, <1>2

\* Whatever the moves have made of the membership, it proposes a partition.
LEMMA ProposedPartition == IsPartition(Proposed, Members)
BY DEF Proposed, IsPartition

LEMMA ConstrainPartitions ==
  ASSUME Constrain
  PROVE  IsPartition(clusters', Members)
<1> DEFINE parts == [S \in Proposed |-> Parts(S)]
<1>1. \A S \in Proposed : IsPartition(parts[S], S)
  BY ProposedPartition, PartsPartition DEF IsPartition
<1>2. IsPartition(UNION {parts[S] : S \in Proposed}, Members)
  <2> HIDE DEF parts
  <2> QED
    BY <1>1, ProposedPartition, BlockByBlock
<1>3. clusters' = UNION {parts[S] : S \in Proposed}
  BY DEF Constrain
<1> QED
  BY <1>2, <1>3

-----------------------------------------------------------------------------
(* Reapplications: the rows of Phase 1 and the edges of the graph.           *)

LEMMA OthersDoNotReapply ==
  ASSUME NEW t, NEW E
  PROVE  \A e \in FlagEdges(t) \union IssueEdges(t) \union EvidenceEdges(t)
                  \union TierB(t) \union SemanticEdges(t, E) :
           e.type # "reapplies"
<1>1. \A sharers, type, most, limit : \A e \in Shared(sharers, type, most, limit) :
        e.type = type
  BY DEF Shared, Joined, MakeEdge
<1>2. \A e \in FlagEdges(t) : e.type # "reapplies"
  BY <1>1 DEF FlagEdges, MakeEdge
<1>3. \A e \in IssueEdges(t) : e.type # "reapplies"
  BY <1>1 DEF IssueEdges
<1>4. \A e \in EvidenceEdges(t) : e.type # "reapplies"
  BY DEF EvidenceEdges, MakeEdge
<1>5. \A e \in StackedBranches(t) \union NamedEntities(t) : e.type # "reapplies"
  BY DEF StackedBranches, NamedEntities, Joined, MakeEdge
<1>6. \A e \in SymbolDownstream(t) : e.type # "reapplies"
  BY DEF SymbolDownstream, Joined, MakeEdge
<1>7. \A e \in MigrationDependency(t) : e.type # "reapplies"
  BY DEF MigrationDependency, Joined, MakeEdge
<1>8. \A e \in SemanticEdges(t, E) : e.type # "reapplies"
  BY DEF SemanticEdges, Joined, MakeEdge
<1> QED
  BY <1>2, <1>3, <1>4, <1>5, <1>6, <1>7, <1>8 DEF TierB

TargetOf(l) == IF l.target \in PRs THEN PullRequest(l.target) ELSE <<"issue", l.target>>

\* The edge that a row of Phase 1 gives.
OfLink(t, l) ==
  LET tierA == l.type \in DOMAIN TierAFromPhase1
      type  == IF tierA THEN TierAFromPhase1[l.type] ELSE TierBFromPhase1[l.type]
      generic == /\ l.target \in PRs
                 /\ {l.source, l.target} \intersect t.generic # {}
                 /\ type \in {"direct_mention", "follow_up"}
  IN  MakeEdge(PullRequest(l.source),
               TargetOf(l), type, IF tierA THEN "A" ELSE "B",
               IF generic THEN "demoted" ELSE "none", ~generic, 0)

LEMMA Phase1EdgesDef ==
  ASSUME NEW t, NEW e
  PROVE  e \in Phase1Edges(t) <=>
           \E l \in t.links : /\ l.type \in DOMAIN TierAFromPhase1 \union DOMAIN TierBFromPhase1
                              /\ e = OfLink(t, l)
BY DEF Phase1Edges, OfLink, TargetOf

LEMMA Phase1Reapplies ==
  ASSUME NEW t
  PROVE  /\ \A e \in Phase1Edges(t) : e.type = "reapplies" =>
              \E l \in t.links : /\ l.type = "reapplies"
                                 /\ e.tier = "A" /\ e.via = 0
                                 /\ e.source = PullRequest(l.source)
                                 /\ e.target = TargetOf(l)
         /\ \A l \in t.links : l.type = "reapplies" /\ l.target \in PRs =>
              \E e \in Phase1Edges(t) : /\ e.type = "reapplies"
                                        /\ e.source = PullRequest(l.source)
                                        /\ e.target = PullRequest(l.target)
<1>1. /\ DOMAIN TierAFromPhase1 = {"closes_issue", "timeline_connected", "reverts",
                                  "reapplies", "supersedes", "references_pr"}
      /\ TierAFromPhase1["closes_issue"] = "closes_issue"
      /\ TierAFromPhase1["timeline_connected"] = "timeline_connected"
      /\ TierAFromPhase1["reverts"] = "reverts"
      /\ TierAFromPhase1["reapplies"] = "reapplies"
      /\ TierAFromPhase1["supersedes"] = "supersedes"
      /\ TierAFromPhase1["references_pr"] = "direct_mention"
  BY DEF TierAFromPhase1
<1>2. /\ DOMAIN TierBFromPhase1 = {"follow_up", "part_of", "stacked_on"}
      /\ TierBFromPhase1["follow_up"] = "follow_up"
      /\ TierBFromPhase1["part_of"] = "part_of"
      /\ TierBFromPhase1["stacked_on"] = "depends_on"
  BY DEF TierBFromPhase1
<1> HIDE DEF TierAFromPhase1, TierBFromPhase1
<1>3. ASSUME NEW e \in Phase1Edges(t), e.type = "reapplies"
      PROVE  \E l \in t.links : /\ l.type = "reapplies"
                                /\ e.tier = "A" /\ e.via = 0
                                /\ e.source = PullRequest(l.source)
                                /\ e.target = TargetOf(l)
  <2>1. PICK l \in t.links :
          /\ l.type \in DOMAIN TierAFromPhase1 \union DOMAIN TierBFromPhase1
          /\ e = OfLink(t, l)
    BY Phase1EdgesDef
  <2>2. l.type = "reapplies"
    BY <1>1, <1>2, <1>3, <2>1 DEF OfLink, MakeEdge
  <2> QED
    BY <1>1, <1>3, <2>1, <2>2 DEF OfLink, MakeEdge
<1>4. ASSUME NEW l \in t.links, l.type = "reapplies", l.target \in PRs
      PROVE  \E e \in Phase1Edges(t) : /\ e.type = "reapplies"
                                       /\ e.source = PullRequest(l.source)
                                       /\ e.target = PullRequest(l.target)
  <2>1. OfLink(t, l) \in Phase1Edges(t)
    BY <1>1, <1>4, Phase1EdgesDef
  <2> QED
    BY <1>1, <1>4, <2>1 DEF OfLink, TargetOf, MakeEdge
<1> QED
  BY <1>3, <1>4

\* Only rows of Phase 1 give such edges, all of the best tier, and so what is
\* kept of several of one pair is one of them.
LEMMA GraphReapplies ==
  ASSUME NEW t, NEW e, e.type = "reapplies"
  PROVE  e \in GraphOf(t) <=> e \in Phase1Edges(t)
<1> DEFINE certain == TierA(t) \union TierB(t)
           E == certain \union SemanticEdges(t, Deduplicate(certain))
<1>1. GraphOf(t) = Deduplicate(E)
  BY DEF GraphOf
<1>2. \A f \in E : f.type = "reapplies" => f \in Phase1Edges(t)
  BY OthersDoNotReapply DEF TierA
<1>3. Phase1Edges(t) \subseteq E
  BY DEF TierA
<1> HIDE DEF E
<1>4. \A f \in E : SameKey(e, f) => f \in Phase1Edges(t) /\ f.type = "reapplies"
  BY <1>2 DEF SameKey
<1>5. \A f \in Phase1Edges(t) : f.type = "reapplies" => f.tier = "A" /\ f.via = 0
  BY Phase1Reapplies
<1>6. e \in Deduplicate(E) => e \in Phase1Edges(t)
  BY <1>2 DEF Deduplicate
<1>7. e \in Phase1Edges(t) => e \in Deduplicate(E)
  BY <1>3, <1>4, <1>5 DEF Deduplicate
<1> QED
  BY <1>1, <1>6, <1>7

Shaped(t) ==
  /\ t.eligible \subseteq PRs
  /\ t.merged \in [PRs -> Nat]
  /\ t.files \subseteq PRs \X Paths
  /\ \A l \in t.links : l.source \in PRs
  /\ IsFiniteSet(DOMAIN t.flags) /\ IsFiniteSet(DOMAIN t.migrations)
  /\ IsFiniteSet(DOMAIN t.names)

LEMMA ImageIsFinite ==
  ASSUME NEW S, IsFiniteSet(S), NEW f
  PROVE  IsFiniteSet({f[x] : x \in S})
<1> DEFINE T == {f[x] : x \in S}
           g == [x \in S |-> f[x]]
<1>1. g \in Surjection(S, T)
  BY DEF Surjection
<1> QED
  BY <1>1, FS_Surjection

LEMMA EventsDef ==
  /\ \A event \in Events : \E n \in subject : \E e \in Signals(n) : event = <<n, e>>
  /\ \A n \in subject : \A e \in Signals(n) : <<n, e>> \in Events
BY DEF Events

LEMMA RetitledRevert ==
  ASSUME NEW t, NEW n
  PROVE  \A e \in Retitled(t, n) : \E m \in PRs : e = [type |-> "reverted_by", by |-> m]
BY Zenon DEF Retitled

LEMMA ReapplyingSignals ==
  ASSUME NEW n
  PROVE  (\E e \in Explicit(tables, n) : e.type = "reapplies")
           <=> \E l \in tables.links : l.target = n /\ l.type = "reapplies"
<1>1. \A e \in Explicit(tables, n) : e.type = "reapplies" => e \in Stated(tables, n)
  <2>1. \A e \in Retitled(tables, n) : e.type = "reverted_by"
    BY RetitledRevert
  <2> QED
    BY <2>1 DEF Explicit
<1>2. \A e \in Stated(tables, n) : \E l \in tables.links : l.target = n /\ e.type = l.type
  BY DEF Stated
<1>3. ASSUME NEW l \in tables.links, l.target = n, l.type = "reapplies"
      PROVE  [type |-> l.type, by |-> l.source] \in Explicit(tables, n)
  BY <1>3 DEF Explicit, Stated
<1>4. ASSUME NEW e \in Explicit(tables, n), e.type = "reapplies"
      PROVE  \E l \in tables.links : l.target = n /\ l.type = "reapplies"
  BY <1>1, <1>2, <1>4
<1>5. ASSUME NEW l \in tables.links, l.target = n, l.type = "reapplies"
      PROVE  \E e \in Explicit(tables, n) : e.type = "reapplies"
  <2>1. [type |-> l.type, by |-> l.source].type = "reapplies"
    BY <1>5
  <2> QED
    BY <1>3, <1>5, <2>1
<1> QED
  BY <1>4, <1>5

\* What the episode's record and its counterevidence are told is the same.
LEMMA ReappliedIsPointedAt ==
  ASSUME edges = GraphOf(tables), subject \subseteq PRs
  PROVE  PointedAt("reapplies") <=> Reapplied
<1>1. Reapplied <=> \E n \in subject, l \in tables.links : l.target = n /\ l.type = "reapplies"
  BY ReapplyingSignals DEF Reapplied
<1>2. ASSUME PointedAt("reapplies") PROVE Reapplied
  <2>1. PICK e \in edges, n \in subject : e.type = "reapplies" /\ e.target = PullRequest(n)
    BY <1>2 DEF PointedAt
  <2>2. e \in Phase1Edges(tables)
    BY <2>1, GraphReapplies
  <2>3. PICK l \in tables.links :
          /\ l.type = "reapplies"
          /\ e.target = TargetOf(l)
    BY <2>1, <2>2, Phase1Reapplies
  <2>4. l.target = n
    BY <2>1, <2>3 DEF PullRequest, TargetOf
  <2> QED
    BY <1>1, <2>3, <2>4
<1>3. ASSUME Reapplied PROVE PointedAt("reapplies")
  <2>1. PICK n \in subject, l \in tables.links : l.target = n /\ l.type = "reapplies"
    BY <1>1, <1>3
  <2>2. PICK e \in Phase1Edges(tables) : /\ e.type = "reapplies"
                                         /\ e.source = PullRequest(l.source)
                                         /\ e.target = PullRequest(l.target)
    BY <2>1, Phase1Reapplies
  <2>3. e \in edges
    BY <2>2, GraphReapplies
  <2>4. e.source[1] = "pull_request"
    BY <2>2 DEF PullRequest
  <2> QED
    BY <2>1, <2>2, <2>3, <2>4 DEF PointedAt
<1> QED
  BY <1>2, <1>3

\* Everything that an edge or a title states comes from one of the pull requests.
LEMMA ExplicitSignals ==
  ASSUME Shaped(tables), NEW n
  PROVE  /\ \A e \in Explicit(tables, n) : e.type \in DOMAIN TypeOrder /\ e.by \in PRs
         /\ IsFiniteSet(Explicit(tables, n))
<1>1. DOMAIN TypeOrder = {"reapplies", "reverts", "supersedes", "reverted_by"}
  BY DEF TypeOrder
<1>2. ASSUME NEW e \in Stated(tables, n)
      PROVE  \E type \in DOMAIN TypeOrder, m \in PRs : e = [type |-> type, by |-> m]
  <2>1. PICK l \in tables.links : /\ e = [type |-> l.type, by |-> l.source]
                                  /\ l.type \in {"reverts", "reapplies", "supersedes"}
    BY <1>2 DEF Stated
  <2> QED
    BY <1>1, <2>1 DEF Shaped
<1>3. ASSUME NEW e \in Retitled(tables, n)
      PROVE  \E type \in DOMAIN TypeOrder, m \in PRs : e = [type |-> type, by |-> m]
  BY <1>1, <1>3, RetitledRevert
<1>4. \A e \in Explicit(tables, n) : \E type \in DOMAIN TypeOrder, m \in PRs :
        e = [type |-> type, by |-> m]
  BY <1>2, <1>3 DEF Explicit
<1> DEFINE pairs == (DOMAIN TypeOrder) \X PRs
           signal == [x \in pairs |-> [type |-> x[1], by |-> x[2]]]
           all == {signal[x] : x \in pairs}
<1>5. IsFiniteSet(DOMAIN TypeOrder)
  <2> DEFINE one(x) == {x}
  <2>1. \A x : IsFiniteSet(one(x))
    BY FS_Singleton
  <2>2. DOMAIN TypeOrder = (one("reapplies") \union one("reverts"))
                            \union (one("supersedes") \union one("reverted_by"))
    BY <1>1
  <2> HIDE DEF one
  <2>3. /\ IsFiniteSet(one("reapplies") \union one("reverts"))
        /\ IsFiniteSet(one("supersedes") \union one("reverted_by"))
    BY <2>1, FS_Union
  <2> QED
    BY <2>2, <2>3, FS_Union
<1>6. IsFiniteSet(pairs)
  BY <1>5, NumbersAssumption, FS_Product
<1>7. IsFiniteSet(all)
  <2> HIDE DEF pairs, signal
  <2> QED
    BY <1>6, ImageIsFinite
<1>8. Explicit(tables, n) \in SUBSET all
  <2> SUFFICES ASSUME NEW e \in Explicit(tables, n) PROVE e \in all
    OBVIOUS
  <2>1. PICK type \in DOMAIN TypeOrder, m \in PRs : e = [type |-> type, by |-> m]
    BY <1>4
  <2>2. <<type, m>> \in pairs /\ signal[<<type, m>>] = e
    BY <2>1
  <2> HIDE DEF pairs, signal
  <2> QED
    BY <2>2
<1>9. IsFiniteSet(Explicit(tables, n))
  <2> HIDE DEF all
  <2> QED
    BY <1>7, <1>8, FS_Subset
<1> QED
  BY <1>4, <1>9

\* Nothing is ahead of itself, and so as many signals as are classed are all classed.
LEMMA FewAreKept ==
  ASSUME Shaped(tables), NEW n, ~(Cardinality(Explicit(tables, n)) > MaxSignals)
  PROVE  Classed(Explicit(tables, n)) = Explicit(tables, n)
<1> DEFINE S == Explicit(tables, n)
<1>1. IsFiniteSet(S) /\ Cardinality(S) \in Nat /\ Cardinality(S) <= MaxSignals
  BY ExplicitSignals, FS_CardinalityType, SignalsAssumption
<1>2. ASSUME NEW e \in S
      PROVE  Cardinality({d \in S : Ahead(d, e)}) < MaxSignals
  <2> DEFINE before == {d \in S : Ahead(d, e)}
  <2>1. ~Ahead(e, e)
    <3>1. e.type \in DOMAIN TypeOrder /\ e.by \in Nat
      BY ExplicitSignals, NumbersAssumption
    <3>2. TypeOrder[e.type] \in Nat
      BY <3>1 DEF TypeOrder
    <3> QED
      BY <3>1, <3>2 DEF Ahead
  <2>2. before \in SUBSET (S \ {e})
    BY <2>1
  <2>3. IsFiniteSet(S \ {e}) /\ Cardinality(S \ {e}) = Cardinality(S) - 1
    BY <1>1, FS_RemoveElement
  <2> HIDE DEF before, S
  <2>4. IsFiniteSet(before) /\ Cardinality(before) <= Cardinality(S) - 1
    BY <2>2, <2>3, FS_Subset
  <2>5. Cardinality(before) \in Nat
    BY <2>4, FS_CardinalityType
  <2> QED
    BY <1>1, <2>4, <2>5, SignalsAssumption DEF before
<1> QED
  BY <1>2 DEF Classed

LEMMA KeptAreSignals ==
  ASSUME NEW S
  PROVE  Classed(S) \subseteq S
BY DEF Classed

LEMMA SignalReverts ==
  ASSUME NEW n, NEW e
  PROVE  /\ CorrectiveClass(n, e) = "confirmed_revert" <=> e.type \in {"reverts", "reverted_by"}
         /\ e \in Signals(n) /\ e.type \in {"reverts", "reverted_by"} => e \in Explicit(tables, n)
         /\ e \in Classed(Explicit(tables, n)) => e \in Signals(n)
<1>1. CorrectiveClass(n, e) = "confirmed_revert" <=> e.type \in {"reverts", "reverted_by"}
  BY DEF CorrectiveClass
<1>2. /\ \A x \in {[type |-> "linked", by |-> m] : m \in Linked(tables, n)} : x.type = "linked"
      /\ \A x \in {[type |-> "proximate", by |-> m] : m \in Proximate(tables, n)} :
           x.type = "proximate"
  OBVIOUS
<1>3. e \in Signals(n) /\ e.type \in {"reverts", "reverted_by"} => e \in Explicit(tables, n)
  BY <1>2, KeptAreSignals DEF Signals
<1>4. e \in Classed(Explicit(tables, n)) => e \in Signals(n)
  BY DEF Signals
<1> QED
  BY <1>1, <1>3, <1>4

\* Counterevidence sees a revert only where there is one, and each that is among
\* the first signals.
LEMMA RevertedIsWasReverted ==
  ASSUME Shaped(tables)
  PROVE  /\ Reverted => \E n \in subject : WasReverted(tables, n)
         /\ \A n \in subject : WasReverted(tables, n)
              /\ ~(Cardinality(Explicit(tables, n)) > MaxSignals) => Reverted
<1>1. ASSUME Reverted
      PROVE  \E n \in subject : WasReverted(tables, n)
  <2>1. PICK event \in Events : CorrectiveClass(event[1], event[2]) = "confirmed_revert"
    BY <1>1 DEF Reverted, ClassOf
  <2>2. PICK n \in subject : \E e \in Signals(n) : event = <<n, e>>
    BY EventsDef
  <2>3. PICK e \in Signals(n) : event = <<n, e>>
    BY <2>2
  <2>4. CorrectiveClass(n, e) = "confirmed_revert"
    BY <2>1, <2>3
  <2> QED
    BY <2>4, SignalReverts DEF WasReverted
<1>2. ASSUME NEW n \in subject, WasReverted(tables, n),
             ~(Cardinality(Explicit(tables, n)) > MaxSignals)
      PROVE  Reverted
  <2>1. PICK e \in Explicit(tables, n) : e.type \in {"reverts", "reverted_by"}
    BY <1>2 DEF WasReverted
  <2>2. e \in Signals(n)
    BY <1>2, FewAreKept, SignalReverts
  <2>3. <<n, e>> \in Events /\ <<n, e>>[1] = n /\ <<n, e>>[2] = e
    BY <2>2, EventsDef
  <2>4. ClassOf(<<n, e>>) = "confirmed_revert"
    BY <2>1, <2>3, SignalReverts DEF ClassOf
  <2> QED
    BY <2>3, <2>4 DEF Reverted
<1> QED
  BY <1>1, <1>2

LEMMA StatusIsConfirmed ==
  ASSUME Shaped(tables), edges = GraphOf(tables), subject \subseteq PRs
  PROVE  /\ Corrective.confirmed => Status = "reverted"
         /\ Status = "reverted" /\ ~Corrective.confirmed =>
              \A n \in subject : WasReverted(tables, n) =>
                Cardinality(Explicit(tables, n)) > MaxSignals
<1>1. (Status = "reverted") <=> (\E n \in subject : WasReverted(tables, n)) /\ ~PointedAt("reapplies")
  BY DEF Status
<1>2. Corrective.confirmed = (Reverted /\ ~Reapplied)
  BY DEF Corrective
<1> QED
  BY <1>1, <1>2, ReappliedIsPointedAt, RevertedIsWasReverted

\* Nothing that stayed reverted counts as released.
LEMMA RevertedIsNotReleased ==
  ReleaseCorroborated => Status # "reverted"
BY DEF ReleaseCorroborated
-----------------------------------------------------------------------------
(* The invariant.  What a stage was given is what the stages before it made. *)

GraphPhases == {"weigh", "sweep", "constrain", "clustered", "walk", "recorded", "analysed"}

TablesInv ==
  /\ phase = "features" => tables \in Repositories
  /\ phase \in {"graph"} \union GraphPhases => Shaped(tables)

GraphInv == phase \in GraphPhases => edges = GraphOf(tables)

ClustersInv ==
  phase \in {"clustered", "walk", "recorded", "analysed"} => IsPartition(clusters, Members)

SubjectInv == phase \in {"walk", "recorded", "analysed"} => subject \in clusters

StageInv == TablesInv /\ GraphInv /\ ClustersInv /\ SubjectInv

\* Only a pull request states a link.
LEMMA LinksAreOfPRs ==
  ASSUME NEW t \in Repositories
  PROVE  \A l \in BuildEdges(t) : l.source \in PRs
<1> DEFINE u == Extended(t, [links |-> {}])
<1>1. u \in Tables
  BY RepositoriesAssumption
<1> HIDE DEF u
<1>2. /\ u["references"] \in SUBSET [
           source : ({"pull_request"} \X PRs) \union ({"issue"} \X Issues),
           how : {"api", "timeline", "closing", "mention"}, target : PRs \union Issues]
      /\ u["flags"] \in Seq(SUBSET PRs)
      /\ {"references", "flags"} \subseteq DOMAIN u
  BY <1>1 DEF Tables
<1>3. t.references = u["references"] /\ t.flags = u["flags"]
  BY <1>2 DEF Extended, u
<1>4. ASSUME NEW l \in StatedLinks(t)
      PROVE  l.source \in PRs
  <2>1. PICK r \in t.references : /\ r.source[1] = "pull_request"
                                  /\ \E type \in TypesOf(t, r) : l = LinkOf(type, r.source[2], r.target)
    BY <1>4 DEF StatedLinks
  <2>2. r.source \in ({"pull_request"} \X PRs) \union ({"issue"} \X Issues)
    BY <1>2, <1>3
  <2>3. r.source[2] \in PRs
    BY <2>1, <2>2
  <2> QED
    BY <2>1, <2>3 DEF LinkOf
<1>5. ASSUME NEW sharers, NEW type, NEW most, \A k \in DOMAIN sharers : sharers[k] \subseteq PRs,
             NEW l \in Cooccurring(sharers, type, most)
      PROVE  l.source \in PRs
  BY <1>5 DEF Cooccurring, InOrder, LinkOf
<1>6. \A k \in DOMAIN t.flags : t.flags[k] \subseteq PRs
  BY <1>2, <1>3
<1> DEFINE closers(x) == {l.source : l \in {k \in StatedLinks(t) : k.type = "closes_issue" /\ k.target = x}}
           by == [x \in Issues \union PRs |-> closers(x)]
<1>7. \A k \in DOMAIN by : by[k] \subseteq PRs
  BY <1>4
<1>8. BuildEdges(t) = StatedLinks(t)
                      \union Cooccurring(t.flags, "shared_feature_flag", FlagPRs)
                      \union Cooccurring(by, "shared_issue", IssuePRs)
  BY DEF BuildEdges
<1> HIDE DEF by
<1> QED
  BY <1>4, <1>5, <1>6, <1>7, <1>8

LEMMA TablesAreShaped ==
  ASSUME NEW t \in Repositories, NEW x, \A l \in x : l.source \in PRs
  PROVE  Shaped(Extended(t, [links |-> x]))
<1> DEFINE u == Extended(t, [links |-> {}])
           w == Extended(t, [links |-> x])
<1>1. u \in Tables
  BY RepositoriesAssumption
<1> HIDE DEF u
<1>2. /\ u["eligible"] \in SUBSET PRs /\ "eligible" \in DOMAIN u
      /\ u["merged"] \in [PRs -> Nat] /\ "merged" \in DOMAIN u
      /\ u["files"] \in SUBSET (PRs \X Paths) /\ "files" \in DOMAIN u
      /\ u["flags"] \in Seq(SUBSET PRs) /\ "flags" \in DOMAIN u
      /\ u["migrations"] \in Seq(SUBSET PRs) /\ "migrations" \in DOMAIN u
      /\ u["names"] \in Seq(SUBSET PRs) /\ "names" \in DOMAIN u
  BY <1>1 DEF Tables
<1> DEFINE fields == {"eligible", "merged", "files", "flags", "migrations", "names"}
<1>3. fields \subseteq DOMAIN t
  BY <1>2 DEF Extended, u
<1>4. \A k \in fields : u[k] = t[k] /\ w[k] = t[k]
  BY <1>3 DEF Extended, u
<1>5. ASSUME NEW q \in Seq(SUBSET PRs) PROVE IsFiniteSet(DOMAIN q)
  <2>1. DOMAIN q = 1 .. Len(q) /\ Len(q) \in Nat
    OBVIOUS
  <2> QED
    BY <2>1, FS_Interval
<1> HIDE DEF w
<1>6. /\ w.eligible \subseteq PRs /\ w.merged \in [PRs -> Nat]
      /\ w.files \subseteq PRs \X Paths
  BY <1>2, <1>4
<1>7. /\ w.flags \in Seq(SUBSET PRs) /\ w.migrations \in Seq(SUBSET PRs)
      /\ w.names \in Seq(SUBSET PRs)
  BY <1>2, <1>4
<1>8. \A l \in w.links : l.source \in PRs
  <2>1. CASE "links" \in DOMAIN t
    <3>1. w.links = t["links"] /\ u["links"] = t["links"]
      BY <2>1 DEF Extended, u, w
    <3>2. \A l \in u["links"] : l.source \in PRs
      BY <1>1 DEF Tables
    <3> QED
      BY <3>1, <3>2
  <2>2. CASE "links" \notin DOMAIN t
    <3>1. w.links = x
      BY <2>2 DEF Extended, w
    <3> QED
      BY <3>1
  <2> QED
    BY <2>1, <2>2
<1> QED
  BY <1>5, <1>6, <1>7, <1>8 DEF Shaped, w

LEMMA InitStageInv == Init => StageInv
BY DEF Init, StageInv, TablesInv, GraphInv, ClustersInv, SubjectInv, GraphPhases

LEMMA NextStageInv == StageInv /\ [Next]_vars => StageInv'
<1> SUFFICES ASSUME StageInv, [Next]_vars PROVE StageInv'
  OBVIOUS
<1> USE DEF StageInv, TablesInv, GraphInv, ClustersInv, SubjectInv, GraphPhases
<1>1. CASE StageFeatures
  <2>1. Shaped(tables')
    <3>1. tables \in Repositories /\ tables' = Extended(tables, [links |-> BuildEdges(tables)])
      BY <1>1 DEF StageFeatures
    <3>2. \A l \in BuildEdges(tables) : l.source \in PRs
      BY <3>1, LinksAreOfPRs
    <3> QED
      BY <3>1, <3>2, TablesAreShaped
  <2> QED
    BY <1>1, <2>1 DEF StageFeatures
<1>2. CASE StageGraph
  BY <1>2 DEF StageGraph
<1>3. CASE Cluster
  <2>1. CASE Constrain
    <3>1. IsPartition(clusters', Members')
      BY <2>1, ConstrainPartitions DEF Constrain, Members
    <3> QED
      BY <2>1, <3>1 DEF Constrain, Members
  <2>2. CASE Weigh \/ MoveNode \/ SweepAgain \/ Aggregate \/ Converge
    <3>1. /\ tables' = tables /\ edges' = edges
          /\ phase \in {"weigh", "sweep"} /\ phase' \in {"sweep", "constrain"}
      BY <2>2 DEF Weigh, MoveNode, SweepAgain, Aggregate, LevelOver, Converge
    <3> QED
      BY <3>1
  <2> QED
    BY <1>3, <2>1, <2>2 DEF Cluster
<1>4. CASE Follow
  BY <1>4 DEF Follow, Members
<1>5. CASE Visit \/ Deepen
  BY <1>5 DEF Visit, Deepen, clusterVars, Members
<1>6. CASE Record
  BY <1>6 DEF Record, WalkOver, Members
<1>7. CASE StageAnalytics
  BY <1>7 DEF StageAnalytics, Members
<1>8. CASE StageAttribute
  BY <1>8 DEF StageAttribute
<1>9. CASE StageDimensions \/ StagePortfolios
  BY <1>9 DEF StageDimensions, StagePortfolios
<1>10. CASE StageRank
  BY <1>10 DEF StageRank, clusterVars, walkVars, Members
<1>11. CASE UNCHANGED vars
  BY <1>11 DEF vars, clusterVars, walkVars, Members
<1> QED
  BY <1>1, <1>2, <1>3, <1>4, <1>5, <1>6, <1>7, <1>8, <1>9, <1>10, <1>11 DEF Next, StageEpisodes

LEMMA AlwaysStageInv == Spec => []StageInv
BY InitStageInv, NextStageInv, PTL DEF Spec

\* Every analysable pull request is in exactly one episode, whatever the moves of
\* Louvain's method have made of the membership and however the clusters that are
\* too large fall apart (clustering.py, build_episodes).
THEOREM EpisodesAlwaysPartition == Spec => []EpisodesPartition
<1>1. StageInv => EpisodesPartition
  BY DEF StageInv, ClustersInv, EpisodesPartition, IsPartition
<1> QED
  BY <1>1, AlwaysStageInv, PTL
-----------------------------------------------------------------------------
(* What the rubric's evaluators end with.                                    *)

LEMMA MinMax ==
  ASSUME NEW a \in Int, NEW b \in Int
  PROVE  /\ Min({a, b}) = IF a <= b THEN a ELSE b
         /\ Max({a, b}) = IF a >= b THEN a ELSE b
<1>1. \A y \in {a, b} : y \in Int
  OBVIOUS
<1>2. \E x \in {a, b} : \A y \in {a, b} : x <= y
  <2>1. CASE a <= b
    BY <2>1
  <2>2. CASE b < a
    BY <2>2
  <2> QED
    BY <2>1, <2>2
<1>3. \E x \in {a, b} : \A y \in {a, b} : x >= y
  <2>1. CASE a <= b
    BY <2>1
  <2>2. CASE b < a
    BY <2>2
  <2> QED
    BY <2>1, <2>2
<1>4. Min({a, b}) \in {a, b} /\ \A y \in {a, b} : Min({a, b}) <= y
  BY <1>2 DEF Min
<1>5. Max({a, b}) \in {a, b} /\ \A y \in {a, b} : Max({a, b}) >= y
  BY <1>3 DEF Max
<1> QED
  BY <1>4, <1>5

LEMMA GivenFinite ==
  ASSUME NEW class, NEW holds
  PROVE  /\ IsFiniteSet(Given(class, holds))
         /\ holds => Cardinality(Given(class, holds)) = 1
         /\ Cardinality(Given(class, holds)) \in Nat
<1>1. Given(class, holds) = {class} \/ Given(class, holds) = {}
  BY DEF Given
<1>2. holds => Given(class, holds) = {class}
  BY DEF Given
<1> QED
  BY <1>1, <1>2, FS_EmptySet, FS_Singleton, FS_CardinalityType

\* Thin evidence is not trusted fully, and doubt about the clustering is a reason.
LEMMA HighIsWithoutDoubt ==
  ASSUME NEW e, NEW f, Confidence(e, f) = "high"
  PROVE  ~e.doubtful
<1> SUFFICES ASSUME e.doubtful PROVE FALSE
  OBVIOUS
<1> DEFINE thread == Cardinality(f.thin \intersect {"thread truncated"})
           blinded == Cardinality(Given("", e.blinded))
           unconfirmed == Cardinality(Given("", e.unconfirmed))
           unmeasured == Cardinality(Given("", e.survival.unmeasured))
           doubtful == Cardinality(Given("", e.doubtful))
           merge == IF "no merge commit" \in f.thin THEN 2 ELSE 0
           steps == thread + blinded + unconfirmed + unmeasured + doubtful + merge
<1>1. thread \in Nat
  <2>1. IsFiniteSet({"thread truncated"})
    BY FS_Singleton
  <2>2. f.thin \intersect {"thread truncated"} \subseteq {"thread truncated"}
    OBVIOUS
  <2> QED
    BY <2>1, <2>2, FS_Subset, FS_CardinalityType
<1>2. blinded \in Nat /\ unconfirmed \in Nat /\ unmeasured \in Nat /\ doubtful = 1
  BY GivenFinite
<1>3. merge \in Nat
  OBVIOUS
<1>4. Confidence(e, f) = CASE steps = 0 -> "high" [] steps = 1 -> "medium" [] OTHER -> "low"
  BY DEF Confidence
<1> HIDE DEF thread, blinded, unconfirmed, unmeasured, doubtful, merge
<1>5. steps \in Nat /\ steps # 0
  BY <1>1, <1>2, <1>3
<1> HIDE DEF steps
<1> QED
  BY <1>4, <1>5

LEMMA ConfidenceType ==
  ASSUME NEW e, NEW f
  PROVE  Confidence(e, f) \in Confidences
BY DEF Confidence, Confidences

\* What a verdict shows for its band.
EarnedBy(r, e) ==
  r.band # Unknown =>
    /\ r.band \in Nat
    /\ r.band >= 3 => Cardinality(r.classes) >= Band3Classes
    /\ r.band = 4 => Cardinality(r.classes) >= Band4Classes /\ r.marker /\ ~e.doubtful

LEMMA VerdictEarned ==
  ASSUME NEW e, NEW f, NEW band \in Nat, NEW classes, IsFiniteSet(classes), NEW marker
  PROVE  /\ EarnedBy(Verdict(e, f, band, classes, marker), e)
         /\ Verdict(e, f, band, classes, marker).band \in Nat
         /\ Verdict(e, f, band, classes, marker).band <= band
         /\ DOMAIN Verdict(e, f, band, classes, marker) = {"band", "classes", "confidence", "marker"}
         /\ Verdict(e, f, band, classes, marker).confidence \in Confidences
<1> DEFINE n == Cardinality(classes)
           c == Confidence(e, f)
           cap == Cap(band, classes, c, marker)
<1>1. n \in Nat
  BY FS_CardinalityType
<1>2. c = "high" => ~e.doubtful
  BY HighIsWithoutDoubt
<1>5. c \in Confidences
  BY ConfidenceType
<1>3. Verdict(e, f, band, classes, marker) =
        [band |-> cap, classes |-> classes, confidence |-> c, marker |-> marker]
  BY DEF Verdict
<1> HIDE DEF c
<1>4. /\ cap \in Nat /\ cap <= band
      /\ cap >= 3 => n >= Band3Classes
      /\ cap = 4 => n >= Band4Classes /\ marker /\ c = "high"
  <2> HIDE DEF n
  <2> QED
    BY <1>1, ClassesAssumption DEF Cap, n
<1> HIDE DEF cap
<1> QED
  BY <1>2, <1>3, <1>4, <1>5 DEF EarnedBy

LEMMA PlainEarned ==
  ASSUME NEW e, NEW f, NEW band \in {0, 1, Unknown}, NEW classes
  PROVE  /\ EarnedBy(Plain(e, f, band, classes), e)
         /\ Plain(e, f, band, classes).band = band
         /\ DOMAIN Plain(e, f, band, classes) = {"band", "classes", "confidence", "marker"}
         /\ Plain(e, f, band, classes).confidence \in Confidences
BY ConfidenceType DEF Plain, EarnedBy

Verdicts(r) ==
  DOMAIN r = {"band", "classes", "confidence", "marker"} /\ r.confidence \in Confidences

LEMMA ProductOutcomeEarned ==
  ASSUME NEW e, NEW f
  PROVE  LET r == ProductOutcome(e, f)
         IN  /\ EarnedBy(r, e) /\ Verdicts(r)
             /\ r.band # Unknown /\ r.band > 2 => e.corroborated
<1> DEFINE classes == Given("linked_issue", e.issues # {})
                 \union Given("feature_flag", e.flagged)
                 \union Given("docs_or_changelog", e.documented)
                 \union Given("downstream_adoption", e.reach.prs > 0)
                 \union Given("test_coverage", f.tests)
                 \union Given("review_thread", e.reviewed)
           broad  == \/ f.products >= 2
                     \/ e.components >= BroadSpan /\ Cardinality(classes) >= 2
           band   == IF broad THEN (IF f.launch THEN 4 ELSE 3)
                     ELSE IF e.issues # {} \/ e.flagged \/ f.title THEN 2 ELSE 1
           level  == IF e.corroborated THEN band ELSE Min({band, 2})
           r      == ProductOutcome(e, f)
<1>1. IsFiniteSet(classes)
  BY GivenFinite, FS_Union
<1>2. band \in Nat
  OBVIOUS
<1>3. r = CASE e.changes = "nothing known" -> Plain(e, f, Unknown, {})
            [] e.changes = "mechanical"    -> Plain(e, f, 0, {})
            [] OTHER -> Verdict(e, f, level, classes, f.launch)
  BY DEF ProductOutcome
<1> HIDE DEF classes, band, r
<1>4. level \in Nat /\ (~e.corroborated => level <= 2)
  BY <1>2, MinMax
<1> HIDE DEF level
<1>5. r = Verdict(e, f, level, classes, f.launch) =>
        EarnedBy(r, e) /\ Verdicts(r) /\ (r.band # Unknown /\ r.band > 2 => e.corroborated)
  BY <1>1, <1>4, VerdictEarned DEF Verdicts
<1>6. r = Plain(e, f, Unknown, {}) \/ r = Plain(e, f, 0, {}) =>
        EarnedBy(r, e) /\ Verdicts(r) /\ (r.band # Unknown /\ r.band > 2 => e.corroborated)
  BY PlainEarned DEF Verdicts
<1> QED
  BY <1>3, <1>5, <1>6 DEF r

LEMMA ReliabilityRiskEarned ==
  ASSUME NEW e, NEW f
  PROVE  EarnedBy(ReliabilityRisk(e, f), e) /\ Verdicts(ReliabilityRisk(e, f))
<1> DEFINE concern  == \E i \in e.interventions : i.serious \intersect Safety # {}
           classes  == Given("risk_surface", f.surface # "none")
                  \union Given("test_coverage", f.tests)
                  \union Given("linked_issue", e.issues # {})
                  \union Given("migration", e.migrating)
                  \union Given("review_safety_thread", concern)
                  \union Given("incident_marker", f.incident)
           band     == IF f.surface = "high" /\ e.blast >= ProductReach
                       THEN (IF f.incident THEN 4 ELSE 3)
                       ELSE IF f.surface = "high" \/ (e.fixing /\ e.components > 1) THEN 2 ELSE 1
           level    == IF e.blast = UnknownReach THEN Min({band, 2}) ELSE band
           r        == ReliabilityRisk(e, f)
<1>1. IsFiniteSet(classes)
  BY GivenFinite, FS_Union
<1>2. band \in Nat
  OBVIOUS
<1>3. r = CASE e.changes = "nothing known" -> Plain(e, f, Unknown, {})
        [] e.changes # "nothing known" /\ f.surface = "none" /\ ~e.fixing /\ ~concern
             -> Plain(e, f, 0, classes)
        [] OTHER -> Verdict(e, f, level, classes, f.incident)
  BY DEF ReliabilityRisk
<1> HIDE DEF concern, classes, band, r
<1>4. level \in Nat
  <2>1. Min({band, 2}) \in Nat
    BY <1>2, MinMax
  <2> QED
    BY <1>2, <2>1
<1> HIDE DEF level
<1>5. r = Verdict(e, f, level, classes, f.incident) =>
        EarnedBy(r, e) /\ Verdicts(r)
  BY <1>1, <1>4, VerdictEarned DEF Verdicts
<1>6. r = Plain(e, f, Unknown, {}) \/ r = Plain(e, f, 0, classes) =>
        EarnedBy(r, e) /\ Verdicts(r)
  BY PlainEarned DEF Verdicts
<1> QED
  BY <1>3, <1>5, <1>6 DEF r

LEMMA EngineeringLeverageEarned ==
  ASSUME NEW e, NEW f
  PROVE  EarnedBy(EngineeringLeverage(e, f), e) /\ Verdicts(EngineeringLeverage(e, f))
<1> DEFINE classes == Given("propagation_edge", e.reach.files > 0)
                 \union Given("introduced_module", f.marker)
                 \union Given("shared_library", f.library)
                 \union Given("docs_or_changelog", e.documented)
           band == IF AtLeast(e.reach, Foundational) THEN (IF e.reach.persistent THEN 4 ELSE 3)
                   ELSE IF AtLeast(e.reach, Adopted) THEN 3
                   ELSE IF e.reach.files >= ReusedFiles \/ f.library THEN 2
                   ELSE IF e.reach.files > 0 THEN 1 ELSE 0
           r    == EngineeringLeverage(e, f)
<1>1. IsFiniteSet(classes)
  BY GivenFinite, FS_Union
<1>2. band \in Nat
  OBVIOUS
<1>3. r = IF e.resolvable THEN Verdict(e, f, band, classes, f.marker)
          ELSE Plain(e, f, Unknown, {})
  BY DEF EngineeringLeverage
<1> HIDE DEF classes, band, r
<1>4. r = Verdict(e, f, band, classes, f.marker) =>
        EarnedBy(r, e) /\ Verdicts(r)
  BY <1>1, <1>2, VerdictEarned DEF Verdicts
<1>5. r = Plain(e, f, Unknown, {}) =>
        EarnedBy(r, e) /\ Verdicts(r)
  BY PlainEarned DEF Verdicts
<1> QED
  BY <1>3, <1>4, <1>5 DEF r

LEMMA DecisionQualityEarned ==
  ASSUME NEW e, NEW f
  PROVE  EarnedBy(DecisionQuality(e, f), e) /\ Verdicts(DecisionQuality(e, f))
<1> DEFINE strong  == {i \in e.interventions : /\ i.serious \intersect Design # {}
                                               /\ i.consequence # "none"
                                               /\ i.causal \in {"high", "medium"}}
           simpler == e.simplification /\ f.shrinks
           before  == strong # {} \/ simpler \/ e.status = "superseded"
           classes == Given("review_thread", strong # {})
                      \union Given("simplification_diff", simpler)
                      \union Given("superseded_edge", e.status = "superseded")
                      \union Given("pr_body_rationale", f.rationale)
           across  == \/ Cardinality({i.component : i \in strong} \ {NoComponent}) > 1
                      \/ \E i \in strong : i.consequence = "design_change"
           band    == IF across THEN (IF f.redirected THEN 4 ELSE 3)
                      ELSE IF before THEN 2 ELSE 1
           r       == DecisionQuality(e, f)
<1>1. IsFiniteSet(classes)
  BY GivenFinite, FS_Union
<1>2. band \in Nat
  OBVIOUS
<1>3. r = IF before \/ f.rationale THEN Verdict(e, f, band, classes, f.redirected)
          ELSE Plain(e, f, 0, classes)
  BY DEF DecisionQuality
<1> HIDE DEF strong, simpler, before, classes, across, band, r
<1>4. r = Verdict(e, f, band, classes, f.redirected) => EarnedBy(r, e) /\ Verdicts(r)
  BY <1>1, <1>2, VerdictEarned DEF Verdicts
<1>5. r = Plain(e, f, 0, classes) => EarnedBy(r, e) /\ Verdicts(r)
  BY PlainEarned DEF Verdicts
<1> QED
  BY <1>3, <1>4, <1>5 DEF r

LEMMA PropagationDurabilityEarned ==
  ASSUME NEW e, NEW f
  PROVE  LET r == PropagationDurability(e, f)
         IN  /\ EarnedBy(r, e) /\ Verdicts(r)
             /\ r.band # Unknown /\ e.corrective.confirmed => r.band <= 1
<1> DEFINE classes == Given("survival_measurement", e.survival.measured)
                      \union Given("propagation_edge", e.reach.components > 0)
                      \union Given("persistence_evidence", e.reach.persistent)
                      \union Given("follow_up_pr", e.size > 1)
           chained == e.reach.depth >= 2 /\ e.reach.persistent
           band    == IF chained THEN 4
                      ELSE IF e.reach.components >= ReusedComponents THEN 3
                      ELSE IF e.survival.whole /\ e.size > 1 THEN 2 ELSE 1
           left    == IF e.corrective.confirmed THEN Min({band, 1})
                      ELSE IF e.corrective.penalty > 50 THEN band - 1 ELSE band
           nothing == ~e.survival.measured /\ e.reach.components = 0 /\ ~e.survival.introduced
           least   == IF e.survival.reasons THEN Unknown ELSE 0
           r       == PropagationDurability(e, f)
<1>1. IsFiniteSet(classes)
  BY GivenFinite, FS_Union
<1>2. band \in 1 .. 4
  OBVIOUS
<1>3. r = IF nothing THEN Plain(e, f, least, classes) ELSE Verdict(e, f, left, classes, chained)
  BY DEF PropagationDurability
<1> HIDE DEF classes, chained, band, nothing, r
<1>4. left \in Nat /\ (e.corrective.confirmed => left <= 1)
  <2>1. Min({band, 1}) \in 0 .. 1 /\ band - 1 \in Nat
    BY <1>2, MinMax
  <2> QED
    BY <1>2, <2>1
<1>5. least \in {0, 1, Unknown} /\ (least # Unknown => least <= 1)
  OBVIOUS
<1> HIDE DEF left, least
<1>6. r = Verdict(e, f, left, classes, chained) =>
        EarnedBy(r, e) /\ Verdicts(r) /\ (e.corrective.confirmed => r.band <= 1)
  BY <1>1, <1>4, VerdictEarned DEF Verdicts
<1>7. r = Plain(e, f, least, classes) =>
        EarnedBy(r, e) /\ Verdicts(r) /\ (r.band # Unknown => r.band <= 1)
  BY <1>5, PlainEarned DEF Verdicts
<1> QED
  BY <1>3, <1>6, <1>7 DEF r

LEMMA CollaborativeAmplificationEarned ==
  ASSUME NEW e, NEW f
  PROVE  /\ EarnedBy(CollaborativeAmplification(e, f), e)
         /\ Verdicts(CollaborativeAmplification(e, f))
<1> DEFINE confirmed == {i \in e.interventions : /\ i.consequence # "none"
                                                 /\ i.causal \in {"high", "medium"}}
           safety    == {i \in confirmed : i.consequence = "prevented_risk"}
           helped    == [authors    |-> Cardinality({author[i.pr] : i \in confirmed} \ {NoAuthor}),
                         components |-> Cardinality({i.component : i \in confirmed} \ {NoComponent})]
           classes   == Given("causal_review_intervention", confirmed # {})
                        \union Given("safety_intervention", safety # {})
                        \union Given("docs_or_changelog", e.documented)
                        \union Given("issue_triage", e.issues # {})
           band      == IF AtLeast(helped, HelpedWidely) THEN 4
                        ELSE IF AtLeast(helped, Helped) \/ safety # {} THEN 3 ELSE 2
           r         == CollaborativeAmplification(e, f)
<1>1. IsFiniteSet(classes)
  BY GivenFinite, FS_Union
<1>2. band \in Nat
  OBVIOUS
<1>3. r = IF confirmed # {} \/ e.documented
          THEN Verdict(e, f, band, classes, Cardinality(safety) > 1)
          ELSE IF \E i \in e.interventions : i.resolved
          THEN Plain(e, f, 1, {"causal_review_intervention"})
          ELSE Plain(e, f, 0, classes)
  BY DEF CollaborativeAmplification
<1> HIDE DEF confirmed, helped, classes, band, r
<1>4. r = Verdict(e, f, band, classes, Cardinality(safety) > 1) => EarnedBy(r, e) /\ Verdicts(r)
  BY <1>1, <1>2, VerdictEarned DEF Verdicts
<1>5. r = Plain(e, f, 1, {"causal_review_intervention"}) \/ r = Plain(e, f, 0, classes)
      => EarnedBy(r, e) /\ Verdicts(r)
  BY PlainEarned DEF Verdicts
<1> QED
  BY <1>3, <1>4, <1>5 DEF r

LEMMA EvaluateEarned ==
  ASSUME NEW e, NEW f, NEW d \in Dimensions
  PROVE  LET r == Evaluate(d, e, f)
         IN  /\ EarnedBy(r, e) /\ Verdicts(r)
             /\ r.band # Unknown /\ d = "product_outcome" /\ r.band > 2 => e.corroborated
             /\ r.band # Unknown /\ d = "propagation_durability" /\ e.corrective.confirmed
                => r.band <= 1
BY ProductOutcomeEarned, ReliabilityRiskEarned, EngineeringLeverageEarned,
   DecisionQualityEarned, PropagationDurabilityEarned, CollaborativeAmplificationEarned
   DEF Evaluate, Dimensions

-----------------------------------------------------------------------------
(* From the record of an episode to its bands.                               *)

RecordInv ==
  phase \in {"recorded", "analysed"} =>
    /\ {"status", "corroborated", "doubtful"} \subseteq DOMAIN episode
    /\ phase = "recorded" => "corrective" \notin DOMAIN episode
    /\ episode.status = Status
    /\ episode.corroborated = ReleaseCorroborated
    /\ phase = "analysed" => episode.corrective.confirmed = Corrective.confirmed

CounterevidenceInv ==
  phase = "attributed" => ~(episode.corroborated /\ episode.corrective.confirmed)

ReviewInv == RecordInv /\ CounterevidenceInv /\ HighBandsAreEarned

LEMMA ExtendedLeft ==
  ASSUME NEW f, NEW g, NEW x \in DOMAIN f
  PROVE  Extended(f, g)[x] = f[x] /\ x \in DOMAIN Extended(f, g)
BY DEF Extended

LEMMA ExtendedRight ==
  ASSUME NEW f, NEW g, NEW x \in DOMAIN g, x \notin DOMAIN f
  PROVE  Extended(f, g)[x] = g[x] /\ x \in DOMAIN Extended(f, g)
BY DEF Extended

LEMMA StatusKept ==
  ASSUME UNCHANGED <<tables, edges, subject, reached>>
  PROVE  /\ Status' = Status /\ ReleaseCorroborated' = ReleaseCorroborated
         /\ Corrective.confirmed' = Corrective.confirmed
<1>1. PointedAt("reapplies")' = PointedAt("reapplies") /\ PointedAt("supersedes")' = PointedAt("supersedes")
  BY DEF PointedAt
<1>2. Status' = Status
  BY <1>1 DEF Status, Merged, MostlyMechanical, FileRows, StillGated
<1>3. LinkedIssues' = LinkedIssues
  BY DEF LinkedIssues
<1>4. ReleaseCorroborated' = ReleaseCorroborated
  BY <1>2, <1>3 DEF ReleaseCorroborated, Corroboration
<1>5. \A n, e : CorrectiveClass(n, e)' = CorrectiveClass(n, e)
  BY DEF CorrectiveClass
<1>6. Events' = Events
  BY DEF Events, Signals, Classed, Ahead
<1>7. Reverted' = Reverted /\ Reapplied' = Reapplied
  BY <1>5, <1>6 DEF Reverted, Reapplied, ClassOf
<1>8. Corrective.confirmed' = Corrective.confirmed
  BY <1>7 DEF Corrective
<1> QED
  BY <1>2, <1>4, <1>8

LEMMA InitReviewInv == Init => ReviewInv
BY DEF Init, ReviewInv, RecordInv, CounterevidenceInv, HighBandsAreEarned

LEMMA RecordKeepsReview ==
  ASSUME Record
  PROVE  ReviewInv'
<1>1. phase' = "recorded" /\ UNCHANGED <<tables, edges, subject, reached>>
  BY DEF Record
<1>2. /\ episode'.status = Status /\ episode'.corroborated = ReleaseCorroborated
      /\ {"status", "corroborated", "doubtful"} \subseteq DOMAIN episode'
      /\ "corrective" \notin DOMAIN episode'
  BY DEF Record
<1> QED
  BY <1>1, <1>2, StatusKept DEF ReviewInv, RecordInv, CounterevidenceInv, HighBandsAreEarned

LEMMA AnalyticsKeepReview ==
  ASSUME ReviewInv, StageAnalytics
  PROVE  ReviewInv'
<1>1. /\ phase = "recorded" /\ phase' = "analysed"
      /\ UNCHANGED <<tables, edges, subject, reached>>
  BY DEF StageAnalytics
<1>2. PICK R \in ReviewSets : episode' = Extended(episode, Analytics(R))
  BY DEF StageAnalytics
<1>3. /\ {"status", "corroborated", "doubtful"} \subseteq DOMAIN episode
      /\ "corrective" \notin DOMAIN episode
      /\ episode.status = Status /\ episode.corroborated = ReleaseCorroborated
  BY <1>1 DEF ReviewInv, RecordInv
<1>4. "corrective" \in DOMAIN Analytics(R) /\ Analytics(R)["corrective"] = Corrective
  BY DEF Analytics
<1>5. /\ \A x \in {"status", "corroborated", "doubtful"} :
           episode'[x] = episode[x] /\ x \in DOMAIN episode'
      /\ episode'["corrective"] = Corrective
  BY <1>2, <1>3, <1>4, ExtendedLeft, ExtendedRight
<1>6. /\ {"status", "corroborated", "doubtful"} \subseteq DOMAIN episode'
      /\ episode'.status = Status /\ episode'.corroborated = ReleaseCorroborated
      /\ episode'.corrective.confirmed = Corrective.confirmed
  BY <1>3, <1>5
<1> QED
  BY <1>1, <1>6, StatusKept DEF ReviewInv, RecordInv, CounterevidenceInv, HighBandsAreEarned

LEMMA RecordAgrees ==
  ASSUME StageInv, ReviewInv, phase = "analysed"
  PROVE  /\ RevertsAgree
         /\ ~(episode.corroborated /\ episode.corrective.confirmed)
<1>1. edges = GraphOf(tables) /\ subject \subseteq PRs /\ Shaped(tables)
  BY DEF StageInv, TablesInv, Shaped, GraphInv, ClustersInv, SubjectInv, GraphPhases, IsPartition, Members
<1> QED
  BY <1>1, StatusIsConfirmed, RevertedIsNotReleased DEF ReviewInv, RecordInv, RevertsAgree

LEMMA AttributeKeepsReview ==
  ASSUME StageInv, ReviewInv, StageAttribute
  PROVE  ReviewInv'
<1>1. phase = "analysed" /\ phase' = "attributed" /\ episode' = episode
  BY DEF StageAttribute
<1> QED
  BY <1>1, RecordAgrees DEF ReviewInv, RecordInv, CounterevidenceInv, HighBandsAreEarned

LEMMA DimensionsKeepReview ==
  ASSUME ReviewInv, StageDimensions
  PROVE  ReviewInv'
<1>1. phase = "attributed" /\ phase' = "assessed"
  BY DEF StageDimensions
<1>2. PICK who \in DOMAIN participants, d \in Dimensions : \E f \in Facts[d] :
       assessment' = Extended(Evaluate(d, episode, f), [
         dimension    |-> d,
         status       |-> episode.status,
         corroborated |-> episode.corroborated,
         doubtful     |-> episode.doubtful,
         confirmed    |-> episode.corrective.confirmed,
         group        |-> episode.group,
         category     |-> participants[who].category,
         factor       |-> participants[who].factors[d]])
  BY DEF StageDimensions
<1> DEFINE own == [
         dimension    |-> d,
         status       |-> episode.status,
         corroborated |-> episode.corroborated,
         doubtful     |-> episode.doubtful,
         confirmed    |-> episode.corrective.confirmed,
         group        |-> episode.group,
         category     |-> participants[who].category,
         factor       |-> participants[who].factors[d]]
<1>3. PICK f \in Facts[d] : assessment' = Extended(Evaluate(d, episode, f), own)
  BY <1>2
<1> DEFINE r == Evaluate(d, episode, f)
<1>4. /\ {"dimension", "corroborated", "doubtful", "confirmed"} \subseteq DOMAIN own
      /\ own["dimension"] = d /\ own["corroborated"] = episode.corroborated
      /\ own["doubtful"] = episode.doubtful
      /\ own["confirmed"] = episode.corrective.confirmed
  OBVIOUS
<1>5. /\ EarnedBy(r, episode) /\ DOMAIN r = {"band", "classes", "confidence", "marker"}
      /\ r.band # Unknown /\ d = "product_outcome" /\ r.band > 2 => episode.corroborated
      /\ r.band # Unknown /\ d = "propagation_durability" /\ episode.corrective.confirmed
         => r.band <= 1
  BY EvaluateEarned DEF Verdicts
<1> HIDE DEF own, r
<1>6. /\ assessment'["band"] = r["band"] /\ assessment'["classes"] = r["classes"]
      /\ assessment'["marker"] = r["marker"]
      /\ assessment'["dimension"] = d /\ assessment'["corroborated"] = episode.corroborated
      /\ assessment'["doubtful"] = episode.doubtful
      /\ assessment'["confirmed"] = episode.corrective.confirmed
  <2>1. assessment' = Extended(r, own)
    BY <1>3 DEF r
  <2> QED
    BY <2>1, <1>4, <1>5, ExtendedLeft, ExtendedRight
<1>7. ~(episode.corroborated /\ episode.corrective.confirmed)
  BY <1>1 DEF ReviewInv, CounterevidenceInv
<1>8. ASSUME assessment'.band # Unknown
      PROVE  /\ assessment'.band >= 3 => Cardinality(assessment'.classes) >= Band3Classes
             /\ assessment'.band = 4 => /\ Cardinality(assessment'.classes) >= Band4Classes
                                        /\ assessment'.marker /\ ~assessment'.doubtful
             /\ assessment'.dimension = "product_outcome" /\ assessment'.band > 2 =>
                  assessment'.corroborated
             /\ assessment'.confirmed =>
                  /\ assessment'.dimension = "propagation_durability" => assessment'.band <= 1
                  /\ assessment'.dimension = "product_outcome" => assessment'.band <= 2
  BY <1>5, <1>6, <1>7, <1>8 DEF EarnedBy
<1>9. HighBandsAreEarned'
  BY <1>8 DEF HighBandsAreEarned
<1> QED
  BY <1>1, <1>9 DEF ReviewInv, RecordInv, CounterevidenceInv

LEMMA ReviewKept ==
  ASSUME ReviewInv, UNCHANGED <<phase, tables, edges, subject, reached, episode, assessment>>
  PROVE  ReviewInv'
BY StatusKept DEF ReviewInv, RecordInv, CounterevidenceInv, HighBandsAreEarned

LEMMA NextReviewInv == StageInv /\ ReviewInv /\ [Next]_vars => ReviewInv'
<1> SUFFICES ASSUME StageInv, ReviewInv, [Next]_vars PROVE ReviewInv'
  OBVIOUS
<1> DEFINE quiet == {"graph", "weigh", "sweep", "constrain", "clustered", "walk", "portfolio"}
<1>1. phase' \in quiet => ReviewInv'
  BY DEF ReviewInv, RecordInv, CounterevidenceInv, HighBandsAreEarned
<1>2. CASE StageFeatures \/ StageGraph \/ StagePortfolios
  <2>1. phase' \in quiet
    BY <1>2 DEF StageFeatures, StageGraph, StagePortfolios
  <2> QED
    BY <1>1, <2>1
<1>3. CASE Cluster \/ Follow
  <2>1. phase' \in quiet
    BY <1>3 DEF Cluster, Weigh, MoveNode, SweepAgain, Aggregate, LevelOver, Converge,
                Constrain, Follow
  <2> QED
    BY <1>1, <2>1
<1>4. CASE Visit \/ Deepen
  <2>1. phase' \in quiet
    BY <1>4 DEF Visit, Deepen, clusterVars
  <2> QED
    BY <1>1, <2>1
<1>5. CASE Record
  BY <1>5, RecordKeepsReview
<1>6. CASE StageAnalytics
  BY <1>6, AnalyticsKeepReview
<1>7. CASE StageAttribute
  BY <1>7, AttributeKeepsReview
<1>8. CASE StageDimensions
  BY <1>8, DimensionsKeepReview
<1>9. CASE StageRank \/ UNCHANGED vars
  <2>1. UNCHANGED <<phase, tables, edges, subject, reached, episode, assessment>>
    BY <1>9 DEF StageRank, vars, clusterVars, walkVars, stageVars
  <2> QED
    BY <2>1, ReviewKept
<1> QED
  BY <1>2, <1>3, <1>4, <1>5, <1>6, <1>7, <1>8, <1>9 DEF Next, StageEpisodes

LEMMA AlwaysReviewInv == Spec => [](StageInv /\ ReviewInv)
<1>1. Init => StageInv /\ ReviewInv
  BY InitStageInv, InitReviewInv
<1>2. (StageInv /\ ReviewInv) /\ [Next]_vars => (StageInv /\ ReviewInv)'
  BY NextStageInv, NextReviewInv
<1> QED
  BY <1>1, <1>2, PTL DEF Spec

\* The counterevidence, read from the first MaxSignals signals of each row of Phase
\* 1 (corrective.py), confirms a revert only where the status, read from the edges
\* of the graph without duplicates (status.py), says the same; and it confirms what
\* the status says unless no reverted pull request has so few signals that all of
\* them are classed.
THEOREM RevertsAlwaysAgree == Spec => []RevertsAgree
<1>1. StageInv /\ ReviewInv => RevertsAgree
  BY RecordAgrees DEF RevertsAgree
<1> QED
  BY <1>1, AlwaysReviewInv, PTL

\* No evaluator of the rubric gives a broad band without independent classes of
\* artifacts, a transformative one in doubt, or a high one of its two to what was
\* reverted, whatever the thresholds and the facts it reads.
THEOREM HighBandsAlwaysEarned == Spec => []HighBandsAreEarned
<1>1. ReviewInv => HighBandsAreEarned
  BY DEF ReviewInv
<1> QED
  BY <1>1, AlwaysReviewInv, PTL

-----------------------------------------------------------------------------
(* Adoption.                                                                 *)

Link(so) ==
  {<<by[1], tables.merged[by[2]]>> : by \in {x \in Paths \X (PRs \ subject) :
     \E c \in so : x[1] \in Importers(x[2], c[1]) /\ tables.merged[x[2]] > c[2]}}

SourceLinks == {<<s, Available(subject, s)>> : s \in Sources(subject)}

LEMMA CarriersAre ==
  /\ Carriers[0] = SourceLinks
  /\ \A d \in Nat : Carriers[d + 1] = Link(Carriers[d])
<1> DEFINE U == SourceLinks \union {<<x[1], tables.merged[x[2]]>> : x \in Paths \X (PRs \ subject)}
           V == SUBSET U
           st == [so \in V |-> Link(so)]
<1>1. SourceLinks \in V
  OBVIOUS
<1>2. st \in [V -> V]
  BY DEF Link
<1>3. \E g \in [Nat -> V] : Iterates(g, SourceLinks, st)
  <2> HIDE DEF V, st
  <2> QED
    BY <1>1, <1>2, NatIteration
<1> DEFINE Is(g) == g = [d \in Nat |-> IF d = 0 THEN {<<s, Available(subject, s)>> : s \in Sources(subject)}
  ELSE LET so == g[d - 1]
       IN  {<<by[1], tables.merged[by[2]]>> : by \in {x \in Paths \X (PRs \ subject) :
              \E c \in so : x[1] \in Importers(x[2], c[1]) /\ tables.merged[x[2]] > c[2]}}]
<1>4. \E g : Is(g)
  <2>1. PICK g \in [Nat -> V] : Iterates(g, SourceLinks, st)
    BY <1>3
  <2>2. \A n \in Nat : n # 0 => n - 1 \in Nat
    OBVIOUS
  <2>3. \A n \in Nat : g[n] = IF n = 0 THEN SourceLinks ELSE Link(g[n - 1])
    <3> HIDE DEF V
    <3> QED
      BY <2>1, <2>2 DEF Iterates
  <2> HIDE DEF V, st
  <2>4. g = [d \in Nat |-> IF d = 0 THEN SourceLinks ELSE Link(g[d - 1])]
    BY <2>1, <2>3
  <2>5. Is(g)
    BY <2>4 DEF SourceLinks, Link
  <2> QED
    BY <2>5
<1>5. Carriers = CHOOSE g : Is(g)
  BY DEF Carriers
<1>6. Is(Carriers)
  BY <1>4, <1>5
<1> QED
  BY <1>6 DEF Link, SourceLinks

LEMMA CarriersBegin == Carriers[0] = SourceLinks
BY CarriersAre

LEMMA CarriersBeginNext == (Carriers[0] = SourceLinks)'
BY CarriersBegin, PTL

LEMMA CarriersKept ==
  ASSUME UNCHANGED <<tables, subject>>
  PROVE  Carriers' = Carriers
BY DEF Carriers, Sources, Weight, IntroducedBy, Changers, Hubs, Importing, Available,
       SourcePR, EpisodeEnd, Merged, Importers

WalkInv ==
  /\ phase \in {"walk", "recorded", "analysed"} =>
       /\ depth \in Nat \ {0}
       /\ todo \subseteq DOMAIN frontier /\ todo \subseteq Paths
       /\ DOMAIN nextFrontier \subseteq Paths
       /\ \A p \in DOMAIN frontier : <<p, frontier[p]>> \in Carriers[depth - 1]
       /\ \A p \in DOMAIN nextFrontier : <<p, nextFrontier[p]>> \in Carriers[depth]
       /\ \A a \in reached : a.depth \in Nat
  /\ phase \notin {"walk", "recorded", "analysed"} => reached = {}
  /\ AdoptionIsAChain

LEMMA LeastIsIn ==
  ASSUME NEW F, F \subseteq Nat, F # {}
  PROVE  Min(F) \in F /\ \A x \in F : Min(F) <= x
BY LeastNat DEF Min

LEMMA SourcesArePaths ==
  ASSUME NEW S
  PROVE  Sources(S) \subseteq Paths
BY DEF Sources

\* One visit extends the chain of the path visited by one link.
LEMMA VisitExtends ==
  ASSUME WalkInv, Visit, Shaped(tables)
  PROVE  LET path  == Min(todo)
             by(n) == Min(Importers(n, path))
         IN  /\ path \in todo
             /\ \A n \in AdoptersFrom(path) :
                  /\ by(n) \in Paths
                  /\ <<by(n), tables.merged[n]>> \in Carriers[depth]
                  /\ n \in PRs \ SeenPRs
<1> DEFINE path  == Min(todo)
           by(n) == Min(Importers(n, path))
<1>1. /\ phase = "walk" /\ todo # {} /\ todo \subseteq Paths
      /\ depth \in Nat \ {0}
      /\ path \in todo => <<path, frontier[path]>> \in Carriers[depth - 1]
  BY DEF Visit, WalkInv
<1>2. path \in todo
  BY <1>1, LeastIsIn, NumbersAssumption
<1>3. Carriers[depth] = Link(Carriers[depth - 1])
  <2>1. depth - 1 \in Nat /\ (depth - 1) + 1 = depth
    BY <1>1
  <2>2. Carriers[(depth - 1) + 1] = Link(Carriers[depth - 1])
    BY <2>1, CarriersAre
  <2> QED
    BY <2>1, <2>2
<1>4. ASSUME NEW n \in AdoptersFrom(path)
      PROVE  /\ by(n) \in Paths
             /\ <<by(n), tables.merged[n]>> \in Carriers[depth]
             /\ n \in PRs \ SeenPRs
  <2>1. /\ n \in PRs \ SeenPRs /\ Importers(n, path) # {}
        /\ tables.merged[n] > frontier[path]
    BY DEF AdoptersFrom, Newer
  <2>2. by(n) \in Importers(n, path) /\ by(n) \in Paths
    <3>1. Importers(n, path) \subseteq Paths
      BY DEF Importers
    <3> QED
      BY <2>1, <3>1, LeastIsIn, NumbersAssumption
  <2>3. n \in PRs \ subject
    BY <2>1 DEF SeenPRs
  <2>4. <<by(n), tables.merged[n]>> \in Link(Carriers[depth - 1])
    <3> DEFINE c == <<path, frontier[path]>>
               x == <<by(n), n>>
    <3>1. c \in Carriers[depth - 1] /\ c[1] = path /\ c[2] = frontier[path]
      <4> HIDE DEF path
      <4> QED
        BY <1>1, <1>2
    <3>2. x \in Paths \X (PRs \ subject) /\ x[1] = by(n) /\ x[2] = n
      BY <2>2, <2>3
    <3> HIDE DEF c, x
    <3>3. x \in {y \in Paths \X (PRs \ subject) :
            \E z \in Carriers[depth - 1] : y[1] \in Importers(y[2], z[1]) /\ tables.merged[y[2]] > z[2]}
      BY <2>1, <2>2, <3>1, <3>2
    <3> QED
      BY <3>2, <3>3 DEF Link
  <2> QED
    BY <1>3, <2>1, <2>2, <2>4
<1> QED
  BY <1>2, <1>4

LEMMA VisitKeepsWalk ==
  ASSUME StageInv, WalkInv, Visit
  PROVE  WalkInv'
<1> DEFINE path  == Min(todo)
           by(n) == Min(Importers(n, path))
           fresh == {by(n) : n \in AdoptersFrom(path)} \ SeenPaths
           from(i) == {m \in AdoptersFrom(path) : by(m) = i}
           new   == {[pr |-> n, path |-> by(n), from |-> path, depth |-> depth]
                       : n \in AdoptersFrom(path)}
           next  == [i \in fresh |-> Min({tables.merged[n] : n \in from(i)})]
<1>1. /\ phase = "walk" /\ phase' = "walk" /\ UNCHANGED <<tables, subject, frontier, depth>>
      /\ todo' = todo \ {path} /\ reached' = reached \union new
      /\ nextFrontier' = Extended(nextFrontier, next)
  BY DEF Visit, clusterVars
<1>2. Shaped(tables)
  BY <1>1 DEF StageInv, TablesInv, GraphPhases
<1>3. /\ depth \in Nat \ {0}
      /\ todo \subseteq DOMAIN frontier /\ todo \subseteq Paths
      /\ DOMAIN nextFrontier \subseteq Paths
      /\ \A p \in DOMAIN frontier : <<p, frontier[p]>> \in Carriers[depth - 1]
      /\ \A p \in DOMAIN nextFrontier : <<p, nextFrontier[p]>> \in Carriers[depth]
      /\ \A a \in reached : a.depth \in Nat
      /\ AdoptionIsAChain
  BY <1>1 DEF WalkInv
<1>4. /\ path \in todo
      /\ \A n \in AdoptersFrom(path) : /\ by(n) \in Paths
                                       /\ <<by(n), tables.merged[n]>> \in Carriers[depth]
                                       /\ n \in PRs \ SeenPRs
  BY <1>2, VisitExtends
<1>5. Carriers' = Carriers
  BY <1>1, CarriersKept
<1> HIDE DEF path, by
<1>6. ASSUME NEW i \in fresh
      PROVE  i \in Paths /\ <<i, next[i]>> \in Carriers[depth]
  <2> DEFINE days == {tables.merged[n] : n \in from(i)}
  <2>1. days \subseteq Nat /\ days # {}
    BY <1>2, <1>4 DEF Shaped
  <2>2. Min(days) \in days
    <3> HIDE DEF days
    <3> QED
      BY <2>1, LeastIsIn
  <2>3. PICK n \in from(i) : Min(days) = tables.merged[n]
    BY <2>2
  <2>4. next[i] = tables.merged[n]
    BY <2>3
  <2> QED
    BY <1>4, <2>3, <2>4
<1>7. /\ DOMAIN nextFrontier' \subseteq Paths
      /\ \A p \in DOMAIN nextFrontier' : <<p, nextFrontier'[p]>> \in Carriers[depth]
  <2>1. DOMAIN next = fresh
    OBVIOUS
  <2> HIDE DEF next, fresh
  <2>2. DOMAIN nextFrontier' = DOMAIN nextFrontier \union fresh
    BY <1>1, <2>1 DEF Extended
  <2>3. \A p \in DOMAIN nextFrontier' : nextFrontier'[p] =
          IF p \in DOMAIN nextFrontier THEN nextFrontier[p] ELSE next[p]
    BY <1>1, <2>1 DEF Extended
  <2> QED
    BY <1>3, <1>6, <2>2, <2>3
<1>8. ASSUME NEW a \in new
      PROVE  /\ a.depth = depth /\ a.pr \in PRs \ SeenPRs
             /\ <<a.path, tables.merged[a.pr]>> \in Carriers[a.depth]
             /\ \A b \in new : a.pr = b.pr => a = b
  <2>1. PICK n \in AdoptersFrom(path) :
          a = [pr |-> n, path |-> by(n), from |-> path, depth |-> depth]
    BY <1>8
  <2>2. a.pr = n /\ a.path = by(n) /\ a.depth = depth
    BY <2>1
  <2>3. \A b \in new : b = [pr |-> b.pr, path |-> by(b.pr), from |-> path, depth |-> depth]
    OBVIOUS
  <2> QED
    BY <1>4, <2>1, <2>2, <2>3
<1> HIDE DEF new
<1>9. \A a \in reached' : a.depth \in Nat /\ <<a.path, tables.merged[a.pr]>> \in Carriers[a.depth]
  BY <1>1, <1>3, <1>8 DEF AdoptionIsAChain
<1>10. \A a, b \in reached' : a.pr = b.pr => a = b
  <2>1. \A a \in new, b \in reached : a.pr # b.pr
    BY <1>8 DEF SeenPRs
  <2>2. \A a, b \in reached : a.pr = b.pr => a = b
    BY <1>3 DEF AdoptionIsAChain
  <2> QED
    BY <1>1, <1>8, <2>1, <2>2
<1>11. AdoptionIsAChain'
  BY <1>1, <1>5, <1>9, <1>10 DEF AdoptionIsAChain
<1>12. /\ depth' \in Nat \ {0}
       /\ todo' \subseteq DOMAIN frontier' /\ todo' \subseteq Paths
       /\ \A p \in DOMAIN frontier' : <<p, frontier'[p]>> \in Carriers'[depth' - 1]
       /\ \A p \in DOMAIN nextFrontier' : <<p, nextFrontier'[p]>> \in Carriers'[depth']
  BY <1>1, <1>3, <1>5, <1>7
<1> QED
  BY <1>1, <1>7, <1>9, <1>11, <1>12 DEF WalkInv

LEMMA FollowKeepsWalk ==
  ASSUME WalkInv, Follow
  PROVE  WalkInv'
<1>1. PICK S \in clusters : /\ subject' = S /\ todo' = Sources(S)
                            /\ frontier' = [p \in Sources(S) |-> Available(S, p)]
  BY DEF Follow
<1>2. /\ phase' = "walk" /\ tables' = tables /\ nextFrontier' = <<>> /\ depth' = 1 /\ reached' = {}
  BY DEF Follow
<1>3. Sources(subject)' = Sources(S) /\ Sources(S) \subseteq Paths
  <2>1. Sources(S) \subseteq Paths
    BY SourcesArePaths
  <2>2. Sources(S)' = Sources(S)
    BY <1>2 DEF Sources, Weight, IntroducedBy, Changers, Hubs, Importing
  <2>3. Sources(subject)' = Sources(S)'
    BY <1>1 DEF Sources, Weight, IntroducedBy, Changers, Hubs, Importing
  <2> QED
    BY <2>1, <2>2, <2>3
<1>4. \A p : Available(subject, p)' = Available(S, p)
  BY <1>1, <1>2 DEF Available, SourcePR, IntroducedBy, EpisodeEnd, Merged, Changers
<1>5. SourceLinks' = {<<s, Available(S, s)>> : s \in Sources(S)}
  BY <1>3, <1>4 DEF SourceLinks
<1>6. Carriers'[0] = SourceLinks'
  BY CarriersBeginNext
<1>7. \A p \in DOMAIN frontier' : <<p, frontier'[p]>> \in Carriers'[depth' - 1]
  BY <1>1, <1>2, <1>5, <1>6
<1>8. DOMAIN nextFrontier' = {}
  BY <1>2
<1>9. AdoptionIsAChain'
  BY <1>2 DEF AdoptionIsAChain
<1> QED
  BY <1>1, <1>2, <1>3, <1>7, <1>8, <1>9 DEF WalkInv

LEMMA DeepenKeepsWalk ==
  ASSUME WalkInv, Deepen
  PROVE  WalkInv'
<1>1. /\ phase = "walk" /\ phase' = "walk" /\ UNCHANGED <<tables, subject, reached>>
      /\ nextFrontier' = <<>> /\ depth' = depth + 1
  BY DEF Deepen, clusterVars
<1>6. PICK strongest \in kSubset(Min({MaxFrontier, Cardinality(DOMAIN nextFrontier)}),
                                 DOMAIN nextFrontier) :
        frontier' = [p \in strongest |-> nextFrontier[p]] /\ todo' = strongest
  BY DEF Deepen
<1>7. strongest \subseteq DOMAIN nextFrontier
  BY DEF kSubset
<1>2. Carriers' = Carriers
  BY <1>1, CarriersKept
<1>3. DOMAIN nextFrontier' = {}
  BY <1>1
<1>4. depth \in Nat \ {0} /\ depth' - 1 = depth /\ depth' \in Nat \ {0}
  BY <1>1 DEF WalkInv
<1>5. AdoptionIsAChain'
  BY <1>1, <1>2 DEF WalkInv, AdoptionIsAChain
<1> QED
  BY <1>1, <1>2, <1>3, <1>4, <1>5, <1>6, <1>7 DEF WalkInv

LEMMA WalkKept ==
  ASSUME WalkInv, UNCHANGED <<tables, subject, frontier, todo, nextFrontier, depth, reached>>,
         phase \in {"walk", "recorded", "analysed"} <=> phase' \in {"walk", "recorded", "analysed"}
  PROVE  WalkInv'
BY CarriersKept DEF WalkInv, AdoptionIsAChain

LEMMA EmptyWalk ==
  ASSUME reached' = {}, phase' \notin {"walk", "recorded", "analysed"}
  PROVE  WalkInv'
BY DEF WalkInv, AdoptionIsAChain

LEMMA InitWalkInv == Init => WalkInv
BY DEF Init, NoGraph, WalkInv, AdoptionIsAChain

LEMMA NextWalkInv == StageInv /\ WalkInv /\ [Next]_vars => WalkInv'
<1> SUFFICES ASSUME StageInv, WalkInv, [Next]_vars PROVE WalkInv'
  OBVIOUS
<1> DEFINE walking == {"walk", "recorded", "analysed"}
<1>1. CASE (StageFeatures \/ StageGraph) /\ UNCHANGED walkVars
  <2>1. phase \notin walking /\ phase' \notin walking /\ reached' = reached
    BY <1>1 DEF StageFeatures, StageGraph, walkVars
  <2> QED
    BY <2>1, EmptyWalk DEF WalkInv
<1>2. CASE Cluster /\ UNCHANGED walkVars
  <2>1. phase \notin walking /\ phase' \notin walking /\ reached' = reached
    BY <1>2 DEF Cluster, Weigh, MoveNode, SweepAgain, Aggregate, LevelOver, Converge,
                Constrain, walkVars
  <2> QED
    BY <2>1, EmptyWalk DEF WalkInv
<1>3. CASE Follow
  BY <1>3, FollowKeepsWalk
<1>4. CASE Visit
  BY <1>4, VisitKeepsWalk
<1>5. CASE Deepen
  BY <1>5, DeepenKeepsWalk
<1>6. CASE Record \/ StageAnalytics
  BY <1>6, WalkKept DEF Record, WalkOver, StageAnalytics
<1>7. CASE StageAttribute
  BY <1>7, EmptyWalk DEF StageAttribute, ClearGraph
<1>8. CASE StageDimensions \/ StagePortfolios
  <2>1. phase \notin walking /\ phase' \notin walking /\ reached' = reached
    BY <1>8 DEF StageDimensions, StagePortfolios
  <2> QED
    BY <2>1, EmptyWalk DEF WalkInv
<1>9. CASE StageRank \/ UNCHANGED vars
  BY <1>9, WalkKept DEF StageRank, vars, clusterVars, walkVars
<1> QED
  BY <1>1, <1>2, <1>3, <1>4, <1>5, <1>6, <1>7, <1>8, <1>9 DEF Next, StageEpisodes

\* However deep the walk of propagation.py goes, every adoption it reports ends a
\* chain of imports back to the episode with dates that grow, and nobody adopts
\* twice.
THEOREM AdoptionsAreChains == Spec => []AdoptionIsAChain
<1>1. Init => StageInv /\ WalkInv
  BY InitStageInv, InitWalkInv
<1>2. (StageInv /\ WalkInv) /\ [Next]_vars => (StageInv /\ WalkInv)'
  BY NextStageInv, NextWalkInv
<1>3. WalkInv => AdoptionIsAChain
  BY DEF WalkInv
<1> QED
  BY <1>1, <1>2, <1>3, PTL DEF Spec

-----------------------------------------------------------------------------
(***************************************************************************)
(* Credit.                                                                 *)
(***************************************************************************)

LEMMA PeopleAreFinite == IsFiniteSet({person[k] : k \in Keys})
<1> DEFINE A == {[x \in Accounts |-> User(x.login)][a] : a \in Accounts}
           B == {[x \in Signatures |-> KeyOf(x)][s] : s \in Signatures}
<1>1. IsFiniteSet(A) /\ IsFiniteSet(B)
  BY ImageIsFinite, FinitelyMany
<1>2. Keys = A \union B
  BY DEF Keys
<1>3. IsFiniteSet(Keys)
  BY <1>1, <1>2, FS_Union
<1> QED
  BY <1>3, ImageIsFinite

LEMMA CodeIsCounted ==
  ASSUME Shaped(tables), NEW n
  PROVE  CodeOf(n) \in Nat
<1>1. IsFiniteSet(PRs \X Paths)
  BY NumbersAssumption, FS_Product
<1>2. Production({n}) \in SUBSET (PRs \X Paths)
  BY DEF Shaped, Production
<1> QED
  BY <1>1, <1>2, FS_Subset, FS_CardinalityType DEF CodeOf

\* Of those who changed most files the one with the least number.
LEMMA SomebodyIsLargest ==
  ASSUME Shaped(tables), subject \subseteq PRs, subject # {}
  PROVE  \E n \in subject : Largest(n)
<1> DEFINE sizes == {[x \in subject |-> CodeOf(x)][n] : n \in subject}
           of(z) == {n \in subject : CodeOf(n) = z}
<1>1. IsFiniteSet(subject)
  BY NumbersAssumption, FS_Subset
<1>2. IsFiniteSet(sizes)
  BY <1>1, ImageIsFinite
<1>3. sizes \in SUBSET Int /\ sizes # {}
  BY CodeIsCounted
<1>4. \E z \in sizes : \A y \in sizes : y <= z
  <2> HIDE DEF sizes
  <2> QED
    BY <1>2, <1>3, GreatestExists
<1>5. PICK z \in sizes : \A y \in sizes : y <= z
  BY <1>4
<1>6. of(z) # {} /\ of(z) \in SUBSET Nat
  BY <1>5, NumbersAssumption
<1>7. PICK n \in of(z) : \A m \in of(z) : n <= m
  <2> HIDE DEF of
  <2> QED
    BY <1>6, LeastNat
<1>8. \A m \in subject : CodeOf(m) <= z /\ CodeOf(m) \in Nat
  BY <1>5, CodeIsCounted
<1>9. n \in subject /\ CodeOf(n) = z
  BY <1>7
<1>10. \A m \in subject : CodeOf(m) < CodeOf(n) \/ (CodeOf(m) = CodeOf(n) /\ n <= m)
  BY <1>7, <1>8, <1>9
<1> QED
  BY <1>9, <1>10 DEF Largest

LEMMA RolesAreRoles ==
  ASSUME NEW f, NEW who
  PROVE  RolesOf(f, who) \subseteq Roles
BY DEF RolesOf, Roles, Given

LEMMA RolesAreFinite ==
  ASSUME NEW S \in SUBSET Roles
  PROVE  IsFiniteSet(S)
<1> DEFINE A == {"originator", "core_implementer", "contributing_implementer"}
           B == {"decision_shaper", "risk_preventer", "integrator"}
           C == {"rollout_sustainer", "enabler", "documenter"}
<1>2. \A x, y, z : IsFiniteSet({x, y, z})
  <2> TAKE x, y, z
  <2>1. {x, y, z} = ({x} \union {y}) \union {z}
    OBVIOUS
  <2>2. \A w : IsFiniteSet({w})
    BY FS_Singleton
  <2>3. IsFiniteSet({x} \union {y})
    BY <2>2, FS_Union
  <2>4. IsFiniteSet(({x} \union {y}) \union {z})
    BY <2>2, <2>3, FS_Union
  <2> QED
    BY <2>1, <2>4
<1>3. IsFiniteSet(A) /\ IsFiniteSet(B) /\ IsFiniteSet(C)
  BY <1>2
<1>4. Roles = (A \union B) \union C
  BY DEF Roles
<1>1. IsFiniteSet(Roles)
  <2> HIDE DEF A, B, C
  <2> QED
    BY <1>3, <1>4, FS_Union
<1> QED
  BY <1>1, FS_Subset

LEMMA CategoriesAreCategories ==
  ASSUME NEW who, NEW roles, NEW cores
  PROVE  /\ ShareCategory(who, roles, cores) \in Categories
         /\ who \in cores => ShareCategory(who, roles, cores) \in {"primary", "material"}
BY DEF ShareCategory, Categories

LEMMA FactorIsNat ==
  ASSUME NEW roles \in SUBSET Roles, NEW category \in Categories, NEW d \in Dimensions
  PROVE  Factor(roles, category, d) \in Nat
<1>1. CASE roles = {}
  BY <1>1 DEF Factor
<1>2. CASE roles # {}
  <2> DEFINE h == [r \in Roles |-> Relevance[r][d] * ShareFactor[category]]
             T == {h[r] : r \in roles}
  <2>1. \A r \in roles : h[r] \in Nat
    BY AttributionAssumption
  <2>2. T \in SUBSET Int /\ T # {} /\ T \in SUBSET Nat
    <3>1. \A t \in T : t \in Nat
      <4> HIDE DEF h
      <4> QED
        BY <2>1
    <3>2. T # {}
      BY <1>2
    <3> HIDE DEF T
    <3> QED
      BY <3>1, <3>2
  <2>3. IsFiniteSet(T)
    <3> HIDE DEF h
    <3> QED
      BY RolesAreFinite, ImageIsFinite
  <2>4. Factor(roles, category, d) = Max(T)
    <3>1. T = {Relevance[r][d] * ShareFactor[category] : r \in roles}
      OBVIOUS
    <3> HIDE DEF T
    <3> QED
      BY <1>2, <3>1 DEF Factor
  <2>5. \E x \in T : \A y \in T : y <= x
    <3> HIDE DEF T
    <3> QED
      BY <2>2, <2>3, GreatestExists
  <2>6. \E x \in T : \A y \in T : x >= y
    <3> HIDE DEF T
    <3> QED
      BY <2>2, <2>5
  <2>7. Max(T) \in T
    <3> HIDE DEF T
    <3> QED
      BY <2>6 DEF Max
  <2> QED
    BY <2>2, <2>4, <2>7
<1> QED
  BY <1>1, <1>2

LEMMA Quotient ==
  ASSUME NEW a \in Nat, NEW b \in Nat, b > 0
  PROVE  a \div b \in Nat /\ b * (a \div b) <= a
OBVIOUS

LEMMA NearestIs ==
  ASSUME NEW a \in Nat, NEW b \in Nat, b > 0
  PROVE  Nearest(a, b) \in Nat /\ b * (2 * Nearest(a, b) - 1) <= 2 * a
<1> DEFINE q == a \div b
           r == a % b
           n == Nearest(a, b)
<1>1. q \in Nat /\ r \in Nat /\ a = b * q + r
  OBVIOUS
<1>2. (n = q + 1 /\ 2 * r >= b) \/ n = q
  <2>1. n = IF 2 * r > b \/ (2 * r = b /\ q % 2 = 1) THEN q + 1 ELSE q
    BY DEF Nearest
  <2> HIDE DEF q, r, n
  <2> QED
    BY <1>1, <2>1
<1> HIDE DEF q, r, n
<1> DEFINE bq == b * q
<1>3. bq \in Nat /\ a = bq + r
  BY <1>1
<1>4. CASE n = q + 1 /\ 2 * r >= b
  <2>1. b * (2 * n - 1) = 2 * bq + b
    BY <1>1, <1>4
  <2> HIDE DEF bq
  <2> QED
    BY <1>1, <1>3, <1>4, <2>1 DEF n
<1>5. CASE n = q
  <2>1. b * (2 * n - 1) = 2 * bq - b
    BY <1>1, <1>5
  <2> HIDE DEF bq
  <2> QED
    BY <1>1, <1>3, <1>5, <2>1 DEF n
<1> QED
  BY <1>2, <1>4, <1>5

\* Twice a sum, less one for each of its terms.
LEMMA TwiceLessOne ==
  ASSUME NEW S, IsFiniteSet(S), NEW f, NEW h,
         \A x \in S : f[x] \in Int /\ h[x] = 2 * f[x] - 1
  PROVE  SumOver(h, S) = 2 * SumOver(f, S) - Cardinality(S)
<1>1. \A x \in S : h[x] \in Int
  OBVIOUS
<1>2. \A s \in SUBSET S : /\ IsFiniteSet(s) /\ Cardinality(s) \in Nat
                          /\ SumOver(f, s) \in Int /\ SumOver(f, {}) = 0
                          /\ SumOver(h, s) \in Int /\ SumOver(h, {}) = 0
  BY <1>1, SumIsInt, FS_Subset, FS_CardinalityType
<1> DEFINE F == {s \in SUBSET S : SumOver(h, s) # 2 * SumOver(f, s) - Cardinality(s)}
<1> SUFFICES ASSUME F # {} PROVE FALSE
  <2>1. S \in SUBSET S
    OBVIOUS
  <2> QED
    BY <2>1
<1>3. F \subseteq SUBSET S
  OBVIOUS
<1>4. \E s \in F : \A t \in F : t \subseteq s => t = s
  <2> HIDE DEF F
  <2> QED
    BY <1>3, LeastSubset
<1>5. PICK s \in F : \A t \in F : t \subseteq s => t = s
  BY <1>4
<1>6. s # {}
  <2> SUFFICES ASSUME s = {} PROVE FALSE
    OBVIOUS
  <2>1. SumOver(f, s) = 0 /\ SumOver(h, s) = 0
    BY <1>2, Zenon
  <2>2. Cardinality(s) = 0
    BY FS_EmptySet
  <2> QED
    BY <1>5, <2>1, <2>2
<1>7. PICK x \in s : TRUE
  BY <1>6
<1> DEFINE u == s \ {x}
<1>8. /\ SumOver(f, s) = f[x] + SumOver(f, u)
      /\ SumOver(h, s) = h[x] + SumOver(h, u)
  BY <1>1, <1>5, <1>7, SumSplits, FS_Subset
<1>9. SumOver(h, u) = 2 * SumOver(f, u) - Cardinality(u)
  BY <1>5, <1>7
<1>10. Cardinality(u) = Cardinality(s) - 1
  BY <1>2, <1>5, <1>7, FS_RemoveElement
<1>11. /\ f[x] \in Int /\ h[x] = 2 * f[x] - 1 /\ SumOver(f, u) \in Int
       /\ SumOver(h, u) \in Int /\ Cardinality(s) \in Nat
  BY <1>2, <1>5, <1>7
<1>12. SumOver(h, s) # 2 * SumOver(f, s) - Cardinality(s)
  BY <1>5
<1> HIDE DEF u, F
<1> QED
  BY <1>8, <1>9, <1>10, <1>11, <1>12

\* What is scaled to the limit is above it by half a grain for each at most.
LEMMA LimitIsKept ==
  ASSUME NEW S, IsFiniteSet(S), NEW factor \in [S -> Nat]
  PROVE  /\ Limited(factor) \in [S -> Nat]
         /\ 2 * SumOver(Limited(factor), S) <= 2 * MaxTotal + Cardinality(S)
<1> DEFINE total == SumOver(factor, S)
           limited == Limited(factor)
<1> USE AttributionAssumption
<1>1. total \in Nat
  BY SumIsNat
<1>2. limited = [p \in S |-> IF total > MaxTotal THEN Nearest(factor[p] * MaxTotal, total)
                             ELSE factor[p]]
  BY DEF Limited
<1>0. Cardinality(S) \in Nat
  BY FS_CardinalityType
<1> HIDE DEF total, limited
<1>3. CASE total <= MaxTotal
  <2>1. limited = factor
    BY <1>1, <1>2, <1>3
  <2>2. SumOver(limited, S) = total
    BY <2>1 DEF total
  <2> QED
    BY <1>0, <1>1, <1>3, <2>1, <2>2 DEF limited
<1>4. CASE total > MaxTotal
  <2> DEFINE h == [p \in S |-> 2 * limited[p] - 1]
  <2>1. ASSUME NEW p \in S
        PROVE  /\ limited[p] \in Nat
               /\ total * (2 * limited[p] - 1) <= (2 * MaxTotal) * factor[p]
    <3> DEFINE a == factor[p] * MaxTotal
    <3>1. a \in Nat /\ 2 * a = (2 * MaxTotal) * factor[p]
      OBVIOUS
    <3>2. limited[p] = Nearest(a, total)
      BY <1>1, <1>2, <1>4
    <3>3. total > 0
      BY <1>1, <1>4
    <3> HIDE DEF a
    <3> QED
      BY <1>1, <3>1, <3>2, <3>3, NearestIs
  <2>2. \A p \in S : /\ h[p] = 2 * limited[p] - 1 /\ h[p] \in Int /\ factor[p] \in Int
                     /\ limited[p] \in Int
                     /\ total * h[p] <= (2 * MaxTotal) * factor[p]
    BY <2>1
  <2> HIDE DEF h
  <2>3. total * SumOver(h, S) <= (2 * MaxTotal) * total
    BY <1>1, <2>2, ScaledSums DEF total
  <2>4. SumOver(h, S) = 2 * SumOver(limited, S) - Cardinality(S)
    BY <2>2, TwiceLessOne
  <2>5. SumOver(limited, S) \in Nat
    BY <2>1, SumIsNat
  <2>6. SumOver(h, S) <= 2 * MaxTotal
    <3> DEFINE x == SumOver(h, S)
               m == 2 * MaxTotal
    <3>1. x \in Int /\ m \in Nat /\ total \in Nat /\ total > 0 /\ total * x <= m * total
      BY <1>0, <1>1, <1>4, <2>3, <2>4, <2>5
    <3> HIDE DEF x, m
    <3>2. ASSUME x >= m + 1 PROVE FALSE
      <4>1. total * x >= total * (m + 1)
        BY <3>1, <3>2
      <4>2. total * (m + 1) = total * m + total
        BY <3>1
      <4>3. total * m = m * total
        BY <3>1
      <4> QED
        BY <3>1, <4>1, <4>2, <4>3
    <3> QED
      BY <3>1, <3>2 DEF x, m
  <2>7. limited \in [S -> Nat]
    <3>1. limited = [p \in S |-> limited[p]]
      BY <1>2
    <3> QED
      BY <2>1, <3>1
  <2> QED
    BY <1>0, <2>4, <2>5, <2>6, <2>7 DEF limited
<1> QED
  BY <1>1, <1>3, <1>4

LEMMA CreditOfParticipants ==
  ASSUME Shaped(tables), subject \subseteq PRs, subject # {}, NEW f
  PROVE  /\ SharedAmong(Participants(f), {Who(n) : n \in subject})
         /\ \A who \in DOMAIN Participants(f), d \in Dimensions :
              Participants(f)[who].factors[d] \in Nat
<1> DEFINE people   == {person[k] : k \in Keys}
           roles    == [p \in people |-> RolesOf(f, p)]
           cores    == {p \in people : "core_implementer" \in roles[p]}
           sharers  == {p \in people \ Bots :
                          roles[p] # {} \/ \E k \in f.touched : person[k] = p}
           category == [p \in sharers |-> ShareCategory(p, roles[p], cores)]
           factor(d) == [p \in sharers |-> Factor(roles[p], category[p], d)]
           factors  == [d \in Dimensions |-> Limited(factor(d))]
           P        == Participants(f)
           authors  == {Who(n) : n \in subject}
<1>1. P = [p \in sharers |-> [roles |-> roles[p], category |-> category[p],
                              factors |-> [d \in Dimensions |-> factors[d][p]]]]
  BY DEF Participants
<1>2. /\ DOMAIN P = sharers
      /\ \A p \in sharers : /\ P[p].roles = RolesOf(f, p)
                            /\ P[p].category = ShareCategory(p, RolesOf(f, p), cores)
                            /\ \A d \in Dimensions : P[p].factors[d] = Limited(factor(d))[p]
  <2>1. \A p \in sharers : p \in people
    OBVIOUS
  <2> HIDE DEF sharers, cores, people, P, factor
  <2> QED
    BY <1>1, <2>1
<1>3. \A n \in subject : Who(n) # NoAuthor => Who(n) \in people
  BY AuthorsAssumption DEF Who
<1>4. authors \intersect (Bots \union {NoAuthor}) = {} =>
        authors \intersect {p \in DOMAIN P : P[p].category \in {"primary", "material"}} # {}
  <2> HAVE authors \intersect (Bots \union {NoAuthor}) = {}
  <2>1. PICK n \in subject : Largest(n)
    BY SomebodyIsLargest
  <2> DEFINE p == Who(n)
  <2>2. p \in people /\ p \in authors /\ p \notin Bots
    BY <1>3, <2>1
  <2>3. "core_implementer" \in RolesOf(f, p)
    <3>1. \E m \in {m \in subject : Who(m) = p} : Core(m)
      BY <2>1 DEF Core
    <3>2. Given("core_implementer", \E m \in {m \in subject : Who(m) = p} : Core(m))
            \subseteq RolesOf(f, p)
      <4> HIDE DEF p
      <4> QED
        BY DEF RolesOf
    <3> QED
      BY <3>1, <3>2 DEF Given
  <2>4. p \in cores /\ p \in sharers
    <3> HIDE DEF p, people, authors
    <3> QED
      BY <2>2, <2>3
  <2>5. P[p].category \in {"primary", "material"}
    <3> HIDE DEF p, people, authors, sharers, cores, P
    <3> QED
      BY <1>2, <2>4, CategoriesAreCategories
  <2> HIDE DEF p, people, authors, sharers, cores, P
  <2> QED
    BY <1>2, <2>2, <2>4, <2>5
<1>5. ASSUME NEW d \in Dimensions
      PROVE  /\ 2 * SumOver([c \in DOMAIN P |-> P[c].factors[d]], DOMAIN P)
                   <= 2 * MaxTotal + Cardinality(DOMAIN P)
             /\ \A c \in DOMAIN P : P[c].factors[d] \in Nat
  <2>1. IsFiniteSet(sharers)
    <3>1. sharers \in SUBSET people
      OBVIOUS
    <3> HIDE DEF sharers
    <3> QED
      BY <3>1, PeopleAreFinite, FS_Subset
  <2>2. \A p \in sharers : Factor(roles[p], category[p], d) \in Nat
    <3>1. \A p \in sharers : /\ roles[p] = RolesOf(f, p)
                             /\ category[p] = ShareCategory(p, roles[p], cores)
      <4> HIDE DEF cores
      <4> QED
        OBVIOUS
    <3> HIDE DEF sharers, roles, category, cores
    <3> QED
      BY <3>1, RolesAreRoles, CategoriesAreCategories, FactorIsNat
  <2>3. factor(d) \in [sharers -> Nat]
    <3> HIDE DEF sharers, roles, category
    <3> QED
      BY <2>2
  <2> HIDE DEF factor
  <2>4. /\ Limited(factor(d)) \in [sharers -> Nat]
        /\ 2 * SumOver(Limited(factor(d)), sharers) <= 2 * MaxTotal + Cardinality(sharers)
    <3> HIDE DEF sharers
    <3> QED
      BY <2>1, <2>3, LimitIsKept
  <2>5. [c \in DOMAIN P |-> P[c].factors[d]] = Limited(factor(d))
    <3> HIDE DEF sharers, P
    <3> QED
      BY <1>2, <2>4
  <2> HIDE DEF sharers, P
  <2>6. \A c \in DOMAIN P : P[c].factors[d] \in Nat
    BY <1>2, <2>4
  <2> QED
    BY <1>2, <2>4, <2>5, <2>6
<1>6. ASSUME NEW c \in authors \intersect DOMAIN P
      PROVE  {"decision_shaper", "risk_preventer"} \intersect P[c].roles = {}
  <2>1. \A I : c \notin Reviewers(I)
    BY <1>6 DEF Reviewers, OutsideReviews
  <2>2. {"decision_shaper", "risk_preventer"} \intersect RolesOf(f, c) = {}
    BY <2>1 DEF RolesOf, Given
  <2> HIDE DEF P, authors
  <2> QED
    BY <1>2, <1>6, <2>2
<1> HIDE DEF P, authors
<1>7. SharedAmong(P, authors)
  BY <1>4, <1>5, <1>6 DEF SharedAmong
<1> QED
  BY <1>5, <1>7 DEF P, authors

(***************************************************************************)
(* Whoever the cast and whatever the comments: every episode whose authors *)
(* are all known, and none a bot, has somebody with a large share; the     *)
(* shares of an episode are above the limit by half a grain for each       *)
(* sharer at most; and nobody has credit for having reviewed what he wrote *)
(* a part of.                                                              *)
(***************************************************************************)
THEOREM CreditIsAlwaysShared == Spec => CreditIsShared
<1>1. ASSUME StageInv, [Next]_vars
      PROVE  [phase = "analysed" /\ phase' = "attributed" =>
                SharedAmong(participants', {Who(n) : n \in subject})]_vars
  <2> SUFFICES ASSUME Next, phase = "analysed", phase' = "attributed"
               PROVE  SharedAmong(participants', {Who(n) : n \in subject})
    BY <1>1
  <2>1. StageAttribute
    <3>1. ~Cluster
      BY DEF Cluster, Weigh, MoveNode, SweepAgain, Aggregate, LevelOver, Converge, Constrain
    <3>2. ~(Follow \/ Visit \/ Deepen \/ Record)
      BY DEF Follow, Visit, Deepen, Record, WalkOver
    <3>3. ~(StageFeatures \/ StageGraph \/ StageDimensions \/ StagePortfolios \/ StageRank)
      BY DEF StageFeatures, StageGraph, StageDimensions, StagePortfolios, StageRank
    <3>4. ~StageAnalytics
      BY DEF StageAnalytics
    <3> QED
      BY <3>1, <3>2, <3>3, <3>4 DEF Next, StageEpisodes
  <2>2. PICK f \in Casts : participants' = Participants(f)
    BY <2>1 DEF StageAttribute
  <2>3. Shaped(tables) /\ subject \in clusters /\ IsPartition(clusters, Members)
    BY <1>1 DEF StageInv, TablesInv, ClustersInv, SubjectInv, GraphPhases
  <2>4. subject \subseteq PRs /\ subject # {}
    BY <2>3 DEF IsPartition, Members, Shaped
  <2> QED
    BY <2>2, <2>3, <2>4, CreditOfParticipants
<1> QED
  BY <1>1, AlwaysStageInv, PTL DEF Spec, CreditIsShared

-----------------------------------------------------------------------------
(***************************************************************************)
(* The value of a dimension.                                               *)
(***************************************************************************)

LEMMA SumsOfParts ==
  ASSUME NEW S, IsFiniteSet(S), NEW f, \A x \in S : f[x] \in Nat, NEW T \in SUBSET S
  PROVE  SumOver(f, T) <= SumOver(f, S)
<1>1. \A x \in S : f[x] \in Int
  OBVIOUS
<1>2. \A s \in SUBSET S : IsFiniteSet(s) /\ SumOver(f, s) \in Int
  BY <1>1, SumIsInt, FS_Subset
<1> DEFINE F == {s \in SUBSET S : T \subseteq s /\ SumOver(f, s) < SumOver(f, T)}
<1> SUFFICES ASSUME F # {} PROVE FALSE
  BY <1>2
<1>3. F \subseteq SUBSET S
  OBVIOUS
<1>4. \E s \in F : \A t \in F : t \subseteq s => t = s
  <2> HIDE DEF F
  <2> QED
    BY <1>3, LeastSubset
<1>5. PICK s \in F : \A t \in F : t \subseteq s => t = s
  BY <1>4
<1>6. s # T
  BY <1>2, <1>5
<1>7. PICK x \in s : x \notin T
  BY <1>5, <1>6
<1>8. SumOver(f, s) = f[x] + SumOver(f, s \ {x})
  BY <1>1, <1>2, <1>5, SumSplits
<1>9. ~(SumOver(f, s \ {x}) < SumOver(f, T))
  BY <1>5, <1>7
<1>10. SumOver(f, s \ {x}) \in Int /\ SumOver(f, T) \in Int /\ f[x] \in Nat
  BY <1>2, <1>5
<1>11. SumOver(f, s) < SumOver(f, T)
  BY <1>5
<1> QED
  BY <1>8, <1>9, <1>10, <1>11

Above(of, e) ==
  {f \in DOMAIN of : of[f] > of[e] \/ (of[f] = of[e] /\ f.id < e.id)}

Place(of, e) == 1 + Cardinality(Above(of, e))

\* Every entry has a number, and none has that of another.
Numbered(of) ==
  /\ IsFiniteSet(DOMAIN of)
  /\ \A e \in DOMAIN of : of[e] \in Int /\ e.id \in Int
  /\ \A e, f \in DOMAIN of : e.id = f.id => e = f

LEMMA PlacesDiffer ==
  ASSUME NEW of, Numbered(of), NEW e \in DOMAIN of
  PROVE  /\ IsFiniteSet(Above(of, e))
         /\ Place(of, e) \in 1 .. Cardinality(DOMAIN of)
         /\ \A f \in DOMAIN of : e \in Above(of, f) => Place(of, e) < Place(of, f)
         /\ \A f \in DOMAIN of : f # e => Place(of, f) # Place(of, e)
<1> DEFINE E == DOMAIN of
<1>1. IsFiniteSet(E) /\ \A f \in E : Above(of, f) \in SUBSET E
  BY DEF Numbered, Above
<1>2. \A f \in E : IsFiniteSet(Above(of, f)) /\ Cardinality(Above(of, f)) \in Nat
  BY <1>1, FS_Subset, FS_CardinalityType
<1>3. ASSUME NEW a \in E, NEW b \in E, a \in Above(of, b)
      PROVE  Place(of, a) < Place(of, b)
  <2> DEFINE A == Above(of, a)
             B == Above(of, b)
  <2>1. a \notin A /\ A \union {a} \subseteq B
    BY <1>3 DEF Above, Numbered
  <2>2. Cardinality(A \union {a}) = Cardinality(A) + 1
    BY <1>2, <2>1, FS_AddElement
  <2>3. Cardinality(A \union {a}) <= Cardinality(B)
    <3>1. A \union {a} \in SUBSET B /\ IsFiniteSet(B)
      BY <1>2, <2>1
    <3> HIDE DEF A, B
    <3> QED
      BY <3>1, FS_Subset
  <2> QED
    BY <1>2, <2>2, <2>3 DEF Place
<1>4. ASSUME NEW f \in E, f # e PROVE Place(of, f) # Place(of, e)
  <2>1. e \in Above(of, f) \/ f \in Above(of, e)
    BY <1>4 DEF Above, Numbered
  <2>2. Place(of, e) \in Nat /\ Place(of, f) \in Nat
    BY <1>2 DEF Place
  <2> QED
    BY <1>3, <2>1, <2>2
<1>5. Place(of, e) \in 1 .. Cardinality(E)
  <2>1. e \notin Above(of, e) /\ Above(of, e) \in SUBSET (E \ {e})
    BY DEF Above, Numbered
  <2>2. IsFiniteSet(E \ {e}) /\ Cardinality(E \ {e}) = Cardinality(E) - 1
    BY <1>1, FS_RemoveElement
  <2>3. Cardinality(Above(of, e)) <= Cardinality(E) - 1
    BY <2>1, <2>2, FS_Subset
  <2>4. Cardinality(E) \in Nat
    BY <1>1, FS_CardinalityType
  <2> QED
    BY <1>2, <2>3, <2>4 DEF Place
<1> QED
  BY <1>2, <1>3, <1>4, <1>5

LEMMA PlacesAreTaken ==
  ASSUME NEW of, Numbered(of), NEW i \in 1 .. Cardinality(DOMAIN of)
  PROVE  \E e \in DOMAIN of : Place(of, e) = i
<1> DEFINE E == DOMAIN of
           n == Cardinality(E)
           place == [e \in E |-> Place(of, e)]
<1>1. IsFiniteSet(E) /\ n \in Nat
  BY FS_CardinalityType DEF Numbered
<1>2. IsFiniteSet(1 .. n) /\ Cardinality(1 .. n) = n
  BY <1>1, FS_Interval
<1>3. place \in Injection(E, 1 .. n)
  <2>1. place \in [E -> 1 .. n]
    BY PlacesDiffer
  <2>2. \A a, b \in E : place[a] = place[b] => a = b
    BY PlacesDiffer
  <2> QED
    BY <2>1, <2>2 DEF Injection, IsInjective
<1>4. place \in Surjection(E, 1 .. n)
  <2> HIDE DEF place, n
  <2> QED
    BY <1>1, <1>2, <1>3, FS_Injection DEF n
<1> QED
  BY <1>4 DEF Surjection

Holder(of, i) == CHOOSE e \in DOMAIN of : Place(of, e) = i

LEMMA OrderedIs ==
  ASSUME NEW of, Numbered(of)
  PROVE  /\ DOMAIN Ordered(of) = 1 .. Cardinality(DOMAIN of)
         /\ \A i \in 1 .. Cardinality(DOMAIN of) :
              /\ Ordered(of)[i] = of[Holder(of, i)]
              /\ Holder(of, i) \in DOMAIN of /\ Place(of, Holder(of, i)) = i
<1>1. Ordered(of) = [i \in 1 .. Cardinality(DOMAIN of) |-> of[Holder(of, i)]]
  BY DEF Ordered, Holder, Place, Above
<1>2. \A i \in 1 .. Cardinality(DOMAIN of) :
        Holder(of, i) \in DOMAIN of /\ Place(of, Holder(of, i)) = i
  BY PlacesAreTaken DEF Holder
<1> QED
  BY <1>1, <1>2

\* The first k are k entries, and who is behind them is no larger.
LEMMA FirstAreLargest ==
  ASSUME NEW of, Numbered(of), NEW k \in 1 .. Cardinality(DOMAIN of)
  PROVE  /\ Ordered(of)[k] \in Int
         /\ LET T == {e \in DOMAIN of : of[e] >= Ordered(of)[k]}
            IN  IsFiniteSet(T) /\ Cardinality(T) >= k
         /\ \A x \in Int : \A T \in SUBSET {e \in DOMAIN of : of[e] >= x} :
              Cardinality(T) >= k => Ordered(of)[k] >= x
<1> DEFINE h == Holder(of, k)
           y == Ordered(of)[k]
<1>1. h \in DOMAIN of /\ y = of[h] /\ Place(of, h) = k /\ y \in Int
  BY OrderedIs DEF Numbered
<1>2. IsFiniteSet(Above(of, h)) /\ Cardinality(Above(of, h)) \in Nat
  BY <1>1, PlacesDiffer, FS_CardinalityType
<1>3. IsFiniteSet(DOMAIN of)
  BY DEF Numbered
<1> HIDE DEF h, y
<1> DEFINE U == {e \in DOMAIN of : of[e] >= y}
<1>4. IsFiniteSet(U) /\ Cardinality(U) >= k
  <2>1. h \notin Above(of, h) /\ Above(of, h) \union {h} \in SUBSET U
    BY <1>1 DEF Above, Numbered
  <2>2. Cardinality(Above(of, h) \union {h}) = k
    <3>1. Cardinality(Above(of, h) \union {h}) = Cardinality(Above(of, h)) + 1
      BY <1>2, <2>1, FS_AddElement
    <3>2. k = 1 + Cardinality(Above(of, h))
      BY <1>1 DEF Place
    <3> QED
      BY <1>2, <3>1, <3>2
  <2>3. IsFiniteSet(U)
    BY <1>3, FS_Subset
  <2> HIDE DEF U
  <2>4. Cardinality(Above(of, h) \union {h}) <= Cardinality(U)
    BY <2>1, <2>3, FS_Subset
  <2> QED
    BY <2>2, <2>3, <2>4
<1>5. ASSUME NEW x \in Int, NEW T \in SUBSET {e \in DOMAIN of : of[e] >= x},
             Cardinality(T) >= k
      PROVE  y >= x
  <2> SUFFICES ASSUME y < x PROVE FALSE
    BY <1>1
  <2>1. T \in SUBSET Above(of, h)
    BY <1>1, <1>5 DEF Above, Numbered
  <2>2. Cardinality(T) <= Cardinality(Above(of, h)) /\ Cardinality(T) \in Nat
    BY <1>2, <2>1, FS_Subset, FS_CardinalityType
  <2> QED
    BY <1>1, <1>2, <1>5, <2>2 DEF Place
<1> QED
  BY <1>1, <1>4, <1>5 DEF y

\* Who has for each of his entries another that is no smaller is ahead at every
\* place: the values need not come in the same order.
LEMMA OrderedGrows ==
  ASSUME NEW f, Numbered(f), NEW g, Numbered(g),
         NEW phi \in Injection(DOMAIN f, DOMAIN g),
         \A e \in DOMAIN f : f[e] <= g[phi[e]]
  PROVE  /\ Cardinality(DOMAIN f) <= Cardinality(DOMAIN g)
         /\ \A k \in 1 .. Cardinality(DOMAIN f) :
              k \in 1 .. Cardinality(DOMAIN g) /\ Ordered(f)[k] <= Ordered(g)[k]
<1> DEFINE E == DOMAIN f
           F == DOMAIN g
<1>1. IsFiniteSet(E) /\ IsFiniteSet(F)
  BY DEF Numbered
<1>2. /\ Cardinality(E) \in Nat /\ Cardinality(F) \in Nat
      /\ Cardinality(E) <= Cardinality(F)
  BY <1>1, FS_Injection, FS_CardinalityType
<1>3. ASSUME NEW k \in 1 .. Cardinality(E)
      PROVE  k \in 1 .. Cardinality(F) /\ Ordered(f)[k] <= Ordered(g)[k]
  <2>1. k \in 1 .. Cardinality(F)
    BY <1>2
  <2> DEFINE x == Ordered(f)[k]
             T == {e \in E : f[e] >= x}
             U == {phi[e] : e \in T}
             psi == [e \in T |-> phi[e]]
  <2>2. x \in Int /\ IsFiniteSet(T) /\ Cardinality(T) >= k
    BY FirstAreLargest
  <2>3. psi \in Surjection(T, U) /\ psi \in Injection(T, U)
    BY DEF Surjection, Injection, IsInjective
  <2>4. Cardinality(U) = Cardinality(T)
    <3> HIDE DEF T, U, psi
    <3> QED
      BY <2>2, <2>3, FS_Surjection
  <2>5. U \in SUBSET {e \in F : g[e] >= x}
    BY <2>2 DEF Numbered, Injection
  <2>6. Ordered(g)[k] >= x /\ Ordered(g)[k] \in Int
    <3> HIDE DEF T, U, x
    <3>1. Cardinality(U) >= k
      BY <2>2, <2>4
    <3> QED
      BY <2>1, <2>2, <2>5, <3>1, FirstAreLargest
  <2> QED
    BY <2>1, <2>2, <2>6
<1> QED
  BY <1>2, <1>3

LEMMA AggregateGrows ==
  ASSUME NEW m \in Nat, NEW n \in Nat, 1 <= m, m <= n, NEW f, NEW g,
         DOMAIN f = 1 .. m, DOMAIN g = 1 .. n,
         \A k \in 1 .. m : f[k] \in Nat /\ f[k] <= g[k], \A k \in 1 .. n : g[k] \in Nat
  PROVE  /\ AggregateOrdered(f) \in Nat /\ AggregateOrdered(g) \in Nat
         /\ AggregateOrdered(f) <= AggregateOrdered(g)
         /\ AggregateOrdered(f) <= f[1] + Headroom
         /\ AggregateOrdered(f) <= ScaleMax
         /\ f[1] >= ScaleMax => AggregateOrdered(f) = ScaleMax
<1>0. /\ DOMAIN Coefficients \subseteq Nat
      /\ \A i \in DOMAIN Coefficients : Coefficients[i] \in Nat
      /\ Headroom \in Nat /\ ScaleMax \in Nat
  BY PortfolioAssumption
<1> DEFINE A == (DOMAIN f \intersect DOMAIN Coefficients) \ {1}
           B == (DOMAIN g \intersect DOMAIN Coefficients) \ {1}
           part == [i \in A |-> (Coefficients[i] * f[i]) \div 100]
           more == [i \in B |-> (Coefficients[i] * g[i]) \div 100]
           x == SumOver(part, A)
           y == SumOver(more, B)
<1>1. A \in SUBSET B /\ A \in SUBSET (1 .. m) /\ B \in SUBSET (1 .. n)
  OBVIOUS
<1>2. IsFiniteSet(A) /\ IsFiniteSet(B)
  <2>1. IsFiniteSet(1 .. m) /\ IsFiniteSet(1 .. n)
    BY FS_Interval
  <2> HIDE DEF A, B
  <2> QED
    BY <1>1, <2>1, FS_Subset
<1>3. \A i \in DOMAIN Coefficients : Coefficients[i] \in Nat
  BY <1>0
<1>4. \A i \in B : more[i] \in Nat
  <2> SUFFICES ASSUME NEW i \in B PROVE more[i] \in Nat
    OBVIOUS
  <2>1. Coefficients[i] \in Nat /\ g[i] \in Nat
    BY <1>3
  <2>2. \A c, v \in Nat : (c * v) \div 100 \in Nat
    <3> TAKE c, v \in Nat
    <3>1. c * v \in Nat
      OBVIOUS
    <3> QED
      BY <3>1, Quotient
  <2> QED
    BY <2>1, <2>2
<1>5. \A i \in A : part[i] \in Nat /\ part[i] <= more[i]
  <2> SUFFICES ASSUME NEW i \in A PROVE part[i] \in Nat /\ part[i] <= more[i]
    OBVIOUS
  <2>1. Coefficients[i] \in Nat /\ f[i] \in Nat /\ g[i] \in Nat /\ f[i] <= g[i]
    BY <1>1, <1>3
  <2>2. \A c, v, w \in Nat : v <= w => /\ (c * v) \div 100 \in Nat
                                       /\ (c * v) \div 100 <= (c * w) \div 100
    <3> TAKE c, v, w \in Nat
    <3> HAVE v <= w
    <3>1. c * v \in Nat /\ c * w \in Nat /\ c * v <= c * w
      OBVIOUS
    <3>2. \A p, q \in Nat : p <= q => p \div 100 \in Nat /\ p \div 100 <= q \div 100
      OBVIOUS
    <3> QED
      BY <3>1, <3>2
  <2>3. i \in B
    BY <1>1
  <2> QED
    BY <2>1, <2>2, <2>3
<1>6. x \in Nat /\ y \in Nat /\ x <= y
  <2> HIDE DEF A, B, part, more
  <2>1. x \in Nat /\ y \in Nat
    BY <1>2, <1>4, <1>5, SumIsNat
  <2>2. \A i \in A : part[i] \in Int /\ more[i] \in Int /\ part[i] <= more[i]
    BY <1>1, <1>4, <1>5
  <2>3. x <= SumOver(more, A)
    BY <1>2, <2>2, SumsGrow
  <2>4. SumOver(more, A) <= y
    BY <1>1, <1>2, <1>4, SumsOfParts
  <2>5. SumOver(more, A) \in Int
    BY <1>2, <2>2, SumIsInt
  <2> QED
    BY <2>1, <2>3, <2>4, <2>5
<1>7. /\ AggregateOrdered(f) = Min({ScaleMax, f[1] + Min({Headroom, x})})
      /\ AggregateOrdered(g) = Min({ScaleMax, g[1] + Min({Headroom, y})})
  BY DEF AggregateOrdered
<1> HIDE DEF x, y, A, B, part, more
<1>8. f[1] \in Nat /\ g[1] \in Nat /\ f[1] <= g[1]
  OBVIOUS
<1>9. /\ Min({Headroom, x}) = IF Headroom <= x THEN Headroom ELSE x
      /\ Min({Headroom, y}) = IF Headroom <= y THEN Headroom ELSE y
  BY <1>0, <1>6, MinMax
<1>10. /\ Min({ScaleMax, f[1] + Min({Headroom, x})})
          = IF ScaleMax <= f[1] + Min({Headroom, x}) THEN ScaleMax ELSE f[1] + Min({Headroom, x})
       /\ Min({ScaleMax, g[1] + Min({Headroom, y})})
          = IF ScaleMax <= g[1] + Min({Headroom, y}) THEN ScaleMax ELSE g[1] + Min({Headroom, y})
  <2>1. Min({Headroom, x}) \in Nat /\ Min({Headroom, y}) \in Nat
    BY <1>0, <1>6, <1>9
  <2>2. f[1] + Min({Headroom, x}) \in Int /\ g[1] + Min({Headroom, y}) \in Int /\ ScaleMax \in Int
    BY <1>0, <1>8, <2>1
  <2> QED
    BY <2>2, MinMax
<1> DEFINE p == Min({Headroom, x})
           q == Min({Headroom, y})
           r == f[1]
           t == g[1]
<1>11. p \in Nat /\ q \in Nat /\ p <= q /\ p <= Headroom
  BY <1>0, <1>6, <1>9
<1>12. /\ AggregateOrdered(f) = IF ScaleMax <= r + p THEN ScaleMax ELSE r + p
       /\ AggregateOrdered(g) = IF ScaleMax <= t + q THEN ScaleMax ELSE t + q
       /\ r \in Nat /\ t \in Nat /\ r <= t
  BY <1>7, <1>8, <1>10
<1> HIDE DEF p, q, r, t
<1>13. /\ AggregateOrdered(f) \in Nat /\ AggregateOrdered(g) \in Nat
       /\ AggregateOrdered(f) <= AggregateOrdered(g)
       /\ AggregateOrdered(f) <= r + Headroom
       /\ AggregateOrdered(f) <= ScaleMax
       /\ r >= ScaleMax => AggregateOrdered(f) = ScaleMax
  BY <1>0, <1>11, <1>12
<1> QED
  BY <1>13 DEF r

LEMMA ContributionType ==
  ASSUME NEW E, AreEntries(E), NEW e \in E, Contributes(e)
  PROVE  /\ ValueOf(e) \in Nat /\ Low(e) \in Nat /\ High(e) \in Nat
         /\ Low(e) <= ValueOf(e)
         /\ ValueOf(e) <= High(e) \/ High(e) = ScaleMax
<1>1. /\ e.band \in Nat /\ e.factor \in Nat /\ e.decay \in Nat
      /\ Discount[e.confidence] \in Nat /\ HalfWidth[e.confidence] \in Nat
  BY PortfolioAssumption DEF AreEntries, Contributes
<1>2. \A a, b, c, d \in Nat : (a * b * c * d) \div 10000 \in Nat /\ (a * b * c) \div 10000 \in Nat
  <2> TAKE a, b, c, d \in Nat
  <2>1. a * b \in Nat
    OBVIOUS
  <2>2. a * b * c \in Nat
    BY <2>1
  <2>3. a * b * c * d \in Nat
    BY <2>2
  <2> QED
    BY <2>2, <2>3, Quotient
<1> DEFINE v == ValueOf(e)
           s == Spread(e)
<1>3. v \in Nat /\ s \in Nat
  BY <1>1, <1>2 DEF ValueOf, Spread
<1>4. Low(e) = Max({0, v - s}) /\ High(e) = Min({ScaleMax, v + s})
  BY DEF Low, High
<1> HIDE DEF v, s
<1>5. ScaleMax \in Nat /\ v - s \in Int /\ v + s \in Int
  BY <1>3, PortfolioAssumption
<1>6. /\ Low(e) = IF 0 >= v - s THEN 0 ELSE v - s
      /\ High(e) = IF ScaleMax <= v + s THEN ScaleMax ELSE v + s
  <2>1. \A a, b \in Int : /\ Max({a, b}) = IF a >= b THEN a ELSE b
                          /\ Min({a, b}) = IF a <= b THEN a ELSE b
    BY MinMax
  <2>2. 0 \in Int /\ ScaleMax \in Int
    BY <1>5
  <2>3. Max({0, v - s}) = IF 0 >= v - s THEN 0 ELSE v - s
    BY <1>5, <2>1, <2>2
  <2>4. Min({ScaleMax, v + s}) = IF ScaleMax <= v + s THEN ScaleMax ELSE v + s
    BY <1>5, <2>1, <2>2
  <2> QED
    BY <1>4, <2>3, <2>4
<1>7. /\ v \in Nat /\ Low(e) \in Nat /\ High(e) \in Nat /\ Low(e) <= v
      /\ v <= High(e) \/ High(e) = ScaleMax
  BY <1>3, <1>5, <1>6
<1> QED
  BY <1>7 DEF v

LEMMA StrongerIsAnOrder ==
  ASSUME NEW E, AreEntries(E),
         NEW a \in E, Contributes(a), NEW b \in E, Contributes(b), NEW c \in E, Contributes(c)
  PROVE  /\ a # b => Stronger(a, b) \/ Stronger(b, a)
         /\ ~(Stronger(a, b) /\ Stronger(b, a))
         /\ Stronger(a, b) /\ Stronger(b, c) => Stronger(a, c)
         /\ Stronger(a, b) => ValueOf(b) <= ValueOf(a)
<1>1. ValueOf(a) \in Nat /\ ValueOf(b) \in Nat /\ ValueOf(c) \in Nat
  BY ContributionType
<1>2. a.id \in Nat /\ b.id \in Nat /\ c.id \in Nat /\ (a # b => a.id # b.id)
  BY DEF AreEntries
<1> QED
  BY <1>1, <1>2 DEF Stronger

LEMMA IndependentAreEntries ==
  ASSUME NEW E, AreEntries(E)
  PROVE  /\ Independent(E) \in SUBSET E /\ \A e \in Independent(E) : Contributes(e)
         /\ IsFiniteSet(Independent(E))
<1>1. Independent(E) \in SUBSET E /\ \A e \in Independent(E) : Contributes(e)
  BY DEF Independent
<1> QED
  BY <1>1, FS_Subset DEF AreEntries

\* Without an entry, each of those that count has a stronger one with it: the one
\* that steps in for the strongest of a group is no stronger.
LEMMA IndependentWithout ==
  ASSUME NEW E, AreEntries(E), NEW e \in E
  PROVE  \E phi \in Injection(Independent(E \ {e}), Independent(E)) :
           \A x \in Independent(E \ {e}) : ValueOf(x) <= ValueOf(phi[x])
<1> DEFINE I == Independent(E)
           J == Independent(E \ {e})
           phi == [x \in J |-> IF x.group = e.group /\ e \in I THEN e ELSE x]
<1>1. \A x \in J : /\ x \in E /\ x # e /\ Contributes(x)
                   /\ \A f \in E : f # e /\ Contributes(f) /\ f.group = x.group /\ f # x
                                   => Stronger(x, f)
  BY DEF Independent
<1>2. \A x \in I : /\ x \in E /\ Contributes(x)
                   /\ \A f \in E : Contributes(f) /\ f.group = x.group /\ f # x
                                   => Stronger(x, f)
  BY DEF Independent
<1>3. ASSUME NEW x \in J, x.group # e.group \/ e \notin I
      PROVE  x \in I
  <2> SUFFICES ASSUME Contributes(e), e.group = x.group PROVE Stronger(x, e)
    BY <1>1 DEF Independent
  <2>1. PICK f \in E : Contributes(f) /\ f.group = e.group /\ f # e /\ ~Stronger(e, f)
    BY <1>3 DEF Independent
  <2>2. Stronger(f, e)
    BY <2>1, StrongerIsAnOrder
  <2>3. f = x \/ Stronger(x, f)
    BY <1>1, <2>1
  <2> QED
    BY <1>1, <2>1, <2>2, <2>3, StrongerIsAnOrder
<1>4. phi \in [J -> I]
  BY <1>3
<1>5. ASSUME NEW x \in J, NEW y \in J, phi[x] = phi[y], x # y PROVE FALSE
  <2>1. x # e /\ y # e
    BY <1>1
  <2>2. x.group = e.group /\ y.group = e.group
    BY <1>5, <2>1
  <2>3. Stronger(x, y) /\ Stronger(y, x)
    BY <1>1, <1>5, <2>2
  <2> QED
    BY <1>1, <2>3, StrongerIsAnOrder
<1>6. ASSUME NEW x \in J PROVE ValueOf(x) <= ValueOf(phi[x])
  <2>1. CASE x.group = e.group /\ e \in I
    <3>1. Stronger(e, x) /\ phi[x] = e
      BY <1>1, <1>2, <2>1
    <3> QED
      BY <1>1, <1>2, <2>1, <3>1, StrongerIsAnOrder
  <2>2. CASE ~(x.group = e.group /\ e \in I)
    <3>1. phi[x] = x /\ ValueOf(x) \in Nat
      BY <1>1, <2>2, ContributionType
    <3> QED
      BY <3>1
  <2> QED
    BY <2>1, <2>2
<1>7. phi \in Injection(J, I)
  <2> HIDE DEF phi, I, J
  <2> QED
    BY <1>4, <1>5 DEF Injection, IsInjective
<1>8. \A x \in J : ValueOf(x) <= ValueOf(phi[x])
  BY <1>6
<1> HIDE DEF phi
<1> QED
  BY <1>7, <1>8

LEMMA NumberedValues ==
  ASSUME NEW E, AreEntries(E), NEW of, DOMAIN of = Independent(E),
         \A e \in Independent(E) : of[e] \in Nat
  PROVE  /\ Numbered(of) /\ Cardinality(DOMAIN of) \in Nat
         /\ Independent(E) # {} => Cardinality(DOMAIN of) >= 1
         /\ DOMAIN Ordered(of) = 1 .. Cardinality(DOMAIN of)
         /\ \A k \in 1 .. Cardinality(DOMAIN of) :
              Ordered(of)[k] \in Nat /\ \E e \in Independent(E) : Ordered(of)[k] = of[e]
<1>1. IsFiniteSet(DOMAIN of) /\ DOMAIN of \in SUBSET E
  BY IndependentAreEntries
<1>2. Numbered(of)
  BY <1>1 DEF Numbered, AreEntries
<1>3. Cardinality(DOMAIN of) \in Nat /\ (Cardinality(DOMAIN of) = 0 <=> DOMAIN of = {})
  BY <1>1, FS_CardinalityType, FS_EmptySet
<1>4. \A k \in 1 .. Cardinality(DOMAIN of) :
        Ordered(of)[k] \in Nat /\ \E e \in Independent(E) : Ordered(of)[k] = of[e]
  BY <1>2, OrderedIs
<1> QED
  BY <1>2, <1>3, <1>4, OrderedIs

\* Of more entries, none of them smaller, the value is no smaller.
LEMMA ValueGrows ==
  ASSUME NEW E, AreEntries(E), Independent(E) # {}, NEW F, AreEntries(F),
         NEW f, DOMAIN f = Independent(E), \A e \in Independent(E) : f[e] \in Nat,
         NEW g, DOMAIN g = Independent(F), \A e \in Independent(F) : g[e] \in Nat,
         NEW phi \in Injection(Independent(E), Independent(F)),
         \A e \in Independent(E) : f[e] <= g[phi[e]]
  PROVE  /\ AggregateOrdered(Ordered(f)) \in Nat /\ AggregateOrdered(Ordered(g)) \in Nat
         /\ AggregateOrdered(Ordered(f)) <= AggregateOrdered(Ordered(g))
         /\ AggregateOrdered(Ordered(f)) <= ScaleMax
         /\ \E e \in Independent(E) : AggregateOrdered(Ordered(f)) <= f[e] + Headroom
         /\ \A e \in Independent(E) : f[e] >= ScaleMax => AggregateOrdered(Ordered(f)) = ScaleMax
<1> DEFINE m == Cardinality(DOMAIN f)
           n == Cardinality(DOMAIN g)
<1>1. /\ Numbered(f) /\ m \in Nat /\ m >= 1
      /\ DOMAIN Ordered(f) = 1 .. m
      /\ \A k \in 1 .. m : Ordered(f)[k] \in Nat /\ \E e \in Independent(E) : Ordered(f)[k] = f[e]
  BY NumberedValues
<1>2. /\ Numbered(g) /\ n \in Nat /\ DOMAIN Ordered(g) = 1 .. n
      /\ \A k \in 1 .. n : Ordered(g)[k] \in Nat
  BY NumberedValues
<1>3. m <= n /\ \A k \in 1 .. m : Ordered(f)[k] <= Ordered(g)[k]
  BY <1>1, <1>2, OrderedGrows
<1>4. PICK e \in Independent(E) : Ordered(f)[1] = f[e]
  BY <1>1
<1>6. ASSUME NEW d \in Independent(E), f[d] >= ScaleMax PROVE Ordered(f)[1] >= ScaleMax
  <2>1. {d} \in SUBSET {x \in DOMAIN f : f[x] >= f[d]} /\ Cardinality({d}) >= 1 /\ f[d] \in Int
    BY FS_Singleton
  <2>2. Ordered(f)[1] >= f[d]
    <3>1. 1 \in 1 .. Cardinality(DOMAIN f)
      BY <1>1
    <3> QED
      BY <1>1, <2>1, <3>1, FirstAreLargest
  <2>3. 1 \in 1 .. m
    BY <1>1
  <2>4. Ordered(f)[1] \in Int /\ ScaleMax \in Int
    BY <1>1, <2>3, PortfolioAssumption
  <2> QED
    BY <1>6, <2>1, <2>2, <2>4
<1> HIDE DEF m, n
<1>5. /\ AggregateOrdered(Ordered(f)) \in Nat /\ AggregateOrdered(Ordered(g)) \in Nat
      /\ AggregateOrdered(Ordered(f)) <= AggregateOrdered(Ordered(g))
      /\ AggregateOrdered(Ordered(f)) <= Ordered(f)[1] + Headroom
      /\ AggregateOrdered(Ordered(f)) <= ScaleMax
      /\ Ordered(f)[1] >= ScaleMax => AggregateOrdered(Ordered(f)) = ScaleMax
  BY <1>1, <1>2, <1>3, AggregateGrows
<1> QED
  BY <1>4, <1>5, <1>6

LEMMA Itself ==
  ASSUME NEW S
  PROVE  [x \in S |-> x] \in Injection(S, S)
BY DEF Injection, IsInjective

\* Whatever the entries: the three claims of MoreEvidenceNeverHurts.
LEMMA ValuesGrowWithEvidence ==
  ASSUME NEW E, AreEntries(E), DimensionValue(E).value # Unknown
  PROVE  /\ \A e \in E : \/ DimensionValue(E \ {e}).value = Unknown
                         \/ DimensionValue(E \ {e}).value <= DimensionValue(E).value
         /\ \E e \in Independent(E) : DimensionValue(E).value <= ValueOf(e) + Headroom
         /\ DimensionValue(E).low <= DimensionValue(E).value
         /\ DimensionValue(E).value <= DimensionValue(E).high
<1> DEFINE of(F)   == [e \in Independent(F) |-> ValueOf(e)]
           low(F)  == [e \in Independent(F) |-> Low(e)]
           high(F) == [e \in Independent(F) |-> High(e)]
           I == Independent(E)
           same == [x \in I |-> x]
<1>1. \A F : IF Independent(F) = {} THEN DimensionValue(F).value = Unknown
             ELSE /\ DimensionValue(F).value = AggregateOrdered(Ordered(of(F)))
                  /\ DimensionValue(F).low = AggregateOrdered(Ordered(low(F)))
                  /\ DimensionValue(F).high = AggregateOrdered(Ordered(high(F)))
  BY DEF DimensionValue
<1>2. I # {}
  BY <1>1
<1>3. ASSUME NEW F, AreEntries(F), NEW e \in Independent(F)
      PROVE  /\ of(F)[e] = ValueOf(e) /\ low(F)[e] = Low(e) /\ high(F)[e] = High(e)
             /\ ValueOf(e) \in Nat /\ Low(e) \in Nat /\ High(e) \in Nat
             /\ Low(e) <= ValueOf(e) /\ (ValueOf(e) <= High(e) \/ High(e) = ScaleMax)
  BY <1>3, IndependentAreEntries, ContributionType
<1>4. /\ DOMAIN of(E) = I /\ DOMAIN low(E) = I /\ DOMAIN high(E) = I
      /\ same \in Injection(I, I) /\ \A e \in I : same[e] = e
  BY Itself
<1>5. ASSUME NEW e \in E, DimensionValue(E \ {e}).value # Unknown
      PROVE  DimensionValue(E \ {e}).value <= DimensionValue(E).value
  <2> DEFINE F == E \ {e}
  <2>1. AreEntries(F)
    BY FS_RemoveElement DEF AreEntries
  <2>2. PICK phi \in Injection(Independent(F), I) :
           \A x \in Independent(F) : ValueOf(x) <= ValueOf(phi[x])
    BY IndependentWithout
  <2>3. Independent(F) # {}
    BY <1>1, <1>5
  <2>4. \A x \in Independent(F) : phi[x] \in I
    BY <2>2 DEF Injection
  <2>5. DOMAIN of(F) = Independent(F)
    OBVIOUS
  <2> HIDE DEF F, I
  <2>6. /\ \A x \in Independent(F) : of(F)[x] \in Nat /\ of(F)[x] <= of(E)[phi[x]]
        /\ \A x \in Independent(E) : of(E)[x] \in Nat
    BY <1>3, <2>1, <2>2, <2>4 DEF I
  <2> HIDE DEF of
  <2>7. AggregateOrdered(Ordered(of(F))) <= AggregateOrdered(Ordered(of(E)))
    BY <1>4, <2>1, <2>2, <2>3, <2>5, <2>6, ValueGrows DEF I
  <2> QED
    BY <1>1, <1>2, <2>3, <2>7 DEF F, I
<1> HIDE DEF same, of, low, high
<1>6. /\ \A e \in I : of(E)[e] \in Nat /\ low(E)[e] \in Nat /\ high(E)[e] \in Nat
      /\ \A e \in I : low(E)[e] <= of(E)[same[e]]
  BY <1>3, <1>4
<1>7. /\ AggregateOrdered(Ordered(low(E))) <= AggregateOrdered(Ordered(of(E)))
  BY <1>2, <1>4, <1>6, ValueGrows
<1>8. /\ AggregateOrdered(Ordered(of(E))) \in Nat
      /\ AggregateOrdered(Ordered(of(E))) <= ScaleMax
      /\ \E e \in I : AggregateOrdered(Ordered(of(E))) <= ValueOf(e) + Headroom
  <2>1. \A e \in I : of(E)[e] <= of(E)[same[e]]
    BY <1>4, <1>6
  <2>2. /\ AggregateOrdered(Ordered(of(E))) \in Nat
        /\ AggregateOrdered(Ordered(of(E))) <= ScaleMax
        /\ \E e \in I : AggregateOrdered(Ordered(of(E))) <= of(E)[e] + Headroom
    BY <1>2, <1>4, <1>6, <2>1, ValueGrows
  <2> QED
    BY <1>3, <2>2
<1>9. AggregateOrdered(Ordered(of(E))) <= AggregateOrdered(Ordered(high(E)))
  <2>1. CASE \A e \in I : ValueOf(e) <= High(e)
    <3>1. \A e \in I : of(E)[e] <= high(E)[same[e]]
      BY <1>3, <1>4, <2>1
    <3> QED
      BY <1>2, <1>4, <1>6, <3>1, ValueGrows
  <2>2. CASE \E e \in I : ~(ValueOf(e) <= High(e))
    <3>1. PICK e \in I : High(e) = ScaleMax
      BY <1>3, <2>2
    <3>2. \A x \in I : high(E)[x] <= high(E)[same[x]]
      BY <1>4, <1>6
    <3>3. high(E)[e] >= ScaleMax
      BY <1>3, <3>1
    <3>4. AggregateOrdered(Ordered(high(E))) = ScaleMax
      BY <1>2, <1>4, <1>6, <3>2, <3>3, ValueGrows
    <3> QED
      BY <1>8, <3>4
  <2> QED
    BY <2>1, <2>2
<1>10. /\ DimensionValue(E).value = AggregateOrdered(Ordered(of(E)))
       /\ DimensionValue(E).low = AggregateOrdered(Ordered(low(E)))
       /\ DimensionValue(E).high = AggregateOrdered(Ordered(high(E)))
  BY <1>1, <1>2
<1> QED
  BY <1>5, <1>7, <1>8, <1>9, <1>10

ValuesInv ==
  /\ phase = "attributed" =>
       \A who \in DOMAIN participants, d \in Dimensions : participants[who].factors[d] \in Nat
  /\ phase = "assessed" =>
       /\ assessment.band \in Nat \union {Unknown} /\ assessment.confidence \in Confidences
       /\ assessment.factor \in Nat
  /\ phase = "portfolio" => AreEntries(portfolio.entries)

LEMMA DimensionsKeepValues ==
  ASSUME ValuesInv, StageDimensions
  PROVE  ValuesInv'
<1>1. phase = "attributed" /\ phase' = "assessed"
  BY DEF StageDimensions
<1>2. PICK who \in DOMAIN participants, d \in Dimensions : \E f \in Facts[d] :
       assessment' = Extended(Evaluate(d, episode, f), [
         dimension    |-> d,
         status       |-> episode.status,
         corroborated |-> episode.corroborated,
         doubtful     |-> episode.doubtful,
         confirmed    |-> episode.corrective.confirmed,
         group        |-> episode.group,
         category     |-> participants[who].category,
         factor       |-> participants[who].factors[d]])
  BY DEF StageDimensions
<1> DEFINE own == [
         dimension    |-> d,
         status       |-> episode.status,
         corroborated |-> episode.corroborated,
         doubtful     |-> episode.doubtful,
         confirmed    |-> episode.corrective.confirmed,
         group        |-> episode.group,
         category     |-> participants[who].category,
         factor       |-> participants[who].factors[d]]
<1>3. PICK f \in Facts[d] : assessment' = Extended(Evaluate(d, episode, f), own)
  BY <1>2
<1> DEFINE r == Evaluate(d, episode, f)
<1>4. "factor" \in DOMAIN own /\ own["factor"] = participants[who].factors[d]
  OBVIOUS
<1>5. /\ EarnedBy(r, episode) /\ DOMAIN r = {"band", "classes", "confidence", "marker"}
      /\ r.confidence \in Confidences
  BY EvaluateEarned DEF Verdicts
<1> HIDE DEF own, r
<1>6. /\ assessment'["band"] = r["band"] /\ assessment'["confidence"] = r["confidence"]
      /\ assessment'["factor"] = participants[who].factors[d]
  <2>1. assessment' = Extended(r, own)
    BY <1>3 DEF r
  <2> QED
    BY <2>1, <1>4, <1>5, ExtendedLeft, ExtendedRight
<1>7. participants[who].factors[d] \in Nat
  BY <1>1 DEF ValuesInv
<1>8. r.band \in Nat \union {Unknown}
  BY <1>5 DEF EarnedBy
<1> QED
  BY <1>1, <1>5, <1>6, <1>7, <1>8 DEF ValuesInv

LEMMA PortfoliosKeepValues ==
  ASSUME ValuesInv, StagePortfolios
  PROVE  ValuesInv'
<1>1. phase = "assessed" /\ phase' = "portfolio"
  BY DEF StagePortfolios
<1>2. PICK decay \in Decays, others \in OtherEntries, known \in OtherKnown :
        \E higher \in {0, SevereBand} :
          portfolio' = PortfolioOf({EntryOf(decay, higher)} \union others, known)
  BY DEF StagePortfolios
<1>9. PICK higher \in {0, SevereBand} :
          portfolio' = PortfolioOf({EntryOf(decay, higher)} \union others, known)
  BY <1>2
<1> DEFINE e == EntryOf(decay, higher)
<1>3. /\ portfolio'.entries = {e} \union others
      /\ e.id = 1 /\ e.decay = decay /\ e.band = assessment.band
      /\ e.confidence = assessment.confidence /\ e.factor = assessment.factor
  BY <1>9 DEF PortfolioOf, EntryOf
<1> HIDE DEF e
<1>4. /\ e.band \in Nat \union {Unknown} /\ e.confidence \in Confidences /\ e.factor \in Nat
      /\ e.decay \in Nat /\ e.id \in Nat
  BY <1>1, <1>3, EntriesAssumption DEF ValuesInv
<1>5. AreEntries(others) /\ \A f \in others : f.id # 1
  BY EntriesAssumption
<1>6. IsFiniteSet({e} \union others)
  BY <1>5, FS_Singleton, FS_Union DEF AreEntries
<1>7. AreEntries({e} \union others)
  BY <1>3, <1>4, <1>5, <1>6 DEF AreEntries
<1> QED
  BY <1>1, <1>3, <1>7 DEF ValuesInv

LEMMA NextValuesInv == StageInv /\ ValuesInv /\ [Next]_vars => ValuesInv'
<1> SUFFICES ASSUME StageInv, ValuesInv, [Next]_vars PROVE ValuesInv'
  OBVIOUS
<1> DEFINE quiet == {"graph", "weigh", "sweep", "constrain", "clustered", "walk", "recorded",
                     "analysed"}
<1>1. phase' \in quiet => ValuesInv'
  BY DEF ValuesInv
<1>2. CASE StageFeatures \/ StageGraph \/ StageAnalytics
  <2>1. phase' \in quiet
    BY <1>2 DEF StageFeatures, StageGraph, StageAnalytics
  <2> QED
    BY <1>1, <2>1
<1>3. CASE Cluster \/ Follow
  <2>1. phase' \in quiet
    BY <1>3 DEF Cluster, Weigh, MoveNode, SweepAgain, Aggregate, LevelOver, Converge,
                Constrain, Follow
  <2> QED
    BY <1>1, <2>1
<1>4. CASE Visit \/ Deepen \/ Record
  <2>1. phase' \in quiet
    BY <1>4 DEF Visit, Deepen, Record, WalkOver, clusterVars
  <2> QED
    BY <1>1, <2>1
<1>5. CASE StageAttribute
  <2>1. PICK f \in Casts : participants' = Participants(f)
    BY <1>5 DEF StageAttribute
  <2>2. phase = "analysed" /\ phase' = "attributed"
    BY <1>5 DEF StageAttribute
  <2>3. Shaped(tables) /\ subject \in clusters /\ IsPartition(clusters, Members)
    BY <2>2 DEF StageInv, TablesInv, ClustersInv, SubjectInv, GraphPhases
  <2>4. subject \subseteq PRs /\ subject # {}
    BY <2>3 DEF IsPartition, Members, Shaped
  <2>5. \A who \in DOMAIN participants', d \in Dimensions : participants'[who].factors[d] \in Nat
    BY <2>1, <2>3, <2>4, CreditOfParticipants
  <2> QED
    BY <2>2, <2>5 DEF ValuesInv
<1>6. CASE StageDimensions
  BY <1>6, DimensionsKeepValues
<1>7. CASE StagePortfolios
  BY <1>7, PortfoliosKeepValues
<1>8. CASE StageRank \/ UNCHANGED vars
  <2>1. UNCHANGED <<phase, participants, assessment, portfolio>>
    BY <1>8 DEF StageRank, vars, clusterVars, stageVars
  <2> QED
    BY <2>1 DEF ValuesInv
<1> QED
  BY <1>2, <1>3, <1>4, <1>5, <1>6, <1>7, <1>8 DEF Next, StageEpisodes

(***************************************************************************)
(* Whatever else the engineer has done and whatever the confidences: one   *)
(* episode more never lowers the value of a dimension, though of a group   *)
(* only the strongest counts; corroboration adds no more than the          *)
(* headroom; and the value lies in its interval, though low and high are   *)
(* each ordered by themselves (PortfolioBuilder.dimension_value).          *)
(***************************************************************************)
THEOREM EvidenceNeverHurts == Spec => []MoreEvidenceNeverHurts
<1>1. Init => StageInv /\ ValuesInv
  BY InitStageInv DEF Init, ValuesInv
<1>2. (StageInv /\ ValuesInv) /\ [Next]_vars => (StageInv /\ ValuesInv)'
  BY NextStageInv, NextValuesInv
<1>3. ValuesInv => MoreEvidenceNeverHurts
  <2> SUFFICES ASSUME ValuesInv, phase = "portfolio" PROVE MoreEvidenceNeverHurts
    BY DEF MoreEvidenceNeverHurts
  <2>1. AreEntries(portfolio.entries)
    BY DEF ValuesInv
  <2> QED
    BY <2>1, ValuesGrowWithEvidence DEF MoreEvidenceNeverHurts
<1> QED
  BY <1>1, <1>2, <1>3, PTL DEF Spec

-----------------------------------------------------------------------------
(***************************************************************************)
(* Who holds a pull request in its episode.                                *)
(***************************************************************************)

LEMMA TotalIsSum ==
  ASSUME NEW f, NEW S
  PROVE  Total(f, S) = SumOver(f, S)
BY DEF Total, SumOver

\* Of numbers that are not negative the sum is positive where one of them is.
LEMMA SumIsPositive ==
  ASSUME NEW S, IsFiniteSet(S), NEW f, \A x \in S : f[x] \in Nat
  PROVE  SumOver(f, S) > 0 <=> \E x \in S : f[x] > 0
<1>0. \A x \in S : f[x] \in Int
  OBVIOUS
<1>1. ASSUME NEW x \in S, f[x] > 0
      PROVE  SumOver(f, S) > 0
  <2>1. SumOver(f, S) = f[x] + SumOver(f, S \ {x})
    BY <1>0, SumSplits
  <2>2. IsFiniteSet(S \ {x})
    BY FS_Subset
  <2>3. SumOver(f, S \ {x}) \in Nat
    BY <2>2, SumIsNat
  <2>4. f[x] \in Nat
    OBVIOUS
  <2> QED
    BY <2>1, <2>3, <2>4, <1>1
<1>2. ASSUME \A x \in S : ~(f[x] > 0)
      PROVE  SumOver(f, S) = 0
  <2> DEFINE F == {s \in SUBSET S : SumOver(f, s) # 0}
  <2> SUFFICES ASSUME F # {} PROVE FALSE
    OBVIOUS
  <2>1. F \subseteq SUBSET S
    OBVIOUS
  <2>2. \E s \in F : \A t \in F : t \subseteq s => t = s
    <3> HIDE DEF F
    <3> QED
      BY <2>1, LeastSubset
  <2>3. PICK s \in F : \A t \in F : t \subseteq s => t = s
    BY <2>2
  <2>4. s # {}
    BY <1>0, <2>3, SumIsInt
  <2>5. PICK x \in s : TRUE
    BY <2>4
  <2>6. IsFiniteSet(s) /\ \A y \in s : f[y] \in Int
    BY <1>0, <2>3, FS_Subset
  <2>7. SumOver(f, s) = f[x] + SumOver(f, s \ {x})
    BY <2>5, <2>6, SumSplits
  <2>8. SumOver(f, s \ {x}) = 0
    BY <2>3, <2>5
  <2>9. f[x] = 0
    <3>1. f[x] \in Nat /\ ~(f[x] > 0)
      BY <1>2, <2>3, <2>5
    <3> QED
      BY <3>1
  <2> QED
    BY <2>3, <2>7, <2>8, <2>9
<1>3. SumOver(f, S) \in Nat
  BY SumIsNat
<1> QED
  BY <1>1, <1>2, <1>3

LEMMA SumOfBoth ==
  ASSUME NEW S, IsFiniteSet(S), NEW f, \A x \in S : f[x] \in Int,
         NEW A \in SUBSET S, NEW B \in SUBSET S, A \intersect B = {}
  PROVE  SumOver(f, A \union B) = SumOver(f, A) + SumOver(f, B)
<1>1. \A s \in SUBSET S : IsFiniteSet(s) /\ SumOver(f, s) \in Int /\ SumOver(f, {}) = 0
  BY SumIsInt, FS_Subset
<1> DEFINE F == {s \in SUBSET B : SumOver(f, A \union s) # SumOver(f, A) + SumOver(f, s)}
<1> SUFFICES ASSUME F # {} PROVE FALSE
  OBVIOUS
<1>2. F \subseteq SUBSET S
  OBVIOUS
<1>3. \E s \in F : \A t \in F : t \subseteq s => t = s
  <2> HIDE DEF F
  <2> QED
    BY <1>2, LeastSubset
<1>4. PICK s \in F : \A t \in F : t \subseteq s => t = s
  BY <1>3
<1>5. s # {}
  <2>1. A \union {} = A
    OBVIOUS
  <2>2. SumOver(f, A) = SumOver(f, A) + SumOver(f, {})
    <3>1. SumOver(f, A) \in Int /\ SumOver(f, {}) = 0
      BY <1>1
    <3> QED
      BY <3>1
  <2>3. SumOver(f, A \union s) # SumOver(f, A) + SumOver(f, s)
    BY <1>4
  <2> QED
    BY <2>1, <2>2, <2>3
<1>6. PICK x \in s : TRUE
  BY <1>5
<1> DEFINE u == s \ {x}
<1>7. SumOver(f, s) = f[x] + SumOver(f, u)
  <2>1. IsFiniteSet(s) /\ \A y \in s : f[y] \in Int
    BY <1>1, <1>4
  <2> QED
    BY <2>1, <1>6, SumSplits
<1>8. SumOver(f, A \union s) = f[x] + SumOver(f, A \union u)
  <2> DEFINE w == A \union s
  <2>1. IsFiniteSet(w) /\ (\A y \in w : f[y] \in Int) /\ x \in w
    BY <1>1, <1>4, <1>6
  <2>2. SumOver(f, w) = f[x] + SumOver(f, w \ {x})
    <3> HIDE DEF w
    <3> QED
      BY <2>1, SumSplits
  <2>3. w \ {x} = A \union u
    BY <1>4, <1>6
  <2> QED
    BY <2>2, <2>3
<1>9. SumOver(f, A \union u) = SumOver(f, A) + SumOver(f, u)
  BY <1>4, <1>6
<1>10. /\ SumOver(f, A) \in Int /\ SumOver(f, u) \in Int
       /\ f[x] \in Int
  BY <1>1, <1>4, <1>6
<1> HIDE DEF u
<1>11. SumOver(f, A \union s) # SumOver(f, A) + SumOver(f, s)
  BY <1>4
<1> QED
  BY <1>7, <1>8, <1>9, <1>10, <1>11

\* Equal terms have equal sums.
LEMMA SameSum ==
  ASSUME NEW S, IsFiniteSet(S), NEW f, NEW g, \A x \in S : f[x] \in Int /\ g[x] = f[x]
  PROVE  SumOver(f, S) = SumOver(g, S)
<1>1. \A x \in S : f[x] \in Int /\ g[x] \in Int /\ f[x] <= g[x] /\ g[x] <= f[x]
  OBVIOUS
<1>2. SumOver(f, S) <= SumOver(g, S) /\ SumOver(g, S) <= SumOver(f, S)
  BY <1>1, SumsGrow
<1>3. SumOver(f, S) \in Int /\ SumOver(g, S) \in Int
  BY <1>1, SumIsInt
<1> QED
  BY <1>2, <1>3

\* The sum of two terms each is the sum of their sums.
LEMMA SumOfSums ==
  ASSUME NEW S, IsFiniteSet(S), NEW f, NEW g, NEW h,
         \A x \in S : f[x] \in Int /\ g[x] \in Int /\ h[x] = f[x] + g[x]
  PROVE  SumOver(h, S) = SumOver(f, S) + SumOver(g, S)
<1>1. \A x \in S : h[x] \in Int
  OBVIOUS
<1>2. \A s \in SUBSET S : /\ IsFiniteSet(s) /\ SumOver(f, s) \in Int /\ SumOver(g, s) \in Int
                          /\ SumOver(h, s) \in Int
                          /\ SumOver(f, {}) = 0 /\ SumOver(g, {}) = 0 /\ SumOver(h, {}) = 0
  BY <1>1, SumIsInt, FS_Subset
<1> DEFINE F == {s \in SUBSET S : SumOver(h, s) # SumOver(f, s) + SumOver(g, s)}
<1> SUFFICES ASSUME F # {} PROVE FALSE
  OBVIOUS
<1>3. F \subseteq SUBSET S
  OBVIOUS
<1>4. \E s \in F : \A t \in F : t \subseteq s => t = s
  <2> HIDE DEF F
  <2> QED
    BY <1>3, LeastSubset
<1>5. PICK s \in F : \A t \in F : t \subseteq s => t = s
  BY <1>4
<1>6. s # {}
  <2>1. SumOver(h, s) # SumOver(f, s) + SumOver(g, s)
    BY <1>5
  <2>2. SumOver(h, {}) = SumOver(f, {}) + SumOver(g, {})
    BY <1>2
  <2> QED
    BY <2>1, <2>2
<1>7. PICK x \in s : TRUE
  BY <1>6
<1> DEFINE u == s \ {x}
<1>8. /\ SumOver(f, s) = f[x] + SumOver(f, u) /\ SumOver(g, s) = g[x] + SumOver(g, u)
      /\ SumOver(h, s) = h[x] + SumOver(h, u)
  <2>1. \A y \in s : f[y] \in Int /\ g[y] \in Int /\ h[y] \in Int
    BY <1>1, <1>5
  <2> QED
    BY <1>2, <1>5, <1>7, <2>1, SumSplits
<1>9. SumOver(h, u) = SumOver(f, u) + SumOver(g, u)
  BY <1>5, <1>7
<1>10. /\ f[x] \in Int /\ g[x] \in Int /\ h[x] = f[x] + g[x]
       /\ SumOver(f, u) \in Int /\ SumOver(g, u) \in Int
  BY <1>2, <1>5, <1>7
<1>11. SumOver(h, s) # SumOver(f, s) + SumOver(g, s)
  BY <1>5
<1> HIDE DEF u
<1> QED
  BY <1>8, <1>9, <1>10, <1>11

\* What is nothing adds nothing.
LEMMA SumOfSome ==
  ASSUME NEW S, IsFiniteSet(S), NEW f, \A x \in S : f[x] \in Nat, NEW T \in SUBSET S,
         \A x \in S \ T : f[x] = 0
  PROVE  SumOver(f, S) = SumOver(f, T)
<1>1. SumOver(f, T \union (S \ T)) = SumOver(f, T) + SumOver(f, S \ T)
  <2>1. (\A x \in S : f[x] \in Int) /\ T \intersect (S \ T) = {} /\ S \ T \in SUBSET S
    OBVIOUS
  <2> QED
    BY <2>1, SumOfBoth
<1>2. IsFiniteSet(T) /\ IsFiniteSet(S \ T)
  BY FS_Subset
<1>3. SumOver(f, T) \in Nat /\ SumOver(f, S \ T) \in Nat
  BY <1>2, SumIsNat
<1>4. ~(SumOver(f, S \ T) > 0)
  <2>1. \A x \in S \ T : f[x] \in Nat /\ ~(f[x] > 0)
    OBVIOUS
  <2> QED
    BY <1>2, <2>1, SumIsPositive
<1>5. T \union (S \ T) = S
  OBVIOUS
<1> DEFINE x == SumOver(f, T)
           y == SumOver(f, S \ T)
<1>6. SumOver(f, S) = x + y
  BY <1>1, <1>5
<1>7. x \in Nat /\ y \in Nat /\ ~(y > 0)
  BY <1>3, <1>4
<1> HIDE DEF x, y
<1>8. SumOver(f, S) = x
  BY <1>6, <1>7
<1> QED
  BY <1>8 DEF x

\* The sum over the blocks of a family of the sum over each.
LEMMA SumOfFamily ==
  ASSUME NEW S, IsFiniteSet(S), NEW f, \A x \in S : f[x] \in Int,
         NEW I, IsFiniteSet(I), NEW X, \A i \in I : X[i] \in SUBSET S,
         \A i, j \in I : i = j \/ X[i] \intersect X[j] = {},
         NEW g, \A i \in I : g[i] = SumOver(f, X[i])
  PROVE  SumOver(g, I) = SumOver(f, UNION {X[i] : i \in I})
<1> DEFINE all(J) == UNION {X[i] : i \in J}
<1>1. \A s \in SUBSET S : SumOver(f, s) \in Int /\ SumOver(f, {}) = 0
  BY SumIsInt, FS_Subset
<1>2. \A i \in I : g[i] \in Int
  BY <1>1
<1>3. \A J \in SUBSET I : /\ IsFiniteSet(J) /\ SumOver(g, J) \in Int
                          /\ SumOver(g, {}) = 0 /\ all(J) \in SUBSET S
  BY <1>2, SumIsInt, FS_Subset
<1> DEFINE F == {J \in SUBSET I : SumOver(g, J) # SumOver(f, all(J))}
<1> SUFFICES ASSUME F # {} PROVE FALSE
  OBVIOUS
<1>4. F \subseteq SUBSET I
  OBVIOUS
<1>5. \E J \in F : \A t \in F : t \subseteq J => t = J
  <2> HIDE DEF F
  <2> QED
    BY <1>4, LeastSubset
<1>6. PICK J \in F : \A t \in F : t \subseteq J => t = J
  BY <1>5
<1>7. J # {}
  <2>1. all({}) = {}
    OBVIOUS
  <2> QED
    BY <1>1, <1>3, <1>6, <2>1
<1>8. PICK i \in J : TRUE
  BY <1>7
<1> DEFINE K == J \ {i}
<1>9. K \in SUBSET I /\ J \in SUBSET I /\ i \in I /\ K # J /\ K \subseteq J
  BY <1>6, <1>8
<1>10. SumOver(g, K) = SumOver(f, all(K))
  BY <1>6, <1>9
<1>11. SumOver(g, J) = g[i] + SumOver(g, K)
  <2>1. IsFiniteSet(J) /\ \A j \in J : g[j] \in Int
    BY <1>2, <1>3, <1>9
  <2> QED
    BY <1>8, <2>1, SumSplits
<1>12. all(J) = X[i] \union all(K)
  BY <1>8
<1>13. X[i] \intersect all(K) = {}
  BY <1>9
<1>14. X[i] \in SUBSET S /\ all(K) \in SUBSET S
  BY <1>3, <1>9
<1> HIDE DEF K, all
<1>15. SumOver(f, X[i] \union all(K)) = SumOver(f, X[i]) + SumOver(f, all(K))
  BY <1>13, <1>14, SumOfBoth
<1>16. SumOver(g, J) # SumOver(f, all(J))
  BY <1>6
<1> QED
  BY <1>9, <1>10, <1>11, <1>12, <1>15, <1>16

\* A sum over a single element.
LEMMA SumOfOne ==
  ASSUME NEW e, NEW f, f[e] \in Int
  PROVE  SumOver(f, {e}) = f[e]
<1>1. IsFiniteSet({e}) /\ (\A d \in {e} : f[d] \in Int) /\ e \in {e}
  BY FS_Singleton
<1>2. SumOver(f, {e}) = f[e] + SumOver(f, {e} \ {e})
  BY <1>1, SumSplits
<1>3. SumOver(f, {}) = 0
  BY <1>1, SumIsInt
<1>4. {e} \ {e} = {}
  OBVIOUS
<1> DEFINE x == SumOver(f, {e} \ {e})
           y == SumOver(f, {e})
           z == f[e]
<1>5. x = 0 /\ y = z + x /\ z \in Int
  BY <1>2, <1>3, <1>4
<1> HIDE DEF x, y, z
<1>6. y = z
  BY <1>5
<1> QED
  BY <1>6 DEF y, z

Column(m, I, x) == [i \in I |-> m[i][x]]

\* Rows first or columns first.
LEMMA SumSwap ==
  ASSUME NEW I, IsFiniteSet(I), NEW X, IsFiniteSet(X), NEW g, NEW h, NEW m,
         \A i \in I : \A x \in X : m[i][x] \in Int,
         \A i \in I : g[i] = SumOver(m[i], X),
         \A x \in X : h[x] = SumOver(Column(m, I, x), I)
  PROVE  SumOver(g, I) = SumOver(h, X)
<1> DEFINE col(x) == [i \in I |-> m[i][x]]
           part(J) == [x \in X |-> SumOver(col(x), J)]
<1>1. \A J \in SUBSET I : IsFiniteSet(J)
  BY FS_Subset
<1>2. \A x \in X : \A i \in I : col(x)[i] = m[i][x] /\ col(x)[i] \in Int
  OBVIOUS
<1>0. \A x \in X : h[x] = SumOver(col(x), I)
  BY DEF Column
<1>3. \A J \in SUBSET I : \A x \in X : part(J)[x] \in Int
  <2> SUFFICES ASSUME NEW J \in SUBSET I, NEW x \in X PROVE SumOver(col(x), J) \in Int
    OBVIOUS
  <2>1. \A i \in J : col(x)[i] \in Int
    BY <1>2
  <2> HIDE DEF col
  <2> QED
    BY <1>1, <2>1, SumIsInt
<1>4. \A i \in I : g[i] \in Int
  BY SumIsInt
<1>5. SumOver(g, {}) = 0
  BY <1>4, SumIsInt
<1>6. SumOver(part({}), X) = 0
  <2>1. \A x \in X : part({})[x] = 0
    <3> SUFFICES ASSUME NEW x \in X PROVE SumOver(col(x), {}) = 0
      OBVIOUS
    <3>1. \A i \in I : col(x)[i] \in Int
      BY <1>2
    <3> HIDE DEF col
    <3> QED
      BY <3>1, SumIsInt
  <2>2. \A x \in X : part({})[x] \in Nat /\ ~(part({})[x] > 0)
    BY <2>1
  <2> HIDE DEF part
  <2>3. SumOver(part({}), X) \in Nat /\ ~(SumOver(part({}), X) > 0)
    BY <2>2, SumIsNat, SumIsPositive
  <2> QED
    BY <2>3
<1> DEFINE F == {J \in SUBSET I : SumOver(g, J) # SumOver(part(J), X)}
<1>7. F = {}
  <2> SUFFICES ASSUME F # {} PROVE FALSE
    OBVIOUS
  <2>1. F \subseteq SUBSET I
    OBVIOUS
  <2>2. \E J \in F : \A t \in F : t \subseteq J => t = J
    <3> HIDE DEF F
    <3> QED
      BY <2>1, LeastSubset
  <2>3. PICK J \in F : \A t \in F : t \subseteq J => t = J
    BY <2>2
  <2>4. {} \notin F
    BY <1>5, <1>6
  <2>5. PICK i \in J : TRUE
    BY <2>3, <2>4
  <2> DEFINE K == J \ {i}
  <2>6. J \in SUBSET I /\ K \in SUBSET I /\ i \in I /\ K \subseteq J /\ K # J
    BY <2>3, <2>5
  <2>7. SumOver(g, K) = SumOver(part(K), X)
    BY <2>3, <2>6
  <2>8. SumOver(g, J) = g[i] + SumOver(g, K)
    <3>1. IsFiniteSet(J) /\ \A j \in J : g[j] \in Int
      BY <1>1, <1>4, <2>6
    <3> QED
      BY <2>5, <3>1, SumSplits
  <2>9. \A x \in X : part(J)[x] = m[i][x] + part(K)[x]
    <3> SUFFICES ASSUME NEW x \in X
                 PROVE  SumOver(col(x), J) = m[i][x] + SumOver(col(x), K)
      OBVIOUS
    <3>1. IsFiniteSet(J) /\ (\A j \in J : col(x)[j] \in Int) /\ col(x)[i] = m[i][x]
      BY <1>1, <1>2, <2>6
    <3> HIDE DEF col
    <3>2. SumOver(col(x), J) = col(x)[i] + SumOver(col(x), K)
      BY <2>5, <3>1, SumSplits
    <3> QED
      BY <3>1, <3>2
  <2>10. \A x \in X : m[i][x] \in Int /\ part(K)[x] \in Int
    BY <1>3, <2>6
  <2>11. SumOver(g, J) # SumOver(part(J), X)
    BY <2>3
  <2> HIDE DEF K, part, F
  <2>12. SumOver(part(J), X) = SumOver(m[i], X) + SumOver(part(K), X)
    BY <2>9, <2>10, SumOfSums
  <2>13. g[i] = SumOver(m[i], X)
    BY <2>6
  <2> QED
    BY <2>7, <2>8, <2>11, <2>12, <2>13
<1>8. SumOver(g, I) = SumOver(part(I), X)
  BY <1>7
<1>9. SumOver(part(I), X) = SumOver(h, X)
  <2>1. \A x \in X : part(I)[x] \in Int /\ h[x] = part(I)[x]
    BY <1>0, <1>3
  <2> HIDE DEF part
  <2> QED
    BY <2>1, SameSum
<1> QED
  BY <1>8, <1>9

-----------------------------------------------------------------------------
(* A level of Louvain's method.                                              *)

LevelOK ==
  /\ nodes \in SUBSET Members /\ queue \in SUBSET nodes
  /\ adj \in [nodes -> [nodes -> Nat]]
  /\ loops \in [nodes -> Nat]
  /\ community \in [nodes -> nodes]
  /\ membership \in [Members -> nodes]

LEMMA LevelSums ==
  ASSUME IsFiniteSet(nodes), LevelOK
  PROVE  /\ Degrees \in [nodes -> Nat]
         /\ Mass \in Nat
         /\ \A S \in SUBSET nodes :
              /\ IsFiniteSet(S)
              /\ Total(Degrees, S) \in Nat /\ Total(loops, S) \in Nat
              /\ \A n \in nodes : Total(adj[n], S) \in Nat
<1>1. \A S \in SUBSET nodes : IsFiniteSet(S)
  BY FS_Subset
<1>2. ASSUME NEW f, \A n \in nodes : f[n] \in Nat
      PROVE  \A S \in SUBSET nodes : Total(f, S) \in Nat
  BY <1>1, <1>2, SumIsNat, TotalIsSum
<1>3. ASSUME NEW n \in nodes PROVE \A S \in SUBSET nodes : Total(adj[n], S) \in Nat
  <2>1. \A m \in nodes : adj[n][m] \in Nat
    BY DEF LevelOK
  <2> QED
    BY <1>2, <2>1
<1>4. \A S \in SUBSET nodes : Total(loops, S) \in Nat
  <2>1. \A m \in nodes : loops[m] \in Nat
    BY DEF LevelOK
  <2> QED
    BY <1>2, <2>1
<1>5. Degrees \in [nodes -> Nat]
  <2>1. ASSUME NEW n \in nodes PROVE Total(adj[n], nodes) + 2 * loops[n] \in Nat
    <3>1. Total(adj[n], nodes) \in Nat
      BY <1>3
    <3>2. loops[n] \in Nat
      BY DEF LevelOK
    <3> QED
      BY <3>1, <3>2
  <2> QED
    BY <2>1 DEF Degrees
<1>6. \A S \in SUBSET nodes : Total(Degrees, S) \in Nat
  <2>1. \A n \in nodes : Degrees[n] \in Nat
    BY <1>5
  <2> QED
    BY <1>2, <2>1
<1>7. Mass \in Nat
  BY <1>6 DEF Mass
<1> QED
  BY <1>1, <1>3, <1>4, <1>5, <1>6, <1>7

Reach(n) == {community[n]} \union {community[m] : m \in {k \in nodes : adj[n][k] > 0}}

OthersIn(n, c) == {m \in nodes \ {n} : community[m] = c}

LEMMA GainType ==
  ASSUME IsFiniteSet(nodes), LevelOK, NEW n \in nodes, NEW c
  PROVE  /\ Gain(n, c) = Total(adj[n], OthersIn(n, c)) * Mass
                           - Total(Degrees, OthersIn(n, c)) * Degrees[n]
         /\ Gain(n, c) \in Int
<1>1. Gain(n, c) = Total(adj[n], OthersIn(n, c)) * Mass
                           - Total(Degrees, OthersIn(n, c)) * Degrees[n]
  BY DEF Gain, OthersIn
<1>2. OthersIn(n, c) \in SUBSET nodes
  BY DEF OthersIn
<1>3. /\ Total(adj[n], OthersIn(n, c)) \in Nat /\ Mass \in Nat
      /\ Total(Degrees, OthersIn(n, c)) \in Nat /\ Degrees[n] \in Nat
  BY <1>2, LevelSums
<1>4. /\ Total(adj[n], OthersIn(n, c)) * Mass \in Int
      /\ Total(Degrees, OthersIn(n, c)) * Degrees[n] \in Int
  BY <1>3
<1> QED
  BY <1>1, <1>4

LEMMA BestIs ==
  ASSUME IsFiniteSet(nodes), Shaped(tables), LevelOK, NEW n \in nodes
  PROVE  /\ Best(n) \in Reach(n) /\ Reach(n) \subseteq nodes
         /\ \A c \in Reach(n) : Gain(n, Best(n)) >= Gain(n, c)
<1> DEFINE gain == [c \in Reach(n) |-> Gain(n, c)]
           top == {c \in Reach(n) : \A d \in Reach(n) : gain[c] >= gain[d]}
           gains == {gain[c] : c \in Reach(n)}
<1>1. Reach(n) \subseteq nodes /\ Reach(n) # {}
  BY DEF Reach, LevelOK
<1>2. gains \in SUBSET Int /\ gains # {}
  BY <1>1, GainType
<1>3. IsFiniteSet(gains)
  <2>1. IsFiniteSet(Reach(n))
    BY <1>1, FS_Subset
  <2> QED
    BY <2>1, ImageIsFinite
<1>4. \E x \in gains : \A y \in gains : y <= x
  <2> HIDE DEF gains
  <2> QED
    BY <1>2, <1>3, GreatestExists
<1>5. PICK x \in gains : \A y \in gains : y <= x
  BY <1>4
<1>6. PICK c \in Reach(n) : x = gain[c]
  BY <1>5
<1>7. c \in top
  <2>1. \A d \in Reach(n) : gain[d] \in gains /\ gain[d] \in Int
    BY <1>2
  <2>2. \A d \in Reach(n) : gain[c] >= gain[d]
    <3>1. \A d \in Reach(n) : gain[d] <= gain[c]
      BY <1>5, <1>6, <2>1
    <3> HIDE DEF gain
    <3> QED
      BY <2>1, <3>1, <1>6
  <2> QED
    BY <2>2
<1>8. top \subseteq Nat
  <2>1. nodes \subseteq Nat
    BY NumbersAssumption DEF Shaped, Members, LevelOK
  <2> QED
    BY <1>1, <2>1
<1>9. Min(top) \in top
  <2> HIDE DEF top
  <2> QED
    BY <1>7, <1>8, LeastIsIn
<1>10. Best(n) = Min(top)
  BY DEF Best, Reach
<1>11. /\ Best(n) \in Reach(n) /\ \A d \in Reach(n) : gain[Best(n)] >= gain[d]
  <2> HIDE DEF gain
  <2> QED
    BY <1>9, <1>10
<1> QED
  BY <1>1, <1>11
LEMMA SharesAdd ==
  ASSUME NEW a \in Nat, NEW b \in Nat, NEW x \in Nat, NEW y \in Nat, NEW m \in Nat, NEW w \in Nat,
         a * m <= x * w, b * m <= y * w
  PROVE  (a + b) * m <= (x + y) * w
<1>1. (a + b) * m = a * m + b * m /\ (x + y) * w = x * w + y * w
  OBVIOUS
<1>2. a * m \in Nat /\ b * m \in Nat /\ x * w \in Nat /\ y * w \in Nat
  OBVIOUS
<1> QED
  BY <1>1, <1>2

LEMMA NoShare ==
  ASSUME NEW m \in Nat, NEW w \in Nat, w > 0
  PROVE  ~(w * m <= (m - w) * w)
<1>1. (m - w) * w = w * m - w * w
  OBVIOUS
<1>2. w * w > 0
  OBVIOUS
<1>3. w * m \in Nat /\ w * w \in Nat
  OBVIOUS
<1> QED
  BY <1>1, <1>2, <1>3

\* A node without a loop that has a neighbour goes where it has one: were it drawn
\* to none of the communities, all of them would hold less of its weight than by
\* chance.
LEMMA GoesToNeighbour ==
  ASSUME IsFiniteSet(nodes), Shaped(tables), LevelOK, NEW n \in nodes,
         loops[n] = 0, adj[n][n] = 0, NEW d \in nodes, adj[n][d] > 0
  PROVE  \E m \in nodes \ {n} : community[m] = Best(n) /\ adj[n][m] > 0
<1> SUFFICES ASSUME \A m \in OthersIn(n, Best(n)) : ~(adj[n][m] > 0) PROVE FALSE
  BY DEF OthersIn
<1> DEFINE w == Degrees[n]
           rest == nodes \ {n}
           inside(Q) == {m \in rest : community[m] \in Q}
           Fair(Q) == Total(adj[n], inside(Q)) * Mass <= Total(Degrees, inside(Q)) * w
<1>1. \A m \in nodes : adj[n][m] \in Nat /\ adj[n][m] \in Int
  BY DEF LevelOK
<1>2. \A m \in nodes : Degrees[m] \in Nat /\ Degrees[m] \in Int
  BY LevelSums
<1>3. \A S \in SUBSET nodes : /\ IsFiniteSet(S) /\ Total(adj[n], S) \in Nat
                              /\ Total(Degrees, S) \in Nat
  BY LevelSums
<1>4. Mass \in Nat
  BY LevelSums
<1>5. w = Total(adj[n], nodes) /\ w \in Nat
  <2>1. w = Total(adj[n], nodes) + 2 * loops[n]
    BY DEF Degrees
  <2>2. Total(adj[n], nodes) \in Nat
    BY <1>3
  <2> QED
    BY <2>1, <2>2
<1>6. w = Total(adj[n], rest)
  <2>1. SumOver(adj[n], nodes) = adj[n][n] + SumOver(adj[n], rest)
    BY <1>1, SumSplits
  <2>2. Total(adj[n], rest) \in Nat
    BY <1>3
  <2> QED
    BY <1>5, <2>1, <2>2, TotalIsSum
<1>7. Total(Degrees, rest) = Mass - w
  <2>1. SumOver(Degrees, nodes) = w + SumOver(Degrees, rest)
    BY <1>2, SumSplits
  <2>2. Total(Degrees, rest) \in Nat
    BY <1>3
  <2>3. Mass = w + Total(Degrees, rest)
    BY <2>1, TotalIsSum DEF Mass
  <2> QED
    BY <1>5, <2>2, <2>3
<1>8. w > 0
  <2>1. SumOver(adj[n], nodes) > 0
    BY <1>1, SumIsPositive
  <2> QED
    BY <1>5, <2>1, TotalIsSum
<1> HIDE DEF w
<1>9. ASSUME NEW c \in nodes
      PROVE  Total(adj[n], OthersIn(n, c)) * Mass <= Total(Degrees, OthersIn(n, c)) * w
  <2>0. \A b \in nodes : OthersIn(n, b) \in SUBSET nodes
    BY DEF OthersIn
  <2>1. CASE c \notin Reach(n)
    <3>1. \A m \in OthersIn(n, c) : ~(adj[n][m] > 0)
      BY <2>1 DEF OthersIn, Reach
    <3>2. \A m \in OthersIn(n, c) : adj[n][m] \in Nat
      BY <1>1, <2>0
    <3>3. ~(SumOver(adj[n], OthersIn(n, c)) > 0)
      BY <1>3, <2>0, <3>1, <3>2, SumIsPositive
    <3>4. Total(adj[n], OthersIn(n, c)) = 0
      BY <1>3, <2>0, <3>3, TotalIsSum
    <3>5. Total(Degrees, OthersIn(n, c)) * w \in Nat /\ 0 * Mass = 0
      BY <1>3, <1>4, <1>5, <2>0
    <3> QED
      BY <3>4, <3>5
  <2>2. CASE c \in Reach(n)
    <3> DEFINE k == Best(n)
    <3>1. k \in nodes /\ Gain(n, k) >= Gain(n, c)
      BY <2>2, BestIs
    <3> HIDE DEF k
    <3>2. \A m \in OthersIn(n, k) : ~(adj[n][m] > 0) /\ adj[n][m] \in Nat
      BY <1>1, <2>0, <3>1 DEF k
    <3>3. ~(SumOver(adj[n], OthersIn(n, k)) > 0)
      BY <1>3, <2>0, <3>1, <3>2, SumIsPositive
    <3>4. Total(adj[n], OthersIn(n, k)) = 0
      BY <1>3, <2>0, <3>1, <3>3, TotalIsSum
    <3>5. Gain(n, k) = 0 * Mass - Total(Degrees, OthersIn(n, k)) * w
      BY <3>1, <3>4, GainType DEF w
    <3>6. Total(Degrees, OthersIn(n, k)) * w \in Nat /\ 0 * Mass = 0
      BY <1>3, <1>4, <1>5, <2>0, <3>1
    <3>7. Gain(n, c) = Total(adj[n], OthersIn(n, c)) * Mass
                         - Total(Degrees, OthersIn(n, c)) * w
      BY GainType DEF w
    <3>8. /\ Total(adj[n], OthersIn(n, c)) * Mass \in Nat
          /\ Total(Degrees, OthersIn(n, c)) * w \in Nat
      BY <1>3, <1>4, <1>5, <2>0
    <3> QED
      BY <3>1, <3>5, <3>6, <3>7, <3>8
  <2> QED
    BY <2>1, <2>2
<1>10. Fair(nodes)
  <2> DEFINE F == {Q \in SUBSET nodes : ~Fair(Q)}
  <2> SUFFICES ASSUME F # {} PROVE FALSE
    OBVIOUS
  <2>1. F \subseteq SUBSET nodes
    OBVIOUS
  <2>2. \E Q \in F : \A t \in F : t \subseteq Q => t = Q
    <3> HIDE DEF F
    <3> QED
      BY <2>1, LeastSubset
  <2>3. PICK Q \in F : \A t \in F : t \subseteq Q => t = Q
    BY <2>2
  <2>4. Q # {}
    <3>1. Fair({})
      <4>1. inside({}) = {}
        OBVIOUS
      <4>2. SumOver(adj[n], {}) = 0 /\ SumOver(Degrees, {}) = 0
        BY <1>1, <1>2, SumIsInt
      <4>3. Total(adj[n], {}) = 0 /\ Total(Degrees, {}) = 0
        BY <4>2, TotalIsSum
      <4>4. 0 * Mass = 0 /\ 0 * w = 0
        BY <1>4, <1>5
      <4> QED
        BY <4>1, <4>3, <4>4
    <3> QED
      BY <2>3, <3>1
  <2>5. PICK c \in Q : TRUE
    BY <2>4
  <2> DEFINE A == inside(Q \ {c})
             B == OthersIn(n, c)
  <2>6. /\ inside(Q) = A \union B /\ A \intersect B = {}
        /\ A \in SUBSET nodes /\ B \in SUBSET nodes
    BY <2>3, <2>5 DEF OthersIn
  <2>7. Fair(Q \ {c})
    <3>1. Q \ {c} \in SUBSET nodes /\ Q \ {c} \subseteq Q /\ Q \ {c} # Q
      BY <2>3, <2>5
    <3>2. Q \ {c} \notin F
      BY <2>3, <3>1
    <3> HIDE DEF Fair
    <3> QED
      BY <3>1, <3>2
  <2>8. Total(adj[n], B) * Mass <= Total(Degrees, B) * w
    BY <1>9, <2>3, <2>5
  <2>9. Total(adj[n], A) * Mass <= Total(Degrees, A) * w
    BY <2>7
  <2>10. ~(Total(adj[n], inside(Q)) * Mass <= Total(Degrees, inside(Q)) * w)
    BY <2>3
  <2> HIDE DEF A, B, inside
  <2>11. /\ SumOver(adj[n], A \union B) = SumOver(adj[n], A) + SumOver(adj[n], B)
         /\ SumOver(Degrees, A \union B) = SumOver(Degrees, A) + SumOver(Degrees, B)
    BY <1>1, <1>2, <2>6, SumOfBoth
  <2>12. /\ Total(adj[n], A) \in Nat /\ Total(adj[n], B) \in Nat
         /\ Total(Degrees, A) \in Nat /\ Total(Degrees, B) \in Nat
    BY <1>3, <2>6
  <2>13. (Total(adj[n], A) + Total(adj[n], B)) * Mass <= (Total(Degrees, A) + Total(Degrees, B)) * w
    BY <1>4, <1>5, <2>8, <2>9, <2>12, SharesAdd
  <2> QED
    BY <2>6, <2>10, <2>11, <2>13, TotalIsSum
<1>11. inside(nodes) = rest
  BY DEF LevelOK
<1>12. w * Mass <= (Mass - w) * w
  BY <1>6, <1>7, <1>10, <1>11
<1> QED
  BY <1>4, <1>5, <1>8, <1>12, NoShare

-----------------------------------------------------------------------------
(* The edges of the graph, and what they amount to together.                 *)

EdgeTypes ==
  {"closes_issue", "timeline_connected", "reverts", "reapplies"}
  \union {"supersedes", "direct_mention", "follow_up", "part_of"}
  \union {"depends_on", "shared_feature_flag", "commit_membership", "changelog_link"}
  \union {"review_thread_change", "stacked_branch", "symbol_downstream", "migration_dependency"}
  \union {"shared_named_entity", "semantic_similarity"}

Tiers == {"A", "B", "C"}

Guards == {"none", "demoted", "excluded", "uncorroborated"}

Vias(t) == {0} \union DOMAIN t.flags \union Issues \union Paths
             \union DOMAIN t.migrations \union DOMAIN t.names

IsEdge(e, V) ==
  /\ e = [source |-> e.source, target |-> e.target, type |-> e.type, tier |-> e.tier,
          guard |-> e.guard, usable |-> e.usable, via |-> e.via]
  /\ e.type \in EdgeTypes /\ e.tier \in Tiers /\ e.guard \in Guards
  /\ e.usable \in BOOLEAN /\ e.via \in V

LEMMA MadeIsEdge ==
  ASSUME NEW source, NEW target, NEW type \in EdgeTypes, NEW tier \in Tiers,
         NEW guard \in Guards, NEW wanted \in BOOLEAN, NEW V, NEW via \in V
  PROVE  IsEdge(MakeEdge(source, target, type, tier, guard, wanted, via), V)
BY DEF IsEdge, MakeEdge

LEMMA GraphIsOfEdges ==
  ASSUME NEW t, NEW e \in GraphOf(t)
  PROVE  IsEdge(e, Vias(t))
<1> DEFINE V == Vias(t)
<1>0. 0 \in V /\ DOMAIN t.flags \subseteq V /\ Issues \subseteq V /\ Paths \subseteq V
        /\ DOMAIN t.migrations \subseteq V /\ DOMAIN t.names \subseteq V
  BY DEF Vias
<1> HIDE DEF V
<1>1. ASSUME NEW S, NEW most, NEW limit
      PROVE  FanOut(S, most, limit).tier \in Tiers /\ FanOut(S, most, limit).guard \in Guards
  BY DEF FanOut, Tiers, Guards
<1>2. ASSUME NEW sharers, DOMAIN sharers \subseteq V, NEW type \in EdgeTypes, NEW most, NEW limit,
             NEW f \in Shared(sharers, type, most, limit)
      PROVE  IsEdge(f, V)
  <2>1. PICK k \in DOMAIN sharers : \E a, b :
          f = MakeEdge(a, b, type, FanOut(sharers[k], most, limit).tier,
                       FanOut(sharers[k], most, limit).guard,
                       FanOut(sharers[k], most, limit).guard # "excluded", k)
    BY <1>2 DEF Shared, Joined
  <2>2. PICK a, b :
          f = MakeEdge(a, b, type, FanOut(sharers[k], most, limit).tier,
                       FanOut(sharers[k], most, limit).guard,
                       FanOut(sharers[k], most, limit).guard # "excluded", k)
    BY <2>1
  <2> DEFINE guard == FanOut(sharers[k], most, limit).guard
             tier == FanOut(sharers[k], most, limit).tier
  <2>3. guard \in Guards /\ tier \in Tiers /\ (guard # "excluded") \in BOOLEAN /\ k \in V
    BY <1>1, <1>2
  <2> HIDE DEF guard, tier
  <2>4. IsEdge(MakeEdge(a, b, type, tier, guard, guard # "excluded", k), V)
    BY <2>3, MadeIsEdge
  <2> QED
    BY <2>2, <2>4 DEF guard, tier
<1>3. ASSUME NEW f \in Phase1Edges(t) PROVE IsEdge(f, V)
  <2>1. PICK l \in t.links : /\ l.type \in DOMAIN TierAFromPhase1 \union DOMAIN TierBFromPhase1
                             /\ f = OfLink(t, l)
    BY Phase1EdgesDef
  <2>2. \A x \in DOMAIN TierAFromPhase1 : TierAFromPhase1[x] \in EdgeTypes
    BY DEF TierAFromPhase1, EdgeTypes
  <2>3. \A x \in DOMAIN TierBFromPhase1 : TierBFromPhase1[x] \in EdgeTypes
    BY DEF TierBFromPhase1, EdgeTypes
  <2> QED
    BY <1>0, <2>1, <2>2, <2>3, MadeIsEdge DEF OfLink, Tiers, Guards
<1>4. ASSUME NEW f \in FlagEdges(t) PROVE IsEdge(f, V)
  <2>1. "shared_feature_flag" \in EdgeTypes /\ "none" \in Guards /\ FALSE \in BOOLEAN
    BY DEF EdgeTypes, Guards
  <2>2. CASE f \in Shared(t.flags, "shared_feature_flag", FlagTierA, FlagMax)
    BY <1>0, <1>2, <2>1, <2>2
  <2>3. CASE f \notin Shared(t.flags, "shared_feature_flag", FlagTierA, FlagMax)
    <3>1. PICK k \in DOMAIN t.flags : \E a, b :
            f = MakeEdge(a, b, "shared_feature_flag",
                         FanOut(t.flags[k], FlagTierA, FlagMax).tier, "none", FALSE, k)
      BY <2>3 DEF FlagEdges
    <3>2. PICK a, b :
            f = MakeEdge(a, b, "shared_feature_flag",
                         FanOut(t.flags[k], FlagTierA, FlagMax).tier, "none", FALSE, k)
      BY <3>1
    <3> DEFINE tier == FanOut(t.flags[k], FlagTierA, FlagMax).tier
    <3>3. tier \in Tiers /\ k \in V
      BY <1>0, <1>1
    <3> HIDE DEF tier
    <3>4. IsEdge(MakeEdge(a, b, "shared_feature_flag", tier, "none", FALSE, k), V)
      BY <2>1, <3>3, MadeIsEdge
    <3> QED
      BY <3>2, <3>4 DEF tier
  <2> QED
    BY <2>2, <2>3
<1>5. ASSUME NEW f \in IssueEdges(t) PROVE IsEdge(f, V)
  <2>1. "closes_issue" \in EdgeTypes
    BY DEF EdgeTypes
  <2> QED
    BY <1>0, <1>2, <2>1 DEF IssueEdges
<1>6. ASSUME NEW f \in EvidenceEdges(t) PROVE IsEdge(f, V)
  <2>1. \E type \in EdgeTypes : \E a, b : f = MakeEdge(a, b, type, "A", "none", FALSE, 0)
    <3>1. {"commit_membership", "changelog_link", "review_thread_change"} \subseteq EdgeTypes
      BY DEF EdgeTypes
    <3>2. \E a, b : \/ f = MakeEdge(a, b, "commit_membership", "A", "none", FALSE, 0)
                    \/ f = MakeEdge(a, b, "changelog_link", "A", "none", FALSE, 0)
                    \/ f = MakeEdge(a, b, "review_thread_change", "A", "none", FALSE, 0)
      BY DEF EvidenceEdges
    <3> QED
      BY <3>1, <3>2
  <2>2. PICK type \in EdgeTypes : \E a, b : f = MakeEdge(a, b, type, "A", "none", FALSE, 0)
    BY <2>1
  <2>3. PICK a, b : f = MakeEdge(a, b, type, "A", "none", FALSE, 0)
    BY <2>2
  <2>4. "A" \in Tiers /\ "none" \in Guards
    BY DEF Tiers, Guards
  <2>5. IsEdge(MakeEdge(a, b, type, "A", "none", FALSE, 0), V)
    BY <1>0, <2>4, MadeIsEdge
  <2> QED
    BY <2>3, <2>5
<1>7. "B" \in Tiers /\ "C" \in Tiers /\ {"none", "demoted", "uncorroborated"} \subseteq Guards
  BY DEF Tiers, Guards
<1>8. ASSUME NEW f \in StackedBranches(t) PROVE IsEdge(f, V)
  <2>1. "stacked_branch" \in EdgeTypes
    BY DEF EdgeTypes
  <2>2. PICK a, b : f = MakeEdge(a, b, "stacked_branch", "B", "none", TRUE, 0)
    BY DEF StackedBranches, Joined
  <2>3. IsEdge(MakeEdge(a, b, "stacked_branch", "B", "none", TRUE, 0), V)
    BY <1>0, <1>7, <2>1, MadeIsEdge
  <2> QED
    BY <2>2, <2>3
<1>9. ASSUME NEW f \in SymbolDownstream(t) PROVE IsEdge(f, V)
  <2>1. "symbol_downstream" \in EdgeTypes
    BY DEF EdgeTypes
  <2>2. PICK path \in Paths : \E n \in Adopters(t, path) :
          f = Joined(n, Introducer(t, path), "symbol_downstream", "B",
                     IF Cardinality(Adopters(t, path)) > AdoptersMax THEN "demoted" ELSE "none",
                     ~(Cardinality(Adopters(t, path)) > AdoptersMax), path)
    BY DEF SymbolDownstream
  <2>3. \E a, b : \/ f = MakeEdge(a, b, "symbol_downstream", "B", "demoted", FALSE, path)
                  \/ f = MakeEdge(a, b, "symbol_downstream", "B", "none", TRUE, path)
    <3>1. CASE Cardinality(Adopters(t, path)) > AdoptersMax
      BY <2>2, <3>1 DEF Joined
    <3>2. CASE ~(Cardinality(Adopters(t, path)) > AdoptersMax)
      BY <2>2, <3>2 DEF Joined
    <3> QED
      BY <3>1, <3>2
  <2>4. PICK a, b : \/ f = MakeEdge(a, b, "symbol_downstream", "B", "demoted", FALSE, path)
                    \/ f = MakeEdge(a, b, "symbol_downstream", "B", "none", TRUE, path)
    BY <2>3
  <2>5. path \in V
    BY <1>0
  <2>6. /\ IsEdge(MakeEdge(a, b, "symbol_downstream", "B", "demoted", FALSE, path), V)
        /\ IsEdge(MakeEdge(a, b, "symbol_downstream", "B", "none", TRUE, path), V)
    BY <1>7, <2>1, <2>5, MadeIsEdge
  <2> QED
    BY <2>4, <2>6
<1>10. ASSUME NEW f \in MigrationDependency(t) PROVE IsEdge(f, V)
  <2>1. "migration_dependency" \in EdgeTypes
    BY DEF EdgeTypes
  <2>2. PICK d \in DOMAIN t.migrations : \E a, b :
          f = MakeEdge(a, b, "migration_dependency", "B", "none", TRUE, d)
    <3>1. \E d \in DOMAIN t.migrations : \E p :
            f = Joined(p[1], p[2], "migration_dependency", "B", "none", TRUE, d)
      BY DEF MigrationDependency
    <3> QED
      BY <3>1 DEF Joined
  <2>3. PICK a, b : f = MakeEdge(a, b, "migration_dependency", "B", "none", TRUE, d)
    BY <2>2
  <2>4. IsEdge(MakeEdge(a, b, "migration_dependency", "B", "none", TRUE, d), V)
    BY <1>0, <1>7, <2>1, MadeIsEdge
  <2> QED
    BY <2>3, <2>4
<1>11. ASSUME NEW f \in NamedEntities(t) PROVE IsEdge(f, V)
  <2>1. "shared_named_entity" \in EdgeTypes
    BY DEF EdgeTypes
  <2>2. PICK k \in DOMAIN t.names : \E a, b :
          f = MakeEdge(a, b, "shared_named_entity", "B", "none", TRUE, k)
    BY DEF NamedEntities, Joined
  <2>3. PICK a, b : f = MakeEdge(a, b, "shared_named_entity", "B", "none", TRUE, k)
    BY <2>2
  <2>4. IsEdge(MakeEdge(a, b, "shared_named_entity", "B", "none", TRUE, k), V)
    BY <1>0, <1>7, <2>1, MadeIsEdge
  <2> QED
    BY <2>3, <2>4
<1>12. ASSUME NEW E, NEW f \in SemanticEdges(t, E) PROVE IsEdge(f, V)
  <2>1. "semantic_similarity" \in EdgeTypes
    BY DEF EdgeTypes
  <2>2. PICK pair : f = Joined(Min(pair), Max(pair), "semantic_similarity", "C",
              IF Corroborated(E, pair) THEN "none" ELSE "uncorroborated", Corroborated(E, pair), 0)
    BY DEF SemanticEdges
  <2> DEFINE sure == Corroborated(E, pair)
  <2>3. sure \in BOOLEAN /\ (IF sure THEN "none" ELSE "uncorroborated") \in Guards
    BY <1>7 DEF Corroborated
  <2> HIDE DEF sure
  <2>4. IsEdge(MakeEdge(PullRequest(Min(pair)), PullRequest(Max(pair)), "semantic_similarity", "C",
                        IF sure THEN "none" ELSE "uncorroborated", sure, 0), V)
    BY <1>0, <1>7, <2>1, <2>3, MadeIsEdge
  <2> QED
    BY <2>2, <2>4 DEF Joined, sure
<1>13. \/ e \in Phase1Edges(t) \/ e \in FlagEdges(t) \/ e \in IssueEdges(t) \/ e \in EvidenceEdges(t)
       \/ e \in StackedBranches(t) \/ e \in SymbolDownstream(t) \/ e \in MigrationDependency(t)
       \/ e \in NamedEntities(t)
       \/ e \in SemanticEdges(t, Deduplicate(TierA(t) \union TierB(t)))
  BY DEF GraphOf, Deduplicate, TierA, TierB
<1> QED
  BY <1>3, <1>4, <1>5, <1>6, <1>8, <1>9, <1>10, <1>11, <1>12, <1>13 DEF V

LEMMA StrengthIsInt ==
  ASSUME NEW e, e.tier \in Tiers
  PROVE  Strength(e) \in Int
<1>1. Base[e.tier] \in Nat
  BY DEF Base, Tiers
<1>2. Multiplier(e.type) \in Nat
  BY DEF Multiplier
<1> DEFINE x == Base[e.tier] * Multiplier(e.type)
<1>3. x \in Nat
  BY <1>1, <1>2
<1> HIDE DEF x
<1>4. x \div 100 \in Int
  BY <1>3
<1> QED
  BY <1>4 DEF Strength, x

CombineStep(E) ==
  [k \in E \X Int |-> k[2] + Strength(k[1]) - (k[2] * Strength(k[1])) \div 1000]

LEMMA CombineIsInt ==
  ASSUME NEW E, IsFiniteSet(E), \A e \in E : e.tier \in Tiers
  PROVE  Combine(E) \in Int
<1> DEFINE h == CombineStep(E)
<1>1. h \in [E \X Int -> Int]
  <2>1. ASSUME NEW e \in E, NEW x \in Int
        PROVE  x + Strength(e) - (x * Strength(e)) \div 1000 \in Int
    <3>1. Strength(e) \in Int
      BY StrengthIsInt
    <3>2. x * Strength(e) \in Int
      BY <3>1
    <3>3. (x * Strength(e)) \div 1000 \in Int
      BY <3>2
    <3> QED
      BY <3>1, <3>3
  <2>2. \A k \in E \X Int : k[2] + Strength(k[1]) - (k[2] * Strength(k[1])) \div 1000 \in Int
    <3> SUFFICES ASSUME NEW k \in E \X Int
                 PROVE  k[2] + Strength(k[1]) - (k[2] * Strength(k[1])) \div 1000 \in Int
      OBVIOUS
    <3>1. k[1] \in E /\ k[2] \in Int
      OBVIOUS
    <3> QED
      BY <2>1, <3>1
  <2> QED
    BY <2>2 DEF CombineStep
<1> HIDE DEF h
<1>2. PICK g : Folds(g, h, 0, E)
  BY <1>1, FoldsExist
<1> DEFINE next(c, s) ==
             IF s = {} THEN 0
             ELSE c[s \ {CHOOSE x \in s : TRUE}] + Strength(CHOOSE x \in s : TRUE)
                  - (c[s \ {CHOOSE x \in s : TRUE}] * Strength(CHOOSE x \in s : TRUE)) \div 1000
           Is(c) == c = [s \in SUBSET E |-> next(c, s)]
<1>3. Combine(E) = (CHOOSE c : Is(c))[E]
  BY DEF Combine, FoldSet, MapThenFoldSet
<1>4. \A s \in SUBSET E : s # {} => Some(s) \in E /\ g[s \ {Some(s)}] \in Int
  BY <1>2 DEF Some, Folds
<1>5. \A s \in SUBSET E : s # {} =>
        g[s] = g[s \ {Some(s)}] + Strength(Some(s)) - (g[s \ {Some(s)}] * Strength(Some(s))) \div 1000
  <2> SUFFICES ASSUME NEW s \in SUBSET E, s # {}
               PROVE  g[s] = g[s \ {Some(s)}] + Strength(Some(s))
                               - (g[s \ {Some(s)}] * Strength(Some(s))) \div 1000
    OBVIOUS
  <2> DEFINE a == Some(s)
             b == g[s \ {Some(s)}]
  <2>1. a \in E /\ b \in Int
    BY <1>4
  <2>2. g[s] = h[<<a, b>>]
    BY <1>2 DEF Folds, Folding
  <2> HIDE DEF a, b
  <2>3. <<a, b>> \in E \X Int /\ <<a, b>>[1] = a /\ <<a, b>>[2] = b
    BY <2>1
  <2>4. h[<<a, b>>] = b + Strength(a) - (b * Strength(a)) \div 1000
    BY <2>3 DEF h, CombineStep
  <2> QED
    BY <2>2, <2>4 DEF a, b
<1>6. Is(g)
  <2>1. g = [s \in SUBSET E |-> g[s]]
    BY <1>2 DEF Folds
  <2>2. \A s \in SUBSET E : g[s] = next(g, s)
    BY <1>2, <1>5 DEF Folds, Folding, Some
  <2> HIDE DEF next
  <2> QED
    BY <2>1, <2>2
<1> DEFINE c == CHOOSE c : Is(c)
<1>7. Is(c)
  <2> HIDE DEF Is
  <2> QED
    BY <1>6
<1>8. /\ c[{}] = 0
      /\ \A s \in SUBSET E : s # {} =>
        c[s] = c[s \ {Some(s)}] + Strength(Some(s)) - (c[s \ {Some(s)}] * Strength(Some(s))) \div 1000
  <2> HIDE DEF c
  <2> QED
    BY <1>7 DEF Some
<1> HIDE DEF c
<1>9. Folding(c, h, 0, E)
  <2> DEFINE F == {s \in SUBSET E : c[s] # g[s]}
  <2>1. F = {}
    <3> SUFFICES ASSUME F # {} PROVE FALSE
      OBVIOUS
    <3>1. F \subseteq SUBSET E
      OBVIOUS
    <3>2. \E s \in F : \A t \in F : t \subseteq s => t = s
      <4> HIDE DEF F
      <4> QED
        BY <3>1, LeastSubset
    <3>3. PICK s \in F : \A t \in F : t \subseteq s => t = s
      BY <3>2
    <3>4. s # {}
      BY <1>2, <1>8, <3>3 DEF Folds, Folding
    <3>5. c[s \ {Some(s)}] = g[s \ {Some(s)}]
      BY <3>3, <3>4 DEF Some
    <3>6. c[s] = g[s]
      <4>1. s \in SUBSET E
        BY <3>3
      <4>2. c[s] = g[s \ {Some(s)}] + Strength(Some(s)) - (g[s \ {Some(s)}] * Strength(Some(s))) \div 1000
        BY <1>8, <3>4, <3>5, <4>1
      <4> QED
        BY <1>5, <3>4, <4>1, <4>2
    <3> QED
      BY <3>3, <3>6
  <2> QED
    BY <1>2, <2>1 DEF Folds, Folding, Some
<1>10. c[E] = g[E]
  BY <1>2, <1>9, FoldsAgree
<1>11. g[E] \in Int
  BY <1>2 DEF Folds
<1> QED
  BY <1>3, <1>10, <1>11 DEF c

LEMMA FourAreFinite ==
  ASSUME NEW a, NEW b, NEW c, NEW d
  PROVE  IsFiniteSet({a, b, c, d}) /\ IsFiniteSet({a, b, c}) /\ IsFiniteSet({a, b})
<1>1. IsFiniteSet({a}) /\ IsFiniteSet({b}) /\ IsFiniteSet({c}) /\ IsFiniteSet({d})
  BY FS_Singleton
<1>2. IsFiniteSet({a} \union {b}) /\ IsFiniteSet({c} \union {d})
  BY <1>1, FS_Union
<1>3. IsFiniteSet(({a} \union {b}) \union {c}) /\ IsFiniteSet(({a} \union {b}) \union ({c} \union {d}))
  BY <1>1, <1>2, FS_Union
<1>4. /\ {a} \union {b} = {a, b}
      /\ ({a} \union {b}) \union {c} = {a, b, c}
      /\ ({a} \union {b}) \union ({c} \union {d}) = {a, b, c, d}
  OBVIOUS
<1> QED
  BY <1>2, <1>3, <1>4

LEMMA JoiningIsFinite ==
  ASSUME NEW V, IsFiniteSet(V), \A e \in edges : IsEdge(e, V), NEW pair, IsFiniteSet(pair)
  PROVE  IsFiniteSet(Joining(pair))
<1> DEFINE P == {[n \in pair |-> PullRequest(n)][m] : m \in pair}
           K == P \X (P \X (EdgeTypes \X (Tiers \X (Guards \X (BOOLEAN \X V)))))
           of == [k \in K |-> [source |-> k[1], target |-> k[2][1], type |-> k[2][2][1],
                               tier |-> k[2][2][2][1], guard |-> k[2][2][2][2][1],
                               usable |-> k[2][2][2][2][2][1], via |-> k[2][2][2][2][2][2]]]
           T == {of[k] : k \in K}
<1>1. IsFiniteSet(P)
  BY ImageIsFinite
<1>2. IsFiniteSet(EdgeTypes) /\ IsFiniteSet(Tiers) /\ IsFiniteSet(Guards) /\ IsFiniteSet(BOOLEAN)
  <2>1. IsFiniteSet(Tiers) /\ IsFiniteSet(Guards)
    BY FourAreFinite DEF Tiers, Guards
  <2>2. IsFiniteSet(BOOLEAN)
    <3>1. BOOLEAN = {TRUE, FALSE, TRUE, FALSE}
      OBVIOUS
    <3> QED
      BY <3>1, FourAreFinite
  <2>3. IsFiniteSet(EdgeTypes)
    BY FourAreFinite, FS_Union DEF EdgeTypes
  <2> QED
    BY <2>1, <2>2, <2>3
<1>3. IsFiniteSet(K)
  <2> HIDE DEF P
  <2>1. IsFiniteSet(BOOLEAN \X V)
    BY <1>2, FS_Product
  <2>2. IsFiniteSet(Guards \X (BOOLEAN \X V))
    BY <1>2, <2>1, FS_Product
  <2>3. IsFiniteSet(Tiers \X (Guards \X (BOOLEAN \X V)))
    BY <1>2, <2>2, FS_Product
  <2>4. IsFiniteSet(EdgeTypes \X (Tiers \X (Guards \X (BOOLEAN \X V))))
    BY <1>2, <2>3, FS_Product
  <2>5. IsFiniteSet(P \X (EdgeTypes \X (Tiers \X (Guards \X (BOOLEAN \X V)))))
    BY <1>1, <2>4, FS_Product
  <2> QED
    BY <1>1, <2>5, FS_Product
<1>4. IsFiniteSet(T)
  <2> HIDE DEF K, of
  <2> QED
    BY <1>3, ImageIsFinite
<1>5. ASSUME NEW e \in Joining(pair) PROVE e \in T
  <2> DEFINE k == <<e.source, <<e.target, <<e.type, <<e.tier, <<e.guard, <<e.usable, e.via>>>>>>>>>>>>
  <2>1. IsEdge(e, V) /\ {e.source, e.target} = P
    BY DEF Joining
  <2>2. e.source \in P /\ e.target \in P
    BY <2>1
  <2>3. k \in K
    <3> HIDE DEF P
    <3> QED
      BY <2>1, <2>2 DEF IsEdge
  <2>4. of[k] = e
    BY <2>1, <2>3 DEF IsEdge
  <2> QED
    BY <2>3, <2>4
<1>6. Joining(pair) \subseteq T
  BY <1>5
<1> QED
  BY <1>4, <1>6, FS_Subset

-----------------------------------------------------------------------------
(* From one step of the method to the next.                                  *)

Joins(p) == p \in DOMAIN weights

Alone(n) == \A m \in Members : membership[m] = membership[n] => m = n

JoinedOK ==
  /\ \A c, d \in nodes : adj[c][d] > 0 => adj[d][c] > 0
  /\ \A c \in nodes : adj[c][c] = 0
  /\ \A c \in nodes : \E n \in Members : membership[n] = c

HeldTogether ==
  \A n \in Members : Alone(n) \/ \E m \in Members \ {n} :
                                   membership[m] = membership[n] /\ Joins({n, m})

AloneOK ==
  \A n \in Members : Alone(n) =>
    /\ loops[membership[n]] = 0
    /\ \A d \in nodes : adj[membership[n]][d] > 0 =>
         \E m \in Members : membership[m] = d /\ Joins({n, m})

LonelyOK ==
  \A c \in nodes : (\A d \in nodes : ~(adj[c][d] > 0)) =>
    community[c] = c /\ \A d \in nodes : community[d] = c => d = c

SteadyOK == ~moved => \A c \in nodes \ queue : community[c] = Best(c)

WeightsOK == \A p \in DOMAIN weights : p \in Pairs(Members) /\ MayJoin(p)

LouvainInv ==
  /\ phase = "sweep" => LevelOK /\ JoinedOK /\ AloneOK /\ LonelyOK /\ SteadyOK
  /\ phase \in {"sweep", "constrain"} => HeldTogether /\ WeightsOK
  /\ phase \notin {"clustered", "walk", "recorded", "analysed"} => clusters = {}
  /\ EveryMemberIsHeld

LEMMA PairIs ==
  ASSUME NEW S, IsFiniteSet(S), NEW p \in Pairs(S)
  PROVE  /\ IsFiniteSet(p)
         /\ \A n \in p : \E m \in S \ {n} : p = {n, m}
<1>1. p \subseteq S /\ Cardinality(p) = 2
  BY DEF Pairs
<1>2. ASSUME NEW n \in p PROVE \E m \in S \ {n} : p = {n, m}
  <2>1. IsFiniteSet(p)
    BY <1>1, FS_Subset
  <2>2. IsFiniteSet(p \ {n}) /\ Cardinality(p \ {n}) = 1
    BY <1>1, <2>1, FS_RemoveElement
  <2>3. PICK m : p \ {n} = {m}
    BY <2>2, FS_Singleton
  <2> QED
    BY <1>1, <2>3
<1> QED
  BY <1>1, <1>2, FS_Subset

LEMMA WeightIsPositive ==
  ASSUME Shaped(tables), edges = GraphOf(tables), NEW p \in Pairs(Members), MayJoin(p)
  PROVE  Combine(Usable(p)) \in Nat /\ Combine(Usable(p)) > 0
<1>1. \A e \in edges : IsEdge(e, Vias(tables))
  BY GraphIsOfEdges
<1>2. IsFiniteSet(Vias(tables))
  BY FS_Singleton, FS_Union, NumbersAssumption DEF Shaped, Vias
<1>3. IsFiniteSet(p)
  BY NumbersAssumption, FS_Subset, PairIs DEF Shaped, Members
<1>4. IsFiniteSet(Usable(p))
  BY <1>1, <1>2, <1>3, JoiningIsFinite, FS_Subset DEF Usable
<1>5. \A e \in Usable(p) : e.tier \in Tiers
  BY <1>1 DEF Usable, Joining, IsEdge
<1>6. Combine(Usable(p)) \in Int
  BY <1>4, <1>5, CombineIsInt
<1>7. Combine(Usable(p)) >= MinPair
  BY DEF MayJoin
<1> QED
  BY <1>6, <1>7, StrengthAssumption

LEMMA WeighHolds ==
  ASSUME Shaped(tables), edges = GraphOf(tables), Weigh
  PROVE  (LevelOK /\ JoinedOK /\ AloneOK /\ LonelyOK /\ SteadyOK /\ HeldTogether /\ WeightsOK)'
<1> DEFINE joined == {p \in Pairs(Members) : MayJoin(p)}
<1>1. /\ weights' = [p \in joined |-> Combine(Usable(p))]
      /\ nodes' = Members /\ queue' = Members /\ community' = [n \in Members |-> n]
      /\ moved' = FALSE /\ membership' = [n \in Members |-> n]
      /\ loops' = [a \in Members |-> 0]
      /\ adj' = [a \in Members |-> [b \in Members |->
                   IF {a, b} \in DOMAIN weights' THEN weights'[{a, b}] ELSE 0]]
      /\ tables' = tables /\ edges' = edges
  BY DEF Weigh, PairWeights, StartLevel
<1>2. \A p \in joined : weights'[p] \in Nat /\ weights'[p] > 0
  BY <1>1, WeightIsPositive
<1>3. DOMAIN weights' = joined /\ Members' = Members
  BY <1>1 DEF Members
<1>4. \A a \in Members : {a, a} \notin joined
  <2>1. \A a \in Members : Cardinality({a, a}) = 1
    BY FS_Singleton
  <2> QED
    BY <2>1 DEF Pairs
<1>5. WeightsOK'
  <2>1. \A p : MayJoin(p)' <=> MayJoin(p)
    <3>1. \A p : Usable(p)' = Usable(p)
      BY <1>1 DEF Usable, Joining
    <3> QED
      BY <1>1, <3>1 DEF MayJoin
  <2> QED
    BY <1>3, <2>1 DEF WeightsOK
<1> HIDE DEF joined
<1>6. \A a, b \in Members : /\ {a, b} \in joined => adj'[a][b] = weights'[{a, b}]
                            /\ {a, b} \notin joined => adj'[a][b] = 0
  BY <1>1, <1>3
<1>7. LevelOK'
  <2>1. \A a, b \in Members : (IF {a, b} \in DOMAIN weights' THEN weights'[{a, b}] ELSE 0) \in Nat
    BY <1>2, <1>3
  <2>2. adj' \in [Members -> [Members -> Nat]]
    BY <1>1, <2>1
  <2> QED
    BY <1>1, <1>3, <2>2 DEF LevelOK
<1>8. \A a, b \in Members : adj'[a][b] > 0 <=> {a, b} \in joined
  BY <1>2, <1>6
<1>9. JoinedOK'
  <2>1. \A a, b \in Members : {a, b} = {b, a}
    OBVIOUS
  <2>2. \A a, b \in Members : adj'[a][b] > 0 => adj'[b][a] > 0
    BY <1>8, <2>1
  <2>3. \A a \in Members : adj'[a][a] = 0
    BY <1>4, <1>6
  <2> QED
    BY <1>1, <1>3, <2>2, <2>3 DEF JoinedOK
<1>10. AloneOK'
  BY <1>1, <1>3, <1>8 DEF AloneOK, Joins
<1>11. HeldTogether'
  BY <1>1, <1>3 DEF HeldTogether, Alone
<1>12. LonelyOK'
  BY <1>1 DEF LonelyOK
<1>13. SteadyOK'
  BY <1>1 DEF SteadyOK
<1> QED
  BY <1>5, <1>7, <1>9, <1>10, <1>11, <1>12, <1>13

LEMMA BestKept ==
  ASSUME nodes' = nodes, adj' = adj, loops' = loops, community' = community, NEW c
  PROVE  Best(c)' = Best(c)
<1>1. Degrees' = Degrees
  BY DEF Degrees
<1>2. Mass' = Mass
  BY <1>1 DEF Mass
<1>3. Reach(c)' = Reach(c)
  BY DEF Reach
<1> DEFINE gain == [x \in Reach(c) |-> Gain(c, x)]
           top == {x \in Reach(c) : \A d \in Reach(c) : gain[x] >= gain[d]}
<1>4. ASSUME NEW x PROVE Gain(c, x)' = Gain(c, x)
  <2>1. OthersIn(c, x)' = OthersIn(c, x)
    BY DEF OthersIn
  <2> QED
    BY <1>1, <1>2, <2>1 DEF Gain, OthersIn
<1>5. gain' = gain
  BY <1>3, <1>4
<1>6. top' = top
  <2> HIDE DEF gain
  <2> QED
    BY <1>3, <1>5
<1>7. Best(c) = Min(top) /\ Best(c)' = Min(top')
  BY DEF Best, Reach
<1> HIDE DEF top
<1> QED
  BY <1>6, <1>7

LEMMA WeightsKept ==
  ASSUME WeightsOK, tables' = tables, edges' = edges, weights' = weights
  PROVE  WeightsOK'
<1>1. \A p : Usable(p)' = Usable(p)
  BY DEF Usable, Joining
<1>2. \A p : MayJoin(p)' <=> MayJoin(p)
  BY <1>1 DEF MayJoin
<1> QED
  BY <1>2 DEF WeightsOK, Members

\* What a move leaves: one node in another community, all else as it was.
LEMMA MoveIs ==
  ASSUME Shaped(tables), MoveNode, LevelOK
  PROVE  /\ queue # {} /\ Min(queue) \in queue /\ Min(queue) \in nodes
         /\ Best(Min(queue)) \in Reach(Min(queue)) /\ Best(Min(queue)) \in nodes
         /\ queue' = queue \ {Min(queue)}
         /\ community' = [community EXCEPT ![Min(queue)] = Best(Min(queue))]
         /\ moved' = (moved \/ Best(Min(queue)) # community[Min(queue)])
         /\ nodes' = nodes /\ adj' = adj /\ loops' = loops /\ membership' = membership
         /\ tables' = tables /\ weights' = weights
         /\ LevelOK'
<1>1. /\ queue # {} /\ queue' = queue \ {Min(queue)}
      /\ community' = [community EXCEPT ![Min(queue)] = Best(Min(queue))]
      /\ moved' = (moved \/ Best(Min(queue)) # community[Min(queue)])
      /\ nodes' = nodes /\ adj' = adj /\ loops' = loops /\ membership' = membership
      /\ tables' = tables /\ weights' = weights
  BY DEF MoveNode
<1>2. IsFiniteSet(nodes) /\ nodes \subseteq Nat
  BY NumbersAssumption, FS_Subset DEF Shaped, Members, LevelOK
<1>3. Min(queue) \in queue /\ Min(queue) \in nodes
  BY <1>1, <1>2, LeastIsIn DEF LevelOK
<1>4. Best(Min(queue)) \in Reach(Min(queue)) /\ Best(Min(queue)) \in nodes
  BY <1>2, <1>3, BestIs
<1>5. LevelOK'
  BY <1>1, <1>3, <1>4 DEF LevelOK, Members
<1> QED
  BY <1>1, <1>3, <1>4, <1>5

LEMMA MoveHolds ==
  ASSUME Shaped(tables), LevelOK, JoinedOK, LonelyOK, SteadyOK, MoveNode
  PROVE  (LevelOK /\ LonelyOK /\ SteadyOK)'
<1> DEFINE n == Min(queue)
           best == Best(n)
<1>1. /\ queue' = queue \ {n} /\ community' = [community EXCEPT ![n] = best]
      /\ moved' = (moved \/ best # community[n])
      /\ nodes' = nodes /\ adj' = adj /\ loops' = loops
  BY MoveIs
<1>3. n \in queue /\ n \in nodes
  BY MoveIs
<1>4. best \in Reach(n) /\ best \in nodes
  BY MoveIs
<1>5. LevelOK'
  BY MoveIs
<1> HIDE DEF n, best
<1>6. /\ community'[n] = best
      /\ \A d \in nodes \ {n} : community'[d] = community[d]
  BY <1>1, <1>3 DEF LevelOK
<1>7. LonelyOK'
  <2> SUFFICES ASSUME NEW c \in nodes, \A d \in nodes : ~(adj[c][d] > 0)
               PROVE  community'[c] = c /\ \A d \in nodes : community'[d] = c => d = c
    BY <1>1 DEF LonelyOK
  <2>1. community[c] = c /\ \A d \in nodes : community[d] = c => d = c
    BY DEF LonelyOK
  <2>2. \A d \in nodes : ~(adj[d][c] > 0)
    BY DEF JoinedOK
  <2>3. best = c => n = c
    BY <1>3, <1>4, <2>1, <2>2 DEF Reach
  <2>4. n = c => best = c
    BY <1>4, <2>1 DEF Reach
  <2> QED
    BY <1>3, <1>6, <2>1, <2>3, <2>4
<1>8. SteadyOK'
  <2> SUFFICES ASSUME ~moved', NEW c \in nodes \ queue' PROVE community'[c] = Best(c)'
    BY <1>1 DEF SteadyOK
  <2>1. ~moved /\ best = community[n]
    BY <1>1
  <2>2. community' = community
    BY <1>1, <1>3, <2>1 DEF LevelOK
  <2>3. Best(c)' = Best(c)
    BY <1>1, <2>2, BestKept
  <2>4. c \in nodes \ queue \/ c = n
    BY <1>1
  <2> QED
    BY <2>1, <2>2, <2>3, <2>4 DEF SteadyOK, n, best
<1> QED
  BY <1>5, <1>7, <1>8

Of(c) == {n \in nodes : community[n] = c}

Joint(c, d) == Total([n \in nodes |-> Total(adj[n], Of(d))], Of(c))

\* The weight between two communities is that of the nodes in them.
LEMMA WeightBetween ==
  ASSUME IsFiniteSet(nodes), LevelOK, NEW c, NEW d
  PROVE  /\ Joint(c, d) \in Nat
         /\ Joint(c, d) > 0 <=> \E x \in Of(c), y \in Of(d) : adj[x][y] > 0
<1> DEFINE f == [n \in nodes |-> Total(adj[n], Of(d))]
<1>1. Of(c) \in SUBSET nodes /\ Of(d) \in SUBSET nodes
  BY DEF Of
<1>2. IsFiniteSet(Of(c)) /\ IsFiniteSet(Of(d))
  BY <1>1, FS_Subset
<1>3. \A n \in nodes : f[n] = SumOver(adj[n], Of(d)) /\ f[n] \in Nat
  BY <1>1, LevelSums, TotalIsSum
<1>4. ASSUME NEW n \in nodes PROVE f[n] > 0 <=> \E y \in Of(d) : adj[n][y] > 0
  <2>1. \A y \in Of(d) : adj[n][y] \in Nat
    BY <1>1 DEF LevelOK
  <2>2. SumOver(adj[n], Of(d)) > 0 <=> \E y \in Of(d) : adj[n][y] > 0
    BY <1>2, <2>1, SumIsPositive
  <2> QED
    BY <1>3, <2>2
<1> HIDE DEF f
<1>5. \A n \in Of(c) : f[n] \in Nat
  BY <1>1, <1>3
<1>6. SumOver(f, Of(c)) \in Nat
  BY <1>2, <1>5, SumIsNat
<1>7. SumOver(f, Of(c)) > 0 <=> \E x \in Of(c) : f[x] > 0
  BY <1>2, <1>5, SumIsPositive
<1>8. Joint(c, d) = SumOver(f, Of(c))
  BY TotalIsSum DEF Joint, f
<1> QED
  BY <1>1, <1>4, <1>6, <1>7, <1>8

Names == {community[n] : n \in nodes}

\* What an aggregation leaves: the communities are the nodes of the next level.
LEMMA AggregateIs ==
  ASSUME Shaped(tables), Aggregate, LevelOK
  PROVE  /\ nodes' = Names /\ queue' = Names /\ community' = [c \in Names |-> c]
         /\ adj' = [c \in Names |-> [d \in Names |-> IF c = d THEN 0 ELSE Joint(c, d)]]
         /\ loops' = [c \in Names |-> Total(loops, Of(c)) + Joint(c, c) \div 2]
         /\ membership' = [n \in Members |-> community[membership[n]]]
         /\ tables' = tables /\ weights' = weights
         /\ Names \in SUBSET nodes
         /\ LevelOK'
<1>1. /\ nodes' = Names /\ queue' = Names /\ community' = [c \in Names |-> c]
      /\ adj' = [c \in Names |-> [d \in Names |-> IF c = d THEN 0 ELSE Joint(c, d)]]
      /\ loops' = [c \in Names |-> Total(loops, Of(c)) + Joint(c, c) \div 2]
      /\ membership' = [n \in Members |-> community[membership[n]]]
      /\ tables' = tables /\ weights' = weights
  BY DEF Aggregate, StartLevel, LevelOver, Of, Joint, Names
<1>2. IsFiniteSet(nodes)
  BY NumbersAssumption, FS_Subset DEF Shaped, Members, LevelOK
<1>3. Members' = Members
  BY <1>1 DEF Members
<1>4. Names \subseteq nodes
  BY DEF LevelOK, Names
<1>5. \A c, d : Joint(c, d) \in Nat
  BY <1>2, WeightBetween
<1>6. \A n \in Members : community[membership[n]] \in Names
  BY DEF LevelOK, Names
<1>7. ASSUME NEW c \in Names PROVE Total(loops, Of(c)) + Joint(c, c) \div 2 \in Nat
  <2>1. Of(c) \in SUBSET nodes
    BY DEF Of
  <2>2. Total(loops, Of(c)) \in Nat /\ Joint(c, c) \in Nat
    BY <1>2, <1>5, <2>1, LevelSums
  <2>3. Joint(c, c) \div 2 \in Nat
    BY <2>2
  <2> QED
    BY <2>2, <2>3
<1>8. loops' \in [Names -> Nat]
  BY <1>1, <1>7
<1>9. adj' \in [Names -> [Names -> Nat]]
  BY <1>1, <1>5
<1>10. membership' \in [Members -> Names]
  BY <1>1, <1>6
<1>11. LevelOK'
  BY <1>1, <1>3, <1>4, <1>8, <1>9, <1>10 DEF LevelOK
<1> QED
  BY <1>1, <1>4, <1>11

LEMMA AggregateHolds ==
  ASSUME Shaped(tables), Aggregate, ~moved,
         LevelOK, JoinedOK, AloneOK, LonelyOK, SteadyOK, HeldTogether
  PROVE  (LevelOK /\ JoinedOK /\ AloneOK /\ LonelyOK /\ SteadyOK /\ HeldTogether)'
<1>1. /\ queue = {} /\ moved' = FALSE
      /\ nodes' = Names /\ queue' = Names /\ community' = [c \in Names |-> c]
      /\ adj' = [c \in Names |-> [d \in Names |-> IF c = d THEN 0 ELSE Joint(c, d)]]
      /\ loops' = [c \in Names |-> Total(loops, Of(c)) + Joint(c, c) \div 2]
      /\ membership' = [n \in Members |-> community[membership[n]]]
      /\ tables' = tables /\ weights' = weights
  BY AggregateIs DEF Aggregate, StartLevel, LevelOver
<1>2. IsFiniteSet(nodes)
  BY NumbersAssumption, FS_Subset DEF Shaped, Members, LevelOK
<1>3. Members' = Members
  BY <1>1 DEF Members
<1>5. \A c \in nodes : community[c] = Best(c)
  BY <1>1 DEF SteadyOK
<1>6. \A c, d : /\ Joint(c, d) \in Nat
                /\ Joint(c, d) > 0 <=> \E x \in Of(c), y \in Of(d) : adj[x][y] > 0
  BY <1>2, WeightBetween
<1>7. \A c, d \in Names : /\ adj'[c][d] = IF c = d THEN 0 ELSE Joint(c, d)
                          /\ adj'[c][d] \in Nat
  BY <1>1, <1>6
<1>8. \A n \in Members : membership[n] \in nodes /\ membership'[n] = community[membership[n]]
  BY <1>1 DEF LevelOK
<1>9. \A m, n \in Members : membership[m] = membership[n] => membership'[m] = membership'[n]
  BY <1>8
<1>10. \A n \in Members : Alone(n)' => Alone(n)
  BY <1>3, <1>9 DEF Alone
<1>11. LevelOK'
  BY AggregateIs
<1>12. JoinedOK'
  <2>1. ASSUME NEW c \in Names, NEW d \in Names, adj'[c][d] > 0 PROVE adj'[d][c] > 0
    <3>1. c # d /\ Joint(c, d) > 0
      BY <1>7, <2>1
    <3>2. PICK x \in Of(c), y \in Of(d) : adj[x][y] > 0
      BY <1>6, <3>1
    <3>3. adj[y][x] > 0
      BY <3>2 DEF JoinedOK, Of
    <3>4. Joint(d, c) > 0
      BY <1>6, <3>2, <3>3
    <3> QED
      BY <1>7, <3>1, <3>4
  <2>2. \A c \in Names : adj'[c][c] = 0
    BY <1>7
  <2>3. \A c \in Names : \E n \in Members : membership'[n] = c
    BY <1>8 DEF JoinedOK, Names
  <2> QED
    BY <1>1, <1>3, <2>1, <2>2, <2>3 DEF JoinedOK
<1>13. HeldTogether'
  <2> SUFFICES ASSUME NEW n \in Members, ~Alone(n)'
               PROVE  \E m \in Members \ {n} : membership'[m] = membership'[n] /\ Joins({n, m})
    BY <1>1, <1>3 DEF HeldTogether, Joins
  <2>1. CASE ~Alone(n)
    BY <1>9, <2>1 DEF HeldTogether
  <2>2. CASE Alone(n)
    <3> DEFINE c == membership[n]
    <3>1. c \in nodes /\ membership'[n] = community[c]
      BY <1>8
    <3>2. PICK o \in Members : membership'[o] = membership'[n] /\ o # n
      BY <1>3 DEF Alone
    <3>3. membership[o] \in nodes /\ community[membership[o]] = community[c] /\ membership[o] # c
      BY <1>8, <3>1, <3>2, <2>2 DEF Alone
    <3>4. ~(\A d \in nodes : ~(adj[c][d] > 0))
      BY <3>1, <3>3 DEF LonelyOK
    <3>5. PICK d \in nodes : adj[c][d] > 0
      BY <3>4
    <3>6. loops[c] = 0 /\ adj[c][c] = 0
      BY <2>2, <3>1 DEF AloneOK, JoinedOK
    <3> HIDE DEF c
    <3>7. PICK y \in nodes \ {c} : community[y] = Best(c) /\ adj[c][y] > 0
      BY <1>2, <3>1, <3>5, <3>6, GoesToNeighbour
    <3>8. PICK m \in Members : membership[m] = y /\ Joins({n, m})
      BY <2>2, <3>7 DEF AloneOK, c
    <3>9. m # n /\ membership'[m] = membership'[n]
      BY <1>5, <1>8, <3>1, <3>7, <3>8 DEF c
    <3> QED
      BY <3>8, <3>9
  <2> QED
    BY <2>1, <2>2
<1>14. AloneOK'
  <2> SUFFICES ASSUME NEW n \in Members, Alone(n)'
               PROVE  /\ loops'[membership'[n]] = 0
                      /\ \A d \in Names : adj'[membership'[n]][d] > 0 =>
                           \E m \in Members : membership'[m] = d /\ Joins({n, m})
    BY <1>1, <1>3 DEF AloneOK, Joins
  <2> DEFINE c == membership[n]
             k == community[c]
  <2>1. c \in nodes /\ membership'[n] = k /\ k \in Names
    BY <1>8 DEF Names
  <2>2. Alone(n)
    BY <1>10
  <2>3. Of(k) = {c}
    <3>1. ASSUME NEW x \in nodes, community[x] = k PROVE x = c
      <4>1. PICK m \in Members : membership[m] = x
        BY DEF JoinedOK
      <4>2. membership'[m] = membership'[n]
        BY <1>8, <2>1, <3>1, <4>1
      <4> QED
        BY <1>3, <4>1, <4>2 DEF Alone
    <3> QED
      BY <2>1, <3>1 DEF Of
  <2>4. loops[c] = 0 /\ adj[c][c] = 0
    BY <2>1, <2>2 DEF AloneOK, JoinedOK
  <2> HIDE DEF c, k
  <2>5. loops'[k] = 0
    <3>1. Total(loops, {c}) = 0
      <4>1. \A x \in {c} : loops[x] \in Nat
        BY <2>4
      <4>2. SumOver(loops, {c}) \in Nat /\ ~(SumOver(loops, {c}) > 0)
        BY <2>4, <4>1, SumIsNat, SumIsPositive, FS_Singleton
      <4> QED
        BY <4>2, TotalIsSum
    <3>2. Joint(k, k) = 0
      <4>1. Joint(k, k) \in Nat /\ ~(Joint(k, k) > 0)
        BY <1>6, <2>3, <2>4
      <4> QED
        BY <4>1
    <3>3. loops'[k] = 0 + 0 \div 2
      BY <1>1, <2>1, <2>3, <3>1, <3>2
    <3> QED
      BY <3>3
  <2>6. ASSUME NEW d \in Names, adj'[k][d] > 0
        PROVE  \E m \in Members : membership'[m] = d /\ Joins({n, m})
    <3>1. Joint(k, d) > 0
      BY <1>7, <2>1, <2>6
    <3>2. PICK y \in Of(d) : adj[c][y] > 0
      BY <1>6, <2>3, <3>1
    <3>3. y \in nodes /\ community[y] = d
      BY DEF Of
    <3>4. PICK m \in Members : membership[m] = y /\ Joins({n, m})
      BY <2>2, <3>2, <3>3 DEF AloneOK, c
    <3> QED
      BY <1>8, <3>3, <3>4
  <2> QED
    BY <2>1, <2>5, <2>6
<1>15. LonelyOK'
  BY <1>1 DEF LonelyOK
<1>16. SteadyOK'
  BY <1>1 DEF SteadyOK
<1> QED
  BY <1>11, <1>12, <1>13, <1>14, <1>15, <1>16

Held(n, S) ==
  \E m \in S \ {n} : \E e \in edges :
    /\ {e.source, e.target} = {PullRequest(n), PullRequest(m)}
    /\ e.usable /\ e.tier \in {"A", "B"}

LEMMA JoiningEnds ==
  ASSUME NEW n, NEW m, NEW S, m \in S, m # n, NEW e \in Usable({n, m}), e.tier \in {"A", "B"}
  PROVE  Held(n, S)
BY DEF Usable, Joining, Held

LEMMA MayJoinHolds ==
  ASSUME Shaped(tables), edges = GraphOf(tables), NEW n, NEW m, NEW S,
         m \in S, m # n, MayJoin({n, m})
  PROVE  Held(n, S)
<1> DEFINE tiers == {e.tier : e \in Usable({n, m})}
<1>1. tiers \notin {{}, {"C"}}
  BY DEF MayJoin
<1>2. \A e \in Usable({n, m}) : e.tier \in Tiers
  BY GraphIsOfEdges DEF Usable, Joining, IsEdge
<1>3. \E x \in tiers : x # "C"
  <2> HIDE DEF tiers
  <2> QED
    BY <1>1
<1>4. PICK e \in Usable({n, m}) : e.tier # "C"
  BY <1>3
<1>5. e.tier \in {"A", "B"}
  BY <1>2, <1>4 DEF Tiers
<1> QED
  BY <1>5, JoiningEnds

\* Who is in a component with others is joined to one of them.
LEMMA ComponentHolds ==
  ASSUME IsFiniteSet(Members), NEW S, NEW tiers \in SUBSET {"A", "B"},
         NEW T \in Components(S, TierPairs(tiers)), NEW n \in T, T # {n}
  PROVE  Held(n, T)
<1> DEFINE P == TierPairs(tiers)
<1>1. PICK k \in S : T = Component(k, S, P)
  BY DEF Components
<1> HIDE DEF P
<1>2. n \in S
  BY <1>1, ComponentDef
<1>3. T = Component(n, S, P)
  BY <1>1, <1>2, ComponentSame
<1>4. \E p \in P : n \in p /\ p \subseteq S /\ p # {n}
  <2> SUFFICES ASSUME \A p \in P : n \in p /\ p \subseteq S => p = {n} PROVE FALSE
    OBVIOUS
  <2>1. Closed({n}, S, P)
    BY <1>2 DEF Closed
  <2>2. T \subseteq {n}
    BY <1>2, <1>3, <2>1, ComponentDef
  <2> QED
    BY <2>2
<1>5. PICK p \in P : n \in p /\ p \subseteq S /\ p # {n}
  BY <1>4
<1>6. p \in Pairs(Members) /\ \E e \in Usable(p) : e.tier \in tiers
  BY <1>5 DEF TierPairs, P
<1>7. PICK m \in Members \ {n} : p = {n, m}
  BY <1>5, <1>6, PairIs
<1>8. m \in T
  <2>1. \A C \in SUBSET S : n \in C /\ Closed(C, S, P) => m \in C
    BY <1>5, <1>7 DEF Closed
  <2> QED
    BY <1>3, <1>5, <1>7, <2>1, ComponentDef
<1> QED
  BY <1>6, <1>7, <1>8, JoiningEnds

LEMMA ConstrainHolds ==
  ASSUME Shaped(tables), edges = GraphOf(tables), HeldTogether, WeightsOK, Constrain
  PROVE  EveryMemberIsHeld'
<1>0. IsFiniteSet(Members)
  BY NumbersAssumption, FS_Subset DEF Shaped, Members
<1>1. clusters' = UNION {Parts(S) : S \in Proposed} /\ edges' = edges
  BY DEF Constrain
<1>2. ASSUME NEW S \in Proposed, NEW T \in Parts(S), NEW n \in T, T # {n}
      PROVE  Held(n, T)
  <2>1. CASE Cardinality(S) <= SplitThreshold
    <3>1. T = S
      BY <2>1 DEF Parts
    <3>2. S = {m \in Members : membership[m] = membership[n]} /\ n \in Members
      BY <3>1 DEF Proposed
    <3>3. PICK m \in Members \ {n} : membership[m] = membership[n] /\ Joins({n, m})
      BY <1>2, <3>1, <3>2 DEF HeldTogether, Alone
    <3>4. MayJoin({n, m})
      BY <3>3 DEF WeightsOK, Joins
    <3> QED
      BY <3>1, <3>2, <3>3, <3>4, MayJoinHolds
  <2>2. CASE ~(Cardinality(S) <= SplitThreshold)
    <3>1. PICK part \in Components(S, TierPairs({"A", "B"})) :
            T \in IF Cardinality(part) <= HardMax THEN {part}
                  ELSE Components(part, TierPairs({"A"}))
      BY <2>2 DEF Parts
    <3>2. T = part \/ T \in Components(part, TierPairs({"A"}))
      BY <3>1
    <3>3. {"A"} \in SUBSET {"A", "B"} /\ {"A", "B"} \in SUBSET {"A", "B"}
      OBVIOUS
    <3> QED
      BY <1>0, <1>2, <3>2, <3>3, ComponentHolds
  <2> QED
    BY <2>1, <2>2
<1>3. \A T \in clusters' : \A n \in T : T # {n} => Held(n, T)
  BY <1>1, <1>2
<1>4. \A T, n : n \in T /\ Cardinality(T) > 1 => T # {n}
  <2>1. \A n : Cardinality({n}) = 1
    BY FS_Singleton
  <2> QED
    BY <2>1
<1>5. ASSUME NEW T \in clusters', Cardinality(T) > 1, NEW n \in T PROVE Held(n, T)
  BY <1>3, <1>4, <1>5
<1> QED
  BY <1>1, <1>5 DEF EveryMemberIsHeld, Held

LEMMA InitLouvainInv == Init => LouvainInv
BY DEF Init, NoGraph, LouvainInv, EveryMemberIsHeld

LEMMA NextLouvainInv ==
  StageInv /\ LouvainInv /\ Next /\ (Aggregate => ~moved) => LouvainInv'
<1> SUFFICES ASSUME StageInv, LouvainInv, Next, Aggregate => ~moved
             PROVE  LouvainInv'
  OBVIOUS
<1>0. TablesInv /\ GraphInv
  BY DEF StageInv
<1>1. CASE Cluster
  <2>1. phase \in GraphPhases /\ Shaped(tables) /\ edges = GraphOf(tables)
    BY <1>0, <1>1 DEF Cluster, Weigh, MoveNode, SweepAgain, Aggregate, Converge, LevelOver,
                      Constrain, GraphPhases, TablesInv, GraphInv
  <2>2. CASE Weigh
    <3>1. phase = "weigh" /\ phase' = "sweep" /\ clusters' = clusters
      BY <2>2 DEF Weigh
    <3>2. clusters = {}
      BY <3>1 DEF LouvainInv
    <3> QED
      BY <2>1, <2>2, <3>1, <3>2, WeighHolds DEF LouvainInv, EveryMemberIsHeld
  <2>3. CASE MoveNode \/ SweepAgain \/ Aggregate \/ Converge
    <3>1. /\ phase = "sweep" /\ phase' \in {"sweep", "constrain"} /\ clusters' = clusters
          /\ tables' = tables /\ edges' = edges /\ weights' = weights
      BY <2>3 DEF MoveNode, SweepAgain, Aggregate, Converge, LevelOver
    <3>2. /\ LevelOK /\ JoinedOK /\ AloneOK /\ LonelyOK /\ SteadyOK /\ HeldTogether /\ WeightsOK
          /\ clusters = {}
      BY <3>1 DEF LouvainInv
    <3>3. WeightsOK'
      BY <3>1, <3>2, WeightsKept
    <3>4. clusters' = {} /\ EveryMemberIsHeld'
      BY <3>1, <3>2 DEF EveryMemberIsHeld
    <3>5. /\ HeldTogether'
          /\ \/ (LevelOK /\ JoinedOK /\ AloneOK /\ LonelyOK /\ SteadyOK)'
             \/ phase' = "constrain"
      <4>1. CASE MoveNode
        <5>1. (LevelOK /\ LonelyOK /\ SteadyOK)'
          BY <2>1, <3>2, <4>1, MoveHolds
        <5>2. nodes' = nodes /\ adj' = adj /\ loops' = loops /\ membership' = membership
          BY <4>1 DEF MoveNode
        <5>3. JoinedOK'
          BY <3>1, <3>2, <5>2 DEF JoinedOK, Members
        <5>4. \A n : Alone(n)' <=> Alone(n)
          BY <3>1, <5>2 DEF Alone, Members
        <5>5. AloneOK' /\ HeldTogether'
          BY <3>1, <3>2, <5>2, <5>4 DEF AloneOK, HeldTogether, Joins, Members
        <5> QED
          BY <5>1, <5>3, <5>5
      <4>2. CASE SweepAgain
        BY <3>1, <3>2, <4>2 DEF SweepAgain, LevelOK, JoinedOK, AloneOK, LonelyOK, SteadyOK,
                                HeldTogether, Alone, Joins, Members
      <4>3. CASE Aggregate
        BY <2>1, <3>2, <4>3, AggregateHolds
      <4>4. CASE Converge
        BY <3>1, <3>2, <4>4 DEF Converge, HeldTogether, Alone, Joins, Members
      <4> QED
        BY <2>3, <4>1, <4>2, <4>3, <4>4
    <3> QED
      BY <3>1, <3>3, <3>4, <3>5 DEF LouvainInv
  <2>4. CASE Constrain
    <3>1. phase = "constrain" /\ phase' = "clustered"
      BY <2>4 DEF Constrain
    <3>2. EveryMemberIsHeld'
      BY <2>1, <2>4, <3>1, ConstrainHolds DEF LouvainInv
    <3> QED
      BY <3>1, <3>2 DEF LouvainInv
  <2> QED
    BY <1>1, <2>2, <2>3, <2>4 DEF Cluster
<1>2. CASE StageFeatures \/ StageGraph
  <2>1. /\ phase \in {"features", "graph"} /\ phase' \in {"graph", "weigh"} /\ clusters' = clusters
    BY <1>2 DEF StageFeatures, StageGraph
  <2> QED
    BY <2>1 DEF LouvainInv, EveryMemberIsHeld
<1>3. CASE Follow \/ Visit \/ Deepen \/ Record \/ StageAnalytics
  <2>1. /\ phase \in {"clustered", "walk", "recorded"}
        /\ phase' \in {"clustered", "walk", "recorded", "analysed"}
        /\ clusters' = clusters /\ edges' = edges
    BY <1>3 DEF Follow, Visit, Deepen, Record, WalkOver, StageAnalytics, clusterVars
  <2> QED
    BY <2>1 DEF LouvainInv, EveryMemberIsHeld
<1>4. CASE StageAttribute
  BY <1>4 DEF StageAttribute, ClearGraph, LouvainInv, EveryMemberIsHeld
<1>5. CASE StageDimensions \/ StagePortfolios
  <2>1. /\ phase \in {"attributed", "assessed"}
        /\ phase' \in {"assessed", "portfolio"}
        /\ clusters' = clusters
    BY <1>5 DEF StageDimensions, StagePortfolios
  <2> QED
    BY <2>1 DEF LouvainInv, EveryMemberIsHeld
<1>6. CASE StageRank
  <2>1. phase = "rank" /\ phase' = phase /\ clusters' = clusters
    BY <1>6 DEF StageRank, clusterVars
  <2> QED
    BY <2>1 DEF LouvainInv, EveryMemberIsHeld
<1> QED
  BY <1>1, <1>2, <1>3, <1>4, <1>5, <1>6 DEF Next, StageEpisodes

LEMMA LouvainKept == LouvainInv /\ UNCHANGED vars => LouvainInv'
<1> SUFFICES ASSUME LouvainInv, UNCHANGED clusterVars PROVE LouvainInv'
  BY DEF vars
<1>1. /\ tables' = tables /\ edges' = edges /\ phase' = phase /\ weights' = weights
      /\ nodes' = nodes /\ adj' = adj /\ loops' = loops /\ community' = community
      /\ membership' = membership /\ queue' = queue /\ moved' = moved /\ clusters' = clusters
  BY DEF clusterVars
<1>2. LevelOK /\ JoinedOK /\ LonelyOK => (LevelOK /\ JoinedOK /\ LonelyOK)'
  BY <1>1 DEF LevelOK, JoinedOK, LonelyOK, Members
<1>3. \A n : Alone(n)' <=> Alone(n)
  BY <1>1 DEF Alone, Members
<1>4. (AloneOK => AloneOK') /\ (HeldTogether => HeldTogether')
  BY <1>1, <1>3 DEF AloneOK, HeldTogether, Joins, Members
<1>5. SteadyOK => SteadyOK'
  BY <1>1, BestKept DEF SteadyOK
<1>6. WeightsOK => WeightsOK'
  BY <1>1, WeightsKept
<1>7. EveryMemberIsHeld => EveryMemberIsHeld'
  BY <1>1 DEF EveryMemberIsHeld
<1> QED
  BY <1>1, <1>2, <1>4, <1>5, <1>6, <1>7 DEF LouvainInv

\* Who is in an episode with others is held there by an edge of tier A or B that
\* no guard demoted, whatever is merged and whatever is split (clustering.py), as
\* long as every level ends with a sweep that moves nobody (_one_level's bound of
\* range(20) is not what ends it).
THEOREM NobodyIsAmongStrangers == Spec /\ LevelsEnd => []EveryMemberIsHeld
<1>1. StageInv /\ LouvainInv /\ [Next]_vars /\ [Aggregate => ~moved]_vars => LouvainInv'
  BY NextLouvainInv, LouvainKept
<1>2. LouvainInv => EveryMemberIsHeld
  BY DEF LouvainInv
<1> QED
  BY <1>1, <1>2, AlwaysStageInv, InitLouvainInv, PTL DEF Spec, LevelsEnd

-----------------------------------------------------------------------------
(***************************************************************************)
(* Modularity. The gain of a move is computed from the nodes of the level; *)
(* the partition whose modularity counts is that of the pull requests. The *)
(* two go together because what a level weighs is exact: the weight        *)
(* between two nodes is that of the pairs of pull requests between the     *)
(* blocks they stand for, and a node's degree is that of its block.        *)
(***************************************************************************)

\* Every pair counts for both of its ends.
LEMMA BothEnds ==
  ASSUME NEW S, IsFiniteSet(S), NEW E, IsFiniteSet(E), E \subseteq Pairs(S),
         NEW w, \A e \in E : w[e] \in Nat,
         NEW at, \A n \in S : at[n] = SumOver([e \in E |-> IF n \in e THEN w[e] ELSE 0], E)
  PROVE  SumOver(at, S) = 2 * SumOver(w, E)
<1> DEFINE part(n) == [e \in E |-> IF n \in e THEN w[e] ELSE 0]
           deg(D) == [n \in S |-> SumOver(part(n), D)]
<1>1. \A n : \A e \in E : part(n)[e] \in Nat /\ part(n)[e] \in Int
  OBVIOUS
<1>2. \A D \in SUBSET E : IsFiniteSet(D)
  BY FS_Subset
<1>3. \A e \in E : w[e] \in Int
  OBVIOUS
<1>4. \A D \in SUBSET E : SumOver(w, D) \in Int /\ SumOver(w, {}) = 0
  BY <1>2, <1>3, SumIsInt
<1>5. \A D \in SUBSET E : \A n \in S : deg(D)[n] \in Int
  <2> SUFFICES ASSUME NEW D \in SUBSET E, NEW n \in S PROVE SumOver(part(n), D) \in Int
    OBVIOUS
  <2>1. \A e \in D : part(n)[e] \in Int
    BY <1>1
  <2> HIDE DEF part
  <2> QED
    BY <1>2, <2>1, SumIsInt
<1>6. ASSUME NEW e \in E
      PROVE  SumOver([n \in S |-> part(n)[e]], S) = 2 * w[e]
  <2> DEFINE k == [n \in S |-> IF n \in e THEN w[e] ELSE 0]
  <2>1. PICK a \in e : TRUE
    <3>1. e # {}
      <4>1. Cardinality(e) = 2 /\ Cardinality({}) = 0
        BY FS_EmptySet DEF Pairs
      <4> QED
        BY <4>1
    <3> QED
      BY <3>1
  <2>2. PICK b \in S \ {a} : e = {a, b}
    BY <2>1, PairIs
  <2>3. a \in S /\ b \in S /\ e \in SUBSET S
    BY <2>2 DEF Pairs
  <2>4. \A n \in S : k[n] \in Nat
    OBVIOUS
  <2>5. k[a] = w[e] /\ k[b] = w[e] /\ \A n \in S \ e : k[n] = 0
    BY <2>2, <2>3
  <2> HIDE DEF k
  <2>6. SumOver(k, S) = SumOver(k, e)
    BY <2>3, <2>4, <2>5, SumOfSome
  <2>7. /\ IsFiniteSet(e) /\ IsFiniteSet(e \ {a})
        /\ (\A n \in e : k[n] \in Int) /\ (\A n \in e \ {a} : k[n] \in Int)
    BY <2>3, <2>4, FS_Subset
  <2>8. SumOver(k, e) = k[a] + SumOver(k, e \ {a})
    BY <2>1, <2>7, SumSplits
  <2>9. b \in e \ {a} /\ (e \ {a}) \ {b} = {}
    BY <2>2
  <2>10. SumOver(k, e \ {a}) = k[b] + SumOver(k, (e \ {a}) \ {b})
    BY <2>7, <2>9, SumSplits
  <2>11. SumOver(k, {}) = 0
    BY <2>7, SumIsInt
  <2>12. w[e] \in Nat
    OBVIOUS
  <2>13. SumOver(k, S) = w[e] + (w[e] + 0)
    BY <2>5, <2>6, <2>8, <2>9, <2>10, <2>11
  <2>14. k = [n \in S |-> part(n)[e]]
    BY DEF k
  <2> QED
    BY <2>12, <2>13, <2>14
<1> HIDE DEF part
<1> DEFINE F == {D \in SUBSET E : SumOver(deg(D), S) # 2 * SumOver(w, D)}
<1>7. F = {}
  <2> SUFFICES ASSUME F # {} PROVE FALSE
    OBVIOUS
  <2>1. F \subseteq SUBSET E
    OBVIOUS
  <2>2. \E D \in F : \A t \in F : t \subseteq D => t = D
    <3> HIDE DEF F
    <3> QED
      BY <2>1, LeastSubset
  <2>3. PICK D \in F : \A t \in F : t \subseteq D => t = D
    BY <2>2
  <2>4. D # {}
    <3>1. SumOver(deg({}), S) = 0
      <4>1. \A n \in S : deg({})[n] = 0
        BY <1>1, SumIsInt
      <4>2. \A n \in S : deg({})[n] \in Nat /\ ~(deg({})[n] > 0)
        BY <4>1
      <4>3. SumOver(deg({}), S) \in Nat /\ ~(SumOver(deg({}), S) > 0)
        <5> HIDE DEF deg
        <5> QED
          BY <4>2, SumIsNat, SumIsPositive
      <4> QED
        BY <4>3
    <3>2. SumOver(w, {}) = 0 /\ 2 * 0 = 0
      BY <1>4
    <3>3. {} \notin F
      BY <3>1, <3>2
    <3> QED
      BY <2>3, <3>3
  <2>5. PICK e \in D : TRUE
    BY <2>4
  <2> DEFINE C == D \ {e}
             k == [n \in S |-> part(n)[e]]
  <2>6. D \in SUBSET E /\ C \in SUBSET E /\ e \in E /\ C \subseteq D /\ C # D
    BY <2>3, <2>5
  <2>7. SumOver(deg(C), S) = 2 * SumOver(w, C)
    BY <2>3, <2>6
  <2>8. \A n \in S : deg(D)[n] = k[n] + deg(C)[n]
    <3> SUFFICES ASSUME NEW n \in S
                 PROVE  SumOver(part(n), D) = part(n)[e] + SumOver(part(n), C)
      OBVIOUS
    <3>1. IsFiniteSet(D) /\ \A d \in D : part(n)[d] \in Int
      BY <1>1, <1>2, <2>6
    <3> QED
      BY <2>5, <3>1, SumSplits
  <2>9. \A n \in S : k[n] \in Int /\ deg(C)[n] \in Int
    BY <1>1, <1>5, <2>6
  <2>10. SumOver(k, S) = 2 * w[e]
    BY <1>6, <2>6
  <2>11. SumOver(w, D) = w[e] + SumOver(w, C)
    <3>1. IsFiniteSet(D) /\ \A d \in D : w[d] \in Int
      BY <1>2, <1>3, <2>6
    <3> QED
      BY <2>5, <3>1, SumSplits
  <2>12. w[e] \in Int /\ SumOver(w, C) \in Int
    BY <1>3, <1>4, <2>6
  <2>13. SumOver(deg(D), S) # 2 * SumOver(w, D)
    BY <2>3
  <2> HIDE DEF C, k, deg, F
  <2>14. SumOver(deg(D), S) = SumOver(k, S) + SumOver(deg(C), S)
    BY <2>8, <2>9, SumOfSums
  <2> QED
    BY <2>7, <2>10, <2>11, <2>12, <2>13, <2>14
<1>8. SumOver(deg(E), S) = 2 * SumOver(w, E)
  BY <1>7
<1>9. SumOver(deg(E), S) = SumOver(at, S)
  <2>1. \A n \in S : deg(E)[n] \in Int /\ at[n] = deg(E)[n]
    BY <1>5 DEF part
  <2> HIDE DEF deg
  <2> QED
    BY <2>1, SameSum
<1> QED
  BY <1>8, <1>9

\* Where everybody's neighbours are mutual, all of it together is even.
LEMMA MutualIsEven ==
  ASSUME NEW S, IsFiniteSet(S), NEW f, \A x, y \in S : f[x][y] \in Int /\ f[x][y] = f[y][x],
         \A x \in S : f[x][x] = 0
  PROVE  \E z \in Int : SumOver([x \in S |-> SumOver(f[x], S)], S) = 2 * z
<1> DEFINE row(T) == [x \in S |-> SumOver(f[x], T)]
           F == {T \in SUBSET S : ~\E z \in Int : SumOver(row(T), T) = 2 * z}
<1>1. \A T \in SUBSET S : IsFiniteSet(T)
  BY FS_Subset
<1>2. ASSUME NEW T \in SUBSET S, NEW x \in S
      PROVE  row(T)[x] = SumOver(f[x], T) /\ row(T)[x] \in Int
  <2>1. \A y \in T : f[x][y] \in Int
    OBVIOUS
  <2> QED
    BY <1>1, <2>1, SumIsInt
<1>3. F = {}
  <2> SUFFICES ASSUME F # {} PROVE FALSE
    OBVIOUS
  <2>1. F \subseteq SUBSET S
    OBVIOUS
  <2>2. \E T \in F : \A t \in F : t \subseteq T => t = T
    <3> HIDE DEF F
    <3> QED
      BY <2>1, LeastSubset
  <2>3. PICK T \in F : \A t \in F : t \subseteq T => t = T
    BY <2>2
  <2> HIDE DEF row
  <2>4. T # {}
    <3>1. SumOver(row({}), {}) = 0
      <4>1. IsFiniteSet({}) /\ \A x \in {} : row({})[x] \in Int
        BY FS_EmptySet
      <4> QED
        BY <4>1, SumIsInt
    <3>2. 0 = 2 * 0 /\ 0 \in Int
      OBVIOUS
    <3>3. {} \notin F
      BY <3>1, <3>2
    <3> QED
      BY <2>3, <3>3
  <2>5. PICK a \in T : TRUE
    BY <2>4
  <2> DEFINE U == T \ {a}
  <2>6. T \in SUBSET S /\ U \in SUBSET S /\ a \in S /\ U \subseteq T /\ U # T
    BY <2>3, <2>5
  <2>7. PICK z \in Int : SumOver(row(U), U) = 2 * z
    BY <2>3, <2>6
  <2>8. ASSUME NEW x \in S PROVE row(T)[x] = f[x][a] + row(U)[x]
    <3>1. \A y \in T : f[x][y] \in Int
      BY <2>6
    <3>2. SumOver(f[x], T) = f[x][a] + SumOver(f[x], U)
      BY <1>1, <2>5, <2>6, <3>1, SumSplits
    <3> QED
      BY <1>2, <2>6, <3>2
  <2>9. SumOver(row(T), T) = row(T)[a] + SumOver(row(T), U)
    <3>1. \A x \in T : row(T)[x] \in Int
      BY <1>2, <2>6
    <3> QED
      BY <1>1, <2>5, <2>6, <3>1, SumSplits
  <2>10. row(T)[a] = 0 + row(U)[a]
    BY <2>6, <2>8
  <2> DEFINE k == [x \in S |-> f[x][a]]
  <2>11. SumOver(row(T), U) = SumOver(k, U) + SumOver(row(U), U)
    <3>1. \A x \in U : k[x] \in Int /\ row(U)[x] \in Int /\ row(T)[x] = k[x] + row(U)[x]
      BY <1>2, <2>6, <2>8
    <3> HIDE DEF k, U
    <3> QED
      BY <1>1, <2>6, <3>1, SumOfSums
  <2>12. SumOver(k, U) = row(U)[a]
    <3>1. \A x \in U : f[a][x] \in Int /\ k[x] = f[a][x]
      BY <2>6
    <3> HIDE DEF k, U
    <3>2. SumOver(f[a], U) = SumOver(k, U)
      BY <1>1, <2>6, <3>1, SameSum
    <3> QED
      BY <1>2, <2>6, <3>2
  <2> DEFINE r == row(U)[a]
  <2>13. r \in Int
    BY <1>2, <2>6
  <2>14. SumOver(row(T), T) = (0 + r) + (r + 2 * z)
    BY <2>7, <2>9, <2>10, <2>11, <2>12
  <2> HIDE DEF r
  <2>15. r + z \in Int /\ (0 + r) + (r + 2 * z) = 2 * (r + z)
    BY <2>13
  <2>16. ~\E q \in Int : SumOver(row(T), T) = 2 * q
    BY <2>3
  <2> QED
    BY <2>14, <2>15, <2>16
<1> QED
  BY <1>3

ToOther(w, E, a, b) == IF {a, b} \in E THEN w[{a, b}] ELSE 0

OfPair(w, a, e) == IF a \in e THEN w[e] ELSE 0

\* What joins a to each of the others is what joins it at all.
LEMMA RowOfPairs ==
  ASSUME NEW S, IsFiniteSet(S), NEW E, IsFiniteSet(E), E \subseteq Pairs(S),
         NEW w, \A e \in E : w[e] \in Nat, NEW a \in S,
         NEW row, \A b \in S : row[b] = ToOther(w, E, a, b),
         NEW at, \A e \in E : at[e] = OfPair(w, a, e)
  PROVE  SumOver(row, S) = SumOver(at, E)
<1> DEFINE I == S \ {a}
           X == [b \in I |-> {e \in E : e = {a, b}}]
           all == UNION {X[b] : b \in I}
<1>0. /\ \A b \in S : row[b] = IF {a, b} \in E THEN w[{a, b}] ELSE 0
      /\ \A e \in E : at[e] = IF a \in e THEN w[e] ELSE 0
  BY DEF ToOther, OfPair
<1>1. IsFiniteSet(I)
  BY FS_Subset
<1>2. \A b \in I : X[b] \in SUBSET E
  OBVIOUS
<1>3. \A b, c \in I : b = c \/ X[b] \intersect X[c] = {}
  OBVIOUS
<1>4. \A e \in E : w[e] \in Int
  OBVIOUS
<1>5. ASSUME NEW b \in I PROVE row[b] = SumOver(w, X[b])
  <2>0. row[b] = (IF {a, b} \in E THEN w[{a, b}] ELSE 0) /\ X[b] = {e \in E : e = {a, b}}
    BY <1>0
  <2> HIDE DEF X, I, all
  <2>1. CASE {a, b} \in E
    <3> DEFINE e == {a, b}
    <3>1. e \in E /\ row[b] = w[e] /\ X[b] = {d \in E : d = e}
      BY <2>0, <2>1
    <3> HIDE DEF e
    <3>2. X[b] = {e} /\ w[e] \in Int
      BY <1>4, <3>1
    <3>3. SumOver(w, {e}) = w[e]
      BY <3>2, SumOfOne
    <3> QED
      BY <3>1, <3>2, <3>3
  <2>2. CASE {a, b} \notin E
    <3>1. X[b] = {} /\ row[b] = 0
      BY <2>0, <2>2
    <3>2. SumOver(w, {}) = 0
      BY <1>4, SumIsInt
    <3> QED
      BY <3>1, <3>2
  <2> QED
    BY <2>1, <2>2
<1>6. all = {e \in E : a \in e}
  <2>1. ASSUME NEW e \in E, a \in e PROVE e \in all
    <3>1. PICK b \in S \ {a} : e = {a, b}
      BY <2>1, PairIs
    <3> QED
      BY <3>1
  <2> QED
    BY <2>1
<1>7. all \in SUBSET E
  BY <1>2
<1>8. SumOver(row, S) = SumOver(row, I)
  <2>1. {a, a} \notin E
    <3>1. Cardinality({a, a}) = 1
      <4>1. {a, a} = {a}
        OBVIOUS
      <4> QED
        BY <4>1, FS_Singleton
    <3>2. \A e \in E : Cardinality(e) = 2
      BY DEF Pairs
    <3> QED
      BY <3>1, <3>2
  <2>2. \A b \in S : row[b] \in Nat
    <3> SUFFICES ASSUME NEW b \in S PROVE row[b] \in Nat
      OBVIOUS
    <3>1. row[b] = IF {a, b} \in E THEN w[{a, b}] ELSE 0
      BY <1>0
    <3> HIDE DEF X, I, all
    <3>2. CASE {a, b} \in E
      BY <3>1, <3>2
    <3>3. CASE {a, b} \notin E
      BY <3>1, <3>3
    <3> QED
      BY <3>2, <3>3
  <2>3. row[a] = 0
    BY <1>0, <2>1
  <2> QED
    BY <2>2, <2>3, SumOfSome
<1>9. SumOver(at, E) = SumOver(at, all)
  <2>1. \A e \in E : at[e] \in Nat
    BY <1>0
  <2>2. \A e \in E \ all : at[e] = 0
    BY <1>0, <1>6
  <2> HIDE DEF all
  <2> QED
    BY <1>7, <2>1, <2>2, SumOfSome
<1>10. SumOver(at, all) = SumOver(w, all)
  <2>1. \A e \in all : at[e] \in Int /\ w[e] = at[e]
    BY <1>0, <1>6
  <2>2. IsFiniteSet(all)
    BY <1>7, FS_Subset
  <2> HIDE DEF all
  <2> QED
    BY <2>1, <2>2, SameSum
<1> HIDE DEF X, I
<1>11. SumOver(row, I) = SumOver(w, all)
  BY <1>1, <1>2, <1>3, <1>4, <1>5, SumOfFamily
<1> QED
  BY <1>8, <1>9, <1>10, <1>11

(* The pull requests that a node stands for, and the pairs between two nodes. *)
Block(c) == {n \in Members : membership[n] = c}

Crossing(c, d) == {e \in DOMAIN weights : \E x \in Block(c), y \in Block(d) : e = {x, y}}

WeighedOK == DOMAIN weights \subseteq Pairs(Members) /\ \A e \in DOMAIN weights : weights[e] \in Nat

ExactOK ==
  /\ \A c \in nodes : adj[c][c] = 0
  /\ \A c, d \in nodes : c # d => adj[c][d] = SumOver(weights, Crossing(c, d))
  /\ \A c \in nodes : Degrees[c] = SumOver(Weighted, Block(c))

\* There are finitely many pairs that weigh something, and each weighs an integer.
LEMMA PairsAreFinite ==
  ASSUME IsFiniteSet(Members), WeighedOK
  PROVE  /\ IsFiniteSet(DOMAIN weights)
         /\ \A E \in SUBSET DOMAIN weights : SumOver(weights, E) \in Nat /\ IsFiniteSet(E)
         /\ \A n \in Members : Weighted[n] \in Nat
         /\ \A S \in SUBSET Members : SumOver(Weighted, S) \in Nat /\ IsFiniteSet(S)
<1>1. IsFiniteSet(DOMAIN weights)
  <2>1. DOMAIN weights \subseteq SUBSET Members
    BY DEF WeighedOK, Pairs
  <2>2. IsFiniteSet(SUBSET Members)
    BY FS_SUBSET
  <2> QED
    BY <2>1, <2>2, FS_Subset
<1>2. ASSUME NEW E \in SUBSET DOMAIN weights PROVE SumOver(weights, E) \in Nat /\ IsFiniteSet(E)
  <2>1. IsFiniteSet(E) /\ \A e \in E : weights[e] \in Nat
    BY <1>1, FS_Subset DEF WeighedOK
  <2> QED
    BY <2>1, SumIsNat
<1>3. ASSUME NEW n \in Members PROVE Weighted[n] \in Nat
  <2> DEFINE f == [e \in DOMAIN weights |-> IF n \in e THEN weights[e] ELSE 0]
  <2>1. \A e \in DOMAIN weights : f[e] \in Nat
    BY DEF WeighedOK
  <2>2. Weighted[n] = Total(f, DOMAIN weights)
    BY DEF Weighted
  <2> HIDE DEF f
  <2>3. SumOver(f, DOMAIN weights) \in Nat
    BY <1>1, <2>1, SumIsNat
  <2> QED
    BY <2>2, <2>3, TotalIsSum
<1>4. ASSUME NEW S \in SUBSET Members PROVE SumOver(Weighted, S) \in Nat /\ IsFiniteSet(S)
  <2>1. IsFiniteSet(S) /\ \A n \in S : Weighted[n] \in Nat
    BY <1>3, FS_Subset
  <2> QED
    BY <2>1, SumIsNat
<1> QED
  BY <1>1, <1>2, <1>3, <1>4

\* All of the weight is twice that of the pairs, whatever the level.
LEMMA MassIsTwice ==
  ASSUME IsFiniteSet(Members), LevelOK, WeighedOK, ExactOK
  PROVE  Mass = 2 * SumOver(weights, DOMAIN weights)
<1> DEFINE X == [c \in nodes |-> Block(c)]
<1>1. IsFiniteSet(nodes)
  BY FS_Subset DEF LevelOK
<1>2. \A c \in nodes : X[c] \in SUBSET Members
  BY DEF Block
<1>3. \A c, d \in nodes : c = d \/ X[c] \intersect X[d] = {}
  BY DEF Block
<1>4. UNION {X[c] : c \in nodes} = Members
  BY DEF Block, LevelOK
<1>5. \A n \in Members : Weighted[n] \in Int
  BY PairsAreFinite
<1>6. \A c \in nodes : Degrees[c] = SumOver(Weighted, X[c])
  BY DEF ExactOK
<1> HIDE DEF X
<1>7. SumOver(Degrees, nodes) = SumOver(Weighted, Members)
  <2>1. SumOver(Degrees, nodes) = SumOver(Weighted, UNION {X[c] : c \in nodes})
    BY <1>1, <1>2, <1>3, <1>5, <1>6, SumOfFamily
  <2> QED
    BY <1>4, <2>1
<1>8. SumOver(Weighted, Members) = 2 * SumOver(weights, DOMAIN weights)
  <2>1. \A n \in Members : Weighted[n] =
          SumOver([e \in DOMAIN weights |-> IF n \in e THEN weights[e] ELSE 0], DOMAIN weights)
    BY TotalIsSum DEF Weighted
  <2>2. /\ DOMAIN weights \subseteq Pairs(Members) /\ IsFiniteSet(DOMAIN weights)
        /\ \A e \in DOMAIN weights : weights[e] \in Nat
    BY PairsAreFinite DEF WeighedOK
  <2> QED
    BY <2>1, <2>2, BothEnds
<1> QED
  BY <1>7, <1>8, TotalIsSum DEF Mass

\* A class weighs what its nodes are joined by.
LEMMA ClassWeighs ==
  ASSUME IsFiniteSet(Members), LevelOK, WeighedOK, ExactOK, NEW c
  PROVE  WeightOf(c) = SumOver(Degrees, Of(c))
<1> DEFINE X == [x \in Of(c) |-> Block(x)]
<1>0. Of(c) \in SUBSET nodes
  BY DEF Of
<1>1. IsFiniteSet(Of(c))
  BY <1>0, FS_Subset DEF LevelOK
<1>2. \A x \in Of(c) : X[x] \in SUBSET Members
  BY DEF Block
<1>3. \A x, y \in Of(c) : x = y \/ X[x] \intersect X[y] = {}
  BY DEF Block
<1>4. UNION {X[x] : x \in Of(c)} = {n \in Members : Class(n) = c}
  <2>1. ASSUME NEW n \in Members PROVE n \in UNION {X[x] : x \in Of(c)} <=> Class(n) = c
    <3>1. membership[n] \in nodes
      BY DEF LevelOK
    <3>2. \A x \in Of(c) : n \in X[x] <=> membership[n] = x
      BY DEF Block
    <3> HIDE DEF X
    <3> QED
      BY <3>1, <3>2 DEF Of, Class
  <2>2. UNION {X[x] : x \in Of(c)} \subseteq Members
    BY <1>2
  <2> QED
    BY <2>1, <2>2
<1>5. \A n \in Members : Weighted[n] \in Int
  BY PairsAreFinite
<1>6. \A x \in Of(c) : Degrees[x] = SumOver(Weighted, X[x])
  BY <1>0 DEF ExactOK
<1> HIDE DEF X
<1>7. SumOver(Degrees, Of(c)) = SumOver(Weighted, UNION {X[x] : x \in Of(c)})
  BY <1>1, <1>2, <1>3, <1>5, <1>6, SumOfFamily
<1> QED
  BY <1>4, <1>7, TotalIsSum DEF WeightOf

\* The weight between a node and some others is that of the pairs between them.
LEMMA CrossingsAdd ==
  ASSUME IsFiniteSet(Members), LevelOK, WeighedOK, ExactOK,
         NEW x \in nodes, NEW Q \in SUBSET (nodes \ {x})
  PROVE  SumOver(adj[x], Q) = SumOver(weights, UNION {Crossing(x, y) : y \in Q})
<1> DEFINE X == [y \in Q |-> Crossing(x, y)]
<1>1. IsFiniteSet(Q)
  BY FS_Subset DEF LevelOK
<1>2. \A y \in Q : X[y] \in SUBSET DOMAIN weights
  BY DEF Crossing
<1>3. ASSUME NEW y \in Q, NEW z \in Q, NEW e \in X[y], e \in X[z] PROVE y = z
  <2>1. PICK a \in Block(x), b \in Block(y) : e = {a, b}
    BY <1>3 DEF Crossing
  <2>2. PICK a1 \in Block(x), b1 \in Block(z) : e = {a1, b1}
    BY <1>3 DEF Crossing
  <2>3. membership[a] = x /\ membership[a1] = x /\ membership[b] = y /\ membership[b1] = z
    BY <2>1, <2>2 DEF Block
  <2>4. b = b1 \/ b = a1
    BY <2>1, <2>2
  <2> QED
    BY <2>3, <2>4
<1>4. \A y, z \in Q : y = z \/ X[y] \intersect X[z] = {}
  BY <1>3
<1>5. \A e \in DOMAIN weights : weights[e] \in Int
  BY DEF WeighedOK
<1>6. \A y \in Q : adj[x][y] = SumOver(weights, X[y])
  BY DEF ExactOK
<1>7. IsFiniteSet(DOMAIN weights)
  BY PairsAreFinite
<1>8. UNION {X[y] : y \in Q} = UNION {Crossing(x, y) : y \in Q}
  OBVIOUS
<1> HIDE DEF X
<1>9. SumOver(adj[x], Q) = SumOver(weights, UNION {X[y] : y \in Q})
  BY <1>1, <1>2, <1>4, <1>5, <1>6, <1>7, SumOfFamily
<1> QED
  BY <1>8, <1>9

\* The first level is exact: each community is one pull request.
LEMMA WeighExact ==
  ASSUME Shaped(tables), edges = GraphOf(tables), Weigh
  PROVE  (WeighedOK /\ ExactOK)'
<1> DEFINE joined == {p \in Pairs(Members) : MayJoin(p)}
<1>1. /\ weights' = [p \in joined |-> Combine(Usable(p))]
      /\ nodes' = Members /\ membership' = [n \in Members |-> n]
      /\ loops' = [a \in Members |-> 0]
      /\ adj' = [a \in Members |-> [b \in Members |->
                   IF {a, b} \in DOMAIN weights' THEN weights'[{a, b}] ELSE 0]]
      /\ tables' = tables
  BY DEF Weigh, PairWeights, StartLevel
<1>2. \A p \in joined : weights'[p] \in Nat
  BY <1>1, WeightIsPositive
<1>3. DOMAIN weights' = joined /\ Members' = Members /\ joined \subseteq Pairs(Members)
  BY <1>1 DEF Members
<1> HIDE DEF joined
<1>4. IsFiniteSet(Members) /\ IsFiniteSet(joined)
  <2>1. IsFiniteSet(Members)
    BY NumbersAssumption, FS_Subset DEF Shaped, Members
  <2>2. joined \subseteq SUBSET Members /\ IsFiniteSet(SUBSET Members)
    BY <1>3, <2>1, FS_SUBSET DEF Pairs
  <2> QED
    BY <2>1, <2>2, FS_Subset
<1>5. WeighedOK'
  BY <1>2, <1>3 DEF WeighedOK
<1>6. \A a \in Members : Block(a)' = {a}
  BY <1>1, <1>3 DEF Block
<1>7. ASSUME NEW a \in Members
      PROVE  \A b \in Members : adj'[a][b] = IF {a, b} \in joined THEN weights'[{a, b}] ELSE 0
  BY <1>1, <1>3
<1>8. ASSUME NEW a \in Members PROVE adj'[a][a] = 0
  <2>1. {a, a} \notin joined
    <3>1. {a, a} = {a} /\ Cardinality({a}) = 1
      BY FS_Singleton
    <3>2. \A p \in joined : Cardinality(p) = 2
      BY <1>3 DEF Pairs
    <3> QED
      BY <3>1, <3>2
  <2> QED
    BY <1>7, <2>1
<1>9. ASSUME NEW a \in Members, NEW b \in Members, a # b
      PROVE  adj'[a][b] = SumOver(weights', Crossing(a, b)')
  <2> DEFINE e == {a, b}
  <2>1. Crossing(a, b)' = {d \in joined : d = e}
    BY <1>3, <1>6 DEF Crossing
  <2>2. adj'[a][b] = IF e \in joined THEN weights'[e] ELSE 0
    BY <1>7
  <2> HIDE DEF e
  <2>3. \A d \in joined : weights'[d] \in Int
    BY <1>2
  <2>4. SumOver(weights', {}) = 0
    BY <1>4, <2>3, SumIsInt
  <2>5. CASE e \in joined
    <3>1. Crossing(a, b)' = {e} /\ weights'[e] \in Int
      BY <2>1, <2>3, <2>5
    <3>2. SumOver(weights', {e}) = weights'[e]
      BY <3>1, SumOfOne
    <3> QED
      BY <2>2, <2>5, <3>1, <3>2
  <2>6. CASE e \notin joined
    <3>1. Crossing(a, b)' = {}
      BY <2>1, <2>6
    <3> QED
      BY <2>2, <2>4, <2>6, <3>1
  <2> QED
    BY <2>5, <2>6
<1>10. ASSUME NEW a \in Members PROVE Degrees'[a] = SumOver(Weighted', Block(a)')
  <2>1. Degrees'[a] = Total(adj'[a], Members) + 2 * 0
    BY <1>1 DEF Degrees
  <2> DEFINE at == [e \in joined |-> IF a \in e THEN weights'[e] ELSE 0]
  <2>2. Weighted'[a] = Total(at, joined)
    BY <1>3 DEF Weighted
  <2>3. SumOver(adj'[a], Members) = SumOver(at, joined)
    <3> DEFINE row == adj'[a]
               w == weights'
    <3>1. \A b \in Members : row[b] = ToOther(w, joined, a, b)
      BY <1>7 DEF ToOther
    <3>2. \A e \in joined : w[e] \in Nat
      BY <1>2
    <3>3. \A e \in joined : at[e] = OfPair(w, a, e)
      BY DEF OfPair
    <3> HIDE DEF row, w, at
    <3>4. SumOver(row, Members) = SumOver(at, joined)
      BY <1>3, <1>4, <3>1, <3>2, <3>3, RowOfPairs
    <3> QED
      BY <3>4 DEF row
  <2>4. SumOver(at, joined) \in Nat
    <3>1. \A e \in joined : at[e] \in Nat
      BY <1>2
    <3> HIDE DEF at
    <3> QED
      BY <1>4, <3>1, SumIsNat
  <2> HIDE DEF at
  <2> DEFINE x == SumOver(at, joined)
  <2>5. Degrees'[a] = x + 2 * 0 /\ Weighted'[a] = x /\ x \in Nat
    BY <2>1, <2>2, <2>3, <2>4, TotalIsSum
  <2> HIDE DEF x
  <2>6. Degrees'[a] = Weighted'[a] /\ Weighted'[a] \in Int
    BY <2>5
  <2>7. SumOver(Weighted', {a}) = Weighted'[a]
    BY <2>6, SumOfOne
  <2> QED
    BY <1>6, <2>6, <2>7
<1> QED
  BY <1>1, <1>3, <1>5, <1>8, <1>9, <1>10 DEF ExactOK

\* The weight between two communities is that of the pairs between them.
LEMMA JointIsExact ==
  ASSUME IsFiniteSet(Members), LevelOK, WeighedOK, ExactOK, NEW c, NEW d, c # d
  PROVE  Joint(c, d) = SumOver(weights, UNION {UNION {Crossing(x, y) : y \in Of(d)} : x \in Of(c)})
<1> DEFINE f == [n \in nodes |-> Total(adj[n], Of(d))]
           X == [x \in Of(c) |-> UNION {Crossing(x, y) : y \in Of(d)}]
<1>1. Of(c) \in SUBSET nodes /\ Of(d) \in SUBSET nodes
  BY DEF Of
<1>2. IsFiniteSet(Of(c)) /\ IsFiniteSet(DOMAIN weights)
  BY <1>1, FS_Subset, PairsAreFinite DEF LevelOK
<1>3. \A e \in DOMAIN weights : weights[e] \in Int
  BY DEF WeighedOK
<1>4. \A x \in Of(c) : X[x] \in SUBSET DOMAIN weights
  BY DEF Crossing
<1>5. ASSUME NEW x \in Of(c), NEW y \in Of(c), NEW e \in X[x], e \in X[y] PROVE x = y
  <2>1. PICK z \in Of(d) : e \in Crossing(x, z)
    BY <1>5
  <2>2. PICK z1 \in Of(d) : e \in Crossing(y, z1)
    BY <1>5
  <2>3. PICK a \in Block(x), b \in Block(z) : e = {a, b}
    BY <2>1 DEF Crossing
  <2>4. PICK a1 \in Block(y), b1 \in Block(z1) : e = {a1, b1}
    BY <2>2 DEF Crossing
  <2>5. membership[a] = x /\ membership[a1] = y /\ membership[b1] = z1
    BY <2>3, <2>4 DEF Block
  <2>6. a = a1 \/ a = b1
    BY <2>3, <2>4
  <2>7. x # z1
    BY DEF Of
  <2> QED
    BY <2>5, <2>6, <2>7
<1>6. \A x, y \in Of(c) : x = y \/ X[x] \intersect X[y] = {}
  BY <1>5
<1>7. ASSUME NEW x \in Of(c) PROVE f[x] = SumOver(weights, X[x])
  <2>1. x \in nodes /\ Of(d) \in SUBSET (nodes \ {x})
    BY DEF Of
  <2>2. SumOver(adj[x], Of(d)) = SumOver(weights, UNION {Crossing(x, y) : y \in Of(d)})
    BY <2>1, CrossingsAdd
  <2>3. f[x] = Total(adj[x], Of(d)) /\ X[x] = UNION {Crossing(x, y) : y \in Of(d)}
    BY <2>1
  <2> QED
    BY <2>2, <2>3, TotalIsSum
<1>8. UNION {X[x] : x \in Of(c)} = UNION {UNION {Crossing(x, y) : y \in Of(d)} : x \in Of(c)}
  OBVIOUS
<1>9. Joint(c, d) = SumOver(f, Of(c))
  BY TotalIsSum DEF Joint
<1> HIDE DEF f, X
<1>10. SumOver(f, Of(c)) = SumOver(weights, UNION {X[x] : x \in Of(c)})
  BY <1>2, <1>3, <1>4, <1>6, <1>7, SumOfFamily
<1> QED
  BY <1>8, <1>9, <1>10

\* The weight inside a community is counted from both ends, so that halving it is exact.
LEMMA JointIsEven ==
  ASSUME IsFiniteSet(nodes), LevelOK, ExactOK, NEW c
  PROVE  \E z \in Int : Joint(c, c) = 2 * z
<1> DEFINE f == [n \in nodes |-> Total(adj[n], Of(c))]
           g == [n \in Of(c) |-> SumOver(adj[n], Of(c))]
<1>1. Of(c) \in SUBSET nodes /\ IsFiniteSet(Of(c))
  BY FS_Subset DEF Of
<1>2. \A x, y \in nodes : Crossing(x, y) = Crossing(y, x)
  <2>1. \A x, y : {x, y} = {y, x}
    OBVIOUS
  <2> QED
    BY <2>1 DEF Crossing
<1>3. \A x, y \in Of(c) : adj[x][y] \in Int /\ adj[x][y] = adj[y][x]
  BY <1>1, <1>2 DEF ExactOK, LevelOK
<1>4. \A x \in Of(c) : adj[x][x] = 0
  BY <1>1 DEF ExactOK
<1>5. \E z \in Int : SumOver(g, Of(c)) = 2 * z
  BY <1>1, <1>3, <1>4, MutualIsEven
<1>6. ASSUME NEW n \in Of(c) PROVE f[n] \in Int /\ g[n] = f[n]
  <2>1. n \in nodes /\ f[n] = Total(adj[n], Of(c)) /\ g[n] = SumOver(adj[n], Of(c))
    BY <1>1
  <2>2. Total(adj[n], Of(c)) \in Nat
    BY <1>1, <2>1, LevelSums
  <2> QED
    BY <2>1, <2>2, TotalIsSum
<1>7. Joint(c, c) = SumOver(f, Of(c))
  BY TotalIsSum DEF Joint
<1> HIDE DEF f, g
<1>8. SumOver(f, Of(c)) = SumOver(g, Of(c))
  BY <1>1, <1>6, SameSum
<1> QED
  BY <1>5, <1>7, <1>8

\* What the nodes of a community are joined to all others by, community by community.
LEMMA JointsAdd ==
  ASSUME IsFiniteSet(nodes), LevelOK, NEW k
  PROVE  SumOver([d \in Names |-> Joint(k, d)], Names)
           = SumOver([x \in nodes |-> Total(adj[x], nodes)], Of(k))
<1> DEFINE g == [d \in Names |-> Joint(k, d)]
           h == [x \in nodes |-> Total(adj[x], nodes)]
           m == [d \in Names |-> [x \in nodes |-> Total(adj[x], Of(d))]]
<1>1. Names \in SUBSET nodes /\ IsFiniteSet(Names)
  BY FS_Subset DEF Names, LevelOK
<1>2. IsFiniteSet(Of(k)) /\ \A d : Of(d) \in SUBSET nodes
  BY FS_Subset DEF Of
<1>3. \A d \in Names : \A x \in Of(k) : m[d][x] = Total(adj[x], Of(d)) /\ m[d][x] \in Int
  BY <1>2, LevelSums
<1>4. \A d \in Names : g[d] = SumOver(m[d], Of(k))
  BY TotalIsSum DEF Joint
<1>5. ASSUME NEW x \in Of(k) PROVE h[x] = SumOver(Column(m, Names, x), Names)
  <2> DEFINE q == [d \in Names |-> m[d][x]]
             X == [d \in Names |-> Of(d)]
  <2>0. x \in nodes /\ h[x] = Total(adj[x], nodes)
    BY <1>2
  <2>1. \A d \in Names : X[d] \in SUBSET nodes
    BY <1>2
  <2>2. \A c, d \in Names : c = d \/ X[c] \intersect X[d] = {}
    BY DEF Of
  <2>3. UNION {X[d] : d \in Names} = nodes
    <3>1. \A y \in nodes : y \in X[community[y]] /\ community[y] \in Names
      BY DEF Of, Names
    <3> HIDE DEF X
    <3> QED
      BY <2>1, <3>1
  <2>4. \A y \in nodes : adj[x][y] \in Int
    BY <2>0 DEF LevelOK
  <2>5. \A d \in Names : q[d] = SumOver(adj[x], X[d])
    BY <1>3, TotalIsSum
  <2> HIDE DEF q, X
  <2>6. SumOver(q, Names) = SumOver(adj[x], UNION {X[d] : d \in Names})
    BY <1>1, <2>1, <2>2, <2>4, <2>5, SumOfFamily
  <2>7. SumOver(q, Names) = h[x]
    BY <2>0, <2>3, <2>6, TotalIsSum
  <2> QED
    BY <2>7 DEF q, Column
<1> HIDE DEF g, h, m
<1>6. SumOver(g, Names) = SumOver(h, Of(k))
  BY <1>1, <1>2, <1>3, <1>4, <1>5, SumSwap
<1> QED
  BY <1>6 DEF g, h

\* A node of the next level is joined by as much as those it is made of.
LEMMA DegreesAdd ==
  ASSUME Shaped(tables), Aggregate, LevelOK, ExactOK, NEW k \in Names
  PROVE  Degrees'[k] = SumOver(Degrees, Of(k))
<1> DEFINE J == [d \in Names |-> Joint(k, d)]
           r == [x \in nodes |-> Total(adj[x], nodes)]
           twice == [x \in nodes |-> 2 * loops[x]]
           rest == Names \ {k}
<1>1. IsFiniteSet(nodes)
  BY NumbersAssumption, FS_Subset DEF Shaped, Members, LevelOK
<1>2. /\ nodes' = Names /\ Names \in SUBSET nodes
      /\ adj' = [c \in Names |-> [d \in Names |-> IF c = d THEN 0 ELSE Joint(c, d)]]
      /\ loops' = [c \in Names |-> Total(loops, Of(c)) + Joint(c, c) \div 2]
  BY AggregateIs
<1>3. IsFiniteSet(Names) /\ IsFiniteSet(rest) /\ Of(k) \in SUBSET nodes /\ IsFiniteSet(Of(k))
  BY <1>1, <1>2, FS_Subset DEF Of
<1>4. \A d \in Names : J[d] \in Nat /\ J[d] \in Int
  BY <1>1, WeightBetween
<1>5. /\ adj'[k][k] = 0 /\ \A d \in rest : adj'[k][d] = J[d]
      /\ \A d \in Names : adj'[k][d] \in Int
  BY <1>2, <1>4
<1> DEFINE row == adj'[k]
<1>6. SumOver(row, Names) = 0 + SumOver(row, rest)
  <2>1. \A d \in Names : row[d] \in Int
    BY <1>5
  <2>2. row[k] = 0
    BY <1>5
  <2> HIDE DEF row
  <2> QED
    BY <1>3, <2>1, <2>2, SumSplits
<1>7. SumOver(row, rest) = SumOver(J, rest)
  <2>1. \A d \in rest : row[d] \in Int /\ J[d] = row[d]
    BY <1>5
  <2> HIDE DEF row, J, rest
  <2> QED
    BY <1>3, <2>1, SameSum
<1>8. SumOver(J, Names) = J[k] + SumOver(J, rest)
  <2> HIDE DEF J
  <2> QED
    BY <1>3, <1>4, SumSplits
<1>9. SumOver(J, Names) = SumOver(r, Of(k))
  BY <1>1, JointsAdd
<1>10. PICK z \in Int : J[k] = 2 * z
  BY <1>1, JointIsEven
<1>11. ASSUME NEW x \in Of(k)
       PROVE  /\ r[x] \in Int /\ twice[x] \in Int /\ loops[x] \in Int
              /\ Degrees[x] = r[x] + twice[x] /\ twice[x] = loops[x] + loops[x]
  <2>1. x \in nodes /\ loops[x] \in Nat /\ Total(adj[x], nodes) \in Nat
    BY <1>1, <1>3, LevelSums DEF LevelOK
  <2>2. r[x] = Total(adj[x], nodes) /\ twice[x] = 2 * loops[x]
        /\ Degrees[x] = Total(adj[x], nodes) + 2 * loops[x]
    BY <2>1 DEF Degrees
  <2> HIDE DEF r, twice
  <2> QED
    BY <2>1, <2>2
<1> HIDE DEF r, twice
<1>12. SumOver(Degrees, Of(k)) = SumOver(r, Of(k)) + SumOver(twice, Of(k))
  BY <1>3, <1>11, SumOfSums
<1>13. SumOver(twice, Of(k)) = SumOver(loops, Of(k)) + SumOver(loops, Of(k))
  BY <1>3, <1>11, SumOfSums
<1>14. Degrees'[k] = SumOver(row, Names) + 2 * (SumOver(loops, Of(k)) + J[k] \div 2)
  <2>1. Degrees'[k] = Total(row, Names) + 2 * loops'[k]
    BY <1>2 DEF Degrees
  <2>2. loops'[k] = Total(loops, Of(k)) + J[k] \div 2
    BY <1>2
  <2> QED
    BY <2>1, <2>2, TotalIsSum
<1> DEFINE L == SumOver(loops, Of(k))
           R == SumOver(J, rest)
           D == SumOver(Degrees, Of(k))
<1>15. L \in Int /\ R \in Int
  <2>1. \A x \in Of(k) : loops[x] \in Int
    BY <1>11
  <2>2. \A d \in rest : J[d] \in Int
    BY <1>4
  <2> HIDE DEF J, rest
  <2> QED
    BY <1>3, <2>1, <2>2, SumIsInt
<1>16. /\ Degrees'[k] = (0 + R) + 2 * (L + (2 * z) \div 2)
       /\ D = (2 * z + R) + (L + L)
  BY <1>6, <1>7, <1>8, <1>9, <1>10, <1>12, <1>13, <1>14
<1> HIDE DEF L, R, D
<1>17. (2 * z) \div 2 = z
  BY <1>10
<1>18. Degrees'[k] = D
  BY <1>10, <1>15, <1>16, <1>17
<1> QED
  BY <1>18 DEF D

LEMMA AggregateExact ==
  ASSUME Shaped(tables), Aggregate, LevelOK, WeighedOK, ExactOK
  PROVE  (WeighedOK /\ ExactOK)'
<1>1. /\ nodes' = Names /\ weights' = weights /\ Names \in SUBSET nodes
      /\ adj' = [c \in Names |-> [d \in Names |-> IF c = d THEN 0 ELSE Joint(c, d)]]
      /\ membership' = [n \in Members |-> community[membership[n]]]
      /\ tables' = tables
  BY AggregateIs
<1>2. IsFiniteSet(Members) /\ Members' = Members
  BY <1>1, NumbersAssumption, FS_Subset DEF Shaped, Members
<1>3. WeighedOK'
  BY <1>1, <1>2 DEF WeighedOK
<1>4. Weighted' = Weighted
  BY <1>1, <1>2 DEF Weighted
<1>5. \A c : Block(c)' = {n \in Members : Class(n) = c}
  BY <1>1, <1>2 DEF Block, Class
<1>6. ASSUME NEW c \in Names PROVE Degrees'[c] = SumOver(Weighted', Block(c)')
  <2>1. Degrees'[c] = WeightOf(c)
    BY <1>2, DegreesAdd, ClassWeighs
  <2> QED
    BY <1>4, <1>5, <2>1, TotalIsSum DEF WeightOf
<1>7. ASSUME NEW c \in Names, NEW d \in Names, c # d
      PROVE  adj'[c][d] = SumOver(weights', Crossing(c, d)')
  <2>1. adj'[c][d] = Joint(c, d)
    BY <1>1, <1>7
  <2> DEFINE all == UNION {UNION {Crossing(x, y) : y \in Of(d)} : x \in Of(c)}
  <2>2. Joint(c, d) = SumOver(weights, all)
    BY <1>2, <1>7, JointIsExact
  <2>3. \A n \in Members : \A k : n \in Block(k)' <=> \E x \in Of(k) : n \in Block(x)
    <3> SUFFICES ASSUME NEW n \in Members, NEW k
                 PROVE  n \in Block(k)' <=> \E x \in Of(k) : n \in Block(x)
      OBVIOUS
    <3>1. membership[n] \in nodes
      BY DEF LevelOK
    <3>2. n \in Block(k)' <=> community[membership[n]] = k
      BY <1>5 DEF Class
    <3> QED
      BY <3>1, <3>2 DEF Of, Block
  <2>4. ASSUME NEW e PROVE e \in Crossing(c, d)' <=> e \in all
    <3>1. e \in Crossing(c, d)' <=>
            /\ e \in DOMAIN weights
            /\ \E a \in Members, b \in Members : a \in Block(c)' /\ b \in Block(d)' /\ e = {a, b}
      BY <1>1, <1>5 DEF Crossing
    <3>2. e \in all <=> \E x \in Of(c), y \in Of(d) : e \in Crossing(x, y)
      OBVIOUS
    <3> HIDE DEF all
    <3>3. \A x, y : e \in Crossing(x, y) <=>
            /\ e \in DOMAIN weights
            /\ \E a \in Members, b \in Members : a \in Block(x) /\ b \in Block(y) /\ e = {a, b}
      BY DEF Crossing, Block
    <3> QED
      BY <2>3, <3>1, <3>2, <3>3
  <2>5. Crossing(c, d)' = all
    BY <2>4
  <2> QED
    BY <1>1, <2>1, <2>2, <2>5
<1>8. \A c \in Names : adj'[c][c] = 0
  BY <1>1
<1>9. ExactOK'
  BY <1>1, <1>6, <1>7, <1>8 DEF ExactOK
<1> QED
  BY <1>3, <1>9

\* Nobody changes company when the level changes.
LEMMA AggregateKeepsQuality ==
  ASSUME Shaped(tables), Aggregate, LevelOK, WeighedOK
  PROVE  Quality' = Quality
<1>1. /\ weights' = weights /\ community' = [c \in Names |-> c]
      /\ membership' = [n \in Members |-> community[membership[n]]]
      /\ tables' = tables
  BY AggregateIs
<1>2. Members' = Members
  BY <1>1 DEF Members
<1>3. \A n \in Members : Class(n)' = Class(n)
  <2>1. \A n \in Members : membership[n] \in nodes /\ community[membership[n]] \in Names
    BY DEF LevelOK, Names
  <2> QED
    BY <1>1, <2>1 DEF Class
<1>4. Weighted' = Weighted
  BY <1>1, <1>2 DEF Weighted
<1>5. ASSUME NEW c PROVE WeightOf(c)' = WeightOf(c)
  <2>1. {n \in Members' : Class(n)' = c} = {n \in Members : Class(n) = c}
    BY <1>2, <1>3
  <2> QED
    BY <1>4, <2>1 DEF WeightOf
<1>6. Inside' = Inside
  <2>1. \A e \in DOMAIN weights : e \subseteq Members
    BY DEF WeighedOK, Pairs
  <2> QED
    BY <1>1, <1>3, <2>1 DEF Inside
<1> DEFINE classes == {Class(n) : n \in Members}
           squares == [c \in classes |-> WeightOf(c) * WeightOf(c)]
<1>7. classes' = classes
  BY <1>2, <1>3
<1> HIDE DEF classes
<1>8. squares' = squares
  BY <1>5, <1>7
<1> HIDE DEF squares
<1>9. /\ Quality = 2 * Total(weights, Inside) * (2 * Total(weights, DOMAIN weights))
                     - Total(squares, classes)
      /\ Quality' = 2 * Total(weights', Inside') * (2 * Total(weights', DOMAIN weights'))
                     - Total(squares', classes')
  BY DEF Quality, squares, classes
<1> QED
  BY <1>1, <1>6, <1>7, <1>8, <1>9

Square(c) == SumOver(Degrees, Of(c)) * SumOver(Degrees, Of(c))

Squares == [c \in nodes |-> Square(c)]

\* The quality of the partition, read from the level at hand.
LEMMA QualityOfLevel ==
  ASSUME IsFiniteSet(Members), LevelOK, WeighedOK, ExactOK
  PROVE  Quality = 2 * SumOver(weights, Inside) * Mass - SumOver(Squares, nodes)
<1> DEFINE classes == {Class(n) : n \in Members}
           squares == [c \in classes |-> WeightOf(c) * WeightOf(c)]
<1>1. IsFiniteSet(nodes)
  BY FS_Subset DEF LevelOK
<1>2. \A c : WeightOf(c) = SumOver(Degrees, Of(c))
  BY ClassWeighs
<1>3. \A c : SumOver(Degrees, Of(c)) \in Nat
  <2> SUFFICES ASSUME NEW c PROVE SumOver(Degrees, Of(c)) \in Nat
    OBVIOUS
  <2>1. Of(c) \in SUBSET nodes
    BY DEF Of
  <2>2. Total(Degrees, Of(c)) \in Nat
    BY <1>1, <2>1, LevelSums
  <2> QED
    BY <2>2, TotalIsSum
<1>4. \A c : Square(c) \in Nat
  BY <1>3 DEF Square
<1>5. classes \in SUBSET nodes
  BY DEF Class, LevelOK
<1>6. ASSUME NEW c \in nodes \ classes PROVE Square(c) = 0
  <2>1. {n \in Members : Class(n) = c} = {}
    BY <1>6
  <2>2. SumOver(Weighted, {}) = 0
    <3>1. \A n \in {} : Weighted[n] \in Int
      OBVIOUS
    <3> QED
      BY <3>1, SumIsInt, FS_EmptySet
  <2>3. WeightOf(c) = 0
    BY <2>1, <2>2, TotalIsSum DEF WeightOf
  <2> QED
    BY <1>2, <2>3 DEF Square
<1> HIDE DEF classes
<1>7. SumOver(Squares, nodes) = SumOver(Squares, classes)
  <2>1. (\A c \in nodes : Squares[c] \in Nat) /\ \A c \in nodes \ classes : Squares[c] = 0
    BY <1>4, <1>6 DEF Squares
  <2> QED
    BY <1>1, <1>5, <2>1, SumOfSome
<1>8. SumOver(Squares, classes) = SumOver(squares, classes)
  <2>1. \A c \in classes : Squares[c] \in Int /\ squares[c] = Squares[c]
    BY <1>2, <1>4, <1>5 DEF Square, Squares
  <2>2. IsFiniteSet(classes)
    BY <1>1, <1>5, FS_Subset
  <2> HIDE DEF squares
  <2> QED
    BY <2>1, <2>2, SameSum
<1> HIDE DEF squares
<1>9. Quality = 2 * Total(weights, Inside) * (2 * Total(weights, DOMAIN weights))
                  - Total(squares, classes)
  BY DEF Quality, squares, classes
<1>10. 2 * SumOver(weights, DOMAIN weights) = Mass
  BY MassIsTwice
<1> QED
  BY <1>7, <1>8, <1>9, <1>10, TotalIsSum

LEMMA QualityOfNextLevel ==
  (IsFiniteSet(Members) /\ LevelOK /\ WeighedOK /\ ExactOK
     => Quality = 2 * SumOver(weights, Inside) * Mass - SumOver(Squares, nodes))'
<1>1. IsFiniteSet(Members) /\ LevelOK /\ WeighedOK /\ ExactOK
        => Quality = 2 * SumOver(weights, Inside) * Mass - SumOver(Squares, nodes)
  BY QualityOfLevel
<1> QED
  BY <1>1, PTL

\* The pairs between a node and the others of a community.
Ties(n, c) == UNION {Crossing(n, y) : y \in OthersIn(n, c)}

\* With the neighbours that n leaves go the pairs within, with those it joins they come.
LEMMA InsideMoves ==
  ASSUME IsFiniteSet(Members), LevelOK, WeighedOK, NEW n \in nodes, NEW b \in nodes,
         b # community[n],
         community' = [community EXCEPT ![n] = b],
         membership' = membership, weights' = weights, tables' = tables
  PROVE  /\ Ties(n, community[n]) \subseteq Inside
         /\ Ties(n, b) \intersect Inside = {}
         /\ Inside' = (Inside \ Ties(n, community[n])) \union Ties(n, b)
         /\ Inside \subseteq DOMAIN weights
<1> DEFINE from == Ties(n, community[n])
           to == Ties(n, b)
<1>1. \A m \in Members : /\ membership[m] \in nodes
                         /\ Class(m)' = IF membership[m] = n THEN b ELSE Class(m)
                         /\ membership[m] = n => Class(m) = community[n]
  BY DEF Class, LevelOK
<1>2. ASSUME NEW e \in DOMAIN weights
      PROVE  /\ e \in from => e \in Inside
             /\ e \in to => e \notin Inside
             /\ e \in Inside' <=> (e \in Inside /\ e \notin from) \/ e \in to
  <2>1. e \in Pairs(Members)
    BY DEF WeighedOK
  <2>2. PICK u \in e : TRUE
    <3>1. e # {}
      <4>1. Cardinality(e) = 2 /\ Cardinality({}) = 0
        BY <2>1, FS_EmptySet DEF Pairs
      <4> QED
        BY <4>1
    <3> QED
      BY <3>1
  <2>3. PICK v \in Members \ {u} : e = {u, v}
    BY <2>1, <2>2, PairIs
  <2>4. u \in Members /\ v \in Members
    BY <2>1, <2>2, <2>3 DEF Pairs
  <2>5. (e \in Inside <=> Class(u) = Class(v)) /\ (e \in Inside' <=> Class(u)' = Class(v)')
    BY <2>3 DEF Inside
  <2>6. \A y : e \in Crossing(n, y) <=> \/ membership[u] = n /\ membership[v] = y
                                        \/ membership[v] = n /\ membership[u] = y
    BY <2>3, <2>4 DEF Crossing, Block
  <2>7. \A c : e \in Ties(n, c) <=>
                 \E y \in OthersIn(n, c) : e \in Crossing(n, y)
    BY DEF Ties
  <2>8. \A c : e \in Ties(n, c) <=>
                 \/ membership[u] = n /\ membership[v] # n /\ Class(v) = c
                 \/ membership[v] = n /\ membership[u] # n /\ Class(u) = c
    BY <1>1, <2>4, <2>6, <2>7 DEF OthersIn, Class
  <2> QED
    BY <1>1, <2>4, <2>5, <2>8
<1>3. /\ from \subseteq DOMAIN weights /\ to \subseteq DOMAIN weights
      /\ Inside \subseteq DOMAIN weights /\ Inside' \subseteq DOMAIN weights
  BY DEF Ties, Crossing, Inside
<1> HIDE DEF from, to
<1>4. from \subseteq Inside /\ to \intersect Inside = {} /\ Inside' = (Inside \ from) \union to
  BY <1>2, <1>3
<1> QED
  BY <1>3, <1>4 DEF from, to

\* Leaving a with its others of da for b of db, and ties of ea for ties of eb.
LEMMA MovePays ==
  ASSUME NEW i \in Int, NEW m \in Int, NEW k \in Int, NEW r \in Int,
         NEW ea \in Int, NEW eb \in Int, NEW da \in Int, NEW db \in Int,
         eb * m - db * k >= ea * m - da * k
  PROVE  2 * (i + eb) * m - (da * da + ((k + db) * (k + db) + r))
           >= 2 * (i + ea) * m - ((k + da) * (k + da) + (db * db + r))
<1> DEFINE im == i * m  eam == ea * m  ebm == eb * m
           dak == da * k  dbk == db * k  kk == k * k  aa == da * da  bb == db * db
<1>1. /\ im \in Int /\ eam \in Int /\ ebm \in Int /\ dak \in Int /\ dbk \in Int
      /\ kk \in Int /\ aa \in Int /\ bb \in Int
  OBVIOUS
<1>2. 2 * (i + eb) * m = 2 * im + 2 * ebm
  OBVIOUS
<1>3. 2 * (i + ea) * m = 2 * im + 2 * eam
  OBVIOUS
<1>4. (k + db) * (k + db) = kk + 2 * dbk + bb
  OBVIOUS
<1>5. (k + da) * (k + da) = kk + 2 * dak + aa
  OBVIOUS
<1>6. ebm - dbk >= eam - dak
  OBVIOUS
<1> HIDE DEF im, eam, ebm, dak, dbk, kk, aa, bb
<1>7. 2 * im + 2 * ebm - (aa + ((kk + 2 * dbk + bb) + r))
        >= 2 * im + 2 * eam - ((kk + 2 * dak + aa) + (bb + r))
  BY <1>1, <1>6
<1>8. da * da = aa /\ db * db = bb
  BY DEF aa, bb
<1> QED
  BY <1>2, <1>3, <1>4, <1>5, <1>7, <1>8

\* A sum over the communities is that of two of them and of the others.
LEMMA TwoOf ==
  ASSUME NEW S, IsFiniteSet(S), NEW f, \A x \in S : f[x] \in Int, NEW a \in S, NEW b \in S \ {a}
  PROVE  /\ SumOver(f, S) = f[a] + (f[b] + SumOver(f, S \ {a, b}))
         /\ SumOver(f, S \ {a, b}) \in Int
<1>1. IsFiniteSet(S \ {a}) /\ IsFiniteSet(S \ {a, b})
  BY FS_Subset
<1>2. SumOver(f, S) = f[a] + SumOver(f, S \ {a})
  BY SumSplits
<1>3. SumOver(f, S \ {a}) = f[b] + SumOver(f, (S \ {a}) \ {b})
  BY <1>1, SumSplits
<1>4. (S \ {a}) \ {b} = S \ {a, b}
  OBVIOUS
<1>5. SumOver(f, S \ {a, b}) \in Int
  BY <1>1, SumIsInt
<1> QED
  BY <1>2, <1>3, <1>4, <1>5

\* The sizes of the classes when n goes from a to b.
LEMMA ClassesMove ==
  ASSUME IsFiniteSet(nodes), LevelOK, NEW n \in nodes, NEW b \in nodes, b # community[n],
         community' = [community EXCEPT ![n] = b], nodes' = nodes, Degrees' = Degrees
  PROVE  LET a == community[n]
             k == Degrees[n]
             da == SumOver(Degrees, OthersIn(n, a))
             db == SumOver(Degrees, OthersIn(n, b))
         IN  \E r \in Int :
               /\ SumOver(Squares, nodes) = (k + da) * (k + da) + (db * db + r)
               /\ SumOver(Squares', nodes) = da * da + ((k + db) * (k + db) + r)
               /\ k \in Int /\ da \in Int /\ db \in Int
<1> DEFINE a == community[n]
           k == Degrees[n]
           da == SumOver(Degrees, OthersIn(n, a))
           db == SumOver(Degrees, OthersIn(n, b))
           rest == nodes \ {a, b}
           next(c) == {x \in nodes : community'[x] = c}
<1>1. a \in nodes /\ b \in nodes \ {a}
  BY DEF LevelOK
<1>2. \A S \in SUBSET nodes : IsFiniteSet(S) /\ SumOver(Degrees, S) \in Int
  BY LevelSums, TotalIsSum
<1>3. \A x \in nodes : Degrees[x] \in Int
  BY LevelSums
<1>4. \A c : OthersIn(n, c) \in SUBSET nodes /\ Of(c) \in SUBSET nodes /\ next(c) \in SUBSET nodes
  BY DEF OthersIn, Of
<1>5. /\ n \in Of(a) /\ Of(a) \ {n} = OthersIn(n, a) /\ next(a) = OthersIn(n, a)
      /\ n \in next(b) /\ next(b) \ {n} = OthersIn(n, b) /\ Of(b) = OthersIn(n, b)
      /\ \A c \in rest : next(c) = Of(c)
  <2>1. community'[n] = b /\ \A x \in nodes \ {n} : community'[x] = community[x]
    BY DEF LevelOK
  <2>2. n \in Of(a) /\ Of(a) \ {n} = OthersIn(n, a) /\ Of(b) = OthersIn(n, b)
    BY <1>1 DEF OthersIn, Of
  <2>3. next(a) = OthersIn(n, a)
    BY <1>1, <2>1 DEF OthersIn
  <2>4. n \in next(b) /\ next(b) \ {n} = OthersIn(n, b)
    <3>1. n \in next(b)
      BY <2>1
    <3>2. ASSUME NEW x PROVE x \in next(b) \ {n} <=> x \in OthersIn(n, b)
      BY <2>1 DEF OthersIn
    <3> QED
      BY <3>1, <3>2
  <2>5. ASSUME NEW c \in rest PROVE next(c) = Of(c)
    BY <1>1, <2>1 DEF Of
  <2> QED
    BY <2>2, <2>3, <2>4, <2>5
<1>6. SumOver(Degrees, Of(a)) = k + da
  BY <1>2, <1>3, <1>4, <1>5, SumSplits
<1>7. SumOver(Degrees, next(b)) = k + db
  BY <1>2, <1>3, <1>4, <1>5, SumSplits
<1>8. \A c : SumOver(Degrees, Of(c)) \in Int /\ SumOver(Degrees, next(c)) \in Int
  BY <1>2, <1>4
<1>9. \A c \in nodes : /\ Squares[c] = SumOver(Degrees, Of(c)) * SumOver(Degrees, Of(c))
                       /\ Squares'[c] = SumOver(Degrees, next(c)) * SumOver(Degrees, next(c))
  BY DEF Squares, Square, Of
<1>10. ASSUME NEW c \in nodes PROVE Squares[c] \in Int /\ Squares'[c] \in Int
  <2> DEFINE x == SumOver(Degrees, Of(c))
             y == SumOver(Degrees, next(c))
  <2>1. x \in Int /\ y \in Int
    BY <1>8
  <2>2. Squares[c] = x * x /\ Squares'[c] = y * y
    BY <1>9
  <2> HIDE DEF x, y
  <2> QED
    BY <2>1, <2>2
<1> DEFINE r == SumOver(Squares, rest)
           F == Squares
           G == Squares'
<1>11. F[a] = (k + da) * (k + da) /\ F[b] = db * db
  BY <1>1, <1>5, <1>6, <1>9
<1>12. G[a] = da * da /\ G[b] = (k + db) * (k + db)
  BY <1>1, <1>5, <1>7, <1>9
<1>13. \A c \in rest : F[c] \in Int /\ G[c] = F[c]
  BY <1>5, <1>9, <1>10
<1>14. (\A c \in nodes : F[c] \in Int) /\ (\A c \in nodes : G[c] \in Int)
  BY <1>10
<1>15. IsFiniteSet(rest)
  BY <1>2
<1>16. k \in Int /\ da \in Int /\ db \in Int
  BY <1>2, <1>3, <1>4
<1>17. SumOver(F, nodes) = F[a] + (F[b] + SumOver(F, rest)) /\ SumOver(F, rest) \in Int
  <2> HIDE DEF F, a
  <2> QED
    BY <1>1, <1>14, TwoOf
<1>18. SumOver(G, nodes) = G[a] + (G[b] + SumOver(G, rest))
  <2> HIDE DEF G, a
  <2> QED
    BY <1>1, <1>14, TwoOf
<1>19. SumOver(F, rest) = SumOver(G, rest)
  <2> HIDE DEF F, G, rest
  <2> QED
    BY <1>13, <1>15, SameSum
<1> HIDE DEF a, k, da, db, rest
<1>20. /\ SumOver(F, nodes) = (k + da) * (k + da) + (db * db + r)
       /\ SumOver(G, nodes) = da * da + ((k + db) * (k + db) + r)
       /\ r \in Int
  BY <1>11, <1>12, <1>17, <1>18, <1>19
<1> QED
  BY <1>16, <1>20 DEF a, k, da, db

LEMMA QualityIsInt ==
  ASSUME IsFiniteSet(Members), LevelOK, WeighedOK, ExactOK
  PROVE  /\ Quality \in Int /\ SumOver(weights, Inside) \in Nat
         /\ Mass \in Nat /\ SumOver(Squares, nodes) \in Int
<1>1. IsFiniteSet(nodes)
  BY FS_Subset DEF LevelOK
<1>2. SumOver(weights, Inside) \in Nat
  BY PairsAreFinite DEF Inside
<1>3. Mass \in Nat
  BY <1>1, LevelSums
<1>4. \A c \in nodes : Squares[c] \in Int
  <2> SUFFICES ASSUME NEW c \in nodes PROVE Squares[c] \in Int
    OBVIOUS
  <2>1. Of(c) \in SUBSET nodes
    BY DEF Of
  <2>2. SumOver(Degrees, Of(c)) \in Nat
    BY <1>1, <2>1, LevelSums, TotalIsSum
  <2> QED
    BY <2>2 DEF Squares, Square
<1>5. SumOver(Squares, nodes) \in Int
  BY <1>1, <1>4, SumIsInt
<1> DEFINE x == SumOver(weights, Inside)
           y == SumOver(Squares, nodes)
<1>6. Quality = 2 * x * Mass - y
  BY QualityOfLevel
<1>7. x \in Nat /\ y \in Int
  BY <1>2, <1>5
<1> HIDE DEF x, y
<1>8. Quality \in Int
  BY <1>3, <1>6, <1>7
<1> QED
  BY <1>2, <1>3, <1>5, <1>8

\* What the weights of a level are says nothing of the communities.
LEMMA ExactKept ==
  ASSUME WeighedOK, ExactOK, nodes' = nodes, adj' = adj, loops' = loops,
         membership' = membership, tables' = tables, weights' = weights
  PROVE  (WeighedOK /\ ExactOK)' /\ Degrees' = Degrees /\ Mass' = Mass
<1>1. Members' = Members
  BY DEF Members
<1>2. Degrees' = Degrees
  BY DEF Degrees
<1>3. Mass' = Mass
  BY <1>2 DEF Mass
<1>4. Weighted' = Weighted
  BY <1>1 DEF Weighted
<1>5. \A c : Block(c)' = Block(c)
  BY <1>1 DEF Block
<1>6. \A c, d : Crossing(c, d)' = Crossing(c, d)
  BY <1>5 DEF Crossing
<1>7. WeighedOK'
  BY <1>1 DEF WeighedOK
<1>8. ExactOK'
  BY <1>2, <1>4, <1>5, <1>6 DEF ExactOK
<1> QED
  BY <1>2, <1>3, <1>7, <1>8

\* A node goes where it adds most, its own community among the choices.
LEMMA MoveKeepsQuality ==
  ASSUME Shaped(tables), MoveNode, LevelOK, WeighedOK, ExactOK
  PROVE  Quality' >= Quality
<1> DEFINE n == Min(queue)
           a == community[n]
           b == Best(n)
<1>1. /\ n \in nodes /\ b \in nodes /\ b \in Reach(n)
      /\ community' = [community EXCEPT ![n] = b]
      /\ nodes' = nodes /\ adj' = adj /\ loops' = loops /\ membership' = membership
      /\ tables' = tables /\ weights' = weights
      /\ LevelOK'
  BY MoveIs
<1>2. IsFiniteSet(Members) /\ IsFiniteSet(nodes) /\ Members' = Members
  BY <1>1, NumbersAssumption, FS_Subset DEF Shaped, Members, LevelOK
<1>3. WeighedOK' /\ ExactOK' /\ Degrees' = Degrees /\ Mass' = Mass
  BY <1>1, ExactKept
<1>4. a \in Reach(n) /\ Gain(n, b) >= Gain(n, a) /\ a \in nodes
  <2>1. \A c \in Reach(n) : Gain(n, Best(n)) >= Gain(n, c)
    BY <1>1, <1>2, BestIs
  <2> QED
    BY <1>1, <2>1 DEF Reach, LevelOK
<1> DEFINE old == SumOver(weights, Inside)
           new == SumOver(weights, Inside')
           before == SumOver(Squares, nodes)
           after == SumOver(Squares', nodes)
<1>5. Quality = 2 * old * Mass - before
  BY <1>2, QualityOfLevel
<1>6. Quality' = 2 * new * Mass - after
  <2>1. IsFiniteSet(Members')
    BY <1>2
  <2>2. Quality' = 2 * SumOver(weights', Inside') * Mass' - SumOver(Squares', nodes')
    BY <1>1, <1>3, <2>1, QualityOfNextLevel
  <2> QED
    BY <1>1, <1>3, <2>2
<1>7. /\ old \in Nat /\ before \in Int /\ Mass \in Nat
  BY <1>2, QualityIsInt
<1>8. CASE b = a
  <2>1. community' = community
    BY <1>1, <1>8 DEF LevelOK
  <2>2. \A m : Class(m)' = Class(m)
    BY <1>1, <2>1 DEF Class
  <2>3. Inside' = Inside
    BY <1>1, <2>2 DEF Inside
  <2>4. \A c : Of(c)' = Of(c)
    BY <1>1, <2>1 DEF Of
  <2>5. Squares' = Squares
    BY <1>1, <1>3, <2>4 DEF Squares, Square
  <2>6. new = old /\ after = before
    BY <2>3, <2>5
  <2> HIDE DEF old, new, before, after
  <2> QED
    BY <1>5, <1>6, <1>7, <2>6
<1>9. CASE b # a
  <2> DEFINE k == Degrees[n]
             da == SumOver(Degrees, OthersIn(n, a))
             db == SumOver(Degrees, OthersIn(n, b))
             ea == SumOver(adj[n], OthersIn(n, a))
             eb == SumOver(adj[n], OthersIn(n, b))
             i == SumOver(weights, Inside \ Ties(n, a))
  <2>1. PICK r \in Int :
               /\ before = (k + da) * (k + da) + (db * db + r)
               /\ after = da * da + ((k + db) * (k + db) + r)
               /\ k \in Int /\ da \in Int /\ db \in Int
    BY <1>1, <1>2, <1>3, <1>9, ClassesMove
  <2>2. Gain(n, a) = ea * Mass - da * k /\ Gain(n, b) = eb * Mass - db * k
    BY <1>1, <1>2, GainType, TotalIsSum
  <2>3. \A c : OthersIn(n, c) \in SUBSET (nodes \ {n})
    BY DEF OthersIn
  <2>4. /\ ea = SumOver(weights, Ties(n, a)) /\ eb = SumOver(weights, Ties(n, b))
    BY <1>1, <1>2, <2>3, CrossingsAdd DEF Ties
  <2>5. /\ Ties(n, a) \subseteq Inside /\ Ties(n, b) \intersect Inside = {}
        /\ Inside' = (Inside \ Ties(n, a)) \union Ties(n, b)
        /\ Inside \subseteq DOMAIN weights
    BY <1>1, <1>2, <1>9, InsideMoves
  <2>6. Ties(n, a) \subseteq DOMAIN weights /\ Ties(n, b) \subseteq DOMAIN weights
    BY DEF Ties, Crossing
  <2>7. /\ IsFiniteSet(DOMAIN weights) /\ \A e \in DOMAIN weights : weights[e] \in Int
    BY <1>2, PairsAreFinite DEF WeighedOK
  <2>8. old = i + ea
    <3>1. Inside = (Inside \ Ties(n, a)) \union Ties(n, a)
      BY <2>5
    <3>2. (Inside \ Ties(n, a)) \intersect Ties(n, a) = {}
      OBVIOUS
    <3>3. SumOver(weights, (Inside \ Ties(n, a)) \union Ties(n, a))
            = SumOver(weights, Inside \ Ties(n, a)) + SumOver(weights, Ties(n, a))
      BY <2>5, <2>6, <2>7, <3>2, SumOfBoth
    <3> QED
      BY <2>4, <3>1, <3>3
  <2>9. new = i + eb
    <3>1. (Inside \ Ties(n, a)) \intersect Ties(n, b) = {}
      BY <2>5
    <3>2. SumOver(weights, (Inside \ Ties(n, a)) \union Ties(n, b))
            = SumOver(weights, Inside \ Ties(n, a)) + SumOver(weights, Ties(n, b))
      BY <2>5, <2>6, <2>7, <3>1, SumOfBoth
    <3> QED
      BY <2>4, <2>5, <3>2
  <2>10. i \in Int /\ ea \in Int /\ eb \in Int
    <3>1. Inside \ Ties(n, a) \in SUBSET DOMAIN weights
      BY <2>5
    <3> QED
      BY <1>2, <2>4, <2>6, <3>1, PairsAreFinite
  <2>11. Gain(n, b) >= Gain(n, a)
    BY <1>4
  <2>12. Quality = 2 * (i + ea) * Mass - ((k + da) * (k + da) + (db * db + r))
    BY <1>5, <2>1, <2>8
  <2>13. Quality' = 2 * (i + eb) * Mass - (da * da + ((k + db) * (k + db) + r))
    BY <1>6, <2>1, <2>9
  <2>14. Mass \in Int
    BY <1>7
  <2> HIDE DEF a, b, n, k, da, db, ea, eb, i
  <2>15. eb * Mass - db * k >= ea * Mass - da * k
    BY <2>2, <2>11
  <2> QED
    BY <2>1, <2>10, <2>12, <2>13, <2>14, <2>15, MovePays
<1> QED
  BY <1>8, <1>9

ModularityInv == phase = "sweep" => LevelOK /\ WeighedOK /\ ExactOK

LEMMA NextModularityInv ==
  StageInv /\ ModularityInv /\ Next =>
    ModularityInv' /\ (phase = "sweep" /\ phase' = "sweep" => Quality' >= Quality)
<1> SUFFICES ASSUME StageInv, ModularityInv, Next
             PROVE  ModularityInv' /\ (phase = "sweep" /\ phase' = "sweep" => Quality' >= Quality)
  OBVIOUS
<1>0. TablesInv /\ GraphInv
  BY DEF StageInv
<1>1. CASE phase = "sweep" /\ phase' = "sweep"
  <2>1. MoveNode \/ SweepAgain \/ Aggregate
    BY <1>1 DEF Next, StageFeatures, StageGraph, StageEpisodes, Cluster, Weigh, Converge, Constrain,
                Follow, Visit, Deepen, Record, WalkOver, StageAnalytics, StageAttribute,
                StageDimensions, StagePortfolios, StageRank
  <2>2. Shaped(tables)
    BY <1>0, <1>1 DEF GraphPhases, TablesInv
  <2>3. LevelOK /\ WeighedOK /\ ExactOK /\ IsFiniteSet(Members)
    BY <1>1, <2>2, NumbersAssumption, FS_Subset DEF ModularityInv, Shaped, Members
  <2>4. Quality \in Int
    BY <2>3, QualityIsInt
  <2>5. CASE MoveNode
    <3>1. LevelOK' /\ WeighedOK' /\ ExactOK'
      BY <2>2, <2>3, <2>5, MoveIs, ExactKept
    <3>2. Quality' >= Quality
      BY <2>2, <2>3, <2>5, MoveKeepsQuality
    <3> QED
      BY <3>1, <3>2 DEF ModularityInv
  <2>6. CASE SweepAgain
    <3>1. /\ tables' = tables /\ weights' = weights /\ nodes' = nodes /\ adj' = adj
          /\ loops' = loops /\ community' = community /\ membership' = membership
          /\ queue' = nodes
      BY <2>6 DEF SweepAgain
    <3>2. LevelOK'
      BY <2>3, <3>1 DEF LevelOK, Members
    <3>3. WeighedOK' /\ ExactOK'
      BY <2>3, <3>1, ExactKept
    <3>4. Quality' = Quality
      BY <3>1 DEF Quality, Inside, WeightOf, Weighted, Class, Members
    <3> QED
      BY <2>4, <3>2, <3>3, <3>4 DEF ModularityInv
  <2>7. CASE Aggregate
    <3>1. LevelOK' /\ WeighedOK' /\ ExactOK'
      BY <2>2, <2>3, <2>7, AggregateIs, AggregateExact
    <3>2. Quality' = Quality
      BY <2>2, <2>3, <2>7, AggregateKeepsQuality
    <3> QED
      BY <2>4, <3>1, <3>2 DEF ModularityInv
  <2> QED
    BY <2>1, <2>5, <2>6, <2>7
<1>2. CASE phase # "sweep" /\ phase' = "sweep"
  <2>1. Weigh
    BY <1>2 DEF Next, StageFeatures, StageGraph, StageEpisodes, Cluster, MoveNode, SweepAgain,
                Aggregate, LevelOver, Converge, Constrain,
                Follow, Visit, Deepen, Record, WalkOver, StageAnalytics, StageAttribute,
                StageDimensions, StagePortfolios, StageRank, clusterVars
  <2>2. Shaped(tables) /\ edges = GraphOf(tables)
    BY <1>0, <2>1 DEF Weigh, GraphPhases, TablesInv, GraphInv
  <2>3. LevelOK' /\ WeighedOK' /\ ExactOK'
    BY <2>1, <2>2, WeighHolds, WeighExact
  <2> QED
    BY <1>2, <2>3 DEF ModularityInv
<1>3. CASE phase' # "sweep"
  BY <1>3 DEF ModularityInv
<1> QED
  BY <1>1, <1>2, <1>3

\* No move and no aggregation lowers the modularity of the partition of the pull
\* requests (clustering.py, _one_level and _aggregate), of any graph, with any
\* weights and on whichever level: the gain of a move, computed from the nodes of
\* the level alone, is what the whole partition gains.
THEOREM ModularityNeverFalls == Spec => MovesNeverLoseModularity
<1>1. Init => ModularityInv
  BY DEF Init, ModularityInv
<1>2. ModularityInv /\ UNCHANGED vars => ModularityInv'
  <2> SUFFICES ASSUME ModularityInv, UNCHANGED clusterVars PROVE ModularityInv'
    BY DEF vars
  <2>1. /\ tables' = tables /\ phase' = phase /\ weights' = weights /\ nodes' = nodes
        /\ adj' = adj /\ loops' = loops /\ community' = community
        /\ membership' = membership /\ queue' = queue
    BY DEF clusterVars
  <2>2. LevelOK => LevelOK'
    BY <2>1 DEF LevelOK, Members
  <2>3. WeighedOK /\ ExactOK => (WeighedOK /\ ExactOK)'
    BY <2>1, ExactKept
  <2> QED
    BY <2>1, <2>2, <2>3 DEF ModularityInv
<1>3. StageInv /\ ModularityInv /\ [Next]_vars =>
        ModularityInv' /\ [phase = "sweep" /\ phase' = "sweep" => Quality' >= Quality]_vars
  BY <1>2, NextModularityInv
<1> QED
  BY <1>1, <1>3, AlwaysStageInv, PTL DEF Spec, MovesNeverLoseModularity

-----------------------------------------------------------------------------
(***************************************************************************)
(* The ranking, whose portfolios are any.                                  *)
(***************************************************************************)

RankStageInv ==
  IF phase = "rank" THEN RankingInv
  ELSE pass = "descending" /\ rank = [d \in Passes |-> [a \in Engineers |-> 0]]

LEMMA NextRankStageInv == RankStageInv /\ [Next]_vars => RankStageInv'
<1> SUFFICES ASSUME RankStageInv, [Next]_vars PROVE RankStageInv'
  OBVIOUS
<1>1. CASE StageRank
  BY <1>1, RankingStep DEF StageRank, RankStageInv, clusterVars
<1>2. CASE UNCHANGED vars
  <2>1. [FinalRanking]_rankVars /\ phase' = phase /\ pass' = pass /\ rank' = rank
    BY <1>2 DEF vars, clusterVars, rankVars, dist
  <2> QED
    BY <2>1, RankingStep DEF RankStageInv
<1>3. ASSUME UNCHANGED rankVars, phase # "rank", phase' # "rank"
      PROVE  RankStageInv'
  BY <1>3 DEF RankStageInv, rankVars, dist
<1>4. CASE StageFeatures /\ UNCHANGED <<walkVars, stageVars, rankVars>>
  BY <1>3, <1>4 DEF StageFeatures
<1>5. CASE StageGraph /\ UNCHANGED <<walkVars, stageVars, rankVars>>
  BY <1>3, <1>5 DEF StageGraph
<1>6. CASE StageEpisodes /\ UNCHANGED <<stageVars, rankVars>>
  <2>1. CASE Cluster
    BY <1>3, <1>6, <2>1 DEF Cluster, Weigh, MoveNode, SweepAgain, Aggregate, LevelOver,
                            Converge, Constrain
  <2>2. CASE Follow \/ Visit \/ Deepen \/ Record
    BY <1>3, <1>6, <2>2 DEF Follow, Visit, Deepen, Record, WalkOver, clusterVars
  <2> QED
    BY <1>6, <2>1, <2>2 DEF StageEpisodes
<1>7. CASE StageAnalytics /\ UNCHANGED rankVars
  BY <1>3, <1>7 DEF StageAnalytics
<1>8. CASE StageAttribute /\ UNCHANGED rankVars
  BY <1>3, <1>8 DEF StageAttribute
<1>9. CASE (StageDimensions \/ StagePortfolios) /\ UNCHANGED rankVars
  BY <1>3, <1>9 DEF StageDimensions, StagePortfolios
<1> QED
  BY <1>1, <1>2, <1>4, <1>5, <1>6, <1>7, <1>8, <1>9 DEF Next

LEMMA AlwaysRankStageInv == Spec => []RankStageInv
<1>1. Init => RankStageInv
  BY RankingStarts DEF Init, NoRanking, Start, RankStageInv
<1> QED
  BY <1>1, NextRankStageInv, PTL DEF Spec

\* Everybody is placed by both distillations, nobody whom the credibilities
\* favour is behind, and nobody whose evidence is as good either: with whatever
\* portfolios, weights, thresholds and cut levels.
THEOREM RankingIsConsistent ==
  Spec => [](EverybodyIsPlaced /\ DominanceIsKept /\ BetterIsNotBehind)
<1>1. RankStageInv => EverybodyIsPlaced /\ DominanceIsKept /\ BetterIsNotBehind
  <2> SUFFICES ASSUME RankStageInv
               PROVE  EverybodyIsPlaced /\ DominanceIsKept /\ BetterIsNotBehind
    OBVIOUS
  <2>1. CASE phase = "rank"
    BY <2>1, AllArePlaced, MediansKeepDominance, BetterFromDominance
    DEF RankStageInv, RankingInv
  <2>2. CASE phase # "rank"
    BY <2>2 DEF RankStageInv, EverybodyIsPlaced, DominanceIsKept, BetterIsNotBehind, Passes
  <2> QED
    BY <2>1, <2>2
<1> QED
  BY <1>1, AlwaysRankStageInv, PTL
=============================================================================
