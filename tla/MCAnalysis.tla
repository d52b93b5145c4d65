----------------------------- MODULE MCAnalysis -----------------------------
(***************************************************************************)
(* Instances of Analysis for TLC: what Phase 1 may have found of five pull *)
(* requests, a few people around them, and engineers to rank.              *)
(***************************************************************************)
EXTENDS Analysis

Bare == [
  merged |-> [n \in PRs |-> n], eligible |-> PRs, generic |-> {},
  references |-> {}, phrases |-> {},
  flags |-> <<>>, migrations |-> <<>>, names |-> <<>>, stacked |-> {},
  files |-> {}, added |-> {}, imports |-> {}, docs |-> {}, threads |-> {},
  commits |-> PRs, similarity |-> [S \in SUBSET PRs |-> 0], fixes |-> {},
  retitled |-> {}, deleted |-> {}, gated |-> {}, ungated |-> {}, completed |-> {}]

Ref(a, how, b) == [source |-> PullRequest(a), how |-> how, target |-> b]

\* What many share, and one or two links across it: the clustering.
Groups == {1..n : n \in 2..5} \union {{1, 3, 5}}

Sharings ==
  {[Bare EXCEPT !.flags = <<S>>] : S \in Groups}
  \union {[Bare EXCEPT !.names = <<S, {1, 2}>>] : S \in Groups}
  \union {[Bare EXCEPT !.migrations = <<S>>, !.files = {<<1, 11>>},
                            !.docs = {1}] : S \in Groups}
  \union {[Bare EXCEPT !.references = {Ref(n, "closing", 21) : n \in S}
                                \union {[source |-> <<"issue", 21>>, how |-> "mention", target |-> 1]}] : S \in Groups}

Bridged(r) ==
  {[r EXCEPT !.references = @ \union {Ref(a, how, b)}, !.generic = g] :
     how \in {"mention", "timeline"}, a \in {3, 5}, b \in {1, 2}, g \in {{}, {5}}}

Alike == {[Bare EXCEPT !.names = <<{1, 2}, {2, 3}>>, !.similarity = [S \in SUBSET PRs |->
             IF S \in P THEN 80 ELSE 0], !.eligible = el, !.stacked = {<<5, 4>>}] :
            P \in SUBSET {{1, 2}, {1, 3}, {3, 4}}, el \in {PRs, PRs \ {2}}}

\* Who adopts what from whom and when: the walk.
Merges == {[n \in PRs |-> n], [n \in PRs |-> 6 - n], [n \in PRs |-> IF n < 3 THEN 2 ELSE n],
           [n \in PRs |-> IF n \in {1, 4} THEN Never ELSE n]}

Adoptions ==
  {[Bare EXCEPT !.merged = d, !.files = {<<1, 11>>, <<2, 12>>} \union F, !.added = {<<1, 11>>},
                !.imports = {<<12, 11>>, <<14, 12>>} \union I,
                !.docs = IF I = {} THEN {} ELSE {1},
                !.references = {Ref(5, "mention", 1)}, !.phrases = {<<5, "follow_up">>}] :
     d \in Merges, F \in SUBSET {<<3, 12>>, <<3, 14>>, <<4, 14>>, <<5, 11>>},
     I \in {{}, {<<14, 11>>}, {<<13, 11>>, <<14, 11>>}}}

\* Two links that are ahead of a revert by its title.
Statements ==
  SUBSET {<<3, 1, "reverts">>, <<4, 1, "reapplies">>, <<4, 2, "reapplies">>, <<5, 2, "supersedes">>}
  \union {{<<4, 1, "supersedes">>, <<5, 1, "supersedes">>} \union X :
             X \in SUBSET {<<3, 1, "reverts">>, <<4, 2, "reapplies">>}}

\* What was said against it afterwards: status, correction and survival.
Corrections ==
  {[Bare EXCEPT !.references = {Ref(2, "mention", 1)} \union C
                               \union {Ref(l[1], "mention", l[2]) : l \in L},
                !.phrases = {<<l[1], l[3]>> : l \in L}, !.retitled = T,
                !.fixes = {2, 3}, !.files = {<<1, 11>>, <<2, 12>>, <<3, 11>>, <<3, 12>>, <<4, 11>>, <<4, 13>>, <<5, 14>>},
                !.added = {<<1, 11>>, <<2, 12>>}, !.imports = {<<12, 11>>, <<14, 11>>}, !.deleted = IF U = {} THEN {} ELSE {<<4, 11>>},
                !.gated = {2}, !.ungated = U, !.docs = U, !.completed = {21}] :
     L \in Statements,
     C \in {{}, {Ref(1, "api", 21), Ref(3, "closing", 21), Ref(3, "mention", 2)}},
     T \in {{}, {<<3, 1>>}}, U \in {{}, {1}}}

MCRepositories ==
  UNION {Bridged(s) : s \in Sharings} \union Alike \union Adoptions \union Corrections

\* ann also commits under an address of her own and one of GitHub's, bob under an
\* address he shares with his team, and an assistant helps.
MCAccounts == {[login |-> a, type |-> IF a = "cid" THEN "Bot" ELSE "User"]
               : a \in {"ann", "bob", "cid", "eve", "dan"}}
Signed(name, email) == [name |-> name, email |-> email]
MCSignatures == {
  Signed("Ann", "ann@home"), Signed("Ann A", "ann@home"), Signed("Ann", "ann@noreply"),
  Signed("Bob", "team@work"), Signed("Eve", "team@work"), Signed("Model", "model@lab")}
MCAddresses == {s.email : s \in MCSignatures}
MCLoginIn == [e \in MCAddresses |-> IF e = "ann@noreply" THEN "ann" ELSE Nobody]
Rule(kind, hits, probability) == [kind |-> kind, hits |-> hits, probability |-> probability]
MCBotRules == {Rule("typename", {"Bot"}, 100), Rule("login", {"dan"}, 75),
               Rule("email", {"bot@noreply"}, 99)}

MCauthor == [n \in PRs |-> IF n = 3 THEN NoAuthor
                           ELSE User(<<"ann", "bob", "nobody", "cid", "eve">>[n])]
\* A new path that two import weighs more than an old one that nobody does.
MCSourceWeight == [introduced |-> [k \in 0..5 |-> <<100, 50, 39, 33, 30, 28>>[k + 1]],
                   modified |-> [k \in 0..5 |-> <<45, 23, 17, 15, 14, 13>>[k + 1]]]
MCcomponent == [x \in Paths |-> x]
MCdirectory == [x \in Paths |-> 1]

Comment(n, by, concern, at) ==
  [pr |-> n, by |-> User(by), concerns |-> {concern}, path |-> at, at |-> 0,
   body |-> "reasoned", outdated |-> FALSE, resolved |-> TRUE, participants |-> {User(by)},
   long |-> FALSE]

\* ann comments on what bob wrote, on her own and after the merge, a bot comments
\* and dan picks a nit.
MCReviewSets == {
  {}, {Comment(1, "dan", "scope", 11), Comment(2, "dan", "security", 12),
       [Comment(2, "dan", "correctness", 12) EXCEPT !.body = "nit"],
       Comment(1, "ann", "security", 11), Comment(2, "cid", "security", 12)},
  {[Comment(2, "ann", "security", 11) EXCEPT !.outdated = TRUE, !.resolved = FALSE],
   [Comment(2, "dan", "security", 12) EXCEPT !.at = WindowEnd],
   [Comment(1, "dan", "scope", 12) EXCEPT !.long = TRUE,
                                          !.participants = {User("dan"), User("ann")}]}}

Cast == [openers |-> {}, framed |-> FALSE, coauthors |-> {}, resolvers |-> {},
         upkeep |-> {}, touched |-> {}]

MCCasts == {
  [Cast EXCEPT !.openers = {User("dan")}, !.framed = TRUE,
               !.touched = {User("dan"), User("cid")}],
  [Cast EXCEPT !.coauthors = {<<1, Mail("ann@home")>>, <<1, Mail("model@lab")>>,
                              <<2, User("bob")>>},
               !.resolvers = {<<2, User("eve")>>}, !.upkeep = {2, 5}]}

Fact == [thin |-> {}, tests |-> FALSE, title |-> FALSE, products |-> 1, launch |-> FALSE,
         marker |-> FALSE, shrinks |-> FALSE, surface |-> "none",
         incident |-> FALSE, rationale |-> FALSE, redirected |-> FALSE, library |-> FALSE]

\* What speaks for a band, and how thin the evidence is.
Rich(d) ==
  CASE d = "product_outcome" ->
         [Fact EXCEPT !.tests = TRUE, !.products = 2, !.launch = TRUE, !.title = TRUE]
    [] d = "reliability_risk" ->
         [Fact EXCEPT !.tests = TRUE, !.surface = "high", !.incident = TRUE]
    [] d = "engineering_leverage" -> [Fact EXCEPT !.marker = TRUE, !.library = TRUE]
    [] d = "decision_quality" ->
         [Fact EXCEPT !.shrinks = TRUE, !.rationale = TRUE, !.redirected = TRUE]
    [] OTHER -> Fact

MCFacts == [d \in Dimensions |->
  {[Rich(d) EXCEPT !.thin = t] : t \in {{}, {"thread truncated"}, {"no merge commit"}}}
  \union {Fact} \union IF d = "reliability_risk"
                       THEN {[Rich(d) EXCEPT !.surface = "medium"]} ELSE {}]

Entry(id, band, confidence, factor, group) ==
  [id |-> id, decay |-> 90, peak |-> band, band |-> band, confidence |-> confidence,
   factor |-> factor, group |-> group, status |-> "shipped_observable",
   category |-> "material", confirmed |-> FALSE]

MCOtherEntries == {
  {}, {Entry(2, 2, "high", 7000, <<"issue", 21>>)},
  {Entry(2, 4, "medium", 10000, <<"episode", 2>>), Entry(3, 3, "low", 10000, <<"issue", 21>>),
   Entry(4, 3, "high", 10000, <<"episode", 4>>)},
  {Entry(2, 1, "high", 10000, <<"episode", 2>>), Entry(3, 1, "high", 10000, <<"episode", 3>>),
   Entry(4, 1, "low", 10000, <<"episode", 4>>), Entry(5, 1, "high", 10000, <<"issue", 21>>)}}

MCOtherKnown == {<<>>, [d \in {"decision_quality", "product_outcome"} |-> "low"]}

\* The relevance of a role to a dimension.
Row(a, b, c, d, e, f) ==
  [product_outcome |-> a, reliability_risk |-> b, engineering_leverage |-> c,
   decision_quality |-> d, propagation_durability |-> e, collaborative_amplification |-> f]

MCRelevance == [
  originator |-> Row(70, 40, 35, 70, 30, 40),
  core_implementer |-> Row(100, 100, 90, 50, 100, 20),
  contributing_implementer |-> Row(40, 40, 35, 20, 40, 20),
  decision_shaper |-> Row(35, 45, 40, 100, 20, 100),
  risk_preventer |-> Row(15, 100, 20, 60, 20, 100),
  integrator |-> Row(30, 35, 45, 30, 40, 85),
  rollout_sustainer |-> Row(55, 70, 30, 30, 100, 35),
  enabler |-> Row(35, 40, 100, 45, 90, 45),
  documenter |-> Row(25, 15, 45, 20, 25, 80)]

MCShareFactor == [primary |-> 100, material |-> 70, supporting |-> 35, unclear |-> 15]
MCDiscount == [high |-> 100, medium |-> 75, low |-> 45]
MCHalfWidth == [high |-> 0, medium |-> 50, low |-> 100]
MCPenalty == [healthy_iteration |-> 0, self_correction |-> 15, unrelated_same_area |-> 0,
              probable_regression |-> 50, confirmed_revert |-> 100]
MCCoefficients == <<100, 55, 30, 17, 10>>
Pair(components, authors) == [components |-> components, authors |-> authors]
MCAdopted == Pair(1, 1)
MCFoundational == Pair(2, 2)
MCHelped == Pair(2, 1)
MCHelpedWidely == Pair(2, 2)

\* A lead of 3 is a veto on one criterion and two thirds of one on the other; a
\* lead of 1 is half a preference on the first and a whole one on the other.
MCWeight == [j \in Criteria |-> IF j = "product" THEN 3 ELSE 2]
MCq == [j \in Criteria |-> 0]
MCp == [j \in Criteria |-> IF j = "product" THEN 2 ELSE 1]
MCv == [j \in Criteria |-> IF j = "product" THEN 3 ELSE 4]

Symmetry == Permutations(Engineers)
=============================================================================
