----------------------------- MODULE Attribution -----------------------------
(***************************************************************************)
(* Who did what in an episode, and for how much of it he is credited       *)
(* (impact2/episodes/participants.py). A person is what Identity gathered  *)
(* keys into. The grain of the factors is that of Relevance times          *)
(* ShareFactor; the code's are in millionths.                              *)
(***************************************************************************)
EXTENDS Rubric

CONSTANTS
  CoreShare,          \* hundredths of the production files
  IntegratorPRs, IntegratorComponents,
  Relevance,          \* Relevance[role][dimension]
  ShareFactor,        \* of a share category
  MaxTotal,           \* all factors of an episode in one dimension
  MinFactor

Roles == {"originator", "core_implementer", "contributing_implementer",
          "decision_shaper", "risk_preventer", "integrator", "rollout_sustainer",
          "enabler", "documenter"}

Categories == {"primary", "material", "supporting", "unclear"}

ASSUME AttributionAssumption ==
  /\ MaxTotal \in Nat
  /\ ShareFactor \in [Categories -> Nat]
  /\ Relevance \in [Roles -> [Dimensions -> Nat]]

\* Nobody, of a pull request whose author is not known.
Who(n) == IF author[n] = NoAuthor THEN NoAuthor ELSE person[author[n]]

-----------------------------------------------------------------------------
(* Roles.  f are the facts that the tables of the model do not hold: who     *)
(* opened the linked issues, whether the first pull request frames a         *)
(* problem, the co-authors, who resolved whose threads, and which pull       *)
(* requests are upkeep by their titles or touch the registry of the flags.   *)

CodeOf(n) == Cardinality(Production({n}))

Largest(n) == \A m \in subject : CodeOf(m) < CodeOf(n) \/ (CodeOf(m) = CodeOf(n) /\ n <= m)

ShareOf(who) ==
  LET code(n) == CodeOf(n)
      total   == MapThenSumSet(code, subject)
      own     == MapThenSumSet(code, {n \in subject : Who(n) = who})
  IN  IF total = 0 THEN 0 ELSE (100 * own) \div total

Core(n) == ShareOf(Who(n)) >= CoreShare \/ Largest(n)

Originators(f) ==
  IF episode.issues # {} THEN {person[a] : a \in f.openers}
  ELSE IF f.framed THEN {Who(Min(subject))} ELSE {}

CoAuthors(f) ==
  {person[c[2]] : c \in {d \in f.coauthors : /\ d[1] \in subject /\ ~IsAssistant(d[2])
                                             /\ person[d[2]] # Who(d[1])}}

\* Mutation: who wrote another pull request of the episode counts as well.
ReviewsOfOthers ==
  {i \in episode.interventions : i.consequence # "none" /\ person[i.by] # Who(i.pr)}

\* Nobody reviews an episode that he wrote a part of.
OutsideReviews ==
  {i \in episode.interventions : /\ i.consequence # "none"
                                 /\ person[i.by] \notin {Who(n) : n \in subject}}

Reviewers(I) == {person[i.by] : i \in I \intersect OutsideReviews}

Engaged(who) ==
  LET own == {i \in OutsideReviews : person[i.by] = who}
  IN  /\ Cardinality({i.pr : i \in own}) >= IntegratorPRs
      /\ Cardinality({i.component : i \in own} \ {NoComponent}) >= IntegratorComponents

Resolvers(f) == {person[r[2]] : r \in {s \in f.resolvers : /\ s[1] \in subject
                                                           /\ person[s[2]] # Who(s[1])}}

\* All but the first to be merged; what never was comes last.
FollowUps ==
  LET before(m, n) == /\ tables.merged[m] # Never
                      /\ \/ tables.merged[n] \in {Never} \union (tables.merged[m] + 1)..WindowEnd
                         \/ tables.merged[n] = tables.merged[m] /\ m < n
      undated(m, n) == tables.merged[m] = Never /\ tables.merged[n] = Never /\ m < n
  IN  {n \in subject : \E m \in subject : before(m, n) \/ undated(m, n)}

Enabling(n) ==
  /\ Penetrated # {}
  /\ \E a \in Recorded : <<n, a.from>> \in tables.added /\ a.from \notin Mechanical

RolesOf(f, who) ==
  LET own == {n \in subject : Who(n) = who}
      concerned(classes) == who \in Reviewers({i \in episode.interventions : i.serious \intersect classes # {}})
      explained == who \in Reviewers({i \in episode.interventions : i.long /\ i.resolved})
  IN  Given("originator", who \in Originators(f))
      \union Given("core_implementer", \E n \in own : Core(n))
      \union Given("contributing_implementer",
                   (\E n \in own : ~Core(n)) \/ who \in CoAuthors(f))
      \union Given("decision_shaper", concerned(Design))
      \union Given("risk_preventer", concerned(Safety \union {"correctness"}))
      \union Given("integrator", Engaged(who) \/ who \in Resolvers(f))
      \union Given("rollout_sustainer",
                   own \intersect FollowUps \intersect (tables.fixes \union f.upkeep) # {})
      \union Given("enabler", \E n \in own : Enabling(n))
      \union Given("documenter", explained \/ own \intersect tables.docs # {})

-----------------------------------------------------------------------------
(* Credit.                                                                   *)

\* cores has everybody with that role, bots included.
ShareCategory(who, roles, cores) ==
  LET surely == \E i \in episode.interventions : person[i.by] = who /\ i.causal = "high"
      reviewing == {"decision_shaper", "risk_preventer", "integrator", "documenter"}
  IN  IF who \in cores THEN (IF cores = {who} THEN "primary" ELSE "material")
      ELSE IF "contributing_implementer" \in roles THEN "supporting"
      ELSE IF roles \intersect reviewing # {}
           THEN (IF surely THEN "material" ELSE "supporting")
      ELSE IF "originator" \in roles THEN "material" ELSE "unclear"

\* The most relevant role counts, not their sum.
Factor(roles, category, d) ==
  IF roles = {} THEN 0
  ELSE Max({Relevance[r][d] * ShareFactor[category] : r \in roles})

\* Half a grain is rounded to the even one.
Nearest(a, b) ==
  LET q == a \div b
      r == a % b
  IN  IF 2 * r > b \/ (2 * r = b /\ q % 2 = 1) THEN q + 1 ELSE q

\* An episode is to be worth no more than MaxTotal of itself: each share that is
\* scaled to it is rounded on its own.
Limited(factor) ==
  LET total == SumOver(factor, DOMAIN factor)
  IN  [p \in DOMAIN factor |->
         IF total > MaxTotal THEN Nearest(factor[p] * MaxTotal, total) ELSE factor[p]]

\* f.touched are those that took part without a role.
Participants(f) ==
  LET people   == {person[k] : k \in Keys}
      roles    == [p \in people |-> RolesOf(f, p)]
      cores    == {p \in people : "core_implementer" \in roles[p]}
      sharers  == {p \in people \ Bots : roles[p] # {} \/ \E k \in f.touched : person[k] = p}
      category == [p \in sharers |-> ShareCategory(p, roles[p], cores)]
      factors  == [d \in Dimensions |->
                     Limited([p \in sharers |-> Factor(roles[p], category[p], d)])]
  IN  [p \in sharers |-> [roles |-> roles[p], category |-> category[p],
                          factors |-> [d \in Dimensions |-> factors[d][p]]]]
=============================================================================
