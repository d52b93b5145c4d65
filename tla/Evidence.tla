------------------------------ MODULE Evidence ------------------------------
(***************************************************************************)
(* The evidence for and against an episode that impact2/analytics gathers  *)
(* for the rubric: corrective work on it (corrective.py), what its reviews *)
(* changed (review_causal.py) and what it introduced (novelty.py).         *)
(***************************************************************************)
EXTENDS Episodes

CONSTANTS
  HealthyDays,       \* within which one's own fix is normal iteration
  MaxSignals,        \* of each kind that are classed for a pull request
  Penalty            \* of each corrective class, in hundredths

ASSUME SignalsAssumption == MaxSignals \in Nat

-----------------------------------------------------------------------------
(* Corrective work.  A signal that an edge states carries the number of the  *)
(* corrected pull request, not of the correcting one: whoever supersedes or  *)
(* reapplies it is taken for its own author, at no known distance.           *)

CorrectiveClass(n, e) ==
  IF e.type \in {"reverts", "reverted_by"} THEN "confirmed_revert"
  ELSE IF e.type = "proximate" THEN "unrelated_same_area"
  ELSE IF e.type = "linked" /\ author[e.by] # author[n] THEN "probable_regression"
  ELSE IF e.type = "linked"
          /\ tables.merged[e.by] - tables.merged[n] <= HealthyDays
       THEN "healthy_iteration"
  ELSE "self_correction"

\* In the rows of Phase 1 the later fixes stand as they were merged, and the
\* explicit signals by their number and type, those that a title gives at the end.
TypeOrder == [reapplies |-> 1, reverts |-> 2, supersedes |-> 3, reverted_by |-> 4]

Ahead(d, e) ==
  IF e.type \in DOMAIN TypeOrder
  THEN \/ d.type # "reverted_by" /\ e.type = "reverted_by"
       \/ /\ (d.type = "reverted_by") = (e.type = "reverted_by")
          /\ d.by < e.by \/ (d.by = e.by /\ TypeOrder[d.type] < TypeOrder[e.type])
  ELSE LET day(s) == tables.merged[s.by]
       IN  day(d) < day(e) \/ (day(d) = day(e) /\ d.by < e.by)

\* What comes after the first MaxSignals is dropped.
Classed(S) == {e \in S : Cardinality({d \in S : Ahead(d, e)}) < MaxSignals}

Signals(n) ==
  Classed(Explicit(tables, n))
  \union Classed({[type |-> "linked", by |-> m] : m \in Linked(tables, n)})
  \union Classed({[type |-> "proximate", by |-> m] : m \in Proximate(tables, n)})

Events == UNION {{<<n, e>> : e \in Signals(n)} : n \in subject}

ClassOf(event) == CorrectiveClass(event[1], event[2])

Reverted == \E event \in Events : ClassOf(event) = "confirmed_revert"

\* Of any pull request of the episode, reverted or not, and of all its signals.
Reapplied == \E n \in subject : \E e \in Explicit(tables, n) : e.type = "reapplies"

CappedPenalty ==
  LET cost(event) == Penalty[ClassOf(event)]
      capped == Min({100, MapThenSumSet(cost, Events)})
  IN  IF Reapplied /\ Reverted THEN Max({0, capped - 100}) ELSE capped

\* Mutation: a reapplication changes nothing.
CorrectiveUnforgiving ==
  [confirmed |-> Reverted, reapplied |-> Reapplied, penalty |-> CappedPenalty]

Corrective ==
  [confirmed |-> Reverted /\ ~Reapplied, reapplied |-> Reapplied,
   penalty   |-> CappedPenalty]

-----------------------------------------------------------------------------
(* Reviews.  An intervention is a comment with the account that made it, the *)
(* pull request and component it is on, the classes of its concern and what  *)
(* came of it.                                                               *)

Design == {"design_architecture", "alternative_approach", "scope"}

Safety == {"security", "privacy", "data_integrity", "migration_safety"}

Consequential == Design \union Safety \union {"correctness", "performance", "api_contract"}

Serious(i) == i.concerns \intersect Consequential

\* The comment precedes a change of what it is on.
Precedes(i) == i.followed \/ i.outdated

Causal(i) ==
  IF ~Precedes(i) \/ Serious(i) = {} THEN "low"
  ELSE IF i.resolved \/ i.replied THEN "high" ELSE "medium"

Touched(n) == ComponentsOf(Changed(tables, n))

Consequence(i) ==
  IF ~Precedes(i) \/ Serious(i) = {} THEN "none"
  ELSE IF Serious(i) \intersect Safety # {} THEN "prevented_risk"
  ELSE IF Serious(i) \intersect Design # {} /\ Cardinality(Touched(i.pr)) > 1
       THEN "design_change"
  ELSE "local_change"

\* What the rubric and the attribution are told of it.
Assessed(i) ==
  [pr |-> i.pr, by |-> i.by, component |-> i.component, serious |-> Serious(i),
   causal |-> Causal(i), consequence |-> Consequence(i), resolved |-> i.resolved,
   long |-> i.long]

-----------------------------------------------------------------------------
(* Novelty.                                                                  *)

Production(S) == {r \in tables.files : r[1] \in S /\ r[2] \notin Mechanical}

\* It removes more lines of production code than it adds, and whole files; that
\* tests are kept is no condition. The balance of lines is not in the tables.
Simplifies(S, shrinks) == shrinks /\ Production(S) \intersect tables.deleted # {}
=============================================================================
