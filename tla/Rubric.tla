------------------------------- MODULE Rubric -------------------------------
(***************************************************************************)
(* The six evaluators of impact2/dimensions/rubric.py. Each reads the      *)
(* record e of an episode, with the evidence of the analytics, and facts f *)
(* that the tables of this model do not hold, and gives a verdict: a band  *)
(* from 0 to 4 or Unknown, the classes of the artifacts behind it, the     *)
(* confidence, and whether a transformative marker was there.              *)
(***************************************************************************)
EXTENDS Evidence, Measures

CONSTANTS
  Band3Classes, Band4Classes,    \* artifact classes that a band needs
  BroadSpan,                     \* components of a broad change
  ReusedFiles,                   \* later files that make work reusable
  ReusedComponents,              \* ... and components that make it durable
  Adopted, Foundational,         \* [components |-> ..., authors |-> ...]
  Helped, HelpedWidely

ASSUME ClassesAssumption == Band3Classes \in Nat /\ Band4Classes \in Nat

Dimensions == {"product_outcome", "reliability_risk", "engineering_leverage",
               "decision_quality", "propagation_durability",
               "collaborative_amplification"}

Given(class, holds) == IF holds THEN {class} ELSE {}

-----------------------------------------------------------------------------
(* What every evaluator ends with.                                           *)

Confidences == {"high", "medium", "low"}

\* Each reason the evidence is thin costs a level, a missing diff two.
Confidence(e, f) ==
  LET steps == Cardinality(f.thin \intersect {"thread truncated"})
               + Cardinality(Given("", e.blinded)) + Cardinality(Given("", e.unconfirmed))
               + Cardinality(Given("", e.survival.unmeasured)) + Cardinality(Given("", e.doubtful))
               + (IF "no merge commit" \in f.thin THEN 2 ELSE 0)
  IN  CASE steps = 0 -> "high" [] steps = 1 -> "medium" [] OTHER -> "low"

\* Mutation: a marker makes up for doubt.
CapByMarker(band, classes, confidence, marker) ==
  LET n == Cardinality(classes)
      transformative == n >= Band4Classes /\ marker
      b == IF band >= 4 /\ ~transformative THEN 3 ELSE band
  IN  IF b >= 3 /\ n < Band3Classes THEN 2 ELSE b

Cap(band, classes, confidence, marker) ==
  LET n == Cardinality(classes)
      transformative == n >= Band4Classes /\ marker /\ confidence = "high"
      b == IF band >= 4 /\ ~transformative THEN 3 ELSE band
  IN  IF b >= 3 /\ n < Band3Classes THEN 2 ELSE b

Verdict(e, f, band, classes, marker) ==
  [band |-> Cap(band, classes, Confidence(e, f), marker), classes |-> classes,
   confidence |-> Confidence(e, f), marker |-> marker]

\* The early returns, which cap nothing.
Plain(e, f, band, classes) ==
  [band |-> band, classes |-> classes, confidence |-> Confidence(e, f), marker |-> FALSE]

-----------------------------------------------------------------------------
ProductOutcome(e, f) ==
  LET classes == Given("linked_issue", e.issues # {})
                 \union Given("feature_flag", e.flagged)
                 \union Given("docs_or_changelog", e.documented)
                 \union Given("downstream_adoption", e.reach.prs > 0)
                 \union Given("test_coverage", f.tests)
                 \union Given("review_thread", e.reviewed)
      broad  == \/ f.products >= 2
                \/ e.components >= BroadSpan /\ Cardinality(classes) >= 2
      band   == IF broad THEN (IF f.launch THEN 4 ELSE 3)
                ELSE IF e.issues # {} \/ e.flagged \/ f.title THEN 2 ELSE 1
  IN  CASE e.changes = "nothing known" -> Plain(e, f, Unknown, {})
        [] e.changes = "mechanical"    -> Plain(e, f, 0, {})
        [] OTHER -> Verdict(e, f, IF e.corroborated THEN band ELSE Min({band, 2}),
                            classes, f.launch)

\* A safety concern counts whatever came of it.
ReliabilityRisk(e, f) ==
  LET concern  == \E i \in e.interventions : i.serious \intersect Safety # {}
      classes  == Given("risk_surface", f.surface # "none")
                  \union Given("test_coverage", f.tests)
                  \union Given("linked_issue", e.issues # {})
                  \union Given("migration", e.migrating)
                  \union Given("review_safety_thread", concern)
                  \union Given("incident_marker", f.incident)
      high     == f.surface = "high"
      crossing == e.blast >= ProductReach
      band     == IF high /\ crossing THEN (IF f.incident THEN 4 ELSE 3)
                  ELSE IF high \/ (e.fixing /\ e.components > 1) THEN 2 ELSE 1
  IN  CASE e.changes = "nothing known" -> Plain(e, f, Unknown, {})
        [] e.changes # "nothing known" /\ f.surface = "none" /\ ~e.fixing /\ ~concern
             -> Plain(e, f, 0, classes)
        [] OTHER -> Verdict(e, f, IF e.blast = UnknownReach THEN Min({band, 2}) ELSE band,
                            classes, f.incident)

AtLeast(reach, bounds) ==
  reach.components >= bounds.components /\ reach.authors >= bounds.authors

EngineeringLeverage(e, f) ==
  LET classes == Given("propagation_edge", e.reach.files > 0)
                 \union Given("introduced_module", f.marker)
                 \union Given("shared_library", f.library)
                 \union Given("docs_or_changelog", e.documented)
      band    == IF AtLeast(e.reach, Foundational) THEN (IF e.reach.persistent THEN 4 ELSE 3)
                 ELSE IF AtLeast(e.reach, Adopted) THEN 3
                 ELSE IF e.reach.files >= ReusedFiles \/ f.library THEN 2
                 ELSE IF e.reach.files > 0 THEN 1 ELSE 0
  IN  IF e.resolvable THEN Verdict(e, f, band, classes, f.marker)
      ELSE Plain(e, f, Unknown, {})

\* Without an observable before and after the band is at most 1.
DecisionQuality(e, f) ==
  LET strong  == {i \in e.interventions : /\ i.serious \intersect Design # {}
                                          /\ i.consequence # "none"
                                          /\ i.causal \in {"high", "medium"}}
      simpler == e.simplification /\ f.shrinks
      before  == strong # {} \/ simpler \/ e.status = "superseded"
      classes == Given("review_thread", strong # {})
                 \union Given("simplification_diff", simpler)
                 \union Given("superseded_edge", e.status = "superseded")
                 \union Given("pr_body_rationale", f.rationale)
      across  == \/ Cardinality({i.component : i \in strong} \ {NoComponent}) > 1
                 \/ \E i \in strong : i.consequence = "design_change"
      band    == IF across THEN (IF f.redirected THEN 4 ELSE 3)
                 ELSE IF before THEN 2 ELSE 1
  IN  IF before \/ f.rationale THEN Verdict(e, f, band, classes, f.redirected)
      ELSE Plain(e, f, 0, classes)

\* A confirmed revert caps the band; short of one the burden of corrective work
\* costs one band where it rounds to one. A half does not.
PropagationDurability(e, f) ==
  LET classes == Given("survival_measurement", e.survival.measured)
                 \union Given("propagation_edge", e.reach.components > 0)
                 \union Given("persistence_evidence", e.reach.persistent)
                 \union Given("follow_up_pr", e.size > 1)
      chained == e.reach.depth >= 2 /\ e.reach.persistent
      band    == IF chained THEN 4
                 ELSE IF e.reach.components >= ReusedComponents THEN 3
                 ELSE IF e.survival.whole /\ e.size > 1 THEN 2 ELSE 1
      left    == IF e.corrective.confirmed THEN Min({band, 1})
                 ELSE IF e.corrective.penalty > 50 THEN band - 1 ELSE band
      nothing == ~e.survival.measured /\ e.reach.components = 0 /\ ~e.survival.introduced
  IN  IF nothing THEN Plain(e, f, IF e.survival.reasons THEN Unknown ELSE 0, classes)
      ELSE Verdict(e, f, left, classes, chained)

CollaborativeAmplification(e, f) ==
  LET confirmed == {i \in e.interventions : /\ i.consequence # "none"
                                            /\ i.causal \in {"high", "medium"}}
      safety    == {i \in confirmed : i.consequence = "prevented_risk"}
      helped    == [authors    |-> Cardinality({author[i.pr] : i \in confirmed} \ {NoAuthor}),
                    components |-> Cardinality({i.component : i \in confirmed} \ {NoComponent})]
      classes   == Given("causal_review_intervention", confirmed # {})
                   \union Given("safety_intervention", safety # {})
                   \union Given("docs_or_changelog", e.documented)
                   \union Given("issue_triage", e.issues # {})
      band      == IF AtLeast(helped, HelpedWidely) THEN 4
                   ELSE IF AtLeast(helped, Helped) \/ safety # {} THEN 3 ELSE 2
  IN  IF confirmed # {} \/ e.documented
      THEN Verdict(e, f, band, classes, Cardinality(safety) > 1)
      ELSE IF \E i \in e.interventions : i.resolved
      THEN Plain(e, f, 1, {"causal_review_intervention"})
      ELSE Plain(e, f, 0, classes)

Evaluate(d, e, f) ==
  CASE d = "product_outcome"        -> ProductOutcome(e, f)
    [] d = "reliability_risk"       -> ReliabilityRisk(e, f)
    [] d = "engineering_leverage"   -> EngineeringLeverage(e, f)
    [] d = "decision_quality"       -> DecisionQuality(e, f)
    [] d = "propagation_durability" -> PropagationDurability(e, f)
    [] d = "collaborative_amplification" -> CollaborativeAmplification(e, f)
=============================================================================
