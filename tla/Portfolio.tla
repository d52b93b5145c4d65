------------------------------ MODULE Portfolio ------------------------------
(***************************************************************************)
(* What the episodes of an engineer come to in one dimension               *)
(* (impact2/portfolio/build.py), and the counterevidence against him       *)
(* (impact2/pipeline.py). Values are in ten-thousandths of a band.         *)
(***************************************************************************)
EXTENDS Attribution, SequencesExt

CONSTANTS
  Discount, HalfWidth,     \* of a confidence, in hundredths
  Coefficients,            \* of the first entries, the strongest one first
  Headroom, ScaleMax,
  SevereBand,
  MinEpisodes, MinKnown, MaxUnknown, MinDiscount

ASSUME PortfolioAssumption ==
  /\ Discount \in [Confidences -> Nat] /\ HalfWidth \in [Confidences -> Nat]
  /\ Coefficients \in Seq(Nat)
  /\ Headroom \in Nat /\ ScaleMax \in Nat

-----------------------------------------------------------------------------
(* Entries.  An entry is one episode seen in one dimension by one engineer.  *)

\* One for each episode, which has a number.
AreEntries(E) ==
  /\ IsFiniteSet(E)
  /\ \A e \in E : /\ e.id \in Nat /\ e.band \in Nat \union {Unknown}
                  /\ e.confidence \in Confidences
                  /\ e.factor \in Nat /\ e.decay \in Nat
  /\ \A e, f \in E : e.id = f.id => e = f

\* Exploratory work, an Unknown band and a factor too small contribute nothing.
Contributes(e) ==
  Ranked(e.status) /\ e.band # Unknown /\ e.factor >= MinFactor

ValueOf(e) == (e.band * Discount[e.confidence] * e.factor * e.decay) \div 10000

Spread(e) == (HalfWidth[e.confidence] * e.factor * Discount[e.confidence]) \div 10000

Low(e) == Max({0, ValueOf(e) - Spread(e)})

High(e) == Min({ScaleMax, ValueOf(e) + Spread(e)})

Stronger(e, f) == ValueOf(e) > ValueOf(f) \/ (ValueOf(e) = ValueOf(f) /\ e.id < f.id)

\* Mutation: of a group the latest counts.
IndependentLatest(E) ==
  {e \in {f \in E : Contributes(f)} :
     \A f \in E : Contributes(f) /\ f.group = e.group => f.id <= e.id}

\* Of the episodes of a group the strongest counts.
Independent(E) ==
  {e \in {f \in E : Contributes(f)} :
     \A f \in E : Contributes(f) /\ f.group = e.group /\ f # e => Stronger(e, f)}

-----------------------------------------------------------------------------
(* Ordered weighted average: the strongest in full, the others at falling    *)
(* coefficients and together within the headroom.                            *)

AggregateOrdered(values) ==
  LET others == (DOMAIN values \intersect DOMAIN Coefficients) \ {1}
      part   == [i \in others |-> (Coefficients[i] * values[i]) \div 100]
  IN  Min({ScaleMax, values[1] + Min({Headroom, SumOver(part, others)})})

\* of[e] for the entries e, the largest first.
Ordered(of) ==
  LET E == DOMAIN of
      before(e, f) == of[e] > of[f] \/ (of[e] = of[f] /\ e.id < f.id)
      place(e) == 1 + Cardinality({f \in E : before(f, e)})
  IN  [i \in 1..Cardinality(E) |-> of[CHOOSE e \in E : place(e) = i]]

DimensionValue(E) ==
  LET I == Independent(E)
  IN  IF I = {} THEN [value |-> Unknown, low |-> Unknown, high |-> Unknown]
      ELSE [value |-> AggregateOrdered(Ordered([e \in I |-> ValueOf(e)])),
            low   |-> AggregateOrdered(Ordered([e \in I |-> Low(e)])),
            high  |-> AggregateOrdered(Ordered([e \in I |-> High(e)]))]

\* The most frequent confidence of the three strongest; of equals any.
Dominant(E) ==
  LET I == Independent(E)
      first == {e \in I : Cardinality({f \in I : Stronger(f, e)}) < 3}
      votes(c) == Cardinality({e \in first : e.confidence = c})
  IN  {e.confidence : e \in {f \in first : \A d \in first :
                               votes(f.confidence) >= votes(d.confidence)}}

\* Known[d] is the confidence of a dimension that has a value.
Rankable(episodes, known) ==
  LET discount(d) == Discount[known[d]]
  IN  /\ episodes >= MinEpisodes
      /\ Cardinality(DOMAIN known) >= MinKnown
      /\ Cardinality(Dimensions \ DOMAIN known) <= MaxUnknown
      /\ MapThenSumSet(discount, DOMAIN known) >= MinDiscount * Cardinality(DOMAIN known)

-----------------------------------------------------------------------------
(* Severe counterevidence: he had a large share of an episode that reached   *)
(* the band in some dimension and was reverted for good.                     *)

Severe(e) ==
  e.category \in {"primary", "material"} /\ e.confirmed /\ e.peak >= SevereBand
=============================================================================
