----------------------------- MODULE CrossCheck -----------------------------
(***************************************************************************)
(* The cross-checks of impact2/rank/outranking.py: promethee_ii ranks the  *)
(* engineers of a scenario by their net flow, promethee_iii puts an        *)
(* interval around the same flow and separates two engineers only when     *)
(* their intervals do not meet. Neither makes the published ranking.       *)
(*                                                                         *)
(* A mean over the others is kept as the sum, and its standard deviation   *)
(* times their number, so that little is rounded: the quotients of         *)
(* Outranking, the variance and its root.                                  *)
(***************************************************************************)
EXTENDS Ranking

CONSTANT Width     \* outranking.promethee_iii.alpha, in units of 1 / Scale

ASSUME WidthAssumption == Width \in Nat

-----------------------------------------------------------------------------
(* One pair. *)

\* _linear_preference
Linear(j, diff) ==
  LET q == indifference[j]
      p == preference[j]
  IN  IF diff <= q THEN 0
      ELSE IF diff >= p THEN Scale
      ELSE IF p > q THEN Fraction(diff - q, p - q) ELSE Scale

\* Mutation: the other way round.
PreferredReversed(a, b) ==
  LET J == Known(a, b)
  IN  IF SumOver(weight, J) = 0 THEN 0
      ELSE SumOver([j \in J |-> weight[j] * Linear(j, b.value[j] - a.value[j])], J)
             \div SumOver(weight, J)

\* Nothing to compare is no preference, and the pair still counts.
Preferred(a, b) ==
  LET J == Known(a, b)
  IN  IF SumOver(weight, J) = 0 THEN 0
      ELSE SumOver([j \in J |-> weight[j] * Linear(j, a.value[j] - b.value[j])], J)
             \div SumOver(weight, J)

Difference(a, b) ==
  Preferred(portfolios[a], portfolios[b]) - Preferred(portfolios[b], portfolios[a])

-----------------------------------------------------------------------------
(* One engineer among the others. *)

Others(a) == Engineers \ {a}

\* The net flow, summed and not yet divided.
Flow(a) == SumOver([b \in Others(a) |-> Difference(a, b)], Others(a))

\* promethee_ii
NetFlow(a) == IF Others(a) = {} THEN 0 ELSE Flow(a) \div Cardinality(Others(a))

\* The integer root, of what is no greater than the square of the bound.
Root(n) ==
  LET bound == Scale * Cardinality(Engineers)
  IN  CHOOSE r \in 0 .. bound :
        r * r <= n /\ (r = bound \/ n < (r + 1) * (r + 1))

\* The population standard deviation of the differences, on the scale of Flow.
Dispersion(a) ==
  LET n == Cardinality(Others(a))
      squares == [b \in Others(a) |-> (n * Difference(a, b) - Flow(a)) * (n * Difference(a, b) - Flow(a))]
  IN  IF n = 0 THEN 0 ELSE Root(SumOver(squares, Others(a)) \div n)

LowerBound(a) == Scale * Flow(a) - Width * Dispersion(a)
UpperBound(a) == Scale * Flow(a) + Width * Dispersion(a)

\* a is strictly preferred to b.
Beats(a, b) == a # b /\ LowerBound(a) > UpperBound(b)

\* promethee_iii
StandsAt(a) == Cardinality({b \in Engineers : Beats(b, a)}) + 1

-----------------------------------------------------------------------------
(* Properties. *)

\* The intervals separate consistently, however wide they are: who is strictly
\* preferred stands before, and promethee_ii, which knows no intervals, does not
\* put him behind by his net flow.
BeatenIsBehind ==
  pass = "done" =>
    \A a, b \in Engineers :
      Beats(a, b) => StandsAt(a) < StandsAt(b) /\ NetFlow(a) >= NetFlow(b)

\* The cross-checks agree with the evidence where the ranking does: who is as
\* good on every criterion has no smaller net flow and is never separated to his
\* disadvantage, although the two are compared with each other and each with all
\* the rest, on the criteria that are known of either pair.
CrossChecksKeepDominance ==
  pass = "done" =>
    \A a, b \in Engineers :
      a # b /\ NoWorse(a, b) => NetFlow(a) >= NetFlow(b) /\ ~Beats(b, a)
=============================================================================
