----------------------------- MODULE Outranking -----------------------------
(***************************************************************************)
(* The comparison of two engineers in impact2/rank/outranking.py (ELECTRE  *)
(* III): concordance and discordance per criterion, the credibility made   *)
(* of them and the veto of counterevidence. The code computes in decimal   *)
(* fractions and rounds concordance, discordance and credibility to six    *)
(* places; here every quotient, those of Softened included, is rounded     *)
(* down to a multiple of 1 / Scale.                                        *)
(***************************************************************************)
EXTENDS Measures

CONSTANTS
  Criteria,    \* the dimensions compared
  weight,
  indifference, preference, veto    \* the thresholds q, p and v of a criterion

ASSUME CriteriaAssumption ==
  /\ IsFiniteSet(Criteria)
  /\ weight \in [Criteria -> Nat]
  /\ indifference \in [Criteria -> Int]
  /\ preference \in [Criteria -> Int]
  /\ veto \in [Criteria -> Int]

Fraction(n, d) == (n * Scale) \div d

-----------------------------------------------------------------------------
(* One criterion. *)

Concordance(j, ga, gb) ==
  LET q == indifference[j]
      p == preference[j]
  IN  IF ga >= gb - q THEN Scale
      ELSE IF ga <= gb - p THEN 0
      ELSE IF p > q THEN Fraction(p - (gb - ga), p - q) ELSE 0

Discordance(j, ga, gb) ==
  LET p == preference[j]
      v == veto[j]
  IN  IF gb <= ga + p THEN 0
      ELSE IF gb >= ga + v THEN Scale
      ELSE IF v > p THEN Fraction(gb - ga - p, v - p) ELSE 0

-----------------------------------------------------------------------------
(* One pair.  An engineer has a value for each criterion, and is severe if   *)
(* there is severe counterevidence of his work.                              *)

\* Unknown is not zero: the criterion is left out of the pair.
Known(a, b) == {j \in Criteria : Unknown \notin {a.value[j], b.value[j]}}

Overall(a, b) ==
  LET J == Known(a, b)
  IN  SumOver([j \in J |-> weight[j] * Concordance(j, a.value[j], b.value[j])], J)
        \div SumOver(weight, J)

\* C damped by every criterion of J whose discordance exceeds it.
Softened(C, discordance, J) ==
  FoldSet(LAMBDA j, value :
            IF discordance[j] > C
            THEN (value * (Scale - discordance[j])) \div (Scale - C) ELSE value,
          C, J)

\* Mutation: the discordance of the lead, not of the lag.
DampedByLead(C, a, b) ==
  LET J == Known(a, b)
      d == [j \in J |-> Discordance(j, b.value[j], a.value[j])]
  IN  IF \E j \in J : d[j] = Scale THEN 0 ELSE Softened(C, d, J)

\* A full discordance is a veto, also where nothing else is.
Damped(C, a, b) ==
  LET J == Known(a, b)
      d == [j \in J |-> Discordance(j, a.value[j], b.value[j])]
  IN  IF \E j \in J : d[j] = Scale THEN 0 ELSE Softened(C, d, J)

\* The outranking rests on one criterion, or on none.
Carried(a, b) ==
  Cardinality({j \in Known(a, b) :
    weight[j] > 0 /\ 2 * Concordance(j, a.value[j], b.value[j]) > Scale}) <= 1

\* Zero when no criterion is known of both.
Credibility(a, b) ==
  IF SumOver(weight, Known(a, b)) = 0 \/ (a.severe /\ Carried(a, b)) THEN 0
  ELSE Damped(Overall(a, b), a, b)
=============================================================================
