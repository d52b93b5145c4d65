------------------------------ MODULE Ranking ------------------------------
(***************************************************************************)
(* run_scenario of impact2/rank/outranking.py: the matrix of credibilities *)
(* of the rankable engineers, then its two distillations.                  *)
(***************************************************************************)
EXTENDS Distillation, Outranking

CONSTANT Values    \* what a dimension can come out as

ASSUME ValuesAssumption == Values \subseteq Int /\ Unknown \notin Int

VARIABLE portfolios    \* portfolios[a]: the values and the counterevidence of a

rankVars == <<portfolios, cred, dist>>

Compared == [value : [Criteria -> Values \union {Unknown}], severe : BOOLEAN]

Matrix(P) == [e \in Comparisons |-> Credibility(P[e[1]], P[e[2]])]

\* Every set of portfolios, and the matrix made of it.
RunScenario ==
  /\ portfolios \in [Engineers -> Compared]
  /\ cred = Matrix(portfolios)
  /\ Start

FinalRanking == Distil /\ UNCHANGED portfolios

RankingSpec == RunScenario /\ [][FinalRanking]_rankVars

-----------------------------------------------------------------------------
(* Properties. *)

\* b has no value a does not reach, on the criteria known of both.
NoWorse(a, b) ==
  /\ \A j \in Criteria :
       \/ portfolios[a].value[j] = Unknown /\ portfolios[b].value[j] = Unknown
       \/ Unknown \notin {portfolios[a].value[j], portfolios[b].value[j]}
          /\ portfolios[a].value[j] >= portfolios[b].value[j]
  /\ portfolios[a].severe => portfolios[b].severe

\* Who is as good on every criterion and has no more counterevidence is never
\* in a tier behind: thresholds, vetoes, cuts and ties never turn the evidence
\* round, and equal evidence shares a tier.
BetterIsNotBehind ==
  pass = "done" =>
    \A a, b \in Engineers : a # b /\ NoWorse(a, b) => Tier(a) <= Tier(b)
=============================================================================
