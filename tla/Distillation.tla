---------------------------- MODULE Distillation ----------------------------
(***************************************************************************)
(* Roy's distillation as impact2/rank/outranking.py runs it: from the      *)
(* credibilities of "a outranks b" it takes out class after class, the     *)
(* best first (descending) and then the worst first (ascending), and       *)
(* final_ranking makes tiers of the two orders.  Credibilities and the     *)
(* discrimination threshold are in units of 1 / Scale.                     *)
(***************************************************************************)
EXTENDS Measures

CONSTANTS
  Engineers,        \* the alternatives
  Alpha, Beta,      \* outranking.distillation.alpha and beta
  MaxIterations     \* outranking.distillation.max_iterations

\* s(lambda) = alpha - beta * lambda is not negative.
ASSUME DistillationAssumption ==
  /\ IsFiniteSet(Engineers)
  /\ Scale \in Nat \ {0}
  /\ Alpha \in Nat /\ Beta \in 0 .. Alpha
  /\ MaxIterations \in Nat \ {0}

VARIABLES
  cred,        \* cred[<<a, b>>]: the credibility of "a outranks b"
  pass,        \* the distillation that runs
  rank,        \* rank[pass][a]: the iteration that took a out, 0 while it is in
  remaining,   \* who is not in a class yet
  subset,      \* who the inner loop is narrowed down to
  iterations

dist == <<pass, rank, remaining, subset, iterations>>

Comparisons == {e \in Engineers \X Engineers : e[1] # e[2]}
Passes == {"descending", "ascending"}

-----------------------------------------------------------------------------
(* One look at a subset. *)

\* lam <= 0: nobody outranks anybody.
Level(T) == \A a, b \in T : a # b => cred[<<a, b>>] = 0

\* x > cut, where cut = lam - s(lam) and lam is the largest credibility in T.
AboveCut(T, x) ==
  \A a, b \in T :
    a # b => Scale * x > cred[<<a, b>>] * (Scale + Beta) - Scale * Alpha

\* x > y + s(x)
Separates(x, y) == x * (Scale + Beta) > Scale * y + Scale * Alpha

\* Who outranks whom within T.
Preferences(T) ==
  {e \in Comparisons : /\ e[1] \in T /\ e[2] \in T
                 /\ AboveCut(T, cred[e])
                 /\ Separates(cred[e], cred[<<e[2], e[1]>>])}

Strengths(P, a) == Cardinality({b \in Engineers : <<a, b>> \in P})
Weaknesses(P, a) == Cardinality({b \in Engineers : <<b, a>> \in P})

Qualification(P, a) == Strengths(P, a) - Weaknesses(P, a)

\* max or min of the qualifications.
Candidates(T) ==
  LET score == [a \in T |-> Qualification(Preferences(T), a)]
  IN  {a \in T : \A b \in T :
         IF pass = "descending" THEN score[b] <= score[a] ELSE score[a] <= score[b]}

\* The inner loop ends: all are level, all are equal, or one is left.
Settled(T) ==
  Level(T) \/ Candidates(T) = T \/ Cardinality(Candidates(T)) = 1

Chosen(T) == IF Level(T) THEN T ELSE Candidates(T)

-----------------------------------------------------------------------------
Start ==
  /\ pass = "descending"
  /\ rank = [d \in Passes |-> [a \in Engineers |-> 0]]
  /\ remaining = Engineers /\ subset = Engineers
  /\ iterations = 1

AnyMatrix == cred \in [Comparisons -> 0 .. Scale] /\ Start

Running == pass \in Passes /\ remaining # {} /\ iterations <= MaxIterations

\* One class less to look at.
Narrow ==
  /\ Running /\ ~Settled(subset)
  /\ subset' = Candidates(subset)
  /\ UNCHANGED <<cred, pass, rank, remaining, iterations>>

\* A class is taken out; the next iteration looks at all the others.
TakeClass ==
  /\ Running /\ Settled(subset)
  /\ rank' = [rank EXCEPT ![pass] =
       [a \in Engineers |-> IF a \in Chosen(subset) THEN iterations ELSE @[a]]]
  /\ remaining' = remaining \ Chosen(subset)
  /\ subset' = remaining'
  /\ iterations' = iterations + 1
  /\ UNCHANGED <<cred, pass>>

\* Who is left when the iterations are used up makes one last class.
EndPass ==
  /\ pass \in Passes /\ ~Running
  /\ rank' = [rank EXCEPT ![pass] =
       [a \in Engineers |-> IF a \in remaining THEN iterations ELSE @[a]]]
  /\ pass' = IF pass = "descending" THEN "ascending" ELSE "done"
  /\ remaining' = Engineers /\ subset' = Engineers
  /\ iterations' = 1
  /\ UNCHANGED cred

Distil == Narrow \/ TakeClass \/ EndPass

DistillationSpec == AnyMatrix /\ [][Distil]_<<cred, dist>>

-----------------------------------------------------------------------------
(* What final_ranking makes of it. *)

\* Mutation: the ascending chain is not reversed.
MedianUnreversed(a) == rank["descending"][a] + rank["ascending"][a]

\* Twice the mean of the two positions, but for a constant: the ascending chain
\* is reversed.
Median(a) == rank["descending"][a] - rank["ascending"][a]

Better(a) == {Median(b) : b \in {c \in Engineers : Median(c) < Median(a)}}

Tier(a) == Cardinality(Better(a)) + 1

-----------------------------------------------------------------------------
(* Properties. *)

TypeOK ==
  /\ cred \in [Comparisons -> 0 .. Scale]
  /\ pass \in Passes \union {"done"}
  /\ rank \in [Passes -> [Engineers -> 0 .. MaxIterations + 1]]
  /\ remaining \subseteq Engineers
  /\ subset \subseteq remaining
  /\ iterations \in 1 .. MaxIterations + 1

\* Both chains place everybody, each before the other pass has begun.
EverybodyIsPlaced ==
  \A d \in Passes, a \in Engineers :
    rank[d][a] = 0 => pass = d \/ (pass = "descending" /\ d = "ascending")

\* a outranks whomever b outranks, at least as credibly, and is outranked by
\* nobody who does not outrank b as credibly.
Dominates(a, b) ==
  /\ cred[<<a, b>>] >= cred[<<b, a>>]
  /\ \A c \in Engineers \ {a, b} :
       cred[<<a, c>>] >= cred[<<b, c>>] /\ cred[<<c, a>>] <= cred[<<c, b>>]

\* Two distillations with their cut levels and narrowings never put somebody
\* behind one he dominates, and so put equals into one tier.
DominanceIsKept ==
  pass = "done" =>
    \A a, b \in Engineers : a # b /\ Dominates(a, b) => Median(a) <= Median(b)
=============================================================================
