----------------------------- MODULE Regression -----------------------------
(***************************************************************************)
(* What impact/features/regression.py tells of every pull request: which   *)
(* later ones say or suggest that it had to be corrected, and how many of  *)
(* the files it introduced were still there a while later. Survival is in  *)
(* hundredths.                                                             *)
(***************************************************************************)
EXTENDS ArtifactGraph

CONSTANTS
  WindowEnd,
  ProximityDays,     \* a fix within so many days may be a fix of this
  SurvivalDays

CodePaths(t, n) == {p \in Paths \ Mechanical : <<n, p>> \in t.files}

Introduced(t, n) == {p \in CodePaths(t, n) : <<n, p>> \in t.added}

\* What an edge says of the pull request it points at.
Stated(t, n) ==
  {[type |-> l.type, by |-> l.source] : l \in {k \in t.links :
     k.target = n /\ k.type \in {"reverts", "reapplies", "supersedes"}}}

\* What the title of a later one says.
Retitled(t, n) ==
  {[type |-> "reverted_by", by |-> m] : m \in {k \in PRs :
     /\ <<k, n>> \in t.retitled /\ k # n
     /\ t.merged[n] # Never /\ t.merged[k] > t.merged[n]}}

Explicit(t, n) == Stated(t, n) \union Retitled(t, n)

LaterFixes(t, n) ==
  {m \in t.fixes \ {n} : /\ t.merged[n] # Never /\ CodePaths(t, n) # {}
                         /\ t.merged[m] > t.merged[n]
                         /\ t.merged[m] <= t.merged[n] + ProximityDays}

Closes(t, n) == {i \in Issues : \E l \in t.links :
                   l.type = "closes_issue" /\ l.source = n /\ l.target = i}

Flags(t, n) == {k \in DOMAIN t.flags : n \in t.flags[k]}

Linked(t, n) ==
  {m \in LaterFixes(t, n) : Closes(t, n) \intersect Closes(t, m) # {}
                            \/ Flags(t, n) \intersect Flags(t, m) # {}}

Proximate(t, n) ==
  {m \in LaterFixes(t, n) \ Linked(t, n) :
     CodePaths(t, n) \intersect CodePaths(t, m) # {}}

RequiresHuman(t, n) ==
  Proximate(t, n) # {} /\ Explicit(t, n) = {} /\ Linked(t, n) = {}

WasReverted(t, n) == \E e \in Explicit(t, n) : e.type \in {"reverts", "reverted_by"}

\* Pull request by pull request in the order of their numbers, which need not
\* be the order they were merged in: only a later number takes a deletion back.
DeletedAt(t, p) ==
  LET at[n \in Nat] ==
        IF n = 0 THEN Never
        ELSE IF n \notin PRs \/ t.merged[n] = Never THEN at[n - 1]
        ELSE IF <<n, p>> \in t.deleted THEN Max({at[n - 1], t.merged[n]})
        ELSE IF <<n, p>> \in t.files /\ t.merged[n] > at[n - 1] THEN Never
        ELSE at[n - 1]
  IN  at[Max(PRs)]

\* Not known is not zero: the window may end before the checkpoint.
Measured(t, n) ==
  /\ t.merged[n] # Never /\ Introduced(t, n) # {}
  /\ t.merged[n] + SurvivalDays <= WindowEnd

Survival(t, n) ==
  LET gone == {p \in Introduced(t, n) : DeletedAt(t, p) \in 1..(t.merged[n] + SurvivalDays)}
  IN  100 - (100 * Cardinality(gone)) \div Cardinality(Introduced(t, n))
=============================================================================
