-------------------------- MODULE Ranking_proofs ---------------------------
(***************************************************************************)
(* Proofs about Distillation, for any engineers, any credibilities, any    *)
(* threshold that is not negative and any number of iterations; and about  *)
(* Outranking, Ranking and CrossCheck, for any criteria, weights,          *)
(* thresholds, values and width of the intervals.                          *)
(***************************************************************************)
EXTENDS CrossCheck, TLAPS, FiniteSetTheorems, WellFoundedInduction

(***************************************************************************)
(* The parts of the inductive invariant.                                   *)
(***************************************************************************)

\* Whoever is not left was taken out by an iteration already over, and a pass
\* that is over has taken out everybody.
RankCounts ==
  /\ pass \in Passes =>
       \A a \in Engineers :
         /\ a \in remaining <=> rank[pass][a] = 0
         /\ rank[pass][a] < iterations
  /\ pass = "descending" => \A a \in Engineers : rank["ascending"][a] = 0
  /\ pass # "descending" => \A a \in Engineers : rank["descending"][a] # 0
  /\ pass = "done" => \A a \in Engineers : rank["ascending"][a] # 0

\* x leaves the pass no later than y, and no narrowing keeps y without x.
LeavesFirst(x, y) ==
  /\ y \notin remaining => x \notin remaining /\ rank[pass][x] <= rank[pass][y]
  /\ y \in subset => x \in subset \/ x \notin remaining

Kept ==
  \A a, b \in Engineers : a # b /\ Dominates(a, b) =>
    /\ pass = "descending" => LeavesFirst(a, b)
    /\ pass = "ascending" => LeavesFirst(b, a)
    /\ pass # "descending" => rank["descending"][a] <= rank["descending"][b]
    /\ pass = "done" => rank["ascending"][b] <= rank["ascending"][a]

IInv == TypeOK /\ RankCounts /\ Kept

-----------------------------------------------------------------------------
(***************************************************************************)
(* One look at a subset.                                                   *)
(***************************************************************************)

LEMMA CredType ==
  ASSUME TypeOK, NEW a \in Engineers, NEW b \in Engineers, a # b
  PROVE  cred[<<a, b>>] \in Nat
<1>1. <<a, b>> \in Comparisons
  BY DEF Comparisons
<1>2. QED
  BY <1>1, DistillationAssumption DEF TypeOK

LEMMA Grows ==
  ASSUME NEW x \in Nat, NEW y \in Nat, NEW k \in Nat, x >= y
  PROVE  x * k >= y * k
BY Z3

\* Who outranks is at least as credible.
LEMMA SeparatesIsAhead ==
  ASSUME NEW x \in 0 .. Scale, NEW y \in 0 .. Scale, Separates(x, y)
  PROVE  x > y
<1> USE DistillationAssumption
<1>1. SUFFICES ASSUME x <= y PROVE FALSE
  OBVIOUS
<1>2. x * (Scale + Beta) = Scale * x + x * Beta
  BY Z3
<1>3. Scale * x <= Scale * y
  BY <1>1, Grows
<1>4. x * Beta <= Scale * Alpha
  <2>1. x * Beta <= Scale * Beta
    BY Grows
  <2>2. Scale * Beta <= Scale * Alpha
    BY Grows
  <2>3. QED
    BY <2>1, <2>2
<1>5. x * (Scale + Beta) <= Scale * y + Scale * Alpha
  BY <1>2, <1>3, <1>4
<1>6. QED
  BY <1>5 DEF Separates

LEMMA SeparatesMore ==
  ASSUME NEW x \in Nat, NEW y \in Nat, NEW x1 \in Nat, NEW y1 \in Nat,
         x >= x1, y <= y1, Separates(x1, y1)
  PROVE  Separates(x, y)
<1>1. x * (Scale + Beta) >= x1 * (Scale + Beta)
  BY Grows, DistillationAssumption
<1>2. Scale * y1 >= Scale * y
  BY Grows, DistillationAssumption
<1>3. /\ x * (Scale + Beta) \in Nat /\ x1 * (Scale + Beta) \in Nat
      /\ Scale * y \in Nat /\ Scale * y1 \in Nat /\ Scale * Alpha \in Nat
  BY DistillationAssumption, Z3
<1>4. QED
  BY <1>1, <1>2, <1>3 DEF Separates

LEMMA AboveCutMore ==
  ASSUME TypeOK, NEW T \in SUBSET Engineers,
         NEW x \in Nat, NEW x1 \in Nat, x >= x1, AboveCut(T, x1)
  PROVE  AboveCut(T, x)
<1> SUFFICES ASSUME NEW a \in T, NEW b \in T, a # b
             PROVE  Scale * x > cred[<<a, b>>] * (Scale + Beta) - Scale * Alpha
  BY DEF AboveCut
<1>1. Scale * x >= Scale * x1
  BY Grows, DistillationAssumption
<1>2. Scale * x1 > cred[<<a, b>>] * (Scale + Beta) - Scale * Alpha
  BY DEF AboveCut
<1>3. cred[<<a, b>>] \in Nat
  BY CredType
<1>4. /\ Scale * x \in Nat /\ Scale * x1 \in Nat /\ Scale * Alpha \in Nat
      /\ cred[<<a, b>>] * (Scale + Beta) \in Nat
  BY <1>3, DistillationAssumption, Z3
<1>5. QED
  BY <1>1, <1>2, <1>4

\* The one dominated is not preferred to the one who dominates.
LEMMA DominatedIsNotPreferred ==
  ASSUME TypeOK, NEW T \in SUBSET Engineers, NEW a \in Engineers, NEW b \in Engineers,
         a # b, Dominates(a, b)
  PROVE  <<b, a>> \notin Preferences(T)
<1>1. SUFFICES ASSUME Separates(cred[<<b, a>>], cred[<<a, b>>]) PROVE FALSE
  BY DEF Preferences
<1>2. <<a, b>> \in Comparisons /\ <<b, a>> \in Comparisons
  BY DEF Comparisons
<1>3. cred[<<a, b>>] \in 0 .. Scale /\ cred[<<b, a>>] \in 0 .. Scale
  BY <1>2 DEF TypeOK
<1>4. cred[<<b, a>>] > cred[<<a, b>>]
  BY <1>1, <1>3, SeparatesIsAhead
<1>5. QED
  BY <1>3, <1>4, DistillationAssumption DEF Dominates

LEMMA PrefersMore ==
  ASSUME TypeOK, NEW T \in SUBSET Engineers, NEW a \in T, NEW b \in T, a # b,
         Dominates(a, b), NEW c \in Engineers, <<b, c>> \in Preferences(T)
  PROVE  <<a, c>> \in Preferences(T)
<1>1. c \in T /\ c # b
  BY DEF Preferences, Comparisons
<1>2. c # a
  BY DominatedIsNotPreferred
<1>3. AboveCut(T, cred[<<b, c>>]) /\ Separates(cred[<<b, c>>], cred[<<c, b>>])
  BY DEF Preferences
<1>4. cred[<<a, c>>] >= cred[<<b, c>>] /\ cred[<<c, a>>] <= cred[<<c, b>>]
  BY <1>1, <1>2 DEF Dominates
<1>5. /\ cred[<<a, c>>] \in Nat /\ cred[<<b, c>>] \in Nat
      /\ cred[<<c, a>>] \in Nat /\ cred[<<c, b>>] \in Nat
  BY <1>1, <1>2, CredType
<1>6. AboveCut(T, cred[<<a, c>>])
  BY <1>3, <1>4, <1>5, AboveCutMore
<1>7. Separates(cred[<<a, c>>], cred[<<c, a>>])
  BY <1>3, <1>4, <1>5, SeparatesMore
<1>8. QED
  BY <1>1, <1>2, <1>6, <1>7 DEF Preferences, Comparisons

LEMMA PreferredLess ==
  ASSUME TypeOK, NEW T \in SUBSET Engineers, NEW a \in T, NEW b \in T, a # b,
         Dominates(a, b), NEW c \in Engineers, <<c, a>> \in Preferences(T)
  PROVE  <<c, b>> \in Preferences(T)
<1>1. c \in T /\ c # a
  BY DEF Preferences, Comparisons
<1>2. c # b
  BY DominatedIsNotPreferred
<1>3. AboveCut(T, cred[<<c, a>>]) /\ Separates(cred[<<c, a>>], cred[<<a, c>>])
  BY DEF Preferences
<1>4. cred[<<a, c>>] >= cred[<<b, c>>] /\ cred[<<c, a>>] <= cred[<<c, b>>]
  BY <1>1, <1>2 DEF Dominates
<1>5. /\ cred[<<a, c>>] \in Nat /\ cred[<<b, c>>] \in Nat
      /\ cred[<<c, a>>] \in Nat /\ cred[<<c, b>>] \in Nat
  BY <1>1, <1>2, CredType
<1>6. AboveCut(T, cred[<<c, b>>])
  BY <1>3, <1>4, <1>5, AboveCutMore
<1>7. Separates(cred[<<c, b>>], cred[<<b, c>>])
  BY <1>3, <1>4, <1>5, SeparatesMore
<1>8. QED
  BY <1>1, <1>2, <1>6, <1>7 DEF Preferences, Comparisons

\* Who dominates is never qualified less, whatever the subset.
LEMMA QualificationKeepsDominance ==
  ASSUME TypeOK, NEW T \in SUBSET Engineers, NEW a \in T, NEW b \in T, a # b,
         Dominates(a, b)
  PROVE  Qualification(Preferences(T), b) <= Qualification(Preferences(T), a)
<1> DEFINE P == Preferences(T)
           Over(x) == {y \in Engineers : <<x, y>> \in P}
           Under(x) == {y \in Engineers : <<y, x>> \in P}
<1>1. Over(b) \subseteq Over(a)
  BY PrefersMore
<1>2. Under(a) \subseteq Under(b)
  BY PreferredLess
<1>3. /\ IsFiniteSet(Over(a)) /\ IsFiniteSet(Under(a))
      /\ IsFiniteSet(Over(b)) /\ IsFiniteSet(Under(b))
  BY FS_Subset, DistillationAssumption
<1>4. /\ Cardinality(Over(b)) <= Cardinality(Over(a))
      /\ Cardinality(Under(a)) <= Cardinality(Under(b))
  BY <1>1, <1>2, <1>3, FS_Subset
<1>5. /\ Cardinality(Over(a)) \in Nat /\ Cardinality(Under(a)) \in Nat
      /\ Cardinality(Over(b)) \in Nat /\ Cardinality(Under(b)) \in Nat
  BY <1>3, FS_CardinalityType
<1>6. /\ Qualification(P, a) = Cardinality(Over(a)) - Cardinality(Under(a))
      /\ Qualification(P, b) = Cardinality(Over(b)) - Cardinality(Under(b))
  BY DEF Qualification, Strengths, Weaknesses
<1> HIDE DEF Over, Under
<1>7. Qualification(P, b) <= Qualification(P, a)
  BY <1>4, <1>5, <1>6
<1>8. QED
  BY <1>7

LEMMA QualificationType ==
  ASSUME NEW P \in SUBSET Comparisons, NEW a \in Engineers
  PROVE  Qualification(P, a) \in Int
<1>1. /\ IsFiniteSet({b \in Engineers : <<a, b>> \in P})
      /\ IsFiniteSet({b \in Engineers : <<b, a>> \in P})
  BY FS_Subset, DistillationAssumption
<1>2. Strengths(P, a) \in Nat /\ Weaknesses(P, a) \in Nat
  BY <1>1, FS_CardinalityType DEF Strengths, Weaknesses
<1>3. QED
  BY <1>2 DEF Qualification

\* A narrowing never keeps the one dominated without the one who dominates, the
\* best first, nor the other way round, the worst first.
LEMMA CandidatesKeepDominance ==
  ASSUME TypeOK, NEW T \in SUBSET Engineers, NEW a \in T, NEW b \in T, a # b,
         Dominates(a, b)
  PROVE  /\ pass = "descending" /\ b \in Candidates(T) => a \in Candidates(T)
         /\ pass = "ascending" /\ a \in Candidates(T) => b \in Candidates(T)
<1> DEFINE P == Preferences(T)
           s(x) == Qualification(P, x)
<1>1. P \in SUBSET Comparisons
  BY DEF Preferences
<1>2. \A x \in T : s(x) \in Int
  BY <1>1, QualificationType
<1>3. s(b) <= s(a)
  BY QualificationKeepsDominance
<1>4. pass = "descending" => Candidates(T) = {x \in T : \A y \in T : s(y) <= s(x)}
  BY DEF Candidates
<1>5. pass = "ascending" => Candidates(T) = {x \in T : \A y \in T : s(x) <= s(y)}
  BY DEF Candidates
<1> HIDE DEF s
<1>6. ASSUME pass = "descending", b \in Candidates(T)
      PROVE  a \in Candidates(T)
  <2>1. \A y \in T : s(y) <= s(b)
    BY <1>4, <1>6
  <2>2. \A y \in T : s(y) <= s(a)
    BY <2>1, <1>2, <1>3
  <2>3. QED
    BY <2>2, <1>4, <1>6
<1>7. ASSUME pass = "ascending", a \in Candidates(T)
      PROVE  b \in Candidates(T)
  <2>1. \A y \in T : s(a) <= s(y)
    BY <1>5, <1>7
  <2>2. \A y \in T : s(b) <= s(y)
    BY <2>1, <1>2, <1>3
  <2>3. QED
    BY <2>2, <1>5, <1>7
<1>8. QED
  BY <1>6, <1>7

LEMMA ChosenKeepsDominance ==
  ASSUME TypeOK, NEW T \in SUBSET Engineers, NEW a \in T, NEW b \in T, a # b,
         Dominates(a, b)
  PROVE  /\ pass = "descending" /\ b \in Chosen(T) => a \in Chosen(T)
         /\ pass = "ascending" /\ a \in Chosen(T) => b \in Chosen(T)
BY CandidatesKeepDominance DEF Chosen

LEMMA ChosenAreThere ==
  ASSUME NEW T
  PROVE  Candidates(T) \subseteq T /\ Chosen(T) \subseteq T
BY DEF Candidates, Chosen

-----------------------------------------------------------------------------
(***************************************************************************)
(* The steps.                                                              *)
(***************************************************************************)

LEMMA AnyMatrixIInv == AnyMatrix => IInv
<1> SUFFICES ASSUME AnyMatrix PROVE IInv
  OBVIOUS
<1> USE DistillationAssumption DEF AnyMatrix, Start, Passes
<1>1. TypeOK
  BY DEF TypeOK
<1>2. RankCounts
  BY DEF RankCounts
<1>3. Kept
  BY DEF Kept, LeavesFirst
<1>4. QED
  BY <1>1, <1>2, <1>3 DEF IInv

LEMMA NarrowStep ==
  ASSUME IInv, Narrow
  PROVE  IInv'
<1>1. TypeOK'
  BY ChosenAreThere DEF IInv, TypeOK, Narrow
<1>2. RankCounts'
  BY DEF IInv, RankCounts, Narrow
<1>3. Kept'
  <2>1. SUFFICES ASSUME NEW a \in Engineers, NEW b \in Engineers, a # b, Dominates(a, b)
                 PROVE  /\ pass = "descending" => LeavesFirst(a, b)'
                        /\ pass = "ascending" => LeavesFirst(b, a)'
    BY DEF Kept, Narrow, IInv, Dominates
  <2>2. /\ pass = "descending" => LeavesFirst(a, b)
        /\ pass = "ascending" => LeavesFirst(b, a)
    BY <2>1 DEF IInv, Kept
  <2>3. subset \in SUBSET Engineers /\ Candidates(subset) \subseteq subset
    BY ChosenAreThere DEF IInv, TypeOK
  <2>4. a \in subset /\ b \in subset =>
          /\ pass = "descending" /\ b \in Candidates(subset) => a \in Candidates(subset)
          /\ pass = "ascending" /\ a \in Candidates(subset) => b \in Candidates(subset)
    BY <2>1, <2>3, CandidatesKeepDominance DEF IInv
  <2>5. QED
    BY <2>2, <2>3, <2>4 DEF LeavesFirst, Narrow
<1>4. QED
  BY <1>1, <1>2, <1>3 DEF IInv

LEMMA TakeClassStep ==
  ASSUME IInv, TakeClass
  PROVE  IInv'
<1> DEFINE C == Chosen(subset)
<1>1. C \subseteq subset /\ subset \subseteq remaining /\ remaining \subseteq Engineers
  BY ChosenAreThere DEF IInv, TypeOK
<1>2. /\ pass \in Passes /\ pass' = pass /\ cred' = cred
      /\ iterations \in 1 .. MaxIterations /\ iterations' = iterations + 1
      /\ remaining' = remaining \ C /\ subset' = remaining'
  BY DistillationAssumption DEF TakeClass, Running, IInv, TypeOK
<1>3. /\ rank' \in [Passes -> [Engineers -> 0 .. MaxIterations + 1]]
      /\ \A x \in Engineers :
           rank'[pass][x] = IF x \in C THEN iterations ELSE rank[pass][x]
      /\ \A d \in Passes \ {pass} : rank'[d] = rank[d]
  BY <1>2 DEF TakeClass, IInv, TypeOK
<1>4. rank \in [Passes -> [Engineers -> 0 .. MaxIterations + 1]]
  BY DEF IInv, TypeOK
<1> HIDE DEF C
<1>5. TypeOK'
  <2>1. iterations' \in 1 .. MaxIterations + 1
    BY <1>2, DistillationAssumption
  <2>2. cred' \in [Comparisons -> 0 .. Scale]
    BY <1>2 DEF IInv, TypeOK
  <2>3. QED
    BY <1>1, <1>2, <1>3, <2>1, <2>2 DEF TypeOK
<1>6. RankCounts'
  <2>1. \A x \in Engineers :
          /\ x \in remaining' <=> rank'[pass][x] = 0
          /\ rank'[pass][x] < iterations + 1
    <3>1. SUFFICES ASSUME NEW x \in Engineers
                   PROVE  /\ x \in remaining' <=> rank'[pass][x] = 0
                          /\ rank'[pass][x] < iterations + 1
      OBVIOUS
    <3>2. /\ x \in remaining <=> rank[pass][x] = 0
          /\ rank[pass][x] < iterations
      BY <1>2 DEF IInv, RankCounts
    <3>3. rank[pass][x] \in Nat
      BY <1>2, <1>4
    <3>4. QED
      BY <1>1, <1>2, <1>3, <3>2, <3>3
  <2>2. QED
    BY <2>1, <1>2, <1>3 DEF IInv, RankCounts, Passes
<1>7. Kept'
  <2>1. SUFFICES ASSUME NEW a \in Engineers, NEW b \in Engineers, a # b, Dominates(a, b)
                 PROVE  /\ pass = "descending" => LeavesFirst(a, b)'
                        /\ pass = "ascending" => LeavesFirst(b, a)'
    <3>1. pass = "ascending" => rank'["descending"] = rank["descending"]
      BY <1>3 DEF Passes
    <3>2. QED
      BY <3>1, <1>2 DEF Kept, IInv, Dominates, Passes
  <2>2. /\ pass = "descending" => LeavesFirst(a, b)
        /\ pass = "ascending" => LeavesFirst(b, a)
    BY <2>1 DEF IInv, Kept
  <2>3. a \in subset /\ b \in subset =>
          /\ pass = "descending" /\ b \in C => a \in C
          /\ pass = "ascending" /\ a \in C => b \in C
    BY <2>1, <1>1, ChosenKeepsDominance DEF IInv, C
  <2>4. \A x \in Engineers : rank[pass][x] \in Nat /\ rank[pass][x] < iterations
    BY <1>2, <1>4 DEF IInv, RankCounts
  <2>5. ASSUME pass = "descending" PROVE LeavesFirst(a, b)'
    BY <2>2, <2>3, <2>4, <2>5, <1>1, <1>2, <1>3 DEF LeavesFirst
  <2>6. ASSUME pass = "ascending" PROVE LeavesFirst(b, a)'
    BY <2>2, <2>3, <2>4, <2>6, <1>1, <1>2, <1>3 DEF LeavesFirst
  <2>7. QED
    BY <2>5, <2>6
<1>8. QED
  BY <1>5, <1>6, <1>7 DEF IInv

LEMMA EndPassStep ==
  ASSUME IInv, EndPass
  PROVE  IInv'
<1>1. /\ pass \in Passes /\ cred' = cred
      /\ pass' = (IF pass = "descending" THEN "ascending" ELSE "done")
      /\ remaining' = Engineers /\ subset' = Engineers /\ iterations' = 1
  BY DEF EndPass
<1>2. rank \in [Passes -> [Engineers -> 0 .. MaxIterations + 1]]
  BY DEF IInv, TypeOK
<1>3. iterations \in 1 .. MaxIterations + 1
  BY DEF IInv, TypeOK
<1>4. /\ rank' \in [Passes -> [Engineers -> 0 .. MaxIterations + 1]]
      /\ \A x \in Engineers :
           rank'[pass][x] = IF x \in remaining THEN iterations ELSE rank[pass][x]
      /\ \A d \in Passes \ {pass} : rank'[d] = rank[d]
  BY <1>1, <1>2, <1>3 DEF EndPass
<1>5. \A x \in Engineers :
        /\ rank[pass][x] \in Nat /\ rank[pass][x] < iterations
        /\ x \notin remaining => rank[pass][x] # 0
  BY <1>1, <1>2 DEF IInv, RankCounts
<1>6. TypeOK'
  <2>1. iterations' \in 1 .. MaxIterations + 1
    BY <1>1, DistillationAssumption
  <2>2. QED
    BY <1>1, <1>4, <2>1 DEF TypeOK, IInv, Passes
<1>7. \A x \in Engineers : rank'[pass][x] # 0
  BY <1>3, <1>4, <1>5
<1>8. RankCounts'
  BY <1>1, <1>4, <1>7 DEF IInv, RankCounts, Passes
<1>9. Kept'
  <2>1. SUFFICES ASSUME NEW a \in Engineers, NEW b \in Engineers, a # b, Dominates(a, b)
                 PROVE  /\ rank'["descending"][a] <= rank'["descending"][b]
                        /\ pass = "ascending" =>
                             rank'["ascending"][b] <= rank'["ascending"][a]
    BY <1>1 DEF Kept, LeavesFirst, Dominates, Passes
  <2>2. ASSUME pass = "descending"
        PROVE  rank'["descending"][a] <= rank'["descending"][b]
    <3>1. LeavesFirst(a, b)
      BY <2>1, <2>2 DEF IInv, Kept
    <3>2. QED
      BY <3>1, <2>2, <1>3, <1>4, <1>5 DEF LeavesFirst
  <2>3. ASSUME pass = "ascending"
        PROVE  /\ rank'["descending"][a] <= rank'["descending"][b]
               /\ rank'["ascending"][b] <= rank'["ascending"][a]
    <3>1. LeavesFirst(b, a) /\ rank["descending"][a] <= rank["descending"][b]
      BY <2>1, <2>3 DEF IInv, Kept
    <3>2. rank'["descending"] = rank["descending"]
      BY <2>3, <1>4 DEF Passes
    <3>3. QED
      BY <3>1, <3>2, <2>3, <1>3, <1>4, <1>5 DEF LeavesFirst
  <2>4. QED
    BY <2>2, <2>3, <1>1 DEF Passes
<1>10. QED
  BY <1>6, <1>8, <1>9 DEF IInv

LEMMA DistilStep == IInv /\ [Distil]_<<cred, dist>> => IInv'
<1> SUFFICES ASSUME IInv, [Distil]_<<cred, dist>> PROVE IInv'
  OBVIOUS
<1>1. CASE Narrow
  BY <1>1, NarrowStep
<1>2. CASE TakeClass
  BY <1>2, TakeClassStep
<1>3. CASE EndPass
  BY <1>3, EndPassStep
<1>4. CASE UNCHANGED <<cred, dist>>
  BY <1>4 DEF dist, IInv, TypeOK, RankCounts, Kept, LeavesFirst, Dominates
<1>5. QED
  BY <1>1, <1>2, <1>3, <1>4 DEF Distil

LEMMA Inductive == DistillationSpec => []IInv
BY DistilStep, AnyMatrixIInv, PTL DEF DistillationSpec

-----------------------------------------------------------------------------
(***************************************************************************)
(* The theorems.                                                           *)
(***************************************************************************)

\* Every reachable state has the declared types: no chain is longer than the
\* bound on the iterations allows.
THEOREM TypeCorrect == DistillationSpec => []TypeOK
<1>1. IInv => TypeOK
  BY DEF IInv
<1>2. QED
  BY <1>1, Inductive, PTL

LEMMA AllArePlaced == IInv => EverybodyIsPlaced
BY DEF IInv, TypeOK, RankCounts, EverybodyIsPlaced, Passes

\* A distillation that is over has placed everybody, also when it was cut off.
THEOREM EverybodyPlaced == DistillationSpec => []EverybodyIsPlaced
BY AllArePlaced, Inductive, PTL

LEMMA MediansKeepDominance == IInv => DominanceIsKept
<1>1. SUFFICES ASSUME IInv, pass = "done", NEW a \in Engineers, NEW b \in Engineers,
                      a # b, Dominates(a, b)
               PROVE  Median(a) <= Median(b)
  BY DEF DominanceIsKept
<1>2. /\ rank["descending"][a] <= rank["descending"][b]
      /\ rank["ascending"][b] <= rank["ascending"][a]
  BY <1>1 DEF IInv, Kept
<1>3. \A d \in Passes, x \in Engineers : rank[d][x] \in Nat
  BY <1>1 DEF IInv, TypeOK
<1>4. QED
  BY <1>2, <1>3 DEF Median, Passes

\* Whatever the credibilities, somebody who dominates another is not behind him:
\* he leaves the descending distillation no later and the ascending no earlier.
THEOREM DominanceKept == DistillationSpec => []DominanceIsKept
BY MediansKeepDominance, Inductive, PTL

LEMMA TierFollowsMedian ==
  ASSUME TypeOK, NEW a \in Engineers, NEW b \in Engineers, Median(a) <= Median(b)
  PROVE  Tier(a) <= Tier(b)
<1>1. \A x \in Engineers : Median(x) \in Int
  BY DEF TypeOK, Median, Passes
<1>2. Better(a) \subseteq Better(b)
  <2>1. \A x \in Engineers : Median(x) < Median(a) => Median(x) < Median(b)
    BY <1>1
  <2>2. QED
    BY <2>1 DEF Better
<1>3. IsFiniteSet(Better(b))
  <2> DEFINE S == {c \in Engineers : Median(c) < Median(b)}
             f == [c \in S |-> Median(c)]
  <2>1. IsFiniteSet(S)
    BY FS_Subset, DistillationAssumption
  <2>2. f \in Surjection(S, Better(b))
    BY DEF Surjection, Better
  <2>3. QED
    BY <2>1, <2>2, FS_Surjection
<1>4. /\ Cardinality(Better(a)) <= Cardinality(Better(b))
      /\ Cardinality(Better(a)) \in Nat /\ Cardinality(Better(b)) \in Nat
  BY <1>2, <1>3, FS_Subset, FS_CardinalityType
<1>5. QED
  BY <1>4 DEF Tier

DominanceInTiers ==
  pass = "done" => \A a, b \in Engineers : a # b /\ Dominates(a, b) => Tier(a) <= Tier(b)

LEMMA TiersKeepDominance == IInv => DominanceInTiers
<1>1. SUFFICES ASSUME IInv, pass = "done", NEW a \in Engineers, NEW b \in Engineers,
                      a # b, Dominates(a, b)
               PROVE  Tier(a) <= Tier(b)
  BY DEF DominanceInTiers
<1>2. Median(a) <= Median(b)
  BY <1>1, MediansKeepDominance DEF DominanceIsKept
<1>3. QED
  BY <1>1, <1>2, TierFollowsMedian DEF IInv

\* Nor does the reading of tiers put him behind: who dominates another is in his
\* tier or a better one.
THEOREM DominanceKeptInTiers == DistillationSpec => []DominanceInTiers
BY TiersKeepDominance, Inductive, PTL

-----------------------------------------------------------------------------
(***************************************************************************)
(* Sums over a finite set do not depend on the order, are monotone, and a  *)
(* finite set of integers has a greatest.                                  *)
(***************************************************************************)

LEMMA LeastSubset ==
  ASSUME NEW S, IsFiniteSet(S), NEW F, F \subseteq SUBSET S, F # {}
  PROVE  \E s \in F : \A t \in F : t \subseteq s => t = s
<1>1. IsWellFoundedOn(StrictSubsetOrdering(S), SUBSET S)
  BY FS_StrictSubsetOrderingWellFounded, FS_FiniteSubsetsOfFinite
<1>2. PICK s \in F : \A t \in F : <<t, s>> \notin StrictSubsetOrdering(S)
  BY <1>1, WFMin
<1>3. ASSUME NEW t \in F, t \subseteq s, t # s PROVE FALSE
  BY <1>2, <1>3 DEF StrictSubsetOrdering
<1> QED
  BY <1>3

Some(s) == CHOOSE x \in s : TRUE

\* c folds every subset of S with h, in the order in which Some takes them.
Folding(c, h, base, S) ==
  /\ c[{}] = base
  /\ \A s \in SUBSET S : s # {} => c[s] = h[<<Some(s), c[s \ {Some(s)}]>>]

Folds(g, h, base, S) == g \in [SUBSET S -> Int] /\ Folding(g, h, base, S)

LEMMA FoldsAgree ==
  ASSUME NEW S, IsFiniteSet(S), NEW h, NEW base, NEW g, Folds(g, h, base, S),
         NEW c, Folding(c, h, base, S)
  PROVE  \A s \in SUBSET S : c[s] = g[s]
<1> DEFINE F == {s \in SUBSET S : c[s] # g[s]}
<1> SUFFICES ASSUME F # {} PROVE FALSE
  OBVIOUS
<1>1. F \subseteq SUBSET S
  OBVIOUS
<1>2. \E s \in F : \A t \in F : t \subseteq s => t = s
  <2> HIDE DEF F
  <2> QED
    BY <1>1, LeastSubset
<1>3. PICK s \in F : \A t \in F : t \subseteq s => t = s
  BY <1>2
<1>4. s # {}
  BY <1>3 DEF Folds, Folding
<1>5. Some(s) \in s
  BY <1>4 DEF Some
<1>6. c[s \ {Some(s)}] = g[s \ {Some(s)}]
  BY <1>3, <1>5
<1>7. /\ c[s] = h[<<Some(s), c[s \ {Some(s)}]>>]
      /\ g[s] = h[<<Some(s), g[s \ {Some(s)}]>>]
  BY <1>3, <1>4 DEF Folds, Folding
<1> QED
  BY <1>3, <1>6, <1>7

LEMMA FoldsExist ==
  ASSUME NEW S, IsFiniteSet(S), NEW base \in Int, NEW h \in [S \X Int -> Int]
  PROVE  \E g : Folds(g, h, base, S)
<1> DEFINE F == {s \in SUBSET S : ~\E g : Folds(g, h, base, s)}
<1> SUFFICES ASSUME F # {} PROVE FALSE
  OBVIOUS
<1>0. F \subseteq SUBSET S
  OBVIOUS
<1>9. \E s \in F : \A t \in F : t \subseteq s => t = s
  <2> HIDE DEF F
  <2> QED
    BY <1>0, LeastSubset
<1>1. PICK s \in F : \A t \in F : t \subseteq s => t = s
  BY <1>9
<1> DEFINE of(t) == CHOOSE g : Folds(g, h, base, t)
           k == [t \in SUBSET s |-> IF t = {} THEN base
                   ELSE h[<<Some(t), of(t \ {Some(t)})[t \ {Some(t)}]>>]]
<1>2. \A t \in SUBSET s : t # s => Folds(of(t), h, base, t)
  BY <1>1
<1>3. \A t \in SUBSET s : t # {} => Some(t) \in t
  BY DEF Some
<1>4. \A t \in SUBSET s : t # {} =>
        /\ t \ {Some(t)} \in SUBSET s /\ t \ {Some(t)} # s
        /\ Folds(of(t \ {Some(t)}), h, base, t \ {Some(t)})
  BY <1>2, <1>3
<1> HIDE DEF of
<1>5. \A t \in SUBSET s : t # {} => of(t \ {Some(t)})[t \ {Some(t)}] \in Int
  BY <1>4 DEF Folds, Folding
<1>6. k \in [SUBSET s -> Int]
  <2>1. \A t \in SUBSET s : t # {} => <<Some(t), of(t \ {Some(t)})[t \ {Some(t)}]>> \in S \X Int
    BY <1>1, <1>3, <1>5
  <2> QED
    BY <2>1
<1>7. ASSUME NEW t \in SUBSET s, t # {}
      PROVE  k[t] = h[<<Some(t), k[t \ {Some(t)}]>>]
  <2> DEFINE u == t \ {Some(t)}
  <2>1. Folds(of(u), h, base, u) /\ u \in SUBSET s /\ k[t] = h[<<Some(t), of(u)[u]>>]
    BY <1>4, <1>7
  <2> HIDE DEF u
  <2>2. k[u] = of(u)[u]
    <3>1. CASE u = {}
      BY <3>1, <2>1 DEF Folds, Folding
    <3>2. CASE u # {}
      <4> DEFINE w == u \ {Some(u)}
      <4>1. Folds(of(w), h, base, w) /\ k[u] = h[<<Some(u), of(w)[w]>>]
        BY <1>4, <2>1, <3>2
      <4>2. of(u)[u] = h[<<Some(u), of(u)[w]>>]
        BY <2>1, <3>2 DEF Folds, Folding
      <4>3. of(u)[w] = of(w)[w]
        <5>1. IsFiniteSet(w)
          BY <1>1, <2>1, FS_Subset
        <5>2. w \in SUBSET u
          OBVIOUS
        <5> HIDE DEF w
        <5>3. Folding(of(u), h, base, w)
          BY <2>1, <5>2 DEF Folds, Folding
        <5>4. \A x \in SUBSET w : of(u)[x] = of(w)[x]
          BY <4>1, <5>1, <5>3, FoldsAgree
        <5> QED
          BY <5>4
      <4> QED
        BY <4>1, <4>2, <4>3
    <3> QED
      BY <3>1, <3>2
  <2> QED
    BY <2>1, <2>2 DEF u
<1>8. Folds(k, h, base, s)
  BY <1>6, <1>7 DEF Folds, Folding
<1> QED
  BY <1>1, <1>8

Adding(f, S) == [e \in S \X Int |-> f[e[1]] + e[2]]

LEMMA SumIsAFold ==
  ASSUME NEW S, IsFiniteSet(S), NEW f, \A x \in S : f[x] \in Int,
         NEW g, Folds(g, Adding(f, S), 0, S), NEW T \in SUBSET S
  PROVE  SumOver(f, T) = g[T]
<1> DEFINE Is(c) == c = [s \in SUBSET T |->
                      IF s = {} THEN 0
                      ELSE f[CHOOSE x \in s : TRUE] + c[s \ {CHOOSE x \in s : TRUE}]]
           k == [s \in SUBSET T |-> g[s]]
<1>1. SumOver(f, T) = (CHOOSE c : Is(c))[T]
  BY DEF SumOver, MapThenSumSet, MapThenFoldSet
<1>2. \A s \in SUBSET T : s # {} => /\ Some(s) \in S /\ s \ {Some(s)} \in SUBSET T
                                    /\ g[s \ {Some(s)}] \in Int
  BY DEF Some, Folds, Folding
<1>3. \A s \in SUBSET T : s # {} => g[s] = f[Some(s)] + g[s \ {Some(s)}]
  BY <1>2 DEF Folds, Folding, Adding
<1>4. Is(k)
  <2>1. \A s \in SUBSET T : k[s] = IF s = {} THEN 0
                      ELSE f[CHOOSE x \in s : TRUE] + k[s \ {CHOOSE x \in s : TRUE}]
    BY <1>2, <1>3 DEF Folds, Folding, Some
  <2> QED
    BY <2>1
<1> DEFINE c == CHOOSE c : Is(c)
<1>5. Is(c)
  <2> HIDE DEF Is
  <2> QED
    BY <1>4
<1>6. \A s \in SUBSET T : c[s] = IF s = {} THEN 0
                      ELSE f[CHOOSE x \in s : TRUE] + c[s \ {CHOOSE x \in s : TRUE}]
  <2> HIDE DEF c
  <2> QED
    BY <1>5
<1> DEFINE F == {s \in SUBSET T : c[s] # g[s]}
<1>7. F = {}
  <2> SUFFICES ASSUME F # {} PROVE FALSE
    OBVIOUS
  <2> HIDE DEF c
  <2>1. F \subseteq SUBSET S
    OBVIOUS
  <2>2. \E s \in F : \A t \in F : t \subseteq s => t = s
    <3> HIDE DEF F
    <3> QED
      BY <2>1, LeastSubset
  <2>3. PICK s \in F : \A t \in F : t \subseteq s => t = s
    BY <2>2
  <2>4. s # {}
    BY <1>6, <2>3 DEF Folds, Folding
  <2>5. c[s \ {Some(s)}] = g[s \ {Some(s)}]
    BY <2>3, <2>4 DEF Some
  <2>6. c[s] = f[Some(s)] + c[s \ {Some(s)}]
    BY <1>6, <2>3, <2>4 DEF Some
  <2> QED
    BY <1>3, <2>3, <2>4, <2>5, <2>6
<1>8. c[T] = g[T]
  <2> HIDE DEF c
  <2> QED
    BY <1>7
<1> QED
  BY <1>1, <1>8

\* g sums f over every subset of S.
Sums(g, f, S) ==
  /\ g \in [SUBSET S -> Int] /\ g[{}] = 0
  /\ \A s \in SUBSET S : s # {} => g[s] = f[Some(s)] + g[s \ {Some(s)}]
  /\ \A s \in SUBSET S : SumOver(f, s) = g[s]

LEMMA SumsOfAll ==
  ASSUME NEW S, IsFiniteSet(S), NEW f, \A x \in S : f[x] \in Int
  PROVE  \E g : Sums(g, f, S)
<1>1. 0 \in Int /\ Adding(f, S) \in [S \X Int -> Int]
  BY DEF Adding
<1>2. PICK g : Folds(g, Adding(f, S), 0, S)
  BY <1>1, FoldsExist
<1>3. \A s \in SUBSET S : SumOver(f, s) = g[s]
  BY <1>2, SumIsAFold
<1>4. \A s \in SUBSET S : s # {} => /\ Some(s) \in S /\ s \ {Some(s)} \in SUBSET S
                                    /\ g[s \ {Some(s)}] \in Int
  BY <1>2 DEF Some, Folds, Folding
<1>5. \A s \in SUBSET S : s # {} => g[s] = f[Some(s)] + g[s \ {Some(s)}]
  BY <1>2, <1>4 DEF Folds, Folding, Adding
<1> QED
  BY <1>2, <1>3, <1>5 DEF Folds, Folding, Sums

LEMMA SumIsInt ==
  ASSUME NEW S, IsFiniteSet(S), NEW f, \A x \in S : f[x] \in Int
  PROVE  SumOver(f, S) \in Int /\ SumOver(f, {}) = 0
<1>1. PICK g : Sums(g, f, S)
  BY SumsOfAll
<1> QED
  BY <1>1 DEF Sums

\* In whatever order.
LEMMA SumSplits ==
  ASSUME NEW S, IsFiniteSet(S), NEW f, \A x \in S : f[x] \in Int, NEW y \in S
  PROVE  SumOver(f, S) = f[y] + SumOver(f, S \ {y})
<1>1. PICK g : Sums(g, f, S)
  BY SumsOfAll
<1> DEFINE F == {s \in SUBSET S : \E x \in s : g[s] # f[x] + g[s \ {x}]}
<1>2. F = {}
  <2> SUFFICES ASSUME F # {} PROVE FALSE
    OBVIOUS
  <2>1. F \subseteq SUBSET S
    OBVIOUS
  <2>2. \E s \in F : \A t \in F : t \subseteq s => t = s
    <3> HIDE DEF F
    <3> QED
      BY <2>1, LeastSubset
  <2>3. PICK s \in F : \A t \in F : t \subseteq s => t = s
    BY <2>2
  <2>4. PICK x \in s : g[s] # f[x] + g[s \ {x}]
    BY <2>3
  <2> DEFINE z == Some(s)
             u == s \ {z}
             w == s \ {x}
  <2>5. z \in s /\ g[s] = f[z] + g[u]
    BY <1>1, <2>3 DEF Some, Sums
  <2>6. z # x
    BY <2>4, <2>5
  <2>7. u \notin F /\ w \notin F /\ u \in SUBSET S /\ w \in SUBSET S
    BY <2>3, <2>4, <2>5
  <2>8. x \in u /\ z \in w /\ u \ {x} = w \ {z}
    BY <2>4, <2>5, <2>6
  <2>9. g[u] = f[x] + g[u \ {x}] /\ g[w] = f[z] + g[w \ {z}]
    BY <2>7, <2>8
  <2>10. f[x] \in Int /\ f[z] \in Int /\ g[u \ {x}] \in Int
    BY <1>1, <2>3, <2>4, <2>5, <2>7 DEF Sums
  <2>11. g[u \ {x}] = g[w \ {z}]
    BY <2>8
  <2> HIDE DEF u, w, z
  <2> QED
    BY <2>4, <2>5, <2>9, <2>10, <2>11 DEF w
<1>3. g[S] = f[y] + g[S \ {y}]
  BY <1>2
<1> QED
  BY <1>1, <1>3 DEF Sums

LEMMA SumIsNat ==
  ASSUME NEW S, IsFiniteSet(S), NEW f, \A x \in S : f[x] \in Nat
  PROVE  SumOver(f, S) \in Nat
<1>1. \A x \in S : f[x] \in Int
  OBVIOUS
<1>2. \A s \in SUBSET S : SumOver(f, s) \in Int /\ SumOver(f, {}) = 0
  BY <1>1, SumIsInt, FS_Subset
<1> DEFINE F == {s \in SUBSET S : SumOver(f, s) \notin Nat}
<1> SUFFICES ASSUME F # {} PROVE FALSE
  OBVIOUS
<1>3. F \subseteq SUBSET S
  OBVIOUS
<1>4. \E s \in F : \A t \in F : t \subseteq s => t = s
  <2> HIDE DEF F
  <2> QED
    BY <1>3, LeastSubset
<1>5. PICK s \in F : \A t \in F : t \subseteq s => t = s
  BY <1>4
<1>6. s # {}
  <2> SUFFICES ASSUME s = {} PROVE FALSE
    OBVIOUS
  <2>1. SumOver(f, s) = 0
    BY <1>2, Zenon
  <2> QED
    BY <1>5, <2>1
<1>7. PICK x \in s : TRUE
  BY <1>6
<1>8. SumOver(f, s) = f[x] + SumOver(f, s \ {x})
  BY <1>1, <1>5, <1>7, SumSplits, FS_Subset
<1>9. SumOver(f, s \ {x}) \in Nat
  BY <1>5, <1>7
<1> QED
  BY <1>5, <1>7, <1>8, <1>9

LEMMA Scaled ==
  ASSUME NEW a \in Int, NEW b \in Int, NEW c \in Int
  PROVE  a * (b + c) = a * b + a * c
OBVIOUS

LEMMA ScaledSums ==
  ASSUME NEW S, IsFiniteSet(S), NEW f, NEW g, NEW a \in Int, NEW b \in Int,
         \A x \in S : f[x] \in Int /\ g[x] \in Int /\ a * f[x] <= b * g[x]
  PROVE  a * SumOver(f, S) <= b * SumOver(g, S)
<1>2. \A s \in SUBSET S : /\ SumOver(f, s) \in Int /\ SumOver(f, {}) = 0
                          /\ SumOver(g, s) \in Int /\ SumOver(g, {}) = 0
  BY SumIsInt, FS_Subset
<1> DEFINE F == {s \in SUBSET S : ~(a * SumOver(f, s) <= b * SumOver(g, s))}
<1> SUFFICES ASSUME F # {} PROVE FALSE
  OBVIOUS
<1>3. F \subseteq SUBSET S
  OBVIOUS
<1>4. \E s \in F : \A t \in F : t \subseteq s => t = s
  <2> HIDE DEF F
  <2> QED
    BY <1>3, LeastSubset
<1>5. PICK s \in F : \A t \in F : t \subseteq s => t = s
  BY <1>4
<1>6. s # {}
  <2> SUFFICES ASSUME s = {} PROVE FALSE
    OBVIOUS
  <2>1. SumOver(f, s) = 0 /\ SumOver(g, s) = 0
    BY <1>2, Zenon
  <2> QED
    BY <1>5, <2>1
<1>7. PICK x \in s : TRUE
  BY <1>6
<1> DEFINE u == s \ {x}
<1>8. /\ SumOver(f, s) = f[x] + SumOver(f, u)
      /\ SumOver(g, s) = g[x] + SumOver(g, u)
  BY <1>5, <1>7, SumSplits, FS_Subset
<1>9. a * SumOver(f, u) <= b * SumOver(g, u)
  BY <1>5, <1>7
<1>10. /\ f[x] \in Int /\ g[x] \in Int /\ SumOver(f, u) \in Int /\ SumOver(g, u) \in Int
       /\ a * f[x] <= b * g[x]
  BY <1>2, <1>5, <1>7
<1>11. /\ a * SumOver(f, s) = a * f[x] + a * SumOver(f, u)
       /\ b * SumOver(g, s) = b * g[x] + b * SumOver(g, u)
  BY <1>8, <1>10, Scaled
<1> HIDE DEF u
<1>12. a * SumOver(f, s) <= b * SumOver(g, s)
  <2> DEFINE A == a * f[x]
             B == b * g[x]
             C == a * SumOver(f, u)
             D == b * SumOver(g, u)
  <2>1. A \in Int /\ B \in Int /\ C \in Int /\ D \in Int
    BY <1>10
  <2>2. A <= B /\ C <= D
    BY <1>9, <1>10
  <2> HIDE DEF A, B, C, D
  <2>3. A + C <= B + D
    BY <2>1, <2>2
  <2> QED
    BY <1>11, <2>3 DEF A, B, C, D
<1> QED
  BY <1>5, <1>12

LEMMA GreatestExists ==
  ASSUME NEW S, IsFiniteSet(S)
  PROVE  S \in SUBSET Int /\ S # {} => \E x \in S : \A y \in S : y <= x
<1> DEFINE F == {s \in SUBSET S : s # {} /\ ~\E x \in s : \A y \in s : y <= x}
<1>4. F # {} => \E s \in F : \A t \in F : t \subseteq s => t = s
  <2>1. F \subseteq SUBSET S
    OBVIOUS
  <2> HIDE DEF F
  <2> QED
    BY <2>1, LeastSubset
<1> SUFFICES ASSUME F # {}, S \in SUBSET Int PROVE FALSE
  OBVIOUS
<1>5. PICK s \in F : \A t \in F : t \subseteq s => t = s
  BY <1>4
<1>7. PICK z \in s : TRUE
  BY <1>5
<1>8. s # {z}
  BY <1>5
<1>9. s \ {z} \notin F /\ s \ {z} # {} /\ s \ {z} \subseteq S
  BY <1>5, <1>7, <1>8
<1>10. PICK x \in s \ {z} : \A y \in s \ {z} : y <= x
  BY <1>9
<1>11. x \in Int /\ z \in Int
  BY <1>5, <1>7
<1>12. CASE z <= x
  BY <1>5, <1>10, <1>12
<1>13. CASE x <= z
  BY <1>5, <1>7, <1>10, <1>11, <1>13
<1> QED
  BY <1>11, <1>12, <1>13

-----------------------------------------------------------------------------
(***************************************************************************)
(* The comparison of two engineers.                                        *)
(***************************************************************************)

Units == 0 .. Scale

LEMMA Cancels ==
  ASSUME NEW d \in Int, 0 < d, NEW a \in Int, NEW b \in Int, d * a < d * b
  PROVE  a < b
<1>1. ASSUME b <= a PROVE FALSE
  <2>1. d * b <= d * a
    BY <1>1
  <2> QED
    BY <2>1
<1> QED
  BY <1>1

LEMMA FractionGrows ==
  ASSUME NEW m \in Int, NEW n \in Int, NEW d \in Int, 0 <= m, m <= n, n <= d, 0 < d
  PROVE  /\ Fraction(m, d) \in Units /\ Fraction(n, d) \in Units
         /\ Fraction(m, d) <= Fraction(n, d)
<1> USE DistillationAssumption
<1>1. /\ m * Scale \in Int /\ n * Scale \in Int /\ 0 <= m * Scale
      /\ m * Scale <= n * Scale /\ n * Scale <= d * Scale
  OBVIOUS
<1>2. \A x, y \in Int : 0 <= x /\ x <= y /\ y <= d * Scale =>
        /\ x \div d \in Units /\ y \div d \in Units /\ x \div d <= y \div d
  <2> SUFFICES ASSUME NEW x \in Int, NEW y \in Int, 0 <= x, x <= y, y <= d * Scale
               PROVE  x \div d \in Units /\ y \div d \in Units /\ x \div d <= y \div d
    OBVIOUS
  <2> DEFINE a == x \div d
             b == y \div d
  <2>1. /\ a \in Int /\ d * a <= x /\ x < d * (a + 1)
        /\ b \in Int /\ d * b <= y /\ y < d * (b + 1)
    OBVIOUS
  <2> HIDE DEF a, b
  <2>2. d * a < d * (b + 1)
    BY <2>1
  <2>3. a < b + 1
    BY <2>1, <2>2, Cancels
  <2>4. d * 0 < d * (a + 1) /\ d * b < d * (Scale + 1)
    BY <2>1
  <2>5. 0 < a + 1 /\ b < Scale + 1
    BY <2>1, <2>4, Cancels
  <2> QED
    BY <2>1, <2>3, <2>5 DEF Units, a, b
<1> QED
  BY <1>1, <1>2 DEF Fraction

\* The further ahead, the more concordant and the less discordant, on either side
\* of the thresholds and in whatever order they are.
LEMMA ConcordanceGrows ==
  ASSUME NEW j \in Criteria, NEW a \in Int, NEW b \in Int, NEW c \in Int, NEW d \in Int,
         c - d <= a - b
  PROVE  /\ Concordance(j, a, b) \in Units /\ Concordance(j, c, d) \in Units
         /\ Concordance(j, c, d) <= Concordance(j, a, b)
<1> USE DistillationAssumption, CriteriaAssumption
<1> DEFINE q == indifference[j]
           p == preference[j]
           of(x, y) == Fraction(p - (y - x), p - q)
<1>1. q \in Int /\ p \in Int
  OBVIOUS
<1> HIDE DEF q, p
<1>2. \A x, y \in Int : Concordance(j, x, y) =
        IF x >= y - q THEN Scale ELSE IF x <= y - p THEN 0
        ELSE IF p > q THEN of(x, y) ELSE 0
  BY DEF Concordance, q, p
<1>3. \A x, y, z, w \in Int :
        /\ z - w <= x - y /\ ~(x >= y - q) /\ ~(z <= w - p) /\ p > q =>
             of(z, w) \in Units /\ of(x, y) \in Units /\ of(z, w) <= of(x, y)
  <2> SUFFICES ASSUME NEW x \in Int, NEW y \in Int, NEW z \in Int, NEW w \in Int,
                      z - w <= x - y, ~(x >= y - q), ~(z <= w - p), p > q
               PROVE  of(z, w) \in Units /\ of(x, y) \in Units /\ of(z, w) <= of(x, y)
    OBVIOUS
  <2>1. /\ p - (w - z) \in Int /\ p - (y - x) \in Int /\ p - q \in Int
        /\ 0 <= p - (w - z) /\ p - (w - z) <= p - (y - x) /\ p - (y - x) <= p - q
        /\ 0 < p - q
    BY <1>1
  <2> QED
    BY <2>1, FractionGrows
<1>4. \A x, y \in Int : Concordance(j, x, y) \in Units
  <2> TAKE x, y \in Int
  <2>1. /\ ~(x >= y - q) /\ ~(x <= y - p) /\ p > q => of(x, y) \in Units
    BY <1>3
  <2> HIDE DEF of
  <2> QED
    BY <1>2, <2>1 DEF Units
<1>5. Concordance(j, c, d) <= Concordance(j, a, b)
  <2>1. ~(a >= b - q) /\ ~(c <= d - p) /\ p > q => of(c, d) <= of(a, b)
    BY <1>3
  <2>2. Concordance(j, c, d) \in Units /\ Concordance(j, a, b) \in Units
    BY <1>4
  <2> HIDE DEF of
  <2>3. /\ Concordance(j, a, b) =
             IF a >= b - q THEN Scale ELSE IF a <= b - p THEN 0
             ELSE IF p > q THEN of(a, b) ELSE 0
        /\ Concordance(j, c, d) =
             IF c >= d - q THEN Scale ELSE IF c <= d - p THEN 0
             ELSE IF p > q THEN of(c, d) ELSE 0
    BY <1>2
  <2> QED
    BY <1>1, <2>1, <2>2, <2>3 DEF Units
<1> QED
  BY <1>4, <1>5

LEMMA DiscordanceFalls ==
  ASSUME NEW j \in Criteria, NEW a \in Int, NEW b \in Int, NEW c \in Int, NEW d \in Int,
         c - d <= a - b
  PROVE  /\ Discordance(j, a, b) \in Units /\ Discordance(j, c, d) \in Units
         /\ Discordance(j, a, b) <= Discordance(j, c, d)
<1> USE DistillationAssumption, CriteriaAssumption
<1> DEFINE p == preference[j]
           v == veto[j]
           of(x, y) == Fraction(y - x - p, v - p)
<1>1. p \in Int /\ v \in Int
  OBVIOUS
<1> HIDE DEF p, v
<1>2. \A x, y \in Int : Discordance(j, x, y) =
        IF y <= x + p THEN 0 ELSE IF y >= x + v THEN Scale
        ELSE IF v > p THEN of(x, y) ELSE 0
  BY DEF Discordance, p, v
<1>3. \A x, y, z, w \in Int :
        /\ z - w <= x - y /\ ~(y <= x + p) /\ ~(w >= z + v) /\ v > p =>
             of(z, w) \in Units /\ of(x, y) \in Units /\ of(x, y) <= of(z, w)
  <2> SUFFICES ASSUME NEW x \in Int, NEW y \in Int, NEW z \in Int, NEW w \in Int,
                      z - w <= x - y, ~(y <= x + p), ~(w >= z + v), v > p
               PROVE  of(z, w) \in Units /\ of(x, y) \in Units /\ of(x, y) <= of(z, w)
    OBVIOUS
  <2>1. /\ y - x - p \in Int /\ w - z - p \in Int /\ v - p \in Int
        /\ 0 <= y - x - p /\ y - x - p <= w - z - p /\ w - z - p <= v - p
        /\ 0 < v - p
    BY <1>1
  <2> QED
    BY <2>1, FractionGrows
<1>4. \A x, y \in Int : Discordance(j, x, y) \in Units
  <2> TAKE x, y \in Int
  <2>1. /\ ~(y <= x + p) /\ ~(y >= x + v) /\ v > p => of(x, y) \in Units
    BY <1>3
  <2> HIDE DEF of
  <2> QED
    BY <1>2, <2>1 DEF Units
<1>5. Discordance(j, a, b) <= Discordance(j, c, d)
  <2>1. ~(b <= a + p) /\ ~(d >= c + v) /\ v > p => of(a, b) <= of(c, d)
    BY <1>3
  <2>2. Discordance(j, c, d) \in Units /\ Discordance(j, a, b) \in Units
    BY <1>4
  <2> HIDE DEF of
  <2>3. /\ Discordance(j, a, b) =
             IF b <= a + p THEN 0 ELSE IF b >= a + v THEN Scale
             ELSE IF v > p THEN of(a, b) ELSE 0
        /\ Discordance(j, c, d) =
             IF d <= c + p THEN 0 ELSE IF d >= c + v THEN Scale
             ELSE IF v > p THEN of(c, d) ELSE 0
    BY <1>2
  <2> QED
    BY <1>1, <2>1, <2>2, <2>3 DEF Units
<1> QED
  BY <1>4, <1>5

Soften(C, d, J) ==
  [e \in J \X Int |-> IF d[e[1]] > C THEN (e[2] * (Scale - d[e[1]])) \div (Scale - C)
                      ELSE e[2]]

LEMMA QuotientGrows ==
  ASSUME NEW m \in Int, NEW n \in Int, NEW d \in Int, NEW e \in Int,
         0 <= m, m <= n, e <= d, 0 < e
  PROVE  m \div d \in Int /\ n \div e \in Int /\ 0 <= m \div d /\ m \div d <= n \div e
<1> DEFINE a == m \div d
           b == n \div e
<1>1. /\ a \in Int /\ d * a <= m /\ m < d * (a + 1)
      /\ b \in Int /\ e * b <= n /\ n < e * (b + 1)
  OBVIOUS
<1> HIDE DEF a, b
<1>2. d * 0 < d * (a + 1)
  BY <1>1
<1>3. 0 <= a
  <2>1. 0 < a + 1
    BY <1>1, <1>2, Cancels
  <2> QED
    BY <1>1, <2>1
<1>4. e * a <= d * a
  BY <1>1, <1>3
<1>5. e * a < e * (b + 1)
  BY <1>1, <1>4
<1>6. a < b + 1
  BY <1>1, <1>5, Cancels
<1> QED
  BY <1>1, <1>3, <1>6 DEF a, b

LEMMA QuotientShrinks ==
  ASSUME NEW x \in Int, NEW m \in Int, NEW d \in Int, 0 <= x, 0 <= m, m <= d, 0 < d
  PROVE  (x * m) \div d <= x
<1> DEFINE n == x * m
           a == n \div d
<1>1. n \in Int /\ 0 <= n /\ n <= d * x
  OBVIOUS
<1> HIDE DEF n
<1>2. a \in Int /\ d * a <= n
  BY <1>1
<1> HIDE DEF a
<1>3. d * a < d * (x + 1)
  BY <1>1, <1>2
<1>4. a < x + 1
  BY <1>2, <1>3, Cancels
<1> QED
  BY <1>2, <1>4 DEF a, n

LEMMA SoftenGrows ==
  ASSUME NEW J, NEW C \in Units, NEW D \in Units, C <= D,
         NEW c \in [J -> Units], NEW d \in [J -> Units],
         NEW j \in J, d[j] <= c[j],
         NEW x \in Units, NEW y \in Units, x <= y
  PROVE  /\ Soften(C, c, J)[<<j, x>>] \in Units
         /\ Soften(D, d, J)[<<j, y>>] \in Units
         /\ Soften(C, c, J)[<<j, x>>] <= Soften(D, d, J)[<<j, y>>]
<1> USE DistillationAssumption
<1> DEFINE u == c[j]
           w == d[j]
           fall(X, t, z) == (z * (Scale - t)) \div (Scale - X)
<1>1. /\ C \in Int /\ D \in Int /\ u \in Int /\ w \in Int /\ x \in Int /\ y \in Int
      /\ 0 <= C /\ D <= Scale /\ 0 <= w /\ w <= u /\ u <= Scale
      /\ 0 <= x /\ y <= Scale
  BY DEF Units
<1>2. <<j, x>> \in J \X Int /\ <<j, y>> \in J \X Int
  BY <1>1
<1>3. /\ Soften(C, c, J)[<<j, x>>] = IF u > C THEN fall(C, u, x) ELSE x
      /\ Soften(D, d, J)[<<j, y>>] = IF w > D THEN fall(D, w, y) ELSE y
  BY <1>2 DEF Soften
<1> HIDE DEF u, w
<1>4. /\ u > C => fall(C, u, x) \in Int /\ 0 <= fall(C, u, x) /\ fall(C, u, x) <= x
      /\ w > D => fall(D, w, y) \in Int /\ 0 <= fall(D, w, y) /\ fall(D, w, y) <= y
  <2>1. \A X, t, z \in Int :
          0 <= X /\ X < t /\ t <= Scale /\ 0 <= z =>
            fall(X, t, z) \in Int /\ 0 <= fall(X, t, z) /\ fall(X, t, z) <= z
    <3> SUFFICES ASSUME NEW X \in Int, NEW t \in Int, NEW z \in Int,
                        0 <= X, X < t, t <= Scale, 0 <= z
                 PROVE  /\ fall(X, t, z) \in Int /\ 0 <= fall(X, t, z)
                        /\ fall(X, t, z) <= z
      OBVIOUS
    <3>1. /\ Scale - t \in Int /\ 0 <= Scale - t /\ Scale - t <= Scale - X
          /\ Scale - X \in Int /\ 0 < Scale - X
      OBVIOUS
    <3>2. z * (Scale - t) \in Int /\ 0 <= z * (Scale - t)
      BY <3>1
    <3>3. fall(X, t, z) \in Int /\ 0 <= fall(X, t, z)
      BY <3>1, <3>2, QuotientGrows
    <3>4. fall(X, t, z) <= z
      BY <3>1, QuotientShrinks
    <3> QED
      BY <3>3, <3>4
  <2>2. 0 <= D /\ C <= Scale /\ 0 <= y /\ w <= Scale
    BY <1>1
  <2> HIDE DEF fall
  <2> QED
    BY <1>1, <2>1, <2>2
<1>5. w > D => fall(C, u, x) <= fall(D, w, y)
  <2> HAVE w > D
  <2>1. /\ Scale - u \in Int /\ Scale - w \in Int /\ 0 <= Scale - u
        /\ Scale - u <= Scale - w
        /\ Scale - D \in Int /\ Scale - C \in Int /\ 0 < Scale - D
        /\ Scale - D <= Scale - C
    BY <1>1
  <2>2. /\ x * (Scale - u) \in Int /\ y * (Scale - w) \in Int
        /\ 0 <= x * (Scale - u)
    BY <1>1, <2>1
  <2>3. x * (Scale - u) <= y * (Scale - w)
    <3>1. x * (Scale - u) <= y * (Scale - u)
      BY <1>1, <2>1
    <3>2. y * (Scale - u) <= y * (Scale - w)
      BY <1>1, <2>1
    <3> QED
      BY <1>1, <2>1, <3>1, <3>2
  <2> QED
    BY <2>1, <2>2, <2>3, QuotientGrows
<1> HIDE DEF fall
<1> QED
  BY <1>1, <1>3, <1>4, <1>5 DEF Units

LEMMA SoftenedIsAFold ==
  ASSUME NEW J, IsFiniteSet(J), NEW C \in Units, NEW d \in [J -> Units]
  PROVE  \E g : Folds(g, Soften(C, d, J), C, J) /\ Softened(C, d, J) = g[J]
<1> USE DistillationAssumption
<1>1. C \in Int /\ Soften(C, d, J) \in [J \X Int -> Int]
  <2>1. ASSUME NEW j \in J, NEW x \in Int, d[j] > C
        PROVE  (x * (Scale - d[j])) \div (Scale - C) \in Int
    <3>1. x * (Scale - d[j]) \in Int /\ Scale - C \in Int /\ Scale - C > 0
      BY <2>1 DEF Units
    <3> QED
      BY <3>1
  <2>2. C \in Int
    BY DEF Units
  <2>3. \A e \in J \X Int : e[1] \in J /\ e[2] \in Int
    OBVIOUS
  <2> QED
    BY <2>1, <2>2, <2>3 DEF Soften
<1>2. PICK g : Folds(g, Soften(C, d, J), C, J)
  BY <1>1, FoldsExist
<1> DEFINE Is(c) == c = [s \in SUBSET J |->
             IF s = {} THEN C
             ELSE IF d[CHOOSE x \in s : TRUE] > C
                  THEN (c[s \ {CHOOSE x \in s : TRUE}]
                          * (Scale - d[CHOOSE x \in s : TRUE])) \div (Scale - C)
                  ELSE c[s \ {CHOOSE x \in s : TRUE}]]
<1>3. Softened(C, d, J) = (CHOOSE c : Is(c))[J]
  BY DEF Softened, FoldSet, MapThenFoldSet
<1>4. \A s \in SUBSET J : s # {} => Some(s) \in J /\ g[s \ {Some(s)}] \in Int
  BY <1>2 DEF Some, Folds
<1>5. \A s \in SUBSET J : s # {} =>
        g[s] = IF d[Some(s)] > C
               THEN (g[s \ {Some(s)}] * (Scale - d[Some(s)])) \div (Scale - C)
               ELSE g[s \ {Some(s)}]
  BY <1>2, <1>4 DEF Folds, Folding, Soften
<1>6. Is(g)
  <2>1. g = [s \in SUBSET J |-> g[s]]
    BY <1>2 DEF Folds
  <2>2. \A s \in SUBSET J : g[s] =
             IF s = {} THEN C
             ELSE IF d[CHOOSE x \in s : TRUE] > C
                  THEN (g[s \ {CHOOSE x \in s : TRUE}]
                          * (Scale - d[CHOOSE x \in s : TRUE])) \div (Scale - C)
                  ELSE g[s \ {CHOOSE x \in s : TRUE}]
    BY <1>2, <1>5 DEF Folds, Folding, Some
  <2> QED
    BY <2>1, <2>2
<1> DEFINE c == CHOOSE c : Is(c)
<1>7. Is(c)
  <2> HIDE DEF Is
  <2> QED
    BY <1>6
<1>8. /\ c[{}] = C
      /\ \A s \in SUBSET J : s # {} =>
        c[s] = IF d[Some(s)] > C
               THEN (c[s \ {Some(s)}] * (Scale - d[Some(s)])) \div (Scale - C)
               ELSE c[s \ {Some(s)}]
  <2> HIDE DEF c
  <2> QED
    BY <1>7 DEF Some
<1> DEFINE F == {s \in SUBSET J : c[s] # g[s]}
<1>9. F = {}
  <2> SUFFICES ASSUME F # {} PROVE FALSE
    OBVIOUS
  <2> HIDE DEF c
  <2>1. F \subseteq SUBSET J
    OBVIOUS
  <2>2. \E s \in F : \A t \in F : t \subseteq s => t = s
    <3> HIDE DEF F
    <3> QED
      BY <2>1, LeastSubset
  <2>3. PICK s \in F : \A t \in F : t \subseteq s => t = s
    BY <2>2
  <2>4. s # {}
    BY <1>2, <1>8, <2>3 DEF Folds, Folding
  <2>5. c[s \ {Some(s)}] = g[s \ {Some(s)}]
    BY <2>3, <2>4 DEF Some
  <2>6. c[s] = g[s]
    <3> DEFINE b == c[s \ {Some(s)}]
    <3>1. c[s] = IF d[Some(s)] > C THEN (b * (Scale - d[Some(s)])) \div (Scale - C) ELSE b
      BY <1>8, <2>3, <2>4
    <3>2. g[s] = IF d[Some(s)] > C THEN (b * (Scale - d[Some(s)])) \div (Scale - C) ELSE b
      BY <1>5, <2>3, <2>4, <2>5
    <3> HIDE DEF b
    <3> QED
      BY <3>1, <3>2
  <2> QED
    BY <2>3, <2>6
<1>10. c[J] = g[J]
  <2> HIDE DEF c
  <2> QED
    BY <1>9
<1> QED
  BY <1>2, <1>3, <1>10

LEMMA SoftenedGrows ==
  ASSUME NEW J, IsFiniteSet(J), NEW C \in Units, NEW D \in Units, C <= D,
         NEW c \in [J -> Units], NEW d \in [J -> Units], \A j \in J : d[j] <= c[j]
  PROVE  /\ Softened(C, c, J) \in Units /\ Softened(D, d, J) \in Units
         /\ Softened(C, c, J) <= Softened(D, d, J)
<1>1. PICK g : Folds(g, Soften(C, c, J), C, J) /\ Softened(C, c, J) = g[J]
  BY SoftenedIsAFold
<1>2. PICK k : Folds(k, Soften(D, d, J), D, J) /\ Softened(D, d, J) = k[J]
  BY SoftenedIsAFold
<1> DEFINE Below(s) == g[s] \in Units /\ k[s] \in Units /\ g[s] <= k[s]
           F == {s \in SUBSET J : ~Below(s)}
<1>3. F = {}
  <2> SUFFICES ASSUME F # {} PROVE FALSE
    OBVIOUS
  <2>1. F \subseteq SUBSET J
    OBVIOUS
  <2>2. \E s \in F : \A t \in F : t \subseteq s => t = s
    <3> HIDE DEF F
    <3> QED
      BY <2>1, LeastSubset
  <2>3. PICK s \in F : \A t \in F : t \subseteq s => t = s
    BY <2>2
  <2>4. s # {}
    BY <1>1, <1>2, <2>3 DEF Folds, Folding
  <2>5. Some(s) \in J /\ Below(s \ {Some(s)})
    BY <2>3, <2>4 DEF Some
  <2>6. /\ g[s] = Soften(C, c, J)[<<Some(s), g[s \ {Some(s)}]>>]
        /\ k[s] = Soften(D, d, J)[<<Some(s), k[s \ {Some(s)}]>>]
    BY <1>1, <1>2, <2>3, <2>4 DEF Folds, Folding
  <2>7. Below(s)
    BY <2>5, <2>6, SoftenGrows
  <2> QED
    BY <2>3, <2>7
<1>4. Below(J)
  BY <1>3
<1> QED
  BY <1>1, <1>2, <1>4

LEMMA KnownIsFinite ==
  ASSUME NEW a \in Compared, NEW b \in Compared
  PROVE  /\ Known(a, b) \subseteq Criteria /\ IsFiniteSet(Known(a, b))
         /\ \A j \in Known(a, b) : a.value[j] \in Int /\ b.value[j] \in Int
         /\ a.severe \in BOOLEAN
<1>1. Known(a, b) \in SUBSET Criteria
  BY DEF Known
<1>2. IsFiniteSet(Known(a, b))
  BY <1>1, CriteriaAssumption, FS_Subset
<1>3. \A j \in Known(a, b) : a.value[j] \in Int /\ b.value[j] \in Int
  BY ValuesAssumption DEF Known, Compared
<1> QED
  BY <1>1, <1>2, <1>3 DEF Compared

LEMMA SumsGrow ==
  ASSUME NEW S, IsFiniteSet(S), NEW f, NEW g,
         \A x \in S : f[x] \in Int /\ g[x] \in Int /\ f[x] <= g[x]
  PROVE  SumOver(f, S) <= SumOver(g, S)
<1>1. \A x \in S : f[x] \in Int /\ g[x] \in Int /\ 1 * f[x] <= 1 * g[x]
  OBVIOUS
<1>2. 1 * SumOver(f, S) <= 1 * SumOver(g, S)
  BY <1>1, ScaledSums
<1>3. SumOver(f, S) \in Int /\ SumOver(g, S) \in Int
  BY SumIsInt
<1> QED
  BY <1>2, <1>3

LEMMA AverageGrows ==
  ASSUME NEW J \in SUBSET Criteria, IsFiniteSet(J), SumOver(weight, J) # 0,
         NEW f \in [J -> Units], NEW g \in [J -> Units], \A j \in J : f[j] <= g[j]
  PROVE  LET average(h) == SumOver([j \in J |-> weight[j] * h[j]], J) \div SumOver(weight, J)
         IN  average(f) \in Units /\ average(g) \in Units /\ average(f) <= average(g)
<1> USE DistillationAssumption, CriteriaAssumption
<1> DEFINE wf == [j \in J |-> weight[j] * f[j]]
           wg == [j \in J |-> weight[j] * g[j]]
           whole == SumOver(weight, J)
<1>1. \A j \in J : /\ weight[j] \in Nat
                   /\ wf[j] \in Nat /\ wg[j] \in Nat /\ wf[j] <= wg[j]
                   /\ wg[j] <= Scale * weight[j]
  <2> TAKE j \in J
  <2>1. /\ weight[j] \in Nat /\ f[j] \in Nat /\ g[j] \in Nat /\ f[j] <= g[j]
        /\ g[j] <= Scale
    BY DEF Units
  <2>2. /\ weight[j] * f[j] \in Nat /\ weight[j] * g[j] \in Nat
        /\ weight[j] * f[j] <= weight[j] * g[j]
        /\ weight[j] * g[j] <= Scale * weight[j]
    BY <2>1
  <2> QED
    BY <2>1, <2>2
<1> HIDE DEF wf, wg, whole
<1>2. SumOver(wf, J) \in Nat /\ SumOver(wg, J) \in Nat
  BY <1>1, SumIsNat
<1>3. whole \in Nat /\ whole # 0
  BY <1>1, SumIsNat DEF whole
<1>4. SumOver(wf, J) <= SumOver(wg, J)
  <2>1. \A j \in J : wf[j] \in Int /\ wg[j] \in Int /\ wf[j] <= wg[j]
    BY <1>1
  <2> QED
    BY <2>1, SumsGrow
<1>5. SumOver(wg, J) <= Scale * whole
  <2>1. \A j \in J : wg[j] \in Int /\ weight[j] \in Int /\ 1 * wg[j] <= Scale * weight[j]
    BY <1>1
  <2>2. 1 \in Int /\ Scale \in Int
    OBVIOUS
  <2>3. 1 * SumOver(wg, J) <= Scale * whole
    BY <2>1, <2>2, ScaledSums DEF whole
  <2> QED
    BY <1>2, <2>3
<1> DEFINE low == SumOver(wf, J) \div whole
           high == SumOver(wg, J) \div whole
<1>6. low \in Int /\ high \in Int /\ 0 <= low /\ low <= high
  BY <1>2, <1>3, <1>4, QuotientGrows
<1>7. high <= Scale
  <2> DEFINE n == SumOver(wg, J)
  <2>1. whole * high <= n
    BY <1>2, <1>3
  <2> HIDE DEF high
  <2>2. n <= whole * Scale
    BY <1>3, <1>5
  <2>3. whole * Scale < whole * (Scale + 1)
    BY <1>3
  <2>4. whole * high < whole * (Scale + 1)
    BY <1>2, <1>3, <1>6, <2>1, <2>2, <2>3
  <2>5. high < Scale + 1
    BY <1>3, <1>6, <2>4, Cancels
  <2> QED
    BY <1>6, <2>5
<1>8. low \in Units /\ high \in Units /\ low <= high
  <2> HIDE DEF low, high
  <2> QED
    BY <1>6, <1>7 DEF Units
<1> QED
  BY <1>8 DEF wf, wg, whole

\* c may compare with d where a compares with b, and is not further ahead.
FurtherAhead(a, b, c, d) ==
  /\ Known(a, b) = Known(c, d)
  /\ \A j \in Known(a, b) : c.value[j] - d.value[j] <= a.value[j] - b.value[j]
  /\ a.severe => c.severe

LEMMA CredibilityGrows ==
  ASSUME NEW a \in Compared, NEW b \in Compared, NEW c \in Compared, NEW d \in Compared,
         FurtherAhead(a, b, c, d)
  PROVE  /\ Credibility(a, b) \in Units /\ Credibility(c, d) \in Units
         /\ Credibility(c, d) <= Credibility(a, b)
<1> USE DistillationAssumption
<1> DEFINE J == Known(a, b)
           con(x, y) == [j \in J |-> Concordance(j, x.value[j], y.value[j])]
           dis(x, y) == [j \in J |-> Discordance(j, x.value[j], y.value[j])]
<1>1. /\ J = Known(c, d) /\ J \in SUBSET Criteria /\ IsFiniteSet(J)
      /\ \A j \in J : /\ a.value[j] \in Int /\ b.value[j] \in Int
                      /\ c.value[j] \in Int /\ d.value[j] \in Int
                      /\ c.value[j] - d.value[j] <= a.value[j] - b.value[j]
  BY KnownIsFinite DEF FurtherAhead
<1>2. \A j \in J :
        /\ Concordance(j, a.value[j], b.value[j]) \in Units
        /\ Concordance(j, c.value[j], d.value[j]) \in Units
        /\ Concordance(j, c.value[j], d.value[j]) <= Concordance(j, a.value[j], b.value[j])
        /\ Discordance(j, a.value[j], b.value[j]) \in Units
        /\ Discordance(j, c.value[j], d.value[j]) \in Units
        /\ Discordance(j, a.value[j], b.value[j]) <= Discordance(j, c.value[j], d.value[j])
  <2> HIDE DEF J
  <2> QED
    BY <1>1, ConcordanceGrows, DiscordanceFalls
<1>3. /\ con(a, b) \in [J -> Units] /\ con(c, d) \in [J -> Units]
      /\ \A j \in J : con(c, d)[j] <= con(a, b)[j]
      /\ dis(a, b) \in [J -> Units] /\ dis(c, d) \in [J -> Units]
      /\ \A j \in J : dis(a, b)[j] <= dis(c, d)[j]
  <2> HIDE DEF J
  <2> QED
    BY <1>2
<1>4. CASE SumOver(weight, J) = 0
  <2>1. Credibility(a, b) = 0 /\ Credibility(c, d) = 0
    BY <1>1, <1>4 DEF Credibility
  <2> QED
    BY <2>1 DEF Units
<1>5. CASE SumOver(weight, J) # 0
  <2> DEFINE C == Overall(c, d)
             D == Overall(a, b)
             low == Damped(C, c, d)
             high == Damped(D, a, b)
  <2>1. C \in Units /\ D \in Units /\ C <= D
    <3>1. /\ D = SumOver([j \in J |-> weight[j] * con(a, b)[j]], J) \div SumOver(weight, J)
          /\ C = SumOver([j \in J |-> weight[j] * con(c, d)[j]], J) \div SumOver(weight, J)
      <4>1. [j \in J |-> weight[j] * con(a, b)[j]]
              = [j \in J |-> weight[j] * Concordance(j, a.value[j], b.value[j])]
        OBVIOUS
      <4>2. [j \in J |-> weight[j] * con(c, d)[j]]
              = [j \in J |-> weight[j] * Concordance(j, c.value[j], d.value[j])]
        OBVIOUS
      <4> HIDE DEF con
      <4> QED
        BY <1>1, <4>1, <4>2 DEF Overall
    <3> HIDE DEF J, con, C, D
    <3> QED
      BY <1>1, <1>3, <1>5, <3>1, AverageGrows
  <2>2. low \in Units /\ high \in Units /\ low <= high
    <3>1. /\ high = IF \E j \in J : dis(a, b)[j] = Scale THEN 0 ELSE Softened(D, dis(a, b), J)
          /\ low = IF \E j \in J : dis(c, d)[j] = Scale THEN 0 ELSE Softened(C, dis(c, d), J)
      <4> HIDE DEF C, D
      <4> QED
        BY <1>1 DEF Damped
    <3>2. /\ Softened(C, dis(c, d), J) \in Units /\ Softened(D, dis(a, b), J) \in Units
          /\ Softened(C, dis(c, d), J) <= Softened(D, dis(a, b), J)
      <4> HIDE DEF J, dis, C, D
      <4> QED
        BY <1>1, <1>3, <2>1, SoftenedGrows
    <3>3. (\E j \in J : dis(a, b)[j] = Scale) => \E j \in J : dis(c, d)[j] = Scale
      <4> HIDE DEF J, dis
      <4> QED
        BY <1>3 DEF Units
    <3> HIDE DEF J, dis, C, D, low, high
    <3> QED
      BY <3>1, <3>2, <3>3 DEF Units
  <2>3. Carried(a, b) => Carried(c, d)
    <3> DEFINE more == {j \in J : weight[j] > 0
                                 /\ 2 * Concordance(j, a.value[j], b.value[j]) > Scale}
               less == {j \in J : weight[j] > 0
                                 /\ 2 * Concordance(j, c.value[j], d.value[j]) > Scale}
    <3>1. less \in SUBSET more
      <4> HIDE DEF J
      <4> QED
        BY <1>2 DEF Units
    <3>2. IsFiniteSet(more)
      <4>1. more \in SUBSET J
        OBVIOUS
      <4> HIDE DEF J, more
      <4> QED
        BY <1>1, <4>1, FS_Subset
    <3>3. /\ Cardinality(less) \in Nat /\ Cardinality(more) \in Nat
          /\ Cardinality(less) <= Cardinality(more)
      <4> HIDE DEF less, more
      <4>1. IsFiniteSet(less) /\ Cardinality(less) <= Cardinality(more)
        BY <3>1, <3>2, FS_Subset
      <4> QED
        BY <3>2, <4>1, FS_CardinalityType
    <3>4. /\ Carried(a, b) <=> Cardinality(more) <= 1
          /\ Carried(c, d) <=> Cardinality(less) <= 1
      BY <1>1 DEF Carried
    <3> HIDE DEF less, more
    <3> QED
      BY <3>3, <3>4
  <2>4. /\ Credibility(a, b) = IF a.severe /\ Carried(a, b) THEN 0 ELSE high
        /\ Credibility(c, d) = IF c.severe /\ Carried(c, d) THEN 0 ELSE low
    BY <1>1, <1>5 DEF Credibility
  <2>5. a.severe => c.severe
    BY DEF FurtherAhead
  <2> HIDE DEF J, low, high, C, D
  <2> QED
    BY <2>2, <2>3, <2>4, <2>5 DEF Units
<1> QED
  BY <1>4, <1>5

LEMMA NoWorseIsAhead ==
  ASSUME portfolios \in [Engineers -> Compared],
         NEW a \in Engineers, NEW b \in Engineers, NoWorse(a, b)
  PROVE  LET A == portfolios[a]
             B == portfolios[b]
         IN  /\ \A C \in Compared : FurtherAhead(A, C, B, C) /\ FurtherAhead(C, B, C, A)
             /\ FurtherAhead(A, B, B, A)
<1> DEFINE A == portfolios[a]
           B == portfolios[b]
<1>1. A \in Compared /\ B \in Compared
  OBVIOUS
<1>3. /\ \A j \in Criteria : \/ A.value[j] = Unknown /\ B.value[j] = Unknown
                             \/ /\ Unknown \notin {A.value[j], B.value[j]}
                                /\ A.value[j] >= B.value[j]
      /\ A.severe => B.severe
  BY DEF NoWorse
<1> HIDE DEF A, B
<1>4. \A C \in Compared : FurtherAhead(A, C, B, C) /\ FurtherAhead(C, B, C, A)
  <2> TAKE C \in Compared
  <2>1. Known(A, C) = Known(B, C) /\ Known(C, B) = Known(C, A)
    BY <1>3 DEF Known
  <2>2. \A j \in Known(A, C) : B.value[j] - C.value[j] <= A.value[j] - C.value[j]
    <3> TAKE j \in Known(A, C)
    <3>1. A.value[j] \in Int /\ B.value[j] \in Int /\ C.value[j] \in Int
      BY <1>1, <2>1, KnownIsFinite
    <3>2. A.value[j] >= B.value[j]
      BY <1>3 DEF Known
    <3> QED
      BY <3>1, <3>2
  <2>3. \A j \in Known(C, B) : C.value[j] - A.value[j] <= C.value[j] - B.value[j]
    <3> TAKE j \in Known(C, B)
    <3>1. A.value[j] \in Int /\ B.value[j] \in Int /\ C.value[j] \in Int
      BY <1>1, <2>1, KnownIsFinite
    <3>2. A.value[j] >= B.value[j]
      BY <1>3 DEF Known
    <3> QED
      BY <3>1, <3>2
  <2> QED
    BY <1>3, <2>1, <2>2, <2>3 DEF FurtherAhead
<1>5. FurtherAhead(A, B, B, A)
  <2>1. Known(A, B) = Known(B, A)
    BY DEF Known
  <2>2. \A j \in Known(A, B) : B.value[j] - A.value[j] <= A.value[j] - B.value[j]
    <3> TAKE j \in Known(A, B)
    <3>1. A.value[j] \in Int /\ B.value[j] \in Int
      BY <1>1, KnownIsFinite
    <3>2. A.value[j] >= B.value[j]
      BY <1>3 DEF Known
    <3> QED
      BY <3>1, <3>2
  <2> QED
    BY <1>3, <2>1, <2>2 DEF FurtherAhead
<1> QED
  BY <1>4, <1>5 DEF A, B

LEMMA NoWorseDominates ==
  ASSUME portfolios \in [Engineers -> Compared], cred = Matrix(portfolios),
         NEW a \in Engineers, NEW b \in Engineers, a # b, NoWorse(a, b)
  PROVE  Dominates(a, b)
<1> DEFINE A == portfolios[a]
           B == portfolios[b]
<1>1. A \in Compared /\ B \in Compared
  OBVIOUS
<1>2. \A x, y \in Engineers : x # y =>
        cred[<<x, y>>] = Credibility(portfolios[x], portfolios[y])
  BY DEF Matrix, Comparisons
<1>4. \A C \in Compared : FurtherAhead(A, C, B, C) /\ FurtherAhead(C, B, C, A)
  BY NoWorseIsAhead
<1>5. FurtherAhead(A, B, B, A)
  BY NoWorseIsAhead
<1> HIDE DEF A, B
<1>6. cred[<<a, b>>] >= cred[<<b, a>>]
  <2>1. /\ Credibility(A, B) \in Units /\ Credibility(B, A) \in Units
        /\ Credibility(B, A) <= Credibility(A, B)
    BY <1>1, <1>5, CredibilityGrows
  <2> QED
    BY <1>2, <2>1, DistillationAssumption DEF A, B, Units
<1>7. ASSUME NEW c \in Engineers \ {a, b}
      PROVE  cred[<<a, c>>] >= cred[<<b, c>>] /\ cred[<<c, a>>] <= cred[<<c, b>>]
  <2> DEFINE C == portfolios[c]
  <2>1. C \in Compared
    OBVIOUS
  <2>2. /\ cred[<<a, c>>] = Credibility(A, C) /\ cred[<<b, c>>] = Credibility(B, C)
        /\ cred[<<c, a>>] = Credibility(C, A) /\ cred[<<c, b>>] = Credibility(C, B)
    BY <1>2 DEF A, B
  <2> HIDE DEF C
  <2>3. FurtherAhead(A, C, B, C) /\ FurtherAhead(C, B, C, A)
    BY <1>4, <2>1
  <2>4. /\ Credibility(A, C) \in Units /\ Credibility(B, C) \in Units
        /\ Credibility(B, C) <= Credibility(A, C)
    BY <1>1, <2>1, <2>3, CredibilityGrows
  <2>5. /\ Credibility(C, B) \in Units /\ Credibility(C, A) \in Units
        /\ Credibility(C, A) <= Credibility(C, B)
    BY <1>1, <2>1, <2>3, CredibilityGrows
  <2> QED
    BY <2>2, <2>4, <2>5, DistillationAssumption DEF Units
<1> QED
  BY <1>6, <1>7 DEF Dominates

\* Every entry of the matrix is a credibility, as the distillation needs.
LEMMA MatrixType ==
  ASSUME NEW P \in [Engineers -> Compared]
  PROVE  Matrix(P) \in [Comparisons -> 0 .. Scale]
<1>1. ASSUME NEW x \in Compared, NEW y \in Compared PROVE Credibility(x, y) \in Units
  <2>1. \A j \in Known(x, y) : x.value[j] - y.value[j] <= x.value[j] - y.value[j]
    BY KnownIsFinite
  <2>2. FurtherAhead(x, y, x, y)
    BY <2>1 DEF FurtherAhead
  <2> QED
    BY <2>2, CredibilityGrows
<1>2. \A e \in Comparisons : e[1] \in Engineers /\ e[2] \in Engineers
  BY DEF Comparisons
<1> QED
  BY <1>1, <1>2 DEF Matrix, Units

MatrixInv == portfolios \in [Engineers -> Compared] /\ cred = Matrix(portfolios)

RankingInv == IInv /\ MatrixInv

LEMMA RankingStarts == RunScenario => RankingInv
BY MatrixType, AnyMatrixIInv DEF RunScenario, AnyMatrix, RankingInv, MatrixInv

LEMMA RankingStep == RankingInv /\ [FinalRanking]_rankVars => RankingInv'
<1> SUFFICES ASSUME RankingInv, [FinalRanking]_rankVars PROVE RankingInv'
  OBVIOUS
<1>1. [Distil]_<<cred, dist>>
  BY DEF FinalRanking, rankVars
<1>2. MatrixInv'
  BY DEF RankingInv, MatrixInv, FinalRanking, rankVars, Distil, Narrow, TakeClass, EndPass,
         Matrix
<1> QED
  BY <1>1, <1>2, DistilStep DEF RankingInv

LEMMA BetterFromDominance == RankingInv => BetterIsNotBehind
BY NoWorseDominates, TiersKeepDominance
DEF RankingInv, MatrixInv, DominanceInTiers, BetterIsNotBehind

\* With whatever weights and thresholds, who is at least as good on every
\* criterion, knows the same ones and has no more counterevidence against him is
\* never in a tier behind: neither compare, with its thresholds, damping and
\* vetoes, nor the distillations turn the evidence round.
THEOREM BetterIsNeverBehind == RankingSpec => []BetterIsNotBehind
BY RankingStarts, RankingStep, BetterFromDominance, PTL DEF RankingSpec

-----------------------------------------------------------------------------
(***************************************************************************)
(* The cross-checks.                                                       *)
(***************************************************************************)

LEMMA FloorGrows ==
  ASSUME NEW m \in Int, NEW n \in Int, NEW d \in Int, m <= n, 0 < d
  PROVE  m \div d \in Int /\ n \div d \in Int /\ m \div d <= n \div d
<1> DEFINE a == m \div d
           b == n \div d
<1>1. /\ a \in Int /\ d * a <= m /\ m < d * (a + 1)
      /\ b \in Int /\ d * b <= n /\ n < d * (b + 1)
  OBVIOUS
<1> HIDE DEF a, b
<1>2. d * a < d * (b + 1)
  BY <1>1
<1>3. a < b + 1
  BY <1>1, <1>2, Cancels
<1> QED
  BY <1>1, <1>3 DEF a, b

LEMMA LinearGrows ==
  ASSUME NEW j \in Criteria, NEW c \in Int, NEW d \in Int, c <= d
  PROVE  Linear(j, c) \in Units /\ Linear(j, d) \in Units /\ Linear(j, c) <= Linear(j, d)
<1> USE DistillationAssumption, CriteriaAssumption
<1> DEFINE q == indifference[j]
           p == preference[j]
           of(x) == Fraction(x - q, p - q)
<1>1. q \in Int /\ p \in Int
  OBVIOUS
<1> HIDE DEF q, p
<1>2. \A x \in Int : Linear(j, x) =
        IF x <= q THEN 0 ELSE IF x >= p THEN Scale ELSE IF p > q THEN of(x) ELSE Scale
  BY DEF Linear, q, p
<1>3. \A x, y \in Int : q < x /\ x <= y /\ y < p =>
        of(x) \in Units /\ of(y) \in Units /\ of(x) <= of(y)
  <2> SUFFICES ASSUME NEW x \in Int, NEW y \in Int, q < x, x <= y, y < p
               PROVE  of(x) \in Units /\ of(y) \in Units /\ of(x) <= of(y)
    OBVIOUS
  <2>1. /\ x - q \in Int /\ y - q \in Int /\ p - q \in Int
        /\ 0 <= x - q /\ x - q <= y - q /\ y - q <= p - q /\ 0 < p - q
    BY <1>1
  <2> QED
    BY <2>1, FractionGrows
<1>4. \A x \in Int : q < x /\ x < p => of(x) \in Units
  BY <1>3
<1>5. q < c /\ d < p => of(c) <= of(d)
  BY <1>3
<1> HIDE DEF of
<1> QED
  BY <1>1, <1>2, <1>4, <1>5 DEF Units

LEMMA PreferredGrows ==
  ASSUME NEW a \in Compared, NEW b \in Compared, NEW c \in Compared, NEW d \in Compared,
         FurtherAhead(a, b, c, d)
  PROVE  /\ Preferred(a, b) \in Units /\ Preferred(c, d) \in Units
         /\ Preferred(c, d) <= Preferred(a, b)
<1> USE DistillationAssumption
<1> DEFINE J == Known(a, b)
           of(x, y) == [j \in J |-> Linear(j, x.value[j] - y.value[j])]
<1>1. /\ J = Known(c, d) /\ J \in SUBSET Criteria /\ IsFiniteSet(J)
      /\ \A j \in J : /\ a.value[j] - b.value[j] \in Int
                      /\ c.value[j] - d.value[j] \in Int
                      /\ c.value[j] - d.value[j] <= a.value[j] - b.value[j]
  BY KnownIsFinite DEF FurtherAhead
<1>2. /\ of(a, b) \in [J -> Units] /\ of(c, d) \in [J -> Units]
      /\ \A j \in J : of(c, d)[j] <= of(a, b)[j]
  <2> HIDE DEF J
  <2> QED
    BY <1>1, LinearGrows
<1>3. /\ Preferred(a, b) = IF SumOver(weight, J) = 0 THEN 0 ELSE
           SumOver([j \in J |-> weight[j] * of(a, b)[j]], J) \div SumOver(weight, J)
      /\ Preferred(c, d) = IF SumOver(weight, J) = 0 THEN 0 ELSE
           SumOver([j \in J |-> weight[j] * of(c, d)[j]], J) \div SumOver(weight, J)
  <2>1. [j \in J |-> weight[j] * of(a, b)[j]]
          = [j \in J |-> weight[j] * Linear(j, a.value[j] - b.value[j])]
    OBVIOUS
  <2>2. [j \in J |-> weight[j] * of(c, d)[j]]
          = [j \in J |-> weight[j] * Linear(j, c.value[j] - d.value[j])]
    OBVIOUS
  <2> HIDE DEF of
  <2> QED
    BY <1>1, <2>1, <2>2 DEF Preferred
<1>4. CASE SumOver(weight, J) = 0
  <2> HIDE DEF J, of
  <2> QED
    BY <1>3, <1>4 DEF Units
<1>5. CASE SumOver(weight, J) # 0
  <2> HIDE DEF J, of
  <2> QED
    BY <1>1, <1>2, <1>3, <1>5, AverageGrows
<1> QED
  BY <1>4, <1>5

LEMMA DifferenceType ==
  ASSUME portfolios \in [Engineers -> Compared], NEW a \in Engineers, NEW b \in Engineers
  PROVE  Difference(a, b) \in Int
<1>1. \A A, B \in Compared : Preferred(A, B) \in Units
  <2> TAKE A, B \in Compared
  <2>1. \A j \in Known(A, B) : A.value[j] - B.value[j] <= A.value[j] - B.value[j]
    BY KnownIsFinite
  <2>2. FurtherAhead(A, B, A, B)
    BY <2>1 DEF FurtherAhead
  <2> QED
    BY <2>2, PreferredGrows
<1>2. portfolios[a] \in Compared /\ portfolios[b] \in Compared
  OBVIOUS
<1> QED
  BY <1>1, <1>2, DistillationAssumption DEF Difference, Units

LEMMA OthersAreFinite ==
  ASSUME NEW a \in Engineers
  PROVE  /\ IsFiniteSet(Others(a)) /\ Cardinality(Others(a)) \in Nat
         /\ Others(a) # {} => Cardinality(Others(a)) > 0
         /\ \A b \in Engineers : Cardinality(Others(a)) = Cardinality(Others(b))
<1>1. IsFiniteSet(Engineers)
  BY DistillationAssumption
<1>2. \A b \in Engineers : /\ IsFiniteSet(Others(b))
                           /\ Cardinality(Others(b)) = Cardinality(Engineers) - 1
  BY <1>1, FS_RemoveElement DEF Others
<1>3. \A b \in Engineers : Cardinality(Others(b)) \in Nat
  BY <1>2, FS_CardinalityType
<1>4. Others(a) # {} => Cardinality(Others(a)) # 0
  BY <1>2, FS_EmptySet
<1> QED
  BY <1>2, <1>3, <1>4

LEMMA FlowType ==
  ASSUME portfolios \in [Engineers -> Compared], NEW a \in Engineers
  PROVE  Flow(a) \in Int
<1> DEFINE f == [b \in Others(a) |-> Difference(a, b)]
<1>1. \A b \in Others(a) : f[b] \in Int
  BY DifferenceType DEF Others
<1> HIDE DEF f
<1>2. SumOver(f, Others(a)) \in Int
  BY <1>1, OthersAreFinite, SumIsInt
<1> QED
  BY <1>2 DEF f, Flow

\* The net flow follows the flow, of which it is the mean.
LEMMA NetFlowGrows ==
  ASSUME portfolios \in [Engineers -> Compared], NEW a \in Engineers, NEW b \in Engineers,
         Flow(b) <= Flow(a)
  PROVE  NetFlow(b) <= NetFlow(a)
<1>1. Flow(a) \in Int /\ Flow(b) \in Int
  BY FlowType
<1> DEFINE n == Cardinality(Others(a))
<1>2. n = Cardinality(Others(b)) /\ n \in Nat /\ (Others(a) # {} => n > 0)
  BY OthersAreFinite
<1>3. Others(a) = {} <=> Others(b) = {}
  BY <1>2, OthersAreFinite, FS_EmptySet
<1> HIDE DEF n
<1>4. CASE Others(a) = {}
  <2>1. NetFlow(a) = 0 /\ NetFlow(b) = 0
    BY <1>3, <1>4 DEF NetFlow
  <2> QED
    BY <2>1
<1>5. CASE Others(a) # {}
  <2>1. NetFlow(a) = Flow(a) \div n /\ NetFlow(b) = Flow(b) \div n
    BY <1>2, <1>3, <1>5 DEF NetFlow, n
  <2> QED
    BY <1>1, <1>2, <1>5, <2>1, FloorGrows
<1> QED
  BY <1>4, <1>5

LEMMA NetFlowType ==
  ASSUME portfolios \in [Engineers -> Compared], NEW a \in Engineers
  PROVE  NetFlow(a) \in Int
<1> DEFINE n == Cardinality(Others(a))
<1>1. Flow(a) \in Int /\ n \in Nat /\ (Others(a) # {} => n > 0)
  BY FlowType, OthersAreFinite
<1>2. NetFlow(a) = IF Others(a) = {} THEN 0 ELSE Flow(a) \div n
  BY DEF NetFlow
<1> HIDE DEF n
<1> QED
  BY <1>1, <1>2

LEMMA RootType ==
  ASSUME NEW n \in Nat
  PROVE  Root(n) \in Nat
<1> USE DistillationAssumption
<1> DEFINE bound == Scale * Cardinality(Engineers)
           R == {r \in 0 .. bound : r * r <= n}
           Is(r) == r * r <= n /\ (r = bound \/ n < (r + 1) * (r + 1))
<1>1. bound \in Nat
  BY FS_CardinalityType
<1>2. IsFiniteSet(R) /\ R \in SUBSET Int /\ 0 \in R
  <2>1. IsFiniteSet(0 .. bound) /\ R \in SUBSET (0 .. bound)
    BY <1>1, FS_Interval
  <2>2. IsFiniteSet(R)
    <3> HIDE DEF R
    <3> QED
      BY <2>1, FS_Subset
  <2>3. 0 \in 0 .. bound /\ 0 * 0 <= n
    BY <1>1
  <2> QED
    BY <2>1, <2>2, <2>3
<1>3. PICK r \in R : \A s \in R : s <= r
  <2>1. R # {}
    BY <1>2
  <2> HIDE DEF R
  <2> QED
    BY <1>2, <2>1, GreatestExists
<1>4. r \in 0 .. bound /\ Is(r)
  <2>1. r \in 0 .. bound /\ r * r <= n
    BY <1>3
  <2>2. ASSUME r # bound, (r + 1) * (r + 1) <= n PROVE FALSE
    <3>1. r + 1 \in 0 .. bound
      BY <1>1, <2>1, <2>2
    <3>2. r + 1 \in R
      BY <2>2, <3>1
    <3>3. r + 1 <= r
      <4> HIDE DEF R
      <4> QED
        BY <1>3, <3>2
    <3> QED
      BY <2>1, <3>3
  <2>3. (r + 1) * (r + 1) \in Int
    BY <1>1, <2>1
  <2> QED
    BY <2>1, <2>2, <2>3
<1>5. Root(n) = CHOOSE x \in 0 .. bound : Is(x)
  BY DEF Root
<1> HIDE DEF Is, bound
<1>6. Root(n) \in 0 .. bound
  BY <1>4, <1>5
<1> QED
  BY <1>1, <1>6

LEMMA DispersionType ==
  ASSUME portfolios \in [Engineers -> Compared], NEW a \in Engineers
  PROVE  Dispersion(a) \in Nat
<1> DEFINE n == Cardinality(Others(a))
           off(b) == n * Difference(a, b) - Flow(a)
           squares == [b \in Others(a) |-> off(b) * off(b)]
<1>1. n \in Nat /\ IsFiniteSet(Others(a))
  BY OthersAreFinite
<1>2. \A b \in Others(a) : squares[b] \in Nat
  <2> TAKE b \in Others(a)
  <2>1. Difference(a, b) \in Int /\ Flow(a) \in Int
    BY DifferenceType, FlowType DEF Others
  <2>2. off(b) \in Int
    BY <1>1, <2>1
  <2> HIDE DEF off
  <2>3. off(b) * off(b) \in Nat
    BY <2>2
  <2> QED
    BY <2>3
<1>3. Dispersion(a) = IF n = 0 THEN 0 ELSE Root(SumOver(squares, Others(a)) \div n)
  BY DEF Dispersion
<1> HIDE DEF squares
<1>4. SumOver(squares, Others(a)) \in Nat
  BY <1>1, <1>2, SumIsNat
<1>5. n # 0 => SumOver(squares, Others(a)) \div n \in Nat
  <2> SUFFICES ASSUME n # 0 PROVE SumOver(squares, Others(a)) \div n \in Nat
    OBVIOUS
  <2> HIDE DEF n
  <2> QED
    BY <1>1, <1>4, QuotientGrows
<1> QED
  BY <1>3, <1>5, RootType

\* Who is strictly preferred has the larger flow: the intervals are centred on it.
LEMMA BeatenHasLess ==
  ASSUME portfolios \in [Engineers -> Compared], NEW a \in Engineers, NEW b \in Engineers,
         Beats(a, b)
  PROVE  /\ Flow(b) < Flow(a)
         /\ \A c \in Engineers : Beats(c, a) => Beats(c, b)
         /\ ~Beats(b, a)
<1> USE DistillationAssumption
<1> DEFINE low(c) == LowerBound(c)
           high(c) == UpperBound(c)
<1>1. \A c \in Engineers : /\ Flow(c) \in Int /\ low(c) \in Int /\ high(c) \in Int
                           /\ low(c) <= Scale * Flow(c) /\ Scale * Flow(c) <= high(c)
  <2> TAKE c \in Engineers
  <2>1. Flow(c) \in Int /\ Width * Dispersion(c) \in Nat
    <3>1. Dispersion(c) \in Nat /\ Width \in Nat
      BY DispersionType, WidthAssumption
    <3> QED
      BY <3>1, FlowType
  <2> QED
    BY <2>1 DEF LowerBound, UpperBound
<1>2. \A c, d \in Engineers : Beats(c, d) <=> c # d /\ low(c) > high(d)
  BY DEF Beats
<1> HIDE DEF low, high
<1>3. Scale * Flow(b) < Scale * Flow(a)
  BY <1>1, <1>2
<1>4. Flow(b) < Flow(a)
  BY <1>1, <1>3, Cancels
<1>5. ASSUME NEW c \in Engineers, Beats(c, a) PROVE Beats(c, b)
  <2>1. low(c) > high(b) /\ low(b) <= high(b)
    BY <1>1, <1>2, <1>5
  <2>2. c # b
    BY <1>1, <2>1
  <2> QED
    BY <1>2, <2>1, <2>2
<1>6. ~Beats(b, a)
  BY <1>1, <1>2
<1> QED
  BY <1>4, <1>5, <1>6

LEMMA BeatenStandsBehind ==
  ASSUME portfolios \in [Engineers -> Compared]
  PROVE  BeatenIsBehind
<1> SUFFICES ASSUME NEW a \in Engineers, NEW b \in Engineers, Beats(a, b)
             PROVE  StandsAt(a) < StandsAt(b) /\ NetFlow(a) >= NetFlow(b)
  BY DEF BeatenIsBehind
<1>1. /\ Flow(b) < Flow(a) /\ ~Beats(b, a)
      /\ \A c \in Engineers : Beats(c, a) => Beats(c, b)
  BY BeatenHasLess
<1> DEFINE over(x) == {c \in Engineers : Beats(c, x)}
<1>2. over(a) \in SUBSET over(b) /\ a \in over(b) /\ a \notin over(a)
  BY <1>1 DEF Beats
<1>3. IsFiniteSet(over(a)) /\ IsFiniteSet(over(b))
  <2>1. over(a) \in SUBSET Engineers /\ over(b) \in SUBSET Engineers
    OBVIOUS
  <2> HIDE DEF over
  <2> QED
    BY <2>1, DistillationAssumption, FS_Subset
<1>4. StandsAt(a) = Cardinality(over(a)) + 1 /\ StandsAt(b) = Cardinality(over(b)) + 1
  BY DEF StandsAt
<1> HIDE DEF over
<1>5. Cardinality(over(a)) < Cardinality(over(b))
  <2>1. /\ Cardinality(over(a)) <= Cardinality(over(b))
        /\ Cardinality(over(a)) = Cardinality(over(b)) => over(a) = over(b)
    BY <1>2, <1>3, FS_Subset
  <2>2. Cardinality(over(a)) \in Nat /\ Cardinality(over(b)) \in Nat
    BY <1>3, FS_CardinalityType
  <2> QED
    BY <1>2, <2>1, <2>2
<1>6. Cardinality(over(a)) \in Nat /\ Cardinality(over(b)) \in Nat
  BY <1>3, FS_CardinalityType
<1>7. NetFlow(b) <= NetFlow(a)
  BY <1>1, FlowType, NetFlowGrows
<1>8. NetFlow(a) \in Int /\ NetFlow(b) \in Int
  BY NetFlowType
<1> QED
  BY <1>4, <1>5, <1>6, <1>7, <1>8

LEMMA NoWorseFlows ==
  ASSUME portfolios \in [Engineers -> Compared],
         NEW a \in Engineers, NEW b \in Engineers, a # b, NoWorse(a, b)
  PROVE  Flow(b) <= Flow(a)
<1> USE DistillationAssumption
<1> DEFINE A == portfolios[a]
           B == portfolios[b]
           fa == [c \in Others(a) |-> Difference(a, c)]
           fb == [c \in Others(b) |-> Difference(b, c)]
           R == Engineers \ {a, b}
<1>1. A \in Compared /\ B \in Compared
  OBVIOUS
<1>2. /\ \A C \in Compared : FurtherAhead(A, C, B, C) /\ FurtherAhead(C, B, C, A)
      /\ FurtherAhead(A, B, B, A)
  BY NoWorseIsAhead
<1>3. ASSUME NEW c \in R PROVE Difference(b, c) <= Difference(a, c)
  <2> DEFINE C == portfolios[c]
  <2>1. C \in Compared
    OBVIOUS
  <2>2. /\ Difference(a, c) = Preferred(A, C) - Preferred(C, A)
        /\ Difference(b, c) = Preferred(B, C) - Preferred(C, B)
    BY DEF Difference
  <2> HIDE DEF A, B, C
  <2>3. /\ Preferred(A, C) \in Units /\ Preferred(B, C) \in Units
        /\ Preferred(B, C) <= Preferred(A, C)
        /\ Preferred(C, A) \in Units /\ Preferred(C, B) \in Units
        /\ Preferred(C, A) <= Preferred(C, B)
    BY <1>1, <1>2, <2>1, PreferredGrows
  <2> QED
    BY <2>2, <2>3 DEF Units
<1>4. Difference(b, a) <= Difference(a, b)
  <2>1. /\ Difference(a, b) = Preferred(A, B) - Preferred(B, A)
        /\ Difference(b, a) = Preferred(B, A) - Preferred(A, B)
    BY DEF Difference
  <2> HIDE DEF A, B
  <2>2. /\ Preferred(A, B) \in Units /\ Preferred(B, A) \in Units
        /\ Preferred(B, A) <= Preferred(A, B)
    BY <1>1, <1>2, PreferredGrows
  <2> QED
    BY <2>1, <2>2 DEF Units
<1>5. /\ \A c \in Others(a) : fa[c] \in Int
      /\ \A c \in Others(b) : fb[c] \in Int
      /\ b \in Others(a) /\ a \in Others(b)
      /\ Others(a) \ {b} = R /\ Others(b) \ {a} = R
  BY DifferenceType DEF Others
<1>6. \A c \in R : fa[c] \in Int /\ fb[c] \in Int /\ fb[c] <= fa[c]
  BY <1>3, <1>5 DEF Others
<1>7. fa[b] \in Int /\ fb[a] \in Int /\ fb[a] <= fa[b]
  BY <1>4, <1>5
<1>8. Flow(a) = SumOver(fa, Others(a)) /\ Flow(b) = SumOver(fb, Others(b))
  BY DEF Flow
<1>9. IsFiniteSet(R)
  BY FS_Subset
<1> HIDE DEF fa, fb, R
<1>10. /\ SumOver(fa, Others(a)) = fa[b] + SumOver(fa, R)
       /\ SumOver(fb, Others(b)) = fb[a] + SumOver(fb, R)
  <2>1. SumOver(fa, Others(a)) = fa[b] + SumOver(fa, Others(a) \ {b})
    BY <1>5, OthersAreFinite, SumSplits
  <2>2. SumOver(fb, Others(b)) = fb[a] + SumOver(fb, Others(b) \ {a})
    BY <1>5, OthersAreFinite, SumSplits
  <2> QED
    BY <1>5, <2>1, <2>2
<1>11. /\ SumOver(fb, R) <= SumOver(fa, R)
       /\ SumOver(fa, R) \in Int /\ SumOver(fb, R) \in Int
  BY <1>6, <1>9, SumsGrow, SumIsInt
<1> QED
  BY <1>7, <1>8, <1>10, <1>11

LEMMA DominanceInCrossChecks ==
  ASSUME portfolios \in [Engineers -> Compared]
  PROVE  CrossChecksKeepDominance
<1> SUFFICES ASSUME NEW a \in Engineers, NEW b \in Engineers, a # b, NoWorse(a, b)
             PROVE  NetFlow(a) >= NetFlow(b) /\ ~Beats(b, a)
  BY DEF CrossChecksKeepDominance
<1>1. Flow(b) <= Flow(a)
  BY NoWorseFlows
<1>2. Flow(a) \in Int /\ Flow(b) \in Int
  BY FlowType
<1>3. ~Beats(b, a)
  BY <1>1, <1>2, BeatenHasLess
<1>4. NetFlow(b) <= NetFlow(a) /\ NetFlow(a) \in Int /\ NetFlow(b) \in Int
  BY <1>1, NetFlowGrows, NetFlowType
<1> QED
  BY <1>3, <1>4

LEMMA CrossChecksFromTypes == RankingInv => BeatenIsBehind /\ CrossChecksKeepDominance
BY BeatenStandsBehind, DominanceInCrossChecks DEF RankingInv, MatrixInv

\* Whatever the intervals' width, strict preference is an order that the positions
\* of promethee_iii and the net flows of promethee_ii follow.
THEOREM BeatenStaysBehind == RankingSpec => []BeatenIsBehind
BY RankingStarts, RankingStep, CrossChecksFromTypes, PTL DEF RankingSpec

\* Evidence that is nowhere worse is never turned round by a cross-check either.
THEOREM CrossChecksNeverTurn == RankingSpec => []CrossChecksKeepDominance
BY RankingStarts, RankingStep, CrossChecksFromTypes, PTL DEF RankingSpec
=============================================================================
