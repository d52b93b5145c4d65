--------------------------- MODULE ResumableFetch ---------------------------
(***************************************************************************)
(* What an extraction pass promises, said without requests, ledger or      *)
(* workers.  A run attempts every batch.  It leaves a batch in one of two  *)
(* ways: its shard is on disk, or the run gave up on it; and the run is    *)
(* reported only when it has left every batch, with the very set it gave   *)
(* up on.  The process may die at any time: that costs the attempts under  *)
(* way, never a shard.                                                     *)
(***************************************************************************)
CONSTANTS
  Items,    \* what is to be fetched
  Nothing   \* no run has been reported

VARIABLES
  persisted,  \* items on disk
  outcome,    \* outcome[i]: what the present run made of item i
  running,    \* a process is running
  report      \* the items the last reported run gave up on

vars == <<persisted, outcome, running, report>>

Untried == [i \in Items |-> "pending"]

Init ==
  /\ persisted = {}
  /\ outcome = Untried
  /\ running = FALSE
  /\ report = Nothing

Start ==
  /\ ~running
  /\ running' = TRUE
  /\ UNCHANGED <<persisted, outcome, report>>

\* An item already on disk is satisfied without being fetched again.
Satisfy(i) ==
  /\ running
  /\ outcome[i] = "pending"
  /\ outcome' = [outcome EXCEPT ![i] = "satisfied"]
  /\ persisted' = persisted \union {i}
  /\ UNCHANGED <<running, report>>

GiveUp(i) ==
  /\ running
  /\ outcome[i] = "pending"
  /\ i \notin persisted
  /\ outcome' = [outcome EXCEPT ![i] = "failed"]
  /\ UNCHANGED <<persisted, running, report>>

Report ==
  /\ running
  /\ \A i \in Items : outcome[i] # "pending"
  /\ report' = {i \in Items : outcome[i] = "failed"}
  /\ running' = FALSE
  /\ outcome' = Untried
  /\ UNCHANGED persisted

Die ==
  /\ running
  /\ running' = FALSE
  /\ outcome' = Untried
  /\ UNCHANGED <<persisted, report>>

Next ==
  \/ Start
  \/ \E i \in Items : Satisfy(i) \/ GiveUp(i)
  \/ Report
  \/ Die

Spec == Init /\ [][Next]_vars

=============================================================================
