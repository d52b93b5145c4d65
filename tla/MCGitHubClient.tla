--------------------------- MODULE MCGitHubClient ---------------------------
(***************************************************************************)
(* Instances of GitHubClient for TLC: two batches, one or both of them     *)
(* larger than a page, so that a crash can fall between two pages, and one *)
(* larger than what the overflow loop asks for (MAX_PAGES = 2).            *)
(***************************************************************************)
EXTENDS GitHubClient, TLC

MCPageCount == [b \in Batches |-> IF b = 2 THEN 2 ELSE 1]

MCOneTooLarge == [b \in Batches |-> IF b = 2 THEN 3 ELSE 2]

WorkerSymmetry == Permutations(Workers)

=============================================================================
