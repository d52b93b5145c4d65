-------------------------- MODULE MCIngestRefresh --------------------------
(***************************************************************************)
(* Instances of IngestRefresh: four pull requests, with core buckets of    *)
(* two and detail buckets of three so that a detail bucket straddles two   *)
(* core buckets, as 10 and 25 do.                                          *)
(***************************************************************************)
EXTENDS IngestRefresh

\* Neighbours close the same issue.
MCIssueOf == [p \in Numbers |-> p \div 2]

\* A window of two slices that moves on by a day.
MCRolling == {{{0, 1}, {2}}, {{1, 2}, {3}}}

\* The same window from a day earlier.
MCWidened == {{{2, 3}}, {{1}, {2, 3}}}

=============================================================================
