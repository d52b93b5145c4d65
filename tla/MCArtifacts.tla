---------------------------- MODULE MCArtifacts ----------------------------
(* Instances of Artifacts for TLC. *)
EXTENDS Artifacts, TLC

MCRuns == {AllStages, AllStages \ {"graph"}, {"graph"}, {"export", "phase2"}}

Symmetry == Permutations(Processes)
=============================================================================
