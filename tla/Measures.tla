------------------------------ MODULE Measures ------------------------------
(***************************************************************************)
(* What the values of Phase 2 are measured in: the bands of an episode,    *)
(* the value of a dimension and the comparison of two engineers.           *)
(***************************************************************************)
EXTENDS Integers, FiniteSetsExt

CONSTANTS
  Unknown,     \* a band or value that could not be assessed, which is not zero
  Scale        \* what 1.0 is in a comparison

SumOver(f, S) == MapThenSumSet(LAMBDA x : f[x], S)
=============================================================================
