---------------------------- MODULE MCLLMClient ----------------------------
(***************************************************************************)
(* Instances of LLMClient: three calls, a cap of one or two, one retry.    *)
(***************************************************************************)
EXTENDS LLMClient

MCThreeTasks == <<"t1", "t2", "t3">>

MCPreference == <<"openrouter", "gemini">>

\* A run that is given keys, a replay flag and a cap.
Run(keys, replay, cap) ==
  [keys |-> keys, requested |-> "none", replay |-> replay, cap |-> cap,
   failOpen |-> TRUE]

\* The daily job with one and with three calls, runs without a cap, without a
\* key, with both keys, a replay, a requested provider that has no key, and a
\* budget that raises.
MCAll ==
  {Run({"openrouter"}, FALSE, cap) : cap \in {0, 1, 3}}
  \union
  {Run({}, FALSE, 0), Run({"openrouter", "gemini"}, FALSE, 1),
   Run({"gemini"}, TRUE, 0), Run({}, TRUE, 0)}
  \union
  {[keys |-> {"openrouter"}, requested |-> "gemini", replay |-> FALSE, cap |-> 0,
    failOpen |-> TRUE],
   [keys |-> {"gemini"}, requested |-> "none", replay |-> FALSE, cap |-> 0,
    failOpen |-> FALSE]}

\* The second provider's key, then a replay without a key.
MCGeminiThenReplay == {Run({"gemini"}, FALSE, 0), Run({}, TRUE, 0)}

=============================================================================
