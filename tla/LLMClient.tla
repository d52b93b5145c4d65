------------------------------ MODULE LLMClient ------------------------------
(***************************************************************************)
(* The optional semantic layer: one run of `python -m impact2 llm` after   *)
(* another over one cache directory (src/impact2/llm/provider.py, driven   *)
(* by _run_llm of src/impact2/cli.py).                                     *)
(*                                                                         *)
(* A run asks its tasks one after another, in the same order every time.   *)
(* A task is answered from the cache, from the provider, or it is queued.  *)
(* The client is single-threaded; the throttle and the backoff only take   *)
(* time and are left out, and so is what an answer says: the cache is the  *)
(* set of keys it has an answer for.                                       *)
(***************************************************************************)
EXTENDS Integers, Sequences, FiniteSets

CONSTANTS
  Asks,               \* Asks[i]: the task and payload of the i-th call of a run
  Preference,         \* llm.provider_preference
  OpenAIShape,        \* providers asked through _request_openai_shape
  Settings,           \* what a run may be started with, see Setting
  Poison,             \* tasks whose answer is never JSON
  MAX_RETRIES,        \* llm.request.max_retries
  MAX_CALLS_PER_RUN,  \* llm.budget.max_calls_per_run
  MaxKills            \* bound: runs killed

Calls == 1 .. Len(Asks)

Providers == {Preference[i] : i \in 1 .. Len(Preference)}

Tasks == {Asks[i] : i \in Calls}

\* cap: --max-calls, 0 when it is not given (or given as 0).
Setting ==
  [keys : SUBSET Providers, requested : Providers \union {"none"},
   replay : BOOLEAN, cap : Nat, failOpen : BOOLEAN]

ASSUME ClientAssumption ==
  /\ Asks \in Seq(Tasks)
  /\ Preference \in Seq(STRING) /\ "none" \notin Providers
  /\ Settings \subseteq Setting
  /\ MAX_RETRIES \in Nat
  /\ MAX_CALLS_PER_RUN \in Nat
  /\ MaxKills \in Nat

VARIABLES
  cache,      \* <<task, provider>>: the cache files, keyed by task and model
  setting,    \* what the run was started with
  provider,   \* LLMClient.provider
  phase,      \* "idle", "lookup", "request", "fallback", "store" or "done"
  pos,        \* the call the run is at
  attempt,    \* retries of this call so far
  calls,      \* usage.calls
  sent,       \* HTTP requests the run has really made
  pending,    \* calls in LLMClient.pending
  results,    \* results[i]: what the i-th call returned
  populated,  \* history: some run has ended with nothing pending
  kills       \* runs killed so far

client == <<setting, provider>>
vars   == <<cache, client, phase, pos, attempt, calls, sent, pending, results,
            populated, kills>>

Fresh == [i \in Calls |-> "none"]

Idle == [keys |-> {}, requested |-> "none", replay |-> FALSE, cap |-> 0,
         failOpen |-> TRUE]

Init ==
  /\ cache = {}
  /\ setting = Idle
  /\ provider = "none"
  /\ phase = "idle"
  /\ pos = 1 /\ attempt = 0 /\ calls = 0 /\ sent = 0
  /\ pending = {}
  /\ results = Fresh
  /\ populated = FALSE
  /\ kills = 0

-----------------------------------------------------------------------------
(* LLMClient.build. *)

Order(s) == IF s.requested = "none" THEN Preference ELSE <<s.requested>>

\* A replay takes the first provider of the order, whose key it need not have.
Usable(s) == {i \in 1 .. Len(Order(s)) : s.replay \/ Order(s)[i] \in s.keys}

First(s) == {Order(s)[i] : i \in {j \in Usable(s) : \A k \in Usable(s) : j <= k}}

Chosen(s) == IF Usable(s) = {} THEN {"none"} ELSE First(s)

Begin(s) ==
  /\ phase = "idle"
  /\ setting' = s
  /\ provider' \in Chosen(s)
  /\ phase' = "lookup"
  /\ pos' = 1 /\ attempt' = 0 /\ calls' = 0 /\ sent' = 0
  /\ pending' = {}
  /\ results' = Fresh
  /\ UNCHANGED <<cache, populated, kills>>

-----------------------------------------------------------------------------
(* LLMClient.complete. *)

Key(i) == <<Asks[i], provider>>

\* Call pos returns, and the run turns to the next.
Return(result) ==
  /\ results' = [results EXCEPT ![pos] = result]
  /\ pos' = pos + 1
  /\ attempt' = 0
  /\ phase' = "lookup"

Queue == pending' = pending \union {pos} /\ Return("pending")

AtLookup == phase = "lookup" /\ pos \in Calls

\* Mutation: a hit counts as a call.
CountedHit ==
  /\ AtLookup
  /\ Key(pos) \in cache
  /\ Return("hit")
  /\ calls' = calls + 1
  /\ UNCHANGED <<cache, client, sent, pending, populated, kills>>

Hit ==
  /\ AtLookup
  /\ Key(pos) \in cache
  /\ Return("hit")
  /\ UNCHANGED <<cache, client, calls, sent, pending, populated, kills>>

\* Mutation: one call more than the cap.
CapPassed == setting.cap # 0 /\ calls > setting.cap

CapReached == setting.cap # 0 /\ calls >= setting.cap

Online == provider # "none" /\ provider \in setting.keys /\ ~setting.replay

RunBudgetSpent == calls >= MAX_CALLS_PER_RUN

\* Mutation: a task over the cap is dropped.
DropOverBudget ==
  /\ AtLookup
  /\ Key(pos) \notin cache
  /\ CapReached \/ ~Online \/ RunBudgetSpent
  /\ Return("pending")
  /\ UNCHANGED <<cache, client, calls, sent, pending, populated, kills>>

\* The daily cap, no provider or a replay, the budget of the run.
QueueUnasked ==
  /\ AtLookup
  /\ Key(pos) \notin cache
  /\ CapReached \/ ~Online \/ (RunBudgetSpent /\ setting.failOpen)
  /\ Queue
  /\ UNCHANGED <<cache, client, calls, sent, populated, kills>>

Forget ==
  /\ setting' = Idle /\ provider' = "none"
  /\ phase' = "idle"
  /\ pos' = 1 /\ attempt' = 0 /\ calls' = 0 /\ sent' = 0
  /\ pending' = {}
  /\ results' = Fresh

\* The budget of the run is spent and fail_open is off: the run raises.
RaiseOnBudget ==
  /\ AtLookup
  /\ Key(pos) \notin cache
  /\ ~CapReached /\ Online /\ RunBudgetSpent /\ ~setting.failOpen
  /\ Forget
  /\ UNCHANGED <<cache, populated, kills>>

\* Mutation: the cache is not looked at.
AskAgain ==
  /\ AtLookup
  /\ ~CapReached /\ Online /\ ~RunBudgetSpent
  /\ phase' = "request"
  /\ UNCHANGED <<cache, client, pos, attempt, calls, sent, pending, results,
                 populated, kills>>

Ask ==
  /\ AtLookup
  /\ Key(pos) \notin cache
  /\ ~CapReached /\ Online /\ ~RunBudgetSpent
  /\ phase' = "request"
  /\ UNCHANGED <<cache, client, pos, attempt, calls, sent, pending, results,
                 populated, kills>>

-----------------------------------------------------------------------------
(* LLMClient._request: one HTTP request, or two, per attempt. *)

Posted ==
  /\ phase \in {"request", "fallback"}
  /\ sent' = sent + 1
  /\ UNCHANGED <<cache, client, populated, kills>>

\* 400, 404 or 422: once more without response_format.
SchemaRefused ==
  /\ Posted
  /\ phase = "request" /\ provider \in OpenAIShape
  /\ phase' = "fallback"
  /\ UNCHANGED <<pos, attempt, calls, pending, results>>

\* The attempt raised.
Retry ==
  /\ attempt < MAX_RETRIES
  /\ attempt' = attempt + 1
  /\ phase' = "request"
  /\ UNCHANGED <<pos, pending, results>>

GiveUp == attempt = MAX_RETRIES /\ Queue

\* A network error, an error status, an error block, a missing field.
Fails ==
  /\ Posted
  /\ Retry \/ GiveUp
  /\ UNCHANGED calls

\* A text that is not JSON: counted as a call, then as a failed attempt.
Unparsable ==
  /\ Posted
  /\ calls' = calls + 1
  /\ Retry \/ GiveUp

Answers(i) ==
  /\ pos = i
  /\ Posted
  /\ Asks[i] \notin Poison
  /\ calls' = calls + 1
  /\ phase' = "store"
  /\ UNCHANGED <<pos, attempt, pending, results>>

\* write_json puts the file in place whole, and complete returns.
Store ==
  /\ phase = "store"
  /\ cache' = cache \union {Key(pos)}
  /\ Return("asked")
  /\ UNCHANGED <<client, calls, sent, pending, populated, kills>>

-----------------------------------------------------------------------------

\* _llm_finish writes the results, LLM_PENDING.json and the report.
Finish ==
  /\ phase = "lookup" /\ pos \notin Calls
  /\ phase' = "done"
  /\ populated' = (populated \/ pending = {})
  /\ UNCHANGED <<cache, client, pos, attempt, calls, sent, pending, results,
                 kills>>

Exit ==
  /\ phase = "done"
  /\ Forget
  /\ UNCHANGED <<cache, populated, kills>>

Kill ==
  /\ phase \notin {"idle", "done"}
  /\ kills < MaxKills
  /\ kills' = kills + 1
  /\ Forget
  /\ UNCHANGED <<cache, populated>>

RunStep ==
  \/ Hit
  \/ QueueUnasked
  \/ RaiseOnBudget
  \/ Ask
  \/ SchemaRefused
  \/ Fails
  \/ Unparsable
  \/ \E i \in Calls : Answers(i)
  \/ Store
  \/ Finish
  \/ Exit

Next ==
  \/ \E s \in Settings : Begin(s)
  \/ RunStep
  \/ Kill

Spec == Init /\ [][Next]_vars

\* A run takes its next step: every request has a timeout.
FairSpec == Spec /\ WF_vars(RunStep)

-----------------------------------------------------------------------------
(* Properties. *)

\* The types of the variables; a call past the last one is the end of a run.
TypeOK ==
  /\ cache \subseteq Tasks \X Providers
  /\ setting \in Settings \union {Idle}
  /\ provider \in Providers \union {"none"}
  /\ phase \in {"idle", "lookup", "request", "fallback", "store", "done"}
  /\ pos \in 1 .. Len(Asks) + 1
  /\ attempt \in 0 .. MAX_RETRIES
  /\ calls \in Nat /\ sent \in Nat
  /\ pending \subseteq Calls
  /\ results \in [Calls -> {"none", "hit", "asked", "pending"}]
  /\ populated \in BOOLEAN
  /\ kills \in 0 .. MaxKills

\* A key with a cache file keeps it and is never asked again, in this run or
\* a later one, after a kill or with another setting: no answer is bought
\* twice and no published answer changes.
BoughtOnce ==
  [][/\ cache \subseteq cache'
     /\ phase' = "request" => Key(pos)' \notin cache]_vars

\* When a run ends, the queue is exact: a call is in it if and only if it
\* returned nothing, and whatever is not in it has its answer in the cache,
\* so a replay with the same provider returns it.
QueueIsExact ==
  phase = "done" =>
    \A i \in Calls :
      /\ results[i] = "pending" <=> i \in pending
      /\ i \notin pending => Key(i) \in cache

\* A replay, and a run without a key, send nothing.
OfflineSendsNothing == sent > 0 => Online

\* What the cap bounds: the answers received.  The last task asked below the
\* cap may have every one of its attempts answered, so the overshoot is
\* MAX_RETRIES and no more.
CallsOvershootByRetries ==
  setting.cap # 0 => calls <= setting.cap + MAX_RETRIES

\* What the calls before i can cost a run once all that can be answered is
\* cached: every attempt at a task that is never answered.
CostBefore(i) ==
  (MAX_RETRIES + 1) * Cardinality({j \in Calls : j < i /\ Asks[j] \in Poison})

\* A run with setting s has a call left for i, whatever comes before it.
Affordable(s, i) ==
  /\ Asks[i] \notin Poison
  /\ Chosen(s) \subseteq s.keys /\ ~s.replay
  /\ CostBefore(i) < MAX_CALLS_PER_RUN
  /\ s.cap # 0 => CostBefore(i) < s.cap

\* A run with setting s is started again and again, and a provider asked the
\* same thing day after day answers it some day.
Daily(s) == SF_vars(Begin(s)) /\ \A i \in Calls : SF_vars(Answers(i))

\* "The queue drains over consecutive days": whatever else is run over the
\* cache, every task that the daily run can afford behind the tasks that are
\* never answered gets its answer, however small the cap.
AffordableTasksDrain ==
  \A s \in Settings : \A i \in Calls :
    Affordable(s, i) /\ Daily(s) => <>(\E p \in Chosen(s) : <<Asks[i], p>> \in cache)

-----------------------------------------------------------------------------
(* What provider.py says of a replay. *)

\* Once a run has populated the cache, --replay reproduces it
\* with no network and no API key at all.
ReplayReproduces ==
  phase = "done" /\ setting.replay /\ populated => pending = {}

=============================================================================
