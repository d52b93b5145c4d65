-------------------------- MODULE LLMClient_proofs --------------------------
(***************************************************************************)
(* Proofs about LLMClient, for any calls, providers, settings, caps and    *)
(* number of retries.                                                      *)
(***************************************************************************)
EXTENDS LLMClient, TLAPS

(***************************************************************************)
(* The parts of the inductive invariant.                                   *)
(***************************************************************************)

\* While a call is being asked it is a call that has to be asked.
Asking == phase \in {"request", "fallback", "store"}

AskedIsMissing == Asking => pos \in Calls /\ Online /\ Key(pos) \notin cache

\* Calls behind have returned, calls ahead have not.
ResultsMatch ==
  \A i \in Calls :
    /\ results[i] = "pending" <=> i \in pending
    /\ i < pos <=> results[i] # "none"
    /\ results[i] \in {"hit", "asked"} => Key(i) \in cache

DoneIsPast == phase = "done" => pos \notin Calls

\* Every attempt of the present call may have been answered.
CallsBound ==
  setting.cap # 0 =>
    /\ phase \in {"request", "fallback"} => calls < setting.cap + attempt
    /\ phase = "store" => calls <= setting.cap + attempt
    /\ calls <= setting.cap + MAX_RETRIES

IInv ==
  /\ TypeOK /\ AskedIsMissing /\ ResultsMatch /\ DoneIsPast
  /\ OfflineSendsNothing /\ CallsBound

LEMMA ChosenType ==
  ASSUME NEW s \in Settings, NEW p \in Chosen(s)
  PROVE  p \in Providers \union {"none"}
<1>1. s \in Setting
  BY ClientAssumption
<1>2. CASE Usable(s) = {}
  BY <1>2 DEF Chosen
<1>3. CASE Usable(s) # {}
  <2>1. PICK i \in Usable(s) : p = Order(s)[i]
    BY <1>3 DEF Chosen, First
  <2>2. i \in 1 .. Len(Order(s))
    BY <2>1 DEF Usable
  <2>3. CASE s.requested = "none"
    BY <2>1, <2>2, <2>3 DEF Order, Providers
  <2>4. CASE s.requested # "none"
    <3>1. Order(s) = <<s.requested>> /\ i = 1
      BY <2>2, <2>4 DEF Order
    <3>2. s.requested \in Providers
      BY <1>1, <2>4 DEF Setting
    <3>3. QED
      BY <2>1, <3>1, <3>2
  <2>5. QED
    BY <2>3, <2>4
<1>4. QED
  BY <1>2, <1>3

LEMMA CapType ==
  ASSUME TypeOK
  PROVE  setting.cap \in Nat
BY ClientAssumption DEF TypeOK, Setting, Idle

LEMMA LenType == Len(Asks) \in Nat /\ \A i \in Calls : Asks[i] \in Tasks
BY ClientAssumption DEF Calls, Tasks

LEMMA InitIInv == Init => IInv
<1> SUFFICES ASSUME Init PROVE IInv
  OBVIOUS
<1> USE ClientAssumption, LenType DEF Init
<1>1. TypeOK
  <2>1. results \in [Calls -> {"none", "hit", "asked", "pending"}]
    BY DEF Fresh
  <2>2. pos \in 1 .. Len(Asks) + 1 /\ attempt \in 0 .. MAX_RETRIES
        /\ kills \in 0 .. MaxKills
    OBVIOUS
  <2>3. QED
    BY <2>1, <2>2 DEF TypeOK
<1>2. AskedIsMissing /\ DoneIsPast
  BY DEF AskedIsMissing, Asking, DoneIsPast
<1>3. ResultsMatch
  BY DEF ResultsMatch, Fresh, Calls
<1>4. OfflineSendsNothing /\ CallsBound
  BY DEF OfflineSendsNothing, CallsBound, Idle
<1>5. QED
  BY <1>1, <1>2, <1>3, <1>4 DEF IInv

-----------------------------------------------------------------------------
(* One lemma per action. *)

\* What a return keeps, when the result says how the call was served.
LEMMA ReturnKeeps ==
  ASSUME IInv, NEW result \in {"hit", "asked", "pending"}, Return(result),
         pos \in Calls, UNCHANGED client, cache \subseteq cache',
         pending' = IF result = "pending" THEN pending \union {pos} ELSE pending,
         result # "pending" => Key(pos) \in cache'
  PROVE  /\ ResultsMatch'
         /\ results' \in [Calls -> {"none", "hit", "asked", "pending"}]
         /\ pos' \in 1 .. Len(Asks) + 1
         /\ pending' \subseteq Calls
<1> USE LenType
<1>1. pos' \in 1 .. Len(Asks) + 1 /\ pos \in Nat /\ pos' = pos + 1
  BY DEF IInv, TypeOK, Return, Calls
<1>2. results' \in [Calls -> {"none", "hit", "asked", "pending"}]
  BY DEF IInv, TypeOK, Return
<1>3. pending' \subseteq Calls
  BY DEF IInv, TypeOK
<1>4. ASSUME NEW i \in Calls
      PROVE  /\ results'[i] = "pending" <=> i \in pending'
             /\ i < pos' <=> results'[i] # "none"
             /\ results'[i] \in {"hit", "asked"} => Key(i)' \in cache'
  <2>1. Key(i)' = Key(i) /\ i \in Nat
    BY DEF Key, client, Calls
  <2>2. results \in [Calls -> {"none", "hit", "asked", "pending"}]
    BY DEF IInv, TypeOK
  <2>3. CASE i = pos
    <3>1. results'[i] = result
      BY <2>2, <2>3 DEF Return
    <3>2. pos \notin pending
      BY <1>1 DEF IInv, ResultsMatch
    <3>3. QED
      BY <1>1, <2>1, <2>3, <3>1, <3>2
  <2>4. CASE i # pos
    <3>1. results'[i] = results[i]
      BY <2>2, <2>4 DEF Return
    <3>2. i < pos' <=> i < pos
      BY <1>1, <2>1, <2>4
    <3>3. i \in pending' <=> i \in pending
      BY <2>4
    <3>4. QED
      BY <2>1, <3>1, <3>2, <3>3 DEF IInv, ResultsMatch
  <2>5. QED
    BY <2>3, <2>4
<1>5. QED
  BY <1>1, <1>2, <1>3, <1>4 DEF ResultsMatch

LEMMA BeginKeeps ==
  ASSUME IInv, NEW s \in Settings, Begin(s) PROVE IInv'
<1> USE ClientAssumption, LenType DEF Begin
<1>1. provider' \in Providers \union {"none"}
  BY ChosenType
<1>2. TypeOK'
  BY <1>1 DEF IInv, TypeOK, Fresh, Calls
<1>3. ResultsMatch'
  BY DEF ResultsMatch, Fresh, Calls
<1>4. AskedIsMissing' /\ DoneIsPast' /\ OfflineSendsNothing'
  BY DEF AskedIsMissing, Asking, DoneIsPast, OfflineSendsNothing
<1>5. CallsBound'
  <2>1. s.cap \in Nat
    BY DEF Setting
  <2>2. QED
    BY <2>1 DEF CallsBound
<1>6. QED
  BY <1>2, <1>3, <1>4, <1>5 DEF IInv

LEMMA ForgetKeeps ==
  ASSUME IInv, Forget, UNCHANGED cache, populated' \in BOOLEAN,
         kills' \in 0 .. MaxKills
  PROVE  IInv'
<1> USE ClientAssumption, LenType DEF Forget
<1>1. TypeOK'
  BY DEF IInv, TypeOK, Fresh, Calls
<1>2. ResultsMatch'
  BY DEF ResultsMatch, Fresh, Calls
<1>3. AskedIsMissing' /\ DoneIsPast' /\ OfflineSendsNothing' /\ CallsBound'
  BY DEF AskedIsMissing, Asking, DoneIsPast, OfflineSendsNothing, CallsBound, Idle
<1>4. QED
  BY <1>1, <1>2, <1>3 DEF IInv

LEMMA HitKeeps ==
  ASSUME IInv, Hit PROVE IInv'
<1> USE DEF Hit, AtLookup
<1>1. pos \in Calls /\ Return("hit")
  OBVIOUS
<1>2. /\ ResultsMatch'
      /\ results' \in [Calls -> {"none", "hit", "asked", "pending"}]
      /\ pos' \in 1 .. Len(Asks) + 1 /\ pending' \subseteq Calls
  BY <1>1, ReturnKeeps
<1>3. TypeOK'
  BY <1>2, ClientAssumption DEF IInv, TypeOK, Return, client
<1>4. AskedIsMissing' /\ DoneIsPast' /\ OfflineSendsNothing' /\ CallsBound'
  BY DEF IInv, AskedIsMissing, Asking, DoneIsPast, OfflineSendsNothing, Online,
         CallsBound, Return, client
<1>5. QED
  BY <1>2, <1>3, <1>4 DEF IInv

LEMMA QueueUnaskedKeeps ==
  ASSUME IInv, QueueUnasked PROVE IInv'
<1> USE DEF QueueUnasked, AtLookup, Queue
<1>1. pos \in Calls /\ Return("pending")
  OBVIOUS
<1>2. /\ ResultsMatch'
      /\ results' \in [Calls -> {"none", "hit", "asked", "pending"}]
      /\ pos' \in 1 .. Len(Asks) + 1 /\ pending' \subseteq Calls
  BY <1>1, ReturnKeeps
<1>3. TypeOK'
  BY <1>2, ClientAssumption DEF IInv, TypeOK, Return, client
<1>4. AskedIsMissing' /\ DoneIsPast' /\ OfflineSendsNothing' /\ CallsBound'
  BY DEF IInv, AskedIsMissing, Asking, DoneIsPast, OfflineSendsNothing, Online,
         CallsBound, Return, client
<1>5. QED
  BY <1>2, <1>3, <1>4 DEF IInv

LEMMA AskKeeps ==
  ASSUME IInv, Ask PROVE IInv'
<1> USE DEF Ask, AtLookup
<1>1. TypeOK'
  BY DEF IInv, TypeOK, client
<1>2. ResultsMatch' /\ DoneIsPast' /\ OfflineSendsNothing'
  BY DEF IInv, ResultsMatch, DoneIsPast, OfflineSendsNothing, Online, Key, client
<1>3. AskedIsMissing'
  BY DEF AskedIsMissing, Asking, Online, Key, client
<1>4. CallsBound'
  <2>1. attempt \in Nat /\ calls \in Nat /\ setting.cap \in Nat
    BY CapType, ClientAssumption DEF IInv, TypeOK
  <2>2. setting.cap # 0 => calls < setting.cap
    BY <2>1 DEF CapReached
  <2>3. QED
    BY <2>1, <2>2, ClientAssumption DEF CallsBound, client
<1>5. QED
  BY <1>1, <1>2, <1>3, <1>4 DEF IInv

\* A request that goes on with the same call.
LEMMA SameCallKeeps ==
  ASSUME IInv, Posted, phase' \in {"request", "fallback", "store"},
         UNCHANGED <<pos, pending, results>>,
         attempt' \in 0 .. MAX_RETRIES, calls' \in {calls, calls + 1},
         \/ phase' # "store" /\ attempt' = attempt + 1
         \/ phase' # "store" /\ attempt' = attempt /\ calls' = calls
         \/ phase' = "store" /\ attempt' = attempt
  PROVE  IInv'
<1> USE DEF Posted
<1>1. attempt \in Nat /\ calls \in Nat /\ sent \in Nat /\ setting.cap \in Nat
      /\ MAX_RETRIES \in Nat
  BY CapType, ClientAssumption DEF IInv, TypeOK
<1>2. TypeOK'
  BY <1>1 DEF IInv, TypeOK, client
<1>3. AskedIsMissing' /\ Online
  BY DEF IInv, AskedIsMissing, Asking, Online, Key, client
<1>4. ResultsMatch' /\ DoneIsPast'
  BY DEF IInv, ResultsMatch, DoneIsPast, Key, client
<1>5. OfflineSendsNothing'
  BY <1>3 DEF OfflineSendsNothing, Online, client
<1>6. CallsBound'
  <2>1. setting.cap # 0 => calls < setting.cap + attempt
    BY DEF IInv, CallsBound
  <2>2. attempt <= MAX_RETRIES /\ attempt' <= MAX_RETRIES /\ attempt' \in Nat
    BY <1>1 DEF IInv, TypeOK
  <2>3. setting' = setting
    BY DEF client
  <2>4. QED
    BY <1>1, <2>1, <2>2, <2>3 DEF CallsBound
<1>7. QED
  BY <1>2, <1>3, <1>4, <1>5, <1>6 DEF IInv

\* An attempt that fails: one more, or the call is queued.
LEMMA FailedAttemptKeeps ==
  ASSUME IInv, Posted, calls' \in {calls, calls + 1}, Retry \/ GiveUp
  PROVE  IInv'
<1>1. attempt \in Nat /\ calls \in Nat /\ sent \in Nat /\ setting.cap \in Nat
      /\ MAX_RETRIES \in Nat /\ attempt <= MAX_RETRIES
  BY CapType, ClientAssumption DEF IInv, TypeOK
<1>2. CASE Retry
  <2>1. attempt' \in 0 .. MAX_RETRIES
    BY <1>1, <1>2 DEF Retry
  <2>2. QED
    BY <1>2, <2>1, SameCallKeeps DEF Retry
<1>3. CASE GiveUp
  <2> USE DEF GiveUp, Queue, Posted
  <2>1. pos \in Calls /\ Online
    BY DEF IInv, AskedIsMissing, Asking
  <2>2. Return("pending") /\ cache' = cache /\ UNCHANGED client
    BY <1>3
  <2>3. /\ ResultsMatch'
        /\ results' \in [Calls -> {"none", "hit", "asked", "pending"}]
        /\ pos' \in 1 .. Len(Asks) + 1 /\ pending' \subseteq Calls
    BY <1>3, <2>1, <2>2, ReturnKeeps
  <2>4. TypeOK'
    BY <1>1, <2>2, <2>3 DEF IInv, TypeOK, Return, client
  <2>5. AskedIsMissing' /\ DoneIsPast'
    BY <2>2 DEF AskedIsMissing, Asking, DoneIsPast, Return
  <2>6. OfflineSendsNothing'
    BY <2>1, <2>2 DEF OfflineSendsNothing, Online, client
  <2>7. CallsBound'
    <3>1. setting.cap # 0 => calls < setting.cap + attempt
      BY DEF IInv, CallsBound
    <3>2. phase' = "lookup" /\ setting' = setting
      BY <2>2 DEF Return, client
    <3>3. QED
      BY <1>1, <3>1, <3>2 DEF CallsBound
  <2>8. QED
    BY <2>3, <2>4, <2>5, <2>6, <2>7 DEF IInv
<1>4. QED
  BY <1>2, <1>3

LEMMA StoreKeeps ==
  ASSUME IInv, Store PROVE IInv'
<1> USE DEF Store
<1>1. pos \in Calls /\ Online /\ Return("asked")
  BY DEF IInv, AskedIsMissing, Asking
<1>2. /\ ResultsMatch'
      /\ results' \in [Calls -> {"none", "hit", "asked", "pending"}]
      /\ pos' \in 1 .. Len(Asks) + 1 /\ pending' \subseteq Calls
  BY <1>1, ReturnKeeps
<1>3. Key(pos) \in Tasks \X Providers
  BY <1>1, LenType DEF Key, Online, IInv, TypeOK
<1>4. TypeOK'
  BY <1>2, <1>3, ClientAssumption DEF IInv, TypeOK, Return, client
<1>5. AskedIsMissing' /\ DoneIsPast' /\ OfflineSendsNothing' /\ CallsBound'
  BY <1>1 DEF IInv, AskedIsMissing, Asking, DoneIsPast, OfflineSendsNothing,
              Online, CallsBound, Return, client
<1>6. QED
  BY <1>2, <1>4, <1>5 DEF IInv

LEMMA FinishKeeps ==
  ASSUME IInv, Finish PROVE IInv'
<1> USE DEF Finish
<1>1. (pending = {}) \in BOOLEAN
  OBVIOUS
<1>2. populated' \in BOOLEAN
  BY <1>1 DEF IInv, TypeOK
<1>3. TypeOK'
  BY <1>2 DEF IInv, TypeOK, client
<1>4. AskedIsMissing' /\ ResultsMatch' /\ DoneIsPast' /\ OfflineSendsNothing'
      /\ CallsBound'
  BY DEF IInv, AskedIsMissing, Asking, ResultsMatch, DoneIsPast, Key,
         OfflineSendsNothing, Online, CallsBound, client
<1>5. QED
  BY <1>3, <1>4 DEF IInv

LEMMA StutterKeeps ==
  ASSUME IInv, UNCHANGED vars PROVE IInv'
BY DEF IInv, TypeOK, AskedIsMissing, Asking, ResultsMatch, DoneIsPast, Key,
       OfflineSendsNothing, Online, CallsBound, vars, client

LEMMA NextIInv == IInv /\ [Next]_vars => IInv'
<1> SUFFICES ASSUME IInv, [Next]_vars PROVE IInv'
  OBVIOUS
<1>t. calls \in Nat /\ populated \in BOOLEAN /\ kills \in 0 .. MaxKills
      /\ attempt \in 0 .. MAX_RETRIES
  BY DEF IInv, TypeOK
<1>1. CASE \E s \in Settings : Begin(s)
  BY <1>1, BeginKeeps
<1>2. CASE Hit
  BY <1>2, HitKeeps
<1>3. CASE QueueUnasked
  BY <1>3, QueueUnaskedKeeps
<1>4. CASE RaiseOnBudget
  BY <1>t, <1>4, ForgetKeeps DEF RaiseOnBudget
<1>5. CASE Ask
  BY <1>5, AskKeeps
<1>6. CASE SchemaRefused
  BY <1>t, <1>6, SameCallKeeps DEF SchemaRefused
<1>7. CASE Fails
  BY <1>7, FailedAttemptKeeps DEF Fails
<1>8. CASE Unparsable
  BY <1>8, FailedAttemptKeeps DEF Unparsable
<1>9. CASE \E i \in Calls : Answers(i)
  BY <1>t, <1>9, SameCallKeeps DEF Answers
<1>10. CASE Store
  BY <1>10, StoreKeeps
<1>11. CASE Finish
  BY <1>11, FinishKeeps
<1>12. CASE Exit
  BY <1>t, <1>12, ForgetKeeps DEF Exit
<1>13. CASE Kill
  <2>1. kills' \in 0 .. MaxKills
    BY <1>t, <1>13, ClientAssumption DEF Kill
  <2>2. QED
    BY <1>t, <1>13, <2>1, ForgetKeeps DEF Kill
<1>14. CASE UNCHANGED vars
  BY <1>14, StutterKeeps
<1>15. QED
  BY <1>1, <1>2, <1>3, <1>4, <1>5, <1>6, <1>7, <1>8, <1>9, <1>10, <1>11,
     <1>12, <1>13, <1>14 DEF Next, RunStep

-----------------------------------------------------------------------------
(* The theorems. *)

\* The inductive invariant holds in every reachable state.
THEOREM Invariant == Spec => []IInv
<1>1. QED
  BY InitIInv, NextIInv, PTL DEF Spec

\* Every variable keeps its type.
THEOREM TypeCorrect == Spec => []TypeOK
<1>1. IInv => TypeOK
  BY DEF IInv
<1>2. QED
  BY <1>1, Invariant, PTL

\* When a run ends, its queue holds exactly the calls that returned nothing,
\* and every other call has its answer in the cache.
THEOREM QueueExact == Spec => []QueueIsExact
<1>1. IInv => QueueIsExact
  <2> SUFFICES ASSUME IInv, phase = "done", NEW i \in Calls
               PROVE  /\ results[i] = "pending" <=> i \in pending
                      /\ i \notin pending => Key(i) \in cache
    BY DEF QueueIsExact
  <2>1. pos \notin Calls /\ pos \in 1 .. Len(Asks) + 1
    BY DEF IInv, DoneIsPast, TypeOK
  <2>2. i < pos
    BY <2>1, LenType DEF Calls
  <2>3. results[i] \in {"none", "hit", "asked", "pending"}
    BY DEF IInv, TypeOK
  <2>4. QED
    BY <2>2, <2>3 DEF IInv, ResultsMatch
<1>2. QED
  BY <1>1, Invariant, PTL

\* A replay, and a run without a key, send nothing.
THEOREM OfflineIsSilent == Spec => []OfflineSendsNothing
<1>1. IInv => OfflineSendsNothing
  BY DEF IInv
<1>2. QED
  BY <1>1, Invariant, PTL

\* The answers received exceed the cap by at most MAX_RETRIES.
THEOREM OvershootIsBounded == Spec => []CallsOvershootByRetries
<1>1. IInv => CallsOvershootByRetries
  BY DEF IInv, CallsBound, CallsOvershootByRetries
<1>2. QED
  BY <1>1, Invariant, PTL

\* What the cache holds is neither dropped nor asked for again.
THEOREM NothingIsBoughtTwice == Spec => BoughtOnce
<1> DEFINE Once == /\ cache \subseteq cache'
                   /\ phase' = "request" => Key(pos)' \notin cache
<1>1. IInv /\ IInv' /\ [Next]_vars => [Once]_vars
  <2> SUFFICES ASSUME IInv, IInv', [Next]_vars PROVE Once
    OBVIOUS
  <2>1. cache \subseteq cache'
    BY DEF Next, RunStep, Begin, Hit, QueueUnasked, RaiseOnBudget, Ask,
           SchemaRefused, Fails, Unparsable, Answers, Posted, Store, Finish,
           Exit, Kill, vars
  <2>2. phase' = "request" => Key(pos)' \notin cache'
    BY DEF IInv, AskedIsMissing, Asking
  <2>3. QED
    BY <2>1, <2>2
<1>2. QED
  BY <1>1, Invariant, PTL DEF Spec, BoughtOnce

=============================================================================
