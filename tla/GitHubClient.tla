---------------------------- MODULE GitHubClient ----------------------------
(***************************************************************************)
(* One extraction pass of src/impact/ingest: the batches of fetch_pr_core, *)
(* fetch_pr_detail or fetch_issues, run by the worker pool of              *)
(* GitHubClient.map_concurrent.  A batch needs one GraphQL request per     *)
(* page, its shard file is written after the last page that is asked for,  *)
(* and the process may die between any two steps and be started again.     *)
(* The pages of a batch are those of one oversized connection at most: the *)
(* connections of a batch are drained one after the other, each by a loop  *)
(* of its own.                                                             *)
(*                                                                         *)
(* On disk:   body, saved, shards, lastRun, damaged.                       *)
(* In memory: ledger, pendingFlush, todo, failed, pc, req, attempt,        *)
(*            verdict, offline.                                            *)
(***************************************************************************)
EXTENDS Integers, FiniteSets

CONSTANTS
  NumBatches,         \* batches of the pass
  PageCount,          \* PageCount[b]: pages GitHub has for batch b
  MAX_PAGES,          \* pages asked for at most (one, and range(1, 40))
  Workers,            \* threads of the pool
  MAX_ATTEMPTS,       \* attempts of one request
  LEDGER_FLUSH_EVERY, \* rows between two flushes of the ledger
  Offline,            \* values of --offline the ingest is started with
  MaxCrashes,         \* bound: deaths of the process
  MaxDamage           \* bound: bodies damaged between two runs

Batches == 1..NumBatches

ASSUME SizesAssumption ==
  /\ NumBatches \in Nat
  /\ MAX_PAGES \in Nat \ {0}
  /\ PageCount \in [Batches -> Nat \ {0}]
  /\ MAX_ATTEMPTS \in Nat \ {0}
  /\ LEDGER_FLUSH_EVERY \in Nat \ {0}
  /\ Offline \in SUBSET BOOLEAN
  /\ MaxCrashes \in Nat
  /\ MaxDamage \in Nat

\* GitHubClient.build: max(1, int(workers)).
ASSUME WorkersAssumption == IsFiniteSet(Workers) /\ Workers # {}

(***************************************************************************)
(* A request is a batch and the page of it: request_hash covers the query, *)
(* which names the batch's numbers, and the variables, which hold the      *)
(* cursor.                                                                 *)
(***************************************************************************)
Requests == {r \in Batches \X (1..MAX_PAGES) : r[2] <= PageCount[r[1]]}

PagesOf(b) == {r \in Requests : r[1] = b}

NoRequest == <<0, 0>>

NoRun == {0}   \* extraction_runs.json holds no row of this stage

\* A response that can be read: with the pull request, or with a null in its
\* place, which GitHub answers next to a list of errors (tolerate_partial).
Answers == {"whole", "empty"}

Bodies == {"absent", "partial"} \union Answers

Rows == {"none", "ok", "http_error", "graphql_error"}

Steps == {"idle", "lookup", "post", "store", "storing", "count", "record",
          "flush", "advance"}

VARIABLES
  body,          \* body[r]: the response file of r
  saved,         \* saved[r]: the row of r in _ledger.json
  shards,        \* batches whose shard file exists
  lastRun,       \* batches the last row of extraction_runs.json counts as failed
  damaged,       \* responses damaged on disk since they were stored
  phase,         \* the process: "down", "running" or "closing"
  offline,       \* GitHubClient.offline
  ledger,        \* RawPageLedger._index
  pendingFlush,  \* GitHubClient._pending_flush
  todo,          \* batches the pool has not started
  failed,        \* batches noted as failed in this run
  pc,            \* pc[w]: what worker w does next
  req,           \* req[w]: the request worker w is on
  attempt,       \* attempt[w]: replies worker w has had for it
  verdict,       \* verdict[w]: the row worker w is about to record
  crashes        \* deaths so far

disk    == <<body, saved, shards, lastRun, damaged>>
workers == <<pc, req, attempt, verdict>>
vars    == <<disk, phase, offline, ledger, pendingFlush, todo, failed, workers,
             crashes>>

Init ==
  /\ body = [r \in Requests |-> "absent"]
  /\ saved = [r \in Requests |-> "none"]
  /\ shards = {}
  /\ lastRun = NoRun
  /\ damaged = {}
  /\ phase = "down"
  /\ offline = FALSE
  /\ ledger = [r \in Requests |-> "none"]
  /\ pendingFlush = 0
  /\ todo = {}
  /\ failed = {}
  /\ pc = [w \in Workers |-> "idle"]
  /\ req = [w \in Workers |-> NoRequest]
  /\ attempt = [w \in Workers |-> 0]
  /\ verdict = [w \in Workers |-> "none"]
  /\ crashes = 0

-----------------------------------------------------------------------------
(* The process. *)

\* Mutant of Start: build() begins with an empty ledger.
StartWithoutLedger(off) ==
  /\ phase = "down"
  /\ phase' = "running"
  /\ offline' = off
  /\ ledger' = [r \in Requests |-> "none"]
  /\ pendingFlush' = 0
  /\ todo' = Batches
  /\ failed' = {}
  /\ UNCHANGED <<disk, workers, crashes>>

\* GitHubClient.build reads the ledger; the pass submits every batch.
Start(off) ==
  /\ phase = "down"
  /\ phase' = "running"
  /\ offline' = off
  /\ ledger' = saved
  /\ pendingFlush' = 0
  /\ todo' = Batches
  /\ failed' = {}
  /\ UNCHANGED <<disk, workers, crashes>>

\* What dies with the process.
ForgetMemory ==
  /\ phase' = "down"
  /\ offline' = FALSE
  /\ ledger' = [r \in Requests |-> "none"]
  /\ pendingFlush' = 0
  /\ todo' = {}
  /\ failed' = {}
  /\ pc' = [w \in Workers |-> "idle"]
  /\ req' = [w \in Workers |-> NoRequest]
  /\ attempt' = [w \in Workers |-> 0]
  /\ verdict' = [w \in Workers |-> "none"]

Crash ==
  /\ phase # "down"
  /\ crashes < MaxCrashes
  /\ crashes' = crashes + 1
  /\ ForgetMemory
  /\ UNCHANGED disk

\* A response file is cut short while nothing runs (a full disk, an
\* interrupted cache restore): the case _load_response answers with None.
Damage(r) ==
  /\ phase = "down"
  /\ body[r] \in Answers
  /\ Cardinality(damaged) < MaxDamage
  /\ body' = [body EXCEPT ![r] = "partial"]
  /\ damaged' = damaged \union {r}
  /\ UNCHANGED <<saved, shards, lastRun, phase, offline, ledger, pendingFlush,
                 todo, failed, workers, crashes>>

\* Mutant of EndPass: the pass ends when the queue is empty.
EndPassEarly ==
  /\ phase = "running"
  /\ todo = {}
  /\ phase' = "closing"
  /\ pendingFlush' = 0
  /\ saved' = ledger
  /\ UNCHANGED <<body, shards, lastRun, damaged, offline, ledger, todo, failed,
                 workers, crashes>>

\* Every future has been consumed: flush_ledger() ends the pass.
EndPass ==
  /\ phase = "running"
  /\ todo = {}
  /\ \A w \in Workers : pc[w] = "idle"
  /\ phase' = "closing"
  /\ pendingFlush' = 0
  /\ saved' = ledger
  /\ UNCHANGED <<body, shards, lastRun, damaged, offline, ledger, todo, failed,
                 workers, crashes>>

\* finish("ok") and append_to: the run's row counts its failed batches.
AppendRun ==
  /\ phase = "closing"
  /\ lastRun' = failed
  /\ ForgetMemory
  /\ UNCHANGED <<body, saved, shards, damaged, crashes>>

-----------------------------------------------------------------------------
(* A worker, on one batch and one request. *)

Goto(w, step) == pc' = [pc EXCEPT ![w] = step]

\* What a step of a worker that stays on its request leaves alone.
SameRequest == UNCHANGED <<phase, offline, todo, failed, req, crashes, lastRun>>

\* Mutant of Take: raw.exists is not asked.
TakeUnseen(w) ==
  /\ phase = "running"
  /\ pc[w] = "idle"
  /\ \E b \in todo :
       /\ \A c \in todo : b <= c
       /\ todo' = todo \ {b}
       /\ Goto(w, "lookup")
       /\ req' = [req EXCEPT ![w] = <<b, 1>>]
       /\ attempt' = [attempt EXCEPT ![w] = 0]
  /\ UNCHANGED <<disk, phase, offline, ledger, pendingFlush, failed, verdict,
                 crashes>>

\* Mutant of Take: what the last run gave up on is taken for done.
TakeSkippingFailures(w) ==
  /\ phase = "running"
  /\ pc[w] = "idle"
  /\ \E b \in todo :
       /\ \A c \in todo : b <= c
       /\ todo' = todo \ {b}
       /\ IF b \in shards \union lastRun
            THEN UNCHANGED <<pc, req, attempt>>
            ELSE /\ Goto(w, "lookup")
                 /\ req' = [req EXCEPT ![w] = <<b, 1>>]
                 /\ attempt' = [attempt EXCEPT ![w] = 0]
  /\ UNCHANGED <<disk, phase, offline, ledger, pendingFlush, failed, verdict,
                 crashes>>

\* The pool hands out the batches in the order they were submitted.
Take(w) ==
  /\ phase = "running"
  /\ pc[w] = "idle"
  /\ \E b \in todo :
       /\ \A c \in todo : b <= c
       /\ todo' = todo \ {b}
       /\ IF b \in shards
            THEN UNCHANGED <<pc, req, attempt>>
            ELSE /\ Goto(w, "lookup")
                 /\ req' = [req EXCEPT ![w] = <<b, 1>>]
                 /\ attempt' = [attempt EXCEPT ![w] = 0]
  /\ UNCHANGED <<disk, phase, offline, ledger, pendingFlush, failed, verdict,
                 crashes>>

\* Mutant of Cached: every call is made with force=True.
NeverCached(r) == FALSE

Cached(r) == ledger[r] = "ok" /\ body[r] \in Answers

\* The request raises: the batch is noted as failed, nothing is recorded.
GiveUp(w) ==
  /\ failed' = failed \union {req[w][1]}
  /\ Goto(w, "idle")
  /\ req' = [req EXCEPT ![w] = NoRequest]
  /\ attempt' = [attempt EXCEPT ![w] = 0]
  /\ verdict' = [verdict EXCEPT ![w] = "none"]

\* ledger.succeeded and _load_response; no other worker is on this request.
Lookup(w) ==
  /\ pc[w] = "lookup"
  /\ \/ /\ Cached(req[w])
        /\ Goto(w, "advance")
        /\ UNCHANGED <<failed, req, attempt, verdict>>
     \/ /\ ~Cached(req[w])
        /\ ~offline
        /\ Goto(w, "post")
        /\ UNCHANGED <<failed, req, attempt, verdict>>
     \/ /\ ~Cached(req[w])
        /\ offline
        /\ GiveUp(w)
  /\ UNCHANGED <<disk, phase, offline, ledger, pendingFlush, todo, crashes>>

\* Mutation: an attempt count that wraps.
TryForever(w) ==
  /\ attempt' = [attempt EXCEPT ![w] = (@ + 1) % MAX_ATTEMPTS]
  /\ UNCHANGED <<pc, failed, req, verdict>>

TryAgain(w) ==
  /\ attempt[w] + 1 < MAX_ATTEMPTS
  /\ attempt' = [attempt EXCEPT ![w] = @ + 1]
  /\ UNCHANGED <<pc, failed, req, verdict>>

\* A network error, a status of RETRYABLE_STATUS, or a RATE_LIMITED errors
\* block: RateLimited is raised after the last attempt, with no ledger row.
RetryableReply(w) ==
  /\ pc[w] = "post"
  /\ \/ TryAgain(w)
     \/ attempt[w] + 1 = MAX_ATTEMPTS /\ GiveUp(w)
  /\ UNCHANGED <<disk, phase, offline, ledger, pendingFlush, todo, crashes>>

\* data:null with "something went wrong": retried, terminal the last time.
TransientReply(w) ==
  /\ pc[w] = "post"
  /\ \/ TryAgain(w)
     \/ /\ attempt[w] + 1 = MAX_ATTEMPTS
        /\ Goto(w, "count")
        /\ verdict' = [verdict EXCEPT ![w] = "graphql_error"]
        /\ UNCHANGED <<failed, req, attempt>>
  /\ UNCHANGED <<disk, phase, offline, ledger, pendingFlush, todo, crashes>>

\* Any other status >= 400, or a GraphQL error that is not transient.
RefusedReply(w) ==
  /\ pc[w] = "post"
  /\ \E row \in {"http_error", "graphql_error"} :
       verdict' = [verdict EXCEPT ![w] = row]
  /\ Goto(w, "count")
  /\ SameRequest
  /\ UNCHANGED <<body, saved, shards, damaged, ledger, pendingFlush, attempt>>

\* A 200 whose body is not JSON: resp.json() raises past the retry loop.
UnreadableReply(w) ==
  /\ pc[w] = "post"
  /\ GiveUp(w)
  /\ UNCHANGED <<disk, phase, offline, ledger, pendingFlush, todo, crashes>>

\* Mutant of OkReply: the row is recorded for a body that is not stored.
OkReplyRecordedFirst(w) ==
  /\ pc[w] = "post"
  /\ Goto(w, "count")
  /\ verdict' = [verdict EXCEPT ![w] = "ok"]
  /\ SameRequest
  /\ UNCHANGED <<body, saved, shards, damaged, ledger, pendingFlush, attempt>>

OkReply(w) ==
  /\ pc[w] = "post"
  /\ Goto(w, "store")
  /\ verdict' = [verdict EXCEPT ![w] = "ok"]
  /\ SameRequest
  /\ UNCHANGED <<body, saved, shards, damaged, ledger, pendingFlush, attempt>>

\* _store_response writes in place: the file is cut to nothing ...
OpenBody(w) ==
  /\ pc[w] = "store"
  /\ body' = [body EXCEPT ![req[w]] = "partial"]
  /\ Goto(w, "storing")
  /\ SameRequest
  /\ UNCHANGED <<saved, shards, damaged, ledger, pendingFlush, attempt, verdict>>

\* ... and then filled, with whatever GitHub has answered.
CloseBody(w) ==
  /\ pc[w] = "storing"
  /\ \E answer \in Answers : body' = [body EXCEPT ![req[w]] = answer]
  /\ damaged' = damaged \ {req[w]}
  /\ Goto(w, "count")
  /\ SameRequest
  /\ UNCHANGED <<saved, shards, ledger, pendingFlush, attempt, verdict>>

\* _record_page counts the row under the lock, lets the lock go ...
CountRow(w) ==
  /\ pc[w] = "count"
  /\ pendingFlush' = pendingFlush + 1
  /\ Goto(w, "record")
  /\ SameRequest
  /\ UNCHANGED <<body, saved, shards, damaged, ledger, attempt, verdict>>

\* ... and takes it again to add the row.  An error row raises.
RecordRow(w) ==
  /\ pc[w] = "record"
  /\ ledger' = [ledger EXCEPT ![req[w]] = verdict[w]]
  /\ \/ /\ verdict[w] = "ok"
        /\ Goto(w, "flush")
        /\ UNCHANGED <<failed, req, attempt, verdict>>
     \/ /\ verdict[w] # "ok"
        /\ GiveUp(w)
  /\ UNCHANGED <<disk, phase, offline, pendingFlush, todo, crashes>>

\* Mutant of MaybeFlush: the count is compared for equality.
MaybeFlushExact(w) ==
  /\ pc[w] = "flush"
  /\ IF pendingFlush # LEDGER_FLUSH_EVERY
       THEN UNCHANGED <<pendingFlush, saved>>
       ELSE /\ pendingFlush' = 0
            /\ saved' = ledger
  /\ Goto(w, "advance")
  /\ SameRequest
  /\ UNCHANGED <<body, shards, damaged, ledger, attempt, verdict>>

\* flush_ledger(force=False): the file is replaced whole, under the lock.
MaybeFlush(w) ==
  /\ pc[w] = "flush"
  /\ IF pendingFlush < LEDGER_FLUSH_EVERY
       THEN UNCHANGED <<pendingFlush, saved>>
       ELSE /\ pendingFlush' = 0
            /\ saved' = ledger
  /\ Goto(w, "advance")
  /\ SameRequest
  /\ UNCHANGED <<body, shards, damaged, ledger, attempt, verdict>>

\* Mutant of LastPage: the range of the overflow pages is one short.
LastPageOneShort(r) ==
  body[r] = "empty" \/ r[2] = PageCount[r[1]] \/ r[2] = MAX_PAGES - 1

\* What ends the loop over the pages: hasNextPage is false, the response is
\* without the pull request, or the range is used up.
LastPage(r) ==
  body[r] = "empty" \/ r[2] = PageCount[r[1]] \/ r[2] = MAX_PAGES

\* graphql() has returned: on to the next cursor ...
NextPage(w) ==
  /\ pc[w] = "advance"
  /\ ~LastPage(req[w])
  /\ req' = [req EXCEPT ![w] = <<req[w][1], req[w][2] + 1>>]
  /\ attempt' = [attempt EXCEPT ![w] = 0]
  /\ verdict' = [verdict EXCEPT ![w] = "none"]
  /\ Goto(w, "lookup")
  /\ UNCHANGED <<disk, phase, offline, ledger, pendingFlush, todo, failed,
                 crashes>>

\* ... or the shard is written, complete or not.
WriteShard(w) ==
  /\ pc[w] = "advance"
  /\ LastPage(req[w])
  /\ shards' = shards \union {req[w][1]}
  /\ Goto(w, "idle")
  /\ req' = [req EXCEPT ![w] = NoRequest]
  /\ attempt' = [attempt EXCEPT ![w] = 0]
  /\ verdict' = [verdict EXCEPT ![w] = "none"]
  /\ UNCHANGED <<body, saved, lastRun, damaged, phase, offline, ledger,
                 pendingFlush, todo, failed, crashes>>

-----------------------------------------------------------------------------

\* What GitHub answers, or fails to.
Reply(w) ==
  \/ RetryableReply(w)
  \/ TransientReply(w)
  \/ RefusedReply(w)
  \/ UnreadableReply(w)
  \/ OkReply(w)

WorkerStep(w) ==
  \/ Take(w)
  \/ Lookup(w)
  \/ Reply(w)
  \/ OpenBody(w)
  \/ CloseBody(w)
  \/ CountRow(w)
  \/ RecordRow(w)
  \/ MaybeFlush(w)
  \/ NextPage(w)
  \/ WriteShard(w)

Next ==
  \/ \E off \in Offline : Start(off)
  \/ Crash
  \/ \E r \in Requests : Damage(r)
  \/ EndPass
  \/ AppendRun
  \/ \E w \in Workers : WorkerStep(w)

Spec == Init /\ [][Next]_vars

(***************************************************************************)
(* Threads are scheduled, every request has a timeout of 90 seconds and    *)
(* every sleep is capped at an hour: a step a live process can take is     *)
(* taken.  Nothing forces a start or a crash.                              *)
(***************************************************************************)
Progress ==
  /\ WF_vars(EndPass)
  /\ WF_vars(AppendRun)
  /\ \A w \in Workers : WF_vars(WorkerStep(w))

FairSpec == Spec /\ Progress

(***************************************************************************)
(* The scheduler keeps starting the ingest online, and GitHub, asked again *)
(* and again, sometimes answers.                                           *)
(***************************************************************************)
Patience ==
  /\ SF_vars(Start(FALSE))
  /\ \A w \in Workers : SF_vars(OkReply(w))

-----------------------------------------------------------------------------

\* Every variable has its type: attempts are bounded, a run of the log is a set
\* of batches or none.
TypeOK ==
  /\ body \in [Requests -> Bodies]
  /\ saved \in [Requests -> Rows]
  /\ shards \in SUBSET Batches
  /\ lastRun \in (SUBSET Batches) \union {NoRun}
  /\ damaged \in SUBSET Requests
  /\ phase \in {"down", "running", "closing"}
  /\ offline \in BOOLEAN
  /\ ledger \in [Requests -> Rows]
  /\ pendingFlush \in Nat
  /\ todo \in SUBSET Batches
  /\ failed \in SUBSET Batches
  /\ pc \in [Workers -> Steps]
  /\ req \in [Workers -> Requests \union {NoRequest}]
  /\ attempt \in [Workers -> 0..(MAX_ATTEMPTS - 1)]
  /\ verdict \in [Workers -> Rows]
  /\ crashes \in 0..MaxCrashes

(***************************************************************************)
(* Safety.                                                                 *)
(***************************************************************************)

Undamaged(r) == r \notin damaged

(***************************************************************************)
(* A ledger row that says "ok", in memory or on disk, has its response     *)
(* whole on disk, whatever instant the process dies at: the body is closed *)
(* before the row exists.                                                  *)
(***************************************************************************)
OkRowHasBody ==
  \A r \in Requests :
    Undamaged(r) /\ "ok" \in {ledger[r], saved[r]} => body[r] \in Answers

(***************************************************************************)
(* A shard file exists only when the pages of its batch were stored: the   *)
(* persist-before-advancing promise, across crashes in the middle of a     *)
(* multi-page batch.  The shard may stop short of what GitHub has in two   *)
(* ways only: at a response without the pull request, and at the           *)
(* MAX_PAGES-th page; what is missing is what comes after.                 *)
(***************************************************************************)
ShardHasResponses ==
  \A r \in Requests :
    /\ r[1] \in shards
    /\ \A q \in PagesOf(r[1]) : q[2] <= r[2] => Undamaged(q)
    /\ \A q \in PagesOf(r[1]) : q[2] < r[2] => body[q] # "empty"
    => body[r] \in Answers

\* A response a restart can serve without asking GitHub.
Durable(r) == saved[r] = "ok" /\ body[r] \in Answers

(***************************************************************************)
(* What is durable stays durable while anything runs: no later run         *)
(* re-issues it, rewrites its body in place, or replaces its row.          *)
(***************************************************************************)
DurableIsNeverReissued ==
  [][\A r \in Requests : Durable(r) =>
       /\ phase = "down" \/ Durable(r)'
       /\ \A w \in Workers : ~(req[w] = r /\ pc'[w] = "post")]_vars

(***************************************************************************)
(* The ledger file is rewritten whole at every flush and never loses a row *)
(* an earlier run put there: it is loaded before it is first rewritten.    *)
(***************************************************************************)
RowsAreNeverLost ==
  [][\A r \in Requests : saved[r] # "none" => saved'[r] # "none"]_vars

UnsavedOk == {r \in Requests : ledger[r] = "ok" /\ saved[r] # "ok"}

(***************************************************************************)
(* What a crash can cost: the successful rows not yet in the file are      *)
(* fewer than one flush interval plus two rows per further worker.  A row  *)
(* is counted and added under two separate holds of the lock, so a flush   *)
(* in between forgets the count of every row that is about to be added.    *)
(***************************************************************************)
LostTailIsBounded ==
  Cardinality(UnsavedOk) <=
    LEDGER_FLUSH_EVERY + 2 * (Cardinality(Workers) - 1)

(***************************************************************************)
(* Two workers never are on the same batch, and none is on a batch whose   *)
(* shard is written: no response file has two writers.                     *)
(***************************************************************************)
OneWriterPerBatch ==
  \A w \in Workers : req[w] # NoRequest =>
    /\ req[w][1] \notin shards
    /\ \A v \in Workers \ {w} : req[v][1] # req[w][1]

(***************************************************************************)
(* Liveness: a run in progress ends, by its row or by its death, however   *)
(* GitHub answers: every request gives up after MAX_ATTEMPTS.              *)
(***************************************************************************)
RunEnds == phase # "down" ~> phase = "down"

(***************************************************************************)
(* Resume converges: restarted often enough, and answered often enough,    *)
(* the ingest ends with every shard on disk, whatever was lost in between. *)
(***************************************************************************)
EveryShardEventuallyWritten == Patience => <>[](shards = Batches)

(***************************************************************************)
(* The pass implements ResumableFetch: a batch a run is not done with is   *)
(* still in the queue or in the hands of a worker.                         *)
(***************************************************************************)
InHand(b) == \E w \in Workers : req[w] # NoRequest /\ req[w][1] = b

Outcome(b) ==
  IF phase = "down" \/ b \in todo \/ InHand(b) THEN "pending"
  ELSE IF b \in failed THEN "failed" ELSE "satisfied"

Fetch == INSTANCE ResumableFetch WITH
  Items     <- Batches,
  Nothing   <- NoRun,
  persisted <- shards,
  outcome   <- [b \in Batches |-> Outcome(b)],
  running   <- phase # "down",
  report    <- lastRun

(***************************************************************************)
(* Refinement: nothing the ledger, the cache, the pool or a crash does     *)
(* shows through as a lost shard, a batch given up on although its shard   *)
(* exists, or a run reported before it has left every batch.               *)
(***************************************************************************)
ImplementsResumableFetch == Fetch!Spec

-----------------------------------------------------------------------------
(***************************************************************************)
(* "every request in the raw-page ledger either succeeded or has a         *)
(* recorded terminal reason; no shard is silently absent" (report.py:13):  *)
(* when the gate finds no row to complain of after a run, a batch without  *)
(* its shard has a row that says why.                                      *)
(***************************************************************************)
GateResumeWithoutGaps == \A r \in Requests : saved[r] # "http_error"

NoShardSilentlyAbsent ==
  /\ phase = "down" /\ lastRun # NoRun
  /\ \E r \in Requests : saved[r] # "none"
  /\ GateResumeWithoutGaps
  =>
    \A b \in Batches \ shards : \E r \in PagesOf(b) : saved[r] = "graphql_error"

=============================================================================
