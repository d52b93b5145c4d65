--------------------------- MODULE IngestRefresh ---------------------------
(***************************************************************************)
(* The GitHub ingest (src/impact/ingest/github_source.py, run_github.py)   *)
(* run again and again over one data directory while the repository it     *)
(* reads goes on.                                                          *)
(*                                                                         *)
(* A run is four passes.  Discovery searches the window slice by slice;    *)
(* pr_core, pr_detail and issues cut their numbers into buckets of a fixed *)
(* size and keep one shard file per bucket.  The shard is named by the     *)
(* bucket alone, and a pass that finds it on disk reads it in place of     *)
(* asking GitHub.  How one request is made is the business of GitHubClient:*)
(* here a batch is answered, from GitHub or from the stored response to    *)
(* the same batch, or it fails.                                            *)
(***************************************************************************)
EXTENDS Integers, FiniteSets

CONSTANTS
  Numbers,          \* pull request numbers the repository reaches
  Born,             \* those that exist at the start
  Discussed,        \* those that have reviews or comments from the start
  Windows,          \* the windows asked for: sets of slices, sets of numbers
  IssueOf,          \* IssueOf[p]: the issue that p closes
  PR_CORE_BATCH,
  PR_DETAIL_BATCH,
  ISSUE_BATCH,
  MaxEvents,        \* bound: changes made upstream
  MaxFailures       \* bound: batches that fail and runs that are killed

ASSUME NumbersAssumption ==
  /\ Numbers \subseteq Nat
  /\ Discussed \subseteq Born /\ Born \subseteq Numbers
  /\ Windows \subseteq SUBSET SUBSET Numbers
  /\ IssueOf \in [Numbers -> Nat]

ASSUME BatchAssumption ==
  /\ PR_CORE_BATCH \in Nat \ {0}
  /\ PR_DETAIL_BATCH \in Nat \ {0}
  /\ ISSUE_BATCH \in Nat \ {0}
  /\ MaxEvents \in Nat /\ MaxFailures \in Nat

Passes == {"core", "detail", "issues"}

SizeOf(q) ==
  CASE q = "core"   -> PR_CORE_BATCH
    [] q = "detail" -> PR_DETAIL_BATCH
    [] q = "issues" -> ISSUE_BATCH

\* _number_buckets and _bucket_shard.
BucketOf(n, q) == n \div SizeOf(q)

Buckets(numbers, q) == {BucketOf(n, q) : n \in numbers}

Batch(numbers, q, k) == {n \in numbers : BucketOf(n, q) = k}

VARIABLES
  upstream,   \* upstream[p]: "unborn", "open", "merged" or "gone"
  discussed,  \* pull requests that have reviews or comments upstream
  found,      \* found[s]: what the completed search of slice s returned
  disk,       \* disk[q][k]: the records in the shard of bucket k of pass q
  stored,     \* responses stored for a batch that has left no shard
  pass,       \* what the ingest is doing
  window,     \* the slices of the run's window
  left,       \* slices or buckets of the pass not yet consumed
  cores,      \* the records fetch_pr_core returned
  failed,     \* the <<pass, bucket>> counted as failed batches in this run
  clean,      \* history: the window and, since the first run, GitHub are the same
  scars,      \* history: the <<pass, bucket>> that have failed in any run
  events,     \* changes made upstream so far
  failures    \* failed batches and kills so far

world  == <<upstream, discussed, events>>
run    == <<pass, window, left, cores, failed>>
past   == <<clean, scars>>
vars   == <<world, found, disk, stored, run, past, failures>>

Empty == [k \in {} |-> {}]

Init ==
  /\ upstream = [p \in Numbers |-> IF p \in Born THEN "open" ELSE "unborn"]
  /\ discussed = Discussed
  /\ found = Empty
  /\ disk = [q \in Passes |-> Empty]
  /\ stored = {}
  /\ pass = "idle"
  /\ window = {} /\ left = {} /\ cores = {} /\ failed = {}
  /\ clean = TRUE /\ scars = {}
  /\ events = 0
  /\ failures = 0

Put(f, k, v) == [j \in DOMAIN f \union {k} |-> IF j = k THEN v ELSE f[j]]

-----------------------------------------------------------------------------
(* The repository goes on.  A change made before the first run disturbs    *)
(* nothing.                                                                *)

Started == window # {} \/ DOMAIN found # {}

Happens ==
  /\ events < MaxEvents
  /\ events' = events + 1
  /\ clean' = (clean /\ ~Started)
  /\ UNCHANGED <<found, disk, stored, run, scars, failures>>

Become(p, from, to) ==
  /\ Happens
  /\ upstream[p] \in from
  /\ upstream' = [upstream EXCEPT ![p] = to]
  /\ UNCHANGED discussed

Open(p) ==
  /\ \A q \in Numbers : q < p => upstream[q] # "unborn"
  /\ Become(p, {"unborn"}, "open")

Merge(p) == Become(p, {"open"}, "merged")

Vanish(p) == Become(p, {"open", "merged"}, "gone")

Discuss(p) ==
  /\ Happens
  /\ upstream[p] \in {"open", "merged"}
  /\ p \notin discussed
  /\ discussed' = discussed \union {p}
  /\ UNCHANGED upstream

-----------------------------------------------------------------------------
(* The numbers a pass works on. *)

\* The rows discovery returns for the slices of this run's window.
Rows == UNION {found[s] : s \in window \intersect DOMAIN found}

\* A mutation: the merged cohort alone.
IndexOfMerged == {r.number : r \in {x \in Rows : x.merged}}

Index == {r.number : r \in Rows}

\* A mutation: the detail of every pull request.
EveryCore == {r.number : r \in cores}

\* _needs_detail, asked of the records fetch_pr_core returned.
DetailTargets == {r.number : r \in {c \in cores : c.discussed}}

\* referenced_issue_numbers
IssueTargets == {IssueOf[r.number] : r \in {c \in cores : c.state # "none"}}

Targets(q) ==
  CASE q = "core"   -> Index
    [] q = "detail" -> DetailTargets
    [] q = "issues" -> IssueTargets

\* The record of p in pr_core: a placeholder when GitHub answers null.
Core(p) ==
  IF upstream[p] = "gone"
    THEN [number |-> p, state |-> "none", discussed |-> FALSE]
    ELSE [number |-> p, state |-> upstream[p], discussed |-> p \in discussed]

Answer(q, numbers) ==
  CASE q = "core"   -> {Core(p) : p \in numbers}
    [] q = "detail" -> {[number |-> p] : p \in {n \in numbers : upstream[n] # "gone"}}
    [] q = "issues" -> {[number |-> n] : n \in numbers}

-----------------------------------------------------------------------------
(* One run of the ingest. *)

\* The window of a run over a used data directory is the one it was used for:
\* it has all slices found and, once there is a shard or a response, no other.
SameWindow(w) ==
  /\ DOMAIN found \subseteq w
  /\ \/ stored = {} /\ \A q \in Passes : DOMAIN disk[q] = {}
     \/ w = DOMAIN found

\* A completed slice is read back; any other is searched and completed.
Discover(w) ==
  /\ pass = "idle"
  /\ pass' = "discover"
  /\ window' = w
  /\ left' = w
  /\ cores' = {} /\ failed' = {}
  /\ clean' = (clean /\ SameWindow(w))
  /\ UNCHANGED <<world, found, disk, stored, scars, failures>>

Search(s) ==
  {[number |-> p, merged |-> upstream[p] = "merged"] :
     p \in {n \in s : upstream[n] \notin {"unborn", "gone"}}}

SearchSlice(s) ==
  /\ pass = "discover" /\ s \in left
  /\ left' = left \ {s}
  /\ found' = IF s \in DOMAIN found THEN found
              ELSE Put(found, s, Search(s))
  /\ UNCHANGED <<world, disk, stored, pass, window, cores, failed, past,
                 failures>>

Fetching(k) == pass \in Passes /\ k \in left

\* The batch is consumed: its records go to what the pass returns.
Consume(k, records) ==
  /\ left' = left \ {k}
  /\ cores' = IF pass = "core" THEN cores \union records ELSE cores
  /\ UNCHANGED <<pass, window, failed>>

\* A mutation: a shard that is read back is not handed on.
SkipShard(k) ==
  /\ Fetching(k)
  /\ k \in DOMAIN disk[pass]
  /\ Consume(k, {})
  /\ UNCHANGED <<world, found, disk, stored, past, failures>>

\* raw.exists(entity, shard): read, whatever the batch asks for.
ReadShard(k) ==
  /\ Fetching(k)
  /\ k \in DOMAIN disk[pass]
  /\ Consume(k, disk[pass][k])
  /\ UNCHANGED <<world, found, disk, stored, past, failures>>

\* The stored response to the same batch, or else GitHub's.
Reply(k) ==
  LET batch == Batch(Targets(pass), pass, k)
      old   == {r \in stored : r.pass = pass /\ r.batch = batch}
  IN IF old # {} THEN UNION {r.records : r \in old} ELSE Answer(pass, batch)

FetchShard(k) ==
  /\ Fetching(k)
  /\ k \notin DOMAIN disk[pass]
  /\ disk' = [disk EXCEPT ![pass] = Put(@, k, Reply(k))]
  /\ Consume(k, Reply(k))
  /\ UNCHANGED <<world, found, stored, past, failures>>

\* The response of the batch is stored and in the ledger, the shard is not
\* yet written.
StoreReply(k) ==
  stored' = stored \union
    {[pass |-> pass, batch |-> Batch(Targets(pass), pass, k), records |-> Reply(k)]}

\* The batch raised, in its first request or, in pr_detail, in a page of an
\* oversized connection: it is noted and counted, and the pass goes on.
FailBatch(k) ==
  /\ Fetching(k)
  /\ k \notin DOMAIN disk[pass]
  /\ failures < MaxFailures
  /\ failures' = failures + 1
  /\ failed' = failed \union {<<pass, k>>}
  /\ scars' = scars \union {<<pass, k>>}
  /\ left' = left \ {k}
  /\ UNCHANGED stored \/ (pass = "detail" /\ StoreReply(k))
  /\ UNCHANGED <<world, found, disk, pass, window, cores, clean>>

Begin(q) ==
  /\ left = {}
  /\ pass' = q
  /\ left' = Buckets(Targets(q), q)
  /\ UNCHANGED <<world, found, disk, stored, window, cores, failed, past,
                 failures>>

BeginCore   == pass = "discover" /\ Begin("core")
BeginDetail == pass = "core"     /\ Begin("detail")
BeginIssues == pass = "detail"   /\ Begin("issues")

\* finish("ok"), whatever has failed.
Finish ==
  /\ pass = "issues" /\ left = {}
  /\ pass' = "done"
  /\ UNCHANGED <<world, found, disk, stored, window, left, cores, failed,
                 past, failures>>

Forget ==
  /\ pass' = "idle"
  /\ window' = {} /\ left' = {} /\ cores' = {} /\ failed' = {}
  /\ UNCHANGED <<world, found, disk, past>>

Exit == pass = "done" /\ Forget /\ UNCHANGED <<stored, failures>>

\* The process is killed: between two batches, or with a response stored
\* and its shard unwritten.
Kill ==
  /\ pass \in Passes \union {"discover"}
  /\ failures < MaxFailures
  /\ failures' = failures + 1
  /\ \/ UNCHANGED stored
     \/ \E k \in left : Fetching(k) /\ k \notin DOMAIN disk[pass] /\ StoreReply(k)
  /\ Forget

-----------------------------------------------------------------------------

RunStep ==
  \/ \E s \in left : SearchSlice(s)
  \/ \E k \in left : ReadShard(k) \/ FetchShard(k)
  \/ BeginCore
  \/ BeginDetail
  \/ BeginIssues
  \/ Finish
  \/ Exit

WorldStep ==
  \E p \in Numbers : Open(p) \/ Merge(p) \/ Vanish(p) \/ Discuss(p)

Next ==
  \/ WorldStep
  \/ \E w \in Windows : Discover(w)
  \/ RunStep
  \/ \E k \in left : FailBatch(k)
  \/ Kill

Spec == Init /\ [][Next]_vars

(***************************************************************************)
(* The schedule starts the ingest again and again, with every window in    *)
(* turn, and a run takes its next step.  MaxFailures bounds the batches    *)
(* that fail and the runs that are killed.                                 *)
(***************************************************************************)
RefreshSpec ==
  Spec /\ WF_vars(RunStep) /\ \A w \in Windows : SF_vars(Discover(w))

-----------------------------------------------------------------------------
(* Properties. *)

Record(q) ==
  IF q = "core"
    THEN [number : Numbers, discussed : BOOLEAN,
          state : {"open", "merged", "none"}]
    ELSE [number : Nat]

\* The types of the variables: the shards on disk hold records of their pass.
TypeOK ==
  /\ upstream \in [Numbers -> {"unborn", "open", "merged", "gone"}]
  /\ discussed \subseteq Numbers
  /\ DOMAIN found \subseteq UNION Windows
  /\ \A s \in DOMAIN found : found[s] \subseteq [number : s, merged : BOOLEAN]
  /\ DOMAIN disk = Passes
  /\ \A q \in Passes : \A k \in DOMAIN disk[q] : disk[q][k] \subseteq Record(q)
  /\ \A r \in stored : r.pass \in Passes /\ r.records \subseteq Record(r.pass)
  /\ pass \in Passes \union {"idle", "discover", "done"}
  /\ window \in Windows \union {{}}
  /\ cores \subseteq Record("core")
  /\ failed \subseteq scars /\ clean \in BOOLEAN
  /\ events \in 0 .. MaxEvents /\ failures \in 0 .. MaxFailures

OnDisk(q) == UNION {disk[q][k] : k \in DOMAIN disk[q]}

NumbersOnDisk(q) == {r.number : r \in OnDisk(q)}

\* A record lies in the shard of its own bucket, so that the bucket's name
\* finds it again: _bucket_shard and _number_buckets agree on every path.
RecordsLieInTheirBucket ==
  \A q \in Passes : \A k \in DOMAIN disk[q] : \A r \in disk[q][k] :
    BucketOf(r.number, q) = k

\* fetch_pr_detail asks for the pull requests that pr_core says were
\* discussed and for no other: whatever was read back, failed, was killed
\* or changed upstream, a number in a detail shard is on disk in pr_core.
DetailNeedsCore ==
  \A p \in NumbersOnDisk("detail") :
    \E c \in OnDisk("core") : c.number = p /\ c.discussed

\* A batch counted as failed has left no shard, so the next run asks again.
FailureLeavesNoShard ==
  \A b \in failed : b[2] \notin DOMAIN disk[b[1]]

HasFailed(q, n) == <<q, BucketOf(n, q)>> \in failed

\* A run, this one or an earlier one, went on without the core record of p.
IsScarred(p) == <<"core", BucketOf(p, "core")>> \in scars

Complete ==
  \A p \in Index :
    /\ HasFailed("core", p) \/ \E c \in cores : c.number = p
    /\ p \in discussed /\ upstream[p] # "gone" =>
         \/ p \in NumbersOnDisk("detail")
         \/ HasFailed("detail", p) \/ IsScarred(p)
    /\ upstream[p] # "gone" =>
         \/ IssueOf[p] \in NumbersOnDisk("issues")
         \/ HasFailed("issues", IssueOf[p]) \/ IsScarred(p)

\* A run that ends over the window of the first one, with nothing changed
\* upstream since then, has all there is but for what batches have failed,
\* however often runs were killed and wherever.  A core record is missing only
\* with a failed batch of this run; the detail of a discussed pull request, or
\* its issue, also when its core batch failed in any run at all: those passes
\* went on without it, their shards do not have it and are not asked for again.
ResumedRunIsComplete == pass = "done" /\ clean => Complete

\* A pull request that discovery has found gets a core shard for its bucket
\* in the end, though batches fail and runs are killed, as long as the
\* window it was found in is run again.
FoundIsFetched ==
  \A p \in Numbers :
    (\E s \in DOMAIN found : \E r \in found[s] : r.number = p)
      ~> (BucketOf(p, "core") \in DOMAIN disk["core"])

-----------------------------------------------------------------------------
(* What the runbook says of a refresh. *)

\* INGESTION_RUNBOOK: changing the window re-fetches the buckets that
\* changed.  A finished run without a failed batch therefore has a core
\* record of every pull request its discovery found.
RefreshCoversWindow ==
  pass = "done" /\ failed = {} => \A p \in Index : \E c \in cores : c.number = p

=============================================================================
