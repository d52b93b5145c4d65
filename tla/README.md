# A TLA+ verification of the Engineering Impact pipeline

This directory models the pipeline that turns 90 days of a GitHub repository
into the Engineering Impact dashboard: TLA+ modules translated from the Python
and shell sources, configurations that model-check them with TLC on small
instances, and theorems about them that TLAPS proves for every instance.

Paths below are relative to the repository. Each definition names in its
comment the function it stands for.

## 1. The system

```
GitHub --> ingest --> data/raw --> normalize/graph/features --> tables --> validate, export
                                                                              |  artifacts/
                                   LLM provider <--> semantic layer           v
web dashboard <-- export JSON <-- rank, portfolio <-- dimensions <-- episodes <-- graph
```

Everything is a batch process over files. What one process leaves on disk is
the next one's input, so the behaviours that are hard are those of files: a
process that dies between two writes, a file that answers a question other than
the one now asked, two processes over one directory.

| component | state | operations | interacts with | hard |
|---|---|---|---|---|
| **GitHub client** `ingest/github_client.py`, `ingest/runs.py` | ledger in memory and `_ledger.json`, one response file per request, count of unflushed rows, run log | `graphql`, `map_concurrent`, `flush_ledger`, `_record_page` | threads of a pool; GitHub over HTTP; the resume gate reads the ledger | interleaving of workers, crash between body, row and flush, retries |
| **Extraction stages** `ingest/github_source.py`, `run_github.py` | one shard file per bucket and pass, discovery slices and checkpoint | `discover`, `fetch_pr_core`, `fetch_pr_detail`, `fetch_issues` | the client per batch; each pass takes its numbers from the one before | shards outlive the window and the facts they were fetched for |
| **LLM client** `impact2/llm/provider.py`, `tasks.py`, `_run_llm` of `cli.py` | one cache file per key, counters of the run, the pending queue | `build`, `complete`, `_request`, `_llm_finish` | an HTTP provider; a run a day over one cache | caps counted after the fact, keys that cover too much, replays |
| **Unattended chain** `scripts/run_when_ingest_completes.sh` | lock directory with a pid, status file | lock, poll, stages, exit trap | the ingest process, other copies of itself | lock made and removed in several steps, kills |
| **Tables** `store.py`, `normalize/`, `graph/`, `features/`, `quality/`, `export.py`, `impact2/inputs.py` | parquet tables with sidecars, the quality report, the copies in `artifacts/` with their manifest | `write_table`, the gates, `export`, `load_inputs` | each stage reads what the one before left on disk; the ingest rewrites shards meanwhile | two files written one after the other, runs that overlap, a run that starts in the middle |
| **People** `normalize/actors.py` | none between runs | keys, clusters, bots, assistants | every author and reviewer of Phase 2 | one person under several keys, several under one address |
| **Evidence of Phase 1** `features/` | none between runs | links between pull requests, reach, review candidates, regressions | read by the stages of Phase 2 | claims read off text, unknown taken for small |
| **Episodes** `impact2/graph/`, `impact2/episodes/` | in memory: edges, communities, clusters, records | tiers and guards, Louvain, splits, status, participants | stage after stage in `pipeline.py` | order of moves, remedies one after the other, who is credited for what |
| **Judgement** `impact2/analytics/`, `impact2/dimensions/rubric.py` | none | walk of the adoptions, corrections, reviews, six evaluators with caps | reads episodes and tables | caps in sequence, two readings of one revert |
| **Portfolio and ranking** `impact2/portfolio/`, `impact2/rank/` | none | entries, aggregation, credibilities, distillations, tiers | last stages of the pipeline | thresholds, ties, cut-off chains |
| **Publication** `impact2/export.py`, `scripts/watch-phase2.sh`, `deploy-dashboard.sh`, `web/scripts/build-data.mjs` | the package and its manifest, the recorded fingerprint, the staged copy, the deployed branch | export, scan, poll, settle, verify, copy, push | two processes that share only a directory | a copy taken while it is rewritten, a manifest written twice, kills on both sides |
| **Workflows** `.github/workflows/` | Actions caches, deployed branch | refresh weekly, top up daily | each other, through caches | two concurrency groups over one state |
| **Git history, web artifacts, prompts, dashboard** | none between runs | conversions | files | none of them concurrent; text and layout |

### What makes each of them correct

* Client: a row that says ok has its response on disk at any instant; a shard
  exists only when every page of its batch that is asked for is stored, and the
  asking stops early in two ways only; nothing durable is asked for twice; a run ends; a resumed ingest converges; a batch that failed is
  neither taken for done nor hidden from the gate.
* Stages: a shard holds the records of its own bucket; a detail shard belongs
  to a fetched pull request; a run over an unchanged repository, however often
  resumed, is complete but for what failed batches took with them; a discovery
  leaves out nothing but the rest of single days that are too full.
* LLM client: no answer is bought twice; the queue is exactly what was not
  answered; an offline run sends nothing; caps bound what they say they bound;
  the queue drains.
* Chain: one copy works at a time; the status file is true; a copy ends.
* Tables: what Phase 2 takes was written whole, by the write that described it;
  a run that nobody disturbs ends with tables made of each other, and with a
  quality report about them.
* Episodes: every analysable pull request is in exactly one, and held there by
  evidence that may join; no move makes the partition worse.
* Judgement: an adoption is a chain of imports in the order of time; status and
  counterevidence agree about reverts as far as the signals are classed; a high
  band has what the rubric demands.
* Credit: shares are worth no more than the limit and the rounding of each; where
  all authors are known and none a bot, somebody has a large one; nobody is
  credited for reviewing himself.
* Publication: what is deployed is one package that was verified; the last
  package gets deployed; what the scan refused is never called publishable.
* Portfolio and ranking: one episode more never lowers a value; everybody is
  placed; nobody stands behind somebody he is better than.

## 2. Modules

| module | models | role |
|---|---|---|
| `ResumableFetch` | what an extraction pass promises | abstract specification |
| `GitHubClient` | one pass by a pool of workers, with crashes and restarts | implements `ResumableFetch` |
| `GitHubClient_proofs` | | theorems about it |
| `MCGitHubClient` | | instances for TLC |
| `IngestRefresh` | run after run of the four passes over one data directory | builds on the pass as one step per batch |
| `Discovery` | inside one slice of `IngestRefresh`: bisection, pages, shard, checkpoint | checked directly |
| `IngestRefresh_proofs`, `MCIngestRefresh` | | theorems about both, instances |
| `LLMClient` | run after run of the semantic layer over one cache | |
| `LLMClient_proofs`, `MCLLMClient` | | theorems, instances |
| `AutoRun` | copies of the unattended chain and the ingest they wait for | checked directly |
| `AutoRun_proofs` | | theorems |
| `Publish` | the exporter, the watcher and the deploy over one package directory | checked directly |
| `Publish_proofs` | | theorems |
| `Artifacts` | the tables from the shards to Phase 2, by runs that overlap and die | checked directly |
| `Artifacts_proofs`, `MCArtifacts` | | theorems, instances |
| `Identity` | keys of people, gathering, bots, assistants | operators |
| `Measures` | the unknown value, the scale, sums | shared by the modules of Phase 2 |
| `ArtifactGraph` | the edges of the artifact graph, their tiers and guards | operators over the tables |
| `Regression`, `Features` | the evidence that Phase 1 derives for a pull request | operators over the tables |
| `Clustering` | from edges to clusters: Louvain move by move, then the splits | actions |
| `Episodes` | from a cluster to its record: the walk of the adoptions, the status | actions |
| `Evidence`, `Rubric` | corrections and reviews; the six evaluators | operators over a record |
| `Attribution` | roles, shares and factors of the participants | operators |
| `Portfolio` | the value of a dimension, its interval, eligibility | operators |
| `Outranking` | the comparison of two engineers: concordance, discordance, credibility | operators |
| `Distillation` | both distillations over a matrix of credibilities, and the tiers | actions, proved about by itself |
| `Ranking` | portfolios, the matrix made of them, its distillation | composes the two above |
| `CrossCheck` | PROMETHEE II and III over the same portfolios | operators over `Ranking` |
| `Ranking_proofs` | | theorems from `Outranking` to `CrossCheck` |
| `Analysis` | the features of Phase 1 and the stages of Phase 2, one after the other | composes all from `Identity` to `CrossCheck` |
| `Analysis_proofs`, `MCAnalysis` | | theorems from `Identity` to `Attribution` and about the whole, instances |

### GitHubClient

A batch needs one request per page, a request is a pair of batch and page
(`request_hash` covers query and cursor). On disk: `body` (response files),
`saved` (`_ledger.json`), `shards`, `lastRun` (the last row of
`extraction_runs.json`) and `damaged` (history). In memory: `ledger`,
`pendingFlush`, the queue `todo`, `failed`, and per worker a program counter,
its request, its attempts and the row it is about to record.

A worker goes through the source's steps in the source's order: `Take` (with the
`raw.exists` check), `Lookup` (ledger and file), a reply, `OpenBody` and
`CloseBody` (the response is written in place), `CountRow` and `RecordRow` (two
separate holds of the lock), `MaybeFlush`, then `NextPage` or `WriteShard`. The
replies are classified as `graphql()` does: network error, retryable status or
RATE_LIMITED block (`RetryableReply`), transient `data: null`
(`TransientReply`), terminal status or error (`RefusedReply`), a body that is
not JSON (`UnreadableReply`), an answer (`OkReply`). `Crash` forgets the memory
at any step; `Damage` cuts a response short while nothing runs, the case that
`_load_response` answers with None.

The pages of a batch are those of one oversized connection. `PageCount` is what
GitHub has, any number; `MAX_PAGES` what the code asks for: the first page and the
39 of `range(1, 40)`. An answer is `whole`, or `empty` where GitHub gives null for
the pull request (`if not pr: break`). `LastPage` is when the loop ends: no further
page, an empty answer, or the end of the range. Whichever it is, `WriteShard`
follows, as the shard is written in the code.

Left out: `rest()` and `paginate()`, which nothing calls, the rate-limit floor,
which only makes workers sleep, and a second oversized connection in a batch: each
is drained by a loop of its own, one after the other, before the shard is written.

`ResumableFetch` knows items, what is persisted and what a run reports; the
refinement mapping reads an item's outcome off the queue, the workers' hands and
the failures.

### IngestRefresh

The repository is a state of its own (`upstream`, `discussed`) that moves
between and during runs. `found` are the searched slices, `disk[pass][bucket]`
the shards, `stored` the responses that a kill or a failed page left without a
shard. `ReadShard` and `FetchShard` are the two branches of every pass,
`FailBatch` the except branch, `Begin...` the hand-over of the numbers from one
pass to the next (`_needs_detail`, `referenced_issue_numbers`). Two history
variables: `clean` says that the repository and the window are those of the first
run, `scars` are the batches that have failed in any run.

Left out: the `--limit` and `--skip-detail` options, the issue index, rows that
discovery finds as merely touched.

### Discovery

What `IngestRefresh` does in one `SearchSlice` is here step by step, for one
cohort. `day` says when each result falls; `slice` is the one being searched,
`todo` the parts of it still to be searched (the stack of `_search_slice`), `part`
the one whose pages are read into `nodes`, `kept` what the searched parts gave.
`Split` bisects, `FirstPage` and `NextPage` read any results not yet read (the
search has an order of its own), and no page beyond the cap. `WriteShard` and
`SaveCheckpoint` are two steps, and `KillRun` may come between any two. It takes
with it all that is in memory, the notes of the run included: they are written when
the run ends, long after the checkpoint. `reread` is a history variable: the slices
that a run has read back instead of searching them. A list of the code is kept as the set of its members
and its length, so that a repetition shows.

Left out: results that change their day between two runs (`IngestRefresh` has the
repository move), the note of a bisection, and the cohorts beside each other,
which share nothing but the checkpoint.

### LLMClient

A run asks its calls in a fixed order. A call is a hit, is queued (cap, no
provider, replay, budget), raises (budget with `fail_open` off) or is asked;
an attempt may be one HTTP request or two (`SchemaRefused`), may fail, may be
counted and not parse, or be stored. The cache is the set of keys that have a
file; the key is task and model, and the model follows from the provider.

Left out: throttle and backoff (they only sleep), redaction, the payloads. The
client has no threads.

### AutoRun

`lock` is the directory with the pid in it, `pc[p]` a line of the script of copy
p. `mkdir`, `cat`, `kill -0`, `rm -rf`, the second `mkdir` and the writing of
the pid are separate steps, as they are separate commands. `Kill` may or may not
run the EXIT trap (SIGTERM or SIGKILL). `met` is a history variable: two copies
have been at the lock at the same time.

Left out: how the ingest ended, which only selects a warning.

### Publish

`package` is what the files of `artifacts/phase3` hold, `manifest` the manifest
beside them, `export` the export that is running. Files are replaced one by one
and atomically; the manifest is written when they are there (`WriteManifest`) and
again when the scan has read them (`Sign`). `watcher` is where
`watch-phase2.sh` is, with the fingerprint it follows; `stage` is `web/.data`,
`site` the `gh-pages` branch. Verification and copy read the directory file by
file, without a lock, while an export may be writing; `quiet` is a history
variable that says whether one was. What a file holds is the outcome of an
analysis, and for `coverage.json` also when it was written.

Left out: `--once`, the fixture gate, two exporters at a time, files left over
from an export of another mode.

### Artifacts

A stage is the sequence of files it touches (`Steps`), a run a set of stages that
are taken in the order of the pipeline (`Program`): the chain of
`run_when_ingest_completes.sh`, which leaves `graph` out, the whole pipeline as
`make` and the workflow run it, `graph` by itself and `export` before Phase 2. A table stands for all tables that one stage
writes, and is what it was made of: versions of shards. `parquet` is written in
place (`OpenTable` leaves it `Torn` until `CloseTable`), the sidecar after it
(`Describe`), the copies in `artifacts/` in place too, the manifest last. Reading
a torn file raises and ends the run; a `validate` that raises is only noted by
the chain, and the report then is an earlier one's. Two processes may run at a
time, each may be killed at any step, and an ingest may replace a shard between
any two. `alone` and `sealed` are history: that nobody wrote beside a run that
makes everything it exports, and which descriptions belong to a whole write.

`load_inputs` is modelled with `--verify-content-hashes`, as the chain and the
workflow call it: manifest, then per table the hash of the file and the hash of
the rows.

### Analysis

A behaviour takes one set of tables (`Repositories`, what Phase 1 may have
written) through `StageFeatures` (the links that `build_edges` derives),
`StageGraph`, `StageEpisodes`, and one of the episodes through `StageAnalytics`,
`StageAttribute`, `StageDimensions` (one dimension, one participant) and
`StagePortfolios`; or it takes any portfolios of the engineers through
`StageRank`. The stages compute one object per episode or engineer and none
reads another's before the portfolios, so that following one shows what holds of
each. Between the two halves stands the set of portfolios: the ranking is checked
for all of them, not only for those the first half can make.

* `Identity`: an account is keyed by its login, a signature by the login that its
  noreply address names, else by the address, else by the name. `person` is the
  union-find when all links are in, `Bots` what Phase 2 drops.
* `ArtifactGraph`: `MakeEdge` with its guards (a generic target, a large fan-out,
  issues and flags that many share), `Deduplicate`, `TierA`, `TierB`,
  `SemanticEdges`. An edge that a guard demotes keeps its tier and may join
  nobody.
* `Features` and `Regression` are what the code computes per pull request; they
  are read off the tables where a later stage uses them, which is what the code
  does through files.
* `Clustering`: one step per node moved (`MoveNode`), per sweep and per level;
  `Parts` are the three remedies of `apply_constraints`, each over what the one
  before left.
* `Episodes`: `Follow`, `Visit` and `Deepen` are the loops of `propagate` with
  their four caps: `Sources` are the heaviest `MaxPaths` (`Weight` by change and
  number of importers), `AdoptersFrom` and `Stopped` end the walk at
  `MaxAdoptions`, `Deepen` keeps `MaxFrontier` of the paths reached, and of the
  first `MaxRecorded` adoptions there is a record, which is what `enabler` reads.
  Which paths of a frontier carry most depends on weights that decay with the days;
  the model keeps any. `Record` makes status, doubts, review flags, blast radius.
* `Evidence`: `Signals` are the first `MaxSignals` of each kind (`Classed`, the 20
  of `corrective.py`) in the order of the rows of Phase 1 (`Ahead`): what an edge
  states by number and type, then what a title states, later fixes by their day.
  The status and `Reapplied` read all of them, as the code does.
* `Rubric`: one operator per evaluator with its bands, and `Cap` in the order of
  the code. What an evaluator reads from texts and names is a record of facts.
* `Attribution`: roles from the record, the category from roles and sharers, the
  factor from the best role, then normalised to the limit, each share rounded to
  the nearest (`Nearest`, half to even). The author of a pull request may be
  unknown (`NoAuthor`, the code's None): he has no roles and no share. The grain of a
  factor is that of relevance times share, ten-thousandths in `Analysis.cfg`; the
  code's is a millionth, for which TLC's integers are too small. The theorem holds
  of any grain.
* `Portfolio`: values in ten-thousandths; which of two equal entries is taken
  follows the id, as it does in the code.

Left out: the vectors of `semantic.py` (similarities are given), titles and
wording, the LLM's narrative, which no stage reads, and sorting for output.

### Ranking

`Outranking` holds the formulas of `concordance_j`, `discordance_j`,
`credibility` and `_counterevidence_veto`; a fraction is in units of 1 / `Scale`
and rounded down. `Distillation` is the loop of `distill`: `Narrow` is one turn
of the inner loop that goes on with the candidates, `TakeClass` one that ends
with a class, `EndPass` what follows the outer loop, for the descending and then
the ascending chain. `rank` is the iteration that took somebody out, from which
`Median` and `Tier` are read as `final_ranking` reads them. `cred` is any matrix
in `DistillationSpec`, about which the proofs are, and the one of the portfolios
in `Ranking`.

`CrossCheck` adds the second opinion: `Preferred` is a pair of
`_pairwise_preferences`, `Flow` the sum of which `promethee_ii` takes the mean,
`LowerBound` and `UpperBound` the interval of `promethee_iii`. Bounds and flows are
compared as sums and multiples of the standard deviation, with nothing divided,
which leaves the integer root as the only rounding besides that of `Outranking`.

Left out: explanations, the list of incomparable engineers, the positive and the
negative flow, and what `run_scenario` counts of the agreement of the methods.

## 3. Runs

| run | what it asks | bounds |
|---|---|---|
| `GitHubClient` | six safety properties and the refinement | two workers, a batch of two pages and one of three of which two are asked for, empty answers, one attempt, one crash, one damaged response, flush at every row: a crash falls between any two steps and both workers race on the flush; four requests are what the bound on the lost tail needs to be exceeded. With one attempt a failure is terminal at once; retries are in the next run |
| `GitHubClientLive` | the run ends; resume converges | as above with a batch of one and one of two pages, two attempts and a flush every two rows |
| `GitHubClientGap` | violated: the gate's docstring | no crash is needed |
| `IngestRefresh` | consistency of the shards, completeness after kills and failed batches, progress | four pull requests, core buckets of 2 and detail buckets of 3 (they straddle, as 25 and 10 do), a window of two slices that moves on, two upstream changes, one failure or kill |
| `IngestRefreshWidened` | violated: the runbook on window changes | a window from a day earlier |
| `Discovery` | the window comes out whole, nothing twice, only full days cut, these reported unless a kill took the report, an end | every spread of four results over five days, slices of three days and two, a cap of two results on pages of one, one kill: slices of four results are bisected twice, days of three are truncated, and a slice of the checkpoint is read back |
| `LLMClient` | exact queue, cap, nothing bought twice, drain | three tasks of which the second never parses, one retry, caps of 0 (none), 1 and 3, nine settings, one kill |
| `LLMClientReplay` | violated: replay without a key | a run with the second provider's key, then a replay |
| `AutoRun` | status, exclusion, termination | three copies, two polls, one ingest, one kill |
| `Publish` | whole deploys, the record, the verdict, progress | two files of which one is stamped, a clean and a leaky outcome, three exports (so that the watcher gives up settling after two reads), one deploy that fails or watcher that is killed |
| `Artifacts` | what Phase 2 takes; what an undisturbed run ends with | two processes with any of four runs, one shard replaced, one kill, a directory that is empty or holds an earlier run: enough for a write or a copy of one to fall between any two steps of the other, and for a run to start over what a killed one left |
| `Analysis` | partition and hold of the episodes, modularity, adoptions, reverts, bands, credit, values, ranking and its cross-checks | five pull requests, four paths, one issue, in some 700 repositories grouped by what they exercise: sharings of two to five (below, at and over the fan-outs and the split threshold of 2 and hard maximum of 3), bridges between them, likenesses, import chains of depth three with every order of merges, reverts with their reapplications; a pull request of an unknown author; two signals classed of three, two sources, three adoptions, one path of a frontier and two records, so that every cap cuts something off; entries of one to five episodes; three engineers with two criteria, values 0, 1, 3 or unknown, and two iterations, so that the bound cuts chains off |

What a theorem of section 4 states and no run asks (`TypeOK`,
`RecordsLieInTheirBucket`, `OfflineSendsNothing`, `EverybodyIsPlaced`,
`BeatenIsBehind`) TLC has found to hold on the instances above.

Every property of a passing run has a mutant: a definition of the same module
that stands for a plausible bug (a dropped check, an off-by-one, a swapped
order) and breaks it.

### Fairness

* Client: weak fairness of every worker's step and of the end of the pass.
  Threads are scheduled, requests time out after 90 seconds and sleeps are
  capped. Nothing forces a start, a crash or a good answer. Convergence
  (`EveryShardEventuallyWritten`) carries its own premise: started online again
  and again, and answered again and again (`Patience`).
* IngestRefresh: a run takes its next step; the schedule uses every window again
  and again. The number of failures is bounded.
* Discovery: a run takes its next step, the loop being sequential, and a killed run
  is started again. The number of kills is bounded; without a bound nothing would
  have to end.
* LLMClient: a run takes its next step. `AffordableTasksDrain` takes as its
  premise that one setting is started daily and that a provider asked the same
  thing daily answers it some day, and says exactly which tasks then drain: those
  that the cap can pay for behind the tasks that never parse, which cost
  `max_retries + 1` calls each, every day.
* AutoRun: a live copy is scheduled and its stages end. The ingest may run for
  ever.
* Artifacts and Analysis state no liveness: their processes are programs without
  loops over anything that can grow, and a killed one is not restarted.
* Publish: the watcher's loop runs for ever. Nothing says that an export is
  started or ends; `FilesReachSite` takes as its premise that the last one got as
  far as its manifest.

`CHECK_DEADLOCK FALSE` stands only where the system stops: a copy of the script
runs once; a watcher over an unchanged package does nothing; a pipeline is done.

## 4. Proofs

TLAPS proves, for any values of the constants that satisfy the named
assumptions:

* **GitHubClient_proofs.** `TypeCorrect`, `RowsAreBacked`, `ShardsAreBacked`,
  `SingleWriter`, `LedgerOnlyGrows`, `CompletedIsFree`, `LostTailBound`,
  `Refinement`. The properties are not inductive by themselves: that an ok row
  has its body depends on what every worker is about to record, and that a
  worker's earlier pages are stored depends on where it is. `IInv` adds what a
  worker at each step has in hand (`HandsInv`, `VerdictInv`, `PagesInv`,
  `AskedForInv`), that nobody works while the process is down (`QuietInv`,
  `IdleInv`) and how memory and file relate (`LedgerInv`). The lost tail is an
  argument of counting: unsaved rows and workers between counting a row and
  adding it are no more than the count and the other workers (`CountedInv`), and
  each worker on its way to a flush accounts for one row more (`TailInv`). That a
  shard has its responses is said of the pages its loop went through, whichever way
  it ended (`PagesInv`, `LastPage`): an answer for a pull request that is gone and
  the end of the range end it with pages missing. The
  refinement is proved from `IInv`: the initial states map to initial states, and
  every step to a step or a stutter.
* **IngestRefresh_proofs**, about `IngestRefresh`. `TypeCorrect`,
  `RecordsInBucket`, `DetailHasCore`, `FailedIsAskedAgain`, `ResumedIsComplete`,
  for any bucket sizes and windows.
  The strengthening says of every stored response and every record in memory what
  the property says of the shards, since a later run may write them there. For
  completeness `CleanInv` speaks of a directory whose repository and window have
  not changed, whatever kills and failed batches it has seen. What a run asks for
  in a bucket depends on which core batches failed in it, and the shard keeps what
  was asked first: it lies between `Sure`, the numbers that every run knows of, and
  `Due`, all that the window asks for; the difference are the pull requests of core
  batches that have failed in some run (`IsScarred`). Each shard holds
  at least the answer for the former and at most that for the latter
  (`ShardsAreWhole`), a stored response is what GitHub answers (`RepliesAreWhole`),
  the core pass has all but its failures in memory (`CoresAreWhole`), and no bucket
  with a sure number is left behind without a shard or a failure
  (`NoBucketIsMissing`).
* **IngestRefresh_proofs**, about `Discovery`. `WindowAlwaysDiscovered`,
  `CountsAlwaysDistinct`, for any window, slice length, page size, cap and spread
  of results. `DiscoveryInv` says that the parts still
  to be searched, the one being read and what was kept share no day
  (`PartsAreApart`) and leave none out (`NoDayIsLost`), how many results the pages
  read so far hold (`PagesAreFull`), and the same of every shard and of what the
  run has put together (`SlicesAreWhole`, `IndexIsWhole`). What was cut off is a
  single day over the cap (`NotesAreFull`), and it is reported by the run that
  searched its slice, or else the slice was read back (`reread`): nothing stronger
  holds, since the notes die with a killed run.
* **LLMClient_proofs.** `TypeCorrect`, `QueueExact`, `OfflineIsSilent`,
  `OvershootIsBounded`, `NothingIsBoughtTwice`. The strengthening bounds the
  calls by the cap plus the attempts of the present task, and says of every call
  already passed what the queue must hold.
* **AutoRun_proofs.** `TypeCorrect`, `SerialExcludes`, `StatusIsTrue`, for any
  number of copies and kills. As long as no two copies have met at the lock, the
  pid in it is that of the one copy that works (`OwnsLock`); what makes this
  inductive is what the copy at the lock relies on at each of its steps
  (`SawOwner`, `Cleared`, `MadeLock`).
* **Publish_proofs.** `TypeCorrect`, `DeployWhole`, `RecordBehindSite`,
  `CleanWhenPublishable`, for any files, outcomes and faults. A whole deploy
  needs that what was verified is still on disk as long as nobody writes
  (`QuietCopyHolds`), the record that generations only grow from the site to the
  exporter (`WatcherIsBehind`), the verdict that the scan reads what the manifest
  lists (`WrittenIsListed`).
* **Artifacts_proofs.** `LoadedWasSealed`, for any processes, runs, ingests and
  kills. The description of a table travels from its sidecar through the draft
  and the manifest to the reader, and each of these only ever holds what was
  sealed (`SidecarsSealed` to `SeenSealed`); the reader's rows agree with their
  description or it knows better (`RowsAgree`). The files do not enter the
  argument, whoever writes into them: this is what the content hash is for.
  `UndisturbedIsWhole`, about the files themselves. The program of a run of all
  stages is one of two (`Plan`), so the number of steps left places it in its
  program (`Places`), and `Good` says for every place what has been made, checked,
  copied, listed and read by then; `Undisturbed` is that of every run that nobody
  writes beside, and each action has a lemma that takes it one place on
  (`AloneReadShard` to `AloneLoads`). It needs two facts about the others: that no
  copy of the dependencies lies about without its table (`NoStrayCopy`), since
  Phase 2 would read it although the run found none; this in turn needs that every
  process, overlapping runs and those that will be killed included, opens this
  table only after it has read a shard (`Poised`); and that who starts has nothing
  in its hands (`Fresh`).
* **Ranking_proofs.** About the distillation: `TypeCorrect`, `EverybodyPlaced`,
  `DominanceKept`, `DominanceKeptInTiers`, for any number of engineers, any
  matrix, any threshold that is not negative on it (`Beta <= Alpha`) and any
  bound. The lemmas follow one look of the loop: who dominates is preferred to
  whomever the other is preferred to (`PrefersMore`, `PreferredLess`), so is
  qualified no less (`QualificationKeepsDominance`) and kept by no narrowing later
  (`CandidatesKeepDominance`). The invariant `Kept` says of a chain half way that
  the one who dominates leaves first and is in the subset as long as the other is.
  About the comparison: `BetterIsNeverBehind`, for any criteria, weights,
  thresholds and values. A better value costs nothing at any edge of concordance
  and discordance; sums over the criteria grow with their terms, and a greater
  concordance damped by smaller discordances leaves more. `RankingInv` carries the
  matrix with the portfolios it was made of. About the cross-checks:
  `BeatenStaysBehind` and `CrossChecksNeverTurn`, for any field and any width of
  the intervals. Whoever beats somebody beats all whom
  that one beats; the flow grows with every comparison, and a lower bound above an
  upper bound is a greater flow, since no width is negative.
* **Analysis_proofs.** `NobodyIsGathered`: whatever accounts and signatures there
  are, no two keys share an address, since the address decides the key, and the
  union-find never unites anybody (see section 5). Then, for any tables, of the
  stages of the pipeline: `EpisodesAlwaysPartition` (a level's communities are a
  partition whatever moved, `apply_constraints` splits and merges parts of one),
  `RevertsAlwaysAgree` (the deduplication loses no revert and, as long as no more
  signals count than `MaxSignals`, the cut loses none, `FewAreKept`), `HighBandsAlwaysEarned` (one lemma for `Cap`, one for each
  evaluator), `AdoptionsAreChains` (`WalkInv` ties the frontiers of the walk to
  the carriers of their depth), `CreditIsAlwaysShared` (of the known
  authors of an episode without bots the one with most code is core or the
  originator; rounding to the nearest grain after normalising gives each share at
  most half a grain too much, `NearestIs`, so that their sum passes the limit by no
  more than half a grain per sharer) and `RankingIsConsistent`.
  `StageInv` says at every phase what the stages before have left.
* **Analysis_proofs**, about the value of a dimension: `EvidenceNeverHurts`.
  Whoever has for each entry of another one that is worth no less has a k-th
  largest entry that is worth no less, for every k (`OrderedGrows`); so the sum
  grows, whatever the coefficients, falling or not (`AggregateGrows`). An entry
  that is the strongest of its group pushes out one that is weaker
  (`IndependentWithout`). `ValuesInv` carries the entries to the portfolio.
* **Analysis_proofs**, about the episodes: `NobodyIsAmongStrangers`. It alone has
  a hypothesis about the behaviour, `LevelsEnd`: every level of Louvain's method
  ends with a sweep that moves nobody, and is not cut off after `MaxSweeps`, the
  20 of `_one_level`. With the constants of `Analysis.cfg` TLC finds it true.
  Without it the property is not one of the code: whom nodes
  had followed may move away in the last sweep, and leave behind two of them that
  nothing joins. With it, each node is where it gains most (`SteadyOK`), and a node
  that is a single pull request with a neighbour gains most where it has one: were
  it drawn to no community by more than chance, it would have less weight in all of
  them together than it has (`GoesToNeighbour`). So whoever has company after a
  level has somebody in it whom it may join (`HeldTogether`), and such a pair has an
  edge of tier A or B (`MayJoinHolds`); what is taken apart falls into components
  of such edges (`ComponentHolds`). What this needs of the level is that neighbours
  are mutual, that a community of one has no loop and no other neighbours than its
  pull request (`JoinedOK`, `AloneOK`), that nobody follows a node without neighbours
  (`LonelyOK`), and that the strength of every pair is a positive number
  (`WeightIsPositive`, by a bound on the edges that can join it).
* **Analysis_proofs**, about Louvain's method: `ModularityNeverFalls`. The property
  measures the partition of the pull requests, the code the nodes of a level. The
  two agree because a level weighs exactly what its nodes stand for (`ExactOK`):
  between two nodes the pairs of pull requests between their blocks, at a node all
  that its block has. So the mass is twice what all pairs weigh (`MassIsTwice`), and
  a class has the sum of the degrees of its nodes (`ClassWeighs`). An aggregation
  keeps this (`JointIsExact`, `DegreesAdd`; what lies inside a community is counted
  from both ends, so that halving it loses nothing, `JointIsEven`) and changes no
  class. A move changes the weight inside the classes by the ties it takes up and
  gives up (`InsideMoves`), and the squares of two classes (`ClassesMove`); the
  others cancel, and what remains is the gain that `Gain` compares (`MovePays`).

With that exception no proof adds a hypothesis to the specification. What is
assumed of the constants is what the code or its configuration gives: the author
of a pull request is a key or not known; the caps of the walk are positive and
that of the signals is a number; accounts, signatures, workers, criteria and
results are finite; weights, discounts, half-widths, coefficients, headroom and
decays are not negative, and the least strength that joins is positive; entries
of different episodes have different numbers; the search cap is a multiple of
the page size, as 1000 is of 100; `Beta <= Alpha`.

Every safety property that a passing run checks is stated by a theorem. Only the
liveness properties (`RunEnds`, `EveryShardEventuallyWritten`, `FoundIsFetched`,
`DiscoveryEnds`, `AffordableTasksDrain`, `ScriptEnds`, `FilesReachSite`) are
model-checked alone: fairness is out of the prover's reach.

## 5. Where code and documents disagree

* `GitHubClientGap`: a batch that exhausts its attempts raises without a ledger
  row, so the gate that promises "no shard is silently absent" finds nothing.
* `IngestRefreshWidened`: a shard is named by its bucket and read whatever it
  was written for, so a window that gains numbers of an existing bucket never
  fetches them; the runbook says changed buckets are fetched again. The same
  cause freezes a pull request in the state it had when its shard was written,
  and makes the gap of a failed core batch permanent in the detail shard that
  straddles it.
* `LLMClientReplay`: a replay takes the first provider of the preference, which
  is part of the cache key, so a cache populated with another provider's key is
  not found.

Seen where a property had to be stated more weakly than a document has it:

* `_paginate_pr_connection` (`github_source.py`, lines 339-342) drains the further
  pages because a pull request "would be silently truncated" otherwise. Its loop
  also ends when GitHub gives null for the pull request (lines 353-354) and after 39
  further pages (line 346). The shard is then written as one that was paginated,
  and a later run reads it as complete: `ShardHasResponses` can only speak of the
  pages that the loop went through.
* A slice that loses results to the search cap is reported by a note of its run. Notes
  are kept in memory (`runs.py`, lines 107-108) and written when the run ends; the
  checkpoint of the slice is written at once. After a kill between the two the next
  run reads the slice back and says nothing: `WindowIsDiscovered` promises the
  report only of slices that the run has searched itself. The total that
  GitHub reported is in the shard's rows, and nothing reads it.
* The signals of a pull request are cut to the first 20 (`corrective.py`, line 124),
  and the revert that is known by its title alone comes last. Beyond 20 the status
  of an episode says "reverted" while its counterevidence does not:
  `RevertsAgree` holds up to the cut.
* Shares are scaled to the limit of 2.00 and then rounded to the nearest sixth
  decimal (`participants.py`, line 478): three shares of 0.70 become 0.666667 each,
  2.000001 together. `CreditIsShared` allows half a grain per sharer. An author
  who is not known (`actors.py`, lines 103-107) takes part in no episode, so that
  the one who wrote most of it may be nobody.

Seen on instances of the models, without a run of their own:

* `run_scenario` looks up the pairs of a shared tier in `indifferent_with`
  (`outranking.py`, lines 682-695), which is cut to ten entries for display (line
  607): in a field with more than ten indifferent engineers a pair that PROMETHEE
  III does not separate may not be counted, although the comment (lines 677-679)
  and `PHASE_3_CONTRACT.md` (line 287, "the figure worth surfacing") say it is.
* `PHASE_3_CONTRACT.md` (lines 283-285) and the docstring of `promethee_iii` say
  that mutually indifferent engineers share a position. Indifference in an interval
  order is not transitive, and the position counts those who are strictly
  preferred, so that two whose intervals overlap may stand apart. Four engineers
  are enough with intervals of half a standard deviation, about twelve with the
  configured ones.
* The manifest of Phase 3 is written before the scan and again with its outcome,
  but the fingerprint (`watch-phase2.sh`, line 47) covers only the files and
  `generated_at`, so a watcher that deploys in between never deploys the verdict,
  although the script redeploys "whenever it changes" (line 3).
* With four engineers: the module comment of
  `outranking.py` and the docstring of `final_ranking` speak of the intersection
  of the two distillations, a partial preorder; the code averages the two
  positions, so that somebody can be in a better tier than one whom the
  ascending chain puts before him.
* Seen while modelling and left to the reader: failed attempts and the second
  post without a schema are requests the daily cap does not count; the repeats
  of a stability case have one cache key, so all but the first are served from
  the cache; the ledger is flushed once in so many rows and not before the
  caller moves on;
  `generated_at` is part of the fingerprint and `verified_at` of `coverage.json`,
  so a rerun that finds nothing new is deployed again; the scan that
  `export.py` describes as "before writing" reads files already written; the
  watcher deploys whatever `publishable` says, though rule 8 of the Phase 3
  contract forbids a public deploy while it is false; a standing approval also covers a validation item that failed
  without a human behind it.

Seen while modelling the chain and the tables, without a run of their own:

* The comment of `run_when_ingest_completes.sh` (lines 60-61) says that only one
  copy runs at a time; between `mkdir` and the writing of the pid a second copy
  takes the lock for stale. `SerialStartsExclude` is what holds.
* `impact validate` returns 0 whatever the gates say (`cli.main`), while the chain
  (lines 136-138) takes a non-zero exit for failing gates that are "recorded and
  exported"; a `validate` that dies on a torn table takes the same branch, and
  what is exported is the report of an earlier run.
* `export` leaves the copies of tables that are no longer there, and
  `load_inputs` reads a copy that the manifest does not list unchecked, with the
  status "verified". A table whose first write was cut off before its sidecar is
  listed without a content hash. Without `--verify-content-hashes` the file is
  hashed before its rows are read, and a copy may come in between.
* The chain leaves out `graph`: a dependency table that was torn once makes every
  chain fail until somebody runs `graph`, and a whole one may be of another clone.
* The two workflows have different concurrency groups over the same caches and
  branch; `refresh-dashboard.yml` saves the artifacts cache before Phase 2 has
  run, although `llm-topup.yml` (lines 14-16) restores it as the "Phase 2 state";
  the steps "Re-export with whatever the LLM produced" and "with the new
  narrative" run `impact2 export`, for which the LLM stage is "not run in this
  invocation".

Seen while modelling the analysis:

* `actors.py` says that identities sharing an address are merged, and
  `participants.py` (line 88) builds on it. No two records can share one
  (`NobodyIsGathered`): whoever commits under an address of his own is another
  person than his account, and can be credited as his own co-author.
  `test_identity.py` (lines 45-63) writes the addresses into the records by hand.
  `hashing.actor_id` says "never to a display name"; with an empty address the
  name is what `add_git_identity` passes.
* `blast_radius.py` (lines 164-169) means to call a change of only unparsed
  languages unknown; `graph/build.py` (lines 112-122) makes nodes for those files
  too, so that `graph_known == 0` does not hold and the change is banded as small.
  `test_feature_semantics.py` (lines 90-100) passes no nodes.
* `followed_by_change_in_path` holds of nearly every comment before the merge on a
  file of the pull request: the one commit that a squash leaves is dated by the
  merge and touches all of its files.
* `build_edges` gives every mention in a pull request every type its text has a
  phrase for: "Reverts #12, see #15" reverts both.
* `status.py` says that a release is corroborated before an episode counts as
  shipped; of the six evaluators only `product_outcome` asks (rubric.py, line
  387). The flag of any removal ungates every episode of the flag.
* `make_edge` demotes under guards, while the comment in `episodes.yaml` (lines
  53-54) speaks of reduced weight: a demoted edge never joins. `deduplicate` says
  one edge per pair; its key includes the type.
* The first remedy of `apply_constraints` does nothing where the cluster is a
  community already; episodes of tier B alone have exactly the confidence at
  which the queue for reviews stops; communities of the Louvain method need not
  be connected.
* Explicit corrections in `regression.py` (lines 97-106) carry the number of the
  corrected pull request itself, and `corrective.py` (lines 63-96) reads it as
  that of the later one; one reapplied pull request forgives the revert of
  another (lines 145-172); an author's own linked fix is always within the days
  that make it healthy.
* A penalty of one half rounds to no band; the early return of
  `propagation_durability` at band 0 is never reached; the limit on the
  factors of an episode is 2.00, while its comment (`attribution.yaml`, lines
  160-162) says that "an episode cannot be worth more than itself"; a
  reviewer who is also a co-author lowers his category; the lower ends of the
  shares may add up to more than the whole.
* Of equally frequent confidences `portfolio/build.py` (lines 288-289) takes the
  one a hash puts first: `Dominant` gives them all. `_independence_group` looks at
  the smallest issue only.

## 6. Not modelled, and what is left

Not modelled because there is nothing to interleave and no protocol to break: git
history, import parsers, web artifacts, titles and other parsed text, prompts,
claims and render plan, validation items, fixtures, and the dashboard, whose only
state is a scenario switch. The scenarios and the sensitivity analysis run the
comparison of `Ranking` on other weights and samples. The workflows are not
modelled because what a job finds is decided by the host's caches: which entry a
prefix restores, and when one is evicted. The
rate-limit floor only decides how fast the client asks.

Left to prove: that `LevelsEnd` holds of all tables of some size. This needs a
bound on the number of sweeps, for which modularity, that only grows, is a start.
