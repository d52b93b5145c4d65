----------------------------- MODULE Artifacts -----------------------------
(***************************************************************************)
(* The tables on their way from the raw shards to Phase 2: normalize and   *)
(* graph read the raw layer, features reads their tables, validate hashes  *)
(* them all, export copies them and lists them in a manifest, and Phase 2  *)
(* loads what the manifest lists. All of them share the files of one       *)
(* directory tree and none takes a lock. Runs are started by the chain     *)
(* (scripts/run_when_ingest_completes.sh), by the workflow and by hand,    *)
(* may overlap, and are killed anywhere; the ingest may rewrite a shard    *)
(* under them.                                                             *)
(*                                                                         *)
(* A table stands for all tables that the same stage writes.               *)
(***************************************************************************)
EXTENDS Naturals, Sequences, FiniteSets

CONSTANTS
  Processes,
  Runs,            \* the sets of stages a process may run
  MaxIngests,      \* bound: on the rewritten shards
  MaxCrashes       \* bound: on the killed processes

VARIABLES
  raw,             \* raw[s]: the version of the shard
  parquet,         \* parquet[t]: what is in the file of a table
  sidecar,         \* sidecar[t]: what its .meta.json describes
  quality,         \* _quality_report.json
  artifact,        \* artifact[t]: the copy in artifacts/
  manifest,        \* run_manifest.json
  left,            \* left[p]: the steps p has still to do
  outcome,
  mem,             \* mem[p]: what the tables p is about to write are made of
  checked, agrees, \* validate: what was hashed, and whether it agreed
  draft,           \* export: the entries of the manifest
  seen, rows, bad, \* Phase 2: the manifest, the tables, and a failed check
  alone,           \* history: nobody wrote beside p, which makes all it exports
  sealed,          \* history: what was written whole, table and sidecar
  ingests, crashes

files == <<parquet, sidecar, quality, artifact, manifest>>
stageVars == <<mem, checked, agrees, draft, seen, rows, bad>>
vars == <<raw, files, left, outcome, stageVars, alone, sealed, ingests, crashes>>

PRs   == "pull_requests"
Arcs  == "candidate_episode_edges"
Deps  == "dependency_edges"
Tables == {PRs, Arcs, Deps}
Shards == {"github", "commits"}

\* A table is what it was made of: shards in some version. Two tables have the
\* same hash when they were made of the same.
Absent == {}
Torn == {<<"torn", 0>>}
Content == SUBSET (Shards \X (0 .. MaxIngests)) \union {Torn}

Nothing == [t \in Tables |-> Absent]
Entry == [content : Content, file : Content]
Unlisted == [t \in Tables |-> [content |-> Absent, file |-> Absent]]
NoReport == [tables |-> Nothing, agrees |-> FALSE]
NoManifest == [tables |-> Unlisted, quality |-> NoReport, written |-> FALSE]

-----------------------------------------------------------------------------
(* The stages, as the files they touch one after the other. *)

Step(op, on) == [op |-> op, on |-> on]

Emit(t) == <<Step("open", t), Step("close", t), Step("describe", t)>>
Export(t) == <<Step("open_copy", t), Step("close_copy", t), Step("list", t)>>
Load(t) == <<Step("hash", t), Step("rows", t)>>

Steps(stage) ==
  CASE stage = "normalize" ->
         <<Step("shard", "github"), Step("shard", "commits")>> \o Emit(PRs)
    [] stage = "graph" -> <<Step("shard", "commits")>> \o Emit(Deps)
    [] stage = "features" ->
         <<Step("table", PRs), Step("table", Deps)>> \o Emit(Arcs)
    [] stage = "validate" ->
         <<Step("check", PRs), Step("check", Arcs), Step("check", Deps), Step("report", "all")>>
    [] stage = "export" ->
         Export(PRs) \o Export(Arcs) \o Export(Deps) \o <<Step("manifest", "all")>>
    [] stage = "phase2" ->
         <<Step("inputs", "all")>> \o Load(PRs) \o Load(Arcs) \o Load(Deps) \o <<Step("verdict", "all")>>

\* A run takes some of the stages, always in the order of the pipeline.
AllStages == {"normalize", "graph", "features", "validate", "export", "phase2"}

If(stage, run) == IF stage \in run THEN Steps(stage) ELSE <<>>

Program(run) ==
  If("normalize", run) \o If("graph", run) \o If("features", run)
    \o If("validate", run) \o If("export", run) \o If("phase2", run)

\* A directory with nothing in it, or with what an earlier run has left.
Made == [t \in Tables |-> IF t = Deps THEN {<<"commits", 0>>} ELSE Shards \X {0}]

Init ==
  /\ raw = [s \in Shards |-> 0]
  /\ parquet \in {Nothing, Made} /\ sidecar = parquet /\ artifact = parquet
  /\ quality = [tables |-> parquet, agrees |-> parquet = Made]
  /\ manifest = [tables  |-> [t \in Tables |-> [content |-> parquet[t], file |-> parquet[t]]],
                 quality |-> quality, written |-> parquet = Made]
  /\ sealed = {<<t, sidecar[t]>> : t \in {k \in Tables : sidecar[k] # Absent}}
  /\ left = [p \in Processes |-> <<>>]
  /\ outcome = [p \in Processes |-> "none"]
  /\ mem = [p \in Processes |-> Absent]
  /\ checked = [p \in Processes |-> Nothing]
  /\ agrees = [p \in Processes |-> TRUE]
  /\ draft = [p \in Processes |-> Unlisted]
  /\ seen = [p \in Processes |-> NoManifest]
  /\ rows = [p \in Processes |-> Nothing]
  /\ bad = [p \in Processes |-> FALSE]
  /\ alone = [p \in Processes |-> FALSE]
  /\ ingests = 0 /\ crashes = 0

-----------------------------------------------------------------------------
(* What every step has in common. *)

At(p, op) == outcome[p] = "running" /\ left[p] # <<>> /\ Head(left[p]).op = op
On(p) == Head(left[p]).on

Done(p) == left' = [left EXCEPT ![p] = Tail(@)] /\ UNCHANGED outcome
Skip(p, n) == left' = [left EXCEPT ![p] = SubSeq(@, n + 1, Len(@))] /\ UNCHANGED outcome

\* A stage that raises ends the run: the chain calls fail, make and the
\* workflow stop.
End(p, how) ==
  left' = [left EXCEPT ![p] = <<>>] /\ outcome' = [outcome EXCEPT ![p] = how]

Writes(p) == alone' = [q \in Processes |-> alone[q] /\ q = p]

\* No cut write of a table that this run does not make itself.
Intact(t) == parquet[t] # Torn /\ sidecar[t] \in {Absent, parquet[t]}

Start(p) ==
  /\ outcome[p] = "none"
  /\ \E run \in Runs :
       /\ left' = [left EXCEPT ![p] = Program(run)]
       /\ alone' = [alone EXCEPT ![p] =
            /\ AllStages \ {"graph"} \subseteq run
            /\ "graph" \in run \/ Intact(Deps)]
  /\ outcome' = [outcome EXCEPT ![p] = "running"]
  /\ UNCHANGED <<raw, files, stageVars, sealed, ingests, crashes>>

-----------------------------------------------------------------------------
(* normalize, graph and features: read, then write table by table. *)

\* Shards are replaced atomically: whichever version is there is read whole.
ReadShard(p) ==
  /\ At(p, "shard")
  /\ mem' = [mem EXCEPT ![p] = @ \union {<<On(p), raw[On(p)]>>}]
  /\ Done(p)
  /\ UNCHANGED <<raw, files, checked, agrees, draft, seen, rows, bad, alone, sealed,
                 ingests, crashes>>

\* A table that is not there is empty, one that was cut off raises.
ReadTable(p) ==
  /\ At(p, "table")
  /\ IF parquet[On(p)] = Torn
       THEN End(p, "failed") /\ mem' = [mem EXCEPT ![p] = Absent]
       ELSE Done(p) /\ mem' = [mem EXCEPT ![p] = @ \union parquet[On(p)]]
  /\ UNCHANGED <<raw, files, checked, agrees, draft, seen, rows, bad, alone, sealed,
                 ingests, crashes>>

\* Mutation: a table that is there is not made again.
OpenUnlessThere(p) ==
  /\ At(p, "open")
  /\ IF parquet[On(p)] # Absent
       THEN Skip(p, 3) /\ UNCHANGED <<parquet, alone>>
       ELSE Done(p) /\ Writes(p) /\ parquet' = [parquet EXCEPT ![On(p)] = Torn]
  /\ mem' = mem
  /\ UNCHANGED <<raw, sidecar, quality, artifact, manifest, checked, agrees, draft, seen,
                 rows, bad, sealed, ingests, crashes>>

\* The parquet file is written in place ...
OpenTable(p) ==
  /\ At(p, "open")
  /\ parquet' = [parquet EXCEPT ![On(p)] = Torn]
  /\ Done(p) /\ Writes(p)
  /\ UNCHANGED <<raw, sidecar, quality, artifact, manifest, stageVars, sealed, ingests, crashes>>

CloseTable(p) ==
  /\ At(p, "close")
  /\ parquet' = [parquet EXCEPT ![On(p)] = mem[p]]
  /\ Done(p) /\ Writes(p)
  /\ UNCHANGED <<raw, sidecar, quality, artifact, manifest, stageVars, sealed, ingests, crashes>>

\* ... and its sidecar after it, through a temporary file.
Describe(p) ==
  /\ At(p, "describe")
  /\ sidecar' = [sidecar EXCEPT ![On(p)] = mem[p]]
  /\ sealed' = sealed \union {<<On(p), mem[p]>>}
  /\ mem' = [mem EXCEPT ![p] = Absent]
  /\ Done(p) /\ Writes(p)
  /\ UNCHANGED <<raw, parquet, quality, artifact, manifest, checked, agrees, draft, seen,
                 rows, bad, ingests, crashes>>

-----------------------------------------------------------------------------
(* validate *)

\* A run goes on without validate, whose report is then of an earlier run.
CheckTable(p) ==
  /\ At(p, "check")
  /\ IF parquet[On(p)] = Torn
       THEN /\ \E n \in 1 .. Len(left[p]) :
                 /\ left[p][n].op = "report" /\ \A i \in 1 .. n - 1 : left[p][i].op = "check"
                 /\ Skip(p, n)
            /\ checked' = [checked EXCEPT ![p] = Nothing]
            /\ agrees' = [agrees EXCEPT ![p] = TRUE]
       ELSE /\ Done(p)
            /\ checked' = [checked EXCEPT ![p][On(p)] = parquet[On(p)]]
            /\ agrees' = [agrees EXCEPT ![p] =
                 @ /\ sidecar[On(p)] \in {Absent, parquet[On(p)]}]
  /\ UNCHANGED <<raw, files, mem, draft, seen, rows, bad, alone, sealed, ingests, crashes>>

Report(p) ==
  /\ At(p, "report")
  /\ quality' = [tables |-> checked[p], agrees |-> agrees[p]]
  /\ checked' = [checked EXCEPT ![p] = Nothing]
  /\ agrees' = [agrees EXCEPT ![p] = TRUE]
  /\ Done(p) /\ Writes(p)
  /\ UNCHANGED <<raw, parquet, sidecar, artifact, manifest, mem, draft, seen, rows, bad,
                 sealed, ingests, crashes>>

-----------------------------------------------------------------------------
(* export *)

\* shutil.copy2 writes in place as well.
OpenCopy(p) ==
  /\ At(p, "open_copy")
  /\ IF parquet[On(p)] = Absent
       THEN Skip(p, 3) /\ UNCHANGED <<artifact, alone>>
       ELSE Done(p) /\ Writes(p) /\ artifact' = [artifact EXCEPT ![On(p)] = Torn]
  /\ UNCHANGED <<raw, parquet, sidecar, quality, manifest, stageVars, sealed, ingests, crashes>>

CloseCopy(p) ==
  /\ At(p, "close_copy")
  /\ artifact' = [artifact EXCEPT ![On(p)] = parquet[On(p)]]
  /\ Done(p) /\ Writes(p)
  /\ UNCHANGED <<raw, parquet, sidecar, quality, manifest, stageVars, sealed, ingests, crashes>>

\* The description is the sidecar's, the file hash the copy's; its schema and the
\* sample rows are read from the files, which raises when one was cut off.
ListTable(p) ==
  /\ At(p, "list")
  /\ IF Torn \in {artifact[On(p)], parquet[On(p)]}
       THEN End(p, "failed") /\ draft' = [draft EXCEPT ![p] = Unlisted]
       ELSE /\ Done(p)
            /\ draft' = [draft EXCEPT ![p][On(p)] =
                 [content |-> sidecar[On(p)], file |-> artifact[On(p)]]]
  /\ UNCHANGED <<raw, files, mem, checked, agrees, seen, rows, bad, alone, sealed,
                 ingests, crashes>>

WriteManifest(p) ==
  /\ At(p, "manifest")
  /\ manifest' = [tables |-> draft[p], quality |-> quality, written |-> TRUE]
  /\ draft' = [draft EXCEPT ![p] = Unlisted]
  /\ Done(p) /\ Writes(p)
  /\ UNCHANGED <<raw, parquet, sidecar, quality, artifact, mem, checked, agrees, seen, rows,
                 bad, sealed, ingests, crashes>>

-----------------------------------------------------------------------------
(* load_inputs of Phase 2, with --verify-content-hashes. *)

ReadManifest(p) ==
  /\ At(p, "inputs")
  /\ IF manifest.written THEN Done(p) ELSE End(p, "failed")
  /\ seen' = [seen EXCEPT ![p] = manifest]
  /\ rows' = [rows EXCEPT ![p] = Nothing]
  /\ bad' = [bad EXCEPT ![p] = FALSE]
  /\ UNCHANGED <<raw, files, mem, checked, agrees, draft, alone, sealed, ingests, crashes>>

Listed(p, t) == seen[p].tables[t]

\* A table without a file is a disabled capability; one the manifest does not
\* list is read unchecked.
HashFile(p) ==
  /\ At(p, "hash")
  /\ IF artifact[On(p)] = Absent THEN Skip(p, 2) ELSE Done(p)
  /\ bad' = [bad EXCEPT ![p] =
       @ \/ Cardinality({Absent, artifact[On(p)], Listed(p, On(p)).file}) = 3]
  /\ UNCHANGED <<raw, files, mem, checked, agrees, draft, seen, rows, alone, sealed,
                 ingests, crashes>>

\* Mutation: the hash of the file is enough.
ReadRowsOnly(p) ==
  /\ At(p, "rows")
  /\ IF artifact[On(p)] = Torn
       THEN End(p, "failed") /\ UNCHANGED <<rows, bad>>
       ELSE Done(p) /\ UNCHANGED bad /\ rows' = [rows EXCEPT ![p][On(p)] = artifact[On(p)]]
  /\ UNCHANGED <<raw, files, mem, checked, agrees, draft, seen, alone, sealed, ingests, crashes>>

ReadRows(p) ==
  /\ At(p, "rows")
  /\ IF artifact[On(p)] = Torn
       THEN End(p, "failed") /\ UNCHANGED <<rows, bad>>
       ELSE /\ Done(p)
            /\ rows' = [rows EXCEPT ![p][On(p)] = artifact[On(p)]]
            /\ bad' = [bad EXCEPT ![p] =
                 @ \/ Listed(p, On(p)).content \notin {Absent, artifact[On(p)]}]
  /\ UNCHANGED <<raw, files, mem, checked, agrees, draft, seen, alone, sealed, ingests, crashes>>

Verdict(p) ==
  /\ At(p, "verdict")
  /\ End(p, IF bad[p] \/ rows[p][PRs] = Absent THEN "failed" ELSE "loaded")
  /\ UNCHANGED <<raw, files, stageVars, alone, sealed, ingests, crashes>>

-----------------------------------------------------------------------------
\* A run that does not end with Phase 2 is over.
Finish(p) ==
  /\ outcome[p] = "running" /\ left[p] = <<>>
  /\ End(p, "finished")
  /\ UNCHANGED <<raw, files, stageVars, alone, sealed, ingests, crashes>>

Lose(p) ==
  /\ mem' = [mem EXCEPT ![p] = Absent]
  /\ checked' = [checked EXCEPT ![p] = Nothing]
  /\ agrees' = [agrees EXCEPT ![p] = TRUE]
  /\ draft' = [draft EXCEPT ![p] = Unlisted]
  /\ seen' = [seen EXCEPT ![p] = NoManifest]
  /\ rows' = [rows EXCEPT ![p] = Nothing]
  /\ bad' = [bad EXCEPT ![p] = FALSE]

Kill(p) ==
  /\ outcome[p] = "running" /\ crashes < MaxCrashes
  /\ crashes' = crashes + 1
  /\ End(p, "killed") /\ Lose(p)
  /\ UNCHANGED <<raw, files, alone, sealed, ingests>>

\* An ingest replaces one of its shards.
Ingest(s) ==
  /\ ingests < MaxIngests
  /\ ingests' = ingests + 1
  /\ raw' = [raw EXCEPT ![s] = ingests']
  /\ UNCHANGED <<files, left, outcome, stageVars, alone, sealed, crashes>>

Stage(p) ==
  \/ ReadShard(p) \/ ReadTable(p)
  \/ OpenTable(p) \/ CloseTable(p) \/ Describe(p)
  \/ CheckTable(p) \/ Report(p)
  \/ OpenCopy(p) \/ CloseCopy(p) \/ ListTable(p) \/ WriteManifest(p)
  \/ ReadManifest(p) \/ HashFile(p) \/ ReadRows(p) \/ Verdict(p)

Next ==
  \/ \E p \in Processes : Start(p) \/ Stage(p) \/ Finish(p) \/ Kill(p)
  \/ \E s \in Shards : Ingest(s)

Spec == Init /\ [][Next]_vars

-----------------------------------------------------------------------------
(* Properties. *)

\* Whatever was killed before, and whatever the ingest rewrites meanwhile, a run
\* of all stages that no other process writes beside ends in Phase 2 with tables
\* that belong together: the episodes were made of the very pull requests and
\* dependencies they come with, and the report in the manifest is about them.
UndisturbedRunIsWhole ==
  \A p \in Processes : alone[p] /\ outcome[p] \in {"failed", "loaded"} =>
    /\ outcome[p] = "loaded"
    /\ rows[p][Arcs] = rows[p][PRs] \union rows[p][Deps]
    /\ seen[p].quality = [tables |-> rows[p], agrees |-> TRUE]

\* Whoever overlaps with whom and whatever is killed, a table that Phase 2 takes
\* and the manifest describes was written whole, by the write that described it:
\* neither a write cut off before its sidecar, nor a copy over the file between
\* its hash and its rows.
LoadedTablesWereSealed ==
  \A p \in Processes : outcome[p] = "loaded" =>
    \A t \in Tables : Absent \notin {rows[p][t], Listed(p, t).content} =>
      <<t, rows[p][t]>> \in sealed
=============================================================================
