-------------------------- MODULE Artifacts_proofs --------------------------
(***************************************************************************)
(* For any processes, any runs and any number of kills and ingests: what   *)
(* Phase 2 takes with a description was written whole.                     *)
(*                                                                         *)
(* The description of a table travels from its sidecar through the draft   *)
(* and the manifest to the reader, and each of them only ever holds what   *)
(* was sealed; the reader holds rows beside a description only when they   *)
(* agree, or knows that they do not. The files themselves never enter the  *)
(* argument, whoever writes into them.                                     *)
(*                                                                         *)
(* And a run of all stages that nobody writes beside ends in Phase 2 with  *)
(* tables that belong together. That argument is about the files: an       *)
(* invariant says, for every place in the program, what the run has made.  *)
(***************************************************************************)
EXTENDS Artifacts, FiniteSetTheorems, TLAPS

\* The functions are functions: what EXCEPT needs.
Shapes ==
  /\ sidecar = [t \in Tables |-> sidecar[t]]
  /\ draft = [p \in Processes |-> draft[p]]
  /\ \A p \in Processes : draft[p] = [t \in Tables |-> draft[p][t]]
  /\ seen = [p \in Processes |-> seen[p]]
  /\ rows = [p \in Processes |-> rows[p]]
  /\ \A p \in Processes : rows[p] = [t \in Tables |-> rows[p][t]]
  /\ bad \in [Processes -> BOOLEAN]
  /\ outcome = [p \in Processes |-> outcome[p]]

Sealed(t, content) == content # Absent => <<t, content>> \in sealed

SidecarsSealed == \A t \in Tables : Sealed(t, sidecar[t])
DraftsSealed == \A p \in Processes, t \in Tables : Sealed(t, draft[p][t].content)
ManifestSealed == \A t \in Tables : Sealed(t, manifest.tables[t].content)
SeenSealed == \A p \in Processes, t \in Tables : Sealed(t, seen[p].tables[t].content)

\* What was read beside its description agrees with it, or is known not to.
RowsAgree ==
  \A p \in Processes : bad[p] = FALSE =>
    \A t \in Tables :
      \/ rows[p][t] = Absent
      \/ seen[p].tables[t].content = Absent
      \/ rows[p][t] = seen[p].tables[t].content

LoadedIsGood == \A p \in Processes : outcome[p] = "loaded" => bad[p] = FALSE

IInv ==
  /\ Shapes /\ SidecarsSealed /\ DraftsSealed /\ ManifestSealed /\ SeenSealed
  /\ RowsAgree /\ LoadedIsGood

LEMMA InitSealed == Init => IInv
<1> SUFFICES ASSUME Init PROVE IInv
  OBVIOUS
<1>1. sidecar = [t \in Tables |-> sidecar[t]]
  BY DEF Init, Nothing, Made
<1>2. Shapes
  BY <1>1 DEF Init, Shapes, Nothing, Unlisted
<1>3. SidecarsSealed
  BY DEF Init, SidecarsSealed, Sealed
<1>4. ManifestSealed
  <2>1. \A t \in Tables : manifest.tables[t].content = sidecar[t]
    BY DEF Init
  <2> QED BY <1>3, <2>1 DEF SidecarsSealed, ManifestSealed
<1>5. DraftsSealed
  BY DEF Init, DraftsSealed, Sealed, Unlisted
<1>6. SeenSealed
  BY DEF Init, SeenSealed, Sealed, NoManifest, Unlisted
<1>7. RowsAgree /\ LoadedIsGood
  BY DEF Init, RowsAgree, LoadedIsGood, Nothing
<1> QED BY <1>2, <1>3, <1>4, <1>5, <1>6, <1>7 DEF IInv

-----------------------------------------------------------------------------
(* Most steps touch nothing of this. *)

Quiet ==
  /\ UNCHANGED <<sidecar, manifest, draft, seen, rows, bad, sealed>>
  /\ \A p \in Processes : outcome'[p] = "loaded" => outcome[p] = "loaded"
  /\ outcome' = [p \in Processes |-> outcome'[p]]

LEMMA QuietKeeps == IInv /\ Quiet => IInv'
BY DEF IInv, Quiet, Shapes, SidecarsSealed, DraftsSealed, ManifestSealed, SeenSealed,
       RowsAgree, LoadedIsGood, Sealed

\* The steps that raise, read, copy or report leave the descriptions alone.
LEMMA OtherSteps ==
  ASSUME IInv, NEW p \in Processes,
         \/ Start(p) \/ ReadShard(p) \/ ReadTable(p) \/ OpenTable(p) \/ CloseTable(p)
         \/ CheckTable(p) \/ Report(p) \/ OpenCopy(p) \/ CloseCopy(p) \/ Finish(p)
  PROVE  IInv'
<1> USE DEF IInv, Shapes, Quiet, files, stageVars, Done, Skip, End, Writes
<1>1. CASE Start(p)
  <2>1. Quiet
    BY <1>1 DEF Start
  <2> QED BY <2>1, QuietKeeps
<1>2. CASE ReadShard(p)
  <2>1. Quiet
    BY <1>2 DEF ReadShard
  <2> QED BY <2>1, QuietKeeps
<1>3. CASE ReadTable(p)
  <2>1. Quiet
    BY <1>3 DEF ReadTable
  <2> QED BY <2>1, QuietKeeps
<1>4. CASE OpenTable(p) \/ CloseTable(p)
  <2>1. Quiet
    BY <1>4 DEF OpenTable, CloseTable
  <2> QED BY <2>1, QuietKeeps
<1>5. CASE CheckTable(p) \/ Report(p)
  <2>1. Quiet
    BY <1>5 DEF CheckTable, Report
  <2> QED BY <2>1, QuietKeeps
<1>6. CASE OpenCopy(p) \/ CloseCopy(p)
  <2>1. Quiet
    BY <1>6 DEF OpenCopy, CloseCopy
  <2> QED BY <2>1, QuietKeeps
<1>7. CASE Finish(p)
  <2>1. Quiet
    BY <1>7 DEF Finish
  <2> QED BY <2>1, QuietKeeps
<1> QED BY <1>1, <1>2, <1>3, <1>4, <1>5, <1>6, <1>7

-----------------------------------------------------------------------------
(* The steps that carry a description on. *)

\* The write seals what it describes.
LEMMA DescribeKeeps ==
  ASSUME IInv, NEW p \in Processes, Describe(p)
  PROVE  IInv'
<1> USE DEF Describe, Done, Writes
<1>1. sealed \subseteq sealed'
  OBVIOUS
<1>2. Shapes'
  BY DEF IInv, Shapes
<1>3. SidecarsSealed'
  <2> SUFFICES ASSUME NEW t \in Tables, sidecar'[t] # Absent
               PROVE  <<t, sidecar'[t]>> \in sealed'
    BY DEF SidecarsSealed, Sealed
  <2>1. sidecar' = [sidecar EXCEPT ![On(p)] = mem[p]] /\ sidecar = [k \in Tables |-> sidecar[k]]
    BY DEF IInv, Shapes
  <2>2. CASE t = On(p)
    BY <2>1, <2>2
  <2>3. CASE t # On(p)
    BY <2>1, <2>3, <1>1 DEF IInv, SidecarsSealed, Sealed
  <2> QED BY <2>2, <2>3
<1>4. DraftsSealed' /\ ManifestSealed' /\ SeenSealed'
  BY <1>1 DEF IInv, DraftsSealed, ManifestSealed, SeenSealed, Sealed
<1>5. RowsAgree' /\ LoadedIsGood'
  BY DEF IInv, RowsAgree, LoadedIsGood
<1> QED BY <1>2, <1>3, <1>4, <1>5 DEF IInv

LEMMA ListTableKeeps ==
  ASSUME IInv, NEW p \in Processes, ListTable(p)
  PROVE  IInv'
<1> USE DEF ListTable, files, stageVars
<1>1. Shapes'
  <2>1. /\ draft' = [q \in Processes |-> draft'[q]]
        /\ \A q \in Processes \ {p} : draft'[q] = draft[q]
    BY DEF IInv, Shapes
  <2>2. draft'[p] = [t \in Tables |-> draft'[p][t]]
    BY DEF IInv, Shapes, Unlisted
  <2>3. \A q \in Processes : draft'[q] = [t \in Tables |-> draft'[q][t]]
    BY <2>1, <2>2 DEF IInv, Shapes
  <2>4. outcome' = [q \in Processes |-> outcome'[q]]
    BY DEF IInv, Shapes, Done, End
  <2>5. UNCHANGED <<sidecar, seen, rows, bad>>
    OBVIOUS
  <2> HIDE DEF ListTable
  <2> QED BY <2>1, <2>3, <2>4, <2>5 DEF IInv, Shapes
<1>2. DraftsSealed'
  <2> SUFFICES ASSUME NEW q \in Processes, NEW t \in Tables
               PROVE  Sealed(t, draft[q][t].content)'
    BY DEF DraftsSealed
  <2>1. sidecar' = sidecar /\ sealed' = sealed
    OBVIOUS
  <2>2. CASE draft' = [draft EXCEPT ![p] = Unlisted]
    BY <2>1, <2>2 DEF IInv, Shapes, DraftsSealed, Sealed, Unlisted
  <2>3. CASE draft' = [draft EXCEPT ![p][On(p)] =
                         [content |-> sidecar[On(p)], file |-> artifact[On(p)]]]
    <3>1. CASE q = p /\ t = On(p)
      <4>1. draft'[q][t].content = sidecar[t]
        BY <2>3, <3>1 DEF IInv, Shapes
      <4> QED BY <2>1, <4>1 DEF IInv, SidecarsSealed, Sealed
    <3>2. CASE ~(q = p /\ t = On(p))
      <4>1. draft'[q][t] = draft[q][t]
        BY <2>3, <3>2 DEF IInv, Shapes
      <4> QED BY <2>1, <4>1 DEF IInv, DraftsSealed, Sealed
    <3> QED BY <3>1, <3>2
  <2> QED BY <2>2, <2>3
<1>3. SidecarsSealed' /\ ManifestSealed' /\ SeenSealed' /\ RowsAgree'
  BY DEF IInv, SidecarsSealed, ManifestSealed, SeenSealed, RowsAgree, Sealed
<1>4. LoadedIsGood'
  BY DEF IInv, Shapes, LoadedIsGood, Done, End
<1> QED BY <1>1, <1>2, <1>3, <1>4 DEF IInv

LEMMA ManifestKeeps ==
  ASSUME IInv, NEW p \in Processes, WriteManifest(p)
  PROVE  IInv'
<1> USE DEF WriteManifest, Done, Writes
<1>1. Shapes'
  BY DEF IInv, Shapes, Unlisted
<1>2. ManifestSealed'
  BY DEF IInv, ManifestSealed, DraftsSealed, Sealed
<1>3. DraftsSealed'
  BY DEF IInv, Shapes, DraftsSealed, Sealed, Unlisted
<1>4. SidecarsSealed' /\ SeenSealed' /\ RowsAgree' /\ LoadedIsGood'
  BY DEF IInv, SidecarsSealed, SeenSealed, RowsAgree, LoadedIsGood, Sealed
<1> QED BY <1>1, <1>2, <1>3, <1>4 DEF IInv

-----------------------------------------------------------------------------
(* The steps of the reader. *)

LEMMA ReadManifestKeeps ==
  ASSUME IInv, NEW p \in Processes, ReadManifest(p)
  PROVE  IInv'
<1> USE DEF ReadManifest, files
<1>1. Shapes'
  BY DEF IInv, Shapes, Done, End, Nothing
<1>2. SidecarsSealed' /\ DraftsSealed' /\ ManifestSealed'
  BY DEF IInv, SidecarsSealed, DraftsSealed, ManifestSealed, Sealed
<1>3. SeenSealed'
  BY DEF IInv, Shapes, SeenSealed, ManifestSealed, Sealed
<1>4. RowsAgree'
  BY DEF IInv, Shapes, RowsAgree, Nothing
<1>5. LoadedIsGood'
  BY DEF IInv, Shapes, LoadedIsGood, Done, End
<1> QED BY <1>1, <1>2, <1>3, <1>4, <1>5 DEF IInv

\* Rows are only put beside a description in a step that compares them, and what
\* is once known to be bad stays so until the next manifest is read.
LEMMA ReaderKeeps ==
  ASSUME IInv, NEW p \in Processes, HashFile(p) \/ ReadRows(p)
  PROVE  IInv'
<1>1. /\ UNCHANGED <<sidecar, manifest, draft, seen, sealed>>
      /\ outcome[p] = "running"
      /\ outcome' \in {outcome, [outcome EXCEPT ![p] = "failed"]}
  BY DEF HashFile, ReadRows, files, Done, Skip, End, At
<1>2. Shapes'
  <2>1. /\ rows' = [q \in Processes |-> rows'[q]]
        /\ \A q \in Processes \ {p} : rows'[q] = rows[q]
    BY DEF IInv, Shapes, HashFile, ReadRows
  <2>2. rows'[p] = [t \in Tables |-> rows'[p][t]]
    BY DEF IInv, Shapes, HashFile, ReadRows
  <2>3. bad' \in [Processes -> BOOLEAN]
    BY DEF IInv, Shapes, HashFile, ReadRows
  <2>4. outcome' = [q \in Processes |-> outcome'[q]]
    BY <1>1 DEF IInv, Shapes
  <2> QED BY <1>1, <2>1, <2>2, <2>3, <2>4 DEF IInv, Shapes
<1>3. SidecarsSealed' /\ DraftsSealed' /\ ManifestSealed' /\ SeenSealed'
  BY <1>1 DEF IInv, SidecarsSealed, DraftsSealed, ManifestSealed, SeenSealed, Sealed
<1>4. LoadedIsGood'
  <2> SUFFICES ASSUME NEW q \in Processes, outcome'[q] = "loaded"
               PROVE  bad'[q] = FALSE
    BY DEF LoadedIsGood
  <2>1. q # p /\ outcome[q] = "loaded"
    BY <1>1 DEF IInv, Shapes
  <2>2. bad'[q] = bad[q]
    BY <2>1 DEF IInv, Shapes, HashFile, ReadRows
  <2> QED BY <2>1, <2>2 DEF IInv, LoadedIsGood
<1>5. RowsAgree'
  <2> SUFFICES ASSUME NEW q \in Processes, bad'[q] = FALSE, NEW t \in Tables
               PROVE  \/ rows'[q][t] = Absent
                      \/ seen'[q].tables[t].content = Absent
                      \/ rows'[q][t] = seen'[q].tables[t].content
    BY DEF RowsAgree
  <2>1. CASE rows'[q][t] = rows[q][t] /\ bad[q] = FALSE
    BY <1>1, <2>1 DEF IInv, RowsAgree
  <2>2. CASE rows'[q][t] # rows[q][t]
    <3>1. /\ q = p /\ t = On(p)
          /\ rows'[q][t] = artifact[t]
          /\ bad'[p] = (bad[p] \/ Listed(p, t).content \notin {Absent, artifact[t]})
      BY <2>2 DEF IInv, Shapes, HashFile, ReadRows
    <3>2. Listed(p, t).content \in {Absent, artifact[t]}
      BY <3>1
    <3> QED BY <1>1, <3>1, <3>2 DEF Listed
  <2>3. CASE bad[q] # FALSE
    <3>1. bad[q] = TRUE
      BY <2>3 DEF IInv, Shapes
    <3> QED BY <3>1 DEF IInv, Shapes, HashFile, ReadRows
  <2> QED BY <2>1, <2>2, <2>3
<1> QED BY <1>2, <1>3, <1>4, <1>5 DEF IInv

LEMMA VerdictKeeps ==
  ASSUME IInv, NEW p \in Processes, Verdict(p)
  PROVE  IInv'
<1> USE DEF Verdict, files, stageVars, End
<1>1. Shapes'
  BY DEF IInv, Shapes
<1>2. LoadedIsGood'
  BY DEF IInv, Shapes, LoadedIsGood
<1>3. SidecarsSealed' /\ DraftsSealed' /\ ManifestSealed' /\ SeenSealed' /\ RowsAgree'
  BY DEF IInv, SidecarsSealed, DraftsSealed, ManifestSealed, SeenSealed, RowsAgree, Sealed
<1> QED BY <1>1, <1>2, <1>3 DEF IInv

LEMMA KillKeeps ==
  ASSUME IInv, NEW p \in Processes, Kill(p)
  PROVE  IInv'
<1> USE DEF Kill, Lose, files, End
<1>1. Shapes'
  BY DEF IInv, Shapes, Nothing, Unlisted
<1>2. SidecarsSealed' /\ ManifestSealed'
  BY DEF IInv, SidecarsSealed, ManifestSealed, Sealed
<1>3. DraftsSealed'
  BY DEF IInv, Shapes, DraftsSealed, Sealed, Unlisted
<1>4. SeenSealed'
  BY DEF IInv, Shapes, SeenSealed, Sealed, NoManifest, Unlisted
<1>5. RowsAgree'
  BY DEF IInv, Shapes, RowsAgree, Nothing
<1>6. LoadedIsGood'
  BY DEF IInv, Shapes, LoadedIsGood
<1> QED BY <1>1, <1>2, <1>3, <1>4, <1>5, <1>6 DEF IInv

-----------------------------------------------------------------------------
LEMMA NextKeeps == IInv /\ [Next]_vars => IInv'
<1> SUFFICES ASSUME IInv, [Next]_vars PROVE IInv'
  OBVIOUS
<1>1. CASE UNCHANGED vars
  <2>1. Quiet
    BY <1>1 DEF vars, files, stageVars, Quiet, IInv, Shapes
  <2> QED BY <2>1, QuietKeeps
<1>2. ASSUME NEW s \in Shards, Ingest(s) PROVE IInv'
  <2>1. Quiet
    BY <1>2 DEF Ingest, files, stageVars, Quiet, IInv, Shapes
  <2> QED BY <2>1, QuietKeeps
<1>3. ASSUME NEW p \in Processes, Start(p) \/ Stage(p) \/ Finish(p) \/ Kill(p) PROVE IInv'
  BY <1>3, OtherSteps, DescribeKeeps, ListTableKeeps, ManifestKeeps, ReadManifestKeeps,
     ReaderKeeps, VerdictKeeps, KillKeeps DEF Stage
<1> QED BY <1>1, <1>2, <1>3 DEF Next

\* Of every table that Phase 2 takes and the manifest describes, the rows are
\* those of one whole write: what load_inputs promises of artifacts/, whichever
\* runs overlap and wherever they are killed.
THEOREM LoadedWasSealed == Spec => []LoadedTablesWereSealed
<1>1. IInv => LoadedTablesWereSealed
  <2> SUFFICES ASSUME IInv, NEW p \in Processes, outcome[p] = "loaded", NEW t \in Tables,
                      Absent \notin {rows[p][t], Listed(p, t).content}
               PROVE  <<t, rows[p][t]>> \in sealed
    BY DEF LoadedTablesWereSealed
  <2>1. rows[p][t] = seen[p].tables[t].content
    BY DEF IInv, LoadedIsGood, RowsAgree, Listed
  <2> QED BY <2>1 DEF IInv, SeenSealed, Sealed, Listed
<1> QED BY <1>1, InitSealed, NextKeeps, PTL DEF Spec

-----------------------------------------------------------------------------
(* A run that nobody writes beside. Its program is one of two, so the number *)
(* of the steps left says where it is and what it has done. Two things must  *)
(* hold of all processes, alone or not: no copy lies about without its table *)
(* (else Phase 2 would read dependencies that the run never saw), and a      *)
(* process that starts has nothing in its hands.                             *)

\* What is in a table, and in a file.
Stuff == SUBSET (Shards \X Nat)
FileContent == Stuff \union {Torn}

Entries == [content : Stuff, file : FileContent]
Reports == [tables : [Tables -> FileContent], agrees : BOOLEAN]
Manifests == [tables : [Tables -> Entries], quality : Reports, written : BOOLEAN]

OnTable == {"table", "open", "close", "describe", "check", "open_copy", "close_copy", "list",
            "hash", "rows"}
OnAll == {"report", "manifest", "inputs", "verdict"}
AllSteps == [op : {"shard"}, on : Shards] \union [op : OnTable, on : Tables]
              \union [op : OnAll, on : {"all"}]

\* The order of the steps, as far as it matters to a table that is not there:
\* it holds of every end of a program as it does of the whole.
Placed(s, i) ==
  /\ s[i].op = "open_copy" => i + 2 <= Len(s) /\ s[i + 2].op = "list"
  /\ s[i].op = "hash" => i + 1 <= Len(s) /\ s[i + 1].op = "rows"
  /\ i > 1 =>
       /\ s[i] = Step("close", Deps) => s[i - 1] = Step("open", Deps)
       /\ s[i] = Step("open", Deps) => s[i - 1] = Step("shard", "commits")

Chained(s) == \A i \in 1 .. Len(s) : Placed(s, i)

\* No copy without its table: a table that was made is never empty again, since
\* nothing is written that was not read before.
Poised(p) ==
  /\ Chained(left[p])
  /\ left[p] # <<>> /\ Head(left[p]) \in {Step("open", Deps), Step("close", Deps)} =>
       mem[p] # Absent

NoStrayCopy ==
  /\ parquet[Deps] = Absent => artifact[Deps] = Absent
  /\ \A p \in Processes : Poised(p)

\* A process that has not started has nothing in its hands.
Fresh ==
  \A p \in Processes : outcome[p] = "none" =>
    mem[p] = Absent /\ agrees[p] = TRUE /\ draft[p] = Unlisted

\* The last n steps of a program, and the two programs of a run of all stages.
From(s, n) == SubSeq(s, Len(s) - n + 1, Len(s))
Plan(g) == Program(IF g THEN AllStages ELSE AllStages \ {"graph"})

\* A table with its sidecar, and the entry of the manifest that belongs to it.
Stands(t) == parquet[t] = sidecar[t] /\ parquet[t] \in Stuff \ {Absent}
Listing(t) == [content |-> sidecar[t], file |-> parquet[t]]

\* What holds with n steps left, g telling whether the run makes the graph:
\* of the tables ...
Built(p, g, n) ==
  /\ g => /\ n = 36 => mem[p] = Absent
          /\ n \in 32 .. 34 => mem[p] # Absent
          /\ n = 32 => parquet[PRs] = mem[p]
          /\ n <= 31 => Stands(PRs)
          /\ n = 31 => mem[p] = Absent
          /\ n \in 28 .. 30 => mem[p] # Absent
          /\ n = 28 => parquet[Deps] = mem[p]
  /\ ~g => /\ n = 32 => mem[p] = Absent
           /\ n \in 28 .. 30 => mem[p] # Absent
           /\ n = 28 => parquet[PRs] = mem[p]
           /\ Intact(Deps)
  /\ n <= 27 => Stands(PRs) /\ Intact(Deps)
  /\ n = 27 => mem[p] = Absent
  /\ n = 26 => mem[p] = parquet[PRs]
  /\ n \in 23 .. 25 => mem[p] = parquet[PRs] \union parquet[Deps]
  /\ n = 23 => parquet[Arcs] = mem[p]
  /\ n <= 22 => Stands(Arcs) /\ parquet[Arcs] = parquet[PRs] \union parquet[Deps]

\* ... of the report ...
Checked(p, n) ==
  /\ n >= 19 => agrees[p] = TRUE
  /\ n \in 19 .. 21 => checked[p][PRs] = parquet[PRs]
  /\ n \in 19 .. 20 => checked[p][Arcs] = parquet[Arcs]
  /\ n = 19 => checked[p][Deps] = parquet[Deps]
  /\ n <= 18 => quality = [tables |-> parquet, agrees |-> TRUE]

\* ... of the copies and the manifest ...
Copied(p, n) ==
  /\ n <= 16 => artifact[PRs] = parquet[PRs]
  /\ n <= 13 => artifact[Arcs] = parquet[Arcs]
  /\ n <= 10 => artifact[Deps] = parquet[Deps]
  /\ n \in 9 .. 15 => draft[p][PRs] = Listing(PRs)
  /\ n \in 9 .. 12 => draft[p][Arcs] = Listing(Arcs)
  /\ n = 9 => draft[p][Deps] = Listing(Deps)
  /\ n >= 10 => draft[p][Deps] = Unlisted[Deps]
  /\ n <= 8 => manifest = [tables |-> [t \in Tables |-> Listing(t)], quality |-> quality,
                           written |-> TRUE]

\* ... and of what Phase 2 has read.
Taken(p, n) ==
  /\ n <= 7 => seen[p] = manifest /\ bad[p] = FALSE
  /\ n <= 5 => rows[p][PRs] = parquet[PRs]
  /\ n <= 3 => rows[p][Arcs] = parquet[Arcs]
  /\ n = 1 => rows[p][Deps] = parquet[Deps]
  /\ n \in 2 .. 7 => rows[p][Deps] = Absent

Good(p, g, n) == Built(p, g, n) /\ Checked(p, n) /\ Copied(p, n) /\ Taken(p, n)

SoFar(p) ==
  \E g \in BOOLEAN : \E n \in 1 .. Len(Plan(g)) :
    left[p] = From(Plan(g), n) /\ Good(p, g, n)

Whole(p) ==
  /\ rows[p][Arcs] = rows[p][PRs] \union rows[p][Deps]
  /\ seen[p].quality = [tables |-> rows[p], agrees |-> TRUE]

\* The inductive invariant: a run that nobody wrote beside is somewhere in its
\* program and has done what it should have done by then.
Undisturbed ==
  \A p \in Processes : alone[p] = TRUE =>
    /\ outcome[p] # "failed"
    /\ outcome[p] = "running" => SoFar(p)
    /\ outcome[p] = "loaded" => Whole(p)
-----------------------------------------------------------------------------
(* The programs, step by step. *)

\* r is s and then t.
Joint(r, s, t) ==
  /\ r \in Seq(AllSteps) /\ Len(r) = Len(s) + Len(t)
  /\ \A i \in 1 .. Len(s) : r[i] = s[i]
  /\ \A i \in Len(s) + 1 .. Len(s) + Len(t) : r[i] = t[i - Len(s)]

LEMMA Joined == \A s, t \in Seq(AllSteps) : Joint(s \o t, s, t)
BY DEF Joint

LEMMA Pieces ==
  ASSUME NEW t \in Tables
  PROVE  /\ Emit(t) \in Seq(AllSteps) /\ Len(Emit(t)) = 3
         /\ Emit(t)[1] = Step("open", t) /\ Emit(t)[2] = Step("close", t)
         /\ Emit(t)[3] = Step("describe", t)
         /\ Export(t) \in Seq(AllSteps) /\ Len(Export(t)) = 3
         /\ Export(t)[1] = Step("open_copy", t) /\ Export(t)[2] = Step("close_copy", t)
         /\ Export(t)[3] = Step("list", t)
         /\ Load(t) \in Seq(AllSteps) /\ Len(Load(t)) = 2
         /\ Load(t)[1] = Step("hash", t) /\ Load(t)[2] = Step("rows", t)
<1>1. \A op \in OnTable : Step(op, t) \in AllSteps
  BY DEF AllSteps, Step
<1>2. \A a, b \in AllSteps : <<a, b>> \in Seq(AllSteps)
  OBVIOUS
<1>3. \A a, b, c \in AllSteps : <<a, b, c>> \in Seq(AllSteps)
  OBVIOUS
<1>4. /\ Emit(t) \in Seq(AllSteps) /\ Len(Emit(t)) = 3
      /\ Emit(t)[1] = Step("open", t) /\ Emit(t)[2] = Step("close", t)
      /\ Emit(t)[3] = Step("describe", t)
  <2>1. {"open", "close", "describe"} \subseteq OnTable
    BY DEF OnTable
  <2> QED
    BY <1>1, <1>3, <2>1 DEF Emit
<1>5. /\ Export(t) \in Seq(AllSteps) /\ Len(Export(t)) = 3
      /\ Export(t)[1] = Step("open_copy", t) /\ Export(t)[2] = Step("close_copy", t)
      /\ Export(t)[3] = Step("list", t)
  <2>1. {"open_copy", "close_copy", "list"} \subseteq OnTable
    BY DEF OnTable
  <2> QED
    BY <1>1, <1>3, <2>1 DEF Export
<1>6. /\ Load(t) \in Seq(AllSteps) /\ Len(Load(t)) = 2
      /\ Load(t)[1] = Step("hash", t) /\ Load(t)[2] = Step("rows", t)
  <2>1. {"hash", "rows"} \subseteq OnTable
    BY DEF OnTable
  <2> QED
    BY <1>1, <1>2, <2>1 DEF Load
<1> QED
  BY <1>4, <1>5, <1>6

LEMMA NormalizeSteps ==
  /\ Steps("normalize") \in Seq(AllSteps) /\ Len(Steps("normalize")) = 5
  /\ Steps("normalize")[1] = Step("shard", "github")
  /\ Steps("normalize")[2] = Step("shard", "commits")
  /\ Steps("normalize")[3] = Step("open", PRs)
  /\ Steps("normalize")[4] = Step("close", PRs)
  /\ Steps("normalize")[5] = Step("describe", PRs)
<1> DEFINE a == <<Step("shard", "github"), Step("shard", "commits")>>
<1>1. a \in Seq(AllSteps) /\ Len(a) = 2
  BY DEF AllSteps, Step, Shards
<1>2. a[1] = Step("shard", "github") /\ a[2] = Step("shard", "commits")
  OBVIOUS
<1>3. Steps("normalize") = a \o Emit(PRs)
  BY DEF Steps
<1>4. PRs \in Tables
  BY DEF Tables
<1>5. /\ Emit(PRs) \in Seq(AllSteps) /\ Len(Emit(PRs)) = 3
      /\ Emit(PRs)[1] = Step("open", PRs) /\ Emit(PRs)[2] = Step("close", PRs)
      /\ Emit(PRs)[3] = Step("describe", PRs)
  BY <1>4, Pieces
<1> HIDE DEF a
<1>6. Joint(Steps("normalize"), a, Emit(PRs))
  BY <1>1, <1>3, <1>5, Joined
<1> QED
  BY <1>1, <1>2, <1>5, <1>6 DEF Joint

LEMMA GraphSteps ==
  /\ Steps("graph") \in Seq(AllSteps) /\ Len(Steps("graph")) = 4
  /\ Steps("graph")[1] = Step("shard", "commits")
  /\ Steps("graph")[2] = Step("open", Deps)
  /\ Steps("graph")[3] = Step("close", Deps)
  /\ Steps("graph")[4] = Step("describe", Deps)
<1> DEFINE a == <<Step("shard", "commits")>>
<1>1. a \in Seq(AllSteps) /\ Len(a) = 1
  BY DEF AllSteps, Step, Shards
<1>2. a[1] = Step("shard", "commits")
  OBVIOUS
<1>3. Steps("graph") = a \o Emit(Deps)
  BY DEF Steps
<1>4. Deps \in Tables
  BY DEF Tables
<1>5. /\ Emit(Deps) \in Seq(AllSteps) /\ Len(Emit(Deps)) = 3
      /\ Emit(Deps)[1] = Step("open", Deps) /\ Emit(Deps)[2] = Step("close", Deps)
      /\ Emit(Deps)[3] = Step("describe", Deps)
  BY <1>4, Pieces
<1> HIDE DEF a
<1>6. Joint(Steps("graph"), a, Emit(Deps))
  BY <1>1, <1>3, <1>5, Joined
<1> QED
  BY <1>1, <1>2, <1>5, <1>6 DEF Joint

LEMMA FeaturesSteps ==
  /\ Steps("features") \in Seq(AllSteps) /\ Len(Steps("features")) = 5
  /\ Steps("features")[1] = Step("table", PRs)
  /\ Steps("features")[2] = Step("table", Deps)
  /\ Steps("features")[3] = Step("open", Arcs)
  /\ Steps("features")[4] = Step("close", Arcs)
  /\ Steps("features")[5] = Step("describe", Arcs)
<1> DEFINE a == <<Step("table", PRs), Step("table", Deps)>>
<1>1. a \in Seq(AllSteps) /\ Len(a) = 2
  BY DEF AllSteps, OnTable, Step, Tables
<1>2. a[1] = Step("table", PRs) /\ a[2] = Step("table", Deps)
  OBVIOUS
<1>3. Steps("features") = a \o Emit(Arcs)
  BY DEF Steps
<1>4. Arcs \in Tables
  BY DEF Tables
<1>5. /\ Emit(Arcs) \in Seq(AllSteps) /\ Len(Emit(Arcs)) = 3
      /\ Emit(Arcs)[1] = Step("open", Arcs) /\ Emit(Arcs)[2] = Step("close", Arcs)
      /\ Emit(Arcs)[3] = Step("describe", Arcs)
  BY <1>4, Pieces
<1> HIDE DEF a
<1>6. Joint(Steps("features"), a, Emit(Arcs))
  BY <1>1, <1>3, <1>5, Joined
<1> QED
  BY <1>1, <1>2, <1>5, <1>6 DEF Joint

LEMMA ValidateSteps ==
  /\ Steps("validate") \in Seq(AllSteps) /\ Len(Steps("validate")) = 4
  /\ Steps("validate")[1] = Step("check", PRs)
  /\ Steps("validate")[2] = Step("check", Arcs)
  /\ Steps("validate")[3] = Step("check", Deps)
  /\ Steps("validate")[4] = Step("report", "all")
<1>1. Steps("validate") = <<Step("check", PRs), Step("check", Arcs), Step("check", Deps),
                            Step("report", "all")>>
  BY DEF Steps
<1>2. {Step("check", PRs), Step("check", Arcs), Step("check", Deps), Step("report", "all")}
        \subseteq AllSteps
  BY DEF AllSteps, OnTable, OnAll, Step, Tables
<1>3. \A a, b, c, d \in AllSteps : <<a, b, c, d>> \in Seq(AllSteps)
  OBVIOUS
<1>4. Steps("validate") \in Seq(AllSteps)
  BY <1>1, <1>2, <1>3
<1> QED
  BY <1>1, <1>4

LEMMA ExportSteps ==
  /\ Steps("export") \in Seq(AllSteps) /\ Len(Steps("export")) = 10
  /\ Steps("export")[1] = Step("open_copy", PRs)
  /\ Steps("export")[2] = Step("close_copy", PRs)
  /\ Steps("export")[3] = Step("list", PRs)
  /\ Steps("export")[4] = Step("open_copy", Arcs)
  /\ Steps("export")[5] = Step("close_copy", Arcs)
  /\ Steps("export")[6] = Step("list", Arcs)
  /\ Steps("export")[7] = Step("open_copy", Deps)
  /\ Steps("export")[8] = Step("close_copy", Deps)
  /\ Steps("export")[9] = Step("list", Deps)
  /\ Steps("export")[10] = Step("manifest", "all")
<1> DEFINE a == Export(PRs) \o Export(Arcs)
           b == a \o Export(Deps)
           c == <<Step("manifest", "all")>>
<1>1. c \in Seq(AllSteps) /\ Len(c) = 1
  BY DEF AllSteps, OnAll, Step
<1>2. c[1] = Step("manifest", "all")
  OBVIOUS
<1>3. Steps("export") = b \o c
  BY DEF Steps
<1>4. PRs \in Tables /\ Arcs \in Tables /\ Deps \in Tables
  BY DEF Tables
<1>5. /\ Export(PRs) \in Seq(AllSteps) /\ Len(Export(PRs)) = 3
      /\ Export(PRs)[1] = Step("open_copy", PRs) /\ Export(PRs)[2] = Step("close_copy", PRs)
      /\ Export(PRs)[3] = Step("list", PRs)
  BY <1>4, Pieces
<1>6. /\ Export(Arcs) \in Seq(AllSteps) /\ Len(Export(Arcs)) = 3
      /\ Export(Arcs)[1] = Step("open_copy", Arcs) /\ Export(Arcs)[2] = Step("close_copy", Arcs)
      /\ Export(Arcs)[3] = Step("list", Arcs)
  BY <1>4, Pieces
<1>7. /\ Export(Deps) \in Seq(AllSteps) /\ Len(Export(Deps)) = 3
      /\ Export(Deps)[1] = Step("open_copy", Deps) /\ Export(Deps)[2] = Step("close_copy", Deps)
      /\ Export(Deps)[3] = Step("list", Deps)
  BY <1>4, Pieces
<1> HIDE DEF c
<1>8. Joint(a, Export(PRs), Export(Arcs))
  BY <1>5, <1>6, Joined
<1> HIDE DEF a
<1>9. a \in Seq(AllSteps)
  BY <1>8 DEF Joint
<1>10. Joint(b, a, Export(Deps))
  BY <1>7, <1>9, Joined
<1> HIDE DEF b
<1>11. b \in Seq(AllSteps)
  BY <1>10 DEF Joint
<1>12. Joint(Steps("export"), b, c)
  BY <1>1, <1>3, <1>11, Joined
<1>13. /\ Len(a) = 6
       /\ a[1] = Step("open_copy", PRs) /\ a[2] = Step("close_copy", PRs)
       /\ a[3] = Step("list", PRs)
       /\ a[4] = Step("open_copy", Arcs) /\ a[5] = Step("close_copy", Arcs)
       /\ a[6] = Step("list", Arcs)
  BY <1>5, <1>6, <1>8 DEF Joint
<1>14. /\ Len(b) = 9
       /\ \A i \in 1 .. 6 : b[i] = a[i]
       /\ b[7] = Step("open_copy", Deps) /\ b[8] = Step("close_copy", Deps)
       /\ b[9] = Step("list", Deps)
  BY <1>7, <1>10, <1>13 DEF Joint
<1>15. /\ Steps("export") \in Seq(AllSteps) /\ Len(Steps("export")) = 10
       /\ \A i \in 1 .. 9 : Steps("export")[i] = b[i]
       /\ Steps("export")[10] = Step("manifest", "all")
  BY <1>1, <1>2, <1>12, <1>14 DEF Joint
<1> QED
  BY <1>13, <1>14, <1>15

LEMMA Phase2Steps ==
  /\ Steps("phase2") \in Seq(AllSteps) /\ Len(Steps("phase2")) = 8
  /\ Steps("phase2")[1] = Step("inputs", "all")
  /\ Steps("phase2")[2] = Step("hash", PRs)
  /\ Steps("phase2")[3] = Step("rows", PRs)
  /\ Steps("phase2")[4] = Step("hash", Arcs)
  /\ Steps("phase2")[5] = Step("rows", Arcs)
  /\ Steps("phase2")[6] = Step("hash", Deps)
  /\ Steps("phase2")[7] = Step("rows", Deps)
  /\ Steps("phase2")[8] = Step("verdict", "all")
<1> DEFINE a == <<Step("inputs", "all")>>
           b == a \o Load(PRs)
           c == b \o Load(Arcs)
           d == c \o Load(Deps)
           e == <<Step("verdict", "all")>>
<1>1. a \in Seq(AllSteps) /\ Len(a) = 1 /\ e \in Seq(AllSteps) /\ Len(e) = 1
  BY DEF AllSteps, OnAll, Step
<1>2. a[1] = Step("inputs", "all") /\ e[1] = Step("verdict", "all")
  OBVIOUS
<1>3. Steps("phase2") = d \o e
  BY DEF Steps
<1>4. PRs \in Tables /\ Arcs \in Tables /\ Deps \in Tables
  BY DEF Tables
<1>5. /\ Load(PRs) \in Seq(AllSteps) /\ Len(Load(PRs)) = 2
      /\ Load(PRs)[1] = Step("hash", PRs) /\ Load(PRs)[2] = Step("rows", PRs)
  BY <1>4, Pieces
<1>6. /\ Load(Arcs) \in Seq(AllSteps) /\ Len(Load(Arcs)) = 2
      /\ Load(Arcs)[1] = Step("hash", Arcs) /\ Load(Arcs)[2] = Step("rows", Arcs)
  BY <1>4, Pieces
<1>7. /\ Load(Deps) \in Seq(AllSteps) /\ Len(Load(Deps)) = 2
      /\ Load(Deps)[1] = Step("hash", Deps) /\ Load(Deps)[2] = Step("rows", Deps)
  BY <1>4, Pieces
<1> HIDE DEF a, e
<1>8. Joint(b, a, Load(PRs))
  BY <1>1, <1>5, Joined
<1> HIDE DEF b
<1>9. b \in Seq(AllSteps)
  BY <1>8 DEF Joint
<1>10. Joint(c, b, Load(Arcs))
  BY <1>6, <1>9, Joined
<1> HIDE DEF c
<1>11. c \in Seq(AllSteps)
  BY <1>10 DEF Joint
<1>12. Joint(d, c, Load(Deps))
  BY <1>7, <1>11, Joined
<1> HIDE DEF d
<1>13. d \in Seq(AllSteps)
  BY <1>12 DEF Joint
<1>14. Joint(Steps("phase2"), d, e)
  BY <1>1, <1>3, <1>13, Joined
<1>15. /\ Len(b) = 3
       /\ b[1] = Step("inputs", "all") /\ b[2] = Step("hash", PRs) /\ b[3] = Step("rows", PRs)
  BY <1>1, <1>2, <1>5, <1>8 DEF Joint
<1>16. /\ Len(c) = 5
       /\ \A i \in 1 .. 3 : c[i] = b[i]
       /\ c[4] = Step("hash", Arcs) /\ c[5] = Step("rows", Arcs)
  BY <1>6, <1>10, <1>15 DEF Joint
<1>17. /\ Len(d) = 7
       /\ \A i \in 1 .. 5 : d[i] = c[i]
       /\ d[6] = Step("hash", Deps) /\ d[7] = Step("rows", Deps)
  BY <1>7, <1>12, <1>16 DEF Joint
<1>18. /\ Steps("phase2") \in Seq(AllSteps) /\ Len(Steps("phase2")) = 8
       /\ \A i \in 1 .. 7 : Steps("phase2")[i] = d[i]
       /\ Steps("phase2")[8] = Step("verdict", "all")
  BY <1>1, <1>2, <1>14, <1>17 DEF Joint
<1> QED
  BY <1>15, <1>16, <1>17, <1>18

\* The last n steps.
LEMMA Ends ==
  ASSUME NEW s \in Seq(AllSteps), NEW n \in 1 .. Len(s)
  PROVE  /\ From(s, n) \in Seq(AllSteps) /\ From(s, n) # <<>> /\ Len(From(s, n)) = n
         /\ Head(From(s, n)) = s[Len(s) - n + 1]
         /\ Tail(From(s, n)) = From(s, n - 1)
<1>1. From(s, n) \in Seq(AllSteps) /\ Len(From(s, n)) = n
  BY DEF From
<1>2. From(s, n) # <<>>
  BY <1>1
<1>3. Head(From(s, n)) = s[Len(s) - n + 1]
  BY <1>1 DEF From
<1>4. Tail(From(s, n)) = From(s, n - 1)
  BY DEF From
<1> QED
  BY <1>1, <1>2, <1>3, <1>4

LEMMA EndsSkipped ==
  ASSUME NEW s \in Seq(AllSteps), NEW n \in 1 .. Len(s), NEW k \in 1 .. n
  PROVE  SubSeq(From(s, n), k + 1, n) = From(s, n - k)
BY DEF From

\* The step that is next when n are left.
Ahead(g, n) == Plan(g)[Len(Plan(g)) - n + 1]

LEMMA PlanSteps ==
  ASSUME NEW g \in BOOLEAN
  PROVE  /\ Plan(g) \in Seq(AllSteps)
         /\ Len(Plan(g)) = IF g THEN 36 ELSE 32
         /\ \A n \in 1 .. 8 : Ahead(g, n) = Steps("phase2")[9 - n]
         /\ \A n \in 9 .. 18 : Ahead(g, n) = Steps("export")[19 - n]
         /\ \A n \in 19 .. 22 : Ahead(g, n) = Steps("validate")[23 - n]
         /\ \A n \in 23 .. 27 : Ahead(g, n) = Steps("features")[28 - n]
         /\ g => \A n \in 28 .. 31 : Ahead(g, n) = Steps("graph")[32 - n]
         /\ g => \A n \in 32 .. 36 : Ahead(g, n) = Steps("normalize")[37 - n]
         /\ ~g => \A n \in 28 .. 32 : Ahead(g, n) = Steps("normalize")[33 - n]
<1> DEFINE N == Steps("normalize")
           F == Steps("features")
           V == Steps("validate")
           E == Steps("export")
           P == Steps("phase2")
           G == IF g THEN Steps("graph") ELSE <<>>
           a == N \o G
           b == a \o F
           c == b \o V
           d == c \o E
<1>1. Plan(g) = d \o P
  BY DEF Plan, Program, If, AllStages
<1>2. /\ N \in Seq(AllSteps) /\ Len(N) = 5 /\ F \in Seq(AllSteps) /\ Len(F) = 5
      /\ V \in Seq(AllSteps) /\ Len(V) = 4 /\ E \in Seq(AllSteps) /\ Len(E) = 10
      /\ P \in Seq(AllSteps) /\ Len(P) = 8
  BY NormalizeSteps, FeaturesSteps, ValidateSteps, ExportSteps, Phase2Steps
<1>3. G \in Seq(AllSteps) /\ Len(G) = IF g THEN 4 ELSE 0
  <2>1. CASE g
    BY <2>1, GraphSteps
  <2>2. CASE ~g
    BY <2>2
  <2> QED
    BY <2>1, <2>2
<1>4. g => G = Steps("graph")
  OBVIOUS
<1> HIDE DEF N, F, V, E, P, G
<1>5. Joint(a, N, G)
  BY <1>2, <1>3, Joined
<1> HIDE DEF a
<1>6. a \in Seq(AllSteps)
  BY <1>5 DEF Joint
<1>7. Joint(b, a, F)
  BY <1>2, <1>6, Joined
<1> HIDE DEF b
<1>8. b \in Seq(AllSteps)
  BY <1>7 DEF Joint
<1>9. Joint(c, b, V)
  BY <1>2, <1>8, Joined
<1> HIDE DEF c
<1>10. c \in Seq(AllSteps)
  BY <1>9 DEF Joint
<1>11. Joint(d, c, E)
  BY <1>2, <1>10, Joined
<1> HIDE DEF d
<1>12. d \in Seq(AllSteps)
  BY <1>11 DEF Joint
<1>13. Joint(Plan(g), d, P)
  BY <1>1, <1>2, <1>12, Joined
<1> DEFINE k == IF g THEN 4 ELSE 0
<1>14. k \in Nat /\ (g => k = 4) /\ (~g => k = 0) /\ Len(G) = k
  BY <1>3
<1> HIDE DEF k
<1>15. /\ Len(a) = k + 5
       /\ \A i \in 1 .. 5 : a[i] = N[i]
       /\ \A i \in 6 .. k + 5 : a[i] = G[i - 5]
  BY <1>2, <1>5, <1>14 DEF Joint
<1>16. /\ Len(b) = k + 10
       /\ \A i \in 1 .. k + 5 : b[i] = a[i]
       /\ \A i \in k + 6 .. k + 10 : b[i] = F[i - (k + 5)]
  BY <1>2, <1>7, <1>14, <1>15 DEF Joint
<1>17. /\ Len(c) = k + 14
       /\ \A i \in 1 .. k + 10 : c[i] = b[i]
       /\ \A i \in k + 11 .. k + 14 : c[i] = V[i - (k + 10)]
  BY <1>2, <1>9, <1>14, <1>16 DEF Joint
<1>18. /\ Len(d) = k + 24
       /\ \A i \in 1 .. k + 14 : d[i] = c[i]
       /\ \A i \in k + 15 .. k + 24 : d[i] = E[i - (k + 14)]
  BY <1>2, <1>11, <1>14, <1>17 DEF Joint
<1>19. /\ Plan(g) \in Seq(AllSteps) /\ Len(Plan(g)) = k + 32
       /\ \A i \in 1 .. k + 24 : Plan(g)[i] = d[i]
       /\ \A i \in k + 25 .. k + 32 : Plan(g)[i] = P[i - (k + 24)]
  BY <1>2, <1>13, <1>14, <1>18 DEF Joint
<1>20. Len(Plan(g)) = IF g THEN 36 ELSE 32
  BY <1>14, <1>19
<1>21. \A n \in 1 .. k + 32 : Ahead(g, n) = Plan(g)[k + 33 - n]
  BY <1>14, <1>19 DEF Ahead
<1>22. \A n \in 1 .. 8 : Ahead(g, n) = P[9 - n]
  BY <1>14, <1>19, <1>21
<1>23. \A n \in 9 .. 18 : Ahead(g, n) = E[19 - n]
  BY <1>14, <1>18, <1>19, <1>21
<1>24. \A n \in 19 .. 22 : Ahead(g, n) = V[23 - n]
  <2> SUFFICES ASSUME NEW n \in 19 .. 22 PROVE Ahead(g, n) = V[23 - n]
    OBVIOUS
  <2>1. Ahead(g, n) = Plan(g)[k + 33 - n] /\ k + 33 - n \in 1 .. k + 24
    BY <1>14, <1>21
  <2>2. Plan(g)[k + 33 - n] = d[k + 33 - n]
    BY <1>19, <2>1
  <2>3. d[k + 33 - n] = c[k + 33 - n]
    BY <1>14, <1>18
  <2>4. c[k + 33 - n] = V[23 - n]
    BY <1>14, <1>17
  <2> QED
    BY <2>1, <2>2, <2>3, <2>4
<1>25. \A n \in 23 .. 27 : Ahead(g, n) = F[28 - n]
  <2> SUFFICES ASSUME NEW n \in 23 .. 27 PROVE Ahead(g, n) = F[28 - n]
    OBVIOUS
  <2>1. Ahead(g, n) = Plan(g)[k + 33 - n] /\ k + 33 - n \in 1 .. k + 24
    BY <1>14, <1>21
  <2>2. Plan(g)[k + 33 - n] = d[k + 33 - n]
    BY <1>19, <2>1
  <2>3. d[k + 33 - n] = c[k + 33 - n]
    BY <1>14, <1>18
  <2>4. c[k + 33 - n] = b[k + 33 - n]
    BY <1>14, <1>17
  <2>5. b[k + 33 - n] = F[28 - n]
    BY <1>14, <1>16
  <2> QED
    BY <2>1, <2>2, <2>3, <2>4, <2>5
<1>26. g => \A n \in 28 .. 31 : Ahead(g, n) = G[32 - n]
  <2> SUFFICES ASSUME g, NEW n \in 28 .. 31 PROVE Ahead(g, n) = G[32 - n]
    OBVIOUS
  <2>a. k = 4
    BY <1>14
  <2>b. n \in 1 .. k + 32 /\ k + 33 - n \in 1 .. k + 24
    BY <2>a
  <2>1. Ahead(g, n) = Plan(g)[k + 33 - n] /\ k + 33 - n \in 1 .. k + 24
    BY <1>21, <2>b
  <2>2. Plan(g)[k + 33 - n] = d[k + 33 - n]
    BY <1>19, <2>1
  <2>3. d[k + 33 - n] = c[k + 33 - n]
    BY <1>14, <1>18
  <2>4. c[k + 33 - n] = b[k + 33 - n]
    BY <1>14, <1>17
  <2>5. b[k + 33 - n] = a[k + 33 - n]
    BY <1>14, <1>16
  <2>6. a[k + 33 - n] = G[32 - n]
    BY <1>14, <1>15
  <2> QED
    BY <2>1, <2>2, <2>3, <2>4, <2>5, <2>6
<1>27. g => \A n \in 32 .. 36 : Ahead(g, n) = N[37 - n]
  <2> SUFFICES ASSUME g, NEW n \in 32 .. 36 PROVE Ahead(g, n) = N[37 - n]
    OBVIOUS
  <2>a. k = 4
    BY <1>14
  <2>b. n \in 1 .. k + 32 /\ k + 33 - n \in 1 .. k + 24
    BY <2>a
  <2>1. Ahead(g, n) = Plan(g)[k + 33 - n] /\ k + 33 - n \in 1 .. k + 24
    BY <1>21, <2>b
  <2>2. Plan(g)[k + 33 - n] = d[k + 33 - n]
    BY <1>19, <2>1
  <2>3. d[k + 33 - n] = c[k + 33 - n]
    BY <1>14, <1>18
  <2>4. c[k + 33 - n] = b[k + 33 - n]
    BY <1>14, <1>17
  <2>5. b[k + 33 - n] = a[k + 33 - n]
    BY <1>14, <1>16
  <2>6. a[k + 33 - n] = N[37 - n]
    BY <1>14, <1>15
  <2> QED
    BY <2>1, <2>2, <2>3, <2>4, <2>5, <2>6
<1>28. ~g => \A n \in 28 .. 32 : Ahead(g, n) = N[33 - n]
  <2> SUFFICES ASSUME ~g, NEW n \in 28 .. 32 PROVE Ahead(g, n) = N[33 - n]
    OBVIOUS
  <2>a. k = 0
    BY <1>14
  <2>b. n \in 1 .. k + 32 /\ k + 33 - n \in 1 .. k + 24
    BY <2>a
  <2>1. Ahead(g, n) = Plan(g)[k + 33 - n] /\ k + 33 - n \in 1 .. k + 24
    BY <1>21, <2>b
  <2>2. Plan(g)[k + 33 - n] = d[k + 33 - n]
    BY <1>19, <2>1
  <2>3. d[k + 33 - n] = c[k + 33 - n]
    BY <1>14, <1>18
  <2>4. c[k + 33 - n] = b[k + 33 - n]
    BY <1>14, <1>17
  <2>5. b[k + 33 - n] = a[k + 33 - n]
    BY <1>14, <1>16
  <2>6. a[k + 33 - n] = N[33 - n]
    BY <1>14, <1>15
  <2> QED
    BY <2>1, <2>2, <2>3, <2>4, <2>5, <2>6
<1> QED
  BY <1>4, <1>19, <1>20, <1>22, <1>23, <1>24, <1>25, <1>26, <1>27, <1>28 DEF N, F, V, E, P

\* A program whose first step needs no other before it.
Sound(s) ==
  /\ s \in Seq(AllSteps) /\ Chained(s)
  /\ s # <<>> => s[1] \notin {Step("open", Deps), Step("close", Deps)}

LEMMA SoundJoined ==
  ASSUME NEW s, NEW t, Sound(s), Sound(t)
  PROVE  Sound(s \o t)
<1>1. s \in Seq(AllSteps) /\ t \in Seq(AllSteps)
  BY DEF Sound
<1> DEFINE r == s \o t
<1>2. Joint(r, s, t)
  BY <1>1, Joined
<1> HIDE DEF r
<1>3. /\ r \in Seq(AllSteps) /\ Len(r) = Len(s) + Len(t) /\ Len(s) \in Nat /\ Len(t) \in Nat
      /\ \A i \in 1 .. Len(s) : r[i] = s[i]
      /\ \A i \in Len(s) + 1 .. Len(s) + Len(t) : r[i] = t[i - Len(s)]
  BY <1>1, <1>2 DEF Joint
<1>4. ASSUME NEW i \in 1 .. Len(s)
      PROVE  Placed(r, i)
  <2>1. Placed(s, i)
    BY DEF Sound, Chained
  <2>2. r[i] = s[i] /\ (i > 1 => r[i - 1] = s[i - 1])
    BY <1>3
  <2>3. i + 1 <= Len(s) => r[i + 1] = s[i + 1] /\ i + 1 <= Len(r)
    BY <1>3
  <2>4. i + 2 <= Len(s) => r[i + 2] = s[i + 2] /\ i + 2 <= Len(r)
    BY <1>3
  <2> QED
    BY <2>1, <2>2, <2>3, <2>4 DEF Placed
<1>5. ASSUME NEW i \in Len(s) + 1 .. Len(s) + Len(t)
      PROVE  Placed(r, i)
  <2> DEFINE j == i - Len(s)
  <2>1. j \in 1 .. Len(t) /\ r[i] = t[j] /\ i > 0
    BY <1>3
  <2>2. Placed(t, j)
    BY <2>1 DEF Sound, Chained
  <2>3. j + 1 <= Len(t) => r[i + 1] = t[j + 1] /\ i + 1 <= Len(r)
    BY <1>3
  <2>4. j + 2 <= Len(t) => r[i + 2] = t[j + 2] /\ i + 2 <= Len(r)
    BY <1>3
  <2>5. CASE j > 1
    <3>1. r[i - 1] = t[j - 1]
      BY <1>3, <2>5
    <3> QED
      BY <2>1, <2>2, <2>3, <2>4, <2>5, <3>1 DEF Placed
  <2>6. CASE j = 1
    <3>1. t # <<>>
      BY <1>1, <2>1
    <3>2. r[i] \notin {Step("open", Deps), Step("close", Deps)}
      BY <2>1, <2>6, <3>1 DEF Sound
    <3> QED
      BY <2>1, <2>2, <2>3, <2>4, <3>2 DEF Placed
  <2> QED
    BY <2>1, <2>5, <2>6
<1>6. Chained(r)
  BY <1>3, <1>4, <1>5 DEF Chained
<1>7. r # <<>> => r[1] \notin {Step("open", Deps), Step("close", Deps)}
  <2>1. CASE s # <<>>
    <3>1. Len(s) > 0
      BY <1>1, <2>1
    <3> QED
      BY <1>3, <2>1, <3>1 DEF Sound
  <2>2. CASE s = <<>> /\ t # <<>>
    <3>1. Len(s) = 0 /\ Len(t) > 0
      BY <1>1, <2>2
    <3> QED
      BY <1>3, <2>2, <3>1 DEF Sound
  <2>3. CASE s = <<>> /\ t = <<>>
    <3>1. Len(r) = 0
      BY <1>3, <2>3
    <3>2. r = <<>>
      BY <1>3, <3>1
    <3> QED
      BY <3>2
  <2> QED
    BY <2>1, <2>2, <2>3
<1> QED
  BY <1>3, <1>6, <1>7 DEF Sound, r

\* A program that has none of the steps that have a place.
LEMMA PlainSound ==
  ASSUME NEW s \in Seq(AllSteps),
         \A i \in 1 .. Len(s) :
           /\ s[i].op \notin {"open_copy", "hash"}
           /\ s[i] \notin {Step("open", Deps), Step("close", Deps)}
  PROVE  Sound(s)
<1>1. Chained(s)
  BY DEF Chained, Placed
<1>2. s # <<>> => 1 \in 1 .. Len(s)
  OBVIOUS
<1> QED
  BY <1>1, <1>2 DEF Sound

LEMMA Unequal ==
  \A a, b, c, d : (Step(a, b) = Step(c, d)) <=> (a = c /\ b = d)
BY DEF Step

LEMMA StepOp == \A a, b : Step(a, b).op = a /\ Step(a, b).on = b
BY DEF Step

\* Of every run all steps are typed and in their order.
LEMMA ProgramsSound == \A run : Sound(Program(run))
<1>1. Sound(<<>>)
  BY DEF Sound, Chained, Placed
<1>2. Sound(Steps("normalize"))
  <2> DEFINE s == Steps("normalize")
  <2>1. ASSUME NEW i \in 1 .. 5
        PROVE  /\ s[i].op \notin {"open_copy", "hash"}
               /\ s[i] \notin {Step("open", Deps), Step("close", Deps)}
    <3>1. i \in {1, 2, 3, 4, 5}
      OBVIOUS
    <3> HIDE DEF s
    <3> QED
      BY <3>1, NormalizeSteps, Unequal, StepOp DEF s, PRs, Arcs, Deps
  <2>2. s \in Seq(AllSteps) /\ Len(s) = 5
    BY NormalizeSteps
  <2> HIDE DEF s
  <2>3. Sound(s)
    BY <2>1, <2>2, PlainSound
  <2> QED
    BY <2>3 DEF s
<1>3. Sound(Steps("graph"))
  BY GraphSteps DEF Sound, Chained, Placed, Step, PRs, Deps
<1>4. Sound(Steps("features"))
  <2> DEFINE s == Steps("features")
  <2>1. ASSUME NEW i \in 1 .. 5
        PROVE  /\ s[i].op \notin {"open_copy", "hash"}
               /\ s[i] \notin {Step("open", Deps), Step("close", Deps)}
    <3>1. i \in {1, 2, 3, 4, 5}
      OBVIOUS
    <3> HIDE DEF s
    <3> QED
      BY <3>1, FeaturesSteps, Unequal, StepOp DEF s, PRs, Arcs, Deps
  <2>2. s \in Seq(AllSteps) /\ Len(s) = 5
    BY FeaturesSteps
  <2> HIDE DEF s
  <2>3. Sound(s)
    BY <2>1, <2>2, PlainSound
  <2> QED
    BY <2>3 DEF s
<1>5. Sound(Steps("validate"))
  <2> DEFINE s == Steps("validate")
  <2>1. ASSUME NEW i \in 1 .. 4
        PROVE  /\ s[i].op \notin {"open_copy", "hash"}
               /\ s[i] \notin {Step("open", Deps), Step("close", Deps)}
    <3>1. i \in {1, 2, 3, 4}
      OBVIOUS
    <3> HIDE DEF s
    <3> QED
      BY <3>1, ValidateSteps, Unequal, StepOp DEF s, PRs, Arcs, Deps
  <2>2. s \in Seq(AllSteps) /\ Len(s) = 4
    BY ValidateSteps
  <2> HIDE DEF s
  <2>3. Sound(s)
    BY <2>1, <2>2, PlainSound
  <2> QED
    BY <2>3 DEF s
<1>6. Sound(Steps("export"))
  <2> DEFINE s == Steps("export")
  <2>1. s \in Seq(AllSteps) /\ Len(s) = 10
    BY ExportSteps
  <2>2. ASSUME NEW i \in 1 .. 10
        PROVE  Placed(s, i)
    <3>1. CASE i = 1
      BY <2>1, <3>1, ExportSteps, Unequal, StepOp DEF Placed, PRs, Arcs, Deps
    <3>2. CASE i = 2
      BY <2>1, <3>2, ExportSteps, Unequal, StepOp DEF Placed, PRs, Arcs, Deps
    <3>3. CASE i = 3
      BY <2>1, <3>3, ExportSteps, Unequal, StepOp DEF Placed, PRs, Arcs, Deps
    <3>4. CASE i = 4
      BY <2>1, <3>4, ExportSteps, Unequal, StepOp DEF Placed, PRs, Arcs, Deps
    <3>5. CASE i = 5
      BY <2>1, <3>5, ExportSteps, Unequal, StepOp DEF Placed, PRs, Arcs, Deps
    <3>6. CASE i = 6
      BY <2>1, <3>6, ExportSteps, Unequal, StepOp DEF Placed, PRs, Arcs, Deps
    <3>7. CASE i = 7
      BY <2>1, <3>7, ExportSteps, Unequal, StepOp DEF Placed, PRs, Arcs, Deps
    <3>8. CASE i = 8
      BY <2>1, <3>8, ExportSteps, Unequal, StepOp DEF Placed, PRs, Arcs, Deps
    <3>9. CASE i = 9
      BY <2>1, <3>9, ExportSteps, Unequal, StepOp DEF Placed, PRs, Arcs, Deps
    <3>10. CASE i = 10
      BY <2>1, <3>10, ExportSteps, Unequal, StepOp DEF Placed, PRs, Arcs, Deps
    <3> QED
      BY <3>1, <3>2, <3>3, <3>4, <3>5, <3>6, <3>7, <3>8, <3>9, <3>10
  <2>3. s[1] \notin {Step("open", Deps), Step("close", Deps)}
    BY ExportSteps, Unequal
  <2> QED
    BY <2>1, <2>2, <2>3 DEF Sound, Chained
<1>7. Sound(Steps("phase2"))
  <2> DEFINE s == Steps("phase2")
  <2>1. s \in Seq(AllSteps) /\ Len(s) = 8
    BY Phase2Steps
  <2>2. ASSUME NEW i \in 1 .. 8
        PROVE  Placed(s, i)
    <3>1. CASE i = 1
      BY <2>1, <3>1, Phase2Steps, Unequal, StepOp DEF Placed, PRs, Arcs, Deps
    <3>2. CASE i = 2
      BY <2>1, <3>2, Phase2Steps, Unequal, StepOp DEF Placed, PRs, Arcs, Deps
    <3>3. CASE i = 3
      BY <2>1, <3>3, Phase2Steps, Unequal, StepOp DEF Placed, PRs, Arcs, Deps
    <3>4. CASE i = 4
      BY <2>1, <3>4, Phase2Steps, Unequal, StepOp DEF Placed, PRs, Arcs, Deps
    <3>5. CASE i = 5
      BY <2>1, <3>5, Phase2Steps, Unequal, StepOp DEF Placed, PRs, Arcs, Deps
    <3>6. CASE i = 6
      BY <2>1, <3>6, Phase2Steps, Unequal, StepOp DEF Placed, PRs, Arcs, Deps
    <3>7. CASE i = 7
      BY <2>1, <3>7, Phase2Steps, Unequal, StepOp DEF Placed, PRs, Arcs, Deps
    <3>8. CASE i = 8
      BY <2>1, <3>8, Phase2Steps, Unequal, StepOp DEF Placed, PRs, Arcs, Deps
    <3> QED
      BY <3>1, <3>2, <3>3, <3>4, <3>5, <3>6, <3>7, <3>8
  <2>3. s[1] \notin {Step("open", Deps), Step("close", Deps)}
    BY Phase2Steps, Unequal
  <2> QED
    BY <2>1, <2>2, <2>3 DEF Sound, Chained
<1>8. \A run : \A stage \in AllStages : Sound(If(stage, run))
  BY <1>1, <1>2, <1>3, <1>4, <1>5, <1>6, <1>7 DEF If, AllStages
<1> QED
  BY <1>8, SoundJoined DEF Program, AllStages

\* What is left of a program after some of its steps.
LEMMA ChainedEnds ==
  ASSUME NEW s \in Seq(AllSteps), Chained(s), NEW k \in 1 .. Len(s),
         NEW r, r = SubSeq(s, k + 1, Len(s))
  PROVE  /\ Chained(r)
         /\ r # <<>> => k + 1 <= Len(s) /\ Head(r) = s[k + 1]
<1>1. /\ r \in Seq(AllSteps) /\ Len(s) \in Nat /\ Len(r) = Len(s) - k
      /\ \A i \in 1 .. Len(r) : r[i] = s[i + k]
  OBVIOUS
<1>2. ASSUME NEW i \in 1 .. Len(r)
      PROVE  Placed(r, i)
  <2>1. Placed(s, i + k)
    BY <1>1 DEF Chained
  <2>a. i > 1 => i - 1 \in 1 .. Len(r) /\ (i - 1) + k = (i + k) - 1 /\ i + k > 1
    BY <1>1
  <2>2. r[i] = s[i + k] /\ (i > 1 => r[i - 1] = s[(i + k) - 1] /\ i + k > 1)
    <3>1. i > 1 => r[i - 1] = s[(i - 1) + k]
      BY <1>1, <2>a
    <3> QED
      BY <1>1, <2>a, <3>1
  <2>3. (i + k) + 1 <= Len(s) => r[i + 1] = s[(i + k) + 1] /\ i + 1 <= Len(r)
    BY <1>1
  <2>4. (i + k) + 2 <= Len(s) => r[i + 2] = s[(i + k) + 2] /\ i + 2 <= Len(r)
    BY <1>1
  <2> QED
    BY <2>1, <2>2, <2>3, <2>4 DEF Placed
<1>3. Chained(r)
  BY <1>2 DEF Chained
<1>4. r # <<>> => k + 1 <= Len(s) /\ Head(r) = s[k + 1]
  <2> SUFFICES ASSUME r # <<>> PROVE k + 1 <= Len(s) /\ Head(r) = s[k + 1]
    OBVIOUS
  <2>1. r \in Seq(AllSteps)
    BY <1>1
  <2>2. Len(r) # 0
    BY <2>1
  <2>3. Len(r) > 0
    BY <1>1, <2>2
  <2>4. Head(r) = r[1]
    BY <2>1
  <2> QED
    BY <1>1, <2>3, <2>4
<1> QED
  BY <1>3, <1>4

-----------------------------------------------------------------------------
(* Types. *)

Outcomes == {"none", "running", "failed", "finished", "loaded", "killed"}

Located == left \in [Processes -> Seq(AllSteps)] /\ outcome \in [Processes -> Outcomes]

\* The steps that a process has still to do, and those of the others.
LEMMA Onward ==
  ASSUME Located, NEW p \in Processes,
         \/ left[p] # <<>> /\ Done(p)
         \/ \E k \in 1 .. Len(left[p]) : Skip(p, k)
         \/ \E how \in Outcomes : End(p, how)
  PROVE  /\ Located'
         /\ \A q \in Processes \ {p} : left'[q] = left[q] /\ outcome'[q] = outcome[q]
<1>1. left[p] \in Seq(AllSteps)
  BY DEF Located
<1>2. CASE left[p] # <<>> /\ Done(p)
  <2>1. Tail(left[p]) \in Seq(AllSteps)
    BY <1>1, <1>2
  <2> QED
    BY <1>2, <2>1 DEF Done, Located
<1>3. ASSUME NEW k \in 1 .. Len(left[p]), Skip(p, k)
      PROVE  /\ Located'
             /\ \A q \in Processes \ {p} : left'[q] = left[q] /\ outcome'[q] = outcome[q]
  <2>1. SubSeq(left[p], k + 1, Len(left[p])) \in Seq(AllSteps)
    BY <1>1
  <2> QED
    BY <1>3, <2>1 DEF Skip, Located
<1>4. ASSUME NEW how \in Outcomes, End(p, how)
      PROVE  /\ Located'
             /\ \A q \in Processes \ {p} : left'[q] = left[q] /\ outcome'[q] = outcome[q]
  <2>1. <<>> \in Seq(AllSteps)
    OBVIOUS
  <2> QED
    BY <1>4, <2>1 DEF End, Located
<1> QED
  BY <1>2, <1>3, <1>4

LEMMA EndTyped ==
  ASSUME Located, NEW p \in Processes, NEW how \in Outcomes, End(p, how)
  PROVE  Located'
BY Onward

LEMMA PutTyped ==
  ASSUME NEW S, NEW f \in [Processes -> [Tables -> S]], NEW p \in Processes, NEW t \in Tables,
         NEW v \in S
  PROVE  [f EXCEPT ![p][t] = v] \in [Processes -> [Tables -> S]]
<1>1. [f[p] EXCEPT ![t] = v] \in [Tables -> S]
  OBVIOUS
<1> QED
  BY <1>1

LEMMA SkipTyped ==
  ASSUME Located, NEW p \in Processes, NEW k \in Nat, Skip(p, k)
  PROVE  Located'
<1>1. left[p] \in Seq(AllSteps)
  BY DEF Located
<1>2. SubSeq(left[p], k + 1, Len(left[p])) \in Seq(AllSteps)
  BY <1>1
<1> QED
  BY <1>2 DEF Skip, Located

LEMMA NextStep ==
  ASSUME Located, NEW p \in Processes, NEW op, At(p, op)
  PROVE  /\ Head(left[p]) \in AllSteps /\ left[p] # <<>> /\ Head(left[p]) = left[p][1]
         /\ op \in OnTable => On(p) \in Tables
         /\ op = "shard" => On(p) \in Shards
<1>1. left[p] \in Seq(AllSteps) /\ left[p] # <<>> /\ Head(left[p]).op = op
  BY DEF At, Located
<1>2. Head(left[p]) \in AllSteps /\ Head(left[p]) = left[p][1]
  BY <1>1
<1>3. op \in OnTable => On(p) \in Tables
  BY <1>1, <1>2 DEF AllSteps, On, OnTable, OnAll
<1>4. op = "shard" => On(p) \in Shards
  BY <1>1, <1>2 DEF AllSteps, On, OnTable, OnAll
<1> QED
  BY <1>1, <1>2, <1>3, <1>4

Disk ==
  /\ raw \in [Shards -> Nat] /\ ingests \in Nat
  /\ parquet \in [Tables -> FileContent]
  /\ sidecar \in [Tables -> Stuff]
  /\ artifact \in [Tables -> FileContent]
  /\ quality \in Reports
  /\ manifest \in Manifests

Memory ==
  /\ mem \in [Processes -> Stuff]
  /\ checked \in [Processes -> [Tables -> FileContent]]
  /\ agrees \in [Processes -> BOOLEAN]
  /\ draft \in [Processes -> [Tables -> Entries]]
  /\ seen \in [Processes -> Manifests]
  /\ rows \in [Processes -> [Tables -> FileContent]]
  /\ bad \in [Processes -> BOOLEAN]
  /\ alone \in [Processes -> BOOLEAN]

Types == Located /\ Disk /\ Memory

LEMMA Values ==
  /\ Absent \in Stuff /\ Absent \in FileContent /\ Torn \in FileContent /\ Torn \notin Stuff
  /\ Torn # Absent
  /\ Nothing \in [Tables -> FileContent] /\ Nothing \in [Tables -> Stuff]
  /\ Unlisted \in [Tables -> Entries]
  /\ NoReport \in Reports /\ NoManifest \in Manifests
  /\ \A c \in FileContent : c # Torn => c \in Stuff
  /\ \A c \in Stuff : c \in FileContent
<1>1. Absent \in Stuff /\ Torn # Absent
  BY DEF Absent, Stuff, Torn
<1>2. Torn \notin Stuff
  <2>1. <<"torn", 0>> \notin Shards \X Nat
    BY DEF Shards
  <2> QED
    BY <2>1 DEF Torn, Stuff
<1>3. \A c : c \in FileContent <=> c \in Stuff \/ c = Torn
  BY DEF FileContent
<1>4. Nothing \in [Tables -> FileContent] /\ Nothing \in [Tables -> Stuff]
  BY <1>1, <1>3 DEF Nothing
<1>5. Unlisted \in [Tables -> Entries]
  BY <1>1, <1>3 DEF Unlisted, Entries
<1>6. NoReport \in Reports
  BY <1>4 DEF NoReport, Reports
<1>7. NoManifest \in Manifests
  BY <1>5, <1>6 DEF NoManifest, Manifests
<1> QED
  BY <1>1, <1>2, <1>3, <1>4, <1>5, <1>6, <1>7

LEMMA InitTyped == Init => Types
<1> SUFFICES ASSUME Init PROVE Types
  OBVIOUS
<1>1. Made \in [Tables -> Stuff]
  <2>1. {<<"commits", 0>>} \in Stuff /\ Shards \X {0} \in Stuff
    BY DEF Stuff, Shards
  <2> QED
    BY <2>1 DEF Made
<1>2. parquet \in [Tables -> Stuff] /\ sidecar = parquet /\ artifact = parquet
  BY <1>1, Values DEF Init
<1>3. parquet \in [Tables -> FileContent]
  BY <1>2, Values
<1>4. quality \in Reports
  BY <1>3 DEF Init, Reports
<1>5. [t \in Tables |-> [content |-> parquet[t], file |-> parquet[t]]] \in [Tables -> Entries]
  BY <1>2, <1>3 DEF Entries
<1>6. manifest \in Manifests
  BY <1>4, <1>5 DEF Init, Manifests
<1>7. raw \in [Shards -> Nat] /\ ingests \in Nat
  BY DEF Init
<1>8. Located
  <2>1. <<>> \in Seq(AllSteps)
    OBVIOUS
  <2> QED
    BY <2>1 DEF Init, Located, Outcomes
<1>9. Memory
  BY Values DEF Init, Memory
<1> QED
  BY <1>2, <1>3, <1>4, <1>6, <1>7, <1>8, <1>9 DEF Types, Disk

LEMMA StepsTyped ==
  ASSUME Types, NEW p \in Processes, Stage(p)
  PROVE  Types'
<1> USE DEF Types, files, stageVars
<1>1. Located /\ Disk /\ Memory
  OBVIOUS
<1>2. CASE ReadShard(p)
  <2>1. left[p] # <<>> /\ On(p) \in Shards
    BY <1>2, NextStep DEF ReadShard, At
  <2>2. Located'
    BY <1>2, <2>1, Onward DEF ReadShard
  <2>3. mem[p] \union {<<On(p), raw[On(p)]>>} \in Stuff
    BY <2>1 DEF Disk, Memory, Stuff
  <2> QED
    BY <1>2, <2>2, <2>3 DEF ReadShard, Disk, Memory
<1>3. CASE ReadTable(p)
  <2>1. left[p] # <<>> /\ On(p) \in Tables
    BY <1>3, NextStep DEF ReadTable, At, OnTable
  <2>2. Located'
    BY <1>3, <2>1, Onward, EndTyped DEF ReadTable, Outcomes
  <2>3. mem' \in [Processes -> Stuff]
    <3>1. parquet[On(p)] # Torn => mem[p] \union parquet[On(p)] \in Stuff
      <4>1. parquet[On(p)] # Torn => parquet[On(p)] \in Stuff
        BY <2>1, Values DEF Disk
      <4> QED
        BY <4>1 DEF Memory, Stuff
    <3> QED
      BY <1>3, <3>1, Values DEF ReadTable, Memory
  <2> QED
    BY <1>3, <2>2, <2>3 DEF ReadTable, Disk, Memory
<1>4. CASE OpenTable(p)
  <2>1. left[p] # <<>> /\ On(p) \in Tables
    BY <1>4, NextStep DEF OpenTable, At, OnTable
  <2>2. Located'
    BY <1>4, <2>1, Onward DEF OpenTable
  <2> QED
    BY <1>4, <2>2, Values DEF OpenTable, Disk, Memory, Writes
<1>5. CASE CloseTable(p)
  <2>1. left[p] # <<>> /\ On(p) \in Tables
    BY <1>5, NextStep DEF CloseTable, At, OnTable
  <2>2. Located'
    BY <1>5, <2>1, Onward DEF CloseTable
  <2>3. mem[p] \in FileContent
    BY Values DEF Memory
  <2> QED
    BY <1>5, <2>2, <2>3 DEF CloseTable, Disk, Memory, Writes
<1>6. CASE Describe(p)
  <2>1. left[p] # <<>> /\ On(p) \in Tables
    BY <1>6, NextStep DEF Describe, At, OnTable
  <2>2. Located'
    BY <1>6, <2>1, Onward DEF Describe
  <2> QED
    BY <1>6, <2>2, Values DEF Describe, Disk, Memory, Writes
<1>7. CASE CheckTable(p)
  <2>1. left[p] # <<>> /\ On(p) \in Tables
    BY <1>7, NextStep DEF CheckTable, At, OnTable
  <2>2. Located'
    <3>1. CASE parquet[On(p)] # Torn
      BY <1>7, <2>1, <3>1, Onward DEF CheckTable
    <3>2. CASE parquet[On(p)] = Torn
      <4>1. PICK n \in 1 .. Len(left[p]) : left[p][n].op = "report" /\ Skip(p, n)
        BY <1>7, <3>2 DEF CheckTable
      <4> QED
        BY <4>1, SkipTyped
    <3> QED
      BY <3>1, <3>2
  <2>3. checked' \in [Processes -> [Tables -> FileContent]] /\ agrees' \in [Processes -> BOOLEAN]
    <3>1. [checked EXCEPT ![p][On(p)] = parquet[On(p)]] \in [Processes -> [Tables -> FileContent]]
      BY <2>1, PutTyped DEF Disk, Memory
    <3> QED
      BY <1>7, <3>1, Values DEF CheckTable, Memory
  <2> QED
    BY <1>7, <2>2, <2>3 DEF CheckTable, Disk, Memory
<1>8. CASE Report(p)
  <2>1. left[p] # <<>>
    BY <1>8 DEF Report, At
  <2>2. Located'
    BY <1>8, <2>1, Onward DEF Report
  <2>3. quality' \in Reports
    BY <1>8 DEF Report, Reports, Memory
  <2> QED
    BY <1>8, <2>2, <2>3, Values DEF Report, Disk, Memory, Writes
<1>9. CASE OpenCopy(p)
  <2>1. left[p] # <<>> /\ On(p) \in Tables
    BY <1>9, NextStep DEF OpenCopy, At, OnTable
  <2>2. Located'
    BY <1>9, <2>1, Onward, SkipTyped DEF OpenCopy
  <2> QED
    BY <1>9, <2>2, Values DEF OpenCopy, Disk, Memory, Writes
<1>10. CASE CloseCopy(p)
  <2>1. left[p] # <<>> /\ On(p) \in Tables
    BY <1>10, NextStep DEF CloseCopy, At, OnTable
  <2>2. Located'
    BY <1>10, <2>1, Onward DEF CloseCopy
  <2> QED
    BY <1>10, <2>1, <2>2 DEF CloseCopy, Disk, Memory, Writes
<1>11. CASE ListTable(p)
  <2>1. left[p] # <<>> /\ On(p) \in Tables
    BY <1>11, NextStep DEF ListTable, At, OnTable
  <2>2. Located'
    BY <1>11, <2>1, Onward, EndTyped DEF ListTable, Outcomes
  <2>3. [content |-> sidecar[On(p)], file |-> artifact[On(p)]] \in Entries
    BY <2>1 DEF Entries, Disk
  <2>4. draft' \in [Processes -> [Tables -> Entries]]
    <3>1. [draft EXCEPT ![p][On(p)] =
                          [content |-> sidecar[On(p)], file |-> artifact[On(p)]]]
            \in [Processes -> [Tables -> Entries]]
      BY <2>1, <2>3, PutTyped DEF Memory
    <3> QED
      BY <1>11, <3>1, Values DEF ListTable, Memory
  <2> QED
    BY <1>11, <2>2, <2>4 DEF ListTable, Disk, Memory
<1>12. CASE WriteManifest(p)
  <2>1. left[p] # <<>>
    BY <1>12 DEF WriteManifest, At
  <2>2. Located'
    BY <1>12, <2>1, Onward DEF WriteManifest
  <2>3. manifest' \in Manifests
    BY <1>12 DEF WriteManifest, Manifests, Memory, Disk
  <2> QED
    BY <1>12, <2>2, <2>3, Values DEF WriteManifest, Disk, Memory, Writes
<1>13. CASE ReadManifest(p)
  <2>1. left[p] # <<>>
    BY <1>13 DEF ReadManifest, At
  <2>2. Located'
    BY <1>13, <2>1, Onward, EndTyped DEF ReadManifest, Outcomes
  <2> QED
    BY <1>13, <2>2, Values DEF ReadManifest, Disk, Memory
<1>14. CASE HashFile(p)
  <2>1. left[p] # <<>>
    BY <1>14 DEF HashFile, At
  <2>2. Located'
    BY <1>14, <2>1, Onward, SkipTyped DEF HashFile
  <2>3. bad' \in [Processes -> BOOLEAN]
    BY <1>14 DEF HashFile, Memory
  <2> QED
    BY <1>14, <2>2, <2>3 DEF HashFile, Disk, Memory
<1>15. CASE ReadRows(p)
  <2>1. left[p] # <<>> /\ On(p) \in Tables
    BY <1>15, NextStep DEF ReadRows, At, OnTable
  <2>2. Located'
    BY <1>15, <2>1, Onward, EndTyped DEF ReadRows, Outcomes
  <2>3. bad' \in [Processes -> BOOLEAN]
    BY <1>15 DEF ReadRows, Memory
  <2>4. rows' \in [Processes -> [Tables -> FileContent]]
    <3>1. [rows EXCEPT ![p][On(p)] = artifact[On(p)]] \in [Processes -> [Tables -> FileContent]]
      BY <2>1, PutTyped DEF Disk, Memory
    <3> QED
      BY <1>15, <3>1 DEF ReadRows, Memory
  <2> QED
    BY <1>15, <2>2, <2>3, <2>4 DEF ReadRows, Disk, Memory
<1>16. CASE Verdict(p)
  <2>1. Located'
    BY <1>16, EndTyped DEF Verdict, Outcomes
  <2> QED
    BY <1>16, <2>1 DEF Verdict, Disk, Memory
<1> QED
  BY <1>2, <1>3, <1>4, <1>5, <1>6, <1>7, <1>8, <1>9, <1>10, <1>11, <1>12, <1>13, <1>14, <1>15,
     <1>16 DEF Stage

LEMMA NextTyped == Types /\ [Next]_vars => Types'
<1> SUFFICES ASSUME Types, [Next]_vars PROVE Types'
  OBVIOUS
<1> USE DEF Types, files, stageVars
<1>1. CASE UNCHANGED vars
  BY <1>1 DEF vars, Located, Disk, Memory
<1>2. ASSUME NEW p \in Processes, Start(p) PROVE Types'
  <2>1. PICK run \in Runs : left' = [left EXCEPT ![p] = Program(run)]
    BY <1>2 DEF Start
  <2>2. Program(run) \in Seq(AllSteps)
    BY ProgramsSound DEF Sound
  <2>3. Located'
    BY <1>2, <2>1, <2>2 DEF Start, Located, Outcomes
  <2>4. alone' \in [Processes -> BOOLEAN]
    BY <1>2 DEF Start, Memory
  <2> QED
    BY <1>2, <2>3, <2>4 DEF Start, Disk, Memory
<1>3. ASSUME NEW p \in Processes, Finish(p) PROVE Types'
  <2>1. Located'
    BY <1>3, EndTyped DEF Finish, Outcomes
  <2> QED
    BY <1>3, <2>1 DEF Finish, Disk, Memory
<1>4. ASSUME NEW p \in Processes, Kill(p) PROVE Types'
  <2>1. Located'
    BY <1>4, EndTyped DEF Kill, Outcomes
  <2> QED
    BY <1>4, <2>1, Values DEF Kill, Lose, Disk, Memory
<1>5. ASSUME NEW s \in Shards, Ingest(s) PROVE Types'
  BY <1>5 DEF Ingest, Located, Disk, Memory
<1> QED
  BY <1>1, <1>2, <1>3, <1>4, <1>5, StepsTyped DEF Next

-----------------------------------------------------------------------------
(* No copy without its table. *)

LEMMA PoisedStart ==
  ASSUME NEW s, Sound(s)
  PROVE  /\ Chained(s)
         /\ s # <<>> => Head(s) \notin {Step("open", Deps), Step("close", Deps)}
BY DEF Sound

LEMMA DoneInOrder ==
  ASSUME Located, NEW p \in Processes, Chained(left[p]), left[p] # <<>>, Done(p)
  PROVE  /\ Chained(left'[p])
         /\ left'[p] # <<>> =>
              /\ Head(left'[p]) = Step("close", Deps) => Head(left[p]) = Step("open", Deps)
              /\ Head(left'[p]) = Step("open", Deps) => Head(left[p]) = Step("shard", "commits")
<1> DEFINE s == left[p]
<1>1. s \in Seq(AllSteps) /\ s # <<>>
  BY DEF Located
<1>2. left'[p] = Tail(s)
  BY DEF Done, Located
<1> HIDE DEF s
<1>3. 1 \in 1 .. Len(s) /\ Tail(s) = SubSeq(s, 1 + 1, Len(s)) /\ Head(s) = s[1]
  BY <1>1
<1>4. /\ Chained(Tail(s))
      /\ Tail(s) # <<>> => 2 <= Len(s) /\ Head(Tail(s)) = s[2]
  <2> DEFINE r == Tail(s)
             k == 1
  <2>1. r = SubSeq(s, k + 1, Len(s)) /\ k \in 1 .. Len(s) /\ k + 1 = 2
    BY <1>3
  <2>2. Chained(s)
    BY DEF s
  <2> HIDE DEF r, k
  <2>3. Chained(r) /\ (r # <<>> => k + 1 <= Len(s) /\ Head(r) = s[k + 1])
    BY <1>1, <2>1, <2>2, ChainedEnds
  <2> QED
    BY <2>1, <2>3 DEF r
<1>5. Tail(s) # <<>> => Placed(s, 2)
  BY <1>1, <1>4 DEF Chained, s
<1>6. Tail(s) # <<>> =>
        /\ s[2] = Step("close", Deps) => s[1] = Step("open", Deps)
        /\ s[2] = Step("open", Deps) => s[1] = Step("shard", "commits")
  BY <1>5 DEF Placed
<1> QED
  BY <1>2, <1>3, <1>4, <1>6 DEF s

LEMMA SkipInOrder ==
  ASSUME Located, NEW p \in Processes, Chained(left[p]), NEW k \in 1 .. Len(left[p]), Skip(p, k),
         left[p][k].op \in {"list", "rows", "report"}
  PROVE  /\ Chained(left'[p])
         /\ left'[p] # <<>> => Head(left'[p]) \notin {Step("open", Deps), Step("close", Deps)}
<1> DEFINE s == left[p]
<1>1. s \in Seq(AllSteps)
  BY DEF Located
<1>2. left'[p] = SubSeq(s, k + 1, Len(s))
  BY DEF Skip, Located
<1> HIDE DEF s
<1>3. /\ Chained(left'[p])
      /\ left'[p] # <<>> => k + 1 <= Len(s) /\ Head(left'[p]) = s[k + 1]
  BY <1>1, <1>2, ChainedEnds DEF s
<1>4. left'[p] # <<>> => Placed(s, k + 1)
  BY <1>1, <1>3 DEF Chained, s
<1>5. left'[p] # <<>> =>
        /\ s[k + 1] = Step("close", Deps) => s[k] = Step("open", Deps)
        /\ s[k + 1] = Step("open", Deps) => s[k] = Step("shard", "commits")
  BY <1>1, <1>4 DEF Placed, s
<1>6. s[k] # Step("open", Deps) /\ s[k] # Step("shard", "commits")
  BY StepOp DEF s
<1> QED
  BY <1>3, <1>5, <1>6

\* Where a process may skip, it skips to the end of a table or of a stage.
LEMMA Jumps ==
  ASSUME Located, NEW p \in Processes, Chained(left[p])
  PROVE  /\ At(p, "open_copy") => 3 \in 1 .. Len(left[p]) /\ left[p][3].op = "list"
         /\ At(p, "hash") => 2 \in 1 .. Len(left[p]) /\ left[p][2].op = "rows"
<1>1. left[p] \in Seq(AllSteps)
  BY DEF Located
<1>2. ASSUME NEW op, At(p, op)
      PROVE  Placed(left[p], 1) /\ left[p][1].op = op /\ Len(left[p]) \in Nat
  <2>1. left[p] # <<>> /\ Head(left[p]).op = op
    BY <1>2 DEF At
  <2>2. 1 \in 1 .. Len(left[p]) /\ Head(left[p]) = left[p][1]
    BY <1>1, <2>1
  <2> QED
    BY <1>1, <2>1, <2>2 DEF Chained
<1> QED
  BY <1>2 DEF Placed

\* A process that stops, or does not move.
LEMMA PoisedKept ==
  ASSUME Located, NEW q \in Processes, Poised(q),
         left'[q] = <<>> \/ (left'[q] = left[q] /\ mem'[q] = mem[q])
  PROVE  Poised(q)'
<1>1. Chained(<<>>)
  BY DEF Chained, Placed
<1>2. CASE left'[q] = <<>>
  BY <1>1, <1>2 DEF Poised
<1>3. CASE left'[q] = left[q] /\ mem'[q] = mem[q]
  BY <1>3 DEF Poised
<1> QED
  BY <1>2, <1>3

LEMMA OthersPoised ==
  ASSUME Types, NoStrayCopy, NEW p \in Processes, Stage(p)
  PROVE  \A q \in Processes \ {p} : Poised(q)'
<1> SUFFICES ASSUME NEW q \in Processes \ {p} PROVE Poised(q)'
  OBVIOUS
<1>1. left'[q] = left[q]
  BY DEF Stage, ReadShard, ReadTable, OpenTable, CloseTable, Describe, CheckTable, Report,
         OpenCopy, CloseCopy, ListTable, WriteManifest, ReadManifest, HashFile, ReadRows, Verdict,
         Done, Skip, End, Types, Located
<1>2. mem'[q] = mem[q]
  BY DEF Stage, ReadShard, ReadTable, OpenTable, CloseTable, Describe, CheckTable, Report,
         OpenCopy, CloseCopy, ListTable, WriteManifest, ReadManifest, HashFile, ReadRows, Verdict,
         stageVars, Types, Memory
<1> QED
  BY <1>1, <1>2, PoisedKept DEF NoStrayCopy, Types

\* The process that moves.
LEMMA MoverPoised ==
  ASSUME Types, NoStrayCopy, NEW p \in Processes, Stage(p)
  PROVE  Poised(p)'
<1>1. Located /\ Poised(p) /\ Chained(left[p])
  BY DEF Types, NoStrayCopy, Poised
<1>2. ASSUME NEW op, At(p, op), Done(p), mem'[p] = mem[p] \/ op \in {"table", "describe"},
             op # "shard"
      PROVE  Poised(p)'
  <2>1. left[p] # <<>> /\ Head(left[p]).op = op
    BY <1>2 DEF At
  <2>2. /\ Chained(left'[p])
        /\ left'[p] # <<>> =>
             /\ Head(left'[p]) = Step("close", Deps) => Head(left[p]) = Step("open", Deps)
             /\ Head(left'[p]) = Step("open", Deps) => Head(left[p]) = Step("shard", "commits")
    BY <1>1, <1>2, <2>1, DoneInOrder
  <2>3. Head(left[p]) # Step("shard", "commits")
    BY <1>2, <2>1, StepOp
  <2>4. op \in {"table", "describe"} => Head(left[p]) # Step("open", Deps)
    BY <2>1, StepOp
  <2> QED
    BY <1>1, <1>2, <2>1, <2>2, <2>3, <2>4 DEF Poised
<1>3. ASSUME NEW how, End(p, how)
      PROVE  Poised(p)'
  <2>1. left'[p] = <<>>
    BY <1>1, <1>3 DEF End, Located
  <2> QED
    BY <1>1, <2>1, PoisedKept
<1>4. ASSUME NEW k \in 1 .. Len(left[p]), Skip(p, k), left[p][k].op \in {"list", "rows", "report"}
      PROVE  Poised(p)'
  BY <1>1, <1>4, SkipInOrder DEF Poised
<1>5. CASE ReadShard(p)
  <2>1. left[p] # <<>> /\ Head(left[p]).op = "shard"
    BY <1>5 DEF ReadShard, At
  <2>2. /\ Chained(left'[p])
        /\ left'[p] # <<>> /\ Head(left'[p]) = Step("close", Deps) =>
             Head(left[p]) = Step("open", Deps)
    BY <1>1, <1>5, <2>1, DoneInOrder DEF ReadShard
  <2>3. Head(left[p]) # Step("open", Deps)
    BY <2>1, StepOp
  <2>4. mem'[p] # Absent
    BY <1>5 DEF ReadShard, Types, Memory, Absent
  <2> QED
    BY <2>2, <2>3, <2>4 DEF Poised
<1>6. CASE ReadTable(p)
  BY <1>2, <1>3, <1>6 DEF ReadTable
<1>7. CASE OpenTable(p)
  BY <1>2, <1>7 DEF OpenTable, stageVars
<1>8. CASE CloseTable(p)
  BY <1>2, <1>8 DEF CloseTable, stageVars
<1>9. CASE Describe(p)
  BY <1>2, <1>9 DEF Describe
<1>10. CASE CheckTable(p)
  <2>1. CASE parquet[On(p)] # Torn
    BY <1>2, <1>10, <2>1 DEF CheckTable
  <2>2. CASE parquet[On(p)] = Torn
    <3>1. PICK n \in 1 .. Len(left[p]) : left[p][n].op = "report" /\ Skip(p, n)
                             /\ \A i \in 1 .. n - 1 : left[p][i].op = "check"
      BY <1>10, <2>2 DEF CheckTable
    <3> QED
      BY <1>4, <3>1
  <2> QED
    BY <2>1, <2>2
<1>11. CASE Report(p)
  BY <1>2, <1>11 DEF Report
<1>12. CASE OpenCopy(p)
  <2>1. CASE parquet[On(p)] = Absent
    BY <1>1, <1>4, <1>12, <2>1, Jumps DEF OpenCopy
  <2>2. CASE parquet[On(p)] # Absent
    BY <1>2, <1>12, <2>2 DEF OpenCopy, stageVars
  <2> QED
    BY <2>1, <2>2
<1>13. CASE CloseCopy(p)
  BY <1>2, <1>13 DEF CloseCopy, stageVars
<1>14. CASE ListTable(p)
  BY <1>2, <1>3, <1>14 DEF ListTable
<1>15. CASE WriteManifest(p)
  BY <1>2, <1>15 DEF WriteManifest
<1>16. CASE ReadManifest(p)
  BY <1>2, <1>3, <1>16 DEF ReadManifest
<1>17. CASE HashFile(p)
  <2>1. CASE artifact[On(p)] = Absent
    BY <1>1, <1>4, <1>17, <2>1, Jumps DEF HashFile
  <2>2. CASE artifact[On(p)] # Absent
    BY <1>2, <1>17, <2>2 DEF HashFile
  <2> QED
    BY <2>1, <2>2
<1>18. CASE ReadRows(p)
  BY <1>2, <1>3, <1>18 DEF ReadRows
<1>19. CASE Verdict(p)
  BY <1>3, <1>19 DEF Verdict
<1> QED
  BY <1>5, <1>6, <1>7, <1>8, <1>9, <1>10, <1>11, <1>12, <1>13, <1>14, <1>15, <1>16, <1>17,
     <1>18, <1>19 DEF Stage

LEMMA NoCopyStrays ==
  ASSUME Types, NoStrayCopy, NEW p \in Processes, Stage(p)
  PROVE  (parquet[Deps] = Absent => artifact[Deps] = Absent)'
<1>1. Deps \in Tables
  BY DEF Tables
<1> USE DEF files
<1>2. CASE OpenTable(p)
  BY <1>1, <1>2, Values DEF OpenTable, NoStrayCopy, Types, Disk
<1>3. CASE CloseTable(p)
  <2>1. CASE On(p) = Deps
    <3>1. left[p] # <<>> /\ Head(left[p]) \in AllSteps /\ Head(left[p]).op = "close"
      BY <1>3, NextStep DEF CloseTable, Types, At
    <3>2. Head(left[p]) = Step("close", Deps)
      BY <2>1, <3>1 DEF AllSteps, Step, On
    <3>3. mem[p] # Absent
      BY <3>1, <3>2 DEF NoStrayCopy, Poised
    <3> QED
      BY <1>1, <1>3, <2>1, <3>3 DEF CloseTable, Types, Disk
  <2>2. CASE On(p) # Deps
    BY <1>1, <1>3, <2>2 DEF CloseTable, NoStrayCopy, Types, Disk
  <2> QED
    BY <2>1, <2>2
<1>4. CASE OpenCopy(p)
  BY <1>1, <1>4 DEF OpenCopy, NoStrayCopy, Types, Disk
<1>5. CASE CloseCopy(p)
  BY <1>1, <1>5 DEF CloseCopy, NoStrayCopy, Types, Disk
<1>6. CASE parquet' = parquet /\ artifact' = artifact
  BY <1>6 DEF NoStrayCopy
<1>7. \/ OpenTable(p) \/ CloseTable(p) \/ OpenCopy(p) \/ CloseCopy(p)
      \/ parquet' = parquet /\ artifact' = artifact
  BY DEF Stage, ReadShard, ReadTable, Describe, CheckTable, Report, ListTable, WriteManifest,
         ReadManifest, HashFile, ReadRows, Verdict
<1> QED
  BY <1>2, <1>3, <1>4, <1>5, <1>6, <1>7

LEMMA NoneStrays ==
  /\ Init => NoStrayCopy
  /\ Types /\ NoStrayCopy /\ [Next]_vars => NoStrayCopy'
<1>1. Init => NoStrayCopy
  BY DEF Init, NoStrayCopy, Poised, Chained, Placed
<1>2. ASSUME Types, NoStrayCopy, [Next]_vars
      PROVE  NoStrayCopy'
  <2> USE DEF files, stageVars
  <2>0. Located
    BY <1>2 DEF Types
  <2>1. CASE UNCHANGED vars
    BY <1>2, <2>1 DEF vars, NoStrayCopy, Poised
  <2>2. ASSUME NEW p \in Processes, Stage(p) PROVE NoStrayCopy'
    BY <1>2, <2>2, OthersPoised, MoverPoised, NoCopyStrays DEF NoStrayCopy
  <2>3. ASSUME NEW p \in Processes, Start(p) PROVE NoStrayCopy'
    <3>1. PICK run \in Runs : left' = [left EXCEPT ![p] = Program(run)]
      BY <2>3 DEF Start
    <3>2. left'[p] = Program(run) /\ \A q \in Processes \ {p} : left'[q] = left[q]
      BY <2>0, <3>1 DEF Located
    <3>3. Poised(p)'
      BY <3>2, ProgramsSound, PoisedStart DEF Poised
    <3>4. \A q \in Processes \ {p} : Poised(q)'
      BY <1>2, <2>0, <2>3, <3>2, PoisedKept DEF NoStrayCopy, Start
    <3> QED
      BY <1>2, <2>3, <3>3, <3>4 DEF NoStrayCopy, Start
  <2>4. ASSUME NEW p \in Processes, Finish(p) \/ Kill(p) PROVE NoStrayCopy'
    <3>1. left'[p] = <<>> /\ \A q \in Processes \ {p} : left'[q] = left[q] /\ mem'[q] = mem[q]
      BY <1>2, <2>4 DEF Finish, Kill, Lose, End, Types, Located, Memory
    <3>2. \A q \in Processes : Poised(q)'
      BY <1>2, <2>0, <3>1, PoisedKept DEF NoStrayCopy
    <3> QED
      BY <1>2, <2>4, <3>2 DEF NoStrayCopy, Finish, Kill
  <2>5. ASSUME NEW s \in Shards, Ingest(s) PROVE NoStrayCopy'
    BY <1>2, <2>5 DEF Ingest, NoStrayCopy, Poised
  <2> QED
    BY <1>2, <2>1, <2>2, <2>3, <2>4, <2>5 DEF Next
<1> QED
  BY <1>1, <1>2

-----------------------------------------------------------------------------
(* A run that is alone. *)

\* What is next when n steps are left.
Late(n, op, on) ==
  \/ n = 27 /\ op = "table" /\ on = PRs
  \/ n = 26 /\ op = "table" /\ on = Deps
  \/ n = 25 /\ op = "open" /\ on = Arcs
  \/ n = 24 /\ op = "close" /\ on = Arcs
  \/ n = 23 /\ op = "describe" /\ on = Arcs
  \/ n = 22 /\ op = "check" /\ on = PRs
  \/ n = 21 /\ op = "check" /\ on = Arcs
  \/ n = 20 /\ op = "check" /\ on = Deps
  \/ n = 19 /\ op = "report" /\ on = "all"
  \/ n = 18 /\ op = "open_copy" /\ on = PRs
  \/ n = 17 /\ op = "close_copy" /\ on = PRs
  \/ n = 16 /\ op = "list" /\ on = PRs
  \/ n = 15 /\ op = "open_copy" /\ on = Arcs
  \/ n = 14 /\ op = "close_copy" /\ on = Arcs
  \/ n = 13 /\ op = "list" /\ on = Arcs
  \/ n = 12 /\ op = "open_copy" /\ on = Deps
  \/ n = 11 /\ op = "close_copy" /\ on = Deps
  \/ n = 10 /\ op = "list" /\ on = Deps
  \/ n = 9 /\ op = "manifest" /\ on = "all"
  \/ n = 8 /\ op = "inputs" /\ on = "all"
  \/ n = 7 /\ op = "hash" /\ on = PRs
  \/ n = 6 /\ op = "rows" /\ on = PRs
  \/ n = 5 /\ op = "hash" /\ on = Arcs
  \/ n = 4 /\ op = "rows" /\ on = Arcs
  \/ n = 3 /\ op = "hash" /\ on = Deps
  \/ n = 2 /\ op = "rows" /\ on = Deps
  \/ n = 1 /\ op = "verdict" /\ on = "all"

WithGraph(n, op, on) ==
  \/ n = 36 /\ op = "shard" /\ on = "github"
  \/ n = 35 /\ op = "shard" /\ on = "commits"
  \/ n = 34 /\ op = "open" /\ on = PRs
  \/ n = 33 /\ op = "close" /\ on = PRs
  \/ n = 32 /\ op = "describe" /\ on = PRs
  \/ n = 31 /\ op = "shard" /\ on = "commits"
  \/ n = 30 /\ op = "open" /\ on = Deps
  \/ n = 29 /\ op = "close" /\ on = Deps
  \/ n = 28 /\ op = "describe" /\ on = Deps

WithoutGraph(n, op, on) ==
  \/ n = 32 /\ op = "shard" /\ on = "github"
  \/ n = 31 /\ op = "shard" /\ on = "commits"
  \/ n = 30 /\ op = "open" /\ on = PRs
  \/ n = 29 /\ op = "close" /\ on = PRs
  \/ n = 28 /\ op = "describe" /\ on = PRs

Place(g, n, op, on) ==
  Late(n, op, on) \/ (g /\ WithGraph(n, op, on)) \/ (~g /\ WithoutGraph(n, op, on))

LEMMA Places ==
  ASSUME NEW g \in BOOLEAN, NEW n \in 1 .. Len(Plan(g)), NEW a, a = Ahead(g, n)
  PROVE  Place(g, n, a.op, a.on)
<1>0. (g /\ n \in 1 .. 36) \/ (~g /\ n \in 1 .. 32)
  <2>1. Len(Plan(g)) = IF g THEN 36 ELSE 32
    BY PlanSteps
  <2> QED
    BY <2>1
<1>1. ASSUME n \in 1 .. 8 PROVE Late(n, a.op, a.on)
  <2>1. a = Steps("phase2")[9 - n]
    BY <1>1, PlanSteps
  <2>2. CASE n = 1
    <3>1. a = Step("verdict", "all")
      BY <2>1, <2>2, Phase2Steps
    <3>2. a.op = "verdict" /\ a.on = "all"
      BY <3>1, StepOp
    <3> QED
      BY <2>2, <3>2 DEF Late
  <2>3. CASE n = 2
    <3>1. a = Step("rows", Deps)
      BY <2>1, <2>3, Phase2Steps
    <3>2. a.op = "rows" /\ a.on = Deps
      BY <3>1, StepOp
    <3> QED
      BY <2>3, <3>2 DEF Late
  <2>4. CASE n = 3
    <3>1. a = Step("hash", Deps)
      BY <2>1, <2>4, Phase2Steps
    <3>2. a.op = "hash" /\ a.on = Deps
      BY <3>1, StepOp
    <3> QED
      BY <2>4, <3>2 DEF Late
  <2>5. CASE n = 4
    <3>1. a = Step("rows", Arcs)
      BY <2>1, <2>5, Phase2Steps
    <3>2. a.op = "rows" /\ a.on = Arcs
      BY <3>1, StepOp
    <3> QED
      BY <2>5, <3>2 DEF Late
  <2>6. CASE n = 5
    <3>1. a = Step("hash", Arcs)
      BY <2>1, <2>6, Phase2Steps
    <3>2. a.op = "hash" /\ a.on = Arcs
      BY <3>1, StepOp
    <3> QED
      BY <2>6, <3>2 DEF Late
  <2>7. CASE n = 6
    <3>1. a = Step("rows", PRs)
      BY <2>1, <2>7, Phase2Steps
    <3>2. a.op = "rows" /\ a.on = PRs
      BY <3>1, StepOp
    <3> QED
      BY <2>7, <3>2 DEF Late
  <2>8. CASE n = 7
    <3>1. a = Step("hash", PRs)
      BY <2>1, <2>8, Phase2Steps
    <3>2. a.op = "hash" /\ a.on = PRs
      BY <3>1, StepOp
    <3> QED
      BY <2>8, <3>2 DEF Late
  <2>9. CASE n = 8
    <3>1. a = Step("inputs", "all")
      BY <2>1, <2>9, Phase2Steps
    <3>2. a.op = "inputs" /\ a.on = "all"
      BY <3>1, StepOp
    <3> QED
      BY <2>9, <3>2 DEF Late
  <2>10. n \in 1 .. 8
    BY <1>1
  <2> QED
    BY <2>10, <2>2, <2>3, <2>4, <2>5, <2>6, <2>7, <2>8, <2>9
<1>2. ASSUME n \in 9 .. 18 PROVE Late(n, a.op, a.on)
  <2>1. a = Steps("export")[19 - n]
    BY <1>2, PlanSteps
  <2>2. CASE n = 9
    <3>1. a = Step("manifest", "all")
      BY <2>1, <2>2, ExportSteps
    <3>2. a.op = "manifest" /\ a.on = "all"
      BY <3>1, StepOp
    <3> QED
      BY <2>2, <3>2 DEF Late
  <2>3. CASE n = 10
    <3>1. a = Step("list", Deps)
      BY <2>1, <2>3, ExportSteps
    <3>2. a.op = "list" /\ a.on = Deps
      BY <3>1, StepOp
    <3> QED
      BY <2>3, <3>2 DEF Late
  <2>4. CASE n = 11
    <3>1. a = Step("close_copy", Deps)
      BY <2>1, <2>4, ExportSteps
    <3>2. a.op = "close_copy" /\ a.on = Deps
      BY <3>1, StepOp
    <3> QED
      BY <2>4, <3>2 DEF Late
  <2>5. CASE n = 12
    <3>1. a = Step("open_copy", Deps)
      BY <2>1, <2>5, ExportSteps
    <3>2. a.op = "open_copy" /\ a.on = Deps
      BY <3>1, StepOp
    <3> QED
      BY <2>5, <3>2 DEF Late
  <2>6. CASE n = 13
    <3>1. a = Step("list", Arcs)
      BY <2>1, <2>6, ExportSteps
    <3>2. a.op = "list" /\ a.on = Arcs
      BY <3>1, StepOp
    <3> QED
      BY <2>6, <3>2 DEF Late
  <2>7. CASE n = 14
    <3>1. a = Step("close_copy", Arcs)
      BY <2>1, <2>7, ExportSteps
    <3>2. a.op = "close_copy" /\ a.on = Arcs
      BY <3>1, StepOp
    <3> QED
      BY <2>7, <3>2 DEF Late
  <2>8. CASE n = 15
    <3>1. a = Step("open_copy", Arcs)
      BY <2>1, <2>8, ExportSteps
    <3>2. a.op = "open_copy" /\ a.on = Arcs
      BY <3>1, StepOp
    <3> QED
      BY <2>8, <3>2 DEF Late
  <2>9. CASE n = 16
    <3>1. a = Step("list", PRs)
      BY <2>1, <2>9, ExportSteps
    <3>2. a.op = "list" /\ a.on = PRs
      BY <3>1, StepOp
    <3> QED
      BY <2>9, <3>2 DEF Late
  <2>10. CASE n = 17
    <3>1. a = Step("close_copy", PRs)
      BY <2>1, <2>10, ExportSteps
    <3>2. a.op = "close_copy" /\ a.on = PRs
      BY <3>1, StepOp
    <3> QED
      BY <2>10, <3>2 DEF Late
  <2>11. CASE n = 18
    <3>1. a = Step("open_copy", PRs)
      BY <2>1, <2>11, ExportSteps
    <3>2. a.op = "open_copy" /\ a.on = PRs
      BY <3>1, StepOp
    <3> QED
      BY <2>11, <3>2 DEF Late
  <2>12. n \in 9 .. 18
    BY <1>2
  <2> QED
    BY <2>12, <2>2, <2>3, <2>4, <2>5, <2>6, <2>7, <2>8, <2>9, <2>10, <2>11
<1>3. ASSUME n \in 19 .. 22 PROVE Late(n, a.op, a.on)
  <2>1. a = Steps("validate")[23 - n]
    BY <1>3, PlanSteps
  <2>2. CASE n = 19
    <3>1. a = Step("report", "all")
      BY <2>1, <2>2, ValidateSteps
    <3>2. a.op = "report" /\ a.on = "all"
      BY <3>1, StepOp
    <3> QED
      BY <2>2, <3>2 DEF Late
  <2>3. CASE n = 20
    <3>1. a = Step("check", Deps)
      BY <2>1, <2>3, ValidateSteps
    <3>2. a.op = "check" /\ a.on = Deps
      BY <3>1, StepOp
    <3> QED
      BY <2>3, <3>2 DEF Late
  <2>4. CASE n = 21
    <3>1. a = Step("check", Arcs)
      BY <2>1, <2>4, ValidateSteps
    <3>2. a.op = "check" /\ a.on = Arcs
      BY <3>1, StepOp
    <3> QED
      BY <2>4, <3>2 DEF Late
  <2>5. CASE n = 22
    <3>1. a = Step("check", PRs)
      BY <2>1, <2>5, ValidateSteps
    <3>2. a.op = "check" /\ a.on = PRs
      BY <3>1, StepOp
    <3> QED
      BY <2>5, <3>2 DEF Late
  <2>6. n \in 19 .. 22
    BY <1>3
  <2> QED
    BY <2>6, <2>2, <2>3, <2>4, <2>5
<1>4. ASSUME n \in 23 .. 27 PROVE Late(n, a.op, a.on)
  <2>1. a = Steps("features")[28 - n]
    BY <1>4, PlanSteps
  <2>2. CASE n = 23
    <3>1. a = Step("describe", Arcs)
      BY <2>1, <2>2, FeaturesSteps
    <3>2. a.op = "describe" /\ a.on = Arcs
      BY <3>1, StepOp
    <3> QED
      BY <2>2, <3>2 DEF Late
  <2>3. CASE n = 24
    <3>1. a = Step("close", Arcs)
      BY <2>1, <2>3, FeaturesSteps
    <3>2. a.op = "close" /\ a.on = Arcs
      BY <3>1, StepOp
    <3> QED
      BY <2>3, <3>2 DEF Late
  <2>4. CASE n = 25
    <3>1. a = Step("open", Arcs)
      BY <2>1, <2>4, FeaturesSteps
    <3>2. a.op = "open" /\ a.on = Arcs
      BY <3>1, StepOp
    <3> QED
      BY <2>4, <3>2 DEF Late
  <2>5. CASE n = 26
    <3>1. a = Step("table", Deps)
      BY <2>1, <2>5, FeaturesSteps
    <3>2. a.op = "table" /\ a.on = Deps
      BY <3>1, StepOp
    <3> QED
      BY <2>5, <3>2 DEF Late
  <2>6. CASE n = 27
    <3>1. a = Step("table", PRs)
      BY <2>1, <2>6, FeaturesSteps
    <3>2. a.op = "table" /\ a.on = PRs
      BY <3>1, StepOp
    <3> QED
      BY <2>6, <3>2 DEF Late
  <2>7. n \in 23 .. 27
    BY <1>4
  <2> QED
    BY <2>7, <2>2, <2>3, <2>4, <2>5, <2>6
<1>5. ASSUME g, n \in 28 .. 31 PROVE WithGraph(n, a.op, a.on)
  <2>1. a = Steps("graph")[32 - n]
    BY <1>5, PlanSteps
  <2>2. CASE n = 28
    <3>1. a = Step("describe", Deps)
      BY <2>1, <2>2, GraphSteps
    <3>2. a.op = "describe" /\ a.on = Deps
      BY <3>1, StepOp
    <3> QED
      BY <2>2, <3>2 DEF WithGraph
  <2>3. CASE n = 29
    <3>1. a = Step("close", Deps)
      BY <2>1, <2>3, GraphSteps
    <3>2. a.op = "close" /\ a.on = Deps
      BY <3>1, StepOp
    <3> QED
      BY <2>3, <3>2 DEF WithGraph
  <2>4. CASE n = 30
    <3>1. a = Step("open", Deps)
      BY <2>1, <2>4, GraphSteps
    <3>2. a.op = "open" /\ a.on = Deps
      BY <3>1, StepOp
    <3> QED
      BY <2>4, <3>2 DEF WithGraph
  <2>5. CASE n = 31
    <3>1. a = Step("shard", "commits")
      BY <2>1, <2>5, GraphSteps
    <3>2. a.op = "shard" /\ a.on = "commits"
      BY <3>1, StepOp
    <3> QED
      BY <2>5, <3>2 DEF WithGraph
  <2>6. n \in 28 .. 31
    BY <1>5
  <2> QED
    BY <2>6, <2>2, <2>3, <2>4, <2>5
<1>6. ASSUME g, n \in 32 .. 36 PROVE WithGraph(n, a.op, a.on)
  <2>1. a = Steps("normalize")[37 - n]
    BY <1>6, PlanSteps
  <2>2. CASE n = 32
    <3>1. a = Step("describe", PRs)
      BY <2>1, <2>2, NormalizeSteps
    <3>2. a.op = "describe" /\ a.on = PRs
      BY <3>1, StepOp
    <3> QED
      BY <2>2, <3>2 DEF WithGraph
  <2>3. CASE n = 33
    <3>1. a = Step("close", PRs)
      BY <2>1, <2>3, NormalizeSteps
    <3>2. a.op = "close" /\ a.on = PRs
      BY <3>1, StepOp
    <3> QED
      BY <2>3, <3>2 DEF WithGraph
  <2>4. CASE n = 34
    <3>1. a = Step("open", PRs)
      BY <2>1, <2>4, NormalizeSteps
    <3>2. a.op = "open" /\ a.on = PRs
      BY <3>1, StepOp
    <3> QED
      BY <2>4, <3>2 DEF WithGraph
  <2>5. CASE n = 35
    <3>1. a = Step("shard", "commits")
      BY <2>1, <2>5, NormalizeSteps
    <3>2. a.op = "shard" /\ a.on = "commits"
      BY <3>1, StepOp
    <3> QED
      BY <2>5, <3>2 DEF WithGraph
  <2>6. CASE n = 36
    <3>1. a = Step("shard", "github")
      BY <2>1, <2>6, NormalizeSteps
    <3>2. a.op = "shard" /\ a.on = "github"
      BY <3>1, StepOp
    <3> QED
      BY <2>6, <3>2 DEF WithGraph
  <2>7. n \in 32 .. 36
    BY <1>6
  <2> QED
    BY <2>7, <2>2, <2>3, <2>4, <2>5, <2>6
<1>7. ASSUME ~g, n \in 28 .. 32 PROVE WithoutGraph(n, a.op, a.on)
  <2>1. a = Steps("normalize")[33 - n]
    BY <1>7, PlanSteps
  <2>2. CASE n = 28
    <3>1. a = Step("describe", PRs)
      BY <2>1, <2>2, NormalizeSteps
    <3>2. a.op = "describe" /\ a.on = PRs
      BY <3>1, StepOp
    <3> QED
      BY <2>2, <3>2 DEF WithoutGraph
  <2>3. CASE n = 29
    <3>1. a = Step("close", PRs)
      BY <2>1, <2>3, NormalizeSteps
    <3>2. a.op = "close" /\ a.on = PRs
      BY <3>1, StepOp
    <3> QED
      BY <2>3, <3>2 DEF WithoutGraph
  <2>4. CASE n = 30
    <3>1. a = Step("open", PRs)
      BY <2>1, <2>4, NormalizeSteps
    <3>2. a.op = "open" /\ a.on = PRs
      BY <3>1, StepOp
    <3> QED
      BY <2>4, <3>2 DEF WithoutGraph
  <2>5. CASE n = 31
    <3>1. a = Step("shard", "commits")
      BY <2>1, <2>5, NormalizeSteps
    <3>2. a.op = "shard" /\ a.on = "commits"
      BY <3>1, StepOp
    <3> QED
      BY <2>5, <3>2 DEF WithoutGraph
  <2>6. CASE n = 32
    <3>1. a = Step("shard", "github")
      BY <2>1, <2>6, NormalizeSteps
    <3>2. a.op = "shard" /\ a.on = "github"
      BY <3>1, StepOp
    <3> QED
      BY <2>6, <3>2 DEF WithoutGraph
  <2>7. n \in 28 .. 32
    BY <1>7
  <2> QED
    BY <2>7, <2>2, <2>3, <2>4, <2>5, <2>6
<1>8. n \in 1 .. 8 \/ n \in 9 .. 18 \/ n \in 19 .. 22 \/ n \in 23 .. 27
      \/ (g /\ n \in 28 .. 31) \/ (g /\ n \in 32 .. 36) \/ (~g /\ n \in 28 .. 32)
  BY <1>0
<1> QED
  BY <1>1, <1>2, <1>3, <1>4, <1>5, <1>6, <1>7, <1>8 DEF Place

LEMMA FreshAlways ==
  /\ Init => Fresh
  /\ Types /\ Fresh /\ [Next]_vars => Fresh'
<1>1. Init => Fresh
  BY DEF Init, Fresh
<1>2. ASSUME Types, Fresh, [Next]_vars, NEW q \in Processes, outcome'[q] = "none"
      PROVE  /\ outcome[q] = "none"
             /\ mem'[q] = mem[q] /\ agrees'[q] = agrees[q] /\ draft'[q] = draft[q]
  <2> USE DEF files, stageVars, Types, Located, Memory
  <2>1. CASE UNCHANGED vars
    BY <1>2, <2>1 DEF vars
  <2>2. ASSUME NEW p \in Processes, Stage(p)
        PROVE  /\ outcome[q] = "none"
               /\ mem'[q] = mem[q] /\ agrees'[q] = agrees[q] /\ draft'[q] = draft[q]
    <3>1. outcome[p] = "running"
      BY <2>2 DEF Stage, ReadShard, ReadTable, OpenTable, CloseTable, Describe, CheckTable,
         Report, OpenCopy, CloseCopy, ListTable, WriteManifest, ReadManifest, HashFile, ReadRows,
         Verdict, At
    <3>2. /\ outcome'[p] # "none"
          /\ \A r \in Processes \ {p} : outcome'[r] = outcome[r]
      BY <1>2, <2>2, <3>1 DEF Stage, ReadShard, ReadTable, OpenTable, CloseTable, Describe,
         CheckTable, Report, OpenCopy, CloseCopy, ListTable, WriteManifest, ReadManifest,
         HashFile, ReadRows, Verdict, Done, Skip, End
    <3>3. q # p
      BY <1>2, <3>2
    <3>4. mem'[q] = mem[q] /\ agrees'[q] = agrees[q] /\ draft'[q] = draft[q]
      BY <1>2, <2>2, <3>3 DEF Stage, ReadShard, ReadTable, OpenTable, CloseTable, Describe,
         CheckTable, Report, OpenCopy, CloseCopy, ListTable, WriteManifest, ReadManifest,
         HashFile, ReadRows, Verdict
    <3> QED
      BY <1>2, <3>2, <3>3, <3>4
  <2>3. ASSUME NEW p \in Processes, Start(p) \/ Finish(p) \/ Kill(p)
        PROVE  /\ outcome[q] = "none"
               /\ mem'[q] = mem[q] /\ agrees'[q] = agrees[q] /\ draft'[q] = draft[q]
    BY <1>2, <2>3 DEF Start, Finish, Kill, Lose, End
  <2>4. ASSUME NEW s \in Shards, Ingest(s)
        PROVE  /\ outcome[q] = "none"
               /\ mem'[q] = mem[q] /\ agrees'[q] = agrees[q] /\ draft'[q] = draft[q]
    BY <1>2, <2>4 DEF Ingest
  <2> QED
    BY <1>2, <2>1, <2>2, <2>3, <2>4 DEF Next
<1> QED
  BY <1>1, <1>2 DEF Fresh

LEMMA Descend ==
  ASSUME Located, NEW p \in Processes, NEW g \in BOOLEAN, NEW n \in 1 .. Len(Plan(g)),
         left[p] = From(Plan(g), n)
  PROVE  /\ left[p] # <<>> /\ Len(left[p]) = n
         /\ \A op : At(p, op) => Place(g, n, op, On(p))
         /\ Done(p) => left'[p] = From(Plan(g), n - 1)
         /\ \A k \in 1 .. n : Skip(p, k) => left'[p] = From(Plan(g), n - k)
<1>1. Plan(g) \in Seq(AllSteps)
  BY PlanSteps
<1>2. /\ left[p] # <<>> /\ Len(left[p]) = n /\ Head(left[p]) = Ahead(g, n)
      /\ Tail(left[p]) = From(Plan(g), n - 1)
  BY <1>1, Ends DEF Ahead
<1>3. \A op : At(p, op) => Place(g, n, op, On(p))
  BY <1>2, Places DEF At, On
<1>4. Done(p) => left'[p] = From(Plan(g), n - 1)
  BY <1>2 DEF Done, Located
<1>5. ASSUME NEW k \in 1 .. n, Skip(p, k)
      PROVE  left'[p] = From(Plan(g), n - k)
  <2>1. left'[p] = SubSeq(left[p], k + 1, Len(left[p]))
    BY <1>5 DEF Skip, Located
  <2>2. SubSeq(From(Plan(g), n), k + 1, n) = From(Plan(g), n - k)
    BY <1>1, EndsSkipped
  <2> QED
    BY <1>2, <2>1, <2>2
<1> QED
  BY <1>2, <1>3, <1>4, <1>5

LEMMA AloneReadShard ==
  ASSUME Types, NEW p \in Processes, NEW g \in BOOLEAN, NEW n \in Nat, Good(p, g, n),
         ReadShard(p), Place(g, n, "shard", On(p))
  PROVE  n > 1 /\ Good(p, g, n - 1)'
<1>1. \/ g /\ n = 36
      \/ g /\ n = 35
      \/ g /\ n = 31
      \/ ~g /\ n = 32
      \/ ~g /\ n = 31
  BY DEF Place, Late, WithGraph, WithoutGraph, PRs, Arcs, Deps
<1>2. /\ UNCHANGED <<parquet, sidecar, quality, artifact, manifest>>
      /\ UNCHANGED <<checked[p], agrees[p], draft[p], seen[p], rows[p], bad[p]>>
      /\ mem'[p] # Absent
  BY DEF ReadShard, files, Types, Memory, Absent
<1>3. CASE g /\ n = 36
  <2>1. Good(p, g, 35)'
    BY <1>2, <1>3 DEF Good, Built, Checked, Copied, Taken, Stands, Listing, Intact
  <2>2. n = 36
    BY <1>3
  <2>3. n - 1 = 35 /\ n > 1
    BY <2>2
  <2> QED
    BY <2>1, <2>3
<1>4. CASE g /\ n = 35
  <2>1. Good(p, g, 34)'
    BY <1>2, <1>4 DEF Good, Built, Checked, Copied, Taken, Stands, Listing, Intact
  <2>2. n = 35
    BY <1>4
  <2>3. n - 1 = 34 /\ n > 1
    BY <2>2
  <2> QED
    BY <2>1, <2>3
<1>5. CASE g /\ n = 31
  <2>1. Good(p, g, 30)'
    BY <1>2, <1>5 DEF Good, Built, Checked, Copied, Taken, Stands, Listing, Intact
  <2>2. n = 31
    BY <1>5
  <2>3. n - 1 = 30 /\ n > 1
    BY <2>2
  <2> QED
    BY <2>1, <2>3
<1>6. CASE ~g /\ n = 32
  <2>1. Good(p, g, 31)'
    BY <1>2, <1>6 DEF Good, Built, Checked, Copied, Taken, Stands, Listing, Intact
  <2>2. n = 32
    BY <1>6
  <2>3. n - 1 = 31 /\ n > 1
    BY <2>2
  <2> QED
    BY <2>1, <2>3
<1>7. CASE ~g /\ n = 31
  <2>1. Good(p, g, 30)'
    BY <1>2, <1>7 DEF Good, Built, Checked, Copied, Taken, Stands, Listing, Intact
  <2>2. n = 31
    BY <1>7
  <2>3. n - 1 = 30 /\ n > 1
    BY <2>2
  <2> QED
    BY <2>1, <2>3
<1> QED
  BY <1>1, <1>3, <1>4, <1>5, <1>6, <1>7

LEMMA AloneReadTable ==
  ASSUME Types, NEW p \in Processes, NEW g \in BOOLEAN, NEW n \in Nat, Good(p, g, n),
         ReadTable(p), Place(g, n, "table", On(p))
  PROVE  n > 1 /\ Good(p, g, n - 1)'
<1>1. \/ n = 27 /\ On(p) = PRs
      \/ n = 26 /\ On(p) = Deps
  BY DEF Place, Late, WithGraph, WithoutGraph, PRs, Arcs, Deps
<1>2. /\ UNCHANGED <<parquet, sidecar, quality, artifact, manifest>>
      /\ UNCHANGED <<checked[p], agrees[p], draft[p], seen[p], rows[p], bad[p]>>
      /\ mem[p] = Absent => mem'[p] = parquet[On(p)]
      /\ mem'[p] = mem[p] \union parquet[On(p)]
      /\ Done(p)
  <2>1. parquet[On(p)] # Torn
    <3>1. n \in {26, 27} => Stands(PRs) /\ parquet[Deps] # Torn
      BY DEF Good, Built, Intact
    <3> QED
      BY <1>1, <3>1, Values DEF Stands
  <2> QED
    BY <2>1 DEF ReadTable, files, Types, Memory, Absent
<1>3. CASE n = 27 /\ On(p) = PRs
  <2>1. Good(p, g, 26)'
    BY <1>2, <1>3 DEF Good, Built, Checked, Copied, Taken, Stands, Listing, Intact
  <2>2. n = 27
    BY <1>3
  <2>3. n - 1 = 26 /\ n > 1
    BY <2>2
  <2> QED
    BY <2>1, <2>3
<1>4. CASE n = 26 /\ On(p) = Deps
  <2>1. Good(p, g, 25)'
    BY <1>2, <1>4 DEF Good, Built, Checked, Copied, Taken, Stands, Listing, Intact
  <2>2. n = 26
    BY <1>4
  <2>3. n - 1 = 25 /\ n > 1
    BY <2>2
  <2> QED
    BY <2>1, <2>3
<1> QED
  BY <1>1, <1>3, <1>4

LEMMA Names ==
  /\ PRs \in Tables /\ Arcs \in Tables /\ Deps \in Tables
  /\ PRs # Arcs /\ PRs # Deps /\ Arcs # Deps
  /\ \A t \in Tables : t \in {PRs, Arcs, Deps}
BY DEF Tables, PRs, Arcs, Deps

LEMMA AloneOpenTable ==
  ASSUME Types, NEW p \in Processes, NEW g \in BOOLEAN, NEW n \in Nat, Good(p, g, n),
         OpenTable(p), Place(g, n, "open", On(p))
  PROVE  n > 1 /\ Good(p, g, n - 1)'
<1>1. \/ g /\ n = 34 /\ On(p) = PRs
      \/ g /\ n = 30 /\ On(p) = Deps
      \/ ~g /\ n = 30 /\ On(p) = PRs
      \/ n = 25 /\ On(p) = Arcs
  BY DEF Place, Late, WithGraph, WithoutGraph, PRs, Arcs, Deps
<1>2. /\ UNCHANGED <<sidecar, quality, artifact, manifest>>
      /\ UNCHANGED <<mem[p], checked[p], agrees[p], draft[p], seen[p], rows[p], bad[p]>>
      /\ \A t \in Tables \ {On(p)} : parquet'[t] = parquet[t]
  BY <1>1, Names DEF OpenTable, stageVars, Types, Disk
<1>3. CASE g /\ n = 34 /\ On(p) = PRs
  <2>1. Good(p, g, 33)'
    BY <1>2, <1>3, Names, Values DEF Good, Built, Checked, Copied, Taken, Stands, Listing, Intact
  <2>2. n = 34
    BY <1>3
  <2>3. n - 1 = 33 /\ n > 1
    BY <2>2
  <2> QED
    BY <2>1, <2>3
<1>4. CASE g /\ n = 30 /\ On(p) = Deps
  <2>1. Good(p, g, 29)'
    BY <1>2, <1>4, Names, Values DEF Good, Built, Checked, Copied, Taken, Stands, Listing, Intact
  <2>2. n = 30
    BY <1>4
  <2>3. n - 1 = 29 /\ n > 1
    BY <2>2
  <2> QED
    BY <2>1, <2>3
<1>5. CASE ~g /\ n = 30 /\ On(p) = PRs
  <2>1. Good(p, g, 29)'
    BY <1>2, <1>5, Names, Values DEF Good, Built, Checked, Copied, Taken, Stands, Listing, Intact
  <2>2. n = 30
    BY <1>5
  <2>3. n - 1 = 29 /\ n > 1
    BY <2>2
  <2> QED
    BY <2>1, <2>3
<1>6. CASE n = 25 /\ On(p) = Arcs
  <2>1. Good(p, g, 24)'
    BY <1>2, <1>6, Names, Values DEF Good, Built, Checked, Copied, Taken, Stands, Listing, Intact
  <2>2. n = 25
    BY <1>6
  <2>3. n - 1 = 24 /\ n > 1
    BY <2>2
  <2> QED
    BY <2>1, <2>3
<1> QED
  BY <1>1, <1>3, <1>4, <1>5, <1>6

LEMMA AloneCloseTable ==
  ASSUME Types, NEW p \in Processes, NEW g \in BOOLEAN, NEW n \in Nat, Good(p, g, n),
         CloseTable(p), Place(g, n, "close", On(p))
  PROVE  n > 1 /\ Good(p, g, n - 1)'
<1>1. \/ g /\ n = 33 /\ On(p) = PRs
      \/ g /\ n = 29 /\ On(p) = Deps
      \/ ~g /\ n = 29 /\ On(p) = PRs
      \/ n = 24 /\ On(p) = Arcs
  BY DEF Place, Late, WithGraph, WithoutGraph, PRs, Arcs, Deps
<1>2. /\ UNCHANGED <<sidecar, quality, artifact, manifest>>
      /\ UNCHANGED <<mem[p], checked[p], agrees[p], draft[p], seen[p], rows[p], bad[p]>>
      /\ parquet'[On(p)] = mem[p]
      /\ \A t \in Tables \ {On(p)} : parquet'[t] = parquet[t]
  BY <1>1, Names DEF CloseTable, stageVars, Types, Disk
<1>3. CASE g /\ n = 33 /\ On(p) = PRs
  <2>1. Good(p, g, 32)'
    BY <1>2, <1>3, Names, Values DEF Good, Built, Checked, Copied, Taken, Stands, Listing, Intact
  <2>2. n = 33
    BY <1>3
  <2>3. n - 1 = 32 /\ n > 1
    BY <2>2
  <2> QED
    BY <2>1, <2>3
<1>4. CASE g /\ n = 29 /\ On(p) = Deps
  <2>1. Good(p, g, 28)'
    BY <1>2, <1>4, Names, Values DEF Good, Built, Checked, Copied, Taken, Stands, Listing, Intact
  <2>2. n = 29
    BY <1>4
  <2>3. n - 1 = 28 /\ n > 1
    BY <2>2
  <2> QED
    BY <2>1, <2>3
<1>5. CASE ~g /\ n = 29 /\ On(p) = PRs
  <2>1. Good(p, g, 28)'
    BY <1>2, <1>5, Names, Values DEF Good, Built, Checked, Copied, Taken, Stands, Listing, Intact
  <2>2. n = 29
    BY <1>5
  <2>3. n - 1 = 28 /\ n > 1
    BY <2>2
  <2> QED
    BY <2>1, <2>3
<1>6. CASE n = 24 /\ On(p) = Arcs
  <2>1. Good(p, g, 23)'
    BY <1>2, <1>6, Names, Values DEF Good, Built, Checked, Copied, Taken, Stands, Listing, Intact
  <2>2. n = 24
    BY <1>6
  <2>3. n - 1 = 23 /\ n > 1
    BY <2>2
  <2> QED
    BY <2>1, <2>3
<1> QED
  BY <1>1, <1>3, <1>4, <1>5, <1>6

LEMMA AloneDescribe ==
  ASSUME Types, NEW p \in Processes, NEW g \in BOOLEAN, NEW n \in Nat, Good(p, g, n),
         Describe(p), Place(g, n, "describe", On(p))
  PROVE  n > 1 /\ Good(p, g, n - 1)'
<1>1. \/ g /\ n = 32 /\ On(p) = PRs
      \/ g /\ n = 28 /\ On(p) = Deps
      \/ ~g /\ n = 28 /\ On(p) = PRs
      \/ n = 23 /\ On(p) = Arcs
  BY DEF Place, Late, WithGraph, WithoutGraph, PRs, Arcs, Deps
<1>2. /\ UNCHANGED <<parquet, quality, artifact, manifest>>
      /\ UNCHANGED <<checked[p], agrees[p], draft[p], seen[p], rows[p], bad[p]>>
      /\ mem'[p] = Absent /\ mem[p] \in Stuff
      /\ sidecar'[On(p)] = mem[p]
      /\ \A t \in Tables \ {On(p)} : sidecar'[t] = sidecar[t]
      /\ \A c, d \in Stuff : c # Absent => c \union d # Absent
  BY <1>1, Names DEF Describe, Types, Disk, Memory, Absent
<1>3. CASE g /\ n = 32 /\ On(p) = PRs
  <2>1. Good(p, g, 31)'
    BY <1>2, <1>3, Names, Values DEF Good, Built, Checked, Copied, Taken, Stands, Listing, Intact
  <2>2. n = 32
    BY <1>3
  <2>3. n - 1 = 31 /\ n > 1
    BY <2>2
  <2> QED
    BY <2>1, <2>3
<1>4. CASE g /\ n = 28 /\ On(p) = Deps
  <2>1. Good(p, g, 27)'
    BY <1>2, <1>4, Names, Values DEF Good, Built, Checked, Copied, Taken, Stands, Listing, Intact
  <2>2. n = 28
    BY <1>4
  <2>3. n - 1 = 27 /\ n > 1
    BY <2>2
  <2> QED
    BY <2>1, <2>3
<1>5. CASE ~g /\ n = 28 /\ On(p) = PRs
  <2>1. Good(p, g, 27)'
    BY <1>2, <1>5, Names, Values DEF Good, Built, Checked, Copied, Taken, Stands, Listing, Intact
  <2>2. n = 28
    BY <1>5
  <2>3. n - 1 = 27 /\ n > 1
    BY <2>2
  <2> QED
    BY <2>1, <2>3
<1>6. CASE n = 23 /\ On(p) = Arcs
  <2>1. Good(p, g, 22)'
    BY <1>2, <1>6, Names, Values DEF Good, Built, Checked, Copied, Taken, Stands, Listing, Intact
  <2>2. n = 23
    BY <1>6
  <2>3. n - 1 = 22 /\ n > 1
    BY <2>2
  <2> QED
    BY <2>1, <2>3
<1> QED
  BY <1>1, <1>3, <1>4, <1>5, <1>6

LEMMA AloneCheckTable ==
  ASSUME Types, NEW p \in Processes, NEW g \in BOOLEAN, NEW n \in Nat, Good(p, g, n),
         CheckTable(p), Place(g, n, "check", On(p))
  PROVE  n > 1 /\ Good(p, g, n - 1)'
<1>1. \/ n = 22 /\ On(p) = PRs
      \/ n = 21 /\ On(p) = Arcs
      \/ n = 20 /\ On(p) = Deps
  BY DEF Place, Late, WithGraph, WithoutGraph, PRs, Arcs, Deps
<1>2. /\ UNCHANGED <<parquet, sidecar, quality, artifact, manifest>>
      /\ UNCHANGED <<mem[p], draft[p], seen[p], rows[p], bad[p]>>
      /\ Done(p)
      /\ agrees'[p] = TRUE
      /\ checked'[p][On(p)] = parquet[On(p)]
      /\ \A t \in Tables \ {On(p)} : checked'[p][t] = checked[p][t]
  <2>1. parquet[On(p)] # Torn /\ sidecar[On(p)] \in {Absent, parquet[On(p)]} /\ agrees[p] = TRUE
    BY <1>1, Values DEF Good, Built, Checked, Stands, Intact
  <2>2. On(p) \in Tables
    BY <1>1, Names
  <2>3. UNCHANGED <<parquet, sidecar, quality, artifact, manifest, mem, draft, seen, rows, bad>>
    BY DEF CheckTable, files
  <2>4. Done(p) /\ agrees'[p] = TRUE
    BY <2>1 DEF CheckTable, Types, Memory
  <2>5. /\ checked'[p][On(p)] = parquet[On(p)]
        /\ \A t \in Tables \ {On(p)} : checked'[p][t] = checked[p][t]
    <3>1. checked' = [checked EXCEPT ![p][On(p)] = parquet[On(p)]]
      BY <2>1 DEF CheckTable
    <3>2. checked'[p] = [checked[p] EXCEPT ![On(p)] = parquet[On(p)]]
      BY <3>1 DEF Types, Memory
    <3>3. checked[p] \in [Tables -> FileContent]
      BY DEF Types, Memory
    <3> QED
      BY <2>2, <3>2, <3>3
  <2> QED
    BY <2>3, <2>4, <2>5
<1>3. CASE n = 22 /\ On(p) = PRs
  <2>1. Good(p, g, 21)'
    BY <1>2, <1>3, Names, Values DEF Good, Built, Checked, Copied, Taken, Stands, Listing, Intact
  <2>2. n = 22
    BY <1>3
  <2>3. n - 1 = 21 /\ n > 1
    BY <2>2
  <2> QED
    BY <2>1, <2>3
<1>4. CASE n = 21 /\ On(p) = Arcs
  <2>1. Good(p, g, 20)'
    BY <1>2, <1>4, Names, Values DEF Good, Built, Checked, Copied, Taken, Stands, Listing, Intact
  <2>2. n = 21
    BY <1>4
  <2>3. n - 1 = 20 /\ n > 1
    BY <2>2
  <2> QED
    BY <2>1, <2>3
<1>5. CASE n = 20 /\ On(p) = Deps
  <2>1. Good(p, g, 19)'
    BY <1>2, <1>5, Names, Values DEF Good, Built, Checked, Copied, Taken, Stands, Listing, Intact
  <2>2. n = 20
    BY <1>5
  <2>3. n - 1 = 19 /\ n > 1
    BY <2>2
  <2> QED
    BY <2>1, <2>3
<1> QED
  BY <1>1, <1>3, <1>4, <1>5

LEMMA AloneReport ==
  ASSUME Types, NEW p \in Processes, NEW g \in BOOLEAN, NEW n \in Nat, Good(p, g, n),
         Report(p), Place(g, n, "report", On(p))
  PROVE  n > 1 /\ Good(p, g, n - 1)'
<1>1. \/ n = 19
  BY DEF Place, Late, WithGraph, WithoutGraph, PRs, Arcs, Deps
<1>2. /\ UNCHANGED <<parquet, sidecar, artifact, manifest>>
      /\ UNCHANGED <<mem[p], draft[p], seen[p], rows[p], bad[p]>>
      /\ n = 19 => quality' = [tables |-> parquet, agrees |-> TRUE]
  <2>1. ASSUME n = 19 PROVE checked[p] = parquet /\ agrees[p] = TRUE
    <3>1. \A t \in Tables : checked[p][t] = parquet[t]
      BY <2>1, Names DEF Good, Checked
    <3>2. checked[p] \in [Tables -> FileContent] /\ parquet \in [Tables -> FileContent]
      BY DEF Types, Memory, Disk
    <3> QED
      BY <2>1, <3>1, <3>2 DEF Good, Checked
  <2>2. quality' = [tables |-> checked[p], agrees |-> agrees[p]]
    BY DEF Report
  <2>3. UNCHANGED <<parquet, sidecar, artifact, manifest, mem, draft, seen, rows, bad>>
    BY DEF Report
  <2> QED
    BY <2>1, <2>2, <2>3
<1>3. CASE n = 19
  <2>1. Good(p, g, 18)'
    BY <1>2, <1>3 DEF Good, Built, Checked, Copied, Taken, Stands, Listing, Intact
  <2>2. n = 19
    BY <1>3
  <2>3. n - 1 = 18 /\ n > 1
    BY <2>2
  <2> QED
    BY <2>1, <2>3
<1> QED
  BY <1>1, <1>3

LEMMA AloneOpenCopy ==
  ASSUME Types, NEW p \in Processes, NEW g \in BOOLEAN, NEW n \in Nat, Good(p, g, n),
         OpenCopy(p), Place(g, n, "open_copy", On(p)), parquet[On(p)] # Absent
  PROVE  n > 1 /\ Good(p, g, n - 1)'
<1>1. \/ n = 18 /\ On(p) = PRs
      \/ n = 15 /\ On(p) = Arcs
      \/ n = 12 /\ On(p) = Deps
  BY DEF Place, Late, WithGraph, WithoutGraph, PRs, Arcs, Deps
<1>2. /\ UNCHANGED <<parquet, sidecar, quality, manifest>>
      /\ UNCHANGED <<mem[p], checked[p], agrees[p], draft[p], seen[p], rows[p], bad[p]>>
      /\ Done(p)
      /\ \A t \in Tables \ {On(p)} : artifact'[t] = artifact[t]
  BY <1>1, Names DEF OpenCopy, stageVars, Types, Disk
<1>3. CASE n = 18 /\ On(p) = PRs
  <2>1. Good(p, g, 17)'
    BY <1>2, <1>3, Names, Values DEF Good, Built, Checked, Copied, Taken, Stands, Listing, Intact
  <2>2. n = 18
    BY <1>3
  <2>3. n - 1 = 17 /\ n > 1
    BY <2>2
  <2> QED
    BY <2>1, <2>3
<1>4. CASE n = 15 /\ On(p) = Arcs
  <2>1. Good(p, g, 14)'
    BY <1>2, <1>4, Names, Values DEF Good, Built, Checked, Copied, Taken, Stands, Listing, Intact
  <2>2. n = 15
    BY <1>4
  <2>3. n - 1 = 14 /\ n > 1
    BY <2>2
  <2> QED
    BY <2>1, <2>3
<1>5. CASE n = 12 /\ On(p) = Deps
  <2>1. Good(p, g, 11)'
    BY <1>2, <1>5, Names, Values DEF Good, Built, Checked, Copied, Taken, Stands, Listing, Intact
  <2>2. n = 12
    BY <1>5
  <2>3. n - 1 = 11 /\ n > 1
    BY <2>2
  <2> QED
    BY <2>1, <2>3
<1> QED
  BY <1>1, <1>3, <1>4, <1>5

LEMMA AloneCloseCopy ==
  ASSUME Types, NEW p \in Processes, NEW g \in BOOLEAN, NEW n \in Nat, Good(p, g, n),
         CloseCopy(p), Place(g, n, "close_copy", On(p))
  PROVE  n > 1 /\ Good(p, g, n - 1)'
<1>1. \/ n = 17 /\ On(p) = PRs
      \/ n = 14 /\ On(p) = Arcs
      \/ n = 11 /\ On(p) = Deps
  BY DEF Place, Late, WithGraph, WithoutGraph, PRs, Arcs, Deps
<1>2. /\ UNCHANGED <<parquet, sidecar, quality, manifest>>
      /\ UNCHANGED <<mem[p], checked[p], agrees[p], draft[p], seen[p], rows[p], bad[p]>>
      /\ artifact'[On(p)] = parquet[On(p)]
      /\ \A t \in Tables \ {On(p)} : artifact'[t] = artifact[t]
  BY <1>1, Names DEF CloseCopy, stageVars, Types, Disk
<1>3. CASE n = 17 /\ On(p) = PRs
  <2>1. Good(p, g, 16)'
    BY <1>2, <1>3, Names, Values DEF Good, Built, Checked, Copied, Taken, Stands, Listing, Intact
  <2>2. n = 17
    BY <1>3
  <2>3. n - 1 = 16 /\ n > 1
    BY <2>2
  <2> QED
    BY <2>1, <2>3
<1>4. CASE n = 14 /\ On(p) = Arcs
  <2>1. Good(p, g, 13)'
    BY <1>2, <1>4, Names, Values DEF Good, Built, Checked, Copied, Taken, Stands, Listing, Intact
  <2>2. n = 14
    BY <1>4
  <2>3. n - 1 = 13 /\ n > 1
    BY <2>2
  <2> QED
    BY <2>1, <2>3
<1>5. CASE n = 11 /\ On(p) = Deps
  <2>1. Good(p, g, 10)'
    BY <1>2, <1>5, Names, Values DEF Good, Built, Checked, Copied, Taken, Stands, Listing, Intact
  <2>2. n = 11
    BY <1>5
  <2>3. n - 1 = 10 /\ n > 1
    BY <2>2
  <2> QED
    BY <2>1, <2>3
<1> QED
  BY <1>1, <1>3, <1>4, <1>5

LEMMA AloneListTable ==
  ASSUME Types, NEW p \in Processes, NEW g \in BOOLEAN, NEW n \in Nat, Good(p, g, n),
         ListTable(p), Place(g, n, "list", On(p))
  PROVE  n > 1 /\ Good(p, g, n - 1)'
<1>1. \/ n = 16 /\ On(p) = PRs
      \/ n = 13 /\ On(p) = Arcs
      \/ n = 10 /\ On(p) = Deps
  BY DEF Place, Late, WithGraph, WithoutGraph, PRs, Arcs, Deps
<1>2. /\ UNCHANGED <<parquet, sidecar, quality, artifact, manifest>>
      /\ UNCHANGED <<mem[p], checked[p], agrees[p], seen[p], rows[p], bad[p]>>
      /\ Done(p)
      /\ draft'[p][On(p)] = Listing(On(p))
      /\ \A t \in Tables \ {On(p)} : draft'[p][t] = draft[p][t]
  <2>1. artifact[On(p)] = parquet[On(p)] /\ parquet[On(p)] # Torn
    BY <1>1, Values DEF Good, Built, Copied, Stands, Intact
  <2>2. On(p) \in Tables
    BY <1>1, Names
  <2>3. UNCHANGED <<parquet, sidecar, quality, artifact, manifest, mem, checked, agrees, seen, rows,
                    bad>>
    BY DEF ListTable, files
  <2>4. Done(p)
    BY <2>1 DEF ListTable
  <2>5. /\ draft'[p][On(p)] = [content |-> sidecar[On(p)], file |-> artifact[On(p)]]
        /\ \A t \in Tables \ {On(p)} : draft'[p][t] = draft[p][t]
    <3>1. draft' = [draft EXCEPT ![p][On(p)] =
                          [content |-> sidecar[On(p)], file |-> artifact[On(p)]]]
      BY <2>1 DEF ListTable
    <3>2. draft'[p] = [draft[p] EXCEPT ![On(p)] =
                            [content |-> sidecar[On(p)], file |-> artifact[On(p)]]]
      BY <3>1 DEF Types, Memory
    <3>3. draft[p] \in [Tables -> Entries]
      BY DEF Types, Memory
    <3> QED
      BY <2>2, <3>2, <3>3
  <2>6. draft'[p][On(p)] = Listing(On(p))
    BY <2>1, <2>5 DEF Listing
  <2> QED
    BY <2>3, <2>4, <2>5, <2>6
<1>3. CASE n = 16 /\ On(p) = PRs
  <2>1. Good(p, g, 15)'
    BY <1>2, <1>3, Names, Values DEF Good, Built, Checked, Copied, Taken, Stands, Listing, Intact
  <2>2. n = 16
    BY <1>3
  <2>3. n - 1 = 15 /\ n > 1
    BY <2>2
  <2> QED
    BY <2>1, <2>3
<1>4. CASE n = 13 /\ On(p) = Arcs
  <2>1. Good(p, g, 12)'
    BY <1>2, <1>4, Names, Values DEF Good, Built, Checked, Copied, Taken, Stands, Listing, Intact
  <2>2. n = 13
    BY <1>4
  <2>3. n - 1 = 12 /\ n > 1
    BY <2>2
  <2> QED
    BY <2>1, <2>3
<1>5. CASE n = 10 /\ On(p) = Deps
  <2>1. Good(p, g, 9)'
    BY <1>2, <1>5, Names, Values DEF Good, Built, Checked, Copied, Taken, Stands, Listing, Intact
  <2>2. n = 10
    BY <1>5
  <2>3. n - 1 = 9 /\ n > 1
    BY <2>2
  <2> QED
    BY <2>1, <2>3
<1> QED
  BY <1>1, <1>3, <1>4, <1>5

LEMMA AloneWriteManifest ==
  ASSUME Types, NEW p \in Processes, NEW g \in BOOLEAN, NEW n \in Nat, Good(p, g, n),
         WriteManifest(p), Place(g, n, "manifest", On(p))
  PROVE  n > 1 /\ Good(p, g, n - 1)'
<1>1. \/ n = 9
  BY DEF Place, Late, WithGraph, WithoutGraph, PRs, Arcs, Deps
<1>2. /\ UNCHANGED <<parquet, sidecar, quality, artifact>>
      /\ UNCHANGED <<mem[p], checked[p], agrees[p], seen[p], rows[p], bad[p]>>
      /\ n = 9 => manifest' = [tables |-> [t \in Tables |-> Listing(t)], quality |-> quality,
                                written |-> TRUE]
  <2>1. ASSUME n = 9 PROVE draft[p] = [t \in Tables |-> Listing(t)]
    <3>1. \A t \in Tables : draft[p][t] = Listing(t)
      BY <2>1, Names DEF Good, Copied
    <3>2. draft[p] \in [Tables -> Entries]
      BY DEF Types, Memory
    <3> QED
      BY <3>1, <3>2
  <2>2. manifest' = [tables |-> draft[p], quality |-> quality, written |-> TRUE]
    BY DEF WriteManifest
  <2>3. UNCHANGED <<parquet, sidecar, quality, artifact, mem, checked, agrees, seen, rows, bad>>
    BY DEF WriteManifest
  <2> QED
    BY <2>1, <2>2, <2>3
<1>3. CASE n = 9
  <2>1. Good(p, g, 8)'
    BY <1>2, <1>3 DEF Good, Built, Checked, Copied, Taken, Stands, Listing, Intact
  <2>2. n = 9
    BY <1>3
  <2>3. n - 1 = 8 /\ n > 1
    BY <2>2
  <2> QED
    BY <2>1, <2>3
<1> QED
  BY <1>1, <1>3

LEMMA AloneReadManifest ==
  ASSUME Types, NEW p \in Processes, NEW g \in BOOLEAN, NEW n \in Nat, Good(p, g, n),
         ReadManifest(p), Place(g, n, "inputs", On(p))
  PROVE  n > 1 /\ Good(p, g, n - 1)'
<1>1. \/ n = 8
  BY DEF Place, Late, WithGraph, WithoutGraph, PRs, Arcs, Deps
<1>2. /\ UNCHANGED <<parquet, sidecar, quality, artifact, manifest>>
      /\ UNCHANGED <<mem[p], checked[p], agrees[p], draft[p]>>
      /\ Done(p)
      /\ seen'[p] = manifest /\ bad'[p] = FALSE /\ rows'[p][Deps] = Absent
  <2>1. manifest.written
    BY <1>1 DEF Good, Copied
  <2> QED
    BY <2>1, Names DEF ReadManifest, files, Types, Memory, Nothing
<1>3. CASE n = 8
  <2>1. Good(p, g, 7)'
    BY <1>2, <1>3, Names, Values DEF Good, Built, Checked, Copied, Taken, Stands, Listing, Intact
  <2>2. n = 8
    BY <1>3
  <2>3. n - 1 = 7 /\ n > 1
    BY <2>2
  <2> QED
    BY <2>1, <2>3
<1> QED
  BY <1>1, <1>3

LEMMA TwoAtMost ==
  ASSUME NEW a, NEW b, NEW c, b = c
  PROVE  Cardinality({a, b, c}) # 3
<1>1. {a, b, c} = {a} \union {b}
  OBVIOUS
<1>2. IsFiniteSet({a}) /\ Cardinality({a}) = 1 /\ IsFiniteSet({b}) /\ Cardinality({b}) = 1
  BY FS_Singleton
<1>3. CASE a = b
  BY <1>1, <1>2, <1>3
<1>4. CASE a # b
  <2>1. {a} \intersect {b} = {}
    BY <1>4
  <2>2. Cardinality({a} \union {b}) = 1 + 1 - Cardinality({a} \intersect {b})
    BY <1>2, FS_Union
  <2>3. Cardinality({a} \intersect {b}) = 0
    BY <2>1, FS_EmptySet
  <2> QED
    BY <1>1, <2>2, <2>3
<1> QED
  BY <1>3, <1>4

\* What the reader finds is what the manifest says of it.
LEMMA AloneAgrees ==
  ASSUME Types, NEW p \in Processes, NEW g \in BOOLEAN, NEW n \in 1 .. 7, Good(p, g, n),
         NEW t \in Tables
  PROVE  /\ artifact[t] = parquet[t] /\ artifact[t] # Torn /\ sidecar[t] \in {Absent, parquet[t]}
         /\ Listed(p, t) = Listing(t)
         /\ t # Deps => artifact[t] # Absent
         /\ bad[p] = FALSE
<1>1. t \in {PRs, Arcs, Deps}
  BY Names
<1>2. artifact[t] = parquet[t]
  BY <1>1 DEF Good, Copied
<1>3. Stands(PRs) /\ Stands(Arcs) /\ Intact(Deps)
  BY DEF Good, Built
<1>4. parquet[t] # Torn /\ sidecar[t] \in {Absent, parquet[t]} /\ (t # Deps => parquet[t] # Absent)
  BY <1>1, <1>3, Values DEF Stands, Intact
<1>5. seen[p] = manifest /\ bad[p] = FALSE
  BY DEF Good, Taken
<1>6. manifest = [tables |-> [k \in Tables |-> Listing(k)], quality |-> quality, written |-> TRUE]
  BY DEF Good, Copied
<1>7. Listed(p, t) = Listing(t)
  BY <1>5, <1>6 DEF Listed
<1> QED
  BY <1>2, <1>4, <1>5, <1>7

LEMMA AloneHashFile ==
  ASSUME Types, NEW p \in Processes, NEW g \in BOOLEAN, NEW n \in Nat, Good(p, g, n),
         HashFile(p), Place(g, n, "hash", On(p)), artifact[On(p)] # Absent
  PROVE  n > 1 /\ Good(p, g, n - 1)'
<1>1. \/ n = 7 /\ On(p) = PRs
      \/ n = 5 /\ On(p) = Arcs
      \/ n = 3 /\ On(p) = Deps
  BY DEF Place, Late, WithGraph, WithoutGraph, PRs, Arcs, Deps
<1>2. /\ UNCHANGED <<parquet, sidecar, quality, artifact, manifest>>
      /\ UNCHANGED <<mem[p], checked[p], agrees[p], draft[p], seen[p], rows[p]>>
      /\ Done(p)
      /\ bad'[p] = FALSE
  <2>1. On(p) \in Tables /\ n \in 1 .. 7
    BY <1>1, Names
  <2>2. artifact[On(p)] = Listed(p, On(p)).file /\ bad[p] = FALSE
    <3>1. /\ artifact[On(p)] = parquet[On(p)] /\ Listed(p, On(p)) = Listing(On(p))
          /\ bad[p] = FALSE
      BY <2>1, AloneAgrees
    <3> QED
      BY <3>1 DEF Listing
  <2>3. bad'[p] = FALSE
    BY <2>2, TwoAtMost DEF HashFile, Types, Memory
  <2> QED
    BY <2>3 DEF HashFile, files
<1>3. CASE n = 7 /\ On(p) = PRs
  <2>1. Good(p, g, 6)'
    BY <1>2, <1>3, Names, Values DEF Good, Built, Checked, Copied, Taken, Stands, Listing, Intact
  <2>2. n = 7
    BY <1>3
  <2>3. n - 1 = 6 /\ n > 1
    BY <2>2
  <2> QED
    BY <2>1, <2>3
<1>4. CASE n = 5 /\ On(p) = Arcs
  <2>1. Good(p, g, 4)'
    BY <1>2, <1>4, Names, Values DEF Good, Built, Checked, Copied, Taken, Stands, Listing, Intact
  <2>2. n = 5
    BY <1>4
  <2>3. n - 1 = 4 /\ n > 1
    BY <2>2
  <2> QED
    BY <2>1, <2>3
<1>5. CASE n = 3 /\ On(p) = Deps
  <2>1. Good(p, g, 2)'
    BY <1>2, <1>5, Names, Values DEF Good, Built, Checked, Copied, Taken, Stands, Listing, Intact
  <2>2. n = 3
    BY <1>5
  <2>3. n - 1 = 2 /\ n > 1
    BY <2>2
  <2> QED
    BY <2>1, <2>3
<1> QED
  BY <1>1, <1>3, <1>4, <1>5

LEMMA AloneReadRows ==
  ASSUME Types, NEW p \in Processes, NEW g \in BOOLEAN, NEW n \in Nat, Good(p, g, n),
         ReadRows(p), Place(g, n, "rows", On(p))
  PROVE  n > 1 /\ Good(p, g, n - 1)'
<1>1. \/ n = 6 /\ On(p) = PRs
      \/ n = 4 /\ On(p) = Arcs
      \/ n = 2 /\ On(p) = Deps
  BY DEF Place, Late, WithGraph, WithoutGraph, PRs, Arcs, Deps
<1>2. /\ UNCHANGED <<parquet, sidecar, quality, artifact, manifest>>
      /\ UNCHANGED <<mem[p], checked[p], agrees[p], draft[p], seen[p]>>
      /\ Done(p)
      /\ bad'[p] = FALSE
      /\ rows'[p][On(p)] = parquet[On(p)]
      /\ \A t \in Tables \ {On(p)} : rows'[p][t] = rows[p][t]
  <2>2. On(p) \in Tables /\ n \in 1 .. 7
    BY <1>1, Names
  <2>1. /\ artifact[On(p)] = parquet[On(p)] /\ artifact[On(p)] # Torn /\ bad[p] = FALSE
        /\ Listed(p, On(p)).content \in {Absent, artifact[On(p)]}
    <3>1. /\ artifact[On(p)] = parquet[On(p)] /\ Listed(p, On(p)) = Listing(On(p))
          /\ bad[p] = FALSE /\ artifact[On(p)] # Torn
          /\ sidecar[On(p)] \in {Absent, parquet[On(p)]}
      BY <2>2, AloneAgrees
    <3> QED
      BY <3>1 DEF Listing
  <2>3. /\ UNCHANGED <<parquet, sidecar, quality, artifact, manifest>>
        /\ UNCHANGED <<mem, checked, agrees, draft, seen>>
    BY DEF ReadRows, files
  <2>4. Done(p) /\ bad'[p] = FALSE
    BY <2>1 DEF ReadRows, Types, Memory
  <2>5. /\ rows'[p][On(p)] = artifact[On(p)]
        /\ \A t \in Tables \ {On(p)} : rows'[p][t] = rows[p][t]
    <3>1. rows' = [rows EXCEPT ![p][On(p)] = artifact[On(p)]]
      BY <2>1 DEF ReadRows
    <3>2. rows'[p] = [rows[p] EXCEPT ![On(p)] = artifact[On(p)]]
      BY <3>1 DEF Types, Memory
    <3>3. rows[p] \in [Tables -> FileContent]
      BY DEF Types, Memory
    <3> QED
      BY <2>2, <3>2, <3>3
  <2> QED
    BY <2>1, <2>3, <2>4, <2>5
<1>3. CASE n = 6 /\ On(p) = PRs
  <2>1. Good(p, g, 5)'
    BY <1>2, <1>3, Names, Values DEF Good, Built, Checked, Copied, Taken, Stands, Listing, Intact
  <2>2. n = 6
    BY <1>3
  <2>3. n - 1 = 5 /\ n > 1
    BY <2>2
  <2> QED
    BY <2>1, <2>3
<1>4. CASE n = 4 /\ On(p) = Arcs
  <2>1. Good(p, g, 3)'
    BY <1>2, <1>4, Names, Values DEF Good, Built, Checked, Copied, Taken, Stands, Listing, Intact
  <2>2. n = 4
    BY <1>4
  <2>3. n - 1 = 3 /\ n > 1
    BY <2>2
  <2> QED
    BY <2>1, <2>3
<1>5. CASE n = 2 /\ On(p) = Deps
  <2>1. Good(p, g, 1)'
    BY <1>2, <1>5, Names, Values DEF Good, Built, Checked, Copied, Taken, Stands, Listing, Intact
  <2>2. n = 2
    BY <1>5
  <2>3. n - 1 = 1 /\ n > 1
    BY <2>2
  <2> QED
    BY <2>1, <2>3
<1> QED
  BY <1>1, <1>3, <1>4, <1>5

\* What is true of a run stays true while nothing of it and no file changes.
LEMMA GoodKept ==
  ASSUME NEW q, NEW g, NEW n, Good(q, g, n),
         UNCHANGED <<parquet, sidecar, quality, artifact, manifest>>,
         UNCHANGED <<mem[q], checked[q], agrees[q], draft[q], seen[q], rows[q], bad[q]>>
  PROVE  Good(q, g, n)'
BY DEF Good, Built, Checked, Copied, Taken, Stands, Listing, Intact

\* No table that is read, hashed or listed was cut off.
LEMMA TableThere ==
  ASSUME Types, NEW p \in Processes, NEW g \in BOOLEAN, NEW n \in Nat, n >= 1, Good(p, g, n),
         \/ ReadTable(p) /\ Place(g, n, "table", On(p))
         \/ CheckTable(p) /\ Place(g, n, "check", On(p))
         \/ ListTable(p) /\ Place(g, n, "list", On(p))
         \/ ReadManifest(p) /\ Place(g, n, "inputs", On(p))
         \/ ReadRows(p) /\ Place(g, n, "rows", On(p))
  PROVE  Done(p)
<1>1. CASE ReadTable(p) /\ Place(g, n, "table", On(p))
  <2>1. \/ n = 27 /\ On(p) = PRs
        \/ n = 26 /\ On(p) = Deps
    BY <1>1 DEF Place, Late, WithGraph, WithoutGraph, PRs, Arcs, Deps
  <2>2. parquet[On(p)] # Torn
    BY <2>1, Values DEF Good, Built, Stands, Intact
  <2> QED
    BY <1>1, <2>2 DEF ReadTable
<1>2. CASE CheckTable(p) /\ Place(g, n, "check", On(p))
  <2>1. \/ n = 22 /\ On(p) = PRs
        \/ n = 21 /\ On(p) = Arcs
        \/ n = 20 /\ On(p) = Deps
    BY <1>2 DEF Place, Late, WithGraph, WithoutGraph, PRs, Arcs, Deps
  <2>2. parquet[On(p)] # Torn
    BY <2>1, Values DEF Good, Built, Stands, Intact
  <2> QED
    BY <1>2, <2>2 DEF CheckTable
<1>3. CASE ListTable(p) /\ Place(g, n, "list", On(p))
  <2>1. \/ n = 16 /\ On(p) = PRs
        \/ n = 13 /\ On(p) = Arcs
        \/ n = 10 /\ On(p) = Deps
    BY <1>3 DEF Place, Late, WithGraph, WithoutGraph, PRs, Arcs, Deps
  <2>2. artifact[On(p)] = parquet[On(p)] /\ parquet[On(p)] # Torn
    BY <2>1, Values DEF Good, Built, Copied, Stands, Intact
  <2> QED
    BY <1>3, <2>2 DEF ListTable
<1>4. CASE ReadManifest(p) /\ Place(g, n, "inputs", On(p))
  <2>1. n = 8
    BY <1>4 DEF Place, Late, WithGraph, WithoutGraph, PRs, Arcs, Deps
  <2>2. manifest.written
    BY <2>1 DEF Good, Copied
  <2> QED
    BY <1>4, <2>2 DEF ReadManifest
<1>5. CASE ReadRows(p) /\ Place(g, n, "rows", On(p))
  <2>1. \/ n = 6 /\ On(p) = PRs
        \/ n = 4 /\ On(p) = Arcs
        \/ n = 2 /\ On(p) = Deps
    BY <1>5 DEF Place, Late, WithGraph, WithoutGraph, PRs, Arcs, Deps
  <2>2. On(p) \in Tables /\ n \in 1 .. 7
    BY <2>1, Names
  <2>3. artifact[On(p)] # Torn
    BY <2>2, AloneAgrees
  <2> QED
    BY <1>5, <2>3 DEF ReadRows
<1> QED
  BY <1>1, <1>2, <1>3, <1>4, <1>5

\* Without dependencies there is no copy of them, nothing to list and nothing to read.
LEMMA AloneSkipsCopy ==
  ASSUME Types, NoStrayCopy, NEW p \in Processes, NEW g \in BOOLEAN, NEW n \in Nat, Good(p, g, n),
         OpenCopy(p), Place(g, n, "open_copy", On(p)), parquet[On(p)] = Absent
  PROVE  n = 12 /\ Skip(p, 3) /\ Good(p, g, 9)'
<1>1. \/ n = 18 /\ On(p) = PRs
      \/ n = 15 /\ On(p) = Arcs
      \/ n = 12 /\ On(p) = Deps
  BY DEF Place, Late, WithGraph, WithoutGraph, PRs, Arcs, Deps
<1>2. n = 12 /\ On(p) = Deps
  BY <1>1 DEF Good, Built, Stands
<1>3. Skip(p, 3) /\ UNCHANGED <<parquet, sidecar, quality, artifact, manifest>>
  BY DEF OpenCopy
<1>4. UNCHANGED <<mem[p], checked[p], agrees[p], draft[p], seen[p], rows[p], bad[p]>>
  BY DEF OpenCopy, stageVars
<1>5. artifact[Deps] = parquet[Deps] /\ parquet[Deps] = Absent
  BY <1>2 DEF NoStrayCopy
<1>6. draft[p][Deps] = Listing(Deps)
  <2>1. sidecar[Deps] = Absent
    BY <1>2, <1>5 DEF Good, Built, Intact
  <2>2. draft[p][Deps] = Unlisted[Deps]
    BY <1>2 DEF Good, Copied
  <2> QED
    BY <1>5, <2>1, <2>2, Names DEF Unlisted, Listing
<1>7. Good(p, g, 9)
  BY <1>2, <1>5, <1>6 DEF Good, Built, Checked, Copied, Taken
<1> QED
  BY <1>2, <1>3, <1>4, <1>7, GoodKept

LEMMA AloneSkipsHash ==
  ASSUME Types, NEW p \in Processes, NEW g \in BOOLEAN, NEW n \in Nat, Good(p, g, n),
         HashFile(p), Place(g, n, "hash", On(p)), artifact[On(p)] = Absent
  PROVE  n = 3 /\ Skip(p, 2) /\ Good(p, g, 1)'
<1>1. \/ n = 7 /\ On(p) = PRs
      \/ n = 5 /\ On(p) = Arcs
      \/ n = 3 /\ On(p) = Deps
  BY DEF Place, Late, WithGraph, WithoutGraph, PRs, Arcs, Deps
<1>2. On(p) \in Tables /\ n \in 1 .. 7
  BY <1>1, Names
<1>3. /\ artifact[On(p)] = parquet[On(p)] /\ Listed(p, On(p)) = Listing(On(p))
      /\ On(p) # Deps => artifact[On(p)] # Absent
      /\ bad[p] = FALSE
  BY <1>2, AloneAgrees
<1>4. n = 3 /\ On(p) = Deps
  BY <1>1, <1>3, Names
<1>5. bad'[p] = bad[p]
  <2>1. artifact[On(p)] = Listed(p, On(p)).file
    BY <1>3 DEF Listing
  <2> QED
    BY <1>3, <2>1, TwoAtMost DEF HashFile, Types, Memory
<1>6. /\ Skip(p, 2) /\ UNCHANGED <<parquet, sidecar, quality, artifact, manifest>>
      /\ UNCHANGED <<mem[p], checked[p], agrees[p], draft[p], seen[p], rows[p], bad[p]>>
  BY <1>5 DEF HashFile, files
<1>7. Good(p, g, 1)
  <2>1. rows[p][Deps] = parquet[Deps]
    BY <1>3, <1>4 DEF Good, Taken
  <2> QED
    BY <1>4, <2>1 DEF Good, Built, Checked, Copied, Taken
<1> QED
  BY <1>4, <1>6, <1>7, GoodKept

LEMMA AloneLoads ==
  ASSUME Types, NEW p \in Processes, NEW g \in BOOLEAN, NEW n \in Nat, Good(p, g, n),
         Verdict(p), Place(g, n, "verdict", On(p))
  PROVE  outcome'[p] = "loaded" /\ Whole(p)'
<1>1. n = 1
  BY DEF Place, Late, WithGraph, WithoutGraph, PRs, Arcs, Deps
<1>2. bad[p] = FALSE /\ rows[p][PRs] = parquet[PRs] /\ rows[p][Arcs] = parquet[Arcs]
      /\ rows[p][Deps] = parquet[Deps] /\ seen[p] = manifest
  BY <1>1 DEF Good, Taken
<1>3. /\ Stands(PRs) /\ parquet[Arcs] = parquet[PRs] \union parquet[Deps]
      /\ quality = [tables |-> parquet, agrees |-> TRUE]
      /\ manifest = [tables |-> [t \in Tables |-> Listing(t)], quality |-> quality,
                     written |-> TRUE]
  BY <1>1 DEF Good, Built, Checked, Copied
<1>4. rows[p] = parquet
  <2>1. rows[p] \in [Tables -> FileContent] /\ parquet \in [Tables -> FileContent]
    BY DEF Types, Disk, Memory
  <2>2. \A t \in Tables : rows[p][t] = parquet[t]
    BY <1>2, Names
  <2> QED
    BY <2>1, <2>2
<1>5. Whole(p)
  BY <1>2, <1>3, <1>4 DEF Whole
<1>6. outcome'[p] = "loaded" /\ rows' = rows /\ seen' = seen
  BY <1>2, <1>3 DEF Verdict, End, stageVars, Types, Located, Stands
<1> QED
  BY <1>5, <1>6 DEF Whole

LEMMA AloneGoesOn ==
  ASSUME Types, NoStrayCopy, NEW p \in Processes, SoFar(p), outcome[p] = "running", Stage(p)
  PROVE  \/ outcome'[p] = "running" /\ SoFar(p)'
         \/ outcome'[p] = "loaded" /\ Whole(p)'
<1>0. PICK g \in BOOLEAN :
         \E n \in 1 .. Len(Plan(g)) : left[p] = From(Plan(g), n) /\ Good(p, g, n)
  BY DEF SoFar
<1>1. PICK n \in 1 .. Len(Plan(g)) : left[p] = From(Plan(g), n) /\ Good(p, g, n)
  BY <1>0
<1>2. Located /\ Len(Plan(g)) \in Nat /\ n \in Nat
  BY PlanSteps DEF Types
<1>3. \A op : At(p, op) => Place(g, n, op, On(p))
  BY <1>1, <1>2, Descend
<1>4. ASSUME Done(p), n > 1, Good(p, g, n - 1)'
      PROVE  outcome'[p] = "running" /\ SoFar(p)'
  <2>1. left'[p] = From(Plan(g), n - 1)
    BY <1>1, <1>2, <1>4, Descend
  <2>2. n - 1 \in 1 .. Len(Plan(g))
    BY <1>2, <1>4
  <2>3. outcome' = outcome
    BY <1>4 DEF Done
  <2> QED
    BY <1>4, <2>1, <2>2, <2>3 DEF SoFar
<1>5. ASSUME NEW k \in 1 .. n, Skip(p, k), NEW m \in 1 .. n, m = n - k, Good(p, g, m)'
      PROVE  outcome'[p] = "running" /\ SoFar(p)'
  <2>1. left'[p] = From(Plan(g), m)
    BY <1>1, <1>2, <1>5, Descend
  <2>2. m \in 1 .. Len(Plan(g))
    BY <1>2
  <2>3. outcome' = outcome
    BY <1>5 DEF Skip
  <2> QED
    BY <1>5, <2>1, <2>2, <2>3 DEF SoFar
<1>6. CASE ReadShard(p)
  <2>1. Place(g, n, "shard", On(p)) /\ Done(p)
    BY <1>3, <1>6 DEF ReadShard
  <2> QED
    BY <1>1, <1>2, <1>4, <1>6, <2>1, AloneReadShard
<1>7. CASE ReadTable(p)
  <2>1. Place(g, n, "table", On(p))
    BY <1>3, <1>7 DEF ReadTable
  <2>2. n > 1 /\ Good(p, g, n - 1)'
    BY <1>1, <1>2, <1>7, <2>1, AloneReadTable
  <2>3. Done(p)
    BY <1>1, <1>2, <1>7, <2>1, TableThere
  <2> QED
    BY <1>4, <2>2, <2>3
<1>8. CASE OpenTable(p)
  <2>1. Place(g, n, "open", On(p)) /\ Done(p)
    BY <1>3, <1>8 DEF OpenTable
  <2> QED
    BY <1>1, <1>2, <1>4, <1>8, <2>1, AloneOpenTable
<1>9. CASE CloseTable(p)
  <2>1. Place(g, n, "close", On(p)) /\ Done(p)
    BY <1>3, <1>9 DEF CloseTable
  <2> QED
    BY <1>1, <1>2, <1>4, <1>9, <2>1, AloneCloseTable
<1>10. CASE Describe(p)
  <2>1. Place(g, n, "describe", On(p)) /\ Done(p)
    BY <1>3, <1>10 DEF Describe
  <2> QED
    BY <1>1, <1>2, <1>4, <1>10, <2>1, AloneDescribe
<1>11. CASE CheckTable(p)
  <2>1. Place(g, n, "check", On(p))
    BY <1>3, <1>11 DEF CheckTable
  <2>2. n > 1 /\ Good(p, g, n - 1)'
    BY <1>1, <1>2, <1>11, <2>1, AloneCheckTable
  <2>3. Done(p)
    BY <1>1, <1>2, <1>11, <2>1, TableThere
  <2> QED
    BY <1>4, <2>2, <2>3
<1>12. CASE Report(p)
  <2>1. Place(g, n, "report", On(p)) /\ Done(p)
    BY <1>3, <1>12 DEF Report
  <2> QED
    BY <1>1, <1>2, <1>4, <1>12, <2>1, AloneReport
<1>13. CASE OpenCopy(p)
  <2>1. Place(g, n, "open_copy", On(p))
    BY <1>3, <1>13 DEF OpenCopy
  <2>2. CASE parquet[On(p)] # Absent
    <3>1. Done(p)
      BY <1>13, <2>2 DEF OpenCopy
    <3> QED
      BY <1>1, <1>2, <1>4, <1>13, <2>1, <2>2, <3>1, AloneOpenCopy
  <2>3. CASE parquet[On(p)] = Absent
    <3>1. n = 12 /\ Skip(p, 3) /\ Good(p, g, 9)'
      BY <1>1, <1>2, <1>13, <2>1, <2>3, AloneSkipsCopy
    <3>2. 3 \in 1 .. n /\ 9 \in 1 .. n /\ 9 = n - 3
      BY <3>1
    <3> QED
      BY <1>5, <3>1, <3>2
  <2> QED
    BY <2>2, <2>3
<1>14. CASE CloseCopy(p)
  <2>1. Place(g, n, "close_copy", On(p)) /\ Done(p)
    BY <1>3, <1>14 DEF CloseCopy
  <2> QED
    BY <1>1, <1>2, <1>4, <1>14, <2>1, AloneCloseCopy
<1>15. CASE ListTable(p)
  <2>1. Place(g, n, "list", On(p))
    BY <1>3, <1>15 DEF ListTable
  <2>2. n > 1 /\ Good(p, g, n - 1)'
    BY <1>1, <1>2, <1>15, <2>1, AloneListTable
  <2>3. Done(p)
    BY <1>1, <1>2, <1>15, <2>1, TableThere
  <2> QED
    BY <1>4, <2>2, <2>3
<1>16. CASE WriteManifest(p)
  <2>1. Place(g, n, "manifest", On(p)) /\ Done(p)
    BY <1>3, <1>16 DEF WriteManifest
  <2> QED
    BY <1>1, <1>2, <1>4, <1>16, <2>1, AloneWriteManifest
<1>17. CASE ReadManifest(p)
  <2>1. Place(g, n, "inputs", On(p))
    BY <1>3, <1>17 DEF ReadManifest
  <2>2. n > 1 /\ Good(p, g, n - 1)'
    BY <1>1, <1>2, <1>17, <2>1, AloneReadManifest
  <2>3. Done(p)
    BY <1>1, <1>2, <1>17, <2>1, TableThere
  <2> QED
    BY <1>4, <2>2, <2>3
<1>18. CASE HashFile(p)
  <2>1. Place(g, n, "hash", On(p))
    BY <1>3, <1>18 DEF HashFile
  <2>2. CASE artifact[On(p)] # Absent
    <3>1. Done(p)
      BY <1>18, <2>2 DEF HashFile
    <3> QED
      BY <1>1, <1>2, <1>4, <1>18, <2>1, <2>2, <3>1, AloneHashFile
  <2>3. CASE artifact[On(p)] = Absent
    <3>1. n = 3 /\ Skip(p, 2) /\ Good(p, g, 1)'
      BY <1>1, <1>2, <1>18, <2>1, <2>3, AloneSkipsHash
    <3>2. 2 \in 1 .. n /\ 1 \in 1 .. n /\ 1 = n - 2
      BY <3>1
    <3> QED
      BY <1>5, <3>1, <3>2
  <2> QED
    BY <2>2, <2>3
<1>19. CASE ReadRows(p)
  <2>1. Place(g, n, "rows", On(p))
    BY <1>3, <1>19 DEF ReadRows
  <2>2. n > 1 /\ Good(p, g, n - 1)'
    BY <1>1, <1>2, <1>19, <2>1, AloneReadRows
  <2>3. Done(p)
    BY <1>1, <1>2, <1>19, <2>1, TableThere
  <2> QED
    BY <1>4, <2>2, <2>3
<1>20. CASE Verdict(p)
  <2>1. Place(g, n, "verdict", On(p))
    BY <1>3, <1>20 DEF Verdict
  <2> QED
    BY <1>1, <1>2, <1>20, <2>1, AloneLoads
<1> QED
  BY <1>6, <1>7, <1>8, <1>9, <1>10, <1>11, <1>12, <1>13, <1>14, <1>15, <1>16, <1>17, <1>18,
     <1>19, <1>20 DEF Stage

-----------------------------------------------------------------------------
(* Nobody beside a run that is alone, and how such a run begins. *)

\* Whoever writes makes the others not alone: beside a run that still is, the
\* others only read.
LEMMA BesideAlone ==
  ASSUME Types, NEW p \in Processes, Stage(p), NEW q \in Processes \ {p}, alone'[q] = TRUE
  PROVE  /\ alone[q] = TRUE
         /\ UNCHANGED <<parquet, sidecar, quality, artifact, manifest>>
         /\ left'[q] = left[q] /\ outcome'[q] = outcome[q]
         /\ UNCHANGED <<mem[q], checked[q], agrees[q], draft[q], seen[q], rows[q], bad[q]>>
<1> USE DEF Types, Memory
<1>1. ~Writes(p)
  BY DEF Writes
<1>2. alone' = alone /\ UNCHANGED <<parquet, sidecar, quality, artifact, manifest>>
  BY <1>1 DEF Stage, ReadShard, ReadTable, OpenTable, CloseTable, Describe, CheckTable, Report,
     OpenCopy, CloseCopy, ListTable, WriteManifest, ReadManifest, HashFile, ReadRows, Verdict,
     files
<1>3. left'[q] = left[q] /\ outcome'[q] = outcome[q]
  BY DEF Stage, ReadShard, ReadTable, OpenTable, CloseTable, Describe, CheckTable, Report,
     OpenCopy, CloseCopy, ListTable, WriteManifest, ReadManifest, HashFile, ReadRows, Verdict,
     Located, Done, Skip, End
<1>4. UNCHANGED <<mem[q], checked[q], agrees[q], draft[q], seen[q], rows[q], bad[q]>>
  BY DEF Stage, ReadShard, ReadTable, OpenTable, CloseTable, Describe, CheckTable, Report,
     OpenCopy, CloseCopy, ListTable, WriteManifest, ReadManifest, HashFile, ReadRows, Verdict,
     stageVars
<1> QED
  BY <1>2, <1>3, <1>4

\* What was right stays so when neither the files nor the run move.
LEMMA StaysRight ==
  ASSUME NEW q \in Processes,
         UNCHANGED <<parquet, sidecar, quality, artifact, manifest>>,
         left'[q] = left[q] /\ outcome'[q] = outcome[q],
         UNCHANGED <<mem[q], checked[q], agrees[q], draft[q], seen[q], rows[q], bad[q]>>,
         /\ outcome[q] # "failed"
         /\ outcome[q] = "running" => SoFar(q)
         /\ outcome[q] = "loaded" => Whole(q)
  PROVE  /\ outcome'[q] # "failed"
         /\ outcome'[q] = "running" => SoFar(q)'
         /\ outcome'[q] = "loaded" => Whole(q)'
<1>1. \A g, n : Good(q, g, n) => Good(q, g, n)'
  BY GoodKept
<1>2. SoFar(q) => SoFar(q)'
  BY <1>1 DEF SoFar
<1>3. Whole(q) => Whole(q)'
  BY DEF Whole
<1> QED
  BY <1>2, <1>3

\* A run that has all stages, or all but the graph, is one of the two programs.
LEMMA FullRuns ==
  ASSUME NEW run, AllStages \ {"graph"} \subseteq run
  PROVE  Program(run) = Plan("graph" \in run)
<1>1. CASE "graph" \in run
  <2>1. \A stage \in AllStages : If(stage, run) = If(stage, AllStages)
    BY <1>1 DEF If
  <2>2. Program(run) = Program(AllStages)
    BY <2>1 DEF Program, AllStages
  <2> QED
    BY <1>1, <2>2 DEF Plan
<1>2. CASE "graph" \notin run
  <2>1. \A stage \in AllStages : If(stage, run) = If(stage, AllStages \ {"graph"})
    BY <1>2 DEF If
  <2>2. Program(run) = Program(AllStages \ {"graph"})
    BY <2>1 DEF Program, AllStages
  <2> QED
    BY <1>2, <2>2 DEF Plan
<1> QED
  BY <1>1, <1>2

LEMMA WholeEnd ==
  ASSUME NEW s \in Seq(AllSteps)
  PROVE  From(s, Len(s)) = s
<1>1. From(s, Len(s)) = SubSeq(s, 1, Len(s))
  BY DEF From
<1> QED
  BY <1>1

LEMMA StartsRight ==
  ASSUME Types, Fresh, NEW p \in Processes, Start(p), alone'[p] = TRUE
  PROVE  outcome'[p] = "running" /\ SoFar(p)'
<1> USE DEF Types, Located, Memory
<1>1. PICK run \in Runs :
        /\ left' = [left EXCEPT ![p] = Program(run)]
        /\ alone' = [alone EXCEPT ![p] =
             /\ AllStages \ {"graph"} \subseteq run
             /\ "graph" \in run \/ Intact(Deps)]
  BY DEF Start
<1>2. AllStages \ {"graph"} \subseteq run /\ ("graph" \in run \/ Intact(Deps))
  BY <1>1
<1> DEFINE g == "graph" \in run
<1>3. g \in BOOLEAN /\ left'[p] = Plan(g)
  BY <1>1, <1>2, FullRuns
<1>4. /\ outcome'[p] = "running"
      /\ UNCHANGED <<parquet, sidecar, quality, artifact, manifest>>
      /\ UNCHANGED <<mem, checked, agrees, draft, seen, rows, bad>>
      /\ mem[p] = Absent /\ agrees[p] = TRUE /\ draft[p] = Unlisted
  BY DEF Start, files, stageVars, Fresh
<1>5. g \/ Intact(Deps)
  BY <1>2
<1> HIDE DEF g
<1>6. Plan(g) \in Seq(AllSteps) /\ Len(Plan(g)) = IF g THEN 36 ELSE 32
  BY <1>3, PlanSteps
<1>7. g => Good(p, g, 36)
  BY <1>4 DEF Good, Built, Checked, Copied, Taken
<1>8. ~g => Good(p, g, 32)
  BY <1>4, <1>5 DEF Good, Built, Checked, Copied, Taken
<1>9. Good(p, g, Len(Plan(g)))
  BY <1>6, <1>7, <1>8
<1>10. Good(p, g, Len(Plan(g)))'
  BY <1>4, <1>9, GoodKept
<1>11. left'[p] = From(Plan(g), Len(Plan(g)))
  <2>1. From(Plan(g), Len(Plan(g))) = Plan(g)
    BY <1>6, WholeEnd
  <2> QED
    BY <1>3, <2>1
<1>12. Len(Plan(g)) \in 1 .. Len(Plan(g))
  <2>1. \A k \in {36, 32} : k \in 1 .. k
    OBVIOUS
  <2>2. Len(Plan(g)) \in {36, 32}
    BY <1>6
  <2> QED
    BY <2>1, <2>2
<1> QED
  BY <1>3, <1>4, <1>10, <1>11, <1>12 DEF SoFar

\* Nothing but its own steps moves a run that is alone.
LEMMA UndisturbedKept ==
  ASSUME Types, NoStrayCopy, Fresh, Undisturbed, [Next]_vars
  PROVE  Undisturbed'
<1> SUFFICES ASSUME NEW q \in Processes, alone'[q] = TRUE
             PROVE  /\ outcome'[q] # "failed"
                    /\ outcome'[q] = "running" => SoFar(q)'
                    /\ outcome'[q] = "loaded" => Whole(q)'
  BY DEF Undisturbed
<1> DEFINE Right == /\ outcome[q] # "failed"
                    /\ outcome[q] = "running" => SoFar(q)
                    /\ outcome[q] = "loaded" => Whole(q)
<1>1. alone[q] = TRUE => Right
  BY DEF Undisturbed
<1> HIDE DEF Right
<1>2. ASSUME alone[q] = TRUE,
             UNCHANGED <<parquet, sidecar, quality, artifact, manifest>>,
             left'[q] = left[q] /\ outcome'[q] = outcome[q],
             UNCHANGED <<mem[q], checked[q], agrees[q], draft[q], seen[q], rows[q], bad[q]>>
      PROVE  Right'
  <2>1. Right
    BY <1>1, <1>2
  <2> QED
    BY <1>2, <2>1, StaysRight DEF Right
<1>3. ASSUME UNCHANGED vars PROVE Right'
  BY <1>2, <1>3 DEF vars, files, stageVars
<1>4. ASSUME NEW s \in Shards, Ingest(s) PROVE Right'
  BY <1>2, <1>4 DEF Ingest, files, stageVars
<1>5. ASSUME NEW p \in Processes, Stage(p) PROVE Right'
  <2>1. CASE p = q
    <3>1. outcome[q] = "running" /\ alone[q] = TRUE
      BY <1>5, <2>1 DEF Stage, ReadShard, ReadTable, OpenTable, CloseTable, Describe, CheckTable,
         Report, OpenCopy, CloseCopy, ListTable, WriteManifest, ReadManifest, HashFile, ReadRows,
         Verdict, At, Writes, Types, Memory
    <3>2. SoFar(q)
      BY <1>1, <3>1 DEF Right
    <3>3. \/ outcome'[q] = "running" /\ SoFar(q)'
          \/ outcome'[q] = "loaded" /\ Whole(q)'
      BY <1>5, <2>1, <3>1, <3>2, AloneGoesOn
    <3> QED
      BY <3>3 DEF Right
  <2>2. CASE p # q
    BY <1>2, <1>5, <2>2, BesideAlone
  <2> QED
    BY <2>1, <2>2
<1>6. ASSUME NEW p \in Processes, Start(p) PROVE Right'
  <2>1. CASE p = q
    <3>1. outcome'[q] = "running" /\ SoFar(q)'
      BY <1>6, <2>1, StartsRight
    <3> QED
      BY <3>1 DEF Right
  <2>2. CASE p # q
    BY <1>2, <1>6, <2>2 DEF Start, files, stageVars, Types, Located, Memory
  <2> QED
    BY <2>1, <2>2
<1>7. ASSUME NEW p \in Processes, Finish(p) \/ Kill(p) PROVE Right'
  <2>1. CASE p = q
    <3>1. outcome'[q] \in {"finished", "killed"}
      BY <1>7, <2>1 DEF Finish, Kill, End, Types, Located
    <3> QED
      BY <3>1 DEF Right
  <2>2. CASE p # q
    BY <1>2, <1>7, <2>2 DEF Finish, Kill, Lose, End, files, stageVars, Types, Located, Memory
  <2> QED
    BY <2>1, <2>2
<1>8. Right'
  BY <1>3, <1>4, <1>5, <1>6, <1>7 DEF Next
<1> QED
  BY <1>8 DEF Right

\* A run of all stages that nobody writes beside is never stopped by a failed
\* check, and what Phase 2 takes from it belongs together, whatever was killed
\* before it and however often the ingest rewrites the shards meanwhile.
THEOREM UndisturbedIsWhole == Spec => []UndisturbedRunIsWhole
<1>1. Init => Undisturbed
  BY DEF Init, Undisturbed
<1>2. Undisturbed => UndisturbedRunIsWhole
  BY DEF Undisturbed, UndisturbedRunIsWhole, Whole
<1> QED
  BY <1>1, <1>2, InitTyped, NextTyped, NoneStrays, FreshAlways, UndisturbedKept, PTL DEF Spec
=============================================================================
