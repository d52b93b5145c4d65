------------------------------ MODULE Publish ------------------------------
(***************************************************************************)
(* The Phase 2 package and the site made of it.  impact2/export.py writes  *)
(* artifacts/phase3 file by file and the manifest last, then once more     *)
(* with the outcome of the safety scan; scripts/watch-phase2.sh polls the  *)
(* manifest and, when its fingerprint has changed and settled, lets        *)
(* deploy-dashboard.sh stage a verified copy, build it and push it.  The   *)
(* two processes share nothing but the directory.                          *)
(***************************************************************************)
EXTENDS Integers

CONSTANTS
  Files,        \* the files of a package, the manifest aside
  Stamped,      \* those that tell when they were written: coverage.json
  Data,         \* what an analysis can come out as
  Leaky,        \* the outcomes that hold something the safety scan forbids
  MaxReads,     \* reads the watcher waits for the manifest to settle: 15
  MaxExports,   \* bound: exports started
  MaxFaults     \* bound: deploys that fail by themselves and watchers killed

ASSUME PackagesAssumption == Stamped \subseteq Files /\ Leaky \subseteq Data

ASSUME BoundsAssumption ==
  /\ MaxReads \in Nat \ {0}
  /\ MaxExports \in Nat /\ MaxFaults \in Nat

VARIABLES
  package,    \* package[f]: what file f holds
  manifest,   \* dashboard_manifest.json
  export,     \* the export that is running
  exports,    \* exports started so far
  watcher,    \* where the watcher is, and the fingerprint it follows
  recorded,   \* .git/phase3-deployed-fingerprint
  stage,      \* web/.data and how far it has been verified and copied
  site,       \* the gh-pages branch
  faults

disk == <<package, manifest>>
watch == <<watcher, recorded, stage, site, faults>>
vars == <<disk, export, exports, watch>>

-----------------------------------------------------------------------------
(* Packages. *)

\* Two runs over the same inputs write the same bytes but for the stamps.
Content(f, data, at) == [data |-> data, at |-> IF f \in Stamped THEN at ELSE 0]

Bodies == [data : Data, at : 0 .. MaxExports]
Absent == [data |-> "absent", at |-> 0]

Listing == [Files -> Bodies \union {Absent}]
Empty == [f \in Files |-> Absent]

\* at stands for generated_at, 0 for no manifest; signed says that the outcome
\* of the scan and the approval mode are in it.
Manifests ==
  [at : 0 .. MaxExports, files : Listing, publishable : BOOLEAN, signed : BOOLEAN]

NoManifest == [at |-> 0, files |-> Empty, publishable |-> FALSE, signed |-> FALSE]

\* What the watcher compares: the hashes of the files and generated_at.
Fingerprint(m) == [at |-> m.at, files |-> m.files]

Prints == [at : 0 .. MaxExports, files : Listing]
NoPrint == Fingerprint(NoManifest)

Leaks(files) == \E f \in Files : files[f].data \in Leaky

-----------------------------------------------------------------------------
(* The export. *)

NoExport == [step |-> "off", at |-> 0, data |-> "absent", todo |-> {}]
NoStage == [manifest |-> NoManifest, files |-> Empty, todo |-> {}, quiet |-> TRUE]

Init ==
  /\ package = Empty /\ manifest = NoManifest
  /\ export = NoExport /\ exports = 0
  /\ watcher = [step |-> "poll", current |-> NoPrint, reads |-> 0]
  /\ recorded = NoPrint
  /\ stage = NoStage
  /\ site = [manifest |-> NoManifest, files |-> Empty, quiet |-> TRUE]
  /\ faults = 0

StartExport(data) ==
  /\ export.step = "off" /\ exports < MaxExports
  /\ exports' = exports + 1
  /\ export' = [step |-> "write", at |-> exports + 1, data |-> data, todo |-> Files]
  /\ UNCHANGED <<disk, watch>>

\* The export writes while a copy is being taken.
Disturb ==
  stage' = [stage EXCEPT !.quiet = @ /\ watcher.step \notin {"verify", "copy"}]

\* Each file is replaced in one go (os.replace), in whatever order.
WriteFile(f) ==
  /\ export.step = "write" /\ f \in export.todo
  /\ package' = [package EXCEPT ![f] = Content(f, export.data, export.at)]
  /\ export' = [export EXCEPT !.todo = @ \ {f}]
  /\ Disturb
  /\ UNCHANGED <<manifest, exports, watcher, recorded, site, faults>>

\* The hashes were taken as the files were written.  passed: the validation
\* program found nothing that stands in the way.
WriteManifest(passed) ==
  /\ export.step = "write" /\ export.todo = {}
  /\ manifest' = [at |-> export.at,
                  files |-> [f \in Files |-> Content(f, export.data, export.at)],
                  publishable |-> passed, signed |-> FALSE]
  /\ export' = [export EXCEPT !.step = "scan"]
  /\ Disturb
  /\ UNCHANGED <<package, exports, watcher, recorded, site, faults>>

\* Mutation: a standing approval stands for the scan as well.
ApprovedAnyway(passed, standing, clean) == standing \/ (clean /\ passed)

\* A standing approval stands for every blocker but the scan's.
Publishable(passed, standing, clean) == clean /\ (standing \/ passed)

\* The scan reads what is on disk; the manifest is then written again.  standing:
\* the operator's approval in eligibility.yaml.
Sign(standing) ==
  /\ export.step = "scan"
  /\ manifest' = [manifest EXCEPT
       !.publishable = Publishable(@, standing, ~Leaks(package)),
       !.signed = TRUE]
  /\ export' = NoExport
  /\ Disturb
  /\ UNCHANGED <<package, exports, watcher, recorded, site, faults>>

\* Everything already written stays.
KillExport ==
  /\ export.step # "off"
  /\ export' = NoExport
  /\ UNCHANGED <<disk, exports, watch>>

-----------------------------------------------------------------------------
(* The watcher. *)

Poll ==
  /\ watcher.step = "poll"
  /\ Fingerprint(manifest) \notin {NoPrint, recorded}
  /\ watcher' = [step |-> "settle", current |-> Fingerprint(manifest), reads |-> 0]
  /\ UNCHANGED <<disk, export, exports, recorded, stage, site, faults>>

\* Nothing the loop still holds is used again; web/.data is emptied by the next
\* deploy before it is written.
Rest ==
  /\ watcher' = [step |-> "poll", current |-> NoPrint, reads |-> 0]
  /\ stage' = NoStage

\* Two reads alike, and the package counts as settled.
ReadAgain ==
  /\ watcher.step = "settle"
  /\ IF Fingerprint(manifest) = watcher.current
       THEN watcher' = [watcher EXCEPT !.step = "stage", !.reads = 0] /\ UNCHANGED stage
       ELSE IF watcher.reads + 1 = MaxReads
              THEN Rest
              ELSE watcher' = [watcher EXCEPT !.current = Fingerprint(manifest), !.reads = @ + 1]
                   /\ UNCHANGED stage
  /\ UNCHANGED <<disk, export, exports, recorded, site, faults>>

-----------------------------------------------------------------------------
(* The deploy: stage-data.mjs, next build, git push. *)

ReadManifest ==
  /\ watcher.step = "stage"
  /\ stage' = [manifest |-> manifest, files |-> Empty, todo |-> Files, quiet |-> TRUE]
  /\ watcher' = [watcher EXCEPT !.step = "verify"]
  /\ UNCHANGED <<disk, export, exports, recorded, site, faults>>

\* Mutation: the hashes are not compared.
TrustFile(f) ==
  /\ watcher.step = "verify" /\ f \in stage.todo
  /\ stage' = [stage EXCEPT !.todo = @ \ {f}]
  /\ UNCHANGED <<disk, export, exports, watcher, recorded, site, faults>>

\* A file that is missing or has another hash ends the deploy.
VerifyFile(f) ==
  /\ watcher.step = "verify" /\ f \in stage.todo
  /\ IF package[f] = stage.manifest.files[f]
       THEN stage' = [stage EXCEPT !.todo = @ \ {f}] /\ UNCHANGED watcher
       ELSE Rest
  /\ UNCHANGED <<disk, export, exports, recorded, site, faults>>

\* web/.data is emptied; the manifest is copied like any other file.
BeginCopy ==
  /\ watcher.step = "verify" /\ stage.todo = {}
  /\ stage' = [stage EXCEPT !.manifest = NoManifest, !.todo = Files]
  /\ watcher' = [watcher EXCEPT !.step = "copy"]
  /\ UNCHANGED <<disk, export, exports, recorded, site, faults>>

CopyFile(f) ==
  /\ watcher.step = "copy" /\ f \in stage.todo
  /\ stage' = [stage EXCEPT !.files[f] = package[f], !.todo = @ \ {f}]
  /\ UNCHANGED <<disk, export, exports, watcher, recorded, site, faults>>

CopyManifest ==
  /\ watcher.step = "copy" /\ stage.manifest.at = 0
  /\ stage' = [stage EXCEPT !.manifest = manifest]
  /\ UNCHANGED <<disk, export, exports, watcher, recorded, site, faults>>

\* The built copy replaces the branch.
Push ==
  /\ watcher.step = "copy" /\ stage.todo = {} /\ stage.manifest.at # 0
  /\ site' = [manifest |-> stage.manifest, files |-> stage.files, quiet |-> stage.quiet]
  /\ watcher' = [watcher EXCEPT !.step = "record"]
  /\ UNCHANGED <<disk, export, exports, recorded, stage, faults>>

Deploying == watcher.step \in {"stage", "verify", "copy"}

\* The schemas or the cross references refuse a mixture of two packages.
BuildRejects ==
  /\ watcher.step = "copy" /\ stage.todo = {} /\ stage.manifest.at # 0
  /\ stage.files # stage.manifest.files
  /\ Rest
  /\ UNCHANGED <<disk, export, exports, recorded, site, faults>>

\* Mutation: what failed to deploy counts as deployed.
FailRecorded ==
  /\ Deploying /\ faults < MaxFaults
  /\ faults' = faults + 1
  /\ recorded' = watcher.current
  /\ Rest
  /\ UNCHANGED <<disk, export, exports, site>>

\* npm, the 100 MB limit or the push: the previous site is left in place.
DeployFails ==
  /\ Deploying /\ faults < MaxFaults
  /\ faults' = faults + 1
  /\ Rest
  /\ UNCHANGED <<disk, export, exports, recorded, site>>

\* Mutation: the fingerprint is read once more after the deploy.
RecordLatest ==
  /\ watcher.step = "record"
  /\ recorded' = Fingerprint(manifest)
  /\ Rest
  /\ UNCHANGED <<disk, export, exports, site, faults>>

Record ==
  /\ watcher.step = "record"
  /\ recorded' = watcher.current
  /\ Rest
  /\ UNCHANGED <<disk, export, exports, site, faults>>

\* The next watcher starts from the recorded fingerprint.
KillWatcher ==
  /\ watcher.step # "poll" /\ faults < MaxFaults
  /\ faults' = faults + 1
  /\ Rest
  /\ UNCHANGED <<disk, export, exports, recorded, site>>

-----------------------------------------------------------------------------
ExportStep ==
  \/ \E data \in Data : StartExport(data)
  \/ \E f \in Files : WriteFile(f)
  \/ \E b \in BOOLEAN : WriteManifest(b) \/ Sign(b)
  \/ KillExport

WatcherStep ==
  \/ Poll \/ ReadAgain
  \/ ReadManifest \/ BeginCopy \/ CopyManifest \/ Push \/ BuildRejects \/ Record
  \/ \E f \in Files : VerifyFile(f) \/ CopyFile(f)

Next == ExportStep \/ WatcherStep \/ DeployFails \/ KillWatcher

Spec == Init /\ [][Next]_vars

\* The watcher's loop runs for ever; nothing says that anyone starts an export
\* or that one gets to its end.
FairSpec == Spec /\ WF_vars(WatcherStep)

-----------------------------------------------------------------------------
(* Properties. *)

TypeOK ==
  /\ package \in Listing /\ manifest \in Manifests
  /\ export \in [step : {"off", "write", "scan"}, at : 0 .. MaxExports,
                 data : Data \union {"absent"}, todo : SUBSET Files]
  /\ exports \in 0 .. MaxExports
  /\ watcher \in [step : {"poll", "settle", "stage", "verify", "copy", "record"},
                  current : Prints, reads : 0 .. MaxReads - 1]
  /\ recorded \in Prints
  /\ stage \in [manifest : Manifests, files : Listing, todo : SUBSET Files, quiet : BOOLEAN]
  /\ site \in [manifest : Manifests, files : Listing, quiet : BOOLEAN]
  /\ faults \in 0 .. MaxFaults

\* A site whose copy no export has written into is one whole package, whatever
\* exports were killed before: what verify() refuses is a partial package.
QuietDeployIsWhole == site.quiet => site.files = site.manifest.files

\* The recorded fingerprint is never of a later package than the site: a record
\* ahead of the site would keep that package from ever being deployed.
RecordedIsNotNewer == recorded.at <= site.manifest.at

Earned(m) == m.signed /\ m.publishable => ~Leaks(m.files)

\* A signed manifest that says publishable, on disk or on the site, lists no
\* file the scan would refuse, whoever has approved what.
PublishableIsClean == Earned(manifest) /\ Earned(site.manifest)

AtRest == export.step = "off" /\ exports # 0 /\ manifest.at = exports

\* Once no further export is started and the last one got as far as its
\* manifest, the site gets its files, though deploys fail and the watcher is
\* killed and started again. The verdict of the scan is not a change to the
\* watcher, so that the site may keep a manifest without it.
FilesReachSite ==
  <>[]AtRest => <>[](site.files = package /\ site.manifest.at = manifest.at)
=============================================================================
