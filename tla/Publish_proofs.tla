--------------------------- MODULE Publish_proofs ---------------------------
(***************************************************************************)
(* Proofs about Publish, for any files, outcomes, exports and faults.      *)
(***************************************************************************)
EXTENDS Publish, TLAPS

(***************************************************************************)
(* The parts of the inductive invariant.                                   *)
(***************************************************************************)

\* An export that runs knows what it writes.
ExportHasData == export.step # "off" => export.data \in Data

\* The generations only grow from the site to the exporter.
ExportIsNewest ==
  /\ manifest.at <= exports
  /\ export.step # "off" => export.at = exports
  /\ export.step = "write" => manifest.at < exports

WatcherIsBehind ==
  /\ recorded.at <= site.manifest.at /\ site.manifest.at <= manifest.at
  /\ watcher.current.at <= manifest.at
  /\ watcher.step = "copy" /\ stage.manifest.at # 0 =>
       /\ watcher.current.at <= stage.manifest.at
       /\ site.manifest.at <= stage.manifest.at
       /\ stage.manifest.at <= manifest.at
  /\ watcher.step = "record" => watcher.current.at <= site.manifest.at

\* What the export has written is what it lists, until the next one starts.
WrittenIsListed ==
  /\ export.step = "write" =>
       \A f \in Files \ export.todo : package[f] = Content(f, export.data, export.at)
  /\ export.step = "scan" => manifest.files = package

AllEarned == Earned(manifest) /\ Earned(stage.manifest) /\ Earned(site.manifest)

\* While nothing is written, what was verified is still there to be copied.
QuietCopyHolds ==
  stage.quiet =>
    /\ watcher.step = "verify" =>
         /\ stage.manifest = manifest
         /\ \A f \in Files \ stage.todo : package[f] = manifest.files[f]
    /\ watcher.step = "copy" =>
         /\ package = manifest.files
         /\ stage.manifest.at # 0 => stage.manifest = manifest
         /\ \A f \in Files \ stage.todo : stage.files[f] = package[f]

Typed == TypeOK /\ ExportHasData
Ordered == ExportIsNewest /\ WatcherIsBehind

IInv ==
  /\ Typed /\ Ordered /\ WrittenIsListed /\ AllEarned
  /\ QuietCopyHolds /\ QuietDeployIsWhole

-----------------------------------------------------------------------------
LEMMA ContentType ==
  ASSUME NEW f \in Files, NEW d \in Data, NEW a \in 0 .. MaxExports
  PROVE  Content(f, d, a) \in Bodies
BY BoundsAssumption DEF Content, Bodies

LEMMA Constants ==
  /\ MaxExports \in Nat /\ MaxFaults \in Nat /\ MaxReads \in Nat \ {0}
  /\ Empty \in Listing
  /\ NoManifest \in Manifests
  /\ NoPrint \in Prints /\ NoPrint.at = 0
  /\ NoStage \in [manifest : Manifests, files : Listing, todo : SUBSET Files, quiet : BOOLEAN]
<1>1. MaxExports \in Nat /\ MaxFaults \in Nat /\ MaxReads \in Nat \ {0}
  BY BoundsAssumption
<1>2. Empty \in Listing
  BY DEF Empty, Listing
<1>3. NoManifest \in Manifests
  BY <1>1, <1>2 DEF NoManifest, Manifests
<1>4. NoPrint \in Prints /\ NoPrint.at = 0
  BY <1>1, <1>2 DEF NoPrint, NoManifest, Fingerprint, Prints
<1>5. NoStage \in [manifest : Manifests, files : Listing, todo : SUBSET Files, quiet : BOOLEAN]
  BY <1>2, <1>3 DEF NoStage
<1>6. QED
  BY <1>1, <1>2, <1>3, <1>4, <1>5

LEMMA PrintType ==
  ASSUME NEW m \in Manifests
  PROVE  Fingerprint(m) \in Prints /\ Fingerprint(m).at = m.at
BY DEF Manifests, Prints, Fingerprint

LEMMA InitIInv == Init => IInv
<1> SUFFICES ASSUME Init PROVE IInv
  OBVIOUS
<1> USE Constants DEF Init
<1>1. Typed
  BY DEF Typed, TypeOK, NoExport, ExportHasData
<1>2. Ordered
  BY DEF Ordered, ExportIsNewest, WatcherIsBehind, NoExport, NoManifest, NoPrint,
         Fingerprint
<1>3. WrittenIsListed /\ AllEarned
  BY DEF WrittenIsListed, AllEarned, Earned, NoExport, NoManifest, NoStage
<1>4. QuietCopyHolds /\ QuietDeployIsWhole
  BY DEF QuietCopyHolds, QuietDeployIsWhole, NoManifest
<1>5. QED
  BY <1>1, <1>2, <1>3, <1>4 DEF IInv
-----------------------------------------------------------------------------
(***************************************************************************)
(* Steps.                                                                  *)
(***************************************************************************)

LEMMA RestType ==
  ASSUME Rest
  PROVE  /\ watcher' \in [step : {"poll"}, current : Prints, reads : 0 .. MaxReads - 1]
         /\ stage' \in [manifest : Manifests, files : Listing, todo : SUBSET Files, quiet : BOOLEAN]
BY Constants DEF Rest

LEMMA DisturbType ==
  ASSUME TypeOK, Disturb
  PROVE  stage' \in [manifest : Manifests, files : Listing, todo : SUBSET Files, quiet : BOOLEAN]
BY DEF TypeOK, Disturb

LEMMA TypedStep == Typed /\ Ordered /\ [Next]_vars => Typed'
<1> SUFFICES ASSUME Typed, Ordered, [Next]_vars PROVE Typed'
  OBVIOUS
<1> USE Constants DEF Typed, TypeOK, ExportHasData, disk
<1>1. CASE UNCHANGED vars
  BY <1>1 DEF vars, watch
<1>2. ASSUME NEW data \in Data, StartExport(data) PROVE Typed'
  BY <1>2 DEF StartExport, watch
<1>3. ASSUME NEW f \in Files, WriteFile(f) PROVE Typed'
  <2>1. Content(f, export.data, export.at) \in Bodies
    BY <1>3, ContentType DEF WriteFile
  <2>2. package' \in Listing
    BY <1>3, <2>1 DEF WriteFile, Listing
  <2>3. QED
    BY <1>3, <2>2, DisturbType DEF WriteFile
<1>4. ASSUME NEW b \in BOOLEAN, WriteManifest(b) PROVE Typed'
  <2>1. \A f \in Files : Content(f, export.data, export.at) \in Bodies
    BY <1>4, ContentType DEF WriteManifest
  <2>2. manifest' \in Manifests
    BY <1>4, <2>1 DEF WriteManifest, Manifests, Listing
  <2>3. QED
    BY <1>4, <2>2, DisturbType DEF WriteManifest
<1>5. ASSUME NEW b \in BOOLEAN, Sign(b) PROVE Typed'
  <2>1. Publishable(manifest.publishable, b, ~Leaks(package)) \in BOOLEAN
    BY DEF Publishable, Leaks, Manifests
  <2>2. manifest' \in Manifests
    BY <1>5, <2>1 DEF Sign, Manifests
  <2>3. QED
    BY <1>5, <2>2, DisturbType DEF Sign, NoExport
<1>6. CASE KillExport
  BY <1>6 DEF KillExport, NoExport, watch
<1>7. CASE Poll
  BY <1>7, PrintType DEF Poll
<1>8. CASE ReadAgain
  <2>1. watcher' \in [step : {"settle", "stage", "poll"}, current : Prints, reads : 0 .. MaxReads - 1]
        /\ (UNCHANGED stage \/ Rest)
    <3>1. CASE Fingerprint(manifest) = watcher.current
      <4>1. watcher' = [watcher EXCEPT !.step = "stage", !.reads = 0] /\ UNCHANGED stage
        BY <1>8, <3>1 DEF ReadAgain
      <4>2. 0 \in 0 .. MaxReads - 1
        OBVIOUS
      <4>3. watcher' \in [step : {"stage"}, current : Prints, reads : 0 .. MaxReads - 1]
        BY <4>1, <4>2
      <4>4. QED
        BY <4>1, <4>3
    <3>2. CASE Fingerprint(manifest) # watcher.current /\ watcher.reads + 1 = MaxReads
      <4>1. Rest
        BY <1>8, <3>2 DEF ReadAgain
      <4>2. QED
        BY <4>1, RestType
    <3>3. CASE Fingerprint(manifest) # watcher.current /\ watcher.reads + 1 # MaxReads
      <4>1. watcher.step = "settle" /\ UNCHANGED stage
            /\ watcher' = [watcher EXCEPT !.current = Fingerprint(manifest), !.reads = @ + 1]
        BY <1>8, <3>3 DEF ReadAgain
      <4>2. watcher.reads + 1 \in 0 .. MaxReads - 1
        BY <3>3
      <4>3. QED
        BY <4>1, <4>2, PrintType
    <3>4. QED
      BY <3>1, <3>2, <3>3
  <2>2. stage' \in [manifest : Manifests, files : Listing, todo : SUBSET Files, quiet : BOOLEAN]
    BY <2>1, RestType
  <2>3. UNCHANGED <<disk, export, exports, recorded, site, faults>>
    BY <1>8 DEF ReadAgain
  <2>4. QED
    BY <2>1, <2>2, <2>3
<1>9. CASE ReadManifest
  BY <1>9 DEF ReadManifest
<1>10. ASSUME NEW f \in Files, VerifyFile(f) PROVE Typed'
  BY <1>10, RestType DEF VerifyFile
<1>11. CASE BeginCopy
  BY <1>11 DEF BeginCopy
<1>12. ASSUME NEW f \in Files, CopyFile(f) PROVE Typed'
  BY <1>12 DEF CopyFile, Listing
<1>13. CASE CopyManifest
  BY <1>13 DEF CopyManifest
<1>14. CASE Push
  BY <1>14 DEF Push
<1>15. CASE BuildRejects
  BY <1>15, RestType DEF BuildRejects
<1>16. CASE DeployFails
  BY <1>16, RestType DEF DeployFails
<1>17. CASE Record
  BY <1>17, RestType DEF Record
<1>18. CASE KillWatcher
  BY <1>18, RestType DEF KillWatcher
<1>19. QED
  BY <1>1, <1>2, <1>3, <1>4, <1>5, <1>6, <1>7, <1>8, <1>9, <1>10, <1>11, <1>12,
     <1>13, <1>14, <1>15, <1>16, <1>17, <1>18 DEF Next, ExportStep, WatcherStep

LEMMA OrderedStep == Typed /\ Ordered /\ [Next]_vars => Ordered'
<1> SUFFICES ASSUME Typed, Ordered, [Next]_vars PROVE Ordered'
  OBVIOUS
<1> USE Constants DEF Typed, TypeOK, Ordered, ExportIsNewest, WatcherIsBehind, Manifests, Prints, disk
<1>1. CASE UNCHANGED vars
  BY <1>1 DEF vars, watch
<1>2. ASSUME NEW data \in Data, StartExport(data) PROVE Ordered'
  BY <1>2 DEF StartExport, watch
<1>3. ASSUME NEW f \in Files, WriteFile(f) PROVE Ordered'
  BY <1>3 DEF WriteFile, Disturb
<1>4. ASSUME NEW b \in BOOLEAN, WriteManifest(b) PROVE Ordered'
  BY <1>4 DEF WriteManifest, Disturb
<1>5. ASSUME NEW b \in BOOLEAN, Sign(b) PROVE Ordered'
  BY <1>5 DEF Sign, Disturb, NoExport
<1>6. CASE KillExport
  BY <1>6 DEF KillExport, NoExport, watch
<1>7. CASE Poll
  BY <1>7, PrintType DEF Poll
<1>8. CASE ReadAgain
  <2>1. CASE Fingerprint(manifest) = watcher.current
    BY <1>8, <2>1 DEF ReadAgain
  <2>2. CASE Fingerprint(manifest) # watcher.current /\ watcher.reads + 1 = MaxReads
    BY <1>8, <2>2 DEF ReadAgain, Rest
  <2>3. CASE Fingerprint(manifest) # watcher.current /\ watcher.reads + 1 # MaxReads
    <3>1. watcher' = [watcher EXCEPT !.current = Fingerprint(manifest), !.reads = @ + 1]
      BY <1>8, <2>3 DEF ReadAgain
    <3>2. QED
      BY <1>8, <2>3, <3>1, PrintType DEF ReadAgain
  <2>4. QED
    BY <2>1, <2>2, <2>3
<1>9. CASE ReadManifest
  BY <1>9 DEF ReadManifest
<1>10. ASSUME NEW f \in Files, VerifyFile(f) PROVE Ordered'
  BY <1>10 DEF VerifyFile, Rest
<1>11. CASE BeginCopy
  BY <1>11 DEF BeginCopy, NoManifest
<1>12. ASSUME NEW f \in Files, CopyFile(f) PROVE Ordered'
  BY <1>12 DEF CopyFile
<1>13. CASE CopyManifest
  BY <1>13 DEF CopyManifest
<1>14. CASE Push
  BY <1>14 DEF Push
<1>15. CASE BuildRejects
  BY <1>15 DEF BuildRejects, Rest
<1>16. CASE DeployFails
  BY <1>16 DEF DeployFails, Rest
<1>17. CASE Record
  BY <1>17 DEF Record, Rest
<1>18. CASE KillWatcher
  BY <1>18 DEF KillWatcher, Rest
<1>19. QED
  BY <1>1, <1>2, <1>3, <1>4, <1>5, <1>6, <1>7, <1>8, <1>9, <1>10, <1>11, <1>12,
     <1>13, <1>14, <1>15, <1>16, <1>17, <1>18 DEF Next, ExportStep, WatcherStep

LEMMA ListedStep == Typed /\ WrittenIsListed /\ [Next]_vars => WrittenIsListed'
<1> SUFFICES ASSUME Typed, WrittenIsListed, [Next]_vars PROVE WrittenIsListed'
  OBVIOUS
<1> USE DEF Typed, TypeOK, WrittenIsListed, disk
<1>1. ASSUME NEW data \in Data, StartExport(data) PROVE WrittenIsListed'
  BY <1>1 DEF StartExport
<1>2. ASSUME NEW f \in Files, WriteFile(f) PROVE WrittenIsListed'
  <2>1. export'.step = "write" /\ UNCHANGED <<export.data, export.at>>
        /\ Files \ export'.todo \subseteq (Files \ export.todo) \union {f}
    BY <1>2 DEF WriteFile
  <2>2. \A g \in Files \ export'.todo : package'[g] = Content(g, export.data, export.at)
    BY <1>2, <2>1 DEF WriteFile, Listing
  <2>3. QED
    BY <2>1, <2>2
<1>3. ASSUME NEW b \in BOOLEAN, WriteManifest(b) PROVE WrittenIsListed'
  <2>1. export'.step = "scan" /\ UNCHANGED package
        /\ manifest'.files = [f \in Files |-> Content(f, export.data, export.at)]
    BY <1>3 DEF WriteManifest
  <2>2. \A f \in Files : package[f] = Content(f, export.data, export.at)
    BY <1>3 DEF WriteManifest
  <2>3. package = [f \in Files |-> Content(f, export.data, export.at)]
    BY <2>2 DEF Listing
  <2>4. QED
    BY <2>1, <2>3
<1>4. ASSUME NEW b \in BOOLEAN, Sign(b) PROVE WrittenIsListed'
  BY <1>4 DEF Sign, NoExport
<1>5. CASE KillExport
  BY <1>5 DEF KillExport, NoExport
<1>6. CASE UNCHANGED <<disk, export>>
  BY <1>6
<1>7. UNCHANGED <<disk, export>> \/ ExportStep
  BY DEF Next, WatcherStep, vars, watch, Poll, ReadAgain, ReadManifest, VerifyFile,
         BeginCopy, CopyFile, CopyManifest, Push, BuildRejects, DeployFails, Record,
         KillWatcher
<1>8. QED
  BY <1>1, <1>2, <1>3, <1>4, <1>5, <1>6, <1>7 DEF ExportStep

LEMMA EarnedStep ==
  Typed /\ WrittenIsListed /\ AllEarned /\ [Next]_vars => AllEarned'
<1> SUFFICES ASSUME Typed, WrittenIsListed, AllEarned, [Next]_vars PROVE AllEarned'
  OBVIOUS
<1> USE DEF Typed, TypeOK, AllEarned, Earned, disk
<1>1. ASSUME NEW b \in BOOLEAN, WriteManifest(b) PROVE AllEarned'
  BY <1>1 DEF WriteManifest, Disturb
<1>2. ASSUME NEW b \in BOOLEAN, Sign(b) PROVE AllEarned'
  <2>1. manifest.files = package
    BY <1>2 DEF WrittenIsListed, Sign
  <2>2. manifest'.files = package
        /\ manifest'.publishable = Publishable(manifest.publishable, b, ~Leaks(package))
    BY <1>2, <2>1 DEF Sign, Manifests
  <2>3. manifest'.publishable => ~Leaks(package)
    BY <2>2 DEF Publishable
  <2>4. stage'.manifest = stage.manifest /\ site' = site
    BY <1>2 DEF Sign, Disturb
  <2>5. QED
    BY <2>2, <2>3, <2>4
<1>3. ASSUME NEW f \in Files, WriteFile(f) PROVE AllEarned'
  BY <1>3 DEF WriteFile, Disturb
<1>4. CASE Push
  BY <1>4 DEF Push
<1>5. CASE ReadManifest \/ CopyManifest
  BY <1>5 DEF ReadManifest, CopyManifest
<1>6. CASE BeginCopy
  BY <1>6 DEF BeginCopy, NoManifest
<1>7. ASSUME NEW f \in Files, CopyFile(f) \/ VerifyFile(f) PROVE AllEarned'
  <2>1. UNCHANGED <<manifest, site>> /\ (stage'.manifest = stage.manifest \/ Rest)
    BY <1>7 DEF CopyFile, VerifyFile
  <2>2. stage'.manifest = stage.manifest \/ ~stage'.manifest.signed
    BY <2>1 DEF Rest, NoStage, NoManifest
  <2>3. QED
    BY <2>1, <2>2
<1>8. CASE ReadAgain \/ BuildRejects \/ DeployFails \/ Record \/ KillWatcher
  BY <1>8 DEF ReadAgain, BuildRejects, DeployFails, Record, KillWatcher, Rest, NoStage,
              NoManifest
<1>9. ASSUME UNCHANGED vars \/ KillExport \/ Poll \/ \E data \in Data : StartExport(data)
      PROVE AllEarned'
  BY <1>9 DEF vars, watch, KillExport, Poll, StartExport
<1>10. QED
  BY <1>1, <1>2, <1>3, <1>4, <1>5, <1>6, <1>7, <1>8, <1>9 DEF Next, ExportStep, WatcherStep

LEMMA RestIsQuietAndDone == Rest => QuietCopyHolds'
BY DEF Rest, QuietCopyHolds

LEMMA WholeStep ==
  Typed /\ Ordered /\ QuietCopyHolds /\ QuietDeployIsWhole /\ [Next]_vars
    => QuietCopyHolds' /\ QuietDeployIsWhole'
<1> SUFFICES ASSUME Typed, Ordered, QuietCopyHolds, QuietDeployIsWhole, [Next]_vars
             PROVE  QuietCopyHolds' /\ QuietDeployIsWhole'
  OBVIOUS
<1> USE DEF Typed, TypeOK, QuietCopyHolds, QuietDeployIsWhole, disk
<1>1. CASE UNCHANGED vars
  BY <1>1 DEF vars, watch
<1>2. ASSUME NEW data \in Data, StartExport(data)
      PROVE QuietCopyHolds' /\ QuietDeployIsWhole'
  BY <1>2 DEF StartExport, watch
<1>3. CASE KillExport
  BY <1>3 DEF KillExport, watch
<1>4. ASSUME UNCHANGED <<watcher, site>>, Disturb
      PROVE QuietCopyHolds' /\ QuietDeployIsWhole'
  BY <1>4 DEF Disturb
<1>5. ASSUME \/ \E f \in Files : WriteFile(f)
             \/ \E b \in BOOLEAN : WriteManifest(b) \/ Sign(b)
      PROVE QuietCopyHolds' /\ QuietDeployIsWhole'
  BY <1>4, <1>5 DEF WriteFile, WriteManifest, Sign
<1>6. ASSUME UNCHANGED <<disk, site>>, UNCHANGED stage, watcher'.step \notin {"verify", "copy"}
      PROVE QuietCopyHolds' /\ QuietDeployIsWhole'
  BY <1>6
<1>7. ASSUME UNCHANGED site, Rest
      PROVE QuietCopyHolds' /\ QuietDeployIsWhole'
  BY <1>7, RestIsQuietAndDone
<1>8. CASE Poll
  BY <1>6, <1>8 DEF Poll
<1>9. CASE ReadAgain
  <2>1. UNCHANGED <<disk, site>>
        /\ (Rest \/ (UNCHANGED stage /\ watcher'.step \in {"stage", "settle"}))
    BY <1>9 DEF ReadAgain
  <2>2. QED
    BY <1>6, <1>7, <2>1
<1>10. CASE BuildRejects \/ DeployFails \/ Record \/ KillWatcher
  BY <1>7, <1>10 DEF BuildRejects, DeployFails, Record, KillWatcher
<1>11. CASE ReadManifest
  BY <1>11 DEF ReadManifest
<1>12. ASSUME NEW f \in Files, VerifyFile(f)
       PROVE  QuietCopyHolds' /\ QuietDeployIsWhole'
  <2>1. CASE package[f] = stage.manifest.files[f]
    <3>1. UNCHANGED <<disk, watcher, site>> /\ stage' = [stage EXCEPT !.todo = @ \ {f}]
      BY <1>12, <2>1 DEF VerifyFile
    <3>2. watcher.step = "verify"
      BY <1>12 DEF VerifyFile
    <3>3. \A g \in Files \ stage'.todo : g = f \/ g \in Files \ stage.todo
      BY <3>1
    <3>4. QED
      BY <2>1, <3>1, <3>2, <3>3
  <2>2. CASE package[f] # stage.manifest.files[f]
    BY <1>7, <1>12, <2>2 DEF VerifyFile
  <2>3. QED
    BY <2>1, <2>2
<1>13. CASE BeginCopy
  <2>1. stage.quiet => package = manifest.files
    BY <1>13 DEF BeginCopy, Listing, Manifests
  <2>2. QED
    BY <1>13, <2>1 DEF BeginCopy, NoManifest
<1>14. ASSUME NEW f \in Files, CopyFile(f)
       PROVE  QuietCopyHolds' /\ QuietDeployIsWhole'
  <2>1. UNCHANGED <<disk, watcher, site>> /\ watcher.step = "copy"
        /\ stage' = [stage EXCEPT !.files[f] = package[f], !.todo = @ \ {f}]
    BY <1>14 DEF CopyFile
  <2>2. \A g \in Files \ stage'.todo :
          stage'.files[g] = package[g] \/ (g \in Files \ stage.todo /\ stage'.files[g] = stage.files[g])
    BY <2>1 DEF Listing
  <2>3. QED
    BY <2>1, <2>2
<1>15. CASE CopyManifest
  BY <1>15 DEF CopyManifest
<1>16. CASE Push
  <2>1. stage.quiet => stage.files = stage.manifest.files
    <3>1. stage.todo = {} /\ stage.manifest.at # 0 /\ watcher.step = "copy"
      BY <1>16 DEF Push
    <3>2. stage.quiet => stage.manifest.files = package
      BY <3>1
    <3>3. stage.quiet => \A f \in Files : stage.files[f] = package[f]
      BY <3>1
    <3>4. QED
      BY <3>2, <3>3 DEF Listing
  <2>2. watcher'.step = "record" /\ UNCHANGED <<disk, stage>>
        /\ site' = [manifest |-> stage.manifest, files |-> stage.files, quiet |-> stage.quiet]
    BY <1>16 DEF Push
  <2>3. QED
    BY <2>1, <2>2
<1>17. QED
  BY <1>1, <1>2, <1>3, <1>5, <1>8, <1>9, <1>10, <1>11, <1>12, <1>13, <1>14, <1>15, <1>16
     DEF Next, ExportStep, WatcherStep

-----------------------------------------------------------------------------
(***************************************************************************)
(* Theorems.                                                               *)
(***************************************************************************)

LEMMA Inductive == Spec => []IInv
<1>1. IInv /\ [Next]_vars => IInv'
  BY TypedStep, OrderedStep, ListedStep, EarnedStep, WholeStep DEF IInv
<1>2. QED
  BY InitIInv, <1>1, PTL DEF Spec

\* Exporter, watcher and deploy keep their types whatever is killed.
THEOREM TypeCorrect == Spec => []TypeOK
<1>1. IInv => TypeOK
  BY DEF IInv, Typed
<1>2. QED
  BY Inductive, <1>1, PTL

\* A deploy no export has written into pushes one whole package.
THEOREM DeployWhole == Spec => []QuietDeployIsWhole
<1>1. IInv => QuietDeployIsWhole
  BY DEF IInv
<1>2. QED
  BY Inductive, <1>1, PTL

\* The recorded fingerprint never runs ahead of the site.
THEOREM RecordBehindSite == Spec => []RecordedIsNotNewer
<1>1. IInv => RecordedIsNotNewer
  BY DEF IInv, Ordered, WatcherIsBehind, RecordedIsNotNewer
<1>2. QED
  BY Inductive, <1>1, PTL

\* No approval, standing or given, makes a package publishable that the scan
\* would refuse.
THEOREM CleanWhenPublishable == Spec => []PublishableIsClean
<1>1. IInv => PublishableIsClean
  BY DEF IInv, AllEarned, PublishableIsClean
<1>2. QED
  BY Inductive, <1>1, PTL
=============================================================================
