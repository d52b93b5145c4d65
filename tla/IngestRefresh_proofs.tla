------------------------ MODULE IngestRefresh_proofs ------------------------
(***************************************************************************)
(* Proofs about IngestRefresh, for any repository, any windows, any bucket *)
(* sizes and any number of failures, kills and changes upstream.           *)
(***************************************************************************)
EXTENDS IngestRefresh, Discovery, TLAPS, FiniteSetTheorems

(***************************************************************************)
(* The parts of the inductive invariant.                                   *)
(***************************************************************************)

\* Discovery returns numbers that exist; a number never goes back to unborn.
FoundIsBorn ==
  \A s \in DOMAIN found : \A r \in found[s] : upstream[r.number] # "unborn"

SlicesOfWindow == pass = "discover" => left \subseteq window

RepliesKeepToTheirBatch ==
  \A r \in stored : \A x \in r.records : x.number \in r.batch

DiscussedOnDisk(p) == \E c \in OnDisk("core") : c.number = p /\ c.discussed

CoresAreOnDisk == cores \subseteq OnDisk("core")

RepliesAreSupported ==
  \A r \in stored : r.pass = "detail" =>
    \A x \in r.records : DiscussedOnDisk(x.number)

DetailIsSupported == \A x \in OnDisk("detail") : DiscussedOnDisk(x.number)

\* The passes a run has begun when it is in pass q.
UpTo(q) ==
  CASE q = "core"   -> {"core"}
    [] q = "detail" -> {"core", "detail"}
    [] q \in {"issues", "done"} -> Passes
    [] OTHER -> {}

\* A failed batch is behind: its pass has begun, and its bucket is consumed.
FailedAreBehind ==
  \A b \in failed : b[1] \in UpTo(pass) /\ (b[1] = pass => b[2] \notin left)

-----------------------------------------------------------------------------
(* Which steps touch what. *)

\* Only FetchShard writes a shard.
LEMMA DiskSteps ==
  [Next]_vars => UNCHANGED disk \/ \E k \in left : FetchShard(k)
<1> SUFFICES ASSUME [Next]_vars PROVE UNCHANGED disk \/ \E k \in left : FetchShard(k)
  OBVIOUS
<1> USE DEF run, world
<1>1. CASE WorldStep
  BY <1>1 DEF WorldStep, Open, Merge, Vanish, Become, Discuss, Happens
<1>2. CASE \E w \in Windows : Discover(w)
  BY <1>2 DEF Discover
<1>3. CASE RunStep
  BY <1>3 DEF RunStep, SearchSlice, ReadShard, BeginCore, BeginDetail,
              BeginIssues, Begin, Finish, Exit, Forget
<1>4. CASE \E k \in left : FailBatch(k)
  BY <1>4 DEF FailBatch
<1>5. CASE Kill
  BY <1>5 DEF Kill, Forget
<1>6. CASE UNCHANGED vars
  BY <1>6 DEF vars
<1>7. QED
  BY <1>1, <1>2, <1>3, <1>4, <1>5, <1>6 DEF Next

\* Only a failed batch and a kill leave a response without a shard.
LEMMA StoredSteps ==
  [Next]_vars => UNCHANGED stored \/ \E k \in left : Fetching(k) /\ StoreReply(k)
<1> SUFFICES ASSUME [Next]_vars
             PROVE  UNCHANGED stored \/ \E k \in left : Fetching(k) /\ StoreReply(k)
  OBVIOUS
<1> USE DEF run, world
<1>1. CASE WorldStep
  BY <1>1 DEF WorldStep, Open, Merge, Vanish, Become, Discuss, Happens
<1>2. CASE \E w \in Windows : Discover(w)
  BY <1>2 DEF Discover
<1>3. CASE RunStep
  BY <1>3 DEF RunStep, SearchSlice, ReadShard, FetchShard, BeginCore,
              BeginDetail, BeginIssues, Begin, Finish, Exit, Forget
<1>4. CASE \E k \in left : FailBatch(k)
  BY <1>4 DEF FailBatch
<1>5. CASE Kill
  BY <1>5 DEF Kill, Forget
<1>6. CASE UNCHANGED vars
  BY <1>6 DEF vars
<1>7. QED
  BY <1>1, <1>2, <1>3, <1>4, <1>5, <1>6 DEF Next

\* fetch_pr_core alone adds to the records it returns.
LEMMA CoresSteps ==
  [Next]_vars => \/ cores' \subseteq cores
                 \/ \E k \in left : /\ ReadShard(k) \/ FetchShard(k)
                                    /\ pass = "core"
<1> SUFFICES ASSUME [Next]_vars
             PROVE  \/ cores' \subseteq cores
                    \/ \E k \in left : (ReadShard(k) \/ FetchShard(k)) /\ pass = "core"
  OBVIOUS
<1> USE DEF run, world
<1>1. CASE WorldStep
  BY <1>1 DEF WorldStep, Open, Merge, Vanish, Become, Discuss, Happens
<1>2. CASE \E w \in Windows : Discover(w)
  BY <1>2 DEF Discover
<1>3. CASE RunStep
  BY <1>3 DEF RunStep, SearchSlice, ReadShard, FetchShard, Consume, BeginCore,
              BeginDetail, BeginIssues, Begin, Finish, Exit, Forget
<1>4. CASE \E k \in left : FailBatch(k)
  BY <1>4 DEF FailBatch
<1>5. CASE Kill
  BY <1>5 DEF Kill, Forget
<1>6. CASE UNCHANGED vars
  BY <1>6 DEF vars
<1>7. QED
  BY <1>1, <1>2, <1>3, <1>4, <1>5, <1>6 DEF Next

\* Writing a shard adds the reply to its pass's records and removes nothing.
LEMMA FetchGrows ==
  ASSUME DOMAIN disk = Passes, NEW k \in left, FetchShard(k)
  PROVE  /\ pass \in Passes
         /\ \A q \in Passes : OnDisk(q) \subseteq OnDisk(q)'
         /\ \A q \in Passes : q # pass => OnDisk(q)' = OnDisk(q)
         /\ \A q \in Passes : q = pass =>
              /\ Reply(k) \subseteq OnDisk(q)'
              /\ OnDisk(q)' \subseteq OnDisk(q) \union Reply(k)
         /\ \A q \in Passes : q # pass => disk'[q] = disk[q]
         /\ DOMAIN disk'[pass] = DOMAIN disk[pass] \union {k}
         /\ \A j \in DOMAIN disk[pass] : disk'[pass][j] = disk[pass][j]
         /\ disk'[pass][k] = Reply(k)
<1>1. pass \in Passes /\ k \notin DOMAIN disk[pass]
      /\ disk' = [disk EXCEPT ![pass] = Put(@, k, Reply(k))]
      /\ pass' = pass
  BY DEF FetchShard, Fetching, Consume
<1>2. \A q \in Passes : q # pass => disk'[q] = disk[q]
  BY <1>1
<1>3. disk'[pass] = [j \in DOMAIN disk[pass] \union {k} |->
                       IF j = k THEN Reply(k) ELSE disk[pass][j]]
  BY <1>1 DEF Put
<1>4. /\ DOMAIN disk'[pass] = DOMAIN disk[pass] \union {k}
      /\ \A j \in DOMAIN disk[pass] : disk'[pass][j] = disk[pass][j]
      /\ disk'[pass][k] = Reply(k)
  BY <1>1, <1>3
<1>5. OnDisk(pass) \subseteq OnDisk(pass)' /\ Reply(k) \subseteq OnDisk(pass)'
  BY <1>1, <1>4 DEF OnDisk
<1>6. OnDisk(pass)' \subseteq OnDisk(pass) \union Reply(k)
  BY <1>1, <1>4 DEF OnDisk
<1>7. \A q \in Passes : q # pass => OnDisk(q)' = OnDisk(q)
  BY <1>2 DEF OnDisk
<1>8. QED
  BY <1>1, <1>2, <1>4, <1>5, <1>6, <1>7

LEMMA AnswerKeepsToNumbers ==
  ASSUME NEW q \in Passes, NEW numbers, NEW x \in Answer(q, numbers)
  PROVE  x.number \in numbers
<1>1. CASE q = "core"
  BY <1>1 DEF Answer, Core
<1>2. CASE q = "detail"
  BY <1>2 DEF Answer
<1>3. CASE q = "issues"
  BY <1>3 DEF Answer
<1>4. QED
  BY <1>1, <1>2, <1>3 DEF Passes

\* A reply, stored or fresh, holds records of the batch asked for.
LEMMA ReplyKeepsToBatch ==
  ASSUME RepliesKeepToTheirBatch, NEW k, pass \in Passes, NEW x \in Reply(k)
  PROVE  x.number \in Batch(Targets(pass), pass, k)
<1> DEFINE batch == Batch(Targets(pass), pass, k)
           old   == {r \in stored : r.pass = pass /\ r.batch = batch}
<1>1. CASE old # {}
  <2>1. PICK r \in old : x \in r.records
    BY <1>1 DEF Reply
  <2>2. QED
    BY <2>1 DEF RepliesKeepToTheirBatch
<1>2. CASE old = {}
  <2>1. x \in Answer(pass, batch)
    BY <1>2 DEF Reply
  <2>2. QED
    BY <2>1, AnswerKeepsToNumbers
<1>3. QED
  BY <1>1, <1>2

LEMMA ReplyIsSupported ==
  ASSUME RepliesKeepToTheirBatch, CoresAreOnDisk, pass = "detail",
         NEW k, NEW x \in Reply(k)
  PROVE  DiscussedOnDisk(x.number)
<1>1. x.number \in DetailTargets
  BY ReplyKeepsToBatch DEF Passes, Batch, Targets
<1>2. PICK c \in cores : c.discussed /\ c.number = x.number
  BY <1>1 DEF DetailTargets
<1>3. QED
  BY <1>2 DEF CoresAreOnDisk, DiscussedOnDisk

\* What pr_core said stays said.
LEMMA SupportIsKept ==
  ASSUME DOMAIN disk = Passes, [Next]_vars, NEW p, DiscussedOnDisk(p)
  PROVE  DiscussedOnDisk(p)'
<1>1. OnDisk("core") \subseteq OnDisk("core")'
  <2>1. CASE UNCHANGED disk
    BY <2>1 DEF OnDisk
  <2>2. CASE \E k \in left : FetchShard(k)
    BY <2>2, FetchGrows DEF Passes
  <2>3. QED
    BY <2>1, <2>2, DiskSteps
<1>2. QED
  BY <1>1 DEF DiscussedOnDisk

-----------------------------------------------------------------------------
(* Each part is kept by every step. *)

\* A step that stores a reply stores one of its own batch.
LEMMA KeepsBatches ==
  RepliesKeepToTheirBatch /\ [Next]_vars => RepliesKeepToTheirBatch'
<1> SUFFICES ASSUME RepliesKeepToTheirBatch, [Next]_vars
             PROVE  RepliesKeepToTheirBatch'
  OBVIOUS
<1>1. CASE UNCHANGED stored
  BY <1>1 DEF RepliesKeepToTheirBatch
<1>2. CASE \E k \in left : Fetching(k) /\ StoreReply(k)
  <2>1. PICK k \in left : Fetching(k) /\ StoreReply(k)
    BY <1>2
  <2>2. \A x \in Reply(k) : x.number \in Batch(Targets(pass), pass, k)
    BY <2>1, ReplyKeepsToBatch DEF Fetching
  <2>3. QED
    BY <2>1, <2>2 DEF RepliesKeepToTheirBatch, StoreReply
<1>3. QED
  BY <1>1, <1>2, StoredSteps

LEMMA KeepsBuckets ==
  /\ RecordsLieInTheirBucket /\ RepliesKeepToTheirBatch /\ DOMAIN disk = Passes
  /\ [Next]_vars
  => RecordsLieInTheirBucket'
<1> SUFFICES ASSUME RecordsLieInTheirBucket, RepliesKeepToTheirBatch,
                    DOMAIN disk = Passes, [Next]_vars
             PROVE  RecordsLieInTheirBucket'
  OBVIOUS
<1>1. CASE UNCHANGED disk
  BY <1>1 DEF RecordsLieInTheirBucket
<1>2. CASE \E k \in left : FetchShard(k)
  <2>1. PICK k \in left : FetchShard(k)
    BY <1>2
  <2>2. pass \in Passes
    BY <2>1 DEF FetchShard, Fetching
  <2>3. \A x \in Reply(k) : BucketOf(x.number, pass) = k
    BY <2>2, ReplyKeepsToBatch DEF Batch
  <2>4. QED
    BY <2>1, <2>2, <2>3, FetchGrows DEF RecordsLieInTheirBucket
<1>3. QED
  BY <1>1, <1>2, DiskSteps

LEMMA KeepsCores ==
  CoresAreOnDisk /\ DOMAIN disk = Passes /\ [Next]_vars => CoresAreOnDisk'
<1> SUFFICES ASSUME CoresAreOnDisk, DOMAIN disk = Passes, [Next]_vars
             PROVE  CoresAreOnDisk'
  OBVIOUS
<1>1. OnDisk("core") \subseteq OnDisk("core")'
  <2>1. CASE UNCHANGED disk
    BY <2>1 DEF OnDisk
  <2>2. CASE \E k \in left : FetchShard(k)
    BY <2>2, FetchGrows DEF Passes
  <2>3. QED
    BY <2>1, <2>2, DiskSteps
<1>2. CASE cores' \subseteq cores
  BY <1>1, <1>2 DEF CoresAreOnDisk
<1>3. ASSUME NEW k \in left, pass = "core", ReadShard(k)
      PROVE  CoresAreOnDisk'
  <2>1. cores' = cores \union disk["core"][k] /\ k \in DOMAIN disk["core"]
    BY <1>3 DEF ReadShard, Consume
  <2>2. cores' \subseteq OnDisk("core")
    BY <2>1 DEF CoresAreOnDisk, OnDisk
  <2>3. QED
    BY <1>1, <2>2 DEF CoresAreOnDisk
<1>4. ASSUME NEW k \in left, pass = "core", FetchShard(k)
      PROVE  CoresAreOnDisk'
  <2>1. cores' = cores \union Reply(k)
    BY <1>4 DEF FetchShard, Consume
  <2>2. Reply(k) \subseteq OnDisk("core")'
    BY <1>4, FetchGrows
  <2>3. QED
    BY <1>1, <2>1, <2>2 DEF CoresAreOnDisk
<1>5. QED
  BY <1>2, <1>3, <1>4, CoresSteps

LEMMA KeepsSupport ==
  /\ CoresAreOnDisk /\ RepliesKeepToTheirBatch /\ DOMAIN disk = Passes
  /\ RepliesAreSupported /\ DetailIsSupported /\ [Next]_vars
  => RepliesAreSupported' /\ DetailIsSupported'
<1> SUFFICES ASSUME CoresAreOnDisk, RepliesKeepToTheirBatch, [Next]_vars,
                    DOMAIN disk = Passes, RepliesAreSupported, DetailIsSupported
             PROVE  RepliesAreSupported' /\ DetailIsSupported'
  OBVIOUS
<1>1. \A p : DiscussedOnDisk(p) => DiscussedOnDisk(p)'
  BY SupportIsKept
<1>2. RepliesAreSupported'
  <2>1. CASE UNCHANGED stored
    BY <1>1, <2>1 DEF RepliesAreSupported
  <2>2. ASSUME NEW k \in left, Fetching(k), StoreReply(k)
        PROVE  RepliesAreSupported'
    <3>1. ASSUME NEW r \in stored', r.pass = "detail", NEW x \in r.records
          PROVE  DiscussedOnDisk(x.number)
      <4>1. CASE r \in stored
        BY <3>1, <4>1 DEF RepliesAreSupported
      <4>2. CASE r \notin stored
        <5>1. r = [pass |-> pass, batch |-> Batch(Targets(pass), pass, k),
                   records |-> Reply(k)]
          BY <2>2, <3>1, <4>2 DEF StoreReply
        <5>2. pass = "detail" /\ x \in Reply(k)
          BY <3>1, <5>1
        <5>3. QED
          BY <5>2, ReplyIsSupported
      <4>3. QED
        BY <4>1, <4>2
    <3>2. QED
      BY <1>1, <3>1 DEF RepliesAreSupported
  <2>3. QED
    BY <2>1, <2>2, StoredSteps
<1>3. DetailIsSupported'
  <2>1. CASE UNCHANGED disk
    BY <1>1, <2>1 DEF DetailIsSupported, OnDisk
  <2>2. ASSUME NEW k \in left, FetchShard(k)
        PROVE  DetailIsSupported'
    <3>1. CASE pass = "detail"
      <4>1. \A x \in Reply(k) : DiscussedOnDisk(x.number)
        BY <3>1, ReplyIsSupported
      <4>2. OnDisk("detail")' \subseteq OnDisk("detail") \union Reply(k)
        BY <2>2, <3>1, FetchGrows
      <4>3. QED
        BY <1>1, <4>1, <4>2 DEF DetailIsSupported
    <3>2. CASE pass # "detail"
      <4>1. OnDisk("detail")' = OnDisk("detail")
        BY <2>2, <3>2, FetchGrows DEF Passes
      <4>2. QED
        BY <1>1, <4>1 DEF DetailIsSupported
    <3>3. QED
      BY <3>1, <3>2
  <2>3. QED
    BY <2>1, <2>2, DiskSteps
<1>4. QED
  BY <1>2, <1>3

\* A failed batch stays behind: no later pass is its own, no step of its own
\* pass meets its bucket again.
LEMMA KeepsBehind ==
  FailedAreBehind /\ [Next]_vars => FailedAreBehind'
<1> SUFFICES ASSUME FailedAreBehind, [Next]_vars PROVE FailedAreBehind'
  OBVIOUS
<1> USE DEF FailedAreBehind, UpTo, Passes
<1>1. CASE WorldStep
  BY <1>1 DEF WorldStep, Open, Merge, Vanish, Become, Discuss, Happens, run
<1>2. CASE \E w \in Windows : Discover(w)
  BY <1>2 DEF Discover
<1>3. CASE \E s \in left : SearchSlice(s)
  BY <1>3 DEF SearchSlice
<1>4. CASE \E k \in left : ReadShard(k) \/ FetchShard(k)
  BY <1>4 DEF ReadShard, FetchShard, Consume
<1>5. CASE BeginCore
  BY <1>5 DEF BeginCore, Begin
<1>6. CASE BeginDetail
  BY <1>6 DEF BeginDetail, Begin
<1>7. CASE BeginIssues
  BY <1>7 DEF BeginIssues, Begin
<1>8. CASE Finish
  BY <1>8 DEF Finish
<1>9. CASE Exit \/ Kill
  BY <1>9 DEF Exit, Kill, Forget
<1>10. ASSUME NEW k \in left, FailBatch(k) PROVE FailedAreBehind'
  BY <1>10 DEF FailBatch, Fetching
<1>11. CASE UNCHANGED vars
  BY <1>11 DEF vars, run
<1>12. QED
  BY <1>1, <1>2, <1>3, <1>4, <1>5, <1>6, <1>7, <1>8, <1>9, <1>10, <1>11
     DEF Next, RunStep

\* The failures of a step: none, those before, or one more without a shard.
LEMMA FailedSteps ==
  [Next]_vars => \/ failed' \subseteq failed
                 \/ \E k \in left : FailBatch(k)
<1> SUFFICES ASSUME [Next]_vars
             PROVE  failed' \subseteq failed \/ \E k \in left : FailBatch(k)
  OBVIOUS
<1> USE DEF run, world
<1>1. CASE WorldStep
  BY <1>1 DEF WorldStep, Open, Merge, Vanish, Become, Discuss, Happens
<1>2. CASE \E w \in Windows : Discover(w)
  BY <1>2 DEF Discover
<1>3. CASE RunStep
  BY <1>3 DEF RunStep, SearchSlice, ReadShard, FetchShard, Consume, BeginCore,
              BeginDetail, BeginIssues, Begin, Finish, Exit, Forget
<1>4. CASE Kill
  BY <1>4 DEF Kill, Forget
<1>5. CASE UNCHANGED vars
  BY <1>5 DEF vars
<1>6. QED
  BY <1>1, <1>2, <1>3, <1>4, <1>5 DEF Next

LEMMA KeepsFailures ==
  /\ FailureLeavesNoShard /\ FailedAreBehind /\ DOMAIN disk = Passes
  /\ [Next]_vars
  => FailureLeavesNoShard'
<1> SUFFICES ASSUME FailureLeavesNoShard, FailedAreBehind,
                    DOMAIN disk = Passes, [Next]_vars
             PROVE  FailureLeavesNoShard'
  OBVIOUS
<1>1. ASSUME NEW k \in left, FetchShard(k) PROVE FailureLeavesNoShard'
  <2>1. failed' = failed
    BY <1>1 DEF FetchShard, Consume
  <2>2. ASSUME NEW b \in failed PROVE b[2] \notin DOMAIN disk'[b[1]]
    <3>1. CASE b[1] = pass
      BY <1>1, <3>1, FetchGrows DEF FailedAreBehind, FailureLeavesNoShard
    <3>2. CASE b[1] # pass
      <4>1. b[1] \in Passes
        BY DEF FailedAreBehind, UpTo, Passes
      <4>2. QED
        BY <1>1, <3>2, <4>1, FetchGrows DEF FailureLeavesNoShard
    <3>3. QED
      BY <3>1, <3>2
  <2>3. QED
    BY <2>1, <2>2 DEF FailureLeavesNoShard
<1>2. ASSUME NEW k \in left, FailBatch(k) PROVE FailureLeavesNoShard'
  BY <1>2 DEF FailBatch, FailureLeavesNoShard
<1>3. CASE UNCHANGED disk /\ failed' \subseteq failed
  BY <1>3 DEF FailureLeavesNoShard
<1>4. QED
  BY <1>1, <1>2, <1>3, DiskSteps, FailedSteps

LEMMA KeepsSlices ==
  SlicesOfWindow /\ [Next]_vars => SlicesOfWindow'
<1> SUFFICES ASSUME SlicesOfWindow, [Next]_vars PROVE SlicesOfWindow'
  OBVIOUS
<1> USE DEF SlicesOfWindow, run
<1>1. CASE WorldStep
  BY <1>1 DEF WorldStep, Open, Merge, Vanish, Become, Discuss, Happens
<1>2. CASE \E w \in Windows : Discover(w)
  BY <1>2 DEF Discover
<1>3. CASE RunStep
  BY <1>3 DEF RunStep, SearchSlice, ReadShard, FetchShard, Fetching, Passes,
              Consume, BeginCore, BeginDetail, BeginIssues, Begin, Finish, Exit,
              Forget
<1>4. CASE \E k \in left : FailBatch(k)
  BY <1>4 DEF FailBatch, Fetching, Passes
<1>5. CASE Kill
  BY <1>5 DEF Kill, Forget
<1>6. CASE UNCHANGED vars
  BY <1>6 DEF vars
<1>7. QED
  BY <1>1, <1>2, <1>3, <1>4, <1>5, <1>6 DEF Next

-----------------------------------------------------------------------------
(* Types. *)

LEMMA SliceFacts ==
  \A s \in UNION Windows : s \subseteq Numbers
BY NumbersAssumption

LEMMA FoundAreNumbers ==
  ASSUME TypeOK, FoundIsBorn, NEW p \in Index
  PROVE  p \in Numbers /\ upstream[p] # "unborn"
<1>1. PICK s \in window \intersect DOMAIN found : \E r \in found[s] : r.number = p
  BY DEF Index, Rows
<1>2. PICK r \in found[s] : r.number = p
  BY <1>1
<1>3. s \in UNION Windows /\ r \in [number : s, merged : BOOLEAN]
  BY <1>1, <1>2 DEF TypeOK
<1>4. QED
  BY <1>1, <1>2, <1>3, SliceFacts DEF FoundIsBorn

LEMMA TargetsAreNumbers ==
  ASSUME TypeOK, FoundIsBorn, pass \in Passes, NEW n \in Targets(pass)
  PROVE  /\ n \in Nat
         /\ pass = "core" => n \in Numbers /\ upstream[n] # "unborn"
<1>1. CASE pass = "core"
  BY <1>1, FoundAreNumbers, NumbersAssumption DEF Targets
<1>2. CASE pass = "detail"
  <2>1. PICK c \in cores : c.number = n
    BY <1>2 DEF Targets, DetailTargets
  <2>2. c \in [number : Numbers, discussed : BOOLEAN,
               state : {"open", "merged", "none"}]
    BY <2>1 DEF TypeOK, Record
  <2>3. QED
    BY <1>2, <2>1, <2>2, NumbersAssumption
<1>3. CASE pass = "issues"
  <2>1. PICK c \in cores : IssueOf[c.number] = n
    BY <1>3 DEF Targets, IssueTargets
  <2>2. c \in [number : Numbers, discussed : BOOLEAN,
               state : {"open", "merged", "none"}]
    BY <2>1 DEF TypeOK, Record
  <2>3. QED
    BY <1>3, <2>1, <2>2, NumbersAssumption
<1>4. QED
  BY <1>1, <1>2, <1>3 DEF Passes

LEMMA ReplyType ==
  ASSUME TypeOK, FoundIsBorn, pass \in Passes, NEW k
  PROVE  Reply(k) \subseteq Record(pass)
<1> DEFINE batch == Batch(Targets(pass), pass, k)
           old   == {r \in stored : r.pass = pass /\ r.batch = batch}
<1>1. CASE old # {}
  <2>1. Reply(k) = UNION {r.records : r \in old}
    BY <1>1 DEF Reply
  <2>2. QED
    BY <2>1 DEF TypeOK
<1>2. CASE old = {}
  <2>1. Reply(k) = Answer(pass, batch)
    BY <1>2 DEF Reply
  <2>2. ASSUME NEW n \in batch
        PROVE  /\ n \in Nat
               /\ pass = "core" => n \in Numbers /\ upstream[n] # "unborn"
    BY TargetsAreNumbers DEF Batch
  <2>3. CASE pass = "core"
    <3>1. ASSUME NEW n \in batch PROVE Core(n) \in Record("core")
      <4>1. n \in Numbers /\ upstream[n] \in {"open", "merged", "gone"}
        BY <2>2, <2>3 DEF TypeOK
      <4>2. QED
        BY <4>1 DEF Core, Record
    <3>2. QED
      BY <2>1, <2>3, <3>1 DEF Answer
  <2>4. CASE pass = "detail"
    BY <2>1, <2>2, <2>4 DEF Answer, Record
  <2>5. CASE pass = "issues"
    BY <2>1, <2>2, <2>5 DEF Answer, Record
  <2>6. QED
    BY <2>3, <2>4, <2>5 DEF Passes
<1>3. QED
  BY <1>1, <1>2

LEMMA DiskType ==
  ASSUME TypeOK, FoundIsBorn, [Next]_vars
  PROVE  /\ DOMAIN disk' = Passes
         /\ \A q \in Passes : \A k \in DOMAIN disk'[q] :
              disk'[q][k] \subseteq Record(q)
<1>1. CASE UNCHANGED disk
  BY <1>1 DEF TypeOK
<1>2. ASSUME NEW k \in left, FetchShard(k)
      PROVE  /\ DOMAIN disk' = Passes
             /\ \A q \in Passes : \A j \in DOMAIN disk'[q] :
                  disk'[q][j] \subseteq Record(q)
  <2>1. DOMAIN disk = Passes
    BY DEF TypeOK
  <2>2. DOMAIN disk' = Passes
    BY <1>2, <2>1 DEF FetchShard
  <2>3. pass \in Passes
    BY <1>2, <2>1, FetchGrows
  <2>4. Reply(k) \subseteq Record(pass)
    BY <2>3, ReplyType
  <2>5. ASSUME NEW q \in Passes, NEW j \in DOMAIN disk'[q]
        PROVE  disk'[q][j] \subseteq Record(q)
    <3>1. CASE q = pass /\ j = k
      BY <1>2, <2>1, <2>4, <3>1, FetchGrows
    <3>2. CASE q = pass /\ j # k
      <4>1. j \in DOMAIN disk[pass] /\ disk'[pass][j] = disk[pass][j]
        BY <1>2, <2>1, <3>2, FetchGrows
      <4>2. QED
        BY <3>2, <4>1 DEF TypeOK
    <3>3. CASE q # pass
      <4>1. disk'[q] = disk[q]
        BY <1>2, <2>1, <3>3, FetchGrows
      <4>2. QED
        BY <4>1 DEF TypeOK
    <3>4. QED
      BY <3>1, <3>2, <3>3
  <2>6. QED
    BY <2>2, <2>5
<1>3. QED
  BY <1>1, <1>2, DiskSteps

LEMMA StoredType ==
  ASSUME TypeOK, FoundIsBorn, [Next]_vars, NEW r \in stored'
  PROVE  r.pass \in Passes /\ r.records \subseteq Record(r.pass)
<1>1. CASE r \in stored
  BY <1>1 DEF TypeOK
<1>2. CASE r \notin stored
  <2>1. PICK k \in left : Fetching(k) /\ StoreReply(k)
    BY <1>2, StoredSteps
  <2>2. r = [pass |-> pass, batch |-> Batch(Targets(pass), pass, k),
             records |-> Reply(k)]
    BY <1>2, <2>1 DEF StoreReply
  <2>3. pass \in Passes /\ Reply(k) \subseteq Record(pass)
    BY <2>1, ReplyType DEF Fetching
  <2>4. QED
    BY <2>2, <2>3
<1>3. QED
  BY <1>1, <1>2

LEMMA CoresType ==
  ASSUME TypeOK, FoundIsBorn, [Next]_vars
  PROVE  cores' \subseteq Record("core")
<1>1. CASE cores' \subseteq cores
  BY <1>1 DEF TypeOK
<1>2. ASSUME NEW k \in left, pass = "core", ReadShard(k)
      PROVE  cores' \subseteq Record("core")
  BY <1>2 DEF ReadShard, Consume, TypeOK, Passes
<1>3. ASSUME NEW k \in left, pass = "core", FetchShard(k)
      PROVE  cores' \subseteq Record("core")
  <2>1. Reply(k) \subseteq Record("core")
    BY <1>3, ReplyType DEF Passes
  <2>2. QED
    BY <1>3, <2>1 DEF FetchShard, Consume, TypeOK
<1>4. QED
  BY <1>1, <1>2, <1>3, CoresSteps

\* The search of a slice is typed, and finds numbers that are born.
LEMMA FoundType ==
  ASSUME TypeOK, SlicesOfWindow, FoundIsBorn, [Next]_vars
  PROVE  /\ DOMAIN found' \subseteq UNION Windows
         /\ \A s \in DOMAIN found' : found'[s] \subseteq [number : s, merged : BOOLEAN]
         /\ \A s \in DOMAIN found' : \A r \in found'[s] : upstream[r.number] # "unborn"
<1> DEFINE Typed == /\ DOMAIN found' \subseteq UNION Windows
                    /\ \A s \in DOMAIN found' :
                         found'[s] \subseteq [number : s, merged : BOOLEAN]
                    /\ \A s \in DOMAIN found' : \A r \in found'[s] :
                         upstream[r.number] # "unborn"
<1> USE DEF run, world
<1>1. CASE UNCHANGED found
  BY <1>1 DEF TypeOK, FoundIsBorn
<1>2. ASSUME NEW s \in left, SearchSlice(s) PROVE Typed
  <2>1. s \in UNION Windows
    BY <1>2 DEF SearchSlice, SlicesOfWindow, TypeOK
  <2>2. CASE s \in DOMAIN found
    BY <1>1, <1>2, <2>2 DEF SearchSlice
  <2>3. CASE s \notin DOMAIN found
    <3>1. found' = [j \in DOMAIN found \union {s} |->
                      IF j = s THEN Search(s) ELSE found[j]]
      BY <1>2, <2>3 DEF SearchSlice, Put
    <3>2. ASSUME NEW r \in Search(s) PROVE r \in [number : s, merged : BOOLEAN]
      <4>1. PICK p \in s : r = [number |-> p, merged |-> upstream[p] = "merged"]
        BY DEF Search
      <4>2. (upstream[p] = "merged") \in BOOLEAN
        OBVIOUS
      <4>3. QED
        BY <4>1, <4>2
    <3>3. \A r \in Search(s) : upstream[r.number] # "unborn"
      BY DEF Search
    <3>4. DOMAIN found' = DOMAIN found \union {s}
      BY <3>1
    <3>5. \A j \in DOMAIN found' : found'[j] = IF j = s THEN Search(s) ELSE found[j]
      BY <3>1
    <3>6. QED
      BY <2>1, <3>2, <3>3, <3>4, <3>5 DEF TypeOK, FoundIsBorn
  <2>4. QED
    BY <2>2, <2>3
<1>3. UNCHANGED found \/ \E s \in left : SearchSlice(s)
  <2>1. CASE WorldStep
    BY <2>1 DEF WorldStep, Open, Merge, Vanish, Become, Discuss, Happens
  <2>2. CASE \E w \in Windows : Discover(w)
    BY <2>2 DEF Discover
  <2>3. CASE RunStep
    BY <2>3 DEF RunStep, ReadShard, FetchShard, BeginCore, BeginDetail,
                BeginIssues, Begin, Finish, Exit, Forget
  <2>4. CASE \E k \in left : FailBatch(k)
    BY <2>4 DEF FailBatch
  <2>5. CASE Kill
    BY <2>5 DEF Kill, Forget
  <2>6. CASE UNCHANGED vars
    BY <2>6 DEF vars
  <2>7. QED
    BY <2>1, <2>2, <2>3, <2>4, <2>5, <2>6 DEF Next
<1>4. QED
  BY <1>1, <1>2, <1>3

\* No change upstream makes a number unborn again.
LEMMA NoOneIsUnborn ==
  ASSUME TypeOK, [Next]_vars, NEW p \in Numbers, upstream[p] # "unborn"
  PROVE  upstream'[p] # "unborn"
<1> USE DEF run, world
<1>1. CASE WorldStep
  BY <1>1 DEF WorldStep, Open, Merge, Vanish, Become, Discuss, TypeOK
<1>2. CASE UNCHANGED upstream
  BY <1>2
<1>3. CASE \E w \in Windows : Discover(w)
  BY <1>3 DEF Discover
<1>4. CASE RunStep
  BY <1>4 DEF RunStep, SearchSlice, ReadShard, FetchShard, BeginCore,
              BeginDetail, BeginIssues, Begin, Finish, Exit, Forget
<1>5. CASE \E k \in left : FailBatch(k)
  BY <1>5 DEF FailBatch
<1>6. CASE Kill
  BY <1>6 DEF Kill, Forget
<1>7. CASE UNCHANGED vars
  BY <1>7 DEF vars
<1>8. QED
  BY <1>1, <1>3, <1>4, <1>5, <1>6, <1>7 DEF Next

LEMMA KeepsFound ==
  TypeOK /\ SlicesOfWindow /\ FoundIsBorn /\ [Next]_vars => FoundIsBorn'
<1> SUFFICES ASSUME TypeOK, SlicesOfWindow, FoundIsBorn, [Next]_vars
             PROVE  FoundIsBorn'
  OBVIOUS
<1> SUFFICES ASSUME NEW s \in DOMAIN found', NEW r \in found'[s]
             PROVE  upstream'[r.number] # "unborn"
  BY DEF FoundIsBorn
<1>1. s \in UNION Windows /\ r.number \in s /\ upstream[r.number] # "unborn"
  BY FoundType
<1>2. QED
  BY <1>1, SliceFacts, NoOneIsUnborn

\* The variables no other lemma speaks of.
LEMMA RestType ==
  ASSUME TypeOK, [Next]_vars
  PROVE  /\ upstream' \in [Numbers -> {"unborn", "open", "merged", "gone"}]
         /\ discussed' \subseteq Numbers
         /\ pass' \in Passes \union {"idle", "discover", "done"}
         /\ window' \in Windows \union {{}}
         /\ failed' \subseteq scars' /\ clean' \in BOOLEAN
         /\ events' \in 0 .. MaxEvents
         /\ failures' \in 0 .. MaxFailures
<1> USE BatchAssumption DEF TypeOK, run, world, past, Passes
<1>1. CASE WorldStep
  <2>1. PICK p \in Numbers : Open(p) \/ Merge(p) \/ Vanish(p) \/ Discuss(p)
    BY <1>1 DEF WorldStep
  <2>2. Happens
    BY <2>1 DEF Open, Merge, Vanish, Become, Discuss
  <2>3. events' \in 0 .. MaxEvents /\ clean' \in BOOLEAN
    BY <2>2 DEF Happens
  <2>4. upstream' \in [Numbers -> {"unborn", "open", "merged", "gone"}]
        /\ discussed' \subseteq Numbers
    BY <2>1 DEF Open, Merge, Vanish, Become, Discuss
  <2>5. QED
    BY <2>2, <2>3, <2>4 DEF Happens
<1>2. CASE \E w \in Windows : Discover(w)
  BY <1>2 DEF Discover
<1>3. CASE \E s \in left : SearchSlice(s)
  BY <1>3 DEF SearchSlice
<1>4. CASE \E k \in left : ReadShard(k) \/ FetchShard(k)
  BY <1>4 DEF ReadShard, FetchShard, Consume
<1>5. CASE BeginCore \/ BeginDetail \/ BeginIssues
  BY <1>5 DEF BeginCore, BeginDetail, BeginIssues, Begin
<1>6. CASE Finish
  BY <1>6 DEF Finish
<1>7. CASE Exit
  BY <1>7 DEF Exit, Forget
<1>8. ASSUME NEW k \in left, FailBatch(k)
      PROVE  /\ UNCHANGED <<world, pass, window>>
             /\ failed' \subseteq scars' /\ clean' \in BOOLEAN
             /\ failures' \in 0 .. MaxFailures
  <2>1. /\ failures < MaxFailures /\ failures' = failures + 1
        /\ failed' = failed \union {<<pass, k>>} /\ scars' = scars \union {<<pass, k>>}
        /\ clean' = clean
    BY <1>8 DEF FailBatch
  <2>2. UNCHANGED <<world, pass, window>>
    BY <1>8 DEF FailBatch
  <2>3. failures' \in 0 .. MaxFailures
    BY <2>1
  <2>4. QED
    BY <2>1, <2>2, <2>3
<1>9. CASE Kill
  BY <1>9 DEF Kill, Forget
<1>10. CASE UNCHANGED vars
  BY <1>10 DEF vars
<1>11. QED
  BY <1>1, <1>2, <1>3, <1>4, <1>5, <1>6, <1>7, <1>8, <1>9, <1>10 DEF Next, RunStep

LEMMA KeepsTypes ==
  TypeOK /\ SlicesOfWindow /\ FoundIsBorn /\ [Next]_vars => TypeOK'
<1> SUFFICES ASSUME TypeOK, SlicesOfWindow, FoundIsBorn, [Next]_vars PROVE TypeOK'
  OBVIOUS
<1>1. /\ DOMAIN found' \subseteq UNION Windows
      /\ \A s \in DOMAIN found' : found'[s] \subseteq [number : s, merged : BOOLEAN]
  BY FoundType
<1>2. \A r \in stored' : r.pass \in Passes /\ r.records \subseteq Record(r.pass)
  BY StoredType
<1>3. QED
  BY <1>1, <1>2, DiskType, CoresType, RestType DEF TypeOK, Record

-----------------------------------------------------------------------------
(* The theorems. *)

IInv ==
  /\ TypeOK /\ FoundIsBorn /\ SlicesOfWindow
  /\ RepliesKeepToTheirBatch /\ RecordsLieInTheirBucket
  /\ CoresAreOnDisk /\ RepliesAreSupported /\ DetailIsSupported
  /\ FailedAreBehind /\ FailureLeavesNoShard

LEMMA InitIInv == Init => IInv
<1> SUFFICES ASSUME Init PROVE IInv
  OBVIOUS
<1> USE DEF Init
<1>1. DOMAIN found = {} /\ DOMAIN disk = Passes
      /\ \A q \in Passes : DOMAIN disk[q] = {}
  BY DEF Empty
<1>2. TypeOK
  BY <1>1, NumbersAssumption, BatchAssumption DEF TypeOK, Passes
<1>3. \A q \in Passes : OnDisk(q) = {}
  BY <1>1 DEF OnDisk
<1>4. FoundIsBorn /\ SlicesOfWindow /\ RepliesKeepToTheirBatch
      /\ RecordsLieInTheirBucket
  BY <1>1 DEF FoundIsBorn, SlicesOfWindow, RepliesKeepToTheirBatch,
              RecordsLieInTheirBucket
<1>5. CoresAreOnDisk /\ RepliesAreSupported /\ DetailIsSupported
  BY <1>3 DEF CoresAreOnDisk, RepliesAreSupported, DetailIsSupported, Passes
<1>6. FailedAreBehind /\ FailureLeavesNoShard
  BY DEF FailedAreBehind, FailureLeavesNoShard
<1>7. QED
  BY <1>2, <1>4, <1>5, <1>6 DEF IInv

LEMMA NextIInv == IInv /\ [Next]_vars => IInv'
<1> SUFFICES ASSUME IInv, [Next]_vars PROVE IInv'
  OBVIOUS
<1>1. DOMAIN disk = Passes
  BY DEF IInv, TypeOK
<1>2. TypeOK' /\ FoundIsBorn' /\ SlicesOfWindow'
  BY KeepsTypes, KeepsFound, KeepsSlices DEF IInv
<1>3. RepliesKeepToTheirBatch' /\ RecordsLieInTheirBucket'
  BY <1>1, KeepsBatches, KeepsBuckets DEF IInv
<1>4. CoresAreOnDisk' /\ RepliesAreSupported' /\ DetailIsSupported'
  BY <1>1, KeepsCores, KeepsSupport DEF IInv
<1>5. FailedAreBehind' /\ FailureLeavesNoShard'
  BY <1>1, KeepsBehind, KeepsFailures DEF IInv
<1>6. QED
  BY <1>2, <1>3, <1>4, <1>5 DEF IInv

\* The inductive invariant holds in every reachable state.
THEOREM Invariant == Spec => []IInv
<1>1. QED
  BY InitIInv, NextIInv, PTL DEF Spec

\* Every variable keeps its type, and every shard holds records of its pass.
THEOREM TypeCorrect == Spec => []TypeOK
<1>1. IInv => TypeOK
  BY DEF IInv
<1>2. QED
  BY <1>1, Invariant, PTL

\* Every record lies in the shard of its own bucket, for any bucket sizes,
\* so a later run that looks for the bucket by name finds the record.
THEOREM RecordsInBucket == Spec => []RecordsLieInTheirBucket
<1>1. IInv => RecordsLieInTheirBucket
  BY DEF IInv
<1>2. QED
  BY <1>1, Invariant, PTL

\* A number in a detail shard is on disk in pr_core as a discussed one.
THEOREM DetailHasCore == Spec => []DetailNeedsCore
<1>1. IInv => DetailNeedsCore
  BY DEF IInv, DetailIsSupported, DiscussedOnDisk, DetailNeedsCore, NumbersOnDisk
<1>2. QED
  BY <1>1, Invariant, PTL

\* A batch counted as failed has left no shard behind.
THEOREM FailedIsAskedAgain == Spec => []FailureLeavesNoShard
<1>1. IInv => FailureLeavesNoShard
  BY DEF IInv
<1>2. QED
  BY <1>1, Invariant, PTL

-----------------------------------------------------------------------------
(* A run over an undisturbed data directory is complete but for what failed.*)
(* What makes that inductive is what kills and failed batches cannot spoil: *)
(* one window, found before anything is fetched, and shards and responses   *)
(* that hold no more than GitHub has and no less than was asked for.        *)

\* What the completed searches have found, and the most that each pass can
\* have to fetch of it.
Known == UNION {{r.number : r \in found[s]} : s \in DOMAIN found}

There(p) == upstream[p] # "gone"

Due(q) ==
  CASE q = "core"   -> Known
    [] q = "detail" -> {p \in Known : There(p) /\ p \in discussed}
    [] q = "issues" -> {IssueOf[p] : p \in {n \in Known : There(n)}}

\* What every run has asked for, as far as the pass went: a pull request whose
\* core batch has failed may be one a later pass did not know of.
Sure(q) ==
  CASE q = "core"   -> Known
    [] q = "detail" -> {p \in Known : There(p) /\ p \in discussed /\ ~IsScarred(p)}
    [] q = "issues" -> {IssueOf[p] : p \in {n \in Known : There(n) /\ ~IsScarred(n)}}

Untouched == stored = {} /\ \A q \in Passes : DOMAIN disk[q] = {}

\* Every run has the window of the first one that fetched anything.
WindowIsKept ==
  /\ DOMAIN found = {} => Untouched /\ cores = {}
  /\ pass = "discover" => /\ DOMAIN found \subseteq window
                          /\ window \subseteq DOMAIN found \union left
                          /\ cores = {}
                          /\ Untouched \/ window = DOMAIN found
  /\ pass \in Passes \union {"done"} => window = DOMAIN found

SureIn(q, k) == Answer(q, Batch(Sure(q), q, k))

DueIn(q, k) == Answer(q, Batch(Due(q), q, k))

\* A shard holds what GitHub would answer now, to a batch that has at least
\* what every run asks for, and so does every response to its own batch.
ShardsAreWhole ==
  \A q \in Passes : \A k \in DOMAIN disk[q] :
    SureIn(q, k) \subseteq disk[q][k] /\ disk[q][k] \subseteq DueIn(q, k)

RepliesAreWhole ==
  \A r \in stored : r.records = Answer(r.pass, r.batch)

\* pr_core returns the records of the buckets it has behind it, but for those
\* of the batches that failed.
CoresAreWhole ==
  /\ pass \in Passes \union {"done"} => cores \subseteq Answer("core", Known)
  /\ pass = "core" =>
       \A p \in Known :
         BucketOf(p, "core") \in left \/ HasFailed("core", p) \/ Core(p) \in cores
  /\ pass \in {"detail", "issues", "done"} =>
       \A p \in Known : HasFailed("core", p) \/ Core(p) \in cores

\* A pass has only buckets of its own targets before it, and a shard of
\* every bucket behind it that did not fail.
BucketsAreDue == pass \in Passes => left \subseteq Buckets(Due(pass), pass)

Failures(q) == {b[2] : b \in {f \in failed : f = <<q, f[2]>>}}

NoBucketIsMissing ==
  \A q \in {"detail", "issues"} : q \in UpTo(pass) =>
    Buckets(Sure(q), q)
      \subseteq DOMAIN disk[q] \union Failures(q) \union (IF pass = q THEN left ELSE {})

Undisturbed ==
  /\ WindowIsKept /\ ShardsAreWhole /\ RepliesAreWhole
  /\ CoresAreWhole /\ BucketsAreDue /\ NoBucketIsMissing

CleanInv == clean => Undisturbed

LEMMA KnownAreNumbers ==
  ASSUME TypeOK PROVE Known \subseteq Numbers
<1> SUFFICES ASSUME NEW p \in Known PROVE p \in Numbers
  OBVIOUS
<1>1. PICK s \in DOMAIN found : \E r \in found[s] : r.number = p
  BY DEF Known
<1>2. PICK r \in found[s] : r.number = p
  BY <1>1
<1>3. s \in UNION Windows /\ r \in [number : s, merged : BOOLEAN]
  BY <1>2 DEF TypeOK
<1>4. QED
  BY <1>2, <1>3, SliceFacts

\* A record that is not the placeholder is of a pull request that is there.
LEMMA CoreFacts ==
  ASSUME TypeOK, NEW p \in Numbers
  PROVE  /\ Core(p).number = p
         /\ Core(p).discussed <=> (There(p) /\ p \in discussed)
         /\ Core(p).state # "none" <=> There(p)
<1>1. upstream[p] \in {"unborn", "open", "merged", "gone"}
  BY DEF TypeOK
<1>2. QED
  BY <1>1 DEF Core, There

\* What has failed in this run is scarred.
LEMMA FailedIsScarred ==
  ASSUME TypeOK, NEW p, ~IsScarred(p)
  PROVE  ~HasFailed("core", p)
BY DEF TypeOK, HasFailed, IsScarred

\* In an undisturbed run a pass asks for all that is sure and for nothing
\* that is not due.
LEMMA TargetsOfCore ==
  ASSUME window = DOMAIN found
  PROVE  Targets("core") = Known
<1>1. Rows = UNION {found[s] : s \in DOMAIN found}
  BY DEF Rows
<1>2. Index = Known
  BY <1>1 DEF Index, Known
<1>3. QED
  BY <1>2 DEF Targets

LEMMA TargetsAreDue ==
  ASSUME TypeOK, cores \subseteq Answer("core", Known)
  PROVE  /\ Targets("detail") \subseteq Due("detail")
         /\ Targets("issues") \subseteq Due("issues")
<1>1. cores \subseteq {Core(p) : p \in Known} /\ Known \subseteq Numbers
  BY KnownAreNumbers DEF Answer
<1>2. ASSUME NEW p \in DetailTargets
      PROVE  p \in Known /\ There(p) /\ p \in discussed
  <2>1. PICK c \in cores : c.discussed /\ c.number = p
    BY DEF DetailTargets
  <2>2. PICK n \in Known : c = Core(n)
    BY <1>1
  <2>3. QED
    BY <1>1, <2>1, <2>2, CoreFacts
<1>3. ASSUME NEW i \in IssueTargets
      PROVE  \E p \in Known : There(p) /\ i = IssueOf[p]
  <2>1. PICK c \in cores : c.state # "none" /\ i = IssueOf[c.number]
    BY DEF IssueTargets
  <2>2. PICK n \in Known : c = Core(n)
    BY <1>1
  <2>3. QED
    BY <1>1, <2>1, <2>2, CoreFacts
<1>4. QED
  BY <1>2, <1>3 DEF Targets, Due

LEMMA TargetsAreSure ==
  ASSUME TypeOK, \A p \in Known : HasFailed("core", p) \/ Core(p) \in cores
  PROVE  /\ Sure("detail") \subseteq Targets("detail")
         /\ Sure("issues") \subseteq Targets("issues")
<1>1. Known \subseteq Numbers
  BY KnownAreNumbers
<1>2. ASSUME NEW p \in Known, There(p), ~IsScarred(p)
      PROVE  /\ IssueOf[p] \in IssueTargets
             /\ p \in discussed => p \in DetailTargets
  <2>1. Core(p) \in cores
    BY <1>2, FailedIsScarred
  <2>2. /\ Core(p).number = p /\ Core(p).state # "none"
        /\ p \in discussed => Core(p).discussed
    BY <1>1, <1>2, CoreFacts
  <2>3. QED
    BY <2>1, <2>2 DEF IssueTargets, DetailTargets
<1>3. QED
  BY <1>2 DEF Targets, Sure

LEMMA TargetsAreWhole ==
  ASSUME TypeOK, WindowIsKept, CoresAreWhole, pass \in Passes
  PROVE  Sure(pass) \subseteq Targets(pass) /\ Targets(pass) \subseteq Due(pass)
<1>1. CASE pass = "core"
  <2>1. Targets("core") = Known
    BY TargetsOfCore DEF WindowIsKept
  <2>2. QED
    BY <1>1, <2>1 DEF Sure, Due
<1>2. CASE pass = "detail" \/ pass = "issues"
  <2>1. /\ cores \subseteq Answer("core", Known)
        /\ \A p \in Known : HasFailed("core", p) \/ Core(p) \in cores
    BY <1>2 DEF CoresAreWhole
  <2>2. QED
    BY <1>2, <2>1, TargetsAreDue, TargetsAreSure
<1>3. QED
  BY <1>1, <1>2 DEF Passes

LEMMA MoreNumbersMoreRecords ==
  ASSUME NEW q \in Passes, NEW A, NEW B, A \subseteq B
  PROVE  Answer(q, A) \subseteq Answer(q, B)
BY DEF Answer, Passes

\* A reply is GitHub's answer to the batch, whether it is asked for or was
\* stored.
LEMMA ReplyIsTheAnswer ==
  ASSUME RepliesAreWhole, NEW k
  PROVE  Reply(k) = Answer(pass, Batch(Targets(pass), pass, k))
<1> DEFINE batch == Batch(Targets(pass), pass, k)
           old   == {r \in stored : r.pass = pass /\ r.batch = batch}
<1>1. CASE old # {}
  <2>1. \A r \in old : r.records = Answer(pass, batch)
    BY DEF RepliesAreWhole
  <2>2. Reply(k) = UNION {r.records : r \in old}
    BY <1>1 DEF Reply
  <2>3. Answer(pass, batch) \subseteq Reply(k)
    <3>1. PICK r \in old : TRUE
      BY <1>1
    <3>2. r.records = Answer(pass, batch) /\ r.records \in {s.records : s \in old}
      BY <2>1
    <3>3. QED
      BY <2>2, <3>2
  <2>4. Reply(k) \subseteq Answer(pass, batch)
    BY <2>1, <2>2
  <2>5. QED
    BY <2>3, <2>4
<1>2. CASE old = {}
  BY <1>2 DEF Reply
<1>3. QED
  BY <1>1, <1>2

\* So a fetched bucket is whole.
LEMMA ReplyIsWhole ==
  ASSUME TypeOK, Undisturbed, pass \in Passes, NEW k
  PROVE  SureIn(pass, k) \subseteq Reply(k) /\ Reply(k) \subseteq DueIn(pass, k)
<1>1. Reply(k) = Answer(pass, Batch(Targets(pass), pass, k))
  BY ReplyIsTheAnswer DEF Undisturbed
<1>2. /\ Batch(Sure(pass), pass, k) \subseteq Batch(Targets(pass), pass, k)
      /\ Batch(Targets(pass), pass, k) \subseteq Batch(Due(pass), pass, k)
  BY TargetsAreWhole DEF Undisturbed, Batch
<1>3. QED
  BY <1>1, <1>2, MoreNumbersMoreRecords DEF SureIn, DueIn

-----------------------------------------------------------------------------
(* Each step keeps an undisturbed data directory undisturbed. *)

LEMMA SameAnswers ==
  ASSUME UNCHANGED <<upstream, discussed>>, NEW q \in Passes, NEW numbers
  PROVE  Answer(q, numbers)' = Answer(q, numbers)
BY DEF Answer, Core, Passes

\* With the same repository and the same searches, the same is due, and with
\* more scars nothing more is sure.
LEMMA SameDue ==
  ASSUME UNCHANGED <<upstream, discussed, found>>
  PROVE  Known' = Known /\ \A q \in Passes : Due(q)' = Due(q)
<1>1. Known' = Known
  BY DEF Known
<1>2. QED
  BY <1>1 DEF Due, There, Passes

LEMMA LessIsSure ==
  ASSUME UNCHANGED <<upstream, discussed, found>>, scars \subseteq scars'
  PROVE  \A q \in Passes : Sure(q)' \subseteq Sure(q)
<1>1. Known' = Known
  BY SameDue
<1>2. \A p : IsScarred(p) => IsScarred(p)'
  BY DEF IsScarred, BucketOf, SizeOf
<1>3. QED
  BY <1>1, <1>2 DEF Sure, There, Passes

\* So what was whole stays so.
LEMMA StaysWhole ==
  ASSUME UNCHANGED <<upstream, discussed, found>>, scars \subseteq scars',
         NEW q \in Passes, NEW k
  PROVE  SureIn(q, k)' \subseteq SureIn(q, k) /\ DueIn(q, k)' = DueIn(q, k)
<1>1. \A numbers : Answer(q, numbers)' = Answer(q, numbers)
  BY SameAnswers
<1>2. Batch(Due(q), q, k)' = Batch(Due(q), q, k)
  BY SameDue DEF Batch, BucketOf, SizeOf
<1>3. Batch(Sure(q), q, k)' \subseteq Batch(Sure(q), q, k)
  BY LessIsSure DEF Batch, BucketOf, SizeOf
<1>4. Answer(q, Batch(Sure(q), q, k))' \subseteq Answer(q, Batch(Sure(q), q, k))
  BY <1>1, <1>3, MoreNumbersMoreRecords
<1>5. Answer(q, Batch(Due(q), q, k))' = Answer(q, Batch(Due(q), q, k))
  BY <1>1, <1>2
<1>6. QED
  BY <1>4, <1>5 DEF SureIn, DueIn

\* What stays true of the shards when nothing is written.
LEMMA SameShards ==
  ASSUME UNCHANGED <<upstream, discussed, found, disk>>, scars \subseteq scars',
         DOMAIN disk = Passes, ShardsAreWhole
  PROVE  ShardsAreWhole'
<1> SUFFICES ASSUME NEW q \in Passes, NEW k \in DOMAIN disk[q]
             PROVE  SureIn(q, k)' \subseteq disk[q][k] /\ disk[q][k] \subseteq DueIn(q, k)'
  BY DEF ShardsAreWhole
<1>1. SureIn(q, k) \subseteq disk[q][k] /\ disk[q][k] \subseteq DueIn(q, k)
  BY DEF ShardsAreWhole
<1>2. QED
  BY <1>1, StaysWhole

LEMMA SameReplies ==
  ASSUME UNCHANGED <<upstream, discussed, stored>>, RepliesAreWhole,
         \A r \in stored : r.pass \in Passes
  PROVE  RepliesAreWhole'
BY SameAnswers DEF RepliesAreWhole

\* A stored reply is the answer to its batch.
LEMMA StoredIsWhole ==
  ASSUME TypeOK, RepliesAreWhole, UNCHANGED <<upstream, discussed>>,
         NEW k \in left, Fetching(k), StoreReply(k)
  PROVE  RepliesAreWhole'
<1>1. Reply(k) = Answer(pass, Batch(Targets(pass), pass, k))
  BY ReplyIsTheAnswer
<1>2. ASSUME NEW r \in stored'
      PROVE  r.pass \in Passes /\ r.records = Answer(r.pass, r.batch)
  <2>1. CASE r \in stored
    BY <2>1 DEF RepliesAreWhole, TypeOK
  <2>2. CASE r \notin stored
    <3>1. r = [pass |-> pass, batch |-> Batch(Targets(pass), pass, k),
               records |-> Reply(k)]
      BY <2>2 DEF StoreReply
    <3>2. QED
      BY <1>1, <3>1 DEF Fetching
  <2>3. QED
    BY <2>1, <2>2
<1>3. QED
  BY <1>2, SameAnswers DEF RepliesAreWhole

\* A change before the first search finds nothing to disturb.
LEMMA CleanWorld ==
  ASSUME TypeOK, CleanInv, WorldStep, clean'
  PROVE  Undisturbed'
<1>1. Happens
  BY DEF WorldStep, Open, Merge, Vanish, Become, Discuss
<1>2. clean /\ window = {} /\ DOMAIN found = {} /\ UNCHANGED <<found, disk, stored, run, scars>>
  BY <1>1 DEF Happens, Started
<1>3. Undisturbed
  BY <1>2 DEF CleanInv
<1>4. Untouched /\ cores = {}
  BY <1>2, <1>3 DEF Undisturbed, WindowIsKept
<1>5. Known = {} /\ Known' = {}
  BY <1>2 DEF Known
<1>6. \A q \in Passes : Due(q) = {} /\ Due(q)' = {} /\ Sure(q)' = {}
  BY <1>5 DEF Due, Sure, Passes
<1>7. pass \in Passes => left = {}
  BY <1>3, <1>6 DEF Undisturbed, BucketsAreDue, Buckets
<1>8. WindowIsKept'
  BY <1>2, <1>3 DEF Undisturbed, WindowIsKept, Untouched, run
<1>9. ShardsAreWhole' /\ RepliesAreWhole'
  BY <1>2, <1>4 DEF Untouched, ShardsAreWhole, RepliesAreWhole
<1>10. CoresAreWhole'
  BY <1>2, <1>4, <1>5 DEF CoresAreWhole, run
<1>11. BucketsAreDue'
  BY <1>2, <1>7 DEF BucketsAreDue, run
<1>12. NoBucketIsMissing'
  BY <1>6 DEF NoBucketIsMissing, Buckets, Passes
<1>13. QED
  BY <1>8, <1>9, <1>10, <1>11, <1>12 DEF Undisturbed

LEMMA CleanDiscover ==
  ASSUME TypeOK, CleanInv, NEW w \in Windows, Discover(w), clean'
  PROVE  Undisturbed'
<1>1. /\ clean /\ SameWindow(w) /\ pass' = "discover"
      /\ window' = w /\ left' = w /\ cores' = {}
      /\ UNCHANGED <<upstream, discussed, found, disk, stored, scars>>
  BY DEF Discover, world
<1>2. Undisturbed
  BY <1>1 DEF CleanInv
<1>3. WindowIsKept'
  <2>1. DOMAIN found \subseteq w
    BY <1>1 DEF SameWindow
  <2>2. Untouched' \/ w = DOMAIN found
    BY <1>1 DEF SameWindow, Untouched
  <2>3. DOMAIN found = {} => Untouched'
    BY <1>1, <1>2 DEF Undisturbed, WindowIsKept, Untouched
  <2>4. QED
    BY <1>1, <2>1, <2>2, <2>3 DEF WindowIsKept, Passes
<1>4. ShardsAreWhole' /\ RepliesAreWhole'
  BY <1>1, <1>2, SameShards, SameReplies DEF Undisturbed, TypeOK
<1>5. CoresAreWhole' /\ BucketsAreDue' /\ NoBucketIsMissing'
  BY <1>1 DEF CoresAreWhole, BucketsAreDue, NoBucketIsMissing, UpTo, Passes
<1>6. QED
  BY <1>3, <1>4, <1>5 DEF Undisturbed

\* A slice is searched before anything is fetched, or it is read back.
LEMMA CleanSearch ==
  ASSUME TypeOK, SlicesOfWindow, CleanInv, NEW s \in left, SearchSlice(s), clean'
  PROVE  Undisturbed'
<1>1. /\ clean /\ pass = "discover" /\ pass' = pass /\ left' = left \ {s}
      /\ UNCHANGED <<upstream, discussed, disk, stored, window, cores, scars>>
  BY DEF SearchSlice, world, past
<1>2. Undisturbed
  BY <1>1 DEF CleanInv
<1>3. CoresAreWhole' /\ BucketsAreDue' /\ NoBucketIsMissing'
  BY <1>1 DEF CoresAreWhole, BucketsAreDue, NoBucketIsMissing, UpTo, Passes
<1>4. CASE s \in DOMAIN found
  <2>1. found' = found
    BY <1>4 DEF SearchSlice
  <2>2. WindowIsKept'
    BY <1>1, <1>2, <1>4, <2>1 DEF Undisturbed, WindowIsKept, Untouched, Passes
  <2>3. ShardsAreWhole' /\ RepliesAreWhole'
    BY <1>1, <1>2, <2>1, SameShards, SameReplies DEF Undisturbed, TypeOK
  <2>4. QED
    BY <1>3, <2>2, <2>3 DEF Undisturbed
<1>5. CASE s \notin DOMAIN found
  <2>1. DOMAIN found' = DOMAIN found \union {s}
    BY <1>5 DEF SearchSlice, Put
  <2>2. s \in window
    BY <1>1 DEF SlicesOfWindow
  <2>3. Untouched
    BY <1>1, <1>2, <1>5, <2>2 DEF Undisturbed, WindowIsKept
  <2>4. Untouched'
    BY <1>1, <2>3 DEF Untouched
  <2>5. WindowIsKept'
    BY <1>1, <1>2, <2>1, <2>2, <2>4 DEF Undisturbed, WindowIsKept, Passes
  <2>6. ShardsAreWhole' /\ RepliesAreWhole'
    BY <2>4 DEF Untouched, ShardsAreWhole, RepliesAreWhole
  <2>7. QED
    BY <1>3, <2>5, <2>6 DEF Undisturbed
<1>6. QED
  BY <1>4, <1>5

\* A bucket of a pass belongs to a number that some search has found.
LEMMA FetchingMeansFound ==
  ASSUME Undisturbed, NEW k \in left, Fetching(k)
  PROVE  DOMAIN found # {}
<1>1. CASE DOMAIN found = {}
  <2>1. Known = {}
    BY <1>1 DEF Known
  <2>2. Due(pass) = {}
    BY <2>1 DEF Due, Fetching, Passes
  <2>3. left = {}
    BY <2>2 DEF Undisturbed, BucketsAreDue, Buckets, Fetching
  <2>4. QED
    BY <2>3
<1>2. QED
  BY <1>1

\* A bucket is consumed with all that is sure in it and nothing that is not
\* due, or it has failed: the passes go on whole.
LEMMA CleanConsume ==
  ASSUME TypeOK, Undisturbed, NEW k \in left, Fetching(k), NEW records,
         pass' = pass, window' = window, left' = left \ {k},
         cores' = IF pass = "core" THEN cores \union records ELSE cores,
         records \subseteq DueIn(pass, k),
         UNCHANGED <<upstream, discussed, found>>,
         failed \subseteq failed', scars \subseteq scars',
         \A q \in Passes : DOMAIN disk[q] \subseteq DOMAIN disk'[q],
         \/ <<pass, k>> \in failed'
         \/ SureIn(pass, k) \subseteq records /\ k \in DOMAIN disk'[pass]
  PROVE  WindowIsKept' /\ CoresAreWhole' /\ BucketsAreDue' /\ NoBucketIsMissing'
<1>1. pass \in Passes
  BY DEF Fetching
<1>2. /\ Known' = Known
      /\ \A q \in Passes : Due(q)' = Due(q) /\ Sure(q)' \subseteq Sure(q)
  BY SameDue, LessIsSure
<1>3. DOMAIN found # {}
  BY FetchingMeansFound
<1>4. WindowIsKept'
  BY <1>1, <1>3 DEF Undisturbed, WindowIsKept, Passes
<1>5. \A p : HasFailed("core", p) => <<"core", BucketOf(p, "core")>> \in failed'
  BY DEF HasFailed
<1>6. CoresAreWhole'
  <2>1. Answer("core", Known)' = Answer("core", Known)
    BY <1>2 DEF Answer, Core
  <2>2. CASE pass = "core"
    <3>1. cores' = cores \union records /\ cores \subseteq Answer("core", Known)
      BY <2>2 DEF Undisturbed, CoresAreWhole, Passes
    <3>2. records \subseteq Answer("core", Known)
      BY <2>2 DEF DueIn, Due, Batch, Answer
    <3>3. ASSUME NEW p \in Known
          PROVE  \/ BucketOf(p, "core") \in left \ {k}
                 \/ <<"core", BucketOf(p, "core")>> \in failed' \/ Core(p) \in cores'
      <4>1. CASE BucketOf(p, "core") # k
        <5>1. BucketOf(p, "core") \in left \/ HasFailed("core", p) \/ Core(p) \in cores
          BY <2>2 DEF Undisturbed, CoresAreWhole
        <5>2. QED
          BY <1>5, <3>1, <4>1, <5>1
      <4>2. CASE BucketOf(p, "core") = k /\ <<pass, k>> \in failed'
        BY <2>2, <4>2
      <4>3. CASE BucketOf(p, "core") = k /\ SureIn(pass, k) \subseteq records
        <5>1. p \in Batch(Sure("core"), "core", k)
          BY <4>3 DEF Sure, Batch
        <5>2. Core(p) \in SureIn("core", k)
          BY <5>1 DEF SureIn, Answer
        <5>3. QED
          BY <2>2, <3>1, <4>3, <5>2
      <4>4. QED
        BY <4>1, <4>2, <4>3
    <3>4. \A p \in Known' : \/ BucketOf(p, "core")' \in left'
                           \/ HasFailed("core", p)' \/ Core(p)' \in cores'
      BY <1>2, <3>3 DEF HasFailed, Core, BucketOf, SizeOf
    <3>5. QED
      BY <1>1, <2>1, <2>2, <3>1, <3>2, <3>4 DEF CoresAreWhole
  <2>3. CASE pass # "core"
    <3>1. cores' = cores
      BY <2>3
    <3>2. /\ cores \subseteq Answer("core", Known)
          /\ \A p \in Known : HasFailed("core", p) \/ Core(p) \in cores
      BY <1>1, <2>3 DEF Undisturbed, CoresAreWhole, Passes
    <3>3. \A p \in Known' : HasFailed("core", p)' \/ Core(p)' \in cores'
      BY <1>2, <3>1, <3>2 DEF HasFailed, Core, BucketOf, SizeOf
    <3>4. QED
      BY <2>1, <2>3, <3>1, <3>2, <3>3 DEF CoresAreWhole
  <2>4. QED
    BY <2>2, <2>3
<1>7. BucketsAreDue'
  BY <1>1, <1>2 DEF Undisturbed, BucketsAreDue, Buckets, BucketOf, SizeOf
<1>8. NoBucketIsMissing'
  <2>1. ASSUME NEW q \in {"detail", "issues"}, q \in UpTo(pass)
        PROVE  Buckets(Sure(q), q)
                 \subseteq DOMAIN disk'[q] \union Failures(q)'
                           \union (IF pass = q THEN left \ {k} ELSE {})
    <3>1. Buckets(Sure(q), q)
            \subseteq DOMAIN disk[q] \union Failures(q) \union (IF pass = q THEN left ELSE {})
      BY <2>1 DEF Undisturbed, NoBucketIsMissing
    <3>2. DOMAIN disk[q] \subseteq DOMAIN disk'[q]
      BY DEF Passes
    <3>3. Failures(q) \subseteq Failures(q)'
      BY DEF Failures
    <3>4. pass = q => k \in DOMAIN disk'[q] \union Failures(q)'
      <4>1. CASE <<pass, k>> \in failed' /\ pass = q
        <5>1. <<q, k>> \in failed' /\ <<q, k>>[2] = k
          BY <4>1
        <5>2. QED
          BY <5>1 DEF Failures
      <4>2. QED
        BY <4>1
    <3>5. QED
      BY <3>1, <3>2, <3>3, <3>4
  <2>2. \A q \in Passes : Buckets(Sure(q), q)' \subseteq Buckets(Sure(q), q)
    BY <1>2 DEF Buckets, BucketOf, SizeOf
  <2>3. UpTo(pass)' = UpTo(pass)
    BY DEF UpTo
  <2>4. QED
    BY <2>1, <2>2, <2>3 DEF NoBucketIsMissing, Passes
<1>9. QED
  BY <1>4, <1>6, <1>7, <1>8

LEMMA CleanRead ==
  ASSUME TypeOK, CleanInv, NEW k \in left, ReadShard(k), clean'
  PROVE  Undisturbed'
<1>1. /\ clean /\ Fetching(k) /\ k \in DOMAIN disk[pass] /\ Consume(k, disk[pass][k])
      /\ UNCHANGED <<upstream, discussed, found, disk, stored, scars>>
  BY DEF ReadShard, world, past
<1>2. Undisturbed
  BY <1>1 DEF CleanInv
<1>3. SureIn(pass, k) \subseteq disk[pass][k] /\ disk[pass][k] \subseteq DueIn(pass, k)
  BY <1>1, <1>2 DEF Undisturbed, ShardsAreWhole, Fetching
<1>4. WindowIsKept' /\ CoresAreWhole' /\ BucketsAreDue' /\ NoBucketIsMissing'
  <2>1. /\ UNCHANGED <<pass, window, failed>> /\ left' = left \ {k}
        /\ cores' = IF pass = "core" THEN cores \union disk[pass][k] ELSE cores
    BY <1>1 DEF Consume
  <2>2. QED
    BY <1>1, <1>2, <1>3, <2>1, CleanConsume
<1>5. ShardsAreWhole' /\ RepliesAreWhole'
  BY <1>1, <1>2, SameShards, SameReplies DEF Undisturbed, TypeOK
<1>6. QED
  BY <1>4, <1>5 DEF Undisturbed

LEMMA CleanFetch ==
  ASSUME TypeOK, CleanInv, NEW k \in left, FetchShard(k), clean'
  PROVE  Undisturbed'
<1>1. /\ clean /\ Fetching(k) /\ Consume(k, Reply(k)) /\ pass \in Passes
      /\ UNCHANGED <<upstream, discussed, found, stored, scars>>
  BY DEF FetchShard, Fetching, world, past
<1>2. Undisturbed /\ DOMAIN disk = Passes
  BY <1>1 DEF CleanInv, TypeOK
<1>3. SureIn(pass, k) \subseteq Reply(k) /\ Reply(k) \subseteq DueIn(pass, k)
  BY <1>1, <1>2, ReplyIsWhole
<1>4. /\ \A q \in Passes : q # pass => disk'[q] = disk[q]
      /\ DOMAIN disk'[pass] = DOMAIN disk[pass] \union {k}
      /\ \A j \in DOMAIN disk[pass] : disk'[pass][j] = disk[pass][j]
      /\ disk'[pass][k] = Reply(k)
  BY <1>2, FetchGrows
<1>5. WindowIsKept' /\ CoresAreWhole' /\ BucketsAreDue' /\ NoBucketIsMissing'
  <2>1. \A q \in Passes : DOMAIN disk[q] \subseteq DOMAIN disk'[q]
    BY <1>4
  <2>2. /\ UNCHANGED <<pass, window, failed>> /\ left' = left \ {k}
        /\ cores' = IF pass = "core" THEN cores \union Reply(k) ELSE cores
    BY <1>1 DEF Consume
  <2>3. QED
    BY <1>1, <1>2, <1>3, <1>4, <2>1, <2>2, CleanConsume
<1>6. ShardsAreWhole'
  <2> SUFFICES ASSUME NEW q \in Passes, NEW j \in DOMAIN disk'[q]
               PROVE  SureIn(q, j)' \subseteq disk'[q][j] /\ disk'[q][j] \subseteq DueIn(q, j)'
    BY DEF ShardsAreWhole
  <2>1. SureIn(q, j) \subseteq disk'[q][j] /\ disk'[q][j] \subseteq DueIn(q, j)
    <3>1. CASE q = pass /\ j = k
      BY <1>3, <1>4, <3>1
    <3>2. CASE q = pass /\ j # k
      BY <1>2, <1>4, <3>2 DEF Undisturbed, ShardsAreWhole
    <3>3. CASE q # pass
      BY <1>2, <1>4, <3>3 DEF Undisturbed, ShardsAreWhole
    <3>4. QED
      BY <3>1, <3>2, <3>3
  <2>2. QED
    BY <1>1, <2>1, StaysWhole
<1>7. RepliesAreWhole'
  BY <1>1, <1>2, SameReplies DEF Undisturbed, TypeOK
<1>8. QED
  BY <1>5, <1>6, <1>7 DEF Undisturbed

\* A batch that fails leaves its bucket without a shard, and says so.
LEMMA CleanFail ==
  ASSUME TypeOK, CleanInv, NEW k \in left, FailBatch(k), clean'
  PROVE  Undisturbed'
<1>1. /\ clean /\ Fetching(k)
      /\ UNCHANGED <<upstream, discussed, found, disk, pass, window, cores>>
      /\ left' = left \ {k}
      /\ failed' = failed \union {<<pass, k>>} /\ scars' = scars \union {<<pass, k>>}
      /\ UNCHANGED stored \/ StoreReply(k)
  BY DEF FailBatch, world
<1>2. Undisturbed /\ DOMAIN disk = Passes
  BY <1>1 DEF CleanInv, TypeOK
<1>3. WindowIsKept' /\ CoresAreWhole' /\ BucketsAreDue' /\ NoBucketIsMissing'
  <2> DEFINE records == {}
  <2>1. cores' = IF pass = "core" THEN cores \union records ELSE cores
    BY <1>1
  <2>2. records \subseteq DueIn(pass, k)
    OBVIOUS
  <2>3. /\ \A q \in Passes : DOMAIN disk[q] \subseteq DOMAIN disk'[q]
        /\ <<pass, k>> \in failed' /\ failed \subseteq failed' /\ scars \subseteq scars'
    BY <1>1
  <2> HIDE DEF records
  <2>4. QED
    BY <1>1, <1>2, <2>1, <2>2, <2>3, CleanConsume
<1>4. ShardsAreWhole'
  BY <1>1, <1>2, SameShards DEF Undisturbed
<1>5. RepliesAreWhole'
  BY <1>1, <1>2, SameReplies, StoredIsWhole DEF Undisturbed, TypeOK
<1>6. QED
  BY <1>3, <1>4, <1>5 DEF Undisturbed

\* The next pass starts with all that is sure, the last one behind it.
LEMMA CleanBegin ==
  ASSUME TypeOK, CleanInv, BeginCore \/ BeginDetail \/ BeginIssues, clean'
  PROVE  Undisturbed'
<1>1. PICK q \in Passes : /\ Begin(q)
                          /\ \/ pass = "discover" /\ q = "core"
                             \/ pass = "core" /\ q = "detail"
                             \/ pass = "detail" /\ q = "issues"
  BY DEF BeginCore, BeginDetail, BeginIssues, Passes
<1>2. /\ left = {} /\ pass' = q /\ left' = Buckets(Targets(q), q) /\ clean
      /\ UNCHANGED <<upstream, discussed, found, disk, stored, window, cores,
                     failed, scars>>
  BY <1>1 DEF Begin, world, past
<1>3. Undisturbed /\ DOMAIN disk = Passes
  BY <1>2 DEF CleanInv, TypeOK
<1>4. /\ Known' = Known
      /\ \A p \in Passes : Due(p)' = Due(p) /\ Sure(p)' \subseteq Sure(p)
  BY <1>2, SameDue, LessIsSure
<1>5. WindowIsKept'
  BY <1>1, <1>2, <1>3 DEF Undisturbed, WindowIsKept, Untouched, Passes
<1>6. ShardsAreWhole' /\ RepliesAreWhole'
  BY <1>2, <1>3, SameShards, SameReplies DEF Undisturbed, TypeOK
<1>7. window = DOMAIN found
  BY <1>1, <1>2, <1>3 DEF Undisturbed, WindowIsKept, Passes
<1>8. q # "core" => /\ cores \subseteq Answer("core", Known)
                    /\ \A p \in Known : HasFailed("core", p) \/ Core(p) \in cores
  BY <1>1, <1>2, <1>3 DEF Undisturbed, CoresAreWhole, Passes
<1>9. q = "core" => cores = {}
  BY <1>1, <1>3 DEF Undisturbed, WindowIsKept, Passes
<1>10. Sure(q) \subseteq Targets(q) /\ Targets(q) \subseteq Due(q)
  <2>1. CASE q = "core"
    BY <1>7, <2>1, TargetsOfCore DEF Sure, Due
  <2>2. CASE q = "detail" \/ q = "issues"
    BY <1>8, <2>2, TargetsAreDue, TargetsAreSure
  <2>3. QED
    BY <2>1, <2>2 DEF Passes
<1>11. Buckets(Sure(q), q) \subseteq left' /\ left' \subseteq Buckets(Due(q), q)
  BY <1>2, <1>10 DEF Buckets
<1>12. CoresAreWhole'
  <2>1. Answer("core", Known)' = Answer("core", Known)
    BY <1>2, <1>4 DEF Answer, Core
  <2>2. \A p : /\ Core(p)' = Core(p) /\ BucketOf(p, "core")' = BucketOf(p, "core")
              /\ HasFailed("core", p)' = HasFailed("core", p)
    BY <1>2 DEF Core, HasFailed, BucketOf, SizeOf
  <2>3. CASE q = "core"
    <3>1. \A p \in Known : BucketOf(p, "core") \in left'
      BY <1>11, <2>3 DEF Buckets, Sure
    <3>2. QED
      BY <1>2, <1>4, <1>9, <2>1, <2>2, <2>3, <3>1 DEF CoresAreWhole
  <2>4. CASE q # "core"
    BY <1>2, <1>4, <1>8, <2>1, <2>2, <2>4 DEF CoresAreWhole
  <2>5. QED
    BY <2>3, <2>4
<1>13. BucketsAreDue'
  <2>1. Buckets(Due(q), q)' = Buckets(Due(q), q)
    BY <1>4 DEF Buckets, BucketOf, SizeOf
  <2>2. QED
    BY <1>2, <1>11, <2>1 DEF BucketsAreDue
<1>14. NoBucketIsMissing'
  <2>1. ASSUME NEW p \in {"detail", "issues"}, p \in UpTo(q)
        PROVE  Buckets(Sure(p), p)
                 \subseteq DOMAIN disk[p] \union Failures(p)
                           \union (IF q = p THEN left' ELSE {})
    <3>1. CASE p = q
      BY <1>11, <3>1
    <3>2. CASE p # q
      <4>1. p = "detail" /\ pass = "detail" /\ p \in UpTo(pass)
        BY <1>1, <2>1, <3>2 DEF UpTo, Passes
      <4>2. QED
        BY <1>2, <1>3, <3>2, <4>1 DEF Undisturbed, NoBucketIsMissing
    <3>3. QED
      BY <3>1, <3>2
  <2>2. \A p \in Passes : /\ Buckets(Sure(p), p)' \subseteq Buckets(Sure(p), p)
                          /\ Failures(p)' = Failures(p)
    BY <1>2, <1>4 DEF Buckets, BucketOf, SizeOf, Failures
  <2>3. UpTo(pass)' = UpTo(q)
    BY <1>2 DEF UpTo
  <2>4. QED
    BY <1>2, <2>1, <2>2, <2>3 DEF NoBucketIsMissing, Passes
<1>15. QED
  BY <1>5, <1>6, <1>12, <1>13, <1>14 DEF Undisturbed

LEMMA CleanFinish ==
  ASSUME TypeOK, CleanInv, Finish, clean'
  PROVE  Undisturbed'
<1>1. /\ pass = "issues" /\ left = {} /\ pass' = "done" /\ clean
      /\ UNCHANGED <<upstream, discussed, found, disk, stored, window, left, cores,
                     failed, scars>>
  BY DEF Finish, world, past
<1>2. Undisturbed /\ DOMAIN disk = Passes
  BY <1>1 DEF CleanInv, TypeOK
<1>3. /\ Known' = Known
      /\ \A p \in Passes : Due(p)' = Due(p) /\ Sure(p)' \subseteq Sure(p)
  BY <1>1, SameDue, LessIsSure
<1>4. WindowIsKept'
  BY <1>1, <1>2 DEF Undisturbed, WindowIsKept, Untouched, Passes
<1>5. ShardsAreWhole' /\ RepliesAreWhole'
  BY <1>1, <1>2, SameShards, SameReplies DEF Undisturbed, TypeOK
<1>6. CoresAreWhole'
  <2>1. Answer("core", Known)' = Answer("core", Known)
    BY <1>1, <1>3 DEF Answer, Core
  <2>2. \A p : Core(p)' = Core(p) /\ HasFailed("core", p)' = HasFailed("core", p)
    BY <1>1 DEF Core, HasFailed, BucketOf, SizeOf
  <2>3. QED
    BY <1>1, <1>2, <1>3, <2>1, <2>2 DEF Undisturbed, CoresAreWhole, Passes
<1>7. BucketsAreDue'
  BY <1>1 DEF BucketsAreDue, Passes
<1>8. NoBucketIsMissing'
  <2>1. ASSUME NEW p \in {"detail", "issues"}
        PROVE  Buckets(Sure(p), p) \subseteq DOMAIN disk[p] \union Failures(p)
    <3>1. p \in UpTo(pass)
      BY <1>1 DEF UpTo, Passes
    <3>2. QED
      BY <1>1, <1>2, <3>1 DEF Undisturbed, NoBucketIsMissing
  <2>2. \A p \in Passes : /\ Buckets(Sure(p), p)' \subseteq Buckets(Sure(p), p)
                          /\ Failures(p)' = Failures(p)
    BY <1>1, <1>3 DEF Buckets, BucketOf, SizeOf, Failures
  <2>3. QED
    BY <1>1, <2>1, <2>2 DEF NoBucketIsMissing, Passes
<1>9. QED
  BY <1>4, <1>5, <1>6, <1>7, <1>8 DEF Undisturbed

\* A run that ends or is killed leaves its shards whole and, if it leaves a
\* response without a shard, that one too.
LEMMA CleanStop ==
  ASSUME TypeOK, CleanInv, Exit \/ Kill, clean'
  PROVE  Undisturbed'
<1>1. /\ pass' = "idle" /\ left' = {} /\ cores' = {} /\ clean
      /\ UNCHANGED <<upstream, discussed, found, disk, scars>>
  BY DEF Exit, Kill, Forget, world, past
<1>2. Undisturbed /\ DOMAIN disk = Passes
  BY <1>1 DEF CleanInv, TypeOK
<1>3. CoresAreWhole' /\ BucketsAreDue' /\ NoBucketIsMissing'
  BY <1>1 DEF CoresAreWhole, BucketsAreDue, NoBucketIsMissing, UpTo, Passes
<1>4. ShardsAreWhole'
  BY <1>1, <1>2, SameShards DEF Undisturbed
<1>5. CASE UNCHANGED stored
  <2>1. WindowIsKept'
    BY <1>1, <1>2, <1>5 DEF Undisturbed, WindowIsKept, Untouched, Passes
  <2>2. RepliesAreWhole'
    BY <1>1, <1>2, <1>5, SameReplies DEF Undisturbed, TypeOK
  <2>3. QED
    BY <1>3, <1>4, <2>1, <2>2 DEF Undisturbed
<1>6. ASSUME NEW k \in left, Fetching(k), StoreReply(k)
      PROVE  Undisturbed'
  <2>1. DOMAIN found # {}
    BY <1>2, <1>6, FetchingMeansFound
  <2>2. WindowIsKept'
    BY <1>1, <2>1 DEF WindowIsKept, Passes
  <2>3. RepliesAreWhole'
    BY <1>1, <1>2, <1>6, StoredIsWhole DEF Undisturbed
  <2>4. QED
    BY <1>3, <1>4, <2>2, <2>3 DEF Undisturbed
<1>7. UNCHANGED stored \/ \E k \in left : Fetching(k) /\ StoreReply(k)
  BY DEF Exit, Kill
<1>8. QED
  BY <1>5, <1>6, <1>7

LEMMA CleanStutter ==
  ASSUME TypeOK, CleanInv, UNCHANGED vars, clean'
  PROVE  Undisturbed'
<1>1. /\ clean
      /\ UNCHANGED <<upstream, discussed, found, disk, stored, pass, window,
                     left, cores, failed, scars>>
  BY DEF vars, run, world, past
<1>2. Undisturbed /\ DOMAIN disk = Passes
  BY <1>1 DEF CleanInv, TypeOK
<1>3. /\ Known' = Known
      /\ \A q \in Passes : Due(q)' = Due(q) /\ Sure(q)' \subseteq Sure(q)
  BY <1>1, SameDue, LessIsSure
<1>4. WindowIsKept'
  BY <1>1, <1>2 DEF Undisturbed, WindowIsKept, Untouched
<1>5. ShardsAreWhole' /\ RepliesAreWhole'
  BY <1>1, <1>2, SameShards, SameReplies DEF Undisturbed, TypeOK
<1>6. CoresAreWhole'
  <2>1. Answer("core", Known)' = Answer("core", Known)
    BY <1>1, <1>3 DEF Answer, Core
  <2>2. \A p : /\ Core(p)' = Core(p) /\ BucketOf(p, "core")' = BucketOf(p, "core")
              /\ HasFailed("core", p)' = HasFailed("core", p)
    BY <1>1 DEF Core, HasFailed, BucketOf, SizeOf
  <2>3. QED
    BY <1>1, <1>2, <1>3, <2>1, <2>2 DEF Undisturbed, CoresAreWhole
<1>7. BucketsAreDue'
  BY <1>1, <1>2, <1>3 DEF Undisturbed, BucketsAreDue, Buckets, BucketOf, SizeOf
<1>8. NoBucketIsMissing'
  <2>1. \A q \in Passes : /\ Buckets(Sure(q), q)' \subseteq Buckets(Sure(q), q)
                          /\ Failures(q)' = Failures(q)
    BY <1>1, <1>3 DEF Buckets, BucketOf, SizeOf, Failures
  <2>2. UpTo(pass)' = UpTo(pass)
    BY <1>1 DEF UpTo
  <2>3. QED
    BY <1>1, <1>2, <2>1, <2>2 DEF Undisturbed, NoBucketIsMissing, Passes
<1>9. QED
  BY <1>4, <1>5, <1>6, <1>7, <1>8 DEF Undisturbed

LEMMA CleanStep ==
  TypeOK /\ SlicesOfWindow /\ CleanInv /\ [Next]_vars => CleanInv'
<1> SUFFICES ASSUME TypeOK, SlicesOfWindow, CleanInv, [Next]_vars, clean'
             PROVE  Undisturbed'
  BY DEF CleanInv
<1>1. CASE WorldStep
  BY <1>1, CleanWorld
<1>2. CASE \E w \in Windows : Discover(w)
  BY <1>2, CleanDiscover
<1>3. CASE \E s \in left : SearchSlice(s)
  BY <1>3, CleanSearch
<1>4. CASE \E k \in left : ReadShard(k) \/ FetchShard(k)
  BY <1>4, CleanRead, CleanFetch
<1>5. CASE BeginCore \/ BeginDetail \/ BeginIssues
  BY <1>5, CleanBegin
<1>6. CASE Finish
  BY <1>6, CleanFinish
<1>7. CASE Exit \/ Kill
  BY <1>7, CleanStop
<1>8. CASE \E k \in left : FailBatch(k)
  BY <1>8, CleanFail
<1>9. CASE UNCHANGED vars
  BY <1>9, CleanStutter
<1>10. QED
  BY <1>1, <1>2, <1>3, <1>4, <1>5, <1>6, <1>7, <1>8, <1>9 DEF Next, RunStep

LEMMA CleanStart == Init => CleanInv
<1> SUFFICES ASSUME Init PROVE Undisturbed
  BY DEF CleanInv
<1>1. Untouched /\ cores = {} /\ pass = "idle"
  BY DEF Init, Empty, Untouched
<1>2. WindowIsKept /\ ShardsAreWhole /\ RepliesAreWhole
  BY <1>1 DEF WindowIsKept, ShardsAreWhole, RepliesAreWhole, Untouched, Passes
<1>3. CoresAreWhole /\ BucketsAreDue /\ NoBucketIsMissing
  BY <1>1 DEF CoresAreWhole, BucketsAreDue, NoBucketIsMissing, UpTo, Passes
<1>4. QED
  BY <1>2, <1>3 DEF Undisturbed

LEMMA UndisturbedIsComplete ==
  ASSUME TypeOK, Undisturbed, pass = "done"
  PROVE  Complete
<1>1. Index = Known
  <2>1. Rows = UNION {found[s] : s \in DOMAIN found}
    BY DEF Undisturbed, WindowIsKept, Rows
  <2>2. QED
    BY <2>1 DEF Index, Known
<1>2. Known \subseteq Numbers /\ \A p \in Known : HasFailed("core", p) \/ Core(p) \in cores
  BY KnownAreNumbers DEF Undisturbed, CoresAreWhole
<1>3. ASSUME NEW p \in Known
      PROVE  HasFailed("core", p) \/ \E c \in cores : c.number = p
  BY <1>2, CoreFacts
<1>4. ASSUME NEW q \in {"detail", "issues"}, NEW n \in Sure(q)
      PROVE  \/ HasFailed(q, n)
             \/ [number |-> n] \in SureIn(q, BucketOf(n, q)) => n \in NumbersOnDisk(q)
  <2>1. q \in UpTo(pass) /\ pass # q /\ q \in Passes
    BY DEF UpTo, Passes
  <2>2. BucketOf(n, q) \in DOMAIN disk[q] \union Failures(q)
    BY <2>1 DEF Undisturbed, NoBucketIsMissing, Buckets
  <2>3. CASE BucketOf(n, q) \in DOMAIN disk[q]
    <3>1. SureIn(q, BucketOf(n, q)) \subseteq disk[q][BucketOf(n, q)]
      BY <2>1, <2>3 DEF Undisturbed, ShardsAreWhole
    <3>2. disk[q][BucketOf(n, q)] \subseteq OnDisk(q)
      BY <2>3 DEF OnDisk
    <3>3. [number |-> n] \in OnDisk(q) => n \in NumbersOnDisk(q)
      BY DEF NumbersOnDisk
    <3>4. QED
      BY <3>1, <3>2, <3>3
  <2>4. CASE BucketOf(n, q) \in Failures(q)
    <3>1. PICK b \in failed : b = <<q, b[2]>> /\ b[2] = BucketOf(n, q)
      BY <2>4 DEF Failures
    <3>2. b = <<q, BucketOf(n, q)>>
      BY <3>1
    <3>3. QED
      BY <3>1, <3>2 DEF HasFailed
  <2>5. QED
    BY <2>2, <2>3, <2>4
<1>5. ASSUME NEW p \in Known, p \in discussed, There(p)
      PROVE  p \in NumbersOnDisk("detail") \/ HasFailed("detail", p) \/ IsScarred(p)
  <2>1. CASE ~IsScarred(p)
    <3>1. p \in Sure("detail")
      BY <1>5, <2>1 DEF Sure
    <3>2. p \in Batch(Sure("detail"), "detail", BucketOf(p, "detail"))
      BY <3>1 DEF Batch
    <3>3. [number |-> p] \in SureIn("detail", BucketOf(p, "detail"))
      BY <1>5, <3>2 DEF SureIn, Answer, There
    <3>4. QED
      BY <1>4, <3>1, <3>3
  <2>2. QED
    BY <2>1
<1>6. ASSUME NEW p \in Known, There(p)
      PROVE  \/ IssueOf[p] \in NumbersOnDisk("issues")
             \/ HasFailed("issues", IssueOf[p]) \/ IsScarred(p)
  <2>1. CASE ~IsScarred(p)
    <3>1. IssueOf[p] \in Sure("issues")
      BY <1>6, <2>1 DEF Sure
    <3>2. IssueOf[p] \in Batch(Sure("issues"), "issues", BucketOf(IssueOf[p], "issues"))
      BY <3>1 DEF Batch
    <3>3. [number |-> IssueOf[p]] \in SureIn("issues", BucketOf(IssueOf[p], "issues"))
      BY <3>2 DEF SureIn, Answer
    <3>4. QED
      BY <1>4, <3>1, <3>3
  <2>2. QED
    BY <2>1
<1>7. QED
  BY <1>1, <1>3, <1>5, <1>6 DEF Complete, There

\* A run that ends over the window and the repository of the first one has
\* the core record of every pull request of its window but those whose batch
\* failed in this run, and the detail of every discussed one and the issue of
\* every one that is there but those whose own batch failed in this run or
\* whose core batch failed in any: for any windows, any bucket sizes, any number
\* of kills and of failed batches in any places, with stored responses that have
\* no shard as well as with shards.
THEOREM ResumedIsComplete == Spec => []ResumedRunIsComplete
<1>1. Spec => [](IInv /\ CleanInv)
  <2>1. Init => CleanInv
    BY CleanStart
  <2>2. IInv /\ CleanInv /\ [Next]_vars => CleanInv'
    BY CleanStep DEF IInv
  <2>3. QED
    BY <2>1, <2>2, Invariant, PTL DEF Spec
<1>2. IInv /\ CleanInv => ResumedRunIsComplete
  BY UndisturbedIsComplete DEF IInv, CleanInv, ResumedRunIsComplete
<1>3. QED
  BY <1>1, <1>2, PTL

-----------------------------------------------------------------------------
(***************************************************************************)
(* Discovery: the days of a slice.                                         *)
(***************************************************************************)

LEMMA LessByFactor ==
  ASSUME NEW d \in Int, 0 < d, NEW a \in Int, NEW b \in Int, d * a < d * b
  PROVE  a < b
<1>1. ASSUME b <= a PROVE FALSE
  <2>1. d * b <= d * a
    BY <1>1
  <2> QED
    BY <2>1
<1> QED
  BY <1>1

LEMMA Multiples ==
  ASSUME NEW q \in Int, NEW d \in Int, 0 < d
  PROVE  (d * q) % d = 0
<1> DEFINE x == d * q
           r == x % d
           k == x \div d
<1>1. x \in Int /\ k \in Int /\ r \in Int /\ x = d * k + r /\ 0 <= r /\ r < d
  OBVIOUS
<1> HIDE DEF r, k
<1>2. d * k <= d * q /\ d * q < d * (k + 1)
  BY <1>1
<1>3. ~(q < k)
  <2> SUFFICES ASSUME q < k PROVE FALSE
    OBVIOUS
  <2>1. d * q < d * k
    BY <1>1
  <2> QED
    BY <1>1, <1>2, <2>1
<1>4. q < k + 1
  BY <1>1, <1>2, LessByFactor
<1>5. q = k
  BY <1>1, <1>3, <1>4
<1>6. r = 0
  BY <1>1, <1>5
<1> QED
  BY <1>6 DEF r

LEMMA SlicesCover ==
  /\ \A s \in Slices : s \in Int \X Int /\ s[1] <= s[2]
  /\ \A d \in FirstDay .. LastDay : \E s \in Slices : d \in Days(s)
  /\ \A s, t \in Slices : s # t => Days(s) \intersect Days(t) = {}
<1> USE DiscoveryAssumption
<1> DEFINE first(x) == x \in FirstDay .. LastDay /\ (x - FirstDay) % SliceDays = 0
<1>1. ASSUME NEW x \in FirstDay .. LastDay
      PROVE  /\ SliceFrom(x) \in Int \X Int /\ SliceFrom(x)[1] = x /\ x <= SliceFrom(x)[2]
             /\ SliceFrom(x)[2] < x + SliceDays
             /\ \A d \in Int : x <= d /\ d < x + SliceDays /\ d <= LastDay
                               => d \in Days(SliceFrom(x))
  BY DEF SliceFrom, Days
<1>2. \A s \in Slices : \E x : first(x) /\ s = SliceFrom(x)
  BY DEF Slices
<1>3. ASSUME NEW d \in FirstDay .. LastDay PROVE \E s \in Slices : d \in Days(s)
  <2> DEFINE a == d - FirstDay
             q == a \div SliceDays
             x == FirstDay + SliceDays * q
  <2>1. a \in Int /\ 0 <= a /\ a <= LastDay - FirstDay
    OBVIOUS
  <2>2. /\ q \in Int /\ SliceDays * q <= a /\ a < SliceDays * (q + 1)
        /\ SliceDays * (q + 1) = SliceDays * q + SliceDays
    BY <2>1
  <2>3. 0 < q + 1
    <3>1. SliceDays * 0 < SliceDays * (q + 1)
      BY <2>1, <2>2
    <3> HIDE DEF q
    <3> QED
      BY <2>2, <3>1, LessByFactor
  <2>4. (SliceDays * q) % SliceDays = 0
    <3> HIDE DEF q
    <3> QED
      BY <2>2, Multiples
  <2> DEFINE y == SliceDays * q
  <2>5. y \in Int /\ 0 <= y /\ y <= a /\ a < y + SliceDays /\ y % SliceDays = 0
    <3>1. 0 <= SliceDays * q
      <4> HIDE DEF q
      <4> QED
        BY <2>2, <2>3
    <3> QED
      BY <2>2, <2>4, <3>1
  <2> HIDE DEF y
  <2>6. first(FirstDay + y)
    BY <2>1, <2>5
  <2>7. d \in Days(SliceFrom(FirstDay + y))
    BY <1>1, <2>1, <2>5, <2>6
  <2>8. SliceFrom(FirstDay + y) \in Slices
    BY <2>6 DEF Slices
  <2> QED
    BY <2>7, <2>8
<1>4. ASSUME NEW x, NEW y, first(x), first(y), x < y
      PROVE  x + SliceDays <= y
  <2> DEFINE k == (x - FirstDay) \div SliceDays
             l == (y - FirstDay) \div SliceDays
  <2>1. /\ x \in Int /\ y \in Int /\ k \in Int /\ l \in Int
        /\ x - FirstDay = SliceDays * k /\ y - FirstDay = SliceDays * l
    <3>1. \A z \in Int : z % SliceDays = 0 => z = SliceDays * (z \div SliceDays)
                                              /\ z \div SliceDays \in Int
      OBVIOUS
    <3> QED
      BY <1>4, <3>1
  <2> HIDE DEF k, l
  <2>2. SliceDays * k < SliceDays * l
    BY <1>4, <2>1
  <2>3. k + 1 <= l
    <3>1. k < l
      BY <2>1, <2>2, LessByFactor
    <3> QED
      BY <2>1, <3>1
  <2>4. SliceDays * (k + 1) <= SliceDays * l
    BY <2>1, <2>3
  <2>5. SliceDays * (k + 1) = SliceDays * k + SliceDays
    BY <2>1
  <2> QED
    BY <2>1, <2>4, <2>5
<1>5. ASSUME NEW x, NEW y, first(x), first(y), x < y
      PROVE  Days(SliceFrom(x)) \intersect Days(SliceFrom(y)) = {}
  <2>1. /\ x \in Int /\ SliceFrom(x) \in Int \X Int /\ SliceFrom(x)[2] < x + SliceDays
        /\ y \in Int /\ SliceFrom(y) \in Int \X Int /\ SliceFrom(y)[1] = y
    BY <1>1, <1>5
  <2>2. x + SliceDays <= y
    BY <1>4, <1>5
  <2>3. SliceFrom(x)[2] < SliceFrom(y)[1]
    BY <2>1, <2>2
  <2> HIDE DEF first
  <2> QED
    BY <2>1, <2>3 DEF Days
<1>6. ASSUME NEW s \in Slices, NEW t \in Slices, s # t
      PROVE  Days(s) \intersect Days(t) = {}
  <2>1. PICK x : first(x) /\ s = SliceFrom(x)
    BY <1>2
  <2>2. PICK y : first(y) /\ t = SliceFrom(y)
    BY <1>2
  <2>3. x < y \/ y < x
    BY <1>6, <2>1, <2>2
  <2> QED
    BY <1>5, <2>1, <2>2, <2>3
<1>7. \A s \in Slices : s \in Int \X Int /\ s[1] <= s[2]
  BY <1>1, <1>2
<1> QED
  BY <1>3, <1>6, <1>7

LEMMA HalvesCover ==
  ASSUME NEW s \in Int \X Int, s[1] < s[2]
  PROVE  \E u, v \in Int \X Int :
           /\ Halves(s) = {u, v} /\ u[1] <= u[2] /\ v[1] <= v[2]
           /\ Days(u) \intersect Days(v) = {}
           /\ Days(s) = Days(u) \union Days(v)
<1> DEFINE m == s[1] + (s[2] - s[1]) \div 2
           u == <<s[1], m>>
           v == <<m + 1, s[2]>>
<1>1. m \in Int /\ s[1] <= m /\ m < s[2]
  OBVIOUS
<1>2. Halves(s) = {u, v}
  BY DEF Halves
<1> HIDE DEF m
<1>3. u \in Int \X Int /\ v \in Int \X Int /\ u[1] <= u[2] /\ v[1] <= v[2]
  BY <1>1
<1>4. Days(u) = s[1] .. m /\ Days(v) = (m + 1) .. s[2] /\ Days(s) = s[1] .. s[2]
  BY DEF Days
<1>5. Days(u) \intersect Days(v) = {} /\ Days(s) = Days(u) \union Days(v)
  BY <1>1, <1>4
<1> HIDE DEF u, v
<1> QED
  BY <1>2, <1>3, <1>5

\* What a run has of a day: all of it, or as much as a search returns.
DayIsDone(d, K) ==
  LET D == In(<<d, d>>)
  IN  IF Cardinality(D) > SEARCH_PAGE_CAP
      THEN Cardinality(K \intersect D) = SEARCH_PAGE_CAP
      ELSE D \subseteq K

Lists == [nodes : SUBSET Results, length : Nat]

DiscoveryTypes ==
  /\ day \in [Results -> FirstDay .. LastDay]
  /\ \A s \in DOMAIN shards : s \in Slices /\ shards[s] \in Lists
  /\ passed \subseteq Slices /\ index \subseteq Results
  /\ slice \in Slices \union {NoSlice}
  /\ todo \subseteq Int \X Int /\ part \in Int \X Int
  /\ page \in Nat /\ nodes \subseteq Results /\ kept \in Lists

NotesAreFull ==
  \A n \in notes : n[1] = n[2] /\ n = <<n[1], n[1]>> /\ Cardinality(In(n)) > SEARCH_PAGE_CAP

\* The list k has every day of s, and each result once.
IsWhole(s, k) ==
  /\ k.nodes \subseteq In(s)
  /\ k.length = Cardinality(k.nodes)
  /\ \A d \in Days(s) : DayIsDone(d, k.nodes)

SlicesAreWhole == \A s \in DOMAIN shards : IsWhole(s, shards[s])

IndexIsWhole ==
  /\ total = Cardinality(index)
  /\ \A r \in index : \E s \in passed : r \in In(s)
  /\ \A s \in passed : \A d \in Days(s) : DayIsDone(d, index)

\* The parts still to be searched share no day with each other or with what was.
PartsAreApart ==
  /\ \A t \in todo : /\ t[1] <= t[2] /\ Days(t) \subseteq Days(slice)
                     /\ kept.nodes \intersect In(t) = {}
                     /\ Days(t) \intersect Days(part) = {}
  /\ \A t, u \in todo : t # u => Days(t) \intersect Days(u) = {}
  /\ kept.nodes \intersect In(part) = {}
  /\ Days(part) \subseteq Days(slice)

NoDayIsLost ==
  /\ kept.nodes \subseteq In(slice)
  /\ kept.length = Cardinality(kept.nodes)
  /\ slice \notin passed
  /\ \A d \in Days(slice) :
       \/ d \in Days(part)
       \/ \E t \in todo : d \in Days(t)
       \/ DayIsDone(d, kept.nodes)

PagesAreFull ==
  IF part = NoSlice THEN page = 0 /\ nodes = {}
  ELSE /\ part[1] <= part[2]
       /\ nodes \subseteq In(part)
       /\ page * PageSize <= SEARCH_PAGE_CAP
       /\ Cardinality(nodes) = IF page * PageSize < Cardinality(In(part))
                               THEN page * PageSize ELSE Cardinality(In(part))
       /\ Cardinality(In(part)) > SEARCH_PAGE_CAP => part[1] = part[2] /\ part \in notes

DiscoveryInv ==
  /\ DiscoveryTypes /\ NotesAreFull /\ SlicesAreWhole /\ IndexIsWhole
  /\ PartsAreApart /\ NoDayIsLost /\ PagesAreFull

(***************************************************************************)
(* What does not change.                                                   *)
(***************************************************************************)

LEMMA Sizes ==
  ASSUME NEW K \in SUBSET Results
  PROVE  /\ IsFiniteSet(K) /\ Cardinality(K) \in Nat
         /\ \A s : IsFiniteSet(In(s)) /\ Cardinality(In(s)) \in Nat /\ In(s) \subseteq Results
<1>1. \A L \in SUBSET Results : IsFiniteSet(L) /\ Cardinality(L) \in Nat
  BY DiscoveryAssumption, FS_Subset, FS_CardinalityType
<1>2. \A s : In(s) \in SUBSET Results
  BY DEF In
<1> QED
  BY <1>1, <1>2

LEMMA SameResults ==
  ASSUME day' = day
  PROVE  \A s : In(s)' = In(s)
BY DEF In, Days

LEMMA DoneStays ==
  ASSUME day' = day
  PROVE  \A d, K : DayIsDone(d, K) => DayIsDone(d, K)'
<1>1. \A s : In(s)' = In(s)
  BY SameResults
<1>2. \A d : In(<<d, d>>)' = In(<<d, d>>)
  BY <1>1
<1> QED
  BY <1>2 DEF DayIsDone

\* Results of other days make no difference.
LEMMA OtherDays ==
  ASSUME NEW d, NEW K, NEW L, K \intersect In(<<d, d>>) = L \intersect In(<<d, d>>),
         DayIsDone(d, K)
  PROVE  DayIsDone(d, L)
<1> DEFINE D == In(<<d, d>>)
<1>1. K \intersect D = L \intersect D
  OBVIOUS
<1>2. D \subseteq K => D \subseteq L
  BY <1>1
<1>3. Cardinality(K \intersect D) = Cardinality(L \intersect D)
  BY <1>1
<1>4. IF Cardinality(D) > SEARCH_PAGE_CAP
      THEN Cardinality(K \intersect D) = SEARCH_PAGE_CAP
      ELSE D \subseteq K
  BY DEF DayIsDone
<1> HIDE DEF D
<1>5. IF Cardinality(D) > SEARCH_PAGE_CAP
      THEN Cardinality(L \intersect D) = SEARCH_PAGE_CAP
      ELSE D \subseteq L
  BY <1>2, <1>3, <1>4
<1> QED
  BY <1>5 DEF D, DayIsDone

LEMMA OnADay ==
  ASSUME DiscoveryTypes, NEW d \in Int
  PROVE  In(<<d, d>>) = {r \in Results : day[r] = d}
<1>1. \A r \in Results : day[r] \in Int
  BY DiscoveryAssumption DEF DiscoveryTypes
<1> QED
  BY <1>1 DEF In, Days

\* A slice and a day outside of it, or two slices without a common day.
LEMMA Apart ==
  ASSUME DiscoveryTypes
  PROVE  /\ \A s, t : Days(s) \intersect Days(t) = {} => In(s) \intersect In(t) = {}
         /\ \A s, t : Days(s) \subseteq Days(t) => In(s) \subseteq In(t)
         /\ \A s : \A d \in Int : d \notin Days(s) => In(<<d, d>>) \intersect In(s) = {}
         /\ \A s \in Int \X Int : \A d \in Days(s) : d \in Int /\ In(<<d, d>>) \subseteq In(s)
<1>1. \A s, t : Days(s) \intersect Days(t) = {} => In(s) \intersect In(t) = {}
  BY DEF In
<1>2. \A s, t : Days(s) \subseteq Days(t) => In(s) \subseteq In(t)
  BY DEF In
<1>3. ASSUME NEW s, NEW d \in Int, d \notin Days(s)
      PROVE  In(<<d, d>>) \intersect In(s) = {}
  BY <1>3, OnADay DEF In
<1>4. ASSUME NEW s \in Int \X Int, NEW d \in Days(s)
      PROVE  d \in Int /\ In(<<d, d>>) \subseteq In(s)
  <2>1. d \in Int
    BY <1>4 DEF Days
  <2> QED
    BY <1>4, <2>1, OnADay DEF In
<1> QED
  BY <1>1, <1>2, <1>3, <1>4

LEMMA NotesStay ==
  ASSUME NotesAreFull, day' = day, notes' \subseteq notes
  PROVE  NotesAreFull'
<1>1. \A s : In(s)' = In(s)
  BY SameResults
<1> QED
  BY <1>1 DEF NotesAreFull

LEMMA WholeStays ==
  ASSUME day' = day
  PROVE  \A s, k : IsWhole(s, k) => IsWhole(s, k)'
<1>1. \A s : In(s)' = In(s)
  BY SameResults
<1>2. \A d, K : DayIsDone(d, K) => DayIsDone(d, K)'
  BY DoneStays
<1> QED
  BY <1>1, <1>2 DEF IsWhole

LEMMA ShardsStay ==
  ASSUME SlicesAreWhole, day' = day, shards' = shards
  PROVE  SlicesAreWhole'
<1>1. \A s, k : IsWhole(s, k) => IsWhole(s, k)'
  BY WholeStays
<1>2. \A s \in DOMAIN shards : IsWhole(s, shards[s])'
  <2> TAKE s \in DOMAIN shards
  <2>1. IsWhole(s, shards[s])
    BY DEF SlicesAreWhole
  <2> DEFINE k == shards[s]
  <2>2. k' = k
    OBVIOUS
  <2> QED
    BY <1>1, <2>1, <2>2 DEF IsWhole, DayIsDone
<1> QED
  BY <1>2 DEF SlicesAreWhole

LEMMA IndexStays ==
  ASSUME IndexIsWhole, day' = day, UNCHANGED ofRun
  PROVE  IndexIsWhole'
<1>1. \A d, K : DayIsDone(d, K) => DayIsDone(d, K)'
  BY DoneStays
<1>2. \A s : In(s)' = In(s)
  BY SameResults
<1>3. passed' = passed /\ index' = index /\ total' = total
  BY DEF ofRun
<1>4. \A s \in passed : \A d \in Days(s) : DayIsDone(d, index)'
  <2> TAKE s \in passed
  <2> TAKE d \in Days(s)
  <2>1. DayIsDone(d, index)
    BY DEF IndexIsWhole
  <2> QED
    BY <1>1, <1>3, <2>1 DEF DayIsDone
<1>5. \A r \in index : \E s \in passed : r \in In(s)'
  BY <1>2 DEF IndexIsWhole
<1>6. total = Cardinality(index)
  BY DEF IndexIsWhole
<1> QED
  BY <1>3, <1>4, <1>5, <1>6 DEF IndexIsWhole

LEMMA PartsStay ==
  ASSUME PartsAreApart, day' = day, slice' = slice, todo' = todo, part' = part, kept' = kept
  PROVE  PartsAreApart'
<1>1. \A s : In(s)' = In(s)
  BY SameResults
<1>2. \A s : Days(s)' = Days(s)
  BY DEF Days
<1> QED
  BY <1>1, <1>2 DEF PartsAreApart

LEMMA NoDayGoes ==
  ASSUME NoDayIsLost, day' = day, slice' = slice, todo' = todo,
         part' = part, kept' = kept, passed' = passed
  PROVE  NoDayIsLost'
<1>1. \A d, K : DayIsDone(d, K) => DayIsDone(d, K)'
  BY DoneStays
<1>2. \A s : In(s)' = In(s)
  BY SameResults
<1>3. \A d \in Days(slice) :
       \/ d \in Days(part)
       \/ \E t \in todo : d \in Days(t)
       \/ DayIsDone(d, kept.nodes)'
  <2> TAKE d \in Days(slice)
  <2> DEFINE K == kept.nodes
  <2>1. \/ d \in Days(part)
        \/ \E t \in todo : d \in Days(t)
        \/ DayIsDone(d, K)
    BY DEF NoDayIsLost
  <2>2. K' = K
    OBVIOUS
  <2> HIDE DEF K
  <2>3. DayIsDone(d, K) => DayIsDone(d, K)'
    BY <1>1, <2>2 DEF DayIsDone
  <2> QED
    BY <2>1, <2>3 DEF K
<1>4. Days(slice)' = Days(slice) /\ Days(part)' = Days(part) /\ \A t : Days(t)' = Days(t)
  BY DEF Days
<1> QED
  BY <1>2, <1>3, <1>4 DEF NoDayIsLost

LEMMA PagesStay ==
  ASSUME PagesAreFull, day' = day, notes \subseteq notes', part' = part, page' = page,
         nodes' = nodes
  PROVE  PagesAreFull'
<1>1. \A s : In(s)' = In(s)
  BY SameResults
<1>2. In(part)' = In(part)
  BY <1>1
<1> QED
  BY <1>2 DEF PagesAreFull

\* With no slice being searched, no part of one is.
LEMMA AtRest ==
  ASSUME DiscoveryInv, slice = NoSlice
  PROVE  todo = {} /\ part = NoSlice /\ kept.nodes = {}
<1>1. Days(slice) = {}
  BY DEF Days, NoSlice
<1>2. ASSUME NEW t \in Int \X Int, t[1] <= t[2] PROVE t[1] \in Days(t)
  BY <1>2 DEF Days
<1>3. todo = {}
  BY <1>1, <1>2 DEF DiscoveryInv, DiscoveryTypes, PartsAreApart
<1>4. part = NoSlice
  BY <1>1, <1>2 DEF DiscoveryInv, DiscoveryTypes, PartsAreApart, PagesAreFull
<1>5. kept.nodes = {}
  BY <1>1 DEF DiscoveryInv, NoDayIsLost, In
<1> QED
  BY <1>3, <1>4, <1>5

\* What a run takes over for a slice makes its index whole for that slice too.
LEMMA Collecting ==
  ASSUME DiscoveryTypes, IndexIsWhole, NEW s \in Slices, s \notin passed,
         NEW k \in Lists, IsWhole(s, k), Collect(s, k), day' = day
  PROVE  IndexIsWhole' /\ passed' \subseteq Slices /\ index' \subseteq Results
<1> DEFINE N == k.nodes
<1>0. N \in SUBSET Results /\ index \in SUBSET Results /\ k.length = Cardinality(N)
      /\ N \subseteq In(s)
  BY DEF Lists, DiscoveryTypes, IsWhole
<1>1. /\ passed' = passed \union {s} /\ index' = index \union N
      /\ total' = total + k.length
  BY DEF Collect
<1>2. \A t \in passed : t \in Slices /\ Days(t) \intersect Days(s) = {}
  BY SlicesCover DEF DiscoveryTypes
<1>3. \A t \in passed : In(t) \intersect In(s) = {}
  BY <1>2, Apart
<1>4. index \intersect In(s) = {}
  BY <1>3 DEF IndexIsWhole
<1>5. total' = Cardinality(index')
  <2>1. index \intersect N = {}
    BY <1>0, <1>4
  <2>2. IsFiniteSet(index) /\ IsFiniteSet(N) /\ Cardinality(index) \in Nat /\ Cardinality(N) \in Nat
    BY <1>0, Sizes
  <2>3. Cardinality(index \union N) = Cardinality(index) + Cardinality(N) - Cardinality({})
    BY <2>1, <2>2, FS_Union
  <2>4. Cardinality({}) = 0
    BY FS_EmptySet
  <2>5. total = Cardinality(index)
    BY DEF IndexIsWhole
  <2> QED
    BY <1>0, <1>1, <2>2, <2>3, <2>4, <2>5
<1>6. \A t \in Slices : t \in Int \X Int
  BY SlicesCover
<1>7. ASSUME NEW t \in passed, NEW d \in Days(t) PROVE DayIsDone(d, index \union N)
  <2>1. d \in Int /\ In(<<d, d>>) \subseteq In(t)
    BY <1>2, <1>6, Apart
  <2>2. (index \union N) \intersect In(<<d, d>>) = index \intersect In(<<d, d>>)
    BY <1>0, <1>3, <2>1
  <2>3. DayIsDone(d, index)
    BY DEF IndexIsWhole
  <2> QED
    BY <2>2, <2>3, OtherDays
<1>8. ASSUME NEW d \in Days(s) PROVE DayIsDone(d, index \union N)
  <2>1. d \in Int /\ In(<<d, d>>) \subseteq In(s)
    BY <1>6, Apart
  <2>2. (index \union N) \intersect In(<<d, d>>) = N \intersect In(<<d, d>>)
    BY <1>4, <2>1
  <2>3. DayIsDone(d, N)
    BY DEF IsWhole
  <2> QED
    BY <2>2, <2>3, OtherDays
<1>9. \A t \in passed' : \A d \in Days(t) : DayIsDone(d, index)'
  <2> TAKE t \in passed'
  <2> TAKE d \in Days(t)
  <2>1. DayIsDone(d, index \union N)
    BY <1>1, <1>7, <1>8
  <2>2. \A x : In(x)' = In(x)
    BY SameResults
  <2>3. In(<<d, d>>)' = In(<<d, d>>)
    BY <2>2
  <2> HIDE DEF N
  <2> QED
    BY <1>1, <2>1, <2>3 DEF DayIsDone
<1>10. \A r \in index' : \E t \in passed' : r \in In(t)'
  <2>1. \A t : In(t)' = In(t)
    BY SameResults
  <2>2. \A r \in index' : \E t \in passed' : r \in In(t)
    BY <1>0, <1>1 DEF IndexIsWhole
  <2> QED
    BY <2>1, <2>2
<1>11. IndexIsWhole'
  BY <1>5, <1>9, <1>10 DEF IndexIsWhole, Days
<1> QED
  BY <1>0, <1>1, <1>11 DEF DiscoveryTypes

-----------------------------------------------------------------------------
(***************************************************************************)
(* The steps of a discovery.                                               *)
(***************************************************************************)

LEMMA NoSliceIsNone == NoSlice \notin Slices /\ NoSlice \in Int \X Int /\ Days(NoSlice) = {}
BY SlicesCover DEF NoSlice, Days

LEMMA NothingIsAList == Nothing \in Lists /\ Nothing.nodes = {} /\ Nothing.length = 0
BY DEF Nothing, Lists

LEMMA DiscoveryStarts == DiscoveryInit => DiscoveryInv
<1> SUFFICES ASSUME DiscoveryInit PROVE DiscoveryInv
  OBVIOUS
<1> USE DEF DiscoveryInit, StartRun
<1>1. DiscoveryTypes
  BY NoSliceIsNone, NothingIsAList DEF DiscoveryTypes
<1>2. NotesAreFull /\ SlicesAreWhole
  BY DEF NotesAreFull, SlicesAreWhole
<1>3. IndexIsWhole
  BY FS_EmptySet DEF IndexIsWhole
<1>4. PartsAreApart
  BY NoSliceIsNone, NothingIsAList DEF PartsAreApart
<1>5. NoDayIsLost
  BY NoSliceIsNone, NothingIsAList, FS_EmptySet DEF NoDayIsLost
<1>6. PagesAreFull
  BY DEF PagesAreFull
<1> QED
  BY <1>1, <1>2, <1>3, <1>4, <1>5, <1>6 DEF DiscoveryInv

LEMMA ReadSliceStep ==
  ASSUME DiscoveryInv, slice = NoSlice, NEW s \in Slices \ passed, ReadSlice(s)
  PROVE  DiscoveryInv'
<1> USE DEF DiscoveryInv
<1>1. /\ s \in DOMAIN shards /\ Collect(s, shards[s]) /\ day' = day
      /\ shards' = shards /\ notes' = notes /\ UNCHANGED ofSlice
  BY DEF ReadSlice, onDisk
<1>2. shards[s] \in Lists /\ IsWhole(s, shards[s])
  BY <1>1 DEF DiscoveryTypes, SlicesAreWhole
<1>3. IndexIsWhole' /\ passed' \subseteq Slices /\ index' \subseteq Results
  BY <1>1, <1>2, Collecting
<1>4. /\ slice' = slice /\ todo' = todo /\ part' = part /\ page' = page /\ nodes' = nodes
      /\ kept' = kept
  BY <1>1 DEF ofSlice
<1>5. DiscoveryTypes'
  BY <1>1, <1>3, <1>4 DEF DiscoveryTypes
<1>6. NoDayIsLost'
  <2>1. kept.nodes = {} /\ kept.length = Cardinality(kept.nodes)
    BY AtRest DEF NoDayIsLost
  <2>2. slice' \notin passed' /\ Days(slice') = {}
    BY <1>3, <1>4, NoSliceIsNone
  <2> QED
    BY <1>4, <2>1, <2>2 DEF NoDayIsLost, Days
<1> QED
  BY <1>1, <1>3, <1>4, <1>5, <1>6, NotesStay, ShardsStay, PartsStay, PagesStay

LEMMA BeginSliceStep ==
  ASSUME DiscoveryInv, slice = NoSlice, NEW s \in Slices \ passed, BeginSlice(s)
  PROVE  DiscoveryInv'
<1> USE DEF DiscoveryInv
<1>1. /\ slice' = s /\ todo' = {s} /\ kept' = Nothing /\ day' = day
      /\ shards' = shards /\ notes' = notes /\ UNCHANGED ofRun
      /\ part' = part /\ page' = page /\ nodes' = nodes
  BY DEF BeginSlice, onDisk, reports
<1>2. part = NoSlice
  BY AtRest
<1>3. s \in Int \X Int /\ s[1] <= s[2]
  BY SlicesCover
<1>4. DiscoveryTypes'
  BY <1>1, <1>3, NothingIsAList DEF DiscoveryTypes, ofRun
<1>5. PartsAreApart'
  BY <1>1, <1>2, <1>3, NoSliceIsNone, NothingIsAList DEF PartsAreApart, Days
<1>6. NoDayIsLost'
  <2>1. /\ kept'.nodes = {} /\ kept'.length = Cardinality(kept'.nodes) /\ slice' \notin passed'
    BY <1>1, NothingIsAList, FS_EmptySet DEF ofRun
  <2>2. \A d \in Days(slice') : \E t \in todo' : d \in Days(t)
    BY <1>1
  <2> QED
    BY <2>1, <2>2 DEF NoDayIsLost, Days
<1> QED
  BY <1>1, <1>4, <1>5, <1>6, NotesStay, ShardsStay, IndexStays, PagesStay

LEMMA SplitStep ==
  ASSUME DiscoveryInv, NEW s \in todo, Split(s)
  PROVE  DiscoveryInv'
<1> USE DEF DiscoveryInv
<1>1. /\ s[1] < s[2] /\ todo' = (todo \ {s}) \union Halves(s) /\ day' = day
      /\ shards' = shards /\ notes' = notes /\ UNCHANGED ofRun /\ slice' = slice
      /\ part' = part /\ page' = page /\ nodes' = nodes /\ kept' = kept
  BY DEF Split, onDisk, reports
<1>2. s \in Int \X Int
  BY DEF DiscoveryTypes
<1>3. PICK u, v \in Int \X Int :
        /\ Halves(s) = {u, v} /\ u[1] <= u[2] /\ v[1] <= v[2]
        /\ Days(u) \intersect Days(v) = {}
        /\ Days(s) = Days(u) \union Days(v)
  BY <1>1, <1>2, HalvesCover
<1>4. todo' = (todo \ {s}) \union {u, v}
  BY <1>1, <1>3
<1>5. DiscoveryTypes'
  BY <1>1, <1>4 DEF DiscoveryTypes, ofRun
<1>6. In(u) \subseteq In(s) /\ In(v) \subseteq In(s)
  BY <1>3, Apart
<1>7. \A t \in todo' : /\ t[1] <= t[2] /\ Days(t) \subseteq Days(slice)
                       /\ kept.nodes \intersect In(t) = {}
                       /\ Days(t) \intersect Days(part) = {}
  <2>1. /\ Days(s) \subseteq Days(slice)
        /\ kept.nodes \intersect In(s) = {}
        /\ Days(s) \intersect Days(part) = {}
    BY DEF PartsAreApart
  <2>2. \A t \in {u, v} : /\ t[1] <= t[2] /\ Days(t) \subseteq Days(slice)
                          /\ kept.nodes \intersect In(t) = {}
                          /\ Days(t) \intersect Days(part) = {}
    BY <1>3, <1>6, <2>1
  <2> QED
    BY <1>4, <2>2 DEF PartsAreApart
<1>8. \A t, w \in todo' : t # w => Days(t) \intersect Days(w) = {}
  <2>1. \A t \in todo \ {s} : Days(t) \intersect Days(u) = {} /\ Days(t) \intersect Days(v) = {}
    BY <1>3 DEF PartsAreApart
  <2>2. \A t, w \in todo \ {s} : t # w => Days(t) \intersect Days(w) = {}
    BY DEF PartsAreApart
  <2> QED
    BY <1>3, <1>4, <2>1, <2>2
<1>9. PartsAreApart'
  <2>1. \A t : In(t)' = In(t)
    BY <1>1, SameResults
  <2>2. \A t : Days(t)' = Days(t)
    BY DEF Days
  <2> QED
    BY <1>1, <1>7, <1>8, <2>1, <2>2 DEF PartsAreApart
<1>10. NoDayIsLost'
  <2>1. \A d \in Days(slice) : \/ d \in Days(part) \/ \E t \in todo' : d \in Days(t)
                               \/ DayIsDone(d, kept.nodes)
    BY <1>3, <1>4 DEF NoDayIsLost
  <2>2. \A d, K : DayIsDone(d, K) => DayIsDone(d, K)'
    BY <1>1, DoneStays
  <2>3. \A d : DayIsDone(d, kept.nodes) => DayIsDone(d, kept.nodes)'
    <3> TAKE d
    <3> DEFINE K == kept.nodes
    <3>1. K' = K
      BY <1>1
    <3> HIDE DEF K
    <3>2. DayIsDone(d, K) => DayIsDone(d, K)'
      BY <2>2, <3>1 DEF DayIsDone
    <3> QED
      BY <3>2 DEF K
  <2>4. \A t : In(t)' = In(t)
    BY <1>1, SameResults
  <2>5. \A t : Days(t)' = Days(t)
    BY DEF Days
  <2>6. /\ kept.nodes \subseteq In(slice) /\ kept.length = Cardinality(kept.nodes)
        /\ slice \notin passed
    BY DEF NoDayIsLost
  <2> QED
    BY <1>1, <2>1, <2>3, <2>4, <2>5, <2>6 DEF NoDayIsLost, ofRun
<1> QED
  BY <1>1, <1>5, <1>9, <1>10, NotesStay, ShardsStay, IndexStays, PagesStay

LEMMA CapIsFullPages ==
  \E k \in Nat \ {0} : SEARCH_PAGE_CAP = PageSize * k
<1> USE DiscoveryAssumption
<1> DEFINE k == SEARCH_PAGE_CAP \div PageSize
<1>1. k \in Int /\ SEARCH_PAGE_CAP = PageSize * k
  OBVIOUS
<1> HIDE DEF k
<1>2. PageSize * 0 < PageSize * k
  BY <1>1
<1>3. 0 < k
  BY <1>1, <1>2, LessByFactor
<1> QED
  BY <1>1, <1>3

LEMMA PagesFit ==
  ASSUME NEW p \in Nat, p * PageSize < SEARCH_PAGE_CAP
  PROVE  p * PageSize + PageSize <= SEARCH_PAGE_CAP
<1> USE DiscoveryAssumption
<1>1. PICK k \in Nat \ {0} : SEARCH_PAGE_CAP = PageSize * k
  BY CapIsFullPages
<1>2. PageSize * p < PageSize * k
  BY <1>1
<1>3. p + 1 <= k
  <2>1. p < k
    BY <1>2, LessByFactor
  <2> QED
    BY <2>1
<1>4. PageSize * (p + 1) <= PageSize * k
  BY <1>3
<1>5. PageSize * (p + 1) = PageSize * p + PageSize /\ PageSize * p = p * PageSize
  OBVIOUS
<1> QED
  BY <1>1, <1>4, <1>5

LEMMA FirstPageStep ==
  ASSUME DiscoveryInv, slice # NoSlice, part = NoSlice, NEW s \in todo, FirstPage(s)
  PROVE  DiscoveryInv'
<1> USE DEF DiscoveryInv
<1>1. /\ ~(Cardinality(In(s)) > SEARCH_PAGE_CAP /\ s[1] < s[2])
      /\ todo' = todo \ {s} /\ part' = s /\ page' = 1 /\ nodes' \in Pages(In(s))
      /\ notes' = IF Cardinality(In(s)) > SEARCH_PAGE_CAP THEN notes \union {s} ELSE notes
      /\ day' = day /\ shards' = shards /\ UNCHANGED ofRun /\ slice' = slice /\ kept' = kept
  BY DEF FirstPage, onDisk
<1>2. s \in Int \X Int /\ s = <<s[1], s[2]>> /\ s[1] <= s[2]
  BY DEF DiscoveryTypes, PartsAreApart
<1>3. notes \subseteq notes'
  BY <1>1
<1>4. \A t : In(t)' = In(t)
  BY <1>1, SameResults
<1>5. \A t : Days(t)' = Days(t)
  BY DEF Days
<1>6. Cardinality(In(s)) > SEARCH_PAGE_CAP => s[1] = s[2]
  BY <1>1, <1>2
<1>7. /\ nodes' \subseteq In(s) /\ In(s) \subseteq Results /\ Cardinality(In(s)) \in Nat
      /\ Cardinality(nodes') = IF Cardinality(In(s)) < PageSize
                               THEN Cardinality(In(s)) ELSE PageSize
  BY <1>1, Sizes DEF Pages, kSubset
<1>8. DiscoveryTypes'
  BY <1>1, <1>2, <1>7 DEF DiscoveryTypes, ofRun
<1>9. NotesAreFull'
  <2>1. \A n \in notes : n[1] = n[2] /\ n = <<n[1], n[1]>> /\ Cardinality(In(n)) > SEARCH_PAGE_CAP
    BY DEF NotesAreFull
  <2>2. Cardinality(In(s)) > SEARCH_PAGE_CAP => s[1] = s[2] /\ s = <<s[1], s[1]>>
    BY <1>2, <1>6
  <2>3. \A n \in notes' : n[1] = n[2] /\ n = <<n[1], n[1]>> /\ Cardinality(In(n)) > SEARCH_PAGE_CAP
    BY <1>1, <2>1, <2>2
  <2> QED
    BY <1>4, <2>3 DEF NotesAreFull
<1>10. PartsAreApart'
  <2>1. /\ Days(s) \subseteq Days(slice) /\ kept.nodes \intersect In(s) = {}
        /\ \A t \in todo \ {s} : Days(t) \intersect Days(s) = {}
    BY DEF PartsAreApart
  <2>2. \A t \in todo \ {s} : /\ t[1] <= t[2] /\ Days(t) \subseteq Days(slice)
                              /\ kept.nodes \intersect In(t) = {}
                              /\ Days(t) \intersect Days(s) = {}
    BY <2>1 DEF PartsAreApart
  <2>3. \A t, u \in todo \ {s} : t # u => Days(t) \intersect Days(u) = {}
    BY DEF PartsAreApart
  <2> QED
    BY <1>1, <1>4, <1>5, <2>1, <2>2, <2>3 DEF PartsAreApart
<1>11. NoDayIsLost'
  <2>1. \A d \in Days(slice) : \/ d \in Days(s) \/ \E t \in todo \ {s} : d \in Days(t)
                               \/ DayIsDone(d, kept.nodes)
    BY NoSliceIsNone DEF NoDayIsLost
  <2>2. \A d, K : DayIsDone(d, K) => DayIsDone(d, K)'
    BY <1>1, <1>3, DoneStays
  <2>3. \A d : DayIsDone(d, kept.nodes) => DayIsDone(d, kept.nodes)'
    <3> TAKE d
    <3> DEFINE K == kept.nodes
    <3>1. K' = K
      BY <1>1
    <3> HIDE DEF K
    <3>2. DayIsDone(d, K) => DayIsDone(d, K)'
      BY <2>2, <3>1 DEF DayIsDone
    <3> QED
      BY <3>2 DEF K
  <2>4. /\ kept.nodes \subseteq In(slice) /\ kept.length = Cardinality(kept.nodes)
        /\ slice \notin passed
    BY DEF NoDayIsLost
  <2> QED
    BY <1>1, <1>4, <1>5, <2>1, <2>3, <2>4 DEF NoDayIsLost, ofRun
<1>12. PagesAreFull'
  <2>1. s # NoSlice
    BY <1>2 DEF NoSlice
  <2>2. PageSize <= SEARCH_PAGE_CAP
    BY PagesFit, DiscoveryAssumption
  <2>3. In(part)' = In(s)
    <3>1. In(part)' = In(s)'
      BY <1>1 DEF In, Days
    <3> QED
      BY <1>4, <3>1
  <2>4. Cardinality(In(s)) > SEARCH_PAGE_CAP => s \in notes'
    BY <1>1
  <2>5. page' * PageSize = PageSize
    BY <1>1, DiscoveryAssumption
  <2>6. Cardinality(nodes') = IF page' * PageSize < Cardinality(In(s))
                              THEN page' * PageSize ELSE Cardinality(In(s))
    BY <1>7, <2>5, DiscoveryAssumption
  <2>7. part' = s
    BY <1>1
  <2> QED
    BY <1>2, <1>6, <1>7, <2>1, <2>2, <2>3, <2>4, <2>5, <2>6, <2>7 DEF PagesAreFull, NoSlice
<1> QED
  BY <1>1, <1>3, <1>8, <1>9, <1>10, <1>11, <1>12, ShardsStay, IndexStays

LEMMA SizesAdd ==
  ASSUME NEW S, NEW T, IsFiniteSet(S), IsFiniteSet(T), S \intersect T = {}
  PROVE  Cardinality(S \union T) = Cardinality(S) + Cardinality(T)
<1>1. Cardinality(S \union T) = Cardinality(S) + Cardinality(T) - Cardinality(S \intersect T)
  BY FS_Union
<1>2. Cardinality(S \intersect T) = 0
  BY FS_EmptySet
<1>3. Cardinality(S) \in Nat /\ Cardinality(T) \in Nat
  BY FS_CardinalityType
<1> QED
  BY <1>1, <1>2, <1>3

LEMMA NextPageStep ==
  ASSUME DiscoveryInv, NextPage
  PROVE  DiscoveryInv'
<1> USE DiscoveryAssumption DEF DiscoveryInv
<1>1. /\ part # NoSlice /\ In(part) \ nodes # {} /\ page * PageSize < SEARCH_PAGE_CAP
      /\ page' = page + 1 /\ day' = day /\ shards' = shards /\ notes' = notes
      /\ UNCHANGED ofRun /\ slice' = slice /\ todo' = todo /\ part' = part /\ kept' = kept
  BY DEF NextPage, MorePages, onDisk, reports
<1>2. PICK P \in Pages(In(part) \ nodes) : nodes' = nodes \union P
  BY DEF NextPage
<1> DEFINE All == In(part)
           rest == All \ nodes
<1>3. /\ nodes \subseteq All /\ All \subseteq Results
      /\ IsFiniteSet(All) /\ Cardinality(All) \in Nat
      /\ IsFiniteSet(nodes) /\ Cardinality(nodes) \in Nat
      /\ IsFiniteSet(rest) /\ Cardinality(rest) \in Nat
  <2>1. nodes \subseteq All /\ All \in SUBSET Results /\ nodes \in SUBSET Results
        /\ rest \in SUBSET Results
    BY <1>1 DEF PagesAreFull, In
  <2> HIDE DEF All, rest
  <2> QED
    BY <2>1, Sizes
<1>4. /\ P \subseteq rest
      /\ Cardinality(P) = IF Cardinality(rest) < PageSize THEN Cardinality(rest) ELSE PageSize
  BY DEF Pages, kSubset
<1>5. Cardinality(nodes) = IF page * PageSize < Cardinality(All)
                           THEN page * PageSize ELSE Cardinality(All)
  BY <1>1 DEF PagesAreFull
<1>6. rest # {}
  BY <1>1
<1>7. page \in Nat
  BY DEF DiscoveryTypes
<1> HIDE DEF All, rest
<1>8. Cardinality(All) = Cardinality(nodes) + Cardinality(rest)
  <2>1. All = nodes \union rest /\ nodes \intersect rest = {}
    BY <1>3 DEF rest
  <2> QED
    BY <1>3, <2>1, SizesAdd
<1>9. Cardinality(nodes \union P) = Cardinality(nodes) + Cardinality(P)
  <2>1. nodes \intersect P = {} /\ IsFiniteSet(P) /\ Cardinality(P) \in Nat
    BY <1>3, <1>4, FS_Subset, FS_CardinalityType DEF rest
  <2> QED
    BY <1>3, <2>1, SizesAdd
<1>10. Cardinality(rest) # 0
  BY <1>3, <1>6, FS_EmptySet
<1>11. /\ page * PageSize \in Nat /\ (page + 1) * PageSize = page * PageSize + PageSize
  BY <1>7
<1>12. Cardinality(nodes \union P) = IF (page + 1) * PageSize < Cardinality(All)
                                     THEN (page + 1) * PageSize ELSE Cardinality(All)
  <2> DEFINE x == page * PageSize
  <2>1. x \in Nat /\ (page + 1) * PageSize = x + PageSize
    BY <1>11
  <2>2. Cardinality(nodes) = IF x < Cardinality(All) THEN x ELSE Cardinality(All)
    BY <1>5
  <2> HIDE DEF x
  <2> QED
    BY <1>3, <1>4, <1>8, <1>9, <1>10, <2>1, <2>2
<1>13. (page + 1) * PageSize <= SEARCH_PAGE_CAP
  BY <1>1, <1>7, <1>11, PagesFit
<1>14. DiscoveryTypes'
  BY <1>1, <1>2, <1>3, <1>4, <1>7 DEF DiscoveryTypes, ofRun, rest
<1>15. PagesAreFull'
  <2>1. In(part)' = All
    <3>1. \A s : In(s)' = In(s)
      BY <1>1, SameResults
    <3>2. In(part)' = In(part)
      BY <1>1, <3>1 DEF In, Days
    <3> QED
      BY <3>2 DEF All
  <2>2. nodes' \subseteq All
    BY <1>2, <1>3, <1>4 DEF rest
  <2>3. /\ part[1] <= part[2]
        /\ Cardinality(All) > SEARCH_PAGE_CAP => part[1] = part[2] /\ part \in notes
    BY <1>1 DEF PagesAreFull, All
  <2> QED
    BY <1>1, <1>2, <1>12, <1>13, <2>1, <2>2, <2>3 DEF PagesAreFull
<1> QED
  BY <1>1, <1>14, <1>15, NotesStay, ShardsStay, IndexStays, PartsStay, NoDayGoes DEF ofRun

LEMMA EndPartStep ==
  ASSUME DiscoveryInv, EndPart
  PROVE  DiscoveryInv'
<1> USE DiscoveryAssumption DEF DiscoveryInv
<1>1. /\ part # NoSlice /\ ~MorePages
      /\ kept' = Joined(kept, nodes) /\ part' = NoSlice /\ page' = 0 /\ nodes' = {}
      /\ day' = day /\ shards' = shards /\ notes' = notes
      /\ UNCHANGED ofRun /\ slice' = slice /\ todo' = todo
  BY DEF EndPart, onDisk, reports
<1> DEFINE All == In(part)
           K == kept.nodes
<1>2. /\ nodes \subseteq All /\ All \in SUBSET Results /\ nodes \in SUBSET Results
      /\ K \in SUBSET Results /\ K \intersect All = {}
      /\ kept'.nodes = K \union nodes /\ kept'.length = kept.length + Cardinality(nodes)
      /\ part \in Int \X Int /\ part[1] <= part[2] /\ Days(part) \subseteq Days(slice)
  BY <1>1 DEF PagesAreFull, DiscoveryTypes, Lists, PartsAreApart, Joined, In
<1>3. /\ IsFiniteSet(All) /\ Cardinality(All) \in Nat
      /\ IsFiniteSet(nodes) /\ Cardinality(nodes) \in Nat
      /\ IsFiniteSet(K) /\ Cardinality(K) \in Nat
  <2> HIDE DEF All, K
  <2> QED
    BY <1>2, Sizes
<1>4. /\ page * PageSize <= SEARCH_PAGE_CAP
      /\ Cardinality(nodes) = IF page * PageSize < Cardinality(All)
                              THEN page * PageSize ELSE Cardinality(All)
      /\ Cardinality(All) > SEARCH_PAGE_CAP => part[1] = part[2] /\ part \in notes
      /\ All \ nodes = {} \/ ~(page * PageSize < SEARCH_PAGE_CAP)
  BY <1>1 DEF PagesAreFull, MorePages
<1>5. page * PageSize \in Nat
  BY DEF DiscoveryTypes
<1>6. Cardinality(All) <= SEARCH_PAGE_CAP => nodes = All
  <2> SUFFICES ASSUME Cardinality(All) <= SEARCH_PAGE_CAP, All \ nodes # {} PROVE FALSE
    BY <1>2
  <2> HIDE DEF All
  <2>1. Cardinality(nodes) = Cardinality(All)
    BY <1>3, <1>4, <1>5
  <2>2. nodes = All
    BY <1>2, <1>3, <2>1, FS_Subset
  <2> QED
    BY <2>2
<1>7. Cardinality(All) > SEARCH_PAGE_CAP => Cardinality(nodes) = SEARCH_PAGE_CAP
  <2> SUFFICES ASSUME Cardinality(All) > SEARCH_PAGE_CAP
               PROVE  Cardinality(nodes) = SEARCH_PAGE_CAP
    OBVIOUS
  <2> HIDE DEF All
  <2>1. Cardinality(nodes) = page * PageSize
    BY <1>3, <1>4, <1>5
  <2>2. nodes # All
    BY <1>3, <1>4, <1>5, <2>1
  <2>3. All \ nodes # {}
    BY <1>2, <2>2
  <2>4. page * PageSize <= SEARCH_PAGE_CAP /\ ~(page * PageSize < SEARCH_PAGE_CAP)
    BY <1>4, <2>3
  <2> QED
    BY <1>5, <2>1, <2>4
<1> HIDE DEF All, K
<1>8. ASSUME NEW d \in Days(part) PROVE DayIsDone(d, K \union nodes)
  <2> DEFINE D == In(<<d, d>>)
  <2>1. d \in Int /\ D \subseteq All
    BY <1>2, Apart DEF All
  <2>2. IsFiniteSet(D) /\ Cardinality(D) \in Nat /\ Cardinality(D) <= Cardinality(All)
    <3>1. D \in SUBSET All
      BY <2>1
    <3> HIDE DEF D
    <3> QED
      BY <1>3, <3>1, FS_Subset, FS_CardinalityType
  <2>3. CASE Cardinality(All) <= SEARCH_PAGE_CAP
    <3>1. D \subseteq K \union nodes
      BY <1>6, <2>1, <2>3
    <3>2. ~(Cardinality(D) > SEARCH_PAGE_CAP)
      <4> HIDE DEF D
      <4> QED
        BY <1>3, <2>2, <2>3
    <3> QED
      BY <3>1, <3>2 DEF DayIsDone
  <2>4. CASE Cardinality(All) > SEARCH_PAGE_CAP
    <3>1. part = <<d, d>> /\ part \in notes
      BY <1>2, <1>4, <2>4 DEF Days
    <3>2. D = All
      BY <3>1 DEF All
    <3>3. (K \union nodes) \intersect All = nodes
      BY <1>2
    <3>4. Cardinality((K \union nodes) \intersect D) = SEARCH_PAGE_CAP
      BY <1>7, <2>4, <3>2, <3>3
    <3> QED
      BY <2>4, <3>1, <3>2, <3>4 DEF DayIsDone
  <2> QED
    BY <1>3, <2>3, <2>4
<1>9. ASSUME NEW d \in Days(slice), d \notin Days(part), DayIsDone(d, K)
      PROVE  DayIsDone(d, K \union nodes)
  <2>1. d \in Int
    BY <1>9 DEF Days, DiscoveryTypes, Slices, SliceFrom
  <2>2. In(<<d, d>>) \intersect nodes = {}
    BY <1>2, <1>9, <2>1, Apart DEF All
  <2>3. (K \union nodes) \intersect In(<<d, d>>) = K \intersect In(<<d, d>>)
    BY <2>2
  <2> QED
    BY <1>9, <2>3, OtherDays
<1>10. \A t : In(t)' = In(t)
  BY <1>1, SameResults
<1>11. \A t : Days(t)' = Days(t)
  BY DEF Days
<1>12. DiscoveryTypes'
  <2>1. kept' \in Lists
    BY <1>1, <1>2, <1>3 DEF DiscoveryTypes, Lists, Joined, K
  <2> QED
    BY <1>1, <2>1, NoSliceIsNone DEF DiscoveryTypes, ofRun
<1>13. PartsAreApart'
  <2>1. \A t \in todo : nodes \intersect In(t) = {} /\ K \intersect In(t) = {}
    BY <1>2, Apart DEF PartsAreApart, K, All
  <2>2. In(NoSlice) = {} /\ Days(NoSlice) = {}
    BY NoSliceIsNone DEF In
  <2>3. \A t \in todo : t[1] <= t[2] /\ Days(t) \subseteq Days(slice)
    BY DEF PartsAreApart
  <2>4. \A t, u \in todo : t # u => Days(t) \intersect Days(u) = {}
    BY DEF PartsAreApart
  <2>5. \A t \in todo : kept'.nodes \intersect In(t) = {}
    BY <1>2, <2>1
  <2>6. In(part)' = {} /\ Days(part)' = {}
    BY <1>1, <2>2 DEF In, Days
  <2> QED
    BY <1>1, <1>10, <1>11, <2>3, <2>4, <2>5, <2>6 DEF PartsAreApart
<1>14. NoDayIsLost'
  <2>1. \A d \in Days(slice) : \/ \E t \in todo : d \in Days(t)
                               \/ DayIsDone(d, K \union nodes)
    BY <1>8, <1>9 DEF NoDayIsLost, K
  <2>2. \A d : DayIsDone(d, K \union nodes) => DayIsDone(d, kept.nodes)'
    <3> TAKE d
    <3>1. In(<<d, d>>)' = In(<<d, d>>)
      BY <1>10
    <3> QED
      BY <1>1, <1>2, <3>1 DEF DayIsDone
  <2>3. kept'.nodes \subseteq In(slice)
    BY <1>2, Apart DEF NoDayIsLost, K, All
  <2>4. kept'.length = Cardinality(kept'.nodes)
    <3>1. kept.length = Cardinality(K)
      BY DEF NoDayIsLost, K
    <3>2. K \intersect nodes = {}
      BY <1>2
    <3> QED
      BY <1>2, <1>3, <3>1, <3>2, SizesAdd
  <2>5. slice \notin passed
    BY DEF NoDayIsLost
  <2> QED
    BY <1>1, <1>10, <1>11, <2>1, <2>2, <2>3, <2>4, <2>5 DEF NoDayIsLost, ofRun
<1>15. PagesAreFull'
  BY <1>1 DEF PagesAreFull
<1> QED
  BY <1>1, <1>12, <1>13, <1>14, <1>15, NotesStay, ShardsStay, IndexStays

\* A slice all parts of which are searched is whole.
LEMMA SearchedIsWhole ==
  ASSUME DiscoveryInv, Searched
  PROVE  slice \in Slices /\ slice \notin passed /\ kept \in Lists /\ IsWhole(slice, kept)
<1>1. slice # NoSlice /\ part = NoSlice /\ todo = {}
  BY DEF Searched
<1>2. \A d \in Days(slice) : DayIsDone(d, kept.nodes)
  BY <1>1, NoSliceIsNone DEF DiscoveryInv, NoDayIsLost
<1> QED
  BY <1>1, <1>2 DEF DiscoveryInv, DiscoveryTypes, NoDayIsLost, IsWhole

LEMMA WriteShardStep ==
  ASSUME DiscoveryInv, WriteShard
  PROVE  DiscoveryInv'
<1> USE DEF DiscoveryInv
<1>1. /\ Searched
      /\ shards' = [s \in DOMAIN shards \union {slice} |-> IF s = slice THEN kept ELSE shards[s]]
      /\ day' = day /\ notes' = notes /\ UNCHANGED ofRun /\ slice' = slice /\ todo' = todo
      /\ part' = part /\ page' = page /\ nodes' = nodes /\ kept' = kept
  BY DEF WriteShard, ofSlice, reports
<1>2. slice \in Slices /\ kept \in Lists /\ IsWhole(slice, kept)
  BY <1>1, SearchedIsWhole
<1>3. /\ DOMAIN shards' = DOMAIN shards \union {slice}
      /\ \A s \in DOMAIN shards' : shards'[s] = IF s = slice THEN kept ELSE shards[s]
  BY <1>1
<1>4. DiscoveryTypes'
  BY <1>1, <1>2, <1>3 DEF DiscoveryTypes, ofRun
<1>5. SlicesAreWhole'
  <2>1. \A s \in DOMAIN shards' : IsWhole(s, shards'[s])
    BY <1>2, <1>3 DEF SlicesAreWhole
  <2>2. \A s : In(s)' = In(s)
    BY <1>1, SameResults
  <2>3. \A d : In(<<d, d>>)' = In(<<d, d>>)
    BY <2>2
  <2>4. \A s : Days(s)' = Days(s)
    BY DEF Days
  <2> QED
    BY <1>1, <2>1, <2>2, <2>3, <2>4 DEF SlicesAreWhole, IsWhole, DayIsDone
<1> QED
  BY <1>1, <1>4, <1>5, NotesStay, IndexStays, PartsStay, NoDayGoes, PagesStay DEF ofRun

LEMMA SaveCheckpointStep ==
  ASSUME DiscoveryInv, SaveCheckpoint
  PROVE  DiscoveryInv'
<1> USE DEF DiscoveryInv
<1>1. /\ Searched /\ Collect(slice, kept) /\ slice' = NoSlice /\ kept' = Nothing
      /\ day' = day /\ shards' = shards /\ notes' = notes /\ todo' = todo
      /\ part' = part /\ page' = page /\ nodes' = nodes
  BY DEF SaveCheckpoint, reports
<1>2. slice \in Slices /\ slice \notin passed /\ kept \in Lists /\ IsWhole(slice, kept)
  BY <1>1, SearchedIsWhole
<1>3. IndexIsWhole' /\ passed' \subseteq Slices /\ index' \subseteq Results
  BY <1>1, <1>2, Collecting
<1>4. todo = {} /\ part = NoSlice
  BY <1>1 DEF Searched
<1>5. DiscoveryTypes'
  BY <1>1, <1>3, NothingIsAList DEF DiscoveryTypes
<1>6. PartsAreApart'
  BY <1>1, <1>4, NothingIsAList, NoSliceIsNone DEF PartsAreApart, Days
<1>7. NoDayIsLost'
  <2>1. Days(slice') = {} /\ slice' \notin passed'
    BY <1>1, <1>3, NoSliceIsNone
  <2>2. kept'.nodes = {} /\ kept'.length = Cardinality(kept'.nodes)
    BY <1>1, NothingIsAList, FS_EmptySet
  <2> QED
    BY <2>1, <2>2 DEF NoDayIsLost, Days
<1> QED
  BY <1>1, <1>3, <1>5, <1>6, <1>7, NotesStay, ShardsStay, PagesStay

LEMMA KillRunStep ==
  ASSUME DiscoveryInv, KillRun
  PROVE  DiscoveryInv'
<1> USE DEF DiscoveryInv
<1>1. /\ passed' = {} /\ index' = {} /\ total' = 0
      /\ slice' = NoSlice /\ todo' = {} /\ part' = NoSlice
      /\ page' = 0 /\ nodes' = {} /\ kept' = Nothing
      /\ day' = day /\ shards' = shards /\ notes' = {}
  BY DEF KillRun, onDisk
<1>2. DiscoveryTypes'
  BY <1>1, NoSliceIsNone, NothingIsAList DEF DiscoveryTypes
<1>3. IndexIsWhole'
  BY <1>1, FS_EmptySet DEF IndexIsWhole
<1>4. PartsAreApart'
  BY <1>1, NoSliceIsNone, NothingIsAList DEF PartsAreApart, Days
<1>5. NoDayIsLost'
  <2>1. Days(slice') = {} /\ slice' \notin passed'
    BY <1>1, NoSliceIsNone
  <2>2. kept'.nodes = {} /\ kept'.length = Cardinality(kept'.nodes)
    BY <1>1, NothingIsAList, FS_EmptySet
  <2> QED
    BY <2>1, <2>2 DEF NoDayIsLost, Days
<1>6. PagesAreFull'
  BY <1>1 DEF PagesAreFull
<1> QED
  BY <1>1, <1>2, <1>3, <1>4, <1>5, <1>6, NotesStay, ShardsStay

LEMMA DiscoveryIdle ==
  ASSUME DiscoveryInv, UNCHANGED discoveryVars
  PROVE  DiscoveryInv'
<1> USE DEF DiscoveryInv
<1>1. UNCHANGED <<day, onDisk, ofRun, notes, ofSlice>>
  BY DEF discoveryVars, reports
<1>2. DiscoveryTypes'
  BY <1>1 DEF DiscoveryTypes, onDisk, ofRun, ofSlice
<1> QED
  BY <1>1, <1>2, NotesStay, ShardsStay, IndexStays, PartsStay, NoDayGoes, PagesStay
  DEF onDisk, ofRun, ofSlice

LEMMA DiscoveryStep == DiscoveryInv /\ [DiscoveryNext]_discoveryVars => DiscoveryInv'
<1> SUFFICES ASSUME DiscoveryInv, [DiscoveryNext]_discoveryVars PROVE DiscoveryInv'
  OBVIOUS
<1>1. CASE TakeSlice
  BY <1>1, ReadSliceStep, BeginSliceStep DEF TakeSlice, Earliest
<1>2. CASE SearchPart
  BY <1>2, SplitStep, FirstPageStep DEF SearchPart, Earliest
<1>3. CASE NextPage
  BY <1>3, NextPageStep
<1>4. CASE EndPart
  BY <1>4, EndPartStep
<1>5. CASE WriteShard
  BY <1>5, WriteShardStep
<1>6. CASE SaveCheckpoint
  BY <1>6, SaveCheckpointStep
<1>7. CASE KillRun
  BY <1>7, KillRunStep
<1>8. CASE UNCHANGED discoveryVars
  BY <1>8, DiscoveryIdle
<1> QED
  BY <1>1, <1>2, <1>3, <1>4, <1>5, <1>6, <1>7, <1>8 DEF DiscoveryNext, Discovers

LEMMA DiscoveryInductive == DiscoverySpec => []DiscoveryInv
BY DiscoveryStarts, DiscoveryStep, PTL DEF DiscoverySpec

-----------------------------------------------------------------------------
(***************************************************************************)
(* What a discovery reports.                                               *)
(***************************************************************************)

Reported(d) == Cardinality(In(<<d, d>>)) > SEARCH_PAGE_CAP => <<d, d>> \in notes

\* Every day that was cut is reported once its part is read, in this run.  What a
\* run reads back it has not searched, and the first run reads nothing back.
ReportsAreKept ==
  /\ kills \in Nat
  /\ kills = 0 => done \subseteq passed /\ reread = {}
  /\ \A s \in passed \ reread : \A d \in Days(s) : Reported(d)
  /\ \A d \in Days(slice) :
       \/ d \in Days(part)
       \/ \E t \in todo : d \in Days(t)
       \/ Reported(d)

LEMMA ReportsStart == DiscoveryInit => ReportsAreKept
<1>1. Days(NoSlice) = {}
  BY NoSliceIsNone
<1> QED
  BY <1>1 DEF DiscoveryInit, StartRun, ReportsAreKept

LEMMA ReportedStays ==
  ASSUME day' = day, notes \subseteq notes'
  PROVE  \A d : Reported(d) => Reported(d)'
<1>1. \A s : In(s)' = In(s)
  BY SameResults
<1>2. \A d : In(<<d, d>>)' = In(<<d, d>>)
  BY <1>1
<1> QED
  BY <1>2 DEF Reported

\* The report of a day is made before its part is read.
LEMMA PartIsReported ==
  ASSUME DiscoveryInv, part # NoSlice, NEW d \in Days(part)
  PROVE  Reported(d)
<1> USE DEF DiscoveryInv
<1>1. SUFFICES ASSUME Cardinality(In(<<d, d>>)) > SEARCH_PAGE_CAP
               PROVE  <<d, d>> \in notes
  BY DEF Reported
<1>2. part \in Int \X Int
  BY DEF DiscoveryTypes
<1>3. d \in Int /\ In(<<d, d>>) \subseteq In(part)
  BY <1>2, Apart
<1>4. IsFiniteSet(In(part)) /\ Cardinality(In(part)) \in Nat
      /\ Cardinality(In(<<d, d>>)) \in Nat
  BY Sizes
<1>5. Cardinality(In(<<d, d>>)) <= Cardinality(In(part))
  BY <1>3, <1>4, FS_Subset
<1>6. part[1] = part[2] /\ part \in notes
  BY <1>1, <1>4, <1>5, DiscoveryAssumption DEF PagesAreFull
<1>7. part = <<d, d>>
  BY <1>2, <1>6 DEF Days
<1> QED
  BY <1>6, <1>7

LEMMA ReportsStep ==
  DiscoveryInv /\ ReportsAreKept /\ [DiscoveryNext]_discoveryVars => ReportsAreKept'
<1> SUFFICES ASSUME DiscoveryInv, ReportsAreKept, [DiscoveryNext]_discoveryVars
             PROVE  ReportsAreKept'
  OBVIOUS
<1>0. \A s : Days(s)' = Days(s)
  BY DEF Days
<1>1. ASSUME slice = NoSlice, NEW s \in Slices \ passed, ReadSlice(s)
      PROVE  ReportsAreKept'
  <2>1. /\ s \in done /\ passed' = passed \union {s} /\ reread' = reread \union {s}
        /\ day' = day /\ notes' = notes /\ done' = done /\ kills' = kills
        /\ slice' = slice
    BY <1>1 DEF ReadSlice, Collect, onDisk, ofSlice
  <2>2. \A d : Reported(d) => Reported(d)'
    BY <2>1, ReportedStays
  <2>3. kills # 0
    BY <1>1, <2>1 DEF ReportsAreKept
  <2>4. Days(slice') = {}
    BY <1>1, <2>1, NoSliceIsNone
  <2> QED
    BY <1>0, <2>1, <2>2, <2>3, <2>4 DEF ReportsAreKept
<1>2. ASSUME NEW s \in Slices \ passed, BeginSlice(s) PROVE ReportsAreKept'
  <2>1. /\ slice' = s /\ todo' = {s} /\ day' = day /\ notes' = notes
        /\ UNCHANGED <<passed, reread, done, kills>>
    BY <1>2 DEF BeginSlice, onDisk, ofRun, reports
  <2>2. \A d : Reported(d) => Reported(d)'
    BY <2>1, ReportedStays
  <2>3. \A d \in Days(slice') : \E t \in todo' : d \in Days(t)
    BY <2>1
  <2> QED
    BY <1>0, <2>1, <2>2, <2>3 DEF ReportsAreKept
<1>3. ASSUME NEW s \in todo, Split(s) PROVE ReportsAreKept'
  <2>1. /\ s[1] < s[2] /\ todo' = (todo \ {s}) \union Halves(s) /\ day' = day
        /\ notes' = notes /\ slice' = slice /\ part' = part
        /\ UNCHANGED <<passed, reread, done, kills>>
    BY <1>3 DEF Split, onDisk, ofRun, reports
  <2>2. \A d : Reported(d) => Reported(d)'
    BY <2>1, ReportedStays
  <2>3. s \in Int \X Int
    BY DEF DiscoveryInv, DiscoveryTypes
  <2>4. \A d \in Days(s) : \E t \in Halves(s) : d \in Days(t)
    BY <2>1, <2>3, HalvesCover
  <2>5. \A d : (\E t \in todo : d \in Days(t)) => \E t \in todo' : d \in Days(t)
    BY <2>1, <2>4
  <2> QED
    BY <1>0, <2>1, <2>2, <2>5 DEF ReportsAreKept
<1>4. ASSUME part = NoSlice, NEW s \in todo, FirstPage(s) PROVE ReportsAreKept'
  <2>1. /\ todo' = todo \ {s} /\ day' = day /\ notes \subseteq notes'
        /\ slice' = slice /\ part' = s /\ UNCHANGED <<passed, reread, done, kills>>
    BY <1>4 DEF FirstPage, onDisk, ofRun
  <2>2. \A d : Reported(d) => Reported(d)'
    BY <2>1, ReportedStays
  <2>3. Days(part) = {}
    BY <1>4, NoSliceIsNone
  <2>4. \A d \in Days(slice) : \/ d \in Days(s)
                               \/ \E t \in todo \ {s} : d \in Days(t)
                               \/ Reported(d)
    BY <2>3 DEF ReportsAreKept
  <2>5. \A t \in passed \ reread : \A d \in Days(t) : Reported(d)'
    BY <2>2 DEF ReportsAreKept
  <2>6. /\ kills \in Nat
        /\ kills = 0 => done \subseteq passed /\ reread = {}
    BY DEF ReportsAreKept
  <2>7. \A d \in Days(slice)' : \/ d \in Days(part)'
                                \/ \E t \in todo' : d \in Days(t)'
                                \/ Reported(d)'
    BY <2>1, <2>2, <2>4 DEF Days
  <2> QED
    BY <1>0, <2>1, <2>5, <2>6, <2>7 DEF ReportsAreKept
<1>5. ASSUME UNCHANGED <<day, done, passed, notes, reread, slice, todo, part, kills>>
      PROVE  ReportsAreKept'
  <2>1. \A d : Reported(d) => Reported(d)'
    BY <1>5, ReportedStays
  <2>2. Days(slice)' = Days(slice) /\ Days(part)' = Days(part)
    BY <1>5 DEF Days
  <2> QED
    BY <1>0, <1>5, <2>1, <2>2 DEF ReportsAreKept
<1>6. CASE EndPart
  <2>1. /\ part # NoSlice /\ part' = NoSlice
        /\ UNCHANGED <<day, done, passed, notes, reread, slice, todo, kills>>
    BY <1>6 DEF EndPart, onDisk, ofRun, reports
  <2>2. \A d : Reported(d) => Reported(d)'
    BY <2>1, ReportedStays
  <2>3. \A d \in Days(part) : Reported(d)
    BY <2>1, PartIsReported
  <2>4. Days(slice)' = Days(slice)
    BY <2>1 DEF Days
  <2> QED
    BY <1>0, <2>1, <2>2, <2>3, <2>4 DEF ReportsAreKept
<1>7. CASE SaveCheckpoint
  <2>1. /\ part = NoSlice /\ todo = {} /\ slice' = NoSlice
        /\ done' = done \union {slice} /\ passed' = passed \union {slice}
        /\ UNCHANGED <<day, notes, reread, kills>>
    BY <1>7 DEF SaveCheckpoint, Searched, Collect, reports
  <2>2. \A d : Reported(d) => Reported(d)'
    BY <2>1, ReportedStays
  <2>3. \A d \in Days(slice) : Reported(d)
    BY <2>1, NoSliceIsNone DEF ReportsAreKept
  <2>4. Days(slice') = {}
    BY <2>1, NoSliceIsNone
  <2> QED
    BY <1>0, <2>1, <2>2, <2>3, <2>4 DEF ReportsAreKept
<1>8. CASE KillRun
  <2>1. passed' = {} /\ reread' = {} /\ slice' = NoSlice /\ kills' = kills + 1
    BY <1>8 DEF KillRun
  <2>2. kills' \in Nat /\ kills' # 0
    BY <2>1 DEF ReportsAreKept
  <2>3. Days(slice') = {}
    BY <2>1, NoSliceIsNone
  <2> QED
    BY <1>0, <2>1, <2>2, <2>3 DEF ReportsAreKept
<1>9. CASE TakeSlice
  BY <1>1, <1>2, <1>9 DEF TakeSlice, Earliest
<1>10. CASE SearchPart
  BY <1>3, <1>4, <1>10 DEF SearchPart, Earliest
<1>11. CASE NextPage
  BY <1>5, <1>11 DEF NextPage, onDisk, ofRun, reports
<1>12. CASE WriteShard
  BY <1>5, <1>12 DEF WriteShard, ofRun, reports, ofSlice
<1>13. CASE UNCHANGED discoveryVars
  BY <1>5, <1>13 DEF discoveryVars, onDisk, ofRun, reports, ofSlice
<1> QED
  BY <1>6, <1>7, <1>8, <1>9, <1>10, <1>11, <1>12, <1>13 DEF DiscoveryNext, Discovers

LEMMA ReportsInductive == DiscoverySpec => []ReportsAreKept
BY ReportsStart, ReportsStep, DiscoveryInductive, PTL DEF DiscoverySpec

LEMMA DaysBelongToSlices ==
  ASSUME DiscoveryInv, Discovered, NEW r \in Results
  PROVE  \E s \in passed : day[r] \in Days(s) /\ DayIsDone(day[r], index)
<1>1. day[r] \in FirstDay .. LastDay
  BY DEF DiscoveryInv, DiscoveryTypes
<1>2. PICK s \in Slices : day[r] \in Days(s)
  BY <1>1, SlicesCover
<1>3. s \in passed
  BY DEF Discovered
<1> QED
  BY <1>2, <1>3 DEF DiscoveryInv, IndexIsWhole

\* A day that is cut has as many results as the cap allows.
LEMMA CutDaysAreFull == DiscoveryInv => OnlyFullDaysAreCut
<1> SUFFICES ASSUME DiscoveryInv, NEW n \in notes
             PROVE  /\ n[1] = n[2]
                    /\ Discovered => Cardinality(index \intersect In(n)) = SEARCH_PAGE_CAP
  BY DEF OnlyFullDaysAreCut
<1> DEFINE d == n[1]
<1>1. n[1] = n[2] /\ n = <<d, d>> /\ Cardinality(In(n)) > SEARCH_PAGE_CAP
  BY DEF DiscoveryInv, NotesAreFull
<1>2. In(n) # {}
  BY <1>1, FS_EmptySet, DiscoveryAssumption
<1>3. PICK r \in Results : day[r] \in Days(n)
  BY <1>2 DEF In
<1>4. d \in Int /\ day[r] = d
  <2>1. day[r] \in Int /\ day[r] \in n[1] .. n[2]
    BY <1>3, DiscoveryAssumption DEF DiscoveryInv, DiscoveryTypes, Days
  <2> QED
    BY <1>1, <2>1
<1>5. Discovered => DayIsDone(d, index)
  BY <1>4, DaysBelongToSlices
<1> HIDE DEF d
<1> QED
  BY <1>1, <1>5 DEF DayIsDone

\* The window comes out whole: for any window, any spread of results, any cap of
\* full pages and any number of kills. A day from which something is missing has
\* as many results as the cap allows, and this run reports it or has read it back
\* from a run that was killed; a run that was not resumed reports them all.
THEOREM WindowAlwaysDiscovered == DiscoverySpec => []WindowIsDiscovered
<1>1. DiscoveryInv /\ ReportsAreKept => WindowIsDiscovered
  <2> SUFFICES ASSUME DiscoveryInv, ReportsAreKept PROVE WindowIsDiscovered
    OBVIOUS
  <2>1. kills = 0 => reread = {}
    BY DEF ReportsAreKept
  <2>2. ASSUME Discovered, NEW r \in Results \ index
        PROVE  /\ Cardinality(index \intersect In(<<day[r], day[r]>>)) = SEARCH_PAGE_CAP
               /\ IsReported(day[r])
    <3>1. PICK s \in passed : day[r] \in Days(s) /\ DayIsDone(day[r], index)
      BY <2>2, DaysBelongToSlices
    <3>2. day[r] \in Int
      BY DiscoveryAssumption DEF DiscoveryInv, DiscoveryTypes
    <3>3. r \in In(<<day[r], day[r]>>)
      BY <3>2 DEF In, Days
    <3>4. /\ Cardinality(In(<<day[r], day[r]>>)) > SEARCH_PAGE_CAP
          /\ Cardinality(index \intersect In(<<day[r], day[r]>>)) = SEARCH_PAGE_CAP
      BY <3>1, <3>3 DEF DayIsDone
    <3>5. IsReported(day[r])
      <4>1. CASE s \in reread
        BY <3>1, <4>1 DEF IsReported
      <4>2. CASE s \notin reread
        BY <3>1, <3>4, <4>2 DEF ReportsAreKept, Reported, IsReported
      <4> QED
        BY <4>1, <4>2
    <3> QED
      BY <3>4, <3>5
  <2> QED
    BY <2>1, <2>2, CutDaysAreFull DEF WindowIsDiscovered
<1> QED
  BY <1>1, DiscoveryInductive, ReportsInductive, PTL

\* Nothing is counted twice.
THEOREM CountsAlwaysDistinct == DiscoverySpec => []CountsAreDistinct
<1>1. DiscoveryInv => CountsAreDistinct
  BY DEF DiscoveryInv, IndexIsWhole, CountsAreDistinct
<1> QED
  BY <1>1, DiscoveryInductive, PTL

=============================================================================
