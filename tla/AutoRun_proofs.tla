--------------------------- MODULE AutoRun_proofs ---------------------------
(***************************************************************************)
(* What holds of the lock and the status file of                           *)
(* run_when_ingest_completes.sh for any number of copies, kills and        *)
(* ingests.                                                                *)
(***************************************************************************)
EXTENDS AutoRun, TLAPS

-----------------------------------------------------------------------------
(* Types. *)

\* Until it stops waiting, a copy has a poll left.
PollsLeft ==
  \A p \in Scripts :
    pc[p] \in {"off", "wait"} \union AtLock => waited[p] < MAX_WAIT

Typed == TypeOK /\ PollsLeft

\* The wait ends at the latest with the poll that was left.
LEMMA WaitTyped ==
  ASSUME Typed, NEW p \in Scripts, Wait(p)
  PROVE  Typed'
<1> USE DEF Typed
<1>1. waited[p] \in 0 .. MAX_WAIT /\ waited[p] < MAX_WAIT
  BY DEF Wait, TypeOK, PollsLeft
<1>2. waited[p] + 1 \in 0 .. MAX_WAIT
  BY <1>1, BoundsAssumption
<1>3. waited' = [waited EXCEPT ![p] = waited[p] + 1]
  BY DEF Wait
<1>4. /\ waited' \in [Scripts -> 0 .. MAX_WAIT]
      /\ waited'[p] = waited[p] + 1
      /\ \A q \in Scripts : q # p => waited'[q] = waited[q]
  BY <1>2, <1>3 DEF TypeOK
<1>5. CASE waited[p] + 1 >= MAX_WAIT
  <2>1. Fail(p) /\ UNCHANGED <<seen, met, ingest>>
    BY <1>5 DEF Wait
  <2>2. TypeOK'
    BY <1>4, <2>1 DEF TypeOK, Fail, ExitWith, Goto, Report
  <2>3. pc'[p] = "ended" /\ \A q \in Scripts : q # p => pc'[q] = pc[q]
    BY <2>1 DEF Fail, ExitWith, Goto, TypeOK
  <2> QED
    BY <1>4, <2>2, <2>3 DEF PollsLeft, AtLock
<1>6. CASE ~ (waited[p] + 1 >= MAX_WAIT)
  <2>1. /\ UNCHANGED <<pc, lock, seen, met, ingest>>
        /\ status' = status \/ Report(p, "running")
    BY <1>6 DEF Wait
  <2>2. TypeOK'
    <3>1. status' \in [pid : Scripts \union {"unknown"},
                       state : {"none", "running", "failed", "succeeded"}]
      <4>1. CASE status' = status
        BY <4>1 DEF TypeOK
      <4>2. CASE Report(p, "running")
        BY <4>2 DEF Report
      <4> QED
        BY <2>1, <4>1, <4>2
    <3> QED
      BY <1>4, <2>1, <3>1 DEF TypeOK
  <2>3. waited'[p] < MAX_WAIT
    BY <1>1, <1>4, <1>6, BoundsAssumption
  <2> QED
    BY <1>4, <2>1, <2>2, <2>3 DEF PollsLeft
<1> QED
  BY <1>5, <1>6

\* A step keeps the types and the poll that is left.
LEMMA TypedStep == Typed /\ [Next]_vars => Typed'
<1> SUFFICES ASSUME Typed, [Next]_vars PROVE Typed'
  OBVIOUS
<1> QED
  <2> USE BoundsAssumption DEF Typed, PollsLeft, TypeOK, world, AtLock, Working, Stages
  <2>1. CASE IngestStarts
    BY <2>1 DEF IngestStarts
  <2>2. CASE IngestEnds
    BY <2>2 DEF IngestEnds
  <2>3. ASSUME NEW p \in Scripts, Launch(p) PROVE Typed'
    BY <2>3 DEF Launch, Goto
  <2>4. ASSUME NEW p \in Scripts, MakeLock(p) PROVE Typed'
    BY <2>4 DEF MakeLock, Goto
  <2>5. ASSUME NEW p \in Scripts, ReadLock(p) PROVE Typed'
    BY <2>5 DEF ReadLock, Goto
  <2>6. ASSUME NEW p \in Scripts, Probe(p) PROVE Typed'
    BY <2>6 DEF Probe, Goto
  <2>7. ASSUME NEW p \in Scripts, Clear(p) PROVE Typed'
    BY <2>7 DEF Clear, Goto
  <2>8. ASSUME NEW p \in Scripts, Remake(p) PROVE Typed'
    BY <2>8 DEF Remake, Goto
  <2>9. ASSUME NEW p \in Scripts, WritePid(p) PROVE Typed'
    <3>1. pc[p] \in AtLock /\ waited[p] < MAX_WAIT
      BY <2>9 DEF WritePid
    <3>2. PollsLeft'
      BY <2>9, <3>1 DEF WritePid, Goto
    <3>3. TypeOK'
      BY <2>9 DEF WritePid, Goto, Report
    <3> QED
      BY <3>2, <3>3
  <2>10. ASSUME NEW p \in Scripts, Wait(p) PROVE Typed'
    BY <2>10, WaitTyped
  <2>11. ASSUME NEW p \in Scripts, StopWaiting(p) PROVE Typed'
    BY <2>11 DEF StopWaiting, Goto, Report
  <2>12. ASSUME NEW p \in Scripts, Verify(p) PROVE Typed'
    BY <2>12 DEF Verify, Goto, Report
  <2>13. ASSUME NEW p \in Scripts, StageDone(p) PROVE Typed'
    BY <2>13 DEF StageDone, Goto, Report, After
  <2>14. ASSUME NEW p \in Scripts, StageFails(p) PROVE Typed'
    BY <2>14 DEF StageFails, Fail, ExitWith, Goto, Report
  <2>15. ASSUME NEW p \in Scripts, Complete(p) PROVE Typed'
    BY <2>15 DEF Complete, ExitWith, Goto, Report
  <2>16. ASSUME NEW p \in Scripts, Kill(p) PROVE Typed'
    BY <2>16 DEF Kill, Goto
  <2>17. CASE UNCHANGED vars
    BY <2>17 DEF vars
  <2> QED
    BY <2>1, <2>2, <2>3, <2>4, <2>5, <2>6, <2>7, <2>8, <2>9,
       <2>10, <2>11, <2>12, <2>13, <2>14, <2>15, <2>16, <2>17
       DEF Next, ScriptStep

LEMMA AlwaysTyped == Spec => []Typed
<1>1. Init => TypeOK
  <2> SUFFICES ASSUME Init PROVE TypeOK
    OBVIOUS
  <2>1. met \in BOOLEAN
    BY DEF Init
  <2> QED
    BY <2>1, BoundsAssumption DEF Init, TypeOK
<1>2. Init => PollsLeft
  BY BoundsAssumption DEF Init, PollsLeft
<1> QED
  BY <1>1, <1>2, TypedStep, PTL DEF Spec, Typed

\* A copy polls at most MAX_WAIT times, and the lock and the status file hold
\* only what the script writes in them.
THEOREM TypeCorrect == Spec => []TypeOK
  BY AlwaysTyped, PTL DEF Typed

-----------------------------------------------------------------------------
(* Exclusion, as long as no two copies have been at the lock at once.      *)
(* A working copy's pid is in the lock, so that at most one works; what    *)
(* makes that inductive is what the copy at the lock may rely on at each   *)
(* of its steps: the owner it read is still the only possible one when it  *)
(* probes it, and from then on nobody works and the directory is there     *)
(* when the pid is written.                                                *)

OneAtLock ==
  \A p, q \in Scripts : pc[p] \in AtLock /\ pc[q] \in AtLock => p = q

OwnsLock == \A p \in Scripts : pc[p] \in Working => lock = p

SawOwner ==
  \A p, q \in Scripts : pc[p] = "probe" /\ pc[q] \in Working => seen[p] = q

Cleared ==
  \A p, q \in Scripts :
    pc[p] \in {"clear", "remake", "pid"} => pc[q] \notin Working

MadeLock == \A p \in Scripts : pc[p] = "pid" => lock # "absent"

Guarded == OwnsLock /\ SawOwner /\ Cleared /\ MadeLock

Exclusion == OneAtLock /\ Guarded

\* What Goto changes, and what it leaves alone.
LEMMA GotoMoves ==
  ASSUME TypeOK, NEW p \in Scripts, NEW step, Goto(p, step)
  PROVE  pc'[p] = step /\ \A q \in Scripts : q # p => pc'[q] = pc[q]
  BY DEF TypeOK, Goto

\* The steps at the lock are none of those of a copy that works.
LEMMA Zones ==
  /\ \A s \in AtLock : s \notin Working
  /\ "mkdir" \in AtLock /\ "read" \in AtLock /\ "probe" \in AtLock
  /\ "clear" \in AtLock /\ "remake" \in AtLock /\ "pid" \in AtLock
  /\ "ended" \notin Working /\ "killed" \notin Working
  /\ "wait" \in Working /\ "verify" \in Working /\ "normalize" \in Working
  /\ "report" \in Working
  /\ \A s \in Stages : s \in Working /\ After(s) \in Working
  BY DEF AtLock, Working, Stages, After

\* What has met stays met.
LEMMA MetStays == [Next]_vars /\ met => met'
BY DEF Next, ScriptStep, vars, world, IngestStarts, IngestEnds, Launch, MakeLock,
  ReadLock, Probe, Clear, Remake, WritePid, Wait, StopWaiting, Verify, StageDone,
  StageFails, Complete, Kill

\* Nobody joins a copy at the lock.
LEMMA OneAtLockStep ==
  ~met' /\ TypeOK /\ OneAtLock /\ [Next]_vars => OneAtLock'
<1> SUFFICES ASSUME ~met', TypeOK, OneAtLock, [Next]_vars PROVE OneAtLock'
  OBVIOUS
<1>1. ASSUME NEW p \in Scripts, Launch(p) PROVE OneAtLock'
  BY <1>1, GotoMoves DEF Launch, OneAtLock
<1>2. ASSUME \A q \in Scripts : pc'[q] \in AtLock => pc[q] \in AtLock
      PROVE  OneAtLock'
  BY <1>2 DEF OneAtLock
<1>3. ASSUME NEW p \in Scripts, MakeLock(p) PROVE OneAtLock'
  BY <1>2, <1>3, GotoMoves DEF MakeLock, AtLock
<1>4. ASSUME NEW p \in Scripts, ReadLock(p) PROVE OneAtLock'
  BY <1>2, <1>4, GotoMoves DEF ReadLock, AtLock
<1>5. ASSUME NEW p \in Scripts, Probe(p) PROVE OneAtLock'
  BY <1>2, <1>5, GotoMoves DEF Probe, AtLock
<1>6. ASSUME NEW p \in Scripts, Clear(p) PROVE OneAtLock'
  BY <1>2, <1>6, GotoMoves DEF Clear, AtLock
<1>7. ASSUME NEW p \in Scripts, Remake(p) PROVE OneAtLock'
  BY <1>2, <1>7, GotoMoves DEF Remake, AtLock
<1>8. ASSUME NEW p \in Scripts, WritePid(p) PROVE OneAtLock'
  BY <1>2, <1>8, GotoMoves DEF WritePid, AtLock
<1>9. ASSUME NEW p \in Scripts, Wait(p) PROVE OneAtLock'
  BY <1>2, <1>9, GotoMoves DEF Wait, AtLock, Fail, ExitWith
<1>10. ASSUME NEW p \in Scripts, StopWaiting(p) PROVE OneAtLock'
  BY <1>2, <1>10, GotoMoves DEF StopWaiting, AtLock
<1>11. ASSUME NEW p \in Scripts, Verify(p) PROVE OneAtLock'
  BY <1>2, <1>11, GotoMoves DEF Verify, AtLock
<1>12. ASSUME NEW p \in Scripts, StageDone(p) PROVE OneAtLock'
  BY <1>2, <1>12, GotoMoves DEF StageDone, AtLock, After, Stages
<1>13. ASSUME NEW p \in Scripts, StageFails(p) PROVE OneAtLock'
  BY <1>2, <1>13, GotoMoves DEF StageFails, AtLock, Fail, ExitWith
<1>14. ASSUME NEW p \in Scripts, Complete(p) PROVE OneAtLock'
  BY <1>2, <1>14, GotoMoves DEF Complete, AtLock, ExitWith
<1>15. ASSUME NEW p \in Scripts, Kill(p) PROVE OneAtLock'
  BY <1>2, <1>15, GotoMoves DEF Kill, AtLock
<1>16. CASE IngestStarts \/ IngestEnds \/ UNCHANGED vars
  BY <1>2, <1>16 DEF IngestStarts, IngestEnds, vars
<1> QED
  BY <1>1, <1>3, <1>4, <1>5, <1>6, <1>7, <1>8, <1>9, <1>10, <1>11, <1>12,
     <1>13, <1>14, <1>15, <1>16 DEF Next, ScriptStep

\* What the copy at the lock relies on stays true of it.
LEMMA GuardedStep == TypeOK /\ Exclusion /\ [Next]_vars => Guarded'
<1> SUFFICES ASSUME TypeOK, Exclusion, [Next]_vars PROVE Guarded'
  OBVIOUS
<1> USE DEF Exclusion, OneAtLock, Guarded, OwnsLock, SawOwner, Cleared,
      MadeLock, world
<1>1. ASSUME NEW p \in Scripts, Launch(p) PROVE Guarded'
  <2>1. pc'[p] = "mkdir" /\ \A q \in Scripts : q # p => pc'[q] = pc[q]
    BY <1>1, GotoMoves DEF Launch
  <2>2. pc'[p] \notin Working
    BY <2>1, Zones
  <2>3. lock' = lock /\ seen' = seen
    BY <1>1 DEF Launch
  <2> QED
    BY <2>1, <2>2, <2>3
<1>2. ASSUME NEW p \in Scripts, MakeLock(p) PROVE Guarded'
  <2>1. \/ pc'[p] = "read" /\ lock' = lock
        \/ pc'[p] = "pid" /\ lock = "absent" /\ lock' = "no pid"
    BY <1>2, GotoMoves DEF MakeLock
  <2>2. pc'[p] \notin Working /\ \A q \in Scripts : q # p => pc'[q] = pc[q]
    BY <1>2, <2>1, GotoMoves, Zones DEF MakeLock
  <2>3. seen' = seen
    BY <1>2 DEF MakeLock
  <2>4. ASSUME lock = "absent" PROVE \A q \in Scripts : pc[q] \notin Working
    BY <2>4, PidsAssumption
  <2>5. \A q \in Scripts : q # p => pc[q] \notin {"probe", "clear", "remake", "pid"}
    BY <1>2, Zones DEF MakeLock
  <2> QED
    BY <2>1, <2>2, <2>3, <2>4, <2>5
<1>3. ASSUME NEW p \in Scripts, ReadLock(p) PROVE Guarded'
  <2>1. /\ pc'[p] = "probe" /\ \A q \in Scripts : q # p => pc'[q] = pc[q]
        /\ lock' = lock
    BY <1>3, GotoMoves DEF ReadLock
  <2>2. pc'[p] \notin Working
    BY <2>1, Zones
  <2>3. \A q \in Scripts : pc[q] \in Working => seen'[p] = q
    BY <1>3 DEF ReadLock, TypeOK
  <2>4. \A q \in Scripts : q # p => pc[q] # "probe"
    BY <1>3, Zones DEF ReadLock
  <2> QED
    BY <2>1, <2>2, <2>3, <2>4
<1>4. ASSUME NEW p \in Scripts, Probe(p) PROVE Guarded'
  <2>1. /\ pc'[p] \in {"ended", "clear"}
        /\ \A q \in Scripts : q # p => pc'[q] = pc[q]
        /\ lock' = lock /\ seen' = seen
    BY <1>4, GotoMoves DEF Probe
  <2>2. pc'[p] \notin Working
    BY <2>1, Zones
  <2>3. pc'[p] = "clear" => ~ Alive(seen[p])
    BY <1>4, GotoMoves DEF Probe
  <2>4. pc'[p] = "clear" => \A q \in Scripts : pc[q] \notin Working
    BY <1>4, <2>3 DEF Probe, Alive
  <2> QED
    BY <2>1, <2>2, <2>4
<1>5. ASSUME NEW p \in Scripts, Clear(p) PROVE Guarded'
  <2>1. /\ pc[p] = "clear" /\ pc'[p] = "remake"
        /\ \A q \in Scripts : q # p => pc'[q] = pc[q]
    BY <1>5, GotoMoves DEF Clear
  <2>2. \A q \in Scripts : pc'[q] \notin Working
    BY <2>1, Zones
  <2>3. \A q \in Scripts : q # p => pc[q] # "pid"
    BY <2>1, Zones
  <2> QED
    BY <2>1, <2>2, <2>3
<1>6. ASSUME NEW p \in Scripts, Remake(p) PROVE Guarded'
  <2>1. /\ pc[p] = "remake" /\ pc'[p] = "pid"
        /\ \A q \in Scripts : q # p => pc'[q] = pc[q]
        /\ lock' # "absent"
    BY <1>6, GotoMoves DEF Remake
  <2>2. \A q \in Scripts : pc'[q] \notin Working
    BY <2>1, Zones
  <2> QED
    BY <2>1, <2>2
<1>7. ASSUME NEW p \in Scripts, WritePid(p) PROVE Guarded'
  <2>1. /\ pc[p] = "pid" /\ pc'[p] = "wait" /\ lock' = p
        /\ \A q \in Scripts : q # p => pc'[q] = pc[q]
    BY <1>7, GotoMoves DEF WritePid
  <2>2. \A q \in Scripts : q # p => pc'[q] \notin Working /\ pc'[q] \notin AtLock
    BY <2>1, Zones
  <2>3. pc'[p] \notin {"probe", "clear", "remake", "pid"}
    BY <2>1
  <2> QED
    BY <2>1, <2>2, <2>3, Zones
\* A copy at work goes on, or goes off and takes the directory with it: there
\* is no other copy at work, and none about to write its pid.
<1>8. ASSUME NEW p \in Scripts, pc[p] \in Working, seen' = seen,
             pc'[p] \in Working \union {"ended", "killed"},
             \A q \in Scripts : q # p => pc'[q] = pc[q],
             lock' = lock \/ (lock' = "absent" /\ pc'[p] \notin Working)
      PROVE  Guarded'
  <2>1. \A q \in Scripts : q # p => pc'[q] \notin Working
    BY <1>8
  <2>2. pc'[p] \notin {"probe", "clear", "remake", "pid"}
    BY <1>8, Zones
  <2>3. \A q \in Scripts : pc[q] \notin {"clear", "remake", "pid"}
    BY <1>8
  <2> QED
    BY <1>8, <2>1, <2>2, <2>3
<1>9. ASSUME NEW p \in Scripts, Wait(p) \/ StopWaiting(p) \/ Verify(p)
      PROVE  Guarded'
  BY <1>8, <1>9, GotoMoves, Zones DEF Wait, StopWaiting, Verify, Fail, ExitWith
<1>10. ASSUME NEW p \in Scripts, StageDone(p) \/ StageFails(p) \/ Complete(p)
       PROVE  Guarded'
  BY <1>8, <1>10, GotoMoves, Zones DEF StageDone, StageFails, Complete, Fail, ExitWith
<1>11. ASSUME NEW p \in Scripts, Kill(p) PROVE Guarded'
  <2>1. /\ pc'[p] = "killed" /\ \A q \in Scripts : q # p => pc'[q] = pc[q]
        /\ seen' = seen
        /\ lock' = lock \/ (pc[p] \in Working /\ lock' = "absent")
    BY <1>11, GotoMoves DEF Kill
  <2>2. pc'[p] \notin Working
    BY <2>1, Zones
  <2>3. CASE pc[p] \in Working
    BY <1>8, <2>1, <2>2, <2>3
  <2>4. CASE pc[p] \notin Working
    BY <2>1, <2>2, <2>4
  <2> QED
    BY <2>3, <2>4
<1>12. CASE IngestStarts \/ IngestEnds \/ UNCHANGED vars
  BY <1>12 DEF IngestStarts, IngestEnds, vars
<1> QED
  BY <1>1, <1>2, <1>3, <1>4, <1>5, <1>6, <1>7, <1>9, <1>10, <1>11, <1>12
     DEF Next, ScriptStep

\* If no two copies are at the lock at the same time, no two copies build at
\* the same time, whatever is killed and whatever locks it leaves behind.
THEOREM SerialExcludes == Spec => []SerialStartsExclude
<1>1. Init => Exclusion
  BY DEF Init, Exclusion, Guarded, OneAtLock, OwnsLock, SawOwner, Cleared, MadeLock,
    AtLock, Working, Stages
<1>2. TypeOK /\ (~met => Exclusion) /\ [Next]_vars => (~met => Exclusion)'
  BY MetStays, OneAtLockStep, GuardedStep DEF Exclusion
<1>3. Exclusion => OneAtATime
  BY DEF Exclusion, Guarded, OwnsLock, OneAtATime
<1> QED
  BY <1>1, <1>2, <1>3, TypeCorrect, PTL DEF Spec, SerialStartsExclude

-----------------------------------------------------------------------------
(* The status file. *)

StatusIsOwned ==
  status.state = "running" =>
    /\ status.pid \in Scripts
    /\ pc[status.pid] \in Working \union {"killed"}

\* The rewriting of the status during the wait.
LEMMA WaitStatus ==
  ASSUME TypeOK, StatusIsOwned, NEW p \in Scripts, Wait(p)
  PROVE  StatusIsOwned'
<1>1. pc[p] \in Working
  BY DEF Wait, Working
<1>2. \/ status' = [pid |-> p, state |-> "failed"]
      \/ pc' = pc /\ status' = status
      \/ pc' = pc /\ status' = [pid |-> p, state |-> "running"]
  BY DEF Wait, Fail, ExitWith, Report
<1> QED
  BY <1>1, <1>2 DEF StatusIsOwned
LEMMA StatusStep == TypeOK /\ StatusIsOwned /\ [Next]_vars => StatusIsOwned'
<1> SUFFICES ASSUME TypeOK, StatusIsOwned, [Next]_vars PROVE StatusIsOwned'
  OBVIOUS
<1> QED
  <2> USE DEF TypeOK, StatusIsOwned, world, AtLock, Working, Stages
  <2>1. CASE IngestStarts
    BY <2>1 DEF IngestStarts
  <2>2. CASE IngestEnds
    BY <2>2 DEF IngestEnds
  <2>3. ASSUME NEW p \in Scripts, Launch(p) PROVE StatusIsOwned'
    BY <2>3 DEF Launch, Goto
  <2>4. ASSUME NEW p \in Scripts, MakeLock(p) PROVE StatusIsOwned'
    BY <2>4 DEF MakeLock, Goto
  <2>5. ASSUME NEW p \in Scripts, ReadLock(p) PROVE StatusIsOwned'
    BY <2>5 DEF ReadLock, Goto
  <2>6. ASSUME NEW p \in Scripts, Probe(p) PROVE StatusIsOwned'
    BY <2>6 DEF Probe, Goto
  <2>7. ASSUME NEW p \in Scripts, Clear(p) PROVE StatusIsOwned'
    BY <2>7 DEF Clear, Goto
  <2>8. ASSUME NEW p \in Scripts, Remake(p) PROVE StatusIsOwned'
    BY <2>8 DEF Remake, Goto
  <2>9. ASSUME NEW p \in Scripts, WritePid(p) PROVE StatusIsOwned'
    <3>1. status' = [pid |-> p, state |-> "running"]
      BY <2>9 DEF WritePid, Report
    <3>2. pc'[p] = "wait"
      BY <2>9, GotoMoves DEF WritePid
    <3> QED
      BY <3>1, <3>2
  <2>10. ASSUME NEW p \in Scripts, Wait(p) PROVE StatusIsOwned'
    BY <2>10, WaitStatus
  <2>11. ASSUME NEW p \in Scripts, StopWaiting(p) PROVE StatusIsOwned'
    BY <2>11 DEF StopWaiting, Goto, Report
  <2>12. ASSUME NEW p \in Scripts, Verify(p) PROVE StatusIsOwned'
    BY <2>12 DEF Verify, Goto, Report
  <2>13. ASSUME NEW p \in Scripts, StageDone(p) PROVE StatusIsOwned'
    BY <2>13 DEF StageDone, Goto, Report, After
  <2>14. ASSUME NEW p \in Scripts, StageFails(p) PROVE StatusIsOwned'
    BY <2>14 DEF StageFails, Fail, ExitWith, Goto, Report
  <2>15. ASSUME NEW p \in Scripts, Complete(p) PROVE StatusIsOwned'
    BY <2>15 DEF Complete, ExitWith, Goto, Report
  <2>16. ASSUME NEW p \in Scripts, Kill(p) PROVE StatusIsOwned'
    BY <2>16 DEF Kill, Goto, Alive
  <2>17. CASE UNCHANGED vars
    BY <2>17 DEF vars
  <2> QED
    BY <2>1, <2>2, <2>3, <2>4, <2>5, <2>6, <2>7, <2>8, <2>9,
       <2>10, <2>11, <2>12, <2>13, <2>14, <2>15, <2>16, <2>17
       DEF Next, ScriptStep

\* A status file that says "running" names a copy that works or was killed.
THEOREM StatusIsTrue == Spec => []RunningStatusIsTrue
<1>1. Init => StatusIsOwned
  BY DEF Init, StatusIsOwned
<1>2. StatusIsOwned => RunningStatusIsTrue
  BY DEF StatusIsOwned, RunningStatusIsTrue
<1> QED
  BY <1>1, <1>2, StatusStep, TypeCorrect, PTL DEF Spec

=============================================================================
