------------------------------ MODULE AutoRun ------------------------------
(***************************************************************************)
(* scripts/run_when_ingest_completes.sh: copies of the script, started by  *)
(* hand or by nohup, beside the ingest they wait for.  Each takes the lock *)
(* directory, waits for the ingest process to be gone, asks the ledger how *)
(* it ended, and builds.                                                   *)
(***************************************************************************)
EXTENDS Integers

CONSTANTS
  Scripts,          \* copies of the script, known by their pid
  MAX_WAIT,         \* polls before the script gives up on the ingest
  MaxIngests,       \* bound: ingest processes started
  MaxKills          \* bound: scripts killed

ASSUME BoundsAssumption ==
  /\ MAX_WAIT \in Nat \ {0}
  /\ MaxIngests \in Nat /\ MaxKills \in Nat

\* A pid is none of the words that the lock and seen hold besides pids.
ASSUME PidsAssumption ==
  "absent" \notin Scripts /\ "no pid" \notin Scripts /\ "unknown" \notin Scripts

VARIABLES
  lock,       \* the lock directory: "absent", "no pid", or the pid in it
  pc,         \* pc[p]: what copy p does next
  seen,       \* seen[p]: the pid p found in the lock
  waited,     \* waited[p]: polls so far
  met,        \* history: two copies have been at the lock at the same time
  status,     \* auto_run_status.json
  ingest,     \* the latest ingest process
  ingests,    \* ingest processes started so far
  kills       \* scripts killed so far

vars == <<lock, pc, seen, waited, met, status, ingest, ingests, kills>>

AtLock == {"mkdir", "read", "probe", "clear", "remake", "pid"}

Stages == {"normalize", "features", "validate", "export", "phase2"}

Working == {"wait", "verify", "report"} \union Stages

Alive(p) == p \in Scripts /\ pc[p] \in AtLock \union Working

Init ==
  /\ lock = "absent"
  /\ pc = [p \in Scripts |-> "off"]
  /\ seen = [p \in Scripts |-> "unknown"]
  /\ waited = [p \in Scripts |-> 0]
  /\ met = FALSE
  /\ status = [pid |-> "unknown", state |-> "none"]
  /\ ingest = "none"
  /\ ingests = 0 /\ kills = 0

-----------------------------------------------------------------------------
(* The ingest. *)

IngestStarts ==
  /\ ingest # "running" /\ ingests < MaxIngests
  /\ ingest' = "running" /\ ingests' = ingests + 1
  /\ UNCHANGED <<lock, pc, seen, waited, met, status, kills>>

IngestEnds ==
  /\ ingest = "running"
  /\ ingest' = "over"
  /\ UNCHANGED <<lock, pc, seen, waited, met, status, ingests, kills>>

-----------------------------------------------------------------------------
(* The lock. *)

world == <<waited, met, ingest, ingests>>

Goto(p, step) == pc' = [pc EXCEPT ![p] = step]

Launch(p) ==
  /\ pc[p] = "off"
  /\ Goto(p, "mkdir")
  /\ met' = (met \/ \E q \in Scripts : pc[q] \in AtLock)
  /\ UNCHANGED <<lock, seen, status, waited, ingest, ingests, kills>>

MakeLock(p) ==
  /\ pc[p] = "mkdir"
  /\ IF lock = "absent" THEN lock' = "no pid" /\ Goto(p, "pid")
                        ELSE Goto(p, "read") /\ UNCHANGED lock
  /\ UNCHANGED <<seen, status, world, kills>>

\* cat "$LOCK/pid" || echo "unknown"
ReadLock(p) ==
  /\ pc[p] = "read"
  /\ seen' = [seen EXCEPT ![p] = IF lock \in Scripts THEN lock ELSE "unknown"]
  /\ Goto(p, "probe")
  /\ UNCHANGED <<lock, status, world, kills>>

\* Mutation: the owner found in the lock is not probed.
ProbeNothing(p) ==
  /\ pc[p] = "probe"
  /\ Goto(p, "clear")
  /\ UNCHANGED <<lock, seen, status, world, kills>>

\* kill -0: a live owner ends this copy; the trap is not yet set.
Probe(p) ==
  /\ pc[p] = "probe"
  /\ Goto(p, IF Alive(seen[p]) THEN "ended" ELSE "clear")
  /\ UNCHANGED <<lock, seen, status, world, kills>>

\* rm -rf "$LOCK" ...
Clear(p) ==
  /\ pc[p] = "clear"
  /\ lock' = "absent"
  /\ Goto(p, "remake")
  /\ UNCHANGED <<seen, status, world, kills>>

\* ... && mkdir "$LOCK": there is no set -e, so that its failure stops nothing.
Remake(p) ==
  /\ pc[p] = "remake"
  /\ lock' = IF lock = "absent" THEN "no pid" ELSE lock
  /\ Goto(p, "pid")
  /\ UNCHANGED <<seen, status, world, kills>>

Report(p, state) == status' = [pid |-> p, state |-> state]

\* echo $$ > "$LOCK/pid", which fails, and stops nothing, without the directory.
WritePid(p) ==
  /\ pc[p] = "pid"
  /\ lock' = IF lock = "absent" THEN lock ELSE p
  /\ Goto(p, "wait")
  /\ Report(p, "running")
  /\ UNCHANGED <<seen, world, kills>>

-----------------------------------------------------------------------------
(* The chain. *)

\* The EXIT trap removes the lock, whoever's pid is in it.
ExitWith(p, state) ==
  /\ Report(p, state)
  /\ lock' = "absent"
  /\ Goto(p, "ended")

\* Mutation: fail() exits without its status line.
FailSilently(p) ==
  /\ lock' = "absent"
  /\ Goto(p, "ended")
  /\ UNCHANGED status

Fail(p) == ExitWith(p, "failed")

\* Mutation: no limit on the waiting.
WaitForever(p) ==
  /\ pc[p] = "wait" /\ ingest = "running"
  /\ UNCHANGED vars

\* Every so many polls the status file is rewritten.
Wait(p) ==
  /\ pc[p] = "wait" /\ ingest = "running"
  /\ waited' = [waited EXCEPT ![p] = @ + 1]
  /\ IF waited[p] + 1 >= MAX_WAIT
       THEN Fail(p)
       ELSE /\ (status' = status) \/ Report(p, "running")
            /\ UNCHANGED <<pc, lock>>
  /\ UNCHANGED <<seen, met, ingest, ingests, kills>>

StopWaiting(p) ==
  /\ pc[p] = "wait" /\ ingest # "running"
  /\ Goto(p, "verify")
  /\ Report(p, "running")
  /\ UNCHANGED <<lock, seen, world, kills>>

\* How the ingest ended decides whether the script warns, not what it does.
Verify(p) ==
  /\ pc[p] = "verify"
  /\ Goto(p, "normalize")
  /\ Report(p, "running")
  /\ UNCHANGED <<lock, seen, world, kills>>

After(stage) ==
  CASE stage = "normalize" -> "features"
    [] stage = "features"  -> "validate"
    [] stage = "validate"  -> "export"
    [] stage = "export"    -> "phase2"
    [] stage = "phase2"    -> "report"

\* A stage succeeds; a failed validate is information, not a reason to stop.
StageDone(p) ==
  /\ pc[p] \in Stages
  /\ Goto(p, After(pc[p]))
  /\ Report(p, "running")
  /\ UNCHANGED <<lock, seen, world, kills>>

StageFails(p) ==
  /\ pc[p] \in Stages \ {"validate"}
  /\ Fail(p)
  /\ UNCHANGED <<seen, world, kills>>

Complete(p) ==
  /\ pc[p] = "report"
  /\ ExitWith(p, "succeeded")
  /\ UNCHANGED <<seen, world, kills>>

\* The EXIT trap, once set, runs for SIGTERM and not for SIGKILL.
Kill(p) ==
  /\ Alive(p) /\ kills < MaxKills
  /\ kills' = kills + 1
  /\ Goto(p, "killed")
  /\ (lock' = lock) \/ (pc[p] \in Working /\ lock' = "absent")
  /\ UNCHANGED <<seen, status, world>>

-----------------------------------------------------------------------------

ScriptStep(p) ==
  \/ MakeLock(p)
  \/ ReadLock(p)
  \/ Probe(p)
  \/ Clear(p)
  \/ Remake(p)
  \/ WritePid(p)
  \/ Wait(p)
  \/ StopWaiting(p)
  \/ Verify(p)
  \/ StageDone(p)
  \/ StageFails(p)
  \/ Complete(p)

Next ==
  \/ IngestStarts
  \/ IngestEnds
  \/ \E p \in Scripts : Launch(p) \/ ScriptStep(p) \/ Kill(p)

Spec == Init /\ [][Next]_vars

\* A live script is scheduled, and every stage it runs ends.  The ingest may
\* run for ever.
FairSpec == Spec /\ \A p \in Scripts : WF_vars(ScriptStep(p))

-----------------------------------------------------------------------------
(* Properties. *)

\* The types; the polls of one copy stop at MAX_WAIT.
TypeOK ==
  /\ lock \in Scripts \union {"absent", "no pid"}
  /\ pc \in [Scripts -> {"off", "ended", "killed"} \union AtLock \union Working]
  /\ seen \in [Scripts -> Scripts \union {"unknown"}]
  /\ waited \in [Scripts -> 0 .. MAX_WAIT]
  /\ met \in BOOLEAN
  /\ status \in [pid : Scripts \union {"unknown"},
                 state : {"none", "running", "failed", "succeeded"}]
  /\ ingest \in {"none", "running", "over"}

\* Only one copy works at a time, kills and stale locks included: "a second
\* copy would race the first over the same artifacts directory".
OneAtATime ==
  \A p, q \in Scripts : pc[p] \in Working /\ pc[q] \in Working => p = q

\* As long as no two copies have been at the lock at once.
SerialStartsExclude == ~met => OneAtATime

\* The status file, which others read in place of the log, says "running" of
\* a pid only while that copy works or if it was killed: every way out of
\* the script corrects it, whatever other copies write.
RunningStatusIsTrue ==
  status.state = "running" => pc[status.pid] \in Working \union {"killed"}

\* A copy that starts ends, though the ingest never does.
ScriptEnds ==
  \A p \in Scripts : Alive(p) ~> ~Alive(p)

=============================================================================
