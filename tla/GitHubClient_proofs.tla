------------------------ MODULE GitHubClient_proofs ------------------------
(***************************************************************************)
(* Proofs about GitHubClient, for any number of batches, pages, workers,   *)
(* attempts and crashes, and any flush interval.                           *)
(***************************************************************************)
EXTENDS GitHubClient, TLAPS, FiniteSetTheorems

LEMMA RequestFacts ==
  /\ NoRequest \notin Requests
  /\ NoRequest[1] \notin Batches
  /\ \A r \in Requests :
       /\ r[1] \in Batches
       /\ r[2] \in 1..MAX_PAGES
       /\ r = <<r[1], r[2]>>
       /\ r[2] <= PageCount[r[1]]
  /\ \A b \in Batches, i \in 1..MAX_PAGES :
       i <= PageCount[b] => <<b, i>> \in Requests
BY SizesAssumption DEF Requests, NoRequest, Batches

LEMMA EarlierPage ==
  ASSUME NEW q \in Requests, NEW r \in Requests, r[1] = q[1], r[2] <= q[2]
  PROVE  r[2] < q[2] \/ r = q
<1>1. q[2] \in Int /\ r[2] \in Int
  BY RequestFacts, SizesAssumption
<1>2. r[2] < q[2] \/ r[2] = q[2]
  BY <1>1
<1>3. q = <<q[1], q[2]>> /\ r = <<r[1], r[2]>>
  BY RequestFacts
<1>4. QED
  BY <1>2, <1>3

(***************************************************************************)
(* Type correctness.  A worker is idle exactly when it has no request: the *)
(* steps that read req[w] keep their types only because of it.             *)
(***************************************************************************)
IdleInv == \A w \in Workers : pc[w] = "idle" <=> req[w] = NoRequest

TypeInv == TypeOK /\ IdleInv

LEMMA InitialMemory ==
  /\ [r \in Requests |-> "none"] \in [Requests -> Rows]
  /\ [w \in Workers |-> "idle"] \in [Workers -> Steps]
  /\ [w \in Workers |-> NoRequest] \in [Workers -> Requests \union {NoRequest}]
  /\ [w \in Workers |-> 0] \in [Workers -> 0..(MAX_ATTEMPTS - 1)]
  /\ [w \in Workers |-> "none"] \in [Workers -> Rows]
BY SizesAssumption DEF Rows, Steps

LEMMA InitTypeInv == Init => TypeInv
<1>1. Init => TypeOK
  <2>1. 0 \in 0..MaxCrashes /\ 0 \in Nat
    BY SizesAssumption
  <2>2. [r \in Requests |-> "absent"] \in [Requests -> Bodies]
    BY DEF Bodies
  <2>3. QED
    BY <2>1, <2>2, InitialMemory DEF Init, TypeOK
<1>2. Init => IdleInv
  BY DEF Init, IdleInv
<1>3. QED
  BY <1>1, <1>2 DEF TypeInv

LEMMA NextTypeOK == TypeInv /\ [Next]_vars => TypeOK'
<1> SUFFICES ASSUME TypeInv, [Next]_vars PROVE TypeOK'
  OBVIOUS
<1> USE SizesAssumption DEF TypeOK, Bodies, Answers, Rows, Steps
<1>t. TypeOK /\ IdleInv
  BY DEF TypeInv
<1>1. CASE \E off \in Offline : Start(off)
  BY <1>t, <1>1 DEF Start, disk, workers
<1>2. CASE Crash
  <2>1. crashes' \in 0..MaxCrashes
    BY <1>t, <1>2 DEF Crash
  <2>2. UNCHANGED <<body, saved, shards, lastRun, damaged>>
    BY <1>2 DEF Crash, disk
  <2>3. QED
    BY <1>t, <1>2, <2>1, <2>2, InitialMemory DEF Crash, ForgetMemory
<1>3. CASE \E r \in Requests : Damage(r)
  BY <1>t, <1>3 DEF Damage, workers
<1>4. CASE EndPass
  BY <1>t, <1>4 DEF EndPass, workers
<1>5. CASE AppendRun
  <2>1. lastRun' \in SUBSET Batches
    BY <1>t, <1>5 DEF AppendRun
  <2>2. QED
    BY <1>t, <1>5, <2>1, InitialMemory DEF AppendRun, ForgetMemory
<1>6. ASSUME NEW w \in Workers, WorkerStep(w) PROVE TypeOK'
  <2> USE <1>t DEF disk, Goto, SameRequest
  <2>a. pc[w] # "idle" => /\ req[w] \in Requests
                          /\ req[w][1] \in Batches
                          /\ req[w][2] \in 1..MAX_PAGES
    BY RequestFacts DEF IdleInv
  <2>1. CASE Take(w)
    <3>1. PICK b \in todo : /\ todo' = todo \ {b}
                            /\ IF b \in shards
                                 THEN UNCHANGED <<pc, req, attempt>>
                                 ELSE /\ pc' = [pc EXCEPT ![w] = "lookup"]
                                      /\ req' = [req EXCEPT ![w] = <<b, 1>>]
                                      /\ attempt' = [attempt EXCEPT ![w] = 0]
      BY <2>1 DEF Take
    <3>2. <<b, 1>> \in Requests
      <4>1. b \in Batches /\ 1 \in 1..MAX_PAGES /\ 1 <= PageCount[b]
        OBVIOUS
      <4>2. QED
        BY <4>1, RequestFacts
    <3>3. CASE b \in shards
      BY <2>1, <3>1, <3>3 DEF Take
    <3>4. CASE b \notin shards
      BY <2>1, <3>1, <3>2, <3>4 DEF Take
    <3>5. QED
      BY <3>3, <3>4
  <2>2. CASE Lookup(w)
    BY <2>2, <2>a DEF Lookup, GiveUp
  <2>3. CASE RetryableReply(w)
    BY <2>3, <2>a DEF RetryableReply, TryAgain, GiveUp
  <2>4. CASE TransientReply(w)
    BY <2>4, <2>a DEF TransientReply, TryAgain
  <2>5. CASE RefusedReply(w)
    BY <2>5, <2>a DEF RefusedReply
  <2>6. CASE UnreadableReply(w)
    BY <2>6, <2>a DEF UnreadableReply, GiveUp
  <2>7. CASE OkReply(w)
    BY <2>7, <2>a DEF OkReply
  <2>8. CASE OpenBody(w)
    BY <2>8, <2>a DEF OpenBody
  <2>9. CASE CloseBody(w)
    BY <2>9, <2>a DEF CloseBody
  <2>10. CASE CountRow(w)
    BY <2>10, <2>a DEF CountRow
  <2>11. CASE RecordRow(w)
    BY <2>11, <2>a DEF RecordRow, GiveUp
  <2>12. CASE MaybeFlush(w)
    BY <2>12, <2>a DEF MaybeFlush
  <2>13. CASE NextPage(w)
    <3>1. <<req[w][1], req[w][2] + 1>> \in Requests
      <4>1. /\ req[w][1] \in Batches
            /\ req[w][2] \in 1..MAX_PAGES /\ req[w][2] <= PageCount[req[w][1]]
        BY <2>13, <2>a, RequestFacts DEF NextPage
      <4>3. /\ req[w][2] + 1 \in 1..MAX_PAGES
            /\ req[w][2] + 1 <= PageCount[req[w][1]]
        BY <2>13, <4>1 DEF NextPage, LastPage
      <4>2. QED
        BY <4>1, <4>3, RequestFacts
    <3>2. QED
      BY <2>13, <3>1 DEF NextPage
  <2>14. CASE WriteShard(w)
    BY <2>14, <2>a DEF WriteShard
  <2>15. QED
    BY <1>6, <2>1, <2>2, <2>3, <2>4, <2>5, <2>6, <2>7, <2>8, <2>9, <2>10,
       <2>11, <2>12, <2>13, <2>14 DEF WorkerStep, Reply
<1>7. CASE UNCHANGED vars
  BY <1>t, <1>7 DEF vars, disk, workers
<1>8. QED
  BY <1>1, <1>2, <1>3, <1>4, <1>5, <1>6, <1>7 DEF Next

LEMMA NextIdleInv == TypeInv /\ [Next]_vars => IdleInv'
<1> SUFFICES ASSUME TypeInv, [Next]_vars PROVE IdleInv'
  OBVIOUS
<1> USE RequestFacts DEF TypeInv, TypeOK, IdleInv
<1>1. CASE \E off \in Offline : Start(off)
  BY <1>1 DEF Start, workers
<1>2. CASE Crash \/ AppendRun
  BY <1>2 DEF Crash, AppendRun, ForgetMemory
<1>3. CASE EndPass \/ \E r \in Requests : Damage(r)
  BY <1>3 DEF EndPass, Damage, workers
<1>4. ASSUME NEW w \in Workers, WorkerStep(w) PROVE IdleInv'
  <2> USE DEF Goto, SameRequest
  <2>1. CASE Take(w)
    <3>1. PICK b \in Batches :
            \/ UNCHANGED <<pc, req>>
            \/ /\ pc' = [pc EXCEPT ![w] = "lookup"]
               /\ req' = [req EXCEPT ![w] = <<b, 1>>]
      BY <2>1 DEF Take
    <3>2. <<b, 1>> # NoRequest
      BY DEF NoRequest
    <3>3. QED
      BY <3>1, <3>2
  <2>2. CASE Lookup(w)
    BY <2>2 DEF Lookup, GiveUp
  <2>3. CASE RetryableReply(w) \/ TransientReply(w)
    BY <2>3 DEF RetryableReply, TransientReply, TryAgain, GiveUp
  <2>4. CASE RefusedReply(w) \/ UnreadableReply(w) \/ OkReply(w)
    BY <2>4 DEF RefusedReply, UnreadableReply, OkReply, GiveUp
  <2>5. CASE OpenBody(w) \/ CloseBody(w) \/ CountRow(w) \/ MaybeFlush(w)
    BY <2>5 DEF OpenBody, CloseBody, CountRow, MaybeFlush
  <2>6. CASE RecordRow(w)
    BY <2>6 DEF RecordRow, GiveUp
  <2>7. CASE NextPage(w)
    BY <2>7, SizesAssumption DEF NextPage, NoRequest, Batches
  <2>8. CASE WriteShard(w)
    BY <2>8 DEF WriteShard
  <2>9. QED
    BY <1>4, <2>1, <2>2, <2>3, <2>4, <2>5, <2>6, <2>7, <2>8
       DEF WorkerStep, Reply
<1>5. CASE UNCHANGED vars
  BY <1>5 DEF vars, workers
<1>6. QED
  BY <1>1, <1>2, <1>3, <1>4, <1>5 DEF Next

LEMMA TypeInvariant == Spec => []TypeInv
<1>1. TypeInv /\ [Next]_vars => TypeInv'
  BY NextTypeOK, NextIdleInv DEF TypeInv
<1>2. QED
  BY <1>1, InitTypeInv, PTL DEF Spec

(***************************************************************************)
(* Every variable of the client keeps its type, for every number of        *)
(* batches, workers and crashes.                                           *)
(***************************************************************************)
THEOREM TypeCorrect == Spec => []TypeOK
<1>1. TypeInv => TypeOK
  BY DEF TypeInv
<1>2. QED
  BY <1>1, TypeInvariant, PTL

(***************************************************************************)
(* The inductive invariant.  OkRowHasBody, ShardHasResponses and           *)
(* OneWriterPerBatch are not inductive alone: that OpenBody does not cut a *)
(* response some row or shard relies on needs to know why a worker came to *)
(* ask for it (AskedForInv), which needs to know what a flush may have     *)
(* replaced in the file since the ledger was loaded (LedgerInv).           *)
(***************************************************************************)

\* Only a running pass has busy workers or a queue.
QuietInv ==
  phase # "running" => todo = {} /\ \A w \in Workers : pc[w] = "idle"

\* A batch in hand is in no other place, and in no other hand.
HandsInv ==
  /\ todo \intersect failed = {}
  /\ \A w \in Workers : req[w] # NoRequest =>
       /\ req[w][1] \notin todo \union failed \union shards
       /\ \A v \in Workers \ {w} : req[v][1] # req[w][1]

\* The row a worker is about to record is decided by how it got there.
VerdictInv ==
  \A w \in Workers :
    /\ pc[w] \in {"store", "storing", "flush"} => verdict[w] = "ok"
    /\ pc[w] \in {"count", "record"} => verdict[w] # "none"

\* Worker w has stored the page it is on, or read it from the cache.
HasPage(w) ==
  \/ pc[w] \in {"flush", "advance"}
  \/ pc[w] \in {"count", "record"} /\ verdict[w] = "ok"

\* The pages a worker has left behind are on disk.
PagesInv ==
  \A w \in Workers : \A r \in Requests :
    /\ Undamaged(r)
    /\ r[1] = req[w][1]
    /\ r[2] < req[w][2] \/ (r = req[w] /\ HasPage(w))
    => body[r] \in Answers

\* A worker that asks GitHub has not found the page in the cache.
AskedForInv ==
  \A w \in Workers :
    \/ pc[w] \in {"post", "store", "storing"}
    \/ pc[w] \in {"count", "record"} /\ verdict[w] # "ok"
    => ~Cached(req[w])

\* What the memory of a live process knows of the rows in the file.
LedgerInv ==
  phase # "down" =>
    \A r \in Requests :
      /\ saved[r] # "none" => ledger[r] # "none"
      /\ saved[r] = "ok" =>
           ledger[r] = "ok" \/ (body[r] \notin Answers /\ r[1] \in failed)

IInv ==
  /\ TypeInv
  /\ OkRowHasBody
  /\ ShardHasResponses
  /\ QuietInv
  /\ HandsInv
  /\ VerdictInv
  /\ PagesInv
  /\ AskedForInv
  /\ LedgerInv

LEMMA NextOkRow == IInv /\ [Next]_vars => OkRowHasBody'
<1> SUFFICES ASSUME IInv, [Next]_vars PROVE OkRowHasBody'
  OBVIOUS
<1>t. TypeInv'
  BY NextTypeOK, NextIdleInv DEF TypeInv, IInv
<1> USE RequestFacts DEF IInv, TypeInv, TypeOK, IdleInv, OkRowHasBody, Undamaged, LedgerInv, HandsInv, AskedForInv, PagesInv, HasPage
<1>1. CASE \E off \in Offline : Start(off)
  BY <1>1, <1>t DEF Start, disk, workers
<1>2. CASE Crash \/ AppendRun
  BY <1>2, <1>t DEF Crash, AppendRun, ForgetMemory, disk
<1>3. CASE \E r \in Requests : Damage(r)
  BY <1>3, <1>t DEF Damage, workers
<1>4. CASE EndPass
  BY <1>4, <1>t DEF EndPass, workers
<1>5. ASSUME NEW w \in Workers, WorkerStep(w) PROVE OkRowHasBody'
  <2> USE <1>t DEF disk, Goto, SameRequest
  <2>1. CASE Take(w)
    BY <2>1 DEF Take
  <2>2. CASE Lookup(w)
    BY <2>2 DEF Lookup, GiveUp, Cached
  <2>3. CASE RetryableReply(w) \/ TransientReply(w)
    BY <2>3 DEF RetryableReply, TransientReply, TryAgain, GiveUp
  <2>4. CASE RefusedReply(w) \/ UnreadableReply(w) \/ OkReply(w)
    BY <2>4 DEF RefusedReply, UnreadableReply, OkReply, GiveUp
  <2>5. CASE OpenBody(w)
    <3>1. req[w] \in Requests /\ req[w][1] \notin failed /\ phase # "down"
      BY <2>5 DEF OpenBody, QuietInv
    <3>2. ledger[req[w]] = "ok" \/ saved[req[w]] = "ok" => body[req[w]] \notin Answers
      BY <2>5, <3>1 DEF OpenBody, Cached
    <3>3. QED
      BY <2>5, <3>1, <3>2 DEF OpenBody
  <2>6. CASE CloseBody(w)
    BY <2>6 DEF CloseBody
  <2>7. CASE CountRow(w)
    BY <2>7 DEF CountRow
  <2>8. CASE RecordRow(w)
    BY <2>8 DEF RecordRow, GiveUp
  <2>9. CASE MaybeFlush(w)
    BY <2>9 DEF MaybeFlush
  <2>10. CASE NextPage(w)
    BY <2>10 DEF NextPage
  <2>11. CASE WriteShard(w)
    BY <2>11 DEF WriteShard
  <2>12. QED
    BY <1>5, <2>1, <2>2, <2>3, <2>4, <2>5, <2>6, <2>7, <2>8, <2>9, <2>10, <2>11
       DEF WorkerStep, Reply
<1>6. CASE UNCHANGED vars
  BY <1>6, <1>t DEF vars, disk, workers
<1>7. QED
  BY <1>1, <1>2, <1>3, <1>4, <1>5, <1>6 DEF Next

LEMMA NextShardHasResponses == IInv /\ [Next]_vars => ShardHasResponses'
<1> SUFFICES ASSUME IInv, [Next]_vars PROVE ShardHasResponses'
  OBVIOUS
<1>t. TypeInv'
  BY NextTypeOK, NextIdleInv DEF TypeInv, IInv
<1> USE RequestFacts DEF IInv, TypeInv, TypeOK, IdleInv, ShardHasResponses, Undamaged, HandsInv, PagesInv, HasPage
<1>1. CASE \E off \in Offline : Start(off)
  BY <1>1, <1>t DEF Start, disk, workers
<1>2. CASE Crash \/ AppendRun
  BY <1>2, <1>t DEF Crash, AppendRun, ForgetMemory, disk
<1>3. ASSUME NEW d \in Requests, Damage(d) PROVE ShardHasResponses'
  <2>1. \A q \in Requests : Undamaged(q)' => Undamaged(q) /\ body'[q] = body[q]
    BY <1>3 DEF Damage
  <2>2. \A r \in Requests : r \in PagesOf(r[1]) /\ r[2] \in Int
    BY SizesAssumption DEF PagesOf
  <2>3. \A b : PagesOf(b) \subseteq Requests
    BY DEF PagesOf
  <2>4. shards' = shards
    BY <1>3 DEF Damage
  <2> HIDE DEF Undamaged
  <2> SUFFICES ASSUME NEW r \in Requests, r[1] \in shards,
                      \A q \in PagesOf(r[1]) : q[2] <= r[2] => Undamaged(q)',
                      \A q \in PagesOf(r[1]) : q[2] < r[2] => body'[q] # "empty"
               PROVE  body'[r] \in Answers
    BY <2>4
  <2>5. r[2] <= r[2]
    BY <2>2
  <2>6. \A q \in PagesOf(r[1]) : q[2] <= r[2] => Undamaged(q) /\ body'[q] = body[q]
    BY <2>1, <2>3
  <2>7. \A q \in PagesOf(r[1]) : q[2] < r[2] => q[2] <= r[2]
    BY <2>2, <2>3, SizesAssumption
  <2>8. body[r] \in Answers
    BY <2>6, <2>7
  <2> QED BY <2>2, <2>5, <2>6, <2>8
<1>4. CASE EndPass
  BY <1>4, <1>t DEF EndPass, workers
<1>5. ASSUME NEW w \in Workers, WorkerStep(w) PROVE ShardHasResponses'
  <2> USE <1>t DEF disk, Goto, SameRequest
  <2>1. CASE Take(w)
    BY <2>1 DEF Take
  <2>2. CASE Lookup(w)
    BY <2>2 DEF Lookup, GiveUp, Cached
  <2>3. CASE RetryableReply(w) \/ TransientReply(w)
    BY <2>3 DEF RetryableReply, TransientReply, TryAgain, GiveUp
  <2>4. CASE RefusedReply(w) \/ UnreadableReply(w) \/ OkReply(w)
    BY <2>4 DEF RefusedReply, UnreadableReply, OkReply, GiveUp
  <2>5. CASE OpenBody(w) \/ CloseBody(w)
    <3>1. req[w] \in Requests /\ req[w][1] \notin shards /\ shards' = shards
      BY <2>5 DEF OpenBody, CloseBody
    <3>2. \A q \in Requests : q # req[w] =>
            body'[q] = body[q] /\ (Undamaged(q)' <=> Undamaged(q))
      BY <2>5 DEF OpenBody, CloseBody
    <3>3. \A b : \A q \in PagesOf(b) : q \in Requests /\ q[1] = b
      BY DEF PagesOf
    <3> HIDE DEF Undamaged
    <3> QED BY <3>1, <3>2, <3>3
  <2>7. CASE CountRow(w)
    BY <2>7 DEF CountRow
  <2>8. CASE RecordRow(w)
    BY <2>8 DEF RecordRow, GiveUp
  <2>9. CASE MaybeFlush(w)
    BY <2>9 DEF MaybeFlush
  <2>10. CASE NextPage(w)
    BY <2>10 DEF NextPage
  <2>11. CASE WriteShard(w)
    <3>1. req[w] \in Requests /\ pc[w] = "advance"
      BY <2>11 DEF WriteShard
    <3>2. ASSUME NEW r \in Requests, r[1] = req[w][1], r[2] <= req[w][2]
          PROVE  r[2] < req[w][2] \/ r = req[w]
      BY <3>1, <3>2, EarlierPage
    <3>3. ASSUME NEW r \in Requests, r[1] = req[w][1],
                 \A q \in PagesOf(r[1]) : q[2] <= r[2] => Undamaged(q),
                 \A q \in PagesOf(r[1]) : q[2] < r[2] => body[q] # "empty"
          PROVE  body[r] \in Answers
      <4>1. r \in PagesOf(r[1]) /\ req[w] \in PagesOf(r[1])
        BY <3>1, <3>3 DEF PagesOf
      <4>2. r[2] \in Int /\ req[w][2] \in Int /\ r[2] <= MAX_PAGES
            /\ r[2] <= PageCount[r[1]]
        BY <3>1, SizesAssumption
      <4>3. r[2] <= req[w][2]
        BY <2>11, <3>3, <4>1, <4>2, SizesAssumption DEF WriteShard, LastPage
      <4>4. Undamaged(r) /\ (r[2] < req[w][2] \/ r = req[w])
        BY <3>2, <3>3, <4>1, <4>2, <4>3
      <4> QED BY <3>1, <3>3, <4>4
    <3>4. QED
      BY <2>11, <3>3 DEF WriteShard
  <2>12. QED
    BY <1>5, <2>1, <2>2, <2>3, <2>4, <2>5, <2>7, <2>8, <2>9, <2>10, <2>11
       DEF WorkerStep, Reply
<1>6. CASE UNCHANGED vars
  BY <1>6, <1>t DEF vars, disk, workers
<1>7. QED
  BY <1>1, <1>2, <1>3, <1>4, <1>5, <1>6 DEF Next

LEMMA NextQuietInv == IInv /\ [Next]_vars => QuietInv'
<1> SUFFICES ASSUME IInv, [Next]_vars PROVE QuietInv'
  OBVIOUS
<1>t. TypeInv'
  BY NextTypeOK, NextIdleInv DEF TypeInv, IInv
<1> USE RequestFacts DEF IInv, TypeInv, TypeOK, IdleInv, QuietInv
<1>1. CASE \E off \in Offline : Start(off)
  BY <1>1, <1>t DEF Start, disk, workers
<1>2. CASE Crash \/ AppendRun
  BY <1>2, <1>t DEF Crash, AppendRun, ForgetMemory, disk
<1>3. CASE \E r \in Requests : Damage(r)
  BY <1>3, <1>t DEF Damage, workers
<1>4. CASE EndPass
  BY <1>4, <1>t DEF EndPass, workers
<1>5. ASSUME NEW w \in Workers, WorkerStep(w) PROVE QuietInv'
  <2> USE <1>t DEF disk, Goto, SameRequest
  <2>1. CASE Take(w)
    BY <2>1 DEF Take
  <2>2. CASE Lookup(w)
    BY <2>2 DEF Lookup, GiveUp, Cached
  <2>3. CASE RetryableReply(w) \/ TransientReply(w)
    BY <2>3 DEF RetryableReply, TransientReply, TryAgain, GiveUp
  <2>4. CASE RefusedReply(w) \/ UnreadableReply(w) \/ OkReply(w)
    BY <2>4 DEF RefusedReply, UnreadableReply, OkReply, GiveUp
  <2>5. CASE OpenBody(w)
    BY <2>5 DEF OpenBody
  <2>6. CASE CloseBody(w)
    BY <2>6 DEF CloseBody
  <2>7. CASE CountRow(w)
    BY <2>7 DEF CountRow
  <2>8. CASE RecordRow(w)
    BY <2>8 DEF RecordRow, GiveUp
  <2>9. CASE MaybeFlush(w)
    BY <2>9 DEF MaybeFlush
  <2>10. CASE NextPage(w)
    BY <2>10 DEF NextPage
  <2>11. CASE WriteShard(w)
    BY <2>11 DEF WriteShard
  <2>12. QED
    BY <1>5, <2>1, <2>2, <2>3, <2>4, <2>5, <2>6, <2>7, <2>8, <2>9, <2>10, <2>11
       DEF WorkerStep, Reply
<1>6. CASE UNCHANGED vars
  BY <1>6, <1>t DEF vars, disk, workers
<1>7. QED
  BY <1>1, <1>2, <1>3, <1>4, <1>5, <1>6 DEF Next

LEMMA NextHandsInv == IInv /\ [Next]_vars => HandsInv'
<1> SUFFICES ASSUME IInv, [Next]_vars PROVE HandsInv'
  OBVIOUS
<1>t. TypeInv'
  BY NextTypeOK, NextIdleInv DEF TypeInv, IInv
<1> USE RequestFacts DEF IInv, TypeInv, TypeOK, IdleInv, HandsInv, QuietInv
<1>1. CASE \E off \in Offline : Start(off)
  BY <1>1, <1>t DEF Start, disk, workers
<1>2. CASE Crash \/ AppendRun
  BY <1>2, <1>t DEF Crash, AppendRun, ForgetMemory, disk
<1>3. CASE \E r \in Requests : Damage(r)
  BY <1>3, <1>t DEF Damage, workers
<1>4. CASE EndPass
  BY <1>4, <1>t DEF EndPass, workers
<1>5. ASSUME NEW w \in Workers, WorkerStep(w) PROVE HandsInv'
  <2> USE <1>t DEF disk, Goto, SameRequest
  <2>1. CASE Take(w)
    BY <2>1 DEF Take
  <2>2. CASE Lookup(w)
    BY <2>2 DEF Lookup, GiveUp, Cached
  <2>3. CASE RetryableReply(w) \/ TransientReply(w)
    <3>1. CASE UNCHANGED <<req, failed>>
      BY <2>3, <3>1 DEF RetryableReply, TransientReply
    <3>2. CASE GiveUp(w)
      BY <2>3, <3>2 DEF RetryableReply, TransientReply, GiveUp
    <3>3. QED
      BY <2>3, <3>1, <3>2 DEF RetryableReply, TransientReply, TryAgain
  <2>4. CASE RefusedReply(w) \/ UnreadableReply(w) \/ OkReply(w)
    BY <2>4 DEF RefusedReply, UnreadableReply, OkReply, GiveUp
  <2>5. CASE OpenBody(w)
    BY <2>5 DEF OpenBody
  <2>6. CASE CloseBody(w)
    BY <2>6 DEF CloseBody
  <2>7. CASE CountRow(w)
    BY <2>7 DEF CountRow
  <2>8. CASE RecordRow(w)
    BY <2>8 DEF RecordRow, GiveUp
  <2>9. CASE MaybeFlush(w)
    BY <2>9 DEF MaybeFlush
  <2>10. CASE NextPage(w)
    BY <2>10 DEF NextPage
  <2>11. CASE WriteShard(w)
    BY <2>11 DEF WriteShard
  <2>12. QED
    BY <1>5, <2>1, <2>2, <2>3, <2>4, <2>5, <2>6, <2>7, <2>8, <2>9, <2>10, <2>11
       DEF WorkerStep, Reply
<1>6. CASE UNCHANGED vars
  BY <1>6, <1>t DEF vars, disk, workers
<1>7. QED
  BY <1>1, <1>2, <1>3, <1>4, <1>5, <1>6 DEF Next

LEMMA NextVerdictInv == IInv /\ [Next]_vars => VerdictInv'
<1> SUFFICES ASSUME IInv, [Next]_vars PROVE VerdictInv'
  OBVIOUS
<1>t. TypeInv'
  BY NextTypeOK, NextIdleInv DEF TypeInv, IInv
<1> USE RequestFacts DEF IInv, TypeInv, TypeOK, IdleInv, VerdictInv, QuietInv
<1>1. CASE \E off \in Offline : Start(off)
  BY <1>1, <1>t DEF Start, disk, workers
<1>2. CASE Crash \/ AppendRun
  BY <1>2, <1>t DEF Crash, AppendRun, ForgetMemory, disk
<1>3. CASE \E r \in Requests : Damage(r)
  BY <1>3, <1>t DEF Damage, workers
<1>4. CASE EndPass
  BY <1>4, <1>t DEF EndPass, workers
<1>5. ASSUME NEW w \in Workers, WorkerStep(w) PROVE VerdictInv'
  <2> USE <1>t DEF disk, Goto, SameRequest
  <2>1. CASE Take(w)
    BY <2>1 DEF Take
  <2>2. CASE Lookup(w)
    BY <2>2 DEF Lookup, GiveUp, Cached
  <2>3. CASE RetryableReply(w) \/ TransientReply(w)
    BY <2>3 DEF RetryableReply, TransientReply, TryAgain, GiveUp
  <2>4. CASE RefusedReply(w) \/ UnreadableReply(w) \/ OkReply(w)
    BY <2>4 DEF RefusedReply, UnreadableReply, OkReply, GiveUp
  <2>5. CASE OpenBody(w)
    BY <2>5 DEF OpenBody
  <2>6. CASE CloseBody(w)
    BY <2>6 DEF CloseBody
  <2>7. CASE CountRow(w)
    BY <2>7 DEF CountRow
  <2>8. CASE RecordRow(w)
    BY <2>8 DEF RecordRow, GiveUp
  <2>9. CASE MaybeFlush(w)
    BY <2>9 DEF MaybeFlush
  <2>10. CASE NextPage(w)
    BY <2>10 DEF NextPage
  <2>11. CASE WriteShard(w)
    BY <2>11 DEF WriteShard
  <2>12. QED
    BY <1>5, <2>1, <2>2, <2>3, <2>4, <2>5, <2>6, <2>7, <2>8, <2>9, <2>10, <2>11
       DEF WorkerStep, Reply
<1>6. CASE UNCHANGED vars
  BY <1>6, <1>t DEF vars, disk, workers
<1>7. QED
  BY <1>1, <1>2, <1>3, <1>4, <1>5, <1>6 DEF Next

LEMMA NextPagesInv == IInv /\ [Next]_vars => PagesInv'
<1> SUFFICES ASSUME IInv, [Next]_vars PROVE PagesInv'
  OBVIOUS
<1>t. TypeInv'
  BY NextTypeOK, NextIdleInv DEF TypeInv, IInv
<1> USE RequestFacts DEF IInv, TypeInv, TypeOK, IdleInv, PagesInv, HasPage, Undamaged, QuietInv, HandsInv, VerdictInv, OkRowHasBody
<1>1. CASE \E off \in Offline : Start(off)
  BY <1>1, <1>t DEF Start, disk, workers
<1>2. CASE Crash \/ AppendRun
  BY <1>2, <1>t DEF Crash, AppendRun, ForgetMemory, disk
<1>3. CASE \E r \in Requests : Damage(r)
  BY <1>3, <1>t DEF Damage, workers
<1>4. CASE EndPass
  BY <1>4, <1>t DEF EndPass, workers
<1>5. ASSUME NEW w \in Workers, WorkerStep(w) PROVE PagesInv'
  <2> USE <1>t DEF disk, Goto, SameRequest
  <2>1. CASE Take(w)
    BY <2>1 DEF Take
  <2>2. CASE Lookup(w)
    BY <2>2 DEF Lookup, GiveUp, Cached
  <2>3. CASE RetryableReply(w) \/ TransientReply(w)
    BY <2>3 DEF RetryableReply, TransientReply, TryAgain, GiveUp
  <2>4. CASE RefusedReply(w) \/ UnreadableReply(w) \/ OkReply(w)
    BY <2>4 DEF RefusedReply, UnreadableReply, OkReply, GiveUp
  <2>5. CASE OpenBody(w)
    BY <2>5 DEF OpenBody
  <2>6. CASE CloseBody(w)
    BY <2>6 DEF CloseBody
  <2>7. CASE CountRow(w)
    BY <2>7 DEF CountRow
  <2>8. CASE RecordRow(w)
    BY <2>8 DEF RecordRow, GiveUp
  <2>9. CASE MaybeFlush(w)
    BY <2>9 DEF MaybeFlush
  <2>10. CASE NextPage(w)
    <3>1. req[w] \in Requests /\ pc[w] = "advance"
      BY <2>10 DEF NextPage
    <3>2. ASSUME NEW r \in Requests, r[1] = req[w][1], r[2] <= req[w][2]
          PROVE  r[2] < req[w][2] \/ r = req[w]
      BY <3>1, <3>2, EarlierPage
    <3>3. \A r \in Requests :
            Undamaged(r) /\ r[1] = req[w][1] /\ r[2] <= req[w][2]
              => body[r] \in Answers
      BY <3>1, <3>2
    <3>4. /\ req'[w] = <<req[w][1], req[w][2] + 1>>
          /\ pc'[w] = "lookup"
          /\ UNCHANGED <<body, damaged, verdict>> \/ verdict'[w] = "none"
          /\ UNCHANGED <<body, damaged>>
      BY <2>10 DEF NextPage
    <3>5. ASSUME NEW r \in Requests, Undamaged(r)', r[1] = req'[w][1],
                 r[2] < req'[w][2]
          PROVE  body'[r] \in Answers
      <4>1. r[2] \in Int /\ req[w][2] \in Int
        BY <3>1, SizesAssumption
      <4>2. r[1] = req[w][1] /\ r[2] <= req[w][2]
        BY <3>4, <3>5, <4>1
      <4>3. QED
        BY <3>3, <3>4, <3>5, <4>2
    <3>6. ~HasPage(w)'
      BY <3>4
    <3>7. \A v \in Workers \ {w} :
            req'[v] = req[v] /\ pc'[v] = pc[v] /\ verdict'[v] = verdict[v]
      BY <2>10 DEF NextPage
    <3>8. QED
      BY <3>4, <3>5, <3>6, <3>7
  <2>11. CASE WriteShard(w)
    BY <2>11 DEF WriteShard
  <2>12. QED
    BY <1>5, <2>1, <2>2, <2>3, <2>4, <2>5, <2>6, <2>7, <2>8, <2>9, <2>10, <2>11
       DEF WorkerStep, Reply
<1>6. CASE UNCHANGED vars
  BY <1>6, <1>t DEF vars, disk, workers
<1>7. QED
  BY <1>1, <1>2, <1>3, <1>4, <1>5, <1>6 DEF Next

LEMMA NextAskedForInv == IInv /\ [Next]_vars => AskedForInv'
<1> SUFFICES ASSUME IInv, [Next]_vars PROVE AskedForInv'
  OBVIOUS
<1>t. TypeInv'
  BY NextTypeOK, NextIdleInv DEF TypeInv, IInv
<1> USE RequestFacts DEF IInv, TypeInv, TypeOK, IdleInv, AskedForInv, Cached, QuietInv, HandsInv, VerdictInv
<1>1. CASE \E off \in Offline : Start(off)
  BY <1>1, <1>t DEF Start, disk, workers
<1>2. CASE Crash \/ AppendRun
  BY <1>2, <1>t DEF Crash, AppendRun, ForgetMemory, disk
<1>3. CASE \E r \in Requests : Damage(r)
  BY <1>3, <1>t DEF Damage, workers
<1>4. CASE EndPass
  BY <1>4, <1>t DEF EndPass, workers
<1>5. ASSUME NEW w \in Workers, WorkerStep(w) PROVE AskedForInv'
  <2> USE <1>t DEF disk, Goto, SameRequest
  <2>1. CASE Take(w)
    BY <2>1 DEF Take
  <2>2. CASE Lookup(w)
    BY <2>2 DEF Lookup, GiveUp, Cached
  <2>3. CASE RetryableReply(w) \/ TransientReply(w)
    BY <2>3 DEF RetryableReply, TransientReply, TryAgain, GiveUp
  <2>4. CASE RefusedReply(w) \/ UnreadableReply(w) \/ OkReply(w)
    BY <2>4 DEF RefusedReply, UnreadableReply, OkReply, GiveUp
  <2>5. CASE OpenBody(w)
    BY <2>5 DEF OpenBody, Answers
  <2>6. CASE CloseBody(w)
    BY <2>6 DEF CloseBody
  <2>7. CASE CountRow(w)
    BY <2>7 DEF CountRow
  <2>8. CASE RecordRow(w)
    BY <2>8 DEF RecordRow, GiveUp
  <2>9. CASE MaybeFlush(w)
    BY <2>9 DEF MaybeFlush
  <2>10. CASE NextPage(w)
    BY <2>10 DEF NextPage
  <2>11. CASE WriteShard(w)
    BY <2>11 DEF WriteShard
  <2>12. QED
    BY <1>5, <2>1, <2>2, <2>3, <2>4, <2>5, <2>6, <2>7, <2>8, <2>9, <2>10, <2>11
       DEF WorkerStep, Reply
<1>6. CASE UNCHANGED vars
  BY <1>6, <1>t DEF vars, disk, workers
<1>7. QED
  BY <1>1, <1>2, <1>3, <1>4, <1>5, <1>6 DEF Next

LEMMA NextLedgerInv == IInv /\ [Next]_vars => LedgerInv'
<1> SUFFICES ASSUME IInv, [Next]_vars PROVE LedgerInv'
  OBVIOUS
<1>t. TypeInv'
  BY NextTypeOK, NextIdleInv DEF TypeInv, IInv
<1> USE RequestFacts DEF IInv, TypeInv, TypeOK, IdleInv, LedgerInv, QuietInv, HandsInv, VerdictInv, AskedForInv
<1>1. CASE \E off \in Offline : Start(off)
  BY <1>1, <1>t DEF Start, disk, workers
<1>2. CASE Crash \/ AppendRun
  BY <1>2, <1>t DEF Crash, AppendRun, ForgetMemory, disk
<1>3. CASE \E r \in Requests : Damage(r)
  BY <1>3, <1>t DEF Damage, workers
<1>4. CASE EndPass
  BY <1>4, <1>t DEF EndPass, workers
<1>5. ASSUME NEW w \in Workers, WorkerStep(w) PROVE LedgerInv'
  <2> USE <1>t DEF disk, Goto, SameRequest
  <2>1. CASE Take(w)
    BY <2>1 DEF Take
  <2>2. CASE Lookup(w)
    BY <2>2 DEF Lookup, GiveUp, Cached
  <2>3. CASE RetryableReply(w) \/ TransientReply(w)
    BY <2>3 DEF RetryableReply, TransientReply, TryAgain, GiveUp
  <2>4. CASE RefusedReply(w) \/ UnreadableReply(w) \/ OkReply(w)
    BY <2>4 DEF RefusedReply, UnreadableReply, OkReply, GiveUp
  <2>5. CASE OpenBody(w)
    BY <2>5 DEF OpenBody
  <2>6. CASE CloseBody(w)
    BY <2>6 DEF CloseBody
  <2>7. CASE CountRow(w)
    BY <2>7 DEF CountRow
  <2>8. CASE RecordRow(w)
    <3>1. req[w] \in Requests /\ req[w][1] \notin failed /\ phase # "down"
      BY <2>8 DEF RecordRow
    <3>2. /\ verdict[w] # "none"
          /\ verdict[w] # "ok" /\ saved[req[w]] = "ok" => body[req[w]] \notin Answers
      BY <2>8, <3>1 DEF RecordRow, Cached
    <3>3. /\ ledger' = [ledger EXCEPT ![req[w]] = verdict[w]]
          /\ UNCHANGED <<body, saved, phase>>
          /\ failed \subseteq failed'
          /\ verdict[w] # "ok" => req[w][1] \in failed'
      BY <2>8 DEF RecordRow, GiveUp
    <3>4. QED
      BY <3>1, <3>2, <3>3
  <2>9. CASE MaybeFlush(w)
    BY <2>9 DEF MaybeFlush
  <2>10. CASE NextPage(w)
    BY <2>10 DEF NextPage
  <2>11. CASE WriteShard(w)
    BY <2>11 DEF WriteShard
  <2>12. QED
    BY <1>5, <2>1, <2>2, <2>3, <2>4, <2>5, <2>6, <2>7, <2>8, <2>9, <2>10, <2>11
       DEF WorkerStep, Reply
<1>6. CASE UNCHANGED vars
  BY <1>6, <1>t DEF vars, disk, workers
<1>7. QED
  BY <1>1, <1>2, <1>3, <1>4, <1>5, <1>6 DEF Next

LEMMA InitIInv == Init => IInv
<1> SUFFICES ASSUME Init PROVE IInv
  OBVIOUS
<1>1. TypeInv
  BY InitTypeInv
<1>2. OkRowHasBody /\ ShardHasResponses
  BY DEF Init, OkRowHasBody, ShardHasResponses
<1>3. QuietInv /\ HandsInv /\ VerdictInv
  BY DEF Init, QuietInv, HandsInv, VerdictInv
<1>4. PagesInv
  BY RequestFacts DEF Init, PagesInv, HasPage
<1>5. AskedForInv /\ LedgerInv
  BY DEF Init, AskedForInv, LedgerInv
<1>6. QED
  BY <1>1, <1>2, <1>3, <1>4, <1>5 DEF IInv

LEMMA NextIInv == IInv /\ [Next]_vars => IInv'
<1> SUFFICES ASSUME IInv, [Next]_vars PROVE IInv'
  OBVIOUS
<1>1. TypeInv'
  BY NextTypeOK, NextIdleInv DEF IInv, TypeInv
<1>2. QED
  BY <1>1, NextOkRow, NextShardHasResponses, NextQuietInv, NextHandsInv,
     NextVerdictInv, NextPagesInv, NextAskedForInv, NextLedgerInv DEF IInv

(***************************************************************************)
(* The client keeps its inductive invariant, over any number of crashes    *)
(* and runs.                                                               *)
(***************************************************************************)
THEOREM Invariant == Spec => []IInv
BY InitIInv, NextIInv, PTL DEF Spec

(***************************************************************************)
(* A row that says "ok" has its response whole on disk.                    *)
(***************************************************************************)
THEOREM RowsAreBacked == Spec => []OkRowHasBody
<1>1. IInv => OkRowHasBody
  BY DEF IInv
<1>2. QED
  BY <1>1, Invariant, PTL

(***************************************************************************)
(* A shard has every one of its responses on disk.                         *)
(***************************************************************************)
THEOREM ShardsAreBacked == Spec => []ShardHasResponses
<1>1. IInv => ShardHasResponses
  BY DEF IInv
<1>2. QED
  BY <1>1, Invariant, PTL

(***************************************************************************)
(* No two workers write the files of one batch, and none those of a batch  *)
(* that is done.                                                           *)
(***************************************************************************)
THEOREM SingleWriter == Spec => []OneWriterPerBatch
<1>1. IInv => OneWriterPerBatch
  BY DEF IInv, HandsInv, OneWriterPerBatch
<1>2. QED
  BY <1>1, Invariant, PTL

(***************************************************************************)
(* The ledger file never loses a row.                                      *)
(***************************************************************************)
THEOREM LedgerOnlyGrows == Spec => RowsAreNeverLost
<1>1. IInv /\ [Next]_vars =>
        \A r \in Requests : saved[r] # "none" => saved'[r] # "none"
  <2> SUFFICES ASSUME IInv, [Next]_vars, NEW r \in Requests, saved[r] # "none"
               PROVE  saved'[r] # "none"
    OBVIOUS
  <2>1. CASE UNCHANGED saved
    BY <2>1
  <2>2. CASE saved' = ledger /\ phase # "down"
    BY <2>2 DEF IInv, LedgerInv
  <2>3. UNCHANGED saved \/ (saved' = ledger /\ phase # "down")
    <3>1. CASE \E w \in Workers : MaybeFlush(w)
      BY <3>1 DEF MaybeFlush, IInv, QuietInv
    <3>2. CASE EndPass
      BY <3>2 DEF EndPass
    <3>3. CASE ~EndPass /\ ~ \E w \in Workers : MaybeFlush(w)
      BY <3>3 DEF Next, vars, disk, Start, Crash, Damage, AppendRun, WorkerStep,
           Reply, Take, Lookup, RetryableReply, TransientReply, RefusedReply,
           UnreadableReply, OkReply, OpenBody, CloseBody, CountRow, RecordRow,
           NextPage, WriteShard
    <3>4. QED
      BY <3>1, <3>2, <3>3
  <2>4. QED
    BY <2>1, <2>2, <2>3
<1>2. QED
  BY <1>1, Invariant, PTL DEF Spec, RowsAreNeverLost

(***************************************************************************)
(* What is durable is never asked for again, rewritten or overruled.       *)
(***************************************************************************)
NeverReissued(r) ==
  /\ phase = "down" \/ Durable(r)'
  /\ \A w \in Workers : ~(req[w] = r /\ pc'[w] = "post")

LEMMA DurableStep ==
  ASSUME IInv, [Next]_vars, NEW r \in Requests, Durable(r)
  PROVE  NeverReissued(r)
<1> USE RequestFacts DEF IInv, TypeInv, TypeOK, IdleInv, Durable, NeverReissued
<1>a. phase # "down" => ledger[r] = "ok"
  BY DEF LedgerInv
<1>b. phase = "down" => \A w \in Workers : req[w] # r
  BY DEF QuietInv
<1>c. \A w \in Workers :
        req[w] = r => /\ pc[w] \notin {"post", "store", "storing"}
                      /\ pc[w] \in {"count", "record"} => verdict[w] = "ok"
  BY <1>a, <1>b DEF AskedForInv, Cached
<1>1. CASE \E off \in Offline : Start(off)
  BY <1>1, <1>b DEF Start, disk
<1>2. CASE Crash \/ AppendRun
  BY <1>2 DEF Crash, AppendRun, ForgetMemory, disk
<1>3. CASE \E q \in Requests : Damage(q)
  BY <1>3, <1>b DEF Damage, workers
<1>4. CASE EndPass
  BY <1>4, <1>a, <1>c DEF EndPass, workers
<1>5. ASSUME NEW w \in Workers, WorkerStep(w) PROVE NeverReissued(r)
  <2> USE <1>a, <1>b, <1>c DEF disk, Goto, SameRequest
  <2>1. CASE Take(w)
    BY <2>1 DEF Take
  <2>2. CASE Lookup(w)
    <3>1. phase # "down"
      BY <2>2 DEF Lookup, QuietInv
    <3>2. req[w] = r => Cached(req[w])
      BY <3>1 DEF Cached
    <3>3. QED
      BY <2>2, <3>2 DEF Lookup, GiveUp
  <2>3. CASE RetryableReply(w) \/ TransientReply(w)
    BY <2>3 DEF RetryableReply, TransientReply, TryAgain, GiveUp
  <2>4. CASE RefusedReply(w) \/ UnreadableReply(w) \/ OkReply(w)
    BY <2>4 DEF RefusedReply, UnreadableReply, OkReply, GiveUp
  <2>5. CASE OpenBody(w) \/ CloseBody(w)
    BY <2>5 DEF OpenBody, CloseBody
  <2>6. CASE CountRow(w) \/ MaybeFlush(w)
    BY <2>6 DEF CountRow, MaybeFlush, QuietInv
  <2>7. CASE RecordRow(w)
    BY <2>7 DEF RecordRow, GiveUp
  <2>8. CASE NextPage(w)
    BY <2>8 DEF NextPage
  <2>9. CASE WriteShard(w)
    BY <2>9 DEF WriteShard
  <2>10. QED
    BY <1>5, <2>1, <2>2, <2>3, <2>4, <2>5, <2>6, <2>7, <2>8, <2>9
       DEF WorkerStep, Reply
<1>6. CASE UNCHANGED vars
  BY <1>6, <1>c DEF vars, disk, workers
<1>7. QED
  BY <1>1, <1>2, <1>3, <1>4, <1>5, <1>6 DEF Next

\* A response that is durable (ok row saved, body whole) is free for ever: no
\* worker asks for it again, and no running process damages or overrules it.
THEOREM CompletedIsFree == Spec => DurableIsNeverReissued
<1>1. IInv /\ [Next]_vars =>
        \A r \in Requests : Durable(r) =>
          /\ phase = "down" \/ Durable(r)'
          /\ \A w \in Workers : ~(req[w] = r /\ pc'[w] = "post")
  BY DurableStep DEF NeverReissued
<1>2. QED
  BY <1>1, Invariant, PTL DEF Spec, DurableIsNeverReissued

-----------------------------------------------------------------------------
(***************************************************************************)
(* The tail that a crash can cost.  Every row is counted before it is      *)
(* added, so what is not in the file is counted, but for the rows whose    *)
(* count a flush has forgotten: those that others were about to add at the *)
(* time (CountedInv).  Rows beyond a flush interval are of workers that    *)
(* have not looked at the count yet (TailInv): the count itself says       *)
(* nothing, since a worker whose row is an error counts it and never looks.*)
(***************************************************************************)
Recording == {w \in Workers : pc[w] = "record"}
Flushing == {w \in Workers : pc[w] = "flush"}

CountedInv ==
  Cardinality(UnsavedOk) + Cardinality(Recording)
    <= pendingFlush + Cardinality(Workers) - 1

TailInv ==
  Cardinality(UnsavedOk)
    <= LEDGER_FLUSH_EVERY - 1 + Cardinality(Workers) - 1 + Cardinality(Flushing)

LEMMA FiniteWorkers ==
  ASSUME NEW S, S \subseteq Workers
  PROVE  /\ IsFiniteSet(S) /\ Cardinality(S) \in Nat
         /\ Cardinality(Workers) \in Nat /\ Cardinality(S) <= Cardinality(Workers)
         /\ S # Workers => Cardinality(S) <= Cardinality(Workers) - 1
<1>1. IsFiniteSet(Workers)
  BY WorkersAssumption
<1>2. IsFiniteSet(S) /\ Cardinality(S) <= Cardinality(Workers)
  BY <1>1, FS_Subset
<1>3. Cardinality(S) \in Nat /\ Cardinality(Workers) \in Nat
  BY <1>1, <1>2, FS_CardinalityType
<1>4. Cardinality(S) = Cardinality(Workers) => S = Workers
  BY <1>1, FS_Subset
<1> QED BY <1>1, <1>2, <1>3, <1>4

LEMMA SomeWorkers == Cardinality(Workers) \in Nat \ {0}
<1>1. Cardinality(Workers) \in Nat
  BY FiniteWorkers
<1>2. Cardinality(Workers) # 0
  BY WorkersAssumption, FS_EmptySet
<1> QED BY <1>1, <1>2

LEMMA FiniteRequests == IsFiniteSet(Requests)
<1>1. IsFiniteSet(Batches) /\ IsFiniteSet(1..MAX_PAGES)
  BY SizesAssumption, FS_Interval DEF Batches
<1>2. IsFiniteSet(Batches \X (1..MAX_PAGES))
  BY <1>1, FS_Product
<1>3. Requests \in SUBSET (Batches \X (1..MAX_PAGES))
  BY DEF Requests
<1> QED BY <1>2, <1>3, FS_Subset

LEMMA FiniteUnsaved ==
  IsFiniteSet(UnsavedOk) /\ Cardinality(UnsavedOk) \in Nat
<1>1. UnsavedOk \in SUBSET Requests
  BY DEF UnsavedOk
<1>2. IsFiniteSet(UnsavedOk)
  BY <1>1, FiniteRequests, FS_Subset
<1> QED BY <1>2, FS_CardinalityType

\* When nothing is unsaved nothing can be lost.
LEMMA NothingUnsaved ==
  ASSUME UnsavedOk = {}, pendingFlush \in Nat, Recording # Workers
  PROVE  CountedInv /\ TailInv
<1>1. Cardinality(UnsavedOk) = 0
  BY FS_EmptySet
<1>2. Cardinality(Recording) <= Cardinality(Workers) - 1 /\ Cardinality(Recording) \in Nat
  BY FiniteWorkers DEF Recording
<1>3. Cardinality(Flushing) \in Nat
  BY FiniteWorkers DEF Flushing
<1> QED BY <1>1, <1>2, <1>3, SomeWorkers, SizesAssumption DEF CountedInv, TailInv

\* A step that leaves the ledger, its file, the count, and who is between two
\* holds of the lock alone.
LEMMA TailUntouched ==
  ASSUME CountedInv, TailInv, UNCHANGED <<ledger, saved, pendingFlush>>,
         Recording' = Recording, Flushing' = Flushing
  PROVE  CountedInv' /\ TailInv'
<1>1. UnsavedOk' = UnsavedOk
  BY DEF UnsavedOk
<1> QED BY <1>1 DEF CountedInv, TailInv

LEMMA CountRowTail ==
  ASSUME IInv, CountedInv, TailInv, NEW w \in Workers, CountRow(w)
  PROVE  CountedInv' /\ TailInv'
<1> USE DEF IInv, TypeInv, TypeOK
<1>1. /\ UNCHANGED <<ledger, saved>> /\ pendingFlush' = pendingFlush + 1
      /\ pc' = [pc EXCEPT ![w] = "record"] /\ pc[w] = "count"
  BY DEF CountRow, Goto
<1>2. UnsavedOk' = UnsavedOk
  BY <1>1 DEF UnsavedOk
<1>3. Recording' = Recording \union {w} /\ w \notin Recording /\ Flushing' = Flushing
  BY <1>1 DEF Recording, Flushing
<1>4. IsFiniteSet(Recording) /\ Cardinality(Recording) \in Nat
  BY FiniteWorkers DEF Recording
<1>5. Cardinality(Recording') = Cardinality(Recording) + 1
  BY <1>3, <1>4, FS_AddElement
<1> QED BY <1>1, <1>2, <1>3, <1>4, <1>5, FiniteUnsaved, SomeWorkers DEF CountedInv, TailInv

LEMMA RecordRowTail ==
  ASSUME IInv, CountedInv, TailInv, NEW w \in Workers, RecordRow(w)
  PROVE  CountedInv' /\ TailInv'
<1> USE DEF IInv, TypeInv, TypeOK
<1>1. /\ UNCHANGED <<saved, pendingFlush>>
      /\ ledger' = [ledger EXCEPT ![req[w]] = verdict[w]]
      /\ pc[w] = "record"
      /\ pc' = [pc EXCEPT ![w] = IF verdict[w] = "ok" THEN "flush" ELSE "idle"]
  BY DEF RecordRow, Goto, GiveUp, disk
<1>2. Recording' = Recording \ {w} /\ w \in Recording
  BY <1>1 DEF Recording
<1>3. IsFiniteSet(Recording) /\ Cardinality(Recording) \in Nat
  BY FiniteWorkers DEF Recording
<1>4. Cardinality(Recording') = Cardinality(Recording) - 1
  BY <1>2, <1>3, FS_RemoveElement
<1>5. IsFiniteSet(Flushing) /\ Cardinality(Flushing) \in Nat
  BY FiniteWorkers DEF Flushing
<1>6. CASE verdict[w] = "ok"
  <2>1. Flushing' = Flushing \union {w} /\ w \notin Flushing
    BY <1>1, <1>6 DEF Flushing
  <2>2. Cardinality(Flushing') = Cardinality(Flushing) + 1
    BY <2>1, <1>5, FS_AddElement
  <2>3. UnsavedOk' \in SUBSET (UnsavedOk \union {req[w]})
    BY <1>1 DEF UnsavedOk
  <2>4. /\ IsFiniteSet(UnsavedOk \union {req[w]})
        /\ Cardinality(UnsavedOk \union {req[w]}) <= Cardinality(UnsavedOk) + 1
        /\ Cardinality(UnsavedOk \union {req[w]}) \in Nat
    <3>1. /\ IsFiniteSet(UnsavedOk \union {req[w]})
          /\ Cardinality(UnsavedOk \union {req[w]})
               = IF req[w] \in UnsavedOk THEN Cardinality(UnsavedOk)
                 ELSE Cardinality(UnsavedOk) + 1
      BY FiniteUnsaved, FS_AddElement
    <3> QED BY <3>1, FiniteUnsaved
  <2>5. IsFiniteSet(UnsavedOk') /\ Cardinality(UnsavedOk') <= Cardinality(UnsavedOk) + 1
    <3>1. IsFiniteSet(UnsavedOk')
          /\ Cardinality(UnsavedOk') <= Cardinality(UnsavedOk \union {req[w]})
      BY <2>3, <2>4, FS_Subset
    <3>2. Cardinality(UnsavedOk') \in Nat
      BY <3>1, FS_CardinalityType
    <3> QED BY <2>4, <3>1, <3>2, FiniteUnsaved
  <2>6. Cardinality(UnsavedOk') \in Nat
    BY <2>5, FS_CardinalityType
  <2> QED BY <1>1, <1>3, <1>4, <1>5, <2>2, <2>5, <2>6, FiniteUnsaved, SomeWorkers,
             SizesAssumption DEF CountedInv, TailInv
<1>7. CASE verdict[w] # "ok"
  <2>1. Flushing' = Flushing
    BY <1>1, <1>7 DEF Flushing
  <2>2. UnsavedOk' \in SUBSET UnsavedOk
    BY <1>1, <1>7 DEF UnsavedOk
  <2>3. IsFiniteSet(UnsavedOk') /\ Cardinality(UnsavedOk') <= Cardinality(UnsavedOk)
    BY <2>2, FiniteUnsaved, FS_Subset
  <2>4. Cardinality(UnsavedOk') \in Nat
    BY <2>3, FS_CardinalityType
  <2> QED BY <1>1, <1>3, <1>4, <1>5, <2>1, <2>3, <2>4, FiniteUnsaved, SomeWorkers,
             SizesAssumption DEF CountedInv, TailInv
<1> QED BY <1>6, <1>7

\* A worker that finds the count short leaves as many rows as were counted.
LEMMA MaybeFlushTail ==
  ASSUME IInv, CountedInv, TailInv, NEW w \in Workers, MaybeFlush(w)
  PROVE  CountedInv' /\ TailInv'
<1> USE DEF IInv, TypeInv, TypeOK
<1>1. /\ ledger' = ledger /\ pc[w] = "flush" /\ pc' = [pc EXCEPT ![w] = "advance"]
  BY DEF MaybeFlush, Goto
<1>2. Recording' = Recording /\ w \notin Recording
  BY <1>1 DEF Recording
<1>3. CASE pendingFlush >= LEDGER_FLUSH_EVERY
  <2>1. pendingFlush' = 0 /\ saved' = ledger
    BY <1>3, SizesAssumption DEF MaybeFlush
  <2>2. UnsavedOk' = {}
    BY <1>1, <2>1 DEF UnsavedOk
  <2>3. Cardinality(UnsavedOk') = 0
    BY <2>2, FS_EmptySet
  <2>4. Cardinality(Recording) \in Nat /\ Cardinality(Recording) <= Cardinality(Workers) - 1
    BY <1>2, FiniteWorkers DEF Recording
  <2>5. Flushing' \subseteq Workers
    BY DEF Flushing
  <2>6. Cardinality(Flushing') \in Nat
    BY <2>5, FiniteWorkers
  <2> QED BY <1>2, <2>1, <2>3, <2>4, <2>6, SomeWorkers, SizesAssumption
          DEF CountedInv, TailInv
<1>4. CASE pendingFlush < LEDGER_FLUSH_EVERY
  <2>1. UNCHANGED <<pendingFlush, saved>>
    BY <1>4 DEF MaybeFlush
  <2>2. UnsavedOk' = UnsavedOk
    BY <1>1, <2>1 DEF UnsavedOk
  <2>3. Cardinality(Recording) \in Nat
    BY FiniteWorkers DEF Recording
  <2>4. Flushing' \subseteq Workers
    BY DEF Flushing
  <2>5. Cardinality(Flushing') \in Nat
    BY <2>4, FiniteWorkers
  <2> QED BY <1>2, <1>4, <2>1, <2>2, <2>3, <2>5, FiniteUnsaved, SomeWorkers, SizesAssumption
          DEF CountedInv, TailInv
<1> QED BY <1>3, <1>4, SizesAssumption

LEMMA NextTail == IInv /\ CountedInv /\ TailInv /\ [Next]_vars => CountedInv' /\ TailInv'
<1> SUFFICES ASSUME IInv, CountedInv, TailInv, [Next]_vars PROVE CountedInv' /\ TailInv'
  OBVIOUS
<1> USE DEF IInv, TypeInv, TypeOK, QuietInv
<1>1. CASE (\E off \in Offline : Start(off)) \/ Crash \/ EndPass \/ AppendRun
  <2>1. /\ UnsavedOk' = {} /\ pendingFlush' = 0
        /\ \A w \in Workers : pc'[w] = "idle"
    BY <1>1 DEF Start, Crash, EndPass, AppendRun, ForgetMemory, disk, workers, UnsavedOk
  <2>2. Recording' = {} /\ Flushing' = {}
    BY <2>1 DEF Recording, Flushing
  <2>3. Cardinality({}) = 0
    BY FS_EmptySet
  <2> QED BY <2>1, <2>2, <2>3, SomeWorkers, SizesAssumption DEF CountedInv, TailInv
<1>2. CASE \E r \in Requests : Damage(r)
  BY <1>2, TailUntouched DEF Damage, workers, Recording, Flushing
<1>3. ASSUME NEW w \in Workers, WorkerStep(w) PROVE CountedInv' /\ TailInv'
  <2> USE DEF disk, Goto, SameRequest, Recording, Flushing
  <2>1. CASE CountRow(w) \/ RecordRow(w) \/ MaybeFlush(w)
    BY <2>1, CountRowTail, RecordRowTail, MaybeFlushTail
  <2>2. CASE Take(w)
    BY <2>2, TailUntouched DEF Take
  <2>3. CASE Lookup(w)
    BY <2>3, TailUntouched DEF Lookup, GiveUp
  <2>4. CASE RetryableReply(w)
    BY <2>4, TailUntouched DEF RetryableReply, TryAgain, GiveUp
  <2>5. CASE TransientReply(w)
    BY <2>5, TailUntouched DEF TransientReply, TryAgain
  <2>6. CASE RefusedReply(w) \/ UnreadableReply(w) \/ OkReply(w)
    BY <2>6, TailUntouched DEF RefusedReply, UnreadableReply, OkReply, GiveUp
  <2>7. CASE OpenBody(w) \/ CloseBody(w)
    BY <2>7, TailUntouched DEF OpenBody, CloseBody
  <2>8. CASE NextPage(w) \/ WriteShard(w)
    BY <2>8, TailUntouched DEF NextPage, WriteShard
  <2> QED BY <1>3, <2>1, <2>2, <2>3, <2>4, <2>5, <2>6, <2>7, <2>8 DEF WorkerStep, Reply
<1>4. CASE UNCHANGED vars
  BY <1>4, TailUntouched DEF vars, disk, workers, Recording, Flushing
<1> QED BY <1>1, <1>2, <1>3, <1>4 DEF Next

(***************************************************************************)
(* What a crash at any instant can cost, for any number of workers and any *)
(* flush interval: fewer rows than an interval and two more per further    *)
(* worker.                                                                 *)
(***************************************************************************)
THEOREM LostTailBound == Spec => []LostTailIsBounded
<1>1. Init => CountedInv /\ TailInv
  <2> SUFFICES ASSUME Init PROVE CountedInv /\ TailInv
    OBVIOUS
  <2>1. UnsavedOk = {} /\ pendingFlush \in Nat /\ Recording = {}
    BY DEF Init, UnsavedOk, Recording
  <2> QED BY <2>1, NothingUnsaved, WorkersAssumption
<1>2. TailInv => LostTailIsBounded
  <2>1. Cardinality(Flushing) <= Cardinality(Workers) /\ Cardinality(Flushing) \in Nat
    BY FiniteWorkers DEF Flushing
  <2> QED BY <2>1, FiniteUnsaved, SomeWorkers, SizesAssumption DEF TailInv, LostTailIsBounded
<1> QED BY <1>1, <1>2, NextTail, Invariant, PTL DEF Spec

-----------------------------------------------------------------------------
(***************************************************************************)
(* The pass implements ResumableFetch.                                     *)
(***************************************************************************)
Outcomes == [b \in Batches |-> Outcome(b)]

LEMMA FetchInit == Init => Fetch!Init
BY DEF Init, Fetch!Init, Fetch!Untried, Outcome

\* A step that keeps the queue, the hands and the failures is a stutter.
LEMMA Stutter ==
  ASSUME UNCHANGED <<shards, lastRun, todo, failed>>,
         phase = "down" <=> phase' = "down",
         \A b \in Batches : InHand(b)' <=> InHand(b)
  PROVE  UNCHANGED Fetch!vars
BY DEF Fetch!vars, Outcome

LEMMA Leaves ==
  ASSUME IInv, IInv', NEW w \in Workers, pc[w] # "idle",
         req' = [req EXCEPT ![w] = NoRequest],
         UNCHANGED <<phase, todo, lastRun>>,
         \/ /\ failed' = failed \union {req[w][1]}
            /\ UNCHANGED shards
         \/ /\ shards' = shards \union {req[w][1]}
            /\ UNCHANGED failed
  PROVE  Fetch!Next
<1>0. PICK b \in Batches : b = req[w][1]
  BY RequestFacts DEF IInv, TypeInv, TypeOK, IdleInv
<1>1. /\ phase # "down" /\ InHand(b)
      /\ b \notin todo /\ b \notin failed /\ b \notin shards
  BY <1>0 DEF IInv, TypeInv, TypeOK, IdleInv, QuietInv, HandsInv, InHand
<1>2. /\ ~InHand(b)'
      /\ \A c \in Batches \ {b} : InHand(c)' <=> InHand(c)
  BY <1>0 DEF IInv, TypeInv, TypeOK, IdleInv, HandsInv, InHand
<1>3. Outcome(b) = "pending" /\ \A c \in Batches \ {b} : Outcome(c)' = Outcome(c)
  <2>1. \A c \in Batches \ {b} : c \in failed' <=> c \in failed
    BY <1>0
  <2>2. QED
    BY <1>1, <1>2, <2>1 DEF Outcome
<1>4. CASE failed' = failed \union {b} /\ UNCHANGED shards
  <2>1. Outcome(b)' = "failed"
    BY <1>1, <1>2, <1>4 DEF Outcome
  <2>2. Outcomes' = [Outcomes EXCEPT ![b] = "failed"]
    BY <1>3, <2>1 DEF Outcomes
  <2>3. Fetch!GiveUp(b)
    BY <1>1, <1>3, <1>4, <2>2 DEF Fetch!GiveUp, Outcomes
  <2>4. QED
    BY <2>3 DEF Fetch!Next
<1>5. CASE shards' = shards \union {b} /\ UNCHANGED failed
  <2>1. Outcome(b)' = "satisfied"
    BY <1>1, <1>2, <1>5 DEF Outcome
  <2>2. Outcomes' = [Outcomes EXCEPT ![b] = "satisfied"]
    BY <1>3, <2>1 DEF Outcomes
  <2>3. Fetch!Satisfy(b)
    BY <1>1, <1>3, <1>5, <2>2 DEF Fetch!Satisfy, Outcomes
  <2>4. QED
    BY <2>3 DEF Fetch!Next
<1>6. QED
  BY <1>0, <1>4, <1>5

LEMMA FetchNext == IInv /\ [Next]_vars => [Fetch!Next]_Fetch!vars
<1> SUFFICES ASSUME IInv, [Next]_vars PROVE Fetch!Next \/ UNCHANGED Fetch!vars
  OBVIOUS
<1>i. IInv'
  BY NextIInv
<1>q. phase # "running" => \A b \in Batches : ~InHand(b)
  BY RequestFacts DEF IInv, TypeInv, IdleInv, QuietInv, InHand
<1>1. CASE \E off \in Offline : Start(off)
  <2>1. Outcomes' = Outcomes
    BY <1>1 DEF Start, Outcomes, Outcome
  <2>2. QED
    BY <1>1, <2>1 DEF Start, disk, Fetch!Next, Fetch!Start, Outcomes
<1>2. CASE Crash
  <2>1. Outcomes' = Fetch!Untried
    BY <1>2 DEF Crash, ForgetMemory, Outcomes, Outcome, Fetch!Untried
  <2>2. QED
    BY <1>2, <2>1 DEF Crash, ForgetMemory, disk, Fetch!Next, Fetch!Die, Outcomes
<1>3. CASE \E r \in Requests : Damage(r)
  BY <1>3, Stutter DEF Damage, workers, InHand
<1>4. CASE EndPass
  BY <1>4, Stutter DEF EndPass, workers, InHand
<1>5. CASE AppendRun
  <2>1. Outcomes' = Fetch!Untried
    BY <1>5 DEF AppendRun, ForgetMemory, Outcomes, Outcome, Fetch!Untried
  <2>2. \A b \in Batches :
          Outcomes[b] = IF b \in failed THEN "failed" ELSE "satisfied"
    BY <1>5, <1>q DEF AppendRun, IInv, QuietInv, Outcomes, Outcome
  <2>3. failed = {b \in Batches : Outcomes[b] = "failed"}
    BY <2>2 DEF IInv, TypeInv, TypeOK
  <2>4. Fetch!Report
    BY <1>5, <2>1, <2>2, <2>3
       DEF AppendRun, ForgetMemory, Fetch!Report, Outcomes
  <2>5. QED
    BY <2>4 DEF Fetch!Next
<1>6. ASSUME NEW w \in Workers, WorkerStep(w)
      PROVE  Fetch!Next \/ UNCHANGED Fetch!vars
  <2> USE DEF disk, Goto, SameRequest
  <2>1. CASE GiveUp(w) /\ pc[w] # "idle" /\ UNCHANGED <<phase, todo, shards, lastRun>>
    BY <2>1, <1>i, Leaves DEF GiveUp
  <2>2. CASE UNCHANGED <<phase, todo, shards, lastRun, failed, req>>
    BY <2>2, Stutter DEF InHand
  <2>3. CASE Take(w)
    <3>1. PICK b \in todo :
            /\ todo' = todo \ {b}
            /\ IF b \in shards
                 THEN UNCHANGED req
                 ELSE req' = [req EXCEPT ![w] = <<b, 1>>]
      BY <2>3 DEF Take
    <3>2. /\ b \in Batches /\ b \notin failed /\ ~InHand(b)
          /\ req[w] = NoRequest /\ phase = "running"
          /\ UNCHANGED <<phase, shards, lastRun, failed>>
      BY <2>3 DEF Take, IInv, TypeInv, TypeOK, IdleInv, HandsInv, InHand
    <3>3. CASE b \in shards
      <4>1. \A c \in Batches : InHand(c)' <=> InHand(c)
        BY <3>1, <3>3 DEF InHand
      <4>2. Outcome(b) = "pending" /\ Outcome(b)' = "satisfied"
        BY <3>1, <3>2, <4>1 DEF Outcome
      <4>3. \A c \in Batches \ {b} : Outcome(c)' = Outcome(c)
        BY <3>1, <3>2, <4>1 DEF Outcome
      <4>4. Outcomes' = [Outcomes EXCEPT ![b] = "satisfied"]
        BY <4>2, <4>3 DEF Outcomes
      <4>5. Fetch!Satisfy(b)
        BY <3>2, <3>3, <4>2, <4>4 DEF Fetch!Satisfy, Outcomes
      <4>6. QED
        BY <3>2, <4>5 DEF Fetch!Next
    <3>4. CASE b \notin shards
      <4>1. InHand(b)'
        BY <3>1, <3>2, <3>4
           DEF InHand, NoRequest, IInv, TypeInv, TypeOK, Batches
      <4>2. \A c \in Batches \ {b} : InHand(c)' <=> InHand(c)
        BY <3>1, <3>2, <3>4
           DEF InHand, NoRequest, IInv, TypeInv, TypeOK, Batches
      <4>3. \A c \in Batches : Outcome(c)' = Outcome(c)
        BY <3>1, <3>2, <4>1, <4>2 DEF Outcome
      <4>4. QED
        BY <3>2, <4>3 DEF Fetch!vars
    <3>5. QED
      BY <3>3, <3>4
  <2>4. CASE Lookup(w) \/ UnreadableReply(w)
    BY <2>1, <2>2, <2>4 DEF Lookup, UnreadableReply
  <2>5. CASE RetryableReply(w) \/ TransientReply(w)
    BY <2>1, <2>2, <2>5 DEF RetryableReply, TransientReply, TryAgain
  <2>6. CASE \/ RefusedReply(w) \/ OkReply(w) \/ OpenBody(w) \/ CloseBody(w)
             \/ CountRow(w) \/ MaybeFlush(w)
    BY <2>2, <2>6
       DEF RefusedReply, OkReply, OpenBody, CloseBody, CountRow, MaybeFlush
  <2>7. CASE RecordRow(w)
    BY <2>1, <2>2, <2>7 DEF RecordRow
  <2>8. CASE NextPage(w)
    <3>1. req[w] \in Requests /\ req'[w] # NoRequest /\ req'[w][1] = req[w][1]
      BY <2>8, RequestFacts DEF NextPage, IInv, TypeInv, TypeOK, IdleInv, NoRequest
    <3>2. \A v \in Workers \ {w} : req'[v] = req[v]
      BY <2>8 DEF NextPage, IInv, TypeInv, TypeOK
    <3>3. \A b \in Batches : InHand(b)' <=> InHand(b)
      BY <3>1, <3>2, RequestFacts DEF InHand
    <3>4. QED
      BY <2>8, <3>3, Stutter DEF NextPage
  <2>9. CASE WriteShard(w)
    BY <2>9, <1>i, Leaves DEF WriteShard
  <2>10. QED
    BY <1>6, <2>3, <2>4, <2>5, <2>6, <2>7, <2>8, <2>9 DEF WorkerStep, Reply
<1>7. CASE UNCHANGED vars
  BY <1>7, Stutter DEF vars, disk, workers, InHand
<1>8. QED
  BY <1>1, <1>2, <1>3, <1>4, <1>5, <1>6, <1>7 DEF Next

(***************************************************************************)
(* Whatever the ledger, the pool and the crashes do, the pass is a         *)
(* resumable fetch.                                                        *)
(***************************************************************************)
THEOREM Refinement == Spec => ImplementsResumableFetch
<1>1. Spec => Fetch!Init /\ [][Fetch!Next]_Fetch!vars
  BY FetchInit, FetchNext, Invariant, PTL DEF Spec
<1>2. QED
  BY <1>1 DEF ImplementsResumableFetch, Fetch!Spec

=============================================================================
