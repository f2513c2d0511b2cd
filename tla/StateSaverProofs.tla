-------------------------- MODULE StateSaverProofs ---------------------------
(***************************************************************************)
(* The safety of internal/hostcall.StateSaver for any set of keys, any     *)
(* number of saves, any capacity and any pattern of faults.                *)
(***************************************************************************)
EXTENDS StateSaver, SequenceTheorems, TLAPS

(***************************************************************************)
(* The inductive invariant.  LatestKept alone is not inductive: that an    *)
(* "ok" reply means the value is still in the host's store needs the order *)
(* of the requests in the pipe, and that order needs the write mutex.      *)
(***************************************************************************)

\* Outside drain a drainer holds no batch; a call belongs to a batch.
BatchShape ==
  /\ \A d \in Drainers : pc[d] # "drain" => batch[d] = None
  /\ \A d \in Drainers : call[d] # "none" => pc[d] = "drain" /\ Present(batch[d]) # {}

\* Requests of one key are in the pipe in the order of their revisions, above
\* what the host holds and below what the plugin has saved.
PipeOrdered ==
  /\ \A i \in 1 .. Len(pipe) : /\ store[pipe[i].key] <= pipe[i].rev
                               /\ pipe[i].rev <= revision[pipe[i].key]
  /\ \A i, j \in 1 .. Len(pipe) :
       i < j /\ pipe[i].key = pipe[j].key => pipe[i].rev <= pipe[j].rev

\* What is being drained is newer than everything sent before it.
BatchAbovePipe ==
  \A d \in Drainers, k \in Keys :
    batch[d][k] # 0 =>
      /\ store[k] <= batch[d][k]
      /\ batch[d][k] <= revision[k]
      /\ \A i \in 1 .. Len(pipe) : pipe[i].key = k => pipe[i].rev <= batch[d][k]

StoreBelow == \A k \in Keys : store[k] <= revision[k]

\* Only the last request can still have a caller, and it is the one that is
\* waiting in "sent".
LiveIsLast ==
  \A i \in 1 .. Len(pipe) :
    pipe[i].live => i = Len(pipe) /\ \E d \in Drainers : call[d] = "sent"
SentIsLast ==
  \A d \in Drainers : call[d] = "sent" /\ reader = "up" =>
    /\ pipe # <<>>
    /\ pipe[Len(pipe)].live
    /\ pipe[Len(pipe)].key = NextKey(batch[d])
    /\ pipe[Len(pipe)].rev = batch[d][NextKey(batch[d])]

\* An "ok" reply: the pipe is empty and the host still holds that revision.
OkIsStored ==
  \A d \in Drainers : call[d] = "ok" =>
    /\ pipe = <<>>
    /\ store[NextKey(batch[d])] = batch[d][NextKey(batch[d])]

IInv == /\ TypeOK
        /\ DrainersExclude
        /\ BatchShape
        /\ PendingIsLatest
        /\ StoreBelow
        /\ PipeOrdered
        /\ BatchAbovePipe
        /\ LiveIsLast
        /\ SentIsLast
        /\ OkIsStored
        /\ LatestKept
-----------------------------------------------------------------------------
LEMMA NextKeyPresent ==
  ASSUME NEW b \in [Keys -> Nat], Present(b) # {}
  PROVE  NextKey(b) \in Keys /\ b[NextKey(b)] # 0
BY SortAssumption, Zenon DEF NextKey, Present

LEMMA PipeEntries ==
  ASSUME TypeOK
  PROVE  /\ Len(pipe) \in Nat
         /\ \A i \in 1 .. Len(pipe) : /\ pipe[i] \in Request
                                      /\ pipe[i].key \in Keys
                                      /\ pipe[i].rev \in Nat
<1>1. pipe \in Seq(Request)
  BY DEF TypeOK
<1>2. \A i \in 1 .. Len(pipe) : pipe[i] \in Request
  BY <1>1, ElementOfSeq
<1>3. QED
  BY <1>1, <1>2, LenProperties DEF Request

LEMMA InitIInv == Init => IInv
<1> SUFFICES ASSUME Init PROVE IInv
  OBVIOUS
<1>1. TypeOK
  BY SaverAssumption, EmptySeq DEF Init, TypeOK, None, Drainers
<1>2. DrainersExclude /\ BatchShape /\ PendingIsLatest /\ StoreBelow /\ LatestKept
  BY DEF Init, DrainersExclude, BatchShape, PendingIsLatest, StoreBelow, LatestKept,
         None, Drainers
<1>3. PipeOrdered /\ BatchAbovePipe /\ LiveIsLast
  BY EmptySeq DEF Init, PipeOrdered, BatchAbovePipe, LiveIsLast, None, Drainers
<1>4. SentIsLast /\ OkIsStored
  BY DEF Init, SentIsLast, OkIsStored, Drainers
<1>5. QED
  BY <1>1, <1>2, <1>3, <1>4 DEF IInv

LEMMA SaveStep ==
  ASSUME IInv, NEW k \in Keys, Save(k)
  PROVE  IInv'
<1> USE DEF Save
<1>1. TypeOK'
  BY DEF IInv, TypeOK
<1>2. DrainersExclude' /\ BatchShape'
  BY DEF IInv, DrainersExclude, BatchShape, Present
<1>3. PendingIsLatest' /\ StoreBelow'
  BY DEF IInv, TypeOK, PendingIsLatest, StoreBelow
<1>4. PipeOrdered'
  BY PipeEntries DEF IInv, TypeOK, PipeOrdered
<1>5. BatchAbovePipe'
  BY DEF IInv, TypeOK, BatchAbovePipe
<1>6. LiveIsLast' /\ SentIsLast' /\ OkIsStored'
  BY DEF IInv, LiveIsLast, SentIsLast, OkIsStored, NextKey, Present
<1>7. LatestKept'
  BY DEF IInv, TypeOK, LatestKept
<1>8. QED
  BY <1>1, <1>2, <1>3, <1>4, <1>5, <1>6, <1>7 DEF IInv

\* Steps of the event loop, the reader and the worker's select touch none of
\* what the invariant relates except pc outside drain and the reader.
LEMMA QuietStep ==
  ASSUME IInv,
         RecvFails \/ ReaderStops \/ Shutdown \/ ReadResult \/ WorkerWake \/ WorkerStop
  PROVE  IInv'
<1>1. /\ UNCHANGED <<faults, revision, pending, write, batch, call, pipe, store>>
      /\ reader' \in {"up", "stopped", "broken"}
      /\ reader' = "up" => reader = "up"
  BY DEF IInv, TypeOK, RecvFails, ReaderStops, Shutdown, ReadResult,
     WorkerWake, WorkerStop
<1>2. /\ pc' \in [Drainers -> {"select", "lock", "drain", "done"}]
      /\ \A d \in Drainers : pc'[d] = "drain" <=> pc[d] = "drain"
  BY DEF IInv, TypeOK, Drainers, RecvFails, ReaderStops, Shutdown, ReadResult,
     WorkerWake, WorkerStop
<1>3. signal' \in BOOLEAN /\ cancelled' \in BOOLEAN
  BY DEF IInv, TypeOK, RecvFails, ReaderStops, Shutdown, ReadResult,
     WorkerWake, WorkerStop
<1>4. results' \in Seq(Result)
  BY HeadTailProperties DEF IInv, TypeOK, RecvFails, ReaderStops, Shutdown, ReadResult,
     WorkerWake, WorkerStop
<1>5. TypeOK'
  BY <1>1, <1>2, <1>3, <1>4 DEF IInv, TypeOK
<1>6. DrainersExclude' /\ BatchShape'
  BY <1>1, <1>2 DEF IInv, DrainersExclude, BatchShape, Present
<1>7. PendingIsLatest' /\ StoreBelow' /\ PipeOrdered' /\ BatchAbovePipe' /\ LatestKept'
  BY <1>1 DEF IInv, PendingIsLatest, StoreBelow, PipeOrdered, BatchAbovePipe, LatestKept
<1>8. LiveIsLast'
  BY <1>1 DEF IInv, LiveIsLast
<1>9. SentIsLast' /\ OkIsStored'
  BY <1>1 DEF IInv, SentIsLast, OkIsStored
<1>10. QED
  BY <1>5, <1>6, <1>7, <1>8, <1>9 DEF IInv
LEMMA LockStep ==
  ASSUME IInv, NEW d \in Drainers, Lock(d)
  PROVE  IInv'
<1>1. /\ UNCHANGED <<faults, revision, signal, cancelled, call, pipe, store, results, reader>>
      /\ pending' = None
      /\ write' = d
      /\ batch' = [batch EXCEPT ![d] = pending]
      /\ pc' = [pc EXCEPT ![d] = "drain"]
  BY DEF Lock
<1>2. \A e \in Drainers : pc[e] # "drain" /\ batch[e] = None /\ call[e] = "none"
  BY DEF IInv, DrainersExclude, BatchShape, Lock, Drainers
<1>3. TypeOK'
  BY <1>1 DEF IInv, TypeOK, None
<1>4. DrainersExclude'
  BY <1>1, <1>2 DEF IInv, TypeOK, DrainersExclude
<1>5. BatchShape'
  BY <1>1, <1>2 DEF IInv, TypeOK, BatchShape
<1>6. PendingIsLatest' /\ StoreBelow' /\ PipeOrdered'
  BY <1>1 DEF IInv, PendingIsLatest, StoreBelow, PipeOrdered, None
<1>7. BatchAbovePipe'
  BY <1>1, <1>2, PipeEntries
  DEF IInv, TypeOK, BatchAbovePipe, PendingIsLatest, StoreBelow, PipeOrdered, None
<1>8. LiveIsLast' /\ SentIsLast' /\ OkIsStored'
  BY <1>1, <1>2 DEF IInv, LiveIsLast, SentIsLast, OkIsStored
<1>9. LatestKept'
  BY <1>1, <1>2 DEF IInv, TypeOK, LatestKept, None
<1>10. QED
  BY <1>3, <1>4, <1>5, <1>6, <1>7, <1>8, <1>9 DEF IInv

LEMMA SendStep ==
  ASSUME IInv, NEW d \in Drainers, Send(d)
  PROVE  IInv'
<1> DEFINE k == NextKey(batch[d])
           e == [key |-> k, rev |-> batch[d][k], live |-> TRUE]
<1>1. /\ UNCHANGED <<faults, revision, pending, signal, cancelled, write, pc, batch, store,
                     results, reader>>
      /\ pipe' = Append(pipe, e)
      /\ call' = [call EXCEPT ![d] = "sent"]
      /\ call[d] = "none" /\ pc[d] = "drain" /\ Present(batch[d]) # {}
  BY DEF Send
<1>2. batch[d] \in [Keys -> Nat] /\ k \in Keys /\ batch[d][k] # 0
  BY <1>1, NextKeyPresent DEF IInv, TypeOK
<1>3. e \in Request
  BY <1>2 DEF Request
<1> HIDE DEF k
<1>4. /\ pipe' \in Seq(Request)
      /\ Len(pipe') = Len(pipe) + 1
      /\ \A i \in 1 .. Len(pipe) : pipe'[i] = pipe[i]
      /\ pipe'[Len(pipe) + 1] = e
  BY <1>1, <1>3, AppendProperties DEF IInv, TypeOK
<1>5. Len(pipe) \in Nat
  BY PipeEntries DEF IInv
<1>6. \A f \in Drainers : f # d => pc[f] # "drain" /\ call[f] = "none" /\ batch[f] = None
  BY <1>1 DEF IInv, DrainersExclude, BatchShape
<1>7. TypeOK'
  BY <1>1, <1>4 DEF IInv, TypeOK
<1>8. DrainersExclude' /\ PendingIsLatest' /\ StoreBelow' /\ LatestKept'
  BY <1>1 DEF IInv, DrainersExclude, PendingIsLatest, StoreBelow, LatestKept
<1>9. BatchShape'
  BY <1>1 DEF IInv, TypeOK, BatchShape, Present
<1>10. /\ store[k] <= batch[d][k]
       /\ batch[d][k] <= revision[k]
       /\ \A i \in 1 .. Len(pipe) : pipe[i].key = k => pipe[i].rev <= batch[d][k]
  BY <1>2 DEF IInv, BatchAbovePipe
<1>11. PipeOrdered'
  BY <1>1, <1>2, <1>4, <1>5, <1>10 DEF IInv, PipeOrdered
<1>12. BatchAbovePipe'
  <2>1. ASSUME NEW f \in Drainers, NEW j \in Keys, batch[f][j] # 0,
               NEW i \in 1 .. Len(pipe'), pipe'[i].key = j
        PROVE  pipe'[i].rev <= batch[f][j]
    <3>1. f = d
      BY <2>1, <1>6 DEF None
    <3>2. CASE i \in 1 .. Len(pipe)
      BY <2>1, <3>2, <1>4 DEF IInv, BatchAbovePipe
    <3>3. CASE i = Len(pipe) + 1
      BY <2>1, <3>1, <3>3, <1>2, <1>4
    <3>4. QED
      BY <3>2, <3>3, <1>4, <1>5
  <2>2. QED
    BY <2>1, <1>1 DEF IInv, BatchAbovePipe
<1>13. \A i \in 1 .. Len(pipe) : ~pipe[i].live
  BY <1>1, <1>6 DEF IInv, LiveIsLast
<1>14. LiveIsLast'
  BY <1>1, <1>4, <1>5, <1>13 DEF IInv, TypeOK, LiveIsLast
<1>15. SentIsLast'
  <2>1. pipe' # <<>>
    BY <1>4, <1>5, EmptySeq
  <2>2. QED
    BY <2>1, <1>1, <1>4, <1>6 DEF IInv, TypeOK, SentIsLast, k
<1>16. OkIsStored'
  BY <1>1, <1>6 DEF IInv, TypeOK, OkIsStored
<1>17. QED
  BY <1>7, <1>8, <1>9, <1>11, <1>12, <1>14, <1>15, <1>16 DEF IInv

LEMMA SendFailsStep ==
  ASSUME IInv, NEW d \in Drainers, SendFails(d)
  PROVE  IInv'
<1>1. /\ UNCHANGED <<faults, revision, pending, signal, cancelled, write, pc, batch, pipe, store,
                     results, reader>>
      /\ call' = [call EXCEPT ![d] = "error"]
      /\ call[d] = "none" /\ pc[d] = "drain" /\ Present(batch[d]) # {}
  BY DEF SendFails
<1>2. \A f \in Drainers : f # d => call[f] = "none"
  BY <1>1 DEF IInv, DrainersExclude, BatchShape
<1>3. TypeOK'
  BY <1>1 DEF IInv, TypeOK
<1>4. DrainersExclude' /\ PendingIsLatest' /\ StoreBelow' /\ PipeOrdered'
      /\ BatchAbovePipe' /\ LatestKept'
  BY <1>1 DEF IInv, DrainersExclude, PendingIsLatest, StoreBelow, PipeOrdered,
              BatchAbovePipe, LatestKept
<1>5. BatchShape'
  BY <1>1 DEF IInv, TypeOK, BatchShape, Present
<1>6. LiveIsLast'
  BY <1>1, <1>2 DEF IInv, LiveIsLast
<1>7. SentIsLast' /\ OkIsStored'
  BY <1>1, <1>2 DEF IInv, TypeOK, SentIsLast, OkIsStored
<1>8. QED
  BY <1>3, <1>4, <1>5, <1>6, <1>7 DEF IInv

LEMMA GiveUpStep ==
  ASSUME IInv, NEW d \in Drainers, GiveUp(d)
  PROVE  IInv'
<1>1. /\ UNCHANGED <<faults, revision, pending, signal, cancelled, write, pc, batch, store,
                     results, reader>>
      /\ call' = [call EXCEPT ![d] = "error"]
      /\ call[d] = "sent"
      /\ pipe' = [i \in DOMAIN pipe |-> [pipe[i] EXCEPT !.live = FALSE]]
  BY DEF GiveUp
<1>2. /\ Len(pipe) \in Nat
      /\ DOMAIN pipe = 1 .. Len(pipe)
      /\ \A i \in 1 .. Len(pipe) : pipe[i] \in Request
  BY PipeEntries, LenProperties DEF IInv, TypeOK
<1>3. \A i \in 1 .. Len(pipe) : /\ pipe'[i] \in Request
                                /\ pipe'[i].key = pipe[i].key
                                /\ pipe'[i].rev = pipe[i].rev
                                /\ ~pipe'[i].live
  BY <1>1, <1>2 DEF Request
<1>4. pipe' \in Seq(Request) /\ Len(pipe') = Len(pipe)
  BY <1>1, <1>2, <1>3
<1>5. \A f \in Drainers : f # d => call[f] = "none"
  BY <1>1 DEF IInv, DrainersExclude, BatchShape
<1>6. TypeOK'
  BY <1>1, <1>4 DEF IInv, TypeOK
<1>7. DrainersExclude' /\ PendingIsLatest' /\ StoreBelow' /\ LatestKept'
  BY <1>1 DEF IInv, DrainersExclude, PendingIsLatest, StoreBelow, LatestKept
<1>8. BatchShape'
  BY <1>1 DEF IInv, TypeOK, BatchShape, Present
<1>9. PipeOrdered'
  <2>1. \A i \in 1 .. Len(pipe') : /\ store'[pipe'[i].key] <= pipe'[i].rev
                                   /\ pipe'[i].rev <= revision'[pipe'[i].key]
    BY <1>1, <1>3, <1>4 DEF IInv, PipeOrdered
  <2>2. \A i, j \in 1 .. Len(pipe') :
          i < j /\ pipe'[i].key = pipe'[j].key => pipe'[i].rev <= pipe'[j].rev
    BY <1>3, <1>4 DEF IInv, PipeOrdered
  <2>3. QED
    BY <2>1, <2>2 DEF PipeOrdered
<1>10. BatchAbovePipe'
  BY <1>1, <1>3, <1>4 DEF IInv, BatchAbovePipe
<1>11. LiveIsLast'
  BY <1>3, <1>4 DEF LiveIsLast
<1>12. SentIsLast' /\ OkIsStored'
  BY <1>1, <1>5 DEF IInv, TypeOK, SentIsLast, OkIsStored
<1>13. QED
  BY <1>6, <1>7, <1>8, <1>9, <1>10, <1>11, <1>12 DEF IInv

LEMMA FinishStep ==
  ASSUME IInv, NEW d \in Drainers, Finish(d)
  PROVE  IInv'
<1> DEFINE k == NextKey(batch[d])
           r == batch[d][k]
<1>1. /\ UNCHANGED <<faults, revision, signal, cancelled, write, pc, pipe, store, reader>>
      /\ pending' = IF call[d] = "ok" THEN pending ELSE Keep(k, r)
      /\ results' = IF k = TrackedKey /\ revision[k] = r
                    THEN Report([rev |-> r, ok |-> call[d] = "ok"]) ELSE results
      /\ batch' = [batch EXCEPT ![d][k] = 0]
      /\ call' = [call EXCEPT ![d] = "none"]
      /\ call[d] \in {"ok", "refused", "error"}
  BY DEF Finish
<1>2. pc[d] = "drain" /\ Present(batch[d]) # {}
  BY <1>1 DEF IInv, BatchShape
<1>3. batch[d] \in [Keys -> Nat] /\ k \in Keys /\ r \in Nat /\ r # 0
  BY <1>2, NextKeyPresent DEF IInv, TypeOK
<1>4. call[d] = "ok" => store[k] = r
  BY DEF IInv, OkIsStored
<1>5. \A f \in Drainers : f # d => call[f] = "none" /\ batch[f] = None
  BY <1>2 DEF IInv, DrainersExclude, BatchShape
<1> HIDE DEF k
<1>6. results' \in Seq(Result)
  <2>1. results \in Seq(Result) /\ [rev |-> r, ok |-> call[d] = "ok"] \in Result
    BY <1>3 DEF IInv, TypeOK, Result
  <2>2. results # <<>> => Tail(results) \in Seq(Result)
    BY <2>1, HeadTailProperties
  <2>3. ResultCap \in Nat \ {0}
    BY SaverAssumption
  <2>4. Len(results) < ResultCap \/ results # <<>>
    BY <2>1, <2>3, EmptySeq
  <2>5. Report([rev |-> r, ok |-> call[d] = "ok"]) \in Seq(Result)
    BY <2>1, <2>2, <2>4, AppendProperties DEF Report
  <2>6. QED
    BY <2>1, <2>5, <1>1
<1>7. pending' \in [Keys -> Nat] /\ \A j \in Keys : pending'[j] \in {pending[j], revision[j]}
  BY <1>1, <1>3 DEF IInv, TypeOK, Keep
<1>8. /\ batch' \in [Drainers -> [Keys -> Nat]]
      /\ \A f \in Drainers, j \in Keys :
           batch'[f][j] = IF f = d /\ j = k THEN 0 ELSE batch[f][j]
  BY <1>1, <1>3 DEF IInv, TypeOK
<1>9. TypeOK'
  BY <1>1, <1>6, <1>7, <1>8 DEF IInv, TypeOK
<1>10. DrainersExclude' /\ StoreBelow' /\ PipeOrdered'
  BY <1>1 DEF IInv, DrainersExclude, StoreBelow, PipeOrdered
<1>11. PendingIsLatest'
  BY <1>1, <1>7 DEF IInv, PendingIsLatest
<1>12. BatchShape'
  BY <1>1, <1>2, <1>5 DEF IInv, TypeOK, BatchShape, Present, None
<1>13. BatchAbovePipe'
  BY <1>1, <1>8 DEF IInv, BatchAbovePipe
<1>14. LiveIsLast' /\ SentIsLast' /\ OkIsStored'
  <2>1. \A f \in Drainers : call'[f] = "none"
    BY <1>1, <1>5 DEF IInv, TypeOK
  <2>2. \A i \in 1 .. Len(pipe) : ~pipe[i].live
    BY <1>1, <1>5 DEF IInv, LiveIsLast
  <2>3. QED
    BY <1>1, <2>1, <2>2 DEF LiveIsLast, SentIsLast, OkIsStored
<1>15. LatestKept'
  <2>1. ASSUME NEW j \in Keys, j # k
        PROVE  pending'[j] = pending[j]
    BY <2>1, <1>1 DEF IInv, TypeOK, Keep
  <2>2. revision[k] = r => pending'[k] = r \/ store[k] = r
    BY <1>1, <1>3, <1>4 DEF IInv, TypeOK, Keep
  <2>3. \A f \in Drainers : f # d => batch[f][k] = 0
    BY <1>3, <1>5 DEF None
  <2>4. (pending[k] = revision[k] \/ store[k] = revision[k] \/ revision[k] = 0
         \/ revision[k] = r)
    BY <1>3, <2>3 DEF IInv, LatestKept
  <2>5. pending[k] = revision[k] => pending'[k] = revision[k]
    BY <1>3, <1>7
  <2>6. store[k] \in Nat /\ revision[k] \in Nat /\ store[k] <= revision[k]
    BY <1>3 DEF IInv, TypeOK, StoreBelow
  <2>7. pending'[k] = revision'[k] \/ store'[k] = revision'[k]
    BY <1>1, <2>2, <2>4, <2>5, <2>6
  <2>8. QED
    BY <1>1, <1>8, <2>1, <2>7 DEF IInv, LatestKept
<1>16. QED
  BY <1>9, <1>10, <1>11, <1>12, <1>13, <1>14, <1>15 DEF IInv

LEMMA UnlockStep ==
  ASSUME IInv, NEW d \in Drainers, Unlock(d)
  PROVE  IInv'
<1>1. /\ UNCHANGED <<faults, revision, pending, signal, cancelled, batch, call, pipe, store,
                     results, reader>>
      /\ write' = "free"
      /\ pc' = [pc EXCEPT ![d] = IF d = "worker" THEN "select" ELSE "done"]
      /\ pc[d] = "drain" /\ call[d] = "none" /\ Present(batch[d]) = {}
  BY DEF Unlock
<1>2. batch[d] = None
  <2>1. batch[d] \in [Keys -> Nat] /\ \A k \in Keys : batch[d][k] = 0
    BY <1>1 DEF IInv, TypeOK, Present
  <2>2. QED
    BY <2>1 DEF None
<1>3. \A f \in Drainers : f # d => pc[f] # "drain"
  BY <1>1 DEF IInv, DrainersExclude
<1>4. TypeOK'
  BY <1>1 DEF IInv, TypeOK
<1>5. DrainersExclude'
  BY <1>1, <1>3 DEF IInv, TypeOK, DrainersExclude, Drainers
<1>6. BatchShape'
  BY <1>1, <1>2 DEF IInv, TypeOK, BatchShape, Present
<1>7. PendingIsLatest' /\ StoreBelow' /\ PipeOrdered' /\ BatchAbovePipe' /\ LatestKept'
  BY <1>1 DEF IInv, PendingIsLatest, StoreBelow, PipeOrdered, BatchAbovePipe, LatestKept
<1>8. LiveIsLast' /\ SentIsLast' /\ OkIsStored'
  BY <1>1 DEF IInv, LiveIsLast, SentIsLast, OkIsStored
<1>9. QED
  BY <1>4, <1>5, <1>6, <1>7, <1>8 DEF IInv

\* What taking a request off the pipe does, whether the host stores it or not.
LEMMA TailEntries ==
  ASSUME IInv, pipe # <<>>, pipe' = Tail(pipe)
  PROVE  /\ pipe' \in Seq(Request)
         /\ Len(pipe) \in Nat /\ Len(pipe) > 0
         /\ Len(pipe') = Len(pipe) - 1
         /\ Head(pipe) = pipe[1]
         /\ \A i \in 1 .. Len(pipe') : i + 1 \in 1 .. Len(pipe) /\ pipe'[i] = pipe[i + 1]
<1>1. pipe \in Seq(Request)
  BY DEF IInv, TypeOK
<1>2. Len(pipe) \in Nat /\ Len(pipe) > 0
  BY <1>1, EmptySeq
<1>3. /\ pipe' \in Seq(Request)
      /\ Len(pipe') = Len(pipe) - 1
      /\ \A i \in 1 .. Len(pipe') : pipe'[i] = pipe[i + 1]
  BY <1>1, HeadTailProperties
<1>4. Head(pipe) = pipe[1]
  BY <1>1
<1>5. QED
  BY <1>2, <1>3, <1>4

\* The reply reaches the one caller that still waits, and then the pipe is empty.
LEMMA AnswerStep ==
  ASSUME IInv, pipe # <<>>, pipe' = Tail(pipe),
         NEW reply \in {"ok", "refused"}, Answer(reply),
         UNCHANGED <<faults, batch, reader>>
  PROVE  /\ call' \in [Drainers -> {"none", "sent", "ok", "refused", "error"}]
         /\ LiveIsLast'
         /\ SentIsLast'
         /\ \A d \in Drainers : call'[d] \in {call[d], reply}
         /\ \A d \in Drainers : call'[d] # "none" <=> call[d] # "none"
         /\ \A d \in Drainers :
              call'[d] = "ok" => /\ pipe' = <<>>
                                 /\ Head(pipe).key = NextKey(batch[d])
                                 /\ Head(pipe).rev = batch[d][NextKey(batch[d])]
<1>1. /\ Len(pipe) \in Nat /\ Len(pipe) > 0
      /\ pipe' \in Seq(Request)
      /\ Len(pipe') = Len(pipe) - 1
      /\ Head(pipe) = pipe[1]
      /\ \A i \in 1 .. Len(pipe') : i + 1 \in 1 .. Len(pipe) /\ pipe'[i] = pipe[i + 1]
  BY TailEntries
<1>2. \A d \in Drainers :
        call'[d] = IF reader = "up" /\ Head(pipe).live /\ call[d] = "sent"
                   THEN reply ELSE call[d]
  BY DEF Answer
<1>3. Head(pipe).live => Len(pipe) = 1
  <2>1. 1 \in 1 .. Len(pipe)
    BY <1>1
  <2>2. pipe[1].live => 1 = Len(pipe)
    BY <2>1 DEF IInv, LiveIsLast
  <2>3. QED
    BY <2>2, <1>1
<1>4. call' \in [Drainers -> {"none", "sent", "ok", "refused", "error"}]
  BY DEF Answer, IInv, TypeOK
<1>5. LiveIsLast'
  <2> SUFFICES ASSUME NEW i \in 1 .. Len(pipe'), pipe'[i].live
               PROVE  i = Len(pipe') /\ \E d \in Drainers : call'[d] = "sent"
    BY DEF LiveIsLast
  <2>1. pipe[i + 1].live /\ i + 1 \in 1 .. Len(pipe)
    BY <1>1
  <2>2. i + 1 = Len(pipe) /\ \E d \in Drainers : call[d] = "sent"
    BY <2>1 DEF IInv, LiveIsLast
  <2>3. ~Head(pipe).live
    BY <2>2, <1>1, <1>3
  <2>4. QED
    BY <2>2, <2>3, <1>1, <1>2
<1>6. SentIsLast'
  <2> SUFFICES ASSUME NEW d \in Drainers, call'[d] = "sent", reader' = "up"
               PROVE  /\ pipe' # <<>>
                      /\ pipe'[Len(pipe')].live
                      /\ pipe'[Len(pipe')].key = NextKey(batch'[d])
                      /\ pipe'[Len(pipe')].rev = batch'[d][NextKey(batch'[d])]
    BY DEF SentIsLast
  <2>1. call[d] = "sent" /\ reader = "up" /\ ~Head(pipe).live
    BY <1>2
  <2>2. /\ pipe[Len(pipe)].live
        /\ pipe[Len(pipe)].key = NextKey(batch[d])
        /\ pipe[Len(pipe)].rev = batch[d][NextKey(batch[d])]
    BY <2>1 DEF IInv, SentIsLast
  <2>3. Len(pipe) # 1
    BY <2>1, <2>2, <1>1
  <2>4. Len(pipe') \in 1 .. Len(pipe') /\ Len(pipe') + 1 = Len(pipe)
    BY <2>3, <1>1
  <2>5. pipe'[Len(pipe')] = pipe[Len(pipe)]
    <3>1. pipe'[Len(pipe')] = pipe[Len(pipe') + 1]
      BY <2>4, <1>1
    <3>2. QED
      BY <2>4, <3>1
  <2>6. pipe' # <<>>
    <3>1. Len(pipe') # 0
      BY <2>3, <1>1
    <3>2. pipe' \in Seq(Request)
      BY <1>1
    <3>3. QED
      BY <3>1, <3>2, EmptySeq
  <2>7. QED
    BY <2>2, <2>5, <2>6
<1>7. ASSUME NEW d \in Drainers, call'[d] = "ok"
      PROVE  /\ pipe' = <<>>
             /\ Head(pipe).key = NextKey(batch[d])
             /\ Head(pipe).rev = batch[d][NextKey(batch[d])]
  <2>1. call[d] # "ok"
    BY DEF IInv, OkIsStored
  <2>2. reader = "up" /\ Head(pipe).live /\ call[d] = "sent"
    BY <2>1, <1>2, <1>7
  <2>3. Len(pipe) = 1 /\ Len(pipe') = 0
    BY <2>2, <1>1, <1>3
  <2>4. pipe' = <<>>
    BY <2>3, <1>1, EmptySeq
  <2>5. QED
    BY <2>2, <2>3, <2>4, <1>1 DEF IInv, SentIsLast
<1>8. QED
  BY <1>2, <1>4, <1>5, <1>6, <1>7

\* Taking the oldest request away leaves the others in their order.
LEMMA TailOrdered ==
  ASSUME IInv, pipe # <<>>, pipe' = Tail(pipe),
         NEW i \in 1 .. Len(pipe'), NEW j \in 1 .. Len(pipe'),
         i < j, pipe'[i].key = pipe'[j].key
  PROVE  pipe'[i].rev <= pipe'[j].rev
<1>1. /\ i + 1 \in 1 .. Len(pipe) /\ pipe'[i] = pipe[i + 1]
      /\ j + 1 \in 1 .. Len(pipe) /\ pipe'[j] = pipe[j + 1]
  BY TailEntries
<1>2. i + 1 < j + 1
  BY TailEntries
<1>3. \A m, n \in 1 .. Len(pipe) : m < n /\ pipe[m].key = pipe[n].key => pipe[m].rev <= pipe[n].rev
  BY DEF IInv, PipeOrdered
<1>4. QED
  BY <1>1, <1>2, <1>3

LEMMA HostRefusesStep ==
  ASSUME IInv, HostRefuses
  PROVE  IInv'
<1>1. /\ UNCHANGED <<faults, revision, pending, signal, cancelled, write, pc, batch, store,
                     results, reader>>
      /\ pipe # <<>> /\ pipe' = Tail(pipe) /\ Answer("refused")
  BY DEF HostRefuses
<1>2. /\ pipe' \in Seq(Request)
      /\ Len(pipe) \in Nat
      /\ Len(pipe') = Len(pipe) - 1
      /\ \A i \in 1 .. Len(pipe') : i + 1 \in 1 .. Len(pipe) /\ pipe'[i] = pipe[i + 1]
  BY <1>1, TailEntries
<1>3. /\ call' \in [Drainers -> {"none", "sent", "ok", "refused", "error"}]
      /\ LiveIsLast' /\ SentIsLast'
      /\ \A d \in Drainers : call'[d] \in {call[d], "refused"}
      /\ \A d \in Drainers : call'[d] # "none" <=> call[d] # "none"
  BY <1>1, AnswerStep
<1>4. TypeOK'
  BY <1>1, <1>2, <1>3 DEF IInv, TypeOK
<1>5. DrainersExclude' /\ PendingIsLatest' /\ StoreBelow' /\ LatestKept'
  BY <1>1 DEF IInv, DrainersExclude, PendingIsLatest, StoreBelow, LatestKept
<1>6. BatchShape'
  BY <1>1, <1>3 DEF IInv, BatchShape, Present
<1>7. PipeOrdered' /\ BatchAbovePipe'
  <2>1. \A i \in 1 .. Len(pipe') : /\ store'[pipe'[i].key] <= pipe'[i].rev
                                   /\ pipe'[i].rev <= revision'[pipe'[i].key]
    BY <1>1, <1>2 DEF IInv, PipeOrdered
  <2>2. \A i, j \in 1 .. Len(pipe') :
          i < j /\ pipe'[i].key = pipe'[j].key => pipe'[i].rev <= pipe'[j].rev
    BY <1>1, TailOrdered
  <2>3. BatchAbovePipe'
    BY <1>1, <1>2 DEF IInv, BatchAbovePipe
  <2>4. QED
    BY <2>1, <2>2, <2>3 DEF PipeOrdered
<1>8. OkIsStored'
  BY <1>1, <1>3 DEF IInv, OkIsStored
<1>9. QED
  BY <1>3, <1>4, <1>5, <1>6, <1>7, <1>8 DEF IInv

LEMMA HostStoresStep ==
  ASSUME IInv, HostStores
  PROVE  IInv' /\ \A k \in Keys : store'[k] >= store[k]
<1> DEFINE e == Head(pipe)
<1>1. /\ UNCHANGED <<faults, revision, pending, signal, cancelled, write, pc, batch, results, reader>>
      /\ store' = [store EXCEPT ![e.key] = e.rev]
      /\ pipe # <<>> /\ pipe' = Tail(pipe) /\ Answer("ok")
  BY DEF HostStores
<1>2. /\ pipe' \in Seq(Request)
      /\ Len(pipe) \in Nat /\ Len(pipe) > 0
      /\ Len(pipe') = Len(pipe) - 1
      /\ e = pipe[1]
      /\ \A i \in 1 .. Len(pipe') : i + 1 \in 1 .. Len(pipe) /\ pipe'[i] = pipe[i + 1]
  BY <1>1, TailEntries
<1>3. /\ call' \in [Drainers -> {"none", "sent", "ok", "refused", "error"}]
      /\ LiveIsLast' /\ SentIsLast'
      /\ \A d \in Drainers : call'[d] # "none" <=> call[d] # "none"
      /\ \A d \in Drainers : call'[d] = "ok" => /\ pipe' = <<>>
                                                /\ e.key = NextKey(batch[d])
                                                /\ e.rev = batch[d][NextKey(batch[d])]
  BY <1>1, AnswerStep
<1>4. 1 \in 1 .. Len(pipe) /\ e \in Request /\ e.key \in Keys /\ e.rev \in Nat
  BY <1>2, PipeEntries DEF IInv
<1> HIDE DEF e
<1>5. /\ store' \in [Keys -> Nat]
      /\ \A k \in Keys : store'[k] = IF k = e.key THEN e.rev ELSE store[k]
  BY <1>1, <1>4 DEF IInv, TypeOK
<1>6. store[e.key] <= e.rev /\ e.rev <= revision[e.key]
  BY <1>2, <1>4 DEF IInv, PipeOrdered
<1>7. \A k \in Keys : store[k] \in Nat /\ revision[k] \in Nat
  BY DEF IInv, TypeOK
<1>8. \A k \in Keys : store'[k] >= store[k] /\ store'[k] <= revision[k]
  BY <1>5, <1>6, <1>7, <1>4 DEF IInv, StoreBelow
<1>9. TypeOK'
  BY <1>1, <1>2, <1>3, <1>5 DEF IInv, TypeOK
<1>10. DrainersExclude' /\ PendingIsLatest' /\ StoreBelow'
  BY <1>1, <1>8 DEF IInv, DrainersExclude, PendingIsLatest, StoreBelow
<1>11. BatchShape'
  BY <1>1, <1>3 DEF IInv, BatchShape, Present
<1>12. PipeOrdered'
  <2>1. \A i \in 1 .. Len(pipe) : pipe[i].key = e.key => e.rev <= pipe[i].rev
    BY <1>2, <1>4, PipeEntries DEF IInv, PipeOrdered
  <2>2. \A i \in 1 .. Len(pipe) : pipe[i].key \in Keys
    BY PipeEntries DEF IInv
  <2>3. \A i \in 1 .. Len(pipe') : /\ store'[pipe'[i].key] <= pipe'[i].rev
                                   /\ pipe'[i].rev <= revision'[pipe'[i].key]
    <3> SUFFICES ASSUME NEW i \in 1 .. Len(pipe')
                 PROVE  /\ store'[pipe'[i].key] <= pipe'[i].rev
                        /\ pipe'[i].rev <= revision'[pipe'[i].key]
      OBVIOUS
    <3>1. i + 1 \in 1 .. Len(pipe) /\ pipe'[i] = pipe[i + 1]
      BY <1>2
    <3>2. store[pipe[i + 1].key] <= pipe[i + 1].rev /\ pipe[i + 1].rev <= revision[pipe[i + 1].key]
      BY <3>1 DEF IInv, PipeOrdered
    <3>3. store'[pipe[i + 1].key] <= pipe[i + 1].rev
      BY <2>1, <2>2, <3>1, <3>2, <1>5
    <3>4. QED
      BY <3>1, <3>2, <3>3, <1>1
  <2>4. \A i, j \in 1 .. Len(pipe') :
          i < j /\ pipe'[i].key = pipe'[j].key => pipe'[i].rev <= pipe'[j].rev
    BY <1>1, TailOrdered
  <2>5. QED
    BY <2>3, <2>4 DEF PipeOrdered
<1>13. BatchAbovePipe'
  BY <1>1, <1>2, <1>4, <1>5 DEF IInv, BatchAbovePipe
<1>14. OkIsStored'
  BY <1>1, <1>3, <1>4, <1>5 DEF OkIsStored
<1>15. LatestKept'
  BY <1>1, <1>5, <1>6, <1>7, <1>8 DEF IInv, LatestKept
<1>16. QED
  BY <1>3, <1>8, <1>9, <1>10, <1>11, <1>12, <1>13, <1>14, <1>15 DEF IInv
-----------------------------------------------------------------------------
LEMMA NextStep ==
  ASSUME IInv, [Next]_vars
  PROVE  IInv'
<1>1. CASE UNCHANGED vars
  <2>1. TypeOK' /\ DrainersExclude' /\ BatchShape' /\ PendingIsLatest' /\ StoreBelow'
    BY <1>1 DEF vars, IInv, TypeOK, DrainersExclude, BatchShape, Present,
                PendingIsLatest, StoreBelow
  <2>2. PipeOrdered' /\ BatchAbovePipe' /\ LatestKept'
    BY <1>1 DEF vars, IInv, PipeOrdered, BatchAbovePipe, LatestKept
  <2>3. LiveIsLast' /\ SentIsLast' /\ OkIsStored'
    BY <1>1 DEF vars, IInv, LiveIsLast, SentIsLast, OkIsStored
  <2>4. QED
    BY <2>1, <2>2, <2>3 DEF IInv
<1>2. CASE Next
  <2>1. CASE \E k \in Keys : Save(k)
    BY <2>1, SaveStep
  <2>2. CASE RecvFails \/ ReaderStops \/ Shutdown \/ ReadResult \/ WorkerWake \/ WorkerStop
    BY <2>2, QuietStep
  <2>3. CASE \E d \in Drainers : Drain(d)
    BY <2>3, LockStep, SendStep, SendFailsStep, GiveUpStep, FinishStep, UnlockStep DEF Drain
  <2>4. CASE HostStores \/ HostRefuses
    BY <2>4, HostStoresStep, HostRefusesStep
  <2>5. QED
    BY <1>2, <2>1, <2>2, <2>3, <2>4 DEF Next
<1>3. QED
  BY <1>1, <1>2

THEOREM Invariance == Spec => []IInv
<1>1. Init => IInv
  BY InitIInv
<1>2. IInv /\ [Next]_vars => IInv'
  BY NextStep
<1>3. QED
  BY <1>1, <1>2, PTL DEF Spec

\* Every variable of the saver keeps its type (state_saver.go:17).
THEOREM TypeCorrect == Spec => []TypeOK
<1>1. IInv => TypeOK
  BY DEF IInv
<1>2. QED
  BY <1>1, Invariance, PTL

\* The worker and Flush never drain at the same time (state_saver.go:96).
THEOREM Exclusion == Spec => []DrainersExclude
<1>1. IInv => DrainersExclude
  BY DEF IInv
<1>2. QED
  BY <1>1, Invariance, PTL

\* No latest value is dropped, whatever fails (state_saver.go:120).
THEOREM NothingLost == Spec => []LatestKept
<1>1. IInv => LatestKept
  BY DEF IInv
<1>2. QED
  BY <1>1, Invariance, PTL

\* A failed write never takes the place of a newer Save (state_saver.go:122).
THEOREM RequeueIsLatest == Spec => []PendingIsLatest
<1>1. IInv => PendingIsLatest
  BY DEF IInv
<1>2. QED
  BY <1>1, Invariance, PTL

\* Only the host moves what it holds, and it moves it forward.
LEMMA StoreForward ==
  ASSUME IInv, [Next]_vars
  PROVE  [\A k \in Keys : store'[k] >= store[k]]_store
<1>1. CASE HostStores
  BY <1>1, HostStoresStep
<1>2. CASE Next /\ ~HostStores
  <2>1. store' = store
    BY <1>2 DEF Next, Save, RecvFails, ReaderStops, Shutdown, ReadResult, WorkerWake,
       WorkerStop, Drain, Lock, Send, SendFails, GiveUp, Finish, Unlock, HostRefuses
  <2>2. QED
    BY <2>1
<1>3. CASE UNCHANGED vars
  BY <1>3 DEF vars
<1>4. QED
  BY <1>1, <1>2, <1>3

\* The host never goes back to an older value of a key (state_saver.go:107).
THEOREM Forward == Spec => NoRegression
<1>1. IInv /\ [Next]_vars => [\A k \in Keys : store'[k] >= store[k]]_store
  BY StoreForward
<1>2. QED
  BY <1>1, Invariance, PTL DEF Spec, NoRegression

-----------------------------------------------------------------------------
(* The refinement: saves, the host's writes and the return of Flush are    *)
(* the steps of the register; all other steps leave it alone.              *)

LEMMA AbstractStep ==
  ASSUME IInv, [Next]_vars
  PROVE  [Abstract!Next]_(Abstract!vars)
<1> USE DEF Abstract!vars
<1>1. CASE UNCHANGED vars
  BY <1>1 DEF vars
<1>2. ASSUME NEW k \in Keys, Save(k)
      PROVE  Abstract!Next
  <2>1. Abstract!Save(k)
    BY <1>2 DEF Save, Abstract!Save
  <2>2. QED
    BY <2>1 DEF Abstract!Next
<1>3. CASE HostStores
  <2> DEFINE k == Head(pipe).key
             r == Head(pipe).rev
  <2>1. Len(pipe) \in Nat /\ Len(pipe) > 0 /\ Head(pipe) = pipe[1]
    <3>1. pipe # <<>> /\ pipe' = Tail(pipe)
      BY <1>3 DEF HostStores
    <3>2. QED
      BY <3>1, TailEntries
  <2>2. 1 \in 1 .. Len(pipe)
    BY <2>1
  <2>3. k \in Keys /\ r \in Nat
    BY <2>1, <2>2, PipeEntries DEF IInv
  <2>4. store[k] <= r /\ r <= revision[k]
    BY <2>1, <2>2 DEF IInv, PipeOrdered
  <2>5. store' = [store EXCEPT ![k] = r] /\ UNCHANGED <<faults, revision, pc>>
    BY <1>3 DEF HostStores
  <2> HIDE DEF k, r
  <2>6. store[k] \in Nat /\ revision[k] \in Nat
    BY <2>3 DEF IInv, TypeOK
  <2>7. r \in store[k] .. revision[k]
    BY <2>3, <2>4, <2>6
  <2>8. Abstract!Store(k)
    BY <2>5, <2>7 DEF Abstract!Store
  <2>9. QED
    BY <2>3, <2>8 DEF Abstract!Next
<1>4. ASSUME NEW d \in Drainers, Unlock(d)
      PROVE  [Abstract!Next]_(Abstract!vars)
  <2>1. /\ UNCHANGED <<faults, revision, store>>
        /\ pc' = [pc EXCEPT ![d] = IF d = "worker" THEN "select" ELSE "done"]
        /\ pc["flush"] # "done"
    BY <1>4 DEF Unlock, Running
  <2>2. CASE d = "worker"
    BY <2>1, <2>2
  <2>3. CASE d = "flush"
    <3>1. pc'["flush"] = "done"
      BY <2>1, <2>3 DEF IInv, TypeOK, Drainers
    <3>2. Abstract!Close
      BY <2>1, <3>1 DEF Abstract!Close
    <3>3. QED
      BY <3>2 DEF Abstract!Next
  <2>4. QED
    BY <2>2, <2>3 DEF Drainers
<1>5. CASE RecvFails \/ ReaderStops \/ ReadResult \/ HostRefuses
  BY <1>5 DEF RecvFails, ReaderStops, ReadResult, HostRefuses
<1>6. CASE Shutdown \/ WorkerWake \/ WorkerStop
  <2>1. UNCHANGED <<faults, revision, store>>
    BY <1>6 DEF Shutdown, WorkerWake, WorkerStop
  <2>2. (pc'["flush"] = "done") = (pc["flush"] = "done")
    BY <1>6 DEF Shutdown, WorkerWake, WorkerStop, IInv, TypeOK, Drainers
  <2>3. QED
    BY <2>1, <2>2
<1>7. ASSUME NEW d \in Drainers, Lock(d)
      PROVE  UNCHANGED Abstract!vars
  <2>1. UNCHANGED <<faults, revision, store>> /\ pc' = [pc EXCEPT ![d] = "drain"] /\ pc[d] = "lock"
    BY <1>7 DEF Lock
  <2>2. (pc'["flush"] = "done") = (pc["flush"] = "done")
    BY <2>1 DEF IInv, TypeOK, Drainers
  <2>3. QED
    BY <2>1, <2>2
<1>8. ASSUME NEW d \in Drainers, Send(d) \/ SendFails(d) \/ GiveUp(d) \/ Finish(d)
      PROVE  UNCHANGED Abstract!vars
  BY <1>8 DEF Send, SendFails, GiveUp, Finish
<1>9. CASE Next
  BY <1>9, <1>2, <1>3, <1>4, <1>5, <1>6, <1>7, <1>8 DEF Next, Drain
<1>10. QED
  BY <1>1, <1>9

\* The saver implements one register per key: the host only ever moves forward
\* through saved values, and after Flush nothing is saved (state_saver.go:89).
THEOREM Implements == Spec => ImplementsLatestValue
<1>1. Init => Abstract!Init
  BY DEF Init, Abstract!Init, None, Drainers
<1>2. IInv /\ [Next]_vars => [Abstract!Next]_(Abstract!vars)
  BY AbstractStep
<1>3. QED
  BY <1>1, <1>2, Invariance, PTL DEF Spec, Abstract!Spec, ImplementsLatestValue

-----------------------------------------------------------------------------
(* What the shutdown leaves.  Once Flush has taken the batch no value is    *)
(* saved any more, the worker has no batch of its own, and what Flush does  *)
(* not hold has been handed over: it is stored, or written to the pipe.     *)

Handed(k) ==
  \/ store[k] = revision[k]
  \/ \E i \in 1 .. Len(pipe) : pipe[i].key = k /\ pipe[i].rev = revision[k]

InOrder == ~faults /\ reader # "broken"

FlushHands ==
  InOrder /\ pc["flush"] \in {"drain", "done"} =>
    \A k \in Keys : Handed(k) \/ batch["flush"][k] = revision[k]

\* A call of Flush has written its request, also when no reply will come.
FlushCall ==
  InOrder /\ call["flush"] # "none" => Handed(NextKey(batch["flush"]))

FInv == IInv /\ FlushHands /\ FlushCall

LEMMA InitFInv == Init => FInv
BY InitIInv DEF Init, FInv, FlushHands, FlushCall, Drainers

\* What was handed over stays so: the host takes the requests in their order
\* and refuses none.
LEMMA HandedStays ==
  ASSUME IInv, [Next]_vars, ~faults, revision' = revision, NEW k \in Keys, Handed(k)
  PROVE  Handed(k)'
<1>1. CASE HostStores
  <2> DEFINE e == Head(pipe)
  <2>1. /\ UNCHANGED revision
        /\ store' = [store EXCEPT ![e.key] = e.rev]
        /\ pipe # <<>> /\ pipe' = Tail(pipe)
    BY <1>1 DEF HostStores
  <2>2. /\ Len(pipe) \in Nat /\ Len(pipe) > 0
        /\ Len(pipe') = Len(pipe) - 1
        /\ e = pipe[1]
        /\ \A i \in 1 .. Len(pipe') : i + 1 \in 1 .. Len(pipe) /\ pipe'[i] = pipe[i + 1]
    BY <2>1, TailEntries
  <2>3. 1 \in 1 .. Len(pipe) /\ e.key \in Keys /\ e.rev \in Nat
    BY <2>2, PipeEntries DEF IInv
  <2>4. store[e.key] <= e.rev /\ e.rev <= revision[e.key]
    BY <2>2, <2>3 DEF IInv, PipeOrdered
  <2> HIDE DEF e
  <2>5. \A j \in Keys : store'[j] = IF j = e.key THEN e.rev ELSE store[j]
    BY <2>1, <2>3 DEF IInv, TypeOK
  <2>6. store[k] \in Nat /\ revision[k] \in Nat
    BY DEF IInv, TypeOK
  <2>7. CASE store[k] = revision[k]
    BY <2>1, <2>3, <2>4, <2>5, <2>6, <2>7 DEF Handed
  <2>8. ASSUME NEW i \in 1 .. Len(pipe), pipe[i].key = k, pipe[i].rev = revision[k]
        PROVE  Handed(k)'
    <3>1. CASE i = 1
      BY <2>1, <2>2, <2>5, <2>8, <3>1 DEF Handed
    <3>2. CASE i # 1
      <4>1. i - 1 \in 1 .. Len(pipe') /\ pipe'[i - 1] = pipe[(i - 1) + 1] /\ (i - 1) + 1 = i
        BY <2>2, <3>2
      <4>2. QED
        BY <2>1, <2>8, <4>1 DEF Handed
    <3>3. QED
      BY <3>1, <3>2
  <2>9. QED
    BY <2>7, <2>8 DEF Handed
<1>2. CASE \E d \in Drainers : Send(d)
  <2>1. PICK d \in Drainers : Send(d)
    BY <1>2
  <2> DEFINE j == NextKey(batch[d])
             e == [key |-> j, rev |-> batch[d][j], live |-> TRUE]
  <2>2. store' = store /\ pipe' = Append(pipe, e)
    BY <2>1 DEF Send
  <2>3. pipe \in Seq(Request)
    BY DEF IInv, TypeOK
  <2>4. e \in Request
    <3>1. batch[d] \in [Keys -> Nat] /\ Present(batch[d]) # {}
      BY <2>1 DEF Send, IInv, TypeOK
    <3>2. j \in Keys /\ batch[d][j] \in Nat
      BY <3>1, NextKeyPresent
    <3>3. QED
      BY <3>2 DEF Request
  <2> HIDE DEF j, e
  <2>5. /\ Len(pipe') = Len(pipe) + 1 /\ Len(pipe) \in Nat
        /\ \A i \in 1 .. Len(pipe) : pipe'[i] = pipe[i]
    BY <2>2, <2>3, <2>4, AppendProperties, LenProperties
  <2>6. QED
    BY <2>2, <2>5 DEF Handed
<1>3. CASE \E d \in Drainers : GiveUp(d)
  <2>1. store' = store /\ pipe' = [i \in DOMAIN pipe |-> [pipe[i] EXCEPT !.live = FALSE]]
    BY <1>3 DEF GiveUp
  <2>2. /\ DOMAIN pipe = 1 .. Len(pipe) /\ Len(pipe) \in Nat
        /\ \A i \in 1 .. Len(pipe) : pipe[i] \in Request
    BY PipeEntries, LenProperties DEF IInv, TypeOK
  <2>3. /\ Len(pipe') = Len(pipe)
        /\ \A i \in 1 .. Len(pipe) : pipe'[i].key = pipe[i].key /\ pipe'[i].rev = pipe[i].rev
    BY <2>1, <2>2 DEF Request
  <2>4. QED
    BY <2>1, <2>3 DEF Handed
<1>4. CASE HostRefuses
  BY <1>4 DEF HostRefuses
<1>5. CASE /\ [Next]_vars /\ ~HostStores /\ ~HostRefuses
           /\ \A d \in Drainers : ~Send(d) /\ ~GiveUp(d)
  <2>1. UNCHANGED <<store, pipe>>
    BY <1>5 DEF Next, vars, Save, RecvFails, ReaderStops, Shutdown, ReadResult, WorkerWake,
       WorkerStop, Drain, Lock, SendFails, Finish, Unlock
  <2>2. QED
    BY <2>1 DEF Handed
<1>6. QED
  BY <1>1, <1>2, <1>3, <1>4, <1>5

\* Which steps change what FlushHands and FlushCall read of Flush itself.
LEMMA FlushSteps ==
  ASSUME IInv, [Next]_vars
  PROVE  /\ faults' = faults /\ (reader = "broken" => reader' = "broken")
         /\ pc["flush"] # "select" => revision' = revision /\ pc'["flush"] # "select"
         /\ \/ Lock("flush") \/ Send("flush") \/ SendFails("flush") \/ Finish("flush")
            \/ /\ batch'["flush"] = batch["flush"]
               /\ call'["flush"] # "none" => call["flush"] # "none"
               /\ pc'["flush"] \in {"drain", "done"} => pc["flush"] \in {"drain", "done"}
<1>0. /\ pc \in [Drainers -> {"select", "lock", "drain", "done"}]
      /\ batch \in [Drainers -> [Keys -> Nat]]
      /\ call \in [Drainers -> {"none", "sent", "ok", "refused", "error"}]
  BY DEF IInv, TypeOK
<1>1. CASE RecvFails \/ ReaderStops \/ Shutdown \/ ReadResult \/ WorkerWake \/ WorkerStop
  BY <1>0, <1>1 DEF RecvFails, ReaderStops, Shutdown, ReadResult, WorkerWake, WorkerStop, Drainers
<1>2. CASE \E k \in Keys : Save(k)
  BY <1>0, <1>2 DEF Save
<1>3. CASE HostStores \/ HostRefuses
  BY <1>0, <1>3 DEF HostStores, HostRefuses, Answer, Drainers
<1>4. CASE UNCHANGED vars
  BY <1>4 DEF vars
<1>5. ASSUME NEW d \in Drainers, Drain(d)
      PROVE  /\ faults' = faults /\ reader' = reader /\ revision' = revision
             /\ pc["flush"] # "select" => pc'["flush"] # "select"
  BY <1>0, <1>5 DEF Drain, Lock, Send, SendFails, GiveUp, Finish, Unlock, Drainers
<1>6. CASE Drain("worker")
  BY <1>0, <1>5, <1>6 DEF Drain, Lock, Send, SendFails, GiveUp, Finish, Unlock, Drainers
<1>7. CASE Drain("flush")
  <2>1. CASE GiveUp("flush") \/ Unlock("flush")
    BY <1>0, <1>5, <1>7, <2>1 DEF GiveUp, Unlock, Drainers
  <2>2. QED
    BY <1>5, <1>7, <2>1 DEF Drain, Drainers
<1>8. QED
  BY <1>1, <1>2, <1>3, <1>4, <1>6, <1>7 DEF Next, Drainers

LEMMA NextFInv ==
  ASSUME FInv, [Next]_vars
  PROVE  FInv'
<1>1. IInv /\ IInv'
  BY NextStep DEF FInv
<1> SUFFICES ASSUME InOrder' PROVE FlushHands' /\ FlushCall'
  BY <1>1 DEF FInv, FlushHands, FlushCall
<1>2. InOrder
  BY <1>1, FlushSteps DEF InOrder
<1>3. ASSUME pc["flush"] # "select", NEW k \in Keys, Handed(k) PROVE Handed(k)'
  BY <1>1, <1>2, <1>3, FlushSteps, HandedStays DEF InOrder
<1>4. "flush" \in Drainers
  BY DEF Drainers
<1>5. /\ pc \in [Drainers -> {"select", "lock", "drain", "done"}]
      /\ batch \in [Drainers -> [Keys -> Nat]]
      /\ call \in [Drainers -> {"none", "sent", "ok", "refused", "error"}]
  BY <1>1 DEF IInv, TypeOK
<1>6. call["flush"] # "none" => /\ pc["flush"] = "drain"
                                /\ NextKey(batch["flush"]) \in Keys
  BY <1>1, <1>4, <1>5, NextKeyPresent DEF IInv, BatchShape
<1>7. CASE Lock("flush")
  <2>1. /\ UNCHANGED <<store, pipe, revision, call>> /\ pc["flush"] = "lock" /\ write = "free"
        /\ batch'["flush"] = pending
    BY <1>4, <1>5, <1>7 DEF Lock
  <2>2. \A d \in Drainers, k \in Keys : batch[d][k] = 0
    BY <1>1, <2>1 DEF IInv, DrainersExclude, BatchShape, None, Drainers
  <2>3. \A k \in Keys : Handed(k)' \/ batch'["flush"][k] = revision'[k]
    BY <1>1, <2>1, <2>2 DEF IInv, TypeOK, LatestKept, PendingIsLatest, StoreBelow, Handed
  <2>4. call'["flush"] = "none"
    BY <1>6, <2>1
  <2>5. QED
    BY <2>3, <2>4 DEF FlushHands, FlushCall
<1>8. CASE Send("flush")
  <2>1. /\ UNCHANGED <<pc, batch, revision, store>> /\ pc["flush"] = "drain"
        /\ Present(batch["flush"]) # {}
        /\ LET j == NextKey(batch["flush"])
           IN  pipe' = Append(pipe, [key |-> j, rev |-> batch["flush"][j], live |-> TRUE])
    BY <1>8 DEF Send
  <2>2. PICK k \in Keys : k = NextKey(batch["flush"])
    BY <1>4, <1>5, <2>1, NextKeyPresent
  <2> DEFINE e == [key |-> k, rev |-> batch["flush"][k], live |-> TRUE]
  <2>3. pipe \in Seq(Request) /\ e \in Request /\ pipe' = Append(pipe, e)
    BY <1>1, <1>4, <1>5, <2>1, <2>2 DEF IInv, TypeOK, Request
  <2>4. Handed(k) \/ batch["flush"][k] = revision[k]
    BY <1>2, <2>1, <2>2 DEF FInv, FlushHands
  <2>5. /\ Len(pipe') = Len(pipe) + 1 /\ Len(pipe) \in Nat /\ pipe'[Len(pipe) + 1] = e
    BY <2>3, AppendProperties, LenProperties
  <2>6. Len(pipe) + 1 \in 1 .. Len(pipe')
    BY <2>5
  <2>7. Handed(k)'
    <3>1. CASE Handed(k)
      BY <1>3, <2>1, <2>2, <3>1
    <3>2. CASE batch["flush"][k] = revision[k]
      BY <2>1, <2>5, <2>6, <3>2 DEF Handed
    <3>3. QED
      BY <2>4, <3>1, <3>2
  <2>8. FlushCall'
    BY <2>1, <2>2, <2>7 DEF FlushCall
  <2>9. \A j \in Keys : Handed(j)' \/ batch'["flush"][j] = revision'[j]
    BY <1>2, <1>3, <2>1 DEF FInv, FlushHands
  <2>10. QED
    BY <2>8, <2>9 DEF FlushHands
<1>9. CASE SendFails("flush")
  BY <1>2, <1>9 DEF SendFails, InOrder
<1>10. CASE Finish("flush")
  <2> DEFINE k == NextKey(batch["flush"])
  <2>1. /\ UNCHANGED <<pc, revision, store, pipe>> /\ call'["flush"] = "none"
        /\ batch' = [batch EXCEPT !["flush"][k] = 0] /\ call["flush"] # "none"
    BY <1>4, <1>5, <1>10 DEF Finish
  <2>2. Handed(k) /\ k \in Keys /\ pc["flush"] = "drain"
    BY <1>2, <1>6, <2>1 DEF FInv, FlushCall
  <2> HIDE DEF k
  <2>3. \A j \in Keys : j # k => batch'["flush"][j] = batch["flush"][j]
    BY <1>4, <1>5, <2>1
  <2>4. \A j \in Keys : Handed(j)' \/ batch'["flush"][j] = revision'[j]
    BY <1>2, <1>3, <2>1, <2>2, <2>3 DEF FInv, FlushHands
  <2>5. QED
    BY <2>1, <2>4 DEF FlushHands, FlushCall
<1>11. CASE /\ batch'["flush"] = batch["flush"]
            /\ call'["flush"] # "none" => call["flush"] # "none"
            /\ pc'["flush"] \in {"drain", "done"} => pc["flush"] \in {"drain", "done"}
  <2>1. ASSUME pc'["flush"] \in {"drain", "done"}, NEW k \in Keys
        PROVE  Handed(k)' \/ batch'["flush"][k] = revision'[k]
    <3>1. pc["flush"] # "select" /\ (Handed(k) \/ batch["flush"][k] = revision[k])
      BY <1>2, <1>11, <2>1 DEF FInv, FlushHands
    <3>2. revision' = revision
      BY <1>1, <3>1, FlushSteps
    <3>3. QED
      BY <1>3, <1>11, <3>1, <3>2
  <2>2. FlushCall'
    BY <1>2, <1>3, <1>6, <1>11 DEF FInv, FlushCall
  <2>3. QED
    BY <2>1, <2>2 DEF FlushHands
<1>12. QED
  BY <1>1, <1>7, <1>8, <1>9, <1>10, <1>11, FlushSteps

\* After Flush, with a host that took every request, the last value of each key
\* is stored or on the wire, whether or not its reply was decoded
\* (state_saver.go:89).
THEOREM NothingLeftBehind == Spec => []FlushedIsStored
<1>1. FInv => FlushedIsStored
  <2> SUFFICES ASSUME FInv, pc["flush"] = "done", InOrder, NEW k \in Keys
               PROVE  \/ store[k] = revision[k]
                      \/ \E i \in DOMAIN pipe : pipe[i].key = k /\ pipe[i].rev = revision[k]
    BY DEF FlushedIsStored, InOrder
  <2>1. Handed(k) \/ batch["flush"][k] = revision[k]
    BY DEF FInv, FlushHands
  <2>2. batch["flush"] = None
    BY DEF FInv, IInv, BatchShape, Drainers
  <2>3. store[k] \in Nat /\ store[k] <= revision[k]
    BY DEF FInv, IInv, TypeOK, StoreBelow
  <2>4. Handed(k)
    BY <2>1, <2>2, <2>3 DEF None, Handed
  <2>5. DOMAIN pipe = 1 .. Len(pipe)
    BY LenProperties DEF FInv, IInv, TypeOK
  <2>6. QED
    BY <2>4, <2>5 DEF Handed
<1>2. QED
  BY <1>1, InitFInv, NextFInv, PTL DEF Spec

\* The tracked write that ends is the last result in the channel, also when the
\* channel was full (state_saver.go:125).
THEOREM ResultsReported == Spec => ResultDelivered
<1>1. IInv /\ [Next]_vars =>
        [\A d \in Drainers :
           (/\ call[d] # "none" /\ call'[d] = "none"
            /\ NextKey(batch[d]) = TrackedKey
            /\ batch[d][TrackedKey] = revision[TrackedKey])
           => (results' # <<>> /\ results'[Len(results')].rev = revision[TrackedKey])]_vars
  <2> SUFFICES ASSUME IInv, Next, NEW d \in Drainers, call[d] # "none", call'[d] = "none",
                      NextKey(batch[d]) = TrackedKey,
                      batch[d][TrackedKey] = revision[TrackedKey]
               PROVE  results' # <<>> /\ results'[Len(results')].rev = revision[TrackedKey]
    OBVIOUS
  <2>0. /\ call \in [Drainers -> {"none", "sent", "ok", "refused", "error"}]
        /\ results \in Seq(Result) /\ revision[TrackedKey] \in Nat
    BY SaverAssumption DEF IInv, TypeOK
  <2>1. Finish(d)
    BY <2>0 DEF Next, Save, RecvFails, ReaderStops, Shutdown, ReadResult, WorkerWake, WorkerStop,
       Drain, Lock, Send, SendFails, GiveUp, Finish, Unlock, HostStores, HostRefuses, Answer
  <2> DEFINE r == [rev |-> revision[TrackedKey], ok |-> call[d] = "ok"]
  <2>2. results' = Report(r) /\ r \in Result /\ r.rev = revision[TrackedKey]
    BY <2>0, <2>1 DEF Finish, Result
  <2> HIDE DEF r
  <2>3. \A s \in Seq(Result) : /\ Append(s, r) # <<>>
                               /\ Append(s, r)[Len(Append(s, r))] = r
    BY <2>2, AppendProperties
  <2>4. Len(results) < ResultCap \/ Tail(results) \in Seq(Result)
    <3>1. results # <<>> => Tail(results) \in Seq(Result)
      BY <2>0, HeadTailProperties
    <3>2. Len(results) < ResultCap \/ results # <<>>
      BY <2>0, SaverAssumption, EmptySeq
    <3>3. QED
      BY <3>1, <3>2
  <2>5. QED
    BY <2>0, <2>2, <2>3, <2>4 DEF Report
<1>2. QED
  BY <1>1, Invariance, PTL DEF Spec, ResultDelivered
==============================================================================
