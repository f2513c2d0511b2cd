----------------------------- MODULE StateSaver ------------------------------
(***************************************************************************)
(* internal/hostcall.StateSaver: the write-behind buffer through which the *)
(* timer, recorder, updates, kdeconnect, world-clock, calendar, aiusage    *)
(* and github-notifications plugins persist their state with state.set.    *)
(*                                                                         *)
(* Two goroutines drain it: the worker NewStateSaver starts, and the main  *)
(* goroutine inside Flush while the plugin shuts down.  They exclude each  *)
(* other with the `write' mutex; `mu' makes each access to pending and     *)
(* revision one atomic step.  The host reads the requests from a pipe in   *)
(* the order they were written, also those whose caller has given up.      *)
(* A saved value is represented by its revision.                           *)
(***************************************************************************)
EXTENDS Integers, Sequences

CONSTANTS Keys,        \* state.set keys, as the ranks sort.Strings gives them
          TrackedKey,  \* the key saved with SaveTracked; the others use Save
          ResultCap,   \* capacity of the results channel
          MaxRevision, \* bound: saves of one key
          MaxPipe,     \* bound: requests in the pipe the host has not read
          Hosts        \* may the host refuse a write, or a call time out?

ASSUME SaverAssumption == /\ Keys \subseteq Nat
                          /\ TrackedKey \in Keys
                          /\ ResultCap \in Nat \ {0}
                          /\ MaxRevision \in Nat
                          /\ MaxPipe \in Nat \ {0}
                          /\ Hosts \subseteq BOOLEAN

\* sort.Strings finds a first key in every batch.
ASSUME SortAssumption ==
  \A S \in SUBSET Keys : S # {} => \E k \in S : \A j \in S : k <= j

VARIABLES faults,     \* what the host is like: does it refuse, or let calls time out?
          revision,   \* s.revision: latest revision of each key
          pending,    \* s.pending: unsent revision of each key, 0 when absent
          signal,     \* a token waits in s.signal
          cancelled,  \* the plugin's context is cancelled
          reader,     \* the goroutine in Recv, which also decodes replies
          write,      \* holder of the write mutex, or "free"
          pc,         \* where each drainer is
          batch,      \* drain's local copy of pending, minus the keys done
          call,       \* state of the drainer's current state.set call
          pipe,       \* requests written and not yet handled by the host
          store,      \* revision of each key the host holds
          results     \* the results channel of TrackedKey

vars == <<faults, revision, pending, signal, cancelled, reader, write, pc, batch, call, pipe,
          store, results>>

Drainers == {"worker", "flush"}
\* As None, but with another value for "nothing".
NoneIsMinusOne == [k \in Keys |-> 0 - 1]

None == [k \in Keys |-> 0]
Request == [key : Keys, rev : Nat, live : BOOLEAN]
Result == [rev : Nat, ok : BOOLEAN]

\* drain handles the keys in sorted order.
Present(b) == {k \in Keys : b[k] # 0}
NextKey(b) == CHOOSE k \in Present(b) : \A j \in Present(b) : k <= j

TypeOK ==
  /\ faults \in Hosts
  /\ revision \in [Keys -> Nat]
  /\ pending \in [Keys -> Nat]
  /\ signal \in BOOLEAN
  /\ cancelled \in BOOLEAN
  /\ reader \in {"up", "stopped", "broken"}
  /\ write \in Drainers \cup {"free"}
  /\ pc \in [Drainers -> {"select", "lock", "drain", "done"}]
  /\ batch \in [Drainers -> [Keys -> Nat]]
  /\ call \in [Drainers -> {"none", "sent", "ok", "refused", "error"}]
  /\ pipe \in Seq(Request)
  /\ store \in [Keys -> Nat]
  /\ results \in Seq(Result)

Init ==
  /\ faults \in Hosts
  /\ revision = None
  /\ pending = None
  /\ signal = FALSE
  /\ cancelled = FALSE
  /\ reader = "up"
  /\ write = "free"
  /\ pc = [d \in Drainers |-> "select"]
  /\ batch = [d \in Drainers |-> None]
  /\ call = [d \in Drainers |-> "none"]
  /\ pipe = <<>>
  /\ store = None
  /\ results = <<>>

Running == pc["flush"] # "done"   \* run has not returned

-----------------------------------------------------------------------------
(* The event loop.                                                         *)

\* As Save, but the worker is not told.
SaveWithoutSignal(k) ==
  /\ pc["flush"] = "select"
  /\ revision[k] < MaxRevision
  /\ revision' = [revision EXCEPT ![k] = @ + 1]
  /\ pending' = [pending EXCEPT ![k] = revision'[k]]
  /\ UNCHANGED <<faults, signal, cancelled, write, pc, batch, call, pipe,
                 store, results, reader>>

\* enqueue: replace the unsent value of k and wake the worker.  Only the event
\* loop saves, so no Save runs once it is inside Flush.
Save(k) ==
  /\ pc["flush"] = "select"
  /\ revision[k] < MaxRevision
  /\ revision' = [revision EXCEPT ![k] = @ + 1]
  /\ pending' = [pending EXCEPT ![k] = revision'[k]]
  /\ signal' = TRUE
  /\ UNCHANGED <<faults, cancelled, write, pc, batch, call, pipe, store, results, reader>>

\* Recv fails: the connection is gone, and the reader cancels the context.
RecvFails ==
  /\ Running
  /\ reader = "up"
  /\ reader' = "broken"
  /\ cancelled' = TRUE
  /\ UNCHANGED <<faults, revision, pending, signal, write, pc, batch, call, pipe,
                 store, results>>

\* A message arrives after the cancellation: the reader may leave its select
\* through ctx.Done, and no reply is decoded any more.
ReaderStops ==
  /\ Running
  /\ reader = "up"
  /\ cancelled
  /\ reader' = "stopped"
  /\ UNCHANGED <<faults, revision, pending, signal, cancelled, write, pc, batch, call, pipe,
                 store, results>>

\* run returns (host.shutdown or a cancelled context): its deferred function
\* cancels the context and calls Flush.
Shutdown ==
  /\ pc["flush"] = "select"
  /\ cancelled' = TRUE
  /\ pc' = [pc EXCEPT !["flush"] = "lock"]
  /\ UNCHANGED <<faults, revision, pending, signal, write, batch, call, pipe,
                 store, results, reader>>

\* The event loop reads one result.
ReadResult ==
  /\ pc["flush"] = "select"
  /\ results # <<>>
  /\ results' = Tail(results)
  /\ UNCHANGED <<faults, revision, pending, signal, cancelled, write, pc, batch, call, pipe,
                 store, reader>>

-----------------------------------------------------------------------------
(* The worker's select.                                                    *)

WorkerWake ==
  /\ Running
  /\ pc["worker"] = "select"
  /\ signal
  /\ signal' = FALSE
  /\ pc' = [pc EXCEPT !["worker"] = "lock"]
  /\ UNCHANGED <<faults, revision, pending, cancelled, write, batch, call, pipe,
                 store, results, reader>>

WorkerStop ==
  /\ Running
  /\ pc["worker"] = "select"
  /\ cancelled
  /\ pc' = [pc EXCEPT !["worker"] = "done"]
  /\ UNCHANGED <<faults, revision, pending, signal, cancelled, write, batch, call, pipe,
                 store, results, reader>>

-----------------------------------------------------------------------------
(* drain, run by the worker and by Flush.                                  *)

\* As Lock, but a mutex that is held is not waited for.
LockIgnored(d) ==
  /\ Running
  /\ pc[d] = "lock"
  /\ write' = d
  /\ batch' = [batch EXCEPT ![d] = pending]
  /\ pending' = None
  /\ pc' = [pc EXCEPT ![d] = "drain"]
  /\ UNCHANGED <<faults, revision, signal, cancelled, call, pipe, store, results, reader>>

\* Take the write mutex, then every pending value.
Lock(d) ==
  /\ Running
  /\ pc[d] = "lock"
  /\ write = "free"
  /\ write' = d
  /\ batch' = [batch EXCEPT ![d] = pending]
  /\ pending' = None
  /\ pc' = [pc EXCEPT ![d] = "drain"]
  /\ UNCHANGED <<faults, revision, signal, cancelled, call, pipe, store, results, reader>>

\* Write the next request to the pipe.
Send(d) ==
  /\ Running
  /\ pc[d] = "drain"
  /\ call[d] = "none"
  /\ Present(batch[d]) # {}
  /\ Len(pipe) < MaxPipe
  /\ LET k == NextKey(batch[d])
     IN  pipe' = Append(pipe, [key |-> k, rev |-> batch[d][k], live |-> TRUE])
  /\ call' = [call EXCEPT ![d] = "sent"]
  /\ UNCHANGED <<faults, revision, pending, signal, cancelled, write, pc, batch,
                 store, results, reader>>

\* A call may fail before its request is written when the worker's context is
\* cancelled, the connection is gone, or the pipe blocks for the whole deadline.
SendFails(d) ==
  /\ Running
  /\ pc[d] = "drain"
  /\ call[d] = "none"
  /\ Present(batch[d]) # {}
  /\ faults \/ reader = "broken" \/ (d = "worker" /\ cancelled)
  /\ call' = [call EXCEPT ![d] = "error"]
  /\ UNCHANGED <<faults, revision, pending, signal, cancelled, write, pc, batch, pipe,
                 store, results, reader>>

\* The call's context ends first: the deadline, which nothing prevents once
\* the reader is gone, or for the worker the cancelled plugin context.  The
\* request stays in the pipe; the reply to it will be dropped.
GiveUp(d) ==
  /\ Running
  /\ call[d] = "sent"
  /\ faults \/ reader # "up" \/ (d = "worker" /\ cancelled)
  /\ call' = [call EXCEPT ![d] = "error"]
  /\ pipe' = [i \in DOMAIN pipe |-> [pipe[i] EXCEPT !.live = FALSE]]
  /\ UNCHANGED <<faults, revision, pending, signal, cancelled, write, pc, batch,
                 store, results, reader>>

\* The select ladder at the end of drain: drop the oldest result when the
\* channel is full, never block.
Report(r) == IF Len(results) < ResultCap THEN Append(results, r)
                                         ELSE Append(Tail(results), r)

Keep(k, r) == IF revision[k] = r THEN [pending EXCEPT ![k] = r] ELSE pending

\* As Finish, but a write that failed is not put back.
FinishForgets(d) ==
  /\ Running
  /\ call[d] \in {"ok", "refused", "error"}
  /\ LET k == NextKey(batch[d])
         r == batch[d][k]
     IN  /\ results' = IF k = TrackedKey /\ revision[k] = r
                       THEN Report([rev |-> r, ok |-> call[d] = "ok"]) ELSE results
         /\ batch' = [batch EXCEPT ![d][k] = 0]
  /\ call' = [call EXCEPT ![d] = "none"]
  /\ UNCHANGED <<faults, revision, pending, signal, cancelled, write, pc, pipe, store, reader>>

\* The call returned.  A failed write goes back to pending unless a newer Save
\* superseded it; the result is reported only for the latest revision.
Finish(d) ==
  /\ Running
  /\ call[d] \in {"ok", "refused", "error"}
  /\ LET k == NextKey(batch[d])
         r == batch[d][k]
     IN  /\ pending' = IF call[d] = "ok" THEN pending ELSE Keep(k, r)
         /\ results' = IF k = TrackedKey /\ revision[k] = r
                       THEN Report([rev |-> r, ok |-> call[d] = "ok"]) ELSE results
         /\ batch' = [batch EXCEPT ![d][k] = 0]
  /\ call' = [call EXCEPT ![d] = "none"]
  /\ UNCHANGED <<faults, revision, signal, cancelled, write, pc, pipe, store, reader>>

\* The batch is done: release the mutex.  Flush returns and the process ends.
Unlock(d) ==
  /\ Running
  /\ pc[d] = "drain"
  /\ call[d] = "none"
  /\ Present(batch[d]) = {}
  /\ write' = "free"
  /\ pc' = [pc EXCEPT ![d] = IF d = "worker" THEN "select" ELSE "done"]
  /\ UNCHANGED <<faults, revision, pending, signal, cancelled, batch, call, pipe,
                 store, results, reader>>

-----------------------------------------------------------------------------
(* The host, external: it handles one request at a time in pipe order, and *)
(* its reply reaches the caller if that one still waits and the reader is  *)
(* there to decode it.                                                     *)

Answer(reply) ==
  call' = [d \in Drainers |->
             IF reader = "up" /\ Head(pipe).live /\ call[d] = "sent" THEN reply ELSE call[d]]

HostStores ==
  /\ pipe # <<>>
  /\ store' = [store EXCEPT ![Head(pipe).key] = Head(pipe).rev]
  /\ pipe' = Tail(pipe)
  /\ Answer("ok")
  /\ UNCHANGED <<faults, revision, pending, signal, cancelled, write, pc, batch, results, reader>>

HostRefuses ==
  /\ faults
  /\ pipe # <<>>
  /\ pipe' = Tail(pipe)
  /\ Answer("refused")
  /\ UNCHANGED <<faults, revision, pending, signal, cancelled, write, pc, batch,
                 store, results, reader>>

-----------------------------------------------------------------------------
Drain(d) == Lock(d) \/ Send(d) \/ SendFails(d) \/ GiveUp(d) \/ Finish(d) \/ Unlock(d)

Next ==
  \/ \E k \in Keys : Save(k)
  \/ RecvFails
  \/ ReaderStops
  \/ Shutdown
  \/ ReadResult
  \/ WorkerWake
  \/ WorkerStop
  \/ \E d \in Drainers : Drain(d)
  \/ HostStores
  \/ HostRefuses

\* Goroutines are scheduled, the host reads its pipe, and context.WithTimeout
\* ends every call.  Nothing forces a Save, a shutdown or a fault.
Fairness ==
  /\ WF_vars(WorkerWake \/ WorkerStop)
  /\ \A d \in Drainers : WF_vars(Drain(d))
  /\ WF_vars(HostStores)

Spec == Init /\ [][Next]_vars /\ Fairness

-----------------------------------------------------------------------------
(* Properties.                                                             *)

\* The two drainers never work at the same time: whoever is past Lock is the
\* holder of the write mutex.  Everything else rests on this.
DrainersExclude == \A d \in Drainers : pc[d] = "drain" <=> write = d

\* The latest value of a key is never dropped: until the host holds it, it is
\* unsent or being sent, whatever calls timed out, were refused, or were
\* interrupted by the shutdown ("Keep failed writes available for shutdown
\* Flush. A newer Save has its own pending value").
LatestKept ==
  \A k \in Keys : \/ pending[k] = revision[k]
                  \/ \E d \in Drainers : batch[d][k] = revision[k]
                  \/ store[k] = revision[k]

\* An unsent value is the latest one: a failed older write never takes the
\* place of a newer Save.
PendingIsLatest == \A k \in Keys : pending[k] \in {0, revision[k]}

\* The host never goes back to an older value of a key, although requests
\* whose call timed out are still applied later.
NoRegression == [][\A k \in Keys : store'[k] >= store[k]]_store

\* A plugin that exits in order, with a host that takes every request, leaves
\* the latest value of each key stored or at least on the wire: the write that
\* the shutdown interrupted included, and whether or not a reply is decoded.
FlushedIsStored ==
  (pc["flush"] = "done" /\ ~faults /\ reader # "broken") =>
    \A k \in Keys :
      \/ store[k] = revision[k]
      \/ \E i \in DOMAIN pipe : pipe[i].key = k /\ pipe[i].rev = revision[k]

\* A finished tracked write is the last entry or was read by the event loop:
\* no Finish leaves the channel without the result it reports.
ResultDelivered ==
  [][\A d \in Drainers :
       (/\ call[d] # "none" /\ call'[d] = "none"
        /\ NextKey(batch[d]) = TrackedKey
        /\ batch[d][TrackedKey] = revision[TrackedKey])
       => (results' # <<>> /\ results'[Len(results')].rev = revision[TrackedKey])]_vars

\* Flush always returns: every call is bounded, and the worker cannot keep the
\* mutex.
FlushReturns == (pc["flush"] = "lock") ~> (pc["flush"] = "done")

\* With a host that answers, every save is stored (at that or a newer
\* revision) while the plugin runs, without waiting for the shutdown, unless
\* the context is cancelled under it.
SavesReachHost ==
  ~faults => \A k \in Keys : \A r \in 1 .. MaxRevision :
               (revision[k] = r) ~> (store[k] >= r \/ cancelled)

\* What Save and Flush promise (state_saver.go): every tracked write reports, Flush comes
\* back, and without a fault every save is stored.
SavesEnd == ResultDelivered /\ FlushReturns /\ SavesReachHost

\* StateSaver implements one register per key.
Abstract == INSTANCE LatestValue
              WITH saved <- revision, stored <- store, closed <- pc["flush"] = "done"
ImplementsLatestValue == Abstract!Spec
=============================================================================
