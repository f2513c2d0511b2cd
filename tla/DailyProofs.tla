----------------------------- MODULE DailyProofs -----------------------------
(***************************************************************************)
(* Proofs about four plugins of the daily desktop, for any number of       *)
(* clicks, settings changes and failures, and any times and readings.      *)
(*                                                                         *)
(* - github-notifications: no refresh request is lost, and "Refreshing" is *)
(*   shown exactly while one is outstanding, for any threads, page sizes   *)
(*   and events.                                                           *)
(* - privacy audit: a view that shows a scan has one.                      *)
(* - faith: the note, the translation and the bag of verses go with what   *)
(*   was asked for last.  FaithInv ties what is asked, what is loading and *)
(*   what is shown; that a verse of the day is always found rests on what  *)
(*   the pool and the translations carry (FaithAssumption).                *)
(* - AI usage: an alert comes once a window, and a panel that loads has a  *)
(*   round on its way.  AiInv orders what is asked of the worker, and says *)
(*   that the ledger, saved and read, covers what was notified.            *)
(***************************************************************************)
EXTENDS GithubNotifications, PrivacyPlugin, Faith, AiUsage, FiniteSetTheorems, SequenceTheorems,
        TLAPS

Refresh == Job("refresh", NoThread)
CoordRecord(S) ==
  [queue : Seq(S), running : BOOLEAN, pending : BOOLEAN, wake : BOOLEAN, awake : BOOLEAN]

LoopTypeOK ==
  /\ \E S : coord \in CoordRecord(S)
  /\ \E S : completed \in Seq(S)
  /\ loop \in [refreshing : BOOLEAN, cacheLoaded : BOOLEAN, pendingRefresh : BOOLEAN]
  /\ "op" \in DOMAIN job
  /\ \A j \in ToSet(coord.queue) : "op" \in DOMAIN j

(***************************************************************************)
(* A request is only noted until the cache is there, and no refresh begins *)
(* before.  Without that a refresh that ends could clear the flag of a     *)
(* request that still waits for the cache.                                 *)
(***************************************************************************)
NoneBeforeCache ==
  /\ loop.pendingRefresh => ~loop.cacheLoaded
  /\ \/ coord.running
     \/ job.op = "refresh"
     \/ \E j \in ToSet(coord.queue) : j.op = "refresh"
     \/ "refresh" \in ToSet(completed)
     => loop.cacheLoaded

RefreshInv == LoopTypeOK /\ NoneBeforeCache /\ SpinnerHonest /\ RequestNotLost

-----------------------------------------------------------------------------
(* Sequences.                                                              *)

LEMMA AppendElements ==
  ASSUME NEW S, NEW s \in Seq(S), NEW e
  PROVE  /\ Append(s, e) \in Seq(S \cup {e})
         /\ ToSet(Append(s, e)) = ToSet(s) \cup {e}
<1> DEFINE T == S \cup {e}
<1>1. s \in Seq(T) /\ e \in T
  BY SeqMonotonic
<1>2. /\ Append(s, e) \in Seq(T) /\ Len(s) \in Nat /\ Len(Append(s, e)) = Len(s) + 1
      /\ \A i \in 1..Len(s) : Append(s, e)[i] = s[i]
      /\ Append(s, e)[Len(s) + 1] = e
      /\ DOMAIN s = 1..Len(s) /\ DOMAIN Append(s, e) = 1..(Len(s) + 1)
  <2> HIDE DEF T
  <2> QED
    BY <1>1, AppendProperties, LenProperties
<1>3. QED
  BY <1>2 DEF ToSet

LEMMA TailElements ==
  ASSUME NEW S, NEW s \in Seq(S), s # <<>>
  PROVE  Tail(s) \in Seq(S) /\ ToSet(s) = {Head(s)} \cup ToSet(Tail(s))
<1>1. /\ Tail(s) \in Seq(S) /\ Len(s) \in Nat \ {0} /\ Len(Tail(s)) = Len(s) - 1
      /\ \A i \in 1..(Len(s) - 1) : Tail(s)[i] = s[i + 1]
      /\ Head(s) = s[1]
      /\ DOMAIN s = 1..Len(s) /\ DOMAIN Tail(s) = 1..(Len(s) - 1)
  <2>1. Len(s) \in Nat /\ Len(s) # 0
    BY LenProperties, EmptySeq
  <2>2. Tail(s) \in Seq(S) /\ Len(Tail(s)) = Len(s) - 1
        /\ \A i \in 1..Len(Tail(s)) : Tail(s)[i] = s[i + 1]
    BY HeadTailProperties
  <2>3. DOMAIN s = 1..Len(s) /\ DOMAIN Tail(s) = 1..Len(Tail(s))
    BY <2>2, LenProperties
  <2>4. Head(s) = s[1]
    OBVIOUS
  <2>5. QED
    BY <2>1, <2>2, <2>3, <2>4
<1>2. \A i \in 1..Len(s) : i = 1 \/ (i - 1 \in 1..(Len(s) - 1) /\ s[i] = Tail(s)[i - 1])
  BY <1>1
<1>3. ASSUME NEW i \in DOMAIN s PROVE s[i] \in {Head(s)} \cup ToSet(Tail(s))
  <2>1. CASE i = 1
    BY <1>1, <2>1
  <2>2. CASE i # 1
    BY <1>1, <1>2, <2>2 DEF ToSet
  <2>3. QED
    BY <2>1, <2>2
<1>4. {Head(s)} \cup ToSet(Tail(s)) \subseteq ToSet(s)
  BY <1>1 DEF ToSet
<1>5. QED
  BY <1>1, <1>3, <1>4 DEF ToSet

\* A job is submitted to a coordinator.
LEMMA SubmitCoord ==
  ASSUME NEW S, NEW c \in CoordRecord(S), NEW j
  PROVE  /\ Submit(c, j) \in CoordRecord(S \cup {j})
         /\ Submit(c, j).running = c.running /\ Submit(c, j).pending = c.pending
         /\ ToSet(Submit(c, j).queue) = ToSet(c.queue) \cup {j}
<1>1. c.queue \in Seq(S)
  BY DEF CoordRecord
<1>2. /\ Append(c.queue, j) \in Seq(S \cup {j})
      /\ ToSet(Append(c.queue, j)) = ToSet(c.queue) \cup {j}
  BY <1>1, AppendElements
<1>3. Submit(c, j).queue = Append(c.queue, j)
  BY DEF Submit, CoordRecord
<1>4. QED
  BY <1>2, <1>3 DEF Submit, CoordRecord

LEMMA RefreshJob == Refresh.op = "refresh" /\ DOMAIN Refresh = {"op", "thread", "at", "size", "before"}
BY DEF Refresh, Job

\* RequestRefresh leaves a refresh waiting or pending, and the coordinator running.
LEMMA RequestCoord ==
  ASSUME NEW S, NEW c \in CoordRecord(S)
  PROVE  /\ \E T : RequestRefresh(c) \in CoordRecord(T)
         /\ RequestRefresh(c).running
         /\ RequestRefresh(c).pending \/ Refresh \in ToSet(RequestRefresh(c).queue)
         /\ ToSet(RequestRefresh(c).queue) \subseteq ToSet(c.queue) \cup {Refresh}
<1>1. CASE c.running
  <2>1. RequestRefresh(c) = [c EXCEPT !.pending = TRUE]
    BY <1>1 DEF RequestRefresh
  <2>2. QED
    BY <1>1, <2>1 DEF CoordRecord
<1>2. CASE ~c.running
  <2> DEFINE s == Submit(c, Refresh)
  <2>1. RequestRefresh(c) = [s EXCEPT !.running = TRUE]
    BY <1>2 DEF RequestRefresh, Refresh
  <2>2. s \in CoordRecord(S \cup {Refresh}) /\ ToSet(s.queue) = ToSet(c.queue) \cup {Refresh}
    BY SubmitCoord
  <2> HIDE DEF s
  <2>3. QED
    BY <2>1, <2>2 DEF CoordRecord
<1>3. QED
  BY <1>1, <1>2

\* FinishRefresh queues the follow-up of a request that came meanwhile.
LEMMA FinishCoord ==
  ASSUME NEW S, NEW c \in CoordRecord(S)
  PROVE  /\ \E T : FinishRefresh(c) \in CoordRecord(T)
         /\ FinishRefresh(c).running => c.running
         /\ c.pending => Refresh \in ToSet(FinishRefresh(c).queue) /\ FinishRefresh(c).running = c.running
         /\ ~FinishRefresh(c).pending
         /\ ToSet(c.queue) \subseteq ToSet(FinishRefresh(c).queue)
         /\ ToSet(FinishRefresh(c).queue) \subseteq
              ToSet(c.queue) \cup (IF c.pending THEN {Refresh} ELSE {})
<1>1. CASE c.pending
  <2> DEFINE s == Submit(c, Refresh)
  <2>1. FinishRefresh(c) = [s EXCEPT !.pending = FALSE]
    BY <1>1 DEF FinishRefresh, Refresh
  <2>2. /\ s \in CoordRecord(S \cup {Refresh}) /\ ToSet(s.queue) = ToSet(c.queue) \cup {Refresh}
        /\ s.running = c.running
    BY SubmitCoord
  <2> HIDE DEF s
  <2>3. QED
    BY <1>1, <2>1, <2>2 DEF CoordRecord
<1>2. CASE ~c.pending
  BY <1>2 DEF FinishRefresh, CoordRecord
<1>3. QED
  BY <1>1, <1>2

-----------------------------------------------------------------------------
(* The steps.                                                              *)

LEMMA RefreshInit == GithubInit => RefreshInv
<1> SUFFICES ASSUME GithubInit PROVE RefreshInv
  OBVIOUS
<1>1. /\ coord = IdleCoord /\ job = NoJob /\ completed = <<>>
      /\ loop = [refreshing |-> TRUE, cacheLoaded |-> FALSE, pendingRefresh |-> TRUE]
  BY DEF GithubInit
<1>2. ToSet(<<>>) = {} /\ <<>> \in Seq({})
  BY DEF ToSet
<1>3. coord \in CoordRecord({}) /\ ~coord.running /\ ToSet(coord.queue) = {}
  BY <1>1, <1>2 DEF CoordRecord, IdleCoord
<1>4. "op" \in DOMAIN job /\ job.op = "none"
  BY <1>1 DEF NoJob, Job
<1>5. QED
  BY <1>1, <1>2, <1>3, <1>4
     DEF RefreshInv, LoopTypeOK, NoneBeforeCache, SpinnerHonest, RequestNotLost

\* The process starts again as it did at first.
LEMMA RestartStep == RefreshInv /\ RestartNotifications => RefreshInv'
<1> SUFFICES ASSUME RefreshInv, RestartNotifications PROVE RefreshInv'
  OBVIOUS
<1>1. /\ coord' = IdleCoord /\ job' = NoJob /\ completed' = <<>>
      /\ loop' = [refreshing |-> TRUE, cacheLoaded |-> FALSE, pendingRefresh |-> TRUE]
  BY DEF RestartNotifications, Start
<1>2. ToSet(<<>>) = {} /\ <<>> \in Seq({})
  BY DEF ToSet
<1>3. coord' \in CoordRecord({}) /\ ~coord'.running /\ ToSet(coord'.queue) = {}
  BY <1>1, <1>2 DEF CoordRecord, IdleCoord
<1>4. "op" \in DOMAIN job' /\ job'.op = "none"
  BY <1>1 DEF NoJob, Job
<1>5. QED
  BY <1>1, <1>2, <1>3, <1>4
     DEF RefreshInv, LoopTypeOK, NoneBeforeCache, SpinnerHonest, RequestNotLost

\* A request: it waits for the cache, or with the coordinator.
LEMMA RequestStep ==
  ASSUME RefreshInv, NEW l \in [refreshing : BOOLEAN, cacheLoaded : BOOLEAN, pendingRefresh : BOOLEAN],
         loop.cacheLoaded => l.cacheLoaded,
         Request(l, coord), UNCHANGED <<job, completed>>
  PROVE  RefreshInv'
<1>1. PICK S : coord \in CoordRecord(S)
  BY DEF RefreshInv, LoopTypeOK
<1>2. /\ loop' \in [refreshing : BOOLEAN, cacheLoaded : BOOLEAN, pendingRefresh : BOOLEAN]
      /\ loop'.refreshing /\ loop'.cacheLoaded = l.cacheLoaded
      /\ loop'.pendingRefresh = ~l.cacheLoaded
  BY DEF Request
<1>3. /\ \E T : coord' \in CoordRecord(T)
      /\ ToSet(coord'.queue) \subseteq ToSet(coord.queue) \cup {Refresh}
      /\ l.cacheLoaded =>
           coord'.running /\ (coord'.pending \/ Refresh \in ToSet(coord'.queue))
      /\ ~l.cacheLoaded => coord' = coord
  BY <1>1, RequestCoord DEF Request
<1>4. LoopTypeOK'
  BY <1>2, <1>3, RefreshJob DEF RefreshInv, LoopTypeOK
<1>5. NoneBeforeCache' /\ SpinnerHonest'
  BY <1>2, <1>3 DEF RefreshInv, NoneBeforeCache, SpinnerHonest
<1>6. RequestNotLost'
  BY <1>2, <1>3 DEF RequestNotLost, Refresh
<1>7. QED
  BY <1>4, <1>5, <1>6 DEF RefreshInv

LEMMA CacheStep == RefreshInv /\ CacheArrives => RefreshInv'
<1> SUFFICES ASSUME RefreshInv, CacheArrives PROVE RefreshInv'
  OBVIOUS
<1> DEFINE l == [loop EXCEPT !.cacheLoaded = TRUE]
<1>1. /\ l \in [refreshing : BOOLEAN, cacheLoaded : BOOLEAN, pendingRefresh : BOOLEAN]
      /\ l.cacheLoaded /\ l.refreshing = loop.refreshing /\ l.pendingRefresh = loop.pendingRefresh
  BY DEF RefreshInv, LoopTypeOK
<1>2. UNCHANGED <<job, completed>>
  BY DEF CacheArrives
<1>3. CASE loop.pendingRefresh
  <2>1. Request(l, coord)
    BY <1>3 DEF CacheArrives
  <2> HIDE DEF l
  <2>2. QED
    BY <1>1, <1>2, <2>1, RequestStep
<1>4. CASE ~loop.pendingRefresh
  <2>1. loop' = l /\ UNCHANGED <<coord, unserved>>
    BY <1>4 DEF CacheArrives
  <2> HIDE DEF l
  <2>2. QED
    BY <1>1, <1>2, <1>4, <2>1
       DEF RefreshInv, LoopTypeOK, NoneBeforeCache, SpinnerHonest, RequestNotLost
<1>5. QED
  BY <1>3, <1>4

\* A refresh that is popped is one that begins after every request so far.
LEMMA PopStep == RefreshInv /\ Pop => RefreshInv'
<1> SUFFICES ASSUME RefreshInv, Pop PROVE RefreshInv'
  OBVIOUS
<1>1. UNCHANGED <<completed, loop>>
  BY DEF Pop
<1>2. PICK S : coord \in CoordRecord(S)
  BY DEF RefreshInv, LoopTypeOK
<1>3. CASE coord.queue = <<>>
  <2>1. coord' = [coord EXCEPT !.awake = FALSE] /\ UNCHANGED <<job, unserved>>
    BY <1>3 DEF Pop
  <2>2. /\ coord' \in CoordRecord(S) /\ coord'.queue = coord.queue
        /\ coord'.running = coord.running /\ coord'.pending = coord.pending
    BY <1>2, <2>1 DEF CoordRecord
  <2>3. QED
    BY <1>1, <2>1, <2>2
       DEF RefreshInv, LoopTypeOK, NoneBeforeCache, SpinnerHonest, RequestNotLost
<1>4. CASE coord.queue # <<>>
  <2> DEFINE head == Head(coord.queue)
  <2>1. /\ coord' = [coord EXCEPT !.queue = Tail(coord.queue)] /\ job' = head
        /\ unserved' = (unserved /\ head.op # "refresh")
    BY <1>4 DEF Pop
  <2>2. coord.queue \in Seq(S)
    BY <1>2 DEF CoordRecord
  <2>3. /\ Tail(coord.queue) \in Seq(S)
        /\ ToSet(coord.queue) = {head} \cup ToSet(Tail(coord.queue))
    BY <1>4, <2>2, TailElements
  <2> HIDE DEF head
  <2>4. /\ coord' \in CoordRecord(S) /\ coord'.queue = Tail(coord.queue)
        /\ coord'.running = coord.running /\ coord'.pending = coord.pending
    BY <1>2, <2>1, <2>3 DEF CoordRecord
  <2>5. LoopTypeOK'
    BY <1>1, <2>1, <2>3, <2>4 DEF RefreshInv, LoopTypeOK
  <2>6. NoneBeforeCache' /\ SpinnerHonest'
    BY <1>1, <2>1, <2>3, <2>4 DEF RefreshInv, NoneBeforeCache, SpinnerHonest
  <2>7. RequestNotLost'
    BY <1>1, <2>1, <2>3, <2>4, RefreshJob DEF RefreshInv, RequestNotLost, Refresh
  <2>8. QED
    BY <2>5, <2>6, <2>7 DEF RefreshInv
<1>5. QED
  BY <1>3, <1>4

LEMMA JobEndsStep ==
  ASSUME RefreshInv, JobEnds, UNCHANGED <<loop, unserved>>
  PROVE  RefreshInv'
<1>1. PICK S : coord \in CoordRecord(S)
  BY DEF RefreshInv, LoopTypeOK
<1>2. PICK T : completed \in Seq(T)
  BY DEF RefreshInv, LoopTypeOK
<1>3. completed' \in Seq(T \cup {job.op}) /\ ToSet(completed') = ToSet(completed) \cup {job.op}
  BY <1>2, AppendElements DEF JobEnds
<1>4. "op" \in DOMAIN job' /\ job'.op = "none"
  BY DEF JobEnds, NoJob, Job
<1>5. CASE job.op # "refresh"
  <2>1. UNCHANGED coord
    BY <1>5 DEF JobEnds
  <2>2. QED
    BY <1>3, <1>4, <1>5, <2>1
       DEF RefreshInv, LoopTypeOK, NoneBeforeCache, SpinnerHonest, RequestNotLost
<1>6. CASE job.op = "refresh"
  <2>1. coord' = FinishRefresh(coord)
    BY <1>6 DEF JobEnds
  <2>2. /\ \E U : coord' \in CoordRecord(U)
        /\ coord'.running => coord.running
        /\ coord.pending => Refresh \in ToSet(coord'.queue) /\ coord'.running = coord.running
        /\ ToSet(coord.queue) \subseteq ToSet(coord'.queue)
        /\ ToSet(coord'.queue) \subseteq ToSet(coord.queue) \cup {Refresh}
    BY <1>1, <2>1, FinishCoord
  <2>3. loop.cacheLoaded /\ ~loop.pendingRefresh
    BY <1>6 DEF RefreshInv, NoneBeforeCache
  <2>4. LoopTypeOK'
    BY <1>3, <1>4, <2>2, RefreshJob DEF RefreshInv, LoopTypeOK
  <2>5. NoneBeforeCache' /\ SpinnerHonest'
    BY <1>3, <1>6, <2>2, <2>3 DEF RefreshInv, NoneBeforeCache, SpinnerHonest
  <2>6. RequestNotLost'
    BY <2>2 DEF RefreshInv, RequestNotLost, Refresh
  <2>7. QED
    BY <2>4, <2>5, <2>6 DEF RefreshInv
<1>7. QED
  BY <1>5, <1>6

\* A job goes on, or the loop wakes or shows its progress.
LEMMA JobGoesOn ==
  ASSUME RefreshInv, UNCHANGED <<coord, completed, loop, unserved>>,
         "op" \in DOMAIN job', job'.op = job.op
  PROVE  RefreshInv'
BY DEF RefreshInv, LoopTypeOK, NoneBeforeCache, SpinnerHonest, RequestNotLost

LEMMA JobStep == RefreshInv /\ (StartJob \/ Loaded \/ Marked \/ Progress) => RefreshInv'
<1> SUFFICES ASSUME RefreshInv, StartJob \/ Loaded \/ Marked \/ Progress PROVE RefreshInv'
  OBVIOUS
<1> DEFINE GoesOn == /\ UNCHANGED <<coord, completed>>
                     /\ "op" \in DOMAIN job' /\ job'.op = job.op
<1>1. "op" \in DOMAIN job
  BY DEF RefreshInv, LoopTypeOK
<1>2. ASSUME StartJob PROVE UNCHANGED <<loop, unserved>> /\ (JobEnds \/ GoesOn)
  BY <1>1, <1>2 DEF StartJob, Calls, historyVars
<1>3. ASSUME Loaded PROVE UNCHANGED <<loop, unserved>> /\ (JobEnds \/ GoesOn)
  BY <1>1, <1>3 DEF Loaded
<1>4. ASSUME Marked PROVE UNCHANGED <<loop, unserved>> /\ JobEnds
  BY <1>4 DEF Marked
<1>5. ASSUME Progress PROVE UNCHANGED <<loop, unserved>> /\ GoesOn
  BY <1>1, <1>5 DEF Progress, historyVars
<1>6. QED
  BY <1>2, <1>3, <1>4, <1>5, JobEndsStep, JobGoesOn

\* "Refreshing" goes only when the refresh that completed was the last.
LEMMA CompleteStep == RefreshInv /\ Complete => RefreshInv'
<1> SUFFICES ASSUME RefreshInv, Complete PROVE RefreshInv'
  OBVIOUS
<1>1. UNCHANGED <<coord, job, unserved>> /\ completed # <<>> /\ completed' = Tail(completed)
  BY DEF Complete, historyVars
<1>2. PICK S : completed \in Seq(S)
  BY DEF RefreshInv, LoopTypeOK
<1>3. completed' \in Seq(S) /\ ToSet(completed) = {Head(completed)} \cup ToSet(completed')
  BY <1>1, <1>2, TailElements
<1>4. CASE Head(completed) = "refresh"
  <2>1. loop' = [loop EXCEPT !.refreshing = coord.running]
    BY <1>4 DEF Complete, Refreshing
  <2>2. coord.running \in BOOLEAN
    BY DEF RefreshInv, LoopTypeOK, CoordRecord
  <2>3. /\ loop' \in [refreshing : BOOLEAN, cacheLoaded : BOOLEAN, pendingRefresh : BOOLEAN]
        /\ loop'.refreshing = coord.running /\ loop'.cacheLoaded = loop.cacheLoaded
        /\ loop'.pendingRefresh = loop.pendingRefresh
    BY <2>1, <2>2 DEF RefreshInv, LoopTypeOK
  <2>4. loop.cacheLoaded /\ ~loop.pendingRefresh
    BY <1>3, <1>4 DEF RefreshInv, NoneBeforeCache
  <2>5. QED
    BY <1>1, <1>3, <2>3, <2>4
       DEF RefreshInv, LoopTypeOK, NoneBeforeCache, SpinnerHonest, RequestNotLost
<1>5. CASE Head(completed) # "refresh"
  <2>1. UNCHANGED loop
    BY <1>5 DEF Complete
  <2>2. QED
    BY <1>1, <1>3, <1>5, <2>1
       DEF RefreshInv, LoopTypeOK, NoneBeforeCache, SpinnerHonest, RequestNotLost
<1>6. QED
  BY <1>4, <1>5

\* A click queues a job that is not a refresh.
LEMMA ClickStep == RefreshInv /\ Clicks => RefreshInv'
<1> SUFFICES ASSUME RefreshInv, Clicks PROVE RefreshInv'
  OBVIOUS
<1>1. PICK j : /\ \E op \in {"read", "all", "more"} : \E t : j = Job(op, t)
               /\ coord' = Submit(coord, j)
  BY DEF Clicks
<1>2. j.op # "refresh" /\ "op" \in DOMAIN j
  BY <1>1 DEF Job
<1>3. PICK S : coord \in CoordRecord(S)
  BY DEF RefreshInv, LoopTypeOK
<1>4. /\ coord' \in CoordRecord(S \cup {j})
      /\ coord'.running = coord.running /\ coord'.pending = coord.pending
      /\ ToSet(coord'.queue) = ToSet(coord.queue) \cup {j}
  BY <1>1, <1>3, SubmitCoord
<1>5. UNCHANGED <<job, completed, loop, unserved>>
  BY DEF Clicks
<1>6. LoopTypeOK'
  BY <1>2, <1>4, <1>5 DEF RefreshInv, LoopTypeOK
<1>7. NoneBeforeCache' /\ SpinnerHonest' /\ RequestNotLost'
  BY <1>2, <1>4, <1>5 DEF RefreshInv, NoneBeforeCache, SpinnerHonest, RequestNotLost
<1>8. QED
  BY <1>6, <1>7 DEF RefreshInv

LEMMA WakeStep == RefreshInv /\ Wake => RefreshInv'
<1> SUFFICES ASSUME RefreshInv, Wake PROVE RefreshInv'
  OBVIOUS
<1>1. PICK S : coord \in CoordRecord(S)
  BY DEF RefreshInv, LoopTypeOK
<1>2. /\ coord' = [coord EXCEPT !.awake = TRUE, !.wake = FALSE]
      /\ UNCHANGED <<job, completed, loop, unserved>>
  BY DEF Wake, historyVars
<1>3. /\ coord' \in CoordRecord(S) /\ coord'.queue = coord.queue
      /\ coord'.running = coord.running /\ coord'.pending = coord.pending
  BY <1>1, <1>2 DEF CoordRecord
<1>4. QED
  BY <1>2, <1>3 DEF RefreshInv, LoopTypeOK, NoneBeforeCache, SpinnerHonest, RequestNotLost

LEMMA RefreshNext == RefreshInv /\ [GithubNext]_allGithubVars => RefreshInv'
<1> SUFFICES ASSUME RefreshInv, [GithubNext]_allGithubVars PROVE RefreshInv'
  OBVIOUS
<1>1. loop \in [refreshing : BOOLEAN, cacheLoaded : BOOLEAN, pendingRefresh : BOOLEAN]
  BY DEF RefreshInv, LoopTypeOK
<1>2. ASSUME AsksRefresh \/ SetPerPage PROVE RefreshInv'
  BY <1>1, <1>2, RequestStep DEF AsksRefresh, SetPerPage
<1>3. ASSUME Elsewhere \/ UNCHANGED allGithubVars PROVE RefreshInv'
  <2>1. UNCHANGED <<coord, completed, loop, unserved, job>>
    BY <1>3 DEF Elsewhere, allGithubVars, githubVars, historyVars
  <2>2. QED
    BY <2>1 DEF RefreshInv, LoopTypeOK, NoneBeforeCache, SpinnerHonest, RequestNotLost
<1>4. QED
  BY <1>2, <1>3, WakeStep, PopStep, JobStep, CompleteStep, CacheStep, ClickStep, RestartStep
     DEF GithubNext, Worker, EventLoop

\* A refresh asked for while another runs, waits or ends is followed by a load that
\* begins after it, however the requests, the jobs and the cache interleave.
THEOREM NoRequestLost == GithubSpec => []RequestNotLost
<1>1. RefreshInv => RequestNotLost
  BY DEF RefreshInv
<1>2. QED
  BY <1>1, RefreshInit, RefreshNext, PTL DEF GithubSpec

\* "Refreshing" is shown exactly while a refresh waits, runs or has its completion
\* to be handled.
THEOREM SpinnerIsHonest == GithubSpec => []SpinnerHonest
<1>1. RefreshInv => SpinnerHonest
  BY DEF RefreshInv
<1>2. QED
  BY <1>1, RefreshInit, RefreshNext, PTL DEF GithubSpec

-----------------------------------------------------------------------------
(* The privacy audit's loop.                                               *)

\* What a view may hold.
Shown == [rated : BOOLEAN, at : Nat, scanning : BOOLEAN]
Snapshots == [rated : BOOLEAN, at : Nat]

PrivacyTypeOK ==
  /\ now \in Nat /\ due \in BOOLEAN
  /\ audit \in {None, "running", "rated", "failed"}
  /\ snapshot \in Snapshots /\ centre \in Snapshots
  /\ views \in [{"bar", "panel"} -> Shown \union {None}]

ScanInv == PrivacyTypeOK /\ ScanIsReal

LEMMA PublishedOK ==
  ASSUME PrivacyTypeOK, NEW s \in Snapshots, NEW scanning \in BOOLEAN,
         views' = Published(s, scanning)
  PROVE  /\ views' \in [{"bar", "panel"} -> Shown \union {None}]
         /\ \A v \in DOMAIN views' : views'[v] # None => views'[v].scanning = scanning
<1>1. DOMAIN views = {"bar", "panel"}
  BY DEF PrivacyTypeOK
<1>2. Shows(s, scanning) \in Shown
  BY DEF Shows, Current, Shown, Snapshots, PrivacyTypeOK
<1>3. Shows(s, scanning).scanning = scanning
  BY DEF Shows
<1> HIDE DEF Shown
<1>4. QED
  BY <1>1, <1>2, <1>3 DEF Published

LEMMA ScanStep ==
  PrivacyAssumption /\ ScanInv /\ [PrivacyNext]_privacyVars => ScanInv'
<1> SUFFICES ASSUME PrivacyAssumption, ScanInv, [PrivacyNext]_privacyVars PROVE ScanInv'
  OBVIOUS
<1>1. None \notin {"running", "rated", "failed"} /\ TimeMax \in Nat /\ StaleAfter \in Nat
  BY DEF PrivacyAssumption
<1>2. PrivacyTypeOK /\ ScanIsReal
  BY DEF ScanInv
<1>3. ASSUME StartAudit, now' = now, due' \in BOOLEAN, UNCHANGED <<snapshot, centre>> PROVE ScanInv'
  <2>1. audit' = "running" /\ views' = Published(snapshot, TRUE)
    BY <1>3 DEF StartAudit
  <2>2. /\ views' \in [{"bar", "panel"} -> Shown \union {None}]
        /\ \A v \in DOMAIN views' : views'[v] # None => views'[v].scanning = TRUE
    BY <1>2, <2>1, PublishedOK DEF PrivacyTypeOK
  <2>3. QED
    BY <1>1, <1>2, <1>3, <2>1, <2>2 DEF ScanInv, PrivacyTypeOK, ScanIsReal
<1>4. CASE UNCHANGED <<audit, views>> /\ now' \in Nat /\ due' \in BOOLEAN
             /\ UNCHANGED <<snapshot, centre>>
  BY <1>2, <1>4 DEF ScanInv, PrivacyTypeOK, ScanIsReal
<1>5. CASE Ticker
  BY <1>2, <1>3, <1>4, <1>5 DEF Ticker, PrivacyTypeOK
<1>6. CASE AuditEnds
  <2>1. audit = "running" /\ audit' \in {"rated", "failed"}
    BY <1>6 DEF AuditEnds
  <2>2. UNCHANGED <<now, due, snapshot, centre, views>>
    BY <1>6 DEF AuditEnds
  <2>3. QED
    BY <1>1, <1>2, <2>1, <2>2 DEF ScanInv, PrivacyTypeOK, ScanIsReal
<1>7. CASE TakeAudit
  <2> DEFINE s == [rated |-> audit = "rated", at |-> now]
  <2>1. s \in Snapshots
    BY <1>2 DEF PrivacyTypeOK, Snapshots
  <2>2. /\ audit' = None /\ snapshot' = s /\ views' = Published(s, FALSE)
        /\ centre' = s \/ centre' = centre
        /\ UNCHANGED <<now, due>>
    BY <1>7 DEF TakeAudit
  <2> HIDE DEF s
  <2>3. /\ views' \in [{"bar", "panel"} -> Shown \union {None}]
        /\ \A v \in DOMAIN views' : views'[v] # None => views'[v].scanning = FALSE
    BY <1>2, <2>1, <2>2, PublishedOK
  <2>4. QED
    BY <1>2, <2>1, <2>2, <2>3 DEF ScanInv, PrivacyTypeOK, ScanIsReal
<1>8. CASE \E v \in {"bar", "panel"} : View(v)
  <2> PICK v \in {"bar", "panel"} : View(v)
    BY <1>8
  <2> DEFINE now_shown == Shows(snapshot, audit # None)
  <2>1. now_shown \in Shown /\ now_shown.scanning = (audit # None)
    BY <1>2 DEF Shows, Current, Shown, Snapshots, PrivacyTypeOK
  <2>2. /\ views' = [views EXCEPT ![v] = IF views[v] = None THEN now_shown ELSE None]
        /\ UNCHANGED <<now, due, audit, snapshot, centre>>
    BY DEF View
  <2> HIDE DEF now_shown
  <2>3. views' \in [{"bar", "panel"} -> Shown \union {None}]
    BY <1>2, <2>1, <2>2 DEF PrivacyTypeOK
  <2>4. ScanIsReal'
    BY <1>2, <2>1, <2>2 DEF ScanIsReal, PrivacyTypeOK
  <2>5. QED
    BY <1>2, <2>2, <2>3, <2>4 DEF ScanInv, PrivacyTypeOK
<1>9. CASE ScanNow
  BY <1>2, <1>3, <1>9 DEF ScanNow, PrivacyTypeOK
<1>10. CASE Interval \/ Sleeps \/ UNCHANGED privacyVars
  <2>1. now + 1 \in Nat /\ now + StaleAfter \in Nat
    BY <1>1, <1>2 DEF PrivacyTypeOK
  <2>2. QED
    BY <1>2, <1>4, <1>10, <2>1 DEF Interval, Sleeps, privacyVars, PrivacyTypeOK
<1>11. QED
  BY <1>5, <1>6, <1>7, <1>8, <1>9, <1>10 DEF PrivacyNext

\* A view shows a scan exactly while an audit is under way, for any bounds.
THEOREM ScanIsShown == ASSUME PrivacyAssumption PROVE PrivacySpec => []ScanIsReal
<1>1. ASSUME PrivacyInit PROVE ScanInv
  <2>1. views = [bar |-> None, panel |-> None] /\ DOMAIN views = {"bar", "panel"}
    BY <1>1 DEF PrivacyInit
  <2>2. views \in [{"bar", "panel"} -> Shown \union {None}]
    BY <2>1
  <2>3. ScanIsReal
    BY <2>1 DEF ScanIsReal
  <2>4. QED
    BY <1>1, <2>2, <2>3 DEF PrivacyInit, ScanInv, PrivacyTypeOK, Unrated, Snapshots
<1>2. ScanInv /\ [PrivacyNext]_privacyVars => ScanInv'
  BY ScanStep
<1>3. ScanInv => ScanIsReal
  BY DEF ScanInv
<1>4. QED
  BY <1>1, <1>2, <1>3, PTL DEF PrivacySpec

----------------------------------------------------------------------------
(* Faith: what is shown is what was asked for *)

FaithTypeOK ==
  /\ store \in [ref : Nat \cup {None}, bag : Bags \cup {None}]
  /\ wanted \in Settings
  /\ session \in Sessions \cup {None}
  /\ fetches \subseteq [gen : Nat, ref : Nat]
  /\ loader \in [waiting : Loads \cup {None}, loading : Loads \cup {None},
                 done : LoadsDone \cup {None}]
  /\ saver \in [pending : Saves \cup {None}, bag : Bags \cup {None}]
  /\ today \in Nat
  /\ drawn \in Bags
  /\ faithLimits \in [clicks : Nat, troubles : 0..FaithTroubles, ticks : Nat]

\* A session that shows a verse of its translation, and only its own note.
WellKept(u) ==
  /\ u.ref \in u.bible
  /\ u.status = "ready" => u.note = u.ref
  /\ u.status = "loading" => u.settings.commentary

\* What the session keeps between two events.
SessionIsKept == session # None => WellKept(session) /\ ~session.fetch /\ ~session.save

\* No request for a note is from the future, and the latest one is for the verse shown.
RequestsFit ==
  session # None =>
    \A f \in fetches : f.gen <= session.noteGen /\ (f.gen = session.noteGen => f.ref = session.ref)

\* Nothing is under way while no process runs.
RestsWithSession == session = None => fetches = {} /\ loader = NoLoads /\ saver = NoSave

\* The bag that the store has once the saver is done.
BagToKeep ==
  IF saver.pending # None THEN saver.pending.bag
  ELSE IF saver.bag # None THEN saver.bag
  ELSE IF store.bag = None THEN NoBag ELSE store.bag

\* Without a failure the bag drawn last is the session's, and on its way to the store.
BagFlows ==
  faithLimits.troubles = FaithTroubles =>
    BagToKeep = drawn /\ (session # None => session.bag = drawn)

FaithInv ==
  /\ FaithTypeOK /\ SessionIsKept /\ RequestsFit /\ RestsWithSession
  /\ LoadingIsFetched /\ TranslationSettles /\ BagFlows

----------------------------------------------------------------------------
(* Verses *)

LEMMA LeastVerse ==
  ASSUME NEW S, S \subseteq Nat, S # {}
  PROVE  Min(S) \in S /\ \A w \in S : Min(S) <= w
<1> DEFINE Spans == {0..n : n \in S}
<1>1. Spans \subseteq FiniteSubsetsOf(Nat) /\ Spans # {}
  <2>1. \A n \in S : IsFiniteSet(0..n) /\ 0..n \subseteq Nat
    BY FS_Interval
  <2> QED BY <2>1 DEF FiniteSubsetsOf
<1>2. \E s \in Spans : \A r \in Spans : ~ (<<r, s>> \in StrictSubsetOrdering(Nat))
  <2> HIDE DEF Spans
  <2> QED BY <1>1, WFMin, FS_StrictSubsetOrderingWellFounded
<1>3. PICK x \in S : \A y \in S : ~ (<<0..y, 0..x>> \in StrictSubsetOrdering(Nat))
  BY <1>2
<1>4. ASSUME NEW y \in S, y < x PROVE FALSE
  <2>1. 0..y \subseteq 0..x /\ x \in 0..x /\ x \notin 0..y /\ 0..x \subseteq Nat
    BY <1>4
  <2>2. <<0..y, 0..x>> \in StrictSubsetOrdering(Nat)
    BY <2>1 DEF StrictSubsetOrdering
  <2> QED BY <2>2, <1>3
<1>5. \A y \in S : x <= y
  BY <1>4
<1> QED BY <1>5 DEF Min

LEMMA GreatestVerse ==
  ASSUME NEW S, S \subseteq Nat, S # {}, NEW b \in Nat, \A w \in S : w <= b
  PROVE  Max(S) \in S /\ \A w \in S : w <= Max(S)
<1> DEFINE Above == {n \in Nat : \A w \in S : w <= n}
<1>1. Min(Above) \in Above /\ \A n \in Above : Min(Above) <= n
  <2>1. Above # {} /\ Above \subseteq Nat
    OBVIOUS
  <2> HIDE DEF Above
  <2> QED BY <2>1, LeastVerse
<1>2. Min(Above) \in S
  <2>1. SUFFICES ASSUME Min(Above) \notin S PROVE FALSE
    OBVIOUS
  <2>2. \A w \in S : w < Min(Above)
    BY <2>1, <1>1
  <2> DEFINE m == Min(Above)
  <2>3. m \in Nat /\ m > 0
    <3>1. PICK w \in S : w < m
      BY <2>2
    <3> HIDE DEF m
    <3> QED BY <3>1, <1>1 DEF m
  <2>4. m - 1 \in Above
    <3> HIDE DEF m
    <3> QED BY <2>2, <2>3 DEF m
  <2> QED BY <2>3, <2>4, <1>1
<1>3. \E x \in S : \A w \in S : x >= w
  BY <1>1, <1>2
<1> QED BY <1>3 DEF Max

\* Resolve stays in the translation, and finds a verse where it has the chapter.
LEMMA ResolveFinds ==
  ASSUME FaithAssumption, NEW t \in Translations, NEW v \in Nat
  PROVE  /\ Resolve(t, v) \in t \cup {None}
         /\ (\E w \in t : Chapter(w) = Chapter(v)) => Resolve(t, v) \in t
<1> DEFINE here == {w \in t : Chapter(w) = Chapter(v)}
           beyond == {w \in here : w >= v}
<1>1. here \subseteq t /\ beyond \subseteq here /\ t \subseteq Nat
  BY DEF FaithAssumption
<1>2. CASE here = {}
  BY <1>2 DEF Resolve
<1>3. CASE beyond # {}
  <2>1. Min(beyond) \in beyond
    BY <1>1, <1>3, LeastVerse
  <2> QED BY <2>1, <1>1, <1>3 DEF Resolve
<1>4. CASE here # {} /\ beyond = {}
  <2>1. \A w \in here : w <= v
    BY <1>1, <1>4
  <2>2. Max(here) \in here
    BY <2>1, <1>1, <1>4, GreatestVerse
  <2> QED BY <2>2, <1>1, <1>4 DEF Resolve
<1> QED BY <1>2, <1>3, <1>4

\* Every rank below the size of the pool is that of a verse: there is one for each day.
LEMMA VerseOfDay ==
  ASSUME FaithAssumption, NEW d \in Nat
  PROVE  Daily(d) \in Pool
<1> DEFINE Rank(v) == Cardinality({w \in Pool : w < v})
           Missing == {k \in Nat : k < Cardinality(Pool) /\ \A v \in Pool : Rank(v) # k}
<1>0. Pool # {} /\ Pool \subseteq Nat /\ IsFiniteSet(Pool)
  BY DEF FaithAssumption
<1>1. Cardinality(Pool) \in Nat \ {0}
  BY <1>0, FS_CardinalityType, FS_EmptySet
<1>2. \A S \in SUBSET Pool : IsFiniteSet(S) /\ Cardinality(S) \in Nat
  BY <1>0, FS_Subset, FS_CardinalityType
<1>3. Missing = {}
  <2>1. SUFFICES ASSUME Missing # {} PROVE FALSE
    OBVIOUS
  <2>2. PICK k \in Missing : \A j \in Missing : k <= j
    <3>1. Missing \subseteq Nat
      OBVIOUS
    <3> HIDE DEF Missing
    <3> QED BY <2>1, <3>1, LeastVerse
  <2>3. k \in Nat /\ k < Cardinality(Pool) /\ \A v \in Pool : Rank(v) # k
    BY <2>2
  <2>4. CASE k = 0
    <3> DEFINE m == Min(Pool)
    <3>1. m \in Pool /\ \A w \in Pool : m <= w
      BY <1>0, LeastVerse
    <3>2. {w \in Pool : w < m} = {}
      <4> HIDE DEF m, Rank, Missing
      <4>1. \A w \in Pool : w \in Nat /\ m \in Nat /\ m <= w
        BY <3>1, <1>0
      <4>2. \A w \in Pool : ~ (w < m)
        BY <4>1
      <4> QED BY <4>2
    <3>3. Rank(m) = 0
      BY <3>2, FS_EmptySet
    <3> QED BY <3>1, <3>3, <2>3, <2>4
  <2>5. CASE k # 0
    <3>1. k \in Nat /\ k - 1 \in Nat /\ k - 1 < Cardinality(Pool) /\ k < Cardinality(Pool)
      <4> HIDE DEF Rank, Missing
      <4>1. k \in Nat /\ k < Cardinality(Pool) /\ k # 0
        BY <2>5, <2>3
      <4> QED BY <4>1, <1>1
    <3>2. k - 1 \notin Missing
      <4> HIDE DEF Missing
      <4>1. \A j \in Missing : k <= j
        BY <2>2
      <4> QED BY <3>1, <4>1
    <3>3. \E v \in Pool : Rank(v) = k - 1
      <4> HIDE DEF Rank
      <4> QED BY <3>1, <3>2
    <3>4. PICK v \in Pool : Rank(v) = k - 1
      BY <3>3
    <3> DEFINE below == {w \in Pool : w < v}
               higher == {w \in Pool : w > v}
    <3>5. v \in Nat /\ v \notin below /\ below \in SUBSET Pool
      BY <1>0
    <3>6. Cardinality(below \cup {v}) = k
      <4>1. Cardinality(below) = k - 1 /\ IsFiniteSet(below)
        BY <3>4, <3>5, <1>2
      <4>2. Cardinality(below \cup {v}) = Cardinality(below) + 1
        <5> HIDE DEF below
        <5> QED BY <4>1, <3>5, FS_AddElement
      <4> QED BY <4>1, <4>2, <3>1
    <3>7. higher # {}
      <4>1. SUFFICES ASSUME higher = {} PROVE FALSE
        OBVIOUS
      <4>2. \A w \in Pool : w < v \/ w = v
        BY <4>1, <1>0
      <4>3. Pool = below \cup {v}
        BY <4>2
      <4>4. Cardinality(Pool) = k
        <5> HIDE DEF below
        <5> QED BY <4>3, <3>6
      <4> QED BY <4>4, <3>1
    <3> DEFINE u == Min(higher)
    <3>8. u \in higher /\ \A w \in higher : u <= w
      <4>1. higher \subseteq Nat
        BY <1>0
      <4> HIDE DEF higher
      <4> QED BY <3>7, <4>1, LeastVerse
    <3>9. {w \in Pool : w < u} = below \cup {v}
      <4> HIDE DEF u
      <4>1. \A w \in Pool : w < u <=> w <= v
        BY <3>8, <3>5, <1>0
      <4>2. \A w \in Pool : w < u <=> (w < v \/ w = v)
        BY <4>1, <3>5, <1>0
      <4> QED BY <4>2
    <3>10. Rank(u) = k /\ u \in Pool
      BY <3>9, <3>6, <3>8
    <3> QED BY <3>10, <2>3
  <2> QED BY <2>4, <2>5
<1>4. d % Cardinality(Pool) \in Nat /\ d % Cardinality(Pool) < Cardinality(Pool)
  BY <1>1
<1>5. \E v \in Pool : Rank(v) = d % Cardinality(Pool)
  BY <1>3, <1>4
<1> QED BY <1>5 DEF Daily

\* Every verse pick chooses is one the translation carries.
LEMMA PicksAreCarried ==
  ASSUME FaithAssumption, NEW u \in Sessions, today \in Nat
  PROVE  Picks(u) \subseteq u.bible
<1> DEFINE wishes == CASE u.settings.mode = "daily" -> {Daily(today)}
                       [] u.settings.mode = "bible" -> u.bible
                       [] OTHER -> Others(u.ref)
           chosen(v) == LET w == Resolve(u.bible, v) IN IF w = None THEN Others(u.ref) ELSE {w}
<1>1. u.bible \in Translations /\ u.bible \subseteq Nat /\ None \notin Nat /\ Pool \subseteq Nat
  BY DEF FaithAssumption, Sessions
<1>2. Others(u.ref) \subseteq Pool
  BY DEF Others
<1>3. \A v \in Pool : Resolve(u.bible, v) \in u.bible
  BY <1>1, ResolveFinds DEF FaithAssumption
<1>4. \A v \in u.bible : Resolve(u.bible, v) \in u.bible
  BY <1>1, ResolveFinds
<1>5. wishes \subseteq Pool \/ wishes \subseteq u.bible
  <2>1. Daily(today) \in Pool
    BY VerseOfDay
  <2>2. CASE u.settings.mode = "daily"
    BY <2>1, <2>2
  <2>3. CASE u.settings.mode = "bible"
    BY <2>3
  <2>4. CASE u.settings.mode # "daily" /\ u.settings.mode # "bible"
    BY <2>4, <1>2
  <2> QED BY <2>2, <2>3, <2>4
<1>6. \A v \in wishes : chosen(v) \subseteq u.bible
  <2> TAKE v \in wishes
  <2>1. Resolve(u.bible, v) \in u.bible
    BY <1>3, <1>4, <1>5
  <2>2. Resolve(u.bible, v) # None
    BY <2>1, <1>1
  <2> QED BY <2>1, <2>2
<1>7. Picks(u) = UNION {chosen(v) : v \in wishes}
  BY DEF Picks
<1> HIDE DEF wishes, chosen
<1> QED BY <1>6, <1>7
----------------------------------------------------------------------------
(* What an event makes of a session *)

\* The same session with a new request for the note of its verse.
AsksAnew(s, u) ==
  /\ u \in Sessions /\ u.noteGen = s.noteGen + 1
  /\ u.bible = s.bible /\ u.settings = s.settings /\ u.gen = s.gen
  /\ u.panels = s.panels /\ u.bag = s.bag /\ u.ending = s.ending
  /\ u.status \in {"loading", "off"}
  /\ u.status = "loading" => u.settings.commentary /\ (u.panels > 0 => u.fetch)

\* Either nothing happens to the note and the verse, or another one is asked for; a bag
\* that changes is saved.
Follows(s, u) ==
  /\ u \in Sessions /\ WellKept(u) /\ u.ending = s.ending
  /\ \/ /\ u.noteGen = s.noteGen /\ u.ref = s.ref /\ ~u.fetch
        /\ u.status = "loading" /\ u.panels > 0 => s.status = "loading" /\ s.panels > 0
     \/ /\ u.noteGen > s.noteGen
        /\ u.status = "loading" /\ u.panels > 0 => u.fetch
  /\ u.bag # s.bag => u.save

\* What the translation shown and the one wanted hang on.
SameTranslation(s, u) ==
  u.bible = s.bible /\ u.settings.translation = s.settings.translation /\ u.gen = s.gen

LEMMA NoneIsNoVerse == FaithAssumption => None \notin Nat
BY DEF FaithAssumption

LEMMA RequestAsks ==
  ASSUME NEW s \in Sessions
  PROVE  AsksAnew(s, RequestNote(s)) /\ RequestNote(s).ref = s.ref
<1> DEFINE status == IF s.settings.commentary THEN "loading" ELSE "off"
           fetch == s.settings.commentary /\ s.panels > 0
           r == RequestNote(s)
<1>1. s.settings.commentary \in BOOLEAN /\ s.panels \in Nat /\ s.noteGen \in Nat
  BY DEF Sessions, Settings
<1>2. fetch \in BOOLEAN /\ status \in {"loading", "off"}
  BY <1>1
<1>3. r = [s EXCEPT !.noteGen = s.noteGen + 1, !.note = None, !.status = status, !.fetch = fetch]
  BY DEF RequestNote, Sessions
<1>4. status = "loading" => s.settings.commentary /\ (s.panels > 0 => fetch)
  OBVIOUS
<1> HIDE DEF status, fetch, r
<1>5. r \in Sessions
  <2>1. /\ s.settings \in Settings /\ s.bible \in Translations /\ s.gen \in Nat /\ s.ref \in Nat
        /\ s.bag \in Bags /\ s.day \in Nat /\ s.ending \in BOOLEAN /\ s.save \in BOOLEAN
    BY DEF Sessions
  <2>2. r = [settings |-> s.settings, bible |-> s.bible, gen |-> s.gen, ref |-> s.ref,
             panels |-> s.panels, status |-> status, note |-> None, noteGen |-> s.noteGen + 1,
             bag |-> s.bag, day |-> s.day, ending |-> s.ending, fetch |-> fetch, save |-> s.save]
    BY <1>3 DEF Sessions
  <2>3. s.noteGen + 1 \in Nat
    BY <1>1
  <2> QED BY <1>1, <1>2, <2>1, <2>2, <2>3, Zenon DEF Sessions
<1>6. /\ r.noteGen = s.noteGen + 1 /\ r.ref = s.ref /\ r.bible = s.bible
      /\ r.settings = s.settings /\ r.gen = s.gen /\ r.panels = s.panels /\ r.bag = s.bag
      /\ r.ending = s.ending /\ r.status = status /\ r.fetch = fetch
  BY <1>3 DEF Sessions
<1> QED BY <1>2, <1>4, <1>5, <1>6 DEF AsksAnew, r

LEMMA MoveAsks ==
  ASSUME NEW s \in Sessions, NEW v \in Nat
  PROVE  AsksAnew(s, Moved(s, v)) /\ Moved(s, v).ref = v /\ Moved(s, v).save
<1> DEFINE m == [s EXCEPT !.ref = v]
<1>1. m \in Sessions /\ m.ref = v
  BY DEF Sessions
<1>2. AsksAnew(m, RequestNote(m)) /\ RequestNote(m).ref = v
  BY <1>1, RequestAsks
<1>3. RequestNote(m) \in Sessions
  BY <1>2 DEF AsksAnew
<1>4. Moved(s, v) = [RequestNote(m) EXCEPT !.save = TRUE]
  BY DEF Moved
<1>5. /\ m.noteGen = s.noteGen /\ m.bible = s.bible /\ m.settings = s.settings /\ m.gen = s.gen
      /\ m.panels = s.panels /\ m.bag = s.bag /\ m.ending = s.ending
  BY DEF Sessions
<1> HIDE DEF m
<1> QED BY <1>2, <1>3, <1>4, <1>5 DEF AsksAnew, Sessions

LEMMA PickAsks ==
  ASSUME FaithAssumption, today \in Nat, NEW s \in Sessions, NEW u \in PickedOnes(s)
  PROVE  AsksAnew(s, u) /\ u.ref \in u.bible
<1> DEFINE d == [s EXCEPT !.day = today]
<1>1. PICK v \in Picks(s) : u = Moved(d, v)
  BY DEF PickedOnes
<1>2. d \in Sessions /\ v \in s.bible /\ v \in Nat
  BY PicksAreCarried DEF Sessions, FaithAssumption
<1>3. AsksAnew(d, u) /\ u.ref = v
  <2> HIDE DEF d
  <2> QED BY <1>1, <1>2, MoveAsks
<1>4. /\ d.noteGen = s.noteGen /\ d.bible = s.bible /\ d.settings = s.settings /\ d.gen = s.gen
      /\ d.panels = s.panels /\ d.bag = s.bag /\ d.ending = s.ending
  BY DEF Sessions
<1> HIDE DEF d
<1> QED BY <1>2, <1>3, <1>4 DEF AsksAnew

LEMMA AskingFollows ==
  ASSUME NEW s \in Sessions, NEW u, AsksAnew(s, u), u.ref \in u.bible
  PROVE  Follows(s, u) /\ SameTranslation(s, u) /\ u.bag = s.bag
BY DEF AsksAnew, Follows, SameTranslation, WellKept, Sessions

LEMMA SettingsFollow ==
  ASSUME FaithAssumption, today \in Nat,
         NEW s \in Sessions, WellKept(s), ~s.fetch, NEW chosen \in Settings,
         NEW u \in ApplySettings(s, chosen)
  PROVE  /\ Follows(s, u) /\ u.bag = s.bag /\ u.bible = s.bible /\ u.settings = chosen
         /\ u.gen = IF chosen.translation # s.settings.translation THEN s.gen + 1 ELSE s.gen
<1> DEFINE g == IF chosen.translation # s.settings.translation THEN s.gen + 1 ELSE s.gen
           v == [s EXCEPT !.settings = chosen, !.gen = g]
<1>0. g \in Nat
  BY DEF Sessions
<1>1. /\ v \in Sessions /\ v.settings = chosen /\ v.gen = g /\ v.noteGen = s.noteGen
      /\ v.ref = s.ref /\ v.bible = s.bible /\ v.panels = s.panels /\ v.bag = s.bag
      /\ v.ending = s.ending /\ v.status = s.status /\ v.note = s.note /\ v.fetch = s.fetch
  <2> HIDE DEF g
  <2> QED BY <1>0 DEF Sessions
<1>2. u \in IF chosen.mode # s.settings.mode THEN PickedOnes(v)
            ELSE IF chosen.commentary # s.settings.commentary THEN {RequestNote(v)} ELSE {v}
  BY DEF ApplySettings
<1> HIDE DEF v, g
<1>3. CASE AsksAnew(v, u) /\ u.ref \in u.bible
  <2>1. Follows(v, u) /\ u.bag = v.bag /\ u.bible = v.bible /\ u.settings = v.settings
           /\ u.gen = v.gen /\ u.noteGen > v.noteGen
    BY <1>1, <1>3, AskingFollows DEF AsksAnew, Sessions
  <2>2. Follows(s, u)
    BY <1>1, <2>1 DEF Follows
  <2> QED BY <1>1, <2>1, <2>2 DEF g
<1>4. CASE chosen.mode # s.settings.mode
  <2>1. AsksAnew(v, u) /\ u.ref \in u.bible
    BY <1>1, <1>2, <1>4, PickAsks
  <2> QED BY <2>1, <1>3
<1>5. CASE chosen.mode = s.settings.mode /\ chosen.commentary # s.settings.commentary
  <2>1. AsksAnew(v, u) /\ u.ref \in u.bible
    BY <1>1, <1>2, <1>5, RequestAsks DEF AsksAnew, WellKept
  <2> QED BY <2>1, <1>3
<1>6. CASE chosen.mode = s.settings.mode /\ chosen.commentary = s.settings.commentary
  <2>1. u = v
    BY <1>2, <1>6
  <2>2. Follows(s, u)
    BY <2>1, <1>1, <1>6 DEF Follows, WellKept
  <2> QED BY <2>1, <2>2, <1>1 DEF g
<1> QED BY <1>4, <1>5, <1>6

LEMMA BibleFollows ==
  ASSUME FaithAssumption, today \in Nat,
         NEW s \in Sessions, WellKept(s), ~s.fetch, NEW t \in Translations,
         NEW u \in OnBible([s EXCEPT !.bible = t])
  PROVE  /\ Follows(s, u) /\ u.bag = s.bag /\ u.bible = t /\ u.settings = s.settings
         /\ u.gen = s.gen
<1> DEFINE b == [s EXCEPT !.bible = t]
           v == Resolve(b.bible, b.ref)
<1>1. /\ b \in Sessions /\ b.settings = s.settings /\ b.gen = s.gen /\ b.noteGen = s.noteGen
      /\ b.ref = s.ref /\ b.bible = t /\ b.panels = s.panels /\ b.bag = s.bag
      /\ b.ending = s.ending /\ b.status = s.status /\ b.note = s.note /\ b.fetch = s.fetch
  BY DEF Sessions
<1>2. v \in t \cup {None} /\ b.ref \in Nat /\ t \subseteq Nat
  BY <1>1, ResolveFinds DEF Sessions, FaithAssumption
<1>3. u \in IF v = b.ref THEN {b}
            ELSE IF v # None THEN {Moved(b, v)}
            ELSE {IF w.ref = b.ref THEN [b EXCEPT !.day = today] ELSE w : w \in PickedOnes(b)}
  BY DEF OnBible
<1> HIDE DEF b, v
<1>4. ASSUME AsksAnew(b, u) /\ u.ref \in u.bible
      PROVE  /\ Follows(s, u) /\ u.bag = s.bag /\ u.bible = t /\ u.settings = s.settings
             /\ u.gen = s.gen
  <2>1. Follows(b, u) /\ u.bag = b.bag /\ u.bible = b.bible /\ u.settings = b.settings
           /\ u.gen = b.gen /\ u.noteGen > b.noteGen
    BY <1>1, <1>4, AskingFollows DEF AsksAnew, Sessions
  <2>2. Follows(s, u)
    BY <1>1, <2>1 DEF Follows
  <2> QED BY <1>1, <2>1, <2>2
<1>5. ASSUME b.ref \in t, u = b \/ u = [b EXCEPT !.day = today]
      PROVE  /\ Follows(s, u) /\ u.bag = s.bag /\ u.bible = t /\ u.settings = s.settings
             /\ u.gen = s.gen
  <2>1. /\ u \in Sessions /\ u.settings = b.settings /\ u.gen = b.gen /\ u.noteGen = b.noteGen
        /\ u.ref = b.ref /\ u.bible = b.bible /\ u.panels = b.panels /\ u.bag = b.bag
        /\ u.ending = b.ending /\ u.status = b.status /\ u.note = b.note /\ u.fetch = b.fetch
    BY <1>1, <1>5 DEF Sessions
  <2>2. WellKept(u)
    BY <2>1, <1>1, <1>5 DEF WellKept
  <2> QED BY <2>1, <2>2, <1>1 DEF Follows
<1>6. CASE v = b.ref
  <2>1. b.ref \in t
    BY <1>6, <1>2, NoneIsNoVerse
  <2> QED BY <1>3, <1>5, <1>6, <2>1
<1>7. CASE v # b.ref /\ v # None
  <2>1. AsksAnew(b, u) /\ u.ref = v
    BY <1>1, <1>2, <1>3, <1>7, MoveAsks
  <2>2. u.ref \in u.bible
    BY <2>1, <1>1, <1>2, <1>7 DEF AsksAnew
  <2> QED BY <2>1, <2>2, <1>4
<1>8. CASE v # b.ref /\ v = None
  <2>1. PICK w \in PickedOnes(b) : u = IF w.ref = b.ref THEN [b EXCEPT !.day = today] ELSE w
    BY <1>3, <1>8
  <2>2. AsksAnew(b, w) /\ w.ref \in w.bible /\ w.bible = t
    BY <1>1, PickAsks DEF AsksAnew
  <2> QED BY <2>1, <2>2, <1>4, <1>5
<1> QED BY <1>6, <1>7, <1>8

----------------------------------------------------------------------------
(* What the effects of an event keep *)

\* The requests under way fit the session s.
Fitting(s) ==
  /\ \A f \in fetches : f.gen <= s.noteGen /\ (f.gen = s.noteGen => f.ref = s.ref)
  /\ ~s.ending /\ s.panels > 0 /\ s.status = "loading" =>
       [gen |-> s.noteGen, ref |-> s.ref] \in fetches

SaverType == [pending : Saves \cup {None}, bag : Bags \cup {None}]

LEMMA NotesGoOn ==
  ASSUME FaithAssumption, fetches \subseteq [gen : Nat, ref : Nat], saver \in SaverType,
         NEW s \in Sessions, Fitting(s), NEW u, Follows(s, u), Becomes(u)
  PROVE  /\ session' \in Sessions /\ session' # None
         /\ session'.bag = u.bag /\ session'.bible = u.bible /\ session'.settings = u.settings
         /\ session'.gen = u.gen /\ session'.ending = u.ending
         /\ fetches' \subseteq [gen : Nat, ref : Nat] /\ saver' \in SaverType
         /\ SessionIsKept' /\ RequestsFit' /\ RestsWithSession' /\ LoadingIsFetched'
<1>1. u \in Sessions /\ WellKept(u)
  BY DEF Follows
<1>2. /\ session' \in Sessions /\ session'.bag = u.bag /\ session'.bible = u.bible
      /\ session'.settings = u.settings /\ session'.gen = u.gen /\ session'.ending = u.ending
      /\ session'.ref = u.ref /\ session'.panels = u.panels /\ session'.status = u.status
      /\ session'.note = u.note /\ session'.noteGen = u.noteGen
      /\ ~session'.fetch /\ ~session'.save
  BY <1>1 DEF Becomes, Sessions
<1>3. session' # None
  BY <1>2 DEF FaithAssumption
<1>4. u.noteGen \in Nat /\ u.ref \in Nat /\ u.bag \in Bags /\ s.noteGen \in Nat /\ s.ref \in Nat
  BY <1>1 DEF Sessions
<1>5. fetches' = IF u.fetch THEN fetches \cup {[gen |-> u.noteGen, ref |-> u.ref]} ELSE fetches
  BY DEF Becomes
<1>6. fetches' \subseteq [gen : Nat, ref : Nat]
  BY <1>4, <1>5
<1>7. saver' \in SaverType
  <2>1. [ref |-> u.ref, bag |-> u.bag] \in Saves
    BY <1>4 DEF Saves
  <2> QED BY <2>1 DEF Becomes, SaverType
<1>8. SessionIsKept'
  BY <1>1, <1>2 DEF SessionIsKept, WellKept
<1>9. \A f \in fetches' : f.gen <= u.noteGen /\ (f.gen = u.noteGen => f.ref = u.ref)
  <2> TAKE f \in fetches'
  <2>1. CASE f \in fetches
    BY <2>1, <1>4 DEF Fitting, Follows
  <2>2. CASE f \notin fetches
    <3>1. f = [gen |-> u.noteGen, ref |-> u.ref]
      BY <2>2, <1>5
    <3> QED BY <3>1, <1>4
  <2> QED BY <2>1, <2>2
<1>10. ~u.ending /\ u.panels > 0 /\ u.status = "loading" =>
          [gen |-> u.noteGen, ref |-> u.ref] \in fetches'
  BY <1>5, <1>4 DEF Fitting, Follows
<1>11. RequestsFit' /\ LoadingIsFetched'
  BY <1>2, <1>9, <1>10 DEF RequestsFit, LoadingIsFetched, Alive
<1>12. RestsWithSession'
  BY <1>3 DEF RestsWithSession
<1> QED BY <1>2, <1>3, <1>6, <1>7, <1>8, <1>11, <1>12

LEMMA BagGoesOn ==
  ASSUME FaithAssumption, saver \in SaverType,
         NEW s \in Sessions, NEW u, Follows(s, u), Becomes(u), session' # None,
         faithLimits.troubles = FaithTroubles => BagToKeep = drawn /\ s.bag = drawn,
         faithLimits'.troubles = FaithTroubles => faithLimits.troubles = FaithTroubles,
         store' = store,
         \/ u.bag = s.bag /\ drawn' = drawn
         \/ u.save /\ drawn' = u.bag
  PROVE  BagFlows'
<1>1. u \in Sessions
  BY DEF Follows
<1>2. session'.bag = u.bag /\ u.ref \in Nat /\ u.bag \in Bags
  BY <1>1 DEF Becomes, Sessions
<1>3. CASE u.save
  <2> DEFINE p == [ref |-> u.ref, bag |-> u.bag]
  <2>1. saver'.pending = p
    BY <1>3 DEF Becomes, SaverType
  <2>2. p \in Saves /\ p.bag = u.bag
    BY <1>2 DEF Saves
  <2>3. p # None
    BY <2>2 DEF FaithAssumption
  <2>4. BagToKeep' = u.bag
    BY <2>1, <2>2, <2>3 DEF BagToKeep
  <2> QED BY <2>4, <1>2 DEF BagFlows
<1>4. CASE ~u.save
  <2>1. saver' = saver /\ u.bag = s.bag /\ drawn' = drawn
    BY <1>4 DEF Becomes, Follows
  <2>2. BagToKeep' = BagToKeep
    BY <2>1 DEF BagToKeep
  <2> QED BY <2>1, <2>2, <1>2 DEF BagFlows
<1> QED BY <1>3, <1>4

LEMMA TranslationGoesOn ==
  ASSUME TranslationSettles, session # None, session' # None, loader' = loader,
         session'.ending = session.ending, SameTranslation(session, session')
  PROVE  TranslationSettles'
BY DEF TranslationSettles, SameTranslation, Alive

\* An event that leaves the settings, the translation and the drawn bag alone.
LEMMA EventKeeps ==
  ASSUME FaithAssumption, FaithInv, session # None, ~session.ending,
         NEW u, Follows(session, u), SameTranslation(session, u), Becomes(u),
         \/ u.bag = session.bag /\ drawn' = drawn
         \/ u.save /\ drawn' = u.bag,
         UNCHANGED <<store, wanted, loader, today>>,
         faithLimits' \in [clicks : Nat, troubles : 0..FaithTroubles, ticks : Nat],
         faithLimits'.troubles = faithLimits.troubles
  PROVE  FaithInv'
<1>1. session \in Sessions /\ saver \in SaverType /\ fetches \subseteq [gen : Nat, ref : Nat]
  BY DEF FaithInv, FaithTypeOK, SaverType
<1>2. Fitting(session)
  BY DEF FaithInv, Fitting, RequestsFit, LoadingIsFetched, Alive
<1>3. /\ session' \in Sessions /\ session' # None /\ session'.ending = u.ending
      /\ session'.bible = u.bible /\ session'.settings = u.settings /\ session'.gen = u.gen
      /\ fetches' \subseteq [gen : Nat, ref : Nat] /\ saver' \in SaverType
      /\ SessionIsKept' /\ RequestsFit' /\ RestsWithSession' /\ LoadingIsFetched'
  BY <1>1, <1>2, NotesGoOn
<1>4. BagFlows'
  BY <1>1, <1>3, BagGoesOn DEF FaithInv, BagFlows
<1>5. TranslationSettles'
  <2>1. SameTranslation(session, session') /\ session'.ending = session.ending
    BY <1>3 DEF SameTranslation, Follows
  <2> QED BY <1>3, <2>1, TranslationGoesOn DEF FaithInv
<1>6. drawn' \in Bags
  BY DEF FaithInv, FaithTypeOK, Follows, Sessions
<1>7. FaithTypeOK'
  BY <1>3, <1>6 DEF FaithInv, FaithTypeOK, SaverType
<1> QED BY <1>3, <1>4, <1>5, <1>7 DEF FaithInv

----------------------------------------------------------------------------
(* Every step *)

LimitsType == [clicks : Nat, troubles : 0..FaithTroubles, ticks : Nat]

LEMMA LimitsRunOut ==
  ASSUME FaithAssumption, faithLimits \in LimitsType
  PROVE  /\ FaithClick \/ Time \/ UNCHANGED faithLimits =>
              faithLimits' \in LimitsType /\ faithLimits'.troubles = faithLimits.troubles
         /\ Trouble => /\ faithLimits' \in LimitsType
                       /\ faithLimits'.troubles # FaithTroubles
<1>1. FaithTroubles \in Nat
  BY DEF FaithAssumption
<1> QED BY <1>1 DEF LimitsType, FaithClick, Time, Trouble

LEMMA FaithStarting == FaithAssumption /\ FaithInit => FaithInv
<1> SUFFICES ASSUME FaithAssumption, FaithInit PROVE FaithInv
  OBVIOUS
<1>1. DefaultSettings \in Settings /\ NoBag \in Bags
  BY DEF FaithAssumption, DefaultSettings, Settings, Modes, NoBag, Bags
<1>2. FaithTypeOK
  <2>1. FaithClicks \in Nat /\ FaithTroubles \in Nat /\ FaithTicks \in Nat
    BY DEF FaithAssumption
  <2>2. faithLimits \in [clicks : Nat, troubles : 0..FaithTroubles, ticks : Nat]
    BY <2>1 DEF FaithInit
  <2>3. /\ store \in [ref : Nat \cup {None}, bag : Bags \cup {None}] /\ fetches = {}
        /\ loader \in [waiting : Loads \cup {None}, loading : Loads \cup {None},
                       done : LoadsDone \cup {None}]
        /\ saver \in [pending : Saves \cup {None}, bag : Bags \cup {None}]
    BY DEF FaithInit, NoLoads, NoSave
  <2> QED BY <1>1, <2>2, <2>3 DEF FaithInit, FaithTypeOK
<1>3. SessionIsKept /\ RequestsFit /\ RestsWithSession /\ LoadingIsFetched /\ TranslationSettles
  BY DEF FaithInit, SessionIsKept, RequestsFit, RestsWithSession, LoadingIsFetched,
         TranslationSettles, Alive
<1>4. BagFlows
  <2>1. saver.pending = None /\ saver.bag = None /\ store.bag = None
    BY DEF FaithInit, NoSave
  <2> QED BY <2>1 DEF FaithInit, BagFlows, BagToKeep
<1> QED BY <1>2, <1>3, <1>4 DEF FaithInv

\* The settings chosen, taken by the session s of a process that runs or starts.
LEMMA SettingsTaken ==
  ASSUME FaithAssumption, FaithTypeOK,
         NEW s \in Sessions, WellKept(s), ~s.fetch, ~s.ending, Fitting(s),
         s.settings.translation # s.bible =>
           \E r \in {loader.waiting, loader.loading, loader.done} \ {None} :
             r.gen = s.gen /\ r.id = s.settings.translation,
         NEW chosen \in Settings, NEW u \in ApplySettings(s, chosen), TakesSettings(s, u),
         faithLimits.troubles = FaithTroubles => BagToKeep = drawn /\ s.bag = drawn,
         faithLimits' \in LimitsType, faithLimits'.troubles = faithLimits.troubles,
         wanted' \in Settings, UNCHANGED <<store, today, drawn>>
  PROVE  FaithInv'
<1>1. saver \in SaverType /\ fetches \subseteq [gen : Nat, ref : Nat] /\ today \in Nat
  BY DEF FaithTypeOK, SaverType
<1>2. /\ Follows(s, u) /\ u.bag = s.bag /\ u.bible = s.bible /\ u.settings = chosen
      /\ u.gen = IF chosen.translation # s.settings.translation THEN s.gen + 1 ELSE s.gen
      /\ Becomes(u)
  BY <1>1, SettingsFollow DEF TakesSettings
<1>3. /\ session' \in Sessions /\ session' # None /\ session'.ending = u.ending
      /\ session'.bible = u.bible /\ session'.settings = u.settings /\ session'.gen = u.gen
      /\ fetches' \subseteq [gen : Nat, ref : Nat] /\ saver' \in SaverType
      /\ SessionIsKept' /\ RequestsFit' /\ RestsWithSession' /\ LoadingIsFetched'
  BY <1>1, <1>2, NotesGoOn
<1>4. BagFlows'
  BY <1>1, <1>2, <1>3, BagGoesOn
<1>5. s.gen \in Nat /\ u.gen \in Nat /\ chosen.translation \in Translations
  BY <1>2 DEF Sessions, Settings, Follows
<1> DEFINE request == [id |-> chosen.translation, gen |-> u.gen]
<1>6. request \in Loads /\ request # None
  BY <1>5 DEF Loads, FaithAssumption
<1>7. loader' = IF u.gen = s.gen THEN loader ELSE [loader EXCEPT !.waiting = request]
  BY <1>2 DEF TakesSettings, Queued
<1>8. loader' \in [waiting : Loads \cup {None}, loading : Loads \cup {None},
                  done : LoadsDone \cup {None}]
  BY <1>6, <1>7 DEF FaithTypeOK
<1>9. TranslationSettles'
  <2>1. CASE u.gen = s.gen
    <3>1. chosen.translation = s.settings.translation /\ loader' = loader
      BY <1>2, <1>5, <1>7, <2>1
    <3> QED BY <3>1, <2>1, <1>2, <1>3 DEF TranslationSettles
  <2>2. CASE u.gen # s.gen
    <3>1. loader'.waiting = request
      BY <1>7, <2>2 DEF FaithTypeOK
    <3> QED BY <3>1, <1>2, <1>3, <1>6 DEF TranslationSettles
  <2> QED BY <2>1, <2>2
<1>10. FaithTypeOK'
  BY <1>3, <1>8 DEF FaithTypeOK, SaverType, LimitsType
<1> QED BY <1>3, <1>4, <1>9, <1>10 DEF FaithInv

LEMMA VersesStep ==
  ASSUME FaithAssumption, FaithInv, [FaithNext]_faithVars
  PROVE  FaithInv'
<1>1. /\ faithLimits \in LimitsType /\ today \in Nat /\ wanted \in Settings
      /\ FaithTroubles \in Nat
  BY DEF FaithInv, FaithTypeOK, LimitsType, FaithAssumption
<1>2. ASSUME session # None
      PROVE  session \in Sessions /\ WellKept(session) /\ ~session.fetch /\ ~session.save
  BY <1>2 DEF FaithInv, FaithTypeOK, SessionIsKept
<1>3. CASE Read
  <2>1. session # None /\ ~session.ending /\ FaithClick
    BY <1>3 DEF Read, Alive
  <2>2. session \in Sessions /\ session.bible \in Translations /\ session.bible \subseteq Nat
        /\ session.ref \in Nat
    BY <1>2, <2>1 DEF Sessions, FaithAssumption
  <2>3. Neighbours(session) \subseteq session.bible
    <3> DEFINE before == {w \in session.bible : w < session.ref}
               beyond == {w \in session.bible : w > session.ref}
    <3>1. before \subseteq session.bible /\ beyond \subseteq session.bible
          /\ \A w \in before : w <= session.ref
      BY <2>2
    <3>2. ASSUME before # {} PROVE Max(before) \in session.bible
      <4> HIDE DEF before
      <4> QED BY <3>1, <3>2, <2>2, GreatestVerse
    <3>3. ASSUME beyond # {} PROVE Min(beyond) \in session.bible
      <4> HIDE DEF beyond
      <4> QED BY <3>1, <3>3, <2>2, LeastVerse
    <3> QED BY <3>2, <3>3 DEF Neighbours
  <2>4. PICK u : Becomes(u) /\ AsksAnew(session, u) /\ u.ref \in u.bible
    <3>1. CASE \E v \in Neighbours(session) \cup (session.bible \ {session.ref}) :
                 Becomes(Moved(session, v))
      <4>1. PICK v \in session.bible : Becomes(Moved(session, v))
        BY <3>1, <2>3
      <4>2. AsksAnew(session, Moved(session, v)) /\ Moved(session, v).ref = v
        BY <2>2, MoveAsks
      <4> QED BY <4>1, <4>2 DEF AsksAnew
    <3>2. CASE \E w \in PickedOnes(session) : Becomes(w)
      BY <3>2, <2>2, <1>1, PickAsks
    <3> QED BY <1>3, <3>1, <3>2 DEF Read
  <2>5. Follows(session, u) /\ SameTranslation(session, u) /\ u.bag = session.bag
    BY <2>2, <2>4, AskingFollows
  <2> QED BY <1>1, <1>3, <2>1, <2>4, <2>5, LimitsRunOut, EventKeeps DEF Read, LimitsType
<1>4. CASE OpenPanel
  <2>1. session # None /\ ~session.ending /\ FaithClick /\ session \in Sessions
    BY <1>4, <1>2 DEF OpenPanel, Alive
  <2> DEFINE v == [session EXCEPT !.panels = @ + 1]
             u == PanelOpened(session)
  <2>2. /\ v \in Sessions /\ v.noteGen = session.noteGen /\ v.ref = session.ref
        /\ v.bible = session.bible /\ v.settings = session.settings /\ v.gen = session.gen
        /\ v.bag = session.bag /\ v.ending = session.ending /\ v.status = session.status
        /\ v.note = session.note /\ v.fetch = session.fetch /\ v.panels = session.panels + 1
        /\ session.panels \in Nat
    BY <2>1 DEF Sessions
  <2>3. u = IF v.panels = 1 /\ v.settings.commentary /\ v.status \notin {"ready", "none"}
            THEN RequestNote(v) ELSE v
    BY DEF PanelOpened
  <2> HIDE DEF u, v
  <2>4. Follows(session, u) /\ SameTranslation(session, u) /\ u.bag = session.bag
    <3>1. CASE u = v /\ ~ (v.panels = 1 /\ v.status = "loading")
      BY <3>1, <2>1, <2>2, <1>2 DEF Follows, SameTranslation, WellKept
    <3>2. CASE u = RequestNote(v)
      <4>1. AsksAnew(v, u) /\ u.ref = v.ref /\ v.ref \in v.bible
        BY <3>2, <2>1, <2>2, <1>2, RequestAsks DEF WellKept
      <4>2. Follows(v, u) /\ SameTranslation(v, u) /\ u.bag = v.bag
        BY <4>1, <2>2, AskingFollows DEF AsksAnew
      <4>3. u.noteGen > session.noteGen /\ (u.status = "loading" /\ u.panels > 0 => u.fetch)
        BY <4>1, <2>2 DEF AsksAnew, Sessions
      <4>4. Follows(session, u)
        BY <4>2, <4>3, <2>2 DEF Follows
      <4> QED BY <4>2, <4>4, <2>2 DEF SameTranslation
    <3>3. v.panels = 1 /\ v.status = "loading" => v.settings.commentary
      BY <2>1, <2>2, <1>2 DEF WellKept
    <3> QED BY <2>3, <3>1, <3>2, <3>3
  <2>5. Becomes(u)
    BY <1>4 DEF OpenPanel, u
  <2> QED BY <1>1, <1>4, <2>1, <2>4, <2>5, LimitsRunOut, EventKeeps DEF OpenPanel, LimitsType
<1>5. CASE ClosePanel
  <2>1. session # None /\ ~session.ending /\ FaithClick /\ session \in Sessions
        /\ session.panels \in Nat /\ session.panels > 0
    BY <1>5, <1>2 DEF ClosePanel, Alive, Sessions
  <2> DEFINE u == [session EXCEPT !.panels = @ - 1]
  <2>2. /\ u \in Sessions /\ u.noteGen = session.noteGen /\ u.ref = session.ref
        /\ u.bible = session.bible /\ u.settings = session.settings /\ u.gen = session.gen
        /\ u.bag = session.bag /\ u.ending = session.ending /\ u.status = session.status
        /\ u.note = session.note /\ u.fetch = session.fetch /\ u.panels = session.panels - 1
    BY <2>1 DEF Sessions
  <2>3. Becomes(u)
    BY <1>5 DEF ClosePanel
  <2> HIDE DEF u
  <2>4. Follows(session, u) /\ SameTranslation(session, u) /\ u.bag = session.bag
    BY <2>1, <2>2, <1>2 DEF Follows, SameTranslation, WellKept
  <2> QED BY <1>1, <1>5, <2>1, <2>3, <2>4, LimitsRunOut, EventKeeps DEF ClosePanel, LimitsType
<1>6. CASE Pray
  <2>1. session # None /\ ~session.ending /\ FaithClick /\ session \in Sessions
        /\ session.bag \in Bags /\ session.settings.wide \in BOOLEAN
    BY <1>6, <1>2 DEF Pray, Alive, Sessions, Settings
  <2>2. PICK bag \in Draws(session.bag, session.settings.wide) :
           Becomes([session EXCEPT !.bag = bag, !.save = TRUE]) /\ drawn' = bag
    BY <1>6 DEF Pray
  <2>3. bag \in Bags
    BY <2>1, <2>2 DEF Draws, PrayerPool, Bags
  <2> DEFINE u == [session EXCEPT !.bag = bag, !.save = TRUE]
  <2>4. /\ u \in Sessions /\ u.noteGen = session.noteGen /\ u.ref = session.ref
        /\ u.bible = session.bible /\ u.settings = session.settings /\ u.gen = session.gen
        /\ u.bag = bag /\ u.ending = session.ending /\ u.status = session.status
        /\ u.note = session.note /\ u.fetch = session.fetch /\ u.panels = session.panels /\ u.save
    BY <2>1, <2>3 DEF Sessions
  <2>5. Becomes(u)
    BY <2>2
  <2> HIDE DEF u
  <2>6. Follows(session, u) /\ SameTranslation(session, u)
    BY <2>1, <2>4, <1>2 DEF Follows, SameTranslation, WellKept
  <2> QED BY <1>1, <1>6, <2>1, <2>2, <2>4, <2>5, <2>6, LimitsRunOut, EventKeeps
          DEF Pray, LimitsType
<1>7. CASE NoteArrives
  <2>1. session # None /\ ~session.ending /\ session \in Sessions
        /\ fetches \subseteq [gen : Nat, ref : Nat]
    BY <1>7, <1>2 DEF NoteArrives, Alive, FaithInv, FaithTypeOK
  <2>2. PICK f \in fetches, answer \in {"ready", "none", "unavailable"} :
          /\ IF answer = "unavailable" THEN Trouble ELSE UNCHANGED faithLimits
          /\ session' = CommentaryResult(session, f, answer)
          /\ fetches' = fetches \ {f}
    BY <1>7 DEF NoteArrives
  <2> DEFINE u == CommentaryResult(session, f, answer)
  <2>3. /\ u \in Sessions /\ u.noteGen = session.noteGen /\ u.ref = session.ref
        /\ u.bible = session.bible /\ u.settings = session.settings /\ u.gen = session.gen
        /\ u.bag = session.bag /\ u.ending = session.ending /\ u.panels = session.panels
        /\ u.fetch = session.fetch /\ u.save = session.save
        /\ \/ u.status = session.status /\ u.note = session.note
              /\ (f.gen # session.noteGen \/ ~session.settings.commentary)
           \/ u.status = answer /\ f.gen = session.noteGen /\ (answer = "ready" => u.note = f.ref)
    BY <2>1 DEF CommentaryResult, Sessions
  <2>4. session' = u /\ u # None
    BY <2>2, <2>3 DEF FaithAssumption
  <2> HIDE DEF u
  <2>5. f.gen = session.noteGen => f.ref = session.ref
    BY <2>1 DEF FaithInv, RequestsFit
  <2>6. SessionIsKept'
    BY <2>1, <2>3, <2>4, <2>5, <1>2 DEF SessionIsKept, WellKept
  <2>7. RequestsFit' /\ RestsWithSession'
    BY <2>1, <2>2, <2>3, <2>4 DEF FaithInv, RequestsFit, RestsWithSession
  <2>8. LoadingIsFetched'
    <3>1. SUFFICES ASSUME u.panels > 0, u.status = "loading"
                   PROVE  [gen |-> u.noteGen, ref |-> u.ref] \in fetches'
      BY <2>4 DEF LoadingIsFetched
    <3>2. session.status = "loading" /\ session.panels > 0 /\ session.settings.commentary
      BY <3>1, <2>3, <2>1, <1>2 DEF WellKept
    <3>3. f.gen # session.noteGen
      BY <3>1, <3>2, <2>3
    <3>4. [gen |-> session.noteGen, ref |-> session.ref] \in fetches
      BY <3>2, <2>1 DEF FaithInv, LoadingIsFetched, Alive
    <3> QED BY <3>3, <3>4, <2>2, <2>3
  <2>9. TranslationSettles'
    BY <1>7, <2>1, <2>3, <2>4, TranslationGoesOn DEF FaithInv, SameTranslation, NoteArrives
  <2>10. faithLimits' \in LimitsType
         /\ (faithLimits'.troubles = FaithTroubles => faithLimits.troubles = FaithTroubles)
    BY <1>1, <2>2, LimitsRunOut
  <2>11. BagFlows'
    BY <1>7, <2>1, <2>3, <2>4, <2>10 DEF FaithInv, BagFlows, BagToKeep, NoteArrives
  <2>12. FaithTypeOK'
    BY <1>7, <2>1, <2>2, <2>3, <2>4, <2>10 DEF FaithInv, FaithTypeOK, NoteArrives, LimitsType
  <2> QED BY <2>6, <2>7, <2>8, <2>9, <2>11, <2>12 DEF FaithInv
<1>8. CASE Tick
  <2>1. session # None /\ ~session.ending /\ session \in Sessions /\ (Time \/ UNCHANGED faithLimits)
    BY <1>8, <1>2 DEF Tick, Alive
  <2>2. PICK u \in PickedOnes(session) : Becomes(u)
    BY <1>8 DEF Tick
  <2>3. Follows(session, u) /\ SameTranslation(session, u) /\ u.bag = session.bag
    BY <1>1, <2>1, <2>2, PickAsks, AskingFollows
  <2> QED BY <1>1, <1>8, <2>1, <2>2, <2>3, LimitsRunOut, EventKeeps DEF Tick, LimitsType
<1>9. CASE SettingsChanged
  <2>1. session # None /\ ~session.ending /\ FaithClick /\ wanted' \in Other(wanted)
    BY <1>9 DEF SettingsChanged, Alive
  <2>2. wanted' \in Settings
    BY <2>1, <1>1 DEF Other, Settings
  <2>3. PICK u \in ApplySettings(session, wanted') : TakesSettings(session, u)
    BY <1>9 DEF SettingsChanged
  <2>4. Fitting(session) /\ FaithTypeOK
    BY <2>1 DEF FaithInv, Fitting, RequestsFit, LoadingIsFetched, Alive
  <2>5. session.settings.translation # session.bible =>
          \E r \in {loader.waiting, loader.loading, loader.done} \ {None} :
            r.gen = session.gen /\ r.id = session.settings.translation
    BY <2>1 DEF FaithInv, TranslationSettles, Alive
  <2>6. faithLimits.troubles = FaithTroubles => BagToKeep = drawn /\ session.bag = drawn
    BY <2>1 DEF FaithInv, BagFlows
  <2>7. faithLimits' \in LimitsType /\ faithLimits'.troubles = faithLimits.troubles
    BY <1>1, <2>1, LimitsRunOut
  <2>8. UNCHANGED <<store, today, drawn>>
    BY <1>9 DEF SettingsChanged
  <2> DEFINE chosen == wanted'
  <2>9. chosen \in Settings /\ u \in ApplySettings(session, chosen)
    BY <2>2, <2>3
  <2> HIDE DEF chosen
  <2> QED BY <1>2, <2>1, <2>2, <2>3, <2>4, <2>5, <2>6, <2>7, <2>8, <2>9, SettingsTaken
<1>10. CASE TranslationLoaded
  <2>1. session # None /\ ~session.ending /\ session \in Sessions /\ loader.done # None
        /\ loader.done \in LoadsDone /\ UNCHANGED <<store, wanted, today, drawn, faithLimits>>
        /\ loader' = [loader EXCEPT !.done = None]
    BY <1>10, <1>2 DEF TranslationLoaded, Alive, FaithInv, FaithTypeOK
  <2> DEFINE r == loader.done
             stale == r.gen # session.gen \/ r.id # session.settings.translation
  <2>2. r.id \in Translations /\ r.gen \in Nat
    BY <2>1 DEF LoadsDone
  <2>3. PICK u : /\ Follows(session, u) /\ u.bag = session.bag /\ u.gen = session.gen /\ Becomes(u)
                 /\ \/ stale /\ u.bible = session.bible /\ u.settings = session.settings
                    \/ u.settings.translation = u.bible
    <3>1. CASE stale
      <4>1. Becomes(session)
        BY <1>10, <3>1 DEF TranslationLoaded
      <4> QED BY <4>1, <3>1, <2>1, <1>2 DEF Follows
    <3>2. CASE ~stale /\ ~r.read
      <4> DEFINE u == [session EXCEPT !.settings.translation = session.bible]
      <4>1. Becomes(u)
        BY <1>10, <3>2 DEF TranslationLoaded
      <4>2. /\ u \in Sessions /\ u.noteGen = session.noteGen /\ u.ref = session.ref
            /\ u.bible = session.bible /\ u.settings.translation = session.bible
            /\ u.gen = session.gen /\ u.settings.commentary = session.settings.commentary
            /\ u.bag = session.bag /\ u.ending = session.ending /\ u.status = session.status
            /\ u.note = session.note /\ u.fetch = session.fetch /\ u.panels = session.panels
        BY <2>1 DEF Sessions, Settings
      <4> HIDE DEF u
      <4> QED BY <4>1, <4>2, <2>1, <1>2 DEF Follows, WellKept
    <3>3. CASE ~stale /\ r.read
      <4>1. PICK u \in OnBible([session EXCEPT !.bible = r.id]) : Becomes(u)
        BY <1>10, <3>3 DEF TranslationLoaded
      <4>2. /\ Follows(session, u) /\ u.bag = session.bag /\ u.bible = r.id
            /\ u.settings = session.settings /\ u.gen = session.gen
        BY <4>1, <2>1, <2>2, <1>1, <1>2, BibleFollows
      <4> QED BY <4>1, <4>2, <3>3
    <3> QED BY <3>1, <3>2, <3>3
  <2>4. Fitting(session) /\ saver \in SaverType /\ fetches \subseteq [gen : Nat, ref : Nat]
    BY <2>1 DEF FaithInv, Fitting, RequestsFit, LoadingIsFetched, Alive, FaithTypeOK, SaverType
  <2>5. /\ session' \in Sessions /\ session' # None /\ session'.ending = u.ending
        /\ session'.bible = u.bible /\ session'.settings = u.settings /\ session'.gen = u.gen
        /\ fetches' \subseteq [gen : Nat, ref : Nat] /\ saver' \in SaverType
        /\ SessionIsKept' /\ RequestsFit' /\ RestsWithSession' /\ LoadingIsFetched'
    BY <2>1, <2>3, <2>4, NotesGoOn
  <2>6. BagFlows'
    BY <2>1, <2>3, <2>4, <2>5, BagGoesOn DEF FaithInv, BagFlows
  <2>7. TranslationSettles'
    <3>1. CASE u.settings.translation = u.bible
      BY <3>1, <2>5 DEF TranslationSettles
    <3>2. CASE stale /\ u.bible = session.bible /\ u.settings = session.settings
      <4>1. loader'.waiting = loader.waiting /\ loader'.loading = loader.loading
        BY <2>1 DEF FaithInv, FaithTypeOK
      <4> QED BY <4>1, <3>2, <2>1, <2>3, <2>5 DEF FaithInv, TranslationSettles, Alive
    <3> QED BY <3>1, <3>2, <2>3
  <2>8. FaithTypeOK'
    BY <2>1, <2>5 DEF FaithInv, FaithTypeOK, SaverType
  <2> QED BY <2>5, <2>6, <2>7, <2>8 DEF FaithInv
<1>11. CASE Load
  <2>1. session # None /\ UNCHANGED <<store, wanted, session, fetches, saver, today, drawn>>
    BY <1>11 DEF Load, Alive
  <2> DEFINE Loader == [waiting : Loads \cup {None}, loading : Loads \cup {None},
                        done : LoadsDone \cup {None}]
  <2>2. /\ loader' \in Loader /\ faithLimits' \in LimitsType
        /\ faithLimits'.troubles = FaithTroubles => faithLimits.troubles = FaithTroubles
        /\ \A r \in {loader.waiting, loader.loading, loader.done} \ {None} :
             \E q \in {loader'.waiting, loader'.loading, loader'.done} \ {None} :
               q.gen = r.gen /\ q.id = r.id
    <3>0. loader \in Loader
      BY DEF FaithInv, FaithTypeOK
    <3>1. CASE /\ loader.waiting # None /\ loader.loading = None
               /\ loader' = [loader EXCEPT !.loading = loader.waiting, !.waiting = None]
               /\ UNCHANGED faithLimits
      BY <3>0, <3>1, <1>1
    <3>2. ASSUME loader.loading # None, loader.done = None, NEW read \in BOOLEAN,
                 IF read THEN UNCHANGED faithLimits ELSE Trouble,
                 loader' = [loader EXCEPT !.loading = None,
                              !.done = [id |-> loader.loading.id, gen |-> loader.loading.gen,
                                        read |-> read]]
          PROVE  /\ loader' \in Loader /\ faithLimits' \in LimitsType
                 /\ faithLimits'.troubles = FaithTroubles => faithLimits.troubles = FaithTroubles
                 /\ \A r \in {loader.waiting, loader.loading, loader.done} \ {None} :
                      \E q \in {loader'.waiting, loader'.loading, loader'.done} \ {None} :
                        q.gen = r.gen /\ q.id = r.id
      <4> DEFINE d == [id |-> loader.loading.id, gen |-> loader.loading.gen, read |-> read]
      <4>1. d \in LoadsDone /\ d # None
        BY <3>0, <3>2 DEF Loads, LoadsDone, FaithAssumption
      <4>2. d.id = loader.loading.id /\ d.gen = loader.loading.gen
        OBVIOUS
      <4>3. loader' = [loader EXCEPT !.loading = None, !.done = d]
        BY <3>2
      <4> HIDE DEF d
      <4>4. /\ loader' \in Loader /\ loader'.waiting = loader.waiting /\ loader'.loading = None
            /\ loader'.done = d
        BY <3>0, <4>1, <4>3
      <4>5. \A r \in {loader.waiting, loader.loading, loader.done} \ {None} :
              \E q \in {loader'.waiting, loader'.loading, loader'.done} \ {None} :
                q.gen = r.gen /\ q.id = r.id
        BY <4>1, <4>2, <4>4, <3>2
      <4>6. /\ faithLimits' \in LimitsType
            /\ faithLimits'.troubles = FaithTroubles => faithLimits.troubles = FaithTroubles
        BY <3>2, <1>1, LimitsRunOut
      <4> QED BY <4>4, <4>5, <4>6
    <3> QED BY <1>11, <3>1, <3>2 DEF Load
  <2>3. TranslationSettles'
    <3>1. SUFFICES ASSUME Alive, session.settings.translation # session.bible
                   PROVE  \E q \in {loader'.waiting, loader'.loading, loader'.done} \ {None} :
                            q.gen = session.gen /\ q.id = session.settings.translation
      BY <2>1 DEF TranslationSettles, Alive
    <3>2. PICK r \in {loader.waiting, loader.loading, loader.done} \ {None} :
            r.gen = session.gen /\ r.id = session.settings.translation
      BY <3>1 DEF FaithInv, TranslationSettles
    <3> QED BY <3>2, <2>2
  <2>4. FaithTypeOK'
    BY <2>1, <2>2 DEF FaithInv, FaithTypeOK, LimitsType
  <2>5. SessionIsKept' /\ RequestsFit' /\ RestsWithSession' /\ LoadingIsFetched' /\ BagFlows'
    BY <2>1, <2>2 DEF FaithInv, SessionIsKept, RequestsFit, RestsWithSession, LoadingIsFetched,
       Alive, BagFlows, BagToKeep
  <2> QED BY <2>3, <2>4, <2>5 DEF FaithInv
<1>12. CASE Drain
  <2>1. session # None /\ UNCHANGED <<wanted, session, fetches, loader, today, drawn>>
    BY <1>12 DEF Drain
  <2>2. saver \in SaverType /\ store \in [ref : Nat \cup {None}, bag : Bags \cup {None}]
    BY DEF FaithInv, FaithTypeOK, SaverType
  <2>3. /\ saver' \in SaverType /\ store' \in [ref : Nat \cup {None}, bag : Bags \cup {None}]
        /\ faithLimits' \in LimitsType
        /\ faithLimits'.troubles = FaithTroubles =>
             faithLimits.troubles = FaithTroubles /\ BagToKeep' = BagToKeep
    <3> DEFINE Writes == /\ saver.bag = None /\ saver.pending # None
                         /\ saver' = [pending |-> None, bag |-> saver.pending.bag]
                         /\ \/ /\ store' = [store EXCEPT !.ref = saver.pending.ref]
                               /\ UNCHANGED faithLimits
                            \/ Trouble /\ UNCHANGED store
               Wrote == /\ saver.bag # None /\ saver' = [saver EXCEPT !.bag = None]
                        /\ \/ store' = [store EXCEPT !.bag = saver.bag] /\ UNCHANGED faithLimits
                           \/ Trouble /\ UNCHANGED store
    <3>1. CASE Writes
      <4>1. saver.pending.bag \in Bags /\ saver.pending.ref \in Nat
        BY <3>1, <2>2 DEF SaverType, Saves
      <4>2. saver.pending.bag # None
        BY <4>1 DEF FaithAssumption
      <4>3. saver' \in SaverType /\ store' \in [ref : Nat \cup {None}, bag : Bags \cup {None}]
        BY <4>1, <3>1, <2>2 DEF SaverType
      <4>4. BagToKeep' = BagToKeep
        BY <4>2, <3>1 DEF BagToKeep
      <4> QED BY <4>3, <4>4, <3>1, <1>1, LimitsRunOut
    <3>2. CASE Wrote
      <4>1. saver' \in SaverType /\ store' \in [ref : Nat \cup {None}, bag : Bags \cup {None}]
            /\ saver'.pending = saver.pending /\ saver'.bag = None
        BY <3>2, <2>2 DEF SaverType
      <4>2. store' = [store EXCEPT !.bag = saver.bag] => BagToKeep' = BagToKeep
        BY <4>1, <3>2, <2>2 DEF BagToKeep
      <4> QED BY <4>1, <4>2, <3>2, <1>1, LimitsRunOut
    <3>3. Writes \/ Wrote
      BY <1>12 DEF Drain
    <3> HIDE DEF Writes, Wrote
    <3> QED BY <3>1, <3>2, <3>3
  <2>4. FaithTypeOK'
    BY <2>1, <2>3 DEF FaithInv, FaithTypeOK, SaverType, LimitsType
  <2>5. BagFlows'
    BY <2>1, <2>3 DEF FaithInv, BagFlows
  <2>6. SessionIsKept' /\ RequestsFit' /\ RestsWithSession' /\ LoadingIsFetched' /\ TranslationSettles'
    BY <2>1 DEF FaithInv, SessionIsKept, RequestsFit, RestsWithSession, LoadingIsFetched, Alive,
       TranslationSettles
  <2> QED BY <2>4, <2>5, <2>6 DEF FaithInv
<1>13. CASE FaithShuts
  <2>1. /\ session # None /\ session \in Sessions /\ FaithClick /\ fetches' = {}
        /\ loader' = NoLoads /\ UNCHANGED <<store, wanted, saver, today, drawn>>
        /\ session' = [session EXCEPT !.ending = TRUE]
    BY <1>13, <1>2 DEF FaithShuts, Alive
  <2>2. /\ session' \in Sessions /\ session' # None /\ session'.ending /\ ~session'.fetch
        /\ ~session'.save /\ WellKept(session') /\ session'.bag = session.bag
    BY <2>1, <1>2 DEF Sessions, WellKept, FaithAssumption
  <2>3. faithLimits' \in LimitsType /\ faithLimits'.troubles = faithLimits.troubles
    BY <1>1, <2>1, LimitsRunOut
  <2>4. FaithTypeOK'
    BY <2>1, <2>2, <2>3 DEF FaithInv, FaithTypeOK, LimitsType, NoLoads
  <2>5. BagFlows'
    BY <2>1, <2>2, <2>3 DEF FaithInv, BagFlows, BagToKeep
  <2>6. SessionIsKept' /\ RequestsFit' /\ RestsWithSession' /\ LoadingIsFetched' /\ TranslationSettles'
    BY <2>1, <2>2 DEF SessionIsKept, RequestsFit, RestsWithSession, LoadingIsFetched, Alive,
       TranslationSettles, WellKept
  <2> QED BY <2>4, <2>5, <2>6 DEF FaithInv
<1>14. CASE End
  <2>1. /\ session # None /\ session' = None /\ fetches' = {} /\ loader' = NoLoads
        /\ saver' = NoSave /\ UNCHANGED <<store, wanted, today, drawn>>
        /\ IF session.ending /\ Flushed THEN UNCHANGED faithLimits ELSE Trouble
    BY <1>14 DEF End
  <2>2. /\ faithLimits' \in LimitsType
        /\ faithLimits'.troubles = FaithTroubles =>
             faithLimits.troubles = FaithTroubles /\ saver = NoSave
    BY <2>1, <1>1, LimitsRunOut DEF Flushed
  <2>3. FaithTypeOK'
    BY <2>1, <2>2 DEF FaithInv, FaithTypeOK, LimitsType, NoLoads, NoSave
  <2>4. BagFlows'
    BY <2>1, <2>2 DEF FaithInv, BagFlows, BagToKeep
  <2>5. SessionIsKept' /\ RequestsFit' /\ RestsWithSession' /\ LoadingIsFetched' /\ TranslationSettles'
    BY <2>1 DEF SessionIsKept, RequestsFit, RestsWithSession, LoadingIsFetched, Alive,
       TranslationSettles
  <2> QED BY <2>3, <2>4, <2>5 DEF FaithInv
<1>15. CASE FaithStarts
  <2>1. /\ session = None /\ fetches = {} /\ loader = NoLoads /\ saver = NoSave
        /\ UNCHANGED <<store, wanted, today, drawn, faithLimits>> /\ FaithTypeOK
    BY <1>15 DEF FaithStarts, FaithInv, RestsWithSession
  <2>2. PICK v \in Pool : \E u \in ApplySettings(Restored(Fresh(Resolve(First, v))), wanted) :
          TakesSettings(Restored(Fresh(Resolve(First, v))), u)
    BY <1>15 DEF FaithStarts
  <2> DEFINE f == Fresh(Resolve(First, v))
             s == Restored(f)
             kept == IF store.ref = None THEN None ELSE Resolve(f.bible, store.ref)
  <2>3. Resolve(First, v) \in First /\ First \in Translations /\ First \subseteq Nat /\ None \notin Nat
    BY ResolveFinds DEF FaithAssumption
  <2>4. /\ f \in Sessions /\ f.bible = First /\ f.settings = DefaultSettings
        /\ f.ref = Resolve(First, v) /\ f.panels = 0 /\ f.status = "off" /\ ~f.ending /\ ~f.fetch
        /\ f.gen = 0 /\ f.noteGen = 0
    <3>1. DefaultSettings \in Settings /\ NoBag \in Bags
      BY DEF FaithAssumption, DefaultSettings, Settings, Modes, NoBag, Bags
    <3> QED BY <3>1, <2>3, <1>1 DEF Fresh, Sessions
  <2>5. s = [f EXCEPT !.bag = IF store.bag = None THEN NoBag ELSE store.bag,
                      !.ref = IF kept = None THEN @ ELSE kept]
    BY DEF Restored
  <2>6. kept \in First \cup {None}
    BY <2>1, <2>3, <2>4, ResolveFinds DEF FaithTypeOK
  <2>7. (IF store.bag = None THEN NoBag ELSE store.bag) \in Bags
    BY <2>1 DEF FaithTypeOK, NoBag, Bags
  <2> HIDE DEF f, kept
  <2>8. /\ s \in Sessions /\ s.bible = First /\ s.settings = DefaultSettings /\ s.ref \in First
        /\ s.panels = 0 /\ s.status = "off" /\ ~s.ending /\ ~s.fetch
        /\ s.bag = IF store.bag = None THEN NoBag ELSE store.bag
    <3> HIDE DEF s
    <3>1. (IF kept = None THEN f.ref ELSE kept) \in First
      BY <2>3, <2>4, <2>6
    <3>2. s = [f EXCEPT !.bag = IF store.bag = None THEN NoBag ELSE store.bag,
                        !.ref = IF kept = None THEN f.ref ELSE kept]
      BY <2>4, <2>5 DEF Sessions
    <3> DEFINE b == IF store.bag = None THEN NoBag ELSE store.bag
               e == IF kept = None THEN f.ref ELSE kept
    <3>3. b \in Bags /\ e \in First /\ e \in Nat /\ s = [f EXCEPT !.bag = b, !.ref = e]
      BY <2>7, <3>1, <3>2, <2>3
    <3>4. s.bag = b
      <4> HIDE DEF b, e
      <4> QED BY <3>3, <2>4 DEF Sessions
    <3>5. /\ s \in Sessions /\ s.bible = First /\ s.settings = DefaultSettings /\ s.ref \in First
          /\ s.panels = 0 /\ s.status = "off" /\ ~s.ending /\ ~s.fetch
      <4> HIDE DEF b, e
      <4> QED BY <3>3, <2>4 DEF Sessions
    <3> QED BY <3>4, <3>5
  <2>9. PICK u \in ApplySettings(s, wanted) : TakesSettings(s, u)
    BY <2>2 DEF f
  <2> HIDE DEF s
  <2>10. WellKept(s) /\ Fitting(s) /\ s.settings.translation = s.bible
    BY <2>1, <2>8 DEF WellKept, Fitting, DefaultSettings
  <2>11. faithLimits.troubles = FaithTroubles => BagToKeep = drawn /\ s.bag = drawn
    BY <2>1, <2>8 DEF FaithInv, BagFlows, BagToKeep, NoSave
  <2> QED BY <1>1, <2>1, <2>8, <2>9, <2>10, <2>11, SettingsTaken
<1>16. CASE Midnight
  <2>1. today' \in Nat /\ faithLimits' \in LimitsType /\ faithLimits'.troubles = faithLimits.troubles
    BY <1>1, <1>16, LimitsRunOut DEF Midnight
  <2> QED BY <1>16, <2>1 DEF Midnight, FaithInv, FaithTypeOK, SessionIsKept, RequestsFit,
            RestsWithSession, LoadingIsFetched, TranslationSettles, BagFlows, BagToKeep, Alive,
            LimitsType
<1>17. CASE UNCHANGED faithVars
  BY <1>17 DEF faithVars, FaithInv, FaithTypeOK, SessionIsKept, RequestsFit, RestsWithSession,
               LoadingIsFetched, TranslationSettles, BagFlows, BagToKeep, Alive
<1> QED
  BY <1>3, <1>4, <1>5, <1>6, <1>7, <1>8, <1>9, <1>10, <1>11, <1>12, <1>13, <1>14, <1>15,
     <1>16, <1>17
  DEF FaithNext, Panel, Events

\* VersesAreServed, for any translations, pool and prayers, and any number of events: a
\* note is of the verse above it and the verse of the translation shown, a panel that loads
\* has its request, the translation becomes the one of the settings, and no prayer is drawn
\* twice (session.go, bag.go, main.go).
THEOREM VersesStayServed == FaithAssumption => (FaithSpec => []VersesAreServed)
<1> SUFFICES ASSUME FaithAssumption PROVE FaithSpec => []VersesAreServed
  OBVIOUS
<1>1. FaithInit => FaithInv
  BY FaithStarting
<1>2. FaithInv /\ [FaithNext]_faithVars => FaithInv'
  BY VersesStep
<1>3. FaithInv => VersesAreServed
  <2> SUFFICES ASSUME FaithInv PROVE VersesAreServed
    OBVIOUS
  <2>1. NoteIsOfVerse
    BY DEF FaithInv, SessionIsKept, WellKept, NoteIsOfVerse
  <2>2. BagSurvives
    <3>1. SUFFICES ASSUME faithLimits.troubles = FaithTroubles, drawn # NoBag, session = None
                   PROVE  store.bag = drawn
      BY DEF BagSurvives, FaithInv, BagFlows
    <3> QED BY <3>1 DEF FaithInv, BagFlows, BagToKeep, RestsWithSession, NoSave
  <2> QED BY <2>1, <2>2 DEF FaithInv, VersesAreServed
<1> QED BY <1>1, <1>2, <1>3, PTL DEF FaithSpec

----------------------------------------------------------------------------
(* AI usage: the alerts and the rounds *)

Ledgers == [Records -> Alerts \cup {None}]
Usages ==
  [tracked : SUBSET Providers, alerts : BOOLEAN, generation : Nat, loading : BOOLEAN,
   report : Reports, ledger : Ledgers, load : {"no", "asked", "read"},
   pending : Pendings \cup {None}]
Workers ==
  [at : {"idle", "warm", "round", "report"}, job : Rounds \cup {None},
   generation : Nat \cup {None}, warmed : BOOLEAN, held : Completions \cup {None}]
\* The schedule of a loop may be anything: nothing that is proved hangs on it.
Loops(S) ==
  [tracked : S, due : S, floor : S, fails : S, good : Reports, latest : Reports, source : S]

AiTypeOK ==
  /\ quota \in [Providers -> [pct : Percents, window : Nat, reset : Nat]]
  /\ \E S : aiLoop \in Loops(S)
  /\ cache \in [report : Reports, age : Nat]
  /\ usage \in Usages
  /\ queue \in Rounds \cup {None}
  /\ worker \in Workers
  /\ done \in Completions \cup {None}
  /\ unwritten \in Ledgers \cup {None}
  /\ saved \in Ledgers
  /\ told \in [Records -> Notices \cup {None}]

\* The worker has a request exactly while it works, and a completion of that request
\* exactly while it delivers one.
WorkerFits ==
  /\ worker.at = "idle" <=> worker.job = None
  /\ worker.at \in {"warm", "report"} <=> worker.held # None
  /\ worker.held # None =>
       /\ worker.held.newest = worker.job.newest
       /\ worker.held.generation = worker.job.generation
       /\ worker.held.warm <=> worker.at = "warm"
  /\ done # None /\ done.warm =>
       worker.at \in {"round", "report"} /\ done.generation = worker.job.generation

\* The newest request is the last one on the way: what waits is newer than what the worker
\* has, and that is newer than what comes back, unless it is the warm start of the same.
NewestIsLast ==
  /\ queue # None => queue.newest
  /\ worker.job # None => (worker.job.newest <=> queue = None)
  /\ done # None => (done.newest <=> queue = None /\ (worker.job = None \/ done.warm))

\* The newest request is of the settings in force.
NewestIsCurrent ==
  /\ queue # None => queue.generation = usage.generation
  /\ queue = None /\ worker.job # None => worker.job.generation = usage.generation
  /\ queue = None /\ worker.job = None /\ done # None => done.generation = usage.generation

NothingAsked == queue = None /\ worker.job = None /\ done = None

\* The button is busy only while something is on the way.
BusyFits == usage.loading => usage.pending # None \/ ~NothingAsked

\* Nothing is asked of the worker before the ledger is read.
LedgerIsFirst == usage.load # "read" => NothingAsked

\* The ledger that a start would read if nothing were lost.
Kept == IF unwritten = None THEN saved ELSE unwritten

\* A level is told of once for each loss of its record, and once more while it is in the
\* ledger: so what is told of only once is in the ledger that is kept, and in the one the
\* process has read.
Accounted(of, ledger) ==
  \A r \in Records : of[r] # None =>
    of[r].times <=
      of[r].losses + (IF ledger[r] # None /\ ledger[r].reset = of[r].reset THEN 1 ELSE 0)
NoticesAreKept ==
  /\ Accounted(told, Kept)
  /\ usage.load = "read" => Accounted(told, usage.ledger)

\* Nothing waits in the saver of a process that has not read the ledger.
SavesAfterReading == unwritten # None => usage.load = "read"

AiInv ==
  /\ AiTypeOK /\ WorkerFits /\ NewestIsLast /\ NewestIsCurrent /\ BusyFits /\ LedgerIsFirst
  /\ SavesAfterReading /\ NoticesAreKept

----------------------------------------------------------------------------
(* Readings, reports and ledgers *)

LEMMA AiNone ==
  AiAssumption => /\ None \notin Alerts /\ None \notin Notices /\ None \notin Readings
                  /\ None \notin Rounds /\ None \notin Completions /\ None \notin Pendings
                  /\ None \notin Ledgers
BY DEF AiAssumption, Ledgers

LEMMA ReadingKept ==
  ASSUME NEW reading \in Readings
  PROVE  /\ Aged(reading) \in Readings
         /\ [reading EXCEPT !.stale = TRUE] \in Readings
         /\ OlderReading(reading) \in Readings \cup {None}
<1>1. [reading EXCEPT !.stale = TRUE] \in Readings
  BY DEF Readings
<1>2. Least(reading.age + 1, OldAge) \in Nat
  BY DEF Readings, Least, OldAge, RefreshUnit
<1>3. [reading EXCEPT !.age = Least(reading.age + 1, OldAge)] \in Readings
  BY <1>2 DEF Readings
<1> QED BY <1>1, <1>3 DEF Aged, OlderReading, Older

LEMMA ReportsAge ==
  ASSUME NEW report \in Reports
  PROVE  /\ [p \in Providers |-> OlderReading(report[p])] \in Reports
         /\ [p \in Providers |-> IF report[p] = None THEN None ELSE Aged(report[p])] \in Reports
<1>1. \A p \in Providers : report[p] \in Readings \cup {None}
  BY DEF Reports
<1>2. \A p \in Providers : OlderReading(report[p]) \in Readings \cup {None}
  BY <1>1, ReadingKept DEF OlderReading
<1>3. \A p \in Providers :
        (IF report[p] = None THEN None ELSE Aged(report[p])) \in Readings \cup {None}
  BY <1>1, ReadingKept
<1> QED BY <1>2, <1>3 DEF Reports

LEMMA LedgersAge ==
  ASSUME AiAssumption, NEW ledger \in Ledgers
  PROVE  LET older == OlderLedger(ledger) IN
         /\ older \in Ledgers
         /\ \A r \in Records : /\ older[r] = None <=> ledger[r] = None
                               /\ ledger[r] # None => older[r].reset = ledger[r].reset
<1>1. ASSUME NEW a \in Alerts
      PROVE  [a EXCEPT !.age = Older(@, Cooldown)] \in Alerts
             /\ [a EXCEPT !.age = Older(@, Cooldown)].reset = a.reset
  <2>1. Least(a.age + 1, Cooldown) \in Nat
    BY DEF Alerts, Least, AiAssumption
  <2> QED BY <2>1 DEF Alerts, Older
<1>2. \A r \in Records : ledger[r] \in Alerts \cup {None}
  BY DEF Ledgers
<1>3. \A r \in Records : /\ OlderRecord(ledger[r]) \in Alerts \cup {None}
                         /\ OlderRecord(ledger[r]) = None <=> ledger[r] = None
                         /\ ledger[r] # None => OlderRecord(ledger[r]).reset = ledger[r].reset
  <2> TAKE r \in Records
  <2>1. CASE ledger[r] = None
    BY <2>1 DEF OlderRecord
  <2>2. CASE ledger[r] # None
    <3>1. ledger[r] \in Alerts
      BY <1>2, <2>2
    <3> QED BY <3>1, <2>2, <1>1, AiNone DEF OlderRecord
  <2> QED BY <2>1, <2>2
<1> QED BY <1>3 DEF Ledgers, OlderLedger

\* What is told of when a ledger is replaced by one that may know less.
LEMMA LossesAccounted ==
  ASSUME AiAssumption, told \in [Records -> Notices \cup {None}], NEW before, NEW after,
         Accounted(told, before)
  PROVE  /\ Forgotten(before, after) \in [Records -> Notices \cup {None}]
         /\ Accounted(Forgotten(before, after), after)
         /\ Accounted(Forgotten(before, after), before)
<1> DEFINE new == Forgotten(before, after)
           In(n, ledger, r) ==
             n.times <= n.losses + (IF ledger[r] # None /\ ledger[r].reset = n.reset THEN 1 ELSE 0)
<1>1. ASSUME NEW r \in Records
      PROVE  /\ new[r] \in Notices \cup {None}
             /\ new[r] # None => In(new[r], after, r) /\ In(new[r], before, r)
  <2>1. told[r] # None => told[r] \in Notices /\ In(told[r], before, r)
    BY DEF Accounted
  <2>2. CASE told[r] # None /\ Known(before, r) /\ ~Known(after, r)
    <3>1. new[r] = [told[r] EXCEPT !.losses = @ + 1]
      BY <2>2 DEF Forgotten
    <3> QED BY <2>1, <2>2, <3>1 DEF Notices, Known
  <2>3. CASE ~(told[r] # None /\ Known(before, r) /\ ~Known(after, r))
    <3>1. new[r] = told[r]
      BY <2>3 DEF Forgotten
    <3> QED BY <2>1, <2>3, <3>1 DEF Notices, Known
  <2> QED BY <2>2, <2>3
<1>2. new \in [Records -> Notices \cup {None}]
  BY <1>1 DEF Forgotten
<1> HIDE DEF new
<1> QED BY <1>1, <1>2 DEF Accounted, new

\* Ageing does not change what is accounted for.
LEMMA OlderAccounted ==
  ASSUME AiAssumption, NEW of, NEW ledger \in Ledgers, Accounted(of, ledger)
  PROVE  Accounted(of, OlderLedger(ledger))
BY LedgersAge DEF Accounted

\* The ledger after a report: what is noticed is not yet covered by the ledger.
LEMMA AlertsChecked ==
  ASSUME AiAssumption, NEW report \in Reports, NEW ledger \in Ledgers
  PROVE  /\ CheckAlerts(report, ledger) \in Ledgers
         /\ \A r \in Noticed(report, ledger) :
              /\ report[r[1]].reset \in Nat
              /\ ledger[r] # None => ledger[r].reset # report[r[1]].reset
<1>1. \A r \in Records : r[1] \in Providers /\ ledger[r] \in Alerts \cup {None}
  BY DEF Records, Ledgers
<1>2. \A r \in Noticed(report, ledger) : r \in Records /\ report[r[1]].reset \in Nat
  <2> TAKE r \in Noticed(report, ledger)
  <2>1. r \in Records /\ report[r[1]] # None
    BY DEF Noticed, Alertable
  <2>2. report[r[1]] \in Readings
    BY <2>1, <1>1 DEF Reports
  <2> QED BY <2>1, <2>2 DEF Readings
<1>3. \A r \in Noticed(report, ledger) : ledger[r] # None => ledger[r].reset # report[r[1]].reset
  BY <1>1, <1>2 DEF Noticed, Covers, Alerts
<1>4. \A r \in Noticed(report, ledger) : [reset |-> report[r[1]].reset, age |-> 0] \in Alerts
  BY <1>2 DEF Alerts
<1>5. CheckAlerts(report, ledger) \in Ledgers
  BY <1>1, <1>4 DEF CheckAlerts, Ledgers
<1> QED BY <1>2, <1>3, <1>5

----------------------------------------------------------------------------
(* The collector loop *)

LEMMA LoopWarmed ==
  ASSUME cache \in [report : Reports, age : Nat], NEW S, NEW l \in Loops(S)
  PROVE  \E T : Warmed(l) \in Loops(T)
<1> DEFINE kept == [p \in Providers |-> IF cache.report[p] = None THEN None
                                        ELSE Aged(cache.report[p])]
           fresh == {p \in Providers : kept[p] # None /\ kept[p].state = "fresh"}
           left(units) == Less(Most(units, Guard), cache.age)
           latest == [p \in Providers |-> IF kept[p] # None THEN kept[p] ELSE l.latest[p]]
           good == [p \in Providers |-> IF p \in fresh THEN kept[p] ELSE l.good[p]]
           floor == [p \in Providers |-> IF p \in fresh THEN left(FloorOf(l, p)) ELSE l.floor[p]]
           schedule == [p \in Providers |-> IF p \in fresh
                                            THEN left(Most(RefreshUnit, FloorOf(l, p)))
                                            ELSE l.due[p]]
<1>1. kept \in Reports
  BY ReportsAge
<1>2. l.latest \in Reports /\ l.good \in Reports
  BY DEF Loops
<1>3. latest \in Reports /\ good \in Reports
  <2> HIDE DEF kept, fresh
  <2> QED BY <1>1, <1>2 DEF Reports
<1>4. Warmed(l) = [l EXCEPT !.latest = latest, !.good = good, !.floor = floor, !.due = schedule]
  BY DEF Warmed, Loops
<1> HIDE DEF latest, good, floor, schedule
<1>5. Warmed(l) \in Loops(S \cup {floor, schedule})
  BY <1>3, <1>4 DEF Loops
<1> QED BY <1>5

LEMMA LoopReconfigured ==
  ASSUME NEW S, NEW l \in Loops(S), NEW tracked
  PROVE  \E T : Reconfigured(l, tracked) \in Loops(T)
<1> DEFINE source == [p \in Providers |-> 0]
<1>1. Reconfigured(l, tracked) = [l EXCEPT !.tracked = tracked, !.source = source]
  BY DEF Reconfigured
<1> HIDE DEF source
<1>2. Reconfigured(l, tracked) \in Loops(S \cup {tracked, source})
  BY <1>1 DEF Loops
<1> QED BY <1>2

LEMMA LoopForced ==
  ASSUME NEW S, NEW l \in Loops(S), NEW ids
  PROVE  \E T : Forced(l, ids) \in Loops(T)
<1> DEFINE schedule == [p \in Providers |-> IF p \in ids THEN 0 ELSE l.due[p]]
           fails == [p \in Providers |-> IF p \in ids THEN 0 ELSE l.fails[p]]
<1>1. Forced(l, ids) = [l EXCEPT !.due = schedule, !.fails = fails]
  BY DEF Forced, Loops
<1> HIDE DEF schedule, fails
<1>2. Forced(l, ids) \in Loops(S \cup {schedule, fails})
  BY <1>1 DEF Loops
<1> QED BY <1>2

LEMMA FetchedReads ==
  ASSUME quota \in [Providers -> [pct : Percents, window : Nat, reset : Nat]],
         NEW S, NEW l \in Loops(S), NEW p \in Providers
  PROVE  Fetched(l, p).latest \in Readings /\ Fetched(l, p).good \in Readings \cup {None}
<1>1. l.good[p] \in Readings \cup {None}
  BY DEF Loops, Reports
<1>2. /\ Reading("setup", None, 0) \in Readings /\ Reading("fault", None, 0) \in Readings
      /\ Reading("nodata", None, 0) \in Readings
  BY DEF Reading, Readings
<1>3. Reading("fresh", quota[p].pct, quota[p].reset) \in Readings
  BY DEF Reading, Readings
<1>4. l.good[p] # None => [l.good[p] EXCEPT !.stale = TRUE] \in Readings
  BY <1>1, ReadingKept
<1>5. CASE Present(p) = {}
  BY <1>1, <1>2, <1>5 DEF Fetched
<1>6. CASE Present(p) # {} /\ ~Works(l, p)
  BY <1>1, <1>2, <1>4, <1>6 DEF Fetched
<1>7. CASE Present(p) # {} /\ Works(l, p)
  BY <1>1, <1>2, <1>3, <1>7 DEF Fetched
<1> QED BY <1>5, <1>6, <1>7

LEMMA LoopRounded ==
  ASSUME quota \in [Providers -> [pct : Percents, window : Nat, reset : Nat]],
         NEW S, NEW l \in Loops(S), NEW force
  PROVE  \E T : Rounded(l, force) \in Loops(T)
<1> DEFINE visited == Visited(l, force)
           got == [p \in visited |-> Fetched(l, p)]
           schedule == [p \in Providers |-> IF p \in visited THEN got[p].due ELSE l.due[p]]
           floor == [p \in Providers |-> IF p \in visited THEN got[p].floor ELSE l.floor[p]]
           fails == [p \in Providers |-> IF p \in visited THEN got[p].fails ELSE l.fails[p]]
           good == [p \in Providers |-> IF p \in visited THEN got[p].good ELSE l.good[p]]
           latest == [p \in Providers |-> IF p \in visited THEN got[p].latest ELSE l.latest[p]]
           source == [p \in Providers |-> IF p \in visited THEN got[p].source ELSE l.source[p]]
<1>1. l.good \in Reports /\ l.latest \in Reports
  BY DEF Loops
<1>2. good \in Reports /\ latest \in Reports
  <2>1. \A p \in Providers : p \in visited =>
          got[p].latest \in Readings /\ got[p].good \in Readings \cup {None}
    BY FetchedReads
  <2> HIDE DEF got, visited
  <2> QED BY <1>1, <2>1 DEF Reports
<1>3. Rounded(l, force) = [l EXCEPT !.due = schedule, !.floor = floor, !.fails = fails, !.good = good,
                                    !.latest = latest, !.source = source]
  BY DEF Rounded, Loops
<1> HIDE DEF schedule, floor, fails, good, latest, source
<1>4. Rounded(l, force) \in Loops(S \cup {schedule, floor, fails, source})
  BY <1>2, <1>3 DEF Loops
<1> QED BY <1>4

LEMMA LoopReports ==
  ASSUME NEW S, NEW l \in Loops(S)
  PROVE  ReportOf(l) \in Reports
BY DEF Loops, ReportOf, Reports

----------------------------------------------------------------------------
(* A round is asked for *)

\* The types of what lies between the process loop and its worker.
AsideTypes ==
  /\ queue \in Rounds \cup {None} /\ worker \in Workers /\ done \in Completions \cup {None}

LEMMA RequestKeeps ==
  ASSUME AiAssumption, AsideTypes, WorkerFits, NEW u \in Usages, u.load # "read" => NothingAsked,
         NEW force \in BOOLEAN, NEW retries \in SUBSET Providers,
         RequestRound(u, force, retries)
  PROVE  /\ usage' \in Usages /\ AsideTypes' /\ WorkerFits' /\ NewestIsLast' /\ NewestIsCurrent'
         /\ BusyFits' /\ LedgerIsFirst'
         /\ usage'.ledger = u.ledger /\ usage'.load = u.load
<1>1. CASE u.load # "read"
  <2> DEFINE pending == Joined(u.pending, force, retries)
  <2>1. pending \in Pendings /\ pending # None
    <3>1. pending \in Pendings
      BY DEF Joined, Usages, Pendings
    <3> QED BY <3>1, AiNone
  <2>2. usage' = [u EXCEPT !.pending = pending, !.loading = TRUE] /\ UNCHANGED <<queue, worker, done>>
    BY <1>1 DEF RequestRound, Usages
  <2> HIDE DEF pending
  <2>3. /\ usage' \in Usages /\ usage'.pending # None /\ usage'.ledger = u.ledger
        /\ usage'.load = u.load
    BY <2>1, <2>2 DEF Usages
  <2> QED BY <1>1, <2>2, <2>3 DEF AsideTypes, WorkerFits, NewestIsLast, NewestIsCurrent, BusyFits,
            LedgerIsFirst, NothingAsked
<1>2. CASE u.load = "read"
  <2> DEFINE new == [newest |-> TRUE, generation |-> u.generation, tracked |-> u.tracked,
                     force |-> force, retries |-> retries]
             asked == Merged(new)
  <2>1. /\ usage' = [u EXCEPT !.loading = TRUE] /\ queue' = asked
        /\ worker' = [worker EXCEPT !.job = Superseded(@), !.held = Superseded(@)]
        /\ done' = Superseded(done)
    BY <1>2 DEF RequestRound
  <2>2. asked \in Rounds /\ asked.newest /\ asked.generation = u.generation
    <3>1. new \in Rounds /\ new.newest /\ new.generation = u.generation
      BY DEF Rounds, Usages
    <3>2. CASE queue = None
      BY <3>1, <3>2 DEF Merged
    <3>3. CASE queue # None
      <4>1. queue.force \in BOOLEAN /\ queue.retries \in SUBSET Providers
        BY <3>3 DEF AsideTypes, Rounds
      <4>2. asked = [new EXCEPT !.force = @ \/ queue.force, !.retries = @ \cup queue.retries]
        BY <3>3 DEF Merged
      <4> HIDE DEF asked
      <4> QED BY <3>1, <4>1, <4>2 DEF Rounds
    <3> QED BY <3>2, <3>3
  <2>3. ASSUME NEW x, x \in Rounds \/ x \in Completions
        PROVE  /\ Superseded(x) # None /\ x # None /\ ~Superseded(x).newest
               /\ Superseded(x).generation = x.generation
               /\ x \in Rounds => Superseded(x) \in Rounds
               /\ x \in Completions => Superseded(x) \in Completions /\ Superseded(x).warm = x.warm
    <3>1. x # None
      BY <2>3, AiNone
    <3>2. Superseded(x) = [x EXCEPT !.newest = FALSE]
      BY <3>1 DEF Superseded
    <3>3. CASE x \in Rounds
      <4>1. Superseded(x) \in Rounds /\ ~Superseded(x).newest /\ Superseded(x).generation = x.generation
        BY <3>2, <3>3 DEF Rounds
      <4>2. x \in Completions => Superseded(x) \in Completions /\ Superseded(x).warm = x.warm
        BY <3>2 DEF Completions
      <4> QED BY <4>1, <4>2, <3>1, AiNone
    <3>4. CASE x \in Completions
      <4>1. Superseded(x) \in Completions /\ ~Superseded(x).newest
            /\ Superseded(x).generation = x.generation /\ Superseded(x).warm = x.warm
        BY <3>2, <3>4 DEF Completions
      <4>2. x \in Rounds => Superseded(x) \in Rounds
        BY <3>2 DEF Rounds
      <4> QED BY <4>1, <4>2, <3>1, AiNone
    <3> QED BY <2>3, <3>3, <3>4
  <2>4. Superseded(None) = None
    BY DEF Superseded
  <2> HIDE DEF asked
  <2>5. /\ usage' \in Usages /\ usage'.ledger = u.ledger /\ usage'.load = u.load
        /\ usage'.generation = u.generation
    BY <2>1 DEF Usages
  <2>6. queue' \in Rounds /\ queue' # None /\ queue'.newest /\ queue'.generation = usage'.generation
    BY <2>1, <2>2, <2>5, AiNone
  <2>7. /\ worker'.job = Superseded(worker.job) /\ worker'.held = Superseded(worker.held)
        /\ worker'.at = worker.at /\ worker'.generation = worker.generation
        /\ worker'.warmed = worker.warmed
        /\ worker' \in [at : {"idle", "warm", "round", "report"}, job : {Superseded(worker.job)},
                        generation : Nat \cup {None}, warmed : BOOLEAN,
                        held : {Superseded(worker.held)}]
    BY <2>1 DEF AsideTypes, Workers
  <2>8. /\ worker'.job = None <=> worker.job = None
        /\ worker.job # None => /\ worker'.job \in Rounds /\ ~worker'.job.newest
                                /\ worker'.job.generation = worker.job.generation
    BY <2>3, <2>4, <2>7 DEF AsideTypes, Workers
  <2>9. /\ worker'.held = None <=> worker.held = None
        /\ worker.held # None => /\ worker'.held \in Completions /\ ~worker'.held.newest
                                 /\ worker'.held.generation = worker.held.generation
                                 /\ worker'.held.warm = worker.held.warm
    BY <2>3, <2>4, <2>7 DEF AsideTypes, Workers
  <2>10. /\ done' = None <=> done = None
         /\ done # None => /\ done' \in Completions /\ ~done'.newest
                           /\ done'.generation = done.generation /\ done'.warm = done.warm
    BY <2>1, <2>3, <2>4 DEF AsideTypes
  <2>11. AsideTypes'
    BY <2>6, <2>7, <2>8, <2>9, <2>10 DEF AsideTypes, Workers
  <2>12. WorkerFits'
    <3>1. worker.held # None => worker.job # None
      BY DEF WorkerFits
    <3>2. worker.held # None => worker'.held.newest = worker'.job.newest
      <4>1. worker.held \in Completions \cup {None} /\ worker.job \in Rounds \cup {None}
        BY DEF AsideTypes, Workers
      <4>2. worker.held # None =>
              worker'.held.newest \in BOOLEAN /\ worker'.job.newest \in BOOLEAN
        BY <3>1, <2>8, <2>9 DEF Rounds, Completions
      <4> QED BY <3>1, <4>2, <2>8, <2>9
    <3> QED BY <3>1, <3>2, <2>7, <2>8, <2>9, <2>10 DEF WorkerFits
  <2>13. NewestIsLast' /\ NewestIsCurrent' /\ BusyFits' /\ LedgerIsFirst'
    BY <2>5, <2>6, <2>8, <2>10, <1>2 DEF NewestIsLast, NewestIsCurrent, BusyFits, LedgerIsFirst,
       NothingAsked
  <2> QED BY <2>5, <2>11, <2>12, <2>13
<1> QED BY <1>1, <1>2 DEF Usages

----------------------------------------------------------------------------
(* The steps *)

LEMMA FreshIsLoop == \E S : FreshLoop \in Loops(S)
<1> DEFINE none == [p \in Providers |-> None]
           zero == [p \in Providers |-> 0]
<1>1. none \in Reports
  BY DEF Reports
<1>2. FreshLoop = [tracked |-> {}, due |-> zero, floor |-> zero, fails |-> zero, good |-> none,
                   latest |-> none, source |-> zero]
  BY DEF FreshLoop
<1> HIDE DEF none, zero
<1>3. FreshLoop \in Loops({{}, zero})
  BY <1>1, <1>2 DEF Loops
<1> QED BY <1>3

LEMMA AiStarting == ASSUME AiAssumption, AiInit PROVE AiInv
<1>1. NoReport \in Reports /\ NoRecords \in Ledgers
  BY DEF NoReport, Reports, NoRecords, Ledgers
<1>2. UsageStart \in Usages
  BY <1>1 DEF UsageStart, Usages
<1>3. WorkerStart \in Workers
  BY DEF WorkerStart, Workers
<1>4. \E S : FreshLoop \in Loops(S)
  BY FreshIsLoop
<1>5. quota \in [Providers -> [pct : Percents, window : Nat, reset : Nat]]
  BY DEF AiInit
<1>6. cache \in [report : Reports, age : Nat]
  BY <1>1 DEF AiInit, OldAge, RefreshUnit
<1>7. told \in [Records -> Notices \cup {None}]
  BY DEF AiInit, NoRecords
<1>8. AiTypeOK
  BY <1>1, <1>2, <1>3, <1>4, <1>5, <1>6, <1>7 DEF AiInit, AiTypeOK
<1>9. /\ WorkerFits /\ NewestIsLast /\ NewestIsCurrent /\ BusyFits /\ LedgerIsFirst
      /\ SavesAfterReading /\ NoticesAreKept
  BY DEF AiInit, WorkerStart, UsageStart, NoRecords, WorkerFits, NewestIsLast, NewestIsCurrent,
     BusyFits, LedgerIsFirst, NoticesAreKept, SavesAfterReading, Accounted, NothingAsked
<1> QED BY <1>8, <1>9 DEF AiInv

\* What a round that is asked for leaves to show of the invariant.
LEMMA AsksKeep ==
  ASSUME AiAssumption, AiInv, NEW u \in Usages, u.load # "read" => NothingAsked,
         NEW force \in BOOLEAN, NEW retries \in SUBSET Providers,
         RequestRound(u, force, retries),
         \E S : aiLoop' \in Loops(S), cache' \in [report : Reports, age : Nat],
         unwritten' \in Ledgers \cup {None}, saved' \in Ledgers,
         told' \in [Records -> Notices \cup {None}], quota' = quota,
         unwritten' # None => u.load = "read",
         Accounted(told', Kept'), u.load = "read" => Accounted(told', u.ledger)
  PROVE  AiInv'
<1>1. AsideTypes /\ WorkerFits
  BY DEF AiInv, AiTypeOK, AsideTypes
<1>2. /\ usage' \in Usages /\ AsideTypes' /\ WorkerFits' /\ NewestIsLast' /\ NewestIsCurrent'
      /\ BusyFits' /\ LedgerIsFirst'
      /\ usage'.ledger = u.ledger /\ usage'.load = u.load
  BY <1>1, RequestKeeps
<1>3. AiTypeOK'
  BY <1>2 DEF AiInv, AiTypeOK, AsideTypes
<1>4. SavesAfterReading' /\ NoticesAreKept'
  BY <1>2 DEF SavesAfterReading, NoticesAreKept, Accounted
<1> QED BY <1>2, <1>3, <1>4 DEF AiInv

LEMMA TakenReport ==
  ASSUME AiAssumption, AiInv, done # None, ~done.warm, usage.load = "read"
  PROVE  LET ledger == CheckAlerts(done.report, usage.ledger)
             new == [r \in Records |->
                       IF r \in Rearmed(done.report) THEN None
                       ELSE IF r \in Noticed(done.report, usage.ledger)
                       THEN Again(told[r], done.report[r[1]].reset)
                       ELSE told[r]]
         IN /\ ledger \in Ledgers /\ new \in [Records -> Notices \cup {None}]
            /\ Accounted(new, ledger)
<1> DEFINE report == done.report
           ledger == usage.ledger
           new == [r \in Records |-> IF r \in Rearmed(report) THEN None
                                     ELSE IF r \in Noticed(report, ledger)
                                     THEN Again(told[r], report[r[1]].reset)
                                     ELSE told[r]]
<1>1. report \in Reports /\ ledger \in Ledgers
  BY DEF AiInv, AiTypeOK, Completions, Usages
<1>2. \A r \in Records : told[r] \in Notices \cup {None}
  BY DEF AiInv, AiTypeOK
<1>3. Accounted(told, ledger)
  BY DEF AiInv, NoticesAreKept
<1>4. /\ CheckAlerts(report, ledger) \in Ledgers
      /\ \A r \in Noticed(report, ledger) :
           /\ report[r[1]].reset \in Nat
           /\ ledger[r] # None => ledger[r].reset # report[r[1]].reset
  <2> HIDE DEF report, ledger
  <2> QED BY <1>1, AlertsChecked
<1> HIDE DEF report, ledger
<1> DEFINE checked == CheckAlerts(report, ledger)
           In(n, l, r) == n.times <= n.losses + (IF l[r] # None /\ l[r].reset = n.reset THEN 1 ELSE 0)
<1>5. ASSUME NEW r \in Records
      PROVE  /\ new[r] \in Notices \cup {None}
             /\ new[r] # None => In(new[r], checked, r)
  <2>1. CASE r \in Rearmed(report)
    BY <2>1
  <2>2. CASE r \notin Rearmed(report) /\ r \in Noticed(report, ledger)
    <3> DEFINE reset == report[r[1]].reset
    <3>1. new[r] = Again(told[r], reset)
      BY <2>2
    <3>2. checked[r] = [reset |-> reset, age |-> 0]
      BY <2>2 DEF CheckAlerts
    <3>3. reset \in Nat /\ (ledger[r] # None => ledger[r].reset # reset)
      BY <2>2, <1>4
    <3>4. checked[r] # None /\ checked[r].reset = reset
      <4>1. [reset |-> reset, age |-> 0] \in Alerts
        BY <3>3 DEF Alerts
      <4> QED BY <3>2, <4>1, AiNone
    <3>5. CASE told[r] # None /\ told[r].reset = reset
      <4>1. told[r] \in Notices /\ told[r].times <= told[r].losses
        BY <1>2, <1>3, <3>3, <3>5 DEF Accounted, Notices
      <4>2. new[r] = [told[r] EXCEPT !.times = @ + 1]
        BY <3>1, <3>5 DEF Again
      <4> HIDE DEF new, checked, reset
      <4>3. /\ new[r] \in Notices /\ new[r].times = told[r].times + 1
            /\ new[r].losses = told[r].losses /\ new[r].reset = told[r].reset
        BY <4>1, <4>2 DEF Notices
      <4> QED BY <3>4, <3>5, <4>1, <4>3 DEF Notices
    <3>6. CASE ~(told[r] # None /\ told[r].reset = reset)
      <4>1. new[r] = [reset |-> reset, times |-> 1, losses |-> 0]
        BY <3>1, <3>6 DEF Again
      <4> HIDE DEF new, checked, reset
      <4> QED BY <3>3, <3>4, <4>1 DEF Notices
    <3> QED BY <3>5, <3>6
  <2>3. CASE r \notin Rearmed(report) /\ r \notin Noticed(report, ledger)
    <3>1. new[r] = told[r] /\ checked[r] = ledger[r]
      BY <2>3 DEF CheckAlerts
    <3> QED BY <3>1, <1>2, <1>3 DEF Accounted
  <2> QED BY <2>1, <2>2, <2>3
<1>6. new \in [Records -> Notices \cup {None}]
  BY <1>5
<1>7. Accounted(new, checked)
  <2> HIDE DEF new, checked
  <2> QED BY <1>5 DEF Accounted
<1> QED BY <1>4, <1>6, <1>7 DEF report, ledger

LEMMA AlertsStep ==
  ASSUME AiAssumption, AiInv, [AiNext]_aiVars
  PROVE  AiInv'
<1>t. /\ quota \in [Providers -> [pct : Percents, window : Nat, reset : Nat]]
      /\ \E S : aiLoop \in Loops(S)
      /\ cache \in [report : Reports, age : Nat]
      /\ usage \in Usages /\ queue \in Rounds \cup {None} /\ worker \in Workers
      /\ done \in Completions \cup {None} /\ unwritten \in Ledgers \cup {None}
      /\ saved \in Ledgers /\ told \in [Records -> Notices \cup {None}]
  BY DEF AiInv, AiTypeOK
<1>n. /\ Accounted(told, Kept)
      /\ usage.load = "read" => Accounted(told, usage.ledger)
      /\ unwritten # None => usage.load = "read"
  BY DEF AiInv, NoticesAreKept, SavesAfterReading
<1>h. ASSUME UNCHANGED <<unwritten, saved, told>>
      PROVE  /\ unwritten' \in Ledgers \cup {None} /\ saved' \in Ledgers
             /\ told' \in [Records -> Notices \cup {None}] /\ Accounted(told', Kept')
  <2>1. Kept' = Kept
    BY <1>h DEF Kept
  <2> QED BY <1>t, <1>n, <1>h, <2>1
<1>k. ASSUME UNCHANGED <<unwritten, saved, told>>, usage'.load = usage.load,
             usage'.ledger = usage.ledger
      PROVE  SavesAfterReading' /\ NoticesAreKept'
  <2>1. Accounted(told', Kept')
    BY <1>h, <1>k
  <2>2. usage'.load = "read" => Accounted(told', usage'.ledger)
    BY <1>n, <1>k
  <2> QED BY <1>n, <1>k, <2>1, <2>2 DEF SavesAfterReading, NoticesAreKept
<1>a. usage.load # "read" => NothingAsked
  BY DEF AiInv, LedgerIsFirst
<1>1. CASE ViewOpens
  <2> DEFINE u == [usage EXCEPT !.load = "asked"]
  <2>1. u \in Usages /\ u.load = "asked" /\ NothingAsked
    BY <1>t, <1>a, <1>1 DEF Usages, ViewOpens
  <2>2. RequestRound(u, FALSE, {}) /\ UNCHANGED <<quota, aiLoop, cache, unwritten, saved, told>>
    BY <1>1 DEF ViewOpens
  <2> HIDE DEF u
  <2>3. unwritten' = None /\ told' = told
    BY <1>n, <1>1, <2>2 DEF ViewOpens
  <2> QED BY <2>1, <2>2, <2>3, <1>t, <1>h, AsksKeep
<1>2. CASE LedgerLoaded
  <2>1. PICK ledger \in {saved, NoRecords} :
          /\ LET u == [usage EXCEPT !.ledger = ledger, !.load = "read", !.pending = None]
             IN IF usage.pending # None
                THEN RequestRound(u, usage.pending.force, usage.pending.retries)
                ELSE /\ usage' = [u EXCEPT !.loading = FALSE]
                     /\ UNCHANGED <<queue, worker, done>>
          /\ told' = Forgotten(saved, ledger)
    BY <1>2 DEF LedgerLoaded
  <2> DEFINE u == [usage EXCEPT !.ledger = ledger, !.load = "read", !.pending = None]
  <2>2. NoRecords \in Ledgers
    BY DEF NoRecords, Ledgers
  <2>3. u \in Usages /\ u.load = "read" /\ u.ledger = ledger
    BY <1>t, <2>1, <2>2 DEF Usages
  <2>4. usage.load = "asked" /\ UNCHANGED <<quota, aiLoop, cache, unwritten, saved>>
    BY <1>2 DEF LedgerLoaded
  <2>5. unwritten = None /\ Kept = saved /\ Kept' = saved
    BY <1>n, <2>4 DEF Kept
  <2>6. /\ told' \in [Records -> Notices \cup {None}]
        /\ Accounted(told', ledger) /\ Accounted(told', Kept')
    BY <1>t, <1>n, <2>1, <2>5, LossesAccounted
  <2>7. CASE usage.pending # None
    <3>1. usage.pending.force \in BOOLEAN /\ usage.pending.retries \in SUBSET Providers
      BY <1>t, <2>7 DEF Usages, Pendings
    <3>2. RequestRound(u, usage.pending.force, usage.pending.retries)
      BY <2>1, <2>7
    <3> HIDE DEF u
    <3> QED BY <1>t, <2>3, <2>4, <2>5, <2>6, <3>1, <3>2, <1>a, AsksKeep
  <2>8. CASE usage.pending = None
    <3>1. usage' = [u EXCEPT !.loading = FALSE] /\ UNCHANGED <<queue, worker, done>>
      BY <2>1, <2>8
    <3> HIDE DEF u
    <3>2. usage' \in Usages /\ ~usage'.loading /\ usage'.ledger = ledger /\ usage'.load = "read"
      BY <2>3, <3>1 DEF Usages
    <3>3. NothingAsked
      BY <1>a, <2>4
    <3>4. AiTypeOK'
      BY <1>t, <2>4, <2>6, <3>1, <3>2 DEF AiTypeOK
    <3>5. WorkerFits' /\ NewestIsLast' /\ NewestIsCurrent' /\ BusyFits' /\ LedgerIsFirst'
      BY <3>1, <3>2, <3>3 DEF AiInv, WorkerFits, NewestIsLast, NewestIsCurrent, BusyFits,
         LedgerIsFirst, NothingAsked
    <3>6. SavesAfterReading' /\ NoticesAreKept'
      BY <2>6, <3>2 DEF SavesAfterReading, NoticesAreKept
    <3> QED BY <3>4, <3>5, <3>6 DEF AiInv
  <2> QED BY <2>7, <2>8
<1>3. CASE RefreshClicked
  <2>1. usage.load # "no" /\ RequestRound(usage, TRUE, {})
        /\ UNCHANGED <<quota, aiLoop, cache, unwritten, saved, told>>
    BY <1>3 DEF RefreshClicked
  <2> QED BY <1>t, <1>n, <1>h, <1>a, <2>1, AsksKeep
<1>4. CASE RetryClicked
  <2>1. PICK p \in Providers : RequestRound(usage, FALSE, {p})
    BY <1>4 DEF RetryClicked, Retriable
  <2>2. UNCHANGED <<quota, aiLoop, cache, unwritten, saved, told>>
    BY <1>4 DEF RetryClicked
  <2>3. {p} \in SUBSET Providers
    OBVIOUS
  <2> QED BY <1>t, <1>n, <1>h, <1>a, <2>1, <2>2, <2>3, AsksKeep
<1>5. CASE AiSettingsChanged
  <2>1. PICK tracked \in SUBSET Providers, alerts \in BOOLEAN :
          LET u == [usage EXCEPT !.tracked = tracked, !.alerts = alerts, !.generation = @ + 1] IN
          IF usage.load # "no" THEN RequestRound(u, TRUE, {})
          ELSE usage' = u /\ UNCHANGED <<queue, worker, done>>
    BY <1>5 DEF AiSettingsChanged
  <2> DEFINE u == [usage EXCEPT !.tracked = tracked, !.alerts = alerts, !.generation = @ + 1]
  <2>2. /\ u \in Usages /\ u.load = usage.load /\ u.ledger = usage.ledger
        /\ u.loading = usage.loading /\ u.pending = usage.pending
    <3>1. usage.generation + 1 \in Nat
      BY <1>t DEF Usages
    <3> QED BY <1>t, <2>1, <3>1 DEF Usages
  <2>3. UNCHANGED <<quota, aiLoop, cache, unwritten, saved, told>>
    BY <1>5 DEF AiSettingsChanged
  <2>4. IF usage.load # "no" THEN RequestRound(u, TRUE, {})
        ELSE usage' = u /\ UNCHANGED <<queue, worker, done>>
    BY <2>1
  <2> HIDE DEF u
  <2>5. CASE usage.load # "no"
    <3>1. u.load # "read" => NothingAsked
      BY <1>a, <2>2
    <3>2. RequestRound(u, TRUE, {})
      BY <2>4, <2>5
    <3>3. /\ unwritten' # None => u.load = "read"
          /\ u.load = "read" => Accounted(told', u.ledger)
      BY <1>n, <2>2, <2>3
    <3> QED BY <1>t, <1>h, <2>2, <2>3, <3>1, <3>2, <3>3, AsksKeep
  <2>6. CASE usage.load = "no"
    <3>1. usage' = u /\ UNCHANGED <<queue, worker, done>>
      BY <2>4, <2>6
    <3>2. AiTypeOK'
      BY <1>t, <2>2, <2>3, <3>1 DEF AiTypeOK
    <3>3. WorkerFits' /\ NewestIsLast' /\ NewestIsCurrent' /\ BusyFits' /\ LedgerIsFirst'
      BY <1>a, <2>2, <2>6, <3>1 DEF AiInv, WorkerFits, NewestIsLast, NewestIsCurrent, BusyFits,
         LedgerIsFirst, NothingAsked
    <3>4. SavesAfterReading' /\ NoticesAreKept'
      BY <1>k, <2>2, <2>3, <3>1
    <3> QED BY <3>2, <3>3, <3>4 DEF AiInv
  <2> QED BY <2>5, <2>6
<1>6. CASE TakeRequest
  <2>1. /\ worker.at = "idle" /\ queue # None /\ queue' = None
        /\ UNCHANGED <<quota, cache, usage, done, unwritten, saved, told>>
    BY <1>6 DEF TakeRequest
  <2> DEFINE warmth == [p \in Providers |-> IF cache.report[p] = None THEN None
                                            ELSE Aged(cache.report[p])]
             followed == IF worker.generation = queue.generation THEN aiLoop
                         ELSE Reconfigured(aiLoop, queue.tracked)
             held == IF worker.warmed THEN None ELSE Completion(queue, warmth, TRUE)
  <2>2. /\ aiLoop' = IF worker.warmed THEN followed ELSE Warmed(followed)
        /\ worker' = [at |-> IF worker.warmed THEN "round" ELSE "warm", job |-> queue,
                      generation |-> queue.generation, warmed |-> TRUE, held |-> held]
    BY <1>6 DEF TakeRequest
  <2>3. queue \in Rounds
    BY <1>t, <2>1
  <2>4. warmth \in Reports
    BY <1>t, ReportsAge
  <2>5. \E S : followed \in Loops(S)
    BY <1>t, LoopReconfigured
  <2>6. \E S : aiLoop' \in Loops(S)
    <3> HIDE DEF followed
    <3> QED BY <1>t, <2>2, <2>5, LoopWarmed
  <2> HIDE DEF warmth, followed
  <2>7. /\ worker.warmed => held = None
        /\ ~worker.warmed =>
             /\ held \in Completions /\ held # None
             /\ held.newest = queue.newest /\ held.generation = queue.generation /\ held.warm
    <3>1. Completion(queue, warmth, TRUE) \in Completions
      BY <2>3, <2>4 DEF Completion, Completions, Rounds
    <3> QED BY <3>1, AiNone DEF Completion
  <2> HIDE DEF held
  <2>8. worker' \in Workers
    BY <1>t, <2>2, <2>3, <2>7 DEF Workers, Rounds
  <2>9. AiTypeOK'
    BY <1>t, <2>1, <2>6, <2>8 DEF AiTypeOK
  <2>10. /\ worker'.job = queue /\ worker'.held = held
         /\ worker'.at = IF worker.warmed THEN "round" ELSE "warm"
    BY <2>2
  <2>11. worker.job = None /\ (done # None => ~done.warm)
    BY <2>1 DEF AiInv, WorkerFits
  <2>12. WorkerFits'
    BY <2>1, <2>7, <2>10, <2>11 DEF WorkerFits
  <2>13. NewestIsLast' /\ NewestIsCurrent' /\ BusyFits' /\ LedgerIsFirst'
    BY <2>1, <2>10, <2>11 DEF AiInv, NewestIsLast, NewestIsCurrent, BusyFits, LedgerIsFirst,
       NothingAsked
  <2>14. SavesAfterReading' /\ NoticesAreKept'
    BY <1>k, <2>1
  <2> QED BY <2>9, <2>12, <2>13, <2>14 DEF AiInv
<1>7. CASE Round
  <2> DEFINE rounded == Rounded(Forced(aiLoop, worker.job.retries), worker.job.force)
             held == Completion(worker.job, ReportOf(rounded), FALSE)
  <2>1. /\ worker.at = "round" /\ aiLoop' = rounded
        /\ cache' = [report |-> ReportOf(rounded), age |-> 0]
        /\ worker' = [worker EXCEPT !.at = "report", !.held = held]
        /\ UNCHANGED <<quota, usage, queue, done, unwritten, saved, told>>
    BY <1>7 DEF Round
  <2>2. \E S : rounded \in Loops(S)
    BY <1>t, LoopForced, LoopRounded
  <2> HIDE DEF rounded
  <2>3. ReportOf(rounded) \in Reports
    BY <2>2, LoopReports
  <2>4. worker.job # None /\ worker.job \in Rounds
    BY <1>t, <2>1 DEF AiInv, WorkerFits, Workers
  <2>5. /\ held \in Completions /\ held # None
        /\ held.newest = worker.job.newest /\ held.generation = worker.job.generation
        /\ ~held.warm
    <3>1. held \in Completions
      BY <2>3, <2>4 DEF Completion, Completions, Rounds
    <3> QED BY <3>1, AiNone DEF Completion
  <2> HIDE DEF held
  <2>6. /\ worker' \in Workers /\ worker'.at = "report" /\ worker'.held = held
        /\ worker'.job = worker.job
    BY <1>t, <2>1, <2>5 DEF Workers
  <2>7. cache' \in [report : Reports, age : Nat]
    BY <2>1, <2>3
  <2>8. AiTypeOK'
    BY <1>t, <2>1, <2>2, <2>6, <2>7 DEF AiTypeOK
  <2>9. WorkerFits'
    BY <2>1, <2>4, <2>5, <2>6 DEF AiInv, WorkerFits
  <2>10. NewestIsLast' /\ NewestIsCurrent' /\ BusyFits' /\ LedgerIsFirst'
    BY <2>1, <2>6 DEF AiInv, NewestIsLast, NewestIsCurrent, BusyFits, LedgerIsFirst, NothingAsked
  <2>11. SavesAfterReading' /\ NoticesAreKept'
    BY <1>k, <2>1
  <2> QED BY <2>8, <2>9, <2>10, <2>11 DEF AiInv
<1>8. CASE Deliver
  <2>1. /\ worker.at \in {"warm", "report"} /\ done = None /\ done' = worker.held
        /\ UNCHANGED <<quota, aiLoop, cache, usage, queue, unwritten, saved, told>>
        /\ worker' = IF worker.at = "warm" THEN [worker EXCEPT !.at = "round", !.held = None]
                     ELSE [worker EXCEPT !.at = "idle", !.held = None, !.job = None]
    BY <1>8 DEF Deliver
  <2>2. /\ worker.job # None /\ worker.held # None
        /\ worker.held.newest = worker.job.newest
        /\ worker.held.generation = worker.job.generation
        /\ worker.held.warm <=> worker.at = "warm"
    BY <2>1 DEF AiInv, WorkerFits
  <2>3. worker.held \in Completions /\ worker.job \in Rounds
    BY <1>t, <2>2 DEF Workers
  <2>4. /\ worker' \in Workers /\ worker'.held = None
        /\ worker.at = "warm" => worker'.at = "round" /\ worker'.job = worker.job
        /\ worker.at = "report" => worker'.at = "idle" /\ worker'.job = None
    BY <1>t, <2>1 DEF Workers
  <2>5. AiTypeOK'
    BY <1>t, <2>1, <2>3, <2>4 DEF AiTypeOK
  <2>6. WorkerFits'
    BY <2>1, <2>2, <2>4 DEF WorkerFits
  <2>7. worker.held.newest \in BOOLEAN /\ worker.job.newest \in BOOLEAN
    BY <2>3 DEF Completions, Rounds
  <2>8. NewestIsLast' /\ NewestIsCurrent' /\ BusyFits' /\ LedgerIsFirst'
    BY <2>1, <2>2, <2>4, <2>7 DEF AiInv, NewestIsLast, NewestIsCurrent, BusyFits, LedgerIsFirst,
       NothingAsked
  <2>9. SavesAfterReading' /\ NoticesAreKept'
    BY <1>k, <2>1
  <2> QED BY <2>5, <2>6, <2>8, <2>9 DEF AiInv
<1>9. CASE TakeCompletion
  <2>1. /\ done # None /\ done' = None
        /\ UNCHANGED <<quota, aiLoop, cache, queue, worker>>
    BY <1>9 DEF TakeCompletion
  <2>2. done \in Completions /\ usage.load = "read"
    BY <1>t, <1>a, <2>1 DEF NothingAsked, Usages
  <2>3. SUFFICES ASSUME usage' \in Usages /\ usage'.load = "read"
                        /\ usage'.generation = usage.generation,
                        usage'.loading => queue # None \/ worker.job # None \/ usage'.pending # None,
                        saved' = saved, unwritten' \in Ledgers \cup {None},
                        told' \in [Records -> Notices \cup {None}],
                        SavesAfterReading' /\ NoticesAreKept'
                 PROVE  AiInv'
    <3>1. CASE done.generation # usage.generation
      <4>1. UNCHANGED <<usage, unwritten, saved, told>>
        BY <1>9, <3>1 DEF TakeCompletion
      <4>2. queue # None \/ worker.job # None
        BY <2>1, <3>1 DEF AiInv, NewestIsCurrent
      <4>3. SavesAfterReading' /\ NoticesAreKept'
        BY <1>k, <4>1
      <4> QED BY <1>t, <2>2, <2>3, <4>1, <4>2, <4>3
    <3>2. CASE done.generation = usage.generation /\ done.warm
      <4>1. /\ usage' = [usage EXCEPT !.report = done.report, !.loading = TRUE]
            /\ UNCHANGED <<unwritten, saved, told>>
        BY <1>9, <3>2 DEF TakeCompletion
      <4>2. done.report \in Reports
        BY <2>2 DEF Completions
      <4>3. /\ usage' \in Usages /\ usage'.load = usage.load
            /\ usage'.generation = usage.generation /\ usage'.ledger = usage.ledger
        BY <1>t, <4>1, <4>2 DEF Usages
      <4>4. worker.job # None
        BY <2>1, <3>2 DEF AiInv, WorkerFits
      <4>5. SavesAfterReading' /\ NoticesAreKept'
        BY <1>k, <4>1, <4>3
      <4> QED BY <1>t, <2>2, <2>3, <4>1, <4>3, <4>4, <4>5
    <3>3. CASE done.generation = usage.generation /\ ~done.warm
      <4> DEFINE ledger == IF usage.alerts THEN CheckAlerts(done.report, usage.ledger)
                           ELSE usage.ledger
      <4>1. /\ usage' = [usage EXCEPT !.report = done.report, !.loading = ~done.newest,
                                      !.ledger = ledger]
            /\ unwritten' = IF usage.alerts THEN ledger ELSE unwritten
            /\ saved' = saved
            /\ told' = IF ~usage.alerts THEN told
                       ELSE [r \in Records |->
                               IF r \in Rearmed(done.report) THEN None
                               ELSE IF r \in Noticed(done.report, usage.ledger)
                               THEN Again(told[r], done.report[r[1]].reset)
                               ELSE told[r]]
        BY <1>9, <3>3 DEF TakeCompletion
      <4>2. done.report \in Reports /\ usage.ledger \in Ledgers /\ done.newest \in BOOLEAN
        BY <1>t, <2>2 DEF Completions, Usages
      <4>3. ledger \in Ledgers
        BY <4>2, AlertsChecked
      <4>4. ~done.newest => queue # None \/ worker.job # None
        BY <2>1, <3>3 DEF AiInv, NewestIsLast
      <4> HIDE DEF ledger
      <4>5. /\ usage' \in Usages /\ usage'.load = usage.load /\ usage'.loading = ~done.newest
            /\ usage'.generation = usage.generation /\ usage'.ledger = ledger
        BY <1>t, <4>1, <4>2, <4>3 DEF Usages
      <4>6. CASE usage.alerts
        <5>1. ledger = CheckAlerts(done.report, usage.ledger)
          BY <4>6 DEF ledger
        <5>2. /\ ledger # None /\ unwritten' = ledger /\ Kept' = ledger
              /\ told' \in [Records -> Notices \cup {None}] /\ Accounted(told', ledger)
          <6>1. ledger # None
            BY <4>3, AiNone
          <6>2. told' \in [Records -> Notices \cup {None}] /\ Accounted(told', ledger)
            BY <2>1, <2>2, <3>3, <4>1, <4>6, <5>1, TakenReport
          <6> QED BY <4>1, <4>6, <6>1, <6>2 DEF Kept
        <5>3. SavesAfterReading' /\ NoticesAreKept'
          BY <2>2, <4>5, <5>2 DEF SavesAfterReading, NoticesAreKept
        <5> QED BY <2>2, <2>3, <4>1, <4>3, <4>4, <4>5, <5>2, <5>3
      <4>7. CASE ~usage.alerts
        <5>1. UNCHANGED <<unwritten, saved, told>> /\ usage'.ledger = usage.ledger
          BY <4>1, <4>5, <4>7 DEF ledger
        <5>2. SavesAfterReading' /\ NoticesAreKept'
          BY <1>k, <4>5, <5>1
        <5> QED BY <1>t, <2>2, <2>3, <4>4, <4>5, <5>1, <5>2
      <4> QED BY <4>6, <4>7
    <3> QED BY <3>1, <3>2, <3>3
  <2>4. AiTypeOK'
    BY <1>t, <2>1, <2>3 DEF AiTypeOK
  <2>5. WorkerFits' /\ NewestIsLast' /\ NewestIsCurrent' /\ BusyFits' /\ LedgerIsFirst'
    BY <2>1, <2>3 DEF AiInv, WorkerFits, NewestIsLast, NewestIsCurrent, BusyFits, LedgerIsFirst,
       NothingAsked
  <2> QED BY <2>3, <2>4, <2>5 DEF AiInv
<1>10. CASE AiTick
  <2> DEFINE ledger == OlderLedger(usage.ledger)
             report == [p \in Providers |-> OlderReading(usage.report[p])]
             u == [usage EXCEPT !.ledger = ledger, !.report = report]
             schedule == [p \in Providers |-> Less(aiLoop.due[p], 1)]
             floor == [p \in Providers |-> Less(aiLoop.floor[p], 1)]
             latest == [p \in Providers |-> OlderReading(aiLoop.latest[p])]
             good == [p \in Providers |-> OlderReading(aiLoop.good[p])]
  <2>1. PICK S : aiLoop \in Loops(S)
    BY <1>t
  <2>2. /\ aiLoop' = [aiLoop EXCEPT !.due = schedule, !.floor = floor, !.latest = latest, !.good = good]
        /\ cache' = [report |-> [p \in Providers |-> OlderReading(cache.report[p])],
                     age |-> Older(cache.age, OldAge)]
        /\ saved' = OlderLedger(saved)
        /\ unwritten' = IF unwritten = None THEN None ELSE OlderLedger(unwritten)
        /\ UNCHANGED <<quota, told>>
    BY <1>10, <2>1 DEF AiTick, Loops
  <2>3. RequestRound(u, FALSE, {})
    BY <1>10, <1>t DEF AiTick, Usages
  <2>4. report \in Reports /\ latest \in Reports /\ good \in Reports
    <3>1. usage.report \in Reports /\ aiLoop.latest \in Reports /\ aiLoop.good \in Reports
      BY <1>t, <2>1 DEF Usages, Loops
    <3> QED BY <3>1, ReportsAge
  <2>5. usage.ledger \in Ledgers
    BY <1>t DEF Usages
  <2>6. ledger \in Ledgers /\ (Accounted(told, usage.ledger) => Accounted(told, ledger))
    BY <2>5, LedgersAge, OlderAccounted
  <2>7. /\ saved' \in Ledgers /\ unwritten' \in Ledgers \cup {None}
        /\ unwritten' = None <=> unwritten = None
        /\ Accounted(told, Kept')
    <3>1. saved' \in Ledgers
      BY <1>t, <2>2, LedgersAge
    <3>2. CASE unwritten = None
      <4>1. Kept = saved /\ Kept' = saved' /\ unwritten' = None
        BY <2>2, <3>2 DEF Kept
      <4> QED BY <1>t, <1>n, <2>2, <3>1, <3>2, <4>1, OlderAccounted
    <3>3. CASE unwritten # None
      <4>1. unwritten \in Ledgers /\ unwritten' = OlderLedger(unwritten) /\ Kept = unwritten
        BY <1>t, <2>2, <3>3 DEF Kept
      <4>2. unwritten' \in Ledgers /\ unwritten' # None
        BY <4>1, LedgersAge, AiNone
      <4>3. Kept' = unwritten'
        BY <4>2 DEF Kept
      <4> QED BY <1>n, <3>1, <3>3, <4>1, <4>2, <4>3, OlderAccounted
    <3> QED BY <3>2, <3>3
  <2>8. cache' \in [report : Reports, age : Nat]
    <3>1. [p \in Providers |-> OlderReading(cache.report[p])] \in Reports
      BY <1>t, ReportsAge
    <3>2. Older(cache.age, OldAge) \in Nat
      BY <1>t DEF Older, Least, OldAge, RefreshUnit
    <3> QED BY <2>2, <3>1, <3>2
  <2> HIDE DEF ledger, report, schedule, floor, latest, good
  <2>9. \E T : aiLoop' \in Loops(T)
    <3>1. aiLoop' \in Loops(S \cup {schedule, floor})
      BY <2>1, <2>2, <2>4 DEF Loops
    <3> QED BY <3>1
  <2>10. u \in Usages /\ u.load = usage.load /\ u.ledger = ledger
    BY <1>t, <2>4, <2>6 DEF Usages
  <2> HIDE DEF u
  <2>11. /\ told' = told /\ quota' = quota
         /\ told' \in [Records -> Notices \cup {None}] /\ Accounted(told', Kept')
         /\ unwritten' # None => u.load = "read"
         /\ u.load = "read" => Accounted(told', u.ledger)
    BY <1>t, <1>n, <2>2, <2>6, <2>7, <2>10
  <2> QED BY <1>t, <1>a, <2>3, <2>7, <2>8, <2>9, <2>10, <2>11, AsksKeep
<1>11. CASE QuotaMoves
  <2>1. quota' \in [Providers -> [pct : Percents, window : Nat, reset : Nat]]
    <3>1. PICK p \in Providers, pct \in Percents, ahead \in {0, 1}, known \in BOOLEAN :
            quota' = [quota EXCEPT ![p] = [pct |-> pct, window |-> @.window + ahead,
                                           reset |-> IF known THEN @.window + ahead ELSE 0]]
      BY <1>11 DEF QuotaMoves
    <3>2. quota[p].window + ahead \in Nat
      BY <1>t
    <3> QED BY <1>t, <3>1, <3>2
  <2>2. UNCHANGED <<aiLoop, cache, usage, queue, worker, done, unwritten, saved, told>>
    BY <1>11 DEF QuotaMoves
  <2>3. AiTypeOK'
    BY <1>t, <2>1, <2>2 DEF AiTypeOK
  <2> QED BY <2>2, <2>3 DEF AiInv, WorkerFits, NewestIsLast, NewestIsCurrent, BusyFits,
            LedgerIsFirst, SavesAfterReading, NoticesAreKept, Kept, Accounted, NothingAsked
<1>12. CASE AccountsChange
  <2>1. UNCHANGED <<quota, aiLoop, cache, usage, queue, worker, done, unwritten, saved, told>>
    BY <1>12 DEF AccountsChange
  <2> QED BY <2>1 DEF AiInv, AiTypeOK, WorkerFits, NewestIsLast, NewestIsCurrent, BusyFits,
            LedgerIsFirst, SavesAfterReading, NoticesAreKept, Kept, Accounted, NothingAsked
<1>13. CASE AiRestarts
  <2>1. /\ aiLoop' = FreshLoop /\ queue' = None /\ done' = None /\ worker' = WorkerStart
        /\ usage' = [UsageStart EXCEPT !.tracked = usage.tracked, !.alerts = usage.alerts]
        /\ unwritten' = None /\ UNCHANGED <<quota, cache>>
    BY <1>13 DEF AiRestarts
  <2>2. usage' \in Usages /\ usage'.load = "no" /\ ~usage'.loading
    <3>1. NoReport \in Reports /\ NoRecords \in Ledgers
      BY DEF NoReport, Reports, NoRecords, Ledgers
    <3> QED BY <1>t, <2>1, <3>1 DEF UsageStart, Usages
  <2>3. /\ saved' \in Ledgers /\ told' \in [Records -> Notices \cup {None}]
        /\ Accounted(told', saved')
    <3>1. CASE saved' = (IF unwritten = None THEN saved ELSE unwritten) /\ told' = told
      <4>1. saved' = Kept
        BY <3>1 DEF Kept
      <4> QED BY <1>t, <1>n, <3>1, <4>1 DEF Kept
    <3>2. CASE unwritten # None /\ told' = Forgotten(unwritten, saved) /\ saved' = saved
      <4>1. Accounted(told, unwritten)
        BY <1>n, <3>2 DEF Kept
      <4> QED BY <1>t, <3>2, <4>1, LossesAccounted
    <3> QED BY <3>1, <3>2, <1>13 DEF AiRestarts
  <2>4. AiTypeOK'
    BY <1>t, <2>1, <2>2, <2>3, FreshIsLoop DEF AiTypeOK, WorkerStart, Workers
  <2>5. WorkerFits' /\ NewestIsLast' /\ NewestIsCurrent' /\ BusyFits' /\ LedgerIsFirst'
    BY <2>1, <2>2 DEF WorkerStart, WorkerFits, NewestIsLast, NewestIsCurrent, BusyFits,
       LedgerIsFirst, NothingAsked
  <2>6. SavesAfterReading' /\ NoticesAreKept'
    <3>1. Kept' = saved'
      BY <2>1 DEF Kept
    <3> QED BY <2>1, <2>2, <2>3, <3>1 DEF SavesAfterReading, NoticesAreKept
  <2> QED BY <2>4, <2>5, <2>6 DEF AiInv
<1>14. CASE LedgerWritten
  <2>1. /\ unwritten # None /\ saved' = unwritten /\ unwritten' = None
        /\ UNCHANGED <<quota, aiLoop, cache, usage, queue, worker, done, told>>
    BY <1>14 DEF LedgerWritten
  <2>2. AiTypeOK'
    BY <1>t, <2>1 DEF AiTypeOK
  <2>3. WorkerFits' /\ NewestIsLast' /\ NewestIsCurrent' /\ BusyFits' /\ LedgerIsFirst'
    BY <2>1 DEF AiInv, WorkerFits, NewestIsLast, NewestIsCurrent, BusyFits, LedgerIsFirst,
       NothingAsked
  <2>4. Kept' = Kept
    BY <2>1 DEF Kept
  <2>5. SavesAfterReading' /\ NoticesAreKept'
    BY <1>n, <2>1, <2>4 DEF SavesAfterReading, NoticesAreKept
  <2> QED BY <2>2, <2>3, <2>5 DEF AiInv
<1>15. CASE UNCHANGED aiVars
  BY <1>15 DEF aiVars, AiInv, AiTypeOK, WorkerFits, NewestIsLast, NewestIsCurrent, BusyFits,
     LedgerIsFirst, SavesAfterReading, NoticesAreKept, Kept, Accounted, NothingAsked
<1> QED BY <1>1, <1>2, <1>3, <1>4, <1>5, <1>6, <1>7, <1>8, <1>9, <1>10, <1>11, <1>12, <1>13, <1>14,
           <1>15
        DEF AiNext, AiMain, AiWorker

\* A level notifies once per quota window until the use falls below it again, and once more
\* only for each time its record was lost, over rounds, settings changes, writes of the
\* ledger that come late, ends of the process before them and reads that fail; and while the
\* refresh button is busy the last round asked for, under the settings in force, is on its
\* way (alerts.go, main.go loadLedger, requestRound and the completion case of the loop).
THEOREM AlertsStayOnce == AiAssumption => (AiSpec => []AlertsComeOnce)
<1> SUFFICES ASSUME AiAssumption PROVE AiSpec => []AlertsComeOnce
  OBVIOUS
<1>1. AiInit => AiInv
  BY AiStarting
<1>2. AiInv /\ [AiNext]_aiVars => AiInv'
  BY AlertsStep
<1>3. AiInv => AlertsComeOnce
  <2> SUFFICES ASSUME AiInv PROVE AlertsComeOnce
    OBVIOUS
  <2>1. AlertOnce
    <3> SUFFICES ASSUME NEW r \in Records, told[r] # None
                 PROVE  told[r].times <= 1 + told[r].losses
      BY DEF AlertOnce
    <3>1. told[r] \in Notices
      BY DEF AiInv, AiTypeOK
    <3> QED BY <3>1 DEF AiInv, NoticesAreKept, Accounted, Notices
  <2>2. LoadingHasRound
    BY DEF AiInv, NewestIsLast, NewestIsCurrent, BusyFits, NothingAsked, LoadingHasRound
  <2> QED BY <2>1, <2>2 DEF AlertsComeOnce
<1> QED BY <1>1, <1>2, <1>3, PTL DEF AiSpec

=============================================================================
