------------------------------- MODULE AiUsage -------------------------------
(***************************************************************************)
(* The AI usage plugin: the process loop of cmd/sysc-plugin-aiusage, the   *)
(* refresh worker beside it, the collector loop of plugins/aiusage/loop.go *)
(* with its floors, backoff and warm cache, the sign-in sources of         *)
(* oauth.go, and the alert ledger of alerts.go, over restarts.             *)
(*                                                                         *)
(* Time is counted in units of the refresh interval: a moment the code     *)
(* keeps (nextDue, floorUntil) is here the number of units left to it, and *)
(* a moment it measures from (UpdatedAt, CapturedAt, FiredAt) the number   *)
(* of units since, each kept up to the point where the code stops telling  *)
(* the difference.  A provider reports one quota window.                   *)
(***************************************************************************)
EXTENDS Absent, Naturals, FiniteSets

CONSTANTS Providers,     \* the provider ids of registry()
          Floored,       \* the ones that declare a request floor
          TwoSources,    \* the ones that can be signed in twice, by two tools
          Floor,         \* the request floor, in units
          Percents,      \* the readings a quota can give; None is an empty one
          Cooldown,      \* the alert cooldown of the settings, in units
          AiWindows,     \* bound: how often quota windows roll over
          AiClicks,      \* bound: clicks and settings changes
          AiTroubles,    \* bound: sign-ins that appear, expire or work again, and loads that fail
          AiStarts       \* bound: starts of the process

\* The levels of the alert ladder, and the keys of the ledger.
Levels == {"warn", "critical", "depleted"}
Records == Providers \X Levels

\* An alert of the ledger; and what a level was last told of: the window, how often,
\* and how often the record of it was lost.
Alerts == [reset : Nat, age : Nat]
Notices == [reset : Nat, times : Nat, losses : Nat]

\* A reading of a provider's quota; a report has one for each provider, or None.
Readings ==
  [state : {"setup", "fault", "nodata", "fresh"}, stale : BOOLEAN,
   pct : Percents \cup {None}, reset : Nat, age : Nat]
Reports == [Providers -> Readings \cup {None}]

\* What is asked of the worker, and what it answers.
Rounds == [newest : BOOLEAN, generation : Nat, tracked : SUBSET Providers,
           force : BOOLEAN, retries : SUBSET Providers]
Completions == [newest : BOOLEAN, generation : Nat, report : Reports, warm : BOOLEAN]
Pendings == [force : BOOLEAN, retries : SUBSET Providers]

AiAssumption ==
  /\ AiWindows \in Nat /\ AiClicks \in Nat /\ AiTroubles \in Nat /\ AiStarts \in Nat
  /\ Cooldown \in Nat /\ Floor \in Nat
  /\ None \notin Alerts \cup Notices \cup Readings \cup Rounds \cup Completions \cup Pendings
  /\ None \notin [Records -> Alerts \cup {None}]

ASSUME AiConstants == AiAssumption

VARIABLES quota,     \* outside: for each provider what it would answer
          accounts,  \* outside: for each provider the sign-ins present and those that work
          aiLoop,    \* the Loop of the process: schedule, last and last good readings
          cache,     \* report.json: the readings, and their age in units
          usage,     \* the process loop: settings, report, loading, ledger and its load
          queue,     \* the refresh request waiting for the worker
          worker,    \* the refresh worker
          done,      \* the completion waiting for the process loop
          unwritten, \* the alert ledger that waits in the saver, or None
          saved,     \* the alert ledger in the plugin state
          told,      \* what each level last notified of, while it stays up
          bounds     \* what is left of the bounds

aiVars == <<quota, accounts, aiLoop, cache, usage, queue, worker, done, unwritten, saved, told,
            bounds>>

RefreshUnit == 1     \* cfg.Refresh, the unit
Guard == 1       \* crossInstanceGuard
OldAge == 2 * RefreshUnit + 1
BackoffCap == 3

Least(a, b) == IF a < b THEN a ELSE b
Most(a, b) == IF a > b THEN a ELSE b
Less(a, n) == IF a > n THEN a - n ELSE 0

----------------------------------------------------------------------------
(* The alert ladder *)

Threshold == [warn |-> 85, critical |-> 95, depleted |-> 99]
Hysteresis == 5
NoRecords == [r \in Records |-> None]

\* AlertRec.matches: the record already covers the window with this reset.
Covers(record, reset) ==
  IF record.reset = 0 THEN reset = 0 ELSE reset = 0 \/ record.reset = reset

Alertable(reading) ==
  reading # None /\ reading.state = "fresh" /\ ~reading.stale /\ reading.pct # None

\* The levels of CheckAlerts that a report re-arms.
Rearmed(report) ==
  {r \in Records : /\ Alertable(report[r[1]])
                   /\ report[r[1]].pct + Hysteresis < Threshold[r[2]]}

\* The levels of CheckAlerts that a report notifies of.
Noticed(report, ledger) ==
  {r \in Records :
     /\ Alertable(report[r[1]])
     /\ report[r[1]].pct >= Threshold[r[2]]
     /\ ledger[r] # None => /\ ~Covers(ledger[r], report[r[1]].reset)
                            /\ ledger[r].age >= Cooldown}

CheckAlerts(report, ledger) ==
  [r \in Records |->
     IF r \in Rearmed(report) THEN None
     ELSE IF r \in Noticed(report, ledger) THEN [reset |-> report[r[1]].reset, age |-> 0]
     ELSE ledger[r]]

----------------------------------------------------------------------------
(* The collector loop *)

FreshLoop ==
  [tracked |-> {}, due |-> [p \in Providers |-> 0], floor |-> [p \in Providers |-> 0],
   fails |-> [p \in Providers |-> 0], good |-> [p \in Providers |-> None],
   latest |-> [p \in Providers |-> None], source |-> [p \in Providers |-> 0]]

\* Reconfigure rebuilds the collectors: which sign-in worked is forgotten, the
\* schedule and the readings are not.
Reconfigured(l, tracked) ==
  [l EXCEPT !.tracked = tracked, !.source = [p \in Providers |-> 0]]

Aged(reading) == IF reading.state = "fresh" /\ reading.age > 2 * RefreshUnit
                 THEN [reading EXCEPT !.stale = TRUE] ELSE reading

\* The floor counts for the providers that have a collector.
FloorOf(l, p) == IF p \in l.tracked \cap Floored THEN Floor ELSE 0

\* loadCache: every cached reading is shown; a fresh one is the last good one too
\* and counts as a reading for the floor and the next due moment.
Warmed(l) ==
  LET kept == [p \in Providers |->
                  IF cache.report[p] = None THEN None ELSE Aged(cache.report[p])]
      fresh == {p \in Providers : kept[p] # None /\ kept[p].state = "fresh"}
      left(units) == Less(Most(units, Guard), cache.age)
  IN [l EXCEPT
        !.latest = [p \in Providers |-> IF kept[p] # None THEN kept[p] ELSE @[p]],
        !.good = [p \in Providers |-> IF p \in fresh THEN kept[p] ELSE @[p]],
        !.floor = [p \in Providers |-> IF p \in fresh THEN left(FloorOf(l, p)) ELSE @[p]],
        !.due = [p \in Providers |->
                   IF p \in fresh THEN left(Most(RefreshUnit, FloorOf(l, p))) ELSE @[p]]]

\* Force: the providers are due, their streak of failures is over.
Forced(l, ids) ==
  [l EXCEPT !.due = [p \in Providers |-> IF p \in ids THEN 0 ELSE @[p]],
            !.fails = [p \in Providers |-> IF p \in ids THEN 0 ELSE @[p]]]

Deferred(l, p) == l.floor[p] > 0
Visited(l, force) == {p \in l.tracked : ~Deferred(l, p) /\ (force \/ l.due[p] = 0)}

\* The sign-ins present, in the order the collector ranks them, and the one it uses:
\* the preferred one while it is there, else the first.
SignIns(p) == IF p \in TwoSources THEN {1, 2} ELSE {1}
Present(p) == accounts[p].present
Used(l, p) ==
  IF l.source[p] \in Present(p) THEN l.source[p]
  ELSE CHOOSE i \in Present(p) : \A j \in Present(p) : i <= j

Following(p, i) ==
  IF \E j \in Present(p) : j > i
  THEN CHOOSE j \in Present(p) : j > i /\ \A k \in Present(p) : k > i => j <= k
  ELSE CHOOSE j \in Present(p) : \A k \in Present(p) : j <= k
Works(l, p) == Used(l, p) \in accounts[p].working

Reading(state, pct, reset) ==
  [state |-> state, stale |-> FALSE, pct |-> pct, reset |-> reset, age |-> 0]

\* backoffWait, the doubling capped.
BackoffWait(fails, floor) ==
  Most(Least(IF fails > 1 THEN RefreshUnit * 2 ^ (fails - 1) ELSE RefreshUnit, BackoffCap), floor)

\* One provider's part of Round.
Fetched(l, p) ==
  CASE Present(p) = {} ->
         [due |-> RefreshUnit, floor |-> 0, fails |-> l.fails[p], good |-> l.good[p],
          latest |-> Reading("setup", None, 0), source |-> l.source[p]]
    [] Present(p) # {} /\ ~Works(l, p) ->
         LET fails == Least(l.fails[p] + 1, BackoffCap) IN
         [due |-> BackoffWait(fails, FloorOf(l, p)), floor |-> FloorOf(l, p), fails |-> fails,
          good |-> l.good[p],
          latest |-> IF l.good[p] # None THEN [l.good[p] EXCEPT !.stale = TRUE]
                     ELSE Reading("fault", None, 0),
          source |-> Following(p, Used(l, p))]
    [] OTHER ->
         LET reading == IF quota[p].pct = None THEN Reading("nodata", None, 0)
                        ELSE Reading("fresh", quota[p].pct, quota[p].reset) IN
         [due |-> Most(RefreshUnit, FloorOf(l, p)), floor |-> FloorOf(l, p), fails |-> 0,
          good |-> IF reading.state = "fresh" THEN reading ELSE l.good[p],
          latest |-> reading, source |-> Used(l, p)]

\* Round: each tracked provider in turn, deferred, carried or fetched.
Rounded(l, force) ==
  LET visited == Visited(l, force)
      got == [p \in visited |-> Fetched(l, p)]
  IN [l EXCEPT !.due = [p \in Providers |-> IF p \in visited THEN got[p].due ELSE @[p]],
               !.floor = [p \in Providers |-> IF p \in visited THEN got[p].floor ELSE @[p]],
               !.fails = [p \in Providers |-> IF p \in visited THEN got[p].fails ELSE @[p]],
               !.good = [p \in Providers |-> IF p \in visited THEN got[p].good ELSE @[p]],
               !.latest = [p \in Providers |-> IF p \in visited THEN got[p].latest ELSE @[p]],
               !.source = [p \in Providers |-> IF p \in visited THEN got[p].source ELSE @[p]]]

ReportOf(l) == [p \in Providers |->
  IF p \notin l.tracked THEN None
  ELSE IF l.latest[p] # None THEN l.latest[p] ELSE l.good[p]]

----------------------------------------------------------------------------
(* The process loop asks for rounds *)

NoReport == [p \in Providers |-> None]
UsageStart == [tracked |-> Providers, alerts |-> TRUE, generation |-> 0, loading |-> FALSE,
            report |-> NoReport, ledger |-> NoRecords, load |-> "no", pending |-> None]
WorkerStart == [at |-> "idle", job |-> None, generation |-> None, warmed |-> FALSE, held |-> None]

\* The sequence number of a request, or of its completion, matters only while it
\* is the last one given: newest.
Superseded(r) == IF r = None THEN None ELSE [r EXCEPT !.newest = FALSE]

\* queueRefresh: a request that is still waiting is taken back and its force and
\* its retries join the new one.
Merged(new) ==
  IF queue = None THEN new
  ELSE [new EXCEPT !.force = @ \/ queue.force, !.retries = @ \cup queue.retries]

Joined(waiting, force, retries) ==
  IF waiting = None THEN [force |-> force, retries |-> retries]
  ELSE [force |-> waiting.force \/ force, retries |-> waiting.retries \cup retries]

\* As RequestRound, with a round that does not wait for the ledger.
AsksAtOnce(u, force, retries) ==
  /\ usage' = [u EXCEPT !.loading = TRUE]
  /\ queue' = Merged([newest |-> TRUE, generation |-> u.generation, tracked |-> u.tracked,
                      force |-> force, retries |-> retries])
  /\ worker' = [worker EXCEPT !.job = Superseded(@), !.held = Superseded(@)]
  /\ done' = Superseded(done)

\* requestRound, from the state u of the process loop.
RequestRound(u, force, retries) ==
  IF u.load # "read"
  THEN /\ usage' = [u EXCEPT !.pending = Joined(@, force, retries), !.loading = TRUE]
       /\ UNCHANGED <<queue, worker, done>>
  ELSE /\ usage' = [u EXCEPT !.loading = TRUE]
       /\ queue' = Merged([newest |-> TRUE, generation |-> u.generation, tracked |-> u.tracked,
                           force |-> force, retries |-> retries])
       /\ worker' = [worker EXCEPT !.job = Superseded(@), !.held = Superseded(@)]
       /\ done' = Superseded(done)

\* The first view starts the load of the ledger and asks for a round.
ViewOpens ==
  /\ usage.load = "no"
  /\ RequestRound([usage EXCEPT !.load = "asked"], FALSE, {})
  /\ UNCHANGED <<quota, accounts, aiLoop, cache, unwritten, saved, told, bounds>>

\* What a level was told of is in the ledger; and what is told of when a ledger takes the
\* place of one that knew more.
Known(ledger, r) == ledger[r] # None /\ ledger[r].reset = told[r].reset
Forgotten(before, after) ==
  [r \in Records |->
     IF told[r] # None /\ Known(before, r) /\ ~Known(after, r)
     THEN [told[r] EXCEPT !.losses = @ + 1] ELSE told[r]]

\* The ledger is read off the loop; a read that fails or takes too long gives none.
LedgerLoaded ==
  /\ usage.load = "asked"
  /\ \E ledger \in IF bounds.troubles > 0 THEN {saved, NoRecords} ELSE {saved} :
       /\ LET u == [usage EXCEPT !.ledger = ledger, !.load = "read", !.pending = None]
          IN IF usage.pending # None
             THEN RequestRound(u, usage.pending.force, usage.pending.retries)
             ELSE /\ usage' = [u EXCEPT !.loading = FALSE]
                  /\ UNCHANGED <<queue, worker, done>>
       /\ bounds' = IF ledger = saved THEN bounds ELSE [bounds EXCEPT !.troubles = @ - 1]
       /\ told' = Forgotten(saved, ledger)
  /\ UNCHANGED <<quota, accounts, aiLoop, cache, unwritten, saved>>

AiClick == bounds.clicks > 0 /\ bounds' = [bounds EXCEPT !.clicks = @ - 1]

\* The refresh button overrides cadence and backoff.
RefreshClicked ==
  /\ usage.load # "no" /\ AiClick
  /\ RequestRound(usage, TRUE, {})
  /\ UNCHANGED <<quota, accounts, aiLoop, cache, unwritten, saved, told>>

\* The retry button stands on the detail of a provider that needs setup or failed.
Retriable(report) ==
  {p \in Providers : report[p] # None /\ report[p].state \in {"setup", "fault"}}

RetryClicked ==
  /\ usage.load # "no" /\ AiClick
  /\ \E p \in Retriable(usage.report) : RequestRound(usage, FALSE, {p})
  /\ UNCHANGED <<quota, accounts, aiLoop, cache, unwritten, saved, told>>

\* SettingsChanged of the plugin: another generation, and a forced round once started.
AiSettingsChanged ==
  /\ AiClick
  /\ \E tracked \in SUBSET Providers, alerts \in BOOLEAN :
       LET u == [usage EXCEPT !.tracked = tracked, !.alerts = alerts, !.generation = @ + 1] IN
       IF usage.load # "no" THEN RequestRound(u, TRUE, {})
       ELSE usage' = u /\ UNCHANGED <<queue, worker, done>>
  /\ UNCHANGED <<quota, accounts, aiLoop, cache, unwritten, saved, told>>

----------------------------------------------------------------------------
(* The refresh worker *)

Completion(asked, report, warm) ==
  [newest |-> asked.newest, generation |-> asked.generation, report |-> report, warm |-> warm]

\* The worker takes the request, follows its settings, and warms up once.
TakeRequest ==
  /\ worker.at = "idle" /\ queue # None
  /\ LET followed == IF worker.generation = queue.generation THEN aiLoop
                     ELSE Reconfigured(aiLoop, queue.tracked)
     IN /\ aiLoop' = IF worker.warmed THEN followed ELSE Warmed(followed)
        /\ worker' = [at |-> IF worker.warmed THEN "round" ELSE "warm", job |-> queue,
                      generation |-> queue.generation, warmed |-> TRUE,
                      held |-> IF worker.warmed THEN None
                               ELSE Completion(queue, [p \in Providers |->
                                      IF cache.report[p] = None THEN None
                                      ELSE Aged(cache.report[p])], TRUE)]
  /\ queue' = None
  /\ UNCHANGED <<quota, accounts, cache, usage, done, unwritten, saved, told, bounds>>

\* The retries of the request are forced, the round runs and the report is cached.
Round ==
  /\ worker.at = "round"
  /\ LET rounded == Rounded(Forced(aiLoop, worker.job.retries), worker.job.force) IN
       /\ aiLoop' = rounded
       /\ cache' = [report |-> ReportOf(rounded), age |-> 0]
       /\ worker' = [worker EXCEPT !.at = "report",
                                   !.held = Completion(worker.job, ReportOf(rounded), FALSE)]
  /\ UNCHANGED <<quota, accounts, usage, queue, done, unwritten, saved, told, bounds>>

\* The completion enters the channel of one; the worker waits for room in it.
Deliver ==
  /\ worker.at \in {"warm", "report"} /\ done = None
  /\ done' = worker.held
  /\ worker' = IF worker.at = "warm" THEN [worker EXCEPT !.at = "round", !.held = None]
               ELSE [worker EXCEPT !.at = "idle", !.held = None, !.job = None]
  /\ UNCHANGED <<quota, accounts, aiLoop, cache, usage, queue, unwritten, saved, told, bounds>>

----------------------------------------------------------------------------
(* The process loop takes a completion *)

\* What the level is told of with a notice of this window.
Again(before, reset) ==
  IF before # None /\ before.reset = reset THEN [before EXCEPT !.times = @ + 1]
  ELSE [reset |-> reset, times |-> 1, losses |-> 0]

\* A completion of older settings is dropped; a warm start is shown only; any other is
\* shown, notified of, and its ledger handed to the saver, which writes it later.
TakeCompletion ==
  /\ done # None
  /\ IF done.generation # usage.generation THEN UNCHANGED <<usage, unwritten, told>>
     ELSE IF done.warm
     THEN /\ usage' = [usage EXCEPT !.report = done.report, !.loading = TRUE]
          /\ UNCHANGED <<unwritten, told>>
     ELSE LET ledger == IF usage.alerts THEN CheckAlerts(done.report, usage.ledger)
                        ELSE usage.ledger
          IN /\ usage' = [usage EXCEPT !.report = done.report, !.loading = ~done.newest,
                                 !.ledger = ledger]
             /\ unwritten' = IF usage.alerts THEN ledger ELSE unwritten
             /\ told' = IF ~usage.alerts THEN told
                        ELSE [r \in Records |->
                                IF r \in Rearmed(done.report) THEN None
                                ELSE IF r \in Noticed(done.report, usage.ledger)
                                THEN Again(told[r], done.report[r[1]].reset)
                                ELSE told[r]]
  /\ done' = None
  /\ UNCHANGED <<quota, accounts, aiLoop, cache, queue, worker, saved, bounds>>

\* The saver's write is stored.  One that the host refuses, or that gets no answer, is
\* kept for the next: it only comes later.
LedgerWritten ==
  /\ unwritten # None
  /\ saved' = unwritten /\ unwritten' = None
  /\ UNCHANGED <<quota, accounts, aiLoop, cache, usage, queue, worker, done, told, bounds>>

----------------------------------------------------------------------------
(* Time, the outside, and restarts *)

Older(age, most) == Least(age + 1, most)
OlderReading(r) == IF r = None THEN None ELSE [r EXCEPT !.age = Older(@, OldAge)]
OlderRecord(r) == IF r = None THEN None ELSE [r EXCEPT !.age = Older(@, Cooldown)]
OlderLedger(ledger) == [r \in Records |-> OlderRecord(ledger[r])]

\* A unit passes and the schedule timer asks for a round.  A round is taken to end
\* within the interval.
AiTick ==
  /\ usage.load # "no"
  /\ queue = None /\ worker.at = "idle" /\ done = None /\ usage.load # "asked"
  /\ aiLoop' = [aiLoop EXCEPT !.due = [p \in Providers |-> Less(@[p], 1)],
                          !.floor = [p \in Providers |-> Less(@[p], 1)],
                          !.latest = [p \in Providers |-> OlderReading(@[p])],
                          !.good = [p \in Providers |-> OlderReading(@[p])]]
  /\ cache' = [report |-> [p \in Providers |-> OlderReading(cache.report[p])],
               age |-> Older(cache.age, OldAge)]
  /\ saved' = OlderLedger(saved)
  /\ unwritten' = IF unwritten = None THEN None ELSE OlderLedger(unwritten)
  /\ RequestRound([usage EXCEPT !.ledger = OlderLedger(@),
                          !.report = [p \in Providers |-> OlderReading(@[p])]], FALSE, {})
  /\ UNCHANGED <<quota, accounts, told, bounds>>

\* The quota a provider would report moves, inside its window or into the next one,
\* whose reset it may not know (zero).
QuotaMoves ==
  \E p \in Providers, pct \in Percents, ahead \in {0, 1}, known \in BOOLEAN :
    /\ quota[p].window + ahead <= AiWindows
    /\ quota' = [quota EXCEPT ![p] = [pct |-> pct, window |-> @.window + ahead,
                                      reset |-> IF known THEN @.window + ahead ELSE 0]]
    /\ quota' # quota
    /\ UNCHANGED <<accounts, aiLoop, cache, usage, queue, worker, done, unwritten, saved, told,
                   bounds>>

\* A sign-in appears, goes, expires or works again.
AccountsChange ==
  /\ bounds.troubles > 0
  /\ \E p \in Providers : \E present \in SUBSET SignIns(p) :
       \E working \in SUBSET present :
         /\ [present |-> present, working |-> working] # accounts[p]
         /\ accounts' = [accounts EXCEPT ![p] = [present |-> present, working |-> working]]
  /\ bounds' = [bounds EXCEPT !.troubles = @ - 1]
  /\ UNCHANGED <<quota, aiLoop, cache, usage, queue, worker, done, unwritten, saved, told>>

\* The process ends, which leaves the cache and the stored ledger, and is started again
\* with the settings it had.  The last flush stores a ledger that still waits, unless the
\* host is gone, refuses it or does not answer in a second, or the process is killed.
AiRestarts ==
  /\ bounds.starts > 1
  /\ bounds' = [bounds EXCEPT !.starts = @ - 1]
  /\ aiLoop' = FreshLoop /\ queue' = None /\ done' = None /\ worker' = WorkerStart
  /\ usage' = [UsageStart EXCEPT !.tracked = usage.tracked, !.alerts = usage.alerts]
  /\ unwritten' = None
  /\ \/ saved' = (IF unwritten = None THEN saved ELSE unwritten) /\ UNCHANGED told
     \/ unwritten # None /\ told' = Forgotten(unwritten, saved) /\ UNCHANGED saved
  /\ UNCHANGED <<quota, accounts, cache>>

AiInit ==
  /\ quota \in [Providers -> {[pct |-> pct, window |-> 1, reset |-> 1] : pct \in Percents}]
  /\ accounts = [p \in Providers |-> [present |-> SignIns(p), working |-> SignIns(p)]]
  /\ aiLoop = FreshLoop
  /\ cache = [report |-> NoReport, age |-> OldAge]
  /\ usage = UsageStart /\ queue = None /\ worker = WorkerStart /\ done = None
  /\ unwritten = None /\ saved = NoRecords /\ told = NoRecords
  /\ bounds = [clicks |-> AiClicks, troubles |-> AiTroubles, starts |-> AiStarts]

AiMain == ViewOpens \/ LedgerLoaded \/ TakeCompletion
AiWorker == TakeRequest \/ Round \/ Deliver
AiNext == \/ AiMain \/ AiWorker \/ LedgerWritten \/ AiTick
          \/ RefreshClicked \/ RetryClicked \/ AiSettingsChanged
          \/ QuotaMoves \/ AccountsChange \/ AiRestarts

\* The process and its worker keep running, and time passes.
AiSpec == /\ AiInit /\ [][AiNext]_aiVars
          /\ WF_aiVars(AiMain) /\ WF_aiVars(AiWorker) /\ WF_aiVars(AiTick)

----------------------------------------------------------------------------
(* Properties *)

\* A level fires once per quota window until the use falls below it again: not by the
\* next report, nor by a round asked for before the ledger is read, nor after a restart.
\* Only a record that was lost is told of again, and once for each loss: the process ended
\* before the saver stored it, or the read at the start failed (main.go 208-212, 459-470,
\* loadLedger).
AlertOnce == \A r \in Records : told[r] # None => told[r].times <= 1 + told[r].losses

\* While the refresh button is busy a round is on its way that will end that: the
\* last one asked for, under the settings in force, waiting for the ledger, in the
\* queue, with the worker or on its way back.
LoadingHasRound ==
  usage.loading =>
    \/ usage.pending # None
    \/ \E r \in {queue, worker.job, done} \ {None} :
         r.newest /\ r.generation = usage.generation

\* Both of them: an alert comes once a window, and a panel that loads has a round
\* (alerts.go, main.go).
AlertsComeOnce == AlertOnce /\ LoadingHasRound

=============================================================================
