------------------------------ MODULE AirQuality ------------------------------
(***************************************************************************)
(* plugins/airquality and cmd/sysc-plugin-airquality: the reports built    *)
(* from several sources, the cache that carries rows over a failed refresh *)
(* and a restart, and the loop that fetches for a place that may change.   *)
(*                                                                         *)
(* The goroutines are the event loop, the refresher and at most one        *)
(* location query.  The host's weather location is pushed when it changes  *)
(* and can be asked for.  Time is the age of what is on record, in hours;  *)
(* a refresh takes seconds, so no hour passes while one is under way.      *)
(***************************************************************************)
EXTENDS Naturals, Sequences, FiniteSets, FiniteSetsExt, Absent

CONSTANTS Places,      \* coordinates the configuration or the shell can name
          Regional,    \* the places AirHealth covers
          OwnPlace,    \* the plugin's own coordinates
          CarryLimit,  \* how long a row of a failing source is carried
          MaxEvents    \* bound: settings, moves of the shell, refreshes by the timer
                       \* and the button, restarts

AirAssumption ==
  /\ Regional \subseteq Places /\ OwnPlace \in Places
  /\ None \notin Places \cup {"airhealth", "openmeteo", "google"}
  /\ {CarryLimit, MaxEvents} \subseteq Nat

VARIABLES airSettings,           \* AirHealth on, a Google key, follow the shell
          shell,              \* the shell's location as the plugin knows it
          airLive, cache, lastErr,
          wake, fetching, result,   \* the refresher's request slot, work and answer
          query, answer, current,  \* the location query; current: no push since it began
          initial,            \* initialRefreshStarted
          loaded,
          hostLocation, pushes,    \* the host's location; pushes on their way
          airStored,             \* the host's stored report
          airUp,
          happened            \* counter of the bound

airSessionVars == <<airSettings, shell, airLive, cache, lastErr, initial, loaded>>
refreshVars == <<wake, fetching, result>>
locationVars == <<query, answer, current>>
hostVars == <<hostLocation, pushes, airStored>>
airVars == <<airSessionVars, refreshVars, locationVars, hostVars, airUp, happened>>

Measures == {"air", "grass"}
Sources == {"airhealth", "openmeteo", "google"}
Old == CarryLimit + 1  \* ages beyond the limit are alike
NoRow == [source |-> None, age |-> 0]
NoReport == [rows |-> [m \in Measures |-> NoRow], age |-> 0, stale |-> TRUE, origin |-> None]
Settings == [airhealth : BOOLEAN, key : BOOLEAN, follow : BOOLEAN]
NoRequest == [air |-> FALSE, key |-> FALSE, place |-> None, current |-> FALSE]
NoResult == [report |-> NoReport, failed |-> {}, current |-> FALSE]

HasRow(r, m) == r.rows[m] # NoRow
Seen(r) == r # NoReport

-----------------------------------------------------------------------------
(* Fetch: AirHealth, then Open-Meteo, then Google for pollen that neither  *)
(* has.  A source fails, has no coverage, or answers with some measures.   *)

Failed == {"failed"}
AirHealthAnswers(q) == IF q.air THEN {Failed, {}, {"air", "grass"}} ELSE {{}}
OpenMeteoAnswers == {Failed, {"air"}, {"air", "grass"}}
GoogleAnswers(q, pollen) == IF q.key /\ ~pollen THEN {Failed, {}, {"grass"}} ELSE {{}}

SourceOf(m, a, o, g) ==
  IF m \in a THEN "airhealth" ELSE IF m \in o THEN "openmeteo"
  ELSE IF m \in g THEN "google" ELSE None

\* Fetch with these answers: NoReport, or a report, and the sources that failed.
FetchResult(q, a, o, g) ==
  LET rows == [m \in Measures |-> [source |-> SourceOf(m, a, o, g), age |-> 0]]
      failed == {s \in Sources : Failed = CASE s = "airhealth" -> a
                                            [] s = "openmeteo" -> o [] s = "google" -> g}
  IN [report |-> IF \A m \in Measures : rows[m] = NoRow THEN NoReport
                 ELSE [rows |-> rows, age |-> 0, stale |-> FALSE, origin |-> q.place],
      failed |-> failed, current |-> q.current]

FetchResults(q) ==
  UNION {UNION {{FetchResult(q, a, o, g) : g \in GoogleAnswers(q, "grass" \in a \cup o)}
                : o \in OpenMeteoAnswers} : a \in AirHealthAnswers(q)}

-----------------------------------------------------------------------------
(* Cache.                                                                  *)

WithoutGoogle(r) ==
  [r EXCEPT !.rows = [m \in Measures |-> IF r.rows[m].source = "google" THEN NoRow ELSE r.rows[m]]]

\* Google's rows are never retained.
Retained(r) == WithoutGoogle(r)

\* carryOver: rows that the fresh report lacks, while they are young enough.
Carries(fresh, row) ==
  row # NoRow /\ row.source # "google" /\ row.age <= fresh.age + CarryLimit

\* The merged report is as old as its oldest row, and stale when it carries any.
OldestAge(fresh, carried) == Max({row.age : row \in carried} \cup {fresh.age})
StaleMerge(carried) == carried # {}

CarryOver(fresh, previous) ==
  LET lacking == {m \in Measures : ~HasRow(fresh, m) /\ Carries(fresh, previous.rows[m])}
      carried == {previous.rows[m] : m \in lacking}
  IN  [rows |-> [m \in Measures |-> IF m \in lacking THEN previous.rows[m] ELSE fresh.rows[m]],
       age |-> OldestAge(fresh, carried),
       stale |-> StaleMerge(carried), origin |-> fresh.origin]

\* Merge; only rows of the same place are carried.
SameOrigin(a, b) == Seen(a) /\ a.origin = b.origin
Merge(fresh) == IF SameOrigin(cache, fresh) THEN CarryOver(fresh, cache) ELSE fresh

\* Keep.
Kept == [WithoutGoogle(cache) EXCEPT !.stale = TRUE]

\* Relocate.
Relocated(place) == IF Seen(cache) /\ cache.origin # place THEN NoReport ELSE cache

-----------------------------------------------------------------------------
(* The session.                                                            *)

\* sources: the shell's place when the user follows it, else the plugin's own.
PlaceOf(cfg, loc) == IF cfg.follow /\ loc # None THEN loc ELSE OwnPlace
RequestOf(cfg, loc) ==
  LET place == PlaceOf(cfg, loc)
  IN  [air |-> cfg.airhealth /\ place \in Regional, key |-> cfg.key, place |-> place, current |-> TRUE]
Here == PlaceOf(airSettings, shell)

\* requestRefresh: the slot keeps the newest request.
ChangesSources == RequestOf(airSettings', shell') # RequestOf(airSettings, shell)
NewestWins(request) == request
RequestRefresh == wake' = NewestWins(RequestOf(airSettings', shell'))

\* As Outdated, but what is under way stays current.
StillCurrent(x) == x

\* A new generation makes everything that is under way stale.
Outdated(x) == [x EXCEPT !.current = FALSE]

\* sourcesChanged.
SourcesChanged ==
  /\ cache' = Relocated(PlaceOf(airSettings', shell'))
  /\ IF ChangesSources
     THEN /\ airLive' = NoReport
          /\ lastErr' = FALSE
          /\ fetching' = Outdated(fetching)
          /\ result' = Outdated(result)
          /\ RequestRefresh
     ELSE UNCHANGED <<airLive, lastErr, fetching, result, wake>>

\* Start: the stored report, if it can be read, is shown at once; a location
\* query begins.
Defaults == [airhealth |-> TRUE, key |-> FALSE, follow |-> TRUE]
Restored(report) == IF Seen(report) THEN [WithoutGoogle(report) EXCEPT !.stale = TRUE] ELSE NoReport

AirInit ==
  /\ airSettings = Defaults /\ shell = None
  /\ airLive = NoReport /\ cache = NoReport /\ lastErr = FALSE
  /\ wake = NoRequest /\ fetching = NoRequest /\ result = NoResult
  /\ query = "asking" /\ answer = None /\ current = TRUE
  /\ initial = FALSE /\ loaded = TRUE
  /\ hostLocation \in Places \cup {None}
  /\ pushes = <<>> /\ airStored = NoReport /\ airUp = TRUE
  /\ happened = 0

\* Something from outside, within the bound.
Happens == happened < MaxEvents /\ happened' = happened + 1

AirStarts ==
  /\ ~airUp
  /\ Happens
  /\ airUp' = TRUE
  /\ loaded' \in BOOLEAN
  /\ cache' = IF loaded' THEN Restored(airStored) ELSE NoReport
  /\ query' = "asking"
  /\ UNCHANGED <<airSettings, shell, airLive, lastErr, initial, refreshVars, answer, current,
                 hostVars>>

\* The process ends, and with it all that it held.
AirExits ==
  /\ airUp
  /\ airUp' = FALSE
  /\ airSettings' = Defaults /\ shell' = None
  /\ airLive' = NoReport /\ cache' = NoReport /\ lastErr' = FALSE
  /\ wake' = NoRequest /\ fetching' = NoRequest /\ result' = NoResult
  /\ query' = "none" /\ answer' = None /\ current' = TRUE
  /\ initial' = FALSE /\ loaded' = FALSE
  /\ pushes' = <<>>
  /\ UNCHANGED <<hostLocation, airStored, happened>>

-----------------------------------------------------------------------------
(* The refresher.                                                          *)

StartFetch ==
  /\ airUp
  /\ fetching = NoRequest /\ result = NoResult
  /\ wake # NoRequest
  /\ fetching' = wake
  /\ wake' = NoRequest
  /\ UNCHANGED <<airSessionVars, result, locationVars, hostVars, airUp, happened>>

EndFetch ==
  /\ airUp
  /\ fetching # NoRequest
  /\ result' \in FetchResults(fetching)
  /\ fetching' = NoRequest
  /\ UNCHANGED <<airSessionVars, wake, locationVars, hostVars, airUp, happened>>

\* save: not before the stored report was read; the host may not answer.
SaveReport(r) == airStored' \in {airStored} \cup (IF loaded THEN {WithoutGoogle(r)} ELSE {})

\* handleRefresh.
HandleRefresh ==
  /\ airUp
  /\ result # NoResult
  /\ result' = NoResult
  /\ CASE ~result.current -> UNCHANGED <<airLive, cache, lastErr, airStored>>
       [] result.current /\ Seen(result.report) ->
            /\ airLive' = Merge(result.report)
            /\ cache' = Retained(airLive')
            /\ lastErr' = (result.failed # {})
            /\ SaveReport(airLive')
       [] result.current /\ ~Seen(result.report) /\ Seen(cache) ->
            /\ cache' = Kept
            /\ airLive' = Kept
            /\ lastErr' = TRUE
            /\ SaveReport(Kept)
       [] OTHER ->
            /\ airLive' = NoReport
            /\ lastErr' = TRUE
            /\ UNCHANGED <<cache, airStored>>
  /\ UNCHANGED <<airSettings, shell, initial, loaded, wake, fetching, locationVars,
                 hostLocation, pushes, airUp, happened>>

-----------------------------------------------------------------------------
(* The location, the timer and the settings.                               *)

\* The host answers the query, or the call fails.
HostAnswers ==
  /\ airUp
  /\ query = "asking"
  /\ query' = "answered"
  /\ answer' \in {hostLocation} \cup {"failed"}
  /\ UNCHANGED <<airSessionVars, refreshVars, current, hostVars, airUp, happened>>

\* applyLocationResult: an answer from before the last push is void.
AppliesAnswer == answer # "failed" /\ current

\* The first refresh waits for the answer, when none was started before it.
OnLocationResult ==
  /\ airUp
  /\ query = "answered"
  /\ query' = "none"
  /\ answer' = None
  /\ UNCHANGED airSettings
  /\ IF AppliesAnswer THEN shell' = answer ELSE UNCHANGED shell
  /\ \/ AppliesAnswer /\ ChangesSources /\ SourcesChanged
     \/ /\ ~ChangesSources
        /\ IF AppliesAnswer THEN cache' = Relocated(Here) ELSE UNCHANGED cache
        /\ IF initial THEN UNCHANGED wake ELSE RequestRefresh
        /\ UNCHANGED <<airLive, lastErr, fetching, result>>
  /\ initial' = TRUE
  /\ UNCHANGED <<loaded, current, hostVars, airUp, happened>>

StartQuery ==
  IF query = "none" THEN query' = "asking" /\ current' = TRUE ELSE UNCHANGED <<query, current>>

\* The timer: a query, and a refresh, which only the first time waits for it.
OnTimer ==
  /\ airUp
  /\ Happens
  /\ StartQuery
  /\ initial' = (initial \/ query' = "none")
  /\ UNCHANGED <<airSettings, shell>>
  /\ IF initial' THEN RequestRefresh ELSE UNCHANGED wake
  /\ UNCHANGED <<airLive, cache, lastErr, loaded, fetching, result, answer,
                 hostVars, airUp>>

\* The refresh button.
OnRefreshButton ==
  /\ airUp
  /\ Happens
  /\ UNCHANGED <<airSettings, shell>>
  /\ RequestRefresh
  /\ UNCHANGED <<airLive, cache, lastErr, initial, loaded, fetching, result,
                 locationVars, hostVars, airUp>>

OnSettings ==
  /\ airUp
  /\ Happens
  /\ airSettings' \in Settings
  /\ UNCHANGED shell
  /\ SourcesChanged
  /\ initial' = (initial \/ ChangesSources)
  /\ UNCHANGED <<loaded, locationVars, hostVars, airUp>>

\* location.changed.
OnPush ==
  /\ airUp
  /\ pushes # <<>>
  /\ pushes' = Tail(pushes)
  /\ shell' = Head(pushes)
  /\ current' = FALSE
  /\ UNCHANGED airSettings
  /\ SourcesChanged
  /\ initial' = (initial \/ ChangesSources)
  /\ UNCHANGED <<loaded, query, answer, hostLocation, airStored, airUp, happened>>

\* The shell's location changes; the host pushes it.
HostMoves ==
  /\ Happens
  /\ hostLocation' \in (Places \cup {None}) \ {hostLocation}
  /\ pushes' = IF airUp THEN Append(pushes, hostLocation') ELSE pushes
  /\ UNCHANGED <<airSessionVars, refreshVars, locationVars, airStored, airUp>>

\* An hour passes.
Older(n) == IF n < Old THEN n + 1 ELSE Old
AgedReport(r) == IF ~Seen(r) THEN r ELSE
  [r EXCEPT !.age = Older(r.age),
            !.rows = [m \in Measures |-> IF HasRow(r, m) THEN [r.rows[m] EXCEPT !.age = Older(@)]
                                                       ELSE NoRow]]
HourPasses ==
  /\ fetching = NoRequest /\ result = NoResult
  /\ airLive' = AgedReport(airLive) /\ cache' = AgedReport(cache) /\ airStored' = AgedReport(airStored)
  /\ UNCHANGED <<airSettings, shell, lastErr, initial, loaded, refreshVars, locationVars,
                 hostLocation, pushes, airUp, happened>>

AirNext ==
  \/ StartFetch \/ EndFetch \/ HandleRefresh
  \/ HostAnswers \/ OnLocationResult \/ OnPush
  \/ OnTimer \/ OnRefreshButton \/ OnSettings
  \/ HostMoves \/ HourPasses \/ AirExits \/ AirStarts

\* The goroutines run, every fetch and host call has a timeout, and a select
\* picks among its ready cases at random; a result or a push stays ready until
\* it is taken.  No timer, button, setting or push of the user's is assumed.
AirSpec ==
  /\ AirInit
  /\ [][AirNext]_airVars
  /\ WF_airVars(StartFetch) /\ WF_airVars(EndFetch) /\ WF_airVars(HostAnswers)
  /\ WF_airVars(HandleRefresh) /\ WF_airVars(OnLocationResult) /\ WF_airVars(OnPush)

-----------------------------------------------------------------------------
(* Properties.                                                             *)

\* current: what the panel shows.
Shown == IF Seen(airLive) THEN airLive ELSE cache

\* Once the panel shows this place's reading, or none, it never shows another
\* place's, whatever refreshes, answers, pushes and settings overlap.
IsHere == Seen(Shown) => Shown.origin = Here
StayHere == airUp /\ IsHere => IsHere'

\* Origin "keeps one place's reading from being shown, or carried forward, as
\* another's" (coordinator.go:51): after a push or the settings have said what
\* the place is, the panel shows no reading of another one.
SettledIsHere == [][OnSettings \/ OnPush => IsHere']_airVars

\* Google's rows are neither cached nor stored, and never shown after the
\* refresh that fetched them has been followed by another one.
GoogleRows(r) == {m \in Measures : r.rows[m].source = "google"}
GoogleNotKept ==
  /\ GoogleRows(cache) = {} /\ GoogleRows(airStored) = {}
  /\ \A m \in GoogleRows(airLive), n \in Measures :
       HasRow(airLive, n) => airLive.rows[m].age <= airLive.rows[n].age

\* The panel's age never understates what it shows, across carried rows,
\* failed refreshes and restarts, and a report that is not marked stale is all
\* from one refresh.
AgeHonest ==
  Seen(Shown) => \A m \in Measures : HasRow(Shown, m) =>
    /\ Shown.rows[m].age <= Shown.age
    /\ Shown.stale \/ Shown.rows[m].age = Shown.age

\* With nothing on its way the plugin's location is the host's, although an
\* answer and a push may overtake each other.
LocationFollows == airUp /\ query = "none" /\ pushes = <<>> => shell \in {hostLocation, None}

\* The location, the rows and the age are what they are said to be, and another
\* place's reading never replaces this one's (coordinator.go, main.go).
ReportsAreTrue ==
  /\ [](LocationFollows /\ GoogleNotKept /\ AgeHonest)
  /\ [][StayHere]_airVars
=============================================================================
