------------------------------- MODULE Games -------------------------------
(***************************************************************************)
(* The games plugin: the process loop of cmd/sysc-plugin-games with its    *)
(* refresh worker, the launch machine of plugins/games/panel/launch.go,    *)
(* the merged libraries of plugins/games/source and the play sessions of   *)
(* plugins/games/store.                                                    *)
(*                                                                         *)
(* Each game is of a library of its own, and its session log is whether it *)
(* was never played, is open or is closed.  Search, sections, favourites   *)
(* and covers are left out, and so is turning the detection off.           *)
(***************************************************************************)
EXTENDS Absent, Naturals, Sequences

CONSTANTS Games,              \* ids of games
          GameChangesMax,     \* bound: games that start or quit
          GameClicksMax,      \* bound: what the user does
          GameTroublesMax,    \* bound: libraries and saves that fail
          GameStartsMax       \* bound: starts of the plugin

\* What the refresh worker does for a request: it lists the games, then it scans them.
Jobs == [stage : {"list", "scan"}, games : SUBSET Games, latest : BOOLEAN, current : BOOLEAN]

GamesAssumption ==
  /\ {GameChangesMax, GameClicksMax, GameTroublesMax, GameStartsMax} \subseteq Nat
  /\ None \notin Jobs

VARIABLES alive,    \* outside: the games with a process
          listed,   \* session.games
          gamesRunning,  \* session.running
          phases,   \* Machine.phases
          log,      \* session.sessions: "never", "open" or "closed" for each game
          gamesStored,  \* the sessions the host keeps
          pruned,   \* prunedStale
          refresh,  \* refreshing, and the waiting job
          worker,   \* the job of the refresh worker, or None
          results,  \* refreshDone
          watch,    \* the poll ticker is armed, the panel is open, all libraries failed
          limits    \* what is left of the bounds

gamesVars == <<alive, listed, gamesRunning, phases, log, gamesStored, pruned, refresh, worker,
               results, watch, limits>>

\* A job is the latest request, and of the present generation of libraries, or not.
Job == [stage |-> "list", games |-> {}, latest |-> TRUE, current |-> TRUE]
Superseded(jobs) == [i \in DOMAIN jobs |-> [jobs[i] EXCEPT !.latest = FALSE]]

\* requestRefresh: the queued job is replaced, the active one goes on.
RequestGames(progress) ==
  /\ refresh' = [shown |-> refresh.shown \/ progress, queued |-> TRUE]
  /\ worker' = IF worker = None THEN None ELSE [worker EXCEPT !.latest = FALSE]
  /\ results' = Superseded(results)

\* desiredPoll: while a listed game launches, the panel is open, or a game runs.
DesiredPoll(states, run, open) ==
  (\E g \in listed : states[g] = "launching") \/ open \/ run # {}

----------------------------------------------------------------------------
(* The refresh worker *)

TakeJob ==
  /\ worker = None /\ refresh.queued
  /\ worker' = Job
  /\ refresh' = [refresh EXCEPT !.queued = FALSE]
  /\ UNCHANGED <<alive, listed, gamesRunning, phases, log, gamesStored, pruned, results, watch,
                 limits>>

\* What the libraries answer: all of it, or without those that fail.
Answers(trouble) ==
  \/ trouble = {} /\ UNCHANGED limits
  \/ trouble # {} /\ limits.troubles > 0 /\ limits' = [limits EXCEPT !.troubles = @ - 1]
Result(stage, games, err, done) ==
  [stage |-> stage, games |-> games, err |-> err, done |-> done,
   latest |-> worker.latest, current |-> worker.current]

\* Set.List: a library that fails is skipped; an error when every one failed.
ListGames ==
  /\ worker # None /\ worker.stage = "list" /\ Len(results) < 2
  /\ \E failed \in {{}, Games} \cup {{g} : g \in Games} :
       /\ Answers(failed)
       /\ LET err == failed = Games IN
          /\ results' = Append(results, Result("list", Games \ failed, err, err))
          /\ worker' = IF err THEN None
                       ELSE [worker EXCEPT !.stage = "scan", !.games = Games \ failed]
  /\ UNCHANGED <<alive, listed, gamesRunning, phases, log, gamesStored, pruned, refresh, watch>>

\* Set.Running: of the listed games those with a process.
ScanGames ==
  /\ worker # None /\ worker.stage = "scan" /\ Len(results) < 2
  /\ \E failed \in {{}, worker.games} \cup {{g} : g \in worker.games} :
       /\ Answers(failed)
       /\ results' = Append(results, Result("scan", (alive \cap worker.games) \ failed,
                                            failed = worker.games /\ failed # {}, TRUE))
       /\ worker' = None
  /\ UNCHANGED <<alive, listed, gamesRunning, phases, log, gamesStored, pruned, refresh, watch>>

----------------------------------------------------------------------------
(* The loop *)

\* save: the host keeps the sessions, or refuses, which the user is told.
Saves(sessions) ==
  \/ gamesStored' = (IF sessions = log THEN gamesStored ELSE sessions) /\ UNCHANGED limits
  \/ /\ sessions # log /\ limits.troubles > 0
     /\ limits' = [limits EXCEPT !.troubles = @ - 1]
     /\ UNCHANGED gamesStored

\* MarkRunning and Observe: a game that runs is adopted, or its launch has come true;
\* one that is slow has failed; one that is gone has stopped.
Observed(set, slow) == [g \in Games |->
  CASE g \in set /\ phases[g] # "running" -> [phase |-> "running", log |-> "open"]
    [] g \notin set /\ phases[g] = "running" -> [phase |-> "idle", log |-> "closed"]
    [] g \notin set /\ phases[g] = "launching" /\ g \in slow -> [phase |-> "failed", log |-> log[g]]
    [] OTHER -> [phase |-> phases[g], log |-> log[g]]]

\* EndDangling, at the first scan: the open session of a game that is not running.
EndDangling(sessions, set) == [g \in Games |->
  IF ~pruned /\ sessions[g] = "open" /\ g \notin set THEN "closed" ELSE sessions[g]]

\* scan, which sets the poll by what it saw.
GamesScan(set) ==
  \E slow \in SUBSET {g \in Games : phases[g] = "launching"} :
    LET seen == Observed(set, slow)
        sessions == EndDangling([g \in Games |-> seen[g].log], set)
    IN /\ phases' = [g \in Games |-> seen[g].phase]
       /\ log' = sessions /\ Saves(sessions)
       /\ gamesRunning' = set /\ pruned' = TRUE
       /\ watch' = [watch EXCEPT !.armed = DesiredPoll(phases', set, watch.open)]

\* applyRefresh.
ApplyRefresh ==
  /\ results # <<>> /\ results' = Tail(results)
  /\ LET r == Head(results) IN
     /\ IF ~r.current
        THEN UNCHANGED <<listed, gamesRunning, phases, log, gamesStored, pruned, watch, limits,
                       refresh>>
        ELSE /\ IF r.stage = "scan" /\ ~r.err /\ ~watch.missing
                THEN GamesScan(r.games) /\ UNCHANGED listed
                ELSE /\ UNCHANGED <<gamesRunning, phases, log, gamesStored, pruned, limits>>
                     /\ listed' = IF r.stage = "list" /\ ~r.err THEN r.games ELSE listed
                     /\ watch' = IF r.stage # "list" THEN watch
                                 ELSE [watch EXCEPT !.missing = r.err /\ (@ \/ listed = {})]
             /\ refresh' = [refresh EXCEPT !.shown = @ /\ ~(r.done /\ r.latest)]
  /\ UNCHANGED <<alive, worker>>

\* The poll.
GamesTick ==
  /\ watch.armed /\ ~refresh.queued
  /\ RequestGames(FALSE)
  /\ UNCHANGED <<alive, listed, gamesRunning, phases, log, gamesStored, pruned, watch, limits>>

GamesClick == limits.clicks > 0 /\ limits' = [limits EXCEPT !.clicks = @ - 1]

OpenPanel ==
  /\ ~watch.open /\ GamesClick
  /\ RequestGames(TRUE)
  /\ watch' = [watch EXCEPT !.open = TRUE, !.armed = TRUE]
  /\ UNCHANGED <<alive, listed, gamesRunning, phases, log, gamesStored, pruned>>

\* The poll is left as it is.
ClosePanel ==
  /\ watch.open /\ GamesClick
  /\ watch' = [watch EXCEPT !.open = FALSE]
  /\ UNCHANGED <<alive, listed, gamesRunning, phases, log, gamesStored, pruned, refresh, worker,
                 results>>

\* doLaunch: not while the game launches or runs; the launcher starts it later, or never.
Launch(g) ==
  /\ watch.open /\ g \in listed /\ phases[g] \in {"idle", "failed"} /\ GamesClick
  /\ phases' = [phases EXCEPT ![g] = "launching"]
  /\ watch' = [watch EXCEPT !.armed = TRUE]
  /\ UNCHANGED <<alive, listed, gamesRunning, log, gamesStored, pruned, refresh, worker,
                 results>>

\* Set.Stop, by the panel or the switcher.
Stop(g) ==
  /\ g \in gamesRunning /\ g \in listed /\ GamesClick
  /\ alive' = alive \ {g}
  /\ UNCHANGED <<listed, gamesRunning, phases, log, gamesStored, pruned, refresh, worker, results,
                 watch>>

\* As SettingsChange, but without a job of the new generation.
LeavesJob ==
  /\ GamesClick
  /\ worker' = IF worker = None THEN None ELSE [worker EXCEPT !.current = FALSE]
  /\ results' = [i \in DOMAIN results |-> [results[i] EXCEPT !.current = FALSE]]
  /\ watch' = [watch EXCEPT !.armed = DesiredPoll(phases, gamesRunning, watch.open),
                           !.missing = FALSE]
  /\ UNCHANGED <<alive, listed, gamesRunning, phases, log, gamesStored, pruned, refresh>>

\* SettingsChanged: openSources, a new generation, and a job of it.
SettingsChange ==
  /\ GamesClick
  /\ refresh' = [shown |-> TRUE, queued |-> TRUE]
  /\ worker' = IF worker = None THEN None ELSE [worker EXCEPT !.latest = FALSE, !.current = FALSE]
  /\ results' = [i \in DOMAIN results |-> [results[i] EXCEPT !.latest = FALSE, !.current = FALSE]]
  /\ watch' = [watch EXCEPT !.armed = DesiredPoll(phases, gamesRunning, watch.open),
                           !.missing = FALSE]
  /\ UNCHANGED <<alive, listed, gamesRunning, phases, log, gamesStored, pruned>>

GameChanges ==
  /\ limits.changes > 0 /\ limits' = [limits EXCEPT !.changes = @ - 1]
  /\ \E g \in Games : alive' = IF g \in alive THEN alive \ {g} ELSE alive \cup {g}
  /\ UNCHANGED <<listed, gamesRunning, phases, log, gamesStored, pruned, refresh, worker, results,
                 watch>>

\* A new process: nothing listed, a first job, and a poll until it is in.
GamesInit ==
  /\ alive = {} /\ gamesStored = [g \in Games |-> "never"] /\ log = gamesStored
  /\ pruned = FALSE
  /\ listed = {} /\ gamesRunning = {} /\ phases = [g \in Games |-> "idle"]
  /\ refresh = [shown |-> FALSE, queued |-> TRUE] /\ worker = None /\ results = <<>>
  /\ watch = [armed |-> TRUE, open |-> FALSE, missing |-> FALSE]
  /\ limits = [changes |-> GameChangesMax, clicks |-> GameClicksMax, troubles |-> GameTroublesMax,
               starts |-> GameStartsMax - 1]

\* The plugin ends, or its process dies, and the host starts it again: restore.
GamesRestart ==
  /\ limits.starts > 0 /\ limits' = [limits EXCEPT !.starts = @ - 1]
  /\ log' = gamesStored /\ pruned' = FALSE
  /\ listed' = {} /\ gamesRunning' = {} /\ phases' = [g \in Games |-> "idle"]
  /\ refresh' = [shown |-> FALSE, queued |-> TRUE] /\ worker' = None /\ results' = <<>>
  /\ watch' = [armed |-> TRUE, open |-> FALSE, missing |-> FALSE]
  /\ UNCHANGED <<alive, gamesStored>>

WorkerSteps == TakeJob \/ ListGames \/ ScanGames
UserActs == OpenPanel \/ ClosePanel \/ SettingsChange \/ \E g \in Games : Launch(g) \/ Stop(g)

GamesNext == WorkerSteps \/ ApplyRefresh \/ GamesTick \/ UserActs \/ GameChanges \/ GamesRestart

\* The worker, the loop and an armed ticker go on.
GamesSpec == /\ GamesInit /\ [][GamesNext]_gamesVars
             /\ WF_gamesVars(WorkerSteps) /\ WF_gamesVars(ApplyRefresh) /\ WF_gamesVars(GamesTick)

----------------------------------------------------------------------------
(* Properties *)

\* The progress row goes when its job is answered, and that job is still under way:
\* a new generation of libraries leaves no spinner without a job (main.go:396-410).
RefreshIsServed == refresh.shown =>
  \/ refresh.queued
  \/ worker # None /\ worker.latest /\ worker.current
  \/ \E i \in DOMAIN results : results[i].latest /\ results[i].current /\ results[i].done

\* After the first scan a session is open exactly while its game counts as running,
\* and something looks for its end (#92: "or the game-quit event ... waits").
OpenSessionIsWatched == pruned =>
  /\ \A g \in Games : (log[g] = "open") = (phases[g] = "running")
  /\ gamesRunning # {} => watch.armed

\* A refresh that is shown is under way, and an open session is watched (main.go,
\* journal.go).
SessionsAreWatched == RefreshIsServed /\ OpenSessionIsWatched

=============================================================================
