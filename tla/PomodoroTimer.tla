----------------------------- MODULE PomodoroTimer -----------------------------
(***************************************************************************)
(* plugins/timer and cmd/sysc-plugin-timer: the countdown, the pomodoro    *)
(* session around it, and the plugin that persists it across restarts.     *)
(*                                                                         *)
(* Time is relative: a running countdown and every saved deadline are the  *)
(* time that is left, in units of which Second make one second, and time   *)
(* also passes while the plugin is down.  A deadline is saved in whole     *)
(* seconds, so the place of now within its second matters.  The saver is   *)
(* the register that module StateSaver implements.                         *)
(***************************************************************************)
EXTENDS Integers, FiniteSets

CONSTANTS Second,      \* units of time in a second
          WorkLengths, \* lengths the work phase can be set to
          DefaultWork, \* the one before settings arrive
          BreakLength, \* the short break; a long one takes a second more
          Cadence,     \* sessions: work phases before a long break
          MaxTally,    \* bound: time stops at this tally
          MaxInputs, MaxSettings, MaxStarts \* bounds: inputs, settings, plugin starts

TimerAssumption ==
  /\ {Second, BreakLength, Cadence} \cup WorkLengths \subseteq Nat \ {0}
  /\ DefaultWork \in WorkLengths
  /\ \A n \in WorkLengths \cup {BreakLength} : n % Second = 0
  /\ {MaxTally, MaxInputs, MaxSettings, MaxStarts} \subseteq Nat

VARIABLES duration, left, running, fired,    \* the Timer; left is what leftLocked returns
          mode, completed, work, auto,       \* the Session
          sub,                               \* now, within its second
          up, stateChanged, restore, found,  \* the plugin, with its restore goroutine
          unsaved, stored,                   \* the saver's pending value and the host's
          inputs, settings, starts,          \* counters of the bounds
          phase, ended,                      \* identity of the countdown; those that ended
          expected, losses, repeats          \* last snapshot; values lost; phases ended again

countdownVars == <<duration, left, running, fired>>
sessionVars == <<mode, completed>>
configVars == <<work, auto>>
storeVars == <<restore, found, unsaved, stored>>
boundVars == <<inputs, settings, starts>>
historyVars == <<phase, ended, expected, losses, repeats>>
timerVars == <<countdownVars, sessionVars, configVars, sub, up, stateChanged, storeVars,
               boundVars, historyVars>>

Phases == 0 .. 5
NoDeadline == 0 - 1
NoSnapshot == [mode |-> "none", completed |-> 0, duration |-> 0, left |-> NoDeadline, phase |-> 0]

Length(m, w) ==
  CASE m = "work" -> w [] m = "short" -> BreakLength [] m = "long" -> BreakLength + Second
AtLeast0(n) == IF n < 0 THEN 0 ELSE n
Whole(n) == n - (n % Second)

\* Snapshot: the deadline is cut to whole seconds.
SnapshotOf(r, l, d, m, c, p) ==
  IF r THEN [mode |-> m, completed |-> c, duration |-> Whole(d),
             left |-> AtLeast0(l - ((sub + l) % Second)), phase |-> p]
       ELSE [mode |-> m, completed |-> c, duration |-> 0, left |-> NoDeadline, phase |-> 0]

\* A countdown that starts over is a new phase (history).
Fresh == CHOOSE p \in Phases : p \notin {phase, found.phase, unsaved.phase, stored.phase,
                                           expected.phase}
NewPhase == phase' = Fresh

\* save: the snapshot of the state that the handler left.
Save == unsaved' = expected'
Remember == expected' = SnapshotOf(running', left', duration', mode', completed', phase')

TimerInit ==
  /\ work = DefaultWork
  /\ auto = [b \in {"work", "break"} |-> FALSE]
  /\ duration = work /\ left = work /\ running = FALSE /\ fired = FALSE
  /\ mode = "work" /\ completed = 0
  /\ sub = 0
  /\ up = TRUE /\ stateChanged = FALSE
  /\ restore = "asking" /\ found = NoSnapshot
  /\ unsaved = NoSnapshot /\ stored = NoSnapshot
  /\ inputs = 0 /\ settings = 0 /\ starts = 1
  /\ phase = 0 /\ ended = {}
  /\ expected = NoSnapshot /\ losses = 0 /\ repeats = 0

-----------------------------------------------------------------------------
(* The Timer and the Session.                                              *)

\* SetDuration followed by Reset.
Rewind(m) ==
  /\ duration' = Length(m, work)
  /\ left' = Length(m, work)
  /\ running' = FALSE
  /\ fired' = FALSE

\* State.
Idle == ~fired /\ ~running /\ left >= duration

\* advanceLocked: the next phase, which may start at once.
Counts(earned) == earned /\ mode = "work"
NextMode(earned) ==
  IF mode # "work" THEN "work"
  ELSE IF earned /\ (completed + 1) % Cadence = 0 THEN "long" ELSE "short"

Roll(earned) ==
  /\ completed' = completed + IF Counts(earned) THEN 1 ELSE 0
  /\ mode' = NextMode(earned)
  /\ duration' = Length(mode', work)
  /\ left' = duration'
  /\ running' = IF mode = "work" THEN auto["break"] ELSE auto["work"]
  /\ fired' = FALSE
  /\ NewPhase

-----------------------------------------------------------------------------
(* The event loop.                                                         *)

\* The ticker.  A countdown at zero ends: the session rolls, the roll is saved
\* and the user is notified.
SavesRoll == Save

\* As Due, but a countdown at zero goes on.
DueBelowZero == running /\ left < 0 /\ ~fired

Due == running /\ left = 0 /\ ~fired

Tick ==
  /\ up
  /\ Due
  /\ Roll(TRUE)
  /\ Remember
  /\ SavesRoll
  /\ ended' = (ended \cup {phase}) \ {phase'}
  /\ repeats' = repeats + IF phase \in ended THEN 1 ELSE 0
  /\ UNCHANGED <<configVars, sub, up, stateChanged, restore, found, stored, boundVars, losses>>

\* Start, unless nothing is left to count.
StartTimer ==
  /\ running' = (running \/ left > 0)
  /\ fired' = IF ~running /\ left > 0 THEN FALSE ELSE fired
  /\ UNCHANGED <<duration, left, mode, completed, phase>>
PauseTimer ==
  /\ running' = FALSE
  /\ UNCHANGED <<duration, left, fired, mode, completed, phase>>
\* Reset goes back to the duration the countdown has.
ResetTimer ==
  /\ running' = FALSE /\ left' = duration /\ fired' = FALSE
  /\ NewPhase
  /\ UNCHANGED <<duration, mode, completed>>
SetMode(m) == Rewind(m) /\ mode' = m /\ NewPhase /\ UNCHANGED completed

Buttons == {"open", "start", "pause", "reset", "skip", "work", "short", "long"}
SavesInput(button) == Save

\* handleInput: every button changes the session and saves it; "open" only
\* clears a countdown that shows as fired, and else opens the panel.
Changes(button) == button # "open" \/ fired

Input(button) ==
  /\ up
  /\ Changes(button)
  /\ inputs < MaxInputs
  /\ inputs' = inputs + 1
  /\ CASE button = "start" -> StartTimer
       [] button = "pause" -> PauseTimer
       [] button \in {"open", "reset"} -> ResetTimer
       [] button = "skip" -> Roll(FALSE)
       [] OTHER -> SetMode(button)
  /\ Remember
  /\ SavesInput(button)
  /\ stateChanged' = TRUE
  /\ ended' = IF phase' = phase THEN ended ELSE ended \ {phase'}
  /\ UNCHANGED <<configVars, sub, up, restore, found, stored, settings, starts, losses, repeats>>

\* SetDurations: an idle countdown picks the new length up at once.
Configure ==
  /\ up
  /\ settings < MaxSettings
  /\ settings' = settings + 1
  /\ work' \in WorkLengths
  /\ auto' \in [{"work", "break"} -> BOOLEAN]
  /\ IF Idle THEN duration' = Length(mode, work') /\ left' = duration'
             ELSE UNCHANGED <<duration, left>>
  /\ UNCHANGED <<running, fired, sessionVars, sub, up, stateChanged, storeVars,
                 inputs, starts, historyVars>>

\* The restore goroutine has its reply: a stored value, or nothing.
RestoreReply ==
  /\ up
  /\ restore = "asking"
  /\ \/ stored # NoSnapshot /\ restore' = "found" /\ found' = stored
     \/ restore' = "done" /\ UNCHANGED found
  /\ UNCHANGED <<countdownVars, sessionVars, configVars, sub, up, stateChanged, unsaved, stored,
                 boundVars, historyVars>>

\* As MayRestore, but the user is not asked after.
RestoresAnyway == TRUE

\* RestoreSnapshot, unless the user was faster.
MayRestore == ~stateChanged

\* Restore: a deadline that has passed is left running at zero, for the next
\* tick to complete.
HasDeadline == found.left # NoDeadline

RestoreSnapshot ==
  /\ mode' = found.mode
  /\ completed' = IF found.completed > 0 THEN found.completed ELSE completed
  /\ IF HasDeadline
     THEN /\ duration' = IF found.duration < found.left THEN found.left ELSE found.duration
          /\ left' = found.left
          /\ running' = TRUE
          /\ fired' = FALSE
          /\ phase' = found.phase
     ELSE /\ duration' = Length(found.mode, work)
          /\ left' = IF running THEN left ELSE duration'
          /\ fired' = (running /\ fired)
          /\ UNCHANGED <<running, phase>>

OnRestore ==
  /\ up
  /\ restore = "found"
  /\ restore' = "done"
  /\ found' = NoSnapshot
  /\ IF MayRestore THEN RestoreSnapshot ELSE UNCHANGED <<countdownVars, sessionVars, phase>>
  /\ UNCHANGED <<configVars, sub, up, stateChanged, unsaved, stored, boundVars,
                 ended, expected, losses, repeats>>

-----------------------------------------------------------------------------
(* The host, the clock, and the end of the process.                        *)

HostStores ==
  /\ up
  /\ unsaved # NoSnapshot
  /\ stored' = unsaved
  /\ unsaved' = NoSnapshot
  /\ UNCHANGED <<countdownVars, sessionVars, configVars, sub, up, stateChanged, restore, found,
                 boundVars, historyVars>>

\* Time passes, for the countdown and for every deadline on record.
Aged(s) == IF s.left > 0 THEN [s EXCEPT !.left = @ - 1] ELSE s
TimePasses ==
  /\ completed < MaxTally
  /\ sub' = (sub + 1) % Second
  /\ left' = IF running THEN AtLeast0(left - 1) ELSE left
  /\ found' = Aged(found) /\ unsaved' = Aged(unsaved)
  /\ stored' = Aged(stored) /\ expected' = Aged(expected)
  /\ UNCHANGED <<duration, running, fired, sessionVars, configVars, up, stateChanged, restore,
                 boundVars, phase, ended, losses, repeats>>

\* The plugin ends.  A shutdown flushes first; a flush may fail, and a crash
\* does not flush.
Exit ==
  /\ up
  /\ up' = FALSE
  /\ unsaved' = NoSnapshot
  /\ \/ stored' = (IF unsaved = NoSnapshot THEN stored ELSE unsaved) /\ UNCHANGED losses
     \/ unsaved # NoSnapshot /\ UNCHANGED stored /\ losses' = losses + 1
  /\ running' = FALSE
  /\ UNCHANGED <<duration, left, fired, sessionVars, configVars, sub, stateChanged, restore, found,
                 boundVars, phase, ended, expected, repeats>>

PluginStarts ==
  /\ ~up
  /\ starts < MaxStarts
  /\ starts' = starts + 1
  /\ up' = TRUE
  /\ work' = DefaultWork
  /\ auto' = [b \in {"work", "break"} |-> FALSE]
  /\ duration' = work' /\ left' = work' /\ running' = FALSE /\ fired' = FALSE
  /\ mode' = "work" /\ completed' = 0
  /\ stateChanged' = FALSE
  /\ restore' = "asking" /\ found' = NoSnapshot
  /\ NewPhase
  /\ ended' = ended \ {phase'}
  /\ UNCHANGED <<sub, unsaved, stored, inputs, settings, expected, losses, repeats>>

TimerNext ==
  \/ Tick \/ \E b \in Buttons : Input(b) \/ Configure
  \/ RestoreReply \/ OnRestore \/ HostStores
  \/ TimePasses \/ Exit \/ PluginStarts

\* Time passes, and the select serves a ticker that ticks again and again.
TimerSpec ==
  TimerInit /\ [][TimerNext]_timerVars /\ WF_timerVars(TimePasses) /\ SF_timerVars(Tick)

-----------------------------------------------------------------------------
(* Properties.                                                             *)

\* Whatever the user did last, and whichever phase rolled last, is what the host
\* holds once the plugin is gone, if no write was lost.
SessionSurvives == ~up /\ losses = 0 => stored = expected

\* The next start resumes exactly there: the same phase, tally and deadline,
\* although the deadline may have passed while the plugin was down.  What the
\* user does before the reply comes is not undone by it.
ResumesWhereLeft ==
  OnRestore /\ losses = 0 =>
    SnapshotOf(running', left', duration', mode', completed', phase') = expected

\* A phase completes once, and its notification is sent once, across any number
\* of restarts: "a restart would complete the finished phase again".  Only a
\* lost write can bring it back.
CompletesOnce == repeats <= losses

\* A phase completes once, and every start goes on where the last one left off (timer.go,
\* main.go).
PhasesGoOn == [](SessionSurvives /\ CompletesOnce) /\ [][ResumesWhereLeft]_timerVars

\* A running phase ends.
Ended == ~up \/ ~running \/ mode # "work" \/ completed = MaxTally

=============================================================================
