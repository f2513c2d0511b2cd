---------------------------- MODULE ScreenRecorder ----------------------------
(***************************************************************************)
(* plugins/screen-recorder: the Recorder, whose loop goroutine owns one    *)
(* gpu-screen-recorder process, and the processes themselves.              *)
(*                                                                         *)
(* Callers put commands in cmds (capacity 1) and read mode, own and the    *)
(* updates channel; everything else belongs to the loop.  A handler is cut *)
(* into steps where another goroutine or a process can come in between:    *)
(* while it waits for readiness, for the stop, for the saved replay.       *)
(* A process is a number.  What identifies it to a later incarnation is    *)
(* its argument list, which holds a fresh path for a recording and only    *)
(* the directory for a replay buffer.                                      *)
(***************************************************************************)
EXTENDS Integers, Sequences

CONSTANTS MaxProcs,  \* bound: processes started, earlier incarnations included
          ScanFaults \* may reading /proc fail while adopting?

ASSUME RecorderAssumption == MaxProcs \in Nat /\ ScanFaults \in BOOLEAN

VARIABLES mode,      \* r.snap.Mode
          own,       \* r.own: argument list of the owned process, or NoOwner
          proc,      \* r.proc: the owned process, 0 for nil
          replayOn,  \* r.cfg.ReplayEnabled
          installed, \* r.path: was the backend found?
          at,        \* where the loop is
          next,      \* where it goes after the wait it is in
          cmd,       \* the command it handles
          cmds,      \* r.cmds
          quit,      \* r.quit is closed
          updates,   \* r.updates: capacity 1, the latest mode wins
          recovered, \* the channel Recover returned is closed
          alive,     \* processes that run
          replays,   \* processes started as replay buffers
          started,   \* number of processes started so far
          mine       \* processes this recorder started or adopted (history)

loopVars == <<mode, own, proc, replayOn, installed, at, next, cmd, cmds, quit,
              updates, recovered>>
procVars == <<alive, replays, started, mine>>
recorderVars == <<loopVars, procVars>>

Procs == 1 .. MaxProcs
NoOwner == 0
ReplayArgs == MaxProcs + 1
Owner == 0 .. MaxProcs + 1
Args(p) == IF p \in replays THEN ReplayArgs ELSE p

Live == {"recording", "replay-active", "adopted"}
Mode == Live \cup {"unavailable", "idle", "stopping", "failed"}
Toggle == [kind : {"record", "replay"}]
Command == Toggle \cup [kind : {"save", "retry"}]
             \cup [kind : {"reconfig"}, replay : BOOLEAN]
             \cup [kind : {"recover"}, own : Owner]
NoCommand == [kind |-> "none"]
Waits == {"verify", "idle", "failed", "gone"}

\* New, before the loop starts.  The processes of earlier incarnations are
\* there already.
NewLoop ==
  /\ installed \in BOOLEAN
  /\ mode = IF installed THEN "idle" ELSE "unavailable"
  /\ own = NoOwner
  /\ proc = 0
  /\ replayOn = FALSE
  /\ at = "select"
  /\ next = "select"
  /\ cmd = NoCommand
  /\ cmds = <<>>
  /\ quit = FALSE
  /\ updates = <<>>
  /\ recovered = FALSE
  /\ mine = {}

Earlier ==
  /\ started \in 0 .. MaxProcs
  /\ alive = 1 .. started
  /\ replays \in SUBSET alive

RecorderInit == NewLoop /\ Earlier

-----------------------------------------------------------------------------
(* Callers.                                                                *)

\* send: blocks while the channel is full, gives up once quit is closed.
HasRoom == Len(cmds) < 1

Send(c) ==
  /\ HasRoom
  /\ ~quit
  /\ cmds' = Append(cmds, c)
  /\ UNCHANGED <<mode, own, proc, replayOn, installed, at, next, cmd, quit, updates,
                 recovered, procVars>>

\* Close, up to the wait for done.
CloseQuit ==
  /\ ~quit
  /\ quit' = TRUE
  /\ UNCHANGED <<mode, own, proc, replayOn, installed, at, next, cmd, cmds, updates,
                 recovered, procVars>>

\* A process ends by itself.
ChildExits(p) ==
  /\ p \in alive
  /\ alive' = alive \ {p}
  /\ UNCHANGED <<loopVars, replays, started, mine>>

-----------------------------------------------------------------------------
(* The loop.                                                               *)

\* set: the new mode is visible and the updates channel holds it alone.
SetMode(m) == mode' = m /\ updates' = <<m>>
KeepMode == UNCHANGED <<mode, updates>>

Receive ==
  /\ at = "select"
  /\ cmds # <<>>
  /\ cmd' = Head(cmds)
  /\ cmds' = Tail(cmds)
  /\ at' = IF Head(cmds) \in Toggle THEN "drain" ELSE "handle"
  /\ UNCHANGED <<own, proc, replayOn, installed, next, quit, recovered, procVars>>
  /\ KeepMode

\* drain discards whatever is queued behind a toggle.
DrainOne ==
  /\ at = "drain"
  /\ cmds # <<>>
  /\ cmds' = Tail(cmds)
  /\ UNCHANGED <<own, proc, replayOn, installed, at, next, cmd, quit, recovered, procVars>>
  /\ KeepMode

DrainEnd ==
  /\ at = "drain"
  /\ cmds = <<>>
  /\ at' = "handle"
  /\ UNCHANGED <<own, proc, replayOn, installed, next, cmd, cmds, quit, recovered, procVars>>
  /\ KeepMode

\* What each toggle stops and may start.
Stops(kind) == IF kind = "record" THEN {"recording", "adopted"} ELSE {"replay-active"}
MayStart(kind) == mode \in {"idle", "failed"} /\ (kind = "replay" => replayOn)

ToggleStops ==
  /\ at = "handle"
  /\ cmd' = NoCommand
  /\ cmd \in Toggle
  /\ mode \in Stops(cmd.kind)
  /\ SetMode("stopping")
  /\ at' = "halting"
  /\ next' = IF cmd.kind = "record" THEN "verify" ELSE "idle"
  /\ UNCHANGED <<own, proc, replayOn, installed, cmds, quit, recovered, procVars>>

ToggleStarts ==
  /\ at = "handle"
  /\ cmd' = NoCommand
  /\ cmd \in Toggle
  /\ MayStart(cmd.kind)
  /\ installed
  /\ started < MaxProcs
  /\ started' = started + 1
  /\ proc' = started'
  /\ alive' = alive \cup {started'}
  /\ mine' = mine \cup {started'}
  /\ replays' = IF cmd.kind = "replay" THEN replays \cup {started'} ELSE replays
  /\ at' = "starting"
  /\ next' = IF cmd.kind = "replay" THEN "replay-active" ELSE "recording"
  /\ UNCHANGED <<own, replayOn, installed, cmds, quit, recovered>>
  /\ KeepMode

\* The directory, the arguments or the exec fails.
ToggleFails ==
  /\ at = "handle"
  /\ cmd' = NoCommand
  /\ cmd \in Toggle
  /\ MayStart(cmd.kind)
  /\ at' = "failed"
  /\ UNCHANGED <<own, proc, replayOn, installed, next, cmds, quit, recovered, procVars>>
  /\ KeepMode

ToggleIgnored ==
  /\ at = "handle"
  /\ cmd' = NoCommand
  /\ cmd \in Toggle
  /\ mode \notin Stops(cmd.kind)
  /\ ~MayStart(cmd.kind)
  /\ at' = "select"
  /\ UNCHANGED <<own, proc, replayOn, installed, next, cmds, quit, recovered, procVars>>
  /\ KeepMode

\* waitReady returns true on the "ready" line or after 100 ms alive; then remember.
BecomesReady ==
  /\ at = "starting"
  /\ own' = Args(proc)
  /\ at' = "ready"
  /\ UNCHANGED <<proc, replayOn, installed, next, cmd, cmds, quit, recovered, procVars>>
  /\ KeepMode

\* waitReady returns false once the process is seen dead: fail.
NeverReady ==
  /\ at = "starting"
  /\ proc \notin alive
  /\ at' = "halting"
  /\ next' = "failed"
  /\ UNCHANGED <<own, proc, replayOn, installed, cmd, cmds, quit, recovered, procVars>>
  /\ KeepMode

Announce ==
  /\ at = "ready"
  /\ SetMode(next)
  /\ at' = "select"
  /\ next' = "select"
  /\ UNCHANGED <<own, proc, replayOn, installed, cmd, cmds, quit, recovered, procVars>>

\* As Stopped, but the process goes on.
SignalLost == alive

\* halt: SIGINT, then SIGKILL after StopWait; the process is gone afterwards.
Stopped == alive \ {proc}

Halt ==
  /\ at = "halting"
  /\ alive' = Stopped
  /\ proc' = 0
  /\ own' = IF proc = 0 THEN own ELSE NoOwner
  /\ at' = next
  /\ next' = "select"
  /\ UNCHANGED <<replayOn, installed, cmd, cmds, quit, recovered, replays, started, mine>>
  /\ KeepMode

\* The end of stopRecord: the file is there and not empty.
AfterStop == "idle"

Verified ==
  /\ at = "verify"
  /\ SetMode(AfterStop)
  /\ at' = "select"
  /\ UNCHANGED <<own, proc, replayOn, installed, next, cmd, cmds, quit, recovered, procVars>>

Unverified ==
  /\ at = "verify"
  /\ at' = "failed"
  /\ UNCHANGED <<own, proc, replayOn, installed, next, cmd, cmds, quit, recovered, procVars>>
  /\ KeepMode

\* The end of stopReplay, and the end of fail.
Settle(m) ==
  /\ at = m
  /\ SetMode(m)
  /\ at' = "select"
  /\ UNCHANGED <<own, proc, replayOn, installed, next, cmd, cmds, quit, recovered, procVars>>

SaveReplay ==
  /\ at = "handle"
  /\ cmd' = NoCommand
  /\ cmd.kind = "save"
  /\ at' = IF mode = "replay-active" /\ proc # 0 THEN "saving" ELSE "select"
  /\ UNCHANGED <<own, proc, replayOn, installed, next, cmds, quit, recovered, procVars>>
  /\ KeepMode

\* The replay file was claimed: only the artifact changes.
ReplaySaved ==
  /\ at = "saving"
  /\ at' = "select"
  /\ UNCHANGED <<own, proc, replayOn, installed, next, cmd, cmds, quit, recovered, procVars>>
  /\ KeepMode

\* No file within the deadline: fail, which stops the buffer too.
ReplayNotSaved ==
  /\ at = "saving"
  /\ at' = "halting"
  /\ next' = "failed"
  /\ UNCHANGED <<own, proc, replayOn, installed, cmd, cmds, quit, recovered, procVars>>
  /\ KeepMode

\* A failure with no process to stop: the end of fail at once.
FailNow == SetMode("failed") /\ UNCHANGED <<proc, own, mine>>

\* recover adopts the one process with the persisted arguments.
Matches(o) == {p \in alive : Args(p) = o}

Recover ==
  /\ at = "handle"
  /\ cmd' = NoCommand
  /\ cmd.kind = "recover"
  /\ IF mode \notin {"idle", "unavailable"} THEN KeepMode /\ UNCHANGED <<proc, own, mine>>
     ELSE \/ /\ Matches(cmd.own) = {}
             /\ KeepMode /\ UNCHANGED <<proc, own, mine>>
          \/ \E p \in Matches(cmd.own) :
               /\ Matches(cmd.own) = {p}
               /\ proc' = p
               /\ own' = cmd.own
               /\ mine' = mine \cup {p}
               /\ SetMode("adopted")
          \/ /\ ScanFaults \/ \E p, q \in Matches(cmd.own) : p # q
             /\ FailNow
  /\ at' = "select"
  /\ recovered' = TRUE
  /\ UNCHANGED <<replayOn, installed, next, cmds, quit, alive, replays, started>>

Retry ==
  /\ at = "handle"
  /\ cmd' = NoCommand
  /\ cmd.kind = "retry"
  /\ IF mode = "failed" THEN SetMode("idle") ELSE KeepMode
  /\ at' = "select"
  /\ UNCHANGED <<own, proc, replayOn, installed, next, cmds, quit, recovered, procVars>>

Reconfig ==
  /\ at = "handle"
  /\ cmd' = NoCommand
  /\ cmd.kind = "reconfig"
  /\ replayOn' = cmd.replay
  /\ IF mode = "replay-active" /\ ~cmd.replay
     THEN SetMode("stopping") /\ at' = "halting" /\ next' = "idle"
     ELSE /\ IF mode = "failed" THEN SetMode("idle") ELSE KeepMode
          /\ at' = "select"
          /\ UNCHANGED next
  /\ UNCHANGED <<own, proc, installed, cmds, quit, recovered, procVars>>

\* The owned process ended while the loop was waiting: forget it and fail.
OwnerAfterExit == NoOwner

OnExit ==
  /\ at = "select"
  /\ proc # 0
  /\ proc \notin alive
  /\ proc' = 0
  /\ own' = OwnerAfterExit
  /\ at' = IF mode = "stopping" THEN "select" ELSE "failed"
  /\ UNCHANGED <<replayOn, installed, next, cmd, cmds, quit, recovered, procVars>>
  /\ KeepMode

\* The select sees quit, stops the process and returns.
SeesQuit == quit
AfterQuit == "halting"

Quit ==
  /\ at = "select"
  /\ SeesQuit
  /\ at' = AfterQuit
  /\ next' = "gone"
  /\ UNCHANGED <<own, proc, replayOn, installed, cmd, cmds, quit, recovered, procVars>>
  /\ KeepMode

Loop ==
  \/ Receive \/ DrainOne \/ DrainEnd
  \/ ToggleStops \/ ToggleStarts \/ ToggleFails \/ ToggleIgnored
  \/ BecomesReady \/ NeverReady \/ Announce
  \/ Halt \/ Verified \/ Unverified \/ Settle("idle") \/ Settle("failed")
  \/ SaveReplay \/ ReplaySaved \/ ReplayNotSaved
  \/ Recover \/ Retry \/ Reconfig
  \/ OnExit \/ Quit

-----------------------------------------------------------------------------
(* The recorder under any caller.                                          *)

Next ==
  \/ \E c \in Command : Send(c)
  \/ CloseQuit
  \/ \E p \in Procs : ChildExits(p)
  \/ Loop

\* The loop goroutine is scheduled, and each of its waits has a deadline.
Spec == RecorderInit /\ [][Next]_recorderVars /\ WF_recorderVars(Loop)

-----------------------------------------------------------------------------
(* Properties.                                                             *)

TypeOK ==
  /\ mode \in Mode
  /\ own \in Owner
  /\ proc \in 0 .. MaxProcs
  /\ replayOn \in BOOLEAN
  /\ installed \in BOOLEAN
  /\ at \in Waits \cup {"select", "drain", "handle", "starting", "ready", "halting", "saving"}
  /\ next \in Waits \cup {"select", "recording", "replay-active"}
  /\ cmd \in Command \cup {NoCommand}
  /\ cmds \in Seq(Command)
  /\ Len(cmds) <= 1
  /\ quit \in BOOLEAN
  /\ updates \in {<<>>} \cup {<<m>> : m \in Mode}
  /\ recovered \in BOOLEAN
  /\ alive \subseteq Procs
  /\ replays \subseteq Procs
  /\ started \in 0 .. MaxProcs
  /\ mine \subseteq Procs

\* A process this recorder started or adopted never runs unowned: whatever
\* sequence of toggles, failures, exits and saves, it is the one in r.proc
\* until it is dead, and Close leaves none.  Two captures at once would break it.
NoOrphan == alive \cap mine \subseteq {proc} /\ (at = "gone" => alive \cap mine = {})
=============================================================================
