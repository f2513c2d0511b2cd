---------------------------- MODULE RecorderPlugin ----------------------------
(***************************************************************************)
(* cmd/sysc-plugin-screen-recorder: the event loop that owns a Recorder,   *)
(* with the host's persisted ownership and the user.                       *)
(*                                                                         *)
(* The goroutines are the main loop, the recorder's loop, the restore call *)
(* and at most one output-context call.  The plugin may crash, which       *)
(* leaves its recording running, and the host starts it again.  The saver  *)
(* is the register that module StateSaver implements: only the latest      *)
(* unsaved value counts, and it reaches the host at some later time.       *)
(***************************************************************************)
EXTENDS ScreenRecorder

CONSTANTS MaxClicks,   \* bound: input events, all incarnations together
          MaxSettings, \* bound: settings.changed messages
          MaxEvents,   \* bound: both together
          MaxCrashes,  \* bound: kills of the plugin
          MaxRestarts  \* bound: starts after the first one

ASSUME PluginAssumption == {MaxClicks, MaxSettings, MaxEvents, MaxCrashes, MaxRestarts} \subseteq Nat

VARIABLES main,            \* where the main goroutine is
          outgoing,        \* the command it is sending to the recorder
          after,           \* where it goes after the send
          cfgReplay,       \* cfg.ReplayEnabled
          last,            \* last.Mode: the mode on the user's screen
          lastSaved,       \* lastSavedOwnership
          stateTouched,
          recoveryPending,
          restore,         \* what the restore goroutine has done
          found,           \* the ownership it found
          outputPending,
          lookup,          \* the input whose output is being asked for
          pending,         \* inputs that wait for it
          unsaved,         \* the saver's pending ownership, or NothingUnsaved
          stored,          \* the host's ownership value
          clicks, settings, crashes, restarts, \* counters of the bounds
          served           \* number of the last input processed (history)

mainVars == <<main, outgoing, after, cfgReplay, last, lastSaved, stateTouched,
              recoveryPending, outputPending, lookup, pending, served>>
hostVars == <<restore, found, unsaved, stored>>
boundVars == <<clicks, settings, crashes, restarts>>
pluginVars == <<mainVars, hostVars, boundVars>>
allVars == <<recorderVars, pluginVars>>

NothingUnsaved == 0 - 1
Act == {"record", "replay", "save", "none"}
Input == [act : Act, number : 1 .. MaxClicks]
NoInput == [act |-> "none", number |-> 0]
Up == main # "exited"

NewMain ==
  /\ main = "select"
  /\ outgoing = NoCommand
  /\ after = "select"
  /\ cfgReplay = FALSE
  /\ last = mode
  /\ lastSaved = NoOwner
  /\ stateTouched = FALSE
  /\ recoveryPending = FALSE
  /\ outputPending = FALSE
  /\ lookup = NoInput
  /\ pending = <<>>
  /\ served = clicks
  /\ restore = "asking"
  /\ found = NoOwner
  /\ unsaved = NothingUnsaved

PluginInit ==
  /\ NewLoop
  /\ started = 0 /\ alive = {} /\ replays = {}
  /\ clicks = 0 /\ settings = 0 /\ crashes = 0 /\ restarts = 0
  /\ stored = NoOwner
  /\ NewMain

-----------------------------------------------------------------------------
(* Sending to the recorder.                                                *)

\* rec.ToggleRecord and its siblings: the main goroutine blocks in send.
Call(c, then) ==
  /\ main' = "send"
  /\ outgoing' = c
  /\ after' = then

SendDone ==
  /\ main = "send"
  /\ Send(outgoing)
  /\ main' = after
  /\ outgoing' = NoCommand
  /\ after' = "select"
  /\ UNCHANGED <<cfgReplay, last, lastSaved, stateTouched, recoveryPending, outputPending,
                 lookup, pending, served, hostVars, boundVars>>

\* processInput.
Process(in, then) ==
  /\ served' = in.number
  /\ IF in.act = "none" THEN main' = then /\ UNCHANGED <<outgoing, after>>
                        ELSE Call([kind |-> in.act], then)

-----------------------------------------------------------------------------
(* Publishing.                                                             *)

\* publish first reads the snapshot ...
Publish ==
  /\ last' = mode
  /\ main' = "publish"
  /\ UNCHANGED <<outgoing, after, cfgReplay, lastSaved, stateTouched, recoveryPending,
                 outputPending, lookup, pending, served, hostVars, boundVars>>

\* ... and after the views are written it reads the ownership.
OwnershipChanged == own # lastSaved
SaveChangedOwnership ==
  IF OwnershipChanged THEN lastSaved' = own /\ unsaved' = own
                      ELSE UNCHANGED <<lastSaved, unsaved>>

\* ... unless a recovery is under way.
MaySave == ~recoveryPending

PublishEnds ==
  /\ main = "publish"
  /\ IF MaySave THEN SaveChangedOwnership ELSE UNCHANGED <<lastSaved, unsaved>>
  /\ main' = "select"
  /\ UNCHANGED <<outgoing, after, cfgReplay, last, stateTouched, recoveryPending,
                 outputPending, lookup, pending, served, restore, found, stored, boundVars>>
  /\ UNCHANGED recorderVars

\* A view opens or resyncs, or the second ticks while something is on.
Refresh ==
  /\ main = "select"
  /\ Publish
  /\ UNCHANGED recorderVars

\* An update arrives.  One that equals the last snapshot is skipped; a live
\* snapshot never does, because it carries the elapsed time.
OnUpdate ==
  /\ main = "select"
  /\ updates # <<>>
  /\ updates' = <<>>
  /\ \/ Publish
     \/ /\ Head(updates) = last
        /\ last \notin Live
        /\ UNCHANGED pluginVars
  /\ UNCHANGED <<mode, own, proc, replayOn, installed, at, next, cmd, cmds, quit,
                 recovered, procVars>>

-----------------------------------------------------------------------------
(* Inputs.                                                                 *)

\* HandleInput: what a node means in the mode that was published last.
Meaning(node) ==
  CASE node = "record" /\ last \in {"idle", "failed"} -> "record"
    [] node = "stop" /\ last \in {"recording", "adopted", "stopping"} -> "record"
    [] node = "stop" /\ last = "replay-active" -> "replay"
    [] node = "replay" /\ last \in {"idle", "failed", "replay-active"} -> "replay"
    [] node = "save" /\ last = "replay-active" -> "save"
    [] OTHER -> "none"

\* The panel offers the replay controls only with the setting.
Offered(node) == node \in {"replay", "save"} => cfgReplay

\* startInput: with the output known the input is processed at once, otherwise
\* its output is asked for and later inputs wait.
StartInput(in, known, then) ==
  IF known THEN Process(in, then) /\ UNCHANGED <<outputPending, lookup>>
  ELSE /\ outputPending' = TRUE
       /\ lookup' = in
       /\ main' = then
       /\ UNCHANGED <<outgoing, after, served>>

\* As MustWait, but an input whose output is known does not wait.
KnownOvertakes(known) == outputPending /\ ~known

\* An input waits while the output of an earlier one is being looked up.
MustWait(known) == outputPending

Click(node, known) ==
  /\ main = "select"
  /\ clicks < MaxClicks /\ clicks + settings < MaxEvents
  /\ Offered(node)
  /\ clicks' = clicks + 1
  /\ LET in == [act |-> Meaning(node), number |-> clicks']
     IN  /\ stateTouched' = (stateTouched \/ in.act # "none")
         /\ IF MustWait(known)
            THEN /\ pending' = Append(pending, in)
                 /\ UNCHANGED <<main, outgoing, after, outputPending, lookup, served>>
            ELSE /\ StartInput(in, known, "resume")
                 /\ UNCHANGED pending
  /\ UNCHANGED <<cfgReplay, last, lastSaved, recoveryPending, hostVars,
                 settings, crashes, restarts>>
  /\ UNCHANGED recorderVars

\* As AfterLookup, but the inputs that waited are not looked at.
ForgetWaiting == "select"

\* The output-context call is answered, fails or times out; its input is
\* processed, and then the ones that waited for it.
AfterLookup == "resume"
OnOutputContext ==
  /\ main = "select"
  /\ outputPending
  /\ outputPending' = FALSE
  /\ lookup' = NoInput
  /\ Process(lookup, AfterLookup)
  /\ UNCHANGED <<cfgReplay, last, lastSaved, stateTouched, recoveryPending, pending,
                 hostVars, boundVars>>
  /\ UNCHANGED recorderVars

\* resumeInputs.
Resume(known) ==
  /\ main = "resume"
  /\ IF pending = <<>> \/ outputPending
     THEN main' = "select" /\ UNCHANGED <<outgoing, after, outputPending, lookup, pending, served>>
     ELSE pending' = Tail(pending) /\ StartInput(Head(pending), known, "resume")
  /\ UNCHANGED <<cfgReplay, last, lastSaved, stateTouched, recoveryPending, hostVars, boundVars>>
  /\ UNCHANGED recorderVars

\* settings.changed: the new configuration, Reconfigure, publish.
OnSettings ==
  /\ main = "select"
  /\ settings < MaxSettings /\ clicks + settings < MaxEvents
  /\ settings' = settings + 1
  /\ \E replay \in BOOLEAN :
       /\ cfgReplay' = replay
       /\ Call([kind |-> "reconfig", replay |-> replay], "republish")
  /\ UNCHANGED <<last, lastSaved, stateTouched, recoveryPending, outputPending, lookup,
                 pending, served, hostVars, clicks, crashes, restarts>>
  /\ UNCHANGED recorderVars

Republish ==
  /\ main = "republish"
  /\ Publish
  /\ UNCHANGED recorderVars

-----------------------------------------------------------------------------
(* Recovery of the process an earlier incarnation left behind.             *)

\* The restore goroutine gets its reply: a stored ownership, or an error.
RestoreReply ==
  /\ Up
  /\ restore = "asking"
  /\ \/ stored # NoOwner /\ restore' = "found" /\ found' = stored
     \/ restore' = "done" /\ UNCHANGED found
  /\ UNCHANGED <<mainVars, unsaved, stored, boundVars>>
  /\ UNCHANGED recorderVars

\* Only a plugin that is still as it started may adopt.
MayAdopt == ~stateTouched /\ mode \in {"idle", "unavailable"}

OnRestore ==
  /\ main = "select"
  /\ restore = "found"
  /\ restore' = "done"
  /\ IF MayAdopt
     THEN /\ lastSaved' = found
          /\ recoveryPending' = TRUE
          /\ Call([kind |-> "recover", own |-> found], "select")
     ELSE UNCHANGED <<main, outgoing, after, lastSaved, recoveryPending>>
  /\ UNCHANGED <<cfgReplay, last, stateTouched, outputPending, lookup, pending, served,
                 found, unsaved, stored, boundVars>>
  /\ UNCHANGED recorderVars

\* recoveryResults: the recorder has handled the Recover.
OnRecovered ==
  /\ main = "select"
  /\ recoveryPending
  /\ recovered
  /\ recoveryPending' = FALSE
  /\ SaveChangedOwnership
  /\ UNCHANGED <<main, outgoing, after, cfgReplay, last, stateTouched, outputPending,
                 lookup, pending, served, restore, found, stored, boundVars>>
  /\ UNCHANGED recorderVars

\* The saver's write arrives.
HostStores ==
  /\ unsaved # NothingUnsaved
  /\ Up
  /\ stored' = unsaved
  /\ unsaved' = NothingUnsaved
  /\ UNCHANGED <<mainVars, restore, found, boundVars>>
  /\ UNCHANGED recorderVars

-----------------------------------------------------------------------------
(* The end of the process and the next one.                                *)

\* host.shutdown, or the connection is gone.
Shutdown ==
  /\ main = "select"
  /\ main' = "flush"
  /\ UNCHANGED <<outgoing, after, cfgReplay, last, lastSaved, stateTouched, recoveryPending,
                 outputPending, lookup, pending, served, hostVars, boundVars>>
  /\ UNCHANGED recorderVars

\* The deferred Flush runs before the deferred Close.  Its write may fail.
Flush ==
  /\ main = "flush"
  /\ main' = "close"
  /\ unsaved' = NothingUnsaved
  /\ \/ UNCHANGED stored
     \/ unsaved # NothingUnsaved /\ stored' = unsaved
  /\ UNCHANGED <<outgoing, after, cfgReplay, last, lastSaved, stateTouched, recoveryPending,
                 outputPending, lookup, pending, served, restore, found, boundVars>>
  /\ UNCHANGED recorderVars

CloseRecorder ==
  /\ main = "close"
  /\ CloseQuit
  /\ main' = "closing"
  /\ UNCHANGED <<outgoing, after, cfgReplay, last, lastSaved, stateTouched, recoveryPending,
                 outputPending, lookup, pending, served, hostVars, boundVars>>

\* Close returned: it waits for the loop to be done.
LoopDone == at = "gone"

Exit ==
  /\ main = "closing"
  /\ LoopDone
  /\ main' = "exited"
  /\ UNCHANGED <<outgoing, after, cfgReplay, last, lastSaved, stateTouched, recoveryPending,
                 outputPending, lookup, pending, served, hostVars, boundVars>>
  /\ UNCHANGED recorderVars

\* The plugin is killed: nothing is stopped, nothing more is saved.
Crash ==
  /\ Up
  /\ crashes < MaxCrashes
  /\ crashes' = crashes + 1
  /\ main' = "exited"
  /\ at' = "gone"
  /\ mine' = {}
  /\ UNCHANGED <<mode, own, proc, replayOn, installed, next, cmd, cmds, quit, updates,
                 recovered, alive, replays, started>>
  /\ UNCHANGED <<outgoing, after, cfgReplay, last, lastSaved, stateTouched, recoveryPending,
                 outputPending, lookup, pending, served, hostVars,
                 clicks, settings, restarts>>

Restart ==
  /\ main = "exited"
  /\ restarts < MaxRestarts
  /\ restarts' = restarts + 1
  /\ UNCHANGED <<alive, replays, started, stored, clicks, settings, crashes>>
  /\ installed' \in BOOLEAN
  /\ mode' = IF installed' THEN "idle" ELSE "unavailable"
  /\ last' = mode'
  /\ at' = "select" /\ next' = "select" /\ main' = "select" /\ after' = "select"
  /\ proc' = 0 /\ own' = NoOwner /\ lastSaved' = NoOwner /\ found' = NoOwner
  /\ cmd' = NoCommand /\ outgoing' = NoCommand
  /\ cmds' = <<>> /\ updates' = <<>> /\ pending' = <<>>
  /\ replayOn' = FALSE /\ cfgReplay' = FALSE
  /\ quit' = FALSE /\ recovered' = FALSE /\ stateTouched' = FALSE
  /\ recoveryPending' = FALSE /\ outputPending' = FALSE
  /\ lookup' = NoInput
  /\ restore' = "asking"
  /\ unsaved' = NothingUnsaved
  /\ served' = clicks
  /\ mine' = {}

-----------------------------------------------------------------------------
Nodes == {"record", "stop", "replay", "save"}

RecorderSteps == (Loop \/ \E p \in Procs : ChildExits(p)) /\ UNCHANGED pluginVars

MainSteps == \/ SendDone \/ PublishEnds \/ Republish
             \/ \E known \in BOOLEAN : Resume(known)
             \/ Flush \/ CloseRecorder \/ Exit

PluginNext ==
  \/ RecorderSteps
  \/ MainSteps
  \/ OnUpdate \/ OnOutputContext \/ OnRestore \/ OnRecovered
  \/ Refresh \/ OnSettings \/ Shutdown
  \/ \E node \in Nodes, known \in BOOLEAN : Click(node, known)
  \/ RestoreReply \/ HostStores
  \/ Crash \/ Restart

\* Goroutines are scheduled; a Go select picks among its ready cases at
\* random, so a case that is ready again and again is taken; host calls are
\* bounded.  No user input, settings, shutdown, crash or restart is assumed.
PluginSpec ==
  /\ PluginInit
  /\ [][PluginNext]_allVars
  /\ WF_allVars(Loop /\ UNCHANGED pluginVars)
  /\ WF_allVars(MainSteps)
  /\ SF_allVars(OnUpdate)
  /\ SF_allVars(OnOutputContext)
  /\ SF_allVars(OnRestore)
  /\ SF_allVars(OnRecovered)
  /\ WF_allVars(RestoreReply)

-----------------------------------------------------------------------------
(* Properties.                                                             *)

PluginTypeOK ==
  /\ TypeOK
  /\ main \in {"select", "send", "resume", "publish", "republish",
               "flush", "close", "closing", "exited"}
  /\ outgoing \in Command \cup {NoCommand}
  /\ lookup \in Input \cup {NoInput}
  /\ pending \in Seq(Input)
  /\ pending # <<>> => outputPending \/ main \in {"send", "resume", "exited"}
  /\ {lastSaved, stored, found} \subseteq Owner
  /\ unsaved \in Owner \cup {NothingUnsaved}
  /\ served \in 0 .. clicks

Quiet == main = "select" /\ at = "select" /\ updates = <<>> /\ cmds = <<>>

\* Once the plugin has caught up, what the host holds or is about to hold
\* names the process that runs: a crash from here on can be recovered.
CrashIsRecoverable ==
  Quiet /\ ~recoveryPending /\ proc # 0 =>
    own = IF unsaved = NothingUnsaved THEN stored ELSE unsaved

\* The user sees the mode the recorder is in, although updates are dropped
\* when they come faster than they are published.
ViewSettles == Quiet => last = mode

\* With a readable /proc the ownership of a running process is erased only
\* after this plugin stopped it: not while the adoption is still under way, and
\* not by a publish in between.  Two replay buffers with the same arguments
\* cannot be told apart: a second one makes the first be given up.
TwoBuffers == \E p, q \in replays : p # q
EraseOnlyDead ==
  [][(Up /\ Up' /\ lastSaved # NoOwner /\ lastSaved' = NoOwner) =>
       \/ Matches(lastSaved) \subseteq {proc}
       \/ lastSaved = ReplayArgs /\ TwoBuffers]_allVars

\* Inputs take effect in the order they arrived, although the output of each
\* is looked up by a goroutine of its own.
InOrder == [][Up /\ Up' => served' \in {served, served + 1}]_allVars

\* No input is left waiting while the event loop runs.
Serving == main \in {"select", "send", "resume", "publish", "republish"}
InputsServed == []<>(served = clicks \/ ~Serving)

\* Recovery always ends, so that ownership is saved again.
RecoveryEnds == []<>(~recoveryPending \/ ~Serving)

\* A stop always comes to an end, whatever interrupts it.
StopEnds == []<>(mode # "stopping" \/ ~Up)

\* Flush and Close end.
ShutdownEnds == []<>(main \notin {"flush", "close", "closing"})

\* The process that records is owned while the plugin lives and can be found again when
\* it dies, and the views show what it does (recorder.go, main.go).
OwnerIsSafe == PluginTypeOK /\ NoOrphan /\ CrashIsRecoverable /\ ViewSettles

\* Neither the ownership of a living process nor the order of the inputs is lost to a
\* reply that comes late (main.go).
OrderIsKept == EraseOnlyDead /\ InOrder

\* Whatever the user asks for comes to an end (recorder.go, main.go).
PluginServes == StopEnds /\ InputsServed /\ RecoveryEnds /\ ShutdownEnds

\* Stop, clicked on a recording that is shown as such, ends it: "What must never
\* happen is staying in Recording with the child still capturing, which is
\* what a dropped command looks like" (recorder_test.go:57).
StopNotSwallowed ==
  (/\ cmds = <<[kind |-> "record"]>>
   /\ mode = "recording" /\ last = "recording" /\ at # "gone")
    ~> (mode # "recording" \/ at = "gone")
=============================================================================
