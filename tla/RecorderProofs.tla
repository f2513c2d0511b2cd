---------------------------- MODULE RecorderProofs ----------------------------
(***************************************************************************)
(* Screen recorder, for any number of processes, clicks, settings changes, *)
(* crashes and restarts: no capture runs unowned, a crash can be recovered *)
(* from, and an ownership is erased only when nothing answers to it.       *)
(***************************************************************************)
EXTENDS RecorderPlugin, SequenceTheorems, TLAPS

(***************************************************************************)
(* The recorder's loop.                                                    *)
(***************************************************************************)
Resting == {"select", "drain", "handle", "saving"}

\* Outside of a wait the mode says whether there is a process.
LoopFits ==
  /\ at \in Resting => mode # "stopping" /\ (proc # 0 => mode \in Live)
  /\ at \in {"verify", "idle", "failed"} => proc = 0
  /\ at \in {"starting", "ready"} => proc # 0 /\ next \in {"recording", "replay-active"}
  /\ at = "halting" => next \in Waits
  /\ at = "drain" => cmd \in Toggle

\* The ownership is that of the process, and there is one once it is ready.
OwnerFits ==
  /\ own # NoOwner => proc # 0 /\ own = Args(proc)
  /\ proc # 0 /\ at \in Resting \cup {"ready"} => own = Args(proc)

\* A number is never given to two processes.
ProcsFit == proc \in 0 .. started /\ alive \subseteq 1 .. started /\ replays \subseteq 1 .. started

UpdatesFit == updates \in {<<>>, <<mode>>}

RecorderInv == TypeOK /\ LoopFits /\ OwnerFits /\ ProcsFit /\ UpdatesFit /\ NoOrphan

(***************************************************************************)
(* The plugin around it.                                                   *)
(***************************************************************************)
MainFits ==
  /\ main \in {"select", "send", "resume", "publish", "republish",
               "flush", "close", "closing", "exited"}
  /\ main = "send" => outgoing \in Command /\ after \in {"select", "resume", "republish"}
  /\ outgoing \in Command \cup {NoCommand}
  /\ Up /\ main # "send" => outgoing = NoCommand
  /\ ~Up => at = "gone"

\* Every input has a number; the ones that wait are in order behind the one
\* that was processed last.
Asked == IF outputPending THEN 1 ELSE 0
InputsFit ==
  /\ clicks \in 0 .. MaxClicks
  /\ served \in 0 .. clicks
  /\ pending \in Seq(Input)
  /\ outputPending \in BOOLEAN
  /\ lookup \in Input \cup {NoInput}
  /\ Up =>
       /\ outputPending => lookup \in Input /\ lookup.number = served + 1
       /\ served + Asked + Len(pending) = clicks
       /\ \A i \in 1 .. Len(pending) : pending[i].number = served + Asked + i
       /\ pending # <<>> => outputPending \/ main = "resume" \/ (main = "send" /\ after = "resume")

\* The screen lags behind the recorder only while an update waits.
ViewFits == updates = <<>> => last = mode

Known == {NoOwner, ReplayArgs} \cup 1 .. started
KnownFits ==
  {own, lastSaved, stored, found} \subseteq Known /\ unsaved \in Known \cup {NothingUnsaved}

\* What was saved last is what the host holds or will be sent, until the last
\* write, which may fail.
Saving == IF unsaved = NothingUnsaved THEN stored ELSE unsaved
SavedFits ==
  main \notin {"close", "closing", "exited"} => lastSaved \in {NoOwner, Saving}

\* A new ownership is saved by the publish that follows it.
PublishDue ==
  proc # 0 /\ at \in Resting /\ ~recoveryPending /\ own # lastSaved =>
    updates # <<>> \/ main = "publish"

\* Until it is asked to recover, the recorder is as it started, and it is asked
\* for nothing before that.
Plain(c) == c.kind \in {"reconfig", "none"}
NotRecover(c) == c.kind # "recover"
TheRecover == [kind |-> "recover", own |-> lastSaved]
Recovering == recoveryPending /\ ~recovered
Fresh ==
  /\ mode \in {"idle", "unavailable"} /\ proc = 0 /\ own = NoOwner
  /\ at \in {"select", "handle", "halting", "gone"}
  /\ at = "halting" => next = "gone"
AllPlain == \A i \in 1 .. Len(cmds) : Plain(cmds[i])
NoneRecovers == \A i \in 1 .. Len(cmds) : NotRecover(cmds[i])

RestoreFits ==
  Up /\ restore \in {"asking", "found"} =>
    /\ ~recovered /\ ~recoveryPending
    /\ restore = "found" => found # NoOwner
    /\ ~stateTouched =>
         /\ Fresh /\ Plain(cmd) /\ Plain(outgoing) /\ AllPlain
         /\ lastSaved = NoOwner /\ unsaved = NothingUnsaved
         /\ restore = "found" => found = stored

RecoverFits ==
  Up =>
    IF Recovering
    THEN /\ Fresh /\ lastSaved # NoOwner /\ restore = "done"
         /\ \/ main = "send" /\ outgoing = TheRecover /\ AllPlain /\ Plain(cmd)
            \/ NotRecover(outgoing) /\ cmds = <<TheRecover>> /\ Plain(cmd)
            \/ NotRecover(outgoing) /\ NoneRecovers /\ cmd = TheRecover /\ at = "handle"
    ELSE NotRecover(outgoing) /\ NoneRecovers /\ NotRecover(cmd)

\* An input that asks for something was noted when it came.
TouchedFits ==
  Up /\ ~stateTouched => /\ lookup.act = "none"
                        /\ \A i \in 1 .. Len(pending) : pending[i].act = "none"

HostTypes == /\ {recoveryPending, stateTouched} \subseteq BOOLEAN
             /\ restore \in {"asking", "found", "done"}

PluginInv ==
  /\ RecorderInv
  /\ MainFits
  /\ InputsFit
  /\ ViewFits
  /\ KnownFits
  /\ SavedFits
  /\ PublishDue
  /\ RestoreFits
  /\ RecoverFits
  /\ TouchedFits
  /\ HostTypes

\* Whatever answers to the saved ownership is the process that is owned.
OwnerFound ==
  Up /\ ~Recovering /\ lastSaved # NoOwner =>
    \/ Matches(lastSaved) \subseteq {proc}
    \/ lastSaved = ReplayArgs /\ TwoBuffers
-----------------------------------------------------------------------------

\* The command channel holds at most one command.
LEMMA CmdsFacts ==
  ASSUME TypeOK
  PROVE  /\ cmds # <<>> => /\ Head(cmds) \in Command /\ Head(cmds) = cmds[1] /\ Len(cmds) = 1
                           /\ Tail(cmds) = <<>> /\ cmds = <<cmds[1]>>
         /\ <<>> \in Seq(Command) /\ Len(<<>>) = 0
         /\ \A c \in Command : <<c>> \in Seq(Command) /\ Len(<<c>>) = 1 /\ <<c>>[1] = c
<1>1. cmds \in Seq(Command) /\ Len(cmds) \in Nat /\ Len(cmds) <= 1
  BY LenProperties DEF TypeOK
<1>2. ASSUME cmds # <<>>
      PROVE  /\ Head(cmds) \in Command /\ Head(cmds) = cmds[1] /\ Len(cmds) = 1
             /\ Tail(cmds) = <<>> /\ cmds = <<cmds[1]>>
  <2>1. Len(cmds) = 1
    BY <1>1, <1>2, EmptySeq
  <2>2. Head(cmds) \in Command /\ Head(cmds) = cmds[1] /\ Tail(cmds) \in Seq(Command)
        /\ Len(Tail(cmds)) = 0
    BY <1>1, <1>2, <2>1, HeadTailProperties
  <2>3. Tail(cmds) = <<>>
    BY <2>2, EmptySeq
  <2>4. cmds = <<cmds[1]>>
    BY <1>1, <2>1
  <2>5. QED
    BY <2>1, <2>2, <2>3, <2>4
<1>3. QED
  BY <1>2

\* What a command carries.
LEMMA CommandFields ==
  ASSUME NEW c \in Command \cup {NoCommand}
  PROVE  /\ c.kind = "reconfig" => c.replay \in BOOLEAN
         /\ c.kind = "recover" => c.own \in Owner
         /\ c \in Toggle => c.kind \in {"record", "replay"}
         /\ c = NoCommand => c.kind = "none"
BY DEF Command, Toggle, NoCommand

LEMMA ProcFacts ==
  ASSUME TypeOK
  PROVE  /\ MaxProcs \in Nat /\ started \in Nat /\ started <= MaxProcs
         /\ ReplayArgs \notin Procs /\ NoOwner \notin Procs /\ {NoOwner, ReplayArgs} \subseteq Owner
         /\ ReplayArgs # NoOwner /\ 0 \in 0 .. MaxProcs /\ Procs \subseteq 0 .. MaxProcs
         /\ \A p \in Procs : Args(p) \in Owner /\ Args(p) # NoOwner
BY RecorderAssumption DEF TypeOK, ReplayArgs, NoOwner, Procs, Args, Owner

\* set puts a mode alone in the channel.
LEMMA SetModeType ==
  ASSUME NEW m \in Mode, SetMode(m)
  PROVE  mode' \in Mode /\ updates' \in {<<>>} \cup {<<x>> : x \in Mode} /\ updates' = <<mode'>>
BY DEF SetMode

LEMMA KeepModeType ==
  ASSUME TypeOK, KeepMode
  PROVE  mode' \in Mode /\ updates' \in {<<>>} \cup {<<x>> : x \in Mode}
BY DEF KeepMode, TypeOK

LEMMA LoopType ==
  ASSUME RecorderInv, Loop
  PROVE  TypeOK'
<1>0. TypeOK /\ LoopFits /\ OwnerFits /\ ProcsFit
  BY DEF RecorderInv
<1>1. CASE Receive
  BY <1>0, <1>1, CmdsFacts, SetModeType, KeepModeType DEF Receive, TypeOK, procVars, Waits, Mode, Live
<1>2. CASE DrainOne
  BY <1>0, <1>2, CmdsFacts, SetModeType, KeepModeType DEF DrainOne, TypeOK, procVars, Waits, Mode, Live
<1>3. CASE DrainEnd
  BY <1>0, <1>3, SetModeType, KeepModeType DEF DrainEnd, TypeOK, procVars, Waits, Mode, Live
<1>4. CASE ToggleStops
  BY <1>0, <1>4, SetModeType, KeepModeType DEF ToggleStops, TypeOK, procVars, Waits, Mode, Live
<1>5. CASE ToggleStarts
  BY <1>0, <1>5, ProcFacts, SetModeType, KeepModeType DEF ToggleStarts, TypeOK, procVars, Waits, Mode, Live, Procs
<1>6. CASE ToggleFails
  BY <1>0, <1>6, SetModeType, KeepModeType DEF ToggleFails, TypeOK, procVars, Waits, Mode, Live
<1>7. CASE ToggleIgnored
  BY <1>0, <1>7, SetModeType, KeepModeType DEF ToggleIgnored, TypeOK, procVars, Waits, Mode, Live
<1>8. CASE BecomesReady
  BY <1>0, <1>8, ProcFacts, SetModeType, KeepModeType DEF BecomesReady, TypeOK, procVars, Waits, Mode, Live, LoopFits, Procs
<1>9. CASE NeverReady
  BY <1>0, <1>9, SetModeType, KeepModeType DEF NeverReady, TypeOK, procVars, Waits, Mode, Live
<1>10. CASE Announce
  BY <1>0, <1>10, SetModeType, KeepModeType DEF Announce, TypeOK, procVars, Waits, Mode, Live, LoopFits
<1>11. CASE Halt
  BY <1>0, <1>11, ProcFacts, SetModeType, KeepModeType DEF Halt, TypeOK, procVars, Waits, Mode, Live, Stopped, LoopFits
<1>12. CASE Verified
  BY <1>0, <1>12, SetModeType, KeepModeType DEF Verified, TypeOK, procVars, Waits, Mode, Live, AfterStop
<1>13. CASE Unverified
  BY <1>0, <1>13, SetModeType, KeepModeType DEF Unverified, TypeOK, procVars, Waits, Mode, Live
<1>14. CASE Settle("idle")
  BY <1>0, <1>14, SetModeType, KeepModeType DEF Settle, TypeOK, procVars, Waits, Mode, Live
<1>15. CASE Settle("failed")
  BY <1>0, <1>15, SetModeType, KeepModeType DEF Settle, TypeOK, procVars, Waits, Mode, Live
<1>16. CASE SaveReplay
  BY <1>0, <1>16, SetModeType, KeepModeType DEF SaveReplay, TypeOK, procVars, Waits, Mode, Live
<1>17. CASE ReplaySaved
  BY <1>0, <1>17, SetModeType, KeepModeType DEF ReplaySaved, TypeOK, procVars, Waits, Mode, Live
<1>18. CASE ReplayNotSaved
  BY <1>0, <1>18, SetModeType, KeepModeType DEF ReplayNotSaved, TypeOK, procVars, Waits, Mode, Live
<1>19. CASE Recover
  <2>1. proc' \in 0 .. MaxProcs /\ own' \in Owner /\ mine' \subseteq Procs
    <3>1. /\ proc' = proc \/ proc' \in alive
          /\ own' = own \/ (own' = cmd.own /\ cmd.kind = "recover")
          /\ mine' \subseteq mine \cup alive
      BY <1>19 DEF Recover, FailNow, Matches
    <3>2. QED
      BY <1>0, <3>1, ProcFacts, CommandFields DEF TypeOK
  <2>2. KeepMode \/ SetMode("adopted") \/ SetMode("failed")
    BY <1>19 DEF Recover, FailNow
  <2>3. mode' \in Mode /\ updates' \in {<<>>} \cup {<<m>> : m \in Mode}
    BY <1>0, <2>2, SetModeType, KeepModeType DEF Mode, Live
  <2>4. QED
    BY <1>0, <1>19, <2>1, <2>3 DEF Recover, TypeOK
<1>20. CASE Retry
  BY <1>0, <1>20, SetModeType, KeepModeType DEF Retry, TypeOK, procVars, Waits, Mode, Live
<1>21. CASE Reconfig
  BY <1>0, <1>21, CommandFields, SetModeType, KeepModeType DEF Reconfig, TypeOK, procVars, Waits, Mode, Live
<1>22. CASE OnExit
  BY <1>0, <1>22, ProcFacts, SetModeType, KeepModeType DEF OnExit, TypeOK, procVars, Waits, Mode, Live, OwnerAfterExit
<1>23. CASE Quit
  BY <1>0, <1>23, SetModeType, KeepModeType DEF Quit, TypeOK, procVars, Waits, Mode, Live, AfterQuit
<1>24. QED
  BY <1>1, <1>2, <1>3, <1>4, <1>5, <1>6, <1>7, <1>8, <1>9, <1>10, <1>11, <1>12, <1>13, <1>14, <1>15, <1>16, <1>17, <1>18, <1>19, <1>20, <1>21, <1>22, <1>23 DEF Loop

\* What a step of the loop may do; the process and what is known of it change
\* in few places.
LEMMA LoopStep ==
  ASSUME RecorderInv, Loop
  PROVE  RecorderInv'
<1>0. TypeOK /\ TypeOK' /\ LoopFits /\ OwnerFits /\ ProcsFit /\ UpdatesFit /\ NoOrphan
  BY LoopType DEF RecorderInv
<1>1. CASE Receive
  <2>1. LoopFits'
    BY <1>0, <1>1, CmdsFacts DEF Receive, LoopFits, TypeOK, Resting, SetMode, KeepMode, Waits, Live
  <2>2. OwnerFits'
    BY <1>0, <1>1, ProcFacts DEF Receive, LoopFits, OwnerFits, TypeOK, Resting, Args, procVars
  <2>3. ProcsFit' /\ NoOrphan'
    BY <1>0, <1>1 DEF Receive, LoopFits, ProcsFit, NoOrphan, TypeOK, Resting, procVars, Live
  <2>4. UpdatesFit'
    BY <1>0, <1>1 DEF Receive, UpdatesFit, SetMode, KeepMode
  <2>5. QED
    BY <1>0, <2>1, <2>2, <2>3, <2>4 DEF RecorderInv
<1>2. CASE DrainOne
  <2>1. LoopFits'
    BY <1>0, <1>2, CmdsFacts DEF DrainOne, LoopFits, TypeOK, Resting, SetMode, KeepMode, Waits, Live
  <2>2. OwnerFits'
    BY <1>0, <1>2, ProcFacts DEF DrainOne, LoopFits, OwnerFits, TypeOK, Resting, Args, procVars
  <2>3. ProcsFit' /\ NoOrphan'
    BY <1>0, <1>2 DEF DrainOne, LoopFits, ProcsFit, NoOrphan, TypeOK, Resting, procVars, Live
  <2>4. UpdatesFit'
    BY <1>0, <1>2 DEF DrainOne, UpdatesFit, SetMode, KeepMode
  <2>5. QED
    BY <1>0, <2>1, <2>2, <2>3, <2>4 DEF RecorderInv
<1>3. CASE DrainEnd
  <2>1. LoopFits'
    BY <1>0, <1>3 DEF DrainEnd, LoopFits, TypeOK, Resting, SetMode, KeepMode, Waits, Live
  <2>2. OwnerFits'
    BY <1>0, <1>3, ProcFacts DEF DrainEnd, LoopFits, OwnerFits, TypeOK, Resting, Args, procVars
  <2>3. ProcsFit' /\ NoOrphan'
    BY <1>0, <1>3 DEF DrainEnd, LoopFits, ProcsFit, NoOrphan, TypeOK, Resting, procVars, Live
  <2>4. UpdatesFit'
    BY <1>0, <1>3 DEF DrainEnd, UpdatesFit, SetMode, KeepMode
  <2>5. QED
    BY <1>0, <2>1, <2>2, <2>3, <2>4 DEF RecorderInv
<1>4. CASE ToggleStops
  <2>1. LoopFits'
    BY <1>0, <1>4 DEF ToggleStops, LoopFits, TypeOK, Resting, SetMode, KeepMode, Waits, Live, Stops
  <2>2. OwnerFits'
    BY <1>0, <1>4, ProcFacts DEF ToggleStops, LoopFits, OwnerFits, TypeOK, Resting, Args, procVars, Stops
  <2>3. ProcsFit' /\ NoOrphan'
    BY <1>0, <1>4 DEF ToggleStops, LoopFits, ProcsFit, NoOrphan, TypeOK, Resting, procVars, Live, Stops
  <2>4. UpdatesFit'
    BY <1>0, <1>4 DEF ToggleStops, UpdatesFit, SetMode, KeepMode, Stops
  <2>5. QED
    BY <1>0, <2>1, <2>2, <2>3, <2>4 DEF RecorderInv
<1>5. CASE ToggleStarts
  <2>1. LoopFits'
    BY <1>0, <1>5 DEF ToggleStarts, LoopFits, TypeOK, Resting, SetMode, KeepMode, Waits, Live, MayStart
  <2>2. OwnerFits'
    BY <1>0, <1>5, ProcFacts DEF ToggleStarts, LoopFits, OwnerFits, TypeOK, Resting, Args, procVars, Live, MayStart
  <2>3. ProcsFit' /\ NoOrphan'
    BY <1>0, <1>5 DEF ToggleStarts, LoopFits, ProcsFit, NoOrphan, TypeOK, Resting, procVars, Live, MayStart
  <2>4. UpdatesFit'
    BY <1>0, <1>5 DEF ToggleStarts, UpdatesFit, SetMode, KeepMode, MayStart
  <2>5. QED
    BY <1>0, <2>1, <2>2, <2>3, <2>4 DEF RecorderInv
<1>6. CASE ToggleFails
  <2>1. LoopFits'
    BY <1>0, <1>6 DEF ToggleFails, LoopFits, TypeOK, Resting, SetMode, KeepMode, Waits, Live, MayStart
  <2>2. OwnerFits'
    BY <1>0, <1>6, ProcFacts DEF ToggleFails, LoopFits, OwnerFits, TypeOK, Resting, Args, procVars, MayStart
  <2>3. ProcsFit' /\ NoOrphan'
    BY <1>0, <1>6 DEF ToggleFails, LoopFits, ProcsFit, NoOrphan, TypeOK, Resting, procVars, Live, MayStart
  <2>4. UpdatesFit'
    BY <1>0, <1>6 DEF ToggleFails, UpdatesFit, SetMode, KeepMode, MayStart
  <2>5. QED
    BY <1>0, <2>1, <2>2, <2>3, <2>4 DEF RecorderInv
<1>7. CASE ToggleIgnored
  <2>1. LoopFits'
    BY <1>0, <1>7 DEF ToggleIgnored, LoopFits, TypeOK, Resting, SetMode, KeepMode, Waits, Live, MayStart, Stops
  <2>2. OwnerFits'
    BY <1>0, <1>7, ProcFacts DEF ToggleIgnored, LoopFits, OwnerFits, TypeOK, Resting, Args, procVars, MayStart, Stops
  <2>3. ProcsFit' /\ NoOrphan'
    BY <1>0, <1>7 DEF ToggleIgnored, LoopFits, ProcsFit, NoOrphan, TypeOK, Resting, procVars, Live, MayStart, Stops
  <2>4. UpdatesFit'
    BY <1>0, <1>7 DEF ToggleIgnored, UpdatesFit, SetMode, KeepMode, MayStart, Stops
  <2>5. QED
    BY <1>0, <2>1, <2>2, <2>3, <2>4 DEF RecorderInv
<1>8. CASE BecomesReady
  <2>1. LoopFits'
    BY <1>0, <1>8 DEF BecomesReady, LoopFits, TypeOK, Resting, SetMode, KeepMode, Waits, Live
  <2>2. OwnerFits'
    BY <1>0, <1>8, ProcFacts DEF BecomesReady, LoopFits, OwnerFits, TypeOK, Resting, Args, procVars
  <2>3. ProcsFit' /\ NoOrphan'
    BY <1>0, <1>8 DEF BecomesReady, LoopFits, ProcsFit, NoOrphan, TypeOK, Resting, procVars, Live
  <2>4. UpdatesFit'
    BY <1>0, <1>8 DEF BecomesReady, UpdatesFit, SetMode, KeepMode
  <2>5. QED
    BY <1>0, <2>1, <2>2, <2>3, <2>4 DEF RecorderInv
<1>9. CASE NeverReady
  <2>1. LoopFits'
    BY <1>0, <1>9 DEF NeverReady, LoopFits, TypeOK, Resting, SetMode, KeepMode, Waits, Live
  <2>2. OwnerFits'
    BY <1>0, <1>9, ProcFacts DEF NeverReady, LoopFits, OwnerFits, TypeOK, Resting, Args, procVars
  <2>3. ProcsFit' /\ NoOrphan'
    BY <1>0, <1>9 DEF NeverReady, LoopFits, ProcsFit, NoOrphan, TypeOK, Resting, procVars, Live
  <2>4. UpdatesFit'
    BY <1>0, <1>9 DEF NeverReady, UpdatesFit, SetMode, KeepMode
  <2>5. QED
    BY <1>0, <2>1, <2>2, <2>3, <2>4 DEF RecorderInv
<1>10. CASE Announce
  <2>1. LoopFits'
    BY <1>0, <1>10 DEF Announce, LoopFits, TypeOK, Resting, SetMode, KeepMode, Waits, Live
  <2>2. OwnerFits'
    BY <1>0, <1>10, ProcFacts DEF Announce, LoopFits, OwnerFits, TypeOK, Resting, Args, procVars
  <2>3. ProcsFit' /\ NoOrphan'
    BY <1>0, <1>10 DEF Announce, LoopFits, ProcsFit, NoOrphan, TypeOK, Resting, procVars, Live
  <2>4. UpdatesFit'
    BY <1>0, <1>10 DEF Announce, UpdatesFit, SetMode, KeepMode
  <2>5. QED
    BY <1>0, <2>1, <2>2, <2>3, <2>4 DEF RecorderInv
<1>11. CASE Halt
  <2>1. LoopFits'
    BY <1>0, <1>11 DEF Halt, LoopFits, TypeOK, Resting, SetMode, KeepMode, Waits, Live, Stopped
  <2>2. OwnerFits'
    BY <1>0, <1>11, ProcFacts DEF Halt, LoopFits, OwnerFits, TypeOK, Resting, Args, procVars, Stopped
  <2>3. ProcsFit' /\ NoOrphan'
    BY <1>0, <1>11 DEF Halt, LoopFits, ProcsFit, NoOrphan, TypeOK, Resting, procVars, Live, Stopped
  <2>4. UpdatesFit'
    BY <1>0, <1>11 DEF Halt, UpdatesFit, SetMode, KeepMode, Stopped
  <2>5. QED
    BY <1>0, <2>1, <2>2, <2>3, <2>4 DEF RecorderInv
<1>12. CASE Verified
  <2>1. LoopFits'
    BY <1>0, <1>12 DEF Verified, LoopFits, TypeOK, Resting, SetMode, KeepMode, Waits, Live, AfterStop
  <2>2. OwnerFits'
    BY <1>0, <1>12, ProcFacts DEF Verified, LoopFits, OwnerFits, TypeOK, Resting, Args, procVars, AfterStop
  <2>3. ProcsFit' /\ NoOrphan'
    BY <1>0, <1>12 DEF Verified, LoopFits, ProcsFit, NoOrphan, TypeOK, Resting, procVars, Live, AfterStop
  <2>4. UpdatesFit'
    BY <1>0, <1>12 DEF Verified, UpdatesFit, SetMode, KeepMode, AfterStop
  <2>5. QED
    BY <1>0, <2>1, <2>2, <2>3, <2>4 DEF RecorderInv
<1>13. CASE Unverified
  <2>1. LoopFits'
    BY <1>0, <1>13 DEF Unverified, LoopFits, TypeOK, Resting, SetMode, KeepMode, Waits, Live
  <2>2. OwnerFits'
    BY <1>0, <1>13, ProcFacts DEF Unverified, LoopFits, OwnerFits, TypeOK, Resting, Args, procVars
  <2>3. ProcsFit' /\ NoOrphan'
    BY <1>0, <1>13 DEF Unverified, LoopFits, ProcsFit, NoOrphan, TypeOK, Resting, procVars, Live
  <2>4. UpdatesFit'
    BY <1>0, <1>13 DEF Unverified, UpdatesFit, SetMode, KeepMode
  <2>5. QED
    BY <1>0, <2>1, <2>2, <2>3, <2>4 DEF RecorderInv
<1>14. CASE Settle("idle")
  <2>1. LoopFits'
    BY <1>0, <1>14 DEF Settle, LoopFits, TypeOK, Resting, SetMode, KeepMode, Waits, Live
  <2>2. OwnerFits'
    BY <1>0, <1>14, ProcFacts DEF Settle, LoopFits, OwnerFits, TypeOK, Resting, Args, procVars
  <2>3. ProcsFit' /\ NoOrphan'
    BY <1>0, <1>14 DEF Settle, LoopFits, ProcsFit, NoOrphan, TypeOK, Resting, procVars, Live
  <2>4. UpdatesFit'
    BY <1>0, <1>14 DEF Settle, UpdatesFit, SetMode, KeepMode
  <2>5. QED
    BY <1>0, <2>1, <2>2, <2>3, <2>4 DEF RecorderInv
<1>15. CASE Settle("failed")
  <2>1. LoopFits'
    BY <1>0, <1>15 DEF Settle, LoopFits, TypeOK, Resting, SetMode, KeepMode, Waits, Live
  <2>2. OwnerFits'
    BY <1>0, <1>15, ProcFacts DEF Settle, LoopFits, OwnerFits, TypeOK, Resting, Args, procVars
  <2>3. ProcsFit' /\ NoOrphan'
    BY <1>0, <1>15 DEF Settle, LoopFits, ProcsFit, NoOrphan, TypeOK, Resting, procVars, Live
  <2>4. UpdatesFit'
    BY <1>0, <1>15 DEF Settle, UpdatesFit, SetMode, KeepMode
  <2>5. QED
    BY <1>0, <2>1, <2>2, <2>3, <2>4 DEF RecorderInv
<1>16. CASE SaveReplay
  <2>1. LoopFits'
    BY <1>0, <1>16 DEF SaveReplay, LoopFits, TypeOK, Resting, SetMode, KeepMode, Waits, Live
  <2>2. OwnerFits'
    BY <1>0, <1>16, ProcFacts DEF SaveReplay, LoopFits, OwnerFits, TypeOK, Resting, Args, procVars
  <2>3. ProcsFit' /\ NoOrphan'
    BY <1>0, <1>16 DEF SaveReplay, LoopFits, ProcsFit, NoOrphan, TypeOK, Resting, procVars, Live
  <2>4. UpdatesFit'
    BY <1>0, <1>16 DEF SaveReplay, UpdatesFit, SetMode, KeepMode
  <2>5. QED
    BY <1>0, <2>1, <2>2, <2>3, <2>4 DEF RecorderInv
<1>17. CASE ReplaySaved
  <2>1. LoopFits'
    BY <1>0, <1>17 DEF ReplaySaved, LoopFits, TypeOK, Resting, SetMode, KeepMode, Waits, Live
  <2>2. OwnerFits'
    BY <1>0, <1>17, ProcFacts DEF ReplaySaved, LoopFits, OwnerFits, TypeOK, Resting, Args, procVars
  <2>3. ProcsFit' /\ NoOrphan'
    BY <1>0, <1>17 DEF ReplaySaved, LoopFits, ProcsFit, NoOrphan, TypeOK, Resting, procVars, Live
  <2>4. UpdatesFit'
    BY <1>0, <1>17 DEF ReplaySaved, UpdatesFit, SetMode, KeepMode
  <2>5. QED
    BY <1>0, <2>1, <2>2, <2>3, <2>4 DEF RecorderInv
<1>18. CASE ReplayNotSaved
  <2>1. LoopFits'
    BY <1>0, <1>18 DEF ReplayNotSaved, LoopFits, TypeOK, Resting, SetMode, KeepMode, Waits, Live
  <2>2. OwnerFits'
    BY <1>0, <1>18, ProcFacts DEF ReplayNotSaved, LoopFits, OwnerFits, TypeOK, Resting, Args, procVars
  <2>3. ProcsFit' /\ NoOrphan'
    BY <1>0, <1>18 DEF ReplayNotSaved, LoopFits, ProcsFit, NoOrphan, TypeOK, Resting, procVars, Live
  <2>4. UpdatesFit'
    BY <1>0, <1>18 DEF ReplayNotSaved, UpdatesFit, SetMode, KeepMode
  <2>5. QED
    BY <1>0, <2>1, <2>2, <2>3, <2>4 DEF RecorderInv
<1>19. CASE Recover
  <2>1. LoopFits'
    BY <1>0, <1>19 DEF Recover, LoopFits, TypeOK, Resting, SetMode, KeepMode, Waits, Live, FailNow, Matches
  <2>2. OwnerFits'
    <3>1. CASE UNCHANGED <<proc, own>>
      BY <1>0, <1>19, <3>1 DEF Recover, OwnerFits, Resting, Args
    <3>2. ASSUME NEW p \in Matches(cmd.own), proc' = p, own' = cmd.own
          PROVE  OwnerFits'
      <4>1. p \in Procs /\ p # 0 /\ own' = Args(p)
        BY <1>0, <3>2 DEF Matches, TypeOK, Procs
      <4>2. Args(p)' = Args(p)
        BY <1>19, <3>2 DEF Recover, Args
      <4>3. QED
        BY <3>2, <4>1, <4>2 DEF OwnerFits, Args
    <3>3. QED
      BY <1>19, <3>1, <3>2 DEF Recover, FailNow
  <2>3. ProcsFit' /\ NoOrphan'
    BY <1>0, <1>19 DEF Recover, LoopFits, ProcsFit, NoOrphan, TypeOK, Resting, procVars, Live, FailNow, Matches
  <2>4. UpdatesFit'
    BY <1>0, <1>19 DEF Recover, UpdatesFit, SetMode, KeepMode, FailNow, Matches
  <2>5. QED
    BY <1>0, <2>1, <2>2, <2>3, <2>4 DEF RecorderInv
<1>20. CASE Retry
  <2>1. LoopFits'
    BY <1>0, <1>20 DEF Retry, LoopFits, TypeOK, Resting, SetMode, KeepMode, Waits, Live
  <2>2. OwnerFits'
    BY <1>0, <1>20, ProcFacts DEF Retry, LoopFits, OwnerFits, TypeOK, Resting, Args, procVars
  <2>3. ProcsFit' /\ NoOrphan'
    BY <1>0, <1>20 DEF Retry, LoopFits, ProcsFit, NoOrphan, TypeOK, Resting, procVars, Live
  <2>4. UpdatesFit'
    BY <1>0, <1>20 DEF Retry, UpdatesFit, SetMode, KeepMode
  <2>5. QED
    BY <1>0, <2>1, <2>2, <2>3, <2>4 DEF RecorderInv
<1>21. CASE Reconfig
  <2>1. LoopFits'
    BY <1>0, <1>21 DEF Reconfig, LoopFits, TypeOK, Resting, SetMode, KeepMode, Waits, Live
  <2>2. OwnerFits'
    BY <1>0, <1>21, ProcFacts DEF Reconfig, LoopFits, OwnerFits, TypeOK, Resting, Args, procVars
  <2>3. ProcsFit' /\ NoOrphan'
    BY <1>0, <1>21 DEF Reconfig, LoopFits, ProcsFit, NoOrphan, TypeOK, Resting, procVars, Live
  <2>4. UpdatesFit'
    BY <1>0, <1>21 DEF Reconfig, UpdatesFit, SetMode, KeepMode
  <2>5. QED
    BY <1>0, <2>1, <2>2, <2>3, <2>4 DEF RecorderInv
<1>22. CASE OnExit
  <2>1. LoopFits'
    BY <1>0, <1>22 DEF OnExit, LoopFits, TypeOK, Resting, SetMode, KeepMode, Waits, Live, OwnerAfterExit
  <2>2. OwnerFits'
    BY <1>0, <1>22, ProcFacts DEF OnExit, LoopFits, OwnerFits, TypeOK, Resting, Args, procVars, OwnerAfterExit
  <2>3. ProcsFit' /\ NoOrphan'
    BY <1>0, <1>22 DEF OnExit, LoopFits, ProcsFit, NoOrphan, TypeOK, Resting, procVars, Live, OwnerAfterExit
  <2>4. UpdatesFit'
    BY <1>0, <1>22 DEF OnExit, UpdatesFit, SetMode, KeepMode, OwnerAfterExit
  <2>5. QED
    BY <1>0, <2>1, <2>2, <2>3, <2>4 DEF RecorderInv
<1>23. CASE Quit
  <2>1. LoopFits'
    BY <1>0, <1>23 DEF Quit, LoopFits, TypeOK, Resting, SetMode, KeepMode, Waits, Live, AfterQuit
  <2>2. OwnerFits'
    BY <1>0, <1>23, ProcFacts DEF Quit, LoopFits, OwnerFits, TypeOK, Resting, Args, procVars, AfterQuit
  <2>3. ProcsFit' /\ NoOrphan'
    BY <1>0, <1>23 DEF Quit, LoopFits, ProcsFit, NoOrphan, TypeOK, Resting, procVars, Live, AfterQuit
  <2>4. UpdatesFit'
    BY <1>0, <1>23 DEF Quit, UpdatesFit, SetMode, KeepMode, AfterQuit
  <2>5. QED
    BY <1>0, <2>1, <2>2, <2>3, <2>4 DEF RecorderInv
<1>24. QED
  BY <1>1, <1>2, <1>3, <1>4, <1>5, <1>6, <1>7, <1>8, <1>9, <1>10, <1>11, <1>12, <1>13, <1>14, <1>15, <1>16, <1>17, <1>18, <1>19, <1>20, <1>21, <1>22, <1>23 DEF Loop

\* Callers, and processes that end by themselves.
LEMMA CallerStep ==
  ASSUME RecorderInv,
         (\E c \in Command : Send(c)) \/ CloseQuit \/ (\E p \in Procs : ChildExits(p))
           \/ UNCHANGED recorderVars
  PROVE  RecorderInv'
<1>0. TypeOK /\ LoopFits /\ OwnerFits /\ ProcsFit /\ UpdatesFit /\ NoOrphan
  BY DEF RecorderInv
<1>1. CASE \E c \in Command : Send(c)
  <2>1. PICK c \in Command : Send(c)
    BY <1>1
  <2>2. cmds = <<>> /\ cmds' = Append(cmds, c)
    BY <1>0, <2>1, EmptySeq DEF Send, HasRoom, TypeOK
  <2>3. cmds' = <<c>>
    BY <2>2
  <2>4. TypeOK'
    BY <1>0, <2>1, <2>3, CmdsFacts DEF Send, TypeOK, procVars
  <2>5. QED
    BY <1>0, <2>1, <2>4
    DEF Send, procVars, RecorderInv, LoopFits, OwnerFits, ProcsFit, UpdatesFit, NoOrphan, Args
<1>2. CASE CloseQuit
  <2>1. TypeOK'
    BY <1>0, <1>2 DEF CloseQuit, TypeOK, procVars
  <2>2. QED
    BY <1>0, <1>2, <2>1
    DEF CloseQuit, procVars, RecorderInv, LoopFits, OwnerFits, ProcsFit, UpdatesFit, NoOrphan, Args
<1>3. CASE \E p \in Procs : ChildExits(p)
  <2>1. TypeOK'
    BY <1>0, <1>3 DEF ChildExits, TypeOK, loopVars
  <2>2. QED
    BY <1>0, <1>3, <2>1
    DEF ChildExits, loopVars, RecorderInv, LoopFits, OwnerFits, ProcsFit, UpdatesFit, NoOrphan, Args
<1>4. CASE UNCHANGED recorderVars
  <2>1. TypeOK'
    BY <1>0, <1>4 DEF recorderVars, loopVars, procVars, TypeOK
  <2>2. QED
    BY <1>0, <1>4, <2>1
    DEF recorderVars, loopVars, procVars, RecorderInv, LoopFits, OwnerFits, ProcsFit, UpdatesFit,
        NoOrphan, Args
<1>5. QED
  BY <1>1, <1>2, <1>3, <1>4

\* A recorder as New makes it, beside what earlier ones left behind.
NewBeside ==
  /\ NewLoop
  /\ started \in 0 .. MaxProcs /\ alive \subseteq 1 .. started /\ replays \subseteq 1 .. started

LEMMA NewLoopInv == NewBeside => RecorderInv
<1> SUFFICES ASSUME NewLoop, started \in 0 .. MaxProcs, alive \subseteq 1 .. started,
                    replays \subseteq 1 .. started
             PROVE  RecorderInv
  BY DEF NewBeside
<1>1. TypeOK
  <2>1. <<>> \in Seq(Command) /\ Len(<<>>) = 0
    OBVIOUS
  <2>2. alive \subseteq Procs /\ replays \subseteq Procs /\ MaxProcs \in Nat
    BY RecorderAssumption DEF Procs
  <2>3. mode \in Mode /\ own \in Owner
    BY <2>2 DEF NewLoop, Mode, Live, Owner, NoOwner
  <2>4. installed \in BOOLEAN /\ replayOn = FALSE /\ quit = FALSE /\ recovered = FALSE /\ proc = 0
    BY DEF NewLoop
  <2>5. cmds \in Seq(Command) /\ Len(cmds) <= 1 /\ updates = <<>> /\ mine = {}
    BY <2>1 DEF NewLoop
  <2>6. at = "select" /\ next = "select" /\ cmd = NoCommand
    BY DEF NewLoop
  <2>7. replayOn \in BOOLEAN /\ quit \in BOOLEAN /\ recovered \in BOOLEAN
    BY <2>4
  <2>8. installed \in BOOLEAN /\ proc \in 0 .. MaxProcs
    BY <2>2, <2>4
  <2>9. /\ at \in Waits \cup {"select", "drain", "handle", "starting", "ready", "halting", "saving"}
        /\ next \in Waits \cup {"select", "recording", "replay-active"}
        /\ cmd \in Command \cup {NoCommand}
    BY <2>6
  <2>10. updates \in {<<>>} \cup {<<m>> : m \in Mode} /\ mine \subseteq Procs
    BY <2>5
  <2>11. QED
    BY <2>2, <2>3, <2>5, <2>7, <2>8, <2>9, <2>10 DEF TypeOK
<1>2. LoopFits /\ OwnerFits /\ ProcsFit /\ UpdatesFit /\ NoOrphan
  BY <1>1 DEF NewLoop, TypeOK, LoopFits, OwnerFits, ProcsFit, UpdatesFit, NoOrphan, Resting, NoOwner
<1>3. QED
  BY <1>1, <1>2 DEF RecorderInv

\* recorder.go: under any caller and any failure, a process that this recorder
\* started or adopted is the one it owns until it is dead, and Close leaves none.
THEOREM NoneUnowned == Spec => [](TypeOK /\ NoOrphan)
<1>1. RecorderInit => RecorderInv
  BY NewLoopInv DEF RecorderInit, Earlier, NewBeside
<1>2. RecorderInv /\ [Next]_recorderVars => RecorderInv'
  BY LoopStep, CallerStep DEF Next
<1>3. RecorderInv => TypeOK /\ NoOrphan
  BY DEF RecorderInv
<1>4. QED
  BY <1>1, <1>2, <1>3, PTL DEF Spec

-----------------------------------------------------------------------------
(* What the plugin relies on in a step of the loop.                        *)

LEMMA LoopChanges ==
  ASSUME RecorderInv, Loop
  PROVE  /\ at # "gone" /\ started' \in {started, started + 1}
         /\ UNCHANGED <<mode, updates>> \/ updates' # <<>>
         /\ at' \in Resting /\ proc' # 0 =>
              updates' # <<>> \/ (at \in Resting /\ UNCHANGED <<own, proc, updates>>)
<1>0. TypeOK /\ LoopFits
  BY DEF RecorderInv
<1>1. at # "gone" /\ started' \in {started, started + 1}
  BY <1>0 DEF Loop, TypeOK, Receive, DrainOne, DrainEnd, ToggleStops, ToggleStarts, ToggleFails,
     ToggleIgnored, BecomesReady, NeverReady, Announce, Halt, Verified, Unverified, Settle, SaveReplay,
     ReplaySaved, ReplayNotSaved, Recover, Retry, Reconfig, OnExit, Quit, procVars
<1>2. UNCHANGED <<mode, updates>> \/ updates' # <<>>
  BY DEF Loop, Receive, DrainOne, DrainEnd, ToggleStops, ToggleStarts, ToggleFails,
     ToggleIgnored, BecomesReady, NeverReady, Announce, Halt, Verified, Unverified, Settle, SaveReplay,
     ReplaySaved, ReplayNotSaved, Recover, FailNow, Retry, Reconfig, OnExit, Quit, KeepMode, SetMode
<1>3. ASSUME at' \in Resting, proc' # 0, updates' = <<>>
      PROVE  at \in Resting /\ UNCHANGED <<own, proc, updates>>
  <2>1. CASE Receive \/ DrainOne \/ DrainEnd \/ ToggleIgnored \/ SaveReplay \/ ReplaySaved
             \/ Recover \/ Retry \/ Reconfig
    BY <1>3, <2>1 DEF Receive, DrainOne, DrainEnd, ToggleIgnored, SaveReplay, ReplaySaved, Recover,
       FailNow, Retry, Reconfig, KeepMode, SetMode, Resting
  <2>2. CASE ToggleStops \/ ToggleStarts \/ ToggleFails \/ BecomesReady \/ NeverReady \/ Unverified
             \/ ReplayNotSaved \/ Quit \/ OnExit
    BY <1>0, <1>3, <2>2 DEF ToggleStops, ToggleStarts, ToggleFails, BecomesReady, NeverReady, Unverified,
       ReplayNotSaved, Quit, OnExit, AfterQuit, Resting
  <2>3. CASE Announce \/ Halt \/ Verified \/ Settle("idle") \/ Settle("failed")
    BY <1>0, <1>3, <2>3 DEF Announce, Halt, Verified, Settle, SetMode, LoopFits, Waits, Resting
  <2>4. QED
    BY <2>1, <2>2, <2>3 DEF Loop
<1>4. QED
  BY <1>1, <1>2, <1>3

\* Commands are received in order, one at a time, and only toggles discard.
LEMMA CommandChanges ==
  ASSUME RecorderInv, Loop
  PROVE  /\ \/ cmd' = cmd /\ cmds' = cmds
            \/ cmd' = NoCommand /\ cmds' = cmds /\ at = "handle" /\ cmd # NoCommand
            \/ Receive /\ cmds # <<>> /\ cmd' = cmds[1] /\ cmds' = <<>>
            \/ cmd' = cmd /\ at = "drain" /\ cmds' = <<>>
         /\ recovered' = recovered \/ (at = "handle" /\ cmd.kind = "recover" /\ Recover)
<1>0. TypeOK
  BY DEF RecorderInv
<1>1. CASE Receive \/ DrainOne
  BY <1>0, <1>1, CmdsFacts DEF Receive, DrainOne
<1>2. CASE Recover
  BY <1>2, CommandFields DEF Recover, NoCommand
<1>3. CASE ToggleStops \/ ToggleStarts \/ ToggleFails \/ ToggleIgnored \/ SaveReplay \/ Retry \/ Reconfig
  BY <1>3, CommandFields DEF ToggleStops, ToggleStarts, ToggleFails, ToggleIgnored, SaveReplay,
     Retry, Reconfig, NoCommand, Toggle
<1>4. CASE DrainEnd \/ BecomesReady \/ NeverReady \/ Announce \/ Halt \/ Verified \/ Unverified
           \/ Settle("idle") \/ Settle("failed") \/ ReplaySaved \/ ReplayNotSaved \/ OnExit \/ Quit
  BY <1>4 DEF DrainEnd, BecomesReady, NeverReady, Announce, Halt, Verified, Unverified, Settle,
     ReplaySaved, ReplayNotSaved, OnExit, Quit
<1>5. QED
  BY <1>1, <1>2, <1>3, <1>4 DEF Loop

\* A recorder that was only told its settings stays as it started.
LEMMA FreshStep ==
  ASSUME RecorderInv, Loop, Fresh, Plain(cmd), \A i \in 1 .. Len(cmds) : cmds[i] \notin Toggle
  PROVE  Fresh' /\ recovered' = recovered /\ at # "drain"
<1>0. TypeOK /\ LoopFits /\ cmd \notin Toggle /\ cmd.kind \notin {"save", "retry", "recover"}
  BY CommandFields DEF RecorderInv, Plain, Toggle
<1>1. CASE Receive
  <2>1. Len(cmds) = 1 /\ Head(cmds) = cmds[1]
    BY <1>0, <1>1, CmdsFacts DEF Receive
  <2>2. Head(cmds) \notin Toggle
    BY <2>1
  <2>3. QED
    BY <1>1, <2>2 DEF Receive, Fresh, KeepMode
<1>2. CASE Reconfig
  BY <1>2 DEF Reconfig, Fresh, KeepMode
<1>3. CASE Halt
  BY <1>3 DEF Halt, Fresh, KeepMode
<1>4. CASE Quit
  BY <1>4 DEF Quit, Fresh, KeepMode, AfterQuit
<1>5. CASE OnExit
  BY <1>5 DEF OnExit, Fresh
<1>6. ~(\/ ToggleStops \/ ToggleStarts \/ ToggleFails \/ ToggleIgnored \/ SaveReplay
        \/ Recover \/ Retry)
  BY <1>0 DEF ToggleStops, ToggleStarts, ToggleFails, ToggleIgnored, SaveReplay, Recover, Retry
<1>7. ~(\/ DrainOne \/ DrainEnd \/ BecomesReady \/ NeverReady \/ Announce \/ Verified \/ Unverified
        \/ Settle("idle") \/ Settle("failed") \/ ReplaySaved \/ ReplayNotSaved)
  BY DEF DrainOne, DrainEnd, BecomesReady, NeverReady, Announce, Verified, Unverified,
         Settle, ReplaySaved, ReplayNotSaved, Fresh
<1>8. at # "drain"
  BY DEF Fresh
<1>9. QED
  BY <1>1, <1>2, <1>3, <1>4, <1>5, <1>6, <1>7, <1>8 DEF Loop

-----------------------------------------------------------------------------
(* The steps of the plugin, one part of the invariant at a time.           *)

LEMMA NewLoopAgain == NewBeside' => RecorderInv'
  BY NewLoopInv, PTL

LEMMA RecorderNext ==
  ASSUME PluginInv, [PluginNext]_allVars
  PROVE  RecorderInv'
<1>0. RecorderInv
  BY DEF PluginInv
<1>1. CASE RecorderSteps
  BY <1>0, <1>1, LoopStep, CallerStep DEF RecorderSteps
<1>2. CASE SendDone
  <2>1. outgoing \in Command /\ Send(outgoing)
    BY <1>2 DEF SendDone, PluginInv, MainFits
  <2>2. QED
    BY <1>0, <2>1, CallerStep
<1>3. CASE CloseRecorder
  BY <1>0, <1>3, CallerStep DEF CloseRecorder
<1>4. CASE OnUpdate
  <2>1. /\ updates' = <<>>
        /\ UNCHANGED <<mode, own, proc, replayOn, installed, at, next, cmd, cmds, quit, recovered, procVars>>
    BY <1>4 DEF OnUpdate
  <2>2. TypeOK'
    BY <1>0, <2>1 DEF RecorderInv, TypeOK, procVars
  <2>3. LoopFits' /\ OwnerFits' /\ ProcsFit' /\ UpdatesFit' /\ NoOrphan'
    BY <1>0, <2>1 DEF RecorderInv, LoopFits, OwnerFits, ProcsFit, UpdatesFit, NoOrphan, Args, procVars
  <2>4. QED
    BY <2>2, <2>3 DEF RecorderInv
<1>5. CASE Crash
  <2>1. /\ at' = "gone" /\ mine' = {}
        /\ UNCHANGED <<mode, own, proc, replayOn, installed, next, cmd, cmds, quit, updates,
                       recovered, alive, replays, started>>
    BY <1>5 DEF Crash
  <2>2. TypeOK'
    BY <1>0, <2>1 DEF RecorderInv, TypeOK, Waits
  <2>3. LoopFits' /\ OwnerFits' /\ ProcsFit' /\ UpdatesFit' /\ NoOrphan'
    BY <1>0, <2>1
    DEF RecorderInv, LoopFits, OwnerFits, ProcsFit, UpdatesFit, NoOrphan, Args, Resting
  <2>4. QED
    BY <2>2, <2>3 DEF RecorderInv
<1>6. CASE Restart
  <2>1. NewLoop'
    BY <1>6 DEF Restart, NewLoop
  <2>2. started' \in 0 .. MaxProcs /\ alive' \subseteq 1 .. started' /\ replays' \subseteq 1 .. started'
    BY <1>0, <1>6 DEF Restart, RecorderInv, TypeOK, ProcsFit
  <2>3. NewBeside'
    BY <2>1, <2>2 DEF NewBeside
  <2>4. QED
    BY <2>3, NewLoopAgain
<1>7. CASE /\ [PluginNext]_allVars /\ ~RecorderSteps /\ ~SendDone /\ ~CloseRecorder /\ ~OnUpdate
           /\ ~Crash /\ ~Restart
  <2>1. UNCHANGED recorderVars
    BY <1>7 DEF PluginNext, MainSteps, PublishEnds, Republish, Resume, Flush, Exit, OnOutputContext,
       OnRestore, OnRecovered, Refresh, OnSettings, Shutdown, Click, RestoreReply, HostStores, allVars
  <2>2. QED
    BY <1>0, <2>1, CallerStep
<1>8. QED
  BY <1>1, <1>2, <1>3, <1>4, <1>5, <1>6, <1>7

\* An input is a command of its own or nothing.
LEMMA Processed ==
  ASSUME NEW in \in Input, NEW then, Process(in, then)
  PROVE  /\ served' = in.number
         /\ \/ main' = then /\ UNCHANGED <<outgoing, after>>
            \/ /\ main' = "send" /\ after' = then /\ in.act # "none"
               /\ outgoing' \in Command /\ NotRecover(outgoing')
BY DEF Process, Call, Input, Act, Command, Toggle, NotRecover

LEMMA KnownOwner ==
  ASSUME PluginInv
  PROVE  /\ Known \subseteq Owner
         /\ {own, lastSaved, stored, found} \subseteq Owner /\ unsaved \in Owner \cup {NothingUnsaved}
<1>1. Known \subseteq Owner
  BY RecorderAssumption DEF PluginInv, RecorderInv, TypeOK, Known, Owner, NoOwner, ReplayArgs
<1>2. QED
  BY <1>1 DEF PluginInv, KnownFits

\* What the other steps of the main goroutine do to the inputs.
LEMMA MainSteady ==
  ASSUME PluginInv, [PluginNext]_allVars,
         ~OnOutputContext, \A known \in BOOLEAN : ~Resume(known),
         \A node \in Nodes, known \in BOOLEAN : ~Click(node, known), ~Crash, ~Restart
  PROVE  /\ UNCHANGED <<clicks, served, pending, outputPending, lookup>>
         /\ stateTouched' = stateTouched
         /\ \/ UNCHANGED <<main, outgoing, after>> /\ (Up \/ at' = at)
            \/ SendDone
            \/ /\ main = "select" /\ main' = "send" /\ after' \in {"select", "republish"}
               /\ outgoing' \in Command
            \/ /\ main \notin {"send", "resume", "exited"} /\ UNCHANGED <<outgoing, after>>
               /\ main' \in {"select", "publish", "flush", "close", "closing"}
            \/ Exit
<1>1. CASE RecorderSteps
  <2>1. Loop => Up
    BY LoopChanges DEF PluginInv, MainFits
  <2>2. QED
    BY <1>1, <2>1 DEF RecorderSteps, ChildExits, loopVars, pluginVars, mainVars, boundVars
<1>2. CASE OnRestore
  <2>1. found \in Owner
    BY KnownOwner
  <2>2. QED
    BY <1>2, <2>1 DEF OnRestore, Call, Command, boundVars
<1>3. CASE OnSettings
  BY <1>3 DEF OnSettings, Call, Command
<1>4. CASE SendDone \/ Exit
  BY <1>4 DEF SendDone, Exit, boundVars
<1>5. CASE RestoreReply \/ HostStores \/ OnRecovered \/ UNCHANGED allVars
  BY <1>5 DEF RestoreReply, HostStores, OnRecovered, allVars, pluginVars, mainVars, boundVars,
     recorderVars, loopVars
<1>6. CASE OnUpdate
  BY <1>6 DEF OnUpdate, Publish, boundVars, pluginVars, mainVars
<1>7. CASE PublishEnds \/ Republish \/ Refresh \/ Flush \/ CloseRecorder \/ Shutdown
  BY <1>7 DEF PublishEnds, Republish, Refresh, Publish, Flush, CloseRecorder, Shutdown, boundVars
<1>8. QED
  BY <1>1, <1>2, <1>3, <1>4, <1>5, <1>6, <1>7 DEF PluginNext, MainSteps

\* The inputs keep their numbers and their order.
LEMMA InputsNext ==
  ASSUME PluginInv, [PluginNext]_allVars
  PROVE  InputsFit'
<1>0. /\ InputsFit /\ clicks \in Nat /\ served \in Nat /\ Len(pending) \in Nat
      /\ pending \in Seq(Input) /\ MaxClicks \in Nat
      /\ \A i \in 1 .. Len(pending) : pending[i] \in Input
  BY PluginAssumption, LenProperties, ElementOfSeq DEF PluginInv, InputsFit
<1>1. CASE \E node \in Nodes, known \in BOOLEAN : Click(node, known)
  <2>1. PICK node \in Nodes, known \in BOOLEAN : Click(node, known)
    BY <1>1
  <2> DEFINE in == [act |-> Meaning(node), number |-> clicks + 1]
  <2>2. in \in Input /\ in.number = clicks + 1 /\ clicks' = clicks + 1 /\ clicks' <= MaxClicks
        /\ main = "select"
    <3>1. clicks < MaxClicks /\ clicks' = clicks + 1 /\ main = "select"
      BY <2>1 DEF Click
    <3>2. clicks + 1 \in 1 .. MaxClicks
      BY <1>0, <3>1
    <3>3. Meaning(node) \in Act
      BY DEF Meaning, Act
    <3>4. QED
      BY <3>1, <3>2, <3>3 DEF Input
  <2> HIDE DEF in
  <2>3. CASE outputPending
    <3>1. pending' = Append(pending, in) /\ UNCHANGED <<main, outputPending, lookup, served>>
      BY <2>1, <2>3 DEF Click, MustWait, in
    <3>2. /\ pending' \in Seq(Input) /\ Len(pending') = Len(pending) + 1
          /\ \A i \in 1 .. Len(pending) : pending'[i] = pending[i]
          /\ pending'[Len(pending) + 1] = in
      BY <1>0, <2>2, <3>1, AppendProperties
    <3>3. \A i \in 1 .. Len(pending') : pending'[i].number = served + 1 + i
      <4>1. /\ served + 1 + Len(pending) = clicks
            /\ \A i \in 1 .. Len(pending) : pending[i].number = served + 1 + i
        BY <2>2, <2>3 DEF InputsFit, Up, Asked, PluginInv
      <4> SUFFICES ASSUME NEW i \in 1 .. Len(pending) + 1
                   PROVE  pending'[i].number = served + 1 + i
        BY <3>2
      <4>2. CASE i \in 1 .. Len(pending)
        BY <3>2, <4>1, <4>2
      <4>3. CASE i = Len(pending) + 1
        BY <1>0, <2>2, <3>2, <4>1, <4>3
      <4>4. QED
        BY <1>0, <4>2, <4>3
    <3>4. QED
      BY <1>0, <2>2, <2>3, <3>1, <3>2, <3>3 DEF InputsFit, Up, Asked
  <2>4. CASE ~outputPending
    <3>1. pending = <<>> /\ served = clicks /\ UNCHANGED pending /\ StartInput(in, known, "resume")
      BY <1>0, <2>1, <2>2, <2>4, EmptySeq DEF InputsFit, Up, Asked, Click, MustWait, in
    <3>2. CASE known
      BY <1>0, <2>2, <2>4, <3>1, <3>2, Processed DEF StartInput, InputsFit, Up, Asked
    <3>3. CASE ~known
      BY <1>0, <2>2, <2>4, <3>1, <3>3 DEF StartInput, InputsFit, Up, Asked
    <3>4. QED
      BY <3>2, <3>3
  <2>5. QED
    BY <1>0, <2>3, <2>4 DEF InputsFit
<1>2. CASE OnOutputContext
  <2>1. /\ outputPending /\ ~outputPending' /\ outputPending' \in BOOLEAN /\ lookup' = NoInput
        /\ main = "select" /\ UNCHANGED <<pending, clicks>> /\ Process(lookup, "resume")
    BY <1>2 DEF OnOutputContext, AfterLookup, boundVars
  <2>2. lookup \in Input /\ lookup.number = served + 1
    BY <1>0, <2>1 DEF InputsFit, Up
  <2>3. served' = served + 1 /\ (main' = "resume" \/ (main' = "send" /\ after' = "resume"))
    BY <2>1, <2>2, Processed
  <2>4. served' + Len(pending) = clicks
    BY <1>0, <2>1, <2>3 DEF InputsFit, Up, Asked
  <2>5. \A i \in 1 .. Len(pending) : pending[i].number = served' + i
    BY <1>0, <2>1, <2>3 DEF InputsFit, Up, Asked
  <2>6. QED
    BY <1>0, <2>1, <2>3, <2>4, <2>5 DEF InputsFit, Up, Asked
<1>3. CASE \E known \in BOOLEAN : Resume(known)
  <2>1. PICK known \in BOOLEAN : Resume(known)
    BY <1>3
  <2>2. main = "resume" /\ UNCHANGED clicks
    BY <2>1 DEF Resume, boundVars
  <2>3. CASE pending = <<>> \/ outputPending
    BY <1>0, <2>1, <2>2, <2>3 DEF Resume, InputsFit, Up, Asked
  <2>4. CASE pending # <<>> /\ ~outputPending
    <3>1. pending' = Tail(pending) /\ StartInput(Head(pending), known, "resume")
      BY <2>1, <2>4 DEF Resume
    <3>2. /\ Len(pending) > 0 /\ Head(pending) = pending[1]
          /\ pending' \in Seq(Input) /\ Len(pending') = Len(pending) - 1
          /\ \A i \in 1 .. Len(pending') : i + 1 \in 1 .. Len(pending) /\ pending'[i] = pending[i + 1]
      BY <1>0, <2>4, <3>1, HeadTailProperties, EmptySeq
    <3>3. 1 \in 1 .. Len(pending) /\ Head(pending) \in Input /\ Head(pending).number = served + 1
      BY <1>0, <2>2, <2>4, <3>2 DEF InputsFit, Up, Asked
    <3>4. /\ \A i \in 1 .. Len(pending') : pending'[i].number = served + 1 + i
          /\ served + 1 + Len(pending') = clicks
      <4>1. Asked = 0 /\ served + 0 + Len(pending) = clicks
            /\ \A i \in 1 .. Len(pending) : pending[i].number = served + 0 + i
        BY <1>0, <2>2, <2>4 DEF InputsFit, Up, Asked
      <4>2. served + 1 + Len(pending') = clicks
        BY <1>0, <3>2, <4>1
      <4>3. ASSUME NEW i \in 1 .. Len(pending')
            PROVE  pending'[i].number = served + 1 + i
        <5>1. pending'[i].number = served + 0 + (i + 1)
          BY <3>2, <4>1
        <5>2. QED
          BY <1>0, <3>2, <5>1
      <4>4. QED
        BY <4>2, <4>3
    <3>5. CASE known
      <4>1. served' = served + 1 /\ (main' = "resume" \/ (main' = "send" /\ after' = "resume"))
            /\ UNCHANGED <<outputPending, lookup>>
        BY <3>1, <3>3, <3>5, Processed DEF StartInput
      <4>2. QED
        BY <1>0, <2>2, <2>4, <3>2, <3>4, <4>1 DEF InputsFit, Up, Asked
    <3>6. CASE ~known
      BY <1>0, <2>2, <2>4, <3>1, <3>2, <3>3, <3>4, <3>6 DEF StartInput, InputsFit, Up, Asked
    <3>7. QED
      BY <3>5, <3>6
  <2>5. QED
    BY <2>3, <2>4
<1>4. CASE Crash
  BY <1>0, <1>4 DEF Crash, InputsFit, Up
<1>5. CASE Restart
  <2>1. /\ clicks' = clicks /\ served' = clicks /\ pending' = <<>> /\ outputPending' = FALSE
        /\ lookup' = NoInput
    BY <1>5 DEF Restart
  <2>2. <<>> \in Seq(Input) /\ Len(<<>>) = 0
    OBVIOUS
  <2>3. outputPending' \in BOOLEAN /\ ~outputPending' /\ Asked' = 0
    BY <2>1 DEF Asked
  <2>4. clicks' \in 0 .. MaxClicks /\ served' \in 0 .. clicks' /\ served' + 0 + 0 = clicks'
    BY <1>0, <2>1 DEF InputsFit
  <2>5. QED
    BY <2>1, <2>2, <2>3, <2>4 DEF InputsFit
<1>6. CASE /\ ~OnOutputContext /\ \A known \in BOOLEAN : ~Resume(known)
           /\ \A node \in Nodes, known \in BOOLEAN : ~Click(node, known)
           /\ ~Crash /\ ~Restart
  <2>1. UNCHANGED <<clicks, served, pending, outputPending, lookup>>
    BY <1>6, MainSteady
  <2>2. Up' => Up
    BY <1>6, MainSteady DEF SendDone, Exit, Up
  <2>3. (main = "resume" => main' = "resume") /\ (main = "send" => UNCHANGED <<main, after>> \/ main' = after)
    BY <1>6, MainSteady DEF SendDone, Exit
  <2>4. QED
    BY <1>0, <2>1, <2>2, <2>3 DEF InputsFit, Asked
<1>7. QED
  BY <1>1, <1>2, <1>3, <1>4, <1>5, <1>6

\* Inputs take effect in the order they arrived (main.go, startInput and
\* resumeInputs).
LEMMA ServedInOrder ==
  ASSUME PluginInv, [PluginNext]_allVars, Up, Up'
  PROVE  served' \in {served, served + 1}
<1>0. /\ InputsFit /\ clicks \in Nat /\ served \in Nat /\ Len(pending) \in Nat
      /\ pending \in Seq(Input) /\ MaxClicks \in Nat
      /\ \A i \in 1 .. Len(pending) : pending[i] \in Input
  BY PluginAssumption, LenProperties, ElementOfSeq DEF PluginInv, InputsFit
<1>1. ASSUME NEW node \in Nodes, NEW known \in BOOLEAN, Click(node, known)
      PROVE  served' \in {served, served + 1}
  <2> DEFINE in == [act |-> Meaning(node), number |-> clicks + 1]
  <2>1. in \in Input /\ in.number = clicks + 1 /\ main = "select"
    BY <1>0, <1>1 DEF Click, Meaning, Input, Act
  <2>2. outputPending => UNCHANGED served
    BY <1>1 DEF Click, MustWait
  <2>3. ~outputPending => served = clicks /\ StartInput(in, known, "resume")
    BY <1>0, <1>1, <2>1, EmptySeq DEF InputsFit, Up, Asked, Click, MustWait
  <2> HIDE DEF in
  <2>4. QED
    BY <2>1, <2>2, <2>3, Processed DEF StartInput
<1>2. CASE OnOutputContext
  <2>1. outputPending /\ main = "select" /\ Process(lookup, "resume")
    BY <1>2 DEF OnOutputContext, AfterLookup
  <2>2. lookup \in Input /\ lookup.number = served + 1
    BY <1>0, <2>1 DEF InputsFit, Up
  <2>3. QED
    BY <2>1, <2>2, Processed
<1>3. ASSUME NEW known \in BOOLEAN, Resume(known)
      PROVE  served' \in {served, served + 1}
  <2>1. CASE pending = <<>> \/ outputPending
    BY <1>3, <2>1 DEF Resume
  <2>2. CASE pending # <<>> /\ ~outputPending
    <3>1. StartInput(Head(pending), known, "resume") /\ main = "resume"
      BY <1>3, <2>2 DEF Resume
    <3>2. 1 \in 1 .. Len(pending) /\ Head(pending) = pending[1]
      BY <1>0, <2>2, HeadTailProperties, EmptySeq
    <3>3. Head(pending) \in Input /\ Head(pending).number = served + 1
      BY <1>0, <2>2, <3>1, <3>2 DEF InputsFit, Up, Asked
    <3>4. QED
      BY <3>1, <3>3, Processed DEF StartInput
  <2>3. QED
    BY <2>1, <2>2
<1>4. CASE Crash \/ Restart
  BY <1>4 DEF Crash, Restart, Up
<1>5. QED
  BY <1>1, <1>2, <1>3, <1>4, MainSteady

\* The steps that take an input, and what they leave alone.
InputStep ==
  \/ \E node \in Nodes, known \in BOOLEAN : Click(node, known)
  \/ OnOutputContext
  \/ \E known \in BOOLEAN : Resume(known)

LEMMA InputChanges ==
  ASSUME PluginInv, InputStep
  PROVE  /\ UNCHANGED <<cfgReplay, last, lastSaved, recoveryPending>>
         /\ UNCHANGED hostVars /\ UNCHANGED recorderVars
         /\ main \in {"select", "resume"} /\ Up'
         /\ stateTouched' \in BOOLEAN /\ (stateTouched => stateTouched')
         /\ \/ main' \in {"select", "resume"} /\ UNCHANGED <<outgoing, after>>
            \/ /\ main' = "send" /\ after' = "resume" /\ stateTouched'
               /\ outgoing' \in Command /\ NotRecover(outgoing')
         /\ TouchedFits'
<1>0. /\ InputsFit /\ clicks \in Nat /\ pending \in Seq(Input) /\ MaxClicks \in Nat
      /\ Len(pending) \in Nat /\ \A i \in 1 .. Len(pending) : pending[i] \in Input
      /\ stateTouched \in BOOLEAN /\ TouchedFits
  BY PluginAssumption, LenProperties, ElementOfSeq DEF PluginInv, InputsFit, HostTypes
<1>1. ASSUME NEW node \in Nodes, NEW known \in BOOLEAN, Click(node, known)
      PROVE  /\ UNCHANGED <<cfgReplay, last, lastSaved, recoveryPending>>
             /\ UNCHANGED hostVars /\ UNCHANGED recorderVars
             /\ main \in {"select", "resume"} /\ Up'
             /\ stateTouched' \in BOOLEAN /\ (stateTouched => stateTouched')
             /\ \/ main' \in {"select", "resume"} /\ UNCHANGED <<outgoing, after>>
                \/ /\ main' = "send" /\ after' = "resume" /\ stateTouched'
                   /\ outgoing' \in Command /\ NotRecover(outgoing')
             /\ TouchedFits'
  <2> DEFINE in == [act |-> Meaning(node), number |-> clicks + 1]
  <2>1. in \in Input /\ main = "select" /\ clicks' = clicks + 1
    BY <1>0, <1>1 DEF Click, Meaning, Input, Act
  <2>2. stateTouched' = (stateTouched \/ in.act # "none")
    BY <1>1, <2>1 DEF Click
  <2>3. IF outputPending
        THEN pending' = Append(pending, in) /\ UNCHANGED <<main, outgoing, after, lookup>>
        ELSE StartInput(in, known, "resume") /\ UNCHANGED pending
    BY <1>1, <2>1 DEF Click, MustWait
  <2>4. /\ UNCHANGED <<cfgReplay, last, lastSaved, recoveryPending>>
        /\ UNCHANGED hostVars /\ UNCHANGED recorderVars
    BY <1>1 DEF Click
  <2> HIDE DEF in
  <2>5. stateTouched' \in BOOLEAN /\ (stateTouched => stateTouched') /\ (in.act # "none" => stateTouched')
    BY <1>0, <2>2
  <2>6. CASE outputPending
    <3>1. /\ Len(pending') = Len(pending) + 1 /\ pending'[Len(pending) + 1] = in
          /\ \A i \in 1 .. Len(pending) : pending'[i] = pending[i]
      BY <1>0, <2>1, <2>3, <2>6, AppendProperties
    <3>2. ASSUME ~stateTouched', NEW i \in 1 .. Len(pending')
          PROVE  pending'[i].act = "none"
      BY <1>0, <2>1, <2>5, <3>1, <3>2 DEF TouchedFits, Up
    <3>3. UNCHANGED lookup /\ UNCHANGED <<main, outgoing, after>>
      BY <2>3, <2>6
    <3>4. TouchedFits'
      BY <1>0, <2>1, <2>5, <3>2, <3>3 DEF TouchedFits, Up
    <3>5. QED
      BY <2>1, <2>4, <2>5, <3>3, <3>4 DEF Up
  <2>7. CASE ~outputPending
    <3>1. StartInput(in, known, "resume") /\ UNCHANGED pending
      BY <2>3, <2>7
    <3>2. UNCHANGED lookup \/ lookup' = in
      BY <3>1 DEF StartInput
    <3>3. TouchedFits'
      BY <1>0, <2>1, <2>5, <3>1, <3>2 DEF TouchedFits, Up
    <3>4. \/ main' \in {"select", "resume"} /\ UNCHANGED <<outgoing, after>>
          \/ /\ main' = "send" /\ after' = "resume" /\ stateTouched'
             /\ outgoing' \in Command /\ NotRecover(outgoing')
      BY <2>1, <2>5, <3>1, Processed DEF StartInput
    <3>5. QED
      BY <2>1, <2>4, <2>5, <3>3, <3>4 DEF Up
  <2>8. QED
    BY <2>6, <2>7
<1>2. CASE OnOutputContext
  <2>1. /\ outputPending /\ main = "select" /\ Process(lookup, "resume") /\ lookup' = NoInput
        /\ UNCHANGED <<stateTouched, pending>>
        /\ UNCHANGED <<cfgReplay, last, lastSaved, recoveryPending>>
        /\ UNCHANGED hostVars /\ UNCHANGED recorderVars
    BY <1>2 DEF OnOutputContext, AfterLookup
  <2>2. lookup \in Input /\ (lookup.act # "none" => stateTouched)
    BY <1>0, <2>1 DEF InputsFit, Up, TouchedFits
  <2>3. TouchedFits'
    BY <1>0, <2>1 DEF TouchedFits, Up, NoInput
  <2>4. \/ main' \in {"select", "resume"} /\ UNCHANGED <<outgoing, after>>
        \/ /\ main' = "send" /\ after' = "resume" /\ stateTouched
           /\ outgoing' \in Command /\ NotRecover(outgoing')
    BY <2>1, <2>2, Processed
  <2>5. QED
    BY <1>0, <2>1, <2>3, <2>4 DEF Up
<1>3. ASSUME NEW known \in BOOLEAN, Resume(known)
      PROVE  /\ UNCHANGED <<cfgReplay, last, lastSaved, recoveryPending>>
             /\ UNCHANGED hostVars /\ UNCHANGED recorderVars
             /\ main \in {"select", "resume"} /\ Up'
             /\ stateTouched' \in BOOLEAN /\ (stateTouched => stateTouched')
             /\ \/ main' \in {"select", "resume"} /\ UNCHANGED <<outgoing, after>>
                \/ /\ main' = "send" /\ after' = "resume" /\ stateTouched'
                   /\ outgoing' \in Command /\ NotRecover(outgoing')
             /\ TouchedFits'
  <2>1. /\ main = "resume" /\ UNCHANGED stateTouched
        /\ UNCHANGED <<cfgReplay, last, lastSaved, recoveryPending>>
        /\ UNCHANGED hostVars /\ UNCHANGED recorderVars
    BY <1>3 DEF Resume
  <2>2. CASE pending = <<>> \/ outputPending
    <3>1. main' = "select" /\ UNCHANGED <<outgoing, after, lookup, pending>>
      BY <1>3, <2>2 DEF Resume
    <3>2. TouchedFits'
      BY <1>0, <2>1, <3>1 DEF TouchedFits, Up
    <3>3. QED
      BY <1>0, <2>1, <3>1, <3>2 DEF Up
  <2>3. CASE pending # <<>> /\ ~outputPending
    <3>1. pending' = Tail(pending) /\ StartInput(Head(pending), known, "resume")
      BY <1>3, <2>3 DEF Resume
    <3>2. /\ 1 \in 1 .. Len(pending) /\ Head(pending) = pending[1] /\ Head(pending) \in Input
          /\ \A i \in 1 .. Len(pending') : i + 1 \in 1 .. Len(pending) /\ pending'[i] = pending[i + 1]
      BY <1>0, <2>3, <3>1, HeadTailProperties, EmptySeq
    <3>3. Head(pending).act # "none" => stateTouched
      BY <1>0, <2>1, <3>2 DEF TouchedFits, Up
    <3>4. UNCHANGED lookup \/ lookup' = Head(pending)
      BY <3>1 DEF StartInput
    <3>5. TouchedFits'
      BY <1>0, <2>1, <3>2, <3>3, <3>4 DEF TouchedFits, Up
    <3>6. \/ main' \in {"select", "resume"} /\ UNCHANGED <<outgoing, after>>
          \/ /\ main' = "send" /\ after' = "resume" /\ stateTouched
             /\ outgoing' \in Command /\ NotRecover(outgoing')
      BY <3>1, <3>2, <3>3, Processed DEF StartInput
    <3>7. QED
      BY <1>0, <2>1, <3>5, <3>6 DEF Up
  <2>4. QED
    BY <2>2, <2>3
<1>4. QED
  BY <1>1, <1>2, <1>3 DEF InputStep

\* Where the main goroutine is, and what it is sending.
LEMMA MainNext ==
  ASSUME PluginInv, [PluginNext]_allVars
  PROVE  MainFits' /\ TouchedFits' /\ HostTypes'
<1>0. MainFits /\ TouchedFits /\ HostTypes /\ NoCommand \in Command \cup {NoCommand}
  BY DEF PluginInv
<1>1. CASE InputStep
  <2>1. /\ UNCHANGED <<recoveryPending, restore, at>> /\ stateTouched' \in BOOLEAN /\ TouchedFits'
        /\ main \in {"select", "resume"}
        /\ \/ main' \in {"select", "resume"} /\ UNCHANGED <<outgoing, after>>
           \/ main' = "send" /\ after' = "resume" /\ outgoing' \in Command
    BY <1>1, InputChanges DEF hostVars, recorderVars, loopVars
  <2>2. QED
    BY <1>0, <2>1 DEF MainFits, HostTypes, Up
<1>2. CASE Crash
  BY <1>0, <1>2 DEF Crash, MainFits, TouchedFits, HostTypes, Up, hostVars
<1>3. CASE Restart
  <2>1. /\ main' = "select" /\ outgoing' = NoCommand /\ lookup' = NoInput /\ pending' = <<>>
        /\ restore' = "asking" /\ recoveryPending' = FALSE /\ stateTouched' = FALSE
    BY <1>3 DEF Restart
  <2>2. recoveryPending' \in BOOLEAN /\ stateTouched' \in BOOLEAN /\ Len(pending') = 0
    BY <2>1
  <2>3. QED
    BY <1>0, <2>1, <2>2 DEF MainFits, TouchedFits, HostTypes, Up, NoInput
<1>4. CASE ~InputStep /\ ~Crash /\ ~Restart
  <2>1. UNCHANGED <<pending, lookup>> /\ stateTouched' = stateTouched
    BY <1>4, MainSteady DEF InputStep
  <2>2. \/ UNCHANGED <<main, outgoing, after>> /\ (Up \/ at' = at)
        \/ SendDone
        \/ /\ main = "select" /\ main' = "send" /\ after' \in {"select", "republish"}
           /\ outgoing' \in Command
        \/ /\ main \notin {"send", "resume", "exited"} /\ UNCHANGED <<outgoing, after>>
           /\ main' \in {"select", "publish", "flush", "close", "closing"}
        \/ Exit
    BY <1>4, MainSteady DEF InputStep
  <2>3. MainFits' /\ (Up' => Up)
    <3>1. CASE UNCHANGED <<main, outgoing, after>> /\ (Up \/ at' = at)
      BY <1>0, <3>1 DEF MainFits, Up
    <3>2. CASE SendDone
      BY <1>0, <3>2 DEF SendDone, MainFits, Up
    <3>3. CASE Exit
      BY <1>0, <3>3 DEF Exit, LoopDone, MainFits, Up, recorderVars, loopVars
    <3>4. CASE \/ /\ main = "select" /\ main' = "send" /\ after' \in {"select", "republish"}
                  /\ outgoing' \in Command
               \/ /\ main \notin {"send", "resume", "exited"} /\ UNCHANGED <<outgoing, after>>
                  /\ main' \in {"select", "publish", "flush", "close", "closing"}
      BY <1>0, <3>4 DEF MainFits, Up
    <3>5. QED
      BY <2>2, <3>1, <3>2, <3>3, <3>4
  <2>4. recoveryPending' \in BOOLEAN /\ restore' \in {"asking", "found", "done"}
    BY <1>0, <1>4 DEF InputStep, PluginNext, RecorderSteps, MainSteps, SendDone, PublishEnds, Republish,
       Publish, Flush, CloseRecorder, Exit, OnUpdate, OnRestore, OnRecovered, Refresh, OnSettings,
       Shutdown, RestoreReply, HostStores, allVars, pluginVars, mainVars, hostVars, HostTypes
  <2>5. QED
    BY <1>0, <2>1, <2>3, <2>4 DEF TouchedFits, HostTypes
<1>5. QED
  BY <1>1, <1>2, <1>3, <1>4

\* The screen shows the mode, or an update waits.
LEMMA ViewNext ==
  ASSUME PluginInv, [PluginNext]_allVars
  PROVE  ViewFits'
<1>0. ViewFits /\ UpdatesFit /\ RecorderInv
  BY DEF PluginInv, RecorderInv
<1>1. CASE RecorderSteps
  BY <1>0, <1>1, LoopChanges DEF RecorderSteps, ChildExits, loopVars, pluginVars, mainVars, ViewFits
<1>2. CASE SendDone \/ CloseRecorder
  BY <1>0, <1>2 DEF SendDone, Send, CloseRecorder, CloseQuit, ViewFits
<1>3. CASE OnUpdate
  <2>1. updates = <<mode>> /\ Head(updates) = mode /\ mode' = mode
    BY <1>0, <1>3 DEF OnUpdate, UpdatesFit
  <2>2. QED
    BY <1>3, <2>1 DEF OnUpdate, Publish, ViewFits, pluginVars, mainVars
<1>4. CASE Refresh \/ Republish
  BY <1>4 DEF Refresh, Republish, Publish, ViewFits, recorderVars, loopVars
<1>5. CASE Crash \/ Restart
  BY <1>0, <1>5 DEF Crash, Restart, ViewFits
<1>6. CASE PublishEnds \/ Flush \/ Exit \/ OnRestore \/ OnRecovered \/ OnSettings \/ Shutdown
           \/ RestoreReply \/ HostStores \/ UNCHANGED allVars
  BY <1>0, <1>6 DEF PublishEnds, Flush, Exit, OnRestore, OnRecovered, OnSettings, Shutdown,
     RestoreReply, HostStores, allVars, pluginVars, mainVars, recorderVars, loopVars, ViewFits
<1>7. CASE InputStep
  BY <1>0, <1>7, InputChanges DEF recorderVars, loopVars, ViewFits
<1>8. QED
  BY <1>1, <1>2, <1>3, <1>4, <1>5, <1>6, <1>7 DEF PluginNext, MainSteps, InputStep

\* The three places where an ownership is kept, and how it gets from one to the other.
Leaving == {"close", "closing", "exited"}

LEMMA HostChanges ==
  ASSUME PluginInv, [PluginNext]_allVars
  PROVE  /\ \/ UNCHANGED <<lastSaved, unsaved, stored>>
            \/ lastSaved' = own /\ unsaved' = own /\ UNCHANGED stored /\ own' = own
            \/ HostStores
            \/ OnRestore /\ MayAdopt /\ lastSaved' = found /\ UNCHANGED <<unsaved, stored>>
            \/ Flush
            \/ Restart
         /\ found' \in {found, stored, NoOwner}
         /\ main \in Leaving => main' \in Leaving \/ Restart
         /\ started' \in {started, started + 1}
<1>0. RecorderInv
  BY DEF PluginInv
<1>1. CASE RecorderSteps
  BY <1>0, <1>1, LoopChanges DEF RecorderSteps, ChildExits, pluginVars, mainVars, hostVars
<1>2. CASE SendDone \/ CloseRecorder
  BY <1>0, <1>2 DEF SendDone, Send, CloseRecorder, CloseQuit, hostVars, procVars, Leaving
<1>3. CASE OnUpdate
  BY <1>3 DEF OnUpdate, Publish, pluginVars, mainVars, hostVars, procVars, Leaving
<1>4. CASE Refresh \/ Republish \/ Exit \/ OnSettings \/ Shutdown \/ UNCHANGED allVars
  BY <1>4 DEF Refresh, Republish, Publish, Exit, OnSettings, Shutdown, recorderVars, loopVars, procVars,
     allVars, pluginVars, mainVars, hostVars, Leaving
<1>5. CASE PublishEnds \/ OnRecovered
  BY <1>5 DEF PublishEnds, OnRecovered, SaveChangedOwnership, recorderVars, loopVars, procVars, Leaving
<1>6. CASE Flush
  BY <1>6 DEF Flush, recorderVars, procVars, Leaving
<1>7. CASE OnRestore
  BY <1>7 DEF OnRestore, recorderVars, procVars, Leaving
<1>8. CASE RestoreReply \/ HostStores
  BY <1>8 DEF RestoreReply, HostStores, mainVars, recorderVars, procVars
<1>9. CASE Crash \/ Restart
  BY <1>9 DEF Crash, Restart, hostVars, Leaving
<1>10. CASE InputStep
  BY <1>10, InputChanges DEF hostVars, recorderVars, procVars, Leaving
<1>11. QED
  BY <1>1, <1>2, <1>3, <1>4, <1>5, <1>6, <1>7, <1>8, <1>9, <1>10 DEF PluginNext, MainSteps, InputStep

\* Every ownership names a process that was started, or the replay buffer.
LEMMA OwnKnown == RecorderInv => own \in Known
BY DEF RecorderInv, TypeOK, OwnerFits, ProcsFit, Args, Known

LEMMA KnownNext ==
  ASSUME PluginInv, [PluginNext]_allVars
  PROVE  KnownFits'
<1>1. own' \in Known'
  <2>1. (RecorderInv => own \in Known)'
    BY OwnKnown, PTL
  <2>2. QED
    BY <2>1, RecorderNext
<1>2. Known \subseteq Known'
  BY HostChanges DEF PluginInv, RecorderInv, TypeOK, Known
<1>3. /\ {own, lastSaved, stored, found} \subseteq Known /\ unsaved \in Known \cup {NothingUnsaved}
      /\ NoOwner \in Known
  BY DEF PluginInv, KnownFits, Known
<1>4. /\ lastSaved' \in Known /\ stored' \in Known /\ found' \in Known
      /\ unsaved' \in Known \cup {NothingUnsaved}
  BY <1>3, HostChanges DEF HostStores, OnRestore, Flush, Restart, mainVars
<1>5. QED
  BY <1>1, <1>2, <1>4 DEF KnownFits

\* What was saved last is what a later incarnation will be told.
LEMMA SavedNext ==
  ASSUME PluginInv, [PluginNext]_allVars
  PROVE  SavedFits'
<1>0. /\ SavedFits /\ own # NothingUnsaved /\ RestoreFits
      /\ main \in Leaving => main' \in Leaving \/ Restart
  BY RecorderAssumption, KnownOwner, HostChanges DEF PluginInv, Owner, NothingUnsaved
<1>1. CASE UNCHANGED <<lastSaved, unsaved, stored>>
  BY <1>0, <1>1 DEF SavedFits, Saving, Leaving, Restart
<1>2. CASE lastSaved' = own /\ unsaved' = own /\ UNCHANGED stored /\ own' = own
  BY <1>0, <1>2 DEF SavedFits, Saving
<1>3. CASE HostStores
  BY <1>0, <1>3 DEF HostStores, SavedFits, Saving, mainVars
<1>4. CASE OnRestore /\ MayAdopt /\ lastSaved' = found /\ UNCHANGED <<unsaved, stored>>
  <2>1. found = stored /\ unsaved = NothingUnsaved
    BY <1>0, <1>4 DEF OnRestore, MayAdopt, RestoreFits, Up
  <2>2. QED
    BY <1>4, <2>1 DEF SavedFits, Saving
<1>5. CASE Flush
  BY <1>5 DEF Flush, SavedFits
<1>6. CASE Restart
  BY <1>6 DEF Restart, SavedFits
<1>7. QED
  BY <1>1, <1>2, <1>3, <1>4, <1>5, <1>6, HostChanges

\* Every change of the ownership is followed by a publish that saves it.
LEMMA PublishNext ==
  ASSUME PluginInv, [PluginNext]_allVars
  PROVE  PublishDue'
<1>0. PublishDue /\ UpdatesFit /\ RecorderInv /\ LoopFits
  BY DEF PluginInv, RecorderInv
<1>1. CASE RecorderSteps
  <2>1. UNCHANGED <<recoveryPending, lastSaved, main>>
    BY <1>1 DEF RecorderSteps, pluginVars, mainVars
  <2>2. CASE Loop
    BY <1>0, <2>1, <2>2, LoopChanges DEF PublishDue
  <2>3. CASE \E p \in Procs : ChildExits(p)
    BY <1>0, <2>1, <2>3 DEF ChildExits, loopVars, PublishDue
  <2>4. QED
    BY <1>1, <2>2, <2>3 DEF RecorderSteps
<1>2. CASE SendDone \/ CloseRecorder
  BY <1>0, <1>2 DEF SendDone, Send, CloseRecorder, CloseQuit, PublishDue
<1>3. CASE OnUpdate
  <2>1. updates = <<mode>> /\ Head(updates) = mode
    BY <1>0, <1>3 DEF OnUpdate, UpdatesFit
  <2>2. CASE Publish
    BY <2>2 DEF Publish, PublishDue
  <2>3. CASE Head(updates) = last /\ last \notin Live
    <3>1. ~(proc # 0 /\ at \in Resting)
      BY <1>0, <2>1, <2>3 DEF LoopFits
    <3>2. QED
      BY <1>3, <3>1 DEF OnUpdate, PublishDue
  <2>4. QED
    BY <1>3, <2>2, <2>3 DEF OnUpdate
<1>4. CASE Refresh \/ Republish
  BY <1>4 DEF Refresh, Republish, Publish, PublishDue
<1>5. CASE PublishEnds
  <2>1. recoveryPending' = recoveryPending /\ (~recoveryPending => own' = lastSaved')
    BY <1>5 DEF PublishEnds, MaySave, SaveChangedOwnership, OwnershipChanged, recorderVars, loopVars
  <2>2. QED
    BY <2>1 DEF PublishDue
<1>6. CASE OnRecovered
  BY <1>6 DEF OnRecovered, SaveChangedOwnership, OwnershipChanged, recorderVars, loopVars, PublishDue
<1>7. CASE OnRestore
  BY <1>0, <1>7 DEF OnRestore, recorderVars, loopVars, PublishDue
<1>8. CASE Crash \/ Restart
  BY <1>8 DEF Crash, Restart, PublishDue, Resting
<1>9. CASE Flush \/ Exit \/ OnSettings \/ Shutdown \/ RestoreReply \/ HostStores \/ UNCHANGED allVars
  BY <1>0, <1>9 DEF Flush, Exit, OnSettings, Shutdown, RestoreReply, HostStores, allVars, pluginVars,
     mainVars, recorderVars, loopVars, PublishDue
<1>10. CASE InputStep
  BY <1>0, <1>10, InputChanges DEF recorderVars, loopVars, PublishDue
<1>11. QED
  BY <1>1, <1>2, <1>3, <1>4, <1>5, <1>6, <1>7, <1>8, <1>9, <1>10 DEF PluginNext, MainSteps, InputStep

\* The channel in terms of the one command it may hold.
LEMMA Queue ==
  TypeOK =>
    /\ cmds = <<>> => AllPlain /\ NoneRecovers
    /\ cmds # <<>> => (AllPlain <=> Plain(cmds[1])) /\ (NoneRecovers <=> NotRecover(cmds[1]))
<1>1. ASSUME TypeOK, cmds = <<>>
      PROVE  AllPlain /\ NoneRecovers
  BY <1>1, CmdsFacts DEF AllPlain, NoneRecovers
<1>2. ASSUME TypeOK, cmds # <<>>
      PROVE  (AllPlain <=> Plain(cmds[1])) /\ (NoneRecovers <=> NotRecover(cmds[1]))
  <2>1. Len(cmds) = 1
    BY <1>2, CmdsFacts
  <2>2. 1 .. Len(cmds) = {1}
    BY <2>1
  <2>3. QED
    BY <2>2 DEF AllPlain, NoneRecovers
<1>3. QED
  BY <1>1, <1>2

\* The send puts the command alone in the channel.
LEMMA Sent ==
  ASSUME PluginInv, SendDone
  PROVE  /\ cmds = <<>> /\ cmds' # <<>> /\ cmds' = <<outgoing>> /\ cmds'[1] = outgoing /\ Len(cmds') = 1
         /\ main = "send" /\ outgoing' = NoCommand
         /\ AllPlain' <=> Plain(outgoing)
         /\ NoneRecovers' <=> NotRecover(outgoing)
         /\ UNCHANGED <<mode, own, proc, at, next, cmd, recovered>>
         /\ UNCHANGED <<lastSaved, stateTouched, recoveryPending, restore, found, unsaved, stored>>
<1>1. TypeOK /\ TypeOK' /\ main = "send" /\ outgoing \in Command
  BY RecorderNext DEF PluginInv, RecorderInv, MainFits, SendDone, PluginNext, MainSteps
<1>2. cmds = <<>> /\ cmds' = Append(cmds, outgoing)
  BY <1>1, EmptySeq DEF SendDone, Send, HasRoom, TypeOK
<1>3. cmds' = <<outgoing>> /\ cmds'[1] = outgoing /\ cmds' # <<>> /\ Len(cmds') = 1
  BY <1>2
<1>4. (TypeOK /\ cmds # <<>> => (AllPlain <=> Plain(cmds[1])) /\ (NoneRecovers <=> NotRecover(cmds[1])))'
  BY Queue, PTL
<1>5. (AllPlain' <=> Plain(outgoing)) /\ (NoneRecovers' <=> NotRecover(outgoing))
  BY <1>1, <1>3, <1>4 DEF Plain, NotRecover
<1>6. QED
  BY <1>1, <1>2, <1>3, <1>5 DEF SendDone, Send, hostVars

\* What the queue holds after a step of the loop.
LEMMA QueueStep ==
  ASSUME RecorderInv, Loop
  PROVE  /\ AllPlain => AllPlain'
         /\ NoneRecovers => NoneRecovers'
         /\ AllPlain /\ Plain(cmd) => Plain(cmd')
         /\ NoneRecovers /\ NotRecover(cmd) => NotRecover(cmd')
<1>1. TypeOK /\ TypeOK'
  BY LoopStep DEF RecorderInv
<1>2. (TypeOK =>
         /\ cmds = <<>> => AllPlain /\ NoneRecovers
         /\ cmds # <<>> => (AllPlain <=> Plain(cmds[1])) /\ (NoneRecovers <=> NotRecover(cmds[1])))'
  BY Queue, PTL
<1>3. Plain(NoCommand) /\ NotRecover(NoCommand)
  BY DEF Plain, NotRecover, NoCommand
<1>4. CASE UNCHANGED cmds /\ (UNCHANGED cmd \/ cmd' = NoCommand)
  BY <1>3, <1>4 DEF AllPlain, NoneRecovers
<1>5. CASE cmds # <<>> /\ cmd' = cmds[1] /\ cmds' = <<>>
  BY <1>1, <1>2, <1>5, Queue
<1>6. CASE cmd' = cmd /\ cmds' = <<>>
  BY <1>1, <1>2, <1>6
<1>7. QED
  BY <1>4, <1>5, <1>6, CommandChanges

\* A fresh recorder whose commands are all plain stays fresh.
LEMMA PlainIsNoToggle == ASSUME NEW c, Plain(c) PROVE c \notin Toggle /\ NotRecover(c)
BY DEF Plain, Toggle, NotRecover

\* Before the restore is answered nothing was recovered, and nothing but an
\* input makes the recorder do anything.
LEMMA RestoreNext ==
  ASSUME PluginInv, [PluginNext]_allVars
  PROVE  RestoreFits'
<1>0. /\ RecorderInv /\ RestoreFits /\ RecoverFits /\ HostTypes
      /\ Plain(NoCommand) /\ NoCommand \notin Toggle
  BY DEF PluginInv, Plain, NoCommand, Toggle
<1>1. CASE RecorderSteps
  <2>1. UNCHANGED <<main, outgoing, restore, stateTouched, recoveryPending, lastSaved, unsaved, found, stored>>
    BY <1>1 DEF RecorderSteps, pluginVars, mainVars, hostVars
  <2>2. CASE Loop
    <3> SUFFICES ASSUME Up', restore' \in {"asking", "found"}
                 PROVE  /\ ~recovered'
                        /\ ~stateTouched' => Fresh' /\ Plain(cmd') /\ AllPlain'
      BY <1>0, <2>1 DEF RestoreFits, Up
    <3>1. Up /\ restore \in {"asking", "found"} /\ ~recovered /\ ~recoveryPending
      BY <1>0, <2>1 DEF RestoreFits, Up
    <3>2. NotRecover(cmd)
      BY <1>0, <3>1 DEF RecoverFits, Recovering
    <3>3. ~recovered'
      BY <1>0, <2>2, <3>1, <3>2, CommandChanges DEF NotRecover
    <3>4. ASSUME ~stateTouched'
          PROVE  Fresh' /\ Plain(cmd') /\ AllPlain'
      <4>1. Fresh /\ Plain(cmd) /\ AllPlain
        BY <1>0, <2>1, <3>1, <3>4 DEF RestoreFits
      <4>2. \A i \in 1 .. Len(cmds) : cmds[i] \notin Toggle
        BY <4>1, PlainIsNoToggle DEF AllPlain
      <4>3. QED
        BY <1>0, <2>2, <4>1, <4>2, FreshStep, QueueStep
    <3>5. QED
      BY <3>3, <3>4
  <2>3. CASE \E p \in Procs : ChildExits(p)
    BY <1>0, <2>1, <2>3 DEF ChildExits, loopVars, RestoreFits, Fresh, AllPlain, Up
  <2>4. QED
    BY <1>1, <2>2, <2>3 DEF RecorderSteps
<1>2. CASE SendDone
  <2>1. Up
    BY <1>2 DEF SendDone, Up
  <2>2. QED
    BY <1>0, <1>2, <2>1, Sent DEF RestoreFits, Fresh
<1>3. CASE OnSettings
  <2>1. Plain(outgoing') /\ main = "select"
    BY <1>3 DEF OnSettings, Call, Plain
  <2>2. QED
    BY <1>0, <1>3, <2>1
    DEF OnSettings, hostVars, recorderVars, loopVars, RestoreFits, Fresh, AllPlain, Up
<1>4. CASE InputStep
  <2>1. UNCHANGED <<lastSaved, recoveryPending, restore, found, unsaved, stored>>
        /\ UNCHANGED recorderVars /\ Up /\ (~stateTouched' => ~stateTouched /\ UNCHANGED outgoing)
    BY <1>0, <1>4, InputChanges DEF hostVars, Up, HostTypes
  <2>2. QED
    BY <1>0, <2>1 DEF recorderVars, loopVars, RestoreFits, Fresh, AllPlain
<1>5. CASE RestoreReply
  BY <1>0, <1>5 DEF RestoreReply, mainVars, recorderVars, loopVars, RestoreFits, Fresh, AllPlain
<1>6. CASE OnRestore
  BY <1>6 DEF OnRestore, RestoreFits
<1>7. CASE OnRecovered
  BY <1>0, <1>7 DEF OnRecovered, RestoreFits, recorderVars, loopVars, Up
<1>8. CASE PublishEnds
  <2>1. ASSUME Up, restore \in {"asking", "found"}, ~stateTouched
        PROVE  UNCHANGED <<lastSaved, unsaved>>
    BY <1>0, <1>8, <2>1
    DEF PublishEnds, SaveChangedOwnership, OwnershipChanged, RestoreFits, Fresh
  <2>2. QED
    BY <1>0, <1>8, <2>1 DEF PublishEnds, RestoreFits, recorderVars, loopVars, Fresh, AllPlain, Up
<1>9. CASE HostStores \/ Flush
  BY <1>0, <1>9 DEF HostStores, Flush, mainVars, RestoreFits, recorderVars, loopVars, Fresh, AllPlain, Up
<1>10. CASE Crash
  BY <1>10 DEF Crash, RestoreFits, Up
<1>11. CASE Restart
  <2>1. /\ mode' \in {"idle", "unavailable"} /\ proc' = 0 /\ own' = NoOwner /\ at' = "select"
        /\ cmd' = NoCommand /\ outgoing' = NoCommand /\ cmds' = <<>> /\ recovered' = FALSE
        /\ recoveryPending' = FALSE /\ lastSaved' = NoOwner /\ unsaved' = NothingUnsaved
        /\ restore' = "asking"
    BY <1>11 DEF Restart
  <2>2. ~recovered' /\ ~recoveryPending' /\ Fresh' /\ Len(cmds') = 0
    BY <2>1 DEF Fresh
  <2>3. AllPlain'
    BY <2>2 DEF AllPlain
  <2>4. QED
    BY <1>0, <2>1, <2>2, <2>3 DEF RestoreFits, Plain
<1>12. CASE OnUpdate \/ CloseRecorder
  BY <1>0, <1>12
  DEF OnUpdate, Publish, CloseRecorder, CloseQuit, pluginVars, mainVars, hostVars, RestoreFits, Fresh, AllPlain, Up
<1>13. CASE Refresh \/ Republish \/ Exit \/ Shutdown \/ UNCHANGED allVars
  BY <1>0, <1>13
  DEF Refresh, Republish, Publish, Exit, Shutdown, allVars, pluginVars, mainVars, hostVars, recorderVars,
      loopVars, RestoreFits, Fresh, AllPlain, Up
<1>14. QED
  BY <1>1, <1>2, <1>3, <1>4, <1>5, <1>6, <1>7, <1>8, <1>9, <1>10, <1>11, <1>12, <1>13
  DEF PluginNext, MainSteps, InputStep

\* The one Recover goes through the caller, the channel and the loop, and the
\* recorder is fresh until it is handled.
LEMMA RecoverStep ==
  ASSUME PluginInv, Loop, UNCHANGED pluginVars
  PROVE  RecoverFits'
<1>0. RecorderInv /\ RecoverFits /\ TypeOK
  BY DEF PluginInv, RecorderInv
<1>1. UNCHANGED <<main, outgoing, restore, recoveryPending, lastSaved>>
  BY DEF pluginVars, mainVars, hostVars
<1>2. Plain(NoCommand) /\ NotRecover(NoCommand)
  BY DEF Plain, NotRecover, NoCommand
<1>3. TheRecover \notin Toggle /\ TheRecover # NoCommand /\ ~NotRecover(TheRecover)
  BY DEF TheRecover, Toggle, NoCommand, NotRecover
<1> SUFFICES ASSUME Up
             PROVE  RecoverFits'
  BY <1>1 DEF RecoverFits, Up
<1>4. CASE Recovering
  <2>1. Fresh /\ lastSaved # NoOwner /\ restore = "done" /\ recoveryPending /\ ~recovered
    BY <1>0, <1>4 DEF RecoverFits, Recovering
  <2>2. CASE main = "send" /\ outgoing = TheRecover /\ AllPlain /\ Plain(cmd)
    <3>1. \A i \in 1 .. Len(cmds) : cmds[i] \notin Toggle
      BY <2>2, PlainIsNoToggle DEF AllPlain
    <3>2. Fresh' /\ recovered' = recovered /\ AllPlain' /\ Plain(cmd')
      BY <1>0, <2>1, <2>2, <3>1, FreshStep, QueueStep
    <3>3. QED
      BY <1>1, <1>4, <2>1, <2>2, <3>2 DEF RecoverFits, Recovering, TheRecover
  <2>3. CASE NotRecover(outgoing) /\ cmds = <<TheRecover>> /\ Plain(cmd)
    <3>1. cmds # <<>> /\ Len(cmds) = 1 /\ cmds[1] = TheRecover
      BY <2>3
    <3>2. \A i \in 1 .. Len(cmds) : cmds[i] \notin Toggle
      BY <1>3, <3>1
    <3>3. Fresh' /\ recovered' = recovered /\ at # "drain"
      BY <1>0, <2>1, <2>3, <3>2, FreshStep
    <3>4. CASE cmds' = cmds /\ (cmd' = cmd \/ cmd' = NoCommand)
      BY <1>1, <1>2, <1>4, <2>1, <2>3, <3>3, <3>4 DEF RecoverFits, Recovering, TheRecover
    <3>5. CASE Receive /\ cmd' = cmds[1] /\ cmds' = <<>>
      <4>1. at' = "handle"
        BY <1>0, <1>3, <3>1, <3>5, CmdsFacts DEF Receive
      <4>2. NoneRecovers'
        BY <3>5 DEF NoneRecovers
      <4>3. QED
        BY <1>1, <1>4, <2>1, <2>3, <3>1, <3>3, <3>5, <4>1, <4>2 DEF RecoverFits, Recovering, TheRecover
    <3>6. QED
      BY <1>0, <3>3, <3>4, <3>5, CommandChanges
  <2>4. CASE NotRecover(outgoing) /\ NoneRecovers /\ cmd = TheRecover /\ at = "handle"
    <3>1. cmd.kind = "recover"
      BY <2>4 DEF TheRecover
    <3>2. Recover
      BY <1>3, <2>1, <2>4, <3>1 DEF Loop, Receive, DrainOne, DrainEnd, ToggleStops, ToggleStarts,
         ToggleFails, ToggleIgnored, BecomesReady, NeverReady, Announce, Halt, Verified, Unverified,
         Settle, SaveReplay, ReplaySaved, ReplayNotSaved, Retry, Reconfig, OnExit, Quit
    <3>3. recovered' = TRUE /\ cmd' = NoCommand /\ cmds' = cmds
      BY <3>2 DEF Recover
    <3>4. NoneRecovers' /\ ~Recovering'
      BY <2>4, <3>3 DEF NoneRecovers, Recovering
    <3>5. QED
      BY <1>1, <1>2, <2>4, <3>3, <3>4 DEF RecoverFits
  <2>5. QED
    BY <1>0, <1>4, <2>2, <2>3, <2>4 DEF RecoverFits
<1>5. CASE ~Recovering
  <2>1. NotRecover(outgoing) /\ NoneRecovers /\ NotRecover(cmd)
    BY <1>0, <1>5 DEF RecoverFits
  <2>2. recovered' = recovered
    BY <1>0, <2>1, CommandChanges DEF NotRecover
  <2>3. NoneRecovers' /\ NotRecover(cmd')
    BY <1>0, <2>1, QueueStep
  <2>4. QED
    BY <1>1, <1>5, <2>1, <2>2, <2>3 DEF RecoverFits, Recovering
<1>6. QED
  BY <1>4, <1>5

LEMMA RecoverNext ==
  ASSUME PluginInv, [PluginNext]_allVars
  PROVE  RecoverFits'
<1>0. /\ RecorderInv /\ RestoreFits /\ RecoverFits /\ HostTypes /\ TypeOK
      /\ Plain(NoCommand) /\ NotRecover(NoCommand)
  BY DEF PluginInv, RecorderInv, Plain, NotRecover, NoCommand
<1>1. CASE RecorderSteps
  <2>1. CASE \E p \in Procs : ChildExits(p)
    BY <1>0, <1>1, <2>1
    DEF RecorderSteps, ChildExits, loopVars, pluginVars, mainVars, hostVars, RecoverFits, Recovering,
        Fresh, AllPlain, NoneRecovers, TheRecover, Up
  <2>2. QED
    BY <1>1, <2>1, RecoverStep DEF RecorderSteps
<1>2. CASE SendDone
  <2>1. Up
    BY <1>2 DEF SendDone, Up
  <2>2. UNCHANGED <<lastSaved, recoveryPending, recovered, restore, cmd, at>> /\ outgoing' = NoCommand
        /\ Fresh' = Fresh /\ cmds = <<>> /\ cmds' = <<outgoing>>
    BY <1>2, Sent DEF Fresh
  <2>3. CASE Recovering
    <3>1. Fresh /\ lastSaved # NoOwner /\ restore = "done"
      BY <1>0, <2>1, <2>3 DEF RecoverFits
    <3>2. CASE outgoing = TheRecover /\ Plain(cmd)
      BY <1>0, <2>2, <2>3, <3>1, <3>2 DEF RecoverFits, Recovering, TheRecover
    <3>3. CASE NotRecover(outgoing) /\ cmd = TheRecover /\ at = "handle"
      <4>1. NoneRecovers'
        BY <1>2, <3>3, Sent
      <4>2. QED
        BY <1>0, <2>2, <2>3, <3>1, <3>3, <4>1 DEF RecoverFits, Recovering, TheRecover
    <3>4. cmds # <<TheRecover>>
      BY <2>2
    <3>5. QED
      BY <1>0, <2>1, <2>3, <3>2, <3>3, <3>4 DEF RecoverFits
  <2>4. CASE ~Recovering
    <3>1. NotRecover(outgoing) /\ NotRecover(cmd)
      BY <1>0, <2>1, <2>4 DEF RecoverFits
    <3>2. NoneRecovers'
      BY <1>2, <3>1, Sent
    <3>3. QED
      BY <1>0, <2>2, <2>4, <3>1, <3>2 DEF RecoverFits, Recovering
  <2>5. QED
    BY <2>3, <2>4
<1>3. CASE OnRestore
  <2>1. CASE MayAdopt
    <3>1. /\ main = "select" /\ restore = "found" /\ ~stateTouched /\ restore' = "done"
          /\ lastSaved' = found /\ recoveryPending' = TRUE /\ main' = "send"
          /\ outgoing' = [kind |-> "recover", own |-> found] /\ UNCHANGED recorderVars
      BY <1>3, <2>1 DEF OnRestore, MayAdopt, Call
    <3>2. /\ ~recovered /\ found # NoOwner /\ Fresh /\ Plain(cmd) /\ AllPlain
      BY <1>0, <3>1 DEF RestoreFits, Up
    <3>3. Fresh' /\ Plain(cmd') /\ AllPlain' /\ ~recovered' /\ recoveryPending'
      BY <3>1, <3>2 DEF Fresh, AllPlain, recorderVars, loopVars
    <3>4. QED
      BY <3>1, <3>2, <3>3 DEF RecoverFits, Recovering, TheRecover
  <2>2. CASE ~MayAdopt
    BY <1>0, <1>3, <2>2
    DEF OnRestore, RecoverFits, Recovering, Fresh, AllPlain, NoneRecovers, TheRecover, Up, recorderVars, loopVars
  <2>3. QED
    BY <2>1, <2>2
<1>4. CASE OnSettings
  <2>1. NotRecover(outgoing') /\ main = "select"
    BY <1>4 DEF OnSettings, Call, NotRecover
  <2>2. QED
    BY <1>0, <1>4, <2>1
    DEF OnSettings, hostVars, recorderVars, loopVars, RecoverFits, Recovering, Fresh, AllPlain,
        NoneRecovers, TheRecover, Up
<1>5. CASE InputStep
  <2>1. /\ UNCHANGED <<lastSaved, recoveryPending, restore>> /\ UNCHANGED recorderVars
        /\ Up /\ main # "send" /\ (UNCHANGED outgoing \/ NotRecover(outgoing'))
    BY <1>5, InputChanges DEF hostVars, Up
  <2>2. QED
    BY <1>0, <2>1
    DEF recorderVars, loopVars, RecoverFits, Recovering, Fresh, AllPlain, NoneRecovers, TheRecover
<1>6. CASE PublishEnds \/ OnRecovered
  <2>1. /\ UNCHANGED outgoing /\ UNCHANGED recorderVars /\ UNCHANGED restore /\ Up /\ main # "send"
        /\ \/ ~Recovering /\ ~Recovering'
           \/ UNCHANGED <<lastSaved, recoveryPending>>
    BY <1>0, <1>6
    DEF PublishEnds, MaySave, OnRecovered, Recovering, HostTypes, Up, recorderVars, loopVars
  <2>2. QED
    BY <1>0, <2>1
    DEF recorderVars, loopVars, RecoverFits, Recovering, Fresh, AllPlain, NoneRecovers, TheRecover
<1>7. CASE RestoreReply
  BY <1>0, <1>7
  DEF RestoreReply, mainVars, recorderVars, loopVars, RecoverFits, Recovering, Fresh, AllPlain,
      NoneRecovers, TheRecover, Up
<1>8. CASE Crash
  BY <1>8 DEF Crash, RecoverFits, Up
<1>9. CASE Restart
  <2>1. outgoing' = NoCommand /\ cmd' = NoCommand /\ cmds' = <<>> /\ recoveryPending' = FALSE
    BY <1>9 DEF Restart
  <2>2. NoneRecovers' /\ ~Recovering'
    BY <2>1 DEF NoneRecovers, Recovering
  <2>3. QED
    BY <1>0, <2>1, <2>2 DEF RecoverFits
<1>10. CASE OnUpdate \/ CloseRecorder
  BY <1>0, <1>10
  DEF OnUpdate, Publish, CloseRecorder, CloseQuit, pluginVars, mainVars, hostVars, RecoverFits,
      Recovering, Fresh, AllPlain, NoneRecovers, TheRecover, Up
<1>11. CASE Refresh \/ Republish \/ Exit \/ Shutdown \/ HostStores \/ Flush \/ UNCHANGED allVars
  BY <1>0, <1>11
  DEF Refresh, Republish, Publish, Exit, Shutdown, HostStores, Flush, allVars, pluginVars, mainVars,
      hostVars, recorderVars, loopVars, RecoverFits, Recovering, Fresh, AllPlain, NoneRecovers,
      TheRecover, Up
<1>12. QED
  BY <1>1, <1>2, <1>3, <1>4, <1>5, <1>6, <1>7, <1>8, <1>9, <1>10, <1>11
  DEF PluginNext, MainSteps, InputStep

\* The plugin's invariant, of the first incarnation and in every step.
LEMMA PluginStarts == PluginInit => PluginInv
<1> SUFFICES ASSUME PluginInit
             PROVE  PluginInv
  OBVIOUS
<1>1. /\ NewLoop /\ NewMain /\ started = 0 /\ alive = {} /\ replays = {} /\ clicks = 0 /\ stored = NoOwner
      /\ MaxProcs \in Nat /\ MaxClicks \in Nat
  BY RecorderAssumption, PluginAssumption DEF PluginInit
<1>2. RecorderInv
  BY <1>1, NewLoopInv DEF NewBeside
<1>3. /\ main = "select" /\ outgoing = NoCommand /\ lookup = NoInput /\ pending = <<>> /\ served = 0
      /\ last = mode /\ lastSaved = NoOwner /\ found = NoOwner /\ unsaved = NothingUnsaved
      /\ restore = "asking" /\ clicks = 0
  BY <1>1 DEF NewMain
<1>4. outputPending = FALSE /\ stateTouched = FALSE /\ recoveryPending = FALSE
  BY <1>1 DEF NewMain
<1>5. /\ outputPending \in BOOLEAN /\ ~outputPending /\ stateTouched \in BOOLEAN
      /\ recoveryPending \in BOOLEAN /\ ~recoveryPending
  BY <1>4
<1>6. /\ proc = 0 /\ own = NoOwner /\ cmd = NoCommand /\ cmds = <<>> /\ updates = <<>> /\ at = "select"
      /\ mode \in {"idle", "unavailable"}
  BY <1>1 DEF NewLoop
<1>7. recovered \in BOOLEAN /\ ~recovered
  <2>1. recovered = FALSE
    BY <1>1 DEF NewLoop
  <2>2. QED
    BY <2>1
<1>8. Plain(NoCommand) /\ NotRecover(NoCommand) /\ AllPlain /\ NoneRecovers
  BY <1>6 DEF Plain, NotRecover, NoCommand, AllPlain, NoneRecovers
<1>9. MainFits /\ ViewFits /\ SavedFits /\ PublishDue /\ HostTypes
  BY <1>3, <1>5, <1>6 DEF MainFits, ViewFits, SavedFits, PublishDue, HostTypes, Up
<1>10. KnownFits
  BY <1>1, <1>3, <1>6 DEF KnownFits, Known
<1>11. InputsFit
  <2>1. <<>> \in Seq(Input) /\ Len(<<>>) = 0 /\ Asked = 0
    BY <1>5 DEF Asked
  <2>2. clicks \in 0 .. MaxClicks /\ served \in 0 .. clicks
    BY <1>1, <1>3
  <2>3. QED
    BY <1>3, <1>5, <2>1, <2>2 DEF InputsFit
<1>12. TouchedFits
  BY <1>3 DEF TouchedFits, NoInput
<1>13. RestoreFits /\ RecoverFits
  BY <1>3, <1>5, <1>6, <1>7, <1>8 DEF RestoreFits, RecoverFits, Recovering, Fresh
<1>14. QED
  BY <1>2, <1>9, <1>10, <1>11, <1>12, <1>13 DEF PluginInv

LEMMA PluginSteps == PluginInv /\ [PluginNext]_allVars => PluginInv'
<1> SUFFICES ASSUME PluginInv, [PluginNext]_allVars
             PROVE  PluginInv'
  OBVIOUS
<1>1. RecorderInv' /\ MainFits' /\ InputsFit' /\ TouchedFits' /\ HostTypes'
  BY RecorderNext, MainNext, InputsNext
<1>2. ViewFits' /\ KnownFits' /\ SavedFits' /\ PublishDue'
  BY ViewNext, KnownNext, SavedNext, PublishNext
<1>3. RestoreFits' /\ RecoverFits'
  BY RestoreNext, RecoverNext
<1>4. QED
  BY <1>1, <1>2, <1>3 DEF PluginInv

LEMMA PluginKept == PluginSpec => []PluginInv
<1>1. PluginInit => PluginInv
  BY PluginStarts
<1>2. PluginInv /\ [PluginNext]_allVars => PluginInv'
  BY PluginSteps
<1>3. QED
  BY <1>1, <1>2, PTL DEF PluginSpec

\* main.go and recorder.go: whatever crashes, fails or comes late, no capture runs
\* unowned, a crash at rest can be recovered from, and the screen catches up.
THEOREM OwnerStaysSafe == PluginSpec => []OwnerIsSafe
<1>1. PluginInv => OwnerIsSafe
  <2> SUFFICES ASSUME PluginInv
               PROVE  OwnerIsSafe
    OBVIOUS
  <2>1. TypeOK /\ NoOrphan /\ MainFits /\ InputsFit /\ LoopFits
    BY DEF PluginInv, RecorderInv
  <2>2. PluginTypeOK
    <3>1. pending # <<>> => outputPending \/ main \in {"send", "resume", "exited"}
      BY <2>1 DEF InputsFit, Up
    <3>2. {lastSaved, stored, found} \subseteq Owner /\ unsaved \in Owner \cup {NothingUnsaved}
      BY KnownOwner
    <3>3. QED
      BY <2>1, <3>1, <3>2 DEF PluginTypeOK, MainFits, InputsFit
  <2>3. CrashIsRecoverable
    <3> SUFFICES ASSUME Quiet, ~recoveryPending, proc # 0
                 PROVE  own = Saving
      BY DEF CrashIsRecoverable, Saving
    <3>1. own = lastSaved
      BY DEF Quiet, PluginInv, PublishDue, Resting
    <3>2. own # NoOwner
      BY ProcFacts, <2>1 DEF PluginInv, RecorderInv, OwnerFits, Quiet, Resting, TypeOK, Procs
    <3>3. QED
      BY <3>1, <3>2 DEF Quiet, PluginInv, SavedFits
  <2>4. ViewSettles
    BY DEF PluginInv, ViewFits, ViewSettles, Quiet
  <2>5. QED
    BY <2>1, <2>2, <2>3, <2>4 DEF OwnerIsSafe
<1>2. QED
  BY <1>1, PluginKept, PTL

-----------------------------------------------------------------------------
(* With a readable /proc.                                                  *)

\* Two processes with the same arguments are replay buffers.
LEMMA SameArgs ==
  ASSUME NEW p \in Procs, NEW q \in Procs, p # q, Args(p) = Args(q)
  PROVE  Args(p) = ReplayArgs /\ TwoBuffers
<1>1. ReplayArgs \notin Procs
  BY RecorderAssumption DEF ReplayArgs, Procs
<1>2. p \in replays /\ q \in replays
  BY <1>1 DEF Args
<1>3. QED
  BY <1>2 DEF Args, TwoBuffers

\* The places where the loop gets or loses a process.
LEMMA LoopProcs ==
  ASSUME RecorderInv, Loop
  PROVE  \/ UNCHANGED <<proc, alive, replays>>
         \/ /\ proc = 0 /\ proc' = started + 1 /\ alive' = alive \cup {started + 1}
            /\ replays \subseteq replays' /\ replays' \subseteq replays \cup {started + 1}
         \/ proc' = 0 /\ alive' \subseteq alive \ {proc} /\ replays' = replays
         \/ Recover /\ cmd.kind = "recover"
<1>0. LoopFits
  BY DEF RecorderInv
<1>1. CASE ToggleStarts
  BY <1>0, <1>1 DEF ToggleStarts, MayStart, LoopFits, Resting, Live
<1>2. CASE Halt
  BY <1>2 DEF Halt, Stopped
<1>3. CASE OnExit
  BY <1>3 DEF OnExit, procVars
<1>4. CASE Recover
  BY <1>4 DEF Recover
<1>5. CASE \/ Receive \/ DrainOne \/ DrainEnd \/ ToggleStops \/ ToggleFails \/ ToggleIgnored
           \/ BecomesReady \/ NeverReady \/ Announce \/ Verified \/ Unverified \/ Settle("idle")
           \/ Settle("failed") \/ SaveReplay \/ ReplaySaved \/ ReplayNotSaved \/ Retry \/ Reconfig \/ Quit
  BY <1>5 DEF Receive, DrainOne, DrainEnd, ToggleStops, ToggleFails, ToggleIgnored, BecomesReady,
     NeverReady, Announce, Verified, Unverified, Settle, SaveReplay, ReplaySaved, ReplayNotSaved,
     Retry, Reconfig, Quit, procVars
<1>6. QED
  BY <1>1, <1>2, <1>3, <1>4, <1>5 DEF Loop

\* When the processes do not change, neither does what answers to an ownership.
LEMMA SameMatches ==
  ASSUME UNCHANGED <<lastSaved, proc, alive, replays>>
  PROVE  /\ Matches(lastSaved)' = Matches(lastSaved)
         /\ TwoBuffers' = TwoBuffers
BY DEF Matches, Args, TwoBuffers

\* The loop keeps the ownership and its process together.
LEMMA OwnerStep ==
  ASSUME PluginInv, OwnerFound, ~ScanFaults, Loop, UNCHANGED pluginVars
  PROVE  OwnerFound'
<1>0. /\ RecorderInv /\ RecoverFits /\ TypeOK /\ ProcsFit /\ started \in Nat /\ LoopFits
      /\ UNCHANGED <<main, lastSaved, recoveryPending>>
  BY DEF PluginInv, RecorderInv, pluginVars, mainVars, TypeOK
<1> SUFFICES ASSUME Up, ~Recovering', lastSaved # NoOwner
             PROVE  \/ Matches(lastSaved)' \subseteq {proc'}
                    \/ lastSaved = ReplayArgs /\ TwoBuffers'
  BY <1>0 DEF OwnerFound, Up
<1>1. CASE Recovering
  <2>1. recovered' # recovered /\ Recover /\ cmd.kind = "recover" /\ Fresh
    BY <1>0, <1>1, CommandChanges DEF Recovering, RecoverFits
  <2>2. cmd = TheRecover
    BY <1>0, <1>1, <2>1 DEF RecoverFits, Plain
  <2>3. cmd.own = lastSaved /\ mode \in {"idle", "unavailable"} /\ UNCHANGED <<alive, replays>>
    BY <2>1, <2>2 DEF TheRecover, Recover, Fresh
  <2>4. Matches(lastSaved)' = Matches(lastSaved) /\ TwoBuffers' = TwoBuffers
    BY <1>0, <2>3 DEF Matches, Args, TwoBuffers
  <2>5. \/ Matches(lastSaved) = {}
        \/ \E p \in Matches(lastSaved) : Matches(lastSaved) = {p} /\ proc' = p
        \/ \E p, q \in Matches(lastSaved) : p # q
    BY <2>1, <2>3 DEF Recover
  <2>6. ASSUME NEW p \in Matches(lastSaved), NEW q \in Matches(lastSaved), p # q
        PROVE  lastSaved = ReplayArgs /\ TwoBuffers
    <3>1. p \in Procs /\ q \in Procs /\ Args(p) = lastSaved /\ Args(q) = lastSaved
      BY <1>0 DEF Matches, TypeOK
    <3>2. QED
      BY <2>6, <3>1, SameArgs
  <2>7. QED
    BY <2>4, <2>5, <2>6
<1>2. CASE ~Recovering
  <2>0. Matches(lastSaved) \subseteq {proc} \/ (lastSaved = ReplayArgs /\ TwoBuffers)
    BY <1>2 DEF OwnerFound
  <2>1. CASE UNCHANGED <<proc, alive, replays>>
    BY <1>0, <2>0, <2>1, SameMatches
  <2>2. CASE /\ proc = 0 /\ proc' = started + 1 /\ alive' = alive \cup {started + 1}
             /\ replays \subseteq replays' /\ replays' \subseteq replays \cup {started + 1}
    <3>1. TwoBuffers => TwoBuffers'
      BY <2>2 DEF TwoBuffers
    <3>2. ASSUME Matches(lastSaved) \subseteq {proc}
          PROVE  Matches(lastSaved)' \subseteq {proc'}
      <4>1. ASSUME NEW p \in Matches(lastSaved)', p # started + 1
            PROVE  p \in Matches(lastSaved)
        BY <1>0, <2>2, <4>1 DEF Matches, Args
      <4>2. 0 \notin alive
        BY <1>0 DEF TypeOK, Procs
      <4>3. Matches(lastSaved) = {}
        BY <2>2, <3>2, <4>2 DEF Matches
      <4>4. QED
        BY <2>2, <4>1, <4>3
    <3>3. QED
      BY <2>0, <3>1, <3>2
  <2>3. CASE proc' = 0 /\ alive' \subseteq alive \ {proc} /\ replays' = replays
    <3>1. TwoBuffers' = TwoBuffers
      BY <2>3 DEF TwoBuffers
    <3>2. Matches(lastSaved)' \subseteq Matches(lastSaved) \ {proc}
      BY <1>0, <2>3 DEF Matches, Args
    <3>3. QED
      BY <2>0, <3>1, <3>2
  <2>4. ~(Recover /\ cmd.kind = "recover")
    BY <1>0, <1>2 DEF RecoverFits, NotRecover
  <2>5. QED
    BY <1>0, <2>1, <2>2, <2>3, <2>4, LoopProcs
<1>3. QED
  BY <1>1, <1>2

LEMMA OwnerNext ==
  ASSUME PluginInv, OwnerFound, ~ScanFaults, [PluginNext]_allVars
  PROVE  OwnerFound'
<1>0. RecorderInv /\ TypeOK /\ OwnerFits /\ RestoreFits /\ HostTypes
  BY DEF PluginInv, RecorderInv
<1>1. CASE Loop /\ UNCHANGED pluginVars
  BY <1>1, OwnerStep
<1>2. CASE (\E p \in Procs : ChildExits(p)) /\ UNCHANGED pluginVars
  <2>1. /\ UNCHANGED <<main, lastSaved, recoveryPending, recovered, proc, replays>>
        /\ alive' \subseteq alive
    BY <1>2 DEF ChildExits, loopVars, pluginVars, mainVars
  <2>2. Matches(lastSaved)' \subseteq Matches(lastSaved) /\ TwoBuffers' = TwoBuffers
    BY <2>1 DEF Matches, Args, TwoBuffers
  <2>3. QED
    BY <2>1, <2>2 DEF OwnerFound, Recovering, Up
<1>3. CASE (PublishEnds \/ OnRecovered) /\ lastSaved' # lastSaved
  <2>1. lastSaved' = own /\ UNCHANGED <<proc, alive, replays>>
    BY <1>3 DEF PublishEnds, OnRecovered, SaveChangedOwnership, recorderVars, loopVars, procVars
  <2>2. Matches(lastSaved)' = Matches(own) /\ TwoBuffers' = TwoBuffers
    BY <2>1 DEF Matches, Args, TwoBuffers
  <2>3. ASSUME own # NoOwner, ~(Matches(own) \subseteq {proc})
        PROVE  own = ReplayArgs /\ TwoBuffers
    <3>1. PICK q \in Matches(own) : q # proc
      BY <2>3
    <3>2. q \in Procs /\ proc \in Procs /\ Args(q) = own /\ Args(proc) = own
      BY <1>0, <2>3, RecorderAssumption DEF OwnerFits, Matches, TypeOK, Procs
    <3>3. QED
      BY <3>1, <3>2, SameArgs
  <2>4. QED
    BY <2>1, <2>2, <2>3 DEF OwnerFound
<1>4. CASE OnRestore /\ MayAdopt
  <2>1. recoveryPending' = TRUE /\ restore = "found" /\ main = "select" /\ recovered' = recovered
    BY <1>4 DEF OnRestore, recorderVars, loopVars
  <2>2. ~recovered
    BY <1>0, <2>1 DEF RestoreFits, Up
  <2>3. QED
    BY <2>1, <2>2 DEF OwnerFound, Recovering
<1>5. CASE Crash \/ Restart
  BY <1>5 DEF Crash, Restart, OwnerFound, Up
<1>6. CASE /\ ~(Loop /\ UNCHANGED pluginVars) /\ ~((\E p \in Procs : ChildExits(p)) /\ UNCHANGED pluginVars)
           /\ ~((PublishEnds \/ OnRecovered) /\ lastSaved' # lastSaved) /\ ~(OnRestore /\ MayAdopt)
           /\ ~Crash /\ ~Restart
  <2>1. /\ UNCHANGED <<lastSaved, proc, alive, replays>>
        /\ Up' => Up
        /\ Recovering => Recovering'
    <3>1. CASE InputStep
      BY <1>0, <3>1, InputChanges DEF hostVars, recorderVars, loopVars, procVars, Recovering, Up
    <3>2. CASE PublishEnds \/ OnRecovered \/ OnRestore
      BY <1>0, <1>6, <3>2
      DEF PublishEnds, OnRecovered, OnRestore, recorderVars, loopVars, procVars, Recovering, Up
    <3>3. CASE SendDone \/ CloseRecorder \/ OnUpdate
      BY <3>3 DEF SendDone, Send, CloseRecorder, CloseQuit, OnUpdate, Publish, pluginVars, mainVars,
         procVars, Recovering, Up
    <3>4. CASE \/ Refresh \/ Republish \/ Exit \/ Shutdown \/ HostStores \/ Flush \/ OnSettings
               \/ RestoreReply \/ UNCHANGED allVars
      BY <3>4 DEF Refresh, Republish, Publish, Exit, Shutdown, HostStores, Flush, OnSettings, RestoreReply,
         allVars, pluginVars, mainVars, recorderVars, loopVars, procVars, Recovering, Up
    <3>5. QED
      BY <1>6, <3>1, <3>2, <3>3, <3>4 DEF PluginNext, MainSteps, RecorderSteps, InputStep
  <2>2. Matches(lastSaved)' = Matches(lastSaved) /\ TwoBuffers' = TwoBuffers
    BY <2>1, SameMatches
  <2>3. QED
    BY <2>1, <2>2 DEF OwnerFound
<1>7. QED
  BY <1>1, <1>2, <1>3, <1>4, <1>5, <1>6

\* An ownership is given up only with its process, or as one of two that cannot
\* be told apart.
LEMMA ErasedWithProcess ==
  ASSUME PluginInv, OwnerFound, [PluginNext]_allVars, Up, Up',
         lastSaved # NoOwner, lastSaved' = NoOwner
  PROVE  Matches(lastSaved) \subseteq {proc} \/ (lastSaved = ReplayArgs /\ TwoBuffers)
<1>1. OnRestore => found # NoOwner
  BY DEF OnRestore, PluginInv, RestoreFits, Up
<1>2. PublishEnds \/ OnRecovered
  <2>1. lastSaved' # lastSaved /\ ~Restart
    BY DEF Restart, Up
  <2>2. ~InputStep
    BY <2>1, InputChanges
  <2>3. QED
    BY <1>1, <2>1, <2>2 DEF PluginNext, MainSteps, RecorderSteps, InputStep, SendDone, CloseRecorder,
       OnUpdate, OnRestore, Refresh, Republish, Publish, Exit, Shutdown, HostStores, Flush, OnSettings,
       RestoreReply, Crash, allVars, pluginVars, mainVars
<1>3. ~Recovering
  BY <1>2 DEF PublishEnds, OnRecovered, MaySave, Recovering
<1>4. QED
  BY <1>3 DEF OwnerFound

\* main.go: inputs are carried out in the order in which they came, one at a time, though
\* the output of each is looked up in a goroutine, and whether or not /proc can be read.
THEOREM InputsInOrder == PluginSpec => InOrder
<1>1. PluginInv /\ [PluginNext]_allVars => [Up /\ Up' => served' \in {served, served + 1}]_allVars
  BY ServedInOrder
<1>2. QED
  BY <1>1, PluginKept, PTL DEF PluginSpec, InOrder

\* main.go: with a readable /proc a late reply of the host never costs a running
\* process its ownership, and inputs are never overtaken.
THEOREM OrderStaysKept ==
  ASSUME ~ScanFaults
  PROVE  PluginSpec => OrderIsKept
<1>1. PluginInit => OwnerFound
  BY DEF PluginInit, NewMain, OwnerFound
<1>2. PluginInv /\ OwnerFound /\ [PluginNext]_allVars => OwnerFound'
  BY OwnerNext
<1>3. PluginInv /\ OwnerFound /\ [PluginNext]_allVars =>
        [(Up /\ Up' /\ lastSaved # NoOwner /\ lastSaved' = NoOwner) =>
           \/ Matches(lastSaved) \subseteq {proc}
           \/ lastSaved = ReplayArgs /\ TwoBuffers]_allVars
  BY ErasedWithProcess
<1>4. PluginSpec => EraseOnlyDead
  BY <1>1, <1>2, <1>3, PluginKept, PTL DEF PluginSpec, EraseOnlyDead
<1>5. QED
  BY <1>4, InputsInOrder DEF OrderIsKept
===============================================================================
