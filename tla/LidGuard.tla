------------------------------- MODULE LidGuard -------------------------------
(***************************************************************************)
(* plugins/lid-guard/service.go: the service that serializes the requests  *)
(* for one transient systemd user unit, and the unit itself.               *)
(*                                                                         *)
(* A request runs in a goroutine of its own (perform).  A status check may *)
(* be under way when a mutation is asked for, which then waits for it.     *)
(* systemd is external: the unit also changes without this plugin, a       *)
(* command may time out while its job goes on, the user manager may be     *)
(* unreachable and the tools may be missing.                               *)
(***************************************************************************)
EXTENDS Naturals, Sequences, SequencesExt

CONSTANT MaxTroubles \* bound: commands that fail or time out, and changes of the
                     \* system that nobody here asked for

ASSUME LidAssumption == MaxTroubles \in Nat

VARIABLES state,      \* status.State; "failed" is an error with failedUnitMessage
          busy,       \* status.Busy
          refreshing, \* status.Refreshing
          depsOK,
          queued,     \* pendingAction
          token,      \* updates holds a value
          unsent,     \* status.Revision is above the plugin's statusRevision
          performers, \* the goroutines in perform
          unit,       \* the unit's state in systemd
          manager,    \* the user service manager answers
          tools,      \* the required commands are installed
          troubles,                   \* counter of the bound
          accepted, finished, issued  \* mutations accepted, ended; commands run (history)

statusVars == <<state, busy, refreshing, depsOK, queued, token, unsent, performers>>
systemVars == <<unit, manager, tools, troubles>>
lidHistory == <<accepted, finished, issued>>
lidVars == <<statusVars, systemVars, lidHistory>>

Mutations == {"enable", "disable", "toggle"}
Actions == Mutations \cup {"refresh", "status"}
States == {"active", "inactive", "failed", "error", "unknown", "unavailable"}
Units == {"active", "inactive", "failed", "activating", "deactivating"}
Phases == {"locate", "check", "reset", "start", "stop", "wait", "poll", "report"}
Performer == [action : Actions, at : Phases, want : {"active", "inactive"}, observed : States]

ReadOnly(a) == a \in {"refresh", "status"}

\* Clearing the message makes a failed unit a plain error.
Cleared(s) == IF s = "failed" THEN "error" ELSE s

\* perform, from its start.  Only a read-only action locates the commands.
NewPerformer(a) == [action |-> a, at |-> IF ReadOnly(a) THEN "locate" ELSE "check",
                    want |-> "inactive", observed |-> "unknown"]

\* publishLocked: a new revision; the channel keeps its value or gets one.
PublishLocked == token' = TRUE /\ unsent' = TRUE

\* New, and the request for a refresh that run makes at once.
LidInit ==
  /\ unit \in {"active", "inactive", "failed"}
  /\ manager \in BOOLEAN
  /\ tools \in BOOLEAN
  /\ depsOK = tools
  /\ state = IF tools THEN "unknown" ELSE "unavailable"
  /\ busy = FALSE
  /\ refreshing = TRUE
  /\ queued = "none"
  /\ token = FALSE
  /\ unsent = TRUE
  /\ performers = <<NewPerformer("refresh")>>
  /\ troubles = 0
  /\ accepted = 0 /\ finished = 0 /\ issued = 0

-----------------------------------------------------------------------------
(* Request.                                                                *)

MayRun(a) == refreshing => ~ReadOnly(a) /\ queued = "none"

\* As MustQueue, but no check is waited for.
StartsAtOnce == FALSE

\* A mutation waits for the status check that runs.
MustQueue == refreshing

Accepts(a) ==
  /\ a \in Actions
  /\ ~busy
  /\ depsOK \/ ReadOnly(a)
  /\ MayRun(a)

Accept(a) ==
  /\ Accepts(a)
  /\ IF MustQueue
     THEN queued' = a /\ UNCHANGED <<performers, refreshing>>
     ELSE /\ performers' = Append(performers, NewPerformer(a))
          /\ refreshing' = (refreshing \/ ReadOnly(a))
          /\ UNCHANGED queued
  /\ busy' = ~ReadOnly(a)
  /\ IF ReadOnly(a) THEN UNCHANGED <<state, token, unsent>>
                    ELSE state' = Cleared(state) /\ PublishLocked
  /\ accepted' = IF a \in Mutations THEN accepted + 1 ELSE accepted
  /\ UNCHANGED <<depsOK, systemVars, finished, issued>>

-----------------------------------------------------------------------------
(* perform and apply, one external command at a time.                      *)

Goto(i, phase) == performers' = [performers EXCEPT ![i].at = phase]
ReportAs(i, s) == performers' = [performers EXCEPT ![i].at = "report", ![i].observed = s]

Locate(i) ==
  /\ performers[i].at = "locate"
  /\ depsOK' = tools
  /\ IF tools THEN Goto(i, "check") ELSE ReportAs(i, "unavailable")
  /\ UNCHANGED <<state, busy, refreshing, queued, token, unsent, systemVars, lidHistory>>

\* A command fails for a reason of its own.
Trouble == troubles < MaxTroubles /\ troubles' = troubles + 1

\* check: what systemctl is-active says of the unit.
Seen == IF ~manager THEN "unavailable"
        ELSE IF unit \in {"activating", "deactivating"} THEN "unknown" ELSE unit
Reads(s) == \/ s = Seen /\ UNCHANGED troubles
            \/ s = "error" /\ Trouble

WantsActive(a, s) == a = "enable" \/ (a = "toggle" /\ s # "active")
\* An action with nothing to do.
Settled(a, s) == \/ a = "enable" /\ s = "active"
                 \/ a = "disable" /\ s = "inactive"
Actionable(s) == s \in {"active", "inactive", "failed"}

Check(i) ==
  /\ performers[i].at = "check"
  /\ \E s \in States :
       /\ Reads(s)
       /\ LET a == performers[i].action
          IN  IF ReadOnly(a) \/ ~Actionable(s) \/ Settled(a, s) THEN ReportAs(i, s)
              ELSE IF WantsActive(a, s) THEN Goto(i, "reset") ELSE Goto(i, "stop")
  /\ UNCHANGED <<state, busy, refreshing, depsOK, queued, token, unsent,
                 unit, manager, tools, lidHistory>>

\* reset-failed is cleanup; its failure is ignored.
ResetFailed(i) ==
  /\ performers[i].at = "reset"
  /\ \/ unit' = (IF manager /\ unit = "failed" THEN "inactive" ELSE unit) /\ UNCHANGED troubles
     \/ Trouble /\ UNCHANGED unit
  /\ Goto(i, "start")
  /\ UNCHANGED <<state, busy, refreshing, depsOK, queued, token, unsent,
                 manager, tools, lidHistory>>

Waiting(i, s) == performers' = [performers EXCEPT ![i].at = "wait", ![i].want = s]

\* systemd-run refuses a unit that is loaded.  A command that times out may
\* leave its job behind.
Start(i) ==
  /\ performers[i].at = "start"
  /\ issued' = issued + 1
  /\ \/ /\ manager /\ unit = "inactive"
        /\ unit' = "active" /\ Waiting(i, "active") /\ UNCHANGED troubles
     \/ /\ ~(manager /\ unit = "inactive")
        /\ ReportAs(i, "error") /\ UNCHANGED <<unit, troubles>>
     \/ /\ Trouble /\ ReportAs(i, "error")
        /\ unit' \in {unit} \cup (IF manager /\ unit = "inactive" THEN {"activating"} ELSE {})
  /\ UNCHANGED <<state, busy, refreshing, depsOK, queued, token, unsent,
                 manager, tools, accepted, finished>>

\* systemctl stop: a failed unit stays failed, one that is gone is an error.
Stop(i) ==
  /\ performers[i].at = "stop"
  /\ issued' = issued + 1
  /\ \/ /\ manager /\ unit # "inactive"
        /\ unit' = IF unit = "failed" THEN "failed" ELSE "inactive"
        /\ Waiting(i, "inactive") /\ UNCHANGED troubles
     \/ /\ ~(manager /\ unit # "inactive")
        /\ ReportAs(i, "error") /\ UNCHANGED <<unit, troubles>>
     \/ /\ Trouble /\ ReportAs(i, "error")
        /\ unit' \in {unit} \cup (IF manager /\ unit = "active" THEN {"deactivating"} ELSE {})
  /\ UNCHANGED <<state, busy, refreshing, depsOK, queued, token, unsent,
                 manager, tools, accepted, finished>>

\* waitFor: the first check, then polls until the wanted state, an error, or
\* the deadline.
WaitFor(i) ==
  /\ performers[i].at \in {"wait", "poll"}
  /\ \E s \in States :
       /\ Reads(s)
       /\ IF s = performers[i].want \/ s \in {"unavailable", "error", "failed"}
          THEN ReportAs(i, s)
          ELSE performers[i].at = "wait" /\ Goto(i, "poll")
  /\ UNCHANGED <<state, busy, refreshing, depsOK, queued, token, unsent,
                 unit, manager, tools, lidHistory>>

GiveUp(i) ==
  /\ performers[i].at = "poll"
  /\ ReportAs(i, "error")
  /\ UNCHANGED <<state, busy, refreshing, depsOK, queued, token, unsent,
                 systemVars, lidHistory>>

\* The end of perform: the queued mutation runs next, unless there is nothing
\* to run it with.
RunsQueued(s) == queued # "none" /\ s # "unavailable"
StillBusy(s) == RunsQueued(s)
\* As AfterPerform, but the check is not marked as ended.
KeepsRefreshing == refreshing

AfterPerform == FALSE

Report(i) ==
  /\ performers[i].at = "report"
  /\ LET s == performers[i].observed
         ends(a) == IF a \in Mutations THEN 1 ELSE 0
     IN  /\ state' = IF RunsQueued(s) THEN Cleared(s) ELSE s
         /\ busy' = StillBusy(s)
         /\ performers' = IF RunsQueued(s) THEN [performers EXCEPT ![i] = NewPerformer(queued)]
                          ELSE RemoveAt(performers, i)
         /\ finished' = finished + ends(performers[i].action)
                          + IF RunsQueued(s) THEN 0 ELSE ends(queued)
  /\ refreshing' = AfterPerform
  /\ queued' = "none"
  /\ PublishLocked
  /\ UNCHANGED <<depsOK, systemVars, accepted, issued>>

PerformStep(i) ==
  \/ Locate(i) \/ Check(i) \/ ResetFailed(i) \/ Start(i) \/ Stop(i)
  \/ WaitFor(i) \/ GiveUp(i) \/ Report(i)
Perform == \E i \in DOMAIN performers : PerformStep(i)

-----------------------------------------------------------------------------
(* The system around it.                                                   *)

\* A job that is under way ends.
Settle ==
  /\ \/ unit = "activating" /\ unit' \in {"active", "failed"}
     \/ unit = "deactivating" /\ unit' \in {"inactive", "failed"}
  /\ UNCHANGED <<statusVars, manager, tools, troubles, lidHistory>>

\* Someone else starts or stops the unit, it dies, the manager goes away or
\* comes back, a package is installed or removed.
Outside ==
  /\ Trouble
  /\ \/ unit' \in {"active", "inactive", "failed"} \ {unit} /\ UNCHANGED <<manager, tools>>
     \/ manager' = ~manager /\ UNCHANGED <<unit, tools>>
     \/ tools' = ~tools /\ UNCHANGED <<unit, manager>>
  /\ UNCHANGED <<statusVars, lidHistory>>

-----------------------------------------------------------------------------
(* Properties of the service.                                              *)

LidTypeOK ==
  /\ state \in States
  /\ {busy, refreshing, depsOK, token, unsent, manager, tools} \subseteq BOOLEAN
  /\ queued \in Mutations \cup {"none"}
  /\ performers \in Seq(Performer)
  /\ unit \in Units

\* One goroutine at a time drives systemd, exactly while the status says that
\* something is going on; a mutation waits only behind a status check.  The
\* commands map is written without excluding a reader, on the strength of it.
OnePerformer ==
  /\ Len(performers) = IF busy \/ refreshing THEN 1 ELSE 0
  /\ queued # "none" => busy /\ refreshing

\* The unit is started and stopped only for a mutation somebody asked for, once
\* each: "does not start
\* automatically".
OncePerRequest ==
  /\ issued <= accepted
  /\ finished <= accepted
  /\ accepted - finished = IF busy THEN 1 ELSE 0

\* Both: systemd is driven by one goroutine, once for each request.
DrivesOnce == LidTypeOK /\ OnePerformer /\ OncePerRequest

=============================================================================
