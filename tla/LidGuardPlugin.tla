---------------------------- MODULE LidGuardPlugin ----------------------------
(***************************************************************************)
(* cmd/sysc-plugin-lid-guard: the event loop in front of the service, with *)
(* the host that sends it clicks and service actions and shows its status. *)
(***************************************************************************)
EXTENDS LidGuard

CONSTANT MaxMessages \* bound: clicks and service actions the host sends

ASSUME LidPluginAssumption == MaxMessages \in Nat

VARIABLES main,     \* where the main goroutine is
          notice,   \* its pendingAction: the action to tell the user about
          snap,     \* the snapshot that publish read
          forced,   \* publish was asked to redraw
          open,     \* a view is open
          shown,    \* lastViewSnapshot: what the open view shows
          hostSees, \* the last ServiceStatus sent
          messages, notices \* counter of the bound; notifications sent (history)

mainVars == <<main, notice, snap, forced, open, shown, hostSees>>
lidPluginVars == <<mainVars, messages, notices>>
allLidVars == <<lidVars, lidPluginVars>>

Frame == [state : States, busy : BOOLEAN, refreshing : BOOLEAN]
Status == [state |-> state, busy |-> busy, refreshing |-> refreshing]
Sent(f) == [state |-> f.state, busy |-> f.busy]
Nodes == {"toggle", "secondary", "middle", "panelAction", "refresh"}
Running == main # "exited"
\* The local snapshot of publish, outside of it.
NoSnap == [frame |-> [state |-> "unknown", busy |-> FALSE, refreshing |-> FALSE], news |-> FALSE]

\* run publishes at once, before it listens.
LidPluginInit ==
  /\ LidInit
  /\ main = "read"
  /\ snap = NoSnap
  /\ forced = TRUE
  /\ notice = "none"
  /\ open = FALSE
  /\ shown = Status
  /\ hostSees = Sent(Status)
  /\ messages = 0 /\ notices = 0

-----------------------------------------------------------------------------
(* publish.                                                                *)

\* publish reads the snapshot, with the revision it is about to send ...
ReadSnapshot ==
  /\ main = "read"
  /\ main' = "publish"
  /\ snap' = [frame |-> Status, news |-> unsent]
  /\ unsent' = FALSE
  /\ UNCHANGED <<notice, forced, open, shown, hostSees, messages, notices>>
  /\ UNCHANGED <<state, busy, refreshing, depsOK, queued, token, performers,
                 systemVars, lidHistory>>

\* ... and then sends the status when the revision is new, notifies about an
\* action that has ended, and redraws the views when they differ.
SendsStatus == snap.news
\* As ActionEnded, but a mutation that still runs is told of too.
NotifiesAnyway == notice # "none"

ActionEnded == notice # "none" /\ ~snap.frame.busy
Redraws == forced \/ snap.frame # shown

Publish ==
  /\ main = "publish"
  /\ main' = "select"
  /\ hostSees' = IF SendsStatus THEN Sent(snap.frame) ELSE hostSees
  /\ notice' = IF ActionEnded THEN "none" ELSE notice
  /\ notices' = notices + IF ActionEnded /\ notice \in Mutations THEN 1 ELSE 0
  /\ shown' = IF Redraws THEN snap.frame ELSE shown
  /\ snap' = NoSnap /\ forced' = FALSE
  /\ UNCHANGED <<open, messages, lidVars>>

StartPublish(force) ==
  /\ main' = "read"
  /\ forced' = force

-----------------------------------------------------------------------------
(* The cases of the select.                                                *)

OnUpdate ==
  /\ main = "select"
  /\ token
  /\ token' = FALSE
  /\ StartPublish(FALSE)
  /\ UNCHANGED <<notice, snap, open, shown, hostSees, messages, notices>>
  /\ UNCHANGED <<state, busy, refreshing, depsOK, queued, unsent, performers,
                 systemVars, lidHistory>>

\* The ticker asks for a status check unless something is going on.
Tick ==
  /\ main = "select"
  /\ ~busy /\ ~refreshing
  /\ Accept("refresh")
  /\ UNCHANGED lidPluginVars

\* Request, from the main goroutine: a refused one is only logged.
Ask(a) ==
  \/ /\ Accept(a)
     /\ notice' = a
     /\ IF a \in Mutations THEN StartPublish(FALSE) ELSE UNCHANGED <<main, forced>>
  \/ ~Accepts(a) /\ UNCHANGED <<lidVars, notice, main, forced>>

\* HandleInput: the action a click stands for, and whether it opens the panel.
IdleNow == ~busy /\ ~refreshing
Meaning(node) ==
  CASE node \in {"refresh", "secondary"} /\ IdleNow -> "refresh"
    [] node = "panelAction" /\ ~busy /\ Actionable(state) ->
         IF refreshing THEN "toggle" ELSE IF state = "active" THEN "disable" ELSE "enable"
    [] node = "toggle" /\ ~busy /\ state \in {"active", "inactive"} ->
         IF refreshing THEN "toggle" ELSE IF state = "active" THEN "disable" ELSE "enable"
    [] OTHER -> "none"
OpensPanel(node) == node = "middle" \/ (node = "toggle" /\ ~busy /\ Meaning(node) = "none")

\* A click counts when the view was not redrawn since; a stale one is dropped.
\* What it means is read from the service, which may be ahead of the view.
OnClick(node) ==
  /\ open /\ UNCHANGED open
  /\ CASE Meaning(node) # "none" -> Ask(Meaning(node))
       [] OpensPanel(node) -> main' = "calling" /\ UNCHANGED <<notice, forced, lidVars>>
       [] OTHER -> UNCHANGED <<main, notice, forced, lidVars>>

\* A view opens, is resized or asks for a resync; one is closed.
ViewChange ==
  /\ open' \in BOOLEAN
  /\ IF open' THEN StartPublish(TRUE) ELSE UNCHANGED <<main, forced>>
  /\ UNCHANGED <<notice, lidVars>>

OnMessage ==
  /\ main = "select"
  /\ messages < MaxMessages
  /\ messages' = messages + 1
  /\ \/ \E node \in Nodes : OnClick(node)
     \/ \E a \in Actions \cup {"other"} : Ask(a) /\ UNCHANGED open
     \/ ViewChange
  /\ UNCHANGED <<snap, shown, hostSees, notices>>

\* The panel-open call, made from the loop, is answered.
PanelAnswered ==
  /\ main = "calling"
  /\ main' = "select"
  /\ UNCHANGED <<notice, snap, forced, open, shown, hostSees, messages, notices, lidVars>>

\* host.shutdown, or the connection is gone.
Shutdown ==
  /\ main \in {"select", "calling"}
  /\ main' = "exited"
  /\ UNCHANGED <<notice, snap, forced, open, shown, hostSees, messages, notices, lidVars>>

-----------------------------------------------------------------------------
ServiceSteps == Running /\ Perform /\ UNCHANGED lidPluginVars
SystemSteps == Running /\ (Settle \/ Outside) /\ UNCHANGED lidPluginVars

LidPluginNext ==
  \/ ServiceSteps \/ SystemSteps
  \/ ReadSnapshot \/ Publish
  \/ OnUpdate \/ Tick \/ OnMessage
  \/ PanelAnswered \/ Shutdown

\* Goroutines are scheduled, systemd finishes its jobs, commands are bounded
\* by their timeouts, the ticker ticks, and a select picks among its ready
\* cases at random.  Nothing makes the host answer the panel-open call.
LidPluginSpec ==
  /\ LidPluginInit
  /\ [][LidPluginNext]_allLidVars
  /\ WF_allLidVars(ServiceSteps)
  /\ WF_allLidVars(Running /\ Settle /\ UNCHANGED lidPluginVars)
  /\ WF_allLidVars(ReadSnapshot \/ Publish)
  /\ WF_allLidVars(OnUpdate)
  /\ WF_allLidVars(Tick)

-----------------------------------------------------------------------------
(* Properties.                                                             *)

LidPluginTypeOK ==
  /\ LidTypeOK
  /\ main \in {"select", "read", "publish", "calling", "exited"}
  /\ notice \in Actions \cup {"none"}
  /\ {snap.frame, shown} \subseteq Frame
  /\ hostSees \in [state : States, busy : BOOLEAN]

\* With no update waiting, the host was sent the service's state and busy flag,
\* and the open views show them; a view that shows a check under way is right.
StatusReachesHost ==
  main = "select" /\ ~token =>
    /\ hostSees = Sent(Status)
    /\ shown.state = state /\ shown.busy = busy
    /\ shown.refreshing => refreshing

\* The user is told about a mutation only after it has ended, and never more
\* than once.
NoticeAfterEnd == notices' # notices => finished = accepted /\ notices < accepted

\* The user is told of a mutation once it has ended, and once; with no update waiting
\* the host and the views have the service's status (main.go).
NoticesAreTrue == [](LidPluginTypeOK /\ StatusReachesHost) /\ [][NoticeAfterEnd]_allLidVars

\* When nothing changes any more, the host shows what systemd reports: it is
\* checked "at startup, after actions, and every five seconds" (README).
ReportsTruth ==
  \/ main \in {"calling", "exited"}
  \/ hostSees = [state |-> IF tools THEN Seen ELSE "unavailable", busy |-> FALSE]
=============================================================================
