-------------------------------- MODULE Herdr --------------------------------
(***************************************************************************)
(* The herdr plugin: the session service of plugins/herdr/service.go, with *)
(* its discovery, one runner per running session and the debounced         *)
(* notifications, and the process loop of cmd/sysc-plugin-herdr with the   *)
(* previews and the actions it runs off the loop.                          *)
(*                                                                         *)
(* A session has one pane with one agent.  A sessionState is an object of  *)
(* its own: a runner keeps the one it was started with after the service   *)
(* has forgotten it.                                                       *)
(***************************************************************************)
EXTENDS Naturals, Sequences, FiniteSets

CONSTANTS Sessions,     \* names of herdr sessions
          States,       \* identities of sessionState objects
          ChangesMax,   \* bound: how often a session or its agent changes
          TroublesMax,  \* bound: listings and socket calls that fail
          PressesMax,   \* bound: presses of the user
          None

HerdrAssumption == ChangesMax \in Nat /\ TroublesMax \in Nat /\ PressesMax \in Nat

VARIABLES herd,     \* outside: for each session whether it is listed, runs, and its agent
          session,  \* Service.sessions: the object of each session, or None
          object,   \* the content of each sessionState
          runners,  \* the runSession goroutines
          listing,  \* a listing is in flight
          found,    \* discoveryCh: a listing, the error of one, or None
          rows,     \* model.Sessions: the row of each session, or None
          update,   \* the update channel is full
          note,     \* notifications are queued, their timer runs
          panel,    \* the plugin: the open previews, the delete to confirm
          jobs,     \* the actions running off the loop
          limits    \* what is left of the bounds

herdrVars == <<herd, session, object, runners, listing, found, rows, update, note, panel,
               jobs, limits>>

\* What a session can be at herdr.
Working == [listed |-> TRUE, running |-> TRUE, agent |-> "working"]
Blocked == [listed |-> TRUE, running |-> TRUE, agent |-> "blocked"]
Stopped == [listed |-> TRUE, running |-> FALSE, agent |-> None]
Deleted == [listed |-> FALSE, running |-> FALSE, agent |-> None]

\* A subscribed runner is told of a new status; a stop closes its stream.
Becomes(s, h) ==
  /\ herd' = [herd EXCEPT ![s] = h]
  /\ runners' = {IF r.session # s \/ r.at # "stream" THEN r
                 ELSE [r EXCEPT !.events = Append(@, IF h.running THEN h.agent ELSE "closed")]
                 : r \in runners}

Blank == [running |-> FALSE, started |-> FALSE, doc |-> None, stale |-> FALSE]

\* BuildSession with the staleness of the object.
Row(content) == [running |-> content.running, doc |-> content.doc, stale |-> content.stale]

\* An object nobody holds.
Unused == {i \in States : /\ \A s \in Sessions : session[s] # i
                          /\ \A r \in runners : r.state # i}

Runner(s, i) == [session |-> s, state |-> i, at |-> "snapshot", doc |-> None,
                 events |-> <<>>, cancelled |-> FALSE]
Cancelled(who) == {[r EXCEPT !.cancelled = @ \/ r \in who] : r \in runners}

\* rebuildLocked: the row of that name is replaced, or added when there is none.
Rebuilt(r, content) == [rows EXCEPT ![r.session] = Row(content)]

----------------------------------------------------------------------------
(* Discovery *)

\* kickDiscovery: by the poll, the start and the refresh; not while one is in flight.
Poll ==
  /\ ~listing /\ listing' = TRUE
  /\ UNCHANGED <<herd, session, object, runners, found, rows, update, note, panel, jobs, limits>>

Listed == [s \in Sessions |-> IF herd[s].listed THEN [running |-> herd[s].running] ELSE None]

ListingEnds ==
  /\ listing /\ found = None
  /\ listing' = FALSE
  /\ \/ found' = [infos |-> Listed, err |-> FALSE] /\ UNCHANGED limits
     \/ /\ limits.troubles > 0
        /\ found' = [infos |-> Listed, err |-> TRUE]
        /\ limits' = [limits EXCEPT !.troubles = @ - 1]
  /\ UNCHANGED <<herd, session, object, runners, rows, update, note, panel, jobs>>

\* applyDiscovery for a session that is new, that runs again, that stopped, that left.
Appears(infos) == {s \in Sessions : infos[s] # None /\ session[s] = None}
\* As RunsAgain, but a session that was stopped is not given a runner again.
RunsOnce(infos) == {}
RunsAgain(infos) == {s \in Sessions : /\ infos[s] # None /\ session[s] # None
                                      /\ infos[s].running /\ ~object[session[s]].started}
Stops(infos) == {s \in Sessions : /\ infos[s] # None /\ session[s] # None
                                  /\ ~infos[s].running /\ object[session[s]].started}
Leaves(infos) == {s \in Sessions : infos[s] = None /\ session[s] # None}

ApplyDiscovery(infos) ==
  \E new \in {f \in [Appears(infos) -> Unused] : \A s, t \in Appears(infos) :
                                                   f[s] = f[t] => s = t} :
    LET sessions == [s \in Sessions |-> IF infos[s] = None THEN None
                                        ELSE IF s \in Appears(infos) THEN new[s]
                                        ELSE session[s]]
        objects == [i \in States |->
          IF \E s \in Sessions : sessions[s] = i
          THEN LET s == CHOOSE t \in Sessions : sessions[t] = i
                   base == IF s \in Appears(infos) THEN Blank ELSE object[i]
               IN [base EXCEPT !.running = infos[s].running, !.started = infos[s].running]
          ELSE object[i]]
        ended == {r \in runners : /\ r.session \in Stops(infos) \cup Leaves(infos)
                                  /\ r.state = session[r.session]}
        begun == {s \in Appears(infos) : infos[s].running} \cup RunsAgain(infos)
    IN /\ session' = sessions
       /\ object' = objects
       /\ runners' = Cancelled(ended) \cup {Runner(s, sessions[s]) : s \in begun}
       /\ rows' = [s \in Sessions |-> IF sessions[s] = None THEN None
                                      ELSE Row(objects[sessions[s]])]

\* handleDiscovery: a failed listing leaves the sessions as they are.
TakeDiscovery ==
  /\ found # None
  /\ IF found.err THEN UNCHANGED <<session, object, runners, rows>>
     ELSE ApplyDiscovery(found.infos)
  /\ found' = None /\ update' = TRUE
  /\ UNCHANGED <<herd, listing, note, panel, jobs, limits>>

----------------------------------------------------------------------------
(* A session's runner *)

Moves(r, changed) == runners' = (runners \ {r}) \cup {changed}
Ends(r) == runners' = runners \ {r}
Quiet == UNCHANGED <<herd, session, listing, found, panel, jobs>>
Silent == UNCHANGED <<object, rows, update, note>>

\* markSessionErr, and the backoff up to the next attempt; the error of a call that
\* the cancellation ended is marked as well, and then the runner ends.
Fails(r) ==
  /\ object' = [object EXCEPT ![r.state].stale = TRUE]
  /\ rows' = Rebuilt(r, object'[r.state])
  /\ update' = TRUE
  /\ IF r.cancelled THEN Ends(r) ELSE Moves(r, Runner(r.session, r.state))
  /\ UNCHANGED note

\* The snapshot is read, or the call fails: the socket is gone, or time is up.
ReadSnapshot(r) ==
  /\ r.at = "snapshot" /\ herd[r.session].running
  /\ Moves(r, [r EXCEPT !.at = "apply", !.doc = herd[r.session].agent])
  /\ Quiet /\ Silent /\ UNCHANGED limits

SnapshotFails(r) ==
  /\ r.at = "snapshot" /\ Fails(r)
  /\ \/ (~herd[r.session].running \/ r.cancelled) /\ UNCHANGED limits
     \/ limits.troubles > 0 /\ limits' = [limits EXCEPT !.troubles = @ - 1]
  /\ Quiet

\* The cancelled context ends the loop, the backoff and the stream.
RunnerEnds(r) ==
  /\ r.cancelled /\ r.at \in {"snapshot", "stream"} /\ Ends(r)
  /\ Quiet /\ Silent /\ UNCHANGED limits

\* applySnapshot: the document of the object, no notification.
ApplySnapshot(r) ==
  /\ r.at = "apply"
  /\ object' = [object EXCEPT ![r.state].doc = r.doc, ![r.state].stale = FALSE]
  /\ rows' = Rebuilt(r, object'[r.state])
  /\ update' = TRUE
  /\ Moves(r, [r EXCEPT !.at = "subscribe", !.doc = None])
  /\ Quiet /\ UNCHANGED <<note, limits>>

Subscribe(r) ==
  /\ r.at = "subscribe"
  /\ \/ /\ herd[r.session].running
        /\ Moves(r, [r EXCEPT !.at = "stream"]) /\ Silent
     \/ (~herd[r.session].running \/ r.cancelled) /\ Fails(r)
  /\ Quiet /\ UNCHANGED limits

\* handleAgentEvent, and the notification of an agent that stops working.
AgentEvent(r) ==
  /\ r.at = "stream" /\ r.events # <<>> /\ Head(r.events) # "closed"
  /\ LET status == Head(r.events)
         content == object[r.state]
     IN /\ IF content.doc = status THEN UNCHANGED <<object, rows, update, note>>
           ELSE /\ object' = [object EXCEPT ![r.state].doc = status]
                /\ rows' = Rebuilt(r, object'[r.state])
                /\ update' = TRUE
                /\ note' = (note \/ (content.doc = "working" /\ status = "blocked"))
        /\ Moves(r, [r EXCEPT !.events = Tail(@)])
  /\ Quiet /\ UNCHANGED limits

\* streamEvents returns to subscribe again, on a refresh and each half minute.
StreamReturns(r) ==
  /\ r.at = "stream" /\ ~r.cancelled
  /\ Moves(r, Runner(r.session, r.state))
  /\ Quiet /\ Silent /\ UNCHANGED limits

\* The stream is closed by the other side.
StreamCloses(r) ==
  /\ r.at = "stream" /\ ~r.cancelled /\ r.events # <<>> /\ Head(r.events) = "closed"
  /\ Fails(r)
  /\ Quiet /\ UNCHANGED limits

RunnerStep(r) ==
  \/ ReadSnapshot(r) \/ SnapshotFails(r) \/ RunnerEnds(r) \/ ApplySnapshot(r)
  \/ Subscribe(r) \/ AgentEvent(r) \/ StreamReturns(r) \/ StreamCloses(r)

\* flushNotifications: one notification tells of all that are queued.
FlushNotifications ==
  /\ note /\ note' = FALSE
  /\ UNCHANGED <<herd, session, object, runners, listing, found, rows, update, panel, jobs, limits>>

----------------------------------------------------------------------------
(* The process loop *)

\* PaneStatus of the model: None when the pane is not there.
PaneStatus(s) == IF rows[s] = None THEN None ELSE rows[s].doc

\* PrunePeeks: a preview goes with its pane and with its status.
PrunePeeks == [s \in Sessions |->
  IF panel.peeks[s] # None /\ panel.peeks[s] = PaneStatus(s) THEN panel.peeks[s] ELSE None]

\* An update prunes the previews and sends every view.
TakeUpdate ==
  /\ update /\ update' = FALSE
  /\ panel' = [panel EXCEPT !.peeks = PrunePeeks]
  /\ UNCHANGED <<herd, session, object, runners, listing, found, rows, note, jobs, limits>>

Press == limits.presses > 0 /\ limits' = [limits EXCEPT !.presses = @ - 1]
Calm == UNCHANGED <<herd, session, object, runners, listing, found, rows, update, note>>
Works(kind, s) == jobs' = jobs \cup {[kind |-> kind, session |-> s, done |-> FALSE]}

\* The buttons of sessionCard and paneRow, for a session that is not the default
\* one; while an update waits the view shows an older model.
Offered(kind, s) ==
  \/ update
  \/ /\ rows[s] # None
     /\ CASE kind = "stop" -> rows[s].running
          [] kind = "read" -> rows[s].running /\ rows[s].doc # None
          [] kind = "delete" -> ~rows[s].running /\ panel.confirm # s
          [] kind = "confirm" -> ~rows[s].running /\ panel.confirm = s

\* read: an open preview closes, else the output is read off the loop.
ReadPressed(s) ==
  /\ Offered("read", s) /\ Press
  /\ IF panel.peeks[s] # None
     THEN panel' = [panel EXCEPT !.peeks[s] = None] /\ UNCHANGED jobs
     ELSE /\ IF rows[s] # None /\ rows[s].running THEN Works("read", s) ELSE UNCHANGED jobs
          /\ UNCHANGED panel
  /\ Calm

StopPressed(s) ==
  /\ Offered("stop", s) /\ Press
  /\ Works("stop", s) /\ UNCHANGED panel /\ Calm

DeletePressed(s) ==
  /\ Offered("delete", s) /\ Press
  /\ panel' = [panel EXCEPT !.confirm = s] /\ UNCHANGED jobs /\ Calm

CancelPressed(s) ==
  /\ Offered("confirm", s) /\ Press
  /\ panel' = [panel EXCEPT !.confirm = None] /\ UNCHANGED jobs /\ Calm

\* confirmDeleteNow, for the session that is to be confirmed, if it is still there.
ConfirmPressed(s) ==
  /\ Offered("confirm", s) /\ panel.confirm = s /\ Press
  /\ IF rows[s] = None THEN panel' = [panel EXCEPT !.confirm = None] /\ UNCHANGED jobs
     ELSE Works("delete", s) /\ UNCHANGED panel
  /\ Calm

\* The action is done by herdr; one that fails only shows its error.
Done(j) == jobs' = (jobs \ {j}) \cup {[j EXCEPT !.done = TRUE]}
JobRuns(j) ==
  /\ ~j.done
  /\ LET h == herd[j.session] IN
     \/ j.kind = "read" /\ h.running /\ Done(j) /\ UNCHANGED <<herd, runners>>
     \/ j.kind = "stop" /\ h.running /\ Done(j) /\ Becomes(j.session, Stopped)
     \/ j.kind = "delete" /\ h = Stopped /\ Done(j) /\ Becomes(j.session, Deleted)
     \/ j.kind \in {"read", "stop"} /\ ~h.running /\ jobs' = jobs \ {j} /\ UNCHANGED <<herd, runners>>
     \/ j.kind = "delete" /\ h # Stopped /\ jobs' = jobs \ {j} /\ UNCHANGED <<herd, runners>>
  /\ UNCHANGED <<session, object, listing, found, rows, update, note, panel, limits>>

\* The result comes back to the loop: the after function of the action.
TakeResult(j) ==
  /\ j.done /\ jobs' = jobs \ {j}
  /\ panel' =
       CASE j.kind = "read" -> [panel EXCEPT !.peeks[j.session] = PaneStatus(j.session)]
         [] j.kind = "delete" -> [panel EXCEPT !.confirm = None]
         [] OTHER -> panel
  /\ listing' = (listing \/ j.kind \in {"stop", "delete"})
  /\ UNCHANGED <<herd, session, object, runners, found, rows, update, note, limits>>

----------------------------------------------------------------------------
(* Outside *)

\* A session is started, stops or is deleted, or its agent changes.
HerdChanges ==
  /\ limits.changes > 0 /\ limits' = [limits EXCEPT !.changes = @ - 1]
  /\ \E s \in Sessions : \E h \in {Working, Blocked, Stopped, Deleted} \ {herd[s]} : Becomes(s, h)
  /\ UNCHANGED <<session, object, listing, found, rows, update, note, panel, jobs>>

HerdrInit ==
  /\ herd = [s \in Sessions |-> Working]
  /\ session = [s \in Sessions |-> None]
  /\ object = [i \in States |-> Blank]
  /\ runners = {} /\ listing = TRUE /\ found = None
  /\ rows = [s \in Sessions |-> None]
  /\ update = FALSE
  /\ note = FALSE
  /\ panel = [peeks |-> [s \in Sessions |-> None], confirm |-> None]
  /\ jobs = {}
  /\ limits = [changes |-> ChangesMax, troubles |-> TroublesMax, presses |-> PressesMax]

Runs == \E r \in runners : RunnerStep(r)
Service == Poll \/ ListingEnds \/ TakeDiscovery
Loop == TakeUpdate \/ (\E j \in jobs : JobRuns(j) \/ TakeResult(j)) \/ FlushNotifications
Presses == \E s \in Sessions : \/ ReadPressed(s) \/ StopPressed(s)
                               \/ DeletePressed(s) \/ CancelPressed(s) \/ ConfirmPressed(s)

HerdrNext == Service \/ Runs \/ Loop \/ Presses \/ HerdChanges

\* The service, the runners and the loop keep running.
HerdrSpec == /\ HerdrInit /\ [][HerdrNext]_herdrVars
             /\ WF_herdrVars(Poll) /\ WF_herdrVars(ListingEnds) /\ WF_herdrVars(TakeDiscovery)
             /\ WF_herdrVars(Loop)
             /\ \A s \in Sessions, i \in States :
                  WF_herdrVars(\E r \in runners : /\ r.session = s /\ r.state = i
                                                 /\ RunnerStep(r))

----------------------------------------------------------------------------
(* Properties *)

\* An open preview is of the status its pane has, or the update that will prune it
\* is on its way (render_panel.go:43-44, main.go:316-318).
PeekFollowsStatus ==
  \A s \in Sessions : panel.peeks[s] # None => panel.peeks[s] = PaneStatus(s) \/ update

\* When herdr comes to rest the rows come to show what it has, whatever a runner
\* that was cancelled in a call still does (service.go:408-420, 560-569).
AtEnd == \A s \in Sessions :
  /\ (rows[s] = None) = ~herd[s].listed
  /\ rows[s] # None => rows[s].running = herd[s].running
  /\ herd[s].running => rows[s].doc = herd[s].agent /\ ~rows[s].stale
=============================================================================
