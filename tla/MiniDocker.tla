----------------------------- MODULE MiniDocker -----------------------------
(* The Docker panel of plugins/mini-docker and cmd/sysc-plugin-mini-docker:   *)
(* lists that are read one at a time, commands in goroutines of their own,    *)
(* the run form, an armed removal, one waiting refresh request, the stream of *)
(* docker events, and clicks that were aimed at an earlier picture.  A        *)
(* publish draws the session as it is when it draws, so it is part of the     *)
(* step it follows.  An entity that is "busy" is a running container or an    *)
(* image in use.  Volumes and networks behave as images without a form; the   *)
(* fields and network of a form are abstracted to whether they pass.          *)
EXTENDS Absent, Naturals, Sequences, FiniteSets, Functions

CONSTANTS Containers, Images,  \* sets of numbers, their order by name
          PageSize,            \* maxPanelRows
          Workers,             \* bound: goroutines at a time, positive numbers
          ClicksMax,           \* bound: what the user does
          TroublesMax         \* bound: what happens outside

ASSUME DockerAssumption ==
  /\ Containers \cup Images \subseteq Nat /\ IsFiniteSet(Containers \cup Images)
  /\ PageSize \in Nat \ {0} /\ Workers \subseteq Nat \ {0}
  /\ {ClicksMax, TroublesMax} \subseteq Nat
  /\ None \notin Nat

VARIABLES
  actual,    \* what docker has: per scope and entity
  session,   \* the Session
  open,      \* whether the panel is open; it shows Panel(session)
  input,    \* events on their way, with what their revision says
  work,      \* the poller and the goroutines, each with the lists it will read
  listing,   \* the list being read, which holds refreshMu
  refresh,   \* the refresh channel
  watch,     \* the event stream: "down", "up", or "debounce"
  clicks, troubles,  \* history: how many
  unlisted,  \* history: docker told of a change that no list has been read after
  armed      \* history: the removal that the user has asked for and not withdrawn

dockerVars == <<actual, session, open, input, work, listing, refresh, watch, clicks, troubles,
                unlisted, armed>>

Poller == 0
Scopes == {"containers", "images"}
Entities(scope) == IF scope = "containers" THEN Containers ELSE Images
Conditions == {"gone", "idle", "busy"}
Idle == [kind |-> "idle", scope |-> None, id |-> None, seed |-> 0, todo |-> <<>>]
Threads == {Poller} \cup Workers

-----------------------------------------------------------------------------
(* The Session.                                                            *)

Present(s, scope) == {e \in Entities(scope) : s.rows[scope][e] # "gone"}
Has(s, scope, e) == e \in Present(s, scope)
Sooner(s, scope, a, b) ==
  IF scope = "containers" /\ s.rows[scope][a] # s.rows[scope][b]
  THEN s.rows[scope][a] = "busy" ELSE a < b
PageOf(s, scope, e) ==
  Cardinality({a \in Present(s, scope) : Sooner(s, scope, a, e)}) \div PageSize
LastPage(s) ==
  LET count == Cardinality(Present(s, s.scope))
  IN IF count = 0 THEN 0 ELSE (count - 1) \div PageSize
OnPage(s, e) == Has(s, s.scope, e) /\ PageOf(s, s.scope, e) = s.page

ActsOn(s, scope, e) == \E verb \in {"start", "stop", "restart", "remove", "run"} :
                          <<scope, verb, e>> \in s.inFlight
CanRemove(s, scope, e) ==
  /\ s.available["containers"] /\ s.available[scope]
  /\ s.rows[scope][e] = "idle" /\ ~ActsOn(s, scope, e)
Eligible(s, verb, e) ==
  /\ s.scope = "containers" /\ s.available["containers"]
  /\ s.rows["containers"][e] = (IF verb = "start" THEN "idle" ELSE "busy")
  /\ ~ActsOn(s, "containers", e)
Passes(s, form) ==
  form.valid /\ s.available["containers"] /\ s.scope = "images" /\ s.available["images"]
             /\ Has(s, "images", form.image)

SetScope(s, scope) ==
  IF s.scope = scope THEN s
  ELSE [s EXCEPT !.scope = scope, !.page = 0, !.selected = None, !.pending = None, !.form = None]
MovePage(s, page) ==
  IF s.available[s.scope] /\ page \in 0..LastPage(s)
  THEN [s EXCEPT !.page = page, !.selected = None, !.pending = None] ELSE s
Turned(s, way) == IF way = "next" THEN MovePage(s, s.page + 1)
                  ELSE IF s.page = 0 THEN s ELSE MovePage(s, s.page - 1)
Select(s, e) ==
  IF ~s.available[s.scope] \/ ~Has(s, s.scope, e) THEN s
  ELSE [s EXCEPT !.selected = IF @ = e THEN None ELSE e]
Arm(s, e) ==
  IF CanRemove(s, s.scope, e) THEN [s EXCEPT !.pending = [scope |-> s.scope, id |-> e]] ELSE s
Disarm(s) == [s EXCEPT !.pending = None]
Edit(s, valid) == IF s.form = None THEN s ELSE [s EXCEPT !.form.valid = valid]

\* A list that was read (rows), or was not.
Fails(s, scope) == IF scope = "containers" THEN [s EXCEPT !.available[scope] = FALSE] ELSE s
Lists(s, scope, rows) ==
  LET new == [s EXCEPT !.available[scope] = TRUE, !.rows[scope] = rows]
      here == s.scope = scope
      cut == here /\ s.page > LastPage(new)
      page == IF cut THEN LastPage(new) ELSE s.page
      stays(e) == /\ ~cut
                  /\ Has(new, scope, e) /\ PageOf(new, scope, e) = page
      gone(e) == here /\ e # None /\ ~stays(e)
  IN [new EXCEPT !.page = page,
                 !.selected = IF gone(@) THEN None ELSE @,
                 !.pending = IF @ # None /\ (gone(@.id) \/ (@.scope = scope /\ ~Has(new, scope, @.id)))
                             THEN None ELSE @]

-----------------------------------------------------------------------------
(* The panel, and what a click on it can say.                              *)

Detail(s) ==
  LET e == IF s.pending # None THEN s.pending.id ELSE s.selected
  IN IF e # None /\ s.available[s.scope] /\ OnPage(s, e) THEN e ELSE None
Prompts(s) == s.form = None /\ s.pending # None /\ Detail(s) # None
Node(name, id) == [name |-> name, id |-> id]

DetailButtons(s, e) ==
  LET free == ~ActsOn(s, s.scope, e)
      ready == s.available["containers"]
      on(name, enabled) == IF enabled THEN {Node(name, e)} ELSE {}
  IN IF Prompts(s) THEN {Node("cancel", None)}
                        \cup (IF free /\ ready THEN {Node("confirm", None)} ELSE {})
     ELSE on("remove", free /\ ready /\ s.rows[s.scope][e] = "idle")
          \cup (IF s.scope = "images" THEN on("run", free /\ ready)
                ELSE on("start", free /\ s.rows[s.scope][e] = "idle")
                     \cup on("stop", free /\ s.rows[s.scope][e] = "busy")
                     \cup on("restart", free /\ s.rows[s.scope][e] = "busy"))
FormButtons(s) ==
  {Node("form:cancel", None), Node("edit", None)}
  \cup IF Passes(s, s.form) /\ ~ActsOn(s, "images", s.form.image)
       THEN {Node("run-submit", None)} ELSE {}
ListButtons(s) ==
  (IF s.available[s.scope] THEN {Node("select", e) : e \in {a \in Present(s, s.scope) : OnPage(s, a)}}
   ELSE {})
  \cup (IF s.available[s.scope] /\ s.page > 0 THEN {Node("previous", None)} ELSE {})
  \cup (IF s.available[s.scope] /\ s.page < LastPage(s) THEN {Node("next", None)} ELSE {})
Buttons(s) ==
  {Node("refresh", None)} \cup {Node(scope, None) : scope \in Scopes}
  \cup IF s.form # None THEN FormButtons(s)
       ELSE ListButtons(s) \cup (IF Detail(s) # None THEN DetailButtons(s, Detail(s)) ELSE {})

\* actionSignature: the controls, but neither the entity that a removal prompt
\* nor the image that a form is about.
Signature(s) == [buttons |-> Buttons(s),
                 form |-> s.form # None /\ s.form.valid,
                 prompt |-> Prompts(s)]

\* The session becomes s and is published; events aimed at what it showed before
\* keep their revision only when the signature does.
Shows(s, waiting) ==
  /\ session' = s
  /\ input' = IF waiting = None \/ Signature(s) = Signature(session) THEN waiting
              ELSE [waiting EXCEPT !.fresh = FALSE]

-----------------------------------------------------------------------------
(* Refresh requests.                                                       *)

Request(containers, active, stale) == [containers |-> containers, active |-> active, stale |-> stale]
NoRequest == Request(FALSE, FALSE, FALSE)
Merged(a, b) ==
  LET forced == (a.active /\ ~a.stale) \/ (b.active /\ ~b.stale)
  IN Request(a.containers \/ b.containers, a.active \/ b.active, (a.active \/ b.active) /\ ~forced)

Enqueue(request) == refresh' = IF refresh = NoRequest THEN request ELSE Merged(refresh, request)

\* What the poller reads for a request: containers first, then the tab that is
\* active by then, of which a stale-only request may find that it is fresh.
Reads(request) ==
  (IF request.containers \/ (request.active /\ session.scope = "containers")
   THEN <<"containers">> ELSE <<>>)
  \o (IF ~request.active THEN <<>> ELSE IF request.stale THEN <<"stale">> ELSE <<"active">>)

TakeRequest ==
  /\ refresh # NoRequest /\ work[Poller].todo = <<>>
  /\ work' = [work EXCEPT ![Poller].todo = Reads(refresh)]
  /\ refresh' = NoRequest
  /\ UNCHANGED <<actual, session, open, input, listing, watch, clicks, troubles, unlisted, armed>>

\* The timer: the interval of the settings while the panel is open, else a minute.
Tick ==
  /\ work[Poller].todo = <<>> /\ troubles < TroublesMax
  /\ troubles' = troubles + 1
  /\ work' = [work EXCEPT ![Poller].todo = Reads(Request(TRUE, open, FALSE))]
  /\ UNCHANGED <<actual, session, open, input, listing, refresh, watch, clicks, unlisted, armed>>

-----------------------------------------------------------------------------
(* Reading lists: every thread does it, one at a time.                     *)

\* A goroutine that has read its last list ends.
Advance(t) == IF t # Poller /\ Len(work[t].todo) = 1 THEN Idle
              ELSE [work[t] EXCEPT !.todo = Tail(@)]

SkipTab(t) ==
  /\ work[t].todo # <<>> /\ Head(work[t].todo) \in {"active", "stale"}
  /\ listing = None
  /\ \/ session.scope = "containers"
     \/ (Head(work[t].todo) = "stale" /\ session.available[session.scope])
  /\ work' = [work EXCEPT ![t] = Advance(t)]
  /\ UNCHANGED <<actual, session, open, input, listing, refresh, watch, clicks, troubles, unlisted, armed>>

\* Docker's answer is applied when it has come, to whatever the session is then.
BeginList(t) ==
  /\ listing = None /\ work[t].todo # <<>>
  /\ LET scope == IF Head(work[t].todo) \in Scopes THEN Head(work[t].todo) ELSE session.scope
     IN /\ Head(work[t].todo) \in Scopes \/ scope # "containers"
        /\ \/ listing' = [by |-> t, scope |-> scope, rows |-> actual[scope]] /\ UNCHANGED troubles
           \/ /\ troubles < TroublesMax /\ troubles' = troubles + 1
              /\ listing' = [by |-> t, scope |-> scope, rows |-> None]
        /\ unlisted' = (unlisted /\ scope # "containers")
  /\ UNCHANGED <<actual, session, open, input, work, refresh, watch, clicks, armed>>

FinishList ==
  /\ listing # None
  /\ Shows(IF listing.rows = None THEN Fails(session, listing.scope)
           ELSE Lists(session, listing.scope, listing.rows), input)
  /\ work' = [work EXCEPT ![listing.by] = Advance(listing.by)]
  /\ listing' = None
  /\ armed' = IF armed # None /\ armed.scope = listing.scope /\ ~Has(session', armed.scope, armed.id)
              THEN None ELSE armed
  /\ UNCHANGED <<actual, open, refresh, watch, clicks, troubles, unlisted>>

-----------------------------------------------------------------------------
(* Goroutines: a container command, a confirmed removal, a run, a form.    *)

Stops(t) == work' = [work EXCEPT ![t] = Idle]
Runs(t, kind, scope, e, seed) ==
  work' = [work EXCEPT ![t] = [Idle EXCEPT !.kind = kind, !.scope = scope, !.id = e, !.seed = seed]]
Reserves(t, scope, verb, e) ==
  /\ Runs(t, verb, scope, e, IF session.form = None THEN 0 ELSE session.form.seed)
  /\ Shows([session EXCEPT !.inFlight = @ \cup {<<scope, verb, e>>}], input)
Commands == {"start", "stop", "restart", "remove", "run"}
InCommand(t) == work[t].kind \in Commands
StartsVerb(t) == work[t].kind \in {"to-start", "to-stop", "to-restart"}
Verb(t) == CASE work[t].kind = "to-start" -> "start" [] work[t].kind = "to-stop" -> "stop"
             [] work[t].kind = "to-restart" -> "restart"

StartAct(t) ==
  /\ StartsVerb(t)
  /\ IF Eligible(session, Verb(t), work[t].id)
     THEN Reserves(t, "containers", Verb(t), work[t].id)
     ELSE Stops(t) /\ UNCHANGED <<session, input>>
  /\ UNCHANGED <<actual, open, listing, refresh, watch, clicks, troubles, unlisted, armed>>

\* As StartRemoval, with the target left armed until the command has ended.
RemovesAgain(t) ==
  /\ work[t].kind = "to-confirm"
  /\ LET target == session.pending
     IN IF target # None /\ target.scope = session.scope
           /\ CanRemove(session, target.scope, target.id)
        THEN /\ Runs(t, "remove", target.scope, target.id, 0)
             /\ Shows([session EXCEPT !.inFlight = @ \cup {<<target.scope, "remove", target.id>>}],
                      input)
             /\ armed' = None
        ELSE Stops(t) /\ UNCHANGED <<session, input, armed>>
  /\ UNCHANGED <<actual, open, listing, refresh, watch, clicks, troubles, unlisted>>
\* The armed removal is consumed, and checked again.
StartRemoval(t) ==
  /\ work[t].kind = "to-confirm"
  /\ LET target == session.pending
         calm == Disarm(session)
     IN IF target # None /\ target.scope = session.scope
           /\ CanRemove(session, target.scope, target.id)
        THEN /\ Runs(t, "remove", target.scope, target.id, 0)
             /\ Shows([calm EXCEPT !.inFlight = @ \cup {<<target.scope, "remove", target.id>>}],
                      input)
             /\ armed' = None
        ELSE Stops(t) /\ Shows(calm, input) /\ UNCHANGED armed
  /\ UNCHANGED <<actual, open, listing, refresh, watch, clicks, troubles, unlisted>>

StartRun(t) ==
  /\ work[t].kind = "to-run"
  /\ IF session.form # None /\ Passes(session, session.form)
        /\ ~ActsOn(session, "images", session.form.image)
     THEN Reserves(t, "images", "run", session.form.image)
     ELSE Stops(t) /\ UNCHANGED <<session, input>>
  /\ UNCHANGED <<actual, open, listing, refresh, watch, clicks, troubles, unlisted, armed>>

\* The image must be selected both before and after the networks are read.
Pictured(e) == session.scope = "images" /\ session.selected = e /\ session.available["images"]
               /\ Has(session, "images", e)
StartForm(t) ==
  /\ work[t].kind = "to-form"
  /\ IF Pictured(work[t].id) THEN Runs(t, "form", "images", work[t].id, 0) ELSE Stops(t)
  /\ UNCHANGED <<actual, session, open, input, listing, refresh, watch, clicks, troubles, unlisted, armed>>
OpenForm(t) ==
  /\ work[t].kind = "form"
  /\ Stops(t)
  /\ IF Pictured(work[t].id)
     THEN Shows([session EXCEPT !.seed = @ + 1,
                                !.form = [image |-> work[t].id, seed |-> session.seed + 1,
                                          valid |-> TRUE]], input)
     ELSE UNCHANGED <<session, input>>
  /\ UNCHANGED <<actual, open, listing, refresh, watch, clicks, troubles, unlisted, armed>>

\* What docker does with a command; a command cut off at its timeout may have
\* worked.  Docker refuses to remove what is busy.  The container that a run makes
\* comes as a change of its own.
Effect(kind, condition) ==
  CASE kind = "start" /\ condition = "idle" -> "busy"
    [] kind = "stop" /\ condition = "busy" -> "idle"
    [] kind = "remove" /\ condition = "idle" -> "gone"
    [] kind = "run" /\ condition # "gone" -> "busy"
    [] OTHER -> condition
Told(scope, changed) ==
  LET news == changed /\ scope = "containers" /\ watch # "down"
  IN /\ watch' = IF news THEN "debounce" ELSE watch
     /\ unlisted' = (unlisted \/ news)

EndCommand(t) ==
  /\ InCommand(t)
  /\ \E worked, answered \in BOOLEAN :
       LET w == work[t]
           was == actual[w.scope][w.id]
           now == IF worked THEN Effect(w.kind, was) ELSE was
           done == [session EXCEPT !.inFlight = @ \ {<<w.scope, w.kind, w.id>>}]
           fine == worked /\ answered
           mine == w.kind = "run" /\ session.form # None /\ session.form.seed = w.seed
       IN /\ actual' = [actual EXCEPT ![w.scope][w.id] = now]
          /\ Told(w.scope, now # was)
          /\ Shows(IF mine /\ fine THEN [done EXCEPT !.form = None]
                   ELSE IF mine THEN [done EXCEPT !.form.valid = FALSE] ELSE done, input)
          /\ work' = [work EXCEPT ![t] =
                        IF w.kind = "run" /\ ~fine THEN Idle
                        ELSE [Idle EXCEPT !.kind = "refresh",
                                          !.todo = IF w.kind = "run" THEN <<"containers", "images">>
                                                   ELSE <<w.scope>>]]
  /\ UNCHANGED <<open, listing, refresh, clicks, troubles, armed>>

-----------------------------------------------------------------------------
(* The event loop.                                                         *)

Click ==
  /\ open /\ clicks < ClicksMax /\ input = None
  /\ \E node \in Buttons(session) : input' = [node |-> node, fresh |-> TRUE]
  /\ clicks' = clicks + 1
  /\ UNCHANGED <<actual, session, open, work, listing, refresh, watch, troubles, unlisted, armed>>

Launches(kind, e) ==
  \E t \in Workers : /\ work[t] = Idle /\ \A u \in Workers : u < t => work[u] # Idle
                     /\ Runs(t, kind, None, e, 0)

\* A click is dropped unless its revision is between the last change of content
\* and the present one.
HandleStale ==
  /\ input # None /\ ~input.fresh
  /\ input' = None
  /\ UNCHANGED <<actual, session, open, work, listing, refresh, watch, clicks, troubles, unlisted, armed>>

HandleLaunch ==
  /\ input # None /\ input.fresh
  /\ LET node == input.node
     IN \/ /\ node.name \in {"start", "stop", "restart"}
           /\ Launches(CASE node.name = "start" -> "to-start" [] node.name = "stop" -> "to-stop"
                         [] OTHER -> "to-restart", node.id)
        \/ node.name = "confirm" /\ Launches("to-confirm", None)
        \/ node.name = "run-submit" /\ Launches("to-run", None)
        \/ node.name = "run" /\ Launches("to-form", node.id)
  /\ input' = None
  /\ UNCHANGED <<actual, session, open, listing, refresh, watch, clicks, troubles, unlisted, armed>>

HandleClick ==
  /\ input # None /\ input.fresh
  /\ LET node == input.node
     IN
     /\ \/ /\ node.name = "refresh" /\ Enqueue(Request(TRUE, TRUE, FALSE))
           /\ input' = None /\ UNCHANGED session
        \/ /\ node.name \in Scopes /\ Shows(SetScope(session, node.name), None)
           /\ \/ Enqueue(Request(FALSE, TRUE, TRUE))
              \/ session.available[node.name] /\ UNCHANGED refresh
        \/ /\ node.name \in {"next", "previous"} /\ UNCHANGED refresh
           /\ Shows(Turned(session, node.name), None)
        \/ node.name = "select" /\ Shows(Select(session, node.id), None) /\ UNCHANGED refresh
        \/ node.name = "remove" /\ Shows(Arm(session, node.id), None) /\ UNCHANGED refresh
        \/ node.name = "cancel" /\ Shows(Disarm(session), None) /\ UNCHANGED refresh
        \/ /\ node.name = "edit" /\ UNCHANGED refresh
           /\ \E valid \in BOOLEAN : Shows(Edit(session, valid), None)
        \/ /\ node.name = "form:cancel" /\ UNCHANGED refresh
           /\ Shows([session EXCEPT !.form = None], None)
     /\ armed' = CASE node.name = "remove" -> [scope |-> session.scope, id |-> node.id]
                   [] node.name \in {"cancel", "next", "previous"} -> None
                   [] node.name \in Scopes \ {session.scope} -> None
                   [] OTHER -> armed
  /\ UNCHANGED <<actual, open, work, listing, watch, clicks, troubles, unlisted>>

OpenPanel ==
  /\ ~open /\ clicks < ClicksMax
  /\ open' = TRUE /\ clicks' = clicks + 1
  /\ Enqueue(Request(FALSE, TRUE, FALSE))
  /\ UNCHANGED <<actual, session, input, work, listing, watch, troubles, unlisted, armed>>
ClosePanel ==
  /\ open /\ clicks < ClicksMax
  /\ open' = FALSE /\ clicks' = clicks + 1
  /\ input' = None
  /\ UNCHANGED <<actual, session, work, listing, refresh, watch, troubles, unlisted, armed>>

-----------------------------------------------------------------------------
(* Docker and its event stream.                                            *)

DockerChanges ==
  /\ troubles < TroublesMax
  /\ troubles' = troubles + 1
  /\ \E scope \in Scopes : \E e \in Entities(scope), c \in Conditions :
       /\ actual[scope][e] # c
       /\ actual' = [actual EXCEPT ![scope][e] = c]
       /\ Told(scope, TRUE)
  /\ UNCHANGED <<session, open, input, work, listing, refresh, clicks, armed>>

StreamOpens ==
  /\ watch = "down" /\ watch' = "up"
  /\ UNCHANGED <<actual, session, open, input, work, listing, refresh, clicks, troubles, unlisted, armed>>
StreamEnds ==
  /\ watch # "down" /\ troubles < TroublesMax
  /\ troubles' = troubles + 1 /\ watch' = "down"
  /\ IF watch = "debounce" THEN Enqueue(Request(TRUE, FALSE, FALSE)) ELSE UNCHANGED refresh
  /\ UNCHANGED <<actual, session, open, input, work, listing, clicks, unlisted, armed>>
Debounced ==
  /\ watch = "debounce" /\ watch' = "up"
  /\ Enqueue(Request(TRUE, FALSE, FALSE))
  /\ UNCHANGED <<actual, session, open, input, work, listing, clicks, troubles, unlisted, armed>>

-----------------------------------------------------------------------------
NewSession ==
  [scope |-> "containers", page |-> 0, selected |-> None, pending |-> None, inFlight |-> {},
   available |-> [scope \in Scopes |-> FALSE],
   rows |-> [scope \in Scopes |-> [e \in Entities(scope) |-> "gone"]],
   form |-> None, seed |-> 0]

DockerInit ==
  /\ actual = [scope \in Scopes |-> [e \in Entities(scope) |-> "idle"]]
  /\ session = NewSession /\ open = TRUE /\ input = None
  /\ work = [t \in Threads |-> IF t = Poller THEN [Idle EXCEPT !.todo = Reads(Request(TRUE, TRUE, FALSE))]
                               ELSE Idle]
  /\ listing = None /\ refresh = NoRequest /\ watch = "up"
  /\ clicks = 0 /\ troubles = 0 /\ unlisted = FALSE /\ armed = None

ThreadStep(t) ==
  \/ SkipTab(t) \/ BeginList(t)
  \/ StartAct(t) \/ StartRemoval(t) \/ StartRun(t) \/ StartForm(t) \/ OpenForm(t) \/ EndCommand(t)
DockerNext ==
  \/ \E t \in Threads : ThreadStep(t)
  \/ FinishList \/ TakeRequest \/ Tick
  \/ Click \/ HandleStale \/ HandleLaunch \/ HandleClick \/ OpenPanel \/ ClosePanel
  \/ DockerChanges \/ StreamOpens \/ StreamEnds \/ Debounced
DockerSpec == DockerInit /\ [][DockerNext]_dockerVars

-----------------------------------------------------------------------------
(* Properties.                                                             *)

\* No two commands run on one entity, and an entity's buttons are disabled
\* exactly while one does (entityActionInFlightLocked): clicks queue, goroutines
\* start late, and each checks for itself.
OneCommandEach ==
  /\ session.inFlight = {<<work[t].scope, work[t].kind, work[t].id>> : t \in {u \in Workers : InCommand(u)}}
  /\ \A t, u \in Workers : t # u /\ InCommand(t) /\ InCommand(u)
                           => <<work[t].scope, work[t].id>> # <<work[u].scope, work[u].id>>

\* A removal begins only for the entity that the user asked to remove, has since
\* not turned away from, and has not seen gone; and for each time once, however
\* often Confirm is clicked.
RemovalWasAsked ==
  \A t \in Workers : work'[t].kind = "remove" /\ work[t].kind # "remove"
                   => armed = [scope |-> work'[t].scope, id |-> work'[t].id] /\ armed' = None

\* After docker has told of a change a list of containers is read, though requests
\* for it are merged, the stream may break, and the poller may be busy.
NewsIsRead ==
  unlisted => \/ watch = "debounce" \/ refresh.containers
              \/ \E t \in Threads : "containers" \in Range(work[t].todo)

\* The user is obeyed: no two commands run on an entity, no change that docker tells of
\* is left unread, and a removal runs once, for what was asked (service.go).
DockerObeys == [](OneCommandEach /\ NewsIsRead) /\ [][RemovalWasAsked]_dockerVars
=============================================================================
