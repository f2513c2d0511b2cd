--------------------------- MODULE NotesStickies ---------------------------
(***************************************************************************)
(* The sticky notes of cmd/sysc-plugin-notes: the loop, which owns the     *)
(* views and a copy of the pins, and the ordered worker that does its host *)
(* calls, with the keys of the host's state in which a sticky is kept.     *)
(*                                                                         *)
(* What is in the notes is the subject of the module Notes: here a note is *)
(* its name.  There is one output, the panel is open, and a job is one     *)
(* step of the worker, which alone writes the keys.  Every surface.open    *)
(* opens a surface.  Colours, titles and places are left out.              *)
(***************************************************************************)
EXTENDS Absent, Naturals, Sequences, FiniteSets, FiniteSetsExt

CONSTANTS Names,        \* names of notes, which are their first surface keys
          ViewsMax,     \* bound: surfaces the host opens
          QueueSize,    \* jobs that wait (32)
          ClicksMax,    \* bound: what the user does
          TroublesMax  \* bound: host calls that fail

StickiesAssumption == {ViewsMax, QueueSize, ClicksMax, TroublesMax} \subseteq Nat

VARIABLES files,     \* the notes there are
          host,      \* surfaces, the messages on the way, the keys key: and pinned
          views,     \* the loop's floating views: a name (None: not resolved yet), pinned
          closed,    \* closedViews
          cache,     \* pins and pinsLoaded: a set of names, or None
          waiting,   \* pendingOpen, pendingPins, restorePending
          jobs, results,
          limits     \* what is left of the bounds

stickiesVars == <<files, host, views, closed, cache, waiting, jobs, results, limits>>

Ids == 1..ViewsMax
Open(h) == {id \in Ids : h.surfaces[id] # None}
Shown == {id \in Ids : views[id] # None}

\* stickyKey: the key that is kept, or the one of the name.
KeyOf(h, n) == IF h.keys[n] = None THEN n ELSE h.keys[n]

----------------------------------------------------------------------------
(* The host *)

Unopened(h) == {id \in Ids : id > h.opened}

\* surface.open, and surface.pin after it: a view, whose view.open is on its way.
OpenAt(h, n) ==
  LET id == Min(Unopened(h)) IN
  [h EXCEPT !.opened = id, !.surfaces[id] = [key |-> KeyOf(h, n), pinned |-> n \in h.pins],
            !.mail = Append(@, [kind |-> "open", id |-> id, key |-> KeyOf(h, n)])]

CloseAt(h, id) ==
  IF id \notin Open(h) THEN h
  ELSE [h EXCEPT !.surfaces[id] = None, !.mail = Append(@, [kind |-> "close", id |-> id])]

----------------------------------------------------------------------------
(* The worker: what a job makes of the host, and its result.  Each is a    *)
(* set: with fail, some call of the job fails.                             *)

Result(kind, job) == [kind |-> kind, job |-> job, ok |-> FALSE, id |-> None, name |-> None,
                      pinned |-> FALSE, pins |-> None, removed |-> {}, opened |-> <<>>]

\* openStickyHost: a view whose pin fails is still a view.
OpenJob(j, fail) ==
  LET r == Result("sticky-open", j)
      h == OpenAt(host, j.name)
      shown == [r EXCEPT !.id = h.opened, !.name = j.name, !.pinned = j.name \in h.pins,
                         !.pins = h.pins] IN
  IF Unopened(host) = {} THEN {<<host, r>>}
  ELSE IF fail THEN {<<host, r>>, <<[h EXCEPT !.surfaces[h.opened].pinned = FALSE], shown>>}
  ELSE {<<h, [shown EXCEPT !.ok = TRUE]>>}

\* resolveSticky: the pinned notes, and those the loop knows, by their keys.
ResolveJob(j, fail) ==
  LET r == Result("resolve-sticky", j)
      found == {n \in host.pins \cup j.known : KeyOf(host, n) = j.key} IN
  IF fail \/ found = {} THEN {<<host, [r EXCEPT !.id = j.id]>>}
  ELSE {<<host, [r EXCEPT !.id = j.id, !.name = n, !.pinned = n \in host.pins, !.ok = TRUE]>> : n \in found}

\* setPinned, with one output.
SetPinned(pins, n, on) == IF on THEN pins \cup {n} ELSE pins \ {n}

\* pinSticky: the saved pins first, and back when the surface cannot be pinned, if that
\* does not fail too.
PinJob(j, fail) ==
  LET r == [Result("sticky-pin", j) EXCEPT !.id = j.id, !.name = j.name]
      on == j.name \notin host.pins
      pins == SetPinned(host.pins, j.name, on) IN
  IF fail \/ j.id \notin Open(host)
  THEN {<<host, r>>} \cup IF fail THEN {<<[host EXCEPT !.pins = pins], r>>} ELSE {}
  ELSE {<<[host EXCEPT !.pins = pins, !.surfaces[j.id].pinned = on],
          [r EXCEPT !.pins = pins, !.pinned = on, !.ok = TRUE]>>}

CloseJob(j, fail) ==
  {<<IF fail THEN host ELSE CloseAt(host, j.id), [Result("sticky-close", j) EXCEPT !.ok = ~fail]>>}

\* migrateNoteState: the key goes with the note and the old name gets one of its own; a
\* call that fails leaves the rest undone.
Migrated(h, j) ==
  LET moved == [h EXCEPT !.keys[j.new] = KeyOf(h, j.name)]
      apart == [moved EXCEPT !.keys[j.name] = <<j.name, h.stamp>>, !.stamp = @ + 1] IN
  <<moved, apart,
    [apart EXCEPT !.pins = IF j.name \in @ THEN (@ \ {j.name}) \cup {j.new} ELSE @]>>

\* afterRename: each of the note's stickies is closed and opened under the new name.
Reopened(h, j) ==
  FoldSet(LAMBDA id, acc :
            IF id \notin Open(acc.h) THEN acc
            ELSE LET c == CloseAt(acc.h, id) IN
                 IF Unopened(c) = {} THEN [acc EXCEPT !.h = c, !.removed = @ \cup {id}]
                 ELSE LET o == OpenAt(c, j.new) IN
                      [h |-> o, removed |-> acc.removed \cup {id},
                       opened |-> Append(acc.opened, o.opened)],
          [h |-> h, removed |-> {}, opened |-> <<>>], j.ids)

RenameJob(j, fail) ==
  LET r == [Result("rename", j) EXCEPT !.name = j.new]
      m == Migrated(host, j) IN
  IF fail THEN {<<host, r>>, <<m[1], r>>, <<m[2], r>>, <<m[3], [r EXCEPT !.pins = m[3].pins]>>}
  ELSE LET e == Reopened(m[3], j) IN
       {<<e.h, [r EXCEPT !.pins = e.h.pins, !.pinned = j.new \in e.h.pins, !.removed = e.removed,
                         !.opened = e.opened, !.ok = TRUE]>>}

\* closeDeleted: its stickies, its keys, and its pin in the pins the loop had.
DeleteJob(j, fail) ==
  LET r == Result("delete-note", j)
      pins == SetPinned(IF j.pins = None THEN host.pins ELSE j.pins, j.name, FALSE)
      gone == FoldSet(LAMBDA id, h : CloseAt(h, id), host, j.ids) IN
  {<<[gone EXCEPT !.keys[j.name] = None, !.pins = pins],
     [r EXCEPT !.removed = j.ids \cap Open(host), !.pins = pins, !.ok = TRUE]>>}
  \cup IF fail THEN {<<[gone EXCEPT !.keys[j.name] = None], [r EXCEPT !.removed = j.ids \cap Open(host)]>>,
                     <<[host EXCEPT !.keys[j.name] = None, !.pins = pins], [r EXCEPT !.pins = pins]>>}
       ELSE {}

RestoreJob(j, fail) ==
  {<<host, [Result("restore-pins", j) EXCEPT !.pins = IF fail THEN None ELSE host.pins, !.ok = ~fail]>>}

Outcomes(j, fail) ==
  CASE j.kind = "open" -> OpenJob(j, fail) [] j.kind = "resolve" -> ResolveJob(j, fail)
    [] j.kind = "pin" -> PinJob(j, fail) [] j.kind = "close" -> CloseJob(j, fail)
    [] j.kind = "rename" -> RenameJob(j, fail) [] j.kind = "delete" -> DeleteJob(j, fail)
    [] OTHER -> RestoreJob(j, fail)

Work ==
  /\ jobs # <<>> /\ jobs' = Tail(jobs)
  /\ \E fail \in BOOLEAN :
       /\ IF fail THEN limits.troubles > 0 /\ limits' = [limits EXCEPT !.troubles = @ - 1]
          ELSE UNCHANGED limits
       /\ \E o \in Outcomes(Head(jobs), fail) : host' = o[1] /\ results' = Append(results, o[2])
  /\ UNCHANGED <<files, views, closed, cache, waiting>>

----------------------------------------------------------------------------
(* The loop: its jobs *)

\* submit: a queue that is full refuses, and what waits for the job is not kept.
Submits(j, w) ==
  IF Len(jobs) < QueueSize THEN jobs' = Append(jobs, j) /\ waiting' = w
  ELSE UNCHANGED <<jobs, waiting>>

\* openSticky, for the names, in some order.
OpensStickies(w, names) ==
  \E order \in {s \in [1..Cardinality(names) -> names] : {s[i] : i \in DOMAIN s} = names} :
    LET room == QueueSize - Len(jobs)
        taken == SubSeq(order, 1, IF Len(order) < room THEN Len(order) ELSE room) IN
    /\ jobs' = jobs \o [i \in DOMAIN taken |->
                 [kind |-> "open", name |-> taken[i], token |-> w.token + i]]
    /\ waiting' = [w EXCEPT !.token = @ + Len(taken), !.opens =
                 @ \cup {[token |-> w.token + i, name |-> taken[i]] : i \in DOMAIN taken}]

\* queueRestoredPins: the pins that have no sticky yet and none on its way.
Restorable(pins, w) ==
  (pins \cap files) \ ({views[id].name : id \in Shown} \cup {o.name : o \in w.opens})

Click == limits.clicks > 0 /\ limits' = [limits EXCEPT !.clicks = @ - 1]

\* view.open of the panel: restorePins.
PanelOpens ==
  /\ Click /\ UNCHANGED <<files, host, views, closed, cache, results>>
  /\ IF cache # None THEN OpensStickies(waiting, Restorable(cache, waiting))
     ELSE ~waiting.restore /\ Submits([kind |-> "restore"], [waiting EXCEPT !.restore = TRUE])

StickyPressed ==
  /\ Click /\ \E n \in files : OpensStickies(waiting, {n})
  /\ UNCHANGED <<files, host, views, closed, cache, results>>

PinPressed ==
  /\ Click
  /\ \E id \in Shown \ waiting.pins :
       /\ id \in Open(host) /\ views[id].name # None
       /\ Submits([kind |-> "pin", id |-> id, name |-> views[id].name],
                  [waiting EXCEPT !.pins = @ \cup {id}])
  /\ UNCHANGED <<files, host, views, closed, cache, results>>

ClosePressed ==
  /\ Click
  /\ \E id \in Shown \cap Open(host) : Submits([kind |-> "close", id |-> id], waiting)
  /\ UNCHANGED <<files, host, views, closed, cache, results>>

\* retargetStickies, and afterRename.
Rename ==
  /\ Click
  /\ \E n \in files, m \in Names \ files :
       LET ids == {id \in Shown : views[id].name = n} IN
       /\ files' = (files \ {n}) \cup {m}
       /\ views' = [id \in Ids |-> IF id \in ids THEN [views[id] EXCEPT !.name = m] ELSE views[id]]
       /\ Submits([kind |-> "rename", name |-> n, new |-> m, ids |-> ids], waiting)
  /\ UNCHANGED <<host, closed, cache, results>>

Create ==
  /\ Click /\ \E n \in Names \ files : files' = files \cup {n}
  /\ UNCHANGED <<host, views, closed, cache, waiting, jobs, results>>

\* closeNote: without room for the job nothing is deleted.
Delete ==
  /\ Click /\ Len(jobs) < QueueSize
  /\ \E n \in files :
       /\ files' = files \ {n}
       /\ Submits([kind |-> "delete", name |-> n, pins |-> cache,
                   ids |-> {id \in Shown : views[id].name = n}], waiting)
  /\ UNCHANGED <<host, views, closed, cache, results>>

----------------------------------------------------------------------------
(* The loop: messages and results *)

Known == {views[id].name : id \in Shown} \cup {o.name : o \in waiting.opens}

\* view.open of a sticky: one the loop has named is drawn, another is looked up.
ViewOpen(id, key) ==
  /\ closed' = closed \ {id}
  /\ IF views[id] # None /\ views[id].name # None THEN UNCHANGED <<views, jobs, waiting>>
     ELSE /\ Submits([kind |-> "resolve", id |-> id, key |-> key, known |-> Known \ {None}], waiting)
          /\ views' = [views EXCEPT ![id] = IF @ = None THEN [name |-> None, pinned |-> FALSE] ELSE @]

ViewClose(id) ==
  /\ closed' = closed \cup {id} /\ views' = [views EXCEPT ![id] = None]
  /\ waiting' = [waiting EXCEPT !.pins = @ \ {id}] /\ UNCHANGED jobs

TakeMail ==
  /\ host.mail # <<>> /\ host' = [host EXCEPT !.mail = Tail(@)]
  /\ LET m == Head(host.mail) IN IF m.kind = "open" THEN ViewOpen(m.id, m.key) ELSE ViewClose(m.id)
  /\ UNCHANGED <<files, cache, results, limits>>

\* As Appears, but a view that has been closed meanwhile is taken too.
AppearsAgain(id) == TRUE

\* A view that has been closed before its result is in does not come back.
Appears(id) == id \notin closed

Showing(vs, ids, v) == [id \in Ids |-> IF id \in ids /\ Appears(id) THEN v ELSE vs[id]]

Unpinned(r) == [waiting EXCEPT !.pins = @ \ {r.id}]

ViewsAfter(r) ==
  CASE r.kind = "sticky-open" -> Showing(views, {r.id} \ {None}, [name |-> r.name, pinned |-> r.pinned])
    [] r.kind = "resolve-sticky" /\ views[r.id] # None ->
         [views EXCEPT ![r.id] = IF r.ok THEN [name |-> r.name, pinned |-> r.pinned] ELSE None]
    [] r.kind = "sticky-pin" /\ r.ok /\ views[r.id] # None /\ views[r.id].name = r.name ->
         [views EXCEPT ![r.id].pinned = r.pinned]
    [] r.kind \in {"delete-note", "rename"} ->
         Showing([id \in Ids |-> IF id \in r.removed THEN None ELSE views[id]],
                 {r.opened[i] : i \in DOMAIN r.opened}, [name |-> r.name, pinned |-> r.pinned])
    [] OTHER -> views

TakeResult ==
  /\ results # <<>> /\ results' = Tail(results)
  /\ LET r == Head(results) IN
       /\ views' = ViewsAfter(r)
       /\ cache' = IF r.pins = None THEN cache ELSE r.pins
       /\ CASE r.kind = "restore-pins" ->
                 OpensStickies([waiting EXCEPT !.restore = FALSE],
                               IF r.ok THEN Restorable(r.pins, waiting) ELSE {})
            [] r.kind = "sticky-open" ->
                 /\ waiting' = [waiting EXCEPT !.opens = {o \in @ : o.token # r.job.token}]
                 /\ UNCHANGED jobs
            [] r.kind = "sticky-pin" -> waiting' = Unpinned(r) /\ UNCHANGED jobs
            [] OTHER -> UNCHANGED <<waiting, jobs>>
  /\ UNCHANGED <<files, host, closed, limits>>

\* The host closes a surface on its own.
HostCloses ==
  /\ Click /\ \E id \in Open(host) : host' = CloseAt(host, id)
  /\ UNCHANGED <<files, views, closed, cache, waiting, jobs, results>>

\* A start, with pins of an earlier session.
StickiesInit ==
  /\ files \in SUBSET Names
  /\ \E pins \in SUBSET files :
       host = [surfaces |-> [id \in Ids |-> None], opened |-> 0, mail |-> <<>>, stamp |-> 0,
               keys |-> [n \in Names |-> None], pins |-> pins]
  /\ views = [id \in Ids |-> None] /\ closed = {} /\ cache = None
  /\ waiting = [opens |-> {}, pins |-> {}, restore |-> FALSE, token |-> 0]
  /\ jobs = <<>> /\ results = <<>>
  /\ limits = [clicks |-> ClicksMax, troubles |-> TroublesMax]

User == PanelOpens \/ StickyPressed \/ PinPressed \/ ClosePressed \/ Rename \/ Create \/ Delete \/ HostCloses
StickiesNext == Work \/ TakeMail \/ TakeResult \/ User

StickiesSpec == StickiesInit /\ [][StickiesNext]_stickiesVars

----------------------------------------------------------------------------
(* Properties *)

Closing(id) == \E i \in DOMAIN host.mail : host.mail[i] = [kind |-> "close", id |-> id]

\* A sticky that is closed does not come back among the views, whatever of it is still
\* queued: a view is on the screen or its view.close is on the way (closedViews, main.go:629, 697, 746).
ClosedStayClosed == \A id \in Shown : id \in Open(host) \/ Closing(id)

InFlight == {jobs[i] : i \in DOMAIN jobs} \cup {results[i].job : i \in DOMAIN results}

\* What the loop waits for is in the queue or done: no pin button, sticky or restore waits
\* for an answer that does not come.
WaitersHaveJobs ==
  /\ \A id \in waiting.pins : \E j \in InFlight : j.kind = "pin" /\ j.id = id
  /\ \A o \in waiting.opens : \E j \in InFlight : j.kind = "open" /\ j.token = o.token
  /\ waiting.restore => \E j \in InFlight : j.kind = "restore"

Quiet == jobs = <<>> /\ results = <<>> /\ host.mail = <<>>

\* Two notes do not share a surface key: a new note of an old name does not inherit the
\* place of the note that had it (main.go:955-956).
KeysApart ==
  Quiet /\ limits.troubles = TroublesMax =>
    \A n, m \in files : n # m => KeyOf(host, n) # KeyOf(host, m)
=============================================================================
