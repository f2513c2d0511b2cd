----------------------------- MODULE WorldClock -----------------------------
(***************************************************************************)
(* The world clock: the loop of cmd/sysc-plugin-world-clock with its load  *)
(* worker and its saver, over the zone list of plugins/world-clock.        *)
(*                                                                         *)
(* A search text is the zone it finds, and a zone is its place on the bar  *)
(* or not.  One panel is modelled.  Labels, the bar itself and the tickers *)
(* that only draw the time are left out; the saver is the one StateSaver   *)
(* specifies, here reduced to its latest value.                            *)
(***************************************************************************)
EXTENDS Naturals, Sequences, SequencesExt

CONSTANTS Zones,        \* ids of zones
          Default,      \* the zones of a first start, each with a place on the bar
          PendingMax,   \* the inputs that wait for the load (32)
          RetriesMax,   \* maxLoadRetries
          ClicksMax,    \* bound: what the user does
          TroublesMax,  \* bound: calls of the host that fail
          None

WorldClockAssumption ==
  /\ Default \in Seq(Zones) /\ PendingMax \in Nat \ {0} /\ RetriesMax \in Nat
  /\ ClicksMax \in Nat /\ TroublesMax \in Nat

VARIABLES stored,    \* the zone list the host keeps, or None
          session,   \* the list, the search, the row edit, the errors
          panel,     \* the open view: its revision, and searchFloor
          shown,     \* what the host shows of it: a revision and a reseed
          incoming,  \* inputs on the way
          pending,   \* pendingInputs
          load,      \* loaded, the load under way, loadRetries
          saver,     \* the save that waits, the one at the host, the latest result
          deleted,   \* history: the zones the user deleted
          limits     \* what is left of the bounds

clockVars == <<stored, session, panel, shown, incoming, pending, load, saver, deleted, limits>>

OnBar(z) == [id |-> z, bar |-> TRUE]
Ids(zones) == {zones[i].id : i \in DOMAIN zones}
IndexOf(zones, z) == CHOOSE i \in DOMAIN zones : zones[i].id = z
DefaultZones == [i \in DOMAIN Default |-> OnBar(Default[i])]

----------------------------------------------------------------------------
(* What an input does to the session and the panel: u is a record of both  *)

\* snapshot: the first revision that carries the reseed of the search is its floor.
Snapshot(u) ==
  IF ~u.open THEN u
  ELSE LET r == u.rev + 1 IN
       [u EXCEPT !.rev = r, !.floor = IF u.gen # u.seed THEN r ELSE @, !.gen = u.seed]

Change(u, zones) == [u EXCEPT !.zones = zones, !.dirty = TRUE]

\* Store.Add: a zone that is there is an error, a new one clears the search and the edit.
Add(u, z) ==
  IF z \in Ids(u.zones) THEN [u EXCEPT !.note = "other"]
  ELSE [Change(u, Append(u.zones, OnBar(z)))
          EXCEPT !.query = None, !.seed = @ + 1, !.note = "", !.edit = None]

AddTop(u) == IF u.query = None THEN u ELSE Add(u, u.query)

\* As IsHeard, but the text a reseed has cleared is taken too.
HearsAll(u, e) == TRUE

\* A search text of before the reseed was typed into a field that is gone.
IsHeard(u, e) == e.rev >= u.floor

\* Store.Reorder: to the front.
ToFront(zones, z) ==
  <<zones[IndexOf(zones, z)]>> \o SelectSeq(zones, LAMBDA zone : zone.id # z)

\* handle.
Handled(u, e) ==
  CASE e.kind = "search" -> IF IsHeard(u, e) THEN [u EXCEPT !.query = e.zone, !.note = ""] ELSE u
    [] e.kind = "submit" ->
         IF IsHeard(u, e) THEN AddTop([u EXCEPT !.query = e.zone, !.note = ""]) ELSE u
    [] e.kind = "add" -> AddTop(u)
    [] e.kind = "pick" -> Add(u, e.zone)
    [] e.kind = "bar" /\ e.zone \in Ids(u.zones) ->
         Change(u, [u.zones EXCEPT ![IndexOf(u.zones, e.zone)].bar = ~@])
    [] e.kind = "drop" /\ e.zone \in Ids(u.zones) /\ IndexOf(u.zones, e.zone) # 1 ->
         Change(u, ToFront(u.zones, e.zone))
    [] e.kind = "del" /\ e.zone \in Ids(u.zones) -> [u EXCEPT !.edit = e.zone]
    [] e.kind = "del-cancel" -> [u EXCEPT !.edit = None]
    [] e.kind = "del-ok" /\ u.edit \in Ids(u.zones) ->
         [Change(u, SelectSeq(u.zones, LAMBDA zone : zone.id # u.edit)) EXCEPT !.edit = None]
    [] OTHER -> u

\* The session and the panel as one record, and back; a change is saved (SaveTracked).
Unit == [zones |-> session.zones, query |-> session.query, seed |-> session.seed,
         edit |-> session.edit, note |-> session.note, dirty |-> FALSE,
         open |-> panel.open, rev |-> panel.rev, floor |-> panel.floor, gen |-> panel.gen]
Becomes(u) ==
  /\ session' = [zones |-> u.zones, query |-> u.query, seed |-> u.seed, edit |-> u.edit,
                 note |-> u.note, saveErr |-> session.saveErr /\ ~u.dirty]
  /\ panel' = [open |-> u.open, rev |-> u.rev, floor |-> u.floor, gen |-> u.gen]
  /\ saver' = IF u.dirty THEN [saver EXCEPT !.pending = u.zones, !.result = None] ELSE saver
  /\ deleted' = deleted \cup (IF u.dirty THEN Ids(session.zones) \ Ids(u.zones) ELSE {})

----------------------------------------------------------------------------
(* The loop *)

\* An input before the load is in waits for it; a search is also shown at once.
Deferred(e) ==
  IF Len(pending) = PendingMax
  THEN /\ Becomes(Snapshot([Unit EXCEPT !.note = "still"]))
       /\ UNCHANGED <<pending, load>>
  ELSE /\ pending' = Append(pending, e)
       /\ Becomes(Snapshot([(IF e.kind = "search" THEN Handled(Unit, e) ELSE Unit)
                              EXCEPT !.note = "loading"]))
       /\ load' = IF load.stage = "idle" THEN [load EXCEPT !.stage = "asked"] ELSE load

TakeInput ==
  /\ incoming # <<>> /\ incoming' = Tail(incoming)
  /\ LET e == Head(incoming) IN
       IF load.loaded
       THEN Becomes(Snapshot(Handled(Unit, e))) /\ UNCHANGED <<pending, load>>
       ELSE Deferred(e)
  /\ UNCHANGED <<stored, shown, limits>>

\* The load worker: state.get of the zones, which the host answers or not.
ReadZones ==
  /\ load.stage = "asked"
  /\ \/ load' = [load EXCEPT !.stage = "read"] /\ UNCHANGED limits
     \/ /\ limits.troubles > 0 /\ limits' = [limits EXCEPT !.troubles = @ - 1]
        /\ load' = [load EXCEPT !.stage = "failed"]
  /\ UNCHANGED <<stored, session, panel, shown, incoming, pending, saver, deleted>>

\* The inputs that waited, in order, but for those of a view that is gone.
Replayed(u, inputs) ==
  FoldLeft(LAMBDA v, e : IF e.open THEN Snapshot(Handled(v, e)) ELSE v, u, inputs)

\* restoreResult: the list of the host, or the defaults when it never had one.
Restored(zones) ==
  Replayed([Unit EXCEPT !.zones = zones, !.edit = None,
                        !.note = IF @ \in {"loading", "failed"} THEN "" ELSE @], pending)

\* As AfterFailure, but the inputs that wait go on waiting.
KeepsWaiting ==
  /\ load' = [load EXCEPT !.stage = "idle"]
  /\ Becomes(Snapshot([Unit EXCEPT !.note = "failed"]))
  /\ UNCHANGED pending

\* A load that failed is tried again for the inputs that wait, and then they are dropped.
AfterFailure ==
  LET again == pending # <<>> /\ load.retries < RetriesMax IN
  /\ load' = IF again THEN [load EXCEPT !.stage = "asked", !.retries = @ + 1]
                      ELSE [load EXCEPT !.stage = "idle"]
  /\ pending' = IF again THEN pending ELSE <<>>
  /\ Becomes(Snapshot([Unit EXCEPT !.note = IF pending # <<>> /\ ~again THEN "dropped" ELSE "failed"]))

TakeLoad ==
  /\ \/ /\ load.stage = "read"
        /\ load' = [load EXCEPT !.loaded = TRUE, !.stage = "idle", !.retries = 0]
        /\ pending' = <<>>
        /\ Becomes(Snapshot(Restored(IF stored = None THEN DefaultZones ELSE stored)))
     \/ load.stage = "failed" /\ AfterFailure
  /\ UNCHANGED <<stored, shown, incoming, limits>>

IsFailure(result) == result = "failed"

\* The result of the latest save.
TakeResult ==
  /\ saver.result # None /\ saver' = [saver EXCEPT !.result = None]
  /\ session' = [session EXCEPT !.saveErr = IsFailure(saver.result)]
  /\ LET u == Snapshot(Unit) IN
       panel' = [open |-> u.open, rev |-> u.rev, floor |-> u.floor, gen |-> u.gen]
  /\ UNCHANGED <<stored, shown, incoming, pending, load, deleted, limits>>

----------------------------------------------------------------------------
(* The saver and the host *)

\* What the caller hears: only of its latest save.
Answered(result) ==
  [saver EXCEPT !.flight = None, !.result = IF saver.pending = None THEN result ELSE None]

WriteZones ==
  \/ /\ saver.pending # None /\ saver.flight = None
     /\ saver' = [saver EXCEPT !.flight = saver.pending, !.pending = None]
     /\ UNCHANGED <<stored, limits>>
  \/ /\ saver.flight # None
     /\ \/ /\ stored' = saver.flight /\ saver' = Answered("saved") /\ UNCHANGED limits
        \/ /\ limits.troubles > 0 /\ limits' = [limits EXCEPT !.troubles = @ - 1]
           /\ saver' = Answered("failed") /\ stored' \in {stored, saver.flight}

Writes == WriteZones /\ UNCHANGED <<session, panel, shown, incoming, pending, load, deleted>>

\* A snapshot arrives.
HostShows ==
  /\ panel.open /\ shown # [rev |-> panel.rev, seed |-> session.seed]
  /\ shown' = [rev |-> panel.rev, seed |-> session.seed]
  /\ UNCHANGED <<stored, session, panel, incoming, pending, load, saver, deleted, limits>>

Click == limits.clicks > 0 /\ limits' = [limits EXCEPT !.clicks = @ - 1]

\* Before the load is in the panel shows the search and what it finds, and no zone.
Kinds == {"search", "submit", "add", "pick"} \cup
         IF load.loaded THEN {"bar", "drop", "del", "del-ok", "del-cancel"} ELSE {}

UserActs ==
  /\ panel.open /\ shown.rev > 0 /\ Len(incoming) < 2 /\ Click
  /\ \E kind \in Kinds, z \in Zones :
       incoming' = Append(incoming, [kind |-> kind, zone |-> z, open |-> TRUE,
                                     rev |-> shown.rev, seed |-> shown.seed])
  /\ UNCHANGED <<stored, session, panel, shown, pending, load, saver, deleted>>

\* The messages of the view come after the inputs sent before them.
\* ViewOpen: a view of its own, whose first snapshot may carry a reseed.
OpenPanel ==
  /\ ~panel.open /\ incoming = <<>> /\ Click
  /\ LET u == Snapshot([Unit EXCEPT !.open = TRUE, !.rev = 0, !.floor = 0, !.gen = 0]) IN
       panel' = [open |-> TRUE, rev |-> u.rev, floor |-> u.floor, gen |-> u.gen]
  /\ shown' = [rev |-> 0, seed |-> 0]
  /\ UNCHANGED <<stored, session, incoming, pending, load, saver, deleted>>

\* ViewClose: what waits for the load is of a view that is gone.
ClosePanel ==
  /\ panel.open /\ incoming = <<>> /\ Click
  /\ panel' = [panel EXCEPT !.open = FALSE]
  /\ pending' = [i \in DOMAIN pending |-> [pending[i] EXCEPT !.open = FALSE]]
  /\ UNCHANGED <<stored, session, shown, incoming, load, saver, deleted>>

\* ViewResync: the view starts again at revision 1; its floor does not.  The host takes
\* no input for the view until the snapshot is there.
Resync ==
  /\ panel.open /\ incoming = <<>> /\ Click
  /\ LET u == Snapshot([Unit EXCEPT !.rev = 0]) IN
       panel' = [open |-> TRUE, rev |-> u.rev, floor |-> u.floor, gen |-> u.gen]
  /\ shown' = [rev |-> 0, seed |-> session.seed]
  /\ UNCHANGED <<stored, session, incoming, pending, load, saver, deleted>>

ClockInit ==
  /\ stored \in {None, <<>>} \cup {<<OnBar(z)>> : z \in Zones}
  /\ session = [zones |-> DefaultZones, query |-> None, seed |-> 0, edit |-> None,
                note |-> "loading", saveErr |-> FALSE]
  /\ panel = [open |-> FALSE, rev |-> 0, floor |-> 0, gen |-> 0] /\ shown = [rev |-> 0, seed |-> 0]
  /\ incoming = <<>> /\ pending = <<>> /\ deleted = {}
  /\ load = [loaded |-> FALSE, stage |-> "asked", retries |-> 0]
  /\ saver = [pending |-> None, flight |-> None, result |-> None]
  /\ limits = [clicks |-> ClicksMax, troubles |-> TroublesMax]

Loop == TakeInput \/ TakeLoad \/ TakeResult
User == UserActs \/ OpenPanel \/ ClosePanel \/ Resync

ClockNext == Loop \/ ReadZones \/ Writes \/ HostShows \/ User

\* The loop, the load worker and the saver go on.
ClockSpec == ClockInit /\ [][ClockNext]_clockVars
             /\ WF_clockVars(Loop) /\ WF_clockVars(ReadZones) /\ WF_clockVars(Writes)

----------------------------------------------------------------------------
(* Properties *)

\* The stored list loses no zone the user did not delete, whatever comes before the
\* load is in (main.go:92-94: "Saving before then would replace the user's stored list").
StoredIsKept ==
  stored # None /\ stored' # None => Ids(stored) \ Ids(stored') \subseteq deleted'

\* When no save is under way and none is reported as failed, the host keeps the list
\* the panel shows.
SavedIsShown ==
  load.loaded /\ ~session.saveErr /\ saver = [pending |-> None, flight |-> None, result |-> None]
  => session.zones = IF stored = None THEN DefaultZones ELSE stored

\* A text typed into a search field that a reseed has cleared does not come back
\* (main.go:96-98).
ClearedIsTyped(e) == e.kind \in {"search", "submit"} /\ e.seed # session.seed /\ load.loaded
ClearedStays ==
  incoming # <<>> /\ incoming' = Tail(incoming) /\ ClearedIsTyped(Head(incoming))
  => session'.query = session.query /\ session'.zones = session.zones

\* Inputs that wait for the load have one under way: none is left queued for the rest of
\* the plugin's life, and "Loading zones" does not stay (main.go:214-220).
WaitersHaveLoad == pending # <<>> \/ session.note = "loading" => load.stage # "idle"

=============================================================================
