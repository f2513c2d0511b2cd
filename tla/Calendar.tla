------------------------------ MODULE Calendar ------------------------------
(***************************************************************************)
(* The calendar plugin: the process loop of cmd/sysc-plugin-calendar with  *)
(* its query worker and its host action worker, and the panels and events  *)
(* of plugins/calendar/calendar.go.                                        *)
(*                                                                         *)
(* Time is cut in months: the range of a panel is a month, and month 1     *)
(* stands for the range around today that every forced refresh asks for    *)
(* again.  An event lasts from one month to the same or to the next.  The  *)
(* bound of 2048 events, that of 64 remembered ranges and the passing of   *)
(* time are left out.                                                      *)
(***************************************************************************)
EXTENDS Naturals

CONSTANTS Panels,       \* ids of panel views
          Months,       \* 1 .. n
          ClicksMax,    \* bound: what the user does
          ChangesMax,   \* bound: events that come or go in Evolution
          TroublesMax,  \* bound: queries and saves that go wrong
          None

CalendarAssumption ==
  /\ Months \subseteq Nat /\ 1 \in Months
  /\ ClicksMax \in Nat /\ ChangesMax \in Nat /\ TroublesMax \in Nat

VARIABLES eds,       \* outside: the events of Evolution Data Server
          panels,    \* the open panels: month, opened event, whether an event moved it
          events,    \* Model.events
          coverage,  \* the ranges that were read
          status,    \* calendar.LoadStatus: loading, error, action error
          asked,     \* refreshRequests: one request or None
          query,     \* the query the worker is at, or None
          answer,    \* refreshResults: one result or None
          filter,    \* the hidden calendars: here, on their way, stored
          action,    \* the host action, or None
          limits     \* what is left of the bounds

calendarVars == <<eds, panels, events, coverage, status, asked, query, answer, filter,
                  action, limits>>

Events == {e \in [first : Months, last : Months] : e.last \in {e.first, e.first + 1}}
Occurs(e, m) == e.first <= m /\ m <= e.last
In(es, months) == {e \in es : \E m \in months : Occurs(e, m)}
IsOpen(p) == panels[p] # None

\* queryRanges: today's range when forced or when nothing was read, and the range of
\* each panel that it or an earlier answer does not cover.
QueryRanges(shown, force) ==
  LET wanted == {shown[p].month : p \in {q \in Panels : shown[q] # None}}
  IN IF force \/ coverage = {} THEN {1} \cup wanted ELSE wanted \ coverage

\* As RequestRefresh, but a waiting request keeps its place.
KeepsFirst(shown, force) ==
  LET ranges == QueryRanges(shown, force)
  IN IF ranges = {} THEN UNCHANGED <<asked, status>>
     ELSE /\ asked' = IF asked = None THEN ranges ELSE asked
          /\ status' = [status EXCEPT !.loading = TRUE]
\* requestRefresh: the waiting request gives way to the new one.
RequestRefresh(shown, force) ==
  LET ranges == QueryRanges(shown, force)
  IN IF ranges = {} THEN UNCHANGED <<asked, status>>
     ELSE asked' = ranges /\ status' = [status EXCEPT !.loading = TRUE]

----------------------------------------------------------------------------
(* The query worker *)

TakeRequest ==
  /\ query = None /\ asked # None
  /\ query' = [ranges |-> asked, left |-> asked, events |-> {}, err |-> FALSE]
  /\ asked' = None
  /\ UNCHANGED <<eds, panels, events, coverage, status, answer, filter, action, limits>>

\* QueryEDS for one range, merged by mergeEDSResult.  A calendar that cannot be read
\* takes its events away from an answer that counts as good.
QueryRange ==
  /\ query # None /\ query.left # {}
  /\ \E m \in query.left :
       \/ /\ query' = [query EXCEPT !.left = @ \ {m}, !.events = @ \cup In(eds, {m})]
          /\ UNCHANGED limits
       \/ /\ limits.troubles > 0
          /\ limits' = [limits EXCEPT !.troubles = @ - 1]
          /\ \/ query' = [query EXCEPT !.left = {}, !.err = TRUE]
             \/ query' = [query EXCEPT !.left = @ \ {m}]
  /\ UNCHANGED <<eds, panels, events, coverage, status, asked, answer, filter, action>>

Answer ==
  /\ query # None /\ query.left = {} /\ answer = None
  /\ answer' = [ranges |-> query.ranges, events |-> query.events, err |-> query.err]
  /\ query' = None
  /\ UNCHANGED <<eds, panels, events, coverage, status, asked, filter, action, limits>>

----------------------------------------------------------------------------
(* The loop *)

\* replaceEventsInRanges: what occurs in an answered range is replaced.
Replaced(result) == (events \ In(events, result.ranges)) \cup result.events

\* The result of a refresh: a failed one keeps the events.
TakeAnswer ==
  /\ answer # None /\ answer' = None
  /\ IF answer.err
     THEN /\ status' = [loading |-> FALSE, error |-> TRUE, trouble |-> FALSE]
          /\ UNCHANGED <<events, coverage>>
     ELSE /\ status' = [loading |-> FALSE, error |-> FALSE, trouble |-> FALSE]
          /\ coverage' = coverage \cup answer.ranges
          /\ events' = Replaced(answer)
  /\ UNCHANGED <<eds, panels, asked, query, filter, action, limits>>

\* The ticker of ten minutes.
RefreshTick ==
  /\ RequestRefresh(panels, TRUE)
  /\ UNCHANGED <<eds, panels, events, coverage, query, answer, filter, action, limits>>

\* A later input to the view, or its close, makes the answer of an action stale.
Outdated(p) == IF action # None /\ action.panel = p THEN [action EXCEPT !.fresh = FALSE] ELSE action

Click == limits.clicks > 0 /\ limits' = [limits EXCEPT !.clicks = @ - 1]

OpenPanel(p) ==
  /\ ~IsOpen(p) /\ Click
  /\ panels' = [panels EXCEPT ![p] = [month |-> 1, detail |-> None, moved |-> FALSE]]
  /\ RequestRefresh(panels', FALSE)
  /\ UNCHANGED <<eds, events, coverage, query, answer, filter, action>>

ClosePanel(p) ==
  /\ IsOpen(p) /\ Click
  /\ panels' = [panels EXCEPT ![p] = None]
  /\ action' = Outdated(p)
  /\ UNCHANGED <<eds, events, coverage, status, asked, query, answer, filter>>

\* Step, TodayFor, SelectDate and SetPanelView: another range, no opened event.
Navigate(p) ==
  /\ IsOpen(p) /\ Click
  /\ \E m \in Months : panels' = [panels EXCEPT ![p] = [month |-> m, detail |-> None, moved |-> FALSE]]
  /\ RequestRefresh(panels', FALSE)
  /\ action' = Outdated(p)
  /\ UNCHANGED <<eds, events, coverage, query, answer, filter>>

\* OpenEvent: the panel goes to the day the event starts on, and reads nothing.
OpenEvent(p) ==
  /\ IsOpen(p) /\ Click /\ ~filter.hidden
  /\ \E e \in In(events, {panels[p].month}) :
       panels' = [panels EXCEPT ![p] = [month |-> e.first, detail |-> e,
                                      moved |-> @.moved \/ @.month # e.first]]
  /\ action' = Outdated(p)
  /\ UNCHANGED <<eds, events, coverage, status, asked, query, answer, filter>>

\* AdjacentEventIn: another event of the range; CloseEvent: back to the range.
OtherEvent(p) ==
  /\ IsOpen(p) /\ Click
  /\ \/ /\ ~filter.hidden
        /\ \E e \in In(events, {panels[p].month}) : panels' = [panels EXCEPT ![p].detail = e]
     \/ panels' = [panels EXCEPT ![p].detail = None]
  /\ action' = Outdated(p)
  /\ UNCHANGED <<eds, events, coverage, status, asked, query, answer, filter>>

Retry(p) ==
  /\ IsOpen(p) /\ status.error /\ Click
  /\ RequestRefresh(panels, TRUE)
  /\ action' = Outdated(p)
  /\ UNCHANGED <<eds, panels, events, coverage, query, answer, filter>>

\* The calendar is hidden or shown; SaveTracked makes the new choice the one whose
\* result counts.
ToggleCalendar(p) ==
  /\ IsOpen(p) /\ Click
  /\ filter' = [filter EXCEPT !.hidden = ~@, !.saving = ~filter.hidden]
  /\ action' = Outdated(p)
  /\ UNCHANGED <<eds, panels, events, coverage, status, asked, query, answer>>

\* The host stores the choice, or refuses it, which is told.
FilterSaved ==
  /\ filter.saving # None
  /\ \/ /\ filter' = [filter EXCEPT !.stored = filter.saving, !.saving = None]
        /\ UNCHANGED <<status, limits>>
     \/ /\ limits.troubles > 0
        /\ limits' = [limits EXCEPT !.troubles = @ - 1]
        /\ filter' = [filter EXCEPT !.saving = None]
        /\ status' = [status EXCEPT !.trouble = TRUE]
  /\ UNCHANGED <<eds, panels, events, coverage, asked, query, answer, action>>

\* The details are copied, or the meeting is joined, by the action worker.
Act(p) ==
  /\ IsOpen(p) /\ panels[p].detail \in events /\ action = None /\ Click
  /\ action' = [panel |-> p, fresh |-> TRUE]
  /\ UNCHANGED <<eds, panels, events, coverage, status, asked, query, answer, filter>>

ActionDone ==
  /\ action # None /\ action' = None
  /\ \/ status' = [status EXCEPT !.trouble = @ /\ ~action.fresh] /\ UNCHANGED limits
     \/ /\ limits.troubles > 0
        /\ limits' = [limits EXCEPT !.troubles = @ - 1]
        /\ status' = [status EXCEPT !.trouble = @ \/ action.fresh]
  /\ UNCHANGED <<eds, panels, events, coverage, asked, query, answer, filter>>

EdsChanges ==
  /\ limits.changes > 0 /\ limits' = [limits EXCEPT !.changes = @ - 1]
  /\ \E e \in Events : eds' = IF e \in eds THEN eds \ {e} ELSE eds \cup {e}
  /\ UNCHANGED <<panels, events, coverage, status, asked, query, answer, filter, action>>

\* The stored choice is loaded before the first refresh.
CalendarInit ==
  /\ eds \in {{}, {[first |-> 1, last |-> 2]}, {[first |-> 2, last |-> 2]}}
  /\ panels = [p \in Panels |-> None]
  /\ events = {} /\ coverage = {}
  /\ status = [loading |-> TRUE, error |-> FALSE, trouble |-> FALSE]
  /\ asked = {1} /\ query = None /\ answer = None
  /\ \E hidden \in BOOLEAN : filter = [hidden |-> hidden, saving |-> None, stored |-> hidden]
  /\ action = None
  /\ limits = [clicks |-> ClicksMax, changes |-> ChangesMax, troubles |-> TroublesMax]

Reads == TakeRequest \/ QueryRange \/ Answer \/ TakeAnswer
Clicks == \E p \in Panels : \/ OpenPanel(p) \/ ClosePanel(p) \/ Navigate(p) \/ OpenEvent(p)
                            \/ OtherEvent(p) \/ Retry(p) \/ ToggleCalendar(p) \/ Act(p)

CalendarNext == Reads \/ RefreshTick \/ Clicks \/ FilterSaved \/ ActionDone \/ EdsChanges

\* The worker, the loop, the ticker and the host go on.
CalendarSpec == /\ CalendarInit /\ [][CalendarNext]_calendarVars
                /\ WF_calendarVars(TakeRequest \/ QueryRange \/ Answer)
                /\ WF_calendarVars(TakeAnswer) /\ WF_calendarVars(RefreshTick)
                /\ WF_calendarVars(FilterSaved) /\ WF_calendarVars(ActionDone)

----------------------------------------------------------------------------
(* Properties *)

\* The range of a panel was read, or it is asked for, or the failure is shown: a
\* request that gave way to another one took no panel's range with it
\* (main.go:259-283).  A panel that an opened event moved is not counted: it asks
\* for nothing (main.go:504-508).
PanelIsServed ==
  \A p \in Panels : IsOpen(p) /\ ~panels[p].moved =>
    \/ panels[p].month \in coverage \/ status.error
    \/ \E r \in {asked} \cup (IF query = None THEN {} ELSE {query.ranges})
                        \cup (IF answer = None THEN {} ELSE {answer.ranges}) :
         r # None /\ panels[p].month \in r

\* When Evolution comes to rest, each panel comes to show what it has for the
\* panel's month, even after an answer without an unreadable calendar (#162).
AtEnd == \A p \in Panels : IsOpen(p) =>
  In(events, {panels[p].month}) = In(eds, {panels[p].month})
=============================================================================
