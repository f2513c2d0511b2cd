---------------------------- MODULE PrivacyPlugin ----------------------------
(***************************************************************************)
(* The loop of cmd/sysc-plugin-privacy: audits that run off the loop, the  *)
(* state of the control centre, a bar item and a panel.                    *)
(*                                                                         *)
(* A snapshot is rated or not (PrivacyAudit says what it holds) and has    *)
(* the time of its audit.  The unit of time is the refresh interval, in    *)
(* which an audit ends (auditTimeout is 90 seconds of 5 minutes).  A host  *)
(* that answers a publish with anything but a time out ends the plugin,    *)
(* which is left out.                                                      *)
(***************************************************************************)
EXTENDS Absent, Naturals

CONSTANTS StaleAfter,   \* staleAfter in refresh intervals (3)
          TimeMax,      \* bound: intervals
          ClicksMax,    \* bound: what the user does
          TroublesMax  \* bound: audits that fail, publishes that time out or are refused

PrivacyAssumption ==
  /\ {StaleAfter, TimeMax, ClicksMax, TroublesMax} \subseteq Nat /\ StaleAfter > 0
  /\ None \notin {"running", "rated", "failed"}

VARIABLES now,       \* the time of day
          due,       \* ticker.C
          audit,     \* the audit under way: "running", or its snapshot on the way
          snapshot,  \* the last audit
          centre,    \* control_center, as the host keeps it
          views,     \* what the bar item and the panel show, or None
          limits     \* what is left of the bounds

privacyVars == <<now, due, audit, snapshot, centre, views, limits>>

Unrated(at) == [rated |-> FALSE, at |-> at]
\* currentGrade: a snapshot that is older than staleAfter, or of the future, is not rated.
Current(s) == s.rated /\ s.at <= now /\ now - s.at < StaleAfter

\* BarTree and PanelTree: a view holds what was true when it was published.
Shows(s, scanning) == [rated |-> Current(s), at |-> s.at, scanning |-> scanning]
Published(s, scanning) ==
  [v \in DOMAIN views |-> IF views[v] = None THEN None ELSE Shows(s, scanning)]

\* startAudit, unless one is under way; the views show that it began.
StartAudit ==
  /\ audit' = "running"
  /\ views' = Published(snapshot, TRUE)

Ticker ==
  /\ due /\ due' = FALSE
  /\ IF audit = None THEN StartAudit ELSE UNCHANGED <<audit, views>>
  /\ UNCHANGED <<now, snapshot, centre, limits>>

\* refreshSnapshot: a failed audit is a snapshot that says so.
AuditEnds ==
  /\ audit = "running"
  /\ \/ audit' = "rated" /\ UNCHANGED limits
     \/ /\ limits.troubles > 0 /\ limits' = [limits EXCEPT !.troubles = @ - 1]
        /\ audit' = "failed"
  /\ UNCHANGED <<now, due, snapshot, centre, views>>

\* As TakeAudit, but a publish that fails keeps the views from being drawn.
TakesWhenPublished ==
  /\ audit \in {"rated", "failed"} /\ audit' = None
  /\ LET s == [rated |-> audit = "rated", at |-> now] IN
     /\ snapshot' = s
     /\ \/ centre' = s /\ views' = Published(s, FALSE) /\ UNCHANGED limits
        \/ /\ limits.troubles > 0 /\ limits' = [limits EXCEPT !.troubles = @ - 1]
           /\ UNCHANGED <<centre, views>>
  /\ UNCHANGED <<now, due>>

\* The audit is taken: the host is told, which may fail, and the views leave the scan.
TakeAudit ==
  /\ audit \in {"rated", "failed"} /\ audit' = None
  /\ LET s == [rated |-> audit = "rated", at |-> now] IN
     /\ snapshot' = s /\ views' = Published(s, FALSE)
     /\ \/ centre' = s /\ UNCHANGED limits
        \/ /\ limits.troubles > 0 /\ limits' = [limits EXCEPT !.troubles = @ - 1]
           /\ UNCHANGED centre
  /\ UNCHANGED <<now, due>>

Clicked == limits.clicks > 0 /\ limits' = [limits EXCEPT !.clicks = @ - 1]

\* ViewOpen and ViewClose.
View(v) ==
  /\ Clicked
  /\ views' = [views EXCEPT ![v] = IF @ = None THEN Shows(snapshot, audit # None) ELSE None]
  /\ UNCHANGED <<now, due, audit, snapshot, centre>>

\* "Scan now", in a panel that shows the present revision.
ScanNow ==
  /\ views.panel # None /\ audit = None /\ Clicked
  /\ StartAudit
  /\ UNCHANGED <<now, due, snapshot, centre>>

\* An interval goes by, in which what was begun ends.
Interval ==
  /\ now < TimeMax /\ audit = None /\ ~due
  /\ now' = now + 1 /\ due' = TRUE
  /\ UNCHANGED <<audit, snapshot, centre, views, limits>>

\* The machine sleeps: the day goes on, the ticker does not.
Sleeps ==
  /\ now + StaleAfter <= TimeMax
  /\ now' = now + StaleAfter
  /\ UNCHANGED <<due, audit, snapshot, centre, views, limits>>

PrivacyInit ==
  /\ now = 0 /\ due = FALSE /\ audit = "running"
  /\ snapshot = Unrated(0) /\ centre = Unrated(0)
  /\ views = [bar |-> None, panel |-> None]
  /\ limits = [clicks |-> ClicksMax, troubles |-> TroublesMax]

PrivacyNext == \/ Ticker \/ AuditEnds \/ TakeAudit \/ ScanNow \/ Interval \/ Sleeps
               \/ \E v \in {"bar", "panel"} : View(v)

PrivacySpec == PrivacyInit /\ [][PrivacyNext]_privacyVars

----------------------------------------------------------------------------
(* Properties *)

\* A view shows a scan exactly while an audit is under way, also when the publish of
\* its result fails (main.go:128-147).
ScanIsReal == \A v \in DOMAIN views : views[v] # None => views[v].scanning = (audit # None)

=============================================================================
