------------------------------ MODULE Moonbit ------------------------------
(* The Moonbit plugin (src/plugins/moonbit, src/cmd/sysc-plugin-moonbit): a     *)
(* panel that scans the disk, lets the user choose what to delete, asks for the *)
(* password and runs `sudo moonbit panel` once per request.  The loop owns the  *)
(* state; sudo's answer, the events of a run and the end of its stream reach it *)
(* from goroutines.  A scan that a timer starts replaces the one under review.  *)
EXTENDS Absent, Naturals, Sequences, SequencesExt, FiniteSets

CONSTANTS
  Categories,   \* what moonbit can clean
  RunsMax,      \* bound: runs as root
  ScansMax,     \* bound: scans, by the panel or by a timer
  ClicksMax,    \* bound: clicks of the user
  QueueSize    \* bound: clicks on their way to the plugin

MoonbitAssumption == {RunsMax, ScansMax, ClicksMax, QueueSize} \subseteq Nat

VARIABLES
  saved,     \* [scan, cats]: the scan results on disk
  scans,     \* scans so far
  ui,        \* the State of the panel (see UIStart)
  tree,      \* what the host shows of it
  queue,     \* clicks: [node, seen, current]
  checking,  \* the Starts in flight: a sequence of [req, answer, run]
  runs,      \* the moonbit processes: run -> None or [req, stage, event, result, cancelled]
  reading,   \* what a status read under way has found, or None
  used,      \* runs so far
  clicks

vars == <<saved, scans, ui, tree, queue, checking, runs, reading, used, clicks>>

NoScan == [scan |-> 0, cats |-> {}]
Progress == {"scanning", "cleaning", "working"}

UIStart == [phase |-> "idle", back |-> "idle", pending |-> None, authorizing |-> FALSE,
            op |-> None, review |-> NoScan, selected |-> {}, stamp |-> 0, cache |-> NoScan]

\* What a tree shows: the screen, the scan under review and the rows that are checked.
Tree(u) == [phase |-> u.phase, review |-> u.review, selected |-> u.selected,
            authorizing |-> u.authorizing, cached |-> u.cache.cats # {}]

SelectedStats(u) == u.selected \intersect u.review.cats

\* A request for a run as root; what was on screen at the click rides along.
Request(cmd, cats, stamp, seen) == [cmd |-> cmd, cats |-> cats, stamp |-> stamp, seen |-> seen]

-----------------------------------------------------------------------------
(* The screens.                                                            *)

\* The buttons of a screen (actionBar, bodyCard); idle also shows an error.
Nodes(t) ==
  CASE t.phase \in Progress -> {"cancel"}
    [] t.phase = "review" ->
         {"back", "select_all"} \union (IF t.review.cats = {} THEN {"scan_quick"} ELSE {"toggle"})
           \union (IF t.selected \intersect t.review.cats = {} THEN {} ELSE {"to_confirm"})
    [] t.phase = "confirm" -> {"cancel_op", "confirm_clean"}
    [] t.phase = "done" -> {"back"}
    [] t.phase = "auth" -> {"auth_cancel"} \union (IF t.authorizing THEN {} ELSE {"auth_run"})
    [] t.phase = "docker" -> {"back", "docker:all"}
    [] t.phase = "docker_confirm" -> {"docker", "docker_run"}
    [] t.phase = "schedule" -> {"back", "sched:daemon"}
    [] OTHER -> {"docker", "schedule", "scan_quick"}
                  \union (IF t.cached THEN {"review_last"} ELSE {})

\* The user clicks on what the host shows at that moment; of a destructive click
\* that is kept to compare with what is done.
Click ==
  /\ clicks < ClicksMax /\ Len(queue) < QueueSize
  /\ \E node \in Nodes(tree), row \in Categories \union {None} :
       /\ row # None <=> node = "toggle"
       /\ queue' = Append(queue, [node |-> node, row |-> row, current |-> TRUE,
                                  seen |-> IF node = "confirm_clean" THEN tree ELSE None])
  /\ clicks' = clicks + 1
  /\ UNCHANGED <<saved, scans, ui, tree, checking, runs, reading, used>>

\* Send the tree unless it is the one the host has; the clicks on their way then
\* carry an old revision (flush, snapshot).
Snapshot(q, u) ==
  /\ tree' = Tree(u)
  /\ queue' = IF Tree(u) = tree THEN q
              ELSE [i \in 1..Len(q) |-> [q[i] EXCEPT !.current = FALSE]]

-----------------------------------------------------------------------------
(* Input.                                                                  *)

\* Put a root run behind the password prompt, unless one is on the wire.
RequestAuth(u, req) ==
  IF u.op # None THEN u
  ELSE [u EXCEPT !.pending = req, !.phase = "auth", !.authorizing = FALSE,
                 !.back = IF u.phase \in {"auth", "error"} THEN "idle" ELSE u.phase]

\* As ReviewLast, but the stamp is that of the last scan of the panel.
ReviewsUnbound(u) ==
  IF u.cache.cats = {} THEN u
  ELSE [u EXCEPT !.review = u.cache, !.selected = u.cache.cats, !.phase = "review"]

\* Open the review on the last saved scan, bound to its stamp.
ReviewLast(u) ==
  IF u.cache.cats = {} THEN u
  ELSE [u EXCEPT !.review = u.cache, !.selected = u.cache.cats, !.stamp = u.cache.scan,
                 !.phase = "review"]

CleanRequest(u, seen) == Request("clean", SelectedStats(u), u.stamp, seen)

AuthCancel(u) ==
  IF u.phase = "auth" /\ ~u.authorizing
  THEN [u EXCEPT !.pending = None, !.phase = u.back] ELSE u

\* The state after a click that starts nothing (handle).
Handled(u, click) ==
  LET node == click.node
  IN  CASE node = "auth_cancel" -> AuthCancel(u)
        [] node = "scan_quick" -> RequestAuth(u, Request("scan", {}, 0, click.seen))
        [] node = "review_last" -> ReviewLast(u)
        [] node = "to_confirm" -> IF SelectedStats(u) # {} THEN [u EXCEPT !.phase = "confirm"] ELSE u
        [] node = "confirm_clean" ->
             IF u.phase = "confirm" /\ click.current /\ SelectedStats(u) # {}
             THEN RequestAuth(u, CleanRequest(u, click.seen)) ELSE u
        [] node = "cancel_op" -> [u EXCEPT !.phase = "review"]
        [] node = "back" -> [u EXCEPT !.phase = "idle", !.review = NoScan, !.selected = {}]
        [] node = "docker" -> [u EXCEPT !.phase = "docker"]
        [] node = "docker:all" -> IF u.phase = "docker" THEN [u EXCEPT !.phase = "docker_confirm"] ELSE u
        [] node = "docker_run" ->
             IF u.phase = "docker_confirm" /\ click.current
             THEN RequestAuth(u, Request("docker", {}, 0, click.seen)) ELSE u
        [] node = "schedule" -> [u EXCEPT !.phase = "schedule"]
        [] node = "sched:daemon" ->
             IF u.phase = "schedule" THEN RequestAuth(u, Request("schedule", {}, 0, click.seen)) ELSE u
        [] node = "select_all" ->
             [u EXCEPT !.selected = IF u.review.cats \subseteq u.selected
                                    THEN u.selected \ u.review.cats
                                    ELSE u.selected \union u.review.cats]
        [] node = "toggle" ->
             [u EXCEPT !.selected = IF click.row \in u.selected THEN u.selected \ {click.row}
                                    ELSE u.selected \union {click.row}]
        [] OTHER -> u

\* The pending run may go to sudo (authorize).
MayAuthorize(u) == u.phase = "auth" /\ u.pending # None /\ ~u.authorizing /\ u.op = None

\* "cancel" closes the input of the run on the wire.
CancelRun(u, click) ==
  runs' = IF click.node = "cancel" /\ u.op # None
          THEN [runs EXCEPT ![u.op].cancelled = TRUE] ELSE runs

Handle ==
  /\ queue # <<>>
  /\ LET click == Head(queue)
         go == click.node = "auth_run" /\ MayAuthorize(ui)
         after == IF go THEN [ui EXCEPT !.authorizing = TRUE] ELSE Handled(ui, click)
     IN  /\ ui' = after
         /\ checking' = IF go THEN Append(checking, [req |-> ui.pending, answer |-> "none", run |-> None])
                        ELSE checking
         /\ CancelRun(ui, click)
         /\ Snapshot(Tail(queue), after)
  /\ UNCHANGED <<saved, scans, reading, used, clicks>>

-----------------------------------------------------------------------------
(* sudo.                                                                   *)

\* sudo refuses the password or the start, or moonbit runs and has the request
\* (Runner.Start).
SudoAnswers ==
  \E i \in 1..Len(checking) :
    /\ checking[i].answer = "none"
    /\ \/ /\ checking' = [checking EXCEPT ![i].answer = "wrong"] /\ UNCHANGED <<runs, used>>
       \/ /\ checking' = [checking EXCEPT ![i].answer = "failed"] /\ UNCHANGED <<runs, used>>
       \/ /\ used < RunsMax /\ used' = used + 1
          /\ checking' = [checking EXCEPT ![i].answer = "ok", ![i].run = used + 1]
          /\ runs' = [runs EXCEPT ![used + 1] =
                        [req |-> checking[i].req, stage |-> "working", event |-> "", result |-> NoScan, cancelled |-> FALSE]]
    /\ UNCHANGED <<saved, scans, ui, tree, queue, reading, clicks>>

\* The progress screen of a run (begin).
Begun(u, req) ==
  CASE req.cmd = "scan" -> [u EXCEPT !.phase = "scanning", !.review = NoScan, !.selected = {},
                                     !.stamp = 0]
    [] req.cmd = "clean" -> [u EXCEPT !.phase = "cleaning"]
    [] OTHER -> [u EXCEPT !.phase = "working", !.back = req.cmd]

\* A change that comes from a goroutine is shown at once or with the next frame
\* (schedule).
Later(u) == ui' = u /\ (UNCHANGED <<tree, queue>> \/ Snapshot(queue, u))

\* The loop takes sudo's answer.
TakeAnswer ==
  \E i \in 1..Len(checking) :
    LET check == checking[i]
        free == [ui EXCEPT !.authorizing = FALSE]
    IN  /\ check.answer # "none"
        /\ checking' = RemoveAt(checking, i)
        /\ Later(CASE check.answer = "wrong" -> free
                   [] check.answer = "failed" -> [free EXCEPT !.pending = None, !.phase = "error"]
                   [] OTHER -> [Begun(free, check.req) EXCEPT !.pending = None, !.op = check.run])
        /\ UNCHANGED <<saved, scans, runs, reading, used, clicks>>

-----------------------------------------------------------------------------
(* A run.                                                                  *)

Live(r) == runs[r] # None /\ runs[r].stage = "working"

\* The loop has begun to take the events of a run.
Begins(r) == \A i \in 1..Len(checking) : checking[i].run # r

\* A scan ends: its results replace those on disk.
NewScan == scans < ScansMax /\ scans' = scans + 1
           /\ \E cats \in SUBSET Categories : saved' = [scan |-> scans + 1, cats |-> cats]

\* moonbit ends a run with its terminal event: a clean only of the scan that is
\* still on disk; any run may fail or be cancelled.
RunEnds ==
  \E r \in 1..RunsMax :
    /\ Live(r)
    /\ LET Ends(event) ==
             runs' = [runs EXCEPT ![r].stage = "terminal", ![r].event = event,
                                  ![r].result = IF event = "done" THEN saved' ELSE NoScan]
       IN  \/ /\ Ends("error") /\ UNCHANGED <<saved, scans>>
           \/ /\ runs[r].cancelled /\ Ends("cancelled") /\ UNCHANGED <<saved, scans>>
           \/ /\ runs[r].req.cmd = "scan" /\ NewScan /\ Ends("done")
           \/ /\ runs[r].req.cmd = "clean" /\ runs[r].req.stamp = saved.scan
              /\ Ends("clean_done") /\ UNCHANGED <<saved, scans>>
           \/ /\ runs[r].req.cmd \in {"docker", "schedule"} /\ Ends("finished")
              /\ UNCHANGED <<saved, scans>>
    /\ UNCHANGED <<ui, tree, queue, checking, reading, used, clicks>>

\* The run dies, or is killed ten seconds after a cancel: the stream just ends
\* (Op.Cancel, stopCommand).
Die ==
  \E r \in 1..RunsMax :
    /\ Live(r)
    /\ runs' = [runs EXCEPT ![r].stage = "ended"]
    /\ UNCHANGED <<saved, scans, ui, tree, queue, checking, reading, used, clicks>>

\* The terminal event folded into the state (Fold).
Folded(u, run) ==
  CASE run.event = "error" ->
         [u EXCEPT !.phase = IF u.phase = "working" THEN u.back ELSE "error"]
    [] run.event = "cancelled" -> [u EXCEPT !.phase = "idle"]
    [] run.event = "done" ->
         [u EXCEPT !.phase = "review", !.review = run.result, !.selected = run.result.cats,
                   !.stamp = run.result.scan]
    [] run.event = "clean_done" -> [u EXCEPT !.phase = "done"]
    [] OTHER -> [u EXCEPT !.phase = run.req.cmd]

\* The loop takes the terminal event of a run that has begun (streamOp).
TakeTerminal ==
  \E r \in 1..RunsMax :
    /\ runs[r] # None /\ runs[r].stage = "terminal"
    /\ Begins(r)
    /\ Later([Folded(ui, runs[r]) EXCEPT !.op = None])
    /\ runs' = [runs EXCEPT ![r].stage = "ended"]
    /\ UNCHANGED <<saved, scans, checking, reading, used, clicks>>

\* A stream that ends without a terminal event (StreamEnded).
StreamEnded(u) ==
  IF u.phase \in Progress THEN [u EXCEPT !.phase = "error"] ELSE u

\* The end of a stream only counts for the run that is on the wire.
AfterStream(u, r) == IF u.op = r THEN StreamEnded([u EXCEPT !.op = None]) ELSE u

TakeClosed ==
  \E r \in 1..RunsMax :
    /\ runs[r] # None /\ runs[r].stage = "ended" /\ Begins(r)
    /\ Later(AfterStream(ui, r))
    /\ runs' = [runs EXCEPT ![r] = None]
    /\ UNCHANGED <<saved, scans, checking, reading, used, clicks>>

-----------------------------------------------------------------------------
(* The rest.                                                               *)

\* The frame that was put off.
Flush ==
  /\ Tree(ui) # tree
  /\ Snapshot(queue, ui)
  /\ UNCHANGED <<saved, scans, ui, checking, runs, reading, used, clicks>>

\* A status read runs off the loop; several end in any order (refreshStatus).
ReadStatus ==
  /\ reading = None
  /\ reading' = saved
  /\ UNCHANGED <<saved, scans, ui, tree, queue, checking, runs, used, clicks>>

TakeStatus ==
  /\ reading # None
  /\ reading' = None
  /\ Later([ui EXCEPT !.cache = reading])
  /\ UNCHANGED <<saved, scans, checking, runs, used, clicks>>

\* A timer or the user's terminal scans.
OtherScan ==
  /\ NewScan
  /\ UNCHANGED <<ui, tree, queue, checking, runs, reading, used, clicks>>

Init ==
  /\ saved = [scan |-> 1, cats |-> Categories] /\ scans = 1
  /\ ui = [UIStart EXCEPT !.cache = saved]
  /\ tree = Tree(ui) /\ queue = <<>>
  /\ checking = <<>> /\ runs = [r \in 1..RunsMax |-> None]
  /\ reading = None /\ used = 0 /\ clicks = 0

Next == Click \/ Handle \/ SudoAnswers \/ TakeAnswer \/ RunEnds \/ Die \/ TakeTerminal
        \/ TakeClosed \/ Flush \/ ReadStatus \/ TakeStatus \/ OtherScan
Spec == Init /\ [][Next]_vars

-----------------------------------------------------------------------------
(* Properties.                                                             *)

\* While sudo checks the password the panel says so, and no second run can be sent to it:
\* "Authorizing is set while sudo checks" (state.go:46-47).
AuthorizingWhileChecked ==
  (\E i \in 1..Len(checking) : checking[i].answer = "none") => ui.authorizing

\* What is cleaned as root are the rows of the confirm screen that was clicked,
\* of the scan they were shown for (confirm_clean, ScannedAt).
CleansWhatWasShown ==
  \A r \in 1..RunsMax :
    (runs[r] # None /\ runs[r].req.cmd = "clean") =>
      LET req == runs[r].req
      IN  /\ req.seen.phase = "confirm"
          /\ req.cats = req.seen.selected \intersect req.seen.review.cats
          /\ req.stamp = req.seen.review.scan
=============================================================================
