---------------------------- MODULE DesktopProofs ----------------------------
(***************************************************************************)
(* Moonbit, for any categories and any number of runs, scans and clicks,   *)
(* however many clicks are on their way: what root cleans are the rows of  *)
(* the confirm screen that was clicked.  Screenshot's panel, for any       *)
(* number of acts at a time: it shows the model or is going to.  The       *)
(* pomodoro timer, for any lengths, restarts and lost writes: every phase  *)
(* ends once, and every start goes on where the last one left off.  Air    *)
(* quality, for any places: the reading that is shown stays this place's.  *)
(* Games, for any games: an open session is watched until it ends.         *)
(***************************************************************************)
EXTENDS Moonbit, Screenshot, PomodoroTimer, AirQuality, Games, SequenceTheorems, TLAPS

Scans == [scan : Nat, cats : SUBSET Categories]
Commands == {"scan", "clean", "docker", "schedule"}
PanelPhases == {"idle", "auth", "error", "review", "confirm", "done", "docker", "docker_confirm",
           "schedule"} \union Progress
Trees == [phase : PanelPhases, review : Scans, selected : SUBSET Categories,
          authorizing : BOOLEAN, cached : BOOLEAN]
Requests == [cmd : Commands, cats : SUBSET Categories, stamp : Nat, seen : Trees \union {None}]
RootRuns == [req : Requests, stage : {"working", "terminal", "ended"},
             event : {"", "error", "cancelled", "done", "clean_done", "finished"},
             result : Scans, cancelled : BOOLEAN]
AllNodes == {"cancel", "back", "select_all", "scan_quick", "toggle", "to_confirm", "cancel_op",
             "confirm_clean", "auth_cancel", "auth_run", "docker", "docker:all", "docker_run",
             "schedule", "sched:daemon", "review_last"}
Clicks == [node : AllNodes, row : Categories \union {None}, current : BOOLEAN,
           seen : Trees \union {None}]
Panels == [phase : PanelPhases, back : PanelPhases, pending : Requests \union {None},
           authorizing : BOOLEAN, op : (1..RunsMax) \union {None}, review : Scans,
           selected : SUBSET Categories, stamp : Nat, cache : Scans]

\* What a request for a clean says of the screen it was clicked on.
OfShown(req) ==
  req.cmd = "clean" =>
    /\ req.seen.phase = "confirm"
    /\ req.cats = req.seen.selected \intersect req.seen.review.cats
    /\ req.stamp = req.seen.review.scan

\* The requests that may reach sudo: of a clean, those of what was shown.
Honest == {req \in Requests : OfShown(req)}
Checks == {check \in [req : Honest, answer : {"none", "wrong", "failed", "ok"},
                      run : (1..RunsMax) \union {None}] :
             check.answer = "ok" => check.run \in 1..RunsMax}
\* Only a Docker or a schedule run ends by "finished".
HonestRuns == {run \in RootRuns : /\ run.req \in Honest
                                  /\ run.event = "finished" => run.req.cmd \in {"docker", "schedule"}
                                  /\ run.stage = "terminal" => run.event # ""}

MoonbitTypeOK ==
  /\ saved \in Scans /\ scans \in Nat
  /\ ui \in Panels
  /\ tree \in Trees
  /\ queue \in Seq(Clicks)
  /\ checking \in Seq(Checks)
  /\ runs \in [1..RunsMax -> HonestRuns \union {None}]
  /\ reading \in Scans \union {None}
  /\ used \in Nat

\* A panel whose review is bound to its stamp, whose pending request is honest, and
\* which does not go back to the confirm screen from a run that is under way.
PanelOK(u) ==
  /\ u \in Panels
  /\ u.review.cats # {} => u.stamp = u.review.scan
  /\ u.pending # None => OfShown(u.pending)
  /\ u.phase = "working" => u.back # "confirm"

\* A confirm screen of u is the one of v.
SameConfirm(u, v) ==
  v.phase = "confirm" => u.phase = "confirm" /\ v.selected = u.selected /\ v.review = u.review

\* A tree that lags behind is of another screen, or has the rows of this one.
ConfirmIsShown ==
  ui.phase = "confirm" /\ tree.phase = "confirm" =>
    tree.selected = ui.selected /\ tree.review = ui.review

\* A click of the present revision has seen the present tree.
CurrentHasSeen(q, t) ==
  \A i \in 1..Len(q) :
    /\ q[i].node = "toggle" => q[i].row \in Categories
    /\ q[i].node = "confirm_clean" /\ q[i].current => q[i].seen = t /\ t.phase = "confirm"

\* The run on the wire, and one that sudo has let through, is there.
RunsAreThere ==
  /\ ui.op # None => runs[ui.op] \in HonestRuns
  /\ \A i \in 1..Len(checking) : checking[i].answer = "ok" => runs[checking[i].run] \in HonestRuns

CleanInv ==
  MoonbitTypeOK /\ PanelOK(ui) /\ ConfirmIsShown /\ CurrentHasSeen(queue, tree) /\ RunsAreThere

-----------------------------------------------------------------------------
(* What the operators keep.                                                *)

LEMMA BoundsAreNat == MoonbitAssumption => RunsMax \in Nat /\ ScansMax \in Nat
BY DEF MoonbitAssumption

LEMMA RemoveKeepsType ==
  ASSUME NEW T, NEW s \in Seq(T), NEW i \in 1..Len(s) PROVE RemoveAt(s, i) \in Seq(T)
<1>1. SubSeq(s, 1, i - 1) \in Seq(T) /\ SubSeq(s, i + 1, Len(s)) \in Seq(T)
  <2>1. \A j \in 1..Len(s) : s[j] \in T
    BY ElementOfSeq
  <2>2. QED
    BY <2>1, SubSeqProperties, LenProperties
<1>2. QED
  BY <1>1, ConcatProperties DEF RemoveAt

LEMMA RemoveKeepsElements ==
  ASSUME NEW T, NEW s \in Seq(T), NEW i \in 1..Len(s), NEW j \in 1..Len(RemoveAt(s, i))
  PROVE  \E k \in 1..Len(s) : RemoveAt(s, i)[j] = s[k]
<1> DEFINE Elements == {s[k] : k \in 1..Len(s)}
<1>1. s \in Seq(Elements)
  <2>1. Len(s) \in Nat /\ s \in [1..Len(s) -> Elements]
    OBVIOUS
  <2> HIDE DEF Elements
  <2>2. [1..Len(s) -> Elements] \in {[1..n -> Elements] : n \in Nat}
    BY <2>1
  <2>3. QED
    BY <2>1, <2>2, SeqDef, Zenon
<1> HIDE DEF Elements
<1>2. RemoveAt(s, i)[j] \in Elements
  BY <1>1, RemoveKeepsType, ElementOfSeq
<1>3. QED
  BY <1>2 DEF Elements

LEMMA TreeType == ASSUME NEW u, PanelOK(u) PROVE Tree(u) \in Trees
BY DEF PanelOK, Panels, Tree, Trees, Scans

LEMMA RequestAuthOK ==
  ASSUME NEW u, PanelOK(u), NEW req \in Honest
  PROVE  PanelOK(RequestAuth(u, req))
<1>1. CASE u.op # None
  BY <1>1 DEF RequestAuth
<1>2. CASE u.op = None
  <2> DEFINE v == [u EXCEPT !.pending = req, !.phase = "auth", !.authorizing = FALSE,
                            !.back = IF u.phase \in {"auth", "error"} THEN "idle" ELSE u.phase]
  <2>1. RequestAuth(u, req) = v
    BY <1>2 DEF RequestAuth
  <2>2. v \in Panels
    BY DEF PanelOK, Panels, PanelPhases, Honest
  <2>3. v.review = u.review /\ v.stamp = u.stamp /\ v.pending = req /\ v.phase = "auth"
    BY DEF PanelOK, Panels
  <2>4. QED
    BY <2>1, <2>2, <2>3 DEF PanelOK, Honest
<1>3. QED
  BY <1>1, <1>2

LEMMA OtherRequests ==
  ASSUME NEW cmd \in {"scan", "docker", "schedule"}, NEW seen \in Trees \union {None}
  PROVE  Request(cmd, {}, 0, seen) \in Honest
BY DEF Request, Honest, Requests, Commands, OfShown

\* confirm_clean: the panel is as the tree that was clicked.
LEMMA CleanRequestOK ==
  ASSUME CleanInv, ui.phase = "confirm", tree.phase = "confirm", SelectedStats(ui) # {}
  PROVE  CleanRequest(ui, tree) \in Honest
<1>1. tree.selected = ui.selected /\ tree.review = ui.review
  BY DEF CleanInv, ConfirmIsShown
<1>2. ui.stamp = ui.review.scan
  BY DEF CleanInv, PanelOK, SelectedStats
<1>3. ui \in Panels /\ tree \in Trees
  BY DEF CleanInv, MoonbitTypeOK
<1>4. SelectedStats(ui) \in SUBSET Categories /\ ui.stamp \in Nat
  BY <1>3 DEF SelectedStats, Panels
<1>5. CleanRequest(ui, tree) \in Requests
  BY <1>3, <1>4 DEF CleanRequest, Request, Requests, Commands
<1>6. QED
  BY <1>1, <1>2, <1>5 DEF CleanRequest, Request, Honest, OfShown, SelectedStats

LEMMA BegunOK ==
  ASSUME NEW u, PanelOK(u), NEW req \in Requests
  PROVE  PanelOK(Begun(u, req)) /\ Begun(u, req).phase # "confirm"
<1>1. CASE req.cmd = "scan"
  BY <1>1 DEF Begun, PanelOK, Panels, PanelPhases, Progress, NoScan, Scans
<1>2. CASE req.cmd = "clean"
  BY <1>2 DEF Begun, PanelOK, Panels, PanelPhases, Progress
<1>3. CASE req.cmd \notin {"scan", "clean"}
  <2>1. req.cmd \in {"docker", "schedule"}
    BY <1>3 DEF Requests, Commands
  <2>2. QED
    BY <1>3, <2>1 DEF Begun, PanelOK, Panels, PanelPhases, Progress
<1>4. QED
  BY <1>1, <1>2, <1>3

LEMMA FoldedOK ==
  ASSUME NEW u, PanelOK(u), NEW run \in HonestRuns, run.stage = "terminal"
  PROVE  PanelOK(Folded(u, run)) /\ SameConfirm(u, Folded(u, run))
<1>1. CASE run.event = "error"
  BY <1>1 DEF Folded, PanelOK, Panels, PanelPhases, Progress, SameConfirm
<1>2. CASE run.event = "cancelled"
  BY <1>2 DEF Folded, PanelOK, Panels, PanelPhases, SameConfirm
<1>3. CASE run.event = "done"
  <2>1. run.result \in Scans
    BY DEF HonestRuns, RootRuns
  <2>2. QED
    BY <1>3, <2>1 DEF Folded, PanelOK, Panels, PanelPhases, SameConfirm, Scans
<1>4. CASE run.event = "clean_done"
  BY <1>4 DEF Folded, PanelOK, Panels, PanelPhases, SameConfirm
<1>5. CASE run.event = "finished"
  <2>1. run.req.cmd \in {"docker", "schedule"}
    BY <1>5 DEF HonestRuns
  <2>2. QED
    BY <1>5, <2>1 DEF Folded, PanelOK, Panels, PanelPhases, SameConfirm
<1>6. QED
  BY <1>1, <1>2, <1>3, <1>4, <1>5 DEF HonestRuns, RootRuns

LEMMA AfterStreamOK ==
  ASSUME NEW u, PanelOK(u), NEW r
  PROVE  PanelOK(AfterStream(u, r)) /\ SameConfirm(u, AfterStream(u, r))
<1>1. CASE u.op = r
  BY <1>1 DEF AfterStream, StreamEnded, PanelOK, Panels, PanelPhases, Progress, SameConfirm
<1>2. CASE u.op # r
  BY <1>2 DEF AfterStream, SameConfirm
<1>3. QED
  BY <1>1, <1>2

-----------------------------------------------------------------------------
(* The tree.                                                               *)

\* What is shown is of the panel, and clicks of an old tree are not current.
LEMMA SnapshotOK ==
  ASSUME NEW q \in Seq(Clicks), CurrentHasSeen(q, tree), NEW u, PanelOK(u), Snapshot(q, u),
         ui' = u
  PROVE  tree' \in Trees /\ queue' \in Seq(Clicks) /\ ConfirmIsShown' /\ CurrentHasSeen(queue', tree')
<1>1. tree' = Tree(u) /\ tree' \in Trees
  BY TreeType DEF Snapshot
<1>2. ConfirmIsShown'
  BY <1>1 DEF ConfirmIsShown, Tree
<1>3. CASE Tree(u) = tree
  BY <1>1, <1>2, <1>3 DEF Snapshot
<1>4. CASE Tree(u) # tree
  <2>1. queue' = [i \in 1..Len(q) |-> [q[i] EXCEPT !.current = FALSE]]
    BY <1>4 DEF Snapshot
  <2>2. Len(q) \in Nat
    OBVIOUS
  <2>3. \A i \in 1..Len(q) :
          /\ queue'[i] \in Clicks /\ ~queue'[i].current
          /\ queue'[i].node = q[i].node /\ queue'[i].row = q[i].row
    <3> SUFFICES ASSUME NEW i \in 1..Len(q)
                 PROVE  /\ queue'[i] \in Clicks /\ ~queue'[i].current
                        /\ queue'[i].node = q[i].node /\ queue'[i].row = q[i].row
      OBVIOUS
    <3>1. q[i] \in Clicks
      OBVIOUS
    <3>2. queue'[i] = [q[i] EXCEPT !.current = FALSE]
      BY <2>1
    <3>3. QED
      BY <3>1, <3>2 DEF Clicks
  <2>4. queue' \in Seq(Clicks) /\ Len(queue') = Len(q)
    <3>1. queue' \in [1..Len(q) -> Clicks]
      BY <2>1, <2>3
    <3>2. QED
      BY <2>2, <3>1, SeqDef
  <2>5. QED
    BY <1>1, <1>2, <2>3, <2>4 DEF CurrentHasSeen
<1>5. QED
  BY <1>3, <1>4

LEMMA LaterOK ==
  ASSUME CleanInv, NEW u, PanelOK(u), SameConfirm(ui, u), Later(u)
  PROVE  /\ ui' = u /\ ui' \in Panels /\ PanelOK(ui')
         /\ tree' \in Trees /\ queue' \in Seq(Clicks)
         /\ ConfirmIsShown' /\ CurrentHasSeen(queue', tree')
<1>1. ui' = u /\ u \in Panels
  BY DEF Later, PanelOK
<1>2. queue \in Seq(Clicks) /\ tree \in Trees /\ CurrentHasSeen(queue, tree)
  BY DEF CleanInv, MoonbitTypeOK
<1>3. CASE UNCHANGED <<tree, queue>>
  <2>1. ConfirmIsShown'
    BY <1>1, <1>3 DEF CleanInv, ConfirmIsShown, SameConfirm
  <2>2. QED
    BY <1>1, <1>2, <1>3, <2>1
<1>4. CASE Snapshot(queue, u)
  BY <1>1, <1>2, <1>4, SnapshotOK
<1>5. QED
  BY <1>3, <1>4 DEF Later

-----------------------------------------------------------------------------
(* The steps.                                                              *)

LEMMA CleanInit == MoonbitAssumption /\ Init => CleanInv
<1> SUFFICES ASSUME MoonbitAssumption, Init PROVE CleanInv
  OBVIOUS
<1>1. saved = [scan |-> 1, cats |-> Categories] /\ saved \in Scans
  BY DEF Init, Scans
<1>2. /\ ui = [phase |-> "idle", back |-> "idle", pending |-> None, authorizing |-> FALSE,
               op |-> None, review |-> NoScan, selected |-> {}, stamp |-> 0, cache |-> saved]
      /\ NoScan \in Scans /\ NoScan.cats = {}
  BY DEF Init, UIStart, NoScan, Scans
<1>3. PanelOK(ui)
  BY <1>1, <1>2 DEF PanelOK, Panels, PanelPhases
<1>4. tree \in Trees /\ tree = Tree(ui)
  BY <1>3, TreeType DEF Init
<1>5. MoonbitTypeOK
  BY <1>1, <1>3, <1>4 DEF Init, MoonbitTypeOK, PanelOK
<1>6. QED
  BY <1>2, <1>3, <1>4, <1>5 DEF Init, CleanInv, ConfirmIsShown, CurrentHasSeen, Tree, RunsAreThere

LEMMA NodesAreNamed == ASSUME NEW t \in Trees PROVE Nodes(t) \subseteq AllNodes
<1>1. CASE t.phase \in Progress
  BY <1>1 DEF Nodes, AllNodes
<1>2. CASE t.phase = "review"
  BY <1>2 DEF Nodes, AllNodes, Progress
<1>3. CASE t.phase \in {"confirm", "done", "auth"}
  BY <1>3 DEF Nodes, AllNodes, Progress
<1>4. CASE t.phase \in {"docker", "docker_confirm", "schedule"}
  BY <1>4 DEF Nodes, AllNodes, Progress
<1>5. CASE t.phase \in {"idle", "error"}
  BY <1>5 DEF Nodes, AllNodes, Progress
<1>6. QED
  BY <1>1, <1>2, <1>3, <1>4, <1>5 DEF Trees, PanelPhases

LEMMA ClickStep == ASSUME CleanInv, Click PROVE CleanInv'
<1>1. /\ UNCHANGED <<saved, scans, ui, tree, checking, runs, reading, used>>
      /\ \E node \in Nodes(tree), row \in Categories \union {None} :
           /\ row # None <=> node = "toggle"
           /\ queue' = Append(queue, [node |-> node, row |-> row, current |-> TRUE,
                                      seen |-> IF node = "confirm_clean" THEN tree ELSE None])
  BY DEF Click
<1>2. PICK node \in Nodes(tree), row \in Categories \union {None} :
        /\ row # None <=> node = "toggle"
        /\ queue' = Append(queue, [node |-> node, row |-> row, current |-> TRUE,
                                   seen |-> IF node = "confirm_clean" THEN tree ELSE None])
  BY <1>1
<1> DEFINE click == [node |-> node, row |-> row, current |-> TRUE,
                     seen |-> IF node = "confirm_clean" THEN tree ELSE None]
<1>3. node \in AllNodes
  BY NodesAreNamed DEF CleanInv, MoonbitTypeOK
<1>4. click \in Clicks
  BY <1>3 DEF CleanInv, MoonbitTypeOK, Clicks
<1>5. node = "confirm_clean" => tree.phase = "confirm"
  BY DEF Nodes
<1>6. queue \in Seq(Clicks) /\ CurrentHasSeen(queue, tree)
  BY DEF CleanInv, MoonbitTypeOK
<1>7. /\ queue' \in Seq(Clicks) /\ Len(queue') = Len(queue) + 1
      /\ \A i \in 1..Len(queue') : queue'[i] = IF i <= Len(queue) THEN queue[i] ELSE click
  BY <1>2, <1>4, <1>6, AppendProperties
<1>8. CurrentHasSeen(queue', tree')
  <2> SUFFICES ASSUME NEW i \in 1..Len(queue')
               PROVE  /\ queue'[i].node = "toggle" => queue'[i].row \in Categories
                      /\ queue'[i].node = "confirm_clean" /\ queue'[i].current =>
                           queue'[i].seen = tree /\ tree.phase = "confirm"
    BY <1>1 DEF CurrentHasSeen
  <2>1. CASE i <= Len(queue)
    BY <1>6, <1>7, <2>1 DEF CurrentHasSeen
  <2>2. CASE i > Len(queue)
    BY <1>2, <1>5, <1>7, <2>2
  <2>3. QED
    BY <1>6, <1>7, <2>1, <2>2
<1>9. QED
  BY <1>1, <1>7, <1>8 DEF CleanInv, MoonbitTypeOK, ConfirmIsShown, RunsAreThere

\* What a click makes of the panel, when it starts no run.
LEMMA HandledOK ==
  ASSUME CleanInv, queue # <<>> PROVE PanelOK(Handled(ui, Head(queue)))
<1> DEFINE click == Head(queue)
           node == click.node
<1>1. click \in Clicks /\ click = queue[1] /\ 1 \in 1..Len(queue)
  BY DEF CleanInv, MoonbitTypeOK
<1>2. /\ node = "toggle" => click.row \in Categories
      /\ node = "confirm_clean" /\ click.current => click.seen = tree /\ tree.phase = "confirm"
  BY <1>1 DEF CleanInv, CurrentHasSeen
<1>3. PanelOK(ui) /\ click.seen \in Trees \union {None}
  BY <1>1 DEF CleanInv, Clicks
<1> HIDE DEF click, node
<1>4. PanelOK(AuthCancel(ui))
  BY <1>3 DEF AuthCancel, PanelOK, Panels
<1>5. PanelOK(ReviewLast(ui))
  <2>1. CASE ui.cache.cats = {}
    BY <1>3, <2>1 DEF ReviewLast
  <2>2. CASE ui.cache.cats # {}
    <3> DEFINE scan == ui.cache
               v == [ui EXCEPT !.review = scan, !.selected = scan.cats, !.stamp = scan.scan,
                               !.phase = "review"]
    <3>1. scan \in Scans /\ scan.cats \in SUBSET Categories /\ scan.scan \in Nat
      BY <1>3 DEF PanelOK, Panels, Scans
    <3>2. ReviewLast(ui) = v
      BY <2>2 DEF ReviewLast
    <3> HIDE DEF scan
    <3>3. PanelOK(v)
      BY <1>3, <3>1 DEF PanelOK, Panels, PanelPhases
    <3>4. QED
      BY <3>2, <3>3
  <2>3. QED
    BY <2>1, <2>2
<1>6. \A cmd \in {"scan", "docker", "schedule"} :
        PanelOK(RequestAuth(ui, Request(cmd, {}, 0, click.seen)))
  BY <1>3, OtherRequests, RequestAuthOK
<1>7. ui.phase = "confirm" /\ node = "confirm_clean" /\ click.current /\ SelectedStats(ui) # {} =>
        PanelOK(RequestAuth(ui, CleanRequest(ui, click.seen)))
  BY <1>2, <1>3, CleanRequestOK, RequestAuthOK
<1>8. \A next \in {"confirm", "review", "docker", "docker_confirm", "schedule"} :
        PanelOK([ui EXCEPT !.phase = next])
  BY <1>3 DEF PanelOK, Panels, PanelPhases
<1>9. PanelOK([ui EXCEPT !.phase = "idle", !.review = NoScan, !.selected = {}])
  BY <1>3 DEF PanelOK, Panels, PanelPhases, NoScan, Scans
<1>10. \A rows \in SUBSET Categories : PanelOK([ui EXCEPT !.selected = rows])
  BY <1>3 DEF PanelOK, Panels
<1>11. ui.selected \in SUBSET Categories /\ ui.review.cats \in SUBSET Categories
  BY <1>3 DEF PanelOK, Panels, Scans
<1>12. PanelOK([ui EXCEPT !.selected = IF ui.review.cats \subseteq ui.selected
                                       THEN ui.selected \ ui.review.cats
                                       ELSE ui.selected \union ui.review.cats])
  BY <1>10, <1>11
<1>13. node = "toggle" =>
         PanelOK([ui EXCEPT !.selected = IF click.row \in ui.selected THEN ui.selected \ {click.row}
                                         ELSE ui.selected \union {click.row}])
  BY <1>2, <1>10, <1>11
<1>14. QED
  BY <1>3, <1>4, <1>5, <1>6, <1>7, <1>8, <1>9, <1>12, <1>13 DEF Handled, node, click

LEMMA HandledKeepsOp ==
  ASSUME PanelOK(ui), NEW click PROVE Handled(ui, click).op = ui.op
BY DEF Handled, AuthCancel, RequestAuth, ReviewLast, PanelOK, Panels

LEMMA HandleStep == ASSUME CleanInv, Handle PROVE CleanInv'
<1> DEFINE click == Head(queue)
           go == click.node = "auth_run" /\ MayAuthorize(ui)
           after == IF go THEN [ui EXCEPT !.authorizing = TRUE] ELSE Handled(ui, click)
<1>1. /\ queue # <<>> /\ ui' = after
      /\ checking' = IF go THEN Append(checking, [req |-> ui.pending, answer |-> "none", run |-> None])
                     ELSE checking
      /\ CancelRun(ui, click) /\ Snapshot(Tail(queue), after)
      /\ UNCHANGED <<saved, scans, reading, used, clicks>>
  BY DEF Handle
<1>2. PanelOK(ui) /\ queue \in Seq(Clicks) /\ checking \in Seq(Checks) /\ CurrentHasSeen(queue, tree)
  BY DEF CleanInv, MoonbitTypeOK
<1>3. PanelOK([ui EXCEPT !.authorizing = TRUE])
  BY <1>2 DEF PanelOK, Panels
<1>4. PanelOK(after)
  BY <1>1, <1>3, HandledOK
<1>5. Tail(queue) \in Seq(Clicks) /\ CurrentHasSeen(Tail(queue), tree)
  <2>1. /\ Tail(queue) \in Seq(Clicks) /\ Len(Tail(queue)) = Len(queue) - 1
        /\ \A i \in 1..Len(Tail(queue)) : Tail(queue)[i] = queue[i + 1]
    BY <1>1, <1>2, HeadTailProperties
  <2>2. \A i \in 1..Len(Tail(queue)) : i + 1 \in 1..Len(queue)
    BY <1>2, <2>1
  <2>3. QED
    BY <1>2, <2>1, <2>2 DEF CurrentHasSeen
<1>6. tree' \in Trees /\ queue' \in Seq(Clicks) /\ ConfirmIsShown' /\ CurrentHasSeen(queue', tree')
  <2> HIDE DEF after
  <2>1. QED
    BY <1>1, <1>4, <1>5, SnapshotOK
<1>7. checking' \in Seq(Checks)
  <2>1. CASE go
    <3>1. ui.pending \in Honest
      BY <1>2, <2>1 DEF MayAuthorize, PanelOK, Panels, Honest
    <3>2. [req |-> ui.pending, answer |-> "none", run |-> None] \in Checks
      BY <3>1 DEF Checks
    <3>3. QED
      BY <1>1, <1>2, <2>1, <3>2
  <2>2. CASE ~go
    BY <1>1, <1>2, <2>2
  <2>3. QED
    BY <2>1, <2>2
<1>8. runs' \in [1..RunsMax -> HonestRuns \union {None}]
  <2>1. runs \in [1..RunsMax -> HonestRuns \union {None}]
    BY DEF CleanInv, MoonbitTypeOK
  <2>2. CASE click.node = "cancel" /\ ui.op # None
    <3>1. ui.op \in 1..RunsMax /\ runs[ui.op] \in HonestRuns
      BY <1>2, <2>2 DEF CleanInv, RunsAreThere, PanelOK, Panels
    <3>2. [runs[ui.op] EXCEPT !.cancelled = TRUE] \in HonestRuns
      BY <3>1 DEF HonestRuns, RootRuns
    <3>3. QED
      BY <1>1, <2>1, <2>2, <3>1, <3>2 DEF CancelRun
  <2>3. CASE ~(click.node = "cancel" /\ ui.op # None)
    BY <1>1, <2>1, <2>3 DEF CancelRun
  <2>4. QED
    BY <2>2, <2>3
<1>9. \A r \in 1..RunsMax : runs[r] \in HonestRuns => runs'[r] \in HonestRuns
  <2>1. CASE click.node = "cancel" /\ ui.op # None
    <3>1. ui.op \in 1..RunsMax /\ runs[ui.op] \in HonestRuns
      BY <1>2, <2>1 DEF CleanInv, RunsAreThere, PanelOK, Panels
    <3>2. [runs[ui.op] EXCEPT !.cancelled = TRUE] \in HonestRuns
      BY <3>1 DEF HonestRuns, RootRuns
    <3>3. QED
      BY <1>1, <2>1, <3>1, <3>2 DEF CancelRun, CleanInv, MoonbitTypeOK
  <2>2. CASE ~(click.node = "cancel" /\ ui.op # None)
    BY <1>1, <2>2 DEF CancelRun
  <2>3. QED
    BY <2>1, <2>2
<1>10. ui'.op = ui.op
  BY <1>1, <1>2, HandledKeepsOp DEF PanelOK, Panels
<1>11. RunsAreThere'
  <2>1. \A i \in 1..Len(checking') : checking'[i].answer = "ok" =>
          \E j \in 1..Len(checking) : checking'[i] = checking[j]
    BY <1>1, <1>2
  <2>2. \A i \in 1..Len(checking) : checking[i] \in Checks
    BY <1>2
  <2>3. ui.op # None => ui.op \in 1..RunsMax
    BY <1>2 DEF PanelOK, Panels
  <2>4. \A i \in 1..Len(checking) : checking[i].answer = "ok" => checking[i].run \in 1..RunsMax
    BY <2>2 DEF Checks
  <2>5. ui'.op # None => runs'[ui'.op] \in HonestRuns
    BY <1>9, <1>10, <2>3 DEF CleanInv, RunsAreThere
  <2>6. \A i \in 1..Len(checking') :
          checking'[i].answer = "ok" => runs'[checking'[i].run] \in HonestRuns
    BY <1>9, <2>1, <2>4 DEF CleanInv, RunsAreThere
  <2>7. QED
    BY <2>5, <2>6 DEF RunsAreThere
<1>12. QED
  BY <1>1, <1>4, <1>6, <1>7, <1>8, <1>11 DEF CleanInv, MoonbitTypeOK, PanelOK

LEMMA SudoStep == ASSUME MoonbitAssumption, CleanInv, SudoAnswers PROVE CleanInv'
<1>1. PICK i \in 1..Len(checking) :
        /\ checking[i].answer = "none"
        /\ \/ /\ checking' = [checking EXCEPT ![i].answer = "wrong"] /\ UNCHANGED <<runs, used>>
           \/ /\ checking' = [checking EXCEPT ![i].answer = "failed"] /\ UNCHANGED <<runs, used>>
           \/ /\ used < RunsMax /\ used' = used + 1
              /\ checking' = [checking EXCEPT ![i].answer = "ok", ![i].run = used + 1]
              /\ runs' = [runs EXCEPT ![used + 1] =
                            [req |-> checking[i].req, stage |-> "working", event |-> "",
                             result |-> NoScan, cancelled |-> FALSE]]
        /\ UNCHANGED <<saved, scans, ui, tree, queue, reading, clicks>>
  BY DEF SudoAnswers
<1>2. /\ checking \in Seq(Checks) /\ used \in Nat /\ RunsMax \in Nat
      /\ runs \in [1..RunsMax -> HonestRuns \union {None}]
  BY BoundsAreNat DEF CleanInv, MoonbitTypeOK
<1>3. checking[i] \in Checks
  BY <1>2
<1>4. ConfirmIsShown' /\ CurrentHasSeen(queue, tree)' /\ PanelOK(ui)'
  BY <1>1 DEF CleanInv, ConfirmIsShown, CurrentHasSeen
<1>5. CASE \E said \in {"wrong", "failed"} : checking' = [checking EXCEPT ![i].answer = said]
                                               /\ UNCHANGED <<runs, used>>
  <2>1. PICK said \in {"wrong", "failed"} : checking' = [checking EXCEPT ![i].answer = said]
    BY <1>5
  <2>2. [checking[i] EXCEPT !.answer = said] \in Checks
    BY <1>3 DEF Checks
  <2>3. /\ checking' \in Seq(Checks) /\ Len(checking') = Len(checking)
        /\ \A j \in 1..Len(checking) :
             checking'[j].answer = "ok" => checking[j].answer = "ok" /\ checking'[j].run = checking[j].run
    <3>1. \A j \in 1..Len(checking) :
            checking'[j] = IF j = i THEN [checking[i] EXCEPT !.answer = said] ELSE checking[j]
      BY <1>2, <2>1
    <3>2. checking' \in Seq(Checks) /\ Len(checking') = Len(checking)
      BY <1>2, <2>1, <2>2, ExceptSeq
    <3>3. [checking[i] EXCEPT !.answer = said].answer # "ok"
      BY <1>3 DEF Checks
    <3>4. QED
      BY <3>1, <3>2, <3>3
  <2>4. RunsAreThere'
    BY <1>1, <1>5, <2>3 DEF CleanInv, RunsAreThere
  <2>5. QED
    BY <1>1, <1>4, <1>5, <2>3, <2>4 DEF CleanInv, MoonbitTypeOK
<1>6. CASE /\ used < RunsMax /\ used' = used + 1
           /\ checking' = [checking EXCEPT ![i].answer = "ok", ![i].run = used + 1]
           /\ runs' = [runs EXCEPT ![used + 1] =
                         [req |-> checking[i].req, stage |-> "working", event |-> "",
                          result |-> NoScan, cancelled |-> FALSE]]
  <2> DEFINE run == [req |-> checking[i].req, stage |-> "working", event |-> "",
                     result |-> NoScan, cancelled |-> FALSE]
             check == [[checking[i] EXCEPT !.answer = "ok"] EXCEPT !.run = used + 1]
  <2>1. run \in HonestRuns
    BY <1>3 DEF Checks, HonestRuns, RootRuns, Honest, NoScan, Scans
  <2>2. used + 1 \in 1..RunsMax /\ used' \in Nat
    <3>1. used \in Nat /\ RunsMax \in Nat /\ used < RunsMax /\ used' = used + 1
      BY <1>2, <1>6
    <3>2. QED
      BY <3>1
  <2>3. check \in Checks /\ check.run = used + 1
    BY <1>3, <2>2 DEF Checks
  <2>4. checking' = [checking EXCEPT ![i] = check]
    BY <1>2, <1>6
  <2>5. /\ checking' \in Seq(Checks) /\ Len(checking') = Len(checking)
        /\ \A j \in 1..Len(checking) : checking'[j] = IF j = i THEN check ELSE checking[j]
    <3> HIDE DEF check
    <3>1. QED
      BY <1>2, <2>3, <2>4, ExceptSeq
  <2>6. /\ runs' \in [1..RunsMax -> HonestRuns \union {None}]
        /\ runs'[used + 1] \in HonestRuns
        /\ \A r \in 1..RunsMax : runs[r] \in HonestRuns => runs'[r] \in HonestRuns
    BY <1>2, <1>6, <2>1, <2>2
  <2> HIDE DEF check, run
  <2>7. /\ ui.op # None => ui.op \in 1..RunsMax
        /\ \A j \in 1..Len(checking) : checking[j].answer = "ok" => checking[j].run \in 1..RunsMax
    <3>1. \A j \in 1..Len(checking) : checking[j] \in Checks
      BY <1>2
    <3>2. QED
      BY <3>1 DEF CleanInv, PanelOK, Panels, Checks
  <2>8. RunsAreThere'
    BY <1>1, <2>3, <2>5, <2>6, <2>7 DEF CleanInv, RunsAreThere
  <2>9. QED
    BY <1>1, <1>4, <2>2, <2>5, <2>6, <2>8 DEF CleanInv, MoonbitTypeOK
<1>7. QED
  BY <1>1, <1>5, <1>6

\* sudo's answer is taken: the panel begins the run, or says why not.
LEMMA AnswerStep == ASSUME CleanInv, TakeAnswer PROVE CleanInv'
<1> DEFINE free == [ui EXCEPT !.authorizing = FALSE]
           failed == [free EXCEPT !.pending = None, !.phase = "error"]
           begun(check) == [Begun(free, check.req) EXCEPT !.pending = None, !.op = check.run]
<1>1. PICK i \in 1..Len(checking) :
        /\ checking[i].answer # "none"
        /\ checking' = RemoveAt(checking, i)
        /\ Later(CASE checking[i].answer = "wrong" -> free
                   [] checking[i].answer = "failed" -> failed
                   [] OTHER -> begun(checking[i]))
        /\ UNCHANGED <<saved, scans, runs, reading, used, clicks>>
  BY DEF TakeAnswer
<1>2. checking \in Seq(Checks) /\ checking[i] \in Checks /\ PanelOK(ui)
  BY DEF CleanInv, MoonbitTypeOK
<1>3. PanelOK(free) /\ SameConfirm(ui, free) /\ free.op = ui.op
  BY <1>2 DEF PanelOK, Panels, SameConfirm
<1>4. PanelOK(failed) /\ SameConfirm(ui, failed) /\ failed.op = ui.op
  BY <1>2 DEF PanelOK, Panels, SameConfirm, PanelPhases
<1>5. checking[i].answer \notin {"wrong", "failed"} =>
        /\ PanelOK(begun(checking[i])) /\ SameConfirm(ui, begun(checking[i]))
        /\ begun(checking[i]).op = checking[i].run /\ checking[i].run \in 1..RunsMax
        /\ runs[checking[i].run] \in HonestRuns
  <2> SUFFICES ASSUME checking[i].answer \notin {"wrong", "failed"}
               PROVE  /\ PanelOK(begun(checking[i])) /\ SameConfirm(ui, begun(checking[i]))
                      /\ begun(checking[i]).op = checking[i].run /\ checking[i].run \in 1..RunsMax
                      /\ runs[checking[i].run] \in HonestRuns
    OBVIOUS
  <2>1. checking[i].req \in Requests /\ checking[i].run \in 1..RunsMax
    BY <1>1, <1>2 DEF Checks, Honest
  <2> HIDE DEF free
  <2> DEFINE after == Begun(free, checking[i].req)
  <2>2. PanelOK(after) /\ after.phase # "confirm"
    BY <1>3, <2>1, BegunOK
  <2> HIDE DEF after
  <2>3. /\ PanelOK([after EXCEPT !.pending = None, !.op = checking[i].run])
        /\ [after EXCEPT !.pending = None, !.op = checking[i].run].phase # "confirm"
        /\ [after EXCEPT !.pending = None, !.op = checking[i].run].op = checking[i].run
    BY <2>1, <2>2 DEF PanelOK, Panels
  <2>4. checking[i].answer = "ok"
    BY <1>1, <1>2 DEF Checks
  <2>5. runs[checking[i].run] \in HonestRuns
    BY <2>4 DEF CleanInv, RunsAreThere
  <2>6. QED
    BY <2>1, <2>3, <2>5 DEF after, SameConfirm
<1> DEFINE after == CASE checking[i].answer = "wrong" -> free
                      [] checking[i].answer = "failed" -> failed
                      [] OTHER -> begun(checking[i])
<1>6. /\ PanelOK(after) /\ SameConfirm(ui, after)
      /\ after.op = ui.op \/ runs[after.op] \in HonestRuns
  <2> HIDE DEF free, failed, begun
  <2>1. QED
    BY <1>3, <1>4, <1>5
<1>7. Later(after)
  BY <1>1
<1> HIDE DEF after
<1>8. /\ ui' = after /\ ui' \in Panels /\ PanelOK(ui') /\ tree' \in Trees /\ queue' \in Seq(Clicks)
      /\ ConfirmIsShown' /\ CurrentHasSeen(queue', tree')
  BY <1>6, <1>7, LaterOK
<1>9. /\ checking' \in Seq(Checks)
      /\ \A j \in 1..Len(checking') : \E k \in 1..Len(checking) : checking'[j] = checking[k]
  BY <1>1, <1>2, RemoveKeepsType, RemoveKeepsElements
<1>10. RunsAreThere'
  BY <1>1, <1>6, <1>8, <1>9 DEF CleanInv, RunsAreThere
<1>11. QED
  BY <1>1, <1>8, <1>9, <1>10 DEF CleanInv, MoonbitTypeOK

\* Only what is shown of the panel changes, or a run's stage.
LEMMA RunKept ==
  ASSUME NEW run \in HonestRuns, NEW stage \in {"working", "ended"}
  PROVE  [run EXCEPT !.stage = stage] \in HonestRuns
BY DEF HonestRuns, RootRuns

LEMMA RunsKept ==
  ASSUME CleanInv, UNCHANGED <<ui, checking>>,
         \A r \in 1..RunsMax : runs[r] \in HonestRuns => runs'[r] \in HonestRuns
  PROVE  RunsAreThere'
<1>1. ui.op # None => ui.op \in 1..RunsMax
  BY DEF CleanInv, MoonbitTypeOK, Panels
<1>2. \A i \in 1..Len(checking) : checking[i].answer = "ok" => checking[i].run \in 1..RunsMax
  <2>1. \A i \in 1..Len(checking) : checking[i] \in Checks
    BY DEF CleanInv, MoonbitTypeOK
  <2>2. QED
    BY <2>1 DEF Checks
<1>3. QED
  BY <1>1, <1>2 DEF CleanInv, RunsAreThere

LEMMA RunEndsStep == ASSUME CleanInv, RunEnds PROVE CleanInv'
<1> DEFINE Over(r, event) == [runs EXCEPT ![r].stage = "terminal", ![r].event = event,
                                  ![r].result = IF event = "done" THEN saved' ELSE NoScan]
<1>1. PICK r \in 1..RunsMax :
        /\ Live(r)
        /\ \/ runs' = Over(r, "error") /\ UNCHANGED <<saved, scans>>
           \/ runs' = Over(r, "cancelled") /\ UNCHANGED <<saved, scans>>
           \/ NewScan /\ runs' = Over(r, "done")
           \/ runs' = Over(r, "clean_done") /\ UNCHANGED <<saved, scans>>
           \/ /\ runs[r].req.cmd \in {"docker", "schedule"} /\ runs' = Over(r, "finished")
              /\ UNCHANGED <<saved, scans>>
        /\ UNCHANGED <<ui, tree, queue, checking, reading, used, clicks>>
  BY DEF RunEnds
<1>2. runs \in [1..RunsMax -> HonestRuns \union {None}] /\ runs[r] \in HonestRuns
  BY <1>1 DEF CleanInv, MoonbitTypeOK, Live
<1>3. saved' \in Scans /\ scans' \in Nat
  BY <1>1 DEF CleanInv, MoonbitTypeOK, NewScan, Scans
<1>4. PICK event \in {"error", "cancelled", "done", "clean_done", "finished"} :
        /\ runs' = Over(r, event)
        /\ event = "finished" => runs[r].req.cmd \in {"docker", "schedule"}
  BY <1>1
<1> DEFINE gained == IF event = "done" THEN saved' ELSE NoScan
           run == [[[runs[r] EXCEPT !.stage = "terminal"] EXCEPT !.event = event]
                     EXCEPT !.result = gained]
<1>5. gained \in Scans
  BY <1>3 DEF NoScan, Scans
<1>6. runs' = [runs EXCEPT ![r] = run]
  BY <1>2, <1>4
<1> HIDE DEF gained
<1>7. run \in HonestRuns
  BY <1>2, <1>4, <1>5 DEF HonestRuns, RootRuns
<1> HIDE DEF run
<1>8. /\ runs' \in [1..RunsMax -> HonestRuns \union {None}]
      /\ \A s \in 1..RunsMax : runs[s] \in HonestRuns => runs'[s] \in HonestRuns
  BY <1>2, <1>6, <1>7
<1>9. RunsAreThere'
  BY <1>1, <1>8, RunsKept
<1>10. QED
  BY <1>1, <1>3, <1>8, <1>9
     DEF CleanInv, MoonbitTypeOK, ConfirmIsShown, CurrentHasSeen, PanelOK

LEMMA DieStep == ASSUME CleanInv, Die PROVE CleanInv'
<1>1. PICK r \in 1..RunsMax :
        /\ Live(r) /\ runs' = [runs EXCEPT ![r].stage = "ended"]
        /\ UNCHANGED <<saved, scans, ui, tree, queue, checking, reading, used, clicks>>
  BY DEF Die
<1>2. runs \in [1..RunsMax -> HonestRuns \union {None}] /\ runs[r] \in HonestRuns
  BY <1>1 DEF CleanInv, MoonbitTypeOK, Live
<1>3. runs' = [runs EXCEPT ![r] = [runs[r] EXCEPT !.stage = "ended"]]
  BY <1>1, <1>2
<1>4. /\ runs' \in [1..RunsMax -> HonestRuns \union {None}]
      /\ \A s \in 1..RunsMax : runs[s] \in HonestRuns => runs'[s] \in HonestRuns
  BY <1>2, <1>3, RunKept
<1>5. RunsAreThere'
  BY <1>1, <1>4, RunsKept
<1>6. QED
  BY <1>1, <1>4, <1>5 DEF CleanInv, MoonbitTypeOK, ConfirmIsShown, CurrentHasSeen, PanelOK

LEMMA TerminalStep == ASSUME CleanInv, TakeTerminal PROVE CleanInv'
<1>1. PICK r \in 1..RunsMax :
        /\ runs[r] # None /\ runs[r].stage = "terminal"
        /\ Later([Folded(ui, runs[r]) EXCEPT !.op = None])
        /\ runs' = [runs EXCEPT ![r].stage = "ended"]
        /\ UNCHANGED <<saved, scans, checking, reading, used, clicks>>
  BY DEF TakeTerminal
<1>2. /\ runs \in [1..RunsMax -> HonestRuns \union {None}] /\ runs[r] \in HonestRuns
      /\ PanelOK(ui) /\ checking \in Seq(Checks)
  BY <1>1 DEF CleanInv, MoonbitTypeOK
<1> DEFINE folded == Folded(ui, runs[r])
           after == [folded EXCEPT !.op = None]
<1>3. PanelOK(folded) /\ SameConfirm(ui, folded)
  BY <1>1, <1>2, FoldedOK
<1> HIDE DEF folded
<1>4. PanelOK(after) /\ SameConfirm(ui, after) /\ after.op = None
  BY <1>3 DEF PanelOK, Panels, SameConfirm
<1>5. Later(after)
  BY <1>1 DEF folded
<1> HIDE DEF after
<1>6. /\ ui' = after /\ ui' \in Panels /\ PanelOK(ui') /\ tree' \in Trees /\ queue' \in Seq(Clicks)
      /\ ConfirmIsShown' /\ CurrentHasSeen(queue', tree')
  BY <1>4, <1>5, LaterOK
<1>7. runs' = [runs EXCEPT ![r] = [runs[r] EXCEPT !.stage = "ended"]]
  BY <1>1, <1>2
<1>8. /\ runs' \in [1..RunsMax -> HonestRuns \union {None}]
      /\ \A s \in 1..RunsMax : runs[s] \in HonestRuns => runs'[s] \in HonestRuns
  BY <1>2, <1>7, RunKept
<1>9. RunsAreThere'
  <2>1. \A i \in 1..Len(checking) : checking[i] \in Checks
    BY <1>2
  <2>2. \A i \in 1..Len(checking) : checking[i].answer = "ok" => checking[i].run \in 1..RunsMax
    BY <2>1 DEF Checks
  <2>3. QED
    BY <1>1, <1>4, <1>6, <1>8, <2>2 DEF CleanInv, RunsAreThere
<1>10. QED
  BY <1>1, <1>6, <1>8, <1>9 DEF CleanInv, MoonbitTypeOK

LEMMA ClosedStep == ASSUME CleanInv, TakeClosed PROVE CleanInv'
<1>1. PICK r \in 1..RunsMax :
        /\ Begins(r) /\ Later(AfterStream(ui, r)) /\ runs' = [runs EXCEPT ![r] = None]
        /\ UNCHANGED <<saved, scans, checking, reading, used, clicks>>
  BY DEF TakeClosed
<1>2. /\ runs \in [1..RunsMax -> HonestRuns \union {None}] /\ PanelOK(ui)
      /\ checking \in Seq(Checks)
  BY DEF CleanInv, MoonbitTypeOK
<1> DEFINE after == AfterStream(ui, r)
<1>3. PanelOK(after) /\ SameConfirm(ui, after)
  BY <1>2, AfterStreamOK
<1>4. \/ after.op = None
      \/ after.op = ui.op /\ ui.op # r
  <2>1. CASE ui.op = r
    BY <1>2, <2>1 DEF AfterStream, StreamEnded, PanelOK, Panels
  <2>2. CASE ui.op # r
    BY <2>2 DEF AfterStream
  <2>3. QED
    BY <2>1, <2>2
<1> HIDE DEF after
<1>5. /\ ui' = after /\ ui' \in Panels /\ PanelOK(ui') /\ tree' \in Trees /\ queue' \in Seq(Clicks)
      /\ ConfirmIsShown' /\ CurrentHasSeen(queue', tree')
  BY <1>1, <1>3, LaterOK DEF after
<1>6. /\ runs' \in [1..RunsMax -> HonestRuns \union {None}]
      /\ \A s \in 1..RunsMax : s # r /\ runs[s] \in HonestRuns => runs'[s] \in HonestRuns
  BY <1>1, <1>2
<1>7. RunsAreThere'
  <2>1. \A i \in 1..Len(checking) : checking[i] \in Checks /\ checking[i].run # r
    BY <1>1, <1>2 DEF Begins
  <2>2. \A i \in 1..Len(checking) : checking[i].answer = "ok" => checking[i].run \in 1..RunsMax
    BY <2>1 DEF Checks
  <2>3. ui.op # None => ui.op \in 1..RunsMax
    BY <1>2 DEF PanelOK, Panels
  <2>4. QED
    BY <1>1, <1>4, <1>5, <1>6, <2>1, <2>2, <2>3 DEF CleanInv, RunsAreThere
<1>8. QED
  BY <1>1, <1>5, <1>6, <1>7 DEF CleanInv, MoonbitTypeOK

LEMMA FlushStep == ASSUME CleanInv, Flush PROVE CleanInv'
<1>1. Snapshot(queue, ui) /\ UNCHANGED <<saved, scans, ui, checking, runs, reading, used, clicks>>
  BY DEF Flush
<1>2. queue \in Seq(Clicks) /\ CurrentHasSeen(queue, tree) /\ PanelOK(ui)
  BY DEF CleanInv, MoonbitTypeOK
<1>3. tree' \in Trees /\ queue' \in Seq(Clicks) /\ ConfirmIsShown' /\ CurrentHasSeen(queue', tree')
  BY <1>1, <1>2, SnapshotOK
<1>4. RunsAreThere'
  BY <1>1, RunsKept
<1>5. QED
  BY <1>1, <1>3, <1>4 DEF CleanInv, MoonbitTypeOK, PanelOK

LEMMA StatusStep == ASSUME CleanInv, TakeStatus PROVE CleanInv'
<1> DEFINE after == [ui EXCEPT !.cache = reading]
<1>1. /\ reading # None /\ reading' = None /\ Later(after)
      /\ UNCHANGED <<saved, scans, checking, runs, used, clicks>>
  BY DEF TakeStatus
<1>2. reading \in Scans /\ PanelOK(ui)
  BY <1>1 DEF CleanInv, MoonbitTypeOK
<1>3. PanelOK(after) /\ SameConfirm(ui, after) /\ after.op = ui.op
  BY <1>2 DEF PanelOK, Panels, SameConfirm
<1> HIDE DEF after
<1>4. /\ ui' = after /\ ui' \in Panels /\ PanelOK(ui') /\ tree' \in Trees /\ queue' \in Seq(Clicks)
      /\ ConfirmIsShown' /\ CurrentHasSeen(queue', tree')
  BY <1>1, <1>3, LaterOK
<1>5. RunsAreThere'
  BY <1>1, <1>3, <1>4 DEF CleanInv, RunsAreThere
<1>6. QED
  BY <1>1, <1>4, <1>5 DEF CleanInv, MoonbitTypeOK

LEMMA OtherStep == ASSUME CleanInv, ReadStatus \/ OtherScan \/ UNCHANGED vars PROVE CleanInv'
<1>1. UNCHANGED <<ui, tree, queue, checking, runs, used>>
  BY DEF ReadStatus, OtherScan, vars
<1>2. saved' \in Scans /\ scans' \in Nat /\ reading' \in Scans \union {None}
  BY DEF ReadStatus, OtherScan, NewScan, vars, CleanInv, MoonbitTypeOK, Scans
<1>3. QED
  BY <1>1, <1>2
     DEF CleanInv, MoonbitTypeOK, PanelOK, ConfirmIsShown, CurrentHasSeen, RunsAreThere

LEMMA CleanNext == MoonbitAssumption /\ CleanInv /\ [Next]_vars => CleanInv'
<1> SUFFICES ASSUME MoonbitAssumption, CleanInv, [Next]_vars PROVE CleanInv'
  OBVIOUS
<1>1. CASE Click \/ Handle
  BY <1>1, ClickStep, HandleStep
<1>2. CASE SudoAnswers \/ TakeAnswer
  BY <1>2, SudoStep, AnswerStep
<1>3. CASE RunEnds \/ Die \/ TakeTerminal \/ TakeClosed
  BY <1>3, RunEndsStep, DieStep, TerminalStep, ClosedStep
<1>4. CASE Flush \/ TakeStatus
  BY <1>4, FlushStep, StatusStep
<1>5. CASE ReadStatus \/ OtherScan \/ UNCHANGED vars
  BY <1>5, OtherStep
<1>6. QED
  BY <1>1, <1>2, <1>3, <1>4, <1>5 DEF Next

-----------------------------------------------------------------------------
(* What it comes to.                                                       *)

\* The panel, the tree, the clicks, sudo's answers and the runs are what they should be
\* at every moment (main.go, state.go).
THEOREM MoonbitTypeCorrect == ASSUME MoonbitAssumption PROVE Spec => []MoonbitTypeOK
<1>1. Init => CleanInv
  BY CleanInit
<1>2. CleanInv /\ [Next]_vars => CleanInv'
  BY CleanNext
<1>3. CleanInv => MoonbitTypeOK
  BY DEF CleanInv
<1>4. QED
  BY <1>1, <1>2, <1>3, PTL DEF Spec

\* What is cleaned as root are the rows of the confirm screen that was clicked, of the
\* scan they were shown for, however late the clicks come (confirm_clean, ScannedAt).
THEOREM RootCleansWhatWasShown == ASSUME MoonbitAssumption PROVE Spec => []CleansWhatWasShown
<1>1. Init => CleanInv
  BY CleanInit
<1>2. CleanInv /\ [Next]_vars => CleanInv'
  BY CleanNext
<1>3. CleanInv => CleansWhatWasShown
  <2> SUFFICES ASSUME CleanInv, NEW r \in 1..RunsMax, runs[r] # None, runs[r].req.cmd = "clean"
               PROVE  /\ runs[r].req.seen.phase = "confirm"
                      /\ runs[r].req.cats = runs[r].req.seen.selected
                                              \intersect runs[r].req.seen.review.cats
                      /\ runs[r].req.stamp = runs[r].req.seen.review.scan
    BY DEF CleansWhatWasShown
  <2>1. runs[r] \in HonestRuns
    BY DEF CleanInv, MoonbitTypeOK
  <2>2. QED
    BY <2>1 DEF HonestRuns, Honest, OfShown
<1>4. QED
  BY <1>1, <1>2, <1>3, PTL DEF Spec

-----------------------------------------------------------------------------
(* Screenshot.                                                             *)

\* A signal is owed or lies in the channel.
Signalled == signals # {} \/ repaint

\* What the panel shows while the loop is at its select, and what it sends, are the model
\* unless a signal is still to be taken: a tree that was drawn before a change is followed
\* by another.
PanelInv ==
  /\ loop.at = "select" => loop.tree = None
  /\ loop.at \in {"select", "paint", "send"}
  /\ screen.open /\ loop.at = "select" => screen = Painted(launcher) \/ Signalled
  /\ loop.at = "send" => loop.tree = Painted(launcher) \/ Signalled

LEMMA PanelStep == PanelInv /\ [ScreenshotNext]_screenshotVars => PanelInv'
<1> SUFFICES ASSUME PanelInv, [ScreenshotNext]_screenshotVars PROVE PanelInv'
  OBVIOUS
<1>1. ASSUME OpensPanel, UNCHANGED <<launcher, signals, repaint>> PROVE PanelInv'
  <2>1. CASE screen.open
    <3>1. UNCHANGED <<screen, loop>>
      BY <1>1, <2>1 DEF OpensPanel
    <3>2. QED
      BY <1>1, <3>1 DEF PanelInv, Painted, Signalled
  <2>2. CASE ~screen.open
    <3>1. loop' = ToPaint
      BY <1>1, <2>2 DEF OpensPanel
    <3>2. QED
      BY <3>1 DEF PanelInv, ToPaint
  <2>3. QED
    BY <2>1, <2>2
<1>2. ASSUME ClosesPanel, UNCHANGED <<launcher, signals, repaint, loop>> PROVE PanelInv'
  BY <1>2 DEF ClosesPanel, ClosedPanel, PanelInv, Painted, Signalled
<1>3. ASSUME NEW a, NEW model, Set(a, model), UNCHANGED <<repaint, loop, screen>> PROVE PanelInv'
  BY <1>3 DEF Set, PanelInv, Signalled
<1>4. CASE UNCHANGED <<launcher, signals, repaint, loop, screen>>
  BY <1>4 DEF PanelInv, Painted, Signalled
<1>5. CASE Repaint
  <2>1. CASE loop' = ToPaint
    BY <2>1 DEF PanelInv, ToPaint
  <2>2. CASE loop' = [at |-> "send", tree |-> Painted(launcher)] /\ UNCHANGED launcher
    BY <2>2 DEF PanelInv, Painted
  <2>3. CASE /\ loop.at = "send" /\ loop' = AtSelect
             /\ screen' = IF screen.open THEN loop.tree ELSE screen
             /\ UNCHANGED <<launcher, signals, repaint>>
    <3>1. loop'.at = "select" /\ loop'.tree = None
      BY <2>3 DEF AtSelect
    <3>2. loop.tree = Painted(launcher) \/ Signalled
      BY <2>3 DEF PanelInv
    <3>3. screen'.open => screen' = loop.tree
      BY <2>3
    <3>4. QED
      BY <2>3, <3>1, <3>2, <3>3 DEF PanelInv, Painted, Signalled
  <2>4. QED
    BY <1>5, <2>1, <2>2, <2>3 DEF Repaint
<1>6. CASE PressButton
  BY <1>1, <1>2, <1>4, <1>6 DEF PressButton
<1>7. ASSUME NEW a \in Acts, Works(a) PROVE PanelInv'
  <2>1. CASE Signals(a)
    BY <2>1 DEF Signals, PanelInv, Painted, Signalled
  <2>2. CASE Refresh(a)
    BY <1>3, <2>2 DEF Refresh
  <2>3. CASE Capture(a)
    BY <1>2, <1>3, <1>4, <2>3 DEF Capture
  <2>4. CASE Answered(a)
    BY <1>3, <1>4, <2>4 DEF Answered
  <2>5. CASE Reopens(a)
    BY <1>1, <2>5 DEF Reopens
  <2>6. CASE Folder(a)
    BY <1>2, <1>3, <2>6 DEF Folder
  <2>7. QED
    BY <1>7, <2>1, <2>2, <2>3, <2>4, <2>5, <2>6 DEF Works
<1>8. QED
  BY <1>4, <1>5, <1>6, <1>7 DEF ScreenshotNext, screenshotVars

\* An open panel shows the model or will, for any number of acts at a time: no change that
\* several of them make is lost between the write and its signal, in the one place of the
\* channel, or while the loop draws (launcher.go, main.go).
THEOREM PanelIsPainted == ScreenshotSpec => []PanelShowsModel
<1>1. ScreenshotInit => PanelInv
  BY DEF ScreenshotInit, ClosedPanel, AtSelect, PanelInv
<1>2. PanelInv => PanelShowsModel
  BY DEF PanelInv, PanelShowsModel, PaintComes, Signalled
<1>3. QED
  BY <1>1, <1>2, PanelStep, PTL DEF ScreenshotSpec

-----------------------------------------------------------------------------
(* The timer.                                                              *)

Modes == {"work", "short", "long"}
Snaps ==
  {s \in [mode : Modes \union {"none"}, completed : Nat, duration : Nat,
          left : Nat \union {NoDeadline}, phase : Phases] :
     /\ s.mode = "none" => s = NoSnapshot
     /\ s.left = NoDeadline => s.duration = 0 /\ s.phase = 0
     /\ s.left # NoDeadline => s.left <= s.duration /\ s.duration % Second = 0}

TimerTypeOK ==
  /\ mode \in Modes /\ completed \in Nat /\ work \in WorkLengths
  /\ auto \in [{"work", "break"} -> BOOLEAN]
  /\ {running, fired, up, stateChanged} \subseteq BOOLEAN
  /\ duration \in Nat /\ duration % Second = 0 /\ left \in 0..duration
  /\ sub \in 0..Second - 1 /\ phase \in Phases
  /\ restore \in {"asking", "found", "done"}
  /\ {found, unsaved, stored, expected} \subseteq Snaps
  /\ {losses, repeats} \subseteq Nat

\* A deadline on record falls on a whole second.
OnTheSecond(s) == s.left > 0 => (sub + s.left) % Second = 0
Deadlines ==
  OnTheSecond(found) /\ OnTheSecond(unsaved) /\ OnTheSecond(stored) /\ OnTheSecond(expected)

Latest == IF unsaved = NoSnapshot THEN stored ELSE unsaved
Now == SnapshotOf(running, left, duration, mode, completed, phase)

\* What is written last is what the user did last; before the user does anything nothing is
\* written, and what was found is what is stored.
Recorded ==
  /\ losses = 0 => Latest = expected
  /\ ~up => unsaved = NoSnapshot
  /\ up /\ stateChanged => Now = expected
  /\ up /\ ~stateChanged /\ restore # "done" => unsaved = NoSnapshot /\ ~running /\ completed = 0
  /\ up /\ ~stateChanged /\ restore = "found" => found = stored
  /\ restore = "found" => found # NoSnapshot

\* An ended phase that may come back has cost a loss of its own.
Brings(s) == s.left # NoDeadline /\ s.phase \in ended
EndedOnce ==
  /\ repeats <= losses
  /\ up /\ phase \in ended => repeats < losses
  /\ Brings(Latest) => repeats < losses

TimerInv == TimerTypeOK /\ Deadlines /\ Recorded /\ EndedOnce

-----------------------------------------------------------------------------
(* Seconds.                                                                *)

LEMMA Divided ==
  ASSUME NEW n \in Nat \ {0}, NEW a \in Int
  PROVE  a = (n * (a \div n)) + (a % n) /\ a % n \in 0..n - 1 /\ a \div n \in Int
OBVIOUS

LEMMA Times ==
  ASSUME NEW n \in Nat \ {0}, NEW k \in Int, k >= 1
  PROVE  n * k >= n
OBVIOUS

LEMMA Distributes ==
  ASSUME NEW n \in Int, NEW p \in Int, NEW q \in Int
  PROVE  n * (p - q) = (n * p) - (n * q)
OBVIOUS

LEMMA OneRemainder ==
  ASSUME NEW n \in Nat \ {0}, NEW p \in Int, NEW q \in Int, NEW r \in 0..n - 1, NEW s \in 0..n - 1,
         (n * p) + r = (n * q) + s
  PROVE  r = s
<1> DEFINE x == n * p
           y == n * q
<1>1. /\ x \in Int /\ y \in Int /\ x + r = y + s
      /\ n * (p - q) = x - y /\ n * (q - p) = y - x /\ (p = q => x = y)
  BY Distributes
<1>2. p - q >= 1 => n * (p - q) >= n
  BY Times
<1>3. q - p >= 1 => n * (q - p) >= n
  BY Times
<1> HIDE DEF x, y
<1>4. p - q >= 1 \/ q - p >= 1 \/ p = q
  OBVIOUS
<1>5. QED
  BY <1>1, <1>2, <1>3, <1>4

LEMMA Remainder ==
  ASSUME NEW n \in Nat \ {0}, NEW a \in Int, NEW q \in Int, NEW r \in 0..n - 1, a = (n * q) + r
  PROVE  a % n = r
BY OneRemainder, Divided

LEMMA OneMore ==
  ASSUME NEW n \in Nat \ {0}, NEW a \in Int
  PROVE  (a + n) % n = a % n
<1> DEFINE q == a \div n
           r == a % n
<1>1. a = (n * q) + r /\ r \in 0..n - 1 /\ q \in Int
  BY Divided
<1> HIDE DEF q, r
<1>2. n * (q - (0 - 1)) = (n * q) - (n * (0 - 1))
  BY <1>1, Distributes
<1>3. n * (0 - 1) = 0 - n /\ n * q \in Int
  BY <1>1
<1>4. a + n = (n * (q - (0 - 1))) + r
  BY <1>1, <1>2, <1>3
<1>5. (a + n) % n = r
  BY <1>1, <1>4, Remainder
<1>6. QED
  BY <1>5 DEF r

LEMMA Cut ==
  ASSUME NEW n \in Nat \ {0}, NEW a \in Int
  PROVE  (a - (a % n)) % n = 0
<1> DEFINE q == a \div n
           r == a % n
<1>1. a = (n * q) + r /\ r \in 0..n - 1 /\ q \in Int
  BY Divided
<1> HIDE DEF q, r
<1>2. n * q \in Int /\ 0 \in 0..n - 1
  BY <1>1
<1>3. a - r = (n * q) + 0 /\ a - r \in Int
  BY <1>1, <1>2
<1>4. (a - r) % n = 0
  BY <1>1, <1>2, <1>3, Remainder
<1>5. QED
  BY <1>4 DEF r

\* A deadline is as far into its second after a unit of time as it was before.
LEMMA SecondGoesOn ==
  ASSUME NEW n \in Nat \ {0}, NEW s \in 0..n - 1, NEW l \in Nat \ {0}
  PROVE  (s + 1) % n \in 0..n - 1 /\ (((s + 1) % n) + (l - 1)) % n = (s + l) % n
<1>1. (s + 1) % n \in 0..n - 1
  BY Divided
<1>2. CASE s + 1 < n
  <2>1. (s + 1) % n = s + 1
    BY <1>2
  <2>2. QED
    BY <1>1, <2>1
<1>3. CASE s + 1 = n
  <2>1. (s + 1) % n = 0
    BY <1>3
  <2>2. s + l = (l - 1) + n
    BY <1>3
  <2>3. ((l - 1) + n) % n = (l - 1) % n
    <3> SUFFICES ASSUME NEW k \in Int, k = l - 1 PROVE (k + n) % n = k % n
      OBVIOUS
    <3>1. QED
      BY OneMore
  <2>4. QED
    BY <1>1, <2>1, <2>2, <2>3
<1>4. QED
  BY <1>2, <1>3

-----------------------------------------------------------------------------
(* Lengths, snapshots, phases.                                             *)

LEMMA Bounds ==
  ASSUME TimerAssumption
  PROVE  /\ Second \in Nat \ {0} /\ BreakLength \in Nat \ {0} /\ Cadence \in Nat \ {0}
         /\ WorkLengths \subseteq Nat \ {0} /\ DefaultWork \in WorkLengths
         /\ BreakLength % Second = 0 /\ \A n \in WorkLengths : n % Second = 0
BY DEF TimerAssumption

LEMMA Lengths ==
  ASSUME TimerAssumption, NEW m \in Modes, NEW w \in WorkLengths
  PROVE  Length(m, w) \in Nat /\ Length(m, w) % Second = 0
<1>1. (BreakLength + Second) % Second = BreakLength % Second
  <2>1. Second \in Nat \ {0} /\ BreakLength \in Int
    BY Bounds
  <2>2. QED
    BY <2>1, OneMore
<1>2. QED
  BY <1>1, Bounds DEF Length, Modes

LEMMA SnapshotOfOK ==
  ASSUME TimerAssumption, sub \in 0..Second - 1,
         NEW r \in BOOLEAN, NEW d \in Nat, d % Second = 0, NEW l \in 0..d,
         NEW m \in Modes, NEW c \in Nat, NEW p \in Phases
  PROVE  LET s == SnapshotOf(r, l, d, m, c, p)
         IN /\ s \in Snaps /\ s # NoSnapshot /\ OnTheSecond(s)
            /\ s.left # NoDeadline => s.phase = p
<1> DEFINE x == (sub + l) % Second
<1>1. x \in 0..Second - 1 /\ ((sub + l) - x) % Second = 0 /\ Second \in Nat
  <2>1. Second \in Nat \ {0}
    BY Bounds
  <2> SUFFICES ASSUME NEW a \in Int, a = sub + l
               PROVE  a % Second \in 0..Second - 1 /\ (a - (a % Second)) % Second = 0
    BY <2>1
  <2>2. QED
    BY <2>1, Divided, Cut
<1>2. m # "none" /\ Whole(d) = d
  BY DEF Modes, Whole
<1>3. CASE r
  <2> SUFFICES ASSUME NEW s, s = SnapshotOf(r, l, d, m, c, p)
               PROVE  /\ s \in Snaps /\ s # NoSnapshot /\ OnTheSecond(s)
                      /\ s.left # NoDeadline => s.phase = p
    OBVIOUS
  <2>1. s = [mode |-> m, completed |-> c, duration |-> d, left |-> AtLeast0(l - x), phase |-> p]
    BY <1>2, <1>3 DEF SnapshotOf
  <2> HIDE DEF x
  <2>2. AtLeast0(l - x) \in 0..d /\ (AtLeast0(l - x) > 0 => AtLeast0(l - x) = l - x)
    BY <1>1 DEF AtLeast0
  <2>3. OnTheSecond(s)
    <3>1. sub + (l - x) = (sub + l) - x
      BY <1>1
    <3>2. QED
      BY <1>1, <2>1, <2>2, <3>1 DEF OnTheSecond
  <2>4. s \in Snaps /\ s # NoSnapshot
    <3>1. s # NoSnapshot
      BY <1>2, <2>1 DEF NoSnapshot
    <3>2. s.mode # "none" /\ s.left # NoDeadline /\ s.left <= s.duration /\ s.duration % Second = 0
      BY <1>2, <2>1, <2>2 DEF NoDeadline
    <3>3. QED
      BY <2>1, <2>2, <3>1, <3>2 DEF Snaps, Modes
  <2>5. QED
    BY <2>1, <2>3, <2>4
<1>4. CASE ~r
  <2> SUFFICES ASSUME NEW s, s = SnapshotOf(r, l, d, m, c, p)
               PROVE  /\ s \in Snaps /\ s # NoSnapshot /\ OnTheSecond(s)
                      /\ s.left # NoDeadline => s.phase = p
    OBVIOUS
  <2>1. s = [mode |-> m, completed |-> c, duration |-> 0, left |-> NoDeadline, phase |-> 0]
    BY <1>4 DEF SnapshotOf
  <2>2. s # NoSnapshot /\ s.mode # "none"
    BY <1>2, <2>1 DEF NoSnapshot
  <2>3. s.left = NoDeadline /\ s.duration = 0 /\ s.phase = 0 /\ ~(s.left > 0)
    BY <2>1 DEF NoDeadline
  <2>4. s \in Snaps
    BY <2>1, <2>2, <2>3 DEF Snaps, Modes, Phases
  <2>5. QED
    BY <2>2, <2>3, <2>4 DEF OnTheSecond
<1>5. QED
  BY <1>3, <1>4

LEMMA NoSnapshotOK == NoSnapshot \in Snaps /\ OnTheSecond(NoSnapshot) /\ ~Brings(NoSnapshot)
BY DEF NoSnapshot, Snaps, OnTheSecond, NoDeadline, Phases, Brings

\* A deadline comes nearer; nothing else of a snapshot changes.
LEMMA AgedOK ==
  ASSUME TimerAssumption, sub \in 0..Second - 1, sub' = (sub + 1) % Second,
         NEW s \in Snaps, OnTheSecond(s)
  PROVE  /\ Aged(s) \in Snaps /\ Aged(s).phase = s.phase
         /\ Aged(s).left = NoDeadline <=> s.left = NoDeadline
         /\ Aged(s) = NoSnapshot <=> s = NoSnapshot
         /\ Aged(s).left > 0 => (sub' + Aged(s).left) % Second = 0
<1>1. CASE s.left > 0
  <2>1. s.left \in Nat \ {0} /\ s.left # NoDeadline /\ s.mode # "none"
    BY <1>1 DEF Snaps, NoDeadline, NoSnapshot
  <2> SUFFICES ASSUME NEW t, t = [s EXCEPT !.left = @ - 1]
               PROVE  /\ t \in Snaps /\ t.phase = s.phase /\ t.left # NoDeadline
                      /\ t # NoSnapshot /\ s # NoSnapshot
                      /\ t.left > 0 => (sub' + t.left) % Second = 0
    BY <1>1, <2>1 DEF Aged
  <2>2. /\ t.left = s.left - 1 /\ t.phase = s.phase /\ t.mode = s.mode
        /\ t.duration = s.duration /\ t.completed = s.completed
        /\ t \in [mode : Modes \union {"none"}, completed : Nat, duration : Nat,
                  left : Nat \union {NoDeadline}, phase : Phases]
    BY <2>1 DEF Snaps
  <2>3. t.left # NoDeadline /\ t.mode # "none" /\ s.left <= s.duration /\ s.duration % Second = 0
        /\ s.duration \in Nat
    BY <2>1, <2>2 DEF Snaps, NoDeadline
  <2>4. t \in Snaps
    BY <2>1, <2>2, <2>3 DEF Snaps
  <2>5. (sub' + t.left) % Second = 0
    <3>1. (((sub + 1) % Second) + (s.left - 1)) % Second = (sub + s.left) % Second
      BY <2>1, Bounds, SecondGoesOn
    <3>2. QED
      BY <1>1, <2>2, <3>1 DEF OnTheSecond
  <2>6. QED
    BY <2>1, <2>2, <2>3, <2>4, <2>5 DEF NoSnapshot
<1>2. CASE ~(s.left > 0)
  BY <1>2 DEF Aged
<1>3. QED
  BY <1>1, <1>2

LEMMA FreshOK ==
  ASSUME TimerTypeOK
  PROVE  Fresh \in Phases
<1>1. \E p \in Phases : p \notin {phase, found.phase, unsaved.phase, stored.phase, expected.phase}
  BY DEF Phases
<1>2. QED
  BY <1>1 DEF Fresh

LEMMA LatestOK ==
  ASSUME TimerTypeOK, Deadlines
  PROVE  Latest \in Snaps /\ OnTheSecond(Latest)
BY DEF TimerTypeOK, Deadlines, Latest

-----------------------------------------------------------------------------
(* The event loop.                                                         *)

\* What the ticker and the buttons leave behind is remembered and saved.
LEMMA SavedStep ==
  ASSUME TimerAssumption, TimerInv, up, Remember, Save,
         UNCHANGED <<work, auto, sub, up, restore, found, stored, losses>>,
         mode' \in Modes, completed' \in Nat, running' \in BOOLEAN, fired' \in BOOLEAN,
         duration' \in Nat, duration' % Second = 0, left' \in 0..duration', phase' \in Phases,
         stateChanged' = TRUE \/ (stateChanged' = stateChanged /\ running),
         repeats' \in Nat, repeats' <= losses, phase' \in ended' => repeats' < losses
  PROVE  TimerInv'
<1> SUFFICES ASSUME NEW s, s = SnapshotOf(running', left', duration', mode', completed', phase')
             PROVE  TimerInv'
  OBVIOUS
<1>1. TimerTypeOK /\ Deadlines /\ Recorded
  BY DEF TimerInv
<1>2. s \in Snaps /\ s # NoSnapshot /\ OnTheSecond(s) /\ (s.left # NoDeadline => s.phase = phase')
  <2>1. sub \in 0..Second - 1
    BY <1>1 DEF TimerTypeOK
  <2> SUFFICES ASSUME NEW r \in BOOLEAN, NEW d \in Nat, d % Second = 0, NEW l \in 0..d,
                      NEW m \in Modes, NEW c \in Nat, NEW p \in Phases
               PROVE  LET t == SnapshotOf(r, l, d, m, c, p)
                      IN /\ t \in Snaps /\ t # NoSnapshot /\ OnTheSecond(t)
                         /\ t.left # NoDeadline => t.phase = p
    OBVIOUS
  <2>2. QED
    BY <2>1, SnapshotOfOK
<1>3. expected' = s /\ unsaved' = s
  BY DEF Remember, Save
<1>4. TimerTypeOK'
  BY <1>1, <1>2, <1>3 DEF TimerTypeOK
<1>5. Deadlines'
  BY <1>1, <1>2, <1>3 DEF Deadlines, OnTheSecond
<1>6. Latest' = s
  BY <1>2, <1>3 DEF Latest
<1>7. Recorded'
  <2>1. Now' = s
    BY DEF Now, SnapshotOf
  <2>2. stateChanged' = TRUE \/ restore = "done"
    BY <1>1 DEF Recorded, TimerTypeOK
  <2>3. /\ losses' = 0 => Latest' = expected'
        /\ ~up' => unsaved' = NoSnapshot
        /\ up' /\ stateChanged' => Now' = expected'
    BY <1>3, <1>6, <2>1
  <2>4. up' /\ ~stateChanged' => restore' = "done"
    BY <2>2
  <2>5. restore' = "found" => found' # NoSnapshot
    BY <1>1 DEF Recorded
  <2>6. QED
    BY <2>3, <2>4, <2>5 DEF Recorded
<1>8. EndedOnce'
  BY <1>2, <1>6 DEF EndedOnce, Brings
<1>9. QED
  BY <1>4, <1>5, <1>7, <1>8 DEF TimerInv

LEMMA RollOK ==
  ASSUME TimerAssumption, TimerTypeOK, NEW earned \in BOOLEAN, Roll(earned)
  PROVE  /\ mode' \in Modes /\ completed' \in Nat /\ running' \in BOOLEAN /\ fired' \in BOOLEAN
         /\ duration' \in Nat /\ duration' % Second = 0 /\ left' \in 0..duration'
         /\ phase' \in Phases
<1>1. mode' \in Modes
  BY DEF Roll, NextMode, Modes
<1>2. completed' \in Nat
  BY DEF Roll, TimerTypeOK
<1>3. running' \in BOOLEAN /\ fired' \in BOOLEAN
  BY DEF Roll, TimerTypeOK
<1>4. duration' \in Nat /\ duration' % Second = 0
  <2> SUFFICES ASSUME NEW m \in Modes, m = mode'
               PROVE  Length(m, work) \in Nat /\ Length(m, work) % Second = 0
    BY <1>1 DEF Roll
  <2>1. QED
    BY Lengths DEF TimerTypeOK
<1>5. left' \in 0..duration'
  BY <1>4 DEF Roll
<1>6. phase' \in Phases
  BY FreshOK DEF Roll, NewPhase
<1>7. QED
  BY <1>1, <1>2, <1>3, <1>4, <1>5, <1>6

LEMMA TickStep ==
  ASSUME TimerAssumption, TimerInv, Tick
  PROVE  TimerInv'
<1>1. TimerTypeOK /\ EndedOnce
  BY DEF TimerInv
<1>2. /\ up /\ Due /\ Roll(TRUE) /\ Remember /\ Save
      /\ ended' = (ended \union {phase}) \ {phase'}
      /\ repeats' = repeats + IF phase \in ended THEN 1 ELSE 0
      /\ UNCHANGED <<work, auto, sub, up, restore, found, stored, losses, stateChanged>>
  BY DEF Tick, SavesRoll, configVars, boundVars
<1>3. /\ mode' \in Modes /\ completed' \in Nat /\ running' \in BOOLEAN /\ fired' \in BOOLEAN
      /\ duration' \in Nat /\ duration' % Second = 0 /\ left' \in 0..duration'
      /\ phase' \in Phases
  BY <1>1, <1>2, RollOK
<1>4. repeats' \in Nat /\ repeats' <= losses /\ phase' \notin ended'
  BY <1>1, <1>2 DEF TimerTypeOK, EndedOnce
<1>5. running
  BY <1>2 DEF Due
<1>6. QED
  BY <1>2, <1>3, <1>4, <1>5, SavedStep

LEMMA InputStep ==
  ASSUME TimerAssumption, TimerInv, NEW button \in Buttons, Input(button)
  PROVE  TimerInv'
<1>1. TimerTypeOK /\ EndedOnce
  BY DEF TimerInv
<1>2. /\ up /\ Remember /\ Save /\ stateChanged' = TRUE
      /\ ended' = (IF phase' = phase THEN ended ELSE ended \ {phase'})
      /\ UNCHANGED <<work, auto, sub, up, restore, found, stored, losses, repeats>>
  BY DEF Input, SavesInput, configVars
<1>3. /\ mode' \in Modes /\ completed' \in Nat /\ running' \in BOOLEAN /\ fired' \in BOOLEAN
      /\ duration' \in Nat /\ duration' % Second = 0 /\ left' \in 0..duration'
      /\ phase' \in Phases
  <2>1. CASE button = "start"
    <3>1. StartTimer
      BY <2>1 DEF Input
    <3>2. QED
      BY <1>1, <3>1 DEF StartTimer, TimerTypeOK
  <2>2. CASE button = "pause"
    <3>1. PauseTimer
      BY <2>2 DEF Input
    <3>2. QED
      BY <1>1, <3>1 DEF PauseTimer, TimerTypeOK
  <2>3. CASE button \in {"open", "reset"}
    <3>1. ResetTimer
      BY <2>3 DEF Input
    <3>2. phase' \in Phases
      BY <1>1, <3>1, FreshOK DEF ResetTimer, NewPhase
    <3>3. /\ mode' = mode /\ completed' = completed /\ running' = FALSE /\ fired' = FALSE
          /\ duration' = duration /\ left' = duration
      BY <3>1 DEF ResetTimer
    <3>4. mode \in Modes /\ completed \in Nat /\ duration \in Nat /\ duration % Second = 0
      BY <1>1 DEF TimerTypeOK
    <3>5. left' \in 0..duration'
      BY <3>3, <3>4
    <3>6. QED
      BY <3>2, <3>3, <3>4, <3>5
  <2>4. CASE button = "skip"
    <3>1. Roll(FALSE)
      BY <2>4 DEF Input
    <3>2. QED
      BY <1>1, <3>1, RollOK
  <2>5. CASE button \in {"work", "short", "long"}
    <3>1. SetMode(button)
      BY <2>5 DEF Input
    <3>2. Length(button, work) \in Nat /\ Length(button, work) % Second = 0 /\ button \in Modes
      BY <1>1, <2>5, Lengths DEF Modes, TimerTypeOK
    <3>3. phase' \in Phases
      BY <1>1, <3>1, FreshOK DEF SetMode, NewPhase
    <3>4. /\ mode' = button /\ completed' = completed /\ running' = FALSE /\ fired' = FALSE
          /\ duration' = Length(button, work) /\ left' = duration'
      BY <3>1 DEF SetMode, Rewind
    <3>5. completed \in Nat
      BY <1>1 DEF TimerTypeOK
    <3>6. left' \in 0..duration'
      BY <3>2, <3>4
    <3>7. QED
      BY <3>2, <3>3, <3>4, <3>5, <3>6
  <2>6. QED
    BY <2>1, <2>2, <2>3, <2>4, <2>5 DEF Buttons
<1>4. repeats' \in Nat /\ repeats' <= losses /\ (phase' \in ended' => repeats' < losses)
  BY <1>1, <1>2 DEF TimerTypeOK, EndedOnce
<1>5. QED
  BY <1>2, <1>3, <1>4, SavedStep

\* What leaves the countdown's snapshot and everything on record alone.
LEMMA KeptStep ==
  ASSUME TimerInv, TimerTypeOK', Now' = Now,
         UNCHANGED <<sub, up, stateChanged, unsaved, stored, expected, losses, phase, ended, repeats>>,
         restore' = "done" \/ UNCHANGED <<restore, found>>
            \/ (restore = "asking" /\ restore' = "found" /\ found' = stored
                /\ stored # NoSnapshot),
         restore' = "done" => found' \in {NoSnapshot, found},
         restore' # "done" => running' = running /\ completed' = completed
  PROVE  TimerInv'
<1>1. Deadlines'
  BY NoSnapshotOK DEF TimerInv, Deadlines, OnTheSecond
<1>2. Latest' = Latest
  BY DEF Latest
<1>3. Recorded'
  BY <1>2 DEF TimerInv, TimerTypeOK, Recorded
<1>4. EndedOnce'
  BY <1>2 DEF TimerInv, EndedOnce, Brings
<1>5. QED
  BY <1>1, <1>3, <1>4 DEF TimerInv

LEMMA ConfigureStep ==
  ASSUME TimerAssumption, TimerInv, Configure
  PROVE  TimerInv'
<1>1. TimerTypeOK
  BY DEF TimerInv
<1>2. /\ work' \in WorkLengths /\ auto' \in [{"work", "break"} -> BOOLEAN]
      /\ UNCHANGED <<running, fired, mode, completed, sub, up, stateChanged, restore, found,
                     unsaved, stored, phase, ended, expected, losses, repeats>>
      /\ \/ Idle /\ duration' = Length(mode, work') /\ left' = duration'
         \/ UNCHANGED <<duration, left>>
  BY DEF Configure, sessionVars, storeVars, historyVars
<1>3. CASE Idle /\ duration' = Length(mode, work') /\ left' = duration'
  <2>1. duration' \in Nat /\ duration' % Second = 0 /\ left' \in 0..duration'
    <3> SUFFICES ASSUME NEW w \in WorkLengths
                 PROVE  Length(mode, w) \in Nat /\ Length(mode, w) % Second = 0
      BY <1>2, <1>3
    <3>1. QED
      BY <1>1, Lengths DEF TimerTypeOK
  <2>2. TimerTypeOK'
    BY <1>1, <1>2, <2>1 DEF TimerTypeOK
  <2>3. Now' = Now
    BY <1>2, <1>3 DEF Now, SnapshotOf, Idle
  <2>4. QED
    BY <1>2, <2>2, <2>3, KeptStep
<1>4. CASE UNCHANGED <<duration, left>>
  <2>1. TimerTypeOK'
    BY <1>1, <1>2, <1>4 DEF TimerTypeOK
  <2>2. Now' = Now
    BY <1>2, <1>4 DEF Now, SnapshotOf
  <2>3. QED
    BY <1>2, <2>1, <2>2, KeptStep
<1>5. QED
  BY <1>2, <1>3, <1>4

LEMMA ReplyStep ==
  ASSUME TimerInv, RestoreReply
  PROVE  TimerInv'
<1>1. /\ restore = "asking"
      /\ \/ restore' = "found" /\ found' = stored /\ stored # NoSnapshot
         \/ restore' = "done" /\ UNCHANGED found
      /\ UNCHANGED <<countdownVars, sessionVars, configVars, sub, up, stateChanged, unsaved, stored,
                     historyVars>>
  BY DEF RestoreReply
<1>2. TimerTypeOK'
  BY <1>1 DEF TimerInv, TimerTypeOK, countdownVars, sessionVars, configVars, historyVars
<1>3. Now' = Now
  BY <1>1 DEF Now, SnapshotOf, countdownVars, sessionVars, historyVars
<1>4. QED
  BY <1>1, <1>2, <1>3, KeptStep DEF countdownVars, sessionVars, historyVars

-----------------------------------------------------------------------------
(* The restore.                                                            *)

LEMMA TimerRestored ==
  ASSUME TimerAssumption, TimerInv, restore = "found", ~stateChanged, up, RestoreSnapshot
  PROVE  /\ mode' \in Modes /\ completed' \in Nat /\ running' \in BOOLEAN /\ fired' \in BOOLEAN
         /\ duration' \in Nat /\ duration' % Second = 0 /\ left' \in 0..duration'
         /\ phase' \in Phases
         /\ phase' # phase => found.left # NoDeadline /\ phase' = found.phase
         /\ SnapshotOf(running', left', duration', mode', completed', phase') = found
<1>1. /\ TimerTypeOK /\ found \in Snaps /\ OnTheSecond(found) /\ found # NoSnapshot
      /\ ~running /\ completed = 0
  BY DEF TimerInv, Recorded, Deadlines, TimerTypeOK
<1>2. /\ found.mode \in Modes /\ found.completed \in Nat /\ found.duration \in Nat
      /\ found.left \in Nat \union {NoDeadline} /\ found.phase \in Phases
      /\ found.left = NoDeadline => found.duration = 0 /\ found.phase = 0
      /\ found.left # NoDeadline => found.left <= found.duration /\ found.duration % Second = 0
      /\ found = [mode |-> found.mode, completed |-> found.completed, duration |-> found.duration,
                  left |-> found.left, phase |-> found.phase]
  BY <1>1 DEF Snaps
<1>3. mode' = found.mode /\ completed' = found.completed
  BY <1>1, <1>2 DEF RestoreSnapshot
<1>4. CASE found.left # NoDeadline
  <2>1. /\ duration' = found.duration /\ left' = found.left /\ running' = TRUE /\ fired' = FALSE
        /\ phase' = found.phase /\ left' \in 0..duration'
    BY <1>2, <1>4 DEF RestoreSnapshot, HasDeadline, NoDeadline
  <2>2. Whole(duration') = found.duration
    BY <1>2, <1>4, <2>1 DEF Whole
  <2>3. AtLeast0(left' - ((sub + left') % Second)) = found.left
    <3>1. left' > 0 => (sub + left') % Second = 0
      BY <1>1, <2>1 DEF OnTheSecond
    <3>2. (sub + left') % Second \in 0..Second - 1 /\ Second \in Nat
      <4>1. Second \in Nat \ {0}
        BY Bounds
      <4> SUFFICES ASSUME NEW a \in Int PROVE a % Second \in 0..Second - 1
        BY <1>1, <1>2, <2>1, <4>1 DEF TimerTypeOK
      <4>2. QED
        BY <4>1, Divided
    <3>3. left' \in Nat
      BY <1>2, <2>1
    <3>4. QED
      BY <2>1, <3>1, <3>2, <3>3 DEF AtLeast0
  <2>4. SnapshotOf(running', left', duration', mode', completed', phase') = found
    BY <1>2, <1>3, <2>1, <2>2, <2>3 DEF SnapshotOf
  <2>5. QED
    BY <1>2, <1>3, <1>4, <2>1, <2>4
<1>5. CASE found.left = NoDeadline
  <2>1. /\ duration' = Length(found.mode, work) /\ left' = duration' /\ fired' = FALSE
        /\ running' = FALSE /\ phase' = phase
    BY <1>1, <1>5 DEF RestoreSnapshot, HasDeadline, TimerTypeOK
  <2>2. duration' \in Nat /\ duration' % Second = 0
    BY <1>1, <1>2, <2>1, Lengths DEF TimerTypeOK
  <2>3. SnapshotOf(running', left', duration', mode', completed', phase') = found
    BY <1>2, <1>3, <1>5, <2>1 DEF SnapshotOf
  <2>4. left' \in 0..duration' /\ phase' \in Phases
    BY <1>1, <2>1, <2>2 DEF TimerTypeOK
  <2>5. QED
    BY <1>2, <1>3, <2>1, <2>2, <2>3, <2>4
<1>6. QED
  BY <1>1, <1>2, <1>4, <1>5

LEMMA RestoreStep ==
  ASSUME TimerAssumption, TimerInv, OnRestore
  PROVE  TimerInv' /\ ResumesWhereLeft
<1>1. /\ up /\ restore = "found" /\ restore' = "done" /\ found' = NoSnapshot
      /\ UNCHANGED <<work, auto, sub, up, stateChanged, unsaved, stored, ended, expected, losses,
                     repeats>>
  BY DEF OnRestore, configVars
<1>2. TimerTypeOK /\ Recorded /\ EndedOnce /\ Deadlines
  BY DEF TimerInv
<1>3. Latest' = Latest
  BY <1>1 DEF Latest
<1>4. Deadlines'
  BY <1>1, <1>2, NoSnapshotOK DEF Deadlines, OnTheSecond
<1>5. CASE ~stateChanged
  <2>1. RestoreSnapshot
    BY <1>5 DEF OnRestore, MayRestore
  <2>2. /\ mode' \in Modes /\ completed' \in Nat /\ running' \in BOOLEAN /\ fired' \in BOOLEAN
        /\ duration' \in Nat /\ duration' % Second = 0 /\ left' \in 0..duration'
        /\ phase' \in Phases
        /\ phase' # phase => found.left # NoDeadline /\ phase' = found.phase
        /\ SnapshotOf(running', left', duration', mode', completed', phase') = found
    BY <1>1, <1>5, <2>1, TimerRestored
  <2>3. TimerTypeOK'
    BY <1>1, <1>2, <2>2, NoSnapshotOK DEF TimerTypeOK
  <2>4. Recorded'
    BY <1>1, <1>2, <1>3, <1>5 DEF Recorded
  <2>5. found = Latest
    BY <1>1, <1>2, <1>5 DEF Recorded, Latest
  <2>6. EndedOnce'
    BY <1>1, <1>2, <1>3, <2>2, <2>5 DEF EndedOnce, Brings
  <2>7. ResumesWhereLeft
    BY <1>2, <2>2, <2>5 DEF ResumesWhereLeft, Recorded
  <2>8. QED
    BY <1>4, <2>3, <2>4, <2>6, <2>7 DEF TimerInv
<1>6. CASE stateChanged
  <2>1. UNCHANGED <<duration, left, running, fired, mode, completed, phase>>
    BY <1>6 DEF OnRestore, MayRestore, countdownVars, sessionVars
  <2>2. TimerTypeOK'
    BY <1>1, <1>2, <2>1, NoSnapshotOK DEF TimerTypeOK
  <2>3. Now' = Now
    BY <1>1, <2>1 DEF Now, SnapshotOf
  <2>4. TimerInv'
    BY <1>1, <2>1, <2>2, <2>3, KeptStep
  <2>5. ResumesWhereLeft
    BY <1>1, <1>2, <1>6, <2>1 DEF ResumesWhereLeft, Recorded, Now
  <2>6. QED
    BY <2>4, <2>5
<1>7. QED
  BY <1>2, <1>5, <1>6 DEF TimerTypeOK

-----------------------------------------------------------------------------
(* The host, the clock, and the end of the process.                        *)

LEMMA StoresStep ==
  ASSUME TimerInv, HostStores
  PROVE  TimerInv'
<1>1. /\ unsaved # NoSnapshot /\ stored' = unsaved /\ unsaved' = NoSnapshot /\ up
      /\ UNCHANGED <<countdownVars, sessionVars, configVars, sub, up, stateChanged, restore, found,
                     historyVars>>
  BY DEF HostStores
<1>2. Latest' = Latest
  BY <1>1 DEF Latest
<1>3. TimerTypeOK' /\ Deadlines'
  BY <1>1, NoSnapshotOK DEF TimerInv, TimerTypeOK, Deadlines, OnTheSecond, countdownVars,
     sessionVars, configVars, historyVars
<1>4. Recorded'
  <2>1. Now' = Now
    BY <1>1 DEF Now, SnapshotOf, countdownVars, sessionVars, historyVars
  <2>2. restore = "done" \/ stateChanged
    BY <1>1 DEF TimerInv, Recorded, TimerTypeOK
  <2>3. QED
    BY <1>1, <1>2, <2>1, <2>2 DEF TimerInv, TimerTypeOK, Recorded, historyVars
<1>5. EndedOnce'
  BY <1>1, <1>2 DEF TimerInv, EndedOnce, Brings, historyVars
<1>6. QED
  BY <1>3, <1>4, <1>5 DEF TimerInv

LEMMA TimeStep ==
  ASSUME TimerAssumption, TimerInv, TimePasses
  PROVE  TimerInv'
<1>1. /\ sub' = (sub + 1) % Second
      /\ left' = IF running THEN AtLeast0(left - 1) ELSE left
      /\ found' = Aged(found) /\ unsaved' = Aged(unsaved)
      /\ stored' = Aged(stored) /\ expected' = Aged(expected)
      /\ UNCHANGED <<duration, running, fired, mode, completed, work, auto, up, stateChanged, restore,
                     phase, ended, losses, repeats>>
  BY DEF TimePasses, sessionVars, configVars
<1>2. TimerTypeOK /\ Deadlines /\ Recorded /\ EndedOnce
  BY DEF TimerInv
<1>3. sub \in 0..Second - 1 /\ {found, unsaved, stored, expected} \subseteq Snaps
      /\ left \in 0..duration /\ duration \in Nat
  BY <1>2 DEF TimerTypeOK
<1>4. \A s \in {found, unsaved, stored, expected} :
        /\ Aged(s) \in Snaps /\ Aged(s).phase = s.phase
        /\ Aged(s).left = NoDeadline <=> s.left = NoDeadline
        /\ Aged(s) = NoSnapshot <=> s = NoSnapshot
        /\ Aged(s).left > 0 => (sub' + Aged(s).left) % Second = 0
  <2> SUFFICES ASSUME NEW s \in Snaps, OnTheSecond(s)
               PROVE  /\ Aged(s) \in Snaps /\ Aged(s).phase = s.phase
                      /\ Aged(s).left = NoDeadline <=> s.left = NoDeadline
                      /\ Aged(s) = NoSnapshot <=> s = NoSnapshot
                      /\ Aged(s).left > 0 => (sub' + Aged(s).left) % Second = 0
    BY <1>2, <1>3 DEF Deadlines
  <2>1. QED
    BY <1>1, <1>3, AgedOK
<1>5. sub' \in 0..Second - 1 /\ left' \in 0..duration
  <2>1. Second \in Nat \ {0}
    BY Bounds
  <2>2. sub' \in 0..Second - 1
    BY <1>1, <1>3, <2>1
  <2>3. left' \in 0..duration
    BY <1>1, <1>3 DEF AtLeast0
  <2>4. QED
    BY <2>2, <2>3
<1>6. TimerTypeOK'
  BY <1>1, <1>2, <1>4, <1>5 DEF TimerTypeOK
<1>7. Deadlines'
  BY <1>1, <1>4 DEF Deadlines, OnTheSecond
<1>8. Latest' = Aged(Latest)
  BY <1>1, <1>4 DEF Latest
<1>9. Now' = Aged(Now)
  <2>1. CASE ~running
    <3>1. Now = [mode |-> mode, completed |-> completed, duration |-> 0, left |-> NoDeadline,
                 phase |-> 0]
          /\ Now' = Now
      BY <1>1, <2>1 DEF Now, SnapshotOf
    <3>2. Now.left = NoDeadline /\ ~(NoDeadline > 0)
      BY <3>1 DEF NoDeadline
    <3>3. QED
      BY <3>1, <3>2 DEF Aged
  <2>2. CASE running
    <3> DEFINE x == (sub + left) % Second
               y == (sub' + left') % Second
               n == AtLeast0(left - x)
    <3>1. /\ Now = [mode |-> mode, completed |-> completed, duration |-> Whole(duration),
                    left |-> n, phase |-> phase]
          /\ Now' = [mode |-> mode, completed |-> completed, duration |-> Whole(duration),
                     left |-> AtLeast0(left' - y), phase |-> phase]
      BY <1>1, <2>2 DEF Now, SnapshotOf
    <3>2. x \in Nat /\ y \in Nat /\ (left > 0 => y = x)
      <4>1. Second \in Nat \ {0}
        BY Bounds
      <4>2. \A a \in Int : a % Second \in Nat
        BY <4>1, Divided
      <4>3. sub + left \in Int /\ sub' + left' \in Int
        BY <1>3, <1>5, <4>1
      <4>4. ASSUME left > 0 PROVE y = x
        <5>1. left' = left - 1 /\ left \in Nat \ {0}
          BY <1>1, <1>3, <2>2, <4>4 DEF AtLeast0
        <5>2. (((sub + 1) % Second) + (left - 1)) % Second = (sub + left) % Second
          BY <1>3, <4>1, <5>1, SecondGoesOn
        <5>3. QED
          BY <1>1, <5>1, <5>2
      <4>5. QED
        BY <4>2, <4>3, <4>4
    <3> HIDE DEF x, y
    <3>3. AtLeast0(left' - y) = IF n > 0 THEN n - 1 ELSE n
      <4>1. left' = AtLeast0(left - 1) /\ left \in Nat
        BY <1>1, <1>3, <2>2
      <4>2. QED
        BY <3>2, <4>1 DEF AtLeast0
    <3> HIDE DEF n
    <3>4. QED
      BY <3>1, <3>3 DEF Aged
  <2>3. QED
    BY <2>1, <2>2
<1>10. Recorded'
  BY <1>1, <1>2, <1>4, <1>8, <1>9 DEF Recorded
<1>11. EndedOnce'
  <2>1. Brings(Latest)' <=> Brings(Latest)
    <3>1. Latest \in {stored, unsaved}
      BY DEF Latest
    <3>2. Latest'.phase = Latest.phase /\ (Latest'.left = NoDeadline <=> Latest.left = NoDeadline)
      BY <1>4, <1>8, <3>1
    <3>3. QED
      BY <1>1, <3>2 DEF Brings
  <2>2. QED
    BY <1>1, <1>2, <2>1 DEF EndedOnce
<1>12. QED
  BY <1>6, <1>7, <1>10, <1>11 DEF TimerInv

LEMMA ExitStep ==
  ASSUME TimerInv, Exit
  PROVE  TimerInv'
<1>1. /\ up /\ up' = FALSE /\ unsaved' = NoSnapshot /\ running' = FALSE
      /\ \/ stored' = Latest /\ losses' = losses
         \/ stored' = stored /\ losses' = losses + 1
      /\ UNCHANGED <<duration, left, fired, mode, completed, work, auto, sub, stateChanged, restore,
                     found, phase, ended, expected, repeats>>
  BY DEF Exit, Latest, sessionVars, configVars
<1>2. TimerTypeOK /\ Deadlines /\ Recorded /\ EndedOnce
  BY DEF TimerInv
<1>3. Latest \in Snaps /\ OnTheSecond(Latest)
  BY <1>2, LatestOK
<1>4. TimerTypeOK'
  <2>1. losses' \in Nat /\ stored' \in Snaps
    BY <1>1, <1>2, <1>3 DEF TimerTypeOK
  <2>2. /\ up' \in BOOLEAN /\ running' \in BOOLEAN /\ fired' \in BOOLEAN
        /\ stateChanged' \in BOOLEAN /\ repeats' \in Nat
        /\ found' \in Snaps /\ unsaved' \in Snaps /\ expected' \in Snaps
    BY <1>1, <1>2, NoSnapshotOK DEF TimerTypeOK
  <2>3. /\ mode' \in Modes /\ completed' \in Nat /\ work' \in WorkLengths
        /\ auto' \in [{"work", "break"} -> BOOLEAN]
        /\ duration' \in Nat /\ duration' % Second = 0 /\ left' \in 0..duration'
        /\ sub' \in 0..Second - 1 /\ phase' \in Phases
        /\ restore' \in {"asking", "found", "done"}
    BY <1>1, <1>2 DEF TimerTypeOK
  <2>4. QED
    BY <2>1, <2>2, <2>3 DEF TimerTypeOK
<1>5. Deadlines'
  BY <1>1, <1>2, <1>3, NoSnapshotOK DEF Deadlines, OnTheSecond
<1>6. Latest' = stored'
  BY <1>1 DEF Latest
<1>7. losses \in Nat /\ repeats \in Nat
  BY <1>2 DEF TimerTypeOK
<1>8. Recorded'
  BY <1>1, <1>2, <1>6, <1>7 DEF Recorded
<1>9. EndedOnce'
  BY <1>1, <1>2, <1>6, <1>7 DEF EndedOnce, Brings
<1>10. QED
  BY <1>4, <1>5, <1>8, <1>9 DEF TimerInv

LEMMA StartsStep ==
  ASSUME TimerAssumption, TimerInv, PluginStarts
  PROVE  TimerInv'
<1>1. /\ ~up /\ up' = TRUE /\ work' = DefaultWork /\ auto' = [b \in {"work", "break"} |-> FALSE]
      /\ duration' = work' /\ left' = work' /\ running' = FALSE /\ fired' = FALSE
      /\ mode' = "work" /\ completed' = 0 /\ stateChanged' = FALSE
      /\ restore' = "asking" /\ found' = NoSnapshot /\ phase' = Fresh
      /\ ended' = ended \ {phase'}
      /\ UNCHANGED <<sub, unsaved, stored, expected, losses, repeats>>
  BY DEF PluginStarts, NewPhase
<1>2. TimerTypeOK /\ Deadlines /\ Recorded /\ EndedOnce
  BY DEF TimerInv
<1>3. TimerTypeOK'
  <2>1. DefaultWork \in Nat /\ DefaultWork % Second = 0 /\ DefaultWork \in WorkLengths
    BY Bounds
  <2>2. DefaultWork \in 0..DefaultWork
    BY <2>1
  <2>3. phase' \in Phases
    BY <1>1, <1>2, FreshOK
  <2>4. /\ mode' \in Modes /\ completed' \in Nat /\ work' \in WorkLengths
        /\ auto' \in [{"work", "break"} -> BOOLEAN]
        /\ duration' \in Nat /\ duration' % Second = 0 /\ left' \in 0..duration'
        /\ restore' \in {"asking", "found", "done"}
    BY <1>1, <2>1, <2>2 DEF Modes
  <2>5. /\ {running', fired', up', stateChanged'} \subseteq BOOLEAN
        /\ sub' \in 0..Second - 1
        /\ {found', unsaved', stored', expected'} \subseteq Snaps
        /\ {losses', repeats'} \subseteq Nat
    BY <1>1, <1>2, NoSnapshotOK DEF TimerTypeOK
  <2>6. QED
    BY <2>3, <2>4, <2>5 DEF TimerTypeOK
<1>4. Deadlines'
  BY <1>1, <1>2, NoSnapshotOK DEF Deadlines, OnTheSecond
<1>5. Latest' = Latest
  BY <1>1 DEF Latest
<1>6. Recorded'
  BY <1>1, <1>2, <1>5 DEF Recorded
<1>7. EndedOnce'
  BY <1>1, <1>2, <1>5 DEF EndedOnce, Brings
<1>8. QED
  BY <1>3, <1>4, <1>6, <1>7 DEF TimerInv

-----------------------------------------------------------------------------
(* The theorem.                                                            *)

LEMMA TimerInvInit == TimerAssumption /\ TimerInit => TimerInv
<1> SUFFICES ASSUME TimerAssumption, TimerInit PROVE TimerInv
  OBVIOUS
<1>1. TimerTypeOK
  <2>1. /\ DefaultWork \in Nat /\ DefaultWork % Second = 0 /\ DefaultWork \in WorkLengths
        /\ Second \in Nat \ {0}
    BY Bounds
  <2>2. DefaultWork \in 0..DefaultWork /\ 0 \in 0..Second - 1
    BY <2>1
  <2>3. /\ mode \in Modes /\ completed \in Nat /\ work \in WorkLengths
        /\ auto \in [{"work", "break"} -> BOOLEAN]
        /\ duration \in Nat /\ duration % Second = 0 /\ left \in 0..duration
        /\ sub \in 0..Second - 1 /\ phase \in Phases
        /\ restore \in {"asking", "found", "done"}
    BY <2>1, <2>2 DEF TimerInit, Modes, Phases
  <2>4. /\ {running, fired, up, stateChanged} \subseteq BOOLEAN
        /\ {found, unsaved, stored, expected} \subseteq Snaps
        /\ {losses, repeats} \subseteq Nat
    <3>1. {running, fired, up, stateChanged} \subseteq BOOLEAN
      BY DEF TimerInit
    <3>2. {found, unsaved, stored, expected} \subseteq Snaps
      <4> HIDE DEF NoSnapshot, Snaps
      <4>1. NoSnapshot \in Snaps
        BY NoSnapshotOK
      <4>2. QED
        BY <4>1 DEF TimerInit
    <3>3. {losses, repeats} \subseteq Nat
      BY DEF TimerInit
    <3>4. QED
      BY <3>1, <3>2, <3>3
  <2>5. QED
    BY <2>3, <2>4 DEF TimerTypeOK
<1>2. Deadlines
  BY NoSnapshotOK DEF TimerInit, Deadlines, OnTheSecond
<1>3. Latest = NoSnapshot
  BY DEF TimerInit, Latest
<1>4. Recorded /\ EndedOnce
  BY <1>3 DEF TimerInit, Recorded, EndedOnce, Brings
<1>5. QED
  BY <1>1, <1>2, <1>4 DEF TimerInv

LEMMA TimerInvNext ==
  TimerAssumption /\ TimerInv /\ [TimerNext]_timerVars => TimerInv' /\ [ResumesWhereLeft]_timerVars
<1> SUFFICES ASSUME TimerAssumption, TimerInv, [TimerNext]_timerVars
             PROVE  TimerInv' /\ [ResumesWhereLeft]_timerVars
  OBVIOUS
<1>1. CASE OnRestore
  BY <1>1, RestoreStep
<1>2. CASE ~OnRestore
  <2>1. ResumesWhereLeft
    BY <1>2 DEF ResumesWhereLeft
  <2>2. ASSUME NEW button \in Buttons, Input(button) PROVE TimerInv'
    BY <2>2, InputStep
  <2>3. CASE Tick \/ Configure \/ RestoreReply \/ HostStores \/ TimePasses \/ Exit \/ PluginStarts
    <3>1. Tick => TimerInv'
      BY TickStep
    <3>2. Configure => TimerInv'
      BY ConfigureStep
    <3>3. RestoreReply => TimerInv'
      BY ReplyStep
    <3>4. HostStores => TimerInv'
      BY StoresStep
    <3>5. TimePasses => TimerInv'
      BY TimeStep
    <3>6. Exit => TimerInv'
      BY ExitStep
    <3>7. PluginStarts => TimerInv'
      BY StartsStep
    <3>8. QED
      BY <2>1, <2>3, <3>1, <3>2, <3>3, <3>4, <3>5, <3>6, <3>7
  <2>4. CASE UNCHANGED timerVars
    <3>1. UNCHANGED <<duration, left, running, fired, mode, completed, work, auto, sub, up,
                      stateChanged, restore, found, unsaved, stored, phase, ended, expected, losses,
                      repeats>>
      BY <2>4 DEF timerVars, countdownVars, sessionVars, configVars, storeVars, historyVars
    <3>2. TimerTypeOK'
      BY <3>1 DEF TimerInv, TimerTypeOK
    <3>3. Now' = Now
      BY <3>1 DEF Now, SnapshotOf
    <3>4. /\ restore' = "done" \/ UNCHANGED <<restore, found>>
          /\ restore' = "done" => found' \in {NoSnapshot, found}
          /\ restore' # "done" => running' = running /\ completed' = completed
      BY <3>1
    <3>5. QED
      BY <2>1, <3>1, <3>2, <3>3, <3>4, KeptStep
  <2>5. QED
    BY <1>2, <2>1, <2>2, <2>3, <2>4 DEF TimerNext
<1>3. QED
  BY <1>1, <1>2

\* Whatever the user, the clock and the host do, across any number of restarts and lost
\* writes: the host holds what rolled or was clicked last, the next start resumes exactly
\* there, and a phase comes back only for a write that was lost (timer.go, main.go).
THEOREM PhasesAlwaysGoOn == ASSUME TimerAssumption PROVE TimerSpec => PhasesGoOn
<1>1. TimerInit => TimerInv
  BY TimerInvInit
<1>2. TimerInv /\ [TimerNext]_timerVars => TimerInv' /\ [ResumesWhereLeft]_timerVars
  BY TimerInvNext
<1>3. TimerInv => SessionSurvives /\ CompletesOnce
  BY DEF TimerInv, Recorded, EndedOnce, SessionSurvives, CompletesOnce, Latest
<1>4. QED
  BY <1>1, <1>2, <1>3, PTL DEF TimerSpec, PhasesGoOn

-----------------------------------------------------------------------------
(* Air quality.                                                            *)

Ages == 0..Old
Rows == [source : Sources \union {None}, age : Ages]
Reports == [rows : [Measures -> Rows], age : Ages, stale : BOOLEAN, origin : Places \union {None}]
AirRequests == [air : BOOLEAN, key : BOOLEAN, place : Places, current : BOOLEAN] \union {NoRequest}
AirResults == [report : Reports, failed : SUBSET Sources, current : BOOLEAN]

AirTypeOK ==
  /\ airSettings \in Settings /\ shell \in Places \union {None}
  /\ airLive \in Reports /\ cache \in Reports /\ airStored \in Reports /\ lastErr \in BOOLEAN
  /\ wake \in AirRequests /\ fetching \in AirRequests /\ result \in AirResults
  /\ query \in {"none", "asking", "answered"} /\ answer \in Places \union {None, "failed"}
  /\ current \in BOOLEAN /\ initial \in BOOLEAN /\ loaded \in BOOLEAN
  /\ hostLocation \in Places \union {None} /\ pushes \in Seq(Places \union {None})
  /\ airUp \in BOOLEAN

\* A report has an origin; its rows are no older than it says, and of its own age if
\* it is not stale; a row that is not there has no age.
Sound(r) ==
  /\ r.origin = None => r = NoReport
  /\ \A m \in Measures : r.rows[m].age <= r.age /\ (r.stale \/ ~HasRow(r, m) \/ r.rows[m].age = r.age)
  /\ \A m \in Measures : r.rows[m].source = None => ~HasRow(r, m)

NoGoogle(r) == \A m \in Measures : r.rows[m].source # "google"
GoogleYoungest(r) ==
  \A m, n \in Measures :
    r.rows[m].source = "google" /\ HasRow(r, n) => r.rows[m].age <= r.rows[n].age

ReportsSound ==
  /\ Sound(airLive) /\ Sound(cache) /\ Sound(airStored) /\ Sound(result.report)
  /\ NoGoogle(cache) /\ NoGoogle(airStored) /\ GoogleYoungest(airLive)

\* What a refresh brings is as young as can be.
FreshResult ==
  Seen(result.report) =>
    result.report.age = 0 /\ \A m \in Measures : result.report.rows[m].age = 0

\* What is still current was asked for this place.
CurrentIsHere ==
  /\ wake # NoRequest => wake = RequestOf(airSettings, shell)
  /\ fetching.current => fetching.place = Here
  /\ result.current /\ Seen(result.report) => result.report.origin = Here

\* A reading of this place that is shown is the one that is cached.
ShownIsCached ==
  Seen(airLive) /\ airLive.origin = Here => Seen(cache) /\ cache.origin = Here

\* The plugin's location is the host's, or the host's is on its way; a plugin that is
\* down knows and shows nothing.
HostKnows ==
  /\ ~airUp => shell = None /\ pushes = <<>> /\ query = "none" /\ ~Seen(airLive)
  /\ pushes = <<>> => shell \in {hostLocation, None}
  /\ pushes # <<>> => pushes[Len(pushes)] = hostLocation
  /\ query = "answered" /\ current /\ pushes = <<>> => answer \in {hostLocation, "failed"}

AirInv == AirTypeOK /\ ReportsSound /\ FreshResult /\ CurrentIsHere /\ ShownIsCached /\ HostKnows

-----------------------------------------------------------------------------
(* The data.                                                               *)

\* What is there before anything was asked for.
LEMMA AirNothing ==
  ASSUME AirAssumption
  PROVE  /\ NoRow \in Rows /\ NoReport \in Reports /\ NoRequest \in AirRequests
         /\ NoResult \in AirResults /\ Sound(NoReport) /\ NoGoogle(NoReport)
         /\ GoogleYoungest(NoReport) /\ Measures = {"air", "grass"}
<1>1. 0 \in Ages /\ Old \in Nat
  BY DEF AirAssumption, Ages, Old
<1>2. None \in Sources \union {None} /\ None # "google"
  BY DEF AirAssumption
<1>3. NoRow \in Rows
  BY <1>1 DEF NoRow, Rows
<1>4. NoReport \in Reports
  BY <1>1, <1>3 DEF NoReport, Reports
<1>5. \A m \in Measures : NoReport.rows[m] = NoRow
  BY DEF NoReport
<1>6. NoReport.age = 0 /\ NoReport.origin = None
  BY DEF NoReport
<1>7. NoRow.source = None /\ NoRow.age = 0
  BY DEF NoRow
<1>8. Sound(NoReport) /\ NoGoogle(NoReport) /\ GoogleYoungest(NoReport)
  BY <1>2, <1>5, <1>6, <1>7 DEF Sound, NoGoogle, GoogleYoungest, HasRow
<1>9. NoResult \in AirResults
  BY <1>4 DEF NoResult, AirResults
<1> QED
  BY <1>3, <1>4, <1>8, <1>9 DEF NoRequest, AirRequests, Measures

\* Fetch: a report of the place that was asked for, all of whose rows are new.
LEMMA FetchIsFresh ==
  ASSUME AirAssumption, NEW q \in AirRequests, q.place \in Places, NEW res \in FetchResults(q)
  PROVE  /\ res \in AirResults /\ res.current = q.current /\ Sound(res.report)
         /\ Seen(res.report) =>
              /\ res.report.origin = q.place /\ res.report.age = 0
              /\ \A m \in Measures : res.report.rows[m].age = 0
<1>1. PICK a \in AirHealthAnswers(q), o \in OpenMeteoAnswers :
             res \in {FetchResult(q, a, o, g) : g \in GoogleAnswers(q, "grass" \in a \cup o)}
  <2> DEFINE of(a, o) == {FetchResult(q, a, o, g) : g \in GoogleAnswers(q, "grass" \in a \cup o)}
  <2>1. res \in UNION {UNION {of(a, o) : o \in OpenMeteoAnswers} : a \in AirHealthAnswers(q)}
    BY DEF FetchResults
  <2> HIDE DEF of
  <2>2. \E a \in AirHealthAnswers(q), o \in OpenMeteoAnswers : res \in of(a, o)
    BY <2>1
  <2> QED
    BY <2>2 DEF of
<1>2. PICK g \in GoogleAnswers(q, "grass" \in a \cup o) : res = FetchResult(q, a, o, g)
  BY <1>1
<1> DEFINE rowsOf == [m \in Measures |-> [source |-> SourceOf(m, a, o, g), age |-> 0]]
           failedOf == {s \in Sources : Failed = CASE s = "airhealth" -> a
                                              [] s = "openmeteo" -> o [] s = "google" -> g}
           full == [rows |-> rowsOf, age |-> 0, stale |-> FALSE, origin |-> q.place]
<1>3. res = [report |-> IF \A m \in Measures : rowsOf[m] = NoRow THEN NoReport ELSE full,
             failed |-> failedOf, current |-> q.current]
  BY <1>2 DEF FetchResult
<1>4. failedOf \in SUBSET Sources
  OBVIOUS
<1>5. \A m \in Measures : SourceOf(m, a, o, g) \in Sources \union {None}
  BY DEF SourceOf, Sources
<1>6. 0 \in Ages
  BY DEF AirAssumption, Ages, Old
<1> HIDE DEF failedOf
<1>7. rowsOf \in [Measures -> Rows]
  BY <1>5, <1>6 DEF Rows
<1>8. \A m \in Measures : rowsOf[m].age = 0
  OBVIOUS
<1>9. \A m \in Measures : rowsOf[m].source = None => rowsOf[m] = NoRow
  BY DEF NoRow
<1> HIDE DEF rowsOf
<1>10. full \in Reports
  BY <1>6, <1>7 DEF Reports
<1>11. Sound(full)
  <2>1. full.origin # None
    BY DEF AirAssumption
  <2> QED
    BY <2>1, <1>8, <1>9 DEF Sound, HasRow
<1>12. q.current \in BOOLEAN
  <2>1. NoRequest.current = FALSE
    BY DEF NoRequest
  <2> QED
    BY <2>1 DEF AirRequests
<1> DEFINE rep == IF \A m \in Measures : rowsOf[m] = NoRow THEN NoReport ELSE full
<1>13. rep \in Reports /\ Sound(rep)
  BY <1>10, <1>11, AirNothing
<1>14. Seen(rep) => rep.origin = q.place /\ rep.age = 0 /\ \A m \in Measures : rep.rows[m].age = 0
  BY <1>8 DEF Seen
<1> HIDE DEF rep
<1>15. res = [report |-> rep, failed |-> failedOf, current |-> q.current]
  BY <1>3 DEF rep
<1> QED
  BY <1>4, <1>12, <1>13, <1>14, <1>15 DEF AirResults

\* WithoutGoogle takes rows away.
LEMMA WithoutGoogleSound ==
  ASSUME AirAssumption, NEW r \in Reports, Sound(r)
  PROVE  /\ WithoutGoogle(r) \in Reports /\ Sound(WithoutGoogle(r)) /\ NoGoogle(WithoutGoogle(r))
         /\ WithoutGoogle(r).origin = r.origin
         /\ Seen(r) => Seen(WithoutGoogle(r))
<1> DEFINE rowsOf == [m \in Measures |-> IF r.rows[m].source = "google" THEN NoRow ELSE r.rows[m]]
<1>1. rowsOf \in [Measures -> Rows]
  BY AirNothing DEF Reports
<1>2. WithoutGoogle(r) = [r EXCEPT !.rows = rowsOf]
  BY DEF WithoutGoogle
<1>3. \A m \in Measures : rowsOf[m] = NoRow \/ (rowsOf[m] = r.rows[m] /\ r.rows[m].source # "google")
  OBVIOUS
<1>4. NoRow.source = None /\ NoRow.age = 0 /\ None # "google"
  BY DEF NoRow, AirAssumption
<1> HIDE DEF rowsOf
<1>5. /\ WithoutGoogle(r) \in Reports
      /\ WithoutGoogle(r).rows = rowsOf /\ WithoutGoogle(r).age = r.age
      /\ WithoutGoogle(r).stale = r.stale /\ WithoutGoogle(r).origin = r.origin
  BY <1>1, <1>2 DEF Reports
<1>6. r.age \in Nat
  BY DEF Reports, Ages
<1>7. NoReport.origin = None
  BY DEF NoReport
<1>8. r.origin = None => WithoutGoogle(r) = NoReport
  <2> SUFFICES ASSUME r.origin = None PROVE WithoutGoogle(r) = NoReport
    OBVIOUS
  <2>1. r = NoReport
    BY DEF Sound
  <2>2. \A m \in Measures : r.rows[m] = NoRow
    BY <2>1 DEF NoReport
  <2>3. rowsOf = r.rows
    BY <2>2, <1>3, <1>1 DEF Reports
  <2> QED
    BY <2>1, <2>3, <1>2 DEF Reports
<1>9. \A m \in Measures :
        /\ rowsOf[m].age <= r.age /\ (r.stale \/ rowsOf[m] = NoRow \/ rowsOf[m].age = r.age)
        /\ rowsOf[m].source = None => rowsOf[m] = NoRow
        /\ rowsOf[m].source # "google"
  BY <1>3, <1>4, <1>6 DEF Sound, HasRow
<1>10. Sound(WithoutGoogle(r)) /\ NoGoogle(WithoutGoogle(r))
  BY <1>5, <1>8, <1>9 DEF Sound, NoGoogle, HasRow
<1> QED
  BY <1>5, <1>7, <1>10 DEF Sound, Seen

\* What is kept or restored without Google's rows is stale.
LEMMA StaleSound ==
  ASSUME AirAssumption, NEW r \in Reports, Sound(r), Seen(r)
  PROVE  LET old == [WithoutGoogle(r) EXCEPT !.stale = TRUE]
         IN  old \in Reports /\ Sound(old) /\ NoGoogle(old) /\ Seen(old) /\ old.origin = r.origin
<1> DEFINE w == WithoutGoogle(r)
           old == [w EXCEPT !.stale = TRUE]
<1>1. w \in Reports /\ Sound(w) /\ NoGoogle(w) /\ w.origin = r.origin /\ Seen(w)
  BY WithoutGoogleSound
<1> HIDE DEF w
<1>2. old \in Reports /\ old.rows = w.rows /\ old.age = w.age /\ old.stale /\ old.origin = w.origin
  BY <1>1 DEF Reports
<1>3. w.origin # None
  BY <1>1 DEF Sound, Seen
<1>4. NoReport.origin = None
  BY DEF NoReport
<1>5. Sound(old)
  BY <1>1, <1>2, <1>3 DEF Sound, HasRow
<1>6. NoGoogle(old) /\ Seen(old)
  BY <1>1, <1>2, <1>3, <1>4 DEF NoGoogle, Seen
<1> QED
  BY <1>1, <1>2, <1>5, <1>6 DEF w

\* The largest of at most three ages.
LEMMA MaxOfThree ==
  ASSUME NEW a \in Nat, NEW b \in Nat, NEW c \in Nat, NEW S \in SUBSET {a, b, c}, c \in S
  PROVE  Max(S) \in S /\ \A x \in S : x <= Max(S)
<1>1. \E x \in S : \A y \in S : x >= y
  OBVIOUS
<1> QED
  BY <1>1 DEF Max

\* Merge: what is carried is no younger, never Google's, and makes the report stale.
LEMMA CarryOverSound ==
  ASSUME AirAssumption, NEW fresh \in Reports, Sound(fresh), Seen(fresh), fresh.age = 0,
         \A m \in Measures : fresh.rows[m].age = 0,
         NEW previous \in Reports, Sound(previous)
  PROVE  LET merged == CarryOver(fresh, previous)
         IN  merged \in Reports /\ Sound(merged) /\ GoogleYoungest(merged) /\ Seen(merged)
             /\ merged.origin = fresh.origin
<1> DEFINE lacking == {m \in Measures : ~HasRow(fresh, m) /\ Carries(fresh, previous.rows[m])}
           carried == {previous.rows[m] : m \in lacking}
           rowsOf == [m \in Measures |-> IF m \in lacking THEN previous.rows[m] ELSE fresh.rows[m]]
           merged == [rows |-> rowsOf, age |-> OldestAge(fresh, carried),
                      stale |-> StaleMerge(carried), origin |-> fresh.origin]
           ages == {row.age : row \in carried} \cup {fresh.age}
<1>1. CarryOver(fresh, previous) = merged
  BY DEF CarryOver
<1>2. Measures = {"air", "grass"} /\ "air" \in Measures /\ "grass" \in Measures
  BY DEF Measures
<1>3. /\ previous.rows["air"].age \in Ages /\ previous.rows["grass"].age \in Ages
      /\ 0 \in Ages /\ Ages \subseteq Nat
  BY <1>2 DEF Reports, Rows, Ages, AirAssumption, Old
<1>4. ages \subseteq {previous.rows["air"].age, previous.rows["grass"].age, 0} /\ 0 \in ages
  BY <1>2
<1>5. Max(ages) \in ages /\ \A x \in ages : x <= Max(ages)
  <2> DEFINE a == previous.rows["air"].age
             b == previous.rows["grass"].age
  <2>1. a \in Nat /\ b \in Nat
    BY <1>3
  <2>2. ages \in SUBSET {a, b, 0} /\ 0 \in ages
    BY <1>4
  <2> HIDE DEF a, b, ages
  <2> QED
    BY <2>1, <2>2, MaxOfThree
<1>6. OldestAge(fresh, carried) = Max(ages)
  BY DEF OldestAge
<1>7. \A m \in lacking : previous.rows[m].age \in ages
  OBVIOUS
<1>8. rowsOf \in [Measures -> Rows]
  <2>1. fresh.rows \in [Measures -> Rows] /\ previous.rows \in [Measures -> Rows]
    BY DEF Reports
  <2> HIDE DEF lacking
  <2> QED
    BY <2>1
<1>9. \A m \in Measures :
        \/ rowsOf[m] = fresh.rows[m] /\ rowsOf[m].age = 0
        \/ /\ m \in lacking /\ rowsOf[m] = previous.rows[m] /\ rowsOf[m].age \in ages
           /\ rowsOf[m].source # "google" /\ carried # {}
  BY <1>7 DEF Carries
<1>10. Max(ages) \in Ages
  BY <1>3, <1>4, <1>5
<1>11. carried = {} => Max(ages) = 0
  BY <1>5
<1>12. fresh.origin # None
  BY DEF Sound, Seen
<1>13. merged \in Reports
  <2>1. StaleMerge(carried) \in BOOLEAN
    BY DEF StaleMerge
  <2>2. OldestAge(fresh, carried) \in Ages
    BY <1>6, <1>10
  <2>3. fresh.origin \in Places \union {None}
    BY DEF Reports
  <2> HIDE DEF rowsOf, carried, lacking, ages
  <2> QED
    BY <1>8, <2>1, <2>2, <2>3 DEF Reports
<1>14. /\ merged.rows = rowsOf /\ merged.age = Max(ages) /\ merged.stale = (carried # {})
       /\ merged.origin = fresh.origin
  BY <1>6 DEF StaleMerge
<1>15. \A m \in Measures : rowsOf[m].age \in Nat
  BY <1>3, <1>8 DEF Rows
<1>16. NoReport.origin = None
  BY DEF NoReport
<1>17. 0 <= Max(ages)
  BY <1>4, <1>5
<1>18. \A m \in Measures : rowsOf[m].source = None => rowsOf[m] = NoRow
  BY <1>9 DEF Sound, HasRow
<1> HIDE DEF rowsOf, ages, merged, carried, lacking
<1>19. \A m \in Measures : rowsOf[m].age <= Max(ages)
  BY <1>5, <1>9, <1>17
<1>20. Sound(merged)
  BY <1>9, <1>11, <1>12, <1>14, <1>18, <1>19 DEF Sound, HasRow
<1>21. GoogleYoungest(merged)
  BY <1>9, <1>14, <1>15 DEF GoogleYoungest, HasRow
<1>22. Seen(merged)
  BY <1>12, <1>14, <1>16 DEF Seen
<1> QED
  BY <1>1, <1>13, <1>14, <1>20, <1>21, <1>22

LEMMA MergeSound ==
  ASSUME AirAssumption, NEW fresh \in Reports, Sound(fresh), Seen(fresh), fresh.age = 0,
         \A m \in Measures : fresh.rows[m].age = 0, cache \in Reports, Sound(cache)
  PROVE  LET merged == Merge(fresh)
         IN  merged \in Reports /\ Sound(merged) /\ GoogleYoungest(merged) /\ Seen(merged)
             /\ merged.origin = fresh.origin
<1>1. CASE SameOrigin(cache, fresh)
  BY <1>1, CarryOverSound DEF Merge
<1>2. CASE ~SameOrigin(cache, fresh)
  <2>1. GoogleYoungest(fresh)
    BY DEF GoogleYoungest
  <2> QED
    BY <1>2, <2>1 DEF Merge
<1> QED
  BY <1>1, <1>2

\* An hour makes all of a report older alike.
LEMMA AgedSound ==
  ASSUME AirAssumption, NEW r \in Reports, Sound(r)
  PROVE  /\ AgedReport(r) \in Reports /\ Sound(AgedReport(r))
         /\ AgedReport(r).origin = r.origin /\ (Seen(AgedReport(r)) <=> Seen(r))
         /\ NoGoogle(r) => NoGoogle(AgedReport(r))
         /\ GoogleYoungest(r) => GoogleYoungest(AgedReport(r))
<1>1. CASE ~Seen(r)
  BY <1>1 DEF AgedReport, Seen
<1>2. CASE Seen(r)
  <2> DEFINE rowsOf == [m \in Measures |-> IF HasRow(r, m) THEN [r.rows[m] EXCEPT !.age = Older(@)]
                                                           ELSE NoRow]
  <2>1. AgedReport(r) = [r EXCEPT !.age = Older(r.age), !.rows = rowsOf]
    BY <1>2 DEF AgedReport
  <2>2. \A n \in Ages : Older(n) \in Ages
    BY DEF Ages, Older, Old, AirAssumption
  <2>3. \A n, k \in Ages : n <= k => Older(n) <= Older(k)
    BY DEF Ages, Older, Old, AirAssumption
  <2>4. \A n \in Ages : n \in Nat /\ Older(n) \in Nat /\ 0 <= Older(n)
    BY <2>2 DEF Ages
  <2>5. r.age \in Ages /\ \A m \in Measures : r.rows[m] \in Rows /\ r.rows[m].age \in Ages
    BY DEF Reports, Rows
  <2>6. \A m \in Measures :
          \/ ~HasRow(r, m) /\ rowsOf[m] = NoRow
          \/ HasRow(r, m) /\ rowsOf[m] = [r.rows[m] EXCEPT !.age = Older(r.rows[m].age)]
    OBVIOUS
  <2>7. \A row \in Rows : /\ [row EXCEPT !.age = Older(row.age)] \in Rows
                          /\ [row EXCEPT !.age = Older(row.age)].source = row.source
                          /\ [row EXCEPT !.age = Older(row.age)].age = Older(row.age)
    BY <2>2 DEF Rows
  <2>8. \A m \in Measures :
          \/ ~HasRow(r, m) /\ rowsOf[m] = NoRow
          \/ /\ HasRow(r, m) /\ rowsOf[m] \in Rows
             /\ rowsOf[m].source = r.rows[m].source /\ rowsOf[m].age = Older(r.rows[m].age)
    BY <2>5, <2>6, <2>7
  <2>9. rowsOf \in [Measures -> Rows]
    BY <2>8, AirNothing
  <2> HIDE DEF rowsOf
  <2>10. /\ AgedReport(r) \in Reports /\ AgedReport(r).rows = rowsOf
         /\ AgedReport(r).age = Older(r.age) /\ AgedReport(r).stale = r.stale
         /\ AgedReport(r).origin = r.origin
    BY <2>1, <2>2, <2>5, <2>9 DEF Reports
  <2>11. r.origin # None
    BY <1>2 DEF Sound, Seen
  <2>12. Seen(AgedReport(r))
    BY <2>10, <2>11 DEF Seen, NoReport
  <2>13. NoRow.source = None /\ NoRow.age = 0 /\ None # "google"
    BY DEF NoRow, AirAssumption
  <2>14. \A m \in Measures : rowsOf[m].age <= Older(r.age)
    BY <2>3, <2>4, <2>5, <2>8, <2>13 DEF Sound
  <2>15. \A m \in Measures : rowsOf[m] # NoRow => HasRow(r, m)
    BY <2>8
  <2>16. \A m \in Measures : rowsOf[m].source = None => rowsOf[m] = NoRow
    BY <2>8 DEF Sound
  <2>17. \A m \in Measures : r.stale \/ rowsOf[m] = NoRow \/ rowsOf[m].age = Older(r.age)
    BY <2>8 DEF Sound
  <2>18. Sound(AgedReport(r))
    BY <2>10, <2>11, <2>14, <2>16, <2>17 DEF Sound, HasRow
  <2>19. NoGoogle(r) => NoGoogle(AgedReport(r))
    BY <2>8, <2>10, <2>13 DEF NoGoogle
  <2>20. GoogleYoungest(r) => GoogleYoungest(AgedReport(r))
    <3> SUFFICES ASSUME GoogleYoungest(r), NEW m \in Measures, NEW n \in Measures,
                        rowsOf[m].source = "google", rowsOf[n] # NoRow
                 PROVE  rowsOf[m].age <= rowsOf[n].age
      BY <2>10 DEF GoogleYoungest, HasRow
    <3>1. HasRow(r, m) /\ HasRow(r, n)
      BY <2>8, <2>13
    <3>2. r.rows[m].source = "google" /\ rowsOf[m].age = Older(r.rows[m].age)
      BY <2>8, <3>1
    <3>3. rowsOf[n].age = Older(r.rows[n].age)
      BY <2>8, <3>1
    <3>4. r.rows[m].age <= r.rows[n].age
      BY <3>1, <3>2 DEF GoogleYoungest
    <3> QED
      BY <2>3, <2>5, <3>2, <3>3, <3>4
  <2> QED
    BY <1>2, <2>10, <2>12, <2>18, <2>19, <2>20
<1> QED
  BY <1>1, <1>2

-----------------------------------------------------------------------------
(* The steps.                                                              *)

\* A request is for a place there is, and current when it is made.
LEMMA RequestShape ==
  ASSUME AirAssumption, NEW cfg \in Settings, NEW loc \in Places \union {None}
  PROVE  /\ RequestOf(cfg, loc) \in AirRequests /\ RequestOf(cfg, loc) # NoRequest
         /\ RequestOf(cfg, loc).place = PlaceOf(cfg, loc) /\ PlaceOf(cfg, loc) \in Places
<1>1. PlaceOf(cfg, loc) \in Places
  BY DEF PlaceOf, AirAssumption
<1>2. cfg.airhealth \in BOOLEAN /\ cfg.key \in BOOLEAN
  BY DEF Settings
<1>3. RequestOf(cfg, loc) = [air |-> cfg.airhealth /\ PlaceOf(cfg, loc) \in Regional, key |-> cfg.key,
                             place |-> PlaceOf(cfg, loc), current |-> TRUE]
  BY DEF RequestOf
<1>4. RequestOf(cfg, loc).place = PlaceOf(cfg, loc) /\ RequestOf(cfg, loc).current
  BY <1>3
<1>5. NoRequest.current = FALSE
  BY DEF NoRequest
<1>6. RequestOf(cfg, loc) \in AirRequests
  BY <1>1, <1>2, <1>3 DEF AirRequests
<1> QED
  BY <1>1, <1>4, <1>5, <1>6

\* What is outdated only stops being current.
LEMMA OutdatedShape ==
  ASSUME AirAssumption
  PROVE  /\ \A q \in AirRequests : Outdated(q) \in AirRequests /\ ~Outdated(q).current
         /\ \A res \in AirResults : /\ Outdated(res) \in AirResults /\ ~Outdated(res).current
                                    /\ Outdated(res).report = res.report
<1>1. ASSUME NEW q \in AirRequests PROVE Outdated(q) \in AirRequests /\ ~Outdated(q).current
  <2>1. CASE q = NoRequest
    <3>1. NoRequest \in [air : BOOLEAN, key : BOOLEAN, place : {None}, current : BOOLEAN]
      BY DEF NoRequest
    <3>2. NoRequest.current = FALSE
      BY DEF NoRequest
    <3>3. [NoRequest EXCEPT !.current = FALSE] = NoRequest
      BY <3>1, <3>2
    <3> QED
      BY <2>1, <3>2, <3>3 DEF AirRequests, Outdated
  <2>2. CASE q # NoRequest
    BY <2>2 DEF Outdated, AirRequests
  <2> QED
    BY <2>1, <2>2
<1>2. ASSUME NEW res \in AirResults
      PROVE  /\ Outdated(res) \in AirResults /\ ~Outdated(res).current
             /\ Outdated(res).report = res.report
  BY DEF Outdated, AirResults
<1> QED
  BY <1>1, <1>2

\* sourcesChanged keeps all of the invariant that it touches, whatever the shell or the
\* settings have become; and what is shown then is of the new place.
LEMMA SourcesChangedKeeps ==
  ASSUME AirAssumption, AirInv, SourcesChanged,
         airSettings' \in Settings, shell' \in Places \union {None}, UNCHANGED airStored
  PROVE  /\ airLive' \in Reports /\ cache' \in Reports /\ lastErr' \in BOOLEAN
         /\ wake' \in AirRequests /\ fetching' \in AirRequests /\ result' \in AirResults
         /\ ReportsSound' /\ FreshResult' /\ CurrentIsHere' /\ ShownIsCached'
         /\ IsHere => IsHere'
<1> DEFINE there == PlaceOf(airSettings', shell')
<1>1. Here' = there /\ there \in Places
  BY RequestShape DEF Here
<1>2. RequestOf(airSettings', shell') \in AirRequests /\ RequestOf(airSettings', shell').place = there
  BY RequestShape
<1>3. RequestOf(airSettings, shell).place = Here
  BY RequestShape DEF AirInv, AirTypeOK, Here
<1>4. AirTypeOK /\ ReportsSound /\ FreshResult /\ CurrentIsHere /\ ShownIsCached
  BY DEF AirInv
<1>5. cache' = NoReport \/ (cache' = cache /\ (Seen(cache) => cache.origin = there))
  BY DEF SourcesChanged, Relocated
<1> HIDE DEF there
<1>6. cache' \in Reports /\ Sound(cache') /\ NoGoogle(cache')
  BY <1>4, <1>5, AirNothing DEF AirTypeOK, ReportsSound
<1>7. CASE ChangesSources
  <2>1. /\ airLive' = NoReport /\ lastErr' = FALSE /\ wake' = RequestOf(airSettings', shell')
        /\ fetching' = Outdated(fetching) /\ result' = Outdated(result)
    BY <1>7 DEF SourcesChanged, RequestRefresh, NewestWins
  <2>2. /\ fetching' \in AirRequests /\ ~fetching'.current
        /\ result' \in AirResults /\ ~result'.current /\ result'.report = result.report
    BY <2>1, <1>4, OutdatedShape DEF AirTypeOK
  <2>3. ReportsSound'
    BY <1>4, <1>6, <2>1, <2>2, AirNothing DEF ReportsSound
  <2>4. FreshResult'
    BY <1>4, <2>2 DEF FreshResult
  <2>5. CurrentIsHere'
    BY <2>1, <2>2 DEF CurrentIsHere
  <2>6. ~Seen(airLive')
    BY <2>1 DEF Seen
  <2>7. IsHere' /\ ShownIsCached'
    BY <1>1, <1>5, <2>6 DEF IsHere, Shown, ShownIsCached, Seen
  <2> QED
    BY <1>2, <1>6, <2>1, <2>2, <2>3, <2>4, <2>5, <2>7, AirNothing
<1>8. CASE ~ChangesSources
  <2>1. UNCHANGED <<airLive, lastErr, wake, fetching, result>>
    BY <1>8 DEF SourcesChanged
  <2>2. RequestOf(airSettings', shell') = RequestOf(airSettings, shell)
    BY <1>8 DEF ChangesSources
  <2>3. there = Here /\ Here' = Here
    BY <1>1, <1>2, <1>3, <2>2
  <2>4. ReportsSound' /\ FreshResult'
    BY <1>4, <1>6, <2>1 DEF ReportsSound, FreshResult
  <2>5. CurrentIsHere'
    BY <1>4, <2>1, <2>2, <2>3 DEF CurrentIsHere
  <2>6. ShownIsCached'
    <3>1. CASE Seen(airLive) /\ airLive.origin = Here
      <4>1. Seen(cache) /\ cache.origin = Here
        BY <1>4, <3>1 DEF ShownIsCached
      <4>2. cache' = cache
        BY <4>1, <2>3 DEF SourcesChanged, Relocated, there
      <4> QED
        BY <4>1, <4>2, <2>3 DEF ShownIsCached, Seen
    <3>2. CASE ~(Seen(airLive) /\ airLive.origin = Here)
      BY <3>2, <2>1, <2>3 DEF ShownIsCached, Seen
    <3> QED
      BY <3>1, <3>2
  <2>7. IsHere => IsHere'
    BY <1>5, <2>1, <2>3 DEF IsHere, Shown, Seen
  <2> QED
    BY <1>4, <1>6, <2>1, <2>4, <2>5, <2>6, <2>7 DEF AirTypeOK
<1> QED
  BY <1>7, <1>8

LEMMA AirInvInit == AirAssumption /\ AirInit => AirInv
<1> SUFFICES ASSUME AirAssumption, AirInit PROVE AirInv
  OBVIOUS
<1>1. Defaults \in Settings
  BY DEF Defaults, Settings
<1>2. AirTypeOK
  <2>1. <<>> \in Seq(Places \union {None})
    OBVIOUS
  <2> QED
    BY <1>1, <2>1, AirNothing DEF AirInit, AirTypeOK
<1>3. ReportsSound /\ FreshResult
  <2>1. result.report = NoReport /\ ~Seen(result.report)
    BY DEF AirInit, NoResult, Seen
  <2> QED
    BY <2>1, AirNothing DEF AirInit, ReportsSound, FreshResult
<1>4. CurrentIsHere
  <2>1. ~NoRequest.current /\ ~NoResult.current
    BY DEF NoRequest, NoResult
  <2> QED
    BY <2>1 DEF AirInit, CurrentIsHere
<1>5. ShownIsCached /\ HostKnows
  BY DEF AirInit, ShownIsCached, HostKnows, Seen
<1> QED
  BY <1>2, <1>3, <1>4, <1>5 DEF AirInv

LEMMA AirInvFetch ==
  ASSUME AirAssumption, AirInv, StartFetch \/ EndFetch
  PROVE  AirInv' /\ StayHere
<1>1. CASE StartFetch
  <2>1. UNCHANGED <<airSessionVars, result, locationVars, hostVars, airUp>>
    BY <1>1 DEF StartFetch
  <2>2. wake' = NoRequest /\ fetching' = wake /\ wake # NoRequest
    BY <1>1 DEF StartFetch
  <2>3. AirTypeOK'
    BY <2>1, <2>2, AirNothing DEF AirInv, AirTypeOK, airSessionVars, locationVars, hostVars
  <2>4. Here' = Here /\ RequestOf(airSettings, shell).place = Here
    BY <2>1, RequestShape DEF Here, airSessionVars, AirInv, AirTypeOK
  <2>5. CurrentIsHere'
    BY <2>1, <2>2, <2>4 DEF CurrentIsHere, AirInv
  <2>6. ReportsSound' /\ FreshResult' /\ ShownIsCached' /\ HostKnows' /\ StayHere
    BY <2>1, <2>4 DEF AirInv, ReportsSound, FreshResult, ShownIsCached, HostKnows, StayHere, IsHere,
       Shown, Seen, airSessionVars, locationVars, hostVars
  <2> QED
    BY <2>3, <2>5, <2>6 DEF AirInv
<1>2. CASE EndFetch
  <2>1. UNCHANGED <<airSessionVars, wake, locationVars, hostVars, airUp>>
    BY <1>2 DEF EndFetch
  <2>2. fetching # NoRequest /\ result' \in FetchResults(fetching) /\ fetching' = NoRequest
    BY <1>2 DEF EndFetch
  <2>3. fetching \in AirRequests /\ fetching.place \in Places
    BY <2>2 DEF AirInv, AirTypeOK, AirRequests
  <2>4. /\ result' \in AirResults /\ result'.current = fetching.current /\ Sound(result'.report)
        /\ Seen(result'.report) =>
             /\ result'.report.origin = fetching.place /\ result'.report.age = 0
             /\ \A m \in Measures : result'.report.rows[m].age = 0
    BY <2>2, <2>3, FetchIsFresh
  <2>5. AirTypeOK'
    BY <2>1, <2>2, <2>4, AirNothing DEF AirInv, AirTypeOK, airSessionVars, locationVars, hostVars
  <2>6. Here' = Here
    BY <2>1 DEF Here, airSessionVars
  <2>7. CurrentIsHere'
    <3>1. ~fetching'.current
      BY <2>2 DEF NoRequest
    <3> QED
      BY <2>1, <2>4, <2>6, <3>1 DEF CurrentIsHere, AirInv, airSessionVars
  <2>8. FreshResult' /\ ReportsSound'
    BY <2>1, <2>4 DEF AirInv, ReportsSound, FreshResult, airSessionVars, hostVars
  <2>9. ShownIsCached' /\ HostKnows' /\ StayHere
    BY <2>1, <2>6 DEF AirInv, ShownIsCached, HostKnows, StayHere, IsHere, Shown, Seen,
       airSessionVars, locationVars, hostVars
  <2> QED
    BY <2>5, <2>7, <2>8, <2>9 DEF AirInv
<1> QED
  BY <1>1, <1>2

LEMMA AirInvRefresh ==
  ASSUME AirAssumption, AirInv, HandleRefresh
  PROVE  AirInv' /\ StayHere
<1> USE DEF Seen
<1>1. /\ UNCHANGED <<airSettings, shell, initial, loaded, wake, fetching, locationVars,
                     hostLocation, pushes, airUp>>
      /\ result' = NoResult /\ airUp
  BY DEF HandleRefresh
<1>2. AirTypeOK /\ ReportsSound /\ FreshResult /\ CurrentIsHere /\ ShownIsCached /\ HostKnows
  BY DEF AirInv
<1>3. Here' = Here
  BY <1>1 DEF Here
<1>4. NoResult.report = NoReport /\ ~NoResult.current
  BY DEF NoResult
<1>5. FreshResult'
  BY <1>1, <1>4 DEF FreshResult
<1>6. CurrentIsHere'
  BY <1>1, <1>2, <1>3, <1>4 DEF CurrentIsHere
<1>7. HostKnows'
  BY <1>1, <1>2 DEF HostKnows, locationVars
<1>8. result.report \in Reports
  BY <1>2 DEF AirTypeOK, AirResults
<1> DEFINE Told ==
      /\ airLive' \in Reports /\ cache' \in Reports /\ airStored' \in Reports /\ lastErr' \in BOOLEAN
      /\ Sound(airLive') /\ Sound(cache') /\ Sound(airStored')
      /\ NoGoogle(cache') /\ NoGoogle(airStored') /\ GoogleYoungest(airLive')
      /\ ShownIsCached' /\ (IsHere => IsHere')
<1>9. ASSUME ~result.current PROVE Told
  <2>1. UNCHANGED <<airLive, cache, lastErr, airStored>>
    BY <1>9 DEF HandleRefresh
  <2> QED
    BY <2>1, <1>2, <1>3 DEF AirTypeOK, ReportsSound, ShownIsCached, IsHere, Shown
<1>10. ASSUME result.current /\ Seen(result.report) PROVE Told
  <2>1. /\ airLive' = Merge(result.report) /\ cache' = Retained(airLive')
        /\ lastErr' = (result.failed # {}) /\ SaveReport(airLive')
    BY <1>10 DEF HandleRefresh
  <2>2. result.report.origin = Here
    BY <1>2, <1>10 DEF CurrentIsHere
  <2>3. /\ airLive' \in Reports /\ Sound(airLive') /\ GoogleYoungest(airLive') /\ Seen(airLive')
        /\ airLive'.origin = Here
    BY <1>2, <1>8, <1>10, <2>1, <2>2, MergeSound DEF AirTypeOK, ReportsSound, FreshResult
  <2>4. /\ WithoutGoogle(airLive') \in Reports /\ Sound(WithoutGoogle(airLive'))
        /\ NoGoogle(WithoutGoogle(airLive')) /\ WithoutGoogle(airLive').origin = Here
        /\ Seen(WithoutGoogle(airLive'))
    BY <2>3, WithoutGoogleSound
  <2>5. cache' = WithoutGoogle(airLive')
    BY <2>1 DEF Retained
  <2>6. airStored' = airStored \/ airStored' = WithoutGoogle(airLive')
    BY <2>1 DEF SaveReport
  <2>7. airStored' \in Reports /\ Sound(airStored') /\ NoGoogle(airStored')
    BY <1>2, <2>4, <2>6 DEF AirTypeOK, ReportsSound
  <2>8. ShownIsCached' /\ IsHere'
    BY <1>3, <2>3, <2>4, <2>5 DEF ShownIsCached, IsHere, Shown
  <2>9. lastErr' \in BOOLEAN
    BY <2>1
  <2> QED
    BY <2>3, <2>4, <2>5, <2>7, <2>8, <2>9
<1>11. ASSUME result.current /\ ~Seen(result.report) /\ Seen(cache) PROVE Told
  <2>1. cache' = Kept /\ airLive' = Kept /\ lastErr' = TRUE /\ SaveReport(Kept)
    BY <1>11 DEF HandleRefresh
  <2>2. /\ Kept \in Reports /\ Sound(Kept) /\ NoGoogle(Kept) /\ Seen(Kept)
        /\ Kept.origin = cache.origin
    BY <1>2, <1>11, StaleSound DEF AirTypeOK, ReportsSound, Kept
  <2>3. GoogleYoungest(Kept)
    BY <2>2 DEF NoGoogle, GoogleYoungest
  <2>4. WithoutGoogle(Kept) \in Reports /\ Sound(WithoutGoogle(Kept)) /\ NoGoogle(WithoutGoogle(Kept))
    BY <2>2, WithoutGoogleSound
  <2>5. airStored' \in Reports /\ Sound(airStored') /\ NoGoogle(airStored')
    BY <1>2, <2>1, <2>4 DEF AirTypeOK, ReportsSound, SaveReport
  <2>6. ShownIsCached'
    BY <2>1, <2>2 DEF ShownIsCached
  <2>7. IsHere => IsHere'
    <3> SUFFICES ASSUME IsHere PROVE cache.origin = Here
      BY <1>3, <2>1, <2>2 DEF IsHere, Shown
    <3> QED
      BY <1>2, <1>11 DEF IsHere, Shown, ShownIsCached
  <2> QED
    BY <2>1, <2>2, <2>3, <2>5, <2>6, <2>7
<1>12. ASSUME result.current /\ ~Seen(result.report) /\ ~Seen(cache) PROVE Told
  <2>1. airLive' = NoReport /\ lastErr' = TRUE /\ UNCHANGED <<cache, airStored>>
    BY <1>12 DEF HandleRefresh
  <2> QED
    BY <1>2, <1>12, <2>1, AirNothing DEF AirTypeOK, ReportsSound, ShownIsCached, IsHere, Shown
<1>13. Told
  BY <1>9, <1>10, <1>11, <1>12
<1>14. AirTypeOK'
  BY <1>1, <1>2, <1>13, AirNothing DEF AirTypeOK, locationVars
<1>15. ReportsSound'
  BY <1>1, <1>4, <1>13, AirNothing DEF ReportsSound
<1> QED
  BY <1>5, <1>6, <1>7, <1>13, <1>14, <1>15 DEF AirInv, StayHere

LEMMA AirInvLocation ==
  ASSUME AirAssumption, AirInv, HostAnswers \/ OnLocationResult \/ OnPush \/ HostMoves
  PROVE  AirInv' /\ StayHere
<1>1. AirTypeOK /\ ReportsSound /\ FreshResult /\ CurrentIsHere /\ ShownIsCached /\ HostKnows
  BY DEF AirInv
<1>2. CASE HostAnswers
  <2>1. /\ UNCHANGED <<airSessionVars, refreshVars, current, hostVars, airUp>>
        /\ query = "asking" /\ query' = "answered" /\ answer' \in {hostLocation} \cup {"failed"} /\ airUp
    BY <1>2 DEF HostAnswers
  <2>2. AirTypeOK'
    BY <1>1, <2>1 DEF AirTypeOK, airSessionVars, refreshVars, hostVars
  <2>3. HostKnows'
    BY <1>1, <2>1 DEF HostKnows, Seen, airSessionVars, hostVars
  <2>4. ReportsSound' /\ FreshResult' /\ CurrentIsHere' /\ ShownIsCached' /\ StayHere
    BY <1>1, <2>1 DEF ReportsSound, FreshResult, CurrentIsHere, ShownIsCached, StayHere, IsHere,
       Shown, Seen, Here, airSessionVars, refreshVars, hostVars
  <2> QED
    BY <2>2, <2>3, <2>4 DEF AirInv
<1>3. CASE OnLocationResult
  <2>1. /\ query = "answered" /\ query' = "none" /\ answer' = None /\ airUp /\ initial' = TRUE
        /\ UNCHANGED <<airSettings, loaded, current, hostVars, airUp>>
        /\ shell' = IF AppliesAnswer THEN answer ELSE shell
    BY <1>3 DEF OnLocationResult
  <2>2. shell' \in Places \union {None} /\ airSettings' \in Settings
    BY <1>1, <2>1 DEF AppliesAnswer, AirTypeOK
  <2>3. HostKnows'
    BY <1>1, <2>1 DEF HostKnows, AppliesAnswer, hostVars
  <2>4. CASE SourcesChanged
    <3>1. /\ airLive' \in Reports /\ cache' \in Reports /\ lastErr' \in BOOLEAN
          /\ wake' \in AirRequests /\ fetching' \in AirRequests /\ result' \in AirResults
          /\ ReportsSound' /\ FreshResult' /\ CurrentIsHere' /\ ShownIsCached'
          /\ IsHere => IsHere'
      BY <2>1, <2>2, <2>4, SourcesChangedKeeps DEF hostVars
    <3>2. AirTypeOK'
      BY <1>1, <2>1, <2>2, <3>1 DEF AirTypeOK, hostVars
    <3> QED
      BY <2>3, <3>1, <3>2 DEF AirInv, StayHere
  <2>5. CASE ~SourcesChanged
    <3>1. /\ ~ChangesSources
          /\ IF AppliesAnswer THEN cache' = Relocated(Here) ELSE UNCHANGED cache
          /\ IF initial THEN UNCHANGED wake ELSE RequestRefresh
          /\ UNCHANGED <<airLive, lastErr, fetching, result>>
      BY <1>3, <2>5 DEF OnLocationResult
    <3>2. RequestOf(airSettings', shell') = RequestOf(airSettings, shell)
      BY <3>1 DEF ChangesSources
    <3>3. Here' = Here
      BY <1>1, <2>2, <3>2, RequestShape DEF Here, AirTypeOK
    <3>4. cache' = cache \/ (cache' = NoReport /\ cache.origin # Here)
      BY <3>1 DEF Relocated
    <3>5. wake' = wake \/ wake' = RequestOf(airSettings', shell')
      BY <3>1 DEF RequestRefresh, NewestWins
    <3>6. AirTypeOK'
      BY <1>1, <2>1, <2>2, <3>1, <3>4, <3>5, RequestShape, AirNothing DEF AirTypeOK, hostVars
    <3>7. ReportsSound' /\ FreshResult'
      BY <1>1, <2>1, <3>1, <3>4, AirNothing DEF ReportsSound, FreshResult, hostVars
    <3>8. CurrentIsHere'
      BY <1>1, <3>1, <3>2, <3>3, <3>5 DEF CurrentIsHere
    <3>9. ShownIsCached'
      BY <1>1, <3>1, <3>3, <3>4 DEF ShownIsCached, Seen
    <3>10. StayHere
      BY <1>1, <3>1, <3>3, <3>4 DEF StayHere, IsHere, Shown, Seen
    <3> QED
      BY <2>3, <3>6, <3>7, <3>8, <3>9, <3>10 DEF AirInv
  <2> QED
    BY <2>4, <2>5
<1>4. CASE OnPush
  <2>1. /\ airUp /\ pushes # <<>> /\ pushes' = Tail(pushes) /\ shell' = Head(pushes)
        /\ current' = FALSE /\ SourcesChanged
        /\ initial' = (initial \/ ChangesSources)
        /\ UNCHANGED <<airSettings, loaded, query, answer, hostLocation, airStored, airUp>>
    BY <1>4 DEF OnPush
  <2>2. pushes' \in Seq(Places \union {None}) /\ shell' \in Places \union {None}
    BY <1>1, <2>1 DEF AirTypeOK
  <2>3. /\ pushes \in Seq(Places \union {None}) /\ pushes[Len(pushes)] = hostLocation
    BY <1>1, <2>1 DEF HostKnows, AirTypeOK
  <2>4. pushes' # <<>> => pushes'[Len(pushes')] = hostLocation
    BY <2>1, <2>3
  <2>5. pushes' = <<>> => shell' = hostLocation
    <3>1. Len(pushes') = Len(pushes) - 1 /\ Head(pushes) = pushes[1]
      BY <2>1, <2>3
    <3>2. pushes' = <<>> => Len(pushes) = 1
      BY <2>3, <3>1
    <3> QED
      BY <2>1, <2>3, <3>1, <3>2
  <2>6. HostKnows'
    BY <2>1, <2>4, <2>5 DEF HostKnows
  <2>7. airSettings' \in Settings
    BY <1>1, <2>1 DEF AirTypeOK
  <2>8. /\ airLive' \in Reports /\ cache' \in Reports /\ lastErr' \in BOOLEAN
        /\ wake' \in AirRequests /\ fetching' \in AirRequests /\ result' \in AirResults
        /\ ReportsSound' /\ FreshResult' /\ CurrentIsHere' /\ ShownIsCached'
        /\ IsHere => IsHere'
    BY <2>1, <2>2, <2>7, SourcesChangedKeeps
  <2>9. initial' \in BOOLEAN
    BY <2>1
  <2>10. AirTypeOK'
    BY <1>1, <2>1, <2>2, <2>7, <2>8, <2>9 DEF AirTypeOK
  <2> QED
    BY <2>6, <2>8, <2>10 DEF AirInv, StayHere
<1>5. CASE HostMoves
  <2>1. /\ hostLocation' \in Places \union {None}
        /\ pushes' = IF airUp THEN Append(pushes, hostLocation') ELSE pushes
        /\ UNCHANGED <<airSessionVars, refreshVars, locationVars, airStored, airUp>>
    BY <1>5 DEF HostMoves
  <2>2. pushes' \in Seq(Places \union {None})
    BY <1>1, <2>1 DEF AirTypeOK
  <2>3. AirTypeOK'
    BY <1>1, <2>1, <2>2 DEF AirTypeOK, airSessionVars, refreshVars, locationVars
  <2>4. HostKnows'
    <3>1. CASE airUp
      <4>1. pushes' # <<>> /\ pushes'[Len(pushes')] = hostLocation'
        BY <1>1, <2>1, <3>1 DEF AirTypeOK
      <4> QED
        BY <1>1, <2>1, <3>1, <4>1 DEF HostKnows, airSessionVars, locationVars
    <3>2. CASE ~airUp
      BY <1>1, <2>1, <3>2 DEF HostKnows, Seen, airSessionVars, locationVars
    <3> QED
      BY <3>1, <3>2
  <2>5. ReportsSound' /\ FreshResult' /\ CurrentIsHere' /\ ShownIsCached' /\ StayHere
    BY <1>1, <2>1 DEF ReportsSound, FreshResult, CurrentIsHere, ShownIsCached, StayHere, IsHere,
       Shown, Seen, Here, airSessionVars, refreshVars
  <2> QED
    BY <2>3, <2>4, <2>5 DEF AirInv
<1> QED
  BY <1>2, <1>3, <1>4, <1>5

LEMMA AirInvUser ==
  ASSUME AirAssumption, AirInv, OnTimer \/ OnRefreshButton \/ OnSettings
  PROVE  AirInv' /\ StayHere
<1>1. AirTypeOK /\ ReportsSound /\ FreshResult /\ CurrentIsHere /\ ShownIsCached /\ HostKnows
  BY DEF AirInv
<1>2. CASE OnTimer \/ OnRefreshButton
  <2>1. /\ UNCHANGED <<airSettings, shell, airLive, cache, lastErr, loaded, fetching, result, answer,
                       hostVars, airUp>>
        /\ wake' = wake \/ wake' = RequestOf(airSettings, shell)
        /\ airUp
    BY <1>2 DEF OnTimer, OnRefreshButton, RequestRefresh, NewestWins, airSessionVars, locationVars
  <2>2. \/ query = "none" /\ query' = "asking" /\ current' = TRUE
        \/ UNCHANGED <<query, current>>
    BY <1>2 DEF OnTimer, OnRefreshButton, StartQuery, locationVars
  <2>3. initial' \in BOOLEAN
    BY <1>1, <1>2 DEF OnTimer, OnRefreshButton, AirTypeOK, airSessionVars
  <2>4. wake' \in AirRequests
    BY <1>1, <2>1, RequestShape DEF AirTypeOK
  <2>5. AirTypeOK'
    BY <1>1, <2>1, <2>2, <2>3, <2>4 DEF AirTypeOK, hostVars
  <2>6. CurrentIsHere'
    BY <1>1, <2>1 DEF CurrentIsHere, Here
  <2>7. HostKnows'
    BY <1>1, <2>1, <2>2 DEF HostKnows, hostVars
  <2>8. ReportsSound' /\ FreshResult' /\ ShownIsCached' /\ StayHere
    BY <1>1, <2>1 DEF ReportsSound, FreshResult, ShownIsCached, StayHere, IsHere, Shown, Seen, Here,
       hostVars
  <2> QED
    BY <2>5, <2>6, <2>7, <2>8 DEF AirInv
<1>3. CASE OnSettings
  <2>1. /\ airUp /\ airSettings' \in Settings /\ SourcesChanged
        /\ UNCHANGED <<shell, loaded, locationVars, hostVars, airUp>>
        /\ initial' = (initial \/ ChangesSources)
    BY <1>3 DEF OnSettings
  <2>2. shell' \in Places \union {None} /\ UNCHANGED airStored
    BY <1>1, <2>1 DEF AirTypeOK, hostVars
  <2>3. /\ airLive' \in Reports /\ cache' \in Reports /\ lastErr' \in BOOLEAN
        /\ wake' \in AirRequests /\ fetching' \in AirRequests /\ result' \in AirResults
        /\ ReportsSound' /\ FreshResult' /\ CurrentIsHere' /\ ShownIsCached'
        /\ IsHere => IsHere'
    BY <2>1, <2>2, SourcesChangedKeeps
  <2>4. initial' \in BOOLEAN
    BY <2>1
  <2>5. AirTypeOK'
    BY <1>1, <2>1, <2>2, <2>3, <2>4 DEF AirTypeOK, locationVars, hostVars
  <2>6. HostKnows'
    BY <1>1, <2>1 DEF HostKnows, locationVars, hostVars
  <2> QED
    BY <2>3, <2>5, <2>6 DEF AirInv, StayHere
<1> QED
  BY <1>2, <1>3

LEMMA AirInvTime ==
  ASSUME AirAssumption, AirInv, HourPasses \/ AirExits \/ AirStarts
  PROVE  AirInv' /\ StayHere
<1> USE DEF Seen
<1>1. AirTypeOK /\ ReportsSound /\ FreshResult /\ CurrentIsHere /\ ShownIsCached /\ HostKnows
  BY DEF AirInv
<1>2. CASE HourPasses
  <2>1. /\ airLive' = AgedReport(airLive) /\ cache' = AgedReport(cache)
        /\ airStored' = AgedReport(airStored)
        /\ UNCHANGED <<airSettings, shell, lastErr, initial, loaded, refreshVars, locationVars,
                       hostLocation, pushes, airUp>>
    BY <1>2 DEF HourPasses
  <2>2. /\ airLive' \in Reports /\ Sound(airLive') /\ airLive'.origin = airLive.origin
        /\ Seen(airLive') <=> Seen(airLive)
        /\ GoogleYoungest(airLive')
    BY <1>1, <2>1, AgedSound DEF AirTypeOK, ReportsSound
  <2>3. /\ cache' \in Reports /\ Sound(cache') /\ cache'.origin = cache.origin
        /\ Seen(cache') <=> Seen(cache)
        /\ NoGoogle(cache')
    BY <1>1, <2>1, AgedSound DEF AirTypeOK, ReportsSound
  <2>4. airStored' \in Reports /\ Sound(airStored') /\ NoGoogle(airStored')
    BY <1>1, <2>1, AgedSound DEF AirTypeOK, ReportsSound
  <2>5. AirTypeOK'
    BY <1>1, <2>1, <2>2, <2>3, <2>4 DEF AirTypeOK, refreshVars, locationVars
  <2>6. ReportsSound' /\ FreshResult'
    BY <1>1, <2>1, <2>2, <2>3, <2>4 DEF ReportsSound, FreshResult, refreshVars
  <2>7. CurrentIsHere' /\ HostKnows'
    BY <1>1, <2>1, <2>2 DEF CurrentIsHere, HostKnows, Here, refreshVars, locationVars
  <2>8. Here' = Here
    BY <2>1 DEF Here
  <2>9. ShownIsCached'
    BY <1>1, <2>2, <2>3, <2>8 DEF ShownIsCached
  <2>10. StayHere
    BY <2>2, <2>3, <2>8 DEF StayHere, IsHere, Shown
  <2> QED
    BY <2>5, <2>6, <2>7, <2>9, <2>10 DEF AirInv
<1>3. CASE AirExits
  <2>1. /\ airUp' = FALSE /\ airSettings' = Defaults /\ shell' = None
        /\ airLive' = NoReport /\ cache' = NoReport /\ lastErr' = FALSE
        /\ wake' = NoRequest /\ fetching' = NoRequest /\ result' = NoResult
        /\ query' = "none" /\ answer' = None /\ current' = TRUE
        /\ initial' = FALSE /\ loaded' = FALSE /\ pushes' = <<>>
        /\ UNCHANGED <<hostLocation, airStored>>
    BY <1>3 DEF AirExits
  <2>2. Defaults \in Settings /\ <<>> \in Seq(Places \union {None})
    BY DEF Defaults, Settings
  <2>3. AirTypeOK'
    BY <1>1, <2>1, <2>2, AirNothing DEF AirTypeOK
  <2>4. NoResult.report = NoReport /\ ~NoResult.current /\ ~NoRequest.current
    BY DEF NoResult, NoRequest
  <2>5. ReportsSound' /\ FreshResult' /\ CurrentIsHere'
    BY <1>1, <2>1, <2>4, AirNothing DEF ReportsSound, FreshResult, CurrentIsHere
  <2>6. ShownIsCached' /\ HostKnows' /\ StayHere
    BY <2>1 DEF ShownIsCached, HostKnows, StayHere, IsHere, Shown
  <2> QED
    BY <2>3, <2>5, <2>6 DEF AirInv
<1>4. CASE AirStarts
  <2>1. /\ ~airUp /\ airUp' = TRUE /\ loaded' \in BOOLEAN /\ query' = "asking"
        /\ cache' = IF loaded' THEN Restored(airStored) ELSE NoReport
        /\ UNCHANGED <<airSettings, shell, airLive, lastErr, initial, refreshVars, answer, current,
                       hostVars>>
    BY <1>4 DEF AirStarts
  <2>2. cache' \in Reports /\ Sound(cache') /\ NoGoogle(cache')
    BY <1>1, <2>1, AirNothing, StaleSound DEF AirTypeOK, ReportsSound, Restored
  <2>3. AirTypeOK'
    BY <1>1, <2>1, <2>2 DEF AirTypeOK, refreshVars, hostVars
  <2>4. ReportsSound' /\ FreshResult' /\ CurrentIsHere'
    BY <1>1, <2>1, <2>2 DEF ReportsSound, FreshResult, CurrentIsHere, Here, refreshVars, hostVars
  <2>5. HostKnows' /\ StayHere
    BY <1>1, <2>1 DEF HostKnows, StayHere, refreshVars, hostVars
  <2>6. ShownIsCached'
    BY <1>1, <2>1 DEF HostKnows, ShownIsCached
  <2> QED
    BY <2>3, <2>4, <2>5, <2>6 DEF AirInv
<1> QED
  BY <1>2, <1>3, <1>4

LEMMA AirInvStep == AirAssumption /\ AirInv /\ [AirNext]_airVars => AirInv' /\ StayHere
<1> SUFFICES ASSUME AirAssumption, AirInv, [AirNext]_airVars PROVE AirInv' /\ StayHere
  OBVIOUS
<1>1. CASE StartFetch \/ EndFetch
  BY <1>1, AirInvFetch
<1>2. CASE HandleRefresh
  BY <1>2, AirInvRefresh
<1>3. CASE HostAnswers \/ OnLocationResult \/ OnPush \/ HostMoves
  BY <1>3, AirInvLocation
<1>4. CASE OnTimer \/ OnRefreshButton \/ OnSettings
  BY <1>4, AirInvUser
<1>5. CASE HourPasses \/ AirExits \/ AirStarts
  BY <1>5, AirInvTime
<1>6. CASE UNCHANGED airVars
  BY <1>6 DEF airVars, airSessionVars, refreshVars, locationVars, hostVars, AirInv, AirTypeOK,
     ReportsSound, FreshResult, CurrentIsHere, ShownIsCached, HostKnows, StayHere, IsHere, Shown, Seen,
     Here
<1> QED
  BY <1>1, <1>2, <1>3, <1>4, <1>5, <1>6 DEF AirNext

LEMMA AirInvMeans == AirAssumption /\ AirInv => LocationFollows /\ GoogleNotKept /\ AgeHonest
<1> SUFFICES ASSUME AirAssumption, AirInv PROVE LocationFollows /\ GoogleNotKept /\ AgeHonest
  OBVIOUS
<1>1. LocationFollows
  BY DEF AirInv, HostKnows, LocationFollows
<1>2. GoogleNotKept
  BY DEF AirInv, ReportsSound, NoGoogle, GoogleYoungest, GoogleNotKept, GoogleRows
<1>3. AgeHonest
  BY DEF AirInv, ReportsSound, Sound, AgeHonest, Shown
<1> QED
  BY <1>1, <1>2, <1>3

\* Air quality, for any places, carry limit and events, with answers, pushes, settings,
\* refreshes and restarts in any order: the location follows the host's, Google's rows are
\* not kept, no age is understated, and once this place's reading is shown no other
\* place's replaces it (coordinator.go:51, :380, main.go).
THEOREM AirIsOfThisPlace ==
  ASSUME AirAssumption
  PROVE  AirSpec => ReportsAreTrue
<1>1. AirInit => AirInv
  BY AirInvInit
<1>2. AirInv /\ [AirNext]_airVars => AirInv' /\ StayHere
  BY AirInvStep
<1>3. AirInv => LocationFollows /\ GoogleNotKept /\ AgeHonest
  BY AirInvMeans
<1> QED
  BY <1>1, <1>2, <1>3, PTL DEF AirSpec, ReportsAreTrue

-----------------------------------------------------------------------------
(* Games.                                                                  *)

GamePhases == {"idle", "launching", "running", "failed"}
SessionLogs == {"never", "open", "closed"}
GameResults == [stage : {"list", "scan"}, games : SUBSET Games, err : BOOLEAN, done : BOOLEAN,
                latest : BOOLEAN, current : BOOLEAN]

GamesTypeOK ==
  /\ listed \in SUBSET Games /\ gamesRunning \in SUBSET Games /\ pruned \in BOOLEAN
  /\ phases \in [Games -> GamePhases]
  /\ log \in [Games -> SessionLogs] /\ gamesStored \in [Games -> SessionLogs]
  /\ refresh \in [shown : BOOLEAN, queued : BOOLEAN]
  /\ worker \in Jobs \union {None}
  /\ results \in Seq(GameResults)
  /\ watch \in [armed : BOOLEAN, open : BOOLEAN, missing : BOOLEAN]

\* Before the first scan no game counts as running, though the host may have kept an open
\* session of each; after it the two agree.
SessionsFit ==
  /\ \A g \in Games : phases[g] = "running" => pruned /\ log[g] = "open"
  /\ pruned => \A g \in Games : log[g] = "open" => phases[g] = "running"
  /\ gamesRunning # {} => watch.armed

GamesInv == GamesTypeOK /\ RefreshIsServed /\ SessionsFit

LEMMA GamesInvInit == GamesInit => GamesInv
<1> SUFFICES ASSUME GamesInit PROVE GamesInv
  OBVIOUS
<1>1. <<>> \in Seq(GameResults)
  OBVIOUS
<1>2. GamesTypeOK
  BY <1>1 DEF GamesInit, GamesTypeOK, GamePhases, SessionLogs
<1>3. RefreshIsServed /\ SessionsFit
  BY DEF GamesInit, RefreshIsServed, SessionsFit
<1> QED
  BY <1>2, <1>3 DEF GamesInv

\* A sequence whose members are each changed in the same way.
LEMMA SupersededShape ==
  ASSUME results \in Seq(GameResults)
  PROVE  Superseded(results) \in Seq(GameResults)
<1>1. Superseded(results) = [i \in 1..Len(results) |-> [results[i] EXCEPT !.latest = FALSE]]
  BY DEF Superseded
<1>2. \A i \in 1..Len(results) : [results[i] EXCEPT !.latest = FALSE] \in GameResults
  <2>1. \A i \in 1..Len(results) : results[i] \in GameResults
    OBVIOUS
  <2> QED
    BY <2>1 DEF GameResults
<1> QED
  BY <1>1, <1>2

\* requestRefresh leaves a job in the queue, which is what the progress row stands for.
LEMMA RequestKeeps ==
  ASSUME GamesInv, NEW progress \in BOOLEAN, RequestGames(progress)
  PROVE  /\ refresh' \in [shown : BOOLEAN, queued : BOOLEAN]
         /\ worker' \in Jobs \union {None} /\ results' \in Seq(GameResults)
         /\ RefreshIsServed'
<1>1. refresh' = [shown |-> refresh.shown \/ progress, queued |-> TRUE]
  BY DEF RequestGames
<1>2. refresh' \in [shown : BOOLEAN, queued : BOOLEAN] /\ refresh'.queued
  BY <1>1 DEF GamesInv, GamesTypeOK
<1>3. results' \in Seq(GameResults)
  BY SupersededShape DEF RequestGames, GamesInv, GamesTypeOK
<1>4. worker' \in Jobs \union {None}
  <2>1. CASE worker = None
    BY <2>1 DEF RequestGames
  <2>2. CASE worker # None
    <3>1. worker \in Jobs
      BY <2>2 DEF GamesInv, GamesTypeOK
    <3>2. [worker EXCEPT !.latest = FALSE] \in Jobs
      BY <3>1 DEF Jobs
    <3> QED
      BY <2>2, <3>2 DEF RequestGames
  <2> QED
    BY <2>1, <2>2
<1> QED
  BY <1>2, <1>3, <1>4 DEF RefreshIsServed

\* The worker: a job that is taken, listed or scanned hands its duty on.
LEMMA WorkerKeeps == ASSUME GamesAssumption, GamesInv, WorkerSteps PROVE GamesInv'
<1>1. GamesTypeOK /\ RefreshIsServed /\ SessionsFit /\ None \notin Jobs
  BY DEF GamesInv, GamesAssumption
<1>2. CASE TakeJob
  <2>1. /\ worker = None /\ refresh.queued /\ worker' = Job
        /\ refresh' = [refresh EXCEPT !.queued = FALSE]
        /\ UNCHANGED <<listed, gamesRunning, phases, log, gamesStored, pruned, results, watch>>
    BY <1>2 DEF TakeJob
  <2>2. Job \in Jobs /\ Job.latest /\ Job.current
    BY DEF Job, Jobs
  <2>3. GamesTypeOK'
    BY <1>1, <2>1, <2>2 DEF GamesTypeOK
  <2>4. RefreshIsServed'
    BY <1>1, <2>1, <2>2 DEF RefreshIsServed
  <2>5. SessionsFit'
    BY <1>1, <2>1 DEF SessionsFit
  <2> QED
    BY <2>3, <2>4, <2>5 DEF GamesInv
<1>3. ASSUME worker # None,
             NEW told \in GameResults, results' = Append(results, told),
             told.latest = worker.latest, told.current = worker.current,
             \/ worker' = None /\ told.done
             \/ /\ worker' \in Jobs /\ worker'.latest = worker.latest
                /\ worker'.current = worker.current,
             UNCHANGED <<listed, gamesRunning, phases, log, gamesStored, pruned, refresh, watch>>
      PROVE  GamesInv'
  <2>1. GamesTypeOK'
    BY <1>1, <1>3 DEF GamesTypeOK
  <2>2. /\ results'[Len(results) + 1] = told /\ Len(results) + 1 \in DOMAIN results'
        /\ \A i \in DOMAIN results : i \in DOMAIN results' /\ results'[i] = results[i]
    BY <1>1, <1>3 DEF GamesTypeOK
  <2>3. RefreshIsServed'
    <3> SUFFICES ASSUME refresh.shown, ~refresh.queued PROVE RefreshIsServed'
      BY <1>3 DEF RefreshIsServed
    <3>1. CASE worker.latest /\ worker.current
      BY <1>1, <1>3, <2>2, <3>1 DEF RefreshIsServed
    <3>2. CASE \E i \in DOMAIN results : results[i].latest /\ results[i].current /\ results[i].done
      BY <2>2, <3>2 DEF RefreshIsServed
    <3> QED
      BY <1>1, <3>1, <3>2 DEF RefreshIsServed
  <2>4. SessionsFit'
    BY <1>1, <1>3 DEF SessionsFit
  <2> QED
    BY <2>1, <2>3, <2>4 DEF GamesInv
<1>4. CASE ListGames
  <2>1. PICK failed \in {{}, Games} \cup {{g} : g \in Games} :
          LET err == failed = Games IN
          /\ results' = Append(results, Result("list", Games \ failed, err, err))
          /\ worker' = IF err THEN None
                       ELSE [worker EXCEPT !.stage = "scan", !.games = Games \ failed]
    BY <1>4 DEF ListGames
  <2>2. worker \in Jobs
    BY <1>1, <1>4 DEF ListGames, GamesTypeOK
  <2> DEFINE listing == Result("list", Games \ failed, failed = Games, failed = Games)
             onward == [worker EXCEPT !.stage = "scan", !.games = Games \ failed]
  <2>3. /\ listing \in GameResults /\ listing.latest = worker.latest
        /\ listing.current = worker.current /\ (failed = Games => listing.done)
    BY <2>2 DEF Result, GameResults, Jobs
  <2>4. onward \in Jobs /\ onward.latest = worker.latest /\ onward.current = worker.current
    BY <2>2 DEF Jobs
  <2>5. results' = Append(results, listing) /\ worker' = IF failed = Games THEN None ELSE onward
    BY <2>1
  <2>6. /\ worker # None
        /\ UNCHANGED <<listed, gamesRunning, phases, log, gamesStored, pruned, refresh, watch>>
    BY <1>4 DEF ListGames
  <2> HIDE DEF listing, onward
  <2> QED
    BY <1>3, <2>3, <2>4, <2>5, <2>6
<1>5. CASE ScanGames
  <2>1. PICK failed \in SUBSET worker.games :
          results' = Append(results, Result("scan", (alive \cap worker.games) \ failed,
                                            failed = worker.games /\ failed # {}, TRUE))
    BY <1>5 DEF ScanGames
  <2>2. worker \in Jobs
    BY <1>1, <1>5 DEF ScanGames, GamesTypeOK
  <2> DEFINE seen == Result("scan", (alive \cap worker.games) \ failed,
                            failed = worker.games /\ failed # {}, TRUE)
  <2>3. seen \in GameResults /\ seen.latest = worker.latest /\ seen.current = worker.current /\ seen.done
    BY <2>2 DEF Result, GameResults, Jobs
  <2>4. results' = Append(results, seen)
    BY <2>1
  <2>5. /\ worker # None /\ worker' = None
        /\ UNCHANGED <<listed, gamesRunning, phases, log, gamesStored, pruned, refresh, watch>>
    BY <1>5 DEF ScanGames
  <2> HIDE DEF seen
  <2> QED
    BY <1>3, <2>3, <2>4, <2>5
<1> QED
  BY <1>2, <1>4, <1>5 DEF WorkerSteps

\* A scan: a game that is seen runs and its session is open; of one that is not seen neither
\* holds, because the first scan closes what the host had kept open.
LEMMA ScanFits ==
  ASSUME GamesInv, NEW set \in SUBSET Games, GamesScan(set)
  PROVE  /\ phases' \in [Games -> GamePhases]
         /\ log' \in [Games -> SessionLogs] /\ gamesStored' \in [Games -> SessionLogs]
         /\ gamesRunning' \in SUBSET Games /\ pruned' = TRUE
         /\ watch' \in [armed : BOOLEAN, open : BOOLEAN, missing : BOOLEAN]
         /\ SessionsFit'
<1>1. GamesTypeOK /\ SessionsFit
  BY DEF GamesInv
<1>2. PICK slow \in SUBSET {g \in Games : phases[g] = "launching"} :
        LET seen == Observed(set, slow)
            sessions == EndDangling([g \in Games |-> seen[g].log], set)
        IN /\ phases' = [g \in Games |-> seen[g].phase]
           /\ log' = sessions /\ Saves(sessions)
           /\ gamesRunning' = set /\ pruned' = TRUE
           /\ watch' = [watch EXCEPT !.armed = DesiredPoll(phases', set, watch.open)]
  BY DEF GamesScan
<1> DEFINE seen == Observed(set, slow)
           sessions == EndDangling([g \in Games |-> seen[g].log], set)
<1>3. ASSUME NEW g \in Games
      PROVE  /\ g \in set => /\ seen[g].phase = "running"
                             /\ seen[g].log = IF phases[g] = "running" THEN log[g] ELSE "open"
             /\ g \notin set /\ phases[g] = "running" =>
                  seen[g].phase = "idle" /\ seen[g].log = "closed"
             /\ g \notin set /\ phases[g] # "running" =>
                  seen[g].phase \in {"failed", phases[g]} /\ seen[g].log = log[g]
  <2> DEFINE become(ph, lg) == [phase |-> ph, log |-> lg]
  <2>1. seen[g] = CASE g \in set /\ phases[g] # "running" -> become("running", "open")
                    [] g \notin set /\ phases[g] = "running" -> become("idle", "closed")
                    [] g \notin set /\ phases[g] = "launching" /\ g \in slow -> become("failed", log[g])
                    [] OTHER -> become(phases[g], log[g])
    BY DEF Observed
  <2>2. \A ph, lg : become(ph, lg).phase = ph /\ become(ph, lg).log = lg
    OBVIOUS
  <2> HIDE DEF become, seen
  <2>3. CASE g \in set
    BY <2>1, <2>2, <2>3
  <2>4. CASE g \notin set /\ phases[g] = "running"
    BY <2>1, <2>2, <2>4
  <2>5. CASE g \notin set /\ phases[g] # "running"
    BY <2>1, <2>2, <2>5
  <2> QED
    BY <2>3, <2>4, <2>5
<1> HIDE DEF seen
<1>4. \A g \in Games : phases[g] \in GamePhases /\ log[g] \in SessionLogs
  BY <1>1 DEF GamesTypeOK
<1>5. \A g \in Games :
        /\ seen[g].phase \in GamePhases /\ seen[g].log \in SessionLogs
        /\ seen[g].phase = "running" <=> g \in set
        /\ g \in set => seen[g].log = "open"
        /\ g \notin set /\ pruned => seen[g].log # "open"
  <2> SUFFICES ASSUME NEW g \in Games
               PROVE  /\ seen[g].phase \in GamePhases /\ seen[g].log \in SessionLogs
                      /\ seen[g].phase = "running" <=> g \in set
                      /\ g \in set => seen[g].log = "open"
                      /\ g \notin set /\ pruned => seen[g].log # "open"
    OBVIOUS
  <2>1. /\ phases[g] = "running" => log[g] = "open"
        /\ pruned /\ log[g] = "open" => phases[g] = "running"
    BY <1>1 DEF SessionsFit
  <2>2. CASE g \in set
    <3>1. seen[g].phase = "running" /\ seen[g].log = "open"
      BY <1>3, <2>1, <2>2
    <3> QED
      BY <2>2, <3>1 DEF GamePhases, SessionLogs
  <2>3. CASE g \notin set
    <3>1. CASE phases[g] = "running"
      <4>1. seen[g].phase = "idle" /\ seen[g].log = "closed"
        BY <1>3, <2>3, <3>1
      <4> QED
        BY <2>3, <4>1 DEF GamePhases, SessionLogs
    <3>2. CASE phases[g] # "running"
      <4>1. seen[g].phase \in {"failed", phases[g]} /\ seen[g].log = log[g]
        BY <1>3, <2>3, <3>2
      <4> QED
        BY <1>4, <2>1, <2>3, <3>2, <4>1 DEF GamePhases
    <3> QED
      BY <3>1, <3>2
  <2> QED
    BY <2>2, <2>3
<1>6. phases' = [g \in Games |-> seen[g].phase] /\ log' = sessions /\ Saves(sessions)
  BY <1>2 DEF seen
<1>7. gamesRunning' = set /\ pruned' = TRUE
      /\ watch' = [watch EXCEPT !.armed = DesiredPoll(phases', set, watch.open)]
  BY <1>2
<1>8. \A g \in Games :
        sessions[g] = IF ~pruned /\ seen[g].log = "open" /\ g \notin set THEN "closed" ELSE seen[g].log
  BY DEF EndDangling
<1>9. sessions \in [Games -> SessionLogs]
  BY <1>5, <1>8 DEF EndDangling, SessionLogs
<1> HIDE DEF sessions
<1>10. gamesStored' \in [Games -> SessionLogs]
  BY <1>1, <1>6, <1>9 DEF Saves, GamesTypeOK
<1>11. phases' \in [Games -> GamePhases]
  BY <1>5, <1>6
<1>12. /\ DesiredPoll(phases', set, watch.open) \in BOOLEAN
       /\ set # {} => DesiredPoll(phases', set, watch.open)
  BY <1>1 DEF DesiredPoll, GamesTypeOK
<1>13. watch' \in [armed : BOOLEAN, open : BOOLEAN, missing : BOOLEAN] /\ (set # {} => watch'.armed)
  BY <1>1, <1>7, <1>12 DEF GamesTypeOK
<1>14. \A g \in Games : phases'[g] = "running" <=> g \in set
  BY <1>5, <1>6
<1>15. \A g \in Games : log'[g] = "open" <=> g \in set
  BY <1>5, <1>6, <1>8 DEF SessionLogs
<1>16. SessionsFit'
  BY <1>7, <1>13, <1>14, <1>15 DEF SessionsFit
<1> QED
  BY <1>6, <1>7, <1>9, <1>10, <1>11, <1>13, <1>16

\* A result that is applied: of an old generation it changes nothing, and the one that
\* ends the progress row is the one it stood for.
LEMMA ApplyKeeps == ASSUME GamesInv, ApplyRefresh PROVE GamesInv'
<1>1. GamesTypeOK /\ RefreshIsServed /\ SessionsFit
  BY DEF GamesInv
<1> DEFINE r == Head(results)
<1>2. results # <<>> /\ results' = Tail(results) /\ UNCHANGED worker
  BY DEF ApplyRefresh
<1>3. r \in GameResults /\ r = results[1] /\ results' \in Seq(GameResults)
  BY <1>1, <1>2 DEF GamesTypeOK
<1>4. \A i \in DOMAIN results : i # 1 => i - 1 \in DOMAIN results' /\ results'[i - 1] = results[i]
  BY <1>1, <1>2 DEF GamesTypeOK
<1>5. \/ /\ ~r.current
         /\ UNCHANGED <<listed, gamesRunning, phases, log, gamesStored, pruned, watch, refresh>>
      \/ /\ r.current /\ refresh' = [refresh EXCEPT !.shown = @ /\ ~(r.done /\ r.latest)]
         /\ \/ GamesScan(r.games) /\ UNCHANGED listed
            \/ /\ UNCHANGED <<gamesRunning, phases, log, gamesStored, pruned>>
               /\ listed' = IF r.stage = "list" /\ ~r.err THEN r.games ELSE listed
               /\ watch' = IF r.stage # "list" THEN watch
                           ELSE [watch EXCEPT !.missing = r.err /\ (@ \/ listed = {})]
  BY DEF ApplyRefresh
<1> HIDE DEF r
<1>6. r.games \in SUBSET Games /\ r.err \in BOOLEAN /\ r.done \in BOOLEAN /\ r.latest \in BOOLEAN
  BY <1>3 DEF GameResults
<1>7. refresh' \in [shown : BOOLEAN, queued : BOOLEAN]
  BY <1>1, <1>5, <1>6 DEF GamesTypeOK
<1>8. RefreshIsServed'
  <2> SUFFICES ASSUME refresh'.shown, ~refresh'.queued PROVE RefreshIsServed'
    BY DEF RefreshIsServed
  <2>1. refresh.shown /\ ~refresh.queued /\ ~(r.current /\ r.done /\ r.latest)
    BY <1>1, <1>5, <1>6 DEF GamesTypeOK
  <2>2. CASE worker # None /\ worker.latest /\ worker.current
    BY <1>2, <2>2 DEF RefreshIsServed
  <2>3. CASE \E i \in DOMAIN results : results[i].latest /\ results[i].current /\ results[i].done
    <3>1. PICK i \in DOMAIN results : results[i].latest /\ results[i].current /\ results[i].done
      BY <2>3
    <3>2. i # 1
      BY <1>3, <2>1, <3>1
    <3> QED
      BY <1>4, <3>1, <3>2 DEF RefreshIsServed
  <2> QED
    BY <1>1, <2>1, <2>2, <2>3 DEF RefreshIsServed
<1>9. CASE GamesScan(r.games) /\ UNCHANGED listed
  <2>1. /\ phases' \in [Games -> GamePhases]
        /\ log' \in [Games -> SessionLogs] /\ gamesStored' \in [Games -> SessionLogs]
        /\ gamesRunning' \in SUBSET Games /\ pruned' = TRUE
        /\ watch' \in [armed : BOOLEAN, open : BOOLEAN, missing : BOOLEAN]
        /\ SessionsFit'
    BY <1>6, <1>9, ScanFits
  <2>2. GamesTypeOK'
    BY <1>1, <1>2, <1>3, <1>7, <1>9, <2>1 DEF GamesTypeOK
  <2> QED
    BY <1>8, <2>1, <2>2 DEF GamesInv
<1>10. CASE ~(GamesScan(r.games) /\ UNCHANGED listed)
  <2>1. UNCHANGED <<gamesRunning, phases, log, gamesStored, pruned>> /\ listed' \in SUBSET Games
    BY <1>1, <1>5, <1>6, <1>10 DEF GamesTypeOK
  <2>2. watch' \in [armed : BOOLEAN, open : BOOLEAN, missing : BOOLEAN] /\ watch'.armed = watch.armed
    BY <1>1, <1>5, <1>6, <1>10 DEF GamesTypeOK
  <2>3. GamesTypeOK'
    BY <1>1, <1>2, <1>3, <1>7, <2>1, <2>2 DEF GamesTypeOK
  <2>4. SessionsFit'
    BY <1>1, <2>1, <2>2 DEF SessionsFit
  <2> QED
    BY <1>8, <2>3, <2>4 DEF GamesInv
<1> QED
  BY <1>9, <1>10

\* The poll, the user and the games themselves.
LEMMA ActsKeep ==
  ASSUME GamesAssumption, GamesInv, GamesTick \/ UserActs \/ GameChanges \/ GamesRestart
  PROVE  GamesInv'
<1>1. GamesTypeOK /\ RefreshIsServed /\ SessionsFit
  BY DEF GamesInv
<1>2. CASE GamesTick \/ OpenPanel
  <2>1. PICK progress \in BOOLEAN : RequestGames(progress)
    BY <1>2 DEF GamesTick, OpenPanel
  <2>2. UNCHANGED <<listed, gamesRunning, phases, log, gamesStored, pruned>>
    BY <1>2 DEF GamesTick, OpenPanel
  <2>3. /\ watch' \in [armed : BOOLEAN, open : BOOLEAN, missing : BOOLEAN]
        /\ watch.armed => watch'.armed
    BY <1>1, <1>2 DEF GamesTick, OpenPanel, GamesTypeOK
  <2>4. GamesTypeOK' /\ RefreshIsServed'
    BY <1>1, <2>1, <2>2, <2>3, RequestKeeps DEF GamesTypeOK
  <2>5. SessionsFit'
    BY <1>1, <2>2, <2>3 DEF SessionsFit
  <2> QED
    BY <2>4, <2>5 DEF GamesInv
<1>3. CASE ClosePanel \/ GameChanges \/ \E g \in Games : Stop(g)
  <2>1. UNCHANGED <<listed, gamesRunning, phases, log, gamesStored, pruned, refresh, worker, results>>
    BY <1>3 DEF ClosePanel, GameChanges, Stop
  <2>2. /\ watch' \in [armed : BOOLEAN, open : BOOLEAN, missing : BOOLEAN]
        /\ watch'.armed = watch.armed
    BY <1>1, <1>3 DEF ClosePanel, GameChanges, Stop, GamesTypeOK
  <2> QED
    BY <1>1, <2>1, <2>2 DEF GamesInv, GamesTypeOK, RefreshIsServed, SessionsFit
<1>4. ASSUME NEW g \in Games, Launch(g) PROVE GamesInv'
  <2>1. /\ phases[g] \in {"idle", "failed"} /\ phases' = [phases EXCEPT ![g] = "launching"]
        /\ watch' = [watch EXCEPT !.armed = TRUE]
        /\ UNCHANGED <<listed, gamesRunning, log, gamesStored, pruned, refresh, worker, results>>
    BY <1>4 DEF Launch
  <2>2. GamesTypeOK'
    BY <1>1, <2>1 DEF GamesTypeOK, GamePhases
  <2>3. RefreshIsServed'
    BY <1>1, <2>1 DEF RefreshIsServed
  <2>4. watch'.armed
    BY <1>1, <2>1 DEF GamesTypeOK
  <2>5. SessionsFit'
    BY <1>1, <2>1, <2>4 DEF SessionsFit, GamesTypeOK
  <2> QED
    BY <2>2, <2>3, <2>5 DEF GamesInv
<1>5. CASE SettingsChange
  <2>1. /\ refresh' = [shown |-> TRUE, queued |-> TRUE]
        /\ worker' = IF worker = None THEN None
                     ELSE [worker EXCEPT !.latest = FALSE, !.current = FALSE]
        /\ results' = [i \in DOMAIN results |-> [results[i] EXCEPT !.latest = FALSE, !.current = FALSE]]
        /\ watch' = [watch EXCEPT !.armed = DesiredPoll(phases, gamesRunning, watch.open),
                                  !.missing = FALSE]
        /\ UNCHANGED <<listed, gamesRunning, phases, log, gamesStored, pruned>>
    BY <1>5 DEF SettingsChange
  <2>2. worker' \in Jobs \union {None}
    <3>1. worker # None => [worker EXCEPT !.latest = FALSE, !.current = FALSE] \in Jobs
      BY <1>1 DEF GamesTypeOK, Jobs
    <3> QED
      BY <2>1, <3>1
  <2>3. results' \in Seq(GameResults)
    <3>1. \A i \in 1..Len(results) : results[i] \in GameResults
      BY <1>1 DEF GamesTypeOK
    <3>2. \A i \in 1..Len(results) :
            [results[i] EXCEPT !.latest = FALSE, !.current = FALSE] \in GameResults
      BY <3>1 DEF GameResults
    <3>3. DOMAIN results = 1..Len(results) /\ Len(results) \in Nat
      BY <1>1 DEF GamesTypeOK
    <3> DEFINE void(i) == [results[i] EXCEPT !.latest = FALSE, !.current = FALSE]
    <3>4. results' = [i \in 1..Len(results) |-> void(i)]
      BY <2>1, <3>3
    <3>5. \A i \in 1..Len(results) : void(i) \in GameResults
      BY <3>2
    <3> HIDE DEF void
    <3> QED
      BY <3>3, <3>4, <3>5
  <2>4. /\ watch' \in [armed : BOOLEAN, open : BOOLEAN, missing : BOOLEAN]
        /\ gamesRunning # {} => watch'.armed
    BY <1>1, <2>1 DEF GamesTypeOK, DesiredPoll
  <2>5. GamesTypeOK'
    BY <1>1, <2>1, <2>2, <2>3, <2>4 DEF GamesTypeOK
  <2>6. RefreshIsServed' /\ SessionsFit'
    BY <1>1, <2>1, <2>4 DEF RefreshIsServed, SessionsFit
  <2> QED
    BY <2>5, <2>6 DEF GamesInv
<1>6. CASE GamesRestart
  <2>1. /\ log' = gamesStored /\ pruned' = FALSE
        /\ listed' = {} /\ gamesRunning' = {} /\ phases' = [g \in Games |-> "idle"]
        /\ refresh' = [shown |-> FALSE, queued |-> TRUE] /\ worker' = None /\ results' = <<>>
        /\ watch' = [armed |-> TRUE, open |-> FALSE, missing |-> FALSE]
        /\ UNCHANGED gamesStored
    BY <1>6 DEF GamesRestart
  <2>2. <<>> \in Seq(GameResults)
    OBVIOUS
  <2>3. GamesTypeOK'
    BY <1>1, <2>1, <2>2 DEF GamesTypeOK, GamePhases
  <2>4. RefreshIsServed' /\ SessionsFit'
    BY <2>1 DEF RefreshIsServed, SessionsFit
  <2> QED
    BY <2>3, <2>4 DEF GamesInv
<1> QED
  BY <1>2, <1>3, <1>4, <1>5, <1>6 DEF UserActs

\* Games, for any games, clicks, failures and restarts: the progress row stands for a
\* request that is still served, and once the first scan is in a session is open exactly
\* while its game counts as running, and then the poll looks for its end (main.go:384,
\* :462, journal.go).
THEOREM OpenSessionsAreWatched ==
  ASSUME GamesAssumption
  PROVE  GamesSpec => []SessionsAreWatched
<1>1. GamesInit => GamesInv
  BY GamesInvInit
<1>2. GamesInv /\ [GamesNext]_gamesVars => GamesInv'
  <2> SUFFICES ASSUME GamesInv, [GamesNext]_gamesVars PROVE GamesInv'
    OBVIOUS
  <2>1. CASE WorkerSteps
    BY <2>1, WorkerKeeps
  <2>2. CASE ApplyRefresh
    BY <2>2, ApplyKeeps
  <2>3. CASE GamesTick \/ UserActs \/ GameChanges \/ GamesRestart
    BY <2>3, ActsKeep
  <2>4. CASE UNCHANGED gamesVars
    BY <2>4 DEF gamesVars, GamesInv, GamesTypeOK, RefreshIsServed, SessionsFit
  <2> QED
    BY <2>1, <2>2, <2>3, <2>4 DEF GamesNext
<1>3. GamesInv => SessionsAreWatched
  BY DEF GamesInv, SessionsFit, SessionsAreWatched, OpenSessionIsWatched
<1> QED
  BY <1>1, <1>2, <1>3, PTL DEF GamesSpec

=============================================================================
