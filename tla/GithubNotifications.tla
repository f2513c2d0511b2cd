------------------------- MODULE GithubNotifications -------------------------
(* The unread inbox of plugins/github-notifications: the Session (pages of     *)
(* unread threads, optimistic reads with their rollback), the Coordinator that *)
(* runs one job at a time beside the event loop, and the loop itself           *)
(* (cmd/sysc-plugin-github-notifications).  GitHub is a sequence of unread     *)
(* threads, newest first, read a page at a time.  The work and activity feeds, *)
(* which a refresh loads after the inbox and which share no state with it, the *)
(* unread toast and the views are left out.                                    *)
EXTENDS Naturals, SequencesExt

CONSTANTS Threads,   \* thread ids
          PageSizes, \* the per_page settings
          GithubMax  \* bound: what the user, the timer and other clients do

VARIABLES
  server,      \* GitHub: the unread threads
  inbox,       \* the Session
  perPage,
  coord,       \* the Coordinator: queue, refreshRunning, refreshPending, wake, and its loop
  job,         \* what the loop is at
  completed,   \* completions the event loop has not run yet
  loop,        \* the event loop: refreshing, cacheLoaded, pendingRefresh
  shown,       \* the threads of the last published panel
  cached,      \* the cache in the host's store
  events,      \* history: events so far
  moved,       \* history: pages have shifted, or changed size, since page one was read
  unserved     \* history: a refresh asked for has not begun yet

githubVars == <<server, inbox, perPage, coord, job, completed, loop, shown, cached>>
historyVars == <<events, moved, unserved>>
allGithubVars == <<githubVars, historyVars>>

NoInbox == [items |-> <<>>, page |-> 0, more |-> FALSE, needs |-> FALSE,
            loading |-> FALSE, stale |-> FALSE]
NoCache == NoInbox
IdleCoord == [queue |-> <<>>, running |-> FALSE, pending |-> FALSE, wake |-> FALSE, awake |-> FALSE]
Job(op, thread) == [op |-> op, thread |-> thread, at |-> "start", size |-> 0, before |-> NoInbox]
NoThread == 0
NoJob == Job("none", NoThread)

Page(n, size) == SubSeq(server, (n - 1) * size + 1, Min({n * size, Len(server)}))

-----------------------------------------------------------------------------
(* Session.                                                                *)

\* Refresh, and the first half of LoadMoreInbox after a read: page one anew.
FirstPage(size) ==
  [inbox EXCEPT !.items = Page(1, size), !.page = 1, !.more = Len(Page(1, size)) = size,
                !.needs = FALSE, !.stale = FALSE]

\* appendUniqueItems.
AppendNew(items, more) == items \o SelectSeq(more, LAMBDA t : t \notin ToSet(items))
NextPage(page, size) ==
  [inbox EXCEPT !.items = AppendNew(@, Page(page, size)), !.page = page,
                !.more = Len(Page(page, size)) = size, !.loading = FALSE, !.stale = FALSE]

LoadFailed == [inbox EXCEPT !.loading = FALSE, !.stale = inbox.items # <<>>]

\* As BeginMarkRead, but the pages that were read stay as they are.
KeepsPages(i) == [i EXCEPT !.items = Remove(@, job.thread), !.loading = FALSE]

BeginMarkRead(i) == [i EXCEPT !.items = Remove(@, job.thread), !.needs = TRUE, !.loading = FALSE]
BeginMarkAll(i) == [i EXCEPT !.items = <<>>, !.more = FALSE, !.needs = TRUE, !.loading = FALSE]

\* The rollback of a read puts the thread back where it was.
IndexOf(t, items) == CHOOSE n \in DOMAIN items : items[n] = t
RestoreRead ==
  [inbox EXCEPT !.items = InsertAt(@, IndexOf(job.thread, job.before.items), job.thread),
                !.page = job.before.page, !.more = job.before.more,
                !.needs = job.before.needs, !.stale = job.before.stale]

-----------------------------------------------------------------------------
(* Coordinator.                                                            *)

Submit(c, j) == [c EXCEPT !.queue = Append(@, j), !.wake = TRUE]

\* As RequestRefresh, but a request that comes while one runs is dropped.
ForgetsRequest(c) == IF c.running THEN c ELSE [Submit(c, Job("refresh", NoThread)) EXCEPT !.running = TRUE]

RequestRefresh(c) ==
  IF c.running THEN [c EXCEPT !.pending = TRUE]
  ELSE [Submit(c, Job("refresh", NoThread)) EXCEPT !.running = TRUE]

FinishRefresh(c) ==
  IF c.pending THEN [Submit(c, Job("refresh", NoThread)) EXCEPT !.pending = FALSE]
  ELSE [c EXCEPT !.running = FALSE]

Wake ==
  /\ ~coord.awake /\ coord.wake
  /\ coord' = [coord EXCEPT !.awake = TRUE, !.wake = FALSE]
  /\ UNCHANGED <<server, inbox, perPage, job, completed, loop, shown, cached, historyVars>>

Pop ==
  /\ coord.awake /\ job = NoJob
  /\ IF coord.queue = <<>>
     THEN coord' = [coord EXCEPT !.awake = FALSE] /\ UNCHANGED <<job, unserved>>
     ELSE /\ coord' = [coord EXCEPT !.queue = Tail(@)]
          /\ job' = Head(coord.queue)
          /\ unserved' = (unserved /\ Head(coord.queue).op # "refresh")
  /\ UNCHANGED <<server, inbox, perPage, completed, loop, shown, cached, events, moved>>

\* A job is over: the follow-up of a refresh is queued, the completion is passed on.
JobEnds ==
  /\ job' = NoJob
  /\ coord' = IF job.op = "refresh" THEN FinishRefresh(coord) ELSE coord
  /\ completed' = Append(completed, job.op)

-----------------------------------------------------------------------------
(* The jobs, each as far as its next call of gh.                           *)

Calls(i) ==
  /\ inbox' = i
  /\ job' = [job EXCEPT !.at = "call", !.size = perPage, !.before = inbox]
  /\ UNCHANGED <<coord, completed>>

MayMark == IF job.op = "read" THEN job.thread \in ToSet(inbox.items) ELSE inbox.items # <<>>
FirstShown == "progress"

StartJob ==
  /\ job.at = "start" /\ job # NoJob
  /\ CASE job.op = "refresh" -> Calls([inbox EXCEPT !.loading = TRUE])
       [] job.op = "more" ->
            IF ~inbox.loading /\ (inbox.more \/ inbox.needs) THEN Calls([inbox EXCEPT !.loading = TRUE])
            ELSE JobEnds /\ UNCHANGED inbox
       [] OTHER ->
            IF MayMark
            THEN /\ inbox' = IF job.op = "read" THEN BeginMarkRead(inbox) ELSE BeginMarkAll(inbox)
                 /\ job' = [job EXCEPT !.at = FirstShown, !.before = inbox]
                 /\ UNCHANGED <<coord, completed>>
            ELSE JobEnds /\ UNCHANGED inbox
  /\ UNCHANGED <<server, perPage, loop, shown, cached, historyVars>>

\* A page comes, or an error.
Loaded ==
  /\ job.at = "call" /\ job.op \in {"refresh", "more"}
  /\ \/ /\ job.op = "refresh"
        /\ inbox' = [FirstPage(job.size) EXCEPT !.loading = FALSE]
        /\ moved' = (job.size # perPage)
        /\ JobEnds
     \/ /\ job.op = "more" /\ job.before.needs
        /\ LET first == FirstPage(job.size)
           IN IF first.more
              THEN /\ inbox' = first
                   /\ job' = [job EXCEPT !.before.needs = FALSE, !.before.page = 1]
                   /\ UNCHANGED <<coord, completed>>
              ELSE inbox' = [first EXCEPT !.loading = FALSE] /\ JobEnds
        /\ moved' = (job.size # perPage)
     \/ /\ job.op = "more" /\ ~job.before.needs
        /\ inbox' = NextPage(job.before.page + 1, job.size)
        /\ JobEnds
        /\ UNCHANGED moved
     \/ /\ inbox' = LoadFailed
        /\ JobEnds
        /\ UNCHANGED moved
  /\ UNCHANGED <<server, perPage, loop, shown, cached, events, unserved>>

\* The PATCH succeeds, fails, or fails after GitHub has applied it.
Marked ==
  /\ job.at = "call" /\ job.op \in {"read", "all"}
  /\ \E ok, applied \in BOOLEAN :
       /\ ok => applied
       /\ server' = IF ~applied THEN server
                    ELSE IF job.op = "read" THEN Remove(server, job.thread) ELSE <<>>
       /\ inbox' = IF ok THEN inbox
                   ELSE IF job.op = "read" THEN RestoreRead ELSE job.before
       /\ moved' = (moved \/ (applied /\ ~ok))
  /\ JobEnds
  /\ UNCHANGED <<perPage, loop, shown, cached, events, unserved>>

-----------------------------------------------------------------------------
(* The event loop.                                                         *)

SendItems == shown' = inbox.items

\* The worker waits until the optimistic change is on the panel.
Progress ==
  /\ job.at = "progress"
  /\ SendItems
  /\ job' = [job EXCEPT !.at = "call"]
  /\ UNCHANGED <<server, inbox, perPage, coord, completed, loop, cached, historyVars>>

Refreshing == coord.running
Complete ==
  /\ completed # <<>>
  /\ completed' = Tail(completed)
  /\ loop' = IF Head(completed) = "refresh" THEN [loop EXCEPT !.refreshing = Refreshing] ELSE loop
  /\ cached' = inbox
  /\ SendItems
  /\ UNCHANGED <<server, inbox, perPage, coord, job, historyVars>>

\* requestRefresh: before the cache is there, it is only noted.
Request(l, c) ==
  /\ loop' = [l EXCEPT !.refreshing = TRUE, !.pendingRefresh = ~l.cacheLoaded]
  /\ coord' = IF l.cacheLoaded THEN RequestRefresh(c) ELSE c
  /\ unserved' = TRUE

CacheArrives ==
  /\ ~loop.cacheLoaded
  /\ inbox' = IF cached = NoCache THEN inbox
              ELSE [cached EXCEPT !.stale = TRUE, !.loading = FALSE]
  /\ IF loop.pendingRefresh THEN Request([loop EXCEPT !.cacheLoaded = TRUE], coord)
     ELSE loop' = [loop EXCEPT !.cacheLoaded = TRUE] /\ UNCHANGED <<coord, unserved>>
  /\ shown' = inbox'.items
  /\ UNCHANGED <<server, perPage, job, completed, cached, events, moved>>

Happens == events < GithubMax /\ events' = events + 1

\* The timer, or the refresh button.
AsksRefresh ==
  /\ Happens
  /\ Request(loop, coord)
  /\ SendItems
  /\ UNCHANGED <<server, inbox, perPage, job, completed, cached, moved>>

\* A row, "mark all" or "load more" of the panel.
Clicks ==
  /\ Happens
  /\ \E j \in {Job("read", t) : t \in ToSet(shown)} \cup {Job("all", NoThread), Job("more", NoThread)} :
       coord' = Submit(coord, j)
  /\ UNCHANGED <<server, inbox, perPage, job, completed, loop, shown, cached, moved, unserved>>

\* Another page size asks for a refresh.
SetPerPage ==
  /\ Happens
  /\ perPage' \in PageSizes \ {perPage}
  /\ Request(loop, coord)
  /\ SendItems
  /\ moved' = TRUE
  /\ UNCHANGED <<server, inbox, job, completed, cached>>

\* Elsewhere a thread becomes unread, or is read.
Elsewhere ==
  /\ Happens
  /\ \E t \in Threads :
       server' = IF t \in ToSet(server) THEN Remove(server, t) ELSE <<t>> \o server
  /\ moved' = TRUE
  /\ UNCHANGED <<inbox, perPage, coord, job, completed, loop, shown, cached, unserved>>

Start ==
  /\ inbox' = NoInbox /\ coord' = IdleCoord /\ job' = NoJob /\ completed' = <<>> /\ shown' = <<>>
  /\ loop' = [refreshing |-> TRUE, cacheLoaded |-> FALSE, pendingRefresh |-> TRUE]
  /\ moved' = TRUE /\ unserved' = TRUE

\* The process ends, at any point, and is started again.
RestartNotifications ==
  /\ Happens
  /\ Start
  /\ UNCHANGED <<server, perPage, cached>>

-----------------------------------------------------------------------------
GithubInit ==
  /\ server = SetToSeq(Threads) /\ perPage \in PageSizes /\ cached = NoCache
  /\ inbox = NoInbox /\ coord = IdleCoord /\ job = NoJob /\ completed = <<>> /\ shown = <<>>
  /\ loop = [refreshing |-> TRUE, cacheLoaded |-> FALSE, pendingRefresh |-> TRUE]
  /\ events = 0 /\ moved = TRUE /\ unserved = TRUE

Worker == Wake \/ Pop \/ StartJob \/ Loaded \/ Marked
EventLoop == Progress \/ Complete \/ CacheArrives
GithubNext == Worker \/ EventLoop \/ AsksRefresh \/ Clicks \/ SetPerPage \/ Elsewhere \/ RestartNotifications

\* gh and the host answer, and a select serves what stays ready.
Fairness == WF_allGithubVars(Worker) /\ WF_allGithubVars(EventLoop)
GithubSpec == GithubInit /\ [][GithubNext]_allGithubVars /\ Fairness

-----------------------------------------------------------------------------
(* Properties.                                                             *)

\* The panel says "Refreshing" while a refresh is asked for, waiting or running,
\* whatever requests are merged into it, and stops when the last is completed.
SpinnerHonest ==
  /\ loop.pendingRefresh \/ coord.running => loop.refreshing
  /\ loop.refreshing => loop.pendingRefresh \/ coord.running \/ "refresh" \in ToSet(completed)

\* "Repeated refresh requests during one refresh collapse to one follow-up
\* cycle": a request is followed by a load that begins after it.
RequestNotLost ==
  unserved => loop.pendingRefresh \/ coord.pending \/ Job("refresh", NoThread) \in ToSet(coord.queue)

\* The removal is on the panel before the PATCH starts.
ShownBeforePatch ==
  job.at = "call" /\ job.op = "read" => job.thread \notin ToSet(shown)

\* When nothing but this plugin has changed the inbox since page one was read,
\* nor the page size, a list that offers no more to load is the whole inbox: reads of its
\* own do not make it skip the threads that move up a page.
ListIsWhole ==
  job = NoJob /\ ~moved /\ ~inbox.more /\ ~inbox.needs => inbox.items = server

=============================================================================
