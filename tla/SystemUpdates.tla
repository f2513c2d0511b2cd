---------------------------- MODULE SystemUpdates ----------------------------
(* System updates: cmd/sysc-plugin-updates in front of plugins/updates.  Two   *)
(* goroutines check, the one of the schedule and the one of requests, and one  *)
(* check at a time runs; a watcher follows each update that was started in a   *)
(* terminal, whose launcher may hand the command on and exit at once.          *)
(* What is pending is the number of transactions and changes of the sources so *)
(* far, and a list is the number that its check began with.                    *)
EXTENDS Naturals, FiniteSets

CONSTANTS Updates,         \* bound: updates started from the panel
          TransactionsMax, \* bound: pacman transactions
          RequestsMax,     \* bound: clicks on Refresh, checks of the schedule, changed sources
          Nothing

ASSUME UpdatesAssumption ==
  /\ Updates \subseteq Nat
  /\ {TransactionsMax, RequestsMax} \subseteq Nat
  /\ Nothing \notin Nat \cup {"terminal", "pkexec"}

VARIABLES
  world,         \* what decides what is pending: transactions and changed sources so far
  transactions,  \* history: of them, how many are transactions
  svc,           \* the Service
  checker,       \* the goroutines "loop" and "queue"
  pending,       \* queueOneCheck's pending
  updateRunning,
  update,        \* the updates: the command in its terminal, and its watcher
  locked,        \* which update holds the lock of pacman's database
  saved,         \* the list that the host keeps
  requests,      \* history: how many
  unread         \* history: something was asked for or installed that no check began after

updatesVars == <<world, transactions, svc, checker, pending, updateRunning, update, locked, saved,
                 requests, unread>>

Checkers == {"loop", "queue"}
AtRest == [at |-> "idle", data |-> Nothing]
Running == checker["queue"].at # "idle"

-----------------------------------------------------------------------------
(* Checks (service.go).                                                    *)

\* persist: the state is encoded under the service's lock, as a check returns, and
\* saved without it.
Persists(list) == [at |-> "save", data |-> list]

\* As Enter, with a request forgotten while another check runs.
EntersOnce(c) ==
  /\ checker[c].at = "enter"
  /\ IF svc.checking
     THEN /\ checker' = [checker EXCEPT ![c] = Persists(svc.list)]
          /\ UNCHANGED <<svc, unread>>
     ELSE /\ svc' = [svc EXCEPT !.checking = TRUE]
          /\ checker' = [checker EXCEPT ![c] = [at |-> "read", data |-> world]]
          /\ unread' = FALSE
  /\ UNCHANGED <<world, transactions, pending, updateRunning, update, locked, saved, requests>>
\* A second check becomes another round of the first.
Enter(c) ==
  /\ checker[c].at = "enter"
  /\ IF svc.checking
     THEN /\ svc' = [svc EXCEPT !.checkAgain = TRUE]
          /\ checker' = [checker EXCEPT ![c] = Persists(svc.list)]
          /\ UNCHANGED unread
     ELSE /\ svc' = [svc EXCEPT !.checking = TRUE]
          /\ checker' = [checker EXCEPT ![c] = [at |-> "read", data |-> world]]
          /\ unread' = FALSE
  /\ UNCHANGED <<world, transactions, pending, updateRunning, update, locked, saved, requests>>

\* The sources are read (checkAll), where one that fails fails the check, and the
\* list is replaced; a request that came meanwhile means another round.
Check(c) ==
  /\ checker[c].at = "read"
  /\ \E list \in {svc.list, checker[c].data} :
       /\ svc' = [checking |-> svc.checkAgain, checkAgain |-> FALSE, list |-> list]
       /\ checker' = [checker EXCEPT ![c] =
            IF svc.checkAgain THEN [at |-> "read", data |-> world] ELSE Persists(list)]
  /\ unread' = (unread /\ ~svc.checkAgain)
  /\ UNCHANGED <<world, transactions, pending, updateRunning, update, locked, saved, requests>>

Save(c) ==
  /\ checker[c].at = "save"
  /\ saved' = IF checker[c].data = Nothing THEN saved ELSE checker[c].data
  /\ checker' = [checker EXCEPT ![c] = IF c = "queue" /\ pending THEN [AtRest EXCEPT !.at = "enter"]
                                       ELSE AtRest]
  /\ pending' = (pending /\ c # "queue")
  /\ UNCHANGED <<world, transactions, svc, updateRunning, update, locked, requests, unread>>

\* checkNow.
CheckNow ==
  /\ unread' = TRUE
  /\ pending' = (pending \/ Running)
  /\ checker' = IF Running THEN checker ELSE [checker EXCEPT !["queue"].at = "enter"]
Asks == requests < RequestsMax /\ requests' = requests + 1

Refresh ==
  /\ Asks /\ CheckNow
  /\ UNCHANGED <<world, transactions, svc, updateRunning, update, locked, saved>>
ScheduledCheck ==
  /\ Asks /\ checker["loop"].at = "idle"
  /\ checker' = [checker EXCEPT !["loop"].at = "enter"]
  /\ UNCHANGED <<world, transactions, svc, pending, updateRunning, update, locked, saved, unread>>
ChangeSources ==
  /\ Asks /\ world' = world + 1 /\ CheckNow
  /\ UNCHANGED <<transactions, svc, updateRunning, update, locked, saved>>

-----------------------------------------------------------------------------
(* An update: runUpdate, what happens in the terminal, and the watcher.    *)

NotStarted == [method |-> Nothing, command |-> "none", launcher |-> "none", wrote |-> FALSE,
               watched |-> FALSE, active |-> FALSE, refreshed |-> FALSE, gaveUp |-> FALSE]

RunUpdate(u) ==
  /\ update[u].method = Nothing /\ \A v \in Updates : v < u => update[v].method # Nothing
  /\ ~updateRunning /\ updateRunning' = TRUE
  /\ update' = [update EXCEPT ![u] =
       [@ EXCEPT !.method = "terminal", !.launcher = "runs", !.watched = TRUE]]
  /\ UNCHANGED <<world, transactions, svc, checker, pending, locked, saved, requests, unread>>
RunPkexec(u) ==
  /\ update[u].method = Nothing /\ \A v \in Updates : v < u => update[v].method # Nothing
  /\ ~updateRunning /\ updateRunning' = TRUE
  /\ update' = [update EXCEPT ![u] = [@ EXCEPT !.method = "pkexec", !.command = "runs"]]
  /\ UNCHANGED <<world, transactions, svc, checker, pending, locked, saved, requests, unread>>

\* The command's script leaves a mark when it starts and when it is done, unless
\* the window is closed; the launcher exits when it likes.
CommandStarts(u) ==
  /\ update[u].method = "terminal" /\ update[u].command = "none"
  /\ update' = [update EXCEPT ![u].command = "runs"]
  /\ UNCHANGED <<world, transactions, svc, checker, pending, updateRunning, locked, saved, requests, unread>>
CommandEnds(u) ==
  /\ update[u].method = "terminal" /\ update[u].command = "runs" /\ locked # u
  /\ \E end \in {"done"} \cup (IF update[u].watched THEN {"killed"} ELSE {}) : update' = [update EXCEPT ![u].command = end]
  /\ UNCHANGED <<world, transactions, svc, checker, pending, updateRunning, locked, saved, requests, unread>>
LauncherExits(u) ==
  /\ update[u].launcher = "runs"
  /\ update' = [update EXCEPT ![u].launcher = "gone"]
  /\ UNCHANGED <<world, transactions, svc, checker, pending, updateRunning, locked, saved, requests, unread>>

TransactionBegins(u) ==
  /\ update[u].command = "runs" /\ locked = Nothing /\ transactions < TransactionsMax
  /\ locked' = u
  /\ UNCHANGED <<world, transactions, svc, checker, pending, updateRunning, update, saved, requests, unread>>
TransactionEnds ==
  /\ locked # Nothing /\ locked' = Nothing
  /\ world' = world + 1 /\ transactions' = transactions + 1 /\ unread' = TRUE
  /\ update' = [u \in Updates |-> [update[u] EXCEPT !.wrote = update[u].watched]]
  /\ UNCHANGED <<svc, checker, pending, updateRunning, saved, requests>>

\* pkexec is waited for: the guard goes, and five seconds later a check is asked.
PkexecEnds(u) ==
  /\ update[u].method = "pkexec" /\ update[u].command = "runs" /\ locked # u
  /\ updateRunning' = FALSE
  /\ update' = [update EXCEPT ![u].command = "sleeps"]
  /\ UNCHANGED <<world, transactions, svc, checker, pending, locked, saved, requests, unread>>
PkexecChecks(u) ==
  /\ update[u].command = "sleeps"
  /\ update' = [update EXCEPT ![u].command = "done"]
  /\ CheckNow
  /\ UNCHANGED <<world, transactions, svc, updateRunning, locked, saved, requests>>

Completed(u) == update[u].command = "done"

\* What a round of waitForTerminalWith finds: the log was written since the last round,
\* or the lock is held; nothing began though the launcher left; the command is done and
\* what it installed has settled.
Stirs(u) == update[u].wrote \/ locked # Nothing
Active(u) == update[u].active \/ Stirs(u)
Refreshed(u) == update[u].refreshed /\ ~Stirs(u)
NothingBegan(u) == update[u].launcher = "gone" /\ update[u].command = "none" /\ ~Active(u)
Completes(u, quiet) == Completed(u) /\ locked = Nothing /\ (~Active(u) \/ quiet)
Refreshes(u, quiet, idle) == ((Active(u) /\ quiet) \/ idle) /\ ~Refreshed(u)

\* What the watcher knows after it.
AfterRound(u, quiet, idle, spent) ==
  LET ends == Completes(u, quiet) \/ spent IN
  [update[u] EXCEPT
     !.wrote = FALSE, !.watched = ~ends, !.launcher = IF ends THEN "gone" ELSE @,
     !.command = IF ends /\ @ = "killed" THEN "done" ELSE @,
     !.active = Active(u) /\ ~ends,
     !.refreshed = (Refreshed(u) \/ Refreshes(u, quiet, idle)) /\ ~ends,
     !.gaveUp = @ \/ idle \/ (spent /\ ~Completes(u, quiet))]

\* The round: the guard is released once, and a check asked for what was installed.
Round(u, quiet, idle, spent) ==
  /\ update' = [update EXCEPT ![u] = AfterRound(u, quiet, idle, spent)]
  /\ updateRunning' =
       (updateRunning /\ (update[u].gaveUp \/ ~(Completes(u, quiet) \/ spent \/ idle)))
  /\ IF Completes(u, quiet) \/ Refreshes(u, quiet, idle) \/ (spent /\ ~Refreshed(u))
     THEN CheckNow
     ELSE UNCHANGED <<checker, pending, unread>>

\* A tick, or the launcher exits.  The log may be quiet when nothing stirs; idle: the
\* launcher left a minute ago for nothing; spent: two hours have passed.
Watch(u) ==
  /\ update[u].watched
  /\ \E quiet, idle, spent \in BOOLEAN :
       /\ quiet => ~Stirs(u)
       /\ idle => NothingBegan(u)
       /\ Round(u, quiet, idle, spent)
  /\ UNCHANGED <<world, transactions, svc, locked, saved, requests>>

-----------------------------------------------------------------------------
UpdatesInit ==
  /\ world = 0 /\ transactions = 0
  /\ svc = [checking |-> FALSE, checkAgain |-> FALSE, list |-> Nothing]
  /\ checker = [c \in Checkers |-> AtRest] /\ pending = FALSE
  /\ updateRunning = FALSE /\ update = [u \in Updates |-> NotStarted]
  /\ locked = Nothing /\ saved = Nothing /\ requests = 0 /\ unread = FALSE

CheckerStep(c) == Enter(c) \/ Check(c) \/ Save(c)
UpdateStep(u) ==
  \/ RunUpdate(u) \/ RunPkexec(u) \/ CommandStarts(u) \/ CommandEnds(u) \/ LauncherExits(u)
  \/ TransactionBegins(u) \/ PkexecEnds(u) \/ PkexecChecks(u) \/ Watch(u)
UpdatesNext ==
  \/ \E c \in Checkers : CheckerStep(c)
  \/ \E u \in Updates : UpdateStep(u)
  \/ TransactionEnds \/ Refresh \/ ScheduledCheck \/ ChangeSources
UpdatesSpec == UpdatesInit /\ [][UpdatesNext]_updatesVars

-----------------------------------------------------------------------------
(* Properties.                                                             *)

\* What was asked for, or installed by an update that the plugin follows, is read
\* by a check that has not begun yet: requests that meet a running check are not
\* lost, and no watcher leaves before its command's last transaction.  (A watcher
\* that has given up, after a minute or two hours, is past that promise.)
NewsWillBeRead ==
  unread => \/ svc.checkAgain \/ pending \/ \E c \in Checkers : checker[c].at = "enter"
            \/ \E u \in Updates : update[u].watched \/ update[u].gaveUp
            \/ \E u \in Updates : update[u].command = "sleeps" \/ (update[u].method = "pkexec" /\ update[u].command = "runs")

\* Two updates never run at the same time, though a terminal that hands its
\* command on exits before the command has even started.
UpdatesAlone ==
  Cardinality({u \in Updates : update[u].command = "runs" /\ ~update[u].gaveUp}) <= 1

\* What was begun is followed to its end: no request for a check and no transaction is
\* lost, and two updates do not run at a time (service.go, main.go).
UpdatesAreFollowed == NewsWillBeRead /\ UpdatesAlone
=============================================================================
