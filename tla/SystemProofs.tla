----------------------------- MODULE SystemProofs ----------------------------
(***************************************************************************)
(* Proofs about three plugins that run the machine.                        *)
(*                                                                         *)
(* SystemUpdates: no request for a check and no transaction of a followed  *)
(* update is forgotten, and one update runs at a time, for any number of   *)
(* updates, transactions and requests.                                     *)
(*                                                                         *)
(* ThinkPad: a toggle flips the light that is shown, controls change alone *)
(* and a start restores what was kept (ControlsInv).                       *)
(*                                                                         *)
(* ProtonVpn: the toggles, Cancel and the status that is shown are those   *)
(* of the commands that were asked for last (VpnInv orders what is on its  *)
(* way).                                                                   *)
(*                                                                         *)
(* The first needs to know who follows what.  UpdateFits says of each      *)
(* update what its method, its command and its watcher can be together: a  *)
(* command in a terminal is watched until it is done or given up, a command*)
(* of pkexec is waited for, and pacman's lock belongs to a command that    *)
(* runs.  GuardFits says that updateRunning stands for the one update that *)
(* is followed.                                                            *)
(***************************************************************************)
EXTENDS SystemUpdates, ThinkPad, ProtonVpn, FiniteSetTheorems, SequenceTheorems, TLAPS

Lists == Nat \cup {Nothing}
UpdateType ==
  [method : {Nothing, "terminal", "pkexec"}, command : {"none", "runs", "sleeps", "done", "killed"},
   launcher : {"none", "runs", "gone"}, wrote : BOOLEAN, watched : BOOLEAN, active : BOOLEAN,
   refreshed : BOOLEAN, gaveUp : BOOLEAN]

UpdatesTypeOK ==
  /\ world \in Nat
  /\ svc \in [checking : BOOLEAN, checkAgain : BOOLEAN, list : Lists]
  /\ checker \in [Checkers -> [at : {"idle", "enter", "read", "save"}, data : Lists]]
  /\ {pending, updateRunning, unread} \subseteq BOOLEAN
  /\ update \in [Updates -> UpdateType]
  /\ locked \in Updates \cup {Nothing}

\* What the method, the command and the watcher of an update can be together.
UpdateFits ==
  \A u \in Updates :
    /\ update[u].method = Nothing => update[u] = NotStarted
    /\ update[u].method = "terminal" =>
         /\ update[u].command # "sleeps"
         /\ update[u].watched \/ update[u].gaveUp \/ update[u].command = "done"
    /\ update[u].method = "pkexec" =>
         /\ ~update[u].watched /\ ~update[u].gaveUp
         /\ update[u].command \in {"runs", "sleeps", "done"}
    /\ locked = u => update[u].command = "runs"

\* The update that holds the guard: its watcher, or runPkexec, is to clear it.
Holds(u) ==
  /\ ~update[u].gaveUp
  /\ update[u].watched \/ (update[u].method = "pkexec" /\ update[u].command = "runs")

GuardFits ==
  /\ \A u \in Updates : Holds(u) => updateRunning
  /\ \A u, v \in Updates : Holds(u) /\ Holds(v) => u = v

\* Someone is still to read what is unread.
Awaited(u) ==
  \/ update[u].watched \/ update[u].gaveUp
  \/ update[u].command = "sleeps" \/ (update[u].method = "pkexec" /\ update[u].command = "runs")
CheckDue == svc.checkAgain \/ pending \/ \E c \in Checkers : checker[c].at = "enter"

FollowInv == UpdatesTypeOK /\ UpdateFits /\ GuardFits /\ NewsWillBeRead

USE UpdatesAssumption DEF Checkers, Lists

LEMMA NewsIs == NewsWillBeRead <=> (unread => CheckDue \/ \E u \in Updates : Awaited(u))
  BY DEF NewsWillBeRead, CheckDue, Awaited

-----------------------------------------------------------------------------
(* The initial state, and what the invariant says.                         *)

LEMMA FollowInit == UpdatesInit => FollowInv
<1> SUFFICES ASSUME UpdatesInit PROVE FollowInv
  OBVIOUS
<1>1. UpdatesTypeOK
  BY DEF UpdatesInit, UpdatesTypeOK, UpdateType, NotStarted, AtRest
<1>2. UpdateFits /\ GuardFits
  BY DEF UpdatesInit, UpdateFits, GuardFits, Holds, NotStarted
<1>3. NewsWillBeRead
  BY DEF UpdatesInit, NewsWillBeRead
<1>4. QED
  BY <1>1, <1>2, <1>3 DEF FollowInv

LEMMA FollowAlone == FollowInv => UpdatesAlone
<1> SUFFICES ASSUME FollowInv PROVE UpdatesAlone
  OBVIOUS
<1> DEFINE R == {u \in Updates : update[u].command = "runs" /\ ~update[u].gaveUp}
<1>1. \A u \in R : Holds(u)
  BY DEF FollowInv, UpdatesTypeOK, UpdateType, UpdateFits, Holds, NotStarted
<1>2. \A u, v \in R : u = v
  BY <1>1 DEF FollowInv, GuardFits
<1>3. CASE R = {}
  <2>1. Cardinality(R) = 0
    BY <1>3, FS_EmptySet
  <2>2. QED
    BY <2>1 DEF UpdatesAlone
<1>4. CASE R # {}
  <2>1. PICK u \in R : TRUE
    BY <1>4
  <2>2. R = {u}
    BY <1>2, <2>1
  <2>3. Cardinality(R) = 1
    BY <2>2, FS_Singleton
  <2>4. QED
    BY <2>3 DEF UpdatesAlone
<1>5. QED
  BY <1>3, <1>4

-----------------------------------------------------------------------------
(* The checks: the updates are left alone.                                 *)

LEMMA UpdatesKept ==
  ASSUME UpdateFits, GuardFits, UNCHANGED <<update, updateRunning, locked>>
  PROVE  UpdateFits' /\ GuardFits' /\ \A u \in Updates : Awaited(u) => Awaited(u)'
  BY DEF UpdateFits, GuardFits, Holds, Awaited

\* checkNow: a check is due, whoever runs.
LEMMA CheckNowIsDue == UpdatesTypeOK /\ CheckNow => CheckDue'
<1> SUFFICES ASSUME UpdatesTypeOK, CheckNow PROVE CheckDue'
  OBVIOUS
<1>1. CASE Running
  BY <1>1 DEF CheckNow, CheckDue
<1>2. CASE ~Running
  <2>1. checker'["queue"].at = "enter"
    BY <1>2 DEF CheckNow, UpdatesTypeOK
  <2>2. QED
    BY <2>1 DEF CheckDue
<1>3. QED
  BY <1>1, <1>2

LEMMA CheckNowType ==
  UpdatesTypeOK /\ CheckNow =>
    /\ checker' \in [Checkers -> [at : {"idle", "enter", "read", "save"}, data : Lists]]
    /\ {pending', unread'} \subseteq BOOLEAN
<1> SUFFICES ASSUME UpdatesTypeOK, CheckNow
             PROVE  /\ checker' \in [Checkers -> [at : {"idle", "enter", "read", "save"}, data : Lists]]
                    /\ {pending', unread'} \subseteq BOOLEAN
  OBVIOUS
<1>1. checker' = checker \/ checker' = [checker EXCEPT !["queue"].at = "enter"]
  BY DEF CheckNow
<1>2. pending' \in BOOLEAN /\ unread' \in BOOLEAN
  BY DEF CheckNow, UpdatesTypeOK, Running
<1>3. QED
  BY <1>1, <1>2 DEF UpdatesTypeOK

LEMMA EnterStep ==
  ASSUME FollowInv, NEW c \in Checkers, Enter(c) PROVE FollowInv'
<1>1. UNCHANGED <<world, pending, updateRunning, update, locked>>
  BY DEF Enter
<1>2. UpdateFits' /\ GuardFits' /\ \A u \in Updates : Awaited(u) => Awaited(u)'
  BY <1>1, UpdatesKept DEF FollowInv
<1>3. CASE svc.checking
  <2>1. /\ svc' = [svc EXCEPT !.checkAgain = TRUE]
        /\ checker' = [checker EXCEPT ![c] = [at |-> "save", data |-> svc.list]]
        /\ unread' = unread
    BY <1>3 DEF Enter, Persists
  <2>2. UpdatesTypeOK'
    BY <1>1, <2>1 DEF FollowInv, UpdatesTypeOK
  <2>3. CheckDue'
    BY <2>1 DEF FollowInv, UpdatesTypeOK, CheckDue
  <2>4. QED
    BY <1>2, <2>2, <2>3, NewsIs, PTL DEF FollowInv
<1>4. CASE ~svc.checking
  <2>1. /\ svc' = [svc EXCEPT !.checking = TRUE]
        /\ checker' = [checker EXCEPT ![c] = [at |-> "read", data |-> world]]
        /\ unread' = FALSE
    BY <1>4 DEF Enter
  <2>2. UpdatesTypeOK'
    BY <1>1, <2>1 DEF FollowInv, UpdatesTypeOK
  <2>3. NewsWillBeRead'
    BY <2>1 DEF NewsWillBeRead
  <2>4. QED
    BY <1>2, <2>2, <2>3 DEF FollowInv
<1>5. QED
  BY <1>3, <1>4

LEMMA CheckStep ==
  ASSUME FollowInv, NEW c \in Checkers, Check(c) PROVE FollowInv'
<1>1. UNCHANGED <<world, pending, updateRunning, update, locked>>
  BY DEF Check
<1>2. UpdateFits' /\ GuardFits' /\ \A u \in Updates : Awaited(u) => Awaited(u)'
  BY <1>1, UpdatesKept DEF FollowInv
<1>3. PICK list \in {svc.list, checker[c].data} :
        /\ svc' = [checking |-> svc.checkAgain, checkAgain |-> FALSE, list |-> list]
        /\ checker' = [checker EXCEPT ![c] =
             IF svc.checkAgain THEN [at |-> "read", data |-> world]
             ELSE [at |-> "save", data |-> list]]
  BY DEF Check, Persists
<1>4. unread' = (unread /\ ~svc.checkAgain) /\ checker[c].at = "read"
  BY DEF Check
<1>5. UpdatesTypeOK'
  <2>1. list \in Lists
    BY DEF FollowInv, UpdatesTypeOK
  <2>2. QED
    BY <1>1, <1>3, <1>4, <2>1 DEF FollowInv, UpdatesTypeOK
<1>6. NewsWillBeRead'
  <2> SUFFICES ASSUME unread, ~svc.checkAgain
               PROVE  CheckDue' \/ \E u \in Updates : Awaited(u)'
    BY <1>4, NewsIs DEF NewsWillBeRead, CheckDue, Awaited
  <2>1. ASSUME NEW b \in Checkers, checker[b].at = "enter" PROVE checker'[b].at = "enter"
    BY <1>3, <1>4, <2>1 DEF FollowInv, UpdatesTypeOK
  <2>2. CheckDue => CheckDue'
    BY <1>1, <2>1 DEF CheckDue
  <2>3. QED
    BY <1>2, <2>2, NewsIs DEF FollowInv
<1>7. QED
  BY <1>2, <1>5, <1>6 DEF FollowInv

LEMMA SaveStep ==
  ASSUME FollowInv, NEW c \in Checkers, Save(c) PROVE FollowInv'
<1>1. UNCHANGED <<world, svc, updateRunning, update, locked, unread>>
  BY DEF Save
<1>2. UpdateFits' /\ GuardFits' /\ \A u \in Updates : Awaited(u) => Awaited(u)'
  BY <1>1, UpdatesKept DEF FollowInv
<1>3. /\ checker[c].at = "save" /\ pending' = (pending /\ c # "queue")
      /\ checker' = [checker EXCEPT ![c] =
           IF c = "queue" /\ pending THEN [AtRest EXCEPT !.at = "enter"] ELSE AtRest]
  BY DEF Save
<1>4. UpdatesTypeOK'
  BY <1>1, <1>3 DEF FollowInv, UpdatesTypeOK, AtRest
<1>5. CheckDue => CheckDue'
  <2>1. CASE pending /\ c = "queue"
    <3>1. checker'["queue"].at = "enter"
      BY <1>3, <2>1 DEF FollowInv, UpdatesTypeOK, AtRest
    <3>2. QED
      BY <3>1 DEF CheckDue
  <2>2. CASE ~(pending /\ c = "queue")
    <3>1. ASSUME NEW b \in Checkers, checker[b].at = "enter" PROVE checker'[b].at = "enter"
      BY <1>3, <3>1 DEF FollowInv, UpdatesTypeOK
    <3>2. pending => pending'
      BY <1>3, <2>2
    <3>3. QED
      BY <1>1, <3>1, <3>2 DEF CheckDue
  <2>3. QED
    BY <2>1, <2>2
<1>6. NewsWillBeRead'
  BY <1>1, <1>2, <1>5, NewsIs DEF FollowInv, NewsWillBeRead, CheckDue, Awaited
<1>7. QED
  BY <1>2, <1>4, <1>6 DEF FollowInv

LEMMA RequestStep ==
  ASSUME FollowInv, Refresh \/ ChangeSources PROVE FollowInv'
<1>1. UNCHANGED <<svc, updateRunning, update, locked>> /\ CheckNow /\ world' \in Nat
  BY DEF Refresh, ChangeSources, FollowInv, UpdatesTypeOK
<1>2. UpdateFits' /\ GuardFits'
  BY <1>1, UpdatesKept DEF FollowInv
<1>3. UpdatesTypeOK'
  BY <1>1, CheckNowType DEF FollowInv, UpdatesTypeOK
<1>4. CheckDue'
  BY <1>1, CheckNowIsDue DEF FollowInv
<1>5. QED
  BY <1>2, <1>3, <1>4 DEF FollowInv, NewsWillBeRead, CheckDue

LEMMA ScheduleStep ==
  ASSUME FollowInv, ScheduledCheck PROVE FollowInv'
<1>1. /\ UNCHANGED <<world, svc, pending, updateRunning, update, locked, unread>>
      /\ checker' = [checker EXCEPT !["loop"].at = "enter"]
  BY DEF ScheduledCheck
<1>2. UpdateFits' /\ GuardFits'
  BY <1>1, UpdatesKept DEF FollowInv
<1>3. UpdatesTypeOK' /\ checker'["loop"].at = "enter"
  BY <1>1 DEF FollowInv, UpdatesTypeOK
<1>4. CheckDue'
  BY <1>3 DEF CheckDue
<1>5. QED
  BY <1>2, <1>3, <1>4 DEF FollowInv, NewsWillBeRead, CheckDue

-----------------------------------------------------------------------------
(* The updates.                                                            *)

\* A step of update u alone that leaves the guard, and what is due, as they are.
LEMMA QuietStep ==
  ASSUME FollowInv, NEW u \in Updates,
         UNCHANGED <<world, svc, checker, pending, updateRunning, unread>>,
         UpdatesTypeOK', UpdateFits',
         \A v \in Updates : v # u => update'[v] = update[v],
         Holds(u)' => Holds(u), Awaited(u) => Awaited(u)'
  PROVE  FollowInv'
<1>1. \A v \in Updates : (Holds(v)' => Holds(v)) /\ (Awaited(v) => Awaited(v)')
  BY DEF Holds, Awaited
<1>2. GuardFits'
  BY <1>1 DEF FollowInv, GuardFits
<1>3. CheckDue' <=> CheckDue
  BY DEF CheckDue
<1>4. NewsWillBeRead'
  BY <1>1, <1>3, NewsIs DEF FollowInv, NewsWillBeRead, CheckDue, Awaited
<1>5. QED
  BY <1>2, <1>4 DEF FollowInv

\* Update u gets another record.
LEMMA OneUpdate ==
  ASSUME UpdatesTypeOK, NEW u \in Updates, NEW r \in UpdateType, update' = [update EXCEPT ![u] = r]
  PROVE  /\ update' \in [Updates -> UpdateType] /\ update'[u] = r
         /\ \A v \in Updates : v # u => update'[v] = update[v]
  BY DEF UpdatesTypeOK

\* What one update can be together is kept when the others, and the lock, are.
LEMMA OneFits ==
  ASSUME UpdateFits, NEW u \in Updates,
         \A v \in Updates : v # u => update'[v] = update[v] /\ (locked' = v => locked = v),
         update'[u].method = Nothing => update'[u] = NotStarted,
         update'[u].method = "terminal" =>
           /\ update'[u].command # "sleeps"
           /\ update'[u].watched \/ update'[u].gaveUp \/ update'[u].command = "done",
         update'[u].method = "pkexec" =>
           /\ ~update'[u].watched /\ ~update'[u].gaveUp
           /\ update'[u].command \in {"runs", "sleeps", "done"},
         locked' = u => update'[u].command = "runs"
  PROVE  UpdateFits'
  BY DEF UpdateFits

\* One more update: nobody holds the guard when it takes it.
LEMMA StartStep ==
  ASSUME FollowInv, NEW u \in Updates, RunUpdate(u) \/ RunPkexec(u)
  PROVE  FollowInv'
<1>1. /\ UNCHANGED <<world, svc, checker, pending, locked, unread>>
      /\ update[u].method = Nothing /\ ~updateRunning /\ updateRunning' = TRUE
  BY DEF RunUpdate, RunPkexec
<1>2. update[u] = NotStarted
  BY <1>1 DEF FollowInv, UpdateFits
<1>3. PICK r \in {[NotStarted EXCEPT !.method = "terminal", !.launcher = "runs", !.watched = TRUE],
                  [NotStarted EXCEPT !.method = "pkexec", !.command = "runs"]} :
        update' = [update EXCEPT ![u] = r]
  BY <1>2 DEF RunUpdate, RunPkexec
<1>4. /\ r \in UpdateType /\ r.method \in {"terminal", "pkexec"} /\ ~r.gaveUp
      /\ r.method = "terminal" => r.command = "none" /\ r.watched
      /\ r.method = "pkexec" => r.command = "runs" /\ ~r.watched
  BY DEF NotStarted, UpdateType
<1>5. /\ update' \in [Updates -> UpdateType] /\ update'[u] = r
      /\ \A v \in Updates : v # u => update'[v] = update[v]
  BY <1>3, <1>4, OneUpdate DEF FollowInv
<1>6. UpdatesTypeOK'
  BY <1>1, <1>5 DEF FollowInv, UpdatesTypeOK
<1>7. locked # u
  BY <1>2 DEF FollowInv, UpdateFits, NotStarted
<1>8. UpdateFits'
  BY <1>1, <1>4, <1>5, <1>7, OneFits DEF FollowInv
<1>9. GuardFits'
  <2>1. \A v \in Updates : ~Holds(v)
    BY <1>1 DEF FollowInv, GuardFits
  <2>2. \A v \in Updates : Holds(v)' => v = u
    BY <1>5, <2>1 DEF Holds
  <2>3. QED
    BY <1>1, <2>2 DEF GuardFits
<1>10. NewsWillBeRead'
  <2>1. ~Awaited(u)
    BY <1>2 DEF Awaited, NotStarted
  <2>2. \A v \in Updates : Awaited(v) => Awaited(v)'
    BY <1>5, <2>1 DEF Awaited
  <2>3. QED
    BY <1>1, <2>2, NewsIs DEF FollowInv, NewsWillBeRead, CheckDue, Awaited
<1>11. QED
  BY <1>6, <1>8, <1>9, <1>10 DEF FollowInv

\* A record of an update with another command, or whose launcher has left.
SameOwner(s, r) ==
  s \in UpdateType /\ s.method = r.method /\ s.watched = r.watched /\ s.gaveUp = r.gaveUp
LEMMA SetCommand ==
  ASSUME NEW r \in UpdateType, NEW c \in {"none", "runs", "sleeps", "done", "killed"}
  PROVE  /\ SameOwner([r EXCEPT !.command = c], r)
         /\ [r EXCEPT !.command = c].command = c
  BY DEF UpdateType, SameOwner
LEMMA SetLauncher ==
  ASSUME NEW r \in UpdateType
  PROVE  /\ SameOwner([r EXCEPT !.launcher = "gone"], r)
         /\ [r EXCEPT !.launcher = "gone"].command = r.command
  BY DEF UpdateType, SameOwner

LEMMA CommandStep ==
  ASSUME FollowInv, NEW u \in Updates,
         CommandStarts(u) \/ CommandEnds(u) \/ LauncherExits(u)
  PROVE  FollowInv'
<1>1. UNCHANGED <<world, svc, checker, pending, updateRunning, locked, unread>>
  BY DEF CommandStarts, CommandEnds, LauncherExits
<1>2. update[u] \in UpdateType
  BY DEF FollowInv, UpdatesTypeOK
<1>3. PICK r \in UpdateType :
        /\ update' = [update EXCEPT ![u] = r]
        /\ r.method = update[u].method /\ r.watched = update[u].watched
        /\ r.gaveUp = update[u].gaveUp
        /\ r.command = update[u].command
             \/ /\ r.method = "terminal"
                /\ \/ update[u].command = "none" /\ r.command = "runs"
                   \/ /\ update[u].command = "runs" /\ locked # u
                      /\ r.command = "done" \/ (r.command = "killed" /\ r.watched)
  <2>1. CASE CommandStarts(u)
    <3> DEFINE r == [update[u] EXCEPT !.command = "runs"]
    <3>1. update' = [update EXCEPT ![u] = r]
      BY <2>1 DEF CommandStarts
    <3>2. SameOwner(r, update[u]) /\ r.command = "runs"
      BY <1>2, SetCommand
    <3> HIDE DEF r
    <3>3. QED
      BY <2>1, <3>1, <3>2 DEF CommandStarts, SameOwner
  <2>2. CASE CommandEnds(u)
    <3>1. PICK c \in {"done"} \cup (IF update[u].watched THEN {"killed"} ELSE {}) :
            update' = [update EXCEPT ![u] = [update[u] EXCEPT !.command = c]]
      BY <2>2 DEF CommandEnds
    <3>2. c = "done" \/ (c = "killed" /\ update[u].watched)
      OBVIOUS
    <3> DEFINE r == [update[u] EXCEPT !.command = c]
    <3>3. update' = [update EXCEPT ![u] = r]
      BY <3>1
    <3>4. SameOwner(r, update[u]) /\ r.command = c
      BY <1>2, <3>2, SetCommand
    <3> HIDE DEF r
    <3>5. QED
      BY <2>2, <3>2, <3>3, <3>4 DEF CommandEnds, SameOwner
  <2>3. CASE LauncherExits(u)
    <3> DEFINE r == [update[u] EXCEPT !.launcher = "gone"]
    <3>1. update' = [update EXCEPT ![u] = r]
      BY <2>3 DEF LauncherExits
    <3>2. SameOwner(r, update[u]) /\ r.command = update[u].command
      BY <1>2, SetLauncher
    <3> HIDE DEF r
    <3>3. QED
      BY <3>1, <3>2 DEF SameOwner
  <2>4. QED
    BY <2>1, <2>2, <2>3
<1>4. /\ update' \in [Updates -> UpdateType] /\ update'[u] = r
      /\ \A v \in Updates : v # u => update'[v] = update[v]
  BY <1>3, OneUpdate DEF FollowInv
<1>5. UpdatesTypeOK'
  BY <1>1, <1>4 DEF FollowInv, UpdatesTypeOK
<1>6. CASE update[u].method = Nothing
  <2>1. update' = update
    <3>1. update[u] = NotStarted
      BY <1>6 DEF FollowInv, UpdateFits
    <3>2. ~CommandStarts(u) /\ ~CommandEnds(u) /\ ~LauncherExits(u)
      BY <1>6, <3>1 DEF CommandStarts, CommandEnds, LauncherExits, NotStarted
    <3>3. QED
      BY <3>2
  <2>2. UpdateFits'
    BY <1>1, <2>1, UpdatesKept DEF FollowInv
  <2>3. (Holds(u)' => Holds(u)) /\ (Awaited(u) => Awaited(u)')
    BY <2>1 DEF Holds, Awaited
  <2>4. QED
    BY <1>1, <1>4, <1>5, <2>2, <2>3, QuietStep
<1>7. CASE update[u].method # Nothing
  <2>1. UpdateFits'
    BY <1>1, <1>3, <1>4, <1>7, OneFits DEF FollowInv, UpdateFits
  <2>2. (Holds(u)' => Holds(u)) /\ (Awaited(u) => Awaited(u)')
    BY <1>3, <1>4, <2>1 DEF FollowInv, UpdateFits, Holds, Awaited
  <2>3. QED
    BY <1>1, <1>4, <1>5, <2>1, <2>2, QuietStep
<1>8. QED
  BY <1>6, <1>7

\* Pacman's lock is taken by a command that runs.
LEMMA LockStep ==
  ASSUME FollowInv, NEW u \in Updates, TransactionBegins(u) PROVE FollowInv'
<1>1. /\ UNCHANGED <<world, svc, checker, pending, updateRunning, update, unread>>
      /\ update[u].command = "runs" /\ locked' = u
  BY DEF TransactionBegins
<1>2. UpdatesTypeOK' /\ UpdateFits'
  BY <1>1 DEF FollowInv, UpdatesTypeOK, UpdateFits
<1>3. (Holds(u)' => Holds(u)) /\ (Awaited(u) => Awaited(u)')
  BY <1>1 DEF Holds, Awaited
<1>4. QED
  BY <1>1, <1>2, <1>3, QuietStep

\* What was installed is unread, and the command that installed it is followed.
LEMMA UnlockStep ==
  ASSUME FollowInv, TransactionEnds PROVE FollowInv'
<1>1. /\ UNCHANGED <<svc, checker, pending, updateRunning>>
      /\ locked \in Updates /\ locked' = Nothing /\ world' = world + 1 /\ unread' = TRUE
      /\ update' = [u \in Updates |-> [update[u] EXCEPT !.wrote = update[u].watched]]
  BY DEF TransactionEnds, FollowInv, UpdatesTypeOK
<1>2. ASSUME NEW u \in Updates
      PROVE  /\ update'[u] \in UpdateType
             /\ update'[u].method = update[u].method /\ update'[u].command = update[u].command
             /\ update'[u].watched = update[u].watched /\ update'[u].gaveUp = update[u].gaveUp
             /\ update[u].method = Nothing => update'[u] = NotStarted
  <2>1. update[u] \in UpdateType /\ update'[u] = [update[u] EXCEPT !.wrote = update[u].watched]
    BY <1>1 DEF FollowInv, UpdatesTypeOK
  <2>2. update[u].method = Nothing => update[u] = NotStarted
    BY DEF FollowInv, UpdateFits
  <2>3. QED
    BY <2>1, <2>2 DEF UpdateType, NotStarted
<1>3. UpdatesTypeOK'
  <2>1. update' \in [Updates -> UpdateType]
    BY <1>1, <1>2
  <2>2. QED
    BY <1>1, <2>1 DEF FollowInv, UpdatesTypeOK
<1>4. UpdateFits'
  <2>1. \A u \in Updates : locked' # u
    BY <1>1
  <2>2. QED
    BY <1>2, <2>1 DEF FollowInv, UpdateFits
<1>5. GuardFits'
  <2>1. \A u \in Updates : Holds(u)' <=> Holds(u)
    BY <1>2 DEF Holds
  <2>2. QED
    BY <1>1, <2>1 DEF FollowInv, GuardFits
<1>6. Awaited(locked)
  <2>1. /\ update[locked].command = "runs" /\ update[locked] \in UpdateType
        /\ update[locked].method = Nothing => update[locked] = NotStarted
        /\ update[locked].method = "terminal" =>
             update[locked].watched \/ update[locked].gaveUp \/ update[locked].command = "done"
    BY <1>1 DEF FollowInv, UpdatesTypeOK, UpdateFits
  <2>2. QED
    BY <2>1 DEF Awaited, NotStarted, UpdateType
<1>7. \E u \in Updates : Awaited(u)'
  <2>1. PICK u \in Updates : u = locked
    BY <1>1
  <2>2. Awaited(u)'
    BY <1>2, <1>6, <2>1 DEF Awaited
  <2>3. QED
    BY <2>2
<1>8. NewsWillBeRead'
  BY <1>7 DEF NewsWillBeRead, Awaited
<1>9. QED
  BY <1>3, <1>4, <1>5, <1>8 DEF FollowInv

\* pkexec ends: the guard goes, and a check is asked when it has slept.
LEMMA PkexecEndsStep ==
  ASSUME FollowInv, NEW u \in Updates, PkexecEnds(u) PROVE FollowInv'
<1>1. /\ UNCHANGED <<world, svc, checker, pending, locked, unread>>
      /\ update[u].method = "pkexec" /\ update[u].command = "runs" /\ locked # u
      /\ updateRunning' = FALSE
  BY DEF PkexecEnds
<1>2. update[u] \in UpdateType /\ ~update[u].watched /\ ~update[u].gaveUp /\ Holds(u)
  BY <1>1 DEF FollowInv, UpdatesTypeOK, UpdateFits, Holds
<1>3. PICK r \in UpdateType :
        /\ update' = [update EXCEPT ![u] = r] /\ r.method = "pkexec"
        /\ r.command = "sleeps" /\ ~r.watched /\ ~r.gaveUp
  <2> DEFINE r == [update[u] EXCEPT !.command = "sleeps"]
  <2>1. update' = [update EXCEPT ![u] = r]
    BY DEF PkexecEnds
  <2>2. SameOwner(r, update[u]) /\ r.command = "sleeps"
    BY <1>2, SetCommand
  <2> HIDE DEF r
  <2>3. QED
    BY <1>1, <1>2, <2>1, <2>2 DEF SameOwner
<1>4. /\ update' \in [Updates -> UpdateType] /\ update'[u] = r
      /\ \A v \in Updates : v # u => update'[v] = update[v]
  BY <1>3, OneUpdate DEF FollowInv
<1>5. UpdatesTypeOK'
  BY <1>1, <1>4 DEF FollowInv, UpdatesTypeOK
<1>6. UpdateFits'
  BY <1>1, <1>3, <1>4, OneFits DEF FollowInv, UpdateFits
<1>7. GuardFits'
  <2>1. \A v \in Updates : Holds(v)' => Holds(v) /\ v # u
    BY <1>3, <1>4 DEF Holds
  <2>2. \A v \in Updates : ~Holds(v)'
    BY <1>2, <2>1 DEF FollowInv, GuardFits
  <2>3. QED
    BY <2>2 DEF GuardFits
<1>8. NewsWillBeRead'
  <2>1. \A v \in Updates : Awaited(v) => Awaited(v)'
    BY <1>3, <1>4 DEF Awaited
  <2>2. QED
    BY <1>1, <2>1, NewsIs DEF FollowInv, NewsWillBeRead, CheckDue, Awaited
<1>9. QED
  BY <1>5, <1>6, <1>7, <1>8 DEF FollowInv

LEMMA PkexecChecksStep ==
  ASSUME FollowInv, NEW u \in Updates, PkexecChecks(u) PROVE FollowInv'
<1>1. /\ UNCHANGED <<world, svc, updateRunning, locked>> /\ CheckNow
      /\ update[u].command = "sleeps"
  BY DEF PkexecChecks
<1>2. /\ update[u] \in UpdateType /\ update[u].method = "pkexec" /\ locked # u
      /\ ~update[u].watched /\ ~update[u].gaveUp
  <2>1. update[u] \in UpdateType /\ update[u].method \in {Nothing, "terminal", "pkexec"}
    BY DEF FollowInv, UpdatesTypeOK, UpdateType
  <2>2. update[u].method = "pkexec" /\ locked # u
    BY <1>1, <2>1 DEF FollowInv, UpdateFits, NotStarted
  <2>3. QED
    BY <2>1, <2>2 DEF FollowInv, UpdateFits
<1>3. PICK r \in UpdateType :
        /\ update' = [update EXCEPT ![u] = r] /\ r.method = "pkexec"
        /\ r.command = "done" /\ ~r.watched /\ ~r.gaveUp
  <2> DEFINE r == [update[u] EXCEPT !.command = "done"]
  <2>1. update' = [update EXCEPT ![u] = r]
    BY DEF PkexecChecks
  <2>2. SameOwner(r, update[u]) /\ r.command = "done"
    BY <1>2, SetCommand
  <2> HIDE DEF r
  <2>3. QED
    BY <1>2, <2>1, <2>2 DEF SameOwner
<1>4. /\ update' \in [Updates -> UpdateType] /\ update'[u] = r
      /\ \A v \in Updates : v # u => update'[v] = update[v]
  BY <1>3, OneUpdate DEF FollowInv
<1>5. UpdatesTypeOK'
  BY <1>1, <1>4, CheckNowType DEF FollowInv, UpdatesTypeOK
<1>6. UpdateFits'
  BY <1>1, <1>2, <1>3, <1>4, OneFits DEF FollowInv, UpdateFits
<1>7. GuardFits'
  <2>1. \A v \in Updates : Holds(v)' => Holds(v)
    BY <1>3, <1>4 DEF Holds
  <2>2. QED
    BY <1>1, <2>1 DEF FollowInv, GuardFits
<1>8. CheckDue'
  BY <1>1, CheckNowIsDue DEF FollowInv
<1>9. QED
  BY <1>5, <1>6, <1>7, <1>8 DEF FollowInv, NewsWillBeRead, CheckDue

\* A round of the watcher: it goes on, or asks for a check, or has given up; and it
\* clears the guard only when the guard is its own.
LEMMA WatchStep ==
  ASSUME FollowInv, NEW u \in Updates, Watch(u) PROVE FollowInv'
<1>1. /\ UNCHANGED <<world, svc, locked>> /\ update[u].watched
      /\ update[u] \in UpdateType
  BY DEF Watch, FollowInv, UpdatesTypeOK
<1>2. PICK quiet \in BOOLEAN, i \in BOOLEAN, spent \in BOOLEAN : Round(u, quiet, i, spent)
  BY DEF Watch
<1> DEFINE c == Completes(u, quiet)
           ends == c \/ spent
           r == AfterRound(u, quiet, i, spent)
<1>3. update' = [update EXCEPT ![u] = r]
  BY <1>2 DEF Round
<1>4. updateRunning' = (updateRunning /\ (update[u].gaveUp \/ ~(ends \/ i)))
  BY <1>2 DEF Round
<1>5. /\ CheckNow \/ UNCHANGED <<checker, pending, unread>>
      /\ c => CheckNow
  BY <1>2 DEF Round
<1>6. c => update[u].command = "done"
  BY DEF Completes, Completed
<1>7. /\ r \in UpdateType /\ r.method = update[u].method /\ r.watched = ~ends
      /\ r.command = (IF ends /\ update[u].command = "killed" THEN "done" ELSE update[u].command)
      /\ r.gaveUp = (update[u].gaveUp \/ i \/ (spent /\ ~c))
  <2> DEFINE command == IF ends /\ update[u].command = "killed" THEN "done" ELSE update[u].command
             launcher == IF ends THEN "gone" ELSE update[u].launcher
             going == Active(u) /\ ~ends
             refreshed == (Refreshed(u) \/ Refreshes(u, quiet, i)) /\ ~ends
             gaveUp == update[u].gaveUp \/ i \/ (spent /\ ~c)
             watched == ~ends
             s1 == [update[u] EXCEPT !.wrote = FALSE, !.watched = watched, !.launcher = launcher]
             s2 == [s1 EXCEPT !.command = command, !.active = going]
             s3 == [s2 EXCEPT !.refreshed = refreshed, !.gaveUp = gaveUp]
  <2>1. r = s3
    BY Zenon DEF AfterRound
  <2>2. /\ launcher \in {"none", "runs", "gone"}
        /\ command \in {"none", "runs", "sleeps", "done", "killed"}
    BY <1>1 DEF UpdateType
  <2>3. /\ watched \in BOOLEAN /\ going \in BOOLEAN /\ refreshed \in BOOLEAN
        /\ gaveUp \in BOOLEAN
    OBVIOUS
  <2> HIDE DEF r, command, launcher, going, refreshed, gaveUp, watched
  <2>4. s1 \in UpdateType /\ s1.method = update[u].method /\ s1.watched = watched
    BY <1>1, <2>2, <2>3 DEF UpdateType
  <2> HIDE DEF s1
  <2>5. /\ s2 \in UpdateType /\ s2.method = update[u].method /\ s2.watched = watched
        /\ s2.command = command
    BY <2>2, <2>3, <2>4 DEF UpdateType
  <2> HIDE DEF s2
  <2>6. /\ s3 \in UpdateType /\ s3.method = update[u].method /\ s3.watched = watched
        /\ s3.command = command /\ s3.gaveUp = gaveUp
    BY <2>2, <2>3, <2>5 DEF UpdateType
  <2> HIDE DEF s3
  <2>7. /\ r \in UpdateType /\ r.method = update[u].method /\ r.watched = watched
        /\ r.command = command /\ r.gaveUp = gaveUp
    BY <2>1, <2>6
  <2>8. QED
    BY <2>7 DEF command, gaveUp, watched
<1> HIDE DEF r, c
<1>8. /\ update' \in [Updates -> UpdateType] /\ update'[u] = r
      /\ \A v \in Updates : v # u => update'[v] = update[v]
  BY <1>3, <1>7, OneUpdate DEF FollowInv
<1>9. update[u].method = "terminal"
  <2>1. update[u].method \in {Nothing, "terminal", "pkexec"}
    BY <1>1 DEF UpdateType
  <2>2. QED
    BY <1>1, <2>1 DEF FollowInv, UpdateFits, NotStarted
<1>10. UpdatesTypeOK'
  <2>1. updateRunning' \in BOOLEAN
    BY <1>4 DEF FollowInv, UpdatesTypeOK
  <2>2. /\ checker' \in [Checkers -> [at : {"idle", "enter", "read", "save"}, data : Lists]]
        /\ {pending', unread'} \subseteq BOOLEAN
    BY <1>5, CheckNowType DEF FollowInv, UpdatesTypeOK
  <2>3. QED
    BY <1>1, <1>8, <2>1, <2>2 DEF FollowInv, UpdatesTypeOK
<1>11. UpdateFits'
  <2>1. r.command # "sleeps" /\ (locked = u => r.command = "runs")
    BY <1>7, <1>9 DEF FollowInv, UpdateFits
  <2>2. r.watched \/ r.gaveUp \/ r.command = "done"
    BY <1>6, <1>7
  <2>3. QED
    BY <1>1, <1>7, <1>8, <1>9, <2>1, <2>2, OneFits DEF FollowInv
<1>12. GuardFits'
  <2>1. \A v \in Updates : v # u => (Holds(v)' <=> Holds(v))
    BY <1>8 DEF Holds
  <2>2. Holds(u)' => Holds(u) /\ ~ends /\ ~i
    BY <1>1, <1>7, <1>8, <1>9 DEF Holds
  <2>3. ASSUME NEW v \in Updates, Holds(v)' PROVE updateRunning'
    <3>1. Holds(v) /\ updateRunning
      BY <2>1, <2>2, <2>3 DEF FollowInv, GuardFits
    <3>2. CASE v = u
      BY <1>4, <2>2, <2>3, <3>1, <3>2
    <3>3. CASE v # u
      <4>1. ~Holds(u)
        BY <3>1, <3>3 DEF FollowInv, GuardFits
      <4>2. update[u].gaveUp
        BY <1>1, <4>1 DEF Holds
      <4>3. QED
        BY <1>4, <3>1, <4>2
    <3>4. QED
      BY <3>2, <3>3
  <2>4. QED
    BY <2>1, <2>2, <2>3 DEF FollowInv, GuardFits
<1>13. NewsWillBeRead'
  <2>1. CASE c
    <3>1. CheckDue'
      BY <1>5, <2>1, CheckNowIsDue DEF FollowInv
    <3>2. QED
      BY <3>1 DEF NewsWillBeRead, CheckDue
  <2>2. CASE ~c
    <3>1. Awaited(u)'
      BY <1>7, <1>8, <2>2 DEF Awaited
    <3>2. QED
      BY <3>1 DEF NewsWillBeRead, Awaited
  <2>3. QED
    BY <2>1, <2>2
<1>14. QED
  BY <1>10, <1>11, <1>12, <1>13 DEF FollowInv

-----------------------------------------------------------------------------
LEMMA FollowNext == FollowInv /\ [UpdatesNext]_updatesVars => FollowInv'
<1> SUFFICES ASSUME FollowInv, [UpdatesNext]_updatesVars PROVE FollowInv'
  OBVIOUS
<1>1. ASSUME NEW c \in Checkers, CheckerStep(c) PROVE FollowInv'
  BY <1>1, EnterStep, CheckStep, SaveStep DEF CheckerStep
<1>2. ASSUME NEW u \in Updates, UpdateStep(u) PROVE FollowInv'
  BY <1>2, StartStep, CommandStep, LockStep, PkexecEndsStep, PkexecChecksStep, WatchStep
     DEF UpdateStep
<1>3. CASE UNCHANGED updatesVars
  <2>1. UNCHANGED <<world, svc, checker, pending, updateRunning, update, locked, unread>>
    BY <1>3 DEF updatesVars
  <2>2. UpdateFits' /\ GuardFits' /\ UpdatesTypeOK'
    BY <2>1, UpdatesKept DEF FollowInv, UpdatesTypeOK
  <2>3. NewsWillBeRead'
    BY <2>1 DEF FollowInv, NewsWillBeRead
  <2>4. QED
    BY <2>2, <2>3 DEF FollowInv
<1>4. QED
  BY <1>1, <1>2, <1>3, UnlockStep, RequestStep, ScheduleStep DEF UpdatesNext

\* What was begun is followed to its end, for any number of updates, transactions and
\* requests: a request that meets a running check, a transaction at the end of a command
\* and a launcher that leaves its command behind included (service.go, main.go).
THEOREM UpdatesFollowed == UpdatesSpec => []UpdatesAreFollowed
<1>1. FollowInv => UpdatesAreFollowed
  BY FollowAlone DEF FollowInv, UpdatesAreFollowed
<1>2. QED
  BY <1>1, FollowInit, FollowNext, PTL DEF UpdatesSpec

-----------------------------------------------------------------------------
(* ThinkPad.  A light does what the controller wants of it unless its write *)
(* was refused, its key was pressed and not read yet, or the key was missed *)
(* by a read of an illegible counter; and the settings that must last are,  *)
(* in memory and in the file, those of the profile that a start begins with. *)

Machines == [fan : FanLevels, keyboard : 0..LightMax, lid : BOOLEAN]
\* The profile that is remembered is one of the table.
Stores == {s \in [profiles : [Names -> Settings \union {None}], last : Names \union {None}] :
             s.last # None => s.profiles[s.last] # None}

ThinkPadTypeOK ==
  /\ machine \in Machines
  /\ {unseen, missed, sampled, external} \subseteq SUBSET Lights /\ refused \subseteq Controls
  /\ up \in {"off", "new", "warm"}
  /\ want \in Settings
  /\ store \in Stores /\ disk \in Stores
  /\ active \in Names \union {None} /\ selected \in Names \union {None}
  /\ lasting \in Settings \union {None}

\* The settings that must last are those of the profile that a start begins with.
Keeps(s, settings) == settings # None /\ s.last # None => s.profiles[s.last] = settings

ControlsInv ==
  /\ ThinkPadTypeOK
  /\ WantsFollowLights
  /\ Keeps(store, lasting) /\ Keeps(disk, lasting)

-----------------------------------------------------------------------------
(* Settings and the machine.                                               *)

LEMMA Levels ==
  ThinkPadAssumption =>
    /\ MaxLevel \in Nat /\ MaxLevel >= 1 /\ LightMax \in 1..MaxLevel /\ None \notin Names /\ None \notin Settings
BY DEF ThinkPadAssumption

LEMMA WrittenOK ==
  ASSUME ThinkPadAssumption, NEW m \in Machines, NEW s \in Settings, NEW mask \in SUBSET Controls
  PROVE  /\ Written(m, s, mask) \in Machines
         /\ \A c \in Controls : c \in mask => Agrees(Written(m, s, mask), s, c)
         /\ \A c \in Controls : c \notin mask => Written(m, s, mask)[c] = m[c]
<1>1. Clamped(KeyboardValue(s)) \in 0..LightMax
  BY Levels DEF Clamped, KeyboardValue, Settings
<1>2. Written(m, s, mask) \in Machines
  BY <1>1 DEF Written, Machines, Settings
<1>3. \A c \in Controls : c \in mask => Agrees(Written(m, s, mask), s, c)
  BY <1>1 DEF Written, Machines, Settings, Agrees, Controls
<1>4. \A c \in Controls : c \notin mask => Written(m, s, mask)[c] = m[c]
  BY DEF Written, Machines, Controls
<1>5. QED
  BY <1>2, <1>3, <1>4

LEMMA FollowedOK ==
  ASSUME ThinkPadAssumption, NEW s \in Settings, NEW m \in Machines, NEW changed
  PROVE  /\ Followed(s, m, changed) \in Settings
         /\ \A c \in Lights : c \in changed \/ Agrees(m, s, c) => Agrees(m, Followed(s, m, changed), c)
         /\ changed = {} => Followed(s, m, changed) = s
<1> DEFINE f == Followed(s, m, changed)
           on == IF "keyboard" \in changed THEN m.keyboard > 0 ELSE s.on
           level == IF "keyboard" \in changed /\ m.keyboard > 0 THEN m.keyboard ELSE s.level
           lid == IF "lid" \in changed THEN m.lid ELSE s.lid
<1>1. /\ m.keyboard \in 0..LightMax /\ m.keyboard \in 0..MaxLevel /\ m.lid \in BOOLEAN
      /\ MaxLevel \in Nat /\ LightMax \in Nat
  BY Levels DEF Machines
<1>2. on \in BOOLEAN /\ level \in 0..MaxLevel /\ lid \in BOOLEAN
  <2>1. s.on \in BOOLEAN /\ s.level \in 0..MaxLevel /\ s.lid \in BOOLEAN
    BY DEF Settings
  <2>2. (m.keyboard > 0) \in BOOLEAN
    BY <1>1
  <2>3. on \in BOOLEAN
    BY <2>1, <2>2, Zenon
  <2>4. QED
    BY <1>1, <2>1, <2>3
<1>3. f = [s EXCEPT !.on = on, !.level = level, !.lid = lid]
  BY DEF Followed
<1>4. "keyboard" \in changed \/ Agrees(m, s, "keyboard") => m.keyboard = Clamped(IF on THEN level ELSE 0)
  BY <1>1 DEF Agrees, KeyboardValue, Clamped
<1>5. "lid" \in changed \/ Agrees(m, s, "lid") => m.lid = lid
  BY DEF Agrees
<1>6. changed = {} => on = s.on /\ level = s.level /\ lid = s.lid
  OBVIOUS
<1> HIDE DEF f, on, level, lid
<1>7. f \in Settings /\ f.fan = s.fan /\ f.on = on /\ f.level = level /\ f.lid = lid
  BY <1>2, <1>3 DEF Settings
<1>8. \A c \in Lights : c \in changed \/ Agrees(m, s, c) => Agrees(m, f, c)
  <2>1. "keyboard" \in changed \/ Agrees(m, s, "keyboard") => Agrees(m, f, "keyboard")
    BY <1>4, <1>7 DEF Agrees, KeyboardValue
  <2>2. "lid" \in changed \/ Agrees(m, s, "lid") => Agrees(m, f, "lid")
    BY <1>5, <1>7 DEF Agrees
  <2>3. QED
    BY <2>1, <2>2 DEF Lights
<1>9. changed = {} => f = s
  BY <1>3, <1>6 DEF Settings
<1>10. QED
  BY <1>7, <1>8, <1>9 DEF f

\* A light is as it is wanted once it has been written or read.
LEMMA ApplyOK ==
  ASSUME ThinkPadAssumption, ThinkPadTypeOK, NEW s \in Settings, NEW mask \in SUBSET Controls,
         NEW bad \in SUBSET mask, NEW lit \in SUBSET Lights, NEW changed \in SUBSET Lights,
         NEW legible \in Legible,
         Apply(s, mask, bad, lit, changed, legible)
  PROVE  /\ machine' \in Machines /\ want' \in Settings
         /\ {unseen', missed', sampled', external'} \subseteq SUBSET Lights
         /\ refused' \subseteq Controls
         /\ \A c \in Lights :
              (c \in mask \/ c \in changed \/ c \in refused \/ c \in unseen \/ c \in missed
                 \/ Agrees(machine, s, c))
              /\ c \notin refused' /\ c \notin missed'
                => Agrees(machine', want', c)
         /\ \A c \in Controls : c \notin mask => machine'[c] = machine[c]
         /\ mask = Controls =>
              \A c \in Controls : machine'[c] # machine[c] => Agrees(machine', s, c)
         /\ changed \subseteq mask \ bad => want' = s
<1> DEFINE done == mask \ bad
<1>1. /\ machine' = Written(machine, s, done)
      /\ want' = Followed(s, machine', changed \ done)
      /\ external' = (lit \ done) \union (changed \ done)
      /\ unseen' = unseen \ (done \union legible)
      /\ missed' = (missed \union unseen) \ (done \union (changed \ done))
      /\ sampled' = (sampled \ done) \union legible
      /\ refused' = (refused \ mask) \union bad
  BY DEF Apply, HardwareRead
<1>2. machine \in Machines /\ done \in SUBSET Controls
  BY DEF ThinkPadTypeOK
<1>3. /\ machine' \in Machines
      /\ \A c \in Controls : c \in done => Agrees(machine', s, c)
      /\ \A c \in Controls : c \notin done => machine'[c] = machine[c]
  BY <1>1, <1>2, WrittenOK
<1>4. /\ want' \in Settings
      /\ \A c \in Lights : c \in changed \ done \/ Agrees(machine', s, c) => Agrees(machine', want', c)
      /\ changed \ done = {} => want' = s
  BY <1>1, <1>3, FollowedOK
<1>5. Lights \subseteq Controls
  BY DEF Lights, Controls
<1>6. ASSUME NEW c \in Lights, c \notin refused', c \notin missed',
             \/ c \in mask \/ c \in changed \/ c \in refused \/ c \in unseen \/ c \in missed
             \/ Agrees(machine, s, c)
      PROVE  Agrees(machine', want', c)
  <2>1. CASE c \in mask
    BY <1>1, <1>3, <1>4, <1>5, <1>6, <2>1
  <2>2. CASE c \notin mask
    <3>1. c \notin refused
      BY <1>1, <1>6, <2>2
    <3>2. c \in changed \/ Agrees(machine, s, c)
      BY <1>1, <1>6, <2>2, <3>1
    <3>3. machine'[c] = machine[c]
      BY <1>3, <1>5, <2>2
    <3>4. Agrees(machine, s, c) => Agrees(machine', s, c)
      BY <1>2, <1>3, <3>3 DEF Agrees, Lights, Machines
    <3>5. QED
      BY <1>4, <2>2, <3>2, <3>4
  <2>3. QED
    BY <2>1, <2>2
<1>7. refused' \subseteq Controls /\ {unseen', missed', sampled', external'} \subseteq SUBSET Lights
  BY <1>1 DEF ThinkPadTypeOK, Legible
<1>8. \A c \in Controls : machine'[c] # machine[c] => Agrees(machine', s, c)
  BY <1>3
<1>9. QED
  BY <1>1, <1>3, <1>4, <1>6, <1>7, <1>8
-----------------------------------------------------------------------------
(* The steps.                                                              *)

\* What a step keeps besides the types.
Kept == ControlsInv' /\ ControlIsIndependent /\ StartRestores

LEMMA FewChange ==
  ASSUME NEW c, \A d \in Controls : d # c => machine'[d] = machine[d]
  PROVE  ControlIsIndependent
<1>1. ChangedControls \subseteq {c}
  BY DEF ChangedControls
<1>2. IsFiniteSet({c}) /\ Cardinality({c}) = 1
  BY FS_Singleton
<1>3. Cardinality(ChangedControls) \in Nat /\ Cardinality(ChangedControls) <= 1
  BY <1>1, <1>2, FS_Subset, FS_CardinalityType
<1>4. QED
  BY <1>3 DEF ControlIsIndependent

LEMMA UnchangedMachine == ASSUME UNCHANGED machine PROVE ControlIsIndependent
BY FewChange

\* Only the first settings restore.
LEMMA NoStart == ASSUME ~(up = "new" /\ up' = "warm") PROVE StartRestores
BY DEF StartRestores

\* The lights that a step leaves alone.
LEMMA LightsKept ==
  ASSUME WantsFollowLights, UNCHANGED <<machine, want, unseen, missed, refused, up>>
  PROVE  WantsFollowLights'
BY DEF WantsFollowLights, Agrees, KeyboardValue, Clamped

LEMMA SavedOK ==
  ASSUME ThinkPadAssumption, NEW s \in Stores, NEW name \in Names, NEW settings \in Settings
  PROVE  /\ Saved(s, name, settings) \in Stores
         /\ Saved(s, name, settings).last = s.last
         /\ Saved(s, name, settings).profiles[name] = settings
         /\ \A n \in Names \ {name} : Saved(s, name, settings).profiles[n] = s.profiles[n]
<1> DEFINE table == [s.profiles EXCEPT ![name] = settings]
<1>1. s.profiles \in [Names -> Settings \union {None}] /\ s.last \in Names \union {None}
  BY DEF Stores
<1>2. table \in [Names -> Settings \union {None}] /\ table[name] = settings
      /\ \A n \in Names \ {name} : table[n] = s.profiles[n]
  BY <1>1
<1>3. Saved(s, name, settings) = [s EXCEPT !.profiles = table]
  BY DEF Saved
<1> HIDE DEF table
<1>4. /\ Saved(s, name, settings).profiles = table /\ Saved(s, name, settings).last = s.last
      /\ Saved(s, name, settings) \in [profiles : [Names -> Settings \union {None}], last : Names \union {None}]
  BY <1>1, <1>2, <1>3 DEF Stores
<1>5. settings # None
  BY Levels
<1>6. s.last # None => table[s.last] # None
  BY <1>1, <1>2, <1>5 DEF Stores
<1>7. QED
  BY <1>2, <1>4, <1>6 DEF Stores

LEMMA RememberedOK ==
  ASSUME NEW s \in Stores, NEW name \in Names, s.profiles[name] # None
  PROVE  /\ Remembered(s, name) \in Stores
         /\ Remembered(s, name).last = name /\ Remembered(s, name).profiles = s.profiles
BY DEF Remembered, Stores

LEMMA DirectOK ==
  ASSUME ThinkPadAssumption, ControlsInv, NEW control \in Controls, NEW s \in Settings,
         \A c \in Lights \ {control} : Agrees(machine, want, c) => Agrees(machine, s, c),
         Direct(control, s)
  PROVE  Kept
<1> PICK bad \in SUBSET {control}, ok \in BOOLEAN, legible \in Legible :
      /\ up # "off" /\ Press
      /\ Apply(s, {control}, bad, external, KeyChanges(legible), legible)
      /\ IF bad = {} /\ active # None
         THEN Stored(Saved(store, active, want'), ok)
         ELSE ok /\ UNCHANGED <<store, disk>>
      /\ Lasts(bad = {} /\ ok, active, want')
      /\ UNCHANGED <<up, active, selected, starts>>
  BY DEF Direct
<1>1. ThinkPadTypeOK
  BY DEF ControlsInv
<1>2. KeyChanges(legible) \in SUBSET Lights /\ external \in SUBSET Lights /\ {control} \in SUBSET Controls
  BY <1>1 DEF KeyChanges, ThinkPadTypeOK
<1>3. /\ machine' \in Machines /\ want' \in Settings
      /\ {unseen', missed', sampled', external'} \subseteq SUBSET Lights
      /\ refused' \subseteq Controls
      /\ \A c \in Lights :
           (c \in {control} \/ c \in KeyChanges(legible) \/ c \in refused \/ c \in unseen
              \/ c \in missed \/ Agrees(machine, s, c))
             /\ c \notin refused' /\ c \notin missed'
             => Agrees(machine', want', c)
      /\ \A c \in Controls : c \notin {control} => machine'[c] = machine[c]
  BY <1>1, <1>2, ApplyOK
<1>5. WantsFollowLights'
  <2> SUFFICES ASSUME up' = "warm", NEW c \in Lights, c \notin refused', c \notin missed'
               PROVE  Agrees(machine', want', c)
    BY DEF WantsFollowLights
  <2>1. c \in unseen \/ c \in missed \/ c \in refused \/ Agrees(machine, want, c)
    BY DEF ControlsInv, WantsFollowLights
  <2>2. c \in {control} \/ c \in unseen \/ c \in missed \/ c \in refused \/ Agrees(machine, s, c)
    BY <2>1
  <2>3. QED
    BY <1>3, <2>2
<1>6. store' \in Stores /\ disk' \in Stores /\ lasting' \in Settings \union {None}
      /\ Keeps(store', lasting') /\ Keeps(disk', lasting')
  <2>1. store \in Stores /\ disk \in Stores /\ active \in Names \union {None}
    BY <1>1 DEF ThinkPadTypeOK
  <2>2. CASE bad = {} /\ active # None
    <3>1. Stored(Saved(store, active, want'), ok)
      BY <2>2
    <3>2. /\ Saved(store, active, want') \in Stores
          /\ Saved(store, active, want').profiles[active] = want'
      BY <1>3, <2>1, <2>2, SavedOK
    <3>3. QED
      BY <1>3, <2>1, <3>1, <3>2 DEF Stored, Lasts, Keeps
  <2>3. CASE ~(bad = {} /\ active # None)
    BY <2>1, <2>3 DEF Lasts, Keeps
  <2>4. QED
    BY <2>2, <2>3
<1>7. ControlsInv'
  BY <1>1, <1>3, <1>5, <1>6 DEF ControlsInv, ThinkPadTypeOK
<1>8. ControlIsIndependent
  BY <1>3, FewChange
<1>9. StartRestores
  BY NoStart
<1>10. QED
  BY <1>7, <1>8, <1>9 DEF Kept

LEMMA DirectStep ==
  ASSUME ThinkPadAssumption, ControlsInv, SetFanLevel \/ SetKeyboardStep \/ ToggleKeyboard \/ ToggleLid
  PROVE  Kept
<1>1. want \in Settings /\ MaxLevel \in Nat /\ MaxLevel >= 1
  BY Levels DEF ControlsInv, ThinkPadTypeOK
<1>2. CASE SetFanLevel
  <2> PICK level \in FanLevels : Direct("fan", [want EXCEPT !.fan = level])
    BY <1>2 DEF SetFanLevel
  <2> DEFINE s == [want EXCEPT !.fan = level]
  <2>1. s \in Settings
    BY <1>1 DEF Settings
  <2>2. \A c \in Lights : Agrees(machine, want, c) => Agrees(machine, s, c)
    BY <1>1 DEF Agrees, Lights, Settings, KeyboardValue, Clamped
  <2>3. QED
    BY <2>1, <2>2, DirectOK DEF Controls
<1>3. ASSUME NEW on \in BOOLEAN, NEW level \in 0..MaxLevel,
             Direct("keyboard", [want EXCEPT !.on = on, !.level = level])
      PROVE  Kept
  <2> DEFINE s == [want EXCEPT !.on = on, !.level = level]
  <2>1. s \in Settings
    BY <1>1 DEF Settings
  <2>2. \A c \in Lights \ {"keyboard"} : Agrees(machine, want, c) => Agrees(machine, s, c)
    BY <1>1 DEF Agrees, Lights, Settings
  <2>3. QED
    BY <1>3, <2>1, <2>2, DirectOK DEF Controls
<1>4. [want EXCEPT !.on = FALSE] = [want EXCEPT !.on = FALSE, !.level = want.level]
      /\ want.level \in 0..MaxLevel
  BY <1>1 DEF Settings
<1>5. CASE SetKeyboardStep
  <2>1. CASE Direct("keyboard", [want EXCEPT !.on = FALSE])
    BY <1>3, <1>4, <2>1
  <2>2. ASSUME NEW level \in 1..MaxLevel, Direct("keyboard", [want EXCEPT !.on = TRUE, !.level = level])
        PROVE  Kept
    <3>1. level \in 0..MaxLevel
      BY <1>1
    <3>2. QED
      BY <1>3, <2>2, <3>1
  <2>3. QED
    BY <1>5, <2>1, <2>2 DEF SetKeyboardStep
<1>6. CASE ToggleKeyboard
  <2>1. CASE want.on
    BY <1>3, <1>4, <1>6, <2>1 DEF ToggleKeyboard
  <2>2. CASE ~want.on
    <3> DEFINE level == IF want.level < 1 THEN 1 ELSE want.level
    <3>1. level \in 0..MaxLevel
      BY <1>1, <1>4
    <3>2. Direct("keyboard", [want EXCEPT !.on = TRUE, !.level = level])
      BY <1>6, <2>2 DEF ToggleKeyboard
    <3> HIDE DEF level
    <3>3. QED
      BY <1>3, <3>1, <3>2
  <2>3. QED
    BY <2>1, <2>2
<1>7. CASE ToggleLid
  <2> DEFINE s == [want EXCEPT !.lid = ~want.lid]
  <2>1. s \in Settings
    BY <1>1 DEF Settings
  <2>2. \A c \in Lights \ {"lid"} : Agrees(machine, want, c) => Agrees(machine, s, c)
    BY <1>1 DEF Agrees, Lights, Settings, KeyboardValue, Clamped
  <2>3. QED
    BY <1>7, <2>1, <2>2, DirectOK DEF Controls, ToggleLid
<1>8. QED
  BY <1>2, <1>5, <1>6, <1>7

LEMMA NamedOK ==
  ASSUME ThinkPadAssumption, ControlsInv, NEW name \in Profiles(store), NEW bad \in SUBSET Controls,
         NEW ok \in BOOLEAN, NEW lit \in SUBSET Lights, NEW changed \in SUBSET Lights,
         NEW legible \in Legible,
         ApplyNamed(name, bad, ok, lit, changed, legible),
         up' \in {"new", "warm"}, selected' \in Names \union {None}
  PROVE  /\ ControlsInv'
         /\ \A c \in ChangedControls : Agrees(machine', store.profiles[name], c)
         /\ lasting' # None =>
              \A c \in Controls : Agrees(machine', store.profiles[name], c)
<1> DEFINE s == store.profiles[name]
<1>1. ThinkPadTypeOK
  BY DEF ControlsInv
<1>2. name \in Names /\ s # None /\ store \in Stores /\ disk \in Stores
  BY <1>1 DEF Profiles, ThinkPadTypeOK
<1>3. s \in Settings
  BY <1>2 DEF Stores
<1>4. /\ Apply(s, Controls, bad, lit, changed, legible) /\ active' = name
      /\ IF bad = {} /\ store.last # name
         THEN Stored(Remembered(store, name), ok)
         ELSE ok /\ UNCHANGED <<store, disk>>
      /\ Lasts(bad = {} /\ ok, name, want')
  BY DEF ApplyNamed
<1> HIDE DEF s
<1>5. /\ machine' \in Machines /\ want' \in Settings
      /\ {unseen', missed', sampled', external'} \subseteq SUBSET Lights
      /\ refused' \subseteq Controls
      /\ \A c \in Lights :
           c \in Controls /\ c \notin refused' /\ c \notin missed' => Agrees(machine', want', c)
      /\ \A c \in Controls : machine'[c] # machine[c] => Agrees(machine', s, c)
      /\ changed \subseteq Controls \ bad => want' = s
  <2> SUFFICES ASSUME NEW t \in Settings, t = s
               PROVE  /\ machine' \in Machines /\ want' \in Settings
                      /\ {unseen', missed', sampled', external'} \subseteq SUBSET Lights
                      /\ refused' \subseteq Controls
                      /\ \A c \in Lights :
                           c \in Controls /\ c \notin refused' /\ c \notin missed'
                             => Agrees(machine', want', c)
                      /\ \A c \in Controls : machine'[c] # machine[c] => Agrees(machine', t, c)
                      /\ changed \subseteq Controls \ bad => want' = t
    BY <1>3
  <2>1. Apply(t, Controls, bad, lit, changed, legible)
    BY <1>4 DEF Apply
  <2>2. QED
    BY <1>1, <2>1, ApplyOK
<1>7. WantsFollowLights'
  BY <1>5 DEF WantsFollowLights, Lights, Controls
<1>8. /\ store' \in Stores /\ disk' \in Stores
      /\ store'.profiles[name] = s
      /\ lasting' # None => bad = {} /\ lasting' = want' /\ store'.last = name /\ disk' = store'
  <2>1. CASE bad = {} /\ store.last # name
    <3>1. /\ Remembered(store, name) \in Stores
          /\ Remembered(store, name).profiles = store.profiles
      BY <1>2, RememberedOK DEF s
    <3>2. QED
      BY <1>2, <1>4, <2>1, <3>1 DEF Stored, Lasts, s
  <2>2. CASE ~(bad = {} /\ store.last # name)
    BY <1>2, <1>4, <2>2 DEF Lasts, s
  <2>3. QED
    BY <2>1, <2>2
<1>9. bad = {} => want' = s
  BY <1>5 DEF Lights, Controls
<1>10. Keeps(store', lasting') /\ Keeps(disk', lasting') /\ lasting' \in Settings \union {None}
  BY <1>5, <1>8, <1>9 DEF Keeps
<1>11. ControlsInv'
  BY <1>1, <1>2, <1>4, <1>5, <1>7, <1>8, <1>10 DEF ControlsInv, ThinkPadTypeOK
<1>12. lasting' # None => \A c \in Controls : Agrees(machine', s, c)
  <2> SUFFICES ASSUME lasting' # None PROVE \A c \in Controls : Agrees(machine', s, c)
    OBVIOUS
  <2>1. bad = {} /\ Controls \ bad = Controls
    BY <1>8
  <2>2. machine' = Written(machine, s, Controls)
    BY <1>4, <2>1 DEF Apply
  <2>3. QED
    BY <1>1, <1>3, <2>2, WrittenOK DEF ThinkPadTypeOK
<1>13. QED
  BY <1>5, <1>11, <1>12 DEF ChangedControls, s

LEMMA ApplyStep ==
  ASSUME ThinkPadAssumption, ControlsInv, ApplyProfile PROVE Kept
<1> PICK name \in Profiles(store), bad \in SUBSET Controls, ok \in BOOLEAN, legible \in Legible :
      /\ up # "off"
      /\ ApplyNamed(name, bad, ok, external, KeyChanges(legible), legible)
      /\ selected' = name /\ UNCHANGED up
  BY DEF ApplyProfile
<1>1. /\ KeyChanges(legible) \in SUBSET Lights /\ external \in SUBSET Lights
      /\ up' \in {"new", "warm"} /\ selected' \in Names \union {None}
  BY DEF ControlsInv, ThinkPadTypeOK, KeyChanges, Profiles
<1>2. /\ ControlsInv'
      /\ \A c \in ChangedControls : Agrees(machine', store.profiles[name], c)
  BY <1>1, NamedOK
<1>3. active' = name
  BY DEF ApplyNamed
<1>4. ControlIsIndependent
  BY <1>2, <1>3 DEF ControlIsIndependent
<1>5. StartRestores
  BY NoStart
<1>6. QED
  BY <1>2, <1>4, <1>5 DEF Kept

-----------------------------------------------------------------------------
(* The file alone.                                                         *)

\* A step of the file: the machine and what is known of it stay.
LEMMA FileStepOK ==
  ASSUME ControlsInv, UNCHANGED <<machine, unseen, missed, up, sampled, want, external, refused>>,
         store' \in Stores, disk' \in Stores, lasting' \in Settings \union {None},
         active' \in Names \union {None}, selected' \in Names \union {None},
         Keeps(store', lasting'), Keeps(disk', lasting')
  PROVE  Kept
<1>1. WantsFollowLights'
  BY LightsKept DEF ControlsInv
<1>2. ControlsInv'
  BY <1>1 DEF ControlsInv, ThinkPadTypeOK
<1>3. ControlIsIndependent
  BY UnchangedMachine
<1>4. StartRestores
  BY NoStart
<1>5. QED
  BY <1>2, <1>3, <1>4 DEF Kept

LEMMA SaveProfileStep == ASSUME ThinkPadAssumption, ControlsInv, SaveProfile PROVE Kept
<1> PICK name \in Names, ok \in BOOLEAN, rememberOk \in BOOLEAN :
      LET table == Saved(store, name, want)
      IN  /\ selected' = name
          /\ IF ~ok \/ store.last = name
             THEN rememberOk /\ Stored(table, ok)
             ELSE /\ store' = Remembered(table, name)
                  /\ disk' = IF rememberOk THEN store' ELSE table
          /\ active' = IF ok THEN name ELSE active
          /\ Lasts(ok /\ rememberOk, name, want)
          /\ UNCHANGED <<machine, unseen, missed, up, sampled, want, external, refused>>
  BY DEF SaveProfile
<1> DEFINE table == Saved(store, name, want)
<1>1. /\ want \in Settings /\ store \in Stores /\ disk \in Stores /\ active \in Names \union {None}
      /\ None \notin Settings
  BY Levels DEF ControlsInv, ThinkPadTypeOK
<1>2. table \in Stores /\ table.profiles[name] = want /\ table.last = store.last
  BY <1>1, SavedOK
<1> HIDE DEF table
<1>3. /\ Remembered(table, name) \in Stores /\ Remembered(table, name).last = name
      /\ Remembered(table, name).profiles = table.profiles
  BY <1>1, <1>2, RememberedOK
<1>4. /\ store' \in Stores /\ disk' \in Stores /\ store'.profiles[name] = want
      /\ lasting' # None => lasting' = want /\ disk' = store' /\ store'.last = name
  <2>1. CASE ~ok \/ store.last = name
    BY <1>1, <1>2, <2>1 DEF Stored, Lasts, table
  <2>2. CASE ~(~ok \/ store.last = name)
    BY <1>1, <1>2, <1>3, <2>2 DEF Lasts, table
  <2>3. QED
    BY <2>1, <2>2
<1>5. lasting' \in Settings \union {None} /\ Keeps(store', lasting') /\ Keeps(disk', lasting')
  BY <1>1, <1>4 DEF Keeps
<1>6. active' \in Names \union {None} /\ selected' \in Names \union {None}
  BY <1>1
<1>7. QED
  BY <1>4, <1>5, <1>6, FileStepOK

LEMMA DeleteStep == ASSUME ThinkPadAssumption, ControlsInv, DeleteProfile PROVE Kept
<1> PICK name \in Profiles(store), ok \in BOOLEAN :
      /\ selected' = IF selected = name THEN None ELSE selected
      /\ IF Cardinality(Profiles(store)) = 1 THEN ok /\ UNCHANGED <<store, disk, active>>
         ELSE /\ Stored([profiles |-> [store.profiles EXCEPT ![name] = None],
                         last |-> IF store.last = name THEN None ELSE store.last], ok)
              /\ active' = IF ok /\ active = name THEN None ELSE active
      /\ lasting' = IF ok /\ name # active THEN lasting ELSE None
      /\ UNCHANGED <<machine, unseen, missed, up, sampled, want, external, refused>>
  BY DEF DeleteProfile
<1> DEFINE table == [store.profiles EXCEPT ![name] = None]
           last == IF store.last = name THEN None ELSE store.last
           new == [profiles |-> table, last |-> last]
<1>1. /\ store \in Stores /\ disk \in Stores /\ active \in Names \union {None}
      /\ selected \in Names \union {None} /\ lasting \in Settings \union {None}
      /\ Keeps(store, lasting) /\ Keeps(disk, lasting)
  BY DEF ControlsInv, ThinkPadTypeOK
<1>2. store.profiles \in [Names -> Settings \union {None}] /\ store.last \in Names \union {None}
  BY <1>1 DEF Stores
<1>3. name \in Names
  BY DEF Profiles
<1>4. /\ table \in [Names -> Settings \union {None}] /\ last \in Names \union {None}
      /\ last # None => last = store.last /\ table[last] = store.profiles[last]
  BY <1>2, <1>3
<1> HIDE DEF table, last
<1>5. new \in Stores
  BY <1>1, <1>4 DEF Stores
<1>6. Keeps(new, lasting)
  BY <1>1, <1>4 DEF Keeps
<1> HIDE DEF new
<1>7. /\ store' \in Stores /\ disk' \in Stores /\ active' \in Names \union {None}
      /\ Keeps(store', lasting') /\ Keeps(disk', lasting')
  <2>1. CASE Cardinality(Profiles(store)) = 1
    BY <1>1, <2>1 DEF Keeps
  <2>2. CASE Cardinality(Profiles(store)) # 1
    <3>1. Stored(new, ok) /\ active' = IF ok /\ active = name THEN None ELSE active
      BY <2>2 DEF new, table, last
    <3>2. QED
      BY <1>1, <1>5, <1>6, <3>1 DEF Stored, Keeps
  <2>3. QED
    BY <2>1, <2>2
<1>8. lasting' \in Settings \union {None} /\ selected' \in Names \union {None}
  BY <1>1
<1>9. QED
  BY <1>7, <1>8, FileStepOK

LEMMA RenameStep == ASSUME ThinkPadAssumption, ControlsInv, RenameProfile PROVE Kept
<1> DEFINE from == selected
           Possible(to) == from \in Profiles(store) /\ (to = from \/ to \notin Profiles(store))
<1> PICK to \in Names, ok \in BOOLEAN :
      /\ selected' = to
      /\ IF ~Possible(to) THEN ok /\ UNCHANGED <<store, disk, active>>
         ELSE /\ Stored([profiles |-> [[store.profiles EXCEPT ![from] = None]
                                         EXCEPT ![to] = store.profiles[from]],
                         last |-> IF store.last = from THEN to ELSE store.last], ok)
              /\ active' = IF ok /\ active = from THEN to ELSE active
      /\ lasting' = IF ok THEN lasting ELSE None
      /\ UNCHANGED <<machine, unseen, missed, up, sampled, want, external, refused>>
  BY DEF RenameProfile
<1> DEFINE table == [[store.profiles EXCEPT ![from] = None] EXCEPT ![to] = store.profiles[from]]
           last == IF store.last = from THEN to ELSE store.last
           new == [profiles |-> table, last |-> last]
<1>1. /\ store \in Stores /\ disk \in Stores /\ active \in Names \union {None}
      /\ lasting \in Settings \union {None}
      /\ Keeps(store, lasting) /\ Keeps(disk, lasting)
  BY DEF ControlsInv, ThinkPadTypeOK
<1>2. store.profiles \in [Names -> Settings \union {None}] /\ store.last \in Names \union {None}
      /\ (store.last # None => store.profiles[store.last] # None)
  BY <1>1 DEF Stores
<1>3. ASSUME Possible(to) PROVE new \in Stores /\ Keeps(new, lasting)
  <2>1. from \in Names /\ store.profiles[from] # None /\ store.profiles[from] \in Settings \union {None}
    BY <1>2, <1>3 DEF Profiles
  <2>2. table \in [Names -> Settings \union {None}] /\ last \in Names \union {None}
    BY <1>2, <2>1
  <2>3. last # None => store.last # None /\ table[last] = store.profiles[store.last]
    <3>1. CASE store.last = from
      <4>1. last = to /\ from # None
        BY <2>1, <3>1, Levels
      <4>2. table[to] = store.profiles[from]
        BY <1>2, <2>1
      <4>3. QED
        BY <3>1, <4>1, <4>2
    <3>2. CASE store.last # from /\ store.last # None
      <4>1. store.last \in Profiles(store)
        BY <1>2, <3>2 DEF Profiles
      <4>2. store.last # to
        BY <1>3, <3>2, <4>1
      <4>3. QED
        BY <1>2, <2>1, <3>2, <4>2
    <3>3. CASE store.last = None
      BY <2>1, <3>3, Levels
    <3>4. QED
      BY <3>1, <3>2, <3>3
  <2> HIDE DEF table, last
  <2>4. new \in Stores
    BY <1>2, <2>2, <2>3 DEF Stores
  <2>5. QED
    BY <1>1, <2>3, <2>4 DEF Keeps
<1>4. /\ store' \in Stores /\ disk' \in Stores /\ active' \in Names \union {None}
      /\ Keeps(store', lasting') /\ Keeps(disk', lasting')
  <2>1. CASE ~Possible(to)
    BY <1>1, <2>1 DEF Keeps
  <2>2. CASE Possible(to)
    <3>1. Stored(new, ok) /\ active' = IF ok /\ active = from THEN to ELSE active
      BY <2>2
    <3>2. new \in Stores /\ Keeps(new, lasting)
      BY <1>3, <2>2
    <3> HIDE DEF new
    <3>3. QED
      BY <1>1, <3>1, <3>2 DEF Stored, Keeps
  <2>3. QED
    BY <2>1, <2>2
<1>5. lasting' \in Settings \union {None} /\ selected' \in Names \union {None}
  BY <1>1
<1>6. QED
  BY <1>4, <1>5, FileStepOK
-----------------------------------------------------------------------------
(* The hardware, the keys and the process.                                 *)

LEMMA ReadStep == ASSUME ThinkPadAssumption, ControlsInv, ReadHardware \/ PickProfile PROVE Kept
<1>1. CASE PickProfile
  <2>1. /\ UNCHANGED <<machine, unseen, missed, up, sampled, want, store, active, external, disk, refused, lasting>>
        /\ selected' \in Names \union {None}
    BY <1>1 DEF PickProfile, Profiles
  <2>2. QED
    BY <2>1, FileStepOK DEF ControlsInv, ThinkPadTypeOK
<1>2. CASE ReadHardware
  <2> PICK legible \in Legible : HardwareRead(want, machine, {}, external, KeyChanges(legible), legible)
    BY <1>2 DEF ReadHardware
  <2> DEFINE changed == KeyChanges(legible)
  <2>1. ThinkPadTypeOK /\ changed \subseteq Lights /\ legible \subseteq Lights
    BY DEF ControlsInv, ThinkPadTypeOK, KeyChanges, Legible
  <2> HIDE DEF changed
  <2>2. /\ want' = Followed(want, machine, changed)
        /\ external' = external \union changed /\ unseen' = unseen \ legible
        /\ missed' = (missed \union unseen) \ changed /\ sampled' = sampled \union legible
        /\ UNCHANGED <<machine, up, store, active, selected, disk, refused, lasting>>
    BY <1>2 DEF ReadHardware, HardwareRead, changed
  <2>3. /\ want' \in Settings
        /\ \A c \in Lights : c \in changed \/ Agrees(machine, want, c) => Agrees(machine, want', c)
    BY <2>1, <2>2, FollowedOK DEF ThinkPadTypeOK
  <2>4. WantsFollowLights'
    <3> SUFFICES ASSUME up' = "warm", NEW c \in Lights, c \notin refused', c \notin missed'
                 PROVE  Agrees(machine', want', c)
      BY DEF WantsFollowLights
    <3>1. c \in changed \/ Agrees(machine, want, c)
      BY <2>2 DEF ControlsInv, WantsFollowLights
    <3>2. QED
      BY <2>2, <2>3, <3>1 DEF Agrees
  <2>5. ControlsInv'
    BY <2>1, <2>2, <2>3, <2>4 DEF ControlsInv, ThinkPadTypeOK, Keeps
  <2>6. QED
    BY <2>2, <2>5, UnchangedMachine, NoStart DEF Kept
<1>3. QED
  BY <1>1, <1>2

LEMMA ReconfigureStep == ASSUME ThinkPadAssumption, ControlsInv, Reconfigure PROVE Kept
<1> DEFINE begin == FromMachine(machine)
<1> PICK configured \in Names \union {None}, applyOnStart \in BOOLEAN,
         bad \in SUBSET Controls, ok \in BOOLEAN, legible \in Legible :
      LET name == StartName(configured)
      IN  /\ up = "new" /\ up' = "warm"
          /\ IF name # None /\ applyOnStart
             THEN ApplyNamed(name, bad, ok, KeyChanges(legible), {}, legible)
             ELSE /\ bad = {}
                  /\ active' = name
                  /\ want' = IF name = None \/ begin.on THEN begin
                             ELSE [begin EXCEPT !.level = store.profiles[name].level]
                  /\ external' = KeyChanges(legible)
                  /\ unseen' = unseen \ legible /\ missed' = {}
                  /\ sampled' = sampled \union legible
                  /\ refused' = {}
                  /\ lasting' = None
                  /\ IF name # None /\ store.last # name
                     THEN Stored(Remembered(store, name), ok)
                     ELSE ok /\ UNCHANGED <<store, disk>>
                  /\ UNCHANGED machine
          /\ UNCHANGED selected
  BY DEF Reconfigure
<1> DEFINE name == StartName(configured)
<1>1. ThinkPadTypeOK /\ None \notin Names /\ None \notin Settings
  BY Levels DEF ControlsInv
<1>2. name # None => name \in Profiles(store)
  BY DEF StartName
<1>3. /\ KeyChanges(legible) \in SUBSET Lights /\ legible \in SUBSET Lights /\ selected \in Names \union {None}
      /\ store \in Stores /\ disk \in Stores /\ machine \in Machines
  BY <1>1 DEF ThinkPadTypeOK, KeyChanges, Legible
<1>4. ControlIsIndependent
  BY DEF ControlIsIndependent
<1>5. CASE name # None /\ applyOnStart
  <2>1. ApplyNamed(name, bad, ok, KeyChanges(legible), {}, legible) /\ active' = name
    BY <1>5 DEF ApplyNamed
  <2>2. up' \in {"new", "warm"} /\ selected' \in Names \union {None} /\ {} \in SUBSET Lights
    BY <1>3
  <2>3. /\ ControlsInv'
        /\ lasting' # None => \A c \in Controls : Agrees(machine', store.profiles[name], c)
    BY <1>2, <1>3, <1>5, <2>1, <2>2, NamedOK
  <2>4. StartRestores
    <3> SUFFICES ASSUME None \notin {lasting, lasting'}, StartName(None) = active'
                 PROVE  \A c \in Controls : Agrees(machine', lasting, c)
      BY DEF StartRestores
    <3>1. name = store.last /\ store.last # None
      BY <1>1, <1>5, <2>1 DEF StartName, Profiles
    <3>2. store.profiles[name] = lasting
      BY <3>1 DEF ControlsInv, Keeps
    <3>3. QED
      BY <2>3, <3>2
  <2>5. QED
    BY <1>4, <2>3, <2>4 DEF Kept
<1>6. CASE ~(name # None /\ applyOnStart)
  <2>1. begin \in Settings /\ \A c \in Lights : Agrees(machine, begin, c)
    <3>1. /\ machine.fan \in FanLevels /\ machine.lid \in BOOLEAN
          /\ machine.keyboard \in 0..LightMax /\ machine.keyboard \in 0..MaxLevel
      BY <1>3, Levels DEF Machines
    <3>2. (machine.keyboard > 0) \in BOOLEAN
      OBVIOUS
    <3>3. begin \in Settings
      BY <3>1, <3>2 DEF FromMachine, Settings
    <3>4. Agrees(machine, begin, "keyboard")
      <4>1. /\ begin.on = (machine.keyboard > 0) /\ begin.level = machine.keyboard
            /\ ~begin.on => machine.keyboard = 0
        <5>1. ~(machine.keyboard > 0) => machine.keyboard = 0
          BY <3>1, Levels
        <5>2. begin.on = (machine.keyboard > 0) /\ begin.level = machine.keyboard
          BY Zenon DEF FromMachine
        <5>3. QED
          BY <5>1, <5>2
      <4>2. Clamped(KeyboardValue(begin)) = machine.keyboard
        BY <3>1, <4>1, Levels DEF KeyboardValue, Clamped
      <4>3. QED
        BY <4>2 DEF Agrees
    <3>5. Agrees(machine, begin, "lid")
      BY DEF Agrees, FromMachine
    <3>6. QED
      BY <3>3, <3>4, <3>5 DEF Lights
  <2>2. /\ active' = name
        /\ want' = IF name = None \/ begin.on THEN begin
                   ELSE [begin EXCEPT !.level = store.profiles[name].level]
        /\ external' = KeyChanges(legible) /\ unseen' = unseen \ legible /\ missed' = {}
        /\ sampled' = sampled \union legible /\ refused' = {}
        /\ lasting' = None /\ UNCHANGED machine
    BY <1>6
  <2>3. /\ IF name # None /\ store.last # name
           THEN Stored(Remembered(store, name), ok)
           ELSE ok /\ UNCHANGED <<store, disk>>
    BY <1>6
  <2>4. name # None => /\ name \in Names /\ store.profiles[name] # None
                       /\ store.profiles[name] \in Settings
    BY <1>2, <1>3 DEF Profiles, Stores
  <2> HIDE DEF name, begin
  <2>5. want' \in Settings /\ \A c \in Lights : Agrees(machine, want', c)
    <3>1. CASE name = None \/ begin.on
      BY <2>1, <2>2, <3>1
    <3>2. CASE name # None /\ ~begin.on
      <4> DEFINE level == store.profiles[name].level
      <4>1. level \in 0..MaxLevel
        BY <2>4, <3>2 DEF Settings
      <4>2. want' = [begin EXCEPT !.level = level]
        BY <2>2, <3>2
      <4> HIDE DEF level
      <4>3. want' \in Settings /\ want'.on = begin.on /\ want'.lid = begin.lid
        BY <2>1, <4>1, <4>2 DEF Settings
      <4>4. QED
        BY <2>1, <3>2, <4>3 DEF Agrees, KeyboardValue, Lights
    <3>3. QED
      BY <3>1, <3>2
  <2>6. store' \in Stores /\ disk' \in Stores
    <3>1. CASE name # None /\ store.last # name
      BY <1>3, <2>3, <2>4, <3>1, RememberedOK DEF Stored
    <3>2. CASE ~(name # None /\ store.last # name)
      BY <1>3, <2>3, <3>2
    <3>3. QED
      BY <3>1, <3>2
  <2>7. WantsFollowLights'
    BY <2>2, <2>5 DEF WantsFollowLights, Agrees
  <2>8. Keeps(store', lasting') /\ Keeps(disk', lasting')
    BY <2>2 DEF Keeps
  <2>9. ControlsInv'
    BY <1>1, <1>3, <2>2, <2>4, <2>5, <2>6, <2>7, <2>8 DEF ControlsInv, ThinkPadTypeOK
  <2>10. QED
    BY <1>4, <2>2, <2>9 DEF Kept, StartRestores
<1>7. QED
  BY <1>5, <1>6

LEMMA ProcessStep == ASSUME ThinkPadAssumption, ControlsInv, Start \/ Stop PROVE Kept
<1>1. [fan |-> "auto", keyboard |-> 0, lid |-> TRUE] \in Machines
  BY Levels DEF Machines, FanLevels
<1>2. Unknown \in Settings
  BY Levels DEF Unknown, Settings
<1>3. /\ machine' \in Machines /\ up' \in {"off", "new"} /\ ~(up = "warm" /\ up' = "warm")
      /\ store' = disk /\ want' = Unknown /\ active' = None /\ selected' = None
      /\ external' = {} /\ unseen' = {} /\ missed' = {} /\ sampled' = {} /\ refused' = {}
      /\ UNCHANGED <<disk, lasting>>
  BY <1>1 DEF Start, Stop, ControlsInv, ThinkPadTypeOK
<1>4. ControlsInv'
  BY <1>2, <1>3 DEF ControlsInv, ThinkPadTypeOK, WantsFollowLights, Keeps
<1>5. ControlIsIndependent /\ StartRestores
  BY <1>3 DEF ControlIsIndependent, StartRestores
<1>6. QED
  BY <1>4, <1>5 DEF Kept

LEMMA KeyStep == ASSUME ThinkPadAssumption, ControlsInv, PressKey PROVE Kept
<1> PICK key \in Lights :
      /\ machine' = IF key = "keyboard" THEN [machine EXCEPT !.keyboard = (@ + 1) % (LightMax + 1)]
                    ELSE [machine EXCEPT !.lid = ~@]
      /\ unseen' = IF up = "off" THEN {} ELSE unseen \union {key}
      /\ refused' = refused \ {key}
      /\ UNCHANGED <<missed, up, sampled, want, store, active, selected, external, disk, lasting>>
  BY DEF PressKey, Lights
<1>1. ThinkPadTypeOK /\ machine \in Machines /\ LightMax \in Nat
  BY Levels DEF ControlsInv, ThinkPadTypeOK
<1>2. (machine.keyboard + 1) % (LightMax + 1) \in 0..LightMax
  <2>1. machine.keyboard \in Nat
    BY <1>1 DEF Machines
  <2>2. QED
    BY <1>1, <2>1
<1>3. machine' \in Machines /\ \A c \in Controls : c # key => machine'[c] = machine[c]
  <2>1. CASE key = "keyboard"
    <3> DEFINE level == (machine.keyboard + 1) % (LightMax + 1)
    <3>1. machine' = [machine EXCEPT !.keyboard = level] /\ level \in 0..LightMax
      BY <1>2, <2>1
    <3> HIDE DEF level
    <3>2. QED
      BY <1>1, <2>1, <3>1 DEF Machines, Controls
  <2>2. CASE key # "keyboard"
    BY <1>1, <2>2 DEF Machines, Controls, Lights
  <2>3. QED
    BY <2>1, <2>2
<1>4. WantsFollowLights'
  <2> SUFFICES ASSUME up' = "warm", NEW c \in Lights, c \notin unseen', c \notin missed', c \notin refused'
               PROVE  Agrees(machine', want', c)
    BY DEF WantsFollowLights
  <2>1. c # key /\ c \notin unseen /\ c \notin missed /\ c \notin refused /\ up = "warm"
    OBVIOUS
  <2>2. Agrees(machine, want, c) /\ machine'[c] = machine[c]
    BY <1>3, <2>1 DEF ControlsInv, WantsFollowLights, Lights, Controls
  <2>3. QED
    BY <1>1, <1>3, <2>2 DEF Agrees, Lights, Machines
<1>5. ControlsInv'
  <2>1. unseen' \subseteq Lights /\ refused' \subseteq Controls
    BY <1>1 DEF ThinkPadTypeOK
  <2>2. QED
    BY <1>1, <1>3, <1>4, <2>1 DEF ControlsInv, ThinkPadTypeOK, Keeps
<1>6. QED
  BY <1>3, <1>5, FewChange, NoStart DEF Kept

LEMMA ControlsStep == ASSUME ThinkPadAssumption, ControlsInv, [Next]_vars PROVE ControlsInv' /\ [ControlIsIndependent /\ StartRestores]_vars
<1>1. CASE UNCHANGED vars
  <2>1. ControlsInv'
    BY <1>1, LightsKept DEF vars, ControlsInv, ThinkPadTypeOK, Keeps
  <2>2. QED
    BY <1>1, <2>1
<1>2. ASSUME Next PROVE Kept
  BY <1>2, DirectStep, ApplyStep, SaveProfileStep, DeleteStep, RenameStep, ReadStep, ReconfigureStep,
     ProcessStep, KeyStep DEF Next, Input
<1>3. QED
  BY <1>1, <1>2 DEF Kept

LEMMA ControlsInit == ASSUME ThinkPadAssumption, Init PROVE ControlsInv
<1> DEFINE everyday == [fan |-> "auto", on |-> TRUE, level |-> 1, lid |-> FALSE]
<1> PICK first \in Names :
      /\ machine = [fan |-> "auto", keyboard |-> 0, lid |-> TRUE]
      /\ disk = [profiles |-> [n \in Names |-> IF n = first THEN everyday ELSE None], last |-> first]
      /\ store = disk
      /\ unseen = {} /\ missed = {} /\ up = "off" /\ sampled = {} /\ want = Unknown
      /\ active = None /\ selected = None /\ external = {} /\ refused = {}
      /\ lasting = None
  BY DEF Init
<1>1. everyday \in Settings /\ Unknown \in Settings /\ everyday # None
  <2>1. 0 \in 0..MaxLevel /\ 1 \in 0..MaxLevel
    BY Levels
  <2>2. everyday \in Settings
    BY <2>1 DEF Settings, FanLevels
  <2>3. Unknown \in Settings
    BY <2>1 DEF Settings, Unknown
  <2>4. QED
    BY <2>2, <2>3, Levels
<1>2. machine \in Machines
  BY Levels DEF Machines, FanLevels
<1> HIDE DEF everyday
<1>3. disk \in Stores
  BY <1>1 DEF Stores
<1>4. QED
  BY <1>1, <1>2, <1>3 DEF ControlsInv, ThinkPadTypeOK, WantsFollowLights, Keeps

-----------------------------------------------------------------------------
(* What it comes to.                                                       *)

\* What is wanted of a light is what it does unless a write was refused or a key was not
\* told, a control changes alone, and a start restores the last change that succeeded and
\* was saved, for any profiles, any light that may be dimmer than they ask, inputs, refused
\* writes, illegible counters and restarts (controller.go, hardware.go, store.go).
THEOREM ControlsAreKept == ASSUME ThinkPadAssumption PROVE Spec => ControlsKeepSettings
<1>1. Init => ControlsInv
  BY ControlsInit
<1>2. ControlsInv /\ [Next]_vars => ControlsInv' /\ [ControlIsIndependent /\ StartRestores]_vars
  BY ControlsStep
<1>3. ControlsInv => WantsFollowLights
  BY DEF ControlsInv
<1>4. QED
  BY <1>1, <1>2, <1>3, PTL DEF Spec, ControlsKeepSettings

-----------------------------------------------------------------------------
(* Proton VPN.  The loop, the worker and the closures share the machine, so the *)
(* invariant says in which order what is on its way was asked for, that no     *)
(* generation is from the future, and what a reading is worth when it arrives. *)

VpnMachines ==
  [phase : Settled \union {"connecting", "disconnecting", "error"}, status : Settled,
   account : BOOLEAN, config : BOOLEAN, read : BOOLEAN, complains : BOOLEAN]
Protons == [status : Settled, info : BOOLEAN, config : BOOLEAN]
Gens == [Parts -> Nat]
Before == [status : Settled, account : BOOLEAN]
Was == BOOLEAN \union Before \union {None}
JobKinds == {"connect", "disconnect", "signout", "config", "link"}
CliJobs ==
  {job \in [kind : JobKinds, gens : Gens, was : Was] :
     /\ job.kind = "signout" => job.was \in Before
     /\ job.kind = "config" => job.was \in BOOLEAN}
\* What was read of the CLI, if anything was.
Readings ==
  {got \in [read : SUBSET Parts, proton : Protons \union {None}, seen : Nat] :
     got.read # {} => got.proton \in Protons}
Closures ==
  {f \in [kind : JobKinds \union {"poll"}, gens : Gens, ok : BOOLEAN, got : Readings,
          was : Was] :
     f.kind = "signout" => f.was \in Before}
Workers ==
  [kind : {"looks", "waits"}, of : {None}] \union [kind : {"job"}, of : CliJobs]
    \union [kind : {"poll"}, of : [gens : Gens, got : Readings]]

QueuesTypeOK ==
  /\ gens \in Gens
  /\ polls \in [wants : SUBSET Parts, gens : Gens]
  /\ jobs \in Seq(CliJobs) /\ worker \in Workers /\ async \in Seq(Closures)

-----------------------------------------------------------------------------
(* What is on its way.                                                     *)

\* x was asked before y, if they are two connects or two changes of the settings.
AskedBefore(x, y) ==
  /\ x.kind = "connect" /\ y.kind = "connect" => x.gens.status < y.gens.status
  /\ x.kind = "config" /\ y.kind = "config" => x.gens.config < y.gens.config

\* The closures were asked for before the job that runs, and that before those that wait.
OrderKept ==
  /\ \A i, k \in 1..Len(jobs) : i < k => AskedBefore(jobs[i], jobs[k])
  /\ \A i, k \in 1..Len(async) : i < k => AskedBefore(async[i], async[k])
  /\ \A i \in 1..Len(async), k \in 1..Len(jobs) : AskedBefore(async[i], jobs[k])
  /\ worker.kind = "job" =>
       /\ \A k \in 1..Len(jobs) : AskedBefore(worker.of, jobs[k])
       /\ \A i \in 1..Len(async) : AskedBefore(async[i], worker.of)

\* No generation is from the future.
Past(x) == x.gens.status <= gens.status /\ x.gens.config <= gens.config
AllPast ==
  /\ Past(polls)
  /\ \A k \in 1..Len(jobs) : Past(jobs[k])
  /\ \A i \in 1..Len(async) : Past(async[i])
  /\ worker.kind \in {"job", "poll"} => Past(worker.of)

\* A status was read after it was asked for.
ReadAfter(x) == "status" \in x.got.read => x.gens.status <= x.got.seen /\ x.got.seen <= gens.status
AllReadAfter ==
  /\ \A i \in 1..Len(async) : ReadAfter(async[i])
  /\ worker.kind = "poll" => ReadAfter(worker.of)

\* A setting that was read is the one of now, or a later change of it is to be applied.
SettingsRead ==
  /\ \A i \in 1..Len(async) : "config" \in async[i].got.read =>
       \/ async[i].got.proton.config = proton.config
       \/ \E k \in i + 1..Len(async) : async[k].kind = "config"
  /\ worker.kind = "poll" /\ "config" \in worker.of.got.read =>
       worker.of.got.proton.config = proton.config

\* The generations of the changes of the settings that are on their way.
OnItsWay(g) ==
  \/ \E k \in 1..Len(jobs) : jobs[k].kind = "config" /\ jobs[k].gens.config = g
  \/ \E i \in 1..Len(async) : async[i].kind = "config" /\ async[i].gens.config = g
  \/ worker.kind = "job" /\ worker.of.kind = "config" /\ worker.of.gens.config = g
OnTheirWay == {g \in Nat : OnItsWay(g)}

\* Only the last change reports: as long as any is on its way it is, or it found no room.
LastReports == OnTheirWay # {} => vpn.complains \/ gens.config \in OnTheirWay

TogglesTrue == vpn.read => vpn.complains \/ OnTheirWay # {} \/ vpn.config = proton.config

ConnectEnds ==
  /\ \A k \in 1..Len(jobs) :
       jobs[k].kind = "connect" /\ jobs[k].gens.status = gens.status => cancel = gens.status
  /\ worker.kind = "job" /\ worker.of.kind = "connect" /\ worker.of.gens.status = gens.status =>
       cancel = gens.status

QueuesInv == QueuesTypeOK /\ OrderKept /\ AllPast /\ AllReadAfter
VpnInv ==
  /\ QueuesInv /\ vpn \in VpnMachines /\ proton \in Protons
  /\ SettingsRead /\ LastReports /\ TogglesTrue /\ ConnectEnds
-----------------------------------------------------------------------------
(* The sequences.                                                          *)

LEMMA Shortened ==
  ASSUME NEW S, NEW s \in Seq(S), s # <<>>
  PROVE  /\ Len(s) \in Nat \ {0} /\ Head(s) \in S /\ Head(s) = s[1]
         /\ Tail(s) \in Seq(S) /\ Len(Tail(s)) = Len(s) - 1
         /\ \A i \in 1..Len(Tail(s)) : i + 1 \in 1..Len(s) /\ Tail(s)[i] = s[i + 1]
         /\ \A i \in 2..Len(s) : i - 1 \in 1..Len(Tail(s)) /\ Tail(s)[i - 1] = s[i]
<1>1. Len(s) \in Nat \ {0}
  BY EmptySeq
<1>2. /\ Head(s) \in S /\ Tail(s) \in Seq(S) /\ Len(Tail(s)) = Len(s) - 1
      /\ \A i \in 1..Len(Tail(s)) : Tail(s)[i] = s[i + 1]
  BY HeadTailProperties
<1>3. Head(s) = s[1]
  OBVIOUS
<1>4. \A i \in 1..Len(Tail(s)) : i + 1 \in 1..Len(s)
  BY <1>1, <1>2
<1>5. \A i \in 2..Len(s) : i - 1 \in 1..Len(Tail(s)) /\ (i - 1) + 1 = i
  BY <1>1, <1>2
<1>6. QED
  BY <1>1, <1>2, <1>3, <1>4, <1>5

LEMMA Lengthened ==
  ASSUME NEW S, NEW s \in Seq(S), NEW x \in S
  PROVE  /\ Append(s, x) \in Seq(S) /\ Len(s) \in Nat /\ Len(Append(s, x)) = Len(s) + 1
         /\ \A i \in 1..Len(s) : Append(s, x)[i] = s[i]
         /\ Append(s, x)[Len(s) + 1] = x
         /\ \A i \in 1..Len(Append(s, x)) : i \in 1..Len(s) \/ i = Len(s) + 1
<1>1. Len(s) \in Nat
  BY LenProperties
<1>2. /\ Append(s, x) \in Seq(S) /\ Len(Append(s, x)) = Len(s) + 1
      /\ \A i \in 1..Len(s) : Append(s, x)[i] = s[i]
      /\ Append(s, x)[Len(s) + 1] = x
  BY AppendProperties
<1>3. QED
  BY <1>1, <1>2

LEMMA QueuesFacts ==
  ASSUME QueuesInv
  PROVE  /\ jobs \in Seq(CliJobs) /\ async \in Seq(Closures) /\ worker \in Workers
         /\ gens \in Gens /\ polls \in [wants : SUBSET Parts, gens : Gens]
         /\ Len(jobs) \in Nat /\ Len(async) \in Nat
         /\ \A k \in 1..Len(jobs) : jobs[k] \in CliJobs
         /\ \A i \in 1..Len(async) : async[i] \in Closures
         /\ OrderKept /\ AllPast /\ AllReadAfter
BY LenProperties, ElementOfSeq DEF QueuesInv, QueuesTypeOK

\* The generations only grow: what was of the past stays so.
LEMMA StillPast ==
  ASSUME QueuesInv, NEW now \in Gens, \A p \in Parts : gens[p] <= now[p]
  PROVE  /\ gens.status <= now.status /\ gens.config <= now.config
         /\ polls.gens.status <= now.status /\ polls.gens.config <= now.config
         /\ \A k \in 1..Len(jobs) :
              jobs[k].gens.status <= now.status /\ jobs[k].gens.config <= now.config
         /\ \A i \in 1..Len(async) :
              /\ async[i].gens.status <= now.status /\ async[i].gens.config <= now.config
              /\ "status" \in async[i].got.read =>
                   async[i].gens.status <= async[i].got.seen /\ async[i].got.seen <= now.status
         /\ worker.kind \in {"job", "poll"} =>
              worker.of.gens.status <= now.status /\ worker.of.gens.config <= now.config
         /\ worker.kind = "poll" /\ "status" \in worker.of.got.read =>
              worker.of.gens.status <= worker.of.got.seen /\ worker.of.got.seen <= now.status
<1>1. gens.status \in Nat /\ now.status \in Nat /\ gens.status <= now.status
      /\ gens.config \in Nat /\ now.config \in Nat /\ gens.config <= now.config
  BY QueuesFacts DEF Gens, Parts
<1>2. ASSUME NEW x, Past(x), x.gens \in Gens
      PROVE  x.gens.status <= now.status /\ x.gens.config <= now.config
  BY <1>1, <1>2 DEF Past, Gens, Parts
<1>3. ASSUME NEW x, ReadAfter(x), x.got \in Readings
      PROVE  "status" \in x.got.read => x.gens.status <= x.got.seen /\ x.got.seen <= now.status
  BY <1>1, <1>3 DEF ReadAfter, Readings
<1>4. worker.kind = "job" => worker.of.gens \in Gens
  BY QueuesFacts DEF Workers, CliJobs
<1>5. worker.kind = "poll" => worker.of.gens \in Gens /\ worker.of.got \in Readings
  BY QueuesFacts DEF Workers
<1>6. /\ \A k \in 1..Len(jobs) : jobs[k].gens \in Gens
      /\ \A i \in 1..Len(async) : async[i].gens \in Gens /\ async[i].got \in Readings
  BY QueuesFacts DEF CliJobs, Closures
<1>7. polls.gens \in Gens
  BY QueuesFacts
<1>8. polls.gens.status <= now.status /\ polls.gens.config <= now.config
  BY <1>2, <1>7, QueuesFacts DEF AllPast
<1>9. \A k \in 1..Len(jobs) :
        jobs[k].gens.status <= now.status /\ jobs[k].gens.config <= now.config
  BY <1>2, <1>6, QueuesFacts DEF AllPast
<1>10. \A i \in 1..Len(async) :
         async[i].gens.status <= now.status /\ async[i].gens.config <= now.config
  BY <1>2, <1>6, QueuesFacts DEF AllPast
<1>11. \A i \in 1..Len(async) : "status" \in async[i].got.read =>
         async[i].gens.status <= async[i].got.seen /\ async[i].got.seen <= now.status
  BY <1>3, <1>6, QueuesFacts DEF AllReadAfter
<1>12. worker.kind \in {"job", "poll"} =>
         worker.of.gens.status <= now.status /\ worker.of.gens.config <= now.config
  BY <1>2, <1>4, <1>5, QueuesFacts DEF AllPast
<1>13. worker.kind = "poll" /\ "status" \in worker.of.got.read =>
         worker.of.gens.status <= worker.of.got.seen /\ worker.of.got.seen <= now.status
  BY <1>3, <1>5, QueuesFacts DEF AllReadAfter
<1>14. QED
  BY <1>1, <1>8, <1>9, <1>10, <1>11, <1>12, <1>13

\* Nothing is asked of the worker, and nothing comes back from it.
LEMMA Grown ==
  ASSUME QueuesInv, UNCHANGED <<jobs, worker, async>>,
         gens' \in Gens, \A p \in Parts : gens[p] <= gens'[p],
         polls' \in [wants : SUBSET Parts, gens : Gens], Past(polls)'
  PROVE  QueuesInv'
<1>1. QueuesTypeOK'
  BY DEF QueuesInv, QueuesTypeOK
<1>2. OrderKept'
  BY QueuesFacts DEF OrderKept, AskedBefore
<1>3. AllPast'
  BY StillPast DEF AllPast, Past
<1>4. AllReadAfter'
  BY StillPast DEF AllReadAfter, ReadAfter
<1>5. QED
  BY <1>1, <1>2, <1>3, <1>4 DEF QueuesInv

\* A job that is new comes after all others.
LEMMA Queued ==
  ASSUME QueuesInv, NEW job \in CliJobs, jobs' = Append(jobs, job), UNCHANGED <<worker, async>>,
         gens' \in Gens, \A p \in Parts : gens[p] <= gens'[p],
         job.gens.status <= gens'.status, job.gens.config <= gens'.config,
         polls' \in [wants : SUBSET Parts, gens : Gens], Past(polls)',
         \A k \in 1..Len(jobs) : AskedBefore(jobs[k], job),
         \A i \in 1..Len(async) : AskedBefore(async[i], job),
         worker.kind = "job" => AskedBefore(worker.of, job)
  PROVE  QueuesInv'
<1>1. /\ jobs \in Seq(CliJobs) /\ OrderKept /\ AllPast /\ AllReadAfter
  BY QueuesFacts
<1>2. /\ jobs' \in Seq(CliJobs) /\ Len(jobs) \in Nat /\ Len(jobs') = Len(jobs) + 1
      /\ \A i \in 1..Len(jobs) : jobs'[i] = jobs[i]
      /\ jobs'[Len(jobs) + 1] = job
      /\ \A i \in 1..Len(jobs') : i \in 1..Len(jobs) \/ i = Len(jobs) + 1
  BY <1>1, Lengthened
<1>3. QueuesTypeOK'
  BY <1>2 DEF QueuesInv, QueuesTypeOK
<1>4. OrderKept'
  <2>1. \A i, k \in 1..Len(jobs') : i < k => AskedBefore(jobs'[i], jobs'[k])
    <3> SUFFICES ASSUME NEW i \in 1..Len(jobs'), NEW k \in 1..Len(jobs'), i < k
                 PROVE  AskedBefore(jobs'[i], jobs'[k])
      OBVIOUS
    <3>1. i \in 1..Len(jobs)
      BY <1>2
    <3>2. QED
      BY <1>1, <1>2, <3>1 DEF OrderKept
  <2>2. \A i \in 1..Len(async), k \in 1..Len(jobs') : AskedBefore(async[i], jobs'[k])
    BY <1>1, <1>2 DEF OrderKept
  <2>3. worker.kind = "job" => \A k \in 1..Len(jobs') : AskedBefore(worker.of, jobs'[k])
    BY <1>1, <1>2 DEF OrderKept
  <2>4. QED
    BY <1>1, <2>1, <2>2, <2>3 DEF OrderKept, AskedBefore
<1>5. AllPast'
  BY <1>1, <1>2, StillPast DEF AllPast, Past
<1>6. AllReadAfter'
  BY <1>1, StillPast DEF AllReadAfter, ReadAfter
<1>7. QED
  BY <1>3, <1>4, <1>5, <1>6 DEF QueuesInv

\* The worker takes the job at the head, or drops it.
LEMMA Taken ==
  ASSUME QueuesInv, jobs # <<>>, jobs' = Tail(jobs), UNCHANGED <<async, gens, polls>>,
         worker' \in {Looking, Work("job", Head(jobs))}
  PROVE  QueuesInv'
<1>1. /\ jobs \in Seq(CliJobs) /\ OrderKept /\ AllPast /\ AllReadAfter
  BY QueuesFacts
<1>2. /\ Len(jobs) \in Nat \ {0} /\ Head(jobs) \in CliJobs /\ Head(jobs) = jobs[1]
      /\ jobs' \in Seq(CliJobs) /\ Len(jobs') = Len(jobs) - 1
      /\ \A i \in 1..Len(jobs') : i + 1 \in 1..Len(jobs) /\ jobs'[i] = jobs[i + 1]
  BY <1>1, Shortened
<1>3. worker' \in Workers /\ worker'.kind \in {"looks", "job"}
      /\ (worker'.kind = "job" => worker'.of = jobs[1])
  BY <1>2 DEF Looking, Work, Workers
<1>4. QueuesTypeOK'
  BY <1>2, <1>3 DEF QueuesInv, QueuesTypeOK
<1>5. 1 \in 1..Len(jobs) /\ \A i \in 1..Len(jobs') : 1 < i + 1
  BY <1>2
<1>6. OrderKept'
  <2>1. \A i, k \in 1..Len(jobs') : i < k => AskedBefore(jobs'[i], jobs'[k])
    <3> SUFFICES ASSUME NEW i \in 1..Len(jobs'), NEW k \in 1..Len(jobs'), i < k
                 PROVE  AskedBefore(jobs'[i], jobs'[k])
      OBVIOUS
    <3>1. i + 1 < k + 1
      BY <1>2
    <3>2. AskedBefore(jobs[i + 1], jobs[k + 1])
      BY <1>1, <1>2, <3>1 DEF OrderKept
    <3>3. QED
      BY <1>2, <3>2
  <2>2. \A i \in 1..Len(async), k \in 1..Len(jobs') : AskedBefore(async[i], jobs'[k])
    BY <1>1, <1>2 DEF OrderKept
  <2>3. \A k \in 1..Len(jobs') : AskedBefore(jobs[1], jobs'[k])
    BY <1>1, <1>2, <1>5 DEF OrderKept
  <2>4. \A i \in 1..Len(async) : AskedBefore(async[i], jobs[1])
    BY <1>1, <1>5 DEF OrderKept
  <2>5. \A i, k \in 1..Len(async) : i < k => AskedBefore(async[i], async[k])
    BY <1>1 DEF OrderKept
  <2>6. QED
    BY <1>3, <2>1, <2>2, <2>3, <2>4, <2>5 DEF OrderKept, AskedBefore
<1>7. AllPast'
  BY <1>1, <1>2, <1>3, <1>5 DEF AllPast, Past
<1>8. AllReadAfter'
  BY <1>1, <1>3 DEF AllReadAfter, ReadAfter
<1>9. QED
  BY <1>4, <1>6, <1>7, <1>8 DEF QueuesInv

\* The worker has no job and takes up a poll, or nothing.
LEMMA Idled ==
  ASSUME QueuesInv, UNCHANGED <<jobs, async, gens>>,
         worker' \in Workers, worker'.kind # "job",
         worker'.kind = "poll" => Past(worker'.of) /\ ReadAfter(worker'.of),
         polls' \in [wants : SUBSET Parts, gens : Gens], Past(polls)'
  PROVE  QueuesInv'
<1>1. OrderKept /\ AllPast /\ AllReadAfter
  BY QueuesFacts
<1>2. QueuesTypeOK'
  BY DEF QueuesInv, QueuesTypeOK
<1>3. OrderKept'
  BY <1>1 DEF OrderKept, AskedBefore
<1>4. AllPast'
  BY <1>1 DEF AllPast, Past
<1>5. AllReadAfter'
  BY <1>1 DEF AllReadAfter, ReadAfter
<1>6. QED
  BY <1>2, <1>3, <1>4, <1>5 DEF QueuesInv

\* The worker is done and posts a closure.
LEMMA Posted ==
  ASSUME QueuesInv, NEW f \in Closures, async' = Append(async, f), worker' = Looking,
         UNCHANGED <<jobs, gens, polls>>, Past(f), ReadAfter(f),
         \A i \in 1..Len(async) : AskedBefore(async[i], f),
         \A k \in 1..Len(jobs) : AskedBefore(f, jobs[k])
  PROVE  QueuesInv'
<1>1. /\ async \in Seq(Closures) /\ OrderKept /\ AllPast /\ AllReadAfter
  BY QueuesFacts
<1>2. /\ async' \in Seq(Closures) /\ Len(async) \in Nat /\ Len(async') = Len(async) + 1
      /\ \A i \in 1..Len(async) : async'[i] = async[i]
      /\ async'[Len(async) + 1] = f
      /\ \A i \in 1..Len(async') : i \in 1..Len(async) \/ i = Len(async) + 1
  BY <1>1, Lengthened
<1>3. worker' \in Workers /\ worker'.kind = "looks"
  BY DEF Looking, Work, Workers
<1>4. QueuesTypeOK'
  BY <1>2, <1>3 DEF QueuesInv, QueuesTypeOK
<1>5. OrderKept'
  <2>1. \A i, k \in 1..Len(async') : i < k => AskedBefore(async'[i], async'[k])
    <3> SUFFICES ASSUME NEW i \in 1..Len(async'), NEW k \in 1..Len(async'), i < k
                 PROVE  AskedBefore(async'[i], async'[k])
      OBVIOUS
    <3>1. i \in 1..Len(async)
      BY <1>2
    <3>2. QED
      BY <1>1, <1>2, <3>1 DEF OrderKept
  <2>2. \A i \in 1..Len(async'), k \in 1..Len(jobs) : AskedBefore(async'[i], jobs[k])
    BY <1>1, <1>2 DEF OrderKept
  <2>3. QED
    BY <1>1, <1>3, <2>1, <2>2 DEF OrderKept, AskedBefore
<1>6. AllPast'
  BY <1>1, <1>2, <1>3 DEF AllPast, Past
<1>7. AllReadAfter'
  BY <1>1, <1>2, <1>3 DEF AllReadAfter, ReadAfter
<1>8. QED
  BY <1>4, <1>5, <1>6, <1>7 DEF QueuesInv

\* The loop takes the closure at the head.
LEMMA Applied ==
  ASSUME QueuesInv, async # <<>>, async' = Tail(async), UNCHANGED <<jobs, gens, worker>>,
         polls' \in [wants : SUBSET Parts, gens : Gens], Past(polls)'
  PROVE  QueuesInv'
<1>1. /\ async \in Seq(Closures) /\ OrderKept /\ AllPast /\ AllReadAfter
  BY QueuesFacts
<1>2. /\ Len(async) \in Nat \ {0} /\ async' \in Seq(Closures) /\ Len(async') = Len(async) - 1
      /\ \A i \in 1..Len(async') : i + 1 \in 1..Len(async) /\ async'[i] = async[i + 1]
  BY <1>1, Shortened
<1>3. QueuesTypeOK'
  BY <1>2 DEF QueuesInv, QueuesTypeOK
<1>4. OrderKept'
  <2>1. \A i, k \in 1..Len(async') : i < k => AskedBefore(async'[i], async'[k])
    <3> SUFFICES ASSUME NEW i \in 1..Len(async'), NEW k \in 1..Len(async'), i < k
                 PROVE  AskedBefore(async'[i], async'[k])
      OBVIOUS
    <3>1. i + 1 < k + 1
      BY <1>2
    <3>2. AskedBefore(async[i + 1], async[k + 1])
      BY <1>1, <1>2, <3>1 DEF OrderKept
    <3>3. QED
      BY <1>2, <3>2
  <2>2. \A i \in 1..Len(async'), k \in 1..Len(jobs) : AskedBefore(async'[i], jobs[k])
    BY <1>1, <1>2 DEF OrderKept
  <2>3. worker.kind = "job" => \A i \in 1..Len(async') : AskedBefore(async'[i], worker.of)
    BY <1>1, <1>2 DEF OrderKept
  <2>4. QED
    BY <1>1, <2>1, <2>2, <2>3 DEF OrderKept, AskedBefore
<1>5. AllPast'
  BY <1>1, <1>2 DEF AllPast, Past
<1>6. AllReadAfter'
  BY <1>1, <1>2 DEF AllReadAfter, ReadAfter
<1>7. QED
  BY <1>3, <1>4, <1>5, <1>6 DEF QueuesInv

-----------------------------------------------------------------------------
(* What the user and the ticker ask for.                                   *)

LEMMA PollAsked ==
  ASSUME QueuesInv, NEW wants \in SUBSET Parts, RequestPoll(wants), gens' = gens
  PROVE  polls' \in [wants : SUBSET Parts, gens : Gens] /\ Past(polls)'
<1>1. gens \in Gens /\ polls.wants \in SUBSET Parts
  BY QueuesFacts
<1> DEFINE now == GensOf(wants \union polls.wants, gens)
<1>2. now \in Gens /\ now.status \in {0, gens.status} /\ now.config \in {0, gens.config}
  BY <1>1 DEF GensOf, Gens, Parts
<1>3. polls' = [wants |-> wants \union polls.wants, gens |-> now]
  BY DEF RequestPoll
<1> HIDE DEF now
<1>4. gens.status \in Nat /\ gens.config \in Nat
  BY <1>1 DEF Gens, Parts
<1>5. now.status <= gens.status /\ now.config <= gens.config
  BY <1>2, <1>4
<1>6. QED
  BY <1>1, <1>2, <1>3, <1>5 DEF Past

LEMMA PollsStay ==
  ASSUME QueuesInv, gens' \in Gens, \A p \in Parts : gens[p] <= gens'[p], polls' = polls
  PROVE  polls' \in [wants : SUBSET Parts, gens : Gens] /\ Past(polls)'
<1>1. polls.gens.status <= gens'.status /\ polls.gens.config <= gens'.config
  BY StillPast
<1>2. QED
  BY <1>1, QueuesFacts DEF Past

LEMMA NewGens ==
  ASSUME QueuesInv, NEW kind \in JobKinds, Bumped(kind)
  PROVE  /\ gens' \in Gens /\ \A p \in Parts : gens[p] <= gens'[p]
         /\ kind \in {"connect", "disconnect", "signout"} =>
              gens'.status = gens.status + 1 /\ gens'.config = gens.config
         /\ kind = "config" => gens'.config = gens.config + 1 /\ gens'.status = gens.status
<1>1. gens \in Gens /\ \A p \in Parts : gens[p] \in Nat
  BY QueuesFacts DEF Gens
<1>2. gens' = [p \in Parts |-> IF p \in Changes(kind) THEN gens[p] + 1 ELSE gens[p]]
  BY DEF Bumped
<1>3. gens' \in Gens /\ \A p \in Parts : gens[p] <= gens'[p]
  BY <1>1, <1>2 DEF Gens
<1>4. \A p \in Parts : gens'[p] = IF p \in Changes(kind) THEN gens[p] + 1 ELSE gens[p]
  BY <1>2
<1>5. kind \in {"connect", "disconnect", "signout"} =>
        "status" \in Changes(kind) /\ "config" \notin Changes(kind)
  BY DEF Changes
<1>6. kind = "config" => "config" \in Changes(kind) /\ "status" \notin Changes(kind)
  BY DEF Changes
<1>7. QED
  BY <1>3, <1>4, <1>5, <1>6 DEF Parts

\* A job carries the generations of its click.
LEMMA Enqueued ==
  ASSUME VpnInv, NEW kind \in JobKinds, EnqueueCLI(kind), UNCHANGED <<worker, async>>,
         gens' \in Gens, \A p \in Parts : gens[p] <= gens'[p],
         kind = "connect" => gens.status < gens'.status,
         kind = "config" => gens.config < gens'.config,
         polls' \in [wants : SUBSET Parts, gens : Gens], Past(polls)'
  PROVE  /\ QueuesInv'
         /\ \E job \in CliJobs :
              /\ jobs' = Append(jobs, job) /\ job.kind = kind
              /\ kind = "connect" => job.gens.status = gens'.status
              /\ kind = "config" => job.gens.config = gens'.config
<1> DEFINE now == GensOf(Changes(kind), gens')
           job == [kind |-> kind, gens |-> now, was |-> Remembers(kind)]
<1>1. jobs' = Append(jobs, job)
  BY DEF EnqueueCLI
<1>2. /\ now \in Gens /\ now.status \in {0, gens'.status} /\ now.config \in {0, gens'.config}
      /\ kind = "connect" => now.status = gens'.status
      /\ kind = "config" => now.config = gens'.config
  BY DEF GensOf, Gens, Parts, Changes
<1>3. /\ Remembers(kind) \in Was
      /\ kind = "signout" => Remembers(kind) \in Before
      /\ kind = "config" => Remembers(kind) \in BOOLEAN
  BY DEF VpnInv, VpnMachines, Remembers, Was, Before
<1> HIDE DEF now
<1>4. job \in CliJobs /\ job.kind = kind /\ job.gens = now
  BY <1>2, <1>3 DEF CliJobs
<1> HIDE DEF job
<1>5. gens'.status \in Nat /\ gens'.config \in Nat
  BY DEF Gens, Parts
<1>6. job.gens.status <= gens'.status /\ job.gens.config <= gens'.config
  BY <1>2, <1>4, <1>5
<1>7. QueuesInv
  BY DEF VpnInv
<1>8. ASSUME NEW x, x.gens \in Gens, Past(x) PROVE AskedBefore(x, job)
  <2>1. gens \in Gens /\ gens.status \in Nat /\ gens.config \in Nat
    BY <1>7, QueuesFacts DEF Gens, Parts
  <2>2. x.gens.status \in Nat /\ x.gens.config \in Nat
    BY <1>8 DEF Gens, Parts
  <2>3. QED
    BY <1>2, <1>4, <1>5, <1>8, <2>1, <2>2 DEF AskedBefore, Past
<1>9. \A k \in 1..Len(jobs) : AskedBefore(jobs[k], job)
  BY <1>7, <1>8, QueuesFacts DEF AllPast, CliJobs
<1>10. \A i \in 1..Len(async) : AskedBefore(async[i], job)
  BY <1>7, <1>8, QueuesFacts DEF AllPast, Closures
<1>11. worker.kind = "job" => AskedBefore(worker.of, job)
  BY <1>7, <1>8, QueuesFacts DEF AllPast, Workers, CliJobs
<1>12. QueuesInv'
  BY <1>1, <1>4, <1>6, <1>7, <1>9, <1>10, <1>11, Queued
<1>13. QED
  BY <1>1, <1>2, <1>4, <1>12

\* A click or the ticker: perhaps a job, perhaps a poll, another phase of the machine.
LEMMA AsksStep ==
  ASSUME VpnInv, NEW kind \in JobKinds, NEW queued \in BOOLEAN,
         gens' \in Gens, \A p \in Parts : gens[p] <= gens'[p],
         IF queued THEN EnqueueCLI(kind) ELSE UNCHANGED jobs,
         queued /\ kind = "connect" => gens.status < gens'.status /\ cancel' = gens'.status,
         queued /\ kind = "config" => gens.config < gens'.config,
         gens'.status = gens.status => cancel' = cancel,
         polls' \in [wants : SUBSET Parts, gens : Gens], Past(polls)',
         UNCHANGED <<worker, async, proton>>,
         vpn' \in VpnMachines, vpn'.config = vpn.config, vpn'.read = vpn.read,
         vpn.complains => vpn'.complains,
         gens'.config = gens.config \/ vpn'.complains \/ (queued /\ kind = "config")
  PROVE  VpnInv'
<1> DEFINE new(job) == /\ jobs' = Append(jobs, job) /\ job.kind = kind
                       /\ kind = "connect" => job.gens.status = gens'.status
                       /\ kind = "config" => job.gens.config = gens'.config
<1>1. QueuesInv /\ QueuesInv'
  BY Enqueued, Grown DEF VpnInv
<1>2. /\ gens.status \in Nat /\ gens'.status \in Nat /\ gens.status <= gens'.status
      /\ gens.config \in Nat /\ gens'.config \in Nat /\ gens.config <= gens'.config
  BY <1>1, QueuesFacts DEF Gens, Parts
<1>3. queued => \E job \in CliJobs : new(job)
  BY Enqueued
<1>4. CASE ~queued
  <2>1. jobs' = jobs
    BY <1>4
  <2>2. OnTheirWay' = OnTheirWay
    BY <2>1 DEF OnTheirWay, OnItsWay
  <2>3. ConnectEnds'
    <3>1. ASSUME NEW x, Past(x), x.gens \in Gens, x.gens.status = gens'.status
          PROVE  gens'.status = gens.status
      BY <1>2, <3>1 DEF Past, Gens, Parts
    <3>2. \A k \in 1..Len(jobs) : jobs[k].gens \in Gens /\ Past(jobs[k])
      BY <1>1, QueuesFacts DEF AllPast, CliJobs
    <3>3. worker.kind = "job" => worker.of.gens \in Gens /\ Past(worker.of)
      BY <1>1, QueuesFacts DEF AllPast, Workers, CliJobs
    <3>4. QED
      BY <2>1, <3>1, <3>2, <3>3 DEF VpnInv, ConnectEnds
  <2>4. LastReports' /\ TogglesTrue'
    BY <1>4, <2>2 DEF VpnInv, LastReports, TogglesTrue
  <2>5. SettingsRead'
    BY DEF VpnInv, SettingsRead
  <2>6. QED
    BY <1>1, <2>3, <2>4, <2>5 DEF VpnInv
<1>5. CASE queued
  <2> PICK job \in CliJobs : new(job)
    BY <1>3, <1>5
  <2>1. /\ Len(jobs) \in Nat /\ Len(jobs') = Len(jobs) + 1
        /\ \A k \in 1..Len(jobs) : jobs'[k] = jobs[k]
        /\ jobs'[Len(jobs) + 1] = job
        /\ \A k \in 1..Len(jobs') : k \in 1..Len(jobs) \/ k = Len(jobs) + 1
        /\ \A k \in 1..Len(jobs) : k \in 1..Len(jobs')
        /\ Len(jobs) + 1 \in 1..Len(jobs')
    <3>1. /\ Len(jobs) \in Nat /\ Len(jobs') = Len(jobs) + 1
          /\ \A k \in 1..Len(jobs) : jobs'[k] = jobs[k]
          /\ jobs'[Len(jobs) + 1] = job
          /\ \A k \in 1..Len(jobs') : k \in 1..Len(jobs) \/ k = Len(jobs) + 1
      BY <1>1, QueuesFacts, Lengthened
    <3>2. QED
      BY <3>1
  <2>2. ConnectEnds'
    <3>1. ASSUME NEW x, Past(x), x.gens \in Gens, x.gens.status = gens'.status
          PROVE  gens'.status = gens.status
      BY <1>2, <3>1 DEF Past, Gens, Parts
    <3>2. \A k \in 1..Len(jobs) : jobs[k].gens \in Gens /\ Past(jobs[k])
      BY <1>1, QueuesFacts DEF AllPast, CliJobs
    <3>3. worker.kind = "job" => worker.of.gens \in Gens /\ Past(worker.of)
      BY <1>1, QueuesFacts DEF AllPast, Workers, CliJobs
    <3>4. worker.kind = "job" /\ worker.of.kind = "connect" /\ worker.of.gens.status = gens'.status
            => cancel' = gens'.status
      BY <3>1, <3>3 DEF VpnInv, ConnectEnds
    <3>5. ASSUME NEW k \in 1..Len(jobs'), jobs'[k].kind = "connect", jobs'[k].gens.status = gens'.status
          PROVE  cancel' = gens'.status
      <4>1. CASE k \in 1..Len(jobs)
        BY <2>1, <3>1, <3>2, <3>5, <4>1 DEF VpnInv, ConnectEnds
      <4>2. CASE k = Len(jobs) + 1
        BY <1>5, <2>1, <3>5, <4>2
      <4>3. QED
        BY <2>1, <4>1, <4>2
    <3>6. QED
      BY <3>4, <3>5 DEF ConnectEnds
  <2>3. OnTheirWay \subseteq OnTheirWay'
    BY <2>1 DEF OnTheirWay, OnItsWay
  <2>4. kind # "config" => OnTheirWay' = OnTheirWay
    <3> SUFFICES ASSUME kind # "config", NEW g \in OnTheirWay' PROVE g \in OnTheirWay
      BY <2>3
    <3>1. jobs'[Len(jobs) + 1].kind # "config"
      BY <2>1
    <3>2. QED
      BY <2>1, <3>1 DEF OnTheirWay, OnItsWay
  <2>5. kind = "config" => gens'.config \in OnTheirWay'
    BY <1>2, <2>1 DEF OnTheirWay, OnItsWay
  <2>6. LastReports'
    BY <2>3, <2>4, <2>5 DEF VpnInv, LastReports
  <2>7. TogglesTrue'
    BY <2>3, <2>4, <2>5 DEF VpnInv, TogglesTrue
  <2>8. SettingsRead'
    BY DEF VpnInv, SettingsRead
  <2>9. QED
    BY <1>1, <2>2, <2>6, <2>7, <2>8 DEF VpnInv
<1>6. QED
  BY <1>4, <1>5

LEMMA MachineMoves ==
  ASSUME NEW m \in VpnMachines
  PROVE  \A n \in {StartConnect(m), StartDisconnect(m), Fail(m)} :
           /\ n \in VpnMachines
           /\ n.status = m.status /\ n.config = m.config /\ n.read = m.read /\ n.complains = m.complains
BY DEF StartConnect, StartDisconnect, Fail, VpnMachines

\* The commands that change the tunnel.
LEMMA TunnelStep ==
  ASSUME VpnInv, NEW kind \in {"connect", "disconnect", "signout"}, Bumped(kind),
         vpn' \in {StartConnect(vpn), StartDisconnect(vpn), Fail(vpn)},
         \/ EnqueueCLI(kind) /\ (kind = "connect" => cancel' = gens'.status)
         \/ UNCHANGED jobs,
         UNCHANGED <<polls, worker, async, proton>>
  PROVE  VpnInv' /\ vpn'.status = vpn.status
<1>1. QueuesInv /\ vpn \in VpnMachines
  BY DEF VpnInv
<1>2. /\ gens' \in Gens /\ \A p \in Parts : gens[p] <= gens'[p]
      /\ gens'.status = gens.status + 1 /\ gens'.config = gens.config
  BY <1>1, NewGens DEF JobKinds
<1>3. gens.status \in Nat /\ gens.status < gens'.status /\ gens'.status # gens.status
  BY <1>1, <1>2, QueuesFacts DEF Gens, Parts
<1>4. polls' \in [wants : SUBSET Parts, gens : Gens] /\ Past(polls)'
  BY <1>1, <1>2, PollsStay
<1>5. /\ vpn' \in VpnMachines /\ vpn'.status = vpn.status
      /\ vpn'.config = vpn.config /\ vpn'.read = vpn.read /\ vpn'.complains = vpn.complains
  BY <1>1, MachineMoves
<1>6. CASE EnqueueCLI(kind) /\ (kind = "connect" => cancel' = gens'.status)
  BY <1>2, <1>3, <1>4, <1>5, <1>6, AsksStep DEF JobKinds
<1>7. CASE UNCHANGED jobs
  BY <1>2, <1>3, <1>4, <1>5, <1>7, AsksStep DEF JobKinds
<1>8. QED
  BY <1>6, <1>7

LEMMA ConnectStep ==
  ASSUME VpnInv, NEW byButton \in BOOLEAN, Connect(byButton)
  PROVE  VpnInv' /\ vpn'.status = vpn.status
<1>1. /\ Bumped("connect") /\ UNCHANGED <<polls, worker, async, proton>>
      /\ \/ EnqueueCLI("connect") /\ cancel' = gens'.status
         \/ UNCHANGED jobs
  BY DEF Connect
<1>2. vpn' \in {StartConnect(vpn), StartDisconnect(vpn), Fail(vpn)}
  BY DEF Connect, Activates
<1>3. QED
  BY <1>1, <1>2, TunnelStep

LEMMA DisconnectStep ==
  ASSUME VpnInv, NEW byButton \in BOOLEAN, Disconnect(byButton)
  PROVE  VpnInv' /\ vpn'.status = vpn.status
<1>1. /\ Bumped("disconnect") /\ UNCHANGED <<polls, worker, async, proton>>
      /\ EnqueueCLI("disconnect") \/ UNCHANGED jobs
  BY DEF Disconnect
<1>2. vpn' \in {StartConnect(vpn), StartDisconnect(vpn), Fail(vpn)}
  BY DEF Disconnect, Activates
<1>3. QED
  BY <1>1, <1>2, TunnelStep

LEMMA SignOutStep ==
  ASSUME VpnInv, SignOut
  PROVE  VpnInv' /\ vpn'.status = vpn.status
<1>1. /\ Bumped("signout") /\ UNCHANGED <<polls, worker, async, proton>>
      /\ EnqueueCLI("signout") \/ UNCHANGED jobs
  BY DEF SignOut
<1>2. vpn' \in {StartConnect(vpn), StartDisconnect(vpn), Fail(vpn)}
  BY DEF SignOut, Activates
<1>3. QED
  BY <1>1, <1>2, TunnelStep

LEMMA SetConfigStep ==
  ASSUME VpnInv, SetConfig
  PROVE  VpnInv' /\ vpn'.status = vpn.status
<1>1. QueuesInv /\ vpn \in VpnMachines
  BY DEF VpnInv
<1>2. /\ gens' \in Gens /\ \A p \in Parts : gens[p] <= gens'[p]
      /\ gens'.config = gens.config + 1 /\ gens'.status = gens.status
  BY <1>1, NewGens DEF JobKinds, SetConfig
<1>3. gens.config \in Nat /\ gens.config < gens'.config
  BY <1>1, <1>2, QueuesFacts DEF Gens, Parts
<1>4. polls' \in [wants : SUBSET Parts, gens : Gens] /\ Past(polls)'
  BY <1>1, <1>2, PollsStay DEF SetConfig
<1>5. UNCHANGED <<cancel, worker, async, proton>>
  BY DEF SetConfig
<1>6. CASE HasRoom
  <2>1. EnqueueCLI("config") /\ vpn' = vpn
    BY <1>6 DEF SetConfig, Activates
  <2>2. QED
    BY <1>1, <1>2, <1>3, <1>4, <1>5, <2>1, AsksStep DEF JobKinds
<1>7. CASE ~HasRoom
  <2>1. UNCHANGED jobs /\ vpn' = [vpn EXCEPT !.complains = TRUE]
    BY <1>7 DEF SetConfig, Activates
  <2>2. /\ vpn' \in VpnMachines /\ vpn'.complains /\ vpn'.status = vpn.status
        /\ vpn'.config = vpn.config /\ vpn'.read = vpn.read
    BY <1>1, <2>1 DEF VpnMachines
  <2>3. QED
    BY <1>2, <1>3, <1>4, <1>5, <2>1, <2>2, AsksStep DEF JobKinds
<1>8. QED
  BY <1>6, <1>7

LEMMA RefreshStep ==
  ASSUME VpnInv, RefreshAll
  PROVE  VpnInv' /\ vpn'.status = vpn.status
<1>1. QueuesInv /\ vpn \in VpnMachines /\ gens \in Gens
  BY QueuesFacts DEF VpnInv
<1>2. /\ RequestPoll(Parts) /\ vpn' = vpn
      /\ UNCHANGED <<proton, gens, cancel, jobs, worker, async>>
  BY DEF RefreshAll, Activates
<1>3. polls' \in [wants : SUBSET Parts, gens : Gens] /\ Past(polls)'
  BY <1>1, <1>2, PollAsked
<1>4. \A p \in Parts : gens[p] <= gens'[p]
  BY <1>1, <1>2 DEF Gens
<1>5. QED
  BY <1>1, <1>2, <1>3, <1>4, AsksStep DEF JobKinds

LEMMA TickStep ==
  ASSUME VpnInv, VpnTick
  PROVE  VpnInv' /\ vpn'.status = vpn.status
<1>1. QueuesInv /\ vpn \in VpnMachines /\ gens \in Gens
  BY QueuesFacts DEF VpnInv
<1>2. PICK pollDue \in BOOLEAN, expired \in BOOLEAN, linkDue \in BOOLEAN :
        /\ IF pollDue THEN RequestPoll({"status"}) ELSE UNCHANGED polls
        /\ ShowsChange(IF pollDue /\ expired /\ InTransition THEN Fail(vpn) ELSE vpn)
        /\ gens' = gens
        /\ \/ EnqueueCLI("link")
           \/ UNCHANGED jobs
  BY DEF VpnTick
<1>3. UNCHANGED <<proton, cancel, worker, async>>
  BY DEF VpnTick
<1>4. \A p \in Parts : gens[p] <= gens'[p]
  BY <1>1, <1>2 DEF Gens
<1>5. polls' \in [wants : SUBSET Parts, gens : Gens] /\ Past(polls)'
  <2>1. {"status"} \in SUBSET Parts
    BY DEF Parts
  <2>2. CASE pollDue
    BY <1>1, <1>2, <2>1, <2>2, PollAsked
  <2>3. CASE ~pollDue
    BY <1>1, <1>2, <1>4, <2>3, PollsStay
  <2>4. QED
    BY <2>2, <2>3
<1>6. /\ vpn' \in VpnMachines /\ vpn'.status = vpn.status
      /\ vpn'.config = vpn.config /\ vpn'.read = vpn.read /\ vpn'.complains = vpn.complains
  <2>1. vpn' \in {vpn, Fail(vpn)}
    BY <1>2 DEF ShowsChange
  <2>2. QED
    BY <1>1, <2>1, MachineMoves
<1>7. CASE EnqueueCLI("link")
  BY <1>1, <1>2, <1>3, <1>4, <1>5, <1>6, <1>7, AsksStep DEF JobKinds
<1>8. CASE UNCHANGED jobs
  BY <1>1, <1>2, <1>3, <1>4, <1>5, <1>6, <1>8, AsksStep DEF JobKinds
<1>9. QED
  BY <1>2, <1>7, <1>8

-----------------------------------------------------------------------------
(* The worker.                                                             *)

LEMMA TakeJobStep ==
  ASSUME VpnInv, TakeJob
  PROVE  VpnInv' /\ vpn'.status = vpn.status
<1>1. /\ worker.kind \in {"looks", "waits"} /\ jobs # <<>> /\ jobs' = Tail(jobs)
      /\ worker' \in {Looking, Work("job", Head(jobs))}
      /\ worker' = Looking => Head(jobs).kind = "connect"
      /\ UNCHANGED <<proton, vpn, gens, cancel, polls, async>>
  BY DEF TakeJob, IsCancelled, Looking, Work
<1>2. QueuesInv /\ QueuesInv'
  BY <1>1, Taken DEF VpnInv
<1>3. /\ Len(jobs) \in Nat \ {0} /\ Head(jobs) = jobs[1] /\ Len(jobs') = Len(jobs) - 1
      /\ \A i \in 1..Len(jobs') : i + 1 \in 1..Len(jobs) /\ jobs'[i] = jobs[i + 1]
      /\ \A i \in 2..Len(jobs) : i - 1 \in 1..Len(jobs') /\ jobs'[i - 1] = jobs[i]
  BY <1>1, <1>2, QueuesFacts, Shortened
<1>4. 1 \in 1..Len(jobs) /\ \A i \in 1..Len(jobs) : i = 1 \/ i \in 2..Len(jobs)
  BY <1>3
<1>5. /\ worker'.kind \in {"looks", "job"}
      /\ worker'.kind = "job" => worker'.of = jobs[1]
      /\ worker'.kind = "looks" => jobs[1].kind = "connect"
  BY <1>1, <1>3 DEF Looking, Work
<1>6. OnTheirWay' = OnTheirWay
  <2>1. ASSUME NEW g \in OnTheirWay PROVE g \in OnTheirWay'
    <3>1. CASE \E k \in 1..Len(jobs) : jobs[k].kind = "config" /\ jobs[k].gens.config = g
      <4> PICK k \in 1..Len(jobs) : jobs[k].kind = "config" /\ jobs[k].gens.config = g
        BY <3>1
      <4>1. CASE k = 1
        BY <1>5, <4>1 DEF OnTheirWay, OnItsWay
      <4>2. CASE k \in 2..Len(jobs)
        BY <1>3, <4>2 DEF OnTheirWay, OnItsWay
      <4>3. QED
        BY <1>4, <4>1, <4>2
    <3>2. CASE \E i \in 1..Len(async) : async[i].kind = "config" /\ async[i].gens.config = g
      BY <1>1, <3>2 DEF OnTheirWay, OnItsWay
    <3>3. QED
      BY <1>1, <2>1, <3>1, <3>2 DEF OnTheirWay, OnItsWay
  <2>2. ASSUME NEW g \in OnTheirWay' PROVE g \in OnTheirWay
    BY <1>1, <1>3, <1>4, <1>5, <2>2 DEF OnTheirWay, OnItsWay
  <2>3. QED
    BY <2>1, <2>2
<1>7. ConnectEnds'
  BY <1>1, <1>3, <1>4, <1>5 DEF VpnInv, ConnectEnds
<1>8. LastReports' /\ TogglesTrue'
  BY <1>1, <1>6 DEF VpnInv, LastReports, TogglesTrue
<1>9. SettingsRead'
  BY <1>1, <1>5 DEF VpnInv, SettingsRead
<1>10. QED
  BY <1>1, <1>2, <1>7, <1>8, <1>9 DEF VpnInv

\* The worker takes up what is no job.
LEMMA NoJobStep ==
  ASSUME VpnInv, UNCHANGED <<proton, vpn, gens, cancel, jobs, async>>,
         worker.kind # "job", worker' \in Workers, worker'.kind # "job",
         worker'.kind = "poll" =>
           /\ Past(worker'.of) /\ ReadAfter(worker'.of)
           /\ "config" \in worker'.of.got.read => worker'.of.got.proton.config = proton.config,
         polls' \in [wants : SUBSET Parts, gens : Gens], Past(polls)'
  PROVE  VpnInv' /\ vpn'.status = vpn.status
<1>1. QueuesInv'
  BY Idled DEF VpnInv
<1>2. OnTheirWay' = OnTheirWay
  BY DEF OnTheirWay, OnItsWay
<1>3. ConnectEnds'
  BY DEF VpnInv, ConnectEnds
<1>4. LastReports' /\ TogglesTrue'
  BY <1>2 DEF VpnInv, LastReports, TogglesTrue
<1>5. SettingsRead'
  BY DEF VpnInv, SettingsRead
<1>6. QED
  BY <1>1, <1>3, <1>4, <1>5 DEF VpnInv

LEMMA FindNoJobStep ==
  ASSUME VpnInv, FindNoJob
  PROVE  VpnInv' /\ vpn'.status = vpn.status
<1>1. /\ worker.kind = "looks" /\ worker' = Work("waits", None)
      /\ UNCHANGED <<proton, vpn, gens, cancel, jobs, async, polls>>
  BY DEF FindNoJob
<1>2. worker' \in Workers /\ worker'.kind = "waits"
  BY <1>1 DEF Work, Workers
<1>3. polls' \in [wants : SUBSET Parts, gens : Gens] /\ Past(polls)'
  <2>1. QueuesInv
    BY DEF VpnInv
  <2>2. QED
    BY <1>1, <2>1, QueuesFacts DEF AllPast, Past
<1>4. QED
  BY <1>1, <1>2, <1>3, NoJobStep

\* What is read now is read after it was asked for.
LEMMA ReadingOK ==
  ASSUME VpnInv, NEW read \in SUBSET Parts, NEW now \in Protons
  PROVE  /\ Reading(read, now) \in Readings
         /\ "config" \in read => Reading(read, now).proton.config = now.config
         /\ Reading(read, now).read = read
         /\ "status" \in read => Reading(read, now).seen = gens.status
         /\ read # {} => Reading(read, now).proton = now
<1>1. gens.status \in Nat
  BY QueuesFacts DEF VpnInv, Gens, Parts
<1>2. QED
  BY <1>1 DEF Reading, Readings

LEMMA TakePollStep ==
  ASSUME VpnInv, TakePoll
  PROVE  VpnInv' /\ vpn'.status = vpn.status
<1>1. QueuesInv /\ proton \in Protons /\ polls \in [wants : SUBSET Parts, gens : Gens]
  BY QueuesFacts DEF VpnInv
<1> PICK failed \in SUBSET polls.wants :
      worker' = Work("poll", [gens |-> polls.gens, got |-> Reading(polls.wants \ failed, proton)])
  BY DEF TakePoll
<1> DEFINE read == polls.wants \ failed
           got == Reading(read, proton)
<1>2. read \in SUBSET Parts
  BY <1>1
<1> HIDE DEF read
<1>3. /\ got \in Readings /\ got.read = read
      /\ "config" \in read => got.proton.config = proton.config
      /\ "status" \in read => got.seen = gens.status
  BY <1>1, <1>2, ReadingOK
<1>4. worker' = Work("poll", [gens |-> polls.gens, got |-> got])
  BY DEF read
<1> HIDE DEF got
<1>5. /\ worker' \in Workers /\ worker'.kind = "poll" /\ worker'.of.gens = polls.gens
      /\ worker'.of.got = got
  BY <1>1, <1>3, <1>4 DEF Work, Workers
<1>6. Past(polls) /\ gens \in Gens /\ gens.status \in Nat
  BY <1>1, QueuesFacts DEF AllPast, Gens, Parts
<1>7. Past(worker'.of) /\ ReadAfter(worker'.of)
  BY <1>3, <1>5, <1>6 DEF Past, ReadAfter
<1>8. polls' = NoPoll /\ polls' \in [wants : SUBSET Parts, gens : Gens] /\ Past(polls)'
  <2>1. polls' = NoPoll /\ gens' = gens
    BY DEF TakePoll
  <2>2. NoPoll \in [wants : SUBSET Parts, gens : Gens] /\ NoPoll.gens.status = 0 /\ NoPoll.gens.config = 0
    BY DEF NoPoll, GensOf, Gens, Parts
  <2>3. gens.status >= 0 /\ gens.config >= 0
    BY <1>6 DEF Gens, Parts
  <2>4. QED
    BY <2>1, <2>2, <2>3 DEF Past
<1>9. UNCHANGED <<proton, vpn, gens, cancel, jobs, async>> /\ worker.kind = "waits"
  BY DEF TakePoll
<1>10. QED
  BY <1>3, <1>5, <1>7, <1>8, <1>9, NoJobStep

\* The worker posts what came of its job or of its poll.
LEMMA PostStep ==
  ASSUME VpnInv, worker.kind \in {"job", "poll"}, NEW f \in Closures,
         async' = Append(async, f), worker' = Looking,
         UNCHANGED <<vpn, gens, cancel, jobs, polls>>, proton' \in Protons,
         Past(f), ReadAfter(f),
         worker.kind = "job" => f.kind = worker.of.kind /\ f.gens = worker.of.gens,
         worker.kind = "poll" => f.kind = "poll",
         f.kind # "config" => proton'.config = proton.config,
         "config" \in f.got.read => f.got.proton.config = proton'.config
  PROVE  VpnInv' /\ vpn'.status = vpn.status
<1>1. QueuesInv /\ OrderKept /\ async \in Seq(Closures)
  BY QueuesFacts DEF VpnInv
<1>2. \A i \in 1..Len(async) : AskedBefore(async[i], f)
  BY <1>1 DEF OrderKept, AskedBefore
<1>3. \A k \in 1..Len(jobs) : AskedBefore(f, jobs[k])
  BY <1>1 DEF OrderKept, AskedBefore
<1>4. QueuesInv'
  BY <1>1, <1>2, <1>3, Posted
<1>5. /\ Len(async) \in Nat /\ Len(async') = Len(async) + 1
      /\ \A i \in 1..Len(async) : i \in 1..Len(async') /\ async'[i] = async[i]
      /\ async'[Len(async) + 1] = f
      /\ \A i \in 1..Len(async') : i \in 1..Len(async) \/ i = Len(async) + 1
      /\ Len(async) + 1 \in 1..Len(async')
  <2>1. /\ Len(async) \in Nat /\ Len(async') = Len(async) + 1
        /\ \A i \in 1..Len(async) : async'[i] = async[i]
        /\ async'[Len(async) + 1] = f
        /\ \A i \in 1..Len(async') : i \in 1..Len(async) \/ i = Len(async) + 1
    BY <1>1, Lengthened
  <2>2. QED
    BY <2>1
<1>6. worker'.kind = "looks"
  BY DEF Looking, Work
<1>7. OnTheirWay' = OnTheirWay
  <2>1. ASSUME NEW g \in OnTheirWay PROVE g \in OnTheirWay'
    BY <1>5, <2>1 DEF OnTheirWay, OnItsWay
  <2>2. ASSUME NEW g \in OnTheirWay' PROVE g \in OnTheirWay
    <3>1. CASE \E i \in 1..Len(async') : async'[i].kind = "config" /\ async'[i].gens.config = g
      <4> PICK i \in 1..Len(async') : async'[i].kind = "config" /\ async'[i].gens.config = g
        BY <3>1
      <4>1. CASE i \in 1..Len(async)
        BY <1>5, <2>2, <4>1 DEF OnTheirWay, OnItsWay
      <4>2. CASE i = Len(async) + 1
        <5>1. f.kind = "config" /\ f.gens.config = g
          BY <1>5, <4>2
        <5>2. worker.kind = "job" /\ worker.of.kind = "config" /\ worker.of.gens.config = g
          BY <5>1
        <5>3. QED
          BY <2>2, <5>2 DEF OnTheirWay, OnItsWay
      <4>3. QED
        BY <1>5, <4>1, <4>2
    <3>2. QED
      BY <1>6, <2>2, <3>1 DEF OnTheirWay, OnItsWay
  <2>3. QED
    BY <2>1, <2>2
<1>8. f.kind = "config" => f.gens.config \in OnTheirWay'
  BY <1>5 DEF OnTheirWay, OnItsWay, Closures, Gens, Parts
<1>9. ConnectEnds'
  BY <1>6 DEF VpnInv, ConnectEnds
<1>10. LastReports'
  BY <1>7 DEF VpnInv, LastReports
<1>11. TogglesTrue'
  <2>1. CASE f.kind = "config"
    BY <1>8, <2>1 DEF TogglesTrue
  <2>2. CASE f.kind # "config"
    BY <1>7, <2>2 DEF VpnInv, TogglesTrue
  <2>3. QED
    BY <2>1, <2>2
<1>12. SettingsRead'
  <2>1. ASSUME NEW i \in 1..Len(async'), "config" \in async'[i].got.read,
               async'[i].got.proton.config # proton'.config
        PROVE  \E k \in i + 1..Len(async') : async'[k].kind = "config"
    <3>1. i \in 1..Len(async) /\ async'[i] = async[i]
      BY <1>5, <2>1
    <3>2. CASE f.kind = "config"
      <4>1. Len(async) + 1 \in i + 1..Len(async')
        BY <1>5, <3>1
      <4>2. QED
        BY <1>5, <3>2, <4>1
    <3>3. CASE f.kind # "config"
      <4>1. PICK k \in i + 1..Len(async) : async[k].kind = "config"
        BY <2>1, <3>1, <3>3 DEF VpnInv, SettingsRead
      <4>2. k \in 1..Len(async) /\ k \in i + 1..Len(async')
        BY <1>5, <3>1, <4>1
      <4>3. QED
        BY <1>5, <4>1, <4>2
    <3>4. QED
      BY <3>2, <3>3
  <2>2. QED
    BY <1>6, <2>1 DEF SettingsRead
<1>13. QED
  BY <1>4, <1>9, <1>10, <1>11, <1>12 DEF VpnInv

LEMMA EndPollStep ==
  ASSUME VpnInv, EndPoll
  PROVE  VpnInv' /\ vpn'.status = vpn.status
<1>1. /\ worker \in Workers /\ worker.kind = "poll" /\ Past(worker.of) /\ ReadAfter(worker.of)
      /\ "config" \in worker.of.got.read => worker.of.got.proton.config = proton.config
  BY QueuesFacts DEF VpnInv, EndPoll, AllPast, AllReadAfter, SettingsRead
<1>2. worker.of.gens \in Gens /\ worker.of.got \in Readings
  BY <1>1 DEF Workers
<1> SUFFICES ASSUME NEW f, f = Closure("poll", worker.of, TRUE, worker.of.got)
             PROVE  VpnInv' /\ vpn'.status = vpn.status
  OBVIOUS
<1>3. /\ f \in Closures /\ f.kind = "poll" /\ f.gens = worker.of.gens /\ f.got = worker.of.got
  BY <1>2 DEF Closure, Closures, Was
<1>4. Past(f) /\ ReadAfter(f)
  BY <1>1, <1>3 DEF Past, ReadAfter
<1>5. /\ async' = Append(async, f) /\ worker' = Looking
      /\ UNCHANGED <<vpn, gens, cancel, jobs, polls, proton>>
  BY DEF EndPoll, Posts
<1>6. proton' \in Protons
  BY <1>5 DEF VpnInv
<1>7. QED
  BY <1>1, <1>3, <1>4, <1>5, <1>6, PostStep

\* What the CLI does outside; only a change of the settings changes the setting.
LEMMA EffectOK ==
  ASSUME VpnInv, NEW kind \in JobKinds, NEW was \in Was, kind = "config" => was \in BOOLEAN
  PROVE  /\ CliEffect(kind, was) \in Protons
         /\ kind # "config" => CliEffect(kind, was).config = proton.config
<1>1. proton \in Protons
  BY DEF VpnInv
<1>2. CASE kind = "connect"
  BY <1>1, <1>2 DEF CliEffect, Protons, Settled
<1>3. CASE kind = "disconnect"
  BY <1>1, <1>3 DEF CliEffect, Protons, Settled
<1>4. CASE kind = "signout"
  BY <1>1, <1>4 DEF CliEffect, Protons, Settled
<1>5. CASE kind = "config"
  BY <1>1, <1>5 DEF CliEffect, Protons
<1>6. CASE kind = "link"
  BY <1>1, <1>6 DEF CliEffect
<1>7. QED
  BY <1>2, <1>3, <1>4, <1>5, <1>6 DEF JobKinds

LEMMA ClosureOK ==
  ASSUME NEW job \in CliJobs, NEW ok \in BOOLEAN, NEW got \in Readings
  PROVE  LET f == Closure(job.kind, job, ok, got)
         IN f \in Closures /\ f.kind = job.kind /\ f.gens = job.gens /\ f.got = got
<1>1. /\ job.kind \in JobKinds /\ job.kind # "poll" /\ job.gens \in Gens /\ job.was \in Was
      /\ job.kind = "signout" => job.was \in Before
  BY DEF CliJobs, JobKinds
<1>2. QED
  BY <1>1 DEF Closure, Closures

LEMMA EndJobStep ==
  ASSUME VpnInv, EndJob
  PROVE  VpnInv' /\ vpn'.status = vpn.status
<1>1. worker \in Workers /\ worker.kind = "job" /\ Past(worker.of) /\ gens.status \in Nat
  BY QueuesFacts DEF VpnInv, EndJob, AllPast, Gens, Parts
<1>2. /\ worker.of \in CliJobs /\ worker.of.kind \in JobKinds /\ worker.of.gens \in Gens
      /\ worker.of.was \in Was
      /\ worker.of.kind = "signout" => worker.of.was \in Before
      /\ worker.of.kind = "config" => worker.of.was \in BOOLEAN
  BY <1>1 DEF Workers, CliJobs
<1> PICK ok \in BOOLEAN, worked \in BOOLEAN, failed \in SUBSET Parts :
      /\ proton' = IF worked THEN CliEffect(worker.of.kind, worker.of.was) ELSE proton
      /\ Posts(Closure(worker.of.kind, worker.of, ok,
               Reading((IF ok THEN CommandReads(worker.of.kind) ELSE {}) \ failed, proton')))
  BY DEF EndJob
<1>3. proton' \in Protons /\ (worker.of.kind # "config" => proton'.config = proton.config)
  BY <1>2, EffectOK DEF VpnInv
<1> SUFFICES ASSUME NEW read, read = (IF ok THEN CommandReads(worker.of.kind) ELSE {}) \ failed,
                    NEW got, got = Reading(read, proton'),
                    NEW f, f = Closure(worker.of.kind, worker.of, ok, got)
             PROVE  VpnInv' /\ vpn'.status = vpn.status
  OBVIOUS
<1>4. read \in SUBSET Parts
  BY DEF CommandReads, Parts
<1>5. /\ got \in Readings /\ got.read = read
      /\ "config" \in read => got.proton.config = proton'.config
      /\ "status" \in read => got.seen = gens.status
  <2> SUFFICES ASSUME NEW now \in Protons, now = proton'
               PROVE  /\ Reading(read, now) \in Readings /\ Reading(read, now).read = read
                      /\ "config" \in read => Reading(read, now).proton.config = now.config
                      /\ "status" \in read => Reading(read, now).seen = gens.status
    BY <1>3
  <2>1. QED
    BY <1>4, ReadingOK
<1>6. /\ f \in Closures /\ f.kind = worker.of.kind /\ f.gens = worker.of.gens /\ f.got = got
  <2> SUFFICES ASSUME NEW job \in CliJobs
               PROVE  LET g == Closure(job.kind, job, ok, got)
                      IN /\ g \in Closures /\ g.kind = job.kind /\ g.gens = job.gens
                         /\ g.got = got
    BY <1>2
  <2>1. QED
    BY <1>5, ClosureOK
<1>7. Past(f) /\ ReadAfter(f)
  BY <1>1, <1>5, <1>6 DEF Past, ReadAfter
<1>8. async' = Append(async, f) /\ worker' = Looking
  BY DEF Posts
<1>9. UNCHANGED <<vpn, gens, cancel, jobs, polls>>
  BY DEF EndJob
<1>10. QED
  BY <1>1, <1>3, <1>5, <1>6, <1>7, <1>8, <1>9, PostStep

-----------------------------------------------------------------------------
(* The loop.                                                               *)

\* The loop applies what came first.
LEMMA ClosureStep ==
  ASSUME VpnInv, async # <<>>, async' = Tail(async), UNCHANGED <<proton, jobs, gens, worker>>,
         polls' \in [wants : SUBSET Parts, gens : Gens], Past(polls)',
         vpn' \in VpnMachines,
         cancel' = cancel \/ (Head(async).kind = "connect" /\ Head(async).gens.status = gens.status),
         \/ Head(async).kind = "config" /\ Head(async).gens.config = gens.config
            /\ (vpn'.complains \/ vpn'.config = proton.config \/ OnTheirWay' # {})
         \/ Head(async).kind = "config" /\ Head(async).gens.config # gens.config
            /\ vpn'.complains = vpn.complains
         \/ /\ Head(async).kind # "config" /\ vpn'.complains = vpn.complains
            /\ \/ vpn'.config = vpn.config /\ vpn'.read = vpn.read
               \/ vpn'.config = proton.config \/ OnTheirWay' # {}
  PROVE  VpnInv'
<1>1. QueuesInv /\ async \in Seq(Closures) /\ OrderKept /\ gens \in Gens
  BY QueuesFacts DEF VpnInv
<1>2. QueuesInv'
  BY <1>1, Applied
<1>3. /\ Len(async) \in Nat \ {0} /\ Head(async) \in Closures /\ Head(async) = async[1]
      /\ Len(async') = Len(async) - 1
      /\ \A i \in 1..Len(async') : i + 1 \in 1..Len(async) /\ async'[i] = async[i + 1]
      /\ \A i \in 2..Len(async) : i - 1 \in 1..Len(async') /\ async'[i - 1] = async[i]
  BY <1>1, Shortened
<1>4. 1 \in 1..Len(async) /\ \A i \in 1..Len(async) : i = 1 \/ i \in 2..Len(async)
  BY <1>3
<1>5. OnTheirWay' \subseteq OnTheirWay
  BY <1>3 DEF OnTheirWay, OnItsWay
<1>6. ASSUME NEW g \in OnTheirWay
      PROVE  g \in OnTheirWay' \/ (Head(async).kind = "config" /\ g = Head(async).gens.config)
  <2>1. CASE \E i \in 1..Len(async) : async[i].kind = "config" /\ async[i].gens.config = g
    <3> PICK i \in 1..Len(async) : async[i].kind = "config" /\ async[i].gens.config = g
      BY <2>1
    <3>1. CASE i = 1
      BY <1>3, <3>1
    <3>2. CASE i \in 2..Len(async)
      <4>1. i - 1 \in 1..Len(async') /\ async'[i - 1] = async[i]
        BY <1>3, <3>2
      <4>2. OnItsWay(g)'
        BY <4>1 DEF OnItsWay
      <4>3. QED
        BY <1>6, <4>2 DEF OnTheirWay
    <3>3. QED
      BY <1>4, <3>1, <3>2
  <2>2. QED
    BY <1>6, <2>1 DEF OnTheirWay, OnItsWay
<1>7. ASSUME Head(async).kind = "config", NEW g \in OnTheirWay'
      PROVE  Head(async).gens.config < g /\ g <= gens.config
  <2> DEFINE after(x) == x.kind = "config" /\ x.gens.config = g
  <2>1. ASSUME NEW x, after(x), AskedBefore(async[1], x), Past(x)
        PROVE  Head(async).gens.config < g /\ g <= gens.config
    BY <1>3, <1>7, <2>1 DEF AskedBefore, Past
  <2>2. CASE \E k \in 1..Len(jobs) : after(jobs[k])
    <3> PICK k \in 1..Len(jobs) : after(jobs[k])
      BY <2>2
    <3>1. AskedBefore(async[1], jobs[k]) /\ Past(jobs[k])
      BY <1>1, <1>4, QueuesFacts DEF OrderKept, AllPast
    <3>2. QED
      BY <2>1, <3>1
  <2>3. CASE \E i \in 1..Len(async') : after(async'[i])
    <3> PICK i \in 1..Len(async') : after(async'[i])
      BY <2>3
    <3>1. i + 1 \in 1..Len(async) /\ async'[i] = async[i + 1] /\ 1 < i + 1
      BY <1>3
    <3>2. AskedBefore(async[1], async[i + 1]) /\ Past(async[i + 1])
      BY <1>1, <1>4, <3>1, QueuesFacts DEF OrderKept, AllPast
    <3>3. QED
      BY <2>1, <3>1, <3>2
  <2>4. CASE worker.kind = "job" /\ after(worker.of)
    <3>1. AskedBefore(async[1], worker.of) /\ Past(worker.of)
      BY <1>1, <1>4, <2>4, QueuesFacts DEF OrderKept, AllPast
    <3>2. QED
      BY <2>1, <2>4, <3>1
  <2>5. OnItsWay(g)'
    BY <1>7 DEF OnTheirWay
  <2>6. QED
    BY <2>2, <2>3, <2>4, <2>5 DEF OnItsWay
<1>8. gens.config \in Nat /\ OnTheirWay' \subseteq Nat
  BY <1>1 DEF Gens, Parts, OnTheirWay
<1>9. Head(async).kind = "config" /\ Head(async).gens.config = gens.config => OnTheirWay' = {}
  <2> SUFFICES ASSUME Head(async).kind = "config", Head(async).gens.config = gens.config,
                      NEW g \in OnTheirWay'
               PROVE  FALSE
    OBVIOUS
  <2>1. QED
    BY <1>7, <1>8
<1>10. LastReports'
  <2> SUFFICES ASSUME OnTheirWay' # {} PROVE vpn'.complains \/ gens.config \in OnTheirWay'
    BY DEF LastReports
  <2>1. vpn'.complains = vpn.complains
    BY <1>9
  <2>2. vpn.complains \/ gens.config \in OnTheirWay
    BY <1>5 DEF VpnInv, LastReports
  <2>3. QED
    BY <1>6, <1>9, <2>1, <2>2
<1>11. TogglesTrue'
  <2> SUFFICES ASSUME vpn'.read, ~vpn'.complains, OnTheirWay' = {} PROVE vpn'.config = proton.config
    BY DEF TogglesTrue
  <2>1. CASE Head(async).kind = "config" /\ Head(async).gens.config = gens.config
    BY <2>1
  <2>2. CASE Head(async).kind = "config" /\ Head(async).gens.config # gens.config
    <3>1. Head(async).gens.config \in OnTheirWay /\ ~vpn.complains
      <4>1. Head(async).gens.config \in Nat
        BY <1>3 DEF Closures, Gens, Parts
      <4>2. OnItsWay(Head(async).gens.config)
        BY <1>3, <1>4, <2>2 DEF OnItsWay
      <4>3. QED
        BY <2>2, <4>1, <4>2 DEF OnTheirWay
    <3>2. gens.config \in OnTheirWay
      BY <3>1 DEF VpnInv, LastReports
    <3>3. QED
      BY <1>6, <2>2, <3>2
  <2>3. CASE Head(async).kind # "config"
    <3>1. OnTheirWay = {} /\ ~vpn.complains
      BY <1>6, <2>3
    <3>2. QED
      BY <2>3, <3>1 DEF VpnInv, TogglesTrue
  <2>4. QED
    BY <2>1, <2>2, <2>3
<1>12. ConnectEnds'
  <2>1. CASE cancel' = cancel
    BY <2>1 DEF VpnInv, ConnectEnds
  <2>2. CASE Head(async).kind = "connect" /\ Head(async).gens.status = gens.status
    <3>1. gens.status \in Nat
      BY <1>1 DEF Gens, Parts
    <3>2. \A k \in 1..Len(jobs) : jobs[k].kind = "connect" => gens.status < jobs[k].gens.status
      BY <1>1, <1>3, <1>4, <2>2 DEF OrderKept, AskedBefore
    <3>3. worker.kind = "job" /\ worker.of.kind = "connect" => gens.status < worker.of.gens.status
      BY <1>1, <1>3, <1>4, <2>2 DEF OrderKept, AskedBefore
    <3>4. QED
      BY <3>1, <3>2, <3>3 DEF ConnectEnds
  <2>3. QED
    BY <2>1, <2>2
<1>13. SettingsRead'
  <2>1. ASSUME NEW i \in 1..Len(async'), "config" \in async'[i].got.read,
               async'[i].got.proton.config # proton.config
        PROVE  \E k \in i + 1..Len(async') : async'[k].kind = "config"
    <3>1. i + 1 \in 1..Len(async) /\ async'[i] = async[i + 1]
      BY <1>3
    <3>2. PICK k \in i + 1 + 1..Len(async) : async[k].kind = "config"
      BY <2>1, <3>1 DEF VpnInv, SettingsRead
    <3>3. k \in 2..Len(async) /\ k - 1 \in i + 1..Len(async')
      BY <1>3, <3>1, <3>2
    <3>4. QED
      BY <1>3, <3>2, <3>3
  <2>2. QED
    BY <2>1 DEF VpnInv, SettingsRead
<1>14. QED
  BY <1>2, <1>10, <1>11, <1>12, <1>13 DEF VpnInv

\* What a closure read of the settings is the setting of now, or a change of it is to come.
LEMMA SettingApplied ==
  ASSUME VpnInv, async # <<>>, async' = Tail(async), UNCHANGED <<proton, jobs, worker>>,
         "config" \in Head(async).got.read
  PROVE  Head(async).got.proton.config = proton.config \/ OnTheirWay' # {}
<1>1. /\ Len(async) \in Nat \ {0} /\ Head(async) = async[1] /\ Len(async') = Len(async) - 1
      /\ \A i \in 2..Len(async) : i - 1 \in 1..Len(async') /\ async'[i - 1] = async[i]
  BY QueuesFacts, Shortened DEF VpnInv
<1> SUFFICES ASSUME Head(async).got.proton.config # proton.config PROVE OnTheirWay' # {}
  OBVIOUS
<1>2. 1 \in 1..Len(async) /\ 1 + 1 = 2
  BY <1>1
<1>3. PICK k \in 2..Len(async) : async[k].kind = "config"
  BY <1>1, <1>2 DEF VpnInv, SettingsRead
<1>4. k - 1 \in 1..Len(async') /\ async'[k - 1].kind = "config"
  BY <1>1, <1>3
<1>5. async[k].gens.config \in Nat /\ async'[k - 1] = async[k]
  <2>1. async[k] \in Closures
    BY <1>1, <1>3, QueuesFacts DEF VpnInv
  <2>2. QED
    BY <1>1, <1>3, <2>1 DEF Closures, Gens, Parts
<1>6. QED
  BY <1>4, <1>5 DEF OnTheirWay, OnItsWay

\* What the closure at the head is, and what it read.
LEMMA HeadFacts ==
  ASSUME VpnInv, async # <<>>
  PROVE  /\ Head(async) \in Closures /\ Past(Head(async)) /\ ReadAfter(Head(async))
         /\ gens.status \in Nat /\ gens.config \in Nat
         /\ Head(async).got.read # {} => Head(async).got.proton \in Protons
         /\ Head(async).gens.status \in Nat /\ Head(async).gens.config \in Nat
         /\ Head(async).got.seen \in Nat
<1>1. Head(async) \in Closures /\ Len(async) \in Nat \ {0} /\ Head(async) = async[1]
  BY QueuesFacts, Shortened DEF VpnInv
<1>2. 1 \in 1..Len(async)
  BY <1>1
<1>3. Past(Head(async)) /\ ReadAfter(Head(async))
  BY <1>1, <1>2, QueuesFacts DEF VpnInv, AllPast, AllReadAfter
<1>4. Head(async).gens \in Gens /\ Head(async).got \in Readings /\ gens \in Gens
  BY <1>1, QueuesFacts DEF VpnInv, Closures
<1>5. QED
  BY <1>1, <1>3, <1>4 DEF Gens, Parts, Readings

\* A status that the last generation asked for was read after it.
LEMMA ReadNow ==
  ASSUME VpnInv, async # <<>>, Head(async).gens.status = gens.status,
         "status" \in Head(async).got.read
  PROVE  Head(async).got.seen = gens.status
BY HeadFacts DEF ReadAfter

LEMMA PollsSame ==
  ASSUME VpnInv, gens' = gens, polls' = polls
  PROVE  polls' \in [wants : SUBSET Parts, gens : Gens] /\ Past(polls)'
BY QueuesFacts DEF VpnInv, AllPast, Past

\* A new status is one of now.
LEMMA StatusSet ==
  ASSUME NEW m \in VpnMachines, NEW tunnel \in Settled
  PROVE  /\ SetStatus(m, tunnel) \in VpnMachines
         /\ LET n == SetStatus(m, tunnel)
            IN n.config = m.config /\ n.read = m.read /\ n.complains = m.complains
BY DEF SetStatus, VpnMachines, Settled

LEMMA AccountSet ==
  ASSUME NEW m \in VpnMachines, NEW account \in BOOLEAN
  PROVE  LET n == [m EXCEPT !.account = account]
         IN /\ n \in VpnMachines /\ n.status = m.status
            /\ n.config = m.config /\ n.read = m.read /\ n.complains = m.complains
BY DEF VpnMachines

LEMMA SettingSet ==
  ASSUME NEW m \in VpnMachines, NEW config \in BOOLEAN
  PROVE  LET n == [m EXCEPT !.config = config, !.read = TRUE]
         IN /\ n \in VpnMachines /\ n.status = m.status /\ n.complains = m.complains
            /\ n.config = config
BY DEF VpnMachines

LEMMA ApplyPollStep ==
  ASSUME VpnInv, ApplyPoll
  PROVE  VpnInv' /\ StatusIsNew
<1>1. /\ async # <<>> /\ async' = Tail(async) /\ Head(async).kind = "poll"
      /\ UNCHANGED <<proton, gens, cancel, jobs, polls, worker>>
  BY DEF ApplyPoll, Arrived
<1>2. polls' \in [wants : SUBSET Parts, gens : Gens] /\ Past(polls)'
  BY <1>1, PollsSame
<1> SUFFICES ASSUME NEW f, f = Head(async),
                    NEW a, a = IF Takes(f, "status") THEN SetStatus(vpn, f.got.proton.status) ELSE vpn,
                    NEW b, b = IF Takes(f, "info") THEN [a EXCEPT !.account = f.got.proton.info] ELSE a
             PROVE  VpnInv' /\ StatusIsNew
  OBVIOUS
<1>3. /\ vpn \in VpnMachines
      /\ f.got.read # {} => f.got.proton \in Protons
  BY <1>1, HeadFacts DEF VpnInv
<1>4. /\ a \in VpnMachines /\ a.config = vpn.config /\ a.read = vpn.read
      /\ a.complains = vpn.complains
      /\ a.status # vpn.status => Takes(f, "status")
  <2>1. CASE Takes(f, "status")
    <3>1. f.got.proton.status \in Settled
      BY <1>3, <2>1 DEF Takes, Protons
    <3>2. QED
      BY <1>3, <2>1, <3>1, StatusSet
  <2>2. CASE ~Takes(f, "status")
    BY <1>3, <2>2
  <2>3. QED
    BY <2>1, <2>2
<1>5. /\ b \in VpnMachines /\ b.config = vpn.config /\ b.read = vpn.read
      /\ b.complains = vpn.complains /\ b.status = a.status
  <2>1. CASE Takes(f, "info")
    <3>1. f.got.proton.info \in BOOLEAN
      BY <1>3, <2>1 DEF Takes, Protons
    <3>2. QED
      BY <1>4, <2>1, <3>1, AccountSet
  <2>2. CASE ~Takes(f, "info")
    BY <1>4, <2>2
  <2>3. QED
    BY <2>1, <2>2
<1>6. vpn' = IF Takes(f, "config")
             THEN [b EXCEPT !.config = f.got.proton.config, !.read = TRUE] ELSE b
  BY DEF ApplyPoll, ShowsChange
<1>7. /\ vpn' \in VpnMachines /\ vpn'.complains = vpn.complains /\ vpn'.status = a.status
      /\ \/ vpn'.config = vpn.config /\ vpn'.read = vpn.read
         \/ vpn'.config = proton.config \/ OnTheirWay' # {}
  <2>1. CASE Takes(f, "config")
    <3>1. f.got.proton.config \in BOOLEAN /\ "config" \in f.got.read
      BY <1>3, <2>1 DEF Takes, Protons
    <3>2. f.got.proton.config = proton.config \/ OnTheirWay' # {}
      BY <1>1, <3>1, SettingApplied
    <3>3. /\ vpn' \in VpnMachines /\ vpn'.complains = b.complains /\ vpn'.status = b.status
          /\ vpn'.config = f.got.proton.config
      BY <1>5, <1>6, <2>1, <3>1, SettingSet
    <3>4. QED
      BY <1>5, <3>2, <3>3
  <2>2. CASE ~Takes(f, "config")
    BY <1>5, <1>6, <2>2
  <2>3. QED
    BY <2>1, <2>2
<1>8. VpnInv'
  BY <1>1, <1>2, <1>7, ClosureStep
<1>9. StatusIsNew
  <2> SUFFICES ASSUME vpn'.status # vpn.status, "status" \in Head(async).got.read
               PROVE  Head(async).got.seen = gens.status
    BY DEF StatusIsNew
  <2>1. Head(async).gens.status = gens.status
    BY <1>4, <1>7 DEF Takes
  <2>2. QED
    BY <1>1, <2>1, ReadNow
<1>10. QED
  BY <1>8, <1>9

LEMMA ApplyCommandStep ==
  ASSUME VpnInv, ApplyCommand
  PROVE  VpnInv' /\ StatusIsNew
<1>1. /\ async # <<>> /\ async' = Tail(async) /\ Head(async).kind \in {"connect", "disconnect"}
      /\ UNCHANGED <<proton, gens, jobs, worker>>
      /\ vpn' \in {vpn, Fail(vpn)}
      /\ RequestPoll({"status"}) \/ UNCHANGED polls
      /\ cancel' = cancel \/ (Head(async).kind = "connect" /\ Head(async).gens.status = gens.status)
  BY DEF ApplyCommand, Arrived, ShowsChange
<1>2. polls' \in [wants : SUBSET Parts, gens : Gens] /\ Past(polls)'
  <2>1. {"status"} \in SUBSET Parts /\ QueuesInv
    BY DEF Parts, VpnInv
  <2>2. QED
    BY <1>1, <2>1, PollAsked, PollsSame
<1>3. /\ vpn' \in VpnMachines /\ vpn'.status = vpn.status
      /\ vpn'.config = vpn.config /\ vpn'.read = vpn.read /\ vpn'.complains = vpn.complains
  BY <1>1, MachineMoves DEF VpnInv
<1>4. VpnInv'
  BY <1>1, <1>2, <1>3, ClosureStep
<1>5. QED
  BY <1>3, <1>4 DEF StatusIsNew

LEMMA ApplySignOutStep ==
  ASSUME VpnInv, ApplySignOut
  PROVE  VpnInv' /\ StatusIsNew
<1>1. /\ async # <<>> /\ async' = Tail(async) /\ Head(async).kind = "signout"
      /\ UNCHANGED <<proton, gens, cancel, jobs, polls, worker>>
  BY DEF ApplySignOut, Arrived
<1>2. polls' \in [wants : SUBSET Parts, gens : Gens] /\ Past(polls)'
  BY <1>1, PollsSame
<1> SUFFICES
      ASSUME NEW f, f = Head(async),
             NEW status,
             status = IF f.ok /\ "status" \in f.got.read THEN f.got.proton.status ELSE f.was.status,
             NEW account,
             account = IF "info" \in f.got.read THEN f.got.proton.info ELSE f.was.account,
             NEW m, m = IF f.gens.status = gens.status THEN SetStatus(vpn, status) ELSE vpn
      PROVE  VpnInv' /\ StatusIsNew
  OBVIOUS
<1>3. /\ vpn \in VpnMachines /\ f.was \in Before
      /\ f.got.read # {} => f.got.proton \in Protons
  BY <1>1, HeadFacts DEF VpnInv, Closures
<1>4. status \in Settled /\ account \in BOOLEAN
  BY <1>3 DEF Before, Protons
<1>5. /\ m \in VpnMachines /\ m.config = vpn.config /\ m.read = vpn.read
      /\ m.complains = vpn.complains
      /\ m.status # vpn.status => f.gens.status = gens.status
  <2>1. CASE f.gens.status = gens.status
    BY <1>3, <1>4, <2>1, StatusSet
  <2>2. CASE f.gens.status # gens.status
    BY <1>3, <2>2
  <2>3. QED
    BY <2>1, <2>2
<1>6. vpn' \in {m, [m EXCEPT !.account = account]}
  BY DEF ApplySignOut, ShowsChange
<1>7. /\ vpn' \in VpnMachines /\ vpn'.complains = vpn.complains /\ vpn'.status = m.status
      /\ vpn'.config = vpn.config /\ vpn'.read = vpn.read
  <2>1. CASE vpn' = m
    BY <1>5, <2>1
  <2>2. CASE vpn' = [m EXCEPT !.account = account]
    BY <1>4, <1>5, <2>2, AccountSet
  <2>3. QED
    BY <1>6, <2>1, <2>2
<1>8. VpnInv'
  BY <1>1, <1>2, <1>7, ClosureStep
<1>9. StatusIsNew
  BY <1>1, <1>5, <1>7, ReadNow DEF StatusIsNew
<1>10. QED
  BY <1>8, <1>9

LEMMA ApplyConfigStep ==
  ASSUME VpnInv, ApplyConfig
  PROVE  VpnInv' /\ StatusIsNew
<1>1. /\ async # <<>> /\ async' = Tail(async) /\ Head(async).kind = "config"
      /\ UNCHANGED <<proton, gens, cancel, jobs, polls, worker>>
  BY DEF ApplyConfig, Arrived
<1>2. polls' \in [wants : SUBSET Parts, gens : Gens] /\ Past(polls)'
  BY <1>1, PollsSame
<1>3. /\ vpn \in VpnMachines
      /\ Head(async).got.read # {} => Head(async).got.proton \in Protons
  BY <1>1, HeadFacts DEF VpnInv
<1>4. CASE Head(async).gens.config # gens.config
  <2>1. vpn' = vpn
    BY <1>4 DEF ApplyConfig, ShowsChange
  <2>2. QED
    BY <1>1, <1>2, <1>3, <1>4, <2>1, ClosureStep DEF StatusIsNew
<1>5. CASE Head(async).gens.config = gens.config
  <2>1. CASE ~Head(async).ok \/ "config" \notin Head(async).got.read
    <3>1. vpn' = [vpn EXCEPT !.complains = TRUE]
      BY <1>5, <2>1 DEF ApplyConfig, ShowsChange
    <3>2. vpn' \in VpnMachines /\ vpn'.complains /\ vpn'.status = vpn.status
      BY <1>3, <3>1 DEF VpnMachines
    <3>3. QED
      BY <1>1, <1>2, <1>5, <3>2, ClosureStep DEF StatusIsNew
  <2>2. CASE Head(async).ok /\ "config" \in Head(async).got.read
    <3>1. vpn' = [vpn EXCEPT !.config = Head(async).got.proton.config, !.read = TRUE,
                             !.complains = FALSE]
      BY <1>5, <2>2 DEF ApplyConfig, ShowsChange
    <3>2. Head(async).got.proton.config \in BOOLEAN
      BY <1>3, <2>2 DEF Protons
    <3>3. /\ vpn' \in VpnMachines /\ vpn'.status = vpn.status
          /\ vpn'.config = Head(async).got.proton.config
      BY <1>3, <3>1, <3>2 DEF VpnMachines
    <3>4. Head(async).got.proton.config = proton.config \/ OnTheirWay' # {}
      BY <1>1, <2>2, SettingApplied
    <3>5. VpnInv'
      BY <1>1, <1>2, <1>5, <3>3, <3>4, ClosureStep
    <3>6. QED
      BY <3>3, <3>5 DEF StatusIsNew
  <2>3. QED
    BY <2>1, <2>2
<1>6. QED
  BY <1>4, <1>5

LEMMA ApplyLinkStep ==
  ASSUME VpnInv, ApplyLink
  PROVE  VpnInv' /\ StatusIsNew
<1>1. /\ async # <<>> /\ async' = Tail(async) /\ Head(async).kind = "link"
      /\ UNCHANGED <<proton, vpn, gens, cancel, jobs, polls, worker>>
  BY DEF ApplyLink, Arrived
<1>2. polls' \in [wants : SUBSET Parts, gens : Gens] /\ Past(polls)'
  BY <1>1, PollsSame
<1>3. vpn' \in VpnMachines
  BY <1>1 DEF VpnInv
<1>4. QED
  BY <1>1, <1>2, <1>3, ClosureStep DEF StatusIsNew

LEMMA ElsewhereStep ==
  ASSUME VpnInv, Elsewhere
  PROVE  VpnInv' /\ vpn'.status = vpn.status
<1>1. UNCHANGED <<vpn, gens, cancel, jobs, polls, worker, async>>
  BY DEF Elsewhere
<1>2. proton' \in Protons /\ proton'.config = proton.config
  BY DEF Elsewhere, VpnInv, Protons
<1>3. QueuesInv'
  BY <1>1 DEF VpnInv, QueuesInv, QueuesTypeOK, OrderKept, AskedBefore, AllPast, Past,
              AllReadAfter, ReadAfter
<1>4. OnTheirWay' = OnTheirWay
  BY <1>1 DEF OnTheirWay, OnItsWay
<1>5. LastReports' /\ TogglesTrue' /\ ConnectEnds' /\ SettingsRead'
  BY <1>1, <1>2, <1>4 DEF VpnInv, LastReports, TogglesTrue, ConnectEnds, SettingsRead
<1>6. QED
  BY <1>1, <1>2, <1>3, <1>5 DEF VpnInv

-----------------------------------------------------------------------------
(* The theorem.                                                            *)

LEMMA VpnInvInit == VpnInit => VpnInv
<1> SUFFICES ASSUME VpnInit PROVE VpnInv
  OBVIOUS
<1>1. /\ jobs = <<>> /\ async = <<>> /\ Len(jobs) = 0 /\ Len(async) = 0
      /\ worker.kind = "looks" /\ worker \in Workers
  BY DEF VpnInit, Looking, Work, Workers
<1>2. gens \in Gens /\ gens.status = 0 /\ gens.config = 0
  BY DEF VpnInit, Gens, Parts
<1>3. polls \in [wants : SUBSET Parts, gens : Gens] /\ polls.gens = gens
  BY <1>2 DEF VpnInit
<1>4. jobs \in Seq(CliJobs) /\ async \in Seq(Closures)
  BY <1>1
<1>5. QueuesInv
  BY <1>1, <1>2, <1>3, <1>4 DEF QueuesInv, QueuesTypeOK, OrderKept, AllPast, Past, AllReadAfter
<1>6. proton \in Protons /\ vpn \in VpnMachines /\ ~vpn.read
  BY DEF VpnInit, Protons, VpnMachines, Settled
<1>7. OnTheirWay = {}
  BY <1>1 DEF OnTheirWay, OnItsWay
<1>8. QED
  BY <1>1, <1>5, <1>6, <1>7 DEF VpnInv, SettingsRead, LastReports, TogglesTrue, ConnectEnds

LEMMA VpnInvNext == VpnInv /\ [VpnNext]_vpnVars => VpnInv' /\ [StatusIsNew]_vpnVars
<1> SUFFICES ASSUME VpnInv, [VpnNext]_vpnVars PROVE VpnInv' /\ [StatusIsNew]_vpnVars
  OBVIOUS
<1>1. vpn'.status = vpn.status => [StatusIsNew]_vpnVars
  BY DEF StatusIsNew
<1>2. ASSUME NEW byButton \in BOOLEAN, Connect(byButton) \/ Disconnect(byButton)
      PROVE  VpnInv' /\ [StatusIsNew]_vpnVars
  BY <1>1, <1>2, ConnectStep, DisconnectStep
<1>3. CASE SignOut \/ SetConfig \/ RefreshAll \/ VpnTick
  BY <1>1, <1>3, SignOutStep, SetConfigStep, RefreshStep, TickStep
<1>4. CASE Worker
  BY <1>1, <1>4, TakeJobStep, FindNoJobStep, TakePollStep, EndPollStep, EndJobStep DEF Worker
<1>5. CASE RunClosure
  BY <1>5, ApplyPollStep, ApplyCommandStep, ApplySignOutStep, ApplyConfigStep, ApplyLinkStep
     DEF RunClosure
<1>6. CASE Elsewhere
  BY <1>1, <1>6, ElsewhereStep
<1>7. CASE UNCHANGED vpnVars
  <2>1. UNCHANGED <<proton, vpn, gens, cancel, jobs, polls, worker, async>>
    BY <1>7 DEF vpnVars
  <2>2. QueuesInv'
    BY <2>1 DEF VpnInv, QueuesInv, QueuesTypeOK, OrderKept, AskedBefore, AllPast, Past,
                AllReadAfter, ReadAfter
  <2>3. OnTheirWay' = OnTheirWay
    BY <2>1 DEF OnTheirWay, OnItsWay
  <2>4. LastReports' /\ TogglesTrue' /\ ConnectEnds' /\ SettingsRead'
    BY <2>1, <2>3 DEF VpnInv, LastReports, TogglesTrue, ConnectEnds, SettingsRead
  <2>5. QED
    BY <1>7, <2>1, <2>2, <2>4 DEF VpnInv
<1>8. QED
  BY <1>2, <1>3, <1>4, <1>5, <1>6, <1>7 DEF VpnNext

LEMMA InvObeys == VpnInv => CancelReaches /\ ConfigHonest
<1> SUFFICES ASSUME VpnInv PROVE CancelReaches /\ ConfigHonest
  OBVIOUS
<1>1. CancelReaches
  <2> SUFFICES ASSUME NEW job, job.kind = "connect", job.gens.status = gens.status,
                      job \in Range(jobs) \/ (worker.kind = "job" /\ job = worker.of)
               PROVE  cancel = gens.status
    BY DEF CancelReaches
  <2>1. jobs \in Seq(CliJobs)
    BY QueuesFacts DEF VpnInv
  <2>2. job \in Range(jobs) => \E k \in 1..Len(jobs) : job = jobs[k]
    BY <2>1 DEF Range
  <2>3. QED
    BY <2>2 DEF VpnInv, ConnectEnds
<1>2. ConfigHonest
  <2>1. jobs \in Seq(CliJobs) /\ async \in Seq(Closures)
    BY QueuesFacts DEF VpnInv
  <2>2. /\ \A k \in 1..Len(jobs) : jobs[k] \in Range(jobs)
        /\ \A i \in 1..Len(async) : async[i] \in Range(async)
    BY <2>1 DEF Range
  <2>3. OnTheirWay # {} =>
          \/ \E job \in Range(jobs) \cup Range(async) : job.kind = "config"
          \/ worker.kind = "job" /\ worker.of.kind = "config"
    BY <2>2 DEF OnTheirWay, OnItsWay
  <2>4. QED
    BY <2>3 DEF VpnInv, TogglesTrue, ConfigHonest
<1>3. QED
  BY <1>1, <1>2

\* The loop's generations keep the panel right whatever the worker is late with: Cancel
\* ends the connect that is shown, no status from before a command undoes it, and the
\* toggles tell the truth or the panel complains, for queues of any length and any number
\* of commands and mishaps (main.go, state.go).
THEOREM TunnelIsObeyed == VpnSpec => TunnelObeys
<1>1. VpnInit => VpnInv
  BY VpnInvInit
<1>2. VpnInv /\ [VpnNext]_vpnVars => VpnInv' /\ [StatusIsNew]_vpnVars
  BY VpnInvNext
<1>3. VpnInv => CancelReaches /\ ConfigHonest
  BY InvObeys
<1>4. QED
  BY <1>1, <1>2, <1>3, PTL DEF VpnSpec, TunnelObeys
=============================================================================
