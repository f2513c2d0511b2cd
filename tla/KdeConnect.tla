----------------------------- MODULE KdeConnect -----------------------------
(* The Phone Connect plugin (src/plugins/kdeconnect,                            *)
(* src/cmd/sysc-plugin-kdeconnect).  One goroutine serves the KDE Connect       *)
(* daemon: it reads devices, performs actions and publishes snapshots on a      *)
(* latest-wins channel.  The loop of main owns the panel and the user's choice  *)
(* and asks the service over small channels that drop what does not fit.        *)
EXTENDS Naturals, Sequences, SequencesExt, FiniteSets, FiniteSetsExt

CONSTANTS
  Devices,      \* phones, as numbers: the daemon lists them in this order
  ChangesMax,   \* bound: changes of the phones and of the daemon
  ClicksMax,    \* bound: inputs of the user
  TroublesMax,  \* bound: daemon calls that fail
  QueueSize,    \* bound: inputs on their way, held inputs, queued actions
  None

KdeAssumption ==
  /\ Devices \subseteq Nat /\ IsFiniteSet(Devices)
  /\ {ChangesMax, ClicksMax, TroublesMax, QueueSize} \subseteq Nat

VARIABLES
  daemon,    \* [up, dev]: the daemon and its devices
  signals,   \* [lost, dev]: what the service's bus connection holds for it
  svc,       \* the serving goroutine (see Away)
  chan,      \* [select, tick, refresh, actions]: the channels main asks over
  updates,   \* the snapshot channel: None or a snapshot
  ui,        \* the loop of main (see UIStart)
  panel,     \* what the panel shows: [shape, reading, chips]
  inbox,     \* inputs on their way to main
  picked,    \* the device the user picked last, as clicked
  tried,     \* a device whose mount failed, until something excuses a retry
  again,     \* a timer mounted a device again that nothing excused
  changes, clicks, troubles

kdeVars == <<daemon, signals, svc, chan, updates, ui, panel, inbox, picked, tried,
             again, changes, clicks, troubles>>

Gone == [here |-> FALSE, paired |-> FALSE, reach |-> FALSE, asks |-> FALSE, level |-> 0]
NoDevices == [d \in Devices |-> Gone]

-----------------------------------------------------------------------------
(* Selection and snapshots.                                                *)

Best(S) == IF S = {} THEN None ELSE Min(S)
Usable(dev, d) == d \in Devices /\ dev[d].paired /\ dev[d].reach

\* The saved choice while it is usable, else the first usable, reachable or known.
Resolved(dev, saved) ==
  LET usable == {d \in Devices : Usable(dev, d)}
      near == {d \in Devices : dev[d].reach}
  IN  IF saved \in usable THEN saved
      ELSE IF usable # {} THEN Best(usable)
      ELSE IF near # {} THEN Best(near)
      ELSE Best({d \in Devices : dev[d].here})

NoSnap == [up |-> FALSE, dev |-> NoDevices, sel |-> None, grid |-> None]

\* What the service shows of its state; grid is the phone the photos are from.
Snap(s) == [up |-> TRUE, dev |-> s.dev, sel |-> Resolved(s.dev, s.saved), grid |-> s.grid]

\* The service outside a serving period; fresh: the first scan is still to come.
Away(tick) == [serving |-> FALSE, fresh |-> TRUE, tick |-> tick, dev |-> NoDevices, saved |-> None,
               grid |-> None, failed |-> None]

-----------------------------------------------------------------------------
(* Reading the daemon.                                                     *)

\* One device re-read: fetchDevice, or the removal of a device that is gone.
Read(s, d) ==
  LET now == daemon.dev[d]
  IN  [s EXCEPT !.dev[d] = now,
                !.failed = IF s.failed = d /\ ~(now.reach /\ now.paired) THEN None ELSE s.failed]

\* As ReadAll, but a device that left the list is kept.
ReadsListed(s) ==
  [s EXCEPT !.dev = [d \in Devices |-> IF daemon.dev[d].here THEN daemon.dev[d] ELSE s.dev[d]]]

\* The whole list re-read (reconcileNow).
ReadAll(s) ==
  [s EXCEPT !.dev = daemon.dev,
            !.failed = IF s.failed # None /\ ~Usable(daemon.dev, s.failed) THEN None ELSE s.failed]

\* The phone whose files a scan mounts: the selected one, unless its last mount failed.
MountTarget(s) ==
  LET sel == Resolved(s.dev, s.saved)
  IN  IF Usable(s.dev, sel) /\ s.failed # sel THEN sel ELSE None

\* The state after a scan whose mount answers ok (refreshRecentImages).
Scanned(s, ok) ==
  LET sel == Resolved(s.dev, s.saved)
      target == MountTarget(s)
  IN  IF ~Usable(s.dev, sel) THEN [s EXCEPT !.grid = None, !.failed = None]
      ELSE IF target = None THEN [s EXCEPT !.grid = None]
      ELSE IF ok THEN [s EXCEPT !.grid = target, !.failed = None]
      ELSE [s EXCEPT !.grid = None, !.failed = target]

\* An explicit refresh, selection or settings change lets a failed mount be retried.
ResetScan(s) == [s EXCEPT !.failed = None]

\* What the step costs: failures while the daemon is up are trouble, and while it
\* is down every call fails.
Costs(n, ok) ==
  /\ ok => daemon.up
  /\ troubles' = troubles + (IF daemon.up THEN n ELSE 0) /\ troubles' <= TroublesMax

\* The failed mount still counts while the phone is known to stay the one to mount.
StillTried(t, s) ==
  IF t # None /\ Usable(s.dev, t) /\ Resolved(s.dev, s.saved) = t THEN t ELSE None

\* Read the devices (when reads), scan and publish (scanAndPublish).  A read that
\* fails keeps what was known.  timer: a timer asked for it, and not the user.
ScanAndPublish(old, reads, timer) ==
  \E read, ok \in BOOLEAN :
    \E s \in {IF read THEN ReadAll(old) ELSE old} : \E target \in {MountTarget(s)} :
      LET known == IF timer THEN tried ELSE None
      IN  /\ read => reads
          /\ target = None => ok
          /\ Costs((IF reads /\ ~read THEN 1 ELSE 0) + (IF ok THEN 0 ELSE 1),
                   read \/ (target # None /\ ok))
          /\ svc' = Scanned(s, ok)
          /\ updates' = Snap(svc')
          /\ again' = (again \/ (target # None /\ target = known))
          /\ tried' = StillTried(IF ok THEN known ELSE target, s)

-----------------------------------------------------------------------------
(* The service.                                                            *)

\* Connect and read the devices: a new serving period, with no choice of its own.
Connect ==
  /\ ~svc.serving /\ daemon.up
  /\ svc' = [ReadAll(Away(svc.tick)) EXCEPT !.serving = TRUE]
  /\ signals' = [lost |-> FALSE, dev |-> {}]
  /\ UNCHANGED <<daemon, chan, updates, ui, panel, inbox, picked, tried, again, changes, clicks, troubles>>

\* The first scan of a period; until then the loop takes nothing.
FirstScan ==
  /\ svc.serving /\ svc.fresh
  /\ ScanAndPublish([svc EXCEPT !.fresh = FALSE], FALSE, FALSE)
  /\ UNCHANGED <<daemon, signals, chan, ui, panel, inbox, picked, changes, clicks>>

\* The daemon cannot be read: say so and try again later.
ConnectFails ==
  /\ ~svc.serving
  /\ Costs(1, FALSE)
  /\ updates' = NoSnap
  /\ UNCHANGED <<daemon, signals, svc, chan, ui, panel, inbox, picked, tried, again, changes, clicks>>

Serving == svc.serving /\ ~svc.fresh

\* The daemon left the bus: the period ends, and what it knew is forgotten.
SeeGone ==
  /\ Serving /\ signals.lost
  /\ svc' = Away(svc.tick)
  /\ signals' = [lost |-> FALSE, dev |-> {}]
  /\ updates' = NoSnap
  /\ tried' = None
  /\ UNCHANGED <<daemon, chan, ui, panel, inbox, picked, again, changes, clicks, troubles>>

\* A reconcile on the ticker.
Tick ==
  /\ Serving /\ svc.tick
  /\ ScanAndPublish(svc, TRUE, TRUE)
  /\ UNCHANGED <<daemon, signals, chan, ui, panel, inbox, picked, changes, clicks>>

\* A refresh the panel asked for.
TakeRefresh ==
  /\ Serving /\ chan.refresh
  /\ chan' = [chan EXCEPT !.refresh = FALSE]
  /\ ScanAndPublish(ResetScan(svc), TRUE, FALSE)
  /\ UNCHANGED <<daemon, signals, ui, panel, inbox, picked, changes, clicks>>

\* The choice of the user.
TakeSelect ==
  /\ Serving /\ chan.select # None
  /\ chan' = [chan EXCEPT !.select = None]
  /\ ScanAndPublish([ResetScan(svc) EXCEPT !.saved = chan.select], FALSE, FALSE)
  /\ UNCHANGED <<daemon, signals, ui, panel, inbox, picked, changes, clicks>>

\* New settings; nothing is published.
TakeSettings ==
  /\ Serving /\ chan.tick # None
  /\ chan' = [chan EXCEPT !.tick = None]
  /\ svc' = [ResetScan(svc) EXCEPT !.tick = chan.tick = "on"]
  /\ tried' = None
  /\ UNCHANGED <<daemon, signals, updates, ui, panel, inbox, picked, again, changes, clicks, troubles>>

\* A signal about one device: re-read it and publish, without a new scan.
TakeSignal(d) ==
  /\ Serving /\ d \in signals.dev
  /\ signals' = [signals EXCEPT !.dev = @ \ {d}]
  /\ \E ok \in BOOLEAN :
       /\ IF daemon.dev[d].here THEN Costs(IF ok THEN 0 ELSE 1, ok) ELSE ok /\ UNCHANGED troubles
       /\ svc' = IF ok THEN Read(svc, d) ELSE svc
  /\ updates' = Snap(svc')
  /\ tried' = StillTried(tried, svc')
  /\ UNCHANGED <<daemon, chan, ui, panel, inbox, picked, again, changes, clicks>>

\* What the daemon does with an action on a device it has.
Acted(dev, a) ==
  IF a.kind = "accept" /\ dev[a.dev].asks
  THEN [dev EXCEPT ![a.dev].paired = TRUE, ![a.dev].asks = FALSE] ELSE dev

\* An action of the panel, for a device the service knows: pairing re-reads the
\* devices at once; a Files click, done or not, publishes.
TakeAction ==
  /\ Serving /\ chan.actions # <<>>
  /\ LET a == Head(chan.actions)
         known == a.dev # None /\ svc.dev[a.dev].here
     IN  \E ok \in BOOLEAN :
          /\ known => Costs(IF ok THEN 0 ELSE 1, ok)
          /\ ~known => ~ok /\ UNCHANGED troubles
          /\ daemon' = IF ok /\ daemon.dev[a.dev].here
                       THEN [daemon EXCEPT !.dev = Acted(@, a)] ELSE daemon
          /\ signals' = [signals EXCEPT !.dev = @ \union
                           {d \in Devices : daemon'.dev[d] # daemon.dev[d]}]
          /\ svc' = IF ok /\ a.kind = "accept" THEN [svc EXCEPT !.dev = daemon'.dev] ELSE svc
          /\ updates' = IF a.kind = "browse" THEN Snap(svc) ELSE updates
  /\ chan' = [chan EXCEPT !.actions = Tail(@)]
  /\ tried' = StillTried(tried, svc')
  /\ UNCHANGED <<ui, panel, inbox, picked, again, changes, clicks>>

Service == \/ Connect \/ FirstScan \/ ConnectFails \/ SeeGone \/ Tick \/ TakeRefresh
           \/ TakeSelect \/ TakeSettings \/ TakeAction
           \/ \E d \in Devices : TakeSignal(d)

-----------------------------------------------------------------------------
(* The panel.                                                              *)

\* What is shown besides the readings.
Shape(snap) == [snap EXCEPT !.dev = [d \in Devices |-> [snap.dev[d] EXCEPT !.level = 0]]]
Levels(snap) == [d \in Devices |-> snap.dev[d].level]
Reading(snap) == IF snap.sel = None THEN 0 ELSE snap.dev[snap.sel].level

\* A whole panel: its cards and the battery of the device, and in an open chooser the
\* batteries of all; without a choice to make there is no chooser.
HasChooser(snap) ==
  snap.sel # None /\ snap.dev[snap.sel].paired /\ Cardinality({d \in Devices : snap.dev[d].here}) > 1
Panel(snap, open) ==
  [shape |-> Shape(snap), reading |-> Reading(snap),
   chips |-> IF open /\ HasChooser(snap) THEN Levels(snap) ELSE None]

\* As SameStructure, but the selection is left out of it.
ShapeOfList(prev, next) == Shape(prev).dev = Shape(next).dev /\ prev.up = next.up

SameStructure(prev, next) == Shape(prev) = Shape(next)

\* A publish of a new snapshot: a patch of the reading when only that moved
\* (PanelDelta), and the whole panel otherwise.
Painted(p, prev, next, open) ==
  IF SameStructure(prev, next) /\ next.sel # None /\ Reading(prev) # Reading(next)
  THEN [p EXCEPT !.reading = Reading(next)]
  ELSE Panel(next, open)

\* The buttons of the panel, as [node, dev].
Buttons(p) ==
  LET on(node, d) == [node |-> node, dev |-> d]
      sel == p.shape.sel
      dev == p.shape.dev
      others == {d \in Devices : dev[d].here /\ d # sel}
  IN  {on("refresh", None)} \union
      (IF sel = None THEN {}
       ELSE IF dev[sel].asks THEN {on("accept", None)}
       ELSE IF ~dev[sel].paired THEN {}
       ELSE (IF others = {} THEN {} ELSE {on("switcher", None)})
            \union {on("select", d) : d \in {d \in others : p.chips # None}}
            \union {on("accept", d) : d \in {d \in others : p.chips # None /\ dev[d].asks}}
            \union (IF dev[sel].reach THEN {on("ring", None), on("browse", None)} ELSE {}))

-----------------------------------------------------------------------------
(* main.                                                                   *)

UIStart(stored) ==
  [snap |-> NoSnap, prefer |-> None, loaded |-> FALSE, held |-> <<>>, busy |-> FALSE, switcher |-> FALSE,
   status |-> "none", avail |-> "unknown", stored |-> stored]

\* A send that drops the value when the channel has one already (offer).
Offer(slot, value) == IF slot = None THEN value ELSE slot

\* The device an action goes to: the one the user chose while it is usable or
\* nothing is known, else the one shown (selectedActionDevice).
ActionDevice(snap, prefer) ==
  IF prefer = None THEN snap.sel
  ELSE IF Usable(snap.dev, prefer) \/ ~snap.up THEN prefer
  ELSE snap.sel

\* Main, its channels and the panel after one input (processInput, handleInput).
Handled(m, input) ==
  CASE input.node = "switcher" ->
         [m EXCEPT !.ui.switcher = ~@, !.panel = Panel(m.ui.snap, ~m.ui.switcher)]
    [] input.node = "select" ->
         [m EXCEPT !.ui.prefer = input.dev, !.ui.stored = input.dev,
                   !.chan.select = Offer(m.chan.select, input.dev)]
    [] input.node = "refresh" ->
         [m EXCEPT !.ui.busy = TRUE, !.ui.status = "busy", !.chan.refresh = TRUE]
    [] OTHER ->
         LET d == IF input.dev # None THEN input.dev ELSE ActionDevice(m.ui.snap, m.ui.prefer)
         IN  IF Len(m.chan.actions) < QueueSize
             THEN [m EXCEPT !.chan.actions = Append(@, [kind |-> input.node, dev |-> d])] ELSE m

\* The saved choice arrives: it is applied, and then the inputs that waited.
Restored(m, saved) ==
  LET chosen == IF saved = None THEN m
                ELSE [m EXCEPT !.ui.prefer = saved, !.chan.select = Offer(m.chan.select, saved)]
  IN  FoldLeft(Handled, [chosen EXCEPT !.ui.loaded = TRUE, !.ui.held = <<>>], m.ui.held)

TakeRestored ==
  /\ ~ui.loaded
  /\ LET m == Restored([ui |-> ui, chan |-> chan, panel |-> panel], ui.stored)
     IN  ui' = m.ui /\ chan' = m.chan /\ panel' = m.panel
  /\ UNCHANGED <<daemon, signals, svc, updates, inbox, picked, tried, again,
                 changes, clicks, troubles>>

\* The next input; until the saved choice is known, inputs are held.
TakeInput ==
  /\ inbox # <<>>
  /\ LET input == Head(inbox)
         m == [ui |-> ui, chan |-> chan, panel |-> panel]
         whole == [m EXCEPT !.panel = Panel(ui.snap, ui.switcher)]
         next == CASE input.node = "settings" ->
                        [whole EXCEPT !.chan.tick = Offer(m.chan.tick, input.tick)]
                   [] input.node = "open" -> [whole EXCEPT !.chan.refresh = TRUE]
                   [] OTHER -> IF ~ui.loaded THEN [m EXCEPT !.ui.held = Append(@, input)]
                               ELSE Handled(m, input)
     IN  ui' = next.ui /\ chan' = next.chan /\ panel' = next.panel
  /\ inbox' = Tail(inbox)
  /\ UNCHANGED <<daemon, signals, svc, updates, picked, tried, again, changes, clicks, troubles>>

\* The status after a snapshot: a busy one ends when the daemon is there, and a
\* change of the daemon is reported.
StatusAfter(u, snap) ==
  IF u.avail # (IF snap.up THEN "up" ELSE "down") THEN (IF snap.up THEN "ok" ELSE "error")
  ELSE IF u.busy /\ snap.up THEN "ok" ELSE u.status

\* The next snapshot of the service.
TakeUpdate ==
  /\ updates # None
  /\ updates' = None
  /\ ui' = [ui EXCEPT !.snap = updates, !.busy = FALSE, !.status = StatusAfter(ui, updates),
                      !.avail = IF updates.up THEN "up" ELSE "down"]
  /\ panel' = Painted(panel, ui.snap, updates, ui.switcher)
  /\ UNCHANGED <<daemon, signals, svc, chan, inbox, picked, tried, again, changes, clicks, troubles>>

Main == TakeRestored \/ TakeInput \/ TakeUpdate

-----------------------------------------------------------------------------
(* The user, the phones and the daemon.                                    *)

Input(input) ==
  /\ clicks < ClicksMax /\ Len(inbox) < QueueSize
  /\ clicks' = clicks + 1
  /\ inbox' = Append(inbox, input)
  /\ picked' = IF input.node = "select" THEN input.dev ELSE picked
  /\ UNCHANGED <<daemon, signals, svc, chan, updates, ui, panel, tried, again, changes, troubles>>

\* The panel is opened, or the ticker turned on or off in the settings.
Elsewhere == {[node |-> "open", dev |-> None]}
             \cup [node : {"settings"}, dev : {None}, tick : {"on", "off"}]
Click == \E input \in Buttons(panel) \cup Elsewhere : Input(input)

\* What a phone may do: come, go, be in reach or not, ask to pair, drain.
Changed(p) ==
  IF ~p.here THEN {[Gone EXCEPT !.here = TRUE, !.reach = TRUE]}
  ELSE {Gone, [p EXCEPT !.reach = ~p.reach], [p EXCEPT !.asks = ~p.paired /\ ~p.asks],
        [p EXCEPT !.level = 1 - p.level]} \ {p}

Change ==
  /\ changes < ChangesMax
  /\ changes' = changes + 1
  /\ \/ \E d \in Devices : \E now \in Changed(daemon.dev[d]) :
          /\ daemon' = [daemon EXCEPT !.dev[d] = now]
          /\ signals' = [signals EXCEPT !.dev = IF svc.serving THEN @ \union {d} ELSE @]
          /\ tried' = IF now.reach /\ now.paired THEN tried ELSE None
     \/ /\ daemon' = [daemon EXCEPT !.up = ~@]
        /\ signals' = [signals EXCEPT !.lost = @ \/ (svc.serving /\ daemon.up)]
        /\ UNCHANGED tried
  /\ UNCHANGED <<svc, chan, updates, ui, panel, inbox, picked, again, clicks, troubles>>

-----------------------------------------------------------------------------

Paired == [Gone EXCEPT !.here = TRUE, !.paired = TRUE, !.reach = TRUE]

KdeStart(dev, stored) ==
  /\ daemon = [up |-> TRUE, dev |-> dev]
  /\ signals = [lost |-> FALSE, dev |-> {}]
  /\ svc = Away(TRUE)
  /\ chan = [select |-> None, tick |-> None, refresh |-> FALSE, actions |-> <<>>]
  /\ updates = None
  /\ ui = UIStart(stored)
  /\ panel = Panel(NoSnap, FALSE)
  /\ inbox = <<>>
  /\ picked = None /\ tried = None /\ again = FALSE
  /\ changes = 0 /\ clicks = 0 /\ troubles = 0

\* The first phone is paired, the others may be, and any may have been chosen before.
KdeInit ==
  \E dev \in [Devices -> {Gone, Paired}], stored \in Devices \union {None} :
    dev[Min(Devices)] = Paired /\ KdeStart(dev, stored)

KdeNext == Service \/ Main \/ Click \/ Change

\* The goroutines run and the ticker fires; what else is ready may wait for it.
KdeFairness ==
  /\ WF_kdeVars(Connect) /\ WF_kdeVars(FirstScan) /\ WF_kdeVars(SeeGone) /\ WF_kdeVars(Tick)
  /\ WF_kdeVars(TakeUpdate)

KdeSpec == KdeInit /\ [][KdeNext]_kdeVars /\ KdeFairness

-----------------------------------------------------------------------------
(* Properties.                                                             *)

\* The panel's cards and the battery of the device it is about are those of the
\* snapshot main has: a patch is sent only when no card changes, and it carries that
\* battery (PanelDelta).  The batteries in an open chooser are not in it.
PanelHonest == panel.shape = Shape(ui.snap) /\ panel.reading = Reading(ui.snap)

\* When all input is handled, the device that actions go to and the one saved are
\* the user's last pick: a restored choice, which arrives at any time after the
\* start, never replaces it.
ChoiceIsUsers ==
  picked # None /\ inbox = <<>> /\ ui.held = <<>> => ui.prefer = picked /\ ui.stored = picked

\* A timer does not mount a phone again whose last mount failed while the phone
\* stayed and the user asked for nothing (sftpScanFailedFor).
TimerMountsOnce == ~again

\* Once the phones are quiet the snapshot main has is the daemon's state, unless
\* the user turned the ticker off.  It holds over lost reads and daemon restarts.
AtEnd == svc.tick => /\ ui.snap.up = daemon.up
                     /\ daemon.up => ui.snap.dev = daemon.dev

=============================================================================
