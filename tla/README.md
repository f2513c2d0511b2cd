# Verification of sysc-plugins

`sysc-plugins` is a set of small Go programs (`cmd/sysc-plugin-*`), each an event
loop in front of one service package (`plugins/*`). A plugin talks to its host,
sysc-shell, over a pipe: the host sends input events, settings and replies; the
plugin sends views, statuses, notifications and *host calls* (`state.get`,
`state.set`, `output.context`, `weather.location`, ...). Both sides of the pipe
live on; a plugin may be killed at any moment and is started again.

This directory holds TLA+ modules of the plugins, TLC configurations that check
them, and proofs about seventeen of them (section 5).

## 1. Inventory

What nearly every plugin has in common:

* **One event loop** (`run` in `cmd/*/main.go`): a Go `select` over the messages
  of the host, a ticker, and the channels on which background goroutines
  deliver. Go picks a ready case at random, so the order of two ready inputs is
  never fixed. The loop alone touches the session state.
* **Goroutines for anything slow**: host calls (with a timeout), subprocesses,
  HTTP. Their results come back through channels, usually with capacity 1, and
  are applied to a session that may have changed in the meantime.
* **Persistence by `state.set`** through `internal/hostcall.StateSaver`; restore by
  `state.get` in a goroutine that races with the first inputs.
* **Shutdown** on SIGTERM or end of the pipe: stop the work, `Flush` the saver.

| Component | State it keeps | Operations | Interacts with | Hard behaviour | What makes it correct | Module |
|---|---|---|---|---|---|---|
| state saver (`internal/hostcall`) | pending and revision per key | Save, SaveTracked, Flush | host, every plugin that persists | worker and Flush race; late and failed calls | nothing lost, nothing goes back | StateSaver |
| screen recorder | one process, mode, ownership | toggle, replay, save, stop, adopt, reconfigure | process, /proc, host state | coalesced clicks, adoption after a crash | no orphan, the view tells the truth | ScreenRecorder, RecorderPlugin |
| lid guard | status of one systemd unit | enable, disable, toggle, refresh | systemd user manager | a mutation during a check, changes by others | each request runs once, the status follows | LidGuard, LidGuardPlugin |
| pomodoro timer | countdown, session, deadline | start, pause, reset, skip, settings | clock, host state | a restart in a phase, input racing the tick | a phase completes once, the session survives | PomodoroTimer |
| air quality | reports, carried rows, place | refresh, settings, moves | three sources, host location | answers for an old place, partial failure | never one place's air as another's | AirQuality |
| wallpaper depth | rows per monitor, job queue | poll, press, settings, clear | Python helper, shell masks | results for void rows | masks match, none unasked | WallpaperDepth |
| github notifications | inbox, pending reads, queue | refresh, more, read, read all | `gh`, host state | optimistic removal, merged refreshes | no read and no refresh lost | GithubNotifications |
| notes | notes, drafts, stickies, host jobs | edit, save, delete, pin, rename | a vault edited by others | saves against external edits, ordered jobs | no user text lost, no sticky comes back | Notes, NotesStickies |
| proton vpn | command queue, status, account | connect, cancel, disconnect, toggles | `protonvpn` CLI | polls against commands | the shown protection is real | ProtonVpn |
| thinkpad | fan, keyboard, lid, profiles | set, toggle, restore, save | /proc, /sys, a file | keys on the machine, refused writes | controls keep what was asked | ThinkPad |
| mini docker | lists, run form, armed removal | commands, remove, run, pages | `docker` and its events | late goroutines, stale clicks | the right entity, once; no news unread | MiniDocker |
| phone connect | device, choice, panel | choose, mount, act | the daemon on D-Bus | signals around reads, daemon restarts | panel and daemon agree | KdeConnect |
| phone pictures | scan, thumbnails, copies, mockup | scan, open, share | mounted phone, viewers | files that change between two reads | fresh grid, copies stay | RecentImages |
| herdr | sessions, runners, previews | focus, peek, notify | unix sockets | runners of forgotten sessions | rows show what herdr has | Herdr |
| moonbit | scan, review, run | scan, choose, confirm, clean | `sudo moonbit` | a password that comes late | root cleans what was shown | Moonbit |
| ai usage | windows, floors, alerts | refresh, sign in, alert | HTTP, files | restarts, replaced rounds, notices before their record is stored | one alert per window, but for a lost record | AiUsage |
| calendar | ranges, events, filter | open, page, filter, act | evolution-data-server | a queue of one with several panels | every panel is served | Calendar |
| system updates | list, update, watcher | check, update, persist | pacman, a terminal | a check during a transaction | all that is followed is read | SystemUpdates |
| world clock | zones, search, load | add, delete, move | host state | inputs before the load | no zone lost | WorldClock |
| privacy audit | snapshot, audit | audit, click, publish | `privacybit` | cut lists, audits off the loop | the worst is shown | PrivacyAudit, PrivacyPlugin |
| games | libraries, sessions, journal | launch, refresh, settings | launchers, /proc | a refresh of old settings | an open session is watched | Games |
| faith | verse, translations, bag | open, page, settings, draw | embedded texts, host state | texts that arrive late | shown text is the asked one | Faith |
| cat | act, pace, timers | sample, settings, open | /proc/stat | timers of an old pace | does what the load asks for | Cat |
| screenshot | panel model | capture, open | the shell | two goroutines write the model | the panel shows it | Screenshot |
| repository tools | catalog rows | package, update, merge | the release workflow | two tags at once | a row lists its newest release | Catalog |

The hazards, each with the line where it bites and the properties that would
catch it, are the list `hazards` in `PROJECT.json`; one has no property: the
state of system updates is encoded under the lock and sent without it
(`cmd/sysc-plugin-updates/main.go:150`), so the older of two encodings can be
the one that stays, and the next start shows it until its first check replaces
it. Nothing in the repository promises otherwise.

## 2. Modules and the code they stand for

Conventions: one action per handler or per step between two points where another
goroutine can come in. A value whose content does not matter is a model value, a
revision or a number. Every bound is a constant named `Max...` or `...Max` and
appears in a guard of the environment's actions. `(history)` marks variables that
no action reads in a guard: they only let a property speak of the past. The
header of each module says what it leaves out.

### StateSaver, LatestValue — `internal/hostcall/state_saver.go`

`LatestValue` says what a plugin is promised: a register per key whose stored
value follows the saved ones, may skip and may lag, and never goes back.
`StateSaver` has the two goroutines that drain (the worker, and Flush on the main
goroutine) with the `write` mutex, `pending`, `revision`, the one-token signal, a
call that may be answered, refused, time out or be cut by cancellation, and the
pipe: a request whose caller has given up stays on the wire. The saved value is
its revision. `faults` says whether the host may fail a call; a behaviour has one
of the two hosts. `ImplementsLatestValue` is the refinement.

Other modules use the saver as the register it implements: a pending value and a
stored one, with a step in which the one becomes the other (`LedgerWritten` of
`AiUsage`). A pending value is lost when the process ends and the last flush, which
has a second, does not store it.

### ScreenRecorder, RecorderPlugin — `plugins/screen-recorder`, `cmd/sysc-plugin-screen-recorder`

`ScreenRecorder` is the Recorder's loop: commands, `drain`, starting and
verifying, stopping with its waits, saving a replay, recovery of a process left
by an earlier incarnation (identified by its arguments), reconfiguration and
exit; processes are numbers that start, die by themselves and survive a crash.
`RecorderPlugin` EXTENDS it with the event loop: clicks that first ask for the
output, published updates, settings, the persisted ownership, crash and restart.

### LidGuard, LidGuardPlugin — `plugins/lid-guard`, `cmd/sysc-plugin-lid-guard`

`LidGuard` is the service: `Request`, the `perform` goroutine with each systemctl
call as a step, the queued mutation, and a unit that also changes by itself.
`MaxTroubles` bounds what goes wrong outside: a unit that changes, a command that
fails, an answer that is not read. `LidGuardPlugin` EXTENDS it with the loop that
publishes status and views and notifies the user.

### MiniDocker — `plugins/mini-docker`, `cmd/sysc-plugin-mini-docker`

The Session is one record with its lists, page, selection, form and armed removal.
`work` has the poller and the goroutines: each reads lists one at a time
(`listing` is `refreshMu`), or runs one command and then reads the list again. A
click carries only whether the picture it was aimed at still counts (`input.fresh`
for the revision and the action signature). Docker changes by itself, tells of it
on a stream that ends, debounces and comes back.

### SystemUpdates — `plugins/updates`, `cmd/sysc-plugin-updates`

What is pending is a number that transactions raise; a check takes it at its start
and installs it at its end. Two goroutines check, and each update is in a terminal
or under pkexec; the watcher of a terminal (`waitForTerminalWith`) is one step per
round (`Round`), which reads the log, the lock, the markers and the launcher.

### RecentImages, KdeConnect — `plugins/kdeconnect`, `cmd/sysc-plugin-kdeconnect`

`KdeConnect` is the service goroutine with the daemon's signals, its snapshots on a
latest-wins channel, and the loop with the panel and the saved choice. The panel has
what is drawn as a whole (`shape`), the battery that a patch replaces (`reading`) and
the batteries in an open chooser (`chips`), which a patch leaves as they were.
`RecentImages` is the scan of pictures beside it, with each read of a file as a
step, the thumbnail cache, the mockup's covers and the copies that are staged for
other programs.

### GithubNotifications — `plugins/github-notifications`, `cmd/sysc-plugin-github-notifications`

GitHub is a sequence of unread threads that other clients change; a page is a
stretch of it. Jobs run one at a time beside the event loop, each in the steps
between which the loop can come in: begin, show the optimistic change, call `gh`,
take the answer. A PATCH may fail with or without having been applied. Because the
coordinator runs one job at a time, `inboxRevision` never differs between a call
and its answer and is left out.

### Notes, NotesStickies — `plugins/notes`, `cmd/sysc-plugin-notes`

`Notes` is the editing session, one record `note`: the folder's files, the open
documents, the selected note, a typed title, a proposed delete. It runs on the event
loop, so an event is one step, and each ends as in the code with drawing the
windows, which itself reads the folder. Another app writes, moves and deletes files
between any two events. `NotesStickies` is what surrounds it: the views, the copy
of the pins, and the ordered worker that does the host calls.

### The other plugins, one module each

`PomodoroTimer` (time is what is left, in `Second` units to a second, and passes
while the plugin is down), `AirQuality` (ages in hours up to one above the carry
limit), `WallpaperDepth` (a row's revision is a flag on each job that says whether
it is still the row's), `ThinkPad`, `ProtonVpn`, `Herdr`, `Moonbit`, `AiUsage`,
`Calendar`, `WorldClock`, `PrivacyAudit`, `PrivacyPlugin`, `Games`, `Faith`, `Cat`,
`Screenshot`, and `Catalog` for the release automation of `tools/catalog`. Three of
them need a word:

* `ThinkPad`. `brightness_hw_changed` is taken for what `hardware.go:142` calls it, a
  counter of key presses. A read can read it or not (`Legible`, for the lights in
  `Unreadable`: it is an error before the first key since boot, and on some kernels
  always), and the first value that is
  read is only the baseline. A brightness is clamped when it is written (`Clamped`,
  with `LightMax` below `MaxLevel` in the run), while the want keeps the level asked
  for. `missed` (history) has the lights whose key no read has told of.
* `Screenshot`. A goroutine writes the model in one step (`Set`) and signals in
  another (`Signals`); the loop takes the signal, reads the model and sends the tree
  in three. Anything may come in between.
* `AiUsage`. The notices are given in the step that hands the ledger to the saver
  (`unwritten`); the write is a step of its own. `told` (history) counts, for each
  level, how often it was told of in its window and how often the record of that was
  lost.

### MCSystem, MCDesktop, MCDaily, MCLiveness

The plugins are processes that share nothing, so an interleaving of two of them
shows nothing that the two alone do not. Each of these modules therefore puts
several into one run: `plugin` names the one that runs, and a behaviour is a
behaviour of one plugin. Where a plugin's own bounds, each as large as its question
needs, would be too much together, the composite adds one for all that comes from
outside (`KdeEventsMax`, `HerdEventsMax`, `CalendarEventsMax`, `AiEventsMax`).

| Module | EXTENDS, with the constants in its cfg | Instances on slots, with the bounds at the INSTANCE |
|---|---|---|
| `MCSystem` | SystemUpdates, MiniDocker, ThinkPad, ProtonVpn | |
| `MCDesktop` | RecentImages, Moonbit, Screenshot, PomodoroTimer, AirQuality, Games | WallpaperDepth (twice: two screens, and one with more changes), KdeConnect, Catalog |
| `MCDaily` | GithubNotifications, PrivacyPlugin, RecorderPlugin, Faith, AiUsage | Notes, NotesStickies, WorldClock, PrivacyAudit |
| `MCLiveness` | LidGuardPlugin | ProtonVpn, KdeConnect, Herdr, Calendar, Cat, PomodoroTimer |

A module that is EXTENDed has its own variables, so that what is proved of it and
what the run checks is the same formula; the variables of the others are the first
*slots* `s1, s2, ...` (the `Unused` and `Kept` operators fix the slots that a plugin
does not have). `Absent` declares the one model value `None` that the EXTENDed
modules share: a nil pointer, an empty channel, no answer.


## 3. Runs

| Run | Question | Bounds, and why they do |
|---|---|---|
| `saver` | Is a latest value ever lost or overtaken, whatever fails? With a host that answers, does each save arrive? Is the saver a register? | two keys (the order of a batch matters), two saves of each (one in flight, one newer), two requests on the wire, both hosts |
| `recorder_plugin_liveness` | Is each input of the recorder served, do stop, recovery and shutdown end? | two processes (one of an earlier life, one of this), two inputs or one and a settings change (`MaxEvents`), one crash and restart; /proc readable |
| `system` | Docker, system updates, ThinkPad, Proton VPN: does every command act once, on what was meant, and is its effect read afterwards? | two containers and one image on pages of one (so that there is a second page and a clamped one), two goroutines beside the poller, four clicks, one trouble; two updates, one transaction and one request beside them; two profiles, two clicks and one trouble in two starts, with a light that has fewer steps than a profile may ask for and a counter that may be unreadable; a queue of two commands, two clicks, one trouble |
| `desktop` | Phone pictures, air quality, timer, depth, Moonbit, games, screenshots, the phone, the catalog: is anything stale, unasked or made twice ever shown, run, kept or published? | two photos on two phones, three changes, two copies; four clicks on Moonbit, two of them on their way at a time, two runs and two scans; two starts, two inputs and a settings change of the timer; two places and two events of air quality; a game that changes twice, three clicks, two starts; for the others the smallest sets in which two screens, devices or tags can be confused (the `INSTANCE`s of `MCDesktop`) |
| `daily` | GitHub, notes, stickies, world clock, Faith, AI usage, privacy, and the recorder's safety (an orphan process, an ownership that a crash loses, an input out of order): is a request, a process or an input forgotten, an answer taken for another, a text or a choice lost? | three threads on pages of one or two (a third page, and a thread that moves up one), three events; the recorder as in its liveness run; two translations of which one lacks a verse, two clicks on Faith, one trouble and one tick; one provider with two readings, and two of a click or settings change, a trouble, a restart and a new quota window, so that the ledger may be handed over, stored, overtaken by the process's end or unread at the start; five intervals of the privacy loop with three clicks; the others at the `INSTANCE`s of `MCDaily` |
| `liveness` | Lid guard, VPN, phone, herdr, calendar, cat, timer: when nothing changes any more, is what is shown what is? | every behaviour is followed to its end, and the last change comes at any moment of the work before it. VPN: a tunnel that is down at first, two commands on a queue of one, so that the second cancels the first, comes after it or finds the queue full, and a deadline, a failing reading or a change made elsewhere. Phone: the daemon leaves, comes back and is another, a read is lost; or a click among two of these. Herdr: two of a change, a trouble and two presses. Calendar: two panels on two months with one place in the queue; three of three clicks, a change and a reading that fails or is partial. Lid guard: one trouble, one message. Cat: two changes, two clicks. Timer: one input, two starts |

Some bounds are small because a composite has room for no more (`MaxEvents`,
`FaithClicks`, `AiClicks`). For the plugins of section 5 that costs little: their
safety properties are proved for every bound.

The violation runs show disagreements between the code and what it says of itself:

| Run | What TLC finds |
|---|---|
| `recorder_stop_swallowed` | a stale Replay click makes `drain` drop the Stop behind it |
| `air_other_place` | a failed refresh for this place shows the stored reading of another, and goes on showing it |
| `notes_overwritten` | a keystroke after another app's write, before the tick, adopts that write unseen and then overwrites it without a question |
| `notes_unsaved` | closing the panel gives up at the first note that cannot be saved: another stays unsaved and nothing says so |
| `moonbit_second_prompt` | clicks that were on their way when the password prompt came take the panel back behind it while sudo still checks: a second run can be asked for, and two runs work as root at once. Found by a proof attempt: that root runs one thing at a time was not inductive, and the counterexample needs three clicks on their way. What is cleaned is still what was shown (`RootCleansWhatWasShown`, for any number of clicks) |
| `stickies_keys_apart` | a sticky is renamed; a note of its old name that is deleted and made again gets the place of the renamed one |

Observed while modelling, without a run of their own:

* `plugins/thinkpad/controller.go:179`: while the counter of a light cannot be read, a
  key press on the machine goes unseen, and the first value that is read becomes the
  baseline, with the key already in it. The want stays, and the next toggle asks the
  light for what it does already. `plugins/thinkpad/README.md:42` says that a read error
  "does not affect backlight control". `ControlsKeepSettings` has the exception
  `missed`.
* `plugins/kdeconnect/view.go:926`: when the battery of the selected phone moves while
  the chooser is open, the patch of `PanelDelta` does not carry the card in the chooser
  (542-558), which keeps the old value until the next whole panel. Lines 923-925 say
  that the patch brings "an open panel up to date". `PanelHonest` is about the rest of
  the panel and leaves `chips` out.
* `cmd/sysc-plugin-aiusage/main.go:469`: the notice is given before the ledger is
  stored. When the process ends in between and the last flush does not reach the host,
  or when the next start cannot read the ledger, the notice is given again.
  `plugins/aiusage/alerts.go:8-10` says that a level "fires at most once per quota
  window" and that a reload "cannot re-spam the user". `AlertOnce` allows one more for
  each record that was lost.
* `plugins/thinkpad/controller.go:369`: `ToggleLid` flips what is wanted even when the
  write then fails; the next toggle asks for what is already there. Line 513 says
  the profile "always describes the machine as it actually is".
* `cmd/sysc-plugin-games/main.go:558`: a game whose process appears after the launch
  timeout, with the panel closed and nothing else running, is polled by nobody.
  `plugins/games/panel/launch.go:18` says it "still starts".
* `.github/workflows/release.yml:156`: packaging updates the pinned image (`pacman
  -Syu`) and a repeated release uploads over the old one, where
  `docs/publishing.md:42` says a tagged commit "always produces the same archive
  bytes".
* `plugins/timer/timer.go:104`: pausing at zero, before the tick, leaves a paused
  countdown with no time left.
* `plugins/wallpaper-depth/service.go:446` and `:493`: a row whose manual job is void
  when automatic generation is switched off, or when the cache is cleared a second
  time during the first, stays in Processing.
* `plugins/screen-recorder`: two replay buffers with the same arguments cannot be told
  apart, and while /proc cannot be read an adoption fails and gives the ownership
  up. `EraseOnlyDead` therefore speaks of a readable /proc and of one buffer
  (`TwoBuffers`); the code's own comment supposes the first.

`CHECK_DEADLOCK FALSE` is set in each run because every one of these programs may
stop: the plugin exits, or the bounds on inputs are used up and nothing is left
to do.

Every property of a passing run has a *mutant* in `PROJECT.json`: an operator next
to the one it would replace in the module (`ForgetsRequest` beside
`RequestRefresh`) that makes TLC find the property violated.

## 4. Fairness

* Steps of a running goroutine: weak fairness; the Go scheduler runs it. The saver's
  drainers, lid guard, herdr's runners, the calendar, the cat, the phone and the
  VPN's worker need no more.
* A case of a `select`: strong fairness where a liveness property needs it
  (RecorderPlugin's updates, output contexts, restore and recovery; the timer's
  tick; the VPN's idle worker and the taking of its poll). Go chooses uniformly
  among ready cases, so a case that is ready again and again is taken, though it
  need not stay ready (a nil channel, another case first).
* Tickers tick, and the VPN's tick asks for what is due (`polls'.wants # {}`).
* Host calls end, with an answer or at their timeout; host requests are
  read in order. Nothing makes the host *send* anything: clicks, settings, pushes
  and crashes are never fair.
* Subprocess steps: a stopped recorder process ends (SIGKILL follows SIGINT), a
  command of systemctl, `protonvpn` or herdr ends or times out. A unit's own
  transition (`activating`, `deactivating`) settles.
* `SavesEnd` has a part that assumes a host that takes each request in its pipe. It
  would be false, by design, for a host that refuses: the value then waits for the
  next save or Flush.

`MCLiveness` states each plugin's fairness again, under `plugin = ...`; that a
behaviour shows one plugin never makes a fair action of another wait for ever.
Nor do the bounds it adds: a fair action that can fail, and would count, can also
succeed.

## 5. Proofs

TLC checks the instances above; the theorems hold for every value of the
constants that the modules' assumptions admit. A theorem speaks of a plugin's own
specification, and so of the composite that EXTENDS it: the composite's steps of
that plugin are its `Next`.

| Module | About | Theorems | Property of a run |
|---|---|---|---|
| `StateSaverProofs` | StateSaver | `TypeCorrect`, `Exclusion`, `NothingLost`, `RequeueIsLatest`, `Forward`, `Implements`, `NothingLeftBehind`, `ResultsReported` | `TypeOK`, `LatestKept`, `FlushedIsStored`, `ImplementsLatestValue`, a part of `SavesEnd` |
| `RecorderProofs` | RecorderPlugin | `NoneUnowned`, `OwnerStaysSafe`, `InputsInOrder`, `OrderStaysKept` | `OwnerIsSafe`, `OrderIsKept` |
| `RecentImagesProofs` | RecentImages | `FreshGrid`, `CopiesStay`, `MockupIsPictured`, `DiskIsKept` | `GridIsFresh`, `CopiesAndCovers` |
| `LidGuardProofs` | LidGuardPlugin | `SystemdIsDrivenOnce`, `HostIsSentTheStatus`, `NotifiesAfterTheEnd`, `NoticesStayTrue` | `DrivesOnce`, `NoticesAreTrue` |
| `DockerProofs` | MiniDocker | `DockerIsObedient` | `DockerObeys` |
| `SystemProofs` | SystemUpdates, ThinkPad, ProtonVpn | `UpdatesFollowed`, `ControlsAreKept`, `TunnelIsObeyed` | `UpdatesAreFollowed`, `ControlsKeepSettings`, `TunnelObeys` |
| `DesktopProofs` | Moonbit, Screenshot, PomodoroTimer, AirQuality, Games | `MoonbitTypeCorrect`, `RootCleansWhatWasShown`, `PanelIsPainted`, `PhasesAlwaysGoOn`, `AirIsOfThisPlace`, `OpenSessionsAreWatched` | `CleansWhatWasShown`, `PanelShowsModel`, `PhasesGoOn`, `ReportsAreTrue`, `SessionsAreWatched` |
| `DailyProofs` | GithubNotifications, PrivacyPlugin, Faith, AiUsage | `NoRequestLost`, `SpinnerIsHonest`, `ScanIsShown`, `VersesStayServed`, `AlertsStayOnce` | `RequestNotLost`, `ScanIsReal`, `VersesAreServed`, `AlertsComeOnce` |

**State saver.** The inductive invariant is `IInv`. `Forward` is not inductive by
itself: that the host never goes back needs to know that requests of one key are
on the wire in order of revision, below the sender's next one (`PipeOrdered`,
`BatchAbovePipe`); that needs to know that a batch holds nothing newer than pending,
and *that* needs the mutex: with both goroutines draining, an older batch could be
sent after a newer. `Implements` maps each step to one of `LatestValue` or to a
stutter. `NothingLeftBehind` strengthens `IInv` to `FInv`: what Flush has not
stored is still in its hands or on the wire (`FlushHands`, `FlushCall`).
`SaverAssumption` gives the ranges of the constants; `SortAssumption` says that a
non-empty set of keys has a least one, on which `sort.Strings` relies.

**Screen recorder.** `RecorderInv` says for each place of the loop what mode, process
and ownership can be together (`LoopFits`, `OwnerFits`), and that no number is given
to two processes (`ProcsFit`). `PluginInv` adds the loop of the plugin: what it has
published and saved follows the recorder's updates, of which the channel holds the
last (`UpdatesFit`). That a crash can be recovered from is then a case distinction
on where the ownership is: in the host's store, or in a save or an update that is
still to be taken, in which case the plugin has not caught up. `OrderStaysKept` has
the hypothesis `~ScanFaults`: without it TLC shows the property false (section 3).
`OwnerStaysSafe` and `InputsInOrder` need no such hypothesis.

**Phone pictures.** `GridInv`: a thumbnail is stored under a time that was read before
its content, so it is as new as its key only because versions grow
(`VersionsBelow`, `ThumbsFresh`) and because the picture that is open is the next of
the scan, gone or as new (`OpenedIsNext`). `CopyInv`: a copy that is being made is in
no other program's hands yet (`InTheMaking`), so pruning takes none that was handed
out. `ArtInv`: once
a scan has found a picture, the cover of the selected phone is one of those on the
disk, though another phone's is drawn and old ones are swept in between.

**Lid guard.** `DriveInv` says that the one `perform` goroutine is read-only exactly
while the status says so (`PerformerFits`), that a request waits behind a check and
only behind a check (`QueueFits`), and that a command is counted until it is reported
(`IssuedFits`). `PluginInv` adds that a revision is announced by the token until the
loop has read it, that the views follow what the host was sent, and which notices
are due.

**System updates.** `FollowInv` = `UpdatesTypeOK`, `UpdateFits` (what method, command and
watcher of an update can be together), `GuardFits` (`updateRunning` stands for the one
update that is followed) and `NewsWillBeRead` (news that no reading has seen
leave a check that has yet to read, a request for one, a watcher, or a command that
is going to bring more; past a watcher that has given up, after a minute or two
hours, nothing is promised). The assumption says only that an update is not the value
`Nothing`, and the ranges of the bounds.

**Mini docker.** `DockerInv`: `Shapes` (the session, with its page within the pages
there are, so that Next and Previous always change it and withdraw the armed
removal); `OneCommandEach`; `PendingFits` (what is armed was asked for and not
withdrawn); `InputFits` (a click whose picture still counts is on a button that is
there); `NewsFits` (a change of a list that docker told of is followed by a reading
of that list that has not begun, `ToRead`, or by the debounce that will ask for
one).

**ThinkPad.** `ControlsInv`: the profile that is remembered is one of the table
(`Stores`), what the controller wants of a light is what the light does
(`WantsFollowLights`), and the settings that must last are those of the remembered
profile, in memory and on the disk (`Keeps`). The second has three exceptions, each
with its own cause: the last write was refused, a key was pressed since the counter
was last read, or a read could not tell of it (`missed`); "does" is as far as the
light can, for a want may be above what it is clamped to. Within the third the next
toggle need not flip the light (section 3), and the next write or the next
key whose counter is read ends it. That two controls change only when a profile is
applied, and what a start restores, are action properties that each step is then
shown to have.

**Proton VPN.** `VpnInv`. Commands and their answers pass three places (the queue, the
worker, the closures of the event loop), and what the loop may conclude hangs on
their order: two connects, or two changes of the settings, keep the order in which
they were asked (`OrderKept`), no generation is from the future (`AllPast`), a status
was read after it was asked for (`AllReadAfter`), a setting that was read is the
machine's or a change behind it is still to be applied (`SettingsRead`), and of the
changes on their way the last is one (`LastReports`), since only the last may
report. The panel's toggles then tell the truth whenever nothing is on its way, or
the panel complains.

**Moonbit.** `CleanInv`. A click carries the tree it was aimed at; the host's tree lags
behind the panel. What root cleans is what was shown because a confirm screen that the
host shows is either over or has the rows of the panel's (`ConfirmIsShown`), because a
click of the present revision has seen the present tree (`CurrentHasSeen`), because a
review is bound to the stamp of its scan (`PanelOK`), and because the run on the wire,
and one that sudo has let through, carry such a request (`RunsAreThere`). Nothing of
this says that one run works at a time: with clicks on their way that is false
(`moonbit_second_prompt`).

**Screenshot.** `PanelShowsModel` is not inductive: an open panel that shows an older
model may have its paint to come in four ways (a goroutine has written and not
signalled, the channel has a signal, the loop is about to read the model, the tree it
sends is of the model as it is), and one way takes over from the other. `PanelInv`
says which at each place of the loop: at its select the panel is right or a signal is
due (`Signalled`); while it sends, its tree is right or a signal is due, since whoever
wrote after the loop had read has yet to signal, or has.

**Pomodoro timer.** `TimerInv`: deadlines on record fall on a whole second of the clock
(`Deadlines`), so that what a start finds left is exact although fractions are cut
off; what is written last
is what the user did last, unless a write was lost (`Recorded`); and an ended phase
that may come back has cost a loss of its own (`EndedOnce`), so that phases which end
again are never more than the lost writes.

**Air quality.** `AirInv`: reports have an origin and understate no age
(`ReportsSound`), a fresh result is as young as can be (`FreshResult`), what is still
current was asked for this place (`CurrentIsHere`), a reading of this place that is
shown is the cached one (`ShownIsCached`), and the location is the host's or the
host's is on its way (`HostKnows`). The theorem does not say that what is shown is
always of this place: that is false (`air_other_place`); once this place's reading
has been shown, no other's replaces it.

**Games.** `GamesInv` adds `SessionsFit`: before the first scan no game counts as
running though the host may have kept an open session of each; after it the two
agree, and a running game has the watch armed.

**GitHub notifications.** `RefreshInv` adds to the property that no refresh begins, or
is queued, before the cache has been read (`NoneBeforeCache`); otherwise one that
ends could clear the flag of a request that still waits for the cache.

**Privacy audit.** `ScanIsReal` is inductive with the types. It is about the loop of
the plugin; what an audit finds is `PrivacyAudit`.

**Faith.** `FaithInv`: the session's note is of its verse between any two events
(`SessionIsKept`), no request for a note is from the future and the latest is for the
verse shown (`RequestsFit`), nothing is under way while no process runs
(`RestsWithSession`), and the bag drawn last is the session's and on its way to the
host until a write fails (`BagFlows`). The nearest verse of another translation, the
verse of the day and the ends of a chapter are minima of sets of numbers; that a
finite set has one is proved from `FiniteSetTheorems` (`LeastVerse`, `GreatestVerse`).

**AI usage.** `AiInv`: the worker and what it holds (`WorkerFits`), the order of what
waits, is worked on and comes back, of which the last in line is the newest and of the
settings in force (`NewestIsLast`, `NewestIsCurrent`), nothing is asked before the
ledger is read (`LedgerIsFirst`) or written (`SavesAfterReading`), and what a level was
told of in its window is at most what its lost records allow, and one more while the
record is in the ledger (`Accounted`): in the one the process goes by, and in the one
that is kept, which is the stored ledger or the one that waits to be stored (`Kept`).
`NoticesAreKept` says this of both. Without `LedgerIsFirst` a round could notify
again what the ledger, still unread, already covers. That a level fires at most once
whatever happens is false (section 3).

**Assumptions.** What a theorem needs of the constants is one named assumption in the
module that declares them, and a run whose module extends it evaluates it; GitHub
notifications and Proton VPN need none. They give the bounds
their ranges, say that the model values differ from the values they stand beside
(`None \notin ...`, an absent value is told from a present one by Go's type system),
and beyond that only what the code justifies: keys can be sorted
(`SortAssumption`); a phase is a positive number of whole seconds
(`TimerAssumption`); a keyboard light has a step, and no more steps than a profile may ask for
(`ThinkPadAssumption`); a
translation has verses, and one of every chapter that the pool names
(`FaithAssumption`, which `plugins/faith/pool_test.go:30-38` tests verse by verse). The
theorem about `OrderIsKept` has the hypothesis `~ScanFaults`, named above.

**Only model-checked**, and why:

* liveness (`PluginServes`, the rest of `SavesEnd`, `LidSettles` and the others of
  `MCLiveness`) and anything about ENABLED, which the prover cannot do;
* what a fold, a filter or a sort computes, which would need induction over data:
  `InboxIsHonest` (pages put together), `MasksAreAsked` (the queue that is filtered),
  `ZonesAreKept` (inputs replayed after the load), `PhoneIsHonest` (the same with
  what the panel held back), `StickiesAreServed` (surfaces closed one after
  another), `WorstIsShown` and `RowIsNewest` (a list sorted and cut);
* `TextIsKept`, whose `Notes` module is one large function of the folder and the
  open documents: no proof was attempted.

## 6. State of the work

Each plugin of the inventory is modelled, at least in the part that its row in
section 1 names, and of the forty properties that the passing runs check twenty-three
are theorems, with a part of one more. What is left, in the order in which it
would pay:

1. `TextIsKept` of the notes: an invariant over one document and one file, and the
   lemma that drawing the windows keeps it, would have to come first.
2. The folds of `WorldClock`, `KdeConnect` and `NotesStickies`, written as steps of
   an environment that hands the inputs over one by one, would bring `ZonesAreKept`,
   `PhoneIsHonest` and `StickiesAreServed` within reach, at the price of
   interleavings the code does not have.
3. Liveness stays with TLC.

Runs stay few: two or three properties a plugin, the shallower ones giving way to
deeper ones.

## 7. Not modelled

Layout, wording, icons, colours and widths of views; parsing of HTTP, CLI and D-Bus
answers except for the outcomes that decide control; sound; the helper programs and
probes; generators and fixtures. The `v1` SDK is not in the repository: its reply
routing and pipe are external definitions, taken from how the plugins use it. The
components list of `PROJECT.json` says for each part what is left out and why.
