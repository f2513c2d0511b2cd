---------------------------- MODULE MCLiveness ----------------------------
(* What must happen in the end: lid guard (by EXTENDS), Proton VPN, the phone, *)
(* herdr, the calendar, the cat, the timer.  They share nothing, so one        *)
(* behaviour shows one of them: "plugin" says which, and its variables are the *)
(* first slots.  The bounds are small, for every behaviour is followed to its  *)
(* end: beside the bound of each there is one for all that comes from outside. *)
EXTENDS LidGuardPlugin

CONSTANT None

VARIABLES
  plugin,  \* the one that runs
  s1, s2, s3, s4, s5, s6, s7, s8, s9, s10, s11, s12, s13, s14, s15, s16, s17, s18, s19, s20,
  s21, s22, s23

Vpn == INSTANCE ProtonVpn WITH
  QueueSize <- 1, AsyncSize <- 1, CommandsMax <- 2, MishapsMax <- 1,
  proton <- s1, vpn <- s2, shown <- s3, gens <- s4, cancel <- s5, stopped <- s6,
  jobs <- s7, polls <- s8, worker <- s9, async <- s10, linkCheckPending <- s11, commands <- s12,
  mishaps <- s13

Kde == INSTANCE KdeConnect WITH
  Devices <- {1}, ChangesMax <- 3, ClicksMax <- 1, TroublesMax <- 1, QueueSize <- 1,
  daemon <- s1, signals <- s2, svc <- s3, chan <- s4, updates <- s5, ui <- s6, panel <- s7,
  inbox <- s8, picked <- s9, tried <- s10, again <- s11, changes <- s12, clicks <- s13,
  troubles <- s14

Herd == INSTANCE Herdr WITH
  Sessions <- {"main"}, States <- {1, 2}, ChangesMax <- 1, TroublesMax <- 1, PressesMax <- 2,
  herd <- s1, session <- s2, object <- s3, runners <- s4, listing <- s5, found <- s6,
  rows <- s7, update <- s8, note <- s9, panel <- s10, jobs <- s11, limits <- s12

Calendar == INSTANCE Calendar WITH
  Panels <- {"month", "agenda"}, Months <- {1, 2}, ClicksMax <- 3, ChangesMax <- 1,
  TroublesMax <- 1,
  eds <- s1, panels <- s2, events <- s3, coverage <- s4, status <- s5, asked <- s6,
  query <- s7, answer <- s8, filter <- s9, action <- s10, limits <- s11

Cat == INSTANCE Cat WITH
  Loads <- {0, 8, 34, 60}, Lines <- {0, 10}, TopAt <- 80, Naps <- {0, 2}, EaseSteps <- 2,
  ChangesMax <- 2, ClicksMax <- 2,
  machine <- s1, settings <- s2, cat <- s3, timers <- s4, open <- s5, budget <- s6

Timer == INSTANCE PomodoroTimer WITH
  Second <- 2, DefaultWork <- 4, WorkLengths <- {4, 6}, BreakLength <- 2, Cadence <- 2,
  MaxTally <- 2, MaxInputs <- 1, MaxSettings <- 0, MaxStarts <- 2,
  duration <- s1, left <- s2, running <- s3, fired <- s4, mode <- s5, completed <- s6,
  work <- s7, auto <- s8, sub <- s9, up <- s10, stateChanged <- s11, restore <- s12,
  found <- s13, unsaved <- s14, stored <- s15, inputs <- s16, settings <- s17, starts <- s18,
  phase <- s19, ended <- s20, expected <- s21, losses <- s22, repeats <- s23

ASSUME MCLivenessAssumption ==
  /\ Kde!KdeAssumption
  /\ Herd!HerdrAssumption
  /\ Calendar!CalendarAssumption
  /\ Cat!CatAssumption
  /\ Timer!TimerAssumption

\* What comes from outside, changes, clicks and troubles together, and its bounds; a click
\* on the phone's panel counts for two.
KdeEvents == s12 + 2 * s13 + s14
KdeEventsMax == 4
HerdEvents == 4 - (s12.changes + s12.troubles + s12.presses)
HerdEventsMax == 2
CalendarEvents == 5 - (s11.changes + s11.troubles + s11.clicks)
CalendarEventsMax == 3

\* Lid guard while another plugin runs: one of the initial states.
LidAtRest == LidPluginInit /\ unit = "inactive" /\ manager /\ tools

slots == <<s1, s2, s3, s4, s5, s6, s7, s8, s9, s10, s11, s12, s13, s14, s15, s16, s17, s18,
           s19, s20, s21, s22, s23>>
mcVars == <<plugin, slots, allLidVars>>

\* The slots that a plugin with fewer variables leaves alone.
Unused15 == s15 = None /\ s16 = None /\ s17 = None /\ s18 = None /\ s19 = None /\ s20 = None /\
            s21 = None /\ s22 = None /\ s23 = None
Unused14 == s14 = None /\ Unused15
Unused13 == s13 = None /\ Unused14
Unused12 == s12 = None /\ Unused13
Unused7 == s7 = None /\ s8 = None /\ s9 = None /\ s10 = None /\ s11 = None /\ Unused12
Kept15 == UNCHANGED <<s15, s16, s17, s18, s19, s20, s21, s22, s23>>
Kept14 == UNCHANGED <<s14, s15, s16, s17, s18, s19, s20, s21, s22, s23>>
Kept13 == UNCHANGED <<s13, s14, s15, s16, s17, s18, s19, s20, s21, s22, s23>>
Kept12 == UNCHANGED <<s12, s13, s14, s15, s16, s17, s18, s19, s20, s21, s22, s23>>
Kept7 == UNCHANGED <<s7, s8, s9, s10, s11, s12, s13, s14, s15, s16, s17, s18, s19, s20, s21,
                     s22, s23>>

NoneElse == s1 = None /\ s2 = None /\ s3 = None /\ s4 = None /\ s5 = None /\ s6 = None /\
            s7 = None /\ s8 = None /\ s9 = None /\ s10 = None /\ s11 = None /\ s12 = None /\
            s13 = None /\ s14 = None /\ s15 = None /\ s16 = None /\ s17 = None /\ s18 = None /\
            s19 = None /\ s20 = None /\ s21 = None /\ s22 = None /\ s23 = None

\* The tunnel is down at first, as after a boot; a command or another tool brings it up.
MCInit ==
  \/ plugin = "lid-guard" /\ LidPluginInit /\ NoneElse
  \/ plugin = "protonvpn" /\ Vpn!VpnInit /\ s1.status = "down" /\ Unused14 /\ LidAtRest
  \/ plugin = "kdeconnect" /\ Kde!KdeInit /\ Unused15 /\ LidAtRest
  \/ plugin = "herdr" /\ Herd!HerdrInit /\ Unused13 /\ LidAtRest
  \/ plugin = "calendar" /\ Calendar!CalendarInit /\ Unused12 /\ LidAtRest
  \/ plugin = "cat" /\ Cat!CatInit /\ Unused7 /\ LidAtRest
  \/ plugin = "timer" /\ Timer!TimerInit /\ LidAtRest

LidStep == plugin = "lid-guard" /\ LidPluginNext /\ UNCHANGED <<plugin, slots>>
VpnStep == plugin = "protonvpn" /\ Vpn!VpnNext /\ UNCHANGED <<plugin, allLidVars>> /\ Kept14
KdeStep ==
  /\ plugin = "kdeconnect" /\ Kde!KdeNext /\ KdeEvents' <= KdeEventsMax
  /\ UNCHANGED <<plugin, allLidVars>> /\ Kept15
HerdStep ==
  /\ plugin = "herdr" /\ Herd!HerdrNext /\ HerdEvents' <= HerdEventsMax
  /\ UNCHANGED <<plugin, allLidVars>> /\ Kept13
CalendarStep ==
  /\ plugin = "calendar" /\ Calendar!CalendarNext /\ CalendarEvents' <= CalendarEventsMax
  /\ UNCHANGED <<plugin, allLidVars>> /\ Kept12
CatStep == plugin = "cat" /\ Cat!CatNext /\ UNCHANGED <<plugin, allLidVars>> /\ Kept7
TimerStep == plugin = "timer" /\ Timer!TimerNext /\ UNCHANGED <<plugin, allLidVars>>

MCNext == LidStep \/ VpnStep \/ KdeStep \/ HerdStep \/ CalendarStep \/ CatStep \/ TimerStep

\* Each plugin's fairness, as its module states it: goroutines are scheduled, tickers
\* tick, and calls and commands end, most of them by a timeout of their own.
LidRuns == plugin = "lid-guard"
VpnRuns == plugin = "protonvpn"
KdeRuns == plugin = "kdeconnect"
HerdRuns == plugin = "herdr"
CalendarRuns == plugin = "calendar"
CatRuns == plugin = "cat"
TimerRuns == plugin = "timer"
Fairness ==
  /\ WF_allLidVars(LidRuns /\ ServiceSteps)
  /\ WF_allLidVars(LidRuns /\ Running /\ Settle /\ UNCHANGED lidPluginVars)
  /\ WF_allLidVars(LidRuns /\ (ReadSnapshot \/ Publish))
  /\ WF_allLidVars(LidRuns /\ OnUpdate) /\ WF_allLidVars(LidRuns /\ Tick)
  /\ WF_(Vpn!vpnVars)(VpnRuns /\ Vpn!Worker) /\ WF_(Vpn!vpnVars)(VpnRuns /\ Vpn!RunClosure)
  /\ WF_(Vpn!vpnVars)(VpnRuns /\ Vpn!VpnTick /\ s8'.wants # {})
  /\ SF_(Vpn!vpnVars)(VpnRuns /\ Vpn!FindNoJob) /\ SF_(Vpn!vpnVars)(VpnRuns /\ Vpn!TakePoll)
  /\ WF_(Kde!kdeVars)(KdeRuns /\ Kde!Connect) /\ WF_(Kde!kdeVars)(KdeRuns /\ Kde!FirstScan)
  /\ WF_(Kde!kdeVars)(KdeRuns /\ Kde!SeeGone) /\ WF_(Kde!kdeVars)(KdeRuns /\ Kde!Tick)
  /\ WF_(Kde!kdeVars)(KdeRuns /\ Kde!TakeUpdate)
  /\ WF_(Herd!herdrVars)(HerdRuns /\ Herd!Poll) /\ WF_(Herd!herdrVars)(HerdRuns /\ Herd!ListingEnds)
  /\ WF_(Herd!herdrVars)(HerdRuns /\ Herd!TakeDiscovery) /\ WF_(Herd!herdrVars)(HerdRuns /\ Herd!Loop)
  /\ \A i \in {1, 2} :
       WF_(Herd!herdrVars)(HerdRuns /\ \E r \in s4 : r.state = i /\ Herd!RunnerStep(r))
  /\ WF_(Calendar!calendarVars)
       (CalendarRuns /\ (Calendar!TakeRequest \/ Calendar!QueryRange \/ Calendar!Answer))
  /\ WF_(Calendar!calendarVars)(CalendarRuns /\ Calendar!TakeAnswer)
  /\ WF_(Calendar!calendarVars)(CalendarRuns /\ Calendar!RefreshTick)
  /\ WF_(Calendar!calendarVars)(CalendarRuns /\ Calendar!FilterSaved)
  /\ WF_(Calendar!calendarVars)(CalendarRuns /\ Calendar!ActionDone)
  /\ WF_(Cat!catVars)(CatRuns /\ Cat!Timers) /\ WF_(Cat!catVars)(CatRuns /\ Cat!Pass)
  /\ WF_(Timer!timerVars)(TimerRuns /\ Timer!TimePasses)
  /\ SF_(Timer!timerVars)(TimerRuns /\ Timer!Tick)

MCSpec == MCInit /\ [][MCNext]_mcVars /\ Fairness

-----------------------------------------------------------------------------
(* Properties.                                                             *)

\* Lid guard: when nothing changes any more, the host shows what systemd reports
\* (service.go, main.go).
LidSettles == <>[](~LidRuns \/ ReportsTruth)

\* Proton VPN: in the end the views show whether the tunnel is up (main.go).
VpnSettles == <>[](~VpnRuns \/ Vpn!AtEnd)

\* Phone: in the end the plugin has the daemon's state (service.go).
PhoneSettles == <>[](~KdeRuns \/ Kde!AtEnd)

\* herdr: an open preview is of the status its pane has, and in the end the rows show
\* what herdr has (service.go, main.go).
HerdIsShown ==
  /\ [](HerdRuns => Herd!PeekFollowsStatus)
  /\ <>[](~HerdRuns \/ Herd!AtEnd)

\* Calendar: no panel's range is forgotten, and in the end each panel shows what
\* Evolution has (main.go).
PanelSettles ==
  /\ [](CalendarRuns => Calendar!PanelIsServed)
  /\ <>[](~CalendarRuns \/ Calendar!AtEnd)

\* Cat: its timers run exactly while someone looks, and in the end it does what the load
\* asks for (main.go, state.go).
CatFollows ==
  /\ [](CatRuns => Cat!TimersServe)
  /\ <>[](~CatRuns \/ Cat!AtEnd)

\* Timer: a running phase ends (timer.go, main.go).
PhaseEnds == []<>(~TimerRuns \/ Timer!Ended)
=============================================================================
