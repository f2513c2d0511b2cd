---------------------------- MODULE MCDesktop ----------------------------
(* The plugins of the desktop: a phone's pictures, Moonbit, screenshots, the    *)
(* timer, air quality and games (by EXTENDS), wallpaper depth, the phone itself; *)
(* and the catalog that all of them are installed from.  They share nothing,   *)
(* so one behaviour shows one of them: "plugin" says which, and its variables  *)
(* are its own or the first slots.                                             *)
EXTENDS RecentImages, Moonbit, Screenshot, PomodoroTimer, AirQuality, Games

VARIABLES
  plugin,  \* the one that runs
  s1, s2, s3, s4, s5, s6, s7, s8, s9, s10, s11, s12, s13, s14

Depth == INSTANCE WallpaperDepth WITH
  Outputs <- {"left", "right"}, Paths <- {"beach", "hills"}, Params <- {"few", "many"},
  DefaultParam <- "few", AutoChoices <- BOOLEAN, LateClicks <- TRUE, MaxEvents <- 1,
  MaxMoves <- 1, MaxPresses <- 1, MaxChanges <- 1,
  ctl <- s1, events <- s2, wallpapers <- s3, masks <- s4, moves <- s5, presses <- s6,
  changes <- s7

OneScreen == INSTANCE WallpaperDepth WITH
  Outputs <- {"left"}, Paths <- {"beach", "hills"}, Params <- {"few", "many"},
  DefaultParam <- "few", AutoChoices <- BOOLEAN, LateClicks <- TRUE, MaxEvents <- 2,
  MaxMoves <- 1, MaxPresses <- 1, MaxChanges <- 2,
  ctl <- s1, events <- s2, wallpapers <- s3, masks <- s4, moves <- s5, presses <- s6,
  changes <- s7

Kde == INSTANCE KdeConnect WITH
  Devices <- {1, 2}, ChangesMax <- 1, ClicksMax <- 2, TroublesMax <- 1, QueueSize <- 1,
  daemon <- s1, signals <- s2, svc <- s3, chan <- s4, updates <- s5, ui <- s6, panel <- s7,
  inbox <- s8, picked <- s9, tried <- s10, again <- s11, changes <- s12, clicks <- s13,
  troubles <- s14

Catalog == INSTANCE Catalog WITH
  Plugins <- {"cat"}, VersionsMax <- 3, ReleasesCap <- 1, ThumbSince <- 2, TagsMax <- 3,
  ClicksMax <- 1, DaysMax <- 1, TroublesMax <- 1,
  runs <- s1, served <- s2, main <- s3, branches <- s4, meta <- s5, day <- s6, merged <- s7,
  budget <- s8

ASSUME MCDesktopAssumption ==
  /\ AirAssumption
  /\ TimerAssumption
  /\ Depth!DepthAssumption
  /\ OneScreen!DepthAssumption
  /\ MoonbitAssumption
  /\ ScreenshotAssumption
  /\ GamesAssumption
  /\ Kde!KdeAssumption
  /\ Catalog!CatalogAssumption

\* Phone pictures while another plugin runs: one of the initial states.
RecentAtRest == RecentInit /\ ~svc.gridded

slots == <<s1, s2, s3, s4, s5, s6, s7, s8, s9, s10, s11, s12, s13, s14>>
ownVars == <<recentVars, vars, screenshotVars, timerVars, airVars, gamesVars>>
mcVars == <<plugin, slots, ownVars>>

\* The slots that a plugin with fewer variables leaves alone.
Unused11 == s11 = None /\ s12 = None /\ s13 = None /\ s14 = None
Unused9 == s9 = None /\ s10 = None /\ Unused11
Unused8 == s8 = None /\ Unused9
Kept9 == UNCHANGED <<s9, s10, s11, s12, s13, s14>>
Kept8 == UNCHANGED <<s8, s9, s10, s11, s12, s13, s14>>

NoneElse == Unused8 /\ s1 = None /\ s2 = None /\ s3 = None /\ s4 = None /\ s5 = None /\ s6 = None /\
            s7 = None

\* Air quality while another plugin runs: one of the initial states.
AirAtRest == AirInit /\ hostLocation = None

MCInit ==
  /\ Init /\ ScreenshotInit /\ TimerInit /\ GamesInit
  /\ \/ plugin = "recent-images" /\ RecentInit /\ AirAtRest /\ NoneElse
     \/ plugin = "airquality" /\ RecentAtRest /\ AirInit /\ NoneElse
     \/ /\ RecentAtRest /\ AirAtRest
        /\ \/ plugin \in {"moonbit", "screenshot", "timer", "games"} /\ NoneElse
           \/ plugin = "wallpaper-depth" /\ Depth!Init /\ Unused8
           \/ plugin = "wallpaper-depth, one screen" /\ OneScreen!Init /\ Unused8
           \/ plugin = "kdeconnect" /\ Kde!KdeInit
           \/ plugin = "catalog" /\ Catalog!CatalogInit /\ Unused9

RecentStep ==
  /\ plugin = "recent-images" /\ RecentNext
  /\ UNCHANGED <<plugin, slots, vars, screenshotVars, timerVars, airVars, gamesVars>>
MoonbitStep ==
  /\ plugin = "moonbit" /\ Next
  /\ UNCHANGED <<plugin, slots, recentVars, screenshotVars, timerVars, airVars, gamesVars>>
ScreenshotStep ==
  /\ plugin = "screenshot" /\ ScreenshotNext
  /\ UNCHANGED <<plugin, slots, recentVars, vars, timerVars, airVars, gamesVars>>
TimerStep ==
  /\ plugin = "timer" /\ TimerNext
  /\ UNCHANGED <<plugin, slots, recentVars, vars, screenshotVars, airVars, gamesVars>>
AirStep ==
  /\ plugin = "airquality" /\ AirNext
  /\ UNCHANGED <<plugin, slots, recentVars, vars, screenshotVars, timerVars, gamesVars>>
GamesStep ==
  /\ plugin = "games" /\ GamesNext
  /\ UNCHANGED <<plugin, slots, recentVars, vars, screenshotVars, timerVars, airVars>>
Same == UNCHANGED <<plugin, ownVars>>
DepthStep == plugin = "wallpaper-depth" /\ Depth!Next /\ Same /\ Kept8
OneScreenStep == plugin = "wallpaper-depth, one screen" /\ OneScreen!Next /\ Same /\ Kept8
\* The phone has one bound for changes, clicks and troubles together.
KdeEvents == s12 + s13 + s14
KdeEventsMax == 3
KdeStep == plugin = "kdeconnect" /\ Kde!KdeNext /\ KdeEvents' <= KdeEventsMax /\ Same
CatalogStep == plugin = "catalog" /\ Catalog!CatalogNext /\ Same /\ Kept9

MCNext == RecentStep \/ AirStep \/ TimerStep \/ DepthStep \/ OneScreenStep \/ MoonbitStep \/
          GamesStep \/ ScreenshotStep \/ KdeStep \/ CatalogStep
MCSpec == MCInit /\ [][MCNext]_mcVars

-----------------------------------------------------------------------------
(* Properties.                                                             *)

\* Wallpaper depth: the shell has the mask that is shown as ready, no mask is made
\* twice, and none unasked when automatic generation is off (controller.go).
MasksAreAsked ==
  /\ plugin = "wallpaper-depth" =>
       Depth!ReadyIsRegistered /\ Depth!OneJobEach /\ Depth!ManualOnly
  /\ plugin = "wallpaper-depth, one screen" =>
       OneScreen!ReadyIsRegistered /\ OneScreen!OneJobEach /\ OneScreen!ManualOnly

\* Phone: the panel shows the snapshot, the chosen phone is the user's, and a timer
\* does not repeat a mount that failed (view.go, main.go, service.go).
PhoneIsHonest ==
  plugin = "kdeconnect" => Kde!PanelHonest /\ Kde!ChoiceIsUsers /\ Kde!TimerMountsOnce

\* Catalog: a row lists the newest release, whatever order they are published and
\* merged in (update.go).
RowIsNewest == plugin = "catalog" => Catalog!RowIsNewest
=============================================================================
