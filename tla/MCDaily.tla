----------------------------- MODULE MCDaily -----------------------------
(* The plugins of a working day: GitHub notifications, the privacy audit's     *)
(* loop, the screen recorder, Faith and AI usage (by EXTENDS), notes and their *)
(* stickies, the world clock and the audit itself.  They share nothing, so one *)
(* behaviour shows one of them: "plugin" says which, and its variables are its *)
(* own or the first slots.                                                     *)
EXTENDS GithubNotifications, PrivacyPlugin, RecorderPlugin, Faith, AiUsage

CONSTANTS NoteA, NoteB  \* the notes that have stickies

VARIABLES
  plugin,  \* the one that runs
  s1, s2, s3, s4, s5, s6, s7, s8, s9, s10

Editor == INSTANCE Notes WITH
  Names <- {"a", "b"}, Texts <- {"x", "y"}, NotesMax <- 4, OutsideMax <- 1,
  note <- s1, windows <- s2, fresh <- s3, acts <- s4, outside <- s5, mine <- s6, others <- s7

Stickies == INSTANCE NotesStickies WITH
  Names <- {NoteA, NoteB}, ViewsMax <- 2, QueueSize <- 1, ClicksMax <- 3, TroublesMax <- 1,
  files <- s1, host <- s2, views <- s3, closed <- s4, cache <- s5, waiting <- s6, jobs <- s7,
  results <- s8, limits <- s9

Clock == INSTANCE WorldClock WITH
  Zones <- {"lima", "oslo"}, Default <- <<"lima">>, PendingMax <- 1, RetriesMax <- 1,
  ClicksMax <- 3, TroublesMax <- 2,
  stored <- s1, session <- s2, panel <- s3, shown <- s4, incoming <- s5, pending <- s6,
  load <- s7, saver <- s8, deleted <- s9, limits <- s10

Audit == INSTANCE PrivacyAudit WITH
  Grades <- {0, 2, 3}, Severities <- {1, 3}, CategoriesMax <- 1, InstalledMax <- 1,
  FindingsMax <- 1, SandboxMax <- 1, LongestList <- 2,
  report <- s1, snapshot <- s2

ASSUME MCDailyAssumption ==
  /\ Stickies!StickiesAssumption
  /\ Clock!WorldClockAssumption
  /\ PrivacyAssumption
  /\ FaithAssumption
  /\ Audit!PrivacyAuditAssumption
  /\ PrivacyAssumption

\* GitHub notifications, the recorder and AI usage while another plugin runs: one initial
\* state.
GithubAtRest == GithubInit /\ perPage = (CHOOSE size \in PageSizes : TRUE)
RecorderAtRest == PluginInit /\ installed
AiAtRest == AiInit /\ \A p \in Providers : quota[p].pct = (CHOOSE pct \in Percents : TRUE)

slots == <<s1, s2, s3, s4, s5, s6, s7, s8, s9, s10>>
ownVars == <<allGithubVars, privacyVars, allVars, faithVars, aiVars>>
mcVars == <<plugin, slots, ownVars>>

\* The slots that a plugin with fewer variables leaves alone.
Unused10 == s10 = None
Unused8 == s8 = None /\ s9 = None /\ Unused10
Unused3 == s3 = None /\ s4 = None /\ s5 = None /\ s6 = None /\ s7 = None /\ Unused8
Kept10 == UNCHANGED <<s10>>
Kept8 == UNCHANGED <<s8, s9, s10>>
Kept3 == UNCHANGED <<s3, s4, s5, s6, s7, s8, s9, s10>>
NoneElse == s1 = None /\ s2 = None /\ Unused3

MCInit ==
  /\ PrivacyInit /\ FaithInit
  /\ \/ plugin = "github-notifications" /\ GithubInit /\ RecorderAtRest /\ AiAtRest /\ NoneElse
     \/ plugin = "screen-recorder" /\ GithubAtRest /\ PluginInit /\ AiAtRest /\ NoneElse
     \/ plugin = "aiusage" /\ GithubAtRest /\ RecorderAtRest /\ AiInit /\ NoneElse
     \/ /\ GithubAtRest /\ RecorderAtRest /\ AiAtRest
        /\ \/ plugin \in {"privacy", "faith"} /\ NoneElse
           \/ plugin = "notes" /\ Editor!NotesInit /\ Unused8
           \/ plugin = "stickies" /\ Stickies!StickiesInit /\ Unused10
           \/ plugin = "worldclock" /\ Clock!ClockInit
           \/ plugin = "audit" /\ Audit!AuditInit /\ Unused3

GithubStep ==
  /\ plugin = "github-notifications" /\ GithubNext
  /\ UNCHANGED <<plugin, slots, privacyVars, allVars, faithVars, aiVars>>
PrivacyStep ==
  /\ plugin = "privacy" /\ PrivacyNext
  /\ UNCHANGED <<plugin, slots, allGithubVars, allVars, faithVars, aiVars>>
RecorderStep ==
  /\ plugin = "screen-recorder" /\ PluginNext
  /\ UNCHANGED <<plugin, slots, allGithubVars, privacyVars, faithVars, aiVars>>
FaithStep ==
  /\ plugin = "faith" /\ FaithNext
  /\ UNCHANGED <<plugin, slots, allGithubVars, privacyVars, allVars, aiVars>>
\* AI usage, of one provider, has one bound for clicks, troubles, restarts and new quota
\* windows together.
AiEvents ==
  (AiClicks - bounds.clicks) + (AiTroubles - bounds.troubles) + (AiStarts - bounds.starts) +
  (quota[CHOOSE p \in Providers : TRUE].window - 1)
AiEventsMax == 2
AiStep ==
  /\ plugin = "aiusage" /\ AiNext /\ AiEvents' <= AiEventsMax
  /\ UNCHANGED <<plugin, slots, allGithubVars, privacyVars, allVars, faithVars>>
Same == UNCHANGED <<plugin, ownVars>>
EditorStep == plugin = "notes" /\ Editor!NotesNext /\ Same /\ Kept8
StickiesStep == plugin = "stickies" /\ Stickies!StickiesNext /\ Same /\ Kept10
ClockStep == plugin = "worldclock" /\ Clock!ClockNext /\ Same
AuditStep == plugin = "audit" /\ Audit!AuditNext /\ Same /\ Kept3

MCNext == GithubStep \/ EditorStep \/ StickiesStep \/ ClockStep \/ FaithStep \/ AiStep \/ AuditStep \/
          PrivacyStep \/ RecorderStep
MCSpec == MCInit /\ [][MCNext]_mcVars

-----------------------------------------------------------------------------
(* Properties.                                                             *)

\* GitHub: the removal of a read thread is on the panel before its PATCH starts, no
\* thread that moves up a page is skipped, and the panel says "Refreshing" as long as
\* one is asked for (coordinator.go, service.go, main.go).
InboxIsHonest == ShownBeforePatch /\ ListIsWhole /\ SpinnerHonest

\* Notes: what the user has typed stays until it is saved or given up, and nothing is
\* replaced that another app wrote and Notes has not read (notes.go, store.go).
TextIsKept ==
  /\ [](plugin = "notes" => Editor!TypedKept)
  /\ [][plugin = "notes" => Editor!UnreadStays]_mcVars

\* Stickies: a closed sticky does not come back, and nothing waits for a job that is
\* not there (main.go).
StickiesAreServed == plugin = "stickies" => Stickies!ClosedStayClosed /\ Stickies!WaitersHaveJobs

\* World clock: no zone is lost that was not deleted, no cleared text comes back, the
\* list that is kept is the one shown, and whoever waits has a load (main.go).
ZonesAreKept ==
  /\ [](plugin = "worldclock" => Clock!SavedIsShown /\ Clock!WaitersHaveLoad)
  /\ [][plugin = "worldclock" => Clock!StoredIsKept /\ Clock!ClearedStays]_mcVars

\* Privacy: what a short list leaves out is never worse than what it shows, and is told
\* of (snapshot.go).
WorstIsShown == plugin = "audit" => Audit!WorstIsShown /\ Audit!HiddenIsTold
=============================================================================
