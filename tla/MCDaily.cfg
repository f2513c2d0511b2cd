\* Three threads in pages of one or two, three events; the privacy loop for five
\* intervals with three clicks; a recorder of two processes, two inputs or an input and a
\* change of the settings, a crash and a restart; two clicks, a trouble and a tick of Faith;
\* two of a click, a trouble, a restart and a new window of AI usage; the other bounds
\* are in the module.
CONSTANTS
  Threads = {1, 2, 3}
  PageSizes = {1, 2}
  GithubMax = 3
  StaleAfter = 3
  TimeMax = 5
  ClicksMax = 3
  TroublesMax = 2
  MaxProcs = 2
  ScanFaults = FALSE
  MaxClicks = 2
  MaxSettings = 1
  MaxEvents = 2
  MaxCrashes = 1
  MaxRestarts = 1
  Translations = {{1, 2, 3}, {1, 3}}
  First = {1, 2, 3}
  ChapterLength = 2
  Pool = {2, 3}
  Common = {"creed", "psalm"}
  Own = {"rosary"}
  FaithClicks = 2
  FaithTroubles = 1
  FaithTicks = 1
  Providers = {"claude"}
  Floored = {"claude"}
  TwoSources = {}
  Floor = 1
  Percents = {50, 96}
  Cooldown = 1
  AiWindows = 2
  AiClicks = 1
  AiTroubles = 1
  AiStarts = 2
  NoteA = NoteA
  NoteB = NoteB
  None = None
SPECIFICATION MCSpec
INVARIANTS
  RequestNotLost
  InboxIsHonest
  StickiesAreServed
  VersesAreServed
  AlertsComeOnce
  WorstIsShown
  ScanIsReal
  OwnerIsSafe
PROPERTIES
  OrderIsKept
  TextIsKept
  ZonesAreKept
\* What the user and the outside do is bounded.
CHECK_DEADLOCK FALSE
