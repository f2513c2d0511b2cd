\* Two pictures on two phones, three changes; four clicks on Moonbit, two on their way; four
\* presses on Screenshot; two inputs, one change of the
\* settings and two starts of the timer; two events of air quality; one game that changes
\* twice, three clicks, a failure and two starts; the other plugins' bounds are in the module.
CONSTANTS
  Photos = {p, q}
  Phones = 2
  Selected = 1
  MaxRecent = 1
  ChangesMax = 3
  CopiesMax = 2
  Categories = {"logs", "caches"}
  RunsMax = 2
  ScansMax = 2
  ClicksMax = 4
  QueueSize = 2
  Acts = {1, 2}
  Directories = {"pictures"}
  PressesMax = 4
  Second = 2
  DefaultWork = 4
  WorkLengths = {4, 6}
  BreakLength = 2
  Cadence = 2
  MaxTally = 1
  MaxInputs = 2
  MaxSettings = 1
  MaxStarts = 2
  Places = {"here", "there"}
  Regional = {"there"}
  OwnPlace = "here"
  CarryLimit = 1
  MaxEvents = 2
  Games = {"chess"}
  GameChangesMax = 2
  GameClicksMax = 3
  GameTroublesMax = 1
  GameStartsMax = 2
  None = None
SPECIFICATION MCSpec
INVARIANTS
  GridIsFresh
  CopiesAndCovers
  MasksAreAsked
  CleansWhatWasShown
  SessionsAreWatched
  PanelShowsModel
  PhoneIsHonest
  RowIsNewest
PROPERTIES
  ReportsAreTrue
  PhasesGoOn
\* What the user and the outside do is bounded.
CHECK_DEADLOCK FALSE
