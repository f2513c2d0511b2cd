\* Lid guard: one change from outside, one message; the other plugins' bounds are in the module.
CONSTANTS
  MaxTroubles = 1
  MaxMessages = 1
  None = None
SPECIFICATION MCSpec
INVARIANT DrivesOnce
PROPERTIES
  NoticesAreTrue
  LidSettles
  VpnSettles
  PhoneSettles
  HerdIsShown
  PanelSettles
  CatFollows
  PhaseEnds
\* What the user and the outside do is bounded.
CHECK_DEADLOCK FALSE
