\* Two notes, six acts of the user, one of the other app.
CONSTANTS
  Names = {"a", "b"}
  Texts = {"x", "y"}
  NotesMax = 6
  OutsideMax = 1
  None = None
SPECIFICATION NotesSpec
INVARIANT ClosedIsSaved
\* What the user does is bounded.
CHECK_DEADLOCK FALSE
