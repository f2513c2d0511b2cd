\* Two notes, four acts of the user, one of the other app.
CONSTANTS
  Names = {"a", "b"}
  Texts = {"x", "y"}
  NotesMax = 4
  OutsideMax = 1
  None = None
SPECIFICATION NotesSpec
PROPERTY BothChangedAsks
\* What the user does is bounded.
CHECK_DEADLOCK FALSE
