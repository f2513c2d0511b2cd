\* Two notes, five clicks: create, pin, rename, create again, delete and create.
CONSTANTS
  a = a
  b = b
  Names = {a, b}
  ViewsMax = 2
  QueueSize = 2
  ClicksMax = 5
  TroublesMax = 1
  None = None
SPECIFICATION StickiesSpec
INVARIANT KeysApart
\* What the user and the outside do is bounded.
CHECK_DEADLOCK FALSE
