\* Six clicks, three of them on their way at a time: the counterexample needs no more.
CONSTANTS
  Categories = {"logs"}
  RunsMax = 1
  ScansMax = 1
  ClicksMax = 6
  QueueSize = 3
  None = None
SPECIFICATION Spec
INVARIANT AuthorizingWhileChecked
\* What the user does is bounded.
CHECK_DEADLOCK FALSE
