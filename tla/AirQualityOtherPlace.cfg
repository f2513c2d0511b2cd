\* Three events of the outside world (settings, moves, button presses, restarts) in any order.
CONSTANTS
  Places = {"a", "b"}
  Regional = {"a"}
  OwnPlace = "a"
  CarryLimit = 1
  MaxEvents = 3
  None = None
SPECIFICATION AirSpec
PROPERTY SettledIsHere
\* The events are bounded.
CHECK_DEADLOCK FALSE
