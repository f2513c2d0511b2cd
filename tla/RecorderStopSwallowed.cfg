\* One process, three clicks, no crash: the counterexample needs no more.
CONSTANTS
  MaxProcs = 1
  ScanFaults = FALSE
  MaxClicks = 3
  MaxSettings = 1
  MaxEvents = 4
  MaxCrashes = 0
  MaxRestarts = 0
SPECIFICATION PluginSpec
PROPERTY StopNotSwallowed
\* What the user does is bounded.
CHECK_DEADLOCK FALSE
