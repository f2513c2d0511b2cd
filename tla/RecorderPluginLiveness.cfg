\* Two processes, two clicks or a click and a change of the settings, a crash and a restart.
CONSTANTS
  MaxProcs = 2
  ScanFaults = FALSE
  MaxClicks = 2
  MaxSettings = 1
  MaxEvents = 2
  MaxCrashes = 1
  MaxRestarts = 1
SPECIFICATION PluginSpec
PROPERTY PluginServes
\* What the user does is bounded.
CHECK_DEADLOCK FALSE
