\* Two containers, one image, four clicks; two updates; two inputs in two starts, with a
\* profile brighter than the light can be and a counter that may be unreadable; two commands.
CONSTANTS
  Updates = {1, 2}
  TransactionsMax = 1
  RequestsMax = 1
  Nothing = Nothing
  Containers = {1, 2}
  Images = {1}
  PageSize = 1
  Workers = {1, 2}
  ClicksMax = 4
  TroublesMax = 1
  Names = {"work", "home"}
  MaxLevel = 2
  LightMax = 1
  Unreadable = {"keyboard"}
  PressesMax = 2
  FaultsMax = 1
  StartsMax = 2
  QueueSize = 2
  AsyncSize = 1
  CommandsMax = 2
  MishapsMax = 1
  None = None
SPECIFICATION MCSpec
INVARIANT UpdatesAreFollowed
PROPERTIES
  DockerObeys
  ControlsKeepSettings
  TunnelObeys
\* What the user and the outside do is bounded.
CHECK_DEADLOCK FALSE
