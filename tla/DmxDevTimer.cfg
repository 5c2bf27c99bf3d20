CONSTANTS
  FeedNum = 2
  FilterNum = 2
  DevNum = 2
  Pids = {p1, p2}
  BadPid = BadPid
  Pes = {video}
  NoPid = NoPid
  None = None
  Timeouts = {TRUE}
  Oneshots = {TRUE}
  TimerRace = TRUE
  DriverFails = FALSE
SPECIFICATION DevSpec
INVARIANT
  NoFeedLost
SYMMETRY SameRole
CHECK_DEADLOCK FALSE
