CONSTANTS
  FeedNum = 2
  FilterNum = 1
  DevNum = 2
  Pids = {p1, p2}
  BadPid = BadPid
  Pes = {video}
  NoPid = NoPid
  None = None
  Timeouts = {TRUE}
  Oneshots = {TRUE}
  TimerRace = FALSE
  DriverFails = TRUE
SPECIFICATION DevSpec
INVARIANT
  NoFeedLost
SYMMETRY SameRole
