CONSTANTS
  FeedNum = 2
  FilterNum = 2
  DevNum = 2
  Pids = {p1, p2}
  BadPid = BadPid
  Pes = {video}
  NoPid = NoPid
  None = None
  Timeouts = {TRUE}
  Oneshots = {TRUE}
  TimerRace = FALSE
  DriverFails = FALSE
SPECIFICATION DevSpec
INVARIANTS
  DevTypeOK
  RunningServed
  NoFeedLost
  CallbackSafe
  TimerSafe
  OneFeedPerPid
PROPERTY
  KeepsProtocol
SYMMETRY SameRole
