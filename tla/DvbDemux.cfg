CONSTANTS
  FeedNum = 2
  FilterNum = 3
  Pids = {p1}
  Pes = {video, audio}
  NoPid = NoPid
  BadPid = BadPid
  None = None
SPECIFICATION Spec
INVARIANTS
  TypeOK
  ListSound
  ChainsSound
  FilteringTrue
  OwnersLive
