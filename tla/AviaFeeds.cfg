CONSTANTS
  Feeds = {d1, d2, d3}
  Pids = {1, 2}
  DecoderPids = {1}
  SectionPids = {2}
  LastUser = 2
  MaxFeed = 3
  Slots = 3
  Filters = {0, 1, 2}
  CcErrors = FALSE
SPECIFICATION Spec
INVARIANT
  ClientServed
CHECK_DEADLOCK FALSE
