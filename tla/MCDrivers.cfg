CONSTANTS
  c1 = c1
  k1 = k1
  k2 = k2
  p1 = p1
  p2 = p2
  w = w
  shift = shift
  lmb = lmb
SPECIFICATION Spec
INVARIANTS
  TypeOK
  DevicesFollow
  AnswersKept
PROPERTIES
  LossyAtWorst
  
CHECK_DEADLOCK FALSE
