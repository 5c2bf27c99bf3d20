CONSTANTS
  b1 = b1
  b2 = b2
  d1 = d1
  d2 = d2
  d3 = d3
  f1 = f1
  f2 = f2
  h1 = h1
  h2 = h2
SPECIFICATION Spec
INVARIANTS
  
  
  WantedServed
  AllGivenBack
  TransfersTrue
PROPERTIES
  LossyAtWorst
  ReloadsWhenApart
CHECK_DEADLOCK FALSE
