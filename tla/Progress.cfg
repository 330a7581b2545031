SPECIFICATION Spec
CONSTANTS
  MaxCmds = 4
  QueueLen = 8
  w1 = w1
  w2 = w2
  helper = helper
  nobody = nobody
  Feeders <- MCFeeders
  Helper = helper
  Nobody = nobody
  KeyEvery = 4
  Rates <- MCRates
  AliveRate = 1
  BitRates = 2
  DownAfter = 2
  UpAfter = 1
  c1 = c1
  c2 = c2
  g1 = g1
  g2 = g2
  t1 = t1
  Cands <- MCCands
  Retriers <- MCRetriers
  Callers <- MCCallers
  Ticks = 2
  s1 = s1
  s2 = s2
  none = none
  Calls <- MCCalls
  NoCall = none
INVARIANTS
  ProgressTypeOK
  EarlyCandidatesUsed
PROPERTIES
  LeaseRestores
  SourceRestored
  LossServed
  ConnectSettles
CHECK_DEADLOCK FALSE
