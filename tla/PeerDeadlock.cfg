\* One peer, one restart goroutine and one caller.
SPECIFICATION PeerSpec
CONSTANTS
  Cands = {c1}
  Retriers = {g1}
  Callers = {t1}
  Ticks = 2
PROPERTIES
  SendsReturn
CHECK_DEADLOCK FALSE
