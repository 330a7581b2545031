\* Two dials, under one id or two, and one worker, which may go at any time.
SPECIFICATION Spec
CONSTANTS
  Ids = {k1, k2}
  Dials = {d1, d2}
  Workers = {w1}
  None = None
INVARIANTS OneYesOneViewer LoneDialIsHeard
PROPERTIES EveryDialDecided
CHECK_DEADLOCK FALSE
