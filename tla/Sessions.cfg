\* Two dials of one id, one worker, one hang-up.
SPECIFICATION Spec
CONSTANTS
  Ids = {k1}
  Dials = {d1, d2}
  Workers = {w1}
  Levels = {control, view}
  MaxHangUps = 1
  None = None
SYMMETRY Symmetry
INVARIANTS EndedPasswordRetired NoPeerLost GrantIsThePeers
CHECK_DEADLOCK FALSE
