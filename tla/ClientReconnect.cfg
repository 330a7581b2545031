\* One client, with two goroutines that rotate its passwords.
SPECIFICATION ClientSpec
CONSTANTS
  Updaters = {upd1, upd2}
  ReadLoop = readLoop
  MaxHash = 4
  MaxWait = 2
PROPERTIES
  Reconnects
CHECK_DEADLOCK FALSE
