SPECIFICATION Spec
CONSTANTS
  agent = agent
  alias = alias
  hand1 = hand1
  hand2 = hand2
  noName = noName
  Agents <- MCAgents
  Aliases <- MCAliases
  Handlers <- MCHandlers
  MaxCerts = 2
  NoName = noName
  boot = boot
  user = user
  pass = pass
  req1 = req1
  req2 = req2
  start = start
  noEmail = noEmail
  Emails <- MCEmails
  Passwords <- MCPasswords
  Roles <- MCRoles
  Boot = boot
  Requests <- MCRequests
  Start = start
  NoEmail = noEmail
SYMMETRY Symmetry
CONSTRAINT Apart
INVARIANTS
  RevokedIsRefused
  AccountAsWanted
CHECK_DEADLOCK FALSE
