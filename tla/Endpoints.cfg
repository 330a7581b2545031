SPECIFICATION Spec
CONSTANTS
  xfer1 = xfer1
  xfer2 = xfer2
  name1 = name1
  none = none
  Xfers <- MCXfers
  Names <- MCNames
  Copies = 3
  Mine <- MCMine
  MaxLen = 2
  MaxLane = 1
  Limit = 1
  None = none
  NoXfer = none
  export1 = export1
  Exports <- MCExports
  MaxFile = 2
  NotHeld = none
  click1 = click1
  click2 = click2
  noOne = noOne
  Clicks <- MCClicks
  NoOne = noOne
  size1 = size1
  size2 = size2
  rec1 = rec1
  rec2 = rec2
  barClick = barClick
  reader = reader
  captureLoop = captureLoop
  Sizes <- MCSizes
  Recorders <- MCRecorders
  BarClicks <- MCBarClicks
  Reader = reader
  Loop = captureLoop
  BlockSize = 2
  Width = 5
  Height = 5
  upd1 = upd1
  upd2 = upd2
  readLoop = readLoop
  Updaters <- MCUpdaters
  ReadLoop = readLoop
  MaxHash = 4
  MaxWait = 2
  viewer = viewer
  token1 = token1
  token2 = token2
  clipFile = clipFile
  nothing = nothing
  Viewers <- MCViewers
  Tokens <- MCTokens
  Files <- MCFiles
  Chunks = 2
  MaxOut = 1
  MaxSeq = 1
  Nothing = nothing
  control = control
  peer1 = peer1
  peer2 = peer2
  noPeer = noPeer
  Controllers <- MCControllers
  Peers <- MCPeers
  NoPeer = noPeer
  spot = spot
  origin = origin
  noEvent = noEvent
  Spots <- MCSpots
  Origin = origin
  Buttons = {2}
  Usages = {39, 72}
  Cap = 2
  MaxPosted = 3
  NoEvent = noEvent
  Span = 4000
  MaxRel = 32767
  Gaps = {1, 3999, 70001}
  Lengths = {122, 123, 16378, 16379, 2097147, 268435451}
  MaxElements = 5
  device1 = device1
  device2 = device2
  request1 = request1
  request2 = request2
  absent = absent
  torn = torn
  unloaded = unloaded
  Devices <- MCDevices
  Requests <- MCRequests
  Absent = absent
  Torn = torn
  Unloaded = unloaded
CONSTRAINT SetsMeetAlone
INVARIANTS
  EndpointsTypeOK
  TransfersAreWhole
  MicSaysWhatItDoes
  RecordersAccounted
  RectsAreParts
  RotationTakesEffect
  StagedIsWhole
  OpenIsListed
  InputAsSaid
  RecordingPlays
  RememberedAsDecided
CHECK_DEADLOCK FALSE
