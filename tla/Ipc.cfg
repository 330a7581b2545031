\* A goroutine writes to each reliable lane, two to vid; bulk has a slot after two.
CONSTANTS
    HiProducer = {h1}
    BulkProducer = {b1}
    VidProducer = {f1, f2}
    Data = {d1, d2}
    marked = d2
    Nothing = Nothing
    HiCap = 2
    BulkCap = 2
    VidCap = 1
    MaxStreak = 2
SPECIFICATION MCSpec
INVARIANTS
    TypeOK
    BulkGetsItsSlot
PROPERTIES
    BulkProgress
    CallsReturn
    ReliableLanes
