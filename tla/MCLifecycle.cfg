SPECIFICATION LifeSpec
CONSTANTS
    Writes = {1, 2, 3, 4}
    QueueMax = 2
    MayRaise = {2, 4}
    Events = {1, 2, 3, 4}
    BatchSize = 2
    AppendMayRaise = TRUE
INVARIANTS LifeTypeOK NothingVanishes ClosedIsComplete
PROPERTIES RunEnds TakenIsStored RecordedIsFlushed
PROPERTIES ImplementsWriteLog RecorderImplementsWriteLog
CHECK_DEADLOCK FALSE
