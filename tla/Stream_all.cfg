\* Every buffer holds one event.  The system stops when both sides have.
SPECIFICATION FairSpec
CONSTANTS
    MaxEvents = 3
    QueueCapacity = 1
    WireCapacity = 1
    ChanCapacity = 1
    LongEvents <- TheThird
INVARIANTS
    StreamIsComplete
PROPERTIES
    ConnectedIsListening
    CloseEndsReader
    EndIsNoticed
    HandlerIsNeverStuck
CHECK_DEADLOCK FALSE
