\* A stream that outlives the write deadline, and changes of any length.
SPECIFICATION FairSpec
CONSTANTS
    MaxEvents = 3
    QueueCapacity = 1
    WireCapacity = 1
    ChanCapacity = 1
    LongEvents <- NoLong
CHECK_DEADLOCK FALSE
PROPERTY ChangesArrive
