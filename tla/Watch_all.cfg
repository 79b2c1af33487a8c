\* A long poll and a stream whose channels fill up, and two publishers.  The
\* system stops when every request has ended.
SPECIFICATION FairSpec
CONSTANTS
    poll = poll
    stream = stream
    app = app
    web = web
    Watchers <- PollAndStream
    Streams <- TheStream
    WatchedNs <- WatchAppAndAny
    Notifiers <- TwoNotifiers
    ChangedNs <- ChangeProdAndSibling
    Changes <- TwoAndOne
    LongPollBuffer = 1
    StreamBuffer = 2
    StartCounter = 55295
    MaxSecond = 1
INVARIANTS
    NoPanic
    WaitersAreRegistered
    EventsInOrder
    NotifyReachesTheInterested
PROPERTIES
    HandlersEnd
    NotifyNeverBlocks
CHECK_DEADLOCK FALSE
