\* Up to four streams, one of them the peer's, over three connections; one fault,
\* one message.
SPECIFICATION FairSpec
CONSTANTS
    MaxStreams = 4
    MaxIncoming = 1
    MaxConns = 3
    MaxFaults = 1
    MaxMsgs = 1
INVARIANTS TypeOK
PROPERTIES
    LosesPlaceToAnother
    StreamsEnd
    StaysReachable
\* A node whose connection lives on has nothing to do.
CHECK_DEADLOCK FALSE
