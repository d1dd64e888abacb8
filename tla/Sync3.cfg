\* Three blocks, all asked for at once: the least for a block to come two
\* early and be skipped.  One peer is ahead.
CONSTANTS
    Peer = {p1}
    NoPeer = NoPeer
    MaxHeight = 3
    ReportedHeights = {3}
    LoadRoutineNum = 3
SPECIFICATION FairSpec
INVARIANTS
    TypeOK
    DoneIsKept
PROPERTIES
    CatchesUp
CHECK_DEADLOCK FALSE
