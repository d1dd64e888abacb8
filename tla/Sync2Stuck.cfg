\* Two peers, so that a routine may ask again, and two blocks.
CONSTANTS
    Peer = {p1, p2}
    NoPeer = NoPeer
    MaxHeight = 2
    ReportedHeights = {2}
    LoadRoutineNum = 1
SPECIFICATION FairSpec
PROPERTIES
    CatchesUp
CHECK_DEADLOCK FALSE
