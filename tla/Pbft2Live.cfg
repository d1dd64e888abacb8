\* Messages in any order; one Stop or restart of one of two verifiers, and
\* transactions of one of two bodies that may fail.
CONSTANTS
    N = 2
    Bodies = {x, y}
    MaxNum = 1
    MaxView = 0
    Proposers = {0, 1}
    MaxFaults = 1
    MayFail = {y}
    Unsteady = {1}
SPECIFICATION FairSpec

    
PROPERTIES
    EveryReplicaCommits
\* Replicas stop at height MaxNum.
CHECK_DEADLOCK FALSE
