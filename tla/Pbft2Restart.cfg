\* A view change and one Stop or restart of one of two verifiers; one replica's
\* own messages wait at a time.
CONSTANTS
    N = 2
    Bodies = {x}
    MaxNum = 1
    MaxView = 1
    Proposers = {0}
    MaxFaults = 1
    MayFail = {}
    Unsteady = {1}
SPECIFICATION Spec
VIEW StateView
CONSTRAINT OneBusy
INVARIANTS
    Agreement
\* Replicas stop at height MaxNum.
CHECK_DEADLOCK FALSE
