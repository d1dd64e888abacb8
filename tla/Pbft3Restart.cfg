\* One restart with three verifiers: the primary packs its slot again.
CONSTANTS
    N = 3
    Bodies = {x, y}
    MaxNum = 1
    MaxView = 0
    Proposers = {1}
    MaxFaults = 1
    MayFail = {}
    Unsteady = {1}
SPECIFICATION Spec
SYMMETRY BodySymmetry
VIEW StateView
INVARIANTS
    ReceivedIsSigned
\* Replicas stop at height MaxNum.
CHECK_DEADLOCK FALSE
