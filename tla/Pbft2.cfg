\* Two heights and two views of two verifiers, either of which may be started
\* late and fail to execute a block; only one of them asks for proposals, which
\* every verifier then acts on.
CONSTANTS
    N = 2
    Bodies = {x, y}
    MaxNum = 2
    MaxView = 1
    Proposers = {0}
    MaxFaults = 0
    MayFail = {x, y}
    Unsteady = {0, 1}
SPECIFICATION Spec
SYMMETRY BodySymmetry
VIEW HistoryView
INVARIANTS
    TypeOK
    VoteIsOnItsWay
    Agreement
PROPERTIES
    ImplementsProtocol
\* Replicas stop at height MaxNum.
CHECK_DEADLOCK FALSE
