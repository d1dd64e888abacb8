\* Three verifiers, the largest number for which a quorum is everybody.
CONSTANTS
    N = 3
    Bodies = {x, y}
    MaxNum = 2
    MaxView = 1
SPECIFICATION Spec
SYMMETRY BodySymmetry
INVARIANTS
    TypeOK
    SlotAgreement
    Agreement
    CommittedIsCertified
    ChainIsLinked
    NoCommitAfterGivingUp
\* Replicas stop at height MaxNum, or wait for a view change that the others,
\* one height ahead, no longer want.
CHECK_DEADLOCK FALSE
