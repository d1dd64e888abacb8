\* Four verifiers, the smallest number with f = 1, and one view change.
CONSTANTS
    N = 4
    Bodies = {x}
    MaxNum = 1
    MaxView = 1
SPECIFICATION Spec
INVARIANTS
    Agreement
\* Replicas stop at height MaxNum.
CHECK_DEADLOCK FALSE
