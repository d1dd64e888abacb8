\* Two transactions, one of which is executed and gossiped once more.
CONSTANTS
    Tx = {t1, t2}
    Nil = Nil
    MaxTxNum = 2
    MaxBlockTxs = 2
    SyncWhilePacking = FALSE
SPECIFICATION Spec
INVARIANTS
    PackedBlockIsAccepted
