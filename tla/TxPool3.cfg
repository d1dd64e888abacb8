\* Three transactions: enough to read past one, remove the last and add again,
\* and for a second batch that does not fit in the block.
CONSTANTS
    Tx = {t1, t2, t3}
    Nil = Nil
    MaxTxNum = 3
    MaxBlockTxs = 2
    SyncWhilePacking = TRUE
SPECIFICATION Spec
SYMMETRY TxSymmetry
INVARIANTS
    TypeOK
    ListIsSound
PROPERTIES
    ImplementsQueue
