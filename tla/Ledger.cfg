\* Three accounts, a cache of two, three payments, one of an account to itself,
\* in at most two blocks of at most two, one crash anywhere.
SPECIFICATION Spec
CONSTANTS
    A1 = A1
    A2 = A2
    A3 = A3
    None = None
    Address <- MCAddress
    AccountCfg <- MCAccountCfg
    Tx <- MCTx
    CacheSize = 2
    MaxHeight = 2
    MaxBlockTxs = 2
    MaxCrashes = 1
INVARIANTS
    TypeOK
    LedgerIsReplay
    MoneyIsNeverCreated
    StoredHeightHasItsBlock
    StartsAgain
    
\* A node may be down, or at the bound of heights.
CHECK_DEADLOCK FALSE
