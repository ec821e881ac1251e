\* Every order of credits, window changes, maturations, withdrawals and
\* confiscations of one queue, while time passes; 16 seconds give buckets of 2.
SPECIFICATION FairSpec
CONSTANTS
    Times <- MCTimes
    Freezes <- MCFreezes
    Amounts = {1, 2}
    Caps = {0, 1}
    MaxUint192 = 3
    MaxCredits = 3
INVARIANTS
    TypeOK
    QueueShape
    NothingUnlocksEarly
    EntriesHoldTheirCredits
    EarningsAccountedFor
    FrozenCreditsReleaseInOrder
PROPERTIES
    FreezeEnds
    ConfiscationIsExact
    MaturedEarningsAreSafe
