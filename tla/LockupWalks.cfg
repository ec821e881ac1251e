\* Every queue of up to four entries against every time and cap.
SPECIFICATION WalkSpec
CONSTANTS
    MaxLength = 4
    MaxTime = 2
    MaxAmount = 2
    MaxCap = 2
INVARIANTS
    LoopsComputeTheQueue
    ViewsForecastTheWithdrawal
    ChunksAddUp
