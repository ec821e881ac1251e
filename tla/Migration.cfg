\* A wallet with money on the retired contract deposits twice, by the record or
\* by CONTRACT, while it exits; false zeros and interruptions anywhere.
SPECIFICATION MigrationSpec
CONSTANTS
    Deposits = {1}
    Earned = {1}
    Locks = {0}
    MaxLies = 1
    MaxDeaths = 1
    MaxFlights = 2
    Funds = 1
    Amount = 1
    MaxDeposits = 2
INVARIANTS
    LeftBehindCameLate
    CreditIsThisRuns
PROPERTIES
    EverythingComesHome
