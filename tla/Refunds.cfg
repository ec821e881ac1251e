\* Refund requests of one user who keeps claiming, racing settlement, the stop
\* and changes of the delay.
SPECIFICATION FairSpec
CONSTANTS
    alice = alice
    bob = bob
    provider = provider
    deployer = deployer
    lost = lost
    fil = fil
    usd = usd
    NoOne = NoOne
    Accounts = {alice, provider}
    Signers = {alice, provider}
    Deployer = provider
    NATIVE_TOKEN = fil
    Erc20s = {}
    FeeOnTransfer = {}
    Rejecting = {}
    Nominees = {}
    Times = {0, 1}
    Hashes = {h1, h2}
    Batches <- RefundBatches
    Payers = {alice}
    Payments = {1, 2}
    Strays = {}
    Fees = {3000}
    Delays = {0, 1}
    Freezes = {0}
    Caps = {}
    MaxUint192 = 100
    MaxHoldings = 3
    MaxRequests = 2
INVARIANTS
    TypeOK
    BooksMatchHoldings
    LocksMatchRequests
    OneRecordPerBatch
    PauseTrapsNothing
PROPERTIES
    ImplementsPrepaidLedger
    RefundsGetPaid
    OnlySettlementOutrunsLocks
    RefundTermsHold
    FundedUsersPayInFull
    RecordTellsWhatWasCharged
