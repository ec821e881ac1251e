\* The operator submits a processed batch again.
SPECIFICATION Spec
CONSTANTS
    alice = alice
    bob = bob
    provider = provider
    deployer = deployer
    lost = lost
    fil = fil
    usd = usd
    NoOne = NoOne
    Accounts = {alice, provider}
    Signers = {alice, provider}
    Deployer = provider
    NATIVE_TOKEN = fil
    Erc20s = {}
    FeeOnTransfer = {}
    Rejecting = {}
    Nominees = {}
    Times = {0, 1}
    Hashes = {h1, h2}
    Batches <- RefundBatches
    Payers = {alice}
    Payments = {1, 2}
    Strays = {}
    Fees = {3000}
    Delays = {0, 1}
    Freezes = {0}
    Caps = {}
    MaxUint192 = 100
    MaxHoldings = 3
    MaxRequests = 2
INVARIANTS
    ReplaySucceeds
