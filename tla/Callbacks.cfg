\* FIL and an ERC20 that takes a fee on transfer; an owner, user and provider
\* whose code calls back, and an account whose code refuses FIL.
SPECIFICATION CallbackSpec
CONSTANTS
    alice = alice
    bob = bob
    provider = provider
    deployer = deployer
    lost = lost
    fil = fil
    usd = usd
    NoOne = NoOne
    Accounts = {alice, bob}
    Signers = {alice, bob}
    Deployer = alice
    NATIVE_TOKEN = fil
    Erc20s = {usd}
    FeeOnTransfer = {usd}
    Rejecting = {bob}
    Contracts = {alice, bob}
    Nominees = {}
    Times = {0}
    Hashes = {h1}
    Batches <- CallbackBatches
    Payers = {alice}
    Payments = {5}
    Strays = {}
    Fees = {3000}
    Delays = {0}
    Freezes = {1}
    Caps = {}
    MaxUint192 = 100
    MaxHoldings = 10
    MaxRequests = 2
INVARIANTS
    NobodySeesHalfAPayment
PROPERTIES
    CallbacksAreTransactions
