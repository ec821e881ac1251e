\* Two-step ownership, rotation of operator and arbiter, an address that nobody
\* signs for nominated for each, pause, fee and freeze changes, an ERC20, strays:
\* who may do what with a settled and partly frozen amount, and whether money
\* ever moves as the prepaid ledger does not allow.
SPECIFICATION Spec
CONSTANTS
    alice = alice
    bob = bob
    provider = provider
    deployer = deployer
    lost = lost
    fil = fil
    usd = usd
    NoOne = NoOne
    Accounts = {bob, deployer, lost}
    Signers = {bob, deployer}
    Deployer = deployer
    NATIVE_TOKEN = fil
    Erc20s = {usd}
    FeeOnTransfer = {}
    Rejecting = {lost}
    Nominees = {bob, lost, NoOne}
    Times = {0, 1}
    Hashes = {h1}
    Batches <- RoleBatches
    Payers = {deployer}
    Payments = {4}
    Strays = {4}
    Fees = {3000, 3001}
    Delays = {1, 2592001}
    Freezes = {0, 1, 7776001}
    Caps = {0, 1}
    MaxUint192 = 100
    MaxHoldings = 4
    MaxRequests = 0
INVARIANTS
    RolesStayInReach
    PauseTrapsNothing
PROPERTIES
    ImplementsPrepaidLedger
