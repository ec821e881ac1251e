# OpenModel settlement: a verification development

TLA+ models of `contracts/OpenModelSettlement.sol` and of the programs that
deploy it, leave its predecessor and check its records; the TLC configurations
that check them on small instances; and TLAPS proofs, for every value of the
constants, about the contract, the ledger it implements, calls nested in its
payments, the earnings freeze and the loops that compute it, the settlement
arithmetic, the scripts, the drills and the receipt verifier.

Users prepay FIL or stablecoins into the contract. Off chain a gateway serves
requests and collects what they cost; its operator key submits batches, each
identified by a hash of its details. A batch moves amounts from users to
service providers, less a fee for the platform. What providers earn may be
frozen for a dispute window, during which an arbiter can confiscate it. Users
take their balance back through refund requests behind a timelock. Anybody can
check with a script that the charge for a request is committed on chain.

Sections: [the system](#the-system), [modules](#modules),
[runs](#runs), [fairness](#fairness), [proofs](#proofs),
[disagreements](#where-code-and-words-disagree),
[not modelled](#what-is-not-modelled), [plan](#plan).

## The system

| Part | State | Operations | What makes it correct |
|---|---|---|---|
| Prepaid balances | `balances`, `supportedTokens`, what the contract owns | `depositFIL`, `depositToken`, `receive` | every credited unit arrived; the books equal the holdings |
| Refunds | `lockedForRefund`, `refundRequests`, `refundNonce`, `refundDelaySec` | `requestRefund`, `claimRefund`, `cancelRefund` | a lock is the sum of its pending requests; a request keeps its terms and ends once; settlement comes first; who keeps asking is paid |
| Batch settlement | `settlements`, `settlementNonce`, `processedBatches`, cumulative statistics | `submitSettlement` | a batch counts once; whoever has the funds is charged in full; the record tells what was charged |
| Earnings freeze | `spEarnings`, `spLockups`, `spLockupCursor`, `earningsFreezeSec` | `_creditEarnings`, `_matureLockups`, `matureEarnings`, `withdrawEarnings`, `confiscateFrozenEarnings`, three views | no early unlock, release in order, exact confiscation, nothing lost, a bounded queue, an end |
| Platform pool | `platformEarnings`, `platformFeeBps` | `withdrawPlatformEarnings`, `setPlatformFee` | fee and share add up to the amount; only fees and forfeits get in |
| Roles and stop | `owner`, `pendingOwner`, `operator`, `arbiter`, `paused` | two-step ownership, `setOperator`, `setArbiter`, `pause`, `unpause`, settings | no role gets out of reach; a pause traps nothing |
| Mainnet deployment | chain, `deployments/*.json` | `mainnet-deploy.js`, `mainnet-finish.js` | the operator comes last; resuming completes |
| Exit from the retired contract | the wallet's state on that contract | `old-contract-exit.js status, exit, claim` | nothing is taken for withdrawn that is not |
| Receipt verifier | one run of five checks | `verify-receipt.py` | VERIFIED means committed; a failure is evidence |
| Mainnet deposit | the wallet's balance on the contract it names | `mainnet-deposit.js` | a credit is the run's own, on a settlement contract; what lands in the retired contract comes back |
| Calibration drills | owner, operator, stop and fee of the long-term contract | `calib-operator-rotation.js`, `calib-contract-edgecases.js`, `calib-verify-newcontract.js` | what a drill changes it restores, also when interrupted |
| Calibration deploy, readers | – | the other `scripts/*.js` | – |
| Gateway | batches, carried debts, trees, ledger | not in the repository | – |

How they interact. The parts of the contract share storage and run one
transaction at a time: refunds and settlement meet on `balances`, settlement
and the freeze on `spLockups`, the freeze and the platform pool in a
confiscation. Tokens and recipients are called from inside a transaction: a
transfer may deliver less than asked, or be refused. The scripts talk to the
chain through RPC endpoints that answer late, wrongly or not at all; what a
script has sent outlives the script. A recipient that is a contract runs inside
the payment and may call the settlement contract back. The deposit script and the
exit script share a wallet, its nonces and, while the deployment record is
outdated, the retired contract. The deployment decides by the order of its
steps when the gateway may begin to settle.

What is hard here:

- refund requests, claims and cancellations of several requests, between the
  planning of a batch and its mining, and while the owner changes the delay;
- one user in several items of a batch, items that fail while others land;
- the lockup queue under changes of the window: unlock times that are no longer
  ordered, merges at bucket boundaries, holes left by a confiscation, capped
  maturation by strangers between any two steps;
- rounding: of the fee, of the bucket width, of unlock times, a `uint192`;
- the stop and role changes in any state, with roles held by different people;
- scripts that die between two steps and start again while what they sent is
  still in flight; false answers of an endpoint; retries;
- recipients that call back in the middle of a payment;
- a deposit that goes to the contract its owner is just emptying, or to none;
- addresses that nobody signs for, in a role or as a recipient;
- drills that change a shared contract and are interrupted before they restore it;
- proof material that does not belong together, and odd nodes in Merkle trees.

## Modules

| Module | Models | Uses |
|---|---|---|
| `Amounts` | sums of amounts over finite sets, as cardinalities of sets of units | |
| `SettlementMath` | fee split, bucket width, unlock time | |
| `LockupQueue` | the queue of frozen earnings: what maturing, capped or not, seizing and crediting make of it, and the views | `Amounts`, `SettlementMath` |
| `LockupWalks` | the contract's loops over the queue, compared with `LockupQueue` | `LockupQueue` |
| `EarningsFreeze` | one queue over time, with a history of every credit | `LockupQueue` |
| `SettlementCadence` | the length of the frozen span under one window | `SettlementMath` |
| `PrepaidLedger` | the abstract specification: what the contract promises about money | `Amounts` |
| `OpenModelSettlement` | the whole contract, one action per external function | `LockupQueue`, refines `PrepaidLedger` |
| `SettlementCallbacks` | payments statement by statement, with the calls a recipient makes inside them | `OpenModelSettlement`, which it refines |
| `Deployment` | the two mainnet deployment scripts and the chain between them | |
| `OldContractExit` | the exit script, the retired contract, the endpoint that lies | `Amounts` |
| `Migration` | the deposit script beside the exit script, with the new contract's books | `OldContractExit` |
| `CalibrationDrills` | three drill scripts, the two keys they use, and the contract they change | |
| `VerifyReceipt` | the receipt verifier, the batches it checks, gateway and endpoint | |
| `MCEarningsFreeze`, `MCOpenModelSettlement` | values of constants for TLC | |
| `LockupQueueTheorems` | theorems and lemmas about sums, the arithmetic and the queue | `LockupQueue` |
| `EarningsFreezeProofs`, `OpenModelSettlementProofs`, `SettlementCallbacksProofs`, `DeploymentProofs`, `MigrationProofs` | theorems and proofs | the module they are named after, and the lemmas |
| `LockupProofs` | theorems about the loops and the frozen span | `LockupWalks`, `SettlementCadence`, and the lemmas |
| `ScriptProofs` | theorems about the drills and the verifier | `CalibrationDrills`, `VerifyReceipt`, and the lemmas |

### OpenModelSettlement

Variables carry the names of the contract's storage. A mapping is a function
over `Accounts` and `Tokens`; a sequence stands for a mapping from ids with its
nonce (`refundRequests[1..refundNonce]`, `settlements[1..settlementNonce]`); a
mapping to booleans is a set. Two variables are not storage: `holdings`, what
the contract owns according to the chain and the tokens, and `uncredited`,
the part of it that arrived without running the contract's code (a method-0
send, a direct ERC20 transfer).

A transaction is atomic, so each external function is one action with
`msg.sender` as its parameter; a revert is a disabled action; `block.timestamp`
is `now`, which only grows. `SubmitSettlement` runs the loop over the items
inside the action: `Loop` is a recursive function over the positions of the
batch that carries the storage the loop writes and its tallies, `SettleItem`
skips or charges one item, and a share that does not fit a `uint192` marks the
whole batch as reverted. A transfer of a fee-on-transfer token delivers any
amount up to what was asked for; a recipient in `Rejecting` refuses FIL and
thereby reverts what pays it. `Signers` are the accounts that send transactions,
the deployer among them; the others are addresses that can be named, as a
recipient or by mistake as a nominee, and act in no role they are given.

The queue is handled by sets. `Releasable` are the live entries with no frozen
entry up to them, `Released` those a walk with a cap takes, `Frozen` those a
confiscation takes. That the `while` and `for` loops of the contract compute
exactly this is not assumed: `LockupWalks` has them pass by pass, TLC compares them on
every small queue, and `LockupProofs` proves that they agree on every queue.

### EarningsFreeze

One provider and one token, with the operations of the freeze only. `credits`
is a history the contract does not keep: every credit with its amount, when and
under which window it was made, the entry it went to and its fate. It lets the
properties speak of credits, while the contract only knows merged entries. The
queue does not tell which window an entry was made under, so the floor of a
freeze cannot be stated over the queue alone.

### SettlementCallbacks

The state of `OpenModelSettlement` and `call`, the function that pays while it
runs. The three functions that pay are cut into what the code does: the guard
and the checks (`Enter...`), the writes (`Write`), the transfer (`Pay`), the
calls the recipient makes (`CallBack`), its return, and the end. `Statements` is
the order of writes and transfer. Inside a payment any function without
`nonReentrant` may be called, by any contract, any number of times; those with it
refuse. `submitSettlement` is `nonReentrant` and pays nobody, so it stays one
action. The functions that do not pay are the actions of `OpenModelSettlement`,
and so are the expressions for checks and writes (`Claimable`, `BookClaim`,
`BookWithdrawal`...), which both modules use.

A recipient that refuses in the end undoes the transaction and everything called
within it. The steps are those of transactions that go through, which is why
`Enter` asks whether the recipient accepts.

### PrepaidLedger

The promise: users prepay, usage moves funds from users to providers and, within
the fee bound, to the platform, what leaves the vault leaves from one account's
funds or the platform's, and a provider forfeits to the platform only. There are
no requests, freezes, batches, roles or settings. `OpenModelSettlement`
implements it under the mapping `provider = spEarnings + what is locked up`,
`vault = holdings - uncredited`: everything about locks, maturing and roles is a
stuttering step.

### Deployment

A contract is the set of things done to it; `flights` are transactions sent and
not mined, in the order of their nonces; `run` is the running script with its
step, what it waits for and its attempt. `Mine` and `Lose` decide what becomes
of the oldest and of any flight; `Resume` starts `mainnet-deploy.js` with
`SETTLEMENT_ADDRESS`, `StartDeploy` without. `doing = "poll"` is the case in
which the node gave another hash, and the script polls for the effect instead.
A script ends by `GiveUp` when its transaction was reverted or lost or the poll
is over, and by `Die` at any other point.

### OldContractExit

The chain part is the retired contract for one wallet: earnings, balance,
requests with a timelock. It is not in the repository; the model keeps what the
script relies on. The script reads three figures one by one, each of which the
first endpoint may answer as zero, confirms zeros at another endpoint, withdraws,
requests the difference and, in a later run, claims. The person starts `exit`
until one run of it ends well, and after that `claim` for any request.

A run that ends forgets everything: `s` and `claiming` are reset.

### Migration

`OldContractExit`, in which `flights` now also holds deposits: one wallet has one
sequence of nonces. `d` is the running deposit with its contract and the balance
it read; `credited` is the wallet's balance on the new contract. The address comes
from `CONTRACT` or from a record that "still names the OUTGOING instance for a
while": it is the retired contract's, the new one's, that of any other contract,
or one without code. The script refuses only the last; another contract answers no
balance, which reads as zero, and reverts on the deposit or keeps it. A balance is
the best of the endpoints' answers, and so the right one or zero. `Paid` is what
of a mined deposit leaves the wallet. `late` is a history: what was deposited in
the retired contract since the exit script last read the balance there.
`ExitAgain` is the person who makes sure.

### CalibrationDrills

A drill is a sequence of calls, each with its key and whether it has to be
refused. A call is estimated when it is made and not sent if it would revert; a
transaction may revert all the same when it is mined. `Repeat` is `withRetry`
after a lost answer: the call is made again while the first is in flight. `Die`
is an interruption. The fee and `pendingOwner` are kept because the edge-case
drill changes them, against its intention: see
[below](#where-code-and-words-disagree).

### VerifyReceipt

A hash is the value it was made of, so two hashes are equal exactly when their
preimages are: collisions are left out. Batch 1 holds the request among its
leaves, batch 2 is one that never got on chain. A proof names for each of
its pieces (record, leaf with index, path, root, details) where it was taken
from, so that the gateway can mix right and wrong pieces in every way. The four
offline checks and the chain check follow the script, including that they all
run whatever the ones before said, and the ways a run can end: 0, 1, 3 and 4,
with the 1 of an uncaught exception among them. `installed` is whether the person
has the package that verifies signatures; without it a row with a signature fails
the first check, and one without passes it.

## Runs

`tlc -config X.cfg M`, each within three minutes on two workers. Bounds are
constants named in the modules (`Max...`) or sets of inputs in the `.cfg`.
Deadlock is checked except where a person has nothing left to do (the exit
script and the verifier).

**lockup_walks** (`LockupWalks`, 8,775 states). Do the loops of the contract
compute what the queue operators say? Every queue of up to four entries, times
up to 2, amounts up to 2, every cursor, every cap up to 2 and none: a loop
distinguishes an empty, a frozen and a matured entry, and four positions suffice
for every order of them around a cap. `LoopsComputeTheQueue` compares the loops,
`ViewsForecastTheWithdrawal` the views with what a withdrawal would pay,
`ChunksAddUp` chunked with unchunked maturation.

**earnings_freeze** (`EarningsFreeze`, 365,505 states). Every order of credits,
window changes, capped and uncapped maturations, withdrawals and confiscations.
Three credits are the fewest for a merge behind a hole, or a frozen entry
between matured ones; a window of 16 seconds has buckets of 2, a window of 1
has none, 0 bypasses the queue; times 0, 1, 16 and 17 lie on both sides of
bucket bounds and of each window's end; amounts of 1 and 2 under a limit of 3
reach the `uint192` guard. `NothingUnlocksEarly` is the floor of the freeze;
`FrozenCreditsReleaseInOrder` its order; `ConfiscationIsExact` says whom the
arbiter can reach; `EntriesHoldTheirCredits` and `EarningsAccountedFor` that
nothing is mixed up or lost; `MaturedEarningsAreSafe` that withdrawable earnings
stay so; `FreezeEnds` that each freeze has an end. The bound on time ends
behaviours, so `FreezeEnds` speaks of credits that unlock within it.

**settlement_cadence** (`SettlementCadence`, 620,836 states). How long does the
frozen span get? Every cadence over 30 seconds, for windows without buckets (1,
7), with buckets that fit (8, 16, 24) and that do not (15, 17). `SpanBounded` is
nine entries, plus `freeze % 8` where the division leaves a rest: for 15 seconds
the bucket is one second wide and the span reaches 16.

**refunds** (`OpenModelSettlement`, 523,740 states). One user, two requests, two
batch hashes, delays of 0 and 1, the stop, a fee of 30 % that rounds to 0 of what
is charged here, a batch of two items of the same user of which the second may
find too little. `LocksMatchRequests` says that locks neither underflow nor leave
residues; `OnlySettlementOutrunsLocks` who may bring a balance below its locks;
`RefundTermsHold` that requests keep their terms; `FundedUsersPayInFull` that
settlement has priority; `RecordTellsWhatWasCharged` that records and statistics
are true; `OneRecordPerBatch` that a batch counts once; `BooksMatchHoldings` that
every claim is covered; `RefundsGetPaid` that a user who keeps asking is paid;
`PauseTrapsNothing` that the stop never keeps a refund that is due, or falls due
under it, from being claimed; `ImplementsPrepaidLedger` that all this is one
ledger (with fees and freezes: run roles). Two requests suffice for one to be
released while the other holds its lock; two hashes for one batch to be processed
and one fresh.

**callbacks** (`SettlementCallbacks`, 612,272 states). FIL and an ERC20 that takes
fees; an owner, user and provider whose code calls back, and a provider that
refuses FIL. The batch owes the first FIL, so that all three paying functions can be
entered with something owed by the other two, and the second FIL, which it cannot be
paid, and the ERC20, which it can. The fee of the first item is 1 of 4.
`NobodySeesHalfAPayment`: wherever code other than the contract's runs, the books
equal the holdings and the locks their requests. `CallbacksAreTransactions` is the
refinement: the nested calls might as well have been made afterwards.

**roles** (`OpenModelSettlement`, 118,368 states). Two people and an address that
nobody signs for and that refuses FIL; every transfer of ownership, operator and
arbiter, to that address and to `NoOne` included; settings on both sides of their
limits, an ERC20 on and off the whitelist, pauses, FIL and ERC20 sent past the
code, chunks, confiscations, and batches with a frozen share, a charge too small
for a fee and an item without a provider. Times 0 and 1 are before and after a
freeze of 1. Refunds are left to the runs refunds and callbacks: a request would
multiply every state of the roles.
`RolesStayInReach`: somebody who can sign can lift the stop, pay out the fees and
confiscate frozen earnings, after replacing an arbiter that cannot sign if need be.
This is what two-step ownership is for: with one step the owner is lost to a mistyped
address. `PauseTrapsNothing`: while paused, matured earnings can be withdrawn, also
where a window ends under the stop, where only a part has been matured by a chunk,
and after a confiscation; refunds that are due under the stop are in the run
refunds. `ImplementsPrepaidLedger` is the refinement of the abstract ledger, here
with fees, freezes, forfeits and strays; the run refunds has it with refunds.

**deployment** (`Deployment`, 144,988 states). Both scripts, with and without an
operator address, two contracts, two flights, two attempts, one interruption
besides the failures a script has by itself. Two contracts let a run go on with
the wrong one, two flights let an old transaction land in a later run.
`OperatorComesLast` says that `mainnet-deploy.js` sends `setOperator` only to a
contract that freezes and accepts its token; `DeploymentCompletes`, contract by
contract, that resuming gives each one all its settings, those included on which
`mainnet-finish.js` appointed the operator first, and each its own staging record
unless the gateway has used that same contract. Neither says that the gateway waits
for the freeze: `mainnet-finish.js` does not look whether there is one.

**migration** (`Migration`, 224,958 states). One unit of balance and one of
earnings on the retired contract, one in the wallet; two deposits to any
address, one false zero, one interruption, two flights. Two deposits are the
fewest for a late one of an earlier run to be taken for the own, or for one to
arrive after the exit has ended. `CreditIsThisRuns`: "deposit credited" is said of
the deposit this run made, on one of the two contracts, and never of money that
another contract kept. `LeftBehindCameLate`: an exit that ends well leaves nothing
behind but what was deposited after it had read the balance (the false zero
beside a lock excepted: run false_zero). `EverythingComesHome`: with a person who
looks again, all of it comes off the retired contract.

**drills** (`CalibrationDrills`, 7,296 states). Three drills in any order, with
two lost answers and two interruptions: one for a rotation that dies in between,
one for the rotation that is to repair it. `RotationRestores`: a rotation that
comes to its end leaves the operator for good, with no call in flight that would
take the role away again. `OperatorComesBack`: however often it is interrupted,
repeating it restores the operator. `TheStopIsLifted`: undisturbed, the pause
drill lifts what it raised.

**receipts** (`VerifyReceipt`, 155,136 states). Batches of one leaf and of three,
the latter with an odd node below the root, every position in them, every mixture
of pieces, every answer of the endpoint, with and without the package. The
theorems about the first two properties are for batches of every size.
`VerifiedIsCommitted` says what VERIFIED means; `FailureIsEvidence` that an honest
proof of a good signature fails only through the endpoint or for want of the package;
`VerifiedInTheEnd` that patience is rewarded.

Two runs end with a counterexample, see [below](#where-code-and-words-disagree):
**replay** (a processed batch submitted again) and **false_zero** (a balance
read as zero while part of it is locked).

## Fairness

- `EarningsFreeze`: weak fairness of `Tick` alone. Blocks keep coming; nobody
  has to settle, mature or withdraw for a freeze to end.
- `OpenModelSettlement` (run refunds): weak fairness of `Tick` and, for each
  request, of `ClaimRefund`. The user keeps claiming; the owner and the operator
  owe nothing, may stay paused for ever and settle at any time. Weak fairness is
  enough because nobody but the user or a settlement disables a due claim.
- `Deployment`: strong fairness of `Mine`, since a transaction may be lost each
  time and is sent again; strong fairness of `Resume` of each contract, since the
  person resumes what was deployed although other runs come in between; weak
  fairness of the scripts' own steps and of giving up, since a script that is not
  interrupted runs on and its waits are bounded.
- `Migration`: weak fairness of time, mining and the steps of the exit script; the
  person starts `exit` again until it ends well, makes sure afterwards, and runs
  `claim` again and again with each id (strong: other runs come in between).
  Nothing is assumed of the deposit script.
- `CalibrationDrills`: weak fairness of calls and mining; strong fairness of
  starting a rotation, which the person repeats although other drills come in
  between.
- `VerifyReceipt`: weak fairness of the settlement and the checks; strong fairness
  of trying again with the package, whose absence the script names together with
  the command that installs it; strong fairness of an honest proof, and of the
  endpoint answering for one. Nothing is assumed of the rest: gateway and endpoint
  may fail any number of times in between.

## Proofs

TLAPS proves the following for every value of the constants. The assumptions are
those the modules name. About the freeze: times, windows, amounts and caps are
natural numbers and 0 is among the windows. About the contract: there are
finitely many accounts and tokens, address(0) is no account and FIL no
ERC20, the deployer and whoever pays in can sign (`AccountsAssumption`,
`TokensAssumption`); times, amounts and settings are
natural numbers (`NumbersAssumption`); a batch is a sequence of items
(`BatchesAssumption`); the accounts with code send transactions
(`ContractsAssumption`). About the loops and the frozen span: their bounds are
natural numbers and a window is not 0 (`WalkBounds`, `CadenceAssumption`). About
the scripts: amounts and bounds are natural numbers, a deposit is not of nothing
(`DeploymentAssumption`, `ExitAssumption`, `MigrationAssumption`), the two keys of
the drills are different (`DrillsAssumption`), and a batch with the request in it is
not empty (`VerifyReceiptAssumption`). None is about sizes: the number of users,
providers, tokens, requests, batches, items and credits, their amounts, the length
of the queues, the leaves of a batch, and the numbers of runs, interruptions,
false zeros and transactions in flight are arbitrary.

| Theorem | Says |
|---|---|
| *The contract* (`OpenModelSettlementProofs`) | |
| `TypesHold` | `TypeOK`: no subtraction underflows, no lockup exceeds a `uint192` |
| `LocksAlwaysMatch` | `LocksMatchRequests` |
| `BatchesRecordedOnce` | `OneRecordPerBatch` |
| `RefundTerms` | `RefundTermsHold` |
| `LocksOutrunBySettlementOnly` | `OnlySettlementOutrunsLocks` |
| `RecordTells` | `RecordTellsWhatWasCharged` |
| `FundedPayInFull` | `FundedUsersPayInFull` |
| *Its money* (`OpenModelSettlementProofs`) | |
| `ContractIsPrepaidLedger` | `ImplementsPrepaidLedger`, the refinement |
| `BooksAlwaysMatch` | `BooksMatchHoldings` |
| `ClaimsAreCovered` | what is owed to any user, any provider and the platform is there at once |
| *Its roles* (`OpenModelSettlementProofs`) | |
| `OwnerAlwaysSigns` | the owner can sign, whoever was nominated: the part of `RolesStayInReach` that does without `ENABLED` |
| *Calls inside payments* (`SettlementCallbacksProofs`) | |
| `NoHalfPayments` | `NobodySeesHalfAPayment` |
| `CallbacksGainNothing` | `CallbacksAreTransactions`, the refinement |
| *The freeze* (`EarningsFreezeProofs`) | |
| `TypeCorrect` | types, and that no entry exceeds a `uint192` |
| `QueueShapeHolds` | nothing is left behind the cursor; deleted entries have no unlock time |
| `FreezeIsAFloor` | `NothingUnlocksEarly` |
| `FrozenCreditsInOrder` | `FrozenCreditsReleaseInOrder` |
| `ConfiscationExact` | `ConfiscationIsExact` |
| `EarningsAreAccountedFor` | `EarningsAccountedFor` |
| `MaturedEarningsSafe` | `MaturedEarningsAreSafe` |
| `EntriesHoldCredits` | `EntriesHoldTheirCredits` |
| *The loops and the span* (`LockupProofs`) | |
| `LoopsAlwaysComputeTheQueue` | `LoopsComputeTheQueue`: queues of any length, any cursor, time and cap |
| `ViewsAlwaysForecast` | `ViewsForecastTheWithdrawal` |
| `ChunksAlwaysAddUp` | `ChunksAddUp` |
| `SpanIsBounded` | `SpanBounded`: `SettlementCadence` with any windows and any end of time |
| *The scripts* (`DeploymentProofs`, `MigrationProofs`) | |
| `OperatorIsLast` | `OperatorComesLast` |
| `CreditsAreTheirRuns` | `CreditIsThisRuns` |
| `OnlyLateIsLeft` | `LeftBehindCameLate` |
| *The drills and the verifier* (`ScriptProofs`) | |
| `RotationAlwaysRestores` | `RotationRestores` |
| `VerifiedMeansCommitted` | `VerifiedIsCommitted`: batches of any size, any position, any mixture of pieces |
| `FailureMeansEvidence` | `FailureIsEvidence` |
| *The arithmetic* (`LockupQueueTheorems`) | |
| `FeeSplitsAmount` | fee and share are naturals that add up, at every permitted fee |
| `UnlockTimeRoundsUp` | an unlock time is at or after the end of the window, by less than a bucket |
| `WindowIsWithinAnEighth` | rounding adds less than an eighth of the window |

### The contract

The inductive invariant is

    Inv == TypeOK /\ QueuesFit(spLockups) /\ LocksMatchRequests /\ OneRecordPerBatch

The types alone are not inductive. That a claim or a cancellation leaves the lock
a natural number needs `LocksMatchRequests`: the lock is a sum in which the
request is a term. That maturing or seizing leaves a queue with natural amounts
and a cursor within it needs `QueuesFit`: nothing is left behind the cursor, and
the cursor is within the queue. `StepKinds` reduces a step to ten operations, so
that every property is proved for these ten and not for twenty-odd functions.

`submitSettlement` runs a loop. `LoopUnfolds` says that the recursive function
`Loop` is what its body says at every position; that there is such a function at
all (`LoopExists`), and every other induction over the loop, is an induction over
a set of positions (`SetInduction`, `IntervalInduction`). `ItemEffect` is what one
item does, `LoopRuns` what holds before and after each item. `RecordTells` needs a
witness, the set of charged items: `ChargedItems` collects the positions at which
the loop found enough, and `LoopTallies` shows, item by item, that the tallies of
the loop are sums over that set. `FundedPayInFull` follows from it: a user with
enough for all of its items has enough at each of them.

### Its money

`MoneyMoves` gives one account of all steps: each is a prepayment (a refund is one
of less than nothing), usage, a payment to a provider, a payment of the platform
pool, a forfeit, or leaves the money alone. Both theorems follow from it. In
`LedgerStep` each kind of move is an action of `PrepaidLedger` or a stutter; the
bound on the platform's share of a batch comes from `FeeSplitsAmount`, item by item
(`UsageAddsUp`). In `MovesBalance` no kind of move changes the difference between the
vault and the sum of all claims. `BooksAlwaysMatch` says more than the
refinement: the ledger bounds what each step takes, the books say that all of it
is there. `ClaimsAreCovered` draws the conclusion for `_transferOut`.

### Calls inside payments

The invariant `CallbackInv` is not about what the contract owns but about `Kept`,
what it owns and has not written off yet: in terms of `Kept` the invariant of the
contract and the equality of books and holdings hold even between the writes and
the transfer. Besides these it says that a call that has not written yet still
passes its checks (`Checked`); nothing runs in between that could change that.
Then `Write` is the whole payment of the contract (`WriteIsTransaction`, with the
funds for it there by `BooksCover`), `Pay` a stutter (`PayIsNoTransaction`), and what
a recipient calls a step of the contract, because nothing is outstanding while it
runs (`QuietIsTransaction`). What is proved of the contract is used twice, for the
contract as it is and, through `Whole`, for the contract with `Kept` in place of
its holdings; lemmas named `Same...` say where the two agree.

### The freeze

The floor and the order are not inductive. A maturation looks only at unlock
times; that an entry whose time has come holds no credit with an open window
follows only if one remembers when the credits in it were made. So the inductive
invariant is

    Inv == TypeOK /\ QueueShape /\ History(credits, spLockups, spLockupCursor, now)

where `History` places every credit: the entry it went to exists; a frozen
credit is in a live entry past the cursor that unlocks at or after its window's
end, by less than a bucket; a released one is behind the cursor with its window
over; a seized one is in an emptied entry; and later credits are never in front
of earlier ones. Each operator of the queue has a lemma in
`LockupQueueTheorems` about what it returns (`MaturedEntries`, `SeizedIsAQueue`,
`PushedIsAQueue`...), and `EarningsFreezeProofs` has one about how each keeps the
history (`MaturingKeepsHistory`, `SeizingKeepsHistory`, `PushingKeepsHistory`).
`NextInv` puts them together, one step per action.

The accounting is proved on top of it. A sum is defined as the number of units
it consists of (`Amounts`), not by recursion: facts about finite sets are then
facts about sums, and no induction over a recursive definition is needed.
`LockupQueueTheorems` has the laws of sums, and `MaturingConserves`,
`SeizingConserves` and `PushingConserves` say that an operator takes out of the
queue what it says it does; the books of the whole contract rest on the same
three. `MaturedEarningsSafe` needs one fact more about each: that it does not lower
what is releasable (`MaturingReleases`, `PushingWithholds`, `WaitingReleases`).
`EntriesHoldCredits` compares each entry with the sum of its frozen credits
(`Holds`): a credit adds one term to one sum (`CreditingHolds`), and an emptied entry
loses all of them (`EmptyingHolds`).

### The loops and the span

Each loop is a recursive function from the cursor to the end of the queue, which
applies one pass of the code to each entry. The proof says in closed form what the
loop has after each entry (`MaturedUpto`, `SeizedUpto`, `WithdrawableUpto`,
`FrozenUpto`, `TotalUpto`), in the terms of `LockupQueue` cut off at that entry; that
one pass goes from one closed form to the next (`MaturePassGoesOn`,
`SeizePassGoesOn`...); and that a function with this start and these steps exists,
so that the recursive definition is one (`LoopInduction`). The closed form at the end
of the queue is the operator. For a capped maturation this needs to know how many
entries are taken (`CapBounds`) and where the cursor stops (`CursorStops`): at the
last entry released, or behind the deleted entries in front of the first frozen one.
The invariant, `WalkInv`, is that a queue is one the contract can hold.
`ViewsAlwaysForecast` adds that withdrawable and frozen parts make up the total
(`ViewsAddUp`), and that a full maturation leaves exactly the blocked entries
(`MaturingAllLeavesFrozen`); `ChunksAlwaysAddUp` rests on `ChunkThenRest`: what a
chunk does not release, the rest does.

`SpanIsBounded` counts buckets. `SettlementCadence` is a model of its own, in which
only unlock times matter; its invariant says that each lies after now, at the
end of a bucket no later than the one a credit made now would go to. The numbers
of these buckets tell the entries apart (`SpanOfBuckets`), so there are no more
entries than buckets between the two, and `BucketsInReach` says how many these
are.

`FreezeIsAFloor` and `UnlockTimeRoundsUp` do not bound the timestamp. The
contract truncates an unlock time to 64 bits without a check; with a window of at
most 90 days this is out of reach of any timestamp a chain will have.

### The scripts

`DeploymentProofs` has to know where a run of `mainnet-deploy.js` stands: the
steps behind it are done on its contract (`StepsInOrder`), which nobody undoes, and
the transaction it waits for is the one of its step on its contract
(`WaitsForItsOwn`). The second part is what makes the first inductive: a run goes
on when *a* transaction is mined, and late ones of runs that died are in the same
queue. `mainnet-finish.js` is in the invariant too, but not in `StepsInOrder`: it
appoints the operator and does not look at the other settings.

In `MigrationProofs`, `OneDepositARun` says which deposits can be in flight when a
run sends, waits and reads, and `OthersShowNothing` that a balance read of any
other contract is zero before and after. For what an exit leaves behind,
`LateExplains` compares at every point of the script what is on the contract
outside of requests with what the script has read and with `late`. A transaction
of the exit that is mined late, from a run that died, can only lower it
(`LandsTakesOut`); a deposit raises it by what it adds to `late`; everything else
leaves it alone (`Beside`). One disjunct is left for a false zero of the balance:
`confirmZero` catches it, except where a lock hides it. `AwaitsItsOwn` is needed
because what the run requests is subtracted when its request is mined, and it has
to be its own.

### The drills and the verifier

A rotation that ends well leaves the operator alone only if nothing is in flight
that would take the role away. `DrillsInv` says why nothing is: a drill that runs
stands at one of its calls, and if it waits, that call is the last in flight of its
key. The rotation ends when its last call is mined, and then the queue of the
owner's calls is empty (`MineInv`, `OnwardEnds`), those repeated after a lost answer
and those of runs that died included. The operator changes by no other key's calls.
`call` depends on the drill and the step only, so the invariant names them and not
what is sent.

`VerifierInv` says of each check that is behind the script that it held, if none
has failed; that an honest proof of a good signature fails none but for want of
the package (`PackageMissing`); and that such a proof exists only for a batch that
is committed. The rest is about trees, for batches of any size. A tree is climbed
level by level (`ClimbUnfolds`), each level is nonempty and smaller than the one
below it, and the number of steps in `Climb` is enough to reach a single node
(`LevelsShrink`). *No false alarm*: folding a leaf with its own path gives at each
level the node at its position there, also where an odd node is paired with
itself, and so the root in the end (`PathFoldsToRoot`). *No false comfort*:
whatever is in the tree is a leaf or a node whose two children are in it
(`TreeHasChildren`); going back from the root through any proof, with any index,
every hash on the way is in the tree, and the one at the start, which is no node,
is a leaf (`FoldingFindsALeaf`). So a mixture of pieces of different batches
passes only if the leaf is in the batch of that root. This rests on hashes being
injective (`NodesAreInjective`) and on leaves not being nodes (`LeafIsNoNode`):
the script hashes both with the same function, and the model tells them apart by
what was hashed.

### Only model-checked

Liveness under fairness (`FreezeEnds`, `RefundsGetPaid`, `DeploymentCompletes`,
`EverythingComesHome`, `OperatorComesBack`, `TheStopIsLifted`,
`VerifiedInTheEnd`) and the invariants with `ENABLED` (`PauseTrapsNothing`,
`RolesStayInReach`) are out of the prover's reach. Every other property of a
passing run is proved.

## Where code and words disagree

Shown by a run:

- *Replay.* `submitSettlement` reverts for a processed hash
  (`contracts/OpenModelSettlement.sol:288`); `docs/contract-design.md:106-107`
  calls it "a no-op success", `README.md:69` a no-op. Run replay.
- *False zero.* `scripts/old-contract-exit.js:15-19` re-reads "every zero";
  the code (line 135) confirms only earnings and the difference of balance and
  lock. A balance falsely read as zero beside a correct lock makes the
  difference negative, and the run reports that all is locked already. Run
  false_zero.

Seen while modelling, without a run of their own:

- *Overtaking.* "A later credit can never overtake an earlier one"
  (`OpenModelSettlement.sol:603-604`) does not hold for a credit made while the
  window is 0: it goes straight to `spEarnings` (line 579).
  `FrozenCreditsReleaseInOrder` therefore speaks of credits made under a freeze.
- *Span of nine.* "At most FREEZE_BUCKETS+1 entries regardless of cadence" (lines
  566-567) holds when the window is a multiple of eight or less than eight;
  rounding the bucket width down (line 586) may add `freeze % 8` entries.
- *Second setOperator.* "A retry can never broadcast a second setOperator"
  (`mainnet-finish.js:86-88`): the re-read looks at mined state, and a transaction
  may be in flight. The second sets the same value.
- *Stablecoins of the record.* `mainnet-finish.js:131` writes an empty list,
  whatever `mainnet-deploy.js:210-211` recorded; of an earlier record it
  preserves the deploy transaction, block and time only (line 125).
- *Double send.* "A re-run after a timeout can never double-send"
  (`old-contract-exit.js:11-14`): the pre-check reads mined state. The contract
  refuses the second transaction, so no money is at stake.
- *Five arguments.* Every drill that settles calls `submitSettlement` with five
  arguments (`calib-operator-rotation.js:66`, `calib-contract-edgecases.js:51,73`,
  `calib-verify-newcontract.js:44`, and the scripts that are not modelled); the
  contract takes seven. The library refuses before anything is sent; where a
  revert was expected its text is missing, and the drill ends with a failed
  check. The rotation still restores what it changed.
- *One-step ownership.* `calib-contract-edgecases.js:58-61` expects the owner to
  have changed after `transferOwnership`. It changes with `acceptOwnership`; so
  `setPlatformFee(400)`, which has to be refused, succeeds, the user cannot hand
  back what it does not have, and the drill dies there, with the fee at 400 and
  the user nominated.
- *Non-dirtying.* The pause drill (`calib-contract-edgecases.js:2-4`) leaves the stop
  raised when it is interrupted, or when the answer to `pause` is lost: the
  repeated call fails as "already paused", which is not retried. Every later run
  dies at the same place until somebody lifts the stop by hand.
- *Nothing left.* An exit that ended well can be followed by a deposit that an
  earlier run of `mainnet-deposit.js` has sent to the retired contract, and
  `old-contract-exit.js` has no reason to look again. The warning at
  `mainnet-deposit.js:48-51` covers it.
- *Inconclusive.* `verify-receipt.py:203-209` says "steps 1-4 verified offline"
  also after one of them failed, and exits with 4 rather than 1.
- *Evidence.* An error in the body of the endpoint's answer counts as "not
  processed" (line 201), an answer that does not parse raises an exception, and a
  receipt with a signature fails where the `cryptography` package is missing (lines
  120-124). All three exit with 1, which `docs/verification.md:110-112` calls evidence
  of misbilling. `FailureIsEvidence` names them and shows that there is no fourth.
- *Disabled arbiter.* `docs/contract-design.md:71` says of the arbiter "address(0)
  = disabled". The constructor appoints the deployer
  (`OpenModelSettlement.sol:177`) and `setArbiter` refuses address(0) (line 461),
  so the role cannot be disabled. `RolesStayInReach` follows the code.
- *Bound on the delay.* `docs/contract-design.md:69` says of `refundDelaySec` "≤
  MAX_REFUND_DELAY, 30d"; `setRefundDelay` checks it (line 427), the constructor does
  not (lines 173-182). No property assumes the bound.
- *No burning.* `mainnet-deposit.js:76-79` keeps a deposit from an address without
  code, which "would burn the funds outright". Any other contract is let through: the
  balance it does not report is swallowed as zero (line 42), and where it keeps the
  money, the run ends with the note about a lagging endpoint (line 97).
- *Operator before freeze.* `mainnet-deploy.js` sets the operator last;
  `mainnet-finish.js:86-107` sets it on the contract `CONTRACT_ADDRESS` or
  the record names, frozen or not.
- *Attested counts.* The row is bound to the signature of the receipt but never
  compared with the counts the receipt attests
  (`verify-receipt.py:101-163`).
- *Refund kept ready.* A request stays claimable for ever after its delay, so
  that a delay longer than the settlement interval does not by itself guarantee
  what `docs/contract-design.md:118-123` says of it: a request made in advance
  can be claimed before the next settlement.

## What is not modelled

- *Recipients that refuse in the end* undo their transaction; what happens inside
  one is not modelled, since none of it stays. Callbacks come from FIL only: the
  whitelisted stablecoins have no hooks.
- *Token contracts.* Only how much of a transfer arrives, and whether FIL is
  refused. The books of the tokens are not kept.
- *The gateway.* It is not in the repository. Its batches are `Batches`, its
  proofs `Answers`; how it plans a batch or carries a debt is not modelled.
- *Hashes and signatures* are taken to be injective and unforgeable.
- *The other test drivers* (`calib-scenarios.js`, `calib-newfeatures.js`,
  `local-newfeatures.js`, `interact.js`): they settle on instances of their own
  with five arguments and come to nothing after that. Part C of the edge cases
  would come after the call at which part B dies.
- *Calibration deploy, seeding and reading scripts*: two transactions without a
  resumption, transfers to test accounts, or output only.
  (`calib-deploy-settlement.js` deploys again when an answer is lost, and records
  the later instance.)
- *A pause of the retired contract* (`old-contract-exit.js:142-147`): it refuses
  refund requests then, and the script says so. `EverythingComesHome` is about a
  retired contract that is not paused.
- *Endpoints that lag* answer neither the truth nor zero; the deposit script
  prints a note then.
- *Events, view functions that return storage as it is, gas, `uint256` overflow*
  (Solidity 0.8 reverts; amounts are bounded by what exists of a token).

## Plan

1. (done) The queue, its loops and its arithmetic; the freeze over time; the
   whole contract; the prepaid ledger and the refinement; payments with calls
   nested in them; the deployment, exit, deposit and drill scripts; the verifier;
   the theorems about the freeze.
2. (done) The theorems about the whole contract: types, locks, records, the
   promises of a settlement, the prepaid ledger, the books, and payments with
   calls nested in them; the length of the frozen span;
   the order of a deployment; the deposit and exit scripts beside each other.
3. (done) The loops over the queue for queues of any length, `RotationRestores`
   for any number of interruptions, and the verifier for batches of any size.
4. (open) A composition with the gateway as the contract's documents describe it:
   batches planned from balances read before, debts carried, submissions
   repeated; how much consumed usage a refund kept ready can outrun.
