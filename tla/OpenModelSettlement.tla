------------------------ MODULE OpenModelSettlement ------------------------
(***************************************************************************)
(* contracts/OpenModelSettlement.sol: prepaid balances, batch settlement   *)
(* by an operator, refunds behind a timelock, frozen earnings, platform    *)
(* pool, roles and the emergency stop.                                     *)
(*                                                                         *)
(* A transaction is atomic: each external function is one action, a revert *)
(* is a disabled action, msg.sender is its parameter sender.  What a       *)
(* recipient of FIL that is a contract calls before the transfer returns   *)
(* are actions that follow the payment: SettlementCallbacks models such    *)
(* calls inside the transaction that pays and refines this module.         *)
(***************************************************************************)
EXTENDS LockupQueue

CONSTANTS
    Accounts,       \* the addresses the contract knows
    Signers,        \* those that can send a transaction: a key exists, or code
                    \* that calls the contract
    NoOne,          \* address(0)
    Deployer,
    NATIVE_TOKEN,   \* FIL
    Erc20s,
    FeeOnTransfer,  \* the ERC20s that deliver less than was sent
    Rejecting,      \* the accounts whose code refuses FIL
    Times,          \* the block timestamps
    Hashes,         \* the values of detailsHash
    Batches,        \* the batches the operator may submit, sequences of Item
    Payers,         \* the accounts that have something to deposit
    Payments,       \* the amounts deposited, and requested for refund
    Strays,         \* the amounts sent past the contract's code
    Nominees,       \* the addresses the owner appoints to a role
    Fees, Delays, Freezes,  \* the values the constructor and the owner set
    Caps,           \* the maxEntries a caller of matureEarnings passes
    MaxUint192,     \* the largest amount one lockup holds
    MaxHoldings,    \* bound: what the contract may hold, all tokens together
    MaxRequests     \* bound: refund requests in a behaviour

MAX_BATCH_SIZE == 100
MAX_REFUND_DELAY == 30 * 24 * 60 * 60
MAX_EARNINGS_FREEZE == 90 * 24 * 60 * 60

Tokens == Erc20s \cup {NATIVE_TOKEN}

\* One position of the arrays of submitSettlement.
Item == [user : Accounts, sp : Accounts \cup {NoOne}, amount : Nat,
         token : Tokens, requests : Nat, tokens : Nat]

ASSUME AccountsAssumption ==
    /\ IsFiniteSet(Accounts)
    /\ NoOne \notin Accounts
    /\ Signers \subseteq Accounts /\ Deployer \in Signers
    /\ Rejecting \subseteq Accounts /\ Payers \subseteq Signers
    /\ Nominees \subseteq Accounts \cup {NoOne}
ASSUME TokensAssumption ==
    /\ IsFiniteSet(Erc20s)
    /\ NATIVE_TOKEN \notin Erc20s
    /\ FeeOnTransfer \subseteq Erc20s
ASSUME NumbersAssumption ==
    /\ Times \subseteq Nat /\ Times # {}
    /\ Payments \subseteq Nat /\ Strays \subseteq Nat
    /\ Fees \subseteq Nat /\ Delays \subseteq Nat /\ Freezes \subseteq Nat
    /\ Caps \subseteq Nat
    /\ MaxUint192 \in Nat /\ MaxHoldings \in Nat /\ MaxRequests \in Nat
ASSUME BatchesAssumption == Batches \subseteq Seq(Item)

VARIABLES
    now,                    \* block.timestamp
    owner, pendingOwner, operator, arbiter, paused,
    platformFeeBps, refundDelaySec, earningsFreezeSec,
    supportedTokens,        \* the set of whitelisted tokens
    balances, lockedForRefund,
    refundRequests,         \* refundRequests[1..refundNonce]
    spEarnings, spLockups, spLockupCursor,
    platformEarnings,
    settlements,            \* settlements[1..settlementNonce]
    processedBatches,       \* the set of hashes mapped to true
    cumulativeRequests, cumulativeTokens,
    holdings,               \* what the contract owns of each token
    uncredited              \* history: what was sent past the contract's code

roleVars == <<owner, pendingOwner, operator, arbiter, paused>>
configVars == <<platformFeeBps, refundDelaySec, earningsFreezeSec, supportedTokens>>
userVars == <<balances, lockedForRefund, refundRequests>>
spVars == <<spEarnings, spLockups, spLockupCursor>>
batchVars == <<settlements, processedBatches, cumulativeRequests, cumulativeTokens>>
assetVars == <<holdings, uncredited>>
storageVars == <<roleVars, configVars, userVars, spVars, platformEarnings, batchVars>>
vars == <<now, storageVars, assetVars>>

refundNonce == Len(refundRequests)
settlementNonce == Len(settlements)
-----------------------------------------------------------------------------
Zero(S) == [x \in S |-> 0]
ZeroPerAccount == [a \in Accounts |-> Zero(Tokens)]

Init ==
    /\ now \in Times /\ \A t \in Times : now <= t
    /\ owner = Deployer /\ operator = Deployer /\ arbiter = Deployer
    /\ pendingOwner = NoOne
    /\ paused = FALSE
    /\ platformFeeBps \in Fees /\ platformFeeBps <= MAX_FEE_BPS
    /\ refundDelaySec \in Delays
    /\ earningsFreezeSec = 0
    /\ supportedTokens = {NATIVE_TOKEN}
    /\ balances = ZeroPerAccount /\ lockedForRefund = ZeroPerAccount
    /\ refundRequests = <<>>
    /\ spEarnings = ZeroPerAccount
    /\ spLockups = [a \in Accounts |-> [t \in Tokens |-> <<>>]]
    /\ spLockupCursor = ZeroPerAccount
    /\ platformEarnings = Zero(Tokens)
    /\ settlements = <<>> /\ processedBatches = {}
    /\ cumulativeRequests = 0 /\ cumulativeTokens = 0
    /\ holdings = Zero(Tokens) /\ uncredited = Zero(Tokens)

Tick ==
    /\ \E t \in Times : t > now /\ now' = t
    /\ UNCHANGED <<storageVars, assetVars>>

\* value of token arrives at the contract.
Arrives(token, value) ==
    /\ Total(holdings, Tokens) + value <= MaxHoldings
    /\ holdings' = [holdings EXCEPT ![token] = @ + value]

\* Mutant: the stop also blocks payments.
TransferOut_WhenNotPaused(token, to, amount) ==
    /\ ~paused
    /\ token = NATIVE_TOKEN => to \notin Rejecting
    /\ holdings' = [holdings EXCEPT ![token] = @ - amount]
    /\ UNCHANGED uncredited

\* _transferOut: the contract pays amount; a recipient that refuses FIL
\* reverts the whole transaction.
TransferOut(token, to, amount) ==
    /\ token = NATIVE_TOKEN => to \notin Rejecting
    /\ holdings[token] >= amount
    /\ holdings' = [holdings EXCEPT ![token] = @ - amount]
    /\ UNCHANGED uncredited
-----------------------------------------------------------------------------
(* User functions *)

\* arriving of token is paid in, of which the sender is credited.
Deposit(sender, token, arriving, credited) ==
    /\ sender \in Payers
    /\ ~paused
    /\ Arrives(token, arriving)
    /\ balances' = [balances EXCEPT ![sender][token] = @ + credited]
    /\ UNCHANGED <<now, roleVars, configVars, lockedForRefund, refundRequests,
                   spVars, platformEarnings, batchVars, uncredited>>

DepositFIL(sender, value) ==
    value > 0 /\ Deposit(sender, NATIVE_TOKEN, value, value)

\* receive(): a bare transfer of FIL by an EVM call, of any value.
Receive(sender, value) == Deposit(sender, NATIVE_TOKEN, value, value)

\* What the balance of the contract grows by when amount is transferred in.
ReceivedAmounts(token, amount) ==
    IF token \in FeeOnTransfer THEN 0 .. amount ELSE {amount}

\* Mutant: credits the amount asked for instead of the amount received.
DepositToken_CreditsRequested(sender, token, amount) ==
    /\ token # NATIVE_TOKEN
    /\ token \in supportedTokens
    /\ \E received \in ReceivedAmounts(token, amount) :
        received > 0 /\ Deposit(sender, token, received, amount)

DepositToken(sender, token, amount) ==
    /\ token # NATIVE_TOKEN
    /\ token \in supportedTokens
    /\ amount > 0
    /\ \E received \in ReceivedAmounts(token, amount) :
        received > 0 /\ Deposit(sender, token, received, received)

\* Tokens sent without running the contract's code: a method-0 send of FIL, a
\* direct ERC20 transfer.
SendUncredited(token, value) ==
    /\ value > 0
    /\ Arrives(token, value)
    /\ uncredited' = [uncredited EXCEPT ![token] = @ + value]
    /\ UNCHANGED <<now, storageVars>>

\* Mutant: pending requests do not count.
Free_IgnoresLocks(user, token) == balances[user][token]

\* The balance not locked by pending requests; settlement may have left less
\* than the locks.
Free(user, token) ==
    IF balances[user][token] >= lockedForRefund[user][token]
    THEN balances[user][token] - lockedForRefund[user][token]
    ELSE 0

RequestRefund(sender, token, amount) ==
    /\ refundNonce < MaxRequests
    /\ amount > 0
    /\ amount <= Free(sender, token)
    /\ lockedForRefund' = [lockedForRefund EXCEPT ![sender][token] = @ + amount]
    /\ refundRequests' = Append(refundRequests,
            [user |-> sender, token |-> token, amount |-> amount,
             claimableAt |-> now + refundDelaySec,
             claimed |-> FALSE, cancelled |-> FALSE])
    /\ UNCHANGED <<now, roleVars, configVars, balances, spVars, platformEarnings,
                   batchVars, assetVars>>

\* Mutants: a request can be ended twice.
Open_EvenIfClaimed(req, sender) == req.user = sender /\ ~req.cancelled
Open_EvenIfCancelled(req, sender) == req.user = sender /\ ~req.claimed

\* sender may still claim or cancel the request.
Open(req, sender) == req.user = sender /\ ~req.claimed /\ ~req.cancelled

\* Mutant: no timelock.
Due_Always(req) == TRUE

Due(req) == now >= req.claimableAt

Claimable(sender, id) ==
    LET req == refundRequests[id]
    IN  /\ Open(req, sender)
        /\ Due(req)
        /\ balances[req.user][req.token] >= req.amount

BookClaim(id) ==
    LET req == refundRequests[id]
    IN  /\ refundRequests' = [refundRequests EXCEPT ![id].claimed = TRUE]
        /\ balances' = [balances EXCEPT ![req.user][req.token] = @ - req.amount]
        /\ lockedForRefund' =
                [lockedForRefund EXCEPT ![req.user][req.token] = @ - req.amount]
        /\ UNCHANGED <<now, roleVars, configVars, spVars, platformEarnings, batchVars>>

ClaimRefund(sender, id) ==
    /\ Claimable(sender, id)
    /\ BookClaim(id)
    /\ TransferOut(refundRequests[id].token, sender, refundRequests[id].amount)

CancelRefund(sender, id) ==
    LET req == refundRequests[id]
    IN  /\ Open(req, sender)
        /\ refundRequests' = [refundRequests EXCEPT ![id].cancelled = TRUE]
        /\ lockedForRefund' =
                [lockedForRefund EXCEPT ![req.user][req.token] = @ - req.amount]
        /\ UNCHANGED <<now, roleVars, configVars, balances, spVars, platformEarnings,
                       batchVars, assetVars>>
-----------------------------------------------------------------------------
(* submitSettlement *)

\* The storage the loop over the items writes, and its local tallies.
LoopStart ==
    [balances |-> balances, spEarnings |-> spEarnings, spLockups |-> spLockups,
     platformEarnings |-> platformEarnings,
     totalAmount |-> 0, settledCount |-> 0, failedCount |-> 0,
     requestCount |-> 0, tokenCount |-> 0, reverted |-> FALSE]

\* _creditEarnings
CreditEarnings(l, sp, token, amount) ==
    LET unlock == UnlockTime(now, earningsFreezeSec)
        queue  == l.spLockups[sp][token]
        cursor == spLockupCursor[sp][token]
    IN  IF amount = 0 THEN l
        ELSE IF earningsFreezeSec = 0
        THEN [l EXCEPT !.spEarnings[sp][token] = @ + amount]
        ELSE IF EntryAmount(queue, cursor, unlock, amount) > MaxUint192
        THEN [l EXCEPT !.reverted = TRUE]
        ELSE [l EXCEPT !.spLockups[sp][token] = Pushed(queue, cursor, unlock, amount)]

\* Mutant: what is locked for refunds is spared.
Chargeable_SparesLocks(l, item) ==
    /\ item.sp # NoOne
    /\ l.balances[item.user][item.token]
            >= item.amount + lockedForRefund[item.user][item.token]

\* An item is charged unless it names no provider or overdraws the user; what
\* the user has locked for refunds does not count against it.
Chargeable(l, item) ==
    /\ item.sp # NoOne
    /\ l.balances[item.user][item.token] >= item.amount

Charge(l, item) ==
    LET fee      == Fee(item.amount, platformFeeBps)
        credited == CreditEarnings(l, item.sp, item.token,
                                   ProviderShare(item.amount, platformFeeBps))
    IN  [credited EXCEPT
            !.balances[item.user][item.token] = @ - item.amount,
            !.platformEarnings[item.token] = @ + fee,
            !.totalAmount = @ + item.amount,
            !.settledCount = @ + 1,
            !.requestCount = @ + item.requests,
            !.tokenCount = @ + item.tokens]

\* Mutant: the requests of a failed item are counted too.
SettleItem_CountsFailed(l, item) ==
    IF Chargeable(l, item) THEN Charge(l, item)
    ELSE [l EXCEPT !.failedCount = @ + 1, !.requestCount = @ + item.requests]

SettleItem(l, item) ==
    IF Chargeable(l, item) THEN Charge(l, item)
    ELSE [l EXCEPT !.failedCount = @ + 1]

\* The loop after each of its items.
Loop(items) ==
    LET after[i \in 0 .. Len(items)] ==
            IF i = 0 THEN LoopStart ELSE SettleItem(after[i - 1], items[i])
    IN  after

\* Mutant: a batch can be replayed.
Fresh_Always(detailsHash) == TRUE

Fresh(detailsHash) == detailsHash \notin processedBatches

SubmitSettlement(sender, items, detailsHash) ==
    LET done == Loop(items)[Len(items)]
    IN  /\ sender = operator
        /\ ~paused
        /\ Len(items) \in 1 .. MAX_BATCH_SIZE
        /\ Fresh(detailsHash)
        /\ ~done.reverted
        /\ processedBatches' = processedBatches \cup {detailsHash}
        /\ balances' = done.balances
        /\ spEarnings' = done.spEarnings
        /\ spLockups' = done.spLockups
        /\ platformEarnings' = done.platformEarnings
        /\ cumulativeRequests' = cumulativeRequests + done.requestCount
        /\ cumulativeTokens' = cumulativeTokens + done.tokenCount
        /\ settlements' = Append(settlements,
                [timestamp |-> now, totalAmount |-> done.totalAmount,
                 settledCount |-> done.settledCount,
                 failedCount |-> done.failedCount, detailsHash |-> detailsHash,
                 requestCount |-> done.requestCount,
                 tokenCount |-> done.tokenCount])
        /\ UNCHANGED <<now, roleVars, configVars, lockedForRefund, refundRequests,
                       spLockupCursor, assetVars>>
-----------------------------------------------------------------------------
(* Provider and arbiter functions *)

\* What _matureLockups makes of a queue now.
AfterMaturing(sp, token, max) ==
    Matured(spLockups[sp][token], spLockupCursor[sp][token], now, max)

MatureEarnings(sp, token, max) ==
    LET mature == AfterMaturing(sp, token, max)
    IN  /\ spLockups' = [spLockups EXCEPT ![sp][token] = mature.queue]
        /\ spLockupCursor' = [spLockupCursor EXCEPT ![sp][token] = mature.cursor]
        /\ spEarnings' = [spEarnings EXCEPT ![sp][token] = @ + mature.released]
        /\ UNCHANGED <<now, roleVars, configVars, userVars, platformEarnings,
                       batchVars, assetVars>>

\* Mutant: what has matured in the queue is left out.
EarningsOf_Stored(sp, token) == spEarnings[sp][token]

EarningsOf(sp, token) == spEarnings[sp][token] + AfterMaturing(sp, token, 0).released

BookWithdrawal(sp, token) ==
    LET mature == AfterMaturing(sp, token, 0)
    IN  /\ spLockups' = [spLockups EXCEPT ![sp][token] = mature.queue]
        /\ spLockupCursor' = [spLockupCursor EXCEPT ![sp][token] = mature.cursor]
        /\ spEarnings' = [spEarnings EXCEPT ![sp][token] = 0]
        /\ UNCHANGED <<now, roleVars, configVars, userVars, platformEarnings, batchVars>>

WithdrawEarnings(sender, token) ==
    /\ EarningsOf(sender, token) > 0
    /\ BookWithdrawal(sender, token)
    /\ TransferOut(token, sender, EarningsOf(sender, token))

ConfiscateFrozenEarnings(sender, sp, token) ==
    LET mature == AfterMaturing(sp, token, 0)
        taken  == Seized(mature.queue, mature.cursor, now)
    IN  /\ sender = arbiter
        /\ taken.amount > 0
        /\ spLockups' = [spLockups EXCEPT ![sp][token] = taken.queue]
        /\ spLockupCursor' = [spLockupCursor EXCEPT ![sp][token] = mature.cursor]
        /\ spEarnings' = [spEarnings EXCEPT ![sp][token] = @ + mature.released]
        /\ platformEarnings' = [platformEarnings EXCEPT ![token] = @ + taken.amount]
        /\ UNCHANGED <<now, roleVars, configVars, userVars, batchVars, assetVars>>
-----------------------------------------------------------------------------
(* Owner functions *)

PlatformMayPay(sender, token, to) ==
    /\ sender = owner
    /\ to # NoOne
    /\ platformEarnings[token] > 0

BookPlatformWithdrawal(token) ==
    /\ platformEarnings' = [platformEarnings EXCEPT ![token] = 0]
    /\ UNCHANGED <<now, roleVars, configVars, userVars, spVars, batchVars>>

WithdrawPlatformEarnings(sender, token, to) ==
    /\ PlatformMayPay(sender, token, to)
    /\ BookPlatformWithdrawal(token)
    /\ TransferOut(token, to, platformEarnings[token])

UnchangedButConfig == UNCHANGED <<now, roleVars, userVars, spVars, platformEarnings,
                                  batchVars, assetVars>>

AddSupportedToken(sender, token) ==
    /\ sender = owner
    /\ token # NATIVE_TOKEN
    /\ token \notin supportedTokens
    /\ supportedTokens' = supportedTokens \cup {token}
    /\ UNCHANGED <<platformFeeBps, refundDelaySec, earningsFreezeSec>>
    /\ UnchangedButConfig

RemoveSupportedToken(sender, token) ==
    /\ sender = owner
    /\ token # NATIVE_TOKEN
    /\ token \in supportedTokens
    /\ supportedTokens' = supportedTokens \ {token}
    /\ UNCHANGED <<platformFeeBps, refundDelaySec, earningsFreezeSec>>
    /\ UnchangedButConfig

SetPlatformFee(sender, newBps) ==
    /\ sender = owner
    /\ newBps <= MAX_FEE_BPS
    /\ platformFeeBps' = newBps
    /\ UNCHANGED <<supportedTokens, refundDelaySec, earningsFreezeSec>>
    /\ UnchangedButConfig

SetRefundDelay(sender, newDelay) ==
    /\ sender = owner
    /\ newDelay <= MAX_REFUND_DELAY
    /\ refundDelaySec' = newDelay
    /\ UNCHANGED <<supportedTokens, platformFeeBps, earningsFreezeSec>>
    /\ UnchangedButConfig

SetEarningsFreeze(sender, newSec) ==
    /\ sender = owner
    /\ newSec <= MAX_EARNINGS_FREEZE
    /\ earningsFreezeSec' = newSec
    /\ UNCHANGED <<supportedTokens, platformFeeBps, refundDelaySec>>
    /\ UnchangedButConfig

UnchangedButRoles == UNCHANGED <<now, configVars, userVars, spVars, platformEarnings,
                                 batchVars, assetVars>>

\* Mutant: the ownership moves at once, to whoever is named.
TransferOwnership_OneStep(sender, newOwner) ==
    /\ sender = owner
    /\ newOwner # NoOne
    /\ owner' = newOwner
    /\ UNCHANGED <<pendingOwner, operator, arbiter, paused>>
    /\ UnchangedButRoles

TransferOwnership(sender, newOwner) ==
    /\ sender = owner
    /\ newOwner # NoOne
    /\ pendingOwner' = newOwner
    /\ UNCHANGED <<owner, operator, arbiter, paused>>
    /\ UnchangedButRoles

AcceptOwnership(sender) ==
    /\ sender = pendingOwner
    /\ owner' = pendingOwner
    /\ pendingOwner' = NoOne
    /\ UNCHANGED <<operator, arbiter, paused>>
    /\ UnchangedButRoles

SetOperator(sender, newOperator) ==
    /\ sender = owner
    /\ newOperator # NoOne
    /\ operator' = newOperator
    /\ UNCHANGED <<owner, pendingOwner, arbiter, paused>>
    /\ UnchangedButRoles

SetArbiter(sender, newArbiter) ==
    /\ sender = owner
    /\ newArbiter # NoOne
    /\ arbiter' = newArbiter
    /\ UNCHANGED <<owner, pendingOwner, operator, paused>>
    /\ UnchangedButRoles

SetPaused(sender, value) ==
    /\ sender = owner
    /\ paused # value
    /\ paused' = value
    /\ UNCHANGED <<owner, pendingOwner, operator, arbiter>>
    /\ UnchangedButRoles

Pause(sender) == SetPaused(sender, TRUE)
Unpause(sender) == SetPaused(sender, FALSE)
-----------------------------------------------------------------------------
UserStep(sender) ==
    \/ \E value \in Payments : DepositFIL(sender, value)
    \/ \E value \in Payments : Receive(sender, value)
    \/ \E token \in Tokens, amount \in Payments : DepositToken(sender, token, amount)
    \/ \E token \in Tokens, amount \in Payments : RequestRefund(sender, token, amount)
    \/ \E id \in DOMAIN refundRequests : CancelRefund(sender, id)

FreezeStep(sender) ==
    \E sp \in Accounts, token \in Tokens :
        \/ ConfiscateFrozenEarnings(sender, sp, token)
        \/ \E max \in Caps : MatureEarnings(sp, token, max)

OwnerStep(sender) ==
    \/ \E token \in Tokens : AddSupportedToken(sender, token)
    \/ \E token \in Tokens : RemoveSupportedToken(sender, token)
    \/ \E newBps \in Fees : SetPlatformFee(sender, newBps)
    \/ \E newDelay \in Delays : SetRefundDelay(sender, newDelay)
    \/ \E newSec \in Freezes : SetEarningsFreeze(sender, newSec)
    \/ \E new \in Nominees :
        \/ TransferOwnership(sender, new)
        \/ SetOperator(sender, new)
        \/ SetArbiter(sender, new)
    \/ AcceptOwnership(sender)
    \/ Pause(sender)
    \/ Unpause(sender)

\* The functions without nonReentrant.
Unguarded(sender) == UserStep(sender) \/ FreezeStep(sender) \/ OwnerStep(sender)

OperatorStep(sender) ==
    \E items \in Batches, detailsHash \in Hashes :
        SubmitSettlement(sender, items, detailsHash)

PayingStep(sender) ==
    \/ \E id \in DOMAIN refundRequests : ClaimRefund(sender, id)
    \/ \E token \in Tokens : WithdrawEarnings(sender, token)
    \/ \E token \in Tokens, to \in Accounts \cup {NoOne} :
        WithdrawPlatformEarnings(sender, token, to)

SomeoneSends == \E token \in Tokens, value \in Strays : SendUncredited(token, value)

Next ==
    \/ Tick
    \/ SomeoneSends
    \/ \E sender \in Signers :
        Unguarded(sender) \/ OperatorStep(sender) \/ PayingStep(sender)

Spec == Init /\ [][Next]_vars
-----------------------------------------------------------------------------
Record == [timestamp : Nat, totalAmount : Nat, settledCount : Nat,
           failedCount : Nat, detailsHash : Hashes, requestCount : Nat,
           tokenCount : Nat]

RefundRequest == [user : Accounts, token : Tokens, amount : Nat,
                  claimableAt : Nat, claimed : BOOLEAN, cancelled : BOOLEAN]

EarningsLockup == [unlockAt : Nat, amount : 0 .. MaxUint192]

TypeOK ==
    /\ now \in Times
    /\ {owner, operator, arbiter} \subseteq Accounts
    /\ pendingOwner \in Accounts \cup {NoOne}
    /\ paused \in BOOLEAN
    /\ platformFeeBps \in 0 .. MAX_FEE_BPS
    /\ {refundDelaySec, earningsFreezeSec} \subseteq Nat
    /\ supportedTokens \subseteq Tokens
    /\ {balances, lockedForRefund, spEarnings, spLockupCursor}
            \subseteq [Accounts -> [Tokens -> Nat]]
    /\ refundRequests \in Seq(RefundRequest)
    /\ spLockups \in [Accounts -> [Tokens -> Seq(EarningsLockup)]]
    /\ {platformEarnings, holdings, uncredited} \subseteq [Tokens -> Nat]
    /\ settlements \in Seq(Record)
    /\ processedBatches \subseteq Hashes
    /\ cumulativeRequests \in Nat /\ cumulativeTokens \in Nat

-----------------------------------------------------------------------------
(* The books *)

AcrossAccounts(f, token) == Total([a \in Accounts |-> f[a][token]], Accounts)

LockedUp(sp, token) == TotalIn(spLockups[sp][token], spLockupCursor[sp][token])

FrozenUp(token) ==
    Total([sp \in Accounts |-> LockedUp(sp, token)], Accounts)

\* What the contract owes in a token: to users, providers and the platform.
Owed(token) ==
    AcrossAccounts(balances, token) + AcrossAccounts(spEarnings, token)
        + FrozenUp(token) + platformEarnings[token]

\* The contract's books equal its real holdings, but for tokens nobody was
\* credited with.  Depositing, settling, splitting the fee, freezing, maturing,
\* confiscating and refunding neither create money nor lose any, so every
\* claim is covered whoever withdraws first.
BooksMatchHoldings ==
    \A token \in Tokens : holdings[token] = Owed(token) + uncredited[token]

Pending == {id \in DOMAIN refundRequests :
                ~refundRequests[id].claimed /\ ~refundRequests[id].cancelled}

PendingOf(user, token) ==
    {id \in Pending : refundRequests[id].user = user /\ refundRequests[id].token = token}

\* The lock on a balance is the sum of its pending requests, so releasing one
\* request can neither underflow (and trap the request) nor leave a residue.
LocksMatchRequests ==
    \A user \in Accounts, token \in Tokens :
        lockedForRefund[user][token] =
            Total([id \in Pending |-> refundRequests[id].amount], PendingOf(user, token))

\* Only a settlement outruns the locks: no request, claim, cancellation or
\* deposit makes the locks exceed the balance they are on, so a claim can be
\* refused for lack of balance only after a settlement took some of it.
OnlySettlementOutrunsLocks ==
    [][\A user \in Accounts, token \in Tokens :
        /\ lockedForRefund[user][token] <= balances[user][token]
        /\ lockedForRefund'[user][token] > balances'[user][token]
        => settlementNonce' = settlementNonce + 1]_vars

\* A request keeps its user, token, amount and due time whatever the owner does
\* to refundDelaySec; it ends at most once; and a claimed one was due and took
\* its amount from its user's balance.
RefundTermsHold ==
    [][\A id \in DOMAIN refundRequests :
        LET old == refundRequests[id]
            new == refundRequests'[id]
        IN  \/ new = old
            \/ id \in Pending /\ new = [old EXCEPT !.cancelled = TRUE]
            \/ /\ id \in Pending /\ new = [old EXCEPT !.claimed = TRUE]
               /\ now >= old.claimableAt
               /\ balances'[old.user][old.token] + old.amount
                    = balances[old.user][old.token]
               /\ holdings'[old.token] + old.amount = holdings[old.token]]_vars

\* A batch is recorded once: one settlement record per processed detailsHash.
OneRecordPerBatch ==
    /\ processedBatches = {settlements[b].detailsHash : b \in DOMAIN settlements}
    /\ \A b, c \in DOMAIN settlements :
        settlements[b].detailsHash = settlements[c].detailsHash => b = c

\* What the items at positions S sum up to, for a user in a token, and in a
\* field over all users.
ItemsOf(items, S, user, token) == {i \in S : items[i].user = user /\ items[i].token = token}
SumOver(items, S, field) == Total([i \in S |-> items[i][field]], S)

\* Settlement has priority over refunds: a user whose whole balance covers what
\* a batch asks of it is charged all of it, whatever it has locked or requested
\* and in whatever order its items come; and no user is charged more.
FundedUsersPayInFull ==
    [][\A items \in Batches, detailsHash \in Hashes :
        SubmitSettlement(operator, items, detailsHash) =>
            \A user \in Accounts, token \in Tokens :
                LET named == {i \in DOMAIN items : items[i].sp # NoOne}
                    asked == SumOver(items, ItemsOf(items, named, user, token), "amount")
                    paid  == balances[user][token] - balances'[user][token]
                IN  /\ paid <= asked
                    /\ asked <= balances[user][token] => paid = asked]_vars

\* A settlement record tells what was charged: the items can be told apart into
\* charged and failed so that every user lost exactly its charged items and the
\* record and the all-time statistics count the charged items only.
RecordTellsWhatWasCharged ==
    [][\A items \in Batches, detailsHash \in Hashes :
        SubmitSettlement(operator, items, detailsHash) =>
            \E charged \in SUBSET DOMAIN items :
                LET record == settlements'[settlementNonce']
                IN  /\ \A user \in Accounts, token \in Tokens :
                        balances[user][token] = balances'[user][token]
                            + SumOver(items, ItemsOf(items, charged, user, token), "amount")
                    /\ record.settledCount = Cardinality(charged)
                    /\ record.failedCount = Len(items) - Cardinality(charged)
                    /\ record.totalAmount = SumOver(items, charged, "amount")
                    /\ record.requestCount = SumOver(items, charged, "requests")
                    /\ record.tokenCount = SumOver(items, charged, "tokens")
                    /\ cumulativeRequests' = cumulativeRequests + record.requestCount
                    /\ cumulativeTokens' = cumulativeTokens + record.tokenCount]_vars

\* getWithdrawableEarnings
Withdrawable(sp, token) ==
    spEarnings[sp][token]
        + WithdrawableIn(spLockups[sp][token], spLockupCursor[sp][token], now)

\* The emergency stop traps no funds: while paused, a due refund still on
\* balance can be claimed and matured earnings withdrawn, whatever was settled,
\* locked, matured or seized before and whenever its time came, unless the
\* recipient itself refuses the transfer.
PauseTrapsNothing ==
    paused =>
        /\ \A id \in Pending :
            LET req == refundRequests[id]
            IN  /\ now >= req.claimableAt
                /\ balances[req.user][req.token] >= req.amount
                /\ req.token = NATIVE_TOKEN => req.user \notin Rejecting
                => ENABLED ClaimRefund(req.user, id)
        /\ \A sp \in Accounts, token \in Tokens :
            /\ Withdrawable(sp, token) > 0
            /\ token = NATIVE_TOKEN => sp \notin Rejecting
            => ENABLED WithdrawEarnings(sp, token)

\* The arbiter can sign, or somebody who can sign can appoint one who does.
ArbiterInReach ==
    \/ arbiter \in Signers
    \/ \E sender, new \in Signers : ENABLED SetArbiter(sender, new)

\* No change of roles puts anything out of reach, a mistyped address that nobody
\* signs for included ("a typo'd address therefore cannot permanently brick the
\* owner role"): somebody can lift the stop and pay out the platform pool, and
\* frozen earnings can be confiscated, paused or not ("an emergency pause must
\* not shield a caught provider"), once the owner has replaced an arbiter that
\* cannot sign.
RolesStayInReach ==
    /\ paused => \E sender \in Signers : ENABLED Unpause(sender)
    /\ \A token \in Tokens :
        /\ /\ platformEarnings[token] > 0
           /\ token = NATIVE_TOKEN => Accounts \ Rejecting # {}
           => \E sender \in Signers, to \in Accounts :
                ENABLED WithdrawPlatformEarnings(sender, token, to)
        /\ \A sp \in Accounts :
            Frozen(spLockups[sp][token], spLockupCursor[sp][token], now) # {}
            => /\ ENABLED ConfiscateFrozenEarnings(arbiter, sp, token)
               /\ ArbiterInReach

\* docs/contract-design.md: resubmitting a processed batch "is a no-op success".
ReplaySucceeds ==
    ~paused => \A detailsHash \in processedBatches, items \in Batches :
                    ENABLED SubmitSettlement(operator, items, detailsHash)

\* Where the abstract ledger's funds are: a provider's matured or frozen, the
\* vault's all that somebody was credited with.
ProviderFunds ==
    [sp \in Accounts |-> [token \in Tokens |->
        spEarnings[sp][token] + LockedUp(sp, token)]]
Vault == [token \in Tokens |-> holdings[token] - uncredited[token]]

\* Refund requests, locks, freezing, maturing, roles and settings do not show
\* in the abstract ledger: they are steps that leave its variables alone.
Ledger == INSTANCE PrepaidLedger WITH
    FeeDenominator <- BPS_DENOMINATOR,
    MaxFee <- MAX_FEE_BPS,
    user <- balances,
    provider <- ProviderFunds,
    platform <- platformEarnings,
    vault <- Vault

\* The contract implements the prepaid ledger: money moves only by prepayment,
\* by usage within the fee bound, by payment to whom it is owed, and by
\* forfeit of a provider to the platform.
ImplementsPrepaidLedger == Ledger!Spec

\* Blocks keep coming, and the user of a request keeps trying to claim it.
\* Nothing else has to happen: the owner may stop and reconfigure the contract.
FairSpec ==
    /\ Spec
    /\ WF_vars(Tick)
    /\ \A id \in 1 .. MaxRequests :
        WF_vars(id \in DOMAIN refundRequests
                    /\ \E sender \in Signers : ClaimRefund(sender, id))

\* A user who keeps asking gets its money: a pending request is paid, unless it
\* is cancelled, settlement has used the balance up, or the user refuses FIL.
\* (The bound on time hides requests that fall due after it.)
RefundsGetPaid ==
    \A id \in 1 .. MaxRequests :
        (\E i \in Pending : i = id /\ \E t \in Times : refundRequests[i].claimableAt <= t)
        ~> \/ id \in DOMAIN refundRequests \ Pending
           \/ \E i \in Pending :
                LET req == refundRequests[i]
                IN  /\ i = id
                    /\ \/ balances[req.user][req.token] < req.amount
                       \/ req.token = NATIVE_TOKEN /\ req.user \in Rejecting
=============================================================================
