--------------------- MODULE OpenModelSettlementProofs ---------------------
(***************************************************************************)
(* OpenModelSettlement for every set of accounts, tokens, batches and      *)
(* settings: its types, its refund requests and their locks, its batches   *)
(* and their records; then its money, that it implements PrepaidLedger and *)
(* that its books equal its holdings.  Both follow from one account of how *)
(* each step moves money between users, providers, the platform and the    *)
(* vault (MoneyMoves).                                                     *)
(***************************************************************************)
EXTENDS OpenModelSettlement, LockupQueueTheorems

Books == [Accounts -> [Tokens -> Nat]]
Queues == [Accounts -> [Tokens -> Seq(Entries(MaxUint192))]]

\* The two halves of TypeOK: what the owner and the clock change, and the rest.
SettingTypes ==
    /\ now \in Times
    /\ owner \in Accounts /\ operator \in Accounts /\ arbiter \in Accounts
    /\ pendingOwner \in Accounts \cup {NoOne}
    /\ paused \in BOOLEAN
    /\ platformFeeBps \in 0 .. MAX_FEE_BPS
    /\ refundDelaySec \in Nat /\ earningsFreezeSec \in Nat
    /\ supportedTokens \subseteq Tokens

MoneyTypes ==
    /\ balances \in Books /\ lockedForRefund \in Books
    /\ refundRequests \in Seq(RefundRequest)
    /\ spEarnings \in Books /\ spLockups \in Queues /\ spLockupCursor \in Books
    /\ platformEarnings \in [Tokens -> Nat]
    /\ holdings \in [Tokens -> Nat] /\ uncredited \in [Tokens -> Nat]
    /\ settlements \in Seq(Record) /\ processedBatches \subseteq Hashes
    /\ cumulativeRequests \in Nat /\ cumulativeTokens \in Nat

\* The types, as those of the settings and those of the money.
LEMMA Types == TypeOK <=> SettingTypes /\ MoneyTypes
<1>1. Entries(MaxUint192) = EarningsLockup
  BY DEF Entries, EarningsLockup
<1> QED  BY <1>1 DEF TypeOK, SettingTypes, MoneyTypes, Books, Queues

\* The queues in storage, or in a loop that has not written them back yet.
QueuesFit(queues) ==
    \A sp \in Accounts, token \in Tokens :
        /\ spLockupCursor[sp][token] \in 0 .. Len(queues[sp][token])
        /\ WellFormed(queues[sp][token], spLockupCursor[sp][token])

Inv ==
    /\ TypeOK
    /\ QueuesFit(spLockups)
    /\ LocksMatchRequests
    /\ OneRecordPerBatch

\* What the properties are about: money, requests and batches.
moneyVars == <<userVars, spVars, platformEarnings, batchVars, assetVars>>

\* Every step either leaves all of this alone or is one of ten operations.
LEMMA StepKinds ==
    ASSUME Next
    PROVE  \/ UNCHANGED moneyVars
           \/ \E token \in Tokens, value \in Nat : SendUncredited(token, value)
           \/ \E sender \in Accounts, token \in Tokens, value \in Nat :
                Deposit(sender, token, value, value)
           \/ \E sender \in Accounts, token \in Tokens, amount \in Nat :
                RequestRefund(sender, token, amount)
           \/ \E sender \in Accounts, id \in DOMAIN refundRequests :
                CancelRefund(sender, id) \/ ClaimRefund(sender, id)
           \/ \E items \in Batches, detailsHash \in Hashes :
                SubmitSettlement(operator, items, detailsHash)
           \/ \E sp \in Accounts, token \in Tokens, max \in Nat :
                MatureEarnings(sp, token, max)
           \/ \E sp \in Accounts, token \in Tokens : WithdrawEarnings(sp, token)
           \/ \E sp \in Accounts, token \in Tokens :
                ConfiscateFrozenEarnings(arbiter, sp, token)
           \/ \E token \in Tokens, to \in Accounts \cup {NoOne} :
                WithdrawPlatformEarnings(owner, token, to)
<1>n. Payments \subseteq Nat /\ Strays \subseteq Nat /\ Caps \subseteq Nat
  BY NumbersAssumption
<1>1. CASE Tick
  BY <1>1 DEF Tick, storageVars, moneyVars
<1>2. CASE SomeoneSends
  BY <1>2, <1>n DEF SomeoneSends
<1>3. ASSUME NEW sender \in Accounts, UserStep(sender)
      PROVE  \/ \E s \in Accounts, token \in Tokens, value \in Nat :
                    Deposit(s, token, value, value)
             \/ \E s \in Accounts, token \in Tokens, amount \in Nat :
                    RequestRefund(s, token, amount)
             \/ \E s \in Accounts, id \in DOMAIN refundRequests : CancelRefund(s, id)
  <2>1. NATIVE_TOKEN \in Tokens
    BY DEF Tokens
  <2>2. CASE \E value \in Payments : DepositFIL(sender, value) \/ Receive(sender, value)
    BY <1>n, <2>1, <2>2 DEF DepositFIL, Receive
  <2>3. ASSUME NEW token \in Tokens, NEW amount \in Payments,
               DepositToken(sender, token, amount)
        PROVE  \E value \in Nat : Deposit(sender, token, value, value)
    <3>1. PICK received \in ReceivedAmounts(token, amount) :
                Deposit(sender, token, received, received)
      BY <2>3 DEF DepositToken
    <3>2. received \in Nat
      BY <1>n DEF ReceivedAmounts
    <3> QED  BY <3>1, <3>2
  <2> QED  BY <1>3, <1>n, <2>2, <2>3 DEF UserStep
<1>4. ASSUME NEW sender \in Accounts, FreezeStep(sender)
      PROVE  \E sp \in Accounts, token \in Tokens :
                \/ ConfiscateFrozenEarnings(arbiter, sp, token)
                \/ \E max \in Nat : MatureEarnings(sp, token, max)
  BY <1>4, <1>n DEF FreezeStep, ConfiscateFrozenEarnings
<1>5. ASSUME NEW sender \in Accounts, OwnerStep(sender)
      PROVE  UNCHANGED moneyVars
  BY <1>5 DEF OwnerStep, AddSupportedToken, RemoveSupportedToken, SetPlatformFee,
        SetRefundDelay, SetEarningsFreeze, TransferOwnership, AcceptOwnership,
        SetOperator, SetArbiter, SetPaused, Pause, Unpause,
        UnchangedButConfig, UnchangedButRoles, moneyVars
<1>6. ASSUME NEW sender \in Accounts, OperatorStep(sender)
      PROVE  \E items \in Batches, detailsHash \in Hashes :
                SubmitSettlement(operator, items, detailsHash)
  BY <1>6 DEF OperatorStep, SubmitSettlement
<1>7. ASSUME NEW sender \in Accounts, PayingStep(sender)
      PROVE  \/ \E id \in DOMAIN refundRequests : ClaimRefund(sender, id)
             \/ \E token \in Tokens : WithdrawEarnings(sender, token)
             \/ \E token \in Tokens, to \in Accounts \cup {NoOne} :
                    WithdrawPlatformEarnings(owner, token, to)
  BY <1>7 DEF PayingStep, WithdrawPlatformEarnings, PlatformMayPay
<1>8. Signers \subseteq Accounts
  BY AccountsAssumption
<1> QED  BY <1>1, <1>2, <1>3, <1>4, <1>5, <1>6, <1>7, <1>8 DEF Next, Unguarded

\* The roles are never vacant, the fee and the windows stay in their ranges.
LEMMA SettingStep == TypeOK /\ [Next]_vars => SettingTypes'
<1> SUFFICES ASSUME SettingTypes, [Next]_vars PROVE SettingTypes'
  BY Types
<1> USE DEF SettingTypes
<1>n. /\ Fees \subseteq Nat /\ Delays \subseteq Nat /\ Freezes \subseteq Nat
      /\ Nominees \subseteq Accounts \cup {NoOne} /\ MAX_FEE_BPS \in Nat
  BY NumbersAssumption, AccountsAssumption DEF MAX_FEE_BPS
<1>1. CASE Tick
  BY <1>1 DEF Tick, storageVars, roleVars, configVars
<1>2. CASE SomeoneSends
  BY <1>2 DEF SomeoneSends, SendUncredited, storageVars, roleVars, configVars
<1>3. ASSUME NEW sender \in Accounts, UserStep(sender) PROVE SettingTypes'
  BY <1>3 DEF UserStep, DepositFIL, Receive, DepositToken, Deposit, RequestRefund,
              CancelRefund, roleVars, configVars
<1>4. ASSUME NEW sender \in Accounts, FreezeStep(sender) PROVE SettingTypes'
  BY <1>4 DEF FreezeStep, ConfiscateFrozenEarnings, MatureEarnings, roleVars, configVars
<1>5. ASSUME NEW sender \in Accounts, OwnerStep(sender) PROVE SettingTypes'
  <2>1. CASE \E token \in Tokens : \/ AddSupportedToken(sender, token)
                                   \/ RemoveSupportedToken(sender, token)
    BY <2>1 DEF AddSupportedToken, RemoveSupportedToken, UnchangedButConfig, roleVars
  <2>2. CASE \E newBps \in Fees : SetPlatformFee(sender, newBps)
    BY <1>n, <2>2 DEF SetPlatformFee, UnchangedButConfig, roleVars
  <2>3. CASE \/ \E newDelay \in Delays : SetRefundDelay(sender, newDelay)
             \/ \E newSec \in Freezes : SetEarningsFreeze(sender, newSec)
    BY <1>n, <2>3 DEF SetRefundDelay, SetEarningsFreeze, UnchangedButConfig, roleVars
  <2>4. CASE \E new \in Nominees : \/ TransferOwnership(sender, new)
                                   \/ SetOperator(sender, new)
                                   \/ SetArbiter(sender, new)
    BY <1>n, <2>4 DEF TransferOwnership, SetOperator, SetArbiter, UnchangedButRoles,
                      configVars
  <2>5. CASE AcceptOwnership(sender) \/ Pause(sender) \/ Unpause(sender)
    BY <2>5 DEF AcceptOwnership, Pause, Unpause, SetPaused, UnchangedButRoles, configVars
  <2> QED  BY <1>5, <2>1, <2>2, <2>3, <2>4, <2>5 DEF OwnerStep
<1>6. ASSUME NEW sender \in Accounts, OperatorStep(sender) PROVE SettingTypes'
  BY <1>6 DEF OperatorStep, SubmitSettlement, roleVars, configVars
<1>7. ASSUME NEW sender \in Accounts, PayingStep(sender) PROVE SettingTypes'
  BY <1>7 DEF PayingStep, ClaimRefund, BookClaim, WithdrawEarnings, BookWithdrawal,
              WithdrawPlatformEarnings, BookPlatformWithdrawal, roleVars, configVars
<1>8. CASE UNCHANGED vars
  BY <1>8 DEF vars, storageVars, roleVars, configVars
<1>9. Signers \subseteq Accounts
  BY AccountsAssumption
<1> QED  BY <1>1, <1>2, <1>3, <1>4, <1>5, <1>6, <1>7, <1>8, <1>9 DEF Next, Unguarded

-----------------------------------------------------------------------------
(* Refund requests and their locks *)

OpenOf(requests, user, token) ==
    {id \in DOMAIN requests :
        /\ ~requests[id].claimed /\ ~requests[id].cancelled
        /\ requests[id].user = user /\ requests[id].token = token}

\* What the open requests of a user in a token ask for.
LockOf(requests, user, token) == Total(AmountsOf(requests), OpenOf(requests, user, token))

\* LocksMatchRequests, told of the requests alone.
LocksFit ==
    \A user \in Accounts, token \in Tokens :
        lockedForRefund[user][token] = LockOf(refundRequests, user, token)

\* What a run checks of the locks is the sum over the requests alone.
LEMMA LocksAreSums == LocksMatchRequests <=> LocksFit
<1>1. ASSUME NEW user \in Accounts, NEW token \in Tokens
      PROVE  Total([id \in Pending |-> refundRequests[id].amount], PendingOf(user, token))
                = LockOf(refundRequests, user, token)
  <2> DEFINE f == [id \in Pending |-> refundRequests[id].amount]
             g == AmountsOf(refundRequests)
             S == PendingOf(user, token)
  <2>1. S = OpenOf(refundRequests, user, token)
    BY DEF PendingOf, Pending, OpenOf
  <2>2. \A id \in S : f[id] = g[id]
    BY DEF PendingOf, Pending, AmountsOf
  <2>3. Total(f, S) = Total(g, S)
    <3> HIDE DEF f, g, S
    <3> QED  BY <2>2, TotalSame
  <2> QED  BY <2>1, <2>3 DEF LockOf
<1> QED  BY <1>1 DEF LocksMatchRequests, LocksFit

\* What a list of requests is made of.
LEMMA RequestType ==
    ASSUME NEW requests \in Seq(RefundRequest), NEW id \in DOMAIN requests
    PROVE  /\ requests[id].user \in Accounts /\ requests[id].token \in Tokens
           /\ requests[id].amount \in Nat /\ requests[id].claimableAt \in Nat
           /\ requests[id].claimed \in BOOLEAN /\ requests[id].cancelled \in BOOLEAN
<1>1. requests[id] \in RefundRequest
  OBVIOUS
<1> QED  BY <1>1 DEF RefundRequest

\* A lock is an amount, and at least that of each request it is for.
LEMMA LockType ==
    ASSUME NEW requests \in Seq(RefundRequest), NEW user, NEW token
    PROVE  /\ IsFiniteSet(OpenOf(requests, user, token))
           /\ \A id \in DOMAIN requests : AmountsOf(requests)[id] = requests[id].amount
           /\ \A id \in DOMAIN requests : AmountsOf(requests)[id] \in Nat
           /\ LockOf(requests, user, token) \in Nat
           /\ \A id \in OpenOf(requests, user, token) :
                requests[id].amount <= LockOf(requests, user, token)
<1> DEFINE S == OpenOf(requests, user, token)
           f == AmountsOf(requests)
<1>1. IsFiniteSet(S)
  <2>1. IsFiniteSet(1 .. Len(requests)) /\ DOMAIN requests = 1 .. Len(requests)
    <3>1. Len(requests) \in Int /\ 1 \in Int
      OBVIOUS
    <3> QED  BY <3>1, FS_Interval
  <2>2. S \subseteq 1 .. Len(requests)
    BY <2>1 DEF OpenOf
  <2> HIDE DEF S
  <2> QED  BY <2>1, <2>2, FS_Subset
<1>2. \A id \in DOMAIN requests : f[id] = requests[id].amount /\ f[id] \in Nat
  BY RequestType DEF AmountsOf
<1>3. \A id \in S : id \in DOMAIN requests
  BY DEF OpenOf
<1>4. LockOf(requests, user, token) = Total(f, S)
  BY DEF LockOf
<1> HIDE DEF S, f
<1>5. Total(f, S) \in Nat
  BY <1>1, <1>2, <1>3, TotalType
<1>6. \A id \in S : f[id] <= Total(f, S)
  BY <1>1, <1>2, <1>3, TotalMember
<1> QED  BY <1>1, <1>2, <1>3, <1>4, <1>5, <1>6 DEF S, f

\* A new request adds its amount to the lock of its user in its token.
LEMMA RequestingLocks ==
    ASSUME NEW requests \in Seq(RefundRequest), NEW req \in RefundRequest,
           ~req.claimed, ~req.cancelled, NEW user, NEW token
    PROVE  LockOf(Append(requests, req), user, token)
            = LockOf(requests, user, token)
                + IF req.user = user /\ req.token = token THEN req.amount ELSE 0
<1> DEFINE new == Append(requests, req)
           n   == Len(requests) + 1
           f   == AmountsOf(requests)
           g   == AmountsOf(new)
           S   == OpenOf(requests, user, token)
           T   == OpenOf(new, user, token)
<1>1. /\ new \in Seq(RefundRequest) /\ DOMAIN new = 1 .. n
      /\ DOMAIN requests = 1 .. Len(requests) /\ Len(requests) \in Nat
      /\ new[n] = req /\ \A id \in 1 .. Len(requests) : new[id] = requests[id]
  OBVIOUS
<1>2. req.amount \in Nat
  BY DEF RefundRequest
<1>3. /\ IsFiniteSet(S) /\ LockOf(requests, user, token) = Total(f, S)
      /\ \A id \in S : f[id] \in Nat /\ id \in DOMAIN requests
      /\ \A id \in 1 .. Len(requests) : f[id] = requests[id].amount
      /\ LockOf(requests, user, token) \in Nat
  <2>1. /\ IsFiniteSet(S) /\ LockOf(requests, user, token) = Total(f, S)
        /\ \A id \in DOMAIN requests : f[id] = requests[id].amount /\ f[id] \in Nat
        /\ LockOf(requests, user, token) \in Nat
    BY LockType DEF LockOf
  <2>2. \A id \in S : id \in DOMAIN requests
    BY DEF OpenOf
  <2> QED  BY <1>1, <2>1, <2>2
<1>4. /\ LockOf(new, user, token) = Total(g, T)
      /\ \A id \in 1 .. n : g[id] = new[id].amount /\ g[id] \in Nat
  <2> HIDE DEF new
  <2> QED  BY <1>1, LockType DEF LockOf
<1>5. T = S \cup (IF req.user = user /\ req.token = token THEN {n} ELSE {})
  <2> HIDE DEF new
  <2> QED  BY <1>1 DEF OpenOf
<1>6. n \notin S
  BY <1>1 DEF OpenOf
<1> HIDE DEF new, f, g, S, T
<1>7. Total(g, S) = Total(f, S)
  <2>1. \A id \in S : g[id] = f[id]
    BY <1>1, <1>3, <1>4
  <2> QED  BY <2>1, TotalSame
<1>8. CASE req.user = user /\ req.token = token
  <2>1. IsFiniteSet({n}) /\ S \cap {n} = {}
    BY <1>6, FS_Singleton
  <2>2. \A id \in S \cup {n} : g[id] \in Nat
    BY <1>1, <1>3, <1>4
  <2>3. Total(g, S \cup {n}) = Total(g, S) + Total(g, {n})
    BY <1>3, <2>1, <2>2, TotalUnion
  <2>4. Total(g, {n}) = req.amount
    <3>1. g[n] = req.amount
      BY <1>1, <1>4
    <3> QED  BY <1>2, <3>1, TotalSingle
  <2> QED  BY <1>3, <1>4, <1>5, <1>7, <1>8, <2>3, <2>4 DEF new
<1>9. CASE ~(req.user = user /\ req.token = token)
  <2>1. T = S
    BY <1>5, <1>9
  <2> QED  BY <1>3, <1>4, <1>7, <1>9, <2>1 DEF new
<1> QED  BY <1>8, <1>9

\* Ending a request takes its amount off.
LEMMA EndingUnlocks ==
    ASSUME NEW requests \in Seq(RefundRequest), NEW new \in Seq(RefundRequest),
           DOMAIN new = DOMAIN requests,
           NEW id \in DOMAIN requests,
           ~requests[id].claimed, ~requests[id].cancelled,
           new[id].claimed \/ new[id].cancelled,
           \A i \in DOMAIN requests \ {id} : new[i] = requests[i],
           NEW user, NEW token
    PROVE  LockOf(requests, user, token)
            = LockOf(new, user, token)
                + IF requests[id].user = user /\ requests[id].token = token
                  THEN requests[id].amount ELSE 0
<1> DEFINE f == AmountsOf(requests)
           g == AmountsOf(new)
           S == OpenOf(requests, user, token)
           T == OpenOf(new, user, token)
<1>1. /\ IsFiniteSet(S) /\ LockOf(requests, user, token) = Total(f, S)
      /\ \A i \in DOMAIN requests : f[i] = requests[i].amount /\ f[i] \in Nat
  BY LockType DEF LockOf
<1>2. /\ LockOf(new, user, token) = Total(g, T)
      /\ \A i \in DOMAIN requests : g[i] = new[i].amount
      /\ LockOf(new, user, token) \in Nat
  BY LockType DEF LockOf
<1>3. T = S \ {id}
  BY DEF OpenOf
<1>4. \A i \in S : i \in DOMAIN requests
  BY DEF OpenOf
<1>5. requests[id].user = user /\ requests[id].token = token <=> id \in S
  BY DEF OpenOf
<1> HIDE DEF f, g, S, T
<1>6. Total(g, T) = Total(f, T)
  <2>1. \A i \in T : g[i] = f[i]
    BY <1>1, <1>2, <1>3, <1>4
  <2> QED  BY <2>1, TotalSame
<1>7. CASE id \in S
  <2>1. {id} \in SUBSET S
    BY <1>7
  <2>2. Total(f, S) = Total(f, {id}) + Total(f, S \ {id})
    BY <1>1, <1>4, <2>1, TotalSplit
  <2>3. Total(f, {id}) = requests[id].amount /\ requests[id].amount \in Nat
    BY <1>1, TotalSingle
  <2> QED  BY <1>1, <1>2, <1>3, <1>5, <1>6, <1>7, <2>2, <2>3
<1>8. CASE id \notin S
  <2>1. T = S
    BY <1>3, <1>8
  <2> QED  BY <1>1, <1>2, <1>5, <1>6, <1>8, <2>1
<1> QED  BY <1>7, <1>8

\* One entry of a table of accounts and tokens changes.
LEMMA TableEntry ==
    ASSUME NEW V, NEW table \in [Accounts -> [Tokens -> V]],
           NEW a \in Accounts, NEW t \in Tokens, NEW v \in V
    PROVE  LET new == [table EXCEPT ![a][t] = v]
           IN  /\ new \in [Accounts -> [Tokens -> V]]
               /\ \A b \in Accounts, u \in Tokens :
                    new[b][u] = IF b = a /\ u = t THEN v ELSE table[b][u]
OBVIOUS

\* A request that is ended stays on the list with its terms.
LEMMA EndedRequest ==
    ASSUME NEW requests \in Seq(RefundRequest), NEW id \in DOMAIN requests, NEW new,
           \/ new = [requests EXCEPT ![id].claimed = TRUE]
           \/ new = [requests EXCEPT ![id].cancelled = TRUE]
    PROVE  /\ new \in Seq(RefundRequest) /\ DOMAIN new = DOMAIN requests
           /\ new[id].claimed \/ new[id].cancelled
           /\ \A i \in DOMAIN requests \ {id} : new[i] = requests[i]
<1>1. requests[id] \in RefundRequest
  OBVIOUS
<1>2. /\ [requests[id] EXCEPT !.claimed = TRUE] \in RefundRequest
      /\ [requests[id] EXCEPT !.claimed = TRUE].claimed
      /\ [requests[id] EXCEPT !.cancelled = TRUE] \in RefundRequest
      /\ [requests[id] EXCEPT !.cancelled = TRUE].cancelled
  BY <1>1 DEF RefundRequest
<1>3. PICK r \in RefundRequest :
        new = [requests EXCEPT ![id] = r] /\ (r.claimed \/ r.cancelled)
  BY <1>2
<1> QED  BY <1>3

\* The locks stay the sums of the open requests; so releasing one never
\* underflows.
LEMMA RequestStep ==
    ASSUME TypeOK, LocksFit, [Next]_vars
    PROVE  /\ lockedForRefund' \in Books
           /\ refundRequests' \in Seq(RefundRequest)
           /\ LocksFit'
<1>t. /\ lockedForRefund \in Books /\ balances \in Books
      /\ refundRequests \in Seq(RefundRequest)
      /\ now \in Nat /\ refundDelaySec \in Nat
  BY Types, NumbersAssumption DEF SettingTypes, MoneyTypes
<1>e. ASSUME NEW sender \in Accounts, NEW id \in DOMAIN refundRequests,
             Open(refundRequests[id], sender),
             \/ refundRequests' = [refundRequests EXCEPT ![id].claimed = TRUE]
             \/ refundRequests' = [refundRequests EXCEPT ![id].cancelled = TRUE],
             lockedForRefund' =
                [lockedForRefund EXCEPT
                    ![refundRequests[id].user][refundRequests[id].token] =
                        @ - refundRequests[id].amount]
      PROVE  /\ lockedForRefund' \in Books
             /\ refundRequests' \in Seq(RefundRequest)
             /\ LocksFit'
  <2> DEFINE req == refundRequests[id]
             v   == lockedForRefund[req.user][req.token] - req.amount
  <2>1. /\ req.user \in Accounts /\ req.token \in Tokens /\ req.amount \in Nat
        /\ ~req.claimed /\ ~req.cancelled
    BY <1>e, <1>t, RequestType DEF Open
  <2>2. /\ refundRequests' \in Seq(RefundRequest)
        /\ DOMAIN refundRequests' = DOMAIN refundRequests
        /\ refundRequests'[id].claimed \/ refundRequests'[id].cancelled
        /\ \A i \in DOMAIN refundRequests \ {id} : refundRequests'[i] = refundRequests[i]
    BY <1>e, <1>t, EndedRequest
  <2>3. v \in Nat
    <3>1. id \in OpenOf(refundRequests, req.user, req.token)
      BY <2>1 DEF OpenOf
    <3>2. /\ req.amount <= LockOf(refundRequests, req.user, req.token)
          /\ LockOf(refundRequests, req.user, req.token) \in Nat
      BY <1>t, <3>1, LockType
    <3>3. lockedForRefund[req.user][req.token] = LockOf(refundRequests, req.user, req.token)
      BY <2>1 DEF LocksFit
    <3> HIDE DEF req
    <3> QED  BY <2>1, <3>2, <3>3
  <2>4. lockedForRefund' = [lockedForRefund EXCEPT ![req.user][req.token] = v]
    BY <1>e
  <2>5. \A user \in Accounts, token \in Tokens :
            LockOf(refundRequests, user, token)
                = LockOf(refundRequests', user, token)
                    + IF req.user = user /\ req.token = token THEN req.amount ELSE 0
    BY <1>t, <2>1, <2>2, EndingUnlocks
  <2>6. \A user \in Accounts, token \in Tokens :
            LockOf(refundRequests', user, token) \in Nat
    BY <2>2, LockType
  <2>7. v = lockedForRefund[req.user][req.token] - req.amount
    OBVIOUS
  <2> HIDE DEF req, v
  <2>8. /\ lockedForRefund' \in Books
        /\ \A b \in Accounts, u \in Tokens :
            lockedForRefund'[b][u] =
                IF b = req.user /\ u = req.token THEN v ELSE lockedForRefund[b][u]
    BY <1>t, <2>1, <2>3, <2>4, TableEntry DEF Books
  <2>9. ASSUME NEW user \in Accounts, NEW token \in Tokens
        PROVE  lockedForRefund'[user][token] = LockOf(refundRequests', user, token)
    <3>1. /\ lockedForRefund[user][token] = LockOf(refundRequests, user, token)
          /\ LockOf(refundRequests', user, token) \in Nat
      BY <2>6 DEF LocksFit
    <3>2. CASE user = req.user /\ token = req.token
      BY <2>1, <2>5, <2>7, <2>8, <3>1, <3>2
    <3>3. CASE ~(user = req.user /\ token = req.token)
      BY <2>5, <2>8, <3>1, <3>3
    <3> QED  BY <3>2, <3>3
  <2> QED  BY <2>2, <2>8, <2>9 DEF LocksFit
<1>1. CASE UNCHANGED <<lockedForRefund, refundRequests>>
  BY <1>1, <1>t DEF LocksFit
<1>2. ASSUME NEW sender \in Accounts, NEW token \in Tokens, NEW amount \in Nat,
             RequestRefund(sender, token, amount)
      PROVE  /\ lockedForRefund' \in Books
             /\ refundRequests' \in Seq(RefundRequest)
             /\ LocksFit'
  <2> DEFINE req == [user |-> sender, token |-> token, amount |-> amount,
                     claimableAt |-> now + refundDelaySec,
                     claimed |-> FALSE, cancelled |-> FALSE]
             v   == lockedForRefund[sender][token] + amount
  <2>1. /\ lockedForRefund' = [lockedForRefund EXCEPT ![sender][token] = v]
        /\ refundRequests' = Append(refundRequests, req)
    BY <1>2 DEF RequestRefund
  <2>2. /\ req \in RefundRequest /\ ~req.claimed /\ ~req.cancelled
        /\ req.user = sender /\ req.token = token /\ req.amount = amount
    BY <1>t DEF RefundRequest
  <2>3. v \in Nat /\ v = lockedForRefund[sender][token] + amount
    BY <1>t DEF Books
  <2> HIDE DEF req, v
  <2>4. refundRequests' \in Seq(RefundRequest)
    BY <1>t, <2>1, <2>2
  <2>5. /\ lockedForRefund' \in Books
        /\ \A b \in Accounts, u \in Tokens :
            lockedForRefund'[b][u] =
                IF b = sender /\ u = token THEN v ELSE lockedForRefund[b][u]
    BY <1>t, <2>1, <2>3, TableEntry DEF Books
  <2>6. \A user \in Accounts, u \in Tokens :
            LockOf(refundRequests', user, u)
                = LockOf(refundRequests, user, u)
                    + IF sender = user /\ token = u THEN amount ELSE 0
    BY <1>t, <2>1, <2>2, RequestingLocks
  <2>7. \A user \in Accounts, u \in Tokens : LockOf(refundRequests, user, u) \in Nat
    BY <1>t, LockType
  <2>8. LocksFit'
    BY <2>3, <2>5, <2>6, <2>7 DEF LocksFit
  <2> QED  BY <2>4, <2>5, <2>8
<1>3. ASSUME NEW sender \in Accounts, NEW id \in DOMAIN refundRequests,
             CancelRefund(sender, id) \/ ClaimRefund(sender, id)
      PROVE  /\ lockedForRefund' \in Books
             /\ refundRequests' \in Seq(RefundRequest)
             /\ LocksFit'
  <2>1. CASE CancelRefund(sender, id)
    BY <1>e, <2>1 DEF CancelRefund
  <2>2. CASE ClaimRefund(sender, id)
    BY <1>e, <2>2 DEF ClaimRefund, Claimable, BookClaim
  <2> QED  BY <1>3, <2>1, <2>2
<1>4. CASE Next
  <2>1. CASE UNCHANGED moneyVars
    BY <1>1, <2>1 DEF moneyVars, userVars
  <2>2. CASE \E token \in Tokens, value \in Nat : SendUncredited(token, value)
    BY <1>1, <2>2 DEF SendUncredited, storageVars, userVars
  <2>3. CASE \E sender \in Accounts, token \in Tokens, value \in Nat :
                Deposit(sender, token, value, value)
    BY <1>1, <2>3 DEF Deposit
  <2>4. CASE \E items \in Batches, detailsHash \in Hashes :
                SubmitSettlement(operator, items, detailsHash)
    BY <1>1, <2>4 DEF SubmitSettlement
  <2>5. CASE \E sp \in Accounts, token \in Tokens, max \in Nat :
                MatureEarnings(sp, token, max)
    BY <1>1, <2>5 DEF MatureEarnings, userVars
  <2>6. CASE \E sp \in Accounts, token \in Tokens :
                \/ WithdrawEarnings(sp, token)
                \/ ConfiscateFrozenEarnings(arbiter, sp, token)
    BY <1>1, <2>6 DEF WithdrawEarnings, BookWithdrawal, ConfiscateFrozenEarnings, userVars
  <2>7. CASE \E token \in Tokens, to \in Accounts \cup {NoOne} :
                WithdrawPlatformEarnings(owner, token, to)
    BY <1>1, <2>7 DEF WithdrawPlatformEarnings, BookPlatformWithdrawal, userVars
  <2> QED  BY <1>2, <1>3, <1>4, <2>1, <2>2, <2>3, <2>4, <2>5, <2>6, <2>7, StepKinds
<1> QED  BY <1>1, <1>4 DEF vars, storageVars, userVars

-----------------------------------------------------------------------------
(* The loop of submitSettlement *)

LoopState ==
    [balances : Books, spEarnings : Books, spLockups : Queues,
     platformEarnings : [Tokens -> Nat],
     totalAmount : Nat, settledCount : Nat, failedCount : Nat,
     requestCount : Nat, tokenCount : Nat, reverted : BOOLEAN]

\* What the providers have, matured or frozen.
FundsOf(earnings, queues, cursors) ==
    [sp \in Accounts |-> [token \in Tokens |->
        earnings[sp][token] + TotalIn(queues[sp][token], cursors[sp][token])]]

\* One entry's worth of change in a table.
Plus(table, a, t, v) ==
    [b \in Accounts |-> [u \in Tokens |->
        table[b][u] + IF b = a /\ u = t THEN v ELSE 0]]

\* What providers have is a table of natural numbers.
LEMMA FundsType ==
    ASSUME NEW earnings \in Books, NEW queues \in Queues, NEW cursors \in Books,
           \A sp \in Accounts, token \in Tokens :
                /\ cursors[sp][token] \in 0 .. Len(queues[sp][token])
                /\ WellFormed(queues[sp][token], cursors[sp][token])
    PROVE  FundsOf(earnings, queues, cursors) \in Books
<1>1. ASSUME NEW sp \in Accounts, NEW token \in Tokens
      PROVE  /\ earnings[sp][token] \in Nat
             /\ TotalIn(queues[sp][token], cursors[sp][token]) \in Nat
  <2>1. queues[sp][token] \in Seq(Entries(MaxUint192)) /\ MaxUint192 \in Nat
    BY NumbersAssumption DEF Queues
  <2> QED  BY <2>1, WholeQueue DEF Books
<1> QED  BY <1>1 DEF FundsOf, Books

\* What a credit leaves alone.
SameButCredit(l, c) ==
    /\ c.balances = l.balances /\ c.platformEarnings = l.platformEarnings
    /\ c.totalAmount = l.totalAmount /\ c.settledCount = l.settledCount
    /\ c.failedCount = l.failedCount
    /\ c.requestCount = l.requestCount /\ c.tokenCount = l.tokenCount

\* _creditEarnings: the provider has the amount more, matured or frozen, and
\* nothing else changes, unless the credit does not fit and the batch reverts.
LEMMA CreditEffect ==
    ASSUME TypeOK, NEW l \in LoopState, QueuesFit(l.spLockups),
           NEW sp \in Accounts, NEW token \in Tokens, NEW amount \in Nat
    PROVE  LET c == CreditEarnings(l, sp, token, amount)
           IN  /\ c \in LoopState
               /\ SameButCredit(l, c)
               /\ QueuesFit(c.spLockups)
               /\ l.reverted => c.reverted
               /\ ~c.reverted =>
                    FundsOf(c.spEarnings, c.spLockups, spLockupCursor)
                        = Plus(FundsOf(l.spEarnings, l.spLockups, spLockupCursor),
                               sp, token, amount)
<1> DEFINE unlock == UnlockTime(now, earningsFreezeSec)
           queue  == l.spLockups[sp][token]
           cursor == spLockupCursor[sp][token]
           new    == Pushed(queue, cursor, unlock, amount)
           c      == CreditEarnings(l, sp, token, amount)
<1>1. /\ l.spEarnings \in Books /\ l.spLockups \in Queues /\ l.reverted \in BOOLEAN
      /\ spLockupCursor \in Books /\ now \in Nat /\ earningsFreezeSec \in Nat
      /\ MaxUint192 \in Nat
  BY Types, NumbersAssumption DEF LoopState, MoneyTypes, SettingTypes
<1>2. /\ queue \in Seq(Entries(MaxUint192)) /\ cursor \in 0 .. Len(queue)
      /\ WellFormed(queue, cursor)
  BY <1>1 DEF Queues, QueuesFit
<1>3. \A a \in Accounts, t \in Tokens :
        /\ l.spEarnings[a][t] \in Nat
        /\ TotalIn(l.spLockups[a][t], spLockupCursor[a][t]) \in Nat
  <2>1. ASSUME NEW a \in Accounts, NEW t \in Tokens
        PROVE  /\ l.spLockups[a][t] \in Seq(Entries(MaxUint192))
               /\ spLockupCursor[a][t] \in 0 .. Len(l.spLockups[a][t])
               /\ WellFormed(l.spLockups[a][t], spLockupCursor[a][t])
    BY <1>1 DEF Queues, QueuesFit
  <2>2. \A a \in Accounts, t \in Tokens : l.spEarnings[a][t] \in Nat
    BY <1>1 DEF Books
  <2> QED  BY <1>1, <2>1, <2>2, WholeQueue
<1>4. CASE amount = 0
  <2>1. c = l
    BY <1>4 DEF CreditEarnings
  <2>2. FundsOf(l.spEarnings, l.spLockups, spLockupCursor)
            = Plus(FundsOf(l.spEarnings, l.spLockups, spLockupCursor), sp, token, amount)
    BY <1>3, <1>4 DEF FundsOf, Plus
  <2> QED  BY <1>1, <2>1, <2>2 DEF SameButCredit
<1>5. CASE amount # 0 /\ earningsFreezeSec = 0
  <2> DEFINE v  == l.spEarnings[sp][token] + amount
             es == [l.spEarnings EXCEPT ![sp][token] = v]
  <2>1. c = [l EXCEPT !.spEarnings = es]
    BY <1>5 DEF CreditEarnings
  <2>2. v \in Nat /\ v = l.spEarnings[sp][token] + amount
    BY <1>3
  <2>3. /\ es \in Books
        /\ \A a \in Accounts, t \in Tokens :
            es[a][t] = IF a = sp /\ t = token THEN v ELSE l.spEarnings[a][t]
    <3> HIDE DEF v
    <3> QED  BY <1>1, <2>2, TableEntry DEF Books
  <2> HIDE DEF es, v
  <2>4. FundsOf(es, l.spLockups, spLockupCursor)
            = Plus(FundsOf(l.spEarnings, l.spLockups, spLockupCursor), sp, token, amount)
    BY <1>3, <2>2, <2>3 DEF FundsOf, Plus
  <2>5. /\ c \in LoopState /\ SameButCredit(l, c)
        /\ c.spEarnings = es /\ c.spLockups = l.spLockups /\ c.reverted = l.reverted
    <3> HIDE DEF c
    <3> QED  BY <2>1, <2>3 DEF LoopState, SameButCredit
  <2> HIDE DEF c
  <2> QED  BY <1>1, <2>3, <2>4, <2>5 DEF c
<1>6. CASE /\ amount # 0 /\ earningsFreezeSec # 0
           /\ EntryAmount(queue, cursor, unlock, amount) > MaxUint192
  <2>1. c = [l EXCEPT !.reverted = TRUE]
    BY <1>6 DEF CreditEarnings
  <2>2. /\ c \in LoopState /\ SameButCredit(l, c)
        /\ c.spEarnings = l.spEarnings /\ c.spLockups = l.spLockups /\ c.reverted = TRUE
    <3> HIDE DEF c
    <3> QED  BY <2>1 DEF LoopState, SameButCredit
  <2> HIDE DEF c
  <2> QED  BY <1>1, <2>2 DEF c
<1>7. CASE /\ amount # 0 /\ earningsFreezeSec # 0
           /\ ~(EntryAmount(queue, cursor, unlock, amount) > MaxUint192)
  <2> DEFINE qs == [l.spLockups EXCEPT ![sp][token] = new]
  <2>1. c = [l EXCEPT !.spLockups = qs]
    BY <1>7 DEF CreditEarnings
  <2>2. unlock \in Nat \ {0} /\ amount \in Nat \ {0}
    <3>1. unlock \in Nat /\ unlock >= now + earningsFreezeSec
      BY <1>1, UnlockTimeRoundsUp
    <3> HIDE DEF unlock
    <3> QED  BY <1>1, <1>7, <3>1
  <2>3. EntryAmount(queue, cursor, unlock, amount) <= MaxUint192
    <3>1. EntryAmount(queue, cursor, unlock, amount) \in Nat
      <4>1. Merges(queue, cursor, unlock) => Len(queue) \in 1 .. Len(queue)
        <5> HIDE DEF queue, unlock
        <5> QED  BY <1>2 DEF Merges
      <4>2. Merges(queue, cursor, unlock) => queue[Len(queue)].amount \in Nat
        <5> HIDE DEF queue, unlock
        <5> QED  BY <1>1, <1>2, <4>1, EntryType
      <4> HIDE DEF queue, unlock
      <4> QED  BY <4>2 DEF EntryAmount
    <3> HIDE DEF queue, unlock
    <3> QED  BY <1>1, <1>7, <3>1
  <2>4. /\ new \in Seq(Entries(MaxUint192))
        /\ cursor \in 0 .. Len(new)
        /\ WellFormed(new, cursor)
        /\ TotalIn(new, cursor) = TotalIn(queue, cursor) + amount
    <3> HIDE DEF unlock, queue, cursor
    <3>1. /\ new \in Seq(Entries(MaxUint192))
          /\ Len(new) \in cursor + 1 .. Len(queue) + 1
          /\ WellFormed(new, cursor)
      BY <1>1, <1>2, <2>2, <2>3, PushedIsAQueue
    <3>2. TotalIn(new, cursor) = TotalIn(queue, cursor) + amount
      BY <1>1, <1>2, <2>2, <2>3, PushingConserves
    <3>3. Len(queue) \in Nat
      BY <1>2
    <3> QED  BY <1>2, <3>1, <3>2, <3>3
  <2>5. /\ qs \in Queues
        /\ \A a \in Accounts, t \in Tokens :
            qs[a][t] = IF a = sp /\ t = token THEN new ELSE l.spLockups[a][t]
    <3> HIDE DEF new
    <3> QED  BY <1>1, <2>4, TableEntry DEF Queues
  <2> HIDE DEF new, qs
  <2>6. QueuesFit(qs)
    BY <1>1, <2>4, <2>5 DEF QueuesFit
  <2>7. ASSUME NEW a \in Accounts, NEW t \in Tokens
        PROVE  l.spEarnings[a][t] + TotalIn(qs[a][t], spLockupCursor[a][t])
                = (l.spEarnings[a][t] + TotalIn(l.spLockups[a][t], spLockupCursor[a][t]))
                    + IF a = sp /\ t = token THEN amount ELSE 0
    <3>1. CASE a = sp /\ t = token
      BY <1>3, <2>4, <2>5, <3>1
    <3>2. CASE ~(a = sp /\ t = token)
      BY <1>3, <2>5, <3>2
    <3> QED  BY <3>1, <3>2
  <2>8. FundsOf(l.spEarnings, qs, spLockupCursor)
            = Plus(FundsOf(l.spEarnings, l.spLockups, spLockupCursor), sp, token, amount)
    BY <2>7 DEF FundsOf, Plus
  <2>9. /\ c \in LoopState /\ SameButCredit(l, c)
        /\ c.spEarnings = l.spEarnings /\ c.spLockups = qs /\ c.reverted = l.reverted
    <3> HIDE DEF c
    <3> QED  BY <2>1, <2>5 DEF LoopState, SameButCredit
  <2> HIDE DEF c
  <2> QED  BY <1>1, <2>5, <2>6, <2>8, <2>9 DEF c
<1> QED  BY <1>4, <1>5, <1>6, <1>7

LoopFunds(l) == FundsOf(l.spEarnings, l.spLockups, spLockupCursor)

\* What a charged item changes.
Charged(l, item, m) ==
    /\ \A a \in Accounts, t \in Tokens :
        m.balances[a][t] =
            l.balances[a][t]
                - IF a = item.user /\ t = item.token THEN item.amount ELSE 0
    /\ \A t \in Tokens :
        m.platformEarnings[t] =
            l.platformEarnings[t]
                + IF t = item.token THEN Fee(item.amount, platformFeeBps) ELSE 0
    /\ ~m.reverted => LoopFunds(m) = Plus(LoopFunds(l), item.sp, item.token,
                                          ProviderShare(item.amount, platformFeeBps))
    /\ m.totalAmount = l.totalAmount + item.amount
    /\ m.settledCount = l.settledCount + 1
    /\ m.failedCount = l.failedCount
    /\ m.requestCount = l.requestCount + item.requests
    /\ m.tokenCount = l.tokenCount + item.tokens

\* The fields of an item are what they should be.
LEMMA ItemType ==
    ASSUME NEW item \in Item
    PROVE  /\ item.user \in Accounts /\ item.sp \in Accounts \cup {NoOne}
           /\ item.amount \in Nat /\ item.token \in Tokens
           /\ item.requests \in Nat /\ item.tokens \in Nat
BY DEF Item

\* Charging an item that can be charged.
LEMMA ChargeEffect ==
    ASSUME TypeOK, NEW l \in LoopState, QueuesFit(l.spLockups), NEW item \in Item,
           Chargeable(l, item)
    PROVE  LET m == Charge(l, item)
           IN  /\ m \in LoopState /\ QueuesFit(m.spLockups)
               /\ l.reverted => m.reverted
               /\ Charged(l, item, m)
<1> DEFINE u     == item.user
           t     == item.token
           fee   == Fee(item.amount, platformFeeBps)
           share == ProviderShare(item.amount, platformFeeBps)
           c     == CreditEarnings(l, item.sp, t, share)
           b     == l.balances[u][t] - item.amount
           p     == l.platformEarnings[t] + fee
           bs    == [l.balances EXCEPT ![u][t] = b]
           ps    == [l.platformEarnings EXCEPT ![t] = p]
           m     == Charge(l, item)
<1>1. /\ u \in Accounts /\ item.sp \in Accounts \cup {NoOne} /\ item.sp # NoOne
      /\ item.amount \in Nat /\ t \in Tokens
      /\ item.requests \in Nat /\ item.tokens \in Nat
      /\ l.balances[u][t] >= item.amount
  BY ItemType DEF Chargeable
<1>2. item.sp \in Accounts
  BY <1>1
<1>3. fee \in Nat /\ share \in Nat
  <2>1. platformFeeBps \in 0 .. MAX_FEE_BPS
    BY Types DEF SettingTypes
  <2> QED  BY <1>1, <2>1, FeeSplitsAmount
<1>4. /\ l.balances \in Books /\ l.platformEarnings \in [Tokens -> Nat]
      /\ l.totalAmount \in Nat /\ l.settledCount \in Nat /\ l.failedCount \in Nat
      /\ l.requestCount \in Nat /\ l.tokenCount \in Nat
  BY DEF LoopState
<1>5. /\ c \in LoopState /\ SameButCredit(l, c) /\ QueuesFit(c.spLockups)
      /\ l.reverted => c.reverted
      /\ ~c.reverted => LoopFunds(c) = Plus(LoopFunds(l), item.sp, t, share)
  <2>1. t \in Tokens /\ share \in Nat
    BY <1>1, <1>3
  <2> HIDE DEF share, t, u, fee, b, p, bs, ps, m
  <2> QED  BY <1>2, <2>1, CreditEffect DEF LoopFunds
<1>6. c \in LoopState /\ SameButCredit(l, c)
  BY <1>5
<1>7. m = [c EXCEPT !.balances[u][t] = @ - item.amount,
                    !.platformEarnings[t] = @ + fee,
                    !.totalAmount = @ + item.amount,
                    !.settledCount = @ + 1,
                    !.requestCount = @ + item.requests,
                    !.tokenCount = @ + item.tokens]
  BY DEF Charge
<1>8. b \in Nat /\ p \in Nat
  BY <1>1, <1>3, <1>4 DEF Books
<1>9. /\ bs \in Books
      /\ \A a \in Accounts, v \in Tokens :
            bs[a][v] = IF a = u /\ v = t THEN b ELSE l.balances[a][v]
  <2> HIDE DEF b, u, t
  <2> QED  BY <1>1, <1>4, <1>8, TableEntry DEF Books
<1>10. /\ ps \in [Tokens -> Nat]
       /\ \A v \in Tokens : ps[v] = IF v = t THEN p ELSE l.platformEarnings[v]
  <2> HIDE DEF p, t
  <2> QED  BY <1>1, <1>4, <1>8
<1>11. /\ m \in LoopState
       /\ m.balances = bs /\ m.platformEarnings = ps
       /\ m.spEarnings = c.spEarnings /\ m.spLockups = c.spLockups
       /\ m.reverted = c.reverted
       /\ m.totalAmount = l.totalAmount + item.amount
       /\ m.settledCount = l.settledCount + 1
       /\ m.failedCount = l.failedCount
       /\ m.requestCount = l.requestCount + item.requests
       /\ m.tokenCount = l.tokenCount + item.tokens
  <2>1. /\ bs = [c.balances EXCEPT ![u][t] = @ - item.amount]
        /\ ps = [c.platformEarnings EXCEPT ![t] = @ + fee]
    <3> HIDE DEF c, u, t, fee
    <3> QED  BY <1>6 DEF SameButCredit
  <2>2. m = [c EXCEPT !.balances = bs, !.platformEarnings = ps,
                      !.totalAmount = l.totalAmount + item.amount,
                      !.settledCount = l.settledCount + 1,
                      !.requestCount = l.requestCount + item.requests,
                      !.tokenCount = l.tokenCount + item.tokens]
    <3> HIDE DEF c, m, fee, bs, ps, u, t
    <3> QED  BY <1>6, <1>7, <2>1, Zenon DEF SameButCredit
  <2>3. /\ l.totalAmount + item.amount \in Nat /\ l.settledCount + 1 \in Nat
        /\ l.requestCount + item.requests \in Nat
        /\ l.tokenCount + item.tokens \in Nat
    BY <1>1, <1>4
  <2>4. bs \in Books /\ ps \in [Tokens -> Nat]
    BY <1>9, <1>10
  <2> HIDE DEF c, m, bs, ps, u, t, fee, share, b, p
  <2> QED  BY <1>6, <2>2, <2>3, <2>4 DEF LoopState, SameButCredit
<1>12. LoopFunds(m) = LoopFunds(c)
  BY <1>11 DEF LoopFunds
<1>13. Charged(l, item, m)
  <2>1. ASSUME NEW a \in Accounts, NEW v \in Tokens
        PROVE  m.balances[a][v] = l.balances[a][v]
                    - IF a = item.user /\ v = item.token THEN item.amount ELSE 0
    <3>1. l.balances[a][v] \in Nat
      BY <1>4 DEF Books
    <3> HIDE DEF m, bs
    <3> QED  BY <1>9, <1>11, <3>1
  <2>2. ASSUME NEW v \in Tokens
        PROVE  m.platformEarnings[v] = l.platformEarnings[v]
                    + IF v = item.token THEN Fee(item.amount, platformFeeBps) ELSE 0
    <3>1. l.platformEarnings[v] \in Nat
      BY <1>4
    <3> HIDE DEF m, ps
    <3> QED  BY <1>10, <1>11, <3>1
  <2>3. ~m.reverted => LoopFunds(m) = Plus(LoopFunds(l), item.sp, item.token, share)
    <3> HIDE DEF m, c
    <3> QED  BY <1>5, <1>11, <1>12
  <2> HIDE DEF m, c
  <2> QED  BY <1>11, <2>1, <2>2, <2>3 DEF Charged
<1> HIDE DEF m, c
<1> QED  BY <1>5, <1>11, <1>13 DEF m

\* What an item of a batch does to the loop.
LEMMA ItemEffect ==
    ASSUME TypeOK, NEW l \in LoopState, QueuesFit(l.spLockups), NEW item \in Item
    PROVE  LET m == SettleItem(l, item)
           IN  /\ m \in LoopState /\ QueuesFit(m.spLockups)
               /\ l.reverted => m.reverted
               /\ Chargeable(l, item) => Charged(l, item, m)
               /\ ~Chargeable(l, item) => m = [l EXCEPT !.failedCount = l.failedCount + 1]
<1>1. CASE Chargeable(l, item)
  BY <1>1, ChargeEffect DEF SettleItem
<1>2. CASE ~Chargeable(l, item)
  <2> DEFINE m == SettleItem(l, item)
  <2>1. m = [l EXCEPT !.failedCount = l.failedCount + 1]
    BY <1>2 DEF SettleItem
  <2>2. m \in LoopState /\ m.spLockups = l.spLockups /\ m.reverted = l.reverted
    <3> HIDE DEF m
    <3> QED  BY <2>1 DEF LoopState
  <2> HIDE DEF m
  <2> QED  BY <1>2, <2>1, <2>2 DEF m
<1> QED  BY <1>1, <1>2

\* g runs through the loop over the first n items.
LoopIs(items, n, g) ==
    g = [i \in 0 .. n |->
            IF i = 0 THEN LoopStart ELSE SettleItem(g[i - 1], items[i])]

\* There is a function that runs through the loop, for any number of items.
LEMMA LoopExists ==
    ASSUME NEW items, NEW n \in Nat
    PROVE  \E g : LoopIs(items, n, g)
<1> DEFINE S == {k \in Nat : \E g : LoopIs(items, k, g)}
<1>1. 0 \in S
  <2>1. LoopIs(items, 0, [i \in 0 .. 0 |-> LoopStart])
    BY DEF LoopIs
  <2> QED  BY <2>1
<1>2. ASSUME NEW k \in Nat, k \in S PROVE k + 1 \in S
  <2>1. PICK g : LoopIs(items, k, g)
    BY <1>2
  <2> DEFINE h == [i \in 0 .. k + 1 |->
                    IF i = k + 1 THEN SettleItem(g[k], items[k + 1]) ELSE g[i]]
  <2>2. LoopIs(items, k + 1, h)
    BY <2>1 DEF LoopIs
  <2> QED  BY <2>2
<1>3. Nat \subseteq S
  <2> HIDE DEF S
  <2> QED  BY <1>1, <1>2, SetInduction
<1> QED  BY <1>3

\* The loop starts from storage and takes the items one by one.
LEMMA LoopUnfolds ==
    ASSUME NEW items \in Seq(Item)
    PROVE  /\ Loop(items)[0] = LoopStart
           /\ \A k \in 0 .. Len(items) - 1 :
                Loop(items)[k + 1] = SettleItem(Loop(items)[k], items[k + 1])
<1>1. LoopIs(items, Len(items), Loop(items))
  <2>1. PICK g : LoopIs(items, Len(items), g)
    BY LoopExists
  <2>2. Loop(items) = CHOOSE f : LoopIs(items, Len(items), f)
    BY DEF Loop, LoopIs
  <2> QED  BY <2>1, <2>2
<1>2. Len(items) \in Nat
  OBVIOUS
<1> QED  BY <1>1, <1>2 DEF LoopIs

\* All through the loop its state is well typed and its queues fit, and each
\* item is charged or counted as failed.
LEMMA LoopRuns ==
    ASSUME TypeOK, QueuesFit(spLockups), NEW items \in Seq(Item)
    PROVE  /\ \A k \in 0 .. Len(items) :
                Loop(items)[k] \in LoopState /\ QueuesFit(Loop(items)[k].spLockups)
           /\ \A k \in 0 .. Len(items) - 1 :
                LET l    == Loop(items)[k]
                    m    == Loop(items)[k + 1]
                    item == items[k + 1]
                IN  /\ item \in Item
                    /\ l.reverted => m.reverted
                    /\ Chargeable(l, item) => Charged(l, item, m)
                    /\ ~Chargeable(l, item)
                        => m = [l EXCEPT !.failedCount = l.failedCount + 1]
<1> DEFINE n == Len(items)
           L(k) == Loop(items)[k]
           S == {k \in 0 .. n : L(k) \in LoopState /\ QueuesFit(L(k).spLockups)}
<1>1. n \in Nat /\ \A k \in 0 .. n - 1 : items[k + 1] \in Item
  OBVIOUS
<1>2. L(0) = LoopStart /\ \A k \in 0 .. n - 1 : L(k + 1) = SettleItem(L(k), items[k + 1])
  BY LoopUnfolds
<1>3. LoopStart \in LoopState /\ LoopStart.spLockups = spLockups
  BY Types DEF LoopStart, LoopState, MoneyTypes
<1>4. 0 \in S
  BY <1>1, <1>2, <1>3
<1>5. ASSUME NEW k \in 0 .. n - 1, k \in S
      PROVE  /\ k + 1 \in S
             /\ L(k).reverted => L(k + 1).reverted
             /\ Chargeable(L(k), items[k + 1]) => Charged(L(k), items[k + 1], L(k + 1))
             /\ ~Chargeable(L(k), items[k + 1])
                    => L(k + 1) = [L(k) EXCEPT !.failedCount = L(k).failedCount + 1]
  <2>1. L(k) \in LoopState /\ QueuesFit(L(k).spLockups) /\ items[k + 1] \in Item
    BY <1>1, <1>5
  <2>2. k + 1 \in 0 .. n
    BY <1>1
  <2> HIDE DEF L
  <2> QED  BY <1>2, <2>1, <2>2, ItemEffect
<1>6. 0 .. n \subseteq S
  <2> HIDE DEF S, n
  <2> QED  BY <1>1, <1>4, <1>5, IntervalInduction
<1> QED  BY <1>1, <1>5, <1>6

-----------------------------------------------------------------------------
(* Types and queues *)

\* The queue of a provider after maturing holds what it held less what was
\* released.
LEMMA MaturedHere ==
    ASSUME TypeOK, QueuesFit(spLockups),
           NEW sp \in Accounts, NEW token \in Tokens, NEW max \in Nat
    PROVE  LET m == AfterMaturing(sp, token, max)
           IN  /\ m.queue \in Seq(Entries(MaxUint192))
               /\ m.cursor \in 0 .. Len(m.queue)
               /\ WellFormed(m.queue, m.cursor)
               /\ m.released \in Nat
               /\ TotalIn(m.queue, m.cursor) \in Nat
               /\ LockedUp(sp, token) = TotalIn(m.queue, m.cursor) + m.released
<1> DEFINE q == spLockups[sp][token]
           c == spLockupCursor[sp][token]
           m == AfterMaturing(sp, token, max)
<1>1. /\ MaxUint192 \in Nat /\ now \in Nat
      /\ q \in Seq(Entries(MaxUint192)) /\ c \in 0 .. Len(q) /\ WellFormed(q, c)
  BY Types, NumbersAssumption DEF MoneyTypes, SettingTypes, Queues, QueuesFit
<1>2. m = Matured(q, c, now, max)
  BY DEF AfterMaturing
<1>3. LockedUp(sp, token) = TotalIn(q, c)
  BY DEF LockedUp
<1> HIDE DEF q, c, m
<1>4. /\ m.queue \in Seq(Entries(MaxUint192))
      /\ m.cursor \in 0 .. Len(m.queue)
      /\ m.released \in Nat
      /\ WellFormed(m.queue, m.cursor)
  BY <1>1, <1>2, MaturedIsAQueue
<1>5. TotalIn(q, c) = TotalIn(m.queue, m.cursor) + m.released
  BY <1>1, <1>2, MaturingConserves
<1>6. TotalIn(m.queue, m.cursor) \in Nat
  BY <1>1, <1>4, WholeQueue
<1> QED  BY <1>3, <1>4, <1>5, <1>6 DEF m

\* What a confiscation takes from the matured queue is what it held less.
LEMMA SeizedHere ==
    ASSUME TypeOK, QueuesFit(spLockups),
           NEW sp \in Accounts, NEW token \in Tokens
    PROVE  LET m == AfterMaturing(sp, token, 0)
               s == Seized(m.queue, m.cursor, now)
           IN  /\ s.queue \in Seq(Entries(MaxUint192))
               /\ m.cursor \in 0 .. Len(s.queue)
               /\ WellFormed(s.queue, m.cursor)
               /\ s.amount \in Nat
               /\ TotalIn(s.queue, m.cursor) \in Nat
               /\ TotalIn(m.queue, m.cursor) = TotalIn(s.queue, m.cursor) + s.amount
<1> DEFINE m == AfterMaturing(sp, token, 0)
           s == Seized(m.queue, m.cursor, now)
<1>1. MaxUint192 \in Nat /\ now \in Nat /\ 0 \in Nat
  BY Types, NumbersAssumption DEF SettingTypes
<1>2. /\ m.queue \in Seq(Entries(MaxUint192)) /\ m.cursor \in 0 .. Len(m.queue)
      /\ WellFormed(m.queue, m.cursor)
  BY <1>1, MaturedHere
<1> HIDE DEF m
<1>3. /\ s.queue \in Seq(Entries(MaxUint192)) /\ Len(s.queue) = Len(m.queue)
      /\ s.amount \in Nat /\ WellFormed(s.queue, m.cursor)
  BY <1>1, <1>2, SeizedIsAQueue
<1>4. TotalIn(m.queue, m.cursor) = TotalIn(s.queue, m.cursor) + s.amount
  BY <1>1, <1>2, SeizingConserves
<1> HIDE DEF s
<1>5. TotalIn(s.queue, m.cursor) \in Nat
  BY <1>1, <1>2, <1>3, WholeQueue
<1> QED  BY <1>2, <1>3, <1>4, <1>5 DEF s, m

\* One queue is replaced by one that fits.
LEMMA QueueReplaced ==
    ASSUME TypeOK, QueuesFit(spLockups),
           NEW sp \in Accounts, NEW token \in Tokens,
           NEW queue \in Seq(Entries(MaxUint192)), NEW cursor \in 0 .. Len(queue),
           WellFormed(queue, cursor),
           spLockups' = [spLockups EXCEPT ![sp][token] = queue],
           spLockupCursor' = [spLockupCursor EXCEPT ![sp][token] = cursor]
    PROVE  /\ spLockups' \in Queues /\ spLockupCursor' \in Books
           /\ QueuesFit(spLockups)'
           /\ \A a \in Accounts, t \in Tokens :
                TotalIn(spLockups'[a][t], spLockupCursor'[a][t])
                    = IF a = sp /\ t = token THEN TotalIn(queue, cursor)
                      ELSE LockedUp(a, t)
<1>1. spLockups \in Queues /\ spLockupCursor \in Books /\ cursor \in Nat
  BY Types DEF MoneyTypes
<1>2. /\ spLockups' \in Queues
      /\ \A a \in Accounts, t \in Tokens :
            spLockups'[a][t] = IF a = sp /\ t = token THEN queue ELSE spLockups[a][t]
  BY <1>1, TableEntry DEF Queues
<1>3. /\ spLockupCursor' \in Books
      /\ \A a \in Accounts, t \in Tokens :
            spLockupCursor'[a][t] =
                IF a = sp /\ t = token THEN cursor ELSE spLockupCursor[a][t]
  BY <1>1, TableEntry DEF Books
<1>4. QueuesFit(spLockups)'
  BY <1>2, <1>3 DEF QueuesFit
<1>5. ASSUME NEW a \in Accounts, NEW t \in Tokens
      PROVE  TotalIn(spLockups'[a][t], spLockupCursor'[a][t])
                = IF a = sp /\ t = token THEN TotalIn(queue, cursor) ELSE LockedUp(a, t)
  <2>1. LockedUp(a, t) = TotalIn(spLockups[a][t], spLockupCursor[a][t])
    BY DEF LockedUp
  <2> QED  BY <1>2, <1>3, <2>1
<1> QED  BY <1>2, <1>3, <1>4, <1>5

\* What a batch writes back is well typed.
LEMMA BatchTypes ==
    ASSUME TypeOK, QueuesFit(spLockups),
           NEW items \in Batches, NEW detailsHash \in Hashes,
           SubmitSettlement(operator, items, detailsHash)
    PROVE  /\ Loop(items)[Len(items)] \in LoopState
           /\ ~Loop(items)[Len(items)].reverted
           /\ balances' \in Books /\ spEarnings' \in Books /\ spLockups' \in Queues
           /\ platformEarnings' \in [Tokens -> Nat]
           /\ settlements' \in Seq(Record) /\ processedBatches' \subseteq Hashes
           /\ cumulativeRequests' \in Nat /\ cumulativeTokens' \in Nat
           /\ QueuesFit(spLockups)'
<1> DEFINE done == Loop(items)[Len(items)]
           record == [timestamp |-> now, totalAmount |-> done.totalAmount,
                      settledCount |-> done.settledCount,
                      failedCount |-> done.failedCount, detailsHash |-> detailsHash,
                      requestCount |-> done.requestCount,
                      tokenCount |-> done.tokenCount]
<1>1. done \in LoopState /\ QueuesFit(done.spLockups)
  <2>1. items \in Seq(Item) /\ Len(items) \in 0 .. Len(items)
    BY BatchesAssumption
  <2> QED  BY <2>1, LoopRuns
<1>2. /\ ~done.reverted
      /\ processedBatches' = processedBatches \cup {detailsHash}
      /\ balances' = done.balances /\ spEarnings' = done.spEarnings
      /\ spLockups' = done.spLockups /\ platformEarnings' = done.platformEarnings
      /\ cumulativeRequests' = cumulativeRequests + done.requestCount
      /\ cumulativeTokens' = cumulativeTokens + done.tokenCount
      /\ settlements' = Append(settlements, record)
      /\ spLockupCursor' = spLockupCursor
  BY Zenon DEF SubmitSettlement
<1>3. /\ settlements \in Seq(Record) /\ processedBatches \subseteq Hashes
      /\ cumulativeRequests \in Nat /\ cumulativeTokens \in Nat /\ now \in Nat
  BY Types, NumbersAssumption DEF MoneyTypes, SettingTypes
<1> HIDE DEF done
<1>4. /\ done.balances \in Books /\ done.spEarnings \in Books
      /\ done.spLockups \in Queues /\ done.platformEarnings \in [Tokens -> Nat]
      /\ done.totalAmount \in Nat /\ done.settledCount \in Nat
      /\ done.failedCount \in Nat /\ done.requestCount \in Nat
      /\ done.tokenCount \in Nat
  BY <1>1 DEF LoopState
<1>5. record \in Record
  BY <1>3, <1>4 DEF Record
<1> HIDE DEF record
<1>6. settlements' \in Seq(Record)
  BY <1>2, <1>3, <1>5
<1>7. QueuesFit(spLockups)'
  BY <1>1, <1>2 DEF QueuesFit
<1>8. /\ balances' \in Books /\ spEarnings' \in Books /\ spLockups' \in Queues
      /\ platformEarnings' \in [Tokens -> Nat]
      /\ cumulativeRequests' \in Nat /\ cumulativeTokens' \in Nat
  BY <1>2, <1>3, <1>4, SMTT(30)
<1>9. processedBatches' \subseteq Hashes
  BY <1>2, <1>3
<1> QED  BY <1>1, <1>2, <1>6, <1>7, <1>8, <1>9 DEF done

\* A payment leaves holdings an amount.
LEMMA PaymentType ==
    ASSUME TypeOK, NEW token \in Tokens, NEW to, NEW amount \in Nat,
           TransferOut(token, to, amount)
    PROVE  /\ holdings' \in [Tokens -> Nat] /\ uncredited' = uncredited
           /\ \A t \in Tokens :
                holdings'[t] = holdings[t] - IF t = token THEN amount ELSE 0
<1>1. holdings \in [Tokens -> Nat]
  BY Types DEF MoneyTypes
<1>2. /\ holdings[token] >= amount /\ uncredited' = uncredited
      /\ holdings' = [holdings EXCEPT ![token] = holdings[token] - amount]
  BY DEF TransferOut
<1>3. holdings[token] - amount \in Nat
  BY <1>1, <1>2
<1> QED  BY <1>1, <1>2, <1>3

\* Every step keeps the books well typed and the queues in shape.
LEMMA MoneyStep ==
    ASSUME TypeOK, QueuesFit(spLockups), LocksFit, [Next]_vars
    PROVE  MoneyTypes' /\ QueuesFit(spLockups)'
<1> DEFINE Requests == /\ lockedForRefund' \in Books
                       /\ refundRequests' \in Seq(RefundRequest)
<1>r. Requests
  BY RequestStep
<1>t. MoneyTypes
  BY Types
<1>n. 0 \in Nat
  OBVIOUS
<1>1. CASE UNCHANGED moneyVars
  BY <1>1, <1>t DEF moneyVars, userVars, spVars, batchVars, assetVars, MoneyTypes, QueuesFit
<1>2. ASSUME NEW token \in Tokens, NEW value \in Nat, SendUncredited(token, value)
      PROVE  MoneyTypes' /\ QueuesFit(spLockups)'
  <2>1. holdings[token] + value \in Nat /\ uncredited[token] + value \in Nat
    BY <1>t DEF MoneyTypes
  <2> QED  BY <1>2, <1>t, <2>1 DEF SendUncredited, Arrives, storageVars, userVars,
                                   spVars, batchVars, MoneyTypes, QueuesFit
<1>3. ASSUME NEW sender \in Accounts, NEW token \in Tokens, NEW value \in Nat,
             Deposit(sender, token, value, value)
      PROVE  MoneyTypes' /\ QueuesFit(spLockups)'
  <2>1. holdings[token] + value \in Nat /\ balances[sender][token] + value \in Nat
    BY <1>t DEF MoneyTypes, Books
  <2>2. balances' = [balances EXCEPT ![sender][token] = balances[sender][token] + value]
    BY <1>3 DEF Deposit
  <2>3. balances' \in Books
    BY <1>t, <2>1, <2>2, TableEntry DEF MoneyTypes, Books
  <2> QED  BY <1>3, <1>t, <2>1, <2>3 DEF Deposit, Arrives, spVars, batchVars,
                                         MoneyTypes, QueuesFit
<1>4. ASSUME NEW sender \in Accounts, NEW token \in Tokens, NEW amount \in Nat,
             RequestRefund(sender, token, amount)
      PROVE  MoneyTypes' /\ QueuesFit(spLockups)'
  BY <1>4, <1>r, <1>t DEF RequestRefund, spVars, batchVars, assetVars, MoneyTypes, QueuesFit
<1>5. ASSUME NEW sender \in Accounts, NEW id \in DOMAIN refundRequests,
             CancelRefund(sender, id)
      PROVE  MoneyTypes' /\ QueuesFit(spLockups)'
  BY <1>5, <1>r, <1>t DEF CancelRefund, spVars, batchVars, assetVars, MoneyTypes, QueuesFit
<1>6. ASSUME NEW sender \in Accounts, NEW id \in DOMAIN refundRequests,
             ClaimRefund(sender, id)
      PROVE  MoneyTypes' /\ QueuesFit(spLockups)'
  <2> DEFINE req == refundRequests[id]
             v   == balances[req.user][req.token] - req.amount
  <2>1. req.user \in Accounts /\ req.token \in Tokens /\ req.amount \in Nat
    BY <1>t, RequestType DEF MoneyTypes
  <2>2. /\ balances[req.user][req.token] >= req.amount
        /\ balances' = [balances EXCEPT ![req.user][req.token] = v]
        /\ TransferOut(req.token, sender, req.amount)
    BY <1>6 DEF ClaimRefund, Claimable, BookClaim
  <2>3. v \in Nat
    <3>1. balances[req.user][req.token] \in Nat
      <4> HIDE DEF req
      <4> QED  BY <1>t, <2>1 DEF MoneyTypes, Books
    <3>2. v = balances[req.user][req.token] - req.amount
      OBVIOUS
    <3> HIDE DEF req, v
    <3> QED  BY <2>1, <2>2, <3>1, <3>2
  <2>4. UNCHANGED <<spVars, platformEarnings, batchVars>>
    BY <1>6 DEF ClaimRefund, BookClaim
  <2> HIDE DEF req, v
  <2>5. balances' \in Books
    BY <1>t, <2>1, <2>2, <2>3, TableEntry DEF MoneyTypes, Books
  <2>6. holdings' \in [Tokens -> Nat] /\ uncredited' = uncredited
    BY <2>1, <2>2, PaymentType
  <2> QED  BY <1>r, <1>t, <2>4, <2>5, <2>6 DEF spVars, batchVars, MoneyTypes, QueuesFit
<1>7. ASSUME NEW items \in Batches, NEW detailsHash \in Hashes,
             SubmitSettlement(operator, items, detailsHash)
      PROVE  MoneyTypes' /\ QueuesFit(spLockups)'
  <2>1. UNCHANGED <<spLockupCursor, assetVars>>
    BY <1>7 DEF SubmitSettlement
  <2> QED  BY <1>7, <1>r, <1>t, <2>1, BatchTypes DEF assetVars, MoneyTypes
<1>8. ASSUME NEW sp \in Accounts, NEW token \in Tokens, NEW max \in Nat,
             MatureEarnings(sp, token, max)
      PROVE  MoneyTypes' /\ QueuesFit(spLockups)'
  <2> DEFINE m == AfterMaturing(sp, token, max)
             v == spEarnings[sp][token] + m.released
  <2>1. /\ spLockups' = [spLockups EXCEPT ![sp][token] = m.queue]
        /\ spLockupCursor' = [spLockupCursor EXCEPT ![sp][token] = m.cursor]
        /\ spEarnings' = [spEarnings EXCEPT ![sp][token] = v]
        /\ UNCHANGED <<userVars, platformEarnings, batchVars, assetVars>>
    BY <1>8 DEF MatureEarnings
  <2>2. /\ m.queue \in Seq(Entries(MaxUint192)) /\ m.cursor \in 0 .. Len(m.queue)
        /\ WellFormed(m.queue, m.cursor) /\ m.released \in Nat
    BY MaturedHere
  <2> HIDE DEF m
  <2>3. v \in Nat
    BY <1>t, <2>2 DEF MoneyTypes, Books
  <2> HIDE DEF v
  <2>4. spLockups' \in Queues /\ spLockupCursor' \in Books /\ QueuesFit(spLockups)'
    BY <2>1, <2>2, QueueReplaced
  <2>5. spEarnings' \in Books
    BY <1>t, <2>1, <2>3, TableEntry DEF MoneyTypes, Books
  <2> QED  BY <1>t, <2>1, <2>4, <2>5 DEF userVars, batchVars, assetVars, MoneyTypes
<1>9. ASSUME NEW sp \in Accounts, NEW token \in Tokens, WithdrawEarnings(sp, token)
      PROVE  MoneyTypes' /\ QueuesFit(spLockups)'
  <2> DEFINE m == AfterMaturing(sp, token, 0)
  <2>1. /\ spLockups' = [spLockups EXCEPT ![sp][token] = m.queue]
        /\ spLockupCursor' = [spLockupCursor EXCEPT ![sp][token] = m.cursor]
        /\ spEarnings' = [spEarnings EXCEPT ![sp][token] = 0]
        /\ UNCHANGED <<userVars, platformEarnings, batchVars>>
        /\ TransferOut(token, sp, EarningsOf(sp, token))
    BY <1>9 DEF WithdrawEarnings, BookWithdrawal
  <2>2. /\ m.queue \in Seq(Entries(MaxUint192)) /\ m.cursor \in 0 .. Len(m.queue)
        /\ WellFormed(m.queue, m.cursor) /\ m.released \in Nat
    BY <1>n, MaturedHere
  <2>3. EarningsOf(sp, token) \in Nat
    BY <1>t, <2>2 DEF EarningsOf, MoneyTypes, Books
  <2> HIDE DEF m
  <2>4. spLockups' \in Queues /\ spLockupCursor' \in Books /\ QueuesFit(spLockups)'
    BY <2>1, <2>2, QueueReplaced
  <2>5. spEarnings' \in Books
    BY <1>n, <1>t, <2>1, TableEntry DEF MoneyTypes, Books
  <2>6. holdings' \in [Tokens -> Nat] /\ uncredited' = uncredited
    BY <2>1, <2>3, PaymentType
  <2> QED  BY <1>t, <2>1, <2>4, <2>5, <2>6 DEF userVars, batchVars, MoneyTypes
<1>10. ASSUME NEW sp \in Accounts, NEW token \in Tokens,
              ConfiscateFrozenEarnings(arbiter, sp, token)
       PROVE  MoneyTypes' /\ QueuesFit(spLockups)'
  <2> DEFINE m == AfterMaturing(sp, token, 0)
             s == Seized(m.queue, m.cursor, now)
             v == spEarnings[sp][token] + m.released
             p == platformEarnings[token] + s.amount
  <2>1. /\ spLockups' = [spLockups EXCEPT ![sp][token] = s.queue]
        /\ spLockupCursor' = [spLockupCursor EXCEPT ![sp][token] = m.cursor]
        /\ spEarnings' = [spEarnings EXCEPT ![sp][token] = v]
        /\ platformEarnings' = [platformEarnings EXCEPT ![token] = p]
        /\ UNCHANGED <<userVars, batchVars, assetVars>>
    BY <1>10 DEF ConfiscateFrozenEarnings
  <2>2. m.released \in Nat
    BY <1>n, MaturedHere
  <2>3. /\ s.queue \in Seq(Entries(MaxUint192)) /\ m.cursor \in 0 .. Len(s.queue)
        /\ WellFormed(s.queue, m.cursor) /\ s.amount \in Nat
    BY SeizedHere
  <2> HIDE DEF s, m
  <2>4. v \in Nat /\ p \in Nat
    BY <1>t, <2>2, <2>3, SMTT(30) DEF MoneyTypes, Books
  <2> HIDE DEF v, p
  <2>5. spLockups' \in Queues /\ spLockupCursor' \in Books /\ QueuesFit(spLockups)'
    BY <2>1, <2>3, QueueReplaced
  <2>6. spEarnings' \in Books
    BY <1>t, <2>1, <2>4, TableEntry DEF MoneyTypes, Books
  <2>7. platformEarnings' \in [Tokens -> Nat]
    BY <1>t, <2>1, <2>4 DEF MoneyTypes
  <2> QED  BY <1>t, <2>1, <2>5, <2>6, <2>7 DEF userVars, batchVars, assetVars, MoneyTypes
<1>11. ASSUME NEW token \in Tokens, NEW to, WithdrawPlatformEarnings(owner, token, to)
       PROVE  MoneyTypes' /\ QueuesFit(spLockups)'
  <2>1. /\ platformEarnings' = [platformEarnings EXCEPT ![token] = 0]
        /\ UNCHANGED <<userVars, spVars, batchVars>>
        /\ TransferOut(token, to, platformEarnings[token])
    BY <1>11 DEF WithdrawPlatformEarnings, BookPlatformWithdrawal
  <2>2. platformEarnings[token] \in Nat /\ platformEarnings' \in [Tokens -> Nat]
    BY <1>t, <2>1 DEF MoneyTypes
  <2>3. holdings' \in [Tokens -> Nat] /\ uncredited' = uncredited
    BY <2>1, <2>2, PaymentType
  <2> QED  BY <1>t, <2>1, <2>2, <2>3 DEF userVars, spVars, batchVars, MoneyTypes, QueuesFit
<1>12. CASE UNCHANGED vars
  BY <1>1, <1>12 DEF vars, storageVars, moneyVars
<1> QED  BY <1>1, <1>2, <1>3, <1>4, <1>5, <1>6, <1>7, <1>8, <1>9, <1>10, <1>11, <1>12,
            StepKinds

\* A batch that was processed has its record, and no other batch has it.
LEMMA RecordStep ==
    ASSUME TypeOK, OneRecordPerBatch, [Next]_vars
    PROVE  OneRecordPerBatch'
<1>1. CASE UNCHANGED <<settlements, processedBatches>>
  BY <1>1 DEF OneRecordPerBatch
<1>2. ASSUME NEW items \in Batches, NEW detailsHash \in Hashes,
             SubmitSettlement(operator, items, detailsHash)
      PROVE  OneRecordPerBatch'
  <2>1. PICK record : /\ settlements' = Append(settlements, record)
                      /\ record.detailsHash = detailsHash
    BY <1>2 DEF SubmitSettlement
  <2>2. /\ processedBatches' = processedBatches \cup {detailsHash}
        /\ detailsHash \notin processedBatches
    BY <1>2 DEF SubmitSettlement, Fresh
  <2>3. settlements \in Seq(Record)
    BY Types DEF MoneyTypes
  <2> DEFINE n == Len(settlements) + 1
  <2>4. /\ DOMAIN settlements = 1 .. Len(settlements) /\ Len(settlements) \in Nat
        /\ DOMAIN settlements' = 1 .. n
        /\ settlements'[n] = record
        /\ \A b \in DOMAIN settlements : settlements'[b] = settlements[b]
    BY <2>1, <2>3
  <2>5. /\ DOMAIN settlements' = DOMAIN settlements \cup {n}
        /\ n \notin DOMAIN settlements
    BY <2>4
  <2>6. processedBatches = {settlements[b].detailsHash : b \in DOMAIN settlements}
    BY DEF OneRecordPerBatch
  <2> HIDE DEF n
  <2>7. processedBatches' = {settlements'[b].detailsHash : b \in DOMAIN settlements'}
    <3>1. \A h : h \in processedBatches
                    <=> \E b \in DOMAIN settlements : h = settlements[b].detailsHash
      BY <2>6
    <3> QED  BY <2>1, <2>2, <2>4, <2>5, <3>1
  <2>8. \A b \in DOMAIN settlements : settlements[b].detailsHash # detailsHash
    BY <2>2, <2>6
  <2>9. \A b, c \in DOMAIN settlements' :
            settlements'[b].detailsHash = settlements'[c].detailsHash => b = c
    BY <2>1, <2>4, <2>5, <2>8 DEF OneRecordPerBatch
  <2> QED  BY <2>7, <2>9 DEF OneRecordPerBatch
<1>3. CASE Next
  <2>1. CASE UNCHANGED moneyVars
    BY <1>1, <2>1 DEF moneyVars, batchVars
  <2>2. CASE \E token \in Tokens, value \in Nat : SendUncredited(token, value)
    BY <1>1, <2>2 DEF SendUncredited, storageVars, batchVars
  <2>3. CASE \E sender \in Accounts, token \in Tokens, value \in Nat :
                \/ Deposit(sender, token, value, value)
                \/ RequestRefund(sender, token, value)
    BY <1>1, <2>3 DEF Deposit, RequestRefund, batchVars
  <2>4. CASE \E sender \in Accounts, id \in DOMAIN refundRequests :
                CancelRefund(sender, id) \/ ClaimRefund(sender, id)
    BY <1>1, <2>4 DEF CancelRefund, ClaimRefund, BookClaim, batchVars
  <2>5. CASE \E sp \in Accounts, token \in Tokens, max \in Nat :
                MatureEarnings(sp, token, max)
    BY <1>1, <2>5 DEF MatureEarnings, batchVars
  <2>6. CASE \E sp \in Accounts, token \in Tokens :
                \/ WithdrawEarnings(sp, token)
                \/ ConfiscateFrozenEarnings(arbiter, sp, token)
    BY <1>1, <2>6 DEF WithdrawEarnings, BookWithdrawal, ConfiscateFrozenEarnings, batchVars
  <2>7. CASE \E token \in Tokens, to \in Accounts \cup {NoOne} :
                WithdrawPlatformEarnings(owner, token, to)
    BY <1>1, <2>7 DEF WithdrawPlatformEarnings, BookPlatformWithdrawal, batchVars
  <2> QED  BY <1>2, <1>3, <2>1, <2>2, <2>3, <2>4, <2>5, <2>6, <2>7, StepKinds
<1> QED  BY <1>1, <1>3 DEF vars, storageVars, batchVars

-----------------------------------------------------------------------------
(* What a step does to refund requests *)

\* A request that a step changes was open and is now ended, on its own terms.
LEMMA RequestTerms ==
    ASSUME TypeOK, [Next]_vars, NEW id \in DOMAIN refundRequests
    PROVE  LET old == refundRequests[id]
               new == refundRequests'[id]
           IN  \/ new = old
               \/ id \in Pending /\ new = [old EXCEPT !.cancelled = TRUE]
               \/ /\ id \in Pending /\ new = [old EXCEPT !.claimed = TRUE]
                  /\ now >= old.claimableAt
                  /\ balances'[old.user][old.token] + old.amount
                        = balances[old.user][old.token]
                  /\ holdings'[old.token] + old.amount = holdings[old.token]
<1> DEFINE Kept == refundRequests'[id] = refundRequests[id]
           Goal == \/ Kept
                   \/ /\ id \in Pending
                      /\ refundRequests'[id] = [refundRequests[id] EXCEPT !.cancelled = TRUE]
                   \/ /\ id \in Pending
                      /\ refundRequests'[id] = [refundRequests[id] EXCEPT !.claimed = TRUE]
                      /\ now >= refundRequests[id].claimableAt
                      /\ balances'[refundRequests[id].user][refundRequests[id].token]
                            + refundRequests[id].amount
                            = balances[refundRequests[id].user][refundRequests[id].token]
                      /\ holdings'[refundRequests[id].token] + refundRequests[id].amount
                            = holdings[refundRequests[id].token]
<1> SUFFICES Goal
  OBVIOUS
<1>t. /\ refundRequests \in Seq(RefundRequest) /\ balances \in Books
      /\ holdings \in [Tokens -> Nat]
  BY Types DEF MoneyTypes
<1>1. CASE UNCHANGED refundRequests
  BY <1>1
<1>2. ASSUME NEW sender \in Accounts, NEW token \in Tokens, NEW amount \in Nat,
             RequestRefund(sender, token, amount)
      PROVE  Kept
  <2>1. PICK req : refundRequests' = Append(refundRequests, req)
    BY <1>2 DEF RequestRefund
  <2> QED  BY <1>t, <2>1
<1>3. ASSUME NEW sender \in Accounts, NEW other \in DOMAIN refundRequests,
             CancelRefund(sender, other)
      PROVE  Goal
  <2>1. /\ refundRequests' = [refundRequests EXCEPT ![other].cancelled = TRUE]
        /\ other \in Pending
    BY <1>3 DEF CancelRefund, Open, Pending
  <2> QED  BY <2>1, Zenon
<1>4. ASSUME NEW sender \in Accounts, NEW other \in DOMAIN refundRequests,
             ClaimRefund(sender, other)
      PROVE  Goal
  <2> DEFINE req == refundRequests[other]
             v   == balances[req.user][req.token] - req.amount
  <2>1. /\ refundRequests' = [refundRequests EXCEPT ![other].claimed = TRUE]
        /\ other \in Pending /\ now >= req.claimableAt
        /\ balances' = [balances EXCEPT ![req.user][req.token] = v]
        /\ balances[req.user][req.token] >= req.amount
        /\ TransferOut(req.token, sender, req.amount)
    BY <1>4 DEF ClaimRefund, BookClaim, Claimable, Open, Due, Pending
  <2>2. req.user \in Accounts /\ req.token \in Tokens /\ req.amount \in Nat
    BY <1>t, RequestType
  <2>3. v = balances[req.user][req.token] - req.amount
    OBVIOUS
  <2> HIDE DEF req, v
  <2>4. balances[req.user][req.token] \in Nat /\ holdings[req.token] \in Nat
    BY <1>t, <2>2 DEF Books
  <2>5. v \in Nat
    BY <2>1, <2>2, <2>3, <2>4
  <2>6. balances'[req.user][req.token] = v
    BY <1>t, <2>1, <2>2, <2>5, TableEntry DEF Books
  <2>7. holdings'[req.token] = holdings[req.token] - req.amount
    BY <2>1, <2>2, PaymentType
  <2>8. /\ balances'[req.user][req.token] + req.amount = balances[req.user][req.token]
        /\ holdings'[req.token] + req.amount = holdings[req.token]
    BY <2>2, <2>3, <2>4, <2>6, <2>7
  <2>9. CASE other = id
    BY <2>1, <2>8, <2>9, Zenon DEF req
  <2>10. CASE other # id
    BY <2>1, <2>10
  <2> QED  BY <2>9, <2>10
<1>k. Kept => Goal
  OBVIOUS
<1> HIDE DEF Goal, Kept
<1>5. CASE Next
  <2>1. CASE UNCHANGED moneyVars
    BY <1>1, <2>1 DEF moneyVars, userVars
  <2>2. CASE \E token \in Tokens, value \in Nat : SendUncredited(token, value)
    BY <1>1, <2>2 DEF SendUncredited, storageVars, userVars
  <2>3. CASE \E sender \in Accounts, token \in Tokens, value \in Nat :
                Deposit(sender, token, value, value)
    BY <1>1, <2>3 DEF Deposit
  <2>4. CASE \E items \in Batches, detailsHash \in Hashes :
                SubmitSettlement(operator, items, detailsHash)
    BY <1>1, <2>4 DEF SubmitSettlement
  <2>5. CASE \E sp \in Accounts, token \in Tokens, max \in Nat :
                MatureEarnings(sp, token, max)
    BY <1>1, <2>5 DEF MatureEarnings, userVars
  <2>6. CASE \E sp \in Accounts, token \in Tokens :
                \/ WithdrawEarnings(sp, token)
                \/ ConfiscateFrozenEarnings(arbiter, sp, token)
    BY <1>1, <2>6 DEF WithdrawEarnings, BookWithdrawal, ConfiscateFrozenEarnings, userVars
  <2>7. CASE \E token \in Tokens, to \in Accounts \cup {NoOne} :
                WithdrawPlatformEarnings(owner, token, to)
    BY <1>1, <2>7 DEF WithdrawPlatformEarnings, BookPlatformWithdrawal, userVars
  <2> QED  BY <1>2, <1>3, <1>4, <1>5, <1>k, <2>1, <2>2, <2>3, <2>4, <2>5, <2>6, <2>7,
              StepKinds
<1> QED  BY <1>1, <1>5 DEF vars, storageVars, userVars

\* Only settlement takes from a balance what is locked.
LEMMA LocksOutrun ==
    ASSUME TypeOK, LocksFit, [Next]_vars, NEW user \in Accounts, NEW token \in Tokens,
           lockedForRefund[user][token] <= balances[user][token]
    PROVE  \/ lockedForRefund'[user][token] <= balances'[user][token]
           \/ settlementNonce' = settlementNonce + 1
<1> DEFINE Covered == lockedForRefund'[user][token] <= balances'[user][token]
<1>t. /\ balances \in Books /\ lockedForRefund \in Books
      /\ refundRequests \in Seq(RefundRequest) /\ settlements \in Seq(Record)
      /\ lockedForRefund' \in Books
  BY RequestStep, Types DEF MoneyTypes
<1>n. /\ balances[user][token] \in Nat /\ lockedForRefund[user][token] \in Nat
      /\ lockedForRefund'[user][token] \in Nat
  BY <1>t DEF Books
<1>1. CASE UNCHANGED <<balances, lockedForRefund>>
  BY <1>1
<1>2. ASSUME NEW sender \in Accounts, NEW t \in Tokens, NEW value \in Nat,
             Deposit(sender, t, value, value)
      PROVE  Covered
  <2> DEFINE v == balances[sender][t] + value
  <2>1. /\ balances' = [balances EXCEPT ![sender][t] = v]
        /\ lockedForRefund' = lockedForRefund
    BY <1>2 DEF Deposit
  <2>2. v \in Nat /\ v >= balances[sender][t]
    BY <1>t DEF Books
  <2> HIDE DEF v
  <2>3. balances'[user][token]
            = IF user = sender /\ token = t THEN v ELSE balances[user][token]
    BY <1>t, <2>1, <2>2, TableEntry DEF Books
  <2> QED  BY <1>n, <2>1, <2>2, <2>3
<1>3. ASSUME NEW sender \in Accounts, NEW t \in Tokens, NEW amount \in Nat,
             RequestRefund(sender, t, amount)
      PROVE  Covered
  <2> DEFINE v == lockedForRefund[sender][t] + amount
  <2>1. /\ lockedForRefund' = [lockedForRefund EXCEPT ![sender][t] = v]
        /\ balances' = balances /\ amount > 0 /\ amount <= Free(sender, t)
    BY <1>3 DEF RequestRefund
  <2>2. balances[sender][t] \in Nat /\ lockedForRefund[sender][t] \in Nat
    BY <1>t DEF Books
  <2>3. v \in Nat /\ v <= balances[sender][t]
    BY <2>1, <2>2 DEF Free
  <2> HIDE DEF v
  <2>4. lockedForRefund'[user][token]
            = IF user = sender /\ token = t THEN v ELSE lockedForRefund[user][token]
    BY <1>t, <2>1, <2>3, TableEntry DEF Books
  <2> QED  BY <1>n, <2>1, <2>3, <2>4
<1>4. ASSUME NEW sender \in Accounts, NEW id \in DOMAIN refundRequests,
             CancelRefund(sender, id) \/ ClaimRefund(sender, id)
      PROVE  Covered
  <2> DEFINE req == refundRequests[id]
             v   == lockedForRefund[req.user][req.token] - req.amount
             b   == balances[req.user][req.token] - req.amount
  <2>1. /\ lockedForRefund' = [lockedForRefund EXCEPT ![req.user][req.token] = v]
        /\ \/ balances' = balances
           \/ balances' = [balances EXCEPT ![req.user][req.token] = b]
    BY <1>4 DEF CancelRefund, ClaimRefund, BookClaim
  <2>2. req.user \in Accounts /\ req.token \in Tokens /\ req.amount \in Nat
    BY <1>t, RequestType
  <2>3. /\ v = lockedForRefund[req.user][req.token] - req.amount
        /\ b = balances[req.user][req.token] - req.amount
    OBVIOUS
  <2> HIDE DEF req, v, b
  <2>4. lockedForRefund[req.user][req.token] \in Nat /\ balances[req.user][req.token] \in Nat
    BY <1>t, <2>2 DEF Books
  <2>7. lockedForRefund'[user][token]
            = IF user = req.user /\ token = req.token THEN v
              ELSE lockedForRefund[user][token]
    BY <1>t, <2>1, <2>2 DEF Books
  <2>8. \/ balances'[user][token] = balances[user][token]
        \/ balances'[user][token]
            = IF user = req.user /\ token = req.token THEN b ELSE balances[user][token]
    <3>1. CASE balances' = balances
      BY <3>1
    <3>2. CASE balances' = [balances EXCEPT ![req.user][req.token] = b]
      <4>1. balances'[user][token]
                = IF user = req.user /\ token = req.token THEN b ELSE balances[user][token]
        BY <1>t, <2>2, <3>2 DEF Books
      <4> QED  BY <4>1
    <3> QED  BY <2>1, <3>1, <3>2
  <2> QED  BY <1>n, <2>2, <2>3, <2>4, <2>7, <2>8
<1>5. ASSUME NEW items \in Batches, NEW detailsHash \in Hashes,
             SubmitSettlement(operator, items, detailsHash)
      PROVE  settlementNonce' = settlementNonce + 1
  <2>1. PICK record : settlements' = Append(settlements, record)
    BY <1>5 DEF SubmitSettlement
  <2> QED  BY <1>t, <2>1 DEF settlementNonce
<1>6. CASE Next
  <2>1. CASE UNCHANGED moneyVars
    BY <1>1, <2>1 DEF moneyVars, userVars
  <2>2. CASE \E t \in Tokens, value \in Nat : SendUncredited(t, value)
    BY <1>1, <2>2 DEF SendUncredited, storageVars, userVars
  <2>3. CASE \E sp \in Accounts, t \in Tokens, max \in Nat : MatureEarnings(sp, t, max)
    BY <1>1, <2>3 DEF MatureEarnings, userVars
  <2>4. CASE \E sp \in Accounts, t \in Tokens :
                WithdrawEarnings(sp, t) \/ ConfiscateFrozenEarnings(arbiter, sp, t)
    BY <1>1, <2>4 DEF WithdrawEarnings, BookWithdrawal, ConfiscateFrozenEarnings, userVars
  <2>5. CASE \E t \in Tokens, to \in Accounts \cup {NoOne} :
                WithdrawPlatformEarnings(owner, t, to)
    BY <1>1, <2>5 DEF WithdrawPlatformEarnings, BookPlatformWithdrawal, userVars
  <2> QED  BY <1>2, <1>3, <1>4, <1>5, <1>6, <2>1, <2>2, <2>3, <2>4, <2>5, StepKinds
<1> QED  BY <1>1, <1>6 DEF vars, storageVars, userVars

-----------------------------------------------------------------------------
(* What a batch charges *)

\* A field of items to sum over.
LEMMA SummedField ==
    ASSUME NEW items \in Seq(Item), NEW i \in DOMAIN items,
           NEW field \in {"amount", "requests", "tokens"}
    PROVE  items[i][field] \in Nat
<1>1. items[i] \in Item
  OBVIOUS
<1>2. items[i].amount \in Nat /\ items[i].requests \in Nat /\ items[i].tokens \in Nat
  BY <1>1, ItemType
<1> QED  BY <1>2

\* The sum of a field over some items is a natural number.
LEMMA SumOverType ==
    ASSUME NEW items \in Seq(Item), NEW S \in SUBSET DOMAIN items,
           NEW field \in {"amount", "requests", "tokens"}
    PROVE  IsFiniteSet(S) /\ SumOver(items, S, field) \in Nat
<1> DEFINE f == [i \in S |-> items[i][field]]
<1>1. IsFiniteSet(S)
  <2>1. DOMAIN items = 1 .. Len(items) /\ Len(items) \in Int /\ 1 \in Int
    OBVIOUS
  <2>2. IsFiniteSet(1 .. Len(items))
    BY <2>1, FS_Interval
  <2> QED  BY <2>1, <2>2, FS_Subset
<1>2. \A i \in S : f[i] \in Nat
  BY SummedField
<1> HIDE DEF f
<1>3. Total(f, S) \in Nat
  BY <1>1, <1>2, TotalType
<1> QED  BY <1>1, <1>3 DEF SumOver, f

\* One more item adds what it has; and a part is at most the whole.
LEMMA SumOverGrows ==
    ASSUME NEW items \in Seq(Item), NEW S \in SUBSET DOMAIN items,
           NEW i \in DOMAIN items \ S, NEW field \in {"amount", "requests", "tokens"}
    PROVE  SumOver(items, S \cup {i}, field) = SumOver(items, S, field) + items[i][field]
<1> DEFINE T == S \cup {i}
           f == [j \in S |-> items[j][field]]
           g == [j \in T |-> items[j][field]]
<1>1. IsFiniteSet(S) /\ IsFiniteSet({i}) /\ S \cap {i} = {}
  BY SumOverType, FS_Singleton
<1>2. /\ \A j \in S \cup {i} : g[j] \in Nat
      /\ \A j \in S : g[j] = f[j]
      /\ g[i] = items[i][field] /\ g[i] \in Nat
  BY SummedField
<1>3. SumOver(items, T, field) = Total(g, T) /\ SumOver(items, S, field) = Total(f, S)
  BY DEF SumOver
<1> HIDE DEF f, g
<1>4. Total(g, S \cup {i}) = Total(g, S) + Total(g, {i})
  BY <1>1, <1>2, TotalUnion
<1>5. Total(g, {i}) = g[i] /\ Total(g, S) = Total(f, S)
  BY <1>2, TotalSingle, TotalSame
<1> QED  BY <1>2, <1>3, <1>4, <1>5

\* A sum over some items is at most the sum over more of them.
LEMMA SumOverPart ==
    ASSUME NEW items \in Seq(Item), NEW T \in SUBSET DOMAIN items, NEW S \in SUBSET T,
           NEW field \in {"amount", "requests", "tokens"}
    PROVE  SumOver(items, S, field) <= SumOver(items, T, field)
<1> DEFINE f == [j \in S |-> items[j][field]]
           g == [j \in T |-> items[j][field]]
<1>1. IsFiniteSet(S) /\ IsFiniteSet(T) /\ IsFiniteSet(T \ S)
  BY SumOverType, FS_Difference
<1>2. \A j \in T : g[j] \in Nat
  BY SummedField
<1>3. \A j \in S : g[j] = f[j]
  OBVIOUS
<1>4. SumOver(items, T, field) = Total(g, T) /\ SumOver(items, S, field) = Total(f, S)
  BY DEF SumOver
<1> HIDE DEF f, g
<1>5. Total(g, T) = Total(g, S) + Total(g, T \ S)
  BY <1>1, <1>2, TotalSplit
<1>6. Total(g, S) = Total(f, S)
  BY <1>3, TotalSame
<1>7. Total(g, S) \in Nat /\ Total(g, T \ S) \in Nat
  BY <1>1, <1>2, TotalType
<1> QED  BY <1>4, <1>5, <1>6, <1>7

\* The items among the first k that are charged.
ChargedItems(items, k) ==
    {i \in 1 .. k : Chargeable(Loop(items)[i - 1], items[i])}

\* The charged items among the first k + 1 are those among the first k, and the
\* next one if it can be charged.
LEMMA ChargedNext ==
    ASSUME NEW items \in Seq(Item), NEW k \in 0 .. Len(items) - 1
    PROVE  /\ ChargedItems(items, 0) = {}
           /\ ChargedItems(items, k) \subseteq 1 .. k
           /\ k + 1 \in DOMAIN items \ ChargedItems(items, k)
           /\ ChargedItems(items, k + 1) =
                IF Chargeable(Loop(items)[k], items[k + 1])
                THEN ChargedItems(items, k) \cup {k + 1}
                ELSE ChargedItems(items, k)
<1>1. /\ Len(items) \in Nat /\ k \in Nat /\ (k + 1) - 1 = k
      /\ 1 .. k + 1 = 1 .. k \cup {k + 1} /\ k + 1 \notin 1 .. k
      /\ k + 1 \in DOMAIN items /\ 1 .. 0 = {}
  OBVIOUS
<1> QED  BY <1>1 DEF ChargedItems

\* The state l of the loop has charged the items at positions C out of k.
Charges(items, l, C, k) ==
    /\ \A user \in Accounts, token \in Tokens :
        balances[user][token] = l.balances[user][token]
            + SumOver(items, ItemsOf(items, C, user, token), "amount")
    /\ l.settledCount = Cardinality(C)
    /\ l.failedCount = k - Cardinality(C)
    /\ l.totalAmount = SumOver(items, C, "amount")
    /\ l.requestCount = SumOver(items, C, "requests")
    /\ l.tokenCount = SumOver(items, C, "tokens")

Tallied(items, k) == Charges(items, Loop(items)[k], ChargedItems(items, k), k)

\* An item that fails leaves the tallies, one that is charged adds to them.
LEMMA TallyStep ==
    ASSUME TypeOK, QueuesFit(spLockups), NEW items \in Seq(Item),
           NEW k \in 0 .. Len(items) - 1, Tallied(items, k)
    PROVE  Tallied(items, k + 1)
<1> DEFINE l    == Loop(items)[k]
           m    == Loop(items)[k + 1]
           item == items[k + 1]
           C    == ChargedItems(items, k)
           D    == ChargedItems(items, k + 1)
<1>1. /\ l \in LoopState /\ m \in LoopState /\ item \in Item
      /\ Chargeable(l, item) => Charged(l, item, m)
      /\ ~Chargeable(l, item) => m = [l EXCEPT !.failedCount = l.failedCount + 1]
  <2>1. k \in 0 .. Len(items) /\ k + 1 \in 0 .. Len(items)
    OBVIOUS
  <2> QED  BY <2>1, LoopRuns, Zenon
<1>2. /\ C \in SUBSET DOMAIN items /\ k \in Nat
      /\ k + 1 \in DOMAIN items \ C
      /\ D = IF Chargeable(l, item) THEN C \cup {k + 1} ELSE C
  <2>1. 1 .. k \subseteq DOMAIN items /\ k \in Nat
    OBVIOUS
  <2> QED  BY <2>1, ChargedNext
<1>3. Charges(items, l, C, k) /\ (Charges(items, m, D, k + 1) => Tallied(items, k + 1))
  BY DEF Tallied
<1> HIDE DEF C, D, l, m
<1>4. CASE ~Chargeable(l, item)
  <2>1. /\ D = C /\ m.balances = l.balances /\ m.settledCount = l.settledCount
        /\ m.totalAmount = l.totalAmount /\ m.requestCount = l.requestCount
        /\ m.tokenCount = l.tokenCount /\ m.failedCount = l.failedCount + 1
    BY <1>1, <1>2, <1>4 DEF LoopState
  <2>2. IsFiniteSet(C)
    BY <1>2, SumOverType
  <2>3. Cardinality(C) \in Nat
    BY <2>2, FS_CardinalityType
  <2>4. m.failedCount = (k + 1) - Cardinality(D)
    BY <1>2, <1>3, <2>1, <2>3 DEF Charges
  <2>5. Charges(items, m, D, k + 1)
    <3>1. /\ m.settledCount = Cardinality(D)
          /\ m.failedCount = (k + 1) - Cardinality(D)
          /\ m.totalAmount = SumOver(items, D, "amount")
          /\ m.requestCount = SumOver(items, D, "requests")
          /\ m.tokenCount = SumOver(items, D, "tokens")
      BY <1>3, <2>1, <2>4 DEF Charges
    <3>2. \A user \in Accounts, token \in Tokens :
            balances[user][token] = m.balances[user][token]
                + SumOver(items, ItemsOf(items, D, user, token), "amount")
      BY <1>3, <2>1 DEF Charges
    <3> QED  BY <3>1, <3>2, Zenon DEF Charges
  <2> QED  BY <1>3, <2>5
<1>5. CASE Chargeable(l, item)
  <2>1. D = C \cup {k + 1} /\ Charged(l, item, m)
    BY <1>1, <1>2, <1>5
  <2>2. Cardinality(D) = Cardinality(C) + 1 /\ Cardinality(C) \in Nat
    <3>1. IsFiniteSet(C)
      BY <1>2, SumOverType
    <3> QED  BY <1>2, <2>1, <3>1, FS_AddElement, FS_CardinalityType
  <2>3. /\ SumOver(items, D, "amount") = l.totalAmount + item.amount
        /\ SumOver(items, D, "requests") = l.requestCount + item.requests
        /\ SumOver(items, D, "tokens") = l.tokenCount + item.tokens
    <3>1. \A field \in {"amount", "requests", "tokens"} :
            SumOver(items, D, field) = SumOver(items, C, field) + items[k + 1][field]
      BY <1>2, <2>1, SumOverGrows, ZenonT(30)
    <3> QED  BY <1>3, <3>1 DEF Charges
  <2>4. ASSUME NEW user \in Accounts, NEW token \in Tokens
        PROVE  balances[user][token] = m.balances[user][token]
                    + SumOver(items, ItemsOf(items, D, user, token), "amount")
    <3> DEFINE S == ItemsOf(items, C, user, token)
               T == ItemsOf(items, D, user, token)
    <3>1. /\ S \in SUBSET DOMAIN items /\ k + 1 \in DOMAIN items \ S
          /\ T = IF user = item.user /\ token = item.token THEN S \cup {k + 1} ELSE S
      BY <1>2, <2>1 DEF ItemsOf
    <3>2. /\ m.balances[user][token] = l.balances[user][token]
                - IF user = item.user /\ token = item.token THEN item.amount ELSE 0
          /\ balances[user][token]
                = l.balances[user][token] + SumOver(items, S, "amount")
      BY <1>3, <2>1 DEF Charged, Charges
    <3> HIDE DEF S, T
    <3>3. /\ SumOver(items, S, "amount") \in Nat
          /\ SumOver(items, S \cup {k + 1}, "amount")
                = SumOver(items, S, "amount") + item.amount
      <4>1. SumOver(items, S \cup {k + 1}, "amount")
                = SumOver(items, S, "amount") + items[k + 1]["amount"]
        BY <3>1, SumOverGrows
      <4>2. SumOver(items, S, "amount") \in Nat
        BY <3>1, SumOverType
      <4> QED  BY <4>1, <4>2
    <3>4. l.balances[user][token] \in Nat /\ item.amount \in Nat
      BY <1>1, ItemType DEF LoopState, Books
    <3> HIDE DEF item
    <3>5. CASE user = item.user /\ token = item.token
      BY <3>1, <3>2, <3>3, <3>4, <3>5 DEF T
    <3>6. CASE ~(user = item.user /\ token = item.token)
      BY <3>1, <3>2, <3>3, <3>4, <3>6 DEF T
    <3> QED  BY <3>5, <3>6
  <2>5. /\ m.settledCount = l.settledCount + 1 /\ m.failedCount = l.failedCount
        /\ m.totalAmount = l.totalAmount + item.amount
        /\ m.requestCount = l.requestCount + item.requests
        /\ m.tokenCount = l.tokenCount + item.tokens
    BY <2>1 DEF Charged
  <2>6. m.settledCount = Cardinality(D) /\ m.failedCount = (k + 1) - Cardinality(D)
    BY <1>2, <1>3, <2>2, <2>5 DEF Charges
  <2>7. /\ m.totalAmount = SumOver(items, D, "amount")
        /\ m.requestCount = SumOver(items, D, "requests")
        /\ m.tokenCount = SumOver(items, D, "tokens")
    BY <2>3, <2>5
  <2>8. Charges(items, m, D, k + 1)
    BY <2>4, <2>6, <2>7, Zenon DEF Charges
  <2> QED  BY <1>3, <2>8
<1> QED  BY <1>4, <1>5

\* After each item, the loop's tallies are sums over the items charged so far.
LEMMA LoopTallies ==
    ASSUME TypeOK, QueuesFit(spLockups), NEW items \in Seq(Item)
    PROVE  \A k \in 0 .. Len(items) : Tallied(items, k)
<1> DEFINE S == {k \in 0 .. Len(items) : Tallied(items, k)}
<1>1. Len(items) \in Nat
  OBVIOUS
<1>2. 0 \in S
  <2>1. Loop(items)[0] = LoopStart
    BY LoopUnfolds
  <2>2. /\ ChargedItems(items, 0) = {} /\ Cardinality({}) = 0
        /\ \A user, token : ItemsOf(items, {}, user, token) = {}
        /\ \A field : SumOver(items, {}, field) = 0
    BY FS_EmptySet, TotalEmpty DEF ChargedItems, ItemsOf, SumOver
  <2>3. \A user \in Accounts, token \in Tokens : balances[user][token] \in Nat
    BY Types DEF MoneyTypes, Books
  <2>4. Charges(items, LoopStart, {}, 0)
    <3>1. /\ LoopStart.settledCount = Cardinality({})
          /\ LoopStart.failedCount = 0 - Cardinality({})
          /\ LoopStart.totalAmount = SumOver(items, {}, "amount")
          /\ LoopStart.requestCount = SumOver(items, {}, "requests")
          /\ LoopStart.tokenCount = SumOver(items, {}, "tokens")
      BY <2>2 DEF LoopStart
    <3>2. \A user \in Accounts, token \in Tokens :
            balances[user][token] = LoopStart.balances[user][token]
                + SumOver(items, ItemsOf(items, {}, user, token), "amount")
      <4>1. LoopStart.balances = balances
        BY DEF LoopStart
      <4>2. \A user, token : SumOver(items, ItemsOf(items, {}, user, token), "amount") = 0
        BY <2>2
      <4> QED  BY <2>3, <4>1, <4>2
    <3> QED  BY <3>1, <3>2, Zenon DEF Charges
  <2> QED  BY <1>1, <2>1, <2>2, <2>4 DEF Tallied
<1>3. ASSUME NEW k \in 0 .. Len(items) - 1, k \in S PROVE k + 1 \in S
  BY <1>1, <1>3, TallyStep
<1>4. 0 .. Len(items) \subseteq S
  <2> HIDE DEF S
  <2> QED  BY <1>1, <1>2, <1>3, IntervalInduction
<1> QED  BY <1>4

\* What storage has after a batch, told by the items it charged.
LEMMA BatchCharges ==
    ASSUME TypeOK, QueuesFit(spLockups),
           NEW items \in Batches, NEW detailsHash \in Hashes,
           SubmitSettlement(operator, items, detailsHash)
    PROVE  LET C == ChargedItems(items, Len(items))
               record == settlements'[settlementNonce']
           IN  /\ items \in Seq(Item) /\ C \in SUBSET DOMAIN items
               /\ \A user \in Accounts, token \in Tokens :
                    balances[user][token] = balances'[user][token]
                        + SumOver(items, ItemsOf(items, C, user, token), "amount")
               /\ record.settledCount = Cardinality(C)
               /\ record.failedCount = Len(items) - Cardinality(C)
               /\ record.totalAmount = SumOver(items, C, "amount")
               /\ record.requestCount = SumOver(items, C, "requests")
               /\ record.tokenCount = SumOver(items, C, "tokens")
               /\ cumulativeRequests' = cumulativeRequests + record.requestCount
               /\ cumulativeTokens' = cumulativeTokens + record.tokenCount
<1> DEFINE C    == ChargedItems(items, Len(items))
           done == Loop(items)[Len(items)]
           record == [timestamp |-> now, totalAmount |-> done.totalAmount,
                      settledCount |-> done.settledCount,
                      failedCount |-> done.failedCount, detailsHash |-> detailsHash,
                      requestCount |-> done.requestCount,
                      tokenCount |-> done.tokenCount]
<1>1. items \in Seq(Item) /\ Len(items) \in 0 .. Len(items)
  BY BatchesAssumption
<1>2. C \in SUBSET DOMAIN items
  BY <1>1 DEF ChargedItems
<1>3. Charges(items, done, C, Len(items))
  <2>1. Tallied(items, Len(items))
    BY <1>1, LoopTallies
  <2> QED  BY <2>1 DEF Tallied
<1>4. /\ balances' = done.balances
      /\ cumulativeRequests' = cumulativeRequests + done.requestCount
      /\ cumulativeTokens' = cumulativeTokens + done.tokenCount
      /\ settlements' = Append(settlements, record)
  BY Zenon DEF SubmitSettlement
<1>5. /\ record.settledCount = done.settledCount
      /\ record.failedCount = done.failedCount
      /\ record.totalAmount = done.totalAmount
      /\ record.requestCount = done.requestCount
      /\ record.tokenCount = done.tokenCount
  OBVIOUS
<1>6. settlements'[settlementNonce'] = record
  <2>1. settlements \in Seq(Record)
    BY Types DEF MoneyTypes
  <2> HIDE DEF record, done
  <2> QED  BY <1>4, <2>1 DEF settlementNonce
<1> HIDE DEF C, done, record
<1>7. \A user \in Accounts, token \in Tokens :
        balances[user][token] = balances'[user][token]
            + SumOver(items, ItemsOf(items, C, user, token), "amount")
  BY <1>3, <1>4, Zenon DEF Charges
<1>8. /\ record.settledCount = Cardinality(C)
      /\ record.failedCount = Len(items) - Cardinality(C)
      /\ record.totalAmount = SumOver(items, C, "amount")
      /\ record.requestCount = SumOver(items, C, "requests")
      /\ record.tokenCount = SumOver(items, C, "tokens")
      /\ cumulativeRequests' = cumulativeRequests + record.requestCount
      /\ cumulativeTokens' = cumulativeTokens + record.tokenCount
  BY <1>3, <1>4, <1>5, Zenon DEF Charges
<1> QED  BY <1>1, <1>2, <1>6, <1>7, <1>8, Zenon DEF C

\* What a batch names a provider for, and what of it is charged.
LEMMA FundedItems ==
    ASSUME TypeOK, QueuesFit(spLockups), NEW items \in Seq(Item),
           NEW user \in Accounts, NEW token \in Tokens
    PROVE  LET named == {i \in DOMAIN items : items[i].sp # NoOne}
               C     == ChargedItems(items, Len(items))
               N     == ItemsOf(items, named, user, token)
               S     == ItemsOf(items, C, user, token)
           IN  /\ S \subseteq N /\ N \subseteq DOMAIN items
               /\ SumOver(items, N, "amount") <= balances[user][token] => S = N
<1> DEFINE named == {i \in DOMAIN items : items[i].sp # NoOne}
           C     == ChargedItems(items, Len(items))
           N     == ItemsOf(items, named, user, token)
           S     == ItemsOf(items, C, user, token)
<1>1. Len(items) \in Nat /\ DOMAIN items = 1 .. Len(items)
  OBVIOUS
<1>2. S \subseteq N /\ N \subseteq DOMAIN items
  BY <1>1 DEF ItemsOf, ChargedItems, Chargeable
<1>3. ASSUME SumOver(items, N, "amount") <= balances[user][token],
             NEW i \in N, i \notin S
      PROVE  FALSE
  <2> DEFINE l == Loop(items)[i - 1]
             P == ItemsOf(items, ChargedItems(items, i - 1), user, token)
  <2>1. /\ i \in 1 .. Len(items) /\ i - 1 \in 0 .. Len(items)
        /\ items[i] \in Item /\ items[i].sp # NoOne
        /\ items[i].user = user /\ items[i].token = token
        /\ items[i].amount \in Nat
    <3>1. /\ i \in 1 .. Len(items) /\ items[i].sp # NoOne
          /\ items[i].user = user /\ items[i].token = token
      BY <1>1, <1>3 DEF ItemsOf
    <3>2. items[i] \in Item /\ i - 1 \in 0 .. Len(items)
      BY <1>1, <3>1
    <3> QED  BY <3>1, <3>2, ItemType
  <2>2. ~Chargeable(l, items[i])
    BY <1>3, <2>1 DEF ItemsOf, ChargedItems
  <2>3. l \in LoopState /\ Tallied(items, i - 1)
    BY <2>1, LoopRuns, LoopTallies
  <2>4. balances[user][token] = l.balances[user][token] + SumOver(items, P, "amount")
    BY <2>3 DEF Tallied, Charges
  <2>5. P \subseteq N /\ i \notin P
    <3>1. ChargedItems(items, i - 1) \subseteq C /\ i \notin ChargedItems(items, i - 1)
      BY <1>1, <2>1 DEF ChargedItems
    <3> QED  BY <1>2, <3>1 DEF ItemsOf
  <2> HIDE DEF N, P, l
  <2>6. /\ SumOver(items, P \cup {i}, "amount") = SumOver(items, P, "amount") + items[i].amount
        /\ SumOver(items, P \cup {i}, "amount") <= SumOver(items, N, "amount")
    <3>1. P \in SUBSET DOMAIN items /\ i \in DOMAIN items \ P /\ N \in SUBSET DOMAIN items
          /\ P \cup {i} \in SUBSET N
      BY <1>1, <1>2, <1>3, <2>1, <2>5
    <3>2. SumOver(items, P \cup {i}, "amount")
            = SumOver(items, P, "amount") + items[i]["amount"]
      BY <3>1, SumOverGrows
    <3>3. SumOver(items, P \cup {i}, "amount") <= SumOver(items, N, "amount")
      BY <3>1, SumOverPart
    <3> QED  BY <3>2, <3>3
  <2>7. /\ SumOver(items, P, "amount") \in Nat /\ SumOver(items, N, "amount") \in Nat
        /\ l.balances[user][token] \in Nat
    <3>1. P \in SUBSET DOMAIN items /\ N \in SUBSET DOMAIN items
      BY <1>2, <2>5
    <3>2. l.balances[user][token] \in Nat
      BY <2>3 DEF LoopState, Books
    <3> QED  BY <3>1, <3>2, SumOverType
  <2>8. l.balances[user][token] >= items[i].amount
    BY <1>3, <2>1, <2>4, <2>6, <2>7
  <2> QED  BY <2>1, <2>2, <2>8 DEF Chargeable
<1> HIDE DEF S, N
<1>4. SumOver(items, N, "amount") <= balances[user][token] => S = N
  BY <1>2, <1>3
<1> QED  BY <1>2, <1>4 DEF S, N

-----------------------------------------------------------------------------
(* The invariant *)

\* The invariant holds of the contract as it is deployed.
LEMMA InitInv == Init => Inv
<1> SUFFICES ASSUME Init PROVE Inv
  OBVIOUS
<1>1. TypeOK
  <2>1. /\ ZeroPerAccount \in Books /\ Zero(Tokens) \in [Tokens -> Nat]
        /\ [a \in Accounts |-> [t \in Tokens |-> <<>>]] \in Queues
        /\ <<>> \in Seq(RefundRequest) /\ <<>> \in Seq(Record)
    BY DEF ZeroPerAccount, Zero, Books, Queues
  <2>2. MoneyTypes
    BY <2>1 DEF Init, MoneyTypes
  <2>3. SettingTypes
    <3>1. platformFeeBps \in 0 .. MAX_FEE_BPS /\ refundDelaySec \in Nat
      BY NumbersAssumption DEF Init, MAX_FEE_BPS
    <3>2. now \in Times /\ earningsFreezeSec \in Nat /\ paused \in BOOLEAN
          /\ supportedTokens \subseteq Tokens
      BY DEF Init, Tokens
    <3>3. /\ owner \in Accounts /\ operator \in Accounts /\ arbiter \in Accounts
          /\ pendingOwner \in Accounts \cup {NoOne}
      BY AccountsAssumption DEF Init
    <3> QED  BY <3>1, <3>2, <3>3 DEF SettingTypes
  <2> QED  BY <2>2, <2>3, Types
<1>2. QueuesFit(spLockups)
  BY DEF Init, QueuesFit, WellFormed, ZeroPerAccount, Zero
<1>3. LocksMatchRequests
  <2>1. \A user, token : LockOf(<<>>, user, token) = 0
    <3>1. \A user, token : OpenOf(<<>>, user, token) = {}
      BY DEF OpenOf
    <3> QED  BY <3>1, TotalEmpty DEF LockOf
  <2>2. LocksFit
    BY <2>1 DEF Init, LocksFit, ZeroPerAccount, Zero
  <2> QED  BY <2>2, LocksAreSums
<1>4. OneRecordPerBatch
  BY DEF Init, OneRecordPerBatch
<1> QED  BY <1>1, <1>2, <1>3, <1>4 DEF Inv

\* Every external function keeps the invariant, and so does what happens besides.
LEMMA NextInv == Inv /\ [Next]_vars => Inv'
<1> SUFFICES ASSUME Inv, [Next]_vars PROVE Inv'
  OBVIOUS
<1>1. TypeOK /\ QueuesFit(spLockups) /\ LocksFit /\ OneRecordPerBatch
  BY LocksAreSums DEF Inv
<1>2. SettingTypes' /\ MoneyTypes' /\ QueuesFit(spLockups)'
  BY <1>1, SettingStep, MoneyStep
<1>3. LocksFit' /\ OneRecordPerBatch'
  BY <1>1, RequestStep, RecordStep
<1>4. (TypeOK <=> SettingTypes /\ MoneyTypes)' /\ (LocksMatchRequests <=> LocksFit)'
  BY Types, LocksAreSums, PTL
<1> QED  BY <1>2, <1>3, <1>4 DEF Inv

\* The invariant holds for ever.
LEMMA InvHolds == Spec => []Inv
BY InitInv, NextInv, PTL DEF Spec

\* Every variable keeps its type, so no operation of the contract subtracts
\* more than is there: the arithmetic never underflows.
THEOREM TypesHold == Spec => []TypeOK
<1>1. Inv => TypeOK
  BY DEF Inv
<1> QED  BY <1>1, InvHolds, PTL

\* The lock on a balance is the sum of its pending requests, for any number of
\* users, tokens, requests, claims, cancellations and settlements.
THEOREM LocksAlwaysMatch == Spec => []LocksMatchRequests
<1>1. Inv => LocksMatchRequests
  BY DEF Inv
<1> QED  BY <1>1, InvHolds, PTL

\* A batch is recorded at most once, whatever is submitted again.
THEOREM BatchesRecordedOnce == Spec => []OneRecordPerBatch
<1>1. Inv => OneRecordPerBatch
  BY DEF Inv
<1> QED  BY <1>1, InvHolds, PTL

\* Whatever the owner does to refundDelaySec, a request keeps its terms, ends at
\* most once, and is claimed only when due and for what its user gives up.
THEOREM RefundTerms == Spec => RefundTermsHold
<1>1. Inv /\ [Next]_vars =>
        [\A id \in DOMAIN refundRequests :
            LET old == refundRequests[id]
                new == refundRequests'[id]
            IN  \/ new = old
                \/ id \in Pending /\ new = [old EXCEPT !.cancelled = TRUE]
                \/ /\ id \in Pending /\ new = [old EXCEPT !.claimed = TRUE]
                   /\ now >= old.claimableAt
                   /\ balances'[old.user][old.token] + old.amount
                        = balances[old.user][old.token]
                   /\ holdings'[old.token] + old.amount = holdings[old.token]]_vars
  BY RequestTerms DEF Inv
<1>2. []Inv /\ [][Next]_vars => RefundTermsHold
  BY <1>1, PTL DEF RefundTermsHold
<1> QED  BY <1>2, InvHolds, PTL DEF Spec

\* A claim is refused for lack of balance only after a settlement took some of
\* what was locked.
THEOREM LocksOutrunBySettlementOnly == Spec => OnlySettlementOutrunsLocks
<1>1. ASSUME Inv, [Next]_vars, NEW user \in Accounts, NEW token \in Tokens,
             lockedForRefund[user][token] <= balances[user][token],
             lockedForRefund'[user][token] > balances'[user][token]
      PROVE  settlementNonce' = settlementNonce + 1
  <2>1. TypeOK /\ LocksFit /\ TypeOK'
    BY <1>1, LocksAreSums, NextInv DEF Inv
  <2>2. balances' \in Books /\ lockedForRefund' \in Books
    BY <2>1 DEF TypeOK, Books
  <2>3. balances'[user][token] \in Nat /\ lockedForRefund'[user][token] \in Nat
    BY <2>2 DEF Books
  <2>4. \/ lockedForRefund'[user][token] <= balances'[user][token]
        \/ settlementNonce' = settlementNonce + 1
    BY <1>1, <2>1, LocksOutrun
  <2> QED  BY <1>1, <2>3, <2>4
<1>2. Inv /\ [Next]_vars =>
        [\A user \in Accounts, token \in Tokens :
            /\ lockedForRefund[user][token] <= balances[user][token]
            /\ lockedForRefund'[user][token] > balances'[user][token]
            => settlementNonce' = settlementNonce + 1]_vars
  BY <1>1
<1>3. []Inv /\ [][Next]_vars => OnlySettlementOutrunsLocks
  BY <1>2, PTL DEF OnlySettlementOutrunsLocks
<1> QED  BY <1>3, InvHolds, PTL DEF Spec

\* For batches of any items in any order, the record, the statistics and the
\* balances tell the same story of which items were charged.
THEOREM RecordTells == Spec => RecordTellsWhatWasCharged
<1>1. ASSUME Inv, NEW items \in Batches, NEW detailsHash \in Hashes,
             SubmitSettlement(operator, items, detailsHash)
      PROVE  \E charged \in SUBSET DOMAIN items :
                LET record == settlements'[settlementNonce']
                IN  /\ \A user \in Accounts, token \in Tokens :
                        balances[user][token] = balances'[user][token]
                            + SumOver(items, ItemsOf(items, charged, user, token), "amount")
                    /\ record.settledCount = Cardinality(charged)
                    /\ record.failedCount = Len(items) - Cardinality(charged)
                    /\ record.totalAmount = SumOver(items, charged, "amount")
                    /\ record.requestCount = SumOver(items, charged, "requests")
                    /\ record.tokenCount = SumOver(items, charged, "tokens")
                    /\ cumulativeRequests' = cumulativeRequests + record.requestCount
                    /\ cumulativeTokens' = cumulativeTokens + record.tokenCount
  <2>1. TypeOK /\ QueuesFit(spLockups)
    BY <1>1 DEF Inv
  <2> ChargedItems(items, Len(items)) \in SUBSET DOMAIN items
    BY <1>1, <2>1, BatchCharges, Zenon
  <2> WITNESS ChargedItems(items, Len(items)) \in SUBSET DOMAIN items
  <2> QED  BY <1>1, <2>1, BatchCharges, Zenon
<1>2. Inv /\ [Next]_vars =>
        [\A items \in Batches, detailsHash \in Hashes :
            SubmitSettlement(operator, items, detailsHash) =>
                \E charged \in SUBSET DOMAIN items :
                    LET record == settlements'[settlementNonce']
                    IN  /\ \A user \in Accounts, token \in Tokens :
                            balances[user][token] = balances'[user][token]
                                + SumOver(items, ItemsOf(items, charged, user, token), "amount")
                        /\ record.settledCount = Cardinality(charged)
                        /\ record.failedCount = Len(items) - Cardinality(charged)
                        /\ record.totalAmount = SumOver(items, charged, "amount")
                        /\ record.requestCount = SumOver(items, charged, "requests")
                        /\ record.tokenCount = SumOver(items, charged, "tokens")
                        /\ cumulativeRequests' = cumulativeRequests + record.requestCount
                        /\ cumulativeTokens' = cumulativeTokens + record.tokenCount]_vars
  BY <1>1, Zenon
<1>3. []Inv /\ [][Next]_vars => RecordTellsWhatWasCharged
  BY <1>2, PTL DEF RecordTellsWhatWasCharged
<1> QED  BY <1>3, InvHolds, PTL DEF Spec

\* Settlement has priority over refunds: a user who can pay for all that a batch
\* asks of it pays all of it, in whatever order; nobody pays more.
THEOREM FundedPayInFull == Spec => FundedUsersPayInFull
<1>1. ASSUME Inv, NEW items \in Batches, NEW detailsHash \in Hashes,
             SubmitSettlement(operator, items, detailsHash),
             NEW user \in Accounts, NEW token \in Tokens
      PROVE  LET named == {i \in DOMAIN items : items[i].sp # NoOne}
                 asked == SumOver(items, ItemsOf(items, named, user, token), "amount")
                 paid  == balances[user][token] - balances'[user][token]
             IN  /\ paid <= asked
                 /\ asked <= balances[user][token] => paid = asked
  <2> DEFINE named == {i \in DOMAIN items : items[i].sp # NoOne}
             N     == ItemsOf(items, named, user, token)
             S     == ItemsOf(items, ChargedItems(items, Len(items)), user, token)
             asked == SumOver(items, N, "amount")
             paid  == balances[user][token] - balances'[user][token]
  <2>1. TypeOK /\ QueuesFit(spLockups)
    BY <1>1 DEF Inv
  <2>2. /\ items \in Seq(Item)
        /\ balances[user][token] = balances'[user][token] + SumOver(items, S, "amount")
    BY <1>1, <2>1, BatchCharges, Zenon
  <2>3. /\ S \subseteq N /\ N \subseteq DOMAIN items
        /\ asked <= balances[user][token] => S = N
    BY <2>1, <2>2, FundedItems, Zenon
  <2> HIDE DEF N, S
  <2>4. /\ SumOver(items, S, "amount") \in Nat /\ SumOver(items, N, "amount") \in Nat
        /\ SumOver(items, S, "amount") <= SumOver(items, N, "amount")
    BY <2>2, <2>3, SumOverType, SumOverPart
  <2>5. balances'[user][token] \in Nat
    <3>1. balances' \in Books
      BY <1>1, <2>1, BatchTypes
    <3> QED  BY <3>1 DEF Books
  <2>6. paid = SumOver(items, S, "amount")
    BY <2>2, <2>4, <2>5
  <2>7. paid <= asked /\ (asked <= balances[user][token] => paid = asked)
    BY <2>3, <2>4, <2>6
  <2> QED  BY <2>7 DEF N
<1>2. Inv /\ [Next]_vars =>
        [\A items \in Batches, detailsHash \in Hashes :
            SubmitSettlement(operator, items, detailsHash) =>
                \A user \in Accounts, token \in Tokens :
                    LET named == {i \in DOMAIN items : items[i].sp # NoOne}
                        asked == SumOver(items, ItemsOf(items, named, user, token), "amount")
                        paid  == balances[user][token] - balances'[user][token]
                    IN  /\ paid <= asked
                        /\ asked <= balances[user][token] => paid = asked]_vars
  BY <1>1, Zenon
<1>3. []Inv /\ [][Next]_vars => FundedUsersPayInFull
  BY <1>2, PTL DEF FundedUsersPayInFull
<1> QED  BY <1>3, InvHolds, PTL DEF Spec
-----------------------------------------------------------------------------
(* Sums over the accounts *)

\* What the accounts have together changes by what one of them gets or loses.
LEMMA AcrossType ==
    ASSUME NEW f \in Books, NEW t \in Tokens
    PROVE  AcrossAccounts(f, t) \in Nat
<1> DEFINE F == [a \in Accounts |-> f[a][t]]
<1>1. \A a \in Accounts : F[a] \in Nat
  BY DEF Books
<1> HIDE DEF F
<1>2. Total(F, Accounts) \in Nat
  BY <1>1, AccountsAssumption, TotalType
<1> QED  BY <1>2 DEF F, AcrossAccounts

\* A change of one account's entry changes the sum over all accounts as much.
LEMMA AcrossPlus ==
    ASSUME NEW f \in Books, NEW g \in Books, NEW a \in Accounts, NEW t \in Tokens,
           NEW v \in Int, g = Plus(f, a, t, v), NEW u \in Tokens
    PROVE  AcrossAccounts(g, u) = AcrossAccounts(f, u) + IF u = t THEN v ELSE 0
<1> DEFINE F == [b \in Accounts |-> f[b][u]]
           G == [b \in Accounts |-> g[b][u]]
<1>1. /\ \A b \in Accounts : F[b] \in Nat
      /\ \A b \in Accounts : G[b] \in Nat
  BY DEF Books
<1>2. \A b \in Accounts : G[b] = F[b] + IF b = a /\ u = t THEN v ELSE 0
  BY DEF Plus
<1>3. AcrossAccounts(f, u) = Total(F, Accounts) /\ AcrossAccounts(g, u) = Total(G, Accounts)
  BY DEF AcrossAccounts
<1>4. AcrossAccounts(f, u) \in Nat /\ AcrossAccounts(g, u) \in Nat
  BY AcrossType
<1> HIDE DEF F, G
<1>5. \A b \in Accounts \ {a} : F[b] = G[b]
  BY <1>1, <1>2
<1>6. Total(F, Accounts) + G[a] = Total(G, Accounts) + F[a]
  BY <1>1, <1>5, AccountsAssumption, TotalChange
<1>7. G[a] = F[a] + IF u = t THEN v ELSE 0
  BY <1>2
<1> QED  BY <1>1, <1>3, <1>4, <1>6, <1>7

\* A change of one entry, written as the actions write it.
LEMMA PlusIsExcept ==
    ASSUME NEW f \in Books, NEW a \in Accounts, NEW t \in Tokens, NEW v \in Int
    PROVE  Plus(f, a, t, v) = [f EXCEPT ![a][t] = @ + v]
<1> DEFINE g == [f EXCEPT ![a][t] = @ + v]
<1>1. \A b \in Accounts, u \in Tokens :
        f[b][u] + (IF b = a /\ u = t THEN v ELSE 0) = g[b][u]
  BY DEF Books
<1>2. g = [b \in Accounts |-> [u \in Tokens |-> g[b][u]]]
  BY DEF Books
<1> HIDE DEF g
<1>3. Plus(f, a, t, v) = [b \in Accounts |-> [u \in Tokens |-> g[b][u]]]
  BY <1>1 DEF Plus
<1> QED  BY <1>2, <1>3 DEF g

-----------------------------------------------------------------------------
(* Usage *)

\* Users lose, providers and the platform gain, what is lost is gained, and the
\* platform's part is within the largest fee.
Usage(b1, f1, p1, b2, f2, p2) ==
    \A t \in Tokens :
        /\ \A a \in Accounts : b2[a][t] <= b1[a][t] /\ f2[a][t] >= f1[a][t]
        /\ p2[t] >= p1[t]
        /\ AcrossAccounts(b1, t) + AcrossAccounts(f1, t) + p1[t]
            = AcrossAccounts(b2, t) + AcrossAccounts(f2, t) + p2[t]
        /\ BPS_DENOMINATOR * (p2[t] - p1[t])
            <= MAX_FEE_BPS * (AcrossAccounts(b1, t) - AcrossAccounts(b2, t))

\* Usage after usage is usage: the bound on the fee holds of the sum of two if it
\* holds of both.
LEMMA UsageAddsUp ==
    ASSUME NEW b1 \in Books, NEW f1 \in Books, NEW p1 \in [Tokens -> Nat],
           NEW b2 \in Books, NEW f2 \in Books, NEW p2 \in [Tokens -> Nat],
           NEW b3 \in Books, NEW f3 \in Books, NEW p3 \in [Tokens -> Nat],
           Usage(b1, f1, p1, b2, f2, p2), Usage(b2, f2, p2, b3, f3, p3)
    PROVE  Usage(b1, f1, p1, b3, f3, p3)
<1> SUFFICES ASSUME NEW t \in Tokens
             PROVE  /\ \A a \in Accounts : b3[a][t] <= b1[a][t] /\ f3[a][t] >= f1[a][t]
                    /\ p3[t] >= p1[t]
                    /\ AcrossAccounts(b1, t) + AcrossAccounts(f1, t) + p1[t]
                        = AcrossAccounts(b3, t) + AcrossAccounts(f3, t) + p3[t]
                    /\ BPS_DENOMINATOR * (p3[t] - p1[t])
                        <= MAX_FEE_BPS * (AcrossAccounts(b1, t) - AcrossAccounts(b3, t))
  BY DEF Usage
<1>1. /\ AcrossAccounts(b1, t) \in Nat /\ AcrossAccounts(f1, t) \in Nat /\ p1[t] \in Nat
      /\ AcrossAccounts(b2, t) \in Nat /\ AcrossAccounts(f2, t) \in Nat /\ p2[t] \in Nat
      /\ AcrossAccounts(b3, t) \in Nat /\ AcrossAccounts(f3, t) \in Nat /\ p3[t] \in Nat
  BY AcrossType
<1>2. ASSUME NEW a \in Accounts PROVE b3[a][t] <= b1[a][t] /\ f3[a][t] >= f1[a][t]
  <2>1. /\ b1[a][t] \in Nat /\ b2[a][t] \in Nat /\ b3[a][t] \in Nat
        /\ f1[a][t] \in Nat /\ f2[a][t] \in Nat /\ f3[a][t] \in Nat
    BY DEF Books
  <2>2. /\ b2[a][t] <= b1[a][t] /\ f2[a][t] >= f1[a][t]
        /\ b3[a][t] <= b2[a][t] /\ f3[a][t] >= f2[a][t]
    BY DEF Usage
  <2> QED  BY <2>1, <2>2
<1>3. /\ p2[t] >= p1[t] /\ p3[t] >= p2[t]
      /\ AcrossAccounts(b1, t) + AcrossAccounts(f1, t) + p1[t]
            = AcrossAccounts(b2, t) + AcrossAccounts(f2, t) + p2[t]
      /\ AcrossAccounts(b2, t) + AcrossAccounts(f2, t) + p2[t]
            = AcrossAccounts(b3, t) + AcrossAccounts(f3, t) + p3[t]
      /\ 10000 * (p2[t] - p1[t])
            <= 3000 * (AcrossAccounts(b1, t) - AcrossAccounts(b2, t))
      /\ 10000 * (p3[t] - p2[t])
            <= 3000 * (AcrossAccounts(b2, t) - AcrossAccounts(b3, t))
  BY DEF Usage, BPS_DENOMINATOR, MAX_FEE_BPS
<1> QED  BY <1>1, <1>2, <1>3 DEF BPS_DENOMINATOR, MAX_FEE_BPS

\* The funds of the providers in a state of the loop.
LEMMA LoopFundsType ==
    ASSUME TypeOK, NEW l \in LoopState, QueuesFit(l.spLockups)
    PROVE  LoopFunds(l) \in Books
<1>1. l.spEarnings \in Books /\ l.spLockups \in Queues /\ spLockupCursor \in Books
  BY Types DEF LoopState, MoneyTypes
<1> QED  BY <1>1, FundsType DEF LoopFunds, QueuesFit

\* A charged item is usage.
LEMMA ItemIsUsage ==
    ASSUME TypeOK, NEW l \in LoopState, QueuesFit(l.spLockups),
           NEW m \in LoopState, QueuesFit(m.spLockups),
           NEW item \in Item, item.sp # NoOne, Charged(l, item, m), ~m.reverted
    PROVE  Usage(l.balances, LoopFunds(l), l.platformEarnings,
                 m.balances, LoopFunds(m), m.platformEarnings)
<1> DEFINE fee   == Fee(item.amount, platformFeeBps)
           share == ProviderShare(item.amount, platformFeeBps)
           F     == LoopFunds(l)
           G     == LoopFunds(m)
<1>1. /\ item.user \in Accounts /\ item.sp \in Accounts /\ item.token \in Tokens
      /\ item.amount \in Nat
  BY ItemType
<1>2. /\ fee \in Nat /\ share \in Nat /\ fee + share = item.amount
      /\ 10000 * fee <= 3000 * item.amount
  <2>1. platformFeeBps \in 0 .. MAX_FEE_BPS
    BY Types DEF SettingTypes
  <2>2. /\ fee \in Nat /\ share \in Nat /\ fee + share = item.amount
        /\ BPS_DENOMINATOR * fee <= MAX_FEE_BPS * item.amount
    BY <1>1, <2>1, FeeSplitsAmount
  <2> HIDE DEF fee, share
  <2> QED  BY <2>2 DEF BPS_DENOMINATOR, MAX_FEE_BPS
<1>3. /\ l.balances \in Books /\ m.balances \in Books /\ F \in Books /\ G \in Books
      /\ l.platformEarnings \in [Tokens -> Nat] /\ m.platformEarnings \in [Tokens -> Nat]
  BY LoopFundsType DEF LoopState
<1>4. /\ \A a \in Accounts, t \in Tokens :
            m.balances[a][t] = l.balances[a][t]
                - IF a = item.user /\ t = item.token THEN item.amount ELSE 0
      /\ \A t \in Tokens :
            m.platformEarnings[t] = l.platformEarnings[t] + IF t = item.token THEN fee ELSE 0
      /\ G = Plus(F, item.sp, item.token, share)
  BY DEF Charged
<1>5. m.balances = Plus(l.balances, item.user, item.token, -item.amount)
  <2>1. \A a \in Accounts, t \in Tokens :
            m.balances[a][t] = l.balances[a][t]
                + IF a = item.user /\ t = item.token THEN -item.amount ELSE 0
    <3>1. \A a \in Accounts, t \in Tokens : l.balances[a][t] \in Nat
      BY <1>3 DEF Books
    <3> QED  BY <1>1, <1>4, <3>1
  <2>2. m.balances = [a \in Accounts |-> [t \in Tokens |-> m.balances[a][t]]]
    BY <1>3 DEF Books
  <2> QED  BY <2>1, <2>2 DEF Plus
<1> HIDE DEF fee, share, F, G
<1>6. ASSUME NEW t \in Tokens
      PROVE  /\ \A a \in Accounts :
                    m.balances[a][t] <= l.balances[a][t] /\ G[a][t] >= F[a][t]
             /\ m.platformEarnings[t] >= l.platformEarnings[t]
             /\ AcrossAccounts(l.balances, t) + AcrossAccounts(F, t) + l.platformEarnings[t]
                    = AcrossAccounts(m.balances, t) + AcrossAccounts(G, t)
                        + m.platformEarnings[t]
             /\ 10000 * (m.platformEarnings[t] - l.platformEarnings[t])
                    <= 3000 * (AcrossAccounts(l.balances, t) - AcrossAccounts(m.balances, t))
  <2>1. ASSUME NEW a \in Accounts
        PROVE  m.balances[a][t] <= l.balances[a][t] /\ G[a][t] >= F[a][t]
    <3>1. l.balances[a][t] \in Nat /\ F[a][t] \in Nat
      BY <1>3 DEF Books
    <3>2. G[a][t] = F[a][t] + IF a = item.sp /\ t = item.token THEN share ELSE 0
      BY <1>4 DEF Plus
    <3> QED  BY <1>1, <1>2, <1>4, <3>1, <3>2
  <2>2. /\ AcrossAccounts(l.balances, t) \in Nat /\ AcrossAccounts(F, t) \in Nat
        /\ l.platformEarnings[t] \in Nat
    BY <1>3, AcrossType
  <2>3. AcrossAccounts(m.balances, t)
            = AcrossAccounts(l.balances, t) + IF t = item.token THEN -item.amount ELSE 0
    <3>1. -item.amount \in Int
      BY <1>1
    <3> QED  BY <1>1, <1>3, <1>5, <3>1, AcrossPlus
  <2>4. AcrossAccounts(G, t)
            = AcrossAccounts(F, t) + IF t = item.token THEN share ELSE 0
    <3>1. share \in Int
      BY <1>2
    <3> QED  BY <1>1, <1>3, <1>4, <3>1, AcrossPlus
  <2>5. m.platformEarnings[t] = l.platformEarnings[t] + IF t = item.token THEN fee ELSE 0
    BY <1>4
  <2> QED  BY <1>1, <1>2, <2>1, <2>2, <2>3, <2>4, <2>5
<1> QED  BY <1>6 DEF Usage, F, G, BPS_DENOMINATOR, MAX_FEE_BPS

\* All that a batch does up to one of its items is usage, unless it reverts.
UsageSoFar(l) ==
    l.reverted \/ Usage(balances, ProviderFunds, platformEarnings,
                        l.balances, LoopFunds(l), l.platformEarnings)

\* What providers have in storage, told as what they have in a loop.
LEMMA FundsAreLoopFunds ==
    ProviderFunds = FundsOf(spEarnings, spLockups, spLockupCursor)
BY DEF ProviderFunds, FundsOf, LockedUp

\* A whole batch is usage, unless it reverts.
LEMMA BatchIsUsage ==
    ASSUME TypeOK, QueuesFit(spLockups), NEW items \in Seq(Item)
    PROVE  UsageSoFar(Loop(items)[Len(items)])
<1> DEFINE n == Len(items)
           L(k) == Loop(items)[k]
           S == {k \in 0 .. n : UsageSoFar(L(k))}
<1>t. /\ balances \in Books /\ ProviderFunds \in Books
      /\ platformEarnings \in [Tokens -> Nat]
  <2>1. /\ balances \in Books /\ platformEarnings \in [Tokens -> Nat]
        /\ spEarnings \in Books /\ spLockups \in Queues /\ spLockupCursor \in Books
    BY Types DEF MoneyTypes
  <2> QED  BY <2>1, FundsAreLoopFunds, FundsType DEF QueuesFit
<1>1. n \in Nat
  OBVIOUS
<1>2. 0 \in S
  <2>1. L(0) = LoopStart
    BY LoopUnfolds
  <2>2. /\ LoopStart.balances = balances
        /\ LoopStart.platformEarnings = platformEarnings
        /\ LoopFunds(LoopStart) = ProviderFunds
    BY FundsAreLoopFunds DEF LoopStart, LoopFunds
  <2>3. \A t \in Tokens :
            /\ platformEarnings[t] \in Nat
            /\ AcrossAccounts(balances, t) \in Nat /\ AcrossAccounts(ProviderFunds, t) \in Nat
            /\ \A a \in Accounts : balances[a][t] \in Nat /\ ProviderFunds[a][t] \in Nat
    BY <1>t, AcrossType DEF Books
  <2>4. Usage(balances, ProviderFunds, platformEarnings,
              balances, ProviderFunds, platformEarnings)
    BY <2>3 DEF Usage, BPS_DENOMINATOR, MAX_FEE_BPS
  <2> QED  BY <1>1, <2>1, <2>2, <2>4 DEF UsageSoFar
<1>3. ASSUME NEW k \in 0 .. n - 1, k \in S PROVE k + 1 \in S
  <2> DEFINE l    == L(k)
             m    == L(k + 1)
             item == items[k + 1]
  <2>1. /\ l \in LoopState /\ QueuesFit(l.spLockups)
        /\ m \in LoopState /\ QueuesFit(m.spLockups)
        /\ item \in Item
        /\ l.reverted => m.reverted
        /\ Chargeable(l, item) => Charged(l, item, m)
        /\ ~Chargeable(l, item) => m = [l EXCEPT !.failedCount = l.failedCount + 1]
    <3>1. k \in 0 .. n /\ k + 1 \in 0 .. n
      BY <1>1
    <3> QED  BY <3>1, LoopRuns, Zenon
  <2>2. UsageSoFar(l) /\ k + 1 \in 0 .. n
    BY <1>1, <1>3
  <2> HIDE DEF l, m, item
  <2>3. CASE m.reverted
    BY <2>2, <2>3 DEF UsageSoFar, m
  <2>4. CASE ~m.reverted /\ Chargeable(l, item)
    <3>1. /\ LoopFunds(l) \in Books /\ LoopFunds(m) \in Books
          /\ l.balances \in Books /\ m.balances \in Books
          /\ l.platformEarnings \in [Tokens -> Nat]
          /\ m.platformEarnings \in [Tokens -> Nat]
      BY <2>1, LoopFundsType DEF LoopState
    <3>2. Usage(l.balances, LoopFunds(l), l.platformEarnings,
                m.balances, LoopFunds(m), m.platformEarnings)
      BY <2>1, <2>4, ItemIsUsage DEF Chargeable
    <3>3. Usage(balances, ProviderFunds, platformEarnings,
                l.balances, LoopFunds(l), l.platformEarnings)
      BY <2>1, <2>2, <2>4 DEF UsageSoFar
    <3>4. Usage(balances, ProviderFunds, platformEarnings,
                m.balances, LoopFunds(m), m.platformEarnings)
      BY <1>t, <3>1, <3>2, <3>3, UsageAddsUp
    <3> QED  BY <2>2, <3>4 DEF UsageSoFar, m
  <2>5. CASE ~m.reverted /\ ~Chargeable(l, item)
    <3>1. /\ m.balances = l.balances /\ m.platformEarnings = l.platformEarnings
          /\ m.spEarnings = l.spEarnings /\ m.spLockups = l.spLockups
          /\ m.reverted = l.reverted
      BY <2>1, <2>5 DEF LoopState
    <3>2. LoopFunds(m) = LoopFunds(l)
      BY <3>1 DEF LoopFunds
    <3>3. UsageSoFar(m)
      BY <2>2, <3>1, <3>2 DEF UsageSoFar
    <3> QED  BY <2>2, <3>3 DEF m
  <2> QED  BY <2>3, <2>4, <2>5
<1>4. 0 .. n \subseteq S
  <2> HIDE DEF S, n
  <2> QED  BY <1>1, <1>2, <1>3, IntervalInduction
<1> QED  BY <1>1, <1>4

\* A settlement is usage, and leaves the vault as it is.
LEMMA SettlementIsUsage ==
    ASSUME TypeOK, QueuesFit(spLockups),
           NEW items \in Batches, NEW detailsHash \in Hashes,
           SubmitSettlement(operator, items, detailsHash)
    PROVE  /\ Usage(balances, ProviderFunds, platformEarnings,
                    balances', ProviderFunds', platformEarnings')
           /\ UNCHANGED Vault
<1> DEFINE done == Loop(items)[Len(items)]
<1>1. UsageSoFar(done)
  <2>1. items \in Seq(Item)
    BY BatchesAssumption
  <2> QED  BY <2>1, BatchIsUsage
<1>2. /\ ~done.reverted
      /\ balances' = done.balances /\ spEarnings' = done.spEarnings
      /\ spLockups' = done.spLockups /\ platformEarnings' = done.platformEarnings
      /\ spLockupCursor' = spLockupCursor
      /\ holdings' = holdings /\ uncredited' = uncredited
  BY Zenon DEF SubmitSettlement, assetVars
<1> HIDE DEF done
<1>3. ProviderFunds' = LoopFunds(done)
  <2>1. (ProviderFunds = FundsOf(spEarnings, spLockups, spLockupCursor))'
    BY FundsAreLoopFunds, PTL
  <2> QED  BY <1>2, <2>1 DEF LoopFunds
<1>4. UNCHANGED Vault
  BY <1>2 DEF Vault
<1> QED  BY <1>1, <1>2, <1>3, <1>4 DEF UsageSoFar

-----------------------------------------------------------------------------
(* How each step moves money *)

\* v more, or less, of token t in the vault.
VaultPlus(t, v) ==
    \A u \in Tokens : Vault'[u] = Vault[u] + IF u = t THEN v ELSE 0

Prepaid(a, t, v) ==
    /\ balances' = Plus(balances, a, t, v) /\ VaultPlus(t, v)
    /\ UNCHANGED <<ProviderFunds, platformEarnings>>

PaidOut(a, t, v) ==
    /\ ProviderFunds' = Plus(ProviderFunds, a, t, -v) /\ VaultPlus(t, -v)
    /\ UNCHANGED <<balances, platformEarnings>>

PlatformPaid(t) ==
    /\ platformEarnings' = [platformEarnings EXCEPT ![t] = 0]
    /\ VaultPlus(t, -platformEarnings[t])
    /\ UNCHANGED <<balances, ProviderFunds>>

Forfeited(a, t, v) ==
    /\ ProviderFunds' = Plus(ProviderFunds, a, t, -v)
    /\ platformEarnings' = [platformEarnings EXCEPT ![t] = @ + v]
    /\ UNCHANGED <<balances, Vault>>

\* The kinds of steps there are for money; a refund is a prepayment of less
\* than nothing.
MoneyMove ==
    \/ UNCHANGED <<balances, ProviderFunds, platformEarnings, Vault>>
    \/ \E a \in Accounts, t \in Tokens, v \in Int : Prepaid(a, t, v)
    \/ /\ Usage(balances, ProviderFunds, platformEarnings,
                balances', ProviderFunds', platformEarnings')
       /\ UNCHANGED Vault
    \/ \E a \in Accounts, t \in Tokens, v \in Nat \ {0} : PaidOut(a, t, v)
    \/ \E t \in Tokens : platformEarnings[t] > 0 /\ PlatformPaid(t)
    \/ \E a \in Accounts, t \in Tokens, v \in Nat \ {0} : Forfeited(a, t, v)

\* A table of amounts of which one entry was changed.
LEMMA PlusOf ==
    ASSUME NEW f \in Books, NEW g \in Books, NEW a \in Accounts, NEW t \in Tokens,
           NEW v,
           \A b \in Accounts, u \in Tokens :
                g[b][u] = f[b][u] + IF b = a /\ u = t THEN v ELSE 0
    PROVE  g = Plus(f, a, t, v)
<1>1. g = [b \in Accounts |-> [u \in Tokens |-> g[b][u]]]
  BY DEF Books
<1> QED  BY <1>1 DEF Plus

\* A table of amounts with one entry written is one with an amount added.
LEMMA WrittenIsPlus ==
    ASSUME NEW f \in Books, NEW a \in Accounts, NEW t \in Tokens, NEW v \in Int,
           NEW w \in Nat, w = f[a][t] + v, NEW g, g = [f EXCEPT ![a][t] = w]
    PROVE  g = Plus(f, a, t, v)
<1>1. /\ g \in Books
      /\ \A b \in Accounts, u \in Tokens :
            g[b][u] = IF b = a /\ u = t THEN w ELSE f[b][u]
  BY TableEntry DEF Books
<1>2. \A b \in Accounts, u \in Tokens :
        g[b][u] = f[b][u] + IF b = a /\ u = t THEN v ELSE 0
  <2>1. \A b \in Accounts, u \in Tokens : f[b][u] \in Nat
    BY DEF Books
  <2> QED  BY <1>1, <2>1
<1>3. g = [b \in Accounts |-> [u \in Tokens |-> g[b][u]]]
  BY <1>1 DEF Books
<1> QED  BY <1>2, <1>3 DEF Plus

\* What a provider has changes only where its matured or frozen earnings do.
LEMMA FundsPlus ==
    ASSUME Inv, Inv', NEW sp \in Accounts, NEW token \in Tokens, NEW v \in Int,
           NEW earned \in Nat, NEW queue \in Seq(Entries(MaxUint192)),
           NEW cursor \in 0 .. Len(queue), WellFormed(queue, cursor),
           spEarnings' = [spEarnings EXCEPT ![sp][token] = earned],
           spLockups' = [spLockups EXCEPT ![sp][token] = queue],
           spLockupCursor' = [spLockupCursor EXCEPT ![sp][token] = cursor],
           earned + TotalIn(queue, cursor)
                = spEarnings[sp][token] + LockedUp(sp, token) + v
    PROVE  ProviderFunds' = Plus(ProviderFunds, sp, token, v)
<1>1. TypeOK /\ QueuesFit(spLockups) /\ spEarnings \in Books
  BY Types DEF Inv, MoneyTypes
<1>2. \A a \in Accounts, t \in Tokens :
        TotalIn(spLockups'[a][t], spLockupCursor'[a][t])
            = IF a = sp /\ t = token THEN TotalIn(queue, cursor) ELSE LockedUp(a, t)
  BY <1>1, QueueReplaced
<1>3. \A a \in Accounts, t \in Tokens :
        spEarnings'[a][t] = IF a = sp /\ t = token THEN earned ELSE spEarnings[a][t]
  BY <1>1, TableEntry DEF Books
<1>4. ASSUME NEW a \in Accounts, NEW t \in Tokens
      PROVE  spEarnings'[a][t] + TotalIn(spLockups'[a][t], spLockupCursor'[a][t])
                = ProviderFunds[a][t] + IF a = sp /\ t = token THEN v ELSE 0
  <2>1. ProviderFunds[a][t] = spEarnings[a][t] + LockedUp(a, t)
    BY DEF ProviderFunds
  <2>2. spEarnings[a][t] + LockedUp(a, t) \in Nat
    <3>1. ProviderFunds \in Books
      <4>1. spLockups \in Queues /\ spLockupCursor \in Books
        BY <1>1, Types DEF MoneyTypes
      <4> QED  BY <1>1, <4>1, FundsType, FundsAreLoopFunds DEF QueuesFit
    <3> QED  BY <2>1, <3>1 DEF Books
  <2>3. CASE a = sp /\ t = token
    BY <1>2, <1>3, <2>1, <2>3
  <2>4. CASE ~(a = sp /\ t = token)
    BY <1>2, <1>3, <2>1, <2>2, <2>4
  <2> QED  BY <2>3, <2>4
<1>5. ProviderFunds' = [a \in Accounts |-> [t \in Tokens |->
            spEarnings'[a][t] + TotalIn(spLockups'[a][t], spLockupCursor'[a][t])]]
  <2>1. (ProviderFunds = FundsOf(spEarnings, spLockups, spLockupCursor))'
    BY FundsAreLoopFunds, PTL
  <2> QED  BY <2>1 DEF FundsOf
<1> QED  BY <1>4, <1>5 DEF Plus

\* The vault with holdings of one token changed.
LEMMA VaultIsPlus ==
    ASSUME Inv, NEW token \in Tokens, NEW v \in Int,
           \A t \in Tokens : holdings'[t] = holdings[t] + IF t = token THEN v ELSE 0,
           uncredited' = uncredited
    PROVE  VaultPlus(token, v)
<1>1. \A t \in Tokens : holdings[t] \in Nat /\ uncredited[t] \in Nat
  BY Types DEF Inv, MoneyTypes
<1>2. /\ \A t \in Tokens : Vault[t] = holdings[t] - uncredited[t]
      /\ \A t \in Tokens : Vault'[t] = holdings'[t] - uncredited'[t]
  BY DEF Vault
<1> QED  BY <1>1, <1>2 DEF VaultPlus

\* Every step of the contract moves money in one of five ways, or not at all.
LEMMA MoneyMoves ==
    ASSUME Inv, Inv', [Next]_vars
    PROVE  MoneyMove
<1>t. /\ TypeOK /\ QueuesFit(spLockups)
      /\ balances \in Books /\ spEarnings \in Books
      /\ platformEarnings \in [Tokens -> Nat] /\ holdings \in [Tokens -> Nat]
      /\ uncredited \in [Tokens -> Nat] /\ refundRequests \in Seq(RefundRequest)
      /\ \A a \in Accounts, t \in Tokens :
            balances[a][t] \in Nat /\ spEarnings[a][t] \in Nat
  BY Types DEF Inv, MoneyTypes, Books
<1>l. \A a \in Accounts, t \in Tokens : LockedUp(a, t) \in Nat
  <2>1. 0 \in Nat
    OBVIOUS
  <2>2. ASSUME NEW a \in Accounts, NEW t \in Tokens PROVE LockedUp(a, t) \in Nat
    <3> DEFINE m == AfterMaturing(a, t, 0)
    <3>1. /\ m.released \in Nat /\ TotalIn(m.queue, m.cursor) \in Nat
          /\ LockedUp(a, t) = TotalIn(m.queue, m.cursor) + m.released
      BY <1>t, <2>1, MaturedHere
    <3> HIDE DEF m
    <3> QED  BY <3>1
  <2> QED  BY <2>2
<1>s. UNCHANGED <<spEarnings, spLockups, spLockupCursor>> => UNCHANGED ProviderFunds
  <2>1. (ProviderFunds = FundsOf(spEarnings, spLockups, spLockupCursor))'
    BY FundsAreLoopFunds, PTL
  <2> QED  BY <2>1, FundsAreLoopFunds
<1>v. UNCHANGED <<holdings, uncredited>> => UNCHANGED Vault
  BY DEF Vault
<1>1. CASE UNCHANGED moneyVars
  BY <1>1, <1>s, <1>v DEF moneyVars, userVars, spVars, assetVars, MoneyMove
<1>2. ASSUME NEW token \in Tokens, NEW value \in Nat, SendUncredited(token, value)
      PROVE  MoneyMove
  <2>1. /\ UNCHANGED <<balances, spEarnings, spLockups, spLockupCursor, platformEarnings>>
        /\ holdings' = [holdings EXCEPT ![token] = @ + value]
        /\ uncredited' = [uncredited EXCEPT ![token] = @ + value]
    BY <1>2 DEF SendUncredited, Arrives, storageVars, userVars, spVars
  <2>2. \A t \in Tokens : holdings'[t] - uncredited'[t] = holdings[t] - uncredited[t]
    BY <1>t, <2>1
  <2>3. UNCHANGED Vault
    BY <2>2 DEF Vault
  <2> QED  BY <1>s, <2>1, <2>3 DEF MoneyMove
<1>3. ASSUME NEW sender \in Accounts, NEW token \in Tokens, NEW value \in Nat,
             Deposit(sender, token, value, value)
      PROVE  MoneyMove
  <2> DEFINE w == balances[sender][token] + value
  <2>1. /\ UNCHANGED <<spEarnings, spLockups, spLockupCursor, platformEarnings, uncredited>>
        /\ holdings' = [holdings EXCEPT ![token] = @ + value]
        /\ balances' = [balances EXCEPT ![sender][token] = w]
    BY <1>3 DEF Deposit, Arrives, spVars
  <2>2. w \in Nat /\ w = balances[sender][token] + value /\ value \in Int
    BY <1>t
  <2> HIDE DEF w
  <2>3. balances' = Plus(balances, sender, token, value)
    BY <1>t, <2>1, <2>2, WrittenIsPlus
  <2>4. \A t \in Tokens : holdings'[t] = holdings[t] + IF t = token THEN value ELSE 0
    BY <1>t, <2>1
  <2>5. VaultPlus(token, value)
    BY <2>1, <2>2, <2>4, VaultIsPlus
  <2> QED  BY <1>s, <2>1, <2>2, <2>3, <2>5 DEF MoneyMove, Prepaid
<1>4. ASSUME NEW sender \in Accounts, NEW token \in Tokens, NEW amount \in Nat,
             RequestRefund(sender, token, amount)
      PROVE  MoneyMove
  BY <1>4, <1>s, <1>v DEF RequestRefund, spVars, assetVars, MoneyMove
<1>5. ASSUME NEW sender \in Accounts, NEW id \in DOMAIN refundRequests,
             CancelRefund(sender, id)
      PROVE  MoneyMove
  BY <1>5, <1>s, <1>v DEF CancelRefund, spVars, assetVars, MoneyMove
<1>6. ASSUME NEW sender \in Accounts, NEW id \in DOMAIN refundRequests,
             ClaimRefund(sender, id)
      PROVE  MoneyMove
  <2> DEFINE req == refundRequests[id]
             u   == req.user
             t   == req.token
             n   == req.amount
             w   == balances[u][t] - n
  <2>1. u \in Accounts /\ t \in Tokens /\ n \in Nat
    BY <1>t, RequestType
  <2>2. /\ balances[u][t] >= n
        /\ balances' = [balances EXCEPT ![u][t] = w]
        /\ TransferOut(t, sender, n)
        /\ UNCHANGED <<spEarnings, spLockups, spLockupCursor, platformEarnings>>
    BY <1>6 DEF ClaimRefund, Claimable, BookClaim, spVars
  <2> HIDE DEF u, t, n
  <2>3. w \in Nat /\ w = balances[u][t] + -n /\ -n \in Int
    <3>1. balances[u][t] \in Nat
      BY <1>t, <2>1
    <3>2. balances[u][t] - n \in Nat /\ balances[u][t] - n = balances[u][t] + -n
      BY <2>1, <2>2, <3>1
    <3>3. -n \in Int
      BY <2>1
    <3> QED  BY <3>2, <3>3
  <2> HIDE DEF w
  <2>4. balances' = Plus(balances, u, t, -n)
    BY <1>t, <2>1, <2>2, <2>3, WrittenIsPlus
  <2>5. /\ \A x \in Tokens : holdings'[x] = holdings[x] - IF x = t THEN n ELSE 0
        /\ uncredited' = uncredited
    BY <1>t, <2>1, <2>2, PaymentType
  <2>6. \A x \in Tokens : holdings'[x] = holdings[x] + IF x = t THEN -n ELSE 0
    BY <1>t, <2>1, <2>5
  <2>7. VaultPlus(t, -n)
    BY <2>1, <2>3, <2>5, <2>6, VaultIsPlus
  <2>8. Prepaid(u, t, -n)
    BY <1>s, <2>2, <2>4, <2>7 DEF Prepaid
  <2> QED  BY <2>1, <2>3, <2>8 DEF MoneyMove
<1>7. ASSUME NEW items \in Batches, NEW detailsHash \in Hashes,
             SubmitSettlement(operator, items, detailsHash)
      PROVE  MoneyMove
  BY <1>7, <1>t, SettlementIsUsage DEF MoneyMove
<1>8. ASSUME NEW sp \in Accounts, NEW token \in Tokens, NEW max \in Nat,
             MatureEarnings(sp, token, max)
      PROVE  MoneyMove
  <2> DEFINE m == AfterMaturing(sp, token, max)
             w == spEarnings[sp][token] + m.released
  <2>1. /\ spLockups' = [spLockups EXCEPT ![sp][token] = m.queue]
        /\ spLockupCursor' = [spLockupCursor EXCEPT ![sp][token] = m.cursor]
        /\ spEarnings' = [spEarnings EXCEPT ![sp][token] = w]
        /\ UNCHANGED <<balances, platformEarnings, holdings, uncredited>>
    BY <1>8 DEF MatureEarnings, userVars, assetVars
  <2>2. /\ m.queue \in Seq(Entries(MaxUint192)) /\ m.cursor \in 0 .. Len(m.queue)
        /\ WellFormed(m.queue, m.cursor) /\ m.released \in Nat
        /\ TotalIn(m.queue, m.cursor) \in Nat
        /\ LockedUp(sp, token) = TotalIn(m.queue, m.cursor) + m.released
    BY <1>t, MaturedHere
  <2> HIDE DEF m
  <2>3. /\ w \in Nat /\ 0 \in Int
        /\ w + TotalIn(m.queue, m.cursor)
            = spEarnings[sp][token] + LockedUp(sp, token) + 0
    BY <1>t, <2>2
  <2> HIDE DEF w
  <2>4. ProviderFunds' = Plus(ProviderFunds, sp, token, 0)
    BY <2>1, <2>2, <2>3, FundsPlus
  <2>5. \A a \in Accounts, t \in Tokens :
            ProviderFunds[a][t] + (IF a = sp /\ t = token THEN 0 ELSE 0)
                = spEarnings[a][t] + LockedUp(a, t)
    BY <1>t, <1>l DEF ProviderFunds
  <2>6. ProviderFunds' = ProviderFunds
    BY <2>4, <2>5 DEF Plus, ProviderFunds
  <2> QED  BY <1>v, <2>1, <2>6 DEF MoneyMove
<1>9. ASSUME NEW sp \in Accounts, NEW token \in Tokens, WithdrawEarnings(sp, token)
      PROVE  MoneyMove
  <2> DEFINE m == AfterMaturing(sp, token, 0)
             n == EarningsOf(sp, token)
  <2>1. /\ spLockups' = [spLockups EXCEPT ![sp][token] = m.queue]
        /\ spLockupCursor' = [spLockupCursor EXCEPT ![sp][token] = m.cursor]
        /\ spEarnings' = [spEarnings EXCEPT ![sp][token] = 0]
        /\ UNCHANGED <<balances, platformEarnings>>
        /\ n > 0 /\ TransferOut(token, sp, n)
    BY <1>9 DEF WithdrawEarnings, BookWithdrawal, userVars
  <2>2. /\ m.queue \in Seq(Entries(MaxUint192)) /\ m.cursor \in 0 .. Len(m.queue)
        /\ WellFormed(m.queue, m.cursor) /\ m.released \in Nat
        /\ TotalIn(m.queue, m.cursor) \in Nat
        /\ LockedUp(sp, token) = TotalIn(m.queue, m.cursor) + m.released
    <3>1. 0 \in Nat
      OBVIOUS
    <3> QED  BY <1>t, <3>1, MaturedHere
  <2>3. n = spEarnings[sp][token] + m.released
    BY DEF EarningsOf
  <2> HIDE DEF m, n
  <2>4. /\ n \in Nat \ {0} /\ -n \in Int /\ 0 \in Nat
        /\ 0 + TotalIn(m.queue, m.cursor)
            = spEarnings[sp][token] + LockedUp(sp, token) + -n
    BY <1>t, <2>1, <2>2, <2>3, SMTT(30)
  <2>5. ProviderFunds' = Plus(ProviderFunds, sp, token, -n)
    BY <2>1, <2>2, <2>4, FundsPlus
  <2>6. /\ \A x \in Tokens : holdings'[x] = holdings[x] - IF x = token THEN n ELSE 0
        /\ uncredited' = uncredited
    BY <1>t, <2>1, <2>4, PaymentType
  <2>7. \A x \in Tokens : holdings'[x] = holdings[x] + IF x = token THEN -n ELSE 0
    BY <1>t, <2>4, <2>6
  <2>8. VaultPlus(token, -n)
    BY <2>4, <2>6, <2>7, VaultIsPlus
  <2>9. PaidOut(sp, token, n)
    BY <2>1, <2>5, <2>8 DEF PaidOut
  <2> QED  BY <2>4, <2>9 DEF MoneyMove
<1>10. ASSUME NEW sp \in Accounts, NEW token \in Tokens,
              ConfiscateFrozenEarnings(arbiter, sp, token)
       PROVE  MoneyMove
  <2> DEFINE m == AfterMaturing(sp, token, 0)
             s == Seized(m.queue, m.cursor, now)
             w == spEarnings[sp][token] + m.released
             n == s.amount
  <2>1. /\ spLockups' = [spLockups EXCEPT ![sp][token] = s.queue]
        /\ spLockupCursor' = [spLockupCursor EXCEPT ![sp][token] = m.cursor]
        /\ spEarnings' = [spEarnings EXCEPT ![sp][token] = w]
        /\ platformEarnings' = [platformEarnings EXCEPT ![token] = @ + n]
        /\ UNCHANGED <<balances, holdings, uncredited>> /\ n > 0
    BY <1>10 DEF ConfiscateFrozenEarnings, userVars, assetVars
  <2>2. /\ m.released \in Nat /\ TotalIn(m.queue, m.cursor) \in Nat
        /\ LockedUp(sp, token) = TotalIn(m.queue, m.cursor) + m.released
    <3>1. 0 \in Nat
      OBVIOUS
    <3> QED  BY <1>t, <3>1, MaturedHere
  <2>3. /\ s.queue \in Seq(Entries(MaxUint192)) /\ m.cursor \in 0 .. Len(s.queue)
        /\ WellFormed(s.queue, m.cursor) /\ n \in Nat
        /\ TotalIn(s.queue, m.cursor) \in Nat
        /\ TotalIn(m.queue, m.cursor) = TotalIn(s.queue, m.cursor) + n
    BY <1>t, SeizedHere
  <2> HIDE DEF s, m, n
  <2>4. /\ n \in Nat \ {0} /\ -n \in Int /\ w \in Nat
        /\ w + TotalIn(s.queue, m.cursor)
            = spEarnings[sp][token] + LockedUp(sp, token) + -n
    <3> DEFINE e == spEarnings[sp][token]
    <3>1. e \in Nat /\ n \in Nat /\ n > 0 /\ m.released \in Nat
          /\ TotalIn(m.queue, m.cursor) \in Nat /\ TotalIn(s.queue, m.cursor) \in Nat
      BY <1>t, <2>1, <2>2, <2>3
    <3>2. w = e + m.released
      OBVIOUS
    <3> HIDE DEF e, w
    <3>3. n \in Nat \ {0} /\ -n \in Int /\ w \in Nat
      BY <3>1, <3>2
    <3>4. w + TotalIn(s.queue, m.cursor) = e + LockedUp(sp, token) + -n
      BY <2>2, <2>3, <3>1, <3>2
    <3> QED  BY <3>3, <3>4 DEF e
  <2> HIDE DEF w
  <2>5. ProviderFunds' = Plus(ProviderFunds, sp, token, -n)
    BY <2>1, <2>3, <2>4, FundsPlus
  <2>6. Forfeited(sp, token, n)
    BY <1>v, <2>1, <2>5 DEF Forfeited
  <2> QED  BY <2>4, <2>6 DEF MoneyMove
<1>11. ASSUME NEW token \in Tokens, NEW to, WithdrawPlatformEarnings(owner, token, to)
       PROVE  MoneyMove
  <2> DEFINE n == platformEarnings[token]
  <2>1. /\ platformEarnings' = [platformEarnings EXCEPT ![token] = 0]
        /\ UNCHANGED <<balances, spEarnings, spLockups, spLockupCursor>>
        /\ n > 0 /\ TransferOut(token, to, n)
    BY <1>11 DEF WithdrawPlatformEarnings, PlatformMayPay, BookPlatformWithdrawal,
                 userVars, spVars
  <2>2. n \in Nat /\ -n \in Int
    BY <1>t
  <2> HIDE DEF n
  <2>3. /\ \A x \in Tokens : holdings'[x] = holdings[x] - IF x = token THEN n ELSE 0
        /\ uncredited' = uncredited
    BY <1>t, <2>1, <2>2, PaymentType
  <2>4. \A x \in Tokens : holdings'[x] = holdings[x] + IF x = token THEN -n ELSE 0
    BY <1>t, <2>2, <2>3
  <2>5. VaultPlus(token, -n)
    BY <2>2, <2>3, <2>4, VaultIsPlus
  <2> QED  BY <1>s, <2>1, <2>5 DEF MoneyMove, PlatformPaid, n
<1>12. CASE UNCHANGED vars
  BY <1>1, <1>12 DEF vars, storageVars, moneyVars
<1> QED  BY <1>1, <1>2, <1>3, <1>4, <1>5, <1>6, <1>7, <1>8, <1>9, <1>10, <1>11, <1>12,
            StepKinds

-----------------------------------------------------------------------------
(* The ledger *)

\* The state mapped to the ledger has the ledger's types.
LEMMA LedgerTypes ==
    ASSUME Inv
    PROVE  /\ balances \in Books /\ ProviderFunds \in Books
           /\ platformEarnings \in [Tokens -> Nat] /\ Vault \in [Tokens -> Int]
<1>1. /\ balances \in Books /\ platformEarnings \in [Tokens -> Nat]
      /\ holdings \in [Tokens -> Nat] /\ uncredited \in [Tokens -> Nat]
  BY Types DEF Inv, MoneyTypes
<1>2. ProviderFunds \in Books
  <2>1. /\ spEarnings \in Books /\ spLockups \in Queues /\ spLockupCursor \in Books
        /\ QueuesFit(spLockups)
    BY Types DEF Inv, MoneyTypes
  <2> QED  BY <2>1, FundsType, FundsAreLoopFunds DEF QueuesFit
<1>3. Vault \in [Tokens -> Int]
  BY <1>1 DEF Vault
<1> QED  BY <1>1, <1>2, <1>3

\* The contract begins as an empty ledger.
LEMMA LedgerInit == Init => Ledger!Init
<1> SUFFICES ASSUME Init PROVE Ledger!Init
  OBVIOUS
<1>1. \A a \in Accounts, t \in Tokens : TotalIn(spLockups[a][t], spLockupCursor[a][t]) = 0
  <2>1. TotalIn(<<>>, 0) = 0
    <3>1. 0 + 1 .. Len(<<>>) = {}
      OBVIOUS
    <3> QED  BY <3>1, TotalEmpty DEF TotalIn, AmountIn
  <2> QED  BY <2>1 DEF Init, ZeroPerAccount, Zero
<1>2. ProviderFunds = [a \in Accounts |-> [t \in Tokens |-> 0]]
  BY <1>1 DEF ProviderFunds, LockedUp, Init, ZeroPerAccount, Zero
<1>3. Vault = [t \in Tokens |-> 0]
  BY DEF Vault, Init, Zero
<1>4. /\ balances = [a \in Accounts |-> [t \in Tokens |-> 0]]
      /\ platformEarnings = [t \in Tokens |-> 0]
  BY DEF Init, ZeroPerAccount, Zero
<1> QED  BY <1>2, <1>3, <1>4 DEF Ledger!Init

\* Each kind of move is a step of the ledger, or none.
LEMMA LedgerStep ==
    ASSUME Inv, Inv', MoneyMove
    PROVE  [Ledger!Next]_(Ledger!vars)
<1>t. /\ balances \in Books /\ ProviderFunds \in Books
      /\ platformEarnings \in [Tokens -> Nat] /\ Vault \in [Tokens -> Int]
      /\ Vault' \in [Tokens -> Int]
  <2>1. (Inv => Vault \in [Tokens -> Int])'
    BY LedgerTypes, PTL
  <2> QED  BY <2>1, LedgerTypes
<1>v. ASSUME NEW t \in Tokens, NEW v \in Int, VaultPlus(t, v)
      PROVE  /\ Vault' = [Vault EXCEPT ![t] = @ + v]
             /\ Vault'[t] = Vault[t] + v /\ Vault[t] \in Int
  BY <1>t, <1>v DEF VaultPlus
<1>1. CASE UNCHANGED <<balances, ProviderFunds, platformEarnings, Vault>>
  BY <1>1 DEF Ledger!vars
<1>2. ASSUME NEW a \in Accounts, NEW t \in Tokens, NEW v \in Int, Prepaid(a, t, v)
      PROVE  [Ledger!Next]_(Ledger!vars)
  <2>1. /\ balances' = [balances EXCEPT ![a][t] = @ + v]
        /\ Vault' = [Vault EXCEPT ![t] = @ + v]
        /\ Vault'[t] = Vault[t] + v /\ Vault[t] \in Int
        /\ UNCHANGED <<ProviderFunds, platformEarnings>>
    BY <1>2, <1>t, <1>v, PlusIsExcept DEF Prepaid
  <2>2. balances[a][t] \in Nat
    BY <1>t DEF Books
  <2>3. CASE v > 0
    <3>1. /\ Vault'[t] > Vault[t] /\ Vault'[t] - Vault[t] = v
          /\ Vault' = [Vault EXCEPT ![t] = Vault'[t]]
      <4>1. Vault'[t] > Vault[t] /\ Vault'[t] - Vault[t] = v
        BY <2>1, <2>3
      <4>2. Vault' = [Vault EXCEPT ![t] = Vault'[t]]
        BY <2>1, Zenon
      <4> QED  BY <4>1, <4>2
    <3>2. balances' = [balances EXCEPT ![a][t] = @ + (Vault'[t] - Vault[t])]
      BY <2>1, <3>1
    <3>3. Ledger!Prepay
      BY <2>1, <3>1, <3>2 DEF Ledger!Prepay
    <3> QED  BY <3>3 DEF Ledger!Next
  <2>4. CASE v = 0
    <3>1. balances' = balances /\ Vault' = Vault
      <4>1. balances[a][t] + v = balances[a][t] /\ Vault[t] + v = Vault[t]
        BY <2>1, <2>2, <2>4
      <4>2. balances' = [balances EXCEPT ![a][t] = balances[a][t]]
        BY <2>1, <4>1
      <4>3. Vault' = [Vault EXCEPT ![t] = Vault[t]]
        BY <2>1, <4>1
      <4> QED  BY <1>t, <4>2, <4>3 DEF Books
    <3> QED  BY <2>1, <3>1 DEF Ledger!vars
  <2>5. CASE v < 0
    <3> DEFINE amount == balances[a][t] - balances'[a][t]
    <3>1. amount = -v /\ amount > 0
      <4>1. balances'[a][t] = balances[a][t] + v
        BY <1>t, <2>1 DEF Books
      <4> QED  BY <2>2, <2>5, <4>1
    <3>2. /\ Vault[t] + v = Vault[t] - amount
          /\ balances[a][t] + v = balances[a][t] - amount
      BY <2>1, <2>2, <3>1
    <3> HIDE DEF amount
    <3>3. /\ Vault' = [Vault EXCEPT ![t] = @ - amount]
          /\ balances' = [balances EXCEPT ![a][t] = @ - amount]
      BY <2>1, <3>2
    <3>4. Ledger!Refund
      BY <2>1, <3>1, <3>3 DEF Ledger!Refund, Ledger!Leaves, amount
    <3> QED  BY <3>4 DEF Ledger!Next
  <2> QED  BY <2>3, <2>4, <2>5
<1>3. CASE /\ Usage(balances, ProviderFunds, platformEarnings,
                    balances', ProviderFunds', platformEarnings')
           /\ UNCHANGED Vault
  <2>1. Ledger!Use
    <3>1. \A f, t : Ledger!Sum(f, t) = AcrossAccounts(f, t)
      BY Zenon DEF Ledger!Sum, AcrossAccounts, Ledger!Total, Total, Ledger!Units, Units,
            Ledger!Cardinality, Cardinality
    <3> QED  BY <1>3, <3>1, Zenon DEF Usage, Ledger!Use
  <2> QED  BY <2>1 DEF Ledger!Next
<1>4. ASSUME NEW a \in Accounts, NEW t \in Tokens, NEW v \in Nat \ {0}, PaidOut(a, t, v)
      PROVE  Ledger!Next
  <2> DEFINE amount == ProviderFunds[a][t] - ProviderFunds'[a][t]
  <2>1. ProviderFunds[a][t] \in Nat /\ -v \in Int
    BY <1>t DEF Books
  <2>2. /\ ProviderFunds' = [ProviderFunds EXCEPT ![a][t] = @ + -v]
        /\ Vault' = [Vault EXCEPT ![t] = @ + -v] /\ Vault[t] \in Int
        /\ UNCHANGED <<balances, platformEarnings>>
    <3>1. \A w \in Int : Plus(ProviderFunds, a, t, w) = [ProviderFunds EXCEPT ![a][t] = @ + w]
      BY <1>t, PlusIsExcept
    <3>2. Plus(ProviderFunds, a, t, -v) = [ProviderFunds EXCEPT ![a][t] = @ + -v]
      BY <2>1, <3>1, Zenon
    <3>3. Vault' = [Vault EXCEPT ![t] = @ + -v] /\ Vault[t] \in Int
      BY <1>4, <1>v, <2>1, Zenon DEF PaidOut
    <3> QED  BY <1>4, <3>2, <3>3, Zenon DEF PaidOut
  <2>3. amount = v
    <3>1. ProviderFunds'[a][t] = ProviderFunds[a][t] + -v
      BY <1>t, <2>2 DEF Books
    <3> QED  BY <2>1, <3>1
  <2>4. /\ Vault[t] + -v = Vault[t] - amount
        /\ ProviderFunds[a][t] + -v = ProviderFunds[a][t] - amount
        /\ amount > 0
    BY <2>1, <2>2, <2>3
  <2> HIDE DEF amount
  <2>5. /\ Vault' = [Vault EXCEPT ![t] = @ - amount]
        /\ ProviderFunds' = [ProviderFunds EXCEPT ![a][t] = @ - amount]
    BY <2>2, <2>4
  <2>6. Ledger!Pay
    BY <2>2, <2>4, <2>5 DEF Ledger!Pay, Ledger!Leaves, amount
  <2> QED  BY <2>6 DEF Ledger!Next
<1>5. ASSUME NEW t \in Tokens, platformEarnings[t] > 0, PlatformPaid(t)
      PROVE  Ledger!Next
  <2>1. platformEarnings[t] \in Nat /\ -platformEarnings[t] \in Int
    BY <1>t
  <2>2. /\ Vault' = [Vault EXCEPT ![t] = @ + -platformEarnings[t]] /\ Vault[t] \in Int
        /\ platformEarnings' = [platformEarnings EXCEPT ![t] = 0]
        /\ UNCHANGED <<balances, ProviderFunds>>
    BY <1>5, <1>v, <2>1 DEF PlatformPaid
  <2>3. Vault[t] + -platformEarnings[t] = Vault[t] - platformEarnings[t]
    BY <2>1, <2>2
  <2>4. Vault' = [Vault EXCEPT ![t] = @ - platformEarnings[t]]
    BY <2>2, <2>3
  <2>5. Ledger!PayPlatform
    BY <1>5, <2>2, <2>4 DEF Ledger!PayPlatform, Ledger!Leaves
  <2> QED  BY <2>5 DEF Ledger!Next
<1>6. ASSUME NEW a \in Accounts, NEW t \in Tokens, NEW v \in Nat \ {0}, Forfeited(a, t, v)
      PROVE  Ledger!Next
  <2> DEFINE amount == ProviderFunds[a][t] - ProviderFunds'[a][t]
  <2>1. ProviderFunds[a][t] \in Nat /\ -v \in Int
    BY <1>t DEF Books
  <2>2. /\ ProviderFunds' = [ProviderFunds EXCEPT ![a][t] = @ + -v]
        /\ platformEarnings' = [platformEarnings EXCEPT ![t] = @ + v]
        /\ UNCHANGED <<balances, Vault>>
    <3>1. \A w \in Int : Plus(ProviderFunds, a, t, w) = [ProviderFunds EXCEPT ![a][t] = @ + w]
      BY <1>t, PlusIsExcept
    <3>2. Plus(ProviderFunds, a, t, -v) = [ProviderFunds EXCEPT ![a][t] = @ + -v]
      BY <2>1, <3>1, Zenon
    <3> QED  BY <1>6, <3>2, Zenon DEF Forfeited
  <2>3. amount = v
    <3>1. ProviderFunds'[a][t] = ProviderFunds[a][t] + -v
      BY <1>t, <2>2 DEF Books
    <3> QED  BY <2>1, <3>1
  <2>4. ProviderFunds[a][t] + -v = ProviderFunds[a][t] - amount /\ amount > 0
    BY <2>1, <2>3
  <2> HIDE DEF amount
  <2>5. /\ platformEarnings' = [platformEarnings EXCEPT ![t] = @ + amount]
        /\ ProviderFunds' = [ProviderFunds EXCEPT ![a][t] = @ - amount]
    BY <2>2, <2>3, <2>4
  <2>6. Ledger!Forfeit
    BY <2>2, <2>4, <2>5 DEF Ledger!Forfeit, amount
  <2> QED  BY <2>6 DEF Ledger!Next
<1> QED  BY <1>1, <1>2, <1>3, <1>4, <1>5, <1>6 DEF MoneyMove

\* Whatever the sequence of deposits, batches, refunds, freezes, confiscations
\* and payments, money moves only as in the prepaid ledger.
THEOREM ContractIsPrepaidLedger == Spec => ImplementsPrepaidLedger
<1>1. Inv /\ Inv' /\ [Next]_vars => [Ledger!Next]_(Ledger!vars)
  BY MoneyMoves, LedgerStep
<1>2. []Inv /\ [][Next]_vars => [][Ledger!Next]_(Ledger!vars)
  BY <1>1, PTL
<1> QED  BY <1>2, LedgerInit, InvHolds, PTL DEF Spec, ImplementsPrepaidLedger, Ledger!Spec

-----------------------------------------------------------------------------
(* The books *)

\* BooksMatchHoldings, told of the ledger.
Balanced ==
    \A t \in Tokens :
        Vault[t] = AcrossAccounts(balances, t) + AcrossAccounts(ProviderFunds, t)
                    + platformEarnings[t]

\* The books match the holdings when the vault is the sum of all claims.
LEMMA BooksAreBalanced ==
    ASSUME Inv
    PROVE  BooksMatchHoldings <=> Balanced
<1> SUFFICES ASSUME NEW t \in Tokens
             PROVE  holdings[t] = Owed(t) + uncredited[t]
                    <=> Vault[t] = AcrossAccounts(balances, t)
                            + AcrossAccounts(ProviderFunds, t) + platformEarnings[t]
  BY DEF BooksMatchHoldings, Balanced
<1>1. /\ balances \in Books /\ ProviderFunds \in Books /\ spEarnings \in Books
      /\ platformEarnings \in [Tokens -> Nat]
      /\ holdings \in [Tokens -> Nat] /\ uncredited \in [Tokens -> Nat]
  BY LedgerTypes, Types DEF Inv, MoneyTypes
<1>2. ASSUME NEW sp \in Accounts PROVE LockedUp(sp, t) \in Nat
  <2> DEFINE q == spLockups[sp][t]
             c == spLockupCursor[sp][t]
  <2>1. q \in Seq(Entries(MaxUint192)) /\ c \in 0 .. Len(q) /\ MaxUint192 \in Nat
    BY Types, NumbersAssumption DEF Inv, MoneyTypes, Queues, QueuesFit
  <2>2. WellFormed(q, c)
    BY DEF Inv, QueuesFit
  <2> HIDE DEF q, c
  <2>3. TotalIn(q, c) \in Nat
    BY <2>1, <2>2, WholeQueue
  <2> QED  BY <2>3 DEF LockedUp, q, c
<1>3. AcrossAccounts(ProviderFunds, t) = AcrossAccounts(spEarnings, t) + FrozenUp(t)
  <2> DEFINE E == [sp \in Accounts |-> spEarnings[sp][t]]
             L == [sp \in Accounts |-> LockedUp(sp, t)]
             P == [sp \in Accounts |-> ProviderFunds[sp][t]]
  <2>1. /\ \A sp \in Accounts : E[sp] \in Nat
        /\ \A sp \in Accounts : L[sp] \in Nat
        /\ \A sp \in Accounts : P[sp] = E[sp] + L[sp]
    BY <1>1, <1>2 DEF Books, ProviderFunds
  <2> HIDE DEF E, L, P
  <2>2. Total(P, Accounts) = Total(E, Accounts) + Total(L, Accounts)
    BY <2>1, AccountsAssumption, TotalAdd
  <2> QED  BY <2>2 DEF E, L, P, AcrossAccounts, FrozenUp
<1>4. FrozenUp(t) \in Nat
  <2> DEFINE L == [sp \in Accounts |-> LockedUp(sp, t)]
  <2>1. \A sp \in Accounts : L[sp] \in Nat
    BY <1>2
  <2> HIDE DEF L
  <2>2. Total(L, Accounts) \in Nat
    BY <2>1, AccountsAssumption, TotalType
  <2> QED  BY <2>2 DEF L, FrozenUp
<1>5. /\ AcrossAccounts(balances, t) \in Nat /\ AcrossAccounts(spEarnings, t) \in Nat
      /\ platformEarnings[t] \in Nat /\ holdings[t] \in Nat /\ uncredited[t] \in Nat
  BY <1>1, AcrossType
<1>6. Vault[t] = holdings[t] - uncredited[t]
  BY DEF Vault
<1> QED  BY <1>3, <1>4, <1>5, <1>6 DEF Owed

\* No kind of move creates money or loses any.
LEMMA MovesBalance ==
    ASSUME Inv, Inv', MoneyMove, Balanced
    PROVE  Balanced'
<1> SUFFICES ASSUME NEW t \in Tokens
             PROVE  Vault'[t] = AcrossAccounts(balances', t)
                            + AcrossAccounts(ProviderFunds', t) + platformEarnings'[t]
  BY DEF Balanced, AcrossAccounts
<1>t. /\ balances \in Books /\ ProviderFunds \in Books
      /\ platformEarnings \in [Tokens -> Nat] /\ Vault \in [Tokens -> Int]
      /\ balances' \in Books /\ ProviderFunds' \in Books
      /\ platformEarnings' \in [Tokens -> Nat]
  <2>1. (Inv => /\ balances \in Books /\ ProviderFunds \in Books
                /\ platformEarnings \in [Tokens -> Nat])'
    BY LedgerTypes, PTL
  <2> QED  BY <2>1, LedgerTypes
<1>n. /\ AcrossAccounts(balances, t) \in Nat /\ AcrossAccounts(ProviderFunds, t) \in Nat
      /\ AcrossAccounts(balances', t) \in Nat /\ AcrossAccounts(ProviderFunds', t) \in Nat
      /\ platformEarnings[t] \in Nat /\ Vault[t] \in Int
  BY <1>t, AcrossType
<1>b. Vault[t] = AcrossAccounts(balances, t) + AcrossAccounts(ProviderFunds, t)
                    + platformEarnings[t]
  BY DEF Balanced
<1>1. CASE UNCHANGED <<balances, ProviderFunds, platformEarnings, Vault>>
  BY <1>1, <1>b
<1>2. ASSUME NEW a \in Accounts, NEW u \in Tokens, NEW v \in Int, Prepaid(a, u, v)
      PROVE  Vault'[t] = AcrossAccounts(balances', t)
                            + AcrossAccounts(ProviderFunds', t) + platformEarnings'[t]
  <2>1. AcrossAccounts(balances', t)
            = AcrossAccounts(balances, t) + IF t = u THEN v ELSE 0
    BY <1>2, <1>t, AcrossPlus DEF Prepaid
  <2>2. /\ Vault'[t] = Vault[t] + IF t = u THEN v ELSE 0
        /\ ProviderFunds' = ProviderFunds /\ platformEarnings' = platformEarnings
    BY <1>2 DEF Prepaid, VaultPlus
  <2> QED  BY <1>b, <1>n, <2>1, <2>2
<1>3. CASE /\ Usage(balances, ProviderFunds, platformEarnings,
                    balances', ProviderFunds', platformEarnings')
           /\ UNCHANGED Vault
  BY <1>3, <1>b, <1>n DEF Usage
<1>4. ASSUME NEW a \in Accounts, NEW u \in Tokens, NEW v \in Nat \ {0}, PaidOut(a, u, v)
      PROVE  Vault'[t] = AcrossAccounts(balances', t)
                            + AcrossAccounts(ProviderFunds', t) + platformEarnings'[t]
  <2>1. /\ ProviderFunds' = Plus(ProviderFunds, a, u, -v) /\ -v \in Int
        /\ Vault'[t] = Vault[t] + IF t = u THEN -v ELSE 0
        /\ balances' = balances /\ platformEarnings' = platformEarnings
    BY <1>4 DEF PaidOut, VaultPlus
  <2>2. AcrossAccounts(ProviderFunds', t)
            = AcrossAccounts(ProviderFunds, t) + IF t = u THEN -v ELSE 0
    BY <1>t, <2>1, AcrossPlus
  <2> QED  BY <1>b, <1>n, <2>1, <2>2
<1>5. ASSUME NEW u \in Tokens, PlatformPaid(u)
      PROVE  Vault'[t] = AcrossAccounts(balances', t)
                            + AcrossAccounts(ProviderFunds', t) + platformEarnings'[t]
  <2>1. /\ Vault'[t] = Vault[t] + IF t = u THEN -platformEarnings[u] ELSE 0
        /\ platformEarnings'[t] = IF t = u THEN 0 ELSE platformEarnings[t]
        /\ balances' = balances /\ ProviderFunds' = ProviderFunds
    BY <1>5, <1>t DEF PlatformPaid, VaultPlus
  <2> QED  BY <1>b, <1>n, <2>1
<1>6. ASSUME NEW a \in Accounts, NEW u \in Tokens, NEW v \in Nat \ {0}, Forfeited(a, u, v)
      PROVE  Vault'[t] = AcrossAccounts(balances', t)
                            + AcrossAccounts(ProviderFunds', t) + platformEarnings'[t]
  <2>1. /\ ProviderFunds' = Plus(ProviderFunds, a, u, -v) /\ -v \in Int
        /\ platformEarnings'[t] = platformEarnings[t] + IF t = u THEN v ELSE 0
        /\ balances' = balances /\ Vault' = Vault
    BY <1>6, <1>t, <1>n DEF Forfeited
  <2>2. AcrossAccounts(ProviderFunds', t)
            = AcrossAccounts(ProviderFunds, t) + IF t = u THEN -v ELSE 0
    BY <1>t, <2>1, AcrossPlus
  <2> QED  BY <1>b, <1>n, <2>1, <2>2
<1> QED  BY <1>1, <1>2, <1>3, <1>4, <1>5, <1>6 DEF MoneyMove

\* The books match in the beginning, when there is nothing.
LEMMA BooksInit == Init => BooksMatchHoldings
<1> SUFFICES ASSUME Init PROVE BooksMatchHoldings
  OBVIOUS
<1>1. Ledger!Init
  BY LedgerInit
<1>2. \A t \in Tokens : AcrossAccounts(balances, t) = 0 /\ AcrossAccounts(ProviderFunds, t) = 0
  <2>1. \A f, t : f = [a \in Accounts |-> [u \in Tokens |-> 0]] /\ t \in Tokens
                  => AcrossAccounts(f, t) = 0
    BY TotalZero DEF AcrossAccounts
  <2> QED  BY <1>1, <2>1 DEF Ledger!Init
<1>3. Balanced
  BY <1>1, <1>2 DEF Balanced, Ledger!Init
<1> QED  BY <1>3, InitInv, BooksAreBalanced

\* No step of the contract takes the books away from the holdings.
LEMMA BooksStep == Inv /\ BooksMatchHoldings /\ [Next]_vars => BooksMatchHoldings'
<1>1. Inv => (BooksMatchHoldings <=> Balanced)
  BY BooksAreBalanced
<1>2. (Inv => (BooksMatchHoldings <=> Balanced))'
  BY <1>1, PTL
<1>3. Inv /\ Inv' /\ Balanced /\ [Next]_vars => Balanced'
  BY MoneyMoves, MovesBalance
<1> QED  BY <1>1, <1>2, <1>3, NextInv

\* The contract's books equal its holdings but for what nobody was credited
\* with, for any number of users, providers, tokens and batches.
THEOREM BooksAlwaysMatch == Spec => []BooksMatchHoldings
BY BooksInit, BooksStep, InvHolds, PTL DEF Spec

\* Whoever is paid first, what is owed to a user, to a provider and to the
\* platform is there.
Covered ==
    \A token \in Tokens, user \in Accounts, sp \in Accounts :
        balances[user][token] + ProviderFunds[sp][token] + platformEarnings[token]
            <= holdings[token]

\* What matches covers: no claims exceed what the contract owns.
LEMMA BooksCover == Inv /\ BooksMatchHoldings => Covered
<1> SUFFICES ASSUME Inv, BooksMatchHoldings,
                    NEW t \in Tokens, NEW user \in Accounts, NEW sp \in Accounts
             PROVE  balances[user][t] + ProviderFunds[sp][t] + platformEarnings[t]
                        <= holdings[t]
  BY DEF Covered
<1>t. /\ balances \in Books /\ ProviderFunds \in Books
      /\ platformEarnings \in [Tokens -> Nat]
      /\ holdings \in [Tokens -> Nat] /\ uncredited \in [Tokens -> Nat]
  BY LedgerTypes, Types DEF Inv, MoneyTypes
<1>1. \A f \in Books, a \in Accounts :
            f[a][t] \in Nat /\ AcrossAccounts(f, t) \in Nat /\ f[a][t] <= AcrossAccounts(f, t)
  <2> SUFFICES ASSUME NEW f \in Books, NEW a \in Accounts
               PROVE  /\ f[a][t] \in Nat /\ AcrossAccounts(f, t) \in Nat
                      /\ f[a][t] <= AcrossAccounts(f, t)
    OBVIOUS
  <2> DEFINE g == [b \in Accounts |-> f[b][t]]
  <2>1. /\ \A b \in Accounts : g[b] \in Nat
        /\ g[a] = f[a][t] /\ AcrossAccounts(f, t) = Total(g, Accounts)
    BY DEF Books, AcrossAccounts
  <2> HIDE DEF g
  <2>2. g[a] <= Total(g, Accounts) /\ Total(g, Accounts) \in Nat
    BY <2>1, AccountsAssumption, TotalMember, TotalType
  <2> QED  BY <2>1, <2>2
<1>2. /\ balances[user][t] \in Nat /\ AcrossAccounts(balances, t) \in Nat
      /\ balances[user][t] <= AcrossAccounts(balances, t)
      /\ ProviderFunds[sp][t] \in Nat /\ AcrossAccounts(ProviderFunds, t) \in Nat
      /\ ProviderFunds[sp][t] <= AcrossAccounts(ProviderFunds, t)
  BY <1>t, <1>1
<1>3. holdings[t] - uncredited[t]
        = AcrossAccounts(balances, t) + AcrossAccounts(ProviderFunds, t)
            + platformEarnings[t]
  BY BooksAreBalanced DEF Balanced, Vault
<1>4. /\ holdings[t] \in Nat /\ uncredited[t] \in Nat /\ platformEarnings[t] \in Nat
  BY <1>t
<1> QED  BY <1>2, <1>3, <1>4

\* The balance check of _transferOut's token transfer or send never fails for
\* lack of funds: every claim is covered, whoever withdraws first.
THEOREM ClaimsAreCovered == Spec => []Covered
BY BooksCover, BooksAlwaysMatch, InvHolds, PTL

-----------------------------------------------------------------------------
(* Roles *)

\* The owner is somebody who can sign.
OwnerSigns == owner \in Signers

\* The ownership is never lost, whoever is nominated, renominated and mistyped
\* (transferOwnership, acceptOwnership): nobody becomes the owner who has not
\* signed for it.
THEOREM OwnerAlwaysSigns == Spec => []OwnerSigns
<1>1. Init => OwnerSigns
  BY AccountsAssumption DEF Init, OwnerSigns
<1>2. OwnerSigns /\ [Next]_vars => OwnerSigns'
  <2> SUFFICES ASSUME OwnerSigns, [Next]_vars, owner' # owner PROVE OwnerSigns'
    BY DEF OwnerSigns
  <2>1. PICK sender \in Signers : Unguarded(sender) \/ OperatorStep(sender) \/ PayingStep(sender)
    BY DEF Next, Tick, SomeoneSends, SendUncredited, storageVars, roleVars, vars
  <2>2. ~OperatorStep(sender) /\ ~PayingStep(sender)
    BY DEF OperatorStep, SubmitSettlement, PayingStep, ClaimRefund, BookClaim,
           WithdrawEarnings, BookWithdrawal, WithdrawPlatformEarnings,
           BookPlatformWithdrawal, roleVars
  <2>3. ~UserStep(sender)
    BY DEF UserStep, DepositFIL, Receive, DepositToken, Deposit, RequestRefund,
           CancelRefund, roleVars
  <2>4. ~FreezeStep(sender)
    BY DEF FreezeStep, ConfiscateFrozenEarnings, MatureEarnings, roleVars
  <2>5. OwnerStep(sender)
    BY <2>1, <2>2, <2>3, <2>4 DEF Unguarded
  <2>6. AcceptOwnership(sender)
    BY <2>5 DEF OwnerStep, AddSupportedToken, RemoveSupportedToken, SetPlatformFee,
        SetRefundDelay, SetEarningsFreeze, UnchangedButConfig, TransferOwnership,
        SetOperator, SetArbiter, Pause, Unpause, SetPaused, roleVars
  <2> QED  BY <2>6 DEF AcceptOwnership, OwnerSigns
<1> QED  BY <1>1, <1>2, PTL DEF Spec
=============================================================================
