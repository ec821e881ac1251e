--------------------- MODULE SettlementCallbacksProofs ---------------------
(***************************************************************************)
(* SettlementCallbacks for every set of accounts and every way they call   *)
(* back: nobody sees a half-written payment, and the payments with the     *)
(* calls inside them refine OpenModelSettlement.                           *)
(***************************************************************************)
EXTENDS SettlementCallbacks, OpenModelSettlementProofs

\* The contract without what is written off and about to be paid, with all that
\* is proved of the contract.
Whole == INSTANCE OpenModelSettlementProofs WITH holdings <- Kept

\* The hypotheses of what is proved of the contract.
LEMMA SameAssumptions ==
    /\ \A S : IsFiniteSet(S) <=> Whole!IsFiniteSet(S)
    /\ Batches \subseteq Seq(Whole!Item)
<1>1. \A S : IsFiniteSet(S) <=> Whole!IsFiniteSet(S)
  BY DEF IsFiniteSet, Whole!IsFiniteSet
<1>2. Batches \subseteq Seq(Whole!Item)
  BY BatchesAssumption DEF Item, Whole!Item, Tokens, Whole!Tokens
<1> QED  BY <1>1, <1>2

\* The contract with Kept for its holdings keeps the invariant.
LEMMA WholeNextInv == Whole!Inv /\ [Whole!Next]_(Whole!vars) => Whole!Inv'
BY AccountsAssumption, TokensAssumption, NumbersAssumption, BatchesAssumption,
   SameAssumptions, Whole!NextInv

\* The contract with Kept for its holdings begins with the invariant.
LEMMA WholeInitInv == Whole!Init => Whole!Inv
BY AccountsAssumption, TokensAssumption, NumbersAssumption, BatchesAssumption,
   SameAssumptions, Whole!InitInv

\* The contract with Kept for its holdings begins with matching books.
LEMMA WholeBooksInit == Whole!Init => Whole!BooksMatchHoldings
BY AccountsAssumption, TokensAssumption, NumbersAssumption, BatchesAssumption,
   SameAssumptions, Whole!BooksInit

\* The contract with Kept for its holdings keeps its books matching.
LEMMA WholeBooksStep ==
    Whole!Inv /\ Whole!BooksMatchHoldings /\ [Whole!Next]_(Whole!vars)
        => Whole!BooksMatchHoldings'
BY AccountsAssumption, TokensAssumption, NumbersAssumption, BatchesAssumption,
   SameAssumptions, Whole!BooksStep

\* The invariant does not depend on how much the contract owns.
LEMMA SameInv ==
    ASSUME holdings \in [Tokens -> Nat], Kept \in [Tokens -> Nat]
    PROVE  Inv <=> Whole!Inv
<1>1. TypeOK <=> Whole!TypeOK
  <2>1. /\ Whole!MAX_FEE_BPS = MAX_FEE_BPS /\ Whole!Tokens = Tokens
        /\ Whole!RefundRequest = RefundRequest /\ Whole!EarningsLockup = EarningsLockup
        /\ Whole!Record = Record
    BY DEF MAX_FEE_BPS, Whole!MAX_FEE_BPS, Tokens, Whole!Tokens,
           RefundRequest, Whole!RefundRequest, EarningsLockup, Whole!EarningsLockup,
           Record, Whole!Record
  <2> QED  BY <2>1 DEF TypeOK, Whole!TypeOK
<1>2. QueuesFit(spLockups) <=> Whole!QueuesFit(spLockups)
  BY DEF QueuesFit, Whole!QueuesFit, Tokens, Whole!Tokens, WellFormed, Whole!WellFormed,
         Deleted, Whole!Deleted
<1>3. LocksMatchRequests <=> Whole!LocksMatchRequests
  BY DEF LocksMatchRequests, Whole!LocksMatchRequests, Tokens, Whole!Tokens,
         Total, Whole!Total, Pending, Whole!Pending, PendingOf, Whole!PendingOf,
         Cardinality, Whole!Cardinality, Units, Whole!Units
<1>4. OneRecordPerBatch <=> Whole!OneRecordPerBatch
  BY DEF OneRecordPerBatch, Whole!OneRecordPerBatch
<1> QED  BY <1>1, <1>2, <1>3, <1>4, Zenon DEF Inv, Whole!Inv

\* Books that match in the contract with Kept match Kept.
LEMMA SameBooks ==
    Whole!BooksMatchHoldings
        <=> \A token \in Tokens : Kept[token] = Owed(token) + uncredited[token]
<1>1. \A token : Whole!Owed(token) = Owed(token)
  BY DEF Owed, Whole!Owed, AcrossAccounts, Whole!AcrossAccounts, FrozenUp, Whole!FrozenUp,
         LockedUp, Whole!LockedUp, TotalIn, Whole!TotalIn, AmountIn, Whole!AmountIn,
         Total, Whole!Total, Cardinality, Whole!Cardinality, Units, Whole!Units
<1> QED  BY <1>1 DEF Whole!BooksMatchHoldings, Tokens, Whole!Tokens

-----------------------------------------------------------------------------
(* Steps in which nothing is about to be paid *)

\* Transactions is another instance of the contract: the operators without
\* holdings are the same.
LEMMA SameLoop == \A items : Transactions!Loop(items) = Loop(items)
<1>1. Transactions!LoopStart = LoopStart
  BY DEF LoopStart, Transactions!LoopStart
<1>2. \A l, item : Transactions!Chargeable(l, item) = Chargeable(l, item)
  BY DEF Chargeable, Transactions!Chargeable
<1>3. \A l, item : Transactions!Charge(l, item) = Charge(l, item)
  BY DEF Charge, Transactions!Charge, Fee, Transactions!Fee,
         ProviderShare, Transactions!ProviderShare,
         BPS_DENOMINATOR, Transactions!BPS_DENOMINATOR,
         CreditEarnings, Transactions!CreditEarnings, UnlockTime, Transactions!UnlockTime,
         BucketWidth, Transactions!BucketWidth, FREEZE_BUCKETS, Transactions!FREEZE_BUCKETS,
         EntryAmount, Transactions!EntryAmount, Pushed, Transactions!Pushed,
         Merges, Transactions!Merges
<1>4. \A l, item : Transactions!SettleItem(l, item) = SettleItem(l, item)
  BY <1>2, <1>3 DEF SettleItem, Transactions!SettleItem
<1> QED  BY <1>1, <1>4 DEF Loop, Transactions!Loop

\* Both contracts do the same to a queue.
LEMMA SameQueues ==
    /\ \A sp, token, max :
            Transactions!AfterMaturing(sp, token, max) = AfterMaturing(sp, token, max)
    /\ \A queue, cursor :
            Transactions!Seized(queue, cursor, now) = Seized(queue, cursor, now)
<1>1. \A q, c, t : /\ Transactions!Live(q, c) = Live(q, c)
                   /\ Transactions!Frozen(q, c, t) = Frozen(q, c, t)
                   /\ Transactions!Releasable(q, c, t) = Releasable(q, c, t)
  BY DEF Live, Transactions!Live, Frozen, Transactions!Frozen, Deleted, Transactions!Deleted,
         Releasable, Transactions!Releasable
<1>c. \A S : Transactions!Cardinality(S) = Cardinality(S)
  BY DEF Cardinality, Transactions!Cardinality
<1>2. \A q, c, t, max : Transactions!Released(q, c, t, max) = Released(q, c, t, max)
  BY <1>1, <1>c DEF Released, Transactions!Released
<1>3. \A q, c, t, max : Transactions!CursorAfter(q, c, t, max) = CursorAfter(q, c, t, max)
  BY DEF CursorAfter, Transactions!CursorAfter, Passed, Transactions!Passed,
         Released, Transactions!Released, Releasable, Transactions!Releasable,
         Live, Transactions!Live, Frozen, Transactions!Frozen, Deleted, Transactions!Deleted,
         Cardinality, Transactions!Cardinality
<1>4. \A q, S : /\ Transactions!Emptied(q, S) = Emptied(q, S)
                /\ Transactions!AmountIn(q, S) = AmountIn(q, S)
  BY DEF Emptied, Transactions!Emptied, Deleted, Transactions!Deleted,
         AmountIn, Transactions!AmountIn, Total, Transactions!Total,
         Units, Transactions!Units, Cardinality, Transactions!Cardinality
<1>5. \A q, c, t, max : Transactions!Matured(q, c, t, max) = Matured(q, c, t, max)
  BY <1>2, <1>3, <1>4 DEF Matured, Transactions!Matured
<1>6. \A q, c, t : Transactions!Seized(q, c, t) = Seized(q, c, t)
  BY <1>1, <1>4 DEF Seized, Transactions!Seized
<1> QED  BY <1>5, <1>6 DEF AfterMaturing, Transactions!AfterMaturing

\* Both contracts have the same tokens.
LEMMA SameTokens == Transactions!Tokens = Tokens
BY DEF Tokens, Transactions!Tokens

\* While nothing is outstanding, what arrives at one contract arrives at the other.
LEMMA SameArrivals ==
    ASSUME Kept = holdings, Kept' = holdings', NEW token, NEW value, Arrives(token, value)
    PROVE  Transactions!Arrives(token, value)
<1>1. Transactions!Units(Kept, Transactions!Tokens) = Units(holdings, Tokens)
  BY SameTokens DEF Units, Transactions!Units
<1>2. \A S : Transactions!Cardinality(S) = Cardinality(S)
  BY DEF Cardinality, Transactions!Cardinality
<1>3. Transactions!Total(Kept, Transactions!Tokens) = Total(holdings, Tokens)
  BY <1>1, <1>2 DEF Total, Transactions!Total
<1> QED  BY <1>3 DEF Arrives, Transactions!Arrives

\* What a transaction that pays nobody does, and a call made inside a payment.
QuietStep ==
    \/ Tick
    \/ SomeoneSends
    \/ \E sender \in Signers : Unguarded(sender) \/ OperatorStep(sender)

\* A call made while nothing is outstanding is a transaction of the contract.
LEMMA QuietIsTransaction ==
    ASSUME QuietStep, Kept = holdings, Kept' = holdings'
    PROVE  Transactions!Next
<1> USE SameTokens
    DEF roleVars, Transactions!roleVars, configVars, Transactions!configVars,
        userVars, Transactions!userVars, spVars, Transactions!spVars,
        batchVars, Transactions!batchVars, assetVars, Transactions!assetVars,
        storageVars, Transactions!storageVars
<1>1. CASE Tick
  BY <1>1 DEF Tick, Transactions!Tick, Transactions!Next
<1>2. CASE SomeoneSends
  <2>1. Transactions!SomeoneSends
    BY <1>2, SameArrivals
       DEF SomeoneSends, Transactions!SomeoneSends,
           SendUncredited, Transactions!SendUncredited
  <2> QED  BY <2>1 DEF Transactions!Next
<1>3. ASSUME NEW sender \in Signers, UserStep(sender) PROVE Transactions!UserStep(sender)
  BY <1>3, SameArrivals
     DEF UserStep, Transactions!UserStep, DepositFIL, Transactions!DepositFIL,
         Receive, Transactions!Receive, DepositToken, Transactions!DepositToken,
         ReceivedAmounts, Transactions!ReceivedAmounts, Deposit, Transactions!Deposit,
         RequestRefund, Transactions!RequestRefund, refundNonce, Transactions!refundNonce,
         Free, Transactions!Free, CancelRefund, Transactions!CancelRefund,
         Open, Transactions!Open
<1>4. ASSUME NEW sender \in Signers, FreezeStep(sender)
      PROVE  Transactions!FreezeStep(sender)
  <2>1. ASSUME NEW sp, NEW token, ConfiscateFrozenEarnings(sender, sp, token)
        PROVE  Transactions!ConfiscateFrozenEarnings(sender, sp, token)
    BY <2>1, SameQueues
       DEF ConfiscateFrozenEarnings, Transactions!ConfiscateFrozenEarnings
  <2>2. ASSUME NEW sp, NEW token, NEW max, MatureEarnings(sp, token, max)
        PROVE  Transactions!MatureEarnings(sp, token, max)
    BY <2>2, SameQueues DEF MatureEarnings, Transactions!MatureEarnings
  <2> QED  BY <1>4, <2>1, <2>2 DEF FreezeStep, Transactions!FreezeStep
<1>5. ASSUME NEW sender \in Signers, OwnerStep(sender)
      PROVE  Transactions!OwnerStep(sender)
  <2> USE DEF UnchangedButConfig, Transactions!UnchangedButConfig,
              UnchangedButRoles, Transactions!UnchangedButRoles
  <2>1. ASSUME NEW token PROVE AddSupportedToken(sender, token)
                                => Transactions!AddSupportedToken(sender, token)
    BY DEF AddSupportedToken, Transactions!AddSupportedToken
  <2>2. ASSUME NEW token PROVE RemoveSupportedToken(sender, token)
                                => Transactions!RemoveSupportedToken(sender, token)
    BY DEF RemoveSupportedToken, Transactions!RemoveSupportedToken
  <2>3. ASSUME NEW value PROVE SetPlatformFee(sender, value)
                                => Transactions!SetPlatformFee(sender, value)
    BY DEF SetPlatformFee, Transactions!SetPlatformFee, MAX_FEE_BPS, Transactions!MAX_FEE_BPS
  <2>4. ASSUME NEW value PROVE SetRefundDelay(sender, value)
                                => Transactions!SetRefundDelay(sender, value)
    BY DEF SetRefundDelay, Transactions!SetRefundDelay,
           MAX_REFUND_DELAY, Transactions!MAX_REFUND_DELAY
  <2>5. ASSUME NEW value PROVE SetEarningsFreeze(sender, value)
                                => Transactions!SetEarningsFreeze(sender, value)
    BY DEF SetEarningsFreeze, Transactions!SetEarningsFreeze,
           MAX_EARNINGS_FREEZE, Transactions!MAX_EARNINGS_FREEZE
  <2>6. ASSUME NEW new
        PROVE  /\ TransferOwnership(sender, new) => Transactions!TransferOwnership(sender, new)
               /\ SetOperator(sender, new) => Transactions!SetOperator(sender, new)
               /\ SetArbiter(sender, new) => Transactions!SetArbiter(sender, new)
    BY DEF TransferOwnership, Transactions!TransferOwnership,
           SetOperator, Transactions!SetOperator, SetArbiter, Transactions!SetArbiter
  <2>7. /\ AcceptOwnership(sender) => Transactions!AcceptOwnership(sender)
        /\ Pause(sender) => Transactions!Pause(sender)
        /\ Unpause(sender) => Transactions!Unpause(sender)
    BY DEF AcceptOwnership, Transactions!AcceptOwnership, Pause, Transactions!Pause,
           Unpause, Transactions!Unpause, SetPaused, Transactions!SetPaused
  <2> QED  BY <1>5, <2>1, <2>2, <2>3, <2>4, <2>5, <2>6, <2>7
           DEF OwnerStep, Transactions!OwnerStep
<1>6. ASSUME NEW sender \in Signers, OperatorStep(sender)
      PROVE  Transactions!OperatorStep(sender)
  <2>1. ASSUME NEW items, NEW detailsHash, SubmitSettlement(sender, items, detailsHash)
        PROVE  Transactions!SubmitSettlement(sender, items, detailsHash)
    BY <2>1, SameLoop DEF SubmitSettlement, Transactions!SubmitSettlement,
              Fresh, Transactions!Fresh, MAX_BATCH_SIZE, Transactions!MAX_BATCH_SIZE
  <2> QED  BY <1>6, <2>1 DEF OperatorStep, Transactions!OperatorStep
<1> QED  BY <1>1, <1>2, <1>3, <1>4, <1>5, <1>6
         DEF QuietStep, Unguarded, Transactions!Unguarded, Transactions!Next

-----------------------------------------------------------------------------
(* Payments *)

Calls ==
    [function : {"claimRefund", "withdrawEarnings", "withdrawPlatformEarnings"},
     arg : Nat \cup Accounts, token : Tokens, to : Accounts \cup {NoOne},
     amount : Nat, todo : {Statements, <<"pay">>, <<>>}, calling : BOOLEAN]

\* What has been checked when the writes begin, and still holds.
Checked ==
    /\ Accepts(call.token, call.to)
    /\ \/ /\ call.function = "claimRefund"
          /\ call.to \in Signers /\ call.arg \in DOMAIN refundRequests
          /\ Claimable(call.to, call.arg)
          /\ call.token = refundRequests[call.arg].token
          /\ call.amount = refundRequests[call.arg].amount
       \/ /\ call.function = "withdrawEarnings"
          /\ call.to \in Signers /\ call.arg = call.to
          /\ call.amount = EarningsOf(call.to, call.token) /\ call.amount > 0
       \/ /\ call.function = "withdrawPlatformEarnings"
          /\ call.arg \in Signers
          /\ PlatformMayPay(call.arg, call.token, call.to)
          /\ call.amount = platformEarnings[call.token]

CallFits ==
    \/ call = Idle
    \/ /\ call \in Calls
       /\ call.calling => call.todo = <<>>
       /\ call.todo = Statements => Checked

CallbackInv ==
    /\ holdings \in [Tokens -> Nat] /\ Kept \in [Tokens -> Nat]
    /\ Whole!Inv
    /\ Whole!BooksMatchHoldings
    /\ CallFits

\* The statements of a payment: the writes, then the transfer.
LEMMA StatementFacts ==
    /\ Head(Statements) = "write" /\ Tail(Statements) = <<"pay">>
    /\ Head(<<"pay">>) = "pay" /\ Tail(<<"pay">>) = <<>>
    /\ Statements # <<>> /\ <<"pay">> # <<>> /\ Statements # <<"pay">>
<1>1. "write" # "pay"
  OBVIOUS
<1> QED  BY <1>1 DEF Statements

\* Nothing is outstanding but between the writes and the transfer.
LEMMA NothingOutstanding ==
    ASSUME holdings \in [Tokens -> Nat], call.calling \/ call.todo # <<"pay">>
    PROVE  Kept = holdings
<1>1. \A token \in Tokens : Outgoing(token) = 0 /\ holdings[token] \in Nat
  BY DEF Outgoing
<1> QED  BY <1>1 DEF Kept

\* Between the writes and the transfer, the amount of the payment is outstanding.
LEMMA PaymentOutstanding ==
    ASSUME holdings \in [Tokens -> Nat], ~call.calling, call.todo = <<"pay">>,
           call.token \in Tokens, call.amount \in Nat
    PROVE  Kept = [holdings EXCEPT ![call.token] = @ - call.amount]
<1>1. \A token \in Tokens :
        holdings[token] - Outgoing(token)
            = [holdings EXCEPT ![call.token] = @ - call.amount][token]
  BY DEF Outgoing
<1> QED  BY <1>1 DEF Kept

\* What is left to the transaction of the invariant when nothing is outstanding.
LEMMA QuietInv ==
    ASSUME holdings \in [Tokens -> Nat], Kept = holdings
    PROVE  Whole!Inv /\ Whole!BooksMatchHoldings <=> Inv /\ BooksMatchHoldings
<1>1. Whole!BooksMatchHoldings <=> BooksMatchHoldings
  BY SameBooks DEF BooksMatchHoldings
<1> QED  BY <1>1, SameInv

\* The amount of a call that is about to write is on the books, and so is there.
LEMMA AmountIsThere ==
    ASSUME CallbackInv, call \in Calls, call.todo = Statements, ~call.calling
    PROVE  /\ Kept = holdings /\ Checked
           /\ call.amount \in Nat /\ call.amount <= holdings[call.token]
<1>1. Kept = holdings
  BY StatementFacts, NothingOutstanding DEF CallbackInv
<1>2. Inv /\ BooksMatchHoldings
  BY <1>1, QuietInv DEF CallbackInv
<1>3. /\ \A token \in Tokens, user \in Accounts, sp \in Accounts :
            balances[user][token] + ProviderFunds[sp][token] + platformEarnings[token]
                <= holdings[token]
      /\ balances \in Books /\ ProviderFunds \in Books
      /\ platformEarnings \in [Tokens -> Nat]
  BY <1>2, BooksCover, LedgerTypes DEF Covered
<1>4. Checked
  <2>1. call # Idle
    BY StatementFacts DEF Idle
  <2> QED  BY <2>1 DEF CallbackInv, CallFits
<1>5. call.token \in Tokens /\ call.amount \in Nat /\ holdings[call.token] \in Nat
  BY DEF Calls, CallbackInv
<1>6. CASE call.function = "claimRefund"
  <2>1. /\ call.to \in Accounts /\ call.amount <= balances[call.to][call.token]
    BY <1>4, <1>6, AccountsAssumption DEF Checked, Claimable, Open
  <2>2. /\ balances[call.to][call.token] \in Nat
        /\ ProviderFunds[call.to][call.token] \in Nat /\ platformEarnings[call.token] \in Nat
    BY <1>3, <1>5, <2>1 DEF Books
  <2> QED  BY <1>1, <1>3, <1>4, <1>5, <2>1, <2>2
<1>7. CASE call.function = "withdrawEarnings"
  <2>1. call.to \in Accounts /\ call.amount = EarningsOf(call.to, call.token)
    BY <1>4, <1>7, AccountsAssumption DEF Checked
  <2>2. EarningsOf(call.to, call.token) <= ProviderFunds[call.to][call.token]
    <3> DEFINE sp == call.to
               token == call.token
    <3>1. sp \in Accounts /\ token \in Tokens
      BY <1>5, <2>1
    <3> HIDE DEF sp, token
    <3>2. /\ AfterMaturing(sp, token, 0).released \in Nat
          /\ AfterMaturing(sp, token, 0).released <= LockedUp(sp, token)
          /\ LockedUp(sp, token) \in Nat
      BY <1>2, <3>1, MaturedHere DEF Inv
    <3>3. spEarnings[sp][token] \in Nat
      BY <1>2, <3>1, Types DEF Inv, MoneyTypes, Books
    <3>4. ProviderFunds[sp][token] = spEarnings[sp][token] + LockedUp(sp, token)
      BY <3>1 DEF ProviderFunds
    <3>5. EarningsOf(sp, token) <= ProviderFunds[sp][token]
      BY <3>2, <3>3, <3>4 DEF EarningsOf
    <3> QED  BY <3>5 DEF sp, token
  <2>3. /\ balances[call.to][call.token] \in Nat
        /\ ProviderFunds[call.to][call.token] \in Nat /\ platformEarnings[call.token] \in Nat
    BY <1>3, <1>5, <2>1 DEF Books
  <2> QED  BY <1>1, <1>3, <1>4, <1>5, <2>1, <2>2, <2>3
<1>8. CASE call.function = "withdrawPlatformEarnings"
  <2>1. call.arg \in Accounts /\ call.amount = platformEarnings[call.token]
    BY <1>4, <1>8, AccountsAssumption DEF Checked
  <2>2. /\ balances[call.arg][call.token] \in Nat
        /\ ProviderFunds[call.arg][call.token] \in Nat /\ platformEarnings[call.token] \in Nat
    BY <1>3, <1>5, <2>1 DEF Books
  <2> QED  BY <1>1, <1>3, <1>4, <1>5, <2>1, <2>2
<1> QED  BY <1>4, <1>6, <1>7, <1>8 DEF Checked

\* The writes are the transaction, its transfer included.
LEMMA WriteIsTransaction ==
    ASSUME CallbackInv, Write
    PROVE  /\ \E sender \in Signers : Transactions!PayingStep(sender)
           /\ UNCHANGED assetVars
           /\ call \in Calls /\ call' = [call EXCEPT !.todo = <<"pay">>] /\ ~call.calling
<1>1. /\ ~call.calling /\ call.todo # <<>> /\ Head(call.todo) = "write"
      /\ UNCHANGED assetVars /\ call' = [call EXCEPT !.todo = Tail(@)]
  BY DEF Write, At
<1>2. call \in Calls
  BY <1>1 DEF CallbackInv, CallFits, Idle
<1>3. call.todo = Statements
  BY <1>1, <1>2, StatementFacts DEF Calls
<1>4. call' = [call EXCEPT !.todo = <<"pay">>]
  BY <1>1, <1>3, StatementFacts
<1>5. /\ Kept = holdings /\ Checked
      /\ call.amount \in Nat /\ call.amount <= holdings[call.token]
  BY <1>1, <1>2, <1>3, AmountIsThere
<1>6. Transactions!TransferOut(call.token, call.to, call.amount)
  <2>1. /\ ~call'.calling /\ call'.todo = <<"pay">>
        /\ call'.token = call.token /\ call'.amount = call.amount
    BY <1>1, <1>2, <1>4 DEF Calls
  <2>2. holdings' = holdings /\ uncredited' = uncredited /\ holdings \in [Tokens -> Nat]
    BY <1>1 DEF assetVars, CallbackInv
  <2>3. call.token \in Tokens
    BY <1>2 DEF Calls
  <2>4. Kept' = [holdings' EXCEPT ![call.token] = @ - call.amount]
    <3>1. (holdings \in [Tokens -> Nat] /\ ~call.calling /\ call.todo = <<"pay">>
            /\ call.token \in Tokens /\ call.amount \in Nat
            => Kept = [holdings EXCEPT ![call.token] = @ - call.amount])'
      BY PaymentOutstanding, PTL
    <3> QED  BY <1>5, <2>1, <2>2, <2>3, <3>1
  <2>5. Kept[call.token] >= call.amount
    BY <1>5, <2>2, <2>3
  <2> QED  BY <1>5, <2>2, <2>4, <2>5 DEF Checked, Accepts, Transactions!TransferOut
<1>7. CASE call.function = "claimRefund" /\ BookClaim(call.arg)
  <2>1. /\ call.to \in Signers /\ call.arg \in DOMAIN refundRequests
        /\ Claimable(call.to, call.arg)
        /\ call.token = refundRequests[call.arg].token
        /\ call.amount = refundRequests[call.arg].amount
    BY <1>5, <1>7 DEF Checked
  <2>2. Transactions!Claimable(call.to, call.arg)
    BY <2>1 DEF Claimable, Transactions!Claimable, Open, Transactions!Open,
                Due, Transactions!Due
  <2>3. Transactions!BookClaim(call.arg)
    BY <1>7 DEF BookClaim, Transactions!BookClaim, roleVars, Transactions!roleVars,
                configVars, Transactions!configVars, spVars, Transactions!spVars,
                batchVars, Transactions!batchVars
  <2>4. Transactions!ClaimRefund(call.to, call.arg)
    BY <1>6, <2>1, <2>2, <2>3 DEF Transactions!ClaimRefund
  <2> QED  BY <1>1, <1>2, <1>4, <2>1, <2>4 DEF Transactions!PayingStep
<1>8. CASE call.function = "withdrawEarnings" /\ BookWithdrawal(call.arg, call.token)
  <2>1. /\ call.to \in Signers /\ call.arg = call.to /\ call.token \in Tokens
        /\ call.amount = EarningsOf(call.to, call.token) /\ call.amount > 0
    BY <1>2, <1>5, <1>8 DEF Checked, Calls
  <2>2. Transactions!EarningsOf(call.to, call.token) = EarningsOf(call.to, call.token)
    BY SameQueues DEF EarningsOf, Transactions!EarningsOf
  <2>3. Transactions!BookWithdrawal(call.to, call.token)
    BY <1>8, <2>1, SameQueues
       DEF BookWithdrawal, Transactions!BookWithdrawal, roleVars, Transactions!roleVars,
           configVars, Transactions!configVars, userVars, Transactions!userVars,
           batchVars, Transactions!batchVars
  <2>4. Transactions!WithdrawEarnings(call.to, call.token)
    BY <1>6, <2>1, <2>2, <2>3 DEF Transactions!WithdrawEarnings
  <2> QED  BY <1>1, <1>2, <1>4, <2>1, <2>4, SameTokens DEF Transactions!PayingStep
<1>9. CASE call.function = "withdrawPlatformEarnings" /\ BookPlatformWithdrawal(call.token)
  <2>1. /\ call.arg \in Signers /\ call.to \in Accounts \cup {NoOne}
        /\ call.token \in Tokens
        /\ PlatformMayPay(call.arg, call.token, call.to)
        /\ call.amount = platformEarnings[call.token]
    BY <1>2, <1>5, <1>9 DEF Checked, Calls
  <2>2. /\ Transactions!PlatformMayPay(call.arg, call.token, call.to)
        /\ Transactions!BookPlatformWithdrawal(call.token)
    BY <1>9, <2>1 DEF PlatformMayPay, Transactions!PlatformMayPay,
            BookPlatformWithdrawal, Transactions!BookPlatformWithdrawal,
            roleVars, Transactions!roleVars, configVars, Transactions!configVars,
            userVars, Transactions!userVars, spVars, Transactions!spVars,
            batchVars, Transactions!batchVars
  <2>3. Transactions!WithdrawPlatformEarnings(call.arg, call.token, call.to)
    BY <1>6, <2>1, <2>2 DEF Transactions!WithdrawPlatformEarnings
  <2> QED  BY <1>1, <1>2, <1>4, <2>1, <2>3, SameTokens DEF Transactions!PayingStep
<1> QED  BY <1>7, <1>8, <1>9 DEF Write

\* The transfer pays what was written off.
LEMMA PayIsNoTransaction ==
    ASSUME CallbackInv, Pay
    PROVE  /\ Kept' = Kept /\ UNCHANGED <<now, storageVars, uncredited>>
           /\ holdings' \in [Tokens -> Nat]
           /\ call' \in Calls /\ call'.todo = <<>>
<1>1. /\ ~call.calling /\ call.todo # <<>> /\ Head(call.todo) = "pay"
      /\ TransferOut(call.token, call.to, call.amount)
      /\ UNCHANGED <<now, storageVars>>
      /\ call' = [call EXCEPT !.todo = Tail(@),
                      !.calling = call.token = NATIVE_TOKEN /\ call.to \in Contracts]
  BY DEF Pay, At
<1>2. call \in Calls
  BY <1>1 DEF CallbackInv, CallFits, Idle
<1>3. call.todo = <<"pay">>
  BY <1>1, <1>2, StatementFacts DEF Calls
<1>4. call' \in Calls /\ call'.todo = <<>>
  <2>1. Tail(call.todo) = <<>>
    BY <1>3, StatementFacts
  <2> DEFINE calling == call.token = NATIVE_TOKEN /\ call.to \in Contracts
  <2>2. calling \in BOOLEAN
    OBVIOUS
  <2> HIDE DEF calling
  <2>3. call' = [call EXCEPT !.todo = <<>>, !.calling = calling]
    BY <1>1, <2>1 DEF calling
  <2> QED  BY <1>2, <2>2, <2>3 DEF Calls
<1>5. call.token \in Tokens /\ call.amount \in Nat /\ holdings \in [Tokens -> Nat]
  BY <1>2 DEF Calls, CallbackInv
<1>6. /\ holdings[call.token] >= call.amount
      /\ holdings' = [holdings EXCEPT ![call.token] = @ - call.amount]
      /\ uncredited' = uncredited
  BY <1>1 DEF TransferOut
<1>7. holdings' \in [Tokens -> Nat]
  BY <1>5, <1>6
<1>8. Kept' = holdings'
  <2>1. (holdings \in [Tokens -> Nat] /\ (call.calling \/ call.todo # <<"pay">>)
            => Kept = holdings)'
    BY NothingOutstanding, PTL
  <2> QED  BY <1>4, <1>7, <2>1, StatementFacts
<1>9. Kept = [holdings EXCEPT ![call.token] = @ - call.amount]
  BY <1>1, <1>3, <1>5, PaymentOutstanding
<1> QED  BY <1>1, <1>4, <1>6, <1>7, <1>8, <1>9

-----------------------------------------------------------------------------
(* The invariant *)

\* The two instances of the contract agree on what a payment is.
LEMMA SamePayments ==
    ASSUME NEW sender
    PROVE  Transactions!PayingStep(sender) <=> Whole!PayingStep(sender)
<1> USE DEF roleVars, Transactions!roleVars, Whole!roleVars,
            Transactions!configVars, Whole!configVars,
            Transactions!userVars, Whole!userVars, Transactions!spVars, Whole!spVars,
            Transactions!batchVars, Whole!batchVars,
            Transactions!TransferOut, Whole!TransferOut
<1>1. \A id : Transactions!ClaimRefund(sender, id) <=> Whole!ClaimRefund(sender, id)
  BY DEF Transactions!ClaimRefund, Whole!ClaimRefund, Transactions!Claimable, Whole!Claimable,
         Transactions!Open, Whole!Open, Transactions!Due, Whole!Due,
         Transactions!BookClaim, Whole!BookClaim
<1>2. \A token : Transactions!WithdrawEarnings(sender, token)
                    <=> Whole!WithdrawEarnings(sender, token)
  <2>1. \A sp, token, max :
            Transactions!AfterMaturing(sp, token, max) = Whole!AfterMaturing(sp, token, max)
    BY DEF Transactions!AfterMaturing, Whole!AfterMaturing,
           Transactions!Matured, Whole!Matured, Transactions!Released, Whole!Released,
           Transactions!Releasable, Whole!Releasable, Transactions!Live, Whole!Live,
           Transactions!Frozen, Whole!Frozen, Transactions!Passed, Whole!Passed,
           Transactions!CursorAfter, Whole!CursorAfter, Transactions!Emptied, Whole!Emptied,
           Transactions!Deleted, Whole!Deleted, Transactions!AmountIn, Whole!AmountIn,
           Transactions!Total, Whole!Total, Transactions!Units, Whole!Units,
           Transactions!Cardinality, Whole!Cardinality
  <2> QED  BY <2>1 DEF Transactions!WithdrawEarnings, Whole!WithdrawEarnings,
                Transactions!EarningsOf, Whole!EarningsOf,
                Transactions!BookWithdrawal, Whole!BookWithdrawal
<1>3. \A token, to : Transactions!WithdrawPlatformEarnings(sender, token, to)
                        <=> Whole!WithdrawPlatformEarnings(sender, token, to)
  BY DEF Transactions!WithdrawPlatformEarnings, Whole!WithdrawPlatformEarnings,
         Transactions!PlatformMayPay, Whole!PlatformMayPay,
         Transactions!BookPlatformWithdrawal, Whole!BookPlatformWithdrawal
<1> QED  BY <1>1, <1>2, <1>3
         DEF Transactions!PayingStep, Whole!PayingStep, Transactions!Tokens, Whole!Tokens

\* What the checks of a paying function establish.
LEMMA EnterFits ==
    ASSUME CallbackInv, NEW sender \in Signers,
           EnterClaim(sender) \/ EnterWithdrawal(sender) \/ EnterPlatformWithdrawal(sender)
    PROVE  CallFits' /\ UNCHANGED vars /\ call = Idle /\ call'.todo = Statements
<1>s. sender \in Accounts
  BY AccountsAssumption
<1>1. Kept = holdings /\ TypeOK /\ QueuesFit(spLockups)
  <2>1. call = Idle
    BY DEF EnterClaim, EnterWithdrawal, EnterPlatformWithdrawal, Enter
  <2>2. Kept = holdings
    BY <2>1, StatementFacts, NothingOutstanding DEF Idle, CallbackInv
  <2> QED  BY <2>2, QuietInv DEF CallbackInv, Inv
<1>2. ASSUME NEW function \in {"claimRefund", "withdrawEarnings", "withdrawPlatformEarnings"},
             NEW arg \in Nat \cup Accounts, NEW token \in Tokens,
             NEW to \in Accounts \cup {NoOne}, NEW amount \in Nat,
             Enter(function, arg, token, to, amount)
      PROVE  /\ call = Idle /\ UNCHANGED vars /\ Accepts(token, to)
             /\ call' \in Calls /\ call'.todo = Statements /\ ~call'.calling
             /\ call'.function = function /\ call'.arg = arg /\ call'.token = token
             /\ call'.to = to /\ call'.amount = amount
  BY <1>2 DEF Enter, Calls
<1> USE DEF vars, storageVars, roleVars, configVars, userVars, spVars, batchVars
<1>3. CASE EnterClaim(sender)
  <2>1. PICK id \in DOMAIN refundRequests :
            /\ Claimable(sender, id)
            /\ Enter("claimRefund", id, refundRequests[id].token, sender,
                     refundRequests[id].amount)
    BY <1>3 DEF EnterClaim
  <2>2. /\ id \in Nat /\ refundRequests[id].token \in Tokens
        /\ refundRequests[id].amount \in Nat
    <3>1. refundRequests \in Seq(RefundRequest)
      BY <1>1, Types DEF MoneyTypes
    <3>2. id \in Nat /\ refundRequests[id] \in RefundRequest
      BY <3>1
    <3> QED  BY <3>2 DEF RefundRequest
  <2>3. /\ call = Idle /\ UNCHANGED vars /\ Accepts(call'.token, call'.to)
        /\ call' \in Calls /\ call'.todo = Statements /\ ~call'.calling
        /\ call'.function = "claimRefund" /\ call'.arg = id /\ call'.to = sender
        /\ call'.token = refundRequests[id].token
        /\ call'.amount = refundRequests[id].amount
    BY <1>2, <1>s, <2>1, <2>2
  <2>4. Claimable(sender, id)'
    BY <2>1, <2>3 DEF Claimable, Open, Due
  <2>5. Checked'
    BY <2>1, <2>3, <2>4 DEF Checked, Accepts
  <2> QED  BY <2>3, <2>5 DEF CallFits
<1>4. CASE EnterWithdrawal(sender)
  <2>1. PICK token \in Tokens :
            /\ EarningsOf(sender, token) > 0
            /\ Enter("withdrawEarnings", sender, token, sender, EarningsOf(sender, token))
    BY <1>4 DEF EnterWithdrawal
  <2>2. EarningsOf(sender, token) \in Nat
    <3>1. AfterMaturing(sender, token, 0).released \in Nat /\ spEarnings[sender][token] \in Nat
      BY <1>1, <1>s, MaturedHere, Types DEF MoneyTypes, Books
    <3> QED  BY <3>1 DEF EarningsOf
  <2>3. /\ call = Idle /\ UNCHANGED vars /\ Accepts(call'.token, call'.to)
        /\ call' \in Calls /\ call'.todo = Statements /\ ~call'.calling
        /\ call'.function = "withdrawEarnings" /\ call'.arg = sender /\ call'.to = sender
        /\ call'.token = token /\ call'.amount = EarningsOf(sender, token)
    <3>1. /\ "withdrawEarnings" \in
                {"claimRefund", "withdrawEarnings", "withdrawPlatformEarnings"}
          /\ sender \in Nat \cup Accounts /\ sender \in Accounts \cup {NoOne}
      BY <1>s
    <3> QED  BY <1>2, <2>1, <2>2, <3>1, Zenon
  <2>4. EarningsOf(sender, token)' = EarningsOf(sender, token)
    BY <2>3 DEF EarningsOf, AfterMaturing
  <2>5. Checked'
    BY <2>1, <2>3, <2>4 DEF Checked, Accepts
  <2> QED  BY <2>3, <2>5 DEF CallFits
<1>5. CASE EnterPlatformWithdrawal(sender)
  <2>1. PICK token \in Tokens, to \in Accounts \cup {NoOne} :
            /\ PlatformMayPay(sender, token, to)
            /\ Enter("withdrawPlatformEarnings", sender, token, to, platformEarnings[token])
    BY <1>5 DEF EnterPlatformWithdrawal
  <2>2. platformEarnings[token] \in Nat
    BY <1>1, Types DEF MoneyTypes
  <2>3. /\ call = Idle /\ UNCHANGED vars /\ Accepts(call'.token, call'.to)
        /\ call' \in Calls /\ call'.todo = Statements /\ ~call'.calling
        /\ call'.function = "withdrawPlatformEarnings" /\ call'.arg = sender
        /\ call'.token = token /\ call'.to = to /\ call'.amount = platformEarnings[token]
    BY <1>2, <1>s, <2>1, <2>2
  <2>4. Checked'
    BY <2>1, <2>3 DEF Checked, Accepts, PlatformMayPay
  <2> QED  BY <2>3, <2>4 DEF CallFits
<1> QED  BY <1>3, <1>4, <1>5

\* A step of the call that the books do not notice.
LEMMA BooksUntouched ==
    ASSUME CallbackInv, UNCHANGED <<now, storageVars, uncredited>>, Kept' = Kept,
           holdings' \in [Tokens -> Nat], CallFits'
    PROVE  CallbackInv' /\ UNCHANGED Transactions!vars
<1> USE DEF storageVars, roleVars, configVars, userVars, spVars, batchVars
<1>1. UNCHANGED Whole!vars
  BY DEF Whole!vars, Whole!storageVars, Whole!roleVars, Whole!configVars, Whole!userVars,
         Whole!spVars, Whole!batchVars, Whole!assetVars
<1>2. UNCHANGED Transactions!vars
  BY DEF Transactions!vars, Transactions!storageVars, Transactions!roleVars,
         Transactions!configVars, Transactions!userVars, Transactions!spVars,
         Transactions!batchVars, Transactions!assetVars
<1>3. Whole!Inv' /\ Whole!BooksMatchHoldings'
  BY <1>1, WholeNextInv, WholeBooksStep DEF CallbackInv
<1>4. Kept' \in [Tokens -> Nat]
  BY DEF CallbackInv
<1> QED  BY <1>2, <1>3, <1>4 DEF CallbackInv

\* What pays nobody keeps the invariant, inside a payment or outside.
LEMMA QuietKeepsInv ==
    ASSUME CallbackInv, QuietStep, UNCHANGED call, call = Idle \/ call.calling
    PROVE  CallbackInv' /\ Transactions!Next
<1>1. call.calling \/ call.todo # <<"pay">>
  BY StatementFacts DEF Idle
<1>2. Kept = holdings
  BY <1>1, NothingOutstanding DEF CallbackInv
<1>3. Inv /\ BooksMatchHoldings
  BY <1>2, QuietInv DEF CallbackInv
<1>4. Next
  BY DEF QuietStep, Next
<1>5. Inv' /\ BooksMatchHoldings'
  BY <1>3, <1>4, NextInv, BooksStep
<1>6. holdings' \in [Tokens -> Nat]
  <2>1. (TypeOK <=> SettingTypes /\ MoneyTypes)'
    BY Types, PTL
  <2> QED  BY <1>5, <2>1 DEF Inv, MoneyTypes
<1>7. Kept' = holdings'
  <2>1. (holdings \in [Tokens -> Nat] /\ (call.calling \/ call.todo # <<"pay">>)
            => Kept = holdings)'
    BY NothingOutstanding, PTL
  <2> QED  BY <1>1, <1>6, <2>1
<1>8. (holdings \in [Tokens -> Nat] /\ Kept = holdings
        => (Whole!Inv /\ Whole!BooksMatchHoldings <=> Inv /\ BooksMatchHoldings))'
  BY QuietInv, PTL
<1>9. CallFits'
  <2>1. call.calling => call \in Calls /\ call.todo # Statements
    BY StatementFacts DEF CallbackInv, CallFits, Idle
  <2> QED  BY <2>1 DEF CallbackInv, CallFits
<1>10. Transactions!Next
  BY <1>2, <1>7, QuietIsTransaction
<1> QED  BY <1>5, <1>6, <1>7, <1>8, <1>9, <1>10 DEF CallbackInv

\* The writes of a payment keep the invariant, and are the contract's transaction.
LEMMA WriteKeepsInv ==
    ASSUME CallbackInv, Write
    PROVE  CallbackInv' /\ Transactions!Next
<1>1. PICK sender \in Signers : Transactions!PayingStep(sender)
  BY WriteIsTransaction
<1>2. /\ UNCHANGED assetVars /\ call \in Calls
      /\ call' = [call EXCEPT !.todo = <<"pay">>] /\ ~call.calling
  BY WriteIsTransaction
<1>3. Whole!Next
  BY <1>1, SamePayments DEF Whole!Next
<1>4. Whole!Inv' /\ Whole!BooksMatchHoldings'
  BY <1>3, WholeNextInv, WholeBooksStep DEF CallbackInv
<1>5. holdings' \in [Tokens -> Nat]
  BY <1>2 DEF CallbackInv, assetVars
<1>6. Kept' \in [Tokens -> Nat]
  <2>1. Whole!Tokens = Tokens
    BY DEF Tokens, Whole!Tokens
  <2> QED  BY <1>4, <2>1 DEF Whole!Inv, Whole!TypeOK
<1>7. CallFits'
  <2>1. call' \in Calls /\ call'.todo = <<"pay">> /\ ~call'.calling
    BY <1>2 DEF Calls
  <2> QED  BY <2>1, StatementFacts DEF CallFits
<1>8. Transactions!Next
  BY <1>1 DEF Transactions!Next
<1> QED  BY <1>4, <1>5, <1>6, <1>7, <1>8 DEF CallbackInv

\* Every step keeps the invariant, and is a transaction of the contract or a stutter.
LEMMA CallbackStep ==
    CallbackInv /\ [CallbackNext]_<<vars, call>>
        => CallbackInv' /\ [Transactions!Next]_(Transactions!vars)
<1> SUFFICES ASSUME CallbackInv, [CallbackNext]_<<vars, call>>
             PROVE  CallbackInv' /\ [Transactions!Next]_(Transactions!vars)
  OBVIOUS
<1> DEFINE Untouched == UNCHANGED <<now, storageVars, uncredited>>
<1>n. /\ (call.calling \/ call.todo # <<"pay">>) => Kept = holdings
      /\ holdings' \in [Tokens -> Nat] /\ (call'.calling \/ call'.todo # <<"pay">>)
            => Kept' = holdings'
  <2>1. (holdings \in [Tokens -> Nat] /\ (call.calling \/ call.todo # <<"pay">>)
            => Kept = holdings)'
    BY NothingOutstanding, PTL
  <2> QED  BY <2>1, NothingOutstanding DEF CallbackInv
<1>v. UNCHANGED vars => Untouched /\ holdings' = holdings /\ holdings' \in [Tokens -> Nat]
  BY DEF vars, storageVars, roleVars, configVars, userVars, spVars, batchVars, assetVars,
         CallbackInv
<1>1. CASE UNCHANGED <<vars, call>>
  <2>1. CallFits'
    BY <1>1 DEF CallbackInv, CallFits, Checked, Accepts, Claimable, Open, Due, EarningsOf,
                AfterMaturing, PlatformMayPay,
                vars, storageVars, roleVars, configVars, userVars, spVars, batchVars
  <2>2. Kept' = Kept
    BY <1>1, <1>v DEF Kept, Outgoing
  <2> QED  BY <1>1, <1>v, <2>1, <2>2, BooksUntouched
<1>2. CASE NotPaying
  BY <1>2, QuietKeepsInv DEF NotPaying, QuietStep
<1>3. CASE CallBack
  <2>1. QuietStep /\ UNCHANGED call /\ call.calling
    BY <1>3, ContractsAssumption DEF CallBack, QuietStep
  <2> QED  BY <2>1, QuietKeepsInv
<1>4. ASSUME NEW sender \in Signers,
             EnterClaim(sender) \/ EnterWithdrawal(sender) \/ EnterPlatformWithdrawal(sender)
      PROVE  CallbackInv' /\ UNCHANGED Transactions!vars
  <2>1. CallFits' /\ UNCHANGED vars /\ call = Idle /\ call'.todo = Statements
    BY <1>4, EnterFits
  <2>2. Kept' = Kept
    BY <1>n, <1>v, <2>1, StatementFacts DEF Idle
  <2> QED  BY <1>v, <2>1, <2>2, BooksUntouched
<1>5. CASE Write
  BY <1>5, WriteKeepsInv
<1>6. CASE Pay
  <2>1. /\ Kept' = Kept /\ Untouched
        /\ holdings' \in [Tokens -> Nat]
        /\ call' \in Calls /\ call'.todo = <<>>
    BY <1>6, PayIsNoTransaction
  <2>2. CallFits'
    BY <2>1, StatementFacts DEF CallFits
  <2> QED  BY <2>1, <2>2, BooksUntouched
<1>7. CASE Return
  <2>1. call \in Calls /\ call.calling /\ call.todo = <<>>
    BY <1>7 DEF Return, CallbackInv, CallFits, Idle
  <2>2. UNCHANGED vars /\ call' \in Calls /\ call'.todo = <<>>
    BY <1>7, <2>1 DEF Return, Calls
  <2>3. CallFits' /\ Kept' = Kept
    BY <1>n, <1>v, <2>1, <2>2, StatementFacts DEF CallFits
  <2> QED  BY <1>v, <2>2, <2>3, BooksUntouched
<1>8. CASE End
  <2>1. UNCHANGED vars /\ call.todo = <<>> /\ call' = Idle
    BY <1>8 DEF End
  <2>2. CallFits' /\ Kept' = Kept
    BY <1>n, <1>v, <2>1, StatementFacts DEF CallFits, Idle
  <2> QED  BY <1>v, <2>1, <2>2, BooksUntouched
<1> QED  BY <1>1, <1>2, <1>3, <1>4, <1>5, <1>6, <1>7, <1>8 DEF CallbackNext

\* The contract begins with the invariant, and as the contract it refines begins.
LEMMA CallbackInitInv == CallbackInit => CallbackInv /\ Transactions!Init
<1> SUFFICES ASSUME CallbackInit PROVE CallbackInv /\ Transactions!Init
  OBVIOUS
<1>1. Init /\ call = Idle
  BY DEF CallbackInit
<1>2. Inv /\ BooksMatchHoldings /\ holdings \in [Tokens -> Nat]
  BY <1>1, InitInv, BooksInit, Types DEF Inv, MoneyTypes
<1>3. Kept = holdings
  BY <1>1, <1>2, StatementFacts, NothingOutstanding DEF Idle
<1>4. CallbackInv
  BY <1>1, <1>2, <1>3, QuietInv DEF CallbackInv, CallFits
<1>5. Transactions!Init
  BY <1>1, <1>3, SameTokens
     DEF Init, Transactions!Init, MAX_FEE_BPS, Transactions!MAX_FEE_BPS,
         ZeroPerAccount, Transactions!ZeroPerAccount, Zero, Transactions!Zero
<1> QED  BY <1>4, <1>5

\* The invariant holds for ever.
LEMMA CallbackInvHolds == CallbackSpec => []CallbackInv
BY CallbackInitInv, CallbackStep, PTL DEF CallbackSpec

\* A recipient of FIL that calls back, at any depth and through any accounts,
\* finds the books equal to the holdings and every lock equal to its requests:
\* claimRefund, withdrawEarnings and withdrawPlatformEarnings write before they
\* pay.
THEOREM NoHalfPayments == CallbackSpec => []NobodySeesHalfAPayment
<1>1. CallbackInv => NobodySeesHalfAPayment
  <2> SUFFICES ASSUME CallbackInv, call = Idle \/ call.calling
               PROVE  BooksMatchHoldings /\ LocksMatchRequests
    BY DEF NobodySeesHalfAPayment
  <2>1. call.calling \/ call.todo # <<"pay">>
    BY StatementFacts DEF Idle
  <2>2. Kept = holdings
    BY <2>1, NothingOutstanding DEF CallbackInv
  <2> QED  BY <2>2, QuietInv DEF CallbackInv, Inv
<1> QED  BY <1>1, CallbackInvHolds, PTL

\* What a recipient does inside the payment it could have done in transactions
\* of its own right after it.
THEOREM CallbacksGainNothing == CallbackSpec => CallbacksAreTransactions
<1>1. CallbackInv /\ [CallbackNext]_<<vars, call>> => [Transactions!Next]_(Transactions!vars)
  BY CallbackStep
<1>2. []CallbackInv /\ [][CallbackNext]_<<vars, call>>
        => [][Transactions!Next]_(Transactions!vars)
  BY <1>1, PTL
<1> QED  BY <1>2, CallbackInitInv, CallbackInvHolds, PTL
         DEF CallbackSpec, CallbacksAreTransactions, Transactions!Spec
=============================================================================
