------------------------ MODULE SettlementCallbacks ------------------------
(***************************************************************************)
(* A payment of FIL to a contract runs the contract's code inside the      *)
(* transaction that pays (contracts/OpenModelSettlement.sol _transferOut;  *)
(* contracts/test/ReentrantAttacker.sol is such a recipient).  That code   *)
(* may call back: the nonReentrant functions refuse, the others run, on    *)
(* whatever the paying function has written so far.  A recipient that      *)
(* refuses in the end undoes the whole transaction, its calls included;    *)
(* the steps here are those of transactions that go through.               *)
(***************************************************************************)
EXTENDS MCOpenModelSettlement

CONSTANT Contracts      \* the accounts that have code

ASSUME ContractsAssumption == Contracts \subseteq Signers

VARIABLE call           \* the function that pays, while it runs

Idle == [todo |-> <<>>, calling |-> FALSE]

\* Mutant: pays before it writes.
Statements_PayFirst == <<"pay", "write">>

\* What claimRefund, withdrawEarnings and withdrawPlatformEarnings do once
\* their checks have passed.
Statements == <<"write", "pay">>

CallbackInit == Init /\ call = Idle
-----------------------------------------------------------------------------
Accepts(token, to) == token = NATIVE_TOKEN => to \notin Rejecting

\* nonReentrant, and the checks of the function.
Enter(function, arg, token, to, amount) ==
    /\ call = Idle
    /\ Accepts(token, to)
    /\ call' = [function |-> function, arg |-> arg, token |-> token, to |-> to,
                amount |-> amount, todo |-> Statements, calling |-> FALSE]
    /\ UNCHANGED vars

EnterClaim(sender) ==
    \E id \in DOMAIN refundRequests :
        /\ Claimable(sender, id)
        /\ Enter("claimRefund", id, refundRequests[id].token, sender,
                 refundRequests[id].amount)

EnterWithdrawal(sender) ==
    \E token \in Tokens :
        /\ EarningsOf(sender, token) > 0
        /\ Enter("withdrawEarnings", sender, token, sender, EarningsOf(sender, token))

EnterPlatformWithdrawal(sender) ==
    \E token \in Tokens, to \in Accounts \cup {NoOne} :
        /\ PlatformMayPay(sender, token, to)
        /\ Enter("withdrawPlatformEarnings", sender, token, to, platformEarnings[token])

At(statement) == ~call.calling /\ call.todo # <<>> /\ Head(call.todo) = statement

Write ==
    /\ At("write")
    /\ \/ call.function = "claimRefund" /\ BookClaim(call.arg)
       \/ call.function = "withdrawEarnings" /\ BookWithdrawal(call.arg, call.token)
       \/ call.function = "withdrawPlatformEarnings" /\ BookPlatformWithdrawal(call.token)
    /\ UNCHANGED assetVars
    /\ call' = [call EXCEPT !.todo = Tail(@)]

\* FIL runs the recipient's code; the whitelisted ERC20s do not.
Pay ==
    /\ At("pay")
    /\ TransferOut(call.token, call.to, call.amount)
    /\ UNCHANGED <<now, storageVars>>
    /\ call' = [call EXCEPT !.todo = Tail(@),
                    !.calling = call.token = NATIVE_TOKEN /\ call.to \in Contracts]

\* The recipient calls back, itself or through other contracts.
CallBack ==
    /\ call.calling
    /\ SomeoneSends \/ \E sender \in Contracts : Unguarded(sender)
    /\ UNCHANGED call

Return == call.calling /\ call' = [call EXCEPT !.calling = FALSE] /\ UNCHANGED vars

End ==
    /\ call # Idle
    /\ call.todo = <<>> /\ ~call.calling
    /\ call' = Idle /\ UNCHANGED vars

\* A transaction that pays nobody.
NotPaying ==
    /\ call = Idle
    /\ \/ Tick
       \/ SomeoneSends
       \/ \E sender \in Signers : Unguarded(sender) \/ OperatorStep(sender)
    /\ UNCHANGED call

CallbackNext ==
    \/ NotPaying
    \/ \E sender \in Signers :
        EnterClaim(sender) \/ EnterWithdrawal(sender) \/ EnterPlatformWithdrawal(sender)
    \/ Write
    \/ Pay
    \/ CallBack
    \/ Return
    \/ End

CallbackSpec == CallbackInit /\ [][CallbackNext]_<<vars, call>>
-----------------------------------------------------------------------------
\* Whenever code other than the contract's runs, between transactions or inside
\* one, the books equal the holdings and every lock is the sum of its requests:
\* no caller can act on a half-written payment.
NobodySeesHalfAPayment ==
    call = Idle \/ call.calling => BooksMatchHoldings /\ LocksMatchRequests

\* What is written off and about to be paid.
Outgoing(token) ==
    IF ~call.calling /\ call.todo = <<"pay">> /\ call.token = token
    THEN call.amount ELSE 0

\* What the contract owns and has not written off.
Kept == [token \in Tokens |-> holdings[token] - Outgoing(token)]

Transactions == INSTANCE OpenModelSettlement WITH holdings <- Kept

\* Calling back gains nobody anything: what a recipient does inside the payment
\* it could have done in transactions of its own right after it.
CallbacksAreTransactions == Transactions!Spec
=============================================================================
