-------------------------- MODULE OldContractExit --------------------------
(***************************************************************************)
(* scripts/old-contract-exit.js: a person withdraws what is left on the    *)
(* retired contract with runs of "exit" and, after the timelock, "claim".  *)
(* The first RPC endpoint may answer zero for anything; the others are     *)
(* right, when they answer.  What a run sends may be mined late or never.  *)
(***************************************************************************)
EXTENDS Amounts, Integers, Sequences

CONSTANTS
    Funds,          \* what the wallet has to begin with
    Deposits,       \* balances the wallet may have to begin with
    Earned,         \* earnings it may have
    Locks,          \* amounts an older refund request may have locked
    MaxLies,        \* bound: how often the first endpoint answers a false zero
    MaxDeaths,      \* bound: how often a run is interrupted
    MaxFlights      \* bound: transactions in flight

ASSUME ExitAssumption ==
    /\ Funds \in Nat /\ Deposits \cup Earned \cup Locks \subseteq Nat
    /\ {MaxLies, MaxDeaths, MaxFlights} \subseteq Nat

VARIABLES
    balance, earnings,  \* balances, spEarnings of the wallet on the contract
    requests,           \* refundRequests of the wallet; due: its timelock has passed
    wallet,             \* what the wallet has
    flights,            \* transactions sent and not mined, oldest first
    pc,                 \* where the running script is; "idle" when none runs
    s,                  \* what it has read
    claiming,           \* CLAIM_ID
    said,               \* how the last run of exit ended
    lies, deaths

chainVars == <<balance, earnings, requests, wallet>>
vars == <<chainVars, flights, pc, s, claiming, said, lies, deaths>>

Open == {id \in DOMAIN requests : ~requests[id].claimed}
locked == Total([id \in DOMAIN requests |-> requests[id].amount], Open)

Request(amount, due) == [amount |-> amount, due |-> due, claimed |-> FALSE]
Unread == [bal |-> 0, earn |-> 0, locked |-> 0]

\* A run that ends forgets what it has read and which request it claims.
Forget ==
    /\ s' = IF pc' = "idle" THEN Unread ELSE s
    /\ claiming' = IF pc' = "idle" THEN 0 ELSE claiming

Init ==
    /\ balance \in Deposits /\ earnings \in Earned
    /\ \E old \in Locks :
        /\ old <= balance
        /\ requests = IF old = 0 THEN <<>> ELSE <<Request(old, TRUE)>>
    /\ wallet = Funds
    /\ flights = <<>>
    /\ pc = "idle" /\ s = Unread /\ claiming = 0
    /\ said = ""
    /\ lies = 0 /\ deaths = 0
-----------------------------------------------------------------------------
(* The retired contract *)

\* The timelock of a request passes.
Tick ==
    /\ \E id \in DOMAIN requests :
        ~requests[id].due /\ requests' = [requests EXCEPT ![id].due = TRUE]
    /\ UNCHANGED <<balance, earnings, wallet, flights, pc, s, claiming, said, lies, deaths>>

Withdraw ==
    /\ earnings > 0
    /\ wallet' = wallet + earnings /\ earnings' = 0
    /\ UNCHANGED <<balance, requests>>

RequestRefund(amount) ==
    /\ 0 < amount /\ amount <= balance - locked
    /\ requests' = Append(requests, Request(amount, FALSE))
    /\ UNCHANGED <<balance, earnings, wallet>>

Claim(id) ==
    /\ id \in Open
    /\ requests[id].due
    /\ requests' = [requests EXCEPT ![id].claimed = TRUE]
    /\ balance' = balance - requests[id].amount
    /\ wallet' = wallet + requests[id].amount
    /\ UNCHANGED earnings

Lands(t) ==
    \/ t.kind = "withdraw" /\ Withdraw
    \/ t.kind = "request" /\ RequestRefund(t.of)
    \/ t.kind = "claim" /\ Claim(t.of)

\* The script waits for the transaction it sent last; it learns that it was
\* mined, or stops when it was reverted.
Kinds == {"withdraw", "request", "claim"}
Awaited ==
    /\ pc \in {"wait withdraw", "wait request", "wait claim"}
    /\ \A i \in 2 .. Len(flights) : flights[i].kind \notin Kinds
After == [withdraw |-> "request", request |-> "requested", claim |-> "claimed"]

Mine ==
    /\ flights # <<>> /\ Head(flights).kind \in Kinds
    /\ flights' = Tail(flights)
    /\ LET t == Head(flights)
       IN  \/ /\ Lands(t)
              /\ pc' = IF Awaited THEN After[t.kind] ELSE pc
           \/ /\ ~ENABLED Lands(t)
              /\ pc' = IF Awaited THEN "idle" ELSE pc
              /\ UNCHANGED chainVars
    /\ Forget /\ UNCHANGED <<said, lies, deaths>>
-----------------------------------------------------------------------------
(* The script *)

Start ==
    /\ pc = "idle"
    /\ \/ said = "" /\ pc' = "read bal" /\ UNCHANGED claiming
       \/ /\ said \in {"requested", "locked"}
          /\ \E id \in DOMAIN requests : claiming' = id
          /\ pc' = "claim"
    /\ s' = Unread
    /\ UNCHANGED <<chainVars, flights, said, lies, deaths>>

\* One eth_call, and on to the next.
Read(at, field, truth, next) ==
    /\ pc = at /\ pc' = next
    /\ \/ s' = [s EXCEPT ![field] = truth] /\ UNCHANGED lies
       \/ truth # 0 /\ lies < MaxLies /\ lies' = lies + 1 /\ UNCHANGED s
    /\ UNCHANGED <<chainVars, flights, claiming, said, deaths>>

ReadState ==
    \/ Read("read bal", "bal", balance, "read earn")
    \/ Read("read earn", "earn", earnings, "read locked")
    \/ Read("read locked", "locked", locked, "confirm earn")

\* Mutant: what is locked is requested again.
free_IgnoresLocks == s.bal

free == s.bal - s.locked

Goes(at, next) ==
    /\ pc = at /\ pc' = next /\ Forget
    /\ UNCHANGED <<chainVars, flights, said, lies, deaths>>

\* Mutant: takes the first endpoint's word.
Confirmed_Unasked(value, truth) == TRUE

\* confirmZero: a zero has to be a zero at another endpoint, else the run ends.
Confirmed(value, truth) == value = 0 => truth = 0

ConfirmZeros ==
    \/ Confirmed(s.earn, earnings) /\ Goes("confirm earn", "confirm free")
    \/ ~Confirmed(s.earn, earnings) /\ Goes("confirm earn", "idle")
    \/ Confirmed(free, balance - locked) /\ Goes("confirm free", "withdraw")
    \/ ~Confirmed(free, balance - locked) /\ Goes("confirm free", "idle")

Send(at, kind, of, next) ==
    /\ pc = at /\ pc' = next
    /\ Len(flights) < MaxFlights
    /\ flights' = Append(flights, [kind |-> kind, of |-> of])
    /\ s' = IF kind = "withdraw" THEN s ELSE Unread
    /\ UNCHANGED <<chainVars, claiming, said, lies, deaths>>

Says(at, what) ==
    /\ pc = at /\ pc' = "idle" /\ said' = what /\ Forget
    /\ UNCHANGED <<chainVars, flights, lies, deaths>>

Exit ==
    \/ s.earn > 0 /\ Send("withdraw", "withdraw", s.earn, "wait withdraw")
    \/ s.earn = 0 /\ Goes("withdraw", "request")
    \/ free > 0 /\ Send("request", "request", free, "wait request")
    \/ free <= 0 /\ s.locked > 0 /\ Says("request", "locked")
    \/ free <= 0 /\ s.locked = 0 /\ Says("request", "nothing")
    \/ Says("requested", "requested")

\* A claim is sent when it is due by the clock of the machine, which may be
\* ahead of the chain's; before, the run ends.
ClaimRefund ==
    \/ claiming \in Open /\ Send("claim", "claim", claiming, "wait claim")
    \/ claiming \in Open /\ ~requests[claiming].due /\ Goes("claim", "idle")
    \/ claiming \notin Open /\ Goes("claim", "idle")
    \/ Goes("claimed", "idle")

\* An error, a timeout or an interruption; what was sent stays in flight.
Die ==
    /\ pc # "idle" /\ deaths < MaxDeaths
    /\ pc' = "idle" /\ deaths' = deaths + 1 /\ Forget
    /\ UNCHANGED <<chainVars, flights, said, lies>>

Script == ReadState \/ ConfirmZeros \/ Exit \/ ClaimRefund

Next == Tick \/ Mine \/ Start \/ Script \/ Die

Spec == Init /\ [][Next]_vars
-----------------------------------------------------------------------------
\* "Every zero is re-read against a second, independent endpoint before it is
\* believed": the script never says that there is nothing to request, or
\* nothing left at all, when there is.
ZeroesAreReread ==
    /\ said = "nothing" => balance = 0
    /\ said = "locked" => balance = locked
=============================================================================
