----------------------------- MODULE Migration -----------------------------
(***************************************************************************)
(* Moving a prepaid balance from the retired contract to the new one:      *)
(* scripts/old-contract-exit.js and scripts/mainnet-deposit.js, run by one *)
(* person with one wallet, side by side and as often as it takes.  "During *)
(* a contract migration the record still names the OUTGOING instance", so  *)
(* a deposit may end up in the retired contract while it is being emptied. *)
(***************************************************************************)
EXTENDS OldContractExit

CONSTANTS
    Amount,         \* DEPOSIT_FIL
    MaxDeposits     \* bound: runs of mainnet-deposit.js

ASSUME MigrationAssumption == Amount \in Nat \ {0} /\ MaxDeposits \in Nat

VARIABLES
    credited,       \* balances of the wallet on the new contract
    d,              \* the running deposit
    runs,           \* how many deposits were started
    late            \* history: deposited in the retired contract since exit read the balance

depositVars == <<credited, d, runs, late>>
migrationVars == <<vars, depositVars>>

\* What the deposit script knows: its contract and the balance there before.
Idle == [pc |-> "idle", on |-> "", before |-> 0]

MigrationInit ==
    /\ Init
    /\ credited = 0
    /\ d = Idle /\ runs = 0
    /\ late = 0
-----------------------------------------------------------------------------
(* scripts/mainnet-deposit.js *)

UnchangedButDeposit == UNCHANGED <<chainVars, pc, s, claiming, said, lies, deaths>>

\* What can be given as CONTRACT: the retired contract, the new one, another
\* contract, which is no settlement, or an address without code.
HasCode(on) == on \in {"old", "new", "other"}

\* balances of the wallet on the contract; no other contract answers the question,
\* and a failed read counts as zero
Balance(on) == IF on = "old" THEN balance ELSE IF on = "new" THEN credited ELSE 0

\* readUserBalance: the best of the answers, zero where every endpoint fails or lies.
ReadUserBalance(on) == {0, Balance(on)}

\* A run reads first, and goes on if the wallet can pay.  The address is CONTRACT,
\* which may be mistyped, or else that of deployments/mainnet.json, which names the
\* retired contract for a while.
StartDeposit ==
    /\ d.pc = "idle" /\ runs < MaxDeposits
    /\ \E on \in {"old", "new", "other", "nowhere"} :
        /\ HasCode(on)
        /\ wallet >= Amount
        /\ \E before \in ReadUserBalance(on) :
            d' = [pc |-> "send", on |-> on, before |-> before]
    /\ runs' = runs + 1
    /\ UNCHANGED <<flights, credited, late>> /\ UnchangedButDeposit

\* Mutant: reads the balance without waiting for the transaction.
SendDeposit_Unawaited ==
    /\ d.pc = "send" /\ Len(flights) < MaxFlights
    /\ flights' = Append(flights, [kind |-> "deposit", of |-> runs, on |-> d.on])
    /\ d' = [d EXCEPT !.pc = "read after"]
    /\ UNCHANGED <<credited, runs, late>> /\ UnchangedButDeposit

SendDeposit ==
    /\ d.pc = "send" /\ Len(flights) < MaxFlights
    /\ flights' = Append(flights, [kind |-> "deposit", of |-> runs, on |-> d.on])
    /\ d' = [d EXCEPT !.pc = "wait"]
    /\ UNCHANGED <<credited, runs, late>> /\ UnchangedButDeposit

DepositGoes(at, next) ==
    /\ d.pc = at /\ d' = next
    /\ UNCHANGED <<flights, credited, runs, late>> /\ UnchangedButDeposit

\* "balance up exactly": the credit is as large as the deposit.
ReadAfter ==
    \E after \in ReadUserBalance(d.on) :
        DepositGoes("read after",
            IF after - d.before = Amount THEN [d EXCEPT !.pc = "credited"] ELSE Idle)

EndDeposit == DepositGoes("credited", Idle)

DieDepositing ==
    /\ d.pc # "idle" /\ deaths < MaxDeaths
    /\ d' = Idle /\ deaths' = deaths + 1
    /\ UNCHANGED <<chainVars, flights, pc, s, claiming, said, lies,
                   credited, runs, late>>

DepositScript == SendDeposit \/ ReadAfter \/ EndDeposit

\* depositFIL of either contract, when the wallet can pay for it; another contract
\* reverts on the call or keeps the money.
Paid(on) ==
    IF wallet < Amount THEN {0} ELSE IF on = "other" THEN {0, Amount} ELSE {Amount}

MineDeposit ==
    LET t == Head(flights)
    IN  /\ flights # <<>> /\ t.kind = "deposit"
        /\ flights' = Tail(flights)
        /\ \E paid \in Paid(t.on) :
           LET toOld   == IF t.on = "old" THEN paid ELSE 0
               toNew   == IF t.on = "new" THEN paid ELSE 0
               awaited == d.pc = "wait" /\ t.of = runs
           IN  /\ wallet' = wallet - paid
               /\ balance' = balance + toOld /\ late' = late + toOld
               /\ credited' = credited + toNew
               /\ d' = IF ~awaited THEN d
                       ELSE IF paid > 0 THEN [d EXCEPT !.pc = "read after"] ELSE Idle
        /\ UNCHANGED <<earnings, requests, pc, s, claiming, said, lies, deaths, runs>>
-----------------------------------------------------------------------------
(* The exit beside it *)

ExitScript ==
    /\ Script
    /\ late' = IF pc = "read bal" THEN 0 ELSE late
    /\ UNCHANGED <<credited, d, runs>>

\* The person makes sure that nothing is left.
ExitAgain ==
    /\ pc = "idle" /\ said # ""
    /\ pc' = "read bal" /\ s' = Unread /\ said' = ""
    /\ UNCHANGED <<chainVars, flights, claiming, lies, deaths, depositVars>>

ExitStep == (Tick \/ Mine \/ Start \/ Die) /\ UNCHANGED depositVars

MigrationNext ==
    \/ ExitStep \/ ExitScript \/ ExitAgain
    \/ StartDeposit \/ DepositScript \/ DieDepositing
    \/ MineDeposit

\* Time passes, transactions are mined, an exit that is not interrupted goes on,
\* and the person runs it again, and claims each request, until nothing is left.
\* Deposits have to do nothing.
MigrationSpec ==
    /\ MigrationInit /\ [][MigrationNext]_migrationVars
    /\ WF_migrationVars(Tick /\ UNCHANGED depositVars)
    /\ WF_migrationVars(Mine /\ UNCHANGED depositVars)
    /\ WF_migrationVars(MineDeposit)
    /\ WF_migrationVars(ExitScript)
    /\ SF_migrationVars(Start /\ said = "" /\ UNCHANGED depositVars)
    /\ SF_migrationVars(ExitAgain)
    /\ \A id \in 1 .. MaxDeposits + 2 :
        SF_migrationVars(Start /\ claiming' = id /\ UNCHANGED depositVars)
-----------------------------------------------------------------------------
\* A run of exit that ends well leaves no earnings, and no balance outside
\* refund requests but what a deposit brought after it had read the balance,
\* however often endpoints answer false zeros and runs are interrupted.  (Not so
\* where it believes a false zero beside a lock: ZeroesAreReread.)
LeftBehindCameLate ==
    said # "" =>
        /\ earnings = 0
        /\ \/ balance - locked <= late
           \/ said = "locked" /\ lies > 0

\* "deposit credited" is said of this run's deposit: it has been mined on the
\* retired contract or the new one, no late deposit of an earlier run is taken for
\* it, and it is never said of money that another contract kept, though every
\* contract with code is let through.
CreditIsThisRuns ==
    d.pc = "credited" =>
        /\ d.on # "other"
        /\ \A i \in DOMAIN flights : flights[i].kind = "deposit" => flights[i].of # runs

\* "They are recoverable": what was earned, left or deposited by mistake on the
\* retired contract is off it in the end, however runs and transactions fall.
EverythingComesHome == <>[](balance = 0 /\ earnings = 0)
=============================================================================
