--------------------------- MODULE PrepaidLedger ---------------------------
(***************************************************************************)
(* What OpenModelSettlement.sol promises about money, without refund       *)
(* requests, freezes, batches, roles or the stop: users prepay, usage      *)
(* moves funds to providers less a bounded fee to the platform, and every  *)
(* unit that leaves is taken from the funds of one account or the platform.*)
(***************************************************************************)
EXTENDS Amounts

CONSTANTS Accounts, Tokens, FeeDenominator, MaxFee

VARIABLES
    user,       \* user[a][t]: prepaid by a and not used
    provider,   \* provider[a][t]: earned by a and not withdrawn
    platform,   \* platform[t]: fees and confiscations not withdrawn
    vault       \* vault[t]: what the ledger holds for all of them

vars == <<user, provider, platform, vault>>

Init ==
    /\ user = [a \in Accounts |-> [t \in Tokens |-> 0]]
    /\ provider = [a \in Accounts |-> [t \in Tokens |-> 0]]
    /\ platform = [t \in Tokens |-> 0]
    /\ vault = [t \in Tokens |-> 0]

\* What the accounts hold together in f of token t.
Sum(f, t) == Total([a \in Accounts |-> f[a][t]], Accounts)

Prepay ==
    \E a \in Accounts, t \in Tokens :
        /\ vault'[t] > vault[t]
        /\ vault' = [vault EXCEPT ![t] = vault'[t]]
        /\ user' = [user EXCEPT ![a][t] = @ + (vault'[t] - vault[t])]
        /\ UNCHANGED <<provider, platform>>

\* Usage: users only lose, providers and the platform only gain, what is lost
\* is gained, and the platform's part is within the largest fee.
Use ==
    /\ \A t \in Tokens :
        /\ \A a \in Accounts :
            user'[a][t] <= user[a][t] /\ provider'[a][t] >= provider[a][t]
        /\ platform'[t] >= platform[t]
        /\ Sum(user, t) + Sum(provider, t) + platform[t]
            = Sum(user', t) + Sum(provider', t) + platform'[t]
        /\ FeeDenominator * (platform'[t] - platform[t])
            <= MaxFee * (Sum(user, t) - Sum(user', t))
    /\ UNCHANGED vault

\* Something leaves the vault, for one account or for the platform.
Leaves(t, amount) == amount > 0 /\ vault' = [vault EXCEPT ![t] = @ - amount]

Refund ==
    \E a \in Accounts, t \in Tokens :
        LET amount == user[a][t] - user'[a][t]
        IN  /\ Leaves(t, amount)
            /\ user' = [user EXCEPT ![a][t] = @ - amount]
            /\ UNCHANGED <<provider, platform>>

Pay ==
    \E a \in Accounts, t \in Tokens :
        LET amount == provider[a][t] - provider'[a][t]
        IN  /\ Leaves(t, amount)
            /\ provider' = [provider EXCEPT ![a][t] = @ - amount]
            /\ UNCHANGED <<user, platform>>

PayPlatform ==
    \E t \in Tokens :
        /\ Leaves(t, platform[t])
        /\ platform' = [platform EXCEPT ![t] = 0]
        /\ UNCHANGED <<user, provider>>

\* A provider forfeits earnings to the platform, to no one else.
Forfeit ==
    \E a \in Accounts, t \in Tokens :
        LET amount == provider[a][t] - provider'[a][t]
        IN  /\ amount > 0
            /\ provider' = [provider EXCEPT ![a][t] = @ - amount]
            /\ platform' = [platform EXCEPT ![t] = @ + amount]
            /\ UNCHANGED <<user, vault>>

Next == Prepay \/ Use \/ Refund \/ Pay \/ PayPlatform \/ Forfeit

Spec == Init /\ [][Next]_vars
=============================================================================
