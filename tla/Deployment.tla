----------------------------- MODULE Deployment -----------------------------
(***************************************************************************)
(* scripts/mainnet-deploy.js and scripts/mainnet-finish.js, run and run    *)
(* again by a person until a contract is deployed and configured.  What a  *)
(* script sends is mined later, or never; a script dies on an error, on a  *)
(* reverted transaction, or because it gives up waiting, and what it sent  *)
(* stays in flight.                                                        *)
(*                                                                         *)
(* A contract is the set of things done to it: the three steps after the   *)
(* deployment, and "used" once the gateway settles with it.                *)
(***************************************************************************)
EXTENDS Naturals, Sequences

CONSTANTS
    Targets,        \* whether mainnet-finish.js has OPERATOR_ADDRESS: a subset of BOOLEAN
    MaxAttempts,    \* attempts of mainnet-finish.js to send, 10 in the code
    MaxContracts,   \* bound: contracts deployed
    MaxFlights,     \* bound: transactions in flight
    MaxDeaths       \* bound: how often a script is interrupted

ASSUME DeploymentAssumption ==
    /\ Targets \subseteq BOOLEAN
    /\ {MaxAttempts, MaxContracts, MaxFlights, MaxDeaths} \subseteq Nat

VARIABLES
    contracts,  \* the contracts on chain
    flights,    \* transactions sent and not mined, oldest first
    run,        \* the running script
    staging,    \* deployments/mainnet-v13.json: the contract it names, or 0
    canonical,  \* deployments/mainnet.json: the contract mainnet-finish.js wrote, or 0
    deaths

vars == <<contracts, flights, run, staging, canonical, deaths>>

Steps == <<"earningsFreeze", "supportedToken", "operator">>
Configured == {Steps[n] : n \in DOMAIN Steps}

Idle == [script |-> "none"]

Init ==
    /\ contracts = <<>> /\ flights = <<>>
    /\ run = Idle
    /\ staging = 0 /\ canonical = 0
    /\ deaths = 0

\* doing is "read", "wait", "poll", "reverted" or "lost"; tx the position in
\* flights of what the script waits for.
Started(script, on, step, target) ==
    [script |-> script, on |-> on, step |-> step, doing |-> "read", tx |-> 0,
     attempt |-> 0, target |-> target]

\* The script goes on to this step.
At(step) == [run EXCEPT !.step = step, !.doing = "read", !.tx = 0]

\* A transaction leaves; the script waits for it, or polls the state because
\* the answer named another hash.
Send(kind, doing) ==
    /\ Len(flights) < MaxFlights
    /\ flights' = Append(flights, [kind |-> kind, on |-> run.on])
    /\ run' = [run EXCEPT !.doing = doing, !.tx = Len(flights) + 1]
-----------------------------------------------------------------------------
(* The chain *)

\* Whitelisting a token a second time reverts.
Reverts(t) == t.kind = "supportedToken" /\ t.kind \in contracts[t.on]

\* What the script learns of the transaction at position n.
Waiting == run # Idle /\ run.tx > 0

Learns(n, fate, on) ==
    IF ~Waiting \/ run.tx < n THEN run
    ELSE IF run.tx > n THEN [run EXCEPT !.tx = @ - 1]
    ELSE [run EXCEPT !.tx = 0, !.on = on,
                     !.doing = IF run.doing = "poll" THEN "poll" ELSE fate]

\* The oldest transaction is mined.
Mine ==
    /\ flights # <<>>
    /\ LET t == Head(flights)
       IN  /\ contracts' = IF t.kind = "deploy" THEN Append(contracts, {})
                           ELSE [contracts EXCEPT ![t.on] = @ \cup {t.kind}]
           /\ run' = IF t.kind = "deploy" THEN Learns(1, "wait", Len(contracts'))
                     ELSE Learns(1, IF Reverts(t) THEN "reverted" ELSE "wait", t.on)
    /\ flights' = Tail(flights)
    /\ UNCHANGED <<staging, canonical, deaths>>

\* A transaction is dropped.
Lose ==
    /\ \E n \in DOMAIN flights :
        /\ flights' = SubSeq(flights, 1, n - 1) \o SubSeq(flights, n + 1, Len(flights))
        /\ run' = Learns(n, "lost", IF Waiting THEN run.on ELSE 0)
    /\ UNCHANGED <<contracts, staging, canonical, deaths>>

\* The gateway settles with a contract whose operator it is.
Use ==
    /\ \E i \in DOMAIN contracts :
        /\ "operator" \in contracts[i]
        /\ contracts' = [contracts EXCEPT ![i] = @ \cup {"used"}]
    /\ UNCHANGED <<flights, run, staging, canonical, deaths>>
-----------------------------------------------------------------------------
(* mainnet-deploy.js *)

Deployments == Len(contracts) + Len(SelectSeq(flights, LAMBDA t : t.kind = "deploy"))

StartDeploy ==
    /\ run = Idle /\ Deployments < MaxContracts
    /\ run' = Started("deploy", 0, 0, TRUE)
    /\ UNCHANGED <<contracts, flights, staging, canonical, deaths>>

\* With SETTLEMENT_ADDRESS.
Resume ==
    /\ run = Idle
    /\ \E i \in DOMAIN contracts : run' = Started("deploy", i, 1, TRUE)
    /\ UNCHANGED <<contracts, flights, staging, canonical, deaths>>

Deploy ==
    /\ run # Idle /\ run.script = "deploy" /\ run.step = 0 /\ run.doing = "read"
    /\ Send("deploy", "wait")
    /\ UNCHANGED <<contracts, staging, canonical, deaths>>

\* Mutant: the step is taken for done as soon as it is sent.
Landed_WhenSent == run.doing \in {"wait", "poll"}

\* sendTx returns: the transaction is mined, or a poll sees its effect.
Landed ==
    \/ run.doing = "wait" /\ run.tx = 0
    \/ run.doing = "poll" /\ Steps[run.step] \in contracts[run.on]

\* Mutant: the script does not look whether the step was done before.
Done_Unknown == FALSE

Done == Steps[run.step] \in contracts[run.on]

\* A step reads first whether it was done before.
DeployStep ==
    /\ run # Idle /\ run.script = "deploy" /\ run.step \in DOMAIN Steps
    /\ \/ /\ run.doing = "read" /\ Done
          /\ run' = At(run.step + 1) /\ UNCHANGED flights
       \/ /\ run.doing = "read" /\ ~Done
          /\ \E doing \in {"wait", "poll"} : Send(Steps[run.step], doing)
       \/ Landed /\ run' = At(run.step + 1) /\ UNCHANGED flights
    /\ UNCHANGED <<contracts, staging, canonical, deaths>>

DeployDone ==
    /\ run # Idle /\ run.script = "deploy" /\ run.step = 0
    /\ run.doing = "wait" /\ run.tx = 0
    /\ run' = At(1)
    /\ UNCHANGED <<contracts, flights, staging, canonical, deaths>>

\* The surface check, and the staging record.
SurfaceCheck ==
    /\ run # Idle /\ run.script = "deploy" /\ run.step > Len(Steps)
    /\ staging' = IF contracts[run.on] = Configured THEN run.on ELSE staging
    /\ run' = Idle
    /\ UNCHANGED <<contracts, flights, canonical, deaths>>
-----------------------------------------------------------------------------
(* mainnet-finish.js *)

StartFinish ==
    /\ run = Idle
    /\ \E i \in DOMAIN contracts, target \in Targets :
        run' = Started("finish", i, IF target THEN 3 ELSE 4, target)
    /\ UNCHANGED <<contracts, flights, staging, canonical, deaths>>

\* One turn of send-with-recheck, up to the sending.
Attempt ==
    /\ run # Idle /\ run.script = "finish" /\ run.step = 3 /\ run.doing = "read"
    /\ IF "operator" \in contracts[run.on]
       THEN run' = At(4) /\ UNCHANGED flights
       ELSE /\ Len(flights) < MaxFlights
            /\ flights' = Append(flights, [kind |-> "operator", on |-> run.on])
            /\ run' = [run EXCEPT !.doing = "wait", !.tx = Len(flights) + 1,
                                  !.attempt = @ + 1]
    /\ UNCHANGED <<contracts, staging, canonical, deaths>>

Confirmed ==
    /\ run # Idle /\ run.script = "finish" /\ run.step = 3
    /\ run.doing = "wait" /\ run.tx = 0
    /\ run' = At(4)
    /\ UNCHANGED <<contracts, flights, staging, canonical, deaths>>

\* The answer is an error worth a retry: check again, and send again.
Retry ==
    /\ run # Idle /\ run.script = "finish" /\ run.step = 3
    /\ run.doing \in {"wait", "lost"}
    /\ run.attempt < MaxAttempts
    /\ run' = At(3)
    /\ UNCHANGED <<contracts, flights, staging, canonical, deaths>>

\* The record is written when the surface is as it should be.
FinishRecord ==
    /\ run # Idle /\ run.script = "finish" /\ run.step = 4
    /\ run.target => "operator" \in contracts[run.on]
    /\ canonical' = run.on
    /\ run' = Idle
    /\ UNCHANGED <<contracts, flights, staging, deaths>>
-----------------------------------------------------------------------------
\* The script fails: reverted, lost, tired of polling, or out of attempts.
GiveUp ==
    /\ run # Idle
    /\ run.doing \in {"reverted", "lost", "poll"}
    /\ run' = Idle
    /\ UNCHANGED <<contracts, flights, staging, canonical, deaths>>

\* Any other error or interruption, the renamed hash of a deployment included.
Die ==
    /\ run # Idle /\ deaths < MaxDeaths
    /\ run' = Idle /\ deaths' = deaths + 1
    /\ UNCHANGED <<contracts, flights, staging, canonical>>

DeployScript == Deploy \/ DeployDone \/ DeployStep \/ SurfaceCheck
FinishScript == Attempt \/ Confirmed \/ Retry \/ FinishRecord

Next ==
    \/ Mine \/ Lose \/ Use
    \/ StartDeploy \/ Resume \/ DeployScript
    \/ StartFinish \/ FinishScript
    \/ GiveUp \/ Die

Spec == Init /\ [][Next]_vars

\* What is sent again and again is mined in the end, a script that is not
\* interrupted goes on, and the person resumes each contract again and again.
FairSpec ==
    /\ Spec
    /\ SF_vars(Mine)
    /\ \A i \in 1 .. MaxContracts : SF_vars(Resume /\ run'.on = i)
    /\ WF_vars(DeployScript) /\ WF_vars(FinishScript) /\ WF_vars(GiveUp)
-----------------------------------------------------------------------------
\* mainnet-deploy.js hands settlement to the hot key last: whatever was lost,
\* resumed, sent twice or done by the other script before, it sends setOperator
\* only to a contract that freezes earnings and accepts its token.  This is the
\* order this script keeps; mainnet-finish.js appoints without asking for either.
OperatorComesLast ==
    [][/\ run # Idle /\ run.script = "deploy"
       /\ flights' = Append(flights, [kind |-> "operator", on |-> run.on])
       => {"earningsFreeze", "supportedToken"} \subseteq contracts[run.on]]_vars

\* The contract, if it is there, has had every step.
IsConfigured(i) == i \in DOMAIN contracts /\ Configured \subseteq contracts[i]

\* "Each idempotent": resuming finishes what an earlier run began.  Every
\* contract once deployed gets all its settings, whatever died, was lost or sent
\* twice, and also when mainnet-finish.js appointed the operator first and the
\* gateway settles with it already.  It gets its own staging record besides,
\* unless the gateway has used that very contract, which the surface check
\* does not let pass.
DeploymentCompletes ==
    \A i \in 1 .. MaxContracts :
        i \in DOMAIN contracts
            ~> IsConfigured(i) /\ (staging = i \/ "used" \in contracts[i])
=============================================================================
