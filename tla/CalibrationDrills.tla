------------------------- MODULE CalibrationDrills -------------------------
(***************************************************************************)
(* The drills a person runs on the long-term Calibration contract, one at  *)
(* a time and again when one fails: scripts/calib-operator-rotation.js,    *)
(* scripts/calib-contract-edgecases.js, scripts/calib-verify-newcontract.js*)
(*                                                                         *)
(* A call is estimated first, and sent only if it would succeed then; the  *)
(* script waits for it, and after a network error calls again.  What only  *)
(* reads and prints is left out, and so are the calls of submitSettlement: *)
(* they have five arguments where the contract takes seven, which the      *)
(* library refuses before anything is sent.                                *)
(***************************************************************************)
EXTENDS Integers, Sequences

CONSTANTS
    deployer, user,     \* the two keys of .calib-keys.json
    NoOne,              \* address(0)
    MaxRepeats,         \* bound: how often a call is made again
    MaxDeaths           \* bound: how often a drill is interrupted

ASSUME DrillsAssumption ==
    /\ deployer # user /\ NoOne \notin {deployer, user}
    /\ {MaxRepeats, MaxDeaths} \subseteq Nat

VARIABLES
    owner, pendingOwner, operator, paused, fee,     \* of the contract
    flights,        \* flights[key]: calls sent and not mined, in order of their nonces
    drill,          \* the running script; "none"
    step,           \* the step of it that is next
    waiting,        \* whether the call of that step has been sent
    ended,          \* the script that ended last, by reaching its end
    repeats, deaths

contractVars == <<owner, pendingOwner, operator, paused, fee>>
scriptVars == <<drill, step, waiting, ended>>
drillsVars == <<contractVars, flights, scriptVars, repeats, deaths>>

\* A call that has to succeed, and one that has to be refused (expectRevert).
send(by, function, arg) ==
    [by |-> by, function |-> function, arg |-> arg, refused |-> FALSE]
expectRevert(by, function, arg) ==
    [by |-> by, function |-> function, arg |-> arg, refused |-> TRUE]

\* Mutant: the new operator is to hand the role back itself.
rotation_HandsBack == <<
    expectRevert(user, "setOperator", user),
    send(deployer, "setOperator", user),
    send(user, "setOperator", deployer)>>

rotation == <<
    expectRevert(user, "setOperator", user),
    send(deployer, "setOperator", user),
    send(deployer, "setOperator", deployer)>>

\* Mutant: lifts the stop at the very end.
edgecases_UnpausesLast == <<
    send(deployer, "pause", NoOne),
    expectRevert(user, "depositFIL", NoOne),
    send(deployer, "transferOwnership", user),
    expectRevert(deployer, "setPlatformFee", 400),
    send(user, "transferOwnership", deployer),
    send(deployer, "unpause", NoOne)>>

\* The batch of 100 items on a fresh instance (part C) would come after these.
edgecases == <<
    send(deployer, "pause", NoOne),
    expectRevert(user, "depositFIL", NoOne),
    send(deployer, "unpause", NoOne),
    send(deployer, "transferOwnership", user),
    expectRevert(deployer, "setPlatformFee", 400),
    send(user, "transferOwnership", deployer)>>

verify == << expectRevert(user, "pause", NoOne) >>

Drills == [rotation |-> rotation, edgecases |-> edgecases, verify |-> verify]

DrillsInit ==
    /\ owner = deployer /\ pendingOwner = NoOne /\ operator = deployer
    /\ paused = FALSE /\ fee = 500
    /\ flights = [key \in {deployer, user} |-> <<>>]
    /\ drill = "none" /\ step = 1 /\ waiting = FALSE
    /\ ended = "none"
    /\ repeats = 0 /\ deaths = 0
-----------------------------------------------------------------------------
(* The contract *)

Succeeds(c) ==
    \/ c.function \in {"setOperator", "transferOwnership", "setPlatformFee"} /\ c.by = owner
    \/ c.function = "pause" /\ c.by = owner /\ ~paused
    \/ c.function = "unpause" /\ c.by = owner /\ paused
    \/ c.function = "depositFIL" /\ ~paused

Applies(c) ==
    LET To(function, old) == IF c.function = function THEN c.arg ELSE old
    IN  /\ operator' = To("setOperator", operator)
        /\ pendingOwner' = To("transferOwnership", pendingOwner)
        /\ fee' = To("setPlatformFee", fee)
        /\ paused' = IF c.function = "pause" THEN TRUE
                     ELSE IF c.function = "unpause" THEN FALSE ELSE paused
        /\ UNCHANGED owner
-----------------------------------------------------------------------------
(* The scripts *)

call == Drills[drill][step]

Stops == drill' = "none" /\ step' = 1 /\ waiting' = FALSE /\ UNCHANGED ended

GoesOn ==
    /\ waiting' = FALSE
    /\ IF step < Len(Drills[drill])
       THEN step' = step + 1 /\ UNCHANGED <<drill, ended>>
       ELSE step' = 1 /\ drill' = "none" /\ ended' = drill

Run(name) ==
    /\ drill = "none"
    /\ drill' = name /\ step' = 1 /\ waiting' = FALSE /\ ended' = "none"
    /\ UNCHANGED <<contractVars, flights, repeats, deaths>>

\* Mutant: does not wait for the call it has sent.
Call_Unawaited ==
    /\ drill # "none" /\ ~waiting
    /\ IF Succeeds(call)
       THEN /\ flights' = [flights EXCEPT ![call.by] = Append(@, call)]
            /\ GoesOn
       ELSE /\ IF call.refused THEN GoesOn ELSE Stops
            /\ UNCHANGED flights
    /\ UNCHANGED <<contractVars, repeats, deaths>>

\* A call that would revert is refused by the estimate: as it should be, or the
\* script ends there.
Call ==
    /\ drill # "none" /\ ~waiting
    /\ IF Succeeds(call)
       THEN /\ flights' = [flights EXCEPT ![call.by] = Append(@, call)]
            /\ waiting' = TRUE
            /\ UNCHANGED <<drill, step, ended>>
       ELSE /\ IF call.refused THEN GoesOn ELSE Stops
            /\ UNCHANGED flights
    /\ UNCHANGED <<contractVars, repeats, deaths>>

\* withRetry: the answer to the call is lost, and it is made again.
Repeat ==
    /\ waiting /\ repeats < MaxRepeats
    /\ waiting' = FALSE /\ repeats' = repeats + 1
    /\ UNCHANGED <<contractVars, flights, drill, step, ended, deaths>>

\* The oldest call of a key is mined.  A script that waits for it goes on, also
\* when it should have been refused; when it reverts, only if that was expected.
Mine(key) ==
    /\ flights[key] # <<>>
    /\ flights' = [flights EXCEPT ![key] = Tail(@)]
    /\ LET c       == Head(flights[key])
           awaited == waiting /\ call.by = key /\ Len(flights[key]) = 1
       IN  /\ IF Succeeds(c) THEN Applies(c) ELSE UNCHANGED contractVars
           /\ IF ~awaited THEN UNCHANGED scriptVars
              ELSE IF Succeeds(c) \/ c.refused THEN GoesOn ELSE Stops
    /\ UNCHANGED <<repeats, deaths>>

\* A network that stays away, or the person, ends the script.
Die ==
    /\ drill # "none" /\ deaths < MaxDeaths
    /\ Stops /\ deaths' = deaths + 1
    /\ UNCHANGED <<contractVars, flights, repeats>>

DrillsNext ==
    \/ \E name \in DOMAIN Drills : Run(name)
    \/ Call \/ Repeat \/ Die
    \/ \E key \in {deployer, user} : Mine(key)

\* Transactions are mined, a drill that is not interrupted goes on, and the
\* person repeats the rotation.
DrillsSpec ==
    /\ DrillsInit /\ [][DrillsNext]_drillsVars
    /\ WF_drillsVars(Call)
    /\ \A key \in {deployer, user} : WF_drillsVars(Mine(key))
    /\ SF_drillsVars(Run("rotation"))
-----------------------------------------------------------------------------
\* "Leaving the long-term contract with its original operator": a rotation that
\* comes to its end leaves the operator for good, with no call of an earlier,
\* interrupted run still to be mined that would give the role away again.
RotationRestores ==
    ended = "rotation" =>
        /\ operator = deployer
        /\ \A i \in DOMAIN flights[deployer] :
            flights[deployer][i].function = "setOperator"
                => flights[deployer][i].arg = deployer

\* However a rotation is interrupted, another one gives the role back, whatever
\* the other drills have done to the contract.
OperatorComesBack == operator = user ~> operator = deployer

\* The pause drill is "non-dirtying": left alone, it lifts the stop it raised.
\* (Not so where an answer is lost or the run is interrupted in between.)
TheStopIsLifted == [](repeats = 0 /\ deaths = 0) => (paused ~> ~paused)
=============================================================================
