-------------------------- MODULE DeploymentProofs --------------------------
(***************************************************************************)
(* Deployment for any number of contracts, transactions in flight,         *)
(* attempts and interruptions: the order in which a contract is configured.*)
(***************************************************************************)
EXTENDS Deployment, Integers, SequenceTheorems, TLAPS

Kinds == {"deploy"} \cup Configured
Flight == [kind : Kinds, on : Nat]
Runs == [script : {"deploy", "finish"}, on : Nat, step : Nat,
         doing : {"read", "wait", "poll", "reverted", "lost"}, tx : Nat,
         attempt : Nat, target : BOOLEAN]

TypeOK ==
    /\ contracts \in Seq(SUBSET (Configured \cup {"used"}))
    /\ flights \in Seq(Flight)
    /\ run \in Runs \cup {Idle}

\* What is sent to a contract is sent to one that is there.
FlightsLand ==
    \A n \in DOMAIN flights :
        flights[n].kind # "deploy" => flights[n].on \in DOMAIN contracts

\* A run waits for a transaction of its own.
WaitsForItsOwn ==
    run # Idle /\ run.tx > 0 =>
        /\ run.tx \in DOMAIN flights
        /\ run.doing \in {"wait", "poll"}
        /\ flights[run.tx].kind = IF run.step = 0 THEN "deploy" ELSE Steps[run.step]
        /\ run.step \in 0 .. 3
        /\ run.step >= 1 => flights[run.tx].on = run.on

\* A run past the deployment has a contract.
HasContract ==
    run # Idle =>
        /\ run.step >= 1 => run.on \in DOMAIN contracts
        /\ run.step = 0 => run.script = "deploy" /\ run.doing \in {"read", "wait", "lost"}
        /\ run.step = 0 /\ run.doing = "wait" /\ run.tx = 0 => run.on \in DOMAIN contracts

\* A run of mainnet-deploy.js has done the steps behind it, and the one it waits
\* for once that is mined.
StepsInOrder ==
    run # Idle /\ run.script = "deploy" =>
        \A n \in DOMAIN Steps :
            \/ n < run.step
            \/ n = run.step /\ run.doing = "wait" /\ run.tx = 0
            => Steps[n] \in contracts[run.on]

Inv == TypeOK /\ FlightsLand /\ WaitsForItsOwn /\ HasContract /\ StepsInOrder
-----------------------------------------------------------------------------
(* Queues of transactions *)

Without(q, n) == SubSeq(q, 1, n - 1) \o SubSeq(q, n + 1, Len(q))

\* Those behind the one that leaves move up.
LEMMA WithoutOne ==
    ASSUME NEW S, NEW q \in Seq(S), NEW n \in 1 .. Len(q)
    PROVE  /\ Without(q, n) \in Seq(S)
           /\ Len(Without(q, n)) = Len(q) - 1
           /\ \A i \in 1 .. Len(q) - 1 :
                Without(q, n)[i] = IF i < n THEN q[i] ELSE q[i + 1]
<1> DEFINE a == SubSeq(q, 1, n - 1)
           b == SubSeq(q, n + 1, Len(q))
<1>1. /\ n \in Nat /\ Len(q) \in Nat /\ n >= 1 /\ n <= Len(q)
  OBVIOUS
<1>2. /\ a \in Seq(S) /\ Len(a) = n - 1
      /\ \A i \in 1 .. n - 1 : a[i] = q[i]
  BY <1>1, SubSeqProperties
<1>3. /\ b \in Seq(S) /\ Len(b) = Len(q) - n
      /\ \A i \in 1 .. Len(q) - n : b[i] = q[i + n]
  <2>1. n + 1 \in 1 .. Len(q) + 1 /\ Len(q) \in n .. Len(q)
    BY <1>1
  <2>2. b \in Seq(S) /\ Len(b) = Len(q) - n
    BY <1>1, <2>1, SubSeqProperties
  <2>3. \A i \in 1 .. Len(q) - n : b[i] = q[(n + 1) + i - 1]
    BY <1>1, <2>1, SubSeqProperties
  <2>4. \A i \in 1 .. Len(q) - n : (n + 1) + i - 1 = i + n
    BY <1>1
  <2> QED  BY <2>2, <2>3, <2>4
<1>4. Without(q, n) = a \o b
  BY DEF Without
<1> HIDE DEF a, b
<1>5. a \o b \in Seq(S) /\ Len(a \o b) = Len(q) - 1
  BY <1>1, <1>2, <1>3
<1>6. \A i \in 1 .. Len(q) - 1 : (a \o b)[i] = IF i < n THEN q[i] ELSE q[i + 1]
  <2> SUFFICES ASSUME NEW i \in 1 .. Len(q) - 1
               PROVE  (a \o b)[i] = IF i < n THEN q[i] ELSE q[i + 1]
    OBVIOUS
  <2>1. CASE i < n
    <3>1. (a \o b)[i] = a[i]
      BY <1>1, <1>2, <1>3, <2>1, ConcatProperties
    <3> QED  BY <1>1, <1>2, <2>1, <3>1
  <2>2. CASE i >= n
    <3>1. (a \o b)[i] = b[i - (n - 1)]
      BY <1>1, <1>2, <1>3, <2>2, ConcatProperties
    <3>2. i - (n - 1) \in 1 .. Len(q) - n /\ (i - (n - 1)) + n = i + 1
      BY <1>1, <2>2
    <3>3. b[i - (n - 1)] = q[i + 1]
      BY <1>3, <3>2
    <3> QED  BY <1>1, <2>2, <3>1, <3>3
  <2>3. i < n \/ i >= n
    BY <1>1
  <2> QED  BY <2>1, <2>2, <2>3
<1> QED  BY <1>4, <1>5, <1>6
-----------------------------------------------------------------------------
(* Runs *)

Contracts == Seq(SUBSET (Configured \cup {"used"}))

\* The steps of a deployment and their order.
LEMMA StepNames ==
    /\ DOMAIN Steps = {1, 2, 3} /\ Len(Steps) = 3
    /\ Configured = {"earningsFreeze", "supportedToken", "operator"}
    /\ Steps[1] = "earningsFreeze" /\ Steps[2] = "supportedToken" /\ Steps[3] = "operator"
    /\ \A n \in DOMAIN Steps : Steps[n] \in Configured /\ Steps[n] # "deploy"
<1>1. DOMAIN Steps = {1, 2, 3} /\ Len(Steps) = 3
  BY DEF Steps
<1>2. Steps[1] = "earningsFreeze" /\ Steps[2] = "supportedToken" /\ Steps[3] = "operator"
  BY DEF Steps
<1>3. Configured = {"earningsFreeze", "supportedToken", "operator"}
  BY <1>1, <1>2 DEF Configured
<1> QED  BY <1>1, <1>2, <1>3

\* The fields of a run.
LEMMA RunType ==
    ASSUME TypeOK, run # Idle
    PROVE  /\ run \in Runs
           /\ run.script \in {"deploy", "finish"} /\ run.on \in Nat /\ run.step \in Nat
           /\ run.doing \in {"read", "wait", "poll", "reverted", "lost"}
           /\ run.tx \in Nat /\ run.attempt \in Nat /\ run.target \in BOOLEAN
<1>1. run \in Runs
  BY DEF TypeOK
<1> QED  BY <1>1 DEF Runs

\* A run is told apart from no run.
LEMMA RunsAreNotIdle == \A r \in Runs : r # Idle
BY DEF Runs, Idle

\* A transaction in flight.
LEMMA FlightType ==
    ASSUME TypeOK, NEW n \in DOMAIN flights
    PROVE  /\ flights[n] = [kind |-> flights[n].kind, on |-> flights[n].on]
           /\ flights[n].kind \in Kinds /\ flights[n].on \in Nat
<1>1. flights \in Seq(Flight)
  BY DEF TypeOK
<1>2. flights[n] \in Flight
  BY <1>1
<1> QED  BY <1>2 DEF Flight

\* A transaction leaves the queue, mined or lost, and the run learns of it.
LEMMA LeavingKeepsInv ==
    ASSUME Inv, NEW n \in 1 .. Len(flights),
           NEW fate \in {"wait", "reverted", "lost"}, NEW on \in Nat,
           run' = Learns(n, fate, on),
           flights' \in Seq(Flight),
           Len(flights') = Len(flights) - 1,
           \A i \in 1 .. Len(flights) - 1 :
                flights'[i] = IF i < n THEN flights[i] ELSE flights[i + 1],
           contracts' \in Contracts,
           DOMAIN contracts \subseteq DOMAIN contracts',
           \A i \in DOMAIN contracts : contracts[i] \subseteq contracts'[i],
           Waiting /\ run.tx = n =>
                /\ run.step >= 1 => on = run.on
                /\ run.step >= 1 /\ fate = "wait" => Steps[run.step] \in contracts'[on]
                /\ run.step = 0 => fate # "reverted"
                /\ run.step = 0 /\ fate = "wait" => on \in DOMAIN contracts'
    PROVE  Inv'
<1>1. TypeOK /\ FlightsLand /\ WaitsForItsOwn /\ HasContract /\ StepsInOrder
  BY DEF Inv
<1>2. /\ DOMAIN flights = 1 .. Len(flights) /\ DOMAIN flights' = 1 .. Len(flights) - 1
      /\ Len(flights) \in Nat /\ n \in Nat
  BY <1>1 DEF TypeOK
<1>3. FlightsLand'
  <2> SUFFICES ASSUME NEW i \in DOMAIN flights', flights'[i].kind # "deploy"
               PROVE  flights'[i].on \in DOMAIN contracts'
    BY DEF FlightsLand
  <2>1. PICK j \in DOMAIN flights : flights'[i] = flights[j]
    <3>1. i \in DOMAIN flights /\ i + 1 \in DOMAIN flights
      BY <1>2
    <3> QED  BY <1>2, <3>1
  <2> QED  BY <1>1, <2>1 DEF FlightsLand
<1>4. CASE ~Waiting \/ run.tx < n
  <2>1. run' = run
    BY <1>4 DEF Learns
  <2>2. TypeOK'
    BY <1>1, <2>1 DEF TypeOK, Contracts
  <2>3. WaitsForItsOwn'
    <3> SUFFICES ASSUME run # Idle, run.tx > 0
                 PROVE  /\ run.tx \in DOMAIN flights'
                        /\ flights'[run.tx] = flights[run.tx]
      BY <1>1, <2>1 DEF WaitsForItsOwn
    <3>1. run.tx \in Nat /\ run.tx < n
      BY <1>1, <1>4, RunType DEF Waiting
    <3>2. run.tx \in 1 .. Len(flights) - 1
      BY <1>2, <3>1
    <3>3. flights'[run.tx] = flights[run.tx]
      BY <3>1, <3>2
    <3> QED  BY <1>2, <3>2, <3>3
  <2>4. HasContract'
    BY <1>1, <2>1 DEF HasContract
  <2>5. StepsInOrder'
    <3> SUFFICES ASSUME run # Idle, run.script = "deploy", NEW k \in DOMAIN Steps,
                        \/ k < run.step
                        \/ k = run.step /\ run.doing = "wait" /\ run.tx = 0
                 PROVE  Steps[k] \in contracts'[run.on]
      BY <2>1 DEF StepsInOrder
    <3>1. Steps[k] \in contracts[run.on]
      BY <1>1 DEF StepsInOrder
    <3>2. run.step \in Nat /\ run.step >= 1
      BY <1>1, RunType, StepNames
    <3>3. run.on \in DOMAIN contracts
      BY <1>1, <3>2 DEF HasContract
    <3> QED  BY <3>1, <3>3
  <2> QED  BY <1>3, <2>2, <2>3, <2>4, <2>5 DEF Inv
<1>5. CASE Waiting /\ run.tx >= n
  <2>1. /\ run # Idle /\ run.tx > 0 /\ run \in Runs /\ run.tx \in Nat /\ run.step \in Nat
        /\ run.on \in Nat /\ run.attempt \in Nat /\ run.target \in BOOLEAN
        /\ run.script \in {"deploy", "finish"} /\ run.doing \in {"wait", "poll"}
        /\ run.tx \in DOMAIN flights
    BY <1>1, <1>5, RunType DEF Waiting, WaitsForItsOwn
  <2>2. CASE run.tx > n
    <3>1. run' = [run EXCEPT !.tx = @ - 1]
      BY <1>2, <1>5, <2>1, <2>2 DEF Learns
    <3>2. /\ run'.script = run.script /\ run'.on = run.on /\ run'.step = run.step
          /\ run'.doing = run.doing /\ run'.tx = run.tx - 1
          /\ run' \in Runs
      <4>1. run.tx - 1 \in Nat
        BY <1>2, <2>1, <2>2
      <4> QED  BY <2>1, <3>1, <4>1 DEF Runs
    <3>3. run' # Idle /\ run'.tx > 0
      BY <1>2, <2>1, <2>2, <3>2, RunsAreNotIdle
    <3>4. TypeOK'
      BY <3>2 DEF TypeOK, Contracts
    <3>5. WaitsForItsOwn'
      <4>1. run'.tx \in DOMAIN flights' /\ flights'[run'.tx] = flights[run.tx]
        BY <1>2, <2>1, <2>2, <3>2
      <4> QED  BY <1>1, <2>1, <3>2, <4>1 DEF WaitsForItsOwn
    <3>6. HasContract'
      BY <1>1, <2>1, <3>2, <3>3 DEF HasContract
    <3>7. StepsInOrder'
      BY <1>1, <2>1, <3>2, <3>3, <3>6, StepNames DEF HasContract, StepsInOrder
    <3> QED  BY <1>3, <3>4, <3>5, <3>6, <3>7 DEF Inv
  <2>3. CASE run.tx = n
    <3> DEFINE doing == IF run.doing = "poll" THEN "poll" ELSE fate
    <3>1. run' = [run EXCEPT !.tx = 0, !.on = on, !.doing = doing]
      BY <1>2, <1>5, <2>1, <2>3 DEF Learns
    <3>2. doing \in {"wait", "poll", "reverted", "lost"}
      OBVIOUS
    <3>3. doing = "wait" => fate = "wait"
      OBVIOUS
    <3>4. run.step = 0 => doing = fate
      BY <1>1, <2>1 DEF HasContract
    <3> HIDE DEF doing
    <3>5. /\ run'.script = run.script /\ run'.on = on /\ run'.step = run.step
          /\ run'.doing = doing /\ run'.tx = 0
          /\ run' \in Runs
      <4>1. doing \in {"read", "wait", "poll", "reverted", "lost"}
        BY <3>2
      <4>2. run \in Runs /\ on \in Nat
        BY <2>1
      <4>3. /\ run'.script = run.script /\ run'.on = on /\ run'.step = run.step
            /\ run'.doing = doing /\ run'.tx = 0
            /\ run'.attempt = run.attempt /\ run'.target = run.target
            /\ run' = [script |-> run.script, on |-> on, step |-> run.step,
                       doing |-> doing, tx |-> 0,
                       attempt |-> run.attempt, target |-> run.target]
        BY <2>1, <3>1 DEF Runs
      <4> QED  BY <2>1, <4>1, <4>3 DEF Runs
    <3>6. run' # Idle
      BY <3>5, RunsAreNotIdle
    <3>7. TypeOK'
      BY <3>5 DEF TypeOK, Contracts
    <3>8. WaitsForItsOwn'
      BY <3>5 DEF WaitsForItsOwn
    <3>9. HasContract'
      <4>1. run.step >= 1 => run.on \in DOMAIN contracts' /\ on = run.on
        BY <1>1, <1>5, <2>1, <2>3 DEF HasContract
      <4>2. run.step = 0 =>
                /\ run.script = "deploy" /\ doing \in {"read", "wait", "lost"}
                /\ doing = "wait" => on \in DOMAIN contracts'
        BY <1>1, <1>5, <2>1, <2>3, <3>3, <3>4 DEF HasContract
      <4> QED  BY <3>5, <4>1, <4>2 DEF HasContract
    <3>10. StepsInOrder'
      <4> SUFFICES ASSUME run.script = "deploy", NEW k \in DOMAIN Steps,
                          k < run.step \/ (k = run.step /\ doing = "wait")
                   PROVE  Steps[k] \in contracts'[on]
        BY <3>5 DEF StepsInOrder
      <4>1. k \in Nat /\ k >= 1 /\ run.step >= 1
        BY <2>1, StepNames
      <4>2. on = run.on /\ run.on \in DOMAIN contracts
        BY <1>1, <1>5, <2>1, <2>3, <4>1 DEF HasContract
      <4>3. CASE k < run.step
        BY <1>1, <2>1, <4>2, <4>3 DEF StepsInOrder
      <4>4. CASE k = run.step /\ doing = "wait"
        BY <1>5, <2>3, <3>3, <4>1, <4>4
      <4> QED  BY <4>3, <4>4
    <3> QED  BY <1>3, <3>7, <3>8, <3>9, <3>10 DEF Inv
  <2> QED  BY <1>2, <1>5, <2>1, <2>2, <2>3
<1>6. ~Waiting \/ run.tx < n \/ (Waiting /\ run.tx >= n)
  BY <1>1, <1>2, RunType DEF Waiting
<1> QED  BY <1>4, <1>5, <1>6

\* A script starts, ends, or goes on to a step.
LEMMA ReadingKeepsInv ==
    ASSUME Inv, contracts' = contracts, flights' = flights,
           \/ run' = Idle
           \/ /\ run' \in Runs /\ run'.tx = 0 /\ run'.doing = "read"
              /\ run'.step = 0 => run'.script = "deploy"
              /\ run'.step >= 1 => run'.on \in DOMAIN contracts
              /\ run'.script = "deploy" =>
                    \A k \in DOMAIN Steps : k < run'.step => Steps[k] \in contracts[run'.on]
    PROVE  Inv'
<1>1. TypeOK' /\ FlightsLand'
  BY DEF Inv, TypeOK, FlightsLand, Idle
<1>2. CASE run' = Idle
  BY <1>1, <1>2 DEF Inv, WaitsForItsOwn, HasContract, StepsInOrder
<1>3. CASE /\ run' \in Runs /\ run'.tx = 0 /\ run'.doing = "read"
           /\ run'.step = 0 => run'.script = "deploy"
           /\ run'.step >= 1 => run'.on \in DOMAIN contracts
           /\ run'.script = "deploy" =>
                    \A k \in DOMAIN Steps : k < run'.step => Steps[k] \in contracts[run'.on]
  <2>1. WaitsForItsOwn'
    BY <1>3 DEF WaitsForItsOwn
  <2>2. HasContract'
    BY <1>3 DEF HasContract
  <2>3. StepsInOrder'
    BY <1>3 DEF StepsInOrder
  <2> QED  BY <1>1, <2>1, <2>2, <2>3 DEF Inv
<1> QED  BY <1>2, <1>3

\* A script sends the transaction of its step.
LEMMA SendingKeepsInv ==
    ASSUME Inv, contracts' = contracts, run # Idle, run.step \in 0 .. 3,
           NEW kind, kind = IF run.step = 0 THEN "deploy" ELSE Steps[run.step],
           flights' = Append(flights, [kind |-> kind, on |-> run.on]),
           run' \in Runs, run'.script = run.script, run'.on = run.on,
           run'.step = run.step, run'.tx = Len(flights) + 1,
           run'.doing \in {"wait", "poll"}, run.step = 0 => run'.doing = "wait"
    PROVE  Inv'
<1>1. TypeOK /\ FlightsLand /\ HasContract /\ StepsInOrder
  BY DEF Inv
<1>2. run.on \in Nat /\ run.step \in Nat
  BY <1>1, RunType
<1>3. kind \in Kinds /\ (run.step >= 1 => kind # "deploy")
  BY <1>2, StepNames DEF Kinds
<1> DEFINE t == [kind |-> kind, on |-> run.on]
<1>4. t \in Flight /\ t.kind = kind /\ t.on = run.on
  BY <1>2, <1>3 DEF Flight
<1>5. flights' = Append(flights, t)
  OBVIOUS
<1> HIDE DEF t
<1>6. /\ flights \in Seq(Flight) /\ Len(flights) \in Nat
      /\ DOMAIN flights = 1 .. Len(flights)
  BY <1>1 DEF TypeOK
<1>7. /\ flights' \in Seq(Flight)
      /\ Len(flights') = Len(flights) + 1 /\ DOMAIN flights' = 1 .. Len(flights) + 1
      /\ \A i \in 1 .. Len(flights) : flights'[i] = flights[i]
      /\ flights'[Len(flights) + 1] = t
  BY <1>4, <1>5, <1>6, AppendProperties
<1>8. TypeOK'
  BY <1>1, <1>7 DEF TypeOK
<1>9. FlightsLand'
  <2> SUFFICES ASSUME NEW i \in DOMAIN flights', flights'[i].kind # "deploy"
               PROVE  flights'[i].on \in DOMAIN contracts
    BY DEF FlightsLand
  <2>1. CASE i \in 1 .. Len(flights)
    BY <1>1, <1>6, <1>7, <2>1 DEF FlightsLand
  <2>2. CASE i = Len(flights) + 1
    BY <1>1, <1>2, <1>4, <1>7, <2>2 DEF HasContract
  <2> QED  BY <1>6, <1>7, <2>1, <2>2
<1>10. WaitsForItsOwn'
  BY <1>4, <1>6, <1>7 DEF WaitsForItsOwn
<1>11. run'.tx > 0 /\ run'.tx # 0
  BY <1>6
<1>12. HasContract'
  BY <1>1, <1>2, <1>11 DEF HasContract
<1>13. StepsInOrder'
  BY <1>1, <1>2, <1>11, StepNames DEF StepsInOrder
<1> QED  BY <1>8, <1>9, <1>10, <1>12, <1>13 DEF Inv
-----------------------------------------------------------------------------
(* The steps *)

\* The invariant holds at first.
LEMMA InitInv == Init => Inv
<1> SUFFICES ASSUME Init PROVE Inv
  OBVIOUS
<1>1. contracts = << >> /\ flights = << >> /\ run = Idle
  BY DEF Init
<1>2. TypeOK /\ FlightsLand
  BY <1>1 DEF TypeOK, FlightsLand
<1> QED  BY <1>1, <1>2 DEF Inv, WaitsForItsOwn, HasContract, StepsInOrder

\* A transaction that is mined or reverted keeps the invariant.
LEMMA MineKeepsInv == Inv /\ Mine => Inv'
<1> SUFFICES ASSUME Inv, Mine PROVE Inv'
  OBVIOUS
<1>1. TypeOK /\ FlightsLand /\ WaitsForItsOwn /\ HasContract
  BY DEF Inv
<1> DEFINE t == flights[1]
           fate == IF t.kind # "deploy" /\ Reverts(t) THEN "reverted" ELSE "wait"
           on == IF t.kind = "deploy" THEN Len(contracts') ELSE t.on
<1>2. /\ flights \in Seq(Flight) /\ flights # << >>
      /\ Len(flights) \in Nat /\ 1 \in 1 .. Len(flights) /\ DOMAIN flights = 1 .. Len(flights)
  BY <1>1 DEF TypeOK, Mine
<1>3. /\ flights' = Tail(flights) /\ Head(flights) = t
      /\ contracts' = IF t.kind = "deploy" THEN Append(contracts, {})
                      ELSE [contracts EXCEPT ![t.on] = @ \cup {t.kind}]
      /\ run' = Learns(1, fate, on)
  BY <1>2 DEF Mine
<1>4. t.kind \in Kinds /\ t.on \in Nat
  BY <1>1, <1>2, FlightType
<1>5. /\ flights' \in Seq(Flight) /\ Len(flights') = Len(flights) - 1
      /\ \A i \in 1 .. Len(flights) - 1 :
            flights'[i] = IF i < 1 THEN flights[i] ELSE flights[i + 1]
  BY <1>2, <1>3, HeadTailProperties
<1>6. contracts \in Contracts /\ Len(contracts) \in Nat /\ DOMAIN contracts = 1 .. Len(contracts)
  BY <1>1 DEF TypeOK, Contracts
<1>7. /\ contracts' \in Contracts /\ DOMAIN contracts \subseteq DOMAIN contracts'
      /\ \A i \in DOMAIN contracts : contracts[i] \subseteq contracts'[i]
      /\ t.kind = "deploy" => Len(contracts') \in DOMAIN contracts'
      /\ t.kind # "deploy" => t.kind \in contracts'[t.on]
      /\ Len(contracts') \in Nat
  <2>1. CASE t.kind = "deploy"
    <3>1. contracts' = Append(contracts, {})
      BY <1>3, <2>1
    <3>2. {} \in SUBSET (Configured \cup {"used"})
      OBVIOUS
    <3>3. /\ contracts' \in Contracts /\ Len(contracts') = Len(contracts) + 1
          /\ \A i \in 1 .. Len(contracts) : contracts'[i] = contracts[i]
      BY <1>6, <3>1, <3>2, AppendProperties DEF Contracts
    <3>4. DOMAIN contracts' = 1 .. Len(contracts) + 1
      BY <3>3 DEF Contracts
    <3> QED  BY <1>6, <2>1, <3>3, <3>4
  <2>2. CASE t.kind # "deploy"
    <3>1. contracts' = [contracts EXCEPT ![t.on] = @ \cup {t.kind}]
      BY <1>3, <2>2
    <3>2. t.on \in 1 .. Len(contracts)
      BY <1>1, <1>2, <1>6, <2>2 DEF FlightsLand
    <3>3. contracts[t.on] \cup {t.kind} \in SUBSET (Configured \cup {"used"})
      <4>1. contracts[t.on] \in SUBSET (Configured \cup {"used"})
        BY <1>6, <3>2 DEF Contracts
      <4>2. t.kind \in Configured
        BY <1>4, <2>2 DEF Kinds
      <4> QED  BY <4>1, <4>2
    <3>4. contracts' = [contracts EXCEPT ![t.on] = contracts[t.on] \cup {t.kind}]
      BY <3>1
    <3>5. /\ contracts' \in Contracts /\ Len(contracts') = Len(contracts)
          /\ \A i \in 1 .. Len(contracts) :
                contracts'[i] = IF i = t.on THEN contracts[t.on] \cup {t.kind}
                                ELSE contracts[i]
      BY <1>6, <3>2, <3>3, <3>4, ExceptSeq DEF Contracts
    <3>6. DOMAIN contracts' = 1 .. Len(contracts)
      BY <3>5 DEF Contracts
    <3> QED  BY <1>6, <2>2, <3>2, <3>5, <3>6
  <2> QED  BY <2>1, <2>2
<1>8. fate \in {"wait", "reverted", "lost"} /\ on \in Nat
  BY <1>4, <1>7
<1>9. ASSUME Waiting, run.tx = 1
      PROVE  /\ run.step >= 1 => on = run.on
             /\ run.step >= 1 /\ fate = "wait" => Steps[run.step] \in contracts'[on]
             /\ run.step = 0 => fate # "reverted"
             /\ run.step = 0 /\ fate = "wait" => on \in DOMAIN contracts'
  <2>1. /\ run.step \in 0 .. 3 /\ t.kind = IF run.step = 0 THEN "deploy" ELSE Steps[run.step]
        /\ run.step >= 1 => t.on = run.on
    BY <1>1, <1>9 DEF WaitsForItsOwn, Waiting
  <2>2. CASE run.step = 0
    BY <1>7, <2>1, <2>2
  <2>3. CASE run.step >= 1
    <3>1. t.kind = Steps[run.step] /\ t.kind # "deploy" /\ t.on = run.on
      BY <2>1, <2>3, StepNames
    <3> QED  BY <1>7, <2>3, <3>1
  <2> QED  BY <2>1, <2>2, <2>3
<1> HIDE DEF t, fate, on
<1> QED  BY <1>2, <1>3, <1>5, <1>7, <1>8, <1>9, LeavingKeepsInv

\* A transaction that is dropped keeps it.
LEMMA LoseKeepsInv == Inv /\ Lose => Inv'
<1> SUFFICES ASSUME Inv, Lose PROVE Inv'
  OBVIOUS
<1>1. TypeOK /\ HasContract
  BY DEF Inv
<1>2. contracts' = contracts
  BY DEF Lose
<1> DEFINE on == IF Waiting THEN run.on ELSE 0
<1>3. PICK n \in DOMAIN flights :
        /\ flights' = SubSeq(flights, 1, n - 1) \o SubSeq(flights, n + 1, Len(flights))
        /\ run' = Learns(n, "lost", on)
  BY DEF Lose
<1>4. flights \in Seq(Flight) /\ n \in 1 .. Len(flights)
  BY <1>1 DEF TypeOK
<1>5. /\ flights' \in Seq(Flight) /\ Len(flights') = Len(flights) - 1
      /\ \A i \in 1 .. Len(flights) - 1 :
            flights'[i] = IF i < n THEN flights[i] ELSE flights[i + 1]
  <2>1. flights' = Without(flights, n)
    BY <1>3 DEF Without
  <2> QED  BY <1>4, <2>1, WithoutOne
<1>6. on \in Nat
  BY <1>1, RunType DEF Waiting
<1>7. /\ contracts' \in Contracts /\ DOMAIN contracts \subseteq DOMAIN contracts'
      /\ \A i \in DOMAIN contracts : contracts[i] \subseteq contracts'[i]
  BY <1>1, <1>2 DEF TypeOK, Contracts
<1>8. Waiting => on = run.on
  OBVIOUS
<1> DEFINE fate == "lost"
<1>9. fate \in {"wait", "reverted", "lost"} /\ fate # "wait" /\ fate # "reverted"
  OBVIOUS
<1>10. run' = Learns(n, fate, on)
  BY <1>3
<1> HIDE DEF on, fate
<1> QED  BY <1>4, <1>5, <1>6, <1>7, <1>8, <1>9, <1>10, LeavingKeepsInv

\* Using a contract keeps it.
LEMMA UseKeepsInv == Inv /\ Use => Inv'
<1> SUFFICES ASSUME Inv, Use PROVE Inv'
  OBVIOUS
<1>1. TypeOK /\ FlightsLand /\ WaitsForItsOwn /\ HasContract /\ StepsInOrder
  BY DEF Inv
<1>2. PICK j \in DOMAIN contracts :
        contracts' = [contracts EXCEPT ![j] = contracts[j] \cup {"used"}]
  BY DEF Use
<1>3. flights' = flights /\ run' = run
  BY DEF Use
<1>4. contracts \in Contracts /\ j \in 1 .. Len(contracts)
  BY <1>1 DEF TypeOK, Contracts
<1>5. contracts[j] \cup {"used"} \in SUBSET (Configured \cup {"used"})
  <2>1. contracts[j] \in SUBSET (Configured \cup {"used"})
    BY <1>4 DEF Contracts
  <2> QED  BY <2>1
<1>6. /\ contracts' \in Contracts /\ Len(contracts') = Len(contracts)
      /\ \A i \in 1 .. Len(contracts) :
            contracts'[i] = IF i = j THEN contracts[j] \cup {"used"} ELSE contracts[i]
  BY <1>2, <1>4, <1>5, ExceptSeq DEF Contracts
<1>7. /\ DOMAIN contracts' = DOMAIN contracts
      /\ \A i \in DOMAIN contracts : contracts[i] \subseteq contracts'[i]
  BY <1>4, <1>6 DEF Contracts
<1>8. TypeOK' /\ FlightsLand' /\ WaitsForItsOwn' /\ HasContract'
  BY <1>1, <1>3, <1>6, <1>7
     DEF TypeOK, Contracts, FlightsLand, WaitsForItsOwn, HasContract
<1>9. StepsInOrder'
  <2> SUFFICES ASSUME run # Idle, run.script = "deploy", NEW k \in DOMAIN Steps,
                      \/ k < run.step
                      \/ k = run.step /\ run.doing = "wait" /\ run.tx = 0
               PROVE  Steps[k] \in contracts'[run.on]
    BY <1>3 DEF StepsInOrder
  <2>1. Steps[k] \in contracts[run.on]
    BY <1>1 DEF StepsInOrder
  <2>2. run.on \in DOMAIN contracts
    <3>1. run.step \in Nat /\ k \in Nat /\ k >= 1
      BY <1>1, RunType, StepNames
    <3> QED  BY <1>1, <3>1 DEF HasContract
  <2> QED  BY <1>7, <2>1, <2>2
<1> QED  BY <1>8, <1>9 DEF Inv

\* A script that goes on to a step.
LEMMA GoingOn ==
    ASSUME TypeOK, run # Idle, NEW step \in Nat, run' = At(step)
    PROVE  /\ run' \in Runs /\ run'.tx = 0 /\ run'.doing = "read"
           /\ run'.step = step /\ run'.on = run.on /\ run'.script = run.script
<1>1. /\ run \in Runs /\ run.script \in {"deploy", "finish"} /\ run.on \in Nat
      /\ run.attempt \in Nat /\ run.target \in BOOLEAN
  BY RunType
<1> QED  BY <1>1 DEF At, Runs

\* A script that starts keeps it.
LEMMA StartKeepsInv == Inv /\ (StartDeploy \/ Resume \/ StartFinish) => Inv'
<1> SUFFICES ASSUME Inv, StartDeploy \/ Resume \/ StartFinish PROVE Inv'
  OBVIOUS
<1>1. contracts' = contracts /\ flights' = flights
  BY DEF StartDeploy, Resume, StartFinish
<1>2. \A i \in DOMAIN contracts : i \in Nat
  BY DEF Inv, TypeOK
<1>3. CASE StartDeploy
  <2>1. run' = Started("deploy", 0, 0, TRUE)
    BY <1>3 DEF StartDeploy
  <2>2. /\ run' \in Runs /\ run'.tx = 0 /\ run'.doing = "read" /\ run'.step = 0
        /\ run'.script = "deploy"
    BY <2>1 DEF Started, Runs
  <2> QED  BY <1>1, <2>2, StepNames, ReadingKeepsInv
<1>4. CASE Resume
  <2>1. PICK i \in DOMAIN contracts : run' = Started("deploy", i, 1, TRUE)
    BY <1>4 DEF Resume
  <2>2. /\ run' \in Runs /\ run'.tx = 0 /\ run'.doing = "read" /\ run'.step = 1
        /\ run'.script = "deploy" /\ run'.on = i
    BY <1>2, <2>1 DEF Started, Runs
  <2>3. \A k \in DOMAIN Steps : ~ (k < run'.step)
    BY <2>2, StepNames
  <2> QED  BY <1>1, <2>2, <2>3, ReadingKeepsInv
<1>5. CASE StartFinish
  <2>1. PICK i \in DOMAIN contracts, target \in Targets :
            run' = Started("finish", i, IF target THEN 3 ELSE 4, target)
    BY <1>5 DEF StartFinish
  <2>2. target \in BOOLEAN
    BY DeploymentAssumption
  <2>3. /\ run' \in Runs /\ run'.tx = 0 /\ run'.doing = "read" /\ run'.step \in {3, 4}
        /\ run'.script = "finish" /\ run'.on = i
    BY <1>2, <2>1, <2>2 DEF Started, Runs
  <2> QED  BY <1>1, <2>3, ReadingKeepsInv
<1> QED  BY <1>3, <1>4, <1>5

\* A step of mainnet-deploy.js keeps it.
LEMMA DeployKeepsInv == Inv /\ DeployScript => Inv'
<1> SUFFICES ASSUME Inv, DeployScript PROVE Inv'
  OBVIOUS
<1>1. TypeOK /\ HasContract /\ StepsInOrder
  BY DEF Inv
<1>2. /\ contracts' = contracts /\ run # Idle /\ run.script = "deploy"
  BY DEF DeployScript, Deploy, DeployDone, DeployStep, SurfaceCheck
<1>3. /\ run \in Runs /\ run.on \in Nat /\ run.step \in Nat /\ run.tx \in Nat
      /\ run.attempt \in Nat /\ run.target \in BOOLEAN
  BY <1>1, <1>2, RunType
<1>4. Len(flights) \in Nat
  BY <1>1 DEF TypeOK
<1>5. ASSUME NEW kind, NEW doing \in {"wait", "poll"}, Send(kind, doing)
      PROVE  /\ flights' = Append(flights, [kind |-> kind, on |-> run.on])
             /\ run' \in Runs /\ run'.script = run.script /\ run'.on = run.on
             /\ run'.step = run.step /\ run'.tx = Len(flights) + 1 /\ run'.doing = doing
  <2>1. /\ flights' = Append(flights, [kind |-> kind, on |-> run.on])
        /\ run' = [run EXCEPT !.doing = doing, !.tx = Len(flights) + 1]
    BY <1>5 DEF Send
  <2>2. Len(flights) + 1 \in Nat
    BY <1>4
  <2> QED  BY <1>3, <2>1, <2>2 DEF Runs
<1>6. CASE Deploy
  <2>1. run.step = 0 /\ Send("deploy", "wait")
    BY <1>6 DEF Deploy
  <2> DEFINE kind == "deploy"
             doing == "wait"
  <2>2. kind = IF run.step = 0 THEN "deploy" ELSE Steps[run.step]
    BY <2>1
  <2>3. Send(kind, doing) /\ doing \in {"wait", "poll"}
    BY <2>1
  <2>4. /\ flights' = Append(flights, [kind |-> kind, on |-> run.on])
        /\ run' \in Runs /\ run'.script = run.script /\ run'.on = run.on
        /\ run'.step = run.step /\ run'.tx = Len(flights) + 1 /\ run'.doing = doing
    BY <1>5, <2>3
  <2>5. doing = "wait" /\ run.step \in 0 .. 3
    BY <2>1
  <2> HIDE DEF kind, doing
  <2> QED  BY <1>2, <2>2, <2>3, <2>4, <2>5, SendingKeepsInv
<1>7. CASE DeployDone
  <2>1. /\ run.step = 0 /\ run.doing = "wait" /\ run.tx = 0 /\ run' = At(1)
        /\ flights' = flights
    BY <1>7 DEF DeployDone
  <2>2. run.on \in DOMAIN contracts
    BY <1>1, <1>2, <2>1 DEF HasContract
  <2>3. /\ run' \in Runs /\ run'.tx = 0 /\ run'.doing = "read" /\ run'.step = 1
        /\ run'.on = run.on
    BY <1>1, <1>2, <2>1, GoingOn
  <2>4. \A k \in DOMAIN Steps : ~ (k < run'.step)
    BY <2>3, StepNames
  <2> QED  BY <1>2, <2>1, <2>2, <2>3, <2>4, ReadingKeepsInv
<1>8. CASE DeployStep
  <2>1. run.step \in {1, 2, 3} /\ run.on \in DOMAIN contracts
    BY <1>1, <1>2, <1>8, StepNames DEF DeployStep, HasContract
  <2>2. ASSUME Steps[run.step] \in contracts[run.on], run' = At(run.step + 1),
               flights' = flights
        PROVE  Inv'
    <3>1. /\ run' \in Runs /\ run'.tx = 0 /\ run'.doing = "read"
          /\ run'.step = run.step + 1 /\ run'.on = run.on
      <4>1. run.step + 1 \in Nat
        BY <1>3
      <4> QED  BY <1>1, <1>2, <2>2, <4>1, GoingOn
    <3>2. ASSUME NEW k \in DOMAIN Steps, k < run'.step
          PROVE  Steps[k] \in contracts[run'.on]
      <4>1. k < run.step \/ k = run.step
        BY <1>3, <3>1, <3>2, StepNames
      <4>2. CASE k < run.step
        BY <1>1, <1>2, <3>1, <4>2 DEF StepsInOrder
      <4>3. CASE k = run.step
        BY <2>2, <3>1, <4>3
      <4> QED  BY <4>1, <4>2, <4>3
    <3>3. run'.step # 0
      BY <1>3, <3>1
    <3> QED  BY <1>2, <2>1, <2>2, <3>1, <3>2, <3>3, ReadingKeepsInv
  <2>3. CASE run.doing = "read" /\ Done /\ run' = At(run.step + 1) /\ flights' = flights
    BY <2>2, <2>3 DEF Done
  <2>4. CASE Landed /\ run' = At(run.step + 1) /\ flights' = flights
    <3>1. Steps[run.step] \in contracts[run.on]
      BY <1>1, <1>2, <2>1, <2>4, StepNames DEF Landed, StepsInOrder
    <3> QED  BY <2>2, <2>4, <3>1
  <2>5. CASE \E doing \in {"wait", "poll"} : Send(Steps[run.step], doing)
    <3>1. PICK doing \in {"wait", "poll"} : Send(Steps[run.step], doing)
      BY <2>5
    <3>2. run.step \in 0 .. 3 /\ run.step # 0
      BY <2>1
    <3> QED  BY <1>2, <1>5, <3>1, <3>2, SendingKeepsInv
  <2> QED  BY <1>8, <2>3, <2>4, <2>5 DEF DeployStep
<1>9. CASE SurfaceCheck
  <2>1. flights' = flights /\ run' = Idle
    BY <1>9 DEF SurfaceCheck
  <2> QED  BY <1>2, <2>1, ReadingKeepsInv
<1> QED  BY <1>6, <1>7, <1>8, <1>9 DEF DeployScript

\* A step of mainnet-finish.js keeps it.
LEMMA FinishKeepsInv == Inv /\ FinishScript => Inv'
<1> SUFFICES ASSUME Inv, FinishScript PROVE Inv'
  OBVIOUS
<1>1. TypeOK /\ HasContract
  BY DEF Inv
<1>2. contracts' = contracts /\ run # Idle /\ run.script = "finish"
  BY DEF FinishScript, Attempt, Confirmed, Retry, FinishRecord
<1>3. /\ run \in Runs /\ run.on \in Nat /\ run.step \in Nat /\ run.tx \in Nat
      /\ run.attempt \in Nat /\ run.target \in BOOLEAN
  BY <1>1, <1>2, RunType
<1>4. ASSUME NEW step \in {3, 4}, run.step = 3, run' = At(step), flights' = flights
      PROVE  Inv'
  <2>1. run.on \in DOMAIN contracts
    BY <1>1, <1>2, <1>4 DEF HasContract
  <2>2. /\ run' \in Runs /\ run'.tx = 0 /\ run'.doing = "read"
        /\ run'.step = step /\ run'.on = run.on /\ run'.script = "finish"
    BY <1>1, <1>2, <1>4, GoingOn
  <2> QED  BY <1>2, <1>4, <2>1, <2>2, ReadingKeepsInv
<1>5. CASE Attempt
  <2>1. run.step = 3
    BY <1>5 DEF Attempt
  <2>2. CASE "operator" \in contracts[run.on]
    <3>1. run' = At(4) /\ flights' = flights
      BY <1>5, <2>2 DEF Attempt
    <3> QED  BY <1>4, <2>1, <3>1
  <2>3. CASE "operator" \notin contracts[run.on]
    <3>1. /\ flights' = Append(flights, [kind |-> "operator", on |-> run.on])
          /\ run' = [run EXCEPT !.doing = "wait", !.tx = Len(flights) + 1,
                                !.attempt = @ + 1]
      BY <1>5, <2>3 DEF Attempt
    <3>2. Len(flights) + 1 \in Nat /\ run.attempt + 1 \in Nat
      BY <1>1, <1>3 DEF TypeOK
    <3>3. /\ run' \in Runs /\ run'.script = run.script /\ run'.on = run.on
          /\ run'.step = run.step /\ run'.tx = Len(flights) + 1 /\ run'.doing = "wait"
      BY <1>3, <3>1, <3>2 DEF Runs
    <3>4. run.step \in 0 .. 3 /\ run.step # 0 /\ Steps[run.step] = "operator"
      BY <2>1, StepNames
    <3> QED  BY <1>2, <3>1, <3>3, <3>4, SendingKeepsInv
  <2> QED  BY <2>2, <2>3
<1>6. CASE Confirmed \/ Retry
  <2>1. run.step = 3 /\ (run' = At(4) \/ run' = At(3)) /\ flights' = flights
    BY <1>6 DEF Confirmed, Retry
  <2> QED  BY <1>4, <2>1
<1>7. CASE FinishRecord
  <2>1. flights' = flights /\ run' = Idle
    BY <1>7 DEF FinishRecord
  <2> QED  BY <1>2, <2>1, ReadingKeepsInv
<1> QED  BY <1>5, <1>6, <1>7 DEF FinishScript

\* Every step keeps it.
LEMMA NextInv == Inv /\ [Next]_vars => Inv'
<1> SUFFICES ASSUME Inv, [Next]_vars PROVE Inv'
  OBVIOUS
<1>1. CASE GiveUp \/ Die
  <2>1. contracts' = contracts /\ flights' = flights /\ run' = Idle
    BY <1>1 DEF GiveUp, Die
  <2> QED  BY <2>1, ReadingKeepsInv
<1>2. CASE UNCHANGED vars
  <2>1. contracts' = contracts /\ flights' = flights /\ run' = run
    BY <1>2 DEF vars
  <2> QED  BY <2>1
           DEF Inv, TypeOK, FlightsLand, WaitsForItsOwn, HasContract, StepsInOrder
<1> QED
  BY <1>1, <1>2, MineKeepsInv, LoseKeepsInv, UseKeepsInv, StartKeepsInv,
     DeployKeepsInv, FinishKeepsInv DEF Next

\* However often the two scripts are run, resumed, interrupted and repeated, with
\* any number of contracts and of transactions lost, late or sent twice:
\* mainnet-deploy.js sends setOperator only to a contract that freezes earnings
\* and accepts its token.
THEOREM OperatorIsLast == Spec => OperatorComesLast
<1>1. ASSUME Inv, Next, run # Idle, run.script = "deploy",
             flights' = Append(flights, [kind |-> "operator", on |-> run.on])
      PROVE  {"earningsFreeze", "supportedToken"} \subseteq contracts[run.on]
  <2>1. /\ TypeOK /\ StepsInOrder /\ HasContract
        /\ flights \in Seq(Flight) /\ Len(flights) \in Nat
        /\ run.on \in Nat
    BY <1>1, RunType DEF Inv, TypeOK
  <2>2. /\ Len(flights') = Len(flights) + 1
        /\ flights'[Len(flights) + 1] = [kind |-> "operator", on |-> run.on]
    <3> DEFINE t == [kind |-> "operator", on |-> run.on]
    <3>1. t \in Flight
      BY <2>1, StepNames DEF Kinds, Flight
    <3>2. flights' = Append(flights, t)
      BY <1>1
    <3> HIDE DEF t
    <3>3. Len(flights') = Len(flights) + 1 /\ flights'[Len(flights) + 1] = t
      BY <2>1, <3>1, <3>2, AppendProperties
    <3> QED  BY <3>3 DEF t
  <2>3. flights' # flights
    BY <2>1, <2>2
  <2>4. ~ Mine
    <3>1. SUFFICES ASSUME Mine PROVE FALSE
      OBVIOUS
    <3>2. flights # << >> /\ flights' = Tail(flights)
      BY <3>1 DEF Mine
    <3>3. Len(flights') = Len(flights) - 1
      BY <2>1, <3>2, HeadTailProperties
    <3> QED  BY <2>1, <2>2, <3>3
  <2>5. ~ Lose
    <3>1. SUFFICES ASSUME Lose PROVE FALSE
      OBVIOUS
    <3>2. DOMAIN flights = 1 .. Len(flights)
      BY <2>1
    <3>3. PICK n \in 1 .. Len(flights) : flights' = Without(flights, n)
      BY <3>1, <3>2 DEF Lose, Without
    <3>4. Len(flights') = Len(flights) - 1
      BY <2>1, <3>3, WithoutOne
    <3> QED  BY <2>1, <2>2, <3>4
  <2>6. Deploy \/ DeployStep
    BY <1>1, <2>3, <2>4, <2>5
       DEF Next, Use, StartDeploy, Resume, DeployScript, DeployDone, SurfaceCheck,
           StartFinish, FinishScript, Attempt, Confirmed, Retry, FinishRecord,
           GiveUp, Die
  <2>7. PICK kind, doing :
            /\ Send(kind, doing)
            /\ kind = IF run.step = 0 THEN "deploy" ELSE Steps[run.step]
    BY <1>1, <2>3, <2>6, StepNames DEF Deploy, DeployStep
  <2>8. (Deploy /\ run.step = 0) \/ (DeployStep /\ run.step \in {1, 2, 3})
    BY <2>6, StepNames DEF Deploy, DeployStep
  <2>9. kind \in Kinds
    BY <2>7, <2>8, StepNames DEF Kinds
  <2>10. kind = "operator"
    <3> DEFINE t == [kind |-> kind, on |-> run.on]
    <3>1. t \in Flight
      BY <2>1, <2>9 DEF Flight
    <3>2. flights' = Append(flights, t)
      BY <2>7 DEF Send
    <3> HIDE DEF t
    <3>3. flights'[Len(flights) + 1] = t
      BY <2>1, <3>1, <3>2, AppendProperties
    <3> QED  BY <2>2, <3>3 DEF t
  <2>11. run.step = 3
    BY <2>7, <2>8, <2>10, StepNames
  <2> QED  BY <1>1, <2>1, <2>11, StepNames DEF StepsInOrder
<1>2. Inv /\ [Next]_vars =>
        [/\ run # Idle /\ run.script = "deploy"
         /\ flights' = Append(flights, [kind |-> "operator", on |-> run.on])
         => {"earningsFreeze", "supportedToken"} \subseteq contracts[run.on]]_vars
  BY <1>1
<1> QED  BY <1>2, InitInv, NextInv, PTL DEF Spec, OperatorComesLast
=============================================================================
