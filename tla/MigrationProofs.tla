--------------------------- MODULE MigrationProofs ---------------------------
(***************************************************************************)
(* Migration for any amounts, false zeros, interruptions and transactions  *)
(* in flight: a deposit is told apart from earlier ones and from money     *)
(* that another contract kept, and a run of exit that ends well leaves     *)
(* behind only what came late.                                             *)
(***************************************************************************)
EXTENDS Migration, LockupQueueTheorems, SequenceTheorems

Flight ==
    [kind : Kinds, of : Int] \cup [kind : {"deposit"}, of : Nat, on : {"old", "new", "other"}]
Requests == [amount : Nat, due : BOOLEAN, claimed : BOOLEAN]
Deposit == [pc : {"send", "wait", "read after", "credited"},
            on : {"old", "new", "other"}, before : Int]
Waits == {"wait withdraw", "wait request", "wait claim"}

TypeOK ==
    /\ balance \in Int /\ wallet \in Int /\ credited \in Int
    /\ earnings \in Nat /\ runs \in Nat /\ late \in Nat /\ lies \in Nat
    /\ requests \in Seq(Requests)
    /\ flights \in Seq(Flight)
    /\ s \in [bal : Int, earn : Nat, locked : Nat]
    /\ d \in Deposit \cup {Idle}

\* A run has one deposit in flight at most, none before it sends it and none
\* after it was mined.
OneDepositARun ==
    /\ \A i \in DOMAIN flights : flights[i].kind = "deposit" => flights[i].of <= runs
    /\ d.pc \in {"send", "read after", "credited"} =>
        \A i \in DOMAIN flights : flights[i].kind = "deposit" => flights[i].of # runs
    /\ d.pc = "wait" =>
        \A i, j \in DOMAIN flights :
            /\ flights[i].kind = "deposit" /\ flights[i].of = runs
            /\ flights[j].kind = "deposit" /\ flights[j].of = runs
            => i = j

\* Another contract shows no balance, and no credit is said of it.
OthersShowNothing ==
    d.pc # "idle" /\ d.on = "other" => d.before = 0 /\ d.pc # "credited"

\* The balance outside of refund requests.
Left == balance - locked

\* What a run of exit waits for is the last that runs of exit have in flight, and
\* a refund it waits for takes all that is left but what came late.
AwaitsItsOwn ==
    pc \in Waits =>
        \E i \in DOMAIN flights :
            /\ flights[i].kind = CASE pc = "wait withdraw" -> "withdraw"
                                   [] pc = "wait request" -> "request"
                                   [] OTHER -> "claim"
            /\ \A j \in DOMAIN flights : j > i => flights[j].kind \notin Kinds
            /\ pc = "wait request" => Left <= flights[i].of + late

Reading == {"read bal", "read earn", "read locked"}
Deciding == {"confirm earn", "confirm free", "withdraw", "wait withdraw", "request"}

\* A run that says how it ended has ended.
SaysAtTheEnd ==
    pc \in Reading \cup Deciding \cup {"wait request", "requested"} => said = ""

\* What is not read yet is zero.
ReadsInOrder ==
    /\ pc \in Reading => s.locked = 0
    /\ pc \in {"read bal", "read earn"} => s.earn = 0
    /\ pc = "read bal" => s.bal = 0

\* A run that believes that there are no earnings is right, and they do not come
\* back.
EarningsGoFirst ==
    /\ pc \in {"request", "wait request", "requested"} => earnings = 0
    /\ pc \in {"confirm free", "withdraw"} /\ s.earn = 0 => earnings = 0
    /\ said # "" => earnings = 0

\* What is left is what the run found free and what came after it had read the
\* balance; unless it believed a false zero for the balance, which it goes on with
\* only beside a lock it has seen.
LateExplains ==
    /\ pc \in {"read earn", "read locked"} =>
        balance <= s.bal + late \/ (lies > 0 /\ s.bal = 0)
    /\ pc \in {"confirm earn", "confirm free"} =>
        Left <= free + late \/ (lies > 0 /\ s.bal = 0)
    /\ pc \in {"withdraw", "wait withdraw", "request"} =>
        Left <= free + late \/ (lies > 0 /\ s.bal = 0 /\ s.locked > 0)
    /\ pc = "requested" => Left <= late
    /\ said # "" => Left <= late \/ (said = "locked" /\ lies > 0)

Inv ==
    /\ TypeOK /\ OneDepositARun /\ OthersShowNothing /\ AwaitsItsOwn
    /\ SaysAtTheEnd /\ ReadsInOrder /\ EarningsGoFirst /\ LateExplains
-----------------------------------------------------------------------------
(* What is locked *)

\* The ids of the requests not claimed yet, and the sum of their amounts.
OpenIn(q) == {id \in DOMAIN q : ~q[id].claimed}
LockedIn(q) == Total([id \in DOMAIN q |-> q[id].amount], OpenIn(q))

\* What is locked is a function of the requests, before a step and after it.
LEMMA LockedIsLockedIn ==
    /\ Open = OpenIn(requests) /\ Open' = OpenIn(requests')
    /\ locked = LockedIn(requests) /\ locked' = LockedIn(requests')
BY DEF locked, Open, OpenIn, LockedIn

\* A request in a queue of requests.
LEMMA RequestType ==
    ASSUME NEW q \in Seq(Requests), NEW id \in DOMAIN q
    PROVE  /\ id \in 1 .. Len(q) /\ q[id] \in Requests
           /\ q[id].amount \in Nat /\ q[id].claimed \in BOOLEAN
           /\ q[id] = [amount |-> q[id].amount, due |-> q[id].due, claimed |-> q[id].claimed]
<1>1. id \in 1 .. Len(q) /\ q[id] \in Requests
  OBVIOUS
<1> QED  BY <1>1 DEF Requests

\* What is locked is a number.
LEMMA LockedInType ==
    ASSUME NEW q \in Seq(Requests)
    PROVE  IsFiniteSet(OpenIn(q)) /\ LockedIn(q) \in Nat
<1>1. IsFiniteSet(1 .. Len(q)) /\ DOMAIN q = 1 .. Len(q)
  <2>1. 1 \in Int /\ Len(q) \in Int
    OBVIOUS
  <2> QED  BY <2>1, FS_Interval
<1>2. IsFiniteSet(OpenIn(q))
  <2>1. OpenIn(q) \in SUBSET (1 .. Len(q))
    BY <1>1 DEF OpenIn
  <2> QED  BY <1>1, <2>1, FS_Subset
<1> DEFINE f == [id \in DOMAIN q |-> q[id].amount]
<1>3. \A id \in OpenIn(q) : f[id] \in Nat
  BY RequestType DEF OpenIn
<1>4. LockedIn(q) = Total(f, OpenIn(q))
  BY DEF LockedIn
<1> HIDE DEF f
<1> QED  BY <1>2, <1>3, <1>4, TotalType

\* A new request locks its amount.
LEMMA LockedByRequest ==
    ASSUME NEW q \in Seq(Requests), NEW amount \in Nat,
           NEW p, p = Append(q, Request(amount, FALSE))
    PROVE  p \in Seq(Requests) /\ LockedIn(p) = LockedIn(q) + amount
<1> DEFINE r == Request(amount, FALSE)
           n == Len(q) + 1
           f == [id \in DOMAIN q |-> q[id].amount]
           g == [id \in DOMAIN p |-> p[id].amount]
<1>1. r \in Requests /\ r.amount = amount /\ r.claimed = FALSE
  BY DEF Request, Requests
<1> HIDE DEF r
<1>2. /\ p \in Seq(Requests) /\ DOMAIN p = 1 .. n /\ DOMAIN q = 1 .. Len(q) /\ Len(q) \in Nat
      /\ \A id \in 1 .. Len(q) : p[id] = q[id]
      /\ p[n] = r
  <2> HIDE DEF f, g
  <2>1. p = Append(q, r) /\ r \in Requests
    BY <1>1 DEF r
  <2>2. Append(q, r) \in Seq(Requests) /\ Len(Append(q, r)) = Len(q) + 1
    BY <2>1, AppendProperties
  <2>3. /\ \A id \in 1 .. Len(q) : Append(q, r)[id] = q[id]
        /\ Append(q, r)[Len(q) + 1] = r
    BY <2>1, AppendProperties
  <2>4. DOMAIN q = 1 .. Len(q) /\ Len(q) \in Nat /\ DOMAIN p = 1 .. Len(p)
    BY <2>1, <2>2
  <2> QED  BY <2>1, <2>2, <2>3, <2>4
<1>3. OpenIn(p) = OpenIn(q) \cup {n} /\ n \notin OpenIn(q)
  <2> HIDE DEF f, g
  <2>1. DOMAIN p = DOMAIN q \cup {n} /\ n \notin DOMAIN q
    BY <1>2
  <2> HIDE DEF n
  <2>2. \A id \in DOMAIN q : p[id] = q[id]
    BY <1>2
  <2>3. p[n].claimed = FALSE
    BY <1>1, <1>2
  <2> QED  BY <2>1, <2>2, <2>3 DEF OpenIn
<1>4. /\ \A id \in OpenIn(q) : g[id] = f[id]
      /\ g[n] = amount
      /\ \A id \in OpenIn(q) \cup {n} : g[id] \in Nat
  <2>1. \A id \in OpenIn(q) : id \in DOMAIN q /\ id \in DOMAIN p /\ p[id] = q[id]
    BY <1>2 DEF OpenIn
  <2>2. n \in DOMAIN p
    BY <1>2
  <2>3. \A id \in OpenIn(q) : g[id] = f[id] /\ g[id] \in Nat
    BY <2>1, RequestType
  <2>4. g[n] = amount
    BY <1>1, <1>2, <2>2
  <2> QED  BY <2>3, <2>4
<1>5. LockedIn(p) = Total(g, OpenIn(p)) /\ LockedIn(q) = Total(f, OpenIn(q))
  BY DEF LockedIn
<1> HIDE DEF f, g, n
<1>6. Total(g, OpenIn(q) \cup {n}) = Total(g, OpenIn(q)) + Total(g, {n})
  <2>1. IsFiniteSet(OpenIn(q)) /\ IsFiniteSet({n}) /\ OpenIn(q) \cap {n} = {}
    BY <1>3, LockedInType, FS_Singleton
  <2> QED  BY <1>4, <2>1, TotalUnion
<1>7. Total(g, OpenIn(q)) = Total(f, OpenIn(q)) /\ Total(g, {n}) = amount
  BY <1>4, TotalSame, TotalSingle
<1> QED  BY <1>2, <1>3, <1>5, <1>6, <1>7

\* A claim unlocks what it pays.
LEMMA LockedByClaim ==
    ASSUME NEW q \in Seq(Requests), NEW id \in OpenIn(q),
           NEW p, p = [q EXCEPT ![id].claimed = TRUE]
    PROVE  /\ p \in Seq(Requests) /\ q[id].amount \in Nat
           /\ LockedIn(p) = LockedIn(q) - q[id].amount
           /\ LockedIn(p) \in Nat
<1> DEFINE r == [q[id] EXCEPT !.claimed = TRUE]
           f == [k \in DOMAIN q |-> q[k].amount]
           g == [k \in DOMAIN p |-> p[k].amount]
<1>1. /\ id \in DOMAIN q /\ id \in 1 .. Len(q) /\ q[id] \in Requests /\ q[id].amount \in Nat
      /\ DOMAIN q = 1 .. Len(q)
  BY RequestType DEF OpenIn
<1>2. r \in Requests /\ r.amount = q[id].amount /\ r.claimed = TRUE
  BY <1>1 DEF Requests
<1> HIDE DEF r
<1>3. p = [q EXCEPT ![id] = r]
  BY DEF r
<1>4. /\ p \in Seq(Requests) /\ DOMAIN p = DOMAIN q
      /\ \A k \in DOMAIN q : p[k] = IF k = id THEN r ELSE q[k]
  <2> HIDE DEF f, g
  <2>1. /\ [q EXCEPT ![id] = r] \in Seq(Requests)
        /\ Len([q EXCEPT ![id] = r]) = Len(q)
        /\ \A k \in 1 .. Len(q) : [q EXCEPT ![id] = r][k] = IF k = id THEN r ELSE q[k]
    BY <1>1, <1>2, ExceptSeq
  <2>2. DOMAIN p = 1 .. Len(p)
    BY <1>3, <2>1
  <2> QED  BY <1>1, <1>3, <2>1, <2>2
<1>5. OpenIn(p) = OpenIn(q) \ {id}
  BY <1>1, <1>2, <1>4 DEF OpenIn
<1>6. \A k \in OpenIn(q) : f[k] = g[k] /\ f[k] \in Nat
  <2>1. \A k \in OpenIn(q) : k \in DOMAIN q /\ k \in DOMAIN p
    BY <1>4 DEF OpenIn
  <2>2. \A k \in DOMAIN q : p[k].amount = q[k].amount
    BY <1>2, <1>4
  <2> QED  BY <2>1, <2>2, RequestType
<1>7. LockedIn(p) = Total(g, OpenIn(p)) /\ LockedIn(q) = Total(f, OpenIn(q))
  BY DEF LockedIn
<1>8. f[id] = q[id].amount
  BY <1>1
<1> HIDE DEF f, g
<1>9. Total(f, OpenIn(q)) = Total(f, {id}) + Total(f, OpenIn(q) \ {id})
  <2>1. IsFiniteSet(OpenIn(q)) /\ {id} \in SUBSET OpenIn(q)
    BY LockedInType
  <2> QED  BY <1>6, <2>1, TotalSplit
<1>10. Total(f, {id}) = q[id].amount
  BY <1>6, <1>8, TotalSingle
<1>11. Total(g, OpenIn(q) \ {id}) = Total(f, OpenIn(q) \ {id})
  BY <1>6, TotalSame
<1>12. LockedIn(p) \in Nat
  BY <1>4, LockedInType
<1>13. LockedIn(q) = q[id].amount + LockedIn(p)
  BY <1>5, <1>7, <1>9, <1>10, <1>11
<1>14. LockedIn(q) \in Nat /\ q[id].amount \in Nat
  BY <1>1, LockedInType
<1> QED  BY <1>4, <1>12, <1>13, <1>14

\* A timelock that passes changes nothing about what is locked.
LEMMA LockedByTick ==
    ASSUME NEW q \in Seq(Requests), NEW id \in DOMAIN q,
           NEW p, p = [q EXCEPT ![id].due = TRUE]
    PROVE  p \in Seq(Requests) /\ LockedIn(p) = LockedIn(q)
<1> DEFINE r == [q[id] EXCEPT !.due = TRUE]
           f == [k \in DOMAIN q |-> q[k].amount]
           g == [k \in DOMAIN p |-> p[k].amount]
<1>1. id \in 1 .. Len(q) /\ q[id] \in Requests /\ DOMAIN q = 1 .. Len(q)
  BY RequestType
<1>2. r \in Requests /\ r.amount = q[id].amount /\ r.claimed = q[id].claimed
  BY <1>1 DEF Requests
<1> HIDE DEF r
<1>3. p = [q EXCEPT ![id] = r]
  BY DEF r
<1>4. /\ p \in Seq(Requests) /\ DOMAIN p = DOMAIN q
      /\ \A k \in DOMAIN q : p[k] = IF k = id THEN r ELSE q[k]
  <2> HIDE DEF f, g
  <2>1. /\ [q EXCEPT ![id] = r] \in Seq(Requests)
        /\ Len([q EXCEPT ![id] = r]) = Len(q)
        /\ \A k \in 1 .. Len(q) : [q EXCEPT ![id] = r][k] = IF k = id THEN r ELSE q[k]
    BY <1>1, <1>2, ExceptSeq
  <2>2. DOMAIN p = 1 .. Len(p)
    BY <1>3, <2>1
  <2> QED  BY <1>1, <1>3, <2>1, <2>2
<1>5. \A k \in DOMAIN q : p[k].amount = q[k].amount /\ p[k].claimed = q[k].claimed
  BY <1>2, <1>4
<1>6. OpenIn(p) = OpenIn(q) /\ f = g
  BY <1>4, <1>5 DEF OpenIn
<1> QED  BY <1>4, <1>6 DEF LockedIn
-----------------------------------------------------------------------------
(* What transactions do *)

\* A transaction in flight, of the exit script or of the deposit script.
LEMMA FlightType ==
    ASSUME NEW t \in Flight
    PROVE  /\ t.kind \in Kinds \cup {"deposit"} /\ t.of \in Int
           /\ t.kind = "deposit" => t.of \in Nat /\ t.on \in {"old", "new", "other"}
           /\ t.kind \in Kinds <=> t.kind # "deposit"
BY DEF Flight, Kinds

\* The queue of transactions in flight.
LEMMA QueueType ==
    ASSUME TypeOK
    PROVE  /\ flights \in Seq(Flight) /\ Len(flights) \in Nat
           /\ DOMAIN flights = 1 .. Len(flights)
           /\ \A i \in DOMAIN flights : flights[i] \in Flight
BY DEF TypeOK

\* The oldest leaves, and the others move up.
LEMMA OldestLeaves ==
    ASSUME TypeOK, flights # << >>, flights' = Tail(flights)
    PROVE  /\ 1 \in DOMAIN flights /\ Head(flights) = flights[1]
           /\ flights' \in Seq(Flight)
           /\ DOMAIN flights' = 1 .. Len(flights) - 1
           /\ \A i \in DOMAIN flights' : i + 1 \in DOMAIN flights /\ flights'[i] = flights[i + 1]
<1>1. flights \in Seq(Flight) /\ Len(flights) \in Nat /\ DOMAIN flights = 1 .. Len(flights)
  BY QueueType
<1>2. /\ flights' \in Seq(Flight) /\ Len(flights') = Len(flights) - 1
      /\ \A i \in 1 .. Len(flights') : flights'[i] = flights[i + 1]
  BY <1>1, HeadTailProperties
<1>3. 1 \in DOMAIN flights /\ Head(flights) = flights[1]
  BY <1>1
<1>4. DOMAIN flights' = 1 .. Len(flights) - 1
  BY <1>2
<1> QED  BY <1>1, <1>2, <1>3, <1>4

\* One more is sent.
LEMMA OneIsSent ==
    ASSUME TypeOK, NEW t \in Flight, flights' = Append(flights, t)
    PROVE  /\ flights' \in Seq(Flight)
           /\ DOMAIN flights' = 1 .. Len(flights) + 1
           /\ \A i \in DOMAIN flights : i \in DOMAIN flights' /\ flights'[i] = flights[i]
           /\ flights'[Len(flights) + 1] = t
<1>1. flights \in Seq(Flight) /\ Len(flights) \in Nat /\ DOMAIN flights = 1 .. Len(flights)
  BY QueueType
<1>2. /\ flights' \in Seq(Flight) /\ Len(flights') = Len(flights) + 1
      /\ \A i \in 1 .. Len(flights) : flights'[i] = flights[i]
      /\ flights'[Len(flights) + 1] = t
  BY <1>1, AppendProperties
<1>3. DOMAIN flights' = 1 .. Len(flights) + 1
  BY <1>2
<1> QED  BY <1>1, <1>2, <1>3

\* What is left is a number.
LEMMA LeftType ==
    ASSUME TypeOK
    PROVE  locked \in Nat /\ Left \in Int /\ Left <= balance /\ Open \subseteq Nat
<1>1. locked \in Nat
  BY LockedIsLockedIn, LockedInType DEF TypeOK
<1>2. Open \subseteq Nat
  BY DEF Open, TypeOK
<1> QED  BY <1>1, <1>2 DEF Left, TypeOK

\* What is left never grows, and a request takes what it asks for out of it.
LEMMA LandsTakesOut ==
    ASSUME TypeOK, NEW t \in Flight, Lands(t)
    PROVE  /\ t.kind \in Kinds
           /\ balance' \in Int /\ wallet' \in Int /\ earnings' \in Nat
           /\ requests' \in Seq(Requests)
           /\ Left' <= Left /\ balance' <= balance /\ earnings' \in {0, earnings}
           /\ t.kind = "withdraw" => earnings' = 0
           /\ t.kind = "request" => Left' = Left - t.of
<1>1. /\ balance \in Int /\ wallet \in Int /\ earnings \in Nat /\ requests \in Seq(Requests)
      /\ locked \in Nat /\ t.of \in Int
  BY LeftType, FlightType DEF TypeOK
<1>2. CASE t.kind = "withdraw" /\ Withdraw
  <2>1. /\ wallet' = wallet + earnings /\ earnings' = 0
        /\ balance' = balance /\ requests' = requests
    BY <1>2 DEF Withdraw
  <2>2. locked' = locked
    BY <2>1, LockedIsLockedIn
  <2> QED  BY <1>1, <1>2, <2>1, <2>2 DEF Left, Kinds
<1>3. CASE t.kind = "request" /\ RequestRefund(t.of)
  <2>1. /\ 0 < t.of
        /\ requests' = Append(requests, Request(t.of, FALSE))
        /\ balance' = balance /\ earnings' = earnings /\ wallet' = wallet
    BY <1>3 DEF RequestRefund
  <2>2. requests' \in Seq(Requests) /\ locked' = locked + t.of
    <3>1. t.of \in Nat
      BY <1>1, <2>1
    <3>2. requests' \in Seq(Requests) /\ LockedIn(requests') = LockedIn(requests) + t.of
      BY <1>1, <2>1, <3>1, LockedByRequest
    <3> QED  BY <3>2, LockedIsLockedIn
  <2>3. Left' = Left - t.of /\ Left' <= Left
    BY <1>1, <2>1, <2>2 DEF Left
  <2>4. earnings' \in Nat /\ t.kind = "request" /\ "request" \in Kinds
    BY <1>1, <1>3, <2>1 DEF Kinds
  <2>5. /\ balance' \in Int /\ wallet' \in Int /\ balance' <= balance
        /\ earnings' \in {0, earnings}
    BY <1>1, <2>1
  <2> QED  BY <2>2, <2>3, <2>4, <2>5
<1>4. CASE t.kind = "claim" /\ Claim(t.of)
  <2> DEFINE amount == requests[t.of].amount
  <2>1. /\ t.of \in Open
        /\ requests' = [requests EXCEPT ![t.of].claimed = TRUE]
        /\ balance' = balance - amount /\ wallet' = wallet + amount
        /\ earnings' = earnings
    BY <1>4 DEF Claim
  <2>2. requests' \in Seq(Requests) /\ amount \in Nat /\ locked' = locked - amount
    BY <1>1, <2>1, LockedByClaim, LockedIsLockedIn
  <2> HIDE DEF amount
  <2>3. Left' = Left /\ balance' <= balance /\ Left \in Int
    BY <1>1, <2>1, <2>2 DEF Left
  <2> QED  BY <1>1, <1>4, <2>1, <2>2, <2>3 DEF Kinds
<1> QED  BY <1>2, <1>3, <1>4 DEF Lands

\* A transaction of the exit script is mined or reverted.
LEMMA MineEffect ==
    ASSUME TypeOK, Mine
    PROVE  /\ flights # << >> /\ flights' = Tail(flights) /\ flights[1].kind \in Kinds
           /\ balance' \in Int /\ wallet' \in Int /\ earnings' \in Nat
           /\ requests' \in Seq(Requests)
           /\ Left' <= Left /\ balance' <= balance /\ earnings' \in {0, earnings}
           /\ \/ ~Awaited /\ pc' = pc
              \/ Awaited /\ pc' = "idle"
              \/ /\ Awaited /\ pc' = After[flights[1].kind]
                 /\ flights[1].kind = "withdraw" => earnings' = 0
                 /\ flights[1].kind = "request" => Left' = Left - flights[1].of
<1>1. flights # << >> /\ flights' = Tail(flights) /\ Head(flights).kind \in Kinds
  BY DEF Mine
<1>2. Head(flights) = flights[1] /\ flights[1] \in Flight
  BY <1>1, OldestLeaves, QueueType
<1>3. CASE /\ Lands(flights[1])
           /\ pc' = IF Awaited THEN After[flights[1].kind] ELSE pc
  BY <1>1, <1>2, <1>3, LandsTakesOut
<1>4. CASE /\ UNCHANGED chainVars
           /\ pc' = IF Awaited THEN "idle" ELSE pc
  <2>1. /\ balance' = balance /\ wallet' = wallet /\ earnings' = earnings
        /\ requests' = requests
    BY <1>4 DEF chainVars
  <2>2. locked' = locked /\ Left' = Left /\ Left \in Int
    BY <2>1, LockedIsLockedIn, LeftType DEF Left
  <2>3. balance \in Int /\ wallet \in Int /\ earnings \in Nat /\ requests \in Seq(Requests)
    BY DEF TypeOK
  <2> QED  BY <1>1, <1>2, <1>4, <2>1, <2>2, <2>3
<1> QED  BY <1>2, <1>3, <1>4 DEF Mine
-----------------------------------------------------------------------------
(* Types *)

\* A step of the exit script reads, decides or sends; it moves no money itself.
LEMMA ScriptEffect ==
    ASSUME TypeOK, Script
    PROVE  /\ balance' = balance /\ earnings' = earnings /\ requests' = requests
           /\ wallet' = wallet /\ locked' = locked /\ Left' = Left
           /\ \/ flights' = flights
              \/ \E t \in Flight : t.kind \in Kinds /\ flights' = Append(flights, t)
           /\ s' \in [bal : Int, earn : Nat, locked : Nat]
           /\ lies' \in Nat /\ lies' >= lies
<1>1. /\ UNCHANGED chainVars
      /\ lies \in Nat /\ balance \in Int /\ earnings \in Nat /\ locked \in Nat
      /\ s \in [bal : Int, earn : Nat, locked : Nat]
  BY LeftType
     DEF TypeOK, Script, ReadState, Read, ConfirmZeros, Goes, Exit, Send, Says, ClaimRefund
<1>2. /\ balance' = balance /\ earnings' = earnings /\ requests' = requests
      /\ wallet' = wallet
  BY <1>1 DEF chainVars
<1>3. locked' = locked /\ Left' = Left
  BY <1>2, LockedIsLockedIn DEF Left
<1>4. Unread \in [bal : Int, earn : Nat, locked : Nat]
  BY DEF Unread
<1>5. s.bal \in Int /\ s.earn \in Nat /\ s.locked \in Nat /\ free \in Int
  BY <1>1 DEF free
<1>6. CASE ReadState
  <2>1. flights' = flights
    BY <1>6 DEF ReadState, Read
  <2>2. \/ lies' = lies
        \/ lies' = lies + 1
    BY <1>6 DEF ReadState, Read
  <2>3. \/ s' = [s EXCEPT !["bal"] = balance]
        \/ s' = [s EXCEPT !["earn"] = earnings]
        \/ s' = [s EXCEPT !["locked"] = locked]
        \/ s' = s
    BY <1>6 DEF ReadState, Read
  <2>4. s' \in [bal : Int, earn : Nat, locked : Nat]
    BY <1>1, <2>3
  <2> QED  BY <1>1, <1>2, <1>3, <2>1, <2>2, <2>4
<1>7. CASE ConfirmZeros
  <2>1. flights' = flights /\ lies' = lies /\ s' \in {s, Unread}
    BY <1>7 DEF ConfirmZeros, Goes, Forget
  <2> QED  BY <1>1, <1>2, <1>3, <1>4, <2>1
<1>8. ASSUME NEW at, NEW kind \in Kinds, NEW of \in Int, NEW next, Send(at, kind, of, next)
      PROVE  /\ \E t \in Flight : t.kind \in Kinds /\ flights' = Append(flights, t)
             /\ s' \in {s, Unread} /\ lies' = lies
  <2>1. flights' = Append(flights, [kind |-> kind, of |-> of])
    BY <1>8 DEF Send
  <2>2. [kind |-> kind, of |-> of] \in Flight /\ [kind |-> kind, of |-> of].kind \in Kinds
    BY DEF Flight
  <2> QED  BY <1>8, <2>1, <2>2 DEF Send
<1>9. CASE Exit
  <2>1. \/ flights' = flights /\ lies' = lies /\ s' \in {s, Unread}
        \/ Send("withdraw", "withdraw", s.earn, "wait withdraw")
        \/ Send("request", "request", free, "wait request")
    BY <1>9 DEF Exit, Goes, Says, Forget
  <2>2. {"withdraw", "request"} \subseteq Kinds
    BY DEF Kinds
  <2>3. s' \in {s, Unread} => s' \in [bal : Int, earn : Nat, locked : Nat]
    BY <1>1, <1>4
  <2>4. CASE flights' = flights /\ lies' = lies /\ s' \in {s, Unread}
    BY <1>1, <1>2, <1>3, <2>3, <2>4
  <2>5. CASE \/ Send("withdraw", "withdraw", s.earn, "wait withdraw")
             \/ Send("request", "request", free, "wait request")
    <3>1. /\ \E t \in Flight : t.kind \in Kinds /\ flights' = Append(flights, t)
          /\ s' \in {s, Unread} /\ lies' = lies
      <4>1. s.earn \in Int
        BY <1>5
      <4> QED  BY <1>5, <1>8, <2>2, <2>5, <4>1
    <3> QED  BY <1>1, <1>2, <1>3, <2>3, <3>1
  <2> QED  BY <2>1, <2>4, <2>5
<1>10. CASE ClaimRefund
  <2>1. \/ flights' = flights /\ lies' = lies /\ s' \in {s, Unread}
        \/ claiming \in Open /\ Send("claim", "claim", claiming, "wait claim")
    BY <1>10 DEF ClaimRefund, Goes, Forget
  <2>2. "claim" \in Kinds /\ (claiming \in Open => claiming \in Int)
    BY LeftType DEF Kinds
  <2>3. s' \in {s, Unread} => s' \in [bal : Int, earn : Nat, locked : Nat]
    BY <1>1, <1>4
  <2>4. CASE flights' = flights /\ lies' = lies /\ s' \in {s, Unread}
    BY <1>1, <1>2, <1>3, <2>3, <2>4
  <2>5. CASE claiming \in Open /\ Send("claim", "claim", claiming, "wait claim")
    <3>1. /\ \E t \in Flight : t.kind \in Kinds /\ flights' = Append(flights, t)
          /\ s' \in {s, Unread} /\ lies' = lies
      BY <1>8, <2>2, <2>5
    <3> QED  BY <1>1, <1>2, <1>3, <2>3, <3>1
  <2> QED  BY <2>1, <2>4, <2>5
<1> QED  BY <1>6, <1>7, <1>9, <1>10 DEF Script

\* A running deposit.
LEMMA DepositType ==
    ASSUME TypeOK, d.pc # "idle"
    PROVE  /\ d \in Deposit /\ d.on \in {"old", "new", "other"}
           /\ d.pc \in {"send", "wait", "read after", "credited"}
           /\ \A at \in {"send", "wait", "read after", "credited"} :
                /\ [d EXCEPT !.pc = at] \in Deposit
                /\ [d EXCEPT !.pc = at].pc = at
<1>1. d \in Deposit
  <2>1. Idle.pc = "idle"
    BY DEF Idle
  <2> QED  BY <2>1 DEF TypeOK
<1> QED  BY <1>1 DEF Deposit

\* A deposit is mined: the money goes to the contract it was sent to.
LEMMA MineDepositEffect ==
    ASSUME TypeOK, MineDeposit
    PROVE  /\ flights # << >> /\ flights' = Tail(flights) /\ flights[1].kind = "deposit"
           /\ balance' \in Int /\ wallet' \in Int /\ credited' \in Int
           /\ earnings' = earnings /\ requests' = requests /\ late' \in Nat
           /\ late' >= late /\ balance' - balance = late' - late
           /\ Left' - Left = late' - late
           /\ \/ d.pc = "wait" /\ flights[1].of = runs
                 /\ d' \in {[d EXCEPT !.pc = "read after"], Idle}
              \/ ~(d.pc = "wait" /\ flights[1].of = runs) /\ d' = d
<1>1. flights # << >> /\ flights' = Tail(flights) /\ Head(flights).kind = "deposit"
  BY DEF MineDeposit
<1> DEFINE t == flights[1]
<1>2. /\ Head(flights) = t /\ t \in Flight /\ t.kind = "deposit" /\ t.on \in {"old", "new", "other"}
  BY <1>1, OldestLeaves, QueueType, FlightType
<1>3. PICK paid \in Paid(t.on) :
        /\ wallet' = wallet - paid
        /\ balance' = balance + (IF t.on = "old" THEN paid ELSE 0)
        /\ late' = late + (IF t.on = "old" THEN paid ELSE 0)
        /\ credited' = credited + (IF t.on = "new" THEN paid ELSE 0)
        /\ earnings' = earnings /\ requests' = requests
        /\ d' = IF ~(d.pc = "wait" /\ t.of = runs) THEN d
                ELSE IF paid > 0 THEN [d EXCEPT !.pc = "read after"] ELSE Idle
  BY <1>2 DEF MineDeposit
<1> DEFINE toOld == IF t.on = "old" THEN paid ELSE 0
           toNew == IF t.on = "new" THEN paid ELSE 0
<1>4. paid \in Nat /\ toOld \in Nat /\ toNew \in Nat
  <2>1. paid \in {0, Amount}
    BY DEF Paid
  <2> QED  BY <2>1, MigrationAssumption
<1>5. locked' = locked /\ locked \in Nat
  BY <1>3, LeftType, LockedIsLockedIn
<1>6. balance \in Int /\ wallet \in Int /\ credited \in Int /\ earnings \in Nat /\ late \in Nat
  BY DEF TypeOK
<1>7. \/ d.pc = "wait" /\ t.of = runs /\ d' \in {[d EXCEPT !.pc = "read after"], Idle}
      \/ ~(d.pc = "wait" /\ t.of = runs) /\ d' = d
  BY <1>3
<1>10. /\ wallet' = wallet - paid
       /\ balance' = balance + toOld /\ late' = late + toOld
       /\ credited' = credited + toNew
  BY <1>3
<1> HIDE DEF toOld, toNew
<1>8. /\ balance' \in Int /\ wallet' \in Int /\ credited' \in Int /\ late' \in Nat
      /\ late' >= late /\ balance' - balance = late' - late
  <2>1. /\ balance \in Int /\ wallet \in Int /\ credited \in Int
        /\ earnings \in Nat /\ late \in Nat
    BY <1>6
  <2>2. /\ balance' \in Int /\ wallet' \in Int /\ credited' \in Int /\ late' \in Nat
        /\ late' >= late
    BY <1>10, <1>4, <2>1
  <2>3. balance' - balance = late' - late
    BY <1>10, <1>4, <2>1
  <2> QED  BY <2>2, <2>3
<1>9. Left' - Left = late' - late
  <2>1. balance \in Int /\ late \in Nat
    BY <1>6
  <2> QED  BY <1>10, <1>4, <1>5, <2>1 DEF Left
<1> QED  BY <1>1, <1>2, <1>3, <1>7, <1>8, <1>9

\* Every step keeps the types.
LEMMA TypeStep ==
    ASSUME TypeOK, [MigrationNext]_migrationVars
    PROVE  TypeOK'
<1>1. /\ balance \in Int /\ wallet \in Int /\ credited \in Int
      /\ earnings \in Nat /\ runs \in Nat /\ late \in Nat /\ lies \in Nat
      /\ requests \in Seq(Requests) /\ flights \in Seq(Flight)
      /\ s \in [bal : Int, earn : Nat, locked : Nat] /\ d \in Deposit \cup {Idle}
  BY DEF TypeOK
<1>2. Unread \in [bal : Int, earn : Nat, locked : Nat]
  BY DEF Unread
<1>3. CASE Tick /\ UNCHANGED depositVars
  <2>1. PICK id \in DOMAIN requests : requests' = [requests EXCEPT ![id].due = TRUE]
    BY <1>3 DEF Tick
  <2>2. requests' \in Seq(Requests)
    BY <1>1, <2>1, LockedByTick
  <2> QED  BY <1>1, <1>3, <2>2 DEF Tick, depositVars, TypeOK
<1>4. CASE Mine /\ UNCHANGED depositVars
  <2>1. /\ balance' \in Int /\ wallet' \in Int /\ earnings' \in Nat /\ requests' \in Seq(Requests)
        /\ flights # << >> /\ flights' = Tail(flights)
    BY <1>4, MineEffect
  <2>2. flights' \in Seq(Flight)
    BY <2>1, OldestLeaves
  <2>3. /\ lies' = lies /\ s' \in {s, Unread} /\ d' = d
        /\ credited' = credited /\ runs' = runs /\ late' = late
    BY <1>4 DEF Mine, Forget, depositVars
  <2> QED  BY <1>1, <1>2, <2>1, <2>2, <2>3 DEF TypeOK
<1>5. CASE (Start \/ Die) /\ UNCHANGED depositVars
  <2>1. s' \in {s, Unread}
    BY <1>5 DEF Start, Die, Forget
  <2> QED  BY <1>1, <1>2, <1>5, <2>1 DEF Start, Die, depositVars, chainVars, TypeOK
<1>6. CASE ExitScript
  <2>1. /\ balance' = balance /\ earnings' = earnings /\ requests' = requests
        /\ wallet' = wallet
        /\ \/ flights' = flights
           \/ \E t \in Flight : t.kind \in Kinds /\ flights' = Append(flights, t)
        /\ s' \in [bal : Int, earn : Nat, locked : Nat]
        /\ lies' \in Nat
    BY <1>6, ScriptEffect DEF ExitScript
  <2>2. flights' \in Seq(Flight)
    BY <1>1, <2>1, OneIsSent
  <2>3. late' \in Nat /\ credited' = credited /\ d' = d /\ runs' = runs
    BY <1>1, <1>6 DEF ExitScript
  <2> QED  BY <1>1, <2>1, <2>2, <2>3 DEF TypeOK
<1>7. CASE ExitAgain
  BY <1>1, <1>2, <1>7 DEF ExitAgain, depositVars, chainVars, TypeOK
<1>8. CASE StartDeposit
  <2>1. PICK on \in {"old", "new", "other", "nowhere"} :
            /\ HasCode(on)
            /\ \E before \in ReadUserBalance(on) :
                d' = [pc |-> "send", on |-> on, before |-> before]
    BY <1>8 DEF StartDeposit
  <2>2. PICK before \in ReadUserBalance(on) :
            d' = [pc |-> "send", on |-> on, before |-> before]
    BY <2>1
  <2>3. on \in {"old", "new", "other"} /\ before \in Int
    BY <1>1, <2>1 DEF HasCode, ReadUserBalance, Balance
  <2>4. d' \in Deposit
    BY <2>2, <2>3 DEF Deposit
  <2> QED  BY <1>1, <1>8, <2>4 DEF StartDeposit, UnchangedButDeposit, chainVars, TypeOK
<1>9. CASE SendDeposit
  <2>1. /\ d.pc = "send" /\ d \in Deposit /\ d.on \in {"old", "new", "other"}
        /\ [d EXCEPT !.pc = "wait"] \in Deposit
    BY <1>9, DepositType DEF SendDeposit
  <2>2. [kind |-> "deposit", of |-> runs, on |-> d.on] \in Flight
    BY <1>1, <2>1 DEF Flight
  <2>3. flights' \in Seq(Flight)
    BY <1>9, <2>2, OneIsSent DEF SendDeposit
  <2> QED  BY <1>1, <1>9, <2>1, <2>3 DEF SendDeposit, UnchangedButDeposit, chainVars, TypeOK
<1>10. CASE ReadAfter \/ EndDeposit
  <2>1. /\ (d' = [d EXCEPT !.pc = "credited"] /\ d.pc # "idle") \/ d' = Idle
        /\ UnchangedButDeposit /\ UNCHANGED <<flights, credited, runs, late>>
    BY <1>10 DEF ReadAfter, EndDeposit, DepositGoes
  <2>2. d' \in Deposit \cup {Idle}
    BY <2>1, DepositType
  <2> QED  BY <1>1, <2>1, <2>2 DEF UnchangedButDeposit, chainVars, TypeOK
<1>11. CASE DieDepositing
  BY <1>1, <1>11 DEF DieDepositing, chainVars, TypeOK
<1>12. CASE MineDeposit
  <2>1. /\ balance' \in Int /\ wallet' \in Int /\ credited' \in Int
        /\ earnings' = earnings /\ requests' = requests /\ late' \in Nat
        /\ flights # << >> /\ flights' = Tail(flights)
        /\ \/ d.pc = "wait" /\ d' \in {[d EXCEPT !.pc = "read after"], Idle}
           \/ d' = d
    BY <1>12, MineDepositEffect
  <2>2. flights' \in Seq(Flight)
    BY <2>1, OldestLeaves
  <2>3. d' \in Deposit \cup {Idle}
    BY <1>1, <2>1, DepositType
  <2>4. runs' = runs /\ lies' = lies /\ s' = s
    BY <1>12 DEF MineDeposit
  <2> QED  BY <1>1, <2>1, <2>2, <2>3, <2>4 DEF TypeOK
<1>13. CASE UNCHANGED migrationVars
  BY <1>1, <1>13 DEF migrationVars, vars, chainVars, depositVars, TypeOK
<1> QED
  BY <1>3, <1>4, <1>5, <1>6, <1>7, <1>8, <1>9, <1>10, <1>11, <1>12, <1>13
     DEF MigrationNext, ExitStep, DepositScript
-----------------------------------------------------------------------------
(* One deposit a run *)

\* What leaves the deposits in flight as they are, or moves them up.
LEMMA SameDeposits ==
    ASSUME TypeOK, OneDepositARun, d' = d, runs' = runs, NEW k \in {0, 1},
           DOMAIN flights' \subseteq Nat,
           \A i \in DOMAIN flights' : flights'[i].kind = "deposit" =>
                i + k \in DOMAIN flights /\ flights[i + k] = flights'[i]
    PROVE  OneDepositARun'
<1>1. \A i \in DOMAIN flights' : flights'[i].kind = "deposit" => flights'[i].of <= runs
  BY DEF OneDepositARun
<1>2. d.pc \in {"send", "read after", "credited"} =>
        \A i \in DOMAIN flights' : flights'[i].kind = "deposit" => flights'[i].of # runs
  BY DEF OneDepositARun
<1>3. ASSUME d.pc = "wait",
             NEW i \in DOMAIN flights', NEW j \in DOMAIN flights',
             flights'[i].kind = "deposit", flights'[i].of = runs,
             flights'[j].kind = "deposit", flights'[j].of = runs
      PROVE  i = j
  <2>1. i \in Nat /\ j \in Nat
    OBVIOUS
  <2>2. i + k = j + k
    BY <1>3 DEF OneDepositARun
  <2> QED  BY <2>1, <2>2
<1> QED  BY <1>1, <1>2, <1>3 DEF OneDepositARun

\* Every step keeps one deposit a run.
LEMMA DepositStep ==
    ASSUME TypeOK, OneDepositARun, [MigrationNext]_migrationVars
    PROVE  OneDepositARun'
<1>1. /\ DOMAIN flights = 1 .. Len(flights) /\ Len(flights) \in Nat /\ runs \in Nat
      /\ \A i \in DOMAIN flights : flights[i] \in Flight /\ i \in Nat
  BY QueueType DEF TypeOK
<1>2. ASSUME flights' = flights, d' = d, runs' = runs PROVE OneDepositARun'
  BY <1>2 DEF OneDepositARun
<1>3. ASSUME flights' = flights, runs' = runs, d' = Idle PROVE OneDepositARun'
  BY <1>3 DEF OneDepositARun, Idle
<1>4. CASE (Tick \/ Start \/ Die) /\ UNCHANGED depositVars
  BY <1>2, <1>4 DEF Tick, Start, Die, depositVars
<1>5. CASE Mine /\ UNCHANGED depositVars
  <2>1. flights # << >> /\ flights' = Tail(flights)
    BY <1>5, MineEffect
  <2>2. /\ DOMAIN flights' \subseteq Nat
        /\ \A i \in DOMAIN flights' :
                i + 1 \in DOMAIN flights /\ flights[i + 1] = flights'[i]
    BY <1>1, <2>1, OldestLeaves
  <2>3. d' = d /\ runs' = runs
    BY <1>5 DEF depositVars
  <2> QED  BY <2>2, <2>3, SameDeposits
<1>6. CASE ExitScript
  <2>1. /\ d' = d /\ runs' = runs
        /\ \/ flights' = flights
           \/ \E t \in Flight : t.kind \in Kinds /\ flights' = Append(flights, t)
    BY <1>6, ScriptEffect DEF ExitScript
  <2>2. ASSUME NEW t \in Flight, t.kind \in Kinds, flights' = Append(flights, t)
        PROVE  OneDepositARun'
    <3>1. /\ DOMAIN flights' = 1 .. Len(flights) + 1
          /\ \A i \in DOMAIN flights : flights'[i] = flights[i]
          /\ flights'[Len(flights) + 1].kind # "deposit"
      BY <2>2, OneIsSent, FlightType
    <3>2. \A i \in DOMAIN flights' : flights'[i].kind = "deposit" =>
                i + 0 \in DOMAIN flights /\ flights[i + 0] = flights'[i]
      BY <1>1, <3>1
    <3>3. DOMAIN flights' \subseteq Nat
      BY <1>1, <3>1
    <3> QED  BY <2>1, <3>2, <3>3, SameDeposits
  <2> QED  BY <1>2, <2>1, <2>2
<1>7. CASE ExitAgain
  BY <1>2, <1>7 DEF ExitAgain, depositVars
<1>8. CASE StartDeposit
  <2>1. flights' = flights /\ runs' = runs + 1 /\ d'.pc = "send"
    BY <1>8 DEF StartDeposit
  <2>2. \A i \in DOMAIN flights : flights[i].kind = "deposit" =>
            flights[i].of <= runs /\ flights[i].of \in Nat
    BY <1>1, FlightType DEF OneDepositARun
  <2>3. \A i \in DOMAIN flights : flights[i].kind = "deposit" =>
            flights[i].of <= runs + 1 /\ flights[i].of # runs + 1
    BY <1>1, <2>2
  <2> QED  BY <2>1, <2>3 DEF OneDepositARun
<1>9. CASE SendDeposit
  <2> DEFINE t == [kind |-> "deposit", of |-> runs, on |-> d.on]
  <2>1. /\ d.pc = "send" /\ d.on \in {"old", "new", "other"} /\ runs' = runs
        /\ d' = [d EXCEPT !.pc = "wait"] /\ d'.pc = "wait"
        /\ flights' = Append(flights, t)
    BY <1>9, DepositType DEF SendDeposit
  <2>2. t \in Flight /\ t.of = runs
    BY <1>1, <2>1 DEF Flight
  <2> HIDE DEF t
  <2>3. /\ DOMAIN flights' = 1 .. Len(flights) + 1
        /\ \A i \in DOMAIN flights : flights'[i] = flights[i]
        /\ flights'[Len(flights) + 1] = t
    BY <2>1, <2>2, OneIsSent
  <2>4. \A i \in DOMAIN flights' : i \in DOMAIN flights \/ i = Len(flights) + 1
    BY <1>1, <2>3
  <2>5. \A i \in DOMAIN flights' :
            /\ flights'[i].kind = "deposit" => flights'[i].of <= runs
            /\ flights'[i].kind = "deposit" /\ flights'[i].of = runs => i = Len(flights) + 1
    BY <1>1, <2>1, <2>2, <2>3, <2>4 DEF OneDepositARun
  <2> QED  BY <2>1, <2>5 DEF OneDepositARun
<1>10. CASE ReadAfter
  <2>1. /\ d.pc = "read after" /\ flights' = flights /\ runs' = runs
        /\ d' = [d EXCEPT !.pc = "credited"] \/ d' = Idle
    BY <1>10 DEF ReadAfter, DepositGoes
  <2>2. CASE d' = [d EXCEPT !.pc = "credited"]
    <3>1. d'.pc = "credited"
      BY <2>1, <2>2, DepositType
    <3> QED  BY <2>1, <3>1 DEF OneDepositARun
  <2> QED  BY <1>3, <2>1, <2>2
<1>11. CASE EndDeposit \/ DieDepositing
  BY <1>3, <1>11 DEF EndDeposit, DieDepositing, DepositGoes
<1>12. CASE MineDeposit
  <2>1. /\ flights # << >> /\ flights' = Tail(flights) /\ flights[1].kind = "deposit"
        /\ \/ /\ d.pc = "wait" /\ flights[1].of = runs
              /\ d' \in {[d EXCEPT !.pc = "read after"], Idle}
           \/ d' = d
    BY <1>12, MineDepositEffect
  <2>2. runs' = runs
    BY <1>12 DEF MineDeposit
  <2>3. /\ DOMAIN flights' \subseteq Nat /\ 1 \in DOMAIN flights
        /\ \A i \in DOMAIN flights' :
                /\ i + 1 \in DOMAIN flights /\ flights[i + 1] = flights'[i]
                /\ i + 1 # 1
    <3>1. /\ DOMAIN flights' = 1 .. Len(flights) - 1 /\ 1 \in DOMAIN flights
          /\ \A i \in DOMAIN flights' :
                i + 1 \in DOMAIN flights /\ flights[i + 1] = flights'[i]
      BY <2>1, OldestLeaves
    <3>2. \A i \in DOMAIN flights' : i + 1 # 1 /\ i \in Nat
      BY <1>1, <3>1
    <3> QED  BY <3>1, <3>2
  <2>4. CASE d' = d
    BY <2>2, <2>3, <2>4, SameDeposits
  <2>5. CASE /\ d.pc = "wait" /\ flights[1].of = runs
             /\ d' \in {[d EXCEPT !.pc = "read after"], Idle}
    <3>1. d'.pc \in {"read after", "idle"}
      <4>1. [d EXCEPT !.pc = "read after"].pc = "read after"
        BY <2>5, DepositType
      <4>2. Idle.pc = "idle"
        BY DEF Idle
      <4> QED  BY <2>5, <4>1, <4>2
    <3>2. \A i \in DOMAIN flights' : flights'[i].kind = "deposit" =>
                flights'[i].of <= runs /\ flights'[i].of # runs
      BY <2>1, <2>3, <2>5 DEF OneDepositARun
    <3> QED  BY <2>2, <3>1, <3>2 DEF OneDepositARun
  <2> QED  BY <2>1, <2>4, <2>5
<1>13. CASE UNCHANGED migrationVars
  BY <1>2, <1>13 DEF migrationVars, vars, depositVars
<1> QED
  BY <1>4, <1>5, <1>6, <1>7, <1>8, <1>9, <1>10, <1>11, <1>12, <1>13
     DEF MigrationNext, ExitStep, DepositScript
\* Every step leaves another contract without a balance and a credit.
LEMMA OthersStep ==
    ASSUME TypeOK, OthersShowNothing, [MigrationNext]_migrationVars
    PROVE  OthersShowNothing'
<1>1. ASSUME d' = d PROVE OthersShowNothing'
  BY <1>1 DEF OthersShowNothing
<1>2. ASSUME d' = Idle PROVE OthersShowNothing'
  BY <1>2 DEF OthersShowNothing, Idle
<1>3. ASSUME d.pc # "idle", NEW at \in {"wait", "read after"}, d' = [d EXCEPT !.pc = at]
      PROVE  OthersShowNothing'
  <2>1. /\ d'.pc = at /\ d'.on = d.on /\ d'.before = d.before
    BY <1>3, DepositType DEF Deposit
  <2> QED  BY <1>3, <2>1 DEF OthersShowNothing
<1>4. CASE StartDeposit
  <2>1. PICK on \in {"old", "new", "other", "nowhere"} :
            \E before \in ReadUserBalance(on) :
                d' = [pc |-> "send", on |-> on, before |-> before]
    BY <1>4 DEF StartDeposit
  <2>2. PICK before \in ReadUserBalance(on) :
            d' = [pc |-> "send", on |-> on, before |-> before]
    BY <2>1
  <2>3. on = "other" => before = 0
    BY DEF ReadUserBalance, Balance
  <2> QED  BY <2>2, <2>3 DEF OthersShowNothing
<1>5. CASE SendDeposit
  BY <1>3, <1>5 DEF SendDeposit
<1>6. CASE ReadAfter
  <2>1. PICK after \in ReadUserBalance(d.on) :
            /\ d.pc = "read after"
            /\ d' = IF after - d.before = Amount THEN [d EXCEPT !.pc = "credited"] ELSE Idle
    BY <1>6 DEF ReadAfter, DepositGoes
  <2>2. CASE d.on = "other"
    <3>1. after = 0 /\ d.before = 0
      BY <2>1, <2>2 DEF ReadUserBalance, Balance, OthersShowNothing
    <3>2. after - d.before # Amount
      BY <3>1, MigrationAssumption
    <3>3. d' = Idle
      BY <2>1, <3>2
    <3> QED  BY <1>2, <3>3
  <2>3. CASE d.on # "other" /\ d' # Idle
    <3>1. d'.on = d.on
      BY <2>1, <2>3, DepositType DEF Deposit
    <3> QED  BY <2>3, <3>1 DEF OthersShowNothing
  <2> QED  BY <1>2, <2>2, <2>3
<1>7. CASE EndDeposit \/ DieDepositing
  BY <1>2, <1>7 DEF EndDeposit, DieDepositing, DepositGoes
<1>8. CASE MineDeposit
  <2>1. \/ d.pc = "wait" /\ d' \in {[d EXCEPT !.pc = "read after"], Idle}
        \/ d' = d
    BY <1>8, MineDepositEffect
  <2> QED  BY <1>1, <1>2, <1>3, <2>1
<1>9. CASE ExitStep \/ ExitScript \/ ExitAgain \/ UNCHANGED migrationVars
  BY <1>1, <1>9 DEF ExitStep, ExitScript, ExitAgain, migrationVars, depositVars
<1> QED
  BY <1>4, <1>5, <1>6, <1>7, <1>8, <1>9 DEF MigrationNext, DepositScript
-----------------------------------------------------------------------------
(* The exit *)

ExitInv == AwaitsItsOwn /\ SaysAtTheEnd /\ ReadsInOrder /\ EarningsGoFirst /\ LateExplains

\* Beside the script: what is left grows by no more than what comes late.
Beside ==
    /\ said' = said /\ lies' = lies /\ late' >= late
    /\ Left' - late' <= Left - late /\ balance' - late' <= balance - late
    /\ earnings' \in {0, earnings}

\* The last transaction of the exit script in a queue is at position i.
LastOf(q, i) ==
    /\ i \in DOMAIN q /\ q[i].kind \in Kinds
    /\ \A j \in DOMAIN q : j > i => q[j].kind \notin Kinds

\* What the invariant compares are numbers,
LEMMA Numbers ==
    ASSUME TypeOK
    PROVE  /\ balance \in Int /\ earnings \in Nat /\ late \in Nat /\ lies \in Nat
           /\ s.bal \in Int /\ s.earn \in Nat /\ s.locked \in Nat /\ free \in Int
           /\ locked \in Nat /\ Left \in Int /\ Left <= balance
<1>1. s.bal \in Int /\ s.earn \in Nat /\ s.locked \in Nat
  BY DEF TypeOK
<1> QED  BY <1>1, LeftType DEF TypeOK, free

\* What is left, a, grows by no more than what comes late, p.
LEMMA NoMoreThanLate ==
    /\ \A a, b, p, q \in Int : a - p <= b - q /\ b <= q => a <= p
    /\ \A a, b, p, q, x \in Int : a - p <= b - q /\ b <= x + q => a <= x + p
OBVIOUS

\* and are after a step.
LEMMA NumbersAfter ==
    ASSUME TypeOK'
    PROVE  /\ balance' \in Int /\ late' \in Nat /\ Left' \in Int
<1>1. locked' \in Nat
  BY LockedIsLockedIn, LockedInType DEF TypeOK
<1> QED  BY <1>1 DEF Left, TypeOK

\* What happens beside a waiting or reading run keeps what it relies on.
LEMMA BesideKeepsInv ==
    ASSUME TypeOK, TypeOK', ExitInv, Beside, pc' = pc, s' = s,
           \A i : pc \in Waits /\ LastOf(flights, i)
                    => \E j : LastOf(flights', j) /\ flights'[j] = flights[i]
    PROVE  ExitInv'
<1>1. AwaitsItsOwn /\ SaysAtTheEnd /\ ReadsInOrder /\ EarningsGoFirst /\ LateExplains
  BY DEF ExitInv
<1>2. /\ balance \in Int /\ earnings \in Nat /\ late \in Nat /\ lies \in Nat
      /\ s.bal \in Int /\ s.locked \in Nat /\ free \in Int /\ Left \in Int
  BY Numbers
<1>3. balance' \in Int /\ late' \in Nat /\ Left' \in Int
  BY Numbers, NumbersAfter
<1>4. free' = free
  BY DEF free
<1>5. \A x \in Int : /\ Left <= x + late => Left' <= x + late'
                     /\ balance <= x + late => balance' <= x + late'
  <2>1. /\ Left' - late' <= Left - late
        /\ balance' - late' <= balance - late
    BY DEF Beside
  <2>2. /\ Left \in Int /\ late \in Int /\ balance \in Int
        /\ Left' \in Int /\ late' \in Int /\ balance' \in Int
    BY <1>2, <1>3
  <2> QED  BY <2>1, <2>2, NoMoreThanLate
<1>6. Left <= late => Left' <= late'
  <2>1. Left' - late' <= Left - late
    BY DEF Beside
  <2>2. /\ Left \in Int /\ late \in Int /\ balance \in Int
        /\ Left' \in Int /\ late' \in Int /\ balance' \in Int
    BY <1>2, <1>3
  <2> QED  BY <2>1, <2>2, NoMoreThanLate
<1>7. AwaitsItsOwn'
  <2> SUFFICES ASSUME pc \in Waits PROVE AwaitsItsOwn'
    BY DEF AwaitsItsOwn
  <2>1. PICK i \in DOMAIN flights :
            /\ flights[i].kind = CASE pc = "wait withdraw" -> "withdraw"
                                   [] pc = "wait request" -> "request"
                                   [] OTHER -> "claim"
            /\ \A j \in DOMAIN flights : j > i => flights[j].kind \notin Kinds
            /\ pc = "wait request" => Left <= flights[i].of + late
    BY <1>1 DEF AwaitsItsOwn
  <2>2. LastOf(flights, i)
    BY <2>1 DEF LastOf, Kinds
  <2>3. PICK j : LastOf(flights', j) /\ flights'[j] = flights[i]
    BY <2>2
  <2>4. flights[i].of \in Int
    BY QueueType, FlightType
  <2>5. pc = "wait request" => Left' <= flights'[j].of + late'
    BY <1>5, <2>1, <2>3, <2>4
  <2> QED  BY <2>1, <2>3, <2>5 DEF AwaitsItsOwn, LastOf
<1>8. SaysAtTheEnd' /\ ReadsInOrder'
  BY <1>1 DEF SaysAtTheEnd, ReadsInOrder, Beside
<1>9. EarningsGoFirst'
  BY <1>1 DEF EarningsGoFirst, Beside
<1>10. LateExplains'
  BY <1>1, <1>2, <1>4, <1>5, <1>6 DEF LateExplains, Beside
<1> QED  BY <1>7, <1>8, <1>9, <1>10 DEF ExitInv

\* A run that ends without a word.
LEMMA EndingKeepsInv ==
    ASSUME TypeOK, TypeOK', ExitInv, Beside, pc' = "idle" \/ pc' = "claimed" \/ pc' = "claim"
    PROVE  ExitInv'
<1>1. EarningsGoFirst /\ LateExplains
  BY DEF ExitInv
<1>2. late \in Nat /\ Left \in Int /\ late' \in Nat /\ Left' \in Int
  BY Numbers, NumbersAfter
<1>3. Left <= late => Left' <= late'
  <2>1. Left' - late' <= Left - late
    BY DEF Beside
  <2>2. Left \in Int /\ late \in Int /\ Left' \in Int /\ late' \in Int
    BY <1>2
  <2> QED  BY <2>1, <2>2, NoMoreThanLate
<1>4. AwaitsItsOwn' /\ SaysAtTheEnd' /\ ReadsInOrder'
  BY DEF AwaitsItsOwn, Waits, SaysAtTheEnd, ReadsInOrder, Reading, Deciding
<1>5. EarningsGoFirst'
  BY <1>1 DEF EarningsGoFirst, Beside
<1>6. LateExplains'
  BY <1>1, <1>3 DEF LateExplains, Beside
<1> QED  BY <1>4, <1>5, <1>6 DEF ExitInv

\* A transaction moves up, and is still the last.
LEMMA LastMovesUp ==
    ASSUME TypeOK, flights # << >>, flights' = Tail(flights),
           NEW i, LastOf(flights, i), i # 1
    PROVE  LastOf(flights', i - 1) /\ flights'[i - 1] = flights[i]
<1>1. /\ DOMAIN flights = 1 .. Len(flights) /\ Len(flights) \in Nat
      /\ DOMAIN flights' = 1 .. Len(flights) - 1
      /\ \A j \in DOMAIN flights' : j + 1 \in DOMAIN flights /\ flights'[j] = flights[j + 1]
  BY QueueType, OldestLeaves
<1>2. i \in 2 .. Len(flights)
  BY <1>1 DEF LastOf
<1>3. i - 1 \in DOMAIN flights' /\ (i - 1) + 1 = i
  BY <1>1, <1>2
<1>4. flights'[i - 1] = flights[i]
  BY <1>1, <1>3
<1>5. ASSUME NEW j \in DOMAIN flights', j > i - 1 PROVE flights'[j].kind \notin Kinds
  <2>1. j + 1 > i
    BY <1>1, <1>2, <1>5
  <2> QED  BY <1>1, <2>1 DEF LastOf
<1> QED  BY <1>3, <1>4, <1>5 DEF LastOf

\* Where a run goes on after what it awaited.
LEMMA AfterIs ==
    After["withdraw"] = "request" /\ After["request"] = "requested" /\ After["claim"] = "claimed"
BY DEF After

\* A transaction that is mined keeps what runs of exit rely on.
LEMMA MineKeepsExit ==
    ASSUME TypeOK, TypeOK', ExitInv, Mine, UNCHANGED depositVars
    PROVE  ExitInv'
<1>1. AwaitsItsOwn /\ SaysAtTheEnd /\ ReadsInOrder /\ EarningsGoFirst /\ LateExplains
  BY DEF ExitInv
<1>2. /\ flights # << >> /\ flights' = Tail(flights) /\ flights[1].kind \in Kinds
      /\ Left' <= Left /\ balance' <= balance /\ earnings' \in {0, earnings}
      /\ \/ ~Awaited /\ pc' = pc
         \/ Awaited /\ pc' = "idle"
         \/ /\ Awaited /\ pc' = After[flights[1].kind]
            /\ flights[1].kind = "withdraw" => earnings' = 0
            /\ flights[1].kind = "request" => Left' = Left - flights[1].of
  BY MineEffect
<1>3. /\ said' = said /\ lies' = lies /\ late' = late
      /\ pc' # "idle" => s' = s
  BY DEF Mine, Forget, depositVars
<1>4. /\ balance \in Int /\ late \in Nat /\ lies \in Nat /\ earnings \in Nat
      /\ s.bal \in Int /\ s.locked \in Nat /\ free \in Int /\ Left \in Int
  BY Numbers
<1>5. balance' \in Int /\ Left' \in Int
  BY Numbers, NumbersAfter
<1>6. Beside
  <2>1. late' >= late /\ Left' - late' <= Left - late /\ balance' - late' <= balance - late
    <3>1. Left' <= Left /\ balance' <= balance /\ late' = late
      BY <1>2, <1>3
    <3>2. ASSUME NEW a \in Int, NEW b \in Int, NEW c \in Int, a <= b PROVE a - c <= b - c
      BY <3>2
    <3>3. Left' - late <= Left - late /\ balance' - late <= balance - late /\ late >= late
      <4>1. late \in Int
        BY <1>4
      <4>2. Left' - late <= Left - late
        BY <1>4, <1>5, <3>1, <3>2, <4>1
      <4>3. balance' - late <= balance - late
        BY <1>4, <1>5, <3>1, <3>2, <4>1
      <4> QED  BY <4>1, <4>2, <4>3
    <3> QED  BY <3>1, <3>3
  <2> QED  BY <1>2, <1>3, <2>1 DEF Beside
<1>7. /\ DOMAIN flights = 1 .. Len(flights) /\ Len(flights) \in Nat /\ 1 \in DOMAIN flights
      /\ flights[1].of \in Int
  BY <1>2, QueueType, OldestLeaves, FlightType
<1>8. CASE ~Awaited /\ pc' = pc
  <2>1. CASE pc \in Waits
    <3>1. PICK k \in 2 .. Len(flights) : flights[k].kind \in Kinds
      BY <1>8, <2>1 DEF Awaited, Waits
    <3>2. ASSUME NEW i, LastOf(flights, i) PROVE i # 1
      <4>1. SUFFICES ASSUME i = 1 PROVE FALSE
        OBVIOUS
      <4>2. k > 1 /\ k \in DOMAIN flights
        BY <1>7
      <4> QED  BY <3>1, <3>2, <4>1, <4>2 DEF LastOf
    <3>3. \A i : LastOf(flights, i) => \E j : LastOf(flights', j) /\ flights'[j] = flights[i]
      BY <1>2, <3>2, LastMovesUp
    <3>4. s' = s
      BY <1>3, <1>8, <2>1 DEF Waits
    <3> QED  BY <1>6, <1>8, <3>3, <3>4, BesideKeepsInv
  <2>2. CASE pc \notin Waits /\ pc # "idle"
    BY <1>3, <1>6, <1>8, <2>2, BesideKeepsInv
  <2>3. CASE pc = "idle"
    BY <1>6, <1>8, <2>3, EndingKeepsInv
  <2> QED  BY <2>1, <2>2, <2>3
<1>9. CASE Awaited /\ pc' = "idle"
  BY <1>6, <1>9, EndingKeepsInv
<1>10. CASE /\ Awaited /\ pc' = After[flights[1].kind]
            /\ flights[1].kind = "withdraw" => earnings' = 0
            /\ flights[1].kind = "request" => Left' = Left - flights[1].of
  <2>1. pc \in Waits /\ \A j \in 2 .. Len(flights) : flights[j].kind \notin Kinds
    BY <1>10 DEF Awaited, Waits
  <2>2. PICK i \in DOMAIN flights :
            /\ flights[i].kind = CASE pc = "wait withdraw" -> "withdraw"
                                   [] pc = "wait request" -> "request"
                                   [] OTHER -> "claim"
            /\ pc = "wait request" => Left <= flights[i].of + late
    BY <1>1, <2>1 DEF AwaitsItsOwn
  <2>3. i = 1
    <3>1. flights[i].kind \in Kinds
      BY <2>2 DEF Kinds
    <3>2. i \notin 2 .. Len(flights)
      BY <2>1, <3>1
    <3> QED  BY <1>7, <3>2
  <2>4. CASE pc = "wait withdraw"
    <3>1. pc' = "request" /\ flights[1].kind = "withdraw"
      BY <1>10, <2>2, <2>3, <2>4, AfterIs
    <3>2. earnings' = 0 /\ s' = s /\ said' = ""
      BY <1>1, <1>3, <1>10, <2>4, <3>1 DEF SaysAtTheEnd, Deciding
    <3>3. free' = free /\ (Left <= free + late => Left' <= free + late)
      <4>1. free' = free
        BY <3>2 DEF free
      <4>2. free + late \in Int /\ Left' <= Left
        BY <1>2, <1>4
      <4> HIDE DEF free
      <4>3. \A x \in Int : Left <= x => Left' <= x
        BY <1>4, <1>5, <4>2
      <4> QED  BY <4>1, <4>2, <4>3
    <3>4. LateExplains'
      BY <1>1, <1>3, <2>4, <3>1, <3>2, <3>3 DEF LateExplains
    <3>5. AwaitsItsOwn' /\ SaysAtTheEnd' /\ ReadsInOrder' /\ EarningsGoFirst'
      BY <3>1, <3>2
         DEF AwaitsItsOwn, Waits, SaysAtTheEnd, ReadsInOrder, Reading, EarningsGoFirst
    <3> QED  BY <3>4, <3>5 DEF ExitInv
  <2>5. CASE pc = "wait request"
    <3>1. pc' = "requested" /\ flights[1].kind = "request"
      BY <1>10, <2>2, <2>3, <2>5, AfterIs
    <3>2. earnings' = 0 /\ said' = ""
      BY <1>1, <1>2, <1>3, <2>5 DEF EarningsGoFirst, SaysAtTheEnd
    <3>3. Left' <= late'
      <4>1. \A a, b, o, x \in Int : a = b - o /\ b <= o + x => a <= x
        OBVIOUS
      <4>2. Left' = Left - flights[1].of /\ Left <= flights[1].of + late
        BY <1>10, <2>2, <2>3, <2>5, <3>1
      <4>3. Left' <= late
        BY <1>4, <1>5, <1>7, <4>1, <4>2
      <4> QED  BY <1>3, <4>3
    <3>4. LateExplains'
      BY <3>1, <3>2, <3>3 DEF LateExplains
    <3>5. AwaitsItsOwn' /\ SaysAtTheEnd' /\ ReadsInOrder' /\ EarningsGoFirst'
      BY <3>1, <3>2
         DEF AwaitsItsOwn, Waits, SaysAtTheEnd, ReadsInOrder, Reading, EarningsGoFirst
    <3> QED  BY <3>4, <3>5 DEF ExitInv
  <2>6. CASE pc = "wait claim"
    <3>1. pc' = "claimed"
      BY <1>10, <2>2, <2>3, <2>6, AfterIs
    <3> QED  BY <1>6, <3>1, EndingKeepsInv
  <2> QED  BY <2>1, <2>4, <2>5, <2>6 DEF Waits
<1> QED  BY <1>2, <1>8, <1>9, <1>10

\* The script itself, while it reads.
LEMMA ReadingKeepsExit ==
    ASSUME TypeOK, TypeOK', ExitInv, ExitScript, ReadState
    PROVE  ExitInv'
<1>1. AwaitsItsOwn /\ SaysAtTheEnd /\ ReadsInOrder /\ EarningsGoFirst /\ LateExplains
  BY DEF ExitInv
<1>2. /\ balance \in Int /\ late \in Nat /\ lies \in Nat
      /\ s.bal \in Int /\ s.earn \in Nat /\ s.locked \in Nat /\ free \in Int
      /\ locked \in Nat /\ Left \in Int /\ Left <= balance /\ Left = balance - locked
  BY Numbers DEF Left
<1>3. /\ balance' = balance /\ Left' = Left
      /\ late' = IF pc = "read bal" THEN 0 ELSE late
      /\ s \in [bal : Int, earn : Nat, locked : Nat]
  BY ScriptEffect DEF ExitScript, TypeOK
<1>4. said' = said
  BY DEF ReadState, Read
<1>5. pc \in Reading
  BY DEF ReadState, Read, Reading
<1>6. said' = ""
  BY <1>1, <1>4, <1>5 DEF SaysAtTheEnd
<1>7. ASSUME pc' \in {"read earn", "read locked", "confirm earn"}
      PROVE  AwaitsItsOwn' /\ SaysAtTheEnd' /\ EarningsGoFirst'
  BY <1>6, <1>7 DEF AwaitsItsOwn, Waits, SaysAtTheEnd, EarningsGoFirst
<1>8. CASE Read("read bal", "bal", balance, "read earn")
  <2>1. pc = "read bal" /\ pc' = "read earn" /\ late' = 0
    BY <1>3, <1>8 DEF Read
  <2>2. s.locked = 0 /\ s.earn = 0 /\ s.bal = 0
    BY <1>1, <2>1 DEF ReadsInOrder, Reading
  <2>3. \/ s' = [s EXCEPT !["bal"] = balance]
        \/ s' = s /\ lies' = lies + 1
    BY <1>8 DEF Read
  <2>4. s'.locked = 0 /\ s'.earn = 0 /\ (s'.bal = balance \/ (s'.bal = 0 /\ lies' > 0))
    <3>1. CASE s' = [s EXCEPT !["bal"] = balance]
      BY <1>3, <2>2, <3>1
    <3>2. CASE s' = s /\ lies' = lies + 1
      <4>1. lies + 1 > 0
        BY <1>2
      <4> QED  BY <2>2, <3>2, <4>1
    <3> QED  BY <2>3, <3>1, <3>2
  <2>5. ReadsInOrder'
    BY <2>1, <2>4 DEF ReadsInOrder
  <2>6. balance' <= s'.bal + late' \/ (lies' > 0 /\ s'.bal = 0)
    <3>1. balance <= balance + 0
      BY <1>2
    <3> QED  BY <1>3, <2>1, <2>4, <3>1
  <2>7. LateExplains'
    BY <1>6, <2>1, <2>6 DEF LateExplains
  <2> QED  BY <1>7, <2>1, <2>5, <2>7 DEF ExitInv
<1>9. CASE Read("read earn", "earn", earnings, "read locked")
  <2>1. pc = "read earn" /\ pc' = "read locked" /\ late' = late
    BY <1>3, <1>9 DEF Read
  <2>2. \/ s' = [s EXCEPT !["earn"] = earnings] /\ lies' = lies
        \/ s' = s /\ lies' = lies + 1
    BY <1>9 DEF Read
  <2>3. s'.locked = s.locked /\ s'.bal = s.bal
    BY <1>3, <2>2
  <2>4. s.locked = 0
    BY <1>1, <2>1 DEF ReadsInOrder, Reading
  <2>5. ReadsInOrder'
    BY <2>1, <2>3, <2>4 DEF ReadsInOrder
  <2>6. balance' <= s'.bal + late' \/ (lies' > 0 /\ s'.bal = 0)
    <3>1. lies > 0 => lies' > 0
      BY <1>2, <2>2
    <3>2. balance <= s.bal + late \/ (lies > 0 /\ s.bal = 0)
      BY <1>1, <2>1 DEF LateExplains
    <3> QED  BY <1>3, <2>1, <2>3, <3>1, <3>2
  <2>7. LateExplains'
    BY <1>6, <2>1, <2>6 DEF LateExplains
  <2> QED  BY <1>7, <2>1, <2>5, <2>7 DEF ExitInv
<1>10. CASE Read("read locked", "locked", locked, "confirm earn")
  <2>1. pc = "read locked" /\ pc' = "confirm earn" /\ late' = late
    BY <1>3, <1>10 DEF Read
  <2>2. \/ s' = [s EXCEPT !["locked"] = locked] /\ lies' = lies
        \/ s' = s /\ lies' = lies + 1
    BY <1>10 DEF Read
  <2>3. s.locked = 0
    BY <1>1, <2>1 DEF ReadsInOrder, Reading
  <2>4. /\ s'.locked \in {0, locked} /\ s'.bal = s.bal
        /\ lies > 0 => lies' > 0
    <3>1. lies + 1 > 0
      BY <1>2
    <3>2. CASE s' = [s EXCEPT !["locked"] = locked] /\ lies' = lies
      BY <1>3, <3>2
    <3>3. CASE s' = s /\ lies' = lies + 1
      BY <2>3, <3>1, <3>3
    <3> QED  BY <2>2, <3>2, <3>3
  <2>5. ReadsInOrder'
    BY <2>1 DEF ReadsInOrder, Reading
  <2>6. free' = s.bal - s'.locked
    BY <2>4 DEF free
  <2>7. balance <= s.bal + late \/ (lies > 0 /\ s.bal = 0)
    BY <1>1, <2>1 DEF LateExplains
  <2>8. Left' <= free' + late' \/ (lies' > 0 /\ s'.bal = 0)
    <3>1. CASE balance <= s.bal + late
      <4>1. Left <= s.bal - s'.locked + late
        <5>1. CASE s'.locked = 0
          BY <1>2, <3>1, <5>1
        <5>2. CASE s'.locked = locked
          BY <1>2, <3>1, <5>2
        <5> QED  BY <2>4, <5>1, <5>2
      <4> QED  BY <1>3, <2>1, <2>6, <4>1
    <3>2. CASE lies > 0 /\ s.bal = 0
      BY <2>4, <3>2
    <3> QED  BY <2>7, <3>1, <3>2
  <2>9. LateExplains'
    BY <1>6, <2>1, <2>8 DEF LateExplains
  <2> QED  BY <1>7, <2>1, <2>5, <2>9 DEF ExitInv
<1> QED  BY <1>8, <1>9, <1>10 DEF ReadState

\* A transaction that is sent is the last.
LEMMA SentIsLast ==
    ASSUME TypeOK, NEW t \in Flight, t.kind \in Kinds, flights' = Append(flights, t)
    PROVE  \E n : LastOf(flights', n) /\ flights'[n] = t
<1> DEFINE n == Len(flights) + 1
<1>1. n \in Nat /\ DOMAIN flights' = 1 .. n /\ flights'[n] = t
  BY OneIsSent, QueueType
<1>2. 1 <= n
  BY QueueType
<1> HIDE DEF n
<1>3. n \in DOMAIN flights'
  BY <1>1, <1>2
<1>4. \A j \in DOMAIN flights' : ~ (j > n)
  BY <1>1
<1> QED  BY <1>1, <1>3, <1>4 DEF LastOf

\* What the script has sent last is awaited.
LEMMA SendingAwaits ==
    ASSUME TypeOK, NEW at, NEW kind \in Kinds, NEW of \in Int, NEW next \in Waits,
           Send(at, kind, of, next),
           kind = CASE next = "wait withdraw" -> "withdraw"
                    [] next = "wait request" -> "request"
                    [] OTHER -> "claim",
           next = "wait request" => Left' <= of + late'
    PROVE  AwaitsItsOwn'
<1> DEFINE t == [kind |-> kind, of |-> of]
<1>1. pc' = next /\ flights' = Append(flights, t)
  BY DEF Send
<1>2. t \in Flight /\ t.kind = kind /\ t.of = of
  BY DEF Flight
<1> HIDE DEF t
<1>3. PICK n : LastOf(flights', n) /\ flights'[n] = t
  BY <1>1, <1>2, SentIsLast
<1> QED  BY <1>1, <1>2, <1>3 DEF AwaitsItsOwn, LastOf

\* Every step of the exit script keeps what it relies on.
LEMMA ScriptKeepsExit ==
    ASSUME TypeOK, TypeOK', ExitInv, ExitScript
    PROVE  ExitInv'
<1>1. AwaitsItsOwn /\ SaysAtTheEnd /\ ReadsInOrder /\ EarningsGoFirst /\ LateExplains
  BY DEF ExitInv
<1>2. /\ balance \in Int /\ earnings \in Nat /\ late \in Nat /\ lies \in Nat
      /\ s.bal \in Int /\ s.earn \in Nat /\ s.locked \in Nat /\ free \in Int
      /\ locked \in Nat /\ Left \in Int /\ Left = balance - locked
      /\ free = s.bal - s.locked
  BY Numbers DEF Left, free
<1>3. /\ balance' = balance /\ earnings' = earnings /\ Left' = Left
      /\ late' = IF pc = "read bal" THEN 0 ELSE late
  BY ScriptEffect DEF ExitScript
<1>4. CASE ReadState
  BY <1>4, ReadingKeepsExit
<1>5. ASSUME pc # "read bal", said' = said, lies' = lies PROVE Beside
  <2>1. /\ late >= late /\ Left - late <= Left - late /\ balance - late <= balance - late
    BY <1>2
  <2>2. late' = late /\ Left' = Left /\ balance' = balance /\ earnings' = earnings
    BY <1>3, <1>5
  <2> QED  BY <1>5, <2>1, <2>2 DEF Beside
<1>6. ASSUME NEW at, Goes(at, "idle"), at # "read bal" PROVE ExitInv'
  <2>1. pc # "read bal" /\ said' = said /\ lies' = lies /\ pc' = "idle"
    BY <1>6 DEF Goes
  <2> QED  BY <1>5, <2>1, EndingKeepsInv
<1>7. ASSUME NEW at, NEW next, Goes(at, next), at # "read bal", next # "idle"
      PROVE  /\ pc = at /\ pc' = next /\ s' = s /\ free' = free
             /\ said' = said /\ lies' = lies /\ late' = late
  BY <1>3, <1>7 DEF Goes, Forget, free
<1>8. CASE Confirmed(s.earn, earnings) /\ Goes("confirm earn", "confirm free")
  <2>1. /\ pc = "confirm earn" /\ pc' = "confirm free" /\ s' = s /\ free' = free
        /\ said' = said /\ lies' = lies /\ late' = late
    BY <1>7, <1>8
  <2>2. said' = "" /\ (s'.earn = 0 => earnings' = 0)
    BY <1>1, <1>3, <1>8, <2>1 DEF SaysAtTheEnd, Deciding, Confirmed
  <2>3. AwaitsItsOwn' /\ SaysAtTheEnd' /\ ReadsInOrder' /\ EarningsGoFirst'
    BY <2>1, <2>2
       DEF AwaitsItsOwn, Waits, SaysAtTheEnd, ReadsInOrder, Reading, EarningsGoFirst
  <2>4. LateExplains'
    BY <1>1, <1>3, <2>1, <2>2 DEF LateExplains
  <2> QED  BY <2>3, <2>4 DEF ExitInv
<1>9. CASE Confirmed(free, balance - locked) /\ Goes("confirm free", "withdraw")
  <2>1. /\ pc = "confirm free" /\ pc' = "withdraw" /\ s' = s /\ free' = free
        /\ said' = said /\ lies' = lies /\ late' = late
    BY <1>7, <1>9
  <2>2. said' = "" /\ (s'.earn = 0 => earnings' = 0)
    BY <1>1, <1>3, <2>1 DEF SaysAtTheEnd, Deciding, EarningsGoFirst
  <2>3. AwaitsItsOwn' /\ SaysAtTheEnd' /\ ReadsInOrder' /\ EarningsGoFirst'
    BY <2>1, <2>2
       DEF AwaitsItsOwn, Waits, SaysAtTheEnd, ReadsInOrder, Reading, EarningsGoFirst
  <2>4. free = 0 => Left = 0
    BY <1>2, <1>9 DEF Confirmed
  <2>5. Left <= free + late \/ (lies > 0 /\ s.bal = 0)
    BY <1>1, <2>1 DEF LateExplains
  <2>6. Left <= free + late \/ (lies > 0 /\ s.bal = 0 /\ s.locked > 0)
    <3>1. CASE free = 0
      BY <1>2, <2>4, <3>1
    <3>2. CASE free # 0
      BY <1>2, <2>5, <3>2
    <3> QED  BY <3>1, <3>2
  <2>7. LateExplains'
    BY <1>3, <2>1, <2>2, <2>6 DEF LateExplains
  <2> QED  BY <2>3, <2>7 DEF ExitInv
<1>10. CASE s.earn > 0 /\ Send("withdraw", "withdraw", s.earn, "wait withdraw")
  <2>1. /\ pc = "withdraw" /\ pc' = "wait withdraw" /\ s' = s /\ free' = free
        /\ said' = said /\ lies' = lies /\ late' = late
    BY <1>3, <1>10 DEF Send, free
  <2>2. said' = ""
    BY <1>1, <2>1 DEF SaysAtTheEnd, Deciding
  <2>3. AwaitsItsOwn'
    <3>1. "withdraw" \in Kinds /\ "wait withdraw" \in Waits /\ s.earn \in Int
      BY <1>2 DEF Kinds, Waits
    <3> QED  BY <1>10, <3>1, SendingAwaits
  <2>4. SaysAtTheEnd' /\ ReadsInOrder' /\ EarningsGoFirst'
    BY <2>1, <2>2 DEF SaysAtTheEnd, ReadsInOrder, Reading, EarningsGoFirst
  <2>5. LateExplains'
    BY <1>1, <1>3, <2>1, <2>2 DEF LateExplains
  <2> QED  BY <2>3, <2>4, <2>5 DEF ExitInv
<1>11. CASE s.earn = 0 /\ Goes("withdraw", "request")
  <2>1. /\ pc = "withdraw" /\ pc' = "request" /\ s' = s /\ free' = free
        /\ said' = said /\ lies' = lies /\ late' = late
    BY <1>7, <1>11
  <2>2. said' = "" /\ earnings' = 0
    BY <1>1, <1>3, <1>11, <2>1 DEF SaysAtTheEnd, Deciding, EarningsGoFirst
  <2>3. AwaitsItsOwn' /\ SaysAtTheEnd' /\ ReadsInOrder' /\ EarningsGoFirst'
    BY <2>1, <2>2
       DEF AwaitsItsOwn, Waits, SaysAtTheEnd, ReadsInOrder, Reading, EarningsGoFirst
  <2>4. LateExplains'
    BY <1>1, <1>3, <2>1, <2>2 DEF LateExplains
  <2> QED  BY <2>3, <2>4 DEF ExitInv
<1>12. CASE free > 0 /\ Send("request", "request", free, "wait request")
  <2>1. /\ pc = "request" /\ pc' = "wait request"
        /\ said' = said /\ lies' = lies /\ late' = late
    BY <1>3, <1>12 DEF Send
  <2>2. said' = "" /\ earnings' = 0
    BY <1>1, <1>3, <2>1 DEF SaysAtTheEnd, Deciding, EarningsGoFirst
  <2>3. Left <= free + late
    <3>1. Left <= free + late \/ (lies > 0 /\ s.bal = 0 /\ s.locked > 0)
      BY <1>1, <2>1 DEF LateExplains
    <3>2. ~ (s.bal = 0 /\ s.locked > 0)
      <4>1. \A a, b \in Int : a - b > 0 => ~ (a = 0 /\ b > 0)
        OBVIOUS
      <4>2. s.bal - s.locked > 0
        BY <1>2, <1>12
      <4> QED  BY <1>2, <4>1, <4>2
    <3> QED  BY <3>1, <3>2
  <2>4. AwaitsItsOwn'
    <3>1. Left' <= free + late'
      BY <1>3, <2>1, <2>3
    <3> QED  BY <1>2, <1>12, <3>1, SendingAwaits DEF Waits, Kinds
  <2>5. SaysAtTheEnd' /\ ReadsInOrder' /\ EarningsGoFirst'
    BY <2>1, <2>2 DEF SaysAtTheEnd, ReadsInOrder, Reading, EarningsGoFirst
  <2>6. LateExplains'
    BY <2>1, <2>2 DEF LateExplains
  <2> QED  BY <2>4, <2>5, <2>6 DEF ExitInv
<1>13. ASSUME pc' = "idle", earnings' = 0,
              Left' <= late' \/ (said' = "locked" /\ lies' > 0)
       PROVE  ExitInv'
  <2>1. AwaitsItsOwn' /\ SaysAtTheEnd' /\ ReadsInOrder' /\ EarningsGoFirst'
    BY <1>13 DEF AwaitsItsOwn, Waits, SaysAtTheEnd, ReadsInOrder, Reading, Deciding,
                 EarningsGoFirst
  <2>2. LateExplains'
    BY <1>13 DEF LateExplains
  <2> QED  BY <2>1, <2>2 DEF ExitInv
<1>14. CASE free <= 0 /\ (\/ s.locked > 0 /\ Says("request", "locked")
                          \/ s.locked = 0 /\ Says("request", "nothing"))
  <2>1. /\ pc = "request" /\ pc' = "idle" /\ lies' = lies /\ late' = late
        /\ \/ s.locked > 0 /\ said' = "locked"
           \/ s.locked = 0
    BY <1>3, <1>14 DEF Says
  <2>2. earnings' = 0
    BY <1>1, <1>3, <2>1 DEF EarningsGoFirst
  <2>3. Left <= free + late \/ (lies > 0 /\ s.bal = 0 /\ s.locked > 0)
    BY <1>1, <2>1 DEF LateExplains
  <2>4. Left <= late \/ (lies > 0 /\ s.locked > 0)
    BY <1>2, <1>14, <2>3
  <2>5. s.locked = 0 => ~ (s.locked > 0)
    BY <1>2
  <2> QED  BY <1>3, <1>13, <2>1, <2>2, <2>4, <2>5
<1>15. CASE Says("requested", "requested")
  <2>1. pc = "requested" /\ pc' = "idle" /\ late' = late
    BY <1>3, <1>15 DEF Says
  <2>2. earnings' = 0 /\ Left' <= late'
    BY <1>1, <1>3, <2>1 DEF EarningsGoFirst, LateExplains
  <2> QED  BY <1>13, <2>1, <2>2
<1>16. CASE claiming \in Open /\ Send("claim", "claim", claiming, "wait claim")
  <2>1. /\ pc = "claim" /\ pc' = "wait claim"
        /\ said' = said /\ lies' = lies /\ late' = late
    BY <1>3, <1>16 DEF Send
  <2>2. claiming \in Int
    <3>1. Open \subseteq Nat
      BY LeftType
    <3>2. claiming \in Open
      BY <1>16
    <3>3. claiming \in Nat
      BY <3>1, <3>2
    <3> QED  BY <3>3
  <2>3. AwaitsItsOwn'
    BY <1>16, <2>2, SendingAwaits DEF Waits, Kinds
  <2>4. SaysAtTheEnd' /\ ReadsInOrder' /\ EarningsGoFirst'
    BY <1>1, <1>3, <2>1 DEF SaysAtTheEnd, ReadsInOrder, Reading, Deciding, EarningsGoFirst
  <2>5. LateExplains'
    BY <1>1, <1>3, <2>1 DEF LateExplains
  <2> QED  BY <2>3, <2>4, <2>5 DEF ExitInv
<1> QED
  BY <1>4, <1>6, <1>8, <1>9, <1>10, <1>11, <1>12, <1>14, <1>15, <1>16
     DEF ExitScript, Script, ConfirmZeros, Exit, ClaimRefund

\* Every step of the system keeps what runs of exit rely on.
LEMMA ExitKept ==
    ASSUME TypeOK, ExitInv, [MigrationNext]_migrationVars
    PROVE  ExitInv'
<1>1. TypeOK'
  BY TypeStep
<1>2. /\ balance \in Int /\ late \in Nat /\ lies \in Nat /\ earnings \in Nat
      /\ locked \in Nat /\ Left \in Int
  BY Numbers
<1>3. ASSUME flights' = flights
      PROVE  \A i : LastOf(flights, i) => \E j : LastOf(flights', j) /\ flights'[j] = flights[i]
  BY <1>3
<1>4. ASSUME balance' = balance, earnings' = earnings, requests' = requests,
             said' = said, lies' = lies, late' = late
      PROVE  Beside
  <2>1. Left' = Left
    BY <1>4, LockedIsLockedIn DEF Left
  <2> QED  BY <1>2, <1>4, <2>1 DEF Beside
<1>5. CASE Tick /\ UNCHANGED depositVars
  <2>1. PICK id \in DOMAIN requests : requests' = [requests EXCEPT ![id].due = TRUE]
    BY <1>5 DEF Tick
  <2>2. locked' = locked
    BY <2>1, LockedByTick, LockedIsLockedIn DEF TypeOK
  <2>3. /\ balance' = balance /\ earnings' = earnings /\ said' = said /\ lies' = lies
        /\ late' = late /\ flights' = flights /\ pc' = pc /\ s' = s
    BY <1>5 DEF Tick, depositVars
  <2>4. Left' = Left
    BY <2>2, <2>3 DEF Left
  <2>5. Beside
    BY <1>2, <2>3, <2>4 DEF Beside
  <2> QED  BY <1>1, <1>3, <2>3, <2>5, BesideKeepsInv
<1>6. CASE Mine /\ UNCHANGED depositVars
  BY <1>1, <1>6, MineKeepsExit
<1>7. CASE Die /\ UNCHANGED depositVars
  <2>1. Beside /\ pc' = "idle"
    BY <1>4, <1>7 DEF Die, depositVars, chainVars
  <2> QED  BY <1>1, <2>1, EndingKeepsInv
<1>8. ASSUME pc' = "read bal", s' = Unread, said' = "" PROVE ExitInv'
  <2>1. s'.bal = 0 /\ s'.earn = 0 /\ s'.locked = 0
    BY <1>8 DEF Unread
  <2>2. AwaitsItsOwn' /\ SaysAtTheEnd' /\ ReadsInOrder' /\ EarningsGoFirst' /\ LateExplains'
    BY <1>8, <2>1 DEF AwaitsItsOwn, Waits, SaysAtTheEnd, ReadsInOrder, Reading,
                      EarningsGoFirst, LateExplains
  <2> QED  BY <2>2 DEF ExitInv
<1>9. CASE Start /\ UNCHANGED depositVars
  <2>1. /\ s' = Unread /\ said' = said
        /\ \/ said = "" /\ pc' = "read bal"
           \/ pc' = "claim"
    BY <1>9 DEF Start
  <2>2. Beside
    BY <1>4, <1>9 DEF Start, depositVars, chainVars
  <2> QED  BY <1>1, <1>8, <2>1, <2>2, EndingKeepsInv
<1>10. CASE ExitScript
  BY <1>1, <1>10, ScriptKeepsExit
<1>11. CASE ExitAgain
  BY <1>8, <1>11 DEF ExitAgain
<1>12. CASE \/ StartDeposit \/ ReadAfter \/ EndDeposit \/ DieDepositing
            \/ UNCHANGED migrationVars
  <2>1. /\ balance' = balance /\ earnings' = earnings /\ requests' = requests
        /\ said' = said /\ lies' = lies /\ late' = late
        /\ flights' = flights /\ pc' = pc /\ s' = s
    BY <1>12 DEF StartDeposit, ReadAfter, EndDeposit, DepositGoes, UnchangedButDeposit,
                 DieDepositing, migrationVars, depositVars, vars, chainVars
  <2> QED  BY <1>1, <1>3, <1>4, <2>1, BesideKeepsInv
<1>13. CASE SendDeposit
  <2> DEFINE t == [kind |-> "deposit", of |-> runs, on |-> d.on]
  <2>1. /\ balance' = balance /\ earnings' = earnings /\ requests' = requests
        /\ said' = said /\ lies' = lies /\ late' = late /\ pc' = pc /\ s' = s
        /\ flights' = Append(flights, t)
    BY <1>13 DEF SendDeposit, UnchangedButDeposit, chainVars
  <2>2. t \in Flight /\ t.kind = "deposit"
    BY <1>13, DepositType DEF SendDeposit, Flight, TypeOK
  <2> HIDE DEF t
  <2>3. /\ DOMAIN flights' = 1 .. Len(flights) + 1 /\ Len(flights) \in Nat
        /\ DOMAIN flights = 1 .. Len(flights)
        /\ \A i \in DOMAIN flights : i \in DOMAIN flights' /\ flights'[i] = flights[i]
        /\ flights'[Len(flights) + 1].kind \notin Kinds
    BY <2>1, <2>2, OneIsSent, QueueType DEF Kinds
  <2>4. \A i : LastOf(flights, i) => LastOf(flights', i) /\ flights'[i] = flights[i]
    BY <2>3 DEF LastOf
  <2> QED  BY <1>1, <1>4, <2>1, <2>4, BesideKeepsInv
<1>14. CASE MineDeposit
  <2>1. /\ flights # << >> /\ flights' = Tail(flights) /\ flights[1].kind = "deposit"
        /\ earnings' = earnings
        /\ late' >= late /\ balance' - balance = late' - late
        /\ Left' - Left = late' - late
    BY <1>14, MineDepositEffect
  <2>2. pc' = pc /\ s' = s /\ said' = said /\ lies' = lies
    BY <1>14 DEF MineDeposit
  <2>3. balance' \in Int /\ late' \in Nat /\ Left' \in Int
    BY <1>1, NumbersAfter
  <2>4. Beside
    <3>1. ASSUME NEW a \in Int, NEW b \in Int, NEW p \in Int, NEW q \in Int, a - b = p - q
          PROVE  a - p <= b - q
      BY <3>1
    <3>2. Left' - late' <= Left - late /\ balance' - late' <= balance - late
      <4>1. late \in Int /\ late' \in Int /\ balance \in Int /\ Left \in Int
        BY <1>2, <2>3
      <4> QED  BY <2>1, <2>3, <3>1, <4>1
    <3> QED  BY <2>1, <2>2, <3>2 DEF Beside
  <2>5. \A i : LastOf(flights, i) => i # 1
    BY <2>1 DEF LastOf, Kinds
  <2>6. \A i : LastOf(flights, i) => \E j : LastOf(flights', j) /\ flights'[j] = flights[i]
    BY <2>1, <2>5, LastMovesUp
  <2> QED  BY <1>1, <2>2, <2>4, <2>6, BesideKeepsInv
<1> QED
  BY <1>5, <1>6, <1>7, <1>9, <1>10, <1>11, <1>12, <1>13, <1>14
     DEF MigrationNext, ExitStep, DepositScript
-----------------------------------------------------------------------------
\* The invariant holds at first.
LEMMA InitInv == MigrationInit => Inv
<1> SUFFICES ASSUME MigrationInit PROVE Inv
  OBVIOUS
<1>1. /\ balance \in Deposits /\ earnings \in Earned /\ wallet = Funds
      /\ flights = << >> /\ pc = "idle" /\ s = Unread /\ said = "" /\ lies = 0
      /\ credited = 0 /\ d = Idle /\ runs = 0 /\ late = 0
  BY DEF MigrationInit, Init
<1>2. requests \in Seq(Requests)
  <2>1. PICK old \in Locks : requests = IF old = 0 THEN << >> ELSE <<Request(old, TRUE)>>
    BY DEF MigrationInit, Init
  <2>2. Request(old, TRUE) \in Requests
    BY ExitAssumption DEF Request, Requests
  <2>3. << >> \in Seq(Requests)
    OBVIOUS
  <2>4. \A r \in Requests : <<r>> \in Seq(Requests)
    OBVIOUS
  <2>5. <<Request(old, TRUE)>> \in Seq(Requests)
    BY <2>2, <2>4
  <2> QED  BY <2>1, <2>3, <2>5
<1>3. TypeOK
  <2>1. balance \in Nat /\ earnings \in Nat /\ Funds \in Nat
    BY <1>1, ExitAssumption
  <2>2. wallet = Funds /\ credited = 0 /\ runs = 0 /\ late = 0 /\ lies = 0
    BY <1>1
  <2>3. /\ balance \in Int /\ wallet \in Int /\ credited \in Int
        /\ earnings \in Nat /\ runs \in Nat /\ late \in Nat /\ lies \in Nat
    BY <2>1, <2>2
  <2>4. flights \in Seq(Flight)
    <3>1. << >> \in Seq(Flight)
      OBVIOUS
    <3> QED  BY <1>1, <3>1
  <2>5. s \in [bal : Int, earn : Nat, locked : Nat]
    <3>1. Unread \in [bal : Int, earn : Nat, locked : Nat]
      BY DEF Unread
    <3> QED  BY <1>1, <3>1
  <2>6. d \in Deposit \cup {Idle}
    BY <1>1
  <2> QED  BY <1>2, <2>3, <2>4, <2>5, <2>6 DEF TypeOK
<1>4. OneDepositARun
  <2>1. DOMAIN flights = {}
    <3>1. flights = << >>
      BY <1>1
    <3> QED  BY <3>1
  <2> QED  BY <2>1 DEF OneDepositARun
<1>5. ExitInv
  BY <1>1 DEF ExitInv, AwaitsItsOwn, Waits, SaysAtTheEnd, Reading, Deciding, ReadsInOrder,
              EarningsGoFirst, LateExplains
<1>6. OthersShowNothing
  BY <1>1 DEF OthersShowNothing, Idle
<1> QED  BY <1>3, <1>4, <1>5, <1>6 DEF Inv, ExitInv

\* Every step keeps it.
LEMMA NextInv == Inv /\ [MigrationNext]_migrationVars => Inv'
<1> SUFFICES ASSUME Inv, [MigrationNext]_migrationVars PROVE Inv'
  OBVIOUS
<1>1. TypeOK /\ OneDepositARun /\ OthersShowNothing /\ ExitInv
  BY DEF Inv, ExitInv
<1> QED  BY <1>1, TypeStep, DepositStep, OthersStep, ExitKept DEF Inv, ExitInv

\* When mainnet-deposit.js says that the deposit is credited, the deposit of
\* this run is mined on one of the two contracts, however many earlier runs died
\* with theirs in flight and whatever contract was given.
THEOREM CreditsAreTheirRuns == MigrationSpec => []CreditIsThisRuns
<1>1. Inv => CreditIsThisRuns
  <2> SUFFICES ASSUME Inv, d.pc = "credited" PROVE CreditIsThisRuns
    BY DEF CreditIsThisRuns
  <2> QED  BY DEF Inv, OneDepositARun, OthersShowNothing, CreditIsThisRuns
<1> QED  BY <1>1, InitInv, NextInv, PTL DEF MigrationSpec

\* A run of exit that ends well leaves no earnings, and outside of requests only
\* what was deposited after it had read the balance; or it has believed a zero.
THEOREM OnlyLateIsLeft == MigrationSpec => []LeftBehindCameLate
<1>1. Inv => LeftBehindCameLate
  <2> SUFFICES ASSUME Inv, said # "" PROVE LeftBehindCameLate
    BY DEF LeftBehindCameLate
  <2>1. earnings = 0 /\ (Left <= late \/ (said = "locked" /\ lies > 0))
    BY DEF Inv, EarningsGoFirst, LateExplains
  <2> QED  BY <2>1 DEF LeftBehindCameLate, Left
<1> QED  BY <1>1, InitInv, NextInv, PTL DEF MigrationSpec
=============================================================================
