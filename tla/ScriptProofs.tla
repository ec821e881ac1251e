---------------------------- MODULE ScriptProofs ----------------------------
(***************************************************************************)
(* The drills on the Calibration contract, however they are interrupted    *)
(* and repeated, and the receipt verifier, for batches of every size.      *)
(***************************************************************************)
EXTENDS CalibrationDrills, VerifyReceipt, LockupQueueTheorems

(* The drills *)

Keys == {deployer, user}
Names == {"rotation", "edgecases", "verify"}

\* The calls of the drills.
DrillCalls ==
    [by : Keys,
     function : {"setOperator", "pause", "unpause", "transferOwnership",
                 "setPlatformFee", "depositFIL"},
     arg : Keys \cup {NoOne, 400}, refused : BOOLEAN]

\* A drill that runs is at one of its calls, and one that waits has that call in
\* flight, after every other call of the same key.
DrillsAtCall ==
    /\ owner = deployer
    /\ flights \in [Keys -> Seq(DrillCalls)]
    /\ \A key \in Keys : \A i \in DOMAIN flights[key] : flights[key][i].by = key
    /\ drill \in Names \cup {"none"}
    /\ drill # "none" => step \in 1 .. Len(Drills[drill])
    /\ waiting =>
        /\ drill # "none"
        /\ flights[call.by] # <<>>
        /\ flights[call.by][Len(flights[call.by])] = call

\* A rotation that has come to its end leaves nothing in flight of the owner, and
\* only the owner's calls change the operator.
DrillsInv ==
    /\ DrillsAtCall
    /\ ended # "none" => drill = "none"
    /\ ended = "rotation" => operator = deployer /\ flights[deployer] = <<>>

\* Every drill is a sequence of calls, and the rotation ends with the owner's
\* giving the role back to itself.
LEMMA DrillsOfCalls ==
    /\ DOMAIN Drills = Names
    /\ \A name \in Names : Drills[name] \in Seq(DrillCalls) /\ Drills[name] # <<>>
    /\ Len(Drills["rotation"]) = 3
    /\ Drills["rotation"][3] = send(deployer, "setOperator", deployer)
<1>1. DOMAIN Drills = Names
  BY DEF Drills, Names
<1>2. /\ Drills["rotation"] = rotation /\ Drills["edgecases"] = edgecases
      /\ Drills["verify"] = verify
  BY DEF Drills
<1>3. \A by \in Keys, arg \in Keys \cup {NoOne, 400},
         function \in {"setOperator", "pause", "unpause", "transferOwnership",
                       "setPlatformFee", "depositFIL"} :
        /\ send(by, function, arg) \in DrillCalls
        /\ expectRevert(by, function, arg) \in DrillCalls
  BY DEF send, expectRevert, DrillCalls
<1>4. rotation \in Seq(DrillCalls) /\ rotation # <<>> /\ Len(rotation) = 3
      /\ rotation[3] = send(deployer, "setOperator", deployer)
  <2>1. \A a, b, c \in DrillCalls :
            /\ <<a, b, c>> \in Seq(DrillCalls) /\ <<a, b, c>> # <<>>
            /\ Len(<<a, b, c>>) = 3 /\ <<a, b, c>>[3] = c
    OBVIOUS
  <2> QED  BY <1>3, <2>1 DEF rotation, Keys
<1>5. edgecases \in Seq(DrillCalls) /\ edgecases # <<>>
  <2>1. \A a, b, c, d, e, f \in DrillCalls :
            <<a, b, c, d, e, f>> \in Seq(DrillCalls) /\ <<a, b, c, d, e, f>> # <<>>
    OBVIOUS
  <2> QED  BY <1>3, <2>1 DEF edgecases, Keys
<1>6. verify \in Seq(DrillCalls) /\ verify # <<>>
  <2>1. \A a \in DrillCalls : <<a>> \in Seq(DrillCalls) /\ <<a>> # <<>>
    OBVIOUS
  <2> QED  BY <1>3, <2>1 DEF verify, Keys
<1> QED  BY <1>1, <1>2, <1>4, <1>5, <1>6 DEF Names

\* A running drill is at a call of one of the two keys.
LEMMA CallIsOfKey ==
    ASSUME DrillsAtCall, drill # "none"
    PROVE  /\ drill \in Names /\ call \in DrillCalls /\ call.by \in Keys
           /\ Len(Drills[drill]) \in Nat /\ step \in 1 .. Len(Drills[drill])
<1>1. drill \in Names /\ step \in 1 .. Len(Drills[drill])
  BY DEF DrillsAtCall
<1>2. Drills[drill] \in Seq(DrillCalls)
  BY <1>1, DrillsOfCalls
<1>3. \A s \in Seq(DrillCalls) : \A i \in 1 .. Len(s) : Len(s) \in Nat /\ s[i] \in DrillCalls
  OBVIOUS
<1>4. call \in DrillCalls /\ Len(Drills[drill]) \in Nat
  BY <1>1, <1>2, <1>3 DEF call
<1>5. \A c \in DrillCalls : c.by \in Keys
  BY DEF DrillCalls
<1> QED  BY <1>1, <1>4, <1>5

\* Whatever a script does when it goes on or stops, it waits for nothing and is
\* at a call again, or has ended.
LEMMA OnwardAtCall ==
    ASSUME DrillsAtCall, drill # "none", GoesOn \/ Stops
    PROVE  /\ waiting' = FALSE /\ drill' \in Names \cup {"none"}
           /\ drill' # "none" => step' \in 1 .. Len(Drills[drill'])
<1>1. /\ drill \in Names /\ Len(Drills[drill]) \in Nat
      /\ step \in 1 .. Len(Drills[drill])
  BY CallIsOfKey
<1>2. CASE Stops
  BY <1>2 DEF Stops
<1>3. CASE GoesOn
  <2>1. CASE step < Len(Drills[drill])
    BY <1>1, <1>3, <2>1 DEF GoesOn
  <2>2. CASE ~ (step < Len(Drills[drill]))
    BY <1>1, <1>3, <2>2 DEF GoesOn
  <2> QED  BY <2>1, <2>2
<1> QED  BY <1>2, <1>3

\* A script that goes on or stops leaves the state of no finished drill, unless it
\* was at the last call of that drill.
LEMMA OnwardEnds ==
    ASSUME DrillsInv, drill # "none", GoesOn \/ Stops
    PROVE  /\ ended' # "none" => drill' = "none"
           /\ ended' = "rotation" =>
                GoesOn /\ drill = "rotation" /\ call = send(deployer, "setOperator", deployer)
<1>1. ended = "none"
  BY DEF DrillsInv
<1>2. CASE Stops
  BY <1>1, <1>2 DEF Stops
<1>3. CASE GoesOn
  <2>1. CASE step < Len(Drills[drill])
    BY <1>1, <1>3, <2>1 DEF GoesOn
  <2>2. CASE ~ (step < Len(Drills[drill]))
    <3>1. ended' = drill /\ drill' = "none"
      BY <1>3, <2>2 DEF GoesOn
    <3>2. ASSUME drill = "rotation"
          PROVE  call = send(deployer, "setOperator", deployer)
      <4>1. step = 3
        BY <2>2, <3>2, DrillsOfCalls, CallIsOfKey DEF DrillsInv
      <4> QED  BY <3>2, <4>1, DrillsOfCalls DEF call
    <3> QED  BY <1>3, <3>1, <3>2
  <2> QED  BY <2>1, <2>2
<1> QED  BY <1>2, <1>3

\* The invariant holds before any drill has been run.
LEMMA DrillsInitInv == DrillsInit => DrillsInv
BY DEF DrillsInit, DrillsInv, DrillsAtCall, Keys

\* Sending the call of a step puts it behind the other calls of its key.
LEMMA CallInv ==
    ASSUME DrillsInv, Call
    PROVE  DrillsInv'
<1>1. /\ drill \in Names /\ call \in DrillCalls /\ call.by \in Keys
      /\ drill # "none" /\ DrillsAtCall /\ ended = "none"
  BY CallIsOfKey DEF DrillsInv, Call
<1>2. UNCHANGED contractVars
  BY DEF Call
<1>3. CASE Succeeds(call)
  <2> DEFINE key == call.by
             fl  == flights[key]
  <2>1. /\ flights' = [flights EXCEPT ![key] = Append(fl, call)]
        /\ waiting' = TRUE /\ UNCHANGED <<drill, step, ended>>
    BY <1>3 DEF Call
  <2>2. fl \in Seq(DrillCalls) /\ \A i \in DOMAIN fl : fl[i].by = key
    BY <1>1 DEF DrillsAtCall
  <2>3. call' = call
    BY <2>1 DEF call
  <2>4. /\ Append(fl, call) \in Seq(DrillCalls) /\ Append(fl, call) # <<>>
        /\ Append(fl, call)[Len(Append(fl, call))] = call
        /\ \A i \in DOMAIN Append(fl, call) : Append(fl, call)[i].by = key
    <3>1. \A s \in Seq(DrillCalls) : \A c \in DrillCalls :
            /\ Append(s, c) \in Seq(DrillCalls) /\ Append(s, c) # <<>>
            /\ Len(Append(s, c)) = Len(s) + 1
            /\ Append(s, c)[Len(s) + 1] = c
            /\ DOMAIN Append(s, c) = 1 .. Len(s) + 1 /\ DOMAIN s = 1 .. Len(s)
            /\ \A i \in 1 .. Len(s) : Append(s, c)[i] = s[i]
      OBVIOUS
    <3>2. \A i \in 1 .. Len(fl) + 1 : i \in 1 .. Len(fl) \/ i = Len(fl) + 1
      BY <2>2
    <3>3. call.by = key
      OBVIOUS
    <3> HIDE DEF fl, key
    <3> QED  BY <1>1, <2>2, <3>1, <3>2, <3>3
  <2>5. /\ flights' \in [Keys -> Seq(DrillCalls)]
        /\ \A k \in Keys : flights'[k] = IF k = key THEN Append(fl, call) ELSE flights[k]
    <3>1. flights \in [Keys -> Seq(DrillCalls)]
      BY <1>1 DEF DrillsAtCall
    <3> HIDE DEF fl
    <3> QED  BY <1>1, <2>1, <2>4, <3>1
  <2>6. DrillsAtCall'
    <3>1. owner' = owner
      BY <1>2 DEF contractVars
    <3> HIDE DEF fl
    <3> QED  BY <1>1, <2>1, <2>3, <2>4, <2>5, <3>1 DEF DrillsAtCall
  <2> QED  BY <1>1, <2>1, <2>6 DEF DrillsInv
<1>4. CASE ~Succeeds(call)
  <2>1. UNCHANGED flights /\ (IF call.refused THEN GoesOn ELSE Stops)
    BY <1>4 DEF Call
  <2>2. DrillsAtCall'
    BY <1>1, <1>2, <2>1, OnwardAtCall DEF DrillsAtCall, contractVars
  <2>3. ended' # "rotation"
    <3>1. ASSUME call = send(deployer, "setOperator", deployer) PROVE FALSE
      BY <1>1, <1>4, <3>1 DEF Succeeds, send, DrillsAtCall
    <3> QED  BY <1>1, <2>1, <3>1, OnwardEnds
  <2> QED  BY <1>1, <2>1, <2>2, <2>3, OnwardEnds DEF DrillsInv
<1> QED  BY <1>3, <1>4

\* Mining a call takes the first of a key; only the owner's calls change who the
\* operator is.
LEMMA MineInv ==
    ASSUME DrillsInv, NEW key \in Keys, Mine(key)
    PROVE  DrillsInv'
<1> DEFINE fl      == flights[key]
           c       == Head(fl)
           awaited == waiting /\ call.by = key /\ Len(fl) = 1
<1>1. /\ fl # <<>> /\ flights' = [flights EXCEPT ![key] = Tail(fl)]
      /\ IF Succeeds(c) THEN Applies(c) ELSE UNCHANGED contractVars
      /\ IF ~awaited THEN UNCHANGED scriptVars
         ELSE IF Succeeds(c) \/ c.refused THEN GoesOn ELSE Stops
  BY DEF Mine
<1>2. /\ DrillsAtCall /\ flights \in [Keys -> Seq(DrillCalls)]
      /\ fl \in Seq(DrillCalls) /\ \A i \in DOMAIN fl : fl[i].by = key
  BY DEF DrillsInv, DrillsAtCall
<1>3. /\ Tail(fl) \in Seq(DrillCalls) /\ Len(Tail(fl)) = Len(fl) - 1
      /\ DOMAIN Tail(fl) = 1 .. Len(fl) - 1 /\ Len(fl) \in Nat \ {0}
      /\ \A i \in 1 .. Len(fl) - 1 : Tail(fl)[i] = fl[i + 1]
      /\ c = fl[1] /\ DOMAIN fl = 1 .. Len(fl)
  <2>1. \A s \in Seq(DrillCalls) : s # <<>> =>
            /\ Tail(s) \in Seq(DrillCalls) /\ Len(Tail(s)) = Len(s) - 1
            /\ DOMAIN Tail(s) = 1 .. Len(s) - 1 /\ Len(s) \in Nat \ {0}
            /\ \A i \in 1 .. Len(s) - 1 : Tail(s)[i] = s[i + 1]
            /\ Head(s) = s[1] /\ DOMAIN s = 1 .. Len(s)
    OBVIOUS
  <2> HIDE DEF fl
  <2> QED  BY <1>1, <1>2, <2>1
<1>4. /\ flights' \in [Keys -> Seq(DrillCalls)]
      /\ \A k \in Keys : flights'[k] = IF k = key THEN Tail(fl) ELSE flights[k]
      /\ \A k \in Keys : \A i \in DOMAIN flights'[k] : flights'[k][i].by = k
  <2>1. \A i \in DOMAIN Tail(fl) : Tail(fl)[i].by = key
    <3> HIDE DEF fl
    <3> QED  BY <1>2, <1>3
  <2>2. \A k \in Keys : \A i \in DOMAIN flights[k] : flights[k][i].by = k
    BY <1>2 DEF DrillsAtCall
  <2>3. /\ flights' \in [Keys -> Seq(DrillCalls)]
        /\ \A k \in Keys : flights'[k] = IF k = key THEN Tail(fl) ELSE flights[k]
    <3> HIDE DEF fl
    <3> QED  BY <1>1, <1>2, <1>3
  <2> HIDE DEF fl
  <2> QED  BY <2>1, <2>2, <2>3
<1>5. owner' = owner /\ owner = deployer
  BY <1>1, <1>2 DEF Applies, contractVars, DrillsAtCall
<1>6. c.by = key /\ c \in DrillCalls
  <2> HIDE DEF fl
  <2> QED  BY <1>2, <1>3
<1>7. ASSUME key # deployer PROVE operator' = operator
  <2>1. c.by # owner
    BY <1>5, <1>6, <1>7
  <2>2. ASSUME Succeeds(c) PROVE c.function # "setOperator"
    <3> HIDE DEF c
    <3> QED  BY <2>1, <2>2 DEF Succeeds
  <2> HIDE DEF c
  <2> QED  BY <1>1, <2>2 DEF Applies, contractVars
<1>8. CASE awaited
  <2>1. drill # "none" /\ c = call /\ Tail(fl) = <<>> /\ (GoesOn \/ Stops)
    <3>1. drill # "none" /\ fl[Len(fl)] = call /\ Len(fl) = 1
      BY <1>2, <1>8 DEF DrillsAtCall
    <3>2. Tail(fl) = <<>>
      <4>1. \A s \in Seq(DrillCalls) : Len(s) = 0 => s = <<>>
        OBVIOUS
      <4> HIDE DEF fl
      <4> QED  BY <1>3, <3>1, <4>1
    <3> HIDE DEF fl
    <3> QED  BY <1>1, <1>3, <1>8, <3>1, <3>2
  <2>2. DrillsAtCall'
    <3>1. /\ waiting' = FALSE /\ drill' \in Names \cup {"none"}
          /\ drill' # "none" => step' \in 1 .. Len(Drills[drill'])
      BY <1>2, <2>1, OnwardAtCall
    <3> QED  BY <1>4, <1>5, <3>1 DEF DrillsAtCall
  <2>3. ASSUME ended' = "rotation" PROVE operator' = deployer /\ flights'[deployer] = <<>>
    <3>1. call = send(deployer, "setOperator", deployer)
      BY <2>1, <2>3, OnwardEnds
    <3>2. key = deployer /\ Succeeds(call)
      BY <1>5, <1>8, <3>1 DEF Succeeds, send
    <3>3. Applies(call)
      BY <1>1, <2>1, <3>2
    <3>4. operator' = deployer
      BY <3>1, <3>3 DEF Applies, send
    <3> QED  BY <1>4, <2>1, <3>2, <3>4
  <2> QED  BY <2>1, <2>2, <2>3, OnwardEnds DEF DrillsInv
<1>9. CASE ~awaited
  <2>1. UNCHANGED scriptVars
    BY <1>1, <1>9
  <2>2. call' = call
    BY <2>1 DEF call, scriptVars
  <2>3. ASSUME waiting
        PROVE  /\ drill # "none" /\ flights'[call.by] # <<>>
               /\ flights'[call.by][Len(flights'[call.by])] = call
    <3>1. /\ drill # "none" /\ call.by \in Keys /\ flights[call.by] # <<>>
          /\ flights[call.by][Len(flights[call.by])] = call
      BY <1>2, <2>3, CallIsOfKey DEF DrillsAtCall
    <3>2. CASE call.by # key
      BY <1>4, <3>1, <3>2
    <3>3. CASE call.by = key
      <4>1. Len(fl) # 1 /\ fl[Len(fl)] = call
        BY <1>9, <2>3, <3>1, <3>3
      <4>2. Tail(fl) # <<>> /\ Tail(fl)[Len(Tail(fl))] = call
        <5>1. Len(fl) - 1 \in 1 .. Len(fl) - 1 /\ Len(fl) - 1 + 1 = Len(fl)
          <6>1. Len(fl) \in Nat /\ Len(fl) # 0 /\ Len(fl) # 1
            BY <1>3, <4>1
          <6>2. \A n \in Nat : n # 0 /\ n # 1 => n - 1 \in 1 .. n - 1 /\ n - 1 + 1 = n
            OBVIOUS
          <6> HIDE DEF fl
          <6> QED  BY <6>1, <6>2
        <5>2. Tail(fl)[Len(fl) - 1] = fl[Len(fl)]
          <6> HIDE DEF fl
          <6> QED  BY <1>3, <5>1
        <5>3. Tail(fl) # <<>>
          <6>1. Len(<<>>) = 0
            OBVIOUS
          <6> HIDE DEF fl
          <6> QED  BY <1>3, <4>1, <6>1
        <5> HIDE DEF fl
        <5> QED  BY <1>3, <4>1, <5>2, <5>3
      <4>3. flights'[call.by] = Tail(fl)
        BY <1>4, <3>3
      <4> QED  BY <3>1, <4>2, <4>3
    <3> QED  BY <3>2, <3>3
  <2>4. DrillsAtCall'
    <3>1. /\ drill' = drill /\ step' = step /\ waiting' = waiting /\ owner' = deployer
      BY <1>5, <2>1 DEF scriptVars
    <3> QED  BY <1>2, <1>4, <2>2, <2>3, <3>1 DEF DrillsAtCall
  <2>5. ASSUME ended' = "rotation" PROVE operator' = deployer /\ flights'[deployer] = <<>>
    <3>1. operator = deployer /\ flights[deployer] = <<>>
      BY <2>1, <2>5 DEF DrillsInv, scriptVars
    <3>2. key # deployer
      BY <1>1, <3>1
    <3>3. deployer \in Keys
      BY DEF Keys
    <3> QED  BY <1>4, <1>7, <3>1, <3>2, <3>3
  <2> QED  BY <2>1, <2>4, <2>5 DEF DrillsInv, scriptVars
<1> QED  BY <1>8, <1>9

\* Every step of the drills keeps their invariant.
LEMMA DrillsNextInv == DrillsInv /\ [DrillsNext]_drillsVars => DrillsInv'
<1> SUFFICES ASSUME DrillsInv, [DrillsNext]_drillsVars PROVE DrillsInv'
  OBVIOUS
<1> USE DEF contractVars, scriptVars
<1>1. ASSUME NEW name \in DOMAIN Drills, Run(name) PROVE DrillsInv'
  <2>1. name \in Names /\ Len(Drills[name]) \in Nat /\ 1 \in 1 .. Len(Drills[name])
    <3>1. name \in Names
      BY DrillsOfCalls
    <3>2. Drills[name] \in Seq(DrillCalls) /\ Drills[name] # <<>>
      BY <3>1, DrillsOfCalls
    <3>3. \A s \in Seq(DrillCalls) : s # <<>> => Len(s) \in Nat /\ 1 \in 1 .. Len(s)
      OBVIOUS
    <3> QED  BY <3>1, <3>2, <3>3
  <2> QED  BY <1>1, <2>1 DEF Run, DrillsInv, DrillsAtCall
<1>2. CASE Call
  BY <1>2, CallInv
<1>3. CASE Repeat
  BY <1>3 DEF Repeat, DrillsInv, DrillsAtCall
<1>4. CASE Die
  BY <1>4 DEF Die, Stops, DrillsInv, DrillsAtCall
<1>5. ASSUME NEW key \in Keys, Mine(key) PROVE DrillsInv'
  BY <1>5, MineInv
<1>6. CASE UNCHANGED drillsVars
  <2>1. call' = call
    BY <1>6 DEF drillsVars, call
  <2> QED  BY <1>6, <2>1 DEF drillsVars, DrillsInv, DrillsAtCall
<1> QED  BY <1>1, <1>2, <1>3, <1>4, <1>5, <1>6 DEF DrillsNext, Keys

\* However a rotation is interrupted and repeated, and whatever other drills run
\* between: one that comes to its end leaves the operator for good.
THEOREM RotationAlwaysRestores == DrillsSpec => []RotationRestores
<1>1. DrillsInv => RotationRestores
  BY DEF DrillsInv, RotationRestores
<1> QED  BY <1>1, DrillsInitInv, DrillsNextInv, PTL DEF DrillsSpec
-----------------------------------------------------------------------------
(* Merkle trees *)

\* A node is made of its two children; a leaf is no node.
LEMMA NodesAreInjective ==
    ASSUME NEW x, NEW y, NEW v, NEW w, Node(x, y) = Node(v, w)
    PROVE  x = v /\ y = w
<1>1. /\ Node(x, y).left = x /\ Node(x, y).right = y
      /\ Node(v, w).left = v /\ Node(v, w).right = w
  BY DEF Node
<1> QED  BY <1>1

\* No leaf, of a receipt or of a debt, is an inner node.
LEMMA LeafIsNoNode ==
    \A rid, record, x, y :
        DebtLeaf(rid) # Node(x, y) /\ ReceiptLeaf(rid, record) # Node(x, y)
<1>1. \A x, y : "left" \in DOMAIN Node(x, y)
  BY DEF Node
<1>2. \A rid, record : /\ "left" \notin DOMAIN DebtLeaf(rid)
                       /\ "left" \notin DOMAIN ReceiptLeaf(rid, record)
  BY DEF DebtLeaf, ReceiptLeaf
<1> QED  BY <1>1, <1>2

\* v is a node.
IsNode(v) == \E x, y : v = Node(x, y)

\* v is on the level.
On(level, v) == \E a \in 1 .. Len(level) : level[a] = v

\* The parents of a level are half as many nodes, rounded up, made of it.
LEMMA ParentsAreNodes ==
    ASSUME NEW S, NEW level \in Seq(S), Len(level) >= 1
    PROVE  /\ \E T : Parents(level) \in Seq(T)
           /\ Len(Parents(level)) = (Len(level) + 1) \div 2
           /\ \A a \in 1 .. Len(Parents(level)) :
                /\ 2 * a - 1 \in 1 .. Len(level)
                /\ Sibling(level, 2 * a - 1) \in S
                /\ On(level, Sibling(level, 2 * a - 1))
                /\ Parents(level)[a] = Node(level[2 * a - 1], Sibling(level, 2 * a - 1))
<1> DEFINE n == Len(level)
           h == (n + 1) \div 2
           T == {Node(x, y) : x \in S, y \in S}
           N(a) == Node(level[2 * a - 1], Sibling(level, 2 * a - 1))
<1>1. n \in Nat /\ h \in Nat /\ \A i \in 1 .. n : level[i] \in S
  OBVIOUS
<1>2. ASSUME NEW a \in 1 .. h
      PROVE  /\ 2 * a - 1 \in 1 .. n
             /\ Sibling(level, 2 * a - 1) \in S /\ On(level, Sibling(level, 2 * a - 1))
  <2>1. 2 * a - 1 \in 1 .. n /\ (2 * a - 1) % 2 # 0
    <3> HIDE DEF n
    <3> QED  BY <1>1
  <2>2. \E b \in 1 .. n : Sibling(level, 2 * a - 1) = level[b]
    <3>1. CASE 2 * a - 1 < n
      <4>1. 2 * a - 1 + 1 \in 1 .. n
        BY <1>1, <2>1, <3>1
      <4> QED  BY <2>1, <3>1, <4>1 DEF Sibling
    <3>2. CASE ~ (2 * a - 1 < n)
      BY <2>1, <3>2 DEF Sibling
    <3> QED  BY <3>1, <3>2
  <2> QED  BY <1>1, <2>1, <2>2 DEF On
<1>3. Parents(level) = [a \in 1 .. h |-> N(a)]
  BY DEF Parents
<1>4. \A a \in 1 .. h : N(a) \in T
  <2> HIDE DEF n, h
  <2> QED  BY <1>1, <1>2
<1>5. [a \in 1 .. h |-> N(a)] \in Seq(T) /\ Len([a \in 1 .. h |-> N(a)]) = h
  <2> HIDE DEF h, N, T
  <2> QED  BY <1>1, <1>4
<1> DEFINE P == Parents(level)
<1>7. /\ P \in Seq(T) /\ Len(P) = h /\ \A a \in 1 .. h : P[a] = N(a)
  <2> HIDE DEF h, N, T
  <2> QED  BY <1>3, <1>5
<1> HIDE DEF P, h, T
<1>8. /\ \E V : P \in Seq(V)
      /\ \A a \in 1 .. Len(P) :
            /\ 2 * a - 1 \in 1 .. Len(level)
            /\ Sibling(level, 2 * a - 1) \in S
            /\ On(level, Sibling(level, 2 * a - 1))
            /\ P[a] = Node(level[2 * a - 1], Sibling(level, 2 * a - 1))
  BY <1>2, <1>7
<1> QED  BY <1>7, <1>8 DEF P, h

\* f climbs m levels from leaf i.
ClimbIs(leaves, i, m, f) ==
    f = [k \in 0 .. m |->
            IF k = 0 THEN [level |-> leaves, at |-> i, path |-> <<>>]
            ELSE Climbed(f[k - 1])]

\* There is a way up of any length.
LEMMA ClimbExists ==
    ASSUME NEW leaves, NEW i, NEW m \in Nat
    PROVE  \E f : ClimbIs(leaves, i, m, f)
<1> DEFINE S == {k \in Nat : \E f : ClimbIs(leaves, i, k, f)}
           bottom == [level |-> leaves, at |-> i, path |-> <<>>]
<1>1. 0 \in S
  <2>1. ClimbIs(leaves, i, 0, [k \in 0 .. 0 |-> bottom])
    BY DEF ClimbIs
  <2> QED  BY <2>1
<1>2. ASSUME NEW k \in Nat, k \in S PROVE k + 1 \in S
  <2>1. PICK f : ClimbIs(leaves, i, k, f)
    BY <1>2
  <2> DEFINE g == [j \in 0 .. k + 1 |-> IF j = k + 1 THEN Climbed(f[k]) ELSE f[j]]
  <2>2. ClimbIs(leaves, i, k + 1, g)
    BY <2>1 DEF ClimbIs
  <2> QED  BY <2>2
<1>3. Nat \subseteq S
  <2> HIDE DEF S
  <2> QED  BY <1>1, <1>2, SetInduction
<1> QED  BY <1>3

\* The way up starts at the leaf and takes one level after the other.
LEMMA ClimbUnfolds ==
    ASSUME NEW S, NEW leaves \in Seq(S), NEW i
    PROVE  /\ Climb(leaves, i)[0] = [level |-> leaves, at |-> i, path |-> <<>>]
           /\ \A k \in 0 .. (Len(leaves) + 1) \div 2 - 1 :
                Climb(leaves, i)[k + 1] = Climbed(Climb(leaves, i)[k])
<1> DEFINE m == (Len(leaves) + 1) \div 2
<1>1. m \in Nat
  OBVIOUS
<1>2. ClimbIs(leaves, i, m, Climb(leaves, i))
  <2>1. PICK g : ClimbIs(leaves, i, m, g)
    BY <1>1, ClimbExists
  <2>2. Climb(leaves, i) = CHOOSE f : ClimbIs(leaves, i, m, f)
    BY DEF Climb, ClimbIs
  <2> QED  BY <2>1, <2>2
<1> HIDE DEF m
<1>3. /\ Climb(leaves, i)[0] = [level |-> leaves, at |-> i, path |-> <<>>]
      /\ \A k \in 0 .. m - 1 : Climb(leaves, i)[k + 1] = Climbed(Climb(leaves, i)[k])
  BY <1>1, <1>2 DEF ClimbIs
<1> QED  BY <1>3 DEF m

\* Every level is a nonempty sequence with the position on it, and the last one
\* is a single node.
LEMMA LevelsShrink ==
    ASSUME NEW S, NEW leaves \in Seq(S), NEW i \in 1 .. Len(leaves)
    PROVE  /\ \A k \in 0 .. (Len(leaves) + 1) \div 2 :
                LET l == Climb(leaves, i)[k]
                IN  /\ \E T : l.level \in Seq(T)
                    /\ l.at \in 1 .. Len(l.level)
                    /\ \E T : l.path \in Seq(T)
           /\ Len(Top(leaves, i).level) = 1
<1> DEFINE n == Len(leaves)
           m == (n + 1) \div 2
           L(k) == Climb(leaves, i)[k]
           Sound(k) ==
                /\ \E T : L(k).level \in Seq(T)
                /\ L(k).at \in 1 .. Len(L(k).level)
                /\ \E T : L(k).path \in Seq(T)
                /\ Len(L(k).level) = 1
                    \/ Len(L(k).level) <= IF k = 0 THEN n ELSE m + 1 - k
           I == {k \in 0 .. m : Sound(k)}
<1>1. n \in Nat /\ m \in Nat /\ n >= 1 /\ m >= 1 /\ n <= 2 * m
  OBVIOUS
<1>2. /\ L(0) = [level |-> leaves, at |-> i, path |-> <<>>]
      /\ \A k \in 0 .. m - 1 : L(k + 1) = Climbed(L(k))
  BY ClimbUnfolds
<1>3. 0 \in I
  <2>1. /\ L(0).level = leaves /\ L(0).at = i /\ L(0).path = <<>>
        /\ <<>> \in Seq(S)
    BY <1>2
  <2>2. Sound(0)
    <3>1. leaves \in Seq(S) /\ Len(leaves) = n /\ i \in 1 .. n /\ n <= n
      BY <1>1
    <3> HIDE DEF L, m, n
    <3> QED  BY <1>1, <2>1, <3>1
  <2> QED  BY <1>1, <2>2
<1>4. ASSUME NEW k \in 0 .. m - 1, k \in I PROVE k + 1 \in I
  <2> DEFINE l == L(k)
             c == Len(l.level)
  <2>1. /\ Sound(k) /\ L(k + 1) = Climbed(l) /\ k \in Nat /\ k + 1 \in 0 .. m
    BY <1>1, <1>2, <1>4
  <2>2. PICK T : l.level \in Seq(T)
    BY <2>1
  <2>3. PICK P : l.path \in Seq(P)
    BY <2>1
  <2>4. c \in Nat /\ l.at \in 1 .. c /\ c >= 1
    <3>1. c \in Nat
      BY <2>2
    <3> QED  BY <2>1, <3>1
  <2>5. CASE c = 1
    <3>1. L(k + 1) = l
      BY <2>1, <2>5 DEF Climbed
    <3>2. Sound(k + 1)
      <4> HIDE DEF L, n, m
      <4> QED  BY <2>1, <2>5, <3>1
    <3> QED  BY <2>1, <3>2
  <2>6. CASE c # 1
    <3> DEFINE up  == Parents(l.level)
               sib == Sibling(l.level, l.at)
               half == (c + 1) \div 2
    <3>1. L(k + 1) = [level |-> up, at |-> (l.at + 1) \div 2, path |-> Append(l.path, sib)]
      BY <2>1, <2>6 DEF Climbed
    <3>2. (\E V : up \in Seq(V)) /\ Len(up) = half
      BY <2>2, <2>4, ParentsAreNodes
    <3>3. (l.at + 1) \div 2 \in 1 .. half
      <4>1. \A a, d \in Int : 1 <= a /\ a <= d
                => (a + 1) \div 2 \in 1 .. (d + 1) \div 2
        OBVIOUS
      <4>2. l.at \in Int /\ c \in Int /\ 1 <= l.at /\ l.at <= c
        BY <2>4
      <4> HIDE DEF c
      <4> QED  BY <4>1, <4>2
    <3>4. Append(l.path, sib) \in Seq(P \cup {sib})
      <4>1. \A s \in Seq(P) : \A x : Append(s, x) \in Seq(P \cup {x})
        <5>1. ASSUME NEW s \in Seq(P), NEW x PROVE Append(s, x) \in Seq(P \cup {x})
          <6>1. s \in Seq(P \cup {x})
            OBVIOUS
          <6> QED  BY <6>1
        <5> QED  BY <5>1
      <4> QED  BY <2>3, <4>1
    <3>5. half <= m + 1 - (k + 1)
      <4>1. half <= c - 1 /\ (c <= n => half <= m)
        <5>1. \A a, d \in Nat : a <= d => (a + 1) \div 2 <= (d + 1) \div 2
          OBVIOUS
        <5>2. \A a \in Nat : a > 1 => (a + 1) \div 2 <= a - 1
          OBVIOUS
        <5>3. c > 1
          <6> HIDE DEF c
          <6> QED  BY <2>4, <2>6
        <5> HIDE DEF c, n
        <5> QED  BY <1>1, <2>4, <5>1, <5>2, <5>3
      <4>2. c <= IF k = 0 THEN n ELSE m + 1 - k
        BY <2>1, <2>6
      <4>3. half \in Int /\ c \in Int /\ n \in Int /\ m \in Int
        BY <1>1, <2>4
      <4> HIDE DEF half, c, n, m
      <4> QED  BY <2>1, <4>1, <4>2, <4>3
    <3>6. /\ L(k + 1).level = up /\ L(k + 1).at = (l.at + 1) \div 2
          /\ L(k + 1).path = Append(l.path, sib)
      BY <3>1
    <3>7. Sound(k + 1)
      <4>1. k + 1 # 0
        BY <2>1
      <4> HIDE DEF L, up, half, sib, n, m
      <4> QED  BY <3>2, <3>3, <3>4, <3>5, <3>6, <4>1
    <3> QED  BY <2>1, <3>7
  <2> QED  BY <2>5, <2>6
<1>5. 0 .. m \subseteq I
  <2> HIDE DEF I, m
  <2> QED  BY <1>1, <1>3, <1>4, IntervalInduction
<1>6. Len(Top(leaves, i).level) = 1
  <2>1. Sound(m) /\ Top(leaves, i) = L(m)
    BY <1>1, <1>5 DEF Top
  <2>2. Len(L(m).level) \in Nat /\ Len(L(m).level) >= 1
    <3>1. PICK T : L(m).level \in Seq(T)
      BY <2>1
    <3>2. Len(L(m).level) \in Nat
      BY <3>1
    <3> QED  BY <2>1, <3>2
  <2>3. Len(L(m).level) = 1 \/ Len(L(m).level) <= m + 1 - m
    BY <1>1, <2>1
  <2> DEFINE d == Len(L(m).level)
  <2>4. d = 1
    <3>1. d \in Nat /\ d >= 1 /\ (d = 1 \/ d <= m + 1 - m)
      BY <2>2, <2>3
    <3> HIDE DEF d, m
    <3> QED  BY <1>1, <3>1
  <2> QED  BY <2>1, <2>4
<1> QED  BY <1>5, <1>6
\* Which level is reached does not depend on the leaf climbed from.
LEMMA SameLevels ==
    ASSUME NEW S, NEW leaves \in Seq(S), NEW i \in 1 .. Len(leaves),
           NEW j \in 1 .. Len(leaves)
    PROVE  \A k \in 0 .. (Len(leaves) + 1) \div 2 :
                Climb(leaves, i)[k].level = Climb(leaves, j)[k].level
<1> DEFINE m == (Len(leaves) + 1) \div 2
           L(a, k) == Climb(leaves, a)[k]
           I == {k \in 0 .. m : L(i, k).level = L(j, k).level}
<1>1. m \in Nat
  OBVIOUS
<1>2. \A a \in {i, j} : /\ L(a, 0) = [level |-> leaves, at |-> a, path |-> <<>>]
                        /\ \A k \in 0 .. m - 1 : L(a, k + 1) = Climbed(L(a, k))
  BY ClimbUnfolds
<1>3. 0 \in I
  BY <1>1, <1>2
<1>4. ASSUME NEW k \in 0 .. m - 1, k \in I PROVE k + 1 \in I
  <2>1. \A l : Climbed(l).level = IF Len(l.level) = 1 THEN l.level ELSE Parents(l.level)
    BY DEF Climbed
  <2>2. L(i, k).level = L(j, k).level /\ k + 1 \in 0 .. m
    BY <1>1, <1>4
  <2> HIDE DEF L
  <2> QED  BY <1>2, <2>1, <2>2
<1>5. 0 .. m \subseteq I
  <2> HIDE DEF I, m
  <2> QED  BY <1>1, <1>3, <1>4, IntervalInduction
<1> QED  BY <1>5

\* v is somewhere in the tree.
InTree(leaves, v) ==
    \E k \in 0 .. (Len(leaves) + 1) \div 2 : On(Climb(leaves, 1)[k].level, v)

\* What is in the tree is a leaf, or a node whose children are in the tree.
LEMMA TreeHasChildren ==
    ASSUME NEW S, NEW leaves \in Seq(S), Len(leaves) >= 1
    PROVE  \A v : InTree(leaves, v) =>
                \/ On(leaves, v)
                \/ \E x, y : v = Node(x, y) /\ InTree(leaves, x) /\ InTree(leaves, y)
<1> DEFINE m == (Len(leaves) + 1) \div 2
           L(k) == Climb(leaves, 1)[k]
           In(v) == \E k \in 0 .. m : On(L(k).level, v)
           I == {k \in 0 .. m : \A v : On(L(k).level, v) =>
                    On(leaves, v) \/ \E x, y : v = Node(x, y) /\ In(x) /\ In(y)}
<1>1. m \in Nat /\ 1 \in 1 .. Len(leaves)
  OBVIOUS
<1>2. /\ L(0) = [level |-> leaves, at |-> 1, path |-> <<>>]
      /\ \A k \in 0 .. m - 1 : L(k + 1) = Climbed(L(k))
  BY ClimbUnfolds
<1>3. 0 \in I
  <2>1. L(0).level = leaves
    BY <1>2
  <2> HIDE DEF L
  <2> QED  BY <1>1, <2>1
<1>4. ASSUME NEW k \in 0 .. m - 1, k \in I PROVE k + 1 \in I
  <2> DEFINE l == L(k).level
  <2>1. /\ k \in 0 .. m /\ k + 1 \in 0 .. m
        /\ L(k + 1).level = IF Len(l) = 1 THEN l ELSE Parents(l)
    <3>1. \A r : Climbed(r).level = IF Len(r.level) = 1 THEN r.level ELSE Parents(r.level)
      BY DEF Climbed
    <3> HIDE DEF L
    <3> QED  BY <1>1, <1>2, <3>1
  <2>2. CASE Len(l) = 1
    <3>1. L(k + 1).level = L(k).level
      BY <2>1, <2>2
    <3> HIDE DEF L, m
    <3> QED  BY <1>4, <2>1, <3>1
  <2>3. CASE Len(l) # 1
    <3>1. PICK T : l \in Seq(T)
      BY <1>1, <2>1, LevelsShrink
    <3>2. L(k).at \in 1 .. Len(l)
      BY <1>1, <2>1, LevelsShrink
    <3>3. Len(l) >= 1
      BY <3>1, <3>2
    <3>4. \A a \in 1 .. Len(Parents(l)) :
            /\ 2 * a - 1 \in 1 .. Len(l)
            /\ On(l, Sibling(l, 2 * a - 1))
            /\ Parents(l)[a] = Node(l[2 * a - 1], Sibling(l, 2 * a - 1))
      BY <3>1, <3>3, ParentsAreNodes
    <3>5. ASSUME NEW v, On(Parents(l), v)
          PROVE  \E x, y : v = Node(x, y) /\ In(x) /\ In(y)
      <4>1. PICK a \in 1 .. Len(Parents(l)) : Parents(l)[a] = v
        BY <3>5 DEF On
      <4>2. On(l, l[2 * a - 1]) /\ On(l, Sibling(l, 2 * a - 1))
        BY <3>4 DEF On
      <4>3. In(l[2 * a - 1]) /\ In(Sibling(l, 2 * a - 1))
        BY <2>1, <4>2
      <4>4. v = Node(l[2 * a - 1], Sibling(l, 2 * a - 1))
        BY <3>4, <4>1
      <4> HIDE DEF In, l
      <4> QED  BY <4>3, <4>4
    <3> HIDE DEF In, l, m
    <3> QED  BY <2>1, <2>3, <3>5
  <2> QED  BY <2>2, <2>3
<1>5. 0 .. m \subseteq I
  <2> HIDE DEF I, m
  <2> QED  BY <1>1, <1>3, <1>4, IntervalInduction
<1> QED  BY <1>5 DEF InTree
\* g is the loop over the first n hashes of a proof.
FoldIs(h, idx, proof, n, g) ==
    g = [k \in 0 .. n |->
            IF k = 0 THEN [h |-> h, idx |-> idx] ELSE Folded(g[k - 1], proof[k])]

\* There is a fold over any number of hashes.
LEMMA FoldExists ==
    ASSUME NEW h, NEW idx, NEW proof, NEW n \in Nat
    PROVE  \E g : FoldIs(h, idx, proof, n, g)
<1> DEFINE S == {k \in Nat : \E g : FoldIs(h, idx, proof, k, g)}
           start == [h |-> h, idx |-> idx]
<1>1. 0 \in S
  <2>1. FoldIs(h, idx, proof, 0, [k \in 0 .. 0 |-> start])
    BY DEF FoldIs
  <2> QED  BY <2>1
<1>2. ASSUME NEW k \in Nat, k \in S PROVE k + 1 \in S
  <2>1. PICK g : FoldIs(h, idx, proof, k, g)
    BY <1>2
  <2> DEFINE f == [j \in 0 .. k + 1 |->
                    IF j = k + 1 THEN Folded(g[k], proof[k + 1]) ELSE g[j]]
  <2>2. FoldIs(h, idx, proof, k + 1, f)
    BY <2>1 DEF FoldIs
  <2> QED  BY <2>2
<1>3. Nat \subseteq S
  <2> HIDE DEF S
  <2> QED  BY <1>1, <1>2, SetInduction
<1> QED  BY <1>3

\* The verifier starts with the leaf and its index and takes one hash of the proof
\* after the other.
LEMMA FoldUnfolds ==
    ASSUME NEW S, NEW proof \in Seq(S), NEW h, NEW idx
    PROVE  /\ Fold(h, idx, proof)[0] = [h |-> h, idx |-> idx]
           /\ \A k \in 0 .. Len(proof) - 1 :
                Fold(h, idx, proof)[k + 1] = Folded(Fold(h, idx, proof)[k], proof[k + 1])
<1> DEFINE n == Len(proof)
<1>1. n \in Nat
  OBVIOUS
<1>2. FoldIs(h, idx, proof, n, Fold(h, idx, proof))
  <2>1. PICK g : FoldIs(h, idx, proof, n, g)
    BY <1>1, FoldExists
  <2>2. Fold(h, idx, proof) = CHOOSE f : FoldIs(h, idx, proof, n, f)
    BY DEF Fold, FoldIs
  <2> QED  BY <2>1, <2>2
<1> HIDE DEF n
<1>3. /\ Fold(h, idx, proof)[0] = [h |-> h, idx |-> idx]
      /\ \A k \in 0 .. n - 1 :
            Fold(h, idx, proof)[k + 1] = Folded(Fold(h, idx, proof)[k], proof[k + 1])
  BY <1>1, <1>2 DEF FoldIs
<1> QED  BY <1>3 DEF n

\* One more hash at the end of a proof is one more pass of the loop.
LEMMA FoldAppends ==
    ASSUME NEW S, NEW proof \in Seq(S), NEW sib, NEW h, NEW idx
    PROVE  LET longer == Append(proof, sib)
           IN  Fold(h, idx, longer)[Len(longer)]
                = Folded(Fold(h, idx, proof)[Len(proof)], sib)
<1> DEFINE n      == Len(proof)
           longer == Append(proof, sib)
           F(k)   == Fold(h, idx, proof)[k]
           G(k)   == Fold(h, idx, longer)[k]
           I      == {k \in 0 .. n : F(k) = G(k)}
<1>1. proof \in Seq(S \cup {sib})
  OBVIOUS
<1>2. /\ n \in Nat /\ longer \in Seq(S \cup {sib}) /\ Len(longer) = n + 1
      /\ longer[n + 1] = sib /\ \A k \in 1 .. n : longer[k] = proof[k]
  BY <1>1
<1> HIDE DEF n, longer
<1>3. F(0) = G(0) /\ \A k \in 0 .. n - 1 : F(k + 1) = Folded(F(k), proof[k + 1])
  <2>1. Fold(h, idx, longer)[0] = [h |-> h, idx |-> idx]
    BY <1>2, FoldUnfolds
  <2>2. /\ F(0) = [h |-> h, idx |-> idx]
        /\ \A k \in 0 .. n - 1 : F(k + 1) = Folded(F(k), proof[k + 1])
    BY FoldUnfolds DEF n
  <2> QED  BY <2>1, <2>2
<1>4. \A k \in 0 .. n : G(k + 1) = Folded(G(k), longer[k + 1])
  <2>1. \A k \in 0 .. Len(longer) - 1 :
            Fold(h, idx, longer)[k + 1] = Folded(Fold(h, idx, longer)[k], longer[k + 1])
    <3> DEFINE U == S \cup {sib}
    <3>1. longer \in Seq(U)
      BY <1>2
    <3> HIDE DEF U, F, G
    <3>2. /\ Fold(h, idx, longer)[0] = [h |-> h, idx |-> idx]
          /\ \A k \in 0 .. Len(longer) - 1 :
                Fold(h, idx, longer)[k + 1] = Folded(Fold(h, idx, longer)[k], longer[k + 1])
      BY <3>1, FoldUnfolds
    <3> QED  BY <3>2
  <2>2. \A k \in 0 .. n : k \in 0 .. Len(longer) - 1
    BY <1>2
  <2> QED  BY <2>1, <2>2
<1>5. 0 \in I
  BY <1>2, <1>3
<1>6. ASSUME NEW k \in 0 .. n - 1, k \in I PROVE k + 1 \in I
  <2>1. /\ k \in 0 .. n /\ k + 1 \in 0 .. n /\ longer[k + 1] = proof[k + 1]
        /\ F(k) = G(k)
    BY <1>2, <1>6
  <2> HIDE DEF F, G
  <2> QED  BY <1>3, <1>4, <2>1
<1>7. 0 .. n \subseteq I
  <2> HIDE DEF I
  <2> QED  BY <1>2, <1>5, <1>6, IntervalInduction
<1>8. G(n + 1) = Folded(F(n), sib)
  <2>1. n \in 0 .. n
    BY <1>2
  <2>2. F(n) = G(n)
    BY <1>7, <2>1
  <2> HIDE DEF F, G
  <2> QED  BY <1>2, <1>4, <2>1, <2>2
<1> QED  BY <1>2, <1>8 DEF n, longer

\* The verifier accepts every leaf with its own path: folding leaf i with it gives
\* the root, in a tree of any size.
LEMMA PathFoldsToRoot ==
    ASSUME NEW S, NEW leaves \in Seq(S), NEW i \in 1 .. Len(leaves)
    PROVE  LET proof == Path(leaves, i)
           IN  Fold(leaves[i], i - 1, proof)[Len(proof)].h = Root(leaves)
<1> DEFINE m == (Len(leaves) + 1) \div 2
           L(k) == Climb(leaves, i)[k]
           Done(k) == Fold(leaves[i], i - 1, L(k).path)[Len(L(k).path)]
           I == {k \in 0 .. m : Done(k) = [h |-> L(k).level[L(k).at], idx |-> L(k).at - 1]}
<1>1. m \in Nat /\ Len(leaves) >= 1 /\ 1 \in 1 .. Len(leaves)
  OBVIOUS
<1>2. /\ L(0) = [level |-> leaves, at |-> i, path |-> <<>>]
      /\ \A k \in 0 .. m - 1 : L(k + 1) = Climbed(L(k))
  BY ClimbUnfolds
<1>3. 0 \in I
  <2>1. L(0).level = leaves /\ L(0).at = i /\ L(0).path = <<>>
    BY <1>2
  <2>2. <<>> \in Seq(S) /\ Len(<<>>) = 0
    OBVIOUS
  <2>3. Fold(leaves[i], i - 1, <<>>)[0] = [h |-> leaves[i], idx |-> i - 1]
    <3>1. \A s \in Seq(S) : Fold(leaves[i], i - 1, s)[0] = [h |-> leaves[i], idx |-> i - 1]
      BY FoldUnfolds
    <3> QED  BY <2>2, <3>1
  <2> HIDE DEF L, m
  <2> QED  BY <1>1, <2>1, <2>2, <2>3
<1>4. ASSUME NEW k \in 0 .. m - 1, k \in I PROVE k + 1 \in I
  <2> DEFINE l   == L(k).level
             a   == L(k).at
             q   == L(k).path
             sib == Sibling(l, a)
  <2>1. /\ k \in 0 .. m /\ k + 1 \in 0 .. m /\ L(k + 1) = Climbed(L(k))
        /\ Done(k) = [h |-> l[a], idx |-> a - 1]
    BY <1>1, <1>2, <1>4
  <2>2. CASE Len(l) = 1
    <3>1. L(k + 1) = L(k)
      BY <2>1, <2>2 DEF Climbed
    <3>2. Done(k + 1) = [h |-> L(k + 1).level[L(k + 1).at], idx |-> L(k + 1).at - 1]
      <4> HIDE DEF L, m
      <4> QED  BY <2>1, <3>1
    <3> QED  BY <2>1, <3>2
  <2>3. CASE Len(l) # 1
    <3>1. PICK T : l \in Seq(T)
      BY <2>1, LevelsShrink
    <3>2. PICK Q : q \in Seq(Q)
      BY <2>1, LevelsShrink
    <3>3. a \in 1 .. Len(l)
      BY <2>1, LevelsShrink
    <3> DEFINE c    == Len(l)
               half == (a + 1) \div 2
    <3>4. c \in Nat /\ a \in Nat /\ 1 <= a /\ a <= c /\ c >= 1
      <4>1. c \in Nat
        BY <3>1
      <4> HIDE DEF a, l
      <4> QED  BY <3>3, <4>1
    <3>5. /\ L(k + 1).level = Parents(l) /\ L(k + 1).at = half
          /\ L(k + 1).path = Append(q, sib)
      <4>1. L(k + 1) = [level |-> Parents(l), at |-> half, path |-> Append(q, sib)]
        BY <2>1, <2>3 DEF Climbed
      <4> QED  BY <4>1
    <3>6. Done(k + 1) = Folded([h |-> l[a], idx |-> a - 1], sib)
      <4>1. Done(k + 1) = Folded(Fold(leaves[i], i - 1, q)[Len(q)], sib)
        <5>1. Done(k + 1) = Fold(leaves[i], i - 1, Append(q, sib))[Len(Append(q, sib))]
          <6> HIDE DEF q, sib, L
          <6> QED  BY <3>5
        <5> HIDE DEF q, sib, L, Done
        <5> QED  BY <3>2, <5>1, FoldAppends
      <4> QED  BY <2>1, <4>1
    <3>7. /\ Len(Parents(l)) = (c + 1) \div 2
          /\ \A b \in 1 .. Len(Parents(l)) :
                Parents(l)[b] = Node(l[2 * b - 1], Sibling(l, 2 * b - 1))
      BY <3>1, <3>4, ParentsAreNodes
    <3>8. half \in 1 .. Len(Parents(l)) /\ half \in Nat
      <4>1. \A x, y \in Nat : 1 <= x /\ x <= y
                => (x + 1) \div 2 \in 1 .. (y + 1) \div 2 /\ (x + 1) \div 2 \in Nat
        OBVIOUS
      <4> HIDE DEF a, c
      <4> QED  BY <3>4, <3>7, <4>1
    <3>9. (a - 1) \div 2 = half - 1
      <4>1. \A x \in Nat : (x - 1) \div 2 = (x + 1) \div 2 - 1
        OBVIOUS
      <4> HIDE DEF a
      <4> QED  BY <3>4, <4>1
    <3>10. CASE a % 2 = 0
      <4>1. (a - 1) % 2 # 0 /\ 2 * half - 1 = a - 1 /\ a - 1 + 1 = a /\ a - 1 < c
        <5>1. \A x, y \in Nat : x % 2 = 0 /\ x <= y =>
                (x - 1) % 2 # 0 /\ 2 * ((x + 1) \div 2) - 1 = x - 1 /\ x - 1 + 1 = x /\ x - 1 < y
          OBVIOUS
        <5> HIDE DEF a, c
        <5> QED  BY <3>4, <3>10, <5>1
      <4>2. sib = l[a - 1] /\ Sibling(l, a - 1) = l[a]
        BY <3>10, <4>1 DEF Sibling
      <4>3. Parents(l)[half] = Node(sib, l[a])
        BY <3>7, <3>8, <4>1, <4>2
      <4>4. Done(k + 1) = [h |-> Node(sib, l[a]), idx |-> (a - 1) \div 2]
        BY <3>6, <4>1 DEF Folded
      <4>5. Done(k + 1) = [h |-> L(k + 1).level[L(k + 1).at], idx |-> L(k + 1).at - 1]
        <5> HIDE DEF L, Done, a, l, sib, half
        <5> QED  BY <3>5, <3>9, <4>3, <4>4
      <4> QED  BY <2>1, <4>5
    <3>11. CASE a % 2 # 0
      <4>1. (a - 1) % 2 = 0 /\ 2 * half - 1 = a
        <5>1. \A x \in Nat : x % 2 # 0 => (x - 1) % 2 = 0 /\ 2 * ((x + 1) \div 2) - 1 = x
          OBVIOUS
        <5> HIDE DEF a
        <5> QED  BY <3>4, <3>11, <5>1
      <4>2. Parents(l)[half] = Node(l[a], sib)
        BY <3>7, <3>8, <4>1
      <4>3. Done(k + 1) = [h |-> Node(l[a], sib), idx |-> (a - 1) \div 2]
        BY <3>6, <4>1 DEF Folded
      <4>4. Done(k + 1) = [h |-> L(k + 1).level[L(k + 1).at], idx |-> L(k + 1).at - 1]
        <5> HIDE DEF L, Done, a, l, sib, half
        <5> QED  BY <3>5, <3>9, <4>2, <4>3
      <4> QED  BY <2>1, <4>4
    <3> QED  BY <3>10, <3>11
  <2> QED  BY <2>2, <2>3
<1>5. 0 .. m \subseteq I
  <2> HIDE DEF I, m
  <2> QED  BY <1>1, <1>3, <1>4, IntervalInduction
<1>6. /\ L(m) = Top(leaves, i) /\ L(m).at \in 1 .. Len(L(m).level)
      /\ Len(L(m).level) = 1 /\ L(m).level = Top(leaves, 1).level
  <2>1. L(m) = Top(leaves, i) /\ Climb(leaves, 1)[m] = Top(leaves, 1) /\ m \in 0 .. m
    BY <1>1 DEF Top
  <2>2. L(m).at \in 1 .. Len(L(m).level) /\ Len(Top(leaves, i).level) = 1
    BY <2>1, LevelsShrink
  <2>3. L(m).level = Climb(leaves, 1)[m].level
    BY <1>1, <2>1, SameLevels
  <2> HIDE DEF L, m
  <2> QED  BY <2>1, <2>2, <2>3
<1>7. Done(m).h = L(m).level[1]
  <2>1. Done(m) = [h |-> L(m).level[L(m).at], idx |-> L(m).at - 1]
    <3>1. m \in 0 .. m
      BY <1>1
    <3>2. m \in I
      <4> HIDE DEF I, m
      <4> QED  BY <1>5, <3>1
    <3> HIDE DEF m, L, Done
    <3> QED  BY <3>2
  <2>2. L(m).at = 1
    <3> HIDE DEF L, m
    <3> QED  BY <1>6
  <2> QED  BY <2>1, <2>2
<1> QED  BY <1>6, <1>7 DEF Root, Path

\* In a tree whose leaves are no nodes, what folds to the root and is no node is
\* one of the leaves, whatever the proof and the index.
LEMMA FoldingFindsALeaf ==
    ASSUME NEW S, NEW leaves \in Seq(S), Len(leaves) >= 1,
           \A a \in 1 .. Len(leaves) : ~IsNode(leaves[a]),
           NEW Q, NEW proof \in Seq(Q), NEW v, ~IsNode(v), NEW idx,
           Fold(v, idx, proof)[Len(proof)].h = Root(leaves)
    PROVE  On(leaves, v)
<1> DEFINE n == Len(proof)
           F(k) == Fold(v, idx, proof)[k]
           I == {k \in 0 .. n : InTree(leaves, F(n - k).h)}
<1>1. n \in Nat
  OBVIOUS
<1>2. /\ F(0) = [h |-> v, idx |-> idx]
      /\ \A k \in 0 .. n - 1 : F(k + 1) = Folded(F(k), proof[k + 1])
  BY FoldUnfolds
<1> HIDE DEF n
<1>3. 0 \in I
  <2> DEFINE m == (Len(leaves) + 1) \div 2
             top == Climb(leaves, 1)[m].level
  <2>1. m \in 0 .. m /\ 1 \in 1 .. Len(leaves)
    OBVIOUS
  <2>2. Len(top) = 1 /\ top[1] = Root(leaves)
    BY <2>1, LevelsShrink DEF Top, Root
  <2>3. On(top, Root(leaves))
    <3> HIDE DEF top
    <3> QED  BY <2>2 DEF On
  <2>4. InTree(leaves, Root(leaves))
    BY <2>1, <2>3 DEF InTree
  <2>5. F(n - 0).h = Root(leaves) /\ 0 \in 0 .. n
    BY <1>1 DEF n
  <2> QED  BY <2>4, <2>5
<1>4. ASSUME NEW k \in 0 .. n - 1, k \in I PROVE k + 1 \in I
  <2> DEFINE j == n - (k + 1)
             l == F(j)
             s == proof[j + 1]
  <2>1. j \in 0 .. n - 1 /\ n - k = j + 1 /\ k + 1 \in 0 .. n
    BY <1>1
  <2>2. InTree(leaves, Folded(l, s).h)
    <3>1. F(n - k) = Folded(l, s)
      BY <1>2, <2>1
    <3> QED  BY <1>4, <3>1
  <2>3. \/ Folded(l, s).h = Node(l.h, s)
        \/ Folded(l, s).h = Node(s, l.h)
    BY DEF Folded
  <2>4. InTree(leaves, l.h)
    <3>1. PICK x, y : Folded(l, s).h = Node(x, y) /\ (x = l.h \/ y = l.h)
      BY <2>3
    <3>2. CASE On(leaves, Node(x, y))
      <4>1. IsNode(Node(x, y))
        BY DEF IsNode
      <4> QED  BY <3>2, <4>1 DEF On
    <3>3. CASE ~On(leaves, Node(x, y))
      <4>1. PICK a, b : Node(x, y) = Node(a, b) /\ InTree(leaves, a) /\ InTree(leaves, b)
        BY <2>2, <3>1, <3>3, TreeHasChildren
      <4>2. x = a /\ y = b
        BY <4>1, NodesAreInjective
      <4> QED  BY <3>1, <4>1, <4>2
    <3> QED  BY <3>2, <3>3
  <2> QED  BY <2>1, <2>4
<1>5. 0 .. n \subseteq I
  <2> HIDE DEF I
  <2> QED  BY <1>1, <1>3, <1>4, IntervalInduction
<1>6. InTree(leaves, v)
  <2>1. n \in 0 .. n /\ n - n = 0
    BY <1>1
  <2>2. InTree(leaves, F(0).h)
    BY <1>5, <2>1
  <2> QED  BY <1>2, <2>2
<1> QED  BY <1>6, TreeHasChildren DEF IsNode
-----------------------------------------------------------------------------
(* The verifier *)

\* The answers that are proofs.
Proofs == Honest \cup MixedUp

\* What a run of the verifier knows: the checks it has passed hold, unless one of
\* them failed, and an honest proof fails none of them.
VerifierInv ==
    /\ size \in Sizes /\ me \in 1 .. size /\ row \in Rows
    /\ p \in Proofs \cup {NoAnswer, Pending}
    /\ ok \in BOOLEAN
    /\ pc = "idle" => p = NoAnswer /\ ok
    /\ pc \in {"leaf", "inclusion", "details", "chain"} => p \in Proofs
    /\ pc # "done" => exit = -1
    /\ p \in Honest => 1 \in committed
    /\ p \in Honest /\ row.receipt # "broken" /\ ~PackageMissing /\ pc # "done" => ok
    /\ ok /\ pc \in {"inclusion", "details", "chain"} => LeafIsOfRecord
    /\ ok /\ pc \in {"details", "chain"} => Included
    /\ ok /\ pc = "chain" => Combined
    /\ exit = 0 => /\ pc = "done" /\ p \in Proofs
                   /\ LeafIsOfRecord /\ Included /\ Combined
                   /\ rpc # "skipped" => p.details \in committed
    /\ FailureIsEvidence

\* A batch is a nonempty sequence of leaves, and no leaf is a node.
LEMMA BatchesHaveLeaves ==
    ASSUME size \in Nat \ {0}, me \in 1 .. size, NEW batch \in {1, 2}
    PROVE  /\ \E S : Leaves(batch) \in Seq(S)
           /\ Len(Leaves(batch)) = IF batch = 2 THEN 2 ELSE size
           /\ \A a \in 1 .. Len(Leaves(batch)) : ~IsNode(Leaves(batch)[a])
           /\ batch = 1 => Leaves(batch)[me] = MyLeaf
<1> DEFINE S == {DebtLeaf(a) : a \in Nat} \cup {MyLeaf}
<1>1. \A v \in S : ~IsNode(v)
  BY LeafIsNoNode DEF IsNode, MyLeaf
<1>2. /\ \A a \in Nat : DebtLeaf(a) \in S
      /\ MyLeaf \in S
  OBVIOUS
<1> HIDE DEF S
<1>3. CASE batch = 2
  <2>1. Leaves(batch) = <<DebtLeaf(10), DebtLeaf(11)>>
    BY <1>3 DEF Leaves
  <2>2. \A v, w \in S : <<v, w>> \in Seq(S) /\ Len(<<v, w>>) = 2
    OBVIOUS
  <2>3. Leaves(batch) \in Seq(S) /\ Len(Leaves(batch)) = 2
    BY <1>2, <2>1, <2>2
  <2>4. \A s \in Seq(S) : \A a \in 1 .. Len(s) : s[a] \in S
    OBVIOUS
  <2> QED  BY <1>1, <1>3, <2>3, <2>4
<1>4. CASE batch = 1
  <2> DEFINE leaf(a) == IF a = me THEN MyLeaf ELSE DebtLeaf(a)
  <2>1. Leaves(batch) = [a \in 1 .. size |-> leaf(a)]
    BY <1>4 DEF Leaves
  <2>2. \A a \in 1 .. size : leaf(a) \in S
    BY <1>2
  <2>3. leaf(me) = MyLeaf
    OBVIOUS
  <2> HIDE DEF leaf
  <2>4. Leaves(batch) \in Seq(S) /\ Len(Leaves(batch)) = size
    BY <2>1, <2>2
  <2>5. \A s \in Seq(S) : \A a \in 1 .. Len(s) : s[a] \in S
    OBVIOUS
  <2> QED  BY <1>1, <1>4, <2>1, <2>3, <2>4, <2>5
<1> QED  BY <1>3, <1>4

\* A path is a sequence.
LEMMA PathsAreSequences ==
    ASSUME size \in Nat \ {0}, me \in 1 .. size,
           NEW batch \in {1, 2}, NEW i \in 1 .. Len(Leaves(batch))
    PROVE  \E Q : Path(Leaves(batch), i) \in Seq(Q)
<1> DEFINE leaves == Leaves(batch)
           m == (Len(leaves) + 1) \div 2
<1>1. PICK S : leaves \in Seq(S)
  BY BatchesHaveLeaves
<1>2. m \in 0 .. m
  BY <1>1
<1>3. \E Q : Climb(leaves, i)[m].path \in Seq(Q)
  <2>1. i \in 1 .. Len(leaves)
    OBVIOUS
  <2> HIDE DEF leaves
  <2> QED  BY <1>1, <1>2, <2>1, LevelsShrink
<1> QED  BY <1>3 DEF Path, Top

\* The pieces of a proof come from leaves of the two batches.
LEMMA ProofsHavePlaces ==
    ASSUME size \in Nat \ {0}, me \in 1 .. size, NEW proof \in Proofs
    PROVE  /\ proof.status = "settled"
           /\ proof.leaf[1] \in {1, 2} /\ proof.leaf[2] \in 1 .. Len(Leaves(proof.leaf[1]))
           /\ proof.path[1] \in {1, 2} /\ proof.path[2] \in 1 .. Len(Leaves(proof.path[1]))
           /\ proof.root \in {1, 2} /\ proof.details \in {1, 2}
<1>1. \A place \in Places :
        place[1] \in {1, 2} /\ place[2] \in 1 .. Len(Leaves(place[1]))
  <2>1. Len(Leaves(1)) = size /\ Len(Leaves(2)) = 2
    BY BatchesHaveLeaves
  <2>2. \A i \in 1 .. size : <<1, i>>[1] = 1 /\ <<1, i>>[2] = i
    OBVIOUS
  <2>3. /\ <<2, 1>>[1] = 2 /\ <<2, 1>>[2] \in 1 .. 2
        /\ <<2, 2>>[1] = 2 /\ <<2, 2>>[2] \in 1 .. 2
    OBVIOUS
  <2> QED  BY <2>1, <2>2, <2>3 DEF Places
<1>2. <<1, me>> \in Places
  BY DEF Places
<1>3. \E leaf, path \in Places : \E record, root, details :
        /\ root \in {1, 2} /\ details \in {1, 2}
        /\ proof = Proof(record, leaf, path, root, details)
  <2>1. CASE proof \in Honest
    <3>1. PICK record \in {row, NoRecord} :
            proof = Proof(record, <<1, me>>, <<1, me>>, 1, 1)
      BY <2>1 DEF Honest
    <3> QED  BY <1>2, <3>1
  <2>2. CASE proof \in MixedUp
    <3>1. PICK other \in Places :
            proof \in {Proof(record, leaf, path, root, details) :
                record \in Rows \cup {NoRecord}, leaf \in {<<1, me>>, other},
                path \in {<<1, me>>, other}, root \in {1, 2}, details \in {1, 2}}
      BY <2>2 DEF MixedUp
    <3> QED  BY <1>2, <3>1
  <2> QED  BY <2>1, <2>2 DEF Proofs
<1>4. PICK leaf \in Places, path \in Places : \E record, root, details :
        /\ root \in {1, 2} /\ details \in {1, 2}
        /\ proof = Proof(record, leaf, path, root, details)
  BY <1>3
<1>5. /\ proof.status = "settled" /\ proof.leaf = leaf /\ proof.path = path
      /\ proof.root \in {1, 2} /\ proof.details \in {1, 2}
  BY <1>4 DEF Proof
<1> QED  BY <1>1, <1>4, <1>5

\* A request that waits and one without an answer have no proof.
LEMMA ProofsAreSettled ==
    ASSUME size \in Nat \ {0}, me \in 1 .. size
    PROVE  NoAnswer \notin Proofs /\ Pending \notin Proofs /\ NoAnswer # Pending
<1>1. NoAnswer.status = "none" /\ Pending.status = "pending_settlement"
  BY DEF NoAnswer, Pending
<1> QED  BY <1>1, ProofsHavePlaces

\* The checks of an answer depend on nothing that changes.
LEMMA ChecksStay ==
    ASSUME UNCHANGED request
    PROVE  /\ Honest' = Honest /\ Proofs' = Proofs
           /\ UNCHANGED p => /\ LeafIsOfRecord' = LeafIsOfRecord
                             /\ Included' = Included /\ Combined' = Combined
<1>1. size' = size /\ me' = me /\ row' = row /\ debt' = debt
  BY DEF request
<1>2. Places' = Places
  BY <1>1 DEF Places
<1>3. Honest' = Honest
  BY <1>1 DEF Honest
<1>4. MixedUp' = MixedUp
  BY <1>1, <1>2 DEF MixedUp
<1>5. MyLeaf' = MyLeaf
  BY <1>1 DEF MyLeaf
<1>6. ASSUME UNCHANGED p
      PROVE  /\ ServedLeaf' = ServedLeaf /\ Leaves(p.path[1])' = Leaves(p.path[1])
             /\ Leaves(p.root)' = Leaves(p.root) /\ Leaves(p.details)' = Leaves(p.details)
  BY <1>1, <1>5, <1>6 DEF ServedLeaf, Leaves
<1>7. ASSUME UNCHANGED p PROVE LeafIsOfRecord' = LeafIsOfRecord
  BY <1>1, <1>6, <1>7 DEF LeafIsOfRecord
<1>8. ASSUME UNCHANGED p PROVE Included' = Included
  BY <1>1, <1>6, <1>8 DEF Included
<1>9. ASSUME UNCHANGED p PROVE Combined' = Combined
  BY <1>1, <1>6, <1>9 DEF Combined, DetailsHash
<1> QED  BY <1>3, <1>4, <1>7, <1>8, <1>9 DEF Proofs

\* An honest proof of a request whose signature is good passes every check, unless
\* the signature cannot be verified.
LEMMA HonestProofsPass ==
    ASSUME VerifierInv, p \in Honest
    PROVE  /\ row.receipt # "broken" /\ ~PackageMissing => SignatureVerifies
           /\ LeafIsOfRecord /\ Included /\ Combined
           /\ 1 \in committed => OnChain
<1>1. size \in Nat \ {0} /\ me \in 1 .. size /\ me \in Nat
  BY VerifyReceiptAssumption DEF VerifierInv
<1>2. PICK record \in {row, NoRecord} : p = Proof(record, <<1, me>>, <<1, me>>, 1, 1)
  BY DEF Honest
<1>3. /\ p.record = record /\ p.leaf = <<1, me>> /\ p.path = <<1, me>>
      /\ p.root = 1 /\ p.details = 1
      /\ p.leaf[1] = 1 /\ p.leaf[2] = me /\ p.path[1] = 1 /\ p.path[2] = me
  BY <1>2 DEF Proof
<1>4. PICK S : Leaves(1) \in Seq(S)
  BY <1>1, BatchesHaveLeaves
<1>5. Len(Leaves(1)) = size /\ Leaves(1)[me] = MyLeaf /\ ServedLeaf = MyLeaf
  BY <1>1, <1>3, BatchesHaveLeaves DEF ServedLeaf
<1>6. Included
  <2>1. LET proof == Path(Leaves(1), me)
        IN  Fold(Leaves(1)[me], me - 1, proof)[Len(proof)].h = Root(Leaves(1))
    BY <1>1, <1>4, <1>5, PathFoldsToRoot
  <2> QED  BY <1>3, <1>5, <2>1 DEF Included
<1>7. LeafIsOfRecord
  BY <1>2, <1>3, <1>5 DEF LeafIsOfRecord, MyLeaf
<1>8. row.receipt # "broken" /\ ~PackageMissing => SignatureVerifies
  <2>1. row.receipt \in {"signed", "broken", "absent"}
    BY DEF VerifierInv, Rows, Receipts
  <2> QED  BY <1>2, <1>3, <2>1 DEF SignatureVerifies, PackageMissing
<1> QED  BY <1>3, <1>6, <1>7, <1>8 DEF Combined, DetailsHash, OnChain

\* The invariant holds before the verifier has asked for anything.
LEMMA VerifierInitInv == Init => VerifierInv
<1> SUFFICES ASSUME Init PROVE VerifierInv
  OBVIOUS
<1>1. /\ size \in Sizes /\ me \in 1 .. size /\ size \in Nat \ {0}
      /\ p = NoAnswer /\ pc = "idle" /\ ok = TRUE /\ exit = -1
      /\ row \in Rows
  BY VerifyReceiptAssumption DEF Init, Rows
<1>2. p \notin Proofs
  BY <1>1, ProofsAreSettled
<1> QED  BY <1>1, <1>2 DEF VerifierInv, Proofs, FailureIsEvidence

\* Every step of the verifier keeps its invariant.
LEMMA VerifierNextInv == VerifierInv /\ [Next]_vars => VerifierInv'
<1> SUFFICES ASSUME VerifierInv, [Next]_vars PROVE VerifierInv'
  OBVIOUS
<1>1. size \in Nat \ {0} /\ me \in 1 .. size
  BY VerifyReceiptAssumption DEF VerifierInv
<1>2. UNCHANGED request
  BY DEF Next, vars, world, Settle, TryAgain, Query, NoProof, Unsettled, OfflineChecks,
         Check, CheckChain
<1>3. /\ size' = size /\ me' = me /\ row' = row
      /\ Honest' = Honest /\ Proofs' = Proofs /\ Honest \subseteq Proofs
  BY <1>2, ChecksStay DEF request, Proofs
<1>4. UNCHANGED p => /\ LeafIsOfRecord' = LeafIsOfRecord
                     /\ Included' = Included /\ Combined' = Combined
  BY <1>2, ChecksStay
<1>14. UNCHANGED <<world, p>> => (PackageMissing' <=> PackageMissing)
  BY DEF world, PackageMissing
<1>5. NoAnswer \notin Proofs /\ Pending \notin Proofs /\ NoAnswer # Pending
  BY <1>1, ProofsAreSettled
<1>6. CASE Settle
  BY <1>3, <1>4, <1>6, <1>14 DEF Settle, VerifierInv, FailureIsEvidence
<1>7. CASE TryAgain
  BY <1>3, <1>5, <1>7 DEF TryAgain, VerifierInv, FailureIsEvidence
<1>8. CASE Query
  <2>1. /\ pc = "idle" /\ p' \in Answers /\ pc' = "fetched" /\ ok' = ok /\ exit' = exit
        /\ exit = -1 /\ committed' = committed
    BY <1>8 DEF Query, VerifierInv
  <2>2. p' \in Proofs \cup {Pending} /\ (p' \in Honest => 1 \in committed')
    BY <1>3, <1>5, <2>1 DEF Answers, Proofs
  <2>3. ok'
    BY <1>8 DEF Query, VerifierInv
  <2> QED  BY <1>3, <2>1, <2>2, <2>3 DEF VerifierInv, FailureIsEvidence
<1>9. CASE NoProof
  <2>1. /\ pc = "idle" /\ p = NoAnswer /\ p' = p /\ pc' = "done" /\ exit' \in {1, 3, 4}
        /\ committed' = committed /\ rpc' = rpc /\ ok' = ok
    BY <1>9 DEF NoProof, Exit, VerifierInv
  <2> QED  BY <1>3, <1>5, <2>1 DEF VerifierInv, FailureIsEvidence
<1>10. CASE Unsettled
  <2>1. /\ pc = "fetched" /\ p' = p /\ pc' = "done" /\ exit' = 3
        /\ committed' = committed /\ rpc' = rpc /\ ok' = ok
    BY <1>10 DEF Unsettled, Exit
  <2> QED  BY <1>3, <1>4, <1>10, <1>14, <2>1 DEF Unsettled, VerifierInv, FailureIsEvidence
<1>11. CASE OfflineChecks
  <2>1. /\ UNCHANGED p /\ committed' = committed /\ rpc' = rpc /\ exit' = exit
        /\ p.status = "settled" /\ (PackageMissing' <=> PackageMissing)
    BY <1>11, <1>14 DEF OfflineChecks, Check
  <2>2. p \in Proofs
    <3>1. NoAnswer.status # "settled" /\ Pending.status # "settled"
      BY DEF NoAnswer, Pending
    <3> QED  BY <2>1, <3>1 DEF VerifierInv
  <2>3. p \in Honest => /\ row.receipt # "broken" /\ ~PackageMissing => SignatureVerifies
                        /\ LeafIsOfRecord /\ Included /\ Combined
    BY HonestProofsPass
  <2>4. exit = -1
    BY <1>11 DEF OfflineChecks, Check, VerifierInv
  <2>5. CASE Check("fetched", SignatureVerifies, "leaf")
    <3>1. pc = "fetched" /\ pc' = "leaf" /\ (ok' <=> ok /\ SignatureVerifies)
      BY <2>5 DEF Check
    <3> QED  BY <1>3, <1>4, <2>1, <2>2, <2>3, <2>4, <3>1 DEF VerifierInv, FailureIsEvidence
  <2>6. CASE Check("leaf", LeafIsOfRecord, "inclusion")
    <3>1. pc = "leaf" /\ pc' = "inclusion" /\ (ok' <=> ok /\ LeafIsOfRecord)
      BY <2>6 DEF Check
    <3> QED  BY <1>3, <1>4, <2>1, <2>2, <2>3, <2>4, <3>1 DEF VerifierInv, FailureIsEvidence
  <2>7. CASE Check("inclusion", Included, "details")
    <3>1. pc = "inclusion" /\ pc' = "details" /\ (ok' <=> ok /\ Included)
      BY <2>7 DEF Check
    <3> QED  BY <1>3, <1>4, <2>1, <2>2, <2>3, <2>4, <3>1 DEF VerifierInv, FailureIsEvidence
  <2>8. CASE Check("details", Combined, "chain")
    <3>1. pc = "details" /\ pc' = "chain" /\ (ok' <=> ok /\ Combined)
      BY <2>8 DEF Check
    <3> QED  BY <1>3, <1>4, <2>1, <2>2, <2>3, <2>4, <3>1 DEF VerifierInv, FailureIsEvidence
  <2> QED  BY <1>11, <2>5, <2>6, <2>7, <2>8 DEF OfflineChecks
<1>12. CASE CheckChain
  <2>1. pc = "chain" /\ UNCHANGED p /\ committed' = committed /\ pc' = "done" /\ p \in Proofs
        /\ (PackageMissing' <=> PackageMissing)
    BY <1>12, <1>14 DEF CheckChain, Verdict, Exit, VerifierInv
  <2>2. /\ ok => LeafIsOfRecord /\ Included /\ Combined
        /\ p \in Honest /\ row.receipt # "broken" /\ ~PackageMissing => ok /\ OnChain
    BY <2>1, HonestProofsPass DEF VerifierInv
  <2>3. /\ exit' = 0 => ok /\ (rpc' # "skipped" => OnChain)
        /\ exit' = 1 => \/ rpc' \in {"error", "garbage"}
                        \/ ~ (ok /\ OnChain)
    <3>1. ok \in BOOLEAN
      BY DEF VerifierInv
    <3>2. CASE rpc' = "skipped" /\ ok' = ok /\ Verdict
      BY <3>1, <3>2 DEF Verdict, Exit
    <3>3. CASE rpc' = "answered" /\ ok' = (ok /\ OnChain) /\ Verdict
      <4>1. ok' <=> ok /\ OnChain
        BY <3>3
      <4>2. exit' = IF ok' THEN 0 ELSE 1
        BY <3>3 DEF Verdict, Exit
      <4>3. exit' = 0 => ok /\ OnChain
        BY <4>1, <4>2
      <4>4. exit' = 1 => ~ (ok /\ OnChain)
        BY <4>1, <4>2
      <4> QED  BY <4>3, <4>4
    <3>4. CASE rpc' \in {"error", "garbage"} /\ exit' = 1
      BY <3>4
    <3>5. CASE exit' = 4
      BY <3>5
    <3> QED  BY <1>12, <3>2, <3>3, <3>4, <3>5 DEF CheckChain, Verdict, Exit
  <2>4. p \in Honest => 1 \in committed
    BY DEF VerifierInv
  <2>5. ok' \in BOOLEAN
    BY <1>12 DEF CheckChain, VerifierInv
  <2> QED  BY <1>3, <1>4, <1>5, <2>1, <2>2, <2>3, <2>4, <2>5
           DEF VerifierInv, FailureIsEvidence, OnChain
<1>13. CASE UNCHANGED vars
  BY <1>3, <1>4, <1>13, <1>14 DEF vars, VerifierInv, FailureIsEvidence
<1> QED  BY <1>6, <1>7, <1>8, <1>9, <1>10, <1>11, <1>12, <1>13 DEF Next

\* Whatever the gateway mixed up: a request that is verified is charged in a batch
\* with the served details hash, which is on chain if the endpoint was asked, in
\* batches of every size and for every position, proof and index.
THEOREM VerifiedMeansCommitted == Spec => []VerifiedIsCommitted
<1>1. VerifierInv => VerifiedIsCommitted
  <2> SUFFICES ASSUME VerifierInv, exit = 0
               PROVE  /\ rpc # "skipped" => p.details \in committed
                      /\ \E i \in DOMAIN Leaves(p.details) : Leaves(p.details)[i] = ServedLeaf
                      /\ p.record # NoRecord =>
                            ServedLeaf = DebtLeaf(me) \/ ServedLeaf = ReceiptLeaf(me, p.record)
    BY DEF VerifiedIsCommitted
  <2>1. size \in Nat \ {0} /\ me \in 1 .. size
    BY VerifyReceiptAssumption DEF VerifierInv
  <2>2. /\ p \in Proofs /\ LeafIsOfRecord /\ Included /\ Combined
        /\ rpc # "skipped" => p.details \in committed
    BY DEF VerifierInv
  <2>3. /\ p.leaf[1] \in {1, 2} /\ p.leaf[2] \in 1 .. Len(Leaves(p.leaf[1]))
        /\ p.path[1] \in {1, 2} /\ p.path[2] \in 1 .. Len(Leaves(p.path[1]))
        /\ p.root \in {1, 2} /\ p.details \in {1, 2}
    BY <2>1, <2>2, ProofsHavePlaces
  <2>4. p.root = p.details
    <3>1. \A a, b, c, d : Details(a, b) = Details(c, d) => a = c
      <4>1. \A a, b : Details(a, b).legacy = a
        BY DEF Details
      <4> QED  BY <4>1
    <3> QED  BY <2>2, <3>1 DEF Combined, DetailsHash
  <2>5. ~IsNode(ServedLeaf)
    BY <2>1, <2>3, BatchesHaveLeaves DEF ServedLeaf
  <2> DEFINE leaves == Leaves(p.root)
             proof  == Path(Leaves(p.path[1]), p.path[2])
  <2>6. PICK S : leaves \in Seq(S)
    BY <2>1, <2>3, BatchesHaveLeaves
  <2>7. Len(leaves) >= 1 /\ \A a \in 1 .. Len(leaves) : ~IsNode(leaves[a])
    BY <2>1, <2>3, BatchesHaveLeaves
  <2>8. PICK Q : proof \in Seq(Q)
    BY <2>1, <2>3, PathsAreSequences
  <2>9. Fold(ServedLeaf, p.leaf[2] - 1, proof)[Len(proof)].h = Root(leaves)
    BY <2>2 DEF Included
  <2>10. On(leaves, ServedLeaf)
    <3> HIDE DEF leaves, proof
    <3> QED  BY <2>5, <2>6, <2>7, <2>8, <2>9, FoldingFindsALeaf
  <2>11. \E i \in DOMAIN leaves : leaves[i] = ServedLeaf
    <3>1. DOMAIN leaves = 1 .. Len(leaves)
      <4> HIDE DEF leaves
      <4> QED  BY <2>6
    <3> QED  BY <2>10, <3>1 DEF On
  <2> QED  BY <2>2, <2>4, <2>11 DEF LeafIsOfRecord
<1> QED  BY <1>1, VerifierInitInv, VerifierNextInv, PTL DEF Spec

\* An honest proof of a request with a good signature fails only through the
\* endpoint or for want of the package that verifies the signature, in batches of
\* every size and for every position.
THEOREM FailureMeansEvidence == Spec => []FailureIsEvidence
<1>1. VerifierInv => FailureIsEvidence
  BY DEF VerifierInv
<1> QED  BY <1>1, VerifierInitInv, VerifierNextInv, PTL DEF Spec
=============================================================================
