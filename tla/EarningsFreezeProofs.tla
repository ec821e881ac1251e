------------------------ MODULE EarningsFreezeProofs ------------------------
(***************************************************************************)
(* The earnings freeze for every set of times, windows and amounts: no     *)
(* credit is released before its window is over, and credits made under a  *)
(* freeze are released in order.                                           *)
(***************************************************************************)
EXTENDS EarningsFreeze, LockupQueueTheorems

\* Where credit c of the history cs is, given queue q, cursor cur and time t,
\* and what is known of the entry it went to.
Placed(cs, q, cur, t, c) ==
    LET credit == cs[c]
        entry  == q[credit.entry]
    IN  /\ credit.entry \in 0 .. Len(q)
        /\ credit.freeze = 0 <=> credit.entry = 0
        /\ credit.entry = 0 => credit.fate = "released"
        /\ credit.entry > 0 /\ entry.amount > 0
            => /\ credit.at + credit.freeze <= entry.unlockAt
               /\ entry.unlockAt
                    < credit.at + credit.freeze + BucketWidth(credit.freeze)
        /\ credit.fate = "frozen" => cur < credit.entry /\ entry.amount > 0
        /\ credit.fate = "released" => /\ credit.entry <= cur
                                       /\ credit.at + credit.freeze <= t
        /\ credit.fate = "seized" => entry.amount = 0

\* Later credits are never in front of earlier ones.
Ordered(cs) ==
    \A c, d \in DOMAIN cs :
        c < d /\ cs[d].entry > 0 => cs[c].entry <= cs[d].entry

History(cs, q, cur, t) ==
    /\ \A c \in DOMAIN cs : Placed(cs, q, cur, t, c)
    /\ Ordered(cs)

Inv ==
    /\ TypeOK
    /\ QueueShape
    /\ History(credits, spLockups, spLockupCursor, now)

USE TimesAssumption, FreezesAssumption, AmountsAssumption, CapsAssumption,
    MaxUint192Assumption, MaxCreditsAssumption

\* What the types of the freeze say of the constants and the queue.
LEMMA Types ==
    ASSUME TypeOK
    PROVE  /\ now \in Nat /\ earningsFreezeSec \in Nat
           /\ MaxUint192 \in Nat /\ 0 \in Nat
           /\ spEarnings \in Nat /\ paid \in Nat /\ seized \in Nat
           /\ spLockups \in Seq(Entries(MaxUint192))
           /\ spLockupCursor \in 0 .. Len(spLockups)
           /\ QueueShape <=> WellFormed(spLockups, spLockupCursor)
BY DEF TypeOK, Entry, Entries, QueueShape, WellFormed

\* What the history is after a walk has met the entries of S with a fate.
LEMMA SettleHistory ==
    ASSUME NEW cs \in Seq(Credit), NEW S, NEW fate \in Fates
    PROVE  /\ Settle(cs, S, fate) \in Seq(Credit)
           /\ DOMAIN Settle(cs, S, fate) = DOMAIN cs
           /\ \A c \in DOMAIN cs :
                LET new == Settle(cs, S, fate)[c]
                IN  /\ new.at = cs[c].at /\ new.freeze = cs[c].freeze
                    /\ new.amount = cs[c].amount /\ new.entry = cs[c].entry
                    /\ new.fate = IF cs[c].entry \in S THEN fate ELSE cs[c].fate
<1> DEFINE step(e) == IF e.entry \in S THEN [e EXCEPT !.fate = fate] ELSE e
<1>1. DOMAIN cs = 1 .. Len(cs) /\ Len(cs) \in Nat
  OBVIOUS
<1>2. \A c \in 1 .. Len(cs) : cs[c] \in Credit
  OBVIOUS
<1>3. \A e \in Credit :
        /\ step(e) \in Credit
        /\ step(e).at = e.at /\ step(e).freeze = e.freeze
        /\ step(e).amount = e.amount /\ step(e).entry = e.entry
        /\ step(e).fate = IF e.entry \in S THEN fate ELSE e.fate
  BY DEF Credit
<1>4. Settle(cs, S, fate) = [c \in 1 .. Len(cs) |-> step(cs[c])]
  BY <1>1 DEF Settle
<1> HIDE DEF step
<1> QED  BY <1>1, <1>2, <1>3, <1>4

\* Every step of the machine is from and to well-typed states.
LEMMA TypeStep == TypeOK /\ QueueShape /\ [Next]_vars => TypeOK'
<1> SUFFICES ASSUME TypeOK, QueueShape, [Next]_vars PROVE TypeOK'
  OBVIOUS
<1>t. /\ now \in Nat /\ earningsFreezeSec \in Nat
      /\ MaxUint192 \in Nat /\ 0 \in Nat
      /\ spEarnings \in Nat /\ paid \in Nat /\ seized \in Nat
      /\ spLockups \in Seq(Entries(MaxUint192))
      /\ spLockupCursor \in 0 .. Len(spLockups)
      /\ WellFormed(spLockups, spLockupCursor)
  BY Types
<1>e. Entry = Entries(MaxUint192)
  BY DEF Entry, Entries
<1>1. CASE Tick
  BY <1>1 DEF Tick, TypeOK, queueVars
<1>2. CASE SetEarningsFreeze
  BY <1>2 DEF SetEarningsFreeze, TypeOK, queueVars
<1>3. CASE CreditEarnings
  <2>1. PICK amount \in Amounts : amount > 0 /\ (CreditMatured(amount) \/ CreditFrozen(amount))
    BY <1>3 DEF CreditEarnings
  <2>2. amount \in Nat \ {0}
    BY <2>1
  <2>3. CASE CreditMatured(amount)
    <3>1. [amount |-> amount, at |-> now, freeze |-> earningsFreezeSec,
           entry |-> 0, fate |-> "released"] \in Credit
      BY <1>t, <2>2 DEF Credit, Fates
    <3>2. credits' \in Seq(Credit)
      BY <2>3, <3>1 DEF CreditMatured, Remember, TypeOK
    <3>3. spEarnings' \in Nat
      BY <2>2, <2>3 DEF CreditMatured, TypeOK
    <3> QED  BY <1>3, <2>3, <3>2, <3>3 DEF CreditMatured, CreditEarnings, TypeOK, queueVars
  <2>4. CASE CreditFrozen(amount)
    <3> DEFINE unlock == UnlockTime(now, earningsFreezeSec)
               new    == Pushed(spLockups, spLockupCursor, unlock, amount)
    <3>1. unlock \in Nat \ {0}
      <4>1. unlock \in Nat /\ unlock >= now + earningsFreezeSec
        BY <1>t, UnlockTimeRoundsUp
      <4> HIDE DEF unlock
      <4> QED  BY <1>t, <2>4, <4>1 DEF CreditFrozen
    <3>2. EntryAmount(spLockups, spLockupCursor, unlock, amount) <= MaxUint192
      BY <2>4 DEF CreditFrozen
    <3>3. /\ new \in Seq(Entry)
          /\ Len(new) \in Nat /\ spLockupCursor \in 0 .. Len(new)
      <4>1. new \in Seq(Entries(MaxUint192)) /\ Len(new) \in spLockupCursor + 1 .. Len(spLockups) + 1
        <5> HIDE DEF unlock
        <5> QED  BY <1>t, <2>2, <3>1, <3>2, PushedIsAQueue
      <4> HIDE DEF new
      <4> QED  BY <1>t, <1>e, <4>1
    <3>4. spLockups' = new /\ spLockupCursor' = spLockupCursor /\ spEarnings' = spEarnings
      BY <2>4 DEF CreditFrozen
    <3>5. [amount |-> amount, at |-> now, freeze |-> earningsFreezeSec,
           entry |-> Len(new), fate |-> "frozen"] \in Credit
      <4> HIDE DEF new
      <4> QED  BY <1>t, <2>2, <3>3 DEF Credit, Fates
    <3>6. credits' \in Seq(Credit)
      <4> HIDE DEF new
      <4> QED  BY <2>4, <3>4, <3>5 DEF CreditFrozen, Remember, TypeOK
    <3> HIDE DEF new
    <3> QED  BY <1>3, <3>3, <3>4, <3>6 DEF CreditEarnings, TypeOK
  <2> QED  BY <2>1, <2>3, <2>4
<1>m. ASSUME NEW max \in Nat
      PROVE  /\ AfterMaturing(max).queue \in Seq(Entries(MaxUint192))
             /\ AfterMaturing(max).cursor \in 0 .. Len(AfterMaturing(max).queue)
             /\ AfterMaturing(max).released \in Nat
             /\ \A S, T : /\ Settle(credits, S, "released") \in Seq(Credit)
                          /\ Settle(Settle(credits, S, "released"), T, "seized") \in Seq(Credit)
  <2>1. /\ AfterMaturing(max).queue \in Seq(Entries(MaxUint192))
        /\ AfterMaturing(max).cursor \in 0 .. Len(AfterMaturing(max).queue)
        /\ AfterMaturing(max).released \in Nat
    BY <1>t, MaturedIsAQueue DEF AfterMaturing
  <2>2. "released" \in Fates /\ "seized" \in Fates
    BY DEF Fates
  <2>3. credits \in Seq(Credit)
    BY DEF TypeOK
  <2>4. \A S : Settle(credits, S, "released") \in Seq(Credit)
    BY <2>2, <2>3, SettleHistory
  <2>5. \A S, T : Settle(Settle(credits, S, "released"), T, "seized") \in Seq(Credit)
    BY <2>2, <2>4, SettleHistory
  <2> QED  BY <2>1, <2>4, <2>5
<1>4. CASE MatureEarnings
  <2>1. PICK max \in Caps :
            /\ spLockups' = AfterMaturing(max).queue
            /\ spLockupCursor' = AfterMaturing(max).cursor
            /\ spEarnings' = spEarnings + AfterMaturing(max).released
            /\ credits' = Settle(credits, Released(spLockups, spLockupCursor, now, max),
                                 "released")
    BY <1>4, Zenon DEF MatureEarnings
  <2>2. max \in Nat
    OBVIOUS
  <2>3. /\ spLockups' \in Seq(Entry)
        /\ spLockupCursor' \in 0 .. Len(spLockups')
        /\ credits' \in Seq(Credit)
    BY <1>e, <1>m, <2>1, <2>2
  <2>4. spEarnings' \in Nat
    BY <1>m, <1>t, <2>1, <2>2
  <2>5. UNCHANGED <<now, earningsFreezeSec, paid, seized>>
    BY <1>4 DEF MatureEarnings
  <2> QED  BY <2>3, <2>4, <2>5 DEF TypeOK
<1>5. CASE WithdrawEarnings
  <2>1. paid' \in Nat /\ spEarnings' \in Nat
    BY <1>5, <1>m, <1>t DEF WithdrawEarnings, TypeOK
  <2> QED  BY <1>5, <1>e, <1>m, <1>t, <2>1 DEF WithdrawEarnings, TypeOK
<1>6. CASE ConfiscateFrozenEarnings
  <2> DEFINE mature == AfterMaturing(0)
             taken  == Seized(mature.queue, mature.cursor, now)
  <2>1. /\ taken.queue \in Seq(Entries(MaxUint192))
        /\ Len(taken.queue) = Len(mature.queue)
        /\ taken.amount \in Nat
    <3>1. /\ mature.queue \in Seq(Entries(MaxUint192))
          /\ mature.cursor \in 0 .. Len(mature.queue)
      BY <1>m, <1>t
    <3> HIDE DEF mature
    <3> QED  BY <1>t, <3>1, SeizedIsAQueue
  <2>2. /\ spLockups' = taken.queue /\ spLockupCursor' = mature.cursor
        /\ spEarnings' = spEarnings + mature.released
        /\ seized' = seized + taken.amount
        /\ credits' \in Seq(Credit)
    BY <1>6, <1>m, <1>t, Zenon DEF ConfiscateFrozenEarnings
  <2>3. mature.cursor \in 0 .. Len(mature.queue) /\ mature.released \in Nat
    BY <1>m, <1>t
  <2>4. UNCHANGED <<now, earningsFreezeSec, paid>>
    BY <1>6 DEF ConfiscateFrozenEarnings
  <2> HIDE DEF mature, taken
  <2>5. spEarnings' \in Nat /\ seized' \in Nat
    BY <1>t, <2>1, <2>2, <2>3, SMTT(30)
  <2>6. /\ spLockups' \in Seq(Entry)
        /\ spLockupCursor' \in 0 .. Len(spLockups')
    BY <1>e, <2>1, <2>2, <2>3
  <2> QED  BY <2>2, <2>4, <2>5, <2>6 DEF TypeOK
<1>7. CASE UNCHANGED vars
  BY <1>7 DEF vars, TypeOK
<1> QED  BY <1>1, <1>2, <1>3, <1>4, <1>5, <1>6, <1>7 DEF Next

\* What a credit of the history is.
LEMMA CreditType ==
    ASSUME NEW cs \in Seq(Credit), NEW c \in DOMAIN cs
    PROVE  /\ cs[c].amount \in Nat /\ cs[c].at \in Nat /\ cs[c].freeze \in Nat
           /\ cs[c].entry \in Nat /\ cs[c].fate \in Fates
<1>1. cs[c] \in Credit
  OBVIOUS
<1> QED  BY <1>1 DEF Credit

\* Maturing keeps the history placed: it marks as released exactly the credits
\* of the entries it releases, whose windows are over.
LEMMA MaturingKeepsHistory ==
    ASSUME NEW M \in Nat, NEW q \in Seq(Entries(M)), NEW cur \in 0 .. Len(q),
           NEW t \in Nat, NEW max \in Nat, NEW cs \in Seq(Credit),
           History(cs, q, cur, t)
    PROVE  LET m == Matured(q, cur, t, max)
           IN  History(Settle(cs, Released(q, cur, t, max), "released"),
                       m.queue, m.cursor, t)
<1> DEFINE out == Released(q, cur, t, max)
           q2  == Matured(q, cur, t, max).queue
           c2  == Matured(q, cur, t, max).cursor
           cs2 == Settle(cs, out, "released")
<1>1. /\ Len(q2) = Len(q) /\ c2 \in cur .. Len(q) /\ Len(q) \in Nat /\ cur \in Nat
  BY MaturedIsAQueue
<1>2. \A i \in 1 .. Len(q) :
        /\ q2[i] = IF i \in out THEN Deleted ELSE q[i]
        /\ i \in out => cur < i /\ i <= c2 /\ q[i].amount > 0 /\ q[i].unlockAt <= t
        /\ cur < i /\ i <= c2 /\ q[i].amount > 0 => i \in out
  BY MaturedEntries
<1>3. /\ DOMAIN cs2 = DOMAIN cs
      /\ \A c \in DOMAIN cs :
            /\ cs2[c].at = cs[c].at /\ cs2[c].freeze = cs[c].freeze
            /\ cs2[c].entry = cs[c].entry
            /\ cs2[c].fate = IF cs[c].entry \in out THEN "released" ELSE cs[c].fate
  <2>1. "released" \in Fates
    BY DEF Fates
  <2> HIDE DEF out
  <2> QED  BY <2>1, SettleHistory
<1>4. out \subseteq 1 .. Len(q)
  BY WalkSets
<1> HIDE DEF out, q2, c2, cs2
<1>5. ASSUME NEW c \in DOMAIN cs
      PROVE  Placed(cs2, q2, c2, t, c)
  <2>1. /\ cs[c].at \in Nat /\ cs[c].freeze \in Nat /\ cs[c].entry \in Nat
        /\ cs[c].fate \in Fates
    BY CreditType
  <2>2. Placed(cs, q, cur, t, c)
    BY DEF History
  <2>3. cs[c].entry > 0 => cs[c].entry \in 1 .. Len(q)
    BY <2>1, <2>2 DEF Placed
  <2>4. \A i \in 1 .. Len(q) : q[i].unlockAt \in Nat /\ q[i].amount \in Nat
    BY EntryType
  <2>5. CASE cs[c].entry \in out
    <3>1. cs[c].entry \in 1 .. Len(q) /\ cs[c].entry > 0
      <4>1. cs[c].entry \in 1 .. Len(q)
        BY <1>4, <2>5, Zenon
      <4> QED  BY <1>1, <4>1
    <3>2. cs[c].at + cs[c].freeze <= t
      BY <1>2, <2>1, <2>2, <2>4, <2>5, <3>1 DEF Placed
    <3>3. q2[cs[c].entry].amount = 0
      BY <1>2, <2>5, <3>1 DEF Deleted
    <3>4. cs[c].entry <= c2
      BY <1>2, <2>5, <3>1
    <3>5. cs2[c].at = cs[c].at /\ cs2[c].freeze = cs[c].freeze
          /\ cs2[c].entry = cs[c].entry /\ cs2[c].fate = "released"
      BY <1>3, <2>5
    <3>6. cs[c].freeze = 0 <=> cs[c].entry = 0
      BY <2>2 DEF Placed
    <3>7. cs[c].entry \in 0 .. Len(q2)
      BY <1>1, <3>1
    <3>8. ~(q2[cs[c].entry].amount > 0)
      BY <3>3
    <3> QED  BY <3>1, <3>2, <3>3, <3>4, <3>5, <3>6, <3>7, <3>8, Zenon DEF Placed
  <2>6. CASE cs[c].entry \notin out
    <3>1. cs[c].entry > 0 => q2[cs[c].entry] = q[cs[c].entry]
      BY <1>2, <2>3, <2>6
    <3>2. cs[c].fate = "frozen" => c2 < cs[c].entry
      BY <1>1, <1>2, <2>1, <2>2, <2>3, <2>6 DEF Placed
    <3>3. cs[c].fate = "seized" => cs[c].entry > 0
      BY <2>1, <2>2 DEF Placed
    <3>4. cs[c].fate = "frozen" => cs[c].entry > 0
      BY <1>1, <2>1, <2>2 DEF Placed
    <3> QED  BY <1>1, <1>3, <2>1, <2>2, <2>6, <3>1, <3>2, <3>3, <3>4 DEF Placed
  <2> QED  BY <2>5, <2>6
<1>6. Ordered(cs2)
  BY <1>3 DEF History, Ordered
<1>7. History(cs2, q2, c2, t)
  BY <1>3, <1>5, <1>6 DEF History
<1> QED  BY <1>7 DEF cs2, q2, c2, out

\* So does seizing: it marks the credits of the entries it empties.
LEMMA SeizingKeepsHistory ==
    ASSUME NEW M \in Nat, NEW q \in Seq(Entries(M)), NEW cur \in 0 .. Len(q),
           NEW t \in Nat, NEW cs \in Seq(Credit),
           History(cs, q, cur, t)
    PROVE  History(Settle(cs, Frozen(q, cur, t), "seized"),
                   Seized(q, cur, t).queue, cur, t)
<1> DEFINE out == Frozen(q, cur, t)
           q2  == Seized(q, cur, t).queue
           cs2 == Settle(cs, out, "seized")
<1>1. Len(q2) = Len(q) /\ Len(q) \in Nat /\ cur \in Nat
  BY SeizedIsAQueue
<1>2. \A i \in 1 .. Len(q) :
        /\ q2[i] = IF i \in out THEN Deleted ELSE q[i]
        /\ i \in out => cur < i /\ q[i].unlockAt > t
  BY SeizedIsAQueue
<1>3. /\ DOMAIN cs2 = DOMAIN cs
      /\ \A c \in DOMAIN cs :
            /\ cs2[c].at = cs[c].at /\ cs2[c].freeze = cs[c].freeze
            /\ cs2[c].entry = cs[c].entry
            /\ cs2[c].fate = IF cs[c].entry \in out THEN "seized" ELSE cs[c].fate
  <2>1. "seized" \in Fates
    BY DEF Fates
  <2> HIDE DEF out
  <2> QED  BY <2>1, SettleHistory
<1>4. out \subseteq 1 .. Len(q)
  BY WalkSets
<1> HIDE DEF out, q2, cs2
<1>5. ASSUME NEW c \in DOMAIN cs
      PROVE  Placed(cs2, q2, cur, t, c)
  <2>1. /\ cs[c].at \in Nat /\ cs[c].freeze \in Nat /\ cs[c].entry \in Nat
        /\ cs[c].fate \in Fates
    BY CreditType
  <2>2. Placed(cs, q, cur, t, c)
    BY DEF History
  <2>3. cs[c].entry > 0 => cs[c].entry \in 1 .. Len(q)
    BY <2>1, <2>2 DEF Placed
  <2>4. CASE cs[c].entry \in out
    <3>1. cs[c].entry \in 1 .. Len(q) /\ cs[c].entry > 0
      <4>1. cs[c].entry \in 1 .. Len(q)
        BY <1>4, <2>4, Zenon
      <4> QED  BY <1>1, <4>1
    <3>2. q2[cs[c].entry].amount = 0
      BY <1>2, <2>4, <3>1 DEF Deleted
    <3>3. cs2[c].at = cs[c].at /\ cs2[c].freeze = cs[c].freeze
          /\ cs2[c].entry = cs[c].entry /\ cs2[c].fate = "seized"
      BY <1>3, <2>4
    <3>4. cs[c].freeze = 0 <=> cs[c].entry = 0
      BY <2>2 DEF Placed
    <3>5. cs[c].entry \in 0 .. Len(q2)
      BY <1>1, <3>1
    <3>6. ~(q2[cs[c].entry].amount > 0)
      BY <3>2
    <3>7. cs[c].entry # 0
      BY <3>1
    <3> QED  BY <3>2, <3>3, <3>4, <3>5, <3>6, <3>7 DEF Placed
  <2>5. CASE cs[c].entry \notin out
    <3>1. cs[c].entry > 0 => q2[cs[c].entry] = q[cs[c].entry]
      BY <1>2, <2>3, <2>5
    <3>2. cs[c].fate \in {"seized", "frozen"} => cs[c].entry > 0
      BY <1>1, <2>1, <2>2 DEF Placed
    <3> QED  BY <1>1, <1>3, <2>1, <2>2, <2>5, <3>1, <3>2 DEF Placed
  <2> QED  BY <2>4, <2>5
<1>6. Ordered(cs2)
  BY <1>3 DEF History, Ordered
<1>7. History(cs2, q2, cur, t)
  BY <1>3, <1>5, <1>6 DEF History
<1> QED  BY <1>7 DEF cs2, q2, out

\* A credit that is placed, and not in front of an earlier one, may be added.
LEMMA AddingKeepsHistory ==
    ASSUME NEW q, NEW cur \in Nat, NEW t \in Nat,
           NEW cs \in Seq(Credit), NEW credit \in Credit,
           History(cs, q, cur, t),
           credit.entry > 0 => \A c \in DOMAIN cs : cs[c].entry <= credit.entry,
           Placed(Append(cs, credit), q, cur, t, Len(cs) + 1)
    PROVE  History(Append(cs, credit), q, cur, t)
<1> DEFINE cs2 == Append(cs, credit)
           n   == Len(cs) + 1
<1>1. /\ DOMAIN cs = 1 .. Len(cs) /\ Len(cs) \in Nat
      /\ DOMAIN cs2 = 1 .. n /\ cs2[n] = credit
      /\ \A c \in 1 .. Len(cs) : cs2[c] = cs[c]
  OBVIOUS
<1> HIDE DEF cs2
<1>2. ASSUME NEW c \in DOMAIN cs2 PROVE Placed(cs2, q, cur, t, c)
  <2>1. CASE c = n
    BY <2>1 DEF cs2
  <2>2. CASE c # n
    <3>1. c \in DOMAIN cs /\ cs2[c] = cs[c]
      BY <1>1, <2>2
    <3>2. Placed(cs, q, cur, t, c)
      BY <3>1 DEF History
    <3> QED  BY <3>1, <3>2 DEF Placed
  <2> QED  BY <2>1, <2>2
<1>3. ASSUME NEW c \in DOMAIN cs2, NEW d \in DOMAIN cs2, c < d, cs2[d].entry > 0
      PROVE  cs2[c].entry <= cs2[d].entry
  <2>1. c \in DOMAIN cs /\ cs2[c] = cs[c]
    BY <1>1, <1>3
  <2>2. CASE d = n
    BY <1>1, <1>3, <2>1, <2>2
  <2>3. CASE d # n
    <3>1. d \in DOMAIN cs /\ cs2[d] = cs[d]
      BY <1>1, <2>3
    <3> QED  BY <1>3, <2>1, <3>1 DEF History, Ordered
  <2> QED  BY <2>2, <2>3
<1>4. History(cs2, q, cur, t)
  BY <1>2, <1>3 DEF History, Ordered
<1> QED  BY <1>4 DEF cs2

\* Writing the credited entry disturbs no earlier credit: a merge keeps the
\* entry's unlock time.
LEMMA PushingKeepsHistory ==
    ASSUME NEW M \in Nat, NEW q \in Seq(Entries(M)), NEW cur \in 0 .. Len(q),
           NEW t \in Nat, NEW cs \in Seq(Credit),
           NEW unlock \in Nat \ {0}, NEW amount \in Nat \ {0},
           EntryAmount(q, cur, unlock, amount) <= M,
           WellFormed(q, cur),
           History(cs, q, cur, t)
    PROVE  History(cs, Pushed(q, cur, unlock, amount), cur, t)
<1> DEFINE new == Pushed(q, cur, unlock, amount)
           n   == Len(new)
           sum == EntryAmount(q, cur, unlock, amount)
<1>1. /\ n \in cur + 1 .. Len(q) + 1 /\ Len(q) <= n
      /\ \A i \in 1 .. Len(q) : i # n => new[i] = q[i]
      /\ new[n] = [unlockAt |-> unlock, amount |-> sum]
      /\ n = Len(q) => q[n].unlockAt = unlock /\ q[n].amount > 0
      /\ sum > 0
  BY PushedIsAQueue
<1>2. Len(q) \in Nat /\ cur \in Nat
  OBVIOUS
<1> HIDE DEF new, sum
<1>3. n \in Nat
  BY <1>1, <1>2
<1>4. ASSUME NEW i \in 1 .. Len(q)
      PROVE  /\ new[i].amount > 0 <=> q[i].amount > 0
             /\ q[i].amount > 0 => new[i].unlockAt = q[i].unlockAt
             /\ q[i].amount = 0 => new[i].amount = 0
  <2>1. CASE i # n
    BY <1>1, <2>1
  <2>2. CASE i = n
    <3>1. n = Len(q)
      BY <1>1, <1>2, <1>3, <2>2
    <3>2. new[i].unlockAt = q[i].unlockAt /\ new[i].amount = sum /\ q[i].amount > 0
      BY <1>1, <2>2, <3>1
    <3>3. q[i].amount \in Nat
      BY EntryType
    <3> QED  BY <1>1, <3>2, <3>3
  <2> QED  BY <2>1, <2>2
<1>5. ASSUME NEW c \in DOMAIN cs PROVE Placed(cs, new, cur, t, c)
  <2>1. /\ cs[c].at \in Nat /\ cs[c].freeze \in Nat /\ cs[c].entry \in Nat
        /\ cs[c].fate \in Fates
    BY CreditType
  <2>2. Placed(cs, q, cur, t, c)
    BY DEF History
  <2>3. cs[c].entry > 0 => cs[c].entry \in 1 .. Len(q)
    BY <2>1, <2>2 DEF Placed
  <2>4. cs[c].entry \in 0 .. Len(new)
    BY <1>1, <1>2, <1>3, <2>1, <2>3
  <2>5. cs[c].fate \in {"frozen", "seized"} => cs[c].entry > 0
    BY <1>2, <2>1, <2>2 DEF Placed
  <2> QED  BY <1>4, <2>1, <2>2, <2>3, <2>4, <2>5 DEF Placed
<1>6. History(cs, new, cur, t)
  BY <1>5 DEF History
<1> QED  BY <1>6 DEF new

\* Time passing disturbs nothing.
LEMMA WaitingKeepsHistory ==
    ASSUME NEW q, NEW cur, NEW t \in Nat, NEW u \in Nat, t <= u,
           NEW cs \in Seq(Credit), History(cs, q, cur, t)
    PROVE  History(cs, q, cur, u)
<1>1. ASSUME NEW c \in DOMAIN cs PROVE Placed(cs, q, cur, u, c)
  <2>1. cs[c].at \in Nat /\ cs[c].freeze \in Nat
    BY CreditType
  <2>2. Placed(cs, q, cur, t, c)
    BY DEF History
  <2>3. cs[c].at + cs[c].freeze <= t => cs[c].at + cs[c].freeze <= u
    BY <2>1
  <2> QED  BY <2>2, <2>3 DEF Placed
<1> QED  BY <1>1 DEF History

\* A credit made straight to the matured bucket.
LEMMA MaturedCreditKeepsInv ==
    ASSUME Inv, NEW amount \in Amounts, amount > 0, CreditMatured(amount)
    PROVE  QueueShape' /\ History(credits', spLockups', spLockupCursor', now)
<1> DEFINE credit == [amount |-> amount, at |-> now, freeze |-> earningsFreezeSec,
                      entry |-> 0, fate |-> "released"]
<1>1. /\ now \in Nat /\ spLockupCursor \in Nat /\ Len(spLockups) \in Nat
      /\ credits \in Seq(Credit) /\ earningsFreezeSec = 0
      /\ History(credits, spLockups, spLockupCursor, now)
  BY Types DEF Inv, TypeOK, CreditMatured
<1>2. spLockups' = spLockups /\ spLockupCursor' = spLockupCursor
  BY DEF CreditMatured, queueVars
<1>3. credits' = Append(credits, credit)
  BY DEF CreditMatured, Remember
<1>4. /\ credit \in Credit
      /\ credit.entry = 0 /\ credit.freeze = 0 /\ credit.at = now
      /\ credit.fate = "released"
  BY <1>1 DEF Credit, Fates
<1> HIDE DEF credit
<1>5. Append(credits, credit)[Len(credits) + 1] = credit
  BY <1>1, <1>4
<1>6. Placed(Append(credits, credit), spLockups, spLockupCursor, now, Len(credits) + 1)
  BY <1>1, <1>4, <1>5 DEF Placed
<1>7. ~(credit.entry > 0)
  BY <1>4
<1>8. History(credits', spLockups, spLockupCursor, now)
  BY <1>1, <1>3, <1>4, <1>6, <1>7, AddingKeepsHistory
<1> QED  BY <1>2, <1>8 DEF Inv, QueueShape

\* A credit frozen in the queue.
LEMMA FrozenCreditKeepsInv ==
    ASSUME Inv, NEW amount \in Amounts, amount > 0, CreditFrozen(amount)
    PROVE  QueueShape' /\ History(credits', spLockups', spLockupCursor', now)
<1> DEFINE unlock == UnlockTime(now, earningsFreezeSec)
           new    == Pushed(spLockups, spLockupCursor, unlock, amount)
           n      == Len(new)
           credit == [amount |-> amount, at |-> now, freeze |-> earningsFreezeSec,
                      entry |-> n, fate |-> "frozen"]
<1>1. /\ now \in Nat /\ earningsFreezeSec \in Nat /\ MaxUint192 \in Nat
      /\ spLockups \in Seq(Entries(MaxUint192))
      /\ spLockupCursor \in 0 .. Len(spLockups)
      /\ WellFormed(spLockups, spLockupCursor)
      /\ credits \in Seq(Credit)
      /\ History(credits, spLockups, spLockupCursor, now)
  BY Types DEF Inv, TypeOK
<1>2. earningsFreezeSec > 0 /\ amount \in Nat \ {0}
  BY DEF CreditFrozen
<1>3. /\ unlock \in Nat /\ unlock >= now + earningsFreezeSec
      /\ unlock < now + earningsFreezeSec + BucketWidth(earningsFreezeSec)
  BY <1>1, UnlockTimeRoundsUp
<1>4. EntryAmount(spLockups, spLockupCursor, unlock, amount) <= MaxUint192
  BY DEF CreditFrozen
<1>5. spLockups' = new /\ spLockupCursor' = spLockupCursor
  BY DEF CreditFrozen
<1>6. credits' = Append(credits, credit)
  BY <1>5 DEF CreditFrozen, Remember
<1> HIDE DEF unlock
<1>7. unlock \in Nat \ {0}
  BY <1>1, <1>2, <1>3
<1>8. /\ new \in Seq(Entries(MaxUint192))
      /\ n \in spLockupCursor + 1 .. Len(spLockups) + 1 /\ Len(spLockups) <= n
      /\ new[n].unlockAt = unlock /\ new[n].amount > 0
      /\ WellFormed(new, spLockupCursor)
  <2> DEFINE sum == EntryAmount(spLockups, spLockupCursor, unlock, amount)
  <2>1. /\ new \in Seq(Entries(MaxUint192))
        /\ n \in spLockupCursor + 1 .. Len(spLockups) + 1 /\ Len(spLockups) <= n
        /\ new[n] = [unlockAt |-> unlock, amount |-> sum]
        /\ sum > 0
        /\ WellFormed(new, spLockupCursor)
    BY <1>1, <1>2, <1>4, <1>7, PushedIsAQueue
  <2> HIDE DEF new, sum
  <2> QED  BY <2>1
<1>9. History(credits, new, spLockupCursor, now)
  BY <1>1, <1>2, <1>4, <1>7, PushingKeepsHistory
<1> HIDE DEF new
<1>10. /\ n \in Nat /\ n > 0 /\ spLockupCursor \in Nat /\ spLockupCursor < n
       /\ n \in 0 .. Len(new)
  BY <1>1, <1>8
<1>11. /\ credit \in Credit
       /\ credit.entry = n /\ credit.freeze = earningsFreezeSec /\ credit.at = now
       /\ credit.fate = "frozen"
  BY <1>1, <1>2, <1>10 DEF Credit, Fates
<1> HIDE DEF credit
<1>12. Append(credits, credit)[Len(credits) + 1] = credit
  BY <1>1, <1>11
<1>13. Placed(Append(credits, credit), new, spLockupCursor, now, Len(credits) + 1)
  BY <1>1, <1>2, <1>3, <1>8, <1>10, <1>11, <1>12, SMTT(30) DEF Placed
<1>14. \A c \in DOMAIN credits : credits[c].entry <= n
  <2>1. TAKE c \in DOMAIN credits
  <2>2. credits[c].entry \in 0 .. Len(spLockups)
    BY <1>1 DEF History, Placed
  <2> QED  BY <1>8, <1>10, <2>2
<1>15. History(credits', new, spLockupCursor, now)
  BY <1>1, <1>6, <1>9, <1>10, <1>11, <1>13, <1>14, AddingKeepsHistory
<1>16. QueueShape'
  BY <1>5, <1>8 DEF QueueShape, WellFormed
<1> QED  BY <1>5, <1>15, <1>16

\* Any maturation, alone or as the first half of a withdrawal or confiscation.
LEMMA MaturingKeepsInv ==
    ASSUME Inv, NEW max \in Nat
    PROVE  LET m == AfterMaturing(max)
           IN  /\ m.queue \in Seq(Entries(MaxUint192))
               /\ m.cursor \in 0 .. Len(m.queue)
               /\ WellFormed(m.queue, m.cursor)
               /\ History(Settle(credits, Released(spLockups, spLockupCursor, now, max),
                                 "released"),
                          m.queue, m.cursor, now)
<1>1. /\ now \in Nat /\ MaxUint192 \in Nat
      /\ spLockups \in Seq(Entries(MaxUint192))
      /\ spLockupCursor \in 0 .. Len(spLockups)
      /\ WellFormed(spLockups, spLockupCursor)
      /\ credits \in Seq(Credit)
      /\ History(credits, spLockups, spLockupCursor, now)
  BY Types DEF Inv, TypeOK
<1>2. /\ AfterMaturing(max).queue \in Seq(Entries(MaxUint192))
      /\ AfterMaturing(max).cursor \in 0 .. Len(AfterMaturing(max).queue)
      /\ WellFormed(AfterMaturing(max).queue, AfterMaturing(max).cursor)
  BY <1>1, MaturedIsAQueue DEF AfterMaturing
<1>3. History(Settle(credits, Released(spLockups, spLockupCursor, now, max), "released"),
              AfterMaturing(max).queue, AfterMaturing(max).cursor, now)
  BY <1>1, MaturingKeepsHistory DEF AfterMaturing
<1> QED  BY <1>2, <1>3

\* The invariant holds of an empty queue.
LEMMA InitInv == Init => Inv
<1> SUFFICES ASSUME Init PROVE Inv
  OBVIOUS
<1>1. TypeOK
  BY DEF Init, TypeOK
<1>2. spLockups = <<>> /\ credits = <<>>
  BY DEF Init
<1>3. QueueShape
  BY <1>2 DEF QueueShape
<1>4. History(credits, spLockups, spLockupCursor, now)
  BY <1>2 DEF History, Ordered
<1> QED  BY <1>1, <1>3, <1>4 DEF Inv

\* Every operation on the queue, and the passing of time, keeps the invariant.
LEMMA NextInv == Inv /\ [Next]_vars => Inv'
<1> SUFFICES ASSUME Inv, [Next]_vars PROVE Inv'
  OBVIOUS
<1> DEFINE Rest == QueueShape' /\ History(credits', spLockups', spLockupCursor', now')
<1>0. TypeOK /\ QueueShape /\ History(credits, spLockups, spLockupCursor, now)
  BY DEF Inv
<1>t. TypeOK'
  BY <1>0, TypeStep
<1> SUFFICES Rest
  BY <1>t DEF Inv
<1>1. CASE Tick
  <2>1. /\ now \in Nat /\ now' \in Nat /\ now <= now'
        /\ credits \in Seq(Credit)
    BY <1>0, <1>1 DEF Tick, TypeOK
  <2>2. UNCHANGED <<credits, spLockups, spLockupCursor>>
    BY <1>1 DEF Tick, queueVars
  <2>3. History(credits, spLockups, spLockupCursor, now')
    BY <1>0, <2>1, WaitingKeepsHistory
  <2> QED  BY <1>0, <2>2, <2>3 DEF QueueShape
<1>2. CASE SetEarningsFreeze
  BY <1>0, <1>2 DEF SetEarningsFreeze, queueVars, QueueShape
<1>3. CASE CreditEarnings
  <2>1. PICK amount \in Amounts : amount > 0 /\ (CreditMatured(amount) \/ CreditFrozen(amount))
    BY <1>3 DEF CreditEarnings
  <2>2. now' = now
    BY <1>3 DEF CreditEarnings
  <2>3. QueueShape' /\ History(credits', spLockups', spLockupCursor', now)
    BY <2>1, MaturedCreditKeepsInv, FrozenCreditKeepsInv
  <2> QED  BY <2>2, <2>3
<1>4. CASE MatureEarnings
  <2>1. PICK max \in Caps :
            /\ spLockups' = AfterMaturing(max).queue
            /\ spLockupCursor' = AfterMaturing(max).cursor
            /\ credits' = Settle(credits, Released(spLockups, spLockupCursor, now, max),
                                 "released")
    BY <1>4, Zenon DEF MatureEarnings
  <2>2. now' = now
    BY <1>4 DEF MatureEarnings
  <2>3. max \in Nat
    OBVIOUS
  <2>4. /\ WellFormed(spLockups', spLockupCursor')
        /\ History(credits', spLockups', spLockupCursor', now)
    BY <2>1, <2>3, MaturingKeepsInv
  <2> QED  BY <2>2, <2>4 DEF QueueShape, WellFormed
<1>5. CASE WithdrawEarnings
  <2>1. /\ spLockups' = AfterMaturing(0).queue
        /\ spLockupCursor' = AfterMaturing(0).cursor
        /\ credits' = Settle(credits, Released(spLockups, spLockupCursor, now, 0),
                             "released")
        /\ now' = now
    BY <1>5, Zenon DEF WithdrawEarnings
  <2>2. /\ WellFormed(spLockups', spLockupCursor')
        /\ History(credits', spLockups', spLockupCursor', now)
    BY <2>1, MaturingKeepsInv
  <2> QED  BY <2>1, <2>2 DEF QueueShape, WellFormed
<1>6. CASE ConfiscateFrozenEarnings
  <2> DEFINE mature == AfterMaturing(0)
             taken  == Seized(mature.queue, mature.cursor, now)
             cs     == Settle(credits, Released(spLockups, spLockupCursor, now, 0),
                              "released")
  <2>1. /\ spLockups' = taken.queue /\ spLockupCursor' = mature.cursor
        /\ credits' = Settle(cs, Frozen(mature.queue, mature.cursor, now), "seized")
        /\ now' = now
    BY <1>6, Zenon DEF ConfiscateFrozenEarnings
  <2>2. /\ mature.queue \in Seq(Entries(MaxUint192))
        /\ mature.cursor \in 0 .. Len(mature.queue)
        /\ WellFormed(mature.queue, mature.cursor)
        /\ History(cs, mature.queue, mature.cursor, now)
    BY MaturingKeepsInv
  <2>3. now \in Nat /\ MaxUint192 \in Nat
    BY <1>0, Types
  <2>4. cs \in Seq(Credit)
    BY <1>0, SettleHistory DEF Fates, TypeOK
  <2> HIDE DEF mature, cs
  <2>5. History(credits', taken.queue, mature.cursor, now)
    BY <2>1, <2>2, <2>3, <2>4, SeizingKeepsHistory
  <2>6. WellFormed(taken.queue, mature.cursor)
    BY <2>2, <2>3, SeizedIsAQueue
  <2> HIDE DEF taken
  <2> QED  BY <2>1, <2>5, <2>6 DEF QueueShape, WellFormed
<1>7. CASE UNCHANGED vars
  BY <1>0, <1>7 DEF vars, QueueShape
<1> QED  BY <1>1, <1>2, <1>3, <1>4, <1>5, <1>6, <1>7 DEF Next

\* The invariant holds for ever.
LEMMA InvHolds == Spec => []Inv
BY InitInv, NextInv, PTL DEF Spec

\* The queue of a provider always has its declared shape: amounts fit their
\* width although merging adds to them, and the cursor stays within the array.
THEOREM TypeCorrect == Spec => []TypeOK
<1>1. Inv => TypeOK
  BY DEF Inv
<1> QED  BY <1>1, InvHolds, PTL

\* Nothing is left behind the cursor of _matureLockups, and an emptied entry
\* cannot be merged into.
THEOREM QueueShapeHolds == Spec => []QueueShape
<1>1. Inv => QueueShape
  BY DEF Inv
<1> QED  BY <1>1, InvHolds, PTL

\* The freeze is a floor: no credit is released by maturing, withdrawing or
\* confiscating before the window it was credited under has passed.
THEOREM FreezeIsAFloor == Spec => []NothingUnlocksEarly
<1>1. Inv => NothingUnlocksEarly
  BY DEF Inv, History, Placed, NothingUnlocksEarly, WithFate
<1> QED  BY <1>1, InvHolds, PTL

\* Credits made under a freeze leave the queue in the order they entered it,
\* whatever setEarningsFreeze did between them.
THEOREM FrozenCreditsInOrder == Spec => []FrozenCreditsReleaseInOrder
<1>1. Inv => FrozenCreditsReleaseInOrder
  <2> SUFFICES ASSUME Inv,
                      NEW c \in DOMAIN credits, NEW d \in DOMAIN credits, c < d,
                      credits[d].fate = "released", credits[d].freeze > 0,
                      credits[c].fate = "frozen"
               PROVE  FALSE
    BY DEF FrozenCreditsReleaseInOrder
  <2>1. /\ credits \in Seq(Credit) /\ spLockupCursor \in Nat
        /\ History(credits, spLockups, spLockupCursor, now)
    BY Types DEF Inv, TypeOK
  <2>2. /\ credits[c].entry \in Nat /\ credits[d].entry \in Nat
        /\ credits[d].freeze \in Nat
    BY <2>1, CreditType
  <2>3. spLockupCursor < credits[c].entry
    BY <2>1 DEF History, Placed
  <2>4. credits[d].entry <= spLockupCursor /\ credits[d].entry > 0
    BY <2>1, <2>2 DEF History, Placed
  <2>5. credits[c].entry <= credits[d].entry
    BY <2>1, <2>4 DEF History, Ordered
  <2> QED  BY <2>1, <2>2, <2>3, <2>4, <2>5
<1> QED  BY <1>1, InvHolds, PTL

\* A confiscation takes every credit whose window is open, even one merged
\* with others or queued behind them, and none that is a bucket past it.
THEOREM ConfiscationExact == Spec => ConfiscationIsExact
<1> DEFINE Exact(c) ==
        LET end == credits[c].at + credits[c].freeze
        IN  /\ now < end => credits'[c].fate = "seized"
            /\ now >= end + BucketWidth(credits[c].freeze)
                => credits'[c].fate # "seized"
<1>1. ASSUME Inv, [Next]_vars, seized' # seized,
             NEW c \in DOMAIN credits, credits[c].fate = "frozen"
      PROVE  Exact(c)
  <2> DEFINE mature == AfterMaturing(0)
             out    == Released(spLockups, spLockupCursor, now, 0)
             hit    == Frozen(mature.queue, mature.cursor, now)
             cs     == Settle(credits, out, "released")
             i      == credits[c].entry
  <2>1. ConfiscateFrozenEarnings
    BY <1>1 DEF Next, Tick, SetEarningsFreeze, CreditEarnings, MatureEarnings,
                WithdrawEarnings, vars
  <2>2. credits' = Settle(cs, hit, "seized")
    BY <2>1, Zenon DEF ConfiscateFrozenEarnings
  <2>3. /\ now \in Nat /\ MaxUint192 \in Nat /\ spLockupCursor \in Nat
        /\ spLockups \in Seq(Entries(MaxUint192))
        /\ spLockupCursor \in 0 .. Len(spLockups)
        /\ credits \in Seq(Credit)
        /\ Len(spLockups) \in Nat
    BY <1>1, Types DEF Inv, TypeOK
  <2>4. /\ credits[c].at \in Nat /\ credits[c].freeze \in Nat
        /\ i \in Nat
    BY <2>3, CreditType
  <2>5. /\ spLockupCursor < i /\ i \in 0 .. Len(spLockups)
        /\ spLockups[i].amount > 0
        /\ i > 0 => /\ credits[c].at + credits[c].freeze <= spLockups[i].unlockAt
                    /\ spLockups[i].unlockAt
                         < credits[c].at + credits[c].freeze
                           + BucketWidth(credits[c].freeze)
    BY <1>1 DEF Inv, History, Placed
  <2>6. BucketWidth(credits[c].freeze) \in Nat
    BY <2>4, BucketWidthType
  <2>7. i \in 1 .. Len(spLockups) /\ spLockups[i].unlockAt \in Nat
    <3>1. i \in 1 .. Len(spLockups)
      BY <2>3, <2>4, <2>5
    <3> HIDE DEF i
    <3> QED  BY <2>3, <3>1, EntryType
  <2>8. /\ cs \in Seq(Credit) /\ DOMAIN cs = DOMAIN credits
        /\ cs[c].entry = i
        /\ cs[c].fate = IF i \in out THEN "released" ELSE "frozen"
    <3>1. "released" \in Fates
      BY DEF Fates
    <3> HIDE DEF out
    <3> QED  BY <1>1, <2>3, <3>1, SettleHistory
  <2>9. credits'[c].fate = IF i \in hit THEN "seized" ELSE cs[c].fate
    <3>1. "seized" \in Fates
      BY DEF Fates
    <3> HIDE DEF hit, cs, i
    <3> QED  BY <2>2, <2>8, <3>1, SettleHistory
  <2>10. /\ Len(mature.queue) = Len(spLockups) /\ mature.cursor \in Nat
         /\ mature.queue[i] = IF i \in out THEN Deleted ELSE spLockups[i]
         /\ i \in out => spLockups[i].unlockAt <= now
         /\ i <= mature.cursor => i \in out
    <3>1. 0 \in Nat
      OBVIOUS
    <3>2. Len(mature.queue) = Len(spLockups) /\ mature.cursor \in 0 .. Len(mature.queue)
      BY <2>3, <3>1, MaturedIsAQueue DEF AfterMaturing
    <3>3. /\ mature.queue[i] = IF i \in out THEN Deleted ELSE spLockups[i]
          /\ i \in out => spLockups[i].unlockAt <= now
          /\ i <= mature.cursor => i \in out
      <4> HIDE DEF i
      <4> QED  BY <2>3, <2>5, <2>7, <3>1, MaturedEntries DEF AfterMaturing
    <3> HIDE DEF mature
    <3> QED  BY <2>3, <3>2, <3>3
  <2> HIDE DEF mature, out, cs, i
  <2>11. i \in hit <=> spLockups[i].unlockAt > now
    <3>1. CASE i \in out
      <4>1. ~(mature.queue[i].amount > 0)
        BY <2>10, <3>1 DEF Deleted
      <4> QED  BY <2>3, <2>7, <2>10, <3>1, <4>1 DEF Frozen, Live
    <3>2. CASE i \notin out
      <4>1. mature.queue[i] = spLockups[i] /\ mature.cursor < i
        BY <2>4, <2>10, <3>2 DEF i
      <4>2. i \in mature.cursor + 1 .. Len(mature.queue)
        BY <2>3, <2>7, <2>10, <4>1
      <4> QED  BY <2>5, <4>1, <4>2 DEF Frozen, Live
    <3> QED  BY <3>1, <3>2
  <2> HIDE DEF hit
  <2>12. i > 0 /\ BucketWidth(credits[c].freeze) \in Nat
    BY <2>6, <2>7
  <2> QED  BY <2>3, <2>4, <2>5, <2>6, <2>7, <2>8, <2>9, <2>11, <2>12
<1>2. Inv /\ [Next]_vars =>
        [\A c \in DOMAIN credits :
            seized' # seized /\ credits[c].fate = "frozen" => Exact(c)]_vars
  BY <1>1
<1>3. []Inv /\ [][Next]_vars => ConfiscationIsExact
  BY <1>2, PTL DEF ConfiscationIsExact
<1> QED  BY <1>3, InvHolds, PTL DEF Spec
-----------------------------------------------------------------------------
CreditTotal(cs) == Total([c \in DOMAIN cs |-> cs[c].amount], DOMAIN cs)

\* The fates of the credits do not matter to their sum.
LEMMA SettlingKeepsTotal ==
    ASSUME NEW cs \in Seq(Credit), NEW S, NEW fate \in Fates
    PROVE  CreditTotal(Settle(cs, S, fate)) = CreditTotal(cs)
<1> DEFINE cs2 == Settle(cs, S, fate)
<1>1. DOMAIN cs2 = DOMAIN cs /\ \A c \in DOMAIN cs : cs2[c].amount = cs[c].amount
  BY SettleHistory
<1> HIDE DEF cs2
<1>2. [c \in DOMAIN cs2 |-> cs2[c].amount] = [c \in DOMAIN cs |-> cs[c].amount]
  BY <1>1
<1>3. CreditTotal(cs2) = CreditTotal(cs)
  BY <1>1, <1>2 DEF CreditTotal
<1> QED  BY <1>3 DEF cs2

\* One more credit adds its amount.
LEMMA AddingAddsAmount ==
    ASSUME NEW cs \in Seq(Credit), NEW credit \in Credit
    PROVE  /\ CreditTotal(Append(cs, credit)) = CreditTotal(cs) + credit.amount
           /\ CreditTotal(cs) \in Nat
<1> DEFINE cs2 == Append(cs, credit)
           n   == Len(cs) + 1
           f   == [c \in DOMAIN cs |-> cs[c].amount]
           g   == [c \in DOMAIN cs2 |-> cs2[c].amount]
           old == DOMAIN cs
           all == DOMAIN cs2
<1>1. /\ old = 1 .. Len(cs) /\ all = 1 .. n /\ Len(cs) \in Nat
      /\ cs2 \in Seq(Credit) /\ cs2[n] = credit
      /\ \A c \in old : cs2[c] = cs[c]
  OBVIOUS
<1>2. \A c \in old : f[c] = cs[c].amount /\ f[c] \in Nat
  BY CreditType
<1> HIDE DEF cs2
<1>3. \A c \in all : g[c] = cs2[c].amount /\ g[c] \in Nat
  BY <1>1, CreditType
<1>4. IsFiniteSet(old) /\ IsFiniteSet(all)
  BY <1>1, FS_Interval
<1>5. old \in SUBSET all /\ all \ old = {n} /\ n \in all
  BY <1>1
<1>6. \A c \in old : g[c] = f[c]
  BY <1>1, <1>2, <1>3, <1>5
<1>7. CreditTotal(cs) = Total(f, old) /\ CreditTotal(cs2) = Total(g, all)
  BY DEF CreditTotal
<1>8. g[n] = credit.amount
  BY <1>1, <1>3, <1>5
<1> HIDE DEF f, g, old, all, n
<1>9. Total(g, all) = Total(g, old) + Total(g, {n})
  BY <1>3, <1>4, <1>5, TotalSplit
<1>10. Total(g, old) = Total(f, old)
  BY <1>6, TotalSame
<1>11. Total(g, {n}) = g[n]
  BY <1>3, <1>5, TotalSingle
<1>12. Total(f, old) \in Nat
  BY <1>2, <1>4, TotalType
<1> QED  BY <1>7, <1>8, <1>9, <1>10, <1>11, <1>12 DEF cs2

\* What a credit does to the accounts.
LEMMA CreditingAccounts ==
    ASSUME Inv, CreditEarnings
    PROVE  /\ \E amount \in Nat :
                /\ CreditTotal(credits') = CreditTotal(credits) + amount
                /\ spEarnings' + TotalIn(spLockups', spLockupCursor')
                        = spEarnings + TotalIn(spLockups, spLockupCursor) + amount
           /\ spEarnings + WithdrawableIn(spLockups, spLockupCursor, now)
                <= spEarnings' + WithdrawableIn(spLockups', spLockupCursor', now)
           /\ paid' = paid /\ seized' = seized
<1>1. /\ now \in Nat /\ earningsFreezeSec \in Nat /\ MaxUint192 \in Nat
      /\ spLockups \in Seq(Entries(MaxUint192))
      /\ spLockupCursor \in 0 .. Len(spLockups)
      /\ WellFormed(spLockups, spLockupCursor)
      /\ credits \in Seq(Credit) /\ spEarnings \in Nat
      /\ TypeOK
  BY Types DEF Inv, TypeOK
<1>2. PICK amount \in Amounts : amount > 0 /\ (CreditMatured(amount) \/ CreditFrozen(amount))
  BY DEF CreditEarnings
<1>3. amount \in Nat \ {0} /\ paid' = paid /\ seized' = seized
  BY <1>2 DEF CreditEarnings
<1>4. /\ TotalIn(spLockups, spLockupCursor) \in Nat
      /\ WithdrawableIn(spLockups, spLockupCursor, now) \in Nat
  BY <1>1, WholeQueue, WithdrawableType
<1>5. TypeOK'
  <2>1. [Next]_vars /\ QueueShape
    BY DEF Next, Inv
  <2> QED  BY <1>1, <2>1, TypeStep
<1>6. CreditTotal(credits') = CreditTotal(credits) + amount
  <2>1. PICK entry, fate :
            credits' = Append(credits, [amount |-> amount, at |-> now,
                                        freeze |-> earningsFreezeSec,
                                        entry |-> entry, fate |-> fate])
    BY <1>2, Zenon DEF CreditMatured, CreditFrozen, Remember
  <2> DEFINE credit == [amount |-> amount, at |-> now, freeze |-> earningsFreezeSec,
                        entry |-> entry, fate |-> fate]
  <2>2. credits' = Append(credits, credit) /\ credit.amount = amount
    BY <2>1
  <2> HIDE DEF credit
  <2>3. credits' \in Seq(Credit)
    BY <1>5 DEF TypeOK
  <2>4. credits'[Len(credits) + 1] = credit /\ Len(credits) + 1 \in DOMAIN credits'
    BY <1>1, <2>2
  <2>5. credit \in Credit
    BY <2>3, <2>4
  <2> QED  BY <1>1, <2>2, <2>5, AddingAddsAmount
<1>7. CASE CreditMatured(amount)
  <2>1. /\ spEarnings' = spEarnings + amount
        /\ spLockups' = spLockups /\ spLockupCursor' = spLockupCursor
    BY <1>7 DEF CreditMatured, queueVars
  <2> QED  BY <1>1, <1>3, <1>4, <1>6, <2>1
<1>8. CASE CreditFrozen(amount)
  <2> DEFINE unlock == UnlockTime(now, earningsFreezeSec)
             new    == Pushed(spLockups, spLockupCursor, unlock, amount)
  <2>1. /\ spEarnings' = spEarnings
        /\ spLockups' = new /\ spLockupCursor' = spLockupCursor
        /\ earningsFreezeSec > 0
        /\ EntryAmount(spLockups, spLockupCursor, unlock, amount) <= MaxUint192
    BY <1>8 DEF CreditFrozen
  <2>2. unlock \in Nat /\ unlock >= now + earningsFreezeSec
    BY <1>1, UnlockTimeRoundsUp
  <2> HIDE DEF unlock
  <2>3. unlock \in Nat \ {0} /\ unlock > now
    BY <1>1, <2>1, <2>2
  <2>4. TotalIn(new, spLockupCursor) = TotalIn(spLockups, spLockupCursor) + amount
    BY <1>1, <1>3, <2>1, <2>3, PushingConserves
  <2>5. WithdrawableIn(new, spLockupCursor, now)
            = WithdrawableIn(spLockups, spLockupCursor, now)
    BY <1>1, <1>3, <2>1, <2>3, PushingWithholds
  <2> HIDE DEF new
  <2> QED  BY <1>1, <1>3, <1>4, <1>6, <2>1, <2>4, <2>5
<1> QED  BY <1>2, <1>7, <1>8

\* What a maturation does to them.
LEMMA MaturingAccounts ==
    ASSUME Inv, NEW max \in Nat
    PROVE  LET m == AfterMaturing(max)
           IN  /\ m.released \in Nat
               /\ TotalIn(m.queue, m.cursor) \in Nat
               /\ WithdrawableIn(m.queue, m.cursor, now) \in Nat
               /\ TotalIn(spLockups, spLockupCursor)
                    = TotalIn(m.queue, m.cursor) + m.released
               /\ WithdrawableIn(spLockups, spLockupCursor, now)
                    = m.released + WithdrawableIn(m.queue, m.cursor, now)
               /\ max = 0 => WithdrawableIn(m.queue, m.cursor, now) = 0
<1> DEFINE m == AfterMaturing(max)
<1>1. /\ now \in Nat /\ MaxUint192 \in Nat
      /\ spLockups \in Seq(Entries(MaxUint192))
      /\ spLockupCursor \in 0 .. Len(spLockups)
      /\ WellFormed(spLockups, spLockupCursor)
  BY Types DEF Inv
<1>2. m = Matured(spLockups, spLockupCursor, now, max)
  BY DEF AfterMaturing
<1> HIDE DEF m
<1>3. /\ m.queue \in Seq(Entries(MaxUint192)) /\ m.cursor \in 0 .. Len(m.queue)
      /\ WellFormed(m.queue, m.cursor) /\ m.released \in Nat
  BY <1>1, <1>2, MaturedIsAQueue
<1>4. /\ TotalIn(m.queue, m.cursor) \in Nat
      /\ WithdrawableIn(m.queue, m.cursor, now) \in Nat
  BY <1>1, <1>3, WholeQueue, WithdrawableType
<1>5. TotalIn(spLockups, spLockupCursor) = TotalIn(m.queue, m.cursor) + m.released
  BY <1>1, <1>2, MaturingConserves
<1>6. /\ WithdrawableIn(spLockups, spLockupCursor, now)
                    = m.released + WithdrawableIn(m.queue, m.cursor, now)
      /\ max = 0 => WithdrawableIn(m.queue, m.cursor, now) = 0
  BY <1>1, <1>2, MaturingReleases
<1> QED  BY <1>3, <1>4, <1>5, <1>6 DEF m

\* What a confiscation does to them.
LEMMA ConfiscatingAccounts ==
    ASSUME Inv, ConfiscateFrozenEarnings
    PROVE  /\ spEarnings' + TotalIn(spLockups', spLockupCursor') + seized'
                    = spEarnings + TotalIn(spLockups, spLockupCursor) + seized
           /\ spEarnings + WithdrawableIn(spLockups, spLockupCursor, now)
                    <= spEarnings' + WithdrawableIn(spLockups', spLockupCursor', now)
           /\ CreditTotal(credits') = CreditTotal(credits)
           /\ paid' = paid
<1> DEFINE mature == AfterMaturing(0)
           taken  == Seized(mature.queue, mature.cursor, now)
           out    == Released(spLockups, spLockupCursor, now, 0)
           hit    == Frozen(mature.queue, mature.cursor, now)
           cs     == Settle(credits, out, "released")
<1>1. /\ spLockups' = taken.queue /\ spLockupCursor' = mature.cursor
      /\ spEarnings' = spEarnings + mature.released
      /\ seized' = seized + taken.amount /\ paid' = paid
      /\ credits' = Settle(cs, hit, "seized")
  BY Zenon DEF ConfiscateFrozenEarnings
<1>2. /\ now \in Nat /\ MaxUint192 \in Nat /\ spEarnings \in Nat /\ seized \in Nat
      /\ credits \in Seq(Credit)
  BY Types DEF Inv, TypeOK
<1>3. /\ mature.queue \in Seq(Entries(MaxUint192))
      /\ mature.cursor \in 0 .. Len(mature.queue)
      /\ WellFormed(mature.queue, mature.cursor)
  BY MaturingKeepsInv
<1>4. /\ mature.released \in Nat
      /\ TotalIn(mature.queue, mature.cursor) \in Nat
      /\ TotalIn(spLockups, spLockupCursor)
            = TotalIn(mature.queue, mature.cursor) + mature.released
      /\ WithdrawableIn(spLockups, spLockupCursor, now) = mature.released + 0
  BY MaturingAccounts
<1>5. CreditTotal(credits') = CreditTotal(credits)
  <2> HIDE DEF out, hit
  <2>1. "released" \in Fates /\ "seized" \in Fates
    BY DEF Fates
  <2>2. cs \in Seq(Credit) /\ CreditTotal(cs) = CreditTotal(credits)
    BY <1>2, <2>1, SettleHistory, SettlingKeepsTotal
  <2> HIDE DEF cs
  <2> QED  BY <1>1, <2>1, <2>2, SettlingKeepsTotal
<1> HIDE DEF mature
<1>6. /\ taken.queue \in Seq(Entries(MaxUint192)) /\ Len(taken.queue) = Len(mature.queue)
      /\ taken.amount \in Nat /\ WellFormed(taken.queue, mature.cursor)
  BY <1>2, <1>3, SeizedIsAQueue
<1>7. TotalIn(mature.queue, mature.cursor)
        = TotalIn(taken.queue, mature.cursor) + taken.amount
  BY <1>2, <1>3, SeizingConserves
<1> HIDE DEF taken
<1>8. /\ TotalIn(taken.queue, mature.cursor) \in Nat
      /\ WithdrawableIn(taken.queue, mature.cursor, now) \in Nat
  BY <1>2, <1>3, <1>6, WholeQueue, WithdrawableType
<1>9. /\ TotalIn(spLockups', spLockupCursor') = TotalIn(taken.queue, mature.cursor)
      /\ WithdrawableIn(spLockups', spLockupCursor', now)
            = WithdrawableIn(taken.queue, mature.cursor, now)
  BY <1>1
<1>10. spEarnings' + TotalIn(spLockups', spLockupCursor') + seized'
        = spEarnings + TotalIn(spLockups, spLockupCursor) + seized
  <2> DEFINE a == TotalIn(spLockups, spLockupCursor)
             b == TotalIn(mature.queue, mature.cursor)
             c == TotalIn(taken.queue, mature.cursor)
             d == TotalIn(spLockups', spLockupCursor')
             r == mature.released
             k == taken.amount
  <2>1. /\ a = b + r /\ b = c + k /\ d = c
        /\ b \in Nat /\ c \in Nat /\ r \in Nat /\ k \in Nat
        /\ spEarnings' = spEarnings + r /\ seized' = seized + k
    BY <1>1, <1>4, <1>6, <1>7, <1>8, <1>9
  <2> HIDE DEF a, b, c, d, r, k
  <2>2. spEarnings' + d + seized' = spEarnings + a + seized
    BY <1>2, <2>1
  <2> QED  BY <2>2 DEF a, d
<1>11. spEarnings + WithdrawableIn(spLockups, spLockupCursor, now)
        <= spEarnings' + WithdrawableIn(spLockups', spLockupCursor', now)
  BY <1>1, <1>2, <1>4, <1>8, <1>9
<1> QED  BY <1>1, <1>5, <1>10, <1>11

\* The other actions leave the sum of what was credited alone.
LEMMA CreditTotalType == ASSUME TypeOK PROVE CreditTotal(credits) \in Nat
<1>1. credits \in Seq(Credit)
  BY DEF TypeOK
<1>2. [amount |-> 0, at |-> 0, freeze |-> 0, entry |-> 0, fate |-> "frozen"] \in Credit
  BY DEF Credit, Fates
<1> QED  BY <1>1, <1>2, AddingAddsAmount

Accounted ==
    CreditTotal(credits) =
        spEarnings + TotalIn(spLockups, spLockupCursor) + paid + seized

\* What every step does to the accounts.
LEMMA StepAccounts ==
    ASSUME Inv, [Next]_vars
    PROVE  /\ Accounted => Accounted'
           /\ \/ Withdrawable <= Withdrawable'
              \/ Withdrawable' = 0 /\ paid' = paid + Withdrawable
<1>1. /\ now \in Nat /\ MaxUint192 \in Nat /\ spEarnings \in Nat
      /\ paid \in Nat /\ seized \in Nat
      /\ spLockups \in Seq(Entries(MaxUint192))
      /\ spLockupCursor \in 0 .. Len(spLockups)
      /\ WellFormed(spLockups, spLockupCursor)
      /\ credits \in Seq(Credit)
      /\ TypeOK
  BY Types DEF Inv, TypeOK
<1>2. /\ TotalIn(spLockups, spLockupCursor) \in Nat
      /\ WithdrawableIn(spLockups, spLockupCursor, now) \in Nat
      /\ CreditTotal(credits) \in Nat
  BY <1>1, WholeQueue, WithdrawableType, CreditTotalType
<1>3. Inv'
  BY NextInv
<1>4. /\ now' \in Nat /\ spEarnings' \in Nat
      /\ spLockups' \in Seq(Entries(MaxUint192))
      /\ spLockupCursor' \in 0 .. Len(spLockups')
      /\ WellFormed(spLockups', spLockupCursor')
      /\ paid' \in Nat /\ seized' \in Nat
  BY <1>3 DEF Inv, TypeOK, Entry, Entries, QueueShape, WellFormed
<1>5. /\ TotalIn(spLockups', spLockupCursor') \in Nat
      /\ WithdrawableIn(spLockups', spLockupCursor', now') \in Nat
      /\ WithdrawableIn(spLockups', spLockupCursor', now) \in Nat
  BY <1>1, <1>4, WholeQueue, WithdrawableType
<1> DEFINE s  == CreditTotal(credits)
           s2 == CreditTotal(credits')
           a  == TotalIn(spLockups, spLockupCursor)
           b  == TotalIn(spLockups', spLockupCursor')
<1>b. /\ s \in Nat /\ a \in Nat /\ b \in Nat
      /\ Accounted <=> s = spEarnings + a + paid + seized
      /\ Accounted' <=> s2 = spEarnings' + b + paid' + seized'
  BY <1>2, <1>5 DEF Accounted
<1>n. /\ spEarnings \in Nat /\ paid \in Nat /\ seized \in Nat
      /\ spEarnings' \in Nat /\ paid' \in Nat /\ seized' \in Nat
  BY <1>1, <1>4
<1>6. CASE Tick
  <2>1. now <= now' /\ UNCHANGED <<spEarnings, spLockups, spLockupCursor, credits, paid, seized>>
    BY <1>1, <1>4, <1>6 DEF Tick, queueVars
  <2>2. WithdrawableIn(spLockups, spLockupCursor, now)
            <= WithdrawableIn(spLockups, spLockupCursor, now')
    BY <1>1, <1>4, <2>1, WaitingReleases
  <2> QED  BY <1>1, <1>2, <1>5, <2>1, <2>2 DEF Withdrawable, Accounted
<1>7. CASE SetEarningsFreeze \/ UNCHANGED vars
  <2>1. UNCHANGED <<now, spEarnings, spLockups, spLockupCursor, credits, paid, seized>>
    BY <1>7 DEF SetEarningsFreeze, queueVars, vars
  <2> QED  BY <1>1, <1>2, <2>1 DEF Withdrawable, Accounted
<1>8. CASE CreditEarnings
  <2>1. now' = now /\ paid' = paid /\ seized' = seized
    BY <1>8 DEF CreditEarnings
  <2>2. PICK amount \in Nat :
            /\ CreditTotal(credits') = CreditTotal(credits) + amount
            /\ spEarnings' + TotalIn(spLockups', spLockupCursor')
                    = spEarnings + TotalIn(spLockups, spLockupCursor) + amount
    BY <1>8, CreditingAccounts
  <2>3. spEarnings + WithdrawableIn(spLockups, spLockupCursor, now)
            <= spEarnings' + WithdrawableIn(spLockups', spLockupCursor', now)
    BY <1>8, CreditingAccounts
  <2>4. Withdrawable <= Withdrawable'
    BY <2>1, <2>3 DEF Withdrawable
  <2>5. Accounted => Accounted'
    <3>1. s2 = s + amount /\ spEarnings' + b = spEarnings + a + amount
      BY <2>2
    <3>2. ASSUME s = spEarnings + a + paid + seized
          PROVE  s2 = spEarnings' + b + paid' + seized'
      <4> HIDE DEF s, s2, a, b
      <4>1. s2 = (spEarnings + a + amount) + paid + seized
        BY <1>b, <1>n, <3>1, <3>2
      <4> QED  BY <1>b, <1>n, <2>1, <3>1, <4>1
    <3> QED  BY <1>b, <3>2
  <2> QED  BY <2>4, <2>5
<1>9. CASE MatureEarnings
  <2>1. PICK max \in Caps :
            /\ spLockups' = AfterMaturing(max).queue
            /\ spLockupCursor' = AfterMaturing(max).cursor
            /\ spEarnings' = spEarnings + AfterMaturing(max).released
            /\ credits' = Settle(credits, Released(spLockups, spLockupCursor, now, max),
                                 "released")
    BY <1>9, Zenon DEF MatureEarnings
  <2>2. now' = now /\ paid' = paid /\ seized' = seized
    BY <1>9 DEF MatureEarnings
  <2>3. max \in Nat /\ "released" \in Fates
    BY DEF Fates
  <2>4. CreditTotal(credits') = CreditTotal(credits)
    BY <1>1, <2>1, <2>3, SettlingKeepsTotal
  <2> DEFINE m == AfterMaturing(max)
  <2>5. /\ m.released \in Nat
        /\ TotalIn(spLockups, spLockupCursor)
                = TotalIn(spLockups', spLockupCursor') + m.released
        /\ WithdrawableIn(spLockups, spLockupCursor, now)
                = m.released + WithdrawableIn(spLockups', spLockupCursor', now)
        /\ spEarnings' = spEarnings + m.released
    BY <2>1, <2>3, MaturingAccounts
  <2> HIDE DEF m
  <2>6. Withdrawable <= Withdrawable'
    BY <1>1, <1>5, <2>2, <2>5, SMTT(30) DEF Withdrawable
  <2>7. Accounted => Accounted'
    <3> DEFINE r == m.released
    <3>1. s2 = s /\ a = b + r /\ spEarnings' = spEarnings + r /\ r \in Nat
      BY <2>4, <2>5
    <3> HIDE DEF s, s2, a, b, r
    <3> QED  BY <1>b, <1>n, <2>2, <3>1
  <2> QED  BY <2>6, <2>7
<1>10. CASE WithdrawEarnings
  <2> DEFINE m == AfterMaturing(0)
  <2>1. /\ spLockups' = m.queue /\ spLockupCursor' = m.cursor
        /\ spEarnings' = 0
        /\ paid' = paid + (spEarnings + m.released)
        /\ credits' = Settle(credits, Released(spLockups, spLockupCursor, now, 0),
                             "released")
        /\ now' = now /\ seized' = seized
    BY <1>10, Zenon DEF WithdrawEarnings
  <2>2. "released" \in Fates
    BY DEF Fates
  <2>3. CreditTotal(credits') = CreditTotal(credits)
    BY <1>1, <2>1, <2>2, SettlingKeepsTotal
  <2>4. /\ m.released \in Nat
        /\ TotalIn(spLockups, spLockupCursor)
                = TotalIn(spLockups', spLockupCursor') + m.released
        /\ WithdrawableIn(spLockups, spLockupCursor, now)
                = m.released + WithdrawableIn(spLockups', spLockupCursor', now)
        /\ WithdrawableIn(spLockups', spLockupCursor', now) = 0
    BY <2>1, MaturingAccounts
  <2> HIDE DEF m
  <2>5. Withdrawable' = 0 /\ paid' = paid + Withdrawable
    BY <1>1, <2>1, <2>4 DEF Withdrawable
  <2>6. Accounted => Accounted'
    <3> DEFINE r == m.released
    <3>1. s2 = s /\ a = b + r /\ paid' = paid + (spEarnings + r) /\ r \in Nat
      BY <2>1, <2>3, <2>4
    <3> HIDE DEF s, s2, a, b, r
    <3> QED  BY <1>b, <1>n, <2>1, <3>1
  <2> QED  BY <2>5, <2>6
<1>11. CASE ConfiscateFrozenEarnings
  <2>1. now' = now
    BY <1>11 DEF ConfiscateFrozenEarnings
  <2>2. /\ spEarnings' + TotalIn(spLockups', spLockupCursor') + seized'
                    = spEarnings + TotalIn(spLockups, spLockupCursor) + seized
        /\ spEarnings + WithdrawableIn(spLockups, spLockupCursor, now)
                    <= spEarnings' + WithdrawableIn(spLockups', spLockupCursor', now)
        /\ CreditTotal(credits') = CreditTotal(credits)
        /\ paid' = paid
    BY <1>11, ConfiscatingAccounts
  <2>3. Withdrawable <= Withdrawable'
    BY <2>1, <2>2 DEF Withdrawable
  <2>4. Accounted => Accounted'
    <3>1. /\ spEarnings' + b + seized' = spEarnings + a + seized
          /\ s2 = s /\ paid' = paid
      BY <2>2
    <3>2. ASSUME s = spEarnings + a + paid + seized
          PROVE  s2 = spEarnings' + b + paid' + seized'
      <4> HIDE DEF s, s2, a, b
      <4>1. s2 = (spEarnings + a + seized) + paid
        BY <1>b, <1>n, <3>1, <3>2
      <4>2. s2 = (spEarnings' + b + seized') + paid'
        BY <3>1, <4>1
      <4> QED  BY <1>b, <1>n, <4>2
    <3> QED  BY <1>b, <3>2
  <2> QED  BY <2>3, <2>4
<1> QED  BY <1>6, <1>7, <1>8, <1>9, <1>10, <1>11 DEF Next

\* Everything credited is withdrawable, frozen, paid or seized: the walks of
\* _matureLockups and confiscateFrozenEarnings strand nothing and count
\* nothing twice.
THEOREM EarningsAreAccountedFor == Spec => []EarningsAccountedFor
<1>1. Accounted <=> EarningsAccountedFor
  BY DEF Accounted, EarningsAccountedFor, CreditTotal, CreditSum
<1>2. Init => Accounted
  <2> SUFFICES ASSUME Init PROVE Accounted
    OBVIOUS
  <2>1. credits = <<>> /\ spLockups = <<>> /\ spLockupCursor = 0
        /\ spEarnings = 0 /\ paid = 0 /\ seized = 0
    BY DEF Init
  <2>2. DOMAIN credits = {} /\ spLockupCursor + 1 .. Len(spLockups) = {}
    BY <2>1
  <2>3. CreditTotal(credits) = 0 /\ TotalIn(spLockups, spLockupCursor) = 0
    BY <2>2, TotalEmpty DEF CreditTotal, TotalIn, AmountIn
  <2> QED  BY <2>1, <2>3 DEF Accounted
<1>3. Inv /\ Accounted /\ [Next]_vars => Accounted'
  BY StepAccounts
<1> QED  BY <1>1, <1>2, <1>3, InvHolds, PTL DEF Spec

\* Once withdrawable, earnings stay so until the provider takes all of them.
THEOREM MaturedEarningsSafe == Spec => MaturedEarningsAreSafe
<1>1. ASSUME Inv, [Next]_vars, Withdrawable' < Withdrawable
      PROVE  Withdrawable' = 0 /\ paid' = paid + Withdrawable
  <2>1. Inv'
    BY <1>1, NextInv
  <2>2. Withdrawable \in Nat
    <3>1. /\ now \in Nat /\ MaxUint192 \in Nat /\ spEarnings \in Nat
          /\ spLockups \in Seq(Entries(MaxUint192))
          /\ spLockupCursor \in 0 .. Len(spLockups)
      BY <1>1, Types DEF Inv
    <3>2. WithdrawableIn(spLockups, spLockupCursor, now) \in Nat
      BY <3>1, WithdrawableType
    <3> QED  BY <3>1, <3>2 DEF Withdrawable
  <2>3. Withdrawable' \in Nat
    <3>1. /\ now' \in Nat /\ MaxUint192 \in Nat /\ spEarnings' \in Nat
          /\ spLockups' \in Seq(Entries(MaxUint192))
          /\ spLockupCursor' \in 0 .. Len(spLockups')
      BY <2>1 DEF Inv, TypeOK, Entry, Entries
    <3>2. WithdrawableIn(spLockups', spLockupCursor', now') \in Nat
      BY <3>1, WithdrawableType
    <3> QED  BY <3>1, <3>2 DEF Withdrawable
  <2>4. \/ Withdrawable <= Withdrawable'
        \/ Withdrawable' = 0 /\ paid' = paid + Withdrawable
    BY <1>1, StepAccounts
  <2> QED  BY <1>1, <2>2, <2>3, <2>4
<1>2. Inv /\ [Next]_vars =>
        [Withdrawable' < Withdrawable =>
            /\ Withdrawable' = 0
            /\ paid' = paid + Withdrawable]_vars
  BY <1>1
<1>3. []Inv /\ [][Next]_vars => MaturedEarningsAreSafe
  BY <1>2, PTL DEF MaturedEarningsAreSafe
<1> QED  BY <1>3, InvHolds, PTL DEF Spec
-----------------------------------------------------------------------------
(* What an entry holds *)

FrozenFor(cs, i) == {c \in DOMAIN cs : cs[c].fate = "frozen" /\ cs[c].entry = i}

AmountsOver(cs) == [c \in DOMAIN cs |-> cs[c].amount]

Holds(cs, q) ==
    \A i \in 1 .. Len(q) : q[i].amount = Total(AmountsOver(cs), FrozenFor(cs, i))

\* An entry that is emptied holds no credit any more, the others hold theirs.
LEMMA EmptyingHolds ==
    ASSUME NEW cs \in Seq(Credit), NEW S, NEW fate \in Fates \ {"frozen"},
           NEW q, NEW q2, Len(q2) = Len(q),
           \A i \in 1 .. Len(q) : q2[i] = IF i \in S THEN Deleted ELSE q[i],
           Holds(cs, q)
    PROVE  Holds(Settle(cs, S, fate), q2)
<1> DEFINE cs2 == Settle(cs, S, fate)
<1>1. /\ DOMAIN cs2 = DOMAIN cs
      /\ \A c \in DOMAIN cs :
            /\ cs2[c].amount = cs[c].amount /\ cs2[c].entry = cs[c].entry
            /\ cs2[c].fate = IF cs[c].entry \in S THEN fate ELSE cs[c].fate
  BY SettleHistory
<1> HIDE DEF cs2
<1>2. AmountsOver(cs2) = AmountsOver(cs)
  BY <1>1 DEF AmountsOver
<1>3. ASSUME NEW i \in 1 .. Len(q2)
      PROVE  q2[i].amount = Total(AmountsOver(cs2), FrozenFor(cs2, i))
  <2>1. CASE i \in S
    <3>1. FrozenFor(cs2, i) = {}
      BY <1>1, <2>1 DEF FrozenFor
    <3>2. q2[i].amount = 0
      BY <2>1 DEF Deleted
    <3> QED  BY <3>1, <3>2, TotalEmpty
  <2>2. CASE i \notin S
    <3>1. FrozenFor(cs2, i) = FrozenFor(cs, i)
      BY <1>1, <2>2 DEF FrozenFor
    <3>2. q2[i] = q[i]
      BY <2>2
    <3> QED  BY <1>2, <3>1, <3>2 DEF Holds
  <2> QED  BY <2>1, <2>2
<1> QED  BY <1>3 DEF Holds, cs2

\* The history after one more credit.
LEMMA OneMoreCredit ==
    ASSUME NEW cs \in Seq(Credit), NEW credit \in Credit
    PROVE  LET cs2 == Append(cs, credit)
               n   == Len(cs) + 1
           IN  /\ DOMAIN cs2 = DOMAIN cs \cup {n} /\ n \notin DOMAIN cs
               /\ cs2[n] = credit /\ \A c \in DOMAIN cs : cs2[c] = cs[c]
               /\ \A S \in SUBSET DOMAIN cs :
                    /\ Total(AmountsOver(cs2), S) = Total(AmountsOver(cs), S)
                    /\ Total(AmountsOver(cs2), S \cup {n})
                            = Total(AmountsOver(cs), S) + credit.amount
                    /\ Total(AmountsOver(cs), S) \in Nat
<1> DEFINE cs2 == Append(cs, credit)
           n   == Len(cs) + 1
           f   == AmountsOver(cs)
           g   == AmountsOver(cs2)
<1>1. /\ DOMAIN cs = 1 .. Len(cs) /\ Len(cs) \in Nat
      /\ DOMAIN cs2 = DOMAIN cs \cup {n} /\ n \notin DOMAIN cs
      /\ cs2[n] = credit /\ \A c \in DOMAIN cs : cs2[c] = cs[c]
  OBVIOUS
<1>2. \A c \in DOMAIN cs : f[c] = cs[c].amount /\ f[c] \in Nat
  BY CreditType DEF AmountsOver
<1>3. credit.amount \in Nat
  BY DEF Credit
<1> HIDE DEF cs2, n
<1>4. /\ \A c \in DOMAIN cs : g[c] = f[c]
      /\ g[n] = credit.amount
  BY <1>1, <1>2 DEF AmountsOver
<1> HIDE DEF f, g
<1>5. ASSUME NEW S \in SUBSET DOMAIN cs
      PROVE  /\ Total(g, S) = Total(f, S)
             /\ Total(g, S \cup {n}) = Total(f, S) + credit.amount
             /\ Total(f, S) \in Nat
  <2>1. IsFiniteSet(S) /\ IsFiniteSet({n})
    <3>1. IsFiniteSet(DOMAIN cs)
      BY <1>1, FS_Interval
    <3> QED  BY <3>1, FS_Subset, FS_Singleton
  <2>2. Total(g, S) = Total(f, S)
    BY <1>4, TotalSame
  <2>3. /\ S \cap {n} = {}
        /\ \A c \in S \cup {n} : g[c] \in Nat
    BY <1>1, <1>2, <1>3, <1>4
  <2>4. Total(g, S \cup {n}) = Total(g, S) + Total(g, {n})
    BY <2>1, <2>3, TotalUnion
  <2>5. Total(g, {n}) = credit.amount
    BY <1>3, <1>4, TotalSingle
  <2>6. Total(f, S) \in Nat
    BY <1>2, <2>1, TotalType
  <2> QED  BY <2>2, <2>4, <2>5, <2>6
<1> QED  BY <1>1, <1>5 DEF cs2, n, f, g

\* A credit that goes to the last entry, or to a new one, is added to what that
\* entry holds.
LEMMA CreditingHolds ==
    ASSUME NEW cs \in Seq(Credit), NEW credit \in Credit,
           NEW q, Len(q) \in Nat, NEW q2, Len(q2) \in Len(q) .. Len(q) + 1,
           \A c \in DOMAIN cs : cs[c].entry <= Len(q),
           credit.fate = "frozen", credit.entry = Len(q2),
           \A i \in 1 .. Len(q) : i # Len(q2) => q2[i] = q[i],
           q2[Len(q2)].amount
                = (IF Len(q2) = Len(q) THEN q[Len(q)].amount ELSE 0) + credit.amount,
           Holds(cs, q)
    PROVE  Holds(Append(cs, credit), q2)
<1> DEFINE cs2 == Append(cs, credit)
           n   == Len(cs) + 1
<1>1. /\ DOMAIN cs2 = DOMAIN cs \cup {n} /\ n \notin DOMAIN cs
      /\ cs2[n] = credit /\ \A c \in DOMAIN cs : cs2[c] = cs[c]
      /\ \A S \in SUBSET DOMAIN cs :
            /\ Total(AmountsOver(cs2), S) = Total(AmountsOver(cs), S)
            /\ Total(AmountsOver(cs2), S \cup {n})
                    = Total(AmountsOver(cs), S) + credit.amount
            /\ Total(AmountsOver(cs), S) \in Nat
  BY OneMoreCredit
<1> HIDE DEF cs2, n
<1>2. ASSUME NEW i \in 1 .. Len(q2)
      PROVE  q2[i].amount = Total(AmountsOver(cs2), FrozenFor(cs2, i))
  <2>1. FrozenFor(cs, i) \in SUBSET DOMAIN cs
    BY DEF FrozenFor
  <2>2. CASE i # Len(q2)
    <3>1. FrozenFor(cs2, i) = FrozenFor(cs, i)
      BY <1>1, <2>2 DEF FrozenFor
    <3>2. i \in 1 .. Len(q) /\ q2[i] = q[i]
      BY <2>2
    <3>3. q2[i].amount = Total(AmountsOver(cs), FrozenFor(cs, i))
      BY <3>2 DEF Holds
    <3> QED  BY <1>1, <2>1, <3>1, <3>3
  <2>3. CASE i = Len(q2)
    <3>1. FrozenFor(cs2, i) = FrozenFor(cs, i) \cup {n}
      BY <1>1, <2>3 DEF FrozenFor
    <3>2. Total(AmountsOver(cs), FrozenFor(cs, i))
            = IF Len(q2) = Len(q) THEN q[Len(q)].amount ELSE 0
      <4>1. CASE Len(q2) = Len(q)
        BY <2>3, <4>1 DEF Holds
      <4>2. CASE Len(q2) # Len(q)
        <5>1. \A c \in DOMAIN cs : cs[c].entry \in Nat
          BY CreditType
        <5>2. Len(q2) = Len(q) + 1
          BY <4>2
        <5>3. \A c \in DOMAIN cs : cs[c].entry # Len(q2)
          BY <5>1, <5>2
        <5>4. FrozenFor(cs, i) = {}
          BY <2>3, <5>3 DEF FrozenFor
        <5> QED  BY <4>2, <5>4, TotalEmpty
      <4> QED  BY <4>1, <4>2
    <3>3. q2[i].amount = Total(AmountsOver(cs), FrozenFor(cs, i)) + credit.amount
      BY <2>3, <3>2
    <3> QED  BY <1>1, <2>1, <3>1, <3>3
  <2> QED  BY <2>2, <2>3
<1> QED  BY <1>2 DEF Holds, cs2

\* A credit that is not frozen changes no entry.
LEMMA MaturedCreditHolds ==
    ASSUME NEW cs \in Seq(Credit), NEW credit \in Credit, NEW q,
           credit.fate # "frozen", Holds(cs, q)
    PROVE  Holds(Append(cs, credit), q)
<1> DEFINE cs2 == Append(cs, credit)
           n   == Len(cs) + 1
<1>1. /\ DOMAIN cs2 = DOMAIN cs \cup {n} /\ n \notin DOMAIN cs
      /\ cs2[n] = credit /\ \A c \in DOMAIN cs : cs2[c] = cs[c]
      /\ \A S \in SUBSET DOMAIN cs :
            /\ Total(AmountsOver(cs2), S) = Total(AmountsOver(cs), S)
            /\ Total(AmountsOver(cs2), S \cup {n})
                    = Total(AmountsOver(cs), S) + credit.amount
            /\ Total(AmountsOver(cs), S) \in Nat
  BY OneMoreCredit
<1> HIDE DEF cs2, n
<1>2. \A i : FrozenFor(cs2, i) = FrozenFor(cs, i) /\ FrozenFor(cs, i) \in SUBSET DOMAIN cs
  BY <1>1 DEF FrozenFor
<1>3. \A i : Total(AmountsOver(cs2), FrozenFor(cs2, i))
                = Total(AmountsOver(cs), FrozenFor(cs, i))
  BY <1>1, <1>2
<1> QED  BY <1>3 DEF Holds, cs2

\* Every step keeps the credits in their entries.
LEMMA StepHolds ==
    ASSUME Inv, Holds(credits, spLockups), [Next]_vars
    PROVE  Holds(credits', spLockups')
<1>t. /\ now \in Nat /\ earningsFreezeSec \in Nat /\ MaxUint192 \in Nat
      /\ spLockups \in Seq(Entries(MaxUint192)) /\ Len(spLockups) \in Nat
      /\ spLockupCursor \in 0 .. Len(spLockups)
      /\ WellFormed(spLockups, spLockupCursor)
      /\ credits \in Seq(Credit) /\ TypeOK /\ QueueShape
      /\ \A c \in DOMAIN credits : Placed(credits, spLockups, spLockupCursor, now, c)
  BY Types DEF Inv, TypeOK, History
<1>f. "released" \in Fates \ {"frozen"} /\ "seized" \in Fates \ {"frozen"} /\ 0 \in Nat
  BY DEF Fates
<1>m. ASSUME NEW max \in Nat
      PROVE  LET m   == AfterMaturing(max)
                 out == Released(spLockups, spLockupCursor, now, max)
             IN  Holds(Settle(credits, out, "released"), m.queue)
  <2> DEFINE m   == AfterMaturing(max)
             out == Released(spLockups, spLockupCursor, now, max)
  <2>1. /\ Len(m.queue) = Len(spLockups)
        /\ \A i \in 1 .. Len(spLockups) :
                m.queue[i] = IF i \in out THEN Deleted ELSE spLockups[i]
    BY <1>t, MaturedIsAQueue, MaturedEntries DEF AfterMaturing
  <2> HIDE DEF m, out
  <2>2. Holds(Settle(credits, out, "released"), m.queue)
    BY <1>f, <1>t, <2>1, EmptyingHolds
  <2> QED  BY <2>2 DEF m, out
<1>1. CASE UNCHANGED <<credits, spLockups>>
  BY <1>1
<1>2. CASE CreditEarnings
  <2>1. PICK amount \in Amounts :
            amount > 0 /\ (CreditMatured(amount) \/ CreditFrozen(amount))
    BY <1>2 DEF CreditEarnings
  <2>2. amount \in Nat \ {0}
    BY <2>1
  <2>3. CASE CreditMatured(amount)
    <3> DEFINE credit == [amount |-> amount, at |-> now, freeze |-> earningsFreezeSec,
                          entry |-> 0, fate |-> "released"]
    <3>1. spLockups' = spLockups /\ credits' = Append(credits, credit)
      BY <2>3 DEF CreditMatured, Remember, queueVars
    <3>2. credit \in Credit /\ credit.fate # "frozen"
      BY <1>t, <2>2 DEF Credit, Fates
    <3> HIDE DEF credit
    <3> QED  BY <1>t, <3>1, <3>2, MaturedCreditHolds
  <2>4. CASE CreditFrozen(amount)
    <3> DEFINE unlock == UnlockTime(now, earningsFreezeSec)
               new    == Pushed(spLockups, spLockupCursor, unlock, amount)
               n      == Len(new)
               sum    == EntryAmount(spLockups, spLockupCursor, unlock, amount)
               credit == [amount |-> amount, at |-> now, freeze |-> earningsFreezeSec,
                          entry |-> n, fate |-> "frozen"]
    <3>1. /\ spLockups' = new /\ credits' = Append(credits, credit)
          /\ sum <= MaxUint192 /\ earningsFreezeSec > 0
      BY <2>4 DEF CreditFrozen, Remember
    <3>2. unlock \in Nat \ {0}
      <4>1. unlock \in Nat /\ unlock >= now + earningsFreezeSec
        BY <1>t, UnlockTimeRoundsUp
      <4> HIDE DEF unlock
      <4> QED  BY <1>t, <3>1, <4>1
    <3> HIDE DEF unlock
    <3>3. /\ n \in spLockupCursor + 1 .. Len(spLockups) + 1 /\ Len(spLockups) <= n
          /\ \A i \in 1 .. Len(spLockups) : i # n => new[i] = spLockups[i]
          /\ new[n] = [unlockAt |-> unlock, amount |-> sum]
          /\ n = Len(spLockups) => Merges(spLockups, spLockupCursor, unlock)
      BY <1>t, <2>2, <3>1, <3>2, PushedIsAQueue
    <3>4. n # Len(spLockups) => ~Merges(spLockups, spLockupCursor, unlock)
      BY <1>t DEF Pushed, Merges
    <3> HIDE DEF new
    <3>5. /\ sum = IF Merges(spLockups, spLockupCursor, unlock)
                   THEN spLockups[Len(spLockups)].amount + amount ELSE amount
      BY DEF EntryAmount
    <3> HIDE DEF sum
    <3>6. n \in Nat /\ n \in Len(spLockups) .. Len(spLockups) + 1
      BY <1>t, <3>3
    <3>7. /\ credit \in Credit /\ credit.fate = "frozen" /\ credit.entry = n
          /\ credit.amount = amount
      BY <1>t, <2>2, <3>6 DEF Credit, Fates
    <3>8. new[n].amount
            = (IF n = Len(spLockups) THEN spLockups[Len(spLockups)].amount ELSE 0)
                + credit.amount
      <4>1. new[n].amount = sum
        BY <3>3
      <4>2. sum = (IF n = Len(spLockups) THEN spLockups[Len(spLockups)].amount ELSE 0) + amount
        <5>1. CASE n = Len(spLockups)
          BY <3>3, <3>5, <5>1
        <5>2. CASE n # Len(spLockups)
          <6>1. sum = amount
            BY <3>4, <3>5, <5>2
          <6> QED  BY <2>2, <5>2, <6>1
        <5> QED  BY <5>1, <5>2
      <4> QED  BY <3>7, <4>1, <4>2
    <3>9. \A c \in DOMAIN credits : credits[c].entry <= Len(spLockups)
      BY <1>t DEF Placed
    <3> HIDE DEF credit
    <3> QED  BY <1>t, <3>1, <3>3, <3>6, <3>7, <3>8, <3>9, CreditingHolds
  <2> QED  BY <2>1, <2>3, <2>4
<1>3. CASE MatureEarnings
  <2>1. PICK max \in Caps :
            /\ spLockups' = AfterMaturing(max).queue
            /\ credits' = Settle(credits, Released(spLockups, spLockupCursor, now, max),
                                 "released")
    BY <1>3, Zenon DEF MatureEarnings
  <2>2. max \in Nat
    OBVIOUS
  <2> QED  BY <1>m, <2>1, <2>2
<1>4. CASE WithdrawEarnings
  BY <1>4, <1>f, <1>m DEF WithdrawEarnings
<1>5. CASE ConfiscateFrozenEarnings
  <2> DEFINE mature == AfterMaturing(0)
             taken  == Seized(mature.queue, mature.cursor, now)
             hit    == Frozen(mature.queue, mature.cursor, now)
             cs     == Settle(credits, Released(spLockups, spLockupCursor, now, 0),
                              "released")
  <2>1. spLockups' = taken.queue /\ credits' = Settle(cs, hit, "seized")
    BY <1>5, Zenon DEF ConfiscateFrozenEarnings
  <2>2. Holds(cs, mature.queue)
    BY <1>f, <1>m
  <2>3. cs \in Seq(Credit)
    BY <1>f, <1>t, SettleHistory
  <2>4. /\ mature.queue \in Seq(Entries(MaxUint192))
        /\ mature.cursor \in 0 .. Len(mature.queue)
    BY <1>f, <1>t, MaturedIsAQueue DEF AfterMaturing
  <2> HIDE DEF mature, cs
  <2>5. /\ Len(taken.queue) = Len(mature.queue)
        /\ \A i \in 1 .. Len(mature.queue) :
                taken.queue[i] = IF i \in hit THEN Deleted ELSE mature.queue[i]
    BY <1>t, <2>4, SeizedIsAQueue
  <2> HIDE DEF taken, hit
  <2> QED  BY <1>f, <2>1, <2>2, <2>3, <2>5, EmptyingHolds
<1> QED  BY <1>1, <1>2, <1>3, <1>4, <1>5
         DEF Next, vars, Tick, SetEarningsFreeze, queueVars

\* Merging, releasing and confiscating never mix up amounts: an entry of
\* spLockups holds exactly the credits that are frozen in it.
THEOREM EntriesHoldCredits == Spec => []EntriesHoldTheirCredits
<1>1. Inv /\ Holds(credits, spLockups) => EntriesHoldTheirCredits
  <2> SUFFICES ASSUME Inv, Holds(credits, spLockups), NEW i \in 1 .. Len(spLockups)
               PROVE  spLockups[i].amount =
                        CreditSum({c \in WithFate("frozen") : credits[c].entry = i})
    BY DEF EntriesHoldTheirCredits
  <2> DEFINE S == FrozenFor(credits, i)
  <2>1. {c \in WithFate("frozen") : credits[c].entry = i} = S
    BY DEF WithFate, FrozenFor
  <2>2. \A c \in S : [d \in S |-> credits[d].amount][c] = AmountsOver(credits)[c]
    BY DEF FrozenFor, AmountsOver
  <2>3. CreditSum(S) = Total(AmountsOver(credits), S)
    <3> HIDE DEF S
    <3> QED  BY <2>2, TotalSame DEF CreditSum
  <2> QED  BY <2>1, <2>3 DEF Holds
<1>2. Init => Holds(credits, spLockups)
  <2> SUFFICES ASSUME Init PROVE Holds(credits, spLockups)
    OBVIOUS
  <2>1. 1 .. Len(spLockups) = {}
    BY DEF Init
  <2> QED  BY <2>1 DEF Holds
<1>3. Inv /\ Holds(credits, spLockups) /\ [Next]_vars => Holds(credits, spLockups)'
  BY StepHolds
<1> QED  BY <1>1, <1>2, <1>3, InvHolds, PTL DEF Spec
=============================================================================
