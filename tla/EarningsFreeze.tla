--------------------------- MODULE EarningsFreeze ---------------------------
(***************************************************************************)
(* The earnings freeze of OpenModelSettlement.sol, for one provider and    *)
(* one token: settlement credits earnings into a queue of lockups, time    *)
(* matures them, the provider withdraws, the arbiter confiscates.          *)
(*                                                                         *)
(* credits, paid and seized are history: the contract does not keep them.  *)
(* They remember every credit, when and under which freeze it was made,    *)
(* and what became of it.                                                  *)
(***************************************************************************)
EXTENDS LockupQueue

CONSTANTS
    Times,          \* the block timestamps
    Freezes,        \* the windows the owner sets, within MAX_EARNINGS_FREEZE
    Amounts,        \* the provider's share of a settled item
    Caps,           \* the maxEntries a caller of matureEarnings passes
    MaxUint192,     \* the largest amount one queue entry holds
    MaxCredits      \* bound: how many credits a behaviour makes

MAX_EARNINGS_FREEZE == 90 * 24 * 60 * 60

ASSUME TimesAssumption == Times \subseteq Nat /\ Times # {}
ASSUME FreezesAssumption == Freezes \subseteq Nat /\ 0 \in Freezes
ASSUME AmountsAssumption == Amounts \subseteq Nat
ASSUME CapsAssumption == Caps \subseteq Nat
ASSUME MaxUint192Assumption == MaxUint192 \in Nat
ASSUME MaxCreditsAssumption == MaxCredits \in Nat

VARIABLES
    now,                \* block.timestamp
    earningsFreezeSec,
    spEarnings,         \* spEarnings[sp][token], the matured bucket
    spLockups,          \* spLockups[sp][token]
    spLockupCursor,     \* spLockupCursor[sp][token]
    credits,            \* history: the credits in the order they were made
    paid,               \* history: what withdrawals have paid out
    seized              \* history: what confiscations have taken

queueVars == <<spLockups, spLockupCursor>>
vars == <<now, earningsFreezeSec, spEarnings, spLockups, spLockupCursor,
          credits, paid, seized>>

Fates == {"frozen", "released", "seized"}

\* entry is the position in the queue the credit went to; 0 for a credit made
\* straight to spEarnings.
Credit == [amount : Nat, at : Nat, freeze : Nat, entry : Nat, fate : Fates]

\* The history after the entries of S have met this fate.
Settle(cs, S, fate) ==
    [c \in DOMAIN cs |->
        IF cs[c].entry \in S THEN [cs[c] EXCEPT !.fate = fate] ELSE cs[c]]
-----------------------------------------------------------------------------
Init ==
    /\ now \in Times
    /\ \A t \in Times : now <= t
    /\ earningsFreezeSec = 0
    /\ spEarnings = 0
    /\ spLockups = <<>>
    /\ spLockupCursor = 0
    /\ credits = <<>>
    /\ paid = 0
    /\ seized = 0

\* The next block.
Tick ==
    /\ \E t \in Times : t > now /\ now' = t
    /\ UNCHANGED <<earningsFreezeSec, spEarnings, queueVars, credits, paid, seized>>

SetEarningsFreeze ==
    /\ \E f \in Freezes :
        /\ f <= MAX_EARNINGS_FREEZE
        /\ earningsFreezeSec' = f
    /\ UNCHANGED <<now, spEarnings, queueVars, credits, paid, seized>>

Remember(amount, entry, fate) ==
    credits' = Append(credits, [amount |-> amount, at |-> now,
                                freeze |-> earningsFreezeSec,
                                entry |-> entry, fate |-> fate])

CreditMatured(amount) ==
    /\ earningsFreezeSec = 0
    /\ spEarnings' = spEarnings + amount
    /\ UNCHANGED queueVars
    /\ Remember(amount, 0, "released")

CreditFrozen(amount) ==
    LET unlock == UnlockTime(now, earningsFreezeSec)
    IN  /\ earningsFreezeSec > 0
        /\ EntryAmount(spLockups, spLockupCursor, unlock, amount) <= MaxUint192
        /\ spLockups' = Pushed(spLockups, spLockupCursor, unlock, amount)
        /\ UNCHANGED <<spEarnings, spLockupCursor>>
        /\ Remember(amount, Len(spLockups'), "frozen")

\* _creditEarnings; an amount of 0 changes nothing.
CreditEarnings ==
    /\ Len(credits) < MaxCredits
    /\ \E amount \in Amounts :
        /\ amount > 0
        /\ CreditMatured(amount) \/ CreditFrozen(amount)
    /\ UNCHANGED <<now, earningsFreezeSec, paid, seized>>

\* What _matureLockups makes of the queue now.
AfterMaturing(max) == Matured(spLockups, spLockupCursor, now, max)

\* Mutant: releases every matured entry, also one behind a frozen one.
MatureEarnings_Overtakes ==
    LET out == Live(spLockups, spLockupCursor) \ Frozen(spLockups, spLockupCursor, now)
    IN  /\ spLockups' = Emptied(spLockups, out)
        /\ spEarnings' = spEarnings + AmountIn(spLockups, out)
        /\ credits' = Settle(credits, out, "released")
        /\ UNCHANGED <<now, earningsFreezeSec, spLockupCursor, paid, seized>>

MatureEarnings ==
    /\ \E max \in Caps :
        /\ spLockups' = AfterMaturing(max).queue
        /\ spLockupCursor' = AfterMaturing(max).cursor
        /\ spEarnings' = spEarnings + AfterMaturing(max).released
        /\ credits' = Settle(credits, Released(spLockups, spLockupCursor, now, max),
                             "released")
    /\ UNCHANGED <<now, earningsFreezeSec, paid, seized>>

WithdrawEarnings ==
    LET amount == spEarnings + AfterMaturing(0).released
    IN  /\ amount > 0
        /\ spLockups' = AfterMaturing(0).queue
        /\ spLockupCursor' = AfterMaturing(0).cursor
        /\ spEarnings' = 0
        /\ paid' = paid + amount
        /\ credits' = Settle(credits, Released(spLockups, spLockupCursor, now, 0),
                             "released")
        /\ UNCHANGED <<now, earningsFreezeSec, seized>>

\* Mutant: takes all that is in the queue, matured or not.
ConfiscateFrozenEarnings_TakesMatured ==
    LET mature == AfterMaturing(0)
        out    == Live(mature.queue, mature.cursor)
    IN  /\ out # {}
        /\ spLockups' = Emptied(mature.queue, out)
        /\ spLockupCursor' = mature.cursor
        /\ spEarnings' = spEarnings + mature.released
        /\ seized' = seized + AmountIn(mature.queue, out)
        /\ credits' = Settle(Settle(credits,
                                    Released(spLockups, spLockupCursor, now, 0),
                                    "released"), out, "seized")
        /\ UNCHANGED <<now, earningsFreezeSec, paid>>

ConfiscateFrozenEarnings ==
    LET mature == AfterMaturing(0)
        taken  == Seized(mature.queue, mature.cursor, now)
    IN  /\ taken.amount > 0
        /\ spLockups' = taken.queue
        /\ spLockupCursor' = mature.cursor
        /\ spEarnings' = spEarnings + mature.released
        /\ seized' = seized + taken.amount
        /\ credits' = Settle(Settle(credits,
                                    Released(spLockups, spLockupCursor, now, 0),
                                    "released"),
                             Frozen(mature.queue, mature.cursor, now), "seized")
        /\ UNCHANGED <<now, earningsFreezeSec, paid>>

Next ==
    \/ Tick
    \/ SetEarningsFreeze
    \/ CreditEarnings
    \/ MatureEarnings
    \/ WithdrawEarnings
    \/ ConfiscateFrozenEarnings

Spec == Init /\ [][Next]_vars

\* Blocks keep coming; nobody is obliged to do anything else.
FairSpec == Spec /\ WF_vars(Tick)
-----------------------------------------------------------------------------
Entry == [unlockAt : Nat, amount : 0 .. MaxUint192]

TypeOK ==
    /\ now \in Times
    /\ earningsFreezeSec \in Freezes
    /\ spEarnings \in Nat
    /\ spLockups \in Seq(Entry)
    /\ spLockupCursor \in 0 .. Len(spLockups)
    /\ credits \in Seq(Credit)
    /\ paid \in Nat
    /\ seized \in Nat

\* Behind the cursor there is nothing left; an entry without an amount is a
\* deleted one, so a later credit cannot merge into it.
QueueShape ==
    \A i \in 1 .. Len(spLockups) :
        /\ i <= spLockupCursor => spLockups[i] = Deleted
        /\ spLockups[i].amount = 0 => spLockups[i] = Deleted

WithFate(fate) == {c \in DOMAIN credits : credits[c].fate = fate}

CreditSum(S) == Total([c \in S |-> credits[c].amount], S)

\* The freeze is a floor: whatever the owner did to the window meanwhile, and
\* however credits were merged and confiscated around it, no credit has become
\* withdrawable before the window it was credited under has passed.
NothingUnlocksEarly ==
    \A c \in WithFate("released") : credits[c].at + credits[c].freeze <= now

\* Merging and deleting never mix up amounts: every queue entry holds exactly
\* the credits that went to it and are neither released nor seized.
EntriesHoldTheirCredits ==
    \A i \in 1 .. Len(spLockups) :
        spLockups[i].amount =
            CreditSum({c \in WithFate("frozen") : credits[c].entry = i})

\* What was credited is in the matured bucket, in the queue, paid or seized:
\* nothing is stranded behind the cursor and nothing is paid twice.
EarningsAccountedFor ==
    CreditSum(DOMAIN credits) =
        spEarnings + TotalIn(spLockups, spLockupCursor) + paid + seized

\* Among credits made under a freeze, a later one is never released before an
\* earlier one, even if the window was shortened in between.  (A credit made
\* while the window is 0 never enters the queue, so it may overtake.)
FrozenCreditsReleaseInOrder ==
    \A c, d \in DOMAIN credits :
        /\ c < d
        /\ credits[d].fate = "released"
        /\ credits[d].freeze > 0
        => credits[c].fate # "frozen"

\* The freeze window is the dispute window.  A confiscation reaches every
\* credit whose window is open, and none whose unlock time has come: what it
\* takes is less than a bucket past its own window.
ConfiscationIsExact ==
    [][\A c \in DOMAIN credits :
        seized' # seized /\ credits[c].fate = "frozen" =>
            LET end == credits[c].at + credits[c].freeze
            IN  /\ now < end => credits'[c].fate = "seized"
                /\ now >= end + BucketWidth(credits[c].freeze)
                    => credits'[c].fate # "seized"]_vars

Withdrawable == spEarnings + WithdrawableIn(spLockups, spLockupCursor, now)

\* Once withdrawable, earnings stay withdrawable until the provider takes them:
\* no confiscation, credit, capped maturation or change of the window lowers
\* the figure, and a withdrawal takes all of it.
MaturedEarningsAreSafe ==
    [][Withdrawable' < Withdrawable =>
        /\ Withdrawable' = 0
        /\ paid' = paid + Withdrawable]_vars

\* The bound on time ends every behaviour; a credit can be waited for only when
\* it and all before it in the queue unlock within the bound.
UnlocksInTime(c) ==
    \E t \in Times : \A i \in 1 .. credits[c].entry : spLockups[i].unlockAt <= t

Waiting == {c \in WithFate("frozen") :
                credits[c].entry \notin Releasable(spLockups, spLockupCursor, now)}

\* No freeze is forever: a frozen credit becomes releasable as time passes (or
\* is seized), whatever is credited after it and whatever becomes of the window.
FreezeEnds ==
    \A c \in 1 .. MaxCredits :
        (c \in Waiting /\ UnlocksInTime(c)) ~> (c \in DOMAIN credits \ Waiting)
=============================================================================
