---------------------------- MODULE LockupWalks ----------------------------
(***************************************************************************)
(* The loops of OpenModelSettlement.sol that walk a lockup queue, step by  *)
(* step.  The state machine is one arbitrary queue, cursor, time and cap,  *)
(* on which each loop is compared with its definition in LockupQueue, the  *)
(* one the other modules use.                                              *)
(***************************************************************************)
EXTENDS LockupQueue

CONSTANTS MaxLength, MaxTime, MaxAmount, MaxCap

ASSUME WalkBounds == {MaxLength, MaxTime, MaxAmount, MaxCap} \subseteq Nat

VARIABLES q, cur, t, max
walkVars == <<q, cur, t, max>>

\* One pass of the while loop of _matureLockups, over entry i.
MaturePass(l, i, time, cap) ==
    LET e == l.queue[i]
    IN  IF l.stopped THEN l
        ELSE IF e.amount = 0 THEN [l EXCEPT !.cursor = i]
        ELSE IF e.unlockAt > time THEN [l EXCEPT !.stopped = TRUE]
        ELSE [queue |-> [l.queue EXCEPT ![i] = Deleted], cursor |-> i,
              released |-> l.released + e.amount, steps |-> l.steps + 1,
              stopped |-> cap # 0 /\ l.steps + 1 >= cap]

\* Mutant: a capped walk leaves the cursor where an uncapped one would.
MatureWalk_SkipsRest(queue, c, time, cap) ==
    [Matured(queue, c, time, cap) EXCEPT !.cursor = CursorAfter(queue, c, time, 0)]

\* The loop from the cursor to the end of the queue.
MatureWalk(queue, c, time, cap) ==
    LET after[i \in c .. Len(queue)] ==
            IF i = c THEN [queue |-> queue, cursor |-> c, released |-> 0, steps |-> 0,
                           stopped |-> FALSE]
            ELSE MaturePass(after[i - 1], i, time, cap)
        l == after[Len(queue)]
    IN  [queue |-> l.queue, cursor |-> l.cursor, released |-> l.released]

\* The for loop of confiscateFrozenEarnings.
SeizePass(l, i, time) ==
    IF l.queue[i].amount = 0 \/ l.queue[i].unlockAt <= time THEN l
    ELSE [queue |-> [l.queue EXCEPT ![i] = Deleted], amount |-> l.amount + l.queue[i].amount]

SeizeWalk(queue, c, time) ==
    LET after[i \in c .. Len(queue)] ==
            IF i = c THEN [queue |-> queue, amount |-> 0]
            ELSE SeizePass(after[i - 1], i, time)
    IN  after[Len(queue)]

\* The loop of getWithdrawableEarnings.
WithdrawablePass(l, e, time) ==
    IF l.stopped \/ e.amount = 0 THEN l
    ELSE IF e.unlockAt > time THEN [l EXCEPT !.stopped = TRUE]
    ELSE [l EXCEPT !.amount = @ + e.amount]

\* Mutant: the view does not stop at a frozen entry.
WithdrawableWalk_Overtakes(queue, c, time) ==
    AmountIn(queue, Live(queue, c) \ Frozen(queue, c, time))

WithdrawableWalk(queue, c, time) ==
    LET after[i \in c .. Len(queue)] ==
            IF i = c THEN [amount |-> 0, stopped |-> FALSE]
            ELSE WithdrawablePass(after[i - 1], queue[i], time)
    IN  after[Len(queue)].amount

\* The loop of getFrozenEarnings.
FrozenPass(l, e, time) ==
    LET blocked == l.blocked \/ e.unlockAt > time
    IN  IF e.amount = 0 THEN l
        ELSE [amount |-> l.amount + IF blocked THEN e.amount ELSE 0, blocked |-> blocked]

FrozenWalk(queue, c, time) ==
    LET after[i \in c .. Len(queue)] ==
            IF i = c THEN [amount |-> 0, blocked |-> FALSE]
            ELSE FrozenPass(after[i - 1], queue[i], time)
    IN  after[Len(queue)].amount

\* The loop of getTotalEarnings.
TotalWalk(queue, c) ==
    LET after[i \in c .. Len(queue)] ==
            IF i = c THEN 0 ELSE after[i - 1] + queue[i].amount
    IN  after[Len(queue)]
-----------------------------------------------------------------------------
WalkEntries == {Deleted} \cup [unlockAt : 1 .. MaxTime, amount : 1 .. MaxAmount]

\* Every queue the contract can hold: emptied up to the cursor.
WalkInit ==
    /\ q \in UNION {[1 .. n -> WalkEntries] : n \in 0 .. MaxLength}
    /\ cur \in 0 .. Len(q)
    /\ \A i \in 1 .. cur : q[i] = Deleted
    /\ t \in 0 .. MaxTime
    /\ max \in 0 .. MaxCap

\* Walk on from what a maturation of max entries leaves, a second later.
WalkNext ==
    LET m == MatureWalk(q, cur, t, max)
    IN  /\ q' = m.queue /\ cur' = m.cursor
        /\ t' = IF t < MaxTime THEN t + 1 ELSE t
        /\ UNCHANGED max

WalkSpec == WalkInit /\ [][WalkNext]_walkVars

All == MatureWalk(q, cur, t, 0)

\* The loops compute what the operators of LockupQueue say.  The maturation
\* loop releases and empties exactly the entries Matured names, and leaves the
\* cursor where it says, capped or not; the confiscation loop takes exactly the
\* frozen entries, those before and behind a matured entry alike.
LoopsComputeTheQueue ==
    /\ MatureWalk(q, cur, t, max) = Matured(q, cur, t, max)
    /\ SeizeWalk(q, cur, t) = Seized(q, cur, t)

\* The views tell the truth: getWithdrawableEarnings forecasts exactly what a
\* withdrawal will release, and getFrozenEarnings the rest of the total.
ViewsForecastTheWithdrawal ==
    /\ WithdrawableWalk(q, cur, t) = All.released
    /\ FrozenWalk(q, cur, t) = TotalWalk(All.queue, All.cursor)
    /\ WithdrawableWalk(q, cur, t) + FrozenWalk(q, cur, t) = TotalWalk(q, cur)

\* The escape hatch is safe: maturing a chunk first and the rest afterwards ends
\* where one maturation of everything ends, and releases as much.
ChunksAddUp ==
    LET chunk == MatureWalk(q, cur, t, max)
        rest  == MatureWalk(chunk.queue, chunk.cursor, t, 0)
    IN  rest = [All EXCEPT !.released = @ - chunk.released]
=============================================================================
