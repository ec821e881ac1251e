---------------------------- MODULE LockupQueue ----------------------------
(***************************************************************************)
(* The queue of frozen earnings of one provider in one token.              *)
(*                                                                         *)
(* q is spLockups[sp][token], a sequence of [unlockAt, amount] that only   *)
(* grows; cur is spLockupCursor[sp][token], the number of entries already  *)
(* consumed.  A consumed or confiscated entry stays in q with both fields  *)
(* zero (Solidity's delete), as Deleted.                                   *)
(*                                                                         *)
(* The contract walks the queue in loops; here the entries a walk releases *)
(* or seizes are sets of indices.  LockupWalks has the loops themselves.   *)
(***************************************************************************)
EXTENDS Amounts, Integers, Sequences, SettlementMath

Deleted == [unlockAt |-> 0, amount |-> 0]

\* Entries at or after the cursor that hold an amount.
Live(q, cur) == {i \in cur + 1 .. Len(q) : q[i].amount > 0}

\* Live entries whose unlock time has not come at time t.
Frozen(q, cur, t) == {i \in Live(q, cur) : q[i].unlockAt > t}

\* Release is FIFO: a live entry may be released when no entry up to it is
\* still frozen.
Releasable(q, cur, t) ==
    {i \in Live(q, cur) : \A j \in Frozen(q, cur, t) : i < j}

\* The entries _matureLockups releases; max = 0 means all that it may.
Released(q, cur, t, max) ==
    {i \in Releasable(q, cur, t) :
        max # 0 => Cardinality({j \in Releasable(q, cur, t) : j <= i}) <= max}

\* Every entry up to position p has been released, or holds nothing.
Passed(q, cur, t, max, p) ==
    /\ \A i \in Released(q, cur, t, max) : i <= p
    /\ \A i \in Live(q, cur) : i <= p => i \in Released(q, cur, t, max)

\* Mutant: a capped walk runs on over emptied entries and stops in front of
\* the next one it may not release.
CursorAfter_RunsOn(q, cur, t, max) ==
    LET hits == {p \in cur .. Len(q) : Passed(q, cur, t, max, p)}
    IN  CHOOSE p \in hits : \A r \in hits : r <= p

\* Where _matureLockups leaves the cursor.  A walk that reaches its cap stops
\* right behind the last entry it released; any other walk runs over emptied
\* entries to the first entry still frozen, or to the end.
CursorAfter(q, cur, t, max) ==
    LET out  == Released(q, cur, t, max)
        hits == {p \in cur .. Len(q) : Passed(q, cur, t, max, p)}
    IN  IF max # 0 /\ Cardinality(out) = max
        THEN CHOOSE p \in hits : \A r \in hits : p <= r
        ELSE CHOOSE p \in hits : \A r \in hits : r <= p

AmountIn(q, S) == Total([i \in S |-> q[i].amount], S)

\* Mutant: zeroes the amount of an entry and keeps its unlock time.
Emptied_AmountOnly(q, S) ==
    [i \in DOMAIN q |-> IF i \in S THEN [q[i] EXCEPT !.amount = 0] ELSE q[i]]

Emptied(q, S) == [i \in DOMAIN q |-> IF i \in S THEN Deleted ELSE q[i]]

\* Queue and cursor after _matureLockups, with the amount it released.
Matured(q, cur, t, max) ==
    LET out == Released(q, cur, t, max)
    IN  [queue |-> Emptied(q, out),
         cursor |-> CursorAfter(q, cur, t, max),
         released |-> AmountIn(q, out)]

\* Mutants: the seized entries stay; matured ones behind a frozen one go too.
Seized_Keeps(q, cur, t) ==
    [queue |-> q, amount |-> AmountIn(q, Frozen(q, cur, t))]
Seized_TakesMatured(q, cur, t) ==
    [queue |-> Emptied(q, Live(q, cur)), amount |-> AmountIn(q, Live(q, cur))]

\* Queue after the loop of confiscateFrozenEarnings, with the amount seized:
\* every frozen entry goes, a matured one queued behind a frozen one stays.
Seized(q, cur, t) ==
    LET out == Frozen(q, cur, t)
    IN  [queue |-> Emptied(q, out), amount |-> AmountIn(q, out)]

\* The last entry takes a credit that unlocks at the same time, unless the
\* cursor is already behind it.
Merges(q, cur, unlock) == Len(q) > cur /\ q[Len(q)].unlockAt = unlock

\* Mutants: a merge replaces the amount; any credit merges into the last entry
\* and starts its freeze anew.
Pushed_Replaces(q, cur, unlock, amount) ==
    IF Merges(q, cur, unlock) THEN [q EXCEPT ![Len(q)].amount = amount]
    ELSE Append(q, [unlockAt |-> unlock, amount |-> amount])
Pushed_Restarts(q, cur, unlock, amount) ==
    IF Len(q) > cur
    THEN [q EXCEPT ![Len(q)] = [unlockAt |-> unlock, amount |-> @.amount + amount]]
    ELSE Append(q, [unlockAt |-> unlock, amount |-> amount])

\* The queue after a credit of amount.
Pushed(q, cur, unlock, amount) ==
    IF Merges(q, cur, unlock)
    THEN [q EXCEPT ![Len(q)].amount = @ + amount]
    ELSE Append(q, [unlockAt |-> unlock, amount |-> amount])

\* Mutant: only the new amount is checked, not the sum of a merge.
EntryAmount_NewOnly(q, cur, unlock, amount) == amount

\* The amount that the entry written by Pushed holds: it must fit a uint192.
EntryAmount(q, cur, unlock, amount) ==
    IF Merges(q, cur, unlock) THEN q[Len(q)].amount + amount ELSE amount

\* The three views, without the matured bucket spEarnings the code adds to the
\* first and the last.
WithdrawableIn(q, cur, t) == AmountIn(q, Releasable(q, cur, t))

FrozenIn(q, cur, t) == AmountIn(q, Live(q, cur) \ Releasable(q, cur, t))

TotalIn(q, cur) == AmountIn(q, cur + 1 .. Len(q))
=============================================================================
