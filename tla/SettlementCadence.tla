------------------------- MODULE SettlementCadence -------------------------
(***************************************************************************)
(* How long the queue of frozen entries grows under one freeze window, at  *)
(* any cadence of settlements.  Only the unlock times matter: with a fixed *)
(* window they never decrease, so _creditEarnings merges a credit exactly  *)
(* when its unlock time is already there, and maturing drops those passed. *)
(***************************************************************************)
EXTENDS SettlementMath, FiniteSets

CONSTANTS
    Windows,    \* values of earningsFreezeSec, all positive
    LastTime    \* bound on block.timestamp

ASSUME CadenceAssumption == Windows \subseteq Nat \ {0} /\ LastTime \in Nat

VARIABLES
    now,        \* block.timestamp
    freeze,     \* earningsFreezeSec, set once
    unlocks     \* the unlock times of the entries still frozen

vars == <<now, freeze, unlocks>>

Init == now = 0 /\ freeze \in Windows /\ unlocks = {}

Tick ==
    /\ now < LastTime
    /\ now' = now + 1
    /\ unlocks' = {u \in unlocks : u > now'}
    /\ UNCHANGED freeze

CreditEarnings ==
    /\ unlocks' = unlocks \cup {UnlockTime(now, freeze)}
    /\ UNCHANGED <<now, freeze>>

Next == Tick \/ CreditEarnings

Spec == Init /\ [][Next]_vars

\* "The unmatured span is at most FREEZE_BUCKETS+1 entries regardless of
\* cadence": what bounds the gas of withdrawing and confiscating.  It holds when
\* the window divides into buckets without a rest, and for windows too short
\* for buckets; rounding the width down may else add as many entries as the
\* rest has seconds.
SpanBounded ==
    Cardinality(unlocks) <=
        FREEZE_BUCKETS + 1
            + IF freeze < FREEZE_BUCKETS THEN 0 ELSE freeze % FREEZE_BUCKETS
=============================================================================
