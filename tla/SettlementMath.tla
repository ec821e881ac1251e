--------------------------- MODULE SettlementMath ---------------------------
(***************************************************************************)
(* The arithmetic of OpenModelSettlement.sol: how an amount is split       *)
(* between platform and provider, and when a frozen credit unlocks.        *)
(* Solidity's / is the integer division of natural numbers.                *)
(***************************************************************************)
EXTENDS Naturals

MAX_FEE_BPS == 3000
BPS_DENOMINATOR == 10000
FREEZE_BUCKETS == 8

\* Mutant: rounds the fee up.
Fee_RoundsUp(amount, bps) == (amount * bps + BPS_DENOMINATOR - 1) \div BPS_DENOMINATOR

Fee(amount, bps) == (amount * bps) \div BPS_DENOMINATOR

\* Mutant: rounds the provider's share on its own.
ProviderShare_Rounds(amount, bps) ==
    (amount * (BPS_DENOMINATOR - bps)) \div BPS_DENOMINATOR

ProviderShare(amount, bps) == amount - Fee(amount, bps)

\* Mutant: no buckets.
BucketWidth_One(freeze) == 1

\* Credits made within one bucket of this many seconds share an unlock time.
BucketWidth(freeze) ==
    IF freeze \div FREEZE_BUCKETS = 0 THEN 1 ELSE freeze \div FREEZE_BUCKETS

\* Mutant: rounds down.
UnlockTime_Down(now, freeze) ==
    ((now + freeze) \div BucketWidth(freeze)) * BucketWidth(freeze)

\* now + freeze, rounded up to a multiple of the bucket width.
UnlockTime(now, freeze) ==
    LET width == BucketWidth(freeze)
    IN  ((now + freeze + width - 1) \div width) * width
=============================================================================
