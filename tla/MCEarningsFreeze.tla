-------------------------- MODULE MCEarningsFreeze --------------------------
EXTENDS EarningsFreeze

MCTimes == {0, 1, 16, 17}
MCFreezes == {0, 1, 16}
=============================================================================
