-------------------------- MODULE MCRebateService --------------------------
\* The whole process, for TLC: an ERC20 and an ETH deposit, or a single one.
EXTENDS RebateService, TLC

CONSTANTS t1, m1, c1, r1, r2
MCERC20     == {t1, m1}
MCMetis     == {m1}
MCETH       == {c1}
MCNone      == {}
MCReceivers == {r1, r2}
MCContracts == {r1}
MCTo        == (t1 :> r1) @@ (m1 :> r2) @@ (c1 :> r1)
MCLiveTo    == c1 :> r1
=============================================================================
