---------------------------- MODULE MCBridgeSync ----------------------------
\* The syncer alone, for TLC: a deposit of Metis, which is an ERC20 token on L1,
\* and one of Ether.
EXTENDS BridgeSync, TLC

CONSTANTS m1, c1
MCMetis == {m1}
MCETH   == {c1}
=============================================================================
