------------------------------ MODULE MCFaucet ------------------------------
\* The faucet alone, for TLC: two deposits of one receiver and one of another.
EXTENDS Faucet, TLC

CONSTANTS e1, e2, e3, r1, r2
MCEvent     == {e1, e2, e3}
MCReceivers == {r1, r2}
MCTo        == (e1 :> r1) @@ (e2 :> r1) @@ (e3 :> r2)
MCHeights   == {0}
MCNone      == {}
MCStuck     == {e2}
MCContracts == {r1}
=============================================================================
