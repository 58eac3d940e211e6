----------------------------- MODULE MCPriceCache -----------------------------
\* The price cache, for TLC: Ether and two tokens.
EXTENDS PriceCache
=============================================================================
