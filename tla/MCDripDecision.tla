---------------------------- MODULE MCDripDecision ----------------------------
\* The decision, for TLC: the policy of main, a campaign for one token, and a
\* list without a policy for everything; floats of 5 bits, 100 wei to an ether.
EXTENDS DripDecision

MainPolicy == [matchAll |-> TRUE, tokens |-> {}, start |-> 0, end |-> 0,
               first |-> TRUE, noGas |-> TRUE, minUSD |-> Number(5), rebate |-> "default"]
Campaign   == [matchAll |-> FALSE, tokens |-> {"other"}, start |-> 1, end |-> 3,
               first |-> FALSE, noGas |-> TRUE, minUSD |-> Number(0), rebate |-> "gas"]
MCPolicyLists == {<<MainPolicy, Campaign>>, <<Campaign>>}
MCDeposits == {[created |-> 2, l1 |-> "ether", amount |-> 12, gas |-> 330],
               [created |-> 2, l1 |-> "stable", amount |-> 5, gas |-> 0],
               [created |-> 2, l1 |-> "other", amount |-> 1, gas |-> 65],
               [created |-> 2, l1 |-> "other", amount |-> 1, gas |-> 330],
               [created |-> 3, l1 |-> "other", amount |-> 1, gas |-> 330]}
MCTokenLists == {Tokens, Tokens \ {"other"}}
MCOneToken == [t \in Tokens |-> IF t = "ether" THEN 10 ELSE 1]
Ratio(n, d) == [n |-> n, d |-> d]
MCPrices == {Number(0), Ratio(5, 8), Ratio(21, 16)}
MCEthUSD == Ratio(13, 2)
MCMaxDripUSD == Ratio(19, 2)
MCDripAmounts == {Number(0), Ratio(1, 400), Ratio(23, 20)}

\* For the amounts of TestFromEther one price will do.
OnePrice == {Number(1)}
TestedAmounts == {Number(1), Ratio(1, 10), Ratio(1, 100), Ratio(1, 1000)}
=============================================================================
