----------------------------- MODULE DripDecision -----------------------------
(***************************************************************************)
(* How the faucet decides on a deposit: the tokens it supports, the choice *)
(* of a policy, the checks of shouldTransfer, each of which asks the       *)
(* database, one of the chains, or the price service, and the amount of    *)
(* the drip.  The world goes on between two checks, and each call may fail. *)
(*                                                                         *)
(* Faucet takes all of this as the choice between Decline and Approve.     *)
(***************************************************************************)
EXTENDS Ether, Sequences, FiniteSetsExt

CONSTANTS
  PolicyLists, \* what Faucet.DripPolicies may be
  Deposits,    \* the deposits that may come
  TokenLists,  \* what the list of bridge tokens may be
  OneToken,    \* OneToken[t]: an L1 token in its smallest unit, 10^decimals
  Prices,      \* what a token may cost in Ether
  EthUSD,      \* the price of Ether
  MaxDripUSD,  \* -maxdrip
  DripAmounts, \* what may be written behind -drip
  MaxChanges   \* bound: changes of the world while a deposit is decided

Tokens == {"ether", "stable", "other"} \* Metis is never left to decide (BridgeSync)
NoInfo == [n |-> 0, d |-> 0] \* the price service does not know the token

Policy  == [matchAll : BOOLEAN, tokens : SUBSET Tokens, start : Nat, end : Nat,
            first : BOOLEAN, noGas : BOOLEAN, minUSD : Fraction, rebate : {"default", "gas"}]
Deposit == [created : Nat, l1 : Tokens, amount : Nat,
            gas : Nat] \* what its transaction cost on L1, in wei
World   == [price  : Prices \cup {NoInfo}, \* of the token that was deposited
            metis  : Prices \cup {NoInfo}, \* of Metis
            active : BOOLEAN,   \* the receiver has a nonce above 0
            funded : BOOLEAN,   \* it has a balance
            code   : BOOLEAN]   \* it is a contract

ASSUME DecisionAssumption ==
  /\ PolicyLists \subseteq Seq(Policy) /\ Deposits \subseteq Deposit
  /\ TokenLists \subseteq SUBSET Tokens
  /\ OneToken \in [Tokens -> Nat \ {0}] /\ Prices \subseteq Fraction
  /\ EthUSD \in Fraction /\ EthUSD.n > 0 /\ MaxDripUSD \in Fraction
  /\ DripAmounts \subseteq Fraction /\ MaxChanges \in Nat

Hundredth == [n |-> 1, d |-> 100]

\* GetToken: the price of a token in USD, if it has this price in Ether.
InUSD(price) == Times(price, EthUSD)

\* Wei as Metis, and an amount of an L1 token as a number of whole tokens.
InMetis(wei, price)   == Over(ToEther(wei), price)
Readable(amount, one) == Float(amount, one)

\* The floats have exponents for all numbers that come up.
ASSUME ScopeAssumption ==
  /\ \A f \in DripAmounts \cup {Hundredth} : InScope(f.n, f.d)
  /\ \A d \in Deposits : InScope(d.gas, Unit) /\ InScope(d.amount, OneToken[d.l1])
  /\ \A price \in Prices : InScope(price.n * EthUSD.n, price.d * EthUSD.d)
  /\ \A price \in Prices : price.n > 0 =>
       LET usd == InUSD(price)
       IN  /\ InScope(MaxDripUSD.n * usd.d, MaxDripUSD.d * usd.n)
           /\ \A d \in Deposits :
                LET ether == ToEther(d.gas)
                    metis == InMetis(d.gas, price)
                IN  /\ InScope(ether.n * price.d, ether.d * price.n)
                    /\ InScope(metis.n * usd.n, metis.d * usd.d)

VARIABLES
  policies, \* Faucet.DripPolicies
  drip,     \* Faucet.DefaultDrip
  step,     \* what is to be found out next
  tokens,   \* the list of this loop
  deposit,  \* the row that is decided
  policy,   \* the policy chosen for it, as an index; 0 is nil
  rate,     \* what shouldTransfer took as the price of the token
  recset,   \* whether the receiver got a drip in this loop
  hasDrip,  \* whether it has one in the `drips` table
  world,    \* what the chains and the services would say now
  verdict,  \* "none" so far, or how it ended
  amount,   \* of the drip, in wei
  flag,     \* history: -drip
  seen      \* history: what the world was since the row was taken up

faucetVars == <<policies, drip, flag>>
loopVars   == <<tokens, recset, hasDrip>>
worldVars  == <<world, seen>>
itemVars   == <<deposit, policy, rate, verdict, amount>>
vars       == <<faucetVars, step, loopVars, worldVars, itemVars>>

Pol == policies[policy]

-----------------------------------------------------------------------------
(* The faucet, and its loop *)

\* main: a flag that is not positive stands for 0.01 Metis.
Flag == IF flag.n = 0 THEN Hundredth ELSE flag

\* Faucet.Initial: what is no whole wei stands for 0.01 Metis, too.
DefaultDrip ==
  LET wei == ToWei(Float(Flag.n, Flag.d))
  IN  IF wei < 1 THEN Unit \div 100 ELSE wei

\* Initial refuses to start without a policy that matches everything.
Initial ==
  /\ step = "start"
  /\ step' = IF \E i \in DOMAIN policies : policies[i].matchAll THEN "idle" ELSE "off"
  /\ drip' = DefaultDrip
  /\ UNCHANGED <<policies, flag, loopVars, worldVars, itemVars>>

\* GetBridgeTokens answers; if it fails, there is no loop.
BeginLoop ==
  /\ step = "idle" /\ step' = "loop" /\ tokens' \in TokenLists
  /\ UNCHANGED <<faucetVars, recset, hasDrip, worldVars, itemVars>>

\* MatchAll counts without its window.
Match(p, d) == p.matchAll \/ (p.start < d.created /\ d.created < p.end /\ d.l1 \in p.tokens)

\* Mutant: the index that the loop has at its end.
ChosenBehind(d) == Max({i \in DOMAIN policies : Match(policies[i], d)} \cup {0}) + 1

\* The loop over the policies does not stop at the first that matches.
Chosen(d) == Max({i \in DOMAIN policies : Match(policies[i], d)} \cup {0})

\* Much may have changed since the last deposit was decided, but a nonce does not
\* go back and a contract stays one.
Later(w) == {v \in World : (w.active => v.active) /\ (w.code => v.code)}

Begin(d) ==
  /\ step = "loop" /\ step' = "known"
  /\ world' \in Later(world) /\ seen' = {world'}
  /\ deposit' = d /\ policy' = Chosen(d)
  /\ verdict' = "none" /\ amount' = 0 /\ rate' = Number(1)
  /\ UNCHANGED <<faucetVars, loopVars>>

\* The variables of one pass of the loop are gone.
Forget(next) ==
  /\ step' = next /\ policy' = 0 /\ rate' = Number(1) /\ verdict' = "none" /\ amount' = 0
  /\ seen' = {} /\ UNCHANGED <<faucetVars, tokens, deposit, world>>

\* NewDrip saves the verdict, and the loop goes on.
NewDrip ==
  /\ step = "decided" /\ verdict \in {"grant", "refuse"}
  /\ hasDrip' = (hasDrip \/ verdict = "grant")
  /\ Forget("loop") /\ UNCHANGED recset

\* The loop ends, at its end or early, and the next one starts with no recset.  If
\* NewDrip failed, the drip may be saved all the same.
EndLoop ==
  /\ step \in {"loop", "decided"}
  /\ hasDrip' \in {hasDrip, hasDrip \/ verdict = "grant"}
  /\ recset' = FALSE /\ Forget("idle")

-----------------------------------------------------------------------------
(* shouldTransfer *)

\* A step on the way to the verdict, which the world does not notice.
Steps == UNCHANGED <<faucetVars, loopVars, worldVars, deposit, policy>>

End(v)   == verdict' = v /\ step' = "decided"
Go(next) == step' = next /\ UNCHANGED verdict

\* Mutant: it is not looked up who got a drip in this loop.
UnsupportedAlone == policy = 0 \/ deposit.l1 \notin tokens

Unsupported == policy = 0 \/ deposit.l1 \notin tokens \/ recset

\* Mutant: every token has 18 decimals.
BelowMinimumAsEther ==
  Less(Times(rate, Readable(deposit.amount, OneToken["ether"])), Pol.minUSD)

BelowMinimum == Less(Times(rate, Readable(deposit.amount, OneToken[deposit.l1])), Pol.minUSD)

HasMinimum == Pol.minUSD.n > 0

\* Mutant: the balance is taken the other way round.
NeedsNoGas == Pol.noGas /\ ~world.funded

HasGas == Pol.noGas /\ world.funded

\* The checks, in their order, but for the price.
Refuses == \/ step = "known"  /\ Unsupported
           \/ step = "amount" /\ HasMinimum /\ BelowMinimum
           \/ step = "first"  /\ Pol.first /\ hasDrip
           \/ step = "nonce"  /\ Pol.first /\ world.active
           \/ step = "gas"    /\ HasGas
           \/ step = "code"   /\ world.code

After == [known |-> "price", amount |-> "first", first |-> "nonce", nonce |-> "gas",
          gas |-> "code", code |-> "rebate"]

\* A check that asks nobody, or was answered: a reason to refuse, or go on.
Check == /\ step \in DOMAIN After
         /\ IF Refuses THEN End("refuse") ELSE Go(After[step])
         /\ UNCHANGED <<rate, amount>> /\ Steps

\* No price is asked for without a minimum, and for a token that is worth 1 USD.
AsksPrice == HasMinimum /\ deposit.l1 # "stable"

Unknown(price) == price = NoInfo

GetPrice ==
  /\ step = "price"
  /\ IF AsksPrice /\ Unknown(world.price)
     THEN End("refuse") /\ UNCHANGED rate
     ELSE Go("amount") /\ rate' = IF AsksPrice THEN InUSD(world.price) ELSE rate
  /\ UNCHANGED amount /\ Steps

\* The step makes a call.
Asks == \/ step = "price"  /\ AsksPrice
        \/ step = "amount" /\ HasMinimum /\ deposit.l1 # "ether"
        \/ step \in {"first", "nonce"} /\ Pol.first
        \/ step = "gas"    /\ Pol.noGas
        \/ step = "rebate" /\ Pol.rebate = "gas"
        \/ step \in {"code", "sign"}

\* The call fails or its time is over: no verdict, and the whole loop ends.
CallFails == Asks /\ End("error") /\ UNCHANGED <<rate, amount>> /\ Steps

-----------------------------------------------------------------------------
(* calMetisDrip and makeDripTx *)

DefaultRebate ==
  /\ step = "rebate" /\ Pol.rebate = "default"
  /\ Go("sign") /\ amount' = drip
  /\ UNCHANGED rate /\ Steps

\* Mutant: the limit is compared with the amount in Ether.
RebateByEther(price) ==
  IF Less(MaxDripUSD, ToEther(deposit.gas))
  THEN Over(MaxDripUSD, InUSD(price)) ELSE InMetis(deposit.gas, price)

\* What the gas of the deposit cost, in Metis, or the limit if that is less.
Rebate(price) ==
  IF Less(MaxDripUSD, Times(InMetis(deposit.gas, price), InUSD(price)))
  THEN Over(MaxDripUSD, InUSD(price)) ELSE InMetis(deposit.gas, price)

IsFree(price) == ~Unknown(price) /\ price.n = 0

\* The transaction, its receipt and the price of Metis are there.  If the price
\* is 0 the amount is infinite, and ToWei panics.
GasRebate ==
  /\ step = "rebate" /\ Pol.rebate = "gas"
  /\ \/ Unknown(world.metis) /\ End("error") /\ UNCHANGED amount
     \/ IsFree(world.metis) /\ End("panic") /\ UNCHANGED amount
     \/ world.metis.n > 0 /\ Go("sign") /\ amount' = ToWei(Rebate(world.metis))
  /\ UNCHANGED rate /\ Steps

\* makeDripTx, and the receiver is noted in recset.
Sign ==
  /\ step = "sign" /\ End("grant") /\ recset' = TRUE
  /\ UNCHANGED <<faucetVars, tokens, hasDrip, worldVars, deposit, policy, rate, amount>>

-----------------------------------------------------------------------------
(* The world *)

\* A price moves, or the service knows the token no longer, or again; the
\* receiver gets Metis, spends it, which it does with a transaction, or becomes
\* a contract, whose nonce starts at 1.
Changes(w) ==
  UNION { {[w EXCEPT !.price = p] : p \in Prices \cup {NoInfo}},
          {[w EXCEPT !.metis = p] : p \in Prices \cup {NoInfo}},
          {[w EXCEPT !.funded = TRUE]},
          IF w.funded THEN {[w EXCEPT !.active = TRUE, !.funded = f] : f \in BOOLEAN} ELSE {},
          {[w EXCEPT !.code = TRUE, !.active = TRUE]} }

Change ==
  /\ step \notin {"start", "off", "idle", "loop", "decided"}
  /\ Cardinality(seen) <= MaxChanges
  /\ world' \in Changes(world) \ {world}
  /\ seen' = seen \cup {world'}
  /\ UNCHANGED <<faucetVars, step, loopVars, itemVars>>

Init ==
  /\ policies \in PolicyLists /\ flag \in DripAmounts /\ drip = 0
  /\ step = "start" /\ policy = 0 /\ deposit \in Deposits
  /\ rate = Number(1) /\ verdict = "none" /\ amount = 0
  /\ tokens = {} /\ recset = FALSE /\ hasDrip = FALSE
  /\ world = [price |-> NoInfo, metis |-> NoInfo,
              active |-> FALSE, funded |-> FALSE, code |-> FALSE]
  /\ seen = {}

ShouldTransfer == Check \/ GetPrice
CalMetisDrip == DefaultRebate \/ GasRebate

Next == \/ Initial \/ BeginLoop \/ \E d \in Deposits : Begin(d)
        \/ ShouldTransfer \/ CalMetisDrip \/ CallFails \/ Sign
        \/ NewDrip \/ EndLoop
        \/ Change

Spec == Init /\ [][Next]_vars

-----------------------------------------------------------------------------
(* Properties *)

TypeOK ==
  /\ policies \in PolicyLists /\ deposit \in Deposits /\ tokens \subseteq Tokens
  /\ step \in {"start", "off", "idle", "loop", "known", "price", "amount", "first",
               "nonce", "gas", "code", "rebate", "sign", "decided"}
  /\ policy \in 0..Len(policies) /\ rate \in Fraction /\ drip \in Nat
  /\ recset \in BOOLEAN /\ hasDrip \in BOOLEAN
  /\ world \in World /\ seen \subseteq World
  /\ verdict \in {"none", "grant", "refuse", "error", "panic"}

\* What a policy asks of a deposit and its receiver, in one world.
Value(w) == IF deposit.l1 = "stable" THEN Number(1)
            ELSE IF w.price = NoInfo THEN Number(0) ELSE InUSD(w.price)
Holds(want, w) ==
  CASE want = "minimum" ->
         HasMinimum =>
           ~Less(Times(Value(w), Readable(deposit.amount, OneToken[deposit.l1])), Pol.minUSD)
    [] want = "first"   -> Pol.first => ~hasDrip
    [] want = "fresh"   -> Pol.first => ~w.active
    [] want = "no gas"  -> Pol.noGas => ~w.funded
    [] want = "EOA"     -> ~w.code
Wants == {"minimum", "first", "fresh", "no gas", "EOA"}

Decided(v) == step = "decided" /\ verdict = v

\* A drip is granted only if the policy asks for nothing that did not hold at
\* some time while the deposit was decided, although the checks are spread over
\* many calls (shouldTransfer).
GrantIsEarned == Decided("grant") => \A want \in Wants : \E w \in seen : Holds(want, w)

\* A deposit is refused, which is for ever, only for something that its policy
\* asks for and that was missing at some time while it was decided, or because
\* its token was not on the list when the loop began: neither for want of a
\* policy (Initial) nor because a call failed.
RefusalIsEarned ==
  Decided("refuse") /\ deposit.l1 \in tokens /\ ~recset =>
    policy # 0 /\ \E want \in Wants, w \in seen : ~Holds(want, w)

\* a is at most b, up to so many roundings, each of which is worth one part in
\* 2^Precision at most.
UpTo(a, b, parts) == a.n * b.d * 2^Precision <= b.n * a.d * (2^Precision + parts)

\* The wei are the number x, up to one wei and so many roundings.
IsAbout(wei, x, parts) ==
  wei \in Nat /\ UpTo(Number(wei - 1), x, parts) /\ UpTo(x, Number(wei + 1), parts)

\* The wei are those of the flag, or of 0.01 if that is half a wei or less.
IsAsked(wei) ==
  LET asked == IF flag.n = 0 THEN [n |-> Unit, d |-> 100]
                             ELSE [n |-> flag.n * Unit, d |-> flag.d]
      half  == [n |-> 1, d |-> 2]
  IN  \/ UpTo(half, asked, 1) /\ IsAbout(wei, asked, 1) /\ wei > 0
      \/ UpTo(asked, half, 1) /\ wei * 100 = Unit

\* A drip that does not depend on gas is what was written behind the flag, up to one
\* wei and the rounding of the float that the flag is read as; or 0.01 exactly, if
\* that is half a wei or less.  So no drip is empty, and the conversion to wei loses
\* neither a digit nor a carry (main, Faucet.Initial, calMetisDrip, ToWei).
DefaultIsRight == Decided("grant") /\ Pol.rebate = "default" => IsAsked(amount)

\* What TestFromEther says of the conversion: a flag that is a whole number of wei
\* gives just that number (ether_test.go:39-42).
DripIsAsTested ==
  Decided("grant") /\ Pol.rebate = "default" /\ flag.n > 0 /\ (flag.n * Unit) % flag.d = 0 =>
    amount * flag.d = flag.n * Unit

\* In wei: what the gas of the deposit cost, and the limit, at a price of Metis.
GasAt(price)   == [n |-> deposit.gas * price.d, d |-> price.n]
LimitAt(price) == [n |-> MaxDripUSD.n * EthUSD.d * price.d * Unit,
                   d |-> MaxDripUSD.d * EthUSD.n * price.n]

\* The other drips are what the gas of the deposit cost or the limit, whichever is
\* less, at a price that held while the deposit was decided: no step of the floats
\* and no conversion between ether and wei loses or adds more than it rounds, which
\* for four roundings is less than five parts.  A price of 0, for which there is no
\* such amount, is never taken for a drip, and nothing else makes ToWei panic
\* (GetToken, calMetisDrip, ToEther, ToWei).
RebateIsRight ==
  /\ Decided("grant") /\ Pol.rebate = "gas" =>
       \E w \in seen :
         /\ w.metis.n > 0
         /\ IF Less(GasAt(w.metis), LimitAt(w.metis))
            THEN IsAbout(amount, GasAt(w.metis), 5) ELSE IsAbout(amount, LimitAt(w.metis), 5)
  /\ Decided("panic") => \E w \in seen : IsFree(w.metis)

\* What Faucet would call the phase of this loop, and whether the policy for the
\* deposit at hand gives one drip only.
LoopPhase == CASE step \in {"start", "off"} -> "off"
               [] step = "idle"              -> "tick"
               [] Decided("grant")           -> "persist"
               [] OTHER                      -> "send"
FirstOnly == policy # 0 /\ Pol.first
Loop == INSTANCE SendLoop WITH phase <- LoopPhase, first <- FirstOnly

\* The steps of the decision amount to those that Faucet takes them for: a receiver
\* is approved once in a loop at most, and not if it has a drip and the policy gives
\* one only, although recset and the table are looked at some calls before, and at
\* different times (tryToSendDrip, shouldTransfer, NewDrip).
ApprovesOnce == Loop!Spec
=============================================================================
