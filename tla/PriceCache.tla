------------------------------ MODULE PriceCache ------------------------------
(***************************************************************************)
(* Uniswap.GetToken: prices of tokens from a GraphQL service, with a cache. *)
(* A price is the time at which the service read it off the exchange, which *)
(* is what the properties tell apart.  Only the faucet's goroutine asks,   *)
(* one token at a time.                                                    *)
(*                                                                         *)
(* The service keeps one figure per hour of trade in Ether, made with the  *)
(* first trade of the hour; the query asks for the first figure of an hour *)
(* that began less than one hour ago.  It may as well reply with a document *)
(* of errors, which has no data, or not at all.                            *)
(***************************************************************************)
EXTENDS Integers

CONSTANTS
  Tokens,      \* addresses as the service knows them, in lower case
  Ether, WETH, \* the address that stands for Ether, and the token traded for it
  Duration,    \* -uniswap-timeout: how long the cache may answer
  CallTimeout, \* GetToken's 5 seconds
  Hour,
  MaxTime      \* bound: of the clock

ASSUME PriceAssumption ==
  /\ WETH \in Tokens /\ Ether \notin Tokens
  /\ Duration \in Nat /\ CallTimeout \in Nat \ {0}
  /\ Hour \in Nat \ {0} /\ MaxTime \in Nat

NoReply == -1 \* the service has not looked yet
Missing == -2 \* it has, and one of the two lists is empty
Errors  == -3 \* a document with errors

VARIABLES
  now,
  cache,  \* Uniswap.cache: the time a price was read and the time it was stored
  call,   \* the query under way: its key, when it began, and the reply
  answer, \* what GetToken returned last
  listed, \* the exchange: the tokens it knows
  traded, \* the exchange: the last time Ether was traded
  there   \* history: there was a price when the query began

exchange == <<listed, traded>>
vars     == <<now, cache, call, answer, exchange, there>>

NoCall   == [key |-> "none", since |-> 0, reply |-> NoReply]
NoEntry  == [price |-> NoReply, at |-> 0]
NoAnswer == [price |-> NoReply, kind |-> "none"]
Calling  == call # NoCall

-----------------------------------------------------------------------------
(* The exchange and the service *)

\* A figure of the hour that began less than one hour before t.
HasFigure(t) == traded >= (t \div Hour) * Hour

Trade ==
  /\ traded # now /\ traded' = now
  /\ UNCHANGED <<now, cache, call, answer, listed, there>>

\* A token is traded for the first time.
List(t) ==
  /\ t \notin listed /\ listed' = listed \cup {t}
  /\ UNCHANGED <<now, cache, call, answer, traded, there>>

\* The service reads its tables, at some moment between query and answer.
Read ==
  /\ Calling /\ call.reply = NoReply
  /\ \/ call' = [call EXCEPT !.reply =
                   IF call.key \in listed /\ HasFigure(call.since) THEN now ELSE Missing]
     \/ call' = [call EXCEPT !.reply = Errors]
  /\ UNCHANGED <<now, cache, answer, exchange, there>>

-----------------------------------------------------------------------------
(* GetToken *)

\* Lower case, and WETH for Ether.
Key(t) == IF t = Ether THEN WETH ELSE t

Fresh(k) == cache[k] # NoEntry /\ now - cache[k].at < Duration

\* Mutant: a price that is used is kept for longer.
HitSliding(t) ==
  /\ ~Calling /\ Fresh(Key(t))
  /\ answer' = [price |-> cache[Key(t)].price, kind |-> "price"]
  /\ cache' = [cache EXCEPT ![Key(t)].at = now]
  /\ UNCHANGED <<now, call, exchange, there>>

\* The cache answers.
Hit(t) ==
  /\ ~Calling /\ Fresh(Key(t))
  /\ answer' = [price |-> cache[Key(t)].price, kind |-> "price"]
  /\ UNCHANGED <<now, cache, call, exchange, there>>

Query(t) ==
  /\ ~Calling /\ ~Fresh(Key(t))
  /\ call' = [key |-> Key(t), since |-> now, reply |-> NoReply]
  /\ there' = ((t = Ether \/ t \in listed) /\ HasFigure(now))
  /\ answer' = NoAnswer
  /\ UNCHANGED <<now, cache, exchange>>

Returns(price, kind) ==
  /\ Calling
  /\ answer' = [price |-> price, kind |-> kind] /\ call' = NoCall
  /\ UNCHANGED <<now, exchange, there>>

\* Mutant: a list that is empty is not looked for.
AnyPrice == call.reply # NoReply

HasPrice == call.reply >= 0

\* The answer arrives, and its age starts to count.
Receive ==
  /\ HasPrice /\ Returns(call.reply, "price")
  /\ cache' = [cache EXCEPT ![call.key] = [price |-> call.reply, at |-> now]]

\* Mutant: CallContext decodes the data, which is null, and not the errors.
NoDataAtAll == call.reply \in {Missing, Errors}

NoData == call.reply = Missing

\* No figure for the hour, or no such token; the cache is left as it is.
NoTokenInfo == NoData /\ Returns(NoReply, "no info") /\ UNCHANGED cache

\* CallContext returns an error: there are errors in the document, there is no
\* document, or the time is over.
QueryFails == Returns(NoReply, "error") /\ UNCHANGED cache

\* Time passes, but not beyond the limit of a call.
Tick ==
  /\ now < MaxTime /\ (Calling => now < call.since + CallTimeout)
  /\ now' = now + 1 /\ answer' = NoAnswer
  /\ UNCHANGED <<cache, call, exchange, there>>

\* The process is started anew, with an empty cache.
Restart ==
  /\ cache' = [k \in Tokens |-> NoEntry] /\ call' = NoCall /\ answer' = NoAnswer
  /\ UNCHANGED <<now, exchange, there>>

Init ==
  /\ now = 0 /\ listed = {WETH} /\ traded = 0 /\ there = FALSE
  /\ cache = [k \in Tokens |-> NoEntry] /\ call = NoCall /\ answer = NoAnswer

GetToken == \/ \E t \in Tokens \cup {Ether} : Hit(t) \/ Query(t)
            \/ Receive \/ NoTokenInfo \/ QueryFails

Next == GetToken \/ Restart \/ Read \/ Trade \/ Tick \/ \E t \in Tokens : List(t)

Spec == Init /\ [][Next]_vars

-----------------------------------------------------------------------------
(* Properties *)

TypeOK ==
  /\ now \in 0..MaxTime /\ traded \in 0..MaxTime /\ there \in BOOLEAN
  /\ cache \in [Tokens -> [price : 0..MaxTime, at : 0..MaxTime] \cup {NoEntry}]
  /\ call \in [key : Tokens, since : 0..MaxTime,
               reply : 0..MaxTime \cup {NoReply, Missing, Errors}] \cup {NoCall}
  /\ listed \subseteq Tokens
  /\ answer \in [price : 0..MaxTime, kind : {"price"}]
                \cup [price : {NoReply}, kind : {"none", "no info", "error"}]

\* A price that GetToken returns was read off the exchange at most the duration
\* of the cache and one call ago (no more than the call, if it was not cached),
\* however often it was used in between.
PriceIsFresh ==
  answer.kind = "price" => \/ now - answer.price <= CallTimeout
                           \/ now - answer.price < Duration + CallTimeout

\* "No token info", for which a deposit is ignored for ever, is said only if
\* there was no price when the query began: the token was not known, or Ether
\* had not been traded since the hour began.  Ether itself is never unknown, and
\* an error of the service or on the way to it is not taken for an empty answer.
NoInfoIsTrue == answer.kind = "no info" => ~there
=============================================================================
