--------------------------- MODULE PriceCacheProofs ---------------------------
(***************************************************************************)
(* How old a price can be, and when it is denied, for any tokens and any   *)
(* duration of cache, call and hour.                                       *)
(***************************************************************************)
EXTENDS PriceCache, TLAPS

-----------------------------------------------------------------------------
(* The inductive invariant *)

\* What is in the cache was read during a call, at the end of which it was stored.
CacheInv ==
  \A k \in Tokens : cache[k] # NoEntry =>
    cache[k].at <= now /\ cache[k].at - cache[k].price <= CallTimeout

\* A call is not over its time, and its reply was read meanwhile.
CallInv ==
  Calling => /\ call.since <= now /\ now <= call.since + CallTimeout
             /\ call.reply >= 0 => call.since <= call.reply

\* A price that is there when a query begins does not go away.
ThereInv ==
  /\ WETH \in listed /\ traded <= now
  /\ Calling /\ there => /\ call.key \in listed /\ HasFigure(call.since)
                         /\ call.reply # Missing

PriceInv == TypeOK /\ CacheInv /\ CallInv /\ ThereInv /\ PriceIsFresh /\ NoInfoIsTrue

Times   == 0..MaxTime
Entries == [price : Times, at : Times] \cup {NoEntry}
Calls   == [key : Tokens, since : Times, reply : Times \cup {NoReply, Missing, Errors}] \cup {NoCall}
Answers == [price : Times, kind : {"price"}]
           \cup [price : {NoReply}, kind : {"none", "no info", "error"}]

LEMMA TypeParts ==
  TypeOK <=> /\ now \in Times /\ traded \in Times /\ there \in BOOLEAN
             /\ cache \in [Tokens -> Entries] /\ call \in Calls
             /\ listed \subseteq Tokens /\ answer \in Answers
  BY DEF TypeOK, Times, Entries, Calls, Answers

LEMMA TypePartsNext ==
  ASSUME now' \in Times, traded' \in Times, there' \in BOOLEAN,
         cache' \in [Tokens -> Entries], call' \in Calls,
         listed' \subseteq Tokens, answer' \in Answers
  PROVE  TypeOK'
  BY DEF TypeOK, Times, Entries, Calls, Answers

LEMMA NoneTypes == NoEntry \in Entries /\ NoCall \in Calls /\ NoAnswer \in Answers
  BY DEF Entries, Calls, NoEntry, NoCall, NoAnswer, Answers

LEMMA CallParts ==
  ASSUME call \in Calls, Calling
  PROVE  /\ call.key \in Tokens /\ call.since \in Times
         /\ call.reply \in Times \cup {NoReply, Missing, Errors}
  BY DEF Calls, Calling, NoCall

\* Trading goes on: a figure that is there stays.
LEMMA FigureStays ==
  ASSUME NEW t \in Times, traded \in Times, traded' \in Times, traded <= traded', HasFigure(t)
  PROVE  HasFigure(t)'
<1>1. (t \div Hour) * Hour \in Int
  BY PriceAssumption DEF Times
<1> DEFINE begin == (t \div Hour) * Hour
<1>2. traded >= begin
  BY DEF HasFigure
<1>3. begin \in Int
  BY <1>1
<1> HIDE DEF begin
<1>4. traded' >= begin
  BY <1>2, <1>3, PriceAssumption DEF Times
<1>5. QED
  BY <1>4 DEF HasFigure, begin

LEMMA PriceInit == Init => PriceInv
<1> SUFFICES ASSUME Init PROVE PriceInv
  OBVIOUS
<1> USE DEF Init
<1>1. now \in Times /\ traded \in Times
  BY PriceAssumption DEF Times
<1>2. listed \subseteq Tokens
  BY PriceAssumption
<1>3. there \in BOOLEAN
  OBVIOUS
<1>4. cache \in [Tokens -> Entries] /\ CacheInv
  BY NoneTypes DEF CacheInv
<1>5. TypeOK
  BY <1>1, <1>2, <1>3, <1>4, TypeParts, NoneTypes
<1>6. CallInv /\ ThereInv
  BY DEF CallInv, ThereInv, Calling
<1>7. PriceIsFresh /\ NoInfoIsTrue
  BY DEF PriceIsFresh, NoInfoIsTrue, NoAnswer
<1>8. QED
  BY <1>4, <1>5, <1>6, <1>7 DEF PriceInv

-----------------------------------------------------------------------------
(* The steps *)

\* GetToken answers from the cache.
LEMMA HitKeepsInv ==
  ASSUME PriceInv, NEW t \in Tokens \cup {Ether}, Hit(t)
  PROVE  PriceInv'
<1>1. Key(t) \in Tokens
  BY PriceAssumption DEF Key
<1> DEFINE e == cache[Key(t)]
<1>2. /\ e # NoEntry /\ now - e.at < Duration
      /\ answer' = [price |-> e.price, kind |-> "price"] /\ UNCHANGED <<now, cache, call, exchange, there>>
  BY DEF Hit, Fresh
<1>3. e \in Entries
  BY <1>1, TypeParts DEF PriceInv
<1>4. e.price \in Times /\ e.at \in Times /\ now \in Times
  BY <1>2, <1>3, TypeParts DEF Entries, PriceInv
<1>5. e.at <= now /\ e.at - e.price <= CallTimeout
  BY <1>1, <1>2 DEF PriceInv, CacheInv
<1> HIDE DEF e
<1>6. now - e.price < Duration + CallTimeout
  BY <1>2, <1>4, <1>5, PriceAssumption DEF Times
<1>7. TypeOK'
  <2>1. answer' \in Answers
    BY <1>2, <1>4 DEF Answers
  <2>2. QED
    BY <1>2, <2>1, TypeParts, TypePartsNext DEF PriceInv, exchange
<1>8. CacheInv' /\ CallInv' /\ ThereInv'
  BY <1>2 DEF PriceInv, CacheInv, CallInv, ThereInv, Calling, HasFigure, exchange
<1>9. PriceIsFresh' /\ NoInfoIsTrue'
  BY <1>2, <1>6 DEF PriceIsFresh, NoInfoIsTrue
<1>10. QED
  BY <1>7, <1>8, <1>9 DEF PriceInv

\* GetToken asks the service.
LEMMA QueryKeepsInv ==
  ASSUME PriceInv, NEW t \in Tokens \cup {Ether}, Query(t)
  PROVE  PriceInv'
<1>1. /\ call' = [key |-> Key(t), since |-> now, reply |-> NoReply]
      /\ there' = ((t = Ether \/ t \in listed) /\ HasFigure(now))
      /\ answer' = NoAnswer /\ UNCHANGED <<now, cache, listed, traded>>
  BY DEF Query, exchange
<1>2. Key(t) \in Tokens /\ (t = Ether \/ t \in listed => Key(t) \in listed)
  BY PriceAssumption DEF Key, PriceInv, ThereInv
<1>3. now \in Times
  BY TypeParts DEF PriceInv
<1>4. TypeOK'
  <2>1. call' \in Calls
    BY <1>1, <1>2, <1>3 DEF Calls
  <2>2. there' \in BOOLEAN
    BY <1>1
  <2>3. QED
    BY <1>1, <2>1, <2>2, TypeParts, TypePartsNext, NoneTypes DEF PriceInv
<1>5. CacheInv'
  BY <1>1 DEF PriceInv, CacheInv
<1>6. CallInv'
  BY <1>1, <1>3, PriceAssumption DEF CallInv, Times, NoReply
<1>7. ThereInv'
  <2>1. (WETH \in listed /\ traded <= now)'
    BY <1>1 DEF PriceInv, ThereInv
  <2>2. ASSUME there' PROVE Key(t) \in listed /\ HasFigure(now)
    BY <1>1, <1>2, <2>2
  <2>3. HasFigure(call.since)' <=> HasFigure(now)
    <3>1. (call.since)' = now /\ traded' = traded
      BY <1>1
    <3>2. QED
      BY <3>1 DEF HasFigure
  <2>4. (call.key)' = Key(t) /\ (call.reply)' # Missing
    BY <1>1 DEF NoReply, Missing
  <2>5. QED
    BY <1>1, <2>1, <2>2, <2>3, <2>4 DEF ThereInv
<1>8. PriceIsFresh' /\ NoInfoIsTrue'
  BY <1>1 DEF PriceIsFresh, NoInfoIsTrue, NoAnswer
<1>9. QED
  BY <1>4, <1>5, <1>6, <1>7, <1>8 DEF PriceInv

\* A call returns, with or without a price.
LEMMA ReturnKeepsInv ==
  ASSUME PriceInv, Receive \/ NoTokenInfo \/ QueryFails
  PROVE  PriceInv'
<1>1. Calling /\ call' = NoCall /\ UNCHANGED <<now, listed, traded, there>>
  BY DEF Receive, NoTokenInfo, QueryFails, Returns, exchange
<1>2. /\ call.key \in Tokens /\ call.since \in Times
      /\ call.reply \in Times \cup {NoReply, Missing, Errors} /\ now \in Times
      /\ now <= call.since + CallTimeout
  BY <1>1, CallParts, TypeParts DEF PriceInv, CallInv
<1>3. CallInv' /\ ThereInv'
  BY <1>1 DEF PriceInv, CallInv, ThereInv, Calling
<1>4. CASE Receive
  <2>1. /\ answer' = [price |-> call.reply, kind |-> "price"] /\ call.reply >= 0
        /\ cache' = [cache EXCEPT ![call.key] = [price |-> call.reply, at |-> now]]
    BY <1>4 DEF Receive, Returns, HasPrice
  <2>2. call.reply \in Times
    BY <1>2, <2>1 DEF NoReply, Missing, Errors
  <2>3. now - call.reply <= CallTimeout
    <3>1. call.since <= call.reply
      BY <1>1, <2>1 DEF PriceInv, CallInv
    <3>2. QED
      BY <1>2, <2>2, <3>1, PriceAssumption DEF Times
  <2>4. cache' \in [Tokens -> Entries] /\ answer' \in Answers
    <3>1. [price |-> call.reply, at |-> now] \in Entries
      BY <1>2, <2>2 DEF Entries
    <3>2. QED
      BY <2>1, <2>2, <3>1, TypeParts DEF PriceInv, Answers
  <2>5. TypeOK'
    BY <1>1, <2>4, TypeParts, TypePartsNext, NoneTypes DEF PriceInv
  <2>6. CacheInv'
    <3>1. ASSUME NEW k \in Tokens, cache'[k] # NoEntry
          PROVE  cache'[k].at <= now /\ cache'[k].at - cache'[k].price <= CallTimeout
      <4>1. CASE k = call.key
        <5>1. cache'[k] = [price |-> call.reply, at |-> now]
          BY <2>1, <4>1, TypeParts DEF PriceInv
        <5>2. QED
          BY <1>2, <2>3, <5>1 DEF Times
      <4>2. CASE k # call.key
        BY <2>1, <3>1, <4>2, TypeParts DEF PriceInv, CacheInv
      <4>3. QED
        BY <4>1, <4>2
    <3>2. QED
      BY <1>1, <3>1 DEF CacheInv
  <2>7. PriceIsFresh' /\ NoInfoIsTrue'
    BY <1>1, <2>1, <2>3 DEF PriceIsFresh, NoInfoIsTrue
  <2>8. QED
    BY <1>3, <2>5, <2>6, <2>7 DEF PriceInv
<1>5. CASE NoTokenInfo \/ QueryFails
  <2>1. /\ UNCHANGED cache
        /\ \/ answer' = [price |-> NoReply, kind |-> "no info"] /\ call.reply = Missing
           \/ answer' = [price |-> NoReply, kind |-> "error"]
    BY <1>5 DEF NoTokenInfo, QueryFails, Returns, NoData
  <2>2. answer' \in Answers
    <3>1. [price |-> NoReply, kind |-> "no info"] \in Answers
      BY DEF Answers
    <3>2. [price |-> NoReply, kind |-> "error"] \in Answers
      BY DEF Answers
    <3>3. QED
      BY <2>1, <3>1, <3>2
  <2>3. TypeOK'
    BY <1>1, <2>1, <2>2, TypeParts, TypePartsNext, NoneTypes DEF PriceInv
  <2>4. CacheInv'
    BY <1>1, <2>1 DEF PriceInv, CacheInv
  <2>5. \/ answer'.kind = "no info" /\ call.reply = Missing
        \/ answer'.kind = "error"
    <3>1. CASE answer' = [price |-> NoReply, kind |-> "no info"] /\ call.reply = Missing
      BY <3>1
    <3>2. CASE answer' = [price |-> NoReply, kind |-> "error"]
      BY <3>2
    <3>3. QED
      BY <2>1, <3>1, <3>2
  <2>6. PriceIsFresh'
    BY <2>5 DEF PriceIsFresh
  <2>7. NoInfoIsTrue'
    <3>1. SUFFICES ASSUME answer'.kind = "no info" PROVE ~there'
      BY DEF NoInfoIsTrue
    <3>2. call.reply = Missing
      BY <2>5, <3>1
    <3>3. QED
      BY <1>1, <3>2 DEF PriceInv, ThereInv
  <2>8. QED
    BY <1>3, <2>3, <2>4, <2>6, <2>7 DEF PriceInv
<1>6. QED
  BY <1>4, <1>5

\* The service reads its tables.
LEMMA ReadKeepsInv ==
  ASSUME PriceInv, Read
  PROVE  PriceInv'
<1>1. Calling /\ call.reply = NoReply /\ UNCHANGED <<now, cache, answer, listed, traded, there>>
  BY DEF Read, exchange
<1>2. /\ call.key \in Tokens /\ call.since \in Times /\ now \in Times
      /\ now <= call.since + CallTimeout
  BY <1>1, CallParts, TypeParts DEF PriceInv, CallInv
<1>3. PICK r \in Times \cup {NoReply, Missing, Errors} :
        /\ call' = [call EXCEPT !.reply = r]
        /\ r >= 0 => r = now
        /\ r = Missing => ~(call.key \in listed /\ HasFigure(call.since))
  <2>1. CASE call' = [call EXCEPT !.reply = Errors]
    BY <2>1 DEF Errors, Missing
  <2>2. CASE call' = [call EXCEPT !.reply =
               IF call.key \in listed /\ HasFigure(call.since) THEN now ELSE Missing]
    <3>1. CASE call.key \in listed /\ HasFigure(call.since)
      BY <1>2, <2>2, <3>1 DEF Missing, Times
    <3>2. CASE ~(call.key \in listed /\ HasFigure(call.since))
      BY <2>2, <3>2 DEF Missing
    <3>3. QED
      BY <3>1, <3>2
  <2>3. QED
    BY <2>1, <2>2 DEF Read
<1>4. call' = [key |-> call.key, since |-> call.since, reply |-> r]
  BY <1>1, <1>3, TypeParts DEF PriceInv, Calls, Calling, NoCall
<1>5. TypeOK'
  <2>1. call' \in Calls
    BY <1>2, <1>4 DEF Calls
  <2>2. QED
    BY <1>1, <2>1, TypeParts, TypePartsNext DEF PriceInv
<1>6. CallInv'
  <2>1. (call.since)' = call.since /\ (call.reply)' = r
    BY <1>4
  <2>2. call.since <= now
    BY <1>1 DEF PriceInv, CallInv
  <2>3. r >= 0 => call.since <= r
    BY <1>1, <1>2, <1>3, <2>2 DEF Times
  <2>4. QED
    BY <1>1, <1>2, <2>1, <2>2, <2>3 DEF CallInv
<1>7. CacheInv' /\ PriceIsFresh' /\ NoInfoIsTrue'
  BY <1>1 DEF PriceInv, CacheInv, PriceIsFresh, NoInfoIsTrue
<1>8. ThereInv'
  <2>1. (WETH \in listed /\ traded <= now)'
    BY <1>1 DEF PriceInv, ThereInv
  <2>2. ASSUME there PROVE call.key \in listed /\ HasFigure(call.since)
    BY <1>1, <2>2 DEF PriceInv, ThereInv
  <2>3. HasFigure(call.since)' <=> HasFigure(call.since)
    <3>1. (call.since)' = call.since /\ traded' = traded
      BY <1>1, <1>4
    <3>2. QED
      BY <3>1 DEF HasFigure
  <2>4. (call.key)' = call.key /\ (call.reply)' = r
    BY <1>4
  <2>5. QED
    BY <1>1, <1>3, <2>1, <2>2, <2>3, <2>4 DEF ThereInv
<1>9. QED
  BY <1>5, <1>6, <1>7, <1>8 DEF PriceInv

\* Tokens are listed, and Ether is traded.
LEMMA ExchangeKeepsInv ==
  ASSUME PriceInv, Trade \/ \E t \in Tokens : List(t)
  PROVE  PriceInv'
<1>1. /\ UNCHANGED <<now, cache, call, answer, there>> /\ listed \subseteq listed'
      /\ listed' \subseteq Tokens /\ (traded' = now \/ traded' = traded)
  BY TypeParts DEF Trade, List, PriceInv
<1>2. /\ now \in Times /\ traded \in Times /\ traded <= now /\ traded' \in Times
      /\ traded <= traded' /\ traded' <= now'
  BY <1>1, TypeParts DEF PriceInv, ThereInv, Times
<1>3. TypeOK'
  BY <1>1, <1>2, TypeParts, TypePartsNext DEF PriceInv
<1>4. CacheInv' /\ PriceIsFresh' /\ NoInfoIsTrue'
  BY <1>1 DEF PriceInv, CacheInv, PriceIsFresh, NoInfoIsTrue
<1>5. CallInv'
  BY <1>1 DEF PriceInv, CallInv, Calling
<1>6. ThereInv'
  <2>1. ASSUME Calling, there
        PROVE  call.key \in listed' /\ HasFigure(call.since)' /\ call.reply # Missing
    <3>1. call.key \in listed /\ HasFigure(call.since) /\ call.reply # Missing
      BY <2>1 DEF PriceInv, ThereInv
    <3>2. call.since \in Times
      BY <2>1, CallParts, TypeParts DEF PriceInv
    <3>3. traded' >= (call.since \div Hour) * Hour
      BY <1>2, <3>1, <3>2, FigureStays DEF HasFigure
    <3>4. HasFigure(call.since)'
      BY <1>1, <3>3 DEF HasFigure
    <3>5. QED
      BY <1>1, <3>1, <3>4
  <2>2. WETH \in listed'
    BY <1>1 DEF PriceInv, ThereInv
  <2>3. QED
    BY <1>1, <1>2, <2>1, <2>2 DEF ThereInv, Calling
<1>7. QED
  BY <1>3, <1>4, <1>5, <1>6 DEF PriceInv

\* Time passes.
LEMMA TickKeepsInv ==
  ASSUME PriceInv, Tick
  PROVE  PriceInv'
<1>1. /\ now' = now + 1 /\ now < MaxTime /\ answer' = NoAnswer
      /\ Calling => now < call.since + CallTimeout
      /\ UNCHANGED <<cache, call, listed, traded, there>>
  BY DEF Tick, exchange
<1>2. now \in Times /\ now' \in Times /\ traded \in Times /\ traded <= now
  BY <1>1, TypeParts, PriceAssumption DEF PriceInv, ThereInv, Times
<1>3. TypeOK'
  BY <1>1, <1>2, TypeParts, TypePartsNext, NoneTypes DEF PriceInv
<1>4. CacheInv'
  <2>1. ASSUME NEW k \in Tokens, cache[k] # NoEntry
        PROVE  cache[k].at <= now' /\ cache[k].at - cache[k].price <= CallTimeout
    <3>1. cache[k] \in Entries
      BY TypeParts DEF PriceInv
    <3>2. cache[k].at \in Times
      BY <2>1, <3>1 DEF Entries
    <3>3. cache[k].at <= now /\ cache[k].at - cache[k].price <= CallTimeout
      BY <2>1 DEF PriceInv, CacheInv
    <3>4. QED
      BY <1>1, <1>2, <3>2, <3>3 DEF Times
  <2>2. QED
    BY <1>1, <2>1 DEF CacheInv
<1>5. CallInv'
  <2>1. ASSUME Calling
        PROVE  call.since <= now' /\ now' <= call.since + CallTimeout /\ (call.reply >= 0 => call.since <= call.reply)
    <3>1. call.since \in Times /\ now < call.since + CallTimeout
      BY <1>1, <2>1, CallParts, TypeParts DEF PriceInv
    <3>2. call.since <= now /\ (call.reply >= 0 => call.since <= call.reply)
      BY <2>1 DEF PriceInv, CallInv
    <3>3. QED
      BY <1>1, <1>2, <3>1, <3>2, PriceAssumption DEF Times
  <2>2. QED
    BY <1>1, <2>1 DEF CallInv, Calling
<1>6. ThereInv'
  <2>1. traded' <= now'
    BY <1>1, <1>2 DEF Times
  <2>2. QED
    BY <1>1, <2>1 DEF PriceInv, ThereInv, Calling, HasFigure
<1>7. PriceIsFresh' /\ NoInfoIsTrue'
  BY <1>1 DEF PriceIsFresh, NoInfoIsTrue, NoAnswer
<1>8. QED
  BY <1>3, <1>4, <1>5, <1>6, <1>7 DEF PriceInv

\* The process is started anew.
LEMMA RestartKeepsInv ==
  ASSUME PriceInv, Restart
  PROVE  PriceInv'
<1>1. /\ cache' = [k \in Tokens |-> NoEntry] /\ call' = NoCall /\ answer' = NoAnswer
      /\ UNCHANGED <<now, listed, traded, there>>
  BY DEF Restart, exchange
<1>2. cache' \in [Tokens -> Entries] /\ CacheInv'
  BY <1>1, NoneTypes DEF CacheInv
<1>3. TypeOK'
  BY <1>1, <1>2, TypeParts, TypePartsNext, NoneTypes DEF PriceInv
<1>4. CallInv' /\ ThereInv'
  BY <1>1 DEF PriceInv, CallInv, ThereInv, Calling
<1>5. PriceIsFresh' /\ NoInfoIsTrue'
  BY <1>1 DEF PriceIsFresh, NoInfoIsTrue, NoAnswer
<1>6. QED
  BY <1>2, <1>3, <1>4, <1>5 DEF PriceInv

LEMMA PriceStep == PriceInv /\ [Next]_vars => PriceInv'
<1> SUFFICES ASSUME PriceInv, [Next]_vars PROVE PriceInv'
  OBVIOUS
<1>1. CASE GetToken
  BY <1>1, HitKeepsInv, QueryKeepsInv, ReturnKeepsInv DEF GetToken
<1>2. CASE Restart
  BY <1>2, RestartKeepsInv
<1>3. CASE Read
  BY <1>3, ReadKeepsInv
<1>4. CASE Trade \/ \E t \in Tokens : List(t)
  BY <1>4, ExchangeKeepsInv
<1>5. CASE Tick
  BY <1>5, TickKeepsInv
<1>6. CASE UNCHANGED vars
  <2>1. UNCHANGED <<now, cache, call, answer, listed, traded, there>>
    BY <1>6 DEF vars, exchange
  <2>2. TypeOK'
    BY <2>1, TypeParts, TypePartsNext DEF PriceInv
  <2>3. (CacheInv /\ CallInv /\ ThereInv /\ PriceIsFresh /\ NoInfoIsTrue)'
    BY <2>1 DEF PriceInv, CacheInv, CallInv, ThereInv, PriceIsFresh, NoInfoIsTrue, Calling, HasFigure
  <2>4. QED
    BY <2>2, <2>3 DEF PriceInv
<1>7. QED
  BY <1>1, <1>2, <1>3, <1>4, <1>5, <1>6 DEF Next

-----------------------------------------------------------------------------
(* The theorems *)

LEMMA PriceInvAlways == Spec => []PriceInv
  BY PriceInit, PriceStep, PTL DEF Spec

\* The variables of the price cache have their types, for any tokens, durations
\* of the cache and of a call, and length of the hour.
THEOREM PriceTypeCorrect == Spec => []TypeOK
  BY PriceInvAlways, PTL DEF PriceInv

\* A price that GetToken returns is never older than the duration of the cache
\* and one call.
THEOREM PricesAreFresh == Spec => []PriceIsFresh
  BY PriceInvAlways, PTL DEF PriceInv

\* GetToken denies that there is a price only if there was none when it asked.
THEOREM NoInfoOnlyIfTrue == Spec => []NoInfoIsTrue
  BY PriceInvAlways, PTL DEF PriceInv
=============================================================================
