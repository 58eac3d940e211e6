-------------------------- MODULE OrderedReadProofs --------------------------
(***************************************************************************)
(* The two loops of the service that range over a bounded channel, the one *)
(* of syncWithRange over the logs of a filter (EventIterator) and the ones *)
(* of the faucet over the rows of a query (RowStream), are ordered reads   *)
(* (OrderedRead), for every number of items and every capacity of the      *)
(* channel.  Both invariants say where each item is: behind the loop, in   *)
(* its hands, in the channel, or still with the goroutine.                 *)
(***************************************************************************)
EXTENDS EventIterator, RowStream, SequenceTheorems, TLAPS

-----------------------------------------------------------------------------
(* Channels *)

\* What a channel holds after an item was sent, and after one was taken.
LEMMA Sending ==
  ASSUME NEW S, NEW c \in Seq(S), NEW e \in S, NEW n \in Nat, n = Len(c)
  PROVE  /\ Append(c, e) \in Seq(S) /\ Len(Append(c, e)) = n + 1
         /\ \A i \in 1..n : Append(c, e)[i] = c[i]
         /\ Append(c, e)[n + 1] = e /\ Append(c, e) # << >>
<1>1. Append(c, e) \in Seq(S) /\ Len(Append(c, e)) = n + 1
  OBVIOUS
<1>2. (\A i \in 1..n : Append(c, e)[i] = c[i]) /\ Append(c, e)[n + 1] = e
  OBVIOUS
<1>3. Append(c, e) # << >>
  BY <1>1, EmptySeq
<1>4. QED
  BY <1>1, <1>2, <1>3

LEMMA Holding ==
  ASSUME NEW S, NEW c \in Seq(S), NEW n \in Nat, n = Len(c)
  PROVE  \A i \in 1..n : c[i] \in S
  OBVIOUS

LEMMA Taking ==
  ASSUME NEW S, NEW c \in Seq(S), c # << >>, NEW n \in Nat, n = Len(c)
  PROVE  /\ n # 0 /\ Head(c) = c[1] /\ Head(c) \in S
         /\ Tail(c) \in Seq(S) /\ Len(Tail(c)) = n - 1
         /\ \A i \in 1..(n - 1) : Tail(c)[i] = c[i + 1]
         /\ Tail(c) = << >> <=> n = 1
<1>1. n # 0 /\ Head(c) = c[1] /\ Head(c) \in S
  BY EmptySeq
<1>2. /\ Tail(c) \in Seq(S) /\ Len(Tail(c)) = n - 1
      /\ \A i \in 1..(n - 1) : Tail(c)[i] = c[i + 1]
  BY EmptySeq
<1>3. Tail(c) = << >> <=> Len(Tail(c)) = 0
  BY <1>2, EmptySeq
<1>4. QED
  BY <1>1, <1>2, <1>3

-----------------------------------------------------------------------------
(* The invariant of the iterators *)

\* The goroutine of a subscription sends the logs one after the other, and
\* ends with all of them unless it was asked to.
Feeds(x) ==
  /\ x.sent <= x.found /\ Len(x.logs) <= x.sent
  /\ \A i \in 1..Len(x.logs) : x.logs[i] + Len(x.logs) = x.sent + i
  /\ x.done => x.sub = "ended"
  /\ x.sub = "ended" => x.sent = x.found \/ x.unsub

\* The rows of the filters before f.
Base(f) == IF f = "eth" THEN iter["erc20"].found ELSE 0

\* Where syncWithRange is tells what it has of each filter.
Progress ==
  /\ pc = "filter" => iter[current] = Fresh /\ Len(rows) = Base(current)
  /\ pc = "next" => /\ iter[current].sub # "none"
                    /\ Len(rows) + Len(iter[current].logs) = Base(current) + iter[current].sent
  /\ pc \in {"filter", "next"} /\ current = "erc20" => iter["eth"] = Fresh
  /\ pc \in {"filter", "next"} /\ current = "eth" => iter["erc20"].sub = "ended"
  /\ pc = "save" => current = "eth" /\ \A f \in Filters : iter[f].sub = "ended"
  /\ pc = "close" => /\ iter["erc20"].sub # "none"
                     /\ IF current = "eth" THEN iter["eth"].sub # "none"
                                           ELSE iter["eth"].sub # "running"
  /\ pc = "idle" => \A f \in Filters : iter[f].sub # "running"

\* The rows begin as they should.
InOrder == \A i \in 1..Len(rows) : rows[i] = Expected(i)

\* Only Close asks a goroutine to end, and an error ends the reading.
ReadInv ==
  /\ TypeOK
  /\ InOrder
  /\ \A f \in Filters : /\ Feeds(iter[f])
                        /\ iter[f].unsub \/ iter[f].fail => pc \in {"close", "idle"}
  /\ Progress

-----------------------------------------------------------------------------
(* One iterator *)

LEMMA IteratorType ==
  ASSUME NEW x \in Iterator
  PROVE  /\ x.found \in Nat /\ x.found \in 0..MaxLogs /\ x.sent \in Nat /\ x.sent \in 0..MaxLogs
         /\ x.logs \in Seq(1..MaxLogs) /\ Len(x.logs) \in Nat
         /\ x.sub \in {"none", "running", "ended"}
         /\ x.unsub \in BOOLEAN /\ x.done \in BOOLEAN /\ x.fail \in BOOLEAN
  BY IteratorAssumption DEF Iterator

LEMMA FreshFeeds ==
  /\ Fresh \in Iterator /\ Feeds(Fresh) /\ Fresh.logs = << >> /\ Fresh.found = 0 /\ Fresh.sent = 0
  /\ Fresh.sub = "none" /\ ~Fresh.unsub /\ ~Fresh.done /\ ~Fresh.fail
<1>1. << >> \in Seq(1..MaxLogs) /\ 0 \in 0..MaxLogs /\ Len(<< >>) = 0
  BY IteratorAssumption
<1>2. /\ Fresh.logs = << >> /\ Fresh.found = 0 /\ Fresh.sent = 0
      /\ Fresh.sub = "none" /\ ~Fresh.unsub /\ ~Fresh.done /\ ~Fresh.fail
  BY DEF Fresh
<1>3. Fresh \in Iterator
  BY <1>1 DEF Fresh, Iterator
<1>4. Feeds(Fresh)
  BY <1>1, <1>2 DEF Feeds
<1>5. QED
  BY <1>2, <1>3, <1>4

\* The logs in a channel stay the last of the k that were sent, when one more is
\* sent or one is taken.
LEMMA SentInOrder ==
  ASSUME NEW c \in Seq(1..MaxLogs), NEW k \in Nat, NEW n \in Nat, n = Len(c),
         \A i \in 1..n : c[i] + n = k + i,
         k + 1 \in 1..MaxLogs
  PROVE  \A i \in 1..(n + 1) : Append(c, k + 1)[i] + (n + 1) = (k + 1) + i
<1> SUFFICES ASSUME NEW i \in 1..(n + 1)
             PROVE  Append(c, k + 1)[i] + (n + 1) = (k + 1) + i
  OBVIOUS
<1>1. /\ \A j \in 1..n : Append(c, k + 1)[j] = c[j]
      /\ Append(c, k + 1)[n + 1] = k + 1
  BY Sending
<1>2. CASE i = n + 1
  BY <1>1, <1>2
<1>3. CASE i # n + 1
  <2>1. PICK j \in 1..n : j = i
    BY <1>3
  <2>2. PICK v \in Nat : v = c[j]
    <3>1. c[j] \in 1..MaxLogs
      BY Holding
    <3>2. QED
      BY <3>1, IteratorAssumption
  <2>3. v + n = k + j /\ Append(c, k + 1)[i] = v
    BY <1>1, <2>1, <2>2
  <2>4. QED
    BY <2>1, <2>3
<1>4. QED
  BY <1>2, <1>3

LEMMA TakenInOrder ==
  ASSUME NEW c \in Seq(1..MaxLogs), NEW k \in Nat, NEW n \in Nat, n = Len(c),
         \A i \in 1..n : c[i] + n = k + i,
         c # << >>
  PROVE  /\ Head(c) + n = k + 1
         /\ \A i \in 1..(n - 1) : Tail(c)[i] + (n - 1) = k + i
<1>1. n # 0 /\ Head(c) = c[1] /\ \A i \in 1..(n - 1) : Tail(c)[i] = c[i + 1]
  BY Taking
<1>2. Head(c) + n = k + 1
  BY <1>1
<1>3. ASSUME NEW i \in 1..(n - 1) PROVE Tail(c)[i] + (n - 1) = k + i
  <2>1. PICK j \in 1..n : j = i + 1
    OBVIOUS
  <2>2. PICK v \in Nat : v = c[j]
    <3>1. c[j] \in 1..MaxLogs
      BY Holding
    <3>2. QED
      BY <3>1, IteratorAssumption
  <2>3. v + n = k + j /\ Tail(c)[i] = v
    BY <1>1, <2>1, <2>2
  <2>4. v + (n - 1) = k + i
    BY <2>1, <2>3
  <2>5. QED
    BY <2>3, <2>4
<1>4. QED
  BY <1>2, <1>3

\* The goroutine sends a log ...
LEMMA SendFeeds ==
  ASSUME NEW x \in Iterator, Feeds(x), x.sub = "running", x.sent < x.found,
         NEW y, y = [x EXCEPT !.sent = @ + 1, !.logs = Append(@, x.sent + 1)]
  PROVE  /\ y \in Iterator /\ Feeds(y) /\ y.sent = x.sent + 1 /\ Len(y.logs) = Len(x.logs) + 1
         /\ y.found = x.found /\ y.fail = x.fail /\ y.unsub = x.unsub /\ y.sub = "running"
<1>1. PICK k \in Nat, n \in Nat, m \in Nat : k = x.sent /\ n = Len(x.logs) /\ m = x.found
  BY IteratorType
<1>2. PICK c \in Seq(1..MaxLogs) : c = x.logs
  BY IteratorType
<1>3. PICK d : d = Append(c, k + 1)
  OBVIOUS
<1>4. k + 1 \in 1..MaxLogs /\ k + 1 \in 0..MaxLogs /\ k + 1 <= m /\ n + 1 <= k + 1
  <2>1. m <= MaxLogs /\ k < m /\ n <= k
    BY <1>1, IteratorType, IteratorAssumption DEF Feeds
  <2>2. QED
    BY <1>1, <2>1, IteratorAssumption
<1>5. d \in Seq(1..MaxLogs) /\ Len(d) = n + 1
  BY <1>1, <1>2, <1>3, <1>4, Sending
<1>6. \A i \in 1..(n + 1) : d[i] + (n + 1) = (k + 1) + i
  <2>1. \A i \in 1..n : c[i] + n = k + i
    BY <1>1, <1>2 DEF Feeds
  <2>2. n = Len(c)
    BY <1>1, <1>2
  <2>3. \A i \in 1..(n + 1) : Append(c, k + 1)[i] + (n + 1) = (k + 1) + i
    BY <1>4, <2>1, <2>2, SentInOrder
  <2>4. QED
    BY <1>3, <2>3
<1>7. y = [x EXCEPT !.sent = k + 1, !.logs = d]
  BY <1>1, <1>2, <1>3
<1>8. y \in Iterator
  BY <1>4, <1>5, <1>7 DEF Iterator
<1>9. /\ y.sent = k + 1 /\ y.logs = d /\ y.found = x.found /\ y.sub = x.sub
      /\ y.done = x.done /\ y.fail = x.fail /\ y.unsub = x.unsub
  BY <1>7 DEF Iterator
<1>10. ~x.done
  BY DEF Feeds
<1>11. Feeds(y)
  BY <1>1, <1>4, <1>5, <1>6, <1>9, <1>10 DEF Feeds
<1>12. QED
  BY <1>1, <1>5, <1>8, <1>9, <1>11

\* ... and Next takes one: the one after those that it has taken before.
LEMMA TakeFeeds ==
  ASSUME NEW x \in Iterator, Feeds(x), x.logs # << >>,
         NEW y, y = [x EXCEPT !.logs = Tail(@)]
  PROVE  /\ y \in Iterator /\ Feeds(y) /\ Len(y.logs) + 1 = Len(x.logs)
         /\ Head(x.logs) \in 1..MaxLogs /\ Head(x.logs) + Len(x.logs) = x.sent + 1
         /\ y.found = x.found /\ y.sent = x.sent /\ y.unsub = x.unsub /\ y.sub = x.sub
         /\ y.fail = x.fail /\ y.done = x.done
<1>1. PICK k \in Nat, n \in Nat : k = x.sent /\ n = Len(x.logs)
  BY IteratorType
<1>2. PICK c \in Seq(1..MaxLogs) : c = x.logs
  BY IteratorType
<1>3. PICK d : d = Tail(c)
  OBVIOUS
<1>4. n # 0 /\ Head(c) \in 1..MaxLogs /\ d \in Seq(1..MaxLogs) /\ Len(d) = n - 1
  BY <1>1, <1>2, <1>3, Taking
<1>5. Head(c) + n = k + 1 /\ \A i \in 1..(n - 1) : d[i] + (n - 1) = k + i
  <2>1. \A i \in 1..n : c[i] + n = k + i
    BY <1>1, <1>2 DEF Feeds
  <2>2. c # << >> /\ n = Len(c)
    BY <1>1, <1>2
  <2>3. Head(c) + n = k + 1 /\ \A i \in 1..(n - 1) : Tail(c)[i] + (n - 1) = k + i
    BY <2>1, <2>2, TakenInOrder
  <2>4. QED
    BY <1>3, <2>3
<1>6. y = [x EXCEPT !.logs = d]
  BY <1>2, <1>3
<1>7. y \in Iterator
  BY <1>4, <1>6 DEF Iterator
<1>8. /\ y.sent = k /\ y.logs = d /\ y.found = x.found /\ y.sub = x.sub
      /\ y.done = x.done /\ y.unsub = x.unsub /\ y.fail = x.fail
  BY <1>1, <1>6 DEF Iterator
<1>9. n - 1 <= k
  BY <1>1 DEF Feeds
<1>10. Feeds(y)
  BY <1>1, <1>4, <1>5, <1>8, <1>9 DEF Feeds
<1>11. QED
  BY <1>1, <1>2, <1>4, <1>5, <1>7, <1>8, <1>10

-----------------------------------------------------------------------------
(* The two iterators and the rows *)

\* The rows are in order, so the abstract reader of a filter has read its count.
LEMMA RowsCounted ==
  ASSUME rows \in Seq(Filters \X (1..MaxLogs)), InOrder
  PROVE  \A f : Taken(f) = Count(f)
<1>1. DOMAIN rows = 1..Len(rows)
  OBVIOUS
<1>2. QED
  BY <1>1 DEF InOrder, Taken

LEMMA RowsCountedNext ==
  ASSUME (rows \in Seq(Filters \X (1..MaxLogs)))', InOrder'
  PROVE  \A f : Taken(f)' = Count(f)'
<1>1. DOMAIN rows' = 1..Len(rows')
  OBVIOUS
<1>2. QED
  BY <1>1 DEF InOrder, Taken

\* A step that changes neither the rows nor what is known of a filter.
LEMMA SameRead ==
  ASSUME \A f \in Filters : /\ iter'[f].found = iter[f].found
                            /\ Outcome(f)' = Outcome(f),
         UNCHANGED rows
  PROVE  UNCHANGED Read!vars
<1>1. \A f \in Filters : Taken(f)' = Taken(f)
  BY DEF Filters, Taken, Count, Expected
<1>2. QED
  BY <1>1 DEF Read!vars

\* An iterator changes, and the rest of what is typed does too.
LEMMA OneIterator ==
  ASSUME TypeOK, \A f \in Filters : Feeds(iter[f]),
         NEW f \in Filters, NEW y \in Iterator, iter' = [iter EXCEPT ![f] = y],
         Feeds(y), Len(y.logs) <= Capacity
  PROVE  /\ iter' \in [Filters -> Iterator] /\ iter'[f] = y
         /\ \A g \in Filters : g # f => iter'[g] = iter[g]
         /\ \A g \in Filters : Feeds(iter'[g]) /\ Len(iter'[g].logs) <= Capacity
<1>1. /\ iter' \in [Filters -> Iterator] /\ iter'[f] = y
      /\ \A g \in Filters : g # f => iter'[g] = iter[g]
  BY DEF TypeOK
<1>2. ASSUME NEW g \in Filters PROVE Feeds(iter'[g]) /\ Len(iter'[g].logs) <= Capacity
  <2>1. CASE g = f
    BY <1>1, <2>1
  <2>2. CASE g # f
    BY <1>1, <2>2 DEF TypeOK
  <2>3. QED
    BY <2>1, <2>2
<1>3. QED
  BY <1>1, <1>2

\* The goroutine runs only while its filter is read or its iterator closed.
LEMMA ProducerSteps ==
  ASSUME ReadInv, NEW f \in Filters, Producer(f)
  PROVE  ReadInv' /\ UNCHANGED Read!vars
<1> DEFINE x == iter[f]
<1>1. /\ x \in Iterator /\ Feeds(x) /\ Len(x.logs) <= Capacity /\ x.sub = "running"
      /\ pc' = pc /\ current' = current /\ rows' = rows
      /\ iter \in [Filters -> Iterator]
  BY DEF ReadInv, TypeOK, Producer, Send, SubscriptionEnds
<1>2. (pc = "next" /\ current = f) \/ (pc = "close" /\ (f = "eth" => current = "eth"))
  BY <1>1, FreshFeeds DEF ReadInv, TypeOK, Progress, Filters
<1>3. PICK y \in Iterator :
        /\ iter' = [iter EXCEPT ![f] = y] /\ Feeds(y) /\ Len(y.logs) <= Capacity
        /\ y.found = x.found /\ y.fail = x.fail /\ y.unsub = x.unsub
        /\ y.sub \in {"running", "ended"}
        /\ \/ y.sent = x.sent /\ Len(y.logs) = Len(x.logs)
           \/ y.sent = x.sent + 1 /\ Len(y.logs) = Len(x.logs) + 1
  <2>1. CASE Send(f)
    <3>1. PICK y : /\ y = [x EXCEPT !.sent = @ + 1, !.logs = Append(@, x.sent + 1)]
                   /\ iter' = [iter EXCEPT ![f] = y]
      BY <2>1 DEF Send
    <3>2. /\ y \in Iterator /\ Feeds(y) /\ y.sent = x.sent + 1 /\ Len(y.logs) = Len(x.logs) + 1
          /\ y.found = x.found /\ y.fail = x.fail /\ y.unsub = x.unsub /\ y.sub = "running"
      BY <1>1, <2>1, <3>1, SendFeeds DEF Send
    <3>3. Len(y.logs) <= Capacity
      <4>1. PICK n \in Nat : n = Len(x.logs)
        BY <1>1, IteratorType
      <4>2. n < Capacity
        BY <2>1, <4>1 DEF Send, Room
      <4>3. QED
        BY <3>2, <4>1, <4>2, IteratorAssumption
    <3>4. QED
      BY <3>1, <3>2, <3>3
  <2>2. CASE SubscriptionEnds(f)
    <3>1. PICK y : y = [x EXCEPT !.sub = "ended"] /\ iter' = [iter EXCEPT ![f] = y]
      BY <2>2 DEF SubscriptionEnds
    <3>2. /\ y \in Iterator /\ y.sent = x.sent /\ y.logs = x.logs /\ y.found = x.found
          /\ y.fail = x.fail /\ y.unsub = x.unsub /\ y.done = x.done /\ y.sub = "ended"
      BY <1>1, <3>1 DEF Iterator
    <3>3. x.sent = x.found \/ x.unsub
      BY <2>2 DEF SubscriptionEnds
    <3>4. Feeds(y)
      BY <1>1, <3>2, <3>3 DEF Feeds
    <3>5. QED
      BY <1>1, <3>1, <3>2, <3>4
  <2>3. QED
    BY <2>1, <2>2 DEF Producer, Send, SubscriptionEnds
<1>4. /\ iter' \in [Filters -> Iterator] /\ iter'[f] = y
      /\ \A g \in Filters : g # f => iter'[g] = iter[g]
      /\ \A g \in Filters : Feeds(iter'[g]) /\ Len(iter'[g].logs) <= Capacity
  BY <1>3, OneIterator DEF ReadInv
<1>5. \A g \in Filters : /\ iter'[g].found = iter[g].found /\ iter'[g].fail = iter[g].fail
                         /\ iter'[g].unsub = iter[g].unsub
                         /\ iter'[g].sub = "none" <=> iter[g].sub = "none"
  BY <1>1, <1>3, <1>4
<1>6. TypeOK'
  BY <1>1, <1>4 DEF ReadInv, TypeOK
<1>7. InOrder'
  BY <1>1, <1>5 DEF ReadInv, InOrder, Expected, Filters
<1>8. Progress'
  <2>1. Base(current)' = Base(current)
    BY <1>1, <1>5 DEF Base, Filters
  <2>2. CASE pc = "next" /\ current = f
    <3>1. /\ Len(rows) + Len(x.logs) = Base(f) + x.sent
          /\ f = "erc20" => iter["eth"] = Fresh
          /\ f = "eth" => iter["erc20"].sub = "ended"
      BY <2>2 DEF ReadInv, Progress
    <3>2. Len(rows) + Len(y.logs) = Base(f) + y.sent
      <4>1. PICK a \in Nat, b \in Nat, c \in Nat, d \in Nat :
              a = Len(rows) /\ b = Len(x.logs) /\ c = Base(f) /\ d = x.sent
        <5>1. Len(rows) \in Nat /\ Base(f) \in Nat
          BY IteratorType DEF ReadInv, TypeOK, Base, Filters
        <5>2. QED
          BY <1>1, <5>1, IteratorType
      <4>2. a + b = c + d
        BY <3>1, <4>1
      <4>3. \/ y.sent = d /\ Len(y.logs) = b
            \/ y.sent = d + 1 /\ Len(y.logs) = b + 1
        BY <1>3, <4>1
      <4>4. a + Len(y.logs) = c + y.sent
        BY <4>2, <4>3
      <4>5. QED
        BY <4>1, <4>4
    <3>3. /\ f = "erc20" => iter'["eth"] = Fresh
          /\ f = "eth" => iter'["erc20"].sub = "ended"
      BY <1>4, <3>1 DEF Filters
    <3>4. QED
      BY <1>1, <1>3, <1>4, <2>1, <2>2, <3>2, <3>3 DEF Progress
  <2>3. CASE pc = "close" /\ (f = "eth" => current = "eth")
    <3>1. /\ iter["erc20"].sub # "none"
          /\ IF current = "eth" THEN iter["eth"].sub # "none" ELSE iter["eth"].sub # "running"
      BY <2>3 DEF ReadInv, Progress
    <3>2. current # "eth" => f # "eth" /\ iter'["eth"] = iter["eth"]
      BY <1>4, <2>3 DEF Filters
    <3>3. /\ iter'["erc20"].sub # "none"
          /\ IF current = "eth" THEN iter'["eth"].sub # "none" ELSE iter'["eth"].sub # "running"
      BY <1>5, <3>1, <3>2 DEF Filters
    <3>4. QED
      BY <1>1, <2>3, <3>3 DEF Progress
  <2>4. QED
    BY <1>2, <2>2, <2>3
<1>9. ReadInv'
  BY <1>1, <1>4, <1>5, <1>6, <1>7, <1>8 DEF ReadInv
<1>10. UNCHANGED Read!vars
  BY <1>1, <1>5, SameRead DEF Outcome, At
<1>11. QED
  BY <1>9, <1>10

-----------------------------------------------------------------------------
(* syncWithRange *)

\* It goes on with its rows and iterators as they are.
LEMMA MovesOn ==
  ASSUME ReadInv, UNCHANGED <<iter, rows>>,
         pc' \in {"idle", "filter", "next", "save", "close"}, current' \in Filters,
         Progress',
         \A f \in Filters : iter[f].unsub \/ iter[f].fail => pc' \in {"close", "idle"}
  PROVE  ReadInv'
  BY DEF ReadInv, TypeOK, InOrder, Expected

\* The next filter is answered: its reader starts with nothing.
LEMMA FilterSteps ==
  ASSUME ReadInv, NEW f \in Filters, Filter(f)
  PROVE  ReadInv' /\ Read!Start(f)
<1> DEFINE x == iter[f]
<1>1. /\ pc = "filter" /\ current = f /\ pc' = "next" /\ current' = f /\ rows' = rows
      /\ x = Fresh /\ Len(rows) = Base(f) /\ iter \in [Filters -> Iterator]
      /\ rows \in Seq(Filters \X (1..MaxLogs)) /\ InOrder
      /\ f = "erc20" => iter["eth"] = Fresh
      /\ f = "eth" => iter["erc20"].sub = "ended"
  BY DEF ReadInv, TypeOK, Progress, Filter, At, Go
<1>2. PICK n \in 0..MaxLogs :
        iter' = [iter EXCEPT ![f] = [x EXCEPT !.found = n, !.sub = "running"]]
  <2>1. PICK n \in 0..MaxLogs : iter' = [iter EXCEPT ![f].found = n, ![f].sub = "running"]
    BY DEF Filter
  <2>2. iter' = [iter EXCEPT ![f] = [x EXCEPT !.found = n, !.sub = "running"]]
    BY <2>1
  <2>3. QED
    BY <2>2
<1>3. PICK y : y = [x EXCEPT !.found = n, !.sub = "running"] /\ iter' = [iter EXCEPT ![f] = y]
  BY <1>2
<1>4. /\ Fresh \in Iterator /\ Feeds(Fresh) /\ Fresh.logs = << >> /\ Fresh.found = 0 /\ Fresh.sent = 0
      /\ Fresh.sub = "none" /\ ~Fresh.unsub /\ ~Fresh.done /\ ~Fresh.fail
  BY FreshFeeds
<1>5. /\ y \in Iterator /\ y.found = n /\ y.sent = 0 /\ y.logs = << >> /\ y.sub = "running"
      /\ ~y.unsub /\ ~y.done /\ ~y.fail
  BY <1>1, <1>3, <1>4 DEF Iterator
<1>6. Feeds(y) /\ Len(y.logs) <= Capacity
  BY <1>5, IteratorAssumption DEF Feeds
<1>7. /\ iter' \in [Filters -> Iterator] /\ iter'[f] = y
      /\ \A g \in Filters : g # f => iter'[g] = iter[g]
      /\ \A g \in Filters : Feeds(iter'[g]) /\ Len(iter'[g].logs) <= Capacity
  BY <1>3, <1>5, <1>6, OneIterator DEF ReadInv
<1>8. InOrder'
  <2>1. CASE f = "erc20"
    BY <1>1, <2>1 DEF InOrder, Base
  <2>2. CASE f = "eth"
    BY <1>1, <1>7, <2>2 DEF InOrder, Expected, Filters
  <2>3. QED
    BY <2>1, <2>2 DEF Filters
<1>9. TypeOK'
  BY <1>1, <1>7 DEF TypeOK
<1>10. Progress'
  <2>1. Base(f)' = Base(f) /\ Base(f) \in Nat
    BY <1>1, <1>7, IteratorType DEF Base, Filters
  <2>2. Len(rows) + Len(y.logs) = Base(f) + y.sent
    BY <1>1, <1>5, <2>1
  <2>3. /\ f = "erc20" => iter'["eth"] = Fresh
        /\ f = "eth" => iter'["erc20"].sub = "ended"
    BY <1>1, <1>7 DEF Filters
  <2>4. QED
    BY <1>1, <1>5, <1>7, <2>1, <2>2, <2>3 DEF Progress
<1>11. \A g \in Filters : ~iter'[g].unsub /\ ~iter'[g].fail
  BY <1>1, <1>5, <1>7 DEF ReadInv
<1>12. ReadInv'
  BY <1>7, <1>8, <1>9, <1>10, <1>11 DEF ReadInv
<1>13. \A g \in Filters :
         /\ Taken(g)' = IF g = f THEN 0 ELSE Taken(g)
         /\ iter'[g].found = IF g = f THEN n ELSE iter[g].found
         /\ Outcome(g)' = IF g = f THEN "reading" ELSE Outcome(g)
  <2>1. \A g : Taken(g) = Count(g)
    BY <1>1, RowsCounted
  <2>2. \A g : Taken(g)' = Count(g)'
    BY <1>8, <1>9, RowsCountedNext DEF TypeOK
  <2>3. \A g \in Filters : Count(g)' = IF g = f THEN 0 ELSE Count(g)
    <3>1. n \in Nat /\ iter["erc20"].found \in Nat /\ Len(rows) \in Nat
      BY <1>1, IteratorType, IteratorAssumption DEF Filters
    <3>2. CASE f = "erc20"
      BY <1>1, <1>4, <1>5, <1>7, <3>1, <3>2 DEF Count, Base, Filters
    <3>3. CASE f = "eth"
      BY <1>1, <1>7, <3>1, <3>3 DEF Count, Base, Filters
    <3>4. QED
      BY <3>2, <3>3 DEF Filters
  <2>4. \A g \in Filters : Outcome(g)' = IF g = f THEN "reading" ELSE Outcome(g)
    BY <1>1, <1>5, <1>7 DEF Outcome, At
  <2>5. \A g \in Filters : iter'[g].found = IF g = f THEN n ELSE iter[g].found
    BY <1>5, <1>7
  <2>6. QED
    BY <2>1, <2>2, <2>3, <2>4, <2>5
<1>14. Outcome(f) # "reading" /\ n \in Nat
  BY <1>1, <1>4, IteratorAssumption DEF Outcome
<1>15. Read!Start(f)
  BY <1>13, <1>14 DEF Read!Start, Read!Told
<1>16. QED
  BY <1>12, <1>15

\* The log that is taken is the next one of the range, since what is in the
\* channel and what was taken add up to what was sent.
LEMMA TakeSteps ==
  ASSUME ReadInv, NEW f \in Filters, Take(f)
  PROVE  ReadInv' /\ Read!Item(f)
<1> DEFINE x == iter[f]
           h == Head(x.logs)
<1>1. /\ pc = "next" /\ current = f /\ pc' = pc /\ current' = current /\ x.logs # << >>
      /\ rows' = Append(rows, <<f, h>>)
      /\ iter \in [Filters -> Iterator] /\ x \in Iterator /\ Feeds(x)
      /\ rows \in Seq(Filters \X (1..MaxLogs)) /\ InOrder
      /\ x.sub # "none" /\ ~x.unsub /\ ~x.fail
      /\ Len(rows) + Len(x.logs) = Base(f) + x.sent /\ Len(x.logs) <= Capacity
      /\ f = "erc20" => iter["eth"] = Fresh
      /\ f = "eth" => iter["erc20"].sub = "ended"
  BY DEF ReadInv, TypeOK, Progress, Take, At
<1>2. PICK y : y = [x EXCEPT !.logs = Tail(@)] /\ iter' = [iter EXCEPT ![f] = y]
  BY DEF Take
<1>3. /\ y \in Iterator /\ Feeds(y) /\ Len(y.logs) + 1 = Len(x.logs)
      /\ h \in 1..MaxLogs /\ h + Len(x.logs) = x.sent + 1
      /\ y.found = x.found /\ y.sent = x.sent /\ y.unsub = x.unsub /\ y.sub = x.sub
      /\ y.fail = x.fail
  BY <1>1, <1>2, TakeFeeds
<1>4. PICK l \in Nat, b \in Nat, c \in Nat, d \in Nat, m \in Nat, e \in Nat :
        /\ l = Len(rows) /\ b = Len(y.logs) /\ c = Base(f) /\ d = x.sent /\ m = x.found
        /\ e = iter["erc20"].found
  <2>1. Len(rows) \in Nat /\ Base(f) \in Nat /\ iter["erc20"].found \in Nat
    BY <1>1, IteratorType DEF Base, Filters
  <2>2. QED
    BY <1>1, <1>3, <2>1, IteratorType
<1>5. Len(x.logs) = b + 1 /\ l + (b + 1) = c + d /\ d <= m /\ b + 1 <= d /\ h + (b + 1) = d + 1
  BY <1>1, <1>3, <1>4 DEF Feeds
<1>6. PICK k \in 1..MaxLogs : k = h /\ k \in Nat
  BY <1>3, IteratorAssumption
<1>7. c + k = l + 1 /\ k <= m
  BY <1>5, <1>6
<1>8. /\ iter' \in [Filters -> Iterator] /\ iter'[f] = y
      /\ \A g \in Filters : g # f => iter'[g] = iter[g]
      /\ \A g \in Filters : Feeds(iter'[g]) /\ Len(iter'[g].logs) <= Capacity
  <2>1. Len(y.logs) <= Capacity
    BY <1>1, <1>4, <1>5, IteratorAssumption
  <2>2. QED
    BY <1>2, <1>3, <2>1, OneIterator DEF ReadInv
<1>9. /\ rows' \in Seq(Filters \X (1..MaxLogs)) /\ Len(rows') = l + 1
      /\ \A i \in 1..l : rows'[i] = rows[i]
      /\ rows'[l + 1] = <<f, k>>
  <2>1. <<f, k>> \in Filters \X (1..MaxLogs)
    OBVIOUS
  <2>2. rows' = Append(rows, <<f, k>>) /\ l = Len(rows) /\ rows \in Seq(Filters \X (1..MaxLogs))
    BY <1>1, <1>4, <1>6
  <2>3. QED
    BY <2>1, <2>2, Sending
<1>10. \A g \in Filters : /\ iter'[g].found = iter[g].found /\ iter'[g].fail = iter[g].fail
                          /\ iter'[g].unsub = iter[g].unsub /\ iter'[g].sub = iter[g].sub
  BY <1>3, <1>8
<1>11. iter'["erc20"].found = e /\ (f = "erc20" => c = 0 /\ m = e) /\ (f = "eth" => c = e)
  BY <1>4, <1>10 DEF Base, Filters
<1>12. InOrder'
  <2>1. \A i \in 1..l : rows'[i] = Expected(i)'
    BY <1>4, <1>9, <1>1, <1>10 DEF InOrder, Expected, Filters
  <2>2. rows'[l + 1] = Expected(l + 1)'
    <3>1. CASE f = "erc20"
      <4>1. l + 1 = k /\ k <= e
        BY <1>7, <1>11, <3>1
      <4>2. QED
        BY <1>9, <1>11, <3>1, <4>1 DEF Expected
    <3>2. CASE f = "eth"
      <4>1. l + 1 = e + k
        BY <1>7, <1>11, <3>2
      <4>2. k # 0
        BY <1>6
      <4>3. ~(l + 1 <= e) /\ (l + 1) - e = k
        BY <1>6, <4>1, <4>2
      <4>4. QED
        BY <1>9, <1>11, <3>2, <4>3 DEF Expected
    <3>3. QED
      BY <3>1, <3>2 DEF Filters
  <2>3. QED
    <3>1. \A i \in 1..(l + 1) : i \in 1..l \/ i = l + 1
      OBVIOUS
    <3>2. QED
      BY <1>9, <2>1, <2>2, <3>1 DEF InOrder
<1>13. TypeOK'
  BY <1>1, <1>8, <1>9 DEF ReadInv, TypeOK
<1>14. Progress'
  <2>1. Base(f)' = Base(f)
    BY <1>10 DEF Base, Filters
  <2>2. Len(rows') + Len(y.logs) = Base(f) + y.sent
    <3>1. (l + 1) + b = c + d
      BY <1>5
    <3>2. QED
      BY <1>3, <1>4, <1>9, <3>1
  <2>3. /\ f = "erc20" => iter'["eth"] = Fresh
        /\ f = "eth" => iter'["erc20"].sub = "ended"
    BY <1>1, <1>8 DEF Filters
  <2>4. QED
    BY <1>1, <1>3, <1>8, <2>1, <2>2, <2>3 DEF Progress
<1>15. ReadInv'
  BY <1>1, <1>8, <1>10, <1>12, <1>13, <1>14 DEF ReadInv
<1>16. \A g \in Filters :
         /\ Taken(g)' = IF g = f THEN Taken(g) + 1 ELSE Taken(g)
         /\ iter'[g].found = iter[g].found
         /\ Outcome(g)' = Outcome(g)
  <2>1. \A g : Taken(g) = Count(g)
    BY <1>1, RowsCounted
  <2>2. \A g : Taken(g)' = Count(g)'
    BY <1>12, <1>13, RowsCountedNext DEF TypeOK
  <2>3. \A g \in Filters : Count(g)' = IF g = f THEN Count(g) + 1 ELSE Count(g)
    <3> /\ Len(rows) = l /\ iter["erc20"].found = e
        /\ Len(rows') = l + 1 /\ iter'["erc20"].found = e
      BY <1>4, <1>9, <1>11
    <3>1. CASE f = "erc20"
      <4>1. l < e
        BY <1>7, <1>11, <3>1
      <4>2. /\ Count("erc20") = l /\ Count("erc20")' = l + 1
            /\ Count("eth") = 0 /\ Count("eth")' = 0
        BY <4>1 DEF Count
      <4>3. QED
        BY <3>1, <4>2 DEF Filters
    <3>2. CASE f = "eth"
      <4>1. l >= e
        <5>1. k >= 1
          BY <1>6
        <5>2. QED
          BY <1>5, <1>7, <1>11, <3>2, <5>1
      <4>2. /\ Count("erc20") = e /\ Count("erc20")' = e
            /\ Count("eth") = l - e /\ Count("eth")' = (l + 1) - e
        BY <4>1 DEF Count
      <4>3. QED
        BY <3>2, <4>2 DEF Filters
    <3>3. QED
      BY <3>1, <3>2 DEF Filters
  <2>4. \A g \in Filters : Outcome(g)' = Outcome(g)
    BY <1>1, <1>10 DEF Outcome, At
  <2>5. QED
    BY <1>10, <2>1, <2>2, <2>3, <2>4
<1>17. Outcome(f) = "reading" /\ Taken(f) < x.found
  <2>1. Taken(f) = Count(f)
    BY <1>1, RowsCounted
  <2>2. CASE f = "erc20"
    <3>1. l < e
      BY <1>7, <1>11, <2>2
    <3>2. QED
      BY <1>1, <1>4, <1>11, <2>1, <2>2, <3>1 DEF Outcome, At, Count
  <2>3. CASE f = "eth"
    <3>1. l >= e /\ l - e < m
      <4>1. k >= 1
        BY <1>6
      <4>2. QED
        BY <1>7, <1>11, <2>3, <4>1
    <3>2. m # 0 /\ 0 < m
      BY <3>1
    <3>3. QED
      BY <1>1, <1>4, <2>1, <2>3, <3>1, <3>2 DEF Outcome, At, Count
  <2>4. QED
    BY <2>2, <2>3 DEF Filters
<1>18. Read!Item(f)
  BY <1>16, <1>17 DEF Read!Item
<1>19. QED
  BY <1>15, <1>18

\* The log that cannot be read is lost, and the reader told.
LEMMA UnpackFailsSteps ==
  ASSUME ReadInv, NEW f \in Filters, UnpackFails(f)
  PROVE  ReadInv' /\ Read!Fail(f)
<1> DEFINE x == iter[f]
<1>1. /\ pc = "next" /\ current = f /\ pc' = "close" /\ current' = f /\ x.logs # << >>
      /\ rows' = rows /\ iter \in [Filters -> Iterator] /\ x \in Iterator /\ Feeds(x)
      /\ x.sub # "none" /\ ~x.unsub /\ ~x.fail /\ Len(x.logs) <= Capacity
      /\ f = "erc20" => iter["eth"] = Fresh
      /\ f = "eth" => iter["erc20"].sub = "ended"
  BY DEF ReadInv, TypeOK, Progress, UnpackFails, At, Go
<1>2. PICK t, y : /\ t = [x EXCEPT !.logs = Tail(@)] /\ y = [t EXCEPT !.fail = TRUE]
                  /\ iter' = [iter EXCEPT ![f] = y]
  BY DEF UnpackFails
<1>3. /\ y \in Iterator /\ Feeds(y) /\ Len(y.logs) + 1 = Len(x.logs)
      /\ y.found = x.found /\ y.sub = x.sub /\ y.fail
  <2>1. /\ t \in Iterator /\ Feeds(t) /\ Len(t.logs) + 1 = Len(x.logs)
        /\ t.found = x.found /\ t.sub = x.sub
    BY <1>1, <1>2, TakeFeeds
  <2>2. /\ y \in Iterator /\ y.found = t.found /\ y.sent = t.sent /\ y.logs = t.logs
        /\ y.sub = t.sub /\ y.unsub = t.unsub /\ y.done = t.done /\ y.fail
    BY <1>2, <2>1 DEF Iterator
  <2>3. Feeds(y)
    BY <2>1, <2>2 DEF Feeds
  <2>4. QED
    BY <2>1, <2>2, <2>3
<1>4. Len(y.logs) <= Capacity
  <2>1. PICK b \in Nat : b = Len(y.logs)
    BY <1>3, IteratorType
  <2>2. b + 1 <= Capacity
    BY <1>1, <1>3, <2>1
  <2>3. QED
    BY <2>1, <2>2, IteratorAssumption
<1>5. /\ iter' \in [Filters -> Iterator] /\ iter'[f] = y
      /\ \A g \in Filters : g # f => iter'[g] = iter[g]
      /\ \A g \in Filters : Feeds(iter'[g]) /\ Len(iter'[g].logs) <= Capacity
  BY <1>2, <1>3, <1>4, OneIterator DEF ReadInv
<1>6. \A g \in Filters : iter'[g].found = iter[g].found /\ iter'[g].sub = iter[g].sub
  BY <1>3, <1>5
<1>7. TypeOK' /\ InOrder'
  BY <1>1, <1>5, <1>6 DEF ReadInv, TypeOK, InOrder, Expected, Filters
<1>8. Progress'
  BY <1>1, <1>6, FreshFeeds DEF Progress, Filters
<1>9. ReadInv'
  BY <1>1, <1>5, <1>7, <1>8 DEF ReadInv
<1>10. \A g \in Filters : Taken(g)' = Taken(g)
  BY <1>1, <1>6 DEF Taken, Count, Expected, Filters
<1>11. \A g \in Filters : Outcome(g)' = IF g = f THEN "error" ELSE Outcome(g)
  BY <1>1, <1>3, <1>5 DEF Outcome, At
<1>12. Outcome(f) = "reading"
  BY <1>1 DEF Outcome, At
<1>13. Read!Fail(f)
  BY <1>6, <1>10, <1>11, <1>12 DEF Read!Fail, Read!Told
<1>14. QED
  BY <1>9, <1>13

\* Next learns of the end, and Close asks for it.
LEMMA EndSteps ==
  ASSUME ReadInv, NEW f \in Filters, LearnEnd(f) \/ Unsubscribe(f)
  PROVE  ReadInv' /\ UNCHANGED Read!vars
<1> DEFINE x == iter[f]
<1>1. /\ pc' = pc /\ current' = current /\ rows' = rows /\ iter \in [Filters -> Iterator]
      /\ x \in Iterator /\ Feeds(x) /\ Len(x.logs) <= Capacity
  BY DEF ReadInv, TypeOK, LearnEnd, Unsubscribe
<1>2. PICK y : /\ iter' = [iter EXCEPT ![f] = y]
               /\ \/ y = [x EXCEPT !.done = TRUE] /\ x.sub = "ended" /\ pc = "next"
                  \/ y = [x EXCEPT !.unsub = TRUE] /\ pc = "close"
  BY DEF LearnEnd, Unsubscribe, At
<1>3. /\ y \in Iterator /\ y.found = x.found /\ y.sent = x.sent /\ y.logs = x.logs
      /\ y.sub = x.sub /\ y.fail = x.fail
      /\ y.unsub = x.unsub \/ (pc = "close" /\ y.unsub /\ y.done = x.done)
      /\ y.unsub = x.unsub => x.sub = "ended" \/ y.done = x.done
  <2>1. CASE y = [x EXCEPT !.done = TRUE] /\ x.sub = "ended"
    BY <1>1, <2>1 DEF Iterator
  <2>2. CASE y = [x EXCEPT !.unsub = TRUE] /\ pc = "close"
    BY <1>1, <2>2 DEF Iterator
  <2>3. QED
    BY <1>2, <2>1, <2>2
<1>4. Feeds(y)
  BY <1>1, <1>3 DEF Feeds
<1>5. /\ iter' \in [Filters -> Iterator] /\ iter'[f] = y
      /\ \A g \in Filters : g # f => iter'[g] = iter[g]
      /\ \A g \in Filters : Feeds(iter'[g]) /\ Len(iter'[g].logs) <= Capacity
  BY <1>1, <1>2, <1>3, <1>4, OneIterator DEF ReadInv
<1>6. \A g \in Filters : /\ iter'[g].found = iter[g].found /\ iter'[g].sub = iter[g].sub
                         /\ iter'[g].sent = iter[g].sent /\ iter'[g].logs = iter[g].logs
                         /\ iter'[g].fail = iter[g].fail
                         /\ iter'[g].unsub = iter[g].unsub \/ pc = "close"
  BY <1>3, <1>5
<1>7. TypeOK' /\ InOrder'
  BY <1>1, <1>5, <1>6 DEF ReadInv, TypeOK, InOrder, Expected, Filters
<1>8. Progress'
  <2>1. CASE pc = "next"
    <3>1. current = f /\ f \in Filters
      BY <2>1 DEF LearnEnd, Unsubscribe, At
    <3>2. Base(current)' = Base(current)
      BY <1>1, <1>6 DEF Base, Filters
    <3>3. (f = "erc20" => iter'["eth"] = iter["eth"]) /\ (f = "eth" => iter'["erc20"] = iter["erc20"])
      BY <1>5 DEF Filters
    <3>4. QED
      BY <1>1, <1>6, <2>1, <3>1, <3>2, <3>3 DEF ReadInv, Progress
  <2>2. CASE pc = "close"
    BY <1>1, <1>6, <2>2 DEF ReadInv, Progress, Filters
  <2>3. QED
    BY <1>2, <2>1, <2>2
<1>9. ReadInv'
  BY <1>1, <1>5, <1>6, <1>7, <1>8 DEF ReadInv
<1>10. UNCHANGED Read!vars
  BY <1>1, <1>6, SameRead DEF Outcome, At
<1>11. QED
  BY <1>9, <1>10

\* The subscription has ended and the channel is empty: all logs are rows.
LEMMA ExhaustedSteps ==
  ASSUME ReadInv, NEW f \in Filters, Exhausted(f)
  PROVE  ReadInv' /\ Read!Finish(f)
<1> DEFINE x == iter[f]
<1>1. /\ pc = "next" /\ current = f /\ UNCHANGED <<iter, rows>>
      /\ x.done /\ x.logs = << >> /\ x \in Iterator /\ Feeds(x)
      /\ x.sub = "ended" /\ ~x.unsub /\ ~x.fail
      /\ Len(rows) + Len(x.logs) = Base(f) + x.sent
      /\ rows \in Seq(Filters \X (1..MaxLogs)) /\ InOrder /\ iter \in [Filters -> Iterator]
      /\ f = "erc20" => iter["eth"] = Fresh
      /\ f = "eth" => iter["erc20"].sub = "ended"
      /\ \A g \in Filters : ~iter[g].unsub /\ ~iter[g].fail
  BY DEF ReadInv, TypeOK, Progress, Exhausted, NothingLeft, At, Feeds
<1>2. /\ f = "erc20" => pc' = "filter" /\ current' = "eth"
      /\ f = "eth" => pc' = "save" /\ current' = "eth"
  BY DEF Exhausted, Go, Filters
<1>3. Len(rows) = Base(f) + x.found
  <2>1. PICK l \in Nat, c \in Nat, m \in Nat : l = Len(rows) /\ c = Base(f) /\ m = x.found
    <3>1. Len(rows) \in Nat /\ Base(f) \in Nat
      BY <1>1, IteratorType DEF Base, Filters
    <3>2. QED
      BY <1>1, <3>1, IteratorType
  <2>2. x.sent = m
    BY <1>1, <2>1 DEF Feeds
  <2>3. l + 0 = c + m
    BY <1>1, <2>1, <2>2
  <2>4. QED
    BY <2>1, <2>3
<1>4. ReadInv'
  <2>1. Progress'
    <3>1. CASE f = "erc20"
      <4>1. Len(rows) = iter["erc20"].found
        BY <1>1, <1>3, <3>1, IteratorType DEF Base
      <4>2. QED
        BY <1>1, <1>2, <3>1, <4>1 DEF Progress, Base
    <3>2. CASE f = "eth"
      BY <1>1, <1>2, <3>2 DEF Progress, Filters
    <3>3. QED
      BY <3>1, <3>2 DEF Filters
  <2>2. pc' \in {"idle", "filter", "next", "save", "close"} /\ current' \in Filters
    BY <1>2 DEF Filters
  <2>3. QED
    BY <1>1, <2>1, <2>2, MovesOn
<1>5. \A g \in Filters : /\ Taken(g)' = Taken(g)
                         /\ Outcome(g)' = IF g = f THEN "ok" ELSE Outcome(g)
  <2>1. \A g \in Filters : Taken(g)' = Taken(g)
    BY <1>1 DEF Taken, Count, Expected
  <2>2. \A g \in Filters : Outcome(g)' = IF g = f THEN "ok" ELSE Outcome(g)
    <3>1. CASE f = "erc20"
      BY <1>1, <1>2, <3>1, FreshFeeds DEF Outcome, At, Filters
    <3>2. CASE f = "eth"
      BY <1>1, <1>2, <3>2 DEF Outcome, At, Filters
    <3>3. QED
      BY <3>1, <3>2 DEF Filters
  <2>3. QED
    BY <2>1, <2>2
<1>6. Outcome(f) = "reading" /\ Taken(f) = x.found
  <2>1. Taken(f) = Count(f) /\ iter["erc20"].found \in Nat /\ x.found \in Nat
    BY <1>1, RowsCounted, IteratorType DEF Filters
  <2>2. Count(f) = x.found
    BY <1>1, <1>3, <2>1 DEF Count, Base, Filters
  <2>3. QED
    BY <1>1, <2>1, <2>2 DEF Outcome, At
<1>7. Read!Finish(f)
  BY <1>1, <1>5, <1>6 DEF Read!Finish, Read!Told
<1>8. QED
  BY <1>4, <1>7

\* Ends that the reads do not see.
LEMMA QuietSteps ==
  ASSUME ReadInv,
         \/ Save
         \/ \E f \in Filters : FilterFails(f) \/ Closed(f)
  PROVE  ReadInv' /\ UNCHANGED Read!vars
<1>1. /\ UNCHANGED <<iter, rows>> /\ pc \in {"filter", "save", "close"}
      /\ pc' \in {"idle", "close"} /\ current' \in Filters
      /\ iter \in [Filters -> Iterator]
  BY DEF ReadInv, TypeOK, Save, FilterFails, Closed, At, Go, Filters
<1>2. Progress'
  <2>1. CASE Save
    BY <1>1, <2>1, FreshFeeds DEF ReadInv, Progress, Save, Go, Filters
  <2>2. CASE \E f \in Filters : FilterFails(f)
    BY <1>1, <2>2, FreshFeeds DEF ReadInv, Progress, FilterFails, At, Go, Filters
  <2>3. CASE \E f \in Filters : Closed(f)
    BY <1>1, <2>3 DEF ReadInv, Progress, Closed, Gone, At, Go, Filters
  <2>4. QED
    BY <2>1, <2>2, <2>3
<1>3. ReadInv'
  BY <1>1, <1>2, MovesOn
<1>4. \A f \in Filters : Outcome(f)' = Outcome(f)
  BY <1>1 DEF Outcome, At
<1>5. UNCHANGED Read!vars
  BY <1>1, <1>4, SameRead
<1>6. QED
  BY <1>3, <1>5

\* Nothing is being read at the beginning, when a range begins and after a crash.
LEMMA NothingRead ==
  /\ Init => ReadInv /\ Read!Init
  /\ \A where \in {"filter", "idle"} : Reset(where) => ReadInv' /\ Read!Reset
<1>1. /\ Fresh \in Iterator /\ Feeds(Fresh) /\ Fresh.logs = << >> /\ Fresh.found = 0 /\ Fresh.sent = 0
      /\ Fresh.sub = "none" /\ ~Fresh.unsub /\ ~Fresh.done /\ ~Fresh.fail
  BY FreshFeeds
<1>2. << >> \in Seq(Filters \X (1..MaxLogs)) /\ Len(<< >>) = 0 /\ DOMAIN << >> = 1..0
  OBVIOUS
<1>3. ASSUME Init PROVE ReadInv /\ Read!Init
  <2>1. ReadInv
    BY <1>1, <1>2, <1>3, IteratorAssumption
       DEF Init, ReadInv, TypeOK, InOrder, Progress, Filters
  <2>2. \A f \in Filters : Taken(f) = 0 /\ Outcome(f) = "none" /\ iter[f].found = 0
    BY <1>1, <1>2, <1>3 DEF Init, Taken, Count, Outcome, Filters
  <2>3. QED
    BY <2>1, <2>2 DEF Read!Init
<1>4. ASSUME NEW where \in {"filter", "idle"}, Reset(where) PROVE ReadInv' /\ Read!Reset
  <2>1. /\ pc' = where /\ current' = "erc20" /\ iter' = [f \in Filters |-> Fresh] /\ rows' = << >>
    BY <1>4 DEF Reset, Go
  <2>2. ReadInv'
    BY <1>1, <1>2, <2>1, IteratorAssumption
       DEF ReadInv, TypeOK, InOrder, Progress, Filters, Base
  <2>3. \A f \in Filters : Taken(f)' = 0 /\ Outcome(f)' = "none" /\ iter'[f].found = 0
    BY <1>1, <1>2, <2>1 DEF Taken, Count, Outcome, Filters
  <2>4. QED
    BY <2>2, <2>3 DEF Read!Reset
<1>5. QED
  BY <1>3, <1>4

\* Every step keeps the invariant and is a step of the ordered read or none.
LEMMA ReadSteps == ReadInv /\ [Next]_vars => ReadInv' /\ [Read!Next]_(Read!vars)
<1> SUFFICES ASSUME ReadInv, [Next]_vars
             PROVE  ReadInv' /\ (Read!Next \/ UNCHANGED Read!vars)
  OBVIOUS
<1>1. CASE \E f \in Filters : Producer(f)
  BY <1>1, ProducerSteps
<1>2. CASE Begin \/ Crash
  BY <1>2, NothingRead DEF Begin, Crash, Read!Next
<1>3. CASE \E f \in Filters : Filter(f)
  BY <1>3, FilterSteps DEF Read!Next
<1>4. CASE \E f \in Filters : Take(f)
  BY <1>4, TakeSteps DEF Read!Next
<1>5. CASE \E f \in Filters : UnpackFails(f)
  BY <1>5, UnpackFailsSteps DEF Read!Next
<1>6. CASE \E f \in Filters : LearnEnd(f) \/ Unsubscribe(f)
  BY <1>6, EndSteps
<1>7. CASE \E f \in Filters : Exhausted(f)
  BY <1>7, ExhaustedSteps DEF Read!Next
<1>8. CASE Save \/ \E f \in Filters : FilterFails(f) \/ Closed(f)
  BY <1>8, QuietSteps
<1>9. CASE UNCHANGED vars
  <2>1. ReadInv'
    BY <1>9 DEF vars, ReadInv, TypeOK, InOrder, Expected, Progress, Base
  <2>2. UNCHANGED Read!vars
    BY <1>9, SameRead DEF vars, Outcome, At
  <2>3. QED
    BY <2>1, <2>2
<1>10. QED
  BY <1>1, <1>2, <1>3, <1>4, <1>5, <1>6, <1>7, <1>8, <1>9
     DEF Next, Reader, FilterERC20DepositInitiated, FilterETHDepositInitiated, NextERC20, NextETH,
         Close, Filters

\* The variables of syncWithRange and its iterators have their types, and a
\* channel never holds more logs than it has room for.
THEOREM IteratorTypes == Spec => []TypeOK
<1>1. Init => ReadInv
  BY NothingRead
<1>2. ReadInv => TypeOK
  BY DEF ReadInv
<1>3. QED
  BY <1>1, <1>2, ReadSteps, PTL DEF Spec

\* When syncWithRange has returned, no goroutine of its iterators is left, also
\* after an error with a full channel (the deferred calls of Close).
THEOREM GoroutinesEnd == Spec => []NoGoroutineLeft
<1>1. Init => ReadInv
  BY NothingRead
<1>2. ReadInv => NoGoroutineLeft
  BY DEF ReadInv, Progress, NoGoroutineLeft
<1>3. QED
  BY <1>1, <1>2, ReadSteps, PTL DEF Spec

\* A filter yields all logs of the answer in the order of the chain, or an
\* error, although the end of the subscription races with the logs that are
\* left in the channel (Next of the two iterators).
THEOREM LogsAreRead == Spec => NoLogLost
<1>1. Init => ReadInv /\ Read!Init
  BY NothingRead
<1>2. QED
  BY <1>1, ReadSteps, PTL DEF Spec, NoLogLost, Read!Spec

-----------------------------------------------------------------------------
(* The invariant of the streams *)

\* The loop that ranges over the stream s works on a row: 1, or 0.
Working(s) == IF loop = "work" /\ at = s THEN 1 ELSE 0

\* The rows and errors of a stream that were sent; g is 1 if one of them is being worked on.
Sent(x, g) == Len(x.handled) + g + Len(x.channel)

\* No error was sent: the items are the rows one after the other, and r is the
\* one that is worked on.
Whole(x, g, r) ==
  /\ g = 1 => r = Len(x.handled) + 1
  /\ \A i \in 1..Len(x.channel) : x.channel[i] = Len(x.handled) + g + i
  /\ IF x.producer = "offer"
     THEN \/ x.item = Failed /\ x.next = Sent(x, g) + 1
          \/ x.item = Sent(x, g) + 1 /\ x.next = Sent(x, g) + 2
     ELSE x.next = Sent(x, g) + 1
  /\ x.producer \in {"close", "none"} => x.ended

\* An error was sent, and it is the last item.
Broken(x, g, r) ==
  /\ x.producer \in {"close", "none"} /\ ~x.ended
  /\ IF x.channel = << >> THEN g = 1 /\ r = Failed
     ELSE /\ g = 1 => r = Len(x.handled) + 1
          /\ x.channel[Len(x.channel)] = Failed
          /\ \A i \in 1..(Len(x.channel) - 1) : x.channel[i] = Len(x.handled) + g + i

\* The rows that were handled are the first ones, and as long as the context is
\* live nothing is missing behind them.
Flow(x, g, r) ==
  /\ \A i \in 1..Len(x.handled) : x.handled[i] = i
  /\ x.ctx = "live" => Whole(x, g, r) \/ Broken(x, g, r)
  /\ x.ended => x.producer \in {"close", "none"}
  /\ x.closed => x.producer = "none"

\* A stream is read exactly as long as the loop ranges over it, and its context
\* is live no longer than that.
StreamInv ==
  /\ StreamTypeOK
  /\ \A s \in Streams :
       /\ Flow(stream[s], Working(s), got)
       /\ stream[s].result = "reading" <=> loop # "idle" /\ at = s
       /\ stream[s].ctx = "live" => stream[s].result = "reading"
       /\ stream[s].result = "reading" => stream[s].ctx # "returned"

-----------------------------------------------------------------------------
(* One stream *)

LEMMA StreamType ==
  ASSUME NEW x \in Stream
  PROVE  /\ x.producer \in {"none", "query", "rows", "offer", "close"}
         /\ x.next \in 1..NumRows + 1 /\ x.next \in Nat /\ x.item \in 0..NumRows /\ x.item \in Nat
         /\ x.channel \in Seq(Item) /\ Len(x.channel) \in Nat
         /\ x.handled \in Seq(Item) /\ Len(x.handled) \in Nat
         /\ x.closed \in BOOLEAN /\ x.ended \in BOOLEAN
         /\ x.ctx \in {"live", "timeout", "returned"}
         /\ x.result \in {"none", "reading", "ok", "error"}
         /\ \A i \in 1..Len(x.channel) : x.channel[i] \in Nat
         /\ \A i \in 1..Len(x.handled) : x.handled[i] \in 0..NumRows
<1>1. /\ x.producer \in {"none", "query", "rows", "offer", "close"}
      /\ x.next \in 1..NumRows + 1 /\ x.item \in Item
      /\ x.channel \in Seq(Item) /\ x.handled \in Seq(Item)
      /\ x.closed \in BOOLEAN /\ x.ended \in BOOLEAN
      /\ x.ctx \in {"live", "timeout", "returned"}
      /\ x.result \in {"none", "reading", "ok", "error"}
  BY DEF Stream
<1>2. x.next \in Nat /\ x.item \in 0..NumRows /\ x.item \in Nat
  BY <1>1, StreamAssumption DEF Item
<1>3. Len(x.channel) \in Nat /\ Len(x.handled) \in Nat
  BY <1>1
<1>4. /\ \A i \in 1..Len(x.channel) : x.channel[i] \in Item
      /\ \A i \in 1..Len(x.handled) : x.handled[i] \in Item
  BY <1>1, <1>3
<1>5. QED
  BY <1>1, <1>2, <1>3, <1>4, StreamAssumption DEF Item

LEMMA OpenedFlows ==
  /\ Opened \in Stream /\ Unused \in Stream
  /\ \A r : Flow(Opened, 0, r)
  /\ \A r : Flow(Unused, 0, r)
<1>1. << >> \in Seq(Item) /\ Len(<< >>) = 0 /\ 1 \in 1..NumRows + 1 /\ Failed \in Item
  BY StreamAssumption DEF Item, Failed
<1>2. Opened \in Stream /\ Unused \in Stream
  BY <1>1 DEF Opened, Unused, Stream
<1>3. \A r : Flow(Opened, 0, r)
  BY <1>1 DEF Opened, Flow, Whole, Sent, Failed
<1>4. \A r : Flow(Unused, 0, r)
  <2>1. /\ Unused.handled = << >> /\ Unused.ctx = "returned" /\ Unused.ended = FALSE
        /\ Unused.closed = FALSE
    BY DEF Opened, Unused
  <2>2. QED
    BY <1>1, <2>1 DEF Flow
<1>5. QED
  BY <1>2, <1>3, <1>4

\* A step of the producer that sends nothing.
LEMMA QueryFlows ==
  ASSUME NEW x \in Stream, NEW g \in {0, 1}, NEW r, Flow(x, g, r), x.producer = "query",
         NEW y, \/ y = [x EXCEPT !.producer = "rows"]
                \/ y = [x EXCEPT !.producer = "offer", !.item = Failed]
  PROVE  y \in Stream /\ Flow(y, g, r)
<1>1. y \in Stream
  <2>1. Failed \in Item
    BY StreamAssumption DEF Item, Failed
  <2>2. QED
    BY <2>1 DEF Stream
<1>2. /\ y.handled = x.handled /\ y.channel = x.channel /\ y.next = x.next /\ y.ctx = x.ctx
      /\ y.ended = x.ended /\ y.closed = x.closed
      /\ y.producer = "rows" \/ (y.producer = "offer" /\ y.item = Failed)
  <2>1. CASE y = [x EXCEPT !.producer = "rows"]
    BY <2>1 DEF Stream
  <2>2. CASE y = [x EXCEPT !.producer = "offer", !.item = Failed]
    BY <2>2 DEF Stream
  <2>3. QED
    BY <2>1, <2>2
<1>3. x.ctx = "live" => Whole(y, g, r)
  BY <1>2 DEF Flow, Whole, Broken, Sent
<1>4. QED
  BY <1>1, <1>2, <1>3 DEF Flow

\* The next row, an error, or the end: nothing is missing before it.
LEMMA RowsFlow ==
  ASSUME NEW x \in Stream, NEW g \in {0, 1}, NEW r, Flow(x, g, r), x.producer = "rows",
         NEW y,
         \/ x.next <= NumRows /\ y = [x EXCEPT !.producer = "offer", !.item = x.next, !.next = @ + 1]
         \/ y = [x EXCEPT !.producer = "offer", !.item = Failed]
         \/ y = [x EXCEPT !.producer = "close", !.ended = x.ctx = "live"]
  PROVE  y \in Stream /\ Flow(y, g, r)
<1>1. CASE x.next <= NumRows /\ y = [x EXCEPT !.producer = "offer", !.item = x.next, !.next = @ + 1]
  <2>1. x.next \in Item /\ x.next + 1 \in 1..NumRows + 1
    BY <1>1, StreamAssumption, StreamType DEF Item
  <2>2. y \in Stream
    BY <1>1, <2>1 DEF Stream
  <2>3. /\ y.handled = x.handled /\ y.channel = x.channel /\ y.next = x.next + 1 /\ y.ctx = x.ctx
        /\ y.ended = x.ended /\ y.closed = x.closed
        /\ y.producer = "offer" /\ y.item = x.next
    BY <1>1 DEF Stream
  <2>4. ASSUME x.ctx = "live" PROVE Whole(y, g, r)
    <3>1. Whole(x, g, r)
      BY <2>4 DEF Flow, Broken
    <3>2. Sent(y, g) = Sent(x, g)
      BY <2>3 DEF Sent
    <3>3. PICK k \in Nat, n \in Nat : k = Len(x.handled) /\ n = Len(x.channel)
      BY StreamType
    <3>4. PICK m \in Nat : m = Sent(x, g)
      BY <3>3 DEF Sent
    <3>5. x.next = m + 1
      BY <3>1, <3>4 DEF Whole
    <3>6. y.item = Sent(y, g) + 1 /\ y.next = Sent(y, g) + 2
      BY <2>3, <3>2, <3>4, <3>5
    <3>7. /\ g = 1 => r = Len(y.handled) + 1
          /\ \A i \in 1..Len(y.channel) : y.channel[i] = Len(y.handled) + g + i
      BY <2>3, <3>1 DEF Whole
    <3>8. QED
      BY <2>3, <3>6, <3>7 DEF Whole
  <2>5. QED
    BY <2>2, <2>3, <2>4 DEF Flow
<1>2. CASE y = [x EXCEPT !.producer = "offer", !.item = Failed]
  <2>1. y \in Stream
    <3>1. Failed \in Item
      BY StreamAssumption DEF Item, Failed
    <3>2. QED
      BY <1>2, <3>1 DEF Stream
  <2>2. /\ y.handled = x.handled /\ y.channel = x.channel /\ y.next = x.next /\ y.ctx = x.ctx
        /\ y.ended = x.ended /\ y.closed = x.closed
        /\ y.producer = "offer" /\ y.item = Failed
    BY <1>2 DEF Stream
  <2>3. QED
    BY <2>1, <2>2, StreamType DEF Flow, Whole, Broken, Sent
<1>3. CASE y = [x EXCEPT !.producer = "close", !.ended = x.ctx = "live"]
  <2>1. y \in Stream
    BY <1>3 DEF Stream
  <2>2. /\ y.handled = x.handled /\ y.channel = x.channel /\ y.next = x.next /\ y.ctx = x.ctx
        /\ y.ended = (x.ctx = "live") /\ y.closed = x.closed
        /\ y.producer = "close"
    BY <1>3 DEF Stream
  <2>3. QED
    BY <2>1, <2>2, StreamType DEF Flow, Whole, Broken, Sent
<1>4. QED
  BY <1>1, <1>2, <1>3

\* The producer sends what it offers, or leaves the offer since the context ended.
LEMMA OfferFlows ==
  ASSUME NEW x \in Stream, NEW g \in {0, 1}, NEW r, Flow(x, g, r), x.producer = "offer",
         NEW p, p = IF x.item = Failed THEN "close" ELSE "rows",
         NEW y, \/ y = [x EXCEPT !.producer = p, !.channel = Append(@, x.item)]
                \/ y = [x EXCEPT !.producer = p] /\ x.ctx # "live"
  PROVE  y \in Stream /\ Flow(y, g, r)
<1>1. p \in {"close", "rows"} /\ ~x.ended /\ ~x.closed
  BY StreamType DEF Flow
<1>2. CASE y = [x EXCEPT !.producer = p, !.channel = Append(@, x.item)]
  <2>1. Append(x.channel, x.item) \in Seq(Item) /\ x.item \in Item
    BY StreamType DEF Item
  <2>2. y \in Stream
    BY <1>1, <1>2, <2>1 DEF Stream
  <2>3. /\ y.handled = x.handled /\ y.next = x.next /\ y.ctx = x.ctx
        /\ y.ended = x.ended /\ y.closed = x.closed /\ y.producer = p
        /\ y.channel = Append(x.channel, x.item)
    BY <1>2 DEF Stream
  <2>4. PICK k \in Nat, n \in Nat : k = Len(x.handled) /\ n = Len(x.channel)
    BY StreamType
  <2>5. /\ Len(y.channel) = n + 1
        /\ \A i \in 1..n : y.channel[i] = x.channel[i]
        /\ y.channel[n + 1] = x.item /\ y.channel # << >>
    <3>1. x.channel \in Seq(Item)
      BY StreamType
    <3>2. QED
      BY <2>1, <2>3, <2>4, <3>1, Sending
  <2>6. ASSUME x.ctx = "live" PROVE Whole(y, g, r) \/ Broken(y, g, r)
    <3>1. PICK m \in Nat : m = k + g
      OBVIOUS
    <3>2. Sent(x, g) = m + n /\ Sent(y, g) = m + (n + 1)
      BY <2>3, <2>4, <2>5, <3>1 DEF Sent
    <3>3. /\ g = 1 => r = k + 1
          /\ \A i \in 1..n : x.channel[i] = m + i
          /\ \/ x.item = Failed /\ x.next = m + n + 1
             \/ x.item = m + n + 1 /\ x.next = m + n + 2
      <4>1. Whole(x, g, r)
        BY <2>6 DEF Flow, Broken
      <4>2. \A i \in 1..n : x.channel[i] = k + g + i
        BY <2>4, <4>1 DEF Whole
      <4>3. QED
        BY <2>4, <3>1, <3>2, <4>1, <4>2 DEF Whole
    <3>4. \A i \in 1..n : y.channel[i] = m + i
      BY <2>5, <3>3
    <3>5. CASE x.item = Failed
      <4>1. \A i \in 1..(Len(y.channel) - 1) : y.channel[i] = Len(y.handled) + g + i
        BY <2>3, <2>4, <2>5, <3>1, <3>4
      <4>2. y.channel[Len(y.channel)] = Failed /\ (g = 1 => r = Len(y.handled) + 1)
        BY <2>3, <2>4, <2>5, <3>3, <3>5
      <4>3. y.producer = "close" /\ ~y.ended
        BY <1>1, <2>3, <3>5
      <4>4. QED
        BY <2>5, <4>1, <4>2, <4>3 DEF Broken
    <3>6. CASE x.item # Failed
      <4>1. x.item = m + n + 1 /\ x.next = m + n + 2
        BY <3>3, <3>6
      <4>2. y.next = Sent(y, g) + 1
        BY <2>3, <3>2, <4>1
      <4>3. \A i \in 1..Len(y.channel) : y.channel[i] = Len(y.handled) + g + i
        <5>1. y.channel[n + 1] = m + (n + 1)
          BY <2>5, <4>1
        <5>2. \A i \in 1..(n + 1) : y.channel[i] = m + i
          BY <3>4, <5>1
        <5>3. QED
          BY <2>3, <2>4, <2>5, <3>1, <5>2
      <4>4. y.producer = "rows" /\ (g = 1 => r = Len(y.handled) + 1)
        BY <2>3, <2>4, <3>3, <3>6
      <4>5. QED
        BY <4>2, <4>3, <4>4 DEF Whole
    <3>7. QED
      BY <3>5, <3>6
  <2>7. QED
    BY <1>1, <2>2, <2>3, <2>6 DEF Flow
<1>3. CASE y = [x EXCEPT !.producer = p] /\ x.ctx # "live"
  <2>1. y \in Stream
    BY <1>1, <1>3 DEF Stream
  <2>2. /\ y.handled = x.handled /\ y.ctx = x.ctx /\ y.ended = x.ended /\ y.closed = x.closed
    BY <1>3 DEF Stream
  <2>3. QED
    BY <1>1, <1>3, <2>1, <2>2 DEF Flow
<1>4. QED
  BY <1>2, <1>3

\* The channel is closed.
LEMMA CloseFlows ==
  ASSUME NEW x \in Stream, NEW g \in {0, 1}, NEW r, Flow(x, g, r), x.producer = "close",
         NEW y, y = [x EXCEPT !.producer = "none", !.closed = TRUE]
  PROVE  y \in Stream /\ Flow(y, g, r)
<1>1. y \in Stream
  BY DEF Stream
<1>2. /\ y.handled = x.handled /\ y.channel = x.channel /\ y.next = x.next /\ y.ctx = x.ctx
      /\ y.ended = x.ended /\ y.producer = "none"
  BY DEF Stream
<1>3. Sent(y, g) = Sent(x, g)
  BY <1>2 DEF Sent
<1>4. (Whole(x, g, r) => Whole(y, g, r)) /\ (Broken(x, g, r) => Broken(y, g, r))
  BY <1>2, <1>3 DEF Whole, Broken
<1>5. QED
  BY <1>1, <1>2, <1>4 DEF Flow

\* The loop takes the first item out of the channel ...
LEMMA ReceiveFlows ==
  ASSUME NEW x \in Stream, NEW r, Flow(x, 0, r), x.channel # << >>,
         NEW y, y = [x EXCEPT !.channel = Tail(@)]
  PROVE  y \in Stream /\ Flow(y, 1, Head(x.channel)) /\ Head(x.channel) \in Item
<1>1. PICK k \in Nat, n \in Nat : k = Len(x.handled) /\ n = Len(x.channel)
  BY StreamType
<1>2. PICK c \in Seq(Item) : c = x.channel
  BY StreamType
<1>3. PICK h \in Item : h = Head(c)
  BY <1>1, <1>2, Taking
<1>4. /\ n # 0 /\ h = c[1] /\ Tail(c) \in Seq(Item) /\ Len(Tail(c)) = n - 1
      /\ \A i \in 1..(n - 1) : Tail(c)[i] = c[i + 1]
  BY <1>1, <1>2, <1>3, Taking
<1>5. Tail(c) = << >> <=> n = 1
  BY <1>1, <1>2, Taking
<1>6. y \in Stream
  BY <1>2, <1>4 DEF Stream
<1>7. /\ y.handled = x.handled /\ y.next = x.next /\ y.ctx = x.ctx /\ y.item = x.item
      /\ y.ended = x.ended /\ y.closed = x.closed /\ y.producer = x.producer
      /\ y.channel = Tail(c)
  BY <1>2 DEF Stream
<1>8. Sent(x, 0) = k + n /\ Sent(y, 1) = k + n
  <2>1. Sent(x, 0) = k + 0 + n /\ Sent(y, 1) = k + 1 + (n - 1)
    BY <1>1, <1>4, <1>7 DEF Sent
  <2>2. QED
    BY <2>1
<1>9. ASSUME Whole(x, 0, r) PROVE Whole(y, 1, h)
  <2>1. \A i \in 1..n : c[i] = k + i
    <3>1. \A i \in 1..n : c[i] = k + 0 + i
      BY <1>1, <1>2, <1>9 DEF Whole
    <3>2. QED
      BY <3>1
  <2>2. \A i \in 1..(n - 1) : Tail(c)[i] = k + 1 + i
    <3>1. TAKE i \in 1..(n - 1)
    <3>2. i + 1 \in 1..n /\ k + (i + 1) = k + 1 + i
      OBVIOUS
    <3>3. QED
      BY <1>4, <2>1, <3>2
  <2>3. h = k + 1
    BY <1>4, <2>1
  <2>4. \A i \in 1..Len(y.channel) : y.channel[i] = Len(y.handled) + 1 + i
    BY <1>1, <1>4, <1>7, <2>2
  <2>5. h = Len(y.handled) + 1
    BY <1>1, <1>7, <2>3
  <2>6. Sent(y, 1) = Sent(x, 0)
    BY <1>8
  <2>7. QED
    BY <1>7, <1>9, <2>4, <2>5, <2>6 DEF Whole
<1>10. ASSUME Broken(x, 0, r) PROVE Broken(y, 1, h)
  <2>1. /\ c[n] = Failed
        /\ \A i \in 1..(n - 1) : c[i] = k + i
    <3>1. /\ c[n] = Failed
          /\ \A i \in 1..(n - 1) : c[i] = k + 0 + i
      BY <1>1, <1>2, <1>10 DEF Broken
    <3>2. QED
      BY <3>1
  <2>2. y.producer \in {"close", "none"} /\ ~y.ended
    BY <1>7, <1>10 DEF Broken
  <2>3. CASE n = 1
    BY <1>4, <1>5, <1>7, <2>1, <2>2, <2>3 DEF Broken
  <2>4. CASE n # 1
    <3>1. h = k + 1 /\ Tail(c)[n - 1] = Failed
      <4>1. 1 \in 1..(n - 1) /\ n - 1 \in 1..(n - 1) /\ (n - 1) + 1 = n
        BY <1>4, <2>4
      <4>2. QED
        BY <1>4, <2>1, <4>1
    <3>2. \A i \in 1..(n - 1 - 1) : Tail(c)[i] = k + 1 + i
      <4>1. TAKE i \in 1..(n - 1 - 1)
      <4>2. i \in 1..(n - 1) /\ i + 1 \in 1..(n - 1) /\ k + (i + 1) = k + 1 + i
        OBVIOUS
      <4>3. QED
        BY <1>4, <2>1, <4>2
    <3>3. /\ y.channel[Len(y.channel)] = Failed /\ y.channel # << >>
          /\ h = Len(y.handled) + 1
      BY <1>1, <1>4, <1>5, <1>7, <2>4, <3>1
    <3>4. \A i \in 1..(Len(y.channel) - 1) : y.channel[i] = Len(y.handled) + 1 + i
      BY <1>1, <1>4, <1>7, <3>2
    <3>5. QED
      BY <2>2, <3>3, <3>4 DEF Broken
  <2>5. QED
    BY <2>3, <2>4
<1>11. Flow(y, 1, h)
  BY <1>7, <1>9, <1>10 DEF Flow
<1>12. QED
  BY <1>2, <1>3, <1>6, <1>11

\* ... and has worked on it.
LEMMA WorkFlows ==
  ASSUME NEW x \in Stream, NEW r \in Item, Flow(x, 1, r), r # Failed, x.ctx = "live",
         NEW y, y = [x EXCEPT !.handled = Append(@, r)]
  PROVE  /\ y \in Stream /\ Flow(y, 0, r)
         /\ r = Len(x.handled) + 1 /\ Len(y.handled) = Len(x.handled) + 1
         /\ x.ended => Len(x.handled) < x.next - 1
<1>1. PICK k \in Nat, n \in Nat : k = Len(x.handled) /\ n = Len(x.channel)
  BY StreamType
<1>2. PICK d \in Seq(Item) : d = x.handled
  BY StreamType
<1>3. Append(d, r) \in Seq(Item) /\ Len(Append(d, r)) = k + 1 /\ Append(d, r)[k + 1] = r
  BY <1>1, <1>2, Sending
<1>4. \A i \in 1..k : Append(d, r)[i] = d[i]
  BY <1>1, <1>2, Sending
<1>5. y \in Stream
  BY <1>2, <1>3 DEF Stream
<1>6. /\ y.channel = x.channel /\ y.next = x.next /\ y.ctx = x.ctx /\ y.item = x.item
      /\ y.ended = x.ended /\ y.closed = x.closed /\ y.producer = x.producer
      /\ y.handled = Append(d, r)
  BY <1>2 DEF Stream
<1>7. Sent(x, 1) = k + 1 + n /\ Sent(y, 0) = k + 1 + n
  <2>1. Sent(x, 1) = k + 1 + n /\ Sent(y, 0) = k + 1 + 0 + n
    BY <1>1, <1>3, <1>6 DEF Sent
  <2>2. QED
    BY <2>1
<1>8. r = k + 1
  BY <1>1 DEF Flow, Whole, Broken
<1>9. \A i \in 1..Len(y.handled) : y.handled[i] = i
  <2>1. \A i \in 1..k : d[i] = i
    BY <1>1, <1>2 DEF Flow
  <2>2. \A i \in 1..(k + 1) : Append(d, r)[i] = i
    BY <1>3, <1>4, <1>8, <2>1
  <2>3. QED
    BY <1>3, <1>6, <2>2
<1>10. ASSUME NEW j, \A i \in 1..j : x.channel[i] = k + 1 + i, j \in Nat
       PROVE  \A i \in 1..j : y.channel[i] = Len(y.handled) + 0 + i
  <2>1. \A i \in 1..j : y.channel[i] = k + 1 + 0 + i
    BY <1>6, <1>10
  <2>2. QED
    BY <1>3, <1>6, <2>1
<1>11. ASSUME Whole(x, 1, r) PROVE Whole(y, 0, r)
  <2>1. \A i \in 1..n : x.channel[i] = k + 1 + i
    BY <1>1, <1>11 DEF Whole
  <2>2. \A i \in 1..Len(y.channel) : y.channel[i] = Len(y.handled) + 0 + i
    BY <1>1, <1>6, <1>10, <2>1
  <2>3. Sent(y, 0) = Sent(x, 1)
    BY <1>7
  <2>4. QED
    BY <1>6, <1>11, <2>2, <2>3 DEF Whole
<1>12. ASSUME Broken(x, 1, r) PROVE Broken(y, 0, r)
  <2>1. /\ x.channel # << >> /\ x.channel[n] = Failed
        /\ x.producer \in {"close", "none"} /\ ~x.ended
    BY <1>1, <1>12 DEF Broken
  <2>2. n # 0 /\ n - 1 \in Nat
    <3>1. x.channel \in Seq(Item)
      BY StreamType
    <3>2. QED
      BY <1>1, <2>1, <3>1, EmptySeq
  <2>3. \A i \in 1..(n - 1) : x.channel[i] = k + 1 + i
    BY <1>1, <1>12, <2>1 DEF Broken
  <2>4. \A i \in 1..(Len(y.channel) - 1) : y.channel[i] = Len(y.handled) + 0 + i
    BY <1>1, <1>6, <1>10, <2>2, <2>3
  <2>5. QED
    BY <1>1, <1>6, <2>1, <2>4 DEF Broken
<1>13. Flow(y, 0, r)
  BY <1>6, <1>9, <1>11, <1>12 DEF Flow
<1>14. x.ended => k < x.next - 1
  <2>1. ASSUME x.ended PROVE k < x.next - 1
    <3>1. x.next = k + 1 + n + 1
      BY <1>7, <2>1 DEF Flow, Whole, Broken
    <3>2. QED
      BY <3>1
  <2>2. QED
    BY <2>1
<1>15. QED
  BY <1>1, <1>3, <1>5, <1>6, <1>8, <1>13, <1>14

\* Once its context has ended, nothing that happens to a stream matters.
LEMMA EndedFlows ==
  ASSUME NEW x, NEW g, NEW r, Flow(x, g, r),
         NEW y, y.ctx # "live", NEW h, NEW q,
         y.handled = x.handled /\ y.ended = x.ended /\ y.closed = x.closed /\ y.producer = x.producer
  PROVE  Flow(y, h, q)
  BY DEF Flow

\* What the abstract reader of a stream has read, and how much there is to read.
LEMMA ReadBounds ==
  ASSUME NEW x \in Stream, NEW g \in {0, 1}, NEW r, Flow(x, g, r)
  PROVE  /\ Handled(x) = Len(x.handled) /\ Handled(x) \in 0..NumRows
         /\ Total(x) \in Nat
         /\ x.ctx = "live" => Handled(x) <= Total(x) /\ Total(x) <= NumRows
<1>1. PICK k \in Nat, n \in Nat : k = Len(x.handled) /\ n = Len(x.channel)
  BY StreamType
<1>2. x.next \in 1..NumRows + 1 /\ NumRows \in Nat
  BY StreamType, StreamAssumption
<1>3. \A i \in 1..k : x.handled[i] = i /\ x.handled[i] \in 0..NumRows
  BY <1>1, StreamType DEF Flow
<1>4. k \in 0..NumRows
  <2>1. CASE k = 0
    BY <1>2, <2>1
  <2>2. CASE k # 0
    <3>1. k \in 1..k
      BY <2>2
    <3>2. QED
      BY <1>3, <3>1
  <2>3. QED
    BY <2>1, <2>2
<1>5. DOMAIN x.handled = 1..k
  <2>1. x.handled \in Seq(Item)
    BY StreamType
  <2>2. QED
    BY <1>1, <2>1
<1>6. Handled(x) = k
  BY <1>1, <1>3, <1>5 DEF Handled
<1>7. Total(x) \in Nat
  BY <1>2, <1>4, <1>6 DEF Total
<1>8. ASSUME x.ctx = "live" PROVE k <= Total(x) /\ Total(x) <= NumRows
  <2>1. CASE ~x.ended
    BY <1>2, <1>4, <1>8, <2>1 DEF Total
  <2>2. CASE x.ended
    <3>1. x.next = Sent(x, g) + 1
      BY <1>8, <2>2 DEF Flow, Whole, Broken
    <3>2. Sent(x, g) = k + g + n /\ Total(x) = x.next - 1
      BY <1>1, <1>8, <2>2 DEF Sent, Total
    <3>3. QED
      BY <1>2, <3>1, <3>2
  <2>3. QED
    BY <2>1, <2>2
<1>9. QED
  BY <1>1, <1>4, <1>6, <1>7, <1>8

-----------------------------------------------------------------------------
(* The streams together *)

\* A step that changes one stream, of its producer or of the loop that ranges over it.
LEMMA OneStream ==
  ASSUME StreamInv, NEW s \in Streams, NEW y \in Stream, stream' = [stream EXCEPT ![s] = y],
         Len(y.channel) <= ChannelSize, Flow(y, Working(s)', got'),
         loop' \in {"idle", "range", "work"}, at' \in Streams, got' \in Item,
         UNCHANGED loopVars \/ (at' = s /\ (loop = "idle" \/ at = s)),
         y.result = "reading" <=> loop' # "idle" /\ at' = s,
         y.ctx = "live" => y.result = "reading",
         y.result = "reading" => y.ctx # "returned"
  PROVE  StreamInv'
<1>1. /\ stream \in [Streams -> Stream]
      /\ \A t \in Streams : Len(stream[t].channel) <= ChannelSize
  BY DEF StreamInv, StreamTypeOK
<1>2. stream'[s] = y /\ \A t \in Streams : t # s => stream'[t] = stream[t]
  BY <1>1
<1>3. StreamTypeOK'
  <2>1. stream' \in [Streams -> Stream]
    BY <1>1
  <2>2. \A t \in Streams : Len(stream'[t].channel) <= ChannelSize
    BY <1>1, <1>2
  <2>3. QED
    BY <2>1, <2>2 DEF StreamTypeOK
<1>4. ASSUME NEW t \in Streams
      PROVE  /\ Flow(stream[t], Working(t), got)'
             /\ stream'[t].result = "reading" <=> loop' # "idle" /\ at' = t
             /\ stream'[t].ctx = "live" => stream'[t].result = "reading"
             /\ stream'[t].result = "reading" => stream'[t].ctx # "returned"
  <2>1. CASE t = s
    BY <1>2, <2>1
  <2>2. CASE t # s
    <3>1. /\ Flow(stream[t], Working(t), got)
          /\ stream[t].result = "reading" <=> loop # "idle" /\ at = t
          /\ stream[t].ctx = "live" => stream[t].result = "reading"
          /\ stream[t].result = "reading" => stream[t].ctx # "returned"
      BY DEF StreamInv
    <3>2. stream'[t] = stream[t]
      BY <1>2, <2>2
    <3>3. CASE UNCHANGED loopVars
      <4>1. Working(t)' = Working(t) /\ got' = got /\ loop' = loop /\ at' = at
        BY <3>3 DEF Working, loopVars
      <4>2. QED
        BY <3>1, <3>2, <4>1
    <3>4. CASE at' = s /\ (loop = "idle" \/ at = s)
      <4>1. stream[t].result # "reading" /\ stream[t].ctx # "live" /\ at' # t
        BY <2>2, <3>1, <3>4
      <4>2. Flow(stream[t], Working(t)', got')
        BY <3>1, <4>1, EndedFlows
      <4>3. QED
        BY <3>1, <3>2, <4>1, <4>2
    <3>5. QED
      BY <3>3, <3>4
  <2>3. QED
    BY <2>1, <2>2
<1>5. QED
  BY <1>3, <1>4 DEF StreamInv

\* What the abstract reads see of such a step.
LEMMA OneRead ==
  ASSUME stream \in [Streams -> Stream], NEW s \in Streams, NEW y \in Stream,
         stream' = [stream EXCEPT ![s] = y]
  PROVE  /\ [t \in Streams |-> Total(stream'[t])]
              = [[t \in Streams |-> Total(stream[t])] EXCEPT ![s] = Total(y)]
         /\ [t \in Streams |-> Handled(stream'[t])]
              = [[t \in Streams |-> Handled(stream[t])] EXCEPT ![s] = Handled(y)]
         /\ [t \in Streams |-> stream'[t].result]
              = [[t \in Streams |-> stream[t].result] EXCEPT ![s] = y.result]
         /\ Total(stream'[s]) = Total(y)
         /\ Total(y) = Total(stream[s]) =>
              [t \in Streams |-> Total(stream'[t])] = [t \in Streams |-> Total(stream[t])]
         /\ Handled(y) = Handled(stream[s]) =>
              [t \in Streams |-> Handled(stream'[t])] = [t \in Streams |-> Handled(stream[t])]
<1>1. stream'[s] = y /\ \A t \in Streams : t # s => stream'[t] = stream[t]
  OBVIOUS
<1>2. QED
  BY <1>1

\* A step of a producer.
LEMMA ProducerStep ==
  ASSUME StreamInv, NEW s \in Streams, NEW y \in Stream, stream' = [stream EXCEPT ![s] = y],
         UNCHANGED loopVars, Len(y.channel) <= ChannelSize, Flow(y, Working(s), got),
         y.ctx = stream[s].ctx, y.result = stream[s].result, y.handled = stream[s].handled,
         \/ y.ended = stream[s].ended /\ (y.ended => y.next = stream[s].next)
         \/ stream[s].ctx = "live" /\ ~stream[s].ended
  PROVE  StreamInv' /\ (RowRead!Next \/ UNCHANGED RowRead!vars)
<1> DEFINE x == stream[s]
<1>1. /\ loop \in {"idle", "range", "work"} /\ at \in Streams /\ got \in Item
      /\ stream \in [Streams -> Stream] /\ x \in Stream
  BY DEF StreamInv, StreamTypeOK
<1>2. /\ Flow(x, Working(s), got)
      /\ x.result = "reading" <=> loop # "idle" /\ at = s
      /\ x.ctx = "live" => x.result = "reading"
      /\ x.result = "reading" => x.ctx # "returned"
  BY DEF StreamInv
<1>3. Working(s)' = Working(s) /\ got' = got /\ loop' = loop /\ at' = at /\ Working(s) \in {0, 1}
  BY DEF Working, loopVars
<1>4. StreamInv'
  BY <1>1, <1>2, <1>3, OneStream
<1>5. /\ Handled(x) = Len(x.handled) /\ Handled(x) \in 0..NumRows
      /\ Handled(y) = Len(y.handled) /\ Total(y) \in Nat /\ Total(x) \in Nat
      /\ y.ctx = "live" => Handled(y) <= Total(y) /\ Total(y) <= NumRows
  BY <1>1, <1>2, <1>3, ReadBounds
<1>6. Handled(y) = Handled(x)
  BY <1>5
<1>7. CASE y.ended = x.ended /\ (y.ended => y.next = x.next)
  <2>1. Total(y) = Total(x)
    BY <1>6, <1>7 DEF Total
  <2>2. UNCHANGED RowRead!vars
    BY <1>1, <1>6, <2>1, OneRead DEF RowRead!vars
  <2>3. QED
    BY <1>4, <2>2
<1>8. CASE x.ctx = "live" /\ ~x.ended
  <2>1. Total(x) = NumRows /\ Total(y) \in Handled(x)..Total(x)
    BY <1>5, <1>6, <1>8, StreamAssumption DEF Total
  <2>2. RowRead!BreakOff(s)
    BY <1>1, <1>2, <1>6, <1>8, <2>1, OneRead DEF RowRead!BreakOff
  <2>3. QED
    BY <1>4, <2>2 DEF RowRead!Next
<1>9. QED
  BY <1>7, <1>8

\* Only the end of rows.Next is seen by the reader, who then has fewer rows to
\* expect if the connection broke.
LEMMA StreamProducerSteps ==
  ASSUME StreamInv, NEW s \in Streams, RowProducer(s)
  PROVE  StreamInv' /\ (RowRead!Next \/ UNCHANGED RowRead!vars)
<1> DEFINE x == stream[s]
           g == Working(s)
<1>1. /\ x \in Stream /\ Len(x.channel) <= ChannelSize /\ Flow(x, g, got) /\ g \in {0, 1}
      /\ UNCHANGED loopVars
  BY DEF StreamInv, StreamTypeOK, Working, RowProducer
<1>2. CASE Query(s) \/ QueryFails(s)
  <2>1. PICK y : /\ x.producer = "query" /\ stream' = [stream EXCEPT ![s] = y]
                 /\ \/ y = [x EXCEPT !.producer = "rows"]
                    \/ y = [x EXCEPT !.producer = "offer", !.item = Failed]
    BY <1>2 DEF Query, QueryFails, Is
  <2>2. y \in Stream /\ Flow(y, g, got)
    BY <1>1, <2>1, QueryFlows
  <2>3. /\ y.ctx = x.ctx /\ y.result = x.result /\ y.handled = x.handled
        /\ y.ended = x.ended /\ y.next = x.next /\ y.channel = x.channel
    BY <1>1, <2>1 DEF Stream
  <2>4. QED
    BY <1>1, <2>1, <2>2, <2>3, ProducerStep
<1>3. CASE NextRow(s) \/ ScanFails(s) \/ RowsEnd(s)
  <2>1. PICK y :
          /\ x.producer = "rows" /\ stream' = [stream EXCEPT ![s] = y]
          /\ \/ /\ x.next <= NumRows
                /\ y = [x EXCEPT !.producer = "offer", !.item = x.next, !.next = @ + 1]
             \/ y = [x EXCEPT !.producer = "offer", !.item = Failed]
             \/ y = [x EXCEPT !.producer = "close", !.ended = x.ctx = "live"]
    <3>1. CASE NextRow(s)
      BY <3>1 DEF NextRow, HasRow, Is
    <3>2. CASE ScanFails(s)
      BY <3>2 DEF ScanFails, HasRow, Is
    <3>3. CASE RowsEnd(s)
      BY <3>3 DEF RowsEnd, Is
    <3>4. QED
      BY <1>3, <3>1, <3>2, <3>3
  <2>2. y \in Stream /\ Flow(y, g, got) /\ ~x.ended
    <3>1. y \in Stream /\ Flow(y, g, got)
      BY <1>1, <2>1, RowsFlow
    <3>2. QED
      BY <1>1, <2>1, <3>1 DEF Flow
  <2>3. /\ y.ctx = x.ctx /\ y.result = x.result /\ y.handled = x.handled
        /\ y.channel = x.channel
        /\ y.ended = x.ended \/ x.ctx = "live"
    <3>1. CASE y = [x EXCEPT !.producer = "offer", !.item = x.next, !.next = @ + 1]
      BY <1>1, <3>1 DEF Stream
    <3>2. CASE y = [x EXCEPT !.producer = "offer", !.item = Failed]
      BY <1>1, <3>2 DEF Stream
    <3>3. CASE y = [x EXCEPT !.producer = "close", !.ended = x.ctx = "live"]
      BY <1>1, <2>2, <3>3 DEF Stream
    <3>4. QED
      BY <2>1, <3>1, <3>2, <3>3
  <2>4. QED
    BY <1>1, <2>1, <2>2, <2>3, ProducerStep
<1>4. CASE Offer(s) \/ OfferGivesUp(s)
  <2>1. PICK p, y :
          /\ x.producer = "offer" /\ stream' = [stream EXCEPT ![s] = y]
          /\ p = IF x.item = Failed THEN "close" ELSE "rows"
          /\ \/ /\ Len(x.channel) < ChannelSize
                /\ y = [x EXCEPT !.producer = p, !.channel = Append(@, x.item)]
             \/ y = [x EXCEPT !.producer = p] /\ x.ctx # "live"
    <3>1. CASE Offer(s)
      BY <3>1 DEF Offer, AfterOffer, Fits, Is
    <3>2. CASE OfferGivesUp(s)
      BY <3>2 DEF OfferGivesUp, AfterOffer, ContextEnded, Is
    <3>3. QED
      BY <1>4, <3>1, <3>2
  <2>2. y \in Stream /\ Flow(y, g, got)
    <3>1. \/ y = [x EXCEPT !.producer = p, !.channel = Append(@, x.item)]
          \/ y = [x EXCEPT !.producer = p] /\ x.ctx # "live"
      BY <2>1
    <3>2. /\ x \in Stream /\ g \in {0, 1} /\ Flow(x, g, got) /\ x.producer = "offer"
          /\ p = IF x.item = Failed THEN "close" ELSE "rows"
      BY <1>1, <2>1
    <3>3. QED
      BY <3>1, <3>2, OfferFlows
  <2>3. /\ y.ctx = x.ctx /\ y.result = x.result /\ y.handled = x.handled
        /\ y.ended = x.ended /\ y.next = x.next
    BY <1>1, <2>1 DEF Stream
  <2>4. Len(y.channel) <= ChannelSize
    <3>1. PICK n \in Nat : n = Len(x.channel)
      BY <1>1, StreamType
    <3>2. x.channel \in Seq(Item) /\ x.item \in Item
      BY <1>1, StreamType DEF Item
    <3>3. Len(Append(x.channel, x.item)) = n + 1
      BY <3>1, <3>2, Sending
    <3>4. y.channel = x.channel \/ (y.channel = Append(x.channel, x.item) /\ Len(x.channel) < ChannelSize)
      BY <1>1, <2>1 DEF Stream
    <3>5. QED
      BY <1>1, <3>1, <3>3, <3>4, StreamAssumption
  <2>5. QED
    BY <1>1, <2>1, <2>2, <2>3, <2>4, ProducerStep
<1>5. CASE CloseStream(s)
  <2>1. PICK y : /\ x.producer = "close" /\ stream' = [stream EXCEPT ![s] = y]
                 /\ y = [x EXCEPT !.producer = "none", !.closed = TRUE]
    BY <1>5 DEF CloseStream, Is
  <2>2. y \in Stream /\ Flow(y, g, got)
    BY <1>1, <2>1, CloseFlows
  <2>3. /\ y.ctx = x.ctx /\ y.result = x.result /\ y.handled = x.handled
        /\ y.ended = x.ended /\ y.next = x.next /\ y.channel = x.channel
    BY <1>1, <2>1 DEF Stream
  <2>4. QED
    BY <1>1, <2>1, <2>2, <2>3, ProducerStep
<1>6. QED
  BY <1>2, <1>3, <1>4, <1>5 DEF RowProducer

\* A loop opens its stream: its reader starts with nothing.
LEMMA OpenSteps ==
  ASSUME StreamInv, NEW s \in Streams, Open(s)
  PROVE  StreamInv' /\ RowRead!Next
<1>1. /\ loop = "idle" /\ loop' = "range" /\ at' = s /\ got' = got /\ got \in Item
      /\ stream \in [Streams -> Stream] /\ stream' = [stream EXCEPT ![s] = Opened]
  BY DEF StreamInv, StreamTypeOK, Open
<1>2. /\ Opened.result = "reading" /\ Opened.ctx = "live"
      /\ Opened.channel = << >> /\ Opened.handled = << >>
  BY DEF Opened
<1>3. Working(s)' = 0 /\ Opened \in Stream /\ Flow(Opened, 0, got')
  BY <1>1, OpenedFlows DEF Working
<1>4. StreamInv'
  <2>1. Len(Opened.channel) <= ChannelSize
    BY <1>2, StreamAssumption
  <2>2. /\ loop' \in {"idle", "range", "work"} /\ at' \in Streams /\ got' \in Item
        /\ at' = s /\ (loop = "idle" \/ at = s)
        /\ Opened.result = "reading" <=> loop' # "idle" /\ at' = s
        /\ Opened.ctx = "live" => Opened.result = "reading"
        /\ Opened.result = "reading" => Opened.ctx # "returned"
    BY <1>1, <1>2
  <2>3. Flow(Opened, Working(s)', got')
    BY <1>3
  <2>4. QED
    BY <1>1, <1>3, <2>1, <2>2, <2>3, OneStream
<1>5. Handled(Opened) = 0 /\ Total(Opened) \in Nat
  BY <1>2, <1>3, ReadBounds
<1>6. stream[s].result # "reading"
  BY <1>1 DEF StreamInv
<1>7. RowRead!Start(s)
  BY <1>1, <1>2, <1>3, <1>5, <1>6, OneRead DEF RowRead!Start, RowRead!Told
<1>8. QED
  BY <1>4, <1>7 DEF RowRead!Next

\* Steps of the loop that ranges over a stream, and of the clock.
LEMMA LoopSteps ==
  ASSUME StreamInv, Loop \/ Timeout
  PROVE  StreamInv' /\ (RowRead!Next \/ UNCHANGED RowRead!vars)
<1> DEFINE x == stream[at]
           g == Working(at)
<1>1. /\ loop \in {"idle", "range", "work"} /\ at \in Streams /\ got \in Item
      /\ stream \in [Streams -> Stream]
      /\ x \in Stream /\ Len(x.channel) <= ChannelSize /\ Flow(x, g, got) /\ g \in {0, 1}
      /\ x.result = "reading" <=> loop # "idle"
      /\ x.ctx = "live" => x.result = "reading"
      /\ x.result = "reading" => x.ctx # "returned"
  BY DEF StreamInv, StreamTypeOK, Working
<1>2. /\ Handled(x) = Len(x.handled) /\ Handled(x) \in 0..NumRows /\ Total(x) \in Nat
      /\ x.ctx = "live" => Handled(x) <= Total(x) /\ Total(x) <= NumRows
  BY <1>1, ReadBounds
<1>3. PICK a \in Streams : a = at
  BY <1>1
<1>4. CASE Receive
  <2>1. PICK y : /\ loop = "range" /\ x.channel # << >>
                 /\ got' = Head(x.channel) /\ loop' = "work" /\ at' = at
                 /\ y = [x EXCEPT !.channel = Tail(@)] /\ stream' = [stream EXCEPT ![at] = y]
    BY <1>4 DEF Receive
  <2>2. g = 0 /\ Working(at)' = 1
    BY <2>1 DEF Working
  <2>3. y \in Stream /\ Flow(y, Working(at)', got') /\ got' \in Item
    BY <1>1, <2>1, <2>2, ReceiveFlows
  <2>4. /\ y.ctx = x.ctx /\ y.result = x.result /\ y.handled = x.handled /\ y.ended = x.ended
        /\ y.next = x.next /\ y.channel = Tail(x.channel)
    BY <1>1, <2>1 DEF Stream
  <2>5. Len(y.channel) <= ChannelSize
    <3>1. PICK n \in Nat : n = Len(x.channel)
      BY <1>1, StreamType
    <3>2. x.channel \in Seq(Item)
      BY <1>1, StreamType
    <3>3. Len(Tail(x.channel)) = n - 1
      BY <2>1, <3>1, <3>2, Taking
    <3>4. QED
      BY <1>1, <2>4, <3>1, <3>3, StreamAssumption
  <2>6. StreamInv'
    BY <1>1, <2>1, <2>3, <2>4, <2>5, OneStream
  <2>7. Handled(y) = Handled(x) /\ Total(y) = Total(x)
    BY <2>4 DEF Handled, Total
  <2>8. UNCHANGED RowRead!vars
    <3>1. /\ stream \in [Streams -> Stream] /\ at \in Streams /\ y \in Stream
          /\ stream' = [stream EXCEPT ![at] = y] /\ y.result = x.result
      BY <1>1, <2>1, <2>3, <2>4
    <3>2. \A t \in Streams : stream'[t] = IF t = at THEN y ELSE stream[t]
      BY <3>1
    <3>3. QED
      BY <2>7, <3>1, <3>2 DEF RowRead!vars
  <2>9. QED
    BY <2>6, <2>8
<1>5. CASE WorkDone
  <2>1. PICK y : /\ loop = "work" /\ got # Failed /\ x.ctx = "live"
                 /\ loop' = "range" /\ at' = at /\ got' = got
                 /\ y = [x EXCEPT !.handled = Append(@, got)] /\ stream' = [stream EXCEPT ![at] = y]
    BY <1>5 DEF WorkDone
  <2>2. g = 1 /\ Working(at)' = 0
    BY <2>1 DEF Working
  <2>3. /\ y \in Stream /\ Flow(y, 0, got)
        /\ got = Len(x.handled) + 1 /\ Len(y.handled) = Len(x.handled) + 1
        /\ x.ended => Len(x.handled) < x.next - 1
    BY <1>1, <2>1, <2>2, WorkFlows
  <2>4. /\ y.ctx = x.ctx /\ y.result = x.result /\ y.ended = x.ended
        /\ y.next = x.next /\ y.channel = x.channel
    BY <1>1, <2>1 DEF Stream
  <2>5. StreamInv'
    BY <1>1, <2>1, <2>2, <2>3, <2>4, OneStream
  <2>6. Handled(y) = Len(y.handled)
    BY <2>3, ReadBounds
  <2>7. Handled(y) = Handled(x) + 1 /\ Total(y) = Total(x)
    BY <1>2, <2>1, <2>3, <2>4, <2>6 DEF Total
  <2>8. Handled(x) < Total(x)
    <3>1. CASE x.ended
      BY <1>2, <2>1, <2>3, <3>1 DEF Total
    <3>2. CASE ~x.ended
      BY <1>1, <1>2, <2>1, <2>3, <3>2, StreamAssumption DEF Total, Item
    <3>3. QED
      BY <3>1, <3>2
  <2>9. RowRead!Item(a)
    BY <1>1, <1>3, <2>1, <2>3, <2>4, <2>7, <2>8, OneRead DEF RowRead!Item
  <2>10. QED
    BY <2>5, <2>9 DEF RowRead!Next
<1>6. ASSUME NEW q \in {"ok", "error"}, loop # "idle", Return(q),
             q = "ok" => x.channel = << >> /\ x.closed /\ loop = "range"
      PROVE  StreamInv' /\ RowRead!Next
  <2>1. PICK y : /\ loop' = "idle" /\ at' = at /\ got' = got
                 /\ y = [x EXCEPT !.result = q, !.ctx = IF @ = "live" THEN "returned" ELSE @]
                 /\ stream' = [stream EXCEPT ![at] = y]
    BY <1>6 DEF Return
  <2>2. y \in Stream
    BY <1>1, <2>1 DEF Stream
  <2>3. /\ y.handled = x.handled /\ y.ended = x.ended /\ y.closed = x.closed /\ y.next = x.next
        /\ y.producer = x.producer /\ y.channel = x.channel /\ y.result = q
        /\ y.ctx = IF x.ctx = "live" THEN "returned" ELSE x.ctx
    BY <1>1, <2>1 DEF Stream
  <2>4. y.ctx # "live" /\ y.result # "reading"
    BY <2>3
  <2>5. Flow(y, Working(at)', got')
    BY <1>1, <2>3, <2>4, EndedFlows
  <2>6. StreamInv'
    BY <1>1, <2>1, <2>2, <2>3, <2>4, <2>5, OneStream
  <2>7. Handled(y) = Handled(x) /\ Total(y) = Total(x)
    BY <1>1, <1>6, <2>3 DEF Handled, Total
  <2>8. CASE q = "error"
    <3>1. x.result = "reading" /\ y.result = "error"
      BY <1>1, <1>6, <2>3, <2>8
    <3>2. RowRead!Fail(a)
      BY <1>1, <1>3, <2>1, <2>2, <2>7, <3>1, OneRead DEF RowRead!Fail, RowRead!Told
    <3>3. QED
      BY <2>6, <3>2 DEF RowRead!Next
  <2>9. CASE q = "ok"
    <3>1. Handled(x) = Total(x)
      <4>1. CASE x.ctx = "timeout"
        BY <4>1 DEF Total
      <4>2. CASE x.ctx = "live"
        <5>1. g = 0 /\ x.channel = << >> /\ x.producer = "none"
          BY <1>1, <1>6, <2>9 DEF Working, Flow
        <5>2. Whole(x, 0, got)
          BY <1>1, <4>2, <5>1 DEF Flow, Broken
        <5>3. x.ended /\ x.next = Sent(x, 0) + 1
          BY <5>1, <5>2 DEF Whole
        <5>4. PICK k \in Nat : k = Len(x.handled)
          BY <1>1, StreamType
        <5>5. Sent(x, 0) = k + 0 + 0
          BY <5>1, <5>4 DEF Sent
        <5>6. QED
          BY <1>2, <4>2, <5>3, <5>4, <5>5 DEF Total
      <4>3. QED
        BY <1>1, <1>6, <4>1, <4>2 DEF Stream
    <3>2. x.result = "reading" /\ y.result = "ok"
      BY <1>1, <1>6, <2>3, <2>9
    <3>3. RowRead!Finish(a)
      BY <1>1, <1>3, <2>1, <2>2, <2>7, <3>1, <3>2, OneRead DEF RowRead!Finish, RowRead!Told
    <3>4. QED
      BY <2>6, <3>3 DEF RowRead!Next
  <2>10. QED
    BY <2>8, <2>9
<1>7. CASE WorkFails
  BY <1>6, <1>7 DEF WorkFails
<1>8. CASE RangeEnds
  BY <1>6, <1>8 DEF RangeEnds
<1>9. CASE Timeout
  <2>1. PICK y : /\ loop # "idle" /\ x.ctx = "live" /\ loop' = loop /\ at' = at /\ got' = got
                 /\ y = [x EXCEPT !.ctx = "timeout"] /\ stream' = [stream EXCEPT ![at] = y]
    BY <1>9 DEF Timeout, loopVars
  <2>2. y \in Stream
    BY <1>1, <2>1 DEF Stream
  <2>3. /\ y.handled = x.handled /\ y.ended = x.ended /\ y.closed = x.closed /\ y.next = x.next
        /\ y.producer = x.producer /\ y.channel = x.channel /\ y.result = x.result
        /\ y.ctx = "timeout"
    BY <1>1, <2>1 DEF Stream
  <2>4. Flow(y, Working(at)', got')
    BY <1>1, <2>3, EndedFlows
  <2>5. StreamInv'
    BY <1>1, <2>1, <2>2, <2>3, <2>4, OneStream
  <2>6. Handled(y) = Handled(x) /\ Total(y) = Handled(x)
    BY <2>3 DEF Handled, Total
  <2>7. Total(y) \in Handled(x)..Total(x)
    BY <1>2, <2>1, <2>6
  <2>8. RowRead!BreakOff(a)
    <3>1. /\ stream \in [Streams -> Stream] /\ stream[a] = x /\ y.result = x.result
          /\ stream' = [stream EXCEPT ![a] = y] /\ x.result = "reading"
      BY <1>1, <1>3, <2>1, <2>3
    <3>2. \A t \in Streams : stream'[t] = IF t = a THEN y ELSE stream[t]
      BY <3>1
    <3>3. QED
      BY <2>6, <2>7, <3>1, <3>2 DEF RowRead!BreakOff
  <2>9. QED
    BY <2>5, <2>8 DEF RowRead!Next
<1>10. QED
  BY <1>4, <1>5, <1>7, <1>8, <1>9 DEF Loop

\* Nothing is being read at the beginning.
LEMMA UnusedStreams ==
  ASSUME loop = "idle", at = "deposits", got = Failed, stream = [s \in Streams |-> Unused]
  PROVE  StreamInv /\ RowRead!Init
<1>1. /\ Unused.result = "none" /\ Unused.ctx = "returned" /\ Unused.channel = << >>
      /\ Unused.handled = << >>
  BY DEF Unused, Opened
<1>2. Unused \in Stream /\ Flow(Unused, 0, got)
  BY OpenedFlows
<1>3. Handled(Unused) = 0 /\ Total(Unused) \in Nat
  BY <1>1, <1>2, ReadBounds
<1>4. StreamInv
  BY <1>1, <1>2, StreamAssumption DEF StreamInv, StreamTypeOK, Working, Streams, Item, Failed
<1>5. RowRead!Init
  BY <1>1, <1>3 DEF RowRead!Init
<1>6. QED
  BY <1>4, <1>5

\* Every step keeps the invariant and is a step of the ordered read or none.
LEMMA StreamSteps ==
  StreamInv /\ [StreamNext]_(streamVars) => StreamInv' /\ [RowRead!Next]_(RowRead!vars)
<1> SUFFICES ASSUME StreamInv, [StreamNext]_(streamVars)
             PROVE  StreamInv' /\ (RowRead!Next \/ UNCHANGED RowRead!vars)
  OBVIOUS
<1>1. CASE GetDepositTxStream \/ GetPendingDripsStream
  BY <1>1, StreamProducerSteps DEF GetDepositTxStream, GetPendingDripsStream, Streams
<1>2. CASE \E s \in Streams : Open(s)
  BY <1>2, OpenSteps
<1>3. CASE Loop \/ Timeout
  BY <1>3, LoopSteps
<1>4. CASE Restart
  <2>1. StreamInv'
    <3>1. /\ Unused.result = "none" /\ Unused.ctx = "returned" /\ Unused.channel = << >>
      BY DEF Unused, Opened
    <3>2. Unused \in Stream /\ Flow(Unused, 0, got')
      BY OpenedFlows
    <3>3. QED
      BY <1>4, <3>1, <3>2, StreamAssumption
         DEF Restart, StreamInv, StreamTypeOK, Working, Streams, Item, Failed
  <2>2. RowRead!Reset
    <3>1. /\ Unused.result = "none" /\ Unused.handled = << >>
          /\ Unused \in Stream /\ Flow(Unused, 0, got)
      BY OpenedFlows DEF Unused, Opened
    <3>2. Handled(Unused) = 0 /\ Total(Unused) \in Nat
      BY <3>1, ReadBounds
    <3>3. QED
      BY <1>4, <3>1, <3>2 DEF Restart, RowRead!Reset
  <2>3. QED
    BY <2>1, <2>2 DEF RowRead!Next
<1>5. CASE UNCHANGED streamVars
  BY <1>5 DEF streamVars, loopVars, RowRead!vars, StreamInv, StreamTypeOK, Working
<1>6. QED
  BY <1>1, <1>2, <1>3, <1>4, <1>5 DEF StreamNext

\* The variables of the faucet's loops and their streams have their types, and a
\* channel never holds more rows than it has room for.
THEOREM StreamTypes == StreamSpec => []StreamTypeOK
<1>1. StreamInit => StreamInv
  BY UnusedStreams DEF StreamInit
<1>2. StreamInv => StreamTypeOK
  BY DEF StreamInv
<1>3. QED
  BY <1>1, <1>2, StreamSteps, PTL DEF StreamSpec

\* A loop handles the rows of its query in order and without a gap, and returns
\* no error only after the last one, unless its time was over or the connection
\* broke, although the producer may skip a row and offer later ones once the
\* context has ended (the `select` in the row loop of GetDepositTxStream).
THEOREM RowsAreInOrder == StreamSpec => RowsInOrder
<1>1. StreamInit => StreamInv /\ RowRead!Init
  BY UnusedStreams DEF StreamInit
<1>2. QED
  BY <1>1, StreamSteps, PTL DEF StreamSpec, RowsInOrder, RowRead!Spec
=============================================================================
