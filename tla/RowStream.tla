------------------------------ MODULE RowStream ------------------------------
(***************************************************************************)
(* The streams of rows the faucet reads: GetDepositTxStream and            *)
(* GetPendingDripsStream, with the loops of tryToSendDrip and              *)
(* tryToCheckDrip that range over them.  A goroutine owns the query and    *)
(* sends its rows through a bounded channel; the loop, which works on the  *)
(* rows, may end before the query does, and its context may expire.        *)
(* Faucet takes a stream as the set of the rows of its query.              *)
(***************************************************************************)
EXTENDS Naturals, Sequences

CONSTANTS NumRows,    \* the rows of a query, numbered from 1
          ChannelSize \* of the channel of a stream: 5

ASSUME StreamAssumption == NumRows \in Nat /\ ChannelSize \in Nat \ {0}

Streams == {"deposits", "drips"}

VARIABLES
  loop,  \* what the faucet is doing
  at,    \* the stream it ranges over
  got,   \* the row it works on
  stream \* stream[s]: the stream, and the loop that opened it

loopVars   == <<loop, at, got>>
streamVars == <<loopVars, stream>>

Failed == 0                   \* an item that is an error
Item   == 0..NumRows

Stream == [producer : {"none", "query", "rows", "offer", "close"}, \* its goroutine
           next     : 1..NumRows + 1, \* the row the query is at
           item     : Item,           \* the row or error to be sent
           channel  : Seq(Item),
           closed   : BOOLEAN,        \* the channel
           ctx      : {"live", "timeout", "returned"}, \* ended by what
           ended    : BOOLEAN,        \* history: rows.Next ended before the context
           handled  : Seq(Item),      \* history: the rows whose work succeeded
           result   : {"none", "reading", "ok", "error"}] \* of the loop

Opened == [producer |-> "query", next |-> 1, item |-> Failed, channel |-> << >>,
           closed |-> FALSE, ctx |-> "live", ended |-> FALSE,
           handled |-> << >>, result |-> "reading"]
Unused == [Opened EXCEPT !.producer = "none", !.ctx = "returned", !.result = "none"]

-----------------------------------------------------------------------------
(* The producer *)

Is(s, where) == stream[s].producer = where

Query(s) == Is(s, "query") /\ stream[s].ctx = "live" /\ stream' = [stream EXCEPT ![s].producer = "rows"]

HasRow(s) == Is(s, "rows") /\ stream[s].next <= NumRows

\* rows.Next has a row, which is possible for a while after the context ended.
NextRow(s) ==
  /\ HasRow(s)
  /\ stream' = [stream EXCEPT ![s].producer = "offer", ![s].item = stream[s].next, ![s].next = @ + 1]

\* Mutant: the stream just ends.
ScanFailsSilently(s) == HasRow(s) /\ stream' = [stream EXCEPT ![s].producer = "close"]

\* A row cannot be read ...
ScanFails(s) ==
  HasRow(s) /\ stream' = [stream EXCEPT ![s].producer = "offer", ![s].item = Failed]

\* ... or the query cannot be made.
QueryFails(s) ==
  Is(s, "query") /\ stream' = [stream EXCEPT ![s].producer = "offer", ![s].item = Failed]

\* rows.Next returns false: after the last row, or because the context ended,
\* or because the connection broke, which rows.Err would tell.
RowsEnd(s) ==
  /\ Is(s, "rows")
  /\ stream' = [stream EXCEPT ![s].producer = "close", ![s].ended = stream[s].ctx = "live"]

\* An error is the last thing that is sent, a row is followed by the next one.
AfterOffer(s) == IF stream[s].item = Failed THEN "close" ELSE "rows"

\* Mutant: the channel has no bound.
AlwaysFits(s) == TRUE

Fits(s) == Len(stream[s].channel) < ChannelSize

\* The `select` of the producer sends the item ...
Offer(s) ==
  /\ Is(s, "offer") /\ Fits(s)
  /\ stream' = [stream EXCEPT ![s].producer = AfterOffer(s), ![s].channel = Append(@, stream[s].item)]

\* Mutants: a row is dropped when the channel is full; the producer waits for
\* room whatever becomes of the context.
EndedOrFull(s) == stream[s].ctx # "live" \/ ~Fits(s)
Never(s)       == FALSE

ContextEnded(s) == stream[s].ctx # "live"

\* ... or drops it since the context ended; if it is a row, the next one is
\* offered all the same.
OfferGivesUp(s) ==
  Is(s, "offer") /\ ContextEnded(s) /\ stream' = [stream EXCEPT ![s].producer = AfterOffer(s)]

\* Mutant: the channel is not closed.
LeaveStream(s) == Is(s, "close") /\ stream' = [stream EXCEPT ![s].producer = "none"]

\* The deferred rows.Close() and close(stream).
CloseStream(s) ==
  Is(s, "close") /\ stream' = [stream EXCEPT ![s].producer = "none", ![s].closed = TRUE]

RowProducer(s) ==
  /\ \/ Query(s) \/ QueryFails(s) \/ NextRow(s) \/ ScanFails(s) \/ RowsEnd(s)
     \/ Offer(s) \/ OfferGivesUp(s) \/ CloseStream(s)
  /\ UNCHANGED loopVars

GetDepositTxStream    == RowProducer("deposits")
GetPendingDripsStream == RowProducer("drips")

-----------------------------------------------------------------------------
(* The loop *)

\* A loop opens its stream with a context of its own.  Bound: the producer of
\* the loop of the same kind before, a minute ago, is gone.
Open(s) ==
  /\ loop = "idle" /\ Is(s, "none")
  /\ loop' = "range" /\ at' = s /\ UNCHANGED got
  /\ stream' = [stream EXCEPT ![s] = Opened]

\* The deferred cancel() runs when the loop returns.
Return(r) ==
  /\ loop' = "idle" /\ UNCHANGED <<at, got>>
  /\ stream' = [stream EXCEPT ![at].result = r, ![at].ctx = IF @ = "live" THEN "returned" ELSE @]

Receive ==
  /\ loop = "range" /\ stream[at].channel # << >>
  /\ got' = Head(stream[at].channel) /\ loop' = "work" /\ UNCHANGED at
  /\ stream' = [stream EXCEPT ![at].channel = Tail(@)]

\* Every row needs a call that fails once the context has ended.
WorkDone ==
  /\ loop = "work" /\ got # Failed /\ stream[at].ctx = "live"
  /\ stream' = [stream EXCEPT ![at].handled = Append(@, got)]
  /\ loop' = "range" /\ UNCHANGED <<at, got>>

\* The item is an error, or the work on it fails.
WorkFails == loop = "work" /\ Return("error")

\* The channel is closed and empty.
RangeEnds ==
  loop = "range" /\ stream[at].channel = << >> /\ stream[at].closed /\ Return("ok")

\* The five minutes are over, or the process is asked to stop.
Timeout ==
  /\ loop # "idle" /\ stream[at].ctx = "live"
  /\ stream' = [stream EXCEPT ![at].ctx = "timeout"]
  /\ UNCHANGED loopVars

Loop == Receive \/ WorkDone \/ WorkFails \/ RangeEnds

StreamInit ==
  /\ loop = "idle" /\ at = "deposits" /\ got = Failed
  /\ stream = [s \in Streams |-> Unused]

\* The process is killed and started again.
Restart ==
  /\ loop' = "idle" /\ at' = "deposits" /\ got' = Failed
  /\ stream' = [s \in Streams |-> Unused]

StreamNext == \/ GetDepositTxStream \/ GetPendingDripsStream
              \/ \E s \in Streams : Open(s)
              \/ Loop \/ Timeout \/ Restart

StreamSpec == StreamInit /\ [][StreamNext]_streamVars

\* Goroutines that can run do, and the work on a row ends.
StreamFairness == WF_streamVars(Loop) /\ \A s \in Streams : WF_streamVars(RowProducer(s))

FairStreamSpec == StreamSpec /\ StreamFairness

-----------------------------------------------------------------------------
(* Properties *)

StreamTypeOK ==
  /\ loop \in {"idle", "range", "work"} /\ at \in Streams /\ got \in Item
  /\ stream \in [Streams -> Stream]
  /\ \A s \in Streams : Len(stream[s].channel) <= ChannelSize

\* How many rows of a stream were handled, if they are the first ones in order.
Handled(x) ==
  IF \A i \in DOMAIN x.handled : x.handled[i] = i THEN Len(x.handled) ELSE NumRows + 1

\* What the loop can get: no row after a timeout, none that the query had not
\* reached when rows.Next ended (all of them, if the connection did not break).
Total(x) ==
  IF x.ctx = "timeout" THEN Handled(x) ELSE IF x.ended THEN x.next - 1 ELSE NumRows

RowRead == INSTANCE OrderedRead WITH
  Readers <- Streams, Fooled <- Streams,
  total   <- [s \in Streams |-> Total(stream[s])],
  read    <- [s \in Streams |-> Handled(stream[s])],
  result  <- [s \in Streams |-> stream[s].result]

\* A loop handles the rows of its query in order and without a gap, and returns
\* no error only after the last one, unless its time was over or the connection
\* broke, which nobody looks at (rows.Err).  The producer skips a row when the
\* context has ended and may offer later ones (the `select` in the row loop of
\* GetDepositTxStream, which does not return): none of them may be handled.
RowsInOrder == RowRead!Spec

\* After a loop has returned, also early and with a full channel, its producer
\* ends and gives the connection of its query back (the deferred cancel of
\* SendDrips and CheckDrips).
ConnectionReturned ==
  \A s \in Streams : (stream[s].result \in {"ok", "error"}) ~> Is(s, "none")

\* A loop ends: it never waits for a row that nobody is going to send.
LoopReturns == (loop # "idle") ~> (loop = "idle")
=============================================================================
