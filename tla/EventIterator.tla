--------------------------- MODULE EventIterator ---------------------------
(***************************************************************************)
(* How syncWithRange reads the events of a range: one filter after the     *)
(* other, each with an iterator of the contract bindings.  The node's      *)
(* answer is in memory; a goroutine of the subscription sends its logs     *)
(* through a bounded channel, and Next takes them out or learns that the   *)
(* subscription has ended, whichever a `select` picks.  BridgeSync takes   *)
(* each of the two loops as a single step.                                 *)
(***************************************************************************)
EXTENDS Integers, Sequences

CONSTANTS MaxLogs,  \* bound: the logs that one filter returns
          Capacity  \* of the channel of a subscription

ASSUME IteratorAssumption == MaxLogs \in Nat /\ Capacity \in Nat \ {0}

Filters == {"erc20", "eth"}   \* in this order

VARIABLES
  pc,      \* syncWithRange
  current, \* the filter it is at
  iter,    \* iter[f]: the iterator of the filter f, with its subscription
  rows     \* syncWithRange: `deposits`

vars == <<pc, current, iter, rows>>

\* The logs of an answer are numbered in the order of the chain.
Iterator == [found : 0..MaxLogs,    \* how many logs the node returned
             sent  : 0..MaxLogs,    \* how many the goroutine has sent
             logs  : Seq(1..MaxLogs), \* the channel
             sub   : {"none", "running", "ended"}, \* the goroutine
             unsub : BOOLEAN,       \* it was asked to end
             done  : BOOLEAN,
             fail  : BOOLEAN]
Fresh == [found |-> 0, sent |-> 0, logs |-> << >>, sub |-> "none",
          unsub |-> FALSE, done |-> FALSE, fail |-> FALSE]

-----------------------------------------------------------------------------
(* The goroutine of a subscription *)

\* Mutant: the channel has no bound.
AlwaysRoom(f) == TRUE

Room(f) == Len(iter[f].logs) < Capacity

Send(f) ==
  /\ iter[f].sub = "running" /\ iter[f].sent < iter[f].found /\ Room(f)
  /\ iter' = [iter EXCEPT ![f].sent = @ + 1, ![f].logs = Append(@, iter[f].sent + 1)]

\* All logs are in the channel, or the iterator was closed: Err() is closed.
SubscriptionEnds(f) ==
  /\ iter[f].sub = "running"
  /\ iter[f].sent = iter[f].found \/ iter[f].unsub
  /\ iter' = [iter EXCEPT ![f].sub = "ended"]

Producer(f) == (Send(f) \/ SubscriptionEnds(f)) /\ UNCHANGED <<pc, current, rows>>

-----------------------------------------------------------------------------
(* syncWithRange *)

At(where, f) == pc = where /\ current = f

Go(where, f) == pc' = where /\ current' = f

\* eth_getLogs is answered, and the subscription is started.
Filter(f) ==
  /\ At("filter", f) /\ Go("next", f)
  /\ \E n \in 0..MaxLogs : iter' = [iter EXCEPT ![f].found = n, ![f].sub = "running"]
  /\ UNCHANGED rows

\* eth_getLogs fails; the iterator that is already there gets closed.
FilterFails(f) ==
  /\ At("filter", f) /\ Go(IF f = "erc20" THEN "idle" ELSE "close", "erc20")
  /\ UNCHANGED <<iter, rows>>

\* Next finds a log in the channel, be the subscription running or ended.
Take(f) ==
  /\ At("next", f) /\ iter[f].logs # << >>
  /\ rows' = Append(rows, <<f, Head(iter[f].logs)>>)
  /\ iter' = [iter EXCEPT ![f].logs = Tail(@)]
  /\ UNCHANGED <<pc, current>>

\* Next receives from Err(), which may be picked although there are logs left.
LearnEnd(f) ==
  /\ At("next", f) /\ ~iter[f].done /\ iter[f].sub = "ended"
  /\ iter' = [iter EXCEPT ![f].done = TRUE]
  /\ UNCHANGED <<pc, current, rows>>

\* UnpackLog cannot read a log: Next returns false, and Error() the reason.
UnpackFails(f) ==
  /\ At("next", f) /\ iter[f].logs # << >> /\ Go("close", f)
  /\ iter' = [iter EXCEPT ![f].logs = Tail(@), ![f].fail = TRUE]
  /\ UNCHANGED rows

\* Mutant: Next does not look into the channel again after the end.
NothingLeftAtEnd(f) == iter[f].done

NothingLeft(f) == iter[f].done /\ iter[f].logs = << >>

\* Next returns false without an error.
Exhausted(f) ==
  /\ At("next", f) /\ NothingLeft(f)
  /\ IF f = "erc20" THEN Go("filter", "eth") ELSE Go("save", "eth")
  /\ UNCHANGED <<iter, rows>>

\* SaveSyncedData, whatever comes of it, and the deferred calls of Close.
Save == pc = "save" /\ Go("close", current) /\ UNCHANGED <<iter, rows>>

\* Mutant: the goroutine is not asked.
UnsubscribeNot(f) == FALSE /\ UNCHANGED vars

\* Unsubscribe asks the goroutine to end, if it has not ended by itself ...
Unsubscribe(f) ==
  /\ At("close", f) /\ iter[f].sub = "running" /\ ~iter[f].unsub
  /\ iter' = [iter EXCEPT ![f].unsub = TRUE]
  /\ UNCHANGED <<pc, current, rows>>

\* Mutant: Close does not wait.
GoneSoon(f) == iter[f].sub = "ended" \/ iter[f].unsub

Gone(f) == iter[f].sub = "ended"

\* ... and waits until it has.  The iterators are closed in reverse order.
Closed(f) ==
  /\ At("close", f) /\ Gone(f)
  /\ Go(IF f = "eth" THEN "close" ELSE "idle", "erc20")
  /\ UNCHANGED <<iter, rows>>

Reset(where) == Go(where, "erc20") /\ iter' = [f \in Filters |-> Fresh] /\ rows' = << >>

\* The next range: new iterators and no deposits yet.
Begin == pc = "idle" /\ Reset("filter")

\* The process is stopped or killed.
Crash == pc # "idle" /\ Reset("idle")

Init == /\ pc = "idle" /\ current = "erc20"
        /\ iter = [f \in Filters |-> Fresh] /\ rows = << >>

\* The code of the bindings, one copy for each event.
FilterERC20DepositInitiated == Filter("erc20") \/ FilterFails("erc20")
FilterETHDepositInitiated   == Filter("eth") \/ FilterFails("eth")
NextERC20 == Take("erc20") \/ LearnEnd("erc20") \/ Exhausted("erc20") \/ UnpackFails("erc20")
NextETH   == Take("eth") \/ LearnEnd("eth") \/ Exhausted("eth") \/ UnpackFails("eth")

Close == \E f \in Filters : Unsubscribe(f) \/ Closed(f)

Reader == \/ FilterERC20DepositInitiated \/ NextERC20
          \/ FilterETHDepositInitiated \/ NextETH
          \/ Save \/ Close

Next == Begin \/ Reader \/ Crash \/ \E f \in Filters : Producer(f)

Spec == Init /\ [][Next]_vars

\* Goroutines that can run do; a `select` that has both may pick either.
Fairness == WF_vars(Reader) /\ \A f \in Filters : WF_vars(Producer(f))

FairSpec == Spec /\ Fairness

-----------------------------------------------------------------------------
(* Properties *)

TypeOK ==
  /\ pc \in {"idle", "filter", "next", "save", "close"} /\ current \in Filters
  /\ iter \in [Filters -> Iterator] /\ rows \in Seq(Filters \X (1..MaxLogs))
  /\ \A f \in Filters : Len(iter[f].logs) <= Capacity

\* The row that a range should give next after i - 1 others: the logs of the
\* ERC20 filter come first, each filter's in the order of the chain.
Expected(i) == LET first == iter["erc20"].found
               IN  IF i <= first THEN <<"erc20", i>> ELSE <<"eth", i - first>>

\* How many of the rows are logs of f, if they are the expected ones.
Count(f) ==
  LET first == iter["erc20"].found
  IN  IF Len(rows) <= first THEN IF f = "erc20" THEN Len(rows) ELSE 0
      ELSE IF f = "erc20" THEN first ELSE Len(rows) - first

Taken(f) == IF \E i \in DOMAIN rows : rows[i] # Expected(i) THEN 0 - 1 ELSE Count(f)

Outcome(f) == IF iter[f].sub = "none" THEN "none"
              ELSE IF iter[f].fail THEN "error"
              ELSE IF At("next", f) THEN "reading" ELSE "ok"

Read == INSTANCE OrderedRead WITH
  Readers <- Filters, Fooled <- {},
  total   <- [f \in Filters |-> iter[f].found],
  read    <- [f \in Filters |-> Taken(f)],
  result  <- [f \in Filters |-> Outcome(f)]

\* A filter yields all logs of the node's answer in the order of the chain, or
\* an error: also if Next learns of the end of the subscription while logs are
\* left in the channel (Next of the two iterators).
NoLogLost == Read!Spec

\* When syncWithRange has returned, no goroutine of it is left, even if it
\* returned after an error with a full channel (the deferred calls of Close).
NoGoroutineLeft == pc = "idle" => \A f \in Filters : iter[f].sub # "running"

\* syncWithRange returns: neither the wait for a log nor Close can wait for ever
\* for a goroutine that waits for room in the channel.
ReadEnds == (pc # "idle") ~> (pc = "idle")
=============================================================================
