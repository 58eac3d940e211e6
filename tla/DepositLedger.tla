--------------------------- MODULE DepositLedger ---------------------------
(***************************************************************************)
(* What the rebate service promises, without nonces, transactions, ranges  *)
(* and restarts: a deposit is recorded, and then either ignored or granted *)
(* a drip; no receiver is granted a second one; a drip is paid once, or    *)
(* lost if its receiver refuses it, before its deposit is done; what is    *)
(* ignored, done or lost stays so.                                         *)
(***************************************************************************)
EXTENDS DepositTable

CONSTANTS Event, To, Contracts

VARIABLES table,   \* the recorded deposits
          granted, \* the ids of those that have a drip
          paid,    \* the ids of those whose drip reached its receiver
          lost     \* the ids of those whose drip the receiver refused

vars == <<table, granted, paid, lost>>

Receiver(i) == To[table[i].event]

Init == table = << >> /\ granted = {} /\ paid = {} /\ lost = {}

Record ==
  /\ DOMAIN table \subseteq DOMAIN table'
  /\ \A i \in DOMAIN table : table'[i] = table[i]
  /\ \A i \in DOMAIN table' \ DOMAIN table : table'[i].status \in {Unprocessed, Ignored}
  /\ UNCHANGED <<granted, paid, lost>>

Ignore(i) ==
  /\ table[i].status = Unprocessed
  /\ table' = SetStatus(table, i, Ignored)
  /\ UNCHANGED <<granted, paid, lost>>

Grant(i) ==
  /\ table[i].status = Unprocessed
  /\ \A j \in granted : Receiver(j) # Receiver(i)
  /\ table' = SetStatus(table, i, Processing)
  /\ granted' = granted \cup {i}
  /\ UNCHANGED <<paid, lost>>

Pay(i) ==
  /\ i \in granted \ (paid \cup lost)
  /\ paid' = paid \cup {i}
  /\ UNCHANGED <<table, granted, lost>>

Lose(i) ==
  /\ i \in granted \ (paid \cup lost) /\ Receiver(i) \in Contracts
  /\ lost' = lost \cup {i}
  /\ UNCHANGED <<table, granted, paid>>

Settle(i) ==
  /\ table[i].status = Processing /\ i \in paid \cup lost
  /\ table' = SetStatus(table, i, Done)
  /\ UNCHANGED <<granted, paid, lost>>

Next == \/ Record
        \/ \E i \in DOMAIN table : Ignore(i) \/ Grant(i) \/ Pay(i) \/ Lose(i) \/ Settle(i)

Spec == Init /\ [][Next]_vars
=============================================================================
