----------------------------- MODULE OrderedRead -----------------------------
(***************************************************************************)
(* What a loop that ranges over a channel expects of its other end: it     *)
(* gets the items of one answer in order and without a gap, and ends       *)
(* without an error only after the last of them.  Some readers cannot tell *)
(* an answer that broke off from one that ended.                           *)
(* BridgeSync takes its filters, and Faucet its streams, as such reads.    *)
(***************************************************************************)
EXTENDS Naturals

CONSTANTS Readers,
          Fooled   \* those for whom an answer may break off without an error

VARIABLES
  total,  \* total[r]: the items of the answer
  read,   \* read[r]: how many of them r has worked on
  result  \* result[r]: "none", "reading", "ok" or "error"

vars == <<total, read, result>>

Told(r, what) == result' = [result EXCEPT ![r] = what]

Start(r) ==
  /\ result[r] # "reading" /\ Told(r, "reading")
  /\ read' = [read EXCEPT ![r] = 0]
  /\ total'[r] \in Nat /\ total' = [total EXCEPT ![r] = total'[r]]

Item(r) ==
  /\ result[r] = "reading" /\ read[r] < total[r]
  /\ read' = [read EXCEPT ![r] = @ + 1]
  /\ UNCHANGED <<total, result>>

Finish(r) ==
  /\ result[r] = "reading" /\ read[r] = total[r] /\ Told(r, "ok")
  /\ UNCHANGED <<total, read>>

Fail(r) ==
  /\ result[r] = "reading" /\ Told(r, "error")
  /\ UNCHANGED <<total, read>>

BreakOff(r) ==
  /\ r \in Fooled /\ result[r] = "reading"
  /\ total'[r] \in read[r]..total[r] /\ total' = [total EXCEPT ![r] = total'[r]]
  /\ UNCHANGED <<read, result>>

\* The process ends, or the next round begins: nothing is being read.
Reset ==
  /\ result' = [r \in Readers |-> "none"] /\ read' = [r \in Readers |-> 0]
  /\ total' \in [Readers -> Nat]

Init ==
  /\ result = [r \in Readers |-> "none"] /\ read = [r \in Readers |-> 0]
  /\ total \in [Readers -> Nat]

Next == Reset \/ \E r \in Readers : Start(r) \/ Item(r) \/ Finish(r) \/ Fail(r) \/ BreakOff(r)

Spec == Init /\ [][Next]_vars
=============================================================================
