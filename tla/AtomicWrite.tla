------------------------------ MODULE AtomicWrite ------------------------------
(***************************************************************************)
(* What the services expect of SaveSyncedData and NewDrip: all of what is   *)
(* written appears at once or not at all, and not at all if an error is    *)
(* reported, unless it is the answer to the commit that got lost.          *)
(* BridgeSync and Faucet take the two operations as such steps.            *)
(***************************************************************************)
CONSTANT Writers

VARIABLES
  saved,  \* saved[w]: whether what w writes is in the tables
  result  \* result[w]: "running", "ok", "error", "lost" (an error too), or "none"

vars == <<saved, result>>

Start(w) ==
  /\ result[w] # "running"
  /\ result' = [result EXCEPT ![w] = "running"]
  /\ saved' = [saved EXCEPT ![w] = FALSE]

Succeed(w) ==
  /\ result[w] = "running"
  /\ saved' = [saved EXCEPT ![w] = TRUE]
  /\ result' = [result EXCEPT ![w] = "ok"]

Fail(w) ==
  /\ result[w] = "running"
  /\ result' = [result EXCEPT ![w] = "error"]
  /\ UNCHANGED saved

LoseAnswer(w) ==
  /\ result[w] = "running"
  /\ saved' = [saved EXCEPT ![w] = TRUE]
  /\ result' = [result EXCEPT ![w] = "lost"]

\* The process ends, and what is in the tables stays there.
Stop == result' = [w \in Writers |-> "none"] /\ UNCHANGED saved

Init == saved = [w \in Writers |-> FALSE] /\ result = [w \in Writers |-> "none"]

Next == Stop \/ \E w \in Writers : Start(w) \/ Succeed(w) \/ Fail(w) \/ LoseAnswer(w)

Spec == Init /\ [][Next]_vars
=============================================================================
