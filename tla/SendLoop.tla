------------------------------ MODULE SendLoop ------------------------------
(***************************************************************************)
(* What Faucet takes a loop of SendDrips for, seen by one receiver: it is  *)
(* approved once in a loop at most, not again if it has a drip and one is  *)
(* all that the policy gives, and its drip is then saved, or the loop ends.*)
(* DripDecision spreads such an approval over its checks and calls.        *)
(***************************************************************************)
VARIABLES
  phase,   \* "off", "tick" (before a loop), "send" or "persist", as in Faucet
  recset,  \* whether the receiver was approved in this loop
  hasDrip, \* whether it has a drip in the table
  first    \* whether the policy for the deposit at hand gives one drip only

vars == <<phase, recset, hasDrip, first>>

Init == phase = "off" /\ recset = FALSE /\ hasDrip = FALSE /\ first = FALSE

Initial == phase = "off" /\ phase' = "tick" /\ UNCHANGED <<recset, hasDrip, first>>

BeginSend == phase = "tick" /\ phase' = "send" /\ UNCHANGED <<recset, hasDrip, first>>

\* Another deposit is at hand, or none after Faucet's Decline.
Consider == phase = "send" /\ first' \in BOOLEAN /\ UNCHANGED <<phase, recset, hasDrip>>

Approve ==
  /\ phase = "send" /\ ~recset /\ (first => ~hasDrip)
  /\ phase' = "persist" /\ recset' = TRUE
  /\ UNCHANGED <<hasDrip, first>>

NewDrip ==
  /\ phase = "persist" /\ phase' = "send"
  /\ hasDrip' = TRUE /\ first' = FALSE /\ UNCHANGED recset

\* The loop ends, also while a drip is being saved, which may then be done.
EndSend ==
  /\ phase \in {"send", "persist"} /\ phase' = "tick"
  /\ recset' = FALSE /\ first' = FALSE
  /\ hasDrip' \in {hasDrip, hasDrip \/ phase = "persist"}

Next == Initial \/ BeginSend \/ Consider \/ Approve \/ NewDrip \/ EndSend

Spec == Init /\ [][Next]_vars
=============================================================================
