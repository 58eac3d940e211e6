---------------------------- MODULE MCOrderedRead ----------------------------
\* The loops of both services, for TLC: a channel of half of what a filter finds,
\* and queries with three times as many rows as a channel holds.  The services
\* share nothing here, so that one of them reads while the other has not begun.
EXTENDS EventIterator, RowStream

ReadsInit == Init /\ StreamInit

\* An initial predicate as a guard: the other service is as it was at the start.
ReadsNext == \/ StreamInit /\ Next /\ UNCHANGED streamVars
             \/ Init /\ StreamNext /\ UNCHANGED vars

\* In its initial state neither service has a step that fairness is about.
FairReads == /\ ReadsInit /\ [][ReadsNext]_<<vars, streamVars>>
             /\ Fairness /\ StreamFairness
=============================================================================
