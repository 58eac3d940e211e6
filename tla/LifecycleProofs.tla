--------------------------- MODULE LifecycleProofs ---------------------------
(***************************************************************************)
(* How the process ends, for runs of the syncer of any length.             *)
(***************************************************************************)
EXTENDS Lifecycle, TLAPS

Rounds == {"run", "send", "check"}

\* Where a goroutine is after it has begun something late: nowhere from where it
\* could begin the same again, since no timer fires any more.
AfterLate == [run   |-> {"run", "wait", "returned"},
              send  |-> {"send", "pause", "returned"},
              check |-> {"check", "wait", "returned"}]

Of(w) == IF w = "run" THEN sync ELSE faucet

LateInv ==
  \A w \in Rounds : \/ late[w] = 0
                    \/ late[w] = 1 /\ Ended /\ Of(w) \in AfterLate[w]

\* The syncer returns only after everything has to end.
ReturnInv == sync = "returned" => Ended

ExitInv == proc = "exited" => Ended

LifeInv == TypeOK /\ LateInv /\ ReturnInv /\ ExitInv

\* Where the faucet is before it has started.
Starting == {"closed", "start", "initial"}

\* Unless something has failed, a service has started once it is past its start; if
\* something has, there is one that returned without having started.
StartInv ==
  /\ sync = "start" => "sync" \notin started
  /\ faucet \in Starting => "faucet" \notin started
  /\ proc = "boot" => ~failed /\ sync = "start" /\ faucet \in Starting
  /\ proc # "exited" /\ ~failed =>
       /\ sync # "start" => "sync" \in started
       /\ faucet \notin Starting => "faucet" \in started
  /\ proc # "exited" /\ failed =>
       \/ sync = "returned" /\ "sync" \notin started
       \/ faucet = "returned" /\ "faucet" \notin started
  /\ proc = "exited" => (failed <=> started # Services)

LEMMA LifeInit == Init => LifeInv
<1> SUFFICES ASSUME Init PROVE LifeInv
  OBVIOUS
<1>1. late = [w \in Rounds |-> 0]
  BY DEF Init, Rounds
<1>2. TypeOK
  <2>1. late \in [Rounds -> Nat]
    BY <1>1
  <2>2. base \in BOOLEAN /\ failed \in BOOLEAN
    BY DEF Init
  <2>3. QED
    BY <2>1, <2>2, LifecycleAssumption DEF Init, TypeOK, Rounds, Services
<1>3. LateInv
  BY <1>1 DEF LateInv
<1>4. ReturnInv /\ ExitInv
  BY DEF Init, ReturnInv, ExitInv
<1>5. QED
  BY <1>2, <1>3, <1>4 DEF LifeInv

\* Something begins, for the first time after the end if it is late.
LEMMA RoundBegins ==
  ASSUME LifeInv, NEW w \in Rounds, Of(w) \notin AfterLate[w], Of(w)' \in AfterLate[w],
         \A v \in Rounds \ {w} : Of(v)' = Of(v) \/ Of(v)' \in AfterLate[v] \/ late[v] = 0,
         BeginsLate(w), Ended' = Ended
  PROVE  late' \in [Rounds -> Nat] /\ LateInv'
<1>1. late \in [Rounds -> Nat] /\ late[w] = 0
  BY DEF LifeInv, TypeOK, LateInv, Rounds
<1>2. late' = IF Ended THEN [late EXCEPT ![w] = 1] ELSE late
  BY <1>1 DEF BeginsLate
<1>3. ASSUME NEW v \in Rounds
      PROVE  late'[v] = 0 \/ (late'[v] = 1 /\ Ended' /\ Of(v)' \in AfterLate[v])
  <2>1. CASE v = w
    BY <1>1, <1>2, <2>1
  <2>2. CASE v # w
    BY <1>1, <1>2, <2>2 DEF LifeInv, LateInv
  <2>3. QED
    BY <2>1, <2>2
<1>4. QED
  BY <1>1, <1>2, <1>3 DEF LateInv, AfterLate

\* A step that begins nothing, and goes on from where something has begun late.
LEMMA NothingBegins ==
  ASSUME LifeInv, UNCHANGED late, Ended => Ended',
         \A w \in Rounds : Ended /\ Of(w) \in AfterLate[w] => Of(w)' \in AfterLate[w]
  PROVE  LateInv'
  BY DEF LifeInv, LateInv, AfterLate

LEMMA LifeStep == LifeInv /\ [Next]_vars => LifeInv'
<1> SUFFICES ASSUME LifeInv, [Next]_vars PROVE LifeInv'
  OBVIOUS
<1> USE LifecycleAssumption DEF LifeInv, TypeOK, ReturnInv, ExitInv, Ended, Rounds, Services, history, Starts,
           BeginsLate
<1>1. CASE Syncer
  <2>1. CASE SyncPrefight
    BY <2>1, NothingBegins DEF SyncPrefight, SyncTo, Of, AfterLate
  <2>2. CASE SyncPrefightFails
    BY <2>2, NothingBegins DEF SyncPrefightFails, Of, AfterLate
  <2>3. CASE SyncStops
    BY <2>3, NothingBegins DEF SyncStops, SyncTo, Of, AfterLate
  <2>4. CASE SyncRun
    <3>1. /\ Of("run") = "due" /\ Of("run")' = "run" /\ BeginsLate("run") /\ Ended' = Ended
          /\ \A v \in Rounds \ {"run"} : Of(v)' = Of(v)
      BY <2>4 DEF SyncRun, SyncTo, Of
    <3>2. AfterLate["run"] = {"run", "wait", "returned"}
      BY DEF AfterLate
    <3>3. late' \in [Rounds -> Nat] /\ LateInv'
      BY <3>1, <3>2, RoundBegins
    <3>4. QED
      BY <2>4, <3>3 DEF SyncRun, SyncTo
  <2>5. CASE SyncRange
    BY <2>5, NothingBegins DEF SyncRange, More, SyncTo, Of, AfterLate
  <2>6. CASE SyncRunEnds
    BY <2>6, NothingBegins DEF SyncRunEnds, AfterRun, SyncTo, Of, AfterLate
  <2>7. QED
    BY <1>1, <2>1, <2>2, <2>3, <2>4, <2>5, <2>6 DEF Syncer
<1>2. CASE FaucetSends \/ FaucetChecks
  <2>1. late' \in [Rounds -> Nat] /\ LateInv'
    <3>1. PICK w \in {"send", "check"} :
            /\ faucet = IF w = "send" THEN "due" ELSE "paused"
            /\ faucet' = w /\ BeginsLate(w) /\ UNCHANGED <<base, failed, sync>>
      BY <1>2 DEF FaucetSends, FaucetChecks, FaucetTo
    <3>2. faucet \notin AfterLate["send"] /\ faucet \notin AfterLate["check"]
      BY <3>1 DEF AfterLate
    <3>3. \A v \in Rounds \ {w} : Of(v)' = Of(v) \/ late[v] = 0
      BY <3>1, <3>2 DEF Of, LateInv
    <3>4. Of(w) \notin AfterLate[w] /\ Of(w)' \in AfterLate[w]
      BY <3>1, <3>2 DEF Of, AfterLate
    <3>5. QED
      BY <3>1, <3>3, <3>4, RoundBegins
  <2>2. QED
    BY <1>2, <2>1 DEF FaucetSends, FaucetChecks, FaucetTo
<1>3. CASE FaucetClosed \/ FaucetDials \/ FaucetInitial \/ FaucetStops
  <2>1. CASE FaucetClosed
    BY <2>1, NothingBegins DEF FaucetClosed, FaucetTo, Of, AfterLate
  <2>2. CASE FaucetDials
    BY <2>2, NothingBegins DEF FaucetDials, FaucetTo, Of, AfterLate
  <2>3. CASE FaucetInitial
    BY <2>3, NothingBegins DEF FaucetInitial, FaucetTo, Of, AfterLate
  <2>4. CASE FaucetStops
    BY <2>4, NothingBegins DEF FaucetStops, FaucetTo, Of, AfterLate
  <2>5. QED
    BY <1>3, <2>1, <2>2, <2>3, <2>4
<1>4. CASE FaucetSendEnds \/ FaucetCheckEnds
  <2>1. CASE FaucetSendEnds
    BY <2>1, NothingBegins DEF FaucetSendEnds, FaucetTo, Of, AfterLate
  <2>2. CASE FaucetCheckEnds
    BY <2>2, NothingBegins DEF FaucetCheckEnds, FaucetTo, Of, AfterLate
  <2>3. QED
    BY <1>4, <2>1, <2>2
<1>5. ASSUME NEW where \in {"start", "initial"}, FaucetStartFails(where) PROVE LifeInv'
  <2>1. /\ UNCHANGED <<proc, base, sync, ranges, started, late>> /\ failed' = TRUE
        /\ faucet' = "returned" /\ proc = "up"
    BY <1>5 DEF FaucetStartFails
  <2>2. LateInv'
    BY <2>1, NothingBegins DEF Of, AfterLate
  <2>3. QED
    BY <2>1, <2>2
<1>6. CASE SyncTimerFires \/ FaucetTimerFires
  <2>1. CASE SyncTimerFires
    BY <2>1, NothingBegins DEF SyncTimerFires, SyncTo, Of, AfterLate
  <2>2. CASE FaucetTimerFires
    BY <2>2, NothingBegins DEF FaucetTimerFires, FaucetTo, Of, AfterLate
  <2>3. QED
    BY <1>6, <2>1, <2>2
<1>7. CASE Boot \/ BootFails \/ Signal
  <2>1. CASE Boot
    BY <2>1, NothingBegins DEF Boot, Of
  <2>2. CASE BootFails
    BY <2>2, NothingBegins DEF BootFails, Of
  <2>3. CASE Signal
    BY <2>3, NothingBegins DEF Signal, Of
  <2>4. QED
    BY <1>7, <2>1, <2>2, <2>3
<1>8. CASE Exit
  BY <1>8, NothingBegins DEF Exit, Of
<1>9. CASE Restart
  <2>1. late' = [w \in Rounds |-> 0]
    BY <1>9 DEF Restart
  <2>2. LateInv'
    BY <2>1 DEF LateInv
  <2>3. TypeOK'
    <3>1. late' \in [Rounds -> Nat]
      BY <2>1
    <3>2. base' \in BOOLEAN /\ failed' \in BOOLEAN
      BY <1>9 DEF Restart
    <3>3. QED
      BY <1>9, <3>1, <3>2 DEF Restart
  <2>4. QED
    BY <1>9, <2>2, <2>3 DEF Restart
<1>10. CASE UNCHANGED vars
  BY <1>10, NothingBegins DEF vars, Of
<1>11. QED
  BY <1>1, <1>2, <1>3, <1>4, <1>5, <1>6, <1>7, <1>8, <1>9, <1>10 DEF Next, Faucet

LEMMA LifeInvAlways == Spec => []LifeInv
  BY LifeInit, LifeStep, PTL DEF Spec

\* Each goroutine is at one of the places of Start, and the ranges of a run are
\* used up one by one.
THEOREM LifecycleTypeCorrect == Spec => []TypeOK
<1>1. LifeInv => TypeOK
  BY DEF LifeInv
<1>2. QED
  BY <1>1, LifeInvAlways, PTL

\* After a signal or a failure a select may still pick a timer that fired before,
\* but only once for each of them.
THEOREM LifecycleOneMoreRound == Spec => []OneMoreRound
<1>1. LifeInv => OneMoreRound
  BY DEF LifeInv, TypeOK, LateInv, OneMoreRound, Rounds
<1>2. QED
  BY <1>1, LifeInvAlways, PTL

LEMMA StartStep == TypeOK /\ StartInv /\ [Next]_vars => StartInv'
<1> SUFFICES ASSUME TypeOK, StartInv, [Next]_vars PROVE StartInv'
  OBVIOUS
<1> USE DEF StartInv, Starting, Services, history
<1>1. CASE proc = "up" /\ SyncPrefight
  BY <1>1 DEF SyncPrefight, SyncTo, Starts
<1>2. CASE proc = "up" /\ SyncPrefightFails
  BY <1>2 DEF SyncPrefightFails
<1>3. CASE proc = "up" /\ (SyncStops \/ SyncRun \/ SyncRange \/ SyncRunEnds)
  <2>1. UNCHANGED <<proc, failed, faucet, started>> /\ sync \notin {"start", "returned"} /\ sync' # "start"
    BY <1>3 DEF SyncStops, SyncRun, SyncRange, SyncRunEnds, AfterRun, SyncTo, BeginsLate
  <2>2. QED
    BY <2>1
<1>4. CASE proc = "up" /\ (FaucetClosed \/ FaucetInitial)
  <2>1. /\ UNCHANGED <<proc, failed, sync>> /\ faucet \in Starting /\ faucet' \in {"returned", "due"}
        /\ started' = started \cup {"faucet"}
    BY <1>4 DEF FaucetClosed, FaucetInitial, FaucetTo, Starts
  <2>2. QED
    BY <1>4, <2>1
<1>5. ASSUME NEW where \in {"start", "initial"}, FaucetStartFails(where) PROVE StartInv'
  BY <1>5 DEF FaucetStartFails
<1>6. CASE FaucetDials
  BY <1>6 DEF FaucetDials, FaucetTo
<1>7. CASE proc = "up" /\ (FaucetStops \/ FaucetSends \/ FaucetSendEnds \/ FaucetChecks \/ FaucetCheckEnds)
  <2>1. UNCHANGED <<proc, failed, sync, started>> /\ faucet \notin Starting \cup {"returned"}
        /\ faucet' \notin Starting
    BY <1>7 DEF FaucetStops, FaucetSends, FaucetSendEnds, FaucetChecks, FaucetCheckEnds, FaucetTo,
                BeginsLate
  <2>2. QED
    BY <2>1
<1>8. CASE SyncTimerFires \/ FaucetTimerFires
  <2>1. /\ UNCHANGED <<proc, failed, started>>
        /\ \/ UNCHANGED faucet /\ sync = "wait" /\ sync' = "due"
           \/ UNCHANGED sync /\ faucet \in {"wait", "pause"} /\ faucet' \in {"due", "paused"}
    BY <1>8 DEF SyncTimerFires, FaucetTimerFires, SyncTo, FaucetTo
  <2>2. QED
    BY <2>1
<1>9. CASE Boot \/ BootFails \/ Signal
  <2>1. CASE Boot
    BY <2>1 DEF Boot
  <2>2. CASE BootFails
    BY <2>2 DEF BootFails
  <2>3. CASE Signal
    BY <2>3 DEF Signal
  <2>4. QED
    BY <1>9, <2>1, <2>2, <2>3
<1>10. CASE Exit
  BY <1>10 DEF Exit, TypeOK
<1>11. CASE Restart
  BY <1>11 DEF Restart
<1>12. CASE UNCHANGED vars
  BY <1>12 DEF vars
<1>13. QED
  BY <1>1, <1>2, <1>3, <1>4, <1>5, <1>6, <1>7, <1>8, <1>9, <1>10, <1>11, <1>12 DEF Next, Syncer, Faucet

\* The process exits with 0 if and only if both services had started, and then only
\* after a signal: a goroutine fails at its start or never, the syncer returns without
\* an error only after the end of its context, and a closed faucet does not end it.
THEOREM LifecycleExitCode == Spec => []ExitCodeIsRight
<1>1. Init => StartInv
  BY DEF Init, StartInv, Starting
<1>2. TypeOK /\ StartInv /\ [Next]_vars => StartInv'
  BY StartStep
<1>3. LifeInv /\ StartInv => ExitCodeIsRight
  BY DEF LifeInv, ExitInv, Ended, StartInv, ExitCodeIsRight
<1>4. LifeInv => TypeOK
  BY DEF LifeInv
<1>5. QED
  BY <1>1, <1>2, <1>3, <1>4, LifeInvAlways, PTL DEF Spec
=============================================================================
