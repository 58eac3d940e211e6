------------------------------ MODULE Lifecycle ------------------------------
(***************************************************************************)
(* The life of the process: what main starts, the contexts it hands out,   *)
(* the timers of the two goroutines, and how everything ends.  `basectx`   *)
(* ends with a signal, `egctx` ends with it or when a goroutine of the     *)
(* error group fails.  The syncer runs under `basectx` and looks at        *)
(* `egctx` between its runs only; the faucet runs under `egctx`.           *)
(*                                                                         *)
(* Every call but two has a time limit of its own.  The two that ask for a *)
(* chain id may never return: there is no fairness for them.               *)
(***************************************************************************)
EXTENDS Naturals

CONSTANT MaxRanges \* bound: the ranges that a run of the syncer has to sync

ASSUME LifecycleAssumption == MaxRanges \in Nat

VARIABLES
  proc,   \* "boot": main before the error group, "up", "exited"
  base,   \* basectx has ended
  failed, \* main or a function of the error group has failed
  sync,   \* where the syncer is; "wait": its timer runs, "due": it has fired
  ranges, \* how many ranges the syncer's run has left
  faucet, \* where the faucet is; "paused": the five seconds of "pause" are over
  started, \* history: the services that have started, or have nothing to do
  late     \* history: what was begun after egctx had ended, and how often

history == <<started, late>>
vars    == <<proc, base, failed, sync, ranges, faucet, history>>

Services == {"sync", "faucet"}

\* Mutants: an error does not reach the other goroutine; a function that
\* returns ends the context, be it without an error.
EndedBySignal    == base
EndedByAnyReturn == base \/ failed \/ "returned" \in {sync, faucet}

\* egctx has ended.
Ended == base \/ failed

BeginsLate(what) == /\ late' = IF Ended THEN [late EXCEPT ![what] = @ + 1] ELSE late
                    /\ UNCHANGED started

Starts(service) == started' = started \cup {service} /\ UNCHANGED late

-----------------------------------------------------------------------------
(* The syncer's goroutine *)

SyncTo(where) == sync' = where /\ UNCHANGED <<proc, base, failed, faucet>>

SyncPrefight == sync = "start" /\ ~Ended /\ SyncTo("due") /\ Starts("sync") /\ UNCHANGED ranges

SyncPrefightFails ==
  /\ sync = "start" /\ sync' = "returned" /\ failed' = TRUE
  /\ UNCHANGED <<proc, base, ranges, faucet, history>>

SyncStops == sync \in {"wait", "due"} /\ Ended /\ SyncTo("returned") /\ UNCHANGED <<ranges, history>>

\* A timer fires, but not while its goroutine can see that its context has
\* ended: a goroutine that can run does so before a whole period is over.
SyncTimerFires == sync = "wait" /\ ~Ended /\ SyncTo("due") /\ UNCHANGED <<ranges, history>>

\* The select may pick the timer although egctx has ended too.
SyncRun == sync = "due" /\ SyncTo("run") /\ ranges' \in 0..MaxRanges /\ BeginsLate("run")

More == ranges > 0

\* A range is synced, whatever has become of egctx.
SyncRange == sync = "run" /\ More /\ ~base /\ SyncTo("run") /\ ranges' = ranges - 1 /\ UNCHANGED history

\* Mutant: the next run is due at once.
AfterRunDue == "due"

AfterRun == "wait"

\* All is synced, or a call fails, as it does once basectx has ended.
SyncRunEnds == sync = "run" /\ SyncTo(AfterRun) /\ ranges' = 0 /\ UNCHANGED history

Syncer == /\ proc = "up"
          /\ \/ SyncPrefight \/ SyncPrefightFails \/ SyncStops
             \/ SyncRun \/ SyncRange \/ SyncRunEnds

-----------------------------------------------------------------------------
(* The faucet's goroutine *)

FaucetTo(where) == faucet' = where /\ UNCHANGED <<proc, base, failed, sync, ranges>>

\* A closed faucet returns at once and without an error.
FaucetClosed == faucet = "closed" /\ FaucetTo("returned") /\ Starts("faucet")

\* The L2 node tells its chain id, under a context that never ends.
FaucetDials == proc = "up" /\ faucet = "start" /\ FaucetTo("initial") /\ UNCHANGED history

FaucetInitial == faucet = "initial" /\ ~Ended /\ FaucetTo("due") /\ Starts("faucet")

\* The wrong chain, no key, or Initial fails.
FaucetStartFails(where) ==
  /\ proc = "up" /\ faucet = where /\ faucet' = "returned" /\ failed' = TRUE
  /\ UNCHANGED <<proc, base, sync, ranges, history>>

FaucetStops ==
  /\ faucet \in {"wait", "due", "pause", "paused"} /\ Ended
  /\ FaucetTo("returned") /\ UNCHANGED history

FaucetSends == faucet = "due" /\ FaucetTo("send") /\ BeginsLate("send")

\* SendDrips returns, and five seconds begin.
FaucetSendEnds == faucet = "send" /\ FaucetTo("pause") /\ UNCHANGED history

FaucetChecks == faucet = "paused" /\ FaucetTo("check") /\ BeginsLate("check")

FaucetCheckEnds == faucet = "check" /\ FaucetTo("wait") /\ UNCHANGED history

\* As SyncTimerFires; at the end of a minute, or of the five seconds.
FaucetTimerFires ==
  /\ faucet \in {"wait", "pause"} /\ ~Ended
  /\ FaucetTo(IF faucet = "wait" THEN "due" ELSE "paused") /\ UNCHANGED history

\* What the faucet does without waiting for the chain id.
Faucet == /\ proc = "up"
          /\ \/ FaucetClosed \/ FaucetInitial \/ FaucetStartFails("initial") \/ FaucetStops
             \/ FaucetSends \/ FaucetSendEnds \/ FaucetChecks \/ FaucetCheckEnds

-----------------------------------------------------------------------------
(* main *)

\* The database and the L1 node answer, and the two goroutines start.
Boot == proc = "boot" /\ proc' = "up" /\ UNCHANGED <<base, failed, sync, ranges, faucet, history>>

BootFails ==
  /\ proc = "boot" /\ proc' = "exited" /\ failed' = TRUE
  /\ UNCHANGED <<base, sync, ranges, faucet, history>>

\* SIGINT or SIGTERM: cancel() ends both contexts.  A second one does nothing.
Signal == proc # "exited" /\ ~base /\ base' = TRUE /\ UNCHANGED <<proc, failed, sync, ranges, faucet, history>>

\* eg.Wait returns when both goroutines have; the exit code tells `failed`.
Exit ==
  /\ proc = "up" /\ sync = "returned" /\ faucet = "returned"
  /\ proc' = "exited" /\ UNCHANGED <<base, failed, sync, ranges, faucet, history>>

Init == /\ proc = "boot" /\ base = FALSE /\ failed = FALSE
        /\ sync = "start" /\ ranges = 0
        /\ faucet \in {"closed", "start"} \* -faucet
        /\ started = {} /\ late = [w \in {"run", "send", "check"} |-> 0]

\* The container is started again, perhaps with the faucet opened or closed.
Restart == /\ proc = "exited" /\ proc' = "boot" /\ base' = FALSE /\ failed' = FALSE
           /\ sync' = "start" /\ ranges' = 0
           /\ faucet' \in {"closed", "start"}
           /\ started' = {} /\ late' = [w \in DOMAIN late |-> 0]

Next == \/ Boot \/ BootFails \/ Signal \/ Exit \/ Restart
        \/ Syncer \/ SyncTimerFires
        \/ Faucet \/ FaucetTimerFires \/ FaucetDials \/ FaucetStartFails("start")

Spec == Init /\ [][Next]_vars

\* Goroutines that can run do, and every call with a time limit returns.
Fairness == WF_vars(Syncer) /\ WF_vars(Faucet) /\ WF_vars(Exit)

FairSpec == Spec /\ Fairness

-----------------------------------------------------------------------------
(* Properties *)

TypeOK ==
  /\ proc \in {"boot", "up", "exited"} /\ base \in BOOLEAN /\ failed \in BOOLEAN
  /\ sync \in {"start", "wait", "due", "run", "returned"} /\ ranges \in 0..MaxRanges
  /\ faucet \in {"closed", "start", "initial", "wait", "due", "send", "pause", "paused",
                 "check", "returned"}
  /\ started \subseteq Services /\ late \in [{"run", "send", "check"} -> Nat]

\* After the process has to end, at most one more run, one more SendDrips and
\* one more CheckDrips begin, because a `select` may pick a timer that fired
\* before: the timers are reset after the work they start.
OneMoreRound == \A w \in DOMAIN late : late[w] <= 1

\* The process exits with 0 if both services had started, and then only because it was
\* asked to: neither a closed faucet nor a goroutine's early return ends it, and no
\* error comes up once they run.  If one had not, be it for a signal that came while
\* it was about to, the process exits with 1, also if the other ran on for long.
ExitCodeIsRight == proc = "exited" => /\ failed <=> started # Services
                                      /\ ~failed => base

\* What main waits for without a time limit.
AsksChainId == proc = "boot" \/ faucet = "start"

\* A signal ends the process, from wherever its goroutines are, and so does an
\* error of either goroutine, although the syncer does not look at the error
\* group's context before its run is over: unless one asks for a chain id.
ProcessEnds ==
  (base \/ failed) /\ proc # "exited" ~> (proc = "exited" \/ AsksChainId)
=============================================================================
