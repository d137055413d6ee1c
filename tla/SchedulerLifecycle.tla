------------------------ MODULE SchedulerLifecycle ------------------------
(***************************************************************************)
(* The in-process scheduler of wanderer serve: the main goroutine          *)
(* (cmd/wanderer/serve.go) that starts it and stops it on SIGTERM, the     *)
(* goroutine that reloads it on SIGHUP, and the jobs its cron starts, with *)
(* Reload, Start and Stop (internal/scheduler/scheduler.go) split at the   *)
(* places where another goroutine can come in between.                     *)
(*                                                                         *)
(* Every Reload builds a new cron; they are numbered.  The cron library    *)
(* never skips a tick because an earlier job of the schedule still runs.   *)
(***************************************************************************)
EXTENDS Naturals, FiniteSets

CONSTANTS
    MaxCrons,           \* bound: crons built in one run of the process
    MaxJobs             \* bound: jobs of one cron in flight

ASSUME LifecycleAssumption == MaxCrons \in Nat \ {0} /\ MaxJobs \in Nat \ {0}

Crons == 1..MaxCrons
NoCron == 0

VARIABLES
    mu,                 \* holder of Scheduler.mu across a wait: "free" or "hup"
    cron,               \* Scheduler.cron
    built,              \* number of crons built so far
    state,              \* state[c]: "absent", "new", "running" or "stopped"
    jobs,               \* jobs[c]: jobs of c in flight
    signalled,          \* the SIGHUP channel, buffered for one signal
    hup,                \* where the reload goroutine is
    main,               \* where the main goroutine is
    held,               \* the cron Stop took
    store               \* "open" or "closed"

cronVars == <<cron, built, state, jobs>>
mainVars == <<main, held, store>>
vars == <<mu, cronVars, signalled, hup, mainVars>>

\* runServe has called Reload and Start before anything else runs.
Init ==
    /\ mu = "free"
    /\ cron = 1 /\ built = 1
    /\ state = [c \in Crons |-> IF c = 1 THEN "running" ELSE "absent"]
    /\ jobs = [c \in Crons |-> 0]
    /\ signalled = FALSE /\ hup = "idle"
    /\ main = "serving" /\ held = NoCron
    /\ store = "open"

Alive == main # "exited"
InFlight(c) == IF c = NoCron THEN 0 ELSE jobs[c]

----------------------------------------------------------------------------
(* Jobs.                                                                   *)

\* A cron entry is due.
Tick(c) ==
    /\ Alive /\ state[c] = "running" /\ jobs[c] < MaxJobs
    /\ jobs' = [jobs EXCEPT ![c] = @ + 1]
    /\ UNCHANGED <<mu, cron, built, state, signalled, hup, mainVars>>

\* The job returns; its own timeout sees to that.
JobEnds(c) ==
    /\ Alive /\ jobs[c] > 0
    /\ jobs' = [jobs EXCEPT ![c] = @ - 1]
    /\ UNCHANGED <<mu, cron, built, state, signalled, hup, mainVars>>

----------------------------------------------------------------------------
(* SIGHUP.                                                                 *)

\* A signal that finds the buffer full is dropped.
Sighup ==
    /\ Alive /\ ~signalled
    /\ signalled' = TRUE
    /\ UNCHANGED <<mu, cronVars, hup, mainVars>>

\* The goroutine takes the signal and reads the schedules file.  A file that
\* cannot be read or is not valid changes nothing.
LoadConfig ==
    /\ Alive /\ hup = "idle" /\ signalled
    /\ signalled' = FALSE
    /\ hup' \in {"idle"} \cup (IF built < MaxCrons THEN {"lock"} ELSE {})
    /\ UNCHANGED <<mu, cronVars, mainVars>>

\* Reload takes the mutex and stops the cron there is ...
ReloadStops ==
    /\ Alive /\ hup = "lock" /\ mu = "free"
    /\ mu' = "hup" /\ hup' = "wait"
    /\ state' = IF cron = NoCron THEN state
                ELSE [state EXCEPT ![cron] = "stopped"]
    /\ UNCHANGED <<cron, built, jobs, signalled, mainVars>>

\* Mutant: Reload does not wait for the jobs in flight.
ReloadSwapsAtOnce ==
    /\ Alive /\ hup = "wait"
    /\ built' = built + 1 /\ cron' = built + 1
    /\ state' = [state EXCEPT ![built + 1] = "new"]
    /\ mu' = "free" /\ hup' = "start"
    /\ UNCHANGED <<jobs, signalled, mainVars>>

\* Mutant: the mutex is not released.
ReloadKeepsMutex ==
    /\ Alive /\ hup = "wait"
    /\ InFlight(cron) = 0
    /\ built' = built + 1 /\ cron' = built + 1
    /\ state' = [state EXCEPT ![built + 1] = "new"]
    /\ hup' = "start"
    /\ UNCHANGED <<mu, jobs, signalled, mainVars>>

\* ... waits for its jobs, builds the new one and releases the mutex.
ReloadSwaps ==
    /\ Alive /\ hup = "wait"
    /\ InFlight(cron) = 0
    /\ built' = built + 1 /\ cron' = built + 1
    /\ state' = [state EXCEPT ![built + 1] = "new"]
    /\ mu' = "free" /\ hup' = "start"
    /\ UNCHANGED <<jobs, signalled, mainVars>>

\* Start: nothing when Stop came in between.
Start ==
    /\ Alive /\ hup = "start" /\ mu = "free"
    /\ state' = IF cron = NoCron THEN state
                ELSE [state EXCEPT ![cron] = "running"]
    /\ hup' = "idle"
    /\ UNCHANGED <<mu, cron, built, jobs, signalled, mainVars>>

----------------------------------------------------------------------------
(* SIGINT or SIGTERM, and the deferred calls of runServe.                  *)

Sigterm ==
    /\ main = "serving"
    /\ main' = "shutdown"
    /\ UNCHANGED <<mu, cronVars, signalled, hup, held, store>>

\* srv.Shutdown returns; Stop takes the cron under the mutex ...
StopTakes ==
    /\ main = "shutdown" /\ mu = "free"
    /\ held' = cron /\ cron' = NoCron
    /\ main' = IF cron = NoCron THEN "close" ELSE "stop"
    /\ UNCHANGED <<mu, built, state, jobs, signalled, hup, store>>

\* ... stops it outside the mutex ...
StopStops ==
    /\ main = "stop"
    /\ state' = [state EXCEPT ![held] = "stopped"]
    /\ main' = "drain"
    /\ UNCHANGED <<mu, cron, built, jobs, signalled, hup, held, store>>

\* Mutant: Stop returns while jobs are in flight.
StopDrainsNothing ==
    /\ main = "drain"
    /\ main' = "close"
    /\ UNCHANGED <<mu, cronVars, signalled, hup, held, store>>

\* ... and waits for its jobs; runServe passes context.Background().
StopDrains ==
    /\ main = "drain" /\ jobs[held] = 0
    /\ main' = "close"
    /\ UNCHANGED <<mu, cronVars, signalled, hup, held, store>>

CloseStore ==
    /\ main = "close" /\ store = "open"
    /\ store' = "closed"
    /\ UNCHANGED <<mu, cronVars, signalled, hup, main, held>>

Exit ==
    /\ main = "close" /\ store = "closed"
    /\ main' = "exited"
    /\ UNCHANGED <<mu, cronVars, signalled, hup, held, store>>

----------------------------------------------------------------------------
HupStep == LoadConfig \/ ReloadStops \/ ReloadSwaps \/ Start
MainStep == StopTakes \/ StopStops \/ StopDrains \/ CloseStore \/ Exit

Next ==
    \/ \E c \in Crons : Tick(c) \/ JobEnds(c)
    \/ Sighup \/ HupStep \/ Sigterm \/ MainStep

Spec == Init /\ [][Next]_vars

\* Jobs end, both goroutines run, and Stop gets the mutex when it is free
\* again and again (sync.Mutex is starvation free).
Fairness ==
    /\ WF_vars(HupStep) /\ WF_vars(MainStep) /\ SF_vars(StopTakes)
    /\ \A c \in Crons : WF_vars(JobEnds(c))
FairSpec == Spec /\ Fairness

----------------------------------------------------------------------------
(* Properties.                                                             *)

\* The values each variable takes.
TypeOK ==
    /\ mu \in {"free", "hup"}
    /\ cron \in Crons \cup {NoCron} /\ built \in Crons
    /\ state \in [Crons -> {"absent", "new", "running", "stopped"}]
    /\ jobs \in [Crons -> 0..MaxJobs]
    /\ signalled \in BOOLEAN
    /\ hup \in {"idle", "lock", "wait", "start"}
    /\ main \in {"serving", "shutdown", "stop", "drain", "close", "exited"}
    /\ held \in Crons \cup {NoCron}
    /\ store \in {"open", "closed"}

\* "Existing in-flight jobs run to completion; future ticks use the new set"
\* (Reload): until Stop, one schedule set at most fires or has jobs in flight,
\* and it is the loaded one.
OneSetAtATime ==
    main \in {"serving", "shutdown"} =>
        \A c \in Crons : state[c] = "running" \/ jobs[c] > 0 => c = cron

\* "Startup: ... registers the jobs" and "SIGHUP: ... subsequent ticks use the
\* new set" (docs/how-to/scheduling.md): while the server runs and no reload
\* is under way, the loaded set fires, after a rejected file too.
LoadedSetFires ==
    main \in {"serving", "shutdown"} /\ hup \in {"idle", "lock"} =>
        cron # NoCron /\ state[cron] = "running"

\* A SIGHUP that was taken ends in a started set, however long jobs run and
\* whatever the main goroutine does, unless the process exits.
ReloadCompletes == hup = "lock" ~> hup = "idle" \/ main = "exited"

\* "SIGINT / SIGTERM" (docs/how-to/scheduling.md): the process exits, also
\* when the signal arrives in the middle of a reload.
ShutdownCompletes == main = "shutdown" ~> main = "exited"

\* "Lifecycle: New -> Reload -> Start -> (SIGHUP -> Reload) -> Stop", "Stop
\* blocks until all in-flight jobs finish" (internal/scheduler/scheduler.go):
\* once Stop has returned, every set that was loaded when it was called is
\* silent and drained; what still fires or runs is one set, built by a reload
\* that got the mutex after Stop, which nothing in the code prevents.
LateFiringHasCause ==
    main \in {"close", "exited"} =>
        \A c \in Crons : state[c] = "running" \/ jobs[c] > 0 =>
            c > held /\ c = cron
=============================================================================
