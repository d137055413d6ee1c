--------------------- MODULE SchedulerLifecycleProofs ---------------------
(***************************************************************************)
(* Proofs about SchedulerLifecycle, for any number of reloads and jobs.    *)
(***************************************************************************)
EXTENDS SchedulerLifecycle, TLAPS

(***************************************************************************)
(* The inductive invariant.  Crons are built in order and nothing happens  *)
(* to one before it is built; until Stop takes over, every cron but the    *)
(* loaded one is out of use, and the place of the reload goroutine tells   *)
(* what became of the loaded one.  From the moment Stop took a cron, that  *)
(* one is the only old cron in use, it stops firing and then drains, and   *)
(* whatever is loaded was built after it.                                  *)
(***************************************************************************)
BuildInv ==
    /\ cron <= built /\ held <= built
    /\ \A c \in Crons : c > built => state[c] = "absent" /\ jobs[c] = 0
    /\ hup \in {"lock", "wait"} => built < MaxCrons

OthersOut ==
    \A c \in Crons : c # cron => state[c] # "running" /\ jobs[c] = 0

UseInv ==
    main \in {"serving", "shutdown"} =>
        /\ cron # NoCron
        /\ OthersOut
        /\ hup \in {"idle", "lock"} => state[cron] = "running"
        /\ hup = "wait" => state[cron] = "stopped"

HeldInv == main \in {"stop", "drain"} => held # NoCron

LateInv ==
    main \in {"stop", "drain", "close", "exited"} =>
        /\ cron = NoCron \/ cron > held
        /\ \A c \in Crons : state[c] = "running" =>
              c = cron \/ (c = held /\ main = "stop")
        /\ \A c \in Crons : jobs[c] > 0 =>
              c = cron \/ (c = held /\ main \in {"stop", "drain"})
        /\ hup = "wait" /\ cron # NoCron => state[cron] = "stopped"

LifecycleInv == BuildInv /\ UseInv /\ HeldInv /\ LateInv

----------------------------------------------------------------------------
\* Every action keeps the types.
LEMMA TypeStep == TypeOK /\ LifecycleInv /\ [Next]_vars => TypeOK'
<1> SUFFICES ASSUME TypeOK, LifecycleInv, [Next]_vars PROVE TypeOK'
  OBVIOUS
<1> USE LifecycleAssumption DEF TypeOK, cronVars, mainVars, Crons, NoCron
<1>1. ASSUME NEW c \in Crons, Tick(c) PROVE TypeOK'
  BY <1>1 DEF Tick
<1>2. ASSUME NEW c \in Crons, JobEnds(c) PROVE TypeOK'
  BY <1>2 DEF JobEnds
<1>3. CASE Sighup
  BY <1>3 DEF Sighup
<1>4. CASE LoadConfig
  BY <1>4 DEF LoadConfig
<1>5. CASE ReloadStops
  BY <1>5 DEF ReloadStops
<1>6. CASE ReloadSwaps
  BY <1>6 DEF ReloadSwaps, LifecycleInv, BuildInv
<1>7. CASE Start
  BY <1>7 DEF Start
<1>8. CASE Sigterm
  BY <1>8 DEF Sigterm
<1>9. CASE MainStep
  BY <1>9 DEF MainStep, StopTakes, StopStops, StopDrains, CloseStore, Exit
<1>10. CASE UNCHANGED vars
  BY <1>10 DEF vars
<1> QED
  BY <1>1, <1>2, <1>3, <1>4, <1>5, <1>6, <1>7, <1>8, <1>9, <1>10 DEF Next, HupStep

\* Crons are built in order.
LEMMA BuildStep == TypeOK /\ LifecycleInv /\ [Next]_vars => BuildInv'
<1> SUFFICES ASSUME TypeOK, LifecycleInv, [Next]_vars PROVE BuildInv'
  OBVIOUS
<1> USE LifecycleAssumption DEF TypeOK, LifecycleInv, BuildInv, cronVars, mainVars, Crons, NoCron
<1>1. ASSUME NEW c \in Crons, Tick(c) PROVE BuildInv'
  BY <1>1 DEF Tick
<1>2. ASSUME NEW c \in Crons, JobEnds(c) PROVE BuildInv'
  BY <1>2 DEF JobEnds
<1>3. CASE Sighup
  BY <1>3 DEF Sighup
<1>4. CASE LoadConfig
  BY <1>4 DEF LoadConfig
<1>5. CASE ReloadStops
  BY <1>5 DEF ReloadStops
<1>6. CASE ReloadSwaps
  BY <1>6 DEF ReloadSwaps
<1>7. CASE Start
  BY <1>7 DEF Start
<1>8. CASE Sigterm
  BY <1>8 DEF Sigterm
<1>9. CASE MainStep
  <2>1. CASE StopStops
    BY <1>9, <2>1 DEF StopStops
  <2> QED
    BY <1>9, <2>1 DEF MainStep, StopTakes, StopDrains, CloseStore, Exit
<1>10. CASE UNCHANGED vars
  BY <1>10 DEF vars
<1> QED
  BY <1>1, <1>2, <1>3, <1>4, <1>5, <1>6, <1>7, <1>8, <1>9, <1>10 DEF Next, HupStep

\* Until Stop, only the loaded cron is in use.
LEMMA UseStep == TypeOK /\ LifecycleInv /\ [Next]_vars => UseInv'
<1> SUFFICES ASSUME TypeOK, LifecycleInv, [Next]_vars PROVE UseInv'
  OBVIOUS
<1> USE LifecycleAssumption
    DEF TypeOK, LifecycleInv, UseInv, OthersOut, cronVars, mainVars, Crons, NoCron
<1>1. ASSUME NEW c \in Crons, Tick(c) PROVE UseInv'
  BY <1>1 DEF Tick
<1>2. ASSUME NEW c \in Crons, JobEnds(c) PROVE UseInv'
  BY <1>2 DEF JobEnds
<1>3. CASE Sighup
  BY <1>3 DEF Sighup
<1>4. CASE LoadConfig
  BY <1>4 DEF LoadConfig
<1>5. CASE ReloadStops
  BY <1>5 DEF ReloadStops
<1>6. CASE ReloadSwaps
  <2> SUFFICES ASSUME main \in {"serving", "shutdown"} PROVE UseInv'
    BY <1>6 DEF ReloadSwaps
  <2>1. /\ cron' = built + 1 /\ hup' = "start" /\ jobs' = jobs /\ jobs[cron] = 0
        /\ state[cron] = "stopped" /\ built < MaxCrons
        /\ state' = [state EXCEPT ![built + 1] = "new"]
    BY <1>6 DEF ReloadSwaps, InFlight, BuildInv
  <2>2. OthersOut'
    BY <2>1
  <2> QED
    BY <2>1, <2>2
<1>7. CASE Start
  BY <1>7 DEF Start
<1>8. CASE Sigterm
  BY <1>8 DEF Sigterm
<1>9. CASE MainStep
  BY <1>9 DEF MainStep, StopTakes, StopStops, StopDrains, CloseStore, Exit
<1>10. CASE UNCHANGED vars
  BY <1>10 DEF vars
<1> QED
  BY <1>1, <1>2, <1>3, <1>4, <1>5, <1>6, <1>7, <1>8, <1>9, <1>10 DEF Next, HupStep

\* Stop works on a cron it took.
LEMMA HeldStep == HeldInv /\ [Next]_vars => HeldInv'
  BY DEF HeldInv, Next, HupStep, MainStep, Tick, JobEnds, Sighup, LoadConfig,
         ReloadStops, ReloadSwaps, Start, Sigterm, StopTakes,
         StopStops, StopDrains, CloseStore, Exit, vars, mainVars, cronVars

\* After Stop took its cron, every cron but that one and the loaded one is out
\* of use.
LEMMA LateStep == TypeOK /\ LifecycleInv /\ [Next]_vars => LateInv'
<1> SUFFICES ASSUME TypeOK, LifecycleInv, [Next]_vars PROVE LateInv'
  OBVIOUS
<1> USE LifecycleAssumption
    DEF TypeOK, LifecycleInv, LateInv, cronVars, mainVars, Crons, NoCron
<1>1. ASSUME NEW c \in Crons, Tick(c) PROVE LateInv'
  BY <1>1 DEF Tick
<1>2. ASSUME NEW c \in Crons, JobEnds(c) PROVE LateInv'
  BY <1>2 DEF JobEnds
<1>3. CASE Sighup
  BY <1>3 DEF Sighup
<1>4. CASE LoadConfig
  BY <1>4 DEF LoadConfig
<1>5. CASE ReloadStops
  BY <1>5 DEF ReloadStops
<1>6. CASE ReloadSwaps
  BY <1>6 DEF ReloadSwaps, InFlight, BuildInv
<1>7. CASE Start
  BY <1>7 DEF Start
<1>8. CASE Sigterm
  BY <1>8 DEF Sigterm
<1>9. CASE StopTakes
  BY <1>9 DEF StopTakes, UseInv, OthersOut
<1>10. CASE StopStops
  BY <1>10 DEF StopStops, HeldInv
<1>11. CASE StopDrains \/ CloseStore \/ Exit
  BY <1>11 DEF StopDrains, CloseStore, Exit
<1>12. CASE UNCHANGED vars
  BY <1>12 DEF vars
<1> QED
  BY <1>1, <1>2, <1>3, <1>4, <1>5, <1>6, <1>7, <1>8, <1>9, <1>10, <1>11, <1>12
     DEF Next, HupStep, MainStep

----------------------------------------------------------------------------
\* The inductive invariant holds in every state of the scheduler.
THEOREM Invariance == Spec => [](TypeOK /\ LifecycleInv)
<1>1. Init => TypeOK /\ LifecycleInv
  <2> SUFFICES ASSUME Init PROVE TypeOK /\ LifecycleInv
    OBVIOUS
  <2> USE LifecycleAssumption DEF Init, Crons, NoCron
  <2>1. TypeOK
    <3>1. signalled \in BOOLEAN
      BY Zenon DEF Init
    <3>2. cron \in Crons \cup {NoCron} /\ built \in Crons /\ held \in Crons \cup {NoCron}
      OBVIOUS
    <3>3. state \in [Crons -> {"absent", "new", "running", "stopped"}]
      BY Zenon DEF Init
    <3>4. jobs \in [Crons -> 0..MaxJobs]
      <4>1. 0 \in 0..MaxJobs
        OBVIOUS
      <4> QED
        BY <4>1, Zenon
    <3> QED
      BY <3>1, <3>2, <3>3, <3>4 DEF TypeOK
  <2>2. BuildInv
    BY DEF BuildInv
  <2>3. UseInv /\ HeldInv /\ LateInv
    BY DEF UseInv, OthersOut, HeldInv, LateInv
  <2> QED
    BY <2>1, <2>2, <2>3 DEF LifecycleInv
<1>2. TypeOK /\ LifecycleInv /\ [Next]_vars => (TypeOK /\ LifecycleInv)'
  BY TypeStep, BuildStep, UseStep, HeldStep, LateStep DEF LifecycleInv
<1> QED
  BY <1>1, <1>2, PTL DEF Spec

\* The scheduler's variables keep their types.
THEOREM TypeCorrect == Spec => []TypeOK
  BY Invariance, PTL

\* Reload never lets two schedule sets fire, nor a new set fire while jobs of
\* an old one run.
THEOREM OneScheduleSet == Spec => []OneSetAtATime
<1>1. TypeOK /\ LifecycleInv => OneSetAtATime
  BY DEF LifecycleInv, UseInv, OthersOut, OneSetAtATime, TypeOK, Crons
<1> QED
  BY <1>1, Invariance, PTL

\* Between reloads the loaded set fires, after a rejected file too.
THEOREM LoadedScheduleFires == Spec => []LoadedSetFires
<1>1. LifecycleInv => LoadedSetFires
  BY DEF LifecycleInv, UseInv, LoadedSetFires
<1> QED
  BY <1>1, Invariance, PTL

\* Once Stop has returned, the sets that were loaded when it was called are
\* silent and drained.
THEOREM LateFiringIsReloaded == Spec => []LateFiringHasCause
<1>1. TypeOK /\ LifecycleInv => LateFiringHasCause
  BY DEF LifecycleInv, LateInv, LateFiringHasCause, TypeOK, Crons, NoCron
<1> QED
  BY <1>1, Invariance, PTL
=============================================================================
