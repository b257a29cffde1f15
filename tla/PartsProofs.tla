----------------------------- MODULE PartsProofs -----------------------------
(***************************************************************************)
(* Proofs about the components that are specified on their own: Lifecycle,  *)
(* Adaptive, TokenCache, ObjectStore, Visibility, GeoCover, FanetParser and *)
(* SpatialIndex. They share no state: each section has the inductive        *)
(* invariant of one of them, a lemma per action, and its theorems. The last *)
(* section is about MCParts, where they stand side by side with PilotStore  *)
(* and TrackFilter.                                                        *)
(***************************************************************************)
EXTENDS FanetParser, MCParts, PilotStoreProofs, TrackFilterProofs,
        SequenceTheorems, FiniteSetTheorems, NaturalsInduction, WellFoundedInduction, TLAPS

-----------------------------------------------------------------------------
(***************************************************************************)
(* What Lifecycle guarantees for any number of attempts and of handlers.    *)
(*                                                                         *)
(* HandlersEndFirst is not inductive: that no queue is closed under a       *)
(* handler follows from the order of the calls of main, and ShutIn says     *)
(* what holds from each of them on.                                        *)
(***************************************************************************)

\* Attempts are made only while there is one left.
AttemptLeft == phase \in {"redis", "mysql"} => attempts < MaxAttempts

\* From Disconnect on there is no connection, from the end of the wait on no handler, and
\* the queues are closed after that.
ShutIn ==
  /\ ~lateDial /\ phase \in {"wait", "stop", "close"} => link = "down"
  /\ ~lateDial /\ phase \in {"stop", "close"} => AllIdle
  /\ writer = "closed" => phase = "close"
  /\ ended = "panic" => lateDial

ProcessInv == LifecycleTypeOK /\ AttemptLeft /\ ShutIn

-----------------------------------------------------------------------------
(* Every step of the process keeps ProcessInv.                              *)

ProcessFlags == connected \in BOOLEAN /\ subscribed \in BOOLEAN /\ lateDial \in BOOLEAN

LEMMA ProcessInitHolds == LifecycleInit => ProcessInv
<1>1. LifecycleInit => ProcessFlags
  BY Zenon DEF LifecycleInit, ProcessFlags
<1>. QED
  BY <1>1, LifecycleAssumption
  DEF ProcessFlags, LifecycleInit, ProcessInv, LifecycleTypeOK, AttemptLeft, ShutIn, AllIdle, Stopping

\* The start, which is over when main waits for the signal, and the goroutines that it
\* leaves behind, which end the process or touch nothing that ShutIn speaks of.
LEMMA StartKeeps ==
  ASSUME ProcessInv, Active,
         \/ PingRedis \/ ReachMySQL \/ MissMySQL \/ NoMySQL \/ StartServer \/ StartMQTT
         \/ StartReturns \/ EndLoading
  PROVE  ProcessInv'
<1>. USE LifecycleAssumption
     DEF Active, ProcessInv, LifecycleTypeOK, AttemptLeft, ShutIn, Stopping, AllIdle,
         mqttVars, startVars
<1>1. CASE PingRedis
  BY <1>1 DEF PingRedis
<1>2. CASE ReachMySQL
  BY <1>2 DEF ReachMySQL
<1>3. CASE MissMySQL
  BY <1>3 DEF MissMySQL
<1>4. CASE NoMySQL
  BY <1>4 DEF NoMySQL
<1>5. CASE StartServer
  BY <1>5 DEF StartServer
<1>6. CASE StartMQTT
  BY <1>6 DEF StartMQTT
<1>7. CASE StartReturns
  BY <1>7 DEF StartReturns
<1>8. CASE EndLoading
  BY <1>8 DEF EndLoading
<1>. QED
  BY <1>1, <1>2, <1>3, <1>4, <1>5, <1>6, <1>7, <1>8

\* The connection comes up again only where the library still wants one, which Disconnect
\* ends unless Connect has yet to ask for it.
LEMMA ClientKeeps ==
  ASSUME ProcessInv, Active,
         Dial \/ LinkUp \/ LinkLost \/ EndConnect \/ OnConnect \/ OnLost
  PROVE  ProcessInv'
<1>. USE LifecycleAssumption
     DEF Active, ProcessInv, LifecycleTypeOK, AttemptLeft, ShutIn, Stopping, AllIdle, startVars
<1>1. CASE Dial
  <2>1. ProcessFlags'
    BY <1>1, Zenon DEF Dial, ProcessFlags
  <2>2. ShutIn'
    BY <1>1 DEF Dial
  <2>. QED
    BY <1>1, <2>1, <2>2 DEF Dial, ProcessFlags
<1>2. CASE LinkUp
  BY <1>2 DEF LinkUp
<1>3. CASE LinkLost
  <2>1. ProcessFlags'
    BY <1>3, Zenon DEF LinkLost, ProcessFlags
  <2>. QED
    BY <1>3, <2>1 DEF LinkLost, ProcessFlags
<1>4. CASE EndConnect
  BY <1>4 DEF EndConnect
<1>5. CASE OnConnect
  <2>1. ProcessFlags'
    BY <1>5, Zenon DEF OnConnect, ProcessFlags
  <2>. QED
    BY <1>5, <2>1 DEF OnConnect, ProcessFlags
<1>6. CASE OnLost
  <2>1. ProcessFlags'
    BY <1>6, Zenon DEF OnLost, ProcessFlags
  <2>. QED
    BY <1>6, <2>1 DEF OnLost, ProcessFlags
<1>. QED
  BY <1>1, <1>2, <1>3, <1>4, <1>5, <1>6

\* A handler starts only while there is a connection, and meets a closed queue only when
\* it outlives the wait.
LEMMA HandlersKeep ==
  ASSUME ProcessInv, Active, NEW w \in Worker,
         Deliver(w) \/ HandleRedis(w) \/ HandleQueue(w)
  PROVE  ProcessInv'
<1>. USE LifecycleAssumption
     DEF Active, ProcessInv, LifecycleTypeOK, AttemptLeft, ShutIn, Stopping, AllIdle,
         mqttVars, startVars, Work
<1>1. CASE Deliver(w)
  BY <1>1 DEF Deliver
<1>2. CASE HandleRedis(w)
  BY <1>2 DEF HandleRedis
<1>3. CASE HandleQueue(w)
  <2>1. ended' = "panic" => lateDial
    BY <1>3 DEF HandleQueue
  <2>. QED
    BY <1>3, <2>1 DEF HandleQueue
<1>. QED
  BY <1>1, <1>2, <1>3

LEMMA StopKeeps ==
  ASSUME ProcessInv, Active,
         \/ Signal \/ ShutdownReturns \/ Disconnect \/ WaitForHandlers \/ StopWriter
         \/ CloseAll
  PROVE  ProcessInv'
<1>. USE LifecycleAssumption
     DEF Active, ProcessInv, LifecycleTypeOK, AttemptLeft, ShutIn, Stopping, AllIdle,
         mqttVars, startVars, Then
<1>1. CASE Signal
  BY <1>1 DEF Signal
<1>2. CASE ShutdownReturns
  BY <1>2 DEF ShutdownReturns
<1>3. CASE Disconnect
  BY <1>3 DEF Disconnect
<1>4. CASE WaitForHandlers
  BY <1>4 DEF WaitForHandlers
<1>5. CASE StopWriter
  BY <1>5 DEF StopWriter
<1>6. CASE CloseAll
  BY <1>6 DEF CloseAll
<1>. QED
  BY <1>1, <1>2, <1>3, <1>4, <1>5, <1>6

LEMMA ProcessStepKeeps == ProcessInv /\ [LifecycleNext]_lifecycleVars => ProcessInv'
<1>. SUFFICES ASSUME ProcessInv, [LifecycleNext]_lifecycleVars
              PROVE  ProcessInv'
  OBVIOUS
<1>1. CASE UNCHANGED lifecycleVars
  BY <1>1 DEF lifecycleVars, startVars, mqttVars, ProcessInv, LifecycleTypeOK, AttemptLeft,
              ShutIn, AllIdle
<1>2. CASE LifecycleNext
  BY <1>2, StartKeeps, ClientKeeps, HandlersKeep, StopKeeps DEF LifecycleNext
<1>. QED
  BY <1>1, <1>2

-----------------------------------------------------------------------------
(* Theorems.                                                                *)

LEMMA AlwaysProcessInv == LifecycleSpec => []ProcessInv
BY ProcessInitHolds, ProcessStepKeeps, PTL DEF LifecycleSpec

\* The process is always in one of the states that the code names, after no more attempts
\* to reach MySQL than initializeMySQLWithRetry makes.
THEOREM LifecycleTypeCorrect == LifecycleSpec => []LifecycleTypeOK
<1>1. ProcessInv => LifecycleTypeOK
  BY DEF ProcessInv
<1>. QED
  BY <1>1, AlwaysProcessInv, PTL

\* However many handlers are at work and whatever the connection does, the batch writer is
\* stopped after the last of them, and none queues a record into a closed channel - unless
\* Connect calls the library only after Disconnect (the end of main, Disconnect, Stop).
THEOREM StopFollowsHandlers == LifecycleSpec => []HandlersEndFirst
<1>1. ProcessInv => HandlersEndFirst
  BY DEF ProcessInv, ShutIn, HandlersEndFirst
<1>. QED
  BY <1>1, AlwaysProcessInv, PTL

-----------------------------------------------------------------------------
(***************************************************************************)
(* What Adaptive guarantees for any scores, intervals and timers.           *)
(*                                                                         *)
(* UpdateIsArmed is inductive with the types, once the arithmetic of the    *)
(* intervals is done: however the moving average falls, an interval is      *)
(* within the two bounds, so a timer is always armed for a time to come.    *)
(***************************************************************************)

\* A client that has left is not in the map, and does not come back.
GoneForGood == gone => ~registered

ScheduleInv == AdaptiveTypeOK /\ UpdateIsArmed /\ GoneForGood

-----------------------------------------------------------------------------
(* The arithmetic.                                                          *)

\* Part of a range, in hundredths, is no more than the range.
LEMMA Hundredths ==
  ASSUME NEW k \in 0..100, NEW n \in Nat, k \in {0, 1, 4, 9, 16, 25, 36, 49, 64, 81, 100}
  PROVE  (k * n) \div 100 \in 0..n
OBVIOUS

LEMMA IntervalBounded ==
  ASSUME NEW score \in 0..10
  PROVE  Interval(score) \in MinInterval..MaxInterval
<1>. DEFINE k == (10 - score) * (10 - score)
            n == MaxInterval - MinInterval
<1>1. k \in {0, 1, 4, 9, 16, 25, 36, 49, 64, 81, 100}
  <2>1. score \in {0, 1, 2, 3, 4, 5, 6, 7, 8, 9, 10}
    OBVIOUS
  <2>. QED
    BY <2>1
<1>2. n \in Nat
  BY AdaptiveAssumption
<1>3. (k * n) \div 100 \in 0..n
  <2>. HIDE DEF k, n
  <2>. QED
    BY <1>1, <1>2, Hundredths
<1>. QED
  BY <1>3, AdaptiveAssumption DEF Interval

LEMMA SmoothedBounded ==
  ASSUME NEW old \in 0..10, NEW new \in 0..10
  PROVE  Smoothed(old, new) \in 0..10
BY DEF Smoothed

-----------------------------------------------------------------------------
(* Every step keeps ScheduleInv.                                            *)

ScheduleFlags == registered \in BOOLEAN /\ gone \in BOOLEAN /\ signal \in BOOLEAN
TimerSet      == [Timer -> [state : {"off", "armed", "running"}, steps : 0..MaxInterval]]
Schedules     == [interval : 0..MaxInterval, score : 0..10, next : -1..MaxInterval, timer : Timer]

\* What is left to show of the types when the timers and the schedule are as they were, or
\* have been shown to be of theirs.
LEMMA TypesOf ==
  AdaptiveTypeOK <=> timers \in TimerSet /\ schedule \in Schedules /\ ScheduleFlags
BY DEF AdaptiveTypeOK, TimerSet, Schedules, ScheduleFlags

LEMMA TimerStates ==
  /\ Off \in [state : {"off", "armed", "running"}, steps : 0..MaxInterval]
  /\ Running \in [state : {"off", "armed", "running"}, steps : 0..MaxInterval]
  /\ \A n \in 0..MaxInterval :
       After(n) \in [state : {"off", "armed", "running"}, steps : 0..MaxInterval]
BY AdaptiveAssumption DEF Off, Running, After

LEMMA StoppedTimers ==
  ASSUME timers \in TimerSet, NEW t \in Timer
  PROVE  Stopped(t) \in TimerSet
<1>1. CASE t \in Armed
  BY <1>1, TimerStates DEF Stopped, TimerSet
<1>2. CASE t \notin Armed
  BY <1>2 DEF Stopped
<1>. QED
  BY <1>1, <1>2

LEMMA ScheduleInitHolds == AdaptiveInit => ScheduleInv
<1>. SUFFICES ASSUME AdaptiveInit
              PROVE  ScheduleInv
  OBVIOUS
<1>1. ScheduleFlags
  BY Zenon DEF AdaptiveInit, ScheduleFlags
<1>2. (CHOOSE t \in Timer : TRUE) \in Timer
  BY AdaptiveAssumption
<1>3. schedule \in Schedules
  BY <1>2, AdaptiveAssumption DEF AdaptiveInit, Schedules
<1>4. timers \in TimerSet
  BY TimerStates DEF AdaptiveInit, TimerSet
<1>5. UpdateIsArmed /\ GoneForGood
  BY DEF AdaptiveInit, UpdateIsArmed, GoneForGood
<1>. QED
  BY <1>1, <1>3, <1>4, <1>5, TypesOf DEF ScheduleInv

LEMMA RegisterKeeps ==
  ASSUME ScheduleInv, NEW score \in 0..10, RegisterClient(score)
  PROVE  ScheduleInv'
<1>. PICK t \in Free :
       /\ schedule' = [interval |-> Interval(score), score |-> score,
                       next |-> Interval(score), timer |-> t]
       /\ timers' = [timers EXCEPT ![t] = After(Interval(score))]
  BY DEF RegisterClient
<1>1. t \in Timer /\ Interval(score) \in 0..MaxInterval
  BY IntervalBounded, AdaptiveAssumption DEF Free
<1>2. timers \in TimerSet
  BY DEF ScheduleInv, AdaptiveTypeOK, TimerSet
<1>3. timers' \in TimerSet
  BY <1>1, <1>2, TimerStates DEF TimerSet
<1>4. schedule' \in Schedules
  BY <1>1 DEF Schedules
<1>5. ScheduleFlags'
  BY Zenon, TypesOf DEF ScheduleInv, ScheduleFlags, RegisterClient
<1>6. UpdateIsArmed'
  BY <1>1, <1>2 DEF UpdateIsArmed, After, TimerSet
<1>7. GoneForGood'
  BY Zenon DEF RegisterClient, GoneForGood
<1>. QED
  BY <1>3, <1>4, <1>5, <1>6, <1>7, TypesOf DEF ScheduleInv, AdaptiveTypeOK, ScheduleFlags, TimerSet, Schedules

LEMMA UnregisterKeeps ==
  ASSUME ScheduleInv, UnregisterClient
  PROVE  ScheduleInv'
<1>1. timers \in TimerSet /\ schedule \in Schedules /\ ScheduleFlags
  BY TypesOf DEF ScheduleInv
<1>2. timers' \in TimerSet
  BY <1>1, StoppedTimers DEF UnregisterClient, Schedules
<1>3. ScheduleFlags' /\ GoneForGood' /\ UpdateIsArmed'
  BY <1>1, Zenon DEF UnregisterClient, ScheduleFlags, GoneForGood, UpdateIsArmed
<1>4. schedule' \in Schedules
  BY <1>1 DEF UnregisterClient
<1>. QED
  BY <1>2, <1>3, <1>4 DEF ScheduleInv, AdaptiveTypeOK, ScheduleFlags, TimerSet, Schedules

LEMMA FireKeeps ==
  ASSUME ScheduleInv, NEW t \in Timer, Fire(t)
  PROVE  ScheduleInv'
<1>1. timers \in TimerSet /\ schedule \in Schedules /\ ScheduleFlags
  BY TypesOf DEF ScheduleInv
<1>2. timers' \in TimerSet
  BY <1>1, TimerStates DEF Fire, TimerSet
<1>3. UNCHANGED <<schedule, registered, gone, signal>>
  BY DEF Fire
<1>4. UpdateIsArmed'
  BY <1>1, <1>3 DEF Fire, TimerSet, ScheduleInv, UpdateIsArmed
<1>. QED
  BY <1>1, <1>2, <1>3, <1>4
  DEF ScheduleInv, AdaptiveTypeOK, GoneForGood, ScheduleFlags, TimerSet, Schedules

\* A callback that finds the client re-arms, with a timer that is free or its own.
LEMMA TriggerKeeps ==
  ASSUME ScheduleInv, NEW t \in Timer, TriggerUpdate(t)
  PROVE  ScheduleInv'
<1>1. timers \in TimerSet /\ schedule \in Schedules /\ ScheduleFlags
  BY TypesOf DEF ScheduleInv
<1>2. CASE ~registered
  <2>1. timers' = [timers EXCEPT ![t] = Off] /\ UNCHANGED <<schedule, signal, registered, gone>>
    BY <1>2 DEF TriggerUpdate
  <2>2. timers' \in TimerSet
    BY <1>1, <2>1, TimerStates DEF TimerSet
  <2>. QED
    BY <1>1, <1>2, <2>1, <2>2
    DEF ScheduleInv, AdaptiveTypeOK, GoneForGood, UpdateIsArmed, ScheduleFlags, TimerSet, Schedules
<1>3. CASE registered
  <2>1. PICK n \in Free \cup {t} :
          /\ schedule' = [schedule EXCEPT !.next = schedule.interval, !.timer = n]
          /\ timers'   = [timers EXCEPT ![t] = Off, ![n] = After(schedule.interval)]
    BY <1>3 DEF TriggerUpdate
  <2>2. n \in Timer /\ schedule.interval \in 0..MaxInterval
    BY <1>1 DEF Free, Schedules
  <2>3. timers' \in TimerSet
    BY <1>1, <2>1, <2>2, TimerStates DEF TimerSet
  <2>4. schedule' \in Schedules /\ schedule'.next = schedule.interval /\ schedule'.timer = n
    <3>. DEFINE renewed == [schedule EXCEPT !.next = schedule.interval]
    <3>1. schedule' = [renewed EXCEPT !.timer = n]
      BY <2>1
    <3>2. renewed \in Schedules /\ renewed.next = schedule.interval
      BY <1>1, <2>2, AdaptiveAssumption DEF Schedules
    <3>. HIDE DEF renewed
    <3>. QED
      BY <2>2, <3>1, <3>2 DEF Schedules
  <2>5. timers'[n] = After(schedule.interval)
    BY <1>1, <2>1, <2>2 DEF TimerSet
  <2>6. UpdateIsArmed'
    BY <2>4, <2>5 DEF UpdateIsArmed, After
  <2>7. ScheduleFlags' /\ GoneForGood'
    BY <1>1, <1>3, Zenon DEF TriggerUpdate, ScheduleFlags, GoneForGood, ScheduleInv
  <2>. QED
    BY <2>3, <2>4, <2>6, <2>7 DEF ScheduleInv, AdaptiveTypeOK, ScheduleFlags, TimerSet, Schedules
<1>. QED
  BY <1>2, <1>3

LEMMA MetricsKeep ==
  ASSUME ScheduleInv, NEW score \in 0..10, UpdateMetrics(score)
  PROVE  ScheduleInv'
<1>. DEFINE smooth == Smoothed(schedule.score, score)
            new    == Interval(smooth)
            until  == IF schedule.next < 0 \/ schedule.next > new THEN new ELSE schedule.next
<1>1. timers \in TimerSet /\ schedule \in Schedules /\ ScheduleFlags
  BY TypesOf DEF ScheduleInv
<1>2. smooth \in 0..10 /\ new \in 0..MaxInterval
  BY <1>1, SmoothedBounded, IntervalBounded, AdaptiveAssumption DEF Schedules
<1>3. until \in 0..MaxInterval
  <2>. HIDE DEF new
  <2>. QED
    BY <1>1, <1>2, AdaptiveAssumption DEF Schedules
<1>. HIDE DEF smooth, new, until
<1>4. UNCHANGED <<registered, gone>> /\ signal' = FALSE
  BY DEF UpdateMetrics
<1>5. ScheduleFlags' /\ GoneForGood'
  BY <1>1, <1>4, Zenon DEF ScheduleFlags, GoneForGood, ScheduleInv
<1>6. CASE UNCHANGED <<timers, schedule>>
  BY <1>1, <1>4, <1>5, <1>6
  DEF ScheduleInv, AdaptiveTypeOK, UpdateIsArmed, ScheduleFlags, TimerSet, Schedules
<1>7. CASE schedule' = [schedule EXCEPT !.score = smooth] /\ UNCHANGED timers
  <2>1. schedule' \in Schedules /\ schedule'.next = schedule.next /\ schedule'.timer = schedule.timer
    BY <1>1, <1>2, <1>7 DEF Schedules
  <2>2. UpdateIsArmed'
    BY <1>4, <1>7, <2>1 DEF ScheduleInv, UpdateIsArmed, After
  <2>. QED
    BY <1>1, <1>5, <1>7, <2>1, <2>2 DEF ScheduleInv, AdaptiveTypeOK, ScheduleFlags, TimerSet, Schedules
<1>8. CASE \E n \in Free :
             /\ schedule' = [interval |-> new, score |-> smooth, next |-> until, timer |-> n]
             /\ timers'   = [Stopped(schedule.timer) EXCEPT ![n] = After(until)]
  <2>1. PICK n \in Free :
             /\ schedule' = [interval |-> new, score |-> smooth, next |-> until, timer |-> n]
             /\ timers'   = [Stopped(schedule.timer) EXCEPT ![n] = After(until)]
    BY <1>8
  <2>2. n \in Timer /\ Stopped(schedule.timer) \in TimerSet
    BY <1>1, StoppedTimers DEF Free, Schedules
  <2>3. timers' \in TimerSet /\ timers'[n] = After(until)
    BY <1>3, <2>1, <2>2, TimerStates DEF TimerSet
  <2>4. schedule' \in Schedules /\ schedule'.next = until /\ schedule'.timer = n
    BY <1>2, <1>3, <2>1, <2>2 DEF Schedules
  <2>5. UpdateIsArmed'
    BY <2>3, <2>4 DEF UpdateIsArmed, After
  <2>. QED
    BY <1>5, <2>3, <2>4, <2>5 DEF ScheduleInv, AdaptiveTypeOK, ScheduleFlags, TimerSet, Schedules
<1>. QED
  BY <1>6, <1>7, <1>8 DEF UpdateMetrics, smooth, new, until

\* The armed timers and the time that is left until the next update go down together.
LEMMA TimeKeeps ==
  ASSUME ScheduleInv, PassStep
  PROVE  ScheduleInv'
<1>1. timers \in TimerSet /\ schedule \in Schedules /\ ScheduleFlags
  BY TypesOf DEF ScheduleInv
<1>2. \A t \in Armed : timers[t].steps - 1 \in 0..MaxInterval
  BY <1>1, AdaptiveAssumption DEF PassStep, Armed, TimerSet
<1>3. timers' \in TimerSet
  BY <1>1, <1>2, TimerStates DEF PassStep, TimerSet
<1>4. schedule' \in Schedules /\ schedule'.timer = schedule.timer
  BY <1>1, AdaptiveAssumption DEF PassStep, Schedules
<1>5. ScheduleFlags' /\ GoneForGood'
  BY <1>1, Zenon DEF PassStep, ScheduleFlags, GoneForGood, ScheduleInv
<1>6. UpdateIsArmed'
  <2>. SUFFICES ASSUME registered'
                PROVE  timers'[schedule'.timer] \in {After(schedule'.next), Running}
    BY DEF UpdateIsArmed
  <2>. DEFINE t == schedule.timer
  <2>1. t \in Timer /\ registered
    BY <1>1 DEF Schedules, PassStep
  <2>2. CASE timers[t] = Running
    BY <1>4, <2>1, <2>2 DEF PassStep, Armed, Running
  <2>3. CASE timers[t] = After(schedule.next)
    <3>1. t \in Armed /\ timers[t].steps = schedule.next /\ schedule.next > 0
      BY <1>1, <2>1, <2>3 DEF Armed, After, PassStep, TimerSet, Schedules
    <3>2. schedule'.next = schedule.next - 1
      BY <1>1, <3>1 DEF PassStep, Schedules
    <3>. QED
      BY <1>4, <2>1, <3>1, <3>2 DEF PassStep
  <2>. QED
    BY <2>1, <2>2, <2>3 DEF ScheduleInv, UpdateIsArmed
<1>. QED
  BY <1>3, <1>4, <1>5, <1>6 DEF ScheduleInv, AdaptiveTypeOK, ScheduleFlags, TimerSet, Schedules

LEMMA ScheduleStepKeeps == ScheduleInv /\ [AdaptiveNext]_adaptiveVars => ScheduleInv'
<1>. SUFFICES ASSUME ScheduleInv, [AdaptiveNext]_adaptiveVars
              PROVE  ScheduleInv'
  OBVIOUS
<1>1. CASE UNCHANGED adaptiveVars
  BY <1>1 DEF adaptiveVars, ScheduleInv, AdaptiveTypeOK, UpdateIsArmed, GoneForGood, After
<1>2. CASE AdaptiveNext
  <2>1. Score \subseteq 0..10
    BY AdaptiveAssumption
  <2>. QED
    BY <1>2, <2>1, RegisterKeeps, MetricsKeep, UnregisterKeeps, FireKeeps, TriggerKeeps, TimeKeeps
    DEF AdaptiveNext
<1>. QED
  BY <1>1, <1>2

\* Without the client in the map no timer is armed that was not.
LEMMA NoneArmed ==
  ASSUME ScheduleInv, gone, [AdaptiveNext]_adaptiveVars
  PROVE  {t \in Timer : timers'[t].state = "armed"} \subseteq Armed
<1>1. timers \in TimerSet /\ ~registered
  BY TypesOf DEF ScheduleInv, GoneForGood
<1>2. CASE UNCHANGED timers
  BY <1>2 DEF Armed
<1>3. CASE \E t \in Timer : Fire(t) \/ TriggerUpdate(t)
  <2>1. PICK t \in Timer : timers' \in {[timers EXCEPT ![t] = Running], [timers EXCEPT ![t] = Off]}
    BY <1>1, <1>3, Zenon DEF Fire, TriggerUpdate
  <2>. QED
    BY <1>1, <2>1 DEF TimerSet, Armed, Off, Running
<1>4. CASE PassStep
  <2>1. \A t \in Timer \ Armed : timers'[t] = timers[t]
    BY <1>4 DEF PassStep
  <2>. QED
    BY <2>1 DEF Armed
<1>5. ~UnregisterClient /\ \A score \in Score : ~RegisterClient(score)
  BY <1>1 DEF UnregisterClient, RegisterClient
<1>6. ASSUME NEW score \in Score, UpdateMetrics(score)
      PROVE  UNCHANGED timers
  BY <1>1, <1>6 DEF UpdateMetrics
<1>7. UNCHANGED adaptiveVars => UNCHANGED timers
  BY DEF adaptiveVars
<1>. QED
  BY <1>2, <1>3, <1>4, <1>5, <1>6, <1>7 DEF AdaptiveNext

-----------------------------------------------------------------------------
(* Theorems.                                                                *)

LEMMA AlwaysScheduleInv == AdaptiveSpec => []ScheduleInv
BY ScheduleInitHolds, ScheduleStepKeeps, PTL DEF AdaptiveSpec

\* Every interval, score and timer stays within its bounds, whatever scores the regions
\* give (calculateInterval, UpdateMetrics).
THEOREM AdaptiveTypeCorrect == AdaptiveSpec => []AdaptiveTypeOK
<1>1. ScheduleInv => AdaptiveTypeOK
  BY DEF ScheduleInv
<1>. QED
  BY <1>1, AlwaysScheduleInv, PTL

\* A registered client always has its next update to come, in any order of callbacks,
\* metrics and timers that fire before they are stopped (UpdateMetrics, triggerUpdate).
THEOREM AnUpdateIsArmed == AdaptiveSpec => []UpdateIsArmed
<1>1. ScheduleInv => UpdateIsArmed
  BY DEF ScheduleInv
<1>. QED
  BY <1>1, AlwaysScheduleInv, PTL

\* Callbacks that come after the client has left arm nothing (triggerUpdate).
THEOREM LateCallbacksDoEnd == AdaptiveSpec => LateCallbacksEnd
<1>1. ScheduleInv /\ [AdaptiveNext]_adaptiveVars
        => [gone => {t \in Timer : timers'[t].state = "armed"} \subseteq Armed]_adaptiveVars
  BY NoneArmed
<1>. QED
  BY <1>1, AlwaysScheduleInv, PTL DEF AdaptiveSpec, LateCallbacksEnd

-----------------------------------------------------------------------------
(***************************************************************************)
(* What TokenCache guarantees for any tokens, accounts and requests, any    *)
(* TTL and any length of time.                                             *)
(*                                                                         *)
(* ServedAsHolder speaks of the end of a request; the invariant follows the *)
(* user from the API, which names the holder, over the answer on its way to *)
(* Redis and the entry there, which is dated when it is written.            *)
(***************************************************************************)

\* The record of who held what when has caught up with the clock.
HeldNow ==
  \A t \in Token :
    /\ holder[t] # Absent => held[t][holder[t]] = minute
    /\ \A a \in Account : held[t][a] <= minute

\* An entry names someone who was the holder when it was written, or later.
EntriesHeld ==
  \A t \in Token : stored[t].user # Absent => held[t][stored[t].user] >= stored[t].at

\* A request that has got past its arrival has a token, and what it is about to save is
\* the API's answer of this minute.
AnswersHeld ==
  \A r \in Request :
    LET q == request[r] IN
    /\ q.step \in {"lookup", "ask", "save"} => q.token \in Token
    /\ q.step = "save" => q.user # Absent /\ held[q.token][q.user] >= minute

UserHasToken ==
  \A r \in Request : request[r].user # Absent => request[r].token \in Token

TokenInv ==
  TokenTypeOK /\ HeldNow /\ EntriesHeld /\ AnswersHeld /\ UserHasToken /\ ServedAsHolder

-----------------------------------------------------------------------------
(* The steps of a request.                                                  *)

\* What Go makes of the requests.
LEMMA GoMakes ==
  ASSUME TokenTypeOK, NEW r \in Request, NEW step \in Steps,
         NEW user \in Account \cup {Absent}, Go(r, step, user)
  PROVE  /\ request' \in [Request -> Requests]
         /\ request'[r] = [step |-> step, route |-> request[r].route,
                           token |-> request[r].token, user |-> user]
         /\ \A s \in Request \ {r} : request'[s] = request[s]
<1>. DEFINE mid == [request EXCEPT ![r].step = step]
<1>1. mid \in [Request -> Requests] /\ mid[r].step = step
      /\ mid[r].route = request[r].route /\ mid[r].token = request[r].token
  BY DEF TokenTypeOK, Requests
<1>2. \A s \in Request \ {r} : mid[s] = request[s]
  BY DEF TokenTypeOK
<1>3. request' = [mid EXCEPT ![r].user = user]
  BY DEF Go
<1>. HIDE DEF mid
<1>4. request' \in [Request -> Requests]
  BY <1>1, <1>3 DEF Requests
<1>5. request'[r] = [mid[r] EXCEPT !.user = user]
  BY <1>1, <1>3
<1>6. request'[r] = [step |-> step, route |-> request[r].route,
                     token |-> request[r].token, user |-> user]
  BY <1>1, <1>5 DEF Requests
<1>7. \A s \in Request \ {r} : request'[s] = request[s]
  BY <1>1, <1>2, <1>3
<1>. QED
  BY <1>4, <1>6, <1>7

\* A step of one request keeps the invariant if it leaves the other ones and the past as
\* they are, what it writes to Redis is held, and what it makes of itself is in order.
Orderly(q) ==
  /\ q.step \in {"lookup", "ask", "save"} => q.token \in Token
  /\ q.user # Absent => q.token \in Token
  /\ q.step = "save" => q.user # Absent /\ held[q.token][q.user] >= minute
  /\ q.step = "served" /\ q.route # "optional" => q.user # Absent
  /\ q.step = "served" /\ q.user # Absent =>
       held[q.token][q.user] >= minute - TokenTTL /\ Permits(q.route, q.user)

LEMMA InOrder ==
  TokenInv <=> /\ TokenTypeOK /\ HeldNow /\ EntriesHeld
               /\ \A r \in Request : Orderly(request[r])
BY DEF TokenInv, AnswersHeld, UserHasToken, ServedAsHolder, Orderly

LEMMA RequestStep ==
  ASSUME TokenInv, UNCHANGED <<minute, holder, held, stored>>, NEW r \in Request,
         request' \in [Request -> Requests],
         \A s \in Request \ {r} : request'[s] = request[s],
         Orderly(request'[r])
  PROVE  TokenInv'
<1>1. TokenTypeOK' /\ HeldNow' /\ EntriesHeld'
  BY DEF TokenInv, TokenTypeOK, HeldNow, EntriesHeld
<1>2. \A s \in Request : Orderly(request'[s])
  BY InOrder
<1>3. \A s \in Request : Orderly(request[s])'
  BY <1>2 DEF Orderly, Permits
<1>. QED
  BY <1>1, <1>3, InOrder
  DEF TokenInv, AnswersHeld, UserHasToken, ServedAsHolder, Orderly

LEMMA ArriveKeeps ==
  ASSUME TokenInv, NEW r \in Request, NEW route \in Route,
         NEW header \in Token \cup {Absent, Malformed},
         NEW param \in Token \cup {Absent}, NEW cookie \in Token \cup {Absent},
         Arrive(r, route, header, param, cookie)
  PROVE  TokenInv'
<1>. DEFINE token == ExtractToken(header, param, cookie)
            new == [step  |-> IF token # Absent THEN "lookup"
                              ELSE IF route = "optional" THEN "served" ELSE "refused",
                    route |-> route, token |-> token, user |-> Absent]
<1>1. token \in Token \cup {Absent}
  BY DEF ExtractToken
<1>2. new \in Requests
  BY <1>1 DEF Requests, Steps
<1>3. request' = [request EXCEPT ![r] = new] /\ UNCHANGED <<minute, holder, held, stored>>
  BY DEF Arrive
<1>4. Orderly(new)
  BY <1>1 DEF Orderly
<1>. HIDE DEF new
<1>5. request' \in [Request -> Requests] /\ request'[r] = new
      /\ \A s \in Request \ {r} : request'[s] = request[s]
  BY <1>2, <1>3 DEF TokenInv, TokenTypeOK
<1>. QED
  BY <1>3, <1>4, <1>5, RequestStep

LEMMA FinishKeeps ==
  ASSUME TokenInv, NEW r \in Request, Finish(r)
  PROVE  TokenInv'
<1>1. Fresh \in Requests /\ Orderly(Fresh)
  BY DEF Fresh, Requests, Steps, Route, Orderly
<1>2. request' = [request EXCEPT ![r] = Fresh] /\ UNCHANGED <<minute, holder, held, stored>>
  BY DEF Finish
<1>3. request' \in [Request -> Requests] /\ request'[r] = Fresh
      /\ \A s \in Request \ {r} : request'[s] = request[s]
  BY <1>1, <1>2 DEF TokenInv, TokenTypeOK
<1>. QED
  BY <1>1, <1>2, <1>3, RequestStep

\* A user who is admitted: the entry or the answer is young enough, and the route permits.
LEMMA AdmitOrderly ==
  ASSUME TokenInv, NEW r \in Request, request[r].token \in Token, NEW user \in Account,
         held[request[r].token][user] >= minute - TokenTTL,
         Admit(r, user)
  PROVE  /\ request' \in [Request -> Requests]
         /\ \A s \in Request \ {r} : request'[s] = request[s]
         /\ Orderly(request'[r])
<1>. DEFINE step == IF Permits(request[r].route, user) THEN "served" ELSE "forbidden"
<1>1. step \in Steps /\ Go(r, step, user)
  BY DEF Steps, Admit
<1>. HIDE DEF step
<1>2. /\ request' \in [Request -> Requests]
      /\ request'[r] = [step |-> step, route |-> request[r].route,
                        token |-> request[r].token, user |-> user]
      /\ \A s \in Request \ {r} : request'[s] = request[s]
  BY <1>1, GoMakes DEF TokenInv
<1>. USE DEF step
<1>3. Orderly(request'[r])
  BY <1>2, TokenAssumption DEF Orderly
<1>. QED
  BY <1>2, <1>3

LEMMA LookUpKeeps ==
  ASSUME TokenInv, NEW r \in Request, LookUpToken(r)
  PROVE  TokenInv'
<1>. DEFINE entry == stored[request[r].token]
<1>1. request[r].token \in Token /\ UNCHANGED <<minute, holder, held, stored>>
  BY DEF LookUpToken, TokenInv, AnswersHeld
<1>2. CASE Unexpired(entry) /\ Admit(r, entry.user)
  <2>1. entry.user \in Account /\ minute < entry.at + TokenTTL /\ entry.at \in 0..TokenHorizon
    BY <1>1, <1>2 DEF Unexpired, TokenInv, TokenTypeOK
  <2>2. held[request[r].token][entry.user] >= entry.at
    BY <1>1, <1>2 DEF Unexpired, TokenInv, EntriesHeld
  <2>3. held[request[r].token][entry.user] \in -1..TokenHorizon /\ minute \in 0..TokenHorizon
    BY <1>1, <2>1 DEF TokenInv, TokenTypeOK
  <2>4. held[request[r].token][entry.user] >= minute - TokenTTL
    <3>. HIDE DEF entry
    <3>. QED
      BY <2>1, <2>2, <2>3, TokenAssumption
  <2>. QED
    BY <1>1, <1>2, <2>1, <2>4, AdmitOrderly, RequestStep
<1>3. CASE Go(r, "ask", Absent)
  <2>1. /\ request' \in [Request -> Requests]
        /\ request'[r] = [step |-> "ask", route |-> request[r].route,
                          token |-> request[r].token, user |-> Absent]
        /\ \A s \in Request \ {r} : request'[s] = request[s]
    BY <1>3, GoMakes DEF TokenInv, Steps
  <2>2. Orderly(request'[r])
    BY <1>1, <2>1 DEF Orderly
  <2>. QED
    BY <1>1, <2>1, <2>2, RequestStep
<1>. QED
  BY <1>2, <1>3 DEF LookUpToken

\* The API names the holder of this minute.
LEMMA AskKeeps ==
  ASSUME TokenInv, NEW r \in Request, AskAPI(r)
  PROVE  TokenInv'
<1>. DEFINE token == request[r].token
            user  == holder[token]
<1>1. token \in Token /\ UNCHANGED <<minute, holder, held, stored>>
  BY DEF AskAPI, TokenInv, AnswersHeld
<1>2. CASE user # Absent /\ Go(r, "save", user)
  <2>1. user \in Account /\ held[token][user] = minute /\ minute \in Nat
    BY <1>1, <1>2 DEF TokenInv, TokenTypeOK, HeldNow
  <2>2. /\ request' \in [Request -> Requests]
        /\ request'[r] = [step |-> "save", route |-> request[r].route,
                          token |-> token, user |-> user]
        /\ \A s \in Request \ {r} : request'[s] = request[s]
    BY <1>2, <2>1, GoMakes DEF TokenInv, Steps
  <2>3. Orderly(request'[r])
    BY <1>1, <1>2, <2>1, <2>2 DEF Orderly
  <2>. QED
    BY <1>1, <2>2, <2>3, RequestStep
<1>3. CASE Refuse(r)
  <2>. DEFINE step == IF request[r].route = "optional" THEN "served" ELSE "refused"
  <2>1. step \in Steps /\ Go(r, step, Absent)
    BY <1>3 DEF Steps, Refuse
  <2>. HIDE DEF step
  <2>2. /\ request' \in [Request -> Requests]
        /\ request'[r] = [step |-> step, route |-> request[r].route,
                          token |-> token, user |-> Absent]
        /\ \A s \in Request \ {r} : request'[s] = request[s]
    BY <2>1, GoMakes DEF TokenInv
  <2>. USE DEF step
  <2>3. Orderly(request'[r])
    BY <2>2 DEF Orderly
  <2>. QED
    BY <1>1, <2>2, <2>3, RequestStep
<1>. QED
  BY <1>2, <1>3 DEF AskAPI

\* The entry is dated now, and names someone who has been the holder this minute.
LEMMA SaveObjectKeeps ==
  ASSUME TokenInv, NEW r \in Request, SaveUser(r)
  PROVE  TokenInv'
<1>. DEFINE token == request[r].token
            user  == request[r].user
<1>1. UNCHANGED <<minute, holder, held>> /\ Admit(r, user) /\ minute \in 0..TokenHorizon
  BY DEF SaveUser, TokenInv, TokenTypeOK
<1>2. token \in Token /\ user \in Account /\ held[token][user] >= minute
  BY DEF SaveUser, TokenInv, AnswersHeld, TokenTypeOK, Requests
<1>3. held[token][user] >= minute - TokenTTL
  <2>1. held[token][user] \in Int
    BY <1>2 DEF TokenInv, TokenTypeOK
  <2>. QED
    BY <1>1, <1>2, <2>1, TokenAssumption
<1>4. /\ request' \in [Request -> Requests]
      /\ \A s \in Request \ {r} : request'[s] = request[s]
      /\ Orderly(request'[r])
  BY <1>1, <1>2, <1>3, AdmitOrderly
<1>5. stored' \in [Token -> [user : Account \cup {Absent}, at : 0..TokenHorizon]]
  BY <1>1, <1>2 DEF SaveUser, TokenInv, TokenTypeOK
<1>6. EntriesHeld'
  <2>1. ASSUME NEW t \in Token, stored'[t].user # Absent
        PROVE  held[t][stored'[t].user] >= stored'[t].at
    <3>1. CASE stored'[t] = stored[t]
      BY <2>1, <3>1 DEF TokenInv, EntriesHeld
    <3>2. CASE t = token /\ stored'[t] = [user |-> user, at |-> minute]
      BY <1>2, <3>2
    <3>. QED
      BY <1>2, <3>1, <3>2 DEF SaveUser, TokenInv, TokenTypeOK
  <2>. QED
    BY <1>1, <2>1 DEF EntriesHeld
<1>7. TokenTypeOK' /\ HeldNow'
  BY <1>1, <1>4, <1>5 DEF TokenInv, TokenTypeOK, HeldNow
<1>8. \A s \in Request : Orderly(request'[s])
  BY <1>4, InOrder
<1>9. \A s \in Request : Orderly(request[s])'
  BY <1>1, <1>8 DEF Orderly, Permits
<1>. QED
  BY <1>6, <1>7, <1>9, InOrder
  DEF TokenInv, AnswersHeld, UserHasToken, ServedAsHolder, Orderly

-----------------------------------------------------------------------------
(* The steps of the rest of the world.                                      *)

\* The record of the past grows: what was held at a time stays held.
LEMMA PastGrows ==
  ASSUME TokenInv, UNCHANGED <<minute, stored, request>>, TokenTypeOK', HeldNow',
         \A t \in Token, a \in Account : held'[t][a] >= held[t][a]
  PROVE  TokenInv'
<1>1. EntriesHeld'
  <2>1. ASSUME NEW t \in Token, stored[t].user # Absent
        PROVE  held'[t][stored[t].user] >= stored[t].at
    <3>1. stored[t].user \in Account /\ stored[t].at \in Int
      BY <2>1 DEF TokenInv, TokenTypeOK
    <3>2. held[t][stored[t].user] \in Int /\ held'[t][stored[t].user] \in Int
      BY <3>1 DEF TokenInv, TokenTypeOK
    <3>. QED
      BY <2>1, <3>1, <3>2 DEF TokenInv, EntriesHeld
  <2>. QED
    BY <2>1 DEF EntriesHeld
<1>2. ASSUME NEW r \in Request
      PROVE  Orderly(request[r])'
  <2>. DEFINE q == request[r]
  <2>1. Orderly(q) /\ q \in Requests
    BY InOrder DEF TokenInv, TokenTypeOK
  <2>2. CASE q.user = Absent
    BY <2>1, <2>2 DEF Orderly
  <2>3. CASE q.user # Absent
    <3>1. q.token \in Token /\ q.user \in Account
      BY <2>1, <2>3 DEF Orderly, Requests
    <3>2. held[q.token][q.user] \in Int /\ held'[q.token][q.user] \in Int /\ minute \in Int
          /\ held'[q.token][q.user] >= held[q.token][q.user]
      BY <3>1 DEF TokenInv, TokenTypeOK
    <3>. QED
      BY <2>1, <3>1, <3>2, TokenAssumption DEF Orderly, Permits
  <2>. QED
    BY <2>2, <2>3
<1>. QED
  BY <1>1, <1>2 DEF TokenInv, AnswersHeld, UserHasToken, ServedAsHolder, Orderly

LEMMA ChangeKeeps ==
  ASSUME TokenInv, NEW t \in Token, NEW a \in Account \cup {Absent}, ChangeHolder(t, a)
  PROVE  TokenInv'
<1>1. UNCHANGED <<minute, stored, request>> /\ holder' = [holder EXCEPT ![t] = a]
      /\ minute \in 0..TokenHorizon
  BY DEF ChangeHolder, TokenInv, TokenTypeOK
<1>2. CASE a = Absent
  <2>1. held' = held
    BY <1>2 DEF ChangeHolder
  <2>2. TokenTypeOK' /\ HeldNow'
    BY <1>1, <1>2, <2>1 DEF TokenInv, TokenTypeOK, HeldNow
  <2>3. \A u \in Token, b \in Account : held'[u][b] >= held[u][b]
    BY <2>1 DEF TokenInv, TokenTypeOK
  <2>. QED
    BY <1>1, <2>2, <2>3, PastGrows
<1>3. CASE a # Absent
  <2>1. held' = [held EXCEPT ![t][a] = minute] /\ a \in Account
    BY <1>3 DEF ChangeHolder
  <2>2. /\ held' \in [Token -> [Account -> -1..TokenHorizon]]
        /\ held'[t][a] = minute
        /\ \A u \in Token, b \in Account : <<u, b>> # <<t, a>> => held'[u][b] = held[u][b]
    BY <1>1, <2>1 DEF TokenInv, TokenTypeOK
  <2>3. TokenTypeOK' /\ HeldNow'
    BY <1>1, <2>1, <2>2 DEF TokenInv, TokenTypeOK, HeldNow
  <2>4. ASSUME NEW u \in Token, NEW b \in Account
        PROVE  held'[u][b] >= held[u][b]
    <3>1. held[u][b] \in Int /\ held[u][b] <= minute
      BY DEF TokenInv, TokenTypeOK, HeldNow
    <3>. QED
      BY <2>2, <3>1
  <2>. QED
    BY <1>1, <2>3, <2>4, PastGrows
<1>. QED
  BY <1>2, <1>3

LEMMA InvalidateKeeps ==
  ASSUME TokenInv, NEW t \in Token, InvalidateToken(t)
  PROVE  TokenInv'
<1>1. UNCHANGED <<minute, holder, request, held>>
      /\ stored' = [stored EXCEPT ![t] = [user |-> Absent, at |-> 0]]
  BY DEF InvalidateToken
<1>2. TokenTypeOK' /\ HeldNow'
  BY <1>1, TokenAssumption DEF TokenInv, TokenTypeOK, HeldNow
<1>3. EntriesHeld'
  BY <1>1 DEF TokenInv, TokenTypeOK, EntriesHeld
<1>4. AnswersHeld' /\ UserHasToken' /\ ServedAsHolder'
  BY <1>1 DEF TokenInv, AnswersHeld, UserHasToken, ServedAsHolder, Permits
<1>. QED
  BY <1>2, <1>3, <1>4 DEF TokenInv

\* No request is under way when a minute passes.
LEMMA MinuteKeeps ==
  ASSUME TokenInv, PassMinute
  PROVE  TokenInv'
<1>1. /\ minute' = minute + 1 /\ minute \in 0..TokenHorizon /\ minute' \in 0..TokenHorizon
      /\ UNCHANGED <<holder, stored, request>>
      /\ \A r \in Request : request[r] = Fresh
  BY TokenAssumption DEF PassMinute, TokenInv, TokenTypeOK
<1>2. \A t \in Token, a \in Account :
        held'[t][a] = IF holder[t] = a THEN minute + 1 ELSE held[t][a]
  BY DEF PassMinute
<1>3. held' \in [Token -> [Account -> -1..TokenHorizon]]
  BY <1>1 DEF PassMinute, TokenInv, TokenTypeOK
<1>4. TokenTypeOK'
  BY <1>1, <1>3 DEF TokenInv, TokenTypeOK
<1>5. HeldNow'
  <2>1. ASSUME NEW t \in Token
        PROVE  holder[t] # Absent => held'[t][holder[t]] = minute'
    BY <1>1, <1>2 DEF TokenInv, TokenTypeOK
  <2>2. ASSUME NEW t \in Token, NEW a \in Account
        PROVE  held'[t][a] <= minute'
    <3>1. held[t][a] \in Int /\ held[t][a] <= minute
      BY DEF TokenInv, TokenTypeOK, HeldNow
    <3>. QED
      BY <1>1, <1>2, <3>1
  <2>. QED
    BY <1>1, <2>1, <2>2 DEF HeldNow
<1>6. EntriesHeld'
  <2>1. ASSUME NEW t \in Token, stored[t].user # Absent
        PROVE  held'[t][stored[t].user] >= stored[t].at
    <3>1. stored[t].user \in Account /\ stored[t].at \in Int
      BY <2>1 DEF TokenInv, TokenTypeOK
    <3>2. held[t][stored[t].user] \in Int /\ held[t][stored[t].user] <= minute
          /\ held[t][stored[t].user] >= stored[t].at
      BY <2>1, <3>1 DEF TokenInv, TokenTypeOK, EntriesHeld, HeldNow
    <3>. QED
      BY <1>1, <1>2, <3>1, <3>2
  <2>. QED
    BY <1>1, <2>1 DEF EntriesHeld
<1>7. AnswersHeld' /\ UserHasToken' /\ ServedAsHolder'
  BY <1>1 DEF Fresh, AnswersHeld, UserHasToken, ServedAsHolder
<1>. QED
  BY <1>4, <1>5, <1>6, <1>7 DEF TokenInv

-----------------------------------------------------------------------------
(* Theorems.                                                                *)

LEMMA TokenInitHolds == TokenInit => TokenInv
<1>. SUFFICES ASSUME TokenInit
              PROVE  TokenInv
  OBVIOUS
<1>1. Fresh \in Requests
  BY DEF Fresh, Requests, Steps, Route
<1>2. TokenTypeOK
  BY <1>1, TokenAssumption DEF TokenInit, TokenTypeOK
<1>3. HeldNow /\ EntriesHeld
  BY DEF TokenInit, HeldNow, EntriesHeld
<1>4. AnswersHeld /\ UserHasToken /\ ServedAsHolder
  BY DEF TokenInit, Fresh, AnswersHeld, UserHasToken, ServedAsHolder
<1>. QED
  BY <1>2, <1>3, <1>4 DEF TokenInv

LEMMA TokenStepKeeps == TokenInv /\ [TokenNext]_tokenVars => TokenInv'
<1>. SUFFICES ASSUME TokenInv, [TokenNext]_tokenVars
              PROVE  TokenInv'
  OBVIOUS
<1>1. CASE UNCHANGED tokenVars
  BY <1>1 DEF tokenVars, TokenInv, TokenTypeOK, HeldNow, EntriesHeld, AnswersHeld,
              UserHasToken, ServedAsHolder, Permits
<1>2. CASE TokenNext
  BY <1>2, ChangeKeeps, InvalidateKeeps, ArriveKeeps, LookUpKeeps, AskKeeps, SaveObjectKeeps,
     FinishKeeps, MinuteKeeps
  DEF TokenNext
<1>. QED
  BY <1>1, <1>2

LEMMA AlwaysTokenInv == TokenSpec => []TokenInv
BY TokenInitHolds, TokenStepKeeps, PTL DEF TokenSpec

\* Requests, entries and holders have their types, for any number of each.
THEOREM TokenTypeCorrect == TokenSpec => []TokenTypeOK
<1>1. TokenInv => TokenTypeOK
  BY DEF TokenInv
<1>. QED
  BY <1>1, AlwaysTokenInv, PTL

\* Whatever is revoked, invalidated or failing meanwhile, nobody is served as a user who
\* has not held the token for longer than the TTL of the cache, or on a route that is not
\* for that user (Validator.ValidateToken and the middlewares).
THEOREM ServedAreHolders == TokenSpec => []ServedAsHolder
<1>1. TokenInv => ServedAsHolder
  BY DEF TokenInv
<1>. QED
  BY <1>1, AlwaysTokenInv, PTL

-----------------------------------------------------------------------------
(***************************************************************************)
(* What ObjectStore guarantees for any devices, spots, TTLs and rows.       *)
(*                                                                         *)
(* An object is found because the index outlives its entry: EntriesIndexed  *)
(* adds to FoundWhileAlive the dates, which alone keep the index from       *)
(* lapsing under an entry that is still there.                             *)
(***************************************************************************)

EntriesIndexed ==
  \A i \in Id : entries[i] # Nil =>
    /\ entries[i].expires <= clock + TTL[kind]
    /\ entries[i].spot \in Mappable => members[i] = entries[i].spot /\ entries[i].expires <= lapse

\* DeleteGroundObject and SaveGroundObject leave the index without a TTL.
GroundLasts == kind = "ground" => lapse = Forever

ObjectInv == ObjectTypeOK /\ EntriesIndexed /\ GroundLasts

LEMMA Dates ==
  /\ Forever \in Nat /\ TTL \in [Kinds -> Nat \ {0}]
  /\ \A t \in 0..Midnight, k \in Kinds : t + TTL[k] \in 0..Forever
<1>1. /\ TTL \in [Kinds -> Nat \ {0}] /\ Midnight \in Nat /\ "station" \in Kinds
      /\ \A k \in Kinds : TTL[k] <= TTL["station"]
  BY ObjectStoreAssumption DEF Kinds
<1>2. TTL["station"] \in Nat
  BY <1>1
<1>3. ASSUME NEW t \in 0..Midnight, NEW k \in Kinds
      PROVE  t + TTL[k] \in 0..Forever
  <2>1. TTL[k] \in Nat /\ TTL[k] <= TTL["station"]
    BY <1>1
  <2>. QED
    BY <1>1, <1>2, <2>1 DEF Forever
<1>. QED
  BY <1>1, <1>2, <1>3 DEF Forever

LEMMA Ids ==
  /\ \A s \in Source, t \in 0..Midnight : LiveThermalId(s, t) \in Id
  /\ \A i \in 1..MaxRows : LoadedThermalId(i) \in Id
  /\ \A s \in Source : DeviceId(s) \in Id
BY DEF Id

LEMMA ObjectInitHolds == ObjectInit => ObjectInv
<1>. SUFFICES ASSUME ObjectInit
              PROVE  ObjectInv
  OBVIOUS
<1>1. Midnight \in Nat /\ 0 \in 0..Midnight /\ Forever \in 0..Forever
  BY Dates, ObjectStoreAssumption
<1>. QED
  BY <1>1 DEF ObjectInit, ObjectInv, ObjectTypeOK, EntriesIndexed, GroundLasts

\* A save puts the object where it was seen, and the index lasts as long as all its entries.
LEMMA PutKeeps ==
  ASSUME ObjectInv, NEW id \in Id, NEW p \in Spot, Put(id, p), UNCHANGED <<kind, clock>>
  PROVE  /\ EntriesIndexed' /\ GroundLasts'
         /\ members' \in [Id -> Mappable \cup {Nil}]
         /\ lapse'   \in 0..Forever
         /\ entries' \in [Id -> ObjectEntry \cup {Nil}]
<1>1. /\ kind \in Kinds /\ clock \in 0..Midnight /\ lapse \in 0..Forever
      /\ members \in [Id -> Mappable \cup {Nil}] /\ entries \in [Id -> ObjectEntry \cup {Nil}]
  BY DEF ObjectInv, ObjectTypeOK
<1>2. Lasting \in 0..Forever /\ clock + TTL[kind] = Lasting /\ Forever \in Nat
  BY <1>1, Dates DEF Lasting
<1>3. EntryFor(p) \in ObjectEntry /\ EntryFor(p).spot = p /\ EntryFor(p).expires = Lasting
  BY <1>2 DEF EntryFor, ObjectEntry
<1>4. members' = Indexed(id, p) /\ entries' = [entries EXCEPT ![id] = EntryFor(p)]
  BY DEF Put
<1>5. /\ members' \in [Id -> Mappable \cup {Nil}]
      /\ p \in Mappable => members'[id] = p
      /\ \A i \in Id \ {id} : members'[i] = members[i]
  BY <1>1, <1>4 DEF Indexed
<1>6. /\ entries' \in [Id -> ObjectEntry \cup {Nil}]
      /\ entries'[id] = EntryFor(p)
      /\ \A i \in Id \ {id} : entries'[i] = entries[i]
  BY <1>1, <1>3, <1>4
\* The new TTL is none, a whole one from now, or, if the object is not put in the index, as
\* it was; ground objects never have one.
<1>7. /\ lapse' \in {Forever, Lasting, lapse}
      /\ p \in Mappable => lapse' \in {Forever, Lasting}
      /\ kind = "ground" => lapse' = lapse
  <2>1. CASE kind = "thermal"
    BY <2>1 DEF Put, ThermalLapse
  <2>2. CASE kind = "station"
    BY <2>2 DEF Put, StationLapse
  <2>3. CASE kind = "ground"
    BY <2>3 DEF Put, GroundLapse, ObjectInv, GroundLasts
  <2>. QED
    BY <1>1, <2>1, <2>2, <2>3 DEF Kinds
<1>8. lapse' \in 0..Forever
  BY <1>1, <1>2, <1>7
<1>9. GroundLasts'
  BY <1>7 DEF ObjectInv, GroundLasts
<1>10. entries'[id] # Nil =>
         /\ entries'[id].expires <= (clock + TTL[kind])'
         /\ entries'[id].spot \in Mappable => members'[id] = entries'[id].spot /\ entries'[id].expires <= lapse'
  <2>1. Lasting <= Lasting /\ Lasting <= Forever
    BY <1>2
  <2>. QED
    BY <1>2, <1>3, <1>5, <1>6, <1>7, <2>1
<1>11. ASSUME NEW i \in Id \ {id}, entries'[i] # Nil
       PROVE  /\ entries'[i].expires <= (clock + TTL[kind])'
              /\ entries'[i].spot \in Mappable => members'[i] = entries'[i].spot /\ entries'[i].expires <= lapse'
  <2>1. entries'[i] = entries[i] /\ members'[i] = members[i]
    BY <1>5, <1>6
  <2>2. entries[i] \in ObjectEntry
    BY <1>1, <1>11, <2>1
  <2>3. entries[i].expires \in 0..Forever
    BY <2>2 DEF ObjectEntry
  <2>4. /\ entries[i].expires <= Lasting
        /\ entries[i].spot \in Mappable => members[i] = entries[i].spot /\ entries[i].expires <= lapse
    BY <1>2, <1>11, <2>1 DEF ObjectInv, EntriesIndexed
  <2>5. entries[i].spot \in Mappable => entries[i].expires <= lapse'
    BY <1>2, <1>7, <2>3, <2>4
  <2>. QED
    BY <1>2, <2>1, <2>4, <2>5
<1>12. EntriesIndexed'
  BY <1>10, <1>11 DEF EntriesIndexed
<1>. QED
  BY <1>5, <1>6, <1>8, <1>9, <1>12

LEMMA ReportKeeps ==
  ASSUME ObjectInv, NEW s \in Source, NEW p \in Spot, Report(s, p)
  PROVE  ObjectInv'
<1>1. IdOf(s) \in Id
  BY Ids DEF IdOf, ObjectInv, ObjectTypeOK
<1>2. Put(IdOf(s), p) /\ UNCHANGED <<kind, clock>>
  BY DEF Report
<1>3. rows' \in [1..MaxRows -> Row \cup {Nil}]
  <2>1. CASE UNCHANGED rows
    BY <2>1 DEF ObjectInv, ObjectTypeOK
  <2>2. CASE WriteRow(IdOf(s), p)
    <3>1. PICK n : rows' = [rows EXCEPT ![n] = [id |-> IdOf(s), spot |-> p]]
      BY <2>2 DEF WriteRow
    <3>2. [id |-> IdOf(s), spot |-> p] \in Row
      BY <1>1 DEF Row
    <3>. QED
      BY <3>1, <3>2 DEF ObjectInv, ObjectTypeOK
  <2>. QED
    BY <2>1, <2>2 DEF Report
<1>. QED
  BY <1>1, <1>2, <1>3, PutKeeps DEF ObjectInv, ObjectTypeOK

LEMMA DeleteKeeps ==
  ASSUME ObjectInv, NEW s \in Source, DeleteGroundObject(s)
  PROVE  ObjectInv'
<1>1. DeviceId(s) \in Id
  BY Ids
<1>2. /\ UNCHANGED <<kind, clock, rows, lapse>>
      /\ members' = [members EXCEPT ![DeviceId(s)] = Nil]
      /\ entries' = [entries EXCEPT ![DeviceId(s)] = Nil]
  BY DEF DeleteGroundObject
<1>3. /\ members' \in [Id -> Mappable \cup {Nil}] /\ entries' \in [Id -> ObjectEntry \cup {Nil}]
      /\ entries'[DeviceId(s)] = Nil
      /\ \A i \in Id \ {DeviceId(s)} : members'[i] = members[i] /\ entries'[i] = entries[i]
  BY <1>1, <1>2 DEF ObjectInv, ObjectTypeOK
<1>4. EntriesIndexed'
  BY <1>2, <1>3 DEF ObjectInv, EntriesIndexed
<1>. QED
  BY <1>2, <1>3, <1>4 DEF ObjectInv, ObjectTypeOK, GroundLasts

LEMMA LoadKeeps ==
  ASSUME ObjectInv, NEW n \in 1..MaxRows, Load(n)
  PROVE  ObjectInv'
<1>1. rows[n] \in Row
  BY DEF Load, ObjectInv, ObjectTypeOK
<1>2. LoadedId(n) \in Id /\ rows[n].spot \in Spot
  BY <1>1, Ids DEF LoadedId, Row
<1>. QED
  BY <1>2, PutKeeps DEF Load, ObjectInv, ObjectTypeOK

\* An index that expires has no entry left that could have been found in it.
LEMMA HourKeeps ==
  ASSUME ObjectInv, NextHour
  PROVE  ObjectInv'
<1>1. /\ clock < Midnight /\ clock' = clock + 1 /\ UNCHANGED <<kind, rows>>
      /\ members' = IF lapse > clock + 1 THEN members ELSE [i \in Id |-> Nil]
      /\ lapse'   = IF lapse > clock + 1 THEN lapse ELSE Forever
      /\ \A i \in Id : entries'[i] = IF entries[i] = Nil \/ entries[i].expires > clock + 1
                                     THEN entries[i] ELSE Nil
  BY DEF NextHour
<1>2. /\ clock \in 0..Midnight /\ lapse \in 0..Forever /\ kind \in Kinds
      /\ Midnight \in Nat /\ Forever \in Nat
  BY Dates, ObjectStoreAssumption DEF ObjectInv, ObjectTypeOK
<1>3. clock' \in 0..Midnight /\ lapse' \in 0..Forever
  BY <1>1, <1>2
<1>4. members' \in [Id -> Mappable \cup {Nil}] /\ entries' \in [Id -> ObjectEntry \cup {Nil}]
  BY <1>1 DEF NextHour, ObjectInv, ObjectTypeOK
<1>5. GroundLasts'
  BY <1>1 DEF ObjectInv, GroundLasts
<1>6. ASSUME NEW i \in Id, entries'[i] # Nil
      PROVE  /\ entries'[i].expires <= (clock + TTL[kind])'
             /\ entries'[i].spot \in Mappable => members'[i] = entries'[i].spot /\ entries'[i].expires <= lapse'
  <2>1. entries'[i] = entries[i] /\ entries[i] # Nil /\ entries[i].expires > clock + 1
    BY <1>1, <1>6
  <2>2. entries[i] \in ObjectEntry
    BY <2>1 DEF ObjectInv, ObjectTypeOK
  <2>3. entries[i].expires \in 0..Forever
    BY <2>2 DEF ObjectEntry
  <2>4. /\ entries[i].expires <= clock + TTL[kind]
        /\ entries[i].spot \in Mappable => members[i] = entries[i].spot /\ entries[i].expires <= lapse
    BY <2>1 DEF ObjectInv, EntriesIndexed
  <2>5. TTL[kind] \in Nat
    BY <1>2, Dates
  <2>6. entries[i].expires <= clock' + TTL[kind]
    BY <1>1, <1>2, <2>3, <2>4, <2>5
  <2>7. ASSUME entries[i].spot \in Mappable
        PROVE  members'[i] = entries[i].spot /\ entries[i].expires <= lapse'
    <3>1. lapse > clock + 1
      BY <1>2, <2>1, <2>3, <2>4, <2>7
    <3>. QED
      BY <1>1, <2>4, <2>7, <3>1
  <2>. QED
    BY <1>1, <2>1, <2>6, <2>7
<1>7. EntriesIndexed'
  BY <1>6 DEF EntriesIndexed
<1>. QED
  BY <1>1, <1>3, <1>4, <1>5, <1>7 DEF ObjectInv, ObjectTypeOK

LEMMA ObjectStepKeeps == ObjectInv /\ [ObjectNext]_objectVars => ObjectInv'
<1>. SUFFICES ASSUME ObjectInv, [ObjectNext]_objectVars
              PROVE  ObjectInv'
  OBVIOUS
<1>1. CASE UNCHANGED objectVars
  BY <1>1 DEF objectVars, ObjectInv, ObjectTypeOK, EntriesIndexed, GroundLasts
<1>2. CASE ObjectNext
  BY <1>2, ReportKeeps, DeleteKeeps, LoadKeeps, HourKeeps DEF ObjectNext
<1>. QED
  BY <1>1, <1>2

LEMMA AlwaysObjectInv == ObjectSpec => []ObjectInv
BY ObjectInitHolds, ObjectStepKeeps, PTL DEF ObjectSpec

\* The index, the entries and the rows keep their types, for any devices, spots and TTLs of
\* which the station's is the longest (SaveThermal, SaveStation, SaveGroundObject).
THEOREM ObjectTypeCorrect == ObjectSpec => []ObjectTypeOK
<1>1. ObjectInv => ObjectTypeOK
  BY DEF ObjectInv
<1>. QED
  BY <1>1, AlwaysObjectInv, PTL

\* A query of a radius answers with the living objects that were last seen in it and with no
\* others, whatever is saved, deleted, loaded and expires: the one TTL of an index never
\* ends before that of an entry in it, although each save renews both only for its object.
THEOREM LivingAreFound == ObjectSpec => []ObjectsAreFound
<1>1. ObjectInv => FoundWhileAlive
  <2>. SUFFICES ASSUME ObjectInv, NEW i \in Id, entries[i] # Nil, entries[i].spot \in Mappable
                PROVE  [id |-> i, spot |-> entries[i].spot] \in InRadius(entries[i].spot, 0)
    BY DEF FoundWhileAlive, GetAllStations
  <2>. DEFINE p == entries[i].spot
  <2>1. members[i] = p /\ kind \in Kinds
    BY DEF ObjectInv, ObjectTypeOK, EntriesIndexed
  <2>2. p \in Int /\ p # Nil
    BY ObjectStoreAssumption
  <2>3. Apart(p, p) <= 0
    BY <2>2 DEF Apart
  <2>4. i \in Found(p, 0)
    BY <2>1, <2>2, <2>3 DEF Found
  <2>5. /\ [id |-> i, spot |-> p] \in GetThermalsInRadius(p, 0)
        /\ [id |-> i, spot |-> p] \in GetStationsInRadius(p, 0)
        /\ [id |-> i, spot |-> p] \in GetGroundObjectsInRadius(p, 0)
    BY <2>1, <2>4 DEF GetThermalsInRadius, GetStationsInRadius, GetGroundObjectsInRadius
  <2>. QED
    <3>1. CASE kind = "thermal"
      BY <2>5, <3>1 DEF InRadius
    <3>2. CASE kind = "station"
      BY <2>5, <3>2 DEF InRadius
    <3>3. CASE kind = "ground"
      BY <2>5, <3>3 DEF InRadius
    <3>. QED
      BY <2>1, <3>1, <3>2, <3>3 DEF Kinds
<1>2. ObjectInv => AnswersAreNear
  <2>. SUFFICES ASSUME ObjectInv, NEW c \in Mappable, NEW o \in InRadius(c, 1), o.spot \in Mappable
                PROVE  Apart(o.spot, c) <= 1
    BY DEF AnswersAreNear
  <2>1. kind \in Kinds
    BY DEF ObjectInv, ObjectTypeOK
  <2>2. \E i \in Found(c, 1) : o.spot = entries[i].spot \/ o.spot = members[i]
    <3>1. CASE kind = "thermal"
      BY <3>1 DEF InRadius, GetThermalsInRadius
    <3>2. CASE kind = "station"
      BY <3>2 DEF InRadius, GetStationsInRadius
    <3>3. CASE kind = "ground"
      BY <3>3 DEF InRadius, GetGroundObjectsInRadius
    <3>. QED
      BY <2>1, <3>1, <3>2, <3>3 DEF Kinds
  <2>3. PICK i \in Found(c, 1) : o.spot = entries[i].spot \/ o.spot = members[i]
    BY <2>2
  <2>4. i \in Id /\ Apart(members[i], c) <= 1 /\ entries[i] # Nil
    BY DEF Found
  <2>5. entries[i].spot \in Mappable => members[i] = entries[i].spot
    BY <2>4 DEF ObjectInv, EntriesIndexed
  <2>. QED
    BY <2>3, <2>4, <2>5
<1>. QED
  BY <1>1, <1>2, AlwaysObjectInv, PTL DEF ObjectsAreFound

-----------------------------------------------------------------------------
(***************************************************************************)
(* What Visibility guarantees for any sites, radii and periods and any     *)
(* number of goroutines.                                                   *)
(*                                                                         *)
(* MovementDecides compares the hash with two histories.  What ties them    *)
(* together while a message is between its read and its save is in InTime:  *)
(* a movement that is about to be saved is at most a minute old, and not    *)
(* newer than the arrival of the hash at the same site.                    *)
(***************************************************************************)

PendingReport ==
  [step : {"save"}, site : Site, type : AircraftType, at : 0..Midday,
   movement : 0..Midday \cup {Unset}]

ReportsTyped == report \in [Reporter -> PendingReport \cup {Resting}]

InTime(h) ==
  report[h].step = "save" =>
    /\ today - 1 <= report[h].at
    /\ report[h].movement # Unset =>
         /\ report[h].at <= report[h].movement /\ report[h].movement <= today
         /\ (saved # Unset /\ saved.site = report[h].site) => report[h].movement <= still

\* The hash has a movement exactly when one was saved into it, not newer than its arrival
\* at its site and at most one unit older than the save.
HashDated ==
  /\ still <= today /\ (noted # Unset => noted <= today)
  /\ noted # Unset => saved # Unset /\ saved.movement # Unset
  /\ saved # Unset /\ saved.movement # Unset =>
       noted # Unset /\ saved.movement <= still /\ noted - 1 <= saved.movement

VisibilityInv ==
  VisibilityTypeOK /\ ReportsTyped /\ HashDated /\ \A h \in Reporter : InTime(h)

LEMMA VisibilityInitHolds == VisibilityInit => VisibilityInv
<1>. SUFFICES ASSUME VisibilityInit
              PROVE  VisibilityInv
  OBVIOUS
<1>1. Midday \in Nat
  BY VisibilityAssumption
<1>. QED
  BY <1>1 DEF VisibilityInit, VisibilityInv, VisibilityTypeOK, ReportsTyped, HashDated, InTime, Resting

LEMMA ReadKeeps ==
  ASSUME VisibilityInv, NEW h \in Reporter, NEW site \in Site, NEW type \in AircraftType,
         ReadPrevious(h, site, type)
  PROVE  VisibilityInv'
<1>1. PICK last \in {Unset} \cup (IF saved = Unset THEN {} ELSE {saved.site}),
           update \in {today} \cup (IF today = 0 THEN {} ELSE {today - 1}) :
        report' = [report EXCEPT ![h] =
          [step |-> "save", site |-> site, type |-> type, at |-> update,
           movement |-> IF HasMoved(site, last) THEN today ELSE Unset]]
  BY DEF ReadPrevious
<1>. DEFINE r == [step |-> "save", site |-> site, type |-> type, at |-> update,
                  movement |-> IF HasMoved(site, last) THEN today ELSE Unset]
<1>2. UNCHANGED <<today, saved, still, noted>>
  BY DEF ReadPrevious
<1>3. today \in 0..Midday /\ Midday \in Nat
  BY VisibilityAssumption DEF VisibilityInv, VisibilityTypeOK
<1>4. update \in 0..Midday /\ today - 1 <= update /\ update <= today
  BY <1>3
<1>5. r \in PendingReport
  BY <1>3, <1>4 DEF PendingReport
\* What has moved is elsewhere than the hash.
<1>6. HasMoved(site, last) /\ saved # Unset => saved.site # site
  <2>. SUFFICES ASSUME saved # Unset, saved.site = site
                PROVE  ~HasMoved(site, last)
    OBVIOUS
  <2>1. last \in {Unset, site}
    BY <1>1
  <2>2. site \in Nat /\ MinMovement \in Nat \ {0}
    BY VisibilityAssumption
  <2>3. ~(site > site) /\ site - site = 0 /\ ~(0 >= MinMovement)
    BY <2>2
  <2>. QED
    BY <2>1, <2>3 DEF HasMoved
<1>7. report'[h] = r /\ \A g \in Reporter \ {h} : report'[g] = report[g]
  BY <1>1 DEF VisibilityInv, ReportsTyped
<1>8. ReportsTyped'
  BY <1>1, <1>5 DEF VisibilityInv, ReportsTyped
<1>9. VisibilityTypeOK'
  <2>1. \A g \in Reporter : report'[g].step \in {"none", "save"}
    BY <1>7 DEF VisibilityInv, VisibilityTypeOK
  <2>. QED
    BY <1>2, <2>1 DEF VisibilityInv, VisibilityTypeOK
<1>10. HashDated'
  BY <1>2 DEF VisibilityInv, HashDated
<1>11. InTime(h)'
  BY <1>2, <1>3, <1>4, <1>6, <1>7 DEF InTime
<1>12. \A g \in Reporter \ {h} : InTime(g)'
  BY <1>2, <1>7 DEF VisibilityInv, InTime
<1>. QED
  BY <1>8, <1>9, <1>10, <1>11, <1>12 DEF VisibilityInv

LEMMA SaveReportKeeps ==
  ASSUME VisibilityInv, NEW h \in Reporter, SaveReport(h)
  PROVE  VisibilityInv'
<1>. DEFINE r == report[h]
            m == IF r.movement # Unset \/ saved = Unset THEN r.movement ELSE saved.movement
<1>1. /\ r.step = "save"
      /\ saved' = [site |-> r.site, type |-> r.type, at |-> r.at, movement |-> m]
      /\ still' = IF saved # Unset /\ saved.site = r.site THEN still ELSE today
      /\ noted' = IF r.movement # Unset THEN today ELSE noted
      /\ report' = [report EXCEPT ![h] = Resting]
      /\ today' = today
  BY DEF SaveReport, SavedHash
<1>2. r \in PendingReport
  BY <1>1 DEF VisibilityInv, ReportsTyped, Resting
<1>3. /\ today \in 0..Midday /\ still \in 0..Midday /\ noted \in 0..Midday \cup {Unset}
      /\ Midday \in Nat /\ Unset \notin Int
      /\ Unset \notin PilotHash /\ (saved = Unset \/ saved \in PilotHash)
  BY VisibilityAssumption DEF VisibilityInv, VisibilityTypeOK
<1>4. InTime(h) /\ HashDated
  BY DEF VisibilityInv
<1>5. /\ today - 1 <= r.at /\ r.at \in 0..Midday /\ r.site \in Site /\ r.type \in AircraftType
      /\ r.movement \in 0..Midday \cup {Unset}
  BY <1>1, <1>2, <1>4 DEF InTime, PendingReport
<1>6. r.movement # Unset =>
        /\ r.at <= r.movement /\ r.movement <= today
        /\ (saved # Unset /\ saved.site = r.site) => r.movement <= still
  BY <1>1, <1>4 DEF InTime
<1>7. m \in 0..Midday \cup {Unset}
  BY <1>3, <1>5 DEF PilotHash
<1>8. saved' \in PilotHash /\ saved' # Unset /\ saved'.site = r.site /\ saved'.movement = m
  <2>. HIDE DEF r, m
  <2>1. saved' \in PilotHash /\ saved'.site = r.site /\ saved'.movement = m
    BY <1>1, <1>5, <1>7 DEF PilotHash
  <2>. QED
    BY <1>3, <2>1
<1>9. report'[h] = Resting /\ \A g \in Reporter \ {h} : report'[g] = report[g]
  BY <1>1 DEF VisibilityInv, ReportsTyped
<1>10. ReportsTyped'
  BY <1>1 DEF VisibilityInv, ReportsTyped
<1>11. VisibilityTypeOK'
  <2>1. \A g \in Reporter : report'[g].step \in {"none", "save"}
    BY <1>9 DEF VisibilityInv, VisibilityTypeOK, Resting
  <2>2. today' \in 0..Midday /\ still' \in 0..Midday /\ noted' \in 0..Midday \cup {Unset}
    BY <1>1, <1>3
  <2>. QED
    BY <1>8, <2>1, <2>2 DEF VisibilityTypeOK
<1>12. still <= today /\ still <= still' /\ still' <= today /\ (noted' # Unset => noted' <= today')
  BY <1>1, <1>3, <1>4 DEF HashDated
<1>13. HashDated'
  <2>1. CASE r.movement # Unset
    <3>1. m = r.movement /\ noted' = today
      BY <1>1, <2>1
    <3>2. m <= still' /\ today - 1 <= m
      BY <1>1, <1>3, <1>5, <1>6, <2>1, <3>1
    <3>. QED
      BY <1>1, <1>3, <1>8, <1>12, <2>1, <3>1, <3>2 DEF HashDated
  <2>2. CASE r.movement = Unset /\ saved = Unset
    <3>1. m = Unset /\ noted' = Unset
      BY <1>1, <1>4, <2>2 DEF HashDated
    <3>. QED
      BY <1>1, <1>8, <1>12, <3>1 DEF HashDated
  <2>3. CASE r.movement = Unset /\ saved # Unset
    <3>1. m = saved.movement /\ noted' = noted
      BY <1>1, <2>3
    <3>2. m # Unset => m \in Nat /\ m <= still /\ noted # Unset /\ noted - 1 <= m
      BY <1>4, <1>7, <2>3, <3>1 DEF HashDated
    <3>3. noted # Unset => m # Unset
      BY <1>4, <3>1 DEF HashDated
    <3>4. m # Unset => m <= still'
      BY <1>1, <1>3, <1>12, <3>2
    <3>. QED
      <4>. HIDE DEF m
      <4>. QED
        BY <1>1, <1>8, <1>12, <3>1, <3>2, <3>3, <3>4 DEF HashDated
  <2>. QED
    BY <2>1, <2>2, <2>3
<1>14. InTime(h)'
  BY <1>9 DEF InTime, Resting
<1>15. \A g \in Reporter \ {h} : InTime(g)'
  <2>. SUFFICES ASSUME NEW g \in Reporter \ {h}, report[g].step = "save"
                PROVE  InTime(g)'
    BY <1>9 DEF InTime
  <2>1. InTime(g) /\ report'[g] = report[g]
    BY <1>9 DEF VisibilityInv
  <2>2. report[g] \in PendingReport
    BY DEF VisibilityInv, ReportsTyped, Resting
  <2>. DEFINE v == report[g].movement
  <2>3. v \in 0..Midday \cup {Unset}
    BY <2>2 DEF PendingReport
  <2>4. v # Unset /\ saved'.site = report[g].site => v <= still'
    BY <1>1, <1>3, <1>8, <1>12, <2>1, <2>3 DEF InTime
  <2>. QED
    BY <1>1, <2>1, <2>4 DEF InTime
<1>. QED
  BY <1>10, <1>11, <1>13, <1>14, <1>15 DEF VisibilityInv

LEMMA VanishKeeps ==
  ASSUME VisibilityInv, Vanish
  PROVE  VisibilityInv'
BY DEF Vanish, VisibilityInv, VisibilityTypeOK, ReportsTyped, HashDated, InTime

LEMMA LaterKeeps ==
  ASSUME VisibilityInv, Later
  PROVE  VisibilityInv'
<1>1. /\ today < Midday /\ today' = today + 1
      /\ UNCHANGED <<saved, report, still, noted>>
      /\ \A h \in Reporter : report[h].step = "save" => report[h].at = today
  BY DEF Later
<1>2. /\ today \in 0..Midday /\ Midday \in Nat /\ still \in 0..Midday
      /\ noted \in 0..Midday \cup {Unset} /\ Unset \notin Int
  BY VisibilityAssumption DEF VisibilityInv, VisibilityTypeOK
<1>3. VisibilityTypeOK' /\ ReportsTyped'
  BY <1>1, <1>2 DEF VisibilityInv, VisibilityTypeOK, ReportsTyped
<1>4. HashDated'
  BY <1>1, <1>2 DEF VisibilityInv, HashDated
<1>5. \A h \in Reporter : InTime(h)'
  <2>. SUFFICES ASSUME NEW h \in Reporter, report[h].step = "save"
                PROVE  InTime(h)'
    BY <1>1 DEF InTime
  <2>1. report[h].at = today /\ InTime(h) /\ report'[h] = report[h]
    BY <1>1 DEF VisibilityInv
  <2>2. report[h].movement \in 0..Midday \cup {Unset}
    BY DEF VisibilityInv, ReportsTyped, PendingReport, Resting
  <2>. QED
    BY <1>1, <1>2, <2>1, <2>2 DEF InTime
<1>. QED
  BY <1>3, <1>4, <1>5 DEF VisibilityInv

LEMMA VisibilityStepKeeps == VisibilityInv /\ [VisibilityNext]_visibilityVars => VisibilityInv'
<1>. SUFFICES ASSUME VisibilityInv, [VisibilityNext]_visibilityVars
              PROVE  VisibilityInv'
  OBVIOUS
<1>1. CASE UNCHANGED visibilityVars
  BY <1>1 DEF visibilityVars, VisibilityInv, VisibilityTypeOK, ReportsTyped, HashDated, InTime
<1>2. CASE VisibilityNext
  BY <1>2, ReadKeeps, SaveReportKeeps, VanishKeeps, LaterKeeps DEF VisibilityNext
<1>. QED
  BY <1>1, <1>2

LEMMA AlwaysVisibilityInv == VisibilitySpec => []VisibilityInv
BY VisibilityInitHolds, VisibilityStepKeeps, PTL DEF VisibilitySpec

\* The hash of a device and what is known of its spot and movement keep their types, for
\* any number of goroutines (SavePilot, RemovePilot).
THEOREM VisibilityTypeCorrect == VisibilitySpec => []VisibilityTypeOK
<1>1. VisibilityInv => VisibilityTypeOK
  BY DEF VisibilityInv
<1>. QED
  BY <1>1, AlwaysVisibilityInv, PTL

\* On the boundary it is movement that decides, whatever order the reads and the saves of
\* concurrent messages take: a device that stays where it is fades after the grace period,
\* and one whose movement was saved is shown for as long (GetObjectStatus, SavePilot).
THEOREM MovementIsDecisive == VisibilitySpec => []MovementDecides
<1>1. VisibilityInv => MovementDecides
  <2>. SUFFICES ASSUME VisibilityInv, Boundary, noted # Unset
                PROVE  /\ Shown => today - still <= GracePeriod
                       /\ today - noted < GracePeriod => Shown
    BY DEF MovementDecides, StillFades, MovedIsShown
  <2>1. /\ today \in Nat /\ still \in Nat /\ noted \in Nat /\ GracePeriod \in Nat
        /\ TrackingRadius \in Nat /\ OgnRadius \in Nat /\ DefaultMaxAge \in Nat
    BY VisibilityAssumption DEF VisibilityInv, VisibilityTypeOK
  <2>2. /\ saved # Unset /\ saved.movement # Unset
        /\ saved.movement <= still /\ noted - 1 <= saved.movement
    BY DEF VisibilityInv, HashDated
  <2>3. saved \in PilotHash
    BY <2>2 DEF VisibilityInv, VisibilityTypeOK
  <2>4. saved.movement \in Nat
    BY <2>2, <2>3 DEF PilotHash
  <2>5. saved.site \in (TrackingRadius + 1)..OgnRadius
    BY DEF Boundary
  <2>6. Shown <=> today - saved.movement <= GracePeriod
    <3>1. PassesTypes({}) /\ PassesAge(DefaultMaxAge)
      BY <2>1 DEF PassesTypes, PassesAge
    <3>2. ~(saved.site <= TrackingRadius) /\ saved.site <= OgnRadius
      BY <2>1, <2>5
    <3>. QED
      BY <2>2, <3>1, <3>2 DEF Shown, GetSnapshot, ShouldIncludeInSnapshot, VisibilityStatus, MovementOf
  <2>. QED
    BY <2>1, <2>2, <2>4, <2>6
<1>. QED
  BY <1>1, AlwaysVisibilityInv, PTL

-----------------------------------------------------------------------------
(***************************************************************************)
(* What GeoCover guarantees for every radius and every centre, where a run  *)
(* asks for some radii.  There is nothing to be preserved by a step: the    *)
(* proof is that the samples, which are a step apart, meet every cell or,   *)
(* where cells are half as high, one of any two that touch.                 *)
(***************************************************************************)

\* Squares.
LEMMA SquareGrows ==
  ASSUME NEW x \in Int, NEW y \in Int, -y <= x, x <= y
  PROVE  x * x <= y * y
<1>1. (y - x) * (y + x) >= 0
  OBVIOUS
<1>. QED
  BY <1>1

LEMMA SquareBounds ==
  ASSUME NEW x \in Int, NEW y \in Int, NEW r \in Nat, x * x + y * y <= r * r
  PROVE  -r <= x /\ x <= r /\ -r <= y /\ y <= r
<1>1. ASSUME NEW z \in Int, z * z <= r * r
      PROVE  -r <= z /\ z <= r
  <2>1. CASE z > r
    <3>1. z * z > r * r
      BY <2>1
    <3>. QED
      BY <1>1, <3>1
  <2>2. CASE z < -r
    <3>1. z * z > r * r
      BY <2>2
    <3>. QED
      BY <1>1, <3>1
  <2>. QED
    BY <2>1, <2>2
<1>2. x * x >= 0 /\ y * y >= 0 /\ x * x \in Int /\ y * y \in Int /\ r * r \in Int
  OBVIOUS
<1>3. x * x <= r * r /\ y * y <= r * r
  BY <1>2
<1>. QED
  BY <1>1, <1>3

\* Any four places in a row hold one of the samples' coordinates.
LEMMA GridMeets ==
  ASSUME NEW o \in Int, NEW r \in Nat, NEW a \in Int
  PROVE  \E k \in Int : a <= o - r + k * 4 /\ o - r + k * 4 <= a + 3
<1>. DEFINE k == (a + 3 - o + r) \div 4
<1>1. k \in Int /\ a <= o - r + k * 4 /\ o - r + k * 4 <= a + 3
  OBVIOUS
<1>. QED
  BY <1>1

LEMMA GridIsInBox ==
  ASSUME NEW o \in Int, NEW r \in Nat
  PROVE  /\ \A k \in Int : -r <= k * 4 - r /\ k * 4 - r <= r => o - r + k * 4 \in From(o, r)
         /\ \A x \in From(o, r) : x \in (o - r)..(o + r)
<1>1. ASSUME NEW k \in Int, -r <= k * 4 - r, k * 4 - r <= r
      PROVE  o - r + k * 4 \in From(o, r)
  <2>1. k \in 0..((2 * r) \div 4)
    BY <1>1
  <2>. QED
    BY <2>1 DEF From, CellStep
<1>2. ASSUME NEW x \in From(o, r)
      PROVE  x \in (o - r)..(o + r)
  <2>1. PICK k \in 0..((2 * r) \div 4) : x = o - r + k * 4
    BY <1>2 DEF From, CellStep
  <2>2. k * 4 <= 2 * r /\ k \in Nat
    BY <2>1
  <2>. QED
    BY <2>1, <2>2
<1>. QED
  BY <1>1, <1>2

\* A place of the grid within the radius is sampled.
LEMMA GridIsSampled ==
  ASSUME NEW ox \in Int, NEW oy \in Int, NEW r \in Nat, NEW p, NEW k \in Int, NEW l \in Int,
         (k * 4 - r) * (k * 4 - r) + (l * 4 - r) * (l * 4 - r) <= r * r
  PROVE  Encode(XY(ox - r + k * 4, oy - r + l * 4), p) \in Sampled(XY(ox, oy), r, p)
<1>. DEFINE x == ox - r + k * 4
            y == oy - r + l * 4
            o == XY(ox, oy)
<1>1. x \in From(ox, r) /\ y \in From(oy, r)
  <2>1. k * 4 - r \in Int /\ l * 4 - r \in Int
    OBVIOUS
  <2>2. /\ -r <= k * 4 - r /\ k * 4 - r <= r
        /\ -r <= l * 4 - r /\ l * 4 - r <= r
    BY <2>1, SquareBounds
  <2>. QED
    BY <2>2, GridIsInBox
<1>2. x - ox = k * 4 - r /\ y - oy = l * 4 - r
  OBVIOUS
<1>. HIDE DEF x, y
<1>3. Within(o, XY(x, y), r)
  BY <1>2 DEF Within, XY
<1>4. o.x = ox /\ o.y = oy
  BY DEF XY
<1>. HIDE DEF o
<1>5. Encode(XY(x, y), p) \in Sampled(o, r, p)
  BY <1>1, <1>3, <1>4 DEF Sampled
<1>. QED
  BY <1>5 DEF x, y, o

\* The centre of a cell lies in the cell.
LEMMA CentreIsInCell ==
  ASSUME NEW c \in Int, NEW d \in Int, NEW p
  PROVE  /\ Encode(Decode(XY(c, d), p), p) = XY(c, d)
         /\ Decode(XY(c, d), p).x \in Int /\ Decode(XY(c, d), p).y \in Int
         /\ Decode(XY(c, d), p) = XY(Decode(XY(c, d), p).x, Decode(XY(c, d), p).y)
<1>1. CASE Height(p) = 4
  <2>1. Decode(XY(c, d), p) = XY(4 * c + 2, 4 * d + 2)
    BY <1>1 DEF Decode, XY, Width, CellStep
  <2>2. (4 * c + 2) \div 4 = c /\ (4 * d + 2) \div 4 = d
    OBVIOUS
  <2>. QED
    BY <1>1, <2>1, <2>2 DEF Encode, XY, Width, CellStep
<1>2. CASE Height(p) = 2
  <2>1. Decode(XY(c, d), p) = XY(4 * c + 2, 2 * d + 1)
    BY <1>2 DEF Decode, XY, Width, CellStep
  <2>2. (4 * c + 2) \div 4 = c /\ (2 * d + 1) \div 2 = d
    OBVIOUS
  <2>. QED
    BY <1>2, <2>1, <2>2 DEF Encode, XY, Width, CellStep
<1>. QED
  BY <1>1, <1>2 DEF Height, CellStep

LEMMA EncodeIsCell ==
  ASSUME NEW x \in Int, NEW y \in Int, NEW p
  PROVE  \E c, d \in Int : Encode(XY(x, y), p) = XY(c, d)
<1>1. Height(p) \in {2, 4}
  BY DEF Height, CellStep
<1>2. x \div 4 \in Int /\ y \div Height(p) \in Int
  BY <1>1
<1>. QED
  BY <1>2 DEF Encode, XY, Width, CellStep

-----------------------------------------------------------------------------
(* No cell too many.                                                        *)

\* The cells of CellsOfDisc and of Inside, for any centre, radius and precision.
DiscCells(o, r, p) ==
  {Encode(a, p) : a \in {b \in {XY(x, y) : x \in (o.x - r)..(o.x + r),
                                         y \in (o.y - r)..(o.y + r)} : Within(o, b, r)}}

LEMMA InDisc ==
  ASSUME NEW ox \in Int, NEW oy \in Int, NEW r \in Nat, NEW p,
         NEW x \in Int, NEW y \in Int, Within(XY(ox, oy), XY(x, y), r)
  PROVE  Encode(XY(x, y), p) \in DiscCells(XY(ox, oy), r, p)
<1>1. (x - ox) * (x - ox) + (y - oy) * (y - oy) <= r * r
  BY DEF Within, XY
<1>2. -r <= x - ox /\ x - ox <= r /\ -r <= y - oy /\ y - oy <= r
  <2>1. x - ox \in Int /\ y - oy \in Int
    OBVIOUS
  <2>. QED
    BY <1>1, <2>1, SquareBounds
<1>3. x \in (ox - r)..(ox + r) /\ y \in (oy - r)..(oy + r)
  BY <1>2
<1>. DEFINE o == XY(ox, oy)
<1>4. o.x = ox /\ o.y = oy
  BY DEF XY
<1>. HIDE DEF o
<1>5. x \in (o.x - r)..(o.x + r) /\ y \in (o.y - r)..(o.y + r)
  BY <1>3, <1>4
<1>6. Within(o, XY(x, y), r)
  BY DEF o
<1>7. Encode(XY(x, y), p) \in DiscCells(o, r, p)
  BY <1>5, <1>6 DEF DiscCells
<1>. QED
  BY <1>7 DEF o

\* What is sampled is a cell of a place, and what is added one whose centre is near.
LEMMA CoverStaysInside ==
  ASSUME NEW ox \in Int, NEW oy \in Int, NEW r \in Nat, NEW p
  PROVE  Cover(XY(ox, oy), r, p) \subseteq DiscCells(XY(ox, oy), r, p)
<1>. DEFINE o == XY(ox, oy)
<1>1. o.x = ox /\ o.y = oy
  BY DEF XY
<1>2. ASSUME NEW g \in Sampled(o, r, p)
      PROVE  g \in DiscCells(o, r, p)
  <2>1. PICK x \in From(ox, r), y \in From(oy, r) :
          Within(o, XY(x, y), r) /\ g = Encode(XY(x, y), p)
    BY <1>1, <1>2 DEF Sampled
  <2>2. x \in Int /\ y \in Int
    BY GridIsInBox
  <2>. QED
    BY <2>1, <2>2, InDisc
<1>3. ASSUME NEW g \in AddedNeighbors(o, r, p, Sampled(o, r, p))
      PROVE  g \in DiscCells(o, r, p)
  <2>1. Within(o, Decode(g, p), r)
    BY <1>3 DEF AddedNeighbors
  <2>2. PICK h \in Sampled(o, r, p), d \in Directions :
          g = Encode(XY(Decode(h, p).x + d[1] * CellStep, Decode(h, p).y + d[2] * CellStep), p)
    BY <1>3 DEF AddedNeighbors, AllNeighbors, Neighbors
  <2>3. \E c, e \in Int : h = XY(c, e)
    <3>1. PICK x \in From(ox, r), y \in From(oy, r) : h = Encode(XY(x, y), p)
      BY <1>1, <2>2 DEF Sampled
    <3>2. x \in Int /\ y \in Int
      BY GridIsInBox
    <3>. QED
      BY <3>1, <3>2, EncodeIsCell
  <2>4. Decode(h, p).x \in Int /\ Decode(h, p).y \in Int
    BY <2>3, CentreIsInCell
  <2>5. d[1] * CellStep \in Int /\ d[2] * CellStep \in Int
    BY DEF Directions, CellStep
  <2>6. PICK c, e \in Int : g = XY(c, e)
    BY <2>2, <2>4, <2>5, EncodeIsCell
  <2>7. /\ Decode(g, p).x \in Int /\ Decode(g, p).y \in Int
        /\ Decode(g, p) = XY(Decode(g, p).x, Decode(g, p).y)
        /\ Encode(Decode(g, p), p) = g
    BY <2>6, CentreIsInCell
  <2>. QED
    BY <2>1, <2>7, InDisc
<1>. QED
  BY <1>2, <1>3 DEF Cover

-----------------------------------------------------------------------------
(* No cell too few, with an odd precision.                                  *)

\* Where a cell's own sample is out of reach, that of the cell a step towards the centre
\* is within it: dx, dy lead from the centre to the cell's, u, v to its sample.
Towards(d) == IF d >= 3 THEN -1 ELSE IF d <= -3 THEN 1 ELSE 0

LEMMA SampleIsNear ==
  ASSUME NEW r \in Nat, r >= 16,
         NEW dx \in Int, NEW dy \in Int, dx * dx + dy * dy <= r * r,
         NEW u \in Int, NEW v \in Int, dx - 2 <= u, u <= dx + 1, dy - 2 <= v, v <= dy + 1
  PROVE  (u + 4 * Towards(dx)) * (u + 4 * Towards(dx)) + (v + 4 * Towards(dy)) * (v + 4 * Towards(dy)) <= r * r
<1>. DEFINE s == u + 4 * Towards(dx)
            t == v + 4 * Towards(dy)
            a == IF dx >= 0 THEN dx ELSE -dx
            b == IF dy >= 0 THEN dy ELSE -dy
<1>1. /\ s \in Int /\ t \in Int /\ a \in Nat /\ b \in Nat
      /\ a >= 3 => -a <= s /\ s <= a
      /\ b >= 3 => -b <= t /\ t <= b
      /\ a >= 5 => 2 - a <= s /\ s <= a - 2
      /\ b >= 5 => 2 - b <= t /\ t <= b - 2
      /\ a <= 4 => -4 <= s /\ s <= 4
      /\ b <= 4 => -4 <= t /\ t <= 4
  BY DEF Towards
<1>2. a * a = dx * dx /\ b * b = dy * dy
  OBVIOUS
<1>3. r * r >= 16 * 16
  BY SquareGrows
<1>4. a * a + b * b <= r * r
  BY <1>2
<1>. HIDE DEF s, t, a, b
<1>5. ASSUME NEW m \in Nat, NEW z \in Int, -m <= z, z <= m
      PROVE  z * z <= m * m
  BY <1>5, SquareGrows
<1>6. CASE a >= 5 /\ b >= 5
  <2>1. s * s <= a * a /\ t * t <= b * b
    BY <1>1, <1>5, <1>6
  <2>2. /\ s * s \in Int /\ t * t \in Int /\ a * a \in Int /\ b * b \in Int
        /\ r * r \in Int
    BY <1>1
  <2>. QED
    BY <1>4, <2>1, <2>2 DEF s, t
<1>7. CASE a <= 4 /\ b <= 4
  <2>1. s * s <= 16 /\ t * t <= 16
    BY <1>1, <1>5, <1>7
  <2>2. s * s \in Int /\ t * t \in Int /\ r * r \in Int
    BY <1>1
  <2>. QED
    BY <1>3, <2>1, <2>2 DEF s, t
<1>8. CASE a >= 5 /\ b <= 4
  <2>1. s * s <= (a - 2) * (a - 2) /\ t * t <= 16
    BY <1>1, <1>5, <1>8
  <2>2. (a - 2) * (a - 2) + 16 <= a * a
    BY <1>1, <1>8
  <2>3. /\ s * s \in Int /\ t * t \in Int /\ a * a \in Int /\ b * b \in Int /\ b * b >= 0
        /\ r * r \in Int /\ (a - 2) * (a - 2) \in Int
    BY <1>1
  <2>. QED
    BY <1>4, <2>1, <2>2, <2>3 DEF s, t
<1>9. CASE a <= 4 /\ b >= 5
  <2>1. t * t <= (b - 2) * (b - 2) /\ s * s <= 16
    BY <1>1, <1>5, <1>9
  <2>2. (b - 2) * (b - 2) + 16 <= b * b
    BY <1>1, <1>9
  <2>3. /\ s * s \in Int /\ t * t \in Int /\ a * a \in Int /\ b * b \in Int /\ a * a >= 0
        /\ r * r \in Int /\ (b - 2) * (b - 2) \in Int
    BY <1>1
  <2>. QED
    BY <1>4, <2>1, <2>2, <2>3 DEF s, t
<1>. QED
  BY <1>1, <1>6, <1>7, <1>8, <1>9

\* The cell of a neighbour, a step away in a direction.
LEMMA OddNeighbor ==
  ASSUME NEW c \in Int, NEW e \in Int, NEW s \in -1..1, NEW t \in -1..1, s # 0 \/ t # 0,
         NEW p, p % 2 # 0
  PROVE  XY(c, e) \in Neighbors(XY(c + s, e + t), p)
<1>1. Height(p) = 4
  BY DEF Height, CellStep
<1>2. Decode(XY(c + s, e + t), p) = XY(4 * (c + s) + 2, 4 * (e + t) + 2)
  BY <1>1 DEF Decode, XY, Width, CellStep
<1>3. <<-s, -t>> \in Directions
  BY DEF Directions
<1>4. /\ 4 * (c + s) + 2 + (-s) * 4 = 4 * c + 2 /\ (4 * c + 2) \div 4 = c
      /\ 4 * (e + t) + 2 + (-t) * 4 = 4 * e + 2 /\ (4 * e + 2) \div 4 = e
  OBVIOUS
<1>5. Encode(XY(Decode(XY(c + s, e + t), p).x + (-s) * CellStep,
                Decode(XY(c + s, e + t), p).y + (-t) * CellStep), p) = XY(c, e)
  BY <1>1, <1>2, <1>4 DEF Encode, XY, Width, CellStep
<1>. QED
  BY <1>3, <1>5 DEF Neighbors

LEMMA OddCellIsCovered ==
  ASSUME NEW ox \in Int, NEW oy \in Int, NEW r \in Nat, r >= 16, NEW p, p % 2 # 0,
         NEW c \in Int, NEW e \in Int, Within(XY(ox, oy), Decode(XY(c, e), p), r)
  PROVE  XY(c, e) \in Cover(XY(ox, oy), r, p)
<1>. DEFINE dx == 4 * c + 2 - ox
            dy == 4 * e + 2 - oy
<1>1. Height(p) = 4 /\ Decode(XY(c, e), p) = XY(4 * c + 2, 4 * e + 2)
  BY DEF Height, Decode, XY, Width, CellStep
<1>2. dx * dx + dy * dy <= r * r /\ dx \in Int /\ dy \in Int
  BY <1>1 DEF Within, XY
<1>3. PICK k \in Int : 4 * c <= ox - r + k * 4 /\ ox - r + k * 4 <= 4 * c + 3
  <2>1. 4 * c \in Int
    OBVIOUS
  <2>. QED
    BY <2>1, GridMeets
<1>4. PICK l \in Int : 4 * e <= oy - r + l * 4 /\ oy - r + l * 4 <= 4 * e + 3
  <2>1. 4 * e \in Int
    OBVIOUS
  <2>. QED
    BY <2>1, GridMeets
<1>. DEFINE s == Towards(dx)
            t == Towards(dy)
            u == k * 4 - r
            v == l * 4 - r
<1>5. s \in -1..1 /\ t \in -1..1 /\ s \in Int /\ t \in Int
  BY DEF Towards
<1>6. (u + 4 * s) * (u + 4 * s) + (v + 4 * t) * (v + 4 * t) <= r * r
  <2>1. /\ u \in Int /\ dx - 2 <= u /\ u <= dx + 1
        /\ v \in Int /\ dy - 2 <= v /\ v <= dy + 1
    BY <1>3, <1>4
  <2>. HIDE DEF u, v, dx, dy
  <2>. QED
    BY <1>2, <2>1, SampleIsNear
<1>. HIDE DEF s, t
<1>7. Encode(XY(ox - r + (k + s) * 4, oy - r + (l + t) * 4), p) \in Sampled(XY(ox, oy), r, p)
  <2>1. (k + s) * 4 - r = u + 4 * s /\ (l + t) * 4 - r = v + 4 * t /\ k + s \in Int /\ l + t \in Int
    BY <1>5
  <2>. HIDE DEF u, v
  <2>2. ((k + s) * 4 - r) * ((k + s) * 4 - r) + ((l + t) * 4 - r) * ((l + t) * 4 - r) <= r * r
    BY <1>6, <2>1
  <2>. QED
    BY <2>1, <2>2, GridIsSampled
<1>8. Encode(XY(ox - r + (k + s) * 4, oy - r + (l + t) * 4), p) = XY(c + s, e + t)
  <2>1. (ox - r + (k + s) * 4) \div 4 = c + s /\ (oy - r + (l + t) * 4) \div 4 = e + t
    BY <1>3, <1>4, <1>5
  <2>. QED
    BY <1>1, <2>1 DEF Encode, XY, Width, CellStep
<1>9. CASE s = 0 /\ t = 0
  <2>1. XY(c + s, e + t) = XY(c, e)
    BY <1>9
  <2>. QED
    BY <1>7, <1>8, <2>1 DEF Cover
<1>10. CASE s # 0 \/ t # 0
  <2>1. XY(c, e) \in Neighbors(XY(c + s, e + t), p)
    BY <1>5, <1>10, OddNeighbor
  <2>. QED
    BY <1>7, <1>8, <2>1 DEF Cover, AddedNeighbors, AllNeighbors
<1>. QED
  BY <1>9, <1>10

-----------------------------------------------------------------------------
(* Not two rows too few, with an even precision.                            *)

\* Of two rows that touch, one holds a sample in the column of a cell in the inner half.
LEMMA EvenRowIsSampled ==
  ASSUME NEW ox \in Int, NEW oy \in Int, NEW r \in Nat, r >= 16, NEW p, p % 2 = 0,
         NEW c \in Int, NEW e \in Int, NEW row \in {e - 1, e},
         Within(XY(ox, oy), Decode(XY(c, e), p), r \div 2)
  PROVE  XY(c, row) \in Cover(XY(ox, oy), r, p) \/ XY(c, row + 1) \in Cover(XY(ox, oy), r, p)
<1>. DEFINE dx == 4 * c + 2 - ox
            dy == 2 * e + 1 - oy
            h  == r \div 2
<1>1. Height(p) = 2 /\ Decode(XY(c, e), p) = XY(4 * c + 2, 2 * e + 1)
  BY DEF Height, Decode, XY, Width, CellStep
<1>2. dx * dx + dy * dy <= h * h /\ dx \in Int /\ dy \in Int /\ h \in Nat
  BY <1>1 DEF Within, XY
<1>3. -h <= dx /\ dx <= h /\ -h <= dy /\ dy <= h
  <2>. HIDE DEF dx, dy, h
  <2>. QED
    BY <1>2, SquareBounds
<1>4. PICK k \in Int : 4 * c <= ox - r + k * 4 /\ ox - r + k * 4 <= 4 * c + 3
  <2>1. 4 * c \in Int
    OBVIOUS
  <2>. QED
    BY <2>1, GridMeets
<1>5. PICK l \in Int : 2 * row <= oy - r + l * 4 /\ oy - r + l * 4 <= 2 * row + 3
  <2>1. 2 * row \in Int
    OBVIOUS
  <2>. QED
    BY <2>1, GridMeets
<1>. DEFINE u == k * 4 - r
            v == l * 4 - r
<1>6. u * u + v * v <= r * r
  <2>1. u \in Int /\ dx - 2 <= u /\ u <= dx + 1
    BY <1>4
  <2>2. v \in Int /\ dy - 3 <= v /\ v <= dy + 2
    BY <1>5
  <2>3. h >= 8 /\ 2 * h <= r
    OBVIOUS
  <2>. HIDE DEF u, v, dx, dy, h
  <2>4. u * u <= (h + 2) * (h + 2)
    <3>1. -(h + 2) <= u /\ u <= h + 2 /\ h + 2 \in Int
      BY <1>2, <1>3, <2>1
    <3>. QED
      BY <2>1, <3>1, SquareGrows
  <2>5. v * v <= (h + 3) * (h + 3)
    <3>1. -(h + 3) <= v /\ v <= h + 3 /\ h + 3 \in Int
      BY <1>2, <1>3, <2>2
    <3>. QED
      BY <2>2, <3>1, SquareGrows
  <2>6. (h + 2) * (h + 2) + (h + 3) * (h + 3) <= (2 * h) * (2 * h)
    BY <1>2, <2>3
  <2>7. (2 * h) * (2 * h) <= r * r
    <3>1. 2 * h \in Int /\ -r <= 2 * h
      BY <1>2
    <3>. QED
      BY <2>3, <3>1, SquareGrows
  <2>8. /\ u * u \in Int /\ v * v \in Int /\ r * r \in Int /\ (2 * h) * (2 * h) \in Int
        /\ (h + 2) * (h + 2) \in Int /\ (h + 3) * (h + 3) \in Int
    BY <1>2, <2>1, <2>2
  <2>. QED
    BY <2>4, <2>5, <2>6, <2>7, <2>8
<1>7. Encode(XY(ox - r + k * 4, oy - r + l * 4), p) \in Sampled(XY(ox, oy), r, p)
  BY <1>6, GridIsSampled
<1>8. /\ (ox - r + k * 4) \div 4 = c
      /\ (oy - r + l * 4) \div 2 \in {row, row + 1}
  BY <1>4, <1>5
<1>9. Encode(XY(ox - r + k * 4, oy - r + l * 4), p) \in {XY(c, row), XY(c, row + 1)}
  BY <1>1, <1>8 DEF Encode, XY, Width, CellStep
<1>. QED
  BY <1>7, <1>9 DEF Cover

-----------------------------------------------------------------------------
(* The radius in units, and the theorem.                                    *)

\* For any radius that is allowed there are cells of a quarter of it.
LEMMA PrecisionFits ==
  ASSUME NEW radius \in 1..200
  PROVE  /\ OptimalPrecision(radius) \in 1..9
         /\ 4 * GeohashPrecision[OptimalPrecision(radius)] <= radius * 10000
<1>. DEFINE fit == {p \in 1..9 : 4 * GeohashPrecision[p] <= radius * 10000}
<1>1. 9 \in fit
  BY DEF GeohashPrecision
<1>2. ASSUME NEW F \in SUBSET (1..9), F # {}
      PROVE  \E x \in F : \A y \in F : x =< y
  <2>1. PICK z \in F : TRUE
    BY <1>2
  <2>2. z \in {1, 2, 3, 4, 5, 6, 7, 8, 9}
    BY <2>1
  <2>3. \/ 1 \in F \/ 2 \in F \/ 3 \in F \/ 4 \in F \/ 5 \in F
        \/ 6 \in F \/ 7 \in F \/ 8 \in F \/ 9 \in F
    BY <2>1, <2>2
  <2>. QED
    BY <2>3
<1>3. Min(fit) \in fit
  <2>1. fit \in SUBSET (1..9) /\ fit # {}
    BY <1>1
  <2>2. \E x \in fit : \A y \in fit : x =< y
    BY <1>2, <2>1
  <2>. HIDE DEF fit
  <2>. QED
    BY <2>2 DEF Min
<1>4. OptimalPrecision(radius) = Min(fit)
  BY <1>1 DEF OptimalPrecision
<1>. HIDE DEF OptimalPrecision
<1>. QED
  BY <1>3, <1>4

LEMMA ReachSpansCells ==
  ASSUME asked.radius \in 1..200
  PROVE  Reach \in Nat /\ Reach >= 16
<1>. DEFINE p == OptimalPrecision(asked.radius)
            size == GeohashPrecision[p]
<1>1. p \in 1..9 /\ 4 * size <= asked.radius * 10000
  BY PrecisionFits
<1>. HIDE DEF p
<1>2. size \in Nat /\ size > 0
  BY <1>1 DEF GeohashPrecision
<1>3. Reach = (asked.radius * 10000 * 4) \div size
  BY DEF Reach, Precision, CellStep, p
<1>4. size \in {50000000, 12500000, 1560000, 391000, 49000, 12000, 1520, 380, 48}
  BY <1>1 DEF GeohashPrecision
<1>5. asked.radius * 10000 * 4 \in Nat /\ 16 * size <= asked.radius * 10000 * 4
  BY <1>1, <1>2
<1>. HIDE DEF size
<1>. QED
  BY <1>3, <1>4, <1>5

LEMMA CellsInDisc ==
  ASSUME NEW r \in Nat, CoverCentre = XY(asked.x, asked.y), asked.x \in Int, asked.y \in Int,
         NEW g \in Inside(r)
  PROVE  \E c, e \in Int : g = XY(c, e) /\ Within(CoverCentre, Decode(XY(c, e), Precision), r)
<1>. DEFINE o == CoverCentre
<1>1. o.x \in Int /\ o.y \in Int
  BY DEF XY
<1>. HIDE DEF o
<1>2. PICK x \in (o.x - r)..(o.x + r), y \in (o.y - r)..(o.y + r) :
        g = Encode(XY(x, y), Precision)
  BY DEF Inside, CellsOfDisc, o
<1>3. PICK c, e \in Int : g = XY(c, e)
  BY <1>1, <1>2, EncodeIsCell
<1>. QED
  BY <1>3 DEF Inside

\* Whatever a client asks for, its groups are the cells around it: none that is out of
\* reach; all of those that are within it, with an odd precision; and in the inner half one
\* of any two that touch, with an even one (Cover, optimalPrecision).
THEOREM CoversAreSound == CoverSpec => []CoverIsSound
<1>1. CoverTypeOK => CoverIsSound
  <2>. SUFFICES ASSUME CoverTypeOK, asked # Nobody
                PROVE  NoOverreach /\ OddIsCovered /\ HolesAreOneRow
    BY DEF CoverIsSound
  <2>1. asked.radius \in 1..200 /\ asked.x \in Int /\ asked.y \in Int
    <3>1. asked \in [radius : Radii, x : 0..(Width - 1), y : 0..(CellStep - 1)]
      BY DEF CoverTypeOK, Asked
    <3>2. asked.radius \in Radii /\ asked.x \in 0..3 /\ asked.y \in 0..3
      BY <3>1 DEF Width, CellStep
    <3>3. asked.x \in Int /\ asked.y \in Int
      BY <3>2
    <3>4. Radii \subseteq 1..200
      BY RadiiAssumption
    <3>. QED
      BY <3>2, <3>3, <3>4
  <2>2. Reach \in Nat /\ Reach >= 16
    BY <2>1, ReachSpansCells
  <2>3. CoverCentre = XY(asked.x, asked.y) /\ Cells = Cover(CoverCentre, Reach, Precision)
    BY DEF CoverCentre, Cells
  <2>4. NoOverreach
    <3>1. CellsOfDisc(Reach) = DiscCells(CoverCentre, Reach, Precision)
      BY DEF CellsOfDisc, DiscCells
    <3>2. Cover(CoverCentre, Reach, Precision) \subseteq DiscCells(CoverCentre, Reach, Precision)
      BY <2>1, <2>2, <2>3, CoverStaysInside
    <3>. QED
      BY <2>3, <3>1, <3>2 DEF NoOverreach
  <2>5. OddIsCovered
    <3>. SUFFICES ASSUME ~Even, NEW g \in Inside(Reach)
                  PROVE  g \in Cells
      BY DEF OddIsCovered
    <3>1. PICK c, e \in Int : g = XY(c, e) /\ Within(CoverCentre, Decode(XY(c, e), Precision), Reach)
      BY <2>1, <2>2, <2>3, CellsInDisc
    <3>2. Precision % 2 # 0
      BY DEF Even
    <3>. QED
      BY <2>1, <2>2, <2>3, <3>1, <3>2, OddCellIsCovered
  <2>6. HolesAreOneRow
    <3>. SUFFICES ASSUME Even, NEW g \in Inside(Reach \div 2) \ Cells, NEW n \in Vertical(g)
                  PROVE  n \in Cells
      BY DEF HolesAreOneRow
    <3>1. Reach \div 2 \in Nat
      BY <2>2
    <3>2. PICK c, e \in Int :
            g = XY(c, e) /\ Within(CoverCentre, Decode(XY(c, e), Precision), Reach \div 2)
      BY <2>1, <2>3, <3>1, CellsInDisc
    <3>3. n \in {XY(c, e - 1), XY(c, e + 1)}
      BY <3>2 DEF Vertical, XY
    <3>4. Precision % 2 = 0
      BY DEF Even
    <3>5. \A row \in {e - 1, e} :
            XY(c, row) \in Cells \/ XY(c, row + 1) \in Cells
      BY <2>1, <2>2, <2>3, <3>2, <3>4, EvenRowIsSampled
    <3>6. XY(c, e - 1) \in Cells /\ XY(c, e + 1) \in Cells
      <4>1. XY(c, e) \notin Cells
        BY <3>2
      <4>2. e - 1 + 1 = e
        OBVIOUS
      <4>. QED
        BY <3>5, <4>1, <4>2
    <3>. QED
      BY <3>3, <3>6
  <2>. QED
    BY <2>4, <2>5, <2>6
<1>2. CoverInit => CoverTypeOK
  BY DEF CoverInit, CoverTypeOK
<1>3. CoverTypeOK /\ [CoverNext]_asked => CoverTypeOK'
  BY DEF CoverTypeOK, CoverNext, Asked, Nobody
<1>. QED
  BY <1>1, <1>2, <1>3, PTL DEF CoverSpec

\* What Cover is asked for is one of the questions, or none yet.
THEOREM CoverTypeCorrect == CoverSpec => []CoverTypeOK
<1>1. CoverInit => CoverTypeOK
  BY DEF CoverInit, CoverTypeOK
<1>2. CoverTypeOK /\ [CoverNext]_asked => CoverTypeOK'
  BY DEF CoverTypeOK, CoverNext, Asked, Nobody
<1>. QED
  BY <1>1, <1>2, PTL DEF CoverSpec

-----------------------------------------------------------------------------
(***************************************************************************)
(* What FanetParser guarantees for every pilot, where a run takes some      *)
(* coordinates: the packet on its way is the present pilot's, and what the  *)
(* parser takes out of its bytes is what the publisher has put in.          *)
(***************************************************************************)

\* Bytes that follow bytes.
LEMMA Joined ==
  ASSUME NEW S, NEW s \in Seq(S), NEW t \in Seq(S)
  PROVE  s \o t \in Seq(S) /\ Len(s \o t) = Len(s) + Len(t)
OBVIOUS

LEMMA JoinedLeft ==
  ASSUME NEW S, NEW s \in Seq(S), NEW t \in Seq(S), NEW i \in Int, 0 < i, i <= Len(s)
  PROVE  (s \o t)[i] = s[i]
OBVIOUS

LEMMA JoinedRight ==
  ASSUME NEW S, NEW s \in Seq(S), NEW t \in Seq(S), NEW i \in Int,
         Len(s) < i, i <= Len(s) + Len(t)
  PROVE  (s \o t)[i] = t[i - Len(s)]
OBVIOUS

\* (The places are named for the provers to find them.)
LEMMA JoinedTwo ==
  ASSUME NEW S, NEW s \in Seq(S), NEW t \in Seq(S)
  PROVE  /\ s \o t \in Seq(S) /\ Len(s \o t) = Len(s) + Len(t)
         /\ \A i \in Int : 0 < i /\ i <= Len(s) => (s \o t)[i] = s[i]
         /\ \A i, j \in Int : 0 < i /\ i <= Len(t) /\ j = Len(s) + i => (s \o t)[j] = t[i]
<1>1. s \o t \in Seq(S) /\ Len(s \o t) = Len(s) + Len(t)
  BY Joined
<1>2. ASSUME NEW i \in Int, 0 < i, i <= Len(s)
      PROVE  (s \o t)[i] = s[i]
  BY <1>2, JoinedLeft
<1>3. ASSUME NEW i \in Int, NEW j \in Int, 0 < i, i <= Len(t), j = Len(s) + i
      PROVE  (s \o t)[j] = t[i]
  <2>1. j \in Int /\ Len(s) < j /\ j <= Len(s) + Len(t) /\ j - Len(s) = i
    BY <1>3
  <2>2. (s \o t)[j] = t[j - Len(s)]
    BY <2>1, JoinedRight
  <2>. QED
    BY <2>1, <2>2
<1>. QED
  BY <1>1, <1>2, <1>3

LEMMA TwoBytes ==
  ASSUME NEW n \in Int
  PROVE  /\ Bytes16(n) \in Seq(Int) /\ Len(Bytes16(n)) = 2
         /\ Bytes16(n)[1] = n % 256 /\ Bytes16(n)[2] = (n \div 256) % 256
BY DEF Bytes16

LEMMA ThreeBytes ==
  ASSUME NEW n \in Int
  PROVE  /\ Bytes24(n) \in Seq(Int) /\ Len(Bytes24(n)) = 3
         /\ Bytes24(n)[1] = n % 256 /\ Bytes24(n)[2] = (n \div 256) % 256
         /\ Bytes24(n)[3] = (n \div 65536) % 256
<1>. DEFINE s == Bytes16(n)
            t == <<(n \div 65536) % 256>>
<1>1. s \in Seq(Int) /\ Len(s) = 2 /\ s[1] = n % 256 /\ s[2] = (n \div 256) % 256
  <2>1. s \in Seq(Int) /\ Len(s) = 2
    BY TwoBytes, Zenon
  <2>2. s[1] = n % 256
    BY TwoBytes, Zenon
  <2>3. s[2] = (n \div 256) % 256
    BY TwoBytes, Zenon
  <2>. QED
    BY <2>1, <2>2, <2>3
<1>2. t \in Seq(Int) /\ Len(t) = 1 /\ t[1] = (n \div 65536) % 256
  <2>1. (n \div 65536) % 256 \in Int
    OBVIOUS
  <2>. QED
    BY ONLY <2>1
<1>. HIDE DEF s, t
<1>3. /\ s \o t \in Seq(Int) /\ Len(s \o t) = Len(s) + Len(t)
      /\ \A i \in Int : 0 < i /\ i <= Len(s) => (s \o t)[i] = s[i]
      /\ \A i, j \in Int : 0 < i /\ i <= Len(t) /\ j = Len(s) + i => (s \o t)[j] = t[i]
  <2>1. s \in Seq(Int) /\ t \in Seq(Int)
    BY <1>1, <1>2
  <2>. QED
    BY <2>1, JoinedTwo
<1>5. /\ s \o t \in Seq(Int) /\ Len(s \o t) = 3
      /\ (s \o t)[1] = s[1] /\ (s \o t)[2] = s[2] /\ (s \o t)[3] = t[1]
  BY <1>1, <1>2, <1>3
<1>4. Bytes24(n) = s \o t
  BY DEF Bytes24, s, t
<1>. QED
  BY <1>1, <1>2, <1>5, <1>4

\* Numbers that come back from their bytes.
LEMMA SignedComesBack ==
  ASSUME NEW n \in Int, -8388608 <= n, n <= 8388607
  PROVE  Signed((n % 256) + 256 * ((n \div 256) % 256) + 65536 * ((n \div 65536) % 256), 16777216) = n
<1>. DEFINE m == n \div 256
            k == m \div 256
<1>1. m \in Int /\ n = 256 * m + (n % 256) /\ n % 256 \in 0..255
  OBVIOUS
<1>2. k \in -128..127 /\ m = 256 * k + (m % 256) /\ m % 256 \in 0..255
  OBVIOUS
<1>3. n \div 65536 = k
  BY SMT
<1>4. k % 256 = IF k < 0 THEN k + 256 ELSE k
  BY <1>2
<1>. HIDE DEF m, k
<1>5. (n % 256) + 256 * (m % 256) + 65536 * (k % 256) = IF k < 0 THEN n + 16777216 ELSE n
  BY <1>1, <1>2, <1>4, SMT
<1>6. k < 0 <=> n < 0
  BY <1>1, <1>2
<1>. QED
  BY <1>3, <1>5, <1>6, SMT DEF Signed, m

LEMMA UnsignedComesBack ==
  ASSUME NEW n \in Nat, n < 16777216
  PROVE  /\ (n % 256) + 256 * ((n \div 256) % 256) + 65536 * ((n \div 65536) % 256) = n
         /\ n < 65536 => (n % 256) + 256 * ((n \div 256) % 256) = n
<1>. DEFINE m == n \div 256
            k == m \div 256
<1>1. m \in Int /\ n = 256 * m + (n % 256) /\ n % 256 \in 0..255
  OBVIOUS
<1>2. k \in 0..255 /\ m = 256 * k + (m % 256) /\ m % 256 \in 0..255
  OBVIOUS
<1>3. n \div 65536 = k /\ k % 256 = k /\ (n < 65536 => m % 256 = m)
  BY SMT
<1>. HIDE DEF k
<1>. QED
  BY <1>1, <1>2, <1>3, SMT

\* What fits into three bytes, what a number and its half are, and what a coordinate is.
Fits24(n) == n \in Int /\ -8388608 <= n /\ n <= 8388607
Half(n, c) == 2 * n - c \in -1..1
OnEarth(c) == c \in Int /\ -16777086 <= c /\ c <= 16777086

\* A coordinate loses half a unit at most.
LEMMA HalvedCoordinate ==
  ASSUME NEW c, OnEarth(c)
  PROVE  Fits24(Toward0(c, 2)) /\ Half(Toward0(c, 2), c)
BY SMT DEF Toward0, OnEarth, Fits24, Half

\* The scaled fields of an air packet.
LEMMA AltitudeSurvives ==
  ASSUME NEW a \in Nat, 500 <= a, a <= 4000, NEW t \in 1..4, NEW status,
         status = 32768 + 4096 * t + (IF a > 2047 THEN 2048 + Clip(a \div 4, 2047) ELSE a)
  PROVE  /\ status \in Nat /\ status < 65536
         /\ (status \div 4096) % 8 = t
         /\ a - AirAltitude(status) \in IF a > 2047 THEN 0..3 ELSE {0}
<1>1. CASE a > 2047
  <2>1. /\ Clip(a \div 4, 2047) = a \div 4
        /\ a \div 4 \in Nat /\ a \div 4 <= 1000 /\ a - 4 * (a \div 4) \in 0..3
    BY <1>1, SMT DEF Clip
  <2>2. status = 32768 + 4096 * t + 2048 + (a \div 4)
    BY <1>1, <2>1, SMT
  <2>3. status % 2048 = a \div 4 /\ (status \div 2048) % 2 = 1 /\ (status \div 4096) % 8 = t
    BY <2>1, <2>2, SMT
  <2>. QED
    BY <1>1, <2>1, <2>2, <2>3, SMT DEF AirAltitude, Bit
<1>2. CASE a <= 2047
  <2>1. status = 32768 + 4096 * t + a
    BY <1>2, SMT
  <2>2. status % 2048 = a
    BY <1>2, <2>1, SMT
  <2>3. status \div 2048 = 16 + 2 * t
    BY <1>2, <2>1, SMT
  <2>4. (16 + 2 * t) % 2 = 0
    BY SMT
  <2>5. (status \div 4096) % 8 = t
    BY <1>2, <2>1, SMT
  <2>. QED
    BY <1>2, <2>1, <2>2, <2>3, <2>4, <2>5, SMT DEF AirAltitude, Bit
<1>. QED
  BY <1>1, <1>2, SMT

LEMMA SpeedSurvives ==
  ASSUME NEW v \in 20..150, NEW b,
         b = IF v > 63 THEN 128 + 2 * Clip(v \div 5, 63) ELSE 2 * v
  PROVE  b \in Int /\ v - AirSpeed(b) \in IF v > 63 THEN 0..4 ELSE {0}
BY DEF Clip, AirSpeed, Bit

LEMMA ClimbSurvives ==
  ASSUME NEW v \in -30..29
  PROVE  v % 128 \in Int /\ AirClimb(v % 128) = v
<1>1. /\ v % 128 = IF v < 0 THEN v + 128 ELSE v
      /\ (v % 128) % 128 = v % 128 /\ ((v % 128) \div 128) % 2 # 1
  OBVIOUS
<1>. QED
  BY <1>1 DEF AirClimb, Signed, Bit

HeadingComesBack(h) == h - (((h * 256) \div 360) * 360) \div 256 \in 0..2
LEMMA HeadingSurvives ==
  ASSUME NEW h, h \in 0..359
  PROVE  HeadingComesBack(h)
BY DEF HeadingComesBack

\* Two numbers of three bytes.
LEMMA SixBytes ==
  ASSUME NEW s \in Seq(Int), NEW t \in Seq(Int)
  PROVE  Len(s) = 3 /\ Len(t) = 3 =>
         /\ s \o t \in Seq(Int) /\ Len(s \o t) = 6
         /\ (s \o t)[1] = s[1] /\ (s \o t)[2] = s[2] /\ (s \o t)[3] = s[3]
         /\ (s \o t)[4] = t[1] /\ (s \o t)[5] = t[2] /\ (s \o t)[6] = t[3]
<1>1. /\ s \o t \in Seq(Int) /\ Len(s \o t) = Len(s) + Len(t)
      /\ \A i \in Int : 0 < i /\ i <= Len(s) => (s \o t)[i] = s[i]
      /\ \A i, j \in Int : 0 < i /\ i <= Len(t) /\ j = Len(s) + i => (s \o t)[j] = t[i]
  BY JoinedTwo
<1>. QED
  BY <1>1

\* A position, an altitude, and what else a packet has.
LEMMA PacketBytes ==
  ASSUME NEW c \in Seq(Int), NEW a \in Seq(Int), NEW t \in Seq(Int)
  PROVE  Len(c) = 6 /\ Len(a) = 2 =>
         LET s == c \o a \o t IN
         /\ s \in Seq(Int) /\ Len(s) = 8 + Len(t)
         /\ s[1] = c[1] /\ s[2] = c[2] /\ s[3] = c[3]
         /\ s[4] = c[4] /\ s[5] = c[5] /\ s[6] = c[6]
         /\ s[7] = a[1] /\ s[8] = a[2]
         /\ Len(t) >= 1 => s[9] = t[1]
         /\ Len(t) >= 2 => s[10] = t[2]
         /\ Len(t) >= 3 => s[11] = t[3]
<1>. DEFINE b == c \o a
<1>1. /\ b \in Seq(Int) /\ Len(b) = Len(c) + Len(a)
      /\ \A i \in Int : 0 < i /\ i <= Len(c) => b[i] = c[i]
      /\ \A i, j \in Int : 0 < i /\ i <= Len(a) /\ j = Len(c) + i => b[j] = a[i]
  BY JoinedTwo
<1>. HIDE DEF b
<1>9. SUFFICES ASSUME Len(c) = 6 /\ Len(a) = 2
               PROVE  LET s == c \o a \o t IN
                      /\ s \in Seq(Int) /\ Len(s) = 8 + Len(t)
                      /\ s[1] = c[1] /\ s[2] = c[2] /\ s[3] = c[3]
                      /\ s[4] = c[4] /\ s[5] = c[5] /\ s[6] = c[6]
                      /\ s[7] = a[1] /\ s[8] = a[2]
                      /\ Len(t) >= 1 => s[9] = t[1]
                      /\ Len(t) >= 2 => s[10] = t[2]
                      /\ Len(t) >= 3 => s[11] = t[3]
  OBVIOUS
<1>2. /\ Len(b) = 8
      /\ b[1] = c[1] /\ b[2] = c[2] /\ b[3] = c[3]
      /\ b[4] = c[4] /\ b[5] = c[5] /\ b[6] = c[6]
      /\ b[7] = a[1] /\ b[8] = a[2]
  <2>1. Len(b) = 8
    BY <1>1, <1>9
  <2>2. \A i \in Int : 0 < i /\ i <= 6 => b[i] = c[i]
    BY <1>1, <1>9
  <2>3. \A i, j \in Int : 0 < i /\ i <= 2 /\ j = 6 + i => b[j] = a[i]
    BY <1>1, <1>9
  <2>4. /\ b[1] = c[1] /\ b[2] = c[2] /\ b[3] = c[3]
        /\ b[4] = c[4] /\ b[5] = c[5] /\ b[6] = c[6]
    BY <2>2
  <2>5. b[7] = a[1] /\ b[8] = a[2]
    <3>1. 7 = 6 + 1 /\ 8 = 6 + 2
      OBVIOUS
    <3>2. b[7] = a[1]
      BY <2>3, <3>1
    <3>3. b[8] = a[2]
      BY <2>3, <3>1
    <3>. QED
      BY <3>2, <3>3
  <2>. QED
    BY <2>1, <2>4, <2>5
<1>a. Len(b) = 8
  BY <1>2
<1>3. b \in Seq(Int) /\ t \in Seq(Int)
  BY <1>1
<1>. DEFINE s == b \o t
<1>4. /\ s \in Seq(Int) /\ Len(s) = Len(b) + Len(t)
      /\ \A i \in Int : 0 < i /\ i <= Len(b) => s[i] = b[i]
      /\ \A i, j \in Int : 0 < i /\ i <= Len(t) /\ j = Len(b) + i => s[j] = t[i]
  BY <1>3, JoinedTwo
<1>5. s = c \o a \o t
  BY DEF b
<1>. HIDE DEF s
<1>6. /\ s[1] = b[1] /\ s[2] = b[2] /\ s[3] = b[3] /\ s[4] = b[4]
      /\ s[5] = b[5] /\ s[6] = b[6] /\ s[7] = b[7] /\ s[8] = b[8]
  <2>1. \A i \in Int : 0 < i /\ i <= 8 => s[i] = b[i]
    BY <1>a, <1>4
  <2>2. /\ 1 \in Int /\ 2 \in Int /\ 3 \in Int /\ 4 \in Int
        /\ 5 \in Int /\ 6 \in Int /\ 7 \in Int /\ 8 \in Int
        /\ 0 < 1 /\ 0 < 2 /\ 0 < 3 /\ 0 < 4 /\ 0 < 5 /\ 0 < 6 /\ 0 < 7 /\ 0 < 8
        /\ 1 <= 8 /\ 2 <= 8 /\ 3 <= 8 /\ 4 <= 8 /\ 5 <= 8 /\ 6 <= 8 /\ 7 <= 8 /\ 8 <= 8
    OBVIOUS
  <2>. QED
    BY <2>1, <2>2, Zenon
<1>7. /\ Len(t) >= 1 => s[9] = t[1]
      /\ Len(t) >= 2 => s[10] = t[2]
      /\ Len(t) >= 3 => s[11] = t[3]
  <2>1. Len(t) \in Nat
    OBVIOUS
  <2>2. \A i, j \in Int : 0 < i /\ i <= Len(t) /\ j = 8 + i => s[j] = t[i]
    BY <1>a, <1>4
  <2>3. Len(t) >= 1 => s[9] = t[1]
    BY <2>1, <2>2
  <2>4. Len(t) >= 2 => s[10] = t[2]
    BY <2>1, <2>2
  <2>5. Len(t) >= 3 => s[11] = t[3]
    BY <2>1, <2>2
  <2>. QED
    BY <2>3, <2>4, <2>5
<1>8. Len(s) = 8 + Len(t)
  BY <1>2, <1>4
<1>. QED
  BY <1>2, <1>4, <1>5, <1>6, <1>7, <1>8

\* Numbers at their places in the data.
LEMMA SignedIsRead ==
  ASSUME NEW data, NEW i, NEW n, Fits24(n),
         Byte(data, i) = Bytes24(n)[1], Byte(data, i + 1) = Bytes24(n)[2],
         Byte(data, i + 2) = Bytes24(n)[3]
  PROVE  Signed24(data, i) = n
<1>1. Signed24(data, i) =
        Signed(Bytes24(n)[1] + 256 * Bytes24(n)[2] + 65536 * Bytes24(n)[3], 16777216)
  BY SMT DEF Signed24, Unsigned16
<1>2. /\ Bytes24(n)[1] = n % 256 /\ Bytes24(n)[2] = (n \div 256) % 256
      /\ Bytes24(n)[3] = (n \div 65536) % 256
  BY ThreeBytes, SMT DEF Fits24
<1>3. Signed((n % 256) + 256 * ((n \div 256) % 256) + 65536 * ((n \div 65536) % 256), 16777216) = n
  BY SignedComesBack, SMT DEF Fits24
<1>. QED
  BY <1>1, <1>2, <1>3, SMT

LEMMA ThreeBytesLong ==
  ASSUME NEW n, Fits24(n)
  PROVE  Bytes24(n) \in Seq(Int) /\ Len(Bytes24(n)) = 3
<1>1. n \in Int
  BY SMT DEF Fits24
<1>. QED
  BY <1>1, ThreeBytes, SMT

LEMMA TwoBytesLong ==
  ASSUME NEW n \in Int
  PROVE  Bytes16(n) \in Seq(Int) /\ Len(Bytes16(n)) = 2
BY TwoBytes

LEMMA UnsignedIsRead ==
  ASSUME NEW data, NEW i, NEW n \in Nat, n < 65536,
         Byte(data, i) = Bytes16(n)[1], Byte(data, i + 1) = Bytes16(n)[2]
  PROVE  Unsigned16(data, i) = n
<1>1. Unsigned16(data, i) = Bytes16(n)[1] + 256 * Bytes16(n)[2]
  BY SMT DEF Unsigned16
<1>2. Bytes16(n)[1] = n % 256 /\ Bytes16(n)[2] = (n \div 256) % 256
  BY TwoBytes, SMT
<1>3. n < 16777216 /\ n \in Int
  BY SMT
<1>4. (n % 256) + 256 * ((n \div 256) % 256) = n
  BY <1>3, UnsignedComesBack, SMT
<1>. QED
  BY <1>1, <1>2, <1>4, SMT

\* The pilots of the publisher.
Pilots ==
  {q \in [lat : Int, lon : Int, altitude : Nat, speed : 20..150, climb : -30..29,
          heading : Heading, aircraft : 1..4, address : {1048577}] :
     /\ OnEarth(q.lat) /\ OnEarth(q.lon)
     /\ 500 <= q.altitude /\ q.altitude <= 4000}

\* The bytes of a place; the end of a thermal.
LEMMA CoordinateBytes ==
  ASSUME NEW p \in Pilots
  PROVE  Coordinate24s(p) \in Seq(Int)
<1>1. OnEarth(p.lat) /\ OnEarth(p.lon)
  BY SMT DEF Pilots
<1>2. Fits24(Toward0(p.lat, 2)) /\ Fits24(Toward0(p.lon, 2))
  BY <1>1, HalvedCoordinate, Zenon
<1>3. Bytes24(Toward0(p.lat, 2)) \in Seq(Int) /\ Bytes24(Toward0(p.lon, 2)) \in Seq(Int)
  BY <1>2, ThreeBytesLong, Zenon
<1>. QED
  BY <1>3, Joined, Zenon DEF Coordinate24s

LEMMA Associative ==
  ASSUME NEW s \in Seq(Int), NEW t \in Seq(Int), NEW u \in Seq(Int)
  PROVE  (s \o t) \o u = s \o (t \o u)
BY ConcatAssociative

LEMMA ThermalEnd ==
  ASSUME NEW q \in Seq(Int), NEW u \in Seq(Int), NEW w \in Seq(Int)
  PROVE  Len(q) = 1 /\ Len(u) = 2 /\ Len(w) = 2 =>
           /\ q \o (u \o w) \in Seq(Int) /\ Len(q \o (u \o w)) = 5
           /\ (q \o (u \o w))[2] = u[1] /\ (q \o (u \o w))[3] = u[2]
<1>. DEFINE v == u \o w
<1>1. /\ v \in Seq(Int) /\ Len(v) = Len(u) + Len(w)
      /\ \A i \in Int : 0 < i /\ i <= Len(u) => v[i] = u[i]
  BY JoinedTwo
<1>. HIDE DEF v
<1>2. /\ q \o v \in Seq(Int) /\ Len(q \o v) = Len(q) + Len(v)
      /\ \A i, j \in Int : 0 < i /\ i <= Len(v) /\ j = Len(q) + i => (q \o v)[j] = v[i]
  <2>1. v \in Seq(Int)
    BY <1>1
  <2>. QED
    BY <2>1, JoinedTwo
<1>. DEFINE s == q \o v
<1>. HIDE DEF s
<1>3. /\ s \in Seq(Int) /\ Len(s) = Len(q) + Len(v)
      /\ \A i, j \in Int : 0 < i /\ i <= Len(v) /\ j = Len(q) + i => s[j] = v[i]
  BY <1>2 DEF s
<1>4. Len(q) = 1 /\ Len(u) = 2 /\ Len(w) = 2 =>
           /\ s \in Seq(Int) /\ Len(s) = 5
           /\ s[2] = u[1] /\ s[3] = u[2]
  BY <1>1, <1>3
<1>. QED
  BY <1>4 DEF s, v

\* What data that begins with a place is read as.
PlaceThen(p, a, t, data) ==
  /\ Len(data) = 8 + Len(t)
  /\ Half(Signed24(data, 0), p.lat) /\ Half(Signed24(data, 3), p.lon)
  /\ Byte(data, 6) = a[1] /\ Byte(data, 7) = a[2]
  /\ Len(t) >= 1 => Byte(data, 8) = t[1]
  /\ Len(t) >= 2 => Byte(data, 9) = t[2]
  /\ Len(t) >= 3 => Byte(data, 10) = t[3]

LEMMA PlaceIsRead ==
  ASSUME NEW p \in Pilots, NEW a \in Seq(Int), Len(a) = 2, NEW t \in Seq(Int), NEW data,
         data = Coordinate24s(p) \o a \o t
  PROVE  PlaceThen(p, a, t, data)
<1>. DEFINE u == Toward0(p.lat, 2)
            v == Toward0(p.lon, 2)
            c == Coordinate24s(p)
<1>1. OnEarth(p.lat) /\ OnEarth(p.lon)
  BY SMT DEF Pilots
<1>2. Fits24(u) /\ Half(u, p.lat)
  BY <1>1, HalvedCoordinate, Zenon
<1>3. Fits24(v) /\ Half(v, p.lon)
  BY <1>1, HalvedCoordinate, Zenon
<1>. HIDE DEF u, v
<1>4. /\ Bytes24(u) \in Seq(Int) /\ Len(Bytes24(u)) = 3
      /\ Bytes24(v) \in Seq(Int) /\ Len(Bytes24(v)) = 3
  BY <1>2, <1>3, ThreeBytesLong, Zenon
<1>5. c = Bytes24(u) \o Bytes24(v)
  BY SMT DEF Coordinate24s, u, v
<1>6. /\ c \in Seq(Int) /\ Len(c) = 6
      /\ c[1] = Bytes24(u)[1] /\ c[2] = Bytes24(u)[2] /\ c[3] = Bytes24(u)[3]
      /\ c[4] = Bytes24(v)[1] /\ c[5] = Bytes24(v)[2] /\ c[6] = Bytes24(v)[3]
  BY <1>4, <1>5, SixBytes, SMT
<1>c. data = c \o a \o t
  BY Zenon DEF c
<1>. HIDE DEF c
<1>7. /\ Len(data) = 8 + Len(t)
      /\ data[1] = c[1] /\ data[2] = c[2] /\ data[3] = c[3]
      /\ data[4] = c[4] /\ data[5] = c[5] /\ data[6] = c[6]
      /\ data[7] = a[1] /\ data[8] = a[2]
      /\ Len(t) >= 1 => data[9] = t[1]
      /\ Len(t) >= 2 => data[10] = t[2]
      /\ Len(t) >= 3 => data[11] = t[3]
  <2>. DEFINE s == c \o a \o t
  <2>1. /\ s \in Seq(Int) /\ Len(s) = 8 + Len(t)
        /\ s[1] = c[1] /\ s[2] = c[2] /\ s[3] = c[3]
        /\ s[4] = c[4] /\ s[5] = c[5] /\ s[6] = c[6]
        /\ s[7] = a[1] /\ s[8] = a[2]
        /\ Len(t) >= 1 => s[9] = t[1]
        /\ Len(t) >= 2 => s[10] = t[2]
        /\ Len(t) >= 3 => s[11] = t[3]
    BY <1>6, PacketBytes, Zenon
  <2>2. data = s
    BY <1>c, Zenon
  <2>. HIDE DEF s
  <2>. QED
    BY <2>1, <2>2, Zenon
<1>8. /\ Byte(data, 0) = data[1] /\ Byte(data, 1) = data[2] /\ Byte(data, 2) = data[3]
      /\ Byte(data, 3) = data[4] /\ Byte(data, 4) = data[5] /\ Byte(data, 5) = data[6]
      /\ Byte(data, 6) = data[7] /\ Byte(data, 7) = data[8] /\ Byte(data, 8) = data[9]
      /\ Byte(data, 9) = data[10] /\ Byte(data, 10) = data[11]
  BY SMT DEF Byte
<1>9. Signed24(data, 0) = u
  <2>1. /\ Byte(data, 0) = Bytes24(u)[1] /\ Byte(data, 0 + 1) = Bytes24(u)[2]
        /\ Byte(data, 0 + 2) = Bytes24(u)[3]
    BY <1>6, <1>7, <1>8, SMT
  <2>. QED
    BY <1>2, <2>1, SignedIsRead, Zenon
<1>10. Signed24(data, 3) = v
  <2>1. /\ Byte(data, 3) = Bytes24(v)[1] /\ Byte(data, 3 + 1) = Bytes24(v)[2]
        /\ Byte(data, 3 + 2) = Bytes24(v)[3]
    BY <1>6, <1>7, <1>8, SMT
  <2>. QED
    BY <1>3, <2>1, SignedIsRead, Zenon
<1>11. Half(Signed24(data, 0), p.lat) /\ Half(Signed24(data, 3), p.lon)
  BY <1>2, <1>3, <1>9, <1>10, Zenon
<1>12. /\ Byte(data, 6) = a[1] /\ Byte(data, 7) = a[2]
       /\ Len(t) >= 1 => Byte(data, 8) = t[1]
       /\ Len(t) >= 2 => Byte(data, 9) = t[2]
       /\ Len(t) >= 3 => Byte(data, 10) = t[3]
  BY <1>7, <1>8, Zenon
<1>. QED
  BY <1>7, <1>11, <1>12, Zenon DEF PlaceThen

\* An air packet, field by field.
AirIsReadAs(p, r) ==
  /\ Half(r.lat, p.lat) /\ Half(r.lon, p.lon)
  /\ p.altitude - r.altitude \in IF p.altitude > 2047 THEN 0..3 ELSE {0}
  /\ p.speed - r.speed \in IF p.speed > 63 THEN 0..4 ELSE {0}
  /\ r.climb = p.climb /\ r.aircraft = p.aircraft
  /\ p.heading < 360 => p.heading - r.heading \in 0..2

LEMMA AirIsRead ==
  ASSUME NEW p \in Pilots, NEW data \in AirTracking(p)
  PROVE  data # << >> /\ AirIsReadAs(p, ParseAirTracking(data))
<1>. DEFINE a == Bytes16(AltStatus(p))
<1>1. PICK h \in HeadingBytes(p) : data = Coordinate24s(p) \o a \o <<SpeedByte(p), ClimbByte(p), h>>
  BY Zenon DEF AirTracking
<1>. DEFINE t == <<SpeedByte(p), ClimbByte(p), h>>
<1>2. /\ p.altitude \in Nat /\ 500 <= p.altitude /\ p.altitude <= 4000
      /\ p.aircraft \in 1..4
  BY SMT DEF Pilots
<1>a. p.speed \in 20..150
  BY SMT DEF Pilots
<1>b. p.climb \in -30..29
  BY SMT DEF Pilots
<1>3. h \in Int /\ (p.heading < 360 => h = (p.heading * 256) \div 360)
  <2>1. p.heading \in Int
    BY SMT DEF Pilots, Heading
  <2>. QED
    BY <2>1, SMT DEF HeadingBytes
<1>4. /\ AltStatus(p) \in Nat /\ AltStatus(p) < 65536
      /\ (AltStatus(p) \div 4096) % 8 = p.aircraft
      /\ p.altitude - AirAltitude(AltStatus(p)) \in IF p.altitude > 2047 THEN 0..3 ELSE {0}
  <2>1. AltStatus(p) = 32768 + 4096 * p.aircraft
                             + (IF p.altitude > 2047 THEN 2048 + Clip(p.altitude \div 4, 2047) ELSE p.altitude)
    BY SMT DEF AltStatus
  <2>. QED
    BY <1>2, <2>1, AltitudeSurvives, SMTT(30)
<1>5. SpeedByte(p) \in Int /\ p.speed - AirSpeed(SpeedByte(p)) \in IF p.speed > 63 THEN 0..4 ELSE {0}
  <2>1. SpeedByte(p) = IF p.speed > 63 THEN 128 + 2 * Clip(p.speed \div 5, 63) ELSE 2 * p.speed
    BY Zenon DEF SpeedByte
  <2>. QED
    BY <1>a, <2>1, SpeedSurvives, Zenon
<1>6. ClimbByte(p) \in Int /\ AirClimb(ClimbByte(p)) = p.climb
  <2>1. p.climb \in -64..63
    BY <1>b, SMT
  <2>2. ClimbByte(p) = p.climb % 128
    BY <2>1, Zenon DEF ClimbByte
  <2>. QED
    BY <1>b, <2>2, ClimbSurvives, Zenon
<1>7. a \in Seq(Int) /\ Len(a) = 2
  <2>1. AltStatus(p) \in Int
    BY <1>4, SMT
  <2>. QED
    BY <2>1, TwoBytesLong, Zenon
<1>8. t \in Seq(Int) /\ Len(t) = 3 /\ t[1] = SpeedByte(p) /\ t[2] = ClimbByte(p) /\ t[3] = h
  BY <1>3, <1>5, <1>6, SMT
<1>9. data = Coordinate24s(p) \o a \o t
  BY <1>1, Zenon
<1>. HIDE DEF a, t
<1>10. PlaceThen(p, a, t, data)
  BY <1>7, <1>8, <1>9, PlaceIsRead, Zenon
<1>11. /\ Len(data) = 11 /\ Byte(data, 8) = SpeedByte(p) /\ Byte(data, 9) = ClimbByte(p)
       /\ Byte(data, 10) = h
  BY <1>8, <1>10, SMT DEF PlaceThen
<1>12. Unsigned16(data, 6) = AltStatus(p)
  <2>1. Byte(data, 6) = Bytes16(AltStatus(p))[1] /\ Byte(data, 6 + 1) = Bytes16(AltStatus(p))[2]
    BY <1>10, SMT DEF PlaceThen, a
  <2>. QED
    BY <1>4, <2>1, UnsignedIsRead, SMT
<1>13. p.heading < 360 => p.heading - (h * 360) \div 256 \in 0..2
  <2>1. p.heading < 360 => p.heading \in 0..359
    BY SMT DEF Pilots, Heading
  <2>2. p.heading < 360 => HeadingComesBack(p.heading)
    BY <2>1, HeadingSurvives, Zenon
  <2>. QED
    BY <1>3, <2>2, SMT DEF HeadingComesBack
<1>. DEFINE r == ParseAirTracking(data)
<1>14. r = [lat      |-> Signed24(data, 0),
            lon      |-> Signed24(data, 3),
            altitude |-> AirAltitude(Unsigned16(data, 6)),
            online   |-> Bit(Unsigned16(data, 6), 32768),
            aircraft |-> (Unsigned16(data, 6) \div 4096) % 8,
            speed    |-> AirSpeed(Byte(data, 8)),
            climb    |-> AirClimb(Byte(data, 9)),
            heading  |-> (Byte(data, 10) * 360) \div 256]
  BY <1>11, SMT DEF ParseAirTracking
<1>15. /\ r.lat = Signed24(data, 0) /\ r.lon = Signed24(data, 3)
       /\ r.altitude = AirAltitude(AltStatus(p))
       /\ r.aircraft = (AltStatus(p) \div 4096) % 8
       /\ r.speed = AirSpeed(SpeedByte(p)) /\ r.climb = AirClimb(ClimbByte(p))
       /\ r.heading = (h * 360) \div 256
  <2>. HIDE DEF r
  <2>. QED
    BY <1>11, <1>12, <1>14, SMT
<1>16. data # << >>
  BY <1>11, SMT
<1>. HIDE DEF r
<1>17. /\ Half(r.lat, p.lat) /\ Half(r.lon, p.lon)
       /\ p.altitude - r.altitude \in IF p.altitude > 2047 THEN 0..3 ELSE {0}
       /\ p.speed - r.speed \in IF p.speed > 63 THEN 0..4 ELSE {0}
       /\ r.climb = p.climb /\ r.aircraft = p.aircraft
       /\ p.heading < 360 => p.heading - r.heading \in 0..2
  <2>1. /\ Half(r.lat, p.lat) /\ Half(r.lon, p.lon)
    <3>1. Half(Signed24(data, 0), p.lat) /\ Half(Signed24(data, 3), p.lon)
      BY <1>10, SMT DEF PlaceThen
    <3>. QED
      BY <1>15, <3>1, SMT
  <2>2. p.altitude - r.altitude \in IF p.altitude > 2047 THEN 0..3 ELSE {0}
    BY <1>4, <1>15, SMT
  <2>3. p.speed - r.speed \in IF p.speed > 63 THEN 0..4 ELSE {0}
    BY <1>5, <1>15, SMT
  <2>4. r.climb = p.climb /\ r.aircraft = p.aircraft
    BY <1>4, <1>6, <1>15, SMT
  <2>5. p.heading < 360 => p.heading - r.heading \in 0..2
    BY <1>13, <1>15, SMT
  <2>. QED
    BY <2>1, <2>2, <2>3, <2>4, <2>5, Zenon
<1>. QED
  BY <1>16, <1>17, Zenon DEF AirIsReadAs, r

\* A thermal, field by field.
ThermalIsReadAs(p, r) ==
  /\ Half(r.lat, p.lat) /\ Half(r.lon, p.lon)
  /\ r.altitude = p.altitude /\ r.climb \in {100, 499}

LEMMA ThermalIsRead ==
  ASSUME NEW p \in Pilots, NEW data \in Thermal(p)
  PROVE  data # << >> /\ ThermalIsReadAs(p, ParseThermal(data))
<1>1. PICK q \in {0, 5}, climb \in {100, 499} :
        data = Coordinate24s(p) \o Bytes16(p.altitude) \o <<q>> \o Bytes16(climb) \o Bytes16(0)
  <2>. DEFINE D(x, y) ==
                Coordinate24s(p) \o Bytes16(p.altitude) \o <<x>> \o Bytes16(y) \o Bytes16(0)
  <2>1. Thermal(p) = {D(x, y) : x \in {0, 5}, y \in {100, 499}}
    BY SMT DEF Thermal
  <2>. HIDE DEF D
  <2>2. \E x \in {0, 5}, y \in {100, 499} : data = D(x, y)
    BY <2>1, SMT
  <2>. QED
    BY <2>2, Zenon DEF D
<1>. DEFINE a == Bytes16(p.altitude)
            b == Coordinate24s(p) \o a
            u == Bytes16(climb)
            w == Bytes16(0)
            t == <<q>> \o (u \o w)
<1>2. p.altitude \in Nat /\ p.altitude < 65536 /\ climb \in Nat /\ climb < 65536
  BY SMT DEF Pilots
<1>3. /\ a \in Seq(Int) /\ Len(a) = 2 /\ u \in Seq(Int) /\ Len(u) = 2
      /\ w \in Seq(Int) /\ Len(w) = 2
  <2>1. p.altitude \in Int /\ climb \in Int /\ 0 \in Int
    BY <1>2, SMT
  <2>2. a \in Seq(Int) /\ Len(a) = 2
    BY <2>1, TwoBytesLong, SMT
  <2>3. u \in Seq(Int) /\ Len(u) = 2
    BY <2>1, TwoBytesLong, SMT
  <2>4. w \in Seq(Int) /\ Len(w) = 2
    BY <2>1, TwoBytesLong, SMT
  <2>. QED
    BY <2>2, <2>3, <2>4, Zenon
<1>4. b \in Seq(Int)
  <2>1. Coordinate24s(p) \in Seq(Int)
    BY CoordinateBytes, Zenon
  <2>2. a \in Seq(Int)
    BY <1>3, Zenon
  <2>. HIDE DEF a
  <2>. QED
    BY <2>1, <2>2, Joined, Zenon
<1>5. data = b \o <<q>> \o u \o w
  BY <1>1, Zenon
<1>. HIDE DEF a, b, u, w
<1>6. <<q>> \in Seq(Int) /\ Len(<<q>>) = 1
  BY SMT
<1>7. data = b \o t
  <2>. DEFINE one == <<q>>
  <2>1. one \in Seq(Int)
    BY <1>6
  <2>. HIDE DEF one
  <2>2. b \o one \in Seq(Int)
    BY <1>4, <2>1, Joined, Zenon
  <2>3. ((b \o one) \o u) \o w = (b \o one) \o (u \o w)
    BY <1>3, <2>2, Associative, Zenon
  <2>4. u \o w \in Seq(Int)
    BY <1>3, Joined, Zenon
  <2>5. (b \o one) \o (u \o w) = b \o (one \o (u \o w))
    BY <1>4, <2>1, <2>4, Associative, Zenon
  <2>. QED
    BY <1>5, <2>3, <2>5, Zenon DEF one
<1>8. t \in Seq(Int) /\ Len(t) = 5 /\ t[2] = u[1] /\ t[3] = u[2]
  <2>. DEFINE one == <<q>>
  <2>1. one \in Seq(Int) /\ Len(one) = 1
    BY <1>6, Zenon
  <2>. HIDE DEF one
  <2>2. /\ one \o (u \o w) \in Seq(Int) /\ Len(one \o (u \o w)) = 5
        /\ (one \o (u \o w))[2] = u[1] /\ (one \o (u \o w))[3] = u[2]
    <3>1. u \in Seq(Int) /\ Len(u) = 2
      BY <1>3, Zenon
    <3>2. w \in Seq(Int) /\ Len(w) = 2
      BY <1>3, Zenon
    <3>. QED
      BY <2>1, <3>1, <3>2, ThermalEnd, SMT
  <2>. QED
    BY <2>2, Zenon DEF one
<1>9. data = Coordinate24s(p) \o a \o t
  BY <1>7, Zenon DEF b
<1>. HIDE DEF t
<1>10. PlaceThen(p, a, t, data)
  BY <1>3, <1>8, <1>9, PlaceIsRead, Zenon
<1>11. Len(data) = 13 /\ Byte(data, 9) = u[1] /\ Byte(data, 10) = u[2]
  BY <1>8, <1>10, SMT DEF PlaceThen
<1>12. Unsigned16(data, 6) = p.altitude
  <2>1. Byte(data, 6) = Bytes16(p.altitude)[1] /\ Byte(data, 6 + 1) = Bytes16(p.altitude)[2]
    BY <1>10, SMT DEF PlaceThen, a
  <2>. QED
    BY <1>2, <2>1, UnsignedIsRead, SMT
<1>13. Unsigned16(data, 9) = climb
  <2>1. Byte(data, 9) = Bytes16(climb)[1] /\ Byte(data, 9 + 1) = Bytes16(climb)[2]
    BY <1>11, SMT DEF u
  <2>. QED
    BY <1>2, <2>1, UnsignedIsRead, SMT
<1>14. Signed(climb, 65536) = climb
  BY SMT DEF Signed
<1>. DEFINE r == ParseThermal(data)
<1>15. r = [lat      |-> Signed24(data, 0),
            lon      |-> Signed24(data, 3),
            altitude |-> Unsigned16(data, 6),
            strength |-> Byte(data, 8),
            climb    |-> Signed(Unsigned16(data, 9), 65536)]
  BY <1>11, SMT DEF ParseThermal
<1>16. /\ r.lat = Signed24(data, 0) /\ r.lon = Signed24(data, 3)
       /\ r.altitude = p.altitude /\ r.climb = climb
  <2>. HIDE DEF r
  <2>. QED
    BY <1>12, <1>13, <1>14, <1>15, SMT
<1>17. data # << >>
  BY <1>11, SMT
<1>. HIDE DEF r
<1>18. /\ Half(r.lat, p.lat) /\ Half(r.lon, p.lon)
       /\ r.altitude = p.altitude /\ r.climb \in {100, 499}
  BY <1>10, <1>16, SMT DEF PlaceThen
<1>. QED
  BY <1>17, <1>18, Zenon DEF ThermalIsReadAs, r

LEMMA ShortThermalIsShort ==
  ASSUME NEW p \in Pilots, NEW data \in ShortThermal(p)
  PROVE  ~(Len(data) >= 13)
<1>. DEFINE D(climb) == Coordinate24s(p) \o Bytes16(p.altitude) \o <<4>> \o Bytes16(climb)
            C == {100, 499}
<1>1. ShortThermal(p) = {D(climb) : climb \in C}
  BY DEF ShortThermal
<1>2. C \subseteq Int /\ p.altitude \in Int
  BY SMT DEF Pilots
<1>. HIDE DEF D, C
<1>3. PICK climb \in C : data = D(climb)
  BY <1>1, Zenon
<1>. DEFINE a == Bytes16(p.altitude)
            f == <<4>>
            u == Bytes16(climb)
            t == f \o u
<1>4. a \in Seq(Int) /\ Len(a) = 2
  BY <1>2, TwoBytesLong
<1>5. u \in Seq(Int) /\ Len(u) = 2
  BY <1>2, TwoBytesLong
<1>6. f \in Seq(Int) /\ Len(f) = 1
  OBVIOUS
<1>7. data = Coordinate24s(p) \o a \o f \o u
  BY <1>3, Zenon DEF D
<1>. HIDE DEF a, f, u
<1>8. Coordinate24s(p) \o a \in Seq(Int)
  <2>1. Coordinate24s(p) \in Seq(Int)
    BY CoordinateBytes
  <2>. QED
    BY <1>4, <2>1, Joined, Zenon
<1>9. data = Coordinate24s(p) \o a \o t
  BY <1>5, <1>6, <1>7, <1>8, Associative, Zenon
<1>10. t \in Seq(Int) /\ Len(t) = 3
  <2>1. t \in Seq(Int) /\ Len(t) = Len(f) + Len(u)
    BY <1>5, <1>6, Joined, Zenon
  <2>. QED
    BY <1>5, <1>6, <2>1, SMT
<1>. HIDE DEF t
<1>11. Len(data) = 8 + Len(t)
  BY <1>4, <1>9, <1>10, PlaceIsRead, Zenon DEF PlaceThen
<1>. QED
  BY <1>10, <1>11

-----------------------------------------------------------------------------
(* The weather fields of a service packet.                                  *)

Name(i) == WeatherFields[i].name
SizeAt(i) == WeatherFields[i].size
At(at, i) == at.fields[Name(i)]
End(at, i) == At(at, i) + SizeAt(i)

LEMMA NamesDiffer ==
  /\ \A i \in 1..5 : SizeAt(i) \in 1..3
  /\ \A i, j \in 1..5 : Name(i) = Name(j) => i = j
<1>1. \A i \in 1..5 : i = 1 \/ i = 2 \/ i = 3 \/ i = 4 \/ i = 5
  OBVIOUS
<1>2. \A i \in 1..5 : SizeAt(i) \in 1..3
  BY <1>1 DEF SizeAt, WeatherFields
<1>3. ASSUME NEW i \in 1..5, NEW j \in 1..5, Name(i) = Name(j)
      PROVE  i = j
  BY <1>1, <1>3 DEF Name, WeatherFields
<1>. QED
  BY <1>2, <1>3

\* The fields R have been read, one after the other, in n bytes.
Packed(at, n, R) ==
  /\ R \subseteq 1..5
  /\ DOMAIN at.fields = {Name(j) : j \in R}
  /\ at.offset \in Int /\ 7 <= at.offset /\ at.offset <= n
  /\ \A j \in R : At(at, j) \in Int /\ 7 <= At(at, j) /\ End(at, j) <= at.offset
  /\ \A j \in R : At(at, j) = 7 \/ \E l \in R : End(at, l) = At(at, j)
  /\ \A j, l \in R : j # l => End(at, j) <= At(at, l) \/ End(at, l) <= At(at, j)
  /\ at.offset = 7 \/ \E l \in R : End(at, l) = at.offset

Reads(at, header, n, i) == Bit(header, WeatherFields[i].flag) /\ at.offset + SizeAt(i) <= n
ReadAt(at, header, n, i) == ReadField(at, header, n, WeatherFields[i])
Further(R, at, header, n, i) == IF Reads(at, header, n, i) THEN R \cup {i} ELSE R

LEMMA ReadKeepsPacked ==
  ASSUME NEW header, NEW n \in Int, NEW R, NEW at, Packed(at, n, R), NEW i \in (1..5) \ R
  PROVE  Packed(ReadAt(at, header, n, i), n, Further(R, at, header, n, i))
<1>1. CASE ~Reads(at, header, n, i)
  <2>1. ReadAt(at, header, n, i) = at
    BY <1>1 DEF ReadAt, ReadField, Reads, SizeAt
  <2>2. Further(R, at, header, n, i) = R
    BY <1>1 DEF Further
  <2>. QED
    BY <2>1, <2>2
<1>2. CASE Reads(at, header, n, i)
  <2>. DEFINE new == ReadAt(at, header, n, i)
              S   == R \cup {i}
  <2>1. new = [offset |-> at.offset + SizeAt(i), fields |-> [x \in DOMAIN at.fields \cup {Name(i)} |->
                           IF x = Name(i) THEN at.offset ELSE at.fields[x]]]
    BY <1>2 DEF ReadAt, ReadField, Reads, SizeAt, Name
  <2>2. /\ new.offset = at.offset + SizeAt(i)
        /\ new.fields = [x \in DOMAIN at.fields \cup {Name(i)} |->
                          IF x = Name(i) THEN at.offset ELSE at.fields[x]]
    <3>. HIDE DEF new
    <3>. QED
      BY <2>1
  <2>. HIDE DEF new
  <2>3. /\ SizeAt(i) \in 1..3 /\ S \subseteq 1..5 /\ \A j \in S : SizeAt(j) \in Int /\ SizeAt(j) > 0
        /\ \A j \in R : Name(j) # Name(i)
    BY NamesDiffer DEF Packed
  <2>4. DOMAIN new.fields = {Name(j) : j \in S}
    BY <2>2 DEF Packed
  <2>5. At(new, i) = at.offset
    <3>1. Name(i) \notin DOMAIN at.fields
      BY <2>3 DEF Packed
    <3>. QED
      BY <2>2, <3>1 DEF At
  <2>6. \A j \in R : At(new, j) = At(at, j)
    <3>1. \A j \in R : Name(j) \in DOMAIN at.fields
      BY DEF Packed
    <3>. QED
      BY <2>2, <2>3, <3>1 DEF At
  <2>7. \A j \in R : End(new, j) = End(at, j)
    BY <2>6 DEF End
  <2>8. End(new, i) = new.offset
    BY <2>2, <2>5 DEF End
  <2>9. /\ at.offset \in Int /\ 7 <= at.offset /\ at.offset <= n
        /\ \A j \in R : At(at, j) \in Int /\ 7 <= At(at, j) /\ End(at, j) <= at.offset
        /\ \A j \in R : At(at, j) = 7 \/ \E l \in R : End(at, l) = At(at, j)
        /\ \A j, l \in R : j # l => End(at, j) <= At(at, l) \/ End(at, l) <= At(at, j)
        /\ at.offset = 7 \/ \E l \in R : End(at, l) = at.offset
    BY DEF Packed
  <2>10. new.offset \in Int /\ 7 <= new.offset /\ new.offset <= n
    BY <1>2, <2>2, <2>3, <2>9 DEF Reads
  <2>11. \A j \in R : End(at, j) \in Int
    BY <2>3, <2>9 DEF End
  <2>12. \A j \in S : At(new, j) \in Int /\ 7 <= At(new, j) /\ End(new, j) <= new.offset
    <3>1. ASSUME NEW j \in R
          PROVE  At(new, j) \in Int /\ 7 <= At(new, j) /\ End(new, j) <= new.offset
      <4>1. At(new, j) \in Int /\ 7 <= At(new, j) /\ End(at, j) <= at.offset /\ End(at, j) \in Int
        BY <2>6, <2>9, <2>11
      <4>2. End(new, j) = End(at, j)
        BY <2>7
      <4>. QED
        BY <2>2, <2>3, <2>9, <4>1, <4>2
    <3>2. At(new, i) \in Int /\ 7 <= At(new, i) /\ End(new, i) <= new.offset
      BY <2>5, <2>8, <2>9, <2>10
    <3>. QED
      BY <3>1, <3>2
  <2>13. \A j \in S : At(new, j) = 7 \/ \E l \in S : End(new, l) = At(new, j)
    <3>1. ASSUME NEW j \in R
          PROVE  At(new, j) = 7 \/ \E l \in S : End(new, l) = At(new, j)
      BY <2>6, <2>7, <2>9
    <3>2. At(new, i) = 7 \/ \E l \in S : End(new, l) = At(new, i)
      BY <2>5, <2>7, <2>9
    <3>. QED
      BY <3>1, <3>2
  <2>14. \A j, l \in S : j # l => End(new, j) <= At(new, l) \/ End(new, l) <= At(new, j)
    <3>1. ASSUME NEW j \in R, NEW l \in R, j # l
          PROVE  End(new, j) <= At(new, l) \/ End(new, l) <= At(new, j)
      BY <2>6, <2>7, <2>9, <3>1
    <3>2. ASSUME NEW j \in R
          PROVE  End(new, j) <= At(new, i)
      BY <2>5, <2>7, <2>9
    <3>. QED
      BY <3>1, <3>2
  <2>15. \E l \in S : End(new, l) = new.offset
    BY <2>8
  <2>16. Packed(new, n, S)
    BY <2>3, <2>4, <2>10, <2>12, <2>13, <2>14, <2>15 DEF Packed
  <2>. QED
    BY <1>2, <2>16 DEF new, Further
<1>. QED
  BY <1>1, <1>2

\* A field for which there is room is read if it is announced, and takes its size.
LEMMA ReadIfAnnounced ==
  ASSUME NEW header, NEW n \in Int, NEW R, NEW at, Packed(at, n, R), NEW i \in 1..5,
         at.offset + SizeOf(header, i) <= n
  PROVE  /\ ReadAt(at, header, n, i).offset = at.offset + SizeOf(header, i)
         /\ Reads(at, header, n, i) <=> Bit(header, WeatherFields[i].flag)
<1>1. SizeAt(i) \in Int /\ at.offset \in Int
  BY NamesDiffer DEF Packed
<1>. QED
  BY <1>1 DEF ReadAt, ReadField, Reads, SizeOf, SizeAt

LEMMA OffsetsFollow ==
  ASSUME NEW header, NEW n \in Int, 7 <= n
  PROVE  LET at == WeatherOffsets(header, n) IN
         \E R \in SUBSET (1..5) :
           /\ DOMAIN at = {Name(j) : j \in R}
           /\ \A j \in R : at[Name(j)] + SizeAt(j) <= n
           /\ \A j \in R : at[Name(j)] = 7 \/ \E l \in R : at[Name(l)] + SizeAt(l) = at[Name(j)]
           /\ \A j, l \in R : j # l => \/ at[Name(j)] + SizeAt(j) <= at[Name(l)]
                                       \/ at[Name(l)] + SizeAt(l) <= at[Name(j)]
           /\ n >= 7 + AnnouncedSize(header) =>
                R = {j \in 1..5 : Bit(header, WeatherFields[j].flag)}
<1>. DEFINE a0 == [offset |-> 7, fields |-> << >>]
            a1 == ReadAt(a0, header, n, 1)
            a2 == ReadAt(a1, header, n, 2)
            a3 == ReadAt(a2, header, n, 3)
            a4 == ReadAt(a3, header, n, 4)
            a5 == ReadAt(a4, header, n, 5)
            R1 == Further({}, a0, header, n, 1)
            R2 == Further(R1, a1, header, n, 2)
            R3 == Further(R2, a2, header, n, 3)
            R4 == Further(R3, a3, header, n, 4)
            R5 == Further(R4, a4, header, n, 5)
            B(j) == Bit(header, WeatherFields[j].flag)
<1>1. WeatherOffsets(header, n) = a5.fields
  BY DEF WeatherOffsets, ReadAt
<1>2. Packed(a0, n, {}) /\ a0.offset = 7
  BY DEF Packed
<1>. HIDE DEF a0
<1>3. Packed(a1, n, R1) /\ R1 \subseteq {1}
  <2>1. R1 \subseteq {1}
    BY DEF Further
  <2>. QED
    BY <1>2, <2>1, ReadKeepsPacked
<1>. HIDE DEF a1, R1
<1>4. Packed(a2, n, R2) /\ R2 \subseteq {1, 2}
  <2>1. R2 \subseteq {1, 2}
    BY <1>3 DEF Further
  <2>2. 2 \in (1..5) \ R1
    BY <1>3
  <2>. QED
    BY <1>3, <2>1, <2>2, ReadKeepsPacked
<1>. HIDE DEF a2, R2
<1>5. Packed(a3, n, R3) /\ R3 \subseteq {1, 2, 3}
  <2>1. R3 \subseteq {1, 2, 3}
    BY <1>4 DEF Further
  <2>2. 3 \in (1..5) \ R2
    BY <1>4
  <2>. QED
    BY <1>4, <2>1, <2>2, ReadKeepsPacked
<1>. HIDE DEF a3, R3
<1>6. Packed(a4, n, R4) /\ R4 \subseteq {1, 2, 3, 4}
  <2>1. R4 \subseteq {1, 2, 3, 4}
    BY <1>5 DEF Further
  <2>2. 4 \in (1..5) \ R3
    BY <1>5
  <2>. QED
    BY <1>5, <2>1, <2>2, ReadKeepsPacked
<1>. HIDE DEF a4, R4
<1>7. Packed(a5, n, R5)
  <2>2. 5 \in (1..5) \ R4
    BY <1>6
  <2>. QED
    BY <1>6, <2>2, ReadKeepsPacked
<1>8. ASSUME n >= 7 + AnnouncedSize(header)
      PROVE  R5 = {j \in 1..5 : B(j)}
  <2>1. /\ \A j \in 1..5 : SizeOf(header, j) \in Nat
        /\ 7 + SizeOf(header, 1) + SizeOf(header, 2) + SizeOf(header, 3)
             + SizeOf(header, 4) + SizeOf(header, 5) <= n
    <3>1. \A j \in 1..5 : SizeOf(header, j) \in Nat
      BY NamesDiffer DEF SizeOf, SizeAt
    <3>2. \A j \in {1, 2, 3, 4, 5} : SizeOf(header, j) \in Nat
      BY <3>1
    <3>. QED
      BY <1>8, <3>1, <3>2 DEF AnnouncedSize
  <2>2. \A j \in {1, 2, 3, 4, 5} : SizeOf(header, j) \in Nat
    BY <2>1
  <2>3. a1.offset = 7 + SizeOf(header, 1) /\ (Reads(a0, header, n, 1) <=> B(1))
    <3>1. a0.offset + SizeOf(header, 1) <= n
      BY <1>2, <2>1, <2>2
    <3>. QED
      BY <1>2, <3>1, ReadIfAnnounced DEF a1
  <2>4. a2.offset = 7 + SizeOf(header, 1) + SizeOf(header, 2) /\ (Reads(a1, header, n, 2) <=> B(2))
    <3>1. a1.offset + SizeOf(header, 2) <= n
      BY <2>1, <2>2, <2>3
    <3>. QED
      BY <1>3, <2>3, <3>1, ReadIfAnnounced DEF a2
  <2>5. /\ a3.offset = 7 + SizeOf(header, 1) + SizeOf(header, 2) + SizeOf(header, 3)
        /\ Reads(a2, header, n, 3) <=> B(3)
    <3>1. a2.offset + SizeOf(header, 3) <= n
      BY <2>1, <2>2, <2>4
    <3>. QED
      BY <1>4, <2>4, <3>1, ReadIfAnnounced DEF a3
  <2>6. /\ a4.offset = 7 + SizeOf(header, 1) + SizeOf(header, 2) + SizeOf(header, 3)
                         + SizeOf(header, 4)
        /\ Reads(a3, header, n, 4) <=> B(4)
    <3>1. a3.offset + SizeOf(header, 4) <= n
      BY <2>1, <2>2, <2>5
    <3>. QED
      BY <1>5, <2>5, <3>1, ReadIfAnnounced DEF a4
  <2>7. Reads(a4, header, n, 5) <=> B(5)
    <3>1. a4.offset + SizeOf(header, 5) <= n
      BY <2>1, <2>2, <2>6
    <3>. QED
      BY <1>6, <3>1, ReadIfAnnounced
  <2>8. /\ R1 = {j \in {1} : B(j)} /\ R2 = {j \in {1, 2} : B(j)}
        /\ R3 = {j \in {1, 2, 3} : B(j)} /\ R4 = {j \in {1, 2, 3, 4} : B(j)}
    <3>. HIDE DEF B
    <3>1. R1 = {j \in {1} : B(j)}
      BY <2>3 DEF R1, Further
    <3>2. R2 = {j \in {1, 2} : B(j)}
      BY <2>4, <3>1 DEF R2, Further
    <3>3. R3 = {j \in {1, 2, 3} : B(j)}
      BY <2>5, <3>2 DEF R3, Further
    <3>4. R4 = {j \in {1, 2, 3, 4} : B(j)}
      BY <2>6, <3>3 DEF R4, Further
    <3>. QED
      BY <3>1, <3>2, <3>3, <3>4
  <2>9. R5 = {j \in {1, 2, 3, 4, 5} : B(j)}
    <3>. HIDE DEF B
    <3>. QED
      BY <2>7, <2>8 DEF R5, Further
  <2>10. 1..5 = {1, 2, 3, 4, 5}
    OBVIOUS
  <2>. QED
    BY <2>9, <2>10
<1>. DEFINE f == WeatherOffsets(header, n)
<1>. HIDE DEF a5, R5, B
<1>9. /\ R5 \in SUBSET (1..5)
      /\ DOMAIN f = {Name(j) : j \in R5}
      /\ \A j \in R5 : f[Name(j)] \in Int /\ f[Name(j)] + SizeAt(j) <= a5.offset
      /\ a5.offset \in Int /\ a5.offset <= n
      /\ \A j \in R5 : f[Name(j)] = 7 \/ \E l \in R5 : f[Name(l)] + SizeAt(l) = f[Name(j)]
      /\ \A j, l \in R5 : j # l => \/ f[Name(j)] + SizeAt(j) <= f[Name(l)]
                                   \/ f[Name(l)] + SizeAt(l) <= f[Name(j)]
  BY <1>1, <1>7 DEF Packed, End, At
<1>. HIDE DEF f
<1>10. \A j \in R5 : f[Name(j)] + SizeAt(j) <= n
  <2>1. \A j \in R5 : SizeAt(j) \in Int
    BY <1>9, NamesDiffer
  <2>. QED
    BY <1>9, <2>1
<1>11. /\ DOMAIN f = {Name(j) : j \in R5}
       /\ \A j \in R5 : f[Name(j)] + SizeAt(j) <= n
       /\ \A j \in R5 : f[Name(j)] = 7 \/ \E l \in R5 : f[Name(l)] + SizeAt(l) = f[Name(j)]
       /\ \A j, l \in R5 : j # l => \/ f[Name(j)] + SizeAt(j) <= f[Name(l)]
                                    \/ f[Name(l)] + SizeAt(l) <= f[Name(j)]
       /\ n >= 7 + AnnouncedSize(header) => R5 = {j \in 1..5 : B(j)}
  BY <1>8, <1>9, <1>10
<1>. QED
  BY <1>9, <1>11, Zenon DEF f, B

-----------------------------------------------------------------------------
(* The packets on their way.                                                *)

\* A packet that the present pilot, or a device beside it, has sent.
OwnPacket(p) ==
  /\ p.address = Bytes24(pilot.address)
  /\ p.type = 1 => p.data \in AirTracking(pilot)
  /\ p.type = 9 => p.data \in Thermal(pilot) \cup ShortThermal(pilot)
  /\ p.type = 4 => Len(p.data) \in Nat

\* A pilot moves only when its last packet has been read and forgotten.
ParserInv ==
  /\ pilot \in Pilots
  /\ packet # Nothing => OwnPacket(packet)
  /\ parsed # Nothing => OwnPacket(parsed.of) /\ parsed.message = Parse(parsed.of)

LEMMA AddressIsRead ==
  ASSUME NEW p, p.address = Bytes24(1048577)
  PROVE  Parse(p).device = 1048577
<1>1. 1048577 \in Nat /\ 1048577 < 16777216 /\ 1048577 \in Int
  BY SMT
<1>. DEFINE n == 1048577
            b == Bytes24(n)
<1>2. b[1] = n % 256 /\ b[2] = (n \div 256) % 256 /\ b[3] = (n \div 65536) % 256
  BY <1>1, ThreeBytes, SMT
<1>. HIDE DEF b
<1>3. p.address = b
  BY SMT DEF b
<1>4. b[1] + 256 * b[2] + 65536 * b[3] = n
  BY <1>2, SMT
<1>5. Parse(p).device = Unsigned16(p.address, 0) + 65536 * Byte(p.address, 2)
  BY SMT DEF Parse
<1>. QED
  BY <1>3, <1>4, <1>5, SMT DEF Unsigned16, Byte

LEMMA SurvivesByInv ==
  ASSUME ParserInv
  PROVE  FieldsSurvive
<1>. SUFFICES ASSUME parsed # Nothing
              PROVE  FieldsSurvive
  BY Zenon DEF FieldsSurvive
<1>. DEFINE p == parsed.of
            r == parsed.message.data
<1>1. pilot \in Pilots /\ OwnPacket(p) /\ parsed.message = Parse(p)
  BY Zenon DEF ParserInv
<1>2. pilot.address = 1048577
  BY <1>1, SMT DEF Pilots
<1>3. parsed.message.device = pilot.address
  <2>1. p.address = Bytes24(1048577)
    BY <1>1, <1>2, SMT DEF OwnPacket
  <2>2. Parse(p).device = 1048577
    BY <2>1, AddressIsRead, SMT
  <2>. QED
    BY <1>1, <1>2, <2>2, SMT
<1>4. r = IF p.data = << >> THEN Unparsed ELSE ParseData(p.type, p.data)
  BY <1>1, SMT DEF Parse
<1>5. ASSUME p.type = 1
      PROVE  AirIsReadAs(pilot, r)
  <2>1. p.data \in AirTracking(pilot)
    BY <1>1, <1>5, Zenon DEF OwnPacket
  <2>2. p.data # << >> /\ AirIsReadAs(pilot, ParseAirTracking(p.data))
    BY <1>1, <2>1, AirIsRead, Zenon
  <2>3. ParseData(p.type, p.data) = ParseAirTracking(p.data)
    BY <1>5, SMT DEF ParseData
  <2>. QED
    BY <1>4, <2>2, <2>3, Zenon
<1>6. ASSUME p.type = 9, Len(p.data) >= 13
      PROVE  ThermalIsReadAs(pilot, r)
  <2>1. p.data \in Thermal(pilot)
    <3>1. p.data \in Thermal(pilot) \/ p.data \in ShortThermal(pilot)
      BY <1>1, <1>6, Zenon DEF OwnPacket
    <3>. QED
      BY <1>1, <1>6, <3>1, ShortThermalIsShort, Zenon
  <2>2. p.data # << >> /\ ThermalIsReadAs(pilot, ParseThermal(p.data))
    BY <1>1, <2>1, ThermalIsRead, Zenon
  <2>3. ParseData(p.type, p.data) = ParseThermal(p.data)
    BY <1>6, SMT DEF ParseData
  <2>. QED
    BY <1>4, <2>2, <2>3, Zenon
<1>. HIDE DEF p, r
<1>7. p.type = 1 \/ (p.type = 9 /\ Len(p.data) >= 13) => SamePlace(r)
  BY <1>5, <1>6, SMT DEF AirIsReadAs, ThermalIsReadAs, SamePlace, Half
<1>8. p.type = 9 /\ Len(p.data) >= 13 =>
        r.altitude = pilot.altitude /\ r.climb \in {100, 499}
  BY <1>6, Zenon DEF ThermalIsReadAs
<1>9. p.type = 1 =>
        /\ pilot.altitude - r.altitude \in IF pilot.altitude > 2047 THEN 0..3 ELSE {0}
        /\ pilot.speed - r.speed \in IF pilot.speed > 63 THEN 0..4 ELSE {0}
        /\ r.climb = pilot.climb /\ r.aircraft = pilot.aircraft
        /\ pilot.heading < 360 => pilot.heading - r.heading \in 0..2
  BY <1>5, SMT DEF AirIsReadAs
<1>. QED
  BY <1>3, <1>7, <1>8, <1>9, SMT DEF FieldsSurvive, p, r

LEMMA TwoFields ==
  ASSUME NEW A, NEW B, NEW C, NEW D, NEW E, NEW F, NEW G, NEW H, NEW x \in A, NEW y \in B,
         NEW f \in [lat : A, lon : B, altitude : C, speed : D, climb : E, heading : F,
                   aircraft : G, address : H]
  PROVE  LET q == [f EXCEPT !.lat = x, !.lon = y] IN
         /\ q \in [lat : A, lon : B, altitude : C, speed : D, climb : E, heading : F,
                  aircraft : G, address : H]
         /\ q.lat = x /\ q.lon = y /\ q.altitude = f.altitude
BY Zenon

LEMMA PilotAnywhere ==
  ASSUME NEW x \in Int, NEW y \in Int, OnEarth(x), OnEarth(y)
  PROVE  [FirstPilot EXCEPT !.lat = x, !.lon = y] \in Pilots
<1>. DEFINE Speeds == 20..150
            Climbs == -30..29
            Aircraft == 1..4
            Addresses == {1048577}
            R == [lat : Int, lon : Int, altitude : Nat, speed : Speeds, climb : Climbs,
                  heading : Heading, aircraft : Aircraft, address : Addresses]
            q == [FirstPilot EXCEPT !.lat = x, !.lon = y]
<1>1. FirstPilot \in R /\ FirstPilot.altitude = 1000
  BY SMT DEF FirstPilot, Heading
<1>. HIDE DEF Speeds, Climbs, Aircraft, Addresses
<1>2. q \in R /\ q.lat = x /\ q.lon = y /\ q.altitude = FirstPilot.altitude
  BY <1>1, TwoFields, Zenon
<1>. HIDE DEF q
<1>3. OnEarth(q.lat) /\ OnEarth(q.lon) /\ 500 <= q.altitude /\ q.altitude <= 4000
  BY <1>1, <1>2, SMT
<1>4. q \in Pilots
  BY <1>2, <1>3, SMT DEF Pilots, Speeds, Climbs, Aircraft, Addresses
<1>. QED
  BY <1>4, Zenon DEF q

LEMMA FollowsByInv ==
  ASSUME ParserInv
  PROVE  FieldsFollow
<1>. SUFFICES ASSUME packet # Nothing, packet.type = 4, Len(packet.data) >= 7
              PROVE  FieldsFollow
  BY Zenon DEF FieldsFollow
<1>. DEFINE h == packet.data[1]
            n == Len(packet.data)
            at == WeatherOffsets(h, n)
            Fields == {WeatherFields[i] : i \in 1..5}
            read == {f \in Fields : f.name \in DOMAIN at}
<1>1. n \in Int /\ 7 <= n
  <2>1. n \in Nat
    BY Zenon DEF ParserInv, OwnPacket
  <2>. QED
    BY <2>1
<1>. HIDE DEF h, n
<1>2. PICK R \in SUBSET (1..5) :
           /\ DOMAIN at = {Name(j) : j \in R}
           /\ \A j \in R : at[Name(j)] + SizeAt(j) <= n
           /\ \A j \in R : at[Name(j)] = 7 \/ \E l \in R : at[Name(l)] + SizeAt(l) = at[Name(j)]
           /\ \A j, l \in R : j # l => \/ at[Name(j)] + SizeAt(j) <= at[Name(l)]
                                       \/ at[Name(l)] + SizeAt(l) <= at[Name(j)]
           /\ n >= 7 + AnnouncedSize(h) =>
                R = {j \in 1..5 : Bit(h, WeatherFields[j].flag)}
  BY <1>1, OffsetsFollow, Zenon
<1>. HIDE DEF at
<1>3. read = {WeatherFields[j] : j \in R}
  <2>1. ASSUME NEW i \in 1..5
        PROVE  WeatherFields[i].name \in DOMAIN at <=> i \in R
    BY <1>2, NamesDiffer DEF Name
  <2>. QED
    BY <2>1
<1>. HIDE DEF read
<1>4. \A f \in read : \E j \in R : f = WeatherFields[j] /\ f.name = Name(j) /\ f.size = SizeAt(j)
  BY <1>3, Zenon DEF Name, SizeAt
<1>5. \A j \in R : \E f \in read : f = WeatherFields[j] /\ f.name = Name(j) /\ f.size = SizeAt(j)
  BY <1>3, Zenon DEF Name, SizeAt
<1>6. ASSUME NEW f \in read
      PROVE  /\ at[f.name] + f.size <= n
             /\ at[f.name] = 7 \/ \E g \in read : at[g.name] + g.size = at[f.name]
  <2>1. PICK j \in R : f.name = Name(j) /\ f.size = SizeAt(j)
    BY <1>4, Zenon
  <2>2. at[Name(j)] + SizeAt(j) <= n
    BY <1>2, Zenon
  <2>3. CASE at[Name(j)] = 7
    BY <2>1, <2>2, <2>3, Zenon
  <2>4. ASSUME NEW l \in R, at[Name(l)] + SizeAt(l) = at[Name(j)]
        PROVE  \E g \in read : at[g.name] + g.size = at[f.name]
    BY <1>5, <2>1, <2>4, Zenon
  <2>. QED
    BY <1>2, <2>1, <2>2, <2>3, <2>4, Zenon
<1>7. ASSUME NEW f \in read, NEW g \in read, f # g
      PROVE  at[f.name] + f.size <= at[g.name] \/ at[g.name] + g.size <= at[f.name]
  <2>1. PICK j \in R : f = WeatherFields[j] /\ f.name = Name(j) /\ f.size = SizeAt(j)
    BY <1>4, Zenon
  <2>2. PICK l \in R : g = WeatherFields[l] /\ g.name = Name(l) /\ g.size = SizeAt(l)
    BY <1>4, Zenon
  <2>3. j # l
    BY <1>7, <2>1, <2>2, Zenon
  <2>. QED
    BY <1>2, <2>1, <2>2, <2>3, Zenon
<1>8. ASSUME n >= 7 + AnnouncedSize(h)
      PROVE  read = Announced(h)
  <2>1. R = {j \in 1..5 : Bit(h, WeatherFields[j].flag)}
    BY <1>2, <1>8, Zenon
  <2>. QED
    BY <1>3, <2>1, SMT DEF Announced
<1>. QED
  BY <1>6, <1>7, <1>8, Zenon DEF FieldsFollow, h, n, at, read

LEMMA EightJoined ==
  ASSUME NEW S, NEW a \in Seq(S), NEW b \in Seq(S), NEW c \in Seq(S),
         NEW d \in Seq(S), NEW e \in Seq(S), NEW f \in Seq(S), NEW g \in Seq(S),
         NEW h \in Seq(S)
  PROVE  a \o b \o c \o d \o e \o f \o g \o h \in Seq(S)
<1>1. a \o b \in Seq(S)
  BY Joined, Zenon
<1>2. a \o b \o c \in Seq(S)
  BY <1>1, Joined, Zenon
<1>3. a \o b \o c \o d \in Seq(S)
  BY <1>2, Joined, Zenon
<1>4. a \o b \o c \o d \o e \in Seq(S)
  BY <1>3, Joined, Zenon
<1>5. a \o b \o c \o d \o e \o f \in Seq(S)
  BY <1>4, Joined, Zenon
<1>6. a \o b \o c \o d \o e \o f \o g \in Seq(S)
  BY <1>5, Joined, Zenon
<1>. QED
  BY <1>6, Joined, Zenon

LEMMA WeatherBytes ==
  ASSUME NEW data \in Weather
  PROVE  data \in Seq(Int)
<1>. DEFINE a == <<0>>
            b == Bytes16(300)
            c == Bytes16(700)
            d == <<60>>
            e == Bytes16(50)
            f == <<80>>
            W == {0, 182 * 359}
            T == {-1000, 2900}
            D(w, t) == a \o Bytes16(w) \o b \o c \o Bytes16(t) \o d \o e \o f
<1>1. Weather = {D(w, t) : w \in W, t \in T}
  BY SMT DEF Weather
<1>2. /\ a \in Seq(Int) /\ b \in Seq(Int) /\ c \in Seq(Int)
      /\ d \in Seq(Int) /\ e \in Seq(Int) /\ f \in Seq(Int)
  BY SMT DEF Bytes16
<1>3. /\ \A w \in W : Bytes16(w) \in Seq(Int)
      /\ \A t \in T : Bytes16(t) \in Seq(Int)
  BY SMT DEF Bytes16
<1>. HIDE DEF a, b, c, d, e, f, W, T
<1>4. ASSUME NEW w \in W, NEW t \in T
      PROVE  D(w, t) \in Seq(Int)
  BY <1>2, <1>3, EightJoined, Zenon
<1>. HIDE DEF D
<1>. QED
  BY <1>1, <1>4, SMT

LEMMA FlyKeepsPilots ==
  ASSUME Fly
  PROVE  pilot' \in Pilots
<1>1. FirstPilot \in Pilots
  BY SMT DEF FirstPilot, Pilots, OnEarth, Heading
<1>2. ASSUME NEW c \in Coordinates
      PROVE  [FirstPilot EXCEPT !.lat = c, !.lon = -c] \in Pilots
  <2>1. OnEarth(c) /\ OnEarth(-c)
    BY ParserAssumption, SMT DEF OnEarth
  <2>2. c \in Int /\ -c \in Int
    BY <2>1, SMT DEF OnEarth
  <2>. QED
    BY <2>1, <2>2, PilotAnywhere, Zenon
<1>3. ASSUME NEW a \in Altitudes
      PROVE  [FirstPilot EXCEPT !.altitude = a] \in Pilots
  <2>1. a \in Nat /\ 500 <= a /\ a <= 4000
    BY ParserAssumption, SMT
  <2>. QED
    BY <2>1, SMT DEF FirstPilot, Pilots, OnEarth, Heading
<1>4. ASSUME NEW v \in 20..150
      PROVE  [FirstPilot EXCEPT !.speed = v] \in Pilots
  BY SMT DEF FirstPilot, Pilots, OnEarth, Heading
<1>5. ASSUME NEW v \in -30..29
      PROVE  [FirstPilot EXCEPT !.climb = v] \in Pilots
  BY SMT DEF FirstPilot, Pilots, OnEarth, Heading
<1>6. ASSUME NEW h \in Heading
      PROVE  [FirstPilot EXCEPT !.heading = h] \in Pilots
  BY SMT DEF FirstPilot, Pilots, OnEarth, Heading
<1>7. ASSUME NEW t \in 1..4
      PROVE  [FirstPilot EXCEPT !.aircraft = t] \in Pilots
  BY SMT DEF FirstPilot, Pilots, OnEarth, Heading
<1>. QED
  BY <1>2, <1>3, <1>4, <1>5, <1>6, <1>7, Zenon DEF Fly

LEMMA SendKeepsParserInv ==
  ASSUME ParserInv, NEW type, NEW data, Send(type, data),
         type = 1 => data \in AirTracking(pilot),
         type = 9 => data \in Thermal(pilot) \cup ShortThermal(pilot),
         type = 4 => Len(data) \in Nat
  PROVE  ParserInv'
<1>1. pilot' = pilot /\ parsed' = Nothing
  BY Zenon DEF Send
<1>2. pilot' \in Pilots
  BY <1>1, Zenon DEF ParserInv
<1>3. /\ packet'.type = type /\ packet'.address = Bytes24(pilot.address)
      /\ packet'.data = data
  BY SMT DEF Send
<1>4. /\ AirTracking(pilot') = AirTracking(pilot) /\ Thermal(pilot') = Thermal(pilot)
      /\ ShortThermal(pilot') = ShortThermal(pilot)
  BY <1>1, Zenon
<1>5. OwnPacket(packet)'
  BY <1>1, <1>3, <1>4, Zenon DEF OwnPacket
<1>. QED
  BY <1>1, <1>2, <1>5, Zenon DEF ParserInv

LEMMA ParserInvKept ==
  ASSUME ParserInv, [ParserNext]_parserVars
  PROVE  ParserInv'
<1>1. CASE Fly
  BY <1>1, FlyKeepsPilots, Zenon DEF Fly, ParserInv
<1>2. CASE HandlePacket
  <2>1. packet' = Nothing /\ pilot' = pilot /\ packet # Nothing
    BY <1>2, Zenon DEF HandlePacket
  <2>2. parsed'.of = packet /\ parsed'.message = Parse(packet)
    BY <1>2, SMT DEF HandlePacket
  <2>3. OwnPacket(packet) /\ pilot \in Pilots
    BY <2>1, Zenon DEF ParserInv
  <2>4. OwnPacket(parsed.of)'
    BY <2>1, <2>2, <2>3, Zenon DEF OwnPacket
  <2>. QED
    BY <2>1, <2>2, <2>3, <2>4, Zenon DEF ParserInv
<1>3. ASSUME NEW type \in {1, 2, 4, 7, 9}, Publish(type)
      PROVE  ParserInv'
  <2>1. PICK data \in Payloads(type) : Send(type, data)
    BY <1>3, Zenon DEF Publish
  <2>2. type = 1 => data \in AirTracking(pilot)
    BY SMT DEF Payloads
  <2>3. type = 9 => data \in Thermal(pilot) \cup ShortThermal(pilot)
    BY SMT DEF Payloads
  <2>4. type = 4 => Len(data) \in Nat
    <3>1. ASSUME type = 4
          PROVE  data \in Weather
      BY <3>1, SMT DEF Payloads
    <3>2. ASSUME type = 4
          PROVE  data \in Seq(Int)
      BY <3>1, <3>2, WeatherBytes, Zenon
    <3>. QED
      BY <3>2
  <2>. QED
    BY <2>1, <2>2, <2>3, <2>4, SendKeepsParserInv, Zenon
<1>4. ASSUME NEW type \in {4, 8, 10}, NEW header \in Headers, NEW length \in Lengths,
             Transmit(type, header, length)
      PROVE  ParserInv'
  <2>1. Send(type, [i \in 1..length |-> IF i = 1 THEN header ELSE i - 1])
    BY <1>4, Zenon DEF Transmit
  <2>2. type # 1 /\ type # 9
    BY SMT
  <2>3. Len([i \in 1..length |-> IF i = 1 THEN header ELSE i - 1]) \in Nat
    <3>. DEFINE bytes == [i \in 1..length |-> IF i = 1 THEN header ELSE i - 1]
    <3>1. length \in Nat /\ header \in Int
      BY ParserAssumption, SMT
    <3>2. bytes \in [1..length -> Int]
      BY <3>1
    <3>. HIDE DEF bytes
    <3>3. bytes \in Seq(Int)
      BY <3>1, <3>2
    <3>4. Len(bytes) \in Nat
      BY <3>3
    <3>. QED
      BY <3>4, Zenon DEF bytes
  <2>. QED
    BY <2>1, <2>2, <2>3, SendKeepsParserInv, Zenon
<1>5. CASE UNCHANGED parserVars
  <2>1. pilot' = pilot /\ packet' = packet /\ parsed' = parsed
    BY <1>5, Zenon DEF parserVars
  <2>. QED
    BY <2>1, Zenon DEF ParserInv, OwnPacket
<1>. QED
  BY <1>1, <1>2, <1>3, <1>4, <1>5, Zenon DEF ParserNext

\* A position, or a thermal of 13 bytes, is read as it was sent, whatever its coordinates,
\* its altitude, its speed and its heading (Parse of parser.go over createPayload of the
\* test publisher): a place is off by less than a unit, an altitude by less than 4 m, a
\* speed by less than 5, and a climb, an aircraft and the address of the device not at all.
\* The weather fields of a service packet of any header and length follow each other
\* (parseService).
THEOREM PacketsSurvive == ParserSpec => []PacketsAreRead
<1>1. ParserInit => ParserInv
  <2>1. FirstPilot \in Pilots
    BY SMT DEF FirstPilot, Pilots, OnEarth, Heading
  <2>. QED
    BY <2>1, Zenon DEF ParserInit, ParserInv
<1>2. ParserInv /\ [ParserNext]_parserVars => ParserInv'
  BY ParserInvKept, Zenon
<1>3. ParserInv => PacketsAreRead
  BY SurvivesByInv, FollowsByInv, Zenon DEF PacketsAreRead
<1>. QED
  BY <1>1, <1>2, <1>3, PTL DEF ParserSpec

-----------------------------------------------------------------------------
(* Every byte that is sent is one.                                          *)

Octet == 0..255

LEMMA OctetPair == \A n \in Int : Bytes16(n) \in Seq(Octet)
<1>1. ASSUME NEW n \in Int
      PROVE  n % 256 \in Octet /\ (n \div 256) % 256 \in Octet
  BY SMT DEF Octet
<1>. QED
  BY <1>1 DEF Bytes16

LEMMA OctetsJoined == \A s, t \in Seq(Octet) : s \o t \in Seq(Octet)
OBVIOUS

LEMMA OctetTriple ==
  ASSUME NEW n \in Int
  PROVE  Bytes24(n) \in Seq(Octet)
<1>1. (n \div 65536) % 256 \in Octet
  BY SMT DEF Octet
<1>2. <<(n \div 65536) % 256>> \in Seq(Octet)
  BY <1>1
<1>3. Bytes16(n) \in Seq(Octet)
  BY OctetPair
<1>. QED
  BY <1>2, <1>3, OctetsJoined, SMT DEF Bytes24

\* The bytes of a place, of a speed, of a climb and of a heading.
LEMMA OctetFields ==
  ASSUME NEW p \in Pilots
  PROVE  /\ Coordinate24s(p) \in Seq(Octet) /\ AltStatus(p) \in Int
         /\ SpeedByte(p) \in Octet /\ ClimbByte(p) \in Octet
         /\ HeadingBytes(p) \subseteq Octet
<1>1. /\ p.lat \in Int /\ p.lon \in Int /\ p.altitude \in Nat /\ p.aircraft \in 1..4
      /\ p.speed \in 20..150 /\ p.climb \in -30..29 /\ p.heading \in Heading
  BY SMT DEF Pilots
<1>2. Coordinate24s(p) \in Seq(Octet)
  <2>1. Toward0(p.lat, 2) \in Int /\ Toward0(p.lon, 2) \in Int
    BY <1>1, SMT DEF Toward0
  <2>2. Bytes24(Toward0(p.lat, 2)) \in Seq(Octet) /\ Bytes24(Toward0(p.lon, 2)) \in Seq(Octet)
    BY <2>1, OctetTriple, Zenon
  <2>. QED
    BY <2>2, OctetsJoined, SMT DEF Coordinate24s
<1>3. AltStatus(p) \in Int
  BY <1>1, SMT DEF AltStatus, Clip
<1>4. SpeedByte(p) \in Octet
  BY <1>1, SMT DEF SpeedByte, Clip, Octet
<1>5. ClimbByte(p) \in Octet
  <2>1. p.climb \in -64..63
    BY <1>1, SMT
  <2>. QED
    BY <2>1, SMT DEF ClimbByte, Octet
<1>6. HeadingBytes(p) \subseteq Octet
  BY <1>1, SMT DEF HeadingBytes, Heading, Octet
<1>. QED
  BY <1>2, <1>3, <1>4, <1>5, <1>6, Zenon

LEMMA OctetsOfPilot ==
  ASSUME NEW p \in Pilots
  PROVE  /\ AirTracking(p) \subseteq Seq(Octet)
         /\ GroundTracking(p) \subseteq Seq(Octet)
         /\ Thermal(p) \subseteq Seq(Octet)
<1>1. /\ Coordinate24s(p) \in Seq(Octet) /\ AltStatus(p) \in Int
      /\ SpeedByte(p) \in Octet /\ ClimbByte(p) \in Octet /\ HeadingBytes(p) \subseteq Octet
  BY OctetFields, Zenon
<1>2. p.altitude \in Int /\ p.altitude - 1000 \in Int /\ p.speed \in Int
  BY SMT DEF Pilots
<1>3. AirTracking(p) \subseteq Seq(Octet)
  <2>1. ASSUME NEW h \in HeadingBytes(p)
        PROVE  Coordinate24s(p) \o Bytes16(AltStatus(p)) \o <<SpeedByte(p), ClimbByte(p), h>>
                 \in Seq(Octet)
    <3>1. h \in Octet
      BY <1>1
    <3>2. <<SpeedByte(p), ClimbByte(p), h>> \in Seq(Octet)
      BY <1>1, <3>1
    <3>3. Bytes16(AltStatus(p)) \in Seq(Octet)
      BY <1>1, OctetPair, SMT
    <3>4. Coordinate24s(p) \o Bytes16(AltStatus(p)) \in Seq(Octet)
      BY <1>1, <3>3, OctetsJoined, SMT
    <3>. QED
      BY <3>2, <3>4, OctetsJoined, SMT
  <2>. QED
    BY <2>1, Zenon DEF AirTracking
<1>4. GroundTracking(p) \subseteq Seq(Octet)
  <2>. DEFINE D(h) == Coordinate24s(p) \o Bytes16(p.altitude - 1000)
                        \o <<(2 * p.speed) % 256, h, 0>>
  <2>1. ASSUME NEW h \in HeadingBytes(p)
        PROVE  D(h) \in Seq(Octet)
    <3>1. h \in Octet /\ 0 \in Octet
      BY <1>1, SMT DEF Octet
    <3>5. (2 * p.speed) % 256 \in Octet
      BY <1>2, SMT DEF Octet
    <3>2. <<(2 * p.speed) % 256, h, 0>> \in Seq(Octet)
      BY <3>1, <3>5
    <3>3. Bytes16(p.altitude - 1000) \in Seq(Octet)
      BY <1>2, OctetPair, SMT
    <3>4. Coordinate24s(p) \o Bytes16(p.altitude - 1000) \in Seq(Octet)
      BY <1>1, <3>3, OctetsJoined, SMT
    <3>. QED
      BY <3>2, <3>4, OctetsJoined, SMT
  <2>2. GroundTracking(p) = {D(h) : h \in HeadingBytes(p)}
    BY DEF GroundTracking
  <2>. HIDE DEF D
  <2>. QED
    BY <2>1, <2>2, Zenon
<1>5. Thermal(p) \subseteq Seq(Octet)
  <2>. DEFINE D(q, climb) == Coordinate24s(p) \o Bytes16(p.altitude) \o <<q>> \o Bytes16(climb)
                               \o Bytes16(0)
              Strength == {0, 5}
              Climb == {100, 499}
  <2>1. ASSUME NEW q \in Strength, NEW climb \in Climb
        PROVE  D(q, climb) \in Seq(Octet)
    <3>1. q \in Octet /\ climb \in Int /\ 0 \in Int
      BY SMT DEF Octet
    <3>2. <<q>> \in Seq(Octet)
      BY <3>1
    <3>3. Bytes16(p.altitude) \in Seq(Octet) /\ Bytes16(climb) \in Seq(Octet)
      <4>1. climb \in Int
        BY SMT
      <4>2. p.altitude \in Int
        BY <1>2, SMT
      <4>3. Bytes16(p.altitude) \in Seq(Octet)
        BY <4>2, OctetPair, SMT
      <4>4. Bytes16(climb) \in Seq(Octet)
        BY <4>1, OctetPair, SMT
      <4>. QED
        BY <4>3, <4>4
    <3>7. Bytes16(0) \in Seq(Octet)
      BY OctetPair, SMT
    <3>4. Coordinate24s(p) \o Bytes16(p.altitude) \in Seq(Octet)
      BY <1>1, <3>3, OctetsJoined, SMT
    <3>5. Coordinate24s(p) \o Bytes16(p.altitude) \o <<q>> \in Seq(Octet)
      BY <3>2, <3>4, OctetsJoined, SMT
    <3>6. Coordinate24s(p) \o Bytes16(p.altitude) \o <<q>> \o Bytes16(climb) \in Seq(Octet)
      BY <3>3, <3>5, OctetsJoined, SMT
    <3>. QED
      BY <3>7, <3>6, OctetsJoined, SMT
  <2>2. Thermal(p) = {D(q, climb) : q \in Strength, climb \in Climb}
    BY DEF Thermal
  <2>. HIDE DEF D, Strength, Climb
  <2>. QED
    BY <2>1, <2>2
<1>. QED
  BY <1>3, <1>4, <1>5

LEMMA OctetsOfShortForms ==
  ASSUME NEW p \in Pilots
  PROVE  ShortThermal(p) \subseteq Seq(Octet) /\ ShortGround(p) \subseteq Seq(Octet)
<1>1. Coordinate24s(p) \in Seq(Octet)
  BY OctetFields, Zenon
<1>2. p.altitude \in Int
  BY SMT DEF Pilots
<1>3. Coordinate24s(p) \o Bytes16(p.altitude) \in Seq(Octet)
  <2>1. Bytes16(p.altitude) \in Seq(Octet)
    BY <1>2, OctetPair, SMT
  <2>. QED
    BY <1>1, <2>1, OctetsJoined, SMT
<1>4. ShortThermal(p) \subseteq Seq(Octet)
  <2>. DEFINE D(climb) == Coordinate24s(p) \o Bytes16(p.altitude) \o <<4>> \o Bytes16(climb)
              C == {100, 499}
  <2>1. ASSUME NEW climb \in C
        PROVE  D(climb) \in Seq(Octet)
    <3>1. climb \in Int /\ 4 \in Octet
      BY SMT DEF Octet
    <3>2. <<4>> \in Seq(Octet)
      BY <3>1
    <3>3. Coordinate24s(p) \o Bytes16(p.altitude) \o <<4>> \in Seq(Octet)
      BY <1>3, <3>2, OctetsJoined, SMT
    <3>4. Bytes16(climb) \in Seq(Octet)
      BY <3>1, OctetPair, SMT
    <3>. QED
      BY <3>3, <3>4, OctetsJoined, SMT
  <2>2. ShortThermal(p) = {D(climb) : climb \in C}
    BY DEF ShortThermal
  <2>. HIDE DEF D, C
  <2>. QED
    BY <2>1, <2>2, Zenon
<1>5. ShortGround(p) \subseteq Seq(Octet)
  <2>. DEFINE D(status) == Coordinate24s(p) \o <<status>>
              S == {17, 224}
  <2>1. ASSUME NEW status \in S
        PROVE  D(status) \in Seq(Octet)
    <3>1. status \in Octet
      BY SMT DEF Octet
    <3>2. <<status>> \in Seq(Octet)
      BY <3>1
    <3>. QED
      BY <1>1, <3>2, OctetsJoined, SMT
  <2>2. ShortGround(p) = {D(status) : status \in S}
    BY DEF ShortGround
  <2>. HIDE DEF D, S
  <2>. QED
    BY <2>1, <2>2, Zenon
<1>. QED
  BY <1>4, <1>5

LEMMA OctetsOfWeather == Weather \subseteq Seq(Octet)
<1>. DEFINE a == <<0>>
            b == Bytes16(300)
            c == Bytes16(700)
            d == <<60>>
            e == Bytes16(50)
            f == <<80>>
            W == {0, 182 * 359}
            T == {-1000, 2900}
            D(w, t) == a \o Bytes16(w) \o b \o c \o Bytes16(t) \o d \o e \o f
<1>1. Weather = {D(w, t) : w \in W, t \in T}
  BY SMT DEF Weather
<1>2. a \in Seq(Octet) /\ d \in Seq(Octet) /\ f \in Seq(Octet)
  BY SMT DEF Octet
<1>3. b \in Seq(Octet)
  BY OctetPair, SMT
<1>4. c \in Seq(Octet)
  BY OctetPair, SMT
<1>5. e \in Seq(Octet)
  BY OctetPair, SMT
<1>6. W \subseteq Int /\ T \subseteq Int
  BY SMT
<1>. HIDE DEF a, b, c, d, e, f, W, T
<1>7. ASSUME NEW w \in W, NEW t \in T
      PROVE  D(w, t) \in Seq(Octet)
  <2>1. Bytes16(w) \in Seq(Octet) /\ Bytes16(t) \in Seq(Octet)
    BY <1>6, OctetPair, Zenon
  <2>. QED
    BY <1>2, <1>3, <1>4, <1>5, <2>1, EightJoined, Zenon
<1>. HIDE DEF D
<1>. QED
  BY <1>1, <1>7, SMT

LEMMA OctetsOfPayload ==
  ASSUME pilot \in Pilots, NEW type \in {1, 2, 4, 7, 9}
  PROVE  Payloads(type) \subseteq Seq(Octet)
<1>1. <<84, 101, 115, 116>> \in Seq(Octet)
  BY SMT DEF Octet
<1>2. /\ AirTracking(pilot) \subseteq Seq(Octet) /\ GroundTracking(pilot) \subseteq Seq(Octet)
      /\ Thermal(pilot) \subseteq Seq(Octet) /\ Weather \subseteq Seq(Octet)
      /\ ShortThermal(pilot) \subseteq Seq(Octet) /\ ShortGround(pilot) \subseteq Seq(Octet)
  BY OctetsOfPilot, OctetsOfShortForms, OctetsOfWeather, Zenon
<1>3. type \in {1, 2, 4, 7, 9}
  OBVIOUS
<1>4. /\ type = 1 => Payloads(type) = AirTracking(pilot)
      /\ type = 2 => Payloads(type) = {<<84, 101, 115, 116>>}
      /\ type = 4 => Payloads(type) = Weather
      /\ type = 7 => Payloads(type) = GroundTracking(pilot) \cup ShortGround(pilot)
      /\ type = 9 => Payloads(type) = Thermal(pilot) \cup ShortThermal(pilot)
  BY SMT DEF Payloads
<1>5. {<<84, 101, 115, 116>>} \subseteq Seq(Octet)
  BY <1>1, Zenon
<1>6. /\ GroundTracking(pilot) \cup ShortGround(pilot) \subseteq Seq(Octet)
      /\ Thermal(pilot) \cup ShortThermal(pilot) \subseteq Seq(Octet)
  BY <1>2, Zenon
<1>. QED
  BY <1>2, <1>3, <1>4, <1>5, <1>6, Zenon

LEMMA OctetsOfService ==
  ASSUME NEW header \in Headers, NEW length \in Lengths
  PROVE  [i \in 1..length |-> IF i = 1 THEN header ELSE i - 1] \in Seq(Octet)
<1>1. length \in 1..16 /\ header \in 0..255
  BY ParserAssumption
<1>2. [i \in 1..length |-> IF i = 1 THEN header ELSE i - 1] \in [1..length -> Octet]
  BY <1>1 DEF Octet
<1>. QED
  BY <1>1, <1>2, SeqDef, Zenon, SMT

\* Besides ParserInv, a packet is a sequence of bytes.
SentInv == ParserInv /\ (packet # Nothing => packet.data \in Seq(Octet))

LEMMA SentInvKept ==
  ASSUME SentInv, [ParserNext]_parserVars
  PROVE  SentInv'
<1>1. ParserInv /\ ParserInv' /\ pilot \in Pilots
  BY ParserInvKept, Zenon DEF SentInv, ParserInv
<1>2. ASSUME NEW type, NEW data \in Seq(Octet), Send(type, data)
      PROVE  packet'.data \in Seq(Octet)
  BY <1>2, SMT DEF Send
<1>3. packet' # Nothing => packet'.data \in Seq(Octet)
  <2>1. CASE Fly \/ UNCHANGED parserVars
    <3>1. packet' = packet
      BY <2>1, Zenon DEF Fly, parserVars
    <3>. QED
      BY <3>1, Zenon DEF SentInv
  <2>2. CASE HandlePacket
    BY <2>2, Zenon DEF HandlePacket
  <2>3. ASSUME NEW type \in {1, 2, 4, 7, 9}, Publish(type)
        PROVE  packet'.data \in Seq(Octet)
    BY <2>3, <1>1, <1>2, OctetsOfPayload, Zenon DEF Publish
  <2>4. ASSUME NEW type \in {4, 8, 10}, NEW header \in Headers, NEW length \in Lengths,
               Transmit(type, header, length)
        PROVE  packet'.data \in Seq(Octet)
    BY <2>4, <1>2, OctetsOfService, Zenon DEF Transmit
  <2>. QED
    BY <2>1, <2>2, <2>3, <2>4, Zenon DEF ParserNext
<1>. QED
  BY <1>1, <1>3, Zenon DEF SentInv

\* Whatever the state of the test pilot, every byte of a packet is one (createPayload of the
\* test publisher, parser.go).
THEOREM ParserTypeCorrect == ParserSpec => []ParserTypeOK
<1>1. ParserInit => SentInv
  <2>1. FirstPilot \in Pilots
    BY SMT DEF FirstPilot, Pilots, OnEarth, Heading
  <2>. QED
    BY <2>1, Zenon DEF ParserInit, SentInv, ParserInv
<1>2. SentInv => ParserTypeOK
  <2>1. SentInv => pilot.speed \in 20..150 /\ pilot.climb \in -30..29 /\ pilot.heading \in Heading
    BY SMT DEF SentInv, ParserInv, Pilots
  <2>2. \A s \in Seq(Octet) : \A i \in DOMAIN s : s[i] \in Octet
    OBVIOUS
  <2>3. SentInv /\ packet # Nothing => \A i \in DOMAIN packet.data : packet.data[i] \in Octet
    BY <2>2, Zenon DEF SentInv
  <2>. QED
    BY <2>1, <2>3, Zenon DEF ParserTypeOK, Octet
<1>3. SentInv /\ [ParserNext]_parserVars => SentInv'
  BY SentInvKept, Zenon
<1>. QED
  BY <1>1, <1>2, <1>3, PTL DEF ParserSpec

-----------------------------------------------------------------------------
(***************************************************************************)
(* What SpatialIndex guarantees for any world, capacities, objects and      *)
(* queriers.                                                                *)
(*                                                                         *)
(* The tree is built by recursion on the depth and on the order of the      *)
(* insertions. That it stays sound is shown by least counterexample: of the *)
(* depths (or orders) at which a step fails take the least one, which the   *)
(* step before it refutes.                                                  *)
(***************************************************************************)

IsCell(c) ==
  /\ c.lo \in Int /\ c.hi \in Int /\ c.depth \in 0..MaxDepth
  /\ -World <= c.lo /\ c.lo <= c.hi /\ c.hi <= World

\* Leaves of which each place has one, and that hold the objects of S.
CellsAre(leaves)  == \A c \in DOMAIN leaves : IsCell(c)
OneLeaf(leaves)   ==
  \A pos \in -World..World : \E c \in DOMAIN leaves : \A d \in DOMAIN leaves : Leads(d, pos) <=> d = c
Holds(leaves, S)  ==
  \A c \in DOMAIN leaves : leaves[c] = {o \in S : o.pos \in -World..World /\ Leads(c, o.pos)}
Sound(leaves, S)  == CellsAre(leaves) /\ OneLeaf(leaves) /\ Holds(leaves, S)

\* The halves of a cell that may be split are smaller, and share its places.
LEMMA HalvesShare ==
  ASSUME NEW c, IsCell(c), c.hi - c.lo > MinNodeSize, c.depth < MaxDepth,
         NEW mid, mid = (c.lo + c.hi) \div 2,
         NEW low, low = [lo |-> c.lo, hi |-> mid, depth |-> c.depth + 1],
         NEW high, high = [lo |-> mid, hi |-> c.hi, depth |-> c.depth + 1]
  PROVE  /\ Halves(c) = {low, high} /\ low # high
         /\ IsCell(low) /\ IsCell(high)
         /\ low.depth = c.depth + 1 /\ high.depth = c.depth + 1
         /\ \A pos \in -World..World : Leads(low, pos) <=> Leads(c, pos) /\ pos < mid
         /\ \A pos \in -World..World : Leads(high, pos) <=> Leads(c, pos) /\ ~(pos < mid)
         /\ mid \in Int
<1>1. /\ World \in Nat /\ MinNodeSize \in Nat /\ MinNodeSize # 0 /\ MaxDepth \in Nat
  BY SpatialAssumption
<1>2. /\ c.lo \in Int /\ c.hi \in Int /\ c.depth \in 0..MaxDepth
      /\ -World <= c.lo /\ c.lo <= c.hi /\ c.hi <= World
  BY DEF IsCell
<1>3. mid \in Int /\ c.lo < mid /\ mid < c.hi
  BY <1>1, <1>2
<1>4. Halves(c) = {low, high}
  BY DEF Halves
<1>5. low # high
  BY <1>3
<1>6. /\ low.lo = c.lo /\ low.hi = mid /\ low.depth = c.depth + 1
      /\ high.lo = mid /\ high.hi = c.hi /\ high.depth = c.depth + 1
  OBVIOUS
<1>7. IsCell(low) /\ IsCell(high)
  BY <1>1, <1>2, <1>3, <1>6 DEF IsCell
<1>8. ASSUME NEW pos \in -World..World
      PROVE  /\ Leads(low, pos) <=> Leads(c, pos) /\ pos < mid
             /\ Leads(high, pos) <=> Leads(c, pos) /\ ~(pos < mid)
  BY <1>1, <1>2, <1>3, <1>6 DEF Leads
<1>. QED
  BY <1>3, <1>4, <1>5, <1>6, <1>7, <1>8

\* A half leads to nothing that its cell does not lead to.
LEMMA HalvesWithin ==
  ASSUME NEW c, IsCell(c), c.hi - c.lo > MinNodeSize, c.depth < MaxDepth
  PROVE  /\ \A h \in Halves(c) : /\ IsCell(h) /\ h.depth = c.depth + 1
                                 /\ \A pos \in -World..World : Leads(h, pos) => Leads(c, pos)
         /\ \A pos \in -World..World : Leads(c, pos) =>
              \E h \in Halves(c) : \A i \in Halves(c) : Leads(i, pos) <=> i = h
<1>. DEFINE mid  == (c.lo + c.hi) \div 2
            low  == [lo |-> c.lo, hi |-> mid, depth |-> c.depth + 1]
            high == [lo |-> mid, hi |-> c.hi, depth |-> c.depth + 1]
<1>1. /\ Halves(c) = {low, high} /\ low # high
      /\ IsCell(low) /\ IsCell(high)
      /\ low.depth = c.depth + 1 /\ high.depth = c.depth + 1
      /\ \A pos \in -World..World : Leads(low, pos) <=> Leads(c, pos) /\ pos < mid
      /\ \A pos \in -World..World : Leads(high, pos) <=> Leads(c, pos) /\ ~(pos < mid)
  BY HalvesShare
<1>. HIDE DEF mid, low, high
<1>2. ASSUME NEW pos \in -World..World, Leads(c, pos)
      PROVE  \E h \in Halves(c) : \A i \in Halves(c) : Leads(i, pos) <=> i = h
  <2>1. CASE pos < mid
    BY <1>1, <1>2, <2>1, Zenon
  <2>2. CASE ~(pos < mid)
    BY <1>1, <1>2, <2>2, Zenon
  <2>. QED
    BY <2>1, <2>2
<1>. QED
  BY <1>1, <1>2, Zenon

LEMMA SplitIsSound ==
  ASSUME NEW leaves, NEW S, Sound(leaves, S), NEW depth
  PROVE  Sound(SplitDepth(leaves, depth), S)
<1>. DEFINE over  == {c \in DOMAIN leaves : c.depth = depth /\ ShouldSplit(leaves, c)}
            cells == (DOMAIN leaves \ over) \cup UNION {Halves(d) : d \in over}
            moved == UNION {leaves[d] : d \in over}
            new   == SplitDepth(leaves, depth)
<1>1. new = [c \in cells |-> IF c \in DOMAIN leaves THEN leaves[c]
                             ELSE {o \in moved : Leads(c, o.pos)}]
  BY DEF SplitDepth
<1>2. \A c \in over : c \in DOMAIN leaves /\ IsCell(c) /\ c.hi - c.lo > MinNodeSize
                      /\ c.depth < MaxDepth /\ c.depth = depth
  BY DEF ShouldSplit, Sound, CellsAre
<1>3. \A c \in over :
        /\ \A h \in Halves(c) : /\ IsCell(h) /\ h.depth = c.depth + 1
                                /\ \A pos \in -World..World : Leads(h, pos) => Leads(c, pos)
        /\ \A pos \in -World..World : Leads(c, pos) =>
             \E h \in Halves(c) : \A i \in Halves(c) : Leads(i, pos) <=> i = h
  BY <1>2, HalvesWithin, Zenon
<1>4. \A c \in cells : (c \in DOMAIN leaves /\ c \notin over) \/ \E d \in over : c \in Halves(d)
  OBVIOUS
<1>5. DOMAIN new = cells
  BY <1>1
<1>6. over \subseteq DOMAIN leaves
  OBVIOUS
<1>7. /\ \A c \in DOMAIN leaves : c \notin over => c \in cells
      /\ \A d \in over : \A h \in Halves(d) : h \in cells
  OBVIOUS
<1>8. \A o : o \in moved <=> \E d \in over : o \in leaves[d]
  OBVIOUS
<1>. HIDE DEF over, cells, new, moved
<1>9. \A c \in DOMAIN leaves : IsCell(c)
  BY DEF Sound, CellsAre
<1>10. CellsAre(new)
  BY <1>3, <1>4, <1>5, <1>9, Zenon DEF CellsAre
<1>11. OneLeaf(new)
  <2>. SUFFICES ASSUME NEW pos \in -World..World
                PROVE  \E c \in cells : \A d \in cells : Leads(d, pos) <=> d = c
    BY <1>5, Zenon DEF OneLeaf
  <2>1. PICK leaf \in DOMAIN leaves : \A d \in DOMAIN leaves : Leads(d, pos) <=> d = leaf
    BY Zenon DEF Sound, OneLeaf
  <2>2. CASE leaf \in over
    <3>1. PICK h \in Halves(leaf) : \A i \in Halves(leaf) : Leads(i, pos) <=> i = h
      BY <1>3, <2>1, <2>2, Zenon
    <3>2. h \in cells
      BY <1>7, <2>2, Zenon
    <3>3. ASSUME NEW d \in cells, Leads(d, pos)
          PROVE  d = h
      <4>1. CASE d \in DOMAIN leaves /\ d \notin over
        BY <2>1, <2>2, <3>3, <4>1, Zenon
      <4>2. ASSUME NEW e \in over, d \in Halves(e)
            PROVE  d = h
        <5>1. Leads(e, pos)
          BY <1>3, <3>3, <4>2, Zenon
        <5>2. e = leaf
          BY <1>6, <2>1, <5>1, Zenon
        <5>. QED
          BY <3>1, <3>3, <4>2, <5>2, Zenon
      <4>. QED
        BY <1>4, <4>1, <4>2, Zenon
    <3>4. Leads(h, pos)
      BY <3>1, Zenon
    <3>. QED
      BY <3>2, <3>3, <3>4, Zenon
  <2>3. CASE leaf \notin over
    <3>1. leaf \in cells /\ Leads(leaf, pos)
      BY <1>7, <2>1, <2>3, Zenon
    <3>2. ASSUME NEW d \in cells, Leads(d, pos)
          PROVE  d = leaf
      <4>1. CASE d \in DOMAIN leaves
        BY <2>1, <3>2, <4>1, Zenon
      <4>2. ASSUME NEW e \in over, d \in Halves(e)
            PROVE  FALSE
        <5>1. Leads(e, pos)
          BY <1>3, <3>2, <4>2, Zenon
        <5>. QED
          BY <1>6, <2>1, <2>3, <5>1, Zenon
      <4>. QED
        BY <1>4, <4>1, <4>2, Zenon
    <3>. QED
      BY <3>1, <3>2, Zenon
  <2>. QED
    BY <2>2, <2>3
<1>12. Holds(new, S)
  <2>. SUFFICES ASSUME NEW c \in cells
                PROVE  new[c] = {o \in S : o.pos \in -World..World /\ Leads(c, o.pos)}
    BY <1>5, Zenon DEF Holds
  <2>0. \A d \in DOMAIN leaves :
          leaves[d] = {o \in S : o.pos \in -World..World /\ Leads(d, o.pos)}
    BY Zenon DEF Sound, Holds
  <2>1. CASE c \in DOMAIN leaves
    <3>1. new[c] = leaves[c]
      BY <1>1, <2>1
    <3>. QED
      BY <2>0, <2>1, <3>1, Zenon
  <2>2. CASE c \notin DOMAIN leaves
    <3>1. PICK d \in over : c \in Halves(d)
      BY <1>4, <2>2, Zenon
    <3>2. new[c] = {o \in moved : Leads(c, o.pos)}
      BY <1>1, <2>2
    <3>3. ASSUME NEW o \in moved
          PROVE  o \in S /\ o.pos \in -World..World
      <4>1. PICK e \in over : o \in leaves[e]
        BY <1>8, Zenon
      <4>. QED
        BY <1>6, <2>0, <4>1, Zenon
    <3>4. ASSUME NEW o \in S, o.pos \in -World..World, Leads(c, o.pos)
          PROVE  o \in moved
      <4>1. Leads(d, o.pos)
        BY <1>3, <3>1, <3>4, Zenon
      <4>2. o \in leaves[d]
        BY <1>6, <2>0, <3>1, <3>4, <4>1, Zenon
      <4>. QED
        BY <1>8, <3>1, <4>2, Zenon
    <3>. QED
      BY <3>2, <3>3, <3>4, Zenon
  <2>. QED
    BY <2>1, <2>2
<1>. QED
  BY <1>10, <1>11, <1>12 DEF Sound, new

LEMMA SplitsFrom ==
  ASSUME NEW start, NEW n \in Nat
  PROVE  \E g : g = [d \in 0..n |-> IF d = 0 THEN start ELSE SplitDepth(g[d - 1], d - 1)]
<1>. DEFINE Is(g, m) == g = [d \in 0..m |-> IF d = 0 THEN start ELSE SplitDepth(g[d - 1], d - 1)]
            T == {m \in Nat : ~\E g : Is(g, m)}
<1>1. ASSUME T # {}
      PROVE  FALSE
  <2>1. PICK m \in T : \A k \in T : m <= k
    BY <1>1, LeastOf
  <2>2. m \in Nat /\ ~\E g : Is(g, m)
    OBVIOUS
  <2>3. m # 0
    <3>1. Is([d \in 0..0 |-> start], 0)
      OBVIOUS
    <3>. HIDE DEF Is
    <3>. QED
      BY <2>2, <3>1
  <2>4. m - 1 \in Nat /\ m - 1 \notin T
    <3>. HIDE DEF T
    <3>. QED
      BY <2>1, <2>2, <2>3
  <2>5. PICK g : Is(g, m - 1)
    BY <2>4
  <2>. DEFINE h == [d \in 0..m |-> IF d = 0 THEN start ELSE SplitDepth(g[d - 1], d - 1)]
  <2>6. ASSUME NEW d \in 0..m, d # 0
        PROVE  h[d - 1] = g[d - 1]
    <3>1. d - 1 \in 0..(m - 1) /\ d - 1 \in 0..m
      BY <2>2, <2>6
    <3>. QED
      BY <2>5, <3>1
  <2>7. h = [d \in 0..m |-> IF d = 0 THEN start ELSE SplitDepth(h[d - 1], d - 1)]
    <3>. HIDE DEF h
    <3>. QED
      BY <2>6 DEF h
  <2>8. Is(h, m)
    BY <2>7
  <2>. HIDE DEF Is, h
  <2>. QED
    BY <2>2, <2>8
<1>. QED
  BY <1>1

LEMMA InsertIsSound ==
  ASSUME NEW leaves, NEW S, NEW o, Sound(leaves, S)
  PROVE  Sound(InsertInto(leaves, o), S \cup {o})
<1>. DEFINE added == [c \in DOMAIN leaves |-> IF Leads(c, o.pos) THEN leaves[c] \cup {o} ELSE leaves[c]]
            split[depth \in 0..MaxDepth] ==
              IF depth = 0 THEN added ELSE SplitDepth(split[depth - 1], depth - 1)
<1>0. MaxDepth \in Nat
  BY SpatialAssumption
<1>1. CASE o.pos \notin -World..World
  <2>1. InsertInto(leaves, o) = leaves
    BY <1>1, Zenon DEF InsertInto
  <2>2. Holds(leaves, S \cup {o})
    BY <1>1 DEF Sound, Holds
  <2>. QED
    BY <2>1, <2>2 DEF Sound
<1>2. CASE o.pos \in -World..World
  <2>1. Sound(added, S \cup {o})
    <3>1. DOMAIN added = DOMAIN leaves
      OBVIOUS
    <3>2. CellsAre(added) /\ OneLeaf(added)
      BY <3>1, Zenon DEF Sound, CellsAre, OneLeaf
    <3>3. Holds(added, S \cup {o})
      BY <1>2 DEF Sound, Holds
    <3>. QED
      BY <3>2, <3>3 DEF Sound
  <2>. HIDE DEF added
  <2>2. split = [d \in 0..MaxDepth |-> IF d = 0 THEN added ELSE SplitDepth(split[d - 1], d - 1)]
    BY <1>0, SplitsFrom
  <2>3. InsertInto(leaves, o) = split[MaxDepth]
    BY <1>2 DEF InsertInto, added
  <2>. HIDE DEF split
  <2>. DEFINE T == {d \in 0..MaxDepth : ~Sound(split[d], S \cup {o})}
  <2>4. ASSUME T # {}
        PROVE  FALSE
    <3>0. T \subseteq Nat
      OBVIOUS
    <3>1. PICK d \in T : \A k \in T : d <= k
      BY <2>4, <3>0, LeastOf
    <3>2. d \in 0..MaxDepth /\ ~Sound(split[d], S \cup {o})
      OBVIOUS
    <3>3. split[0] = added
      BY <1>0, <2>2
    <3>4. d # 0
      BY <2>1, <3>2, <3>3
    <3>5. d - 1 \in 0..MaxDepth /\ d - 1 \notin T
      <4>. HIDE DEF T
      <4>. QED
        BY <1>0, <3>1, <3>2, <3>4
    <3>6. Sound(split[d - 1], S \cup {o})
      BY <3>5
    <3>7. split[d] = SplitDepth(split[d - 1], d - 1)
      BY <2>2, <3>2, <3>4
    <3>. QED
      BY <3>2, <3>6, <3>7, SplitIsSound
  <2>5. Sound(split[MaxDepth], S \cup {o})
    BY <1>0, <2>4
  <2>. QED
    BY <2>3, <2>5
<1>. QED
  BY <1>1, <1>2

\* The objects of S have ids of their own.
Named(S) == \A o, p \in S : o.id = p.id => o = p

LEMMA WithoutIsSound ==
  ASSUME NEW leaves, NEW S, NEW R, Sound(leaves, S), Named(S), R \subseteq S
  PROVE  Sound(WithoutAll(leaves, R), S \ R)
<1>. DEFINE new == WithoutAll(leaves, R)
<1>1. new = [c \in DOMAIN leaves |-> {p \in leaves[c] : \A o \in R : ~(Leads(c, o.pos) /\ p.id = o.id)}]
  BY DEF WithoutAll
<1>2. DOMAIN new = DOMAIN leaves
  BY <1>1
<1>. HIDE DEF new
<1>3. CellsAre(new) /\ OneLeaf(new)
  BY <1>2, Zenon DEF Sound, CellsAre, OneLeaf
<1>4. ASSUME NEW c \in DOMAIN leaves
      PROVE  new[c] = {o \in S \ R : o.pos \in -World..World /\ Leads(c, o.pos)}
  <2>1. leaves[c] = {o \in S : o.pos \in -World..World /\ Leads(c, o.pos)}
    BY DEF Sound, Holds
  <2>2. new[c] = {p \in leaves[c] : \A o \in R : ~(Leads(c, o.pos) /\ p.id = o.id)}
    BY <1>1
  <2>3. ASSUME NEW p \in leaves[c]
        PROVE  (\A o \in R : ~(Leads(c, o.pos) /\ p.id = o.id)) <=> p \notin R
    <3>1. p \in S /\ Leads(c, p.pos)
      BY <2>1
    <3>. QED
      BY <3>1 DEF Named
  <2>. QED
    BY <2>1, <2>2, <2>3
<1>5. Holds(new, S \ R)
  BY <1>2, <1>4, Zenon DEF Holds
<1>. QED
  BY <1>3, <1>5 DEF Sound, new

LEMMA InsertsFrom ==
  ASSUME NEW order, NEW n \in Nat
  PROVE  \E g : g = [i \in 0..n |-> IF i = 0 THEN EmptyTree ELSE InsertInto(g[i - 1], order[i])]
<1>. DEFINE Is(g, m) == g = [i \in 0..m |-> IF i = 0 THEN EmptyTree ELSE InsertInto(g[i - 1], order[i])]
            T == {m \in Nat : ~\E g : Is(g, m)}
<1>1. ASSUME T # {}
      PROVE  FALSE
  <2>1. PICK m \in T : \A k \in T : m <= k
    BY <1>1, LeastOf
  <2>2. m \in Nat /\ ~\E g : Is(g, m)
    OBVIOUS
  <2>3. m # 0
    <3>1. Is([d \in 0..0 |-> EmptyTree], 0)
      OBVIOUS
    <3>. HIDE DEF Is
    <3>. QED
      BY <2>2, <3>1
  <2>4. m - 1 \in Nat /\ m - 1 \notin T
    <3>. HIDE DEF T
    <3>. QED
      BY <2>1, <2>2, <2>3
  <2>5. PICK g : Is(g, m - 1)
    BY <2>4
  <2>. DEFINE h == [i \in 0..m |-> IF i = 0 THEN EmptyTree ELSE InsertInto(g[i - 1], order[i])]
  <2>6. ASSUME NEW i \in 0..m, i # 0
        PROVE  h[i - 1] = g[i - 1]
    <3>1. i - 1 \in 0..(m - 1) /\ i - 1 \in 0..m
      BY <2>2, <2>6
    <3>. QED
      BY <2>5, <3>1
  <2>7. h = [i \in 0..m |-> IF i = 0 THEN EmptyTree ELSE InsertInto(h[i - 1], order[i])]
    <3>. HIDE DEF h
    <3>. QED
      BY <2>6 DEF h
  <2>8. Is(h, m)
    BY <2>7
  <2>. HIDE DEF Is, h
  <2>. QED
    BY <2>2, <2>8
<1>. QED
  BY <1>1

LEMMA EmptyIsSound == Sound(EmptyTree, {})
<1>1. World \in Nat /\ MaxDepth \in Nat
  BY SpatialAssumption
<1>2. IsCell(Root)
  BY <1>1 DEF IsCell, Root
<1>3. \A pos \in -World..World : Leads(Root, pos)
  BY DEF Leads, Root
<1>4. DOMAIN EmptyTree = {Root} /\ EmptyTree[Root] = {}
  BY Zenon DEF EmptyTree
<1>. QED
  BY <1>2, <1>3, <1>4, Zenon DEF Sound, CellsAre, OneLeaf, Holds

LEMMA RebuiltIsSound ==
  ASSUME NEW S, IsFiniteSet(S), NEW order \in OrdersOf(S)
  PROVE  Sound(Rebuilt(order), S)
<1>0. Cardinality(S) \in Nat
  BY FS_CardinalityType
<1>. DEFINE n == Cardinality(S)
            after[k \in 0..n] == IF k = 0 THEN EmptyTree ELSE InsertInto(after[k - 1], order[k])
            Added(k) == {order[i] : i \in 1..k}
<1>1. order \in [1..n -> S] /\ \A o \in S : \E i \in 1..n : order[i] = o
  BY DEF OrdersOf
<1>2. Len(order) = n
  BY <1>0, <1>1
<1>. HIDE DEF n
<1>3. after = [k \in 0..n |-> IF k = 0 THEN EmptyTree ELSE InsertInto(after[k - 1], order[k])]
  BY <1>0, InsertsFrom DEF n
<1>4. Rebuilt(order) = after[n]
  BY <1>2 DEF Rebuilt
<1>. HIDE DEF after
<1>5. Added(n) = S
  BY <1>1
<1>6. Added(0) = {}
  OBVIOUS
<1>7. \A k \in 1..n : Added(k) = Added(k - 1) \cup {order[k]}
  <2>. SUFFICES ASSUME NEW k \in 1..n
                PROVE  Added(k) = Added(k - 1) \cup {order[k]}
    OBVIOUS
  <2>1. k \in Int /\ n \in Nat
    BY <1>0 DEF n
  <2>2. \A i : i \in 1..k <=> i \in 1..(k - 1) \/ i = k
    BY <2>1
  <2>. QED
    BY <2>2, Zenon
<1>. HIDE DEF Added
<1>. DEFINE T == {k \in 0..n : ~Sound(after[k], Added(k))}
<1>8. ASSUME T # {}
      PROVE  FALSE
  <2>0. n \in Nat
    BY <1>0 DEF n
  <2>1. T \subseteq Nat
    OBVIOUS
  <2>2. PICK k \in T : \A l \in T : k <= l
    BY <1>8, <2>1, LeastOf
  <2>3. k \in 0..n /\ ~Sound(after[k], Added(k))
    OBVIOUS
  <2>4. after[0] = EmptyTree
    BY <1>3, <2>0
  <2>5. k # 0
    BY <1>6, <2>3, <2>4, EmptyIsSound
  <2>6. k - 1 \in 0..n /\ k - 1 \notin T /\ k \in 1..n
    <3>. HIDE DEF T
    <3>. QED
      BY <2>0, <2>2, <2>3, <2>5
  <2>7. Sound(after[k - 1], Added(k - 1))
    BY <2>6
  <2>8. after[k] = InsertInto(after[k - 1], order[k])
    BY <1>3, <2>3, <2>5
  <2>9. Sound(after[k], Added(k - 1) \cup {order[k]})
    BY <2>7, <2>8, InsertIsSound
  <2>. QED
    BY <1>7, <2>3, <2>6, <2>9, Zenon
<1>9. n \in 0..n
  BY <1>0 DEF n
<1>. QED
  BY <1>4, <1>5, <1>8, <1>9

\* What an answer found at a centre tells of the objects S: it has each that has been near
\* the centre since before the time, is about nothing far away, and each of it that has left
\* since is known to have left after the time.
Complete(found, centre, time, S) ==
  \A o \in S :
    o.at < time /\ o.pos \in -World..World /\ DistanceTo(o, centre) <= Box => o \in found
NearCentre(found, centre) == \A o \in found : DistanceTo(o, centre) <= Radius
Current(found, time, S, departed) ==
  \A o \in found : (\E p \in S : p.id = o.id) \/ departed[o.id] >= time
Tells(found, centre, time, S, departed) ==
  Complete(found, centre, time, S) /\ NearCentre(found, centre) /\ Current(found, time, S, departed)

\* An entry of the cache is the answer to a query with its key, of its time.
CacheTells ==
  \A i \in DOMAIN cache :
    /\ cache[i].at <= hour
    /\ \E centre \in Int : /\ KeyOf(centre) = cache[i].key
                           /\ Tells(cache[i].value, centre, cache[i].at, objects, left)

\* A query ends in the hour in which it has searched.
QueriesTell ==
  \A q \in Querier : query[q].step = "store" =>
    Tells(query[q].found, query[q].centre, hour, objects, left)

IndexInv ==
  /\ IndexTypeOK
  /\ IsFiniteSet(objects) /\ Named(objects) /\ Sound(tree, objects)
  /\ CacheTells /\ QueriesTell

\* The objects stay the ones that they are, or are new, or leave now.
Follows ==
  /\ \A o \in objects' : o \in objects \/ o.at = hour
  /\ left' \in [Object -> 0..IndexHorizon]
  /\ \A o \in Objects :
       \/ \E p \in objects' : p.id = o.id
       \/ left'[o.id] = hour
       \/ left'[o.id] = left[o.id] /\ ~\E p \in objects : p.id = o.id

LEMMA TellsStill ==
  ASSUME IndexInv, Follows, NEW found \in SUBSET Objects, NEW centre \in Int, NEW time \in Nat,
         time <= hour, Tells(found, centre, time, objects, left)
  PROVE  Tells(found, centre, time, objects', left')
<1>1. hour \in Nat /\ objects \subseteq Objects
  <2>1. IndexHorizon \in Nat
    BY SpatialAssumption
  <2>. QED
    BY <2>1 DEF IndexInv, IndexTypeOK
<1>2. Complete(found, centre, time, objects')
  BY <1>1 DEF Tells, Complete, Follows
<1>3. Current(found, time, objects', left')
  <2>. SUFFICES ASSUME NEW o \in found, ~\E p \in objects' : p.id = o.id
                PROVE  left'[o.id] >= time
    BY Zenon DEF Current
  <2>1. left'[o.id] = hour \/ (left'[o.id] = left[o.id] /\ ~\E p \in objects : p.id = o.id)
    BY DEF Follows
  <2>2. CASE left'[o.id] = hour
    BY <1>1, <2>2
  <2>3. CASE left'[o.id] = left[o.id] /\ ~\E p \in objects : p.id = o.id
    BY <2>3 DEF Tells, Current
  <2>. QED
    BY <2>1, <2>2, <2>3
<1>. QED
  BY <1>2, <1>3 DEF Tells

LEMMA SameFollows ==
  ASSUME IndexInv, UNCHANGED <<objects, left>>
  PROVE  Follows
<1>1. objects' = objects /\ left' = left /\ left \in [Object -> 0..IndexHorizon]
  BY DEF IndexInv, IndexTypeOK
<1>. QED
  BY <1>1, Zenon DEF Follows

\* Each entry of the new cache was in the old one.
Fewer == \A i \in DOMAIN cache' : \E j \in DOMAIN cache : cache'[i] = cache[j]

LEMMA CacheTellsStill ==
  ASSUME IndexInv, Follows, Fewer, hour' \in Nat, hour <= hour'
  PROVE  CacheTells'
<1>1. /\ hour \in Nat /\ cache \in Seq(CacheEntries)
      /\ \A j \in DOMAIN cache : cache[j] \in CacheEntries
  <2>1. IndexHorizon \in Nat
    BY SpatialAssumption
  <2>2. hour \in 0..IndexHorizon /\ cache \in Seq(CacheEntries)
    BY DEF IndexInv, IndexTypeOK
  <2>. QED
    BY <2>1, <2>2
<1>. SUFFICES ASSUME NEW i \in DOMAIN cache'
              PROVE  /\ cache'[i].at <= hour'
                     /\ \E centre \in Int : /\ KeyOf(centre) = cache'[i].key
                                            /\ Tells(cache'[i].value, centre, cache'[i].at, objects', left')
  BY Zenon DEF CacheTells
<1>2. PICK j \in DOMAIN cache : cache'[i] = cache[j]
  BY DEF Fewer
<1>3. PICK centre \in Int : /\ KeyOf(centre) = cache[j].key
                            /\ Tells(cache[j].value, centre, cache[j].at, objects, left)
  BY DEF IndexInv, CacheTells
<1>4. /\ cache[j].at <= hour /\ cache[j].at \in Nat /\ cache[j].value \in SUBSET Objects
  <2>1. IndexHorizon \in Nat
    BY SpatialAssumption
  <2>. QED
    BY <1>1, <2>1 DEF IndexInv, CacheTells, CacheEntries
<1>5. Tells(cache[j].value, centre, cache[j].at, objects', left')
  BY <1>3, <1>4, TellsStill
<1>. QED
  BY <1>1, <1>2, <1>3, <1>4, <1>5

LEMMA QueriesTellStill ==
  ASSUME IndexInv, Follows, UNCHANGED <<query, hour>>
  PROVE  QueriesTell'
<1>1. hour \in Nat /\ query \in [Querier -> Queries]
  <2>1. IndexHorizon \in Nat
    BY SpatialAssumption
  <2>. QED
    BY <2>1 DEF IndexInv, IndexTypeOK
<1>. SUFFICES ASSUME NEW q \in Querier, query[q].step = "store"
              PROVE  Tells(query[q].found, query[q].centre, hour, objects', left')
  BY Zenon DEF QueriesTell
<1>2. Tells(query[q].found, query[q].centre, hour, objects, left)
  BY DEF IndexInv, QueriesTell
<1>3. query[q].found \in SUBSET Objects /\ query[q].centre \in Int
  BY <1>1 DEF Queries
<1>4. hour <= hour
  BY <1>1
<1>. QED
  BY <1>1, <1>2, <1>3, <1>4, TellsStill

\* What IndexTypeOK says, with the sets that a step's proof needs.
LEMMA IndexTypes ==
  ASSUME IndexInv
  PROVE  /\ IndexHorizon \in Nat /\ hour \in 0..IndexHorizon /\ hour \in Nat
         /\ objects \subseteq Objects /\ bloom \subseteq Object
         /\ cache \in Seq(CacheEntries) /\ Len(cache) <= CacheCapacity
         /\ query \in [Querier -> Queries] /\ left \in [Object -> 0..IndexHorizon]
<1>1. IndexHorizon \in Nat
  BY SpatialAssumption
<1>. QED
  BY <1>1 DEF IndexInv, IndexTypeOK

LEMMA TreeTyped ==
  ASSUME NEW leaves, NEW S, Sound(leaves, S), S \subseteq Objects
  PROVE  \A c \in DOMAIN leaves : leaves[c] \subseteq Objects /\ c.depth <= MaxDepth
<1>1. MaxDepth \in Nat
  BY SpatialAssumption
<1>. QED
  BY <1>1 DEF Sound, CellsAre, IsCell, Holds

LEMMA InsertKeepsIndex ==
  ASSUME IndexInv, NEW id \in Object, NEW pos \in Position, InsertObject(id, pos)
  PROVE  IndexInv'
<1>. DEFINE o == [id |-> id, pos |-> pos, at |-> hour]
            kept == objects \ Old(id)
<1>1. /\ bloom' = bloom \cup {id} /\ objects' = kept \cup {o}
      /\ tree' = InsertInto(WithoutAll(tree, Old(id)), o) /\ cache' = <<>>
      /\ left' = [left EXCEPT ![id] = 0] /\ hour' = hour /\ query' = query
  BY Zenon DEF InsertObject
<1>2. /\ IndexHorizon \in Nat /\ hour \in 0..IndexHorizon /\ hour \in Nat
      /\ objects \subseteq Objects /\ bloom \subseteq Object
      /\ query \in [Querier -> Queries] /\ left \in [Object -> 0..IndexHorizon]
  BY IndexTypes
<1>3. o \in Objects /\ o.id = id /\ o.at = hour
  BY <1>2 DEF Objects
<1>4. Old(id) \subseteq objects /\ \A p \in kept : p \in objects /\ p.id # id
  BY DEF Old
<1>5. \A p \in objects : p.id # id => p \in kept
  BY DEF Old
<1>. HIDE DEF o, kept
<1>6. Named(objects) /\ IsFiniteSet(objects) /\ Sound(tree, objects)
  BY DEF IndexInv
<1>7. Sound(WithoutAll(tree, Old(id)), kept)
  BY <1>4, <1>6, WithoutIsSound DEF kept
<1>8. Sound(tree', objects')
  BY <1>1, <1>7, InsertIsSound
<1>9. Named(objects')
  BY <1>1, <1>3, <1>4, <1>6, Zenon DEF Named
<1>10. IsFiniteSet(objects')
  <2>1. IsFiniteSet(kept)
    BY <1>6, FS_Subset DEF kept
  <2>. QED
    BY <1>1, <2>1, FS_AddElement
<1>11. objects' \subseteq Objects
  BY <1>1, <1>2, <1>3, <1>4
<1>12. left' \in [Object -> 0..IndexHorizon]
  BY <1>1, <1>2
<1>13. IndexTypeOK'
  <2>1. \A c \in DOMAIN tree' : tree'[c] \subseteq Objects /\ c.depth <= MaxDepth
    BY <1>8, <1>11, TreeTyped
  <2>2. cache' \in Seq(CacheEntries) /\ Len(cache') <= CacheCapacity
    BY <1>1, SpatialAssumption
  <2>3. bloom' \subseteq Object
    BY <1>1, <1>2
  <2>. QED
    BY <1>1, <1>2, <1>11, <1>12, <2>1, <2>2, <2>3, Zenon DEF IndexTypeOK
<1>14. Follows
  <2>1. \A p \in objects' : p \in objects \/ p.at = hour
    BY <1>1, <1>3, <1>4, Zenon
  <2>2. ASSUME NEW p \in Objects
        PROVE  \/ \E r \in objects' : r.id = p.id
               \/ left'[p.id] = hour
               \/ left'[p.id] = left[p.id] /\ ~\E r \in objects : r.id = p.id
    <3>1. CASE p.id = id
      BY <1>1, <1>3, <3>1, Zenon
    <3>2. CASE p.id # id
      <4>1. p.id \in Object
        BY DEF Objects
      <4>2. left'[p.id] = left[p.id]
        BY <1>1, <1>2, <3>2, <4>1
      <4>. QED
        BY <1>1, <1>5, <3>2, <4>2, Zenon
    <3>. QED
      BY <3>1, <3>2
  <2>. QED
    BY <1>12, <2>1, <2>2, Zenon DEF Follows
<1>15. QueriesTell'
  BY <1>1, <1>14, QueriesTellStill
<1>16. CacheTells'
  BY <1>1 DEF CacheTells
<1>. QED
  BY <1>8, <1>9, <1>10, <1>13, <1>15, <1>16, Zenon DEF IndexInv

\* Objects leave: the same ones from the map and from the tree.
LEMMA LeaveKeepsIndex ==
  ASSUME IndexInv, NEW departed \in SUBSET objects, objects' = objects \ departed,
         Sound(tree', objects'), Leave({o.id : o \in departed}), Fewer,
         cache' \in Seq(CacheEntries), Len(cache') <= CacheCapacity,
         bloom' \subseteq bloom, UNCHANGED <<hour, query>>
  PROVE  IndexInv'
<1>1. /\ IndexHorizon \in Nat /\ hour \in 0..IndexHorizon /\ hour \in Nat
      /\ objects \subseteq Objects /\ bloom \subseteq Object
      /\ query \in [Querier -> Queries] /\ left \in [Object -> 0..IndexHorizon]
  BY IndexTypes
<1>2. Named(objects') /\ objects' \subseteq Objects
  BY <1>1 DEF IndexInv, Named
<1>3. IsFiniteSet(objects')
  BY FS_Subset DEF IndexInv
<1>4. left' = [x \in Object |-> IF x \in {o.id : o \in departed} THEN hour ELSE left[x]]
  BY Zenon DEF Leave
<1>5. left' \in [Object -> 0..IndexHorizon]
  BY <1>1, <1>4
<1>6. IndexTypeOK'
  <2>1. \A c \in DOMAIN tree' : tree'[c] \subseteq Objects /\ c.depth <= MaxDepth
    BY <1>2, TreeTyped
  <2>2. bloom' \subseteq Object
    BY <1>1
  <2>. QED
    BY <1>1, <1>2, <1>5, <2>1, <2>2, Zenon DEF IndexTypeOK
<1>7. Follows
  <2>1. ASSUME NEW p \in Objects
        PROVE  \/ \E r \in objects' : r.id = p.id
               \/ left'[p.id] = hour
               \/ left'[p.id] = left[p.id] /\ ~\E r \in objects : r.id = p.id
    <3>1. p.id \in Object
      BY DEF Objects
    <3>2. CASE \E r \in departed : r.id = p.id
      BY <1>4, <3>1, <3>2
    <3>3. CASE ~\E r \in departed : r.id = p.id
      <4>1. left'[p.id] = left[p.id]
        BY <1>4, <3>1, <3>3
      <4>2. \A r \in objects : r.id = p.id => r \in objects'
        BY <3>3
      <4>. QED
        BY <4>1, <4>2, Zenon
    <3>. QED
      BY <3>2, <3>3
  <2>. QED
    BY <1>5, <2>1 DEF Follows
<1>8. QueriesTell'
  BY <1>7, QueriesTellStill
<1>9. CacheTells'
  <2>1. hour' \in Nat /\ hour <= hour'
    BY <1>1
  <2>. QED
    BY <1>7, <2>1, CacheTellsStill
<1>. QED
  BY <1>2, <1>3, <1>6, <1>8, <1>9, Zenon DEF IndexInv

LEMMA RemoveKeepsIndex ==
  ASSUME IndexInv, NEW id \in Object, RemoveObject(id)
  PROVE  IndexInv'
<1>1. /\ Old(id) # {} /\ objects' = objects \ Old(id) /\ tree' = WithoutAll(tree, Old(id))
      /\ Leave({id}) /\ hour' = hour /\ bloom' = bloom /\ cache' = cache /\ query' = query
  BY Zenon DEF RemoveObject
<1>2. Old(id) \in SUBSET objects /\ {o.id : o \in Old(id)} = {id}
  BY <1>1 DEF Old
<1>3. Sound(tree', objects')
  BY <1>1, <1>2, WithoutIsSound DEF IndexInv
<1>4. Fewer
  BY <1>1 DEF Fewer
<1>5. cache' \in Seq(CacheEntries) /\ Len(cache') <= CacheCapacity
  BY <1>1, IndexTypes
<1>. QED
  BY <1>1, <1>2, <1>3, <1>4, <1>5, LeaveKeepsIndex

\* Clean cuts the cache.
LEMMA CleanCacheCuts ==
  ASSUME IndexInv
  PROVE  /\ CleanCache \in Seq(CacheEntries) /\ Len(CleanCache) <= CacheCapacity
         /\ \A i \in DOMAIN CleanCache : \E j \in DOMAIN cache : CleanCache[i] = cache[j]
<1>. DEFINE young == {i \in DOMAIN cache : Young(cache[i])}
            n     == IF young = {} THEN 0 ELSE CHOOSE i \in young : \A j \in young : j <= i
<1>1. cache \in Seq(CacheEntries) /\ Len(cache) <= CacheCapacity /\ CacheCapacity \in Nat
  BY IndexTypes, SpatialAssumption
<1>2. CleanCache = SubSeq(cache, 1, n)
  BY DEF CleanCache
<1>3. n \in 0..Len(cache)
  <2>1. CASE young = {}
    BY <1>1, <2>1
  <2>2. CASE young # {}
    <3>1. young \subseteq 1..Len(cache)
      BY <1>1
    <3>. DEFINE T == {k \in Nat : \E i \in young : k = Len(cache) - i}
    <3>2. T \subseteq Nat /\ T # {}
      <4>0. Len(cache) \in Nat
        BY <1>1
      <4>1. PICK i \in young : TRUE
        BY <2>2
      <4>2. i \in 1..Len(cache)
        BY <3>1
      <4>3. Len(cache) - i \in T
        BY <4>0, <4>2
      <4>. QED
        BY <4>3
    <3>3. PICK k \in T : \A l \in T : k <= l
      BY <3>2, LeastOf
    <3>4. PICK i \in young : k = Len(cache) - i
      OBVIOUS
    <3>5. \A j \in young : j <= i
      <4>. SUFFICES ASSUME NEW j \in young
                    PROVE  j <= i
        OBVIOUS
      <4>0. Len(cache) \in Nat
        BY <1>1
      <4>1. Len(cache) - j \in T /\ j \in Int /\ i \in Int
        BY <3>1, <4>0
      <4>. HIDE DEF T
      <4>2. Len(cache) - i <= Len(cache) - j
        BY <3>3, <3>4, <4>1
      <4>. QED
        BY <4>0, <4>1, <4>2
    <3>. HIDE DEF young
    <3>6. n \in young
      BY <2>2, <3>5
    <3>. HIDE DEF n
    <3>7. n \in 1..Len(cache)
      BY <3>1, <3>6
    <3>. QED
      BY <3>7
  <2>. QED
    BY <2>1, <2>2
<1>. HIDE DEF n
<1>4. /\ SubSeq(cache, 1, n) \in Seq(CacheEntries) /\ Len(SubSeq(cache, 1, n)) = n
      /\ \A i \in 1..n : SubSeq(cache, 1, n)[i] = cache[i]
  BY <1>1, <1>3
<1>. QED
  BY <1>1, <1>2, <1>3, <1>4

LEMMA CleanKeepsIndex ==
  ASSUME IndexInv, CleanIndex
  PROVE  IndexInv'
<1>. DEFINE old == {o \in objects : hour - o.at > IndexMaxAge}
<1>1. /\ objects' = objects \ old
      /\ \E order \in OrdersOf(objects \ old) :
           tree' = Rebuilt(order) \/ tree' = WithoutAll(tree, old)
      /\ cache' = CleanCache /\ Leave({o.id : o \in old}) /\ hour' = hour /\ query' = query
      /\ bloom' = {} \/ bloom' = bloom
  BY Zenon DEF CleanIndex
<1>2. old \in SUBSET objects
  OBVIOUS
<1>. HIDE DEF old
<1>3. IsFiniteSet(objects \ old)
  BY FS_Subset DEF IndexInv
<1>4. Sound(tree', objects')
  BY <1>1, <1>2, <1>3, RebuiltIsSound, WithoutIsSound DEF IndexInv
<1>5. Fewer
  BY <1>1, CleanCacheCuts, Zenon DEF Fewer
<1>6. cache' \in Seq(CacheEntries) /\ Len(cache') <= CacheCapacity
  BY <1>1, CleanCacheCuts
<1>7. bloom' \subseteq bloom
  BY <1>1
<1>. QED
  BY <1>1, <1>2, <1>4, <1>5, <1>6, <1>7, LeaveKeepsIndex

\* The cache without a key has the other entries.
LEMMA WithoutIsFewer ==
  ASSUME IndexInv, NEW key
  PROVE  /\ Without(key) \in Seq(CacheEntries)
         /\ Len(Without(key)) = IF Hits(key) = {} THEN Len(cache) ELSE Len(cache) - 1
         /\ \A i \in DOMAIN Without(key) : \E j \in DOMAIN cache : Without(key)[i] = cache[j]
         /\ Hits(key) # {} => Slot(key) \in DOMAIN cache /\ cache[Slot(key)].key = key
<1>1. cache \in Seq(CacheEntries) /\ Len(cache) \in Nat
  BY IndexTypes
<1>2. CASE Hits(key) = {}
  BY <1>1, <1>2 DEF Without
<1>3. CASE Hits(key) # {}
  <2>1. Slot(key) \in Hits(key)
    BY <1>3, Zenon DEF Slot
  <2>2. Slot(key) \in DOMAIN cache /\ cache[Slot(key)].key = key
    BY <2>1 DEF Hits
  <2>. DEFINE n == Len(cache) - 1
              from(i) == IF i < Slot(key) THEN i ELSE i + 1
  <2>3. n \in Nat /\ Slot(key) \in 1..(n + 1)
    BY <1>1, <2>2
  <2>4. \A i \in 1..n : from(i) \in 1..(n + 1)
    BY <2>3
  <2>5. DOMAIN cache = 1..(n + 1) /\ \A i \in 1..(n + 1) : cache[i] \in CacheEntries
    BY <1>1
  <2>6. Without(key) = [i \in 1..n |-> cache[from(i)]]
    BY <1>3, Zenon DEF Without
  <2>. HIDE DEF n, from
  <2>7. Without(key) \in [1..n -> CacheEntries]
    BY <2>4, <2>5, <2>6, Zenon
  <2>8. Without(key) \in Seq(CacheEntries) /\ Len(Without(key)) = n /\ DOMAIN Without(key) = 1..n
    BY <2>3, <2>7
  <2>9. \A i \in 1..n : Without(key)[i] = cache[from(i)]
    BY <2>6, Zenon
  <2>10. \A i \in DOMAIN Without(key) : \E j \in DOMAIN cache : Without(key)[i] = cache[j]
    BY <2>4, <2>5, <2>8, <2>9, Zenon
  <2>. QED
    BY <1>3, <2>2, <2>8, <2>10 DEF n
<1>. QED
  BY <1>2, <1>3

LEMMA PutInFront ==
  ASSUME NEW R, NEW s \in Seq(R), NEW e \in R
  PROVE  /\ <<e>> \o s \in Seq(R) /\ Len(<<e>> \o s) = Len(s) + 1
         /\ \A i \in DOMAIN (<<e>> \o s) :
              (<<e>> \o s)[i] = e \/ \E j \in DOMAIN s : (<<e>> \o s)[i] = s[j]
<1>. DEFINE t == <<e>> \o s
<1>1. <<e>> \in Seq(R) /\ Len(<<e>>) = 1 /\ <<e>>[1] = e
  OBVIOUS
<1>2. /\ t \in Seq(R) /\ Len(t) = 1 + Len(s)
      /\ \A i \in 1..(1 + Len(s)) : t[i] = IF i <= 1 THEN <<e>>[i] ELSE s[i - 1]
  BY <1>1, ConcatProperties
<1>. HIDE DEF t
<1>3. ASSUME NEW i \in DOMAIN t
      PROVE  t[i] = e \/ \E j \in DOMAIN s : t[i] = s[j]
  <2>1. i \in 1..(1 + Len(s)) /\ Len(s) \in Nat /\ DOMAIN s = 1..Len(s)
    BY <1>2
  <2>2. CASE i = 1
    BY <1>1, <1>2, <2>1, <2>2
  <2>3. CASE i # 1
    <3>1. i - 1 \in DOMAIN s /\ t[i] = s[i - 1]
      BY <1>2, <2>1, <2>3
    <3>. QED
      BY <3>1
  <2>. QED
    BY <2>2, <2>3
<1>. QED
  BY <1>2, <1>3 DEF t

LEMMA GetIsFewer ==
  ASSUME IndexInv, NEW key
  PROVE  /\ GetCache(key) \in Seq(CacheEntries) /\ Len(GetCache(key)) <= CacheCapacity
         /\ \A i \in DOMAIN GetCache(key) : \E j \in DOMAIN cache : GetCache(key)[i] = cache[j]
<1>1. cache \in Seq(CacheEntries) /\ Len(cache) \in Nat /\ Len(cache) <= CacheCapacity /\ CacheCapacity \in Nat
  BY IndexTypes, SpatialAssumption
<1>2. CASE Hits(key) = {}
  BY <1>1, <1>2 DEF GetCache
<1>3. CASE Hits(key) # {} /\ ~Young(CacheEntry(key))
  <2>1. GetCache(key) = Without(key)
    BY <1>3 DEF GetCache
  <2>2. /\ Without(key) \in Seq(CacheEntries) /\ Len(Without(key)) = Len(cache) - 1
        /\ \A i \in DOMAIN Without(key) : \E j \in DOMAIN cache : Without(key)[i] = cache[j]
    BY <1>3, WithoutIsFewer
  <2>. QED
    BY <1>1, <2>1, <2>2
<1>4. CASE Hits(key) # {} /\ Young(CacheEntry(key))
  <2>. DEFINE e == CacheEntry(key)
  <2>1. GetCache(key) = <<e>> \o Without(key)
    BY <1>4 DEF GetCache
  <2>2. /\ Without(key) \in Seq(CacheEntries) /\ Len(Without(key)) = Len(cache) - 1
        /\ \A i \in DOMAIN Without(key) : \E j \in DOMAIN cache : Without(key)[i] = cache[j]
        /\ Slot(key) \in DOMAIN cache
    BY <1>4, WithoutIsFewer
  <2>3. e \in CacheEntries /\ \E j \in DOMAIN cache : e = cache[j]
    BY <1>1, <2>2 DEF CacheEntry
  <2>. HIDE DEF e
  <2>4. /\ GetCache(key) \in Seq(CacheEntries) /\ Len(GetCache(key)) = Len(Without(key)) + 1
        /\ \A i \in DOMAIN GetCache(key) :
             GetCache(key)[i] = e \/ \E j \in DOMAIN Without(key) : GetCache(key)[i] = Without(key)[j]
    BY <2>1, <2>2, <2>3, PutInFront
  <2>5. ASSUME NEW i \in DOMAIN GetCache(key)
        PROVE  \E j \in DOMAIN cache : GetCache(key)[i] = cache[j]
    <3>1. CASE GetCache(key)[i] = e
      BY <2>3, <3>1, Zenon
    <3>2. CASE \E j \in DOMAIN Without(key) : GetCache(key)[i] = Without(key)[j]
      BY <2>2, <3>2, Zenon
    <3>. QED
      BY <2>4, <3>1, <3>2, Zenon
  <2>. QED
    BY <1>1, <2>2, <2>4, <2>5
<1>. QED
  BY <1>2, <1>3, <1>4

\* A hit gives an entry with the key.
LEMMA HitTells ==
  ASSUME IndexInv, NEW key, Hits(key) # {}
  PROVE  /\ CacheEntry(key) \in CacheEntries /\ CacheEntry(key).at <= hour
         /\ \E centre \in Int :
              /\ KeyOf(centre) = key
              /\ Tells(CacheEntry(key).value, centre, CacheEntry(key).at, objects, left)
<1>1. Slot(key) \in DOMAIN cache /\ cache[Slot(key)].key = key
  BY WithoutIsFewer
<1>2. cache \in Seq(CacheEntries)
  BY IndexTypes
<1>3. cache[Slot(key)] \in CacheEntries
  BY <1>1, <1>2
<1>. QED
  BY <1>1, <1>3, Zenon DEF CacheEntry, IndexInv, CacheTells

\* The steps of queries, and the clock, leave the index as it is.
LEMMA IndexStays ==
  ASSUME IndexInv, UNCHANGED <<objects, tree, bloom, left>>, hour' \in 0..IndexHorizon,
         query' \in [Querier -> Queries],
         cache' \in Seq(CacheEntries), Len(cache') <= CacheCapacity, CacheTells', QueriesTell'
  PROVE  IndexInv'
<1>1. Sound(tree', objects') /\ Named(objects') /\ IsFiniteSet(objects')
  BY DEF IndexInv
<1>2. IndexTypeOK'
  <2>1. /\ objects' \subseteq Objects /\ bloom' \subseteq Object /\ left' \in [Object -> 0..IndexHorizon]
    BY IndexTypes
  <2>2. \A c \in DOMAIN tree' : tree'[c] \subseteq Objects /\ c.depth <= MaxDepth
    BY <1>1, <2>1, TreeTyped
  <2>. QED
    BY <2>1, <2>2, Zenon DEF IndexTypeOK
<1>. QED
  BY <1>1, <1>2, Zenon DEF IndexInv

LEMMA LookUpKeepsIndex ==
  ASSUME IndexInv, NEW q \in Querier, NEW centre \in Centre, LookUp(q, centre)
  PROVE  IndexInv'
<1>. DEFINE key == KeyOf(centre)
            hit == Hits(key) # {} /\ Young(CacheEntry(key))
            new == [step |-> IF hit THEN "answer" ELSE "search", centre |-> centre,
                    found |-> IF hit THEN CacheEntry(key).value ELSE {}]
<1>1. /\ cache' = GetCache(key) /\ query' = [query EXCEPT ![q] = new]
      /\ UNCHANGED <<hour, objects, tree, bloom, left>>
  BY Zenon DEF LookUp
<1>2. /\ hour \in 0..IndexHorizon /\ hour \in Nat /\ query \in [Querier -> Queries] /\ centre \in Int
  BY IndexTypes, SpatialAssumption
<1>3. new \in Queries /\ new.step # "store"
  <2>1. hit => CacheEntry(key).value \in SUBSET Objects
    BY HitTells DEF CacheEntries
  <2>. HIDE DEF hit, key
  <2>. QED
    BY <1>2, <2>1 DEF Queries
<1>. HIDE DEF new, key
<1>4. query' \in [Querier -> Queries]
  BY <1>1, <1>2, <1>3
<1>5. Follows
  BY <1>1, SameFollows
<1>6. cache' \in Seq(CacheEntries) /\ Len(cache') <= CacheCapacity /\ Fewer
  BY <1>1, GetIsFewer DEF Fewer
<1>7. CacheTells'
  BY <1>1, <1>2, <1>5, <1>6, CacheTellsStill
<1>8. QueriesTell'
  <2>. SUFFICES ASSUME NEW r \in Querier, query'[r].step = "store"
                PROVE  Tells(query'[r].found, query'[r].centre, hour', objects', left')
    BY Zenon DEF QueriesTell
  <2>1. r # q
    BY <1>1, <1>2, <1>3
  <2>2. query'[r] = query[r]
    BY <1>1, <1>2, <2>1
  <2>. QED
    BY <1>1, <2>2, Zenon DEF IndexInv, QueriesTell
<1>. QED
  BY <1>1, <1>2, <1>4, <1>6, <1>7, <1>8, IndexStays

\* The search of the tree finds what the map holds near the centre.
LEMMA SearchTells ==
  ASSUME IndexInv, NEW centre \in Int
  PROVE  SearchTree(centre) \in SUBSET objects /\ Tells(SearchTree(centre), centre, hour, objects, left)
<1>. DEFINE meets == {c \in DOMAIN tree : c.hi >= centre - Box /\ c.lo <= centre + Box}
            found == SearchTree(centre)
<1>1. found = {o \in UNION {tree[c] : c \in meets} :
                 DistanceTo(o, centre) <= Box /\ DistanceTo(o, centre) <= Radius}
  BY DEF SearchTree
<1>2. Box \in Nat /\ Radius \in Nat /\ World \in Nat /\ Box <= Radius
  BY SpatialAssumption
<1>3. /\ \A c \in DOMAIN tree : IsCell(c)
      /\ \A c \in DOMAIN tree : tree[c] = {o \in objects : o.pos \in -World..World /\ Leads(c, o.pos)}
      /\ \A pos \in -World..World : \E c \in DOMAIN tree : \A d \in DOMAIN tree : Leads(d, pos) <=> d = c
  BY Zenon DEF IndexInv, Sound, CellsAre, Holds, OneLeaf
<1>4. found \in SUBSET objects
  BY <1>1, <1>3
<1>5. ASSUME NEW o \in objects, o.pos \in -World..World, DistanceTo(o, centre) <= Box
      PROVE  o \in found
  <2>1. PICK c \in DOMAIN tree : Leads(c, o.pos)
    BY <1>3, <1>5, Zenon
  <2>2. o \in tree[c]
    BY <1>3, <1>5, <2>1
  <2>3. /\ o.pos \in Int /\ c.lo \in Int /\ c.hi \in Int
        /\ c.lo <= o.pos /\ o.pos <= c.hi
    BY <1>2, <1>3, <1>5, <2>1 DEF IsCell, Leads
  <2>4. centre - Box <= o.pos /\ o.pos <= centre + Box /\ DistanceTo(o, centre) <= Radius
    BY <1>2, <1>5, <2>3 DEF DistanceTo
  <2>5. c \in meets
    BY <1>2, <2>3, <2>4
  <2>. QED
    BY <1>1, <1>5, <2>2, <2>4, <2>5
<1>6. \A o \in found : DistanceTo(o, centre) <= Radius
  BY <1>1
<1>. HIDE DEF found
<1>7. Complete(found, centre, hour, objects)
  BY <1>5, Zenon DEF Complete
<1>8. Current(found, hour, objects, left)
  BY <1>4 DEF Current
<1>9. NearCentre(found, centre)
  BY <1>6, Zenon DEF NearCentre
<1>. QED
  BY <1>4, <1>7, <1>8, <1>9, Zenon DEF Tells, found

LEMMA SearchKeepsIndex ==
  ASSUME IndexInv, NEW q \in Querier, Search(q)
  PROVE  IndexInv'
<1>. DEFINE found == SearchTree(query[q].centre)
<1>1. /\ query' = [query EXCEPT ![q].step = "store", ![q].found = found]
      /\ UNCHANGED <<hour, objects, tree, bloom, cache, left>>
  BY DEF Search
<1>2. /\ hour \in 0..IndexHorizon /\ hour \in Nat /\ query \in [Querier -> Queries]
      /\ objects \subseteq Objects /\ cache \in Seq(CacheEntries) /\ Len(cache) <= CacheCapacity
  BY IndexTypes
<1>3. query[q].centre \in Int
  BY <1>2 DEF Queries
<1>4. found \in SUBSET objects /\ Tells(found, query[q].centre, hour, objects, left)
  BY <1>3, SearchTells
<1>. HIDE DEF found
<1>5. /\ query' \in [Querier -> Queries]
      /\ query'[q].found = found /\ query'[q].centre = query[q].centre
      /\ \A r \in Querier \ {q} : query'[r] = query[r]
  BY <1>1, <1>2, <1>4 DEF Queries
<1>6. Follows
  BY <1>1, SameFollows
<1>7. CacheTells'
  BY <1>1, Zenon DEF IndexInv, CacheTells, KeyOf
<1>8. QueriesTell'
  BY <1>1, <1>4, <1>5, Zenon DEF IndexInv, QueriesTell
<1>. QED
  BY <1>1, <1>2, <1>5, <1>7, <1>8, IndexStays

LEMMA StoreKeepsIndex ==
  ASSUME IndexInv, NEW q \in Querier, Store(q)
  PROVE  IndexInv'
<1>. DEFINE key == KeyOf(query[q].centre)
            e   == [key |-> key, value |-> query[q].found, at |-> hour]
            new == <<e>> \o Without(key)
<1>1. /\ query[q].step = "store" /\ cache' = SetCache(key, query[q].found)
      /\ query' = [query EXCEPT ![q].step = "answer"]
      /\ UNCHANGED <<hour, objects, tree, bloom, left>>
  BY DEF Store
<1>2. /\ hour \in 0..IndexHorizon /\ hour \in Nat /\ query \in [Querier -> Queries]
      /\ cache \in Seq(CacheEntries) /\ Len(cache) <= CacheCapacity /\ Len(cache) \in Nat
  BY IndexTypes
<1>3. query[q].centre \in Int /\ query[q].found \in SUBSET Objects
  BY <1>2 DEF Queries
<1>4. Rounding \in Nat \ {0} /\ CacheCapacity \in Nat \ {0}
  BY SpatialAssumption
<1>5. e \in CacheEntries /\ e.at = hour /\ e.key = key /\ e.value = query[q].found
  <2>1. key \in Int
    BY <1>3, <1>4 DEF KeyOf
  <2>. HIDE DEF key
  <2>. QED
    BY <1>2, <1>3, <2>1 DEF CacheEntries
<1>6. cache' = IF Len(new) > CacheCapacity THEN SubSeq(new, 1, CacheCapacity) ELSE new
  BY <1>1, Zenon DEF SetCache
<1>. HIDE DEF e
<1>7. /\ new \in Seq(CacheEntries) /\ Len(new) \in Nat
      /\ \A i \in DOMAIN new : new[i] = e \/ \E j \in DOMAIN cache : new[i] = cache[j]
  <2>1. /\ Without(key) \in Seq(CacheEntries)
        /\ \A i \in DOMAIN Without(key) : \E j \in DOMAIN cache : Without(key)[i] = cache[j]
    BY WithoutIsFewer
  <2>2. /\ new \in Seq(CacheEntries)
        /\ \A i \in DOMAIN new : new[i] = e \/ \E j \in DOMAIN Without(key) : new[i] = Without(key)[j]
    BY <1>5, <2>1, PutInFront
  <2>. HIDE DEF new
  <2>3. \A i \in DOMAIN new : new[i] = e \/ \E j \in DOMAIN cache : new[i] = cache[j]
    BY <2>1, <2>2, Zenon
  <2>. QED
    BY <2>2, <2>3
<1>. HIDE DEF new, key
<1>8. /\ cache' \in Seq(CacheEntries) /\ Len(cache') <= CacheCapacity
      /\ \A i \in DOMAIN cache' : cache'[i] = e \/ \E j \in DOMAIN cache : cache'[i] = cache[j]
  <2>1. CASE Len(new) > CacheCapacity
    <3>1. /\ cache' \in Seq(CacheEntries) /\ Len(cache') = CacheCapacity
          /\ \A i \in 1..CacheCapacity : cache'[i] = new[i] /\ i \in DOMAIN new
      BY <1>4, <1>6, <1>7, <2>1
    <3>2. DOMAIN cache' = 1..CacheCapacity
      BY <3>1
    <3>3. \A i \in DOMAIN cache' : cache'[i] = e \/ \E j \in DOMAIN cache : cache'[i] = cache[j]
      BY <1>7, <3>1, <3>2, Zenon
    <3>. QED
      BY <1>4, <3>1, <3>3
  <2>2. CASE ~(Len(new) > CacheCapacity)
    BY <1>4, <1>6, <1>7, <2>2
  <2>. QED
    BY <2>1, <2>2
<1>9. /\ query' \in [Querier -> Queries] /\ query'[q].step = "answer"
      /\ \A r \in Querier \ {q} : query'[r] = query[r]
  BY <1>1, <1>2 DEF Queries
<1>10. Tells(query[q].found, query[q].centre, hour, objects, left)
  BY <1>1, Zenon DEF IndexInv, QueriesTell
<1>11. CacheTells'
  <2>. SUFFICES ASSUME NEW i \in DOMAIN cache'
                PROVE  /\ cache'[i].at <= hour
                       /\ \E centre \in Int : /\ KeyOf(centre) = cache'[i].key
                                              /\ Tells(cache'[i].value, centre, cache'[i].at, objects, left)
    BY <1>1, Zenon DEF CacheTells
  <2>1. CASE cache'[i] = e
    <3>1. hour <= hour
      BY <1>2
    <3>. QED
      BY <1>3, <1>5, <1>10, <2>1, <3>1, Zenon DEF key
  <2>2. CASE \E j \in DOMAIN cache : cache'[i] = cache[j]
    BY <2>2, Zenon DEF IndexInv, CacheTells
  <2>. QED
    BY <1>8, <2>1, <2>2, Zenon
<1>12. QueriesTell'
  <2>. SUFFICES ASSUME NEW r \in Querier, query'[r].step = "store"
                PROVE  Tells(query'[r].found, query'[r].centre, hour, objects, left)
    BY <1>1, Zenon DEF QueriesTell
  <2>1. r \in Querier \ {q}
    BY <1>9
  <2>2. query'[r] = query[r]
    BY <1>9, <2>1
  <2>. QED
    BY <2>2, Zenon DEF IndexInv, QueriesTell
<1>. QED
  BY <1>1, <1>2, <1>8, <1>9, <1>11, <1>12, IndexStays

LEMMA AnsweredKeepsIndex ==
  ASSUME IndexInv, NEW q \in Querier, Answered(q)
  PROVE  IndexInv'
<1>1. query' = [query EXCEPT ![q] = Idle] /\ UNCHANGED <<hour, objects, tree, bloom, cache, left>>
  BY DEF Answered
<1>2. /\ hour \in 0..IndexHorizon /\ query \in [Querier -> Queries]
      /\ cache \in Seq(CacheEntries) /\ Len(cache) <= CacheCapacity
  BY IndexTypes
<1>3. Idle \in Queries /\ Idle.step = "idle"
  BY DEF Idle, Queries
<1>4. /\ query' \in [Querier -> Queries] /\ query'[q].step = "idle"
      /\ \A r \in Querier \ {q} : query'[r] = query[r]
  BY <1>1, <1>2, <1>3
<1>5. CacheTells'
  BY <1>1, Zenon DEF IndexInv, CacheTells, KeyOf
<1>6. QueriesTell'
  <2>. SUFFICES ASSUME NEW r \in Querier, query'[r].step = "store"
                PROVE  Tells(query'[r].found, query'[r].centre, hour, objects, left)
    BY <1>1, Zenon DEF QueriesTell
  <2>1. r \in Querier \ {q}
    BY <1>4
  <2>2. query'[r] = query[r]
    BY <1>4, <2>1
  <2>. QED
    BY <2>2, Zenon DEF IndexInv, QueriesTell
<1>. QED
  BY <1>1, <1>2, <1>4, <1>5, <1>6, IndexStays

LEMMA PassTimeKeepsIndex ==
  ASSUME IndexInv, PassTime
  PROVE  IndexInv'
<1>1. /\ hour < IndexHorizon /\ \A q \in Querier : query[q] = Idle
      /\ hour' = hour + 1 /\ UNCHANGED <<objects, tree, bloom, cache, query, left>>
  BY DEF PassTime
<1>2. /\ IndexHorizon \in Nat /\ hour \in 0..IndexHorizon /\ query \in [Querier -> Queries]
      /\ cache \in Seq(CacheEntries) /\ Len(cache) <= CacheCapacity
  BY IndexTypes
<1>3. hour' \in 0..IndexHorizon /\ hour' \in Nat /\ hour <= hour'
  BY <1>1, <1>2
<1>4. CacheTells'
  <2>1. Follows
    BY <1>1, SameFollows
  <2>2. Fewer
    BY <1>1 DEF Fewer
  <2>. QED
    BY <1>3, <2>1, <2>2, CacheTellsStill
<1>5. QueriesTell'
  BY <1>1 DEF QueriesTell, Idle
<1>. QED
  BY <1>1, <1>2, <1>3, <1>4, <1>5, IndexStays

LEMMA IndexStep ==
  ASSUME IndexInv, [IndexNext]_indexVars
  PROVE  IndexInv'
<1>1. CASE UNCHANGED indexVars
  <2>1. UNCHANGED <<hour, objects, tree, bloom, cache, query, left>>
    BY <1>1 DEF indexVars
  <2>2. CacheTells'
    BY <2>1, Zenon DEF IndexInv, CacheTells, KeyOf
  <2>3. QueriesTell'
    BY <2>1, Zenon DEF IndexInv, QueriesTell
  <2>. QED
    BY <2>1, <2>2, <2>3, IndexTypes, IndexStays
<1>. QED
  BY <1>1, InsertKeepsIndex, RemoveKeepsIndex, CleanKeepsIndex, LookUpKeepsIndex, SearchKeepsIndex,
     StoreKeepsIndex, AnsweredKeepsIndex, PassTimeKeepsIndex, Zenon DEF IndexNext

LEMMA IndexStart == IndexInit => IndexInv
<1>. SUFFICES ASSUME IndexInit
              PROVE  IndexInv
  OBVIOUS
<1>1. /\ hour = 0 /\ objects = {} /\ tree = EmptyTree /\ bloom = {} /\ cache = <<>>
      /\ query = [q \in Querier |-> Idle] /\ left = [id \in Object |-> 0]
  BY DEF IndexInit
<1>2. IndexHorizon \in Nat /\ CacheCapacity \in Nat
  BY SpatialAssumption
<1>3. Sound(tree, objects)
  BY <1>1, EmptyIsSound
<1>4. Idle \in Queries /\ Idle.step = "idle"
  BY DEF Idle, Queries
<1>5. IndexTypeOK
  <2>1. \A c \in DOMAIN tree : tree[c] \subseteq Objects /\ c.depth <= MaxDepth
    BY <1>1, <1>3, TreeTyped
  <2>2. query \in [Querier -> Queries]
    BY <1>1, <1>4
  <2>. QED
    BY <1>1, <1>2, <2>1, <2>2 DEF IndexTypeOK
<1>6. QueriesTell
  BY <1>1, <1>4 DEF QueriesTell
<1>7. CacheTells
  BY <1>1 DEF CacheTells
<1>8. IsFiniteSet(objects) /\ Named(objects)
  BY <1>1, FS_EmptySet DEF Named
<1>. QED
  BY <1>3, <1>5, <1>6, <1>7, <1>8 DEF IndexInv

LEMMA AlwaysIndexInv == IndexSpec => []IndexInv
BY IndexStart, IndexStep, PTL DEF IndexSpec

\* Where the centres of one key lie: it is the quotient of the sizes with the sign of the
\* centre.
LEMMA CentresOfKey ==
  ASSUME NEW c \in Int
  PROVE  /\ Rounding \in Nat \ {0} /\ KeyOf(c) \in Int
         /\ KeyOf(c) > 0 => Rounding * KeyOf(c) <= c /\ c < Rounding * KeyOf(c) + Rounding
         /\ KeyOf(c) < 0 => Rounding * KeyOf(c) >= c /\ c > Rounding * KeyOf(c) - Rounding
         /\ KeyOf(c) = 0 => -Rounding < c /\ c < Rounding
<1>1. Rounding \in Nat \ {0}
  BY SpatialAssumption
<1>2. CASE c >= 0
  <2>. DEFINE k == c \div Rounding
  <2>1. KeyOf(c) = k /\ k \in Int /\ k >= 0 /\ Rounding * k <= c /\ c < Rounding * k + Rounding
    BY <1>1, <1>2 DEF KeyOf
  <2>. HIDE DEF k
  <2>. QED
    BY <1>1, <1>2, <2>1
<1>3. CASE c < 0
  <2>. DEFINE m == -c
              k == m \div Rounding
  <2>1. m \in Nat /\ c = -m
    BY <1>3
  <2>2. KeyOf(c) = -k
    BY <1>3 DEF KeyOf
  <2>. HIDE DEF m
  <2>3. k \in Int /\ k >= 0 /\ Rounding * k <= m /\ m < Rounding * k + Rounding
    BY <1>1, <2>1
  <2>. HIDE DEF k
  <2>4. Rounding * (-k) = -(Rounding * k) /\ Rounding * k \in Int
    BY <1>1, <2>3
  <2>. QED
    BY <1>1, <1>3, <2>1, <2>2, <2>3, <2>4
<1>. QED
  BY <1>2, <1>3

\* Centres that share a cache entry are at most the slack apart.
LEMMA SharedKey ==
  ASSUME NEW c \in Int, NEW d \in Int, KeyOf(c) = KeyOf(d)
  PROVE  c - d <= Slack(d) /\ d - c <= Slack(d) /\ Slack(d) \in Int
<1>. DEFINE k == KeyOf(d)
            at == Rounding * k
<1>1. /\ Rounding \in Nat \ {0} /\ k \in Int
      /\ k > 0 => at <= c /\ c < at + Rounding /\ at <= d /\ d < at + Rounding
      /\ k < 0 => at >= c /\ c > at - Rounding /\ at >= d /\ d > at - Rounding
      /\ k = 0 => -Rounding < c /\ c < Rounding /\ -Rounding < d /\ d < Rounding
  BY CentresOfKey
<1>2. Slack(d) = IF k = 0 THEN 2 * Rounding - 2 ELSE Rounding - 1
  BY DEF Slack
<1>3. at \in Int
  BY <1>1
<1>. HIDE DEF k, at
<1>. QED
  BY <1>1, <1>2, <1>3

\* What holds of an answer, from what is known of it.
Settled(answer) ==
  /\ \A o \in objects :
       /\ o.at < hour - CacheTTL /\ o.pos \in -World..World
       /\ DistanceTo(o, answer.centre) <= Box - Slack(answer.centre)
       => o \in answer.found
  /\ \A o \in answer.found :
       /\ DistanceTo(o, answer.centre) <= Radius + Slack(answer.centre)
       /\ Old(o.id) # {} \/ left[o.id] >= hour - CacheTTL

LEMMA ToldIsSettled ==
  ASSUME IndexInv, NEW answer, answer.centre \in Int, answer.found \in SUBSET Objects,
         NEW centre \in Int, KeyOf(centre) = KeyOf(answer.centre),
         NEW time \in Nat, hour - CacheTTL <= time,
         Tells(answer.found, centre, time, objects, left)
  PROVE  Settled(answer)
<1>1. /\ hour \in Nat /\ objects \subseteq Objects
  BY IndexTypes
<1>2. /\ CacheTTL \in Nat /\ Box \in Nat /\ Radius \in Nat /\ Rounding \in Nat
      /\ Position \subseteq Int /\ IndexHorizon \in Nat
  BY SpatialAssumption
<1>3. /\ centre - answer.centre <= Slack(answer.centre)
      /\ answer.centre - centre <= Slack(answer.centre) /\ Slack(answer.centre) \in Int
  BY SharedKey
<1>4. ASSUME NEW o \in Objects
      PROVE  o.pos \in Int /\ o.at \in Nat
  <2>1. o.pos \in Position /\ o.at \in 0..IndexHorizon
    BY DEF Objects
  <2>2. o.pos \in Int
    BY <1>2, <2>1, Zenon
  <2>3. o.at \in Nat
    BY <1>2, <2>1
  <2>. QED
    BY <2>2, <2>3
<1>5. ASSUME NEW o \in objects, o.at < hour - CacheTTL, o.pos \in -World..World,
             DistanceTo(o, answer.centre) <= Box - Slack(answer.centre)
      PROVE  o \in answer.found
  <2>1. o.at < time
    BY <1>1, <1>2, <1>4, <1>5
  <2>2. DistanceTo(o, centre) <= Box
    BY <1>1, <1>2, <1>3, <1>4, <1>5 DEF DistanceTo
  <2>. QED
    BY <1>5, <2>1, <2>2 DEF Tells, Complete
<1>6. ASSUME NEW o \in answer.found
      PROVE  DistanceTo(o, answer.centre) <= Radius + Slack(answer.centre)
  <2>1. DistanceTo(o, centre) <= Radius /\ o.pos \in Int
    BY <1>4 DEF Tells, NearCentre
  <2>. QED
    BY <1>2, <1>3, <2>1 DEF DistanceTo
<1>7. ASSUME NEW o \in answer.found
      PROVE  Old(o.id) # {} \/ left[o.id] >= hour - CacheTTL
  <2>1. CASE \E p \in objects : p.id = o.id
    BY <2>1 DEF Old
  <2>2. CASE left[o.id] >= time
    <3>1. left[o.id] \in Nat
      <4>1. left \in [Object -> 0..IndexHorizon] /\ o.id \in Object
        BY IndexTypes DEF Objects
      <4>. QED
        BY <1>2, <4>1
    <3>. QED
      BY <1>1, <1>2, <2>2, <3>1
  <2>. QED
    BY <2>1, <2>2 DEF Tells, Current
<1>. QED
  BY <1>5, <1>6, <1>7, Zenon DEF Settled

LEMMA AnswersAreSettled ==
  ASSUME IndexInv, [IndexNext]_indexVars,
         NEW q \in Querier, query[q].step # "answer", query'[q].step = "answer"
  PROVE  Settled(query'[q])
<1>1. /\ query \in [Querier -> Queries] /\ hour \in Nat /\ IndexHorizon \in Nat
  BY IndexTypes
<1>2. ASSUME NEW r \in Querier, NEW centre \in Centre, LookUp(r, centre)
      PROVE  Settled(query'[q])
  <2>. DEFINE key == KeyOf(centre)
              hit == Hits(key) # {} /\ Young(CacheEntry(key))
              new == [step |-> IF hit THEN "answer" ELSE "search", centre |-> centre,
                      found |-> IF hit THEN CacheEntry(key).value ELSE {}]
  <2>1. query' = [query EXCEPT ![r] = new]
    BY <1>2, Zenon DEF LookUp
  <2>2. r = q
    BY <1>1, <2>1
  <2>3. query'[q] = new
    BY <1>1, <2>1, <2>2
  <2>4. hit
    BY <2>3
  <2>. HIDE DEF key
  <2>5. query'[q].centre = centre /\ query'[q].found = CacheEntry(key).value
    BY <2>3, <2>4
  <2>6. /\ CacheEntry(key) \in CacheEntries
        /\ \E c \in Int : /\ KeyOf(c) = key
                          /\ Tells(CacheEntry(key).value, c, CacheEntry(key).at, objects, left)
    BY <2>4, HitTells
  <2>7. PICK c \in Int : /\ KeyOf(c) = key
                         /\ Tells(CacheEntry(key).value, c, CacheEntry(key).at, objects, left)
    BY <2>6
  <2>8. CacheEntry(key).at \in Nat /\ CacheEntry(key).value \in SUBSET Objects
    BY <1>1, <2>6 DEF CacheEntries
  <2>9. hour - CacheTTL <= CacheEntry(key).at
    <3>1. hour - CacheEntry(key).at <= CacheTTL /\ CacheTTL \in Nat
      BY <2>4, SpatialAssumption DEF Young
    <3>. QED
      BY <1>1, <2>8, <3>1
  <2>10. centre \in Int
    BY SpatialAssumption
  <2>11. KeyOf(c) = KeyOf(query'[q].centre)
    BY <2>5, <2>7, Zenon DEF key
  <2>. HIDE DEF new, hit
  <2>. QED
    BY <2>5, <2>7, <2>8, <2>9, <2>10, <2>11, ToldIsSettled
<1>3. ASSUME NEW r \in Querier, Store(r)
      PROVE  Settled(query'[q])
  <2>1. query[r].step = "store" /\ query' = [query EXCEPT ![r].step = "answer"]
    BY <1>3 DEF Store
  <2>2. r = q
    BY <1>1, <2>1
  <2>3. query'[q].centre = query[q].centre /\ query'[q].found = query[q].found
    BY <1>1, <2>1, <2>2 DEF Queries
  <2>4. query[q].centre \in Int /\ query[q].found \in SUBSET Objects
    BY <1>1 DEF Queries
  <2>5. Tells(query[q].found, query[q].centre, hour, objects, left)
    BY <2>1, <2>2 DEF IndexInv, QueriesTell
  <2>6. hour - CacheTTL <= hour
    BY <1>1, SpatialAssumption
  <2>. QED
    BY <1>1, <2>3, <2>4, <2>5, <2>6, ToldIsSettled
<1>4. ASSUME NEW r \in Querier, Search(r)
      PROVE  FALSE
  <2>1. query' = [query EXCEPT ![r].step = "store", ![r].found = SearchTree(query[r].centre)]
    BY <1>4 DEF Search
  <2>2. query'[q].step = query[q].step \/ query'[q].step = "store"
    BY <1>1, <2>1 DEF Queries
  <2>. QED
    BY <2>2
<1>5. ASSUME NEW r \in Querier, Answered(r)
      PROVE  FALSE
  BY <1>1, <1>5 DEF Answered, Idle
<1>6. CASE UNCHANGED query
  BY <1>6
<1>7. ASSUME IndexNext
      PROVE  \/ \E r \in Querier, centre \in Centre : LookUp(r, centre)
             \/ \E r \in Querier : Search(r) \/ Store(r) \/ Answered(r)
             \/ UNCHANGED query
  BY <1>7 DEF IndexNext, InsertObject, RemoveObject, CleanIndex, PassTime
<1>8. CASE IndexNext
  BY <1>2, <1>3, <1>4, <1>5, <1>6, <1>7, <1>8, Zenon
<1>. QED
  BY <1>6, <1>8 DEF indexVars

\* The objects, the leaves, the cache and the queries keep their types, for any number of
\* objects and queriers: the LRU list never holds more than its capacity.
THEOREM IndexTypeCorrect == IndexSpec => []IndexTypeOK
<1>1. IndexInv => IndexTypeOK
  BY DEF IndexInv
<1>. QED
  BY <1>1, AlwaysIndexInv, PTL

\* For any world, capacity, depth and size of nodes, and whatever objects come, move, leave
\* and are cleaned in whatever order, the leaves share out the world and hold the map
\* (QuadTree.Update, Remove, Clean, split and rebuild).
THEOREM TreesHoldMaps == IndexSpec => []TreeHoldsMap
<1>1. IndexInv => TreeHoldsMap
  BY Zenon DEF IndexInv, Sound, OneLeaf, Holds, TreeHoldsMap
<1>. QED
  BY <1>1, AlwaysIndexInv, PTL

\* However queries interleave with updates, an answer is out of date by no more than the TTL
\* of the cache, and off by no more than the rounding of its keys, which is twice as much
\* around zero (SpatialIndex.QueryRadius, GeoCache.radiusKey, LRUCache.Get, Set and Clean).
THEOREM AnswersDoSettle == IndexSpec => AnswersSettle
<1>1. IndexInv /\ [IndexNext]_indexVars =>
        [\A q \in Querier : query[q].step # "answer" /\ query'[q].step = "answer" =>
           Settled(query'[q])]_indexVars
  BY AnswersAreSettled
<1>2. IndexSpec =>
        [][\A q \in Querier : query[q].step # "answer" /\ query'[q].step = "answer" =>
             Settled(query'[q])]_indexVars
  BY <1>1, AlwaysIndexInv, PTL DEF IndexSpec
<1>. QED
  BY <1>2 DEF AnswersSettle, Settled


-----------------------------------------------------------------------------
(***************************************************************************)
(* What MCParts checks, for any constants.  Its steps are the steps of one  *)
(* component at a time, and what is proved of a component holds there.      *)
(***************************************************************************)

\* A step of MCParts is, for each component, one of its steps or a stutter.
PartsStep ==
  /\ [PilotNext]_pilotVars /\ [ObjectNext]_objectVars /\ [CoverNext]_asked
  /\ [ParserNext]_parserVars /\ [FilterNext]_filterVars /\ [IndexNext]_indexVars
  /\ [TokenNext]_tokenVars /\ [AdaptiveNext]_adaptiveVars /\ [VisibilityNext]_visibilityVars
  /\ [LifecycleNext]_lifecycleVars /\ part' = part

LEMMA PartsStepTaken ==
  ASSUME [PartsNext]_partsVars
  PROVE  PartsStep
<1>. USE DEF PartsStep, storeVars, pathVars, queryVars, userVars
<1>1. CASE PilotsMove
  BY <1>1 DEF PilotsMove
<1>2. CASE ObjectsMove
  BY <1>2 DEF ObjectsMove
<1>3. CASE CoverMoves
  BY <1>3 DEF CoverMoves
<1>4. CASE ParserMoves
  BY <1>4 DEF ParserMoves
<1>5. CASE FilterMoves
  BY <1>5 DEF FilterMoves
<1>6. CASE IndexMoves
  BY <1>6 DEF IndexMoves
<1>7. CASE TokensMove
  BY <1>7 DEF TokensMove
<1>8. CASE SchedulerMoves
  BY <1>8 DEF SchedulerMoves
<1>9. CASE BoundariesMove
  BY <1>9 DEF BoundariesMove
<1>10. CASE ProcessMoves
  BY <1>10 DEF ProcessMoves
<1>11. CASE UNCHANGED partsVars
  BY <1>11 DEF partsVars
<1>. QED
  BY <1>1, <1>2, <1>3, <1>4, <1>5, <1>6, <1>7, <1>8, <1>9, <1>10, <1>11, Zenon DEF PartsNext

\* A behaviour of MCParts is one of each component: what is proved of a component holds in
\* the run that checks them side by side, and for any of its constants.
THEOREM PartsAreComponents ==
  PartsSpec => /\ PilotSpec /\ ObjectSpec /\ CoverSpec /\ ParserSpec /\ FilterSpec
               /\ IndexSpec /\ TokenSpec /\ AdaptiveSpec /\ VisibilitySpec /\ LifecycleSpec
<1>1. PartsInit => /\ PilotInit /\ ObjectInit /\ CoverInit /\ ParserInit /\ FilterInit
                   /\ IndexInit /\ TokenInit /\ AdaptiveInit /\ VisibilityInit /\ LifecycleInit
  BY Zenon DEF PartsInit
<1>2. [PartsNext]_partsVars =>
        /\ [PilotNext]_pilotVars /\ [ObjectNext]_objectVars /\ [CoverNext]_asked
        /\ [ParserNext]_parserVars /\ [FilterNext]_filterVars /\ [IndexNext]_indexVars
        /\ [TokenNext]_tokenVars /\ [AdaptiveNext]_adaptiveVars
        /\ [VisibilityNext]_visibilityVars /\ [LifecycleNext]_lifecycleVars
  BY PartsStepTaken, Zenon DEF PartsStep
<1>. QED
  BY <1>1, <1>2, PTL
  DEF PartsSpec, PilotSpec, ObjectSpec, CoverSpec, ParserSpec, FilterSpec, IndexSpec, TokenSpec,
      AdaptiveSpec, VisibilitySpec, LifecycleSpec

\* The component that moves is one of them, and its variables have their types.
THEOREM PartsTypesHold == PartsSpec => []PartsTypeOK
<1>. DEFINE KnownPart ==
             part \in {"pilots", "objects", "cover", "parser", "filter", "index", "token",
                       "adaptive", "visibility", "lifecycle"}
<1>1. PartsInit => KnownPart
  BY Zenon DEF PartsInit
<1>2. KnownPart /\ [PartsNext]_partsVars => KnownPart'
  BY PartsStepTaken, Zenon DEF PartsStep
<1>3. /\ KnownPart
      /\ PilotTypeOK /\ ObjectTypeOK /\ CoverTypeOK /\ ParserTypeOK /\ FilterTypeOK
      /\ IndexTypeOK /\ TokenTypeOK /\ AdaptiveTypeOK /\ VisibilityTypeOK /\ LifecycleTypeOK
      => PartsTypeOK
  BY DEF PartsTypeOK
<1>. HIDE DEF KnownPart
<1>4. PartsSpec => []KnownPart
  BY <1>1, <1>2, PTL DEF PartsSpec
<1>. QED
  BY <1>3, <1>4, PartsAreComponents, PilotTypeCorrect, ObjectTypeCorrect, CoverTypeCorrect,
     ParserTypeCorrect, FilterTypeCorrect, IndexTypeCorrect, TokenTypeCorrect,
     AdaptiveTypeCorrect, VisibilityTypeCorrect, LifecycleTypeCorrect, PTL
=============================================================================
