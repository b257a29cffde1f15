------------------------------ MODULE Adaptive ------------------------------
(***************************************************************************)
(* internal/handler/adaptive.go: the timers of AdaptiveScheduler for one    *)
(* client, whose callbacks signal the client, which answers with new        *)
(* metrics, which may move the timer.                                      *)
(*                                                                         *)
(* A callback runs in a goroutine of its own: it has started when its timer *)
(* is out, and takes the lock of the scheduler some time later.  Time is in *)
(* steps of 100 ms, and scores are in tenths.                              *)
(***************************************************************************)
EXTENDS Integers, FiniteSets

CONSTANTS
  Score,                     \* what calculateActivityScore may give
  MinInterval, MaxInterval,  \* minInterval, maxInterval
  Timer                      \* time.Timers: a bound on those armed or calling back

ASSUME AdaptiveAssumption ==
  /\ Score \subseteq 0..10
  /\ MinInterval \in Nat \ {0} /\ MaxInterval \in Nat /\ MinInterval <= MaxInterval
  /\ Timer # {}

VARIABLES
  timers,     \* each timer: "off", "armed" with steps to go, or "running" its callback
  schedule,   \* the entry of the client in the map of clients
  registered, \* whether the client is in the map
  gone,       \* whether it has left
  signal      \* whether updateSignal, of capacity 1, is full

adaptiveVars == <<timers, schedule, registered, gone, signal>>

-----------------------------------------------------------------------------

\* calculateInterval.
IntervalFromMax(score) == MinInterval + ((10 - score) * (10 - score) * MaxInterval) \div 100
Interval(score) ==
  MinInterval + ((10 - score) * (10 - score) * (MaxInterval - MinInterval)) \div 100

\* The moving average of UpdateMetrics.
Smoothed(old, new) == (7 * old + 3 * new) \div 10

Magnitude(x) == IF x < 0 THEN -x ELSE x
Differs(new, old) == 5 * Magnitude(new - old) > old

Off        == [state |-> "off", steps |-> 0]
Running    == [state |-> "running", steps |-> 0]
After(n)   == [state |-> "armed", steps |-> n]
Armed      == {t \in Timer : timers[t].state = "armed"}
Free       == {t \in Timer : timers[t] = Off}

\* Stop does nothing to a timer that has fired.
Stopped(t) == IF t \in Armed THEN [timers EXCEPT ![t] = Off] ELSE timers

AdaptiveInit ==
  /\ timers     = [t \in Timer |-> Off]
  /\ schedule   = [interval |-> 0, score |-> 0, next |-> 0, timer |-> CHOOSE t \in Timer : TRUE]
  /\ registered = FALSE
  /\ gone       = FALSE
  /\ signal     = FALSE

RegisterClient(score) ==
  /\ ~registered /\ ~gone
  /\ \E t \in Free :
       /\ schedule' = [interval |-> Interval(score), score |-> score,
                       next |-> Interval(score), timer |-> t]
       /\ timers'   = [timers EXCEPT ![t] = After(Interval(score))]
  /\ registered' = TRUE
  /\ UNCHANGED <<gone, signal>>

UnregisterClient ==
  /\ registered
  /\ timers'     = Stopped(schedule.timer)
  /\ registered' = FALSE
  /\ gone'       = TRUE
  /\ UNCHANGED <<schedule, signal>>

Fire(t) ==
  /\ timers[t] = After(0)
  /\ timers' = [timers EXCEPT ![t] = Running]
  /\ UNCHANGED <<schedule, registered, gone, signal>>

\* triggerUpdate, the callback of a timer.
TriggerSignal(t) ==
  /\ timers[t] = Running
  /\ timers' = [timers EXCEPT ![t] = Off] /\ signal' = TRUE
  /\ UNCHANGED <<schedule, registered, gone>>
TriggerAlways(t) ==
  /\ timers[t] = Running
  /\ \E n \in Free \cup {t} :
       /\ schedule' = [schedule EXCEPT !.next = schedule.interval, !.timer = n]
       /\ timers'   = [timers EXCEPT ![t] = Off, ![n] = After(schedule.interval)]
  /\ signal' = TRUE
  /\ UNCHANGED <<registered, gone>>
TriggerUpdate(t) ==
  /\ timers[t] = Running
  /\ IF ~registered
     THEN timers' = [timers EXCEPT ![t] = Off] /\ UNCHANGED <<schedule, signal>>
     ELSE /\ \E n \in Free \cup {t} :
               /\ schedule' = [schedule EXCEPT !.next = schedule.interval, !.timer = n]
               /\ timers'   = [timers EXCEPT ![t] = Off, ![n] = After(schedule.interval)]
          /\ signal' = TRUE
  /\ UNCHANGED <<registered, gone>>

\* handleAdaptiveUpdate of the client's writePump, and UpdateMetrics.
UpdateMetrics(score) ==
  LET smooth == Smoothed(schedule.score, score)
      new    == Interval(smooth)
      until  == IF schedule.next < 0 \/ schedule.next > new THEN new ELSE schedule.next
  IN  /\ signal
      /\ signal' = FALSE
      /\ IF ~registered THEN UNCHANGED <<timers, schedule>>
         ELSE IF ~Differs(new, schedule.interval)
         THEN schedule' = [schedule EXCEPT !.score = smooth] /\ UNCHANGED timers
         ELSE \E n \in Free :
                /\ schedule' = [interval |-> new, score |-> smooth, next |-> until, timer |-> n]
                /\ timers'   = [Stopped(schedule.timer) EXCEPT ![n] = After(until)]
      /\ UNCHANGED <<registered, gone>>

\* Timers fire on time; their callbacks may be late.
PassStep ==
  /\ \A t \in Armed : timers[t].steps > 0
  /\ timers'   = [t \in Timer |-> IF t \in Armed THEN After(timers[t].steps - 1) ELSE timers[t]]
  /\ schedule' = [schedule EXCEPT !.next = IF @ < 0 THEN @ ELSE @ - 1]
  /\ UNCHANGED <<registered, gone, signal>>

AdaptiveNext ==
  \/ \E score \in Score : RegisterClient(score) \/ UpdateMetrics(score)
  \/ UnregisterClient
  \/ \E t \in Timer : Fire(t) \/ TriggerUpdate(t)
  \/ PassStep

AdaptiveSpec == AdaptiveInit /\ [][AdaptiveNext]_adaptiveVars

-----------------------------------------------------------------------------
(* Properties.                                                              *)

AdaptiveTypeOK ==
  /\ timers \in [Timer -> [state : {"off", "armed", "running"}, steps : 0..MaxInterval]]
  /\ schedule \in [interval : 0..MaxInterval, score : 0..10, next : -1..MaxInterval,
                  timer : Timer]
  /\ registered \in BOOLEAN /\ gone \in BOOLEAN /\ signal \in BOOLEAN

\* The client that is registered is never left without an update to come: the timer of its
\* schedule is armed for the time that GetNextUpdate tells, or its callback has started -
\* although callbacks and new metrics move the timer concurrently, and Stop may come too
\* late (UpdateMetrics, triggerUpdate).
UpdateIsArmed ==
  registered =>
    timers[schedule.timer] \in {After(schedule.next), Running}

\* No timer is armed for a client that has left: callbacks that were late end there
\* (triggerUpdate's check of the map).
LateCallbacksEnd ==
  [][gone => {t \in Timer : timers'[t].state = "armed"} \subseteq Armed]_adaptiveVars
=============================================================================
