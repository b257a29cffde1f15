------------------------------ MODULE Lifecycle ------------------------------
(***************************************************************************)
(* cmd/fanet-api/main.go from its start to its end, with the MQTT client:   *)
(* the main goroutine, the goroutines it starts for the HTTP server, for    *)
(* Connect and for loadInitialData, those of the MQTT library's callbacks,  *)
(* and the handlers of messages.                                           *)
(*                                                                         *)
(* The library reconnects by itself, calls back in goroutines of their own, *)
(* and delivers nothing once Disconnect has returned.  What handlers do     *)
(* with a message is in Ingest, what Stop waits for in BatchWriter.        *)
(***************************************************************************)
EXTENDS Integers, FiniteSets

CONSTANTS
  MaxAttempts,  \* of initializeMySQLWithRetry: 5
  Worker        \* goroutines of the message handler: a bound on those at one time

ASSUME LifecycleAssumption == MaxAttempts \in Nat \ {0}

VARIABLES
  phase,      \* what the main goroutine is about to do
  attempts,   \* failed attempts to reach MySQL
  writer,     \* the batch writer
  http,       \* the goroutine of server.Start
  connector,  \* the goroutine of Connect
  link,       \* the library's connection to the broker
  callbacks,  \* the library's goroutines that have not called back yet
  connected,  \* Client.connected
  subscribed, \* whether the broker has the subscription
  worker,     \* what each handler is about to do
  loader,     \* the goroutine of loadInitialData
  ended,      \* how the process has ended
  lateDial    \* history: Connect has called the library after Disconnect had asked it

startVars     == <<attempts, writer, http, loader>>
mqttVars      == <<connector, link, callbacks, connected, subscribed, lateDial>>
lifecycleVars == <<phase, startVars, mqttVars, worker, ended>>

\* The phases that follow the signal; its first step cancels ctx.
Stopping   == {"shutdown", "disconnect", "wait", "stop", "close"}
Cancelled  == phase \in Stopping
Active     == ended = "no"

LifecycleInit ==
  /\ phase = "redis" /\ attempts = 0 /\ writer = "none" /\ http = "off" /\ loader = "off"
  /\ connector = "off" /\ link = "down" /\ callbacks = {} /\ connected = FALSE
  /\ subscribed = FALSE /\ lateDial = FALSE
  /\ worker = [w \in Worker |-> "idle"]
  /\ ended = "no"

-----------------------------------------------------------------------------
(* Starting.                                                                *)

\* Without Redis there is no service.
PingRedis ==
  /\ phase = "redis"
  /\ \/ phase' = "mysql" /\ UNCHANGED ended
     \/ ended' = "fatal" /\ UNCHANGED phase
  /\ UNCHANGED <<startVars, mqttVars, worker>>

\* initializeMySQLWithRetry; without MySQL there is no batch writer.
ReachMySQL ==
  /\ phase = "mysql"
  /\ writer' = "open" /\ phase' = "serve"
  /\ UNCHANGED <<attempts, http, loader, mqttVars, worker, ended>>
MissMySQL ==
  /\ phase = "mysql"
  /\ attempts' = attempts + 1
  /\ phase' = IF attempts' = MaxAttempts THEN "serve" ELSE "mysql"
  /\ UNCHANGED <<writer, http, loader, mqttVars, worker, ended>>
NoMySQL ==
  /\ phase = "mysql" /\ attempts = 0
  /\ phase' = "serve"
  /\ UNCHANGED <<startVars, mqttVars, worker, ended>>

StartServer ==
  /\ phase = "serve"
  /\ http' = "serving" /\ phase' = "mqtt"
  /\ UNCHANGED <<attempts, writer, loader, mqttVars, worker, ended>>

StartMQTT ==
  /\ phase = "mqtt"
  /\ phase'     = "signal"
  /\ connector' = "dial"
  /\ loader'    = IF writer = "open" THEN "loading" ELSE "off"
  /\ UNCHANGED <<attempts, writer, http, link, callbacks, connected, subscribed, lateDial,
                 worker, ended>>

\* server.Start: ListenAndServe fails when it cannot listen, and returns an error at once
\* when Shutdown is called; either is Fatal.
StartReturns ==
  /\ http = "serving"
  /\ http' = "returned" /\ ended' = "fatal"
  /\ UNCHANGED <<phase, attempts, writer, loader, mqttVars, worker>>

\* loadInitialData ends, the sooner when ctx is cancelled; nobody waits for it.
EndLoading ==
  /\ loader = "loading"
  /\ loader' = "off"
  /\ UNCHANGED <<phase, attempts, writer, http, mqttVars, worker, ended>>

-----------------------------------------------------------------------------
(* The MQTT client.                                                         *)

\* Connect, whose goroutine may be late.
Dial ==
  /\ connector = "dial"
  /\ connector' = "dialing" /\ link' = "connecting"
  /\ IF phase \in {"wait", "stop", "close"} THEN lateDial' = TRUE ELSE UNCHANGED lateDial
  /\ UNCHANGED <<phase, startVars, callbacks, connected, subscribed, worker, ended>>

LinkUp ==
  /\ link \in {"connecting", "reconnecting"}
  /\ link' = "up" /\ callbacks' = callbacks \cup {"connect"}
  /\ connector' = IF connector = "dialing" THEN "polling" ELSE connector
  /\ UNCHANGED <<phase, startVars, connected, subscribed, lateDial, worker, ended>>

LinkLost ==
  /\ link = "up"
  /\ link' = "reconnecting" /\ callbacks' = callbacks \cup {"lost"} /\ subscribed' = FALSE
  /\ UNCHANGED <<phase, startVars, connector, connected, lateDial, worker, ended>>

\* Connect waits for the flag, for 10 seconds, or for the end of the client.
EndConnect ==
  /\ connector = "polling" \/ (connector = "dialing" /\ link = "down")
  /\ connector' = "off"
  /\ UNCHANGED <<phase, startVars, link, callbacks, connected, subscribed, lateDial, worker, ended>>

\* The handlers of a connection and of its loss; Subscribe may fail.
OnConnect ==
  /\ "connect" \in callbacks
  /\ callbacks' = callbacks \ {"connect"} /\ connected' = TRUE
  /\ subscribed' \in {subscribed, link = "up"}
  /\ UNCHANGED <<phase, startVars, connector, link, lateDial, worker, ended>>
OnLost ==
  /\ "lost" \in callbacks
  /\ callbacks' = callbacks \ {"lost"} /\ connected' = FALSE
  /\ UNCHANGED <<phase, startVars, connector, link, subscribed, lateDial, worker, ended>>

Work(w, step) == worker' = [worker EXCEPT ![w] = step]

\* messageHandler: wg.Add and a goroutine.
Deliver(w) ==
  /\ link = "up" /\ subscribed /\ worker[w] = "idle"
  /\ Work(w, "redis")
  /\ UNCHANGED <<phase, startVars, mqttVars, ended>>

\* The call of Redis, after which the handler goes on or returns: a name goes on even
\* when the call fails, as it does when ctx is cancelled.
HandleRedis(w) ==
  /\ worker[w] = "redis"
  /\ \E step \in {"queue", "idle"} : Work(w, step)
  /\ UNCHANGED <<phase, startVars, mqttVars, ended>>

\* Queue*: a send on a closed channel panics, unless the select takes ctx.Done().
HandleQueue(w) ==
  /\ worker[w] = "queue"
  /\ Work(w, "idle")
  /\ ended' \in IF writer = "closed" THEN {"no", "panic"} ELSE {"no"}
  /\ UNCHANGED <<phase, startVars, mqttVars>>

-----------------------------------------------------------------------------
(* Stopping: Shutdown, and the deferred calls.                              *)

Then(next) == phase' = next

Signal ==
  /\ phase = "signal"
  /\ Then("shutdown")
  /\ UNCHANGED <<startVars, mqttVars, worker, ended>>

\* Shutdown waits for requests, 30 seconds at most.
ShutdownReturns ==
  /\ phase = "shutdown"
  /\ Then("disconnect")
  /\ UNCHANGED <<startVars, mqttVars, worker, ended>>

\* Disconnect cancels Connect and asks the library, which has nothing to disconnect when
\* Connect has not called it.
Disconnect ==
  /\ phase = "disconnect"
  /\ link' = "down" /\ subscribed' = FALSE
  /\ Then("wait")
  /\ UNCHANGED <<startVars, connector, callbacks, connected, lateDial, worker, ended>>

NoWait  == TRUE
AllIdle == \A w \in Worker : worker[w] = "idle"
WaitForHandlers ==
  /\ phase = "wait" /\ AllIdle
  /\ Then(IF writer = "open" THEN "stop" ELSE "close")
  /\ UNCHANGED <<startVars, mqttVars, worker, ended>>

StopWriter ==
  /\ phase = "stop"
  /\ writer' = "closed"
  /\ Then("close")
  /\ UNCHANGED <<attempts, http, loader, mqttVars, worker, ended>>

\* The repositories are closed, and main returns.
CloseAll ==
  /\ phase = "close"
  /\ ended' = "done"
  /\ UNCHANGED <<phase, startVars, mqttVars, worker>>

LifecycleNext ==
  /\ Active
  /\ \/ PingRedis \/ ReachMySQL \/ MissMySQL \/ NoMySQL \/ StartServer \/ StartMQTT
     \/ StartReturns \/ EndLoading
     \/ Dial \/ LinkUp \/ LinkLost \/ EndConnect \/ OnConnect \/ OnLost
     \/ \E w \in Worker : Deliver(w) \/ HandleRedis(w) \/ HandleQueue(w)
     \/ Signal \/ ShutdownReturns \/ Disconnect \/ WaitForHandlers \/ StopWriter \/ CloseAll

LifecycleSpec == LifecycleInit /\ [][LifecycleNext]_lifecycleVars

-----------------------------------------------------------------------------
(* Properties.                                                              *)

LifecycleTypeOK ==
  /\ phase \in {"redis", "mysql", "serve", "mqtt", "signal"} \cup Stopping
  /\ attempts \in 0..MaxAttempts /\ writer \in {"none", "open", "closed"}
  /\ http \in {"off", "serving", "returned"} /\ loader \in {"off", "loading"}
  /\ connector \in {"off", "dial", "dialing", "polling"}
  /\ link \in {"down", "connecting", "up", "reconnecting"}
  /\ callbacks \subseteq {"connect", "lost"}
  /\ connected \in BOOLEAN /\ subscribed \in BOOLEAN /\ lateDial \in BOOLEAN
  /\ worker \in [Worker -> {"idle", "redis", "queue"}]
  /\ ended \in {"no", "fatal", "panic", "done"}

\* The batch writer is stopped and the repositories are closed when the last handler has
\* returned and no message can come any more, so no handler queues a record into a closed
\* channel - although the connection may be lost, coming back or not yet there when
\* Disconnect is called.  Only a Connect goroutine that is so late that it calls the
\* library after Disconnect can spoil that.
HandlersEndFirst ==
  ~lateDial =>
    /\ phase \in {"stop", "close"} => AllIdle /\ link = "down"
    /\ ended # "panic"

-----------------------------------------------------------------------------
(* What the comments say and the code does not do.                          *)

\* «Graceful shutdown»: once it has begun, the process does not end by Fatal, with the
\* batch writer open and handlers at work.
ShutdownIsGraceful == Cancelled => ended # "fatal"
=============================================================================
