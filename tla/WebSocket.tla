----------------------------- MODULE WebSocket -----------------------------
(***************************************************************************)
(* internal/handler/websocket.go: the goroutines of a WebSocket            *)
(* connection, with the broadcast manager they register with.              *)
(*                                                                         *)
(* HandleWebSocket registers the client, starts writePump and readPump and *)
(* sends the greeting and the subscription response; readPump answers      *)
(* further subscriptions.  A response is put into the send channel under   *)
(* Client.mu, which writePump needs too, for the signals of the adaptive   *)
(* scheduler.  The scheduler is reduced to those signals: its timers are   *)
(* set on registration and run until UnregisterClient.                     *)
(***************************************************************************)
EXTENDS Broadcast

CONSTANT MaxSubscribes  \* bound on the subscribe messages of a client

ASSUME SubscribeAssumption == MaxSubscribes \in Nat

VARIABLES
  handler,    \* HandleWebSocket
  reader,     \* readPump
  writer,     \* writePump
  conn,       \* is the connection open?
  mu,         \* who holds Client.mu for writing
  signal,     \* Client.updateSignal, a channel of one
  scheduled,  \* the clients of the AdaptiveScheduler
  subscribes  \* subscribe messages read

connVars == <<handler, reader, writer, conn, mu, signal, scheduled, subscribes>>
vars     == <<managerVars, connVars>>

WebSocketInit ==
  /\ BroadcastInit
  /\ handler    = [c \in Client |-> "new"]
  /\ reader     = [c \in Client |-> "none"]
  /\ writer     = [c \in Client |-> "none"]
  /\ conn       = [c \in Client |-> FALSE]
  /\ mu         = [c \in Client |-> "free"]
  /\ signal     = [c \in Client |-> FALSE]
  /\ scheduled  = {}
  /\ subscribes = [c \in Client |-> 0]

At(process, c, from, to) == process[c] = from /\ process' = [process EXCEPT ![c] = to]

\* What a full send channel costs the goroutine that greets: five seconds.
MayTimeOut(c)    == ~Room(c)
NeverTimesOut(c) == FALSE
GivesUp(c)       == MayTimeOut(c)

\* The select of sendWelcome and subscribeToRegion: a send or its timeout.
Greet(c, message) ==
  \/ Room(c) /\ PutIn(c, message)
  \/ GivesUp(c) /\ UNCHANGED send

-----------------------------------------------------------------------------
(* HandleWebSocket.                                                         *)

Connect(c) ==
  /\ At(handler, c, "new", "register")
  /\ conn' = [conn EXCEPT ![c] = TRUE]
  /\ UNCHANGED <<managerVars, reader, writer, mu, signal, scheduled, subscribes>>

Register(c) ==
  /\ At(handler, c, "register", "schedule")
  /\ Len(register) < RegisterBuffer
  /\ register' = Append(register, c)
  /\ UNCHANGED <<call, updates, unregister, batch, todo, groups, clients, send,
                 broadcast, got, reader, writer, conn, mu, signal, scheduled, subscribes>>

\* AdaptiveScheduler.RegisterClient, and the two goroutines.
StartPumps(c) ==
  /\ At(handler, c, "schedule", "welcome")
  /\ scheduled' = scheduled \cup {c}
  /\ At(reader, c, "none", "read")
  /\ At(writer, c, "none", "select")
  /\ UNCHANGED <<managerVars, conn, mu, signal, subscribes>>

SendWelcome(c) ==
  /\ At(handler, c, "welcome", "lock")
  /\ Greet(c, "welcome")
  /\ UNCHANGED <<call, updates, register, unregister, batch, todo, groups, clients,
                 broadcast, got, reader, writer, conn, mu, signal, scheduled, subscribes>>

\* subscribeToRegion: the response is sent while Client.mu is held.
Lock(process, c) ==
  /\ At(process, c, "lock", "respond")
  /\ At(mu, c, "free", "held")
  /\ UNCHANGED <<managerVars, writer, conn, signal, scheduled, subscribes>>

Respond(process, c, next) ==
  /\ At(process, c, "respond", next)
  /\ Greet(c, "subscribed")
  /\ At(mu, c, "held", "free")
  /\ UNCHANGED <<call, updates, register, unregister, batch, todo, groups, clients,
                 broadcast, got, writer, conn, signal, scheduled, subscribes>>

SubscribeToRegion(c) ==
  \/ Lock(handler, c) /\ UNCHANGED reader
  \/ Respond(handler, c, "done") /\ UNCHANGED reader

Handle(c) == Register(c) \/ StartPumps(c) \/ SendWelcome(c) \/ SubscribeToRegion(c)

-----------------------------------------------------------------------------
(* readPump.                                                                *)

\* updateSubscription: center and radius change, the registration does not.
ReadSubscribe(c) ==
  /\ conn[c]
  /\ subscribes[c] < MaxSubscribes
  /\ At(reader, c, "read", "lock")
  /\ subscribes' = [subscribes EXCEPT ![c] = @ + 1]
  /\ UNCHANGED <<managerVars, handler, writer, conn, mu, signal, scheduled>>

UpdateSubscription(c) ==
  \/ Lock(reader, c) /\ UNCHANGED handler
  \/ Respond(reader, c, "read") /\ UNCHANGED handler

\* The peer closes, its pongs stop, or writePump has closed the connection.
ReadFails(c) ==
  /\ At(reader, c, "read", "unregister")
  /\ UNCHANGED <<managerVars, handler, writer, conn, mu, signal, scheduled, subscribes>>

Unregister(c) ==
  /\ At(reader, c, "unregister", "unschedule")
  /\ Len(unregister) < RegisterBuffer
  /\ unregister' = Append(unregister, c)
  /\ UNCHANGED <<call, updates, register, batch, todo, groups, clients, send,
                 broadcast, got, handler, writer, conn, mu, signal, scheduled, subscribes>>

\* AdaptiveScheduler.UnregisterClient and conn.Close.
CloseReader(c) ==
  /\ At(reader, c, "unschedule", "closed")
  /\ scheduled' = scheduled \ {c}
  /\ conn' = [conn EXCEPT ![c] = FALSE]
  /\ UNCHANGED <<managerVars, handler, writer, mu, signal, subscribes>>

\* The steps of readPump that need nobody else.
Read(c) ==
  \/ UpdateSubscription(c) \/ Unregister(c) \/ CloseReader(c)
  \/ ~conn[c] /\ ReadFails(c)

-----------------------------------------------------------------------------
(* writePump.                                                               *)

Write(c) ==
  /\ writer[c] = "select"
  /\ conn[c]
  /\ send[c] # <<>>
  /\ send' = [send EXCEPT ![c] = Tail(@)]
  /\ UNCHANGED <<call, updates, register, unregister, batch, todo, groups, clients,
                 broadcast, got, connVars>>

\* A write of a message, or the ping of every 30 seconds, fails.
WriteFails(c) ==
  /\ At(writer, c, "select", "exited")
  /\ conn' = [conn EXCEPT ![c] = FALSE]
  /\ UNCHANGED <<managerVars, handler, reader, mu, signal, scheduled, subscribes>>

\* handleAdaptiveUpdate, which reads the center under Client.mu.
TakeSignal(c) ==
  /\ signal[c]
  /\ At(writer, c, "select", "adaptive")
  /\ signal' = [signal EXCEPT ![c] = FALSE]
  /\ UNCHANGED <<managerVars, handler, reader, conn, mu, scheduled, subscribes>>

AdaptiveUpdate(c) ==
  /\ mu[c] = "free"
  /\ At(writer, c, "adaptive", "select")
  /\ UNCHANGED <<managerVars, handler, reader, conn, mu, signal, scheduled, subscribes>>

\* triggerUpdate: the timer is set again, a signal that is still waiting absorbs this one.
TriggerUpdate(c) ==
  /\ c \in scheduled
  /\ ~signal[c]
  /\ signal' = [signal EXCEPT ![c] = TRUE]
  /\ UNCHANGED <<managerVars, handler, reader, writer, conn, mu, scheduled, subscribes>>

WritePump(c) ==
  Write(c) \/ TakeSignal(c) \/ AdaptiveUpdate(c) \/ (~conn[c] /\ WriteFails(c))

-----------------------------------------------------------------------------
Connection(c) ==
  Connect(c) \/ Handle(c) \/ ReadSubscribe(c) \/ Read(c) \/ ReadFails(c)
    \/ WritePump(c) \/ WriteFails(c) \/ TriggerUpdate(c)

Call(u)   == BroadcastCall(u) /\ UNCHANGED connVars
Manager   == Run /\ UNCHANGED connVars

Next ==
  \/ \E c \in Client : Connection(c)
  \/ \E u \in Update : Call(u)
  \/ Manager

Spec == WebSocketInit /\ [][Next]_vars

\* The Go scheduler runs every goroutine that can run, a select that finds a case
\* ready again and again takes it, and timers fire.  Peers may stay for ever, and
\* nobody has to connect or to broadcast.
Fairness ==
  /\ WF_vars(Manager)
  /\ SF_vars(HandleRegister /\ UNCHANGED connVars)
  /\ SF_vars(HandleUnregister /\ UNCHANGED connVars)
  /\ SF_vars(TakeUpdate /\ UNCHANGED connVars)
  /\ SF_vars(BatchTick /\ UNCHANGED connVars)
  /\ \A c \in Client : WF_vars(Handle(c)) /\ WF_vars(Read(c)) /\ WF_vars(WritePump(c))

FairSpec == Spec /\ Fairness

-----------------------------------------------------------------------------
(* Properties.                                                              *)

ConnectionTypeOK ==
  /\ handler    \in [Client -> {"new", "register", "schedule", "welcome", "lock", "respond", "done"}]
  /\ reader     \in [Client -> {"none", "read", "lock", "respond", "unregister", "unschedule", "closed"}]
  /\ writer     \in [Client -> {"none", "select", "adaptive", "exited"}]
  /\ conn       \in [Client -> BOOLEAN]
  /\ mu         \in [Client -> {"free", "held"}]
  /\ signal     \in [Client -> BOOLEAN]
  /\ scheduled  \subseteq Client
  /\ subscribes \in [Client -> 0..MaxSubscribes]

\* The type of every variable; no channel holds more than its capacity.
WebSocketTypeOK == BroadcastTypeOK /\ ConnectionTypeOK

\* A client that nobody reads from, or whose writer is stuck, does not stall the
\* manager: every update that was accepted is processed.
Waiting(u) == InChannel(u, updates) \/ InChannel(u, batch)
UpdatesProcessed == \A u \in Update : Waiting(u) ~> ~Waiting(u)

\* A registered client that disconnects leaves the manager, whatever the manager is
\* busy with, and both pumps of a connection that has ended return.
Departs == \A c \in Client :
  /\ (c \in clients /\ reader[c] = "unregister") ~> c \notin clients
  /\ (reader[c] = "unregister" \/ writer[c] = "exited")
       ~> (reader[c] = "closed" /\ writer[c] = "exited")

\* readPump can hold Client.mu while it waits for room in the send channel that
\* only writePump, waiting for Client.mu, could make: neither waits for ever.
NoLockOut == \A c \in Client : writer[c] = "adaptive" ~> writer[c] # "adaptive"
=============================================================================
