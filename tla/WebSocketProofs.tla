--------------------------- MODULE WebSocketProofs ---------------------------
(***************************************************************************)
(* Proofs about WebSocket and the manager it composes, for any clients,    *)
(* covers, updates and capacities.                                         *)
(***************************************************************************)
EXTENDS WebSocket, FiniteSetTheorems, TLAPS

\* Between batches there is room for one more update in the batch.
RoomInBatch == todo = {} => Len(batch) < BatchSize

ManagerInv == BroadcastTypeOK /\ Subscriptions /\ RoomInBatch

LEMMA Appended ==
  ASSUME NEW S, NEW s \in Seq(S), NEW x \in S, NEW n \in Nat, Len(s) < n
  PROVE  Append(s, x) \in Seq(S) /\ Len(Append(s, x)) <= n
OBVIOUS

LEMMA Taken ==
  ASSUME NEW S, NEW s \in Seq(S), s # <<>>, NEW n \in Nat, Len(s) <= n
  PROVE  Head(s) \in S /\ Tail(s) \in Seq(S) /\ Len(Tail(s)) <= n
OBVIOUS

\* What the manager needs of a step that only puts into or takes from channels.
ChannelsOK ==
  /\ call       \in [Update -> {"new", "accepted", "dropped"}]
  /\ updates    \in Seq(Update) /\ Len(updates) <= UpdatesBuffer
  /\ register   \in Seq(Client) /\ Len(register) <= RegisterBuffer
  /\ unregister \in Seq(Client) /\ Len(unregister) <= RegisterBuffer
  /\ send       \in [Client -> Seq(Kind)]
  /\ \A c \in Client : Len(send[c]) <= SendBuffer

LEMMA ChannelsOnly ==
  ASSUME ManagerInv, ChannelsOK', UNCHANGED <<batch, todo, groups, clients, broadcast, got>>
  PROVE  ManagerInv'
BY DEF ManagerInv, BroadcastTypeOK, Subscriptions, RoomInBatch, ChannelsOK

LEMMA ManagerInit == BroadcastInit => ManagerInv
<1>. SUFFICES ASSUME BroadcastInit
              PROVE  ManagerInv
  OBVIOUS
<1>1. BroadcastTypeOK
  BY BufferAssumption DEF BroadcastInit, BroadcastTypeOK
<1>2. Subscriptions
  BY DEF BroadcastInit, Subscriptions
<1>3. RoomInBatch
  BY BufferAssumption DEF BroadcastInit, RoomInBatch
<1>. QED
  BY <1>1, <1>2, <1>3 DEF ManagerInv

-----------------------------------------------------------------------------
(* The steps of the manager's goroutine.                                    *)

LEMMA RegisterStep ==
  ASSUME ManagerInv, HandleRegister
  PROVE  ManagerInv'
<1>. DEFINE c == Head(register)
<1>. USE DEF ManagerInv
<1>1. c \in Client /\ register' \in Seq(Client) /\ Len(register') <= RegisterBuffer
  BY Taken, BufferAssumption DEF HandleRegister, BroadcastTypeOK
<1>2. Cover[c] \subseteq Cell
  BY <1>1, CellAssumption
<1>3. /\ groups' = [g \in DOMAIN groups \cup Cover[c] |->
                     (IF g \in DOMAIN groups THEN groups[g] ELSE {})
                       \cup (IF g \in Cover[c] THEN {c} ELSE {})]
      /\ clients' = clients \cup {c}
      /\ UNCHANGED <<call, updates, unregister, batch, todo, send, broadcast, got>>
  BY DEF HandleRegister
<1>. HIDE DEF c
<1>4. DOMAIN groups' = DOMAIN groups \cup Cover[c]
  BY <1>3
<1>5. \A g \in DOMAIN groups' :
        groups'[g] = (IF g \in DOMAIN groups THEN groups[g] ELSE {})
                       \cup (IF g \in Cover[c] THEN {c} ELSE {})
  BY <1>3
<1>6. groups' \in [DOMAIN groups' -> SUBSET Client]
  <2>1. \A g \in DOMAIN groups : groups[g] \subseteq Client
    BY DEF BroadcastTypeOK
  <2>. QED
    BY <2>1, <1>1, <1>3
<1>7. BroadcastTypeOK'
  BY <1>1, <1>2, <1>3, <1>4, <1>6 DEF BroadcastTypeOK
<1>8. Subscriptions'
  <2>1. ASSUME NEW x \in Client, NEW g \in Cell
        PROVE  (g \in DOMAIN groups' /\ x \in groups'[g]) <=> (x \in clients' /\ g \in Cover[x])
    <3>1. (g \in DOMAIN groups /\ x \in groups[g]) <=> (x \in clients /\ g \in Cover[x])
      BY DEF Subscriptions
    <3>2. CASE g \in Cover[c]
      BY <3>1, <3>2, <1>1, <1>3, <1>4, <1>5
    <3>3. CASE g \notin Cover[c]
      BY <3>1, <3>3, <1>1, <1>3, <1>4, <1>5
    <3>. QED
      BY <3>2, <3>3
  <2>2. ASSUME NEW g \in DOMAIN groups'
        PROVE  groups'[g] # {}
    <3>1. g \in DOMAIN groups => groups[g] # {}
      BY DEF Subscriptions
    <3>2. CASE g \in Cover[c]
      BY <3>1, <3>2, <1>4, <1>5
    <3>3. CASE g \notin Cover[c]
      BY <3>1, <3>3, <1>4, <1>5
    <3>. QED
      BY <3>2, <3>3
  <2>. QED
    BY <2>1, <2>2 DEF Subscriptions
<1>9. RoomInBatch'
  BY <1>3 DEF RoomInBatch
<1>. QED
  BY <1>7, <1>8, <1>9

LEMMA UnregisterStep ==
  ASSUME ManagerInv, HandleUnregister
  PROVE  ManagerInv'
<1>. DEFINE c == Head(unregister)
<1>. USE DEF ManagerInv
<1>1. c \in Client /\ unregister' \in Seq(Client) /\ Len(unregister') <= RegisterBuffer
  BY Taken, BufferAssumption DEF HandleUnregister, BroadcastTypeOK
<1>2. UNCHANGED <<call, updates, register, batch, todo, send, broadcast, got>>
  BY DEF HandleUnregister
<1>3. CASE c \notin clients
  <2>1. UNCHANGED <<groups, clients>>
    BY <1>3 DEF HandleUnregister
  <2>. QED
    BY <1>1, <1>2, <2>1, ChannelsOnly DEF ChannelsOK, BroadcastTypeOK
<1>4. CASE c \in clients
  <2>1. /\ groups'  = [g \in GroupsAfter(c) |-> groups[g] \ {c}]
        /\ clients' = clients \ {c}
    BY <1>4 DEF HandleUnregister
  <2>. HIDE DEF c
  <2>2. /\ DOMAIN groups' = {g \in DOMAIN groups : groups[g] \ {c} # {}}
        /\ \A g \in DOMAIN groups' : groups'[g] = groups[g] \ {c}
    BY <2>1 DEF GroupsAfter
  <2>3. groups' \in [DOMAIN groups' -> SUBSET Client]
    <3>1. \A g \in GroupsAfter(c) : groups[g] \subseteq Client
      BY DEF BroadcastTypeOK, GroupsAfter
    <3>. QED
      BY <3>1, <2>1
  <2>4. BroadcastTypeOK'
    BY <1>1, <1>2, <2>1, <2>2, <2>3 DEF BroadcastTypeOK
  <2>5. Subscriptions'
    BY <1>1, <2>1, <2>2 DEF Subscriptions
  <2>6. RoomInBatch'
    BY <1>2 DEF RoomInBatch
  <2>. QED
    BY <2>4, <2>5, <2>6
<1>. QED
  BY <1>3, <1>4

\* processBatch leaves a batch to be served, or none.
LEMMA Processed ==
  ASSUME ManagerInv, NEW b \in Seq(Update), Len(b) <= BatchSize, ProcessBatch(b)
  PROVE  /\ batch' \in Seq(Update) /\ Len(batch') <= BatchSize
         /\ todo' \subseteq Cell
         /\ todo' = {} => Len(batch') < BatchSize
         /\ broadcast' \in Nat
<1>. USE BufferAssumption
<1>1. broadcast \in Nat /\ DOMAIN groups \subseteq Cell
  BY DEF ManagerInv, BroadcastTypeOK
<1>2. CASE CellsOf(b) \cap DOMAIN groups = {}
  BY <1>1, <1>2 DEF ProcessBatch, BatchEnds, Reset
<1>3. CASE CellsOf(b) \cap DOMAIN groups # {}
  BY <1>1, <1>3 DEF ProcessBatch
<1>. QED
  BY <1>2, <1>3

LEMMA BatchChanged ==
  ASSUME ManagerInv,
         batch' \in Seq(Update), Len(batch') <= BatchSize, todo' \subseteq Cell,
         todo' = {} => Len(batch') < BatchSize, broadcast' \in Nat,
         updates' \in Seq(Update), Len(updates') <= UpdatesBuffer,
         UNCHANGED <<call, register, unregister, groups, clients, send, got>>
  PROVE  ManagerInv'
BY DEF ManagerInv, BroadcastTypeOK, Subscriptions, RoomInBatch

LEMMA TakeStep ==
  ASSUME ManagerInv, TakeUpdate
  PROVE  ManagerInv'
<1>. DEFINE b == Append(batch, Head(updates))
<1>. USE BufferAssumption
<1>1. /\ Head(updates) \in Update
      /\ updates' \in Seq(Update) /\ Len(updates') <= UpdatesBuffer
  BY Taken DEF ManagerInv, BroadcastTypeOK, TakeUpdate
<1>2. batch \in Seq(Update) /\ Len(batch) < BatchSize /\ BatchSize \in Nat
  BY DEF ManagerInv, BroadcastTypeOK, RoomInBatch, TakeUpdate, Selecting
<1>3. b \in Seq(Update) /\ Len(b) <= BatchSize
  BY <1>1, <1>2, Appended
<1>4. /\ UNCHANGED <<call, register, unregister, groups, clients, send, got>>
      /\ IF Len(b) >= BatchSize THEN ProcessBatch(b)
                                ELSE batch' = b /\ UNCHANGED <<todo, broadcast>>
  BY DEF TakeUpdate
<1>. HIDE DEF b
<1>5. CASE Len(b) >= BatchSize
  BY <1>1, <1>3, <1>4, <1>5, Processed, BatchChanged
<1>6. CASE ~(Len(b) >= BatchSize)
  <2>1. Len(b) \in Nat
    BY <1>3
  <2>2. todo \subseteq Cell /\ broadcast \in Nat
    BY DEF ManagerInv, BroadcastTypeOK
  <2>. QED
    BY <1>1, <1>2, <1>3, <1>4, <1>6, <2>1, <2>2, BatchChanged
<1>. QED
  BY <1>5, <1>6

LEMMA TickStep ==
  ASSUME ManagerInv, BatchTick
  PROVE  ManagerInv'
<1>1. /\ batch \in Seq(Update) /\ Len(batch) <= BatchSize
      /\ updates \in Seq(Update) /\ Len(updates) <= UpdatesBuffer
  BY DEF ManagerInv, BroadcastTypeOK
<1>2. ProcessBatch(batch) /\ UNCHANGED <<call, updates, register, unregister, groups, clients, send, got>>
  BY DEF BatchTick
<1>. QED
  BY <1>1, <1>2, Processed, BatchChanged

LEMMA ServeStep ==
  ASSUME ManagerInv, NEW g \in todo, ServeGroup(g)
  PROVE  ManagerInv'
<1>. DEFINE message(c) == [sent |-> Included(g), of |-> {batch[n] : n \in InCell(g)},
                           kept |-> Room(c)]
<1>. USE BufferAssumption DEF ManagerInv
<1>1. /\ UNCHANGED <<call, updates, register, unregister, groups, clients>>
      /\ send' = [c \in Client |-> IF c \in Addressees(g) /\ Room(c)
                               THEN Append(send[c], "updates") ELSE send[c]]
      /\ got' = [c \in Client |-> IF c \in Addressees(g) THEN Append(got[c], message(c)) ELSE got[c]]
      /\ IF LastGroup(g) THEN BatchEnds(batch)
                         ELSE todo' = todo \ {g} /\ UNCHANGED <<batch, broadcast>>
  BY DEF ServeGroup
<1>2. batch \in Seq(Update) /\ Len(batch) <= BatchSize /\ todo \subseteq Cell /\ broadcast \in Nat
  BY DEF BroadcastTypeOK
<1>3. /\ batch' \in Seq(Update) /\ Len(batch') <= BatchSize /\ todo' \subseteq Cell
      /\ broadcast' \in Nat /\ RoomInBatch'
  <2>1. CASE LastGroup(g)
    BY <1>1, <1>2, <2>1 DEF BatchEnds, Reset, RoomInBatch
  <2>2. CASE ~LastGroup(g)
    BY <1>1, <1>2, <2>2 DEF LastGroup, RoomInBatch
  <2>. QED
    BY <2>1, <2>2
<1>4. send' \in [Client -> Seq(Kind)] /\ \A c \in Client : Len(send'[c]) <= SendBuffer
  <2>1. ASSUME NEW c \in Client
        PROVE  /\ (IF c \in Addressees(g) /\ Room(c) THEN Append(send[c], "updates") ELSE send[c])
                    \in Seq(Kind)
               /\ Len(IF c \in Addressees(g) /\ Room(c) THEN Append(send[c], "updates") ELSE send[c])
                    <= SendBuffer
    <3>1. send[c] \in Seq(Kind) /\ Len(send[c]) <= SendBuffer /\ "updates" \in Kind
      BY DEF BroadcastTypeOK, Kind
    <3>2. CASE Room(c)
      BY <3>1, <3>2, Appended DEF Room
    <3>. QED
      BY <3>1, <3>2
  <2>. QED
    BY <1>1, <2>1
<1>5. got' \in [Client -> Seq(Broadcasted)]
  <2>1. ASSUME NEW c \in Client
        PROVE  message(c) \in Broadcasted
    <3>1. \A n \in DOMAIN batch : batch[n] \in Update
      BY <1>2
    <3>2. Included(g) \subseteq Update /\ {batch[n] : n \in InCell(g)} \subseteq Update
      BY <3>1 DEF Included, InCell
    <3>3. Room(c) \in BOOLEAN
      BY DEF Room
    <3>. QED
      BY <3>2, <3>3 DEF Broadcasted
  <2>. HIDE DEF message
  <2>2. ASSUME NEW c \in Client
        PROVE  (IF c \in Addressees(g) THEN Append(got[c], message(c)) ELSE got[c]) \in Seq(Broadcasted)
    <3>1. got[c] \in Seq(Broadcasted)
      BY DEF BroadcastTypeOK
    <3>. QED
      BY <2>1, <3>1
  <2>. QED
    BY <1>1, <2>2
<1>6. BroadcastTypeOK'
  BY <1>1, <1>3, <1>4, <1>5 DEF BroadcastTypeOK
<1>7. Subscriptions'
  BY <1>1 DEF Subscriptions
<1>. QED
  BY <1>3, <1>6, <1>7

LEMMA RunStep ==
  ASSUME ManagerInv, Run
  PROVE  ManagerInv'
BY RegisterStep, UnregisterStep, TakeStep, TickStep, ServeStep DEF Run

-----------------------------------------------------------------------------
(* The steps of callers and connections.                                    *)

LEMMA CallStep ==
  ASSUME ManagerInv, NEW u \in Update, BroadcastCall(u)
  PROVE  ManagerInv'
<1>. USE BufferAssumption DEF ManagerInv
<1>1. CASE BroadcastSend(u)
  <2>1. updates' \in Seq(Update) /\ Len(updates') <= UpdatesBuffer
    BY <1>1, Appended DEF BroadcastSend, BroadcastTypeOK
  <2>2. ChannelsOK'
    BY <1>1, <2>1 DEF BroadcastSend, BroadcastTypeOK, ChannelsOK
  <2>. QED
    BY <1>1, <2>2, ChannelsOnly DEF BroadcastSend
<1>2. CASE BroadcastDrop(u)
  <2>1. ChannelsOK'
    BY <1>2 DEF BroadcastDrop, BroadcastTypeOK, ChannelsOK
  <2>. QED
    BY <1>2, <2>1, ChannelsOnly DEF BroadcastDrop
<1>. QED
  BY <1>1, <1>2 DEF BroadcastCall

LEMMA GreetStep ==
  ASSUME ManagerInv, NEW c \in Client, NEW kind \in Kind, Greet(c, kind),
         UNCHANGED <<call, updates, register, unregister, batch, todo, groups, clients,
                     broadcast, got>>
  PROVE  ManagerInv'
<1>. USE BufferAssumption DEF ManagerInv
<1>1. send \in [Client -> Seq(Kind)] /\ \A x \in Client : Len(send[x]) <= SendBuffer
  BY DEF BroadcastTypeOK
<1>2. send' \in [Client -> Seq(Kind)] /\ \A x \in Client : Len(send'[x]) <= SendBuffer
  <2>1. CASE Room(c) /\ PutIn(c, kind)
    <3>1. Append(send[c], kind) \in Seq(Kind) /\ Len(Append(send[c], kind)) <= SendBuffer
      BY <1>1, <2>1, Appended DEF Room
    <3>2. send' = [send EXCEPT ![c] = Append(send[c], kind)]
      BY <2>1 DEF PutIn
    <3>. QED
      BY <1>1, <3>1, <3>2
  <2>2. CASE UNCHANGED send
    BY <1>1, <2>2
  <2>. QED
    BY <2>1, <2>2 DEF Greet
<1>3. ChannelsOK'
  BY <1>2 DEF ChannelsOK, BroadcastTypeOK
<1>. QED
  BY <1>3, ChannelsOnly

LEMMA WriteStep ==
  ASSUME ManagerInv, NEW c \in Client, Write(c)
  PROVE  ManagerInv'
<1>. USE BufferAssumption DEF ManagerInv
<1>1. send \in [Client -> Seq(Kind)] /\ \A x \in Client : Len(send[x]) <= SendBuffer
  BY DEF BroadcastTypeOK
<1>2. Tail(send[c]) \in Seq(Kind) /\ Len(Tail(send[c])) <= SendBuffer
  BY <1>1, Taken DEF Write
<1>3. send' \in [Client -> Seq(Kind)] /\ \A x \in Client : Len(send'[x]) <= SendBuffer
  <2>1. send' = [send EXCEPT ![c] = Tail(send[c])]
    BY DEF Write
  <2>. QED
    BY <1>1, <1>2, <2>1
<1>4. ChannelsOK'
  BY <1>3 DEF ChannelsOK, BroadcastTypeOK, Write
<1>. QED
  BY <1>4, ChannelsOnly DEF Write

LEMMA RegistrationStep ==
  ASSUME ManagerInv, NEW c \in Client, Register(c) \/ Unregister(c)
  PROVE  ManagerInv'
<1>. USE BufferAssumption DEF ManagerInv
<1>1. CASE Register(c)
  <2>1. register' \in Seq(Client) /\ Len(register') <= RegisterBuffer
    BY <1>1, Appended DEF Register, BroadcastTypeOK
  <2>2. ChannelsOK'
    BY <1>1, <2>1 DEF Register, BroadcastTypeOK, ChannelsOK
  <2>. QED
    BY <1>1, <2>2, ChannelsOnly DEF Register
<1>2. CASE Unregister(c)
  <2>1. unregister' \in Seq(Client) /\ Len(unregister') <= RegisterBuffer
    BY <1>2, Appended DEF Unregister, BroadcastTypeOK
  <2>2. ChannelsOK'
    BY <1>2, <2>1 DEF Unregister, BroadcastTypeOK, ChannelsOK
  <2>. QED
    BY <1>2, <2>2, ChannelsOnly DEF Unregister
<1>. QED
  BY <1>1, <1>2

LEMMA ManagerUntouched ==
  ASSUME ManagerInv, UNCHANGED managerVars
  PROVE  ManagerInv'
BY DEF ManagerInv, BroadcastTypeOK, Subscriptions, RoomInBatch, managerVars

LEMMA ConnectionStep ==
  ASSUME ManagerInv, NEW c \in Client, Connection(c)
  PROVE  ManagerInv'
<1>1. CASE UNCHANGED managerVars
  BY <1>1, ManagerUntouched
<1>2. CASE Register(c) \/ Unregister(c)
  BY <1>2, RegistrationStep
<1>3. CASE SendWelcome(c)
  BY <1>3, GreetStep DEF SendWelcome, Kind
<1>4. CASE SubscribeToRegion(c)
  BY <1>1, <1>4, GreetStep DEF SubscribeToRegion, Lock, Respond, Kind
<1>5. CASE UpdateSubscription(c)
  BY <1>1, <1>5, GreetStep DEF UpdateSubscription, Lock, Respond, Kind
<1>6. CASE Write(c)
  BY <1>6, WriteStep
<1>7. CASE Connect(c) \/ StartPumps(c) \/ ReadSubscribe(c) \/ ReadFails(c) \/ CloseReader(c)
  BY <1>1, <1>7 DEF Connect, StartPumps, ReadSubscribe, ReadFails, CloseReader
<1>8. CASE WriteFails(c) \/ TakeSignal(c) \/ AdaptiveUpdate(c) \/ TriggerUpdate(c)
  BY <1>1, <1>8 DEF WriteFails, TakeSignal, AdaptiveUpdate, TriggerUpdate
<1>. QED
  BY <1>2, <1>3, <1>4, <1>5, <1>6, <1>7, <1>8 DEF Connection, Handle, Read, WritePump

\* The manager's part of every step.
LEMMA ManagerNext ==
  ASSUME ManagerInv, [Next]_vars
  PROVE  ManagerInv'
<1>1. CASE UNCHANGED vars
  BY <1>1, ManagerUntouched DEF vars
<1>2. CASE \E c \in Client : Connection(c)
  BY <1>2, ConnectionStep
<1>3. CASE \E u \in Update : Call(u)
  BY <1>3, CallStep DEF Call
<1>4. CASE Manager
  BY <1>4, RunStep DEF Manager
<1>. QED
  BY <1>1, <1>2, <1>3, <1>4 DEF Next

-----------------------------------------------------------------------------
(* The types of the connections.                                            *)

LEMMA ConnectionInit == WebSocketInit => ConnectionTypeOK
BY SubscribeAssumption DEF WebSocketInit, ConnectionTypeOK

\* A goroutine that goes on to one of its places.
LEMMA Moved ==
  ASSUME NEW S, NEW process \in [Client -> S], NEW c \in Client, NEW to \in S
  PROVE  [process EXCEPT ![c] = to] \in [Client -> S]
OBVIOUS

LEMMA ConnectionNext ==
  ASSUME ConnectionTypeOK, [Next]_vars
  PROVE  ConnectionTypeOK'
<1>. USE SubscribeAssumption DEF ConnectionTypeOK, At
<1>1. CASE UNCHANGED connVars
  BY <1>1 DEF connVars
<1>2. ASSUME NEW c \in Client, Connection(c)
      PROVE  ConnectionTypeOK'
  <2>1. CASE Connect(c) \/ Register(c) \/ SendWelcome(c)
    BY <2>1 DEF Connect, Register, SendWelcome
  <2>2. CASE StartPumps(c)
    BY <2>2 DEF StartPumps
  <2>3. CASE SubscribeToRegion(c)
    BY <2>3 DEF SubscribeToRegion, Lock, Respond
  <2>4. CASE ReadSubscribe(c)
    BY <2>4 DEF ReadSubscribe
  <2>5. CASE UpdateSubscription(c)
    BY <2>5 DEF UpdateSubscription, Lock, Respond
  <2>6. CASE ReadFails(c) \/ Unregister(c) \/ CloseReader(c)
    BY <2>6 DEF ReadFails, Unregister, CloseReader
  <2>7. CASE Write(c)
    BY <2>7, <1>1 DEF Write
  <2>8. CASE WriteFails(c) \/ TakeSignal(c) \/ AdaptiveUpdate(c) \/ TriggerUpdate(c)
    BY <2>8 DEF WriteFails, TakeSignal, AdaptiveUpdate, TriggerUpdate
  <2>. QED
    BY <1>2, <2>1, <2>2, <2>3, <2>4, <2>5, <2>6, <2>7, <2>8 DEF Connection, Handle, Read, WritePump
<1>. QED
  BY <1>1, <1>2 DEF Next, Call, Manager, vars

-----------------------------------------------------------------------------
(* The balance of the metrics.                                              *)

Accepted == {u \in Update : call[u] = "accepted"}

LEMMA BalanceInit == WebSocketInit => UpdatesBalance
<1>. SUFFICES ASSUME WebSocketInit
              PROVE  UpdatesBalance
  OBVIOUS
<1>1. Accepted = {}
  BY DEF Accepted, WebSocketInit, BroadcastInit
<1>2. Cardinality(Accepted) = 0
  BY <1>1, FS_EmptySet
<1>3. Len(updates) = 0 /\ Len(batch) = 0 /\ broadcast = 0
  BY DEF WebSocketInit, BroadcastInit
<1>. QED
  BY <1>2, <1>3 DEF UpdatesBalance, Accepted

LEMMA BalanceUntouched ==
  ASSUME UpdatesBalance, UNCHANGED <<call, updates, batch, broadcast>>
  PROVE  UpdatesBalance'
BY DEF UpdatesBalance

\* processBatch counts the updates that it takes out of the batch.
LEMMA BalanceProcess ==
  ASSUME NEW b \in Seq(Update), broadcast \in Nat, ProcessBatch(b)
  PROVE  /\ Len(batch') + broadcast' = Len(b) + broadcast
         /\ Len(batch') \in Nat /\ broadcast' \in Nat
<1>1. Len(b) \in Nat
  OBVIOUS
<1>. QED
  BY <1>1 DEF ProcessBatch, BatchEnds, Reset

LEMMA BalanceRun ==
  ASSUME BroadcastTypeOK, UpdatesBalance, Run
  PROVE  UpdatesBalance'
<1>1. broadcast \in Nat /\ batch \in Seq(Update) /\ updates \in Seq(Update)
  BY DEF BroadcastTypeOK
<1>2. CASE HandleRegister \/ HandleUnregister
  BY <1>2, BalanceUntouched DEF HandleRegister, HandleUnregister
<1>3. CASE TakeUpdate
  <2>. DEFINE b == Append(batch, Head(updates))
  <2>1. b \in Seq(Update) /\ Len(b) = Len(batch) + 1
    BY <1>1, <1>3 DEF TakeUpdate
  <2>2. Len(updates') = Len(updates) - 1 /\ call' = call
    BY <1>1, <1>3 DEF TakeUpdate
  <2>3. IF Len(b) >= BatchSize THEN ProcessBatch(b)
                               ELSE batch' = b /\ UNCHANGED <<todo, broadcast>>
    BY <1>3 DEF TakeUpdate
  <2>. HIDE DEF b
  <2>4. /\ Len(batch') + broadcast' = Len(b) + broadcast
        /\ Len(batch') \in Nat /\ broadcast' \in Nat
    BY <1>1, <2>1, <2>3, BalanceProcess
  <2>5. Len(updates') + (Len(batch') + broadcast') = Len(updates) + (Len(batch) + broadcast)
    BY <1>1, <2>1, <2>2, <2>4
  <2>. QED
    BY <1>1, <2>2, <2>4, <2>5 DEF UpdatesBalance
<1>4. CASE BatchTick
  <2>1. UNCHANGED <<call, updates>> /\ ProcessBatch(batch)
    BY <1>4 DEF BatchTick
  <2>2. /\ Len(batch') + broadcast' = Len(batch) + broadcast
        /\ Len(batch') \in Nat /\ broadcast' \in Nat
    BY <1>1, <2>1, BalanceProcess
  <2>. QED
    BY <1>1, <2>1, <2>2 DEF UpdatesBalance
<1>5. ASSUME NEW g \in todo, ServeGroup(g)
      PROVE  UpdatesBalance'
  <2>1. UNCHANGED <<call, updates>>
    BY <1>5 DEF ServeGroup
  <2>2. CASE LastGroup(g)
    BY <1>1, <1>5, <2>1, <2>2 DEF ServeGroup, BatchEnds, Reset, UpdatesBalance
  <2>3. CASE ~LastGroup(g)
    BY <1>5, <2>1, <2>3, BalanceUntouched DEF ServeGroup
  <2>. QED
    BY <2>2, <2>3
<1>. QED
  BY <1>2, <1>3, <1>4, <1>5 DEF Run

LEMMA BalanceCall ==
  ASSUME BroadcastTypeOK, UpdatesBalance, NEW u \in Update, BroadcastCall(u)
  PROVE  UpdatesBalance'
<1>1. updates \in Seq(Update) /\ Len(batch) \in Nat /\ broadcast \in Nat
  BY DEF BroadcastTypeOK
<1>2. IsFiniteSet(Accepted)
  BY UpdateAssumption, FS_Subset DEF Accepted
<1>3. CASE BroadcastSend(u)
  <2>1. Accepted' = Accepted \cup {u} /\ u \notin Accepted
    BY <1>3 DEF BroadcastSend, BroadcastTypeOK, Accepted
  <2>2. Cardinality(Accepted') = Cardinality(Accepted) + 1
    BY <1>2, <2>1, FS_AddElement
  <2>3. Len(updates') = Len(updates) + 1 /\ UNCHANGED <<batch, broadcast>>
    BY <1>1, <1>3 DEF BroadcastSend
  <2>. QED
    BY <1>1, <2>2, <2>3 DEF UpdatesBalance, Accepted
<1>4. CASE BroadcastDrop(u)
  <2>1. Accepted' = Accepted /\ UNCHANGED <<updates, batch, broadcast>>
    BY <1>4 DEF BroadcastDrop, BroadcastTypeOK, Accepted
  <2>. QED
    BY <2>1 DEF UpdatesBalance, Accepted
<1>. QED
  BY <1>3, <1>4 DEF BroadcastCall

LEMMA BalanceConnection ==
  ASSUME UpdatesBalance, NEW c \in Client, Connection(c)
  PROVE  UpdatesBalance'
<1>1. CASE UNCHANGED managerVars
  BY <1>1, BalanceUntouched DEF managerVars
<1>2. CASE Register(c) \/ Unregister(c) \/ SendWelcome(c) \/ Write(c)
  BY <1>2, BalanceUntouched DEF Register, Unregister, SendWelcome, Write
<1>3. CASE SubscribeToRegion(c) \/ UpdateSubscription(c)
  BY <1>1, <1>3, BalanceUntouched DEF SubscribeToRegion, UpdateSubscription, Lock, Respond
<1>4. CASE Connect(c) \/ StartPumps(c) \/ ReadSubscribe(c) \/ ReadFails(c) \/ CloseReader(c)
  BY <1>1, <1>4 DEF Connect, StartPumps, ReadSubscribe, ReadFails, CloseReader
<1>5. CASE WriteFails(c) \/ TakeSignal(c) \/ AdaptiveUpdate(c) \/ TriggerUpdate(c)
  BY <1>1, <1>5 DEF WriteFails, TakeSignal, AdaptiveUpdate, TriggerUpdate
<1>. QED
  BY <1>2, <1>3, <1>4, <1>5 DEF Connection, Handle, Read, WritePump

LEMMA BalanceNext ==
  ASSUME BroadcastTypeOK, UpdatesBalance, [Next]_vars
  PROVE  UpdatesBalance'
<1>1. CASE UNCHANGED vars
  BY <1>1, BalanceUntouched DEF vars, managerVars
<1>. QED
  BY <1>1, BalanceRun, BalanceCall, BalanceConnection DEF Next, Call, Manager

-----------------------------------------------------------------------------
(* The theorems.                                                            *)

WebSocketInv == ManagerInv /\ ConnectionTypeOK

LEMMA AlwaysWebSocketInv == Spec => []WebSocketInv
<1>1. WebSocketInit => WebSocketInv
  BY ManagerInit, ConnectionInit DEF WebSocketInit, WebSocketInv
<1>2. WebSocketInv /\ [Next]_vars => WebSocketInv'
  BY ManagerNext, ConnectionNext DEF WebSocketInv
<1>. QED
  BY <1>1, <1>2, PTL DEF Spec

\* Every variable of the manager and of the connections keeps its type, and no
\* channel is ever sent more than it holds.
THEOREM WebSocketTypeCorrect == Spec => []WebSocketTypeOK
<1>1. WebSocketInv => WebSocketTypeOK
  BY DEF WebSocketInv, ManagerInv, WebSocketTypeOK
<1>. QED
  BY <1>1, AlwaysWebSocketInv, PTL

\* A client is in the group of a geohash exactly while it is registered and covers
\* it, and empty groups do not stay.
THEOREM SubscriptionsAgree == Spec => []Subscriptions
<1>1. WebSocketInv => Subscriptions
  BY DEF WebSocketInv, ManagerInv
<1>. QED
  BY <1>1, AlwaysWebSocketInv, PTL

\* The metrics lose and invent nothing: what was received is waiting, in the batch
\* or counted as broadcast, whatever the batches and the registrations between them.
THEOREM UpdatesCounted == Spec => []UpdatesBalance
<1>1. WebSocketInit => UpdatesBalance
  BY BalanceInit
<1>2. WebSocketTypeOK /\ UpdatesBalance /\ [Next]_vars => UpdatesBalance'
  BY BalanceNext DEF WebSocketTypeOK
<1>. QED
  BY <1>1, <1>2, WebSocketTypeCorrect, PTL DEF Spec

-----------------------------------------------------------------------------
(* What the clients are sent.                                               *)

Distinct(channel) ==
  \A m, n \in DOMAIN channel : m # n => channel[m] # channel[n]

LEMMA PutInChannel ==
  ASSUME NEW S, NEW s \in Seq(S), NEW x \in S
  PROVE  /\ \A y : InChannel(y, Append(s, x)) <=> (InChannel(y, s) \/ y = x)
         /\ Distinct(s) /\ ~InChannel(x, s) => Distinct(Append(s, x))
         /\ Append(s, x) # <<>>
<1>1. /\ Append(s, x) \in Seq(S) /\ Len(Append(s, x)) = Len(s) + 1 /\ Len(s) \in Nat
      /\ \A i \in 1..Len(s) : Append(s, x)[i] = s[i]
      /\ Append(s, x)[Len(s) + 1] = x
      /\ DOMAIN s = 1..Len(s) /\ DOMAIN Append(s, x) = 1..(Len(s) + 1)
  OBVIOUS
<1>. DEFINE t == Append(s, x)
            l == Len(s)
<1>2. DOMAIN t = DOMAIN s \cup {l + 1} /\ l + 1 \notin DOMAIN s
  BY <1>1
<1>3. t[l + 1] = x /\ \A i \in DOMAIN s : t[i] = s[i]
  BY <1>1
<1>4. t # <<>>
  BY <1>1
<1>. HIDE DEF t, l
<1>. SUFFICES /\ \A y : InChannel(y, t) <=> (InChannel(y, s) \/ y = x)
              /\ Distinct(s) /\ ~InChannel(x, s) => Distinct(t)
              /\ t # <<>>
  BY DEF t
<1>. QED
  BY <1>2, <1>3, <1>4 DEF InChannel, Distinct

LEMMA TakenFromChannel ==
  ASSUME NEW S, NEW s \in Seq(S), s # <<>>
  PROVE  /\ InChannel(Head(s), s)
         /\ \A y : InChannel(y, Tail(s)) => InChannel(y, s)
         /\ Distinct(s) => Distinct(Tail(s)) /\ ~InChannel(Head(s), Tail(s))
<1>1. /\ Len(s) \in Nat \ {0} /\ DOMAIN s = 1..Len(s) /\ Head(s) = s[1]
      /\ DOMAIN Tail(s) = 1..(Len(s) - 1) /\ \A i \in 1..(Len(s) - 1) : Tail(s)[i] = s[i + 1]
  OBVIOUS
<1>. DEFINE t == Tail(s)
            l == Len(s)
            h == Head(s)
<1>2. l \in Nat \ {0} /\ DOMAIN s = 1..l /\ h = s[1] /\ DOMAIN t = 1..(l - 1)
      /\ \A i \in 1..(l - 1) : t[i] = s[i + 1]
  BY <1>1
<1>. HIDE DEF t, l, h
<1>. SUFFICES /\ InChannel(h, s)
              /\ \A y : InChannel(y, t) => InChannel(y, s)
              /\ Distinct(s) => Distinct(t) /\ ~InChannel(h, t)
  BY DEF t, h
<1>3. 1 \in DOMAIN s /\ \A i \in DOMAIN t : i + 1 \in DOMAIN s /\ i + 1 # 1 /\ t[i] = s[i + 1]
  BY <1>2
<1>4. \A i, j \in DOMAIN t : i # j => i + 1 # j + 1
  BY <1>2
<1>5. InChannel(h, s) /\ \A y : InChannel(y, t) => InChannel(y, s)
  BY <1>2, <1>3 DEF InChannel
<1>6. Distinct(s) => Distinct(t) /\ ~InChannel(h, t)
  BY <1>2, <1>3, <1>4 DEF InChannel, Distinct
<1>. QED
  BY <1>5, <1>6

\* Has an update been broadcast to a client, or skipped there for want of room?
Has(c, u)      == \E k \in DOMAIN got[c] : u \in got[c][k].of
CellsFor(c, u) == Cover[c] \cap CellsAt[PlaceOf[u]]

\* An accepted update is at most once in the channel, and not in the batch with it.
Single ==
  /\ Distinct(updates)
  /\ \A u \in Update :
       /\ ~(InChannel(u, updates) /\ InChannel(u, batch))
       /\ InChannel(u, updates) \/ InChannel(u, batch) => call[u] = "accepted"

\* What a client has been sent is not waiting; while it is still in the batch, the
\* group by which the client got it has been served.
SentIsServed ==
  \A c \in Client, u \in Update : Has(c, u) =>
    /\ call[u] = "accepted" /\ ~InChannel(u, updates)
    /\ InChannel(u, batch) => todo # {} /\ CellsFor(c, u) \ todo # {}

\* And the groups that have been served have sent what is near.
ServedIsSent ==
  todo # {} => \A c \in clients, u \in Update :
    InChannel(u, batch) /\ PlaceOf[u] \in Area[c] /\ CellsFor(c, u) \ todo # {} => Has(c, u)

OnceInv ==
  todo \subseteq DOMAIN groups /\ Single /\ SentIsServed /\ ServedIsSent /\ DeliveredOnce

LEMMA OnceInit == WebSocketInit => OnceInv
BY DEF WebSocketInit, BroadcastInit, OnceInv, Single, SentIsServed, ServedIsSent, DeliveredOnce,
       Distinct, InChannel, Has

LEMMA OnceUntouched ==
  ASSUME OnceInv, UNCHANGED <<call, updates, batch, todo, got>>,
         todo = {} \/ UNCHANGED <<clients, groups>>
  PROVE  OnceInv'
BY DEF OnceInv, Single, SentIsServed, ServedIsSent, DeliveredOnce, Has

LEMMA OnceCall ==
  ASSUME ManagerInv, OnceInv, NEW u \in Update, BroadcastCall(u)
  PROVE  OnceInv'
<1>1. UNCHANGED <<batch, todo, groups, clients, got>> /\ call[u] = "new"
  BY DEF BroadcastCall, BroadcastSend, BroadcastDrop
<1>2. ~InChannel(u, updates) /\ ~InChannel(u, batch) /\ \A c \in Client : ~Has(c, u)
  BY <1>1 DEF OnceInv, Single, SentIsServed
<1>3. call' = [call EXCEPT ![u] = call'[u]] /\ \A v \in Update \ {u} : call'[v] = call[v]
  BY DEF BroadcastCall, BroadcastSend, BroadcastDrop, ManagerInv, BroadcastTypeOK
<1>4. \/ Distinct(updates') /\ call'[u] = "accepted"
         /\ \A v : InChannel(v, updates') <=> (InChannel(v, updates) \/ v = u)
      \/ updates' = updates
  <2>1. CASE BroadcastSend(u)
    <3>1. updates \in Seq(Update) /\ updates' = Append(updates, u) /\ call'[u] = "accepted"
      BY <2>1 DEF BroadcastSend, ManagerInv, BroadcastTypeOK
    <3>. QED
      BY <1>2, <3>1, PutInChannel DEF OnceInv, Single
  <2>2. CASE BroadcastDrop(u)
    BY <2>2 DEF BroadcastDrop
  <2>. QED
    BY <2>1, <2>2 DEF BroadcastCall
<1>5. Single'
  BY <1>1, <1>2, <1>3, <1>4 DEF OnceInv, Single
<1>6. SentIsServed'
  BY <1>1, <1>2, <1>3, <1>4 DEF OnceInv, SentIsServed, Has
<1>7. ServedIsSent' /\ DeliveredOnce'
  BY <1>1 DEF OnceInv, ServedIsSent, DeliveredOnce, Has
<1>. QED
  BY <1>1, <1>5, <1>6, <1>7 DEF OnceInv

\* The groups of a batch are those of all its updates' clients.
LEMMA GroupsOfBatch ==
  ASSUME ManagerInv, NEW b \in Seq(Update), NEW c \in clients, NEW u \in Update, InChannel(u, b)
  PROVE  CellsFor(c, u) \subseteq CellsOf(b) \cap DOMAIN groups
<1>1. c \in Client /\ Cover[c] \subseteq Cell
  BY CellAssumption DEF ManagerInv, BroadcastTypeOK
<1>2. Cover[c] \subseteq DOMAIN groups
  BY <1>1 DEF ManagerInv, Subscriptions
<1>3. CellsAt[PlaceOf[u]] \subseteq CellsOf(b)
  BY DEF InChannel, CellsOf
<1>. QED
  BY <1>2, <1>3 DEF CellsFor

\* A batch begins with nothing of it sent, and with all its groups to be served.
LEMMA OnceProcess ==
  ASSUME ManagerInv, OnceInv, todo = {}, NEW b \in Seq(Update), call' = call,
         UNCHANGED <<groups, clients, got>>,
         Distinct(updates'), \A u : InChannel(u, updates') => InChannel(u, updates),
         \A u \in Update : InChannel(u, b) =>
           /\ ~InChannel(u, updates') /\ call[u] = "accepted"
           /\ \A c \in Client : ~Has(c, u),
         \/ ProcessBatch(b)
         \/ batch' = b /\ todo' = todo
  PROVE  OnceInv'
<1>1. \/ batch' = b /\ todo' \in {{}, CellsOf(b) \cap DOMAIN groups}
      \/ batch' = <<>> /\ todo' = {}
  BY DEF ProcessBatch, BatchEnds, Reset
<1>2. \A u : InChannel(u, batch') => InChannel(u, b)
  BY <1>1 DEF InChannel
<1>3. Single'
  BY <1>2 DEF OnceInv, Single
<1>4. SentIsServed'
  BY <1>2 DEF OnceInv, SentIsServed, Has
<1>5. ServedIsSent'
  <2>. SUFFICES ASSUME todo' # {}, NEW c \in clients, NEW u \in Update, InChannel(u, batch')
                PROVE  CellsFor(c, u) \ todo' = {}
    BY DEF ServedIsSent, CellsFor
  <2>1. todo' = CellsOf(b) \cap DOMAIN groups /\ InChannel(u, b)
    BY <1>1, <1>2
  <2>. QED
    BY <2>1, GroupsOfBatch
<1>6. DeliveredOnce'
  BY DEF OnceInv, DeliveredOnce
<1>. QED
  BY <1>1, <1>3, <1>4, <1>5, <1>6 DEF OnceInv

LEMMA OnceTake ==
  ASSUME ManagerInv, OnceInv, TakeUpdate
  PROVE  OnceInv'
<1>. DEFINE u0 == Head(updates)
            b  == Append(batch, u0)
<1>1. /\ updates \in Seq(Update) /\ updates # <<>> /\ updates' = Tail(updates) /\ u0 \in Update
      /\ batch \in Seq(Update) /\ b \in Seq(Update) /\ todo = {}
      /\ UNCHANGED <<call, groups, clients, got>>
      /\ \/ ProcessBatch(b)
         \/ batch' = b /\ UNCHANGED todo
  BY DEF TakeUpdate, Selecting, ManagerInv, BroadcastTypeOK
<1>2. /\ InChannel(u0, updates) /\ Distinct(updates') /\ ~InChannel(u0, updates')
      /\ \A u : InChannel(u, updates') => InChannel(u, updates)
  BY <1>1, TakenFromChannel DEF OnceInv, Single
<1>3. \A u : InChannel(u, b) => InChannel(u, batch) \/ u = u0
  BY <1>1, PutInChannel
<1>. HIDE DEF b, u0
<1>4. \A u \in Update : InChannel(u, b) =>
        /\ ~InChannel(u, updates') /\ call[u] = "accepted"
        /\ \A c \in Client : ~Has(c, u)
  BY <1>1, <1>2, <1>3 DEF OnceInv, Single, SentIsServed
<1>. QED
  BY <1>1, <1>2, <1>4, OnceProcess

LEMMA OnceTick ==
  ASSUME ManagerInv, OnceInv, BatchTick
  PROVE  OnceInv'
<1>1. /\ batch \in Seq(Update) /\ todo = {} /\ ProcessBatch(batch)
      /\ UNCHANGED <<call, updates, groups, clients, got>>
  BY DEF BatchTick, Selecting, ManagerInv, BroadcastTypeOK
<1>2. \A u \in Update : InChannel(u, batch) =>
        /\ ~InChannel(u, updates) /\ call[u] = "accepted"
        /\ \A c \in Client : ~Has(c, u)
  BY <1>1 DEF OnceInv, Single, SentIsServed
<1>3. Distinct(updates)
  BY DEF OnceInv, Single
<1>. QED
  BY <1>1, <1>2, <1>3, OnceProcess

\* What a group's message adds to what its clients have.
Message(g) == {batch[n] : n \in InCell(g)}

LEMMA ServeSends ==
  ASSUME ManagerInv, NEW g \in todo, todo \subseteq DOMAIN groups, ServeGroup(g)
  PROVE  /\ Addressees(g) \subseteq Client
         /\ \A c \in Client \ Addressees(g) : got'[c] = got[c]
         /\ \A c \in Addressees(g) :
              \E k :
                /\ k \notin DOMAIN got[c] /\ DOMAIN got'[c] = DOMAIN got[c] \cup {k}
                /\ \A i \in DOMAIN got[c] : got'[c][i] = got[c][i]
                /\ got'[c][k].of = Message(g)
<1>. DEFINE message(c) == [sent |-> Included(g), of |-> Message(g), kept |-> Room(c)]
<1>1. clients \subseteq Client /\ got \in [Client -> Seq(Broadcasted)]
  BY DEF ManagerInv, BroadcastTypeOK
<1>2. Addressees(g) \subseteq Client
  BY <1>1 DEF Addressees
<1>3. got' = [c \in Client |-> IF c \in Addressees(g) THEN Append(got[c], message(c)) ELSE got[c]]
  BY DEF ServeGroup, Message
<1>4. \A c : message(c).of = Message(g)
  OBVIOUS
<1>. HIDE DEF message
<1>5. ASSUME NEW c \in Addressees(g)
      PROVE  \E k :
               /\ k \notin DOMAIN got[c] /\ DOMAIN got'[c] = DOMAIN got[c] \cup {k}
               /\ \A i \in DOMAIN got[c] : got'[c][i] = got[c][i]
               /\ got'[c][k].of = Message(g)
  <2>1. got'[c] = Append(got[c], message(c)) /\ got[c] \in Seq(Broadcasted)
    BY <1>1, <1>2, <1>3
  <2>2. /\ Len(got[c]) \in Nat /\ DOMAIN got[c] = 1..Len(got[c])
        /\ DOMAIN got'[c] = 1..(Len(got[c]) + 1) /\ got'[c][Len(got[c]) + 1] = message(c)
        /\ \A i \in 1..Len(got[c]) : got'[c][i] = got[c][i]
    BY <2>1
  <2>3. Len(got[c]) + 1 \notin DOMAIN got[c] /\ DOMAIN got'[c] = DOMAIN got[c] \cup {Len(got[c]) + 1}
    BY <2>2
  <2>. QED
    BY <1>4, <2>2, <2>3
<1>. QED
  BY <1>2, <1>3, <1>5

LEMMA ServeHas ==
  ASSUME ManagerInv, NEW g \in todo, todo \subseteq DOMAIN groups, ServeGroup(g)
  PROVE  /\ \A c \in Client : \A u : Has(c, u)' <=> (Has(c, u) \/ (c \in Addressees(g) /\ u \in Message(g)))
         /\ (\A c \in Addressees(g), u \in Message(g) : ~Has(c, u)) =>
              (DeliveredOnce => DeliveredOnce')
<1>1. /\ \A c \in Client \ Addressees(g) : got'[c] = got[c]
      /\ \A c \in Addressees(g) :
           \E k :
             /\ k \notin DOMAIN got[c] /\ DOMAIN got'[c] = DOMAIN got[c] \cup {k}
             /\ \A i \in DOMAIN got[c] : got'[c][i] = got[c][i]
             /\ got'[c][k].of = Message(g)
  BY ServeSends
<1>2. ASSUME NEW c \in Client, NEW u
      PROVE  Has(c, u)' <=> (Has(c, u) \/ (c \in Addressees(g) /\ u \in Message(g)))
  BY <1>1 DEF Has
<1>3. ASSUME \A c \in Addressees(g), u \in Message(g) : ~Has(c, u), DeliveredOnce,
             NEW c \in Client, NEW m \in DOMAIN got'[c], NEW n \in DOMAIN got'[c], m # n
      PROVE  got'[c][m].of \cap got'[c][n].of = {}
  <2>1. CASE c \in Addressees(g)
    <3>1. PICK k : /\ k \notin DOMAIN got[c] /\ DOMAIN got'[c] = DOMAIN got[c] \cup {k}
                   /\ \A i \in DOMAIN got[c] : got'[c][i] = got[c][i]
                   /\ got'[c][k].of = Message(g)
      BY <1>1, <2>1
    <3>2. \A i \in DOMAIN got[c] : got[c][i].of \cap Message(g) = {}
      BY <1>3, <2>1 DEF Has
    <3>. QED
      BY <1>3, <3>1, <3>2 DEF DeliveredOnce
  <2>2. CASE c \notin Addressees(g)
    BY <1>1, <1>3, <2>2 DEF DeliveredOnce
  <2>. QED
    BY <2>1, <2>2
<1>. QED
  BY <1>2, <1>3 DEF DeliveredOnce

\* Whom a group is served to, and with what.
LEMMA ServedGroup ==
  ASSUME ManagerInv, NEW g \in todo, todo \subseteq DOMAIN groups
  PROVE  /\ \A u : u \in Message(g) <=>
              InChannel(u, batch) /\ g \in CellsAt[PlaceOf[u]]
         /\ \A u : InChannel(u, batch) => u \in Update
         /\ \A c \in Addressees(g) : c \in clients /\ c \in Client /\ g \in Cover[c]
         /\ \A c \in clients, u \in Message(g) :
              g \in Cover[c] /\ PlaceOf[u] \in Area[c] => c \in Addressees(g)
<1>1. batch \in Seq(Update) /\ todo \subseteq Cell /\ clients \subseteq Client /\ Subscriptions
  BY DEF ManagerInv, BroadcastTypeOK
<1>2. \A c \in Client : c \in groups[g] <=> (c \in clients /\ g \in Cover[c])
  BY <1>1 DEF Subscriptions
<1>3. \A u : u \in Message(g) <=> InChannel(u, batch) /\ g \in CellsAt[PlaceOf[u]]
  BY DEF Message, InCell, InChannel
<1>4. \A u : InChannel(u, batch) => u \in Update
  BY <1>1 DEF InChannel
<1>5. \A c \in Addressees(g) : c \in clients /\ c \in Client /\ g \in Cover[c]
  BY <1>1, <1>2 DEF Addressees
<1>6. ASSUME NEW c \in clients, NEW u \in Message(g), g \in Cover[c], PlaceOf[u] \in Area[c]
      PROVE  c \in Addressees(g)
  BY <1>1, <1>2, <1>6 DEF Addressees, InRadius, Message, InCell
<1>. QED
  BY <1>3, <1>4, <1>5, <1>6

LEMMA OnceServe ==
  ASSUME ManagerInv, OnceInv, NEW g \in todo, ServeGroup(g)
  PROVE  OnceInv'
<1>1. /\ todo \subseteq DOMAIN groups /\ Single /\ SentIsServed /\ ServedIsSent /\ DeliveredOnce
      /\ todo # {} /\ clients \subseteq Client
  BY DEF OnceInv, ManagerInv, BroadcastTypeOK
<1>2. /\ UNCHANGED <<call, updates, groups, clients>>
      /\ \/ todo = {g} /\ batch' = <<>> /\ todo' = {}
         \/ todo # {g} /\ batch' = batch /\ todo' = todo \ {g}
  BY DEF ServeGroup, LastGroup, BatchEnds, Reset
<1>3. \A u : InChannel(u, batch') =>
        InChannel(u, batch) /\ batch' = batch /\ todo' = todo \ {g} /\ todo' # {}
  BY <1>2 DEF InChannel
<1>4. ASSUME NEW c \in Addressees(g), NEW u \in Message(g)
      PROVE  ~Has(c, u) /\ u \in Update /\ InChannel(u, batch) /\ g \in CellsFor(c, u)
             /\ CellsFor(c, u) = {g}
  <2>1. /\ c \in Client /\ g \in Cover[c] /\ u \in Update /\ InChannel(u, batch)
        /\ g \in CellsAt[PlaceOf[u]] /\ PlaceOf[u] \in Place
    BY <1>1, ServedGroup, UpdateAssumption
  <2>2. CellsFor(c, u) = {g}
    BY <2>1, CellAssumption DEF CellsFor
  <2>3. ~Has(c, u)
    BY <1>1, <2>1, <2>2 DEF SentIsServed
  <2>. QED
    BY <2>1, <2>2, <2>3
<1>5. /\ \A c \in Client : \A u : Has(c, u)' <=> (Has(c, u) \/ (c \in Addressees(g) /\ u \in Message(g)))
      /\ DeliveredOnce'
  BY <1>1, <1>4, ServeHas
<1>6. Single'
  BY <1>1, <1>2, <1>3 DEF Single
<1>7. SentIsServed'
  <2>. SUFFICES ASSUME NEW c \in Client, NEW u \in Update, Has(c, u)'
                PROVE  /\ call[u] = "accepted" /\ ~InChannel(u, updates)
                       /\ InChannel(u, batch') => todo' # {} /\ CellsFor(c, u) \ todo' # {}
    BY <1>2 DEF SentIsServed, CellsFor
  <2>1. CASE Has(c, u)
    <3>1. /\ call[u] = "accepted" /\ ~InChannel(u, updates)
          /\ InChannel(u, batch) => CellsFor(c, u) \ todo # {}
      BY <1>1, <2>1 DEF SentIsServed
    <3>. QED
      BY <1>2, <1>3, <3>1
  <2>2. CASE c \in Addressees(g) /\ u \in Message(g)
    <3>1. InChannel(u, batch) /\ CellsFor(c, u) = {g}
      BY <1>4, <2>2
    <3>2. call[u] = "accepted" /\ ~InChannel(u, updates)
      BY <1>1, <3>1 DEF Single
    <3>. QED
      BY <1>2, <1>3, <3>1, <3>2
  <2>. QED
    BY <1>5, <2>1, <2>2
<1>8. ServedIsSent'
  <2>. SUFFICES ASSUME todo' # {}, NEW c \in clients, NEW u \in Update,
                       InChannel(u, batch'), PlaceOf[u] \in Area[c], CellsFor(c, u) \ todo' # {}
                PROVE  Has(c, u)'
    BY <1>2 DEF ServedIsSent, CellsFor
  <2>1. InChannel(u, batch) /\ todo' = todo \ {g} /\ c \in Client
    BY <1>1, <1>3
  <2>2. CASE CellsFor(c, u) \ todo # {}
    BY <1>1, <1>5, <2>1, <2>2 DEF ServedIsSent
  <2>3. CASE CellsFor(c, u) \ todo = {}
    <3>1. g \in Cover[c] /\ g \in CellsAt[PlaceOf[u]]
      BY <2>1, <2>3 DEF CellsFor
    <3>2. c \in Addressees(g) /\ u \in Message(g)
      BY <1>1, <2>1, <3>1, ServedGroup
    <3>. QED
      BY <1>5, <2>1, <3>2
  <2>. QED
    BY <2>2, <2>3
<1>. QED
  BY <1>1, <1>2, <1>5, <1>6, <1>7, <1>8 DEF OnceInv

LEMMA OnceRun ==
  ASSUME ManagerInv, OnceInv, Run
  PROVE  OnceInv'
<1>1. CASE HandleRegister \/ HandleUnregister
  <2>1. UNCHANGED <<call, updates, batch, todo, got>> /\ todo = {}
    BY <1>1 DEF HandleRegister, HandleUnregister, Selecting
  <2>. QED
    BY <2>1, OnceUntouched
<1>. QED
  BY <1>1, OnceTake, OnceTick, OnceServe DEF Run

\* Nothing that a connection does concerns the updates.
LEMMA ConnectionKeeps ==
  ASSUME NEW c \in Client, Connection(c)
  PROVE  UNCHANGED <<call, updates, batch, todo, groups, clients, got>>
BY DEF Connection, Connect, Handle, Register, StartPumps, SendWelcome, SubscribeToRegion, Lock,
       Respond, ReadSubscribe, Read, UpdateSubscription, ReadFails, Unregister, CloseReader,
       WritePump, Write, WriteFails, TakeSignal, AdaptiveUpdate, TriggerUpdate, managerVars

LEMMA OnceNext ==
  ASSUME ManagerInv, OnceInv, [Next]_vars
  PROVE  OnceInv'
<1>1. CASE UNCHANGED vars
  BY <1>1, OnceUntouched DEF vars, managerVars
<1>2. ASSUME NEW c \in Client, Connection(c)
      PROVE  OnceInv'
  BY <1>2, ConnectionKeeps, OnceUntouched
<1>. QED
  BY <1>1, <1>2, OnceRun, OnceCall DEF Next, Call, Manager

LEMMA AlwaysOnceInv == Spec => [](ManagerInv /\ OnceInv)
<1>1. WebSocketInit => ManagerInv /\ OnceInv
  BY ManagerInit, OnceInit DEF WebSocketInit
<1>2. ManagerInv /\ OnceInv /\ [Next]_vars => (ManagerInv /\ OnceInv)'
  BY ManagerNext, OnceNext
<1>. QED
  BY <1>1, <1>2, PTL DEF Spec

\* No update is broadcast twice to a client, for any geometry in which the cells of
\* a client have one precision: a client meets a place's cells in at most one group.
THEOREM DeliveredAtMostOnce == Spec => []DeliveredOnce
<1>1. ManagerInv /\ OnceInv => DeliveredOnce
  BY DEF OnceInv
<1>. QED
  BY <1>1, AlwaysOnceInv, PTL

\* What the end of a batch leaves.
LEMMA BatchEndServes ==
  ASSUME ManagerInv, OnceInv, [Next]_vars, batch # <<>>, batch' = <<>>,
         NEW c \in clients, NEW u \in Update, InChannel(u, batch), PlaceOf[u] \in Area[c],
         CellsFor(c, u) # {}
  PROVE  Has(c, u)'
<1>1. /\ batch \in Seq(Update) /\ updates \in Seq(Update) /\ c \in Client
      /\ todo \subseteq DOMAIN groups
  BY DEF OnceInv, ManagerInv, BroadcastTypeOK
\* No batch ends without being served while a client of its cells is registered.
<1>2. ASSUME NEW b \in Seq(Update), b # <<>>, InChannel(u, b), ProcessBatch(b)
      PROVE  FALSE
  <2>1. CellsOf(b) \cap DOMAIN groups # {}
    BY <1>2, GroupsOfBatch
  <2>. QED
    BY <1>2, <2>1 DEF ProcessBatch
<1>3. ~BatchTick
  BY <1>1, <1>2 DEF BatchTick
<1>4. ~TakeUpdate
  <2>. SUFFICES ASSUME TakeUpdate
                PROVE  FALSE
    OBVIOUS
  <2>. DEFINE b == Append(batch, Head(updates))
  <2>1. Head(updates) \in Update /\ b \in Seq(Update)
    BY <1>1 DEF TakeUpdate
  <2>2. b # <<>> /\ InChannel(u, b)
    BY <1>1, <2>1, PutInChannel
  <2>3. \/ ProcessBatch(b)
        \/ batch' = b
    BY DEF TakeUpdate
  <2>. HIDE DEF b
  <2>. QED
    BY <1>2, <2>1, <2>2, <2>3
<1>5. \E g \in todo : ServeGroup(g)
  <2>1. batch' # batch
    OBVIOUS
  <2>2. \A d \in Client : ~Connection(d)
    BY <2>1, ConnectionKeeps
  <2>. QED
    BY <1>3, <1>4, <2>1, <2>2 DEF Next, Call, Manager, Run, BroadcastCall, BroadcastSend,
                                  BroadcastDrop, HandleRegister, HandleUnregister, vars, managerVars
<1>6. PICK g \in todo : ServeGroup(g)
  BY <1>5
<1>7. todo = {g}
  BY <1>6 DEF ServeGroup, LastGroup
<1>8. \A d \in Client : \A v : Has(d, v)' <=> (Has(d, v) \/ (d \in Addressees(g) /\ v \in Message(g)))
  BY <1>1, <1>6, ServeHas
<1>9. CASE CellsFor(c, u) \ todo # {}
  BY <1>1, <1>6, <1>8, <1>9 DEF OnceInv, ServedIsSent
<1>10. CASE CellsFor(c, u) \ todo = {}
  <2>1. g \in Cover[c] /\ g \in CellsAt[PlaceOf[u]]
    BY <1>7, <1>10 DEF CellsFor
  <2>2. c \in Addressees(g) /\ u \in Message(g)
    BY <1>1, <1>6, <2>1, ServedGroup
  <2>. QED
    BY <1>1, <1>8, <2>2
<1>. QED
  BY <1>9, <1>10

\* A batch ends only when every registered client has been sent, or was skipped for
\* want of room, each of its updates that lies in the client's cells and radius.
THEOREM NearAreAlwaysServed == Spec => NearAreServed
<1>1. ASSUME ManagerInv, OnceInv, [Next]_vars, batch # <<>>, batch' = <<>>,
             NEW c \in clients, NEW n \in DOMAIN batch,
             PlaceOf[batch[n]] \in Area[c], Cover[c] \cap CellsAt[PlaceOf[batch[n]]] # {}
      PROVE  \E k \in DOMAIN got'[c] : batch[n] \in got'[c][k].of
  <2>1. PICK u \in Update : u = batch[n]
    BY <1>1 DEF ManagerInv, BroadcastTypeOK
  <2>2. InChannel(u, batch) /\ PlaceOf[u] \in Area[c] /\ CellsFor(c, u) # {}
    BY <1>1, <2>1 DEF InChannel, CellsFor
  <2>3. Has(c, u)'
    BY <1>1, <2>2, BatchEndServes
  <2>. QED
    BY <2>1, <2>3 DEF Has
<1>2. ManagerInv /\ OnceInv /\ [Next]_vars =>
        [batch # <<>> /\ batch' = <<>> =>
           \A c \in clients, n \in DOMAIN batch :
             LET u == batch[n] IN
             PlaceOf[u] \in Area[c] /\ Cover[c] \cap CellsAt[PlaceOf[u]] # {}
               => \E k \in DOMAIN got'[c] : u \in got'[c][k].of]_managerVars
  BY <1>1
<1>. QED
  BY <1>2, AlwaysOnceInv, PTL DEF Spec, NearAreServed
=============================================================================
