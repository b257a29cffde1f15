----------------------------- MODULE Broadcast -----------------------------
(***************************************************************************)
(* internal/handler/broadcast.go: BroadcastManager, which hands the        *)
(* updates of the message handlers to the WebSocket clients whose region   *)
(* they lie in.                                                            *)
(*                                                                         *)
(* Callers and connections talk to the manager through three channels, and *)
(* the goroutine run takes from whichever is ready.  Only run writes groups *)
(* and clients.  A batch goes to one group after another and the clients'  *)
(* writers run in between; a group's clients are served in one step.       *)
(*                                                                         *)
(* Places are encoded with several precisions, and the cells of a client   *)
(* have one: the geometry is given by CellsAt, Cover and Area.             *)
(***************************************************************************)
EXTENDS Integers, Sequences, FiniteSets

CONSTANTS
  Client,           \* WebSocket connections
  Update,           \* updates, each broadcast once
  TypeOf, PlaceOf,  \* the type and the position of each update
  Cell,             \* geohashes
  CellsAt,          \* the geohashes of a place, one per precision (3 to 7)
  Cover,            \* geo.Cover: the geohashes a client is subscribed to
  Area,             \* the places within the radius of a client
  UpdatesBuffer,    \* capacity of the updates channel (1000)
  RegisterBuffer,   \* capacity of the register and unregister channels (100)
  SendBuffer,       \* capacity of Client.send (256)
  BatchSize         \* BroadcastManager.batchSize (50)

Place == DOMAIN CellsAt

ASSUME UpdateAssumption ==
  /\ IsFiniteSet(Update) /\ IsFiniteSet(Client)
  /\ TypeOf \in [Update -> {"pilot", "thermal", "station"}]
  /\ PlaceOf \in [Update -> Place]
ASSUME CellAssumption ==
  /\ CellsAt \in [Place -> SUBSET Cell]
  /\ Cover \in [Client -> SUBSET Cell]
  /\ Area \in [Client -> SUBSET Place]
  /\ \A c \in Client, p \in Place : \A g, h \in Cover[c] \cap CellsAt[p] : g = h
ASSUME BufferAssumption ==
  /\ UpdatesBuffer \in Nat \ {0} /\ RegisterBuffer \in Nat \ {0}
  /\ SendBuffer \in Nat \ {0} /\ BatchSize \in Nat \ {0}

VARIABLES
  call,        \* the Broadcast call of each update: "new", "accepted" or "dropped"
  updates,     \* the three channels
  register,
  unregister,
  batch,       \* run's batch
  todo,        \* the geohashes whose group processBatch has yet to serve
  groups,      \* geohash -> clients, for the groups that exist
  clients,     \* the registered clients; a client's geohashes are Cover
  send,        \* Client.send: the kinds of the messages in it
  broadcast,   \* metrics: UpdatesBroadcast
  got          \* history: per client, the broadcasts made for it

managerVars == <<call, updates, register, unregister, batch, todo, groups, clients,
                 send, broadcast, got>>

Kind        == {"welcome", "subscribed", "updates"}
Broadcasted == [sent : SUBSET Update, of : SUBSET Update, kept : BOOLEAN]

RoomAndOne(c)  == Len(send[c]) <= SendBuffer
Room(c)        == Len(send[c]) < SendBuffer
PutIn(c, kind) == send' = [send EXCEPT ![c] = Append(@, kind)]

BroadcastInit ==
  /\ call       = [u \in Update |-> "new"]
  /\ updates    = <<>>
  /\ register   = <<>>
  /\ unregister = <<>>
  /\ batch      = <<>>
  /\ todo       = {}
  /\ groups     = [g \in {} |-> {}]
  /\ clients    = {}
  /\ send       = [c \in Client |-> <<>>]
  /\ broadcast  = 0
  /\ got        = [c \in Client |-> <<>>]

-----------------------------------------------------------------------------
(* Broadcast, called by WebSocketHandler.BroadcastUpdate.                   *)

\* UpdatesReceived is counted with the send.
BroadcastSend(u) ==
  /\ call[u] = "new"
  /\ Len(updates) < UpdatesBuffer
  /\ call'    = [call EXCEPT ![u] = "accepted"]
  /\ updates' = Append(updates, u)
  /\ UNCHANGED <<register, unregister, batch, todo, groups, clients, send, broadcast, got>>

BroadcastDrop(u) ==
  /\ call[u] = "new"
  /\ Len(updates) = UpdatesBuffer
  /\ call' = [call EXCEPT ![u] = "dropped"]
  /\ UNCHANGED <<updates, register, unregister, batch, todo, groups, clients, send, broadcast,
                 got>>

-----------------------------------------------------------------------------
(* run.  The select takes any ready case, when no batch is being processed. *)

Selecting == todo = {}

HandleRegister ==
  LET c == Head(register) IN
  /\ Selecting
  /\ register # <<>>
  /\ register' = Tail(register)
  /\ groups' = [g \in DOMAIN groups \cup Cover[c] |->
                  (IF g \in DOMAIN groups THEN groups[g] ELSE {})
                    \cup (IF g \in Cover[c] THEN {c} ELSE {})]
  /\ clients' = clients \cup {c}
  /\ UNCHANGED <<call, updates, unregister, batch, todo, send, broadcast, got>>

\* The groups that are left when client c leaves: empty ones are deleted.
AllGroups(c)   == DOMAIN groups
GroupsAfter(c) == {g \in DOMAIN groups : groups[g] \ {c} # {}}

HandleUnregister ==
  LET c == Head(unregister) IN
  /\ Selecting
  /\ unregister # <<>>
  /\ unregister' = Tail(unregister)
  /\ IF c \in clients
       THEN /\ groups'  = [g \in GroupsAfter(c) |-> groups[g] \ {c}]
            /\ clients' = clients \ {c}
       ELSE UNCHANGED <<groups, clients>>
  /\ UNCHANGED <<call, updates, register, batch, todo, send, broadcast, got>>

CellsOf(b) == UNION {CellsAt[PlaceOf[b[n]]] : n \in DOMAIN b}

\* The end of a batch: it is counted and emptied.
Unreset(b) == b
Reset(b)   == <<>>

BatchEnds(b) ==
  /\ broadcast' = broadcast + Len(b)
  /\ batch' = Reset(b)
  /\ todo'  = {}

\* processBatch: the groups that the batch concerns are served next.
ProcessBatch(b) ==
  IF CellsOf(b) \cap DOMAIN groups = {}
  THEN BatchEnds(b)
  ELSE /\ batch' = b
       /\ todo'  = CellsOf(b) \cap DOMAIN groups
       /\ UNCHANGED broadcast

TakeUpdate ==
  LET b == Append(batch, Head(updates)) IN
  /\ Selecting
  /\ updates # <<>>
  /\ updates' = Tail(updates)
  /\ IF Len(b) >= BatchSize
       THEN ProcessBatch(b)
       ELSE batch' = b /\ UNCHANGED <<todo, broadcast>>
  /\ UNCHANGED <<call, register, unregister, groups, clients, send, got>>

BatchTick ==
  /\ Selecting
  /\ batch # <<>>
  /\ ProcessBatch(batch)
  /\ UNCHANGED <<call, updates, register, unregister, groups, clients, send, got>>

-----------------------------------------------------------------------------
(* broadcastToGroup.                                                        *)

\* The ID by which updates are deduplicated.  The Address of a pilot is the name
\* of a Type 1 message, which has none; the ID of a thermal is 0; a station's
\* ChipID is not set.
ObjID(u) == IF TypeOf[u] = "thermal" THEN "0" ELSE ""

\* The positions of the batch whose updates lie in the group's cell.
InCell(g) == {n \in DOMAIN batch : g \in CellsAt[PlaceOf[batch[n]]]}

\* The first update of every ID; the updates without ID are left out.
Included(g) ==
  {batch[n] : n \in {k \in InCell(g) :
    ObjID(batch[k]) # "" /\ \A j \in InCell(g) : j < k => ObjID(batch[j]) # ObjID(batch[k])}}

InRadius(c, g) == \E n \in InCell(g) : PlaceOf[batch[n]] \in Area[c]

\* The clients that the group's message is for; a full send channel is skipped.
Addressees(g)  == {c \in groups[g] : c \in clients /\ InRadius(c, g)}
MustNotSkip(g) == \A c \in Addressees(g) : Room(c)
MaySkip(g)     == TRUE

\* Is g the last group of the batch?
AnyGroup(g)    == TRUE
LastGroup(g)   == todo = {g}

ServeGroup(g) ==
  LET message(c) == [sent |-> Included(g),
                     of   |-> {batch[n] : n \in InCell(g)},
                     kept |-> Room(c)] IN
  /\ g \in todo
  /\ MaySkip(g)
  /\ send' = [c \in Client |-> IF c \in Addressees(g) /\ Room(c)
                             THEN Append(send[c], "updates") ELSE send[c]]
  /\ got'  = [c \in Client |-> IF c \in Addressees(g) THEN Append(got[c], message(c)) ELSE got[c]]
  /\ IF LastGroup(g) THEN BatchEnds(batch)
                     ELSE todo' = todo \ {g} /\ UNCHANGED <<batch, broadcast>>
  /\ UNCHANGED <<call, updates, register, unregister, groups, clients>>

Run ==
  \/ HandleRegister \/ HandleUnregister \/ TakeUpdate \/ BatchTick
  \/ \E g \in todo : ServeGroup(g)

BroadcastCall(u) == BroadcastSend(u) \/ BroadcastDrop(u)

-----------------------------------------------------------------------------
(* Properties.                                                              *)

InChannel(x, channel) == \E n \in DOMAIN channel : channel[n] = x

\* The type of every variable; no channel holds more than its capacity.
BroadcastTypeOK ==
  /\ call       \in [Update -> {"new", "accepted", "dropped"}]
  /\ updates    \in Seq(Update) /\ Len(updates) <= UpdatesBuffer
  /\ register   \in Seq(Client) /\ Len(register) <= RegisterBuffer
  /\ unregister \in Seq(Client) /\ Len(unregister) <= RegisterBuffer
  /\ batch      \in Seq(Update) /\ Len(batch) <= BatchSize
  /\ todo       \subseteq Cell
  /\ DOMAIN groups \subseteq Cell /\ groups \in [DOMAIN groups -> SUBSET Client]
  /\ clients    \subseteq Client
  /\ send       \in [Client -> Seq(Kind)]
  /\ \A c \in Client : Len(send[c]) <= SendBuffer
  /\ broadcast  \in Nat
  /\ got        \in [Client -> Seq(Broadcasted)]

\* The two maps of the manager agree: a client is in the group of a geohash
\* exactly when it is registered and covers it, and no group is empty.
Subscriptions ==
  /\ \A c \in Client, g \in Cell :
       (g \in DOMAIN groups /\ c \in groups[g]) <=> (c \in clients /\ g \in Cover[c])
  /\ \A g \in DOMAIN groups : groups[g] # {}

\* The metrics balance: an update that was received is waiting, in the batch or
\* counted as broadcast.
UpdatesBalance ==
  Cardinality({u \in Update : call[u] = "accepted"}) = Len(updates) + Len(batch) + broadcast

\* No update is broadcast twice to the same client, however its cells and the
\* batches fall.
DeliveredOnce ==
  \A c \in Client : \A m, n \in DOMAIN got[c] : m # n => got[c][m].of \cap got[c][n].of = {}

\* When a batch ends, every update in it has been broadcast to every registered
\* client that covers its place and has it within the radius, or was skipped there
\* for want of room: nobody enters or leaves the groups between two of them.
NearAreServed ==
  [][batch # <<>> /\ batch' = <<>> =>
       \A c \in clients, n \in DOMAIN batch :
         LET u == batch[n] IN
         PlaceOf[u] \in Area[c] /\ Cover[c] \cap CellsAt[PlaceOf[u]] # {}
           => \E k \in DOMAIN got'[c] : u \in got'[c][k].of]_managerVars

\* "BroadcastUpdate sends the update to the connected clients": a broadcast that
\* reaches a client has in it every update of the cell within the client's radius.
UpdatesReach ==
  \A c \in Client : \A n \in DOMAIN got[c] :
    {u \in got[c][n].of : PlaceOf[u] \in Area[c]} \subseteq got[c][n].sent
=============================================================================
