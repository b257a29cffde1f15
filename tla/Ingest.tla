------------------------------- MODULE Ingest -------------------------------
(***************************************************************************)
(* The MQTT message path: internal/mqtt/client.go starts a goroutine per   *)
(* message, which runs the messageHandler of cmd/fanet-api/main.go through *)
(* the validation service, Redis, the MySQL queue and the WebSocket        *)
(* broadcast.                                                              *)
(*                                                                         *)
(* Handlers share the validation states, whose every access is locked, and *)
(* the Redis record of their device, and nothing keeps the handlers of one *)
(* device in the order of its messages.  A Redis call that is answered is  *)
(* one step; a call whose reply is lost may have been executed, may be     *)
(* executed later, without its end (pipelines are not transactions), or    *)
(* never.                                                                  *)
(*                                                                         *)
(* The boundary status and the last movement that a handler adds to the    *)
(* record decide nothing here and are left out; so are thermals and        *)
(* stations, which are saved and broadcast without being validated.        *)
(***************************************************************************)
EXTENDS Validation, Sequences, FiniteSets

CONSTANTS
  Name,         \* names carried by Type 2 messages
  NoName,       \* the empty name
  None,         \* no record, no place, nothing broadcast
  Load          \* the circumstances under which the handlers run

\* May names come, may a Redis call fail, may a record's TTL (12 hours) run out, how late
\* may a message be, and bounds on the messages received, on the handlers at one time and
\* on the Redis calls that get no reply.
Loads == [names : BOOLEAN, faulty : BOOLEAN, expiry : BOOLEAN, delay : Nat, messages : Nat,
          handlers : Nat \ {0}, timeouts : Nat]

ASSUME IngestAssumption ==
  /\ None \notin Place /\ NoName \notin Name
  /\ Load \subseteq Loads

\* The first valid packet does not show a new device: 50 + 15 < 70.
ASSUME TwoPacketsAssumption == InitialScore + ValidPacketBonus < MinScoreToAdd

VARIABLES
  load,    \* the circumstances of the behaviour
  msgs,    \* the messages received; a message is known by its index
  pc,      \* where the handler of each message is
  store,   \* ValidatePilot's shouldStore, per message
  peek,    \* the result of GetValidationState, per message
  record,  \* the hash pilot:<device> in Redis
  unanswered, \* the Redis calls whose reply was lost
  queued,  \* the messages handed to BatchWriter.QueuePilot
  told     \* the last broadcast about each device

handlerVars == <<load, msgs, store, peek, unanswered>>
vars        == <<validationVars, handlerVars, pc, record, queued, told>>

Message == [type : {"air"}, device : Device, place : Place, at : Time, aircraft : Aircraft]
           \cup [type : {"name"}, device : Device, name : Name]
Record  == [place : Place \cup {None}, at : Time, name : Name \cup {NoName}, ttl : BOOLEAN]
Telling == [removed : BOOLEAN, of : Nat]
Call    == [of : Nat, does : {"save", "remove", "create", "rename"}, sent : Time]

ASSUME NoneAssumption == None \notin Record \cup Telling

Running     == {n \in DOMAIN msgs : pc[n] # "done"}
Quiet(d)    == \A n \in Running : msgs[n].device # d
DeviceOf(n) == msgs[n].device
Placed(d)   == record[d] # None /\ record[d].place # None

IngestInit ==
  /\ Init
  /\ load   \in Load
  /\ msgs   = <<>>
  /\ pc     = <<>>
  /\ store  = <<>>
  /\ peek   = <<>>
  /\ record = [d \in Device |-> None]
  /\ unanswered = {}
  /\ queued = {}
  /\ told   = [d \in Device |-> None]

Goto(n, place) == pc' = [pc EXCEPT ![n] = place]

-----------------------------------------------------------------------------
(* client.messageHandler: a goroutine per message.  A message may reach the *)
(* broker late: base stations stamp it with the time they received it.      *)
(* Time passes only between air messages, one unit for each.               *)

Receive(m, first) ==
  /\ Len(msgs) < load.messages
  /\ Cardinality(Running) < load.handlers
  /\ msgs'  = Append(msgs, m)
  /\ pc'    = Append(pc, first)
  /\ store' = Append(store, FALSE)
  /\ peek'  = Append(peek, Unknown)
  /\ UNCHANGED <<load, record, unanswered, queued, told>>

ReceiveAir(d, p, a) ==
  /\ Tick
  /\ \E delay \in 0..load.delay :
       /\ delay <= now
       /\ Receive([type |-> "air", device |-> d, place |-> p, at |-> now' - delay, aircraft |-> a],
                  "validate")

ReceiveName(d, name) ==
  /\ load.names
  /\ Receive([type |-> "name", device |-> d, name |-> name], "exists")
  /\ UNCHANGED validationVars

-----------------------------------------------------------------------------
(* The calls that write the hash of a device: SavePilot, RemovePilot and    *)
(* the two forms of UpdatePilotName.                                        *)

\* SavePilot: HSET writes every field, the name of a Type 1 message is empty.
SavedOnReceipt(n) == [place |-> msgs[n].place, at |-> now + 1, name |-> NoName, ttl |-> TRUE]

SavedRecord(n) == [place |-> msgs[n].place, at |-> msgs[n].at, name |-> NoName, ttl |-> TRUE]

\* HSET of one or two fields into the hash, which it creates when there is none.
CreatedRecord(n, old, time) ==
  [place |-> IF old = None THEN None ELSE old.place, at |-> time, name |-> msgs[n].name,
   ttl |-> TRUE]

RenamedRecord(n, old) ==
  IF old = None THEN [place |-> None, at |-> 0, name |-> msgs[n].name, ttl |-> FALSE]
  ELSE [old EXCEPT !.name = msgs[n].name]

Writing  == {"save", "remove", "create", "rename"}
CallOf(n) == [of |-> n, does |-> pc[n], sent |-> now]

\* The hash once Redis has executed a whole call, and once it has executed the HSET
\* of a pipeline but not the EXPIRE that follows it.
After(call, old) ==
  CASE call.does = "save"   -> SavedRecord(call.of)
    [] call.does = "remove" -> None
    [] call.does = "create" -> CreatedRecord(call.of, old, call.sent)
    [] call.does = "rename" -> RenamedRecord(call.of, old)

BeforeExpire(call, old) ==
  IF After(call, old) = None THEN None
  ELSE [After(call, old) EXCEPT !.ttl = old # None /\ old.ttl]

Answered(n) ==
  /\ record' = [record EXCEPT ![DeviceOf(n)] = After(CallOf(n), @)]
  /\ UNCHANGED <<validationVars, handlerVars, queued, told>>

\* ReadTimeout: no reply comes.  The client sends the call again (Save and the other
\* actions) or returns the error (WriteFails, NameFails).
NoReply(n) ==
  /\ pc[n] \in Writing
  /\ Cardinality(unanswered) < load.timeouts
  /\ unanswered' = unanswered \cup {CallOf(n)}
  /\ UNCHANGED <<validationVars, load, msgs, store, peek, pc, record, queued, told>>

\* Redis executes such a call, whatever has happened since, and more than once when
\* it was sent again.
Execute(call) ==
  /\ \E left \in {After(call, record[DeviceOf(call.of)]),
                  BeforeExpire(call, record[DeviceOf(call.of)])} :
       record' = [record EXCEPT ![DeviceOf(call.of)] = left]
  /\ UNCHANGED <<validationVars, handlerVars, pc, queued, told>>

-----------------------------------------------------------------------------
(* messageHandler, case 1 (air tracking).                                   *)

Validate(n) ==
  /\ pc[n] = "validate"
  /\ ValidatePilot(DeviceOf(n), msgs[n].place, msgs[n].at, msgs[n].aircraft)
  /\ store' = [store EXCEPT ![n] = states'[DeviceOf(n)].validated]
  /\ Goto(n, "inspect")
  /\ UNCHANGED <<load, msgs, peek, record, unanswered, queued, told>>

\* The test of the branch that removes the record.
WasValidated(seen) == seen # Unknown /\ seen.validated

\* GetValidationState, and the branch that the two answers lead to.
Inspect(n) ==
  LET seen == states[DeviceOf(n)] IN
  /\ pc[n] = "inspect"
  /\ peek' = [peek EXCEPT ![n] = seen]
  /\ Goto(n, IF store[n] THEN "save" ELSE IF WasValidated(seen) THEN "remove" ELSE "done")
  /\ UNCHANGED <<validationVars, load, msgs, store, record, unanswered, queued, told>>

Save(n) == pc[n] = "save" /\ Answered(n) /\ Goto(n, "queue")

\* A failed save ends the handler, a failed removal is logged.
WriteFails(n) ==
  /\ load.faulty
  /\ pc[n] \in {"save", "remove"}
  /\ Goto(n, "done")
  /\ UNCHANGED <<validationVars, handlerVars, record, queued, told>>

\* QueuePilot takes the record or drops it; the handler goes on either way.
ReturnIfFull(accepted) == IF accepted THEN "tell" ELSE "done"
AfterQueue(accepted)   == "tell"

Queue(n) ==
  /\ pc[n] \in {"queue", "queueName"}
  /\ \E accepted \in BOOLEAN :
       /\ queued' = IF accepted THEN queued \cup {n} ELSE queued
       /\ Goto(n, IF pc[n] = "queue" THEN AfterQueue(accepted) ELSE "done")
  /\ UNCHANGED <<validationVars, handlerVars, record, told>>

Remove(n) == pc[n] = "remove" /\ Answered(n) /\ Goto(n, "tellRemoved")

Tell(n) ==
  /\ pc[n] \in {"tell", "tellRemoved"}
  /\ told' = [told EXCEPT ![DeviceOf(n)] = [removed |-> pc[n] = "tellRemoved", of |-> n]]
  /\ Goto(n, "done")
  /\ UNCHANGED <<validationVars, handlerVars, record, queued>>

-----------------------------------------------------------------------------
(* messageHandler, case 2 (name): UpdatePilotName looks whether the key     *)
(* exists, and then writes.  A failed EXISTS reads as zero.                 *)

Exists(n) ==
  /\ pc[n] = "exists"
  /\ \/ Goto(n, IF record[DeviceOf(n)] = None THEN "create" ELSE "rename")
     \/ load.faulty /\ Goto(n, "create")
  /\ UNCHANGED <<validationVars, handlerVars, record, queued, told>>

Create(n) == pc[n] = "create" /\ Answered(n) /\ Goto(n, "queueName")
Rename(n) == pc[n] = "rename" /\ Answered(n) /\ Goto(n, "queueName")

\* A failed write is logged; the name still goes to MySQL.
NameFails(n) ==
  /\ load.faulty
  /\ pc[n] \in {"create", "rename"}
  /\ Goto(n, "queueName")
  /\ UNCHANGED <<validationVars, handlerVars, record, queued, told>>

-----------------------------------------------------------------------------
\* The key's TTL runs out; how long that takes is not modelled.
Expire(d) ==
  /\ load.expiry
  /\ record[d] # None
  /\ record[d].ttl
  /\ record' = [record EXCEPT ![d] = None]
  /\ UNCHANGED <<validationVars, handlerVars, pc, queued, told>>

\* POST /invalidate/:device_id and the hourly cleanup.
Administer ==
  /\ CleanupOldStates \/ \E d \in Device : InvalidateDevice(d)
  /\ UNCHANGED <<handlerVars, pc, record, queued, told>>

Handle(n) ==
  \/ Validate(n) \/ Inspect(n) \/ Save(n) \/ WriteFails(n) \/ Queue(n) \/ Remove(n) \/ Tell(n)
  \/ Exists(n) \/ Create(n) \/ Rename(n) \/ NameFails(n) \/ NoReply(n)

Idle ==
  /\ Running = {} /\ Len(msgs) = load.messages
  /\ UNCHANGED vars

IngestNext ==
  \/ \E d \in Device, p \in Place, a \in Aircraft : ReceiveAir(d, p, a)
  \/ \E d \in Device, name \in Name : ReceiveName(d, name)
  \/ \E n \in DOMAIN msgs : Handle(n)
  \/ \E call \in unanswered : Execute(call)
  \/ \E d \in Device : Expire(d)
  \/ Administer
  \/ Idle

IngestSpec == IngestInit /\ [][IngestNext]_vars

-----------------------------------------------------------------------------
(* Properties.                                                              *)

\* The type of every variable.
IngestTypeOK ==
  /\ TypeOK
  /\ load   \in Load
  /\ msgs   \in Seq(Message)
  /\ pc     \in [DOMAIN msgs -> {"validate", "inspect", "save", "remove", "queue", "tell",
                                 "tellRemoved", "exists", "create", "rename", "queueName", "done"}]
  /\ store  \in [DOMAIN msgs -> BOOLEAN]
  /\ peek   \in [DOMAIN msgs -> State \cup {Unknown}]
  /\ record \in [Device -> Record \cup {None}]
  /\ unanswered \subseteq {call \in Call : call.of \in DOMAIN msgs}
  /\ queued \subseteq DOMAIN msgs
  /\ told   \in [Device -> Telling \cup {None}]

AirOf(d)    == {n \in DOMAIN msgs : DeviceOf(n) = d /\ msgs[n].type = "air"}
UpToDate(d) == told[d] # None /\ \A n \in AirOf(d) : n <= told[d].of

\* A pair of messages that their device can have sent on one flight.
Plausible(m, n) ==
  /\ msgs[m].type = "air" /\ msgs[n].type = "air"
  /\ msgs[m].device = msgs[n].device
  /\ msgs[m].at < msgs[n].at
  /\ LET reach == MaxSpeed[msgs[n].aircraft] * (msgs[n].at - msgs[m].at) IN
     msgs[n].place - msgs[m].place \in -reach..reach

Continues(n) == \E m \in DOMAIN msgs : Plausible(m, n)
Evidence(d)  == \E n1, n2 \in DOMAIN msgs :
                  /\ n1 < n2 /\ DeviceOf(n1) = d /\ DeviceOf(n2) = d
                  /\ Continues(n1) /\ Continues(n2)

\* No phantoms: a position of a device reaches Redis, MySQL or the clients only
\* when at least two of its messages each continue an earlier one at a possible
\* speed.  Handlers may run in any order and states may be cleaned up or
\* invalidated in between; a device that only jumps about is never shown.
NoPhantom ==
  \A d \in Device :
    (Placed(d) \/ told[d] # None \/ AirOf(d) \cap queued # {}) => Evidence(d)

\* The messages of d for which a Redis call got no reply.
Doubtful(d) == {n \in AirOf(d) : \E call \in unanswered : call.of = n}

\* While handlers do not overlap and messages are in the order of their
\* timestamps, Redis and the validation service agree between messages: the
\* record of a shown device is the position that its next packet will be measured
\* from, unless the latest message could not be saved or a reply was lost.
RecordIsReference ==
  \A d \in Device : Quiet(d) /\ Shown(d) /\ UpToDate(d) /\ Doubtful(d) = {} =>
    Placed(d) /\ record[d].place = states[d].position /\ record[d].at = states[d].lastUpdate

LastTold(d) == IF told[d] = None \/ told[d].removed THEN {} ELSE {told[d].of}

\* While handlers do not overlap and no record expires, the clients know what
\* Redis holds: between messages, what they were last told of a device is in Redis,
\* and what is in Redis is what they were last told, whatever MySQL's queue rejects
\* and whichever Redis calls fail.  A call that got no reply is the one exception:
\* the record can be that of its message, of which the clients never hear when
\* messageHandler has returned the error, and which can be older than the last one
\* they were told when Redis executes the call late.
ClientsAgree ==
  \A d \in Device : Quiet(d) =>
    /\ LastTold(d) # {} => Placed(d)
    /\ Placed(d) => \E n \in LastTold(d) \cup Doubtful(d) :
                      record[d].place = msgs[n].place /\ record[d].at = msgs[n].at

Serial == load.handlers = 1 /\ load.delay = 0 /\ ~load.names /\ ~load.expiry

\* So with one handler at a time Redis, the validation service and the clients agree,
\* but for the messages whose Redis call got no reply, whichever calls fail and
\* whatever is cleaned up or invalidated in between.
SerialAgreement == Serial => RecordIsReference /\ ClientsAgree

-----------------------------------------------------------------------------
(* What the documentation says and the code does not do.                    *)

\* "Score <= 30: the object is removed from the API": a device that its packets
\* have hidden has no position in Redis once they are handled.
HiddenIsRemoved ==
  \A d \in Device :
    Quiet(d) /\ Known(d) /\ ~Shown(d) /\ since[d].from = "hidden" => ~Placed(d)
=============================================================================
