---------------------------- MODULE IngestProofs ----------------------------
(***************************************************************************)
(* Proofs about Ingest, for any devices, places, speeds, thresholds and    *)
(* loads: any number of messages and of handlers at one time, any delay,   *)
(* with and without failures, names and expiry.                            *)
(***************************************************************************)
EXTENDS Ingest, ValidationProofs, SequenceTheorems, FiniteSetTheorems

Stage == {"validate", "inspect", "save", "remove", "queue", "tell",
          "tellRemoved", "exists", "create", "rename", "queueName", "done"}

-----------------------------------------------------------------------------
(* A received message extends the four functions that messages index.       *)

LEMMA FunctionIsSeq ==
  ASSUME NEW S, NEW n \in Nat, NEW f \in [1..n -> S]
  PROVE  f \in Seq(S) /\ Len(f) = n
OBVIOUS

LEMMA Extended ==
  ASSUME NEW S, NEW s \in Seq(S), NEW x \in S
  PROVE  /\ Append(s, x) \in [1..(Len(s) + 1) -> S]
         /\ \A i \in 1..Len(s) : Append(s, x)[i] = s[i]
         /\ Append(s, x)[Len(s) + 1] = x
<1>1. /\ Append(s, x) \in Seq(S) /\ Len(Append(s, x)) = Len(s) + 1
      /\ \A i \in 1..Len(s) : Append(s, x)[i] = s[i]
      /\ Append(s, x)[Len(s) + 1] = x
  BY AppendProperties
<1>2. Append(s, x) \in [1..Len(Append(s, x)) -> S]
  BY <1>1, LenProperties
<1>. QED
  BY <1>1, <1>2

\* The functions keep their types, and their values for the messages of before.
Keeps(n, m, first) ==
  /\ n = Len(msgs) + 1 /\ n \in Nat \ {0}
  /\ DOMAIN msgs = 1..Len(msgs)
  /\ msgs' \in Seq(Message) /\ Len(msgs') = n
  /\ DOMAIN msgs' = DOMAIN msgs \cup {n} /\ n \notin DOMAIN msgs
  /\ pc' \in [DOMAIN msgs' -> Stage]
  /\ store' \in [DOMAIN msgs' -> BOOLEAN]
  /\ peek' \in [DOMAIN msgs' -> State \cup {Unknown}]
  /\ \A i \in DOMAIN msgs :
       msgs'[i] = msgs[i] /\ pc'[i] = pc[i] /\ store'[i] = store[i] /\ peek'[i] = peek[i]
  /\ msgs'[n] = m /\ pc'[n] = first /\ ~store'[n]
  /\ UNCHANGED <<load, record, unanswered, queued, told>>

LEMMA Received ==
  ASSUME IngestTypeOK, NEW m \in Message, NEW first \in Stage, Receive(m, first)
  PROVE  Keeps(Len(msgs) + 1, m, first)
<1>1. /\ Len(msgs) \in Nat /\ DOMAIN msgs = 1..Len(msgs)
      /\ msgs \in [1..Len(msgs) -> Message]
  BY LenProperties DEF IngestTypeOK
<1>2. /\ pc \in [1..Len(msgs) -> Stage] /\ store \in [1..Len(msgs) -> BOOLEAN]
      /\ peek \in [1..Len(msgs) -> State \cup {Unknown}]
  BY <1>1 DEF IngestTypeOK, Stage
<1>3. /\ msgs' = Append(msgs, m) /\ pc' = Append(pc, first)
      /\ store' = Append(store, FALSE) /\ peek' = Append(peek, Unknown)
      /\ UNCHANGED <<load, record, unanswered, queued, told>>
  BY DEF Receive
<1>. DEFINE n == Len(msgs) + 1
<1>4. msgs' \in Seq(Message) /\ Len(msgs') = n /\ DOMAIN msgs' = 1..n
  BY <1>3, AppendProperties, LenProperties DEF IngestTypeOK
<1>5. /\ msgs' \in [1..n -> Message] /\ msgs'[n] = m
      /\ \A i \in 1..Len(msgs) : msgs'[i] = msgs[i]
  <2>1. /\ Append(msgs, m) \in [1..(Len(msgs) + 1) -> Message]
        /\ \A i \in 1..Len(msgs) : Append(msgs, m)[i] = msgs[i]
        /\ Append(msgs, m)[Len(msgs) + 1] = m
    BY Extended DEF IngestTypeOK
  <2>. QED
    BY <1>3, <2>1, Zenon
<1>6. /\ pc' \in [1..n -> Stage] /\ pc'[n] = first
      /\ \A i \in 1..Len(msgs) : pc'[i] = pc[i]
  <2>1. /\ Append(pc, first) \in [1..(Len(msgs) + 1) -> Stage]
        /\ \A i \in 1..Len(msgs) : Append(pc, first)[i] = pc[i]
        /\ Append(pc, first)[Len(msgs) + 1] = first
    <3>1. pc \in Seq(Stage) /\ Len(pc) = Len(msgs) /\ first \in Stage
      BY <1>1, <1>2, FunctionIsSeq
    <3>. QED
      BY <3>1, Extended
  <2>. QED
    BY <1>3, <2>1, Zenon
<1>7. /\ store' \in [1..n -> BOOLEAN] /\ store'[n] = FALSE
      /\ \A i \in 1..Len(msgs) : store'[i] = store[i]
  <2>1. /\ Append(store, FALSE) \in [1..(Len(msgs) + 1) -> BOOLEAN]
        /\ \A i \in 1..Len(msgs) : Append(store, FALSE)[i] = store[i]
        /\ Append(store, FALSE)[Len(msgs) + 1] = FALSE
    <3>. DEFINE B == BOOLEAN
                f == FALSE
    <3>1. store \in Seq(B) /\ Len(store) = Len(msgs) /\ f \in B
      BY <1>1, <1>2, FunctionIsSeq
    <3>. HIDE DEF B, f
    <3>2. /\ Append(store, f) \in [1..(Len(msgs) + 1) -> B]
          /\ \A i \in 1..Len(msgs) : Append(store, f)[i] = store[i]
          /\ Append(store, f)[Len(msgs) + 1] = f
      BY <3>1, Extended
    <3>. QED
      BY <3>2, Zenon DEF B, f
  <2>. QED
    BY <1>3, <2>1, Zenon
<1>8. /\ peek' \in [1..n -> State \cup {Unknown}] /\ peek'[n] = Unknown
      /\ \A i \in 1..Len(msgs) : peek'[i] = peek[i]
  <2>1. /\ Append(peek, Unknown) \in [1..(Len(msgs) + 1) -> State \cup {Unknown}]
        /\ \A i \in 1..Len(msgs) : Append(peek, Unknown)[i] = peek[i]
        /\ Append(peek, Unknown)[Len(msgs) + 1] = Unknown
    <3>1. peek \in Seq(State \cup {Unknown}) /\ Len(peek) = Len(msgs) /\ Unknown \in State \cup {Unknown}
      BY <1>1, <1>2, FunctionIsSeq
    <3>. QED
      BY <3>1, Extended
  <2>. QED
    BY <1>3, <2>1, Zenon
<1>9. 1..n = (1..Len(msgs)) \cup {n} /\ n \notin 1..Len(msgs) /\ n \in Nat \ {0}
  BY <1>1
<1>. HIDE DEF n
<1>10. Keeps(n, m, first)
  BY <1>1, <1>3, <1>4, <1>5, <1>6, <1>7, <1>8, <1>9 DEF Keeps, n
<1>. QED
  BY <1>10 DEF n

\* What a step receives: a message of the air, when the clock ticks, or a name.
LEMMA ReceivedAir ==
  ASSUME IngestTypeOK, NEW d \in Device, NEW p \in Place, NEW a \in Aircraft, ReceiveAir(d, p, a)
  PROVE  \E at \in Time :
           LET m == [type |-> "air", device |-> d, place |-> p, at |-> at, aircraft |-> a] IN
           /\ m \in Message
           /\ at <= now' /\ (load.delay = 0 => at = now')
           /\ Receive(m, "validate") /\ Keeps(Len(msgs) + 1, m, "validate")
           /\ now' = now + 1 /\ now \in Nat /\ now' \in Time /\ UNCHANGED <<states, since>>
<1>1. /\ now' = now + 1 /\ now \in Nat /\ now' \in Time /\ UNCHANGED <<states, since>>
  BY TimeAssumption DEF ReceiveAir, Tick, IngestTypeOK, TypeOK, Time
<1>2. load.delay \in Nat
  BY IngestAssumption DEF IngestTypeOK, Loads
<1>3. PICK delay \in 0..load.delay :
        /\ delay <= now
        /\ Receive([type |-> "air", device |-> d, place |-> p, at |-> now' - delay, aircraft |-> a],
                   "validate")
  BY DEF ReceiveAir
<1>. DEFINE at == now' - delay
            m  == [type |-> "air", device |-> d, place |-> p, at |-> at, aircraft |-> a]
<1>4. at \in Time /\ at <= now' /\ (load.delay = 0 => at = now')
  BY <1>1, <1>2, <1>3, TimeAssumption DEF Time
<1>5. m \in Message
  BY <1>4 DEF Message
<1>6. Keeps(Len(msgs) + 1, m, "validate")
  BY <1>3, <1>5, Received DEF Stage
<1>. QED
  BY <1>1, <1>3, <1>4, <1>5, <1>6

LEMMA ReceivedName ==
  ASSUME IngestTypeOK, NEW d \in Device, NEW name \in Name, ReceiveName(d, name)
  PROVE  LET m == [type |-> "name", device |-> d, name |-> name] IN
         /\ m \in Message
         /\ Keeps(Len(msgs) + 1, m, "exists")
         /\ load.names /\ UNCHANGED validationVars
BY Received DEF ReceiveName, Message, Stage

-----------------------------------------------------------------------------
(* The validation service under the handlers is the one that Validation     *)
(* specifies.                                                               *)

LEMMA MessageTyped ==
  ASSUME IngestTypeOK, NEW n \in DOMAIN msgs
  PROVE  /\ msgs[n] \in Message /\ DeviceOf(n) \in Device /\ n \in Nat
         /\ msgs[n].type \in {"air", "name"}
         /\ msgs[n].type = "air" =>
              msgs[n].place \in Place /\ msgs[n].at \in Time /\ msgs[n].aircraft \in Aircraft
         /\ msgs[n].type = "name" => msgs[n].name \in Name
<1>1. Len(msgs) \in Nat /\ DOMAIN msgs = 1..Len(msgs)
  BY LenProperties DEF IngestTypeOK
<1>2. msgs[n] \in Message
  BY <1>1, ElementOfSeq DEF IngestTypeOK
<1>. QED
  BY <1>1, <1>2 DEF Message, DeviceOf

\* Each message is at a stage of its own kind.
StageMatches ==
  \A n \in DOMAIN msgs :
    /\ pc[n] \in {"validate", "inspect", "save", "remove", "queue", "tell", "tellRemoved"}
         => msgs[n].type = "air"
    /\ pc[n] \in {"exists", "create", "rename", "queueName"} => msgs[n].type = "name"

LEMMA StepIsValidation ==
  ASSUME IngestTypeOK, StageMatches, [IngestNext]_vars
  PROVE  [Next]_validationVars
<1>1. CASE UNCHANGED vars
  BY <1>1 DEF vars
<1>2. ASSUME NEW d \in Device, NEW p \in Place, NEW a \in Aircraft, ReceiveAir(d, p, a)
      PROVE  Next
  BY <1>2 DEF ReceiveAir, Next
<1>3. ASSUME NEW n \in DOMAIN msgs, Validate(n)
      PROVE  Next
  <2>1. /\ DeviceOf(n) \in Device /\ msgs[n].place \in Position /\ msgs[n].at \in Time
        /\ msgs[n].aircraft \in Aircraft
    BY <1>3, MessageTyped DEF Validate, StageMatches, Position
  <2>2. ValidatePilot(DeviceOf(n), msgs[n].place, msgs[n].at, msgs[n].aircraft)
    BY <1>3 DEF Validate
  <2>3. Packet(DeviceOf(n))
    BY <2>1, <2>2 DEF Packet
  <2>. QED
    BY <2>1, <2>3 DEF Next
<1>4. ASSUME NEW n \in DOMAIN msgs, Handle(n), ~Validate(n)
      PROVE  UNCHANGED validationVars
  BY <1>4 DEF Handle, Inspect, Save, WriteFails, Queue, Remove, Tell, Exists, Create, Rename,
              NameFails, NoReply, Answered
<1>5. Administer => Next
  BY DEF Administer, Next
<1>. QED
  BY <1>1, <1>2, <1>3, <1>4, <1>5 DEF IngestNext, ReceiveName, Execute, Expire, Idle, vars

\* Each call that got no reply was made for a message of its own kind.
CallsMatch ==
  \A call \in unanswered :
    /\ call.does = "save" => msgs[call.of].type = "air"
    /\ call.does \in {"create", "rename"} => msgs[call.of].type = "name"

TypedInv == ScoreInv /\ IngestTypeOK /\ StageMatches /\ CallsMatch

LEMMA SavedTyped ==
  ASSUME IngestTypeOK, NEW n \in DOMAIN msgs, msgs[n].type = "air"
  PROVE  /\ SavedRecord(n) \in Record /\ SavedRecord(n) # None
         /\ SavedRecord(n).place = msgs[n].place /\ SavedRecord(n).at = msgs[n].at
         /\ msgs[n].place # None
<1>1. msgs[n].place \in Place /\ msgs[n].at \in Time
  BY MessageTyped
<1>2. SavedRecord(n) \in Record
  BY <1>1 DEF SavedRecord, Record
<1>3. SavedRecord(n).place = msgs[n].place /\ SavedRecord(n).at = msgs[n].at
  BY DEF SavedRecord
<1>. QED
  BY <1>1, <1>2, <1>3, NoneAssumption, IngestAssumption

\* What a call leaves of the hash, and that only a save puts a position there.
LEMMA AfterCall ==
  ASSUME IngestTypeOK, NEW call \in Call, call.of \in DOMAIN msgs,
         call.does = "save" => msgs[call.of].type = "air",
         call.does \in {"create", "rename"} => msgs[call.of].type = "name",
         NEW old \in Record \cup {None},
         NEW left, left = After(call, old) \/ left = BeforeExpire(call, old)
  PROVE  /\ left \in Record \cup {None}
         /\ call.does # "save" /\ (old = None \/ old.place = None) =>
              left = None \/ left.place = None
<1>1. None \notin Record
  BY NoneAssumption
<1>. DEFINE whole == After(call, old)
<1>2. /\ whole \in Record \cup {None}
      /\ call.does # "save" /\ (old = None \/ old.place = None) =>
           whole = None \/ whole.place = None
  <2>1. CASE call.does = "save"
    <3>1. whole = SavedRecord(call.of)
      BY <2>1 DEF After
    <3>. QED
      BY <2>1, <3>1, SavedTyped
  <2>2. CASE call.does = "remove"
    BY <2>2 DEF After
  <2>3. CASE call.does = "create"
    <3>1. whole = CreatedRecord(call.of, old, call.sent)
      BY <2>3 DEF After
    <3>2. msgs[call.of].name \in Name /\ call.sent \in Time
      BY <2>3, MessageTyped DEF Call
    <3>3. old = None \/ old.place \in Place \cup {None}
      BY DEF Record
    <3>. QED
      BY <3>1, <3>2, <3>3 DEF CreatedRecord, Record
  <2>4. CASE call.does = "rename"
    <3>1. whole = RenamedRecord(call.of, old)
      BY <2>4 DEF After
    <3>2. msgs[call.of].name \in Name /\ 0 \in Time
      BY <2>4, MessageTyped, TimeAssumption DEF Time
    <3>3. CASE old = None
      BY <3>1, <3>2, <3>3 DEF RenamedRecord, Record
    <3>4. CASE old # None
      <4>1. old \in Record /\ whole = [old EXCEPT !.name = msgs[call.of].name]
        BY <3>1, <3>4 DEF RenamedRecord
      <4>2. whole \in Record /\ whole.place = old.place
        BY <3>2, <4>1 DEF Record
      <4>. QED
        BY <3>4, <4>2
    <3>. QED
      BY <3>3, <3>4
  <2>. QED
    BY <2>1, <2>2, <2>3, <2>4 DEF Call
<1>. HIDE DEF whole
<1>3. CASE left = After(call, old)
  BY <1>2, <1>3 DEF whole
<1>4. CASE left = BeforeExpire(call, old)
  <2>1. left = IF whole = None THEN None ELSE [whole EXCEPT !.ttl = old # None /\ old.ttl]
    BY <1>4 DEF BeforeExpire, whole
  <2>2. (old # None /\ old.ttl) \in BOOLEAN
    BY DEF Record
  <2>3. CASE whole # None
    <3>1. whole \in Record /\ left = [whole EXCEPT !.ttl = old # None /\ old.ttl]
      BY <1>2, <2>1, <2>3
    <3>2. left \in Record /\ left.place = whole.place
      BY <2>2, <3>1 DEF Record
    <3>. QED
      BY <1>2, <2>3, <3>2
  <2>. QED
    BY <2>1, <2>3
<1>. QED
  BY <1>3, <1>4

\* A handler writes the record only by the call of its stage, and the calls that get
\* no reply are those of a handler's stage.
LEMMA HandlerCalls ==
  ASSUME TypedInv, NEW n \in DOMAIN msgs, Handle(n)
  PROVE  /\ \/ record' = record
            \/ /\ pc[n] \in Writing
               /\ record' = [record EXCEPT ![DeviceOf(n)] = After(CallOf(n), record[DeviceOf(n)])]
         /\ \/ unanswered' = unanswered
            \/ pc[n] \in Writing /\ unanswered' = unanswered \cup {CallOf(n)}
         /\ pc[n] \in Writing =>
              /\ CallOf(n) \in Call /\ CallOf(n).of = n /\ CallOf(n).does = pc[n]
              /\ pc[n] = "save" => msgs[n].type = "air"
              /\ pc[n] \in {"create", "rename"} => msgs[n].type = "name"
<1>1. \/ record' = record
      \/ /\ pc[n] \in Writing
         /\ record' = [record EXCEPT ![DeviceOf(n)] = After(CallOf(n), record[DeviceOf(n)])]
  <2>1. CASE Save(n) \/ Remove(n) \/ Create(n) \/ Rename(n)
    BY <2>1 DEF Save, Remove, Create, Rename, Answered, Writing
  <2>2. CASE Validate(n) \/ Inspect(n) \/ WriteFails(n) \/ Queue(n) \/ Tell(n) \/ Exists(n)
             \/ NameFails(n) \/ NoReply(n)
    BY <2>2 DEF Validate, Inspect, WriteFails, Queue, Tell, Exists, NameFails, NoReply
  <2>. QED
    BY <2>1, <2>2 DEF Handle
<1>2. \/ unanswered' = unanswered
      \/ pc[n] \in Writing /\ unanswered' = unanswered \cup {CallOf(n)}
  BY DEF Handle, Validate, Inspect, Save, WriteFails, Queue, Remove, Tell, Exists, Create, Rename,
         NameFails, NoReply, Answered, handlerVars
<1>3. pc[n] \in Writing =>
        /\ CallOf(n) \in Call /\ CallOf(n).of = n /\ CallOf(n).does = pc[n]
        /\ pc[n] = "save" => msgs[n].type = "air"
        /\ pc[n] \in {"create", "rename"} => msgs[n].type = "name"
  <2>1. n \in Nat /\ now \in Time
    BY MessageTyped DEF TypedInv, IngestTypeOK, TypeOK, Time
  <2>. QED
    BY <2>1 DEF CallOf, Call, Writing, TypedInv, StageMatches
<1>. QED
  BY <1>1, <1>2, <1>3

LEMMA HandleTyped ==
  ASSUME TypedInv, NEW n \in DOMAIN msgs, Handle(n), TypeOK'
  PROVE  IngestTypeOK' /\ StageMatches' /\ CallsMatch'
<1>. IngestTypeOK /\ StageMatches /\ CallsMatch
  BY DEF TypedInv
<1>1. /\ msgs \in Seq(Message) /\ pc \in [DOMAIN msgs -> Stage] /\ store \in [DOMAIN msgs -> BOOLEAN]
      /\ peek \in [DOMAIN msgs -> State \cup {Unknown}] /\ load \in Load
      /\ record \in [Device -> Record \cup {None}] /\ queued \subseteq DOMAIN msgs
      /\ told \in [Device -> Telling \cup {None}]
      /\ DeviceOf(n) \in Device /\ states \in [Device -> State \cup {Unknown}]
      /\ unanswered \subseteq {call \in Call : call.of \in DOMAIN msgs}
  BY MessageTyped DEF IngestTypeOK, TypeOK, Stage
<1>2. msgs' = msgs /\ load' = load /\ DeviceOf(n)' = DeviceOf(n)
  BY DEF Handle, Validate, Inspect, Save, WriteFails, Queue, Remove, Tell, Exists, Create, Rename,
         NameFails, NoReply, Answered, handlerVars, DeviceOf
<1>3. \/ pc' = pc
      \/ \E stage \in Stage :
           /\ Goto(n, stage)
           /\ pc[n] \in {"validate", "inspect", "save", "remove", "queue", "tell", "tellRemoved"} =>
                stage \in {"inspect", "save", "remove", "queue", "tell", "tellRemoved", "done"}
           /\ pc[n] \in {"exists", "create", "rename", "queueName"} =>
                stage \in {"create", "rename", "queueName", "done"}
           /\ pc[n] \in {"validate", "inspect", "save", "remove", "queue", "tell", "tellRemoved",
                         "exists", "create", "rename", "queueName"}
  BY DEF Handle, Validate, Inspect, Save, WriteFails, Queue, Remove, Tell, Exists, Create, Rename,
         NameFails, NoReply, AfterQueue, Stage
<1>4. pc' \in [DOMAIN msgs -> Stage] /\ StageMatches'
  BY <1>1, <1>2, <1>3 DEF Goto, StageMatches
<1>5. store' \in [DOMAIN msgs -> BOOLEAN] /\ peek' \in [DOMAIN msgs -> State \cup {Unknown}]
  <2>1. CASE Validate(n)
    <3>1. states' \in [Device -> State \cup {Unknown}] /\ states'[DeviceOf(n)] \in State
      <4>1. TypeOK /\ Position = Place \cup {NoPlace} /\ msgs[n].type = "air"
        BY <2>1 DEF TypedInv, ScoreInv, Validate, StageMatches, Position
      <4>2. ValidatePilot(DeviceOf(n), msgs[n].place, msgs[n].at, msgs[n].aircraft)
        BY <2>1 DEF Validate
      <4>3. Packet(DeviceOf(n))
        BY <4>1, <4>2, MessageTyped DEF Packet
      <4>4. ASSUME NEW p \in Position, NEW t \in Time, FirstPacket(DeviceOf(n), p, t)
            PROVE  states'[DeviceOf(n)] \in State
        BY <1>1, <4>4, ScoreAssumption DEF FirstPacket, State
      <4>5. states'[DeviceOf(n)] \in State
        BY <1>1, <4>1, <4>3, <4>4, PacketCases, Judged
      <4>. QED
        BY <4>5 DEF TypeOK
    <3>2. states'[DeviceOf(n)].validated \in BOOLEAN
      BY <3>1 DEF State
    <3>. QED
      BY <1>1, <2>1, <3>2 DEF Validate
  <2>2. CASE Inspect(n)
    BY <1>1, <2>2 DEF Inspect
  <2>3. CASE ~Validate(n) /\ ~Inspect(n)
    <3>1. store' = store /\ peek' = peek
      BY <2>3 DEF Handle, Save, WriteFails, Queue, Remove, Tell, Exists, Create, Rename, NameFails,
                  NoReply, Answered, handlerVars
    <3>. QED
      BY <1>1, <3>1
  <2>. QED
    BY <2>1, <2>2, <2>3
<1>6. record' \in [Device -> Record \cup {None}]
  <2>1. CASE record' = record
    BY <1>1, <2>1
  <2>2. CASE /\ pc[n] \in Writing
             /\ record' = [record EXCEPT ![DeviceOf(n)] = After(CallOf(n), record[DeviceOf(n)])]
    <3>1. After(CallOf(n), record[DeviceOf(n)]) \in Record \cup {None}
      <4>1. /\ CallOf(n) \in Call /\ CallOf(n).of \in DOMAIN msgs
            /\ CallOf(n).does = "save" => msgs[CallOf(n).of].type = "air"
            /\ CallOf(n).does \in {"create", "rename"} => msgs[CallOf(n).of].type = "name"
        BY <2>2, HandlerCalls
      <4>2. record[DeviceOf(n)] \in Record \cup {None}
        BY <1>1
      <4>. QED
        BY <4>1, <4>2, AfterCall
    <3>. QED
      BY <1>1, <2>2, <3>1
  <2>. QED
    BY <2>1, <2>2, HandlerCalls
<1>7. queued' \subseteq DOMAIN msgs
  BY <1>1 DEF Handle, Validate, Inspect, Save, WriteFails, Queue, Remove, Tell, Exists, Create,
              Rename, NameFails, NoReply, Answered
<1>8. told' \in [Device -> Telling \cup {None}]
  <2>1. CASE Tell(n)
    <3>1. [removed |-> pc[n] = "tellRemoved", of |-> n] \in Telling
      BY MessageTyped DEF Telling
    <3>. QED
      BY <1>1, <2>1, <3>1 DEF Tell
  <2>2. CASE ~Tell(n)
    <3>1. told' = told
      BY <2>2 DEF Handle, Validate, Inspect, Save, WriteFails, Queue, Remove, Exists, Create, Rename,
                  NameFails, NoReply, Answered
    <3>. QED
      BY <1>1, <3>1
  <2>. QED
    BY <2>1, <2>2
<1>9. unanswered' \subseteq {call \in Call : call.of \in DOMAIN msgs} /\ CallsMatch'
  BY <1>1, <1>2, HandlerCalls DEF CallsMatch
<1>. QED
  BY <1>1, <1>2, <1>4, <1>5, <1>6, <1>7, <1>8, <1>9 DEF IngestTypeOK, Stage

LEMMA KeepsTyped ==
  ASSUME IngestTypeOK, StageMatches, CallsMatch, TypeOK', NEW m \in Message, NEW first \in Stage,
         \/ first = "validate" /\ m.type = "air"
         \/ first = "exists" /\ m.type = "name",
         Keeps(Len(msgs) + 1, m, first)
  PROVE  IngestTypeOK' /\ StageMatches' /\ CallsMatch'
<1>1. \A call \in unanswered : call \in Call /\ call.of \in DOMAIN msgs
  BY DEF IngestTypeOK
<1>2. IngestTypeOK'
  <2>1. unanswered' \subseteq {call \in Call : call.of \in DOMAIN msgs'}
    BY <1>1 DEF Keeps
  <2>. QED
    BY <2>1 DEF Keeps, IngestTypeOK, Stage
<1>3. StageMatches'
  BY DEF Keeps, StageMatches
<1>4. CallsMatch'
  BY <1>1 DEF Keeps, CallsMatch
<1>. QED
  BY <1>2, <1>3, <1>4

LEMMA InitTyped == IngestInit => TypedInv
<1>. SUFFICES ASSUME IngestInit
              PROVE  TypedInv
  OBVIOUS
<1>1. ScoreInv
  BY InitScore DEF IngestInit
<1>2. msgs \in Seq(Message) /\ DOMAIN msgs = {} /\ unanswered = {}
  BY DEF IngestInit
<1>3. IngestTypeOK /\ StageMatches /\ CallsMatch
  BY <1>1, <1>2 DEF IngestInit, ScoreInv, IngestTypeOK, StageMatches, CallsMatch
<1>. QED
  BY <1>1, <1>3 DEF TypedInv

\* Execute changes the record of one device, and only a save puts a position there.
LEMMA ExecuteTyped ==
  ASSUME IngestTypeOK, CallsMatch, NEW call \in unanswered, Execute(call)
  PROVE  LET d == DeviceOf(call.of) IN
         /\ d \in Device /\ record' \in [Device -> Record \cup {None}]
         /\ \A e \in Device \ {d} : record'[e] = record[e]
         /\ record'[d] \in {After(call, record[d]), BeforeExpire(call, record[d])}
         /\ call.does # "save" /\ (record[d] = None \/ record[d].place = None) =>
              record'[d] = None \/ record'[d].place = None
<1>. DEFINE d == DeviceOf(call.of)
<1>1. /\ call \in Call /\ call.of \in DOMAIN msgs
      /\ call.does = "save" => msgs[call.of].type = "air"
      /\ call.does \in {"create", "rename"} => msgs[call.of].type = "name"
  BY DEF IngestTypeOK, CallsMatch
<1>2. d \in Device /\ record \in [Device -> Record \cup {None}]
  BY <1>1, MessageTyped DEF IngestTypeOK
<1>3. PICK left \in {After(call, record[d]), BeforeExpire(call, record[d])} :
        record' = [record EXCEPT ![d] = left]
  BY DEF Execute
<1>4. /\ left \in Record \cup {None}
      /\ call.does # "save" /\ (record[d] = None \/ record[d].place = None) =>
           left = None \/ left.place = None
  <2>1. record[d] \in Record \cup {None} /\ (left = After(call, record[d]) \/ left = BeforeExpire(call, record[d]))
    BY <1>2, <1>3
  <2>. QED
    BY <1>1, <2>1, AfterCall
<1>5. record'[d] = left /\ record' \in [Device -> Record \cup {None}]
      /\ \A e \in Device \ {d} : record'[e] = record[e]
  BY <1>2, <1>3, <1>4
<1>. QED
  BY <1>2, <1>3, <1>4, <1>5

LEMMA NextTyped == TypedInv /\ [IngestNext]_vars => TypedInv'
<1>. SUFFICES ASSUME TypedInv, [IngestNext]_vars
              PROVE  TypedInv'
  OBVIOUS
<1>1. IngestTypeOK /\ StageMatches /\ CallsMatch
  BY DEF TypedInv
<1>2. ScoreInv' /\ TypeOK'
  <2>1. ScoreInv'
    BY <1>1, StepIsValidation, NextScore DEF TypedInv
  <2>. QED
    BY <2>1 DEF ScoreInv
<1>3. CASE UNCHANGED <<handlerVars, pc, record, queued, told>>
  BY <1>1, <1>2, <1>3 DEF TypedInv, IngestTypeOK, StageMatches, CallsMatch, handlerVars
<1>4. ASSUME NEW d \in Device, NEW p \in Place, NEW a \in Aircraft, ReceiveAir(d, p, a)
      PROVE  TypedInv'
  <2>1. PICK at \in Time :
          LET m == [type |-> "air", device |-> d, place |-> p, at |-> at, aircraft |-> a] IN
          m \in Message /\ Keeps(Len(msgs) + 1, m, "validate")
    BY <1>1, <1>4, ReceivedAir
  <2>. DEFINE m == [type |-> "air", device |-> d, place |-> p, at |-> at, aircraft |-> a]
  <2>2. m.type = "air" /\ m \in Message /\ Keeps(Len(msgs) + 1, m, "validate")
    BY <2>1
  <2>. HIDE DEF m
  <2>. QED
    BY <1>1, <1>2, <2>2, KeepsTyped DEF TypedInv, Stage
<1>5. ASSUME NEW d \in Device, NEW name \in Name, ReceiveName(d, name)
      PROVE  TypedInv'
  BY <1>1, <1>2, <1>5, ReceivedName, KeepsTyped DEF TypedInv, Stage
<1>6. ASSUME NEW n \in DOMAIN msgs, Handle(n)
      PROVE  TypedInv'
  BY <1>1, <1>2, <1>6, HandleTyped DEF TypedInv
<1>7. ASSUME NEW d \in Device, Expire(d)
      PROVE  TypedInv'
  BY <1>1, <1>2, <1>7 DEF Expire, TypedInv, IngestTypeOK, StageMatches, CallsMatch, handlerVars
<1>8. ASSUME NEW call \in unanswered, Execute(call)
      PROVE  TypedInv'
  <2>1. record' \in [Device -> Record \cup {None}]
    BY <1>1, <1>8, ExecuteTyped
  <2>. QED
    BY <1>1, <1>2, <1>8, <2>1 DEF Execute, TypedInv, IngestTypeOK, StageMatches, CallsMatch,
                                  handlerVars
<1>. QED
  BY <1>3, <1>4, <1>5, <1>6, <1>7, <1>8 DEF IngestNext, Administer, Idle, vars

LEMMA TypedInvariant == IngestSpec => []TypedInv
BY InitTyped, NextTyped, PTL DEF IngestSpec

\* Every variable keeps its type, under any number of overlapping handlers.
THEOREM IngestTypeCorrect == IngestSpec => []IngestTypeOK
<1>. TypedInv => IngestTypeOK
  BY DEF TypedInv
<1>. QED
  BY TypedInvariant, PTL

\* However the handlers interleave, the validation service takes only the steps that
\* Validation specifies: Hysteresis, NoFlicker and the other theorems of
\* ValidationProofs hold of it here.
THEOREM IngestObeysValidation == IngestSpec => Spec
<1>1. IngestInit => Init
  BY DEF IngestInit
<1>2. TypedInv /\ [IngestNext]_vars => [Next]_validationVars
  BY StepIsValidation DEF TypedInv
<1>. QED
  BY <1>1, <1>2, TypedInvariant, PTL DEF IngestSpec, Spec

-----------------------------------------------------------------------------
(* No phantoms.                                                             *)

\* The position that a device's next packet is measured from is one of its messages.
ReferenceIsAMessage ==
  \A d \in Device : Known(d) =>
    \E m \in AirOf(d) : msgs[m].place = states[d].position /\ msgs[m].at = states[d].lastUpdate

\* Without the evidence of two messages a device is hidden, and its score is above
\* the initial one only by the bonus of one message that continues another.
OneBonus ==
  \A d \in Device : Known(d) /\ ~Evidence(d) =>
    /\ ~states[d].validated
    /\ states[d].score <= InitialScore + ValidPacketBonus
    /\ states[d].score > InitialScore =>
         \E n \in AirOf(d) : pc[n] # "validate" /\ Continues(n)

\* No handler of such a device carries a position further, ...
HeldBack ==
  \A n \in DOMAIN msgs : ~Evidence(DeviceOf(n)) =>
    /\ ~store[n]
    /\ pc[n] \notin {"save", "remove", "queue", "tell", "tellRemoved"}
    /\ n \in queued => msgs[n].type = "name"

\* ... and none is in Redis or with the clients.
Unseen == \A d \in Device : ~Evidence(d) => ~Placed(d) /\ told[d] = None

\* No save or removal of such a device is on its way to Redis either.
Withheld ==
  \A call \in unanswered : ~Evidence(DeviceOf(call.of)) => call.does \notin {"save", "remove"}

PhantomInv == ReferenceIsAMessage /\ OneBonus /\ HeldBack /\ Unseen /\ Withheld

\* What ValidatePilot makes of the message that a handler gives it: the reference
\* becomes the message's position, unless it is not later than the reference; a score
\* rises only when the message continues the one that the reference is from.
LEMMA Validated ==
  ASSUME TypedInv, ReferenceIsAMessage, NEW n \in DOMAIN msgs, Validate(n)
  PROVE  LET d   == DeviceOf(n)
             old == states[d]
             new == states'[d]
         IN  /\ d \in Device /\ new \in State /\ n \in AirOf(d)
             /\ \A e \in Device \ {d} : states'[e] = states[e]
             /\ \/ new.position = msgs[n].place /\ new.lastUpdate = msgs[n].at
                \/ /\ Known(d) /\ NotLater(d, msgs[n].at)
                   /\ new.position = old.position /\ new.lastUpdate = old.lastUpdate
             /\ \/ ~Known(d) /\ new.score = InitialScore /\ ~new.validated
                \/ /\ Known(d) /\ new.score <= old.score
                   /\ new.validated = CheckHysteresis(old.validated, new.score)
                \/ /\ Known(d) /\ new.score <= old.score + ValidPacketBonus /\ Continues(n)
                   /\ new.validated = CheckHysteresis(old.validated, new.score)
             /\ pc[n] = "validate" /\ pc' = [pc EXCEPT ![n] = "inspect"]
             /\ store' = [store EXCEPT ![n] = new.validated]
             /\ UNCHANGED <<now, load, msgs, peek, record, unanswered, queued, told>>
<1>. DEFINE d   == DeviceOf(n)
            p   == msgs[n].place
            t   == msgs[n].at
            a   == msgs[n].aircraft
            old == states[d]
            new == states'[d]
            Raise(isValid) ==
              /\ new \in State
              /\ new.score = NewScore(old.score, isValid)
              /\ new.validated = CheckHysteresis(old.validated, new.score)
              /\ \A e \in Device \ {d} : states'[e] = states[e]
<1>1. /\ IngestTypeOK /\ TypeOK /\ msgs[n].type = "air" /\ d \in Device
      /\ p \in Place /\ t \in Time /\ a \in Aircraft /\ n \in AirOf(d)
  BY MessageTyped DEF TypedInv, ScoreInv, StageMatches, Validate, AirOf
<1>2. /\ ValidatePilot(d, p, t, a)
      /\ pc[n] = "validate" /\ pc' = [pc EXCEPT ![n] = "inspect"]
      /\ store' = [store EXCEPT ![n] = new.validated]
      /\ UNCHANGED <<load, msgs, peek, record, unanswered, queued, told>>
  BY DEF Validate, Goto
<1>3. now' = now
  BY <1>2 DEF ValidatePilot, FirstPacket, PacketWithoutPosition, PacketAfterGap, PacketNotLater,
              PacketMoved, Judge
<1>4. ASSUME Known(d)
      PROVE  /\ old \in State /\ old.score \in 0..MaxScore /\ old.lastUpdate \in Nat /\ t \in Nat
             /\ \E m \in DOMAIN msgs :
                  /\ msgs[m].type = "air" /\ msgs[m].device = msgs[n].device
                  /\ msgs[m].place = old.position /\ msgs[m].at = old.lastUpdate
                  /\ old.position \in Place
  <2>1. PICK m \in AirOf(d) : msgs[m].place = old.position /\ msgs[m].at = old.lastUpdate
    BY <1>1, <1>4 DEF ReferenceIsAMessage
  <2>2. m \in DOMAIN msgs /\ msgs[m].type = "air" /\ msgs[m].device = msgs[n].device
    BY <2>1 DEF AirOf, DeviceOf
  <2>3. msgs[m].place \in Place
    BY <1>1, <2>2, MessageTyped
  <2>4. old \in State
    BY <1>1, <1>4 DEF TypeOK, Known
  <2>. QED
    BY <1>1, <2>1, <2>2, <2>3, <2>4, TimeAssumption DEF State, Time
<1>5. ASSUME NEW isValid \in BOOLEAN, NEW q \in Position, NEW u \in Time, Known(d),
             Judge(d, isValid, q, u)
      PROVE  Raise(isValid) /\ new.position = q /\ new.lastUpdate = u
  <2>1. Raise(isValid)
    BY <1>1, <1>5, Judged
  <2>2. new.position = q /\ new.lastUpdate = u
    BY <1>1, <1>5 DEF Judge, TypeOK
  <2>. QED
    BY <2>1, <2>2
<1>6. ASSUME Known(d), Raise(FALSE)
      PROVE  new.score <= old.score
  <2>1. NewScore(old.score, FALSE) <= old.score
    BY <1>4, <1>6, NewScoreBounds
  <2>. QED
    BY <1>6, <2>1
<1>7. CASE FirstPacket(d, p, t)
  <2>. DEFINE r == [position |-> p, lastUpdate |-> t, score |-> InitialScore, validated |-> FALSE]
  <2>1. r \in State /\ states' = [states EXCEPT ![d] = r] /\ ~Known(d)
    BY <1>1, <1>7, ScoreAssumption DEF FirstPacket, State, Position
  <2>2. /\ new \in State /\ new.position = p /\ new.lastUpdate = t
        /\ new.score = InitialScore /\ ~new.validated
        /\ \A e \in Device \ {d} : states'[e] = states[e]
    BY <1>1, <2>1 DEF TypeOK
  <2>. QED
    BY <1>1, <1>2, <1>3, <2>1, <2>2
<1>8. CASE PacketWithoutPosition(d, p, t)
  BY <1>1, <1>4, <1>8, PlaceAssumption DEF PacketWithoutPosition, Located
<1>9. CASE PacketAfterGap(d, p, t)
  <2>1. Known(d) /\ Judge(d, FALSE, p, t) /\ p \in Position /\ FALSE \in BOOLEAN
    BY <1>1, <1>9 DEF PacketAfterGap, Position
  <2>2. Raise(FALSE) /\ new.position = p /\ new.lastUpdate = t
    BY <1>1, <1>5, <2>1
  <2>3. new.score <= old.score
    BY <1>6, <2>1, <2>2
  <2>. QED
    BY <1>1, <1>2, <1>3, <2>1, <2>2, <2>3
<1>10. CASE PacketNotLater(d, p, t)
  <2>1. /\ Known(d) /\ Judge(d, FALSE, old.position, old.lastUpdate) /\ FALSE \in BOOLEAN
        /\ NotLater(d, t) /\ old.position \in Position /\ old.lastUpdate \in Time
    BY <1>4, <1>10 DEF PacketNotLater, State
  <2>2. Raise(FALSE) /\ new.position = old.position /\ new.lastUpdate = old.lastUpdate
    BY <1>1, <1>5, <2>1
  <2>3. new.score <= old.score
    BY <1>6, <2>1, <2>2
  <2>. QED
    BY <1>1, <1>2, <1>3, <2>1, <2>2, <2>3
<1>11. CASE PacketMoved(d, p, t, a)
  <2>. DEFINE v == Distance(old.position, p) <= MaxSpeed[a] * (t - old.lastUpdate)
  <2>1. Known(d) /\ Judge(d, v, p, t) /\ p \in Position /\ v \in BOOLEAN /\ ~NotLater(d, t)
    BY <1>1, <1>11 DEF PacketMoved, Position
  <2>2. Raise(v) /\ new.position = p /\ new.lastUpdate = t
    BY <1>1, <1>5, <2>1
  <2>3. CASE v
    <3>1. new.score <= old.score + ValidPacketBonus
      <4>1. NewScore(old.score, TRUE) <= old.score + ValidPacketBonus
        BY <1>4, <2>1, NewScoreBounds
      <4>2. new.score = NewScore(old.score, TRUE)
        BY <2>2, <2>3
      <4>. QED
        BY <4>1, <4>2
    <3>2. Continues(n)
      <4>1. PICK m \in DOMAIN msgs :
              /\ msgs[m].type = "air" /\ msgs[m].device = msgs[n].device
              /\ msgs[m].place = old.position /\ msgs[m].at = old.lastUpdate
              /\ old.position \in Place
        BY <1>4, <2>1
      <4>2. old.lastUpdate < t /\ old.lastUpdate \in Nat /\ t \in Nat
        BY <1>4, <2>1 DEF NotLater
      <4>. DEFINE reach == MaxSpeed[a] * (t - old.lastUpdate)
      <4>3. MaxSpeed[a] \in Nat /\ t - old.lastUpdate \in Nat
        BY <1>1, <4>2, SpeedAssumption
      <4>4. reach \in Int
        BY <4>3
      <4>5. p \in Int /\ old.position \in Int
        BY <1>1, <4>1, PlaceAssumption
      <4>6. Distance(old.position, p) <= reach
        BY <2>3
      <4>. HIDE DEF reach
      <4>7. p - old.position \in -reach..reach
        BY <4>4, <4>5, <4>6 DEF Distance
      <4>8. Plausible(m, n)
        BY <1>1, <4>1, <4>2, <4>7 DEF Plausible, reach
      <4>. QED
        BY <4>1, <4>8 DEF Continues
    <3>. QED
      BY <1>1, <1>2, <1>3, <2>1, <2>2, <3>1, <3>2
  <2>4. CASE ~v
    <3>1. Raise(FALSE)
      <4>1. v = FALSE
        BY <2>1, <2>4
      <4>. QED
        BY <2>2, <4>1
    <3>2. new.score <= old.score
      BY <1>6, <2>1, <3>1
    <3>. QED
      BY <1>1, <1>2, <1>3, <2>1, <2>2, <3>2
  <2>. QED
    BY <2>3, <2>4
<1>. QED
  BY <1>2, <1>7, <1>8, <1>9, <1>10, <1>11 DEF ValidatePilot

LEMMA InitPhantom == IngestInit => PhantomInv
<1>. SUFFICES ASSUME IngestInit
              PROVE  PhantomInv
  OBVIOUS
<1>1. /\ DOMAIN msgs = {} /\ unanswered = {}
      /\ \A d \in Device : ~Known(d) /\ record[d] = None /\ told[d] = None
  BY DEF IngestInit, Init, Known
<1>. QED
  BY <1>1 DEF PhantomInv, ReferenceIsAMessage, OneBonus, HeldBack, Unseen, Withheld, Placed

\* Only ValidatePilot, the administration and new messages touch the states and messages.
LEMMA SameMessages ==
  ASSUME msgs' = msgs
  PROVE  /\ \A d : AirOf(d)' = AirOf(d) /\ Evidence(d)' = Evidence(d)
         /\ \A n : DeviceOf(n)' = DeviceOf(n) /\ Continues(n)' = Continues(n)
BY DEF AirOf, Evidence, DeviceOf, Continues, Plausible

LEMMA ValidatePhantom ==
  ASSUME TypedInv, PhantomInv, NEW n \in DOMAIN msgs, Validate(n)
  PROVE  PhantomInv'
<1>. DEFINE d   == DeviceOf(n)
            old == states[d]
            new == states'[d]
<1>1. /\ d \in Device /\ new \in State /\ n \in AirOf(d)
      /\ \A e \in Device \ {d} : states'[e] = states[e]
      /\ \/ new.position = msgs[n].place /\ new.lastUpdate = msgs[n].at
         \/ /\ Known(d) /\ NotLater(d, msgs[n].at)
            /\ new.position = old.position /\ new.lastUpdate = old.lastUpdate
      /\ \/ ~Known(d) /\ new.score = InitialScore /\ ~new.validated
         \/ /\ Known(d) /\ new.score <= old.score
            /\ new.validated = CheckHysteresis(old.validated, new.score)
         \/ /\ Known(d) /\ new.score <= old.score + ValidPacketBonus /\ Continues(n)
            /\ new.validated = CheckHysteresis(old.validated, new.score)
      /\ pc[n] = "validate" /\ pc' = [pc EXCEPT ![n] = "inspect"]
      /\ store' = [store EXCEPT ![n] = new.validated]
      /\ UNCHANGED <<now, load, msgs, peek, record, unanswered, queued, told>>
  BY Validated DEF PhantomInv
<1>2. /\ pc \in [DOMAIN msgs -> Stage] /\ store \in [DOMAIN msgs -> BOOLEAN]
      /\ states \in [Device -> State \cup {Unknown}]
  BY DEF TypedInv, ScoreInv, TypeOK, IngestTypeOK, Stage
<1>3. ReferenceIsAMessage'
  BY <1>1, SameMessages DEF PhantomInv, ReferenceIsAMessage, Known
<1>4. ~Evidence(d) =>
        /\ ~new.validated
        /\ new.score <= InitialScore + ValidPacketBonus
        /\ new.score > InitialScore =>
             \E i \in AirOf(d) : pc'[i] # "validate" /\ Continues(i)
  <2>. SUFFICES ASSUME ~Evidence(d)
                PROVE  /\ ~new.validated
                       /\ new.score <= InitialScore + ValidPacketBonus
                       /\ new.score > InitialScore =>
                            \E i \in AirOf(d) : pc'[i] # "validate" /\ Continues(i)
    OBVIOUS
  <2>1. new.score \in Nat /\ InitialScore \in Nat /\ ValidPacketBonus \in Nat
        /\ MinScoreToAdd \in Nat
    BY <1>1, ScoreAssumption DEF State
  <2>2. ASSUME Known(d)
        PROVE  /\ old.score \in Nat /\ ~old.validated
               /\ old.score <= InitialScore + ValidPacketBonus
               /\ old.score > InitialScore =>
                    \E i \in AirOf(d) : pc[i] # "validate" /\ Continues(i)
    <3>1. old.score \in Nat
      BY <1>1, <1>2, <2>2, ScoreAssumption DEF Known, State
    <3>. QED
      BY <1>1, <2>2, <3>1 DEF PhantomInv, OneBonus
  <2>3. \A i \in AirOf(d) : i \in DOMAIN msgs /\ (pc[i] # "validate" => pc'[i] # "validate" /\ i # n)
    BY <1>1, <1>2 DEF AirOf
  <2>4. new.score <= InitialScore + ValidPacketBonus =>
          (new.validated = CheckHysteresis(FALSE, new.score) => ~new.validated)
    BY <2>1, TwoPacketsAssumption DEF CheckHysteresis
  <2>5. CASE ~Known(d) /\ new.score = InitialScore /\ ~new.validated
    BY <2>1, <2>5
  <2>6. CASE /\ Known(d) /\ new.score <= old.score
             /\ new.validated = CheckHysteresis(old.validated, new.score)
    <3>1. new.score <= InitialScore + ValidPacketBonus /\ new.score > InitialScore => old.score > InitialScore
      BY <2>1, <2>2, <2>6
    <3>2. new.score <= InitialScore + ValidPacketBonus
      BY <2>1, <2>2, <2>6
    <3>3. new.validated = CheckHysteresis(FALSE, new.score)
      BY <2>2, <2>6 DEF CheckHysteresis
    <3>. QED
      BY <2>2, <2>3, <2>4, <2>6, <3>1, <3>2, <3>3
  <2>7. CASE /\ Known(d) /\ new.score <= old.score + ValidPacketBonus /\ Continues(n)
             /\ new.validated = CheckHysteresis(old.validated, new.score)
    <3>1. ~(old.score > InitialScore)
      <4>. SUFFICES ASSUME old.score > InitialScore
                    PROVE  FALSE
        OBVIOUS
      <4>1. PICK i \in AirOf(d) : pc[i] # "validate" /\ Continues(i)
        BY <2>2, <2>7
      <4>2. i \in DOMAIN msgs /\ i # n /\ DeviceOf(i) = d
        BY <2>3, <4>1 DEF AirOf
      <4>3. i \in Nat /\ n \in Nat
        BY <4>2, MessageTyped DEF TypedInv
      <4>4. i < n \/ n < i
        BY <4>2, <4>3
      <4>. QED
        BY <2>7, <4>1, <4>2, <4>4 DEF Evidence
    <3>2. new.score <= InitialScore + ValidPacketBonus
      BY <2>1, <2>2, <2>7, <3>1
    <3>3. new.validated = CheckHysteresis(FALSE, new.score)
      BY <2>2, <2>7 DEF CheckHysteresis
    <3>4. pc'[n] # "validate"
      BY <1>1, <1>2
    <3>. QED
      BY <1>1, <2>4, <2>7, <3>2, <3>3, <3>4
  <2>. QED
    BY <1>1, <2>5, <2>6, <2>7
<1>5. OneBonus'
  <2>. SUFFICES ASSUME NEW e \in Device, Known(e)', ~Evidence(e)'
                PROVE  (/\ ~states[e].validated
                        /\ states[e].score <= InitialScore + ValidPacketBonus
                        /\ states[e].score > InitialScore =>
                             \E i \in AirOf(e) : pc[i] # "validate" /\ Continues(i))'
    BY DEF OneBonus
  <2>1. ~Evidence(e) /\ AirOf(e)' = AirOf(e) /\ \A i : Continues(i)' = Continues(i)
    BY <1>1, SameMessages
  <2>2. CASE e = d
    BY <1>4, <2>1, <2>2
  <2>3. CASE e # d
    <3>1. states'[e] = states[e] /\ Known(e)
      BY <1>1, <2>3 DEF Known
    <3>2. \A i \in AirOf(e) : pc[i] # "validate" => pc'[i] # "validate"
      BY <1>1, <1>2 DEF AirOf
    <3>. QED
      BY <2>1, <3>1, <3>2 DEF PhantomInv, OneBonus
  <2>. QED
    BY <2>2, <2>3
<1>6. HeldBack'
  <2>1. ~Evidence(d) => ~store'[n]
    BY <1>1, <1>2, <1>4
  <2>2. pc'[n] = "inspect" /\ \A i \in DOMAIN msgs \ {n} : pc'[i] = pc[i] /\ store'[i] = store[i]
    BY <1>1, <1>2
  <2>. QED
    BY <1>1, <2>1, <2>2, SameMessages DEF PhantomInv, HeldBack
<1>7. Unseen' /\ Withheld'
  BY <1>1, SameMessages DEF PhantomInv, Unseen, Withheld, Placed
<1>. QED
  BY <1>3, <1>5, <1>6, <1>7 DEF PhantomInv

LEMMA HandlePhantom ==
  ASSUME TypedInv, PhantomInv, NEW n \in DOMAIN msgs, Handle(n), ~Validate(n)
  PROVE  PhantomInv'
<1>. DEFINE d == DeviceOf(n)
<1>1. /\ pc \in [DOMAIN msgs -> Stage] /\ record \in [Device -> Record \cup {None}]
      /\ told \in [Device -> Telling \cup {None}] /\ d \in Device
  BY MessageTyped DEF TypedInv, IngestTypeOK, Stage
<1>2. msgs' = msgs /\ states' = states /\ store' = store
  BY DEF Handle, Inspect, Save, WriteFails, Queue, Remove, Tell, Exists, Create, Rename, NameFails,
         NoReply, Answered, handlerVars, validationVars
<1>3. \/ pc' = pc /\ pc[n] \in Writing
      \/ \E stage \in Stage :
           /\ pc' = [pc EXCEPT ![n] = stage] /\ pc[n] # "validate" /\ stage # "validate"
           /\ ~Evidence(d) => stage \notin {"save", "remove", "queue", "tell", "tellRemoved"}
  <2>1. CASE Inspect(n)
    <3>1. ~Evidence(d) => ~store[n] /\ ~WasValidated(states[d])
      BY <1>1 DEF PhantomInv, HeldBack, OneBonus, WasValidated, Known
    <3>. QED
      BY <2>1, <3>1 DEF Inspect, Goto, Stage
  <2>2. CASE NoReply(n)
    BY <2>2 DEF NoReply
  <2>3. CASE ~Inspect(n) /\ ~NoReply(n)
    BY <2>3 DEF Handle, Save, WriteFails, Queue, Remove, Tell, Exists, Create, Rename, NameFails,
                Goto, AfterQueue, Stage, PhantomInv, HeldBack
  <2>. QED
    BY <2>1, <2>2, <2>3
<1>4. /\ \A i \in DOMAIN msgs \ {n} : pc'[i] = pc[i]
      /\ pc[n] # "validate" /\ pc'[n] # "validate"
      /\ ~Evidence(d) => pc'[n] \notin {"save", "remove", "queue", "tell", "tellRemoved"}
  BY <1>1, <1>3 DEF Writing, PhantomInv, HeldBack
<1>5. ReferenceIsAMessage'
  BY <1>2, SameMessages DEF PhantomInv, ReferenceIsAMessage, Known
<1>6. OneBonus'
  <2>1. \A e : \A i \in AirOf(e) : pc[i] # "validate" => pc'[i] # "validate"
    BY <1>4 DEF AirOf
  <2>. QED
    BY <1>2, <2>1, SameMessages DEF PhantomInv, OneBonus, Known
<1>7. HeldBack'
  <2>1. \A i \in DOMAIN msgs : i \in queued' =>
          i \in queued \/ (i = n /\ pc[n] \in {"queue", "queueName"})
    BY DEF Handle, Validate, Inspect, Save, WriteFails, Queue, Remove, Tell, Exists, Create, Rename,
           NameFails, NoReply, Answered
  <2>2. ~Evidence(d) /\ n \in queued' => msgs[n].type = "name"
    BY <2>1 DEF PhantomInv, HeldBack, TypedInv, StageMatches
  <2>. QED
    BY <1>2, <1>4, <2>1, <2>2, SameMessages DEF PhantomInv, HeldBack
<1>8. Unseen'
  <2>1. \A e \in Device \ {d} : record'[e] = record[e]
    BY <1>1, HandlerCalls
  <2>2. \/ told' = told
        \/ pc[n] \in {"tell", "tellRemoved"} /\ \A e \in Device \ {d} : told'[e] = told[e]
    BY <1>1 DEF Handle, Inspect, Save, WriteFails, Queue, Remove, Tell, Exists, Create, Rename,
                NameFails, NoReply, Answered
  <2>3. ASSUME ~Evidence(d)
        PROVE  told'[d] = None /\ ~(record'[d] # None /\ record'[d].place # None)
    <3>1. /\ told[d] = None /\ ~(record[d] # None /\ record[d].place # None)
          /\ pc[n] \notin {"save", "remove", "tell", "tellRemoved"}
      BY <1>1, <2>3 DEF PhantomInv, Unseen, HeldBack, Placed
    <3>2. told' = told
      BY <2>2, <3>1
    <3>3. CASE record' = record
      BY <3>1, <3>2, <3>3
    <3>4. CASE /\ pc[n] \in Writing
               /\ record' = [record EXCEPT ![d] = After(CallOf(n), record[d])]
      <4>1. /\ CallOf(n) \in Call /\ CallOf(n).of \in DOMAIN msgs /\ CallOf(n).does # "save"
            /\ CallOf(n).does \in {"create", "rename"} => msgs[CallOf(n).of].type = "name"
            /\ CallOf(n).does = "save" => msgs[CallOf(n).of].type = "air"
        BY <3>1, <3>4, HandlerCalls
      <4>2. record[d] \in Record \cup {None} /\ IngestTypeOK
        BY <1>1 DEF TypedInv
      <4>3. record'[d] = After(CallOf(n), record[d])
        BY <1>1, <3>4
      <4>4. record'[d] = None \/ record'[d].place = None
        BY <3>1, <4>1, <4>2, <4>3, AfterCall
      <4>. QED
        BY <3>1, <3>2, <4>4
    <3>. QED
      BY <3>3, <3>4, HandlerCalls
  <2>4. ASSUME NEW e \in Device, ~Evidence(e), e # d
        PROVE  told'[e] = None /\ ~(record'[e] # None /\ record'[e].place # None)
    BY <2>1, <2>2, <2>4 DEF PhantomInv, Unseen, Placed
  <2>. QED
    BY <1>2, <2>3, <2>4, SameMessages DEF Unseen, Placed
<1>9. Withheld'
  <2>1. ~Evidence(d) => pc[n] \notin {"save", "remove"}
    BY DEF PhantomInv, HeldBack
  <2>2. \A call \in unanswered' :
          \/ call \in unanswered
          \/ DeviceOf(call.of) = d /\ call.does = pc[n]
    BY HandlerCalls
  <2>. QED
    BY <1>2, <2>1, <2>2, SameMessages DEF PhantomInv, Withheld
<1>. QED
  BY <1>5, <1>6, <1>7, <1>8, <1>9 DEF PhantomInv

\* A received message proves nothing yet, and takes no evidence away.
LEMMA KeepsPhantom ==
  ASSUME TypedInv, PhantomInv, NEW m \in Message, NEW first \in {"validate", "exists"},
         Keeps(Len(msgs) + 1, m, first), UNCHANGED states
  PROVE  PhantomInv'
<1>. DEFINE new == Len(msgs) + 1
<1>1. /\ \A n \in DOMAIN msgs :
           /\ DeviceOf(n)' = DeviceOf(n) /\ msgs'[n] = msgs[n] /\ pc'[n] = pc[n]
           /\ store'[n] = store[n]
      /\ DOMAIN msgs' = DOMAIN msgs \cup {new}
      /\ pc'[new] = first /\ ~store'[new] /\ msgs'[new] = m
      /\ UNCHANGED <<record, unanswered, queued, told>>
  BY DEF Keeps, DeviceOf
<1>2. /\ queued \subseteq DOMAIN msgs /\ new \notin DOMAIN msgs
      /\ \A call \in unanswered : call.of \in DOMAIN msgs
  BY DEF TypedInv, IngestTypeOK, Keeps
<1>. HIDE DEF new
<1>3. \A n \in DOMAIN msgs : Continues(n) => Continues(n)'
  <2>1. \A i, n \in DOMAIN msgs : Plausible(i, n) => Plausible(i, n)'
    BY <1>1 DEF Plausible
  <2>. QED
    BY <1>1, <2>1 DEF Continues
<1>4. \A d : Evidence(d) => Evidence(d)'
  BY <1>1, <1>3 DEF Evidence
<1>5. \A d : AirOf(d) \subseteq AirOf(d)' /\ AirOf(d) \subseteq DOMAIN msgs
  BY <1>1 DEF AirOf
<1>6. ReferenceIsAMessage'
  BY <1>1, <1>5 DEF PhantomInv, ReferenceIsAMessage, Known
<1>7. OneBonus'
  <2>. SUFFICES ASSUME NEW d \in Device, Known(d), ~Evidence(d)'
                PROVE  /\ ~states[d].validated
                       /\ states[d].score <= InitialScore + ValidPacketBonus
                       /\ states[d].score > InitialScore =>
                            \E n \in AirOf(d)' : pc'[n] # "validate" /\ Continues(n)'
    BY DEF OneBonus, Known
  <2>1. ~Evidence(d)
    BY <1>4
  <2>. QED
    BY <1>1, <1>3, <1>5, <2>1 DEF PhantomInv, OneBonus
<1>8. HeldBack'
  BY <1>1, <1>2, <1>4 DEF PhantomInv, HeldBack
<1>9. Unseen'
  BY <1>1, <1>4 DEF PhantomInv, Unseen, Placed
<1>10. Withheld'
  BY <1>1, <1>2, <1>4 DEF PhantomInv, Withheld
<1>. QED
  BY <1>6, <1>7, <1>8, <1>9, <1>10 DEF PhantomInv

\* The administration forgets a state or takes its verdict away.
LEMMA Administered ==
  ASSUME TypedInv, Administer
  PROVE  /\ UNCHANGED <<load, msgs, store, peek, pc, record, unanswered, queued, told, now>>
         /\ \A d \in Device :
              \/ states'[d] = states[d] \/ states'[d] = Unknown
              \/ /\ states[d] # Unknown /\ ~states'[d].validated
                 /\ states'[d].score = states[d].score
                 /\ states'[d].position = states[d].position
                 /\ states'[d].lastUpdate = states[d].lastUpdate
<1>1. UNCHANGED <<load, msgs, store, peek, pc, record, unanswered, queued, told, now>>
  BY DEF Administer, handlerVars, CleanupOldStates, InvalidateDevice
<1>2. \A d \in Device :
        \/ states'[d] = states[d] \/ states'[d] = Unknown
        \/ /\ states[d] # Unknown /\ ~states'[d].validated
           /\ states'[d].score = states[d].score
           /\ states'[d].position = states[d].position
           /\ states'[d].lastUpdate = states[d].lastUpdate
  <2>1. states \in [Device -> State \cup {Unknown}]
    BY DEF TypedInv, ScoreInv, TypeOK
  <2>2. CASE CleanupOldStates
    BY <2>1, <2>2 DEF CleanupOldStates
  <2>3. ASSUME NEW e \in Device, InvalidateDevice(e)
        PROVE  \A d \in Device :
                 \/ states'[d] = states[d]
                 \/ /\ states[d] # Unknown /\ ~states'[d].validated
                    /\ states'[d].score = states[d].score
                    /\ states'[d].position = states[d].position
                    /\ states'[d].lastUpdate = states[d].lastUpdate
    <3>1. states[e] \in State /\ states' = [states EXCEPT ![e] = [states[e] EXCEPT !.validated = FALSE]]
      BY <2>1, <2>3 DEF InvalidateDevice, Known
    <3>. DEFINE new == [states[e] EXCEPT !.validated = FALSE]
    <3>2. /\ new.position = states[e].position /\ new.lastUpdate = states[e].lastUpdate
          /\ new.score = states[e].score /\ ~new.validated
      BY <3>1 DEF State
    <3>. QED
      BY <2>1, <2>3, <3>1, <3>2 DEF InvalidateDevice, Known
  <2>. QED
    BY <2>2, <2>3 DEF Administer
<1>. QED
  BY <1>1, <1>2

LEMMA AdministerPhantom ==
  ASSUME TypedInv, PhantomInv, Administer
  PROVE  PhantomInv'
<1>1. UNCHANGED <<load, msgs, store, peek, pc, record, unanswered, queued, told>>
  BY Administered
<1>2. \A d \in Device :
        \/ states'[d] = states[d] \/ states'[d] = Unknown
        \/ /\ states[d] # Unknown /\ ~states'[d].validated
           /\ states'[d].score = states[d].score
           /\ states'[d].position = states[d].position
           /\ states'[d].lastUpdate = states[d].lastUpdate
  BY Administered
<1>3. ReferenceIsAMessage'
  BY <1>1, <1>2, SameMessages DEF PhantomInv, ReferenceIsAMessage, Known
<1>4. OneBonus'
  BY <1>1, <1>2, SameMessages DEF PhantomInv, OneBonus, Known
<1>5. HeldBack' /\ Unseen' /\ Withheld'
  BY <1>1, SameMessages DEF PhantomInv, HeldBack, Unseen, Withheld, Placed
<1>. QED
  BY <1>3, <1>4, <1>5 DEF PhantomInv

LEMMA NextPhantom == TypedInv /\ PhantomInv /\ [IngestNext]_vars => PhantomInv'
<1>. SUFFICES ASSUME TypedInv, PhantomInv, [IngestNext]_vars
              PROVE  PhantomInv'
  OBVIOUS
<1>. IngestTypeOK
  BY DEF TypedInv
<1>1. CASE UNCHANGED vars
  BY <1>1, SameMessages DEF vars, validationVars, handlerVars, PhantomInv, ReferenceIsAMessage,
                            OneBonus, HeldBack, Unseen, Withheld, Known, Placed
<1>2. ASSUME NEW d \in Device, NEW p \in Place, NEW a \in Aircraft, ReceiveAir(d, p, a)
      PROVE  PhantomInv'
  <2>1. \E m \in Message : Keeps(Len(msgs) + 1, m, "validate") /\ UNCHANGED states
    BY <1>2, ReceivedAir
  <2>. QED
    BY <2>1, KeepsPhantom
<1>3. ASSUME NEW d \in Device, NEW name \in Name, ReceiveName(d, name)
      PROVE  PhantomInv'
  <2>1. \E m \in Message : Keeps(Len(msgs) + 1, m, "exists") /\ UNCHANGED states
    BY <1>3, ReceivedName DEF validationVars
  <2>. QED
    BY <2>1, KeepsPhantom
<1>4. ASSUME NEW d \in Device, Expire(d)
      PROVE  PhantomInv'
  <2>1. /\ UNCHANGED <<states, msgs, store, pc, unanswered, queued, told>>
        /\ \A e \in Device : record'[e] = record[e] \/ record'[e] = None
    BY <1>4 DEF Expire, validationVars, handlerVars, IngestTypeOK
  <2>. QED
    BY <2>1, SameMessages DEF PhantomInv, ReferenceIsAMessage, OneBonus, HeldBack, Unseen, Withheld,
                              Known, Placed
<1>5. ASSUME NEW call \in unanswered, Execute(call)
      PROVE  PhantomInv'
  <2>. DEFINE d == DeviceOf(call.of)
  <2>1. UNCHANGED <<states, msgs, store, pc, unanswered, queued, told>>
    BY <1>5 DEF Execute, validationVars, handlerVars
  <2>2. /\ d \in Device /\ \A e \in Device \ {d} : record'[e] = record[e]
        /\ call.does # "save" /\ (record[d] = None \/ record[d].place = None) =>
             record'[d] = None \/ record'[d].place = None
    BY <1>5, ExecuteTyped DEF TypedInv
  <2>3. ~Evidence(d) => call.does # "save" /\ ~Placed(d)
    BY <2>2 DEF PhantomInv, Unseen, Withheld
  <2>4. \A e \in Device : ~Evidence(e) => ~(record'[e] # None /\ record'[e].place # None)
    BY <2>2, <2>3 DEF PhantomInv, Unseen, Placed
  <2>5. Unseen'
    BY <2>1, <2>4, SameMessages DEF PhantomInv, Unseen, Placed
  <2>. QED
    BY <2>1, <2>5, SameMessages DEF PhantomInv, ReferenceIsAMessage, OneBonus, HeldBack, Withheld,
                                    Known
<1>. QED
  BY <1>1, <1>2, <1>3, <1>4, <1>5, ValidatePhantom, HandlePhantom, AdministerPhantom DEF IngestNext, Idle

LEMMA PhantomInvariant == IngestSpec => [](TypedInv /\ PhantomInv)
BY InitTyped, NextTyped, InitPhantom, NextPhantom, PTL DEF IngestSpec

\* However many handlers overlap, however late messages are and whatever fails,
\* expires or is invalidated in between, a device of which fewer than two messages
\* continue another is never in Redis, in the queue to MySQL or with the clients.
THEOREM NoPhantoms == IngestSpec => []NoPhantom
<1>1. TypedInv /\ PhantomInv => NoPhantom
  BY DEF PhantomInv, Unseen, HeldBack, NoPhantom, AirOf
<1>. QED
  BY <1>1, PhantomInvariant, PTL

-----------------------------------------------------------------------------
(* One handler at a time.                                                   *)

LastOf(d, n) == n \in AirOf(d) /\ \A m \in AirOf(d) : m <= n

\* Only the last message is being handled, and it is never removed: Inspect sees
\* the verdict that Validate returned, or a lesser one.
Alone ==
  \A n \in DOMAIN msgs :
    /\ pc[n] \in {"validate", "inspect", "save", "queue", "tell", "done"}
    /\ msgs[n].type = "air"
    /\ n # Len(msgs) => pc[n] = "done"

InOrder ==
  \A n \in DOMAIN msgs :
    /\ msgs[n].at <= now
    /\ pc[n] = "validate" =>
         \A d \in Device : Known(d) => states[d].lastUpdate < msgs[n].at

\* The reference of a device is its last message, once that is validated.
ReferenceIsLast ==
  \A d \in Device, n \in DOMAIN msgs :
    Known(d) /\ LastOf(d, n) /\ pc[n] # "validate" =>
      states[d].position = msgs[n].place /\ states[d].lastUpdate = msgs[n].at

\* What a handler has read still holds.
Held == \A n \in DOMAIN msgs : pc[n] = "inspect" /\ ~store[n] => ~Shown(DeviceOf(n))

\* The messages whose position the record of d can be: the one that a handler has just
\* saved, or else the one of the last broadcast, and those whose save got no reply.
Saved(d)   == {n \in AirOf(d) : pc[n] \in {"queue", "tell"}}
Sources(d) == Doubtful(d) \cup (IF Saved(d) = {} THEN LastTold(d) ELSE Saved(d))

Holds(d, n) == record[d] # None /\ record[d].place = msgs[n].place /\ record[d].at = msgs[n].at

Traced ==
  /\ \A call \in unanswered : call.does = "save"
  /\ \A d \in Device :
       /\ told[d] # None => ~told[d].removed /\ told[d].of \in AirOf(d)
       /\ told[d] # None \/ Saved(d) # {} => record[d] # None
       /\ record[d] # None => \E n \in Sources(d) : Holds(d, n)

SerialInv == Alone /\ InOrder /\ ReferenceIsLast /\ Held /\ Traced

LEMMA InitSerial == IngestInit => SerialInv
<1>. SUFFICES ASSUME IngestInit
              PROVE  SerialInv
  OBVIOUS
<1>1. /\ DOMAIN msgs = {} /\ unanswered = {}
      /\ \A d \in Device : ~Known(d) /\ record[d] = None /\ told[d] = None
  BY DEF IngestInit, Init, Known
<1>. QED
  BY <1>1 DEF SerialInv, Alone, InOrder, ReferenceIsLast, Held, Traced, Saved, AirOf

\* Nothing that Traced reads changes but stages that no save has reached.
LEMMA SameSources ==
  ASSUME Traced, UNCHANGED <<msgs, record, unanswered, told>>,
         \A n \in DOMAIN msgs : pc'[n] \in {"queue", "tell"} <=> pc[n] \in {"queue", "tell"}
  PROVE  Traced'
<1>1. \A d : AirOf(d)' = AirOf(d) /\ AirOf(d) \subseteq DOMAIN msgs
  BY SameMessages DEF AirOf
<1>2. \A d : Saved(d)' = Saved(d) /\ Doubtful(d)' = Doubtful(d) /\ LastTold(d)' = LastTold(d)
  BY <1>1 DEF Saved, Doubtful, LastTold
<1>3. \A d : Sources(d)' = Sources(d) /\ \A n : Holds(d, n)' <=> Holds(d, n)
  BY <1>2 DEF Sources, Holds
<1>. QED
  BY <1>1, <1>2, <1>3 DEF Traced

LEMMA NobodyRuns ==
  ASSUME IngestTypeOK, Serial, NEW m, NEW first, Receive(m, first)
  PROVE  \A n \in DOMAIN msgs : pc[n] = "done"
<1>1. Len(msgs) \in Nat /\ DOMAIN msgs = 1..Len(msgs)
  BY LenProperties DEF IngestTypeOK
<1>2. IsFiniteSet(DOMAIN msgs)
  BY <1>1, FS_Interval
<1>3. IsFiniteSet(Running)
  BY <1>2, FS_Subset DEF Running
<1>4. Cardinality(Running) < 1 /\ Cardinality(Running) \in Nat
  BY <1>3, FS_CardinalityType DEF Receive, Serial
<1>5. Cardinality(Running) = 0
  BY <1>4
<1>6. Running = {}
  BY <1>3, <1>5, FS_EmptySet
<1>. QED
  BY <1>6 DEF Running

LEMMA SavedSame ==
  ASSUME NEW n, msgs'[n] = msgs[n]
  PROVE  SavedRecord(n)' = SavedRecord(n) /\ DeviceOf(n)' = DeviceOf(n)
BY DEF SavedRecord, DeviceOf

LEMMA ReceiveSerial ==
  ASSUME TypedInv, PhantomInv, Serial, SerialInv,
         NEW d \in Device, NEW p \in Place, NEW a \in Aircraft, ReceiveAir(d, p, a)
  PROVE  SerialInv'
<1>. DEFINE new == Len(msgs) + 1
<1>1. PICK m \in Message :
        /\ m.type = "air" /\ m.device = d /\ m.at = now' /\ m.at \in Nat
        /\ Receive(m, "validate") /\ Keeps(new, m, "validate")
        /\ now' = now + 1 /\ now \in Nat /\ UNCHANGED states
  <2>1. IngestTypeOK /\ load.delay = 0
    BY DEF TypedInv, Serial
  <2>2. PICK at \in Time :
           LET m == [type |-> "air", device |-> d, place |-> p, at |-> at, aircraft |-> a] IN
           /\ m \in Message
           /\ at <= now' /\ (load.delay = 0 => at = now')
           /\ Receive(m, "validate") /\ Keeps(Len(msgs) + 1, m, "validate")
           /\ now' = now + 1 /\ now \in Nat /\ now' \in Time /\ UNCHANGED <<states, since>>
    BY <2>1, ReceivedAir
  <2>3. now' \in Nat
    BY <2>2
  <2>. QED
    BY <2>1, <2>2, <2>3
<1>2. \A n \in DOMAIN msgs : pc[n] = "done"
  BY <1>1, NobodyRuns DEF TypedInv
<1>3. /\ \A n \in DOMAIN msgs : pc'[n] = "done" /\ msgs'[n] = msgs[n] /\ store'[n] = store[n]
      /\ DOMAIN msgs' = DOMAIN msgs \cup {new} /\ new \notin DOMAIN msgs /\ Len(msgs') = new
      /\ pc'[new] = "validate" /\ msgs'[new] = m
      /\ UNCHANGED <<record, unanswered, told, queued>>
  BY <1>1, <1>2 DEF Keeps
<1>4. \A n \in DOMAIN msgs : DeviceOf(n)' = DeviceOf(n) /\ SavedRecord(n)' = SavedRecord(n)
  BY <1>3, SavedSame
<1>. HIDE DEF new
<1>5. \A e : AirOf(e) \subseteq AirOf(e)' /\ AirOf(e)' \subseteq AirOf(e) \cup {new} /\ AirOf(e) \subseteq DOMAIN msgs
  BY <1>3, <1>4 DEF AirOf
<1>6. Alone'
  BY <1>1, <1>3 DEF SerialInv, Alone
<1>7. InOrder'
  <2>1. \A n \in DOMAIN msgs : msgs[n].at <= now /\ msgs[n].at \in Nat
    BY MessageTyped, TimeAssumption DEF SerialInv, InOrder, Alone, TypedInv, Time
  <2>2. \A e \in Device : Known(e) => states[e].lastUpdate <= now /\ states[e].lastUpdate \in Nat
    BY <1>5, <2>1 DEF PhantomInv, ReferenceIsAMessage
  <2>3. \A n \in DOMAIN msgs : msgs[n].at <= now'
    BY <1>1, <2>1
  <2>4. \A e \in Device : Known(e) => states[e].lastUpdate < now'
    BY <1>1, <2>2
  <2>. QED
    BY <1>1, <1>3, <2>3, <2>4 DEF InOrder, Known
<1>8. ReferenceIsLast'
  <2>. SUFFICES ASSUME NEW e \in Device, NEW n \in DOMAIN msgs', Known(e)', LastOf(e, n)',
                       pc'[n] # "validate"
                PROVE  states'[e].position = msgs'[n].place /\ states'[e].lastUpdate = msgs'[n].at
    BY DEF ReferenceIsLast
  <2>1. n \in DOMAIN msgs /\ LastOf(e, n)
    BY <1>3, <1>5 DEF LastOf
  <2>2. pc[n] # "validate"
    BY <1>2, <2>1
  <2>3. msgs'[n] = msgs[n] /\ states'[e] = states[e] /\ Known(e)
    BY <1>1, <1>3, <2>1 DEF Known
  <2>. QED
    BY <2>1, <2>2, <2>3 DEF SerialInv, ReferenceIsLast
<1>9. Held'
  BY <1>3 DEF Held
<1>10. Traced'
  <2>. SUFFICES ASSUME NEW e \in Device
                PROVE  /\ told[e] # None => ~told[e].removed /\ told[e].of \in AirOf(e)'
                       /\ told[e] # None \/ Saved(e)' # {} => record[e] # None
                       /\ record[e] # None => \E n \in Sources(e)' : Holds(e, n)'
    BY <1>3 DEF SerialInv, Traced
  <2>1. Saved(e) = {} /\ Saved(e)' = {}
    BY <1>2, <1>3, <1>5 DEF Saved
  <2>2. Doubtful(e) \subseteq Doubtful(e)' /\ LastTold(e)' = LastTold(e)
    BY <1>3, <1>5 DEF Doubtful, LastTold
  <2>3. Sources(e) \subseteq Sources(e)'
    BY <2>1, <2>2 DEF Sources
  <2>4. \A n \in Sources(e) : n \in DOMAIN msgs
    BY <1>5, <2>1 DEF Sources, Doubtful, LastTold, SerialInv, Traced
  <2>5. \A n \in Sources(e) : Holds(e, n) => Holds(e, n)'
    BY <1>3, <2>4 DEF Holds
  <2>. QED
    BY <1>5, <2>1, <2>3, <2>5 DEF SerialInv, Traced
<1>. QED
  BY <1>6, <1>7, <1>8, <1>9, <1>10 DEF SerialInv

LEMMA ValidateSerial ==
  ASSUME TypedInv, PhantomInv, SerialInv, NEW n \in DOMAIN msgs, Validate(n)
  PROVE  SerialInv'
<1>. DEFINE d   == DeviceOf(n)
            new == states'[d]
<1>1. /\ d \in Device /\ new \in State /\ n \in AirOf(d)
      /\ \A e \in Device \ {d} : states'[e] = states[e]
      /\ \/ new.position = msgs[n].place /\ new.lastUpdate = msgs[n].at
         \/ Known(d) /\ NotLater(d, msgs[n].at)
      /\ pc[n] = "validate" /\ pc' = [pc EXCEPT ![n] = "inspect"]
      /\ store' = [store EXCEPT ![n] = new.validated]
      /\ UNCHANGED <<now, msgs, record, unanswered, told>>
  BY Validated DEF PhantomInv
<1>2. /\ \A i \in DOMAIN msgs \ {n} : pc'[i] = pc[i] /\ store'[i] = store[i] /\ pc[i] = "done"
      /\ pc'[n] = "inspect" /\ store'[n] = new.validated /\ n = Len(msgs) /\ n \in Nat
  BY <1>1, MessageTyped DEF TypedInv, IngestTypeOK, SerialInv, Alone
<1>3. new.position = msgs[n].place /\ new.lastUpdate = msgs[n].at
  <2>1. msgs[n].at \in Nat
    BY <1>1, MessageTyped, TimeAssumption DEF TypedInv, AirOf, Time
  <2>2. Known(d) => states[d].lastUpdate < msgs[n].at /\ states[d].lastUpdate \in Nat
    BY <1>1, TimeAssumption DEF SerialInv, InOrder, TypedInv, ScoreInv, TypeOK, Known, State, Time
  <2>. QED
    BY <1>1, <2>1, <2>2 DEF NotLater
<1>4. \A i : DeviceOf(i)' = DeviceOf(i) /\ SavedRecord(i)' = SavedRecord(i)
  BY <1>1, SavedSame
<1>5. \A e : AirOf(e)' = AirOf(e) /\ \A i : LastOf(e, i)' <=> LastOf(e, i)
  BY <1>1, SameMessages DEF LastOf
<1>6. Alone' /\ InOrder'
  BY <1>1, <1>2 DEF SerialInv, Alone, InOrder
<1>7. ReferenceIsLast'
  <2>. SUFFICES ASSUME NEW e \in Device, NEW i \in DOMAIN msgs, Known(e)', LastOf(e, i)
                PROVE  states'[e].position = msgs[i].place /\ states'[e].lastUpdate = msgs[i].at
    BY <1>1, <1>5 DEF ReferenceIsLast
  <2>1. CASE e = d
    <3>1. i <= n /\ i \in Nat
      <4>1. \A j \in DOMAIN msgs : j \in Nat /\ j <= Len(msgs)
        BY LenProperties DEF TypedInv, IngestTypeOK
      <4>. QED
        BY <1>2, <4>1
    <3>2. n <= i
      BY <1>1, <2>1 DEF LastOf
    <3>3. i = n
      BY <1>2, <3>1, <3>2
    <3>. QED
      BY <1>3, <2>1, <3>3
  <2>2. CASE e # d
    <3>1. i # n /\ i \in AirOf(e)
      BY <2>2 DEF LastOf, AirOf
    <3>2. pc[i] # "validate" /\ states'[e] = states[e]
      BY <1>1, <1>2, <2>2, <3>1
    <3>. QED
      BY <3>2 DEF SerialInv, ReferenceIsLast, Known
  <2>. QED
    BY <2>1, <2>2
<1>8. Held'
  BY <1>1, <1>2, <1>4 DEF Held, Shown
<1>9. Traced'
  <2>1. \A i \in DOMAIN msgs : pc'[i] \in {"queue", "tell"} <=> pc[i] \in {"queue", "tell"}
    BY <1>1, <1>2
  <2>. QED
    BY <1>1, <2>1, SameSources DEF SerialInv
<1>. QED
  BY <1>6, <1>7, <1>8, <1>9 DEF SerialInv

LEMMA HandleSerial ==
  ASSUME TypedInv, SerialInv, NEW n \in DOMAIN msgs, Handle(n), ~Validate(n)
  PROVE  SerialInv'
<1>. DEFINE d == DeviceOf(n)
<1>1. /\ pc \in [DOMAIN msgs -> Stage] /\ record \in [Device -> Record \cup {None}]
      /\ told \in [Device -> Telling \cup {None}] /\ d \in Device /\ n \in AirOf(d)
      /\ n \in Nat /\ n = Len(msgs) /\ msgs[n].type = "air"
      /\ pc[n] \in {"inspect", "save", "queue", "tell"}
  <2>1. pc[n] # "done" /\ pc[n] # "validate"
    BY DEF Handle, Inspect, Save, WriteFails, Queue, Remove, Tell, Exists, Create, Rename, NameFails,
           NoReply, Writing, SerialInv, Alone
  <2>. QED
    BY <2>1, MessageTyped DEF TypedInv, IngestTypeOK, Stage, SerialInv, Alone, AirOf
<1>2. msgs' = msgs /\ states' = states /\ store' = store /\ now' = now
  BY DEF Handle, Inspect, Save, WriteFails, Queue, Remove, Tell, Exists, Create, Rename, NameFails,
         NoReply, Answered, handlerVars, validationVars
<1>3. /\ \A i : DeviceOf(i)' = DeviceOf(i) /\ SavedRecord(i)' = SavedRecord(i)
      /\ \A e : AirOf(e)' = AirOf(e) /\ \A i : LastOf(e, i)' <=> LastOf(e, i)
  BY <1>2, SameMessages, SavedSame DEF LastOf
\* The four stages of a handler, a failed save and one that gets no reply.
<1>4. \/ /\ pc[n] \in {"inspect", "save"} /\ pc' = [pc EXCEPT ![n] = "done"]
         /\ UNCHANGED <<record, unanswered, told>>
      \/ /\ pc[n] = "inspect" /\ pc' = [pc EXCEPT ![n] = "save"]
         /\ UNCHANGED <<record, unanswered, told>>
      \/ /\ pc[n] = "save" /\ pc' = pc
         /\ unanswered' = unanswered \cup {CallOf(n)} /\ UNCHANGED <<record, told>>
      \/ /\ pc[n] = "save" /\ pc' = [pc EXCEPT ![n] = "queue"]
         /\ record' = [record EXCEPT ![d] = SavedRecord(n)] /\ UNCHANGED <<unanswered, told>>
      \/ /\ pc[n] = "queue" /\ pc' = [pc EXCEPT ![n] = "tell"]
         /\ UNCHANGED <<record, unanswered, told>>
      \/ /\ pc[n] = "tell" /\ pc' = [pc EXCEPT ![n] = "done"]
         /\ told' = [told EXCEPT ![d] = [removed |-> FALSE, of |-> n]]
         /\ UNCHANGED <<record, unanswered>>
  <2>1. CASE Inspect(n)
    <3>1. ~store[n] => ~WasValidated(states[d])
      BY <2>1 DEF Inspect, SerialInv, Held, Shown, Known, WasValidated
    <3>. QED
      BY <2>1, <3>1 DEF Inspect, Goto
  <2>2. CASE Save(n)
    <3>1. After(CallOf(n), record[d]) = SavedRecord(n)
      BY <2>2 DEF Save, After, CallOf
    <3>2. record' = [record EXCEPT ![d] = SavedRecord(n)]
      BY <2>2, <3>1 DEF Save, Answered
    <3>. QED
      BY <2>2, <3>2 DEF Save, Answered, Goto, handlerVars
  <2>3. CASE WriteFails(n)
    BY <1>1, <2>3 DEF WriteFails, Goto, handlerVars
  <2>4. CASE Queue(n)
    BY <1>1, <2>4 DEF Queue, Goto, AfterQueue, handlerVars
  <2>5. CASE Tell(n)
    <3>1. pc[n] = "tell" /\ (pc[n] = "tellRemoved") = FALSE
      BY <1>1, <2>5 DEF Tell
    <3>. QED
      BY <2>5, <3>1 DEF Tell, Goto, handlerVars
  <2>6. CASE NoReply(n)
    BY <1>1, <2>6 DEF NoReply, Writing
  <2>. QED
    BY <1>1, <2>1, <2>2, <2>3, <2>4, <2>5, <2>6 DEF Handle, Remove, Exists, Create, Rename, NameFails
<1>5. \A i \in DOMAIN msgs \ {n} : pc'[i] = pc[i] /\ pc[i] = "done"
  BY <1>1, <1>4 DEF SerialInv, Alone
<1>6. pc'[n] \in {"save", "queue", "tell", "done"}
  BY <1>1, <1>4
<1>7. Alone' /\ InOrder'
  BY <1>1, <1>2, <1>5, <1>6 DEF SerialInv, Alone, InOrder, Known
<1>8. ReferenceIsLast'
  BY <1>1, <1>2, <1>3, <1>5, <1>6 DEF SerialInv, ReferenceIsLast, Known
<1>9. Held'
  BY <1>2, <1>3, <1>5, <1>6 DEF Held
<1>10. Traced'
  <2>1. CASE /\ UNCHANGED <<record, unanswered, told>>
             /\ pc'[n] \in {"queue", "tell"} <=> pc[n] \in {"queue", "tell"}
    <3>1. \A i \in DOMAIN msgs : pc'[i] \in {"queue", "tell"} <=> pc[i] \in {"queue", "tell"}
      BY <1>5, <2>1
    <3>. QED
      BY <1>2, <2>1, <3>1, SameSources DEF SerialInv
  <2>2. CASE /\ pc[n] = "save" /\ pc' = pc
             /\ unanswered' = unanswered \cup {CallOf(n)} /\ UNCHANGED <<record, told>>
    <3>1. \A call \in unanswered' : call.does = "save"
      BY <2>2 DEF SerialInv, Traced, CallOf
    <3>2. \A e : /\ Saved(e)' = Saved(e) /\ LastTold(e)' = LastTold(e)
                 /\ Doubtful(e) \subseteq Doubtful(e)'
      BY <1>3, <2>2 DEF Saved, LastTold, Doubtful
    <3>3. \A e : Sources(e) \subseteq Sources(e)' /\ \A i : Holds(e, i)' <=> Holds(e, i)
      BY <1>2, <2>2, <3>2 DEF Sources, Holds
    <3>4. \A e \in Device :
            /\ told'[e] # None => ~told'[e].removed /\ told'[e].of \in AirOf(e)'
            /\ told'[e] # None \/ Saved(e)' # {} => record'[e] # None
      BY <1>3, <2>2, <3>2 DEF SerialInv, Traced
    <3>5. \A e \in Device : record'[e] # None => \E i \in Sources(e)' : Holds(e, i)'
      BY <2>2, <3>3 DEF SerialInv, Traced
    <3>. QED
      BY <3>1, <3>4, <3>5 DEF Traced
  <2>3. CASE /\ pc[n] = "save" /\ pc' = [pc EXCEPT ![n] = "queue"]
             /\ record' = [record EXCEPT ![d] = SavedRecord(n)] /\ UNCHANGED <<unanswered, told>>
    <3>. SUFFICES ASSUME NEW e \in Device
                  PROVE  /\ told'[e] # None => ~told'[e].removed /\ told'[e].of \in AirOf(e)'
                         /\ told'[e] # None \/ Saved(e)' # {} => record'[e] # None
                         /\ record'[e] # None => \E i \in Sources(e)' : Holds(e, i)'
      BY <2>3 DEF SerialInv, Traced
    <3>1. CASE e = d
      <4>1. pc'[n] = "queue" /\ record'[d] = SavedRecord(n)
        BY <1>1, <2>3
      <4>2. n \in Saved(e)'
        BY <1>1, <1>3, <3>1, <4>1 DEF Saved
      <4>3. n \in Sources(e)'
        BY <4>2 DEF Sources
      <4>4. /\ SavedRecord(n) # None /\ SavedRecord(n).place = msgs[n].place
            /\ SavedRecord(n).at = msgs[n].at
        BY <1>1, SavedTyped DEF TypedInv
      <4>5. Holds(e, n)'
        BY <1>2, <3>1, <4>1, <4>4 DEF Holds
      <4>6. told'[e] # None => ~told'[e].removed /\ told'[e].of \in AirOf(e)'
        BY <1>1, <1>3, <2>3 DEF SerialInv, Traced
      <4>7. record'[d] # None
        BY <4>1, <4>4
      <4>. QED
        BY <3>1, <4>3, <4>5, <4>6, <4>7
    <3>2. CASE e # d
      <4>1. record'[e] = record[e] /\ told'[e] = told[e] /\ AirOf(e)' = AirOf(e)
        BY <1>1, <1>3, <2>3, <3>2
      <4>2. \A i \in AirOf(e) : pc'[i] = pc[i]
        BY <1>5, <3>2 DEF AirOf
      <4>3. Saved(e)' = Saved(e) /\ LastTold(e)' = LastTold(e) /\ Doubtful(e)' = Doubtful(e)
        BY <2>3, <4>1, <4>2 DEF Saved, LastTold, Doubtful
      <4>4. Sources(e)' = Sources(e) /\ \A i : Holds(e, i)' <=> Holds(e, i)
        BY <1>2, <4>1, <4>3 DEF Sources, Holds
      <4>. QED
        BY <4>1, <4>3, <4>4 DEF SerialInv, Traced
    <3>. QED
      BY <3>1, <3>2
  <2>4. CASE /\ pc[n] = "tell" /\ pc' = [pc EXCEPT ![n] = "done"]
             /\ told' = [told EXCEPT ![d] = [removed |-> FALSE, of |-> n]]
             /\ UNCHANGED <<record, unanswered>>
    <3>. SUFFICES ASSUME NEW e \in Device
                  PROVE  /\ told'[e] # None => ~told'[e].removed /\ told'[e].of \in AirOf(e)'
                         /\ told'[e] # None \/ Saved(e)' # {} => record'[e] # None
                         /\ record'[e] # None => \E i \in Sources(e)' : Holds(e, i)'
      BY <2>4 DEF SerialInv, Traced
    <3>1. CASE e = d
      <4>. DEFINE telling == [removed |-> FALSE, of |-> n]
      <4>1. telling # None /\ ~telling.removed /\ telling.of = n
        <5>1. telling \in Telling
          BY <1>1 DEF Telling
        <5>2. telling # None
          BY <5>1, NoneAssumption
        <5>. QED
          BY <5>2
      <4>2. told'[d] = telling /\ pc'[n] = "done"
        BY <1>1, <2>4
      <4>. HIDE DEF telling
      <4>3. \A i \in AirOf(d) : i # n => pc[i] = "done" /\ pc'[i] = "done"
        BY <1>5 DEF AirOf
      <4>4. Saved(e) = {n} /\ Saved(e)' = {}
        BY <1>1, <1>3, <2>4, <3>1, <4>2, <4>3 DEF Saved
      <4>5. LastTold(e)' = {n} /\ Doubtful(e)' = Doubtful(e)
        BY <1>3, <2>4, <3>1, <4>1, <4>2 DEF LastTold, Doubtful
      <4>6. Sources(e)' = Sources(e) /\ \A i : Holds(e, i)' <=> Holds(e, i)
        BY <1>2, <2>4, <4>4, <4>5 DEF Sources, Holds
      <4>7. record[e] # None /\ \E i \in Sources(e) : Holds(e, i)
        BY <4>4 DEF SerialInv, Traced
      <4>. QED
        BY <1>1, <1>3, <2>4, <3>1, <4>1, <4>2, <4>6, <4>7
    <3>2. CASE e # d
      <4>1. record'[e] = record[e] /\ told'[e] = told[e] /\ AirOf(e)' = AirOf(e)
        BY <1>1, <1>3, <2>4, <3>2
      <4>2. \A i \in AirOf(e) : pc'[i] = pc[i]
        BY <1>5, <3>2 DEF AirOf
      <4>3. Saved(e)' = Saved(e) /\ LastTold(e)' = LastTold(e) /\ Doubtful(e)' = Doubtful(e)
        BY <2>4, <4>1, <4>2 DEF Saved, LastTold, Doubtful
      <4>4. Sources(e)' = Sources(e) /\ \A i : Holds(e, i)' <=> Holds(e, i)
        BY <1>2, <4>1, <4>3 DEF Sources, Holds
      <4>. QED
        BY <4>1, <4>3, <4>4 DEF SerialInv, Traced
    <3>. QED
      BY <3>1, <3>2
  <2>. QED
    BY <1>1, <1>4, <2>1, <2>2, <2>3, <2>4
<1>. QED
  BY <1>7, <1>8, <1>9, <1>10 DEF SerialInv

LEMMA AdministerSerial ==
  ASSUME TypedInv, SerialInv, Administer
  PROVE  SerialInv'
<1>1. /\ UNCHANGED <<msgs, store, pc, record, unanswered, told, now>>
      /\ \A d \in Device :
           \/ states'[d] = states[d] \/ states'[d] = Unknown
           \/ /\ states[d] # Unknown /\ ~states'[d].validated
              /\ states'[d].position = states[d].position
              /\ states'[d].lastUpdate = states[d].lastUpdate
  BY Administered
<1>2. /\ \A i : DeviceOf(i)' = DeviceOf(i) /\ SavedRecord(i)' = SavedRecord(i)
      /\ \A e : AirOf(e)' = AirOf(e) /\ \A i : LastOf(e, i)' <=> LastOf(e, i)
  BY <1>1, SameMessages, SavedSame DEF LastOf
<1>3. Alone' /\ InOrder' /\ ReferenceIsLast'
  BY <1>1, <1>2 DEF SerialInv, Alone, InOrder, ReferenceIsLast, Known
<1>4. \A n \in DOMAIN msgs : DeviceOf(n) \in Device
  BY MessageTyped DEF TypedInv
<1>5. Held'
  BY <1>1, <1>2, <1>4 DEF SerialInv, Held, Shown, Known
<1>6. Traced'
  BY <1>1, SameSources DEF SerialInv
<1>. QED
  BY <1>3, <1>5, <1>6 DEF SerialInv

\* Redis executes the save of a message that the record may be of.
LEMMA ExecuteSerial ==
  ASSUME TypedInv, SerialInv, NEW call \in unanswered, Execute(call)
  PROVE  SerialInv'
<1>. DEFINE n == call.of
<1>. PICK d : d = DeviceOf(n)
  OBVIOUS
<1>1. /\ UNCHANGED <<msgs, store, pc, unanswered, told, now, states>>
      /\ d \in Device /\ \A e \in Device \ {d} : record'[e] = record[e]
      /\ record'[d] \in {After(call, record[d]), BeforeExpire(call, record[d])}
  BY ExecuteTyped DEF Execute, handlerVars, validationVars, TypedInv
<1>2. call.does = "save" /\ n \in DOMAIN msgs /\ msgs[n].type = "air" /\ n \in AirOf(d)
  BY DEF TypedInv, IngestTypeOK, SerialInv, Traced, Alone, AirOf
<1>3. Holds(d, n)'
  <2>. DEFINE whole == After(call, record[d])
  <2>1. whole = SavedRecord(n)
    BY <1>2 DEF After
  <2>2. whole \in Record /\ whole # None /\ whole.place = msgs[n].place /\ whole.at = msgs[n].at
    BY <1>2, <2>1, SavedTyped DEF TypedInv
  <2>. HIDE DEF whole
  <2>3. CASE record'[d] = whole
    BY <1>1, <2>2, <2>3 DEF Holds
  <2>4. CASE record'[d] = BeforeExpire(call, record[d])
    <3>. DEFINE left(ttl) == [whole EXCEPT !.ttl = ttl]
    <3>1. record'[d] = left(record[d] # None /\ record[d].ttl)
      BY <2>2, <2>4 DEF BeforeExpire, whole
    <3>2. (record[d] # None /\ record[d].ttl) \in BOOLEAN
      BY <1>1 DEF TypedInv, IngestTypeOK, Record
    <3>3. \A ttl \in BOOLEAN :
            left(ttl) \in Record /\ left(ttl).place = whole.place /\ left(ttl).at = whole.at
      BY <2>2 DEF Record
    <3>4. /\ record'[d] \in Record /\ record'[d].place = whole.place
          /\ record'[d].at = whole.at
      BY <3>1, <3>2, <3>3
    <3>. QED
      BY <1>1, <2>2, <3>4, NoneAssumption DEF Holds
  <2>. QED
    BY <1>1, <2>3, <2>4 DEF whole
<1>4. /\ \A i : DeviceOf(i)' = DeviceOf(i)
      /\ \A e : AirOf(e)' = AirOf(e) /\ \A i : LastOf(e, i)' <=> LastOf(e, i)
  BY <1>1, SameMessages DEF LastOf
<1>5. Alone' /\ InOrder' /\ ReferenceIsLast' /\ Held'
  BY <1>1, <1>4 DEF SerialInv, Alone, InOrder, ReferenceIsLast, Held, Known, Shown
<1>6. Traced'
  <2>. SUFFICES ASSUME NEW e \in Device
                PROVE  /\ told[e] # None => ~told[e].removed /\ told[e].of \in AirOf(e)
                       /\ told[e] # None \/ Saved(e) # {} => record'[e] # None
                       /\ record'[e] # None => \E i \in Sources(e) : Holds(e, i)'
    <3>1. \A f : Saved(f)' = Saved(f) /\ Doubtful(f)' = Doubtful(f) /\ LastTold(f)' = LastTold(f)
      BY <1>1, <1>4 DEF Saved, Doubtful, LastTold
    <3>2. \A f : Sources(f)' = Sources(f)
      BY <3>1 DEF Sources
    <3>. QED
      BY <1>1, <1>4, <3>1, <3>2 DEF SerialInv, Traced
  <2>1. CASE e = d
    <3>1. n \in Doubtful(d)
      BY <1>2 DEF Doubtful
    <3>2. n \in Sources(d) /\ record'[d] # None
      BY <1>3, <3>1 DEF Sources, Holds
    <3>. QED
      BY <1>3, <2>1, <3>2 DEF SerialInv, Traced
  <2>2. CASE e # d
    <3>1. record'[e] = record[e] /\ \A i : Holds(e, i)' <=> Holds(e, i)
      BY <1>1, <2>2 DEF Holds
    <3>. QED
      BY <3>1 DEF SerialInv, Traced
  <2>. QED
    BY <2>1, <2>2
<1>. QED
  BY <1>5, <1>6 DEF SerialInv

LEMMA NextSerial ==
  TypedInv /\ PhantomInv /\ (Serial => SerialInv) /\ [IngestNext]_vars => (Serial => SerialInv)'
<1>. SUFFICES ASSUME TypedInv, PhantomInv, Serial => SerialInv, [IngestNext]_vars, Serial'
              PROVE  SerialInv'
  OBVIOUS
<1>1. load' = load
  BY DEF IngestNext, ReceiveAir, ReceiveName, Receive, Handle, Validate, Inspect, Save, WriteFails,
         Queue, Remove, Tell, Exists, Create, Rename, NameFails, NoReply, Answered, Execute, Expire,
         Administer, Idle, vars, handlerVars
<1>2. Serial /\ SerialInv
  BY <1>1 DEF Serial
<1>3. CASE UNCHANGED vars
  <2>1. UNCHANGED <<msgs, states, store, pc, record, unanswered, told, now>>
    BY <1>3 DEF vars, validationVars, handlerVars
  <2>2. /\ \A i : DeviceOf(i)' = DeviceOf(i)
        /\ \A e : AirOf(e)' = AirOf(e) /\ \A i : LastOf(e, i)' <=> LastOf(e, i)
    BY <2>1, SameMessages DEF LastOf
  <2>3. Traced'
    BY <1>2, <2>1, SameSources DEF SerialInv
  <2>. QED
    BY <1>2, <2>1, <2>2, <2>3 DEF SerialInv, Alone, InOrder, ReferenceIsLast, Held, Known, Shown
<1>4. \A d \in Device, name \in Name : ~ReceiveName(d, name)
  BY <1>2 DEF Serial, ReceiveName
<1>5. \A d \in Device : ~Expire(d)
  BY <1>2 DEF Serial, Expire
<1>. QED
  BY <1>2, <1>3, <1>4, <1>5, ReceiveSerial, ValidateSerial, HandleSerial, AdministerSerial,
     ExecuteSerial DEF IngestNext, Idle

LEMMA SerialInvariant == IngestSpec => [](TypedInv /\ PhantomInv /\ (Serial => SerialInv))
BY InitTyped, NextTyped, InitPhantom, NextPhantom, InitSerial, NextSerial, PTL DEF IngestSpec

LEMMA SerialAgrees ==
  ASSUME TypedInv, SerialInv
  PROVE  RecordIsReference /\ ClientsAgree
<1>1. ASSUME NEW d \in Device, Quiet(d)
      PROVE  /\ \A n \in AirOf(d) : n \in DOMAIN msgs /\ pc[n] = "done"
             /\ Sources(d) = LastTold(d) \cup Doubtful(d)
  <2>1. \A n \in AirOf(d) : n \in DOMAIN msgs /\ pc[n] = "done"
    BY <1>1 DEF Quiet, Running, AirOf, DeviceOf
  <2>2. Saved(d) = {}
    BY <2>1 DEF Saved
  <2>. QED
    BY <2>1, <2>2 DEF Sources
<1>2. ASSUME NEW d \in Device, LastTold(d) # {}
      PROVE  /\ told[d] # None /\ LastTold(d) = {told[d].of} /\ told[d].of \in AirOf(d)
             /\ record[d] # None
  BY <1>2 DEF LastTold, SerialInv, Traced
<1>3. ASSUME NEW d \in Device, Quiet(d), record[d] # None
      PROVE  /\ Placed(d)
             /\ \E n \in LastTold(d) \cup Doubtful(d) :
                  record[d].place = msgs[n].place /\ record[d].at = msgs[n].at
  <2>1. PICK n \in Sources(d) : Holds(d, n)
    BY <1>3 DEF SerialInv, Traced
  <2>2. n \in AirOf(d) /\ n \in LastTold(d) \cup Doubtful(d)
    BY <1>1, <1>2, <1>3, <2>1 DEF Doubtful
  <2>3. msgs[n].place # None
    BY <2>2, SavedTyped DEF AirOf, TypedInv
  <2>. QED
    BY <2>1, <2>2, <2>3 DEF Holds, Placed
<1>4. RecordIsReference
  <2>. SUFFICES ASSUME NEW d \in Device, Quiet(d), Shown(d), UpToDate(d), Doubtful(d) = {}
                PROVE  Placed(d) /\ record[d].place = states[d].position
                       /\ record[d].at = states[d].lastUpdate
    BY DEF RecordIsReference
  <2>. DEFINE n == told[d].of
  <2>1. told[d] # None /\ LastTold(d) # {}
    BY DEF UpToDate, LastTold, SerialInv, Traced
  <2>2. /\ LastTold(d) = {n} /\ n \in AirOf(d) /\ LastOf(d, n) /\ record[d] # None
    BY <1>2, <2>1 DEF UpToDate, LastOf
  <2>3. Placed(d) /\ record[d].place = msgs[n].place /\ record[d].at = msgs[n].at
    BY <1>3, <2>2
  <2>4. n \in DOMAIN msgs /\ pc[n] # "validate"
    BY <1>1, <2>2
  <2>. QED
    BY <2>2, <2>3, <2>4 DEF SerialInv, ReferenceIsLast, Shown
<1>5. ClientsAgree
  BY <1>2, <1>3 DEF ClientsAgree, Placed
<1>. QED
  BY <1>4, <1>5

\* With one handler at a time Redis, the validation service and the clients agree, for
\* any number of messages, whichever calls fail and whatever is cleaned up or invalidated
\* in between, but for the messages of which a Redis call got no reply: the record can be
\* of any of those, for as long as Redis may still execute the call.
THEOREM SerialHandlersAgree == IngestSpec => []SerialAgreement
<1>1. TypedInv /\ (Serial => SerialInv) => SerialAgreement
  BY SerialAgrees DEF SerialAgreement
<1>. QED
  BY <1>1, SerialInvariant, PTL

\* The branch that removes a device the packets have hidden is never taken by one
\* handler at a time: ValidatePilot has changed the verdict before GetValidationState
\* reads it, so that only a handler in between can make the two differ.
THEOREM OnlyRacesRemove ==
  IngestSpec => [](Serial => \A n \in DOMAIN msgs : pc[n] \notin {"remove", "tellRemoved"})
<1>1. (Serial => SerialInv) =>
        (Serial => \A n \in DOMAIN msgs : pc[n] \notin {"remove", "tellRemoved"})
  BY DEF SerialInv, Alone
<1>. QED
  BY <1>1, SerialInvariant, PTL
=============================================================================
