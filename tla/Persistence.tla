----------------------------- MODULE Persistence -----------------------------
(***************************************************************************)
(* Pilots in Redis and in MySQL, and what a restart makes of them:          *)
(* internal/repository/mysql.go (SavePilotsBatch, LoadInitialPilots) and    *)
(* loadInitialData of cmd/fanet-api/main.go, on top of PilotStore.          *)
(*                                                                         *)
(* The handlers of messages save in Redis and queue for MySQL; the queue is *)
(* the one that BatchWriter implements (WriteBehind).  After a start,       *)
(* loadInitialData reads the last positions from MySQL and saves them in    *)
(* Redis one by one, while messages are already handled.                    *)
(***************************************************************************)
EXTENDS PilotStore

CONSTANTS
  BatchSize,  \* of the batch writer
  LoadLimit,  \* of LoadInitialPilots
  MaxQueue,   \* bound on the queue: the channel and the buffer
  MaxMessages, \* bound on the messages
  MaxId       \* bound on the ids of ufo_track

ASSUME PersistenceAssumption ==
  /\ BatchSize \in Nat \ {0} /\ LoadLimit \in Nat
  /\ MaxQueue \in Nat /\ MaxMessages \in Nat /\ MaxId \in Nat

VARIABLES
  messages,  \* the messages so far
  queue,     \* records accepted by the batch writer
  batch,     \* records that its worker is writing
  rows,      \* ufo_track
  nextId,    \* its AUTO_INCREMENT
  ufo,       \* last_position per device
  loading,   \* rows that loadInitialData has still to save; None: not queried yet
  reported,  \* the positions that devices have reported (for the properties)
  mixed      \* has a batch held a name message and positions? (for the properties)

mysqlVars == <<messages, queue, batch, rows, nextId, ufo, loading, reported, mixed>>
vars      == <<pilotVars, mysqlVars>>

\* A record of a name message has no position.
QueuedPilot == [device : Device, place : Place \cup {None}, at : Time]
TrackRow    == [id : 1..MaxId, addr : Device, place : Place, at : Time]

Init ==
  /\ PilotInit
  /\ messages = 0
  /\ queue    = <<>>
  /\ batch    = <<>>
  /\ rows     = {}
  /\ nextId   = 1
  /\ ufo      = [d \in Device |-> None]
  /\ loading  = None
  /\ reported = [d \in Device |-> {}]
  /\ mixed    = FALSE

-----------------------------------------------------------------------------
(* Messages.                                                                *)

\* QueuePilot: the record is taken, or dropped because the channel is full.
Enqueue(record) ==
  \/ Len(queue) < MaxQueue /\ queue' = Append(queue, record)
  \/ UNCHANGED queue

\* An air message of a device that is shown.
Message == messages < MaxMessages /\ messages' = messages + 1

ReportPosition(d, p) ==
  /\ Message
  /\ SavePilot(d, p, now)
  /\ Enqueue([device |-> d, place |-> p, at |-> now])
  /\ reported' = [reported EXCEPT ![d] = @ \cup {p}]
  /\ UNCHANGED <<batch, rows, nextId, ufo, loading, mixed>>

\* A name message; its handler queues a record without a position.
LookUpName(d) ==
  /\ Message
  /\ NameExists(d)
  /\ UNCHANGED <<queue, batch, rows, nextId, ufo, loading, reported, mixed>>
ReportName(d) ==
  /\ NameWrite(d)
  /\ Enqueue([device |-> d, place |-> None, at |-> now])
  /\ UNCHANGED <<messages, batch, rows, nextId, ufo, loading, reported, mixed>>

\* A device that validation hides.
Hide(d) == RemovePilot(d) /\ UNCHANGED mysqlVars

-----------------------------------------------------------------------------
(* SavePilotsBatch, one transaction.                                        *)

Positioned == {i \in DOMAIN batch : batch[i].place # None}

\* The rows of ufo_track: records without a position are skipped.
IdBefore(i) == nextId - 1 + Cardinality({j \in Positioned : j < i})
IdOfRow(i)  == nextId + Cardinality({j \in Positioned : j < i})
NewRows ==
  {[id |-> IdOfRow(i), addr |-> batch[i].device, place |-> batch[i].place, at |-> batch[i].at] :
     i \in Positioned}

\* last_position: every record counts an id up, those that were skipped too.
UfoId(i) == nextId + i - 1
FirstOf(d) == {i \in DOMAIN batch : /\ batch[i].device = d
                                    /\ \A j \in DOMAIN batch : batch[j].device = d => i <= j}
LastOf(d) == {i \in DOMAIN batch : /\ batch[i].device = d
                                   /\ \A j \in DOMAIN batch : batch[j].device = d => j <= i}
NewUfo ==
  [d \in Device |-> IF LastOf(d) = {} THEN ufo[d] ELSE UfoId(CHOOSE i \in LastOf(d) : TRUE)]

\* The batch is full, or the interval has passed.
TakeBatch ==
  /\ batch = <<>>
  /\ \E n \in 1..BatchSize :
       /\ n <= Len(queue)
       /\ batch' = SubSeq(queue, 1, n)
       /\ queue' = SubSeq(queue, n + 1, Len(queue))
  /\ UNCHANGED <<pilotVars, messages, rows, nextId, ufo, loading, reported, mixed>>

\* A batch without positions is dropped with its names.
SkipBatch ==
  /\ batch # <<>> /\ Positioned = {}
  /\ batch' = <<>>
  /\ UNCHANGED <<pilotVars, messages, queue, rows, nextId, ufo, loading, reported, mixed>>

\* A commit, acknowledged or not: without the acknowledgement the batch is tried again.
Commit ==
  /\ Positioned # {}
  /\ nextId + Cardinality(Positioned) <= MaxId + 1
  /\ rows'   = rows \cup NewRows
  /\ nextId' = nextId + Cardinality(Positioned)
  /\ ufo'    = NewUfo
  /\ mixed'  = (mixed \/ Positioned # DOMAIN batch)
  /\ batch'  \in {<<>>, batch}
  /\ UNCHANGED <<pilotVars, messages, queue, loading, reported>>

\* A transaction that is rolled back has used its ids; after the last attempt the
\* batch is given up.
Rollback ==
  /\ Positioned # {}
  /\ nextId + Cardinality(Positioned) <= MaxId + 1
  /\ nextId' = nextId + Cardinality(Positioned)
  /\ batch'  \in {<<>>, batch}
  /\ UNCHANGED <<pilotVars, messages, queue, rows, ufo, loading, reported, mixed>>

-----------------------------------------------------------------------------
(* Restart, and loadInitialData.                                            *)

\* The process ends: what is queued is lost, a shutdown does not save it either.  Redis
\* may have been emptied when the next one starts.
Restart ==
  /\ queue'   = <<>>
  /\ batch'   = <<>>
  /\ loading' = None
  /\ naming'  = [d \in Device |-> "none"]
  /\ \/ UNCHANGED <<index, hash, track>>
     \/ /\ index' = [d \in Device |-> None]
        /\ hash'  = [d \in Device |-> None]
        /\ track' = [d \in Device |-> None]
  /\ UNCHANGED <<now, placed, special, messages, rows, nextId, ufo, reported, mixed>>

\* The row that a device's last_position names, if it is the device's, and of the last
\* 12 hours; the newest ones up to the limit.
RowsOfAnyAge == {r \in rows : ufo[r.addr] = r.id}
RowsById ==
  {[x[1] EXCEPT !.addr = x[2]] : x \in {y \in rows \X Device : ufo[y[2]] = y[1].id}}
LastRows == {r \in rows : ufo[r.addr] = r.id /\ r.at > now - PilotTTL}
LoadInitialPilots ==
  {S \in SUBSET LastRows :
     /\ Cardinality(S) <= LoadLimit
     /\ S # LastRows => Cardinality(S) = LoadLimit
     /\ \A r \in S, q \in LastRows \ S : r.at >= q.at}

Query ==
  /\ loading = None
  /\ loading' \in LoadInitialPilots
  /\ UNCHANGED <<pilotVars, messages, queue, batch, rows, nextId, ufo, reported, mixed>>

\* The newest first.
LoadPilot ==
  /\ loading # None
  /\ \E r \in loading :
       /\ \A q \in loading : q.at <= r.at
       /\ SavePilot(r.addr, r.place, r.at)
       /\ loading' = loading \ {r}
  /\ UNCHANGED <<messages, queue, batch, rows, nextId, ufo, reported, mixed>>

\* An hour passes; loading takes seconds, in which none is counted.
PassHour ==
  /\ loading \in {None, {}}
  /\ Hour
  /\ UNCHANGED mysqlVars

-----------------------------------------------------------------------------
Next ==
  \/ \E d \in Device, p \in Place : ReportPosition(d, p)
  \/ \E d \in Device : LookUpName(d) \/ ReportName(d) \/ Hide(d)
  \/ TakeBatch \/ SkipBatch \/ Commit \/ Rollback
  \/ Restart
  \/ Query
  \/ LoadPilot
  \/ PassHour

Spec == Init /\ [][Next]_vars

-----------------------------------------------------------------------------
(* Properties.                                                              *)

\* The type of every variable.
TypeOK ==
  /\ PilotTypeOK
  /\ messages \in 0..MaxMessages
  /\ queue    \in Seq(QueuedPilot)
  /\ batch    \in Seq(QueuedPilot)
  /\ rows     \subseteq TrackRow
  /\ nextId   \in 1..(MaxId + 1)
  /\ ufo      \in [Device -> 1..(MaxId + BatchSize) \cup {None}]
  /\ loading  \in (SUBSET TrackRow) \cup {None}
  /\ reported \in [Device -> SUBSET Place]
  /\ mixed    \in BOOLEAN

\* Nobody is shown in another one's place: the position that Redis holds for a device,
\* in its hash, its index entry and its track, is one that this device reported, through
\* batches that mix up ids, retries, lost queues and reloads.
OwnPositions ==
  \A d \in Device :
    /\ HasPosition(d) => hash[d].place \in reported[d]
    /\ index[d] # None => index[d] \in reported[d]
    /\ track[d] # None => \A i \in DOMAIN track[d].points : track[d].points[i].place \in reported[d]

\* A position comes back from MySQL for the 12 hours of its row, and stays for the 12
\* hours of its hash (each less an hour, in whole hours): a hash never holds an older one,
\* however many restarts there are, unless an UpdatePilotName that did not see it has
\* prolonged its life.
AgeBounded ==
  \A d \in Device : HasPosition(d) /\ "refreshed" \notin special[d]
    => now - hash[d].at <= 2 * (PilotTTL - 1)

\* As long as no batch mixes names with positions, a device's last_position is the row of
\* its newest position written so far: batches keep their order, a rolled back or repeated
\* transaction leaves a gap or a copy and nothing else.
LastIsNewest ==
  ~mixed => \A d \in Device : ufo[d] # None =>
    \E r \in rows : r.addr = d /\ r.id = ufo[d] /\ \A q \in rows : q.addr = d => q.at <= r.at

-----------------------------------------------------------------------------
(* What the schema says and the code does not do.                           *)

\* «last_position: the id of the last position in ufo_track».
LastPositionIsOwn ==
  \A d \in Device : ufo[d] # None => \E r \in rows : r.id = ufo[d] /\ r.addr = d
=============================================================================
