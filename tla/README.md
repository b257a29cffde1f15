# Verification of flybeeper.com.map-fanet-backend

TLA+ modules, TLC configurations and TLAPS proofs for the Go backend in this
repository: a service that receives FANET tracking packets over MQTT, decides which
devices can be trusted, keeps their last positions in Redis, writes them behind to
MySQL, broadcasts them to WebSocket clients and answers REST queries.

Every definition that models code is translated from the source; `PROJECT.json`
(`map`) names the lines. Paths below are relative to the repository.

## 1. The system

### Components, their state and operations

| Component | Source | State | Operations |
|---|---|---|---|
| Startup and shutdown | `cmd/fanet-api/main.go` | the main goroutine, the goroutines it starts | retries of MySQL, Connect, `loadInitialData`, signal, Shutdown, Disconnect, Stop, Close |
| MQTT client | `internal/mqtt/client.go` | connection, WaitGroup of handlers | Connect, Disconnect, one goroutine per message |
| FANET parser | `internal/mqtt/parser.go` | none | seven packet types to structs |
| Message handler | `cmd/fanet-api/main.go` | locals of each goroutine | air (1), name (2), thermal, station messages |
| Validation service | `internal/service/validation.go` | map device -> score, verdict, last position and time; one mutex | ValidatePilot, GetValidationState, InvalidateDevice, CleanupOldStates |
| Boundary tracker | `internal/service/boundary_tracker.go` | constants; `last_movement` in Redis | GetObjectStatus, ShouldIncludeInSnapshot |
| Redis repository | `internal/repository/redis.go` | hashes with TTL, geo indexes, tracks | Save*, RemovePilot, UpdatePilotName, DeletePilot, queries, CleanupExpired |
| Batch writer | `internal/service/batch_writer.go` | per kind a channel, a buffer, counters; a context | Queue*, three workers, Stop, Flush |
| MySQL repository | `internal/repository/mysql.go` | tables ufo, ufo_track, thermal, station | Save*Batch, LoadInitial*, track queries |
| Broadcast manager | `internal/handler/broadcast.go` | geohash groups, clients, a batch, three channels | Register, Unregister, Broadcast, run |
| WebSocket handler | `internal/handler/websocket.go` | per client a send channel, a signal, a mutex | HandleWebSocket, readPump, writePump, subscriptions |
| Adaptive scheduler | `internal/handler/adaptive.go` | per client a timer and an interval | RegisterClient, UpdateMetrics, triggerUpdate |
| Geohash | `internal/geo/geohash.go` | none | Encode, Decode, Neighbors, Cover |
| Spatial index | `internal/geo/{spatial,quadtree,cache}.go` | quadtree, LRU cache, Bloom filter | Insert, Remove, queries, Clean |
| Authentication | `internal/auth` | token cache in Redis | extractToken, four middlewares, ValidateToken, InvalidateToken |
| Track filters | `internal/filter` | none | chains of filters over a track, three levels |
| REST, converters, server | `internal/handler` | none of their own | queries, snapshot, track, POST /position, POST /invalidate |
| Configuration, metrics, pools, models | `internal/config`, `internal/metrics`, `pkg` | counters | - |

`redis_enhanced.go` is constructed nowhere, and the `*.disabled` files are not built.

### How they interact

    MQTT broker --(goroutine per message)--> messageHandler
        ValidatePilot / GetValidationState   locked calls, shared map
        GetPilot, SavePilot / RemovePilot / UpdatePilotName   Redis calls and pipelines
        QueuePilot   non-blocking send into a channel --worker--> MySQL transaction
        BroadcastUpdate   non-blocking send into a channel --run--> Client.send --writePump--> peer
    HandleWebSocket / readPump --(register, unregister channels)--> run
    timer of AdaptiveScheduler --(channel of one)--> writePump
    start: loadInitialData   MySQL rows --> Redis, beside live messages
    end: Shutdown, Disconnect (waits for the handlers), Stop, Close
    REST: snapshot (Redis, boundary), track (MySQL, filters); auth middleware (Redis, Laravel API)

### What is hard here, and what makes each component correct

- **Batch writer** (channels, retries, cancellation). Three workers and any number of
  callers meet Stop in one `select` each. *Correct* when the counters account for
  every record, batches and channels keep their bounds, a record is written once
  unless an acknowledgement was lost, rows keep the order of reception, and what is
  accepted is settled while the writer runs.
- **Validation** (a state machine driven by unordered packets). *Correct* when the
  verdict has hysteresis, the score is explained by the packets, and the reference
  point of speeds only moves forward in time.
- **Message path** (interleaved handlers, partial failures, expiry). *Correct* when a
  device that only jumps about is never shown, and when Redis, the clients and the
  validation state agree between messages.
- **Redis** (several keys per object with several lifetimes). *Correct* when a device
  that is shown is shown where it is, and an answer has live objects only.
- **Persistence** (ids counted beside rows, retries, restarts, reload beside live
  messages). *Correct* when nobody is shown in another one's place, and no position
  returns for longer than its two lifetimes.
- **Broadcast and WebSocket** (two locks, five channels, slow peers). *Correct* when
  the two maps agree, a batch reaches those it concerns once, no client stalls the
  manager or its own goroutines, and a client that leaves is forgotten.
- **Life of the process** (six kinds of goroutines, a library's callbacks, a signal).
  *Correct* when the writer is stopped after the last handler.
- **Caches** (tokens, spatial answers): *correct* when an answer is never staler than
  its TTL, also with an update or a revocation between lookup and write.
- **Timers** of the scheduler: *correct* when a client has always an update to come,
  and none once it has left.
- **Pure parts** (parser, cover, filters, boundary): index and width arithmetic against
  a reference definition.

`PROJECT.json` (`hazards`) lists each such place at its line, with the properties
that guard it.

## 2. Modules

| Module | Models | Depends on |
|---|---|---|
| `WriteBehind` | abstract promise of the batch writer | - |
| `BatchWriter` | the batch writer and MySQL's transactions as it sees them | `WriteBehind` (refinement) |
| `Validation` | the validation service | - |
| `Ingest` | message handlers, Redis records, MySQL queue, broadcasts | `Validation` |
| `Broadcast` | the broadcast manager | - |
| `WebSocket` | connections and their goroutines | `Broadcast` |
| `PilotStore` | the keys of pilots in Redis | - |
| `Persistence` | queue, batches, tables, restart and reload around those keys | `PilotStore` |
| `ObjectStore` | thermals, stations and ground objects in Redis and MySQL | - |
| `Lifecycle` | the goroutines of the process and the MQTT client | - |
| `Visibility` | boundary tracking and the snapshot | - |
| `TokenCache` | authentication | - |
| `Adaptive` | the scheduler's timers | - |
| `SpatialIndex` | quadtree, cache and Bloom filter | - |
| `GeoCover` | geohash cover | - |
| `FanetParser` | the parser, with the writers of packets | - |
| `TrackFilter` | the chains of filters of a track | - |
| `*Proofs` | theorems (section 4) | their module |
| `MC*` | values of the constants for TLC; `MCParts` puts ten modules side by side | |

In the modules, some tests and counts are operators of their own, and above each
stands the slip (`BatchFullLate`, `AllGroups`, `TriggerAlways`, ...) with which the
properties are tried: replaced by it, the property must fail. They are not used by
the specifications.

### BatchWriter

A record is an `Item` with a kind; its `Queue*` call is a process of its own
(`status`), since every message has its goroutine. `QueueSend` and `QueueCount` are
separate because the metrics mutex is taken after the send. Each kind has
`channel`, `buffer`, `batch` and a worker that is in its `select`, in `saving`, in
`backoff`, or has `saved`/`failed` before the counters are updated. `SaveSucceeds`,
`SaveFails` and `SaveUnacknowledged` are the outcomes of a transaction: a failed one
rolls back, and one whose acknowledgement is lost is written and retried.
`StopCancel` and `StopClose` are the two halves of `Stop`. What Stop leaves behind is not
nothing: `BooksClose` accounts for it, as saved, as given up, or as stranded in a channel
(section 5). `QueuePanics` and
`SavePanics` end the process: there is no `recover` in the program.

`WriteBehind` promises: per kind, what is owed leaves in order and in whole batches,
to the table or nowhere; the debt is bounded; once closed nothing is written; while
open the debt is settled. The refinement maps the batch (until the commit is
acknowledged), the buffer and the channel, in this order, to `owed`.

### Validation

`ValidatePilot` has five branches, one action each: the first packet, a packet
without position, one after a gap, one that is not later, and one that moved.
`Raised`, `Lowered` and `CheckHysteresis` are the arithmetic. Places are integers on
a line and speeds distances per unit of time, which is all the comparison needs.
`since` is a history variable: what changed the verdict last, and how many valid and
invalid packets were judged since.

### Ingest

A message is an index into `msgs` and its handler a program counter `pc`. The steps are
the calls that other handlers can come between: `Validate`, `Inspect` (the second read
of the state, `GetValidationState`), `Save`, `Queue`, `Remove`, `Tell`, and for names
`Exists`, `Create` or `Rename`. `WriteFails` and `NameFails` are the errors that Redis
calls return. A call that got no reply (`NoReply`: the client gives up reading after
three seconds) stays in `unanswered`: Redis may `Execute` it from then on, after later
calls too, wholly or without the EXPIRE at its end, for a pipeline is not a transaction,
while the client sends it again or the handler returns the error. `Expire` is a TTL that
runs out, `Administer` the hourly cleanup and `POST /invalidate`. `told` is the last
broadcast about a device. `load`, chosen at the start, says how the environment behaves
(handlers at one time, delays, names, expiry).

### Broadcast and WebSocket

`Broadcast` has the manager's goroutine: its `select` is the choice among
`HandleRegister`, `HandleUnregister`, `TakeUpdate` and `BatchTick`, possible while no
batch is being processed (`todo` empty). A batch is served group by group
(`ServeGroup`), and the clients' goroutines run in between. The deduplication key is
what the packets have (`ObjID`). The metrics goroutine deletes groups without
clients; `Subscriptions` says there are none, so it changes nothing and is left out.

`WebSocket` adds, per client, `HandleWebSocket` (`handler`), `readPump` (`reader`) and
`writePump` (`writer`). `mu` is `Client.mu`, held from `Lock` to `Respond`, across the
send that can take five seconds. `TriggerUpdate` stands for the scheduler's timers,
which are in `Adaptive`.

### PilotStore and Persistence

Per device, `index` is its member of the geo set (no TTL), `hash` its fields with their
TTL, `track` the list of its points. Each repository call is one action, because it is
one pipeline; `UpdatePilotName` is two, since EXISTS and HSET are two calls, and
`naming` is where its caller is. `Expires` of a hash is `now + PilotTTL`, or `Never`
when HSET creates the hash. `placed` and `special` are history: when a position was
last saved, and what has happened to the keys since (`swept` by `CleanupExpired`,
`refreshed` by a rename that did not see that the hash was about to go). Here and in
`Persistence` a call of the repository is executed at once or not at all; what a lost reply
makes of it is in `Ingest`.

`Persistence` runs the same keys inside the service. `ReportPosition` and `ReportName`
are messages, with the record they queue; `TakeBatch` and `SkipBatch` take a batch,
`Commit` writes it (acknowledged or not), `Rollback` undoes it and burns its ids.
`NewRows` skips records without a position, `UfoId` counts every record up, as
`SavePilotsBatch` does. `Restart` loses the queue, and Redis or not; `Query` is
`LoadInitialPilots`, `LoadPilot` one `SavePilot` of `loadInitialData`, between which
messages arrive. It says nothing of the channel's fullness or the retries, which are in
`BatchWriter`.

### ObjectStore

A behaviour is about one kind, for the kinds share no key. They differ in what keeps
the geo index alive (`ThermalLapse`, `StationLapse`), in how an id is made
(`LiveThermalId`, `LoadedThermalId`), in where an answer takes a position from, and in
what the tables keep (`WriteRow`: a thermal is a row per report, a station one row).

### Lifecycle

`phase` is what `main` does next: Redis, MySQL with its attempts, the server, MQTT, the
signal, and the five steps of the shutdown. `http`, `connector` and `loader` are the
goroutines it starts, `worker` the handlers, `link` and `callbacks` the library with
its automatic reconnection, whose callbacks are goroutines of their own. `ended` is how
the process ends: by `Fatal`, by a panic, or at the end of `main`.

### Visibility, TokenCache, Adaptive, SpatialIndex

`Visibility`: a handler reads the previous hash and saves the new one in two steps;
`GetObjectStatus`, the snapshot and its filters are operators on the hash and the clock.
`TokenCache`: a request arrives with up to three tokens, looks one up in Redis, asks the
API, saves the answer and is finished, a step each, any of the Redis steps failing;
`ChangeHolder` is what happens at the API. `Adaptive`: a timer is armed, or running its
callback, which takes the lock some time after it fired; stopping a timer that has fired
does nothing. `SpatialIndex`: the tree is a function from cells to objects, with splits
and rebuilds; places lie on a line, so a node has two halves; a query looks up the
cache, searches and stores in three steps. The key of an answer rounds its centre toward
zero, as `int()` does, so around zero it spans twice as much (`Slack`).

### GeoCover, FanetParser, TrackFilter

`GeoCover` is `Cover` on an integer grid whose unit is a quarter of the sampling step.
The step is the width of a cell, and the height of a cell is the step (odd precisions)
or half of it (even ones). The table differs from the true sizes by 0.4%, which is left
out, as are the poles, the antimeridian and the curvature.

`FanetParser` works on bytes: signs, scales, lengths and the optional weather fields
that shift those after them. Packets come from the test publisher's pilots
(`scripts/mqtt-test-publisher.go`), or are a service packet of any header and length.
Thermals and ground tracks also come in their shorter forms, without wind as the parser's
own test sends them (`ShortThermal`), and with a place and a status only as
`message-format.md` lays them out (`ShortGround`). `PacketsAreRead` is about positions,
thermals of 13 bytes and the weather: the parser drops the shorter forms (section 5).

`TrackFilter` applies the chains of `GET /track`, one filter a step, to tracks on a line
whose distances and times meet both sides of every threshold. `Record` puts a row into the
database, `GetTrack` takes the level that is asked for, `Answer` is the conversion to lines.
A loop over the points is a function from the index to what has been built so far, and a
selection of points is made by their ranks: both can be reasoned about, unlike the
sorted sequences of the community modules, which only the medians use. A point keeps its
index in the track that was read (`n`), so that `TrackIsKept` can say which point it is
after segments were moved up, overwritten and copied.

## 3. Runs

All runs finish within about two and a half minutes with two workers.

| Run | Shows | Bounds |
|---|---|---|
| `batch_writer` | counters balance; each record written once per commit; when Stop is through, each was saved, given up, or is stranded | two pilots (interchangeable: symmetry), a Flush, channel 1, batch 2, one retry, failing saves, lost acknowledgements, Stop at any moment |
| `batch_writer_live` | accepted records are settled, Stop returns, refinement of `WriteBehind` | two pilots, the same sizes, fair workers |
| `batch_writer_final_flush` | *violated*: the shutdown flush saves its buffer | a database that never fails |
| `validation` | hysteresis, accounting of the score, no flicker, the reference in time | the default scores 50, +15, -25, 70, 30; eight packets between two verdicts; any timestamps of 0..6; two speeds; a near and a far place |
| `ingest` | no phantoms; without overlap, Redis, clients and validation agree but for calls without a reply | Busy: four messages, up to two handlers at once, delays of one, names, failing Redis calls, one lost reply, expiry, cleanup. Calm: six messages in order, one handler, failing calls, two lost replies, cleanup |
| `ingest_hidden` | *violated*: a hidden device leaves Redis | six messages in order, nothing fails |
| `websocket` | maps agree; served once; near clients are served; nothing waits for ever | one client with two cells, two updates, every channel of one, batches of two, one further subscription |
| `websocket_reaches` | *violated*: a broadcast contains the near updates | a thermal and a pilot |
| `persistence` | positions stay with their devices; ages are bounded; `last_position` is the newest | two devices (interchangeable), one place, three messages, batches of two, three ids, a clock of three hours with a TTL of two, any restarts |
| `persistence_last_position` | *violated*: `last_position` names a row of the device | the same |
| `parts` | the properties of ten components of their own (below) | below |
| `shutdown_graceful` | *violated*: a shutdown does not end in `Fatal` | two handlers, five attempts |

**`parts`.** These ten modules share no variable and no constant, and in the code the
components share no state that the modules speak of: `PilotStore` and `ObjectStore` have
keys of their own, and the others meet only at values that each takes as any of its
inputs. The product of their behaviours would check nothing that each alone does not,
so `MCParts` lets one behaviour be one component's (`part` never changes) and the state
space is their sum. `CHECK_DEADLOCK FALSE`: parser, filters and cover are asked once and
stop, the clocks end.

| Part | Properties | Bounds |
|---|---|---|
| pilots | `ShownWhereSaved`, `StaleOnlyWithoutPosition` | one device (devices share nothing but the index, a set), three places, one of them Redis cannot index; TTL 2 in a clock of 5 |
| objects | `ObjectsAreFound` | the three kinds with lifetimes 2, 3 and 1, three places, a row of MySQL, a clock of 4 |
| cover | `CoverIsSound` | 19 radii of all precisions clients can get, every position of the centre in a quarter-step grid |
| parser | `PacketsAreRead` | pilots at the edges of every field and sign; thermals of 13 and 11 bytes, ground tracks of 11 and 7; service packets of every length up to 16 and eleven headers |
| filter | `TrackIsKept` | every track of up to five points with jumps of 50 m to 610 km, some back and forth, and gaps of 1 or 40 minutes; the kilometres, minutes and speeds of the code, and the numbers of points of its rules scaled down to such tracks |
| index | `TreeHoldsMap`, `AnswersSettle` | two objects, three places (one outside the world), centres on both sides of zero, one of which shares its key with zero's other side, leaf capacity 1, depth 2, one cache entry, one query beside the updates |
| token | `ServedAsHolder` | a token, two accounts, two concurrent requests, TTL 1 in a clock of 2 |
| adaptive | `UpdateIsArmed`, `LateCallbacksEnd` | three timers, three scores, intervals of 1 to 4 steps |
| visibility | `MovementDecides` | two concurrent handlers, three sites (inside, at and beyond the minimum movement), grace 2 in a clock of 5 |
| lifecycle | `HandlersEndFirst` | two handlers, five attempts |

Why the bounds are enough. A channel of one is full after one record, so that the
full, waiting and skipping branches are all taken; a batch of two is reached by size
and by interval, and is the smallest in which ids can shift from one device to another;
one retry gives a backoff that can be cancelled and a last attempt. Kinds and devices
share only the context, the clock and the WaitGroup, which is why one device suffices
where the property is about one. Three timers are an armed one, one whose callback is
late, and the one that the callback arms. Clients meet only in the groups, which are
sets, and in the manager's goroutine; one client makes `websocket` small enough for
liveness. Eight packets lift a score from the lowest to the cap and back across both
thresholds. Five points are two runs of which one is merged, or one run with a point out of
place in the middle and neighbours on both sides. Two handlers are enough for every pairwise race of two messages of a
device. In `GeoCover` the geometry repeats from cell to cell, so that a centre within
one cell is general. The clocks run one TTL and more past the first save. Where a
theorem states the property, it holds for any number anyway.

The bounds are named constants: `MaxPackets`, `Horizon`, `MaxMessages`, `MaxRetries`,
`MaxSubscribes`, `MaxQueue`, `MaxId`, `MaxRows`, `Midnight`, `Midday`, `TokenHorizon`,
`IndexHorizon`, `MaxQueried`, `MaxPoints`, the fields of `Load`, and the sets `Timer`,
`Worker`, `Request`, `Reporter` and `Querier` of goroutines at one time.

`CHECK_DEADLOCK FALSE` is set where the system really rests: in the WebSocket runs when
all updates are sent and all clients have gone, in `persistence` when messages and hours
are used up, in `shutdown_graceful` when the process has ended. The batch
writer and `Ingest` rest in explicit steps (`Terminated`, `Idle`), and `Validation` never
stops: a packet can always come.

Fairness. The Go scheduler runs every goroutine that can run (weak fairness of each
goroutine); a `select` that finds a case ready again and again takes it (strong
fairness of the manager's cases); tickers and timeouts fire; a transaction ends.
No fairness is assumed of callers, peers, disconnections, Stop or Flush being
called, nor that a database recovers. For the batch writer, settled means saved or
counted as an error. The other modules state safety only and assume none.

## 4. Proofs

All theorems hold for every value of the constants that the named assumptions allow.

- **`BatchWriterProofs`**: `TypeCorrect`, `BoundsHold`, `BooksCloseAtStop`,
  `MetricsBalance` (finite set of items, positive batch and channel sizes).
  `WithinBounds` is not inductive: whether a buffer is short depends on where its worker
  is, and whether an attempt is in range on the backoff. The invariant ties each
  worker's place to its batch, buffer and attempt; the balance is proved on top of it,
  action by action, with the cardinality of the records in each status.
  `KeepsPromise` is the safety half of the refinement. Under the
  mapping of `BatchWriter` each step of the writer is a step of `WriteBehind` or a
  stutter: a record enters the debt when it is accepted, and whole batches leave it,
  oldest first. The mapped debt is batch, buffer and channel in a row, so that gathering
  is a stutter; the proof needs the safety invariant `SafeInv` and that a batch which is
  being saved is not empty (`Loaded`). `RecordsAreWrittenOnce` counts how often a record
  is in each of the four places: `OnceInv` says that it is in one of batch, buffer and
  channel, was written before only if it is in the batch, and then at most once per
  attempt that has lost its acknowledgement.
- **`ValidationProofs`**: `ValidationTypeCorrect`, `HysteresisHolds`, `ScoresAreEarned`,
  `NeverFlickers`, `ReferenceOnlyAdvances` (positive bonus and penalty, ordered
  thresholds). `Hysteresis` needs `LastChange`, that the history variable names the
  current verdict; `NeverFlickers` is an action property that follows from
  `ScoreIsEarned`.
- **`IngestProofs`**: `IngestTypeCorrect`, `IngestObeysValidation` (the validation
  service takes only steps of `Validation` however the handlers interleave, so the
  theorems of `ValidationProofs` hold of it here), `NoPhantoms`, `SerialHandlersAgree`,
  `OnlyRacesRemove`. A verdict is a matter of scores and `NoPhantom` of messages;
  `PhantomInv` connects them: the reference of a device is one of its messages
  (`ReferenceIsAMessage`), a device no two messages of which continue each other has had
  at most one bonus and is hidden (`OneBonus`), no handler carries a position of it past
  the inspection (`HeldBack`), none is in Redis or with the clients (`Unseen`), and no call
  without a reply can still bring it there (`Withheld`). `NoPhantoms` therefore asks that a
  device needs two bonuses (`TwoPacketsAssumption`: 50 and 15 are less than the
  code's 70). `SerialInv` says of one handler at a time where it is and what each store
  already shows (`Alone`, `InOrder`, `ReferenceIsLast`, `Held`), and from which messages
  the record can be (`Traced`): the one just saved, or else the one last broadcast, and
  any whose call got no reply. That last case is in the theorem as well: with one handler at
  a time the stores agree whichever calls fail, but not once a reply is lost.
- **`WebSocketProofs`**: `WebSocketTypeCorrect` (channels never exceed their capacity),
  `SubscriptionsAgree`, `UpdatesCounted`, `DeliveredAtMostOnce`, `NearAreAlwaysServed`
  (finite updates, positive capacities, covers of cells). The type invariant needs
  `RoomInBatch`: between batches the batch is short of `BatchSize`, since a full one is
  processed in the same step. `OnceInv` says that what a client was sent is not waiting
  and, while it is in the batch, came with a group already served (`SentIsServed`), and
  that the groups served have sent, or skipped for want of room, what is near
  (`ServedIsSent`). Both rest on `Subscriptions`.
- **`PilotStoreProofs`**: `PilotTypeCorrect`, `PilotsAreShownWhereSaved`,
  `OnlyPositionlessAreStale`. `StoreInv` says of each device that a hash with a position
  is mortal, agrees with the index unless swept, and with the head of its track. The
  second one adds `LentInv`: a hash whose position can be indexed was saved no earlier
  than its TTL before it expires.
- **`PersistenceProofs`** (positive batch size): `PersistenceTypeCorrect`,
  `PositionsAreOwn`, `AgesAreBounded`, `LoadedAreShownWhereSaved`,
  `LastPositionsAreNewest`. `WayInv` follows a position from the report through queue,
  batch, row and reload; it rests on `StoreInv`, whose lemmas are reused for each action
  that calls the repository. `AgeInv` adds that what is being loaded was read from rows
  young enough. `LastIsNewest` needs that positions keep their order on the way to the
  table (`OrderInv`: queue and batch are ordered by the times of the reports, the batch
  and the rows come before the queue, and no row of a device in the batch is newer than
  all of its records there); TLC checked that invariant on the run's instance before it
  was proved.
- **`TrackFilterProofs`**: `TrackIsAlwaysKept`, `FilterTypeCorrect`, for any jumps, gaps, length of a
  track and thresholds. Which points a filter marks is left open; what is proved follows
  from what the loops do with them, whatever was marked. `TrackInv` says that the points
  are what the filters applied so far make of the recorded track (`Stages`), that the
  track is numbered and its times do not go back (`Recorded`), and that the lines are
  those of the points. Each filter then has a lemma: duplicates leave points that rise in
  number and time and are drawn from earlier places (`Rising`, `Drawn`), marks change
  nothing else (`Marks`), a point that is not filtered has the id of its run
  (`Divided`), so that what Level 1 returns for a segment can be moved up within it
  without leaving the run, and the activity segments span every point that is not
  filtered (`Spans`), however they are cut and merged, so that `createContinuousPoints`
  copies each of them at least once (`Shows`). A loop is a recursive function: that it
  exists is shown once for each, by induction over its length, and its invariant holds
  at every index because there is no least one at which it fails.
- **`PartsProofs`**, one section for each part:
  - *Lifecycle*: `LifecycleTypeCorrect`, `StopFollowsHandlers` (at least one attempt; any
    number of handlers). `ShutIn` says what holds from each call of the shutdown on: no
    connection, then no handler, then a closed queue.
  - *Adaptive*: `AdaptiveTypeCorrect`, `AnUpdateIsArmed`, `LateCallbacksDoEnd` (scores in
    tenths, ordered intervals). The arithmetic lemmas show that neither
    `calculateInterval` nor the moving average leaves the bounds, so an armed timer
    always has time to go; `GoneForGood` gives the action property.
  - *TokenCache*: `TokenTypeCorrect`, `ServedAreHolders` (any TTL, requests and tokens).
    `TokenInv` follows a user from the API's answer, on its way to Redis, into the entry
    and out again, each with the time at which the account still was the holder.
  - *ObjectStore*: `ObjectTypeCorrect`, `LivingAreFound`. An index has one TTL, which each
    save renews, and its entries have their own; `ObjectInv` says that an entry
    that can be mapped is a member of the index at its own spot and ends no later than
    the index (`EntriesIndexed`), and that the index of the ground objects, to which
    nothing gives a TTL, does not end (`GroundLasts`).
  - *Visibility*: `VisibilityTypeCorrect`, `MovementIsDecisive`. A report is decided by a
    hash that was read before; `VisibilityInv` dates both (`HashDated`, `InTime`) so that
    a late save cannot make a moving device look still for longer than the grace period.
  - *GeoCover*: `CoversAreSound`, for every centre and radius. There is nothing to
    preserve: of any four places in a row one is on the grid that `Cover` samples
    (`GridMeets`), and as the chosen precision makes the reach at least 16, a cell well
    within it has such a place within it too, or, where cells are half as high, one of
    two that touch has.
  - *FanetParser*: `PacketsSurvive`, for any coordinates, altitudes, headers and lengths.
    Lemmas on bytes (what two or three of them, two's complement and the scaled fields
    give back) show that parsing undoes writing up to the precision of the scale; for
    the weather fields `OffsetsFollow` says what each of the five reads keeps of the
    packing of those before it. `ParserInv` remembers that the packet is the pilot's
    own (`OwnPacket`).
  - *SpatialIndex*: `IndexTypeCorrect`, `TreesHoldMaps`, `AnswersDoSettle`, for any world,
    capacities, depth, objects and queriers. `IndexInv` says that the leaves share out the
    world and each holds what leads to it (`Sound`), and that what is cached, or found by a
    query that has not stored it yet, told the truth when it was found (`Tells`), dated.
    Splits go down the depths and a rebuild goes through an order of insertions; that
    neither loses an object is an induction over them, by least counterexample: the
    naturals are well-founded, and the least depth or insertion that fails is refuted by
    the one before it. `AnswersDoSettle` holds for centres of either sign: two that share
    a key are less than one rounding apart, or less than two around zero (`SharedKey`).
  - *MCParts*: `PartsAreComponents`, a behaviour of the run that puts the ten modules side by
    side is a behaviour of each of them, so that their theorems hold there; and
    `PartsTypesHold`, which follows from it and the type theorems.
    `CoverTypeCorrect` and `ParserTypeCorrect` are among those: the bytes of every packet are
    bytes (`OctetFields`, and the joining of sequences of them).

Only model-checked, and why: liveness, which is beyond the prover. It is `EventuallySettled`,
`StopReturns`, `UpdatesProcessed`, `Departs`, `NoLockOut`, and the fairness half of
`ImplementsWriteBehind` (its safety half is `KeepsPromise`). Every invariant that a
passing run checks is a theorem.

The proofs rest on the named assumptions about the constants, which TLC evaluates in every
run, and on the theorems of the library about sequences, finite sets, functions and
well-founded orders. They say nothing of what a median, a sliding window or a cluster
computes: no theorem needs it.

## 5. Where the code does something else

Shown by a run:

1. **Final flush** (`batch_writer.go:341`): on shutdown the worker flushes with the
   context that Stop has cancelled, so the last buffer is always lost; it is counted in
   the errors.
2. **Hidden devices stay** (`main.go:194`): the branch that removes a device asks for a
   state that is still validated, which it has just been found not to be.
3. **Empty broadcasts** (`broadcast.go:351`): updates are deduplicated by an ID that
   pilots and stations do not carry and all thermals share.
4. **Shifted last positions** (`mysql.go:674`): records without a position make no row
   and still count an id up.
5. **Shutdown by Fatal** (`main.go:339`): the error that every Shutdown returns is taken
   for a failed start, so the process may end before the writer is stopped.

The rest was noted while modelling. What concerns a modelled operation is in the
modules (a property that would deny it does not hold); the others are read only.

*Batch writer and shutdown.*
- **Stranded records** (`batch_writer.go:248`): the worker may leave at the cancellation
  while its channel holds accepted records, although
  `ai-spec/architecture/mysql-batch-writer.md:18` speaks of flushing all pending data. They
  are in no counter. With the buffer that the last flush gives up (1.), Stop loses both what
  the channels and what the buffers hold; `BooksClose` says that nothing else is missing.
- `Flush` sends nil records that the next save dereferences
  (`batch_writer.go:581-585`, `SavePanics`), and `Queue*` during `StopClose` can panic
  (`QueuePanics`); `HandlersEndFirst` says why the program does not get there.
- A Connect goroutine that is scheduled only after Disconnect brings the connection up
  again, and messages meet a stopped writer (`lateDial` in `Lifecycle`).
- OnConnect and ConnectionLost are goroutines and may come in the other order, so
  that `connected` is not the state of the link; a failed Subscribe is only logged.

*Validation and messages.*
- `InvalidateDevice` clears the verdict and keeps the score: the next packet shows the
  device again, even an impossible one (`validation.go:207`).
- A late packet of a shown device is stored and broadcast (`main.go:159`), although
  validation skips it, and of two handlers the older position can be saved last.
- A save that failed may be in Redis all the same: its pipeline is no transaction
  (`redis.go:131`), and after a lost reply (`ReadTimeout`, `redis.go:91`) it is executed, or
  not, or late, or without its EXPIRE, which leaves a hash without a TTL. The handler has
  then returned without MySQL and the clients (`main.go:161-165`). `ClientsAgree` names
  these messages as its exception.
- `GetValidationState` can return the verdict of another message: the removal
  branch is reached only by that race (`main.go:157,195`).
- `POST /position` saves without validation, MySQL or broadcast; its ids `user_<id>`
  parse to address 0. So do the ids of live thermals.

*Redis.*
- A position writes an empty name over the stored one (`redis.go:176`), and
  `UpdatePilotName` can leave a hash without a TTL, or give an old position another
  12 hours (`redis.go:258-277`).
- `CleanupExpired` takes every pilot out of the index and `DeletePilot` leaves its
  pilot there: both use the wrong member (`redis.go:732, 1006`). Neither has a caller,
  as `SaveGroundObject` and `DeleteGroundObject` have none.
- The list of a track is written and never read, and keeps one point more than
  `MaxTrackPoints` says (LTRIM is inclusive).
- The JSON snapshot divides the climb of a thermal by 10 twice; thermal quality is
  always 0 (`main.go:480`).

*MySQL and reload.*
- Names are lost when a batch has names only: it is not written (`SkipBatch`).
- `loadInitialData` can overwrite a newer live position, and brings back a device that
  validation had hidden, for hiding leaves the tables alone.
- Thermals come back under row ids and with the time of the load, whatever their age;
  `ai-spec/mqtt/packet-types.md:179` says to discard those older than six hours.
- `SavePilotToHistory`, `CleanupOldTracks`, `GetPilotTrack`, `mapToThermal` and
  `mapToStation` have no caller.

*Broadcast, WebSocket, scheduler.*
- **Leak** (`broadcast.go:116, 139`): an unregistration can be taken before its
  registration, which then is for ever.
- `updateSubscription` answers with new geohashes and leaves the registration with
  the manager as it was (`websocket.go:345`). `ACTION_REMOVE` is broadcast as an update
  (`broadcast.go:326`).
- A timer stopped too late re-arms itself beside the new one, so a client can have
  several chains of updates. `AdaptiveBatchSize` has no caller, and scores never change,
  since the spatial index is never filled.
- **Half covers** (`geohash.go:173, 181`, «Also add neighbors to ensure full
  coverage»): for radii of 5 to 19 km and from 157 km on, every second row of cells is
  missing; `HolesAreOneRow` says that it is no worse.

*Boundary.*
- A device that has never moved does not fade, one that advances in steps shorter than
  the minimum counts as still (`BOUNDARY_TRACKING.md:123`), and broadcasts do not ask
  for visibility although a comment says so.
- `visibility_status` is written and never read; `CalculateVisibilityScore` is unused.

*Filters.*
- `i++` in a range loop (`activity_segmentation_filter.go:357`, «Пропускаем следующий
  сегмент, так как он уже объединен») skips nothing: a segment is merged twice, a point
  can be given to an earlier segment. Segment ids are then updated by the indexes of
  before the copies («Переходные точки принадлежат более позднему сегменту», line 464):
  after the first copy they name points of the wrong segment, and a line of Level 3 can
  overlap another one or go back in time. `TrackInOrder` is about the other levels; of
  Level 3 `ActivityLosesNoPoint` says that its points are those of Level 2. A segment of
  one point is not drawn.
- Level 1 is not applied to each segment independently (`levels.go:40`, «Применяем Level 1
  фильтры к каждому сегменту независимо»): the points of a run that was filtered as a
  whole keep the id 0, which is that of the first segment (`segmented_filter_chain.go:41`),
  and the last point that this one keeps gets the time of a later duplicate
  (`duplicate_filter.go:102`), beyond the times of the segments after it. Points keep
  their order, and their times within a run, as `TrackInOrder` says; the order of
  times across runs fails on tracks longer than the model checker tries, where a proof
  that could not be completed showed it.
- `GetTrack` ignores `hours`, and defaults to level 3 while its comments say 2 and 0.

*Parser, index, tokens.*
- **Short thermals** (`parser.go:532`): `TestParser_ParseThermal` (`parser_test.go:353`)
  sends 11 bytes and expects the climb of 350; the parser drops fewer than 13, so that its
  own branch for 11 (line 563) decides nothing. In the model they come and are dropped;
  `PacketsAreRead` speaks of 13 bytes only.
- **Ground tracks** (`parser.go:496`): `ai-spec/mqtt/message-format.md:191-197` ends the
  packet with a status byte after the place; the parser drops it, and reads altitude,
  speed and heading from longer ones.
- A full battery reads 14: `uint8(batteryRaw) * 100 / 15` overflows (`parser.go:481`). A
  weather field that is cut off is skipped without advancing.
- The test publisher and the parser disagree on service packets (header 0, no
  coordinates) and on ground packets (altitude less 1000, speed and heading as bytes of
  their own, where `message-format.md` has neither), and a heading may become negative
  before it is made unsigned.
- Cached answers are shared by centres of one key, and around the equator and Greenwich,
  where `int()` rounds toward zero from both sides, by centres twice as far apart
  (`cache.go:262`).
- The bounding box of a spatial query is too narrow in longitude, `Clean` puts an empty
  Bloom filter in place of the full one, `LRUCache.Clean` stops at the first young
  entry (`cache.go:156`), and `Remove` leaves cached answers alone.
- A validation under way caches a token again after `InvalidateToken`; `ServedAsHolder`
  bounds for how long. `InvalidateToken`, `ClearAll`, `OptionalAuthenticate`,
  `RequireAdmin` and `RequireEmailVerification` have no caller.

## 6. Not modelled, and why

- Parsing of parameters, protobuf and JSON conversion, configuration, logging, metrics,
  pools and models: no state or decision of their own.
- `EnhancedRedisRepository`, the disabled files, and the filters that no chain of the
  program uses (`FilterChain`'s default, `TwoStageFilterChain`, `Outlier`,
  `LocalOutlier`, `CrossSegment`, `Speed`, `Teleportation`, `Segmentation`).
- The contents of adaptive updates: the spatial index is never filled.
- `QueryBounds` and `QueryGeohash` of the spatial index, which are `QueryRadius` with
  another key and region.
- The test publisher's connection, flags and statistics.
- The geometry of the sphere: places are on a line or a plane, distances exact.

## 7. What could follow

- What the filters of a track mark: a reference definition of the outliers, on tracks
  longer than five points, in place of the marks that the proofs leave open.
- `Lifecycle` over the full `BatchWriter` and `Ingest`, in place of their outlines.
- An abstract map of devices to positions with lifetimes, which `PilotStore` implements
  while `CleanupExpired` and `DeletePilot` are not called.
