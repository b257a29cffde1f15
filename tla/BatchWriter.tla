---------------------------- MODULE BatchWriter ----------------------------
(***************************************************************************)
(* internal/service/batch_writer.go: the write-behind buffer between the   *)
(* MQTT message handlers and MySQL.                                        *)
(*                                                                         *)
(* A record travels  Queue* call -> channel -> worker's buffer -> batch    *)
(* being saved -> table rows.  There is one channel and one worker         *)
(* goroutine per kind of record (pilot, thermal, station); the kinds share *)
(* the context that Stop cancels, and Stop waits for all of them.          *)
(*                                                                         *)
(* Every record is queued by a goroutine of its own (the MQTT client       *)
(* starts one per message), so the state of that goroutine's Queue* call   *)
(* is kept per record, in status.  The handler that Flush would be called  *)
(* from is the single process flusher.                                     *)
(*                                                                         *)
(* A few tests and counts are operators of their own, each below the slip  *)
(* (BatchFullLate, HasBatch, ...) with which the properties are tried.     *)
(***************************************************************************)
EXTENDS Integers, Sequences, FiniteSets

CONSTANTS
  Item,           \* records handed to the writer, one per FANET message
  KindOf,         \* the kind of each record
  Nil,            \* the nil pointer that Flush sends
  BatchSize,      \* BatchConfig.BatchSize
  ChannelBuffer,  \* BatchConfig.ChannelBuffer
  MaxRetries,     \* BatchConfig.MaxRetries
  Faulty,         \* may Save*Batch fail (and roll back) on a live context?
  LostAcks,       \* may the connection break after MySQL has committed?
  FlushCalled     \* is Flush called (once)?

Kind == {"pilot", "thermal", "station"}

ASSUME ItemAssumption     == IsFiniteSet(Item) /\ Nil \notin Item
ASSUME KindAssumption     == KindOf \in [Item -> Kind]
ASSUME BatchAssumption    == BatchSize \in Nat \ {0}
ASSUME ChannelAssumption  == ChannelBuffer \in Nat \ {0}
ASSUME RetryAssumption    == MaxRetries \in Nat
ASSUME EnvironmentAssumption ==
  Faulty \in BOOLEAN /\ LostAcks \in BOOLEAN /\ FlushCalled \in BOOLEAN

VARIABLES
  status,     \* per record: "new", "sent" (in the channel, not yet counted),
              \* "queued" (call returned nil), "full", "stopping"
  stop,       \* "running", "waiting" (context cancelled, in wg.Wait), "closed"
  crashed,    \* "no", or the panic that ended the process
  flusher,    \* the Flush call: "uncalled", "sending", "returned"
  flushed,    \* the kinds whose channel it has sent a nil into
  channel,    \* pilotChan, thermalChan, stationChan
  buffer,     \* pilotBuffer, thermalBuffer, stationBuffer
  batch,      \* the copy that flush* is saving
  worker,     \* where the worker goroutine is
  final,      \* is the worker in the flush that precedes its return?
  attempt,    \* retryOperation's loop variable
  saved,      \* records MySQL has committed, in commit order
  queued,     \* metrics: PilotsQueued, ThermalsQueued, StationsQueued
  processed,  \* metrics: *Processed
  errors      \* metrics: *Errors

vars == <<status, stop, crashed, flusher, flushed, channel, buffer, batch, worker, final,
          attempt, saved, queued, processed, errors>>

callerVars == <<status, flusher, flushed>>
workerVars == <<buffer, batch, worker, final, attempt, saved, processed>>

Alive     == crashed = "no"                \* the process is running
Cancelled == stop # "running"              \* bw.ctx.Done() is ready
ItemsOf(k) == {i \in Item : KindOf[i] = k}
HasNil(s) == \E n \in DOMAIN s : s[n] = Nil

Init ==
  /\ status    = [i \in Item |-> "new"]
  /\ stop      = "running"
  /\ crashed   = "no"
  /\ flusher   = "uncalled"
  /\ flushed   = {}
  /\ channel   = [k \in Kind |-> <<>>]
  /\ buffer    = [k \in Kind |-> <<>>]
  /\ batch     = [k \in Kind |-> <<>>]
  /\ worker    = [k \in Kind |-> "select"]
  /\ final     = [k \in Kind |-> FALSE]
  /\ attempt   = [k \in Kind |-> 0]
  /\ saved     = [k \in Kind |-> <<>>]
  /\ queued    = [k \in Kind |-> 0]
  /\ processed = [k \in Kind |-> 0]
  /\ errors    = [k \in Kind |-> 0]

-----------------------------------------------------------------------------
(* QueuePilot, QueueThermal, QueueStation.  The select takes any ready      *)
(* case: a send into a channel with room and <-ctx.Done() compete once the  *)
(* context is cancelled, and a send on a closed channel is "ready" too and  *)
(* panics when it is the one taken.                                         *)

SendOn(k, x) ==
  /\ stop # "closed"
  /\ Len(channel[k]) < ChannelBuffer
  /\ channel' = [channel EXCEPT ![k] = Append(@, x)]

QueueSend(i) ==
  /\ Alive
  /\ status[i] = "new"
  /\ SendOn(KindOf[i], i)
  /\ status' = [status EXCEPT ![i] = "sent"]
  /\ UNCHANGED <<stop, crashed, flusher, flushed, workerVars, queued, errors>>

\* The metrics mutex is taken after the send: the worker may already have the
\* record, and may even have saved it, when it is counted.
QueueCount(i) ==
  /\ Alive
  /\ status[i] = "sent"
  /\ status' = [status EXCEPT ![i] = "queued"]
  /\ queued' = [queued EXCEPT ![KindOf[i]] = @ + 1]
  /\ UNCHANGED <<stop, crashed, flusher, flushed, channel, workerVars, errors>>

QueueRejectFull(i) ==
  /\ Alive
  /\ status[i] = "new"
  /\ ~Cancelled
  /\ Len(channel[KindOf[i]]) = ChannelBuffer
  /\ status' = [status EXCEPT ![i] = "full"]
  /\ errors' = [errors EXCEPT ![KindOf[i]] = @ + 1]
  /\ UNCHANGED <<stop, crashed, flusher, flushed, channel, workerVars, queued>>

QueueRejectStopping(i) ==
  /\ Alive
  /\ status[i] = "new"
  /\ Cancelled
  /\ status' = [status EXCEPT ![i] = "stopping"]
  /\ UNCHANGED <<stop, crashed, flusher, flushed, channel, workerVars, queued, errors>>

QueuePanics(i) ==
  /\ Alive
  /\ status[i] = "new"
  /\ stop = "closed"
  /\ crashed' = "send on closed channel"
  /\ UNCHANGED <<callerVars, stop, channel, workerVars, queued, errors>>

-----------------------------------------------------------------------------
(* Flush: a nil is sent into each channel in turn; each send gives up after *)
(* a second of a full channel and Flush then returns the timeout error.     *)

FlushTarget == IF "pilot" \notin flushed THEN "pilot"
               ELSE IF "thermal" \notin flushed THEN "thermal" ELSE "station"

FlushCall ==
  /\ Alive
  /\ FlushCalled
  /\ flusher = "uncalled"
  /\ flusher' = "sending"
  /\ UNCHANGED <<status, flushed, stop, crashed, channel, workerVars, queued, errors>>

FlushSend ==
  /\ Alive
  /\ flusher = "sending"
  /\ SendOn(FlushTarget, Nil)
  /\ flushed' = flushed \cup {FlushTarget}
  /\ flusher' = IF FlushTarget = "station" THEN "returned" ELSE "sending"
  /\ UNCHANGED <<status, stop, crashed, workerVars, queued, errors>>

FlushTimeout ==
  /\ Alive
  /\ flusher = "sending"
  /\ stop # "closed"
  /\ Len(channel[FlushTarget]) = ChannelBuffer
  /\ flusher' = "returned"
  /\ UNCHANGED <<status, flushed, stop, crashed, channel, workerVars, queued, errors>>

FlushPanics ==
  /\ Alive
  /\ flusher = "sending"
  /\ stop = "closed"
  /\ crashed' = "send on closed channel"
  /\ UNCHANGED <<callerVars, stop, channel, workerVars, queued, errors>>

-----------------------------------------------------------------------------
(* pilotWorker, thermalWorker, stationWorker and the flush they call.       *)

\* The length tests of the worker's cases.
BatchFullLate(contents) == Len(contents) > BatchSize
BatchFull(contents)     == Len(contents) >= BatchSize

HasBatch(k)   == Len(buffer[k]) >= BatchSize
HasRecords(k) == Len(buffer[k]) > 0

\* flush*: the buffer is copied into a batch and emptied, and retryOperation
\* makes its first attempt.
StartFlushUnreset(k, contents, isFinal) ==
  /\ batch'   = [batch EXCEPT ![k] = contents]
  /\ buffer'  = [buffer EXCEPT ![k] = contents]
  /\ worker'  = [worker EXCEPT ![k] = "saving"]
  /\ attempt' = [attempt EXCEPT ![k] = 0]
  /\ final'   = [final EXCEPT ![k] = isFinal]

StartFlush(k, contents, isFinal) ==
  /\ batch'   = [batch EXCEPT ![k] = contents]
  /\ buffer'  = [buffer EXCEPT ![k] = <<>>]
  /\ worker'  = [worker EXCEPT ![k] = "saving"]
  /\ attempt' = [attempt EXCEPT ![k] = 0]
  /\ final'   = [final EXCEPT ![k] = isFinal]

WorkerReceive(k) ==
  LET contents == Append(buffer[k], Head(channel[k])) IN
  /\ Alive
  /\ worker[k] = "select"
  /\ channel[k] # <<>>
  /\ channel' = [channel EXCEPT ![k] = Tail(@)]
  /\ \/ /\ BatchFull(contents)
        /\ StartFlush(k, contents, FALSE)
     \/ /\ ~BatchFull(contents)
        /\ buffer' = [buffer EXCEPT ![k] = contents]
        /\ UNCHANGED <<batch, worker, final, attempt>>
  /\ UNCHANGED <<callerVars, stop, crashed, saved, queued, processed, errors>>

\* ticker.C; a tick that finds an empty buffer changes nothing.
WorkerTick(k) ==
  /\ Alive
  /\ worker[k] = "select"
  /\ HasRecords(k)
  /\ StartFlush(k, buffer[k], FALSE)
  /\ UNCHANGED <<callerVars, stop, crashed, channel, saved, queued, processed, errors>>

\* ctx.Done(): what the buffer holds is flushed, what the channel holds is not.
WorkerDone(k) ==
  /\ Alive
  /\ worker[k] = "select"
  /\ Cancelled
  /\ \/ /\ HasRecords(k)
        /\ StartFlush(k, buffer[k], TRUE)
     \/ /\ ~HasRecords(k)
        /\ worker' = [worker EXCEPT ![k] = "exited"]
        /\ UNCHANGED <<buffer, batch, final, attempt>>
  /\ UNCHANGED <<callerVars, stop, crashed, channel, saved, queued, processed, errors>>

\* One call of Save*Batch(bw.ctx, batch).  It writes the whole batch in one
\* transaction (or statement) or nothing, and never succeeds on a cancelled
\* context: BeginTx and Commit both look at it.
SaveSucceeds(k) ==
  /\ Alive
  /\ worker[k] = "saving"
  /\ ~Cancelled
  /\ ~HasNil(batch[k])
  /\ saved'  = [saved EXCEPT ![k] = @ \o batch[k]]
  /\ worker' = [worker EXCEPT ![k] = "saved"]
  /\ UNCHANGED <<callerVars, stop, crashed, channel, buffer, batch, final, attempt,
                 queued, processed, errors>>

\* What retryOperation does with an error: the next attempt, or the end.
RetriesLeftOneMore(k) == attempt[k] <= MaxRetries
RetriesLeft(k)        == attempt[k] < MaxRetries

AfterError(k) ==
  worker' = [worker EXCEPT ![k] = IF RetriesLeft(k) THEN "backoff" ELSE "failed"]

SaveFails(k) ==
  /\ Alive
  /\ worker[k] = "saving"
  /\ Faulty \/ Cancelled
  /\ HasNil(batch[k]) => k = "pilot"       \* only SavePilotsBatch begins with BeginTx
  /\ AfterError(k)
  /\ UNCHANGED <<callerVars, stop, crashed, channel, buffer, batch, final, attempt,
                 saved, queued, processed, errors>>

\* MySQL commits, but the client sees the connection break instead of the
\* acknowledgement: Save*Batch returns an error for rows that are there.
SaveUnacknowledged(k) ==
  /\ Alive
  /\ worker[k] = "saving"
  /\ LostAcks
  /\ ~Cancelled
  /\ ~HasNil(batch[k])
  /\ saved' = [saved EXCEPT ![k] = @ \o batch[k]]
  /\ AfterError(k)
  /\ UNCHANGED <<callerVars, stop, crashed, channel, buffer, batch, final, attempt,
                 queued, processed, errors>>

\* The loop over the batch dereferences the nil that Flush sent.
SavePanics(k) ==
  /\ Alive
  /\ worker[k] = "saving"
  /\ HasNil(batch[k])
  /\ k = "pilot" => ~Cancelled
  /\ crashed' = "nil record"
  /\ UNCHANGED <<callerVars, stop, channel, workerVars, queued, errors>>

SameAttempt(k) == attempt[k]
NextAttempt(k) == attempt[k] + 1

\* retryOperation between attempts: the delay elapses, or the context ends it.
BackoffElapsed(k) ==
  /\ Alive
  /\ worker[k] = "backoff"
  /\ worker'  = [worker EXCEPT ![k] = "saving"]
  /\ attempt' = [attempt EXCEPT ![k] = NextAttempt(k)]
  /\ UNCHANGED <<callerVars, stop, crashed, channel, buffer, batch, final, saved,
                 queued, processed, errors>>

BackoffCancelled(k) ==
  /\ Alive
  /\ worker[k] = "backoff"
  /\ Cancelled
  /\ worker' = [worker EXCEPT ![k] = "failed"]
  /\ UNCHANGED <<callerVars, stop, crashed, channel, buffer, batch, final, attempt,
                 saved, queued, processed, errors>>

OneError(k)      == 1
ErrorsOfBatch(k) == Len(batch[k])

\* The end of flush*: the outcome is counted and the worker is back in its
\* select, or returns if this was the flush of its ctx.Done() case.
FlushEnds(k) ==
  /\ Alive
  /\ worker[k] \in {"saved", "failed"}
  /\ IF worker[k] = "saved"
       THEN /\ processed' = [processed EXCEPT ![k] = @ + Len(batch[k])]
            /\ UNCHANGED errors
       ELSE /\ errors' = [errors EXCEPT ![k] = @ + ErrorsOfBatch(k)]
            /\ UNCHANGED processed
  /\ batch'  = [batch EXCEPT ![k] = <<>>]
  /\ worker' = [worker EXCEPT ![k] = IF final[k] THEN "exited" ELSE "select"]
  /\ UNCHANGED <<callerVars, stop, crashed, channel, buffer, final, attempt, saved, queued>>

-----------------------------------------------------------------------------
(* Stop: cancel, wait for the workers, close the channels.                  *)

StopCancel ==
  /\ Alive
  /\ stop = "running"
  /\ stop' = "waiting"
  /\ UNCHANGED <<callerVars, crashed, channel, workerVars, queued, errors>>

StopClose ==
  /\ Alive
  /\ stop = "waiting"
  /\ \A k \in Kind : worker[k] = "exited"
  /\ stop' = "closed"
  /\ UNCHANGED <<callerVars, crashed, channel, workerVars, queued, errors>>

-----------------------------------------------------------------------------
Queue(i) ==
  \/ QueueSend(i)
  \/ QueueCount(i)
  \/ QueueRejectFull(i)
  \/ QueueRejectStopping(i)
  \/ QueuePanics(i)

Flush == FlushCall \/ FlushSend \/ FlushTimeout \/ FlushPanics

Worker(k) ==
  \/ WorkerReceive(k)
  \/ WorkerTick(k)
  \/ WorkerDone(k)
  \/ SaveSucceeds(k)
  \/ SaveFails(k)
  \/ SaveUnacknowledged(k)
  \/ SavePanics(k)
  \/ BackoffElapsed(k)
  \/ BackoffCancelled(k)
  \/ FlushEnds(k)

\* The process has ended, or nothing is left that anyone could do.
Terminated ==
  /\ \/ ~Alive
     \/ stop = "closed" /\ flusher # "sending" /\ \A i \in Item : status[i] # "new"
  /\ UNCHANGED vars

Next ==
  \/ \E i \in Item : Queue(i)
  \/ Flush
  \/ \E k \in Kind : Worker(k)
  \/ StopCancel
  \/ StopClose
  \/ Terminated

\* The Go scheduler runs every goroutine that can run, tickers and timers
\* fire, and every call into database/sql returns.  Nothing obliges anyone to
\* call Queue*, Flush or Stop.
Fairness ==
  /\ \A k \in Kind : WF_vars(Worker(k))
  /\ \A i \in Item : WF_vars(QueueCount(i))
  /\ WF_vars(StopClose)

Spec == Init /\ [][Next]_vars
FairSpec == Spec /\ Fairness

-----------------------------------------------------------------------------
(* Properties.                                                              *)

\* The type of every variable.
TypeOK ==
  /\ status    \in [Item -> {"new", "sent", "queued", "full", "stopping"}]
  /\ stop      \in {"running", "waiting", "closed"}
  /\ crashed   \in {"no", "nil record", "send on closed channel"}
  /\ flusher   \in {"uncalled", "sending", "returned"}
  /\ flushed   \in SUBSET Kind
  /\ channel   \in [Kind -> Seq(Item \cup {Nil})]
  /\ buffer    \in [Kind -> Seq(Item \cup {Nil})]
  /\ batch     \in [Kind -> Seq(Item \cup {Nil})]
  /\ worker    \in [Kind -> {"select", "saving", "backoff", "saved", "failed", "exited"}]
  /\ final     \in [Kind -> BOOLEAN]
  /\ attempt   \in [Kind -> 0..MaxRetries]
  /\ saved     \in [Kind -> Seq(Item)]
  /\ queued    \in [Kind -> Nat]
  /\ processed \in [Kind -> Nat]
  /\ errors    \in [Kind -> Nat]

InStatus(k, s) == {i \in ItemsOf(k) : status[i] = s}
NilsSent(k)    == IF k \in flushed THEN 1 ELSE 0

\* What the writer still owes MySQL, oldest first.
Pending(k) == batch[k] \o buffer[k] \o channel[k]

\* The metrics balance at every moment, whatever the interleaving of callers,
\* worker and Stop: every record whose send succeeded (counted in *Queued or
\* about to be, and the nils of Flush) is in the channel, the buffer or the
\* batch, or was counted once, in *Processed or in *Errors; *Errors counts the
\* rejected calls as well (QueuePilot, flushPilots).
Conservation ==
  \A k \in Kind :
    queued[k] + Cardinality(InStatus(k, "sent")) + NilsSent(k)
      = Len(batch[k]) + Len(buffer[k]) + Len(channel[k])
        + processed[k] + errors[k] - Cardinality(InStatus(k, "full"))

\* No batch is larger than BatchSize, no channel longer than its capacity, and
\* the worker is never in its select with a buffer that it should have flushed.
WithinBounds ==
  \A k \in Kind :
    /\ Len(batch[k]) <= BatchSize
    /\ Len(buffer[k]) < BatchSize
    /\ Len(channel[k]) <= ChannelBuffer

\* A record is written once; only an acknowledgement lost after a commit can
\* make the retries of flush* write it again, and then at most once per attempt.
WrittenOnce ==
  \A i \in Item :
    Cardinality({n \in DOMAIN saved[KindOf[i]] : saved[KindOf[i]][n] = i})
      <= IF LostAcks THEN MaxRetries + 1 ELSE 1

\* When Stop has closed the channels the books close.  A record whose send
\* succeeded was counted once: as saved, and MySQL has the row, or in *Errors with
\* the batch that was given up (the last flush gives up whatever the buffer holds,
\* see FinalFlushSaves).  Every other one is stranded in its channel, where nobody
\* reads it again and which no counter shows.  *Processed counts no row that is not
\* there, and misses none unless an acknowledgement was lost.
BooksClose ==
  stop = "closed" => \A k \in Kind :
    /\ queued[k] + Cardinality(InStatus(k, "sent")) + NilsSent(k)
         = processed[k] + errors[k] - Cardinality(InStatus(k, "full")) + Len(channel[k])
    /\ IF LostAcks THEN processed[k] <= Len(saved[k]) ELSE processed[k] = Len(saved[k])

InPending(i) == \E n \in DOMAIN Pending(KindOf[i]) : Pending(KindOf[i])[n] = i

\* Every record that entered a channel is saved or counted as an error, unless
\* the writer is stopped (or crashes) first.
EventuallySettled ==
  \A i \in Item : InPending(i) ~> (~InPending(i) \/ Cancelled \/ ~Alive)

\* Stop returns: every worker reaches its ctx.Done() case and leaves it, however
\* many attempts its flush had left.
StopReturns == (stop = "waiting") ~> (stop = "closed" \/ ~Alive)

\* The writer implements the write-behind promise: what it owes is what is in
\* the batch (until MySQL has acknowledged it), the buffer and the channel, in
\* this order; it is open until its context is cancelled.
Owed(k) == IF worker[k] = "saved" THEN buffer[k] \o channel[k] ELSE Pending(k)

Promise == INSTANCE WriteBehind WITH
  Record   <- Item \cup {Nil},
  MaxBatch <- BatchSize,
  MaxOwed  <- ChannelBuffer + BatchSize,
  Repeats  <- LostAcks,
  owed     <- [k \in Kind |-> Owed(k)],
  table    <- saved,
  open     <- ~Cancelled

ImplementsWriteBehind == Promise!Spec

-----------------------------------------------------------------------------
(* What the documentation says and the code does not do.                    *)

\* The worker's last flush saves its buffer: with a database that never fails,
\* no record that entered a channel is counted as an error.
FinalFlushSaves ==
  \A k \in Kind : errors[k] = Cardinality(InStatus(k, "full"))
=============================================================================
