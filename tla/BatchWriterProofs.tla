------------------------- MODULE BatchWriterProofs -------------------------
(***************************************************************************)
(* Proofs about BatchWriter, for any set of records, any batch size, any   *)
(* channel capacity and any number of retries.                             *)
(***************************************************************************)
EXTENDS BatchWriter, FiniteSetTheorems, SequenceTheorems, TLAPS

\* Which contents of buffer and batch go with which place of the worker, and
\* what the worker's and the Flush call's places say about the rest.
Phase ==
  \A k \in Kind :
    /\ worker[k] \in {"select", "exited"} => batch[k] = <<>>
    /\ worker[k] # "select" => buffer[k] = <<>>
    /\ worker[k] = "backoff" => attempt[k] < MaxRetries

Shutdown == stop = "closed" => \A k \in Kind : worker[k] = "exited"

Flushing ==
  /\ flusher = "uncalled" => flushed = {}
  /\ flusher = "sending" => "station" \notin flushed

\* TypeOK is not inductive without Phase (the attempt of a backoff), nor
\* WithinBounds without Phase; Shutdown says where the workers are after Stop.
SafeInv == TypeOK /\ Phase /\ Shutdown /\ Flushing /\ WithinBounds

USE ItemAssumption, KindAssumption, BatchAssumption, ChannelAssumption,
    RetryAssumption, EnvironmentAssumption

LEMMA InitSafe == Init => SafeInv
BY DEF Init, SafeInv, TypeOK, Phase, Shutdown, Flushing, WithinBounds

\* A batch without nil consists of records only.
LEMMA NoNilIsRecords ==
  ASSUME NEW s \in Seq(Item \cup {Nil}), ~HasNil(s)
  PROVE  s \in Seq(Item)
BY DEF HasNil

LEMMA QueueSafe ==
  ASSUME SafeInv, NEW i \in Item, Queue(i)
  PROVE  SafeInv'
<1>. USE DEF Alive, workerVars, callerVars, SafeInv
<1>. KindOf[i] \in Kind
  OBVIOUS
<1>1. CASE QueueSend(i)
  <2>. USE <1>1 DEF QueueSend, SendOn
  <2>1. status' \in [Item -> {"new", "sent", "queued", "full", "stopping"}]
    BY DEF TypeOK, Phase
  <2>2. channel' \in [Kind -> Seq(Item \cup {Nil})]
    BY DEF TypeOK, Phase
  <2>3. TypeOK'
    BY <2>1, <2>2 DEF TypeOK
  <2>4. Phase'
    BY DEF TypeOK, Phase
  <2>5. Shutdown' /\ Flushing'
    BY DEF TypeOK, Shutdown, Flushing
  <2>6. WithinBounds'
    BY DEF TypeOK, Phase, WithinBounds
  <2>. QED
    BY <2>3, <2>4, <2>5, <2>6
<1>2. CASE QueueCount(i)
  <2>. USE <1>2 DEF QueueCount
  <2>1. status' \in [Item -> {"new", "sent", "queued", "full", "stopping"}]
    BY DEF TypeOK, Phase
  <2>2. queued' \in [Kind -> Nat]
    BY DEF TypeOK, Phase
  <2>3. TypeOK'
    BY <2>1, <2>2 DEF TypeOK
  <2>4. Phase'
    BY DEF TypeOK, Phase
  <2>5. Shutdown' /\ Flushing'
    BY DEF TypeOK, Shutdown, Flushing
  <2>6. WithinBounds'
    BY DEF TypeOK, Phase, WithinBounds
  <2>. QED
    BY <2>3, <2>4, <2>5, <2>6
<1>3. CASE QueueRejectFull(i)
  <2>. USE <1>3 DEF QueueRejectFull
  <2>1. status' \in [Item -> {"new", "sent", "queued", "full", "stopping"}]
    BY DEF TypeOK, Phase
  <2>2. errors' \in [Kind -> Nat]
    BY DEF TypeOK, Phase
  <2>3. TypeOK'
    BY <2>1, <2>2 DEF TypeOK
  <2>4. Phase'
    BY DEF TypeOK, Phase
  <2>5. Shutdown' /\ Flushing'
    BY DEF TypeOK, Shutdown, Flushing
  <2>6. WithinBounds'
    BY DEF TypeOK, Phase, WithinBounds
  <2>. QED
    BY <2>3, <2>4, <2>5, <2>6
<1>4. CASE QueueRejectStopping(i)
  <2>. USE <1>4 DEF QueueRejectStopping
  <2>1. status' \in [Item -> {"new", "sent", "queued", "full", "stopping"}]
    BY DEF TypeOK, Phase
  <2>2. TypeOK'
    BY <2>1 DEF TypeOK
  <2>3. Phase'
    BY DEF TypeOK, Phase
  <2>4. Shutdown' /\ Flushing'
    BY DEF TypeOK, Shutdown, Flushing
  <2>5. WithinBounds'
    BY DEF TypeOK, Phase, WithinBounds
  <2>. QED
    BY <2>2, <2>3, <2>4, <2>5
<1>5. CASE QueuePanics(i)
  <2>. USE <1>5 DEF QueuePanics
  <2>1. TypeOK'
    BY DEF TypeOK
  <2>2. Phase'
    BY DEF TypeOK, Phase
  <2>3. Shutdown' /\ Flushing'
    BY DEF TypeOK, Shutdown, Flushing
  <2>4. WithinBounds'
    BY DEF TypeOK, Phase, WithinBounds
  <2>. QED
    BY <2>1, <2>2, <2>3, <2>4
<1>. QED
  BY <1>1, <1>2, <1>3, <1>4, <1>5 DEF Queue

LEMMA FlushSafe ==
  ASSUME SafeInv, Flush
  PROVE  SafeInv'
<1>. USE DEF Alive, workerVars, callerVars, SafeInv
<1>. FlushTarget \in Kind
  BY DEF FlushTarget, Kind
<1>1. CASE FlushCall
  <2>. USE <1>1 DEF FlushCall
  <2>1. TypeOK'
    BY DEF TypeOK
  <2>2. Phase'
    BY DEF TypeOK, Phase
  <2>3. Shutdown' /\ Flushing'
    BY DEF TypeOK, Shutdown, Flushing
  <2>4. WithinBounds'
    BY DEF TypeOK, Phase, WithinBounds
  <2>. QED
    BY <2>1, <2>2, <2>3, <2>4
<1>2. CASE FlushSend
  <2>. USE <1>2 DEF FlushSend, SendOn
  <2>1. channel' \in [Kind -> Seq(Item \cup {Nil})]
    <3>1. Append(channel[FlushTarget], Nil) \in Seq(Item \cup {Nil})
      BY DEF TypeOK
    <3>. QED
      BY <3>1 DEF TypeOK
  <2>2. TypeOK'
    BY <2>1 DEF TypeOK
  <2>3. Phase'
    BY DEF TypeOK, Phase
  <2>4. Shutdown' /\ Flushing'
    BY DEF TypeOK, Shutdown, Flushing, FlushTarget
  <2>5. WithinBounds'
    BY DEF TypeOK, Phase, WithinBounds
  <2>. QED
    BY <2>2, <2>3, <2>4, <2>5
<1>3. CASE FlushTimeout
  <2>. USE <1>3 DEF FlushTimeout
  <2>1. TypeOK'
    BY DEF TypeOK
  <2>2. Phase'
    BY DEF TypeOK, Phase
  <2>3. Shutdown' /\ Flushing'
    BY DEF TypeOK, Shutdown, Flushing
  <2>4. WithinBounds'
    BY DEF TypeOK, Phase, WithinBounds
  <2>. QED
    BY <2>1, <2>2, <2>3, <2>4
<1>4. CASE FlushPanics
  <2>. USE <1>4 DEF FlushPanics
  <2>1. TypeOK'
    BY DEF TypeOK
  <2>2. Phase'
    BY DEF TypeOK, Phase
  <2>3. Shutdown' /\ Flushing'
    BY DEF TypeOK, Shutdown, Flushing
  <2>4. WithinBounds'
    BY DEF TypeOK, Phase, WithinBounds
  <2>. QED
    BY <2>1, <2>2, <2>3, <2>4
<1>. QED
  BY <1>1, <1>2, <1>3, <1>4 DEF Flush

\* What a flush puts into the worker's variables, and that it is well typed.
LEMMA StartFlushTyped ==
  ASSUME TypeOK, NEW k \in Kind, NEW contents \in Seq(Item \cup {Nil}), NEW isFinal \in BOOLEAN,
         StartFlush(k, contents, isFinal)
  PROVE  /\ batch'   \in [Kind -> Seq(Item \cup {Nil})]
         /\ buffer'  \in [Kind -> Seq(Item \cup {Nil})]
         /\ worker'  \in [Kind -> {"select", "saving", "backoff", "saved", "failed", "exited"}]
         /\ attempt' \in [Kind -> 0..MaxRetries]
         /\ final'   \in [Kind -> BOOLEAN]
         /\ batch'[k] = contents /\ buffer'[k] = <<>> /\ worker'[k] = "saving"
         /\ \A j \in Kind \ {k} : /\ batch'[j] = batch[j] /\ buffer'[j] = buffer[j]
                                  /\ worker'[j] = worker[j] /\ attempt'[j] = attempt[j]
<1>1. <<>> \in Seq(Item \cup {Nil})
  BY EmptySeq
<1>2. 0 \in 0..MaxRetries
  OBVIOUS
<1>. USE DEF StartFlush, TypeOK
<1>3. /\ batch'   \in [Kind -> Seq(Item \cup {Nil})]
      /\ batch'[k] = contents
      /\ \A j \in Kind \ {k} : batch'[j] = batch[j]
  OBVIOUS
<1>4. /\ buffer'  \in [Kind -> Seq(Item \cup {Nil})]
      /\ buffer'[k] = <<>>
      /\ \A j \in Kind \ {k} : buffer'[j] = buffer[j]
  BY <1>1
<1>5. /\ worker'  \in [Kind -> {"select", "saving", "backoff", "saved", "failed", "exited"}]
      /\ worker'[k] = "saving"
      /\ \A j \in Kind \ {k} : worker'[j] = worker[j]
  OBVIOUS
<1>6. /\ attempt' \in [Kind -> 0..MaxRetries]
      /\ \A j \in Kind \ {k} : attempt'[j] = attempt[j]
  BY <1>2
<1>7. final' \in [Kind -> BOOLEAN]
  OBVIOUS
<1>. QED
  BY <1>3, <1>4, <1>5, <1>6, <1>7

LEMMA WorkerSafe ==
  ASSUME SafeInv, NEW k \in Kind, Worker(k)
  PROVE  SafeInv'
<1>. USE DEF Alive, workerVars, callerVars, SafeInv
<1>1. CASE WorkerReceive(k)
  <2>. DEFINE contents == Append(buffer[k], Head(channel[k]))
  <2>1. /\ channel[k] \in Seq(Item \cup {Nil})
        /\ buffer[k] \in Seq(Item \cup {Nil})
        /\ channel[k] # <<>>
        /\ worker[k] = "select"
        /\ channel' = [channel EXCEPT ![k] = Tail(@)]
        /\ UNCHANGED <<callerVars, stop, crashed, saved, queued, processed, errors>>
    BY <1>1 DEF WorkerReceive, TypeOK
  <2>2. /\ contents \in Seq(Item \cup {Nil})
        /\ Len(contents) = Len(buffer[k]) + 1
        /\ Tail(channel[k]) \in Seq(Item \cup {Nil})
        /\ Len(Tail(channel[k])) = Len(channel[k]) - 1
    BY <2>1
  <2>3. \/ BatchFull(contents) /\ StartFlush(k, contents, FALSE)
        \/ /\ ~BatchFull(contents)
           /\ buffer' = [buffer EXCEPT ![k] = contents]
           /\ UNCHANGED <<batch, worker, final, attempt>>
    BY <1>1 DEF WorkerReceive
  <2>. HIDE DEF contents
  <2>4. /\ channel' \in [Kind -> Seq(Item \cup {Nil})]
        /\ Len(channel'[k]) = Len(channel[k]) - 1
        /\ \A j \in Kind \ {k} : channel'[j] = channel[j]
    BY <2>1, <2>2 DEF TypeOK
  <2>5. CASE BatchFull(contents) /\ StartFlush(k, contents, FALSE)
    <3>1. /\ batch'   \in [Kind -> Seq(Item \cup {Nil})]
          /\ buffer'  \in [Kind -> Seq(Item \cup {Nil})]
          /\ worker'  \in [Kind -> {"select", "saving", "backoff", "saved", "failed", "exited"}]
          /\ attempt' \in [Kind -> 0..MaxRetries]
          /\ final'   \in [Kind -> BOOLEAN]
          /\ batch'[k] = contents /\ buffer'[k] = <<>> /\ worker'[k] = "saving"
          /\ \A j \in Kind \ {k} : /\ batch'[j] = batch[j] /\ buffer'[j] = buffer[j]
                                   /\ worker'[j] = worker[j] /\ attempt'[j] = attempt[j]
      BY <2>2, <2>5, StartFlushTyped DEF TypeOK
    <3>2. TypeOK'
      BY <2>1, <2>4, <3>1 DEF TypeOK
    <3>3. Phase'
      BY <2>1, <3>1 DEF Phase
    <3>4. Shutdown' /\ Flushing'
      BY <2>1, <3>1 DEF Shutdown, Flushing
    <3>5. WithinBounds'
      <4>1. Len(contents) <= BatchSize
        BY <2>1, <2>2 DEF WithinBounds
      <4>2. Len(channel[k]) \in Nat
        BY <2>1
      <4>. QED
        <5>1. /\ batch'[k] = contents /\ buffer'[k] = <<>> /\ Len(channel'[k]) = Len(channel[k]) - 1
              /\ \A j \in Kind \ {k} : batch'[j] = batch[j] /\ buffer'[j] = buffer[j] /\ channel'[j] = channel[j]
          BY <2>4, <3>1
        <5>. QED
          BY <4>1, <4>2, <5>1 DEF WithinBounds
    <3>. QED
      BY <3>2, <3>3, <3>4, <3>5
  <2>6. CASE /\ ~BatchFull(contents)
             /\ buffer' = [buffer EXCEPT ![k] = contents]
             /\ UNCHANGED <<batch, worker, final, attempt>>
    <3>1. /\ buffer' \in [Kind -> Seq(Item \cup {Nil})]
          /\ buffer'[k] = contents
          /\ \A j \in Kind \ {k} : buffer'[j] = buffer[j]
      BY <2>2, <2>6 DEF TypeOK
    <3>2. TypeOK'
      BY <2>1, <2>4, <2>6, <3>1 DEF TypeOK
    <3>3. Phase'
      BY <2>1, <2>6, <3>1 DEF Phase
    <3>4. Shutdown' /\ Flushing'
      BY <2>1, <2>6 DEF Shutdown, Flushing
    <3>5. WithinBounds'
      <4>1. Len(contents) < BatchSize
        BY <2>2, <2>6 DEF BatchFull
      <4>2. Len(channel[k]) \in Nat
        BY <2>1
      <4>. QED
        <5>1. /\ batch' = batch /\ buffer'[k] = contents /\ Len(channel'[k]) = Len(channel[k]) - 1
              /\ \A j \in Kind \ {k} : buffer'[j] = buffer[j] /\ channel'[j] = channel[j]
          BY <2>4, <2>6, <3>1
        <5>. QED
          BY <4>1, <4>2, <5>1 DEF WithinBounds
    <3>. QED
      BY <3>2, <3>3, <3>4, <3>5
  <2>. QED
    BY <2>3, <2>5, <2>6
<1>2. CASE WorkerTick(k)
  <2>1. /\ worker[k] = "select"
        /\ StartFlush(k, buffer[k], FALSE)
        /\ buffer[k] \in Seq(Item \cup {Nil})
        /\ UNCHANGED <<callerVars, stop, crashed, channel, saved, queued, processed, errors>>
    BY <1>2 DEF WorkerTick, TypeOK
  <2>2. /\ batch'   \in [Kind -> Seq(Item \cup {Nil})]
        /\ buffer'  \in [Kind -> Seq(Item \cup {Nil})]
        /\ worker'  \in [Kind -> {"select", "saving", "backoff", "saved", "failed", "exited"}]
        /\ attempt' \in [Kind -> 0..MaxRetries]
        /\ final'   \in [Kind -> BOOLEAN]
        /\ batch'[k] = buffer[k] /\ buffer'[k] = <<>> /\ worker'[k] = "saving"
        /\ \A j \in Kind \ {k} : /\ batch'[j] = batch[j] /\ buffer'[j] = buffer[j]
                                 /\ worker'[j] = worker[j] /\ attempt'[j] = attempt[j]
    BY <2>1, StartFlushTyped DEF TypeOK
  <2>3. TypeOK'
    BY <2>1, <2>2 DEF TypeOK
  <2>4. Phase'
    BY <2>1, <2>2 DEF Phase
  <2>5. Shutdown' /\ Flushing'
    BY <2>1, <2>2 DEF Shutdown, Flushing
  <2>6. WithinBounds'
    <3>1. Len(buffer[k]) <= BatchSize
      BY <2>1 DEF WithinBounds
    <3>. QED
      <4>1. /\ batch'[k] = buffer[k] /\ buffer'[k] = <<>> /\ channel' = channel
            /\ \A j \in Kind \ {k} : batch'[j] = batch[j] /\ buffer'[j] = buffer[j]
        BY <2>1, <2>2
      <4>. QED
        BY <3>1, <4>1 DEF WithinBounds
  <2>. QED
    BY <2>3, <2>4, <2>5, <2>6
<1>3. CASE WorkerDone(k)
  <2>1. /\ worker[k] = "select"
        /\ Cancelled
        /\ buffer[k] \in Seq(Item \cup {Nil})
        /\ UNCHANGED <<callerVars, stop, crashed, channel, saved, queued, processed, errors>>
    BY <1>3 DEF WorkerDone, TypeOK
  <2>2. \/ StartFlush(k, buffer[k], TRUE)
        \/ /\ ~HasRecords(k)
           /\ worker' = [worker EXCEPT ![k] = "exited"]
           /\ UNCHANGED <<buffer, batch, final, attempt>>
    BY <1>3 DEF WorkerDone
  <2>3. CASE StartFlush(k, buffer[k], TRUE)
    <3>1. /\ batch'   \in [Kind -> Seq(Item \cup {Nil})]
          /\ buffer'  \in [Kind -> Seq(Item \cup {Nil})]
          /\ worker'  \in [Kind -> {"select", "saving", "backoff", "saved", "failed", "exited"}]
          /\ attempt' \in [Kind -> 0..MaxRetries]
          /\ final'   \in [Kind -> BOOLEAN]
          /\ batch'[k] = buffer[k] /\ buffer'[k] = <<>> /\ worker'[k] = "saving"
          /\ \A j \in Kind \ {k} : /\ batch'[j] = batch[j] /\ buffer'[j] = buffer[j]
                                   /\ worker'[j] = worker[j] /\ attempt'[j] = attempt[j]
      BY <2>1, <2>3, StartFlushTyped DEF TypeOK
    <3>2. TypeOK'
      BY <2>1, <3>1 DEF TypeOK
    <3>3. Phase'
      BY <2>1, <3>1 DEF Phase
    <3>4. Shutdown' /\ Flushing'
      BY <2>1, <3>1 DEF Shutdown, Flushing
    <3>5. WithinBounds'
      <4>1. Len(buffer[k]) <= BatchSize
        BY <2>1 DEF WithinBounds
      <4>. QED
        <5>1. /\ batch'[k] = buffer[k] /\ buffer'[k] = <<>> /\ channel' = channel
              /\ \A j \in Kind \ {k} : batch'[j] = batch[j] /\ buffer'[j] = buffer[j]
          BY <2>1, <3>1
        <5>. QED
          BY <4>1, <5>1 DEF WithinBounds
    <3>. QED
      BY <3>2, <3>3, <3>4, <3>5
  <2>4. CASE /\ ~HasRecords(k)
             /\ worker' = [worker EXCEPT ![k] = "exited"]
             /\ UNCHANGED <<buffer, batch, final, attempt>>
    <3>1. buffer[k] = <<>>
      BY <2>1, <2>4 DEF HasRecords
    <3>2. /\ worker' \in [Kind -> {"select", "saving", "backoff", "saved", "failed", "exited"}]
          /\ worker'[k] = "exited"
          /\ \A j \in Kind \ {k} : worker'[j] = worker[j]
      BY <2>4 DEF TypeOK
    <3>3. TypeOK'
      BY <2>1, <2>4, <3>2 DEF TypeOK
    <3>4. Phase'
      BY <2>1, <2>4, <3>1, <3>2 DEF Phase
    <3>5. Shutdown' /\ Flushing'
      BY <2>1, <2>4, <3>2 DEF Shutdown, Flushing
    <3>6. WithinBounds'
      BY <2>1, <2>4 DEF WithinBounds
    <3>. QED
      BY <3>3, <3>4, <3>5, <3>6
  <2>. QED
    BY <2>2, <2>3, <2>4
<1>4. CASE SaveSucceeds(k)
  <2>. USE <1>4 DEF SaveSucceeds, Cancelled
  <2>0. batch[k] \in Seq(Item)
    BY NoNilIsRecords DEF TypeOK
  <2>1. saved' \in [Kind -> Seq(Item)]
    BY <2>0 DEF TypeOK, Phase
  <2>2. worker' \in [Kind -> {"select", "saving", "backoff", "saved", "failed", "exited"}]
    BY <2>0 DEF TypeOK, Phase
  <2>3. TypeOK'
    BY <2>1, <2>2 DEF TypeOK
  <2>4. Phase'
    BY DEF TypeOK, Phase
  <2>5. Shutdown' /\ Flushing'
    BY DEF TypeOK, Shutdown, Flushing
  <2>6. WithinBounds'
    BY DEF TypeOK, Phase, WithinBounds
  <2>. QED
    BY <2>3, <2>4, <2>5, <2>6
<1>5. CASE SaveFails(k)
  <2>. USE <1>5 DEF SaveFails, AfterError, RetriesLeft
  <2>1. worker' \in [Kind -> {"select", "saving", "backoff", "saved", "failed", "exited"}]
    BY DEF TypeOK, Phase
  <2>2. TypeOK'
    BY <2>1 DEF TypeOK
  <2>3. Phase'
    BY DEF TypeOK, Phase
  <2>4. Shutdown' /\ Flushing'
    BY DEF TypeOK, Shutdown, Flushing
  <2>5. WithinBounds'
    BY DEF TypeOK, Phase, WithinBounds
  <2>. QED
    BY <2>2, <2>3, <2>4, <2>5
<1>6. CASE SaveUnacknowledged(k)
  <2>. USE <1>6 DEF SaveUnacknowledged, AfterError, RetriesLeft, Cancelled
  <2>0. batch[k] \in Seq(Item)
    BY NoNilIsRecords DEF TypeOK
  <2>1. saved' \in [Kind -> Seq(Item)]
    BY <2>0 DEF TypeOK, Phase
  <2>2. worker' \in [Kind -> {"select", "saving", "backoff", "saved", "failed", "exited"}]
    BY <2>0 DEF TypeOK, Phase
  <2>3. TypeOK'
    BY <2>1, <2>2 DEF TypeOK
  <2>4. Phase'
    BY DEF TypeOK, Phase
  <2>5. Shutdown' /\ Flushing'
    BY DEF TypeOK, Shutdown, Flushing
  <2>6. WithinBounds'
    BY DEF TypeOK, Phase, WithinBounds
  <2>. QED
    BY <2>3, <2>4, <2>5, <2>6
<1>7. CASE SavePanics(k)
  <2>. USE <1>7 DEF SavePanics
  <2>1. TypeOK'
    BY DEF TypeOK
  <2>2. Phase'
    BY DEF TypeOK, Phase
  <2>3. Shutdown' /\ Flushing'
    BY DEF TypeOK, Shutdown, Flushing
  <2>4. WithinBounds'
    BY DEF TypeOK, Phase, WithinBounds
  <2>. QED
    BY <2>1, <2>2, <2>3, <2>4
<1>8. CASE BackoffElapsed(k)
  <2>. USE <1>8 DEF BackoffElapsed, NextAttempt
  <2>1. worker' \in [Kind -> {"select", "saving", "backoff", "saved", "failed", "exited"}]
    BY DEF TypeOK, Phase
  <2>2. attempt' \in [Kind -> 0..MaxRetries]
    BY DEF TypeOK, Phase
  <2>3. TypeOK'
    BY <2>1, <2>2 DEF TypeOK
  <2>4. Phase'
    BY DEF TypeOK, Phase
  <2>5. Shutdown' /\ Flushing'
    BY DEF TypeOK, Shutdown, Flushing
  <2>6. WithinBounds'
    BY DEF TypeOK, Phase, WithinBounds
  <2>. QED
    BY <2>3, <2>4, <2>5, <2>6
<1>9. CASE BackoffCancelled(k)
  <2>. USE <1>9 DEF BackoffCancelled
  <2>1. worker' \in [Kind -> {"select", "saving", "backoff", "saved", "failed", "exited"}]
    BY DEF TypeOK, Phase
  <2>2. TypeOK'
    BY <2>1 DEF TypeOK
  <2>3. Phase'
    BY DEF TypeOK, Phase
  <2>4. Shutdown' /\ Flushing'
    BY DEF TypeOK, Shutdown, Flushing
  <2>5. WithinBounds'
    BY DEF TypeOK, Phase, WithinBounds
  <2>. QED
    BY <2>2, <2>3, <2>4, <2>5
<1>10. CASE FlushEnds(k)
  <2>. USE <1>10 DEF FlushEnds, ErrorsOfBatch
  <2>1. processed' \in [Kind -> Nat] /\ errors' \in [Kind -> Nat]
    <3>. Len(batch[k]) \in Nat /\ processed[k] + Len(batch[k]) \in Nat /\ errors[k] + Len(batch[k]) \in Nat
      BY DEF TypeOK
    <3>1. CASE worker[k] = "saved"
      <4>. processed' = [processed EXCEPT ![k] = processed[k] + Len(batch[k])] /\ errors' = errors
        BY <3>1
      <4>. QED
        BY DEF TypeOK
    <3>2. CASE worker[k] = "failed"
      <4>. errors' = [errors EXCEPT ![k] = errors[k] + Len(batch[k])] /\ processed' = processed
        BY <3>2
      <4>. QED
        BY DEF TypeOK
    <3>. QED
      BY <3>1, <3>2
  <2>2. batch' \in [Kind -> Seq(Item \cup {Nil})]
    BY DEF TypeOK
  <2>3. worker' \in [Kind -> {"select", "saving", "backoff", "saved", "failed", "exited"}]
    BY DEF TypeOK
  <2>4. TypeOK'
    BY <2>1, <2>2, <2>3 DEF TypeOK
  <2>5. Phase'
    BY DEF TypeOK, Phase
  <2>6. Shutdown' /\ Flushing'
    BY DEF TypeOK, Shutdown, Flushing
  <2>7. WithinBounds'
    BY DEF TypeOK, Phase, WithinBounds
  <2>. QED
    BY <2>4, <2>5, <2>6, <2>7
<1>. QED
  BY <1>1, <1>2, <1>3, <1>4, <1>5, <1>6, <1>7, <1>8, <1>9, <1>10 DEF Worker

LEMMA StopSafe ==
  ASSUME SafeInv, StopCancel \/ StopClose
  PROVE  SafeInv'
BY DEF StopCancel, StopClose, callerVars, workerVars, SafeInv, TypeOK, Phase, Shutdown, Flushing, WithinBounds

LEMMA NextSafe == SafeInv /\ [Next]_vars => SafeInv'
<1>. SUFFICES ASSUME SafeInv, [Next]_vars
              PROVE  SafeInv'
  OBVIOUS
<1>1. CASE UNCHANGED vars
  BY <1>1 DEF vars, SafeInv, TypeOK, Phase, Shutdown, Flushing, WithinBounds
<1>2. CASE Next
  BY <1>1, <1>2, QueueSafe, FlushSafe, WorkerSafe, StopSafe DEF Next, Terminated
<1>. QED
  BY <1>1, <1>2

\* Every variable keeps its type, for any records and any configuration.
THEOREM TypeCorrect == Spec => []TypeOK
<1>. SafeInv => TypeOK
  BY DEF SafeInv
<1>. QED
  BY InitSafe, NextSafe, PTL DEF Spec

\* Batches never exceed BatchSize, buffers stay below it, and channels within
\* their capacity.
THEOREM BoundsHold == Spec => []WithinBounds
<1>. SafeInv => WithinBounds
  BY DEF SafeInv
<1>. QED
  BY InitSafe, NextSafe, PTL DEF Spec

-----------------------------------------------------------------------------
(* The counters balance.                                                    *)

LEMMA InStatusFinite ==
  ASSUME NEW k \in Kind, NEW r
  PROVE  /\ IsFiniteSet(InStatus(k, r))
         /\ Cardinality(InStatus(k, r)) \in Nat
BY FS_Subset, FS_CardinalityType DEF InStatus, ItemsOf

\* A record that changes its status from f to t leaves one count of its kind
\* and enters another.
Moves(i, f, t) == status[i] = f /\ f # t /\ status' = [status EXCEPT ![i] = t]

LEMMA MoveLeavesOthers ==
  ASSUME TypeOK, NEW i \in Item, NEW f, NEW t, Moves(i, f, t), NEW k \in Kind, NEW r,
         KindOf[i] # k \/ (r # f /\ r # t)
  PROVE  Cardinality(InStatus(k, r)') = Cardinality(InStatus(k, r))
<1>1. \A j \in Item : status'[j] = IF j = i THEN t ELSE status[j]
  BY DEF TypeOK, Moves
<1>2. InStatus(k, r)' = InStatus(k, r)
  BY <1>1 DEF InStatus, ItemsOf, Moves
<1>. QED
  BY <1>2

LEMMA MoveEnters ==
  ASSUME TypeOK, NEW i \in Item, NEW f, NEW t, Moves(i, f, t)
  PROVE  Cardinality(InStatus(KindOf[i], t)') = Cardinality(InStatus(KindOf[i], t)) + 1
<1>1. \A j \in Item : status'[j] = IF j = i THEN t ELSE status[j]
  BY DEF TypeOK, Moves
<1>2. InStatus(KindOf[i], t)' = InStatus(KindOf[i], t) \cup {i} /\ i \notin InStatus(KindOf[i], t)
  BY <1>1 DEF InStatus, ItemsOf, Moves
<1>. QED
  BY <1>2, InStatusFinite, FS_AddElement

LEMMA MoveLeaves ==
  ASSUME TypeOK, NEW i \in Item, NEW f, NEW t, Moves(i, f, t)
  PROVE  Cardinality(InStatus(KindOf[i], f)') = Cardinality(InStatus(KindOf[i], f)) - 1
<1>1. \A j \in Item : status'[j] = IF j = i THEN t ELSE status[j]
  BY DEF TypeOK, Moves
<1>2. InStatus(KindOf[i], f)' = InStatus(KindOf[i], f) \ {i} /\ i \in InStatus(KindOf[i], f)
  BY <1>1 DEF InStatus, ItemsOf, Moves
<1>3. KindOf[i] \in Kind
  BY KindAssumption
<1>4. IsFiniteSet(InStatus(KindOf[i], f))
  BY <1>3, InStatusFinite
<1>5. Cardinality(InStatus(KindOf[i], f) \ {i}) = Cardinality(InStatus(KindOf[i], f)) - 1
  BY <1>2, <1>4, FS_RemoveElement
<1>. QED
  BY <1>2, <1>5

LEMMA CountsStay ==
  ASSUME UNCHANGED status, NEW k \in Kind, NEW r
  PROVE  Cardinality(InStatus(k, r)') = Cardinality(InStatus(k, r))
<1>. InStatus(k, r)' = InStatus(k, r)
  BY DEF InStatus
<1>. QED
  OBVIOUS

\* The balance of a kind as a relation of its nine numbers, and the ways in
\* which a step may change them: a send, its count, a rejection, Flush's send, a
\* receive (into the buffer, or with the buffer into an empty batch), the start
\* of a flush, and its two ends.
BalanceOf(q, s, n, b, u, c, p, e, f) == q + s + n = b + u + c + p + e - f

LEMMA Shifts ==
  ASSUME NEW q \in Nat, NEW s \in Nat, NEW n \in Nat, NEW b \in Nat, NEW u \in Nat,
         NEW c \in Nat, NEW p \in Nat, NEW e \in Nat, NEW f \in Nat,
         BalanceOf(q, s, n, b, u, c, p, e, f)
  PROVE  /\ BalanceOf(q, s + 1, n, b, u, c + 1, p, e, f)
         /\ BalanceOf(q + 1, s - 1, n, b, u, c, p, e, f)
         /\ BalanceOf(q, s, n, b, u, c, p, e + 1, f + 1)
         /\ BalanceOf(q, s, n + 1, b, u, c + 1, p, e, f)
         /\ BalanceOf(q, s, n, b, u + 1, c - 1, p, e, f)
         /\ b = 0 => BalanceOf(q, s, n, u + 1, 0, c - 1, p, e, f)
         /\ b = 0 => BalanceOf(q, s, n, u, 0, c, p, e, f)
         /\ BalanceOf(q, s, n, 0, u, c, p + b, e, f)
         /\ BalanceOf(q, s, n, 0, u, c, p, e + b, f)
BY DEF BalanceOf

Balanced(k) ==
  BalanceOf(queued[k], Cardinality(InStatus(k, "sent")), NilsSent(k),
            Len(batch[k]), Len(buffer[k]), Len(channel[k]),
            processed[k], errors[k], Cardinality(InStatus(k, "full")))

LEMMA InitBalanced == Init => Conservation
<1>. SUFFICES ASSUME Init, NEW k \in Kind
              PROVE  Balanced(k)
  BY DEF Conservation, Balanced, BalanceOf
<1>1. InStatus(k, "sent") = {} /\ InStatus(k, "full") = {}
  BY DEF Init, InStatus, ItemsOf
<1>2. Len(batch[k]) = 0 /\ Len(buffer[k]) = 0 /\ Len(channel[k]) = 0
  BY DEF Init
<1>3. Cardinality(InStatus(k, "sent")) = 0 /\ Cardinality(InStatus(k, "full")) = 0
  BY <1>1, FS_EmptySet
<1>4. queued[k] = 0 /\ processed[k] = 0 /\ errors[k] = 0 /\ NilsSent(k) = 0
  BY DEF Init, NilsSent
<1>. QED
  BY <1>2, <1>3, <1>4 DEF Balanced, BalanceOf

\* The numbers that the balance of one kind consists of.
LEMMA BalanceTypes ==
  ASSUME TypeOK, NEW k \in Kind
  PROVE  /\ queued[k] \in Nat /\ processed[k] \in Nat /\ errors[k] \in Nat
         /\ Len(batch[k]) \in Nat /\ Len(buffer[k]) \in Nat /\ Len(channel[k]) \in Nat
         /\ Cardinality(InStatus(k, "sent")) \in Nat /\ Cardinality(InStatus(k, "full")) \in Nat
         /\ NilsSent(k) \in Nat
<1>1. Cardinality(InStatus(k, "sent")) \in Nat /\ Cardinality(InStatus(k, "full")) \in Nat
  BY InStatusFinite
<1>2. NilsSent(k) \in Nat
  BY DEF NilsSent
<1>3. Len(batch[k]) \in Nat /\ Len(buffer[k]) \in Nat /\ Len(channel[k]) \in Nat
  <2>1. /\ batch[k] \in Seq(Item \cup {Nil})
        /\ buffer[k] \in Seq(Item \cup {Nil})
        /\ channel[k] \in Seq(Item \cup {Nil})
    BY DEF TypeOK
  <2>. QED
    BY <2>1, LenProperties
<1>4. queued[k] \in Nat /\ processed[k] \in Nat /\ errors[k] \in Nat
  BY DEF TypeOK
<1>. QED
  BY <1>1, <1>2, <1>3, <1>4

LEMMA KindShifts ==
  ASSUME TypeOK, NEW k \in Kind, Balanced(k)
  PROVE  /\ BalanceOf(queued[k], Cardinality(InStatus(k, "sent")) + 1, NilsSent(k),
                      Len(batch[k]), Len(buffer[k]), Len(channel[k]) + 1,
                      processed[k], errors[k], Cardinality(InStatus(k, "full")))
         /\ BalanceOf(queued[k] + 1, Cardinality(InStatus(k, "sent")) - 1, NilsSent(k),
                      Len(batch[k]), Len(buffer[k]), Len(channel[k]),
                      processed[k], errors[k], Cardinality(InStatus(k, "full")))
         /\ BalanceOf(queued[k], Cardinality(InStatus(k, "sent")), NilsSent(k),
                      Len(batch[k]), Len(buffer[k]), Len(channel[k]),
                      processed[k], errors[k] + 1, Cardinality(InStatus(k, "full")) + 1)
         /\ BalanceOf(queued[k], Cardinality(InStatus(k, "sent")), NilsSent(k) + 1,
                      Len(batch[k]), Len(buffer[k]), Len(channel[k]) + 1,
                      processed[k], errors[k], Cardinality(InStatus(k, "full")))
         /\ BalanceOf(queued[k], Cardinality(InStatus(k, "sent")), NilsSent(k),
                      Len(batch[k]), Len(buffer[k]) + 1, Len(channel[k]) - 1,
                      processed[k], errors[k], Cardinality(InStatus(k, "full")))
         /\ Len(batch[k]) = 0 => BalanceOf(queued[k], Cardinality(InStatus(k, "sent")), NilsSent(k),
                                           Len(buffer[k]) + 1, 0, Len(channel[k]) - 1,
                                           processed[k], errors[k], Cardinality(InStatus(k, "full")))
         /\ Len(batch[k]) = 0 => BalanceOf(queued[k], Cardinality(InStatus(k, "sent")), NilsSent(k),
                                           Len(buffer[k]), 0, Len(channel[k]),
                                           processed[k], errors[k], Cardinality(InStatus(k, "full")))
         /\ BalanceOf(queued[k], Cardinality(InStatus(k, "sent")), NilsSent(k),
                      0, Len(buffer[k]), Len(channel[k]),
                      processed[k] + Len(batch[k]), errors[k], Cardinality(InStatus(k, "full")))
         /\ BalanceOf(queued[k], Cardinality(InStatus(k, "sent")), NilsSent(k),
                      0, Len(buffer[k]), Len(channel[k]),
                      processed[k], errors[k] + Len(batch[k]), Cardinality(InStatus(k, "full")))
BY BalanceTypes, Shifts DEF Balanced

LEMMA QueueBalances ==
  ASSUME SafeInv, Conservation, NEW i \in Item, Queue(i)
  PROVE  Conservation'
<1>. SUFFICES ASSUME NEW k \in Kind
              PROVE  Balanced(k)'
  BY DEF Conservation, Balanced, BalanceOf
<1>1. Balanced(k) /\ TypeOK /\ KindOf[i] \in Kind
  BY KindAssumption DEF Conservation, Balanced, BalanceOf, SafeInv
<1>2. CASE QueueSend(i)
  <2>1. Moves(i, "new", "sent")
    BY <1>2 DEF QueueSend, Moves
  <2>2. UNCHANGED <<queued, batch, buffer, processed, errors, flushed>>
    BY <1>2 DEF QueueSend, workerVars
  <2>3. NilsSent(k)' = NilsSent(k)
    BY <2>2 DEF NilsSent
  <2>4. /\ KindOf[i] = k => Len(channel'[k]) = Len(channel[k]) + 1
        /\ KindOf[i] # k => channel'[k] = channel[k]
    <3>1. channel \in [Kind -> Seq(Item \cup {Nil})] /\ channel' = [channel EXCEPT ![KindOf[i]] = Append(@, i)]
      BY <1>1, <1>2 DEF QueueSend, SendOn, TypeOK
    <3>2. CASE KindOf[i] = k
      <4>. channel[k] \in Seq(Item \cup {Nil}) /\ channel'[k] = Append(channel[k], i)
        BY <3>1, <3>2
      <4>. QED
        BY <3>2, AppendProperties
    <3>3. CASE KindOf[i] # k
      BY <3>1, <3>3
    <3>. QED
      BY <3>2, <3>3
  <2>5. CASE KindOf[i] = k
    <3>1. Cardinality(InStatus(k, "sent")') = Cardinality(InStatus(k, "sent")) + 1
      BY <1>1, <2>1, <2>5, MoveEnters
    <3>2. Cardinality(InStatus(k, "full")') = Cardinality(InStatus(k, "full"))
      BY <1>1, <2>1, <2>5, MoveLeavesOthers
    <3>3. Len(channel'[k]) = Len(channel[k]) + 1
      BY <2>4, <2>5
    <3>. QED
      BY <1>1, <2>2, <2>3, <3>1, <3>2, <3>3, KindShifts DEF Balanced
  <2>6. CASE KindOf[i] # k
    <3>1. /\ Cardinality(InStatus(k, "sent")') = Cardinality(InStatus(k, "sent"))
          /\ Cardinality(InStatus(k, "full")') = Cardinality(InStatus(k, "full"))
      BY <1>1, <2>1, <2>6, MoveLeavesOthers
    <3>. QED
      BY <1>1, <2>2, <2>3, <2>4, <2>6, <3>1 DEF Balanced
  <2>. QED
    BY <2>5, <2>6
<1>3. CASE QueueCount(i)
  <2>1. Moves(i, "sent", "queued")
    BY <1>3 DEF QueueCount, Moves
  <2>2. UNCHANGED <<channel, batch, buffer, processed, errors, flushed>>
    BY <1>3 DEF QueueCount, workerVars
  <2>3. NilsSent(k)' = NilsSent(k)
    BY <2>2 DEF NilsSent
  <2>4. /\ KindOf[i] = k => queued'[k] = queued[k] + 1
        /\ KindOf[i] # k => queued'[k] = queued[k]
    <3>1. queued \in [Kind -> Nat] /\ queued' = [queued EXCEPT ![KindOf[i]] = @ + 1]
      BY <1>1, <1>3 DEF QueueCount, TypeOK
    <3>. QED
      BY <3>1
  <2>5. CASE KindOf[i] = k
    <3>1. Cardinality(InStatus(k, "sent")') = Cardinality(InStatus(k, "sent")) - 1
      BY <1>1, <2>1, <2>5, MoveLeaves
    <3>2. Cardinality(InStatus(k, "full")') = Cardinality(InStatus(k, "full"))
      BY <1>1, <2>1, <2>5, MoveLeavesOthers
    <3>. QED
      BY <1>1, <2>2, <2>3, <2>4, <2>5, <3>1, <3>2, KindShifts DEF Balanced
  <2>6. CASE KindOf[i] # k
    <3>1. /\ Cardinality(InStatus(k, "sent")') = Cardinality(InStatus(k, "sent"))
          /\ Cardinality(InStatus(k, "full")') = Cardinality(InStatus(k, "full"))
      BY <1>1, <2>1, <2>6, MoveLeavesOthers
    <3>. QED
      BY <1>1, <2>2, <2>3, <2>4, <2>6, <3>1 DEF Balanced
  <2>. QED
    BY <2>5, <2>6
<1>4. CASE QueueRejectFull(i)
  <2>1. Moves(i, "new", "full")
    BY <1>4 DEF QueueRejectFull, Moves
  <2>2. UNCHANGED <<channel, batch, buffer, processed, queued, flushed>>
    BY <1>4 DEF QueueRejectFull, workerVars
  <2>3. NilsSent(k)' = NilsSent(k)
    BY <2>2 DEF NilsSent
  <2>4. /\ KindOf[i] = k => errors'[k] = errors[k] + 1
        /\ KindOf[i] # k => errors'[k] = errors[k]
    <3>1. errors \in [Kind -> Nat] /\ errors' = [errors EXCEPT ![KindOf[i]] = @ + 1]
      BY <1>1, <1>4 DEF QueueRejectFull, TypeOK
    <3>. QED
      BY <3>1
  <2>5. CASE KindOf[i] = k
    <3>1. Cardinality(InStatus(k, "sent")') = Cardinality(InStatus(k, "sent"))
      BY <1>1, <2>1, <2>5, MoveLeavesOthers
    <3>2. Cardinality(InStatus(k, "full")') = Cardinality(InStatus(k, "full")) + 1
      BY <1>1, <2>1, <2>5, MoveEnters
    <3>. QED
      BY <1>1, <2>2, <2>3, <2>4, <2>5, <3>1, <3>2, KindShifts DEF Balanced
  <2>6. CASE KindOf[i] # k
    <3>1. /\ Cardinality(InStatus(k, "sent")') = Cardinality(InStatus(k, "sent"))
          /\ Cardinality(InStatus(k, "full")') = Cardinality(InStatus(k, "full"))
      BY <1>1, <2>1, <2>6, MoveLeavesOthers
    <3>. QED
      BY <1>1, <2>2, <2>3, <2>4, <2>6, <3>1 DEF Balanced
  <2>. QED
    BY <2>5, <2>6
<1>5. CASE QueueRejectStopping(i)
  <2>1. Moves(i, "new", "stopping")
    BY <1>5 DEF QueueRejectStopping, Moves
  <2>2. UNCHANGED <<channel, batch, buffer, processed, queued, errors, flushed>>
    BY <1>5 DEF QueueRejectStopping, workerVars
  <2>3. NilsSent(k)' = NilsSent(k)
    BY <2>2 DEF NilsSent
  <2>5. CASE KindOf[i] = k
    <3>1. Cardinality(InStatus(k, "sent")') = Cardinality(InStatus(k, "sent"))
      BY <1>1, <2>1, <2>5, MoveLeavesOthers
    <3>2. Cardinality(InStatus(k, "full")') = Cardinality(InStatus(k, "full"))
      BY <1>1, <2>1, <2>5, MoveLeavesOthers
    <3>. QED
      BY <1>1, <2>2, <2>3, <2>5, <3>1, <3>2, BalanceTypes DEF Balanced
  <2>6. CASE KindOf[i] # k
    <3>1. /\ Cardinality(InStatus(k, "sent")') = Cardinality(InStatus(k, "sent"))
          /\ Cardinality(InStatus(k, "full")') = Cardinality(InStatus(k, "full"))
      BY <1>1, <2>1, <2>6, MoveLeavesOthers
    <3>. QED
      BY <1>1, <2>2, <2>3, <2>6, <3>1 DEF Balanced
  <2>. QED
    BY <2>5, <2>6
<1>6. CASE QueuePanics(i)
  <2>1. UNCHANGED <<status, channel, batch, buffer, processed, queued, errors, flushed>>
    BY <1>6 DEF QueuePanics, callerVars, workerVars
  <2>. QED
    BY <1>1, <2>1, CountsStay DEF Balanced, NilsSent
<1>. QED
  BY <1>2, <1>3, <1>4, <1>5, <1>6 DEF Queue

LEMMA FlushBalances ==
  ASSUME SafeInv, Conservation, Flush
  PROVE  Conservation'
<1>. SUFFICES ASSUME NEW k \in Kind
              PROVE  Balanced(k)'
  BY DEF Conservation, Balanced, BalanceOf
<1>1. Balanced(k) /\ TypeOK /\ Flushing
  BY DEF Conservation, Balanced, BalanceOf, SafeInv
<1>2. CASE FlushSend
  <2>1. FlushTarget \in Kind \ flushed
    BY <1>1, <1>2 DEF FlushSend, FlushTarget, Flushing, Kind
  <2>2. channel[k] \in Seq(Item \cup {Nil}) /\ channel' = [channel EXCEPT ![FlushTarget] = Append(@, Nil)]
    BY <1>1, <1>2 DEF FlushSend, SendOn, TypeOK
  <2>3. /\ FlushTarget = k => Len(channel'[k]) = Len(channel[k]) + 1
        /\ FlushTarget # k => channel'[k] = channel[k]
    <3>1. channel \in [Kind -> Seq(Item \cup {Nil})]
      BY <1>1 DEF TypeOK
    <3>2. CASE FlushTarget = k
      <4>. channel'[k] = Append(channel[k], Nil)
        BY <2>2, <3>1, <3>2
      <4>. QED
        BY <2>2, <3>2, AppendProperties
    <3>. QED
      BY <2>2, <3>1, <3>2
  <2>4. /\ FlushTarget = k => NilsSent(k)' = NilsSent(k) + 1
        /\ FlushTarget # k => NilsSent(k)' = NilsSent(k)
    BY <1>2, <2>1 DEF FlushSend, NilsSent
  <2>5. UNCHANGED <<status, batch, buffer, processed, queued, errors>>
    BY <1>2 DEF FlushSend, workerVars
  <2>. QED
    <3>1. /\ Cardinality(InStatus(k, "sent")') = Cardinality(InStatus(k, "sent"))
          /\ Cardinality(InStatus(k, "full")') = Cardinality(InStatus(k, "full"))
      BY <2>5, CountsStay
    <3>. QED
      BY <1>1, <2>3, <2>4, <2>5, <3>1, KindShifts DEF Balanced
<1>3. CASE FlushCall \/ FlushTimeout \/ FlushPanics
  <2>1. UNCHANGED <<status, channel, batch, buffer, processed, queued, errors, flushed>>
    BY <1>3 DEF FlushCall, FlushTimeout, FlushPanics, callerVars, workerVars
  <2>. QED
    BY <1>1, <2>1, CountsStay DEF Balanced, NilsSent
<1>. QED
  BY <1>2, <1>3 DEF Flush

LEMMA WorkerBalances ==
  ASSUME SafeInv, Conservation, NEW w \in Kind, Worker(w)
  PROVE  Conservation'
<1>. SUFFICES ASSUME NEW k \in Kind
              PROVE  Balanced(k)'
  BY DEF Conservation, Balanced, BalanceOf
<1>1. Balanced(k) /\ TypeOK
  BY DEF Conservation, Balanced, BalanceOf, SafeInv
<1>2. UNCHANGED <<status, queued, flushed>>
  BY DEF Worker, WorkerReceive, WorkerTick, WorkerDone, SaveSucceeds, SaveFails,
         SaveUnacknowledged, SavePanics, BackoffElapsed, BackoffCancelled, FlushEnds,
         callerVars, workerVars
<1>3. /\ NilsSent(k)' = NilsSent(k)
      /\ Cardinality(InStatus(k, "sent")') = Cardinality(InStatus(k, "sent"))
      /\ Cardinality(InStatus(k, "full")') = Cardinality(InStatus(k, "full"))
  BY <1>2, CountsStay DEF NilsSent
<1>4. worker[w] = "select" => Len(batch[w]) = 0
  BY DEF SafeInv, Phase
<1>5. CASE WorkerReceive(w)
  <2>. DEFINE contents == Append(buffer[w], Head(channel[w]))
  <2>1. /\ channel[w] \in Seq(Item \cup {Nil})
        /\ buffer[w] \in Seq(Item \cup {Nil})
        /\ channel[w] # <<>>
        /\ worker[w] = "select"
        /\ channel' = [channel EXCEPT ![w] = Tail(@)]
        /\ UNCHANGED <<processed, errors>>
    BY <1>1, <1>5 DEF WorkerReceive, TypeOK
  <2>2. /\ contents \in Seq(Item \cup {Nil})
        /\ Len(contents) = Len(buffer[w]) + 1
        /\ Len(Tail(channel[w])) = Len(channel[w]) - 1
    BY <2>1
  <2>3. \/ StartFlush(w, contents, FALSE)
        \/ buffer' = [buffer EXCEPT ![w] = contents] /\ UNCHANGED batch
    BY <1>5 DEF WorkerReceive
  <2>. HIDE DEF contents
  <2>4. /\ Len(channel'[w]) = Len(channel[w]) - 1
        /\ \A j \in Kind \ {w} : channel'[j] = channel[j]
    BY <1>1, <2>1, <2>2 DEF TypeOK
  <2>5. CASE StartFlush(w, contents, FALSE)
    <3>1. /\ batch'[w] = contents /\ buffer'[w] = <<>>
          /\ \A j \in Kind \ {w} : batch'[j] = batch[j] /\ buffer'[j] = buffer[j]
      BY <1>1, <2>2, <2>5, StartFlushTyped
    <3>2. Len(batch'[w]) = Len(buffer[w]) + 1 /\ Len(buffer'[w]) = 0
      BY <2>2, <3>1
    <3>3. CASE w = k
      BY <1>1, <1>2, <1>3, <1>4, <2>1, <2>4, <3>2, <3>3, KindShifts DEF Balanced
    <3>4. CASE w # k
      BY <1>1, <1>2, <1>3, <2>1, <2>4, <3>1, <3>4 DEF Balanced
    <3>. QED
      BY <3>3, <3>4
  <2>6. CASE buffer' = [buffer EXCEPT ![w] = contents] /\ UNCHANGED batch
    <3>1. /\ Len(buffer'[w]) = Len(buffer[w]) + 1
          /\ \A j \in Kind \ {w} : buffer'[j] = buffer[j]
      BY <1>1, <2>2, <2>6 DEF TypeOK
    <3>2. CASE w = k
      BY <1>1, <1>2, <1>3, <2>1, <2>4, <2>6, <3>1, <3>2, KindShifts DEF Balanced
    <3>3. CASE w # k
      BY <1>1, <1>2, <1>3, <2>1, <2>4, <2>6, <3>1, <3>3 DEF Balanced
    <3>. QED
      BY <3>2, <3>3
  <2>. QED
    BY <2>3, <2>5, <2>6
<1>6. ASSUME UNCHANGED <<channel, processed, errors>>, worker[w] = "select",
             NEW isFinal \in BOOLEAN, StartFlush(w, buffer[w], isFinal)
      PROVE  Balanced(k)'
  <2>1. buffer[w] \in Seq(Item \cup {Nil})
    BY <1>1 DEF TypeOK
  <2>2. /\ batch'[w] = buffer[w] /\ buffer'[w] = <<>>
        /\ \A j \in Kind \ {w} : batch'[j] = batch[j] /\ buffer'[j] = buffer[j]
    BY <1>1, <1>6, <2>1, StartFlushTyped
  <2>3. Len(batch'[w]) = Len(buffer[w]) /\ Len(buffer'[w]) = 0
    <3>1. batch'[w] = buffer[w] /\ buffer'[w] = <<>>
      BY <2>2
    <3>2. Len(<<>>) = 0
      OBVIOUS
    <3>. QED
      BY ONLY <3>1, <3>2, Zenon
  <2>4. CASE w = k
    BY <1>1, <1>2, <1>3, <1>4, <1>6, <2>3, <2>4, KindShifts DEF Balanced
  <2>5. CASE w # k
    BY <1>1, <1>2, <1>3, <1>6, <2>2, <2>5 DEF Balanced
  <2>. QED
    BY <2>4, <2>5
<1>7. CASE WorkerTick(w)
  BY <1>6, <1>7 DEF WorkerTick
<1>8. CASE WorkerDone(w)
  <2>1. CASE StartFlush(w, buffer[w], TRUE)
    BY <1>6, <1>8, <2>1 DEF WorkerDone
  <2>2. CASE UNCHANGED <<channel, buffer, batch, processed, errors>>
    BY <1>1, <1>2, <1>3, <2>2 DEF Balanced
  <2>. QED
    BY <1>8, <2>1, <2>2 DEF WorkerDone
<1>9. CASE \/ SaveSucceeds(w) \/ SaveFails(w) \/ SaveUnacknowledged(w) \/ SavePanics(w)
           \/ BackoffElapsed(w) \/ BackoffCancelled(w)
  <2>1. UNCHANGED <<channel, buffer, batch, processed, errors>>
    BY <1>9 DEF SaveSucceeds, SaveFails, SaveUnacknowledged, SavePanics,
                BackoffElapsed, BackoffCancelled, workerVars
  <2>. QED
    BY <1>1, <1>2, <1>3, <2>1 DEF Balanced
<1>10. CASE FlushEnds(w)
  <2>1. /\ batch' = [batch EXCEPT ![w] = <<>>]
        /\ UNCHANGED <<channel, buffer>>
        /\ \/ processed' = [processed EXCEPT ![w] = @ + Len(batch[w])] /\ UNCHANGED errors
           \/ errors' = [errors EXCEPT ![w] = @ + Len(batch[w])] /\ UNCHANGED processed
    BY <1>10 DEF FlushEnds, ErrorsOfBatch
  <2>2. /\ Len(batch'[w]) = 0
        /\ \A j \in Kind \ {w} : batch'[j] = batch[j]
    BY <1>1, <2>1 DEF TypeOK
  <2>3. \/ /\ processed'[w] = processed[w] + Len(batch[w])
           /\ errors' = errors
           /\ \A j \in Kind \ {w} : processed'[j] = processed[j]
        \/ /\ errors'[w] = errors[w] + Len(batch[w])
           /\ processed' = processed
           /\ \A j \in Kind \ {w} : errors'[j] = errors[j]
    BY <1>1, <2>1 DEF TypeOK
  <2>4. CASE w = k
    BY <1>1, <1>2, <1>3, <2>1, <2>2, <2>3, <2>4, KindShifts DEF Balanced
  <2>5. CASE w # k
    BY <1>1, <1>2, <1>3, <2>1, <2>2, <2>3, <2>5 DEF Balanced
  <2>. QED
    BY <2>4, <2>5
<1>. QED
  BY <1>5, <1>7, <1>8, <1>9, <1>10 DEF Worker

LEMMA OthersBalance ==
  ASSUME Conservation,
         UNCHANGED <<status, flushed, channel, buffer, batch, queued, processed, errors>>
  PROVE  Conservation'
<1>. SUFFICES ASSUME NEW k \in Kind
              PROVE  Balanced(k)'
  BY DEF Conservation, Balanced, BalanceOf
<1>1. Balanced(k)
  BY DEF Conservation, Balanced, BalanceOf
<1>. QED
  BY <1>1, CountsStay DEF Balanced, NilsSent

LEMMA NextBalances == SafeInv /\ Conservation /\ [Next]_vars => Conservation'
<1>. SUFFICES ASSUME SafeInv, Conservation, [Next]_vars
              PROVE  Conservation'
  OBVIOUS
<1>1. CASE UNCHANGED vars
  BY <1>1, OthersBalance DEF vars
<1>2. CASE StopCancel \/ StopClose
  BY <1>2, OthersBalance DEF StopCancel, StopClose, callerVars, workerVars
<1>3. CASE Next
  BY <1>1, <1>2, <1>3, QueueBalances, FlushBalances, WorkerBalances DEF Next, Terminated
<1>. QED
  BY <1>1, <1>3

\* The metrics of the writer add up at every moment: what was queued is in the
\* channel, the buffer or the batch, or was counted as processed or failed.
THEOREM MetricsBalance == Spec => []Conservation
<1>. QED
  BY InitSafe, InitBalanced, NextSafe, NextBalances, PTL DEF Spec

-----------------------------------------------------------------------------
(* What one step of a worker does to its own channel, buffer, batch, rows   *)
(* and place, and that it leaves the other kinds alone.                     *)

OthersStay(k) ==
  \A j \in Kind \ {k} :
    /\ channel'[j] = channel[j] /\ buffer'[j] = buffer[j] /\ batch'[j] = batch[j]
    /\ saved'[j] = saved[j] /\ worker'[j] = worker[j] /\ attempt'[j] = attempt[j]

RecordsStay(k) ==
  channel'[k] = channel[k] /\ buffer'[k] = buffer[k] /\ batch'[k] = batch[k]

Gathers(k) ==
  /\ worker[k] = "select" /\ channel[k] # <<>>
  /\ channel'[k] = Tail(channel[k])
  /\ saved'[k] = saved[k]
  /\ \/ /\ buffer'[k] = Append(buffer[k], Head(channel[k])) /\ batch'[k] = batch[k]
        /\ worker'[k] = "select" /\ attempt'[k] = attempt[k]
     \/ /\ buffer'[k] = <<>> /\ batch'[k] = Append(buffer[k], Head(channel[k]))
        /\ worker'[k] = "saving" /\ attempt'[k] = 0

Flushes(k) ==
  /\ worker[k] = "select" /\ buffer[k] # <<>>
  /\ channel'[k] = channel[k] /\ saved'[k] = saved[k]
  /\ buffer'[k] = <<>> /\ batch'[k] = buffer[k]
  /\ worker'[k] = "saving" /\ attempt'[k] = 0

Commits(k) ==
  /\ worker[k] = "saving" /\ ~Cancelled /\ batch[k] \in Seq(Item)
  /\ RecordsStay(k) /\ attempt'[k] = attempt[k]
  /\ saved'[k] = saved[k] \o batch[k]
  /\ \/ worker'[k] = "saved"
     \/ LostAcks /\ worker'[k] = "backoff" /\ attempt[k] < MaxRetries
     \/ LostAcks /\ worker'[k] = "failed"

Misses(k) ==
  /\ worker[k] = "saving"
  /\ RecordsStay(k) /\ attempt'[k] = attempt[k] /\ saved'[k] = saved[k]
  /\ \/ worker'[k] = "backoff" /\ attempt[k] < MaxRetries
     \/ worker'[k] = "failed"

TriesAgain(k) ==
  /\ worker[k] = "backoff" /\ worker'[k] = "saving"
  /\ RecordsStay(k) /\ saved'[k] = saved[k] /\ attempt'[k] = attempt[k] + 1

Ends(k) ==
  /\ worker[k] \in {"saved", "failed"} /\ worker'[k] \in {"select", "exited"}
  /\ channel'[k] = channel[k] /\ buffer'[k] = buffer[k] /\ batch'[k] = <<>>
  /\ saved'[k] = saved[k] /\ attempt'[k] = attempt[k]

\* The worker leaves its select, gives up waiting, or panics where it is.
Rests(k) ==
  /\ RecordsStay(k) /\ saved'[k] = saved[k] /\ attempt'[k] = attempt[k]
  /\ \/ worker[k] = "select" /\ worker'[k] = "exited"
     \/ worker[k] = "backoff" /\ worker'[k] = "failed"
     \/ worker'[k] = worker[k]

LEMMA WorkerStepOf ==
  ASSUME SafeInv, NEW k \in Kind, Worker(k)
  PROVE  /\ OthersStay(k)
         /\ UNCHANGED <<status, stop>>
         /\ \/ Gathers(k) \/ Flushes(k) \/ Commits(k) \/ Misses(k)
            \/ TriesAgain(k) \/ Ends(k) \/ Rests(k)
<1>1. TypeOK
  BY DEF SafeInv
<1>. USE DEF OthersStay, RecordsStay, callerVars, workerVars
<1>2. CASE WorkerReceive(k)
  <2>1. CASE StartFlush(k, Append(buffer[k], Head(channel[k])), FALSE)
    BY <1>1, <1>2, <2>1 DEF WorkerReceive, StartFlush, TypeOK, Gathers
  <2>2. CASE /\ buffer' = [buffer EXCEPT ![k] = Append(buffer[k], Head(channel[k]))]
             /\ UNCHANGED <<batch, worker, final, attempt>>
    BY <1>1, <1>2, <2>2 DEF WorkerReceive, TypeOK, Gathers
  <2>. QED
    BY <1>2, <2>1, <2>2 DEF WorkerReceive
<1>3. CASE WorkerTick(k)
  <2>1. buffer[k] # <<>>
    BY <1>3 DEF WorkerTick, HasRecords
  <2>. QED
    BY <1>1, <1>3, <2>1 DEF WorkerTick, StartFlush, TypeOK, Flushes
<1>4. CASE WorkerDone(k)
  <2>1. CASE HasRecords(k) /\ StartFlush(k, buffer[k], TRUE)
    <3>1. buffer[k] # <<>>
      BY <2>1 DEF HasRecords
    <3>. QED
      BY <1>1, <1>4, <2>1, <3>1 DEF WorkerDone, StartFlush, TypeOK, Flushes
  <2>2. CASE worker' = [worker EXCEPT ![k] = "exited"] /\ UNCHANGED <<buffer, batch, final, attempt>>
    BY <1>1, <1>4, <2>2 DEF WorkerDone, TypeOK, Rests
  <2>. QED
    BY <1>4, <2>1, <2>2 DEF WorkerDone
<1>5. CASE SaveSucceeds(k)
  <2>1. batch[k] \in Seq(Item)
    BY <1>1, <1>5, NoNilIsRecords DEF SaveSucceeds, TypeOK
  <2>. QED
    BY <1>1, <1>5, <2>1 DEF SaveSucceeds, TypeOK, Commits, Cancelled
<1>6. CASE SaveUnacknowledged(k)
  <2>1. batch[k] \in Seq(Item)
    BY <1>1, <1>6, NoNilIsRecords DEF SaveUnacknowledged, TypeOK
  <2>. QED
    BY <1>1, <1>6, <2>1 DEF SaveUnacknowledged, AfterError, RetriesLeft, TypeOK, Commits, Cancelled
<1>7. CASE SaveFails(k)
  BY <1>1, <1>7 DEF SaveFails, AfterError, RetriesLeft, TypeOK, Misses
<1>8. CASE SavePanics(k)
  BY <1>8 DEF SavePanics, Rests
<1>9. CASE BackoffElapsed(k)
  BY <1>1, <1>9 DEF BackoffElapsed, NextAttempt, TypeOK, TriesAgain
<1>10. CASE BackoffCancelled(k)
  BY <1>1, <1>10 DEF BackoffCancelled, TypeOK, Rests
<1>11. CASE FlushEnds(k)
  BY <1>1, <1>11 DEF FlushEnds, TypeOK, Ends
<1>. QED
  BY <1>2, <1>3, <1>4, <1>5, <1>6, <1>7, <1>8, <1>9, <1>10, <1>11 DEF Worker

-----------------------------------------------------------------------------
(* The rows that MySQL has and the records that the metrics call processed. *)

\* What *Processed will say once the flush that has just been acknowledged ends.
Acknowledged(k) == processed[k] + IF worker[k] = "saved" THEN Len(batch[k]) ELSE 0

RowsOf(count, rows) == IF LostAcks THEN count <= rows ELSE count = rows

\* BooksClose speaks of the rows after Stop; it is Rows that every step preserves.
Rows == \A k \in Kind : RowsOf(Acknowledged(k), Len(saved[k]))

LEMMA InitRows == Init => Rows
BY DEF Init, Rows, RowsOf, Acknowledged

LEMMA RowsGrow ==
  ASSUME NEW count \in Nat, NEW rows \in Nat, NEW more \in Nat, RowsOf(count + 0, rows)
  PROVE  /\ RowsOf(count + more, rows + more)
         /\ LostAcks => RowsOf(count, rows + more)
BY DEF RowsOf

LEMMA WorkerCounts ==
  ASSUME SafeInv, NEW k \in Kind, Worker(k)
  PROVE  /\ \A j \in Kind \ {k} : processed'[j] = processed[j]
         /\ processed'[k] = processed[k]
              + IF worker[k] = "saved" /\ worker'[k] # "saved" THEN Len(batch[k]) ELSE 0
<1>1. /\ processed \in [Kind -> Nat] /\ processed[k] \in Nat
      /\ worker \in [Kind -> {"select", "saving", "backoff", "saved", "failed", "exited"}]
  BY DEF SafeInv, TypeOK
<1>2. CASE FlushEnds(k)
  <2>1. CASE worker[k] = "saved"
    BY <1>1, <1>2, <2>1 DEF FlushEnds
  <2>2. CASE worker[k] = "failed"
    BY <1>1, <1>2, <2>2 DEF FlushEnds
  <2>. QED
    BY <1>2, <2>1, <2>2 DEF FlushEnds
<1>3. CASE ~FlushEnds(k)
  <2>1. processed' = processed /\ (worker[k] # "saved" \/ worker'[k] = worker[k])
    <3>1. CASE WorkerReceive(k) \/ WorkerTick(k) \/ WorkerDone(k)
      BY <3>1 DEF WorkerReceive, WorkerTick, WorkerDone
    <3>2. CASE SaveSucceeds(k) \/ SaveFails(k) \/ SaveUnacknowledged(k)
      BY <3>2 DEF SaveSucceeds, SaveFails, SaveUnacknowledged
    <3>3. CASE SavePanics(k)
      BY <3>3 DEF SavePanics, workerVars
    <3>4. CASE BackoffElapsed(k) \/ BackoffCancelled(k)
      BY <3>4 DEF BackoffElapsed, BackoffCancelled
    <3>. QED
      BY <1>3, <3>1, <3>2, <3>3, <3>4 DEF Worker
  <2>. QED
    BY <1>1, <2>1
<1>. QED
  BY <1>2, <1>3

LEMMA WorkerRows ==
  ASSUME SafeInv, Rows, NEW k \in Kind, Worker(k)
  PROVE  Rows'
<1>1. OthersStay(k)
  BY WorkerStepOf
<1>2. ASSUME NEW j \in Kind \ {k}
      PROVE  RowsOf(Acknowledged(j), Len(saved[j]))'
  BY <1>1, <1>2, WorkerCounts DEF OthersStay, Rows, RowsOf, Acknowledged
<1>3. RowsOf(Acknowledged(k), Len(saved[k]))'
  <2>1. /\ processed[k] \in Nat /\ Len(batch[k]) \in Nat /\ Len(saved[k]) \in Nat
        /\ batch[k] \in Seq(Item \cup {Nil}) /\ saved[k] \in Seq(Item)
    <3>1. /\ processed[k] \in Nat /\ batch[k] \in Seq(Item \cup {Nil}) /\ saved[k] \in Seq(Item)
      BY DEF SafeInv, TypeOK
    <3>. QED
      BY <3>1, LenProperties
  <2>2. RowsOf(Acknowledged(k), Len(saved[k]))
    BY DEF Rows
  <2>3. processed'[k] = processed[k]
          + IF worker[k] = "saved" /\ worker'[k] # "saved" THEN Len(batch[k]) ELSE 0
    BY WorkerCounts
  <2>4. CASE Commits(k)
    <3>1. batch[k] \in Seq(Item) /\ saved'[k] = saved[k] \o batch[k]
      BY <2>4 DEF Commits
    <3>2. Len(saved'[k]) = Len(saved[k]) + Len(batch[k])
      BY <2>1, <3>1, ConcatProperties
    <3>3. /\ worker[k] = "saving" /\ batch'[k] = batch[k]
          /\ worker'[k] = "saved" \/ (LostAcks /\ worker'[k] # "saved")
      BY <2>4 DEF Commits, RecordsStay
    <3>4. Acknowledged(k) = processed[k] + 0 /\ processed'[k] = processed[k] + 0
      BY <2>3, <3>3 DEF Acknowledged
    <3>5. /\ RowsOf(processed[k] + Len(batch[k]), Len(saved[k]) + Len(batch[k]))
          /\ LostAcks => RowsOf(processed[k], Len(saved[k]) + Len(batch[k]))
      BY <2>1, <2>2, <3>4, RowsGrow
    <3>6. Acknowledged(k)' = processed[k] + IF worker'[k] = "saved" THEN Len(batch[k]) ELSE 0
      BY ONLY <2>1, <3>3, <3>4 DEF Acknowledged
    <3>7. CASE worker'[k] = "saved"
      <4>1. Acknowledged(k)' = processed[k] + Len(batch[k])
        BY <3>6, <3>7
      <4>. QED
        BY ONLY <3>2, <3>5, <4>1
    <3>8. CASE LostAcks /\ worker'[k] # "saved"
      <4>1. Acknowledged(k)' = processed[k]
        BY ONLY <2>1, <3>6, <3>8
      <4>. QED
        BY ONLY <3>2, <3>5, <3>8, <4>1
    <3>. QED
      BY <3>3, <3>7, <3>8
  <2>5. CASE Ends(k)
    <3>1. saved'[k] = saved[k] /\ worker'[k] # "saved"
      BY <2>5 DEF Ends
    <3>. QED
      BY ONLY <2>1, <2>2, <2>3, <3>1 DEF RowsOf, Acknowledged
  <2>6. CASE Gathers(k) \/ Flushes(k) \/ Misses(k) \/ TriesAgain(k) \/ Rests(k)
    <3>1. saved'[k] = saved[k]
      BY <2>6 DEF Gathers, Flushes, Misses, TriesAgain, Rests
    <3>2. \/ worker[k] # "saved" /\ worker'[k] # "saved"
          \/ worker'[k] = worker[k] /\ batch'[k] = batch[k]
      BY <2>6 DEF Gathers, Flushes, Misses, TriesAgain, Rests, RecordsStay
    <3>. QED
      BY ONLY <2>1, <2>2, <2>3, <3>1, <3>2 DEF RowsOf, Acknowledged
  <2>. QED
    BY <2>4, <2>5, <2>6, WorkerStepOf
<1>. QED
  BY <1>2, <1>3 DEF Rows

LEMMA NextRows == SafeInv /\ Rows /\ [Next]_vars => Rows'
<1>. SUFFICES ASSUME SafeInv, Rows, [Next]_vars
              PROVE  Rows'
  OBVIOUS
<1>1. CASE UNCHANGED <<batch, worker, saved, processed>>
  BY <1>1 DEF Rows, RowsOf, Acknowledged
<1>2. CASE Next
  <2>1. ASSUME NEW i \in Item, Queue(i)
        PROVE  UNCHANGED <<batch, worker, saved, processed>>
    BY <2>1 DEF Queue, QueueSend, QueueCount, QueueRejectFull, QueueRejectStopping, QueuePanics,
                workerVars
  <2>2. Flush \/ StopCancel \/ StopClose \/ Terminated => UNCHANGED <<batch, worker, saved, processed>>
    BY DEF Flush, FlushCall, FlushSend, FlushTimeout, FlushPanics, StopCancel, StopClose,
           Terminated, workerVars, vars
  <2>. QED
    BY <1>1, <1>2, <2>1, <2>2, WorkerRows DEF Next
<1>. QED
  BY <1>1, <1>2 DEF vars

LEMMA ClosedBooks == SafeInv /\ Conservation /\ Rows => BooksClose
<1>. SUFFICES ASSUME SafeInv, Conservation, Rows, stop = "closed", NEW k \in Kind
              PROVE  /\ queued[k] + Cardinality(InStatus(k, "sent")) + NilsSent(k)
                          = processed[k] + errors[k] - Cardinality(InStatus(k, "full"))
                            + Len(channel[k])
                     /\ RowsOf(processed[k], Len(saved[k]))
  BY DEF BooksClose, RowsOf
<1>1. worker[k] = "exited" /\ batch[k] = <<>> /\ buffer[k] = <<>>
  BY DEF SafeInv, Shutdown, Phase
<1>2. TypeOK
  BY DEF SafeInv
<1>3. /\ queued[k] \in Nat /\ processed[k] \in Nat /\ errors[k] \in Nat
      /\ Len(channel[k]) \in Nat /\ NilsSent(k) \in Nat
      /\ Cardinality(InStatus(k, "sent")) \in Nat /\ Cardinality(InStatus(k, "full")) \in Nat
  BY <1>2, BalanceTypes
<1>4. queued[k] + Cardinality(InStatus(k, "sent")) + NilsSent(k)
        = 0 + 0 + Len(channel[k]) + processed[k] + errors[k] - Cardinality(InStatus(k, "full"))
  <2>1. queued[k] + Cardinality(InStatus(k, "sent")) + NilsSent(k)
          = Len(batch[k]) + Len(buffer[k]) + Len(channel[k])
            + processed[k] + errors[k] - Cardinality(InStatus(k, "full"))
    BY DEF Conservation
  <2>2. Len(batch[k]) = 0 /\ Len(buffer[k]) = 0
    BY <1>1
  <2>. QED
    BY ONLY <2>1, <2>2, Zenon
<1>5. RowsOf(processed[k] + 0, Len(saved[k]))
  BY <1>1 DEF Rows, Acknowledged
<1>. QED
  BY ONLY <1>3, <1>4, <1>5 DEF RowsOf

\* When Stop is through, every record whose send succeeded has been counted once,
\* as processed, with a row in MySQL to show for it, or as failed, or it is stranded
\* in its channel.
THEOREM BooksCloseAtStop == Spec => []BooksClose
<1>. QED
  BY InitSafe, InitBalanced, InitRows, NextSafe, NextBalances, NextRows, ClosedBooks, PTL DEF Spec

-----------------------------------------------------------------------------
(* The batch of a flush under way.                                          *)

\* While a flush is under way there is something in the batch.
Loaded == \A k \in Kind : worker[k] \notin {"select", "exited"} => batch[k] # <<>>

LEMMA InitLoaded == Init => Loaded
BY DEF Init, Loaded

LEMMA NextLoaded == SafeInv /\ Loaded /\ [Next]_vars => Loaded'
<1>. SUFFICES ASSUME SafeInv, Loaded, [Next]_vars
              PROVE  Loaded'
  OBVIOUS
<1>1. CASE UNCHANGED <<batch, worker>>
  BY <1>1 DEF Loaded
<1>2. ASSUME NEW k \in Kind, Worker(k)
      PROVE  Loaded'
  <2>1. OthersStay(k)
    BY <1>2, WorkerStepOf
  <2>2. \A j \in Kind \ {k} : worker'[j] \notin {"select", "exited"} => batch'[j] # <<>>
    BY <2>1 DEF OthersStay, Loaded
  <2>3. worker'[k] \notin {"select", "exited"} => batch'[k] # <<>>
    <3>1. /\ channel[k] \in Seq(Item \cup {Nil}) /\ buffer[k] \in Seq(Item \cup {Nil})
      BY DEF SafeInv, TypeOK
    <3>2. channel[k] # <<>> => Append(buffer[k], Head(channel[k])) # <<>>
      BY <3>1, HeadTailProperties, AppendProperties
    <3>3. CASE Gathers(k) \/ Flushes(k)
      BY <3>2, <3>3 DEF Gathers, Flushes
    <3>4. CASE Commits(k) \/ Misses(k) \/ TriesAgain(k) \/ Ends(k) \/ Rests(k)
      BY <3>4 DEF Commits, Misses, TriesAgain, Ends, Rests, RecordsStay, Loaded
    <3>. QED
      BY <1>2, <3>3, <3>4, WorkerStepOf
  <2>. QED
    BY <2>2, <2>3 DEF Loaded
<1>3. CASE Next
  <2>1. ASSUME NEW i \in Item, Queue(i)
        PROVE  UNCHANGED <<batch, worker>>
    BY <2>1 DEF Queue, QueueSend, QueueCount, QueueRejectFull, QueueRejectStopping, QueuePanics,
                workerVars
  <2>2. Flush \/ StopCancel \/ StopClose \/ Terminated => UNCHANGED <<batch, worker>>
    BY DEF Flush, FlushCall, FlushSend, FlushTimeout, FlushPanics, StopCancel, StopClose,
           Terminated, workerVars, vars
  <2>. QED
    BY <1>1, <1>2, <1>3, <2>1, <2>2 DEF Next
<1>. QED
  BY <1>1, <1>3 DEF vars

-----------------------------------------------------------------------------
(* The writer keeps the write-behind promise.                               *)

LEMMA GatherKeepsOrder ==
  ASSUME NEW R, NEW s \in Seq(R), NEW t \in Seq(R), t # <<>>
  PROVE  Append(s, Head(t)) \o Tail(t) = s \o t
<1>1. Head(t) \in R /\ Tail(t) \in Seq(R) /\ <<Head(t)>> \in Seq(R)
  BY HeadTailProperties
<1>2. Append(s, Head(t)) = s \o <<Head(t)>>
  BY <1>1, AppendIsConcat
<1>3. <<Head(t)>> \o Tail(t) = t
  <2>1. /\ Len(<<Head(t)>>) = 1 /\ <<Head(t)>>[1] = Head(t)
        /\ Len(Tail(t)) = Len(t) - 1 /\ Len(t) \in Nat \ {0}
    BY HeadTailProperties, LenProperties, EmptySeq
  <2>2. /\ <<Head(t)>> \o Tail(t) \in Seq(R)
        /\ Len(<<Head(t)>> \o Tail(t)) = Len(t)
        /\ \A n \in 1..Len(t) : (<<Head(t)>> \o Tail(t))[n] = IF n = 1 THEN Head(t) ELSE Tail(t)[n - 1]
    BY <1>1, <2>1, ConcatProperties
  <2>3. \A n \in 1..Len(t) : (<<Head(t)>> \o Tail(t))[n] = t[n]
    <3>. SUFFICES ASSUME NEW n \in 1..Len(t)
                  PROVE  (<<Head(t)>> \o Tail(t))[n] = t[n]
      OBVIOUS
    <3>1. Head(t) = t[1]
      OBVIOUS
    <3>2. n # 1 => Tail(t)[n - 1] = t[n]
      <4>1. n # 1 => n - 1 \in 1..Len(Tail(t)) /\ (n - 1) + 1 = n
        BY <2>1
      <4>2. \A m \in 1..Len(Tail(t)) : Tail(t)[m] = t[m + 1]
        BY HeadTailProperties
      <4>. QED
        BY <4>1, <4>2
    <3>. QED
      BY <2>2, <3>1, <3>2
  <2>. QED
    BY <2>2, <2>3, SeqEqual
<1>. QED
  BY <1>1, <1>2, <1>3, ConcatAssociative

LEMMA AppendAfterConcat ==
  ASSUME NEW R, NEW s \in Seq(R), NEW t \in Seq(R), NEW x \in R
  PROVE  s \o Append(t, x) = Append(s \o t, x)
<1>1. <<x>> \in Seq(R) /\ s \o t \in Seq(R)
  BY ConcatProperties
<1>. QED
  BY <1>1, AppendIsConcat, ConcatAssociative

LEMMA AppendAfterTwo ==
  ASSUME NEW R, NEW b \in Seq(R), NEW u \in Seq(R), NEW c \in Seq(R), NEW x \in R
  PROVE  /\ u \o Append(c, x) = Append(u \o c, x)
         /\ b \o u \o Append(c, x) = Append(b \o u \o c, x)
<1>1. b \o u \in Seq(R)
  BY ConcatProperties
<1>2. u \o Append(c, x) = Append(u \o c, x)
  BY AppendAfterConcat
<1>. DEFINE d == b \o u
<1>3. d \in Seq(R)
  BY <1>1
<1>. HIDE DEF d
<1>4. d \o Append(c, x) = Append(d \o c, x)
  BY <1>3, AppendAfterConcat
<1>. QED
  BY <1>2, <1>4 DEF d

LEMMA PartsOfConcat ==
  ASSUME NEW R, NEW s \in Seq(R), NEW t \in Seq(R)
  PROVE  /\ SubSeq(s \o t, 1, Len(s)) = s
         /\ SubSeq(s \o t, Len(s) + 1, Len(s \o t)) = t
<1>. DEFINE c == s \o t
            a == Len(s)
            b == Len(t)
<1>1. /\ c \in Seq(R) /\ Len(c) = a + b /\ a \in Nat /\ b \in Nat
      /\ \A n \in 1..a + b : c[n] = IF n <= a THEN s[n] ELSE t[n - a]
  BY ConcatProperties, LenProperties
<1>2. \A n \in 1..a + b : c[n] \in R
  BY <1>1, ElementOfSeq
<1>. HIDE DEF c
<1>3. SubSeq(c, 1, a) = s
  <2>1. /\ SubSeq(c, 1, a) \in Seq(R)
        /\ Len(SubSeq(c, 1, a)) = a
        /\ \A n \in 1..a : SubSeq(c, 1, a)[n] = c[n]
    <3>1. \A n \in 1..a : c[n] \in R
      BY <1>1, <1>2
    <3>2. /\ SubSeq(c, 1, a) \in Seq(R)
          /\ Len(SubSeq(c, 1, a)) = IF 1 <= a THEN a - 1 + 1 ELSE 0
          /\ \A n \in 1..a - 1 + 1 : SubSeq(c, 1, a)[n] = c[1 + n - 1]
      BY <1>1, <3>1, SubSeqProperties
    <3>. QED
      BY <1>1, <3>2
  <2>2. \A n \in 1..a : SubSeq(c, 1, a)[n] = s[n]
    BY <1>1, <2>1
  <2>. QED
    BY <2>1, <2>2, SeqEqual
<1>4. SubSeq(c, a + 1, a + b) = t
  <2>1. /\ SubSeq(c, a + 1, a + b) \in Seq(R)
        /\ Len(SubSeq(c, a + 1, a + b)) = b
        /\ \A n \in 1..b : SubSeq(c, a + 1, a + b)[n] = c[a + n]
    <3>1. \A n \in (a + 1)..(a + b) : c[n] \in R
      BY <1>1, <1>2
    <3>2. /\ SubSeq(c, a + 1, a + b) \in Seq(R)
          /\ Len(SubSeq(c, a + 1, a + b)) = IF a + 1 <= a + b THEN (a + b) - (a + 1) + 1 ELSE 0
          /\ \A n \in 1..(a + b) - (a + 1) + 1 : SubSeq(c, a + 1, a + b)[n] = c[(a + 1) + n - 1]
      BY <1>1, <3>1, SubSeqProperties
    <3>. QED
      BY <1>1, <3>2
  <2>2. \A n \in 1..b : SubSeq(c, a + 1, a + b)[n] = t[n]
    BY <1>1, <2>1
  <2>. QED
    BY <2>1, <2>2, SeqEqual
<1>. QED
  BY <1>1, <1>3, <1>4 DEF c

Records == Item \cup {Nil}

LEMMA OwedForm ==
  ASSUME NEW w, NEW c \in Seq(Records), NEW u \in Seq(Records), NEW b \in Seq(Records),
         w \in {"select", "exited"} => b = <<>>,
         w # "select" => u = <<>>
  PROVE  (IF w = "saved" THEN u \o c ELSE b \o u \o c)
           = IF w \in {"select", "exited", "saved"} THEN u \o c ELSE b \o c
<1>1. CASE w \in {"select", "exited"}
  BY <1>1, ConcatEmptySeq
<1>2. CASE w \notin {"select", "exited"}
  BY <1>2, ConcatEmptySeq
<1>. QED
  BY <1>1, <1>2

\* Between flushes, and once a batch is acknowledged, the writer owes what the
\* buffer and the channel hold; while it saves, what the batch and the channel hold.
OwedNow(k) == IF worker[k] \in {"select", "exited", "saved"}
                THEN buffer[k] \o channel[k]
                ELSE batch[k] \o channel[k]

LEMMA OwedIs ==
  ASSUME TypeOK, Phase, NEW k \in Kind
  PROVE  /\ channel[k] \in Seq(Records) /\ buffer[k] \in Seq(Records) /\ batch[k] \in Seq(Records)
         /\ Owed(k) = OwedNow(k)
<1>1. channel[k] \in Seq(Records) /\ buffer[k] \in Seq(Records) /\ batch[k] \in Seq(Records)
  BY DEF TypeOK, Records
<1>2. /\ worker[k] \in {"select", "exited"} => batch[k] = <<>>
      /\ worker[k] # "select" => buffer[k] = <<>>
  BY DEF Phase
<1>. QED
  BY <1>1, <1>2, OwedForm DEF Owed, Pending, OwedNow

LEMMA OwedWillBe ==
  ASSUME TypeOK', Phase', NEW k \in Kind
  PROVE  Owed(k)' = OwedNow(k)'
<1>1. channel'[k] \in Seq(Records) /\ buffer'[k] \in Seq(Records) /\ batch'[k] \in Seq(Records)
  BY DEF TypeOK, Records
<1>2. /\ worker'[k] \in {"select", "exited"} => batch'[k] = <<>>
      /\ worker'[k] # "select" => buffer'[k] = <<>>
  BY DEF Phase
<1>. QED
  BY <1>1, <1>2, OwedForm DEF Owed, Pending, OwedNow

LEMMA OwedUpdate ==
  ASSUME NEW k \in Kind, NEW x, Owed(k)' = x,
         \A j \in Kind \ {k} : Owed(j)' = Owed(j)
  PROVE  [j \in Kind |-> Owed(j)]' = [[j \in Kind |-> Owed(j)] EXCEPT ![k] = x]
OBVIOUS

LEMMA OwedStays ==
  ASSUME \A k \in Kind : Owed(k)' = Owed(k), saved' = saved, Cancelled' = Cancelled
  PROVE  UNCHANGED Promise!vars
BY DEF Promise!vars

LEMMA DebtBound ==
  ASSUME NEW u \in Nat, NEW b \in Nat, NEW c \in Nat,
         u < BatchSize, b <= BatchSize, c < ChannelBuffer
  PROVE  u + c < ChannelBuffer + BatchSize /\ b + c < ChannelBuffer + BatchSize /\ b <= b + c
BY BatchAssumption, ChannelAssumption

\* A send into a channel with room is an Accept of the promise.
LEMMA SendAccepts ==
  ASSUME SafeInv, NEW k \in Kind, NEW x \in Records, SendOn(k, x),
         UNCHANGED <<stop, workerVars>>
  PROVE  Promise!Next
<1>1. TypeOK /\ Phase /\ WithinBounds
  BY DEF SafeInv
<1>. USE DEF workerVars
<1>2. /\ channel'[k] = Append(channel[k], x)
      /\ \A j \in Kind \ {k} : channel'[j] = channel[j]
      /\ Len(channel[k]) < ChannelBuffer
  BY <1>1 DEF SendOn, TypeOK
<1>3. \A j \in Kind \ {k} : Owed(j)' = Owed(j)
  BY <1>2 DEF Owed, Pending
<1>4. Owed(k)' = Append(Owed(k), x)
  <2>1. channel[k] \in Seq(Records) /\ buffer[k] \in Seq(Records) /\ batch[k] \in Seq(Records)
    BY <1>1, OwedIs
  <2>. DEFINE b == batch[k]
              u == buffer[k]
              c == channel[k]
  <2>2. b \in Seq(Records) /\ u \in Seq(Records) /\ c \in Seq(Records)
    BY <2>1
  <2>3. channel'[k] = Append(c, x) /\ batch'[k] = b /\ buffer'[k] = u /\ worker' = worker
    BY <1>2
  <2>4. /\ Owed(k)  = IF worker[k] = "saved" THEN u \o c ELSE b \o u \o c
        /\ Owed(k)' = IF worker[k] = "saved" THEN u \o Append(c, x) ELSE b \o u \o Append(c, x)
    BY <2>3 DEF Owed, Pending
  <2>. HIDE DEF b, u, c
  <2>5. /\ u \o Append(c, x) = Append(u \o c, x)
        /\ b \o u \o Append(c, x) = Append(b \o u \o c, x)
    <3>1. x \in Records
      OBVIOUS
    <3>2. \A p, q, r \in Seq(Records) : \A y \in Records :
            q \o Append(r, y) = Append(q \o r, y) /\ p \o q \o Append(r, y) = Append(p \o q \o r, y)
      BY AppendAfterTwo
    <3>. QED
      BY ONLY <2>2, <3>1, <3>2
  <2>. QED
    BY <2>4, <2>5
<1>5. Len(Owed(k)) < ChannelBuffer + BatchSize
  <2>1. /\ Len(buffer[k] \o channel[k]) = Len(buffer[k]) + Len(channel[k])
        /\ Len(batch[k] \o channel[k]) = Len(batch[k]) + Len(channel[k])
        /\ Len(buffer[k]) \in Nat /\ Len(batch[k]) \in Nat /\ Len(channel[k]) \in Nat
    BY <1>1, OwedIs, ConcatProperties, LenProperties
  <2>2. Len(buffer[k]) < BatchSize /\ Len(batch[k]) <= BatchSize
    BY <1>1 DEF WithinBounds
  <2>3. Owed(k) = buffer[k] \o channel[k] \/ Owed(k) = batch[k] \o channel[k]
    BY <1>1, OwedIs DEF OwedNow
  <2>4. Len(Owed(k)) = Len(buffer[k]) + Len(channel[k]) \/ Len(Owed(k)) = Len(batch[k]) + Len(channel[k])
    BY <2>1, <2>3
  <2>. QED
    BY <1>2, <2>1, <2>2, <2>4, DebtBound
<1>6. Promise!Accept(k, x)
  BY <1>3, <1>4, <1>5, OwedUpdate DEF Promise!Accept, Cancelled
<1>. QED
  BY <1>6 DEF Promise!Next, Records

LEMMA WorkerKeepsPromise ==
  ASSUME SafeInv, SafeInv', Loaded, NEW k \in Kind, Worker(k)
  PROVE  [Promise!Next]_(Promise!vars)
<1>1. /\ TypeOK /\ Phase /\ WithinBounds
      /\ TypeOK' /\ Phase'
  BY DEF SafeInv
<1>2. /\ OthersStay(k) /\ UNCHANGED stop
      /\ \/ Gathers(k) \/ Flushes(k) \/ Commits(k) \/ Misses(k)
         \/ TriesAgain(k) \/ Ends(k) \/ Rests(k)
  BY WorkerStepOf
<1>3. \A j \in Kind \ {k} : Owed(j)' = Owed(j)
  BY <1>2 DEF OthersStay, Owed, Pending
<1>4. channel[k] \in Seq(Records) /\ buffer[k] \in Seq(Records) /\ batch[k] \in Seq(Records)
  BY <1>1, OwedIs
<1>5. Cancelled' = Cancelled
  BY <1>2 DEF Cancelled
<1>6. Owed(k) = IF worker[k] \in {"select", "exited", "saved"}
                  THEN buffer[k] \o channel[k] ELSE batch[k] \o channel[k]
  BY <1>1, OwedIs DEF OwedNow
<1>7. Owed(k)' = IF worker'[k] \in {"select", "exited", "saved"}
                   THEN buffer'[k] \o channel'[k] ELSE batch'[k] \o channel'[k]
  BY <1>1, OwedWillBe DEF OwedNow
<1>8. saved'[k] = saved[k] => saved' = saved
  <2>1. saved = [j \in Kind |-> saved[j]] /\ saved' = [j \in Kind |-> saved'[j]]
    BY <1>1 DEF TypeOK
  <2>. QED
    BY <1>2, <2>1 DEF OthersStay
<1>9. ASSUME Owed(k)' = Owed(k), saved'[k] = saved[k]
      PROVE  UNCHANGED Promise!vars
  <2>1. \A j \in Kind : Owed(j)' = Owed(j)
    BY <1>3, <1>9
  <2>. QED
    BY <1>5, <1>8, <1>9, <2>1, OwedStays
\* The oldest records owed are those of the batch.
<1>10. ASSUME worker[k] \in {"saving", "failed"}
       PROVE  /\ Len(batch[k]) \in Promise!Batches(k)
              /\ Promise!Oldest(k, Len(batch[k])) = batch[k]
              /\ SubSeq(Owed(k), Len(batch[k]) + 1, Len(Owed(k))) = channel[k]
  <2>1. Owed(k) = batch[k] \o channel[k]
    BY <1>6, <1>10
  <2>2. /\ Len(Owed(k)) = Len(batch[k]) + Len(channel[k])
        /\ Len(batch[k]) \in Nat \ {0} /\ Len(channel[k]) \in Nat
    BY <1>4, <1>10, <2>1, ConcatProperties, LenProperties, EmptySeq DEF Loaded
  <2>3. Len(batch[k]) <= BatchSize
    BY <1>1 DEF WithinBounds
  <2>4. /\ SubSeq(batch[k] \o channel[k], 1, Len(batch[k])) = batch[k]
        /\ SubSeq(batch[k] \o channel[k], Len(batch[k]) + 1, Len(batch[k] \o channel[k])) = channel[k]
    BY <1>4, PartsOfConcat
  <2>5. Len(batch[k]) \in Promise!Batches(k)
    <3>1. Len([j \in Kind |-> Owed(j)][k]) = Len(batch[k]) + Len(channel[k])
      BY <2>2
    <3>2. Len(batch[k]) \in 1..BatchSize
      BY <2>2, <2>3, BatchAssumption
    <3>3. \A m \in Nat, n \in Nat : m <= m + n
      OBVIOUS
    <3>. QED
      BY <2>2, <3>1, <3>2, <3>3 DEF Promise!Batches
  <2>. QED
    BY <2>1, <2>4, <2>5 DEF Promise!Oldest
<1>11. CASE Gathers(k)
  <2>1. buffer[k] \o channel[k] = Append(buffer[k], Head(channel[k])) \o Tail(channel[k])
    <3>1. channel[k] # <<>>
      BY <1>11 DEF Gathers
    <3>2. buffer[k] \in Seq(Records) /\ channel[k] \in Seq(Records)
      BY <1>4
    <3>. QED
      BY ONLY <3>1, <3>2, GatherKeepsOrder
  <2>2. Owed(k)' = Owed(k)
    BY <1>6, <1>7, <1>11, <2>1 DEF Gathers
  <2>. QED
    BY <1>9, <1>11, <2>2 DEF Gathers
<1>12. CASE Flushes(k)
  <2>1. Owed(k)' = Owed(k)
    BY <1>6, <1>7, <1>12 DEF Flushes
  <2>. QED
    BY <1>9, <1>12, <2>1 DEF Flushes
<1>13. CASE Commits(k)
  <2>1. saved' = [saved EXCEPT ![k] = @ \o batch[k]]
    BY <1>1, <1>2, <1>13 DEF Commits, OthersStay, TypeOK
  <2>2. CASE worker'[k] = "saved"
    <3>1. buffer[k] = <<>>
      BY <1>1, <1>13 DEF Commits, Phase
    <3>2. Owed(k)' = channel[k]
      BY <1>4, <1>7, <1>13, <2>2, <3>1, ConcatEmptySeq DEF Commits, RecordsStay
    <3>3. Promise!Write(k, Len(batch[k]))
      BY <1>3, <1>5, <1>10, <1>13, <2>1, <3>2, OwedUpdate
         DEF Commits, Promise!Write, Promise!Leave
    <3>. QED
      BY <1>10, <1>13, <3>3 DEF Commits, Promise!Next, Promise!Settle
  <2>3. CASE LostAcks /\ worker'[k] \in {"backoff", "failed"}
    <3>1. Owed(k)' = Owed(k)
      BY <1>6, <1>7, <1>13, <2>3 DEF Commits, RecordsStay
    <3>2. [j \in Kind |-> Owed(j)]' = [j \in Kind |-> Owed(j)]
      BY <1>3, <3>1
    <3>3. Promise!WriteAndOwe(k, Len(batch[k]))
      BY <1>5, <1>10, <1>13, <2>1, <2>3, <3>2 DEF Commits, Promise!WriteAndOwe
    <3>. QED
      BY <1>10, <1>13, <3>3 DEF Commits, Promise!Next
  <2>. QED
    BY <1>13, <2>2, <2>3 DEF Commits
<1>14. CASE Misses(k)
  <2>1. Owed(k)' = Owed(k)
    BY <1>6, <1>7, <1>14 DEF Misses, RecordsStay
  <2>. QED
    BY <1>9, <1>14, <2>1 DEF Misses
<1>15. CASE TriesAgain(k)
  <2>1. Owed(k)' = Owed(k)
    BY <1>6, <1>7, <1>15 DEF TriesAgain, RecordsStay
  <2>. QED
    BY <1>9, <1>15, <2>1 DEF TriesAgain
<1>16. CASE Ends(k)
  <2>1. CASE worker[k] = "saved"
    <3>1. Owed(k)' = Owed(k)
      BY <1>6, <1>7, <1>16, <2>1 DEF Ends
    <3>. QED
      BY <1>9, <1>16, <3>1 DEF Ends
  <2>2. CASE worker[k] = "failed"
    <3>1. buffer[k] = <<>>
      BY <1>1, <2>2 DEF Phase
    <3>2. Owed(k)' = channel[k]
      BY <1>4, <1>7, <1>16, <3>1, ConcatEmptySeq DEF Ends
    <3>3. saved' = saved
      BY <1>8, <1>16 DEF Ends
    <3>4. Promise!GiveUp(k, Len(batch[k]))
      BY <1>3, <1>5, <1>10, <2>2, <3>2, <3>3, OwedUpdate DEF Promise!GiveUp, Promise!Leave
    <3>. QED
      BY <1>10, <2>2, <3>4 DEF Promise!Next, Promise!Settle
  <2>. QED
    BY <1>16, <2>1, <2>2 DEF Ends
<1>17. CASE Rests(k)
  <2>1. CASE worker[k] = "select" /\ worker'[k] = "exited"
    BY <1>6, <1>7, <1>9, <1>17, <2>1 DEF Rests, RecordsStay
  <2>2. CASE worker[k] = "backoff" /\ worker'[k] = "failed"
    BY <1>6, <1>7, <1>9, <1>17, <2>2 DEF Rests, RecordsStay
  <2>3. CASE worker'[k] = worker[k]
    BY <1>6, <1>7, <1>9, <1>17, <2>3 DEF Rests, RecordsStay
  <2>. QED
    BY <1>17, <2>1, <2>2, <2>3 DEF Rests
<1>. QED
  BY <1>2, <1>11, <1>12, <1>13, <1>14, <1>15, <1>16, <1>17

LEMMA InitPromises == Init => Promise!Init
<1>. SUFFICES ASSUME Init
              PROVE  Promise!Init
  OBVIOUS
<1>1. \A k \in Kind : Owed(k) = <<>>
  <2>. TAKE k \in Kind
  <2>1. <<>> \in Seq(Records)
    BY EmptySeq
  <2>2. <<>> \o <<>> = <<>>
    BY <2>1, ConcatEmptySeq
  <2>. QED
    BY <2>2 DEF Init, Owed, Pending
<1>. QED
  BY <1>1 DEF Init, Promise!Init, Cancelled

LEMMA NextKeepsPromise ==
  SafeInv /\ SafeInv' /\ Loaded /\ [Next]_vars => [Promise!Next]_(Promise!vars)
<1>. SUFFICES ASSUME SafeInv, SafeInv', Loaded, [Next]_vars
              PROVE  [Promise!Next]_(Promise!vars)
  OBVIOUS
<1>1. CASE UNCHANGED <<channel, buffer, batch, worker, saved>> /\ Cancelled' = Cancelled
  BY <1>1, OwedStays DEF Owed, Pending
<1>2. ASSUME NEW i \in Item, Queue(i)
      PROVE  [Promise!Next]_(Promise!vars)
  <2>1. CASE QueueSend(i)
    BY <2>1, SendAccepts, KindAssumption DEF QueueSend, Records
  <2>2. CASE QueueCount(i) \/ QueueRejectFull(i) \/ QueueRejectStopping(i) \/ QueuePanics(i)
    BY <1>1, <2>2 DEF QueueCount, QueueRejectFull, QueueRejectStopping, QueuePanics,
                      workerVars, Cancelled
  <2>. QED
    BY <1>2, <2>1, <2>2 DEF Queue
<1>3. CASE Flush
  <2>1. FlushTarget \in Kind
    BY DEF FlushTarget, Kind
  <2>2. CASE FlushSend
    BY <2>1, <2>2, SendAccepts DEF FlushSend, Records
  <2>3. CASE FlushCall \/ FlushTimeout \/ FlushPanics
    BY <1>1, <2>3 DEF FlushCall, FlushTimeout, FlushPanics, workerVars, Cancelled
  <2>. QED
    BY <1>3, <2>2, <2>3 DEF Flush
<1>4. CASE StopCancel
  <2>1. \A k \in Kind : Owed(k)' = Owed(k)
    BY <1>4 DEF StopCancel, workerVars, Owed, Pending
  <2>2. Promise!Close
    BY <1>4, <2>1 DEF StopCancel, workerVars, Promise!Close, Cancelled
  <2>. QED
    BY <2>2 DEF Promise!Next
<1>5. CASE StopClose
  BY <1>1, <1>5 DEF StopClose, workerVars, Cancelled
<1>6. CASE UNCHANGED vars
  BY <1>1, <1>6 DEF vars, Cancelled
<1>. QED
  BY <1>2, <1>3, <1>4, <1>5, <1>6, WorkerKeepsPromise DEF Next, Terminated

\* The batch writer (QueuePilot, pilotWorker, flushPilots, Stop, and their twins)
\* keeps the safety of the write-behind promise: what it owes MySQL leaves oldest
\* first, in batches of at most BatchSize, into the table or nowhere; the debt
\* never exceeds a full channel and a batch; nothing is written after Stop.
THEOREM KeepsPromise == Spec => Promise!Safety
<1>. Promise!Safety <=> Promise!Init /\ [][Promise!Next]_(Promise!vars)
  BY DEF Promise!Safety
<1>. QED
  BY InitSafe, InitLoaded, InitPromises, NextSafe, NextLoaded, NextKeepsPromise, PTL DEF Spec

-----------------------------------------------------------------------------
(* A record is written once.                                                *)

Places(s, i) == {n \in DOMAIN s : s[n] = i}
Times(s, i)  == Cardinality(Places(s, i))

LEMMA TimesIsCount ==
  ASSUME NEW R, NEW s \in Seq(R), NEW i
  PROVE  IsFiniteSet(Places(s, i)) /\ Times(s, i) \in Nat /\ Places(s, i) \subseteq 1..Len(s)
<1>1. Places(s, i) \subseteq 1..Len(s) /\ Len(s) \in Nat
  BY LenProperties DEF Places
<1>2. IsFiniteSet(1..Len(s))
  BY <1>1, FS_Interval
<1>. QED
  BY <1>1, <1>2, FS_Subset, FS_CardinalityType DEF Times

LEMMA TimesConcat ==
  ASSUME NEW R, NEW s \in Seq(R), NEW t \in Seq(R), NEW i
  PROVE  Times(s \o t, i) = Times(s, i) + Times(t, i)
<1>. DEFINE c == s \o t
            a == Len(s)
            b == Len(t)
            A == Places(s, i)
            B == Places(t, i)
            C == {n + a : n \in B}
<1>1. /\ c \in Seq(R) /\ Len(c) = a + b /\ a \in Nat /\ b \in Nat
      /\ DOMAIN c = 1..a + b /\ DOMAIN s = 1..a /\ DOMAIN t = 1..b
      /\ \A n \in 1..a + b : c[n] = IF n <= a THEN s[n] ELSE t[n - a]
  BY ConcatProperties, LenProperties
<1>2. IsFiniteSet(A) /\ IsFiniteSet(B) /\ A \subseteq 1..a /\ B \subseteq 1..b
  BY TimesIsCount
<1>3. Places(c, i) = A \cup C
  <2>1. ASSUME NEW n \in Places(c, i)
        PROVE  n \in A \cup C
    <3>1. n \in 1..a + b /\ c[n] = i
      BY <1>1, <2>1 DEF Places
    <3>2. CASE n <= a
      BY <1>1, <3>1, <3>2 DEF Places
    <3>3. CASE n > a
      <4>1. n - a \in 1..b /\ (n - a) + a = n /\ t[n - a] = i
        BY <1>1, <3>1, <3>3
      <4>2. n - a \in B
        BY <1>1, <4>1 DEF Places
      <4>. QED
        BY <4>1, <4>2
    <3>. QED
      BY <1>1, <3>1, <3>2, <3>3
  <2>2. ASSUME NEW n \in A
        PROVE  n \in Places(c, i)
    BY <1>1, <2>2 DEF Places
  <2>3. ASSUME NEW n \in C
        PROVE  n \in Places(c, i)
    <3>1. PICK m \in B : n = m + a
      BY <2>3
    <3>2. m \in 1..b /\ t[m] = i
      BY <1>1, <3>1 DEF Places
    <3>3. n \in 1..a + b /\ ~(n <= a) /\ n - a = m
      BY <1>1, <3>1, <3>2
    <3>. QED
      BY <1>1, <3>2, <3>3 DEF Places
  <2>. QED
    BY <2>1, <2>2, <2>3
<1>4. A \cap C = {}
  BY <1>1, <1>2
<1>5. IsFiniteSet(C) /\ Cardinality(C) = Cardinality(B)
  <2>. DEFINE f == [n \in B |-> n + a]
  <2>1. f \in Bijection(B, C)
    <3>1. f \in [B -> C] /\ \A y \in C : \E x \in B : f[x] = y
      OBVIOUS
    <3>2. \A x, y \in B : f[x] = f[y] => x = y
      BY <1>1, <1>2
    <3>. QED
      BY <3>1, <3>2 DEF Bijection, Injection, Surjection, IsInjective
  <2>2. ExistsBijection(B, C)
    BY <2>1 DEF ExistsBijection
  <2>. QED
    BY <1>2, <2>2, FS_Bijection
<1>. HIDE DEF A, B, C
<1>6. Cardinality(A \cup C) = Cardinality(A) + Cardinality(C) - Cardinality({})
  <2>1. Cardinality(A \cup C) = Cardinality(A) + Cardinality(C) - Cardinality(A \cap C)
    BY <1>2, <1>5, FS_Union
  <2>. QED
    BY <1>4, <2>1
<1>7. Cardinality({}) = 0 /\ Cardinality(A) \in Nat /\ Cardinality(C) \in Nat
  BY <1>2, <1>5, FS_EmptySet, FS_CardinalityType
<1>. QED
  BY <1>3, <1>5, <1>6, <1>7 DEF Times, A, B

LEMMA TimesOfOne ==
  ASSUME NEW x, NEW i
  PROVE  /\ Times(<<>>, i) = 0
         /\ Times(<<x>>, i) = IF x = i THEN 1 ELSE 0
<1>1. Places(<<>>, i) = {} /\ Places(<<x>>, i) = IF x = i THEN {1} ELSE {}
  BY DEF Places
<1>. QED
  BY <1>1, FS_EmptySet, FS_Singleton DEF Times

LEMMA TimesAppend ==
  ASSUME NEW R, NEW s \in Seq(R), NEW x \in R, NEW i
  PROVE  Times(Append(s, x), i) = Times(s, i) + (IF x = i THEN 1 ELSE 0)
<1>. DEFINE one == <<x>>
<1>1. Append(s, x) = s \o one /\ one \in Seq(R)
  BY AppendIsConcat
<1>2. Times(one, i) = IF x = i THEN 1 ELSE 0
  BY TimesOfOne
<1>. HIDE DEF one
<1>3. Times(s \o one, i) = Times(s, i) + Times(one, i)
  BY <1>1, TimesConcat
<1>. QED
  BY <1>1, <1>2, <1>3

\* Gathering a record from the channel into the buffer keeps the number of times
\* it is in the two.
LEMMA TimesGather ==
  ASSUME NEW R, NEW s \in Seq(R), NEW t \in Seq(R), t # <<>>, NEW i
  PROVE  Times(Append(s, Head(t)), i) + Times(Tail(t), i) = Times(s, i) + Times(t, i)
<1>1. Head(t) \in R /\ Tail(t) \in Seq(R)
  BY HeadTailProperties
<1>. DEFINE u == Append(s, Head(t))
            v == Tail(t)
<1>2. u \in Seq(R) /\ v \in Seq(R)
  BY <1>1, AppendProperties
<1>3. u \o v = s \o t
  BY GatherKeepsOrder
<1>. HIDE DEF u, v
<1>4. Times(u \o v, i) = Times(u, i) + Times(v, i)
  BY <1>2, TimesConcat
<1>5. Times(s \o t, i) = Times(s, i) + Times(t, i)
  BY TimesConcat
<1>. QED
  BY <1>3, <1>4, <1>5 DEF u, v

Limit    == IF LostAcks THEN MaxRetries + 1 ELSE 1
Tries(n) == IF LostAcks THEN n ELSE 0

\* A record whose call has status st, whose worker is at wk in attempt at, and
\* that is b times in the batch, u in the buffer, c in the channel and w in the
\* table: it is in one place, was not written before it is in a batch, and in a
\* batch at most once per attempt that has ended.
OnceOf(st, wk, at, b, u, c, w) ==
  /\ b + u + c <= 1
  /\ st \notin {"sent", "queued"} => b + u + c + w = 0
  /\ u + c > 0 => w = 0
  /\ b > 0 /\ wk = "saving"  => w <= Tries(at)
  /\ b > 0 /\ wk = "backoff" => w <= Tries(at + 1)
  /\ w <= Limit

ItemOnce(i) ==
  OnceOf(status[i], worker[KindOf[i]], attempt[KindOf[i]],
         Times(batch[KindOf[i]], i), Times(buffer[KindOf[i]], i),
         Times(channel[KindOf[i]], i), Times(saved[KindOf[i]], i))

OnceInv == \A i \in Item : ItemOnce(i)

LEMMA ItemTimes ==
  ASSUME TypeOK, NEW i \in Item, NEW k \in Kind
  PROVE  /\ channel[k] \in Seq(Records) /\ buffer[k] \in Seq(Records)
         /\ batch[k] \in Seq(Records) /\ saved[k] \in Seq(Records)
         /\ Times(batch[k], i) \in Nat /\ Times(buffer[k], i) \in Nat
         /\ Times(channel[k], i) \in Nat /\ Times(saved[k], i) \in Nat
         /\ attempt[k] \in 0..MaxRetries
<1>1. saved[k] \in Seq(Item) /\ Item \subseteq Records
  BY DEF TypeOK, Records
<1>2. saved[k] \in Seq(Records)
  BY <1>1, SeqMonotonic
<1>3. channel[k] \in Seq(Records) /\ buffer[k] \in Seq(Records) /\ batch[k] \in Seq(Records)
  BY DEF TypeOK, Records
<1>4. attempt[k] \in 0..MaxRetries
  BY DEF TypeOK
<1>. QED
  BY <1>2, <1>3, <1>4, TimesIsCount

LEMMA InitOnce == Init => OnceInv
<1>. SUFFICES ASSUME Init, NEW i \in Item
              PROVE  ItemOnce(i)
  BY DEF OnceInv
<1>1. KindOf[i] \in Kind
  BY KindAssumption
<1>2. Times(<<>>, i) = 0
  BY TimesOfOne
<1>. QED
  BY <1>1, <1>2, RetryAssumption DEF Init, ItemOnce, OnceOf, Limit, Tries

\* A send puts an item once more into the channel of its kind, a nil nowhere.
LEMMA SendOnce ==
  ASSUME SafeInv, OnceInv, NEW i \in Item, NEW k \in Kind, NEW x \in Records, SendOn(k, x),
         UNCHANGED <<workerVars>>,
         x # i, status'[i] = status[i]
  PROVE  ItemOnce(i)'
<1>. DEFINE m == KindOf[i]
<1>1. m \in Kind /\ TypeOK
  BY KindAssumption DEF SafeInv
<1>2. channel[m] \in Seq(Records) /\ Times(channel[m], i) \in Nat
  BY <1>1, ItemTimes
<1>3. channel'[m] = channel[m] \/ channel'[m] = Append(channel[m], x)
  BY <1>1 DEF SendOn, TypeOK
<1>4. Times(Append(channel[m], x), i) = Times(channel[m], i) + 0
  BY <1>2, TimesAppend
<1>5. Times(channel'[m], i) = Times(channel[m], i)
  <2>1. \A n \in Nat : n + 0 = n
    OBVIOUS
  <2>. QED
    BY <1>2, <1>3, <1>4, <2>1
<1>. QED
  BY <1>5 DEF OnceInv, ItemOnce, workerVars

LEMMA QueueOnce ==
  ASSUME SafeInv, OnceInv, NEW q \in Item, Queue(q)
  PROVE  OnceInv'
<1>. SUFFICES ASSUME NEW i \in Item
              PROVE  ItemOnce(i)'
  BY DEF OnceInv
<1>1. TypeOK /\ KindOf[i] \in Kind /\ KindOf[q] \in Kind /\ ItemOnce(i)
  BY KindAssumption DEF SafeInv, OnceInv
<1>2. CASE i # q
  <2>1. status'[i] = status[i]
    BY <1>1, <1>2 DEF Queue, QueueSend, QueueCount, QueueRejectFull, QueueRejectStopping,
                      QueuePanics, callerVars, TypeOK
  <2>2. CASE QueueSend(q)
    BY <1>1, <1>2, <2>1, <2>2, SendOnce DEF QueueSend, Records
  <2>3. CASE QueueCount(q) \/ QueueRejectFull(q) \/ QueueRejectStopping(q) \/ QueuePanics(q)
    BY <1>1, <2>1, <2>3 DEF QueueCount, QueueRejectFull, QueueRejectStopping, QueuePanics,
                            workerVars, ItemOnce
  <2>. QED
    BY <2>2, <2>3 DEF Queue
<1>3. CASE i = q
  <2>. DEFINE k == KindOf[i]
  <2>1. /\ attempt[k] \in 0..MaxRetries /\ channel[k] \in Seq(Records)
        /\ Times(batch[k], i) \in Nat /\ Times(buffer[k], i) \in Nat
        /\ Times(channel[k], i) \in Nat /\ Times(saved[k], i) \in Nat
    BY <1>1, ItemTimes
  <2>2. OnceOf(status[i], worker[k], attempt[k], Times(batch[k], i), Times(buffer[k], i),
               Times(channel[k], i), Times(saved[k], i))
    BY <1>1 DEF ItemOnce
  <2>3. CASE QueueSend(q)
    <3>1. /\ status[i] = "new" /\ status'[i] = "sent"
          /\ channel'[k] = Append(channel[k], i)
          /\ UNCHANGED workerVars
      BY <1>1, <1>3, <2>3 DEF QueueSend, SendOn, TypeOK
    <3>2. Times(Append(channel[k], i), i) = Times(channel[k], i) + 1
      BY <2>1, TimesAppend DEF Records
    <3>3. OnceOf("sent", worker[k], attempt[k], Times(batch[k], i), Times(buffer[k], i),
                 Times(channel[k], i) + 1, Times(saved[k], i))
      BY <2>1, <2>2, <3>1, RetryAssumption, EnvironmentAssumption
        DEF OnceOf, Limit, Tries
    <3>. QED
      BY <3>1, <3>2, <3>3 DEF ItemOnce, workerVars
  <2>4. CASE QueuePanics(q)
    BY <1>1, <2>4 DEF QueuePanics, callerVars, workerVars, ItemOnce
  <2>5. CASE QueueCount(q) \/ QueueRejectFull(q) \/ QueueRejectStopping(q)
    <3>1. /\ status[i] \in {"new", "sent"} /\ status'[i] \in {"queued", "full", "stopping"}
          /\ status[i] = "new" \/ status'[i] = "queued"
          /\ UNCHANGED <<channel, workerVars>>
      BY <1>1, <1>3, <2>5 DEF QueueCount, QueueRejectFull, QueueRejectStopping, TypeOK
    <3>2. OnceOf(status'[i], worker[k], attempt[k], Times(batch[k], i), Times(buffer[k], i),
                 Times(channel[k], i), Times(saved[k], i))
      BY <2>1, <2>2, <3>1, RetryAssumption, EnvironmentAssumption
        DEF OnceOf, Limit, Tries
    <3>. QED
      BY <3>1, <3>2 DEF ItemOnce, workerVars
  <2>. QED
    BY <1>3, <2>3, <2>4, <2>5 DEF Queue
<1>. QED
  BY <1>2, <1>3

LEMMA WorkerOnce ==
  ASSUME SafeInv, OnceInv, NEW k \in Kind, Worker(k)
  PROVE  OnceInv'
<1>. SUFFICES ASSUME NEW i \in Item
              PROVE  ItemOnce(i)'
  BY DEF OnceInv
<1>1. TypeOK /\ Phase /\ KindOf[i] \in Kind /\ ItemOnce(i)
  BY KindAssumption DEF SafeInv, OnceInv
<1>2. /\ OthersStay(k) /\ status' = status
      /\ \/ Gathers(k) \/ Flushes(k) \/ Commits(k) \/ Misses(k)
         \/ TriesAgain(k) \/ Ends(k) \/ Rests(k)
  BY WorkerStepOf
<1>3. CASE KindOf[i] # k
  BY <1>1, <1>2, <1>3 DEF OthersStay, ItemOnce
<1>4. CASE KindOf[i] = k
  <2>. DEFINE b == Times(batch[k], i)
              u == Times(buffer[k], i)
              c == Times(channel[k], i)
              w == Times(saved[k], i)
              at == attempt[k]
              st == status[i]
  <2>1. /\ at \in 0..MaxRetries /\ b \in Nat /\ u \in Nat /\ c \in Nat /\ w \in Nat
        /\ channel[k] \in Seq(Records) /\ buffer[k] \in Seq(Records)
        /\ batch[k] \in Seq(Records) /\ saved[k] \in Seq(Records)
    BY <1>1, ItemTimes
  <2>2. OnceOf(st, worker[k], at, b, u, c, w)
    BY <1>1, <1>4 DEF ItemOnce
  <2>3. worker[k] = "select" => b = 0
    BY <1>1, TimesOfOne DEF Phase
  <2>4. ItemOnce(i)' = OnceOf(st, worker'[k], attempt'[k], Times(batch'[k], i), Times(buffer'[k], i),
                              Times(channel'[k], i), Times(saved'[k], i))
    BY <1>2, <1>4 DEF ItemOnce
  <2>5. Times(<<>>, i) = 0
    BY TimesOfOne
  <2>6. CASE Gathers(k)
    <3>. DEFINE v == Times(Append(buffer[k], Head(channel[k])), i)
                d == Times(Tail(channel[k]), i)
    <3>1. v \in Nat /\ d \in Nat
      <4>1. /\ Append(buffer[k], Head(channel[k])) \in Seq(Records)
            /\ Tail(channel[k]) \in Seq(Records)
        <5>1. channel[k] # <<>>
          BY <2>6 DEF Gathers
        <5>2. Head(channel[k]) \in Records /\ Tail(channel[k]) \in Seq(Records)
          BY <2>1, <5>1, HeadTailProperties
        <5>3. buffer[k] \in Seq(Records)
          BY <2>1
        <5>. QED
          BY ONLY <5>2, <5>3, AppendProperties
      <4>. QED
        BY <4>1, TimesIsCount
    <3>2. v + d = u + c
      <4>1. channel[k] # <<>>
        BY <2>6 DEF Gathers
      <4>2. buffer[k] \in Seq(Records) /\ channel[k] \in Seq(Records)
        BY <2>1
      <4>. QED
        BY ONLY <4>1, <4>2, TimesGather
    <3>3. worker[k] = "select" /\ channel'[k] = Tail(channel[k]) /\ saved'[k] = saved[k]
      BY <2>6 DEF Gathers
    <3>4. \/ /\ buffer'[k] = Append(buffer[k], Head(channel[k])) /\ batch'[k] = batch[k]
             /\ worker'[k] = "select" /\ attempt'[k] = attempt[k]
          \/ /\ buffer'[k] = <<>> /\ batch'[k] = Append(buffer[k], Head(channel[k]))
             /\ worker'[k] = "saving" /\ attempt'[k] = 0
      BY <2>6 DEF Gathers
    <3>. HIDE DEF v, d, b, u, c, w, at, st
    <3>5. OnceOf(st, "select", at, b, v, d, w) /\ OnceOf(st, "saving", 0, v, 0, d, w)
      BY <2>1, <2>2, <2>3, <3>1, <3>2, <3>3, RetryAssumption, EnvironmentAssumption
        DEF OnceOf, Limit, Tries
    <3>. QED
      BY <2>4, <2>5, <3>3, <3>4, <3>5 DEF v, d, b, u, c, w, at, st
  <2>7. CASE Flushes(k)
    <3>1. OnceOf(st, "saving", 0, u, 0, c, w)
      <4>1. b = 0
        BY <2>3, <2>7 DEF Flushes
      <4>. HIDE DEF b, u, c, w, at, st
      <4>. QED
        BY <2>1, <2>2, <4>1, RetryAssumption, EnvironmentAssumption
        DEF OnceOf, Limit, Tries
    <3>. QED
      BY <2>4, <2>5, <2>7, <3>1 DEF Flushes
  <2>8. CASE Commits(k)
    <3>1. /\ worker[k] = "saving" /\ RecordsStay(k) /\ attempt'[k] = attempt[k]
          /\ saved'[k] = saved[k] \o batch[k]
          /\ worker'[k] = "saved" \/ (LostAcks /\ worker'[k] \in {"backoff", "failed"})
      BY <2>8 DEF Commits
    <3>2. Times(saved'[k], i) = w + b
      BY <2>1, <3>1, TimesConcat
    <3>3. OnceOf(st, worker'[k], at, b, u, c, w + b)
      <4>. HIDE DEF b, u, c, w, at, st
      <4>. QED
        BY <2>1, <2>2, <3>1, RetryAssumption, EnvironmentAssumption
        DEF OnceOf, Limit, Tries
    <3>. QED
      BY <2>4, <3>1, <3>2, <3>3 DEF RecordsStay
  <2>9. CASE Misses(k)
    <3>1. OnceOf(st, worker'[k], at, b, u, c, w)
      <4>1. worker[k] = "saving" /\ worker'[k] \in {"backoff", "failed"}
        BY <2>9 DEF Misses
      <4>. HIDE DEF b, u, c, w, at, st
      <4>. QED
        BY <2>1, <2>2, <4>1, RetryAssumption, EnvironmentAssumption
        DEF OnceOf, Limit, Tries
    <3>. QED
      BY <2>4, <2>9, <3>1 DEF Misses, RecordsStay
  <2>10. CASE TriesAgain(k)
    <3>1. OnceOf(st, "saving", at + 1, b, u, c, w)
      <4>1. worker[k] = "backoff"
        BY <2>10 DEF TriesAgain
      <4>. HIDE DEF b, u, c, w, at, st
      <4>. QED
        BY <2>1, <2>2, <4>1, RetryAssumption, EnvironmentAssumption
        DEF OnceOf, Limit, Tries
    <3>. QED
      BY <2>4, <2>10, <3>1 DEF TriesAgain, RecordsStay
  <2>11. CASE Ends(k)
    <3>1. OnceOf(st, worker'[k], at, 0, u, c, w)
      <4>1. worker'[k] \in {"select", "exited"}
        BY <2>11 DEF Ends
      <4>. HIDE DEF b, u, c, w, at, st
      <4>. QED
        BY <2>1, <2>2, <4>1, RetryAssumption, EnvironmentAssumption
        DEF OnceOf, Limit, Tries
    <3>. QED
      BY <2>4, <2>5, <2>11, <3>1 DEF Ends
  <2>12. CASE Rests(k)
    <3>1. OnceOf(st, worker'[k], at, b, u, c, w)
      <4>1. worker'[k] \in {"exited", "failed"} \/ worker'[k] = worker[k]
        BY <2>12 DEF Rests
      <4>. HIDE DEF b, u, c, w, at, st
      <4>. QED
        BY <2>1, <2>2, <4>1, RetryAssumption, EnvironmentAssumption
        DEF OnceOf, Limit, Tries
    <3>. QED
      BY <2>4, <2>12, <3>1 DEF Rests, RecordsStay
  <2>. QED
    BY <1>2, <2>6, <2>7, <2>8, <2>9, <2>10, <2>11, <2>12
<1>. QED
  BY <1>3, <1>4

LEMMA NextOnce == SafeInv /\ OnceInv /\ [Next]_vars => OnceInv'
<1>. SUFFICES ASSUME SafeInv, OnceInv, [Next]_vars
              PROVE  OnceInv'
  OBVIOUS
<1>1. CASE UNCHANGED <<status, channel, workerVars>>
  BY <1>1 DEF OnceInv, ItemOnce, workerVars
<1>2. CASE Flush
  <2>1. FlushTarget \in Kind
    BY DEF FlushTarget, Kind
  <2>2. CASE FlushSend
    <3>1. \A i \in Item : ItemOnce(i)'
      BY <2>1, <2>2, ItemAssumption, SendOnce DEF FlushSend, Records
    <3>. QED
      BY <3>1 DEF OnceInv
  <2>. QED
    BY <1>1, <1>2, <2>2 DEF Flush, FlushCall, FlushTimeout, FlushPanics, callerVars
<1>3. CASE StopCancel \/ StopClose
  BY <1>1, <1>3 DEF StopCancel, StopClose, callerVars
<1>4. CASE UNCHANGED vars
  BY <1>1, <1>4 DEF vars, workerVars
<1>. QED
  BY <1>2, <1>3, <1>4, QueueOnce, WorkerOnce DEF Next, Terminated

\* Whatever the interleaving of callers, worker, errors and Stop, a record handed
\* to QueuePilot, QueueThermal or QueueStation is written once; only an
\* acknowledgement lost after a commit lets retryOperation write it again, and
\* then at most once per attempt.
THEOREM RecordsAreWrittenOnce == Spec => []WrittenOnce
<1>1. OnceInv => WrittenOnce
  BY DEF OnceInv, ItemOnce, OnceOf, Limit, WrittenOnce, Times, Places
<1>. QED
  BY <1>1, InitSafe, InitOnce, NextSafe, NextOnce, PTL DEF Spec
=============================================================================
