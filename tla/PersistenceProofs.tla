-------------------------- MODULE PersistenceProofs --------------------------
(***************************************************************************)
(* That Persistence never shows a device in another one's place, and names  *)
(* the newest row, for any devices, batches, limits and restarts.           *)
(*                                                                         *)
(* The invariant follows a position on its whole way: from the report into  *)
(* Redis and the queue, from there into a batch and a row, and back from    *)
(* the rows that loadInitialData has read.                                  *)
(***************************************************************************)
EXTENDS Persistence, PilotStoreProofs, FiniteSetTheorems

-----------------------------------------------------------------------------
(* Where positions are.                                                     *)

Own(d) == [place : reported[d], at : Time]

\* In the three keys of Redis.
OwnKeys(d) ==
  /\ hash[d] # None /\ hash[d].place # None => hash[d].place \in reported[d]
  /\ index[d] # None => index[d] \in reported[d]
  /\ track[d] # None => track[d].points \in Seq(Own(d))

\* In the queue and in the batch.
OwnRecord(q) == q.device \in Device /\ q.at \in Time /\ (q.place # None => q.place \in reported[q.device])
OwnRecords(s) == \A i \in DOMAIN s : OwnRecord(s[i])

\* In the table.
OwnRow(r) == r.addr \in Device /\ r.at \in Time /\ r.place \in reported[r.addr]
OwnRows   == \A r \in rows : OwnRow(r)

WayInv ==
  /\ StoreInv
  /\ reported \in [Device -> SUBSET Place]
  /\ queue \in Seq(QueuedPilot) /\ batch \in Seq(QueuedPilot)
  /\ \A d \in Device : OwnKeys(d)
  /\ OwnRecords(queue) /\ OwnRecords(batch)
  /\ OwnRows
  /\ loading # None => loading \subseteq rows

LEMMA WayShows == WayInv => OwnPositions
<1>. SUFFICES ASSUME WayInv, NEW d \in Device
              PROVE  /\ HasPosition(d) => hash[d].place \in reported[d]
                     /\ index[d] # None => index[d] \in reported[d]
                     /\ track[d] # None => \A i \in DOMAIN track[d].points :
                                             track[d].points[i].place \in reported[d]
  BY DEF OwnPositions
<1>1. HasPosition(d) => hash[d].place \in reported[d]
  BY ShownHasHash DEF WayInv, OwnKeys
<1>2. ASSUME track[d] # None, NEW i \in DOMAIN track[d].points
      PROVE  track[d].points[i].place \in reported[d]
  <2>1. track[d].points[i] \in Own(d)
    BY <1>2 DEF WayInv, OwnKeys
  <2>. QED
    BY <2>1 DEF Own
<1>. QED
  BY <1>1, <1>2 DEF WayInv, OwnKeys

-----------------------------------------------------------------------------
(* Steps that move what is on its way.                                      *)

LEMMA SeqGrows ==
  ASSUME NEW S, NEW T, S \subseteq T, NEW s \in Seq(S)
  PROVE  s \in Seq(T)
OBVIOUS

\* A save of a position that the device has reported.
LEMMA SavedOwn ==
  ASSUME WayInv, NEW d \in Device, NEW p \in Place, NEW t \in Time, SavePilot(d, p, t),
         reported' \in [Device -> SUBSET Place],
         \A e \in Device : reported[e] \subseteq reported'[e], p \in reported'[d]
  PROVE  StoreInv' /\ \A e \in Device : OwnKeys(e)'
<1>1. StoreInv'
  BY SaveKeeps DEF WayInv
<1>2. ASSUME NEW e \in Device
      PROVE  OwnKeys(e)'
  <2>1. CASE e # d
    <3>1. hash'[e] = hash[e] /\ index'[e] = index[e] /\ track'[e] = track[e]
      BY <2>1 DEF SavePilot, GeoAdd, WayInv, StoreInv, PilotTypeOK
    <3>2. Own(e) \subseteq Own(e)'
      BY DEF Own
    <3>. QED
      BY <3>1, <3>2, SeqGrows DEF WayInv, OwnKeys
  <2>2. CASE e = d
    <3>1. hash'[d].place \in reported'[d]
      BY DEF SavePilot, HashOf, WayInv, StoreInv, PilotTypeOK
    <3>2. index'[d] # None => index'[d] \in reported'[d]
      BY DEF SavePilot, GeoAdd, WayInv, StoreInv, PilotTypeOK, OwnKeys
    <3>3. track'[d] # None => track'[d].points \in Seq(Own(d)')
      <4>. DEFINE old   == IF track[d] = None THEN <<>> ELSE track[d].points
                  point == [place |-> p, at |-> t]
      <4>1. track[d] # None => track[d].points \in Seq(Own(d)')
        <5>1. Own(d) \subseteq Own(d)'
          BY DEF Own
        <5>. QED
          BY <5>1, SeqGrows DEF WayInv, OwnKeys
      <4>2. old \in Seq(Own(d)')
        BY <4>1
      <4>3. point \in Own(d)'
        BY DEF Own
      <4>. HIDE DEF old, point
      <4>4. Pushed(old, point) \in Seq(Own(d)')
        BY <4>2, <4>3, PushedPoints
      <4>5. CASE p \in Zero
        BY <4>1, <4>5 DEF SavePilot
      <4>6. CASE p \notin Zero
        BY <4>4, <4>6 DEF SavePilot, TrackWith, WayInv, StoreInv, PilotTypeOK, old, point
      <4>. QED
        BY <4>5, <4>6
    <3>. QED
      BY <2>2, <3>1, <3>2, <3>3 DEF OwnKeys
  <2>. QED
    BY <2>1, <2>2
<1>. QED
  BY <1>1, <1>2

\* What a device has reported stays reported.
LEMMA RecordsStayOwn ==
  ASSUME NEW s \in Seq(QueuedPilot), OwnRecords(s),
         \A e \in Device : reported[e] \subseteq reported'[e]
  PROVE  \A i \in DOMAIN s : s[i].device \in Device /\ s[i].at \in Time
                             /\ (s[i].place # None => s[i].place \in reported'[s[i].device])
BY DEF OwnRecords, OwnRecord

LEMMA NoRecords == <<>> \in Seq(QueuedPilot) /\ DOMAIN <<>> = {}
OBVIOUS

\* A batch that is written or given up is empty, one that is tried again is the same.
LEMMA BatchStaysOwn ==
  ASSUME WayInv, UNCHANGED reported, batch' \in {<<>>, batch}
  PROVE  batch' \in Seq(QueuedPilot) /\ OwnRecords(batch)'
<1>1. CASE batch' = <<>>
  BY <1>1, NoRecords DEF OwnRecords
<1>2. CASE batch' = batch
  BY <1>2 DEF WayInv, OwnRecords, OwnRecord
<1>. QED
  BY <1>1, <1>2

LEMMA RowsStayOwn ==
  ASSUME OwnRows, UNCHANGED rows, \A e \in Device : reported[e] \subseteq reported'[e]
  PROVE  OwnRows'
BY DEF OwnRows, OwnRow

\* QueuePilot takes a record of the device or drops it.
LEMMA EnqueueOwn ==
  ASSUME queue \in Seq(QueuedPilot), OwnRecords(queue), NEW q \in QueuedPilot, Enqueue(q),
         \A e \in Device : reported[e] \subseteq reported'[e],
         q.place # None => q.place \in reported'[q.device]
  PROVE  queue' \in Seq(QueuedPilot) /\ OwnRecords(queue)'
<1>1. CASE UNCHANGED queue
  BY <1>1, RecordsStayOwn DEF OwnRecords, OwnRecord
<1>2. CASE queue' = Append(queue, q)
  <2>1. queue' \in Seq(QueuedPilot) /\ Len(queue') = Len(queue) + 1
    BY <1>2
  <2>2. ASSUME NEW i \in DOMAIN queue'
        PROVE  OwnRecord(queue[i])'
    <3>1. CASE i = Len(queue) + 1
      <4>1. queue'[i] = q
        BY <1>2, <3>1
      <4>. QED
        BY <4>1 DEF OwnRecord, QueuedPilot
    <3>2. CASE i \in DOMAIN queue
      <4>1. queue'[i] = queue[i]
        BY <1>2, <3>2
      <4>. QED
        BY <3>2, <4>1, RecordsStayOwn DEF OwnRecord
    <3>. QED
      BY <2>1, <3>1, <3>2
  <2>. QED
    BY <2>1, <2>2 DEF OwnRecords
<1>. QED
  BY <1>1, <1>2 DEF Enqueue

LEMMA ReportKeeps ==
  ASSUME WayInv, NEW d \in Device, NEW p \in Place, ReportPosition(d, p)
  PROVE  WayInv'
<1>. DEFINE q == [device |-> d, place |-> p, at |-> now]
<1>1. /\ SavePilot(d, p, now) /\ Enqueue(q)
      /\ reported' = [reported EXCEPT ![d] = @ \cup {p}]
      /\ UNCHANGED <<batch, rows, loading>>
      /\ now \in Time
  BY DEF ReportPosition, WayInv, StoreInv, PilotTypeOK
<1>2. /\ reported' \in [Device -> SUBSET Place] /\ p \in reported'[d]
      /\ \A e \in Device : reported[e] \subseteq reported'[e]
  BY <1>1 DEF WayInv
<1>3. StoreInv' /\ \A e \in Device : OwnKeys(e)'
  BY <1>1, <1>2, SavedOwn
<1>4. queue' \in Seq(QueuedPilot) /\ OwnRecords(queue)'
  <2>1. q \in QueuedPilot
    BY <1>1 DEF QueuedPilot
  <2>. QED
    BY <1>1, <1>2, <2>1, EnqueueOwn DEF WayInv
<1>5. OwnRecords(batch)' /\ OwnRows'
  BY <1>1, <1>2, RecordsStayOwn, RowsStayOwn DEF WayInv, OwnRecords, OwnRecord
<1>. QED
  BY <1>1, <1>2, <1>3, <1>4, <1>5 DEF WayInv

\* Steps that leave what devices have reported, and give Redis no position.
LEMMA KeysKept ==
  ASSUME WayInv, UNCHANGED reported,
         \A e \in Device :
           /\ \/ hash'[e] = None
              \/ hash'[e].place = None
              \/ hash[e] # None /\ hash'[e].place = hash[e].place
           /\ index'[e] \in {None, index[e]}
           /\ track'[e] \in {None, track[e]}
  PROVE  \A e \in Device : OwnKeys(e)'
BY DEF WayInv, OwnKeys, Own

LEMMA NamesKeep ==
  ASSUME WayInv, NEW d \in Device, LookUpName(d) \/ ReportName(d)
  PROVE  WayInv'
<1>1. CASE LookUpName(d)
  <2>1. NameExists(d) /\ UNCHANGED <<hash, index, track, queue, batch, rows, loading, reported>>
    BY <1>1 DEF LookUpName, NameExists
  <2>2. StoreInv'
    BY <2>1, ExistsKeeps DEF WayInv
  <2>. QED
    BY <2>1, <2>2 DEF WayInv, OwnKeys, Own, OwnRecords, OwnRecord, OwnRows, OwnRow
<1>2. CASE ReportName(d)
  <2>. DEFINE q == [device |-> d, place |-> None, at |-> now]
  <2>1. NameWrite(d) /\ Enqueue(q) /\ UNCHANGED <<batch, rows, loading, reported>>
    BY <1>2 DEF ReportName
  <2>2. StoreInv'
    BY <2>1, NameKeeps DEF WayInv
  <2>3. \A e \in Device : OwnKeys(e)'
    <3>1. /\ UNCHANGED <<index, track>>
          /\ \A e \in Device \ {d} : hash'[e] = hash[e]
          /\ hash'[d] \in {CreatedHash(d), RenamedHash(d)}
      BY <2>1 DEF NameWrite, WayInv, StoreInv, PilotTypeOK
    <3>2. \/ hash'[d].place = None
          \/ hash[d] # None /\ hash'[d].place = hash[d].place
      <4>1. CASE hash[d] = None
        BY <3>1, <4>1 DEF CreatedHash, RenamedHash
      <4>2. CASE hash[d] # None
        BY <3>1, <4>2 DEF CreatedHash, RenamedHash
      <4>. QED
        BY <4>1, <4>2
    <3>. QED
      BY <2>1, <3>1, <3>2, KeysKept
  <2>4. queue' \in Seq(QueuedPilot) /\ OwnRecords(queue)'
    <3>1. q \in QueuedPilot
      BY DEF QueuedPilot, WayInv, StoreInv, PilotTypeOK
    <3>2. \A e \in Device : reported[e] \subseteq reported'[e]
      BY <2>1
    <3>. QED
      BY <2>1, <3>1, <3>2, EnqueueOwn DEF WayInv
  <2>. QED
    BY <2>1, <2>2, <2>3, <2>4 DEF WayInv, OwnRecords, OwnRecord, OwnRows, OwnRow
<1>. QED
  BY <1>1, <1>2

LEMMA RemovedKeep ==
  ASSUME WayInv, PassHour \/ \E d \in Device : Hide(d)
  PROVE  WayInv'
<1>1. UNCHANGED mysqlVars /\ (Hour \/ \E d \in Device : RemovePilot(d))
  BY DEF PassHour, Hide
<1>2. StoreInv'
  BY <1>1, RemovalsKeep DEF WayInv
<1>3. \A e \in Device : OwnKeys(e)'
  <2>1. CASE Hour
    BY <1>1, <2>1, KeysKept DEF mysqlVars, Hour, Alive, WayInv, StoreInv, PilotTypeOK
  <2>2. ASSUME NEW d \in Device, RemovePilot(d)
        PROVE  \A e \in Device : OwnKeys(e)'
    <3>1. \A e \in Device : /\ hash'[e] \in {None, hash[e]}
                            /\ index'[e] \in {None, index[e]} /\ track'[e] \in {None, track[e]}
      BY <2>2 DEF RemovePilot, WayInv, StoreInv, PilotTypeOK
    <3>. QED
      BY <1>1, <3>1, KeysKept DEF mysqlVars
  <2>. QED
    BY <1>1, <2>1, <2>2
<1>. QED
  BY <1>1, <1>2, <1>3 DEF mysqlVars, WayInv, OwnRecords, OwnRecord, OwnRows, OwnRow

\* What is common to the steps of MySQL: Redis is not touched.
LEMMA KeysUntouched ==
  ASSUME WayInv, UNCHANGED <<pilotVars, reported>>
  PROVE  StoreInv' /\ \A e \in Device : OwnKeys(e)'
BY DEF pilotVars, WayInv, StoreInv, PilotTypeOK, Agree, Mortal, AgreesWithIndex, NewestPoint,
       OwnKeys, Own

LEMMA TakeKeeps ==
  ASSUME WayInv, TakeBatch
  PROVE  WayInv'
<1>. PICK n \in 1..BatchSize :
       /\ n <= Len(queue)
       /\ batch' = SubSeq(queue, 1, n)
       /\ queue' = SubSeq(queue, n + 1, Len(queue))
  BY DEF TakeBatch
<1>1. UNCHANGED <<pilotVars, rows, loading, reported>> /\ n \in Nat
  BY PersistenceAssumption DEF TakeBatch
<1>2. queue \in Seq(QueuedPilot) /\ \A i \in 1..Len(queue) : OwnRecord(queue[i])
  BY DEF WayInv, OwnRecords
<1>3. /\ batch' \in Seq(QueuedPilot) /\ Len(batch') = n
      /\ \A i \in 1..n : batch'[i] = queue[i]
  BY <1>1, <1>2
<1>4. /\ queue' \in Seq(QueuedPilot) /\ Len(queue') = Len(queue) - n
      /\ \A i \in 1..(Len(queue) - n) : queue'[i] = queue[n + i]
  BY <1>1, <1>2
<1>5. OwnRecords(batch)'
  BY <1>1, <1>2, <1>3 DEF OwnRecords, OwnRecord
<1>6. OwnRecords(queue)'
  <2>1. \A i \in 1..(Len(queue) - n) : n + i \in 1..Len(queue)
    BY <1>1, <1>2
  <2>. QED
    BY <1>1, <1>2, <1>4, <2>1 DEF OwnRecords, OwnRecord
<1>. QED
  BY <1>1, <1>3, <1>4, <1>5, <1>6, KeysUntouched DEF WayInv, OwnRows, OwnRow

\* A row is a record of the batch, whatever its id.
LEMMA CommitKeeps ==
  ASSUME WayInv, Commit
  PROVE  WayInv'
<1>1. UNCHANGED <<pilotVars, queue, loading, reported>> /\ rows' = rows \cup NewRows
      /\ batch' \in {<<>>, batch}
  BY DEF Commit
<1>2. ASSUME NEW r \in NewRows
      PROVE  OwnRow(r)
  <2>1. PICK i \in Positioned :
          r = [id |-> IdOfRow(i), addr |-> batch[i].device, place |-> batch[i].place,
               at |-> batch[i].at]
    BY <1>2 DEF NewRows
  <2>2. OwnRecord(batch[i]) /\ batch[i].place # None
    BY <2>1 DEF Positioned, WayInv, OwnRecords
  <2>. QED
    BY <2>1, <2>2 DEF OwnRow, OwnRecord
<1>3. OwnRows'
  BY <1>1, <1>2 DEF WayInv, OwnRows, OwnRow
<1>4. batch' \in Seq(QueuedPilot) /\ OwnRecords(batch)'
  BY <1>1, BatchStaysOwn
<1>. QED
  BY <1>1, <1>3, <1>4, KeysUntouched DEF WayInv, OwnRecords, OwnRecord

LEMMA DropKeeps ==
  ASSUME WayInv, SkipBatch \/ Rollback
  PROVE  WayInv'
<1>1. UNCHANGED <<pilotVars, queue, rows, loading, reported>> /\ batch' \in {<<>>, batch}
  BY DEF SkipBatch, Rollback
<1>2. batch' \in Seq(QueuedPilot) /\ OwnRecords(batch)'
  BY <1>1, BatchStaysOwn
<1>. QED
  BY <1>1, <1>2, KeysUntouched DEF WayInv, OwnRecords, OwnRecord, OwnRows, OwnRow

LEMMA RestartKeeps ==
  ASSUME WayInv, Restart
  PROVE  WayInv'
<1>1. /\ queue' = <<>> /\ batch' = <<>> /\ loading' = None
      /\ UNCHANGED <<now, placed, special, rows, reported>>
      /\ naming' = [d \in Device |-> "none"]
  BY DEF Restart
<1>a. /\ queue' \in Seq(QueuedPilot) /\ OwnRecords(queue)'
      /\ batch' \in Seq(QueuedPilot) /\ OwnRecords(batch)'
  BY <1>1, NoRecords DEF OwnRecords
<1>2. CASE UNCHANGED <<index, hash, track>>
  <2>1. StoreInv'
    BY <1>1, <1>2
    DEF WayInv, StoreInv, PilotTypeOK, Agree, Mortal, AgreesWithIndex, NewestPoint
  <2>. QED
    BY <1>1, <1>a, <1>2, <2>1 DEF WayInv, OwnKeys, Own, OwnRows, OwnRow
<1>3. CASE /\ index' = [d \in Device |-> None]
           /\ hash'  = [d \in Device |-> None]
           /\ track' = [d \in Device |-> None]
  <2>1. StoreInv'
    BY <1>1, <1>3
    DEF WayInv, StoreInv, PilotTypeOK, Agree, Mortal, AgreesWithIndex, NewestPoint
  <2>. QED
    BY <1>1, <1>a, <1>3, <2>1 DEF WayInv, OwnKeys, Own, OwnRows, OwnRow
<1>. QED
  BY <1>2, <1>3 DEF Restart

LEMMA LoadingKeeps ==
  ASSUME WayInv, Query \/ LoadPilot
  PROVE  WayInv'
<1>1. CASE Query
  <2>1. UNCHANGED <<pilotVars, queue, batch, rows, reported>> /\ loading' \subseteq rows
    BY <1>1 DEF Query, LoadInitialPilots, LastRows
  <2>. QED
    BY <2>1, KeysUntouched DEF WayInv, OwnRecords, OwnRecord, OwnRows, OwnRow
<1>2. CASE LoadPilot
  <2>. PICK r \in loading : SavePilot(r.addr, r.place, r.at) /\ loading' = loading \ {r}
    BY <1>2 DEF LoadPilot
  <2>1. OwnRow(r) /\ loading \subseteq rows
    BY <1>2 DEF LoadPilot, WayInv, OwnRows
  <2>2. UNCHANGED <<queue, batch, rows, reported>>
    BY <1>2 DEF LoadPilot
  <2>3. r.place \in Place
    BY <2>1 DEF OwnRow, WayInv
  <2>4. StoreInv' /\ \A e \in Device : OwnKeys(e)'
    BY <2>1, <2>2, <2>3, SavedOwn DEF OwnRow, WayInv
  <2>. QED
    BY <2>1, <2>2, <2>4 DEF WayInv, OwnRecords, OwnRecord, OwnRows, OwnRow
<1>. QED
  BY <1>1, <1>2

-----------------------------------------------------------------------------
(* How old positions get.                                                   *)

\* A hash that a save has dated lives for the TTL, and what is saved is no older than that.
Dated(d) ==
  hash[d] # None /\ hash[d].place # None /\ "refreshed" \notin special[d]
    => hash[d].expires > now /\ hash[d].expires <= hash[d].at + 2 * PilotTTL - 1

AgeInv ==
  /\ \A d \in Device : Dated(d)
  /\ loading # None => \A r \in loading : r.at > now - PilotTTL

LEMMA AgesShow ==
  ASSUME WayInv, AgeInv
  PROVE  AgeBounded
<1>. SUFFICES ASSUME NEW d \in Device, HasPosition(d), "refreshed" \notin special[d]
              PROVE  now - hash[d].at <= 2 * (PilotTTL - 1)
  BY DEF AgeBounded
<1>1. hash[d] # None /\ hash[d].place # None
  BY ShownHasHash
<1>2. hash[d].expires > now /\ hash[d].expires <= hash[d].at + 2 * PilotTTL - 1
  BY <1>1 DEF AgeInv, Dated
<1>. QED
  BY <1>1, <1>2, Numbers DEF WayInv

LEMMA SaveDates ==
  ASSUME WayInv, AgeInv, NEW d \in Device, NEW p \in Place, NEW t \in Time,
         t > now - PilotTTL, SavePilot(d, p, t)
  PROVE  \A e \in Device : Dated(e)'
<1>1. now \in Int /\ t \in Int /\ PilotTTL \in Nat \ {0} /\ now' = now
  BY PilotStoreAssumption DEF SavePilot, WayInv, StoreInv, PilotTypeOK, Time
<1>2. hash' = [hash EXCEPT ![d] = HashOf(d, p, t)]
  BY DEF SavePilot
<1>3. hash'[d].expires = now + PilotTTL /\ hash'[d].at = t
  BY <1>2 DEF HashOf, Expires, WayInv, StoreInv, PilotTypeOK
<1>4. Dated(d)'
  BY <1>1, <1>3 DEF Dated
<1>5. ASSUME NEW e \in Device \ {d}
      PROVE  Dated(e)'
  <2>1. hash'[e] = hash[e] /\ special'[e] = special[e]
    BY <1>2 DEF SavePilot, WayInv, StoreInv, PilotTypeOK
  <2>. QED
    BY <1>1, <2>1 DEF AgeInv, Dated
<1>. QED
  BY <1>4, <1>5

\* A name without a hash makes one without a position; with one it leaves the time and the
\* deadline as they are, or says that it has not.
LEMMA NameDates ==
  ASSUME WayInv, AgeInv, NEW d \in Device, NameWrite(d)
  PROVE  \A e \in Device : Dated(e)'
<1>. DEFINE named == IF naming[d] = "create" THEN CreatedHash(d) ELSE RenamedHash(d)
<1>1. now' = now /\ hash' = [hash EXCEPT ![d] = named]
  BY DEF NameWrite
<1>2. /\ naming[d] = "create" /\ hash[d] # None => "refreshed" \in special'[d]
      /\ \A e \in Device : special[e] \subseteq special'[e]
  BY DEF NameWrite, WayInv, StoreInv, PilotTypeOK
<1>3. \/ named.place = None
      \/ naming[d] = "create" /\ hash[d] # None
      \/ named = hash[d] /\ hash[d] # None
  BY DEF CreatedHash, RenamedHash
<1>. HIDE DEF named
<1>4. Dated(d)'
  <2>1. hash'[d] = named
    BY <1>1 DEF WayInv, StoreInv, PilotTypeOK
  <2>. QED
    BY <1>1, <1>2, <1>3, <2>1 DEF AgeInv, Dated
<1>5. ASSUME NEW e \in Device \ {d}
      PROVE  Dated(e)'
  <2>1. hash'[e] = hash[e]
    BY <1>1 DEF WayInv, StoreInv, PilotTypeOK
  <2>. QED
    BY <1>1, <1>2, <2>1 DEF AgeInv, Dated
<1>. QED
  BY <1>4, <1>5

\* Where hashes only go, they keep their dates as long as they live.
LEMMA GoneDates ==
  ASSUME AgeInv, UNCHANGED now,
         \A e \in Device : hash'[e] \in {None, hash[e]} /\ special[e] \subseteq special'[e]
  PROVE  \A e \in Device : Dated(e)'
BY DEF AgeInv, Dated

LEMMA HourDates ==
  ASSUME WayInv, AgeInv, PassHour
  PROVE  AgeInv'
<1>1. ASSUME NEW e \in Device
      PROVE  Dated(e)'
  <2>1. now' = now + 1 /\ hash'[e] = Alive(hash[e]) /\ special'[e] = special[e]
    BY DEF PassHour, Hour
  <2>. QED
    BY <2>1, Numbers DEF AgeInv, Dated, Alive, WayInv
<1>2. loading' # None => \A r \in loading' : r.at > now' - PilotTTL
  BY DEF PassHour, mysqlVars
<1>. QED
  BY <1>1, <1>2 DEF AgeInv

LEMMA AgeStep ==
  ASSUME WayInv, AgeInv, [Next]_vars
  PROVE  AgeInv'
<1>1. ASSUME UNCHANGED <<now, hash, special, loading>>
      PROVE  AgeInv'
  BY <1>1 DEF AgeInv, Dated
<1>2. CASE UNCHANGED vars \/ TakeBatch \/ SkipBatch \/ Commit \/ Rollback
           \/ \E d \in Device : LookUpName(d)
  BY <1>1, <1>2
  DEF vars, pilotVars, mysqlVars, TakeBatch, SkipBatch, Commit, Rollback, LookUpName, NameExists
<1>3. ASSUME NEW d \in Device, NEW p \in Place, ReportPosition(d, p)
      PROVE  AgeInv'
  <2>1. now \in Time /\ now > now - PilotTTL
    BY PilotStoreAssumption DEF WayInv, StoreInv, PilotTypeOK, Time
  <2>2. SavePilot(d, p, now) /\ UNCHANGED <<now, loading>>
    BY <1>3 DEF ReportPosition, SavePilot
  <2>3. \A e \in Device : Dated(e)'
    BY <2>1, <2>2, SaveDates
  <2>. QED
    BY <2>2, <2>3 DEF AgeInv
<1>4. ASSUME NEW d \in Device, ReportName(d)
      PROVE  AgeInv'
  <2>1. NameWrite(d) /\ UNCHANGED <<now, loading>>
    BY <1>4 DEF ReportName, NameWrite
  <2>. QED
    BY <2>1, NameDates DEF AgeInv
<1>5. ASSUME NEW d \in Device, Hide(d)
      PROVE  AgeInv'
  <2>1. UNCHANGED <<now, loading, special>> /\ \A e \in Device : hash'[e] \in {None, hash[e]}
    BY <1>5 DEF Hide, RemovePilot, mysqlVars, WayInv, StoreInv, PilotTypeOK
  <2>. QED
    BY <2>1, GoneDates DEF AgeInv
<1>6. CASE Restart
  <2>1. UNCHANGED <<now, special>> /\ loading' = None
        /\ \A e \in Device : hash'[e] \in {None, hash[e]}
    BY <1>6 DEF Restart, WayInv, StoreInv, PilotTypeOK
  <2>. QED
    BY <2>1, GoneDates DEF AgeInv
<1>7. CASE Query
  <2>1. UNCHANGED <<now, hash, special>> /\ loading' \subseteq LastRows
    BY <1>7 DEF Query, LoadInitialPilots, pilotVars
  <2>. QED
    BY <2>1 DEF AgeInv, Dated, LastRows
<1>8. CASE LoadPilot
  <2>. PICK r \in loading : SavePilot(r.addr, r.place, r.at) /\ loading' = loading \ {r}
    BY <1>8 DEF LoadPilot
  <2>1. loading # None /\ OwnRow(r) /\ r.place \in Place /\ r.at > now - PilotTTL
    BY <1>8 DEF LoadPilot, WayInv, OwnRows, OwnRow, AgeInv
  <2>2. \A e \in Device : Dated(e)'
    BY <2>1, SaveDates DEF OwnRow
  <2>3. now' = now
    BY DEF SavePilot
  <2>. QED
    BY <2>1, <2>2, <2>3 DEF AgeInv
<1>9. CASE PassHour
  BY <1>9, HourDates
<1>. QED
  BY <1>2, <1>3, <1>4, <1>5, <1>6, <1>7, <1>8, <1>9 DEF Next

-----------------------------------------------------------------------------
(* Ids.                                                                     *)

\* The tables: rows have ids that have been given out, and last positions have no id
\* beyond them but those that a batch counts for its names.
TablesOK ==
  /\ messages \in 0..MaxMessages /\ mixed \in BOOLEAN
  /\ rows \subseteq TrackRow
  /\ nextId \in 1..(MaxId + 1)
  /\ ufo \in [Device -> 1..(MaxId + BatchSize) \cup {None}]
  /\ Len(batch) <= BatchSize

LEMMA TypesFollow == WayInv /\ TablesOK => TypeOK
<1>. SUFFICES ASSUME WayInv, TablesOK
              PROVE  TypeOK
  OBVIOUS
<1>1. loading \in (SUBSET TrackRow) \cup {None}
  <2>1. rows \subseteq TrackRow /\ (loading # None => loading \subseteq rows)
    BY DEF WayInv, TablesOK
  <2>2. CASE loading = None
    BY <2>2
  <2>3. CASE loading \subseteq TrackRow
    BY <2>3
  <2>. QED
    BY <2>1, <2>2, <2>3
<1>2. mixed \in BOOLEAN
  BY Zenon DEF TablesOK
<1>. QED
  BY <1>1, <1>2 DEF WayInv, TablesOK, TypeOK, StoreInv

\* Fewer positions come before a record with a position than the batch has.
LEMMA FewerBefore ==
  ASSUME batch \in Seq(QueuedPilot), NEW i \in Positioned
  PROVE  /\ Cardinality({j \in Positioned : j < i}) \in Nat
         /\ Cardinality(Positioned) \in Nat
         /\ Cardinality({j \in Positioned : j < i}) < Cardinality(Positioned)
<1>. DEFINE before == {j \in Positioned : j < i}
<1>1. IsFiniteSet(Positioned)
  <2>1. IsFiniteSet(1..Len(batch)) /\ Positioned \subseteq 1..Len(batch)
    BY FS_Interval DEF Positioned
  <2>. QED
    BY <2>1, FS_Subset
<1>2. before \subseteq Positioned \ {i}
  BY DEF Positioned
<1>3. /\ IsFiniteSet(Positioned \ {i})
      /\ Cardinality(Positioned \ {i}) = Cardinality(Positioned) - 1
  BY <1>1, FS_RemoveElement
<1>4. IsFiniteSet(before) /\ Cardinality(before) <= Cardinality(Positioned \ {i})
  BY <1>2, <1>3, FS_Subset
<1>5. Cardinality(before) \in Nat /\ Cardinality(Positioned) \in Nat
  BY <1>1, <1>4, FS_CardinalityType
<1>. QED
  BY <1>3, <1>4, <1>5

LEMMA CommitTables ==
  ASSUME WayInv, TablesOK, Commit
  PROVE  TablesOK'
<1>. DEFINE n == Cardinality(Positioned)
<1>1. PICK k \in Positioned : TRUE
  BY DEF Commit
<1>2. n \in Nat /\ nextId + n <= MaxId + 1 /\ nextId \in 1..(MaxId + 1) /\ MaxId \in Nat
  BY <1>1, FewerBefore, PersistenceAssumption DEF Commit, WayInv, TablesOK
<1>3. ASSUME NEW r \in NewRows
      PROVE  r \in TrackRow
  <2>1. PICK i \in Positioned :
          r = [id |-> IdOfRow(i), addr |-> batch[i].device, place |-> batch[i].place,
               at |-> batch[i].at]
    BY <1>3 DEF NewRows
  <2>2. batch[i] \in QueuedPilot /\ batch[i].place # None
    BY <2>1 DEF Positioned, WayInv
  <2>3. IdOfRow(i) \in 1..MaxId
    BY <1>2, <2>1, FewerBefore DEF WayInv, IdOfRow
  <2>. QED
    BY <2>1, <2>2, <2>3 DEF TrackRow, QueuedPilot
<1>4. ufo' \in [Device -> 1..(MaxId + BatchSize) \cup {None}]
  <2>1. ASSUME NEW i \in DOMAIN batch
        PROVE  UfoId(i) \in 1..(MaxId + BatchSize)
    <3>1. i \in 1..Len(batch) /\ Len(batch) <= BatchSize /\ Len(batch) \in Nat
          /\ BatchSize \in Nat
      BY PersistenceAssumption DEF WayInv, TablesOK
    <3>2. n >= 1
      <4>1. /\ Cardinality({j \in Positioned : j < k}) \in Nat
            /\ Cardinality({j \in Positioned : j < k}) < n
        BY <1>1, FewerBefore DEF WayInv
      <4>. QED
        BY <1>2, <4>1
    <3>. HIDE DEF n
    <3>. QED
      BY <1>2, <3>1, <3>2 DEF UfoId
  <2>2. \A d \in Device : LastOf(d) \subseteq DOMAIN batch
    BY DEF LastOf
  <2>3. ASSUME NEW d \in Device, LastOf(d) # {}
        PROVE  (CHOOSE i \in LastOf(d) : TRUE) \in LastOf(d)
    BY <2>3
  <2>4. \A d \in Device : LastOf(d) # {}
          => UfoId(CHOOSE i \in LastOf(d) : TRUE) \in 1..(MaxId + BatchSize)
    BY <2>1, <2>2, <2>3
  <2>. QED
    BY <2>4 DEF Commit, NewUfo, TablesOK
<1>5. rows' \subseteq TrackRow
  BY <1>3 DEF Commit, TablesOK
<1>6. nextId' \in 1..(MaxId + 1)
  BY <1>2 DEF Commit
<1>7. mixed' \in BOOLEAN
  BY Zenon DEF Commit, TablesOK
<1>8. Len(batch') <= BatchSize
  BY PersistenceAssumption DEF Commit, TablesOK
<1>. QED
  BY <1>4, <1>5, <1>6, <1>7, <1>8 DEF Commit, TablesOK

LEMMA TablesStep ==
  ASSUME WayInv, TablesOK, [Next]_vars
  PROVE  TablesOK'
<1>1. ASSUME UNCHANGED <<rows, nextId, ufo, mixed>>, messages' \in 0..MaxMessages,
             batch' = batch \/ batch' = <<>>
      PROVE  TablesOK'
  <2>1. mixed' \in BOOLEAN
    BY <1>1, Zenon DEF TablesOK
  <2>2. Len(batch') <= BatchSize
    BY <1>1, PersistenceAssumption DEF TablesOK
  <2>. QED
    BY <1>1, <2>1, <2>2 DEF TablesOK
<1>2. CASE \/ UNCHANGED vars \/ SkipBatch \/ Restart \/ Query \/ LoadPilot \/ PassHour
           \/ \E d \in Device : ReportName(d) \/ Hide(d)
  <2>1. UNCHANGED <<messages, rows, nextId, ufo, mixed>> /\ batch' \in {batch, <<>>}
    BY <1>2
    DEF vars, mysqlVars, SkipBatch, Restart, Query, LoadPilot, PassHour, ReportName, Hide
  <2>. QED
    BY <1>1, <2>1 DEF TablesOK
<1>3. CASE \E d \in Device : LookUpName(d) \/ \E p \in Place : ReportPosition(d, p)
  <2>1. /\ messages < MaxMessages /\ messages' = messages + 1
        /\ UNCHANGED <<batch, rows, nextId, ufo, mixed>>
    BY <1>3 DEF LookUpName, ReportPosition, Message
  <2>2. messages' \in 0..MaxMessages
    BY <2>1, PersistenceAssumption DEF TablesOK
  <2>. QED
    BY <1>1, <2>1, <2>2
<1>4. CASE TakeBatch
  BY <1>4, PersistenceAssumption DEF TakeBatch, TablesOK, WayInv
<1>5. CASE Commit
  BY <1>5, CommitTables
<1>6. CASE Rollback
  <2>1. PICK k \in Positioned : TRUE
    BY <1>6 DEF Rollback
  <2>2. Cardinality(Positioned) \in Nat
    BY <2>1, FewerBefore DEF WayInv
  <2>. QED
    BY <1>6, <2>2, PersistenceAssumption DEF Rollback, TablesOK
<1>. QED
  BY <1>2, <1>3, <1>4, <1>5, <1>6 DEF Next

-----------------------------------------------------------------------------
(* Which row a last_position names.                                         *)

\* Times never go back on the way from the report to the row: records are queued at the
\* hour they are reported, a batch is the head of the queue, and what is written again
\* is the batch that was written last.
InOrder(s)   == \A i, j \in DOMAIN s : i <= j => s[i].at <= s[j].at
UntilNow(s)  == \A i \in DOMAIN s : s[i].at <= now
BatchIsFirst == \A i \in DOMAIN batch, j \in DOMAIN queue : batch[i].at <= queue[j].at
RowsAreFirst == \A r \in rows : r.at <= now /\ \A j \in DOMAIN queue : r.at <= queue[j].at

\* A device that the batch holds has no row that is newer than all of its records there.
NotBehind(r) ==
  (\E j \in DOMAIN batch : batch[j].device = r.addr)
    => \E i \in DOMAIN batch : batch[i].device = r.addr /\ r.at <= batch[i].at

OrderInv ==
  /\ InOrder(queue) /\ InOrder(batch)
  /\ UntilNow(queue) /\ UntilNow(batch)
  /\ BatchIsFirst
  /\ RowsAreFirst
  /\ \A r \in rows : NotBehind(r)

\* Its part about what is not written yet, without which the rows say nothing.
LEMMA EmptyBatch ==
  ASSUME OrderInv, UNCHANGED <<queue, rows, now>>, batch' = <<>>
  PROVE  OrderInv'
BY NoRecords DEF OrderInv, InOrder, UntilNow, BatchIsFirst, RowsAreFirst, NotBehind

LEMMA SameBatch ==
  ASSUME OrderInv, UNCHANGED <<queue, rows, now, batch>>
  PROVE  OrderInv'
BY DEF OrderInv, InOrder, UntilNow, BatchIsFirst, RowsAreFirst, NotBehind

\* What is reported now is no older than anything on its way.
LEMMA EnqueuedLast ==
  ASSUME WayInv, OrderInv, NEW q \in QueuedPilot, q.at = now, Enqueue(q),
         UNCHANGED <<batch, rows, now>>
  PROVE  OrderInv'
<1>1. CASE UNCHANGED queue
  BY <1>1, SameBatch
<1>2. CASE queue' = Append(queue, q)
  <2>. DEFINE n == Len(queue)
  <2>1. queue \in Seq(QueuedPilot) /\ n \in Nat /\ DOMAIN queue = 1..n
    BY DEF WayInv
  <2>2. /\ DOMAIN queue' = 1..(n + 1)
        /\ queue'[n + 1] = q
        /\ \A i \in 1..n : queue'[i] = queue[i]
    BY <1>2, <2>1
  <2>3. /\ now \in Int
        /\ \A i \in 1..n : queue[i].at \in Int
    <3>1. \A i \in 1..n : queue[i].at \in Time
      BY <2>1 DEF WayInv, OwnRecords, OwnRecord
    <3>2. Time \subseteq Int /\ now \in Time
      BY DEF WayInv, StoreInv, PilotTypeOK, Time
    <3>. QED
      BY <3>1, <3>2
  <2>. HIDE DEF n
  <2>4. \A i \in 1..(n + 1) : i \in 1..n \/ i = n + 1
    BY <2>1
  <2>5. \A i \in 1..(n + 1) : queue'[i].at <= now
    BY <2>1, <2>2, <2>3, <2>4 DEF OrderInv, UntilNow
  <2>6. InOrder(queue)'
    <3>. SUFFICES ASSUME NEW i \in 1..(n + 1), NEW j \in 1..(n + 1), i <= j
                  PROVE  queue'[i].at <= queue'[j].at
      BY <2>2 DEF InOrder
    <3>1. CASE j = n + 1
      BY <2>2, <2>5, <3>1
    <3>2. CASE j \in 1..n
      <4>1. i \in 1..n
        BY <2>1, <3>2
      <4>. QED
        BY <2>1, <2>2, <3>2, <4>1 DEF OrderInv, InOrder
    <3>. QED
      BY <2>4, <3>1, <3>2
  <2>7. \A r \in rows, j \in 1..(n + 1) : r.at <= queue'[j].at
    BY <2>1, <2>2, <2>4 DEF OrderInv, RowsAreFirst
  <2>8. \A i \in DOMAIN batch, j \in 1..(n + 1) : batch[i].at <= queue'[j].at
    BY <2>1, <2>2, <2>4 DEF OrderInv, BatchIsFirst, UntilNow
  <2>. QED
    BY <2>2, <2>5, <2>6, <2>7, <2>8
    DEF OrderInv, InOrder, UntilNow, BatchIsFirst, RowsAreFirst, NotBehind
<1>. QED
  BY <1>1, <1>2 DEF Enqueue

\* A batch is the head of the queue, and follows on every row.
LEMMA TakenInOrder ==
  ASSUME WayInv, OrderInv, TakeBatch
  PROVE  OrderInv'
<1>. PICK n \in 1..BatchSize :
       /\ n <= Len(queue)
       /\ batch' = SubSeq(queue, 1, n)
       /\ queue' = SubSeq(queue, n + 1, Len(queue))
  BY DEF TakeBatch
<1>. DEFINE m == Len(queue)
<1>1. /\ UNCHANGED <<now, rows>> /\ n \in Nat /\ n >= 1
      /\ queue \in Seq(QueuedPilot) /\ m \in Nat /\ n <= m /\ DOMAIN queue = 1..m
  BY PersistenceAssumption DEF TakeBatch, WayInv, pilotVars
<1>2. DOMAIN batch' = 1..n /\ \A i \in 1..n : batch'[i] = queue[i]
  BY <1>1
<1>3. DOMAIN queue' = 1..(m - n) /\ \A i \in 1..(m - n) : queue'[i] = queue[n + i]
  BY <1>1
<1>. HIDE DEF m
<1>4. /\ \A i \in 1..n : i \in 1..m
      /\ \A i \in 1..(m - n) : n + i \in 1..m
      /\ \A i \in 1..n, j \in 1..(m - n) : i <= n + j
      /\ \A i, j \in 1..(m - n) : i <= j => n + i <= n + j
  BY <1>1
<1>5. InOrder(batch)' /\ UntilNow(batch)'
  BY <1>1, <1>2, <1>4 DEF OrderInv, InOrder, UntilNow
<1>6. InOrder(queue)'
  <2>. SUFFICES ASSUME NEW i \in 1..(m - n), NEW j \in 1..(m - n), i <= j
                PROVE  queue'[i].at <= queue'[j].at
    BY <1>3 DEF InOrder
  <2>1. queue[n + i].at <= queue[n + j].at
    BY <1>1, <1>4 DEF OrderInv, InOrder
  <2>. QED
    BY <1>3, <2>1
<1>a. UntilNow(queue)'
  BY <1>1, <1>3, <1>4 DEF OrderInv, UntilNow
<1>7. BatchIsFirst'
  <2>. SUFFICES ASSUME NEW i \in 1..n, NEW j \in 1..(m - n)
                PROVE  batch'[i].at <= queue'[j].at
    BY <1>2, <1>3 DEF BatchIsFirst
  <2>1. queue[i].at <= queue[n + j].at
    BY <1>1, <1>4 DEF OrderInv, InOrder
  <2>. QED
    BY <1>2, <1>3, <2>1
<1>8. RowsAreFirst'
  BY <1>1, <1>3, <1>4 DEF OrderInv, RowsAreFirst
<1>9. \A r \in rows' : NotBehind(r)'
  BY <1>1, <1>2, <1>4 DEF OrderInv, RowsAreFirst, NotBehind
<1>. QED
  BY <1>5, <1>6, <1>a, <1>7, <1>8, <1>9 DEF OrderInv

\* A row is a record of the batch, whether the batch is then forgotten or tried again.
LEMMA CommittedInOrder ==
  ASSUME WayInv, OrderInv, Commit
  PROVE  OrderInv'
<1>1. UNCHANGED <<queue, now>> /\ rows' = rows \cup NewRows /\ batch' \in {<<>>, batch}
  BY DEF Commit, pilotVars
<1>2. \A r \in NewRows : \E i \in DOMAIN batch : batch[i].device = r.addr /\ batch[i].at = r.at
  BY DEF NewRows, Positioned
<1>3. \A r \in NewRows : r.at <= now /\ \A j \in DOMAIN queue : r.at <= queue[j].at
  BY <1>2 DEF OrderInv, UntilNow, BatchIsFirst
<1>4. RowsAreFirst'
  BY <1>1, <1>3 DEF OrderInv, RowsAreFirst
<1>5. \A r \in NewRows : NotBehind(r)
  <2>1. \A i \in DOMAIN batch : batch[i].at <= batch[i].at
    BY DEF OrderInv, InOrder, WayInv
  <2>. QED
    BY <1>2, <2>1 DEF NotBehind
<1>6. CASE batch' = batch
  BY <1>1, <1>4, <1>5, <1>6
  DEF OrderInv, InOrder, UntilNow, BatchIsFirst, NotBehind
<1>7. CASE batch' = <<>>
  BY <1>1, <1>4, <1>7, NoRecords
  DEF OrderInv, InOrder, UntilNow, BatchIsFirst, NotBehind
<1>. QED
  BY <1>1, <1>6, <1>7

LEMMA OrderStep ==
  ASSUME WayInv, OrderInv, [Next]_vars
  PROVE  OrderInv'
<1>1. CASE \/ UNCHANGED vars \/ SkipBatch \/ Rollback \/ Query \/ LoadPilot
           \/ \E d \in Device : LookUpName(d) \/ Hide(d)
  <2>1. UNCHANGED <<queue, rows, now>> /\ batch' \in {batch, <<>>}
    BY <1>1
    DEF vars, pilotVars, mysqlVars, SkipBatch, Rollback, Query, LoadPilot, SavePilot,
        LookUpName, NameExists, Hide, RemovePilot
  <2>. QED
    BY <2>1, SameBatch, EmptyBatch
<1>2. ASSUME NEW d \in Device, NEW p \in Place, ReportPosition(d, p)
      PROVE  OrderInv'
  <2>. DEFINE q == [device |-> d, place |-> p, at |-> now]
  <2>1. Enqueue(q) /\ UNCHANGED <<batch, rows, now>> /\ q.at = now /\ q \in QueuedPilot
    BY <1>2 DEF ReportPosition, SavePilot, QueuedPilot, WayInv, StoreInv, PilotTypeOK
  <2>. HIDE DEF q
  <2>. QED
    BY <2>1, EnqueuedLast
<1>3. ASSUME NEW d \in Device, ReportName(d)
      PROVE  OrderInv'
  <2>. DEFINE q == [device |-> d, place |-> None, at |-> now]
  <2>1. Enqueue(q) /\ UNCHANGED <<batch, rows, now>> /\ q.at = now /\ q \in QueuedPilot
    BY <1>3 DEF ReportName, NameWrite, QueuedPilot, WayInv, StoreInv, PilotTypeOK
  <2>. HIDE DEF q
  <2>. QED
    BY <2>1, EnqueuedLast
<1>4. CASE TakeBatch
  BY <1>4, TakenInOrder
<1>5. CASE Commit
  BY <1>5, CommittedInOrder
<1>6. CASE Restart
  BY <1>6, NoRecords
  DEF Restart, OrderInv, InOrder, UntilNow, BatchIsFirst, RowsAreFirst, NotBehind
<1>7. CASE PassHour
  <2>1. UNCHANGED <<queue, batch, rows>> /\ now' = now + 1
    BY <1>7 DEF PassHour, Hour, mysqlVars
  <2>2. /\ now \in Int
        /\ \A i \in DOMAIN queue : queue[i].at \in Int
        /\ \A i \in DOMAIN batch : batch[i].at \in Int
        /\ \A r \in rows : r.at \in Int
    BY DEF WayInv, OwnRecords, OwnRecord, OwnRows, OwnRow, Time, StoreInv, PilotTypeOK
  <2>3. UntilNow(queue)' /\ UntilNow(batch)'
    BY <2>1, <2>2 DEF OrderInv, UntilNow
  <2>4. RowsAreFirst'
    BY <2>1, <2>2 DEF OrderInv, RowsAreFirst
  <2>. QED
    BY <2>1, <2>3, <2>4 DEF OrderInv, InOrder, BatchIsFirst, NotBehind
<1>. QED
  BY <1>1, <1>2, <1>3, <1>4, <1>5, <1>6, <1>7 DEF Next

\* A set of indices has a last one: the set of those from it on is the smallest.
LEMMA LastIndex ==
  ASSUME NEW n \in Nat, NEW T \in SUBSET (1..n), T # {}
  PROVE  \E m \in T : \A k \in T : k <= m
<1>. DEFINE from(i) == {k \in T : i <= k}
            all     == {from(i) : i \in T}
<1>1. IsFiniteSet(T)
  <2>1. IsFiniteSet(1..n)
    BY FS_Interval
  <2>. QED
    BY <2>1, FS_Subset
<1>2. all \subseteq FiniteSubsetsOf(T) /\ all # {}
  <2>1. \A i \in T : from(i) \in SUBSET T
    OBVIOUS
  <2>2. \A i \in T : IsFiniteSet(from(i))
    BY <1>1, <2>1, FS_Subset
  <2>. QED
    BY <2>1, <2>2 DEF FiniteSubsetsOf
<1>3. PICK U \in all : \A V \in all : <<V, U>> \notin StrictSubsetOrdering(T)
  BY <1>2, FS_StrictSubsetOrderingWellFounded, WFMin
<1>4. PICK m \in T : U = from(m)
  BY <1>3
<1>5. ASSUME NEW k \in T, ~(k <= m)
      PROVE  FALSE
  <2>1. from(k) \subseteq from(m) /\ m \in from(m) /\ m \notin from(k)
    <3>1. m \in Int /\ k \in Int /\ m < k /\ T \subseteq Int
      BY <1>5
    <3>2. \A x \in T : k <= x => m <= x
      BY <3>1
    <3>3. from(k) \subseteq from(m)
      BY <3>2
    <3>4. m <= m /\ ~(k <= m)
      BY <1>5, <3>1
    <3>. QED
      BY <3>3, <3>4
  <2>2. <<from(k), U>> \in StrictSubsetOrdering(T)
    BY <1>4, <2>1 DEF StrictSubsetOrdering
  <2>3. from(k) \in all
    OBVIOUS
  <2>. QED
    BY <1>3, <2>2, <2>3
<1>. QED
  BY <1>5

\* The last record of a device in a batch, if the batch has any.
LEMMA LastOfBatch ==
  ASSUME batch \in Seq(QueuedPilot), NEW d \in Device
  PROVE  /\ LastOf(d) = {} => \A i \in DOMAIN batch : batch[i].device # d
         /\ \A i \in LastOf(d) :
              /\ i \in DOMAIN batch /\ batch[i].device = d
              /\ \A j \in DOMAIN batch : batch[j].device = d => j <= i
<1>1. ASSUME NEW i \in DOMAIN batch, batch[i].device = d
      PROVE  LastOf(d) # {}
  <2>. DEFINE T == {j \in DOMAIN batch : batch[j].device = d}
  <2>1. Len(batch) \in Nat /\ T \in SUBSET (1..Len(batch)) /\ T # {}
    BY <1>1
  <2>2. PICK m \in T : \A k \in T : k <= m
    BY <2>1, LastIndex
  <2>. QED
    BY <2>2 DEF LastOf
<1>. QED
  BY <1>1 DEF LastOf

LEMMA CardinalityBefore ==
  ASSUME NEW i \in Nat \ {0}
  PROVE  Cardinality(1..(i - 1)) = i - 1
<1>1. i - 1 \in Int /\ 1 \in Int
  OBVIOUS
<1>2. Cardinality(1..(i - 1)) = IF 1 > i - 1 THEN 0 ELSE (i - 1) - 1 + 1
  BY <1>1, FS_Interval
<1>. QED
  BY <1>1, <1>2

\* In a batch of positions, the ids that are counted are the ids of the rows.
LEMMA IdsAgree ==
  ASSUME batch \in Seq(QueuedPilot), nextId \in Nat, Positioned = DOMAIN batch,
         NEW i \in DOMAIN batch
  PROVE  UfoId(i) = IdOfRow(i)
<1>. DEFINE before == {j \in Positioned : j < i}
<1>1. Len(batch) \in Nat /\ i \in 1..Len(batch) /\ Positioned = 1..Len(batch)
  OBVIOUS
<1>2. before = 1..(i - 1)
  BY <1>1
<1>3. Cardinality(1..(i - 1)) = i - 1
  BY <1>1, CardinalityBefore
<1>4. Cardinality(before) = i - 1
  BY <1>2, <1>3
<1>. HIDE DEF before
<1>5. nextId + Cardinality(before) = nextId + i - 1
  BY <1>1, <1>4
<1>. QED
  BY <1>5 DEF UfoId, IdOfRow, before

\* A row whose id is the last position of its device, and that none of its rows outlives.
NewestRow(d, r) ==
  r \in rows /\ r.addr = d /\ r.id = ufo[d] /\ \A q \in rows : q.addr = d => q.at <= r.at

LEMMA CommitNamesNewest ==
  ASSUME WayInv, TablesOK, OrderInv, LastIsNewest, Commit, ~mixed', NEW d \in Device,
         ufo'[d] # None
  PROVE  \E r : NewestRow(d, r)'
<1>1. /\ rows' = rows \cup NewRows /\ ufo' = NewUfo
      /\ ~mixed /\ Positioned = DOMAIN batch
      /\ batch \in Seq(QueuedPilot) /\ nextId \in Nat
  <2>1. ~mixed /\ Positioned = DOMAIN batch
    BY Zenon DEF Commit
  <2>. QED
    BY <2>1 DEF Commit, WayInv, TablesOK
<1>2. ufo'[d] = IF LastOf(d) = {} THEN ufo[d] ELSE UfoId(CHOOSE i \in LastOf(d) : TRUE)
  BY <1>1 DEF NewUfo
<1>3. CASE LastOf(d) = {}
  <2>1. PICK r \in rows : r.addr = d /\ r.id = ufo[d] /\ \A q \in rows : q.addr = d => q.at <= r.at
    BY <1>1, <1>2, <1>3 DEF LastIsNewest
  <2>2. \A q \in NewRows : q.addr # d
    BY <1>1, <1>3, LastOfBatch DEF NewRows
  <2>3. NewestRow(d, r)'
    BY <1>1, <1>2, <1>3, <2>1, <2>2 DEF NewestRow
  <2>. QED
    BY <2>3
<1>4. CASE LastOf(d) # {}
  <2>. DEFINE i == CHOOSE i \in LastOf(d) : TRUE
              r == [id |-> IdOfRow(i), addr |-> batch[i].device, place |-> batch[i].place,
                    at |-> batch[i].at]
  <2>1. /\ i \in DOMAIN batch /\ batch[i].device = d
        /\ \A j \in DOMAIN batch : batch[j].device = d => j <= i
    BY <1>1, <1>4, LastOfBatch
  <2>2. ufo'[d] = UfoId(i)
    BY <1>2, <1>4
  <2>. HIDE DEF i
  <2>3. r \in NewRows /\ r.addr = d /\ r.id = ufo'[d] /\ r.at = batch[i].at
    BY <1>1, <2>1, <2>2, IdsAgree DEF NewRows
  <2>. HIDE DEF r
  <2>4. \A j \in DOMAIN batch : batch[j].device = d => batch[j].at <= batch[i].at
    BY <2>1 DEF OrderInv, InOrder
  <2>5. ASSUME NEW q \in NewRows, q.addr = d
        PROVE  q.at <= r.at
    <3>1. PICK j \in Positioned : q.addr = batch[j].device /\ q.at = batch[j].at
      BY <2>5 DEF NewRows
    <3>. QED
      BY <1>1, <2>3, <2>4, <2>5, <3>1
  <2>6. ASSUME NEW q \in rows, q.addr = d
        PROVE  q.at <= r.at
    <3>1. PICK j \in DOMAIN batch : batch[j].device = d /\ q.at <= batch[j].at
      BY <2>1, <2>6 DEF OrderInv, NotBehind
    <3>2. batch[j].at <= batch[i].at
      BY <2>4, <3>1
    <3>3. q.at \in Int /\ batch[i].at \in Int /\ batch[j].at \in Int
      BY <2>1, <2>6 DEF WayInv, OwnRows, OwnRow, OwnRecords, OwnRecord, Time
    <3>. QED
      BY <2>3, <3>1, <3>2, <3>3
  <2>7. /\ r \in rows' /\ r.addr = d /\ r.id = ufo'[d]
        /\ \A q \in rows' : q.addr = d => q.at <= r.at
    BY <1>1, <2>3, <2>5, <2>6
  <2>. QED
    BY <2>7 DEF NewestRow
<1>. QED
  BY <1>3, <1>4

LEMMA NewestStep ==
  ASSUME WayInv, TablesOK, OrderInv, LastIsNewest, [Next]_vars
  PROVE  LastIsNewest'
<1>1. CASE Commit
  <2>. SUFFICES ASSUME ~mixed', NEW d \in Device, ufo'[d] # None
                PROVE  \E r \in rows' : /\ r.addr = d /\ r.id = ufo'[d]
                                        /\ \A q \in rows' : q.addr = d => q.at <= r.at
    BY DEF LastIsNewest
  <2>1. PICK r : NewestRow(d, r)'
    BY <1>1, CommitNamesNewest
  <2>. QED
    BY <2>1 DEF NewestRow
<1>2. CASE ~Commit
  <2>1. UNCHANGED <<rows, ufo, mixed>>
    BY <1>2
    DEF Next, vars, mysqlVars, ReportPosition, LookUpName, ReportName, Hide, TakeBatch,
        SkipBatch, Rollback, Restart, Query, LoadPilot, PassHour
  <2>. QED
    BY <2>1 DEF LastIsNewest
<1>. QED
  BY <1>1, <1>2

-----------------------------------------------------------------------------
(* Theorems.                                                                *)

LEMMA WayInit == Init => WayInv
<1>. SUFFICES ASSUME Init
              PROVE  WayInv
  OBVIOUS
<1>1. StoreInv
  BY InitHolds DEF Init
<1>2. \A d \in Device : OwnKeys(d)
  BY DEF Init, PilotInit, OwnKeys
<1>. QED
  BY <1>1, <1>2 DEF Init, WayInv, OwnRecords, OwnRows

LEMMA WayStep == WayInv /\ [Next]_vars => WayInv'
<1>. SUFFICES ASSUME WayInv, [Next]_vars
              PROVE  WayInv'
  OBVIOUS
<1>1. CASE UNCHANGED vars
  BY <1>1, KeysUntouched
  DEF vars, mysqlVars, WayInv, OwnRecords, OwnRecord, OwnRows, OwnRow
<1>2. CASE Next
  BY <1>2, ReportKeeps, NamesKeep, RemovedKeep, TakeKeeps, CommitKeeps, DropKeeps,
     RestartKeeps, LoadingKeeps
  DEF Next
<1>. QED
  BY <1>1, <1>2

LEMMA AlwaysWayInv == Spec => []WayInv
BY WayInit, WayStep, PTL DEF Spec

LEMMA InitTables == Init => TablesOK
<1>. SUFFICES ASSUME Init
              PROVE  TablesOK
  OBVIOUS
<1>1. mixed \in BOOLEAN
  BY Zenon DEF Init
<1>. QED
  BY <1>1, PersistenceAssumption DEF Init, TablesOK

\* Ids, rows, records and keys have their types, for any batches and bounds.
THEOREM PersistenceTypeCorrect == Spec => []TypeOK
<1>1. Init => TablesOK
  BY InitTables
<1>2. WayInv /\ TablesOK /\ [Next]_vars => TablesOK'
  BY TablesStep
<1>. QED
  BY <1>1, <1>2, TypesFollow, AlwaysWayInv, PTL DEF Spec

\* However batches mix up ids, transactions are retried and processes restart, no device
\* is given a position that another one has reported (SavePilotsBatch, LoadInitialPilots,
\* loadInitialData, SavePilot).
THEOREM PositionsAreOwn == Spec => []OwnPositions
BY WayShows, AlwaysWayInv, PTL

\* However many restarts there are, a position in Redis is at most two lifetimes old, less
\* an hour each (LoadInitialPilots, SavePilot), unless a name has prolonged its life.
THEOREM AgesAreBounded == Spec => []AgeBounded
<1>1. Init => AgeInv
  BY DEF Init, PilotInit, AgeInv, Dated
<1>2. WayInv /\ AgeInv /\ [Next]_vars => AgeInv'
  BY AgeStep
<1>3. WayInv /\ AgeInv => AgeBounded
  BY AgesShow
<1>. QED
  BY <1>1, <1>2, <1>3, AlwaysWayInv, PTL DEF Spec

\* As long as no transaction mixes names with positions, the last_position of a device is
\* a row of its newest position written, through retries, lost acknowledgements, gaps in
\* the ids and restarts (SavePilotsBatch).
THEOREM LastPositionsAreNewest == Spec => []LastIsNewest
<1>1. Init => OrderInv
  BY NoRecords DEF Init, OrderInv, InOrder, UntilNow, BatchIsFirst, RowsAreFirst
<1>2. Init => LastIsNewest
  BY DEF Init, LastIsNewest
<1>3. WayInv /\ TablesOK /\ [Next]_vars => TablesOK'
  BY TablesStep
<1>4. WayInv /\ OrderInv /\ [Next]_vars => OrderInv'
  BY OrderStep
<1>5. WayInv /\ TablesOK /\ OrderInv /\ LastIsNewest /\ [Next]_vars => LastIsNewest'
  BY NewestStep
<1>. QED
  BY <1>1, <1>2, <1>3, <1>4, <1>5, InitTables, AlwaysWayInv, PTL DEF Spec

\* The agreement of the three keys of PilotStore survives the load of old positions.
THEOREM LoadedAreShownWhereSaved == Spec => []ShownWhereSaved
<1>1. WayInv => ShownWhereSaved
  BY InvShows DEF WayInv
<1>. QED
  BY <1>1, AlwaysWayInv, PTL
=============================================================================
