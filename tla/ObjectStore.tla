----------------------------- MODULE ObjectStore -----------------------------
(***************************************************************************)
(* internal/repository/redis.go, what is on the ground or in the air around *)
(* the pilots: thermals, stations and ground objects.  Each kind has a geo  *)
(* index and an entry per object.  The kinds share no key, so a behaviour   *)
(* is about one of them; they differ in what gives the index its TTL, and   *)
(* in where an answer's position comes from.                               *)
(*                                                                         *)
(* The rows of MySQL, which SaveThermalsBatch and SaveStationsBatch write,  *)
(* come back in loadInitialData after a restart.                           *)
(***************************************************************************)
EXTENDS Integers, FiniteSets

CONSTANTS
  Source,      \* who reports: devices
  Spot,        \* positions, points of a line
  Mappable,    \* those with coordinates that Redis takes
  Nil,         \* no entry, no position
  TTL,         \* of an entry, per kind: 6, 24 and 4 hours; a station's is the longest
  MaxRows,     \* bound on the rows
  Midnight     \* bound on the clock

Kinds == {"thermal", "station", "ground"}

ASSUME ObjectStoreAssumption ==
  /\ Spot \subseteq Int /\ Mappable \subseteq Spot /\ Nil \notin Spot
  /\ TTL \in [Kinds -> Nat \ {0}] /\ \A k \in Kinds : TTL[k] <= TTL["station"]
  /\ MaxRows \in Nat /\ Midnight \in Nat

VARIABLES
  kind,     \* the kind this behaviour is about
  clock,    \* the hour
  members,  \* the geo index
  lapse,    \* when the index expires
  entries,  \* the entries
  rows      \* the table of MySQL

objectVars == <<kind, clock, members, lapse, entries, rows>>

\* A thermal that a device reports is named by the device and the time, a thermal that
\* MySQL gives back by the number of its row; the other kinds by their device.
LiveThermalId(s, t) == [from |-> "live", of |-> s, n |-> t]
LoadedThermalId(i)  == [from |-> "mysql", of |-> Nil, n |-> i]
DeviceId(s)         == [from |-> "device", of |-> s, n |-> 0]
Id ==
  {LiveThermalId(s, t) : s \in Source, t \in 0..Midnight}
  \cup {LoadedThermalId(i) : i \in 1..MaxRows} \cup {DeviceId(s) : s \in Source}

Forever == Midnight + TTL["station"] + 1
ObjectEntry   == [spot : Spot, expires : 0..Forever]
Row     == [id : Id, spot : Spot]

ObjectInit ==
  /\ kind    \in Kinds
  /\ clock   = 0
  /\ members = [i \in Id |-> Nil]
  /\ lapse   = Forever
  /\ entries = [i \in Id |-> Nil]
  /\ rows    = [n \in 1..MaxRows |-> Nil]

-----------------------------------------------------------------------------
(* The three saves.                                                         *)

Indexed(id, p) == IF p \in Mappable THEN [members EXCEPT ![id] = p] ELSE members
EntryFor(p)    == [spot |-> p, expires |-> clock + TTL[kind]]
Lasting        == clock + TTL[kind]

Empty(index) == \A i \in Id : index[i] = Nil

\* EXPIRE of a key that does not exist does nothing.
ThermalLapseOnce(id, p) ==
  IF Empty(Indexed(id, p)) THEN Forever ELSE IF lapse = Forever THEN Lasting ELSE lapse
ThermalLapse(id, p) == IF Empty(Indexed(id, p)) THEN Forever ELSE Lasting
StationLapse(id, p) == IF p \in Mappable THEN Lasting ELSE lapse
GroundLapse(id, p)  == lapse

Put(id, p) ==
  /\ members' = Indexed(id, p)
  /\ lapse'   = CASE kind = "thermal" -> ThermalLapse(id, p)
                  [] kind = "station" -> StationLapse(id, p)
                  [] kind = "ground"  -> GroundLapse(id, p)
  /\ entries' = [entries EXCEPT ![id] = EntryFor(p)]

IdOf(s) == IF kind = "thermal" THEN LiveThermalId(s, clock) ELSE DeviceId(s)

\* SaveThermalsBatch inserts a row per report, SaveStationsBatch one per station
\* (ON DUPLICATE KEY UPDATE); ground objects have no table.
FreeRow == {n \in 1..MaxRows : rows[n] = Nil /\ \A m \in 1..(n - 1) : rows[m] # Nil}
RowOf(id) == {n \in 1..MaxRows : rows[n] # Nil /\ rows[n].id = id}
WriteRow(id, p) ==
  \E n \in IF kind = "station" /\ RowOf(id) # {} THEN RowOf(id) ELSE FreeRow :
    rows' = [rows EXCEPT ![n] = [id |-> id, spot |-> p]]

\* A report is saved in Redis; the batch with its row follows, or is lost.
Report(s, p) ==
  /\ Put(IdOf(s), p)
  /\ \/ kind # "ground" /\ WriteRow(IdOf(s), p)
     \/ UNCHANGED rows
  /\ UNCHANGED <<kind, clock>>

\* DeleteGroundObject.
DeleteGroundObject(s) ==
  /\ kind = "ground"
  /\ members' = [members EXCEPT ![DeviceId(s)] = Nil]
  /\ entries' = [entries EXCEPT ![DeviceId(s)] = Nil]
  /\ lapse'   = lapse
  /\ UNCHANGED <<kind, clock, rows>>

\* loadInitialData after a restart: LoadInitialThermals and LoadInitialStations have no
\* condition on a row's age.  Stations without coordinates stay behind.
LoadedId(n) == IF kind = "thermal" THEN LoadedThermalId(n) ELSE rows[n].id
Load(n) ==
  /\ rows[n] # Nil
  /\ kind = "station" => rows[n].spot # 0
  /\ Put(LoadedId(n), rows[n].spot)
  /\ UNCHANGED <<kind, clock, rows>>

\* An hour passes.  A geo index that expires goes as a whole.
NextHour ==
  /\ clock < Midnight
  /\ clock'   = clock + 1
  /\ members' = IF lapse > clock + 1 THEN members ELSE [i \in Id |-> Nil]
  /\ lapse'   = IF lapse > clock + 1 THEN lapse ELSE Forever
  /\ entries' = [i \in Id |-> IF entries[i] = Nil \/ entries[i].expires > clock + 1
                              THEN entries[i] ELSE Nil]
  /\ UNCHANGED <<kind, rows>>

ObjectNext ==
  \/ \E s \in Source, p \in Spot : Report(s, p)
  \/ \E s \in Source : DeleteGroundObject(s)
  \/ \E n \in 1..MaxRows : Load(n)
  \/ NextHour

ObjectSpec == ObjectInit /\ [][ObjectNext]_objectVars

-----------------------------------------------------------------------------
(* Reading.                                                                 *)

Apart(p, q)  == IF p > q THEN p - q ELSE q - p
Found(c, r)  == {i \in Id : members[i] # Nil /\ Apart(members[i], c) <= r /\ entries[i] # Nil}

\* Thermals and stations are answered from their entries, ground objects have their
\* position in the index only.  (The counts of 500, 100 and 1000 are not reached.)
GetThermalsInRadius(c, r)      == {[id |-> i, spot |-> entries[i].spot] : i \in Found(c, r)}
GetStationsInRadius(c, r)      == {[id |-> i, spot |-> entries[i].spot] : i \in Found(c, r)}
GetGroundObjectsInRadius(c, r) == {[id |-> i, spot |-> members[i]] : i \in Found(c, r)}
InRadius(c, r) ==
  CASE kind = "thermal" -> GetThermalsInRadius(c, r)
    [] kind = "station" -> GetStationsInRadius(c, r)
    [] kind = "ground"  -> GetGroundObjectsInRadius(c, r)

\* GetAllStations lists the keys and asks no index; the other kinds have no such call.
GetAllStations == {[id |-> i, spot |-> entries[i].spot] : i \in {j \in Id : entries[j] # Nil}}

-----------------------------------------------------------------------------
(* Properties.                                                              *)

\* The type of every variable.
ObjectTypeOK ==
  /\ kind    \in Kinds
  /\ clock   \in 0..Midnight
  /\ members \in [Id -> Mappable \cup {Nil}]
  /\ lapse   \in 0..Forever
  /\ entries \in [Id -> ObjectEntry \cup {Nil}]
  /\ rows    \in [1..MaxRows -> Row \cup {Nil}]

\* The index is one key with one TTL for all the objects of its kind, and outlives each
\* of them: an object is found where it was last seen for as long as its entry lives,
\* whatever is saved, deleted or loaded before and after it.
FoundWhileAlive ==
  \A o \in GetAllStations : o.spot \in Mappable => o \in InRadius(o.spot, 0)

\* A report without usable coordinates leaves the object in the index at its old place:
\* it is the only way for an answer to lie outside of the radius asked for.
AnswersAreNear ==
  \A c \in Mappable : \A o \in InRadius(c, 1) : Apart(o.spot, c) <= 1 \/ o.spot \notin Mappable

\* A query answers with the objects that are there and alive, and with no others.
ObjectsAreFound == FoundWhileAlive /\ AnswersAreNear
=============================================================================
